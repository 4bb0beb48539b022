SPECIFICATION Spec
CONSTANTS
    Inputs <- MCInputs
    Null = Null
INVARIANTS
    RoundsRetraced
    StandardVectors
    ProductInField
