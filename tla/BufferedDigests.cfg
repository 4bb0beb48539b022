SPECIFICATION Spec
CONSTANTS
    BlakeBlock = 4
    BlakeRadix = 8
    KeyLens = {0, 3}
    OutLens = {2}
    PolyBlock = 3
    UintRadix = 32
    Keys = {k1, k2}
    NoKey = k0
    ShaBlock = 4
    LenBytes = 2
    ByteRadix = 8
    MaxLog = 6
    GostBlock = 4
    GostRadix = 1024
    StreebogBlock = 4
    StreebogLog = 9
    MaxTaken = 13
INVARIANTS
    StateIsPrefix
PROPERTY
    ImplementsDigest
