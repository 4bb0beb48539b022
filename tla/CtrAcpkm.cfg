\* Blocks of two bytes, a counter block of four bits with an iv of two, and sections
\* of no, one, one and a half, two and three blocks: texts of up to ten blocks carry
\* into the iv and wrap the whole counter.
SPECIFICATION Spec
CONSTANTS
    BlockSize = 2
    CtrSize = 4
    IvSize = 2
    Radix = 2
    Sections = {0, 2, 3, 4, 6}
    MaxLen = 20
INVARIANTS
    TypeOK
    SectionsRekeyed
    NoStreamReuse
    IvSeparates
