SPECIFICATION Spec
CONSTANTS
    OmacBlock = 2
    OmacBytes = {0, 128}
    CfbBlock = 2
    MeshSize = 4
    PbeBlock = 2
    Bits = 2
    InputSize = 12
    HashBlock = 4
    PbeLens <- MCPbeLens
    TextValues = {1, 2}
    BagBlock = 2
    KeySize = 1
    KeyLens = {4, 6}
    ByteRadix = 2
    MinSalt = 1
    MaxIter = 5
    Passwords <- MCPasswords
    Salts <- MCSalts
    Iters = {0, 1, 4, 5, 6}
    BagLens = {4, 5, 6}
    ImitBlock = 2
    WordRadix = 2
    Values <- MCValues
    States <- MCStates
    MaxOmac = 4
    MaxCfb = 9
    MaxText = 4
    MaxRoom = 7
INVARIANTS
    ConcatenationAuthenticated
    Unambiguous
    OutputIsPrefix
    DamageIsLocal
    Recovers
    FailureContained
    MacSeparates
