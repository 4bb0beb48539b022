SPECIFICATION Spec
CONSTANTS
    StreamBlock = 3
    OtkSize = 2
    MacBlock = 2
    CtrRadix = 8
    UintRadix = 16
    NonceWords = {1, 2}
    ChaChaMessages <- MCChaChaMessages
    BlockSize = 2
    HalfRadix = 8
    Nonces = {1, 2}
    MgmMessages <- MCMgmMessages
    TagSize = 2
    Ads <- MCAds
    KeySize = 2
    MacSize = 2
    IvBytes <- MCIvBytes
    WrapKeys = {1, 2}
    Keys = {1, 2}
INVARIANTS
    RejectionReleasesNothing
PROPERTY
    ImplementsAE
