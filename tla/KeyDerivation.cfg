SPECIFICATION Spec
CONSTANTS
    HashLen = 2
    ByteRadix = 4
    InBuf = 6
    MaxSeed = 2
    Labels <- MCLabels
    Seeds <- MCSeeds
    PbkdfLen = 2
    NumberRadix = 2
    BeSize = 2
    Salts <- MCSalts
    Prefix <- MCPrefix
    LabelBuf = 8
    Names <- MCNames
    BlockSize = 4
    DigestSize <- MCDigestSize
    HmacKeys <- MCHmacKeys
    Texts <- MCTexts
    Seqs <- MCSeqs
    Ivs <- MCIvs
    MaxOut = 11
    MaxIter = 3
    MaxLabelled = 7
INVARIANTS
    OutputIsPrefix
    BlocksDiffer
    FailureLeavesOneBlock
    LabelSeparates
    ImplementsHmac
    Unambiguous
    KeyPerSection
    NonceDiffers
