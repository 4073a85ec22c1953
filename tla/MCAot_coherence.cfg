CONSTANTS
    Pages = {0, 1}
    Cells = {0, 1, 2}
    PageOf <- MCPageOf
    Instrs = {"in0", "across", "in1"}
    Covers <- MCCovers
    Home <- MCHome
    Long <- MCLong
    Images <- MCImages
    Ranges <- MCRanges
    HleRanges <- MCHleRanges
    MaxGeneration = 3
    FailureCapacity = 1
SPECIFICATION Spec
CHECK_DEADLOCK FALSE
INVARIANTS
    NoStaleCode
    QuarantineHolds
    OneJump
