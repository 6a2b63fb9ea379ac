CONSTANTS
    n1 = n1  n2 = n2  n3 = n3  n4 = n4  n5 = n5  n6 = n6
    Addrs = {1, 2, 3}
    SpendingKeyAddrs = {1, 2}
    Notes <- MCNotes
    NoteAddr <- MCNoteAddr
    NoteValue <- MCNoteValue
    NoteHeight <- MCNoteHeight
    MissingWitness = {n5}
    MinDepth = 2
    ExpiryDelta = 2
    ActivationHeights = {5}
    TxFee = 2
    TargetCount = 2
    MaxQuantities = {2}
    MinQuantities = {2, 3}
    ConsolidationMapUsed = FALSE
    AllowList = {}
    ConsolidationInterval = 1
    MaxHeight = 4
    MaxLaunches = 3
SPECIFICATION Spec
INVARIANT ExpiryBeforeUpgrade

