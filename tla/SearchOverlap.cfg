SPECIFICATION Spec
CONSTANTS
    Search = {s1, s2}
    User = {u1}
    Empty = Empty
    Torn = Torn
    Nobody = Nobody
    PostAmount = 1
    Overlap = TRUE
    OffTool = {}
    Faults = TRUE
SYMMETRY Symmetry
INVARIANT TypeOK
INVARIANT GuessedPageHadBothChats
INVARIANT KeptSearchIsWhole
INVARIANT NoOrphanedHistory
INVARIANT QueryIsLabelled
INVARIANT ShownStatusStays
PROPERTY HistoryOnlyGrows
PROPERTY ImplementsHistory
