SPECIFICATION LiveSpec
CONSTANTS
    Search = {s1, s2}
    User = {u1}
    Empty = Empty
    Torn = Torn
    Nobody = Nobody
    PostAmount = 1
    Overlap = FALSE
    OffTool = {s2}
    Faults = FALSE
INVARIANT OwnGuesses
INVARIANT PageIsInHistory
PROPERTY EverySearchAnswered
