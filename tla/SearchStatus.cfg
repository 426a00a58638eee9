SPECIFICATION Spec
CONSTANTS
    Search = {s1, s2}
    User = {u1}
    Empty = Empty
    Torn = Torn
    Nobody = Nobody
    PostAmount = 1
    Overlap = FALSE
    OffTool = {}
    Faults = FALSE
SYMMETRY Symmetry
INVARIANT StatusNamesOwnGuesses
