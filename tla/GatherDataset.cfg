SPECIFICATION LiveSpec
CONSTANTS
    w1 = w1
    w2 = w2
    sweater1 = sweater1
    sweater2 = sweater2
    vest = vest
    sweaterJpg = sweaterJpg
    vestJpg = vestJpg
    Weight = {w1, w2}
    Batch = {b1}
    Shared = Shared
    Room = 1
    Photo = {sweater1, sweater2, vest}
    Of <- MCOf
    File = {sweaterJpg, vestJpg}
    Path <- MCPath
    Empty = Empty
    Before = Before
INVARIANTS
    TypeOK
    NoSenderStuck
    NoIdsLost
    NoneWaitsForAll
    NoEmptyFileLeft
    WholeUnlessShared
PROPERTY EveryStageEnds
\* A refused search leaves goroutines waiting, and a panic ends them all.
CHECK_DEADLOCK FALSE
