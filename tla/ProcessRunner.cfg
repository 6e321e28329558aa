SPECIFICATION FairSpec
CONSTANTS
    Children = {c1, c2}
    MaxWrites = 1
    None = None
INVARIANTS
    TypeOK
    CompletedRunIsWhole
    NothingOutlivesTheCall
PROPERTIES
    RunEnds
