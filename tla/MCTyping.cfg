\* Two commands after a first-order signature, and after one with predicates.
CONSTANTS
    MaxRefCount = 5
    Names <- MCNames
    Files <- MCFiles
    MaxInputs = 2
    Fillers <- FirstFillers
SPECIFICATION Spec
CHECK_DEADLOCK FALSE
INVARIANTS TypeOK Sound Complete GlobalsKept Counted Defined
