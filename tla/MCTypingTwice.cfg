\* A lambda that is applied to two terms in the type of a rule.
CONSTANTS
    MaxRefCount = 100
    Names <- MCNames
    Files <- TwiceFiles
    MaxInputs = 1
    Fillers <- FirstFillers
SPECIFICATION Spec
CHECK_DEADLOCK FALSE
INVARIANTS Sound
