\* Terms and code of every form, under the commands that bind no name for good.
CONSTANTS
    Id = {x, y}
    NoId = NoId
    Sym = {s1, s2, s3, s4, s5}
    NoSym = NoSym
    TailCalls = TRUE
    Forms = {"leaf", "!", "%", "lambda", ":", "@", "app", "->", "#", "^", "~"}
    Commands = {"check", "run", "program"}
    MaxFrames = 5
    MaxOpen = 2
    MaxLog = 2
SYMMETRY Symmetry
SPECIFICATION Spec
INVARIANTS TypeOK ScopesRestored ParensNested CreateEatsItsParens RunOnlyInDomain
PROPERTIES ActivationRestores
CHECK_DEADLOCK FALSE
