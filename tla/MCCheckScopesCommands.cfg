\* The commands that bind names or take declaration lists.
CONSTANTS
    Id = {x, y}
    NoId = NoId
    Sym = {s1, s2, s3, s4, s5}
    NoSym = NoSym
    TailCalls = TRUE
    Forms = {"leaf", "->", "lambda", "%", "app"}
    Commands = {"check", "declare", "define", "opaque", "check-assuming", "declare-rule", "declare-type", "define-const"}
    MaxFrames = 4
    MaxOpen = 2
    MaxLog = 2
SYMMETRY Symmetry
SPECIFICATION Spec
INVARIANTS ScopesRestored CreateEatsItsParens
PROPERTIES ActivationRestores
CHECK_DEADLOCK FALSE
