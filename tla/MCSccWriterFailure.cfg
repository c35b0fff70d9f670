\* A failure below a constructor.
CONSTANTS
    vx = vx
    vy = vy
    vu = vu
    vw = vw
    vt = vt
    pf = pf
    pg = pg
    cz = cz
    cs = cs
    cv = cv
    bit = bit
    na = na
    Var = {vx, vy, vu, vw, vt}
    Progs <- MCProgs
    Params <- MCParams
    Addr <- MCAddr
    Name <- MCName
    LongRange = 8
    Signatures <- MCFailure
SPECIFICATION Spec
INVARIANTS Equivalent
CHECK_DEADLOCK FALSE
