\* Programs whose names and constants the compiler has no trouble with.
CONSTANTS
    vx = vx
    vy = vy
    vu = vu
    vw = vw
    vt = vt
    pf = pf
    pg = pg
    cz = cz
    cs = cs
    cv = cv
    bit = bit
    na = na
    Var = {vx, vy, vu, vw, vt}
    Progs <- MCProgs
    Params <- MCParams
    Addr <- MCAddr
    Name <- MCName
    LongRange = 8
    Signatures <- MCSignatures
SPECIFICATION Spec
INVARIANTS Equivalent Balanced Compiles
CHECK_DEADLOCK FALSE
