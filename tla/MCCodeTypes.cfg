SPECIFICATION Spec
CONSTANTS
    mpz = mpz
    mpq = mpq
    tnat = tnat
    tpair = tpair
    cz = cz
    cv = cv
    cs = cs
    cc = cc
    pf = pf
    pg = pg
    vx = vx
    vy = vy
    vi = vi
    n0 = n0
    n1 = n1
    n2 = n2
    n3 = n3
    na = na
    Var <- MCVar
    Numerals <- MCNumerals
    Addr <- MCAddr
    Signature <- MCSignature
    Programs <- MCPrograms
    Runs <- MCRuns
    MaxCommands = 3
INVARIANTS
    TypeSound
    StaysTyped
CHECK_DEADLOCK FALSE
