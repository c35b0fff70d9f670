\* Recursive programs, cached functions and arithmetic.
CONSTANTS
    vx = vx
    vy = vy
    vu = vu
    vw = vw
    vk = vk
    pf = pf
    pg = pg
    ph = ph
    cz = cz
    cs = cs
    cv = cv
    bit = bit
    na = na
    Var = {vx, vy, vu, vw, vk}
    Prog = {pf, pg, ph}
    Params <- MCParams
    Addr <- MCAddr
    Signatures <- MCSignatures
    Pieces <- MCPieces
    MaxFrames = 20
    StartMarks <- MCStartMarks
    Sem <- MCSem
    Free <- MCFree
    Objects <- MCObjects
    Arity <- MCArity
SPECIFICATION FairSpec
INVARIANTS TypeOK ReturnsMeaning ArgsIntact ValsRestored CachedOnce CachedMeaning
PROPERTIES Terminates
CHECK_DEADLOCK FALSE
