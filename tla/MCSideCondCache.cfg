\* A function whose cached results are used.
CONSTANTS
    vx = vx
    vy = vy
    vu = vu
    vw = vw
    vk = vk
    pf = pf
    pg = pg
    ph = ph
    cz = cz
    cs = cs
    cv = cv
    bit = bit
    na = na
    Var = {vx, vy, vu, vw, vk}
    Prog = {pf, pg, ph}
    Params <- MCParams
    Addr <- MCAddr
    Signatures <- MCCached
    Pieces <- MCPieces
    MaxFrames = 20
    StartMarks <- MCStartMarks
    Sem <- MCSem
    Free <- MCFree
    Objects <- MCObjects
    Arity <- MCArity
SPECIFICATION FairSpec
INVARIANTS CacheTransparent
CHECK_DEADLOCK FALSE
