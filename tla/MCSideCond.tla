----------------------------- MODULE MCSideCond -----------------------------
(***************************************************************************)
(* Instances of SideCond for TLC: programs over natural numbers in unary,  *)
(* z and (s n), compared with the meaning of their code.                   *)
(***************************************************************************)
EXTENDS SideCondMeaning, CodeMeaning, TLC

CONSTANTS vx, vy, vu, vw, vk,  \* variables: x, y, u, w, k
          pf, pg, ph,          \* programs: f, g, h
          cz, cs, cv,          \* two constructors, z and s, and a symbol
          bit,                 \* the number of a mark
          na                   \* what an op without a parameter is about

MCParams == (pf :> <<vx>>) @@ (pg :> <<vu>>) @@ (ph :> <<vk>>)
MCStartMarks == {<<bit, cv>>}
MCAddr == (cz :> 1) @@ (cs :> 2) @@ (cv :> 3)

-----------------------------------------------------------------------------
\* the relation that a recursive definition of the meaning of code computes
MCSem(ps, e, env, mk, fn, r, mk2) == Meaning(ps, e, env, mk, fn) = Outcome(r, mk2)

\* A function differs from a program only in that its results are cached:
\* run_code() returns what the code means, without exception.
CacheTransparent ==
    mode = "done" => cur.v = Meaning(Ps, code, NoVals, StartMarks, FALSE).r

\* What the cache holds for a call is what its program means when nothing is
\* cached and nothing refused, whatever the marks: they are not part of the key, so
\* the entry may be used after they have changed.  Until a call leaves a parameter
\* bound.
CachedMeaning ==
    stale = {} =>
      \A k \in DOMAIN cache : \A mk \in SUBSET StartMarks :
        LET env == Store(NoVals, Params[k[1]], Denoted(k[2]))
        IN  Meaning([Ps EXCEPT !.functions = {}], body[k[1]], env, mk, FALSE).r = cache[k].v

\* Every run of these programs, which recurse on smaller numbers, ends.
Terminates == <>(mode = "done")

-----------------------------------------------------------------------------
(* The code that is run *)

V(q) == Node("var", q, <<>>)
L(q) == Literal(q)
Z == L(SymObj(cz))
\* the objects of (define one (s z)) and (define two (s one))
One == Obj(AppVal(cs, <<SymVal(cz)>>), -1, <<SymObj(cz)>>)
Two == Obj(AppVal(cs, <<One.v>>), -2, <<One>>)
Fail == Node("fail", na, <<>>)
CallOf(p, e) == Node("call", p, <<e>>)
Succ(e) == Node("con", cs, <<e>>)
Mark(e) == Node("markvar", bit, <<e>>)

\* (match x (z e0) ((s y) e1))
MatchX(e0, e1) ==
    Node("match", <<[c |-> cz, xs |-> <<>>], [c |-> cs, xs |-> <<vy>>]>>, <<V(vx), e0, e1>>)

\* what the case (s y) of f may do: use x and y before and after calling f
Steps ==
    LET A == {V(vx), V(vy), CallOf(pf, V(vy)), CallOf(pg, V(vy)), CallOf(ph, V(vy)),
              Succ(CallOf(pf, V(vy)))}
    IN  A \cup {Node("do", na, <<a, b>>) : a \in A, b \in A}
          \cup {Node("let", vw, <<a, Node("ifequal", na, <<V(vw), b, V(vx), V(vy)>>)>>) :
                  a \in A, b \in A}

FBodies == {MatchX(e0, e1) : e0 \in {Z, Fail}, e1 \in Steps}

\* g, called by f, may shadow, mark or fail; h is the identity
GBodies ==
    {V(vu), Fail, Node("ifmarked", bit, <<L(SymObj(cv)), V(vu), Z>>),
     Node("do", na, <<Mark(L(SymObj(cv))), V(vu)>>),
     Node("match", <<[c |-> cs, xs |-> <<vw>>], [c |-> "default", xs |-> <<>>]>>,
          <<V(vu), V(vw), V(vu)>>)}

Bodies == {(pf :> bf) @@ (pg :> bg) @@ (ph :> V(vk)) : bf \in FBodies, bg \in GBodies}

Codes ==
    {CallOf(pf, L(Two)),
     Node("compare", na, <<CallOf(pf, L(One)), L(SymObj(cv)), CallOf(pf, L(Two)), Z>>),
     Node("do", na, <<CallOf(pf, L(One)), Node("ifequal", na,
          <<CallOf(pf, L(Two)), CallOf(pf, L(One)), CallOf(pg, Z), Fail>>)>>),
     Node("ifmarked", bit, <<CallOf(pf, L(One)), Z, Mark(CallOf(pf, L(Two)))>>)}

\* arithmetic, with every class of operand
Numbers == {IntVal(-3), IntVal(0), IntVal(2), RatVal(0, 1), RatVal(-3, 2), RatVal(1, 3), SymVal(cz)}

Arithmetic ==
    LET lits == {L(Obj(n, -1, <<>>)) : n \in Numbers}
        ints == {L(Obj(IntVal(n), -1, <<>>)) : n \in {-3, 0, 2}}
        terms == lits \cup {Node("neg", na, <<a>>) : a \in lits}
                      \cup {Node("to_q", na, <<a>>) : a \in ints}
                      \cup {Node(op, na, <<a, b>>) : op \in {"add", "mul", "div"}, a \in lits, b \in lits}
    IN  {Node(op, na, <<a, L(SymObj(cv)), Node("let", vw, <<a, Node("add", na, <<V(vw), V(vw)>>)>>)>>) :
            op \in {"ifneg", "ifzero"}, a \in terms}

\* code and its kids
WithKids(es) == es \cup UNION {Range(e.kids) : e \in es}

\* nothing here is nested more deeply
MCPieces ==
    WithKids(WithKids(WithKids(WithKids(
        FBodies \cup GBodies \cup {V(vk)} \cup Codes \cup Arithmetic))))

-----------------------------------------------------------------------------
(* Scopes and objects of this code *)

RECURSIVE MCFree(_)
MCFree(e) ==
    (IF e.op = "var" THEN {e.a} ELSE {})
      \cup UNION {MCFree(e.kids[i]) \ BoundIn(e, i) : i \in DOMAIN e.kids}

MCObjects == {SymObj(cz), SymObj(cv), One, Two} \cup {Obj(n, -1, <<>>) : n \in Numbers}
MCArity == (cz :> 0) @@ (cs :> 1)

-----------------------------------------------------------------------------
Signature(bd, fs, cds) == [body |-> bd, functions |-> fs, codes |-> cds]

\* Recursive programs; the same with f and g cached, and h a program that they
\* must not call; arithmetic that calls nothing.
MCSignatures ==
    {Signature(bd, fs, Codes) : bd \in Bodies, fs \in {{}, {pf, pg}}}
      \cup {Signature(CHOOSE bd \in Bodies : TRUE, {}, Arithmetic)}

MCCached == {Signature(bd, {pf}, Codes) : bd \in Bodies}
=============================================================================
