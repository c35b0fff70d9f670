---------------------------- MODULE MCSccWriter ----------------------------
(***************************************************************************)
(* Instances of SccWriter for TLC: programs over natural numbers in unary, *)
(* over symbols and over numbers, compared with the meaning of their code. *)
(***************************************************************************)
EXTENDS SccWriter, CodeMeaning

CONSTANTS vx, vy, vu, vw, vt,   \* variables: x, y, u, w, and another y
          pf, pg,               \* programs: f of x, g of u and w
          cz, cs, cv,           \* symbols: z, s and v
          bit,                  \* the number of a mark
          na                    \* what an op without a parameter is about

MCProgs == <<pf, pg>>
MCParams == (pf :> <<vx>>) @@ (pg :> <<vu, vw>>)
MCAddr == (cz :> 1) @@ (cs :> 2) @@ (cv :> 3)
MCName == (vx :> <<120>>) @@ (vy :> <<121>>) @@ (vu :> <<117>>) @@ (vw :> <<119>>)
          @@ (vt :> <<121>>) @@ (cz :> <<122>>) @@ (cs :> <<115>>) @@ (cv :> <<118>>)

Ps == [body |-> body, params |-> Params, functions |-> {}]

\* A program that is run compiled returns what its code means, and leaves the
\* same marks, and returns nothing if the code fails, whether it returns a null
\* pointer, exits or crashes.
Equivalent ==
    result # <<>> =>
        LET m == Meaning(Ps, body[result.prog],
                         Store(NoVals, Params[result.prog], result.vs), {}, FALSE)
        IN  IF result.ret = 0 THEN m.r = NullVal /\ result.status # "undefined"
            ELSE m = Outcome(Denote(result.heap, result.ret), result.marks)

-----------------------------------------------------------------------------
V(q) == Node("var", q, <<>>)
L(s) == Literal(SymObj(s))
Fail == Node("fail", na, <<>>)
F(e) == Node("call", pf, <<e>>)
G(d, e) == Node("call", pg, <<d, e>>)
Succ(e) == Node("con", cs, <<e>>)
Do(d, e) == Node("do", na, <<d, e>>)
Let(q, d, e) == Node("let", q, <<d, e>>)
Op(op, es) == Node(op, na, es)
MatchNat(e, e0, q, e1) ==
    Node("match", <<[c |-> cz, xs |-> <<>>], [c |-> cs, xs |-> <<q>>]>>, <<e, e0, e1>>)
MatchSucc(e, q, e1, other) ==
    Node("match", <<[c |-> cs, xs |-> <<q>>], [c |-> "default", xs |-> <<>>]>>, <<e, e1, other>>)

Zero == SymVal(cz)
One == AppVal(cs, <<Zero>>)
Two == AppVal(cs, <<One>>)

Signature(f, g, as, bs) == [body |-> (pf :> f) @@ (pg :> g), args |-> (pf :> as) @@ (pg :> bs)]

\* f recurses on its argument and calls g, that may fail
Unary ==
    LET A == {V(vx), V(vy), L(cz), Fail, F(V(vy)), G(V(vy), V(vx)), Succ(V(vy)), G(F(V(vy)), Succ(V(vx)))}
        B == A \cup {Do(a, b) : a \in A, b \in A}
               \cup {Let(vw, a, Op("ifequal", <<V(vw), V(vy), b, V(vw)>>)) : a \in A, b \in A}
        C == {V(vu), Fail, Succ(Succ(V(vw))), MatchSucc(V(vu), vt, V(vt), V(vw)),
              MatchNat(V(vw), V(vu), vt, G(V(vu), V(vt)))}
    IN  {Signature(MatchNat(V(vx), e0, vy, e1), g, {<<Zero>>, <<Two>>}, {}) :
            e0 \in {L(cz), V(vx), Fail}, e1 \in B, g \in C}


\* f marks, tests and compares symbols
Marks ==
    LET mark(e) == Node("markvar", bit, <<e>>)
        A == {V(vx), L(cv), mark(V(vx)), G(V(vx), V(vx))}
    IN  {Signature(Do(a, Let(vy, b, Node("ifmarked", bit, <<V(vy), c, Fail>>))),
                   Op("compare", <<V(vu), V(vw), d, mark(V(vw))>>),
                   {<<Zero>>, <<SymVal(cv)>>}, {<<SymVal(cv), Zero>>, <<Zero, SymVal(cv)>>}) :
            a \in A, b \in A, c \in A, d \in {V(vw), mark(V(vu)), Fail}}

\* arithmetic on integers and on rationals
Ints == {IntVal(-3), IntVal(0), IntVal(2)}
Rats == {RatVal(0, 1), RatVal(-3, 2), RatVal(1, 3)}

Numbers ==
    LET A == {V(vx), Op("neg", <<V(vx)>>), G(V(vx), Op("neg", <<V(vx)>>)), Fail}
        tests == {Op(op, <<a, b, Op("mul", <<V(vx), V(vx)>>)>>) :
                     op \in {"ifneg", "ifzero"}, a \in A, b \in A}
        g(op) == Op(op, <<V(vu), V(vw)>>)
    IN  {Signature(f, g(op), {<<n>> : n \in Ints}, Ints \X Ints) :
            f \in tests, op \in {"add", "mul"}}
        \cup {Signature(f, g(op), {<<n>> : n \in Rats}, Rats \X Rats) :
                 f \in tests, op \in {"add", "mul", "div"}}
        \cup {Signature(Let(vw, Op("to_q", <<V(vx)>>), Op("div", <<V(vw), V(vw)>>)), Fail,
                        {<<n>> : n \in Ints}, {})}

MCSignatures == Unary \cup Marks \cup Numbers

-----------------------------------------------------------------------------
\* a program that fails below a constructor
MCFailure == {Signature(MatchNat(V(vx), Fail, vy, Do(Succ(F(V(vy))), V(vx))), V(vu), {<<One>>}, {})}
=============================================================================
