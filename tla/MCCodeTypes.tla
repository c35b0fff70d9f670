----------------------------- MODULE MCCodeTypes -----------------------------
(***************************************************************************)
(* Instances of CodeTypes for TLC: programs over nat, with z, v : nat and  *)
(* s : nat -> nat, and over pair, with c : nat -> mpz -> pair.             *)
(***************************************************************************)
EXTENDS CodeTypes, TLC

CONSTANTS tnat, tpair,         \* types: nat, pair
          cz, cv, cs, cc,      \* symbols: z, v, s, c
          pf, pg, vx, vy, vi,  \* programs f and g, variables x, y and i
          n0, n1, n2, n3,      \* numerals
          na                   \* what an op without a parameter is about

NatType == Base(tnat)
Pair == Base(tpair)

MCSignature ==
    (tnat :> TypeType) @@ (tpair :> TypeType) @@ (cz :> NatType) @@ (cv :> NatType)
    @@ (cs :> Pi(<<NatType>>, NatType)) @@ (cc :> Pi(<<NatType, Mpz>>, Pair))

MCNumerals == (n0 :> IntVal(0)) @@ (n1 :> IntVal(1)) @@ (n2 :> IntVal(2)) @@ (n3 :> IntVal(3))

MCVar == DOMAIN MCSignature \cup {mpz, mpq, pf, pg, vx, vy, vi}
MCAddr == [n \in MCVar |-> CASE n = cz -> 1 [] n = cv -> 2 [] OTHER -> 3]

\* code as it is written
N(n) == Node("name", n, <<>>)
Num(n) == Node("number", n, <<>>)
App1(h, a) == Node("app", h, <<a>>)
App2(h, a, b) == Node("app", h, <<a, b>>)
Op(op, kids) == Node(op, na, kids)
FailOf(n) == Op("fail", <<N(n)>>)
Let(x, a, b) == Node("let", x, <<a, b>>)
Case0(c) == [c |-> c, xs |-> <<>>]
Case1(c, x) == [c |-> c, xs |-> <<x>>]
Match(a, cases, bodies) == Node("match", cases, <<a>> \o bodies)

Prog(name, xs, tps, ret, body) ==
    [name |-> name, xs |-> xs, tps |-> tps, ret |-> ret, body |-> body]

\* what a program of a parameter x may compute, well typed or not
Small == {N(vx), N(cz), Num(n2), App1(cs, N(vx)), App2(cc, N(vx), Num(n1)), App1(pg, N(vx)),
          FailOf(tnat), FailOf(tpair), FailOf(mpz), Op("add", <<Num(n1), N(vx)>>)}

Bodies ==
    Small
    \cup {Let(vy, a, b) : a \in Small, b \in {N(vy), App1(cs, N(vy)), Op("add", <<N(vy), Num(n1)>>),
                                               Op("to_q", <<N(vy)>>), App2(cc, N(cz), N(vy))}}
    \* a variable with the name of the type, and of a constructor
    \cup {Let(n, a, b) : n \in {tnat, cs}, a \in {N(vx), N(cz), Num(n2)},
                         b \in {N(tnat), N(cs), App1(cs, N(cz)), FailOf(tnat), Op("markvar", <<N(vx)>>)}}
    \cup {Match(N(vx), <<Case0(cz), Case1(cs, vy)>>, <<a, b>>) :
            a \in Small, b \in {N(vy), N(vx), App1(pf, N(vy)), App1(cs, App1(pf, N(vy))),
                                Let(vx, App1(pf, N(vy)), N(vx)), App2(cc, N(vy), Num(n0))}}
    \cup {Match(N(vx), <<[c |-> cc, xs |-> <<vy, n>>], Case0("default")>>, <<a, b>>) :
            n \in {vi, vy}, a \in {N(vy), N(vi), N(vx), App2(cc, N(vy), Op("neg", <<N(vi)>>))},
            b \in {N(vx), N(cz), Num(n0)}}
    \cup {Op(op, <<a, b, N(vx), c>>) : op \in {"ifequal", "compare"}, a \in {N(vx), N(cv)},
                                       b \in {N(cz), Num(n1), App1(pg, N(cz))}, c \in {N(cv), Num(n3)}}
    \cup {Op(op, <<a, b, c>>) : op \in {"ifneg", "ifzero", "ifmarked"}, a \in {N(vx), Num(n0)},
                                b \in {N(vx), Num(n1)}, c \in {N(cz), Num(n2)}}
    \cup {Op("do", <<Op("markvar", <<a>>), b>>) : a \in {N(vx), N(cv), N(pg)}, b \in {N(vx), N(pf), N(cc)}}

MCTypes == {NatType, Pair, Mpz}
FPrograms == {Prog(pf, <<vx>>, <<tp>>, ret, b) : tp \in MCTypes, ret \in MCTypes, b \in Bodies}

\* g, a program with the name of a constructor, and parameters with a meaning
GPrograms ==
    {Prog(pg, <<vx>>, <<tp>>, tp, b) : tp \in {NatType, Mpz}, b \in {N(vx), App1(pf, N(vx))}}
    \cup {Prog(cs, <<vx>>, <<NatType>>, ret, b) : ret \in {NatType, Mpz}, b \in {N(vx), Num(n1), App1(pg, N(vx))}}
    \cup {Prog(pg, xs, <<NatType, Mpz>>, Pair, App2(cc, N(vx), N(vy))) :
            xs \in {<<vx, vy>>, <<vx, vx>>, <<vx, cz>>}}

MCPrograms == FPrograms \cup GPrograms

MCRuns ==
    {App1(pf, a) : a \in {N(cz), N(cv), Num(n2), App1(cs, App1(cs, N(cz))), App2(cc, N(cv), Num(n3))}}
    \cup {App2(pg, N(cz), App1(pf, Num(n2))), App1(cs, N(cv))}

=============================================================================
