------------------------------ MODULE MCTyping ------------------------------
(***************************************************************************)
(* Inputs for Typing, and what its checker promises: LF accepts what it    *)
(* accepts and nothing that it rejects.                                    *)
(***************************************************************************)
EXTENDS Typing

CONSTANT Fillers  \* the terms that a hole may stand for

L == INSTANCE LF

Tree(t, x, s) == [t |-> t, x |-> x, s |-> s]
Id(x) == Tree("id", x, <<>>)
Hole == Tree("hole", "", <<>>)
Ap(f, args) == Tree("app", "", <<Id(f)>> \o args)
PiT(x, d, b) == Tree("pi", x, <<d, b>>)
LamT(x, b) == Tree("lam", x, <<b>>)
ALamT(x, d, b) == Tree("alam", x, <<d, b>>)
BigT(x, d, b) == Tree("big", x, <<d, b>>)
LetT(x, d, b) == Tree("let", x, <<d, b>>)
Arrow(items, b) == Tree("arrow", "", items \o <<b>>)
Item(x, ty) == Tree("item", x, <<ty>>)
List(s) == Tree("list", "", s)
Asc(ty, b) == Tree("asc", "", <<ty, b>>)

Cmd(c, x, t) == [c |-> c, x |-> x, t |-> t]
Decl(x, t) == Cmd("declare", x, t)
Chk(t) == Cmd("check", "", t)

-----------------------------------------------------------------------------
(* What the table says a name stands for: a variable bound on the way is   *)
(* that variable whatever its value, as in clone().                        *)
RECURSIVE ReadBack(_, _)

ReadBody(o, v, bs) == L!Close(ReadBack(Last(o.kids), bs \cup {v}), 0, v)

ReadBack(e, bs) ==
    LET o == h[e]
        v == o.kids[1]
    IN  CASE e \in bs -> L!Free(e)
          [] o.val # Null -> ReadBack(o.val, bs)
          [] o.cls = "hole" -> L!Con("_")
          [] o.cls = "sym" -> IF symbols[o.name].v = e THEN L!Con(o.name) ELSE L!Free(e)
          [] o.op = "lam" -> L!Lam(ReadBody(o, v, bs))
          [] o.op = "pi" -> L!Pi(ReadBack(o.kids[2], bs), ReadBody(o, v, bs))
          [] o.op = "app" -> FoldLeft(LAMBDA f, kid : L!Apply(f, ReadBack(kid, bs)),
                                      ReadBack(v, bs), Tail(o.kids))
          [] OTHER -> L!Con(o.op)

Reachable ==
    LET next(e) == (IF h[e].val = Null THEN {} ELSE {h[e].val}) \cup ToSet(h[e].kids)
        RECURSIVE From(_)
        From(es) == LET more == es \cup UNION {next(e) : e \in es}
                    IN  IF more = es THEN es ELSE From(more)
    IN  From(UNION {{symbols[x].v, symbols[x].t} : x \in Names} \ {Null})

Pointers(e) ==
    LET inKids(f) == Len(SelectSeq(h[f].kids, LAMBDA k : k = e))
        inVal(f) == IF h[f].val = e THEN 1 ELSE 0
        inTable(x) == (IF symbols[x].v = e THEN 1 ELSE 0) + (IF symbols[x].t = e THEN 1 ELSE 0)
    IN  FoldSet(LAMBDA f, n : n + inKids(f) + inVal(f), 0, Reachable)
          + FoldSet(LAMBDA x, n : n + inTable(x), 0, Names)

-----------------------------------------------------------------------------
WellTyped == L!Accepted(L!Signature(Front(log), Fillers), Last(log), Fillers) # {}

\* What check() accepts is well typed, for some terms in the place of its holes.
Sound == (status = "ok" /\ log # <<>>) => WellTyped

\* A command without holes is refused only if it is not well typed.
Complete == (status = "error" /\ L!Holes(Last(log).t) = 0) => ~WellTyped

\* Comparing and applying set values, copy and share: a name keeps the type it was
\* declared with and the term it was defined as.
GlobalsKept ==
    status = "ok" => \A d \in ToSet(L!Signature(log, Fillers)) :
        /\ ReadBack(symbols[d.x].t, {}) = d.ty
        /\ ReadBack(symbols[d.x].v, {}) = d.tm

\* No object that the symbol table leads to has been freed, and each is counted at
\* least as often as it is pointed to, up to the largest count.
Counted ==
    status = "ok" => \A e \in Reachable :
        \/ h[e].cls = "c" /\ h[e].kids = <<>>
        \/ h[e].rc = MaxRefCount
        \/ h[e].rc >= Pointers(e)

\* No input makes check() use an object after it has been freed, or a null pointer.
Defined == status # "undefined"

-----------------------------------------------------------------------------
N == Id("N")
P(n) == Ap("P", <<n>>)
S(n) == Ap("s", <<n>>)
z == Id("z")

FirstNames == {"type", "N", "z", "s", "ss", "P", "pz", "ps", "n", "p", "x", "l"}
FirstPrelude ==
    <<Cmd("declare-type", "N", List(<<>>)), Decl("z", N), Decl("s", Arrow(<<Item("", N)>>, N)),
      Cmd("define-const", "ss", List(<<Item("n", N), S(S(Id("n")))>>)),
      Cmd("declare-type", "P", List(<<Item("", N)>>)), Decl("pz", P(z)),
      Cmd("declare-rule", "ps", List(<<Item("n", N), Item("", P(Id("n"))), P(S(Id("n")))>>))>>

FirstArgs == {z, S(z), Hole}
Two == Ap("ss", <<z>>)
FirstProofs0 == {Id("pz"), Id("x")}
FirstProofs1 == {Ap("ps", <<n, p>>) : n \in FirstArgs, p \in FirstProofs0}
FirstProofs2 == {Ap("ps", <<n, p>>) : n \in {S(z), Hole}, p \in FirstProofs1}
FirstInputs ==
    {Chk(p) : p \in FirstProofs0 \cup FirstProofs1 \cup FirstProofs2}
      \cup {Chk(Asc(P(n), p)) : n \in {z, S(z)}, p \in FirstProofs1}
      \cup {Cmd(c, "x", p) : c \in {"define", "opaque"}, p \in FirstProofs1}
      \cup {Chk(LetT("l", p, Ap("ps", <<n, Id("l")>>))) : n \in FirstArgs, p \in FirstProofs1}
      \cup {Chk(BigT("p", P(n), Ap("ps", <<Hole, Id("p")>>))) : n \in FirstArgs}
      \cup {Chk(Asc(P(Two), p)) : p \in FirstProofs2}
      \cup {Cmd("check-assuming", "", List(<<Item("p", P(n)), P(S(z)), Ap("ps", <<Hole, Id("p")>>)>>)) :
                n \in {z, S(z)}}
      \cup {Chk(Asc(Arrow(<<Item("", P(n))>>, P(S(z))), LamT("p", Ap("ps", <<n, Id("p")>>)))) :
                n \in {z, S(z)}}
      \cup {Decl("x", P(S(z)))}
FirstFillers == {z, S(z), S(S(z))}

-----------------------------------------------------------------------------
(* Quantifiers over N: predicates are terms of function type, so that      *)
(* types have to be reduced before they can be compared.                   *)

Pred == PiT("n", N, Id("o"))
Q(n) == Ap("q", <<n>>)
Pf(a) == Ap("pf", <<a>>)
All(a) == Ap("all", <<a>>)
AllI(a, p) == Ap("allI", <<a, p>>)
AllE(a, n, p) == Ap("allE", <<a, n, p>>)

HigherNames == {"type", "N", "z", "o", "q", "pf", "all", "allI", "allE", "both", "c", "g", "pz", "A", "n", "m", "p", "v"}
HigherPrelude ==
    <<Decl("N", Id("type")), Decl("z", N), Decl("o", Id("type")), Decl("q", Pred),
      Decl("pf", PiT("p", Id("o"), Id("type"))), Decl("all", PiT("A", Pred, Id("o"))),
      Decl("allI", PiT("A", Pred, PiT("p", PiT("n", N, Pf(Ap("A", <<Id("n")>>))), Pf(All(Id("A")))))),
      Decl("allE", PiT("A", Pred, PiT("n", N, PiT("p", Pf(All(Id("A"))), Pf(Ap("A", <<Id("n")>>)))))),
      Decl("g", PiT("n", N, Pf(Q(Id("n"))))), Decl("pz", Pf(Q(z)))>>

HigherPreds == {Id("q"), LamT("v", Q(Id("v"))), LamT("v", Q(z))}
HigherFuns == {Id("g")} \cup {LamT("v", p) : p \in {Ap("g", <<Id("v")>>), Id("pz"), Ap("g", <<z>>)}}
HigherAlls == {AllI(a, p) : a \in HigherPreds, p \in HigherFuns}
HigherInputs ==
    {Chk(p) : p \in HigherAlls}
      \cup {Chk(Asc(Pf(All(a)), p)) : a \in HigherPreds, p \in HigherAlls}
      \cup {Chk(AllE(a, z, p)) : a \in HigherPreds, p \in HigherAlls}
      \cup {Chk(Asc(Pf(Q(z)), AllE(a, z, AllI(a, p)))) : a \in HigherPreds, p \in HigherFuns}

-----------------------------------------------------------------------------
File(prelude, inputs, options) ==
    [prelude |-> prelude, inputs |-> inputs, tail_calls |-> options]
MCNames == FirstNames \cup HigherNames
MCFiles == <<File(FirstPrelude, FirstInputs, BOOLEAN), File(HigherPrelude, HigherInputs, {TRUE})>>

\* A predicate that is applied to two terms: pz proves q of z, and is given for a proof
\* of q of c too.
Both ==
    <<Decl("c", N),
      Decl("both", PiT("A", Pred, PiT("n", N, PiT("m", N, PiT("p", Pf(Ap("A", <<Id("n")>>)),
                       PiT("p", Pf(Ap("A", <<Id("m")>>)), Pf(All(Id("A")))))))))>>
TwiceFiles ==
    <<File(HigherPrelude \o Both,
           {Chk(Ap("both", <<LamT("v", Q(Id("v"))), z, Id("c"), Id("pz"), Id("pz")>>))}, {TRUE})>>
=============================================================================
