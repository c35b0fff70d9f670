--------------------------------- MODULE LF ---------------------------------
(***************************************************************************)
(* The type theory that check() is meant to decide, written independently  *)
(* of it: terms are trees and equality is equality of normal forms.  A     *)
(* variable bound inside a term is the number of binders between it and    *)
(* its own, a variable of the context the place of its declaration.        *)
(***************************************************************************)
EXTENDS Integers, Sequences, SequencesExt

Term(k, x, n, s) == [k |-> k, x |-> x, n |-> n, s |-> s]
Con(x)    == Term("con", x, 0, <<>>)
Free(n)   == Term("free", "", n, <<>>)
Bound(n)  == Term("bound", "", n, <<>>)
Pi(d, b)  == Term("pi", "", 0, <<d, b>>)
Lam(b)    == Term("lam", "", 0, <<b>>)
App(f, a) == Term("app", "", 0, <<f, a>>)
Type == Con("type")
Kind == Con("kind")

\* the binders that a term has around its subterm j
Under(t, j) == IF t.k = "lam" \/ (t.k = "pi" /\ j = 2) THEN 1 ELSE 0

RECURSIVE Inst(_, _, _), Close(_, _, _), Mentions(_, _), Nf(_)

Inst(t, i, u) ==
    IF t = Bound(i) THEN u
    ELSE [t EXCEPT !.s = [j \in DOMAIN t.s |-> Inst(t.s[j], i + Under(t, j), u)]]

Close(t, i, n) ==
    IF t = Free(n) THEN Bound(i)
    ELSE [t EXCEPT !.s = [j \in DOMAIN t.s |-> Close(t.s[j], i + Under(t, j), n)]]

Mentions(t, u) == t = u \/ \E j \in DOMAIN t.s : Mentions(t.s[j], u)

Apply(f, a) == IF f.k = "lam" THEN Nf(Inst(f.s[1], 0, a)) ELSE App(f, a)

Nf(t) ==
    IF t.k = "app" THEN Apply(Nf(t.s[1]), Nf(t.s[2]))
    ELSE [t EXCEPT !.s = [j \in DOMAIN t.s |-> Nf(t.s[j])]]

-----------------------------------------------------------------------------
(* A context is a sequence of names with what they stand for and its type. *)

Declared(x, tm, ty) == [x |-> x, tm |-> tm, ty |-> ty]
Start == <<Declared("type", Type, Kind)>>

Binds(ctx, x) == \E i \in DOMAIN ctx : ctx[i].x = x
Lookup(ctx, x) == ctx[SelectLastInSeq(ctx, LAMBDA d : d.x = x)]

\* the variable that the next declaration is
NextVar(ctx) == Free(Len(ctx) + 1)
Extend(ctx, x, ty) == Append(ctx, Declared(x, NextVar(ctx), ty))
Abstract(ctx, t) == Close(t, 0, Len(ctx) + 1)

Good(tm, ty) == [ok |-> TRUE, tm |-> tm, ty |-> ty]
Found(d) == Good(d.tm, d.ty)
Bad == [ok |-> FALSE, tm |-> Kind, ty |-> Kind]
If(r, F(_)) == IF r.ok THEN F(r) ELSE Bad

\* binders of form k around body, one for each item of a declaration list
Nest(k, items, body) ==
    FoldRight(LAMBDA i, b : [t |-> k, x |-> i.x, s |-> i.s \o <<b>>], items, body)

RECURSIVE Infer(_, _, _), InferWith(_, _, _, _), CheckIs(_, _, _), InferArgs(_, _, _, _)

\* big says that a % is allowed
Infer(ctx, t, big) ==
    CASE t.t = "id" -> IF Binds(ctx, t.x) THEN Found(Lookup(ctx, t.x)) ELSE Bad
      [] t.t = "arrow" -> Infer(ctx, Nest("pi", Front(t.s), Last(t.s)), FALSE)
      [] t.t = "let" ->
           If(Infer(ctx, t.s[1], FALSE),
              LAMBDA d : Infer(Append(ctx, Declared(t.x, d.tm, d.ty)), t.s[2], big))
      [] t.t = "app" -> If(Infer(ctx, t.s[1], FALSE), LAMBDA f : InferArgs(ctx, f, t.s, 2))
      [] t.t \in {"pi", "alam", "big", "asc"} ->
           If(CheckIs(ctx, t.s[1], Type), LAMBDA d : InferWith(ctx, t, big, d.tm))
      [] OTHER -> Bad

\* the forms whose first subterm is a type, which is d
InferWith(ctx, t, big, d) ==
    CASE t.t = "pi" ->
           If(Infer(Extend(ctx, t.x, d), t.s[2], FALSE), LAMBDA b :
              IF b.ty \in {Type, Kind} THEN Good(Pi(d, Abstract(ctx, b.tm)), b.ty) ELSE Bad)
      [] t.t = "alam" ->
           If(Infer(Extend(ctx, t.x, d), t.s[2], FALSE), LAMBDA b :
              IF Mentions(b.ty, NextVar(ctx)) THEN Bad
              ELSE Good(Lam(Abstract(ctx, b.tm)), Pi(d, b.ty)))
      [] t.t = "big" -> IF big THEN Infer(Extend(ctx, t.x, d), t.s[2], TRUE) ELSE Bad
      [] t.t = "asc" -> If(CheckIs(ctx, t.s[2], d), LAMBDA r : Good(r.tm, d))

InferArgs(ctx, f, s, i) ==
    CASE i > Len(s) -> f
      [] f.ty.k # "pi" -> Bad
      [] OTHER ->
           If(CheckIs(ctx, s[i], f.ty.s[1]), LAMBDA a :
              InferArgs(ctx, Good(Apply(f.tm, a.tm), Nf(Inst(f.ty.s[2], 0, a.tm))), s, i + 1))

\* A lambda can be checked and not inferred, and is never a type.
CheckIs(ctx, t, ty) ==
    CASE t.t = "lam" ->
           IF ty.k # "pi" THEN Bad
           ELSE IF ty.s[2] = Type THEN Bad
           ELSE If(CheckIs(Extend(ctx, t.x, ty.s[1]), t.s[1], Inst(ty.s[2], 0, NextVar(ctx))),
                   LAMBDA b : Good(Lam(Abstract(ctx, b.tm)), ty))
      [] t.t = "let" ->
           If(Infer(ctx, t.s[1], FALSE),
              LAMBDA d : CheckIs(Append(ctx, Declared(t.x, d.tm, d.ty)), t.s[2], ty))
      [] OTHER -> If(Infer(ctx, t, FALSE), LAMBDA r : IF r.ty = ty THEN r ELSE Bad)

-----------------------------------------------------------------------------
(* The ways to fill the holes of a term with terms of a set.               *)

RECURSIVE Holes(_), Fillings(_, _), FillAll(_, _)

Holes(t) == IF t.t = "hole" THEN 1 ELSE FoldLeft(LAMBDA n, u : n + Holes(u), 0, t.s)

Fillings(t, terms) ==
    IF t.t = "hole" THEN terms ELSE {[t EXCEPT !.s = s] : s \in FillAll(t.s, terms)}

FillAll(s, terms) ==
    IF s = <<>> THEN {<<>>}
    ELSE {<<u>> \o rest : u \in Fillings(Head(s), terms), rest \in FillAll(Tail(s), terms)}

-----------------------------------------------------------------------------
(* Commands.                                                               *)

\* The commands with a declaration list are short for one without.
Plain(cmd) ==
    LET As(c, t) == [cmd EXCEPT !.c = c, !.t = t]
        n == Len(cmd.t.s)
        typeTree == [t |-> "id", x |-> "type", s |-> <<>>]
    IN  CASE cmd.c = "declare-rule" -> As("declare", Nest("pi", Front(cmd.t.s), Last(cmd.t.s)))
          [] cmd.c = "declare-type" -> As("declare", Nest("pi", cmd.t.s, typeTree))
          [] cmd.c = "define-const" -> As("define", Nest("alam", Front(cmd.t.s), Last(cmd.t.s)))
          [] cmd.c = "check-assuming" ->
               As("check", Nest("big", SubSeq(cmd.t.s, 1, n - 2),
                                [t |-> "asc", x |-> "", s |-> SubSeq(cmd.t.s, n - 1, n)]))
          [] OTHER -> cmd

Judge(sig, cmd) ==
    If(Infer(sig, cmd.t, cmd.c = "check"), LAMBDA r :
       LET allowed == CASE cmd.c = "declare" -> r.ty \in {Type, Kind}
                        [] cmd.c = "check" -> TRUE
                        [] OTHER -> r.ty # Kind
       IN  IF allowed /\ ~(cmd.c # "check" /\ Binds(sig, cmd.x)) THEN r ELSE Bad)

\* the judgements of the ways to fill the holes of cmd
Accepted(sig, cmd, terms) ==
    {r \in {Judge(sig, Plain([cmd EXCEPT !.t = t])) : t \in Fillings(cmd.t, terms)} : r.ok}

\* what a command of kind c that was judged r declares
Declares(c, x, r) ==
    CASE c \in {"define", "define-const"} -> <<Declared(x, r.tm, r.ty)>>
      [] c = "opaque" -> <<Declared(x, Con(x), r.ty)>>
      [] OTHER -> <<Declared(x, Con(x), r.tm)>>

\* the signature after cmd, which must be acceptable
AddTo(sig, cmd, terms) ==
    IF cmd.c \in {"check", "check-assuming"} THEN sig
    ELSE sig \o Declares(cmd.c, cmd.x, CHOOSE r \in Accepted(sig, cmd, terms) : TRUE)

Signature(cmds, terms) == FoldLeft(LAMBDA sig, cmd : AddTo(sig, cmd, terms), Start, cmds)
=============================================================================
