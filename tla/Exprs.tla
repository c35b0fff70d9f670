-------------------------------- MODULE Exprs --------------------------------
(***************************************************************************)
(* The graph of expressions of expr.cpp and the functions that work on it. *)
(* A heap is a sequence of objects and a pointer an index into it, Null    *)
(* being 0.  An object is freed by setting its count to 0 and its place is *)
(* not used again, so that an access through a dangling pointer is seen:   *)
(* it makes the count Poisoned.  Every function takes the heap and returns *)
(* the heap it leaves, because all of them change values, bits and counts. *)
(*                                                                         *)
(* Numerals, code and the op ASCRIBE, which nothing creates, are left out. *)
(***************************************************************************)
EXTENDS Integers, Sequences, SequencesExt

CONSTANT MaxRefCount  \* d_maxRefCount

ASSUME MaxRefCountAssumption == MaxRefCount \in Nat \ {0, 1}

Null == 0
Poisoned == -1

\* Of data, cls is the class (a CExpr, a symbol or a hole), op the operator,
\* bit the flag in bit 8 (cloned, free_in) and rc the count.  A CExpr has kids,
\* a symbol or a hole a value.  A symbol keeps the name it was created with.
Object(cls, op, name, kids) ==
    [cls |-> cls, op |-> op, name |-> name, kids |-> kids, val |-> Null,
     bit |-> FALSE, rc |-> 1]
CExpr(op, kids) == Object("c", op, "", kids)
SymExpr(name) == Object("sym", "not", name, <<>>)
HoleExpr == Object("hole", "not", "", <<>>)

\* what F makes of x, which is worked out once
With(x, F(_)) == F(x)

\* the pointer that the next allocation returns
NewAt(h) == Len(h) + 1

Ref(h, e) == [h |-> h, e |-> e]
New(h, obj) == Ref(Append(h, obj), NewAt(h))

SetVal(h, v, e) == [h EXCEPT ![v].val = e]
SetBit(h, e) == [h EXCEPT ![e].bit = TRUE]

\* an access to e
Touch(h, e) == IF h[e].rc > 0 THEN h ELSE [h EXCEPT ![e].rc = Poisoned]
Undefined(h) == \E e \in DOMAIN h : h[e].rc = Poisoned

-----------------------------------------------------------------------------
(* Reference counts.                                                       *)

\* A faulty version: the largest count is one more.
IncPastLimit(h, e) ==
    IF h[e].rc \in 1..MaxRefCount THEN [h EXCEPT ![e].rc = @ + 1] ELSE Touch(h, e)


Inc(h, e) ==
    IF h[e].rc \in 1..(MaxRefCount - 1) THEN [h EXCEPT ![e].rc = @ + 1] ELSE Touch(h, e)

RECURSIVE Dec(_, _), Destroy(_, _)

Dec(h, e) ==
    CASE h[e].rc <= 0 \/ h[e].rc = MaxRefCount -> Touch(h, e)
      [] h[e].rc = 1 -> Destroy(h, e)
      [] OTHER -> [h EXCEPT ![e].rc = @ - 1]

\* A CExpr without kids is not deleted and its count not changed.
Destroy(h, e) ==
    LET freed == [h EXCEPT ![e].rc = 0]
        obj == h[e]
    IN  CASE obj.cls = "c" ->
               IF obj.kids = <<>> THEN h
               ELSE FoldLeft(LAMBDA acc, kid : Dec(acc, kid), freed, obj.kids)
          [] obj.val = Null -> freed
          [] OTHER -> Dec(freed, obj.val)

-----------------------------------------------------------------------------
RECURSIVE FollowDefs(_, _), GetHead(_, _)

FollowDefs(h, e) == IF h[e].val = Null THEN e ELSE FollowDefs(h, h[e].val)

GetHead(h, e) == IF h[e].op = "app" THEN GetHead(h, FollowDefs(h, h[e].kids[1])) ELSE e

\* collect_args with follow_defs
CollectArgs(h, e) == Tail(h[e].kids)
CollectHead(h, e) == FollowDefs(h, h[e].kids[1])

BuildApp(h, hd, args) == IF args = <<>> THEN Ref(h, hd) ELSE New(h, CExpr("app", <<hd>> \o args))

\* A faulty version: the kids that the copy shares are not counted.
MakeAppUncounted(h, e1, e2) ==
    IF h[e1].cls = "c" THEN New(h, CExpr("app", Append(h[e1].kids, e2)))
    ELSE New(h, CExpr("app", <<e1, e2>>))

\* A CExpr gets one more kid, whatever it is; its kids are shared with the copy.
MakeApp(h, e1, e2) ==
    IF h[e1].cls = "c"
    THEN New(FoldLeft(Inc, h, h[e1].kids), CExpr("app", Append(h[e1].kids, e2)))
    ELSE New(h, CExpr("app", <<e1, e2>>))

-----------------------------------------------------------------------------
RECURSIVE Clone(_, _), CloneKids(_, _, _), CloneAbstraction(_, _, _), CloneObject(_, _, _)

CloneKids(h, kids, done) ==
    IF kids = <<>> THEN [h |-> h, kids |-> done]
    ELSE With(Clone(h, Head(kids)), LAMBDA c : CloneKids(c.h, Tail(kids), Append(done, c.e)))

\* The domain of a pi is outside the variable's scope.
CloneAbstraction(h, obj, newvar) ==
    LET var == obj.kids[1]
    IN  With(CloneKids(h, Tail(Front(obj.kids)), <<>>), LAMBDA tp :
        With(Clone(SetVal(tp.h, var, newvar), Last(obj.kids)), LAMBDA bod :
            New(SetVal(bod.h, var, tp.h[var].val),
                [CExpr(obj.op, <<newvar>> \o tp.kids \o <<bod.e>>) EXCEPT !.bit = obj.bit])))

CloneObject(h, e, obj) ==
    CASE obj.val # Null -> Clone(h, obj.val)
      [] obj.cls # "c" -> Ref(Inc(h, e), e)
      [] obj.op \in {"lam", "pi"} ->
           CloneAbstraction(Append(h, SymExpr(h[obj.kids[1]].name)), obj, NewAt(h))
      [] OTHER ->
           With(CloneKids(h, obj.kids, <<>>), LAMBDA c :
               IF c.kids # obj.kids THEN New(c.h, CExpr(obj.op, c.kids))
               ELSE Ref(Inc(FoldLeft(Dec, c.h, c.kids), e), e))

Clone(h, e) == CloneObject(Touch(h, e), e, h[e])

-----------------------------------------------------------------------------
\* Bind the variables of the lambdas to args one after the other.
RECURSIVE Beta(_, _, _)
Beta(h, lam, args) ==
    LET bod == h[lam].kids[2]
        rest == Tail(args)
    IN  With(FollowDefs(h, Head(args)), LAMBDA tmp :
        With(Inc(SetVal(h, h[lam].kids[1], tmp), tmp), LAMBDA bound :
            IF h[bod].op = "lam" /\ rest # <<>> THEN Beta(bound, bod, rest)
            ELSE BuildApp(Inc(FoldLeft(Inc, bound, rest), bod), bod, rest)))

Reducible(h, e) == h[GetHead(h, e)].op = "lam"

\* A lambda that has been applied before is cloned; the first time it is not.
Whr(h, e) ==
    IF ~Reducible(h, e) THEN Ref(h, e)
    ELSE With(CollectHead(h, e), LAMBDA hd :
             CASE h[hd].op # "lam" -> Ref([h EXCEPT ![hd].rc = Poisoned], e)
               [] h[hd].bit ->
                    With(Clone(h, hd), LAMBDA c :
                    With(Beta(c.h, c.e, CollectArgs(h, e)), LAMBDA b : Ref(Dec(b.h, c.e), b.e)))
               [] OTHER -> Beta(SetBit(h, hd), hd, CollectArgs(h, e)))

-----------------------------------------------------------------------------
Answer(h, b) == [h |-> h, b |-> b]

\* h[hole] is set to what e stands for
Fill(h, hole, e) ==
    With(FollowDefs(h, e), LAMBDA tmp : Answer(Inc(SetVal(h, hole, tmp), tmp), TRUE))

\* A faulty version: the reference to the kid that is kept is not counted.
ShareKidUncounted(h, a, b, i) ==
    LET k1 == h[a].kids[i]
        k2 == h[b].kids[i]
    IN  IF h[k2].cls = "sym" \/ (h[k1].cls # "sym" /\ h[k1].rc < h[k2].rc)
        THEN [Dec(h, k1) EXCEPT ![a].kids[i] = k2]
        ELSE [Dec(h, k2) EXCEPT ![b].kids[i] = k1]

\* The kid of two applications that are equal so far is shared: the symbol is
\* kept, or the object with the larger count.
ShareKid(h, a, b, i) ==
    LET k1 == h[a].kids[i]
        k2 == h[b].kids[i]
    IN  IF h[k2].cls = "sym" \/ (h[k1].cls # "sym" /\ h[k1].rc < h[k2].rc)
        THEN [Inc(Dec(h, k1), k2) EXCEPT ![a].kids[i] = k2]
        ELSE [Inc(Dec(h, k2), k1) EXCEPT ![b].kids[i] = k1]

RECURSIVE Defeq(_, _, _), DefeqKids(_, _, _, _), DefeqBodies(_, _, _), DefeqObjects(_, _, _)

DefeqKids(h, a, b, i) ==
    CASE i > Len(h[a].kids) -> Answer(h, Len(h[b].kids) < i)
      [] i > Len(h[b].kids) -> Answer(h, FALSE)
      [] h[a].kids[i] = h[b].kids[i] -> DefeqKids(h, a, b, i + 1)
      [] OTHER ->
           With(Defeq(h, h[a].kids[i], h[b].kids[i]), LAMBDA d :
               IF d.b THEN DefeqKids(ShareKid(d.h, a, b, i), a, b, i + 1) ELSE d)

\* A faulty version: the variables are not related.
DefeqBodiesUnmapped(h, a, b) == Defeq(h, Last(h[a].kids), Last(h[b].kids))

\* the bodies of two abstractions, with the variable of a mapped to that of b
DefeqBodies(h, a, b) ==
    LET v1 == h[a].kids[1]
        mapped == SetVal(h, v1, FollowDefs(h, h[b].kids[1]))
    IN  With(Defeq(mapped, Last(h[a].kids), Last(h[b].kids)), LAMBDA d :
            Answer(SetVal(d.h, v1, h[v1].val), d.b))

\* an answer about what whr() made, which is not needed any more
DropReduct(d, e) == Answer(Dec(d.h, e), d.b)

DefeqObjects(h, a, b) ==
    LET o1 == h[a]
        o2 == h[b]
    IN  CASE a = b -> Answer(h, TRUE)
          [] o1.op = "app" /\ Reducible(h, a) ->
               With(Whr(h, a), LAMBDA w :
                   IF Undefined(w.h) THEN Answer(w.h, FALSE)
                   ELSE DropReduct(Defeq(w.h, w.e, b), w.e))
          \* The arguments of a hole would have to be of class SYM_EXPR, and
          \* every symbol is of class SYMS_EXPR.
          [] o1.op = "app" /\ h[GetHead(h, a)].cls = "hole" -> Answer(Inc(h, b), FALSE)
          [] o1.val # Null -> Defeq(h, o1.val, b)
          [] o1.cls = "hole" -> Fill(h, a, b)
          [] o2.op = "app" /\ Reducible(h, b) ->
               With(Whr(h, b), LAMBDA w :
                   IF Undefined(w.h) THEN Answer(w.h, FALSE)
                   ELSE DropReduct(Defeq(w.h, a, w.e), w.e))
          [] o2.val # Null -> Defeq(h, a, o2.val)
          [] o2.cls = "hole" -> Fill(h, b, a)
          [] o1.op # o2.op \/ o1.cls = "sym" -> Answer(h, FALSE)
          [] o1.op = "pi" ->
               With(Defeq(h, o1.kids[2], o2.kids[2]), LAMBDA d :
                   IF d.b THEN DefeqBodies(d.h, a, b) ELSE d)
          [] o1.op = "lam" -> DefeqBodies(h, a, b)
          [] o1.op = "app" -> DefeqKids(h, a, b, 1)
          [] OTHER -> Answer(h, TRUE)

Defeq(h, a, b) == DefeqObjects(Touch(Touch(h, a), b), a, b)

-----------------------------------------------------------------------------
RECURSIVE FreeIn(_, _, _)

\* is the symbol or hole x free in e
FreeIn(h, e, x) ==
    LET obj == h[e]
    IN  CASE obj.cls = "hole" /\ obj.val # Null -> FreeIn(h, obj.val, x)
          [] obj.cls = "sym" /\ obj.val # Null /\ h[obj.val].cls = "hole" -> FreeIn(h, obj.val, x)
          [] obj.cls # "c" -> e = x
          [] obj.op \in {"lam", "pi"} /\ obj.kids[1] = x -> FALSE
          [] OTHER -> \E i \in DOMAIN obj.kids : FreeIn(h, obj.kids[i], x)

CalcFreeIn(h, pi) == [h EXCEPT ![pi].bit = FreeIn(h, h[pi].kids[3], h[pi].kids[1])]
=============================================================================
