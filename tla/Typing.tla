------------------------------- MODULE Typing -------------------------------
(***************************************************************************)
(* check() and the commands that use it, on terms: the expressions it      *)
(* builds, the types it compares and the references it counts.  A step     *)
(* reads one command; a file has a prelude and then any of its inputs.     *)
(* A term of the input is a tree [t, x, s]: the form, the name it binds or *)
(* is, and its subterms.                                                   *)
(*                                                                         *)
(* Parentheses are CheckScopes' subject; a tail call with input left over, *)
(* which they would make an error, is an error here.  Numerals and side    *)
(* conditions are left out.                                                *)
(***************************************************************************)
EXTENDS Exprs

CONSTANTS Names,       \* identifiers
          Files,       \* a sequence of files: the commands that come first, the ones
                       \* that may follow, and the options they are read with
          MaxInputs    \* how many of those are read

ASSUME FilesAssumption == \A f \in DOMAIN Files : Files[f].tail_calls \subseteq BOOLEAN
ASSUME MaxInputsAssumption == MaxInputs \in Nat

VARIABLES file,    \* the file that is read
          tail_calls, \* not --no-tail-calls
          h,       \* the expressions
          symbols, \* what a name is bound to: a symbol and its type
          locals,  \* local_sym_names
          log,     \* the commands read so far
          status   \* "ok", or how the checker ended: "error", "undefined"

vars == <<file, tail_calls, h, symbols, locals, log, status>>

-----------------------------------------------------------------------------
Entry(v, t) == [v |-> v, t |-> t]
Unbound == Entry(Null, Null)

statType == 1
statKind == 2

\* "type" is in the table from the start
Init ==
    /\ file \in DOMAIN Files
    /\ tail_calls \in Files[file].tail_calls
    /\ h = <<[CExpr("type", <<>>) EXCEPT !.rc = 2], CExpr("kind", <<>>)>>
    /\ symbols = [x \in Names |-> IF x = "type" THEN Entry(statType, statKind) ELSE Unbound]
    /\ locals = <<>>
    /\ log = <<>>
    /\ status = "ok"

-----------------------------------------------------------------------------
(* What check() works on and what it returns: the state, the expression if *)
(* it creates one, the computed type, and whether it has read a hole.      *)

Result(s, e, c) == [s |-> s, e |-> e, c |-> c, hole |-> FALSE, st |-> "ok"]
Stop(s, st) == [Result(s, Null, Null) EXCEPT !.st = st]

Then(r, F(_)) == IF r.st = "ok" THEN F(r) ELSE r

\* the parameters of check(); hole says that is_hole is not null
Params(create, exp) ==
    [create |-> create, exp |-> exp, pos |-> FALSE, hole |-> FALSE, asc |-> FALSE]

Plain(p) == [p EXCEPT !.hole = FALSE, !.asc = FALSE]
MayTail(p) == tail_calls /\ p.pos /\ ~p.create

OnHeap(s, hp) == [s EXCEPT !.h = hp]
Bind(s, x, en) == [s EXCEPT !.sym[x] = en]

IncIf(hp, e) == IF e = Null THEN hp ELSE Inc(hp, e)
DecIf(hp, e) == IF e = Null THEN hp ELSE Dec(hp, e)
DecEntry(hp, en) == DecIf(DecIf(hp, en.v), en.t)

\* a name whose binding a tail call leaves to the end of the command
Postpone(s, x, en, prev) ==
    [s EXCEPT !.sym[x] = en, !.loc = Append(@, [x |-> x, prev |-> prev]),
              !.h = DecEntry(@, prev)]

\* the object of a result that is only a pointer when it is created
Built(create, new, r) == IF create THEN Result(OnHeap(r.s, new.h), new.e, r.c)
                         ELSE Result(r.s, Null, r.c)

NewPi(hp, var, dom, rng) ==
    With(New(hp, CExpr("pi", <<var, dom, rng>>)), LAMBDA pi : Ref(CalcFreeIn(pi.h, pi.e), pi.e))

\* what the value e of a symbol is reduced to
Reduced(hp, e) ==
    IF hp[e].op # "app" THEN Ref(hp, e)
    ELSE With(Whr(hp, e), LAMBDA w :
             IF w.e = e THEN Ref(hp, e) ELSE Ref(Dec(Inc(w.h, w.e), e), w.e))

InsertAndBindSymbol(s, x, sym, e, t) ==
    With(Reduced(s.h, e), LAMBDA v : Bind(OnHeap(s, SetVal(v.h, sym, v.e)), x, Entry(sym, t)))

\* s with a symbol of name x more, at NewAt(s.h)
WithSymbol(s, x) == OnHeap(s, Append(s.h, SymExpr(x)))

RECURSIVE Check(_, _, _), CheckArgs(_, _, _, _, _, _, _), CheckDeclList(_, _, _)

CheckId(s, t, p) ==
    LET en == s.sym[t.x]
        ret == IF p.create THEN en.v ELSE Null
        Return(hp) == Result(OnHeap(s, IncIf(hp, ret)), ret, en.t)
    IN  CASE en.v = Null -> Stop(s, "error")
          [] p.exp = Null -> Return(Inc(s.h, en.t))
          [] OTHER ->
               With(Defeq(s.h, p.exp, en.t), LAMBDA d :
                   IF d.b THEN Return(Dec(d.h, p.exp)) ELSE Stop(OnHeap(s, d.h), "error"))

CheckHole(s, p) ==
    IF ~p.hole THEN Stop(s, "error")
    ELSE With(New(DecIf(s.h, p.exp), HoleExpr), LAMBDA new :
             [Result(OnHeap(s, new.h), new.e, Null) EXCEPT !.hole = TRUE])

\* The domain of the form t is checked, and then Body of the result and of the symbol
\* for the variable.
CheckDomain(s, t, Body(_, _)) ==
    Then(Check(WithSymbol(s, t.x), t.s[1], Params(TRUE, statType)), LAMBDA d : Body(d, NewAt(s.h)))

CheckPi(s, t, p) ==
    CheckDomain(s, t, LAMBDA d, sym :
    Then(Check(Bind(OnHeap(d.s, IncIf(d.s.h, p.exp)), t.x, Entry(sym, d.e)), t.s[2],
               Plain(p)), LAMBDA r :
    With(Bind(OnHeap(r.s, DecIf(r.s.h, p.exp)), t.x, d.s.sym[t.x]), LAMBDA s1 :
        LET cls == IF p.exp # Null THEN p.exp ELSE r.c
            o == r.s.h[FollowDefs(r.s.h, cls)].op
        IN  IF o \notin {"type", "kind"} /\ (p.exp # Null \/ ~p.create) THEN Stop(s1, "error")
            ELSE Built(p.create, NewPi(s1.h, sym, d.e, r.e), [r EXCEPT !.s = s1]))))

\* a lambda that the next application will clone
NewLam(hp, var, bod) == New(hp, [CExpr("lam", <<var, bod>>) EXCEPT !.bit = TRUE])

\* the pi gets a variable of its own
RenamePi(hp, pi, x) == [Append(hp, SymExpr(x)) EXCEPT ![pi].kids[1] = NewAt(hp)]

\* s1 has the variable bound.  With an expected type rec_computed stays null, and
\* calc_free_in() reads it.
CheckAnnotatedBody(s1, t, p, dom, prev) ==
    IF p.exp = Null
    THEN Then(Check(s1, t.s[2], Plain(p)), LAMBDA r :
         With(NewPi(r.s.h, s1.sym[t.x].v, dom, r.c), LAMBDA pi :
         With(Bind(OnHeap(r.s, RenamePi(pi.h, pi.e, t.x)), t.x, prev), LAMBDA s2 :
             IF s2.h[pi.e].bit THEN Stop(s2, "error")
             ELSE Built(p.create, NewLam(s2.h, s1.sym[t.x].v, r.e), Result(s2, Null, pi.e)))))
    ELSE With(s1.h[FollowDefs(s1.h, p.exp)], LAMBDA pi :
         IF pi.op # "pi" THEN Stop(s1, "error")
         ELSE With(Defeq(s1.h, pi.kids[2], dom), LAMBDA d :
              IF ~d.b THEN Stop(s1, "error")
              ELSE Then(Check(OnHeap(s1, Inc(d.h, p.exp)), t.s[2],
                              [Plain(p) EXCEPT !.exp = pi.kids[3]]),
                        LAMBDA r : Stop(r.s, "undefined"))))

CheckAnnotatedLam(s, t, p) ==
    CheckDomain(s, t, LAMBDA d, sym :
        CheckAnnotatedBody(Bind(d.s, t.x, Entry(sym, d.e)), t, p, d.e, d.s.sym[t.x]))

CheckBigLam(s, t, p) ==
    IF p.exp # Null \/ p.create \/ ~p.pos THEN Stop(s, "error")
    ELSE CheckDomain(s, t, LAMBDA d, sym :
             Check(Postpone(OnHeap(d.s, Inc(d.s.h, d.e)), t.x, Entry(sym, d.e), d.s.sym[t.x]),
                   t.s[2], Plain(p)))

\* The variable of the pi is mapped to sym while the body is checked against its range;
\* a tail call leaves it so.
CheckLamBody(s, t, p, pi) ==
    LET sym == NewAt(s.h)
        prev == s.sym[t.x]
        en == Entry(sym, pi.kids[2])
        old == s.h[pi.kids[1]].val
        sub == [Plain(p) EXCEPT !.exp = pi.kids[3]]
        mapped == SetVal(Inc(WithSymbol(s, t.x).h, sym), pi.kids[1], sym)
    IN  With(OnHeap(s, Inc(Inc(mapped, en.t), sub.exp)), LAMBDA s1 :
        IF MayTail(p)
        THEN With(Postpone(OnHeap(s1, DecIf(s1.h, old)), t.x, en, prev), LAMBDA s2 :
                 Check(OnHeap(s2, Dec(s2.h, p.exp)), t.s[1], sub))
        ELSE Then(Check(Bind(s1, t.x, en), t.s[1], sub), LAMBDA r :
             With(Dec(Dec(SetVal(Dec(r.s.h, en.t), pi.kids[1], old), p.exp), sym), LAMBDA hp :
             With(Bind(OnHeap(r.s, IF p.create THEN hp ELSE Dec(hp, sym)), t.x, prev), LAMBDA s2 :
                 Built(p.create, New(s2.h, CExpr("lam", <<sym, r.e>>)), Result(s2, Null, Null))))))

CheckLam(s, t, p) ==
    IF p.exp = Null THEN Stop(s, "error")
    ELSE With(s.h[FollowDefs(s.h, p.exp)], LAMBDA pi :
         CASE pi.op # "pi" -> Stop(s, "error")
           [] s.h[FollowDefs(s.h, pi.kids[3])].op = "type" -> Stop(s, "error")
           [] OTHER -> CheckLamBody(s, t, p, pi))

\* The term is checked against tp, which takes over its reference; what is
\* created for the term may already stand where tp stood.
CheckAscription(s, t, p) ==
    Then(Check(OnHeap(s, Inc(s.h, statType)), t.s[1],
               [Params(TRUE, statType) EXCEPT !.asc = TRUE]), LAMBDA ty :
    Then(Check(IF p.exp = Null THEN OnHeap(ty.s, Inc(ty.s.h, ty.e)) ELSE ty.s,
               t.s[2], [Plain(p) EXCEPT !.exp = ty.e]), LAMBDA r :
    IF p.exp = Null THEN Result(r.s, r.e, ty.e)
    ELSE With(Defeq(r.s.h, p.exp, ty.e), LAMBDA d :
         CASE ~d.b -> Stop(OnHeap(r.s, d.h), "error")
           [] ~p.create -> Stop(OnHeap(r.s, d.h), "undefined")
           [] OTHER -> Result(OnHeap(r.s, Dec(d.h, p.exp)), r.e, Null))))

CheckLocalDef(s, t, p) ==
    Then(Check(WithSymbol(s, t.x), t.s[1], Params(TRUE, Null)), LAMBDA d :
    With(InsertAndBindSymbol(d.s, t.x, NewAt(s.h), d.e, d.c), LAMBDA s1 :
    IF MayTail(p) THEN Check(OnHeap(s1, DecEntry(s1.h, d.s.sym[t.x])), t.s[2], p)
    ELSE Then(Check(s1, t.s[2], [p EXCEPT !.asc = FALSE]), LAMBDA r :
         With(OnHeap(r.s, Dec(Dec(r.s.h, d.c), NewAt(s.h))), LAMBDA s2 :
             [r EXCEPT !.s = Bind(s2, t.x, d.s.sym[t.x])]))))

-----------------------------------------------------------------------------
(* Declaration lists.  An item is a tree with its name, or "", and a type. *)

\* A type without a name that is not a single token is checked with no
\* expected classifier, and the classifier it has is not looked at.
CheckDeclListItem(s, item) ==
    IF item.x # "" \/ item.s[1].t = "id" THEN Check(s, item.s[1], Params(TRUE, statType))
    ELSE Then(Check(s, item.s[1], Params(TRUE, Null)),
              LAMBDA r : Result(OnHeap(r.s, Dec(r.s.h, r.c)), r.e, Null))

\* The result has the symbols with their types and the bindings that they replace.
DeclList(s, decls, olds) ==
    [s |-> s, decls |-> decls, olds |-> olds, st |-> "ok"]

CheckDeclList(s, items, done) ==
    LET x == Head(items).x
    IN  IF items = <<>> THEN done
        ELSE Then(CheckDeclListItem(s, Head(items)), LAMBDA r :
             With(WithSymbol(r.s, x), LAMBDA s1 :
             With(Entry(NewAt(r.s.h), r.e), LAMBDA en :
             With(IF x = "" THEN DeclList(s1, Append(done.decls, en), done.olds)
                  ELSE DeclList(Bind(s1, x, en), Append(done.decls, en),
                                Append(done.olds, [x |-> x, prev |-> r.s.sym[x]])), LAMBDA list :
                 CheckDeclList(list.s, Tail(items), list)))))

WithDecls(s, items, F(_)) == Then(CheckDeclList(s, items, DeclList(s, <<>>, <<>>)), F)

\* the bindings are put back in reverse order
PutBack(s, olds) ==
    [s EXCEPT !.sym = FoldRight(LAMBDA l, sym : [sym EXCEPT ![l.x] = l.prev], olds, @)]

BuildPi(hp, decls, ret) ==
    FoldRight(LAMBDA d, acc : NewPi(acc.h, d.v, d.t, acc.e), decls, Ref(hp, ret))

\* getop() is asked of the classifier itself
IsClassifier(hp, e) == hp[e].op \in {"type", "kind"}

\* The expected type is neither compared nor consumed.
CheckArrow(s, t, p) ==
    WithDecls(s, Front(t.s), LAMBDA d :
    Then(Check(d.s, Last(t.s), Params(p.create, Null)), LAMBDA r :
    IF ~IsClassifier(r.s.h, r.c) THEN Stop(PutBack(r.s, d.olds), "error")
    ELSE With(IF p.exp = Null THEN r.s ELSE OnHeap(r.s, Dec(r.s.h, r.c)), LAMBDA s0 :
         With(PutBack(s0, d.olds), LAMBDA s1 :
             Built(p.create, BuildPi(s1.h, d.decls, r.e), Result(s1, Null, r.c))))))

\* A lambda and its type for each of decls; the type gets a variable of its own.
BuildMacro(hp, decls, ret, retty) ==
    FoldRight(LAMBDA d, acc :
        With(NewPi(Inc(acc.h, d.t), d.v, d.t, acc.ty), LAMBDA pi :
        With(NewLam(RenamePi(pi.h, pi.e, pi.h[d.v].name), d.v, acc.e), LAMBDA lam :
            [h |-> lam.h, e |-> lam.e, ty |-> pi.e, dep |-> acc.dep \/ pi.h[pi.e].bit])),
        decls, [h |-> hp, e |-> ret, ty |-> retty, dep |-> FALSE])

-----------------------------------------------------------------------------
(* Applications.                                                           *)

\* A faulty version: the type itself is always taken.
OwnTypeInPlace(s, c) ==
    With(FollowDefs(s.h, c), LAMBDA tp : Ref(SetBit(Dec(Inc(s.h, tp), c), tp), tp))

\* The head's type is used up by the application: its variables get values.  The
\* first use of a type takes the type itself, later uses a copy.
OwnType(s, c) ==
    With(FollowDefs(s.h, c), LAMBDA tp :
    With(Dec(Inc(s.h, tp), c), LAMBDA hp :
        IF ~hp[tp].bit THEN Ref(SetBit(hp, tp), tp)
        ELSE With(Clone(hp, tp), LAMBDA copy : Ref(Dec(copy.h, tp), copy.e))))

Unfilled(hp, holes) == {i \in DOMAIN holes : hp[holes[i]].val = Null}

FinishApp(s, headtp, headtrm, holes, p) ==
    LET Return(hp, c) ==
            IF Unfilled(hp, holes) # {} /\ ~p.asc THEN Stop(s, "error")
            ELSE Result(OnHeap(s, FoldLeft(Dec, hp, holes)), headtrm, c)
    IN  IF p.exp = Null THEN Return(s.h, headtp)
        ELSE With(Defeq(s.h, p.exp, headtp), LAMBDA d :
             IF d.b THEN Return(Dec(Dec(d.h, p.exp), headtp), Null) ELSE Stop(s, "error"))

\* A faulty version: the type of the application is not compared.
TailArgUnchecked(s, t, i, headtp, holes, p) ==
    LET dom == s.h[headtp].kids[2]
        rng == s.h[headtp].kids[3]
        Arg(hp, c) ==
            Then(Check(OnHeap(s, FoldLeft(Dec, Dec(hp, headtp), holes)), t.s[i],
                       [Params(FALSE, dom) EXCEPT !.pos = p.pos, !.asc = p.asc]),
                 LAMBDA a : Result(a.s, Null, c))
    IN  CASE i < Len(t.s) -> Stop(s, "error")
          [] p.exp = Null -> Arg(Inc(Inc(s.h, dom), rng), rng)
          [] OTHER -> Arg(Dec(Inc(s.h, dom), p.exp), Null)

\* The last argument is checked in the place of the application, whose type is
\* compared first.  Holes that occur in the argument's type may still be filled.
TailArg(s, t, i, headtp, holes, p) ==
    LET dom == s.h[headtp].kids[2]
        rng == s.h[headtp].kids[3]
        Arg(hp, c) ==
            IF \E j \in Unfilled(hp, holes) : ~FreeIn(hp, dom, holes[j]) THEN Stop(s, "error")
            ELSE Then(Check(OnHeap(s, FoldLeft(Dec, hp, holes)), t.s[i],
                            [Params(FALSE, dom) EXCEPT !.pos = p.pos, !.asc = p.asc]),
                      LAMBDA a : Result(a.s, Null, c))
    IN  CASE i < Len(t.s) -> Stop(s, "error")
          [] p.exp = Null -> Arg(Dec(Inc(Inc(s.h, dom), rng), headtp), rng)
          [] OTHER ->
               With(Defeq(Inc(s.h, dom), p.exp, rng), LAMBDA d :
                   IF d.b THEN Arg(Dec(Dec(d.h, p.exp), headtp), Null) ELSE Stop(s, "error"))

\* The application of headtrm to what a is, and the type that is left: the variable of
\* the pi tp gets the argument's value, if it occurs.
AddArg(a, headtp, headtrm, tp, create) ==
    With(IF ~create THEN Ref(a.s.h, Null)
         ELSE With(MakeApp(a.s.h, headtrm, a.e), LAMBDA app :
              IF app.h[headtrm].cls = "c" THEN Ref(Dec(app.h, headtrm), app.e) ELSE app),
         LAMBDA app :
    With(FollowDefs(app.h, a.e), LAMBDA val :
    With(IF tp.bit THEN SetVal(Inc(app.h, val), tp.kids[1], val) ELSE app.h, LAMBDA h1 :
    With(IF a.hole /\ create THEN Inc(h1, a.e) ELSE h1, LAMBDA h2 :
        Ref(Dec(Inc(h2, tp.kids[3]), headtp), app.e)))))

CheckArgs(s, t, i, headtp, headtrm, holes, p) ==
    LET tp == s.h[headtp]
    IN  CASE i > Len(t.s) -> FinishApp(s, headtp, headtrm, holes, p)
          [] tp.op # "pi" -> Stop(s, "error")
          [] tail_calls /\ ~p.create /\ ~tp.bit /\ s.h[tp.kids[3]].op # "pi" ->
               TailArg(s, t, i, headtp, holes, p)
          [] OTHER ->
               Then(Check(OnHeap(s, Inc(s.h, tp.kids[2])), t.s[i],
                          [Params(p.create \/ tp.bit, tp.kids[2]) EXCEPT !.hole = TRUE]), LAMBDA a :
               With(AddArg(a, headtp, headtrm, tp, p.create), LAMBDA app :
                   CheckArgs(OnHeap(a.s, app.h), t, i + 1, tp.kids[3], app.e,
                             IF a.hole THEN Append(holes, a.e) ELSE holes, p)))

CheckApp(s, t, p) ==
    Then(Check(s, t.s[1], Params(p.create, Null)), LAMBDA r :
    With(OwnType(r.s, r.c), LAMBDA own :
        CheckArgs(OnHeap(r.s, own.h), t, 2, own.e, r.e, <<>>, p)))

-----------------------------------------------------------------------------
Check(s, t, p) ==
    CASE t.t = "id"   -> CheckId(s, t, p)
      [] t.t = "hole" -> CheckHole(s, p)
      [] t.t = "pi"   -> CheckPi(s, t, p)
      [] t.t = "arrow" -> CheckArrow(s, t, p)
      [] t.t = "alam" -> CheckAnnotatedLam(s, t, p)
      [] t.t = "big"  -> CheckBigLam(s, t, p)
      [] t.t = "lam"  -> CheckLam(s, t, p)
      [] t.t = "asc"  -> CheckAscription(s, t, p)
      [] t.t = "let"  -> CheckLocalDef(s, t, p)
      [] t.t = "app"  -> CheckApp(s, t, p)

-----------------------------------------------------------------------------
(* Commands.                                                               *)

\* in return position
Top(create) == [Params(create, Null) EXCEPT !.pos = TRUE]

Rebind(s, prev) == IF prev = Unbound THEN Result(s, Null, Null) ELSE Stop(s, "error")

\* x is bound to a new symbol of type ty
BindNew(s, x, ty) == Rebind(Bind(WithSymbol(s, x), x, Entry(NewAt(s.h), ty)), s.sym[x])
DefineNew(s, x, e, ty) ==
    Rebind(InsertAndBindSymbol(WithSymbol(s, x), x, NewAt(s.h), e, ty), s.sym[x])

\* getop() is asked of what the classifier stands for
ClassifierOp(r) == r.s.h[FollowDefs(r.s.h, r.c)].op

Declare(s, x, t) ==
    Then(Check(s, t, Top(TRUE)), LAMBDA r :
         IF ClassifierOp(r) \notin {"type", "kind"} THEN Stop(r.s, "error")
         ELSE BindNew(OnHeap(r.s, Dec(r.s.h, FollowDefs(r.s.h, r.c))), x, r.e))

Define(s, x, t) ==
    Then(Check(s, t, Top(TRUE)), LAMBDA r :
         IF ClassifierOp(r) = "kind" THEN Stop(r.s, "error") ELSE DefineNew(r.s, x, r.e, r.c))

Opaque(s, x, t) ==
    Then(Check(s, t, Top(FALSE)), LAMBDA r :
         IF ClassifierOp(r) = "kind" THEN Stop(r.s, "error") ELSE BindNew(r.s, x, r.c))

\* the items of t and, but for declare-type, the term after them
DeclareRule(s, x, t) ==
    WithDecls(s, Front(t.s), LAMBDA d :
    Then(Check(d.s, Last(t.s), Params(TRUE, Null)), LAMBDA r :
    IF ~IsClassifier(r.s.h, r.c) THEN Stop(PutBack(r.s, d.olds), "error")
    ELSE With(BuildPi(r.s.h, d.decls, r.e), LAMBDA pi :
             BindNew(PutBack(OnHeap(r.s, Dec(pi.h, r.c)), d.olds), x, pi.e))))

DeclareType(s, x, t) ==
    WithDecls(s, t.s, LAMBDA d :
    With(BuildPi(d.s.h, d.decls, statType), LAMBDA pi :
        BindNew(PutBack(OnHeap(d.s, Dec(pi.h, statKind)), d.olds), x, pi.e)))

DefineConst(s, x, t) ==
    WithDecls(s, Front(t.s), LAMBDA d :
    Then(Check(d.s, Last(t.s), Params(TRUE, Null)), LAMBDA r :
    With(BuildMacro(r.s.h, d.decls, r.e, r.c), LAMBDA m :
        IF m.dep THEN Stop(r.s, "error")
        ELSE DefineNew(PutBack(OnHeap(r.s, m.h), d.olds), x, m.e, m.ty))))

\* the bindings a tail call left are taken back, the last first
CleanUp(s) == [PutBack(s, s.loc) EXCEPT !.loc = <<>>]

CheckCommand(s, t) ==
    Then(Check(s, t, Top(FALSE)),
         LAMBDA r : Result(CleanUp(OnHeap(r.s, Dec(r.s.h, r.c))), Null, Null))

\* the items of t, a type and a term
CheckAssuming(s, t) ==
    LET n == Len(t.s)
    IN  WithDecls(s, SubSeq(t.s, 1, n - 2), LAMBDA d :
            Then(Check(d.s, t.s[n - 1], Params(TRUE, statType)), LAMBDA ty :
            Then(Check(ty.s, t.s[n], Params(FALSE, ty.e)), LAMBDA r :
                 Result(CleanUp(PutBack(r.s, d.olds)), Null, Null))))

Run(s, cmd) ==
    CASE cmd.c = "declare" -> Declare(s, cmd.x, cmd.t)
      [] cmd.c = "define"  -> Define(s, cmd.x, cmd.t)
      [] cmd.c = "opaque"  -> Opaque(s, cmd.x, cmd.t)
      [] cmd.c = "declare-rule" -> DeclareRule(s, cmd.x, cmd.t)
      [] cmd.c = "declare-type" -> DeclareType(s, cmd.x, cmd.t)
      [] cmd.c = "define-const" -> DefineConst(s, cmd.x, cmd.t)
      [] cmd.c = "check-assuming" -> CheckAssuming(s, cmd.t)
      [] cmd.c = "check"   -> CheckCommand(s, cmd.t)

\* the commands that may come next
NextCommands ==
    LET f == Files[file]
    IN  IF Len(log) < Len(f.prelude) THEN {f.prelude[Len(log) + 1]}
        ELSE IF Len(log) < Len(f.prelude) + MaxInputs THEN f.inputs ELSE {}

\* the state that a result r leaves
Leaves(r) ==
    /\ h' = r.s.h
    /\ symbols' = r.s.sym
    /\ locals' = r.s.loc
    /\ status' = IF Undefined(r.s.h) THEN "undefined" ELSE r.st

ReadCommand(cmd) ==
    /\ status = "ok"
    /\ Leaves(Run([h |-> h, sym |-> symbols, loc |-> locals], cmd))
    /\ log' = Append(log, cmd)
    /\ UNCHANGED <<file, tail_calls>>

Next == \E cmd \in NextCommands : ReadCommand(cmd)

Spec == Init /\ [][Next]_vars

-----------------------------------------------------------------------------
\* The pointers lead to objects, an abstraction has the kids that check() and
\* defeq() read, and no count leaves the bits it has.
TypeOK ==
    /\ \A e \in DOMAIN h :
          /\ h[e].rc \in Poisoned..MaxRefCount
          /\ {h[e].val} \cup ToSet(h[e].kids) \subseteq {Null} \cup DOMAIN h
          /\ h[e].op = "pi" => Len(h[e].kids) = 3 /\ h[h[e].kids[1]].cls = "sym"
          /\ h[e].op = "lam" => Len(h[e].kids) = 2 /\ h[h[e].kids[1]].cls = "sym"
          /\ h[e].cls # "c" => h[e].kids = <<>>
    /\ \A x \in Names : {symbols[x].v, symbols[x].t} \subseteq {Null} \cup DOMAIN h
    /\ status = "ok" => locals = <<>>
=============================================================================
