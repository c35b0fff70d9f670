-------------------------- MODULE CheckScopesProofs --------------------------
(***************************************************************************)
(* Proofs about CheckScopes, for any identifiers, symbols, input and       *)
(* bounds.  The invariant of the symbol table is stated per identifier:    *)
(* every frame remembers how to get back to the entry it started with, as  *)
(* long as the identifier is not one that a tail call has bound.           *)
(***************************************************************************)
EXTENDS CheckScopes, TLAPS, NaturalsInduction, WellFoundedInduction,
        SequenceTheorems

-----------------------------------------------------------------------------
(* The inductive invariant, as predicates of the stack st and of the values *)
(* of the other variables, so that lemmas can speak of intermediate stacks  *)

Last(st) == st[Len(st)]

\* kinds of frames that have bound nothing yet, or never do
EmptyKinds == {"pi_dom", "ann_dom", "big_dom", "asc_ty", "asc_tm", "let_tm",
               "neg", "app", "run_read", "run_chk", "run_tm", "item", "anon",
               "param", "code_seq", "code_let", "define", "declare", "opaque",
               "check", "run", "run_check"}

\* kinds of frames whose id is an identifier
NamedKinds == {"pi_dom", "ann_dom", "big_dom", "let_tm", "item", "param",
               "code_let", "define", "declare", "opaque", "declare-rule",
               "declare-type", "define-const", "rule_ret", "const_ret"}

ProgramKinds == {"program", "prog_ret", "prog_read", "prog_check"}
DomainKinds == {"pi_dom", "ann_dom"}
RunKinds == {"run_read", "run_chk"}

\* where the loops of the code are, which frames are at the bottom, and which
\* have not bound anything
FrameShape(f, i) ==
    /\ f.k \in CommandKinds <=> i = 1
    /\ f.k \in EmptyKinds => f.old = <<>>
    /\ f.k \in NamedKinds => f.id \in Id
    /\ f.k \in {"big_dom", "check-assuming", "assume_ty"} => ~f.par.create

ShapeI(st) ==
    \A i \in DOMAIN st :
        /\ FrameShape(st[i], i)
        /\ st[i].k \in {"item", "anon"} => i > 1 /\ st[i - 1].k \in DeclKinds
        /\ st[i].k = "param" => i > 1 /\ st[i - 1].k = "program"

PcShape(p, st) ==
    /\ p = "toplevel" => st = <<>>
    /\ p \notin {"toplevel", "exit"} => st # <<>>
    /\ p = "args" => Last(st).k = "app"
    /\ p = "decls" => Last(st).k \in DeclKinds
    /\ p = "params" => Last(st).k = "program"
    /\ p = "casevars" => Last(st).k = "code_case"

\* parentheses nest; an activation that builds its term has only building ones
\* above it, and the parentheses between them are exactly their own
OpensParen(k) ==
    /\ k \in TermKinds \cup RunKinds
    /\ k \notin {"item", "anon", "param"}

Opens(k) == IF OpensParen(k) THEN 1 ELSE 0

ParenI(st, o) ==
    /\ \A i \in DOMAIN st : st[i].prevo <= o
    /\ \A i, j \in DOMAIN st :
          i < j => st[i].prevo + Opens(st[j].k) <= st[j].prevo
    /\ st # <<>> => st[1].prevo = 0

BuildI(st, o) ==
    /\ \A i, j \in DOMAIN st : i < j /\ Builds(st[i]) => st[j].par.create
    /\ \A i \in DOMAIN st : i > 1 /\ Builds(st[i - 1]) =>
          st[i].prevo = st[i - 1].prevo + Opens(st[i].k)
    /\ st # <<>> /\ Builds(Last(st)) => o = Last(st).prevo
    /\ st = <<>> => o = 0

PcBuilds(p, pa, st) == p = "check" /\ Builds(Last(st)) => pa.create

\* side conditions
RunI(st, al) ==
    /\ al => \E i \in DOMAIN st : st[i].k \in DomainKinds
    /\ \A i \in DOMAIN st : st[i].k \in RunKinds =>
          \E j \in DOMAIN st : j < i /\ st[j].k \in DomainKinds

\* a program's parameters were unbound, and stay out of local_sym_names
ParamI(st, lo, lk) ==
    \A i \in DOMAIN st :
        /\ st[i].k \in ProgramKinds => \A j \in DOMAIN st[i].old :
              st[i].old[j].id \notin lk => st[i].old[j].prev = NoSym
        /\ st[i].k = "param" /\ st[i].id \notin lk =>
              st[i].entry[st[i].id] = NoSym /\ ~Logged(lo, st[i].id)

\* x before the bindings of log, if it is v after them
Undo(v, log, x) == IF Logged(log, x) THEN FirstPrev(log, x) ELSE v

Hidden(st, x) == \E i \in DOMAIN st : Logged(st[i].old, x)

\* x has the entry v and is not in local_sym_names: every frame's log leads
\* back to the frame's entry, and what no frame hides is the command's
ScopedAt(x, v, st, g) ==
    /\ st # <<>> => Undo(v, Last(st).old, x) = Last(st).entry[x]
    /\ \A i \in DOMAIN st : i > 1 =>
          Undo(st[i].entry[x], st[i - 1].old, x) = st[i - 1].entry[x]
    /\ \A i \in DOMAIN st :
          (\A j \in DOMAIN st : j < i => ~Logged(st[j].old, x))
             => st[i].entry[x] = g
    /\ ~Hidden(st, x) => v = g

\* x has the entry v and is in local_sym_names: the oldest record is the
\* command's entry, and no frame makes x unbound again
LocalAt(x, v, lo, st, g) ==
    /\ FirstPrev(lo, x) = g
    /\ v # NoSym
    /\ \A i \in DOMAIN st : \A j \in DOMAIN st[i].old :
          st[i].old[j].id = x => st[i].old[j].prev # NoSym

ScopeI(sy, lo, st, gl, lk) ==
    \A x \in Id \ lk : IF Logged(lo, x) THEN LocalAt(x, sy[x], lo, st, gl[x])
                                        ELSE ScopedAt(x, sy[x], st, gl[x])

\* what the stack alone, and the stack with the other variables, satisfies
StackI(st, o, al, lo, lk) ==
    ShapeI(st) /\ ParenI(st, o) /\ BuildI(st, o) /\ RunI(st, al) /\ ParamI(st, lo, lk)

IInv ==
    /\ TypeOK
    /\ StackI(stack, open_parens, allow_run, local_sym_names, leaked)
    /\ PcShape(pc, stack)
    /\ PcBuilds(pc, par, stack)
    /\ ScopeI(symbols, local_sym_names, stack, globals, leaked)

-----------------------------------------------------------------------------
(* Undo logs *)

\* The oldest record of x in a log (what FirstPrev chooses) exists.
LEMMA FirstExists ==
    ASSUME NEW log \in Seq(LogEntry), NEW x, Logged(log, x)
    PROVE  \E i \in DOMAIN log :
              log[i].id = x /\ \A j \in DOMAIN log : j < i => log[j].id # x
<1> DEFINE T == {i \in DOMAIN log : log[i].id = x}
<1>1. T \subseteq Nat /\ T # {}
  BY DEF Logged
<1>2. PICK i \in T : \A j \in T : <<j, i>> \notin OpToRel(<, Nat)
  BY <1>1, WFMin, NatLessThanWellFounded
<1>3. \A j \in T : ~(j < i)
  BY <1>1, <1>2 DEF OpToRel
<1> QED BY <1>2, <1>3

\* FirstPrev returns the prev field of a record of x.
LEMMA FirstPrevIsRecord ==
    ASSUME NEW log \in Seq(LogEntry), NEW x, Logged(log, x)
    PROVE  \E i \in DOMAIN log : log[i].id = x /\ FirstPrev(log, x) = log[i].prev
  BY FirstExists DEF FirstPrev

\* A record pushed behind an older one of the same identifier is never the one
\* that restoring ends with.
LEMMA FirstPrevStable ==
    ASSUME NEW log \in Seq(LogEntry), NEW x, NEW e \in LogEntry, Logged(log, x)
    PROVE  Logged(Append(log, e), x) /\ FirstPrev(Append(log, e), x) = FirstPrev(log, x)
<1> DEFINE app == Append(log, e)
           First(l, i) == l[i].id = x /\ \A j \in DOMAIN l : j < i => l[j].id # x
<1>1. /\ app \in Seq(LogEntry)
      /\ DOMAIN app = 1..(Len(log) + 1)
      /\ DOMAIN log = 1..Len(log)
      /\ \A i \in DOMAIN log : app[i] = log[i]
  OBVIOUS
<1>2. PICK i \in DOMAIN log : First(log, i)
  BY FirstExists
<1>3. i \in DOMAIN app /\ First(app, i)
  BY <1>1, <1>2
<1>4. \A j \in DOMAIN app : First(app, j) => j = i
  BY <1>1, <1>2, <1>3
<1>5. \A j \in DOMAIN log : First(log, j) => j = i
  BY <1>1, <1>2
<1>6. FirstPrev(app, x) = app[i].prev
  BY <1>3, <1>4 DEF FirstPrev
<1>7. FirstPrev(log, x) = log[i].prev
  BY <1>2, <1>5 DEF FirstPrev
<1> QED BY <1>1, <1>2, <1>6, <1>7 DEF Logged

\* The first record of an identifier is the one that restoring ends with.
LEMMA FirstPrevNew ==
    ASSUME NEW log \in Seq(LogEntry), NEW e \in LogEntry, ~Logged(log, e.id)
    PROVE  Logged(Append(log, e), e.id) /\ FirstPrev(Append(log, e), e.id) = e.prev
<1> DEFINE app == Append(log, e)
           n == Len(log) + 1
<1>1. /\ DOMAIN app = 1..n /\ n \in DOMAIN app
      /\ DOMAIN log = 1..Len(log)
      /\ \A i \in DOMAIN log : app[i] = log[i]
      /\ app[n] = e
  OBVIOUS
<1>2. \A i \in DOMAIN app : app[i].id = e.id => i = n
  BY <1>1 DEF Logged
<1>3. Logged(app, e.id)
  BY <1>1 DEF Logged
<1>4. FirstPrev(app, e.id) = app[n].prev
  BY <1>1, <1>2 DEF FirstPrev
<1> QED BY <1>1, <1>3, <1>4

\* A record of another identifier changes nothing.
LEMMA FirstPrevOther ==
    ASSUME NEW log \in Seq(LogEntry), NEW e \in LogEntry, NEW x, x # e.id
    PROVE  /\ Logged(Append(log, e), x) <=> Logged(log, x)
           /\ Logged(log, x) => FirstPrev(Append(log, e), x) = FirstPrev(log, x)
<1>1. Logged(Append(log, e), x) => Logged(log, x)
  BY DEF Logged
<1>2. Logged(log, x) => Logged(Append(log, e), x) /\ FirstPrev(Append(log, e), x) = FirstPrev(log, x)
  BY FirstPrevStable
<1> QED BY <1>1, <1>2

\* Undoing a log that has just recorded a binding of x gives what undoing the
\* log gave before the binding.
LEMMA UndoRemember ==
    ASSUME NEW log \in Seq(LogEntry), NEW e \in LogEntry, NEW x, NEW v, NEW s,
           x = e.id => e.prev = v
    PROVE  /\ x = e.id => Undo(s, Append(log, e), x) = Undo(v, log, x)
           /\ x # e.id => Undo(v, Append(log, e), x) = Undo(v, log, x)
<1>1. CASE x # e.id
  BY <1>1, FirstPrevOther DEF Undo
<1>2. CASE x = e.id /\ Logged(log, x)
  BY <1>2, FirstPrevStable DEF Undo
<1>3. CASE x = e.id /\ ~Logged(log, x)
  BY <1>3, FirstPrevNew DEF Undo
<1> QED BY <1>1, <1>2, <1>3

-----------------------------------------------------------------------------
(* The stack: an activation starts *)

\* The types of a frame's fields.
LEMMA FrameFields ==
    ASSUME NEW f \in Frame
    PROVE  /\ f.k \in TermKinds \cup CodeKinds \cup CommandKinds
           /\ f.id \in Id \cup {NoId} /\ f.old \in Seq(LogEntry)
           /\ f.prevo \in Nat /\ f.par \in Par /\ f.entry \in Table
           /\ f.par.create \in BOOLEAN /\ f.par.ret \in BOOLEAN
  BY DEF Frame, Par

\* A frame that goes on to another stage.
LEMMA StageFrame ==
    ASSUME NEW f \in Frame, NEW k \in TermKinds \cup CodeKinds \cup CommandKinds
    PROVE  /\ Stage(f, k) \in Frame /\ Stage(f, k).k = k
           /\ Stage(f, k).old = f.old /\ Stage(f, k).id = f.id
           /\ Stage(f, k).prevo = f.prevo /\ Stage(f, k).par = f.par
           /\ Stage(f, k).entry = f.entry
  BY DEF Stage, Frame

\* Logging a binding keeps the type of a log.
LEMMA RememberType ==
    ASSUME NEW log \in Seq(LogEntry), NEW sy \in Table, NEW id \in Id
    PROVE  Remember(log, sy, id) \in Seq(LogEntry)
  BY DEF Remember, LogEntry, Table

\* A frame that logs a binding.
LEMMA HidesFrame ==
    ASSUME NEW f \in Frame, NEW sy \in Table, NEW id \in Id
    PROVE  /\ Hides(f, sy, id) \in Frame /\ Hides(f, sy, id).k = f.k
           /\ Hides(f, sy, id).old = Remember(f.old, sy, id) /\ Hides(f, sy, id).id = f.id
           /\ Hides(f, sy, id).prevo = f.prevo /\ Hides(f, sy, id).par = f.par
           /\ Hides(f, sy, id).entry = f.entry
<1>1. Remember(f.old, sy, id) \in Seq(LogEntry)
  BY RememberType, FrameFields
<1> QED BY <1>1 DEF Hides, Frame

\* A new frame.
LEMMA NewFrameFields ==
    ASSUME NEW k \in TermKinds \cup CodeKinds \cup CommandKinds, NEW id \in Id \cup {NoId},
           NEW o \in Nat, NEW p \in Par, symbols \in Table
    PROVE  /\ NewFrame(k, id, o, p) \in Frame /\ NewFrame(k, id, o, p).k = k
           /\ NewFrame(k, id, o, p).old = <<>> /\ NewFrame(k, id, o, p).id = id
           /\ NewFrame(k, id, o, p).prevo = o /\ NewFrame(k, id, o, p).par = p
           /\ NewFrame(k, id, o, p).entry = symbols
  BY DEF NewFrame, Frame

\* The elements of a stack are frames.
LEMMA StackFrames ==
    ASSUME NEW st \in Seq(Frame)
    PROVE  \A i \in DOMAIN st : st[i] \in Frame /\ st[i].prevo \in Nat
<1>1. \A i \in DOMAIN st : st[i] \in Frame
  OBVIOUS
<1> QED BY <1>1, FrameFields

\* What a new frame does to a stack.
LEMMA StackFacts ==
    ASSUME NEW st \in Seq(Frame), NEW f \in Frame
    PROVE  /\ Append(st, f) \in Seq(Frame)
           /\ Len(Append(st, f)) = Len(st) + 1
           /\ DOMAIN st = 1..Len(st)
           /\ DOMAIN Append(st, f) = 1..(Len(st) + 1)
           /\ Last(Append(st, f)) = f
           /\ Append(st, f)[Len(st) + 1] = f
           /\ Append(st, f) # <<>>
           /\ \A i \in 1..Len(st) : Append(st, f)[i] = st[i]
  BY DEF Last

\* What an update of the top frame does to a stack.
LEMMA ReplaceFacts ==
    ASSUME NEW st \in Seq(Frame), st # <<>>, NEW f \in Frame
    PROVE  /\ SetTop(st, f) \in Seq(Frame)
           /\ Len(SetTop(st, f)) = Len(st)
           /\ Len(st) >= 1 /\ DOMAIN st = 1..Len(st)
           /\ DOMAIN SetTop(st, f) = 1..Len(st)
           /\ Last(SetTop(st, f)) = f
           /\ SetTop(st, f) # <<>>
           /\ SetTop(st, f)[Len(st)] = f
           /\ \A i \in 1..(Len(st) - 1) : SetTop(st, f)[i] = st[i]
  BY DEF Last, SetTop

\* What the return of an activation does to a stack.
LEMMA BelowFacts ==
    ASSUME NEW st \in Seq(Frame), st # <<>>
    PROVE  /\ Below(st) \in Seq(Frame)
           /\ Len(Below(st)) = Len(st) - 1
           /\ Len(st) >= 1 /\ DOMAIN st = 1..Len(st)
           /\ DOMAIN Below(st) = 1..(Len(st) - 1)
           /\ \A i \in 1..(Len(st) - 1) : Below(st)[i] = st[i]
           /\ Len(st) > 1 => Below(st) # <<>> /\ Last(Below(st)) = st[Len(st) - 1]
           /\ Last(st) \in Frame
<1>1. Len(st) >= 1 /\ DOMAIN st = 1..Len(st) /\ Last(st) \in Frame /\ Len(st) \in Nat
  BY DEF Last
<1>2. /\ Below(st) \in Seq(Frame)
      /\ Len(Below(st)) = Len(st) - 1
      /\ \A i \in 1..(Len(st) - 1) : Below(st)[i] = st[i]
  BY <1>1 DEF Below
<1>3. DOMAIN Below(st) = 1..(Len(st) - 1)
  BY <1>1, <1>2
<1>4. Len(st) > 1 => Below(st) # <<>> /\ Last(Below(st)) = st[Len(st) - 1]
  BY <1>1, <1>2 DEF Last
<1> QED BY <1>1, <1>2, <1>3, <1>4

\* Starting an activation above a non-empty stack preserves what the stack
\* satisfies.
LEMMA PushStack ==
    ASSUME NEW st \in Seq(Frame), st # <<>>, NEW f \in Frame,
           NEW o \in Nat, NEW al \in BOOLEAN, NEW lo, NEW lk, NEW al2 \in BOOLEAN,
           StackI(st, o, al, lo, lk),
           FrameShape(f, 2),
           f.k \in {"item", "anon"} => Last(st).k \in DeclKinds,
           f.k = "param" => Last(st).k = "program",
           f.prevo = o + Opens(f.k),
           Builds(Last(st)) => f.par.create,
           al2 => al \/ f.k \in DomainKinds,
           f.k \in RunKinds => al,
           f.k = "param" /\ f.id \notin lk =>
               f.entry[f.id] = NoSym /\ ~Logged(lo, f.id)
    PROVE  StackI(Append(st, f), o + Opens(f.k), al2, lo, lk)
<1> DEFINE st2 == Append(st, f)
           n == Len(st)
<1> USE StackFacts DEF StackI
<1>0. n \in Nat /\ n >= 1 /\ Last(st) = st[n] /\ n \in DOMAIN st /\ Opens(f.k) \in Nat
  BY DEF Last, Opens
<1>a. st \in Seq(Frame) /\ st2 \in Seq(Frame) /\ \A i \in DOMAIN st2 : st2[i] \in Frame
  OBVIOUS
<1>b. \A i \in DOMAIN st2 : (i \in DOMAIN st /\ i \in 1..n /\ st2[i] = st[i]) \/ (i = n + 1 /\ st2[i] = f)
  OBVIOUS
<1>c. f.k \notin CommandKinds
  BY DEF FrameShape
<1>1. ShapeI(st2)
  <2> SUFFICES ASSUME NEW i \in DOMAIN st2
               PROVE  /\ FrameShape(st2[i], i)
                      /\ st2[i].k \in {"item", "anon"} => i > 1 /\ st2[i - 1].k \in DeclKinds
                      /\ st2[i].k = "param" => i > 1 /\ st2[i - 1].k = "program"
    BY DEF ShapeI
  <2>1. CASE i \in 1..n
    <3>1. st2[i] = st[i] /\ (i > 1 => st2[i - 1] = st[i - 1])
      BY <2>1, <1>0
    <3> QED BY <2>1, <3>1 DEF ShapeI
  <2>2. CASE i = n + 1
    <3>1. st2[i] = f /\ st2[i - 1] = Last(st) /\ i > 1
      BY <2>2, <1>0
    <3> QED BY <3>1 DEF FrameShape
  <2> QED BY <2>1, <2>2, <1>b
<1>2. ParenI(st2, o + Opens(f.k))
  <2>1. \A i \in DOMAIN st : st[i].prevo \in Nat /\ st[i].prevo <= o
    BY StackFrames DEF ParenI
  <2>2. \A i \in DOMAIN st2 : st2[i].prevo <= o + Opens(f.k)
    BY <2>1, <1>b, <1>0
  <2>3. ASSUME NEW i \in DOMAIN st2, NEW j \in DOMAIN st2, i < j
        PROVE  st2[i].prevo + Opens(st2[j].k) <= st2[j].prevo
    <3>1. CASE j \in 1..n
      BY <3>1, <2>3, <1>0 DEF ParenI
    <3>2. CASE j = n + 1
      BY <3>2, <2>3, <2>1, <1>0
    <3> QED BY <3>1, <3>2, <1>0
  <2>4. st2[1].prevo = 0
    BY <1>0 DEF ParenI
  <2> QED BY <2>2, <2>3, <2>4 DEF ParenI
<1>3. BuildI(st2, o + Opens(f.k))
  <2>1. ASSUME NEW i \in DOMAIN st2, NEW j \in DOMAIN st2, i < j, Builds(st2[i])
        PROVE  st2[j].par.create
    <3>1. CASE j \in 1..n
      BY <3>1, <2>1, <1>0 DEF BuildI
    <3>2. CASE j = n + 1 /\ i = n
      BY <3>2, <2>1, <1>0
    <3>3. CASE j = n + 1 /\ i < n
      <4>1. st[n].par.create
        BY <3>3, <2>1, <1>0 DEF BuildI
      <4> QED BY <4>1, <3>3, <1>0 DEF Builds
    <3> QED BY <3>1, <3>2, <3>3, <2>1, <1>0
  <2>2. ASSUME NEW i \in DOMAIN st2, i > 1, Builds(st2[i - 1])
        PROVE  st2[i].prevo = st2[i - 1].prevo + Opens(st2[i].k)
    <3>1. CASE i \in 1..n
      <4>1. st2[i] = st[i] /\ st2[i - 1] = st[i - 1]
        BY <3>1, <2>2, <1>0
      <4> QED BY <4>1, <3>1, <2>2 DEF BuildI
    <3>2. CASE i = n + 1
      <4>1. st2[i] = f /\ st2[i - 1] = Last(st)
        BY <3>2, <1>0
      <4> QED BY <4>1, <2>2 DEF BuildI
    <3> QED BY <3>1, <3>2, <1>b
  <2> QED BY <2>1, <2>2, <1>0 DEF BuildI
<1>4. RunI(st2, al2)
  <2>1. al2 => \E i \in DOMAIN st2 : st2[i].k \in DomainKinds
    BY <1>0, <1>b DEF RunI
  <2>2. ASSUME NEW i \in DOMAIN st2, st2[i].k \in RunKinds
        PROVE  \E j \in DOMAIN st2 : j < i /\ st2[j].k \in DomainKinds
    <3>1. CASE i \in 1..n
      <4>1. PICK j \in DOMAIN st : j < i /\ st[j].k \in DomainKinds
        BY <2>2, <3>1, <1>b DEF RunI
      <4> QED BY <4>1, <1>b, <1>0
    <3>2. CASE i = n + 1
      <4>1. PICK j \in DOMAIN st : st[j].k \in DomainKinds
        BY <2>2, <3>2, <1>b DEF RunI
      <4> QED BY <4>1, <3>2, <1>b, <1>0
    <3> QED BY <3>1, <3>2, <1>b
  <2> QED BY <2>1, <2>2 DEF RunI
<1>5. ParamI(st2, lo, lk)
  BY <1>b, <1>c DEF ParamI, ProgramKinds, CommandKinds, AllCommands
<1> QED BY <1>1, <1>2, <1>3, <1>4, <1>5

\* Moving the top activation to its next stage (frame f) preserves what the
\* stack satisfies.
LEMMA ReplaceStack ==
    ASSUME NEW st \in Seq(Frame), st # <<>>, NEW f \in Frame,
           NEW o \in Nat, NEW al \in BOOLEAN, NEW lo, NEW lk,
           NEW o2 \in Nat, NEW al2 \in BOOLEAN,
           StackI(st, o, al, lo, lk),
           FrameShape(f, Len(st)),
           f.k \notin {"item", "anon", "param"},
           f.prevo = Last(st).prevo, f.par = Last(st).par,
           Opens(f.k) = Opens(Last(st).k),
           f.prevo <= o2, Builds(f) => o2 = f.prevo,
           al2 => al /\ Last(st).k \notin DomainKinds,
           f.k \in RunKinds => Last(st).k \in RunKinds,
           f.k \in ProgramKinds => \A j \in DOMAIN f.old :
              f.old[j].id \notin lk => f.old[j].prev = NoSym
    PROVE  StackI(SetTop(st, f), o2, al2, lo, lk)
<1> DEFINE st2 == SetTop(st, f)
           n == Len(st)
<1>0. /\ n \in Nat /\ n >= 1 /\ Last(st) = st[n] /\ n \in DOMAIN st
      /\ DOMAIN st = 1..n /\ DOMAIN st2 = 1..n
      /\ st2[n] = f /\ Last(st2) = f /\ st2 # <<>>
      /\ \A i \in 1..(n - 1) : st2[i] = st[i]
  <2>1. n \in Nat /\ n >= 1 /\ n \in DOMAIN st /\ Last(st) = st[n]
    BY ReplaceFacts DEF Last
  <2> QED BY <2>1, ReplaceFacts
<1> HIDE DEF st2, n
<1> USE DEF StackI
<1>a. \A i \in DOMAIN st2 : (i \in 1..(n - 1) /\ st2[i] = st[i]) \/ (i = n /\ st2[i] = f)
  BY <1>0
<1>b. Opens(f.k) = Opens(st[n].k) /\ Opens(f.k) \in Nat
  BY <1>0 DEF Opens
<1>1. ShapeI(st2)
  <2> SUFFICES ASSUME NEW i \in DOMAIN st2
               PROVE  /\ FrameShape(st2[i], i)
                      /\ st2[i].k \in {"item", "anon"} => i > 1 /\ st2[i - 1].k \in DeclKinds
                      /\ st2[i].k = "param" => i > 1 /\ st2[i - 1].k = "program"
    BY DEF ShapeI
  <2>1. CASE i \in 1..(n - 1)
    <3>1. st2[i] = st[i] /\ (i > 1 => st2[i - 1] = st[i - 1])
      BY <2>1, <1>0
    <3> QED BY <2>1, <3>1, <1>0 DEF ShapeI
  <2>2. CASE i = n
    BY <2>2, <1>0 DEF FrameShape, n
  <2> QED BY <2>1, <2>2, <1>a
<1>2. ParenI(st2, o2)
  <2>1. \A i \in DOMAIN st : st[i].prevo \in Nat
    BY StackFrames
  <2>2. \A i \in 1..(n - 1) : st[i].prevo <= st[n].prevo
    <3>1. \A i \in 1..(n - 1) : st[i].prevo + Opens(st[n].k) <= st[n].prevo
      BY <1>0 DEF ParenI
    <3> QED BY <3>1, <2>1, <1>0, <1>b
  <2>3. \A i \in DOMAIN st2 : st2[i].prevo <= o2
    BY <2>1, <2>2, <1>0, <1>a
  <2>4. ASSUME NEW i \in DOMAIN st2, NEW j \in DOMAIN st2, i < j
        PROVE  st2[i].prevo + Opens(st2[j].k) <= st2[j].prevo
    <3>1. st2[i] = st[i] /\ i \in DOMAIN st /\ j \in DOMAIN st
      BY <2>4, <1>0
    <3>2. st2[j].prevo = st[j].prevo /\ Opens(st2[j].k) = Opens(st[j].k)
      BY <1>0, <1>a, <1>b
    <3> QED BY <2>4, <3>1, <3>2 DEF ParenI
  <2>5. st2[1].prevo = 0
    BY <1>0, <1>a DEF ParenI
  <2> QED BY <2>3, <2>4, <2>5 DEF ParenI
<1>3. BuildI(st2, o2)
  <2>1. ASSUME NEW i \in DOMAIN st2, NEW j \in DOMAIN st2, i < j, Builds(st2[i])
        PROVE  st2[j].par.create
    <3>1. st2[i] = st[i] /\ st2[j].par = st[j].par /\ i \in DOMAIN st /\ j \in DOMAIN st
      BY <2>1, <1>0, <1>a
    <3> QED BY <2>1, <3>1 DEF BuildI
  <2>2. ASSUME NEW i \in DOMAIN st2, i > 1, Builds(st2[i - 1])
        PROVE  st2[i].prevo = st2[i - 1].prevo + Opens(st2[i].k)
    <3>1. st2[i - 1] = st[i - 1] /\ i \in DOMAIN st
      BY <2>2, <1>0
    <3>2. st2[i].prevo = st[i].prevo /\ Opens(st2[i].k) = Opens(st[i].k)
      BY <1>0, <1>a, <1>b
    <3> QED BY <2>2, <3>1, <3>2 DEF BuildI
  <2> QED BY <2>1, <2>2, <1>0 DEF BuildI
<1>4. RunI(st2, al2)
  <2>1. al2 => \E i \in DOMAIN st2 : st2[i].k \in DomainKinds
    <3>1. SUFFICES ASSUME al2 PROVE \E i \in DOMAIN st2 : st2[i].k \in DomainKinds
      OBVIOUS
    <3>2. PICK i \in DOMAIN st : st[i].k \in DomainKinds
      BY <3>1 DEF RunI
    <3>3. i \in 1..(n - 1)
      BY <3>1, <3>2, <1>0
    <3> QED BY <3>2, <3>3, <1>0
  <2>2. ASSUME NEW i \in DOMAIN st2, st2[i].k \in RunKinds
        PROVE  \E j \in DOMAIN st2 : j < i /\ st2[j].k \in DomainKinds
    <3>1. st[i].k \in RunKinds /\ i \in DOMAIN st
      BY <2>2, <1>0, <1>a
    <3>2. PICK j \in DOMAIN st : j < i /\ st[j].k \in DomainKinds
      BY <3>1 DEF RunI
    <3> QED BY <3>2, <2>2, <1>0
  <2> QED BY <2>1, <2>2 DEF RunI
<1>5. ParamI(st2, lo, lk)
  <2>1. \A i \in 1..(n - 1) : i \in DOMAIN st
    BY <1>0
  <2> QED BY <2>1, <1>a DEF ParamI
<1> QED BY <1>1, <1>2, <1>3, <1>4, <1>5 DEF st2

\* The end of the top activation preserves what the stack satisfies, if the
\* parentheses it leaves open (none, for a caller that builds) are its own.
LEMMA BelowStack ==
    ASSUME NEW st \in Seq(Frame), Len(st) > 1,
           NEW o \in Nat, NEW al \in BOOLEAN, NEW lo, NEW lk, NEW o2 \in Nat,
           StackI(st, o, al, lo, lk),
           st[Len(st) - 1].prevo <= o2,
           Builds(st[Len(st) - 1]) => o2 = st[Len(st) - 1].prevo,
           Last(st).k \notin DomainKinds
    PROVE  StackI(Below(st), o2, al, lo, lk)
<1> DEFINE st2 == Below(st)
           n == Len(st) - 1
<1>0. /\ n \in Nat /\ n >= 1 /\ n \in DOMAIN st /\ n + 1 \in DOMAIN st
      /\ DOMAIN st = 1..(n + 1) /\ DOMAIN st2 = 1..n
      /\ st2 # <<>> /\ Last(st2) = st[n] /\ Last(st) = st[n + 1]
      /\ \A i \in DOMAIN st2 : st2[i] = st[i] /\ i \in DOMAIN st /\ i <= n
  <2>1. st # <<>> /\ Len(st) \in Nat /\ Last(st) = st[Len(st)]
    BY DEF Last
  <2>2. /\ DOMAIN st = 1..Len(st) /\ DOMAIN st2 = 1..(Len(st) - 1)
        /\ \A i \in 1..(Len(st) - 1) : st2[i] = st[i]
        /\ st2 # <<>> /\ Last(st2) = st[Len(st) - 1]
    BY <2>1, BelowFacts
  <2> HIDE DEF st2
  <2> QED BY <2>1, <2>2
<1> HIDE DEF st2, n
<1> USE DEF StackI
<1>1. ShapeI(st2)
  <2> SUFFICES ASSUME NEW i \in DOMAIN st2
               PROVE  /\ FrameShape(st2[i], i)
                      /\ st2[i].k \in {"item", "anon"} => i > 1 /\ st2[i - 1].k \in DeclKinds
                      /\ st2[i].k = "param" => i > 1 /\ st2[i - 1].k = "program"
    BY DEF ShapeI
  <2>1. st2[i] = st[i] /\ (i > 1 => st2[i - 1] = st[i - 1])
    BY <1>0
  <2> QED BY <2>1, <1>0 DEF ShapeI
<1>2. ParenI(st2, o2)
  <2>1. \A i \in DOMAIN st : st[i].prevo \in Nat
    BY StackFrames
  <2>2. Opens(st[n].k) \in Nat
    BY DEF Opens
  <2>3. \A i \in DOMAIN st2 : st2[i].prevo <= st[n].prevo
    <3>1. \A i \in DOMAIN st : i < n => st[i].prevo + Opens(st[n].k) <= st[n].prevo
      BY <1>0 DEF ParenI
    <3> QED BY <3>1, <2>1, <2>2, <1>0
  <2> QED BY <2>1, <2>3, <1>0 DEF ParenI
<1>3. BuildI(st2, o2)
  <2>1. ASSUME NEW i \in DOMAIN st2, i > 1, Builds(st2[i - 1])
        PROVE  st2[i].prevo = st2[i - 1].prevo + Opens(st2[i].k)
    <3>1. st2[i] = st[i] /\ st2[i - 1] = st[i - 1] /\ i \in DOMAIN st
      BY <2>1, <1>0
    <3> QED BY <2>1, <3>1 DEF BuildI
  <2> QED BY <2>1, <1>0 DEF BuildI
<1>4. RunI(st2, al)
  <2>1. al => \E i \in DOMAIN st2 : st2[i].k \in DomainKinds
    <3>1. SUFFICES ASSUME al PROVE \E i \in DOMAIN st2 : st2[i].k \in DomainKinds
      OBVIOUS
    <3>2. PICK i \in DOMAIN st : st[i].k \in DomainKinds
      BY <3>1 DEF RunI
    <3> QED BY <3>2, <1>0
  <2>2. ASSUME NEW i \in DOMAIN st2, st2[i].k \in RunKinds
        PROVE  \E j \in DOMAIN st2 : j < i /\ st2[j].k \in DomainKinds
    <3>1. PICK j \in DOMAIN st : j < i /\ st[j].k \in DomainKinds
      BY <2>2, <1>0 DEF RunI
    <3> QED BY <3>1, <2>2, <1>0
  <2> QED BY <2>1, <2>2 DEF RunI
<1>5. ParamI(st2, lo, lk)
  BY <1>0 DEF ParamI
<1> QED BY <1>1, <1>2, <1>3, <1>4, <1>5 DEF st2

-----------------------------------------------------------------------------
(* The symbol table *)

\* A new activation has the current table as its entry and an empty log.
LEMMA ScopePush ==
    ASSUME NEW st \in Seq(Frame), NEW f \in Frame, NEW sy \in Table,
           NEW lo, NEW gl, NEW lk,
           ScopeI(sy, lo, st, gl, lk), f.old = <<>>, f.entry = sy
    PROVE  ScopeI(sy, lo, Append(st, f), gl, lk)
<1> DEFINE st2 == Append(st, f)
           n == Len(st)
<1>0. /\ n \in Nat /\ DOMAIN st = 1..n /\ DOMAIN st2 = 1..(n + 1)
      /\ st2[n + 1] = f /\ Last(st2) = f /\ st2 # <<>> /\ Last(st) = st[n]
      /\ \A i \in DOMAIN st : st2[i] = st[i]
      /\ st # <<>> => n >= 1
  BY StackFacts DEF Last
<1>1. \A x : ~Logged(f.old, x)
  BY DEF Logged
<1> HIDE DEF st2, n
<1> SUFFICES ASSUME NEW x \in Id \ lk
             PROVE  IF Logged(lo, x) THEN LocalAt(x, sy[x], lo, st2, gl[x])
                                     ELSE ScopedAt(x, sy[x], st2, gl[x])
  BY DEF ScopeI, st2
<1>2. CASE Logged(lo, x)
  <2>1. LocalAt(x, sy[x], lo, st, gl[x])
    BY <1>2 DEF ScopeI
  <2>2. \A i \in DOMAIN st2 : i \in DOMAIN st \/ i = n + 1
    BY <1>0
  <2> QED BY <1>0, <1>2, <2>1, <2>2 DEF LocalAt
<1>3. CASE ~Logged(lo, x)
  <2>1. ScopedAt(x, sy[x], st, gl[x])
    BY <1>3 DEF ScopeI
  <2>2. Undo(sy[x], Last(st2).old, x) = Last(st2).entry[x]
    BY <1>0, <1>1 DEF Undo
  <2>3. ASSUME NEW i \in DOMAIN st2, i > 1
        PROVE  Undo(st2[i].entry[x], st2[i - 1].old, x) = st2[i - 1].entry[x]
    <3>1. CASE i \in DOMAIN st
      <4>1. st2[i] = st[i] /\ st2[i - 1] = st[i - 1]
        BY <1>0, <2>3, <3>1
      <4> QED BY <2>1, <2>3, <3>1, <4>1 DEF ScopedAt
    <3>2. CASE i = n + 1
      <4>1. st2[i] = f /\ st2[i - 1] = Last(st) /\ st # <<>>
        BY <1>0, <2>3, <3>2
      <4> QED BY <2>1, <4>1 DEF ScopedAt
    <3> QED BY <1>0, <3>1, <3>2
  <2>4. Hidden(st2, x) <=> Hidden(st, x)
    <3>1. \A i \in DOMAIN st2 : i \in DOMAIN st \/ i = n + 1
      BY <1>0
    <3>2. \A i \in DOMAIN st : i \in DOMAIN st2
      BY <1>0
    <3> QED BY <1>0, <1>1, <3>1, <3>2 DEF Hidden
  <2>5. ASSUME NEW i \in DOMAIN st2,
               \A j \in DOMAIN st2 : j < i => ~Logged(st2[j].old, x)
        PROVE  st2[i].entry[x] = gl[x]
    <3>1. CASE i \in DOMAIN st
      <4>1. \A j \in DOMAIN st : j < i => ~Logged(st[j].old, x)
        BY <1>0, <2>5
      <4> QED BY <1>0, <2>1, <3>1, <4>1 DEF ScopedAt
    <3>2. CASE i = n + 1
      <4>1. ~Hidden(st, x)
        BY <1>0, <2>5, <3>2 DEF Hidden
      <4> QED BY <1>0, <2>1, <3>2, <4>1 DEF ScopedAt
    <3> QED BY <1>0, <3>1, <3>2
  <2>6. ~Hidden(st2, x) => sy[x] = gl[x]
    BY <2>1, <2>4 DEF ScopedAt
  <2>7. ScopedAt(x, sy[x], st2, gl[x])
    BY <2>2, <2>3, <2>5, <2>6 DEF ScopedAt
  <2> QED BY <1>3, <2>7
<1> QED BY <1>2, <1>3

\* The top activation binds id to s and logs what the binding hides.
LEMMA ScopeBind ==
    ASSUME NEW st \in Seq(Frame), st # <<>>, NEW f \in Frame, NEW sy \in Table,
           NEW lo, NEW gl, NEW lk, NEW id \in Id, NEW s \in Sym,
           ScopeI(sy, lo, st, gl, lk),
           f.old = Remember(Last(st).old, sy, id), f.entry = Last(st).entry
    PROVE  ScopeI(Bound(sy, id, s), lo, SetTop(st, f), gl, lk)
<1> DEFINE st2 == SetTop(st, f)
           n == Len(st)
           sy2 == Bound(sy, id, s)
           e == [id |-> id, prev |-> sy[id]]
<1>0. /\ n \in Nat /\ n >= 1 /\ Last(st) = st[n] /\ n \in DOMAIN st
      /\ DOMAIN st = 1..n /\ DOMAIN st2 = 1..n
      /\ st2[n] = f /\ Last(st2) = f /\ st2 # <<>>
      /\ \A i \in 1..(n - 1) : st2[i] = st[i]
  <2>1. n \in Nat /\ n >= 1 /\ n \in DOMAIN st /\ Last(st) = st[n]
    BY ReplaceFacts DEF Last
  <2> QED BY <2>1, ReplaceFacts
<1>1. e \in LogEntry /\ Last(st).old \in Seq(LogEntry) /\ f.old = Append(Last(st).old, e)
  BY FrameFields, BelowFacts DEF LogEntry, Table, Remember
<1>2. \A x \in Id : sy2[x] = IF x = id THEN s ELSE sy[x]
  BY DEF Bound, Table
<1>3. \A i \in DOMAIN st2 : (i \in DOMAIN st /\ i # n /\ st2[i] = st[i])
                            \/ (i = n /\ st2[i] = f)
  BY <1>0
<1>4. e.id = id /\ e.prev = sy[id]
  OBVIOUS
<1> HIDE DEF st2, n, sy2, e
<1> SUFFICES ASSUME NEW x \in Id \ lk
             PROVE  IF Logged(lo, x) THEN LocalAt(x, sy2[x], lo, st2, gl[x])
                                     ELSE ScopedAt(x, sy2[x], st2, gl[x])
  BY DEF ScopeI, st2, sy2
<1>5. CASE Logged(lo, x)
  <2>1. LocalAt(x, sy[x], lo, st, gl[x])
    BY <1>5 DEF ScopeI
  <2>2. sy2[x] # NoSym
    BY <1>2, <2>1, SymAssumption DEF LocalAt
  <2>3. ASSUME NEW j \in DOMAIN f.old, f.old[j].id = x
        PROVE  f.old[j].prev # NoSym
    <3>1. CASE j \in DOMAIN Last(st).old
      <4>1. f.old[j] = Last(st).old[j]
        BY <1>1, <3>1
      <4> QED BY <1>0, <2>1, <2>3, <3>1, <4>1 DEF LocalAt
    <3>2. CASE j \notin DOMAIN Last(st).old
      <4>1. f.old[j] = e
        BY <1>1, <2>3, <3>2
      <4> QED BY <1>4, <2>1, <2>3, <4>1 DEF LocalAt
    <3> QED BY <3>1, <3>2
  <2>4. \A i \in DOMAIN st2 : \A j \in DOMAIN st2[i].old :
           st2[i].old[j].id = x => st2[i].old[j].prev # NoSym
    BY <1>3, <2>1, <2>3 DEF LocalAt
  <2> QED BY <1>5, <2>1, <2>2, <2>4 DEF LocalAt
<1>6. CASE ~Logged(lo, x)
  <2>1. ScopedAt(x, sy[x], st, gl[x])
    BY <1>6 DEF ScopeI
  <2>2. Undo(sy2[x], f.old, x) = Last(st).entry[x]
    <3>1. x = e.id => e.prev = sy[x]
      BY <1>4
    <3>2. /\ x = e.id => Undo(s, Append(Last(st).old, e), x) = Undo(sy[x], Last(st).old, x)
          /\ x # e.id => Undo(sy[x], Append(Last(st).old, e), x) = Undo(sy[x], Last(st).old, x)
      BY <1>1, <3>1, UndoRemember
    <3>3. (x = e.id => sy2[x] = s) /\ (x # e.id => sy2[x] = sy[x])
      BY <1>2, <1>4
    <3>4. Undo(sy[x], Last(st).old, x) = Last(st).entry[x]
      BY <2>1 DEF ScopedAt
    <3> QED BY <1>1, <3>2, <3>3, <3>4
  <2>3. ASSUME NEW i \in DOMAIN st2, i > 1
        PROVE  Undo(st2[i].entry[x], st2[i - 1].old, x) = st2[i - 1].entry[x]
    <3>1. st2[i - 1] = st[i - 1] /\ i \in DOMAIN st /\ st2[i].entry = st[i].entry
      BY <1>0, <1>3, <2>3
    <3> QED BY <2>1, <2>3, <3>1 DEF ScopedAt
  <2>4. ASSUME NEW i \in DOMAIN st2,
               \A j \in DOMAIN st2 : j < i => ~Logged(st2[j].old, x)
        PROVE  st2[i].entry[x] = gl[x]
    <3>1. i \in DOMAIN st /\ st2[i].entry = st[i].entry
      BY <1>0, <1>3
    <3>2. \A j \in DOMAIN st : j < i => ~Logged(st[j].old, x)
      BY <1>0, <2>4
    <3> QED BY <2>1, <3>1, <3>2 DEF ScopedAt
  <2>5. ASSUME ~Hidden(st2, x)
        PROVE  sy2[x] = gl[x]
    <3>1. ~Logged(f.old, x)
      BY <1>0, <2>5 DEF Hidden
    <3>2. x # id /\ ~Logged(Last(st).old, x)
      BY <1>1, <1>4, <3>1, FirstPrevStable, FirstPrevNew
    <3>3. ~Hidden(st, x)
      <4>1. \A i \in DOMAIN st : i # n => i \in DOMAIN st2 /\ st2[i] = st[i]
        BY <1>0
      <4> QED BY <1>0, <2>5, <3>2, <4>1 DEF Hidden
    <3> QED BY <1>2, <2>1, <3>2, <3>3 DEF ScopedAt
  <2>6. ScopedAt(x, sy2[x], st2, gl[x])
    BY <1>0, <2>2, <2>3, <2>4, <2>5 DEF ScopedAt
  <2> QED BY <1>6, <2>6
<1> QED BY <1>5, <1>6

\* The invariant of the table only depends on the frames' logs and entries.
LEMMA ScopeKeep ==
    ASSUME NEW st \in Seq(Frame), st # <<>>, NEW f \in Frame, NEW sy,
           NEW lo, NEW gl, NEW lk,
           ScopeI(sy, lo, st, gl, lk),
           f.old = Last(st).old, f.entry = Last(st).entry
    PROVE  ScopeI(sy, lo, SetTop(st, f), gl, lk)
<1> DEFINE st2 == SetTop(st, f)
           n == Len(st)
<1>0. /\ n \in Nat /\ n >= 1 /\ Last(st) = st[n] /\ n \in DOMAIN st
      /\ DOMAIN st = 1..n /\ DOMAIN st2 = 1..n
      /\ st2[n] = f /\ Last(st2) = f /\ st2 # <<>>
      /\ \A i \in 1..(n - 1) : st2[i] = st[i]
  <2>1. n \in Nat /\ n >= 1 /\ n \in DOMAIN st /\ Last(st) = st[n]
    BY ReplaceFacts DEF Last
  <2> QED BY <2>1, ReplaceFacts
<1> HIDE DEF st2, n
<1>1. DOMAIN st2 = DOMAIN st /\ \A i \in DOMAIN st : st2[i].old = st[i].old /\ st2[i].entry = st[i].entry
  BY <1>0
<1>2. \A i \in DOMAIN st : i > 1 => i - 1 \in DOMAIN st
  BY <1>0
<1> SUFFICES ASSUME NEW x \in Id \ lk
             PROVE  IF Logged(lo, x) THEN LocalAt(x, sy[x], lo, st2, gl[x])
                                     ELSE ScopedAt(x, sy[x], st2, gl[x])
  BY DEF ScopeI, st2
<1>3. CASE Logged(lo, x)
  <2>1. LocalAt(x, sy[x], lo, st, gl[x])
    BY <1>3 DEF ScopeI
  <2> QED BY <1>1, <1>3, <2>1 DEF LocalAt
<1>4. CASE ~Logged(lo, x)
  <2>1. ScopedAt(x, sy[x], st, gl[x])
    BY <1>4 DEF ScopeI
  <2>2. Hidden(st2, x) <=> Hidden(st, x)
    BY <1>1 DEF Hidden
  <2>3. Undo(sy[x], Last(st2).old, x) = Last(st2).entry[x]
    BY <1>0, <2>1 DEF ScopedAt
  <2>4. \A i \in DOMAIN st2 : i > 1 =>
          Undo(st2[i].entry[x], st2[i - 1].old, x) = st2[i - 1].entry[x]
    BY <1>1, <1>2, <2>1 DEF ScopedAt
  <2>5. \A i \in DOMAIN st2 :
          (\A j \in DOMAIN st2 : j < i => ~Logged(st2[j].old, x))
             => st2[i].entry[x] = gl[x]
    BY <1>1, <2>1 DEF ScopedAt
  <2>6. ScopedAt(x, sy[x], st2, gl[x])
    BY <2>1, <2>2, <2>3, <2>4, <2>5 DEF ScopedAt
  <2> QED BY <1>4, <2>6
<1> QED BY <1>3, <1>4

\* Re-inserting what the top frame hid gives the table that the frame below
\* expects.
LEMMA ScopeBelow ==
    ASSUME NEW st \in Seq(Frame), st # <<>>, NEW sy \in Table,
           NEW lo, NEW gl, NEW lk,
           ScopeI(sy, lo, st, gl, lk)
    PROVE  ScopeI(Restore(sy, Last(st).old), lo, Below(st), gl, lk)
<1> DEFINE st2 == Below(st)
           n == Len(st)
           log == Last(st).old
           sy2 == Restore(sy, log)
<1>0. /\ n \in Nat /\ n >= 1 /\ n \in DOMAIN st /\ Last(st) = st[n]
      /\ DOMAIN st = 1..n /\ DOMAIN st2 = 1..(n - 1)
      /\ \A i \in DOMAIN st2 : st2[i] = st[i] /\ i \in DOMAIN st /\ i # n
      /\ st2 # <<>> => n > 1 /\ n - 1 \in DOMAIN st /\ Last(st2) = st[n - 1]
      /\ \A i \in DOMAIN st : i # n => i \in DOMAIN st2
  <2>1. /\ n >= 1 /\ DOMAIN st = 1..n /\ DOMAIN st2 = 1..(n - 1)
        /\ \A i \in 1..(n - 1) : st2[i] = st[i]
        /\ n > 1 => Last(st2) = st[n - 1]
        /\ Len(st2) = n - 1 /\ st2 \in Seq(Frame)
    BY BelowFacts
  <2>2. n \in Nat /\ Last(st) = st[n]
    BY DEF Last
  <2> HIDE DEF st2, n
  <2>3. st2 # <<>> => n > 1
    BY <2>1, <2>2
  <2> QED BY <2>1, <2>2, <2>3
<1>1. log \in Seq(LogEntry)
  BY FrameFields, BelowFacts
<1>2. \A x \in Id : sy2[x] = Undo(sy[x], log, x)
  BY DEF Restore, Undo
<1> HIDE DEF st2, n, sy2
<1> SUFFICES ASSUME NEW x \in Id \ lk
             PROVE  IF Logged(lo, x) THEN LocalAt(x, sy2[x], lo, st2, gl[x])
                                     ELSE ScopedAt(x, sy2[x], st2, gl[x])
  BY DEF ScopeI, st2, sy2
<1>3. CASE Logged(lo, x)
  <2>1. LocalAt(x, sy[x], lo, st, gl[x])
    BY <1>3 DEF ScopeI
  <2>2. sy2[x] # NoSym
    <3>1. CASE Logged(log, x)
      <4>1. PICK i \in DOMAIN log : log[i].id = x /\ FirstPrev(log, x) = log[i].prev
        BY <1>1, <3>1, FirstPrevIsRecord
      <4> QED BY <1>0, <1>2, <2>1, <3>1, <4>1 DEF Undo, LocalAt
    <3>2. CASE ~Logged(log, x)
      BY <1>2, <2>1, <3>2 DEF Undo, LocalAt
    <3> QED BY <3>1, <3>2
  <2> QED BY <1>0, <1>3, <2>1, <2>2 DEF LocalAt
<1>4. CASE ~Logged(lo, x)
  <2>1. ScopedAt(x, sy[x], st, gl[x])
    BY <1>4 DEF ScopeI
  <2>2. sy2[x] = st[n].entry[x]
    BY <1>0, <1>2, <2>1 DEF ScopedAt
  <2>3. st2 # <<>> => Undo(sy2[x], Last(st2).old, x) = Last(st2).entry[x]
    BY <1>0, <2>1, <2>2 DEF ScopedAt
  <2>4. ASSUME NEW i \in DOMAIN st2, i > 1
        PROVE  Undo(st2[i].entry[x], st2[i - 1].old, x) = st2[i - 1].entry[x]
    <3>1. st2[i] = st[i] /\ st2[i - 1] = st[i - 1] /\ i \in DOMAIN st
      BY <1>0, <2>4
    <3> QED BY <2>1, <2>4, <3>1 DEF ScopedAt
  <2>5. ASSUME NEW i \in DOMAIN st2,
               \A j \in DOMAIN st2 : j < i => ~Logged(st2[j].old, x)
        PROVE  st2[i].entry[x] = gl[x]
    <3>1. st2[i] = st[i] /\ i \in DOMAIN st
      BY <1>0
    <3>2. \A j \in DOMAIN st : j < i => ~Logged(st[j].old, x)
      BY <1>0, <2>5
    <3> QED BY <2>1, <3>1, <3>2 DEF ScopedAt
  <2>6. ~Hidden(st2, x) => sy2[x] = gl[x]
    <3>1. SUFFICES ASSUME ~Hidden(st2, x) PROVE st[n].entry[x] = gl[x]
      BY <2>2
    <3>2. \A j \in DOMAIN st : j < n => ~Logged(st[j].old, x)
      BY <1>0, <3>1 DEF Hidden
    <3> QED BY <1>0, <2>1, <3>2 DEF ScopedAt
  <2>7. ScopedAt(x, sy2[x], st2, gl[x])
    BY <2>3, <2>4, <2>5, <2>6 DEF ScopedAt
  <2> QED BY <1>4, <2>7
<1> QED BY <1>3, <1>4

\* A tail-called binder: its identifier goes to local_sym_names, with the
\* command's entry unless a frame hides that.
LEMMA ScopeTail ==
    ASSUME NEW st \in Seq(Frame), NEW sy \in Table, NEW lo \in Seq(LogEntry),
           NEW gl, NEW lk, NEW lk2, NEW id \in Id, NEW s \in Sym,
           ScopeI(sy, lo, st, gl, lk),
           lk \subseteq lk2,
           ~Logged(lo, id) /\ Hidden(st, id) => id \in lk2
    PROVE  ScopeI(Bound(sy, id, s), Remember(lo, sy, id), st, gl, lk2)
<1> DEFINE sy2 == Bound(sy, id, s)
           e == [id |-> id, prev |-> sy[id]]
           lo2 == Append(lo, e)
<1>1. e \in LogEntry /\ e.id = id /\ e.prev = sy[id] /\ Remember(lo, sy, id) = lo2
  BY DEF LogEntry, Table, Remember
<1>2. \A x \in Id : sy2[x] = IF x = id THEN s ELSE sy[x]
  BY DEF Bound, Table
<1> HIDE DEF sy2, e
<1> SUFFICES ASSUME NEW x \in Id \ lk2
             PROVE  IF Logged(lo2, x) THEN LocalAt(x, sy2[x], lo2, st, gl[x])
                                      ELSE ScopedAt(x, sy2[x], st, gl[x])
  BY <1>1 DEF ScopeI, sy2
<1>3. CASE x # id
  BY <1>1, <1>2, <1>3, FirstPrevOther DEF ScopeI, LocalAt
<1>4. CASE x = id /\ Logged(lo, x)
  <2>1. LocalAt(x, sy[x], lo, st, gl[x])
    BY <1>4 DEF ScopeI
  <2>2. Logged(lo2, x) /\ FirstPrev(lo2, x) = FirstPrev(lo, x)
    BY <1>1, <1>4, FirstPrevStable
  <2> QED BY <1>2, <1>4, <2>1, <2>2, SymAssumption DEF LocalAt
<1>5. CASE x = id /\ ~Logged(lo, x)
  <2>1. ScopedAt(x, sy[x], st, gl[x]) /\ ~Hidden(st, x)
    BY <1>5 DEF ScopeI
  <2>2. Logged(lo2, x) /\ FirstPrev(lo2, x) = sy[x]
    BY <1>1, <1>5, FirstPrevNew
  <2>3. \A i \in DOMAIN st : \A j \in DOMAIN st[i].old : st[i].old[j].id # x
    BY <2>1 DEF Hidden, Logged
  <2>4. sy[x] = gl[x] /\ sy2[x] # NoSym
    BY <1>2, <1>5, <2>1, SymAssumption DEF ScopedAt
  <2> QED BY <2>2, <2>3, <2>4 DEF LocalAt
<1> QED BY <1>3, <1>4, <1>5

\* A tail-called local definition: its identifier is leaked, unless the
\* command will clean it up anyway.
LEMMA ScopeLeak ==
    ASSUME NEW st, NEW sy \in Table, NEW lo, NEW gl, NEW lk, NEW lk2,
           NEW id \in Id, NEW s \in Sym,
           ScopeI(sy, lo, st, gl, lk),
           lk \subseteq lk2, ~Logged(lo, id) => id \in lk2
    PROVE  ScopeI(Bound(sy, id, s), lo, st, gl, lk2)
<1> DEFINE sy2 == Bound(sy, id, s)
<1>1. \A x \in Id : sy2[x] = IF x = id THEN s ELSE sy[x]
  BY DEF Bound, Table
<1> HIDE DEF sy2
<1> SUFFICES ASSUME NEW x \in Id \ lk2
             PROVE  IF Logged(lo, x) THEN LocalAt(x, sy2[x], lo, st, gl[x])
                                     ELSE ScopedAt(x, sy2[x], st, gl[x])
  BY DEF ScopeI, sy2
<1>2. CASE Logged(lo, x)
  BY <1>1, <1>2, SymAssumption DEF ScopeI, LocalAt
<1>3. CASE ~Logged(lo, x)
  BY <1>1, <1>3 DEF ScopeI
<1> QED BY <1>2, <1>3

-----------------------------------------------------------------------------
(* Steps of the specification: what every action that starts, moves on or *)
(* ends an activation has in common                                       *)

\* Restoring a table gives a table, and an empty log restores nothing.
LEMMA RestoreTable ==
    ASSUME NEW sy \in Table, NEW log \in Seq(LogEntry)
    PROVE  Restore(sy, log) \in Table /\ (log = <<>> => Restore(sy, log) = sy)
<1>1. ASSUME NEW x \in Id, Logged(log, x)
      PROVE  FirstPrev(log, x) \in Entry
  <2>1. PICK i \in DOMAIN log : FirstPrev(log, x) = log[i].prev
    BY <1>1, FirstPrevIsRecord
  <2>2. log[i] \in LogEntry
    OBVIOUS
  <2> QED BY <2>1, <2>2 DEF LogEntry
<1>2. log = <<>> => \A x \in Id : ~Logged(log, x)
  BY DEF Logged
<1> QED BY <1>1, <1>2 DEF Restore, Table

\* The parentheses around the top two frames, and what is left open when the
\* top one eats its own.
LEMMA PopParens ==
    ASSUME NEW st \in Seq(Frame), Len(st) > 1, NEW o \in Nat,
           NEW al, NEW lo, NEW lk, StackI(st, o, al, lo, lk)
    PROVE  LET n == Len(st)
           IN  /\ st[n].prevo \in Nat /\ st[n].prevo <= o /\ st[n - 1].prevo \in Nat
               /\ st[n - 1].prevo + Opens(st[n].k) <= st[n].prevo
               /\ Builds(st[n - 1]) =>
                     /\ st[n].par.create
                     /\ o = st[n].prevo
                     /\ st[n].prevo = st[n - 1].prevo + Opens(st[n].k)
<1> DEFINE n == Len(st)
<1>1. n \in DOMAIN st /\ n - 1 \in DOMAIN st /\ n - 1 < n /\ n > 1 /\ st # <<>> /\ Last(st) = st[n]
  BY DEF Last
<1> HIDE DEF n
<1>2. st[n].prevo \in Nat /\ st[n - 1].prevo \in Nat
  BY <1>1, StackFrames
<1>3. st[n].prevo <= o /\ st[n - 1].prevo + Opens(st[n].k) <= st[n].prevo
  BY <1>1 DEF StackI, ParenI
<1>4. ASSUME Builds(st[n - 1])
      PROVE  st[n].par.create /\ o = st[n].prevo /\ st[n].prevo = st[n - 1].prevo + Opens(st[n].k)
  <2>1. st[n].par.create
    BY <1>1, <1>4 DEF StackI, BuildI
  <2>2. Builds(st[n])
    BY <2>1 DEF Builds
  <2>3. o = st[n].prevo
    BY <1>1, <2>2 DEF StackI, BuildI
  <2>4. st[n].prevo = st[n - 1].prevo + Opens(st[n].k)
    BY <1>1, <1>4 DEF StackI, BuildI
  <2> QED BY <2>1, <2>3, <2>4
<1> QED BY <1>2, <1>3, <1>4 DEF n

\* The top of the stack, its type and its parentheses.
LEMMA TopFacts ==
    ASSUME IInv, stack # <<>>
    PROVE  /\ Top \in Frame /\ Top = Last(stack) /\ Len(stack) \in Nat /\ Len(stack) >= 1
           /\ Top.old \in Seq(LogEntry) /\ Top.par \in Par /\ Top.prevo \in Nat
           /\ Top.prevo <= open_parens
           /\ Builds(Top) => open_parens = Top.prevo
           /\ FrameShape(Top, Len(stack))
           /\ EatExcess(Top.prevo) = Top.prevo
           /\ Len(stack) > 1 => stack[Len(stack) - 1] \in Frame
<1>1. stack \in Seq(Frame) /\ open_parens \in Nat
  BY DEF IInv, TypeOK
<1>2. /\ Top = Last(stack) /\ Len(stack) \in DOMAIN stack /\ Len(stack) \in Nat /\ Len(stack) >= 1
      /\ Top \in Frame
      /\ Len(stack) > 1 => stack[Len(stack) - 1] \in Frame
  BY <1>1 DEF Top, Last
<1>3. Top.prevo <= open_parens /\ (Builds(Top) => open_parens = Top.prevo)
  BY <1>2 DEF IInv, StackI, ParenI, BuildI, Top
<1>4. FrameShape(Top, Len(stack))
  BY <1>2 DEF IInv, StackI, ShapeI, Top
<1> QED BY <1>1, <1>2, <1>3, <1>4, FrameFields DEF EatExcess

\* Only a command's frame is at the bottom.
LEMMA InnerFrame ==
    ASSUME IInv, stack # <<>>, Top.k \notin CommandKinds
    PROVE  Len(stack) > 1
<1>1. FrameShape(Top, Len(stack))
  BY TopFacts
<1>2. Len(stack) # 1
  BY <1>1 DEF FrameShape
<1>3. Len(stack) \in Nat /\ Len(stack) >= 1
  BY TopFacts
<1> QED BY <1>2, <1>3

\* An activation starts.
LEMMA PushStep ==
    ASSUME IInv, stack # <<>>, NEW f \in Frame,
           stack' = Append(stack, f),
           UNCHANGED <<symbols, local_sym_names, globals, leaked>>,
           f.old = <<>>, f.entry = symbols, FrameShape(f, 2),
           f.k \in {"item", "anon"} => Top.k \in DeclKinds,
           f.k = "param" => Top.k = "program" /\ symbols[f.id] = NoSym,
           f.prevo = open_parens', open_parens' = open_parens + Opens(f.k),
           Builds(Top) => f.par.create,
           allow_run' \in BOOLEAN, allow_run' => allow_run \/ f.k \in DomainKinds,
           f.k \in RunKinds => allow_run,
           par' \in Par, pc' \in {"check", "code", "decls", "casevars"},
           pc' = "decls" => f.k \in DeclKinds,
           pc' = "casevars" => f.k = "code_case",
           pc' = "check" /\ Builds(f) => par'.create
    PROVE  IInv'
<1> USE DEF IInv
<1>1. stack \in Seq(Frame) /\ open_parens \in Nat /\ allow_run \in BOOLEAN /\ symbols \in Table
  BY DEF TypeOK
<1>2. Top = Last(stack)
  BY TopFacts
<1>3. /\ stack' \in Seq(Frame) /\ Last(stack') = f /\ stack' # <<>>
  BY <1>1, StackFacts
<1>4. Opens(f.k) \in Nat
  BY DEF Opens
<1>5. TypeOK'
  BY <1>1, <1>3, <1>4 DEF TypeOK, PCs
<1>6. f.k = "param" /\ f.id \notin leaked =>
         f.entry[f.id] = NoSym /\ ~Logged(local_sym_names, f.id)
  <2>1. f.k = "param" => f.id \in Id
    BY DEF FrameShape, NamedKinds
  <2>2. \A x \in Id \ leaked : Logged(local_sym_names, x) => symbols[x] # NoSym
    BY DEF ScopeI, LocalAt
  <2> QED BY <2>1, <2>2
<1>7. StackI(stack', open_parens', allow_run', local_sym_names', leaked')
  BY <1>1, <1>2, <1>6, PushStack
<1>8. ScopeI(symbols', local_sym_names', stack', globals', leaked')
  BY <1>1, ScopePush
<1>9. PcShape(pc', stack') /\ PcBuilds(pc', par', stack')
  BY <1>3 DEF PcShape, PcBuilds
<1> QED BY <1>5, <1>7, <1>8, <1>9

\* the top activation goes on to the stage of frame f, and what that relies on
Moved(f) ==
    /\ stack' = SetTop(stack, f)
    /\ UNCHANGED <<symbols, local_sym_names, globals, leaked, allow_run>>

MayMove(f) ==
    /\ f \in Frame
    /\ f.old = Top.old /\ f.entry = Top.entry /\ f.prevo = Top.prevo /\ f.par = Top.par
    /\ FrameShape(f, Len(stack))
    /\ f.k \notin {"item", "anon", "param"}
    /\ Opens(f.k) = Opens(Top.k)
    /\ open_parens' \in Nat /\ f.prevo <= open_parens'
    /\ Builds(f) => open_parens' = f.prevo
    /\ Top.k \notin DomainKinds
    /\ f.k \in RunKinds => Top.k \in RunKinds
    /\ f.k \in ProgramKinds => Top.k \in ProgramKinds
    /\ par' \in Par /\ pc' \in {"check", "code"}
    /\ pc' = "check" /\ Builds(f) => par'.create

\* The top activation moves to its next stage and binds nothing.
LEMMA MoveStep ==
    ASSUME IInv, stack # <<>>, NEW f, MayMove(f), Moved(f)
    PROVE  IInv'
<1> USE DEF MayMove, Moved
<1> USE DEF IInv
<1>1. stack \in Seq(Frame) /\ open_parens \in Nat /\ allow_run \in BOOLEAN
  BY DEF TypeOK
<1>2. Top = Last(stack) /\ Len(stack) \in DOMAIN stack
  BY <1>1 DEF Top, Last
<1>3. stack' \in Seq(Frame) /\ Last(stack') = f /\ stack' # <<>>
  BY <1>1, ReplaceFacts
<1>4. TypeOK'
  BY <1>1, <1>3 DEF TypeOK, PCs
<1>5. f.k \in ProgramKinds => \A j \in DOMAIN f.old :
         f.old[j].id \notin leaked => f.old[j].prev = NoSym
  BY <1>2 DEF StackI, ParamI, Top
<1>6. StackI(stack', open_parens', allow_run', local_sym_names', leaked')
  BY <1>1, <1>2, <1>5, ReplaceStack
<1>7. ScopeI(symbols', local_sym_names', stack', globals', leaked')
  BY <1>1, <1>2, ScopeKeep
<1>8. PcShape(pc', stack') /\ PcBuilds(pc', par', stack')
  BY <1>3 DEF PcShape, PcBuilds
<1> QED BY <1>4, <1>6, <1>7, <1>8

\* the top activation binds id to s and goes on to the stage of frame f
Binds(f, id, s) ==
    /\ stack' = SetTop(stack, f)
    /\ symbols' = Bound(symbols, id, s)
    /\ UNCHANGED <<local_sym_names, globals, leaked>>

MayBind(f, id, s) ==
    /\ f \in Frame /\ id \in Id /\ s \in Sym
    /\ f.old = Remember(Top.old, symbols, id) /\ f.entry = Top.entry
    /\ f.prevo = Top.prevo /\ f.par = Top.par
    /\ FrameShape(f, Len(stack))
    /\ f.k \notin {"item", "anon", "param"} \cup ProgramKinds \cup RunKinds
    /\ Opens(f.k) = Opens(Top.k)
    /\ open_parens' \in Nat /\ f.prevo <= open_parens'
    /\ Builds(f) => open_parens' = f.prevo
    /\ allow_run' \in BOOLEAN
    /\ allow_run' => allow_run /\ Top.k \notin DomainKinds
    /\ par' \in Par /\ pc' \in {"check", "code", "casevars"}
    /\ pc' = "casevars" => f.k = "code_case"
    /\ pc' = "check" /\ Builds(f) => par'.create

\* The top activation binds id and logs what the binding hides.
LEMMA BindStep ==
    ASSUME IInv, stack # <<>>, NEW f, NEW id, NEW s, MayBind(f, id, s), Binds(f, id, s)
    PROVE  IInv'
<1> USE DEF MayBind, Binds
<1> USE DEF IInv
<1>1. stack \in Seq(Frame) /\ open_parens \in Nat /\ allow_run \in BOOLEAN /\ symbols \in Table
  BY DEF TypeOK
<1>2. Top = Last(stack)
  BY DEF Top, Last
<1>3. stack' \in Seq(Frame) /\ Last(stack') = f /\ stack' # <<>>
  BY <1>1, ReplaceFacts
<1>4. symbols' \in Table
  BY <1>1 DEF Bound, Table, Entry
<1>5. TypeOK'
  BY <1>1, <1>3, <1>4 DEF TypeOK, PCs
<1>6. StackI(stack', open_parens', allow_run', local_sym_names', leaked')
  <2>1. /\ f.prevo = Last(stack).prevo /\ f.par = Last(stack).par
        /\ Opens(f.k) = Opens(Last(stack).k)
        /\ allow_run' => allow_run /\ Last(stack).k \notin DomainKinds
        /\ f.k \notin {"item", "anon", "param"}
        /\ f.k \notin ProgramKinds /\ f.k \notin RunKinds
    BY <1>2
  <2>2. StackI(SetTop(stack, f), open_parens', allow_run',
               local_sym_names, leaked)
    BY <1>1, <2>1, ReplaceStack
  <2> QED BY <2>2
<1>7. ScopeI(symbols', local_sym_names', stack', globals', leaked')
  BY <1>1, <1>2, ScopeBind
<1>8. PcShape(pc', stack') /\ PcBuilds(pc', par', stack')
  BY <1>3 DEF PcShape, PcBuilds
<1> QED BY <1>5, <1>6, <1>7, <1>8

\* The top activation puts back what it hid and returns to the one below.
LEMMA PopStep ==
    ASSUME IInv, Len(stack) > 1,
           stack' = Below(stack), symbols' = Restore(symbols, Top.old),
           UNCHANGED <<local_sym_names, globals, leaked, allow_run>>,
           open_parens' \in Nat,
           stack[Len(stack) - 1].prevo <= open_parens',
           Builds(stack[Len(stack) - 1]) => open_parens' = stack[Len(stack) - 1].prevo,
           Top.k \notin DomainKinds,
           par' \in Par, pc' \in {"check", "return", "coderet", "decls", "exit"},
           pc' = "decls" => stack[Len(stack) - 1].k \in DeclKinds,
           pc' = "check" /\ Builds(stack[Len(stack) - 1]) => par'.create
    PROVE  IInv'
<1> USE DEF IInv
<1>1. stack \in Seq(Frame) /\ open_parens \in Nat /\ allow_run \in BOOLEAN /\ symbols \in Table
  BY DEF TypeOK
<1>2. Top = Last(stack) /\ stack # <<>> /\ Top.old \in Seq(LogEntry)
  BY <1>1, TopFacts
<1>3. stack' \in Seq(Frame) /\ Last(stack') = stack[Len(stack) - 1] /\ stack' # <<>>
  BY <1>1, <1>2, BelowFacts
<1>4. symbols' \in Table
  BY <1>1, <1>2, RestoreTable
<1>5. TypeOK'
  BY <1>1, <1>3, <1>4 DEF TypeOK, PCs
<1>6. StackI(stack', open_parens', allow_run', local_sym_names', leaked')
  <2>1. Last(stack).k \notin DomainKinds
    BY <1>2
  <2>2. StackI(Below(stack), open_parens', allow_run, local_sym_names, leaked)
    BY <1>1, <2>1, BelowStack
  <2> QED BY <2>2
<1>7. ScopeI(symbols', local_sym_names', stack', globals', leaked')
  BY <1>1, <1>2, ScopeBelow
<1>8. PcShape(pc', stack') /\ PcBuilds(pc', par', stack')
  BY <1>3 DEF PcShape, PcBuilds
<1> QED BY <1>5, <1>6, <1>7, <1>8

-----------------------------------------------------------------------------
(* The actions *)

\* what a step that opens a form does, and what it relies on
Opened(k, id, sub, next) ==
    /\ open_parens' = open_parens + 1
    /\ stack' = Append(stack, NewFrame(k, id, open_parens + 1, par))
    /\ par' = sub /\ pc' = next
    /\ UNCHANGED <<symbols, local_sym_names, globals, leaked>>

MayOpen(k, id, sub, next) ==
    /\ k \in {"pi_dom", "ann_dom", "big_dom", "run_read", "asc_ty", "let_tm",
              "neg", "app", "arrow"}
    /\ id \in Id \/ (id = NoId /\ k \notin NamedKinds)
    /\ k = "big_dom" => ~par.create
    /\ k = "run_read" => allow_run
    /\ sub \in Par
    /\ next \in {"check", "code", "decls"}
    /\ next = "decls" => k = "arrow"
    /\ next = "check" /\ (k \in PassOnCreate => par.create) => sub.create
    /\ allow_run' \in BOOLEAN
    /\ allow_run' => allow_run \/ k \in DomainKinds

\* A form is opened: its frame goes on the stack.
LEMMA OpenStep ==
    ASSUME IInv, pc = "check", NEW k, NEW id, NEW sub, NEW next,
           MayOpen(k, id, sub, next), Opened(k, id, sub, next)
    PROVE  IInv'
<1> USE DEF MayOpen, Opened
<1> DEFINE f == NewFrame(k, id, open_parens + 1, par)
<1>1. /\ stack # <<>> /\ pc = "check" /\ par \in Par /\ symbols \in Table
      /\ open_parens \in Nat /\ (Builds(Top) => par.create)
  BY DEF IInv, TypeOK, PcShape, PcBuilds, Top, Last
<1>2. k \in TermKinds \cup CodeKinds \cup CommandKinds
  BY DEF TermKinds, CodeKinds
<1>3. /\ f.k = k /\ f.id = id /\ f.old = <<>> /\ f.prevo = open_parens + 1
      /\ f.par = par /\ f.entry = symbols
  BY DEF NewFrame
<1>4. f \in Frame
  BY <1>1, <1>2 DEF NewFrame, Frame
<1> HIDE DEF f
<1>5. FrameShape(f, 2)
  BY <1>3 DEF FrameShape, EmptyKinds, NamedKinds, CommandKinds, AllCommands
<1>6. Opens(f.k) = 1
  BY <1>3 DEF Opens, OpensParen, TermKinds, RunKinds
<1>7. pc' = "check" /\ Builds(f) => par'.create
  BY <1>3 DEF Builds
<1>8. /\ f.k \notin {"item", "anon", "param"}
      /\ f.k \in RunKinds => allow_run
      /\ pc' = "decls" => f.k \in DeclKinds
      /\ pc' \in {"check", "code", "decls"}
  BY <1>3 DEF RunKinds, DeclKinds
<1>9. stack' = Append(stack, f)
  BY DEF f
<1> QED BY <1>1, <1>3, <1>4, <1>5, <1>6, <1>7, <1>8, <1>9, PushStep

\* Leaf, and the other steps that change pc only, keep the invariant when the
\* new pc fits the top frame.
LEMMA PcStep ==
    ASSUME IInv, pc' \in PCs \ {"toplevel"}, par' \in Par,
           PcShape(pc', stack), PcBuilds(pc', par', stack),
           UNCHANGED <<symbols, local_sym_names, stack, open_parens, allow_run,
                       globals, leaked>>
    PROVE  IInv'
  BY DEF IInv, TypeOK

\* check() reads a term: a leaf, or a form that neither binds nor tail-calls
\* before its first sub-check.
LEMMA TermsStep ==
    ASSUME IInv, Leaf \/ Run \/ Ascribe \/ Negate \/ Apply \/ Arrow
    PROVE  IInv'
<1> USE DEF MayOpen, Opened
<1>0. /\ \A a, b, c \in BOOLEAN : P(a, b, c) \in Par /\ P(a, b, c).create = a
      /\ par \in Par /\ par.create \in BOOLEAN /\ allow_run \in BOOLEAN
  BY DEF P, Par, IInv, TypeOK
<1>1. CASE Leaf
  <2>1. PcShape(pc', stack) /\ PcBuilds(pc', par', stack)
    BY <1>1 DEF Leaf, IInv, PcShape, PcBuilds
  <2> QED BY <1>0, <1>1, <2>1, PcStep DEF Leaf, PCs
<1>2. CASE Run
  <2>1. Opened("run_read", NoId, par, "code") /\ pc = "check"
    BY <1>2 DEF Run, CanOpen
  <2>2. MayOpen("run_read", NoId, par, "code")
    BY <1>0, <1>2 DEF Run, NamedKinds
  <2> HIDE DEF MayOpen, Opened
  <2> QED BY <2>1, <2>2, OpenStep
<1>3. CASE Ascribe
  <2>1. Opened("asc_ty", NoId, P(TRUE, TRUE, FALSE), "check") /\ pc = "check"
    BY <1>3 DEF Ascribe, OpenForm, Call, CanOpen
  <2>2. MayOpen("asc_ty", NoId, P(TRUE, TRUE, FALSE), "check")
    BY <1>0, <1>3 DEF Ascribe, NamedKinds
  <2> HIDE DEF MayOpen, Opened
  <2> QED BY <2>1, <2>2, OpenStep
<1>4. CASE Negate
  <2>1. Opened("neg", NoId, par, "check") /\ pc = "check"
    BY <1>4 DEF Negate, OpenForm, Call, CanOpen
  <2>2. MayOpen("neg", NoId, par, "check")
    BY <1>0, <1>4 DEF Negate, NamedKinds, PassOnCreate
  <2> HIDE DEF MayOpen, Opened
  <2> QED BY <2>1, <2>2, OpenStep
<1>5. CASE Apply
  <2>1. Opened("app", NoId, P(par.create, FALSE, FALSE), "check") /\ pc = "check"
    BY <1>5 DEF Apply, OpenForm, Call, CanOpen
  <2>2. MayOpen("app", NoId, P(par.create, FALSE, FALSE), "check")
    BY <1>0, <1>5 DEF Apply, NamedKinds, PassOnCreate
  <2> HIDE DEF MayOpen, Opened
  <2> QED BY <2>1, <2>2, OpenStep
<1>6. CASE Arrow
  <2>1. Opened("arrow", NoId, par, "decls") /\ pc = "check"
    BY <1>6 DEF Arrow, CanOpen
  <2>2. MayOpen("arrow", NoId, par, "decls")
    BY <1>0, <1>6 DEF Arrow, NamedKinds
  <2> HIDE DEF MayOpen, Opened
  <2> QED BY <2>1, <2>2, OpenStep
<1> QED BY <1>1, <1>2, <1>3, <1>4, <1>5, <1>6

\* check() reads a binder and checks the classifier or definition of its name.
LEMMA BindersStep ==
    ASSUME IInv, NEW id \in Id,
           Pi("!", id) \/ Pi("#", id) \/ BigLambda(id) \/ LocalDef(id)
    PROVE  IInv'
<1> USE DEF MayOpen, Opened
<1>0. /\ \A a, b, c \in BOOLEAN : P(a, b, c) \in Par /\ P(a, b, c).create = a
      /\ par \in Par /\ par.create \in BOOLEAN /\ allow_run \in BOOLEAN
  BY DEF P, Par, IInv, TypeOK
<1>1. CASE Pi("!", id)
  <2>1. Opened("pi_dom", id, P(TRUE, TRUE, FALSE), "check") /\ pc = "check"
    BY <1>1 DEF Pi, OpenForm, Call, CanOpen
  <2>2. MayOpen("pi_dom", id, P(TRUE, TRUE, FALSE), "check")
    BY <1>0, <1>1 DEF Pi, DomainKinds
  <2> HIDE DEF MayOpen, Opened
  <2> QED BY <2>1, <2>2, OpenStep
<1>2. CASE Pi("#", id)
  <2>1. Opened("ann_dom", id, P(TRUE, TRUE, FALSE), "check") /\ pc = "check"
    BY <1>2 DEF Pi, OpenForm, Call, CanOpen
  <2>2. MayOpen("ann_dom", id, P(TRUE, TRUE, FALSE), "check")
    BY <1>0, <1>2 DEF Pi, DomainKinds
  <2> HIDE DEF MayOpen, Opened
  <2> QED BY <2>1, <2>2, OpenStep
<1>3. CASE BigLambda(id)
  <2>1. Opened("big_dom", id, P(TRUE, TRUE, FALSE), "check") /\ pc = "check"
    BY <1>3 DEF BigLambda, OpenForm, Call, CanOpen
  <2>2. MayOpen("big_dom", id, P(TRUE, TRUE, FALSE), "check")
    BY <1>0, <1>3 DEF BigLambda
  <2> HIDE DEF MayOpen, Opened
  <2> QED BY <2>1, <2>2, OpenStep
<1>4. CASE LocalDef(id)
  <2>1. Opened("let_tm", id, P(TRUE, FALSE, FALSE), "check") /\ pc = "check"
    BY <1>4 DEF LocalDef, OpenForm, Call, CanOpen
  <2>2. MayOpen("let_tm", id, P(TRUE, FALSE, FALSE), "check")
    BY <1>0, <1>4 DEF LocalDef
  <2> HIDE DEF MayOpen, Opened
  <2> QED BY <2>1, <2>2, OpenStep
<1> QED BY <1>1, <1>2, <1>3, <1>4

\* No program parameter is being read under a frame that builds nothing, so a
\* tail call may log any name there.
LEMMA TailStack ==
    ASSUME NEW st \in Seq(Frame), st # <<>>, NEW o \in Nat, NEW o2 \in Nat,
           NEW al, NEW lo, NEW lk, NEW lo2, NEW lk2,
           StackI(st, o, al, lo, lk), ~Builds(Last(st)), o <= o2, lk \subseteq lk2
    PROVE  StackI(st, o2, al, lo2, lk2)
<1> USE DEF StackI
<1>1. Len(st) \in DOMAIN st /\ Last(st) = st[Len(st)] /\ \A i \in DOMAIN st : i \in Nat /\ i <= Len(st)
  BY DEF Last
<1>2. ParenI(st, o2)
  BY StackFrames DEF ParenI
<1>3. BuildI(st, o2)
  BY DEF BuildI
<1>4. \A i \in DOMAIN st : ~Builds(st[i])
  <2> SUFFICES ASSUME NEW i \in DOMAIN st, Builds(st[i]), i # Len(st) PROVE FALSE
    BY <1>1
  <2>1. st[Len(st)].par.create
    BY <1>1 DEF BuildI
  <2> QED BY <1>1, <2>1 DEF Builds
<1>5. \A i \in DOMAIN st : st[i].k # "param"
  BY <1>4 DEF Builds, PassOnCreate
<1>6. ParamI(st, lo2, lk2)
  BY <1>5 DEF ParamI
<1> QED BY <1>2, <1>3, <1>6

\* A lambda in tail position binds its name and leaves it to the command.
LEMMA LambdaTail ==
    ASSUME IInv, NEW id \in Id, Lambda(id), TailCalls /\ par.ret /\ ~par.create
    PROVE  IInv'
<1> USE DEF IInv
<1>1. /\ stack \in Seq(Frame) /\ stack # <<>> /\ open_parens \in Nat /\ symbols \in Table
      /\ local_sym_names \in Seq(LogEntry) /\ leaked \subseteq Id
      /\ ~Builds(Last(stack)) /\ par \in Par
  BY DEF TypeOK, PcShape, PcBuilds, Lambda, CanOpen
<1>2. PICK s \in Fresh : TailBind(stack, id, s)
  BY DEF Lambda
<1>3. s \in Sym
  BY DEF Fresh
<1>4. /\ stack' = stack /\ pc' = "check" /\ open_parens' = open_parens + 1
      /\ par' = P(FALSE, TRUE, par.ret) /\ allow_run' = allow_run /\ globals' = globals
  BY DEF Lambda, Call
<1>5. /\ symbols' = Bound(symbols, id, s)
      /\ local_sym_names' = Remember(local_sym_names, symbols, id)
      /\ leaked \subseteq leaked' /\ leaked' \subseteq Id
      /\ ~Logged(local_sym_names, id) /\ Hidden(stack, id) => id \in leaked'
  BY <1>1, <1>2 DEF TailBind, Hidden
<1>6. par' \in Par /\ symbols' \in Table /\ local_sym_names' \in Seq(LogEntry)
  BY <1>1, <1>3, <1>4, <1>5 DEF P, Par, Bound, Table, Entry, Remember, LogEntry
<1>7. TypeOK'
  <2>1. open_parens' \in Nat /\ pc' \in PCs /\ allow_run' \in BOOLEAN /\ globals' \in Table
    BY <1>4, <1>1 DEF TypeOK, PCs
  <2>2. stack' \in Seq(Frame)
    BY <1>4, <1>1
  <2> QED BY <1>5, <1>6, <2>1, <2>2 DEF TypeOK
<1>8. StackI(stack, open_parens + 1, allow_run, local_sym_names', leaked')
  BY <1>1, <1>5, TailStack
<1>9. ScopeI(symbols', local_sym_names', stack, globals, leaked')
  BY <1>1, <1>3, <1>5, ScopeTail
<1>10. PcShape("check", stack) /\ PcBuilds("check", par', stack)
  BY <1>1 DEF PcShape, PcBuilds
<1> QED BY <1>4, <1>7, <1>8, <1>9, <1>10

\* Any other lambda keeps what it hides in its frame.
LEMMA LambdaFrame ==
    ASSUME IInv, NEW id \in Id, Lambda(id), ~(TailCalls /\ par.ret /\ ~par.create)
    PROVE  IInv'
<1> USE DEF IInv
<1> DEFINE f0 == NewFrame("lam", id, open_parens + 1, par)
           f == Hides(f0, symbols, id)
<1>1. /\ stack \in Seq(Frame) /\ stack # <<>> /\ open_parens \in Nat /\ symbols \in Table
      /\ (Builds(Last(stack)) => par.create) /\ par \in Par /\ allow_run \in BOOLEAN
  BY DEF TypeOK, PcShape, PcBuilds, Lambda, CanOpen
<1>2. PICK s \in Fresh : symbols' = Bound(symbols, id, s)
  BY DEF Lambda
<1>3. s \in Sym
  BY DEF Fresh
<1>4. /\ stack' = Append(stack, f) /\ pc' = "check" /\ open_parens' = open_parens + 1
      /\ par' = P(par.create, TRUE, par.ret)
      /\ UNCHANGED <<allow_run, globals, local_sym_names, leaked>>
  BY DEF Lambda, Call
<1>5. /\ f0 \in Frame /\ f0.old = <<>> /\ f0.entry = symbols
      /\ f0.k = "lam" /\ f0.id = id /\ f0.par = par /\ f0.prevo = open_parens + 1
  BY <1>1, NewFrameFields DEF TermKinds
<1> HIDE DEF f0
<1>6. /\ f.k = "lam" /\ f.old = Remember(f0.old, symbols, id) /\ f.entry = symbols
      /\ f.par = par /\ f.prevo = open_parens + 1 /\ f.id = id
  BY <1>1, <1>5, HidesFrame
<1>8. f \in Frame
  BY <1>1, <1>5, HidesFrame
<1> HIDE DEF f
<1>9. SetTop(Append(stack, f0), f) = Append(stack, f)
  <2> DEFINE a0 == Append(stack, f0)
             a == Append(stack, f)
             b == SetTop(a0, f)
             n == Len(stack)
  <2>1. /\ a0 \in Seq(Frame) /\ a0 # <<>> /\ Len(a0) = n + 1 /\ n \in Nat
        /\ a \in Seq(Frame) /\ Len(a) = n + 1 /\ a[n + 1] = f
        /\ \A i \in 1..n : a[i] = stack[i] /\ a0[i] = stack[i]
    BY <1>1, <1>5, <1>8, StackFacts
  <2> HIDE DEF a0, a
  <2>2. b \in Seq(Frame) /\ Len(b) = Len(a0) /\ b[Len(a0)] = f
        /\ \A i \in 1..(Len(a0) - 1) : b[i] = a0[i]
    BY <1>8, <2>1, ReplaceFacts
  <2> HIDE DEF b, n
  <2>3. Len(b) = Len(a) /\ \A i \in 1..Len(b) : b[i] = a[i]
    BY <2>1, <2>2
  <2>4. b = a
    BY <2>1, <2>2, <2>3, SeqEqual
  <2> QED BY <2>4 DEF b, a, a0
<1>10. FrameShape(f, 2) /\ Opens(f.k) = 1 /\ (Builds(f) => par.create)
       /\ f.k \notin {"item", "anon", "param"} /\ f.k \notin RunKinds
  BY <1>6 DEF FrameShape, EmptyKinds, NamedKinds, CommandKinds, AllCommands, Opens,
     OpensParen, TermKinds, RunKinds, Builds, PassOnCreate
<1>11. StackI(stack', open_parens', allow_run, local_sym_names, leaked)
  BY <1>1, <1>4, <1>6, <1>8, <1>10, PushStack
<1>12. ScopeI(symbols', local_sym_names, stack', globals, leaked)
  <2>1. ScopeI(symbols, local_sym_names, Append(stack, f0), globals, leaked)
    BY <1>1, <1>5, ScopePush
  <2>2. /\ Append(stack, f0) \in Seq(Frame) /\ Append(stack, f0) # <<>>
        /\ Last(Append(stack, f0)) = f0
    BY <1>1, <1>5, StackFacts
  <2>3. ScopeI(Bound(symbols, id, s), local_sym_names, SetTop(Append(stack, f0), f), globals, leaked)
    BY <1>1, <1>3, <1>5, <1>6, <1>8, <2>1, <2>2, ScopeBind
  <2> QED BY <1>2, <1>4, <1>9, <2>3
<1>13. stack' \in Seq(Frame) /\ Last(stack') = f /\ stack' # <<>>
  BY <1>1, <1>4, <1>8, StackFacts
<1>14. par' \in Par /\ par'.create = par.create /\ symbols' \in Table
  BY <1>1, <1>2, <1>3, <1>4 DEF P, Par, Bound, Table, Entry
<1>15. TypeOK'
  <2>1. open_parens' \in Nat /\ pc' \in PCs
    BY <1>4, <1>1 DEF PCs
  <2>2. allow_run' \in BOOLEAN /\ globals' \in Table /\ leaked' \subseteq Id
        /\ local_sym_names' \in Seq(LogEntry)
    BY <1>4 DEF TypeOK
  <2> QED BY <1>13, <1>14, <2>1, <2>2 DEF TypeOK
<1>16. PcShape(pc', stack') /\ PcBuilds(pc', par', stack')
  BY <1>4, <1>10, <1>13, <1>14 DEF PcShape, PcBuilds
<1> QED BY <1>4, <1>11, <1>12, <1>15, <1>16

\* The domain of a pi or an annotated lambda has been read.
LEMMA PiDomainStep ==
    ASSUME IInv, PiDomain PROVE IInv'
<1> DEFINE k2 == IF Top.k = "pi_dom" THEN "pi_rng" ELSE "ann_rng"
           h == Hides(Top, symbols, Top.id)
           f == Stage(h, k2)
<1>1. /\ stack # <<>> /\ Top.k \in {"pi_dom", "ann_dom"} /\ symbols \in Table
  BY DEF PiDomain, IInv, TypeOK
<1>2. /\ Top \in Frame /\ Top.par \in Par /\ Top.prevo \in Nat
      /\ FrameShape(Top, Len(stack))
  BY <1>1, TopFacts
<1>3. Top.id \in Id
  BY <1>1, <1>2 DEF FrameShape, NamedKinds
<1>4. PICK s \in Fresh : symbols' = Bound(symbols, Top.id, s) /\ stack' = SetTop(stack, f)
  BY DEF PiDomain
<1>5. s \in Sym
  BY DEF Fresh
<1>6. /\ open_parens' = Top.prevo /\ allow_run' = FALSE /\ par' = Top.par /\ pc' = "check"
      /\ UNCHANGED <<local_sym_names, globals, leaked>>
  BY <1>1, TopFacts DEF PiDomain, Call
<1>7. k2 \in TermKinds \cup CodeKinds \cup CommandKinds /\ k2 \in {"pi_rng", "ann_rng"}
  BY DEF TermKinds
<1> HIDE DEF k2
<1>8. /\ h \in Frame /\ h.old = Remember(Top.old, symbols, Top.id) /\ h.id = Top.id
      /\ h.prevo = Top.prevo /\ h.par = Top.par /\ h.entry = Top.entry
  BY <1>1, <1>2, <1>3, HidesFrame
<1> HIDE DEF h
<1>9. /\ f \in Frame /\ f.k = k2 /\ f.old = Remember(Top.old, symbols, Top.id) /\ f.id = Top.id
      /\ f.prevo = Top.prevo /\ f.par = Top.par /\ f.entry = Top.entry
  BY <1>7, <1>8, StageFrame
<1> HIDE DEF f
<1>10. /\ FrameShape(f, Len(stack)) /\ Opens(f.k) = Opens(Top.k)
       /\ f.k \notin {"item", "anon", "param"} \cup ProgramKinds \cup RunKinds
       /\ f.k \in PassOnCreate
  BY <1>1, <1>2, <1>7, <1>9 DEF FrameShape, EmptyKinds, NamedKinds, CommandKinds, AllCommands,
     Opens, OpensParen, TermKinds, RunKinds, ProgramKinds, PassOnCreate
<1>11. Builds(f) => Top.par.create
  BY <1>9, <1>10 DEF Builds
<1>12. MayBind(f, Top.id, s)
  <2>1. f.prevo \in Nat /\ open_parens' = f.prevo
    BY <1>2, <1>6, <1>9
  <2>2. open_parens' \in Nat /\ f.prevo <= open_parens'
    BY <2>1
  <2>3. allow_run' \in BOOLEAN /\ ~allow_run' /\ par' \in Par /\ pc' = "check"
    BY <1>2, <1>6
  <2>4. Builds(f) => par'.create
    BY <1>6, <1>11
  <2> QED BY <1>3, <1>5, <1>9, <1>10, <2>1, <2>2, <2>3, <2>4 DEF MayBind
<1>13. Binds(f, Top.id, s)
  BY <1>4, <1>6 DEF Binds
<1> QED BY <1>1, <1>12, <1>13, BindStep

\* the top activation goes on to stage k, and what that relies on
Staged(k) ==
    /\ stack' = SetTop(stack, Stage(Top, k))
    /\ UNCHANGED <<symbols, local_sym_names, globals, leaked, allow_run>>

MayStage(k) ==
    /\ k \in TermKinds \cup CodeKinds \cup CommandKinds
    /\ k \notin {"item", "anon", "param", "big_dom", "check-assuming"}
    /\ k = "assume_ty" => Top.k = "check-assuming"
    /\ k \in CommandKinds <=> Top.k \in CommandKinds
    /\ k \in EmptyKinds => Top.k \in EmptyKinds
    /\ k \in NamedKinds => Top.k \in NamedKinds
    /\ k \in RunKinds => Top.k \in RunKinds
    /\ k \in ProgramKinds => Top.k \in ProgramKinds
    /\ Opens(k) = Opens(Top.k)
    /\ Top.k \notin DomainKinds
    /\ open_parens' = Top.prevo
    /\ par' \in Par /\ pc' \in {"check", "code"}
    /\ pc' = "check" /\ (k \in PassOnCreate => Top.par.create) => par'.create

\* An activation's next stage, at the parentheses it started with.
LEMMA StageStep ==
    ASSUME IInv, stack # <<>>, NEW k, MayStage(k), Staged(k)
    PROVE  IInv'
<1> DEFINE f == Stage(Top, k)
<1>1. Top \in Frame /\ Top.prevo \in Nat
  BY TopFacts
<1>2. FrameShape(Top, Len(stack))
  BY TopFacts
<1>3. k \in TermKinds \cup CodeKinds \cup CommandKinds
  BY DEF MayStage
<1>4. /\ f \in Frame /\ f.k = k /\ f.old = Top.old /\ f.id = Top.id
      /\ f.prevo = Top.prevo /\ f.par = Top.par /\ f.entry = Top.entry
  BY <1>1, <1>3, StageFrame
<1>5. stack' = SetTop(stack, f)
  BY DEF Staged
<1> HIDE DEF f
<1>6. FrameShape(f, Len(stack)) /\ f.k \notin {"item", "anon", "param"}
  BY <1>2, <1>4 DEF FrameShape, MayStage
<1>7. open_parens' \in Nat /\ f.prevo <= open_parens' /\ open_parens' = f.prevo
  <2>1. open_parens' = Top.prevo
    BY DEF MayStage
  <2> QED BY <1>1, <1>4, <2>1
<1>8. pc' = "check" /\ Builds(f) => par'.create
  BY <1>4 DEF MayStage, Builds
<1>9. MayMove(f)
  BY <1>4, <1>6, <1>7, <1>8 DEF MayStage, MayMove
<1>10. Moved(f)
  BY <1>5 DEF Staged, Moved
<1> QED BY <1>9, <1>10, MoveStep

\* The stages of a frame that builds its term: nothing is left open.
LEMMA BuiltTop ==
    ASSUME IInv, stack # <<>>, Top.k \notin PassOnCreate
    PROVE  open_parens = Top.prevo
  BY TopFacts DEF Builds

\* The type of an ascription has been read; the assumptions of check-assuming,
\* or the return type of a program, have been read; code has been read.
LEMMA StagesStep ==
    ASSUME IInv, AscribedType \/ AssumedTerm \/ EndParams \/ ProgramBody \/ CheckCode \/ RunTerm
    PROVE  IInv'
<1> USE DEF MayStage, Staged, TermKinds, CodeKinds, CommandKinds, AllCommands, EmptyKinds,
            NamedKinds, RunKinds, ProgramKinds, DomainKinds, PassOnCreate, Opens, OpensParen, Call
<1>0. /\ \A a, b, c \in BOOLEAN : P(a, b, c) \in Par /\ P(a, b, c).create = a
      /\ par \in Par
  BY DEF P, Par, IInv, TypeOK
<1>1. CASE AscribedType
  <2>1. stack # <<>> /\ Top.k = "asc_ty" /\ Staged("asc_tm")
    BY <1>1 DEF AscribedType
  <2>2. Top.par.create \in BOOLEAN /\ Top.par.ret \in BOOLEAN /\ EatExcess(Top.prevo) = Top.prevo
    BY <2>1, TopFacts, FrameFields
  <2>3. MayStage("asc_tm")
    BY <1>0, <1>1, <2>1, <2>2 DEF AscribedType
  <2> HIDE DEF MayStage, Staged
  <2> QED BY <2>1, <2>3, StageStep
<1>2. CASE AssumedTerm
  <2>1. stack # <<>> /\ Top.k = "assume_ty" /\ Staged("assume_tm")
    BY <1>2 DEF AssumedTerm
  <2>2. open_parens = Top.prevo /\ ~Top.par.create
    BY <2>1, BuiltTop, TopFacts DEF FrameShape
  <2>3. MayStage("assume_tm")
    BY <1>0, <1>2, <2>1, <2>2 DEF AssumedTerm
  <2> HIDE DEF MayStage, Staged
  <2> QED BY <2>1, <2>3, StageStep
<1>3. CASE EndParams
  <2>1. stack # <<>> /\ Top.k = "program" /\ Staged("prog_ret")
    BY <1>3 DEF EndParams, IInv, PcShape, Top, Last
  <2>2. open_parens = Top.prevo
    BY <2>1, BuiltTop
  <2>3. MayStage("prog_ret")
    BY <1>0, <1>3, <2>1, <2>2 DEF EndParams
  <2> HIDE DEF MayStage, Staged
  <2> QED BY <2>1, <2>3, StageStep
<1>4. CASE ProgramBody
  <2>1. stack # <<>> /\ Top.k = "prog_ret" /\ Staged("prog_read")
    BY <1>4 DEF ProgramBody
  <2>2. EatExcess(Top.prevo) = Top.prevo
    BY <2>1, TopFacts
  <2>3. MayStage("prog_read")
    BY <1>0, <1>4, <2>1, <2>2 DEF ProgramBody
  <2> HIDE DEF MayStage, Staged
  <2> QED BY <2>1, <2>3, StageStep
<1>5. CASE CheckCode
  <2> DEFINE k == CASE Top.k = "run_read" -> "run_chk"
                    [] Top.k = "run" -> "run_check"
                    [] Top.k = "prog_read" -> "prog_check"
  <2>1. stack # <<>> /\ Top.k \in {"run_read", "run", "prog_read"} /\ Staged(k)
    BY <1>5 DEF CheckCode
  <2>2. open_parens = Top.prevo
    BY <2>1, BuiltTop
  <2>3. MayStage(k)
    BY <1>0, <1>5, <2>1, <2>2 DEF CheckCode
  <2> HIDE DEF MayStage, Staged, k
  <2> QED BY <2>1, <2>3, StageStep
<1>6. CASE RunTerm
  <2>1. stack # <<>> /\ Top.k = "run_chk" /\ Staged("run_tm")
    BY <1>6 DEF RunTerm
  <2>2. open_parens = Top.prevo
    BY <2>1, BuiltTop
  <2>3. MayStage("run_tm")
    BY <1>0, <1>6, <2>1, <2>2 DEF RunTerm
  <2> HIDE DEF MayStage, Staged
  <2> QED BY <2>1, <2>3, StageStep
<1> QED BY <1>1, <1>2, <1>3, <1>4, <1>5, <1>6

\* what becomes of the entry that a tail-called binding of id hides: it is
\* logged for the command, or leaked
LogsOrLeaks(id) ==
    \/ /\ local_sym_names' = Remember(local_sym_names, symbols, id)
       /\ ~Logged(local_sym_names, id) /\ Hidden(Below(stack), id) => id \in leaked'
    \/ /\ local_sym_names' = local_sym_names
       /\ ~Logged(local_sym_names, id) => id \in leaked'

\* An activation is replaced by its tail call, which binds id.
LEMMA TailStep ==
    ASSUME IInv, Len(stack) > 1, ~Top.par.create, Top.old = <<>>, Top.k \notin DomainKinds,
           NEW id \in Id, NEW s \in Sym,
           stack' = Below(stack), symbols' = Bound(symbols, id, s),
           open_parens' = Top.prevo, pc' = "check", par' \in Par,
           allow_run' = allow_run, globals' = globals,
           leaked \subseteq leaked', leaked' \subseteq Id, LogsOrLeaks(id)
    PROVE  IInv'
<1> USE DEF IInv
<1> DEFINE st == Below(stack)
           n == Len(stack)
<1>1. /\ stack \in Seq(Frame) /\ stack # <<>> /\ open_parens \in Nat /\ symbols \in Table
      /\ local_sym_names \in Seq(LogEntry) /\ allow_run \in BOOLEAN /\ globals \in Table
  BY DEF TypeOK
<1>2. /\ Top \in Frame /\ Top = Last(stack) /\ Top = stack[n] /\ Top.prevo \in Nat
  BY <1>1, TopFacts DEF Top
<1>3. /\ st \in Seq(Frame) /\ st # <<>> /\ Last(st) = stack[n - 1]
  BY <1>1, BelowFacts
<1>4. /\ stack[n - 1].prevo \in Nat /\ stack[n - 1].prevo + Opens(stack[n].k) <= stack[n].prevo
      /\ ~Builds(stack[n - 1])
  BY <1>1, <1>2, PopParens
<1>5. Opens(stack[n].k) \in Nat
  BY DEF Opens
<1>6. stack[n - 1].prevo <= Top.prevo
  BY <1>2, <1>4, <1>5
<1>7. StackI(st, Top.prevo, allow_run, local_sym_names, leaked)
  BY <1>1, <1>2, <1>4, <1>6, BelowStack
<1>8. StackI(st, Top.prevo, allow_run, local_sym_names', leaked')
  BY <1>2, <1>3, <1>4, <1>7, TailStack
<1>9. ScopeI(symbols, local_sym_names, st, globals, leaked)
  <2>1. ScopeI(Restore(symbols, Last(stack).old), local_sym_names, st, globals, leaked)
    BY <1>1, ScopeBelow
  <2>2. Top.old \in Seq(LogEntry)
    BY <1>1, TopFacts
  <2> QED BY <1>1, <1>2, <2>1, <2>2, RestoreTable
<1> HIDE DEF st
<1>10. ScopeI(symbols', local_sym_names', st, globals, leaked')
  <2>1. CASE /\ local_sym_names' = Remember(local_sym_names, symbols, id)
             /\ ~Logged(local_sym_names, id) /\ Hidden(st, id) => id \in leaked'
    <3>1. ScopeI(Bound(symbols, id, s), Remember(local_sym_names, symbols, id), st, globals, leaked')
      BY <1>1, <1>3, <1>9, <2>1, ScopeTail
    <3> QED BY <3>1, <2>1
  <2>2. CASE local_sym_names' = local_sym_names /\ (~Logged(local_sym_names, id) => id \in leaked')
    <3>1. ScopeI(Bound(symbols, id, s), local_sym_names, st, globals, leaked')
      BY <1>1, <1>3, <1>9, <2>2, ScopeLeak
    <3> QED BY <3>1, <2>2
  <2> QED BY <2>1, <2>2 DEF LogsOrLeaks, st
<1>11. symbols' \in Table /\ local_sym_names' \in Seq(LogEntry)
  <2>1. symbols' \in Table
    BY <1>1 DEF Bound, Table, Entry
  <2> QED BY <1>1, <2>1, RememberType DEF LogsOrLeaks
<1>12. TypeOK'
  BY <1>1, <1>2, <1>3, <1>11 DEF TypeOK, PCs, st
<1>13. PcShape("check", st) /\ PcBuilds("check", par', st)
  BY <1>3, <1>4 DEF PcShape, PcBuilds
<1> QED BY <1>8, <1>10, <1>12, <1>13 DEF st

\* A big lambda's domain has been read.
LEMMA BigDomainStep ==
    ASSUME IInv, BigDomain PROVE IInv'
<1>1. /\ stack # <<>> /\ Top.k = "big_dom" /\ leaked \subseteq Id
  BY DEF BigDomain, IInv, TypeOK
<1>2. /\ Top \in Frame /\ Top.par \in Par /\ FrameShape(Top, Len(stack)) /\ Len(stack) \in Nat
      /\ Len(stack) >= 1
  BY <1>1, TopFacts
<1>3. /\ Top.id \in Id /\ Top.old = <<>> /\ ~Top.par.create /\ Len(stack) # 1
      /\ Top.k \notin DomainKinds
  BY <1>1, <1>2 DEF FrameShape, NamedKinds, EmptyKinds, CommandKinds, AllCommands, DomainKinds
<1>4. PICK s \in Fresh : TailBind(Below(stack), Top.id, s)
  BY DEF BigDomain
<1>5. s \in Sym
  BY DEF Fresh
<1>6. /\ symbols' = Bound(symbols, Top.id, s)
      /\ leaked \subseteq leaked' /\ leaked' \subseteq Id
      /\ LogsOrLeaks(Top.id)
  BY <1>1, <1>3, <1>4 DEF TailBind, Hidden, LogsOrLeaks
<1>7. /\ open_parens' = Top.prevo /\ stack' = Below(stack) /\ pc' = "check"
      /\ par' = P(FALSE, FALSE, Top.par.ret) /\ allow_run' = allow_run /\ globals' = globals
  BY <1>1, TopFacts DEF BigDomain, Call
<1>8. par' \in Par
  BY <1>2, <1>7 DEF P, Par
<1>9. Len(stack) > 1
  BY <1>2, <1>3
<1> QED BY <1>3, <1>5, <1>6, <1>7, <1>8, <1>9, TailStep

\* The definition of a local name has been read.
LEMMA LocalBodyStep ==
    ASSUME IInv, LocalBody PROVE IInv'
<1> DEFINE h == Hides(Top, symbols, Top.id)
           f == Stage(h, "let_body")
<1>1. /\ stack # <<>> /\ Top.k = "let_tm" /\ symbols \in Table /\ leaked \subseteq Id
  BY DEF LocalBody, IInv, TypeOK
<1>2. /\ Top \in Frame /\ Top.old \in Seq(LogEntry) /\ Top.par \in Par /\ Top.prevo \in Nat
      /\ FrameShape(Top, Len(stack))
      /\ Len(stack) \in Nat /\ Len(stack) >= 1
  BY <1>1, TopFacts
<1>3. Top.id \in Id /\ Top.old = <<>> /\ Len(stack) > 1 /\ Top.k \notin DomainKinds
  <2>1. Top.id \in Id /\ Top.old = <<>> /\ Top.k \notin DomainKinds
    BY <1>1, <1>2 DEF FrameShape, NamedKinds, EmptyKinds, DomainKinds
  <2>2. Len(stack) > 1
    BY <1>1, InnerFrame DEF CommandKinds, AllCommands
  <2> QED BY <2>1, <2>2
<1>4. PICK s \in Fresh : symbols' = Bound(symbols, Top.id, s)
  BY DEF LocalBody
<1>5. s \in Sym
  BY DEF Fresh
<1>6. /\ open_parens' = Top.prevo /\ par' = Top.par /\ pc' = "check"
      /\ local_sym_names' = local_sym_names /\ allow_run' = allow_run /\ globals' = globals
  BY <1>1, TopFacts DEF LocalBody, Call
<1>7. CASE TailCalls /\ Top.par.ret /\ ~Top.par.create
  <2>1. /\ stack' = Below(stack) /\ leaked \subseteq leaked' /\ leaked' \subseteq Id
        /\ LogsOrLeaks(Top.id)
    BY <1>1, <1>3, <1>6, <1>7 DEF LocalBody, LogsOrLeaks
  <2>2. ~Top.par.create /\ par' \in Par
    BY <1>2, <1>6, <1>7
  <2> QED BY <1>3, <1>4, <1>5, <1>6, <2>1, <2>2, TailStep
<1>8. CASE ~(TailCalls /\ Top.par.ret /\ ~Top.par.create)
  <2>1. stack' = SetTop(stack, f) /\ leaked' = leaked
    BY <1>8 DEF LocalBody
  <2>2. /\ h \in Frame /\ h.old = Remember(Top.old, symbols, Top.id) /\ h.id = Top.id
        /\ h.prevo = Top.prevo /\ h.par = Top.par /\ h.entry = Top.entry
    BY <1>1, <1>2, <1>3, HidesFrame
  <2> HIDE DEF h
  <2>3. /\ f \in Frame /\ f.k = "let_body" /\ f.old = Remember(Top.old, symbols, Top.id)
        /\ f.id = Top.id /\ f.prevo = Top.prevo /\ f.par = Top.par /\ f.entry = Top.entry
    BY <2>2, StageFrame DEF TermKinds
  <2> HIDE DEF f
  <2>4. /\ FrameShape(f, Len(stack)) /\ Opens(f.k) = Opens(Top.k)
        /\ f.k \notin {"item", "anon", "param"} \cup ProgramKinds \cup RunKinds
        /\ f.k \in PassOnCreate
    BY <1>1, <1>2, <2>3 DEF FrameShape, EmptyKinds, NamedKinds, CommandKinds, AllCommands,
       Opens, OpensParen, TermKinds, RunKinds, ProgramKinds, PassOnCreate
  <2>5. Builds(f) => Top.par.create
    BY <2>3, <2>4 DEF Builds
  <2>6. allow_run \in BOOLEAN
    BY DEF IInv, TypeOK
  <2>7. MayBind(f, Top.id, s)
    BY <1>2, <1>3, <1>5, <1>6, <2>3, <2>4, <2>5, <2>6 DEF MayBind
  <2>8. Binds(f, Top.id, s)
    BY <1>4, <1>6, <2>1 DEF Binds
  <2> QED BY <1>1, <2>7, <2>8, BindStep
<1> QED BY <1>7, <1>8

\* The top activation returns, with its own parentheses eaten, or makes a tail
\* call and leaves them open.
LEMMA LeaveStep ==
    ASSUME IInv, stack # <<>>, Top.k \notin CommandKinds, Top.k \notin DomainKinds,
           stack' = Below(stack), symbols' = Restore(symbols, Top.old),
           UNCHANGED <<local_sym_names, globals, leaked, allow_run>>,
           \/ open_parens' = Top.prevo - Opens(Top.k)
           \/ open_parens' = open_parens - Opens(Top.k)
           \/ ~Top.par.create /\ open_parens' = open_parens,
           par' \in Par, pc' \in {"check", "return", "coderet", "decls", "exit"},
           pc' = "decls" => Top.k = "anon",
           pc' = "check" => ~Top.par.create
    PROVE  IInv'
<1> DEFINE g == stack[Len(stack) - 1]
<1>1. Len(stack) > 1
  BY InnerFrame
<1>2. /\ stack \in Seq(Frame) /\ open_parens \in Nat
      /\ StackI(stack, open_parens, allow_run, local_sym_names, leaked)
  BY DEF IInv, TypeOK
<1>3. /\ Top.prevo \in Nat /\ Top.prevo <= open_parens /\ g.prevo \in Nat
      /\ g.prevo + Opens(Top.k) <= Top.prevo
      /\ Builds(g) => /\ Top.par.create
                      /\ open_parens = Top.prevo
                      /\ Top.prevo = g.prevo + Opens(Top.k)
  BY <1>1, <1>2, PopParens DEF Top
<1>4. Opens(Top.k) \in Nat
  BY DEF Opens
<1>5. pc' = "decls" => g.k \in DeclKinds
  <2>1. Len(stack) \in DOMAIN stack
    BY <1>1, <1>2
  <2>2. Top.k = "anon" => g.k \in DeclKinds
    BY <1>2, <2>1 DEF StackI, ShapeI, Top
  <2> QED BY <2>2
<1> HIDE DEF g
<1>6. open_parens' \in Nat /\ g.prevo <= open_parens' /\ (Builds(g) => open_parens' = g.prevo)
  BY <1>2, <1>3, <1>4
<1>7. pc' = "check" /\ Builds(g) => par'.create
  BY <1>3
<1> QED BY <1>1, <1>5, <1>6, <1>7, PopStep DEF g

\* check() and check_decl_list_item() return.
LEMMA ReturnsStep ==
    ASSUME IInv, LeaveForm \/ TailArg \/ CloseApp \/ AnonDone \/ LeaveArrow \/ LeaveCode
    PROVE  IInv'
<1> USE DEF TermKinds, CodeKinds, CommandKinds, AllCommands, RunKinds, DomainKinds, EmptyKinds,
            Opens, OpensParen
<1>0. par \in Par /\ symbols \in Table /\ (pc = "args" => stack # <<>> /\ Top.k = "app")
  BY DEF IInv, TypeOK, PcShape, Top, Last
<1>00. ASSUME stack # <<>>, Top.k \in EmptyKinds PROVE symbols = Restore(symbols, Top.old)
  <2>1. FrameShape(Top, Len(stack)) /\ Top.old \in Seq(LogEntry)
    BY <1>00, TopFacts
  <2>2. Top.old = <<>>
    BY <1>00, <2>1 DEF FrameShape
  <2> QED BY <1>0, <2>1, <2>2, RestoreTable
<1>1. CASE LeaveForm
  <2>1. /\ stack # <<>> /\ Top.k \in LeaveKinds /\ Opens(Top.k) = 1
        /\ Top.k \notin CommandKinds /\ Top.k \notin DomainKinds
    BY <1>1 DEF LeaveForm, LeaveKinds
  <2>2. EatExcess(Top.prevo) = Top.prevo
    BY <2>1, TopFacts
  <2>3. /\ stack' = Below(stack) /\ symbols' = Restore(symbols, Top.old)
        /\ UNCHANGED <<local_sym_names, globals, leaked, allow_run>>
        /\ open_parens' = Top.prevo - Opens(Top.k)
        /\ par' = par /\ pc' \in {"return", "exit"}
    BY <1>1, <2>1, <2>2 DEF LeaveForm
  <2> QED BY <1>0, <2>1, <2>3, LeaveStep
<1>2. CASE TailArg
  <2>1. /\ stack # <<>> /\ Top.k = "app" /\ ~Top.par.create
        /\ Top.k \notin CommandKinds /\ Top.k \notin DomainKinds
    BY <1>0, <1>2 DEF TailArg
  <2>2. /\ stack' = Below(stack) /\ symbols' = Restore(symbols, Top.old)
        /\ UNCHANGED <<local_sym_names, globals, leaked, allow_run>>
        /\ open_parens' = open_parens /\ pc' = "check"
    BY <1>00, <1>2, <2>1 DEF TailArg, Call
  <2>3. par' \in Par
    BY <1>2, <2>1, TopFacts DEF TailArg, Call, P, Par
  <2> QED BY <2>1, <2>2, <2>3, LeaveStep
<1>3. CASE CloseApp
  <2>1. /\ stack # <<>> /\ Top.k = "app" /\ Opens(Top.k) = 1
        /\ Top.k \notin CommandKinds /\ Top.k \notin DomainKinds
    BY <1>0, <1>3 DEF CloseApp
  <2>2. /\ stack' = Below(stack) /\ symbols' = Restore(symbols, Top.old)
        /\ UNCHANGED <<local_sym_names, globals, leaked, allow_run>>
        /\ open_parens' = open_parens - Opens(Top.k) /\ pc' = "return" /\ par' = par
    BY <1>00, <1>3, <2>1 DEF CloseApp
  <2> QED BY <1>0, <2>1, <2>2, LeaveStep
<1>4. CASE AnonDone
  <2>1. /\ stack # <<>> /\ Top.k = "anon" /\ Opens(Top.k) = 0
        /\ Top.k \notin CommandKinds /\ Top.k \notin DomainKinds
    BY <1>4 DEF AnonDone
  <2>2. open_parens' = open_parens - Opens(Top.k)
    BY <1>4, <2>1 DEF AnonDone, IInv, TypeOK
  <2>3. /\ stack' = Below(stack) /\ symbols' = Restore(symbols, Top.old)
        /\ UNCHANGED <<local_sym_names, globals, leaked, allow_run>>
        /\ pc' = "decls" /\ par' = par
    BY <1>00, <1>4, <2>1 DEF AnonDone
  <2> QED BY <1>0, <2>1, <2>2, <2>3, LeaveStep
<1>5. CASE LeaveArrow
  <2>1. /\ stack # <<>> /\ Top.k = "arrow_ret" /\ Opens(Top.k) = 1
        /\ Top.k \notin CommandKinds /\ Top.k \notin DomainKinds
    BY <1>5 DEF LeaveArrow
  <2>2. /\ stack' = Below(stack) /\ symbols' = Restore(symbols, Top.old)
        /\ UNCHANGED <<local_sym_names, globals, leaked, allow_run>>
        /\ open_parens' = open_parens - Opens(Top.k) /\ pc' = "return" /\ par' = par
    BY <1>5, <2>1 DEF LeaveArrow
  <2> QED BY <1>0, <2>1, <2>2, LeaveStep
<1>6. CASE LeaveCode
  <2>1. /\ stack # <<>> /\ Top.k \in {"code_seq", "code_body", "code_case"} /\ Opens(Top.k) = 0
        /\ Top.k \notin CommandKinds /\ Top.k \notin DomainKinds
    BY <1>6 DEF LeaveCode
  <2>2. open_parens' = open_parens - Opens(Top.k)
    BY <1>6, <2>1 DEF LeaveCode, IInv, TypeOK
  <2>3. /\ stack' = Below(stack) /\ symbols' = Restore(symbols, Top.old)
        /\ UNCHANGED <<local_sym_names, globals, leaked, allow_run>>
        /\ pc' = "coderet" /\ par' = par
    BY <1>6 DEF LeaveCode
  <2> QED BY <1>0, <2>1, <2>2, <2>3, LeaveStep
<1> QED BY <1>1, <1>2, <1>3, <1>4, <1>5, <1>6

\* Steps that leave the stack alone.
LEMMA InPlaceStep ==
    ASSUME IInv,
           \/ AppReturn \/ (\E c \in BOOLEAN : Arg(c)) \/ CodeLeaf \/ CodeNext \/ CaseBody
           \/ ReportError
    PROVE  IInv'
<1>0. par \in Par
  BY DEF IInv, TypeOK
<1>1. CASE AppReturn
  <2>1. stack # <<>> /\ Top.k = "app"
    BY <1>1 DEF AppReturn
  <2>2. Top = Last(stack) /\ Top.prevo \in Nat /\ open_parens' = Top.prevo
    BY <1>1, <2>1, TopFacts DEF AppReturn
  <2>3. stack \in Seq(Frame) /\ open_parens \in Nat /\ Len(stack) \in Nat /\ Len(stack) >= 1
        /\ Top.prevo <= open_parens
    BY <2>1, TopFacts DEF IInv, TypeOK
  <2>4. ParenI(stack, open_parens)
    BY DEF IInv, StackI
  <2>5. ParenI(stack, Top.prevo)
    <3>1. Len(stack) \in DOMAIN stack /\ Top = stack[Len(stack)]
      BY <2>3, <2>1 DEF Top
    <3>2. ASSUME NEW i \in DOMAIN stack PROVE stack[i].prevo <= Top.prevo
      <4>1. CASE i = Len(stack)
        BY <3>1, <4>1, <2>2
      <4>2. CASE i # Len(stack)
        <5>1. i < Len(stack)
          BY <2>3, <4>2
        <5>2. stack[i].prevo + Opens(Top.k) <= Top.prevo
          BY <2>4, <3>1, <5>1 DEF ParenI
        <5>3. stack[i].prevo \in Nat /\ Opens(Top.k) \in Nat
          BY <2>3, StackFrames DEF Opens
        <5> QED BY <5>2, <5>3, <2>2
      <4> QED BY <4>1, <4>2
    <3> QED BY <2>4, <3>2 DEF ParenI
  <2>6. BuildI(stack, Top.prevo)
    BY <2>1, <2>2 DEF IInv, StackI, BuildI
  <2>7. StackI(stack, open_parens', allow_run, local_sym_names, leaked)
    BY <2>2, <2>5, <2>6 DEF IInv, StackI
  <2>8. PcShape("args", stack) /\ PcBuilds("args", par, stack)
    BY <2>1, <2>2 DEF PcShape, PcBuilds
  <2>9. TypeOK'
    BY <1>1, <2>2 DEF AppReturn, IInv, TypeOK, PCs
  <2> QED BY <1>1, <2>7, <2>8, <2>9 DEF AppReturn, IInv
<1>2. ASSUME NEW c \in BOOLEAN, Arg(c) PROVE IInv'
  <2>1. /\ pc' = "check" /\ par' = P(c, TRUE, FALSE) /\ Top = Last(stack) /\ Top.k = "app"
        /\ Top.par.create => c
        /\ stack # <<>>
        /\ UNCHANGED <<symbols, local_sym_names, stack, open_parens, allow_run, globals, leaked>>
    BY <1>2 DEF Arg, Call, IInv, PcShape, Top, Last
  <2>2. par' \in Par /\ par'.create = c
    BY <2>1 DEF P, Par
  <2>3. PcShape(pc', stack)
    BY <2>1 DEF PcShape
  <2>4. PcBuilds(pc', par', stack)
    BY <2>1, <2>2 DEF PcBuilds, Builds, PassOnCreate
  <2> QED BY <2>1, <2>2, <2>3, <2>4, PcStep DEF PCs
<1>3. CASE CodeLeaf
  <2>1. PcShape(pc', stack) /\ PcBuilds(pc', par', stack)
    BY <1>3 DEF CodeLeaf, IInv, PcShape, PcBuilds
  <2> QED BY <1>0, <1>3, <2>1, PcStep DEF CodeLeaf, PCs
<1>4. CASE CodeNext
  <2>1. PcShape(pc', stack) /\ PcBuilds(pc', par', stack)
    BY <1>4 DEF CodeNext, IInv, PcShape, PcBuilds
  <2> QED BY <1>0, <1>4, <2>1, PcStep DEF CodeNext, PCs
<1>5. CASE CaseBody
  <2>1. PcShape(pc', stack) /\ PcBuilds(pc', par', stack)
    BY <1>5 DEF CaseBody, IInv, PcShape, PcBuilds
  <2> QED BY <1>0, <1>5, <2>1, PcStep DEF CaseBody, PCs
<1>6. CASE ReportError
  <2>1. PcShape(pc', stack) /\ PcBuilds(pc', par', stack)
    BY <1>6 DEF ReportError, PcShape, PcBuilds
  <2> QED BY <1>0, <1>6, <2>1, PcStep DEF ReportError, PCs
<1> QED BY <1>1, <1>2, <1>3, <1>4, <1>5, <1>6

\* what a step that calls an activation without opening a parenthesis does,
\* and what it relies on
Called(k, id, p) ==
    /\ stack' = Append(stack, NewFrame(k, id, open_parens, p))
    /\ UNCHANGED <<symbols, local_sym_names, open_parens, allow_run, globals, leaked>>

MayCall(k, id, p) ==
    /\ k \in {"item", "anon", "param", "code_seq", "code_let", "code_case"}
    /\ id \in Id \/ (id = NoId /\ k \notin NamedKinds)
    /\ p \in Par /\ p.create
    /\ k \in {"item", "anon"} => Top.k \in DeclKinds
    /\ k = "param" => Top.k = "program" /\ symbols[id] = NoSym
    /\ par' \in Par /\ pc' \in {"check", "code", "casevars"}
    /\ pc' = "check" => par'.create
    /\ pc' = "casevars" => k = "code_case"

\* An item, a parameter or code is read.
LEMMA CallStep ==
    ASSUME IInv, stack # <<>>, NEW k, NEW id, NEW p, MayCall(k, id, p), Called(k, id, p)
    PROVE  IInv'
<1> DEFINE f == NewFrame(k, id, open_parens, p)
<1>1. k \in TermKinds \cup CodeKinds \cup CommandKinds
  BY DEF MayCall, TermKinds, CodeKinds
<1>2. symbols \in Table /\ open_parens \in Nat /\ allow_run \in BOOLEAN
  BY DEF IInv, TypeOK
<1>3. id \in Id \cup {NoId} /\ p \in Par
  BY DEF MayCall
<1>4. /\ f \in Frame /\ f.k = k /\ f.old = <<>> /\ f.id = id
      /\ f.prevo = open_parens /\ f.par = p /\ f.entry = symbols
  BY <1>1, <1>2, <1>3, NewFrameFields
<1>5. stack' = Append(stack, f)
  BY DEF Called
<1> HIDE DEF f
<1>6. FrameShape(f, 2)
  BY <1>4 DEF MayCall, FrameShape, EmptyKinds, NamedKinds, CommandKinds, AllCommands
<1>7. Opens(f.k) = 0 /\ f.k \notin RunKinds
  BY <1>4 DEF MayCall, Opens, OpensParen, TermKinds, RunKinds
<1>8. f.prevo = open_parens' /\ open_parens' = open_parens + Opens(f.k)
  BY <1>2, <1>4, <1>7 DEF Called
<1>9. /\ f.k \in {"item", "anon"} => Top.k \in DeclKinds
      /\ f.k = "param" => Top.k = "program" /\ symbols[f.id] = NoSym
      /\ f.par.create
      /\ par' \in Par /\ pc' \in {"check", "code", "decls", "casevars"}
      /\ pc' = "decls" => f.k \in DeclKinds
      /\ pc' = "casevars" => f.k = "code_case"
      /\ pc' = "check" /\ Builds(f) => par'.create
  BY <1>4 DEF MayCall
<1>10. /\ UNCHANGED <<symbols, local_sym_names, globals, leaked>>
       /\ allow_run' = allow_run
  BY DEF Called
<1> QED BY <1>2, <1>4, <1>5, <1>6, <1>7, <1>8, <1>9, <1>10, PushStep

\* The steps that read an item of a declaration list, a parameter or code.
LEMMA CallsStep ==
    ASSUME IInv,
           \/ \E id \in Id : DeclNamed(id) \/ CodeLet(id) \/ Param(id)
           \/ \E exp \in BOOLEAN : DeclAnon(exp)
           \/ CodeSeq \/ CodeCase
    PROVE  IInv'
<1> USE DEF MayCall, Called
<1>0. /\ \A a, b, c \in BOOLEAN : P(a, b, c) \in Par /\ P(a, b, c).create = a
      /\ par \in Par
      /\ pc \notin {"toplevel", "exit"} => stack # <<>>
      /\ pc = "decls" => Top.k \in DeclKinds
      /\ pc = "params" => Top.k = "program"
  BY DEF P, Par, IInv, TypeOK, PcShape, Top, Last
<1>1. ASSUME NEW id \in Id, DeclNamed(id) PROVE IInv'
  <2>1. Called("item", id, P(TRUE, TRUE, FALSE)) /\ stack # <<>>
    BY <1>0, <1>1 DEF DeclNamed
  <2>2. MayCall("item", id, P(TRUE, TRUE, FALSE))
    BY <1>0, <1>1 DEF DeclNamed, Call
  <2> HIDE DEF MayCall, Called
  <2> QED BY <2>1, <2>2, CallStep
<1>2. ASSUME NEW id \in Id, CodeLet(id) PROVE IInv'
  <2>1. Called("code_let", id, P(TRUE, TRUE, FALSE)) /\ stack # <<>>
    BY <1>0, <1>2 DEF CodeLet, CodeFrame
  <2>2. MayCall("code_let", id, P(TRUE, TRUE, FALSE))
    BY <1>0, <1>2 DEF CodeLet
  <2> HIDE DEF MayCall, Called
  <2> QED BY <2>1, <2>2, CallStep
<1>3. ASSUME NEW id \in Id, Param(id) PROVE IInv'
  <2>1. Called("param", id, P(TRUE, FALSE, TRUE)) /\ stack # <<>>
    BY <1>0, <1>3 DEF Param
  <2>2. MayCall("param", id, P(TRUE, FALSE, TRUE))
    BY <1>0, <1>3 DEF Param, Call
  <2> HIDE DEF MayCall, Called
  <2> QED BY <2>1, <2>2, CallStep
<1>4. ASSUME NEW exp \in BOOLEAN, DeclAnon(exp) PROVE IInv'
  <2>1. Called("anon", NoId, P(TRUE, exp, FALSE)) /\ stack # <<>>
    BY <1>0, <1>4 DEF DeclAnon
  <2>2. MayCall("anon", NoId, P(TRUE, exp, FALSE))
    BY <1>0, <1>4 DEF DeclAnon, Call, NamedKinds
  <2> HIDE DEF MayCall, Called
  <2> QED BY <2>1, <2>2, CallStep
<1>5. CASE CodeSeq
  <2>1. Called("code_seq", NoId, P(TRUE, TRUE, FALSE)) /\ stack # <<>>
    BY <1>0, <1>5 DEF CodeSeq, CodeFrame
  <2>2. MayCall("code_seq", NoId, P(TRUE, TRUE, FALSE))
    BY <1>0, <1>5 DEF CodeSeq, NamedKinds
  <2> HIDE DEF MayCall, Called
  <2> QED BY <2>1, <2>2, CallStep
<1>6. CASE CodeCase
  <2>1. Called("code_case", NoId, P(TRUE, TRUE, FALSE)) /\ stack # <<>>
    BY <1>0, <1>6 DEF CodeCase, CodeFrame
  <2>2. MayCall("code_case", NoId, P(TRUE, TRUE, FALSE))
    BY <1>0, <1>6 DEF CodeCase, NamedKinds
  <2> HIDE DEF MayCall, Called
  <2> QED BY <2>1, <2>2, CallStep
<1> QED BY <1>1, <1>2, <1>3, <1>4, <1>5, <1>6

\* A declaration list is closed.
LEMMA EndDeclsStep ==
    ASSUME IInv, EndDecls PROVE IInv'
<1> USE DEF MayStage, Staged, TermKinds, CodeKinds, CommandKinds, AllCommands, EmptyKinds,
            NamedKinds, RunKinds, ProgramKinds, DomainKinds, PassOnCreate, Opens, OpensParen, Call
<1>0. /\ \A a, b, c \in BOOLEAN : P(a, b, c) \in Par /\ P(a, b, c).create = a
      /\ par \in Par /\ stack # <<>> /\ pc = "decls"
  BY DEF P, Par, IInv, TypeOK, EndDecls, PcShape
<1>1. CASE Top.k = "declare-type"
  <2>1. /\ pc' = "return" /\ par' = par
        /\ UNCHANGED <<symbols, local_sym_names, stack, open_parens, allow_run, globals, leaked>>
    BY <1>1 DEF EndDecls
  <2>2. PcShape("return", stack) /\ PcBuilds("return", par, stack)
    BY <1>0 DEF PcShape, PcBuilds
  <2> QED BY <1>0, <2>1, <2>2, PcStep DEF PCs
<1>2. CASE Top.k = "arrow"
  <2>1. Staged("arrow_ret")
    BY <1>2 DEF EndDecls
  <2>2. open_parens = Top.prevo
    BY <1>0, <1>2, BuiltTop
  <2>3. Top.par.create \in BOOLEAN
    BY <1>0, TopFacts, FrameFields
  <2>4. MayStage("arrow_ret")
    BY <1>0, <1>2, <2>2, <2>3 DEF EndDecls
  <2> HIDE DEF MayStage, Staged
  <2> QED BY <1>0, <2>1, <2>4, StageStep
<1>3. CASE Top.k \in {"declare-rule", "define-const"}
  <2> DEFINE k == IF Top.k = "declare-rule" THEN "rule_ret" ELSE "const_ret"
  <2>1. Staged(k)
    BY <1>3 DEF EndDecls
  <2>2. open_parens = Top.prevo
    BY <1>0, <1>3, BuiltTop
  <2>3. MayStage(k)
    BY <1>0, <1>3, <2>2 DEF EndDecls
  <2> HIDE DEF MayStage, Staged, k
  <2> QED BY <1>0, <2>1, <2>3, StageStep
<1>4. CASE Top.k = "check-assuming"
  <2>1. Staged("assume_ty")
    BY <1>4 DEF EndDecls
  <2>2. open_parens = Top.prevo
    BY <1>0, <1>4, BuiltTop
  <2>3. MayStage("assume_ty")
    BY <1>0, <1>4, <2>2 DEF EndDecls
  <2> HIDE DEF MayStage, Staged
  <2> QED BY <1>0, <2>1, <2>3, StageStep
<1> QED BY <1>1, <1>2, <1>3, <1>4 DEF EndDecls

\* A local name of code, or a variable of a case's pattern, is bound.
LEMMA CodeBindStep ==
    ASSUME IInv, CodeLetBody \/ \E id \in Id : CaseVar(id)
    PROVE  IInv'
<1>0. /\ symbols \in Table /\ par \in Par /\ allow_run \in BOOLEAN
      /\ pc = "casevars" => stack # <<>> /\ Top.k = "code_case"
  BY DEF IInv, TypeOK, PcShape, Top, Last
<1>1. CASE CodeLetBody
  <2> DEFINE h == Hides(Top, symbols, Top.id)
             f == Stage(h, "code_body")
  <2>1. stack # <<>> /\ Top.k = "code_let"
    BY <1>1 DEF CodeLetBody
  <2>2. Top \in Frame /\ FrameShape(Top, Len(stack)) /\ Top.prevo \in Nat
    BY <2>1, TopFacts
  <2>3. open_parens = Top.prevo
    BY <2>1, BuiltTop DEF PassOnCreate
  <2>4. Top.id \in Id
    BY <2>1, <2>2 DEF FrameShape, NamedKinds
  <2>5. PICK s \in Fresh : symbols' = Bound(symbols, Top.id, s) /\ stack' = SetTop(stack, f)
    BY <1>1 DEF CodeLetBody
  <2>6. /\ s \in Sym /\ pc' = "code" /\ par' = par /\ open_parens' = open_parens
        /\ allow_run' = allow_run /\ UNCHANGED <<local_sym_names, globals, leaked>>
    BY <1>1 DEF CodeLetBody, Fresh
  <2>7. /\ h \in Frame /\ h.old = Remember(Top.old, symbols, Top.id) /\ h.id = Top.id
        /\ h.prevo = Top.prevo /\ h.par = Top.par /\ h.entry = Top.entry
    BY <1>0, <2>2, <2>4, HidesFrame
  <2> HIDE DEF h
  <2>8. /\ f \in Frame /\ f.k = "code_body" /\ f.old = Remember(Top.old, symbols, Top.id)
        /\ f.id = Top.id /\ f.prevo = Top.prevo /\ f.par = Top.par /\ f.entry = Top.entry
    BY <2>7, StageFrame DEF CodeKinds
  <2> HIDE DEF f
  <2>9. /\ FrameShape(f, Len(stack)) /\ Opens(f.k) = Opens(Top.k) /\ Top.k \notin DomainKinds
        /\ f.k \notin {"item", "anon", "param"} \cup ProgramKinds \cup RunKinds
    BY <2>1, <2>2, <2>8 DEF FrameShape, EmptyKinds, NamedKinds, CommandKinds, AllCommands,
       Opens, OpensParen, TermKinds, RunKinds, ProgramKinds, DomainKinds
  <2>10. open_parens' \in Nat /\ f.prevo <= open_parens' /\ open_parens' = f.prevo
    <3>1. f.prevo \in Nat /\ open_parens' = f.prevo
      BY <2>2, <2>3, <2>6, <2>8
    <3> QED BY <3>1
  <2>11. MayBind(f, Top.id, s)
    BY <1>0, <2>4, <2>6, <2>8, <2>9, <2>10 DEF MayBind
  <2>12. Binds(f, Top.id, s)
    BY <2>5, <2>6 DEF Binds
  <2> QED BY <2>1, <2>11, <2>12, BindStep
<1>2. ASSUME NEW id \in Id, CaseVar(id) PROVE IInv'
  <2> DEFINE f == Hides(Top, symbols, id)
  <2>1. stack # <<>> /\ Top.k = "code_case" /\ pc = "casevars"
    BY <1>0, <1>2 DEF CaseVar
  <2>2. Top \in Frame /\ FrameShape(Top, Len(stack)) /\ Top.prevo \in Nat
    BY <2>1, TopFacts
  <2>3. open_parens = Top.prevo
    BY <2>1, BuiltTop DEF PassOnCreate
  <2>4. PICK s \in Fresh : symbols' = Bound(symbols, id, s) /\ stack' = SetTop(stack, f)
    BY <1>2 DEF CaseVar
  <2>5. /\ s \in Sym /\ pc' = "casevars" /\ par' = par /\ open_parens' = open_parens
        /\ allow_run' = allow_run /\ UNCHANGED <<local_sym_names, globals, leaked>>
    BY <1>2, <2>1 DEF CaseVar, Fresh
  <2>6. /\ f \in Frame /\ f.k = "code_case" /\ f.old = Remember(Top.old, symbols, id)
        /\ f.id = Top.id /\ f.prevo = Top.prevo /\ f.par = Top.par /\ f.entry = Top.entry
    BY <1>0, <2>1, <2>2, HidesFrame
  <2> HIDE DEF f
  <2>7. /\ FrameShape(f, Len(stack)) /\ Opens(f.k) = Opens(Top.k) /\ Top.k \notin DomainKinds
        /\ f.k \notin {"item", "anon", "param"} \cup ProgramKinds \cup RunKinds
    BY <2>1, <2>2, <2>6 DEF FrameShape, EmptyKinds, NamedKinds, CommandKinds, AllCommands,
       Opens, OpensParen, TermKinds, RunKinds, ProgramKinds, DomainKinds
  <2>8. open_parens' \in Nat /\ f.prevo <= open_parens' /\ open_parens' = f.prevo
    <3>1. f.prevo \in Nat /\ open_parens' = f.prevo
      BY <2>2, <2>3, <2>5, <2>6
    <3> QED BY <3>1
  <2>9. MayBind(f, id, s)
    BY <1>0, <2>5, <2>6, <2>7, <2>8 DEF MayBind
  <2>10. Binds(f, id, s)
    BY <2>4, <2>5 DEF Binds
  <2> QED BY <2>1, <2>9, <2>10, BindStep
<1> QED BY <1>1, <1>2

\* An item's or parameter's type has been read: its frame goes and the list's
\* frame, below it, logs the binding.
LEMMA ItemDoneStep ==
    ASSUME IInv, ItemDone PROVE IInv'
<1> DEFINE n == Len(stack)
           g == stack[n - 1]
           st == Below(stack)
           f == Hides(g, symbols, Top.id)
<1>1. /\ stack \in Seq(Frame) /\ stack # <<>> /\ n > 1 /\ n \in DOMAIN stack
      /\ open_parens \in Nat /\ symbols \in Table /\ allow_run \in BOOLEAN /\ par \in Par
      /\ Top.k \in {"item", "param"}
      /\ StackI(stack, open_parens, allow_run, local_sym_names, leaked)
  BY DEF ItemDone, IInv, TypeOK
<1>2. /\ Top \in Frame /\ Top = Last(stack) /\ Top = stack[n] /\ FrameShape(Top, n)
      /\ Top.old \in Seq(LogEntry) /\ Top.prevo \in Nat /\ g \in Frame
      /\ EatExcess(Top.prevo) = Top.prevo
  BY <1>1, TopFacts DEF Top
<1>3. Top.id \in Id /\ Top.old = <<>> /\ Top.k \notin DomainKinds /\ Opens(Top.k) = 0
  BY <1>1, <1>2 DEF FrameShape, NamedKinds, EmptyKinds, DomainKinds, Opens, OpensParen
<1>4. /\ g.k \in DeclKinds \cup {"program"}
      /\ Top.k = "item" => g.k \in DeclKinds
      /\ Top.k = "param" => g.k = "program"
  BY <1>1, <1>2 DEF StackI, ShapeI
<1>5. Builds(g)
  BY <1>4 DEF Builds, PassOnCreate, DeclKinds
<1>6. g.prevo \in Nat /\ open_parens = Top.prevo /\ Top.prevo = g.prevo
  <2>1. g.prevo \in Nat /\ open_parens = Top.prevo /\ Top.prevo = g.prevo + Opens(Top.k)
    BY <1>1, <1>2, <1>5, PopParens
  <2> QED BY <2>1, <1>3
<1>7. PICK s \in Fresh : symbols' = Bound(symbols, Top.id, s)
  BY DEF ItemDone
<1>8. /\ s \in Sym /\ stack' = SetTop(st, f) /\ par' = par /\ open_parens' = g.prevo
      /\ pc' = (IF Top.k = "param" THEN "params" ELSE "decls")
      /\ UNCHANGED <<local_sym_names, allow_run, globals, leaked>>
  BY <1>2, <1>6 DEF ItemDone, Fresh
<1>9. st \in Seq(Frame) /\ st # <<>> /\ Last(st) = g /\ Len(st) = n - 1
  BY <1>1, BelowFacts
<1>10. StackI(st, g.prevo, allow_run, local_sym_names, leaked)
  <2>1. stack[Len(stack) - 1].prevo <= g.prevo /\ Len(stack) > 1 /\ Last(stack).k \notin DomainKinds
    BY <1>1, <1>2, <1>3, <1>6
  <2> QED BY <1>1, <1>6, <2>1, BelowStack
<1>11. ScopeI(symbols, local_sym_names, st, globals, leaked)
  <2>1. ScopeI(symbols, local_sym_names, stack, globals, leaked)
    BY DEF IInv
  <2>2. ScopeI(Restore(symbols, Last(stack).old), local_sym_names, st, globals, leaked)
    BY <1>1, <2>1, ScopeBelow
  <2> QED BY <1>1, <1>2, <1>3, <2>2, RestoreTable
<1>12. FrameShape(g, n - 1)
  BY <1>1 DEF StackI, ShapeI
<1>13. Top.k = "param" /\ Top.id \notin leaked => symbols[Top.id] = NoSym
  <2> SUFFICES ASSUME Top.k = "param", Top.id \notin leaked PROVE symbols[Top.id] = NoSym
    OBVIOUS
  <2>1. Top.entry[Top.id] = NoSym /\ ~Logged(local_sym_names, Top.id)
    BY <1>1, <1>2 DEF StackI, ParamI
  <2>2. ScopedAt(Top.id, symbols[Top.id], stack, globals[Top.id])
    BY <1>3, <2>1 DEF IInv, ScopeI
  <2>3. Undo(symbols[Top.id], Top.old, Top.id) = Top.entry[Top.id]
    BY <1>1, <1>2, <2>2 DEF ScopedAt
  <2> QED BY <1>3, <2>1, <2>3 DEF Undo, Logged
<1>14. g.k = "program" => \A j \in DOMAIN g.old : g.old[j].id \notin leaked => g.old[j].prev = NoSym
  BY <1>1 DEF StackI, ParamI, ProgramKinds
<1> HIDE DEF n, st, g
<1>15. /\ f \in Frame /\ f.k = g.k /\ f.old = Remember(g.old, symbols, Top.id) /\ f.id = g.id
       /\ f.prevo = g.prevo /\ f.par = g.par /\ f.entry = g.entry
  BY <1>1, <1>2, <1>3, HidesFrame
<1> HIDE DEF f
<1>16. /\ FrameShape(f, n - 1) /\ f.k \notin {"item", "anon", "param"} /\ f.k \notin RunKinds
       /\ g.k \notin DomainKinds /\ (f.k \in ProgramKinds => f.k = "program")
  BY <1>4, <1>12, <1>15 DEF FrameShape, EmptyKinds, DeclKinds, RunKinds, DomainKinds, ProgramKinds
<1>17. f.k \in ProgramKinds => \A j \in DOMAIN f.old : f.old[j].id \notin leaked => f.old[j].prev = NoSym
  <2> SUFFICES ASSUME f.k = "program", NEW j \in DOMAIN f.old, f.old[j].id \notin leaked
               PROVE  f.old[j].prev = NoSym
    BY <1>16
  <2>1. g.old \in Seq(LogEntry) /\ Top.k = "param"
    <3>1. g.old \in Seq(LogEntry)
      BY <1>2, FrameFields
    <3> QED BY <1>1, <1>4, <1>15, <3>1 DEF DeclKinds
  <2>2. CASE j \in DOMAIN g.old
    BY <1>14, <1>15, <2>1, <2>2 DEF Remember
  <2>3. CASE j = Len(g.old) + 1
    BY <1>13, <1>15, <2>1, <2>3 DEF Remember
  <2> QED BY <1>15, <2>1, <2>2, <2>3 DEF Remember
<1>18. StackI(SetTop(st, f), g.prevo, allow_run, local_sym_names, leaked)
  <2>1. f.prevo <= g.prevo
    BY <1>6, <1>15
  <2>2. Opens(f.k) = Opens(g.k)
    BY <1>15
  <2> QED BY <1>1, <1>6, <1>9, <1>10, <1>15, <1>16, <1>17, <2>1, <2>2, ReplaceStack
<1>19. ScopeI(Bound(symbols, Top.id, s), local_sym_names, SetTop(st, f), globals, leaked)
  BY <1>1, <1>3, <1>8, <1>9, <1>11, <1>15, ScopeBind
<1>20. SetTop(st, f) \in Seq(Frame) /\ Last(SetTop(st, f)) = f /\ SetTop(st, f) # <<>>
  BY <1>9, <1>15, ReplaceFacts
<1>21. symbols' \in Table
  BY <1>1, <1>7, <1>8 DEF Bound, Table, Entry
<1>22. pc' \in PCs /\ PcShape(pc', stack') /\ PcBuilds(pc', par', stack')
  BY <1>1, <1>4, <1>8, <1>15, <1>20 DEF PcShape, PcBuilds, PCs
<1>23. TypeOK'
  <2>1. open_parens' \in Nat /\ stack' \in Seq(Frame) /\ par' \in Par /\ allow_run' \in BOOLEAN
    BY <1>1, <1>6, <1>8, <1>20
  <2>2. local_sym_names' \in Seq(LogEntry) /\ globals' \in Table /\ leaked' \subseteq Id
    BY <1>8 DEF IInv, TypeOK
  <2> QED BY <1>21, <1>22, <2>1, <2>2 DEF TypeOK
<1>24. /\ StackI(stack', open_parens', allow_run', local_sym_names', leaked')
       /\ ScopeI(symbols', local_sym_names', stack', globals', leaked')
  BY <1>7, <1>8, <1>18, <1>19
<1> QED BY <1>22, <1>23, <1>24 DEF IInv

\* Between commands the stack is empty, no parenthesis is open and no side
\* condition is allowed.
LEMMA TopLevel ==
    ASSUME IInv, pc = "toplevel"
    PROVE  stack = <<>> /\ open_parens = 0 /\ ~allow_run
<1>1. stack = <<>>
  BY DEF IInv, PcShape
<1>2. DOMAIN stack = {}
  BY <1>1
<1> QED BY <1>1, <1>2 DEF IInv, StackI, BuildI, RunI

\* A command starts with a frame of its own at the bottom of the stack.
LEMMA CommandStep ==
    ASSUME IInv, NEW k \in AllCommands, NEW id, NEW sub \in Par, NEW next,
           Command(k, id, sub, next),
           id \in Id \/ (id = NoId /\ k \notin NamedKinds),
           k = "check-assuming" => ~sub.create,
           next \in {"check", "decls", "code", "params"},
           next = "check" => k \in PassOnCreate \/ sub.create,
           next = "decls" => k \in DeclKinds,
           next = "params" => k = "program"
    PROVE  IInv'
<1> DEFINE f == NewFrame(k, id, open_parens, sub)
<1>1. stack = <<>> /\ open_parens = 0 /\ ~allow_run
  BY TopLevel DEF Command
<1>2. symbols \in Table /\ stack \in Seq(Frame)
  BY DEF IInv, TypeOK
<1>3. /\ f \in Frame /\ f.k = k /\ f.old = <<>> /\ f.id = id
      /\ f.prevo = 0 /\ f.par = sub /\ f.entry = symbols
  <2>1. k \in TermKinds \cup CodeKinds \cup CommandKinds /\ id \in Id \cup {NoId} /\ open_parens \in Nat
    BY <1>1 DEF CommandKinds
  <2>2. /\ f \in Frame /\ f.k = k /\ f.old = <<>> /\ f.id = id
        /\ f.prevo = open_parens /\ f.par = sub /\ f.entry = symbols
    BY <1>2, <2>1, NewFrameFields
  <2> QED BY <1>1, <2>2
<1>4. /\ stack' = <<f>> /\ par' = sub /\ pc' = next
      /\ UNCHANGED <<symbols, local_sym_names, open_parens, allow_run, globals, leaked>>
  BY DEF Command
<1> HIDE DEF f
<1> DEFINE st == <<f>>
<1>5. /\ st \in Seq(Frame) /\ DOMAIN st = {1} /\ st[1] = f /\ Last(st) = f /\ st # <<>>
      /\ st = Append(stack, f)
  BY <1>1, <1>3 DEF Last
<1> HIDE DEF st
<1>6. ShapeI(st)
  <2>1. FrameShape(f, 1) /\ f.k \notin {"item", "anon", "param"}
    BY <1>3 DEF FrameShape, CommandKinds, AllCommands, EmptyKinds, NamedKinds
  <2> QED BY <1>5, <2>1 DEF ShapeI
<1>7. ParenI(st, 0)
  BY <1>3, <1>5 DEF ParenI
<1>8. BuildI(st, 0)
  BY <1>3, <1>5 DEF BuildI
<1>9. RunI(st, allow_run)
  BY <1>1, <1>3, <1>5 DEF RunI, RunKinds, AllCommands
<1>10. ParamI(st, local_sym_names, leaked)
  BY <1>3, <1>5 DEF ParamI, AllCommands
<1>11. ScopeI(symbols, local_sym_names, st, globals, leaked)
  BY <1>2, <1>3, <1>5, ScopePush DEF IInv
<1>12. PcShape(next, st)
  BY <1>3, <1>5 DEF PcShape
<1>13. PcBuilds(next, sub, st)
  BY <1>3, <1>5 DEF PcBuilds, Builds
<1>14. TypeOK'
  BY <1>4, <1>5 DEF IInv, TypeOK, PCs, st
<1>15. StackI(st, 0, allow_run, local_sym_names, leaked)
  BY <1>6, <1>7, <1>8, <1>9, <1>10 DEF StackI
<1> QED BY <1>1, <1>4, <1>11, <1>12, <1>13, <1>14, <1>15 DEF IInv, st

\* The command keywords.
LEMMA CommandsStep ==
    ASSUME IInv,
           \/ \E id \in Id : \/ Define(id) \/ Declare(id) \/ Opaque(id)
                             \/ DeclareRule(id) \/ DeclareType(id) \/ DefineConst(id)
           \/ Check \/ CheckAssuming \/ RunCommand \/ Program
    PROVE  IInv'
<1>0. \A a, b, c \in BOOLEAN : P(a, b, c) \in Par /\ P(a, b, c).create = a
  BY DEF P, Par
<1> USE DEF AllCommands, PassOnCreate, DeclKinds, NamedKinds
<1>1. ASSUME NEW id \in Id, Define(id) PROVE IInv'
  BY <1>0, <1>1, CommandStep DEF Define
<1>2. ASSUME NEW id \in Id, Declare(id) PROVE IInv'
  BY <1>0, <1>2, CommandStep DEF Declare
<1>3. ASSUME NEW id \in Id, Opaque(id) PROVE IInv'
  BY <1>0, <1>3, CommandStep DEF Opaque
<1>4. ASSUME NEW id \in Id, DeclareRule(id) PROVE IInv'
  BY <1>0, <1>4, CommandStep DEF DeclareRule
<1>5. ASSUME NEW id \in Id, DeclareType(id) PROVE IInv'
  BY <1>0, <1>5, CommandStep DEF DeclareType
<1>6. ASSUME NEW id \in Id, DefineConst(id) PROVE IInv'
  BY <1>0, <1>6, CommandStep DEF DefineConst
<1>7. CASE Check
  BY <1>0, <1>7, CommandStep DEF Check
<1>8. CASE CheckAssuming
  BY <1>0, <1>8, CommandStep DEF CheckAssuming
<1>9. CASE RunCommand
  BY <1>0, <1>9, CommandStep DEF RunCommand
<1>10. CASE Program
  BY <1>0, <1>10, CommandStep DEF Program
<1> QED BY <1>1, <1>2, <1>3, <1>4, <1>5, <1>6, <1>7, <1>8, <1>9, <1>10

\* A command ends: its frame is the only one.
LEMMA EndStep ==
    ASSUME IInv, stack # <<>>, Top.k \in CommandKinds,
           stack' = <<>>, pc' = "toplevel", par' = par, open_parens' = Top.prevo,
           allow_run' = allow_run, leaked' = leaked,
           symbols' \in Table, globals' \in Table, local_sym_names' \in Seq(LogEntry),
           ScopeI(symbols', local_sym_names', <<>>, globals', leaked)
    PROVE  IInv'
<1>1. /\ stack \in Seq(Frame) /\ Top = stack[Len(stack)] /\ Len(stack) \in DOMAIN stack
      /\ StackI(stack, open_parens, allow_run, local_sym_names, leaked)
  BY DEF IInv, TypeOK, Top
<1>2. Len(stack) = 1
  BY <1>1 DEF StackI, ShapeI, FrameShape
<1>3. Top = stack[1] /\ DOMAIN stack = {1}
  BY <1>1, <1>2
<1>4. open_parens' = 0
  BY <1>1, <1>3 DEF StackI, ParenI
<1>5. ~allow_run
  BY <1>1, <1>3 DEF StackI, RunI, DomainKinds, CommandKinds, AllCommands
<1>6. DOMAIN << >> = {} /\ <<>> \in Seq(Frame)
  OBVIOUS
<1>7. StackI(<<>>, 0, allow_run, local_sym_names', leaked)
  BY <1>5, <1>6 DEF StackI, ShapeI, ParenI, BuildI, RunI, ParamI
<1>8. TypeOK'
  BY <1>4, <1>6 DEF IInv, TypeOK, PCs
<1>9. PcShape("toplevel", <<>>) /\ PcBuilds("toplevel", par, <<>>)
  BY DEF PcShape, PcBuilds
<1> QED BY <1>4, <1>7, <1>8, <1>9 DEF IInv

\* Undoing the command's own bindings leaves the globals and what is in
\* local_sym_names.
LEMMA BottomScope ==
    ASSUME IInv, stack # <<>>, Top.k \in CommandKinds
    PROVE  ScopeI(Restore(symbols, Top.old), local_sym_names, <<>>, globals, leaked)
<1>1. /\ stack \in Seq(Frame) /\ symbols \in Table
      /\ Top = stack[Len(stack)] /\ Len(stack) \in DOMAIN stack /\ Top = Last(stack)
      /\ StackI(stack, open_parens, allow_run, local_sym_names, leaked)
      /\ ScopeI(symbols, local_sym_names, stack, globals, leaked)
  BY DEF IInv, TypeOK, Top, Last
<1>2. Len(stack) = 1
  BY <1>1 DEF StackI, ShapeI, FrameShape
<1>3. Below(stack) \in Seq(Frame) /\ Len(Below(stack)) = 0
  BY <1>1, <1>2, BelowFacts
<1>4. Below(stack) = <<>>
  BY <1>3
<1>5. ScopeI(Restore(symbols, Last(stack).old), local_sym_names, Below(stack), globals, leaked)
  BY <1>1, ScopeBelow
<1> QED BY <1>1, <1>4, <1>5

\* With an empty stack only the entries matter.
LEMMA EmptyScope ==
    ASSUME NEW sy, NEW lo, NEW gl, NEW lk
    PROVE  /\ ScopeI(sy, lo, <<>>, gl, lk) =>
                \A x \in Id \ lk : IF Logged(lo, x) THEN FirstPrev(lo, x) = gl[x] /\ sy[x] # NoSym
                                                    ELSE sy[x] = gl[x]
           /\ (\A x \in Id \ lk : IF Logged(lo, x) THEN FirstPrev(lo, x) = gl[x] /\ sy[x] # NoSym
                                                   ELSE sy[x] = gl[x])
                => ScopeI(sy, lo, <<>>, gl, lk)
<1>1. DOMAIN << >> = {}
  OBVIOUS
<1> QED BY <1>1 DEF ScopeI, LocalAt, ScopedAt, Hidden

\* A command that binds its name ends.
LEMMA EndBindingStep ==
    ASSUME IInv, EndBinding PROVE IInv'
<1> DEFINE sy == Restore(symbols, Top.old)
<1>1. /\ stack # <<>> /\ Top.k \in BindKinds /\ symbols \in Table /\ globals \in Table
      /\ local_sym_names \in Seq(LogEntry)
  BY DEF EndBinding, IInv, TypeOK
<1>2. /\ Top.k \in CommandKinds /\ Top.k \in NamedKinds
      /\ Top.k \notin {"define", "declare", "opaque"} => Top.k \notin PassOnCreate
  BY <1>1 DEF BindKinds, CommandKinds, AllCommands, NamedKinds, PassOnCreate
<1>3. Top.id \in Id
  BY <1>1, <1>2, TopFacts DEF FrameShape
<1>4. open_parens' = Top.prevo
  BY <1>1, <1>2, TopFacts, BuiltTop DEF EndBinding
<1>5. /\ stack' = <<>> /\ pc' = "toplevel" /\ par' = par /\ allow_run' = allow_run
      /\ leaked' = leaked /\ local_sym_names' = local_sym_names /\ sy[Top.id] = NoSym
  BY DEF EndBinding, Rebinds
<1>6. PICK s \in Fresh : symbols' = Bound(sy, Top.id, s) /\ globals' = Bound(globals, Top.id, s)
  BY DEF EndBinding
<1>7. s \in Sym
  BY DEF Fresh
<1>8. sy \in Table
  BY <1>1, TopFacts, RestoreTable
<1>9. ScopeI(sy, local_sym_names, <<>>, globals, leaked)
  BY <1>1, <1>2, BottomScope
<1> HIDE DEF sy
<1>10. \A x \in Id : /\ symbols'[x] = IF x = Top.id THEN s ELSE sy[x]
                     /\ globals'[x] = IF x = Top.id THEN s ELSE globals[x]
  BY <1>1, <1>3, <1>6, <1>8 DEF Bound, Table
<1>11. symbols' \in Table /\ globals' \in Table
  BY <1>1, <1>3, <1>6, <1>7, <1>8 DEF Bound, Table, Entry
<1>12. ScopeI(symbols', local_sym_names, <<>>, globals', leaked)
  BY <1>3, <1>5, <1>9, <1>10, EmptyScope
<1> QED BY <1>1, <1>2, <1>4, <1>5, <1>11, <1>12, EndStep

\* check and check-assuming end: the local symbols are cleaned up.
LEMMA EndCheckStep ==
    ASSUME IInv, EndCheck PROVE IInv'
<1> DEFINE sy == Restore(symbols, Top.old)
<1>1. /\ stack # <<>> /\ Top.k \in CommandKinds /\ symbols \in Table /\ globals \in Table
      /\ local_sym_names \in Seq(LogEntry)
  BY DEF EndCheck, IInv, TypeOK, CommandKinds, AllCommands
<1>2. /\ stack' = <<>> /\ pc' = "toplevel" /\ par' = par /\ allow_run' = allow_run
      /\ leaked' = leaked /\ local_sym_names' = <<>> /\ globals' = globals
      /\ symbols' = Restore(sy, local_sym_names) /\ open_parens' = Top.prevo
  BY <1>1, TopFacts DEF EndCheck
<1>3. sy \in Table
  BY <1>1, TopFacts, RestoreTable
<1>4. ScopeI(sy, local_sym_names, <<>>, globals, leaked)
  BY <1>1, BottomScope
<1> HIDE DEF sy
<1>5. symbols' \in Table
  BY <1>1, <1>2, <1>3, RestoreTable
<1>6. \A x \in Id : symbols'[x] = IF Logged(local_sym_names, x) THEN FirstPrev(local_sym_names, x)
                                                                ELSE sy[x]
  BY <1>2 DEF Restore
<1>7. \A x : ~Logged(<<>>, x)
  BY DEF Logged
<1>8. \A x \in Id \ leaked : symbols'[x] = globals[x]
  BY <1>4, <1>6, EmptyScope
<1>9. ScopeI(symbols', <<>>, <<>>, globals, leaked)
  BY <1>7, <1>8, EmptyScope
<1>10. <<>> \in Seq(LogEntry)
  OBVIOUS
<1> QED BY <1>1, <1>2, <1>5, <1>9, <1>10, EndStep

\* run and program end.
LEMMA EndCodeStep ==
    ASSUME IInv, EndRun \/ EndProgram PROVE IInv'
<1>0. symbols \in Table /\ globals \in Table /\ local_sym_names \in Seq(LogEntry)
  BY DEF IInv, TypeOK
<1>1. CASE EndRun
  <2>1. /\ stack # <<>> /\ Top.k = "run_check" /\ stack' = <<>> /\ pc' = "toplevel"
        /\ UNCHANGED <<symbols, local_sym_names, par, open_parens, allow_run, globals, leaked>>
    BY <1>1 DEF EndRun
  <2>2. Top.k \in CommandKinds /\ Top.k \in EmptyKinds /\ Top.k \notin PassOnCreate
    BY <2>1 DEF CommandKinds, EmptyKinds, PassOnCreate
  <2>3. open_parens' = Top.prevo
    BY <2>1, <2>2, BuiltTop
  <2>4. Top.old = <<>> /\ Top.old \in Seq(LogEntry)
    BY <2>1, <2>2, TopFacts DEF FrameShape
  <2>5. Restore(symbols, Top.old) = symbols
    BY <1>0, <2>4, RestoreTable
  <2>6. ScopeI(symbols, local_sym_names, <<>>, globals, leaked)
    BY <2>1, <2>2, <2>5, BottomScope
  <2> QED BY <1>0, <2>1, <2>2, <2>3, <2>6, EndStep
<1>2. CASE EndProgram
  <2> DEFINE sy == Restore(symbols, Top.old)
  <2>1. /\ stack # <<>> /\ Top.k = "prog_check" /\ stack' = <<>> /\ pc' = "toplevel"
        /\ symbols' = [x \in Id |-> IF Logged(Top.old, x) THEN NoSym ELSE symbols[x]]
        /\ UNCHANGED <<local_sym_names, par, open_parens, allow_run, globals, leaked>>
    BY <1>2 DEF EndProgram
  <2>2. Top.k \in CommandKinds /\ Top.k \in ProgramKinds /\ Top.k \notin PassOnCreate
    BY <2>1 DEF CommandKinds, ProgramKinds, PassOnCreate
  <2>3. open_parens' = Top.prevo
    BY <2>1, <2>2, BuiltTop
  <2>4. Top.old \in Seq(LogEntry)
    BY <2>1, TopFacts
  <2>5. ScopeI(sy, local_sym_names, <<>>, globals, leaked)
    BY <2>1, <2>2, BottomScope
  <2>6. \A j \in DOMAIN Top.old : Top.old[j].id \notin leaked => Top.old[j].prev = NoSym
    <3>1. stack \in Seq(Frame) /\ Len(stack) \in DOMAIN stack
      BY <2>1 DEF IInv, TypeOK
    <3> QED BY <2>2, <3>1 DEF IInv, StackI, ParamI, Top
  <2>7. \A x \in Id \ leaked : symbols'[x] = sy[x]
    <3> SUFFICES ASSUME NEW x \in Id \ leaked PROVE symbols'[x] = sy[x]
      OBVIOUS
    <3>1. CASE Logged(Top.old, x)
      <4>1. FirstPrev(Top.old, x) = NoSym
        BY <2>4, <2>6, <3>1, FirstPrevIsRecord
      <4> QED BY <2>1, <3>1, <4>1 DEF Restore
    <3>2. CASE ~Logged(Top.old, x)
      BY <2>1, <3>2 DEF Restore
    <3> QED BY <3>1, <3>2
  <2> HIDE DEF sy
  <2>8. ScopeI(symbols', local_sym_names, <<>>, globals, leaked)
    BY <2>5, <2>7, EmptyScope
  <2>9. symbols' \in Table
    BY <1>0, <2>1 DEF Table, Entry
  <2> QED BY <1>0, <2>1, <2>2, <2>3, <2>8, <2>9, EndStep
<1> QED BY <1>1, <1>2

-----------------------------------------------------------------------------
(* The theorems *)

\* The program starts with an empty table and an empty stack.
LEMMA InitInv == Init => IInv
<1> SUFFICES ASSUME Init PROVE IInv
  OBVIOUS
<1>1. TypeOK
  <2>1. symbols \in Table /\ globals \in Table
    BY DEF Init, Table, Entry
  <2>2. par \in Par
    BY DEF Init, P, Par
  <2>3. <<>> \in Seq(LogEntry) /\ <<>> \in Seq(Frame)
    OBVIOUS
  <2> QED BY <2>1, <2>2, <2>3 DEF Init, TypeOK, PCs
<1>2. stack = <<>> /\ DOMAIN stack = {} /\ ~allow_run /\ open_parens = 0 /\ pc = "toplevel"
  BY DEF Init
<1>3. StackI(stack, open_parens, allow_run, local_sym_names, leaked)
  BY <1>2 DEF StackI, ShapeI, ParenI, BuildI, RunI, ParamI
<1>4. PcShape(pc, stack) /\ PcBuilds(pc, par, stack)
  BY <1>2 DEF PcShape, PcBuilds
<1>5. \A x \in Id : symbols[x] = globals[x] /\ ~Logged(local_sym_names, x)
  <2>1. symbols = globals /\ DOMAIN local_sym_names = {}
    BY DEF Init
  <2> QED BY <2>1 DEF Logged
<1>6. ScopeI(symbols, local_sym_names, <<>>, globals, leaked)
  BY <1>5, EmptyScope
<1> QED BY <1>1, <1>2, <1>3, <1>4, <1>6 DEF IInv

\* Every step of check(), of the code reader and of the command loop keeps the
\* invariant.
LEMMA NextInv == IInv /\ [Next]_vars => IInv'
<1> SUFFICES ASSUME IInv, [Next]_vars PROVE IInv'
  OBVIOUS
<1>1. CASE Terms
  <2>1. ASSUME NEW id \in Id, Lambda(id) PROVE IInv'
    BY <2>1, LambdaTail, LambdaFrame
  <2> QED BY <1>1, <2>1, TermsStep, BindersStep DEF Terms
<1>2. CASE Returns
  BY <1>2, PiDomainStep, BigDomainStep, StagesStep, LocalBodyStep, ReturnsStep, InPlaceStep
     DEF Returns
<1>3. CASE DeclLists
  BY <1>3, CallsStep, ItemDoneStep, ReturnsStep, EndDeclsStep DEF DeclLists
<1>4. CASE Code
  BY <1>4, InPlaceStep, CallsStep, CodeBindStep, ReturnsStep, StagesStep DEF Code
<1>5. CASE CommandLoop
  BY <1>5, CommandsStep, CallsStep, StagesStep, EndBindingStep, EndCheckStep, EndCodeStep
     DEF CommandLoop
<1>6. CASE ReportError
  BY <1>6, InPlaceStep
<1>7. CASE UNCHANGED vars
  BY <1>7 DEF vars, IInv, TypeOK
<1> QED BY <1>1, <1>2, <1>3, <1>4, <1>5, <1>6, <1>7 DEF Next

\* The inductive invariant holds of every reachable state.
THEOREM Invariance == Spec => []IInv
  BY InitInv, NextInv, PTL DEF Spec

\* Every variable of check_file() and check() has its type: open_parens, in
\* particular, is never negative.
THEOREM TypeCorrect == Spec => []TypeOK
<1>1. IInv => TypeOK
  BY DEF IInv
<1> QED BY <1>1, Invariance, PTL

\* Between commands, cleaning up local_sym_names gives what the commands bound,
\* for every identifier but those leaked by a tail-called local definition or
\* by a tail-called binder under a frame that hides the same identifier.
THEOREM ScopesAreRestored == Spec => []ScopesRestored
<1>1. IInv => ScopesRestored
  <2> SUFFICES ASSUME IInv, pc = "toplevel", NEW x \in Id \ leaked
               PROVE  Restore(symbols, local_sym_names)[x] = globals[x]
    BY DEF ScopesRestored
  <2>1. stack = <<>>
    BY TopLevel
  <2>2. ScopeI(symbols, local_sym_names, <<>>, globals, leaked)
    BY <2>1 DEF IInv
  <2> QED BY <2>2, EmptyScope DEF Restore
<1> QED BY <1>1, Invariance, PTL

\* No activation eats its caller's parentheses.
THEOREM ParensAreNested == Spec => []ParensNested
<1>1. IInv => ParensNested
  <2> SUFFICES ASSUME IInv PROVE ParensNested
    OBVIOUS
  <2>1. stack \in Seq(Frame) /\ ParenI(stack, open_parens)
    BY DEF IInv, TypeOK, StackI
  <2>2. \A i \in DOMAIN stack : stack[i].prevo \in Nat /\ Opens(stack[i].k) \in Nat
    BY <2>1, StackFrames DEF Opens
  <2>3. ASSUME NEW i \in DOMAIN stack, NEW j \in DOMAIN stack, i < j
        PROVE  stack[i].prevo <= stack[j].prevo
    <3>1. stack[i].prevo + Opens(stack[j].k) <= stack[j].prevo
      BY <2>1, <2>3 DEF ParenI
    <3> QED BY <2>2, <3>1
  <2>4. pc = "toplevel" => open_parens = 0
    BY TopLevel
  <2> QED BY <2>1, <2>3, <2>4 DEF ParenI, ParensNested
<1> QED BY <1>1, Invariance, PTL

\* A sub-check that builds its term has eaten its own parentheses.
THEOREM CreateEats == Spec => []CreateEatsItsParens
<1>1. IInv => CreateEatsItsParens
  BY TopFacts DEF CreateEatsItsParens
<1> QED BY <1>1, Invariance, PTL

\* Side conditions are read in a domain only.
THEOREM RunInDomain == Spec => []RunOnlyInDomain
<1>1. IInv => RunOnlyInDomain
  <2> SUFFICES ASSUME IInv, NEW i \in DOMAIN stack, stack[i].k \in {"run_read", "run_chk"}
               PROVE  \E j \in 1..(i - 1) : stack[j].k \in {"pi_dom", "ann_dom"}
    BY DEF RunOnlyInDomain
  <2>1. stack \in Seq(Frame) /\ RunI(stack, allow_run)
    BY DEF IInv, TypeOK, StackI
  <2>2. PICK j \in DOMAIN stack : j < i /\ stack[j].k \in {"pi_dom", "ann_dom"}
    BY <2>1 DEF RunI, RunKinds, DomainKinds
  <2>3. j \in 1..(i - 1)
    BY <2>1, <2>2
  <2> QED BY <2>2, <2>3
<1> QED BY <1>1, Invariance, PTL

-----------------------------------------------------------------------------
(* Activations that end, as an action property *)

\* An activation starts or goes on, or a command starts.
NoneEnds ==
    \/ stack' = stack
    \/ \E f : stack' = Append(stack, f)
    \/ \E f : stack' = SetTop(stack, f)
    \/ stack = <<>>

\* Such a step does not make the stack shorter.
LEMMA NoneEndsFacts ==
    ASSUME IInv, IInv', NoneEnds
    PROVE  ~(Len(stack') < Len(stack))
<1>1. stack \in Seq(Frame) /\ Len(stack) \in Nat /\ Len(stack') \in Nat
  BY DEF IInv, TypeOK
<1>2. ASSUME NEW f PROVE Len(Append(stack, f)) = Len(stack) + 1
  <2>1. stack \in Seq(Frame \cup {f}) /\ f \in Frame \cup {f}
    BY <1>1
  <2> QED BY <2>1
<1>3. ASSUME NEW f PROVE Len(SetTop(stack, f)) = Len(stack)
  <2> DEFINE S == Frame \cup {f}
             n == Len(stack)
  <2>1. stack \in [1..n -> S] /\ n \in Nat
    BY <1>1
  <2> HIDE DEF S, n
  <2>2. SetTop(stack, f) \in [1..n -> S]
    BY <2>1 DEF SetTop, S, n
  <2>3. Len(SetTop(stack, f)) = n
    BY <2>1, <2>2
  <2> QED BY <2>3 DEF n
<1>4. CASE stack' = stack
  BY <1>1, <1>4
<1>5. CASE \E f : stack' = Append(stack, f)
  BY <1>1, <1>2, <1>5
<1>6. CASE \E f : stack' = SetTop(stack, f)
  BY <1>1, <1>3, <1>6
<1>7. CASE stack = <<>>
  <2>1. Len(stack) = 0
    BY <1>7
  <2> QED BY <1>1, <2>1
<1> QED BY <1>4, <1>5, <1>6, <1>7 DEF NoneEnds

\* The top activation's log leads back to the entry that it started with.
LEMMA TopUndo ==
    ASSUME IInv, stack # <<>>, NEW x \in Id \ leaked, ~Logged(local_sym_names, x)
    PROVE  /\ Restore(symbols, Top.old)[x] = Top.entry[x]
           /\ Top.k \in EmptyKinds => symbols[x] = Top.entry[x]
<1>1. Undo(symbols[x], Top.old, x) = Top.entry[x]
  BY TopFacts DEF IInv, ScopeI, ScopedAt
<1>2. Restore(symbols, Top.old)[x] = Undo(symbols[x], Top.old, x)
  BY DEF Restore, Undo
<1>3. Top.k \in EmptyKinds => ~Logged(Top.old, x)
  <2>1. Top.k \in EmptyKinds => Top.old = <<>>
    BY TopFacts DEF FrameShape
  <2> QED BY <2>1 DEF Logged
<1> QED BY <1>1, <1>2, <1>3 DEF Undo

\* An activation ends that has put back what its log has.
LEMMA EndsRestored ==
    ASSUME IInv, stack # <<>>, leaked' = leaked, symbols' = Restore(symbols, Top.old)
    PROVE  Ended(Top)
  BY TopUndo DEF Ended

\* An activation ends that has bound nothing.
LEMMA EndsEmpty ==
    ASSUME IInv, stack # <<>>, leaked' = leaked, symbols' = symbols, Top.k \in EmptyKinds
    PROVE  Ended(Top)
  BY TopUndo DEF Ended

\* An activation ends that has bound nothing but its name: the name stays bound
\* for its caller or for the rest of the command.
LEMMA EndsNamed ==
    ASSUME IInv, stack # <<>>, leaked \subseteq leaked', Top.k \in EmptyKinds,
           NEW s, symbols' = Bound(symbols, Top.id, s),
           BindsItsName(Top) \/ Top.id \in leaked' \/ Logged(local_sym_names, Top.id)
             \/ Logged(local_sym_names', Top.id)
    PROVE  Ended(Top)
<1> SUFFICES ASSUME NEW x \in Id \ leaked', ~(BindsItsName(Top) /\ x = Top.id),
                    ~Logged(local_sym_names, x), ~Logged(local_sym_names', x)
             PROVE  symbols'[x] = Top.entry[x]
  BY DEF Ended
<1>1. x # Top.id
  OBVIOUS
<1>2. symbols'[x] = symbols[x]
  <2>1. DOMAIN symbols = Id
    BY DEF IInv, TypeOK, Table
  <2> QED BY <1>1, <2>1 DEF Bound
<1> QED BY <1>2, TopUndo

LEMMA FormEnds ==
    ASSUME IInv, LeaveForm \/ LeaveArrow \/ LeaveCode \/ TailArg \/ CloseApp \/ AnonDone
    PROVE  Ended(Top)
<1>1. CASE LeaveForm \/ LeaveArrow \/ LeaveCode
  BY <1>1, EndsRestored DEF LeaveForm, LeaveArrow, LeaveCode
<1>2. CASE TailArg \/ CloseApp
  <2>1. pc = "args" /\ UNCHANGED <<symbols, leaked>>
    BY <1>2 DEF TailArg, CloseApp
  <2>2. stack # <<>> /\ Top.k = "app"
    BY <2>1 DEF IInv, PcShape, Last, Top
  <2> QED BY <2>1, <2>2, EndsEmpty DEF EmptyKinds
<1>3. CASE AnonDone
  BY <1>3, EndsEmpty DEF AnonDone, EmptyKinds
<1> QED BY <1>1, <1>2, <1>3

LEMMA BinderEnds ==
    ASSUME IInv, BigDomain \/ LocalBody \/ ItemDone
    PROVE  Ended(Top) \/ NoneEnds
<1>1. CASE BigDomain
  <2>1. PICK s : TailBind(Below(stack), Top.id, s)
    BY <1>1 DEF BigDomain
  <2>2. /\ stack # <<>> /\ Top.k = "big_dom" /\ leaked \subseteq leaked'
        /\ symbols' = Bound(symbols, Top.id, s)
        /\ local_sym_names' = Remember(local_sym_names, symbols, Top.id)
    BY <1>1, <2>1 DEF BigDomain, TailBind
  <2>3. Top.id \in Id
    BY <2>2, TopFacts DEF FrameShape, NamedKinds
  <2>4. Logged(local_sym_names', Top.id)
    <3> DEFINE e == [id |-> Top.id, prev |-> symbols[Top.id]]
    <3>1. e \in LogEntry /\ e.id = Top.id /\ local_sym_names \in Seq(LogEntry)
      BY <2>3 DEF IInv, TypeOK, Table, LogEntry
    <3>2. local_sym_names' = Append(local_sym_names, e)
      BY <2>2 DEF Remember
    <3> HIDE DEF e
    <3> QED BY <3>1, <3>2, FirstPrevStable, FirstPrevNew
  <2> QED BY <2>2, <2>4, EndsNamed DEF EmptyKinds
<1>2. CASE LocalBody
  <2>1. PICK s : symbols' = Bound(symbols, Top.id, s)
    BY <1>2 DEF LocalBody
  <2>2. stack # <<>> /\ Top.k = "let_tm"
    BY <1>2 DEF LocalBody
  <2>3. CASE TailCalls /\ Top.par.ret /\ ~Top.par.create
    <3>1. leaked' = IF Logged(local_sym_names, Top.id) THEN leaked ELSE leaked \cup {Top.id}
      BY <1>2, <2>3 DEF LocalBody
    <3>2. leaked \subseteq leaked' /\ (Top.id \in leaked' \/ Logged(local_sym_names, Top.id))
      BY <3>1
    <3> QED BY <2>1, <2>2, <3>2, EndsNamed DEF EmptyKinds
  <2>4. CASE ~(TailCalls /\ Top.par.ret /\ ~Top.par.create)
    BY <1>2, <2>4 DEF LocalBody, NoneEnds
  <2> QED BY <2>3, <2>4
<1>3. CASE ItemDone
  <2>1. PICK s : symbols' = Bound(symbols, Top.id, s)
    BY <1>3 DEF ItemDone
  <2>2. Len(stack) > 1 /\ Top.k \in {"item", "param"} /\ leaked' = leaked
    BY <1>3 DEF ItemDone
  <2>3. stack # <<>>
    BY <2>2
  <2> QED BY <2>1, <2>2, <2>3, EndsNamed DEF EmptyKinds, BindsItsName
<1> QED BY <1>1, <1>2, <1>3

LEMMA CommandEnds ==
    ASSUME IInv, EndBinding \/ EndCheck \/ EndRun \/ EndProgram
    PROVE  Ended(Top)
<1>1. CASE EndBinding
  <2>1. PICK s : symbols' = Bound(Restore(symbols, Top.old), Top.id, s)
    BY <1>1 DEF EndBinding
  <2>2. stack # <<>> /\ BindsItsName(Top) /\ leaked' = leaked
    BY <1>1 DEF EndBinding, BindsItsName
  <2> SUFFICES ASSUME NEW x \in Id \ leaked, x # Top.id, ~Logged(local_sym_names, x)
               PROVE  symbols'[x] = Top.entry[x]
    BY <2>2 DEF Ended
  <2>3. Restore(symbols, Top.old)[x] = Top.entry[x]
    BY <2>2, TopUndo
  <2>4. DOMAIN Restore(symbols, Top.old) = Id
    BY DEF Restore
  <2> QED BY <2>1, <2>3, <2>4 DEF Bound
<1>2. CASE EndCheck
  <2> DEFINE sy == Restore(symbols, Top.old)
  <2>1. stack # <<>> /\ leaked' = leaked /\ symbols' = Restore(sy, local_sym_names)
    BY <1>2 DEF EndCheck
  <2> SUFFICES ASSUME NEW x \in Id \ leaked, ~Logged(local_sym_names, x)
               PROVE  symbols'[x] = Top.entry[x]
    BY <2>1 DEF Ended
  <2>2. sy[x] = Top.entry[x]
    BY <2>1, TopUndo
  <2> HIDE DEF sy
  <2> QED BY <2>1, <2>2 DEF Restore
<1>3. CASE EndRun
  BY <1>3, EndsEmpty DEF EndRun, EmptyKinds
<1>4. CASE EndProgram
  <2>1. /\ stack # <<>> /\ Top.k \in ProgramKinds /\ leaked' = leaked
        /\ symbols' = [x \in Id |-> IF Logged(Top.old, x) THEN NoSym ELSE symbols[x]]
    BY <1>4 DEF EndProgram, ProgramKinds
  <2>2. \A j \in DOMAIN Top.old : Top.old[j].id \notin leaked => Top.old[j].prev = NoSym
    <3>1. stack \in Seq(Frame) /\ Len(stack) \in DOMAIN stack
      BY <2>1 DEF IInv, TypeOK
    <3> QED BY <2>1, <3>1 DEF IInv, StackI, ParamI, Top
  <2> SUFFICES ASSUME NEW x \in Id \ leaked, ~Logged(local_sym_names, x)
               PROVE  symbols'[x] = Top.entry[x]
    BY <2>1 DEF Ended
  <2>3. Restore(symbols, Top.old)[x] = Top.entry[x]
    BY <2>1, TopUndo
  <2>4. Top.old \in Seq(LogEntry)
    BY <2>1, TopFacts
  <2>5. Logged(Top.old, x) => FirstPrev(Top.old, x) = NoSym
    BY <2>2, <2>4, FirstPrevIsRecord
  <2> QED BY <2>1, <2>3, <2>5 DEF Restore
<1> QED BY <1>1, <1>2, <1>3, <1>4

\* Every step that makes the stack shorter ends the top activation.
LEMMA StepEnds ==
    ASSUME IInv, Next
    PROVE  Ended(Top) \/ NoneEnds
<1>1. CASE Terms
  <2>1. ASSUME NEW id \in Id, Lambda(id) PROVE NoneEnds
    BY <2>1 DEF Lambda, NoneEnds
  <2>2. ASSUME NEW id \in Id, Pi("!", id) \/ Pi("#", id) \/ BigLambda(id) \/ LocalDef(id)
        PROVE  NoneEnds
    BY <2>2 DEF Pi, BigLambda, LocalDef, OpenForm, NoneEnds
  <2>3. CASE Leaf \/ Run \/ Ascribe \/ Negate \/ Apply \/ Arrow
    BY <2>3 DEF Leaf, Run, Ascribe, Negate, Apply, Arrow, OpenForm, NoneEnds
  <2> QED BY <1>1, <2>1, <2>2, <2>3 DEF Terms
<1>2. CASE Returns
  <2>1. CASE PiDomain \/ AscribedType \/ AppReturn \/ \E c \in BOOLEAN : Arg(c)
    BY <2>1 DEF PiDomain, AscribedType, AppReturn, Arg, NoneEnds
  <2> QED BY <1>2, <2>1, FormEnds, BinderEnds DEF Returns
<1>3. CASE DeclLists
  <2>1. CASE (\E id \in Id : DeclNamed(id)) \/ (\E exp \in BOOLEAN : DeclAnon(exp)) \/ EndDecls
    BY <2>1 DEF DeclNamed, DeclAnon, EndDecls, NoneEnds
  <2> QED BY <1>3, <2>1, FormEnds, BinderEnds DEF DeclLists
<1>4. CASE Code
  <2>1. CASE \/ CodeLeaf \/ CodeSeq \/ CodeNext \/ (\E id \in Id : CodeLet(id))
             \/ CodeLetBody \/ CodeCase
    BY <2>1 DEF CodeLeaf, CodeSeq, CodeNext, CodeLet, CodeLetBody, CodeCase, NoneEnds
  <2>2. CASE (\E id \in Id : CaseVar(id)) \/ CaseBody \/ CheckCode \/ RunTerm
    BY <2>2 DEF CaseVar, CaseBody, CheckCode, RunTerm, NoneEnds
  <2> QED BY <1>4, <2>1, <2>2, FormEnds DEF Code
<1>5. CASE CommandLoop
  <2>1. ASSUME pc = "toplevel" PROVE NoneEnds
    BY <2>1, TopLevel DEF NoneEnds
  <2>2. CASE \/ \E id \in Id : \/ Define(id) \/ Declare(id) \/ Opaque(id)
                              \/ DeclareRule(id) \/ DeclareType(id) \/ DefineConst(id)
             \/ Check \/ CheckAssuming \/ RunCommand \/ Program
    BY <2>1, <2>2 DEF Define, Declare, Opaque, DeclareRule, DeclareType, DefineConst,
                      Check, CheckAssuming, RunCommand, Program, Command
  <2>3. CASE (\E id \in Id : Param(id)) \/ AssumedTerm \/ EndParams \/ ProgramBody
    BY <2>3 DEF Param, AssumedTerm, EndParams, ProgramBody, NoneEnds
  <2> QED BY <1>5, <2>2, <2>3, CommandEnds DEF CommandLoop
<1>6. CASE ReportError
  BY <1>6 DEF ReportError, NoneEnds
<1> QED BY <1>1, <1>2, <1>3, <1>4, <1>5, <1>6 DEF Next

\* Whenever an activation of check(), read_code(), check_code() or a command
\* ends, by its last return or by a tail call, the symbol table has every entry
\* that it had when the activation began, except for identifiers that
\* local_sym_names has or that have leaked, and the name that the activation is
\* there to bind.
THEOREM ActivationsRestore == Spec => ActivationRestores
<1>1. IInv /\ [Next]_vars => [Len(stack') < Len(stack) => Ended(Top)]_vars
  <2> SUFFICES ASSUME IInv, Next, Len(stack') < Len(stack) PROVE Ended(Top)
    OBVIOUS
  <2>1. IInv'
    BY NextInv
  <2>2. ~NoneEnds
    BY <2>1, NoneEndsFacts
  <2> QED BY <2>2, StepEnds
<1> QED BY <1>1, Invariance, PTL DEF Spec, ActivationRestores
=============================================================================
