------------------------------ MODULE SideCond ------------------------------
(***************************************************************************)
(* The interpreter of side conditions: run_code_internal() of              *)
(* src/code.cpp, with the cache of function results that run_code() makes. *)
(*                                                                         *)
(* Variables of code are global objects: a binder stores into var->val and *)
(* must put the previous value back, so a program that calls itself shares *)
(* its parameters with the call.  The C++ call stack is the variable       *)
(* stack; a goto start_run_code leaves no frame.  The code is what         *)
(* check_code() accepts: programs are fully applied, patterns have the     *)
(* arity of their constructor.  Reference counts are left out; the identity *)
(* of objects is kept, because the cache looks a call up by the addresses  *)
(* of its arguments.                                                       *)
(***************************************************************************)
EXTENDS Code, SequencesExt

CONSTANTS
    Prog,       \* programs
    Params,     \* the parameters of each program
    Signatures, \* bodies of the programs, the ones that are functions, and code to run
    Pieces,     \* all code there is: these bodies, this code and what they are made of
    StartMarks, \* the marks that earlier runs have left: only check clears mark_map
    MaxFrames   \* bound on the C++ stack

\* read_code() makes an object of its own for every variable that it binds
Binder(xs) == xs \in Seq(Var) /\ IsInjective(xs)

\* what read_code() builds out of code in C and check_code() accepts: every op has
\* its kids, a program is called with all its arguments
WellFormed(e, C) ==
    /\ e.kids \in Seq(C)
    /\ \/ e.op \in Leaves
       \/ e.op \in {"neg", "to_q", "markvar"} /\ Len(e.kids) = 1
       \/ e.op \in {"add", "mul", "div", "do"} /\ Len(e.kids) = 2
       \/ e.op \in {"ifneg", "ifzero", "ifmarked"} /\ Len(e.kids) = 3
       \/ e.op \in {"compare", "ifequal"} /\ Len(e.kids) = 4
       \/ e.op = "let" /\ e.a \in Var /\ Len(e.kids) = 2
       \/ /\ e.op = "match" /\ e.kids # <<>> /\ DOMAIN e.a = 1..(Len(e.kids) - 1)
          /\ \A i \in DOMAIN e.a : Binder(e.a[i].xs)
       \/ e.op = "con" /\ e.kids # <<>>
       \/ e.op = "call" /\ e.a \in Prog /\ Len(e.kids) = Len(Params[e.a])

\* C is all the code of the signatures
Closed(C) ==
    /\ \A e \in C : WellFormed(e, C)
    /\ \A sig \in Signatures : sig.body \in [Prog -> C] /\ sig.codes \subseteq C

ASSUME ProgAssumption ==
    /\ DOMAIN Params = Prog
    /\ \A p \in Prog : Binder(Params[p]) /\ Params[p] # <<>>
    /\ \A sig \in Signatures : sig.functions \subseteq Prog
ASSUME CodeAssumption == Closed(Pieces)
ASSUME FramesAssumption == MaxFrames \in Nat

VARIABLES
    body,   \* the body of each program
    functions, \* progFunctions: the programs declared with "function"
    code,   \* the code that run_code() was given
    val,    \* var->val
    marks,  \* marks of symbols, as pairs of a mark's number and a symbol
    cache,  \* the ExprTrie: results of the calls of functions
    allocs, \* the objects that new has returned
    stack,  \* activations that wait for a sub-run
    mode,   \* "eval": cur is code; "ret": cur is a result; "done"
    cur,
    useCache, \* the running activation is in the body of a function
    stale   \* history: variables that a call left bound

vars == <<body, functions, code, val, marks, cache, allocs, stack, mode, cur, useCache, stale>>

-----------------------------------------------------------------------------
(* Steps *)

Top == stack[Len(stack)]
Results == Append(Top.rs, cur)

Return(r) == mode' = "ret" /\ cur' = r
Eval(e) == mode' = "eval" /\ cur' = e

\* return a new object
New(v, args) == allocs' = allocs + 1 /\ Return(Obj(v, allocs', args))

\* the top activation ends or goes on with a goto
Pop == stack' = Front(stack) /\ useCache' = Top.uc

\* A faulty RunBody: the previous values are not saved.
RunBodyUnsaved(xs, vs, e, uc) ==
    /\ val' = Store(val, xs, vs)
    /\ stack' = Append(Front(stack), [Top EXCEPT !.rs = Results, !.body = TRUE, !.xs = xs])
    /\ Eval(e)
    /\ useCache' = uc

\* the top activation binds xs to vs and runs e
RunBody(xs, vs, e, uc) ==
    /\ val' = Store(val, xs, vs)
    /\ stack' = Append(Front(stack), [Top EXCEPT !.rs = Results, !.body = TRUE,
                                                 !.xs = xs, !.old = Held(val, xs)])
    /\ Eval(e)
    /\ useCache' = uc

\* all strict kids of the top activation, whose op is in ops, have succeeded
Ready(ops) ==
    /\ mode = "ret" /\ stack # <<>> /\ ~Top.body
    /\ Top.e.op \in ops
    /\ cur # Null /\ Len(Results) = Strict(Top.e)

\* a literal, an identifier, fail
Leaf ==
    /\ mode = "eval" /\ cur.op \in Leaves
    /\ Return(CASE cur.op = "lit" -> ObjectOf(cur)
                [] cur.op = "fail" -> Null
                [] cur.op = "var" -> IF val[cur.a] = None THEN SymObj(cur.a)
                                     ELSE val[cur.a])
    /\ UNCHANGED <<body, functions, code, val, marks, cache, allocs, stack, useCache, stale>>

\* A faulty Enter: ifmarked is run in functions too.
EnterMarked ==
    /\ mode = "eval" /\ cur.op \notin Leaves
    /\ Len(stack) < MaxFrames
    /\ stack' = Append(stack, [e |-> cur, rs |-> <<>>, body |-> FALSE, xs |-> <<>>,
                               old |-> <<>>, uc |-> useCache])
    /\ Eval(cur.kids[1])
    /\ UNCHANGED <<body, functions, code, val, marks, cache, allocs, useCache, stale>>

\* any other op runs its first strict kid; ifmarked is not allowed in a function
Enter ==
    /\ mode = "eval" /\ cur.op \notin Leaves
    /\ ~(cur.op = "ifmarked" /\ useCache)
    /\ Len(stack) < MaxFrames
    /\ stack' = Append(stack, [e |-> cur, rs |-> <<>>, body |-> FALSE, xs |-> <<>>,
                               old |-> <<>>, uc |-> useCache])
    /\ Eval(cur.kids[1])
    /\ UNCHANGED <<body, functions, code, val, marks, cache, allocs, useCache, stale>>

IfMarkedInFunction ==
    /\ mode = "eval" /\ cur.op = "ifmarked" /\ useCache
    /\ Return(Null)
    /\ UNCHANGED <<body, functions, code, val, marks, cache, allocs, stack, useCache, stale>>

\* a strict kid fails, or compare's first operand is not a symbol
KidFails ==
    /\ mode = "ret" /\ stack # <<>> /\ ~Top.body
    /\ \/ cur = Null
       \/ Top.e.op = "compare" /\ Top.rs = <<>> /\ ~IsSym(cur.v)
    /\ Return(Null) /\ Pop
    /\ UNCHANGED <<body, functions, code, val, marks, cache, allocs, stale>>

NextKid ==
    /\ mode = "ret" /\ stack # <<>> /\ ~Top.body
    /\ cur # Null /\ Len(Results) < Strict(Top.e)
    /\ Top.e.op = "compare" => IsSym(cur.v)
    /\ stack' = Append(Front(stack), [Top EXCEPT !.rs = Results])
    /\ Eval(Top.e.kids[Len(Results) + 1])
    /\ useCache' = Top.uc
    /\ UNCHANGED <<body, functions, code, val, marks, cache, allocs, stale>>

\* A faulty Do: it runs its first sub-expression again.
DoAgain ==
    /\ Ready({"do"})
    /\ Eval(Top.e) /\ Pop
    /\ UNCHANGED <<body, functions, code, val, marks, cache, allocs, stale>>

Do ==
    /\ Ready({"do"})
    /\ Eval(Top.e.kids[2]) /\ Pop
    /\ UNCHANGED <<body, functions, code, val, marks, cache, allocs, stale>>

Let ==
    /\ Ready({"let"})
    /\ RunBody(<<Top.e.a>>, <<cur>>, Top.e.kids[2], Top.uc)
    /\ UNCHANGED <<body, functions, code, marks, cache, allocs, stale>>

Number ==
    /\ Ready({"add", "mul", "div", "neg", "to_q"})
    /\ LET n == CASE Top.e.op = "neg" -> Negated(cur.v)
                  [] Top.e.op = "to_q" -> ToRational(cur.v)
                  [] OTHER -> Arith(Top.e.op, Top.rs[1].v, cur.v)
       IN  IF n = NullVal THEN Return(Null) /\ UNCHANGED allocs ELSE New(n, <<>>)
    /\ Pop
    /\ UNCHANGED <<body, functions, code, val, marks, cache, stale>>

\* A faulty Conditional: ifequal compares addresses.
ConditionalByAddress ==
    /\ Ready(Conditionals)
    /\ LET b == IF Top.e.op = "ifequal" THEN IF Results[1] = Results[2] THEN 3 ELSE 4
                ELSE Branch(Top.e, Denoted(Results), marks)
       IN  IF b = 0 THEN Return(Null) ELSE Eval(Top.e.kids[b])
    /\ Pop
    /\ UNCHANGED <<body, functions, code, val, marks, cache, allocs, stale>>

Conditional ==
    /\ Ready(Conditionals)
    /\ LET b == Branch(Top.e, Denoted(Results), marks)
       IN  IF b = 0 THEN Return(Null) ELSE Eval(Top.e.kids[b])
    /\ Pop
    /\ UNCHANGED <<body, functions, code, val, marks, cache, allocs, stale>>

\* marking is a toggle
MarkVar ==
    /\ Ready({"markvar"})
    /\ IF IsSym(cur.v)
       THEN /\ LET m == <<Top.e.a, cur.v.s>>
               IN  marks' = IF m \in marks THEN marks \ {m} ELSE marks \cup {m}
            /\ Return(cur)
       ELSE Return(Null) /\ UNCHANGED marks
    /\ Pop
    /\ UNCHANGED <<body, functions, code, val, cache, allocs, stale>>

\* whr() of the scrutinee does nothing: values are not redexes
Match ==
    /\ Ready({"match"})
    /\ LET i == CaseOf(Top.e, cur.v)
       IN  \/ /\ i = 0
              /\ Return(Null) /\ Pop /\ UNCHANGED val
           \/ /\ i # 0 /\ Top.e.a[i].c = "default"
              /\ Eval(Top.e.kids[i + 1]) /\ Pop /\ UNCHANGED val
           \/ /\ i # 0 /\ Top.e.a[i].c # "default"
              /\ RunBody(Top.e.a[i].xs, cur.args, Top.e.kids[i + 1], Top.uc)
    /\ UNCHANGED <<body, functions, code, marks, cache, allocs, stale>>

\* the head is a constructor: build the application
BuildApp ==
    /\ Ready({"con"})
    /\ New(AppVal(Top.e.a, Denoted(Results)), Results) /\ Pop
    /\ UNCHANGED <<body, functions, code, val, marks, cache, stale>>

\* the head is a program: its parameters are stored before the cache is
\* consulted, and neither a hit nor a program called from a function puts the
\* previous values back
Key == <<Top.e.a, Results>>

\* A faulty Call: the cache is not consulted.
CallUncached ==
    /\ Ready({"call"})
    /\ Top.e.a \in functions \/ ~Top.uc
    /\ RunBody(Params[Top.e.a], Results, body[Top.e.a], Top.e.a \in functions)
    /\ UNCHANGED <<body, functions, code, marks, cache, allocs, stale>>

Call ==
    /\ Ready({"call"})
    /\ Top.e.a \in functions => Key \notin DOMAIN cache
    /\ Top.e.a \in functions \/ ~Top.uc
    /\ RunBody(Params[Top.e.a], Results, body[Top.e.a], Top.e.a \in functions)
    /\ UNCHANGED <<body, functions, code, marks, cache, allocs, stale>>

\* the parameters stay bound
LeaveBound(r) ==
    /\ val' = Store(val, Params[Top.e.a], Results)
    /\ stale' = stale \cup {x \in Var : \E i \in DOMAIN Params[Top.e.a] : Params[Top.e.a][i] = x}
    /\ Return(r) /\ Pop
    /\ UNCHANGED <<body, functions, code, marks, cache, allocs>>

CacheHit ==
    /\ Ready({"call"}) /\ Top.e.a \in functions /\ Key \in DOMAIN cache
    /\ LeaveBound(cache[Key])

ProgramInFunction ==
    /\ Ready({"call"}) /\ Top.e.a \notin functions /\ Top.uc
    /\ LeaveBound(Null)

\* A faulty BodyDone: a call that fails returns without putting the values back.
BodyFailedBound ==
    /\ mode = "ret" /\ stack # <<>> /\ Top.body
    /\ val' = IF cur = Null THEN val ELSE Store(val, Top.xs, Top.old)
    /\ cache' = IF Top.e.op = "call" /\ Top.e.a \in functions /\ cur # Null
                THEN [k \in DOMAIN cache \cup {<<Top.e.a, Top.rs>>} |->
                        IF k = <<Top.e.a, Top.rs>> THEN cur ELSE cache[k]]
                ELSE cache
    /\ Return(cur) /\ Pop
    /\ UNCHANGED <<body, functions, code, marks, allocs, stale>>

\* A faulty BodyDone: a recursive call leaves its parameters as they are.
BodyRecursiveBound ==
    /\ mode = "ret" /\ stack # <<>> /\ Top.body
    /\ val' = IF \E i \in 1..(Len(stack) - 1) : stack[i].e.op = "call" /\ stack[i].xs = Top.xs
              THEN val ELSE Store(val, Top.xs, Top.old)
    /\ cache' = IF Top.e.op = "call" /\ Top.e.a \in functions /\ cur # Null
                THEN [k \in DOMAIN cache \cup {<<Top.e.a, Top.rs>>} |->
                        IF k = <<Top.e.a, Top.rs>> THEN cur ELSE cache[k]]
                ELSE cache
    /\ Return(cur) /\ Pop
    /\ UNCHANGED <<body, functions, code, marks, allocs, stale>>

\* the body of a let, a case or a program has been run: put the values back,
\* and cache the result of a function
BodyDone ==
    /\ mode = "ret" /\ stack # <<>> /\ Top.body
    /\ val' = Store(val, Top.xs, Top.old)
    /\ cache' = IF Top.e.op = "call" /\ Top.e.a \in functions /\ cur # Null
                THEN [k \in DOMAIN cache \cup {<<Top.e.a, Top.rs>>} |->
                        IF k = <<Top.e.a, Top.rs>> THEN cur ELSE cache[k]]
                ELSE cache
    /\ Return(cur) /\ Pop
    /\ UNCHANGED <<body, functions, code, marks, allocs, stale>>

\* run_code() returns; the cache is destroyed
RunCodeReturns ==
    /\ mode = "ret" /\ stack = <<>>
    /\ mode' = "done"
    /\ cache' = <<>>
    /\ UNCHANGED <<body, functions, code, val, marks, allocs, stack, cur, useCache, stale>>

Init ==
    /\ \E sig \in Signatures :
          body = sig.body /\ functions = sig.functions /\ code \in sig.codes
    /\ val = [x \in Var |-> None]
    /\ marks = StartMarks
    /\ cache = <<>>
    /\ allocs = 0
    /\ stack = <<>>
    /\ mode = "eval"
    /\ cur = code
    /\ useCache = FALSE
    /\ stale = {}

Next ==
    \/ Leaf \/ Enter \/ IfMarkedInFunction \/ KidFails \/ NextKid
    \/ Do \/ Let \/ Number \/ Conditional \/ MarkVar \/ Match \/ BuildApp
    \/ Call \/ CacheHit \/ ProgramInFunction \/ BodyDone \/ RunCodeReturns

Spec == Init /\ [][Next]_vars

\* run_code() is one thread that keeps running
FairSpec == Spec /\ WF_vars(Next)

-----------------------------------------------------------------------------
(* Correctness *)

\* The activation frames are well formed: an activation that waits for its body
\* has saved as many values as it has bound variables, and has run its kids.
TypeOK ==
    /\ DOMAIN val = Var
    /\ mode \in {"eval", "ret", "done"}
    /\ useCache \in BOOLEAN
    /\ stale \subseteq Var
    /\ \A i \in DOMAIN stack :
          /\ DOMAIN stack[i].xs = DOMAIN stack[i].old
          /\ \A j \in DOMAIN stack[i].xs : stack[i].xs[j] \in Var
          /\ stack[i].body => Len(stack[i].rs) = Strict(stack[i].e)
          /\ Len(stack[i].rs) <= Strict(stack[i].e)

\* The variable x is bound by an activation above i.
Rebound(x, i) ==
    \E j \in (i + 1)..Len(stack) : stack[j].body /\ \E k \in DOMAIN stack[j].xs : stack[j].xs[k] = x

\* While the body of a program, a let or a case runs and no activation above it
\* has rebound its variables, they hold what it bound them to: no call that has
\* returned, recursive or failed, has changed them.
ArgsIntact ==
    \A i \in DOMAIN stack : stack[i].body =>
        \A k \in DOMAIN stack[i].xs :
            LET x == stack[i].xs[k]
            IN  (x \notin stale /\ ~Rebound(x, i)) =>
                  val[x] = CASE stack[i].e.op = "call" -> stack[i].rs[k]
                             [] stack[i].e.op = "let" -> stack[i].rs[1]
                             [] stack[i].e.op = "match" -> stack[i].rs[1].args[k]

\* The assertion in ExprTrie::setData: by the time a function returns, no call
\* made from its body has cached a result for the same arguments.
CachedOnce ==
    mode = "ret" /\ stack # <<>> /\ Top.body /\ cur # Null
      /\ Top.e.op = "call" /\ Top.e.a \in functions
    => <<Top.e.a, Top.rs>> \notin DOMAIN cache

\* When run_code() returns, no variable is bound, whichever way it failed.
ValsRestored ==
    mode = "done" => \A x \in Var \ stale : val[x] = None
=============================================================================
