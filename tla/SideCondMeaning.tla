--------------------------- MODULE SideCondMeaning ---------------------------
(***************************************************************************)
(* What run_code() promises: it returns what the code means.  The meaning  *)
(* of code is the relation Sem, given by one rule for each way in which    *)
(* code can end.  Environments map variables to what they denote; a call   *)
(* has an environment of its own, in which only its parameters are bound,  *)
(* and there are no activations, addresses or caches.                      *)
(*                                                                         *)
(* The rules do not fix Sem: they hold of the least relation that is       *)
(* closed under them, in which code means what can be derived, and of all  *)
(* larger ones.  MCSideCond takes for Sem what a recursive definition      *)
(* computes, and SideCondMeaningProofs any relation that is closed.        *)
(***************************************************************************)
EXTENDS SideCond

CONSTANTS
    Sem(_, _, _, _, _, _, _),
        \* Sem(ps, e, env, mk, fn, r, mk2): with the programs ps, the code e may
        \* evaluate to r in the environment env, and turn the marks mk into mk2;
        \* fn holds in the body of a function
    Free(_),  \* the variables that occur in code and that it does not bind
    Objects,  \* the objects of the signatures
    Arity     \* how many arguments each constructor has

\* the variables that e binds in its i-th kid
BoundIn(e, i) ==
    IF e.op = "let" /\ i = 2 THEN {e.a}
    ELSE IF e.op = "match" /\ i > 1 THEN Range(e.a[i - 1].xs)
    ELSE {}

\* read_code() looks an identifier up in the symbol table when it reads it, so it
\* finds the variables of the enclosing code, and a program has no enclosing code
Scoped(C) ==
    /\ \A e \in C :
          /\ Free(e) \subseteq Var
          /\ e.op = "var" => e.a \in Free(e)
          /\ \A i \in DOMAIN e.kids : Free(e.kids[i]) \ BoundIn(e, i) \subseteq Free(e)
    /\ \A sig \in Signatures, p \in Prog : Free(sig.body[p]) \subseteq Range(Params[p])

\* an object is a value, and its arguments, which collect_args() finds, denote the
\* arguments of what it denotes; a constructor of the code has all of them, as it
\* has in a value that is not a function
Fits(o, S) ==
    /\ o.v \notin {NullVal, NoVal}
    /\ o.v.t = "sym" /\ o.v.s \in DOMAIN Arity => Arity[o.v.s] = 0
    /\ o.v.t = "app" /\ o.v.s \in DOMAIN Arity =>
          \A k \in 1..Arity[o.v.s] : o.args[k] \in S /\ o.args[k].v = o.v.args[k]

\* check_code() counts the arguments of a constructor, and those of a pattern that
\* is an application; a pattern that is a bare constructor is taken to be one without
\* arguments.  The default of a match binds nothing
FullyApplied(C) ==
    \A e \in C :
        /\ e.op = "con" => e.a \in DOMAIN Arity /\ Len(e.kids) = Arity[e.a]
        /\ e.op = "match" =>
              \A i \in DOMAIN e.a :
                  IF e.a[i].c = "default" THEN e.a[i].xs = <<>>
                  ELSE e.a[i].c \in DOMAIN Arity /\ Len(e.a[i].xs) = Arity[e.a[i].c]

\* S holds the objects that occur in the code C and what they are made of
ObjectsOf(C, S) ==
    /\ \A o \in S : Fits(o, S)
    /\ \A e \in C : e.op = "lit" => ObjectOf(e) \in S

ASSUME ScopeAssumption == Scoped(Pieces)
ASSUME ArityAssumption ==
    /\ DOMAIN Arity \cap Var = {} /\ \A c \in DOMAIN Arity : Arity[c] \in Nat
    /\ FullyApplied(Pieces)
ASSUME ObjectsAssumption == ObjectsOf(Pieces, Objects)

-----------------------------------------------------------------------------
(* The rules *)

\* e fails if its i-th strict kid gives r
Stops(e, i, r) == r = NullVal \/ (e.op = "compare" /\ i = 1 /\ ~IsSym(r))

\* the first strict kids of e give the results rs, one after the other; ms[i] are
\* the marks after i kids
KidsGive(ps, e, rs, env, mk, fn, mk2) ==
    \E ms : /\ ms[0] = mk /\ ms[Len(rs)] = mk2
            /\ \A i \in 1..Len(rs) :
                  /\ Sem(ps, e.kids[i], env, ms[i - 1], fn, rs[i], ms[i])
                  /\ ~Stops(e, i, rs[i])

\* the marks after markvar
Toggled(mk, m) == IF m \in mk THEN mk \ {m} ELSE mk \cup {m}

\* after its strict kids have given rs, e may evaluate to r
Concludes(ps, e, rs, env, mk, fn, r, mk2) ==
    LET run(k, en, f) == Sem(ps, k, en, mk, f, r, mk2)
        gives(v) == r = v /\ mk2 = mk
    IN  \/ e.op = "do" /\ run(e.kids[2], env, fn)
        \/ e.op = "let" /\ run(e.kids[2], Store(env, <<e.a>>, rs), fn)
        \/ e.op \in {"add", "mul", "div"} /\ gives(Arith(e.op, rs[1], rs[2]))
        \/ e.op = "neg" /\ gives(Negated(rs[1]))
        \/ e.op = "to_q" /\ gives(ToRational(rs[1]))
        \/ /\ e.op \in Conditionals
           /\ LET b == Branch(e, rs, mk)
              IN  (b = 0 /\ gives(NullVal)) \/ (b # 0 /\ run(e.kids[b], env, fn))
        \/ e.op = "markvar" /\ ~IsSym(rs[1]) /\ gives(NullVal)
        \/ e.op = "markvar" /\ IsSym(rs[1]) /\ r = rs[1] /\ mk2 = Toggled(mk, <<e.a, rs[1].s>>)
        \/ /\ e.op = "match"
           /\ LET i == CaseOf(e, rs[1])
              IN  \/ i = 0 /\ gives(NullVal)
                  \/ i # 0 /\ e.a[i].c = "default" /\ run(e.kids[i + 1], env, fn)
                  \/ /\ i # 0 /\ e.a[i].c # "default"
                     /\ run(e.kids[i + 1], Store(env, e.a[i].xs, rs[1].args), fn)
        \/ e.op = "con" /\ gives(AppVal(e.a, rs))
        \/ /\ e.op = "call"
           /\ \/ fn /\ e.a \notin ps.functions /\ gives(NullVal)
              \/ /\ fn => e.a \in ps.functions
                 /\ run(ps.body[e.a], Store(NoVals, ps.params[e.a], rs), e.a \in ps.functions)

\* code that ends at once
Immediate(e, env, fn, r) ==
    \/ e.op = "lit" /\ r = ObjectOf(e).v
    \/ e.op = "var" /\ r = IF env[e.a] = NoVal THEN SymVal(e.a) ELSE env[e.a]
    \/ e.op = "fail" /\ r = NullVal
    \/ e.op = "ifmarked" /\ fn /\ r = NullVal

\* Sem is closed under the rules: code ends at once, or a strict kid stops it, or
\* it concludes from the results of its strict kids
SemRules ==
    \A e \in Pieces : \A ps, env, mk, fn :
        /\ \A r : Immediate(e, env, fn, r) => Sem(ps, e, env, mk, fn, r, mk)
        /\ (e.op \notin Leaves /\ ~(e.op = "ifmarked" /\ fn)) =>
              \A rs, mk1 : KidsGive(ps, e, rs, env, mk, fn, mk1) =>
                  /\ \A r, mk2 :
                        /\ Len(rs) < Strict(e)
                        /\ Sem(ps, e.kids[Len(rs) + 1], env, mk1, fn, r, mk2)
                        /\ Stops(e, Len(rs) + 1, r)
                        => Sem(ps, e, env, mk, fn, NullVal, mk2)
                  /\ \A r, mk2 :
                        /\ Len(rs) = Strict(e)
                        /\ Concludes(ps, e, rs, env, mk1, fn, r, mk2)
                        => Sem(ps, e, env, mk, fn, r, mk2)

-----------------------------------------------------------------------------
Ps == [body |-> body, params |-> Params, functions |-> functions]

\* run_code() returns what the code means, and leaves the marks it should,
\* unless a cached or refused call has left a parameter bound.
ReturnsMeaning ==
    mode = "done" /\ stale = {} => Sem(Ps, code, NoVals, StartMarks, FALSE, cur.v, marks)
=============================================================================
