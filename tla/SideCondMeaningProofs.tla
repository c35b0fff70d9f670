------------------------ MODULE SideCondMeaningProofs ------------------------
(***************************************************************************)
(* run_code() returns what the code means, for every relation that is      *)
(* closed under the rules of SideCondMeaning, so also for the least one.   *)
(*                                                                         *)
(* Every activation on the C++ stack has a goal: the environment and the   *)
(* marks with which its code was entered.  What the goal of an activation  *)
(* means is what the activation below it is waiting for; the environment   *)
(* agrees with what the activations below have bound, on the variables     *)
(* that occur in the code.  So a result that meets the goal of the top     *)
(* activation meets, activation by activation, the goal of run_code().     *)
(***************************************************************************)
EXTENDS SideCondMeaning, SideCondProofs

\* o is an object that is made of objects
IsObject(o) == \E S : o \in S /\ \A q \in S : Fits(q, S)

\* r and mk meet the goal g of the activation f
Meets(ps, f, g, r, mk) == Sem(ps, f.e, g.env, g.mk, f.uc, r, mk)

\* r and mk are what the n-th activation is waiting for, and run_code() below it
Awaited(ps, cd, st, K, n, r, mk) ==
    IF n = 0 THEN Sem(ps, cd, NoVals, StartMarks, FALSE, r, mk)
    ELSE IF st[n].body THEN Meets(ps, st[n], K[n], r, mk)
    ELSE \E mk1 : /\ KidsGive(ps, st[n].e, Denoted(st[n].rs), K[n].env, K[n].mk, st[n].uc, mk1)
                  /\ Sem(ps, st[n].e.kids[Len(st[n].rs) + 1], K[n].env, mk1, st[n].uc, r, mk)

\* ifmarked is not entered in a function, and a kid is run only if there is one
Proper(f) == ~(f.e.op = "ifmarked" /\ f.uc) /\ (f.body \/ Len(f.rs) < Strict(f.e))

\* K has a goal for every activation
Goals(ps, cd, st, K) ==
    \A i \in 1..Len(st) :
        /\ \A r, mk : Meets(ps, st[i], K[i], r, mk) => Awaited(ps, cd, st, K, i - 1, r, mk)
        /\ \A x \in Free(st[i].e) : \A v : IsBelow(st, i - 1, x, v) => K[i].env[x] = v.v
        /\ Proper(st[i])

\* g is a goal for the activation f on top of st
GoalFor(ps, cd, st, K, f, g) ==
    /\ Goals(ps, cd, st, K)
    /\ \A r, mk : Meets(ps, f, g, r, mk) => Awaited(ps, cd, st, K, Len(st), r, mk)
    /\ \A x \in Free(f.e) : \A v : IsBelow(st, Len(st), x, v) => g.env[x] = v.v
    /\ Proper(f)

\* the environment env says what the variables of e hold
Agrees(e, env, vl) == \A x \in Free(e) : env[x] = vl[x].v

\* the code or the result that run_code_internal() is at leads to the top's goal
OnCourse(ps, cd, st, K, md, c, uc, vl, mk) ==
    /\ md = "eval" =>
          \E env : /\ Agrees(c, env, vl)
                   /\ \A r, mk2 : Sem(ps, c, env, mk, uc, r, mk2) =>
                                    Awaited(ps, cd, st, K, Len(st), r, mk2)
    /\ md # "eval" => /\ Awaited(ps, cd, st, K, Len(st), c.v, mk)
                      /\ c = Null \/ IsObject(c)

\* variables and activations hold objects
OrNone(o) == o = None \/ IsObject(o)
Holds(f) ==
    /\ \A j \in 1..Len(f.rs) : IsObject(f.rs[j])
    /\ \A k \in DOMAIN f.old : OrNone(f.old[k])
Values(st, vl) == (\A x \in Var : OrNone(vl[x])) /\ \A i \in 1..Len(st) : Holds(st[i])

Course ==
    /\ Values(stack, val)
    /\ \E K : /\ Goals(Ps, code, stack, K)
              /\ OnCourse(Ps, code, stack, K, mode, cur, useCache, val, marks)

Meant ==
    /\ \A p \in Prog : Free(body[p]) \subseteq Range(Params[p])
    /\ stale = {} => Course

-----------------------------------------------------------------------------
(* Objects *)

LEMMA ObjectFacts ==
    ASSUME NEW o, IsObject(o)
    PROVE  /\ o.v # NullVal /\ o.v # NoVal
           /\ o.v.t = "sym" /\ o.v.s \in DOMAIN Arity => Arity[o.v.s] = 0
           /\ o.v.t = "app" /\ o.v.s \in DOMAIN Arity =>
                 \A k \in 1..Arity[o.v.s] : IsObject(o.args[k]) /\ o.args[k].v = o.v.args[k]
<1>1. PICK S : o \in S /\ \A q \in S : Fits(q, S)
  BY DEF IsObject
<1>2. Fits(o, S)
  BY <1>1
<1>3. \A q \in S : IsObject(q)
  BY <1>1, Zenon DEF IsObject
<1> QED
  BY <1>2, <1>3 DEF Fits

\* the objects of the signatures, and symbols
LEMMA Given ==
    ASSUME NEW o \in Objects
    PROVE  IsObject(o)
  BY ObjectsAssumption, Zenon DEF IsObject, ObjectsOf

\* an object without arguments
LEMMA Plain ==
    ASSUME NEW o, o.v # NullVal, o.v # NoVal,
           o.v.t = "sym" /\ o.v.s \in DOMAIN Arity => Arity[o.v.s] = 0,
           o.v.t # "app"
    PROVE  IsObject(o)
<1>1. Fits(o, {o})
  BY DEF Fits
<1>2. \A q \in {o} : Fits(q, {o})
  BY <1>1
<1> QED
  BY <1>2, Zenon DEF IsObject

\* an application of a constructor to objects
LEMMA Built ==
    ASSUME NEW c \in DOMAIN Arity, NEW rs, NEW n,
           1..Arity[c] \subseteq DOMAIN rs, \A k \in 1..Arity[c] : IsObject(rs[k])
    PROVE  IsObject(Obj(AppVal(c, Denoted(rs)), n, rs))
<1> DEFINE o == Obj(AppVal(c, Denoted(rs)), n, rs)
           H(k) == CHOOSE S : rs[k] \in S /\ \A q \in S : Fits(q, S)
           T == (UNION {H(k) : k \in 1..Arity[c]}) \cup {o}
<1>1. ASSUME NEW k \in 1..Arity[c] PROVE rs[k] \in H(k) /\ \A q \in H(k) : Fits(q, H(k))
  BY <1>1, Zenon DEF IsObject
<1>2. \A k \in 1..Arity[c] : H(k) \subseteq T
  OBVIOUS
<1>3. o \in T /\ \A q \in T : q = o \/ \E k \in 1..Arity[c] : q \in H(k)
  OBVIOUS
<1>4. /\ o.v.t = "app" /\ o.v.s = c /\ o.args = rs /\ o.v.args = Denoted(rs)
      /\ o.v # NullVal /\ o.v # NoVal
  BY DEF Obj, AppVal, NullVal, NoVal, None
<1> HIDE DEF o, H, T
<1>5. Fits(o, T)
  <2>1. \A k \in 1..Arity[c] : rs[k] \in T
    BY <1>1, <1>2
  <2>2. \A k \in 1..Arity[c] : Denoted(rs)[k] = rs[k].v
    BY DEF Denoted
  <2> QED
    BY <1>4, <2>1, <2>2 DEF Fits
<1>6. ASSUME NEW k \in 1..Arity[c], NEW q \in H(k) PROVE Fits(q, T)
  <2>1. Fits(q, H(k)) /\ H(k) \subseteq T
    BY <1>1, <1>2
  <2> QED
    BY <2>1 DEF Fits
<1>7. \A q \in T : Fits(q, T)
  BY <1>3, <1>5, <1>6
<1>8. IsObject(o)
  BY <1>3, <1>7, Zenon DEF IsObject
<1> QED
  BY <1>8 DEF o
-----------------------------------------------------------------------------
(* Results of kids *)

LEMMA DenotedFacts ==
    ASSUME NEW s, IsSeq(s)
    PROVE  /\ Len(s) \in Nat /\ DOMAIN s = 1..Len(s) /\ Len(Denoted(s)) = Len(s)
           /\ \A i \in 1..Len(s) : Denoted(s)[i] = s[i].v
<1>1. PICK S : s \in Seq(S)
  BY DEF IsSeq
<1>2. Len(s) \in Nat /\ DOMAIN s = 1..Len(s)
  BY <1>1
<1> DEFINE T == {s[i].v : i \in 1..Len(s)}
<1>3. Denoted(s) = [i \in 1..Len(s) |-> s[i].v]
  BY <1>2 DEF Denoted
<1>4. Denoted(s) \in Seq(T) /\ Len(Denoted(s)) = Len(s)
  BY <1>2, <1>3
<1> QED
  BY <1>2, <1>3, <1>4

\* one more kid gives a result
LEMMA KidsAppend ==
    ASSUME NEW ps, NEW e, NEW rs, IsSeq(rs), NEW r, NEW env, NEW mk, NEW fn, NEW mk1, NEW mk2,
           KidsGive(ps, e, Denoted(rs), env, mk, fn, mk1),
           Sem(ps, e.kids[Len(rs) + 1], env, mk1, fn, r.v, mk2),
           ~Stops(e, Len(rs) + 1, r.v)
    PROVE  KidsGive(ps, e, Denoted(Append(rs, r)), env, mk, fn, mk2)
<1> DEFINE n == Len(rs)
           t == Append(rs, r)
<1>1. /\ IsSeq(t) /\ n \in Nat /\ Len(t) = n + 1
      /\ \A i \in 1..n : t[i] = rs[i]
      /\ t[n + 1] = r
  BY AppendFacts
<1>2. Len(Denoted(rs)) = n /\ \A i \in 1..n : Denoted(rs)[i] = rs[i].v
  BY DenotedFacts
<1> HIDE DEF t
<1>3. Len(Denoted(t)) = n + 1 /\ \A i \in 1..(n + 1) : Denoted(t)[i] = t[i].v
  BY <1>1, DenotedFacts
<1> HIDE DEF n
<1>4. PICK ms : /\ ms[0] = mk /\ ms[n] = mk1
                /\ \A i \in 1..n :
                      /\ Sem(ps, e.kids[i], env, ms[i - 1], fn, Denoted(rs)[i], ms[i])
                      /\ ~Stops(e, i, Denoted(rs)[i])
  BY <1>2, Zenon DEF KidsGive
<1> DEFINE ns == [i \in 0..(n + 1) |-> IF i = n + 1 THEN mk2 ELSE ms[i]]
<1>5. ns[0] = mk /\ ns[n + 1] = mk2 /\ ns[n] = mk1 /\ \A i \in 0..n : ns[i] = ms[i]
  BY <1>1, <1>4
<1> HIDE DEF ns
<1>6. ASSUME NEW i \in 1..(n + 1)
      PROVE  /\ Sem(ps, e.kids[i], env, ns[i - 1], fn, Denoted(t)[i], ns[i])
             /\ ~Stops(e, i, Denoted(t)[i])
  <2>1. CASE i = n + 1
    <3>1. i - 1 = n /\ Denoted(t)[i] = r.v
      BY <1>1, <1>3, <2>1
    <3>2. Sem(ps, e.kids[n + 1], env, mk1, fn, r.v, mk2) /\ ~Stops(e, n + 1, r.v)
      BY DEF n
    <3> QED
      BY <3>1, <3>2, <2>1, <1>5
  <2>2. CASE i # n + 1
    <3>1. i \in 1..n /\ i - 1 \in 0..n /\ i \in 0..n
      BY <1>1, <2>2
    <3>2. Denoted(t)[i] = Denoted(rs)[i]
      BY <3>1, <1>1, <1>2, <1>3
    <3>3. ns[i - 1] = ms[i - 1] /\ ns[i] = ms[i]
      BY <3>1, <1>5
    <3> QED
      BY <3>1, <3>2, <3>3, <1>4
  <2> QED
    BY <2>1, <2>2
<1>7. KidsGive(ps, e, Denoted(t), env, mk, fn, mk2)
  BY <1>3, <1>5, <1>6, Zenon DEF KidsGive
<1> QED
  BY <1>7 DEF t

\* no kid has given a result yet
LEMMA KidsNone ==
    ASSUME NEW ps, NEW e, NEW env, NEW mk, NEW fn
    PROVE  KidsGive(ps, e, Denoted(<<>>), env, mk, fn, mk)
<1> DEFINE ms == [i \in {0} |-> mk]
<1>1. IsSeq(<<>>) /\ Len(<<>>) = 0
  <2>1. <<>> \in Seq({})
    OBVIOUS
  <2> QED
    BY <2>1, Zenon DEF IsSeq
<1>2. Len(Denoted(<<>>)) = 0
  BY <1>1, DenotedFacts
<1>3. ms[0] = mk /\ \A i \in 1..0 : FALSE
  OBVIOUS
<1> HIDE DEF ms
<1> QED
  BY <1>2, <1>3, Zenon DEF KidsGive

-----------------------------------------------------------------------------
(* Goals *)

\* what is below an activation is unique
LEMMA BelowUnique ==
    ASSUME NEW st, NEW n \in Nat, NEW x, NEW v, NEW w, IsBelow(st, n, x, v), IsBelow(st, n, x, w)
    PROVE  v = w
<1>1. CASE \A i \in 1..n : ~Binds(st[i], x)
  BY <1>1 DEF IsBelow
<1>2. CASE \E i \in 1..n : Binds(st[i], x)
  <2>1. PICK i \in 1..n : /\ Binds(st[i], x) /\ v = BoundTo(st[i], x)
                          /\ \A j \in (i + 1)..n : ~Binds(st[j], x)
    BY <1>2 DEF IsBelow
  <2>2. PICK k \in 1..n : /\ Binds(st[k], x) /\ w = BoundTo(st[k], x)
                          /\ \A j \in (k + 1)..n : ~Binds(st[j], x)
    BY <1>2 DEF IsBelow
  <2>3. k \notin (i + 1)..n /\ i \notin (k + 1)..n
    BY <2>1, <2>2
  <2>4. i = k
    BY <2>3
  <2> QED
    BY <2>1, <2>2, <2>4
<1> QED
  BY <1>1, <1>2

\* The top activation ends.
LEMMA GoalsFront ==
    ASSUME NEW ps, NEW cd, NEW st, IsSeq(st), st # <<>>, NEW K, Goals(ps, cd, st, K)
    PROVE  GoalFor(ps, cd, Front(st), K, st[Len(st)], K[Len(st)])
<1> DEFINE tt == Front(st)
           n == Len(st)
<1>1. n \in Nat \ {0} /\ Len(tt) = n - 1 /\ \A i \in 1..(n - 1) : tt[i] = st[i]
  BY FrontFacts
<1>2. \A i \in 1..n :
        /\ \A r, mk : Meets(ps, st[i], K[i], r, mk) => Awaited(ps, cd, st, K, i - 1, r, mk)
        /\ \A x \in Free(st[i].e) : \A v : IsBelow(st, i - 1, x, v) => K[i].env[x] = v.v
        /\ Proper(st[i])
  BY DEF Goals
<1> HIDE DEF tt, n
<1>3. ASSUME NEW i \in 1..n
      PROVE  /\ \A r, mk : Meets(ps, st[i], K[i], r, mk) => Awaited(ps, cd, tt, K, i - 1, r, mk)
             /\ \A x \in Free(st[i].e) : \A v : IsBelow(tt, i - 1, x, v) => K[i].env[x] = v.v
             /\ Proper(st[i])
  <2>1. i - 1 \in Nat /\ (i - 1 # 0 => i - 1 \in 1..(n - 1)) /\ \A j \in 1..(i - 1) : j \in 1..(n - 1)
    BY <1>1
  <2>2. i - 1 # 0 => tt[i - 1] = st[i - 1]
    BY <1>1, <2>1
  <2>3. \A r, mk : Awaited(ps, cd, tt, K, i - 1, r, mk) <=> Awaited(ps, cd, st, K, i - 1, r, mk)
    BY <2>2, Zenon DEF Awaited
  <2>4. \A j \in 1..(i - 1) : st[j] = tt[j]
    BY <1>1, <2>1
  <2>5. \A x, v : IsBelow(tt, i - 1, x, v) => IsBelow(st, i - 1, x, v)
    BY <2>1, <2>4, BelowSame
  <2> QED
    BY <1>2, <2>3, <2>5, Zenon
<1>4. Goals(ps, cd, tt, K)
  <2>1. \A i \in 1..(n - 1) : i \in 1..n /\ tt[i] = st[i]
    BY <1>1
  <2> QED
    BY <1>1, <1>3, <2>1 DEF Goals
<1>5. n \in 1..n
  BY <1>1
<1>6. GoalFor(ps, cd, tt, K, st[n], K[n])
  BY <1>1, <1>3, <1>4, <1>5, Zenon DEF GoalFor
<1> QED
  BY <1>6 DEF tt, n

\* An activation is put on top, with its goal.
LEMMA GoalsAppend ==
    ASSUME NEW ps, NEW cd, NEW st, IsSeq(st), NEW K, NEW f, NEW g, GoalFor(ps, cd, st, K, f, g)
    PROVE  \E L : Goals(ps, cd, Append(st, f), L) /\ L[Len(st) + 1] = g
<1> DEFINE tt == Append(st, f)
           n == Len(st)
           L == [i \in 1..(n + 1) |-> IF i = n + 1 THEN g ELSE K[i]]
<1>1. n \in Nat /\ Len(tt) = n + 1 /\ (\A i \in 1..n : tt[i] = st[i]) /\ tt[n + 1] = f
  BY AppendFacts
<1>2. /\ \A r, mk : Meets(ps, f, g, r, mk) => Awaited(ps, cd, st, K, n, r, mk)
      /\ \A x \in Free(f.e) : \A v : IsBelow(st, n, x, v) => g.env[x] = v.v
      /\ Proper(f)
  BY DEF GoalFor
<1>3. \A i \in 1..n :
        /\ \A r, mk : Meets(ps, st[i], K[i], r, mk) => Awaited(ps, cd, st, K, i - 1, r, mk)
        /\ \A x \in Free(st[i].e) : \A v : IsBelow(st, i - 1, x, v) => K[i].env[x] = v.v
        /\ Proper(st[i])
  BY DEF GoalFor, Goals
<1>4. L[n + 1] = g /\ \A i \in 1..n : L[i] = K[i]
  BY <1>1
<1> HIDE DEF tt, n, L
<1>5. ASSUME NEW i \in 1..(n + 1)
      PROVE  /\ \A r, mk : Meets(ps, tt[i], L[i], r, mk) => Awaited(ps, cd, tt, L, i - 1, r, mk)
             /\ \A x \in Free(tt[i].e) : \A v : IsBelow(tt, i - 1, x, v) => L[i].env[x] = v.v
             /\ Proper(tt[i])
  <2>1. i - 1 \in Nat /\ (i - 1 # 0 => i - 1 \in 1..n) /\ \A j \in 1..(i - 1) : j \in 1..n
    BY <1>1
  <2>2. i - 1 # 0 => tt[i - 1] = st[i - 1] /\ L[i - 1] = K[i - 1]
    BY <1>1, <1>4, <2>1
  <2>3. \A r, mk : Awaited(ps, cd, tt, L, i - 1, r, mk) <=> Awaited(ps, cd, st, K, i - 1, r, mk)
    BY <2>2, Zenon DEF Awaited
  <2>4. \A j \in 1..(i - 1) : st[j] = tt[j]
    BY <1>1, <2>1
  <2>5. \A x, v : IsBelow(tt, i - 1, x, v) => IsBelow(st, i - 1, x, v)
    BY <2>1, <2>4, BelowSame
  <2>6. CASE i = n + 1
    <3>1. i - 1 = n /\ tt[i] = f /\ L[i] = g
      BY <1>1, <1>4, <2>6
    <3> QED
      BY <3>1, <1>2, <2>3, <2>5, Zenon
  <2>7. CASE i # n + 1
    <3>1. i \in 1..n
      BY <1>1, <2>7
    <3>2. tt[i] = st[i] /\ L[i] = K[i]
      BY <3>1, <1>1, <1>4
    <3>3. /\ \A r, mk : Meets(ps, st[i], K[i], r, mk) => Awaited(ps, cd, st, K, i - 1, r, mk)
          /\ \A x \in Free(st[i].e) : \A v : IsBelow(st, i - 1, x, v) => K[i].env[x] = v.v
          /\ Proper(st[i])
      BY <3>1, <1>3
    <3> QED
      BY <3>2, <3>3, <2>3, <2>5, Zenon
  <2> QED
    BY <2>6, <2>7
<1>6. Goals(ps, cd, tt, L)
  BY <1>1, <1>5 DEF Goals
<1> QED
  BY <1>4, <1>6 DEF tt, n

-----------------------------------------------------------------------------
(* Steps *)

LEMMA ValuesFront ==
    ASSUME NEW st, IsSeq(st), st # <<>>, NEW vl, Values(st, vl),
           NEW wl, \A x \in Var : OrNone(wl[x])
    PROVE  Values(Front(st), wl)
<1>1. /\ Len(st) \in Nat \ {0} /\ Len(Front(st)) = Len(st) - 1
      /\ \A i \in 1..(Len(st) - 1) : Front(st)[i] = st[i]
  BY FrontFacts
<1>2. \A i \in 1..(Len(st) - 1) : i \in 1..Len(st)
  BY <1>1
<1> QED
  BY <1>1, <1>2 DEF Values

LEMMA ValuesAppend ==
    ASSUME NEW st, IsSeq(st), NEW vl, Values(st, vl), NEW f, Holds(f)
    PROVE  Values(Append(st, f), vl)
<1>1. /\ Len(st) \in Nat /\ Len(Append(st, f)) = Len(st) + 1
      /\ (\A i \in 1..Len(st) : Append(st, f)[i] = st[i]) /\ Append(st, f)[Len(st) + 1] = f
  BY AppendFacts
<1>2. \A i \in 1..(Len(st) + 1) : i \in 1..Len(st) \/ i = Len(st) + 1
  BY <1>1
<1> QED
  BY <1>1, <1>2 DEF Values

\* g is the goal of the top activation, and K has goals for the others
AtTop(K, g) == GoalFor(Ps, code, Front(stack), K, Top, g)

\* The top activation returns something that meets its goal.
LEMMA Answers ==
    ASSUME Inv, stack # <<>>, Values(stack, val), NEW K, NEW g, AtTop(K, g),
           Pop, mode' = "ret", UNCHANGED Ps, code' = code,
           \A x \in Var : OrNone(val'[x]),
           Meets(Ps, Top, g, cur'.v, marks'), cur' = Null \/ IsObject(cur')
    PROVE  Course'
<1>1. stack' = Front(stack) /\ IsSeq(stack)
  BY DEF Pop, Inv, Frames
<1>2. Values(stack', val')
  BY <1>1, ValuesFront
<1>3. Awaited(Ps, code, stack', K, Len(stack'), cur'.v, marks')
  BY <1>1 DEF AtTop, GoalFor
<1>4. OnCourse(Ps, code, stack', K, mode', cur', useCache', val', marks')
  BY <1>3 DEF OnCourse
<1>5. Goals(Ps, code, stack', K)
  BY <1>1 DEF AtTop, GoalFor
<1>6. Ps' = Ps
  OBVIOUS
<1> QED
  BY <1>2, <1>4, <1>5, <1>6, Zenon DEF Course

\* The top activation goes on with code that leads to its goal: a goto.
LEMMA Jumps ==
    ASSUME Inv, stack # <<>>, Values(stack, val), NEW K, NEW g, AtTop(K, g),
           Pop, mode' = "eval", UNCHANGED Ps, UNCHANGED <<code, val>>,
           Agrees(cur', g.env, val),
           \A r, mk : Sem(Ps, cur', g.env, marks', Top.uc, r, mk) => Meets(Ps, Top, g, r, mk)
    PROVE  Course'
<1>1. stack' = Front(stack) /\ useCache' = Top.uc /\ IsSeq(stack)
  BY DEF Pop, Inv, Frames
<1>2. Values(stack', val')
  BY <1>1, ValuesFront DEF Values
<1>3. \A r, mk : Sem(Ps, cur', g.env, marks', useCache', r, mk) =>
                  Awaited(Ps, code, stack', K, Len(stack'), r, mk)
  BY <1>1 DEF AtTop, GoalFor
<1>4. OnCourse(Ps, code, stack', K, mode', cur', useCache', val', marks')
  BY <1>3 DEF OnCourse
<1>5. Goals(Ps, code, stack', K)
  BY <1>1 DEF AtTop, GoalFor
<1>6. Ps' = Ps
  OBVIOUS
<1> QED
  BY <1>2, <1>4, <1>5, <1>6, Zenon DEF Course

\* what the activation f waits for, if g is its goal
Waits(ps, f, g, r, mk) ==
    IF f.body THEN Meets(ps, f, g, r, mk)
    ELSE \E mk1 : /\ KidsGive(ps, f.e, Denoted(f.rs), g.env, g.mk, f.uc, mk1)
                  /\ Sem(ps, f.e.kids[Len(f.rs) + 1], g.env, mk1, f.uc, r, mk)

\* An activation with a goal is put on a stack with goals, and code is run whose
\* meaning it waits for.
LEMMA Puts ==
    ASSUME NEW st, IsSeq(st), NEW K, NEW f, NEW g, GoalFor(Ps, code, st, K, f, g),
           Values(st, val'), Holds(f),
           stack' = Append(st, f), mode' = "eval", UNCHANGED Ps, code' = code,
           NEW env, Agrees(cur', env, val'),
           \A r, mk : Sem(Ps, cur', env, marks', useCache', r, mk) => Waits(Ps, f, g, r, mk)
    PROVE  Course'
<1> DEFINE n == Len(st)
<1>1. PICK L : Goals(Ps, code, stack', L) /\ L[n + 1] = g
  BY GoalsAppend
<1>2. n \in Nat /\ Len(stack') = n + 1 /\ stack'[n + 1] = f
  BY AppendFacts
<1> HIDE DEF n
<1>3. n + 1 # 0
  BY <1>2
<1>4. \A r, mk : Waits(Ps, f, g, r, mk) => Awaited(Ps, code, stack', L, Len(stack'), r, mk)
  BY <1>1, <1>2, <1>3, Zenon DEF Waits, Awaited
<1>5. OnCourse(Ps, code, stack', L, mode', cur', useCache', val', marks')
  <2>1. \A r, mk : Sem(Ps, cur', env, marks', useCache', r, mk) =>
                   Awaited(Ps, code, stack', L, Len(stack'), r, mk)
    BY <1>4, Zenon
  <2> QED
    BY <2>1, Zenon DEF OnCourse
<1>6. Values(stack', val')
  BY ValuesAppend
<1>7. Ps' = Ps
  OBVIOUS
<1> QED
  BY <1>1, <1>5, <1>6, <1>7, Zenon DEF Course

-----------------------------------------------------------------------------
(* The top activation *)

\* A result has come back to the top activation, which was waiting for it.
LEMMA TopWaits ==
    ASSUME Inv, Course, stack # <<>>, mode # "eval"
    PROVE  /\ Values(stack, val) /\ (cur = Null \/ IsObject(cur))
           /\ \E K, g : AtTop(K, g) /\ Waits(Ps, Top, g, cur.v, marks)
<1> DEFINE n == Len(stack)
<1>1. PICK K : /\ Goals(Ps, code, stack, K)
               /\ OnCourse(Ps, code, stack, K, mode, cur, useCache, val, marks)
  BY DEF Course
<1>2. IsSeq(stack)
  BY DEF Inv, Frames
<1>3. n \in Nat \ {0}
  BY <1>2, FrontFacts
<1>4. AtTop(K, K[n])
  BY <1>1, <1>2, GoalsFront DEF AtTop, Top
<1>5. Awaited(Ps, code, stack, K, n, cur.v, marks) /\ (cur = Null \/ IsObject(cur))
  BY <1>1 DEF OnCourse
<1>6. n # 0
  BY <1>3
<1>7. Top = stack[n]
  BY DEF Top
<1> HIDE DEF n
<1>8. Waits(Ps, Top, K[n], cur.v, marks)
  BY <1>5, <1>6, <1>7, Zenon DEF Waits, Awaited
<1> QED
  BY <1>4, <1>5, <1>8 DEF Course

\* The environment of the top activation says what its variables hold.
LEMMA TopAgrees ==
    ASSUME Inv, stale = {}, stack # <<>>, ~Top.body, NEW K, NEW g, AtTop(K, g)
    PROVE  Agrees(Top.e, g.env, val)
<1> DEFINE n == Len(stack)
           tt == Front(stack)
<1>1. IsSeq(stack) /\ IsFrame(Top) /\ Top = stack[n]
  BY TopFacts DEF Inv, Frames, Top
<1>2. n \in Nat \ {0} /\ Len(tt) = n - 1 /\ \A i \in 1..(n - 1) : tt[i] = stack[i]
  BY <1>1, FrontFacts
<1>3. Free(Top.e) \subseteq Var
  BY <1>1, ScopeAssumption DEF IsFrame, Scoped
<1>4. \A x \in Free(Top.e) : \A v : IsBelow(tt, n - 1, x, v) => g.env[x] = v.v
  BY <1>2 DEF AtTop, GoalFor
<1> SUFFICES ASSUME NEW x \in Free(Top.e) PROVE g.env[x] = val[x].v
  BY DEF Agrees
<1>5. IsBelow(stack, n, x, val[x])
  BY <1>3 DEF Inv, Chain
<1>6. ~Binds(stack[n], x)
  BY <1>1 DEF Binds
<1> HIDE DEF n, tt
<1>7. IsBelow(stack, n - 1, x, val[x]) /\ n - 1 \in Nat
  BY <1>2, <1>5, <1>6, BelowSkip
<1>8. IsBelow(tt, n - 1, x, val[x])
  BY <1>2, <1>7, BelowSame
<1> QED
  BY <1>4, <1>8

\* One more strict kid of the top activation has succeeded.
LEMMA KidRun ==
    ASSUME Inv, stale = {}, Course, mode = "ret", stack # <<>>, ~Top.body, cur # Null,
           ~Stops(Top.e, Len(Results), cur.v)
    PROVE  /\ Values(stack, val) /\ IsObject(cur)
           /\ \A j \in 1..Len(Results) : IsObject(Results[j])
           /\ \E K, g : /\ AtTop(K, g) /\ Agrees(Top.e, g.env, val)
                        /\ KidsGive(Ps, Top.e, Denoted(Results), g.env, g.mk, Top.uc, marks)
<1>1. Values(stack, val) /\ IsObject(cur)
  BY TopWaits
<1>2. PICK K, g : AtTop(K, g) /\ Waits(Ps, Top, g, cur.v, marks)
  BY TopWaits
<1> DEFINE t == Top
           m == Len(t.rs)
<1>3. IsFrame(t) /\ IsSeq(t.rs) /\ m \in Nat /\ Len(Results) = m + 1 /\ Results = Append(t.rs, cur)
  BY TopFacts DEF IsFrame, Results
<1>4. \A j \in 1..Len(Results) : IsObject(Results[j])
  <2>1. t = stack[Len(stack)] /\ Len(stack) \in 1..Len(stack)
    <3>1. Len(stack) \in Nat \ {0}
      BY FrontFacts DEF Inv, Frames
    <3> QED
      BY <3>1 DEF Top
  <2>2. Holds(t)
    BY <1>1, <2>1 DEF Values
  <2> HIDE DEF t
  <2>3. \A j \in 1..m : IsObject(t.rs[j])
    BY <2>2 DEF Holds
  <2>4. (\A j \in 1..m : Results[j] = t.rs[j]) /\ Results[m + 1] = cur
    BY <1>3, AppendFacts
  <2>5. \A j \in 1..(m + 1) : j = m + 1 \/ j \in 1..m
    BY <1>3
  <2> QED
    BY <1>1, <1>3, <2>3, <2>4, <2>5
<1>5. PICK mk1 : /\ KidsGive(Ps, t.e, Denoted(t.rs), g.env, g.mk, t.uc, mk1)
                 /\ Sem(Ps, t.e.kids[m + 1], g.env, mk1, t.uc, cur.v, marks)
  BY <1>2 DEF Waits
<1>6. ~Stops(t.e, m + 1, cur.v)
  BY <1>3
<1> DEFINE P == Ps
<1>7. /\ KidsGive(P, t.e, Denoted(t.rs), g.env, g.mk, t.uc, mk1)
      /\ Sem(P, t.e.kids[m + 1], g.env, mk1, t.uc, cur.v, marks)
  BY <1>5
<1> HIDE DEF t, P
<1>8. KidsGive(P, t.e, Denoted(Append(t.rs, cur)), g.env, g.mk, t.uc, marks)
  BY <1>3, <1>6, <1>7, KidsAppend
<1>9. KidsGive(Ps, Top.e, Denoted(Results), g.env, g.mk, Top.uc, marks)
  BY <1>3, <1>8 DEF P, t
<1>10. Agrees(Top.e, g.env, val)
  BY <1>2, TopAgrees
<1> QED
  BY <1>1, <1>2, <1>4, <1>9, <1>10

\* All strict kids have succeeded: what the code concludes meets the goal.
LEMMA Concluded ==
    ASSUME SemRules, Inv, NEW ops, Ready(ops), NEW K, NEW g, AtTop(K, g),
           KidsGive(Ps, Top.e, Denoted(Results), g.env, g.mk, Top.uc, marks),
           NEW r, NEW mk,
           Concludes(Ps, Top.e, Denoted(Results), g.env, marks, Top.uc, r, mk)
    PROVE  Meets(Ps, Top, g, r, mk)
<1>1. stack # <<>> /\ Len(Results) = Strict(Top.e)
  BY DEF Ready
<1>2. Top.e \in Pieces /\ Top.e.op \notin Leaves /\ IsSeq(Results)
  BY <1>1, TopFacts
<1>3. ~(Top.e.op = "ifmarked" /\ Top.uc)
  BY DEF AtTop, GoalFor, Proper
<1> DEFINE P == Ps
           t == Top
           rs == Denoted(Results)
           M == marks
<1>4. Len(rs) = Strict(t.e)
  BY <1>1, <1>2, DenotedFacts
<1>5. /\ KidsGive(P, t.e, rs, g.env, g.mk, t.uc, M)
      /\ Concludes(P, t.e, rs, g.env, M, t.uc, r, mk)
  OBVIOUS
<1> HIDE DEF P, t, rs, M
<1>6. Sem(P, t.e, g.env, g.mk, t.uc, r, mk)
  BY <1>2, <1>3, <1>4, <1>5 DEF SemRules, t
<1> QED
  BY <1>6 DEF P, t, Meets

\* The top activation's op is ready.
LEMMA ReadyFacts ==
    ASSUME SemRules, Inv, stale = {}, Course, NEW ops, Ready(ops)
    PROVE  /\ Values(stack, val) /\ IsObject(cur) /\ stack # <<>> /\ ~Top.body
           /\ Top.e \in Pieces /\ Top.e.op \in ops /\ Len(Results) = Strict(Top.e) /\ IsSeq(Results)
           /\ \A j \in 1..Len(Results) : IsObject(Results[j]) /\ Denoted(Results)[j] = Results[j].v
           /\ \E K, g : /\ AtTop(K, g) /\ Agrees(Top.e, g.env, val)
                        /\ \A r, mk : Concludes(Ps, Top.e, Denoted(Results), g.env, marks, Top.uc, r, mk)
                                        => Meets(Ps, Top, g, r, mk)
<1>1. /\ mode = "ret" /\ stack # <<>> /\ ~Top.body /\ cur # Null
      /\ Top.e.op \in ops /\ Len(Results) = Strict(Top.e)
  BY DEF Ready
<1>2. Top.e \in Pieces /\ IsSeq(Results)
  BY <1>1, TopFacts
<1>3. cur.v # NullVal
  BY <1>1, TopWaits, ObjectFacts
<1>4. ~Stops(Top.e, Len(Results), cur.v)
  <2>1. Top.e.op = "compare" => Len(Results) = 2
    BY <1>1 DEF Strict
  <2> QED
    BY <1>3, <2>1 DEF Stops
<1>5. /\ Values(stack, val) /\ IsObject(cur)
      /\ \A j \in 1..Len(Results) : IsObject(Results[j])
  BY <1>1, <1>4, KidRun
<1>6. PICK K, g : /\ AtTop(K, g) /\ Agrees(Top.e, g.env, val)
                  /\ KidsGive(Ps, Top.e, Denoted(Results), g.env, g.mk, Top.uc, marks)
  BY <1>1, <1>4, KidRun
<1>7. \A r, mk : Concludes(Ps, Top.e, Denoted(Results), g.env, marks, Top.uc, r, mk)
                    => Meets(Ps, Top, g, r, mk)
  BY <1>6, Concluded
<1>8. \A j \in 1..Len(Results) : Denoted(Results)[j] = Results[j].v
  BY <1>2, DenotedFacts
<1> QED
  BY <1>1, <1>2, <1>5, <1>6, <1>7, <1>8

-----------------------------------------------------------------------------
(* Code that is run *)

\* the variables of a strict kid, or of a branch, are variables of the code
LEMMA FreeFacts ==
    ASSUME NEW e \in Pieces, NEW i \in 1..Len(e.kids)
    PROVE  /\ Free(e.kids[i]) \subseteq Var /\ Free(e.kids[i]) \ BoundIn(e, i) \subseteq Free(e)
           /\ (e.op \notin {"let", "match"} \/ i <= Strict(e)) => Free(e.kids[i]) \subseteq Free(e)
<1>1. e.kids \in Seq(Pieces) /\ Len(e.kids) \in Nat /\ e.kids[i] \in Pieces
  BY CodeFacts
<1>2. DOMAIN e.kids = 1..Len(e.kids)
  BY <1>1
<1>3. Free(e.kids[i]) \subseteq Var /\ Free(e.kids[i]) \ BoundIn(e, i) \subseteq Free(e)
  BY <1>1, <1>2, ScopeAssumption DEF Scoped
<1>4. ASSUME e.op \notin {"let", "match"} \/ i <= Strict(e) PROVE BoundIn(e, i) = {}
  <2>1. CASE e.op \notin {"let", "match"}
    BY <2>1 DEF BoundIn
  <2>2. CASE e.op \in {"let", "match"} /\ i <= Strict(e)
    <3>1. Strict(e) = 1
      BY <2>2 DEF Strict
    <3>2. ~(i = 2) /\ ~(i > 1)
      BY <2>2, <3>1
    <3> QED
      BY <3>2 DEF BoundIn
  <2> QED
    BY <1>4, <2>1, <2>2
<1> QED
  BY <1>3, <1>4

\* binding the same variables in an environment and in var->val
LEMMA EnvStore ==
    ASSUME NEW e, Free(e) \subseteq Var, NEW xs, Binder(xs), NEW env, NEW vl, NEW ws, NEW vs,
           \A k \in DOMAIN xs : ws[k] = vs[k].v,
           \A x \in Free(e) : (\A k \in DOMAIN xs : xs[k] # x) => env[x] = vl[x].v
    PROVE  Agrees(e, Store(env, xs, ws), Store(vl, xs, vs))
<1> SUFFICES ASSUME NEW x \in Free(e)
             PROVE  Store(env, xs, ws)[x] = Store(vl, xs, vs)[x].v
  BY DEF Agrees
<1>1. CASE \A k \in DOMAIN xs : xs[k] # x
  <2>1. Store(env, xs, ws)[x] = env[x] /\ Store(vl, xs, vs)[x] = vl[x]
    BY <1>1 DEF Store
  <2> QED
    BY <1>1, <2>1
<1>2. CASE \E k \in DOMAIN xs : xs[k] = x
  <2>1. PICK k \in DOMAIN xs : xs[k] = x
    BY <1>2
  <2>2. LastOf(xs, x) = k
    BY <2>1, LastOfFacts
  <2>3. Store(env, xs, ws)[x] = ws[k] /\ Store(vl, xs, vs)[x] = vs[k]
    BY <2>1, <2>2 DEF Store
  <2> QED
    BY <2>1, <2>3
<1> QED
  BY <1>1, <1>2

\* the activation f takes the place of the top, for the same code
LEMMA GoalSwap ==
    ASSUME NEW K, NEW g, AtTop(K, g), NEW f, f.e = Top.e, f.uc = Top.uc, Proper(f)
    PROVE  GoalFor(Ps, code, Front(stack), K, f, g)
<1>1. \A r, mk : Meets(Ps, f, g, r, mk) <=> Meets(Ps, Top, g, r, mk)
  BY DEF Meets
<1> QED
  BY <1>1, Zenon DEF AtTop, GoalFor

\* code that is being run leads to what the top activation waits for
LEMMA EvalFacts ==
    ASSUME Course, mode = "eval"
    PROVE  /\ Values(stack, val)
           /\ \E K, env :
                 /\ Goals(Ps, code, stack, K) /\ Agrees(cur, env, val)
                 /\ \A r, mk : Sem(Ps, cur, env, marks, useCache, r, mk) =>
                                 Awaited(Ps, code, stack, K, Len(stack), r, mk)
  BY DEF Course, OnCourse

\* The code is done at once.
LEMMA AtOnce ==
    ASSUME SemRules, Inv, Course, mode = "eval", mode' = "ret",
           UNCHANGED Ps, UNCHANGED <<code, val, marks, stack>>, cur' = Null \/ IsObject(cur'),
           \A env : Agrees(cur, env, val) => Immediate(cur, env, useCache, cur'.v)
    PROVE  Course'
<1>1. Values(stack, val)
  BY EvalFacts
<1>2. PICK K, env :
         /\ Goals(Ps, code, stack, K) /\ Agrees(cur, env, val)
         /\ \A r, mk : Sem(Ps, cur, env, marks, useCache, r, mk) =>
                         Awaited(Ps, code, stack, K, Len(stack), r, mk)
  BY EvalFacts
<1>3. cur \in Pieces
  BY DEF Inv
<1>4. Sem(Ps, cur, env, marks, useCache, cur'.v, marks)
  BY <1>2, <1>3 DEF SemRules
<1>5. Awaited(Ps, code, stack, K, Len(stack), cur'.v, marks)
  BY <1>2, <1>4
<1>6. OnCourse(Ps, code, stack, K, mode', cur', useCache', val', marks)
  BY <1>5 DEF OnCourse
<1>7. Ps' = Ps
  OBVIOUS
<1> QED
  BY <1>1, <1>2, <1>6, <1>7, Zenon DEF Course

LEMMA LeafMeant ==
    ASSUME SemRules, Inv, Course, Leaf
    PROVE  Course'
<1> DEFINE x == cur.a
<1>1. /\ mode = "eval" /\ cur.op \in Leaves /\ mode' = "ret"
      /\ cur' = CASE cur.op = "lit" -> ObjectOf(cur)
                  [] cur.op = "fail" -> Null
                  [] cur.op = "var" -> IF val[x] = None THEN SymObj(x) ELSE val[x]
      /\ UNCHANGED Ps /\ UNCHANGED <<code, val, marks, stack>>
  BY DEF Leaf, Return, Ps
<1>2. cur \in Pieces
  BY <1>1 DEF Inv
<1>3. CASE cur.op = "lit"
  <2>1. cur' = ObjectOf(cur)
    BY <1>1, <1>3
  <2>2. IsObject(cur')
    BY <1>2, <1>3, <2>1, ObjectsAssumption, Given DEF ObjectsOf
  <2>3. \A env : Immediate(cur, env, useCache, cur'.v)
    BY <1>3, <2>1 DEF Immediate
  <2> QED
    BY <1>1, <2>2, <2>3, AtOnce
<1>4. CASE cur.op = "fail"
  <2>1. cur' = Null /\ Null.v = NullVal
    BY <1>1, <1>4 DEF Null, Obj
  <2>2. \A env : Immediate(cur, env, useCache, cur'.v)
    BY <1>4, <2>1 DEF Immediate
  <2> QED
    BY <1>1, <2>1, <2>2, AtOnce
<1>5. CASE cur.op = "var"
  <2>1. cur' = IF val[x] = None THEN SymObj(x) ELSE val[x]
    BY <1>1, <1>5
  <2>2. x \in Free(cur) /\ x \in Var
    BY <1>2, <1>5, ScopeAssumption DEF Scoped
  <2>3. ASSUME NEW env, Agrees(cur, env, val) PROVE env[x] = val[x].v
    BY <2>2, <2>3 DEF Agrees
  <2>4. OrNone(val[x])
    BY <1>1, <2>2, EvalFacts DEF Values
  <2>5. CASE val[x] = None
    <3>1. cur' = SymObj(x) /\ cur'.v = SymVal(x)
      BY <2>1, <2>5 DEF SymObj, Obj
    <3>2. IsObject(cur')
      <4>1. /\ cur'.v.t = "sym" /\ cur'.v.s = x
            /\ cur'.v # NullVal /\ cur'.v # NoVal
        BY <3>1 DEF SymVal, NullVal, NoVal, None, Obj
      <4>2. x \notin DOMAIN Arity
        BY <2>2, ArityAssumption
      <4> QED
        BY <4>1, <4>2, Plain
    <3>3. \A env : Agrees(cur, env, val) => env[x] = NoVal
      BY <2>3, <2>5 DEF NoVal
    <3>4. \A env : Agrees(cur, env, val) => Immediate(cur, env, useCache, cur'.v)
      BY <1>5, <3>1, <3>3 DEF Immediate
    <3> QED
      BY <1>1, <3>2, <3>4, AtOnce
  <2>6. CASE val[x] # None
    <3>1. cur' = val[x] /\ IsObject(cur')
      BY <2>1, <2>4, <2>6 DEF OrNone
    <3>2. cur'.v # NoVal
      BY <3>1, ObjectFacts
    <3>3. \A env : Agrees(cur, env, val) => env[x] = cur'.v
      BY <2>3, <3>1
    <3>4. \A env : Agrees(cur, env, val) => Immediate(cur, env, useCache, cur'.v)
      BY <1>5, <3>2, <3>3 DEF Immediate
    <3> QED
      BY <1>1, <3>1, <3>4, AtOnce
  <2> QED
    BY <2>5, <2>6
<1> QED
  BY <1>1, <1>3, <1>4, <1>5 DEF Leaves

LEMMA IfMarkedMeant ==
    ASSUME SemRules, Inv, Course, IfMarkedInFunction
    PROVE  Course'
<1>1. /\ mode = "eval" /\ cur.op = "ifmarked" /\ useCache /\ mode' = "ret" /\ cur' = Null
      /\ UNCHANGED Ps /\ UNCHANGED <<code, val, marks, stack>>
  BY DEF IfMarkedInFunction, Return, Ps
<1>2. cur'.v = NullVal
  BY <1>1 DEF Null, Obj
<1>3. \A env : Immediate(cur, env, useCache, cur'.v)
  BY <1>1, <1>2 DEF Immediate
<1> QED
  BY <1>1, <1>3, AtOnce

LEMMA EnterMeant ==
    ASSUME SemRules, Inv, stale = {}, Course, Enter
    PROVE  Course'
<1> DEFINE f == [e |-> cur, rs |-> <<>>, body |-> FALSE, xs |-> <<>>, old |-> <<>>,
                 uc |-> useCache]
<1>1. /\ mode = "eval" /\ mode' = "eval" /\ stack' = Append(stack, f) /\ cur' = cur.kids[1]
      /\ cur \in Pieces /\ cur.op \notin Leaves /\ ~(cur.op = "ifmarked" /\ useCache)
      /\ UNCHANGED Ps /\ UNCHANGED <<code, val, marks, useCache>>
  BY DEF Enter, Eval, Inv, Ps
<1>2. /\ f.e = cur /\ f.rs = <<>> /\ f.body = FALSE /\ f.old = <<>> /\ f.uc = useCache
  OBVIOUS
<1> HIDE DEF f
<1>3. Values(stack, val)
  BY <1>1, EvalFacts
<1>4. PICK K, env :
         /\ Goals(Ps, code, stack, K) /\ Agrees(cur, env, val)
         /\ \A r, mk : Sem(Ps, cur, env, marks, useCache, r, mk) =>
                         Awaited(Ps, code, stack, K, Len(stack), r, mk)
  BY <1>1, EvalFacts
<1> DEFINE g == [env |-> env, mk |-> marks]
<1>5. g.env = env /\ g.mk = marks
  OBVIOUS
<1> HIDE DEF g
<1>6. IsSeq(stack) /\ Len(stack) \in Nat
  BY AppendFacts DEF Inv, Frames
<1>7. Strict(cur) \in 1..Len(cur.kids) /\ Len(cur.kids) \in Nat
  BY <1>1, StrictFacts, CodeFacts
<1>8. Len(<<>>) = 0 /\ 0 < Strict(cur) /\ 1 \in 1..Len(cur.kids) /\ 1 <= Strict(cur)
  BY <1>7
<1>9. GoalFor(Ps, code, stack, K, f, g)
  <2>1. \A r, mk : Meets(Ps, f, g, r, mk) => Awaited(Ps, code, stack, K, Len(stack), r, mk)
    BY <1>2, <1>4, <1>5 DEF Meets
  <2>2. ASSUME NEW x \in Free(cur), NEW v, IsBelow(stack, Len(stack), x, v) PROVE env[x] = v.v
    <3>1. x \in Var
      BY <1>1, ScopeAssumption DEF Scoped
    <3>2. IsBelow(stack, Len(stack), x, val[x])
      BY <3>1 DEF Inv, Chain
    <3>3. v = val[x]
      BY <2>2, <3>2, <1>6, BelowUnique
    <3> QED
      BY <3>3, <1>4 DEF Agrees
  <2>3. Proper(f)
    BY <1>1, <1>2, <1>8 DEF Proper
  <2> QED
    BY <1>2, <1>4, <1>5, <2>1, <2>2, <2>3 DEF GoalFor
<1>10. Holds(f)
  <2>1. DOMAIN <<>> = {} /\ \A j \in 1..0 : FALSE
    OBVIOUS
  <2> QED
    BY <1>2, <1>8, <2>1 DEF Holds
<1>11. Agrees(cur', env, val')
  BY <1>1, <1>4, <1>8, FreeFacts DEF Agrees
<1>12. \A r, mk : Sem(Ps, cur', env, marks', useCache', r, mk) => Waits(Ps, f, g, r, mk)
  <2>1. KidsGive(Ps, cur, Denoted(<<>>), env, marks, useCache, marks)
    BY KidsNone
  <2>2. cur.kids[Len(<<>>) + 1] = cur'
    BY <1>1, <1>8
  <2>3. f.e.kids[Len(f.rs) + 1] = cur'
    BY <1>2, <2>2
  <2>4. KidsGive(Ps, f.e, Denoted(f.rs), g.env, g.mk, f.uc, marks)
    BY <1>2, <1>5, <2>1
  <2> QED
    BY <1>1, <1>2, <1>5, <2>3, <2>4, Zenon DEF Waits
<1>13. Values(stack, val')
  BY <1>1, <1>3
<1> QED
  BY <1>1, <1>6, <1>9, <1>10, <1>11, <1>12, <1>13, Puts

LEMMA KidFailsMeant ==
    ASSUME SemRules, Inv, stale = {}, Course, KidFails
    PROVE  Course'
<1>1. /\ mode = "ret" /\ stack # <<>> /\ ~Top.body /\ mode' = "ret" /\ cur' = Null /\ Pop
      /\ cur = Null \/ (Top.e.op = "compare" /\ Top.rs = <<>> /\ ~IsSym(cur.v))
      /\ UNCHANGED Ps /\ UNCHANGED <<code, val, marks>>
  BY DEF KidFails, Return, Ps
<1>2. Values(stack, val)
  BY <1>1, TopWaits
<1>3. PICK K, g : AtTop(K, g) /\ Waits(Ps, Top, g, cur.v, marks)
  BY <1>1, TopWaits
<1>4. /\ Top.e \in Pieces /\ Top.e.op \notin Leaves /\ IsFrame(Top)
  BY <1>1, TopFacts
<1>5. IsSeq(Top.rs)
  BY <1>4 DEF IsFrame
<1> DEFINE P == Ps
           t == Top
           rs == Denoted(t.rs)
           v == cur.v
           M == marks
<1>6. PICK mk1 : /\ KidsGive(P, t.e, rs, g.env, g.mk, t.uc, mk1)
                 /\ Sem(P, t.e.kids[Len(t.rs) + 1], g.env, mk1, t.uc, v, M)
  BY <1>1, <1>3 DEF Waits
<1>7. Len(rs) = Len(t.rs)
  BY <1>5, DenotedFacts
<1>8. ~(t.e.op = "ifmarked" /\ t.uc) /\ Len(t.rs) < Strict(t.e)
  BY <1>1, <1>3 DEF AtTop, GoalFor, Proper
<1>9. Stops(t.e, Len(rs) + 1, v)
  <2>1. CASE cur = Null
    BY <2>1 DEF Stops, Null, Obj
  <2>2. CASE Top.e.op = "compare" /\ Top.rs = <<>> /\ ~IsSym(cur.v)
    <3>1. Len(t.rs) + 1 = 1
      BY <2>2
    <3> QED
      BY <2>2, <3>1, <1>7 DEF Stops
  <2> QED
    BY <1>1, <2>1, <2>2
<1>10. t.e \in Pieces /\ t.e.op \notin Leaves
  BY <1>4
<1> HIDE DEF P, t, rs, v, M
<1>11. Sem(P, t.e, g.env, g.mk, t.uc, NullVal, M)
  BY <1>6, <1>7, <1>8, <1>9, <1>10 DEF SemRules
<1>12. Meets(Ps, Top, g, cur'.v, marks')
  BY <1>1, <1>11 DEF P, t, M, Meets, Null, Obj
<1> QED
  BY <1>1, <1>2, <1>3, <1>12, Answers DEF Values

LEMMA NextKidMeant ==
    ASSUME SemRules, Inv, stale = {}, Course, NextKid
    PROVE  Course'
<1> DEFINE t == Top
           f == [t EXCEPT !.rs = Results]
           n == Len(Results)
<1>1. /\ mode = "ret" /\ stack # <<>> /\ ~t.body /\ cur # Null /\ n < Strict(t.e)
      /\ t.e.op = "compare" => IsSym(cur.v)
      /\ stack' = Append(Front(stack), f) /\ mode' = "eval" /\ cur' = t.e.kids[n + 1]
      /\ useCache' = t.uc /\ UNCHANGED Ps /\ UNCHANGED <<code, val, marks>>
  BY DEF NextKid, Eval, Ps
<1>2. /\ IsFrame(t) /\ t.e \in Pieces /\ t.e.op \notin Leaves /\ IsSeq(Results)
      /\ Len(t.rs) \in Nat /\ n = Len(t.rs) + 1
  BY <1>1, TopFacts
<1>3. /\ f.e = t.e /\ f.rs = Results /\ f.body = t.body /\ f.xs = t.xs /\ f.old = t.old
      /\ f.uc = t.uc
  <2> HIDE DEF t
  <2> QED
    BY <1>2, FrameExcept DEF IsFrame
<1>4. ~Stops(Top.e, Len(Results), cur.v)
  <2>1. cur.v # NullVal
    BY <1>1, TopWaits, ObjectFacts
  <2> QED
    BY <1>1, <2>1 DEF Stops
<1>5. Values(stack, val) /\ \A j \in 1..n : IsObject(Results[j])
  BY <1>1, <1>4, KidRun
<1>6. PICK K, g : /\ AtTop(K, g) /\ Agrees(Top.e, g.env, val)
                  /\ KidsGive(Ps, Top.e, Denoted(Results), g.env, g.mk, Top.uc, marks)
  BY <1>1, <1>4, KidRun
<1>7. f.e = Top.e /\ f.uc = Top.uc /\ Top.body = t.body
  BY <1>3
<1>8. Holds(t)
  <2>1. Len(stack) \in Nat \ {0}
    BY <1>1, FrontFacts DEF Inv, Frames
  <2>2. Len(stack) \in 1..Len(stack) /\ t = stack[Len(stack)]
    BY <2>1 DEF Top
  <2> QED
    BY <1>5, <2>2 DEF Values
<1>9. KidsGive(Ps, t.e, Denoted(Results), g.env, g.mk, t.uc, marks) /\ Agrees(t.e, g.env, val)
  BY <1>6
<1>10. ~(t.e.op = "ifmarked" /\ t.uc)
  BY <1>6 DEF AtTop, GoalFor, Proper
<1>11. IsSeq(stack)
  BY DEF Inv, Frames
<1>12. n = Len(Results)
  OBVIOUS
<1> HIDE DEF t, f, n
<1>13. Proper(f)
  BY <1>1, <1>3, <1>10, <1>12 DEF Proper
<1>14. GoalFor(Ps, code, Front(stack), K, f, g)
  BY <1>6, <1>7, <1>13, GoalSwap
<1>15. Holds(f)
  BY <1>3, <1>5, <1>8, <1>12 DEF Holds
<1>16. IsSeq(Front(stack)) /\ Values(Front(stack), val')
  <2>1. \A x \in Var : OrNone(val'[x])
    BY <1>1, <1>5 DEF Values
  <2> QED
    BY <1>1, <1>5, <1>11, <2>1, ValuesFront, FrontFacts
<1>17. Agrees(cur', g.env, val')
  <2>1. Strict(t.e) \in 1..Len(t.e.kids) /\ Len(t.e.kids) \in Nat
    BY <1>2, StrictFacts, CodeFacts
  <2>2. n + 1 \in 1..Len(t.e.kids) /\ n + 1 <= Strict(t.e)
    BY <1>1, <1>2, <2>1
  <2>3. Free(t.e.kids[n + 1]) \subseteq Free(t.e)
    BY <1>2, <2>2, FreeFacts
  <2> QED
    BY <1>1, <1>9, <2>3 DEF Agrees
<1>18. \A r, mk : Sem(Ps, cur', g.env, marks', useCache', r, mk) => Waits(Ps, f, g, r, mk)
  <2>1. f.e.kids[Len(f.rs) + 1] = cur' /\ f.uc = useCache' /\ marks' = marks /\ ~f.body
    BY <1>1, <1>3, <1>12
  <2>2. KidsGive(Ps, f.e, Denoted(f.rs), g.env, g.mk, f.uc, marks)
    BY <1>3, <1>9
  <2> QED
    BY <2>1, <2>2, Zenon DEF Waits
<1> QED
  BY <1>1, <1>14, <1>15, <1>16, <1>17, <1>18, Puts

\* the top activation goes on with its i-th kid
LEMMA JumpMeant ==
    ASSUME SemRules, Inv, stale = {}, Course, NEW ops, Ready(ops),
           NEW i \in 1..Len(Top.e.kids), cur' = Top.e.kids[i],
           Free(cur') \subseteq Free(Top.e), mode' = "eval", Pop,
           UNCHANGED Ps, UNCHANGED <<code, val, marks>>,
           \A env, r, mk : Sem(Ps, cur', env, marks, Top.uc, r, mk) =>
              Concludes(Ps, Top.e, Denoted(Results), env, marks, Top.uc, r, mk)
    PROVE  Course'
<1>1. Values(stack, val) /\ stack # <<>>
  BY ReadyFacts
<1>2. PICK K, g : /\ AtTop(K, g) /\ Agrees(Top.e, g.env, val)
                  /\ \A r, mk : Concludes(Ps, Top.e, Denoted(Results), g.env, marks, Top.uc, r, mk)
                                 => Meets(Ps, Top, g, r, mk)
  BY ReadyFacts
<1>3. Agrees(cur', g.env, val)
  BY <1>2 DEF Agrees
<1>4. \A r, mk : Sem(Ps, cur', g.env, marks', Top.uc, r, mk) => Meets(Ps, Top, g, r, mk)
  BY <1>2
<1> QED
  BY <1>1, <1>2, <1>3, <1>4, Jumps

\* the top activation returns what it concludes
LEMMA AnswerMeant ==
    ASSUME SemRules, Inv, stale = {}, Course, NEW ops, Ready(ops), mode' = "ret", Pop,
           UNCHANGED Ps, UNCHANGED <<code, val>>, cur' = Null \/ IsObject(cur'),
           \A env : Concludes(Ps, Top.e, Denoted(Results), env, marks, Top.uc, cur'.v, marks')
    PROVE  Course'
<1>1. Values(stack, val) /\ stack # <<>>
  BY ReadyFacts
<1>2. PICK K, g : /\ AtTop(K, g)
                  /\ \A r, mk : Concludes(Ps, Top.e, Denoted(Results), g.env, marks, Top.uc, r, mk)
                                 => Meets(Ps, Top, g, r, mk)
  BY ReadyFacts
<1>3. Meets(Ps, Top, g, cur'.v, marks')
  BY <1>2
<1>4. \A x \in Var : OrNone(val'[x])
  BY <1>1 DEF Values
<1> QED
  BY <1>1, <1>2, <1>3, <1>4, Answers

\* the top activation binds variables and runs code that leads to its goal
LEMMA BodyMeant ==
    ASSUME SemRules, Inv, stale = {}, Course, NEW ops, Ready(ops),
           NEW xs, Binder(xs), NEW vs, \A k \in DOMAIN xs : IsObject(vs[k]),
           NEW e, NEW uc, RunBody(xs, vs, e, uc), UNCHANGED Ps, UNCHANGED <<code, marks>>,
           \A env : Agrees(Top.e, env, val) =>
              \E env2 : /\ Agrees(e, env2, val')
                        /\ \A r, mk : Sem(Ps, e, env2, marks, uc, r, mk) =>
                              Concludes(Ps, Top.e, Denoted(Results), env, marks, Top.uc, r, mk)
    PROVE  Course'
<1> DEFINE t == Top
           f == [t EXCEPT !.rs = Results, !.body = TRUE, !.xs = xs, !.old = Held(val, xs)]
<1>1. /\ stack' = Append(Front(stack), f) /\ mode' = "eval" /\ cur' = e /\ useCache' = uc
      /\ val' = Store(val, xs, vs)
  BY DEF RunBody, Eval
<1>2. /\ Values(stack, val) /\ stack # <<>>
      /\ \A j \in 1..Len(Results) : IsObject(Results[j])
  BY ReadyFacts
<1>3. PICK K, g : /\ AtTop(K, g) /\ Agrees(Top.e, g.env, val)
                  /\ \A r, mk : Concludes(Ps, Top.e, Denoted(Results), g.env, marks, Top.uc, r, mk)
                                 => Meets(Ps, Top, g, r, mk)
  BY ReadyFacts
<1>4. PICK env2 : /\ Agrees(e, env2, val')
                  /\ \A r, mk : Sem(Ps, e, env2, marks, uc, r, mk) =>
                        Concludes(Ps, Top.e, Denoted(Results), g.env, marks, Top.uc, r, mk)
  BY <1>3
<1>5. IsFrame(t)
  BY <1>2, TopFacts
<1>6. /\ f.e = t.e /\ f.rs = Results /\ f.body = TRUE /\ f.old = Held(val, xs) /\ f.uc = t.uc
  <2> HIDE DEF t
  <2> QED
    BY <1>5, FrameExcept DEF IsFrame
<1>7. f.e = Top.e /\ f.uc = Top.uc
  BY <1>6
<1>8. Proper(Top)
  BY <1>3 DEF AtTop, GoalFor
<1>9. IsSeq(stack) /\ DOMAIN val = Var
  BY DEF Inv, Frames
<1> HIDE DEF t, f
<1>10. Proper(f)
  BY <1>6, <1>7, <1>8 DEF Proper
<1>11. GoalFor(Ps, code, Front(stack), K, f, g)
  BY <1>3, <1>7, <1>10, GoalSwap
<1> DEFINE w == Store(val, xs, vs)
           h == Held(val, xs)
<1>12. /\ \A x \in Var : (\A k \in DOMAIN xs : xs[k] # x) => w[x] = val[x]
       /\ \A k \in DOMAIN xs : xs[k] \in Var /\ w[xs[k]] = vs[k] /\ h[k] = val[xs[k]]
       /\ DOMAIN h = DOMAIN xs
  BY StoreFacts
<1>13. val' = w /\ f.old = h
  BY <1>1, <1>6
<1> HIDE DEF w, h
<1>14. \A x \in Var : OrNone(val'[x])
  BY <1>2, <1>12, <1>13 DEF Values, OrNone
<1>15. Holds(f)
  BY <1>2, <1>6, <1>12, <1>13 DEF Holds, Values
<1>16. IsSeq(Front(stack)) /\ Values(Front(stack), val')
  BY <1>2, <1>9, <1>14, ValuesFront, FrontFacts
<1>17. \A r, mk : Sem(Ps, cur', env2, marks', useCache', r, mk) => Waits(Ps, f, g, r, mk)
  <2>1. \A r, mk : Meets(Ps, Top, g, r, mk) => Waits(Ps, f, g, r, mk)
    BY <1>6, <1>7, Zenon DEF Meets, Waits
  <2> QED
    BY <1>1, <1>3, <1>4, <2>1
<1>18. Agrees(cur', env2, val')
  BY <1>1, <1>4
<1> QED
  BY <1>1, <1>11, <1>15, <1>16, <1>17, <1>18, Puts

-----------------------------------------------------------------------------
(* Ops *)

LEMMA DoMeant ==
    ASSUME SemRules, Inv, stale = {}, Course, Do
    PROVE  Course'
<1>1. /\ Ready({"do"}) /\ cur' = Top.e.kids[2] /\ mode' = "eval" /\ Pop
      /\ UNCHANGED Ps /\ UNCHANGED <<code, val, marks>>
  BY DEF Do, Eval, Ps
<1>2. Top.e \in Pieces /\ Top.e.op = "do"
  BY <1>1, ReadyFacts
<1>3. Len(Top.e.kids) = 2
  BY <1>2, CodeFacts DEF WellFormed, Leaves
<1>4. 2 \in 1..Len(Top.e.kids)
  BY <1>3
<1>5. Free(cur') \subseteq Free(Top.e)
  BY <1>1, <1>2, <1>4, FreeFacts
<1>6. \A env, r, mk : Sem(Ps, cur', env, marks, Top.uc, r, mk) =>
         Concludes(Ps, Top.e, Denoted(Results), env, marks, Top.uc, r, mk)
  BY <1>1, <1>2 DEF Concludes
<1> QED
  BY <1>1, <1>4, <1>5, <1>6, JumpMeant

LEMMA ConditionalMeant ==
    ASSUME SemRules, Inv, stale = {}, Course, Conditional
    PROVE  Course'
<1> DEFINE b == Branch(Top.e, Denoted(Results), marks)
<1>1. /\ Ready(Conditionals) /\ Pop /\ UNCHANGED Ps /\ UNCHANGED <<code, val, marks>>
      /\ IF b = 0 THEN Return(Null) ELSE Eval(Top.e.kids[b])
  BY DEF Conditional, Ps
<1>2. Top.e \in Pieces /\ Top.e.op \in Conditionals
  BY <1>1, ReadyFacts
<1>3. CASE b = 0
  <2>1. mode' = "ret" /\ cur' = Null /\ cur'.v = NullVal
    BY <1>1, <1>3 DEF Return, Null, Obj
  <2>2. \A env : Concludes(Ps, Top.e, Denoted(Results), env, marks, Top.uc, cur'.v, marks')
    BY <1>1, <1>2, <1>3, <2>1 DEF Concludes
  <2> QED
    BY <1>1, <2>1, <2>2, AnswerMeant
<1>4. CASE b # 0
  <2>1. mode' = "eval" /\ cur' = Top.e.kids[b]
    BY <1>1, <1>4 DEF Eval
  <2>2. b \in 1..Len(Top.e.kids)
    BY <1>2, <1>4, BranchFacts
  <2>3. Top.e.op \notin {"let", "match"}
    BY <1>2 DEF Conditionals
  <2>4. Free(cur') \subseteq Free(Top.e)
    BY <1>2, <2>1, <2>2, <2>3, FreeFacts
  <2>5. \A env, r, mk : Sem(Ps, cur', env, marks, Top.uc, r, mk) =>
           Concludes(Ps, Top.e, Denoted(Results), env, marks, Top.uc, r, mk)
    BY <1>2, <1>4, <2>1 DEF Concludes
  <2> QED
    BY <1>1, <2>1, <2>2, <2>4, <2>5, JumpMeant
<1> QED
  BY <1>3, <1>4

\* what arithmetic gives is a number or a failure
LEMMA NumberFacts ==
    ASSUME NEW op \in {"add", "mul", "div"}, NEW v, NEW w, NEW n,
           n \in {Arith(op, v, w), Negated(v), ToRational(v)}
    PROVE  n = NullVal \/ n.t \in {"int", "rat"}
<1>1. \A a, b : RatVal(a, b).t = "rat"
  BY DEF RatVal
<1>2. \A a : IntVal(a).t = "int"
  BY DEF IntVal
<1>3. Negated(v) = NullVal \/ Negated(v).t \in {"int", "rat"}
  <2>1. CASE v.t = "int"
    BY <2>1, <1>2 DEF Negated
  <2>2. CASE v.t = "rat"
    BY <2>2, <1>1 DEF Negated
  <2>3. CASE v.t \notin {"int", "rat"}
    BY <2>3 DEF Negated
  <2> QED
    BY <2>1, <2>2, <2>3
<1>4. ToRational(v).t = "rat"
  BY <1>1 DEF ToRational
<1>5. Arith(op, v, w) = NullVal \/ Arith(op, v, w).t \in {"int", "rat"}
  <2>1. CASE op = "add"
    BY <2>1, <1>1, <1>2 DEF Arith
  <2>2. CASE op = "mul"
    BY <2>2, <1>1, <1>2 DEF Arith
  <2>3. CASE op = "div"
    BY <2>3, <1>1, <1>2 DEF Arith
  <2> QED
    BY <2>1, <2>2, <2>3
<1> QED
  BY <1>3, <1>4, <1>5

LEMMA NumberMeant ==
    ASSUME SemRules, Inv, stale = {}, Course, Number
    PROVE  Course'
<1> DEFINE ops == {"add", "mul", "div", "neg", "to_q"}
           rs == Denoted(Results)
           n == CASE Top.e.op = "neg" -> Negated(cur.v)
                  [] Top.e.op = "to_q" -> ToRational(cur.v)
                  [] OTHER -> Arith(Top.e.op, Top.rs[1].v, cur.v)
<1>1. /\ Ready(ops) /\ Pop /\ UNCHANGED Ps /\ UNCHANGED <<code, val, marks>>
      /\ IF n = NullVal THEN Return(Null) /\ UNCHANGED allocs ELSE New(n, <<>>)
  BY DEF Number, Ps
<1>2. /\ Top.e \in Pieces /\ Top.e.op \in ops /\ Len(Results) = Strict(Top.e) /\ stack # <<>>
      /\ \A j \in 1..Len(Results) : rs[j] = Results[j].v
  BY <1>1, ReadyFacts
<1>3. /\ IsSeq(Top.rs) /\ Len(Top.rs) \in Nat /\ Len(Results) = Len(Top.rs) + 1
      /\ \A i \in 1..Len(Top.rs) : Results[i] = Top.rs[i]
      /\ Results[Len(Top.rs) + 1] = cur
  <2>1. IsSeq(Top.rs)
    BY <1>2, TopFacts DEF IsFrame
  <2> QED
    BY <2>1, AppendFacts DEF Results
<1>4. n = CASE Top.e.op = "neg" -> Negated(cur.v)
            [] Top.e.op = "to_q" -> ToRational(cur.v)
            [] OTHER -> Arith(Top.e.op, Top.rs[1].v, cur.v)
  OBVIOUS
<1> HIDE DEF n, rs
<1>5. /\ mode' = "ret" /\ cur'.v = n
      /\ cur' = Null \/ n # NullVal
  BY <1>1 DEF Return, New, Null, Obj
<1>6. /\ n = NullVal \/ n.t \in {"int", "rat"}
      /\ \A env : Concludes(Ps, Top.e, rs, env, marks, Top.uc, n, marks)
  <2>1. CASE Top.e.op \in {"add", "mul", "div"}
    <3>1. Len(Results) = 2 /\ Len(Top.rs) = 1
      <4>1. Strict(Top.e) = 2
        BY <2>1 DEF Strict
      <4>2. Len(Results) = 2
        BY <1>2, <4>1
      <4> DEFINE m == Len(Top.rs)
      <4>3. m \in Nat /\ Len(Results) = m + 1
        BY <1>3
      <4> HIDE DEF m
      <4>4. m = 1
        BY <4>2, <4>3
      <4> QED
        BY <4>2, <4>4 DEF m
    <3>2. 1 \in 1..Len(Results) /\ 2 \in 1..Len(Results) /\ 1 \in 1..Len(Top.rs)
      BY <3>1
    <3>3. rs[1] = Top.rs[1].v /\ rs[2] = cur.v
      <4>1. Results[1] = Top.rs[1] /\ Results[1 + 1] = cur
        BY <1>3, <3>1, <3>2
      <4> QED
        BY <1>2, <3>2, <4>1
    <3>4. n = Arith(Top.e.op, Top.rs[1].v, cur.v)
      BY <1>4, <2>1
    <3>5. n = NullVal \/ n.t \in {"int", "rat"}
      BY <2>1, <3>4, NumberFacts
    <3>6. \A env : Concludes(Ps, Top.e, rs, env, marks, Top.uc, n, marks)
      BY <2>1, <3>3, <3>4 DEF Concludes
    <3> QED
      BY <3>5, <3>6
  <2>2. CASE Top.e.op \in {"neg", "to_q"}
    <3>1. Len(Results) = 1 /\ Len(Top.rs) = 0
      BY <1>2, <1>3, <2>2 DEF Strict
    <3>2. 1 \in 1..Len(Results)
      BY <3>1
    <3>3. rs[1] = cur.v
      <4>1. Results[0 + 1] = cur
        BY <1>3, <3>1
      <4> QED
        BY <1>2, <3>2, <4>1
    <3>4. n = IF Top.e.op = "neg" THEN Negated(cur.v) ELSE ToRational(cur.v)
      BY <1>4, <2>2
    <3>5. n = NullVal \/ n.t \in {"int", "rat"}
      BY <3>4, NumberFacts
    <3>6. \A env : Concludes(Ps, Top.e, rs, env, marks, Top.uc, n, marks)
      BY <2>2, <3>3, <3>4 DEF Concludes
    <3> QED
      BY <3>5, <3>6
  <2> QED
    BY <1>2, <2>1, <2>2
<1>7. cur' = Null \/ IsObject(cur')
  <2>1. CASE n = NullVal
    BY <1>5, <2>1
  <2>2. CASE n # NullVal
    <3>1. n.t \in {"int", "rat"}
      BY <1>6, <2>2
    <3>2. n # NoVal
      BY <3>1 DEF NoVal, None, Obj
    <3> QED
      BY <1>5, <2>2, <3>1, <3>2, Plain
  <2> QED
    BY <2>1, <2>2
<1>8. \A env : Concludes(Ps, Top.e, Denoted(Results), env, marks, Top.uc, cur'.v, marks')
  BY <1>1, <1>5, <1>6 DEF rs
<1> QED
  BY <1>1, <1>5, <1>7, <1>8, AnswerMeant

\* an op with one strict kid: its result is what came back
LEMMA OneResult ==
    ASSUME SemRules, Inv, stale = {}, Course, NEW ops, Ready(ops), Strict(Top.e) = 1
    PROVE  Results[1] = cur /\ Denoted(Results)[1] = cur.v /\ IsObject(cur)
<1>1. /\ Len(Results) = Strict(Top.e) /\ stack # <<>> /\ IsObject(cur)
      /\ \A j \in 1..Len(Results) : Denoted(Results)[j] = Results[j].v
  BY ReadyFacts
<1>2. Results[1] = cur
  BY <1>1, TopFacts
<1>3. 1 \in 1..Len(Results)
  BY <1>1
<1> QED
  BY <1>1, <1>2, <1>3

LEMMA MarkVarMeant ==
    ASSUME SemRules, Inv, stale = {}, Course, MarkVar
    PROVE  Course'
<1> DEFINE m == <<Top.e.a, cur.v.s>>
<1>1. /\ Ready({"markvar"}) /\ Pop /\ UNCHANGED Ps /\ UNCHANGED <<code, val>>
      /\ IF IsSym(cur.v) THEN marks' = Toggled(marks, m) /\ Return(cur)
                          ELSE Return(Null) /\ UNCHANGED marks
  BY DEF MarkVar, Ps, Toggled
<1>2. Top.e.op = "markvar"
  BY <1>1, ReadyFacts
<1>3. Strict(Top.e) = 1
  BY <1>2 DEF Strict
<1>4. Denoted(Results)[1] = cur.v /\ IsObject(cur)
  BY <1>1, <1>3, OneResult
<1> DEFINE rs == Denoted(Results)
<1> HIDE DEF m, rs
<1>5. CASE IsSym(cur.v)
  <2>1. mode' = "ret" /\ cur' = cur /\ marks' = Toggled(marks, m)
    BY <1>1, <1>5 DEF Return
  <2>2. rs[1] = cur.v /\ m = <<Top.e.a, rs[1].s>>
    BY <1>4 DEF rs, m
  <2>3. \A env : Concludes(Ps, Top.e, rs, env, marks, Top.uc, cur'.v, marks')
    BY <1>2, <1>5, <2>1, <2>2 DEF Concludes
  <2> QED
    BY <1>1, <1>4, <2>1, <2>3, AnswerMeant DEF rs
<1>6. CASE ~IsSym(cur.v)
  <2>1. mode' = "ret" /\ cur' = Null /\ cur'.v = NullVal /\ marks' = marks
    BY <1>1, <1>6 DEF Return, Null, Obj
  <2>2. rs[1] = cur.v
    BY <1>4 DEF rs
  <2>3. \A env : Concludes(Ps, Top.e, rs, env, marks, Top.uc, cur'.v, marks')
    BY <1>2, <1>6, <2>1, <2>2 DEF Concludes
  <2> QED
    BY <1>1, <2>1, <2>3, AnswerMeant DEF rs
<1> QED
  BY <1>5, <1>6

LEMMA BuildAppMeant ==
    ASSUME SemRules, Inv, stale = {}, Course, BuildApp
    PROVE  Course'
<1> DEFINE v == AppVal(Top.e.a, Denoted(Results))
<1>1. /\ Ready({"con"}) /\ Pop /\ UNCHANGED Ps /\ UNCHANGED <<code, val, marks>>
      /\ mode' = "ret" /\ cur' = Obj(v, allocs', Results) /\ cur'.v = v
  BY DEF BuildApp, New, Return, Ps, Obj
<1>2. /\ Top.e \in Pieces /\ Top.e.op = "con" /\ Len(Results) = Strict(Top.e) /\ IsSeq(Results)
      /\ \A j \in 1..Len(Results) : IsObject(Results[j])
  BY <1>1, ReadyFacts
<1>3. Top.e.a \in DOMAIN Arity /\ Len(Top.e.kids) = Arity[Top.e.a]
  BY <1>2, ArityAssumption DEF FullyApplied
<1>4. Len(Results) = Arity[Top.e.a] /\ DOMAIN Results = 1..Len(Results)
  <2>1. Strict(Top.e) = Len(Top.e.kids)
    BY <1>2 DEF Strict
  <2> QED
    BY <1>2, <1>3, <2>1, DenotedFacts
<1>5. IsObject(cur')
  <2> DEFINE c == Top.e.a
             rs == Results
  <2>1. c \in DOMAIN Arity /\ 1..Arity[c] \subseteq DOMAIN rs /\ \A k \in 1..Arity[c] : IsObject(rs[k])
    BY <1>2, <1>3, <1>4
  <2> HIDE DEF c, rs
  <2>2. \A n : IsObject(Obj(AppVal(c, Denoted(rs)), n, rs))
    BY <2>1, Built
  <2> QED
    BY <1>1, <2>2 DEF c, rs
<1>6. \A env : Concludes(Ps, Top.e, Denoted(Results), env, marks, Top.uc, cur'.v, marks')
  BY <1>1, <1>2 DEF Concludes
<1> QED
  BY <1>1, <1>5, <1>6, AnswerMeant

LEMMA LetMeant ==
    ASSUME SemRules, Inv, stale = {}, Course, Let
    PROVE  Course'
<1> DEFINE xs == <<Top.e.a>>
           vs == <<cur>>
           e == Top.e.kids[2]
           rs == Denoted(Results)
<1>1. /\ Ready({"let"}) /\ RunBody(xs, vs, e, Top.uc)
      /\ UNCHANGED Ps /\ UNCHANGED <<code, marks>>
  BY DEF Let, Ps
<1>2. Top.e \in Pieces /\ Top.e.op = "let"
  BY <1>1, ReadyFacts
<1>3. Strict(Top.e) = 1
  BY <1>2 DEF Strict
<1>4. rs[1] = cur.v /\ IsObject(cur)
  BY <1>1, <1>3, OneResult
<1>5. Top.e.a \in Var /\ Len(Top.e.kids) = 2
  BY <1>2, CodeFacts DEF WellFormed, Leaves
<1>6. Binder(xs) /\ DOMAIN xs = {1} /\ xs[1] = Top.e.a /\ vs[1] = cur
  BY <1>5 DEF Binder, IsInjective
<1>7. 2 \in 1..Len(Top.e.kids) /\ BoundIn(Top.e, 2) = {Top.e.a}
  BY <1>2, <1>5 DEF BoundIn
<1>8. Free(e) \subseteq Var /\ Free(e) \ {Top.e.a} \subseteq Free(Top.e)
  BY <1>2, <1>7, FreeFacts
<1>9. val' = Store(val, xs, vs)
  BY <1>1 DEF RunBody
<1>10. \A env, r, mk : Sem(Ps, e, Store(env, xs, rs), marks, Top.uc, r, mk) =>
          Concludes(Ps, Top.e, rs, env, marks, Top.uc, r, mk)
  BY <1>2 DEF Concludes
<1> HIDE DEF xs, vs, e, rs
<1>11. ASSUME NEW env, Agrees(Top.e, env, val) PROVE Agrees(e, Store(env, xs, rs), val')
  <2>1. \A k \in DOMAIN xs : rs[k] = vs[k].v
    BY <1>4, <1>6
  <2>2. \A x \in Free(e) : (\A k \in DOMAIN xs : xs[k] # x) => env[x] = val[x].v
    BY <1>6, <1>8, <1>11 DEF Agrees
  <2>3. Agrees(e, Store(env, xs, rs), Store(val, xs, vs))
    BY <1>6, <1>8, <2>1, <2>2, EnvStore
  <2> QED
    BY <1>9, <2>3
<1>12. \A env : Agrees(Top.e, env, val) =>
         \E env2 : /\ Agrees(e, env2, val')
                   /\ \A r, mk : Sem(Ps, e, env2, marks, Top.uc, r, mk) =>
                         Concludes(Ps, Top.e, rs, env, marks, Top.uc, r, mk)
  BY <1>10, <1>11, Zenon
<1>13. \A k \in DOMAIN xs : IsObject(vs[k])
  BY <1>4, <1>6
<1> QED
  BY <1>1, <1>6, <1>12, <1>13, BodyMeant DEF rs

LEMMA MatchMeant ==
    ASSUME SemRules, Inv, stale = {}, Course, Match
    PROVE  Course'
<1> DEFINE i == CaseOf(Top.e, cur.v)
           rs == Denoted(Results)
           xs == Top.e.a[i].xs
           vs == cur.args
           e == Top.e.kids[i + 1]
<1>1. /\ Ready({"match"}) /\ UNCHANGED Ps /\ UNCHANGED <<code, marks>>
      /\ \/ i = 0 /\ Return(Null) /\ Pop /\ UNCHANGED val
         \/ i # 0 /\ Top.e.a[i].c = "default" /\ Eval(e) /\ Pop /\ UNCHANGED val
         \/ i # 0 /\ Top.e.a[i].c # "default" /\ RunBody(xs, vs, e, Top.uc)
  BY DEF Match, Ps
<1>2. Top.e \in Pieces /\ Top.e.op = "match"
  BY <1>1, ReadyFacts
<1>3. Strict(Top.e) = 1
  BY <1>2 DEF Strict
<1>4. rs[1] = cur.v /\ IsObject(cur)
  BY <1>1, <1>3, OneResult
<1>5. i = CaseOf(Top.e, rs[1])
  BY <1>4
<1>6. CASE i = 0 /\ Return(Null) /\ Pop /\ UNCHANGED val
  <2>1. mode' = "ret" /\ cur' = Null /\ cur'.v = NullVal
    BY <1>6 DEF Return, Null, Obj
  <2> HIDE DEF i, rs
  <2>2. \A env : Concludes(Ps, Top.e, rs, env, marks, Top.uc, cur'.v, marks')
    BY <1>1, <1>2, <1>5, <1>6, <2>1 DEF Concludes
  <2> QED
    BY <1>1, <1>6, <2>1, <2>2, AnswerMeant DEF rs
<1>7. ASSUME i # 0
      PROVE  /\ i \in DOMAIN Top.e.a /\ Binder(xs) /\ i \in Nat \ {0} /\ i + 1 \in 1..Len(Top.e.kids)
             /\ Top.e.a[i].c # "default" => cur.v.t \in {"sym", "app"} /\ Top.e.a[i].c = cur.v.s
             /\ Free(e) \subseteq Var /\ Free(e) \ Range(xs) \subseteq Free(Top.e)
  <2> HIDE DEF rs, vs
  <2>1. /\ i \in DOMAIN Top.e.a /\ Binder(xs) /\ i \in Nat \ {0} /\ i + 1 \in 1..Len(Top.e.kids)
        /\ Top.e.a[i].c # "default" => cur.v.t \in {"sym", "app"} /\ Top.e.a[i].c = cur.v.s
    BY <1>2, <1>7, CaseFacts
  <2> HIDE DEF i
  <2>2. i + 1 > 1 /\ (i + 1) - 1 = i
    BY <2>1
  <2>3. BoundIn(Top.e, i + 1) = Range(Top.e.a[(i + 1) - 1].xs)
    BY <1>2, <2>2, Zenon DEF BoundIn
  <2>4. BoundIn(Top.e, i + 1) = Range(xs)
    BY <2>2, <2>3
  <2>5. Free(e) \subseteq Var /\ Free(e) \ Range(xs) \subseteq Free(Top.e)
    BY <1>2, <2>1, <2>4, FreeFacts
  <2> QED
    BY <2>1, <2>5
<1>8. CASE i # 0 /\ Top.e.a[i].c = "default" /\ Eval(e) /\ Pop /\ UNCHANGED val
  <2>1. mode' = "eval" /\ cur' = Top.e.kids[i + 1]
    BY <1>8 DEF Eval
  <2>2. i + 1 \in 1..Len(Top.e.kids) /\ Free(e) \ Range(xs) \subseteq Free(Top.e) /\ i \in DOMAIN Top.e.a
    BY <1>7, <1>8
  <2>3. xs = <<>> /\ DOMAIN <<>> = {}
    BY <1>2, <1>8, <2>2, ArityAssumption DEF FullyApplied
  <2>4. Free(cur') \subseteq Free(Top.e)
    BY <2>1, <2>2, <2>3 DEF Range
  <2> HIDE DEF i, rs
  <2>5. \A env, r, mk : Sem(Ps, cur', env, marks, Top.uc, r, mk) =>
           Concludes(Ps, Top.e, rs, env, marks, Top.uc, r, mk)
    BY <1>2, <1>5, <1>8, <2>1 DEF Concludes
  <2> QED
    BY <1>1, <1>8, <2>1, <2>2, <2>4, <2>5, JumpMeant DEF rs
<1>9. CASE i # 0 /\ Top.e.a[i].c # "default" /\ RunBody(xs, vs, e, Top.uc)
  <2>1. /\ i \in DOMAIN Top.e.a /\ Binder(xs) /\ i + 1 \in 1..Len(Top.e.kids)
        /\ cur.v.t \in {"sym", "app"} /\ Top.e.a[i].c = cur.v.s
        /\ Free(e) \subseteq Var /\ Free(e) \ Range(xs) \subseteq Free(Top.e)
    BY <1>7, <1>9
  <2>2. cur.v.s \in DOMAIN Arity /\ Len(xs) = Arity[cur.v.s]
    BY <1>2, <1>9, <2>1, ArityAssumption DEF FullyApplied
  <2>3. DOMAIN xs = 1..Arity[cur.v.s]
    <3>1. xs \in Seq(Var)
      BY <2>1 DEF Binder
    <3> QED
      BY <2>2, <3>1
  <2>4. \A k \in DOMAIN xs : IsObject(vs[k]) /\ rs[1].args[k] = vs[k].v
    <3>1. CASE cur.v.t = "sym"
      <4>1. Arity[cur.v.s] = 0
        BY <1>4, <2>2, <3>1, ObjectFacts
      <4>2. DOMAIN xs = 1..0
        BY <2>3, <4>1
      <4> QED
        BY <4>2
    <3>2. CASE cur.v.t = "app"
      <4>1. \A k \in 1..Arity[cur.v.s] : IsObject(cur.args[k]) /\ cur.args[k].v = cur.v.args[k]
        BY <1>4, <2>2, <3>2, ObjectFacts
      <4> QED
        BY <1>4, <2>3, <4>1
    <3> QED
      BY <2>1, <3>1, <3>2
  <2> DEFINE ws == rs[1].args
  <2>5. val' = Store(val, xs, vs)
    BY <1>9 DEF RunBody
  <2>6. \A k \in DOMAIN xs : IsObject(vs[k]) /\ ws[k] = vs[k].v
    BY <2>4
  <2>7. \A env, r, mk : Sem(Ps, e, Store(env, xs, ws), marks, Top.uc, r, mk) =>
           Concludes(Ps, Top.e, rs, env, marks, Top.uc, r, mk)
    <3> HIDE DEF i, rs
    <3> QED
      BY <1>2, <1>5, <1>9 DEF Concludes
  <2> HIDE DEF ws, xs, vs, e, rs, i
  <2>8. ASSUME NEW env, Agrees(Top.e, env, val) PROVE Agrees(e, Store(env, xs, ws), val')
    <3>1. \A x \in Free(e) : (\A k \in DOMAIN xs : xs[k] # x) => x \in Free(Top.e)
      BY <2>1 DEF Range
    <3>2. \A x \in Free(e) : (\A k \in DOMAIN xs : xs[k] # x) => env[x] = val[x].v
      BY <2>8, <3>1 DEF Agrees
    <3>3. Agrees(e, Store(env, xs, ws), Store(val, xs, vs))
      BY <2>1, <2>6, <3>2, EnvStore
    <3> QED
      BY <2>5, <3>3
  <2>9. \A env : Agrees(Top.e, env, val) =>
           \E env2 : /\ Agrees(e, env2, val')
                     /\ \A r, mk : Sem(Ps, e, env2, marks, Top.uc, r, mk) =>
                           Concludes(Ps, Top.e, rs, env, marks, Top.uc, r, mk)
    BY <2>7, <2>8, Zenon
  <2> QED
    BY <1>1, <1>9, <2>1, <2>6, <2>9, BodyMeant DEF rs
<1> QED
  BY <1>1, <1>6, <1>8, <1>9

LEMMA CallMeant ==
    ASSUME SemRules, Inv, stale = {}, Meant, Call
    PROVE  Course'
<1> DEFINE p == Top.e.a
           xs == Params[p]
           e == body[p]
           uc == p \in functions
           rs == Denoted(Results)
<1>1. /\ Ready({"call"}) /\ (p \in functions \/ ~Top.uc) /\ RunBody(xs, Results, e, uc)
      /\ UNCHANGED Ps /\ UNCHANGED <<code, marks>> /\ Course
  BY DEF Call, Ps, Meant
<1>2. /\ Top.e \in Pieces /\ Top.e.op = "call" /\ Len(Results) = Strict(Top.e) /\ IsSeq(Results)
      /\ \A j \in 1..Len(Results) : IsObject(Results[j]) /\ rs[j] = Results[j].v
  BY <1>1, ReadyFacts
<1>3. p \in Prog /\ Binder(xs) /\ e \in Pieces
  BY <1>1, CallFacts
<1>4. DOMAIN xs = 1..Len(Results)
  <2>1. Len(Top.e.kids) = Len(Params[Top.e.a])
    BY <1>2, CodeFacts DEF WellFormed, Leaves
  <2>2. Strict(Top.e) = Len(Top.e.kids)
    BY <1>2 DEF Strict
  <2>3. xs \in Seq(Var)
    BY <1>3 DEF Binder
  <2>4. DOMAIN xs = 1..Len(xs)
    BY <2>3
  <2> QED
    BY <1>2, <2>1, <2>2, <2>4
<1>5. val' = Store(val, xs, Results)
  BY <1>1 DEF RunBody
<1>6. Free(e) \subseteq Var /\ Free(e) \subseteq Range(xs)
  BY <1>3, ScopeAssumption DEF Meant, Scoped
<1>7. Ps.params[p] = xs /\ Ps.body[p] = e /\ (p \in Ps.functions <=> uc) /\ (Top.uc => uc)
  BY <1>1 DEF Ps
<1> HIDE DEF xs, e, rs
<1>8. \A env, r, mk : Sem(Ps, e, Store(NoVals, xs, rs), marks, uc, r, mk) =>
         Concludes(Ps, Top.e, rs, env, marks, Top.uc, r, mk)
  <2>1. (p \in Ps.functions) = uc
    BY <1>7
  <2> QED
    BY <1>2, <1>7, <2>1 DEF Concludes
<1> HIDE DEF uc, p
<1>9. Agrees(e, Store(NoVals, xs, rs), val')
  <2>1. \A k \in DOMAIN xs : rs[k] = Results[k].v
    BY <1>2, <1>4
  <2>2. \A x \in Free(e) : (\A k \in DOMAIN xs : xs[k] # x) => NoVals[x] = val[x].v
    BY <1>6 DEF Range
  <2>3. Agrees(e, Store(NoVals, xs, rs), Store(val, xs, Results))
    BY <1>3, <1>6, <2>1, <2>2, EnvStore
  <2> QED
    BY <1>5, <2>3
<1>10. \A env : Agrees(Top.e, env, val) =>
         \E env2 : /\ Agrees(e, env2, val')
                   /\ \A r, mk : Sem(Ps, e, env2, marks, uc, r, mk) =>
                         Concludes(Ps, Top.e, rs, env, marks, Top.uc, r, mk)
  BY <1>8, <1>9, Zenon
<1>11. \A k \in DOMAIN xs : IsObject(Results[k])
  BY <1>2, <1>4
<1> QED
  BY <1>1, <1>3, <1>10, <1>11, BodyMeant DEF rs

LEMMA BodyDoneMeant ==
    ASSUME SemRules, Inv, stale = {}, Course, BodyDone
    PROVE  Course'
<1> DEFINE t == Top
<1>1. /\ mode = "ret" /\ stack # <<>> /\ t.body /\ mode' = "ret" /\ cur' = cur /\ Pop
      /\ val' = Store(val, t.xs, t.old) /\ UNCHANGED Ps /\ UNCHANGED <<code, marks>>
  BY DEF BodyDone, Return, Ps
<1>2. Values(stack, val) /\ (cur = Null \/ IsObject(cur))
  BY <1>1, TopWaits
<1>3. PICK K, g : AtTop(K, g) /\ Waits(Ps, Top, g, cur.v, marks)
  BY <1>1, TopWaits
<1>4. Meets(Ps, Top, g, cur'.v, marks')
  BY <1>1, <1>3 DEF Waits
<1>5. Binder(t.xs)
  BY <1>1, TopFacts DEF IsFrame
<1>6. DOMAIN t.old = DOMAIN t.xs
  BY <1>1, TopFacts DEF IsFrame
<1>7. Holds(t)
  <2>1. Len(stack) \in Nat \ {0}
    BY <1>1, FrontFacts DEF Inv, Frames
  <2>2. Len(stack) \in 1..Len(stack) /\ t = stack[Len(stack)]
    BY <2>1 DEF Top
  <2> QED
    BY <1>2, <2>2 DEF Values
<1>8. \A x \in Var : OrNone(val'[x])
  <2> HIDE DEF t
  <2> DEFINE w == Store(val, t.xs, t.old)
  <2>1. /\ \A x \in Var : (\A k \in DOMAIN t.xs : t.xs[k] # x) => w[x] = val[x]
        /\ \A k \in DOMAIN t.xs : w[t.xs[k]] = t.old[k]
    <3>1. \A k \in DOMAIN t.xs : LastOf(t.xs, t.xs[k]) = k /\ t.xs[k] \in Var
      BY <1>5, LastOfFacts DEF Binder
    <3> QED
      BY <3>1 DEF Store
  <2>2. val' = w
    BY <1>1
  <2> HIDE DEF w
  <2> QED
    BY <1>2, <1>6, <1>7, <2>1, <2>2 DEF Holds, Values
<1> QED
  BY <1>1, <1>2, <1>3, <1>4, <1>8, Answers

\* A cache hit or a refused call has left a parameter bound.
LEMMA LeavesStale ==
    ASSUME Inv, Ready({"call"}), NEW r, LeaveBound(r)
    PROVE  stale' # {}
<1>1. Top.e.a \in Prog
  BY CallFacts
<1> DEFINE xs == Params[Top.e.a]
<1>2. xs \in Seq(Var) /\ xs # <<>>
  BY <1>1, ProgAssumption DEF Binder
<1>3. 1 \in DOMAIN xs /\ xs[1] \in Var
  BY <1>2
<1>4. stale' = stale \cup {x \in Var : \E i \in DOMAIN xs : xs[i] = x}
  BY DEF LeaveBound
<1> HIDE DEF xs
<1> QED
  BY <1>3, <1>4

-----------------------------------------------------------------------------
(* The inductive invariant *)

LEMMA InitMeant == Init => Meant
<1> SUFFICES ASSUME Init PROVE Meant
  OBVIOUS
<1>1. /\ val = [x \in Var |-> None] /\ marks = StartMarks /\ stack = <<>> /\ mode = "eval" /\ cur = code
      /\ useCache = FALSE /\ stale = {}
  BY DEF Init
<1>2. PICK sig \in Signatures : body = sig.body
  BY DEF Init
<1>3. \A p \in Prog : Free(body[p]) \subseteq Range(Params[p])
  BY <1>2, ScopeAssumption DEF Scoped
<1>4. Len(stack) = 0 /\ \A i \in 1..0 : FALSE
  BY <1>1
<1>5. Values(stack, val)
  BY <1>1, <1>4 DEF Values, OrNone
<1>6. code \in Pieces
  BY <1>1, InitInv DEF Inv
<1>7. Agrees(cur, NoVals, val)
  <2>1. Free(cur) \subseteq Var
    BY <1>1, <1>6, ScopeAssumption DEF Scoped
  <2>2. \A x \in Var : NoVals[x] = val[x].v
    BY <1>1 DEF NoVals, NoVal
  <2> QED
    BY <2>1, <2>2 DEF Agrees
<1> DEFINE K == <<>>
<1>8. Goals(Ps, code, stack, K)
  BY <1>4 DEF Goals
<1>9. OnCourse(Ps, code, stack, K, mode, cur, useCache, val, marks)
  <2>1. \A r, mk : Sem(Ps, cur, NoVals, marks, useCache, r, mk) =>
                   Awaited(Ps, code, stack, K, Len(stack), r, mk)
    BY <1>1, <1>4 DEF Awaited
  <2> QED
    BY <1>1, <1>7, <2>1 DEF OnCourse
<1> HIDE DEF K
<1> QED
  BY <1>3, <1>5, <1>8, <1>9 DEF Meant, Course

LEMMA NextMeant == SemRules /\ Inv /\ Meant /\ [Next]_vars => Meant'
<1> SUFFICES ASSUME SemRules, Inv, Meant, [Next]_vars PROVE Meant'
  OBVIOUS
<1>1. body' = body /\ stale \subseteq stale'
  BY DEF Next, vars, Leaf, Enter, IfMarkedInFunction, KidFails, NextKid, Do, Let, Number, Conditional,
     MarkVar, Match, BuildApp, Call, CacheHit, ProgramInFunction, LeaveBound, BodyDone, RunCodeReturns
<1> SUFFICES ASSUME stale' = {} PROVE Course'
  BY <1>1 DEF Meant
<1>2. stale = {} /\ Course
  BY <1>1 DEF Meant
<1>3. CASE Leaf
  BY <1>2, <1>3, LeafMeant
<1>4. CASE Enter
  BY <1>2, <1>4, EnterMeant
<1>5. CASE IfMarkedInFunction
  BY <1>2, <1>5, IfMarkedMeant
<1>6. CASE KidFails
  BY <1>2, <1>6, KidFailsMeant
<1>7. CASE NextKid
  BY <1>2, <1>7, NextKidMeant
<1>8. CASE Do
  BY <1>2, <1>8, DoMeant
<1>9. CASE Let
  BY <1>2, <1>9, LetMeant
<1>10. CASE Number
  BY <1>2, <1>10, NumberMeant
<1>11. CASE Conditional
  BY <1>2, <1>11, ConditionalMeant
<1>12. CASE MarkVar
  BY <1>2, <1>12, MarkVarMeant
<1>13. CASE Match
  BY <1>2, <1>13, MatchMeant
<1>14. CASE BuildApp
  BY <1>2, <1>14, BuildAppMeant
<1>15. CASE Call
  BY <1>2, <1>15, CallMeant
<1>16. CASE CacheHit \/ ProgramInFunction
  BY <1>16, LeavesStale DEF CacheHit, ProgramInFunction
<1>17. CASE BodyDone
  BY <1>2, <1>17, BodyDoneMeant
<1>18. CASE RunCodeReturns
  <2>1. /\ mode = "ret" /\ mode' = "done" /\ Ps' = Ps
        /\ UNCHANGED <<code, val, marks, stack, cur, useCache>>
    BY <1>18 DEF RunCodeReturns, Ps
  <2>2. PICK K : /\ Goals(Ps, code, stack, K)
                 /\ OnCourse(Ps, code, stack, K, mode, cur, useCache, val, marks)
    BY <1>2 DEF Course
  <2>3. OnCourse(Ps, code, stack, K, mode', cur, useCache, val, marks)
    BY <2>1, <2>2 DEF OnCourse
  <2>4. Values(stack, val)
    BY <1>2 DEF Course
  <2> QED
    BY <2>1, <2>2, <2>3, <2>4, Zenon DEF Course
<1>19. CASE UNCHANGED vars
  <2>1. Ps' = Ps /\ UNCHANGED <<code, val, marks, stack, mode, cur, useCache>>
    BY <1>19 DEF vars, Ps
  <2> QED
    BY <1>2, <2>1, Zenon DEF Course
<1> QED
  BY <1>3, <1>4, <1>5, <1>6, <1>7, <1>8, <1>9, <1>10, <1>11, <1>12, <1>13, <1>14, <1>15,
     <1>16, <1>17, <1>18, <1>19 DEF Next

LEMMA MeantReturns == Inv /\ Meant => ReturnsMeaning
<1> SUFFICES ASSUME Inv, Meant, mode = "done", stale = {}
             PROVE  Sem(Ps, code, NoVals, StartMarks, FALSE, cur.v, marks)
  BY DEF ReturnsMeaning
<1>1. PICK K : OnCourse(Ps, code, stack, K, mode, cur, useCache, val, marks)
  BY DEF Meant, Course
<1>2. Len(stack) = 0
  BY DEF Inv
<1>3. Awaited(Ps, code, stack, K, 0, cur.v, marks)
  BY <1>1, <1>2 DEF OnCourse
<1> QED
  BY <1>3 DEF Awaited

\* run_code() returns what the code means, whatever the code, the programs and the
\* depth of recursion: with call-by-value and environments that calls do not share,
\* although in the interpreter every activation of a program shares var->val with
\* the others.  The exception are runs in which a cache hit or a refused call has
\* left a parameter bound.  Sem is any relation that is closed under the rules; for
\* the least one this says that what run_code() returns has a derivation by them.
THEOREM MeaningReturned == SemRules => (Spec => []ReturnsMeaning)
<1> SUFFICES ASSUME SemRules PROVE Spec => []ReturnsMeaning
  OBVIOUS
<1>1. Init => Meant
  BY InitMeant
<1>2. Inv /\ Meant /\ [Next]_vars => Meant'
  BY NextMeant
<1>3. Inv /\ Meant => ReturnsMeaning
  BY MeantReturns
<1> QED
  BY <1>1, <1>2, <1>3, Invariance, PTL DEF Spec
=============================================================================
