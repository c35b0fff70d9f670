--------------------------- MODULE SideCondProofs ---------------------------
(***************************************************************************)
(* Proofs about SideCond, for all code that check_code() accepts and a C++ *)
(* stack of any depth.  The values that activations have saved and the one *)
(* that a variable has now form a chain: each is what the next activation  *)
(* below bound the variable to, or none.  So a return, however it comes    *)
(* about, puts back what the activation below it has bound.                *)
(***************************************************************************)
EXTENDS SideCond, TLAPS, SequenceTheorems, WellFoundedInduction

IsSeq(s) == \E S : s \in Seq(S)

IsFrame(f) ==
    /\ DOMAIN f = {"e", "rs", "body", "xs", "old", "uc"}
    /\ f.e \in Pieces /\ f.e.op \notin Leaves
    /\ f.body \in BOOLEAN /\ f.uc \in BOOLEAN
    /\ Binder(f.xs) /\ DOMAIN f.old = DOMAIN f.xs
    /\ IsSeq(f.rs) /\ Len(f.rs) <= Strict(f.e)
    /\ f.body => Len(f.rs) = Strict(f.e) /\ f.e.op \in {"call", "let", "match"}

Frames(st) == IsSeq(st) /\ \A i \in 1..Len(st) : IsFrame(st[i])

\* the activation f has bound x, what it has bound it to, and what it has saved
Binds(f, x) == f.body /\ \E k \in DOMAIN f.xs : f.xs[k] = x
BoundTo(f, x) ==
    CASE f.e.op = "call" -> f.rs[LastOf(f.xs, x)]
      [] f.e.op = "let" -> f.rs[1]
      [] f.e.op = "match" -> f.rs[1].args[LastOf(f.xs, x)]
Saved(f, x) == f.old[LastOf(f.xs, x)]

\* v is what the topmost of the first n activations that bind x has bound it to
IsBelow(st, n, x, v) ==
    \/ v = None /\ \A i \in 1..n : ~Binds(st[i], x)
    \/ \E i \in 1..n : /\ Binds(st[i], x) /\ v = BoundTo(st[i], x)
                       /\ \A j \in (i + 1)..n : ~Binds(st[j], x)

Chain(st, vl, stl) ==
    \A x \in Var \ stl :
        /\ IsBelow(st, Len(st), x, vl[x])
        /\ \A j \in 1..Len(st) : Binds(st[j], x) => IsBelow(st, j - 1, x, Saved(st[j], x))

Inv ==
    /\ DOMAIN val = Var /\ stale \subseteq Var
    /\ mode \in {"eval", "ret", "done"} /\ useCache \in BOOLEAN
    /\ body \in [Prog -> Pieces]
    /\ mode = "eval" => cur \in Pieces
    /\ mode = "done" => stack = <<>>
    /\ Frames(stack)
    /\ Chain(stack, val, stale)

-----------------------------------------------------------------------------
(* Sequences *)

LEMMA AppendFacts ==
    ASSUME NEW s, IsSeq(s), NEW e
    PROVE  /\ IsSeq(Append(s, e)) /\ Len(s) \in Nat /\ Len(Append(s, e)) = Len(s) + 1
           /\ \A i \in 1..Len(s) : Append(s, e)[i] = s[i]
           /\ Append(s, e)[Len(s) + 1] = e
<1>1. PICK S : s \in Seq(S)
  BY DEF IsSeq
<1> DEFINE T == S \cup {e}
<1>2. s \in Seq(T) /\ e \in T
  BY <1>1
<1> HIDE DEF T
<1>3. /\ Append(s, e) \in Seq(T) /\ Len(Append(s, e)) = Len(s) + 1
      /\ \A i \in 1..Len(s) : Append(s, e)[i] = s[i]
      /\ Append(s, e)[Len(s) + 1] = e
  BY <1>2, AppendProperties
<1> QED
  BY <1>2, <1>3 DEF IsSeq

LEMMA FrontFacts ==
    ASSUME NEW s, IsSeq(s), s # <<>>
    PROVE  /\ IsSeq(Front(s)) /\ Len(s) \in Nat \ {0} /\ Len(Front(s)) = Len(s) - 1
           /\ \A i \in 1..(Len(s) - 1) : Front(s)[i] = s[i]
<1>1. PICK S : s \in Seq(S)
  BY DEF IsSeq
<1>2. Len(s) \in Nat \ {0}
  BY <1>1
<1>3. \A i \in 1..(Len(s) - 1) : s[i] \in S
  BY <1>1
<1> DEFINE n == Len(s) - 1
<1>4. /\ SubSeq(s, 1, n) \in Seq(S)
      /\ Len(SubSeq(s, 1, n)) = IF 1 <= n THEN n - 1 + 1 ELSE 0
      /\ \A i \in 1..(n - 1 + 1) : SubSeq(s, 1, n)[i] = s[1 + i - 1]
  BY <1>2, <1>3, SubSeqProperties
<1>5. Front(s) = SubSeq(s, 1, n)
  BY DEF Front
<1> HIDE DEF n
<1>6. n \in Nat /\ n = Len(s) - 1 /\ n - 1 + 1 = n
  BY <1>2 DEF n
<1>7. IsSeq(Front(s)) /\ Len(Front(s)) = n
  <2>1. IsSeq(Front(s))
    BY <1>4, <1>5, Zenon DEF IsSeq
  <2>2. CASE 1 <= n
    BY <2>1, <2>2, <1>4, <1>5, <1>6
  <2>3. CASE ~(1 <= n)
    BY <2>1, <2>3, <1>4, <1>5, <1>6
  <2> QED
    BY <2>2, <2>3
<1>8. ASSUME NEW i \in 1..n PROVE Front(s)[i] = s[i]
  <2>1. 1 + i - 1 = i /\ i \in 1..(n - 1 + 1)
    BY <1>6
  <2> QED
    BY <2>1, <1>4, <1>5
<1> QED
  BY <1>2, <1>6, <1>7, <1>8

\* the top of the stack is replaced
LEMMA SwapFacts ==
    ASSUME NEW s, IsSeq(s), s # <<>>, NEW e
    PROVE  LET t == Append(Front(s), e)
           IN  /\ IsSeq(t) /\ Len(s) \in Nat \ {0} /\ Len(t) = Len(s)
               /\ \A i \in 1..(Len(s) - 1) : t[i] = s[i]
               /\ t[Len(s)] = e
<1> DEFINE f == Front(s)
<1>1. /\ IsSeq(f) /\ Len(s) \in Nat \ {0} /\ Len(f) = Len(s) - 1
      /\ \A i \in 1..(Len(s) - 1) : f[i] = s[i]
  BY FrontFacts
<1> HIDE DEF f
<1>2. /\ IsSeq(Append(f, e)) /\ Len(Append(f, e)) = Len(f) + 1
      /\ \A i \in 1..Len(f) : Append(f, e)[i] = f[i]
      /\ Append(f, e)[Len(f) + 1] = e
  BY <1>1, AppendFacts
<1>3. Len(f) + 1 = Len(s)
  BY <1>1
<1> QED
  BY <1>1, <1>2, <1>3 DEF f

-----------------------------------------------------------------------------
(* Variables *)

LEMMA LastOfFacts ==
    ASSUME NEW xs, Binder(xs), NEW k \in DOMAIN xs
    PROVE  LastOf(xs, xs[k]) = k
<1>1. \A i \in DOMAIN xs : xs[i] = xs[k] => i = k
  BY DEF Binder, IsInjective
<1>2. \A j \in DOMAIN xs : xs[j] = xs[k] => j <= k
  BY <1>1 DEF Binder
<1> QED
  BY <1>1, <1>2 DEF LastOf

\* what a binder stores and what it saves
LEMMA StoreFacts ==
    ASSUME NEW vl, NEW xs, Binder(xs), NEW vs
    PROVE  /\ DOMAIN Store(vl, xs, vs) = Var
           /\ \A x \in Var : (\A k \in DOMAIN xs : xs[k] # x) => Store(vl, xs, vs)[x] = vl[x]
           /\ \A k \in DOMAIN xs : /\ xs[k] \in Var
                                   /\ Store(vl, xs, vs)[xs[k]] = vs[k]
                                   /\ Held(vl, xs)[k] = vl[xs[k]]
           /\ DOMAIN Held(vl, xs) = DOMAIN xs
<1>1. \A k \in DOMAIN xs : xs[k] \in Var
  BY DEF Binder
<1>2. \A k \in DOMAIN xs : LastOf(xs, xs[k]) = k
  BY LastOfFacts
<1> QED
  BY <1>1, <1>2 DEF Store, Held

-----------------------------------------------------------------------------
(* The chain of saved values *)

LEMMA BelowSame ==
    ASSUME NEW st, NEW tt, NEW n \in Nat, \A i \in 1..n : tt[i] = st[i],
           NEW x, NEW v, IsBelow(st, n, x, v)
    PROVE  IsBelow(tt, n, x, v)
<1>1. CASE v = None /\ \A i \in 1..n : ~Binds(st[i], x)
  BY <1>1 DEF IsBelow
<1>2. CASE \E i \in 1..n : /\ Binds(st[i], x) /\ v = BoundTo(st[i], x)
                           /\ \A j \in (i + 1)..n : ~Binds(st[j], x)
  <2>1. PICK i \in 1..n : /\ Binds(st[i], x) /\ v = BoundTo(st[i], x)
                          /\ \A j \in (i + 1)..n : ~Binds(st[j], x)
    BY <1>2
  <2>2. \A j \in (i + 1)..n : j \in 1..n
    OBVIOUS
  <2> QED
    BY <2>1, <2>2 DEF IsBelow
<1> QED
  BY <1>1, <1>2 DEF IsBelow

LEMMA BelowSkip ==
    ASSUME NEW st, NEW n \in Nat \ {0}, NEW x, ~Binds(st[n], x), NEW v
    PROVE  IsBelow(st, n, x, v) <=> IsBelow(st, n - 1, x, v)
<1>1. \A i \in 1..n : i = n \/ i \in 1..(n - 1)
  OBVIOUS
<1>2. \A i \in 1..(n - 1) : i \in 1..n
  OBVIOUS
<1>3. \A i \in 1..n : \A j \in (i + 1)..n : j = n \/ j \in (i + 1)..(n - 1)
  OBVIOUS
<1>4. \A i \in 1..n : \A j \in (i + 1)..(n - 1) : j \in (i + 1)..n
  OBVIOUS
<1> HIDE DEF Binds, BoundTo
<1>5. ASSUME IsBelow(st, n, x, v) PROVE IsBelow(st, n - 1, x, v)
  BY <1>1, <1>2, <1>4, <1>5 DEF IsBelow
<1>6. ASSUME IsBelow(st, n - 1, x, v) PROVE IsBelow(st, n, x, v)
  BY <1>1, <1>2, <1>3, <1>6 DEF IsBelow
<1> QED
  BY <1>5, <1>6

LEMMA BelowTop ==
    ASSUME NEW st, NEW n \in Nat \ {0}, NEW x, Binds(st[n], x)
    PROVE  IsBelow(st, n, x, BoundTo(st[n], x))
<1>1. n \in 1..n /\ \A j \in (n + 1)..n : FALSE
  OBVIOUS
<1> QED
  BY <1>1 DEF IsBelow

\* An activation starts that binds nothing.
LEMMA ChainPush ==
    ASSUME NEW st, IsSeq(st), NEW vl, NEW stl, Chain(st, vl, stl), NEW f, ~f.body
    PROVE  Chain(Append(st, f), vl, stl)
<1> DEFINE tt == Append(st, f)
           n == Len(st)
<1>1. n \in Nat /\ Len(tt) = n + 1 /\ (\A i \in 1..n : tt[i] = st[i]) /\ tt[n + 1] = f
  BY AppendFacts
<1> HIDE DEF tt, n
<1> SUFFICES ASSUME NEW x \in Var \ stl
             PROVE  /\ IsBelow(tt, n + 1, x, vl[x])
                    /\ \A j \in 1..(n + 1) : Binds(tt[j], x) => IsBelow(tt, j - 1, x, Saved(tt[j], x))
  BY <1>1 DEF Chain, tt
<1>2. /\ IsBelow(st, n, x, vl[x])
      /\ \A j \in 1..n : Binds(st[j], x) => IsBelow(st, j - 1, x, Saved(st[j], x))
  BY DEF Chain, n
<1>3. ~Binds(tt[n + 1], x)
  BY <1>1 DEF Binds
<1>4. IsBelow(tt, n + 1, x, vl[x])
  <2>1. IsBelow(tt, n, x, vl[x])
    BY <1>1, <1>2, BelowSame
  <2>2. n + 1 \in Nat \ {0} /\ (n + 1) - 1 = n
    BY <1>1
  <2> QED
    BY <2>1, <2>2, <1>3, BelowSkip
<1>5. ASSUME NEW j \in 1..(n + 1), Binds(tt[j], x) PROVE IsBelow(tt, j - 1, x, Saved(tt[j], x))
  <2>1. j \in 1..n /\ j - 1 \in Nat /\ \A i \in 1..(j - 1) : i \in 1..n
    BY <1>1, <1>3, <1>5
  <2>2. IsBelow(st, j - 1, x, Saved(st[j], x))
    BY <2>1, <1>1, <1>2, <1>5
  <2>3. \A i \in 1..(j - 1) : tt[i] = st[i]
    BY <2>1, <1>1
  <2>4. IsBelow(tt, j - 1, x, Saved(st[j], x))
    BY <2>1, <2>2, <2>3, BelowSame
  <2> QED
    BY <2>1, <2>4, <1>1
<1> QED
  BY <1>4, <1>5

\* The top activation returns, and what it has bound gets its saved value.
LEMMA ChainPop ==
    ASSUME NEW st, IsSeq(st), st # <<>>, NEW vl, NEW stl, Chain(st, vl, stl),
           NEW wl, NEW stw, stl \subseteq stw,
           \A x \in Var \ stw :
              wl[x] = IF Binds(st[Len(st)], x) THEN Saved(st[Len(st)], x) ELSE vl[x]
    PROVE  Chain(Front(st), wl, stw)
<1> DEFINE tt == Front(st)
           n == Len(st)
<1>1. n \in Nat \ {0} /\ Len(tt) = n - 1 /\ \A i \in 1..(n - 1) : tt[i] = st[i]
  BY FrontFacts
<1>2. \A x \in Var \ stw : wl[x] = IF Binds(st[n], x) THEN Saved(st[n], x) ELSE vl[x]
  OBVIOUS
<1> HIDE DEF tt, n
<1> SUFFICES ASSUME NEW x \in Var \ stw
             PROVE  /\ IsBelow(tt, n - 1, x, wl[x])
                    /\ \A j \in 1..(n - 1) : Binds(tt[j], x) => IsBelow(tt, j - 1, x, Saved(tt[j], x))
  BY <1>1 DEF Chain, tt
<1>3. /\ IsBelow(st, n, x, vl[x])
      /\ \A j \in 1..n : Binds(st[j], x) => IsBelow(st, j - 1, x, Saved(st[j], x))
  BY DEF Chain, n
<1>4. IsBelow(tt, n - 1, x, wl[x])
  <2>1. IsBelow(st, n - 1, x, wl[x])
    <3>1. CASE Binds(st[n], x)
      BY <3>1, <1>1, <1>2, <1>3
    <3>2. CASE ~Binds(st[n], x)
      BY <3>2, <1>1, <1>2, <1>3, BelowSkip
    <3> QED
      BY <3>1, <3>2
  <2>2. n - 1 \in Nat
    BY <1>1
  <2> QED
    BY <2>1, <2>2, <1>1, BelowSame
<1>5. ASSUME NEW j \in 1..(n - 1), Binds(tt[j], x) PROVE IsBelow(tt, j - 1, x, Saved(tt[j], x))
  <2>1. j \in 1..n /\ j - 1 \in Nat /\ \A i \in 1..(j - 1) : i \in 1..(n - 1)
    BY <1>1
  <2>2. IsBelow(st, j - 1, x, Saved(st[j], x))
    BY <2>1, <1>1, <1>3, <1>5
  <2>3. \A i \in 1..(j - 1) : tt[i] = st[i]
    BY <2>1, <1>1
  <2>4. IsBelow(tt, j - 1, x, Saved(st[j], x))
    BY <2>1, <2>2, <2>3, BelowSame
  <2> QED
    BY <2>4, <1>1
<1> QED
  BY <1>4, <1>5

\* The top activation, which has bound nothing yet, goes on as f.
LEMMA ChainSwap ==
    ASSUME NEW st, IsSeq(st), st # <<>>, NEW vl, NEW stl, Chain(st, vl, stl),
           ~st[Len(st)].body, NEW f, NEW wl,
           \A x \in Var : wl[x] = IF Binds(f, x) THEN BoundTo(f, x) ELSE vl[x],
           \A x \in Var : Binds(f, x) => Saved(f, x) = vl[x]
    PROVE  Chain(Append(Front(st), f), wl, stl)
<1> DEFINE tt == Append(Front(st), f)
           n == Len(st)
<1>1. /\ n \in Nat \ {0} /\ Len(tt) = n
      /\ (\A i \in 1..(n - 1) : tt[i] = st[i]) /\ tt[n] = f
  BY SwapFacts
<1>2. ~st[n].body
  OBVIOUS
<1> HIDE DEF tt, n
<1> SUFFICES ASSUME NEW x \in Var \ stl
             PROVE  /\ IsBelow(tt, n, x, wl[x])
                    /\ \A j \in 1..n : Binds(tt[j], x) => IsBelow(tt, j - 1, x, Saved(tt[j], x))
  BY <1>1 DEF Chain, tt
<1>3. /\ IsBelow(st, n, x, vl[x])
      /\ \A j \in 1..n : Binds(st[j], x) => IsBelow(st, j - 1, x, Saved(st[j], x))
  BY DEF Chain, n
<1>4. IsBelow(tt, n - 1, x, vl[x])
  <2>1. ~Binds(st[n], x) /\ n - 1 \in Nat
    BY <1>1, <1>2 DEF Binds
  <2>2. IsBelow(st, n - 1, x, vl[x])
    BY <2>1, <1>1, <1>3, BelowSkip
  <2> QED
    BY <2>1, <2>2, <1>1, BelowSame
<1>5. IsBelow(tt, n, x, wl[x])
  <2>1. CASE Binds(f, x)
    BY <2>1, <1>1, BelowTop
  <2>2. CASE ~Binds(f, x)
    BY <2>2, <1>1, <1>4, BelowSkip
  <2> QED
    BY <2>1, <2>2
<1>6. ASSUME NEW j \in 1..n, Binds(tt[j], x) PROVE IsBelow(tt, j - 1, x, Saved(tt[j], x))
  <2>1. CASE j = n
    BY <2>1, <1>1, <1>4, <1>6
  <2>2. CASE j # n
    <3>1. j \in 1..(n - 1) /\ j - 1 \in Nat /\ \A i \in 1..(j - 1) : i \in 1..(n - 1)
      BY <2>2, <1>1
    <3>2. tt[j] = st[j] /\ IsBelow(st, j - 1, x, Saved(st[j], x))
      BY <3>1, <1>1, <1>3, <1>6
    <3>3. \A i \in 1..(j - 1) : tt[i] = st[i]
      BY <3>1, <1>1
    <3>4. IsBelow(tt, j - 1, x, Saved(st[j], x))
      BY <3>1, <3>2, <3>3, BelowSame
    <3> QED
      BY <3>2, <3>4
  <2> QED
    BY <2>1, <2>2
<1> QED
  BY <1>5, <1>6

-----------------------------------------------------------------------------
(* Code *)

LEMMA CodeFacts ==
    ASSUME NEW e \in Pieces
    PROVE  /\ WellFormed(e, Pieces) /\ e.kids \in Seq(Pieces) /\ Len(e.kids) \in Nat
           /\ \A i \in 1..Len(e.kids) : e.kids[i] \in Pieces
<1>1. WellFormed(e, Pieces)
  BY CodeAssumption DEF Closed
<1> QED
  BY <1>1 DEF WellFormed

\* the strict kids of an op are some of its kids
LEMMA StrictFacts ==
    ASSUME NEW e \in Pieces, e.op \notin Leaves
    PROVE  Strict(e) \in 1..Len(e.kids)
<1>1. WellFormed(e, Pieces) /\ e.kids \in Seq(Pieces) /\ Len(e.kids) \in Nat
  BY CodeFacts
<1>2. CASE e.op \in {"neg", "to_q", "markvar"} /\ Len(e.kids) = 1
  BY <1>1, <1>2 DEF Strict
<1>3. CASE e.op \in {"add", "mul", "div", "do"} /\ Len(e.kids) = 2
  BY <1>1, <1>3 DEF Strict
<1>4. CASE e.op \in {"ifneg", "ifzero", "ifmarked"} /\ Len(e.kids) = 3
  BY <1>1, <1>4 DEF Strict
<1>5. CASE e.op \in {"compare", "ifequal"} /\ Len(e.kids) = 4
  BY <1>1, <1>5 DEF Strict
<1>6. CASE e.op = "let" /\ Len(e.kids) = 2
  BY <1>1, <1>6 DEF Strict
<1>7. CASE e.op \in {"match", "con"} /\ e.kids # <<>>
  <2>1. Len(e.kids) # 0
    BY <1>1, <1>7
  <2> QED
    BY <1>1, <1>7, <2>1 DEF Strict
<1>8. CASE e.op = "call" /\ e.a \in Prog /\ Len(e.kids) = Len(Params[e.a])
  <2>1. Params[e.a] \in Seq(Var) /\ Params[e.a] # <<>>
    BY <1>8, ProgAssumption DEF Binder
  <2>2. Len(Params[e.a]) # 0
    BY <2>1
  <2> QED
    BY <1>1, <1>8, <2>2 DEF Strict
<1> QED
  BY <1>1, <1>2, <1>3, <1>4, <1>5, <1>6, <1>7, <1>8 DEF WellFormed

LEMMA BranchFacts ==
    ASSUME NEW e \in Pieces, e.op \in Conditionals, NEW rs, NEW mk, Branch(e, rs, mk) # 0
    PROVE  Branch(e, rs, mk) \in 1..Len(e.kids) /\ e.kids[Branch(e, rs, mk)] \in Pieces
<1>1. /\ e.op \in {"ifneg", "ifzero", "ifmarked"} => Len(e.kids) = 3
      /\ e.op \in {"compare", "ifequal"} => Len(e.kids) = 4
  BY CodeFacts DEF WellFormed, Conditionals, Leaves
<1>2. 2 \in 1..3 /\ 3 \in 1..3 /\ 3 \in 1..4 /\ 4 \in 1..4
  OBVIOUS
<1>3. Branch(e, rs, mk) \in 1..Len(e.kids)
  <2>1. CASE e.op \in {"ifneg", "ifzero"}
    <3>1. Branch(e, rs, mk) = IF rs[1].t \notin {"int", "rat"} THEN 0
                              ELSE IF \/ e.op = "ifneg" /\ rs[1].n < 0
                                      \/ e.op = "ifzero" /\ rs[1].n = 0 THEN 2 ELSE 3
      BY <2>1, Zenon DEF Branch
    <3>2. Branch(e, rs, mk) \in {2, 3}
      BY <3>1, Zenon
    <3> QED
      BY <1>1, <2>1, <3>2, <1>2, Zenon
  <2>2. CASE e.op = "ifmarked"
    <3>1. Branch(e, rs, mk) = IF ~IsSym(rs[1]) THEN 0
                              ELSE IF <<e.a, rs[1].s>> \in mk THEN 2 ELSE 3
      BY <2>2 DEF Branch
    <3>2. Branch(e, rs, mk) \in {2, 3}
      BY <3>1, Zenon
    <3> QED
      BY <1>1, <2>2, <3>2, <1>2, Zenon
  <2>3. CASE e.op = "compare"
    <3>1. Branch(e, rs, mk) = IF ~IsSym(rs[2]) THEN 0
                              ELSE IF Addr[rs[1].s] < Addr[rs[2].s] THEN 3 ELSE 4
      BY <2>3 DEF Branch
    <3>2. Branch(e, rs, mk) \in {3, 4}
      BY <3>1, Zenon
    <3> QED
      BY <1>1, <2>3, <3>2, <1>2, Zenon
  <2>4. CASE e.op = "ifequal"
    <3>1. Branch(e, rs, mk) = IF rs[1] = rs[2] THEN 3 ELSE 4
      BY <2>4 DEF Branch
    <3>2. Branch(e, rs, mk) \in {3, 4}
      BY <3>1, Zenon
    <3> QED
      BY <1>1, <2>4, <3>2, <1>2, Zenon
  <2> QED
    BY <2>1, <2>2, <2>3, <2>4 DEF Conditionals
<1> QED
  BY <1>3, CodeFacts

\* the case that a match takes is one of its cases
LEMMA CaseFacts ==
    ASSUME NEW e \in Pieces, e.op = "match", NEW v, CaseOf(e, v) # 0
    PROVE  /\ CaseOf(e, v) \in DOMAIN e.a /\ Binder(e.a[CaseOf(e, v)].xs)
           /\ e.a[CaseOf(e, v)].c # "default" =>
                 v.t \in {"sym", "app"} /\ e.a[CaseOf(e, v)].c = v.s
           /\ CaseOf(e, v) \in Nat \ {0} /\ CaseOf(e, v) + 1 \in 1..Len(e.kids)
           /\ e.kids[CaseOf(e, v) + 1] \in Pieces
<1> DEFINE fits(i) == e.a[i].c = "default" \/ (v.t \in {"sym", "app"} /\ e.a[i].c = v.s)
           hits == {i \in DOMAIN e.a : fits(i)}
<1>1. /\ DOMAIN e.a = 1..(Len(e.kids) - 1) /\ Len(e.kids) \in Nat
      /\ \A i \in DOMAIN e.a : Binder(e.a[i].xs)
  BY CodeFacts DEF WellFormed, Leaves
<1>2. hits # {} /\ CaseOf(e, v) = CHOOSE i \in hits : \A j \in hits : i <= j
  BY DEF CaseOf
<1>3. /\ hits \subseteq Nat /\ hits \subseteq DOMAIN e.a
      /\ \A i \in hits : e.a[i].c # "default" => v.t \in {"sym", "app"} /\ e.a[i].c = v.s
  BY <1>1
<1> HIDE DEF hits
<1>4. \E i \in hits : \A j \in hits : i <= j
  <2>1. PICK i \in hits : \A j \in hits : <<j, i>> \notin OpToRel(<, Nat)
    BY <1>2, <1>3, WFMin, NatLessThanWellFounded
  <2>2. \A j \in hits : ~(j < i)
    BY <1>3, <2>1 DEF OpToRel
  <2> QED
    BY <1>3, <2>2
<1>5. CaseOf(e, v) \in hits /\ CaseOf(e, v) \in DOMAIN e.a
  BY <1>2, <1>3, <1>4
<1>6. CaseOf(e, v) \in Nat \ {0} /\ CaseOf(e, v) + 1 \in 1..Len(e.kids)
  BY <1>1, <1>5
<1>7. e.a[CaseOf(e, v)].c # "default" => v.t \in {"sym", "app"} /\ e.a[CaseOf(e, v)].c = v.s
  BY <1>3, <1>5
<1>8. e.kids[CaseOf(e, v) + 1] \in Pieces
  BY <1>6, CodeFacts
<1> QED
  BY <1>1, <1>5, <1>6, <1>7, <1>8

-----------------------------------------------------------------------------
(* Steps *)

LEMMA FramesAppend ==
    ASSUME NEW st, Frames(st), NEW f, IsFrame(f)
    PROVE  Frames(Append(st, f))
<1>1. /\ IsSeq(Append(st, f)) /\ Len(st) \in Nat /\ Len(Append(st, f)) = Len(st) + 1
      /\ (\A i \in 1..Len(st) : Append(st, f)[i] = st[i]) /\ Append(st, f)[Len(st) + 1] = f
  BY AppendFacts DEF Frames
<1>2. \A i \in 1..(Len(st) + 1) : i \in 1..Len(st) \/ i = Len(st) + 1
  BY <1>1
<1> QED
  BY <1>1, <1>2 DEF Frames

LEMMA FramesFront ==
    ASSUME NEW st, Frames(st), st # <<>>
    PROVE  Frames(Front(st)) /\ IsFrame(st[Len(st)]) /\ IsSeq(st)
<1>1. /\ IsSeq(Front(st)) /\ Len(st) \in Nat \ {0} /\ Len(Front(st)) = Len(st) - 1
      /\ \A i \in 1..(Len(st) - 1) : Front(st)[i] = st[i]
  BY FrontFacts DEF Frames
<1>2. Len(st) \in 1..Len(st) /\ \A i \in 1..(Len(st) - 1) : i \in 1..Len(st)
  BY <1>1
<1> QED
  BY <1>1, <1>2 DEF Frames

\* The running activation starts another one.
LEMMA Starts ==
    ASSUME Inv, NEW f, IsFrame(f), ~f.body, stack' = Append(stack, f), mode' = "eval",
           cur' \in Pieces, UNCHANGED <<body, val, stale, useCache>>
    PROVE  Inv'
<1>1. Frames(stack')
  BY FramesAppend DEF Inv
<1>2. Chain(stack', val', stale')
  BY ChainPush DEF Inv, Frames
<1> QED
  BY <1>1, <1>2 DEF Inv

\* The top activation returns or ends with a goto.
LEMMA Ends ==
    ASSUME Inv, stack # <<>>, Pop, body' = body,
           mode' = "ret" \/ (mode' = "eval" /\ cur' \in Pieces),
           DOMAIN val' = Var, stale' \subseteq Var, stale \subseteq stale',
           \A x \in Var \ stale' : val'[x] = IF Binds(Top, x) THEN Saved(Top, x) ELSE val[x]
    PROVE  Inv'
<1>1. stack' = Front(stack) /\ useCache' = Top.uc
  BY DEF Pop
<1>2. Frames(stack') /\ IsFrame(Top) /\ IsSeq(stack)
  BY <1>1, FramesFront DEF Inv, Top
<1>3. Chain(Front(stack), val', stale')
  BY <1>2, ChainPop DEF Inv, Top
<1>4. useCache' \in BOOLEAN
  BY <1>1, <1>2 DEF IsFrame
<1> QED
  BY <1>1, <1>2, <1>3, <1>4 DEF Inv

\* an activation that has not bound anything ends
LEMMA EndsPlain ==
    ASSUME Inv, stack # <<>>, ~Top.body, Pop, UNCHANGED <<body, val, stale>>,
           mode' = "ret" \/ (mode' = "eval" /\ cur' \in Pieces)
    PROVE  Inv'
<1>1. \A x : ~Binds(Top, x)
  BY DEF Binds
<1>2. \A x \in Var \ stale' : val'[x] = IF Binds(Top, x) THEN Saved(Top, x) ELSE val[x]
  BY <1>1
<1>3. DOMAIN val' = Var /\ stale' \subseteq Var /\ stale \subseteq stale'
  BY DEF Inv
<1> QED
  BY <1>2, <1>3, Ends

\* The top activation goes on as f.
LEMMA GoesOn ==
    ASSUME Inv, stack # <<>>, ~Top.body, NEW f, IsFrame(f),
           stack' = Append(Front(stack), f), mode' = "eval", cur' \in Pieces,
           useCache' \in BOOLEAN, body' = body, stale' = stale, DOMAIN val' = Var,
           \A x \in Var : val'[x] = IF Binds(f, x) THEN BoundTo(f, x) ELSE val[x],
           \A x \in Var : Binds(f, x) => Saved(f, x) = val[x]
    PROVE  Inv'
<1>1. Frames(stack') /\ IsSeq(stack)
  BY FramesFront, FramesAppend DEF Inv
<1>2. Chain(stack', val', stale)
  BY <1>1, ChainSwap DEF Inv, Top
<1> QED
  BY <1>1, <1>2 DEF Inv

\* what the top activation and its results look like
LEMMA TopFacts ==
    ASSUME Inv, stack # <<>>
    PROVE  /\ IsFrame(Top) /\ Top.e \in Pieces /\ Top.e.op \notin Leaves
           /\ Top.uc \in BOOLEAN /\ IsSeq(Results)
           /\ Len(Top.rs) \in Nat /\ Len(Results) = Len(Top.rs) + 1
           /\ Len(Results) = 1 => Results[1] = cur
<1>1. IsFrame(Top)
  BY FramesFront DEF Inv, Top
<1>2. IsSeq(Top.rs)
  BY <1>1 DEF IsFrame
<1>3. /\ IsSeq(Results) /\ Len(Top.rs) \in Nat /\ Len(Results) = Len(Top.rs) + 1
      /\ Results[Len(Top.rs) + 1] = cur
  BY <1>2, AppendFacts DEF Results
<1> QED
  BY <1>1, <1>3 DEF IsFrame

\* an activation with some of its fields replaced
LEMMA FrameExcept ==
    ASSUME NEW t, DOMAIN t = {"e", "rs", "body", "xs", "old", "uc"},
           NEW rs, NEW b, NEW xs, NEW old
    PROVE  /\ LET f == [t EXCEPT !.rs = rs, !.body = b, !.xs = xs, !.old = old]
              IN  /\ DOMAIN f = DOMAIN t /\ f.e = t.e /\ f.rs = rs /\ f.body = b
                  /\ f.xs = xs /\ f.old = old /\ f.uc = t.uc
           /\ LET f == [t EXCEPT !.rs = rs]
              IN  /\ DOMAIN f = DOMAIN t /\ f.e = t.e /\ f.rs = rs /\ f.body = t.body
                  /\ f.xs = t.xs /\ f.old = t.old /\ f.uc = t.uc
  BY Zenon

\* An activation binds its variables and runs its body.
LEMMA BodyStarts ==
    ASSUME Inv, NEW ops, Ready(ops), NEW xs, Binder(xs), NEW vs, NEW e \in Pieces,
           NEW uc \in BOOLEAN, RunBody(xs, vs, e, uc), UNCHANGED <<body, stale>>,
           Top.e.op \in {"call", "let", "match"},
           \A k \in DOMAIN xs :
              vs[k] = CASE Top.e.op = "call" -> Results[k]
                        [] Top.e.op = "let" -> Results[1]
                        [] Top.e.op = "match" -> Results[1].args[k]
    PROVE  Inv'
<1> DEFINE t == Top
           f == [t EXCEPT !.rs = Results, !.body = TRUE, !.xs = xs, !.old = Held(val, xs)]
<1>1. /\ stack # <<>> /\ ~t.body /\ Len(Results) = Strict(t.e)
      /\ mode' = "eval" /\ cur' = e /\ useCache' = uc /\ val' = Store(val, xs, vs)
  BY DEF Ready, RunBody, Eval
<1>2. /\ IsFrame(t) /\ t.e \in Pieces /\ t.e.op \notin Leaves
      /\ t.uc \in BOOLEAN /\ IsSeq(Results)
  BY <1>1, TopFacts
<1>3. stack' = Append(Front(stack), f)
  BY DEF RunBody
<1> HIDE DEF t
<1>4. /\ f.e = t.e /\ f.rs = Results /\ f.body = TRUE /\ f.xs = xs /\ f.old = Held(val, xs)
      /\ f.uc = t.uc /\ DOMAIN f = DOMAIN t
  BY <1>2, FrameExcept DEF IsFrame
<1> HIDE DEF f
<1>5. /\ DOMAIN val' = Var
      /\ \A x \in Var : (\A k \in DOMAIN xs : xs[k] # x) => val'[x] = val[x]
      /\ \A k \in DOMAIN xs : xs[k] \in Var /\ val'[xs[k]] = vs[k] /\ Held(val, xs)[k] = val[xs[k]]
      /\ DOMAIN Held(val, xs) = DOMAIN xs
  BY <1>1, StoreFacts
<1>6. t.e.op \in {"call", "let", "match"}
  BY DEF t
<1>7. Strict(t.e) \in Nat
  BY <1>2, StrictFacts, CodeFacts
<1>8. IsFrame(f)
  <2>1. DOMAIN f = {"e", "rs", "body", "xs", "old", "uc"} /\ IsSeq(f.rs)
    BY <1>2, <1>4 DEF IsFrame
  <2>2. Len(f.rs) = Strict(f.e) /\ Len(f.rs) <= Strict(f.e)
    BY <1>1, <1>4, <1>7
  <2>3. f.e \in Pieces /\ f.e.op \notin Leaves /\ f.e.op \in {"call", "let", "match"}
    BY <1>2, <1>4, <1>6
  <2>4. f.body \in BOOLEAN /\ f.uc \in BOOLEAN /\ Binder(f.xs) /\ DOMAIN f.old = DOMAIN f.xs
    BY <1>2, <1>4, <1>5, Zenon
  <2> QED
    BY <2>1, <2>2, <2>3, <2>4, Zenon DEF IsFrame
<1>9. ASSUME NEW k \in DOMAIN xs
       PROVE  val'[xs[k]] = BoundTo(f, xs[k]) /\ Saved(f, xs[k]) = val[xs[k]]
  <2>1. LastOf(xs, xs[k]) = k
    BY LastOfFacts
  <2>2. vs[k] = CASE t.e.op = "call" -> Results[k]
                  [] t.e.op = "let" -> Results[1]
                  [] t.e.op = "match" -> Results[1].args[k]
    BY DEF t
  <2>3. val'[xs[k]] = BoundTo(f, xs[k])
    BY <2>1, <2>2, <1>4, <1>5, <1>6 DEF BoundTo
  <2>4. Saved(f, xs[k]) = val[xs[k]]
    BY <2>1, <1>4, <1>5 DEF Saved
  <2> QED
    BY <2>3, <2>4
<1>10. \A x : Binds(f, x) <=> \E k \in DOMAIN xs : xs[k] = x
  BY <1>4 DEF Binds
<1>11. \A x \in Var : val'[x] = IF Binds(f, x) THEN BoundTo(f, x) ELSE val[x]
  BY <1>5, <1>9, <1>10
<1>12. \A x \in Var : Binds(f, x) => Saved(f, x) = val[x]
  BY <1>9, <1>10
<1>13. ~Top.body /\ useCache' \in BOOLEAN /\ cur' \in Pieces /\ mode' = "eval" /\ stack # <<>>
  BY <1>1 DEF t
<1> QED
  BY <1>3, <1>5, <1>8, <1>11, <1>12, <1>13, GoesOn

\* A result is there at once.
LEMMA Stays ==
    ASSUME Inv, UNCHANGED <<body, val, stack, stale, useCache>>, mode' = "ret"
    PROVE  Inv'
  BY DEF Inv

LEMMA EnterInv ==
    ASSUME Inv, Enter
    PROVE  Inv'
<1> DEFINE f == [e |-> cur, rs |-> <<>>, body |-> FALSE, xs |-> <<>>, old |-> <<>>,
                 uc |-> useCache]
<1>1. /\ stack' = Append(stack, f) /\ mode' = "eval" /\ cur' = cur.kids[1]
      /\ cur \in Pieces /\ cur.op \notin Leaves /\ useCache \in BOOLEAN
      /\ UNCHANGED <<body, val, stale, useCache>>
  BY DEF Enter, Eval, Inv
<1>2. /\ DOMAIN f = {"e", "rs", "body", "xs", "old", "uc"}
      /\ f.e = cur /\ f.rs = <<>> /\ f.body = FALSE /\ f.xs = <<>> /\ f.old = <<>>
      /\ f.uc = useCache
  OBVIOUS
<1> HIDE DEF f
<1>3. Strict(cur) \in 1..Len(cur.kids) /\ Len(cur.kids) \in Nat
      /\ \A i \in 1..Len(cur.kids) : cur.kids[i] \in Pieces
  BY <1>1, StrictFacts, CodeFacts
<1>4. cur' \in Pieces
  <2>1. 1 \in 1..Len(cur.kids)
    BY <1>3
  <2> QED
    BY <1>1, <1>3, <2>1
<1>5. IsFrame(f)
  <2>1. Binder(<<>>)
    BY DEF Binder, IsInjective
  <2>2. IsSeq(<<>>)
    <3>1. <<>> \in Seq({})
      OBVIOUS
    <3> QED
      BY <3>1, Zenon DEF IsSeq
  <2>3. Len(<<>>) <= Strict(cur)
    BY <1>3
  <2> QED
    BY <1>1, <1>2, <2>1, <2>2, <2>3, Zenon DEF IsFrame
<1> QED
  BY <1>1, <1>2, <1>4, <1>5, Starts

LEMMA NextKidInv ==
    ASSUME Inv, NextKid
    PROVE  Inv'
<1> DEFINE t == Top
           f == [t EXCEPT !.rs = Results]
           n == Len(Results)
<1>1. /\ stack # <<>> /\ ~t.body /\ n < Strict(t.e)
      /\ stack' = Append(Front(stack), f) /\ mode' = "eval" /\ cur' = t.e.kids[n + 1]
      /\ useCache' = t.uc /\ UNCHANGED <<body, val, stale>>
  BY DEF NextKid, Eval
<1>2. /\ IsFrame(t) /\ t.e \in Pieces /\ t.e.op \notin Leaves
      /\ t.uc \in BOOLEAN /\ IsSeq(Results) /\ n \in Nat
  <2>1. /\ IsFrame(t) /\ t.e \in Pieces /\ t.e.op \notin Leaves
        /\ t.uc \in BOOLEAN /\ IsSeq(Results) /\ Len(t.rs) \in Nat /\ n = Len(t.rs) + 1
    BY <1>1, TopFacts
  <2> QED
    BY <2>1
<1>3. n = Len(Results) /\ (~Top.body <=> ~t.body)
  OBVIOUS
<1> HIDE DEF t, n
<1>4. /\ f.e = t.e /\ f.rs = Results /\ f.body = t.body /\ f.xs = t.xs /\ f.old = t.old
      /\ f.uc = t.uc /\ DOMAIN f = DOMAIN t
  BY <1>2, FrameExcept DEF IsFrame
<1> HIDE DEF f
<1>5. Strict(t.e) \in 1..Len(t.e.kids) /\ Len(t.e.kids) \in Nat
      /\ \A i \in 1..Len(t.e.kids) : t.e.kids[i] \in Pieces
  BY <1>2, StrictFacts, CodeFacts
<1>6. cur' \in Pieces
  <2>1. n + 1 \in 1..Len(t.e.kids)
    BY <1>1, <1>2, <1>5
  <2> QED
    BY <1>1, <1>5, <2>1
<1>7. IsFrame(f)
  <2>1. Len(f.rs) <= Strict(f.e)
    BY <1>1, <1>2, <1>3, <1>4, <1>5
  <2> QED
    BY <1>1, <1>2, <1>4, <2>1, Zenon DEF IsFrame
<1>8. \A x : ~Binds(f, x)
  BY <1>1, <1>4 DEF Binds
<1>9. DOMAIN val' = Var
  BY <1>1 DEF Inv
<1> QED
  BY <1>1, <1>2, <1>3, <1>6, <1>7, <1>8, <1>9, GoesOn

LEMMA ConditionalInv ==
    ASSUME Inv, Conditional
    PROVE  Inv'
<1> DEFINE b == Branch(Top.e, Denoted(Results), marks)
<1>1. /\ stack # <<>> /\ ~Top.body /\ Top.e.op \in Conditionals
      /\ IF b = 0 THEN Return(Null) ELSE Eval(Top.e.kids[b])
      /\ Pop /\ UNCHANGED <<body, val, stale>>
  BY DEF Conditional, Ready
<1>2. Top.e \in Pieces
  BY <1>1, TopFacts
<1>3. b # 0 => Top.e.kids[b] \in Pieces
  BY <1>1, <1>2, BranchFacts
<1>4. mode' = "ret" \/ (mode' = "eval" /\ cur' \in Pieces)
  BY <1>1, <1>3 DEF Return, Eval
<1> QED
  BY <1>1, <1>4, EndsPlain

LEMMA MatchInv ==
    ASSUME Inv, Match
    PROVE  Inv'
<1> DEFINE i == CaseOf(Top.e, cur.v)
<1>1. /\ Ready({"match"}) /\ stack # <<>> /\ ~Top.body /\ Top.e.op = "match"
      /\ UNCHANGED <<body, stale>>
      /\ Len(Results) = Strict(Top.e)
  BY DEF Match, Ready
<1>2. Top.e \in Pieces /\ Top.uc \in BOOLEAN /\ (Len(Results) = 1 => Results[1] = cur)
  BY <1>1, TopFacts
<1>3. i # 0 => Binder(Top.e.a[i].xs) /\ Top.e.kids[i + 1] \in Pieces
  BY <1>1, <1>2, CaseFacts
<1>4. \/ i = 0 /\ Return(Null) /\ Pop /\ UNCHANGED val
      \/ i # 0 /\ Eval(Top.e.kids[i + 1]) /\ Pop /\ UNCHANGED val
      \/ i # 0 /\ RunBody(Top.e.a[i].xs, cur.args, Top.e.kids[i + 1], Top.uc)
  BY DEF Match
<1> HIDE DEF i
<1>5. CASE i = 0 /\ Return(Null) /\ Pop /\ UNCHANGED val
  BY <1>1, <1>5, EndsPlain DEF Return
<1>6. CASE i # 0 /\ Eval(Top.e.kids[i + 1]) /\ Pop /\ UNCHANGED val
  BY <1>1, <1>3, <1>6, EndsPlain DEF Eval
<1>7. CASE i # 0 /\ RunBody(Top.e.a[i].xs, cur.args, Top.e.kids[i + 1], Top.uc)
  <2> DEFINE xs == Top.e.a[i].xs
             e == Top.e.kids[i + 1]
  <2>1. Binder(xs) /\ e \in Pieces /\ RunBody(xs, cur.args, e, Top.uc)
    BY <1>3, <1>7
  <2> HIDE DEF xs, e
  <2>2. Strict(Top.e) = 1
    BY <1>1 DEF Strict
  <2>3. Results[1] = cur
    BY <2>2, <1>1, <1>2
  <2>4. \A k \in DOMAIN xs :
           cur.args[k] = CASE Top.e.op = "call" -> Results[k]
                           [] Top.e.op = "let" -> Results[1]
                           [] Top.e.op = "match" -> Results[1].args[k]
    BY <2>3, <1>1
  <2>5. Top.e.op \in {"call", "let", "match"}
    BY <1>1
  <2> QED
    BY <2>1, <2>4, <2>5, <1>1, <1>2, BodyStarts
<1> QED
  BY <1>4, <1>5, <1>6, <1>7

LEMMA LetInv ==
    ASSUME Inv, Let
    PROVE  Inv'
<1>1. /\ Ready({"let"}) /\ stack # <<>> /\ Top.e.op = "let"
      /\ Len(Results) = Strict(Top.e) /\ UNCHANGED <<body, stale>>
      /\ RunBody(<<Top.e.a>>, <<cur>>, Top.e.kids[2], Top.uc)
  BY DEF Let, Ready
<1>2. Top.e \in Pieces /\ Top.uc \in BOOLEAN /\ (Len(Results) = 1 => Results[1] = cur)
  BY <1>1, TopFacts
<1>3. Top.e.a \in Var /\ Len(Top.e.kids) = 2
  BY <1>1, <1>2, CodeFacts DEF WellFormed, Leaves
<1> DEFINE xs == <<Top.e.a>>
           vs == <<cur>>
           e == Top.e.kids[2]
<1>4. Binder(xs) /\ DOMAIN xs = {1} /\ vs[1] = cur
  BY <1>3 DEF Binder, IsInjective
<1>5. e \in Pieces
  <2>1. 2 \in 1..Len(Top.e.kids)
    BY <1>3
  <2> QED
    BY <2>1, <1>2, CodeFacts
<1>6. RunBody(xs, vs, e, Top.uc)
  BY <1>1
<1> HIDE DEF xs, vs, e
<1>7. Results[1] = cur
  <2>1. Strict(Top.e) = 1
    BY <1>1 DEF Strict
  <2> QED
    BY <2>1, <1>1, <1>2
<1>8. \A k \in DOMAIN xs :
         vs[k] = CASE Top.e.op = "call" -> Results[k]
                   [] Top.e.op = "let" -> Results[1]
                   [] Top.e.op = "match" -> Results[1].args[k]
  BY <1>1, <1>4, <1>7
<1>9. Top.e.op \in {"call", "let", "match"}
  BY <1>1
<1> QED
  BY <1>1, <1>2, <1>4, <1>5, <1>6, <1>8, <1>9, BodyStarts

\* a call has a program, and binds its parameters
LEMMA CallFacts ==
    ASSUME Inv, Ready({"call"})
    PROVE  /\ stack # <<>> /\ ~Top.body /\ Top.e.op = "call"
           /\ Top.e.a \in Prog /\ Binder(Params[Top.e.a]) /\ body[Top.e.a] \in Pieces
<1>1. stack # <<>> /\ ~Top.body /\ Top.e.op = "call"
  BY DEF Ready
<1>2. Top.e \in Pieces
  BY <1>1, TopFacts
<1>3. Top.e.a \in Prog
  BY <1>1, <1>2, CodeFacts DEF WellFormed, Leaves
<1> QED
  BY <1>1, <1>3, ProgAssumption DEF Inv

LEMMA CallInv ==
    ASSUME Inv, Call
    PROVE  Inv'
<1> DEFINE xs == Params[Top.e.a]
           e == body[Top.e.a]
           uc == Top.e.a \in functions
<1>1. Ready({"call"}) /\ RunBody(xs, Results, e, uc) /\ UNCHANGED <<body, stale>>
  BY DEF Call
<1>2. Top.e.op = "call" /\ Binder(xs) /\ e \in Pieces
  BY <1>1, CallFacts
<1>3. uc \in BOOLEAN
  OBVIOUS
<1> HIDE DEF xs, e, uc
<1>4. \A k \in DOMAIN xs :
         Results[k] = CASE Top.e.op = "call" -> Results[k]
                        [] Top.e.op = "let" -> Results[1]
                        [] Top.e.op = "match" -> Results[1].args[k]
  BY <1>2
<1>5. Top.e.op \in {"call", "let", "match"}
  BY <1>2
<1> QED
  BY <1>1, <1>2, <1>3, <1>4, <1>5, BodyStarts

\* The parameters that stay bound are stale from then on.
LEMMA LeaveBoundInv ==
    ASSUME Inv, Ready({"call"}), NEW r, LeaveBound(r)
    PROVE  Inv'
<1> DEFINE xs == Params[Top.e.a]
           left == {x \in Var : \E i \in DOMAIN xs : xs[i] = x}
<1>1. /\ val' = Store(val, xs, Results) /\ stale' = stale \cup left
      /\ mode' = "ret" /\ Pop /\ body' = body
  BY DEF LeaveBound, Return
<1>2. stack # <<>> /\ ~Top.body /\ Binder(xs)
  BY CallFacts
<1>3. left \subseteq Var /\ \A x \in Var \ left : \A i \in DOMAIN xs : xs[i] # x
  OBVIOUS
<1> HIDE DEF xs, left
<1>4. /\ DOMAIN val' = Var
      /\ \A x \in Var : (\A k \in DOMAIN xs : xs[k] # x) => val'[x] = val[x]
  BY <1>1 DEF Store
<1>5. \A x : ~Binds(Top, x)
  BY <1>2 DEF Binds
<1>6. \A x \in Var \ stale' : val'[x] = IF Binds(Top, x) THEN Saved(Top, x) ELSE val[x]
  BY <1>1, <1>3, <1>4, <1>5
<1>7. stale' \subseteq Var /\ stale \subseteq stale'
  BY <1>1, <1>3 DEF Inv
<1> QED
  BY <1>1, <1>2, <1>4, <1>6, <1>7, Ends

LEMMA BodyDoneInv ==
    ASSUME Inv, BodyDone
    PROVE  Inv'
<1> DEFINE t == Top
<1>1. /\ stack # <<>> /\ t.body /\ val' = Store(val, t.xs, t.old)
      /\ mode' = "ret" /\ Pop /\ UNCHANGED <<body, stale>>
  BY DEF BodyDone, Return
<1>2. IsFrame(t)
  BY <1>1, TopFacts
<1>3. Binder(t.xs)
  BY <1>2 DEF IsFrame
<1> HIDE DEF t
<1>4. /\ DOMAIN val' = Var
      /\ \A x \in Var : (\A k \in DOMAIN t.xs : t.xs[k] # x) => val'[x] = val[x]
      /\ \A k \in DOMAIN t.xs : val'[t.xs[k]] = t.old[k]
  <2> DEFINE w == Store(val, t.xs, t.old)
  <2>1. /\ DOMAIN w = Var
        /\ \A x \in Var : (\A k \in DOMAIN t.xs : t.xs[k] # x) => w[x] = val[x]
        /\ \A k \in DOMAIN t.xs : w[t.xs[k]] = t.old[k]
    BY <1>3, StoreFacts
  <2> QED
    BY <1>1, <2>1, Zenon
<1>5. \A k \in DOMAIN t.xs : Saved(t, t.xs[k]) = t.old[k]
  BY <1>3, LastOfFacts DEF Saved
<1>6. \A x \in Var : val'[x] = IF Binds(t, x) THEN Saved(t, x) ELSE val[x]
  BY <1>1, <1>4, <1>5 DEF Binds
<1>7. stale' \subseteq Var /\ stale \subseteq stale'
  BY <1>1 DEF Inv
<1> QED
  BY <1>1, <1>4, <1>6, <1>7, Ends DEF t

-----------------------------------------------------------------------------
(* The inductive invariant *)

LEMMA InitInv == Init => Inv
<1> SUFFICES ASSUME Init PROVE Inv
  OBVIOUS
<1>1. /\ val = [x \in Var |-> None] /\ stack = <<>> /\ mode = "eval" /\ cur = code
      /\ useCache = FALSE /\ stale = {}
  BY DEF Init
<1>2. PICK sig \in Signatures : body = sig.body /\ code \in sig.codes
  BY DEF Init
<1>3. body \in [Prog -> Pieces] /\ code \in Pieces
  BY <1>2, CodeAssumption DEF Closed
<1>4. IsSeq(<<>>) /\ Len(<<>>) = 0
  <2>1. <<>> \in Seq({})
    OBVIOUS
  <2> QED
    BY <2>1 DEF IsSeq
<1>5. Frames(stack)
  BY <1>1, <1>4 DEF Frames
<1>6. Chain(stack, val, stale)
  <2>1. Len(stack) = 0 /\ \A i \in 1..0 : FALSE
    BY <1>1, <1>4
  <2>2. \A x \in Var : val[x] = None
    BY <1>1
  <2> QED
    BY <2>1, <2>2, Zenon DEF Chain, IsBelow
<1> QED
  BY <1>1, <1>3, <1>5, <1>6 DEF Inv

LEMMA NextInv == Inv /\ [Next]_vars => Inv'
<1> SUFFICES ASSUME Inv, [Next]_vars PROVE Inv'
  OBVIOUS
<1>1. CASE Leaf \/ IfMarkedInFunction
  BY <1>1, Stays DEF Leaf, IfMarkedInFunction, Return
<1>2. CASE Enter
  BY <1>2, EnterInv
<1>3. CASE KidFails
  BY <1>3, EndsPlain DEF KidFails, Return
<1>4. CASE NextKid
  BY <1>4, NextKidInv
<1>5. CASE Do
  <2>1. /\ stack # <<>> /\ ~Top.body /\ Top.e.op = "do" /\ Pop
        /\ mode' = "eval" /\ cur' = Top.e.kids[2] /\ UNCHANGED <<body, val, stale>>
    BY <1>5 DEF Do, Ready, Eval
  <2>2. Top.e \in Pieces
    BY <2>1, TopFacts
  <2>3. Len(Top.e.kids) = 2
    BY <2>1, <2>2, CodeFacts DEF WellFormed, Leaves
  <2>4. 2 \in 1..Len(Top.e.kids)
    BY <2>3
  <2>5. cur' \in Pieces
    BY <2>1, <2>2, <2>4, CodeFacts
  <2> QED
    BY <2>1, <2>5, EndsPlain
<1>6. CASE Let
  BY <1>6, LetInv
<1>7. CASE Number
  <2>1. mode' = "ret"
    BY <1>7 DEF Number, New, Return
  <2> QED
    BY <1>7, <2>1, EndsPlain DEF Number, Ready
<1>8. CASE Conditional
  BY <1>8, ConditionalInv
<1>9. CASE MarkVar
  <2>1. mode' = "ret"
    BY <1>9 DEF MarkVar, Return
  <2> QED
    BY <1>9, <2>1, EndsPlain DEF MarkVar, Ready
<1>10. CASE Match
  BY <1>10, MatchInv
<1>11. CASE BuildApp
  BY <1>11, EndsPlain DEF BuildApp, Ready, New, Return
<1>12. CASE Call
  BY <1>12, CallInv
<1>13. CASE CacheHit
  BY <1>13, LeaveBoundInv DEF CacheHit
<1>14. CASE ProgramInFunction
  BY <1>14, LeaveBoundInv DEF ProgramInFunction
<1>15. CASE BodyDone
  BY <1>15, BodyDoneInv
<1>16. CASE RunCodeReturns
  BY <1>16 DEF RunCodeReturns, Inv
<1>17. CASE UNCHANGED vars
  BY <1>17 DEF vars, Inv
<1> QED
  BY <1>1, <1>2, <1>3, <1>4, <1>5, <1>6, <1>7, <1>8, <1>9, <1>10, <1>11, <1>12, <1>13,
     <1>14, <1>15, <1>16, <1>17 DEF Next

\* Whatever code run_code() is given, the activations on the C++ stack stay well
\* formed, and the values that they have saved form a chain down to no value.
THEOREM Invariance == Spec => []Inv
<1> QED
  BY InitInv, NextInv, PTL DEF Spec

-----------------------------------------------------------------------------
(* What follows from it *)

LEMMA InvTypeOK == Inv => TypeOK
<1> SUFFICES ASSUME Inv PROVE TypeOK
  OBVIOUS
<1>1. /\ DOMAIN val = Var /\ mode \in {"eval", "ret", "done"}
      /\ useCache \in BOOLEAN /\ stale \subseteq Var
  BY DEF Inv
<1>2. \A i \in DOMAIN stack : IsFrame(stack[i])
  <2>1. PICK S : stack \in Seq(S)
    BY DEF Inv, Frames, IsSeq
  <2>2. DOMAIN stack = 1..Len(stack)
    BY <2>1
  <2> QED
    BY <2>2 DEF Inv, Frames
<1>3. ASSUME NEW f, IsFrame(f)
      PROVE  /\ DOMAIN f.xs = DOMAIN f.old
             /\ \A j \in DOMAIN f.xs : f.xs[j] \in Var
             /\ f.body => Len(f.rs) = Strict(f.e)
             /\ Len(f.rs) <= Strict(f.e)
  BY <1>3 DEF IsFrame, Binder
<1> QED
  BY <1>1, <1>2, <1>3 DEF TypeOK

\* Variables keep their domain and every activation its shape: it has saved as
\* many values as it has bound variables, and runs its body after all its strict
\* kids.  This is what the restoring code after a sub-run relies on.
THEOREM TypeCorrect == Spec => []TypeOK
<1> QED
  BY Invariance, InvTypeOK, PTL

LEMMA InvArgsIntact == Inv => ArgsIntact
<1> SUFFICES ASSUME Inv, NEW i \in DOMAIN stack, stack[i].body,
                    NEW k \in DOMAIN stack[i].xs,
                    stack[i].xs[k] \notin stale, ~Rebound(stack[i].xs[k], i)
             PROVE  val[stack[i].xs[k]] = CASE stack[i].e.op = "call" -> stack[i].rs[k]
                                            [] stack[i].e.op = "let" -> stack[i].rs[1]
                                            [] stack[i].e.op = "match" -> stack[i].rs[1].args[k]
  BY DEF ArgsIntact
<1> DEFINE f == stack[i]
           x == f.xs[k]
           n == Len(stack)
<1>1. n \in Nat /\ i \in 1..n
  <2>1. PICK S : stack \in Seq(S)
    BY DEF Inv, Frames, IsSeq
  <2> QED
    BY <2>1
<1>2. IsFrame(f)
  BY <1>1 DEF Inv, Frames
<1>3. Binder(f.xs) /\ f.e.op \in {"call", "let", "match"}
  BY <1>2 DEF IsFrame
<1>4. x \in Var \ stale /\ LastOf(f.xs, x) = k
  BY <1>3, LastOfFacts DEF Binder
<1>5. Binds(f, x)
  BY DEF Binds
<1>6. \A j \in (i + 1)..n : ~Binds(stack[j], x)
  BY DEF Rebound, Binds
<1>7. IsBelow(stack, n, x, val[x])
  BY <1>4 DEF Inv, Chain
<1>8. PICK j \in 1..n : /\ Binds(stack[j], x) /\ val[x] = BoundTo(stack[j], x)
                        /\ \A m \in (j + 1)..n : ~Binds(stack[m], x)
  BY <1>1, <1>5, <1>7 DEF IsBelow
<1>9. j = i
  <2>1. j \notin (i + 1)..n /\ i \notin (j + 1)..n
    BY <1>5, <1>6, <1>8
  <2> QED
    BY <2>1, <1>1
<1>10. val[x] = BoundTo(f, x)
  BY <1>8, <1>9
<1> QED
  BY <1>3, <1>4, <1>10 DEF BoundTo

\* While the body of a program, a let or a case runs, its variables hold what it
\* bound them to unless an activation above has rebound them: every sub-run that
\* has returned, by whatever path and at whatever depth of recursion, has put
\* var->val back.  The exception are the variables that a cache hit, or a
\* program called from a function, has left bound.
THEOREM ArgsAreIntact == Spec => []ArgsIntact
<1> QED
  BY Invariance, InvArgsIntact, PTL

LEMMA InvValsRestored == Inv => ValsRestored
<1> SUFFICES ASSUME Inv, mode = "done", NEW x \in Var \ stale PROVE val[x] = None
  BY DEF ValsRestored
<1>1. stack = <<>>
  BY DEF Inv
<1>2. Len(stack) = 0 /\ \A i \in 1..0 : FALSE
  BY <1>1
<1>3. IsBelow(stack, 0, x, val[x])
  BY <1>2 DEF Inv, Chain
<1> QED
  BY <1>2, <1>3, Zenon DEF IsBelow

\* When run_code() returns, with a result or with NULL, no variable is bound any
\* more, apart from the parameters that the cache has left bound: the next side
\* condition starts like the first one.
THEOREM ValuesRestored == Spec => []ValsRestored
<1> QED
  BY Invariance, InvValsRestored, PTL
=============================================================================
