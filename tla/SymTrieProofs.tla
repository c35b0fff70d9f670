--------------------------- MODULE SymTrieProofs ----------------------------
(***************************************************************************)
(* SymTrie implements SymMap for every set of strings and entries.         *)
(*                                                                         *)
(* The invariant speaks of all the beginnings of a node's name, not of its *)
(* parent only: then no two nodes can hold the same string, because the    *)
(* shorter one would have children.  What get() returns is the entry of    *)
(* the one node that holds the string, so that a step that moves strings   *)
(* about is a stutter of the map.                                          *)
(***************************************************************************)
EXTENDS SymTrie, TLAPS, SequenceTheorems, WellFoundedInduction

NodeSet == [str : Seq(Char) \cup {NoStr}, d : Entry, using_next : BOOLEAN]

\* the nodes ns form a trie
Shape(ns) ==
    /\ ns \in [DOMAIN ns -> NodeSet]
    /\ DOMAIN ns \subseteq Seq(Char) /\ <<>> \in DOMAIN ns
    /\ \A p \in DOMAIN ns : ns[p].str = NoStr => ns[p].d = NoData
    /\ \A p \in DOMAIN ns : HasString(ns[p]) => ~ns[p].using_next
    /\ \A p \in DOMAIN ns : \A k \in 0..(Len(p) - 1) :
          Upto(p, k) \in DOMAIN ns /\ ns[Upto(p, k)].using_next

\* the insert() that runs is at a node that leads to its string
CallInv ==
    /\ call \in [busy : BOOLEAN, s : Seq(Char), x : Entry, at : Nat]
    /\ call.busy => call.s \in Key /\ call.at \in 0..Len(call.s) /\ At \in DOMAIN nodes

Inv == Shape(nodes) /\ CallInv /\ ret \in Entry

\* node p of ns holds the string s
Holds(ns, p, s) == p \in DOMAIN ns /\ ns[p].str # NoStr /\ p \o ns[p].str = s

-----------------------------------------------------------------------------
(* Strings *)

LEMMA UptoFacts ==
    ASSUME NEW s \in Seq(Char), NEW k \in 0..Len(s)
    PROVE  /\ Upto(s, k) \in Seq(Char) /\ Len(Upto(s, k)) = k
           /\ \A i \in 1..k : Upto(s, k)[i] = s[i]
           /\ After(s, k) \in Seq(Char) /\ Len(After(s, k)) = Len(s) - k
           /\ \A i \in 1..(Len(s) - k) : After(s, k)[i] = s[k + i]
<1>1. \A i \in 1..k : s[i] \in Char
  OBVIOUS
<1>2. \A i \in (k + 1)..Len(s) : s[i] \in Char
  OBVIOUS
<1>3. /\ SubSeq(s, 1, k) \in Seq(Char)
      /\ Len(SubSeq(s, 1, k)) = IF 1 <= k THEN k - 1 + 1 ELSE 0
      /\ \A i \in 1..(k - 1 + 1) : SubSeq(s, 1, k)[i] = s[1 + i - 1]
  BY <1>1, SubSeqProperties
<1>4. /\ SubSeq(s, k + 1, Len(s)) \in Seq(Char)
      /\ Len(SubSeq(s, k + 1, Len(s))) = IF k + 1 <= Len(s) THEN Len(s) - (k + 1) + 1 ELSE 0
      /\ \A i \in 1..(Len(s) - (k + 1) + 1) : SubSeq(s, k + 1, Len(s))[i] = s[(k + 1) + i - 1]
  BY <1>2, SubSeqProperties
<1> QED
  BY <1>3, <1>4 DEF Upto, After

LEMMA UptoAfter ==
    ASSUME NEW s \in Seq(Char), NEW k \in 0..Len(s)
    PROVE  Upto(s, k) \o After(s, k) = s
<1> DEFINE u == Upto(s, k)
           v == After(s, k)
<1>1. /\ u \in Seq(Char) /\ Len(u) = k /\ \A i \in 1..k : u[i] = s[i]
      /\ v \in Seq(Char) /\ Len(v) = Len(s) - k
      /\ \A i \in 1..(Len(s) - k) : v[i] = s[k + i]
  BY UptoFacts
<1> HIDE DEF u, v
<1>2. /\ u \o v \in Seq(Char) /\ Len(u \o v) = Len(u) + Len(v)
      /\ \A i \in 1..(Len(u) + Len(v)) : (u \o v)[i] = IF i <= Len(u) THEN u[i] ELSE v[i - Len(u)]
  BY <1>1, ConcatProperties
<1>3. Len(s) \in Nat /\ Len(u \o v) = Len(s)
  BY <1>1, <1>2
<1>4. ASSUME NEW i \in 1..Len(s) PROVE (u \o v)[i] = s[i]
  <2>1. CASE i <= k
    BY <2>1, <1>1, <1>2
  <2>2. CASE ~(i <= k)
    <3>1. i - k \in 1..(Len(s) - k) /\ k + (i - k) = i
      BY <2>2
    <3>2. (u \o v)[i] = v[i - k]
      BY <2>2, <1>1, <1>2, <1>3
    <3> QED
      BY <3>1, <3>2, <1>1
  <2> QED
    BY <2>1, <2>2
<1>5. u \o v = s
  BY <1>2, <1>3, <1>4, SeqEqual
<1> QED
  BY <1>5 DEF u, v

\* A string that begins with p is p and what comes after it.
LEMMA Beginning ==
    ASSUME NEW p \in Seq(Char), NEW r \in Seq(Char)
    PROVE  /\ p \o r \in Seq(Char) /\ Len(p) \in 0..Len(p \o r)
           /\ Upto(p \o r, Len(p)) = p /\ After(p \o r, Len(p)) = r
           /\ p \o r = p <=> r = <<>>
           /\ Len(p) = Len(p \o r) <=> r = <<>>
<1>1. /\ p \o r \in Seq(Char) /\ Len(p \o r) = Len(p) + Len(r)
      /\ \A i \in 1..(Len(p) + Len(r)) : (p \o r)[i] =
            IF i <= Len(p) THEN p[i] ELSE r[i - Len(p)]
  BY ConcatProperties
<1>2. Len(p) \in 0..Len(p \o r)
  BY <1>1
<1>3. Upto(p \o r, Len(p)) = p
  <2> DEFINE u == Upto(p \o r, Len(p))
  <2>1. u \in Seq(Char) /\ Len(u) = Len(p) /\ \A i \in 1..Len(p) : u[i] = (p \o r)[i]
    BY <1>1, <1>2, UptoFacts
  <2> HIDE DEF u
  <2>2. \A i \in 1..Len(p) : u[i] = p[i]
    BY <1>1, <2>1
  <2>3. u = p
    BY <2>1, <2>2, SeqEqual
  <2> QED
    BY <2>3 DEF u
<1>4. After(p \o r, Len(p)) = r
  <2> DEFINE v == After(p \o r, Len(p))
             n == Len(p \o r) - Len(p)
  <2>1. v \in Seq(Char) /\ Len(v) = n /\ \A i \in 1..n : v[i] = (p \o r)[Len(p) + i]
    BY <1>1, <1>2, UptoFacts
  <2>2. n = Len(r)
    BY <1>1
  <2> HIDE DEF v, n
  <2>3. ASSUME NEW i \in 1..Len(r) PROVE v[i] = r[i]
    <3>1. Len(p) + i \in 1..(Len(p) + Len(r)) /\ ~(Len(p) + i <= Len(p)) /\ (Len(p) + i) - Len(p) = i
      OBVIOUS
    <3>2. (p \o r)[Len(p) + i] = r[(Len(p) + i) - Len(p)]
      BY <1>1, <3>1
    <3> QED
      BY <2>1, <2>2, <3>1, <3>2
  <2>4. v = r
    BY <2>1, <2>2, <2>3, SeqEqual
  <2> QED
    BY <2>4 DEF v
<1>5. Len(p) = Len(p \o r) <=> r = <<>>
  BY <1>1
<1> QED
  BY <1>1, <1>2, <1>3, <1>4, <1>5, ConcatEqualIffEmpty

LEMMA UptoUpto ==
    ASSUME NEW s \in Seq(Char), NEW k \in 0..Len(s), NEW j \in 0..k
    PROVE  Upto(Upto(s, k), j) = Upto(s, j)
<1> DEFINE u == Upto(s, k)
           v == Upto(u, j)
           w == Upto(s, j)
<1>1. u \in Seq(Char) /\ Len(u) = k /\ \A i \in 1..k : u[i] = s[i]
  BY UptoFacts
<1>2. j \in 0..Len(s) /\ j \in 0..Len(u)
  BY <1>1
<1> HIDE DEF u
<1>3. v \in Seq(Char) /\ Len(v) = j /\ \A i \in 1..j : v[i] = u[i]
  BY <1>1, <1>2, UptoFacts
<1>4. w \in Seq(Char) /\ Len(w) = j /\ \A i \in 1..j : w[i] = s[i]
  BY <1>2, UptoFacts
<1> HIDE DEF v, w
<1>5. \A i \in 1..j : v[i] = w[i]
  BY <1>1, <1>3, <1>4
<1>6. v = w
  BY <1>3, <1>4, <1>5, SeqEqual
<1> QED
  BY <1>6 DEF u, v, w

LEMMA UptoAll ==
    ASSUME NEW s \in Seq(Char)
    PROVE  Upto(s, Len(s)) = s /\ After(s, Len(s)) = <<>> /\ Upto(s, 0) = <<>> /\ After(s, 0) = s
<1>1. Upto(s, Len(s)) = s
  BY SubSeqFull DEF Upto
<1>2. After(s, Len(s)) = <<>>
  BY UptoFacts
<1>3. Upto(s, 0) = <<>>
  BY UptoFacts
<1>4. After(s, 0) = s
  BY SubSeqFull DEF After
<1> QED
  BY <1>1, <1>2, <1>3, <1>4

\* The next node on the way down.
LEMMA Child ==
    ASSUME NEW p \in Seq(Char), NEW r \in Seq(Char), r # <<>>
    PROVE  /\ r[1] \in Char /\ Append(p, r[1]) \in Seq(Char)
           /\ Tail(r) \in Seq(Char)
           /\ Len(Append(p, r[1])) = Len(p) + 1
           /\ Append(p, r[1]) \o Tail(r) = p \o r
           /\ \A k \in 0..Len(p) : Upto(Append(p, r[1]), k) = Upto(p, k)
<1> DEFINE c == Append(p, r[1])
<1>1. r[1] \in Char /\ Len(r) \in Nat /\ Len(r) # 0
  OBVIOUS
<1>2. /\ c \in Seq(Char) /\ Len(c) = Len(p) + 1
      /\ \A i \in 1..Len(p) : c[i] = p[i]
      /\ c[Len(p) + 1] = r[1]
  BY <1>1, AppendProperties
<1> HIDE DEF c
<1>3. /\ Tail(r) \in Seq(Char) /\ Len(Tail(r)) = Len(r) - 1
      /\ \A i \in 1..Len(Tail(r)) : Tail(r)[i] = r[i + 1]
  BY HeadTailProperties
<1>4. c \o Tail(r) = p \o r
  <2>1. /\ c \o Tail(r) \in Seq(Char) /\ Len(c \o Tail(r)) = Len(c) + Len(Tail(r))
        /\ \A i \in 1..(Len(c) + Len(Tail(r))) : (c \o Tail(r))[i] =
              IF i <= Len(c) THEN c[i] ELSE Tail(r)[i - Len(c)]
    BY <1>2, <1>3, ConcatProperties
  <2>2. /\ p \o r \in Seq(Char) /\ Len(p \o r) = Len(p) + Len(r)
        /\ \A i \in 1..(Len(p) + Len(r)) : (p \o r)[i] =
              IF i <= Len(p) THEN p[i] ELSE r[i - Len(p)]
    BY ConcatProperties
  <2>3. Len(c) + Len(Tail(r)) = Len(p) + Len(r)
    BY <1>2, <1>3
  <2>4. ASSUME NEW i \in 1..(Len(p) + Len(r)) PROVE (c \o Tail(r))[i] = (p \o r)[i]
    <3>1. CASE i <= Len(p)
      BY <3>1, <2>1, <2>2, <2>3, <1>2
    <3>2. CASE i = Len(p) + 1
      BY <3>2, <2>1, <2>2, <2>3, <1>2
    <3>3. CASE i > Len(p) + 1
      <4>1. i - Len(c) \in 1..Len(Tail(r)) /\ (i - Len(c)) + 1 = i - Len(p)
        BY <3>3, <1>2, <1>3
      <4>2. (c \o Tail(r))[i] = Tail(r)[i - Len(c)]
        BY <3>3, <2>1, <2>3, <1>2
      <4>4. Tail(r)[i - Len(c)] = r[(i - Len(c)) + 1]
        BY <4>1, <1>3
      <4>3. (p \o r)[i] = r[i - Len(p)]
        BY <3>3, <2>2
      <4> QED
        BY <4>1, <4>2, <4>3, <4>4
    <3>4. i <= Len(p) \/ i = Len(p) + 1 \/ i > Len(p) + 1
      OBVIOUS
    <3> QED
      BY <3>1, <3>2, <3>3, <3>4, Zenon
  <2> QED
    BY <2>1, <2>2, <2>3, <2>4, SeqEqual
<1>5. ASSUME NEW k \in 0..Len(p) PROVE Upto(c, k) = Upto(p, k)
  <2> DEFINE u == Upto(c, k)
             v == Upto(p, k)
  <2>1. k \in 0..Len(c)
    BY <1>2
  <2>2. u \in Seq(Char) /\ Len(u) = k /\ \A i \in 1..k : u[i] = c[i]
    BY <2>1, <1>2, UptoFacts
  <2>3. v \in Seq(Char) /\ Len(v) = k /\ \A i \in 1..k : v[i] = p[i]
    BY UptoFacts
  <2> HIDE DEF u, v
  <2>4. \A i \in 1..k : u[i] = v[i]
    BY <2>2, <2>3, <1>2
  <2>5. u = v
    BY <2>2, <2>3, <2>4, SeqEqual
  <2> QED
    BY <2>5 DEF u, v
<1> QED
  BY <1>1, <1>2, <1>3, <1>4, <1>5 DEF c

-----------------------------------------------------------------------------
(* What get() returns *)

\* A node that holds s is a beginning of s, and holds the rest of it.
LEMMA HoldsFacts ==
    ASSUME NEW ns, Shape(ns), NEW p, NEW s, Holds(ns, p, s)
    PROVE  /\ s \in Seq(Char) /\ Len(p) \in 0..Len(s) /\ p \in Seq(Char)
           /\ p = Upto(s, Len(p)) /\ ns[p].str = After(s, Len(p))
           /\ ns[p].str \in Seq(Char)
           /\ ns[p].using_next => p = s
<1>1. p \in Seq(Char) /\ ns[p].str \in Seq(Char)
  BY DEF Holds, Shape, NodeSet
<1>2. ns[p].using_next => ns[p].str = <<>>
  BY DEF Holds, Shape, HasString
<1> QED
  BY <1>1, <1>2, Beginning DEF Holds

\* No two nodes hold the same string.
LEMMA HoldsOnce ==
    ASSUME NEW ns, Shape(ns), NEW s, NEW p, NEW q, Holds(ns, p, s), Holds(ns, q, s)
    PROVE  p = q
<1>1. ASSUME NEW x, NEW y, Holds(ns, x, s), Holds(ns, y, s) PROVE ~(Len(x) < Len(y))
  <2> SUFFICES ASSUME Len(x) < Len(y) PROVE FALSE
    OBVIOUS
  <2>1. /\ s \in Seq(Char)
        /\ x = Upto(s, Len(x)) /\ Len(x) \in 0..Len(s) /\ (ns[x].using_next => x = s)
        /\ y = Upto(s, Len(y)) /\ Len(y) \in 0..Len(s)
    BY <1>1, HoldsFacts
  <2>2. x = Upto(y, Len(x))
    BY <2>1, UptoUpto
  <2>3. ns[x].using_next
    <3>1. y \in DOMAIN ns /\ Len(x) \in 0..(Len(y) - 1)
      BY <1>1, <2>1 DEF Holds
    <3>2. ns[Upto(y, Len(x))].using_next
      BY <3>1 DEF Shape
    <3> QED
      BY <2>2, <3>2
  <2> QED
    BY <2>1, <2>3
<1>2. Len(p) \in Nat /\ Len(q) \in Nat /\ p = Upto(s, Len(p)) /\ q = Upto(s, Len(q))
  BY HoldsFacts
<1>3. Len(p) = Len(q)
  BY <1>1, <1>2
<1> QED
  BY <1>2, <1>3

\* The walk of get() finds the node that holds the string.
LEMMA LookupFound ==
    ASSUME NEW ns, Shape(ns), NEW s \in Seq(Char)
    PROVE  /\ \A p : Holds(ns, p, s) => Lookup(ns, s) = ns[p].d
           /\ (\A p : ~Holds(ns, p, s)) => Lookup(ns, s) = NoData
<1> DEFINE Here(k) == ns[Upto(s, k)]
           Ends(k) == \/ k = Len(s) \/ Upto(s, k + 1) \notin DOMAIN ns
                      \/ Answers(Here(k), After(s, k))
           IsLast(k) == Ends(k) /\ \A j \in 0..(k - 1) : ~Ends(j)
           last == CHOOSE k \in 0..Len(s) : IsLast(k)
<1>1. \E k \in 0..Len(s) : IsLast(k)
  <2> DEFINE T == {k \in 0..Len(s) : Ends(k)}
  <2>1. T \subseteq Nat /\ Len(s) \in T
    OBVIOUS
  <2>2. PICK k \in T : \A j \in T : <<j, k>> \notin OpToRel(<, Nat)
    BY <2>1, WFMin, NatLessThanWellFounded
  <2>3. \A j \in T : ~(j < k)
    BY <2>1, <2>2 DEF OpToRel
  <2> HIDE DEF Ends
  <2>4. \A j \in 0..(k - 1) : j \in 0..Len(s) /\ j < k
    OBVIOUS
  <2> QED
    BY <2>3, <2>4
<1> HIDE DEF Ends
<1>2. last \in 0..Len(s) /\ IsLast(last)
  BY <1>1
<1>3. Lookup(ns, s) = IF Answers(Here(last), After(s, last)) THEN Here(last).d ELSE NoData
  BY DEF Lookup, Ends
<1> HIDE DEF last
<1>4. Upto(s, last) \in DOMAIN ns
  <2>1. CASE last = 0
    BY <2>1, UptoAll DEF Shape
  <2>2. CASE last # 0
    <3>1. last - 1 \in 0..(last - 1) /\ (last - 1) + 1 = last
      BY <1>2, <2>2
    <3>2. ~Ends(last - 1)
      BY <1>2, <3>1
    <3> QED
      BY <3>1, <3>2 DEF Ends
  <2> QED
    BY <2>1, <2>2
<1>5. Here(last).str = After(s, last) => Holds(ns, Upto(s, last), s)
  <2>1. After(s, last) \in Seq(Char) /\ Upto(s, last) \o After(s, last) = s
    BY <1>2, UptoFacts, UptoAfter
  <2>2. After(s, last) # NoStr
    BY <2>1, StrAssumption
  <2> QED
    BY <2>1, <2>2, <1>4 DEF Holds
<1>6. ASSUME NEW p, Holds(ns, p, s) PROVE Lookup(ns, s) = ns[p].d
  <2> DEFINE k == Len(p)
  <2>1. k \in 0..Len(s) /\ p = Upto(s, k) /\ ns[p].str = After(s, k) /\ p \in DOMAIN ns
    BY <1>6, HoldsFacts DEF Holds
  <2> HIDE DEF k
  <2>2. Answers(Here(k), After(s, k))
    BY <2>1 DEF Answers
  <2>3. Ends(k)
    BY <2>2 DEF Ends
  <2>4. ~(k < last)
    <3> SUFFICES ASSUME k < last PROVE FALSE
      OBVIOUS
    <3>1. k \in 0..(last - 1)
      BY <1>2, <2>1
    <3> QED
      BY <1>2, <2>3, <3>1
  <2>5. last = k
    <3> SUFFICES ASSUME last < k PROVE FALSE
      BY <1>2, <2>1, <2>4
    <3>1. last \in 0..(k - 1) /\ last + 1 \in 0..k
      BY <1>2, <2>1
    <3>2. Upto(s, last + 1) \in DOMAIN ns
      <4>1. CASE last + 1 = k
        BY <4>1, <2>1
      <4>2. CASE last + 1 # k
        <5>1. last + 1 \in 0..(Len(p) - 1)
          BY <4>2, <3>1, <2>1 DEF k
        <5>2. Upto(p, last + 1) \in DOMAIN ns
          BY <5>1, <2>1 DEF Shape
        <5> QED
          BY <5>2, <3>1, <2>1, UptoUpto
      <4> QED
        BY <4>1, <4>2
    <3>3. Answers(Here(last), After(s, last))
      BY <1>2, <2>1, <3>2 DEF Ends
    <3>4. After(s, last) # <<>>
      BY <1>2, <2>1, UptoFacts
    <3>5. Holds(ns, Upto(s, last), s)
      BY <3>3, <3>4, <1>5 DEF Answers
    <3>6. Upto(s, last) = p
      BY <1>6, <3>5, HoldsOnce
    <3> QED
      BY <3>6, <1>2, <2>1, UptoFacts
  <2> QED
    BY <1>3, <2>1, <2>2, <2>5
<1>7. ASSUME \A p : ~Holds(ns, p, s) PROVE Lookup(ns, s) = NoData
  <2>1. Here(last).str # After(s, last)
    BY <1>5, <1>7
  <2>2. Answers(Here(last), After(s, last)) => Here(last).d = NoData
    BY <2>1, <1>4 DEF Answers, Shape
  <2> QED
    BY <1>3, <2>2
<1> QED
  BY <1>6, <1>7

\* Two tries that hold the same strings with the same entries answer the same.
LEMMA LookupSame ==
    ASSUME NEW ns, NEW ms, Shape(ns), Shape(ms), NEW s \in Seq(Char),
           \A p : Holds(ns, p, s) => \E q : Holds(ms, q, s) /\ ms[q].d = ns[p].d,
           \A q : Holds(ms, q, s) => \E p : Holds(ns, p, s)
    PROVE  Lookup(ms, s) = Lookup(ns, s)
<1>1. CASE \E p : Holds(ns, p, s)
  BY <1>1, LookupFound
<1>2. CASE \A p : ~Holds(ns, p, s)
  BY <1>2, LookupFound
<1> QED
  BY <1>1, <1>2

-----------------------------------------------------------------------------
(* The steps of insert() *)

\* A child that is not there yet fits below a node that holds no rest of a string
\* and knows of children.
LEMMA NewChild ==
    ASSUME NEW ns, Shape(ns), NEW p \in DOMAIN ns, ns[p].using_next,
           NEW c \in Seq(Char), c \notin DOMAIN ns, Len(c) = Len(p) + 1,
           \A k \in 0..Len(p) : Upto(c, k) = Upto(p, k),
           NEW n \in NodeSet, ~n.using_next, n.str = NoStr => n.d = NoData
    PROVE  Shape(Put(ns, c, n))
<1> DEFINE ms == Put(ns, c, n)
<1>1. /\ DOMAIN ms = DOMAIN ns \cup {c} /\ ms[c] = n
      /\ \A q \in DOMAIN ns : ms[q] = ns[q]
      /\ ms = [q \in DOMAIN ms |-> ms[q]]
  BY DEF Put
<1> HIDE DEF ms
<1>2. p \in Seq(Char) /\ Upto(p, Len(p)) = p
  BY UptoAll DEF Shape
<1>3. ms \in [DOMAIN ms -> NodeSet] /\ DOMAIN ms \subseteq Seq(Char) /\ <<>> \in DOMAIN ms
  BY <1>1 DEF Shape
<1>4. ASSUME NEW q \in DOMAIN ms
      PROVE  /\ ms[q].str = NoStr => ms[q].d = NoData
             /\ HasString(ms[q]) => ~ms[q].using_next
  BY <1>1 DEF Shape
<1>5. ASSUME NEW q \in DOMAIN ms, NEW k \in 0..(Len(q) - 1)
      PROVE  Upto(q, k) \in DOMAIN ms /\ ms[Upto(q, k)].using_next
  <2>1. CASE q \in DOMAIN ns
    BY <2>1, <1>1 DEF Shape
  <2>2. CASE q = c
    <3>1. k \in 0..Len(p) /\ Upto(c, k) = Upto(p, k)
      BY <2>2, <1>2
    <3>2. Upto(p, k) \in DOMAIN ns /\ ns[Upto(p, k)].using_next
      <4>1. CASE k = Len(p)
        BY <4>1, <1>2
      <4>2. CASE k # Len(p)
        <5>1. k \in 0..(Len(p) - 1)
          BY <4>2, <3>1, <1>2
        <5> QED
          BY <5>1 DEF Shape
      <4> QED
        BY <4>1, <4>2
    <3> QED
      BY <2>2, <3>1, <3>2, <1>1
  <2> QED
    BY <2>1, <2>2, <1>1
<1>6. Shape(ms)
  BY <1>3, <1>4, <1>5 DEF Shape
<1> QED
  BY <1>6 DEF ms

\* A node may be given other contents that keep its children.
LEMMA NewContents ==
    ASSUME NEW ns, Shape(ns), NEW p \in DOMAIN ns,
           NEW n \in NodeSet, n.str = NoStr => n.d = NoData,
           ns[p].using_next => n.using_next,
           HasString(n) => ~n.using_next
    PROVE  /\ Shape([ns EXCEPT ![p] = n])
           /\ DOMAIN [ns EXCEPT ![p] = n] = DOMAIN ns
           /\ \A q \in DOMAIN ns : [ns EXCEPT ![p] = n][q] = IF q = p THEN n ELSE ns[q]
<1> DEFINE ms == [ns EXCEPT ![p] = n]
<1>1. /\ DOMAIN ms = DOMAIN ns
      /\ \A q \in DOMAIN ns : ms[q] = IF q = p THEN n ELSE ns[q]
      /\ ms \in [DOMAIN ns -> NodeSet]
  BY DEF Shape
<1> HIDE DEF ms
<1>2. \A q \in DOMAIN ms : ns[q].using_next => ms[q].using_next
  BY <1>1
<1>3. \A q \in DOMAIN ms : (ms[q].str = NoStr => ms[q].d = NoData)
                          /\ (HasString(ms[q]) => ~ms[q].using_next)
  BY <1>1 DEF Shape
<1>4. Shape(ms)
  BY <1>1, <1>2, <1>3 DEF Shape
<1> QED
  BY <1>1, <1>4 DEF ms

\* insert_next(str, d) moves a string one node down, and get() does not notice.
LEMMA PushDownFacts ==
    ASSUME NEW ns, Shape(ns), NEW p \in DOMAIN ns, HasString(ns[p])
    PROVE  LET ms == PushDown(ns, p)
           IN  /\ Shape(ms) /\ DOMAIN ns \subseteq DOMAIN ms
               /\ ms[p] = Node(NoStr, NoData, TRUE)
               /\ \A s \in Seq(Char) : Lookup(ms, s) = Lookup(ns, s)
<1> DEFINE r == ns[p].str
           c == Append(p, r[1])
           up == [ns EXCEPT ![p] = Node(NoStr, NoData, TRUE)]
           n == Node(Tail(r), ns[p].d, FALSE)
           ms == Put(up, c, n)
<1>1. p \in Seq(Char) /\ r \in Seq(Char) /\ r # <<>> /\ r # NoStr /\ ns[p].d \in Entry
      /\ ~ns[p].using_next
  BY DEF Shape, NodeSet, HasString
<1>2. /\ r[1] \in Char /\ c \in Seq(Char) /\ Tail(r) \in Seq(Char)
      /\ Len(c) = Len(p) + 1 /\ c \o Tail(r) = p \o r
      /\ \A k \in 0..Len(p) : Upto(c, k) = Upto(p, k)
  BY <1>1, Child
<1>3. c \notin DOMAIN ns
  <2> SUFFICES ASSUME c \in DOMAIN ns PROVE FALSE
    OBVIOUS
  <2>1. Len(p) \in 0..(Len(c) - 1) /\ Upto(c, Len(p)) = p
    BY <1>1, <1>2, UptoAll
  <2> HIDE DEF c, r
  <2> QED
    BY <2>1, <1>1 DEF Shape
<1>4. n \in NodeSet /\ n.str = Tail(r) /\ n.d = ns[p].d /\ ~n.using_next /\ n.str # NoStr
  BY <1>1, <1>2, StrAssumption DEF Node, NodeSet
<1>5. /\ Shape(up) /\ DOMAIN up = DOMAIN ns
      /\ \A q \in DOMAIN ns : up[q] = IF q = p THEN Node(NoStr, NoData, TRUE) ELSE ns[q]
  <2>1. /\ Node(NoStr, NoData, TRUE) \in NodeSet
        /\ Node(NoStr, NoData, TRUE).str = NoStr
        /\ Node(NoStr, NoData, TRUE).d = NoData
        /\ Node(NoStr, NoData, TRUE).using_next
        /\ ~HasString(Node(NoStr, NoData, TRUE))
    BY DEF Node, NodeSet, HasString, Entry
  <2> QED
    BY <2>1, NewContents
<1>6. /\ DOMAIN ms = DOMAIN ns \cup {c} /\ ms[c] = n
      /\ \A q \in DOMAIN ns : ms[q] = IF q = p THEN Node(NoStr, NoData, TRUE) ELSE ns[q]
  BY <1>3, <1>5 DEF Put
<1>7. Shape(ms)
  <2>1. p \in DOMAIN up /\ up[p].using_next /\ c \notin DOMAIN up
    BY <1>3, <1>5 DEF Node
  <2>2. n.str = NoStr => n.d = NoData
    BY <1>4
  <2> HIDE DEF c, r, n, up
  <2> QED
    BY <2>1, <2>2, <1>2, <1>4, <1>5, NewChild
<1>8. PushDown(ns, p) = ms
  BY DEF PushDown
<1> HIDE DEF ms, c, r, n, up
<1>9. ASSUME NEW s \in Seq(Char) PROVE Lookup(ms, s) = Lookup(ns, s)
  <2>1. ASSUME NEW q, Holds(ns, q, s) PROVE \E t : Holds(ms, t, s) /\ ms[t].d = ns[q].d
    <3>1. CASE q = p
      BY <3>1, <2>1, <1>2, <1>4, <1>6 DEF Holds, r
    <3>2. CASE q # p
      BY <3>2, <2>1, <1>6 DEF Holds
    <3> QED
      BY <3>1, <3>2
  <2>2. ASSUME NEW q, Holds(ms, q, s) PROVE \E t : Holds(ns, t, s)
    <3>1. CASE q = c
      BY <3>1, <2>2, <1>1, <1>2, <1>4, <1>6 DEF Holds, r
    <3>2. CASE q = p
      BY <3>2, <2>2, <1>6 DEF Holds, Node
    <3>3. CASE q # c /\ q # p
      BY <3>3, <2>2, <1>6 DEF Holds
    <3> QED
      BY <3>1, <3>2, <3>3
  <2> QED
    BY <2>1, <2>2, <1>7, LookupSame
<1> QED
  BY <1>6, <1>7, <1>8, <1>9

\* The node that insert() is at has room for more below it.
LEMMA EmptiedFacts ==
    ASSUME NEW ns, Shape(ns), NEW p \in DOMAIN ns
    PROVE  LET ms == Emptied(ns, p)
           IN  /\ Shape(ms) /\ DOMAIN ns \subseteq DOMAIN ms
               /\ ~HasString(ms[p])
               /\ ms[p].str = <<>> <=> ns[p].str = <<>>
               /\ \A s \in Seq(Char) : Lookup(ms, s) = Lookup(ns, s)
<1>1. CASE HasString(ns[p])
  <2>1. Emptied(ns, p) = PushDown(ns, p)
    BY <1>1 DEF Emptied
  <2>2. <<>> \in Seq(Char)
    OBVIOUS
  <2>3. NoStr # <<>>
    BY <2>2, StrAssumption, Zenon
  <2> QED
    BY <1>1, <2>1, <2>3, PushDownFacts DEF HasString, Node
<1>2. CASE ~HasString(ns[p])
  BY <1>2 DEF Emptied
<1> QED
  BY <1>1, <1>2

\* Storing a string at a node that held none, or the same string, changes the
\* answer for this string only.
LEMMA StoredAt ==
    ASSUME NEW ns, NEW ms, Shape(ns), Shape(ms), NEW p \in DOMAIN ns, DOMAIN ms = DOMAIN ns,
           \A q \in DOMAIN ns : q # p => ms[q] = ns[q],
           NEW s \in Seq(Char), Holds(ms, p, s), ns[p].str = NoStr \/ Holds(ns, p, s)
    PROVE  /\ Lookup(ms, s) = ms[p].d
           /\ \A t \in Seq(Char) : t # s => Lookup(ms, t) = Lookup(ns, t)
<1>1. Lookup(ms, s) = ms[p].d
  BY LookupFound
<1>2. ASSUME NEW t \in Seq(Char), t # s PROVE Lookup(ms, t) = Lookup(ns, t)
  <2>1. ~Holds(ns, p, t) /\ ~Holds(ms, p, t)
    BY <1>2 DEF Holds
  <2>2. ASSUME NEW q PROVE /\ Holds(ns, q, t) <=> Holds(ms, q, t)
                           /\ Holds(ns, q, t) => ms[q].d = ns[q].d
    BY <2>1 DEF Holds
  <2> QED
    BY <2>2, LookupSame
<1> QED
  BY <1>1, <1>2

\* Before a string is stored at a node that holds none, no node holds it: those
\* above hold shorter strings, and below there is none that matters.
LEMMA NothingHeld ==
    ASSUME NEW ns, Shape(ns), NEW s \in Seq(Char), NEW k \in 0..Len(s),
           Upto(s, k) \in DOMAIN ns, ns[Upto(s, k)].str = NoStr,
           k = Len(s) \/ ~ns[Upto(s, k)].using_next
    PROVE  Lookup(ns, s) = NoData
<1>1. ASSUME NEW q, Holds(ns, q, s) PROVE FALSE
  <2>1. /\ q = Upto(s, Len(q)) /\ Len(q) \in 0..Len(s) /\ q \in DOMAIN ns
        /\ ns[q].using_next => q = s
        /\ ns[q].str # NoStr
    BY <1>1, HoldsFacts DEF Holds
  <2>2. Len(Upto(s, k)) = k /\ Upto(s, k) \in Seq(Char)
    BY UptoFacts
  <2>3. CASE Len(q) = k
    BY <2>1, <2>3
  <2>4. CASE Len(q) < k
    <3>1. Upto(Upto(s, k), Len(q)) = q
      BY <2>1, <2>4, UptoUpto
    <3>2. Len(q) \in 0..(Len(Upto(s, k)) - 1)
      BY <2>1, <2>2, <2>4
    <3>3. ns[q].using_next
      BY <3>1, <3>2 DEF Shape
    <3> QED
      BY <3>3, <2>1, <2>4
  <2>5. CASE k < Len(q)
    <3>1. Upto(q, k) = Upto(s, k)
      BY <2>1, <2>5, UptoUpto
    <3>2. k \in 0..(Len(q) - 1)
      BY <2>1, <2>5
    <3>3. ns[Upto(s, k)].using_next
      BY <3>1, <3>2, <2>1 DEF Shape
    <3> QED
      BY <3>3, <2>1, <2>5
  <2> QED
    BY <2>1, <2>3, <2>4, <2>5
<1> QED
  BY <1>1, LookupFound

\* what a step that ends insert() does to the answers of get()
Stores ==
    /\ Shape(nodes')
    /\ ret' = Lookup(nodes, call.s)
    /\ Lookup(nodes', call.s) = call.x
    /\ \A t \in Seq(Char) : t # call.s => Lookup(nodes', t) = Lookup(nodes, t)

\* the node that the running insert() is at
LEMMA AtFacts ==
    ASSUME Inv, call.busy
    PROVE  /\ call.s \in Seq(Char) /\ call.s \in Key /\ call.at \in 0..Len(call.s)
           /\ At \in DOMAIN nodes /\ At \in Seq(Char) /\ Rest \in Seq(Char)
           /\ At \o Rest = call.s /\ call.x \in Entry
           /\ nodes[At] \in NodeSet
           /\ Len(At) = call.at /\ Len(Rest) = Len(call.s) - call.at
           /\ Rest = <<>> => At = call.s /\ call.at = Len(call.s)
           /\ NoStr # <<>> /\ Rest # NoStr
<1>1. /\ call.s \in Seq(Char) /\ call.s \in Key /\ call.at \in 0..Len(call.s)
      /\ call.x \in Entry /\ At \in DOMAIN nodes /\ nodes[At] \in NodeSet
  BY DEF Inv, CallInv, Shape
<1>2. /\ At \in Seq(Char) /\ Rest \in Seq(Char) /\ At \o Rest = call.s
      /\ Len(At) = call.at /\ Len(Rest) = Len(call.s) - call.at
  BY <1>1, UptoFacts, UptoAfter DEF At, Rest
<1>3. Rest = <<>> => call.at = Len(call.s)
  BY <1>1, <1>2
<1>4. call.at = Len(call.s) => At = call.s
  BY <1>1, UptoAll DEF At
<1>5. <<>> \in Seq(Char)
  OBVIOUS
<1>6. NoStr # <<>> /\ Rest # NoStr
  BY <1>2, <1>5, StrAssumption, Zenon
<1> QED
  BY <1>1, <1>2, <1>3, <1>4, <1>6

LEMMA ReplaceStores ==
    ASSUME Inv, Replace
    PROVE  Stores
<1> DEFINE n == [nodes[At] EXCEPT !.d = call.x]
<1>1. call.busy /\ Rest = <<>> /\ nodes[At].str = <<>> /\ ret' = nodes[At].d
  BY DEF Replace, Return
<1>2. nodes' = [nodes EXCEPT ![At] = n] /\ Shape(nodes)
  BY DEF Replace, Inv
<1>3. n \in NodeSet /\ n.str = <<>> /\ n.d = call.x /\ n.using_next = nodes[At].using_next
  BY <1>1, AtFacts DEF NodeSet
<1>4. /\ Shape(nodes') /\ DOMAIN nodes' = DOMAIN nodes
      /\ \A q \in DOMAIN nodes : nodes'[q] = IF q = At THEN n ELSE nodes[q]
  <2> HIDE DEF n
  <2>1. n.str # NoStr /\ ~HasString(n) /\ At \in DOMAIN nodes
    BY <1>1, <1>3, AtFacts DEF HasString
  <2> QED
    BY <1>2, <1>3, <2>1, NewContents
<1> HIDE DEF n
<1>5. Holds(nodes, At, call.s) /\ Holds(nodes', At, call.s) /\ call.s \in Seq(Char)
  BY <1>1, <1>3, <1>4, AtFacts DEF Holds
<1>6. At \in DOMAIN nodes /\ nodes'[At].d = call.x
  BY <1>1, <1>3, <1>4, AtFacts
<1>7. \A q \in DOMAIN nodes : q # At => nodes'[q] = nodes[q]
  BY <1>4
<1>8. /\ Lookup(nodes', call.s) = nodes'[At].d
      /\ \A t \in Seq(Char) : t # call.s => Lookup(nodes', t) = Lookup(nodes, t)
  <2>1. Shape(nodes)
    BY DEF Inv
  <2> QED
    BY <2>1, <1>4, <1>5, <1>6, <1>7, StoredAt
<1>9. Lookup(nodes, call.s) = nodes[At].d
  BY <1>2, <1>5, LookupFound
<1> QED
  BY <1>1, <1>4, <1>6, <1>8, <1>9 DEF Stores

LEMMA StoreAtEndStores ==
    ASSUME Inv, StoreAtEnd
    PROVE  Stores
<1> DEFINE ns == Emptied(nodes, At)
           n == Node(<<>>, call.x, ns[At].using_next)
<1>1. call.busy /\ Rest = <<>> /\ nodes[At].str # <<>> /\ ret' = NoData
  BY DEF StoreAtEnd, Return
<1>2. nodes' = [ns EXCEPT ![At] = n]
  BY DEF StoreAtEnd
<1>3. /\ Shape(ns) /\ At \in DOMAIN ns /\ ~HasString(ns[At]) /\ ns[At].str # <<>>
      /\ \A s \in Seq(Char) : Lookup(ns, s) = Lookup(nodes, s)
  BY <1>1, AtFacts, EmptiedFacts DEF Inv
<1> HIDE DEF ns
<1>4. ns[At].str = NoStr /\ ns[At].using_next \in BOOLEAN
  BY <1>3 DEF HasString, Shape, NodeSet
<1>5. n \in NodeSet /\ n.str = <<>> /\ n.d = call.x /\ n.using_next = ns[At].using_next
  BY <1>1, <1>4, AtFacts DEF NodeSet, Node
<1>6. /\ Shape(nodes') /\ DOMAIN nodes' = DOMAIN ns
      /\ \A q \in DOMAIN ns : nodes'[q] = IF q = At THEN n ELSE ns[q]
  <2> HIDE DEF n
  <2>1. n.str # NoStr /\ ~HasString(n)
    BY <1>1, <1>5, AtFacts DEF HasString
  <2> QED
    BY <1>2, <1>3, <1>5, <2>1, NewContents
<1> HIDE DEF n
<1>7. Holds(nodes', At, call.s) /\ call.s \in Seq(Char)
  BY <1>1, <1>3, <1>5, <1>6, AtFacts, ConcatEmptySeq DEF Holds
<1>8. nodes'[At].d = call.x /\ \A q \in DOMAIN ns : q # At => nodes'[q] = ns[q]
  BY <1>3, <1>5, <1>6
<1>9. /\ Lookup(nodes', call.s) = nodes'[At].d
      /\ \A t \in Seq(Char) : t # call.s => Lookup(nodes', t) = Lookup(ns, t)
  BY <1>3, <1>4, <1>6, <1>7, <1>8, StoredAt
<1>10. Lookup(ns, call.s) = NoData
  BY <1>1, <1>3, <1>4, AtFacts, NothingHeld DEF At
<1> QED
  BY <1>1, <1>3, <1>6, <1>7, <1>8, <1>9, <1>10 DEF Stores

LEMMA StoreStores ==
    ASSUME Inv, Store
    PROVE  Stores
<1> DEFINE n == [nodes[At] EXCEPT !.str = Rest, !.d = call.x]
<1>1. /\ call.busy /\ Rest # <<>> /\ nodes[At].str = NoStr /\ ~nodes[At].using_next
      /\ ret' = NoData
  BY DEF Store, Return
<1>2. nodes' = [nodes EXCEPT ![At] = n] /\ Shape(nodes)
  BY DEF Store, Inv
<1>3. n \in NodeSet /\ n.str = Rest /\ n.d = call.x /\ ~n.using_next
  BY <1>1, AtFacts DEF NodeSet
<1>4. /\ Shape(nodes') /\ DOMAIN nodes' = DOMAIN nodes
      /\ \A q \in DOMAIN nodes : nodes'[q] = IF q = At THEN n ELSE nodes[q]
  <2> HIDE DEF n
  <2>1. n.str # NoStr /\ At \in DOMAIN nodes
    BY <1>1, <1>3, AtFacts
  <2> QED
    BY <1>1, <1>2, <1>3, <2>1, NewContents
<1> HIDE DEF n
<1>5. Holds(nodes', At, call.s) /\ call.s \in Seq(Char)
  BY <1>1, <1>3, <1>4, AtFacts DEF Holds
<1>6. /\ At \in DOMAIN nodes /\ nodes'[At].d = call.x
      /\ \A q \in DOMAIN nodes : q # At => nodes'[q] = nodes[q]
  BY <1>1, <1>3, <1>4, AtFacts
<1>7. /\ Lookup(nodes', call.s) = nodes'[At].d
      /\ \A t \in Seq(Char) : t # call.s => Lookup(nodes', t) = Lookup(nodes, t)
  <2>1. Shape(nodes) /\ nodes[At].str = NoStr
    BY <1>1 DEF Inv
  <2> QED
    BY <2>1, <1>4, <1>5, <1>6, StoredAt
<1>8. Lookup(nodes, call.s) = NoData
  BY <1>1, <1>2, AtFacts, NothingHeld DEF At
<1> QED
  BY <1>1, <1>4, <1>6, <1>7, <1>8 DEF Stores

\* insert_next(s, x) goes down to a child, which it makes if need be; get() does
\* not notice.
LEMMA DescendKeeps ==
    ASSUME Inv, Descend
    PROVE  /\ Shape(nodes') /\ At' \in DOMAIN nodes' /\ call.at + 1 \in 0..Len(call.s)
           /\ \A s \in Seq(Char) : Lookup(nodes', s) = Lookup(nodes, s)
<1> DEFINE ns == Emptied(nodes, At)
           child == Append(At, Rest[1])
           n == [ns[At] EXCEPT !.using_next = TRUE]
           up == [ns EXCEPT ![At] = n]
<1>1. /\ call.busy /\ Rest # <<>> /\ call' = [call EXCEPT !.at = @ + 1]
      /\ nodes' = IF child \in DOMAIN ns THEN up ELSE Put(up, child, Empty)
  BY DEF Descend
<1>2. /\ Shape(ns) /\ At \in DOMAIN ns /\ ~HasString(ns[At])
      /\ \A s \in Seq(Char) : Lookup(ns, s) = Lookup(nodes, s)
  BY <1>1, AtFacts, EmptiedFacts DEF Inv
<1>3. /\ child \in Seq(Char) /\ Len(child) = Len(At) + 1
      /\ \A k \in 0..Len(At) : Upto(child, k) = Upto(At, k)
      /\ child \o Tail(Rest) = call.s /\ Tail(Rest) \in Seq(Char)
  BY <1>1, AtFacts, Child
<1> HIDE DEF ns, child
<1>4. /\ n \in NodeSet /\ n.str = ns[At].str /\ n.d = ns[At].d /\ n.using_next
      /\ ~HasString(n) /\ (n.str = NoStr => n.d = NoData)
  BY <1>2 DEF Shape, NodeSet, HasString
<1>5. /\ Shape(up) /\ DOMAIN up = DOMAIN ns
      /\ \A q \in DOMAIN ns : up[q] = IF q = At THEN n ELSE ns[q]
  <2> HIDE DEF n
  <2> QED
    BY <1>2, <1>4, NewContents
<1> HIDE DEF n, up
<1>6. \A q \in DOMAIN ns : up[q].str = ns[q].str /\ up[q].d = ns[q].d
  BY <1>4, <1>5
<1>7. /\ Shape(nodes') /\ child \in DOMAIN nodes'
      /\ \A s \in Seq(Char) : Lookup(nodes', s) = Lookup(nodes, s)
  <2>1. CASE child \in DOMAIN ns
    <3>1. nodes' = up
      BY <1>1, <2>1
    <3>2. ASSUME NEW s \in Seq(Char) PROVE Lookup(up, s) = Lookup(ns, s)
      <4>1. ASSUME NEW q PROVE /\ Holds(ns, q, s) <=> Holds(up, q, s)
                               /\ Holds(ns, q, s) => up[q].d = ns[q].d
        BY <1>5, <1>6 DEF Holds
      <4> QED
        BY <4>1, <1>2, <1>5, LookupSame
    <3> QED
      BY <2>1, <3>1, <3>2, <1>2, <1>5
  <2>2. CASE child \notin DOMAIN ns
    <3> DEFINE ms == Put(up, child, Empty)
    <3>1. nodes' = ms
      BY <1>1, <2>2
    <3>2. /\ DOMAIN ms = DOMAIN ns \cup {child} /\ ms[child] = Empty
          /\ \A q \in DOMAIN ns : ms[q] = up[q]
      BY <1>5, <2>2 DEF Put
    <3>3. Empty \in NodeSet /\ Empty.str = NoStr /\ Empty.d = NoData /\ ~Empty.using_next
      BY DEF Empty, Node, NodeSet, Entry
    <3>4. Shape(ms)
      <4>1. At \in DOMAIN up /\ up[At].using_next /\ child \notin DOMAIN up
        BY <1>2, <1>4, <1>5, <2>2
      <4> QED
        BY <4>1, <3>3, <1>3, <1>5, NewChild
    <3> HIDE DEF ms
    <3>5. ASSUME NEW s \in Seq(Char) PROVE Lookup(ms, s) = Lookup(ns, s)
      <4>1. ASSUME NEW q PROVE /\ Holds(ns, q, s) <=> Holds(ms, q, s)
                               /\ Holds(ns, q, s) => ms[q].d = ns[q].d
        <5>1. CASE q = child
          BY <5>1, <2>2, <3>2, <3>3 DEF Holds
        <5>2. CASE q # child
          BY <5>2, <3>2, <1>6 DEF Holds
        <5> QED
          BY <5>1, <5>2
      <4> QED
        BY <4>1, <1>2, <3>4, LookupSame
    <3> QED
      BY <3>1, <3>2, <3>4, <3>5, <1>2
  <2> QED
    BY <2>1, <2>2
<1>8. call'.s = call.s /\ call'.at = call.at + 1
  BY <1>1 DEF Inv, CallInv
<1>9. child = Upto(call.s, call.at + 1) /\ call.at + 1 \in 0..Len(call.s)
  <2>1. Len(child) \in 0..Len(call.s) /\ Upto(call.s, Len(child)) = child
    <3>1. /\ Len(child) \in 0..Len(child \o Tail(Rest))
          /\ Upto(child \o Tail(Rest), Len(child)) = child
      BY <1>3, Beginning
    <3> QED
      BY <3>1, <1>3, Zenon
  <2> QED
    BY <2>1, <1>1, <1>3, AtFacts
<1> QED
  BY <1>7, <1>8, <1>9 DEF At

-----------------------------------------------------------------------------
(* The invariant *)

LEMMA InitInv == Init => Inv
<1> SUFFICES ASSUME Init PROVE Inv
  OBVIOUS
<1>1. DOMAIN nodes = {<<>>} /\ nodes[<<>>] = Empty /\ nodes = [p \in {<<>>} |-> Empty]
  BY DEF Init
<1>2. /\ Empty \in NodeSet /\ Empty.str = NoStr /\ Empty.d = NoData
      /\ ~HasString(Empty) /\ Len(<<>>) = 0 /\ <<>> \in Seq(Char)
  BY DEF Empty, Node, NodeSet, Entry, HasString
<1>3. Shape(nodes)
  <2>1. nodes \in [DOMAIN nodes -> NodeSet]
    BY <1>1, <1>2
  <2>2. \A p \in DOMAIN nodes : \A k \in 0..(Len(p) - 1) : FALSE
    BY <1>1, <1>2
  <2> QED
    BY <1>1, <1>2, <2>1, <2>2 DEF Shape
<1>4. CallInv /\ ret \in Entry
  BY <1>2 DEF Init, CallInv, Idle, Entry
<1> QED
  BY <1>3, <1>4 DEF Inv

\* Every entry that get() returns has been stored, or is none.
LEMMA LookupType ==
    ASSUME NEW ns, Shape(ns), NEW s \in Seq(Char)
    PROVE  Lookup(ns, s) \in Entry
<1>1. CASE \E p : Holds(ns, p, s)
  <2>1. PICK p : Holds(ns, p, s)
    BY <1>1
  <2>2. Lookup(ns, s) = ns[p].d
    BY <2>1, LookupFound
  <2> QED
    BY <2>1, <2>2 DEF Holds, Shape, NodeSet
<1>2. CASE \A p : ~Holds(ns, p, s)
  BY <1>2, LookupFound DEF Entry
<1> QED
  BY <1>1, <1>2

\* A step answers a get(), stores one string, or changes no answer.
LEMMA StepFacts ==
    ASSUME Inv, Next
    PROVE  \/ /\ UNCHANGED <<nodes, call>>
              /\ \E s \in Key : ret' = Lookup(nodes, s)
           \/ /\ UNCHANGED <<nodes, ret>>
              /\ \E s \in Key, x \in Entry : call' = [busy |-> TRUE, s |-> s, x |-> x, at |-> 0]
           \/ Stores /\ call.busy /\ call' = Idle
           \/ /\ Descend /\ Shape(nodes') /\ At' \in DOMAIN nodes'
              /\ call.at + 1 \in 0..Len(call.s)
              /\ \A s \in Seq(Char) : Lookup(nodes', s) = Lookup(nodes, s)
<1>1. ASSUME NEW s \in Key, Get(s)
      PROVE  UNCHANGED <<nodes, call>> /\ ret' = Lookup(nodes, s)
  BY <1>1 DEF Get
<1>2. ASSUME NEW s \in Key, NEW x \in Entry, Insert(s, x)
      PROVE  UNCHANGED <<nodes, ret>> /\ call' = [busy |-> TRUE, s |-> s, x |-> x, at |-> 0]
  BY <1>2 DEF Insert
<1>3. CASE Replace
  BY <1>3, ReplaceStores DEF Replace, Return
<1>4. CASE StoreAtEnd
  BY <1>4, StoreAtEndStores DEF StoreAtEnd, Return
<1>5. CASE Store
  BY <1>5, StoreStores DEF Store, Return
<1>6. CASE Descend
  BY <1>6, DescendKeeps
<1> QED
  BY <1>1, <1>2, <1>3, <1>4, <1>5, <1>6 DEF Next

LEMMA NextInv == Inv /\ [Next]_vars => Inv'
<1> SUFFICES ASSUME Inv, [Next]_vars PROVE Inv'
  OBVIOUS
<1>1. CASE UNCHANGED vars
  BY <1>1 DEF vars, Inv, CallInv, At
<1>2. ASSUME UNCHANGED <<nodes, call>>, NEW s \in Key, ret' = Lookup(nodes, s) PROVE Inv'
  <2>1. ret' \in Entry
    BY <1>2, LookupType, KeyAssumption DEF Inv
  <2> QED
    BY <1>2, <2>1 DEF Inv, CallInv, At
<1>3. ASSUME UNCHANGED <<nodes, ret>>, NEW s \in Key, NEW x \in Entry,
             call' = [busy |-> TRUE, s |-> s, x |-> x, at |-> 0]
      PROVE  Inv'
  <2>1. s \in Seq(Char) /\ 0 \in 0..Len(s) /\ Upto(s, 0) = <<>>
    BY KeyAssumption, UptoAll
  <2>2. CallInv'
    BY <1>3, <2>1 DEF CallInv, At, Inv, Shape
  <2> QED
    BY <1>3, <2>2 DEF Inv
<1>4. ASSUME Stores, call.busy, call' = Idle PROVE Inv'
  <2>1. ret' \in Entry
    BY <1>4, AtFacts, LookupType DEF Stores, Inv
  <2>2. <<>> \in Seq(Char)
    OBVIOUS
  <2>3. CallInv'
    BY <1>4, <2>2 DEF CallInv, Idle, Entry
  <2> QED
    BY <1>4, <2>1, <2>3 DEF Stores, Inv
<1>5. ASSUME Descend, Shape(nodes'), At' \in DOMAIN nodes', call.at + 1 \in 0..Len(call.s)
      PROVE  Inv'
  <2>1. call' = [call EXCEPT !.at = @ + 1] /\ ret' = ret /\ call.busy
    BY <1>5 DEF Descend
  <2>2. call \in [busy : BOOLEAN, s : Seq(Char), x : Entry, at : Nat] /\ call.s \in Key
    BY <2>1, AtFacts DEF CallInv, Inv
  <2>3. /\ call' \in [busy : BOOLEAN, s : Seq(Char), x : Entry, at : Nat]
        /\ call'.s = call.s /\ call'.at = call.at + 1
    BY <2>1, <2>2
  <2>4. CallInv'
    BY <1>5, <2>2, <2>3 DEF CallInv
  <2> QED
    BY <1>5, <2>1, <2>4 DEF Inv
<1> QED
  BY <1>1, <1>2, <1>3, <1>4, <1>5, StepFacts

\* The nodes form a trie and the running insert() is at one of them.
THEOREM Invariance == Spec => []Inv
  BY InitInv, NextInv, PTL DEF Spec

\* A node that holds the rest of a string has no children, every node but the root
\* is known to its parent, and no string is stored twice: the destructor releases
\* every entry once.
THEOREM TrieIsShaped == Spec => []TrieShape
<1>1. Inv => TrieShape
  <2> SUFFICES ASSUME Inv PROVE TrieShape
    OBVIOUS
  <2>1. Shape(nodes)
    BY DEF Inv
  <2>2. ASSUME NEW p \in DOMAIN nodes \ {<<>>}
        PROVE  /\ Upto(p, Len(p) - 1) \in DOMAIN nodes
               /\ nodes[Upto(p, Len(p) - 1)].using_next
    <3>1. p \in Seq(Char) /\ p # <<>>
      BY <2>1 DEF Shape
    <3>2. Len(p) - 1 \in 0..(Len(p) - 1)
      BY <3>1
    <3> QED
      BY <3>2, <2>1 DEF Shape
  <2>3. ASSUME NEW p \in DOMAIN nodes, NEW q \in DOMAIN nodes,
               nodes[p].str # NoStr, nodes[q].str # NoStr,
               p \o nodes[p].str = q \o nodes[q].str
        PROVE  p = q
    <3>1. Holds(nodes, p, p \o nodes[p].str) /\ Holds(nodes, q, p \o nodes[p].str)
      BY <2>3 DEF Holds
    <3> QED
      BY <2>1, <3>1, HoldsOnce
  <2>4. \A p \in DOMAIN nodes : HasString(nodes[p]) => ~nodes[p].using_next
    BY <2>1 DEF Shape
  <2> QED
    BY <2>2, <2>3, <2>4 DEF TrieShape
<1> QED
  BY <1>1, Invariance, PTL

\* The trie is a map from strings to entries, whatever the strings have in common:
\* insert() returns the entry that it replaces, and neither it nor a string that
\* it pushes down on the way changes what get() answers for another one.
THEOREM TrieImplementsMap == Spec => Implements
<1> DEFINE map == [s \in Key |-> Lookup(nodes, s)]
<1>1. Init => M!Init
  <2> SUFFICES ASSUME Init PROVE M!Init
    OBVIOUS
  <2>1. Shape(nodes) /\ DOMAIN nodes = {<<>>} /\ nodes[<<>>] = Empty
    BY InitInv DEF Init, Inv
  <2>2. \A p, s : ~Holds(nodes, p, s)
    BY <2>1 DEF Holds, Empty, Node
  <2>3. \A s \in Key : Lookup(nodes, s) = NoData
    BY <2>1, <2>2, LookupFound, KeyAssumption
  <2> QED
    BY <2>3 DEF Init, M!Init
<1>2. Inv /\ [Next]_vars => [M!Next]_<<map, ret>>
  <2> SUFFICES ASSUME Inv, [Next]_vars PROVE [M!Next]_<<map, ret>>
    OBVIOUS
  <2>1. CASE UNCHANGED <<nodes, ret>>
    <3>1. map' = map
      BY <2>1
    <3> QED
      BY <2>1, <3>1
  <2>2. ASSUME UNCHANGED nodes, NEW s \in Key, ret' = Lookup(nodes, s) PROVE M!Next
    <3>1. map' = map /\ ret' = map[s]
      BY <2>2
    <3> QED
      BY <2>2, <3>1 DEF M!Next, M!Get
  <2>3. ASSUME Stores, call.busy PROVE M!Next
    <3>1. call.s \in Key /\ call.x \in Data \cup {NoData} /\ Key \subseteq Seq(Char)
      BY <2>3, AtFacts, KeyAssumption DEF Entry
    <3>2. map' = [s \in Key |-> Lookup(nodes', s)]
      OBVIOUS
    <3>3. \A s \in Key : Lookup(nodes', s) = IF s = call.s THEN call.x ELSE Lookup(nodes, s)
      BY <2>3, <3>1 DEF Stores
    <3>4. map' = [map EXCEPT ![call.s] = call.x]
      BY <3>1, <3>2, <3>3
    <3>5. ret' = map[call.s]
      BY <2>3, <3>1 DEF Stores
    <3>6. M!Insert(call.s, call.x)
      BY <3>4, <3>5 DEF M!Insert
    <3> QED
      BY <3>1, <3>6 DEF M!Next
  <2>4. ASSUME Descend, \A s \in Seq(Char) : Lookup(nodes', s) = Lookup(nodes, s)
        PROVE  UNCHANGED <<map, ret>>
    <3>1. map' = [s \in Key |-> Lookup(nodes', s)]
      OBVIOUS
    <3>2. map' = map
      BY <2>4, <3>1, KeyAssumption
    <3> QED
      BY <2>4, <3>2 DEF Descend
  <2> QED
    BY <2>1, <2>2, <2>3, <2>4, StepFacts DEF vars
<1> QED
  BY <1>1, <1>2, Invariance, PTL DEF Spec, Implements, M!Spec
=============================================================================
