---------------------------- MODULE ChunksProofs ----------------------------
(***************************************************************************)
(* Chunks implements Allocator for every size and number of chunks, and    *)
(* loses no block.  For the first that the free list has no cycle need not *)
(* be said: it is enough that no block is pointed at twice, the pointer to *)
(* the first one included.  For the second the list itself is needed, as a *)
(* sequence without repetitions of all the freed blocks.                   *)
(***************************************************************************)
EXTENDS Chunks, TLAPS, FunctionTheorems, WellFoundedInduction

\* the blocks that have been cut from a chunk and have no owner
Freed == {b \in Blocks : b < next /\ owners[b] = 0}

\* where the current chunk ends, and that nothing behind next is handed out
Position ==
    /\ \/ chunks = 0 /\ next = NULL /\ end = NULL
       \/ chunks # 0 /\ end = chunks * ChunkSize + 1 /\ next \in 1..end
    /\ \A b \in Blocks : owners[b] \in {0, 1} /\ (next <= b => owners[b] = 0)

\* the pointers of the free list
Chain ==
    /\ freelist \in Freed \cup {NULL}
    /\ \A b \in Freed : field[b] \in Freed \cup {NULL}
    /\ \A b \in Freed : field[b] # NULL => field[b] # freelist
    /\ \A b, c \in Freed : field[b] = field[c] /\ b # c => field[b] = NULL

Inv == TypeOK /\ Position /\ Chain

\* the free list is L[1], ..., L[m], and holds every freed block
IsList(L, m) ==
    /\ \A i, j \in 1..m : L[i] = L[j] => i = j
    /\ \A b \in Blocks : b \in Freed <=> \E i \in 1..m : L[i] = b
    /\ freelist = IF m = 0 THEN NULL ELSE L[1]
    /\ \A i \in 1..m : field[L[i]] = IF i = m THEN NULL ELSE L[i + 1]

Linked == \E m \in Nat : \E L \in [1..m -> Blocks] : IsList(L, m)

\* what a step may do to the free list: nothing, take the first block, put a
\* block in front
SameList ==
    /\ Freed' = Freed /\ freelist' = freelist
    /\ \A b \in Freed : field'[b] = field[b]

FirstTaken ==
    /\ freelist \in Freed /\ Freed' = Freed \ {freelist}
    /\ freelist' = field[freelist]
    /\ \A b \in Freed' : field'[b] = field[b]

PutInFront(b) ==
    /\ b \notin Freed /\ Freed' = Freed \cup {b}
    /\ freelist' = b /\ field'[b] = freelist
    /\ \A c \in Freed : field'[c] = field[c]

-----------------------------------------------------------------------------
\* A chunk that there is memory for ends within the blocks.
LEMMA ChunkFits ==
    ASSUME NEW c \in Nat, c < MaxChunks
    PROVE  /\ c * ChunkSize \in Nat
           /\ ChunkSize * MaxChunks \in Nat
           /\ (c + 1) * ChunkSize = c * ChunkSize + ChunkSize
           /\ c * ChunkSize + ChunkSize <= ChunkSize * MaxChunks
BY ChunkSizeAssumption, MaxChunksAssumption, SMT

LEMMA ChunksFit ==
    ASSUME NEW c \in 0..MaxChunks
    PROVE  /\ c * ChunkSize \in Nat
           /\ ChunkSize * MaxChunks \in Nat
           /\ c * ChunkSize <= ChunkSize * MaxChunks
BY ChunkSizeAssumption, MaxChunksAssumption, SMT

LEMMA HandOutTypes ==
    ASSUME NEW b \in Blocks, TypeOK, HandOut(b)
    PROVE  /\ owners' \in [Blocks -> Nat]
           /\ field' \in [Blocks -> Blocks \cup {NULL}]
BY DEF TypeOK, HandOut

LEMMA HandOutAllocates ==
    ASSUME NEW b \in Blocks, owners[b] = 0, HandOut(b)
    PROVE  A!Next
<1>1. owners' = [owners EXCEPT ![b] = 1]
  BY DEF HandOut
<1> QED
  BY <1>1 DEF A!Next, A!Allocate

LEMMA InitInv == Init => Inv
BY ChunkSizeAssumption, MaxChunksAssumption
   DEF Init, Inv, TypeOK, Position, Chain, Freed, NULL, Blocks

\* the part of the invariant that does not look at the free list
LEMMA NextPosition == Inv /\ [Next]_vars => TypeOK' /\ Position'
<1> SUFFICES ASSUME Inv, [Next]_vars PROVE TypeOK' /\ Position'
  OBVIOUS
<1> USE DEF Inv, NULL
<1>t. ChunkSize * MaxChunks \in Nat
  BY ChunkSizeAssumption, MaxChunksAssumption
<1>1. CASE NewFromList
  <2>1. TypeOK'
    BY <1>1, HandOutTypes DEF NewFromList, TypeOK
  <2>2. Position'
    BY <1>1, <1>t DEF NewFromList, HandOut, TypeOK, Position, Chain, Freed, Blocks
  <2> QED
    BY <2>1, <2>2
<1>2. CASE NewFromChunk
  <2>1. next \in Blocks /\ next < end /\ end <= ChunkSize * MaxChunks + 1
    BY <1>2, <1>t, ChunksFit DEF NewFromChunk, TypeOK, Position, Blocks
  <2>2. TypeOK'
    <3>1. next' \in Blocks \cup {NULL, ChunkSize * MaxChunks + 1}
      BY <1>2, <1>t, <2>1 DEF NewFromChunk, TypeOK, Blocks
    <3> QED
      BY <1>2, <2>1, <3>1, HandOutTypes DEF NewFromChunk, TypeOK
  <2>3. Position'
    BY <1>2, <1>t, <2>1 DEF NewFromChunk, HandOut, TypeOK, Position, Blocks
  <2> QED
    BY <2>2, <2>3
<1>3. CASE NewFromNewChunk
  <2> DEFINE chunk == chunks * ChunkSize + 1
  <2>1. /\ chunks' = chunks + 1 /\ next' = chunk + 1 /\ end' = chunk + ChunkSize
        /\ HandOut(chunk) /\ freelist' = freelist /\ next = end /\ freelist = NULL
        /\ chunks < MaxChunks /\ chunks \in Nat
    BY <1>3 DEF NewFromNewChunk, TypeOK
  <2>2. /\ chunk \in Blocks /\ chunk + 1 \in Nat /\ end' = chunks' * ChunkSize + 1
        /\ end' <= ChunkSize * MaxChunks + 1
        /\ chunk + 1 <= end'
        /\ next = NULL \/ next = chunk
    BY <2>1, ChunkFits, ChunkSizeAssumption DEF Blocks, Position, TypeOK
  <2> HIDE DEF chunk
  <2>3. TypeOK'
    <3>1. /\ next' \in Blocks \cup {NULL, ChunkSize * MaxChunks + 1}
          /\ end' \in Blocks \cup {NULL, ChunkSize * MaxChunks + 1}
          /\ chunks' \in 0..MaxChunks
      BY <2>1, <2>2, <1>t, ChunkSizeAssumption, MaxChunksAssumption DEF Blocks
    <3> QED
      BY <2>1, <2>2, <3>1, HandOutTypes DEF TypeOK
  <2>4. \A b \in Blocks : owners'[b] \in {0, 1} /\ (next' <= b => owners'[b] = 0)
    BY <2>1, <2>2, <1>t DEF HandOut, TypeOK, Position, Blocks
  <2>5. Position'
    BY <2>1, <2>2, <2>3, <2>4 DEF Position, TypeOK, Blocks
  <2> QED
    BY <2>3, <2>5
<1>4. ASSUME NEW b \in Blocks, Write(b) PROVE TypeOK' /\ Position'
  BY <1>4 DEF Write, TypeOK, Position
<1>5. ASSUME NEW b \in Blocks, Delete(b) PROVE TypeOK' /\ Position'
  <2>1. owners[b] = 1 /\ b < next
    BY <1>5, <1>t DEF Delete, Position, TypeOK, Blocks
  <2> QED
    BY <1>5, <2>1 DEF Delete, TypeOK, Position, Blocks
<1>6. CASE UNCHANGED vars
  BY <1>6 DEF vars, TypeOK, Position
<1> QED
  BY <1>1, <1>2, <1>3, <1>4, <1>5, <1>6 DEF Next

\* A step changes the free list at its front only: a block that is cut from a
\* chunk was never in it, and what the owners write is not part of it.
LEMMA ListStep ==
    ASSUME Inv, [Next]_vars
    PROVE  SameList \/ FirstTaken \/ \E b \in Blocks : PutInFront(b)
<1> USE DEF Inv, NULL
<1>t. ChunkSize * MaxChunks \in Nat
  BY ChunkSizeAssumption, MaxChunksAssumption
<1>1. CASE NewFromList
  <2>1. Freed' = Freed \ {freelist} /\ freelist \in Freed
    BY <1>1, <1>t DEF NewFromList, HandOut, TypeOK, Chain, Freed, Blocks
  <2>2. \A b \in Freed' : field'[b] = field[b]
    BY <1>1, <2>1 DEF NewFromList, HandOut, TypeOK, Freed
  <2> QED
    BY <1>1, <2>1, <2>2 DEF NewFromList, FirstTaken
<1>2. CASE NewFromChunk
  <2>1. next \in Blocks /\ next < end /\ end <= ChunkSize * MaxChunks + 1
    BY <1>2, <1>t, ChunksFit DEF NewFromChunk, TypeOK, Position, Blocks
  <2>2. Freed' = Freed
    BY <1>2, <1>t, <2>1 DEF NewFromChunk, HandOut, TypeOK, Freed, Blocks
  <2>3. \A b \in Freed : field'[b] = field[b]
    BY <1>2, <1>t, <2>1 DEF NewFromChunk, HandOut, TypeOK, Freed, Blocks
  <2> QED
    BY <1>2, <2>2, <2>3 DEF NewFromChunk, SameList
<1>3. CASE NewFromNewChunk
  <2> DEFINE chunk == chunks * ChunkSize + 1
  <2>1. /\ next' = chunk + 1 /\ HandOut(chunk) /\ freelist' = freelist
        /\ next = end /\ chunks < MaxChunks /\ chunks \in Nat
    BY <1>3 DEF NewFromNewChunk, TypeOK
  <2>2. /\ chunk \in Blocks
        /\ next = NULL \/ next = chunk
        /\ chunks = 0 => chunk = 1
    BY <2>1, ChunkFits, ChunkSizeAssumption DEF Blocks, Position, TypeOK
  <2> HIDE DEF chunk
  <2>3. Freed' = Freed
    <3>1. CASE chunks = 0
      BY <2>1, <2>2, <3>1, <1>t DEF HandOut, TypeOK, Freed, Position, Blocks
    <3>2. CASE chunks # 0
      BY <2>1, <2>2, <3>2, <1>t DEF HandOut, TypeOK, Freed, Position, Blocks
    <3> QED
      BY <3>1, <3>2
  <2>4. \A b \in Freed : field'[b] = field[b]
    <3>1. chunk \notin Freed
      BY <2>1, <2>2, <1>t DEF Freed, Position, TypeOK, Blocks
    <3> QED
      BY <3>1, <2>1 DEF HandOut, TypeOK, Freed
  <2> QED
    BY <2>1, <2>3, <2>4 DEF SameList
<1>4. ASSUME NEW b \in Blocks, Write(b) PROVE SameList
  <2>1. b \notin Freed /\ Freed' = Freed
    BY <1>4 DEF Write, Freed, TypeOK, Blocks
  <2>2. \A c \in Freed : field'[c] = field[c]
    BY <1>4, <2>1 DEF Write, TypeOK, Freed
  <2> QED
    BY <1>4, <2>1, <2>2 DEF Write, SameList
<1>5. ASSUME NEW b \in Blocks, Delete(b) PROVE PutInFront(b)
  <2>1. owners[b] = 1 /\ b < next
    BY <1>5, <1>t DEF Delete, Position, TypeOK, Blocks
  <2>2. b \notin Freed /\ Freed' = Freed \cup {b}
    BY <1>5, <2>1 DEF Delete, Freed, TypeOK, Blocks
  <2>3. field'[b] = freelist /\ \A c \in Freed : field'[c] = field[c]
    BY <1>5, <2>2 DEF Delete, TypeOK, Freed
  <2> QED
    BY <1>5, <2>2, <2>3 DEF Delete, PutInFront
<1>6. CASE UNCHANGED vars
  BY <1>6 DEF vars, SameList, Freed
<1> QED
  BY <1>1, <1>2, <1>3, <1>4, <1>5, <1>6 DEF Next

LEMMA NextInv == Inv /\ [Next]_vars => Inv'
<1> SUFFICES ASSUME Inv, [Next]_vars PROVE Chain'
  BY NextPosition DEF Inv
<1> USE DEF NULL
<1>0. NULL \notin Freed /\ Freed \subseteq Blocks /\ Chain
  BY ChunkSizeAssumption, MaxChunksAssumption DEF Freed, Blocks, Inv
<1>1. CASE SameList
  BY <1>0, <1>1 DEF SameList, Chain
<1>2. CASE FirstTaken
  BY <1>0, <1>2 DEF FirstTaken, Chain
<1>3. ASSUME NEW b \in Blocks, PutInFront(b) PROVE Chain'
  BY <1>0, <1>3 DEF PutInFront, Chain
<1> QED
  BY <1>1, <1>2, <1>3, ListStep

-----------------------------------------------------------------------------
\* The freed blocks stay one list.
LEMMA NextLinked == Inv /\ Linked /\ [Next]_vars => Linked'
<1> SUFFICES ASSUME Inv, Linked, [Next]_vars PROVE Linked'
  OBVIOUS
<1> USE DEF NULL
<1>0. NULL \notin Blocks /\ Freed \subseteq Blocks /\ Freed' \subseteq Blocks
  BY ChunkSizeAssumption, MaxChunksAssumption DEF Freed, Blocks
<1>1. PICK m \in Nat : \E L \in [1..m -> Blocks] : IsList(L, m)
  BY DEF Linked
<1>2. PICK L \in [1..m -> Blocks] : IsList(L, m)
  BY <1>1
<1>3. CASE SameList
  <2>1. IsList(L, m)'
    <3>1. \A i \in 1..m : L[i] \in Freed
      BY <1>2 DEF IsList
    <3> QED
      BY <3>1, <1>2, <1>3 DEF SameList, IsList
  <2> QED
    BY <2>1 DEF Linked
<1>4. CASE FirstTaken
  <2> DEFINE K == [i \in 1..(m - 1) |-> L[i + 1]]
  <2>1. m # 0 /\ freelist = L[1] /\ m - 1 \in Nat /\ 1 \in 1..m
    BY <1>0, <1>2, <1>4 DEF FirstTaken, IsList
  <2>2. K \in [1..(m - 1) -> Blocks] /\ \A i \in 1..(m - 1) : i + 1 \in 1..m /\ K[i] = L[i + 1]
    BY <2>1
  <2> HIDE DEF K
  <2>3. IsList(K, m - 1)'
    <3>1. \A i, j \in 1..(m - 1) : K[i] = K[j] => i = j
      BY <2>1, <2>2, <1>2 DEF IsList
    <3>2. ASSUME NEW b \in Blocks PROVE b \in Freed' <=> \E i \in 1..(m - 1) : K[i] = b
      <4>1. ASSUME b \in Freed' PROVE \E i \in 1..(m - 1) : K[i] = b
        <5>1. PICK i \in 1..m : L[i] = b
          BY <4>1, <1>2, <1>4 DEF IsList, FirstTaken
        <5>2. i # 1
          BY <4>1, <5>1, <2>1, <1>4 DEF FirstTaken
        <5>3. i - 1 \in 1..(m - 1) /\ (i - 1) + 1 = i
          BY <5>2, <2>1
        <5> QED
          BY <5>1, <5>3, <2>2
      <4>2. ASSUME NEW i \in 1..(m - 1), K[i] = b PROVE b \in Freed'
        <5>1. i + 1 \in 1..m /\ i + 1 # 1 /\ L[i + 1] = b
          BY <4>2, <2>2
        <5>2. b \in Freed /\ b # L[1]
          BY <5>1, <2>1, <1>2 DEF IsList
        <5> QED
          BY <5>2, <2>1, <1>4 DEF FirstTaken
      <4> QED
        BY <4>1, <4>2
    <3>3. freelist' = IF m - 1 = 0 THEN NULL ELSE K[1]
      BY <2>1, <2>2, <1>2, <1>4 DEF IsList, FirstTaken
    <3>4. ASSUME NEW i \in 1..(m - 1)
          PROVE  field'[K[i]] = IF i = m - 1 THEN NULL ELSE K[i + 1]
      <4>1. field'[K[i]] = field[L[i + 1]]
        BY <3>2, <2>2, <1>4 DEF FirstTaken
      <4>2. field[L[i + 1]] = IF i + 1 = m THEN NULL ELSE L[(i + 1) + 1]
        BY <2>2, <1>2 DEF IsList
      <4>3. i # m - 1 => i + 1 \in 1..(m - 1)
        BY <2>1
      <4> QED
        BY <4>1, <4>2, <4>3, <2>1, <2>2
    <3> QED
      BY <3>1, <3>2, <3>3, <3>4 DEF IsList
  <2> QED
    BY <2>1, <2>2, <2>3 DEF Linked
<1>5. ASSUME NEW b \in Blocks, PutInFront(b) PROVE Linked'
  <2> DEFINE K == [i \in 1..(m + 1) |-> IF i = 1 THEN b ELSE L[i - 1]]
  <2>1. \A i \in 1..(m + 1) : i # 1 => i - 1 \in 1..m
    OBVIOUS
  <2>2. /\ K \in [1..(m + 1) -> Blocks] /\ K[1] = b
        /\ \A i \in 1..(m + 1) : i # 1 => i - 1 \in 1..m /\ K[i] = L[i - 1]
    BY <2>1
  <2> HIDE DEF K
  <2>3. \A i \in 1..m : L[i] \in Freed /\ L[i] # b
    BY <1>2, <1>5 DEF IsList, PutInFront
  <2>4. IsList(K, m + 1)'
    <3>1. ASSUME NEW i \in 1..(m + 1), NEW j \in 1..(m + 1), K[i] = K[j] PROVE i = j
      <4>1. CASE i = 1 \/ j = 1
        BY <3>1, <4>1, <2>2, <2>3
      <4>2. CASE i # 1 /\ j # 1
        <5>1. i - 1 = j - 1
          BY <3>1, <4>2, <2>2, <1>2 DEF IsList
        <5> QED
          BY <5>1
      <4> QED
        BY <4>1, <4>2
    <3>2. ASSUME NEW c \in Blocks PROVE c \in Freed' <=> \E i \in 1..(m + 1) : K[i] = c
      <4>1. ASSUME c \in Freed' PROVE \E i \in 1..(m + 1) : K[i] = c
        <5>1. CASE c = b
          BY <5>1, <2>2
        <5>2. CASE c \in Freed
          <6>1. PICK i \in 1..m : L[i] = c
            BY <5>2, <1>2 DEF IsList
          <6>2. i + 1 \in 1..(m + 1) /\ i + 1 # 1 /\ (i + 1) - 1 = i
            OBVIOUS
          <6> QED
            BY <6>1, <6>2, <2>2
        <5> QED
          BY <4>1, <5>1, <5>2, <1>5 DEF PutInFront
      <4>2. ASSUME NEW i \in 1..(m + 1), K[i] = c PROVE c \in Freed'
        BY <4>2, <2>2, <2>3, <1>5 DEF PutInFront
      <4> QED
        BY <4>1, <4>2
    <3>3. freelist' = IF m + 1 = 0 THEN NULL ELSE K[1]
      BY <2>2, <1>5 DEF PutInFront
    <3>4. ASSUME NEW i \in 1..(m + 1)
          PROVE  field'[K[i]] = IF i = m + 1 THEN NULL ELSE K[i + 1]
      <4>1. CASE i = 1
        <5>1. field'[K[i]] = IF m = 0 THEN NULL ELSE L[1]
          BY <4>1, <2>2, <1>2, <1>5 DEF IsList, PutInFront
        <5>2. m # 0 => 2 \in 1..(m + 1) /\ K[2] = L[2 - 1]
          BY <2>2
        <5> QED
          BY <4>1, <5>1, <5>2
      <4>2. CASE i # 1
        <5>1. i - 1 \in 1..m /\ K[i] = L[i - 1]
          BY <4>2, <2>2
        <5>2. field'[K[i]] = IF i - 1 = m THEN NULL ELSE L[(i - 1) + 1]
          BY <5>1, <2>3, <1>2, <1>5 DEF IsList, PutInFront
        <5>3. i # m + 1 => i + 1 \in 1..(m + 1) /\ i + 1 # 1 /\ K[i + 1] = L[(i + 1) - 1]
          BY <2>2
        <5>4. (i - 1) + 1 = (i + 1) - 1 /\ (i - 1 = m <=> i = m + 1)
          OBVIOUS
        <5> QED
          BY <5>2, <5>3, <5>4
      <4> QED
        BY <4>1, <4>2
    <3> QED
      BY <3>1, <3>2, <3>3, <3>4 DEF IsList
  <2> QED
    BY <2>2, <2>4 DEF Linked
<1> QED
  BY <1>3, <1>4, <1>5, ListStep

\* Every variable of the allocator has its type: next never leaves the chunks.
THEOREM TypeCorrect == Spec => []TypeOK
<1>1. Inv => TypeOK
  BY DEF Inv
<1> QED
  BY InitInv, NextInv, <1>1, PTL DEF Spec

\* operator new hands out no block that has an owner, operator delete makes the
\* block free again, and nothing else changes who owns what.
THEOREM ChunksImplement == Spec => Implements
<1>1. Init => A!Init
  BY DEF Init, A!Init
<1>2. Inv /\ [Next]_vars => [A!Next]_owners
  <2> SUFFICES ASSUME Inv, [Next]_vars PROVE [A!Next]_owners
    OBVIOUS
  <2> USE DEF Inv, NULL
  <2>t. ChunkSize * MaxChunks \in Nat
    BY ChunkSizeAssumption, MaxChunksAssumption
  <2>1. CASE NewFromList
    BY <2>1, HandOutAllocates DEF NewFromList, Chain, Freed
  <2>2. CASE NewFromChunk
    <3>1. next \in Blocks /\ owners[next] = 0
      BY <2>2, <2>t, ChunksFit DEF NewFromChunk, TypeOK, Position, Blocks
    <3> QED
      BY <2>2, <3>1, HandOutAllocates DEF NewFromChunk
  <2>3. CASE NewFromNewChunk
    <3> DEFINE chunk == chunks * ChunkSize + 1
    <3>1. HandOut(chunk) /\ next = end /\ chunks < MaxChunks /\ chunks \in Nat
      BY <2>3 DEF NewFromNewChunk, TypeOK
    <3>2. chunk \in Blocks /\ next <= chunk
      BY <3>1, ChunkFits, ChunkSizeAssumption DEF Blocks, Position, TypeOK
    <3> HIDE DEF chunk
    <3>3. owners[chunk] = 0
      BY <3>2 DEF Position
    <3> QED
      BY <3>1, <3>2, <3>3, HandOutAllocates
  <2>4. ASSUME NEW b \in Blocks, Write(b) PROVE [A!Next]_owners
    BY <2>4 DEF Write
  <2>5. ASSUME NEW b \in Blocks, Delete(b) PROVE [A!Next]_owners
    <3>1. owners[b] = 1
      BY <2>5 DEF Delete, Position
    <3>2. owners' = [owners EXCEPT ![b] = 0]
      BY <2>5, <3>1 DEF Delete
    <3> QED
      BY <3>1, <3>2 DEF A!Next, A!Free
  <2>6. CASE UNCHANGED vars
    BY <2>6 DEF vars
  <2> QED
    BY <2>1, <2>2, <2>3, <2>4, <2>5, <2>6 DEF Next
<1> QED
  BY <1>1, <1>2, InitInv, NextInv, PTL DEF Spec, Implements, A!Spec

-----------------------------------------------------------------------------
\* Following the pointers for as many steps as there are blocks yields the whole
\* list.
LEMMA ListedIsFreed ==
    ASSUME TypeOK, Linked
    PROVE  Listed(ChunkSize * MaxChunks) = Freed
<1> USE DEF NULL
<1> DEFINE n == ChunkSize * MaxChunks
<1>0. n \in Nat /\ Blocks = 1..n /\ NULL \notin Blocks /\ Freed \subseteq Blocks
  BY ChunkSizeAssumption, MaxChunksAssumption DEF Blocks, Freed
<1> HIDE DEF n
<1>1. PICK m \in Nat : \E L \in [1..m -> Blocks] : IsList(L, m)
  BY DEF Linked
<1>2. PICK L \in [1..m -> Blocks] : IsList(L, m)
  BY <1>1
<1>3. m <= n
  <2>1. L \in Injection(1..m, 1..n)
    BY <1>0, <1>2 DEF IsList, Injection, IsInjective
  <2> QED
    BY <2>1, <1>0, Fun_NatInjLeq DEF ExistsInjection
<1> DEFINE step(f, i) == IF i = 0 THEN freelist
                         ELSE IF f[i - 1] = NULL THEN NULL ELSE field[f[i - 1]]
           walk(f) == f = [i \in 0..n |-> step(f, i)]
           g == [i \in 0..n |-> IF i < m THEN L[i + 1] ELSE NULL]
<1>4. walk(g)
  <2>1. ASSUME NEW i \in 0..n PROVE g[i] = step(g, i)
    <3>1. CASE i = 0
      BY <3>1, <1>0, <1>2 DEF IsList
    <3>2. CASE i # 0 /\ i - 1 < m
      <4>1. i - 1 \in 0..n /\ i \in 1..m
        BY <3>2, <1>0
      <4>2. g[i - 1] = L[(i - 1) + 1] /\ (i - 1) + 1 = i
        BY <3>2, <4>1
      <4>3. g[i - 1] = L[i] /\ L[i] # NULL
        BY <4>1, <4>2, <1>0
      <4>4. field[L[i]] = IF i = m THEN NULL ELSE L[i + 1]
        BY <4>1, <1>2 DEF IsList
      <4>5. i < m <=> i # m
        BY <4>1
      <4> QED
        BY <3>2, <4>3, <4>4, <4>5
    <3>3. CASE i # 0 /\ ~(i - 1 < m)
      <4>1. i - 1 \in 0..n /\ ~(i < m)
        BY <3>3, <1>0
      <4> QED
        BY <3>3, <4>1
    <3> QED
      BY <3>1, <3>2, <3>3
  <2> QED
    BY <2>1
<1>5. ASSUME NEW f, walk(f) PROVE f = g
  <2> DEFINE T == {i \in 0..n : f[i] # g[i]}
  <2>1. T = {}
    <3> SUFFICES ASSUME T # {} PROVE FALSE
      OBVIOUS
    <3>1. T \subseteq Nat
      BY <1>0
    <3>2. PICK i \in T : \A j \in T : <<j, i>> \notin OpToRel(<, Nat)
      BY <3>1, WFMin, NatLessThanWellFounded
    <3>3. \A j \in T : ~(j < i)
      BY <3>1, <3>2 DEF OpToRel
    <3>4. i \in 0..n /\ f[i] # g[i]
      OBVIOUS
    <3>5. f[i] = step(f, i) /\ g[i] = step(g, i)
      BY <3>4, <1>4, <1>5
    <3>6. CASE i = 0
      BY <3>4, <3>5, <3>6
    <3>7. CASE i # 0
      <4>1. i - 1 \in 0..n /\ i - 1 < i
        BY <1>0, <3>4, <3>7
      <4>2. f[i - 1] = g[i - 1]
        BY <4>1, <3>3
      <4> HIDE DEF g
      <4> QED
        BY <3>4, <3>5, <3>7, <4>2
    <3> QED
      BY <3>6, <3>7
  <2>2. f = [i \in 0..n |-> f[i]] /\ g = [i \in 0..n |-> g[i]]
    BY <1>4, <1>5
  <2> HIDE DEF g
  <2> QED
    BY <2>1, <2>2
<1>6. (CHOOSE f : walk(f)) = g
  <2> HIDE DEF walk, g
  <2> QED
    BY <1>4, <1>5
<1>7. Listed(n) = {g[i] : i \in 0..n} \ {NULL}
  <2> HIDE DEF g
  <2> QED
    BY <1>6 DEF Listed
<1>8. {g[i] : i \in 0..n} \ {NULL} = Freed
  <2>1. ASSUME NEW i \in 0..n, g[i] # NULL PROVE g[i] \in Freed
    <3>1. i < m /\ i + 1 \in 1..m /\ g[i] = L[i + 1]
      BY <2>1
    <3> QED
      BY <3>1, <1>2 DEF IsList
  <2>2. ASSUME NEW b \in Freed PROVE \E i \in 0..n : g[i] = b
    <3>1. PICK i \in 1..m : L[i] = b
      BY <1>0, <1>2 DEF IsList
    <3>2. i - 1 \in 0..n /\ i - 1 < m /\ (i - 1) + 1 = i
      BY <1>0, <1>3
    <3>3. g[i - 1] = L[i]
      BY <3>2
    <3> QED
      BY <3>1, <3>2, <3>3
  <2> HIDE DEF g
  <2> QED
    BY <2>1, <2>2, <1>0
<1> QED
  BY <1>7, <1>8 DEF n

\* No block is lost: each is owned, in the free list or still to be cut, and never
\* two of these.  operator new asks for a chunk when there is no free block only.
THEOREM NoBlockLost == Spec => []NoneLost
<1>1. Init => Linked
  <2> SUFFICES ASSUME Init PROVE Linked
    OBVIOUS
  <2>1. Freed = {} /\ freelist = NULL
    BY ChunkSizeAssumption, MaxChunksAssumption DEF Init, Freed, NULL, Blocks
  <2> DEFINE L == [i \in 1..0 |-> NULL]
  <2>2. L \in [1..0 -> Blocks]
    OBVIOUS
  <2>3. IsList(L, 0)
    BY <2>1 DEF IsList
  <2> QED
    BY <2>2, <2>3 DEF Linked
<1>2. Inv /\ Linked => NoneLost
  <2> SUFFICES ASSUME Inv, Linked PROVE NoneLost
    OBVIOUS
  <2> DEFINE cut == {b \in Blocks : next <= b /\ b < end}
             owned == {b \in Blocks : owners[b] > 0}
             top == chunks * ChunkSize
  <2>1. Listed(ChunkSize * MaxChunks) = Freed
    BY ListedIsFreed DEF Inv
  <2>2. top \in Nat /\ ChunkSize * MaxChunks \in Nat /\ top <= ChunkSize * MaxChunks
    BY ChunksFit DEF Inv, TypeOK
  <2>3. next \in Nat /\ end \in Nat /\ owners \in [Blocks -> Nat]
    BY <2>2 DEF Inv, TypeOK, NULL, Blocks
  <2>4. owned \cap (Freed \cup cut) = {} /\ Freed \cap cut = {}
    BY <2>2, <2>3 DEF Inv, Position, Freed, Blocks
  <2>5. owned \cup Freed \cup cut = 1..top
    <3>1. CASE chunks = 0
      <4>1. top = 0 /\ next = 0 /\ end = 0
        BY <3>1, ChunkSizeAssumption DEF Inv, Position, NULL
      <4> HIDE DEF top
      <4> QED
        BY <4>1, <2>2, <2>3 DEF Inv, Position, Freed, Blocks
    <3>2. CASE chunks # 0
      <4>1. end = top + 1 /\ next \in 1..end
        BY <3>2 DEF Inv, Position, NULL
      <4> HIDE DEF top
      <4>2. ASSUME NEW b \in Blocks
            PROVE  b \in owned \cup Freed \cup cut <=> b <= top
        BY <4>1, <2>2, <2>3 DEF Inv, Position, Freed, Blocks
      <4>3. 1..top \subseteq Blocks /\ owned \cup Freed \cup cut \subseteq Blocks
        BY <2>2 DEF Freed, Blocks
      <4> QED
        BY <4>2, <4>3, <2>2 DEF Blocks
    <3> QED
      BY <3>1, <3>2
  <2> QED
    BY <2>1, <2>4, <2>5 DEF NoneLost
<1> QED
  BY <1>1, <1>2, InitInv, NextInv, NextLinked, PTL DEF Spec
=============================================================================
