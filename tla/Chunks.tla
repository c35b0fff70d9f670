------------------------------- MODULE Chunks -------------------------------
(***************************************************************************)
(* The memory of CExpr objects: blocks are cut from chunks, and freed ones *)
(* are chained through the field that a live object keeps its kids in.     *)
(* A block is its number; chunk c has the blocks (c - 1) * ChunkSize + 1   *)
(* to c * ChunkSize.  The owner of a live block may do with it as it likes *)
(* and deletes it once.  malloc() never fails.                             *)
(***************************************************************************)
EXTENDS Naturals

CONSTANTS ChunkSize,  \* THE_CHUNK_SIZE
          MaxChunks   \* how many chunks there is memory for

ASSUME ChunkSizeAssumption == ChunkSize \in Nat \ {0}
ASSUME MaxChunksAssumption == MaxChunks \in Nat

NULL == 0
Blocks == 1..(ChunkSize * MaxChunks)

VARIABLES chunks,    \* how many chunks have been allocated
          next,      \* C_MACROS__next_free_block
          end,       \* C_MACROS__end_of_current_chunk
          freelist,  \* C_MACROS__freelist
          field,     \* THE_FIELD of every block, seen as a pointer
          owners     \* how many owners every block has

vars == <<chunks, next, end, freelist, field, owners>>

\* next and end are null pointers until the first block is asked for.
Init ==
    /\ chunks = 0
    /\ next = NULL
    /\ end = NULL
    /\ freelist = NULL
    /\ field \in [Blocks -> {NULL}]
    /\ owners = [b \in Blocks |-> 0]

-----------------------------------------------------------------------------
\* The constructor of a new object and its owner write anything to the field.
HandOut(b) ==
    /\ owners' = [owners EXCEPT ![b] = @ + 1]
    /\ \E f \in Blocks \cup {NULL} : field' = [field EXCEPT ![b] = f]

\* A faulty version: the block stays first in the list.
NewFromListKept ==
    /\ freelist # NULL
    /\ HandOut(freelist)
    /\ UNCHANGED <<chunks, next, end, freelist>>

NewFromList ==
    /\ freelist # NULL
    /\ freelist' = field[freelist]
    /\ HandOut(freelist)
    /\ UNCHANGED <<chunks, next, end>>

\* A faulty version: the end of the chunk is not looked for.
NewFromChunkUnbounded ==
    /\ freelist = NULL
    /\ next' = next + 1
    /\ HandOut(next)
    /\ UNCHANGED <<chunks, end, freelist>>

NewFromChunk ==
    /\ freelist = NULL
    /\ next # end
    /\ next' = next + 1
    /\ HandOut(next)
    /\ UNCHANGED <<chunks, end, freelist>>

\* A faulty version: a chunk is allocated when the last block is still free.
NewFromNewChunkEarly ==
    LET chunk == chunks * ChunkSize + 1
    IN  /\ freelist = NULL
        /\ next = end \/ next + 1 = end
        /\ chunks < MaxChunks
        /\ chunks' = chunks + 1
        /\ next' = chunk + 1
        /\ end' = chunk + ChunkSize
        /\ HandOut(chunk)
        /\ UNCHANGED freelist

\* allocate_new_chunk() first
NewFromNewChunk ==
    LET chunk == chunks * ChunkSize + 1
    IN  /\ freelist = NULL
        /\ next = end
        /\ chunks < MaxChunks
        /\ chunks' = chunks + 1
        /\ next' = chunk + 1
        /\ end' = chunk + ChunkSize
        /\ HandOut(chunk)
        /\ UNCHANGED freelist

\* the owner changes the field of its block
Write(b) ==
    /\ owners[b] > 0
    /\ \E f \in Blocks \cup {NULL} : field' = [field EXCEPT ![b] = f]
    /\ UNCHANGED <<chunks, next, end, freelist, owners>>

Delete(b) ==
    /\ owners[b] > 0
    /\ field' = [field EXCEPT ![b] = freelist]
    /\ freelist' = b
    /\ owners' = [owners EXCEPT ![b] = @ - 1]
    /\ UNCHANGED <<chunks, next, end>>

Next ==
    \/ NewFromList \/ NewFromChunk \/ NewFromNewChunk
    \/ \E b \in Blocks : Write(b) \/ Delete(b)

Spec == Init /\ [][Next]_vars

-----------------------------------------------------------------------------
TypeOK ==
    /\ chunks \in 0..MaxChunks
    /\ next \in Blocks \cup {NULL, ChunkSize * MaxChunks + 1}
    /\ end \in Blocks \cup {NULL, ChunkSize * MaxChunks + 1}
    /\ freelist \in Blocks \cup {NULL}
    /\ field \in [Blocks -> Blocks \cup {NULL}]
    /\ owners \in [Blocks -> Nat]

\* the blocks that the free list leads to in up to n steps
Listed(n) ==
    LET at[i \in 0..n] == IF i = 0 THEN freelist
                          ELSE IF at[i - 1] = NULL THEN NULL ELSE field[at[i - 1]]
    IN  {at[i] : i \in 0..n} \ {NULL}

\* Every block of a chunk is handed out, or the free list leads to it, or it is
\* still to be cut from the current chunk: none is lost, and a new chunk is asked
\* for when there is no free block only.
NoneLost ==
    LET cut == {b \in Blocks : next <= b /\ b < end}
        list == Listed(ChunkSize * MaxChunks)
        owned == {b \in Blocks : owners[b] > 0}
    IN  /\ owned \cup list \cup cut = 1..(chunks * ChunkSize)
        /\ owned \cap (list \cup cut) = {} /\ list \cap cut = {}

\* No block is handed out that somebody still owns, whatever its owner writes to
\* the field that operator delete chains the free list through.
A == INSTANCE Allocator
Implements == A!Spec
=============================================================================
