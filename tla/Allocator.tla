------------------------------ MODULE Allocator ------------------------------
(* What operator new and operator delete promise: a block has one owner at *)
(* a time, and a block without an owner is anybody's.                      *)
EXTENDS Naturals

CONSTANT Blocks

VARIABLE owners  \* how many owners every block has

Init == owners = [b \in Blocks |-> 0]

Allocate(b) == owners[b] = 0 /\ owners' = [owners EXCEPT ![b] = 1]
Free(b) == owners[b] = 1 /\ owners' = [owners EXCEPT ![b] = 0]

Next == \E b \in Blocks : Allocate(b) \/ Free(b)

Spec == Init /\ [][Next]_owners
=============================================================================
