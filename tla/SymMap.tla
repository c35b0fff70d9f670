------------------------------- MODULE SymMap -------------------------------
(***************************************************************************)
(* What the checker relies on in its symbol table, Trie of src/trie.h: a   *)
(* total map from strings to data, where insert returns what it replaces.  *)
(* The binders of check() put exactly that value back.                     *)
(***************************************************************************)
CONSTANTS Key, Data, NoData

VARIABLES
    map,  \* the data of each string
    ret   \* what the last call returned

Init ==
    /\ map = [s \in Key |-> NoData]
    /\ ret = NoData

Insert(s, x) ==
    /\ map' = [map EXCEPT ![s] = x]
    /\ ret' = map[s]

Get(s) ==
    /\ ret' = map[s]
    /\ UNCHANGED map

Next ==
    \E s \in Key : Get(s) \/ \E x \in Data \cup {NoData} : Insert(s, x)

Spec == Init /\ [][Next]_<<map, ret>>
=============================================================================
