------------------------------ MODULE SymTrie -------------------------------
(***************************************************************************)
(* The trie of src/trie.h, one step per activation of insert().            *)
(*                                                                         *)
(* A node is named by the characters that lead to it.  It may hold one     *)
(* whole remaining string (str) as long as it has no children; a second    *)
(* string pushes the first one down before it goes down itself.            *)
(***************************************************************************)
EXTENDS Integers, Sequences

CONSTANTS
    Char,
    Key,      \* the strings that are used
    Data,
    NoData,   \* Data(): the pair (NULL, NULL)
    NoStr     \* str is NULL

ASSUME DataAssumption == NoData \notin Data
ASSUME StrAssumption == NoStr \notin Seq(Char)
ASSUME KeyAssumption == Key \subseteq Seq(Char)

VARIABLES
    nodes,  \* node -> str, d and using_next
    call,   \* the insert() that runs: its string, its data, the node it is at
    ret     \* what the last call returned

vars == <<nodes, call, ret>>

-----------------------------------------------------------------------------
Entry == Data \cup {NoData}

Node(str, d, using_next) == [str |-> str, d |-> d, using_next |-> using_next]
Empty == Node(NoStr, NoData, FALSE)

\* the first n characters of s, and those after them
Upto(s, n) == SubSeq(s, 1, n)
After(s, n) == SubSeq(s, n + 1, Len(s))

Idle == [busy |-> FALSE, s |-> <<>>, x |-> NoData, at |-> 0]

\* f with the value v at p, which may be new
Put(f, p, v) == [q \in DOMAIN f \cup {p} |-> IF q = p THEN v ELSE f[q]]

\* A faulty PushDown: the string stays at p as well.
PushDownCopies(ns, p) ==
    LET n == ns[p]
    IN  Put([ns EXCEPT ![p].using_next = TRUE],
            Append(p, n.str[1]), Node(Tail(n.str), n.d, FALSE))

\* insert_next(str, d) at node p: its string goes to a new child.  No node with
\* a string has children (TrieShape), so the child does not exist yet.
PushDown(ns, p) ==
    LET n == ns[p]
    IN  Put([ns EXCEPT ![p] = Node(NoStr, NoData, TRUE)],
            Append(p, n.str[1]), Node(Tail(n.str), n.d, FALSE))

HasString(n) == n.str \notin {NoStr, <<>>}

\* a node for p with room for more below it
Emptied(ns, p) == IF HasString(ns[p]) THEN PushDown(ns, p) ELSE ns

\* get(s): the walk goes down until a node answers or there is no child
Answers(n, r) == n.str = r \/ (r = <<>> /\ n.str = NoStr)

Lookup(ns, s) ==
    LET Here(k) == ns[Upto(s, k)]
        Ends(k) == \/ k = Len(s) \/ Upto(s, k + 1) \notin DOMAIN ns
                   \/ Answers(Here(k), After(s, k))
        last == CHOOSE k \in 0..Len(s) : Ends(k) /\ \A j \in 0..(k - 1) : ~Ends(j)
    IN  IF Answers(Here(last), After(s, last)) THEN Here(last).d ELSE NoData

-----------------------------------------------------------------------------
At == Upto(call.s, call.at)
Rest == After(call.s, call.at)

Return(r) == ret' = r /\ call' = Idle

Get(s) ==
    /\ ~call.busy
    /\ ret' = Lookup(nodes, s)
    /\ UNCHANGED <<nodes, call>>

Insert(s, x) ==
    /\ ~call.busy
    /\ call' = [busy |-> TRUE, s |-> s, x |-> x, at |-> 0]
    /\ UNCHANGED <<nodes, ret>>

\* A faulty Replace: it returns the new entry.
ReplaceReturnsNew ==
    /\ call.busy /\ Rest = <<>> /\ nodes[At].str = <<>>
    /\ nodes' = [nodes EXCEPT ![At].d = call.x]
    /\ Return(call.x)

\* the string ends here and is here already
Replace ==
    /\ call.busy /\ Rest = <<>> /\ nodes[At].str = <<>>
    /\ nodes' = [nodes EXCEPT ![At].d = call.x]
    /\ Return(nodes[At].d)

\* the string ends here: what is stored here makes room
StoreAtEnd ==
    /\ call.busy /\ Rest = <<>> /\ nodes[At].str # <<>>
    /\ LET ns == Emptied(nodes, At)
       IN  nodes' = [ns EXCEPT ![At] = Node(<<>>, call.x, @.using_next)]
    /\ Return(NoData)

\* nothing is here or below: store the rest of the string here
Store ==
    /\ call.busy /\ Rest # <<>>
    /\ nodes[At].str = NoStr /\ ~nodes[At].using_next
    /\ nodes' = [nodes EXCEPT ![At].str = Rest, ![At].d = call.x]
    /\ Return(NoData)

\* insert_next(s, x): go down, to a new child if need be
Descend ==
    /\ call.busy /\ Rest # <<>>
    /\ nodes[At].str # NoStr \/ nodes[At].using_next
    /\ LET ns == Emptied(nodes, At)
           child == Append(At, Rest[1])
           up == [ns EXCEPT ![At].using_next = TRUE]
       IN  nodes' = IF child \in DOMAIN ns THEN up ELSE Put(up, child, Empty)
    /\ call' = [call EXCEPT !.at = @ + 1]
    /\ UNCHANGED ret

Init ==
    /\ nodes = [p \in {<<>>} |-> Empty]
    /\ call = Idle
    /\ ret = NoData

Next ==
    \/ \E s \in Key : Get(s) \/ \E x \in Entry : Insert(s, x)
    \/ Replace \/ StoreAtEnd \/ Store \/ Descend

Spec == Init /\ [][Next]_vars

-----------------------------------------------------------------------------
(* Correctness *)

\* A node that holds the rest of a string has no children, every other node but
\* the root has a parent that knows of it, and no string is stored twice, so
\* that the destructor releases each entry once.
TrieShape ==
    /\ \A p \in DOMAIN nodes : HasString(nodes[p]) => ~nodes[p].using_next
    /\ \A p \in DOMAIN nodes \ {<<>>} :
          Upto(p, Len(p) - 1) \in DOMAIN nodes /\ nodes[Upto(p, Len(p) - 1)].using_next
    /\ \A p, q \in DOMAIN nodes :
          ( /\ nodes[p].str # NoStr /\ nodes[q].str # NoStr
            /\ p \o nodes[p].str = q \o nodes[q].str ) => p = q

M == INSTANCE SymMap WITH map <- [s \in Key |-> Lookup(nodes, s)], ret <- ret

\* The trie is a map: every get() and every insert() returns what the last
\* insert() of the same string stored, and no insert() changes another string's
\* entry, not even while it is pushing strings down.
Implements == M!Spec
=============================================================================
