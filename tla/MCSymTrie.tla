------------------------------ MODULE MCSymTrie ------------------------------
(***************************************************************************)
(* An instance of SymTrie for TLC.                                         *)
(***************************************************************************)
EXTENDS SymTrie, TLC

CONSTANTS a, b

\* the empty string, strings that part at the first and at the second
\* character, and one that is the beginning of another
MCKey == {<<>>, <<b>>, <<a, a>>, <<a, b>>, <<a, b, a>>}

DataSymmetry == Permutations(Data)
=============================================================================
