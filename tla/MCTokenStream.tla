---------------------------- MODULE MCTokenStream ----------------------------
(* Any file of up to MaxTokens tokens.                                     *)
EXTENDS TokenStream

=============================================================================
