------------------------------ MODULE MCSigner ------------------------------
(***************************************************************************)
(* An instance of Signer for TLC.                                          *)
(***************************************************************************)
EXTENDS Signer, TLC

\* The signer's handlers run the same code, and so do the bot's.
HandlerSymmetry == Permutations(Calls) \cup Permutations(Tasks \ Calls)
=============================================================================
