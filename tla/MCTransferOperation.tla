------------------------- MODULE MCTransferOperation -------------------------
(***************************************************************************)
(* TransferOperation on small instances.                                   *)
(***************************************************************************)
EXTENDS TransferOperation, TLC

\* An operation that is re-entered is not exchanged with one that is not.
MCSymmetry == Permutations(Operations \ Reenter) \cup Permutations(Outpoints)
              \cup Permutations(Coins) \cup Permutations(Threads)
=============================================================================
