---------------------------- MODULE MCCheckpoint ----------------------------
EXTENDS Checkpoint, TLC

\* Coins and keys are interchangeable; operations are not, they are created in order.
Symmetry == Permutations(Coins) \cup Permutations(Keys)
=============================================================================
