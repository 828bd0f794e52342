------------------------------- MODULE MCFfi -------------------------------
\* Threads are interchangeable, and so are addresses; no liveness property is
\* checked with this symmetry.
EXTENDS Ffi, TLC

Symmetry == Permutations(Threads) \cup Permutations(Slots)
=============================================================================
