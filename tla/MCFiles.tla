------------------------------ MODULE MCFiles ------------------------------
EXTENDS Files, TLC

\* The coroutines, the descriptors, and the streams of a kind are alike.
Symmetry ==
  Permutations(Coros) \cup Permutations(Fds)
    \cup Permutations(Writers) \cup Permutations(Streams \ Writers)
=============================================================================
