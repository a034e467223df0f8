------------------------------ MODULE MCProcess ------------------------------
EXTENDS Process, TLC

\* No definition tells one handler from another.
HandlerSymmetry == Permutations(Handlers)
=============================================================================
