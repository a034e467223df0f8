---------------------------- MODULE MCTcpSocket ----------------------------
EXTENDS TcpSocket, TLC

\* Coroutines, sockets, timers and requests are told apart only by identity.
Symmetry == Permutations(Coros) \cup Permutations(Socks)
              \cup Permutations(Timers) \cup Permutations(Reqs)

Plain == {}
Timeouts == {SetsTimeout}

AllCalls == {SetsTimeout, WritesAsync, Shuts}
DuringRead == {CloseDuringRead}
AfterTimedRead == {CloseAfterTimedRead}
=============================================================================
