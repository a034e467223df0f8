-------------------------- MODULE TcpCalls_proofs --------------------------
(***************************************************************************)
(* Timers are never mixed up, and every suspended coroutine is resumed by  *)
(* exactly one thing, as AsyncCall promises: for any number of coroutines, *)
(* sockets, timers and requests, of a program that closes no socket while  *)
(* it is being read or after a read with a timeout.                        *)
(***************************************************************************)
EXTENDS TcpSocket_proofs

CarefulClose == CloseDuringRead \notin Allow /\ CloseAfterTimedRead \notin Allow

Objects == Socks \cup Reqs

-----------------------------------------------------------------------------
(* Timers *)

\* A timer points to what it belongs to, and a running timer points to something.
Pointers == \A t \in Timers, o \in Objects : armed[t] = o <=> Owns(o, t)
Running == \A t \in Timers : timer[t] = "used" <=> armed[t] # NoOwner

\* Only an open socket has a read timer, or is reading.
ReadTimers == \A s \in Socks : phase[s] # "open" => rtimer[s] = NoTimer /\ ~reading[s]

\* Where a socket is when it has requests: a connect is the only one of its socket,
\* which it connects, or closes after its timeout.
Phases ==
  /\ \A r \in Reqs : req[r].kind # "free" => phase[req[r].sock] # "closed"
  /\ \A r \in Reqs : req[r].kind = "connect" =>
       phase[req[r].sock] = IF req[r].timedout THEN "closing" ELSE "connecting"
  /\ \A r \in Reqs : req[r].timedout =>
       req[r].timer = NoTimer /\ req[r].kind \in {"connect", "write"}
  /\ \A r \in Reqs : req[r].kind = "shutdown" => req[r].timer = NoTimer
  /\ \A r, x \in Reqs :
       req[r].kind = "connect" /\ req[x].kind = "connect" /\ req[r].sock = req[x].sock => r = x

Timed == Pointers /\ Running /\ PoolCounted /\ ReadTimers

LEMMA StartTimerRuns ==
  ASSUME TimersTyped, Running, PoolCounted,
         NEW t \in Allocatable \cup {NoTimer}, NEW o \in Objects, StartTimer(t, o)
  PROVE  Running' /\ PoolCounted'
<1>1. CASE t = NoTimer
  BY <1>1 DEF StartTimer, timerVars, Running, PoolCounted, Pool
<1>2. CASE t # NoTimer
  <2>1. t \in Timers /\ timer[t] \in {"pool", "heap"} /\ o # NoOwner
    BY <1>2, AllocatableIs, SocketAssumption DEF Objects
  <2>2. /\ nfree' = IF timer[t] = "pool" THEN nfree - 1 ELSE nfree
        /\ timer' = [timer EXCEPT ![t] = "used"]
        /\ armed' = [armed EXCEPT ![t] = o]
    BY <1>2 DEF StartTimer
  <2>3. Running'
    BY <2>1, <2>2 DEF Running, TimersTyped
  <2>4. Pool' = Pool \ {t} /\ (t \in Pool <=> timer[t] = "pool")
    BY <2>1, <2>2 DEF Pool, TimersTyped
  <2>5. Cardinality(Pool \ {t}) = IF t \in Pool THEN Cardinality(Pool) - 1 ELSE Cardinality(Pool)
    BY PoolFinite, FS_RemoveElement
  <2>6. PoolCounted'
    BY <2>2, <2>4, <2>5, PoolFinite, SocketAssumption DEF PoolCounted
  <2>7. QED
    BY <2>3, <2>6
<1>3. QED
  BY <1>1, <1>2

\* A timer that is not in the free list may be freed.
LEMMA FreeTimerRuns ==
  ASSUME TimersTyped, Running, PoolCounted,
         NEW t \in Timers \cup {NoTimer}, t # NoTimer => timer[t] # "pool", FreeTimer(t)
  PROVE  Running' /\ PoolCounted'
<1>1. CASE t = NoTimer
  BY <1>1 DEF FreeTimer, timerVars, Running, PoolCounted, Pool
<1>2. CASE t # NoTimer /\ nfree < MaxFreeTimers
  <2>1. /\ t \in Timers /\ nfree' = nfree + 1 /\ timer[t] # "pool"
        /\ timer' = [timer EXCEPT ![t] = "pool"]
        /\ armed' = [armed EXCEPT ![t] = NoOwner]
    BY <1>2, SocketAssumption DEF FreeTimer, TimersTyped
  <2>2. Running'
    BY <2>1 DEF Running, TimersTyped
  <2>3. Pool' = Pool \cup {t} /\ t \notin Pool
    BY <2>1 DEF Pool, TimersTyped
  <2>4. Cardinality(Pool \cup {t}) = IF t \in Pool THEN Cardinality(Pool) ELSE Cardinality(Pool) + 1
    BY PoolFinite, FS_AddElement
  <2>5. PoolCounted'
    BY <1>2, <2>1, <2>3, <2>4, PoolFinite, SocketAssumption DEF PoolCounted
  <2>6. QED
    BY <2>2, <2>5
<1>3. CASE t # NoTimer /\ nfree >= MaxFreeTimers
  <2>1. /\ t \in Timers /\ nfree' = nfree /\ timer[t] # "pool"
        /\ timer' = [timer EXCEPT ![t] = "closing"]
        /\ armed' = [armed EXCEPT ![t] = NoOwner]
    BY <1>3, SocketAssumption DEF FreeTimer, TimersTyped
  <2>2. Running'
    BY <2>1 DEF Running, TimersTyped
  <2>3. Pool' = Pool
    BY <2>1 DEF Pool, TimersTyped
  <2>4. QED
    BY <2>1, <2>2, <2>3 DEF PoolCounted
<1>4. QED
  BY <1>1, <1>2, <1>3, SocketAssumption DEF TimersTyped

LEMMA TimersStayRunning ==
  Running /\ PoolCounted /\ UNCHANGED timerVars => Running' /\ PoolCounted'
BY DEF Running, PoolCounted, Pool, timerVars

\* A timer from the heap that a failing call allocates, and gives to the pool.
LEMMA HeapTimerFreed ==
  ASSUME TimersTyped, Running, PoolCounted, Pool = {}, NEW t \in Allocatable, FreeTimer(t)
  PROVE  Running' /\ PoolCounted' /\ \A u \in Timers : armed'[u] = armed[u]
<1>1. t \in Timers /\ t # NoTimer /\ timer[t] = "heap" /\ armed[t] = NoOwner
  BY AllocatableIs DEF Allocatable, Running
<1>2. Running' /\ PoolCounted'
  BY <1>1, FreeTimerRuns
<1>3. \A u \in Timers : armed'[u] = armed[u]
  BY <1>1, FreeTimerArms
<1>4. QED
  BY <1>2, <1>3

LEMMA GivenBackRuns ==
  ASSUME TimersTyped, Running, PoolCounted, NEW s \in Socks, TimerGivenBack(s)
  PROVE  Running' /\ PoolCounted' /\ \A u \in Timers : armed'[u] = armed[u]
<1>1. CASE UNCHANGED timerVars
  BY <1>1, TimersStayRunning DEF timerVars
<1>2. CASE Pool = {} /\ \E t \in Allocatable : FreeTimer(t)
  BY <1>2, HeapTimerFreed
<1>3. QED
  BY <1>1, <1>2 DEF TimerGivenBack

\* The timer of its owner is running, and nobody else owns it.
LEMMA OwnedTimer ==
  ASSUME Pointers, Running, NEW t \in Timers, NEW o \in Objects, Owns(o, t)
  PROVE  timer[t] = "used" /\ timer[t] # "pool" /\ armed[t] = o
BY SocketAssumption DEF Pointers, Running, Objects

\* A timer that luaio_timer_alloc returns points to nothing.
LEMMA AllocatedTimer ==
  ASSUME Running, NEW t \in Allocatable
  PROVE  armed[t] = NoOwner
BY AllocatableIs DEF Running

\* Sockets and requests are different things.
LEMMA ObjectsAre ==
  /\ \A s \in Socks : s \notin Reqs /\ s # NoOwner /\ s \in Objects
  /\ \A r \in Reqs : r \notin Socks /\ r # NoOwner /\ r \in Objects
BY SocketAssumption DEF Objects

\* A free request has no timer.
LEMMA FreeReqIs ==
  ASSUME ReqsTyped, NEW r \in Reqs, req[r].kind = "free"
  PROVE  req[r] = FreeReq
BY DEF ReqsTyped, Request, Kinds

\* Pointers that nobody's owning changes.
LEMMA PointersKept ==
  ASSUME Pointers, \A t \in Timers : armed'[t] = armed[t],
         \A t \in Timers, o \in Objects : Owns(o, t)' <=> Owns(o, t)
  PROVE  Pointers'
BY DEF Pointers

\* Object z starts timer t.
LEMMA PointersStart ==
  ASSUME TimersTyped, Pointers, Running, NEW z \in Objects, NEW t \in Allocatable \cup {NoTimer},
         StartTimer(t, z),
         \A u \in Timers : ~Owns(z, u),
         \A u \in Timers : Owns(z, u)' <=> u = t,
         \A u \in Timers, o \in Objects \ {z} : Owns(o, u)' <=> Owns(o, u)
  PROVE  Pointers'
<1>1. SUFFICES ASSUME NEW u \in Timers, NEW o \in Objects
               PROVE  armed'[u] = o <=> Owns(o, u)'
  BY DEF Pointers
<1>2. armed'[u] = IF u = t THEN z ELSE armed[u]
  BY StartTimerArms
<1>3. u = t => armed[u] = NoOwner /\ o # NoOwner
  BY AllocatedTimer, ObjectsAre, SocketAssumption DEF Objects
<1>4. armed[u] = o <=> Owns(o, u)
  BY DEF Pointers
<1>5. CASE o = z
  BY <1>2, <1>4, <1>5
<1>6. CASE o # z
  BY <1>2, <1>3, <1>4, <1>6
<1>7. QED
  BY <1>5, <1>6

\* Object z gives up its timer t.
LEMMA PointersFree ==
  ASSUME TimersTyped, Pointers, Running, NEW z \in Objects, NEW t \in Timers \cup {NoTimer},
         FreeTimer(t),
         \A u \in Timers : Owns(z, u) <=> u = t,
         \A u \in Timers : ~Owns(z, u)',
         \A u \in Timers, o \in Objects \ {z} : Owns(o, u)' <=> Owns(o, u)
  PROVE  Pointers'
<1>1. SUFFICES ASSUME NEW u \in Timers, NEW o \in Objects
               PROVE  armed'[u] = o <=> Owns(o, u)'
  BY DEF Pointers
<1>2. armed'[u] = IF u = t THEN NoOwner ELSE armed[u]
  BY FreeTimerArms
<1>3. o # NoOwner
  BY SocketAssumption DEF Objects
<1>4. (armed[u] = o <=> Owns(o, u)) /\ (armed[u] = z <=> Owns(z, u))
  BY DEF Pointers
<1>5. CASE o = z
  BY <1>2, <1>3, <1>4, <1>5
<1>6. CASE o # z
  BY <1>2, <1>3, <1>4, <1>6
<1>7. QED
  BY <1>5, <1>6

\* What sockets and requests own, taken apart.
LEMMA SockOwns ==
  ASSUME NEW s \in Socks, NEW t
  PROVE  /\ Owns(s, t) <=> reading[s] /\ rtimer[s] = t
         /\ Owns(s, t)' <=> reading'[s] /\ rtimer'[s] = t
BY ObjectsAre DEF Owns

LEMMA ReqOwns ==
  ASSUME NEW r \in Reqs, NEW t
  PROVE  /\ Owns(r, t) <=> req[r].timer = t
         /\ Owns(r, t)' <=> req'[r].timer = t
BY ObjectsAre DEF Owns

\* A new socket owns nothing, and the one before it did not.
LEMMA NewSocketOwns ==
  ASSUME SocksTyped, ReadTimers, NEW c, NEW s \in Socks, phase[s] = "closed",
         NEW ph, NEW tm, NewSocket(c, s, ph, tm)
  PROVE  /\ ReadTimers'
         /\ \A x \in Socks, t \in Timers : Owns(x, t)' <=> Owns(x, t)
<1>1. /\ reading' = [reading EXCEPT ![s] = FALSE] /\ rtimer' = [rtimer EXCEPT ![s] = NoTimer]
      /\ phase' = [phase EXCEPT ![s] = ph] /\ ~reading[s]
  BY DEF NewSocket, ReadTimers
<1>2. ReadTimers'
  BY <1>1 DEF ReadTimers, SocksTyped
<1>3. ASSUME NEW x \in Socks, NEW t \in Timers
      PROVE  Owns(x, t)' <=> Owns(x, t)
  <2>1. x = s => ~reading[x] /\ ~reading'[x]
    BY <1>1 DEF SocksTyped
  <2>2. x # s => reading'[x] = reading[x] /\ rtimer'[x] = rtimer[x]
    BY <1>1 DEF SocksTyped
  <2>3. QED
    BY <2>1, <2>2, SockOwns
<1>4. QED
  BY <1>2, <1>3

\* A close begins on a socket that owns nothing.
LEMMA BeginCloseOwns ==
  ASSUME SocksTyped, ReadTimers, NEW c, NEW s \in Socks, BeginClose(c, s),
         rtimer[s] = NoTimer, ~reading[s]
  PROVE  /\ ReadTimers'
         /\ \A x \in Socks, t \in Timers : Owns(x, t)' <=> Owns(x, t)
<1>1. /\ reading' = [reading EXCEPT ![s] = FALSE] /\ rtimer' = rtimer
      /\ phase' = [phase EXCEPT ![s] = "closing"]
  BY DEF BeginClose
<1>2. \A x \in Socks : reading'[x] = reading[x]
  BY <1>1 DEF SocksTyped
<1>3. ReadTimers'
  BY <1>1, <1>2 DEF ReadTimers, SocksTyped
<1>4. QED
  BY <1>1, <1>2, <1>3, SockOwns

\* Sockets that do not change.
LEMMA SocksOwn ==
  ASSUME UNCHANGED <<reading, rtimer>>
  PROVE  \A x \in Socks, t \in Timers : Owns(x, t)' <=> Owns(x, t)
BY SockOwns

LEMMA ReadTimersKept ==
  ReadTimers /\ UNCHANGED <<phase, reading, rtimer>> => ReadTimers'
BY DEF ReadTimers

\* Requests of which only r changes.
LEMMA OtherReqsOwn ==
  ASSUME ReqsTyped, NEW r \in Reqs, NEW q, req' = [req EXCEPT ![r] = q]
  PROVE  /\ \A x \in Reqs \ {r}, t \in Timers : Owns(x, t)' <=> Owns(x, t)
         /\ \A t \in Timers : Owns(r, t)' <=> q.timer = t
<1>1. \A x \in Reqs : req'[x] = IF x = r THEN q ELSE req[x]
  BY DEF ReqsTyped
<1>2. QED
  BY <1>1, ReqOwns

LEMMA ReqsOwn ==
  ASSUME UNCHANGED req
  PROVE  \A x \in Reqs, t \in Timers : Owns(x, t)' <=> Owns(x, t)
BY ReqOwns

-----------------------------------------------------------------------------
(* Every action keeps the timers apart *)

LEMMA ConnectTimed ==
  ASSUME Typed, Timed, NEW c \in Coros, NEW s \in Socks, NEW tm \in BOOLEAN, Connect(c, s, tm)
  PROVE  Timed'
<1>1. PICK t \in IF tm THEN Allocatable ELSE {NoTimer}, r \in FreeReqs :
        /\ StartTimer(t, r)
        /\ req' = [req EXCEPT ![r] = NewReq("connect", s, c, t, 0)]
  BY DEF Connect
<1>2. NewSocket(c, s, "connecting", tm) /\ phase[s] = "closed"
  BY DEF Connect, Unused
<1>3. r \in Reqs /\ req[r] = FreeReq /\ t \in Allocatable \cup {NoTimer} /\ r \in Objects
  BY FreeReqIs, ObjectsAre DEF FreeReqs, Typed
<1>4. Running' /\ PoolCounted'
  BY <1>1, <1>3, StartTimerRuns DEF Typed, Timed
<1>5. ReadTimers' /\ \A x \in Socks, u \in Timers : Owns(x, u)' <=> Owns(x, u)
  BY <1>2, NewSocketOwns DEF Typed, Timed
<1>6. /\ \A x \in Reqs \ {r}, u \in Timers : Owns(x, u)' <=> Owns(x, u)
      /\ \A u \in Timers : Owns(r, u)' <=> u = t
  <2> DEFINE q == NewReq("connect", s, c, t, 0)
  <2>1. q.timer = t
    BY DEF NewReq
  <2> HIDE DEF q
  <2>2. req' = [req EXCEPT ![r] = q]
    BY <1>1 DEF q
  <2>3. QED
    BY <1>3, <2>1, <2>2, OtherReqsOwn DEF Typed
<1>7. \A u \in Timers : ~Owns(r, u)
  BY <1>3, FreeIs, ReqOwns, SocketAssumption
<1>8. \A u \in Timers, o \in Objects \ {r} : Owns(o, u)' <=> Owns(o, u)
  BY <1>5, <1>6 DEF Objects
<1>9. Pointers'
  BY <1>1, <1>3, <1>6, <1>7, <1>8, PointersStart DEF Typed, Timed
<1>10. QED
  BY <1>4, <1>5, <1>9 DEF Timed

LEMMA ConnectFailsTimed ==
  ASSUME Typed, Timed, NEW c \in Coros, NEW s \in Socks, NEW tm \in BOOLEAN, ConnectFails(c, s, tm)
  PROVE  Timed'
<1>1. NewSocket(c, s, "closing", tm) /\ UNCHANGED req /\ phase[s] = "closed"
  BY DEF ConnectFails, reqVars, Unused
<1>2. Running' /\ PoolCounted' /\ \A u \in Timers : armed'[u] = armed[u]
  BY TimersStayRunning, HeapTimerFreed DEF ConnectFails, Typed, Timed, timerVars
<1>3. ReadTimers' /\ \A x \in Socks, u \in Timers : Owns(x, u)' <=> Owns(x, u)
  BY <1>1, NewSocketOwns DEF Typed, Timed
<1>4. Pointers'
  BY <1>1, <1>2, <1>3, ReqsOwn, PointersKept DEF Timed, Objects
<1>5. QED
  BY <1>2, <1>3, <1>4 DEF Timed

LEMMA AcceptTimed ==
  ASSUME Typed, Timed, NEW c \in Coros, NEW s \in Socks, NEW tm \in BOOLEAN, Accept(c, s, tm)
  PROVE  Timed'
<1>1. /\ NewSocket(c, s, "open", tm) /\ UNCHANGED req /\ UNCHANGED timerVars /\ phase[s] = "closed"
  BY DEF Accept, reqVars, Unused
<1>2. Running' /\ PoolCounted' /\ \A u \in Timers : armed'[u] = armed[u]
  BY <1>1, TimersStayRunning DEF Timed, timerVars
<1>3. ReadTimers' /\ \A x \in Socks, u \in Timers : Owns(x, u)' <=> Owns(x, u)
  BY <1>1, NewSocketOwns DEF Typed, Timed
<1>4. Pointers'
  BY <1>1, <1>2, <1>3, ReqsOwn, PointersKept DEF Timed, Objects
<1>5. QED
  BY <1>2, <1>3, <1>4 DEF Timed

\* A callback frees the timer of request r, which then has none; sockets that own
\* what they owned.
LEMMA ReqTimerFreed ==
  ASSUME Typed, Timed, NEW r \in Reqs, NEW q, req' = [req EXCEPT ![r] = q], q.timer = NoTimer,
         NEW t \in Timers \cup {NoTimer}, t = req[r].timer, FreeTimer(t),
         \A x \in Socks, u \in Timers : Owns(x, u)' <=> Owns(x, u)
  PROVE  Pointers' /\ Running' /\ PoolCounted'
<1>1. \A u \in Timers : Owns(r, u) <=> u = t
  BY ReqOwns
<1>2. /\ \A x \in Reqs \ {r}, u \in Timers : Owns(x, u)' <=> Owns(x, u)
      /\ \A u \in Timers : ~Owns(r, u)'
  BY OtherReqsOwn, SocketAssumption DEF Typed
<1>3. \A u \in Timers, o \in Objects \ {r} : Owns(o, u)' <=> Owns(o, u)
  BY <1>2 DEF Objects
<1>4. r \in Objects
  BY ObjectsAre
<1>5. t # NoTimer => timer[t] # "pool"
  BY <1>1, <1>4, OwnedTimer DEF Timed
<1>6. Pointers'
  BY <1>1, <1>2, <1>3, <1>4, PointersFree DEF Typed, Timed
<1>7. Running' /\ PoolCounted'
  BY <1>5, FreeTimerRuns DEF Typed, Timed
<1>8. QED
  BY <1>6, <1>7

LEMMA OnConnectTimed ==
  ASSUME Typed, Timed, NEW r \in Reqs, OnConnect(r)
  PROVE  Timed'
<1> DEFINE s == req[r].sock
<1>1. /\ req[r].kind = "connect" /\ FreeTimer(req[r].timer)
      /\ req' = [req EXCEPT ![r] = FreeReq]
  BY DEF OnConnect
<1>2. s \in Socks /\ req[r].timer \in Timers \cup {NoTimer}
  BY <1>1, InUse DEF Typed
<1>3. ReadTimers' /\ \A x \in Socks, u \in Timers : Owns(x, u)' <=> Owns(x, u)
  <2>1. CASE UNCHANGED sockVars
    BY <2>1, SocksOwn, ReadTimersKept DEF sockVars, Timed
  <2>2. CASE /\ phase[s] = "connecting" /\ phase' = [phase EXCEPT ![s] = "open"]
             /\ UNCHANGED <<rtimer, reading>>
    <3>1. ReadTimers'
      BY <1>2, <2>2 DEF Timed, ReadTimers, Typed, SocksTyped
    <3>2. QED
      BY <2>2, <3>1, SocksOwn
  <2>3. CASE phase[s] = "connecting" /\ BeginClose(req[r].co, s)
    <3>1. rtimer[s] = NoTimer /\ ~reading[s]
      BY <1>2, <2>3 DEF Timed, ReadTimers
    <3>2. QED
      BY <1>2, <2>3, <3>1, BeginCloseOwns DEF Typed, Timed
  <2>4. QED
    BY <2>1, <2>2, <2>3 DEF OnConnect
<1>4. Pointers' /\ Running' /\ PoolCounted'
  BY <1>1, <1>2, <1>3, FreeIs, ReqTimerFreed
<1>5. QED
  BY <1>3, <1>4 DEF Timed

\* A request with a running timer has that timer, and has not timed out.
LEMMA ArmedReq ==
  ASSUME Timed, Phases, NEW t \in Timers, armed[t] \in Reqs
  PROVE  req[armed[t]].timer = t /\ ~req[armed[t]].timedout
<1>1. Owns(armed[t], t)
  BY ObjectsAre DEF Timed, Pointers
<1>2. req[armed[t]].timer = t
  BY <1>1, ReqOwns
<1>3. QED
  BY <1>2, SocketAssumption DEF Phases

LEMMA ConnectTimeoutTimed ==
  ASSUME Typed, Timed, Phases, NEW t \in Timers, ConnectTimeout(t)
  PROVE  Timed'
<1> DEFINE r == armed[t]
           s == req[r].sock
           q == [req[r] EXCEPT !.timer = NoTimer, !.timedout = TRUE]
<1>1. /\ r \in Reqs /\ req[r].kind = "connect" /\ FreeTimer(t) /\ BeginClose(req[r].co, s)
      /\ req' = [req EXCEPT ![r] = q]
  BY DEF ConnectTimeout, Typed, ReqsTyped
<1>2. s \in Socks /\ req[r] \in Request
  BY <1>1, InUse DEF Typed
<1>3. t = req[r].timer /\ ~req[r].timedout
  BY <1>1, ArmedReq
<1>4. phase[s] = "connecting"
  BY <1>1, <1>3 DEF Phases
<1>5. rtimer[s] = NoTimer /\ ~reading[s]
  BY <1>2, <1>4 DEF Timed, ReadTimers
<1>6. ReadTimers' /\ \A x \in Socks, u \in Timers : Owns(x, u)' <=> Owns(x, u)
  BY <1>1, <1>2, <1>5, BeginCloseOwns DEF Typed, Timed
<1>7. q.timer = NoTimer
  BY <1>2 DEF Request
<1> HIDE DEF q
<1>8. Pointers' /\ Running' /\ PoolCounted'
  BY <1>1, <1>3, <1>6, <1>7, ReqTimerFreed
<1>9. QED
  BY <1>6, <1>8 DEF Timed

\* What touches neither timers nor what owns them.
LEMMA TimedKept ==
  ASSUME Timed, UNCHANGED timerVars, UNCHANGED <<phase, reading, rtimer>>,
         \A x \in Reqs : req'[x].timer = req[x].timer
  PROVE  Timed'
<1>1. Running' /\ PoolCounted' /\ \A u \in Timers : armed'[u] = armed[u]
  BY TimersStayRunning DEF Timed, timerVars
<1>2. \A u \in Timers, o \in Objects : Owns(o, u)' <=> Owns(o, u)
  BY SocksOwn, ReqOwns DEF Objects
<1>3. QED
  BY <1>1, <1>2, PointersKept, ReadTimersKept DEF Timed

LEMMA FailsTimed ==
  ASSUME Typed, Timed, NEW c, NEW op, NEW s \in Socks, NEW n, Fails(c, op, s, n)
  PROVE  Timed'
<1>1. TimerGivenBack(s) /\ UNCHANGED sockVars /\ UNCHANGED req
  BY DEF Fails, reqVars
<1>2. Running' /\ PoolCounted' /\ \A u \in Timers : armed'[u] = armed[u]
  BY <1>1, GivenBackRuns DEF Typed, Timed
<1>3. Pointers'
  BY <1>1, <1>2, SocksOwn, ReqsOwn, PointersKept DEF Timed, Objects, sockVars
<1>4. QED
  BY <1>1, <1>2, <1>3, ReadTimersKept DEF Timed, sockVars

LEMMA ReadTimed ==
  ASSUME Typed, Timed, NEW c \in Coros, NEW s \in Socks, Read(c, s)
  PROVE  Timed'
<1>1. PICK t \in Deadlines(s) : StartTimer(t, s) /\ rtimer' = [rtimer EXCEPT ![s] = t]
  BY DEF Read
<1>2. /\ reading' = [reading EXCEPT ![s] = TRUE] /\ ~reading[s] /\ phase[s] = "open"
      /\ UNCHANGED phase /\ UNCHANGED req
  BY DEF Read, reqVars
<1>3. t \in Allocatable \cup {NoTimer} /\ s \in Objects
  BY DeadlinesAre, ObjectsAre
<1>4. Running' /\ PoolCounted'
  BY <1>1, <1>3, StartTimerRuns DEF Typed, Timed
<1>5. /\ \A x \in Socks : reading'[x] = IF x = s THEN TRUE ELSE reading[x]
      /\ \A x \in Socks : rtimer'[x] = IF x = s THEN t ELSE rtimer[x]
  BY <1>1, <1>2 DEF Typed, SocksTyped
<1>6. ReadTimers'
  BY <1>2, <1>5 DEF Timed, ReadTimers
<1>7. /\ \A u \in Timers : ~Owns(s, u)
      /\ \A u \in Timers : Owns(s, u)' <=> u = t
      /\ \A u \in Timers, x \in Socks \ {s} : Owns(x, u)' <=> Owns(x, u)
  BY <1>2, <1>5, SockOwns
<1>8. \A u \in Timers, o \in Objects \ {s} : Owns(o, u)' <=> Owns(o, u)
  BY <1>2, <1>7, ReqsOwn DEF Objects
<1>9. Pointers'
  BY <1>1, <1>3, <1>7, <1>8, PointersStart DEF Typed, Timed
<1>10. QED
  BY <1>4, <1>6, <1>9 DEF Timed

\* The reading of socket s ends and its timer is freed.
LEMMA ReadEnds ==
  ASSUME Typed, Timed, NEW s \in Socks, reading[s], reading' = [reading EXCEPT ![s] = FALSE],
         UNCHANGED rtimer, UNCHANGED phase, UNCHANGED req, FreeTimer(rtimer[s])
  PROVE  Timed'
<1>1. rtimer[s] \in Timers \cup {NoTimer} /\ s \in Objects
  BY ObjectsAre DEF Typed, SocksTyped
<1>2. \A x \in Socks : reading'[x] = IF x = s THEN FALSE ELSE reading[x]
  BY DEF Typed, SocksTyped
<1>3. /\ \A u \in Timers : Owns(s, u) <=> u = rtimer[s]
      /\ \A u \in Timers : ~Owns(s, u)'
      /\ \A u \in Timers, x \in Socks \ {s} : Owns(x, u)' <=> Owns(x, u)
  BY <1>2, SockOwns
<1>4. \A u \in Timers, o \in Objects \ {s} : Owns(o, u)' <=> Owns(o, u)
  BY <1>3, ReqsOwn DEF Objects
<1>5. rtimer[s] # NoTimer => timer[rtimer[s]] # "pool"
  BY <1>1, <1>3, OwnedTimer DEF Timed
<1>6. Running' /\ PoolCounted'
  BY <1>1, <1>5, FreeTimerRuns DEF Typed, Timed
<1>7. Pointers'
  BY <1>1, <1>3, <1>4, PointersFree DEF Typed, Timed
<1>8. ReadTimers'
  BY <1>2 DEF Timed, ReadTimers
<1>9. QED
  BY <1>6, <1>7, <1>8 DEF Timed

LEMMA OnReadTimed ==
  ASSUME Typed, Timed, NEW s \in Socks, OnRead(s)
  PROVE  Timed'
BY ReadEnds DEF OnRead, reqVars

\* The socket a running read timer points to is being read, with that timer.
LEMMA ArmedSock ==
  ASSUME Timed, NEW t \in Timers, armed[t] \in Socks
  PROVE  reading[armed[t]] /\ rtimer[armed[t]] = t
<1>1. Owns(armed[t], t)
  BY ObjectsAre DEF Timed, Pointers
<1>2. QED
  BY <1>1, SockOwns

LEMMA ReadTimeoutTimed ==
  ASSUME Typed, Timed, NEW t \in Timers, ReadTimeout(t)
  PROVE  Timed'
<1> DEFINE s == armed[t]
<1>1. /\ s \in Socks /\ reading' = [reading EXCEPT ![s] = FALSE] /\ FreeTimer(t)
      /\ UNCHANGED rtimer /\ UNCHANGED phase /\ UNCHANGED req
  BY DEF ReadTimeout, reqVars
<1>2. reading[s] /\ rtimer[s] = t
  BY <1>1, ArmedSock
<1> HIDE DEF s
<1>3. QED
  BY <1>1, <1>2, ReadEnds

LEMMA EnqueueTimed ==
  ASSUME Typed, Timed, NEW r \in FreeReqs, NEW s, NEW k, NEW c,
         NEW t \in Allocatable \cup {NoTimer}, NEW n, Enqueue(r, s, k, c, t, n),
         UNCHANGED <<phase, reading, rtimer>>
  PROVE  Timed'
<1> DEFINE q == NewReq(k, s, c, t, n)
<1>1. StartTimer(t, r) /\ req' = [req EXCEPT ![r] = q]
  BY DEF Enqueue
<1>2. q.timer = t
  BY DEF NewReq
<1> HIDE DEF q
<1>3. r \in Reqs /\ req[r] = FreeReq /\ r \in Objects
  BY FreeReqIs, ObjectsAre DEF FreeReqs, Typed
<1>4. Running' /\ PoolCounted'
  BY <1>1, <1>3, StartTimerRuns DEF Typed, Timed
<1>5. /\ \A x \in Reqs \ {r}, u \in Timers : Owns(x, u)' <=> Owns(x, u)
      /\ \A u \in Timers : Owns(r, u)' <=> u = t
  BY <1>1, <1>2, <1>3, OtherReqsOwn DEF Typed
<1>6. \A u \in Timers : ~Owns(r, u)
  BY <1>3, FreeIs, ReqOwns, SocketAssumption
<1>7. \A u \in Timers, o \in Objects \ {r} : Owns(o, u)' <=> Owns(o, u)
  BY <1>5, SocksOwn DEF Objects
<1>8. Pointers'
  BY <1>1, <1>3, <1>5, <1>6, <1>7, PointersStart DEF Typed, Timed
<1>9. QED
  BY <1>4, <1>8, ReadTimersKept DEF Timed

LEMMA WriteTimed ==
  ASSUME Typed, Timed, NEW c, NEW s \in Socks, Write(c, s)
  PROVE  Timed'
<1>1. UNCHANGED <<phase, reading, rtimer>>
  BY DEF Write, sockVars
<1>2. CASE UNCHANGED <<reqVars, timerVars>>
  BY <1>1, <1>2, TimedKept DEF reqVars
<1>3. CASE \E n \in Taken(s), t \in Deadlines(s), r \in FreeReqs : Enqueue(r, s, "write", c, t, n)
  BY <1>1, <1>3, DeadlinesAre, EnqueueTimed
<1>4. QED
  BY <1>2, <1>3 DEF Write

LEMMA WriteAsyncTimed ==
  ASSUME Typed, Timed, NEW c, NEW s \in Socks, WriteAsync(c, s)
  PROVE  Timed'
<1>1. UNCHANGED <<phase, reading, rtimer>>
  BY DEF WriteAsync, sockVars
<1>2. CASE UNCHANGED <<reqVars, timerVars>>
  BY <1>1, <1>2, TimedKept DEF reqVars
<1>3. CASE \E n \in Taken(s), t \in Deadlines(s), r \in FreeReqs :
             Enqueue(r, s, "write_async", NoCoro, t, n)
  BY <1>1, <1>3, DeadlinesAre, EnqueueTimed
<1>4. QED
  BY <1>2, <1>3 DEF WriteAsync

LEMMA KernelSendTimed ==
  ASSUME Typed, Timed, NEW s \in Socks, KernelSend(s)
  PROVE  Timed'
<1>1. PICK i \in 1 .. Len(wq[s]) : \E n : req' = [req EXCEPT ![wq[s][i]].sent = n]
  BY DEF KernelSend
<1>2. \A x \in Reqs : req'[x].timer = req[x].timer
  BY <1>1 DEF Typed, ReqsTyped, Request, FreeReq
<1>3. UNCHANGED timerVars /\ UNCHANGED <<phase, reading, rtimer>>
  BY DEF KernelSend, sockVars
<1>4. QED
  BY <1>2, <1>3, TimedKept

LEMMA AfterWriteTimed ==
  ASSUME Typed, Timed, NEW s \in Socks, AfterWrite(s)
  PROVE  Timed'
<1> DEFINE r == Head(wq[s])
<1>1. /\ wq[s] # <<>> /\ req' = [req EXCEPT ![r] = FreeReq]
      /\ FreeTimer(req[r].timer) /\ UNCHANGED sockVars
  BY DEF AfterWrite, Finish
<1>2. r \in Reqs /\ req[r].kind # "free"
  <2>1. wq[s] \in Seq(Reqs) /\ Len(wq[s]) > 0 /\ r = wq[s][1] /\ 1 \in 1 .. Len(wq[s])
    BY <1>1, EmptySeq, LenProperties, HeadTailProperties DEF Typed, ReqsTyped
  <2>2. QED
    BY <2>1, ElementOfSeq DEF Typed, Queues
<1>3. req[r].timer \in Timers \cup {NoTimer}
  BY <1>2, InUse DEF Typed
<1> HIDE DEF r
<1>4. Pointers' /\ Running' /\ PoolCounted'
  BY <1>1, <1>2, <1>3, FreeIs, SocksOwn, ReqTimerFreed DEF sockVars
<1>5. QED
  BY <1>1, <1>4, ReadTimersKept DEF Timed, sockVars

LEMMA WriteTimeoutTimed ==
  ASSUME Typed, Timed, Phases, NEW t \in Timers, WriteTimeout(t)
  PROVE  Timed'
<1> DEFINE r == armed[t]
<1>1. r \in Reqs /\ req[r].kind \in {"write", "write_async"} /\ FreeTimer(t) /\ UNCHANGED sockVars
  BY DEF WriteTimeout
<1>2. PICK q : req' = [req EXCEPT ![r] = q] /\ q.timer = NoTimer
  <2>1. req[r] \in Request
    BY <1>1, InUse DEF Typed
  <2>2. CASE req' = [req EXCEPT ![r].timer = NoTimer, ![r].timedout = TRUE]
    <3> DEFINE q == [req[r] EXCEPT !.timer = NoTimer, !.timedout = TRUE]
    <3>1. req' = [req EXCEPT ![r] = q] /\ q.timer = NoTimer
      BY <1>1, <2>1, <2>2 DEF Typed, ReqsTyped, Request
    <3>2. QED
      BY <3>1
  <2>3. CASE req' = [req EXCEPT ![r].timer = NoTimer]
    <3> DEFINE q == [req[r] EXCEPT !.timer = NoTimer]
    <3>1. req' = [req EXCEPT ![r] = q] /\ q.timer = NoTimer
      BY <1>1, <2>1, <2>3 DEF Typed, ReqsTyped, Request
    <3>2. QED
      BY <3>1
  <2>4. QED
    BY <2>2, <2>3 DEF WriteTimeout
<1>3. t = req[r].timer
  BY <1>1, ArmedReq
<1> HIDE DEF r
<1>4. Pointers' /\ Running' /\ PoolCounted'
  BY <1>1, <1>2, <1>3, SocksOwn, ReqTimerFreed DEF sockVars
<1>5. QED
  BY <1>1, <1>4, ReadTimersKept DEF Timed, sockVars

LEMMA ShutdownTimed ==
  ASSUME Typed, Timed, NEW c, NEW s \in Socks, Shutdown(c, s)
  PROVE  Timed'
<1>1. PICK r \in FreeReqs : req' = [req EXCEPT ![r] = NewReq("shutdown", s, c, NoTimer, 0)]
  BY DEF Shutdown
<1>2. UNCHANGED timerVars /\ UNCHANGED <<phase, reading, rtimer>>
  BY DEF Shutdown
<1>3. \A x \in Reqs : req'[x].timer = req[x].timer
  <2>1. r \in Reqs /\ req[r] = FreeReq
    BY FreeReqIs DEF FreeReqs, Typed
  <2>2. NewReq("shutdown", s, c, NoTimer, 0).timer = NoTimer
    BY DEF NewReq
  <2>3. QED
    BY <1>1, <2>1, <2>2, FreeIs DEF Typed, ReqsTyped
<1>4. QED
  BY <1>2, <1>3, TimedKept

LEMMA AfterShutdownTimed ==
  ASSUME Typed, Timed, Phases, NEW r \in Reqs, AfterShutdown(r)
  PROVE  Timed'
<1>1. /\ req[r].timer = NoTimer /\ req' = [req EXCEPT ![r] = FreeReq] /\ UNCHANGED timerVars
      /\ UNCHANGED <<phase, reading, rtimer>>
  BY DEF AfterShutdown, Phases
<1>2. \A x \in Reqs : req'[x].timer = req[x].timer
  BY <1>1, FreeIs DEF Typed, ReqsTyped
<1>3. QED
  BY <1>1, <1>2, TimedKept

LEMMA CloseTimed ==
  ASSUME CarefulClose, Typed, Timed, NEW c, NEW s \in Socks, Close(c, s)
  PROVE  Timed'
<1>1. BeginClose(c, s) /\ UNCHANGED req /\ UNCHANGED timerVars /\ rtimer[s] = NoTimer /\ ~reading[s]
  BY DEF Close, CarefulClose, reqVars
<1>2. ReadTimers' /\ \A x \in Socks, u \in Timers : Owns(x, u)' <=> Owns(x, u)
  BY <1>1, BeginCloseOwns DEF Typed, Timed
<1>3. Running' /\ PoolCounted' /\ \A u \in Timers : armed'[u] = armed[u]
  BY <1>1, TimersStayRunning DEF Timed, timerVars
<1>4. Pointers'
  BY <1>1, <1>2, <1>3, ReqsOwn, PointersKept DEF Timed, Objects
<1>5. QED
  BY <1>2, <1>3, <1>4 DEF Timed

LEMMA OnCloseTimed ==
  ASSUME Typed, Timed, NEW s \in Socks, OnClose(s)
  PROVE  Timed'
<1>1. /\ phase[s] = "closing" /\ phase' = [phase EXCEPT ![s] = "closed"]
      /\ FreeTimer(rtimer[s]) /\ UNCHANGED <<rtimer, reading>> /\ UNCHANGED req
  BY DEF OnClose, reqVars
<1>2. rtimer[s] = NoTimer /\ UNCHANGED timerVars
  BY <1>1 DEF Timed, ReadTimers, FreeTimer
<1>3. Running' /\ PoolCounted' /\ \A u \in Timers : armed'[u] = armed[u]
  BY <1>2, TimersStayRunning DEF Timed, timerVars
<1>4. Pointers'
  BY <1>1, <1>3, SocksOwn, ReqsOwn, PointersKept DEF Timed, Objects
<1>5. ReadTimers'
  BY <1>1 DEF Timed, ReadTimers, Typed, SocksTyped
<1>6. QED
  BY <1>3, <1>4, <1>5 DEF Timed

LEMMA TimerClosedTimed ==
  ASSUME Typed, Timed, NEW t \in Timers, TimerClosed(t)
  PROVE  Timed'
<1>1. /\ timer[t] = "closing" /\ timer' = [timer EXCEPT ![t] = "heap"]
      /\ UNCHANGED armed /\ UNCHANGED nfree /\ UNCHANGED <<phase, reading, rtimer>>
      /\ UNCHANGED req
  BY DEF TimerClosed, sockVars, reqVars
<1>2. Pool' = Pool
  BY <1>1 DEF Pool, Typed, TimersTyped
<1>3. Running' /\ PoolCounted'
  BY <1>1, <1>2 DEF Typed, TimersTyped, Timed, Running, PoolCounted
<1>4. Pointers'
  BY <1>1, SocksOwn, ReqsOwn, PointersKept DEF Timed, Objects
<1>5. QED
  BY <1>1, <1>3, <1>4, ReadTimersKept DEF Timed

-----------------------------------------------------------------------------
(* Every action keeps the phases *)

\* Requests that are freed, or keep what the phases are about.
LEMMA PhasesKept ==
  ASSUME Phases, UNCHANGED phase,
         \A x \in Reqs : \/ req'[x] = FreeReq
                         \/ /\ req'[x].kind = req[x].kind /\ req'[x].sock = req[x].sock
                            /\ req'[x].timedout = req[x].timedout /\ req'[x].timer = req[x].timer
  PROVE  Phases'
BY FreeIs DEF Phases

\* A socket without requests goes through a phase.
LEMMA QuietSocketPhases ==
  ASSUME Typed, Phases, UNCHANGED req, NEW s \in Socks,
         \A r \in Reqs : req[r].sock # s, \A x \in Socks \ {s} : phase'[x] = phase[x]
  PROVE  Phases'
<1>1. \A r \in Reqs : req[r].kind # "free" => phase'[req[r].sock] = phase[req[r].sock]
  BY InUse DEF Typed
<1>2. QED
  BY <1>1 DEF Phases

\* A closed socket has no requests.
LEMMA ClosedHasNone ==
  ASSUME Typed, Phases, NEW s \in Socks, phase[s] = "closed", NEW r \in Reqs
  PROVE  req[r].sock # s
<1>1. CASE req[r].kind = "free"
  BY <1>1, FreeReqIs, FreeIs, SocketAssumption DEF Typed
<1>2. CASE req[r].kind # "free"
  BY <1>2 DEF Phases
<1>3. QED
  BY <1>1, <1>2

\* A request on an open socket.
LEMMA NewReqPhases ==
  ASSUME Typed, Phases, NEW r \in Reqs, NEW q, req' = [req EXCEPT ![r] = q],
         q.kind \in {"write", "write_async", "shutdown"}, q.timedout = FALSE,
         q.kind = "shutdown" => q.timer = NoTimer,
         q.sock \in Socks, phase[q.sock] = "open", UNCHANGED phase
  PROVE  Phases'
<1>1. \A x \in Reqs : req'[x] = IF x = r THEN q ELSE req[x]
  BY DEF Typed, ReqsTyped
<1>2. QED
  BY <1>1 DEF Phases

LEMMA ConnectPhases ==
  ASSUME Typed, Phases, NEW c, NEW s \in Socks, NEW tm, Connect(c, s, tm)
  PROVE  Phases'
<1>1. PICK t \in IF tm THEN Allocatable ELSE {NoTimer}, r \in FreeReqs :
        req' = [req EXCEPT ![r] = NewReq("connect", s, c, t, 0)]
  BY DEF Connect
<1>2. phase[s] = "closed" /\ phase' = [phase EXCEPT ![s] = "connecting"]
  BY DEF Connect, Unused, NewSocket
<1>3. /\ \A x \in Socks \ {s} : phase'[x] = phase[x]
      /\ phase'[s] = "connecting"
  BY <1>2 DEF Typed, SocksTyped
<1> DEFINE q == NewReq("connect", s, c, t, 0)
<1>4. q.kind = "connect" /\ q.sock = s /\ q.timedout = FALSE
  BY DEF NewReq
<1> HIDE DEF q
<1>5. \A x \in Reqs : req'[x] = IF x = r THEN q ELSE req[x]
  BY <1>1 DEF Typed, ReqsTyped, q
<1>6. \A x \in Reqs : req[x].sock # s
  BY <1>2, ClosedHasNone
<1>7. \A x \in Reqs : req[x].kind # "free" => phase'[req[x].sock] = phase[req[x].sock]
  BY <1>3, <1>6, InUse DEF Typed
<1>8. QED
  BY <1>3, <1>4, <1>5, <1>6, <1>7 DEF Phases

LEMMA NewSocketPhases ==
  ASSUME Typed, Phases, NEW c, NEW s \in Socks, NEW ph, NEW tm, NewSocket(c, s, ph, tm),
         phase[s] = "closed", UNCHANGED req
  PROVE  Phases'
<1>1. \A x \in Socks \ {s} : phase'[x] = phase[x]
  BY DEF NewSocket, Typed, SocksTyped
<1>2. \A r \in Reqs : req[r].sock # s
  BY ClosedHasNone
<1>3. QED
  BY <1>1, <1>2, QuietSocketPhases

LEMMA OnConnectPhases ==
  ASSUME Typed, Phases, NEW r \in Reqs, OnConnect(r)
  PROVE  Phases'
<1> DEFINE s == req[r].sock
<1>1. req[r].kind = "connect" /\ req' = [req EXCEPT ![r] = FreeReq]
  BY DEF OnConnect
<1>2. s \in Socks
  BY <1>1, InUse DEF Typed
<1>3. \A x \in Reqs : req'[x] = IF x = r THEN FreeReq ELSE req[x]
  BY <1>1 DEF Typed, ReqsTyped
<1>4. CASE UNCHANGED phase
  BY <1>3, <1>4, PhasesKept
<1>5. CASE \E ph \in {"open", "closing"} : phase' = [phase EXCEPT ![s] = ph]
  <2>1. phase'[s] # "closed" /\ \A x \in Socks \ {s} : phase'[x] = phase[x]
    BY <1>2, <1>5 DEF Typed, SocksTyped
  <2>2. \A x \in Reqs : x # r /\ req[x].kind = "connect" => req[x].sock # s
    BY <1>1 DEF Phases
  <2>3. \A x \in Reqs : req[x].kind # "free" => req[x].sock \in Socks
    BY InUse DEF Typed
  <2>4. QED
    BY <1>3, <2>1, <2>2, <2>3, FreeIs DEF Phases
<1>6. QED
  BY <1>4, <1>5 DEF OnConnect, sockVars, BeginClose

LEMMA ConnectTimeoutPhases ==
  ASSUME Typed, Phases, NEW t \in Timers, ConnectTimeout(t)
  PROVE  Phases'
<1> DEFINE r == armed[t]
           s == req[r].sock
           q == [req[r] EXCEPT !.timer = NoTimer, !.timedout = TRUE]
<1>1. /\ r \in Reqs /\ req[r].kind = "connect" /\ req' = [req EXCEPT ![r] = q]
      /\ phase' = [phase EXCEPT ![s] = "closing"]
  BY DEF ConnectTimeout, BeginClose, Typed, ReqsTyped
<1>2. s \in Socks /\ req[r] \in Request
  BY <1>1, InUse DEF Typed
<1>3. q.kind = "connect" /\ q.sock = s /\ q.timedout = TRUE /\ q.timer = NoTimer
  BY <1>1, <1>2 DEF Request
<1> HIDE DEF q
<1>4. \A x \in Reqs : req'[x] = IF x = r THEN q ELSE req[x]
  BY <1>1 DEF Typed, ReqsTyped
<1>5. phase'[s] = "closing" /\ \A x \in Socks \ {s} : phase'[x] = phase[x]
  BY <1>1, <1>2 DEF Typed, SocksTyped
<1>6. \A x \in Reqs : x # r /\ req[x].kind = "connect" => req[x].sock # s
  BY <1>1 DEF Phases
<1>7. \A x \in Reqs : req[x].kind # "free" => req[x].sock \in Socks
  BY InUse DEF Typed
<1> HIDE DEF r, s
<1>8. QED
  BY <1>1, <1>3, <1>4, <1>5, <1>6, <1>7 DEF Phases

LEMMA EnqueuePhases ==
  ASSUME Typed, Phases, NEW r \in FreeReqs, NEW s \in Socks, phase[s] = "open",
         NEW k \in {"write", "write_async"}, NEW c, NEW t, NEW n, Enqueue(r, s, k, c, t, n),
         UNCHANGED phase
  PROVE  Phases'
<1> DEFINE q == NewReq(k, s, c, t, n)
<1>1. req' = [req EXCEPT ![r] = q] /\ r \in Reqs
  BY DEF Enqueue, FreeReqs
<1>2. q.kind = k /\ q.sock = s /\ q.timedout = FALSE
  BY DEF NewReq
<1> HIDE DEF q
<1>3. QED
  BY <1>1, <1>2, NewReqPhases

LEMMA ShutdownPhases ==
  ASSUME Typed, Phases, NEW c, NEW s \in Socks, Shutdown(c, s)
  PROVE  Phases'
<1>1. PICK r \in FreeReqs : req' = [req EXCEPT ![r] = NewReq("shutdown", s, c, NoTimer, 0)]
  BY DEF Shutdown
<1> DEFINE q == NewReq("shutdown", s, c, NoTimer, 0)
<1>2. q.kind = "shutdown" /\ q.sock = s /\ q.timedout = FALSE /\ q.timer = NoTimer
  BY DEF NewReq
<1> HIDE DEF q
<1>3. req' = [req EXCEPT ![r] = q] /\ r \in Reqs /\ phase[s] = "open" /\ UNCHANGED phase
  BY <1>1 DEF q, FreeReqs, Shutdown
<1>4. QED
  BY <1>2, <1>3, NewReqPhases

LEMMA WriteTimeoutPhases ==
  ASSUME Typed, Phases, NEW t \in Timers, WriteTimeout(t)
  PROVE  Phases'
<1> DEFINE r == armed[t]
<1>1. r \in Reqs /\ UNCHANGED phase
  BY DEF WriteTimeout, sockVars
<1>2. CASE req[r].kind = "write" /\ req' = [req EXCEPT ![r].timer = NoTimer, ![r].timedout = TRUE]
  <2>1. req[r] \in Request
    BY <1>1, <1>2, InUse DEF Typed
  <2>2. /\ req'[r].kind = "write" /\ req'[r].sock = req[r].sock /\ req'[r].timer = NoTimer
        /\ \A x \in Reqs \ {r} : req'[x] = req[x]
    <3> DEFINE q == [req[r] EXCEPT !.timer = NoTimer, !.timedout = TRUE]
    <3>1. req' = [req EXCEPT ![r] = q]
      BY <1>1, <1>2 DEF Typed, ReqsTyped
    <3>2. q.kind = "write" /\ q.sock = req[r].sock /\ q.timer = NoTimer
      BY <1>2, <2>1 DEF Request
    <3> HIDE DEF q, r
    <3>3. \A x \in Reqs : req'[x] = IF x = r THEN q ELSE req[x]
      BY <1>1, <3>1 DEF Typed, ReqsTyped
    <3>4. QED
      BY <1>1, <3>2, <3>3
  <2>3. \A x \in Reqs :
          /\ req'[x].kind = req[x].kind /\ req'[x].sock = req[x].sock
          /\ x = r => req'[x].timer = NoTimer /\ req'[x].kind = "write"
          /\ x # r => req'[x].timer = req[x].timer /\ req'[x].timedout = req[x].timedout
    BY <1>2, <2>2
  <2> HIDE DEF r
  <2>4. QED
    BY <1>1, <2>3 DEF Phases
<1>3. CASE req[r].kind = "write_async" /\ req' = [req EXCEPT ![r].timer = NoTimer]
  <2>1. req[r] \in Request
    BY <1>1, <1>3, InUse DEF Typed
  <2>2. /\ req'[r].kind = "write_async" /\ req'[r].sock = req[r].sock
        /\ req'[r].timedout = req[r].timedout
        /\ \A x \in Reqs \ {r} : req'[x] = req[x]
    BY <1>1, <1>3, <2>1 DEF Typed, ReqsTyped, Request
  <2>3. QED
    BY <1>1, <1>3, <2>2 DEF Phases
<1>4. QED
  BY <1>2, <1>3 DEF WriteTimeout

LEMMA ClosePhases ==
  ASSUME Typed, Phases, NEW c, NEW s \in Socks, Close(c, s)
  PROVE  Phases'
<1>1. phase[s] = "open" /\ UNCHANGED req /\ phase' = [phase EXCEPT ![s] = "closing"]
  BY DEF Close, BeginClose, reqVars
<1>2. phase'[s] = "closing" /\ \A x \in Socks \ {s} : phase'[x] = phase[x]
  BY <1>1 DEF Typed, SocksTyped
<1>3. \A x \in Reqs : req[x].kind # "free" => req[x].sock \in Socks
  BY InUse DEF Typed
<1>4. \A x \in Reqs : req[x].kind = "connect" => req[x].sock # s
  BY <1>1 DEF Phases
<1>5. QED
  BY <1>1, <1>2, <1>3, <1>4 DEF Phases

LEMMA OnClosePhases ==
  ASSUME Typed, Phases, NEW s \in Socks, OnClose(s)
  PROVE  Phases'
<1>1. /\ UNCHANGED req /\ \A r \in Reqs : req[r].sock # s
      /\ \A x \in Socks \ {s} : phase'[x] = phase[x]
  BY DEF OnClose, reqVars, Typed, SocksTyped
<1>2. QED
  BY <1>1, QuietSocketPhases

-----------------------------------------------------------------------------
(* Who resumes whom, and the promise of AsyncCall *)

\* Object x will resume coroutine c.
Resumes(x, c) ==
  \/ x \in Reqs /\ req[x].co = c /\ ~req[x].timedout
  \/ x \in Socks /\ cur[x] = c /\ (reading[x] \/ phase[x] = "closing")

\* The call the coroutine that x resumes is suspended in.
Role(x) == IF x \in Reqs THEN [op |-> req[x].kind, sock |-> req[x].sock]
           ELSE [op |-> IF reading[x] THEN "read" ELSE "close", sock |-> x]

Resuming ==
  \A c \in Coros :
    /\ call[c] # NoCall <=> \E x \in Objects : Resumes(x, c)
    /\ \A x, y \in Objects : Resumes(x, c) /\ Resumes(y, c) => x = y
    /\ \A x \in Objects : Resumes(x, c) => call[c] = Role(x)

LEMMA ResumingIs == Resuming <=> OneResumer
<1>1. \A c : \A x : x \in Resumers(c) <=> x \in Objects /\ Resumes(x, c)
  BY ObjectsAre DEF Resumers, Resumes, Objects
<1>2. \A c : Resumers(c) # {} <=> \E x \in Objects : Resumes(x, c)
  BY <1>1
<1>3. \A c : \A x : x \in Resumers(c) \cap Reqs => Role(x) = [op |-> req[x].kind, sock |-> req[x].sock]
  BY DEF Role
<1>4. \A c : \A x : x \in Resumers(c) \cap Socks =>
        Role(x) = [op |-> IF reading[x] THEN "read" ELSE "close", sock |-> x]
  BY ObjectsAre DEF Role
<1>5. \A c : \A x : x \in Resumers(c) => x \in Resumers(c) \cap Reqs \/ x \in Resumers(c) \cap Socks
  BY <1>1 DEF Objects
<1>6. Resuming => OneResumer
  BY <1>1, <1>2, <1>3, <1>4 DEF Resuming, OneResumer, Waiting
<1>7. OneResumer => Resuming
  BY <1>1, <1>2, <1>3, <1>4, <1>5 DEF Resuming, OneResumer, Waiting
<1>8. QED
  BY <1>6, <1>7

\* Object x resumes the same coroutine, in the same call.
SameRole(x) ==
  \A d \in Coros : /\ Resumes(x, d)' <=> Resumes(x, d)
                   /\ Resumes(x, d) => Role(x)' = Role(x)

\* A step keeps Resuming and is one that AsyncCall allows.
Promised == Resuming' /\ [Calls!Next]_(Calls!callVars)

LEMMA NoResultIs ==
  ASSUME NEW c \in Coros, NEW op, NEW s, NEW err, NEW n, NEW k
  PROVE  /\ Returned(c, op, s, err, n, k) # NoResult
         /\ Returned(c, op, s, err, n, k).co = c
         /\ Returned(c, op, s, err, n, k).call = [op |-> op, sock |-> s]
BY SocketAssumption DEF Returned, NoResult

\* Nothing happens to a coroutine.
LEMMA Unnoticed ==
  ASSUME Resuming, UNCHANGED coroVars, \A x \in Objects : SameRole(x)
  PROVE  Promised
<1>1. Resuming'
  BY DEF Resuming, SameRole, coroVars
<1>2. UNCHANGED Calls!callVars
  BY DEF Calls!callVars, coroVars
<1>3. QED
  BY <1>1, <1>2 DEF Promised

\* A call returns at once.
LEMMA Returning ==
  ASSUME Resuming, \A x \in Objects : SameRole(x), NEW c \in Coros, NEW op \in Ops, NEW s \in Socks,
         NEW err, NEW n, NEW k, Idle(c), Return(c, op, s, err, n, k)
  PROVE  Promised
<1>1. Resuming'
  BY DEF Resuming, SameRole, Return
<1>2. Calls!Immediate(c, [op |-> op, sock |-> s])
  BY NoResultIs DEF Calls!Immediate, Return, Idle
<1>3. Calls!Next
  BY <1>2 DEF Calls!Next, Call
<1>4. QED
  BY <1>1, <1>3 DEF Promised

\* A call suspends its coroutine, which object z will resume.
LEMMA Suspending ==
  ASSUME CorosTyped, Resuming, NEW c \in Coros, NEW op \in Ops, NEW s \in Socks,
         Idle(c), Yield(c, op, s), NEW z \in Objects, Role(z)' = [op |-> op, sock |-> s],
         \A x \in Objects \ {z} : SameRole(x),
         \A d \in Coros : ~Resumes(z, d), \A d \in Coros : Resumes(z, d)' <=> d = c
  PROVE  Promised
<1>1. /\ \A d \in Coros : call'[d] = IF d = c THEN [op |-> op, sock |-> s] ELSE call[d]
      /\ [op |-> op, sock |-> s] # NoCall
  BY DEF Yield, CorosTyped, NoCall, Ops
<1>2. Resuming'
  BY <1>1 DEF Resuming, SameRole, Idle
<1>3. Calls!Suspend(c, [op |-> op, sock |-> s])
  BY DEF Calls!Suspend, Calls!Nothing, Yield, Idle
<1>4. Calls!Next
  BY <1>3 DEF Calls!Next, Call
<1>5. QED
  BY <1>2, <1>4 DEF Promised

\* Object z resumes its coroutine, with the outcome of the call it is suspended in.
LEMMA Resumption ==
  ASSUME CorosTyped, Resuming, NEW c \in Coros, NEW op \in Ops, NEW s \in Socks,
         NEW err, NEW n, NEW k, Resume(c, op, s, err, n, k),
         NEW z \in Objects, Resumes(z, c), Role(z) = [op |-> op, sock |-> s],
         \A x \in Objects \ {z} : SameRole(x), \A d \in Coros : ~Resumes(z, d)'
  PROVE  Promised
<1>1. \A d \in Coros : call'[d] = IF d = c THEN NoCall ELSE call[d]
  BY DEF Resume, CorosTyped
<1>2. \A d \in Coros : Resumes(z, d) => d = c
  BY ObjectsAre DEF Resumes, Objects
<1>3. Resuming'
  BY <1>1, <1>2 DEF Resuming, SameRole
<1>4. call[c] = [op |-> op, sock |-> s] /\ call[c] # NoCall
  BY DEF Resuming
<1>5. Calls!Resume(c)
  BY <1>4, NoResultIs DEF Calls!Resume, Resume
<1>6. Calls!Next
  BY <1>5 DEF Calls!Next
<1>7. QED
  BY <1>3, <1>6 DEF Promised

\* A connect that failed goes on as a close, of which socket s resumes the coroutine.
LEMMA Chaining ==
  ASSUME CorosTyped, Resuming, NEW c \in Coros, NEW s \in Socks, Yield(c, "close", s),
         NEW z \in Reqs, Resumes(z, c), Role(z) = [op |-> "connect", sock |-> s],
         Role(s)' = [op |-> "close", sock |-> s],
         \A x \in Objects \ {s, z} : SameRole(x),
         \A d \in Coros : ~Resumes(z, d)', \A d \in Coros : ~Resumes(s, d),
         \A d \in Coros : Resumes(s, d)' <=> d = c
  PROVE  Promised
<1>1. z \in Objects /\ s \in Objects /\ z # s
  BY ObjectsAre
<1>2. /\ \A d \in Coros : call'[d] = IF d = c THEN [op |-> "close", sock |-> s] ELSE call[d]
      /\ [op |-> "close", sock |-> s] # NoCall
  BY DEF Yield, CorosTyped, NoCall
<1>3. \A d \in Coros : Resumes(z, d) => d = c
  BY <1>1, ObjectsAre DEF Resumes
<1>4. Resuming'
  BY <1>1, <1>2, <1>3 DEF Resuming, SameRole
<1>5. call[c] = [op |-> "connect", sock |-> s]
  BY <1>1 DEF Resuming
<1>6. Calls!Chain(c, [op |-> "close", sock |-> s])
  BY <1>5 DEF Calls!Chain, Calls!Nothing, Yield
<1>7. Calls!Next
  BY <1>6 DEF Calls!Next, Call, Ops
<1>8. QED
  BY <1>4, <1>7 DEF Promised

\* A request on a socket that is not connecting or closing is of no connect.
LEMMA OpenHasNoConnect ==
  ASSUME Phases, NEW s, phase[s] = "open", NEW r \in Reqs, req[r].kind = "connect"
  PROVE  req[r].sock # s
BY DEF Phases

\* Sockets that keep what resumes are about.
LEMMA SocksSameRole ==
  ASSUME NEW x \in Socks, cur'[x] = cur[x], reading'[x] = reading[x],
         phase'[x] = "closing" <=> phase[x] = "closing"
  PROVE  SameRole(x)
BY ObjectsAre DEF SameRole, Resumes, Role

\* Requests that do.
LEMMA ReqSameRole ==
  ASSUME NEW x \in Reqs, req'[x].co = req[x].co, req'[x].timedout = req[x].timedout,
         req'[x].kind = req[x].kind, req'[x].sock = req[x].sock
  PROVE  SameRole(x)
BY ObjectsAre DEF SameRole, Resumes, Role

\* A socket that neither is read nor closes resumes nobody.
LEMMA NoRole ==
  ASSUME NEW x \in Socks, NEW d
  PROVE  /\ ~reading[x] /\ phase[x] # "closing" => ~Resumes(x, d)
         /\ ~reading'[x] /\ phase'[x] # "closing" => ~Resumes(x, d)'
BY ObjectsAre DEF Resumes

\* Nor does a free request, one that timed out, or one without a coroutine.
LEMMA NoReqRole ==
  ASSUME NEW x \in Reqs, NEW d \in Coros
  PROVE  /\ req[x].timedout \/ req[x].co = NoCoro => ~Resumes(x, d)
         /\ req'[x].timedout \/ req'[x].co = NoCoro => ~Resumes(x, d)'
BY ObjectsAre, SocketAssumption DEF Resumes

\* A socket that is new, and resumes nobody or, if it closes, its new coroutine.
LEMMA NewSocketRole ==
  ASSUME Typed, Timed, NEW c \in Coros, NEW s \in Socks, NEW ph, NEW tm,
         NewSocket(c, s, ph, tm), phase[s] = "closed"
  PROVE  /\ \A x \in Socks \ {s} : SameRole(x)
         /\ \A d \in Coros : ~Resumes(s, d)
         /\ \A d \in Coros : Resumes(s, d)' <=> ph = "closing" /\ d = c
         /\ Role(s)' = [op |-> "close", sock |-> s]
<1>1. /\ \A x \in Socks : cur'[x] = IF x = s THEN c ELSE cur[x]
      /\ \A x \in Socks : reading'[x] = IF x = s THEN FALSE ELSE reading[x]
      /\ \A x \in Socks : phase'[x] = IF x = s THEN ph ELSE phase[x]
  BY DEF NewSocket, Typed, SocksTyped
<1>2. ~reading[s]
  BY DEF Timed, ReadTimers
<1>3. QED
  BY <1>1, <1>2, SocksSameRole, NoRole, ObjectsAre DEF Resumes, Role

\* A socket begins to close for coroutine c.
LEMMA BeginCloseRole ==
  ASSUME Typed, Timed, NEW c \in Coros, NEW s \in Socks, BeginClose(c, s),
         ~reading[s], phase[s] # "closing"
  PROVE  /\ \A x \in Socks \ {s} : SameRole(x)
         /\ \A d \in Coros : ~Resumes(s, d)
         /\ \A d \in Coros : Resumes(s, d)' <=> d = c
         /\ Role(s)' = [op |-> "close", sock |-> s]
<1>1. /\ \A x \in Socks : cur'[x] = IF x = s THEN c ELSE cur[x]
      /\ \A x \in Socks : reading'[x] = IF x = s THEN FALSE ELSE reading[x]
      /\ \A x \in Socks : phase'[x] = IF x = s THEN "closing" ELSE phase[x]
  BY DEF BeginClose, Typed, SocksTyped
<1>2. QED
  BY <1>1, SocksSameRole, NoRole, ObjectsAre DEF Resumes, Role

\* A free request is taken for a call of coroutine c, or of nobody.
LEMMA NewReqRole ==
  ASSUME Typed, NEW r \in FreeReqs, NEW k, NEW s, NEW c \in Coros \cup {NoCoro}, NEW t, NEW n,
         req' = [req EXCEPT ![r] = NewReq(k, s, c, t, n)]
  PROVE  /\ r \in Reqs
         /\ \A x \in Reqs \ {r} : SameRole(x)
         /\ \A d \in Coros : ~Resumes(r, d)
         /\ \A d \in Coros : Resumes(r, d)' <=> d = c
         /\ Role(r)' = [op |-> k, sock |-> s]
<1> DEFINE q == NewReq(k, s, c, t, n)
<1>1. q.kind = k /\ q.sock = s /\ q.co = c /\ q.timedout = FALSE
  BY DEF NewReq
<1> HIDE DEF q
<1>2. r \in Reqs /\ req[r] = FreeReq
  BY FreeReqIs DEF FreeReqs, Typed
<1>3. \A x \in Reqs : req'[x] = IF x = r THEN q ELSE req[x]
  BY <1>2 DEF Typed, ReqsTyped, q
<1>4. \A x \in Reqs \ {r} : SameRole(x)
  BY <1>3, ReqSameRole
<1>5. \A d \in Coros : ~Resumes(r, d)
  BY <1>2, FreeIs, NoReqRole
<1>6. \A d \in Coros : Resumes(r, d)' <=> d = c
  BY <1>1, <1>2, <1>3, ObjectsAre DEF Resumes
<1>7. Role(r)' = [op |-> k, sock |-> s]
  BY <1>1, <1>2, <1>3 DEF Role
<1>8. QED
  BY <1>2, <1>4, <1>5, <1>6, <1>7

\* A request that becomes free, or times out, resumes nobody any more.
LEMMA ReqRoleEnds ==
  ASSUME Typed, NEW r \in Reqs, NEW q, req' = [req EXCEPT ![r] = q],
         q.timedout \/ q.co = NoCoro
  PROVE  /\ \A x \in Reqs \ {r} : SameRole(x)
         /\ \A d \in Coros : ~Resumes(r, d)'
<1>1. \A x \in Reqs : req'[x] = IF x = r THEN q ELSE req[x]
  BY DEF Typed, ReqsTyped
<1>2. \A x \in Reqs \ {r} : SameRole(x)
  BY <1>1, ReqSameRole
<1>3. \A d \in Coros : ~Resumes(r, d)'
  BY <1>1, NoReqRole
<1>4. QED
  BY <1>2, <1>3

LEMMA ReqsSameRole == UNCHANGED req => \A x \in Reqs : SameRole(x)
BY ReqSameRole

\* Request r resumes the coroutine in it.
LEMMA ReqRole ==
  ASSUME NEW r \in Reqs, ~req[r].timedout
  PROVE  /\ Resumes(r, req[r].co)
         /\ Role(r) = [op |-> req[r].kind, sock |-> req[r].sock]
         /\ r \in Objects
BY ObjectsAre DEF Resumes, Role

-----------------------------------------------------------------------------
(* Every action keeps the promise *)

LEMMA ConnectPromised ==
  ASSUME Typed, Timed, Resuming, NEW c \in Coros, NEW s \in Socks, NEW tm \in BOOLEAN,
         Connect(c, s, tm)
  PROVE  Promised
<1>1. PICK t \in IF tm THEN Allocatable ELSE {NoTimer}, r \in FreeReqs :
        req' = [req EXCEPT ![r] = NewReq("connect", s, c, t, 0)]
  BY DEF Connect
<1>2. Idle(c) /\ NewSocket(c, s, "connecting", tm) /\ phase[s] = "closed" /\ Yield(c, "connect", s)
  BY DEF Connect, Unused
<1>3. /\ \A x \in Socks \ {s} : SameRole(x)
      /\ \A d \in Coros : ~Resumes(s, d)
      /\ \A d \in Coros : ~Resumes(s, d)'
  BY <1>2, NewSocketRole
<1>4. /\ r \in Reqs
      /\ \A x \in Reqs \ {r} : SameRole(x)
      /\ \A d \in Coros : ~Resumes(r, d)
      /\ \A d \in Coros : Resumes(r, d)' <=> d = c
      /\ Role(r)' = [op |-> "connect", sock |-> s]
  BY <1>1, NewReqRole
<1>5. r \in Objects /\ \A x \in Objects \ {r} : SameRole(x)
  BY <1>3, <1>4, ObjectsAre DEF SameRole, Objects
<1>6. QED
  BY <1>2, <1>4, <1>5, Suspending DEF Typed, Ops

LEMMA ConnectFailsPromised ==
  ASSUME Typed, Timed, Resuming, NEW c \in Coros, NEW s \in Socks, NEW tm \in BOOLEAN,
         ConnectFails(c, s, tm)
  PROVE  Promised
<1>1. /\ Idle(c) /\ NewSocket(c, s, "closing", tm) /\ phase[s] = "closed" /\ Yield(c, "close", s)
      /\ UNCHANGED req
  BY DEF ConnectFails, Unused, reqVars
<1>2. /\ \A x \in Socks \ {s} : SameRole(x)
      /\ \A d \in Coros : ~Resumes(s, d)
      /\ \A d \in Coros : Resumes(s, d)' <=> d = c
      /\ Role(s)' = [op |-> "close", sock |-> s]
  BY <1>1, NewSocketRole
<1>3. s \in Objects /\ \A x \in Objects \ {s} : SameRole(x)
  BY <1>1, <1>2, ReqsSameRole, ObjectsAre DEF Objects
<1>4. QED
  BY <1>1, <1>2, <1>3, Suspending DEF Typed, Ops

LEMMA AcceptPromised ==
  ASSUME Typed, Timed, Resuming, NEW c \in Coros, NEW s \in Socks, NEW tm \in BOOLEAN,
         Accept(c, s, tm)
  PROVE  Promised
<1>1. NewSocket(c, s, "open", tm) /\ phase[s] = "closed" /\ UNCHANGED coroVars /\ UNCHANGED req
  BY DEF Accept, Unused, reqVars
<1>2. /\ \A x \in Socks \ {s} : SameRole(x)
      /\ \A d \in Coros : ~Resumes(s, d)
      /\ \A d \in Coros : ~Resumes(s, d)'
  BY <1>1, NewSocketRole
<1>3. \A x \in Objects : SameRole(x)
  BY <1>1, <1>2, ReqsSameRole DEF SameRole, Objects
<1>4. QED
  BY <1>1, <1>3, Unnoticed

LEMMA OnConnectPromised ==
  ASSUME Typed, Timed, Resuming, NEW r \in Reqs, OnConnect(r)
  PROVE  Promised
<1>1. req[r].kind = "connect" /\ req' = [req EXCEPT ![r] = FreeReq]
  BY DEF OnConnect
<1>2. PICK s \in Socks, c \in Coros : s = req[r].sock /\ c = req[r].co
  BY <1>1, InUse DEF Typed, ReqClients
<1>3. /\ \A x \in Reqs \ {r} : SameRole(x)
      /\ \A d \in Coros : ~Resumes(r, d)'
  BY <1>1, FreeIs, ReqRoleEnds
<1>4. CASE req[r].timedout /\ UNCHANGED <<coroVars, sockVars>>
  <2>1. \A x \in Socks : SameRole(x)
    BY <1>4, SocksSameRole DEF sockVars
  <2>2. SameRole(r)
    BY <1>3, <1>4, NoReqRole DEF SameRole
  <2>3. \A x \in Objects : SameRole(x)
    BY <1>3, <2>1, <2>2 DEF Objects
  <2>4. QED
    BY <1>4, <2>3, Unnoticed
<1>5. CASE /\ ~req[r].timedout
           /\ phase[s] = "connecting"
           /\ phase' = [phase EXCEPT ![s] = "open"]
           /\ Resume(c, "connect", s, "ok", 0, 0)
           /\ UNCHANGED <<timed, cur, rtimer, reading, shut>>
  <2>1. \A x \in Socks : SameRole(x)
    <3>1. \A x \in Socks : phase'[x] = "closing" <=> phase[x] = "closing"
      BY <1>2, <1>5 DEF Typed, SocksTyped
    <3>2. QED
      BY <1>5, <3>1, SocksSameRole
  <2>2. /\ Resumes(r, c) /\ Role(r) = [op |-> "connect", sock |-> s] /\ r \in Objects
    BY <1>1, <1>2, <1>5, ReqRole
  <2>3. \A x \in Objects \ {r} : SameRole(x)
    BY <1>3, <2>1 DEF Objects
  <2>4. QED
    BY <1>2, <1>3, <1>5, <2>2, <2>3, Resumption DEF Typed, Ops
<1>6. CASE ~req[r].timedout /\ phase[s] = "connecting" /\ BeginClose(c, s)
  <2>1. ~reading[s]
    BY <1>2, <1>6 DEF Timed, ReadTimers
  <2>2. /\ \A x \in Socks \ {s} : SameRole(x)
        /\ \A d \in Coros : ~Resumes(s, d)
        /\ \A d \in Coros : Resumes(s, d)' <=> d = c
        /\ Role(s)' = [op |-> "close", sock |-> s]
    BY <1>2, <1>6, <2>1, BeginCloseRole
  <2>3. /\ Resumes(r, c) /\ Role(r) = [op |-> "connect", sock |-> s]
    BY <1>1, <1>2, <1>6, ReqRole
  <2>4. \A x \in Objects \ {s, r} : SameRole(x)
    BY <1>3, <2>2 DEF Objects
  <2>5. Yield(c, "close", s)
    BY <1>6 DEF BeginClose
  <2>6. QED
    BY <1>2, <1>3, <2>2, <2>3, <2>4, <2>5, Chaining DEF Typed
<1>7. QED
  BY <1>2, <1>4, <1>5, <1>6 DEF OnConnect

LEMMA ConnectTimeoutPromised ==
  ASSUME Typed, Timed, Phases, Resuming, NEW t \in Timers, ConnectTimeout(t)
  PROVE  Promised
<1>1. PICK r \in Reqs : r = armed[t]
  BY DEF ConnectTimeout
<1>2. PICK s \in Socks, c \in Coros : s = req[r].sock /\ c = req[r].co
  BY <1>1, InUse DEF Typed, ReqClients, ConnectTimeout
<1> DEFINE q == [req[r] EXCEPT !.timer = NoTimer, !.timedout = TRUE]
<1>3. /\ req[r].kind = "connect" /\ ~req[r].timedout /\ req[r] \in Request
      /\ BeginClose(c, s) /\ req' = [req EXCEPT ![r] = q]
  <2>1. /\ req[r].kind = "connect" /\ BeginClose(c, s) /\ req' = [req EXCEPT ![r] = q]
    BY <1>1, <1>2 DEF ConnectTimeout, Typed, ReqsTyped
  <2>2. QED
    BY <1>1, <2>1, ArmedReq, InUse DEF Typed
<1>4. phase[s] = "connecting" /\ ~reading[s]
  BY <1>2, <1>3 DEF Phases, Timed, ReadTimers
<1>5. q.timedout
  BY <1>3 DEF Request
<1> HIDE DEF q
<1>6. /\ \A x \in Reqs \ {r} : SameRole(x)
      /\ \A d \in Coros : ~Resumes(r, d)'
  BY <1>3, <1>5, ReqRoleEnds
<1>7. /\ \A x \in Socks \ {s} : SameRole(x)
      /\ \A d \in Coros : ~Resumes(s, d)
      /\ \A d \in Coros : Resumes(s, d)' <=> d = c
      /\ Role(s)' = [op |-> "close", sock |-> s]
  BY <1>3, <1>4, BeginCloseRole
<1>8. Resumes(r, c) /\ Role(r) = [op |-> "connect", sock |-> s]
  BY <1>2, <1>3, ReqRole
<1>9. \A x \in Objects \ {s, r} : SameRole(x)
  BY <1>6, <1>7 DEF Objects
<1>10. Yield(c, "close", s)
  BY <1>3 DEF BeginClose
<1>11. QED
  BY <1>6, <1>7, <1>8, <1>9, <1>10, Chaining DEF Typed

LEMMA FailsPromised ==
  ASSUME Resuming, NEW c \in Coros, NEW op \in Ops, NEW s \in Socks, NEW n, Fails(c, op, s, n)
  PROVE  Promised
<1>1. /\ Idle(c) /\ Return(c, op, s, "error", n, n)
      /\ UNCHANGED <<cur, reading, phase>> /\ UNCHANGED req
  BY DEF Fails, sockVars, reqVars
<1>2. \A x \in Objects : SameRole(x)
  BY <1>1, SocksSameRole, ReqsSameRole DEF Objects
<1>3. QED
  BY <1>1, <1>2, Returning

LEMMA SetTimeoutPromised ==
  ASSUME Resuming, NEW s \in Socks, SetTimeout(s)
  PROVE  Promised
<1>1. UNCHANGED coroVars /\ UNCHANGED <<cur, reading, phase>> /\ UNCHANGED req
  BY DEF SetTimeout, reqVars
<1>2. \A x \in Objects : SameRole(x)
  BY <1>1, SocksSameRole, ReqsSameRole DEF Objects
<1>3. QED
  BY <1>1, <1>2, Unnoticed

LEMMA ReadPromised ==
  ASSUME Typed, Resuming, NEW c \in Coros, NEW s \in Socks, Read(c, s)
  PROVE  Promised
<1>1. /\ Idle(c) /\ Yield(c, "read", s) /\ phase[s] = "open" /\ ~reading[s]
      /\ UNCHANGED phase /\ UNCHANGED req
      /\ reading' = [reading EXCEPT ![s] = TRUE] /\ cur' = [cur EXCEPT ![s] = c]
  BY DEF Read, reqVars
<1>2. /\ \A x \in Socks : cur'[x] = IF x = s THEN c ELSE cur[x]
      /\ \A x \in Socks : reading'[x] = IF x = s THEN TRUE ELSE reading[x]
  BY <1>1 DEF Typed, SocksTyped
<1>3. s \in Objects /\ \A x \in Objects \ {s} : SameRole(x)
  BY <1>1, <1>2, SocksSameRole, ReqsSameRole, ObjectsAre DEF Objects
<1>4. \A d \in Coros : ~Resumes(s, d)
  BY <1>1, NoRole
<1>5. /\ \A d \in Coros : Resumes(s, d)' <=> d = c
      /\ Role(s)' = [op |-> "read", sock |-> s]
  BY <1>2, ObjectsAre DEF Resumes, Role
<1>6. QED
  BY <1>1, <1>3, <1>4, <1>5, Suspending DEF Typed, Ops

\* The reading of an open socket ends and its current thread is resumed.
LEMMA ReadResumes ==
  ASSUME Typed, Resuming, NEW s \in Socks, NEW err, reading[s], phase[s] = "open",
         reading' = [reading EXCEPT ![s] = FALSE], UNCHANGED <<phase, cur>>, UNCHANGED req,
         Resume(cur[s], "read", s, err, 0, 0)
  PROVE  Promised
<1>1. PICK c \in Coros : c = cur[s]
  BY DEF Typed, SockClients
<1>2. \A x \in Socks : reading'[x] = IF x = s THEN FALSE ELSE reading[x]
  BY DEF Typed, SocksTyped
<1>3. s \in Objects /\ \A x \in Objects \ {s} : SameRole(x)
  BY <1>2, SocksSameRole, ReqsSameRole, ObjectsAre DEF Objects
<1>4. Resumes(s, c) /\ Role(s) = [op |-> "read", sock |-> s]
  BY <1>1, ObjectsAre DEF Resumes, Role
<1>5. \A d \in Coros : ~Resumes(s, d)'
  BY <1>2, NoRole
<1>6. QED
  BY <1>1, <1>3, <1>4, <1>5, Resumption DEF Typed, Ops

LEMMA OnReadPromised ==
  ASSUME Typed, Resuming, NEW s \in Socks, OnRead(s)
  PROVE  Promised
<1>1. PICK err : Resume(cur[s], "read", s, err, 0, 0)
  BY DEF OnRead
<1>2. QED
  BY <1>1, ReadResumes DEF OnRead, reqVars

LEMMA ReadTimeoutPromised ==
  ASSUME Typed, Timed, Resuming, NEW t \in Timers, ReadTimeout(t)
  PROVE  Promised
<1>1. PICK s \in Socks : s = armed[t]
  BY DEF ReadTimeout
<1>2. reading[s] /\ phase[s] = "open"
  BY <1>1, ArmedSock DEF Timed, ReadTimers
<1>3. /\ reading' = [reading EXCEPT ![s] = FALSE] /\ Resume(cur[s], "read", s, "timedout", 0, 0)
      /\ UNCHANGED <<phase, cur>> /\ UNCHANGED req
  BY <1>1 DEF ReadTimeout, reqVars
<1>4. QED
  BY <1>2, <1>3, ReadResumes

LEMMA WritePromised ==
  ASSUME Typed, Resuming, NEW c \in Coros, NEW s \in Socks, Write(c, s)
  PROVE  Promised
<1>1. Idle(c) /\ UNCHANGED <<cur, reading, phase>>
  BY DEF Write, sockVars
<1>2. \A x \in Socks : SameRole(x)
  BY <1>1, SocksSameRole
<1>3. CASE UNCHANGED reqVars /\ \E n : Return(c, "write", s, "ok", n, n)
  <2>1. \A x \in Objects : SameRole(x)
    BY <1>2, <1>3, ReqsSameRole DEF Objects, reqVars
  <2>2. QED
    BY <1>1, <1>3, <2>1, Returning DEF Ops
<1>4. ASSUME NEW n, NEW t, NEW r \in FreeReqs, Enqueue(r, s, "write", c, t, n),
             Yield(c, "write", s)
      PROVE  Promised
  <2>1. req' = [req EXCEPT ![r] = NewReq("write", s, c, t, n)]
    BY <1>4 DEF Enqueue
  <2>2. /\ r \in Reqs
        /\ \A x \in Reqs \ {r} : SameRole(x)
        /\ \A d \in Coros : ~Resumes(r, d)
        /\ \A d \in Coros : Resumes(r, d)' <=> d = c
        /\ Role(r)' = [op |-> "write", sock |-> s]
    BY <1>4, <2>1, NewReqRole
  <2>3. r \in Objects /\ \A x \in Objects \ {r} : SameRole(x)
    BY <1>2, <2>2, ObjectsAre DEF Objects
  <2>4. QED
    BY <1>1, <1>4, <2>2, <2>3, Suspending DEF Typed, Ops
<1>5. QED
  BY <1>3, <1>4 DEF Write

LEMMA WriteAsyncPromised ==
  ASSUME Typed, Resuming, NEW c \in Coros, NEW s \in Socks, WriteAsync(c, s)
  PROVE  Promised
<1>1. /\ Idle(c) /\ UNCHANGED <<cur, reading, phase>>
      /\ \E n : Return(c, "write_async", s, "ok", Size, n)
  BY DEF WriteAsync, sockVars
<1>2. \A x \in Socks : SameRole(x)
  BY <1>1, SocksSameRole
<1>3. ASSUME UNCHANGED reqVars
      PROVE  \A x \in Reqs : SameRole(x)
  BY <1>3, ReqsSameRole DEF reqVars
<1>4. ASSUME NEW n, NEW t, NEW r \in FreeReqs, Enqueue(r, s, "write_async", NoCoro, t, n)
      PROVE  \A x \in Reqs : SameRole(x)
  <2>1. req' = [req EXCEPT ![r] = NewReq("write_async", s, NoCoro, t, n)]
    BY <1>4 DEF Enqueue
  <2>2. /\ r \in Reqs
        /\ \A x \in Reqs \ {r} : SameRole(x)
        /\ \A d \in Coros : ~Resumes(r, d)
        /\ \A d \in Coros : Resumes(r, d)' <=> d = NoCoro
    BY <1>4, <2>1, NewReqRole
  <2>3. SameRole(r)
    BY <2>2, SocketAssumption DEF SameRole
  <2>4. QED
    BY <2>2, <2>3
<1>5. \A x \in Objects : SameRole(x)
  BY <1>2, <1>3, <1>4 DEF WriteAsync, Objects
<1>6. QED
  BY <1>1, <1>5, Returning DEF Ops

LEMMA KernelSendPromised ==
  ASSUME Typed, Resuming, NEW s \in Socks, KernelSend(s)
  PROVE  Promised
<1>1. PICK i \in 1 .. Len(wq[s]) : \E n : req' = [req EXCEPT ![wq[s][i]].sent = n]
  BY DEF KernelSend
<1>2. UNCHANGED coroVars /\ UNCHANGED <<cur, reading, phase>>
  BY DEF KernelSend, sockVars
<1>3. \A x \in Reqs : /\ req'[x].co = req[x].co /\ req'[x].timedout = req[x].timedout
                      /\ req'[x].kind = req[x].kind /\ req'[x].sock = req[x].sock
  BY <1>1 DEF Typed, ReqsTyped, Request, FreeReq
<1>4. \A x \in Objects : SameRole(x)
  BY <1>2, <1>3, SocksSameRole, ReqSameRole DEF Objects
<1>5. QED
  BY <1>2, <1>4, Unnoticed

LEMMA AfterWritePromised ==
  ASSUME Typed, Resuming, NEW s \in Socks, AfterWrite(s)
  PROVE  Promised
<1>1. PICK r \in Reqs : r = Head(wq[s]) /\ req[r].kind \in {"write", "write_async"} /\ req[r].sock = s
  <2>1. wq[s] # <<>>
    BY DEF AfterWrite
  <2>2. wq[s] \in Seq(Reqs) /\ Len(wq[s]) > 0 /\ Head(wq[s]) = wq[s][1] /\ 1 \in 1 .. Len(wq[s])
    BY <2>1, EmptySeq, LenProperties, HeadTailProperties DEF Typed, ReqsTyped
  <2>3. QED
    BY <2>2, ElementOfSeq DEF Typed, Queues
<1>2. /\ req' = [req EXCEPT ![r] = FreeReq] /\ UNCHANGED <<cur, reading, phase>>
      /\ \/ (req[r].timedout \/ req[r].kind = "write_async") /\ UNCHANGED coroVars
         \/ /\ ~(req[r].timedout \/ req[r].kind = "write_async")
            /\ \E err, n, k : Resume(req[r].co, "write", s, err, n, k)
  BY <1>1 DEF AfterWrite, Finish, sockVars
<1>3. /\ \A x \in Socks : SameRole(x)
      /\ \A x \in Reqs \ {r} : SameRole(x)
      /\ \A d \in Coros : ~Resumes(r, d)'
  BY <1>2, FreeIs, SocksSameRole, ReqRoleEnds
<1>4. CASE (req[r].timedout \/ req[r].kind = "write_async") /\ UNCHANGED coroVars
  <2>1. SameRole(r)
    BY <1>3, <1>4, NoReqRole DEF SameRole, Typed, ReqClients
  <2>2. QED
    BY <1>3, <1>4, <2>1, Unnoticed DEF Objects
<1>5. CASE /\ ~(req[r].timedout \/ req[r].kind = "write_async")
           /\ \E err, n, k : Resume(req[r].co, "write", s, err, n, k)
  <2>1. PICK c \in Coros : c = req[r].co
    BY <1>1, <1>5 DEF Typed, ReqClients
  <2>2. r \in Objects /\ Resumes(r, c) /\ Role(r) = [op |-> "write", sock |-> s]
    BY <1>1, <1>5, <2>1, ReqRole
  <2>3. \A x \in Objects \ {r} : SameRole(x)
    BY <1>3 DEF Objects
  <2>4. QED
    BY <1>3, <1>5, <2>1, <2>2, <2>3, Resumption DEF Typed, Ops
<1>6. QED
  BY <1>2, <1>4, <1>5

LEMMA WriteTimeoutPromised ==
  ASSUME Typed, Timed, Phases, Resuming, NEW t \in Timers, WriteTimeout(t)
  PROVE  Promised
<1>1. PICK r \in Reqs : r = armed[t]
  BY DEF WriteTimeout
<1>2. /\ req[r].kind \in {"write", "write_async"} /\ ~req[r].timedout
      /\ UNCHANGED <<cur, reading, phase>>
  BY <1>1, ArmedReq DEF WriteTimeout, sockVars
<1>3. req[r] \in Request
  BY <1>2, InUse DEF Typed
<1>4. \A x \in Socks : SameRole(x)
  BY <1>2, SocksSameRole
<1>5. CASE /\ req[r].kind = "write"
           /\ req' = [req EXCEPT ![r].timer = NoTimer, ![r].timedout = TRUE]
           /\ Resume(req[r].co, "write", req[r].sock, "timedout", 0, req[r].sent)
  <2>1. PICK c \in Coros, s \in Socks : c = req[r].co /\ s = req[r].sock
    BY <1>3, <1>5, InUse DEF Typed, ReqClients
  <2> DEFINE q == [req[r] EXCEPT !.timer = NoTimer, !.timedout = TRUE]
  <2>2. req' = [req EXCEPT ![r] = q] /\ q.timedout
    BY <1>3, <1>5 DEF Typed, ReqsTyped, Request
  <2> HIDE DEF q
  <2>3. /\ \A x \in Reqs \ {r} : SameRole(x)
        /\ \A d \in Coros : ~Resumes(r, d)'
    BY <2>2, ReqRoleEnds
  <2>4. r \in Objects /\ Resumes(r, c) /\ Role(r) = [op |-> "write", sock |-> s]
    BY <1>2, <1>5, <2>1, ReqRole
  <2>5. \A x \in Objects \ {r} : SameRole(x)
    BY <1>4, <2>3 DEF Objects
  <2>6. QED
    BY <1>5, <2>1, <2>3, <2>4, <2>5, Resumption DEF Typed, Ops
<1>6. CASE /\ req[r].kind = "write_async"
           /\ req' = [req EXCEPT ![r].timer = NoTimer]
           /\ UNCHANGED coroVars
  <2>1. \A x \in Reqs : /\ req'[x].co = req[x].co /\ req'[x].timedout = req[x].timedout
                        /\ req'[x].kind = req[x].kind /\ req'[x].sock = req[x].sock
    BY <1>3, <1>6 DEF Typed, ReqsTyped, Request
  <2>2. \A x \in Objects : SameRole(x)
    BY <1>4, <2>1, ReqSameRole DEF Objects
  <2>3. QED
    BY <1>6, <2>2, Unnoticed
<1>7. QED
  BY <1>1, <1>5, <1>6 DEF WriteTimeout

LEMMA ShutdownPromised ==
  ASSUME Typed, Resuming, NEW c \in Coros, NEW s \in Socks, Shutdown(c, s)
  PROVE  Promised
<1>1. PICK r \in FreeReqs : req' = [req EXCEPT ![r] = NewReq("shutdown", s, c, NoTimer, 0)]
  BY DEF Shutdown
<1>2. Idle(c) /\ Yield(c, "shutdown", s) /\ UNCHANGED <<cur, reading, phase>>
  BY DEF Shutdown
<1>3. /\ r \in Reqs
      /\ \A x \in Reqs \ {r} : SameRole(x)
      /\ \A d \in Coros : ~Resumes(r, d)
      /\ \A d \in Coros : Resumes(r, d)' <=> d = c
      /\ Role(r)' = [op |-> "shutdown", sock |-> s]
  BY <1>1, NewReqRole
<1>4. r \in Objects /\ \A x \in Objects \ {r} : SameRole(x)
  BY <1>2, <1>3, SocksSameRole, ObjectsAre DEF Objects
<1>5. QED
  BY <1>2, <1>3, <1>4, Suspending DEF Typed, Ops

LEMMA ShutdownFailsPromised ==
  ASSUME Resuming, NEW c \in Coros, NEW s \in Socks, ShutdownFails(c, s)
  PROVE  Promised
<1>1. /\ Idle(c) /\ Return(c, "shutdown", s, "error", 0, 0)
      /\ UNCHANGED <<cur, reading, phase>> /\ UNCHANGED req
  BY DEF ShutdownFails, sockVars, reqVars
<1>2. \A x \in Objects : SameRole(x)
  BY <1>1, SocksSameRole, ReqsSameRole DEF Objects
<1>3. QED
  BY <1>1, <1>2, Returning DEF Ops

LEMMA AfterShutdownPromised ==
  ASSUME Typed, Phases, Resuming, NEW r \in Reqs, AfterShutdown(r)
  PROVE  Promised
<1>1. /\ req[r].kind = "shutdown" /\ req' = [req EXCEPT ![r] = FreeReq]
      /\ UNCHANGED <<cur, reading, phase>>
      /\ \E err : Resume(req[r].co, "shutdown", req[r].sock, err, 0, 0)
  BY DEF AfterShutdown
<1>2. PICK c \in Coros, s \in Socks : c = req[r].co /\ s = req[r].sock
  BY <1>1, InUse DEF Typed, ReqClients
<1>3. /\ \A x \in Reqs \ {r} : SameRole(x)
      /\ \A d \in Coros : ~Resumes(r, d)'
  BY <1>1, FreeIs, ReqRoleEnds
<1>4. \A x \in Objects \ {r} : SameRole(x)
  BY <1>1, <1>3, SocksSameRole DEF Objects
<1>5. r \in Objects /\ Resumes(r, c) /\ Role(r) = [op |-> "shutdown", sock |-> s]
  BY <1>1, <1>2, ReqRole DEF Phases
<1>6. QED
  BY <1>1, <1>2, <1>3, <1>4, <1>5, Resumption DEF Typed, Ops

LEMMA ClosePromised ==
  ASSUME CarefulClose, Typed, Timed, Resuming, NEW c \in Coros, NEW s \in Socks, Close(c, s)
  PROVE  Promised
<1>1. /\ Idle(c) /\ phase[s] = "open" /\ ~reading[s] /\ BeginClose(c, s) /\ Yield(c, "close", s)
      /\ UNCHANGED req
  BY DEF Close, CarefulClose, BeginClose, reqVars
<1>2. /\ \A x \in Socks \ {s} : SameRole(x)
      /\ \A d \in Coros : ~Resumes(s, d)
      /\ \A d \in Coros : Resumes(s, d)' <=> d = c
      /\ Role(s)' = [op |-> "close", sock |-> s]
  BY <1>1, BeginCloseRole
<1>3. s \in Objects /\ \A x \in Objects \ {s} : SameRole(x)
  BY <1>1, <1>2, ReqsSameRole, ObjectsAre DEF Objects
<1>4. QED
  BY <1>1, <1>2, <1>3, Suspending DEF Typed, Ops

LEMMA OnClosePromised ==
  ASSUME Typed, Timed, Resuming, NEW s \in Socks, OnClose(s)
  PROVE  Promised
<1>1. /\ phase[s] = "closing" /\ phase' = [phase EXCEPT ![s] = "closed"]
      /\ Resume(cur[s], "close", s, "ok", 0, 0)
      /\ UNCHANGED <<cur, reading>> /\ UNCHANGED req
  BY DEF OnClose, reqVars
<1>2. PICK c \in Coros : c = cur[s]
  BY <1>1 DEF Typed, SockClients
<1>3. \A x \in Socks : phase'[x] = IF x = s THEN "closed" ELSE phase[x]
  BY <1>1 DEF Typed, SocksTyped
<1>4. ~reading[s]
  BY <1>1 DEF Timed, ReadTimers
<1>5. s \in Objects /\ \A x \in Objects \ {s} : SameRole(x)
  BY <1>1, <1>3, SocksSameRole, ReqsSameRole, ObjectsAre DEF Objects
<1>6. Resumes(s, c) /\ Role(s) = [op |-> "close", sock |-> s]
  BY <1>1, <1>2, <1>4, ObjectsAre DEF Resumes, Role
<1>7. \A d \in Coros : ~Resumes(s, d)'
  BY <1>1, <1>3, <1>4, NoRole
<1>8. QED
  BY <1>1, <1>2, <1>5, <1>6, <1>7, Resumption DEF Typed, Ops

LEMMA TimerClosedPromised ==
  ASSUME Resuming, NEW t \in Timers, TimerClosed(t)
  PROVE  Promised
<1>1. UNCHANGED coroVars /\ UNCHANGED <<cur, reading, phase>> /\ UNCHANGED req
  BY DEF TimerClosed, sockVars, reqVars
<1>2. \A x \in Objects : SameRole(x)
  BY <1>1, SocksSameRole, ReqsSameRole DEF Objects
<1>3. QED
  BY <1>1, <1>2, Unnoticed

-----------------------------------------------------------------------------
(* The theorems *)

Inv == Typed /\ Timed /\ Phases /\ Resuming

LEMMA InitInv ==
  ASSUME Init
  PROVE  Inv /\ Calls!Init
<1>1. Typed
  BY InitTyped
<1>2. Pointers
  BY SockOwns, ReqOwns, FreeIs, ObjectsAre, SocketAssumption DEF Init, Pointers, Objects
<1>3. Running /\ ReadTimers
  BY DEF Init, Running, ReadTimers
<1>4. PoolCounted
  <2>1. Pool = {}
    BY DEF Init, Pool
  <2>2. QED
    BY <2>1, FS_EmptySet, SocketAssumption DEF Init, PoolCounted
<1>5. Phases
  BY FreeIs DEF Init, Phases
<1>6. Resuming
  <2>1. \A x \in Objects, c \in Coros : ~Resumes(x, c)
    BY FreeIs, NoRole, SocketAssumption, ObjectsAre DEF Init, Resumes, Objects
  <2>2. QED
    BY <2>1 DEF Init, Resuming
<1>7. Calls!Init
  BY DEF Init, Calls!Init, Calls!Nothing
<1>8. QED
  BY <1>1, <1>2, <1>3, <1>4, <1>5, <1>6, <1>7 DEF Inv, Timed

\* One step keeps the invariant and is a step, or a stutter, of AsyncCall.
Good == Timed' /\ Phases' /\ Promised

LEMMA CallingGood ==
  ASSUME CarefulClose, Inv, Calling
  PROVE  Good
<1> USE DEF Good
<1>0. Typed /\ Timed /\ Phases /\ Resuming
  BY DEF Inv
<1>1. PICK c \in Coros, s \in Socks :
        \/ \E tm \in BOOLEAN : Connect(c, s, tm) \/ ConnectFails(c, s, tm) \/ Accept(c, s, tm)
        \/ Read(c, s) \/ ReadFails(c, s)
        \/ Write(c, s) \/ WriteAsync(c, s) \/ WriteFails(c, s)
        \/ Shutdown(c, s) \/ ShutdownFails(c, s)
        \/ Close(c, s)
  BY DEF Calling
<1>2. ASSUME NEW tm \in BOOLEAN, Connect(c, s, tm)
      PROVE  Good
  BY <1>0, <1>2, ConnectTimed, ConnectPhases, ConnectPromised
<1>3. ASSUME NEW tm \in BOOLEAN, ConnectFails(c, s, tm)
      PROVE  Good
  <2>1. Phases'
    BY <1>0, <1>3, NewSocketPhases DEF ConnectFails, Unused, reqVars
  <2>2. QED
    BY <1>0, <1>3, <2>1, ConnectFailsTimed, ConnectFailsPromised
<1>4. ASSUME NEW tm \in BOOLEAN, Accept(c, s, tm)
      PROVE  Good
  <2>1. Phases'
    BY <1>0, <1>4, NewSocketPhases DEF Accept, Unused, reqVars
  <2>2. QED
    BY <1>0, <1>4, <2>1, AcceptTimed, AcceptPromised
<1>5. CASE Read(c, s)
  <2>1. Phases'
    BY <1>0, <1>5, PhasesKept DEF Read, reqVars
  <2>2. QED
    BY <1>0, <1>5, <2>1, ReadTimed, ReadPromised
<1>6. ASSUME NEW op \in Ops, NEW n, Fails(c, op, s, n)
      PROVE  Good
  <2>1. Phases'
    BY <1>0, <1>6, PhasesKept DEF Fails, sockVars, reqVars
  <2>2. QED
    BY <1>0, <1>6, <2>1, FailsTimed, FailsPromised
<1>7. CASE ReadFails(c, s) \/ WriteFails(c, s)
  <2>1. \E n : \E op \in Ops : Fails(c, op, s, n)
    BY <1>7 DEF ReadFails, WriteFails, Ops, WritesAsync
  <2>2. QED
    BY <1>6, <2>1
<1>8. CASE Write(c, s)
  <2>1. UNCHANGED phase /\ phase[s] = "open"
    BY <1>8 DEF Write, sockVars
  <2>2. UNCHANGED reqVars => Phases'
    BY <1>0, <2>1, PhasesKept DEF reqVars
  <2>3. (\E n, t : \E r \in FreeReqs : Enqueue(r, s, "write", c, t, n)) => Phases'
    BY <1>0, <2>1, EnqueuePhases
  <2>4. QED
    BY <1>0, <1>8, <2>2, <2>3, WriteTimed, WritePromised DEF Write
<1>9. CASE WriteAsync(c, s)
  <2>1. UNCHANGED phase /\ phase[s] = "open"
    BY <1>9 DEF WriteAsync, sockVars
  <2>2. UNCHANGED reqVars => Phases'
    BY <1>0, <2>1, PhasesKept DEF reqVars
  <2>3. (\E n, t : \E r \in FreeReqs : Enqueue(r, s, "write_async", NoCoro, t, n)) => Phases'
    BY <1>0, <2>1, EnqueuePhases
  <2>4. QED
    BY <1>0, <1>9, <2>2, <2>3, WriteAsyncTimed, WriteAsyncPromised DEF WriteAsync
<1>10. CASE Shutdown(c, s)
  BY <1>0, <1>10, ShutdownTimed, ShutdownPhases, ShutdownPromised
<1>11. CASE ShutdownFails(c, s)
  <2>1. /\ UNCHANGED <<phase, reading, rtimer>> /\ UNCHANGED req /\ UNCHANGED timerVars
    BY <1>11 DEF ShutdownFails, sockVars, reqVars
  <2>2. Timed' /\ Phases'
    BY <1>0, <2>1, TimedKept, PhasesKept
  <2>3. QED
    BY <1>0, <1>11, <2>2, ShutdownFailsPromised
<1>12. CASE Close(c, s)
  BY <1>0, <1>12, CloseTimed, ClosePhases, ClosePromised
<1>13. QED
  BY <1>1, <1>2, <1>3, <1>4, <1>5, <1>7, <1>8, <1>9, <1>10, <1>11, <1>12

LEMMA LoopGood ==
  ASSUME Inv, Loop
  PROVE  Good
<1> USE DEF Good
<1>0. Typed /\ Timed /\ Phases /\ Resuming
  BY DEF Inv
<1>1. ASSUME NEW s \in Socks, OnRead(s)
      PROVE  Good
  <2>1. Phases'
    BY <1>0, <1>1, PhasesKept DEF OnRead, reqVars
  <2>2. QED
    BY <1>0, <1>1, <2>1, OnReadTimed, OnReadPromised
<1>2. ASSUME NEW s \in Socks, KernelSend(s)
      PROVE  Good
  <2>1. PICK i \in 1 .. Len(wq[s]) : \E n : req' = [req EXCEPT ![wq[s][i]].sent = n]
    BY <1>2 DEF KernelSend
  <2>2. \A x \in Reqs : /\ req'[x].kind = req[x].kind /\ req'[x].sock = req[x].sock
                        /\ req'[x].timedout = req[x].timedout /\ req'[x].timer = req[x].timer
    BY <1>0, <2>1 DEF Typed, ReqsTyped, Request, FreeReq
  <2>3. Phases'
    BY <1>0, <1>2, <2>2, PhasesKept DEF KernelSend, sockVars
  <2>4. QED
    BY <1>0, <1>2, <2>3, KernelSendTimed, KernelSendPromised
<1>3. ASSUME NEW s \in Socks, AfterWrite(s)
      PROVE  Good
  <2>1. \E r : req' = [req EXCEPT ![r] = FreeReq]
    BY <1>3 DEF AfterWrite, Finish
  <2>2. \A x \in Reqs : req'[x] = FreeReq \/ req'[x] = req[x]
    BY <1>0, <2>1 DEF Typed, ReqsTyped
  <2>3. Phases'
    BY <1>0, <1>3, <2>2, PhasesKept DEF AfterWrite, Finish, sockVars
  <2>4. QED
    BY <1>0, <1>3, <2>3, AfterWriteTimed, AfterWritePromised
<1>4. ASSUME NEW s \in Socks, OnClose(s)
      PROVE  Good
  BY <1>0, <1>4, OnCloseTimed, OnClosePhases, OnClosePromised
<1>5. ASSUME NEW r \in Reqs, OnConnect(r)
      PROVE  Good
  BY <1>0, <1>5, OnConnectTimed, OnConnectPhases, OnConnectPromised
<1>6. ASSUME NEW r \in Reqs, AfterShutdown(r)
      PROVE  Good
  <2>1. \A x \in Reqs : req'[x] = FreeReq \/ req'[x] = req[x]
    BY <1>0, <1>6 DEF Typed, ReqsTyped, AfterShutdown
  <2>2. Phases'
    BY <1>0, <1>6, <2>1, PhasesKept DEF AfterShutdown
  <2>3. QED
    BY <1>0, <1>6, <2>2, AfterShutdownTimed, AfterShutdownPromised
<1>7. ASSUME NEW t \in Timers, ConnectTimeout(t)
      PROVE  Good
  BY <1>0, <1>7, ConnectTimeoutTimed, ConnectTimeoutPhases, ConnectTimeoutPromised
<1>8. ASSUME NEW t \in Timers, ReadTimeout(t)
      PROVE  Good
  <2>1. Phases'
    BY <1>0, <1>8, PhasesKept DEF ReadTimeout, reqVars
  <2>2. QED
    BY <1>0, <1>8, <2>1, ReadTimeoutTimed, ReadTimeoutPromised
<1>9. ASSUME NEW t \in Timers, WriteTimeout(t)
      PROVE  Good
  BY <1>0, <1>9, WriteTimeoutTimed, WriteTimeoutPhases, WriteTimeoutPromised
<1>10. ASSUME NEW t \in Timers, TimerClosed(t)
      PROVE  Good
  <2>1. Phases'
    BY <1>0, <1>10, PhasesKept DEF TimerClosed, sockVars, reqVars
  <2>2. QED
    BY <1>0, <1>10, <2>1, TimerClosedTimed, TimerClosedPromised
<1>11. QED
  BY <1>1, <1>2, <1>3, <1>4, <1>5, <1>6, <1>7, <1>8, <1>9, <1>10 DEF Loop

LEMMA NextInv ==
  ASSUME CarefulClose
  PROVE  Inv /\ [Next]_vars => Inv' /\ [Calls!Next]_(Calls!callVars)
<1> SUFFICES ASSUME Inv, [Next]_vars
             PROVE  Inv' /\ [Calls!Next]_(Calls!callVars)
  OBVIOUS
<1>1. Typed'
  BY NextTyped DEF Inv
<1>2. ASSUME NEW s \in Socks, SetTimeout(s)
      PROVE  Good
  <2>1. UNCHANGED <<phase, reading, rtimer>> /\ UNCHANGED req /\ UNCHANGED timerVars
    BY <1>2 DEF SetTimeout, reqVars
  <2>2. Timed' /\ Phases'
    BY <2>1, TimedKept, PhasesKept DEF Inv
  <2>3. QED
    BY <1>2, <2>2, SetTimeoutPromised DEF Inv, Good
<1>3. ASSUME UNCHANGED vars
      PROVE  Good
  <2>1. /\ UNCHANGED <<phase, reading, rtimer, cur>> /\ UNCHANGED req
        /\ UNCHANGED timerVars /\ UNCHANGED coroVars
    BY <1>3 DEF vars, timerVars, coroVars
  <2>2. Timed' /\ Phases'
    BY <2>1, TimedKept, PhasesKept DEF Inv
  <2>3. \A x \in Objects : SameRole(x)
    BY <2>1, SocksSameRole, ReqsSameRole DEF Objects
  <2>4. QED
    BY <2>1, <2>2, <2>3, Unnoticed DEF Inv, Good
<1>4. Good
  BY <1>2, <1>3, CallingGood, LoopGood DEF Next
<1>5. QED
  BY <1>1, <1>4 DEF Inv, Good, Promised

\* What follows rests on this invariant and on the step beside it.
THEOREM CallsInvariance ==
  ASSUME CarefulClose
  PROVE  Spec => []Inv
BY InitInv, NextInv, PTL DEF Spec

\* Timers shared by all sockets are never mixed up: luaio_timer.c hands out no timer
\* that is running, every callback finds the read or the request it belongs to in
\* timer->data, and no timer of luaio_tcp.c is left running or lost.
THEOREM TimersNeverMixedUp ==
  ASSUME CarefulClose
  PROVE  Spec => []TimersOwned
<1>1. Inv => TimersOwned
  BY ObjectsAre DEF Inv, Timed, Pointers, Running, TimersOwned, Objects, Typed, TimersTyped
<1>2. QED
  BY <1>1, CallsInvariance, PTL

\* free_timers of luaio_timer.c is the length of the free list and never exceeds its
\* limit: a timer is freed once for every time it is allocated.
THEOREM PoolIsCounted ==
  ASSUME CarefulClose
  PROVE  Spec => []PoolCounted
<1>1. Inv => PoolCounted
  BY DEF Inv, Timed
<1>2. QED
  BY <1>1, CallsInvariance, PTL

\* A suspended coroutine has exactly one callback of luaio_tcp.c that will resume it,
\* and one that is not suspended has none.
THEOREM ExactlyOneResumer ==
  ASSUME CarefulClose
  PROVE  Spec => []OneResumer
<1>1. Inv => OneResumer
  BY ResumingIs DEF Inv
<1>2. QED
  BY <1>1, CallsInvariance, PTL

\* When luaio_tcp_socket_onclose has run, nothing of the socket is left: no request,
\* no queued write, no coroutine that waits for it.
THEOREM ClosedSocketsQuiet ==
  ASSUME CarefulClose
  PROVE  Spec => []ClosedIsQuiet
<1>1. ASSUME Inv, NEW s \in Socks, phase[s] = "closed"
      PROVE  /\ wq[s] = <<>>
             /\ \A r \in Reqs : req[r].sock # s
             /\ \A c \in Coros : call[c].sock # s
  <2>1. \A r \in Reqs : req[r].sock # s
    BY <1>1, ClosedHasNone DEF Inv
  <2>2. wq[s] = <<>>
    <3>1. wq[s] \in Seq(Reqs)
      BY <1>1 DEF Inv, Typed, ReqsTyped
    <3>2. \A i \in 1 .. Len(wq[s]) : FALSE
      BY <1>1, <2>1, <3>1, ElementOfSeq DEF Inv, Typed, Queues
    <3>3. QED
      BY <3>1, <3>2, EmptySeq, LenProperties
  <2>3. ASSUME NEW c \in Coros, call[c].sock = s
        PROVE  FALSE
    <3>1. call[c] # NoCall
      BY <2>3, SocketAssumption DEF NoCall
    <3>2. PICK x \in Objects : Resumes(x, c) /\ call[c] = Role(x)
      BY <1>1, <3>1 DEF Inv, Resuming
    <3>3. CASE x \in Reqs
      BY <2>1, <2>3, <3>2, <3>3 DEF Role
    <3>4. CASE x \in Socks
      BY <1>1, <2>3, <3>2, <3>4, ObjectsAre, NoRole DEF Role, Inv, Timed, ReadTimers
    <3>5. QED
      BY <3>3, <3>4 DEF Objects
  <2>4. QED
    BY <2>1, <2>2, <2>3
<1>2. Inv => ClosedIsQuiet
  BY <1>1 DEF ClosedIsQuiet, Unused
<1>3. QED
  BY <1>2, CallsInvariance, PTL

\* The calls of luaio_tcp.c keep the promise of AsyncCall: a call returns at once or
\* suspends its coroutine, and a suspended coroutine is resumed exactly once, with
\* the outcome of the very call it is suspended in.
THEOREM CallsKeepPromise ==
  ASSUME CarefulClose
  PROVE  Spec => KeepsPromise
<1>1. Init => Calls!Init
  BY InitInv
<1>2. Inv /\ [Next]_vars => [Calls!Next]_(Calls!callVars)
  BY NextInv
<1>3. QED
  BY <1>1, <1>2, CallsInvariance, PTL DEF Spec, KeepsPromise, Calls!Spec
-----------------------------------------------------------------------------
(* A deadline stays *)

\* A step keeps the running timer of every read, and of every request, whose coroutine
\* stays in its call.
ReadersUntouched ==
  \A s \in Socks : reading[s] /\ cur[s] \in Coros /\ call'[cur[s]] = call[cur[s]] =>
    reading'[s] /\ rtimer'[s] = rtimer[s] /\ cur'[s] = cur[s]
RequestsUntouched ==
  \A r \in Reqs : req[r].timer # NoTimer /\ req[r].co \in Coros
                    /\ call'[req[r].co] = call[req[r].co] =>
    req'[r].timer = req[r].timer /\ req'[r].co = req[r].co

LEMMA DeadlineKept ==
  ASSUME Inv, Inv', ReadersUntouched, RequestsUntouched
  PROVE  \A c \in Coros : HasDeadline(c) /\ call'[c] = call[c] => HasDeadline(c)'
<1> SUFFICES ASSUME NEW c \in Coros, HasDeadline(c), call'[c] = call[c]
             PROVE  HasDeadline(c)'
  OBVIOUS
<1>1. PICK t \in Timers :
        \/ armed[t] \in Reqs /\ req[armed[t]].co = c
        \/ armed[t] \in Socks /\ cur[armed[t]] = c
  BY DEF HasDeadline
<1>2. t # NoTimer /\ Waiting(c)'
  BY SocketAssumption DEF HasDeadline, Waiting
<1>3. Pointers /\ Pointers'
  BY DEF Inv, Timed
<1>4. CASE armed[t] \in Reqs /\ req[armed[t]].co = c
  <2>1. PICK r \in Reqs : r = armed[t] /\ req[r].co = c
    BY <1>4
  <2>2. req[r].timer = t
    BY <1>3, <2>1, ReqOwns, ObjectsAre DEF Pointers
  <2>3. req'[r].timer = t /\ req'[r].co = c
    BY <1>2, <2>1, <2>2 DEF RequestsUntouched
  <2>4. armed'[t] = r
    BY <1>3, <2>3, ReqOwns, ObjectsAre DEF Pointers
  <2>5. QED
    BY <1>2, <2>3, <2>4 DEF HasDeadline
<1>5. CASE armed[t] \in Socks /\ cur[armed[t]] = c
  <2>1. PICK s \in Socks : s = armed[t] /\ cur[s] = c
    BY <1>5
  <2>2. reading[s] /\ rtimer[s] = t
    BY <1>3, <2>1, SockOwns, ObjectsAre DEF Pointers
  <2>3. reading'[s] /\ rtimer'[s] = t /\ cur'[s] = c
    BY <2>1, <2>2 DEF ReadersUntouched
  <2>4. armed'[t] = s
    BY <1>3, <2>3, SockOwns, ObjectsAre DEF Pointers
  <2>5. QED
    BY <1>2, <2>3, <2>4 DEF HasDeadline
<1>6. QED
  BY <1>1, <1>4, <1>5

\* The coroutine of a timer is in the call of its read or of its request.
LEMMA TimedCall ==
  ASSUME Inv
  PROVE  /\ \A s \in Socks : reading[s] /\ cur[s] \in Coros =>
              call[cur[s]] = [op |-> "read", sock |-> s]
         /\ \A r \in Reqs : req[r].timer # NoTimer /\ req[r].co \in Coros =>
              /\ ~req[r].timedout
              /\ call[req[r].co] = [op |-> req[r].kind, sock |-> req[r].sock]
<1>1. ASSUME NEW s \in Socks, reading[s], cur[s] \in Coros
      PROVE  call[cur[s]] = [op |-> "read", sock |-> s]
  <2>1. s \in Objects /\ s \notin Reqs /\ Resumes(s, cur[s])
    BY <1>1, ObjectsAre DEF Resumes
  <2>2. call[cur[s]] = Role(s)
    BY <1>1, <2>1 DEF Inv, Resuming
  <2>3. QED
    BY <1>1, <2>1, <2>2 DEF Role
<1>2. ASSUME NEW r \in Reqs, req[r].timer # NoTimer, req[r].co \in Coros
      PROVE  /\ ~req[r].timedout
             /\ call[req[r].co] = [op |-> req[r].kind, sock |-> req[r].sock]
  <2>1. ~req[r].timedout
    BY <1>2 DEF Inv, Phases
  <2>2. r \in Objects /\ Resumes(r, req[r].co)
    BY <2>1, ObjectsAre DEF Resumes
  <2>3. call[req[r].co] = Role(r)
    BY <1>2, <2>2 DEF Inv, Resuming
  <2>4. QED
    BY <2>1, <2>3 DEF Role
<1>3. QED
  BY <1>1, <1>2

\* A coroutine that waits and is resumed, or goes on to close, is not in its call any more.
LEMMA LeavesCall ==
  ASSUME CorosTyped, NEW c \in Coros, NEW d, call[c] # d, call' = [call EXCEPT ![c] = d]
  PROVE  call'[c] # call[c]
BY DEF CorosTyped

\* Sockets and requests that do not change, and new ones.
LEMMA ReadsUnchanged ==
  UNCHANGED <<reading, rtimer, cur>> => ReadersUntouched
BY DEF ReadersUntouched

LEMMA ReadsElsewhere ==
  ASSUME NEW s \in Socks, ~reading[s],
         \A x \in Socks \ {s} :
           reading'[x] = reading[x] /\ rtimer'[x] = rtimer[x] /\ cur'[x] = cur[x]
  PROVE  ReadersUntouched
BY DEF ReadersUntouched

LEMMA ReqsUnchanged ==
  UNCHANGED req => RequestsUntouched
BY DEF RequestsUntouched

LEMMA ReqsElsewhere ==
  ASSUME ReqsTyped, NEW r \in Reqs, req[r].timer = NoTimer, NEW q, req' = [req EXCEPT ![r] = q]
  PROVE  RequestsUntouched
BY DEF RequestsUntouched, ReqsTyped

\* A request is freed, or loses its timer, and its coroutine leaves its call.
LEMMA ReqEnds ==
  ASSUME ReqsTyped, NEW r \in Reqs, NEW q, req' = [req EXCEPT ![r] = q],
         req[r].timer # NoTimer /\ req[r].co \in Coros => call'[req[r].co] # call[req[r].co]
  PROVE  RequestsUntouched
BY DEF RequestsUntouched, ReqsTyped

LEMMA FreeReqHasNoTimer ==
  ASSUME ReqsTyped, NEW r \in FreeReqs
  PROVE  r \in Reqs /\ req[r].timer = NoTimer
BY FreeReqIs, FreeIs DEF FreeReqs

LEMMA CallingKeeps ==
  ASSUME CarefulClose, Inv, Calling
  PROVE  ReadersUntouched /\ RequestsUntouched
<1>0. Typed /\ Timed /\ SocksTyped /\ ReqsTyped /\ ReadTimers
  BY DEF Inv, Typed, Timed
<1>1. PICK c \in Coros, s \in Socks :
        \/ \E tm \in BOOLEAN : Connect(c, s, tm) \/ ConnectFails(c, s, tm) \/ Accept(c, s, tm)
        \/ Read(c, s) \/ ReadFails(c, s)
        \/ Write(c, s) \/ WriteAsync(c, s) \/ WriteFails(c, s)
        \/ Shutdown(c, s) \/ ShutdownFails(c, s)
        \/ Close(c, s)
  BY DEF Calling
<1>2. ASSUME NEW r \in FreeReqs, NEW q, req' = [req EXCEPT ![r] = q]
      PROVE  RequestsUntouched
  BY <1>0, <1>2, FreeReqHasNoTimer, ReqsElsewhere
<1>3. ASSUME NEW ph, NEW tm, phase[s] = "closed", NewSocket(c, s, ph, tm)
      PROVE  ReadersUntouched
  <2>1. ~reading[s]
    BY <1>0, <1>3 DEF ReadTimers
  <2>2. QED
    BY <1>0, <1>3, <2>1, ReadsElsewhere DEF NewSocket, SocksTyped
<1>4. ASSUME NEW tm \in BOOLEAN, Connect(c, s, tm)
      PROVE  ReadersUntouched /\ RequestsUntouched
  <2>1. PICK r \in FreeReqs : \E t : req' = [req EXCEPT ![r] = NewReq("connect", s, c, t, 0)]
    BY <1>4 DEF Connect
  <2>2. QED
    BY <1>2, <1>3, <1>4, <2>1 DEF Connect, Unused
<1>5. ASSUME NEW tm \in BOOLEAN, ConnectFails(c, s, tm) \/ Accept(c, s, tm)
      PROVE  ReadersUntouched /\ RequestsUntouched
  BY <1>3, <1>5, ReqsUnchanged DEF ConnectFails, Accept, Unused, reqVars
<1>6. CASE Read(c, s)
  <2>1. PICK t : rtimer' = [rtimer EXCEPT ![s] = t]
    BY <1>6 DEF Read
  <2>2. QED
    BY <1>0, <1>6, <2>1, ReadsElsewhere, ReqsUnchanged DEF Read, SocksTyped, reqVars
<1>7. CASE ReadFails(c, s) \/ WriteFails(c, s) \/ ShutdownFails(c, s)
  BY <1>7, ReadsUnchanged, ReqsUnchanged
     DEF ReadFails, WriteFails, Fails, ShutdownFails, sockVars, reqVars
<1>8. CASE Write(c, s) \/ WriteAsync(c, s)
  <2>1. UNCHANGED req \/ \E k, n, t, d : \E r \in FreeReqs : Enqueue(r, s, k, d, t, n)
    BY <1>8 DEF Write, WriteAsync, reqVars
  <2>2. RequestsUntouched
    BY <1>2, <2>1, ReqsUnchanged DEF Enqueue
  <2>3. QED
    BY <1>8, <2>2, ReadsUnchanged DEF Write, WriteAsync, sockVars
<1>9. CASE Shutdown(c, s)
  <2>1. PICK r \in FreeReqs : req' = [req EXCEPT ![r] = NewReq("shutdown", s, c, NoTimer, 0)]
    BY <1>9 DEF Shutdown
  <2>2. QED
    BY <1>2, <1>9, <2>1, ReadsUnchanged DEF Shutdown
<1>10. CASE Close(c, s)
  <2>1. ~reading[s]
    BY <1>10 DEF Close, CarefulClose
  <2>2. QED
    BY <1>0, <1>10, <2>1, ReadsElsewhere, ReqsUnchanged
       DEF Close, BeginClose, SocksTyped, reqVars
<1>11. QED
  BY <1>1, <1>4, <1>5, <1>6, <1>7, <1>8, <1>9, <1>10

LEMMA LoopKeeps ==
  ASSUME Inv, Loop
  PROVE  ReadersUntouched /\ RequestsUntouched
<1>0. Typed /\ Timed /\ Phases /\ SocksTyped /\ ReqsTyped /\ CorosTyped /\ ReadTimers
  BY DEF Inv, Typed, Timed
<1>1. ASSUME NEW s \in Socks, reading' = [reading EXCEPT ![s] = FALSE], UNCHANGED <<rtimer, cur>>,
             call' = [call EXCEPT ![cur[s]] = NoCall]
      PROVE  ReadersUntouched
  <2>1. ASSUME reading[s], cur[s] \in Coros
        PROVE  call'[cur[s]] # call[cur[s]]
    <3>1. call[cur[s]] = [op |-> "read", sock |-> s]
      BY <2>1, TimedCall
    <3>2. call[cur[s]] # NoCall
      BY <3>1 DEF NoCall
    <3>3. QED
      BY <1>0, <1>1, <2>1, <3>2, LeavesCall
  <2>2. \A x \in Socks \ {s} : reading'[x] = reading[x]
    BY <1>0, <1>1 DEF SocksTyped
  <2>3. QED
    BY <1>1, <2>1, <2>2 DEF ReadersUntouched
<1>2. ASSUME NEW s \in Socks, OnRead(s)
      PROVE  ReadersUntouched /\ RequestsUntouched
  BY <1>1, <1>2, ReqsUnchanged DEF OnRead, Resume, reqVars
<1>3. ASSUME NEW t \in Timers, ReadTimeout(t)
      PROVE  ReadersUntouched /\ RequestsUntouched
  BY <1>1, <1>3, ReqsUnchanged DEF ReadTimeout, Resume, reqVars
<1>4. ASSUME NEW s \in Socks, KernelSend(s)
      PROVE  ReadersUntouched /\ RequestsUntouched
  <2>1. PICK i \in 1 .. Len(wq[s]) : \E n : req' = [req EXCEPT ![wq[s][i]].sent = n]
    BY <1>4 DEF KernelSend
  <2>2. \A x \in Reqs : req'[x].co = req[x].co /\ req'[x].timer = req[x].timer
    BY <1>0, <2>1 DEF ReqsTyped, Request, FreeReq
  <2>3. QED
    BY <1>4, <2>2, ReadsUnchanged DEF KernelSend, RequestsUntouched, sockVars
<1>5. ASSUME NEW r \in Reqs, NEW q, req' = [req EXCEPT ![r] = q],
             NEW d, d.op \notin {"connect", "write", "shutdown"},
             req[r].timedout \/ req[r].kind = "write_async" \/ call' = [call EXCEPT ![req[r].co] = d]
      PROVE  RequestsUntouched
  <2>1. req[r].timer # NoTimer /\ req[r].co \in Coros => call'[req[r].co] # call[req[r].co]
    <3>1. SUFFICES ASSUME req[r].timer # NoTimer, req[r].co \in Coros
                   PROVE  call'[req[r].co] # call[req[r].co]
      OBVIOUS
    <3>2. ~req[r].timedout /\ call[req[r].co] = [op |-> req[r].kind, sock |-> req[r].sock]
      BY <3>1, TimedCall
    <3>3. req[r].kind \in {"connect", "write", "shutdown"}
      BY <1>0, <3>1, FreeReqIs, FreeIs, SocketAssumption
         DEF Typed, ReqClients, ReqsTyped, Request, Kinds
    <3>4. call[req[r].co] # d
      BY <1>5, <3>2, <3>3
    <3>5. QED
      BY <1>0, <1>5, <3>1, <3>2, <3>3, <3>4, LeavesCall
  <2>2. QED
    BY <1>0, <1>5, <2>1, ReqEnds
<1>6. NoCall.op \notin {"connect", "write", "shutdown"}
  BY DEF NoCall
<1>7. ASSUME NEW s \in Socks, AfterWrite(s)
      PROVE  ReadersUntouched /\ RequestsUntouched
  <2> DEFINE r == Head(wq[s])
  <2>1. r \in Reqs /\ req' = [req EXCEPT ![r] = FreeReq]
    <3>1. wq[s] \in Seq(Reqs) /\ wq[s] # <<>>
      BY <1>0, <1>7 DEF ReqsTyped, AfterWrite
    <3>2. QED
      BY <1>7, <3>1, HeadTailProperties DEF AfterWrite, Finish
  <2>2. req[r].timedout \/ req[r].kind = "write_async" \/ call' = [call EXCEPT ![req[r].co] = NoCall]
    BY <1>7, <2>1 DEF AfterWrite, Finish, Resume
  <2> HIDE DEF r
  <2>3. RequestsUntouched
    BY <1>5, <1>6, <2>1, <2>2
  <2>4. QED
    BY <1>7, <2>3, ReadsUnchanged DEF AfterWrite, Finish, sockVars
<1>8. ASSUME NEW t \in Timers, WriteTimeout(t)
      PROVE  ReadersUntouched /\ RequestsUntouched
  <2>1. PICK r \in Reqs : r = armed[t]
    BY <1>8 DEF WriteTimeout
  <2>2. \E q : req' = [req EXCEPT ![r] = q]
    BY <1>8, <2>1 DEF WriteTimeout
  <2>3. req[r].kind = "write_async" \/ call' = [call EXCEPT ![req[r].co] = NoCall]
    BY <1>8, <2>1 DEF WriteTimeout, Resume
  <2>4. RequestsUntouched
    BY <1>5, <1>6, <2>2, <2>3
  <2>5. QED
    BY <1>8, <2>4, ReadsUnchanged DEF WriteTimeout, sockVars
<1>9. ASSUME NEW c, NEW s \in Socks, BeginClose(c, s), ~reading[s]
      PROVE  ReadersUntouched
  BY <1>0, <1>9, ReadsElsewhere DEF BeginClose, SocksTyped
<1>10. ASSUME NEW r \in Reqs, OnConnect(r)
       PROVE  ReadersUntouched /\ RequestsUntouched
  <2>1. req[r].sock \in Socks /\ ~reading[req[r].sock]
    BY <1>0, <1>10, FreeIs DEF OnConnect, ReqsTyped, Request, ReadTimers, Phases
  <2>2. ReadersUntouched
    BY <1>9, <1>10, <2>1, ReadsUnchanged DEF OnConnect, sockVars
  <2>3. \/ req[r].timedout
        \/ call' = [call EXCEPT ![req[r].co] = NoCall]
        \/ call' = [call EXCEPT ![req[r].co] = [op |-> "close", sock |-> req[r].sock]]
    BY <1>10 DEF OnConnect, Resume, BeginClose, Yield
  <2>4. req' = [req EXCEPT ![r] = FreeReq]
    BY <1>10 DEF OnConnect
  <2>5. [op |-> "close", sock |-> req[r].sock].op \notin {"connect", "write", "shutdown"}
    OBVIOUS
  <2>6. RequestsUntouched
    BY <1>5, <1>6, <2>3, <2>4, <2>5
  <2>7. QED
    BY <2>2, <2>6
<1>11. ASSUME NEW t \in Timers, ConnectTimeout(t)
       PROVE  ReadersUntouched /\ RequestsUntouched
  <2>1. PICK r \in Reqs : r = armed[t]
    BY <1>11 DEF ConnectTimeout
  <2>2. req[r].sock \in Socks /\ ~reading[req[r].sock]
    BY <1>0, <1>11, <2>1, FreeIs DEF ConnectTimeout, ReqsTyped, Request, ReadTimers, Phases
  <2>3. ReadersUntouched
    BY <1>9, <1>11, <2>1, <2>2 DEF ConnectTimeout
  <2>4. call' = [call EXCEPT ![req[r].co] = [op |-> "close", sock |-> req[r].sock]]
    BY <1>11, <2>1 DEF ConnectTimeout, BeginClose, Yield
  <2>5. \E q : req' = [req EXCEPT ![r] = q]
    BY <1>11, <2>1 DEF ConnectTimeout
  <2>6. [op |-> "close", sock |-> req[r].sock].op \notin {"connect", "write", "shutdown"}
    OBVIOUS
  <2>7. RequestsUntouched
    BY <1>5, <2>4, <2>5, <2>6
  <2>8. QED
    BY <2>3, <2>7
<1>12. ASSUME NEW r \in Reqs, AfterShutdown(r)
       PROVE  ReadersUntouched /\ RequestsUntouched
  <2>1. req[r].timer = NoTimer /\ req' = [req EXCEPT ![r] = FreeReq]
    BY <1>0, <1>12 DEF AfterShutdown, Phases
  <2>2. QED
    BY <1>0, <1>12, <2>1, ReqsElsewhere, ReadsUnchanged DEF AfterShutdown
<1>13. ASSUME NEW s \in Socks, OnClose(s)
       PROVE  ReadersUntouched /\ RequestsUntouched
  BY <1>13, ReadsUnchanged, ReqsUnchanged DEF OnClose, reqVars
<1>14. ASSUME NEW t \in Timers, TimerClosed(t)
       PROVE  ReadersUntouched /\ RequestsUntouched
  BY <1>14, ReadsUnchanged, ReqsUnchanged DEF TimerClosed, sockVars, reqVars
<1>15. QED
  BY <1>2, <1>3, <1>4, <1>7, <1>8, <1>10, <1>11, <1>12, <1>13, <1>14 DEF Loop

\* Nothing another call does to a socket, its queue or the pool of timers stops the
\* timer of a suspended call, or leaves it to somebody else.
THEOREM DeadlinesStay ==
  ASSUME CarefulClose
  PROVE  Spec => DeadlineStays
<1>1. ASSUME Inv, Inv', [Next]_vars
      PROVE  [\A c \in Coros : HasDeadline(c) /\ call'[c] = call[c] => HasDeadline(c)']_vars
  <2>1. ASSUME NEW s \in Socks, SetTimeout(s)
        PROVE  ReadersUntouched /\ RequestsUntouched
    BY <2>1, ReadsUnchanged, ReqsUnchanged DEF SetTimeout, reqVars
  <2>2. CASE Next
    <3>1. ReadersUntouched /\ RequestsUntouched
      BY <1>1, <2>1, <2>2, CallingKeeps, LoopKeeps DEF Next
    <3>2. QED
      BY <1>1, <3>1, DeadlineKept
  <2>3. QED
    BY <1>1, <2>2
<1>2. QED
  BY <1>1, CallsInvariance, PTL DEF Spec, DeadlineStays
=============================================================================
