-------------------------- MODULE TcpSocket_proofs --------------------------
(***************************************************************************)
(* The types of TcpSocket and what they rest on, and the order of its      *)
(* writes: for any number of coroutines, sockets, timers and requests, and *)
(* whatever the program does of what Allow may hold.                       *)
(***************************************************************************)
EXTENDS TcpSocket, FiniteSetTheorems, SequenceTheorems, TLAPS

-----------------------------------------------------------------------------
(* Types *)

CorosTyped ==
  /\ call \in [Coros -> Call \cup {NoCall}]
  /\ last \in Result \cup {NoResult}

SocksTyped ==
  /\ phase \in [Socks -> {"connecting", "open", "closing", "closed"}]
  /\ timed \in [Socks -> BOOLEAN]
  /\ cur \in [Socks -> Coros \cup {NoCoro}]
  /\ rtimer \in [Socks -> Timers \cup {NoTimer}]
  /\ reading \in [Socks -> BOOLEAN]
  /\ shut \in [Socks -> {"open", "shutting", "shut"}]

ReqsTyped ==
  /\ req \in [Reqs -> Request \cup {FreeReq}]
  /\ wq \in [Socks -> Seq(Reqs)]

\* A timer is in the free list only when it was counted.
TimersTyped ==
  /\ timer \in [Timers -> {"heap", "pool", "used", "closing"}]
  /\ armed \in [Timers -> Socks \cup Reqs \cup {NoOwner}]
  /\ nfree \in Nat
  /\ Cardinality(Pool) <= nfree

\* A queue holds the write requests of its own socket, each once.
Queues ==
  \A s \in Socks :
    /\ \A i \in 1 .. Len(wq[s]) :
         /\ req[wq[s][i]].kind \in {"write", "write_async"}
         /\ req[wq[s][i]].sock = s
    /\ \A i, j \in 1 .. Len(wq[s]) : wq[s][i] = wq[s][j] => i = j

\* Somebody waits in every request but those of write_async.
ReqClients ==
  \A r \in Reqs :
    /\ req[r].kind \in {"connect", "write", "shutdown"} => req[r].co \in Coros
    /\ req[r].kind = "write_async" => req[r].co = NoCoro

\* A socket that is used, or that a timer points to, has a current thread.
SockClients ==
  /\ \A s \in Socks : phase[s] # "closed" => cur[s] \in Coros
  /\ \A t \in Timers : armed[t] \in Socks => cur[armed[t]] \in Coros

Typed == CorosTyped /\ SocksTyped /\ ReqsTyped /\ TimersTyped
           /\ Queues /\ ReqClients /\ SockClients

-----------------------------------------------------------------------------
(* What the parts of the actions keep *)

LEMMA PoolFinite == IsFiniteSet(Timers) /\ IsFiniteSet(Pool) /\ Cardinality(Pool) \in Nat
<1>1. IsFiniteSet(Timers) /\ Pool \subseteq Timers
  BY SocketAssumption DEF Pool
<1>2. QED
  BY <1>1, FS_Subset, FS_CardinalityType

LEMMA Amounts == Size \in Nat /\ Size > 0 /\ 0 \in 0 .. Size /\ Size \in 0 .. Size
BY SocketAssumption

\* What luaio_timer_alloc returns is not in use.
LEMMA AllocatableIs ==
  ASSUME NEW t \in Allocatable
  PROVE  t \in Timers /\ timer[t] \in {"pool", "heap"} /\ t # NoTimer
BY SocketAssumption DEF Allocatable, Pool

LEMMA DeadlinesAre ==
  ASSUME NEW s \in Socks, NEW t \in Deadlines(s)
  PROVE  t \in Allocatable \cup {NoTimer}
BY DEF Deadlines

LEMMA StartTimerTyped ==
  ASSUME TimersTyped, NEW t \in Allocatable \cup {NoTimer}, NEW o \in Socks \cup Reqs,
         StartTimer(t, o)
  PROVE  TimersTyped'
<1>1. CASE t = NoTimer
  BY <1>1 DEF StartTimer, TimersTyped, timerVars, Pool
<1>2. CASE t # NoTimer
  <2>1. t \in Timers /\ timer[t] \in {"pool", "heap"}
    BY <1>2, AllocatableIs
  <2>2. /\ nfree' = IF timer[t] = "pool" THEN nfree - 1 ELSE nfree
        /\ timer' = [timer EXCEPT ![t] = "used"]
        /\ armed' = [armed EXCEPT ![t] = o]
    BY <1>2 DEF StartTimer
  <2>3. Pool' = Pool \ {t}
    BY <2>1, <2>2 DEF Pool, TimersTyped
  <2>4. Cardinality(Pool') = IF timer[t] = "pool" THEN Cardinality(Pool) - 1 ELSE Cardinality(Pool)
    <3>1. t \in Pool <=> timer[t] = "pool"
      BY <2>1 DEF Pool
    <3>2. Cardinality(Pool \ {t}) = IF t \in Pool THEN Cardinality(Pool) - 1 ELSE Cardinality(Pool)
      BY PoolFinite, FS_RemoveElement
    <3>3. QED
      BY <2>3, <3>1, <3>2
  <2>5. Cardinality(Pool)' \in Nat
    BY <2>3, PoolFinite, FS_RemoveElement, FS_CardinalityType
  <2>6. nfree' \in Nat /\ Cardinality(Pool)' <= nfree'
    BY <2>2, <2>4, <2>5, PoolFinite DEF TimersTyped
  <2>7. QED
    BY <2>1, <2>2, <2>6 DEF TimersTyped
<1>3. QED
  BY <1>1, <1>2

LEMMA FreeTimerTyped ==
  ASSUME TimersTyped, NEW t \in Timers \cup {NoTimer}, FreeTimer(t)
  PROVE  TimersTyped'
<1>1. CASE t = NoTimer
  BY <1>1 DEF FreeTimer, TimersTyped, timerVars, Pool
<1>2. CASE t # NoTimer /\ nfree < MaxFreeTimers
  <2>1. /\ t \in Timers /\ nfree' = nfree + 1
        /\ timer' = [timer EXCEPT ![t] = "pool"]
        /\ armed' = [armed EXCEPT ![t] = NoOwner]
    BY <1>2, SocketAssumption DEF FreeTimer, TimersTyped
  <2>2. Pool' = Pool \cup {t}
    BY <2>1 DEF Pool, TimersTyped
  <2>3. Cardinality(Pool)' <= Cardinality(Pool) + 1
    <3>1. Cardinality(Pool \cup {t}) = IF t \in Pool THEN Cardinality(Pool) ELSE Cardinality(Pool) + 1
      BY PoolFinite, FS_AddElement
    <3>2. QED
      BY <2>2, <3>1, PoolFinite
  <2>4. Cardinality(Pool)' \in Nat
    BY <2>2, PoolFinite, FS_AddElement, FS_CardinalityType
  <2>5. nfree' \in Nat /\ Cardinality(Pool)' <= nfree'
    BY <2>1, <2>3, <2>4, PoolFinite DEF TimersTyped
  <2>6. QED
    BY <2>1, <2>5 DEF TimersTyped
<1>3. CASE t # NoTimer /\ nfree >= MaxFreeTimers
  <2>1. /\ t \in Timers /\ nfree' = nfree
        /\ timer' = [timer EXCEPT ![t] = "closing"]
        /\ armed' = [armed EXCEPT ![t] = NoOwner]
    BY <1>3, SocketAssumption DEF FreeTimer, TimersTyped
  <2>2. Pool' \subseteq Pool
    BY <2>1 DEF Pool, TimersTyped
  <2>3. Cardinality(Pool)' <= Cardinality(Pool) /\ Cardinality(Pool)' \in Nat
    BY <2>2, PoolFinite, FS_Subset, FS_CardinalityType
  <2>4. nfree' \in Nat /\ Cardinality(Pool)' <= nfree'
    BY <2>1, <2>3, PoolFinite DEF TimersTyped
  <2>5. QED
    BY <2>1, <2>4 DEF TimersTyped
<1>4. QED
  BY <1>1, <1>2, <1>3, SocketAssumption DEF TimersTyped

LEMMA TimersKept == TimersTyped /\ UNCHANGED timerVars => TimersTyped'
BY DEF TimersTyped, timerVars, Pool

LEMMA GivenBackTyped ==
  ASSUME TimersTyped, NEW s \in Socks, TimerGivenBack(s)
  PROVE  TimersTyped'
BY TimersKept, FreeTimerTyped, AllocatableIs DEF TimerGivenBack

\* Which timers point to what after a timer was started or freed.
LEMMA StartTimerArms ==
  ASSUME TimersTyped, NEW t \in Allocatable \cup {NoTimer}, NEW o, StartTimer(t, o),
         NEW u \in Timers
  PROVE  armed'[u] = IF u = t THEN o ELSE armed[u]
BY SocketAssumption DEF StartTimer, TimersTyped, timerVars

LEMMA FreeTimerArms ==
  ASSUME TimersTyped, NEW t \in Timers \cup {NoTimer}, FreeTimer(t), NEW u \in Timers
  PROVE  armed'[u] = IF u = t THEN NoOwner ELSE armed[u]
BY SocketAssumption DEF FreeTimer, TimersTyped, timerVars

LEMMA GivenBackArms ==
  ASSUME TimersTyped, NEW s \in Socks, TimerGivenBack(s), NEW u \in Timers
  PROVE  armed'[u] \in {armed[u], NoOwner}
<1>1. CASE UNCHANGED timerVars
  BY <1>1 DEF timerVars
<1>2. ASSUME NEW t \in Allocatable, FreeTimer(t)
      PROVE  armed'[u] \in {armed[u], NoOwner}
  BY <1>2, AllocatableIs, FreeTimerArms
<1>3. QED
  BY <1>1, <1>2 DEF TimerGivenBack

LEMMA YieldTyped ==
  ASSUME CorosTyped, NEW c \in Coros, NEW op \in Ops, NEW s \in Socks, Yield(c, op, s)
  PROVE  CorosTyped'
BY DEF CorosTyped, Yield, Call

LEMMA ReturnedTyped ==
  ASSUME NEW c \in Coros, NEW op \in Ops, NEW s \in Socks,
         NEW err \in {"ok", "error", "timedout"}, NEW n \in 0 .. Size, NEW k \in 0 .. Size
  PROVE  Returned(c, op, s, err, n, k) \in Result
BY DEF Returned, Result, Call

LEMMA ReturnTyped ==
  ASSUME CorosTyped, NEW c \in Coros, NEW op \in Ops, NEW s \in Socks,
         NEW err \in {"ok", "error", "timedout"}, NEW n \in 0 .. Size, NEW k \in 0 .. Size,
         Return(c, op, s, err, n, k)
  PROVE  CorosTyped'
BY ReturnedTyped DEF CorosTyped, Return

LEMMA ResumeTyped ==
  ASSUME CorosTyped, NEW c \in Coros, NEW op \in Ops, NEW s \in Socks,
         NEW err \in {"ok", "error", "timedout"}, NEW n \in 0 .. Size, NEW k \in 0 .. Size,
         Resume(c, op, s, err, n, k)
  PROVE  CorosTyped'
BY ReturnedTyped DEF CorosTyped, Resume

LEMMA CorosKept == CorosTyped /\ UNCHANGED coroVars => CorosTyped'
BY DEF CorosTyped, coroVars

LEMMA SocksKept == SocksTyped /\ UNCHANGED sockVars => SocksTyped'
BY DEF SocksTyped, sockVars

LEMMA ReqsKept == ReqsTyped /\ UNCHANGED reqVars => ReqsTyped'
BY DEF ReqsTyped, reqVars

LEMMA BeginCloseTyped ==
  ASSUME CorosTyped, SocksTyped, NEW c \in Coros, NEW s \in Socks, BeginClose(c, s)
  PROVE  CorosTyped' /\ SocksTyped'
<1>1. CorosTyped'
  BY YieldTyped DEF BeginClose, Ops
<1>2. SocksTyped'
  BY DEF BeginClose, SocksTyped
<1>3. QED
  BY <1>1, <1>2

LEMMA NewSocketTyped ==
  ASSUME SocksTyped, NEW c \in Coros, NEW s \in Socks,
         NEW ph \in {"connecting", "open", "closing"}, NEW tm \in BOOLEAN,
         NewSocket(c, s, ph, tm)
  PROVE  SocksTyped'
BY DEF NewSocket, SocksTyped

\* A request that is not free.
LEMMA InUse ==
  ASSUME ReqsTyped, NEW r \in Reqs, req[r].kind # "free"
  PROVE  /\ req[r] \in Request /\ req[r].kind \in Kinds /\ req[r].sock \in Socks
         /\ req[r].timer \in Timers \cup {NoTimer} /\ req[r].sent \in 0 .. Size
BY DEF ReqsTyped, FreeReq, Request

\* What leaves the requests that are in a queue as they are leaves the queues.
LEMMA QueuesKept ==
  ASSUME ReqsTyped, Queues, UNCHANGED wq,
         \A r \in Reqs : req[r].kind \in {"write", "write_async"} =>
                           req'[r].kind = req[r].kind /\ req'[r].sock = req[r].sock
  PROVE  Queues'
<1>1. SUFFICES ASSUME NEW s \in Socks
               PROVE  /\ \A i \in 1 .. Len(wq[s]) :
                           /\ req'[wq[s][i]].kind \in {"write", "write_async"}
                           /\ req'[wq[s][i]].sock = s
                      /\ \A i, j \in 1 .. Len(wq[s]) : wq[s][i] = wq[s][j] => i = j
  BY DEF Queues
<1>2. \A i \in 1 .. Len(wq[s]) : wq[s][i] \in Reqs
  BY ElementOfSeq DEF ReqsTyped
<1>3. QED
  BY <1>2 DEF Queues

\* When the sockets in use still have a current thread.
LEMMA SockClientsKept ==
  ASSUME SockClients,
         \A s \in Socks : cur[s] \in Coros => cur'[s] \in Coros,
         \A s \in Socks : phase[s] = "closed" /\ phase'[s] # "closed" => cur'[s] \in Coros,
         \A t \in Timers : armed'[t] \in {armed[t], NoOwner} \cup Reqs
  PROVE  SockClients'
<1>1. ASSUME NEW s \in Socks, phase'[s] # "closed"
      PROVE  cur'[s] \in Coros
  BY <1>1 DEF SockClients
<1>2. ASSUME NEW t \in Timers, armed'[t] \in Socks
      PROVE  cur'[armed'[t]] \in Coros
  <2>1. armed'[t] = armed[t]
    BY <1>2, SocketAssumption
  <2>2. QED
    BY <1>2, <2>1 DEF SockClients
<1>3. QED
  BY <1>1, <1>2 DEF SockClients

\* A request r that is not in a queue becomes q.
LEMMA ReqChanged ==
  ASSUME ReqsTyped, Queues, ReqClients,
         NEW r \in Reqs, NEW q \in Request \cup {FreeReq},
         req[r].kind \notin {"write", "write_async"},
         q.kind \in {"connect", "write", "shutdown"} => q.co \in Coros,
         q.kind # "write_async",
         req' = [req EXCEPT ![r] = q], UNCHANGED wq
  PROVE  ReqsTyped' /\ Queues' /\ ReqClients'
<1>1. \A x \in Reqs : req'[x] = IF x = r THEN q ELSE req[x]
  BY DEF ReqsTyped
<1>2. ReqsTyped'
  BY DEF ReqsTyped
<1>3. Queues'
  BY <1>1, QueuesKept
<1>4. ReqClients'
  BY <1>1 DEF ReqClients
<1>5. QED
  BY <1>2, <1>3, <1>4

\* A request changes only in its timer, its timed_out or what was sent of it.
LEMMA ReqUpdated ==
  ASSUME ReqsTyped, Queues, ReqClients,
         NEW r \in Reqs, NEW q \in Request, req[r].kind # "free",
         q.kind = req[r].kind, q.sock = req[r].sock, q.co = req[r].co,
         req' = [req EXCEPT ![r] = q], UNCHANGED wq
  PROVE  ReqsTyped' /\ Queues' /\ ReqClients'
<1>1. \A x \in Reqs : req'[x] = IF x = r THEN q ELSE req[x]
  BY DEF ReqsTyped
<1>2. ReqsTyped'
  BY DEF ReqsTyped
<1>3. Queues'
  BY <1>1, QueuesKept
<1>4. ReqClients'
  BY <1>1 DEF ReqClients
<1>5. QED
  BY <1>2, <1>3, <1>4

LEMMA ReqsSame ==
  ASSUME ReqsTyped, Queues, ReqClients, UNCHANGED reqVars
  PROVE  ReqsTyped' /\ Queues' /\ ReqClients'
<1>1. UNCHANGED req /\ UNCHANGED wq
  BY DEF reqVars
<1>2. QED
  BY <1>1 DEF ReqsTyped, Queues, ReqClients

\* A free request has no kind of its own.
LEMMA FreeIs == FreeReq.kind = "free" /\ FreeReq.sock = NoOwner /\ FreeReq.co = NoCoro
                  /\ FreeReq.timer = NoTimer /\ FreeReq.timedout = FALSE
BY DEF FreeReq

-----------------------------------------------------------------------------
(* Every action keeps the types *)

LEMMA ConnectTyped ==
  ASSUME Typed, NEW c \in Coros, NEW s \in Socks, NEW tm \in BOOLEAN, Connect(c, s, tm)
  PROVE  Typed'
<1>1. PICK t \in IF tm THEN Allocatable ELSE {NoTimer}, r \in FreeReqs :
        /\ StartTimer(t, r)
        /\ req' = [req EXCEPT ![r] = NewReq("connect", s, c, t, 0)]
  BY DEF Connect
<1>2. /\ NewSocket(c, s, "connecting", tm) /\ Yield(c, "connect", s) /\ UNCHANGED wq
      /\ phase[s] = "closed"
  BY DEF Connect, Unused
<1>3. r \in Reqs /\ req[r].kind = "free" /\ t \in Allocatable \cup {NoTimer}
  BY DEF FreeReqs
<1>4. t \in Timers \cup {NoTimer} /\ 0 \in 0 .. Size /\ "connect" \in Kinds
  <2>1. t \in Timers \cup {NoTimer}
    BY <1>3, AllocatableIs
  <2>2. QED
    BY <2>1, Amounts DEF Kinds
<1>5. ReqsTyped' /\ Queues' /\ ReqClients'
  <2> DEFINE q == NewReq("connect", s, c, t, 0)
  <2>1. q \in Request /\ q.kind = "connect" /\ q.co = c
    BY <1>4 DEF NewReq, Request
  <2> HIDE DEF q
  <2>2. req' = [req EXCEPT ![r] = q]
    BY <1>1 DEF q
  <2>3. QED
    BY <1>2, <1>3, <2>1, <2>2, ReqChanged DEF Typed
<1>6. TimersTyped'
  BY <1>1, <1>3, StartTimerTyped DEF Typed
<1>7. CorosTyped' /\ SocksTyped'
  BY <1>2, YieldTyped, NewSocketTyped DEF Typed, Ops
<1>8. SockClients'
  <2>1. \A x \in Socks : cur'[x] = IF x = s THEN c ELSE cur[x]
    BY <1>2 DEF NewSocket, Typed, SocksTyped
  <2>2. \A x \in Socks : x # s => phase'[x] = phase[x]
    BY <1>2 DEF NewSocket, Typed, SocksTyped
  <2>3. \A u \in Timers : armed'[u] \in {armed[u]} \cup Reqs
    BY <1>1, <1>3, StartTimerArms DEF Typed
  <2>4. QED
    BY <2>1, <2>2, <2>3, SockClientsKept DEF Typed
<1>9. QED
  BY <1>5, <1>6, <1>7, <1>8 DEF Typed

LEMMA ConnectFailsTyped ==
  ASSUME Typed, NEW c \in Coros, NEW s \in Socks, NEW tm \in BOOLEAN, ConnectFails(c, s, tm)
  PROVE  Typed'
<1>1. NewSocket(c, s, "closing", tm) /\ Yield(c, "close", s) /\ UNCHANGED reqVars
  BY DEF ConnectFails
<1>2. ReqsTyped' /\ Queues' /\ ReqClients'
  BY <1>1, ReqsSame DEF Typed
<1>3. TimersTyped' /\ \A u \in Timers : armed'[u] \in {armed[u], NoOwner}
  <2>1. CASE UNCHANGED timerVars
    BY <2>1, TimersKept DEF Typed, timerVars
  <2>2. ASSUME NEW t \in Allocatable, FreeTimer(t)
        PROVE  TimersTyped' /\ \A u \in Timers : armed'[u] \in {armed[u], NoOwner}
    BY <2>2, AllocatableIs, FreeTimerTyped, FreeTimerArms DEF Typed
  <2>3. QED
    BY <2>1, <2>2 DEF ConnectFails
<1>4. CorosTyped' /\ SocksTyped'
  BY <1>1, YieldTyped, NewSocketTyped DEF Typed, Ops
<1>5. SockClients'
  <2>1. \A x \in Socks : cur'[x] = IF x = s THEN c ELSE cur[x]
    BY <1>1 DEF NewSocket, Typed, SocksTyped
  <2>2. \A x \in Socks : x # s => phase'[x] = phase[x]
    BY <1>1 DEF NewSocket, Typed, SocksTyped
  <2>3. QED
    BY <1>3, <2>1, <2>2, SockClientsKept DEF Typed
<1>6. QED
  BY <1>2, <1>3, <1>4, <1>5 DEF Typed

LEMMA AcceptTyped ==
  ASSUME Typed, NEW c \in Coros, NEW s \in Socks, NEW tm \in BOOLEAN, Accept(c, s, tm)
  PROVE  Typed'
<1>1. /\ NewSocket(c, s, "open", tm)
      /\ UNCHANGED coroVars /\ UNCHANGED reqVars /\ UNCHANGED timerVars
  BY DEF Accept
<1>2. ReqsTyped' /\ Queues' /\ ReqClients' /\ TimersTyped' /\ CorosTyped' /\ SocksTyped'
  BY <1>1, ReqsSame, TimersKept, CorosKept, NewSocketTyped DEF Typed
<1>3. SockClients'
  <2>1. \A x \in Socks : cur'[x] = IF x = s THEN c ELSE cur[x]
    BY <1>1 DEF NewSocket, Typed, SocksTyped
  <2>2. \A x \in Socks : x # s => phase'[x] = phase[x]
    BY <1>1 DEF NewSocket, Typed, SocksTyped
  <2>3. \A u \in Timers : armed'[u] = armed[u]
    BY <1>1 DEF timerVars
  <2>4. QED
    BY <2>1, <2>2, <2>3, SockClientsKept DEF Typed
<1>4. QED
  BY <1>2, <1>3 DEF Typed

\* A close begins: nothing but the socket and its new current thread.
LEMMA BeginCloseClients ==
  ASSUME SocksTyped, SockClients, NEW c \in Coros, NEW s \in Socks, BeginClose(c, s),
         \A u \in Timers : armed'[u] \in {armed[u], NoOwner}
  PROVE  SockClients'
<1>1. /\ \A x \in Socks : cur'[x] = IF x = s THEN c ELSE cur[x]
      /\ \A x \in Socks : x # s => phase'[x] = phase[x]
  BY DEF BeginClose, SocksTyped
<1>2. QED
  BY <1>1, SockClientsKept

\* Sockets that keep their thread and are not taken into use.
LEMMA SocksKeepClients ==
  ASSUME SockClients, UNCHANGED cur,
         \A x \in Socks : phase[x] = "closed" => phase'[x] = "closed",
         \A u \in Timers : armed'[u] \in {armed[u], NoOwner} \cup Reqs
  PROVE  SockClients'
BY SockClientsKept

LEMMA OnConnectTyped ==
  ASSUME Typed, NEW r \in Reqs, OnConnect(r)
  PROVE  Typed'
<1> DEFINE s == req[r].sock
           c == req[r].co
<1>1. /\ req[r].kind = "connect" /\ FreeTimer(req[r].timer)
      /\ req' = [req EXCEPT ![r] = FreeReq] /\ UNCHANGED wq
  BY DEF OnConnect
<1>2. s \in Socks /\ c \in Coros /\ req[r].timer \in Timers \cup {NoTimer}
  BY <1>1, InUse DEF Typed, ReqClients
<1>3. ReqsTyped' /\ Queues' /\ ReqClients'
  BY <1>1, FreeIs, ReqChanged DEF Typed
<1>4. TimersTyped' /\ \A u \in Timers : armed'[u] \in {armed[u], NoOwner}
  BY <1>1, <1>2, FreeTimerTyped, FreeTimerArms DEF Typed
<1>5. CorosTyped' /\ SocksTyped' /\ SockClients'
  <2>1. CASE UNCHANGED <<coroVars, sockVars>>
    BY <1>4, <2>1, CorosKept, SocksKept, SocksKeepClients DEF Typed, sockVars
  <2>2. CASE /\ phase[s] = "connecting"
             /\ phase' = [phase EXCEPT ![s] = "open"]
             /\ Resume(c, "connect", s, "ok", 0, 0)
             /\ UNCHANGED <<timed, cur, rtimer, reading, shut>>
    <3>1. CorosTyped'
      BY <1>2, <2>2, ResumeTyped, Amounts DEF Typed, Ops
    <3>2. SocksTyped'
      BY <1>2, <2>2 DEF Typed, SocksTyped
    <3>3. \A x \in Socks : phase[x] = "closed" => phase'[x] = "closed"
      BY <1>2, <2>2 DEF Typed, SocksTyped
    <3>4. QED
      BY <1>4, <2>2, <3>1, <3>2, <3>3, SocksKeepClients DEF Typed
  <2>3. CASE BeginClose(c, s)
    BY <1>2, <1>4, <2>3, BeginCloseTyped, BeginCloseClients DEF Typed
  <2>4. QED
    BY <2>1, <2>2, <2>3 DEF OnConnect
<1>6. QED
  BY <1>3, <1>4, <1>5 DEF Typed

LEMMA ConnectTimeoutTyped ==
  ASSUME Typed, NEW t \in Timers, ConnectTimeout(t)
  PROVE  Typed'
<1> DEFINE r == armed[t]
           q == [req[r] EXCEPT !.timer = NoTimer, !.timedout = TRUE]
<1>1. /\ r \in Reqs /\ req[r].kind = "connect" /\ FreeTimer(t)
      /\ BeginClose(req[r].co, req[r].sock) /\ UNCHANGED wq
      /\ req' = [req EXCEPT ![r] = q]
  BY DEF ConnectTimeout, Typed, ReqsTyped
<1>2. req[r].sock \in Socks /\ req[r].co \in Coros /\ req[r] \in Request
  BY <1>1, InUse DEF Typed, ReqClients
<1>3. /\ q \in Request /\ q.kind = req[r].kind /\ q.sock = req[r].sock /\ q.co = req[r].co
  BY <1>2 DEF Request
<1>4. ReqsTyped' /\ Queues' /\ ReqClients'
  BY <1>1, <1>3, ReqUpdated DEF Typed
<1>5. TimersTyped' /\ \A u \in Timers : armed'[u] \in {armed[u], NoOwner}
  BY <1>1, FreeTimerTyped, FreeTimerArms DEF Typed
<1>6. QED
  BY <1>1, <1>2, <1>4, <1>5, BeginCloseTyped, BeginCloseClients DEF Typed

LEMMA SetTimeoutTyped ==
  ASSUME Typed, NEW s \in Socks, SetTimeout(s)
  PROVE  Typed'
<1>1. /\ timed' = [timed EXCEPT ![s] = ~timed[s]]
      /\ UNCHANGED coroVars /\ UNCHANGED reqVars /\ UNCHANGED timerVars
      /\ UNCHANGED <<phase, cur, rtimer, reading, shut>>
  BY DEF SetTimeout
<1>2. ReqsTyped' /\ Queues' /\ ReqClients' /\ TimersTyped' /\ CorosTyped'
  BY <1>1, ReqsSame, TimersKept, CorosKept DEF Typed
<1>3. SocksTyped'
  BY <1>1 DEF Typed, SocksTyped
<1>4. SockClients'
  BY <1>1, SocksKeepClients DEF Typed, timerVars
<1>5. QED
  BY <1>2, <1>3, <1>4 DEF Typed

LEMMA FailsTyped ==
  ASSUME Typed, NEW c \in Coros, NEW op \in Ops, NEW s \in Socks, NEW n \in 0 .. Size,
         Fails(c, op, s, n)
  PROVE  Typed'
<1>1. /\ Return(c, op, s, "error", n, n) /\ TimerGivenBack(s)
      /\ UNCHANGED sockVars /\ UNCHANGED reqVars
  BY DEF Fails
<1>2. /\ ReqsTyped' /\ Queues' /\ ReqClients' /\ TimersTyped'
      /\ CorosTyped' /\ SocksTyped'
  BY <1>1, ReqsSame, GivenBackTyped, ReturnTyped, SocksKept DEF Typed
<1>3. SockClients'
  BY <1>1, GivenBackArms, SocksKeepClients DEF Typed, sockVars
<1>4. QED
  BY <1>2, <1>3 DEF Typed

LEMMA ReadTyped ==
  ASSUME Typed, NEW c \in Coros, NEW s \in Socks, Read(c, s)
  PROVE  Typed'
<1>1. PICK t \in Deadlines(s) : StartTimer(t, s) /\ rtimer' = [rtimer EXCEPT ![s] = t]
  BY DEF Read
<1>2. /\ reading' = [reading EXCEPT ![s] = TRUE] /\ cur' = [cur EXCEPT ![s] = c]
      /\ Yield(c, "read", s) /\ UNCHANGED <<phase, timed, shut>> /\ UNCHANGED reqVars
  BY DEF Read
<1>3. t \in Allocatable \cup {NoTimer} /\ t \in Timers \cup {NoTimer}
  BY DeadlinesAre, AllocatableIs
<1>4. ReqsTyped' /\ Queues' /\ ReqClients' /\ TimersTyped' /\ CorosTyped'
  BY <1>1, <1>2, <1>3, ReqsSame, StartTimerTyped, YieldTyped DEF Typed, Ops
<1>5. SocksTyped'
  BY <1>1, <1>2, <1>3 DEF Typed, SocksTyped
<1>6. SockClients'
  <2>1. \A x \in Socks : cur'[x] = IF x = s THEN c ELSE cur[x]
    BY <1>2 DEF Typed, SocksTyped
  <2>2. ASSUME NEW u \in Timers, armed'[u] \in Socks
        PROVE  cur'[armed'[u]] \in Coros
    <3>1. armed'[u] \in {s, armed[u]}
      BY <1>1, <1>3, StartTimerArms DEF Typed
    <3>2. QED
      BY <2>1, <2>2, <3>1 DEF Typed, SockClients
  <2>3. QED
    BY <1>2, <2>1, <2>2 DEF Typed, SockClients
<1>7. QED
  BY <1>4, <1>5, <1>6 DEF Typed

LEMMA OnReadTyped ==
  ASSUME Typed, NEW s \in Socks, OnRead(s)
  PROVE  Typed'
<1>1. /\ phase[s] = "open" /\ reading' = [reading EXCEPT ![s] = FALSE]
      /\ FreeTimer(rtimer[s]) /\ UNCHANGED <<phase, timed, cur, rtimer, shut>>
      /\ UNCHANGED reqVars
  BY DEF OnRead
<1>2. rtimer[s] \in Timers \cup {NoTimer} /\ cur[s] \in Coros
  BY <1>1 DEF Typed, SocksTyped, SockClients
<1>3. PICK err \in {"ok", "error"} : Resume(cur[s], "read", s, err, 0, 0)
  BY DEF OnRead
<1>4. CorosTyped'
  BY <1>2, <1>3, ResumeTyped, Amounts DEF Typed, Ops
<1>5. ReqsTyped' /\ Queues' /\ ReqClients' /\ TimersTyped' /\ SocksTyped'
  <2>1. SocksTyped'
    BY <1>1 DEF Typed, SocksTyped
  <2>2. QED
    BY <1>1, <1>2, <2>1, ReqsSame, FreeTimerTyped DEF Typed
<1>6. SockClients'
  BY <1>1, <1>2, FreeTimerArms, SocksKeepClients DEF Typed
<1>7. QED
  BY <1>4, <1>5, <1>6 DEF Typed

LEMMA ReadTimeoutTyped ==
  ASSUME Typed, NEW t \in Timers, ReadTimeout(t)
  PROVE  Typed'
<1> DEFINE s == armed[t]
<1>1. /\ s \in Socks /\ reading' = [reading EXCEPT ![s] = FALSE] /\ FreeTimer(t)
      /\ Resume(cur[s], "read", s, "timedout", 0, 0)
      /\ UNCHANGED <<phase, timed, cur, rtimer, shut>> /\ UNCHANGED reqVars
  BY DEF ReadTimeout
<1>2. cur[s] \in Coros
  BY <1>1 DEF Typed, SockClients
<1>3. CorosTyped'
  BY <1>1, <1>2, ResumeTyped, Amounts DEF Typed, Ops
<1>4. SocksTyped'
  BY <1>1 DEF Typed, SocksTyped
<1>5. ReqsTyped' /\ Queues' /\ ReqClients' /\ TimersTyped'
  BY <1>1, ReqsSame, FreeTimerTyped DEF Typed
<1>6. SockClients'
  BY <1>1, FreeTimerArms, SocksKeepClients DEF Typed
<1>7. QED
  BY <1>3, <1>4, <1>5, <1>6 DEF Typed

\* A write request joins the queue of its socket.
LEMMA EnqueueTyped ==
  ASSUME TimersTyped, ReqsTyped, Queues, ReqClients, NEW r \in FreeReqs, NEW s \in Socks,
         NEW k \in {"write", "write_async"}, NEW c \in Coros \cup {NoCoro},
         k = "write" => c \in Coros, k = "write_async" => c = NoCoro,
         NEW t \in Allocatable \cup {NoTimer}, NEW n \in 0 .. Size,
         Enqueue(r, s, k, c, t, n)
  PROVE  /\ TimersTyped' /\ ReqsTyped' /\ Queues' /\ ReqClients'
         /\ \A u \in Timers : armed'[u] \in {armed[u]} \cup Reqs
<1> DEFINE q == NewReq(k, s, c, t, n)
<1>1. /\ StartTimer(t, r) /\ req' = [req EXCEPT ![r] = q]
      /\ wq' = [wq EXCEPT ![s] = Append(wq[s], r)]
      /\ r \in Reqs /\ req[r].kind = "free" /\ k \in Kinds
  BY DEF Enqueue, FreeReqs, Kinds
<1>2. t \in Timers \cup {NoTimer}
  BY AllocatableIs
<1>3. q \in Request /\ q.kind = k /\ q.sock = s /\ q.co = c
  BY <1>1, <1>2 DEF NewReq, Request
<1> HIDE DEF q
<1>4. TimersTyped' /\ \A u \in Timers : armed'[u] \in {armed[u]} \cup Reqs
  BY <1>1, StartTimerTyped, StartTimerArms
<1>5. \A x \in Reqs : req'[x] = IF x = r THEN q ELSE req[x]
  BY <1>1 DEF ReqsTyped
<1>6. wq[s] \in Seq(Reqs) /\ Append(wq[s], r) \in Seq(Reqs)
  BY <1>1, AppendProperties DEF ReqsTyped
<1>7. ReqsTyped'
  BY <1>1, <1>3, <1>6 DEF ReqsTyped
<1>8. ReqClients'
  BY <1>3, <1>5 DEF ReqClients
<1>9. Queues'
  <2>1. ASSUME NEW x \in Socks, x # s
        PROVE  /\ wq'[x] = wq[x]
               /\ \A i \in 1 .. Len(wq[x]) : wq[x][i] \in Reqs /\ wq[x][i] # r
    <3>1. wq'[x] = wq[x] /\ wq[x] \in Seq(Reqs)
      BY <1>1, <2>1 DEF ReqsTyped
    <3>2. QED
      BY <1>1, <3>1, ElementOfSeq DEF Queues
  <2>2. /\ Len(wq'[s]) = Len(wq[s]) + 1 /\ Len(wq[s]) \in Nat
        /\ wq'[s][Len(wq[s]) + 1] = r
        /\ \A i \in 1 .. Len(wq[s]) : /\ wq'[s][i] = wq[s][i]
                                      /\ wq[s][i] \in Reqs /\ wq[s][i] # r
    <3>1. wq'[s] = Append(wq[s], r)
      BY <1>1 DEF ReqsTyped
    <3>2. \A i \in 1 .. Len(wq[s]) : wq[s][i] \in Reqs /\ wq[s][i] # r
      BY <1>1, <1>6, ElementOfSeq DEF Queues
    <3>3. QED
      BY <1>1, <1>6, <3>1, <3>2, AppendProperties, LenProperties
  <2>3. ASSUME NEW x \in Socks, x # s
        PROVE  /\ \A i \in 1 .. Len(wq'[x]) : /\ req'[wq'[x][i]].kind \in {"write", "write_async"}
                                              /\ req'[wq'[x][i]].sock = x
               /\ \A i, j \in 1 .. Len(wq'[x]) : wq'[x][i] = wq'[x][j] => i = j
    <3>1. wq'[x] = wq[x] /\ \A i \in 1 .. Len(wq[x]) : wq[x][i] \in Reqs /\ wq[x][i] # r
      BY <2>1, <2>3
    <3>2. \A i \in 1 .. Len(wq[x]) : req'[wq[x][i]] = req[wq[x][i]]
      BY <1>5, <3>1
    <3>3. \A i \in 1 .. Len(wq'[x]) : /\ req'[wq'[x][i]].kind \in {"write", "write_async"}
                                      /\ req'[wq'[x][i]].sock = x
      BY <3>1, <3>2 DEF Queues
    <3>4. \A i, j \in 1 .. Len(wq'[x]) : wq'[x][i] = wq'[x][j] => i = j
      BY <3>1 DEF Queues
    <3>5. QED
      BY <3>3, <3>4
  <2>4. \A i \in 1 .. Len(wq'[s]) : /\ req'[wq'[s][i]].kind \in {"write", "write_async"}
                                    /\ req'[wq'[s][i]].sock = s
    <3>1. ASSUME NEW i \in 1 .. Len(wq'[s])
          PROVE  i = Len(wq[s]) + 1 \/ i \in 1 .. Len(wq[s])
      BY <2>2
    <3>2. QED
      BY <1>1, <1>3, <1>5, <2>2, <3>1 DEF Queues
  <2>5. ASSUME NEW i \in 1 .. Len(wq'[s]), NEW j \in 1 .. Len(wq'[s]), wq'[s][i] = wq'[s][j]
        PROVE  i = j
    <3>1. /\ i = Len(wq[s]) + 1 \/ i \in 1 .. Len(wq[s])
          /\ j = Len(wq[s]) + 1 \/ j \in 1 .. Len(wq[s])
      BY <2>2
    <3>2. CASE i \in 1 .. Len(wq[s]) /\ j \in 1 .. Len(wq[s])
      <4>1. wq[s][i] = wq[s][j]
        BY <2>2, <2>5, <3>2
      <4>2. QED
        BY <3>2, <4>1 DEF Queues
    <3>3. CASE i = Len(wq[s]) + 1 \/ j = Len(wq[s]) + 1
      BY <2>2, <2>5, <3>1, <3>3
    <3>4. QED
      BY <3>1, <3>2, <3>3
  <2>6. QED
    BY <2>3, <2>4, <2>5 DEF Queues
<1>10. QED
  BY <1>4, <1>7, <1>8, <1>9

\* What uv_try_write takes.
LEMMA TakenAmounts ==
  ASSUME NEW s \in Socks, NEW n \in Taken(s)
  PROVE  n \in 0 .. Size
BY Amounts DEF Taken

LEMMA WriteTyped ==
  ASSUME Typed, NEW c \in Coros, NEW s \in Socks, Write(c, s)
  PROVE  Typed'
<1>1. UNCHANGED sockVars /\ SocksTyped'
  BY SocksKept DEF Write, Typed
<1>2. PICK n \in Taken(s) :
        \/ n = Size /\ Return(c, "write", s, "ok", n, n) /\ UNCHANGED <<reqVars, timerVars>>
        \/ /\ \E t \in Deadlines(s), r \in FreeReqs : Enqueue(r, s, "write", c, t, n)
           /\ Yield(c, "write", s)
  BY DEF Write
<1>3. n \in 0 .. Size
  BY TakenAmounts
<1>4. CASE Return(c, "write", s, "ok", n, n) /\ UNCHANGED <<reqVars, timerVars>>
  <2>1. CorosTyped'
    BY <1>3, <1>4, ReturnTyped DEF Typed, Ops
  <2>2. ReqsTyped' /\ Queues' /\ ReqClients' /\ TimersTyped'
    BY <1>4, ReqsSame, TimersKept DEF Typed
  <2>3. SockClients'
    BY <1>1, <1>4, SocksKeepClients DEF Typed, sockVars, timerVars
  <2>4. QED
    BY <1>1, <2>1, <2>2, <2>3 DEF Typed
<1>5. ASSUME NEW t \in Deadlines(s), NEW r \in FreeReqs,
             Enqueue(r, s, "write", c, t, n), Yield(c, "write", s)
      PROVE  Typed'
  <2>1. t \in Allocatable \cup {NoTimer}
    BY DeadlinesAre
  <2>2. /\ TimersTyped' /\ ReqsTyped' /\ Queues' /\ ReqClients'
        /\ \A u \in Timers : armed'[u] \in {armed[u]} \cup Reqs
    BY <1>3, <1>5, <2>1, EnqueueTyped DEF Typed
  <2>3. CorosTyped'
    BY <1>5, YieldTyped DEF Typed, Ops
  <2>4. SockClients'
    BY <1>1, <2>2, SocksKeepClients DEF Typed, sockVars
  <2>5. QED
    BY <1>1, <2>2, <2>3, <2>4 DEF Typed
<1>6. QED
  BY <1>2, <1>4, <1>5

LEMMA WriteAsyncTyped ==
  ASSUME Typed, NEW c \in Coros, NEW s \in Socks, WriteAsync(c, s)
  PROVE  Typed'
<1>1. UNCHANGED sockVars /\ SocksTyped'
  BY SocksKept DEF WriteAsync, Typed
<1>2. PICK n \in Taken(s) :
        /\ Return(c, "write_async", s, "ok", Size, n)
        /\ \/ UNCHANGED <<reqVars, timerVars>>
           \/ \E t \in Deadlines(s), r \in FreeReqs : Enqueue(r, s, "write_async", NoCoro, t, n)
  BY DEF WriteAsync
<1>3. n \in 0 .. Size
  BY TakenAmounts
<1>4. CorosTyped'
  BY <1>2, <1>3, Amounts, ReturnTyped DEF Typed, Ops
<1>5. CASE UNCHANGED <<reqVars, timerVars>>
  <2>1. ReqsTyped' /\ Queues' /\ ReqClients' /\ TimersTyped'
    BY <1>5, ReqsSame, TimersKept DEF Typed
  <2>2. SockClients'
    BY <1>1, <1>5, SocksKeepClients DEF Typed, sockVars, timerVars
  <2>3. QED
    BY <1>1, <1>4, <2>1, <2>2 DEF Typed
<1>6. ASSUME NEW t \in Deadlines(s), NEW r \in FreeReqs,
             Enqueue(r, s, "write_async", NoCoro, t, n)
      PROVE  Typed'
  <2>1. t \in Allocatable \cup {NoTimer}
    BY DeadlinesAre
  <2>2. /\ TimersTyped' /\ ReqsTyped' /\ Queues' /\ ReqClients'
        /\ \A u \in Timers : armed'[u] \in {armed[u]} \cup Reqs
    BY <1>3, <1>6, <2>1, EnqueueTyped DEF Typed
  <2>3. SockClients'
    BY <1>1, <2>2, SocksKeepClients DEF Typed, sockVars
  <2>4. QED
    BY <1>1, <1>4, <2>2, <2>3 DEF Typed
<1>7. QED
  BY <1>2, <1>5, <1>6

LEMMA WriteFailsTyped ==
  ASSUME Typed, NEW c \in Coros, NEW s \in Socks, WriteFails(c, s)
  PROVE  Typed'
<1>1. PICK op \in {"write"} \cup (Allow \cap {WritesAsync}), n \in Taken(s) \ {Size} :
        Fails(c, op, s, n)
  BY DEF WriteFails
<1>2. op \in Ops /\ n \in 0 .. Size
  BY TakenAmounts DEF Ops, WritesAsync
<1>3. QED
  BY <1>1, <1>2, FailsTyped

LEMMA KernelSendTyped ==
  ASSUME Typed, NEW s \in Socks, KernelSend(s)
  PROVE  Typed'
<1>1. PICK i \in 1 .. Len(wq[s]) :
        /\ req[wq[s][i]].sent < Size
        /\ \E n \in (req[wq[s][i]].sent + 1) .. Size : req' = [req EXCEPT ![wq[s][i]].sent = n]
  BY DEF KernelSend
<1> DEFINE r == wq[s][i]
<1>2. r \in Reqs /\ req[r].kind \in {"write", "write_async"}
  BY ElementOfSeq DEF Typed, ReqsTyped, Queues
<1>3. req[r] \in Request /\ req[r].sent \in 0 .. Size
  BY <1>2, InUse DEF Typed
<1> HIDE DEF r
<1>4. PICK n \in (req[r].sent + 1) .. Size : req' = [req EXCEPT ![r].sent = n]
  BY <1>1 DEF r
<1>5. n \in 0 .. Size
  BY <1>3, Amounts
<1> DEFINE q == [req[r] EXCEPT !.sent = n]
<1>6. q \in Request /\ q.kind = req[r].kind /\ q.sock = req[r].sock /\ q.co = req[r].co
  BY <1>3, <1>5 DEF Request
<1>7. req' = [req EXCEPT ![r] = q]
  BY <1>2, <1>4 DEF Typed, ReqsTyped
<1> HIDE DEF q
<1>8. /\ UNCHANGED coroVars /\ UNCHANGED sockVars /\ UNCHANGED wq /\ UNCHANGED timerVars
  BY DEF KernelSend
<1>9. ReqsTyped' /\ Queues' /\ ReqClients'
  BY <1>2, <1>6, <1>7, <1>8, ReqUpdated DEF Typed
<1>10. CorosTyped' /\ SocksTyped' /\ TimersTyped'
  BY <1>8, CorosKept, SocksKept, TimersKept DEF Typed
<1>11. SockClients'
  BY <1>8, SocksKeepClients DEF Typed, sockVars, timerVars
<1>12. QED
  BY <1>9, <1>10, <1>11 DEF Typed

LEMMA AfterWriteTyped ==
  ASSUME Typed, NEW s \in Socks, AfterWrite(s)
  PROVE  Typed'
<1> DEFINE r == Head(wq[s])
           q == req[r]
<1>1. /\ wq[s] # <<>>
      /\ wq' = [wq EXCEPT ![s] = Tail(wq[s])]
      /\ req' = [req EXCEPT ![r] = FreeReq]
      /\ FreeTimer(q.timer) /\ UNCHANGED sockVars
      /\ \/ (q.timedout \/ q.kind = "write_async") /\ UNCHANGED coroVars
         \/ ~(q.timedout \/ q.kind = "write_async") /\ Resume(q.co, "write", s, "ok", Size, q.sent)
         \/ ~(q.timedout \/ q.kind = "write_async") /\ Resume(q.co, "write", s, "error", 0, q.sent)
  BY DEF AfterWrite, Finish
<1>2. /\ wq[s] \in Seq(Reqs) /\ Len(wq[s]) \in Nat /\ Len(wq[s]) > 0 /\ r = wq[s][1]
      /\ Tail(wq[s]) \in Seq(Reqs) /\ Len(Tail(wq[s])) = Len(wq[s]) - 1
      /\ \A i \in 1 .. Len(Tail(wq[s])) : Tail(wq[s])[i] = wq[s][i + 1]
  BY <1>1, HeadTailProperties, EmptySeq, LenProperties DEF Typed, ReqsTyped
<1>3. r \in Reqs /\ q.kind \in {"write", "write_async"} /\ q.sock = s
  BY <1>2, ElementOfSeq DEF Typed, Queues
<1>4. q.timer \in Timers \cup {NoTimer} /\ q.sent \in 0 .. Size
  BY <1>3, InUse DEF Typed
<1> HIDE DEF r
<1>5. \A x \in Reqs : req'[x] = IF x = r THEN FreeReq ELSE req[x]
  BY <1>1 DEF Typed, ReqsTyped
<1>6. CorosTyped'
  <2>1. CASE UNCHANGED coroVars
    BY <2>1, CorosKept DEF Typed
  <2>2. CASE ~UNCHANGED coroVars
    <3>1. q.co \in Coros /\ \E err \in {"ok", "error"}, n \in {0, Size} : Resume(q.co, "write", s, err, n, q.sent)
      BY <1>1, <1>3, <2>2 DEF Typed, ReqClients
    <3>2. QED
      BY <1>4, <3>1, Amounts, ResumeTyped DEF Typed, Ops
  <2>3. QED
    BY <2>1, <2>2
<1>7. SocksTyped' /\ TimersTyped'
  BY <1>1, <1>4, SocksKept, FreeTimerTyped DEF Typed
<1>8. SockClients'
  BY <1>1, <1>4, FreeTimerArms, SocksKeepClients DEF Typed, sockVars
<1>9. ReqsTyped' /\ ReqClients'
  <2>1. ReqsTyped'
    BY <1>1, <1>2, <1>3 DEF Typed, ReqsTyped
  <2>2. ReqClients'
    BY <1>5, FreeIs DEF Typed, ReqClients
  <2>3. QED
    BY <2>1, <2>2
<1>10. Queues'
  <2>1. ASSUME NEW x \in Socks, x # s
        PROVE  /\ wq'[x] = wq[x]
               /\ \A i \in 1 .. Len(wq[x]) : wq[x][i] \in Reqs /\ wq[x][i] # r
    <3>1. wq'[x] = wq[x] /\ wq[x] \in Seq(Reqs)
      BY <1>1, <2>1 DEF Typed, ReqsTyped
    <3>2. QED
      BY <1>3, <2>1, <3>1, ElementOfSeq DEF Typed, Queues
  <2>2. ASSUME NEW x \in Socks, x # s
        PROVE  /\ \A i \in 1 .. Len(wq'[x]) : /\ req'[wq'[x][i]].kind \in {"write", "write_async"}
                                              /\ req'[wq'[x][i]].sock = x
               /\ \A i, j \in 1 .. Len(wq'[x]) : wq'[x][i] = wq'[x][j] => i = j
    <3>1. wq'[x] = wq[x] /\ \A i \in 1 .. Len(wq[x]) : wq[x][i] \in Reqs /\ wq[x][i] # r
      BY <2>1, <2>2
    <3>2. \A i \in 1 .. Len(wq[x]) : req'[wq[x][i]] = req[wq[x][i]]
      BY <1>5, <3>1
    <3>3. QED
      BY <3>1, <3>2 DEF Typed, Queues
  <2>3. /\ wq'[s] = Tail(wq[s])
        /\ \A i \in 1 .. Len(wq'[s]) : i + 1 \in 1 .. Len(wq[s]) /\ wq'[s][i] = wq[s][i + 1]
    <3>1. wq'[s] = Tail(wq[s])
      BY <1>1 DEF Typed, ReqsTyped
    <3>2. \A i \in 1 .. Len(Tail(wq[s])) : i + 1 \in 1 .. Len(wq[s])
      BY <1>2
    <3>3. QED
      BY <1>2, <3>1, <3>2
  <2>4. \A i, j \in 1 .. Len(wq[s]) : wq[s][i] = wq[s][j] => i = j
    BY DEF Typed, Queues
  <2>5. \A i, j \in 1 .. Len(wq'[s]) : wq'[s][i] = wq'[s][j] => i = j
    <3>1. ASSUME NEW i \in 1 .. Len(wq'[s]), NEW j \in 1 .. Len(wq'[s]), wq'[s][i] = wq'[s][j]
          PROVE  i = j
      <4>1. i + 1 = j + 1
        BY <2>3, <2>4, <3>1
      <4>2. QED
        BY <4>1
    <3>2. QED
      BY <3>1
  <2>6. ASSUME NEW i \in 1 .. Len(wq'[s])
        PROVE  /\ req'[wq'[s][i]].kind \in {"write", "write_async"}
               /\ req'[wq'[s][i]].sock = s
    <3>1. i + 1 \in 1 .. Len(wq[s]) /\ wq'[s][i] = wq[s][i + 1] /\ 1 \in 1 .. Len(wq[s]) /\ i + 1 # 1
      BY <1>2, <2>3
    <3>2. wq[s][i + 1] # r /\ wq[s][i + 1] \in Reqs
      BY <1>2, <2>4, <3>1, ElementOfSeq
    <3>3. QED
      BY <1>5, <3>1, <3>2 DEF Typed, Queues
  <2>7. QED
    BY <2>2, <2>5, <2>6 DEF Queues
<1>11. QED
  BY <1>6, <1>7, <1>8, <1>9, <1>10 DEF Typed

LEMMA WriteTimeoutTyped ==
  ASSUME Typed, NEW t \in Timers, WriteTimeout(t)
  PROVE  Typed'
<1> DEFINE r == armed[t]
<1>1. r \in Reqs /\ FreeTimer(t) /\ UNCHANGED sockVars /\ UNCHANGED wq
  BY DEF WriteTimeout
<1>2. TimersTyped' /\ SocksTyped' /\ SockClients'
  BY <1>1, FreeTimerTyped, SocksKept, FreeTimerArms, SocksKeepClients DEF Typed, sockVars
<1>3. CASE /\ req[r].kind = "write"
           /\ req' = [req EXCEPT ![r].timer = NoTimer, ![r].timedout = TRUE]
           /\ Resume(req[r].co, "write", req[r].sock, "timedout", 0, req[r].sent)
  <2> DEFINE q == [req[r] EXCEPT !.timer = NoTimer, !.timedout = TRUE]
  <2>1. /\ req[r] \in Request /\ req[r].sock \in Socks /\ req[r].sent \in 0 .. Size
        /\ req[r].co \in Coros
    BY <1>1, <1>3, InUse DEF Typed, ReqClients
  <2>2. q \in Request /\ q.kind = req[r].kind /\ q.sock = req[r].sock /\ q.co = req[r].co
    BY <2>1 DEF Request
  <2>3. req' = [req EXCEPT ![r] = q]
    BY <1>1, <1>3 DEF Typed, ReqsTyped
  <2> HIDE DEF q
  <2>4. ReqsTyped' /\ Queues' /\ ReqClients'
    BY <1>1, <1>3, <2>2, <2>3, ReqUpdated DEF Typed
  <2>5. CorosTyped'
    BY <1>3, <2>1, Amounts, ResumeTyped DEF Typed, Ops
  <2>6. QED
    BY <1>2, <2>4, <2>5 DEF Typed
<1>4. CASE /\ req[r].kind = "write_async"
           /\ req' = [req EXCEPT ![r].timer = NoTimer]
           /\ UNCHANGED coroVars
  <2> DEFINE q == [req[r] EXCEPT !.timer = NoTimer]
  <2>1. req[r] \in Request
    BY <1>1, <1>4, InUse DEF Typed
  <2>2. q \in Request /\ q.kind = req[r].kind /\ q.sock = req[r].sock /\ q.co = req[r].co
    BY <2>1 DEF Request
  <2>3. req' = [req EXCEPT ![r] = q]
    BY <1>1, <1>4 DEF Typed, ReqsTyped
  <2> HIDE DEF q
  <2>4. ReqsTyped' /\ Queues' /\ ReqClients'
    BY <1>1, <1>4, <2>2, <2>3, ReqUpdated DEF Typed
  <2>5. CorosTyped'
    BY <1>4, CorosKept DEF Typed
  <2>6. QED
    BY <1>2, <2>4, <2>5 DEF Typed
<1>5. QED
  BY <1>3, <1>4 DEF WriteTimeout

LEMMA ShutdownTyped ==
  ASSUME Typed, NEW c \in Coros, NEW s \in Socks, Shutdown(c, s)
  PROVE  Typed'
<1>1. PICK r \in FreeReqs : req' = [req EXCEPT ![r] = NewReq("shutdown", s, c, NoTimer, 0)]
  BY DEF Shutdown
<1>2. /\ shut' = [shut EXCEPT ![s] = "shutting"] /\ Yield(c, "shutdown", s)
      /\ UNCHANGED <<phase, timed, cur, rtimer, reading>> /\ UNCHANGED wq /\ UNCHANGED timerVars
  BY DEF Shutdown
<1>3. r \in Reqs /\ req[r].kind = "free"
  BY DEF FreeReqs
<1>4. ReqsTyped' /\ Queues' /\ ReqClients'
  <2> DEFINE q == NewReq("shutdown", s, c, NoTimer, 0)
  <2>1. q \in Request /\ q.kind = "shutdown" /\ q.co = c
    BY Amounts DEF NewReq, Request, Kinds
  <2> HIDE DEF q
  <2>2. req' = [req EXCEPT ![r] = q]
    BY <1>1 DEF q
  <2>3. QED
    BY <1>2, <1>3, <2>1, <2>2, ReqChanged DEF Typed
<1>5. SocksTyped'
  BY <1>2 DEF Typed, SocksTyped
<1>6. CorosTyped' /\ TimersTyped' /\ SockClients'
  BY <1>2, YieldTyped, TimersKept, SocksKeepClients DEF Typed, Ops, timerVars
<1>7. QED
  BY <1>4, <1>5, <1>6 DEF Typed

LEMMA ShutdownFailsTyped ==
  ASSUME Typed, NEW c \in Coros, NEW s \in Socks, ShutdownFails(c, s)
  PROVE  Typed'
<1>1. /\ Return(c, "shutdown", s, "error", 0, 0)
      /\ UNCHANGED sockVars /\ UNCHANGED reqVars /\ UNCHANGED timerVars
  BY DEF ShutdownFails
<1>2. CorosTyped' /\ SocksTyped' /\ TimersTyped' /\ ReqsTyped' /\ Queues' /\ ReqClients'
  BY <1>1, ReturnTyped, Amounts, SocksKept, TimersKept, ReqsSame DEF Typed, Ops
<1>3. SockClients'
  BY <1>1, SocksKeepClients DEF Typed, sockVars, timerVars
<1>4. QED
  BY <1>2, <1>3 DEF Typed

LEMMA AfterShutdownTyped ==
  ASSUME Typed, NEW r \in Reqs, AfterShutdown(r)
  PROVE  Typed'
<1> DEFINE s == req[r].sock
<1>1. /\ req[r].kind = "shutdown" /\ req' = [req EXCEPT ![r] = FreeReq]
      /\ UNCHANGED <<phase, timed, cur, rtimer, reading>> /\ UNCHANGED wq /\ UNCHANGED timerVars
  BY DEF AfterShutdown
<1>2. s \in Socks /\ req[r].co \in Coros
  BY <1>1, InUse DEF Typed, ReqClients
<1>3. PICK err \in {"ok", "error"} : Resume(req[r].co, "shutdown", s, err, 0, 0)
  BY DEF AfterShutdown
<1>4. \E v \in {"open", "shut"} : shut' = [shut EXCEPT ![s] = v] \/ UNCHANGED shut
  BY DEF AfterShutdown
<1>5. SocksTyped'
  BY <1>1, <1>2, <1>4 DEF Typed, SocksTyped
<1>6. ReqsTyped' /\ Queues' /\ ReqClients'
  BY <1>1, FreeIs, ReqChanged DEF Typed
<1>7. CorosTyped' /\ TimersTyped'
  BY <1>1, <1>2, <1>3, ResumeTyped, Amounts, TimersKept DEF Typed, Ops
<1>8. SockClients'
  BY <1>1, SocksKeepClients DEF Typed, timerVars
<1>9. QED
  BY <1>5, <1>6, <1>7, <1>8 DEF Typed

LEMMA CloseTyped ==
  ASSUME Typed, NEW c \in Coros, NEW s \in Socks, Close(c, s)
  PROVE  Typed'
<1>1. BeginClose(c, s) /\ UNCHANGED reqVars /\ UNCHANGED timerVars
  BY DEF Close
<1>2. QED
  BY <1>1, BeginCloseTyped, BeginCloseClients, ReqsSame, TimersKept DEF Typed, timerVars

LEMMA OnCloseTyped ==
  ASSUME Typed, NEW s \in Socks, OnClose(s)
  PROVE  Typed'
<1>1. /\ phase[s] = "closing" /\ phase' = [phase EXCEPT ![s] = "closed"]
      /\ FreeTimer(rtimer[s]) /\ Resume(cur[s], "close", s, "ok", 0, 0)
      /\ UNCHANGED <<timed, cur, rtimer, reading, shut>> /\ UNCHANGED reqVars
  BY DEF OnClose
<1>2. rtimer[s] \in Timers \cup {NoTimer} /\ cur[s] \in Coros
  BY <1>1 DEF Typed, SocksTyped, SockClients
<1>3. SocksTyped' /\ \A x \in Socks : phase[x] = "closed" => phase'[x] = "closed"
  BY <1>1 DEF Typed, SocksTyped
<1>4. CorosTyped' /\ TimersTyped' /\ ReqsTyped' /\ Queues' /\ ReqClients'
  BY <1>1, <1>2, ResumeTyped, Amounts, FreeTimerTyped, ReqsSame DEF Typed, Ops
<1>5. SockClients'
  BY <1>1, <1>2, <1>3, FreeTimerArms, SocksKeepClients DEF Typed
<1>6. QED
  BY <1>3, <1>4, <1>5 DEF Typed

LEMMA TimerClosedTyped ==
  ASSUME Typed, NEW t \in Timers, TimerClosed(t)
  PROVE  Typed'
<1>1. /\ timer[t] = "closing" /\ timer' = [timer EXCEPT ![t] = "heap"]
      /\ UNCHANGED armed /\ UNCHANGED nfree
      /\ UNCHANGED coroVars /\ UNCHANGED sockVars /\ UNCHANGED reqVars
  BY DEF TimerClosed
<1>2. Pool' = Pool
  BY <1>1 DEF Pool, Typed, TimersTyped
<1>3. TimersTyped'
  BY <1>1, <1>2 DEF Typed, TimersTyped
<1>4. CorosTyped' /\ SocksTyped' /\ ReqsTyped' /\ Queues' /\ ReqClients'
  BY <1>1, CorosKept, SocksKept, ReqsSame DEF Typed
<1>5. SockClients'
  BY <1>1, SocksKeepClients DEF Typed, sockVars
<1>6. QED
  BY <1>3, <1>4, <1>5 DEF Typed

LEMMA InitTyped == Init => Typed
<1> SUFFICES ASSUME Init
             PROVE  Typed
  OBVIOUS
<1>1. CorosTyped /\ SocksTyped /\ ReqsTyped
  BY EmptySeq DEF Init, CorosTyped, SocksTyped, ReqsTyped
<1>2. TimersTyped
  <2>1. Pool = {}
    BY DEF Init, Pool
  <2>2. QED
    BY <2>1, FS_EmptySet DEF Init, TimersTyped
<1>3. Queues
  BY EmptySeq DEF Init, Queues
<1>4. ReqClients /\ SockClients
  BY FreeIs, SocketAssumption DEF Init, ReqClients, SockClients
<1>5. QED
  BY <1>1, <1>2, <1>3, <1>4 DEF Typed

LEMMA NextTyped == Typed /\ [Next]_vars => Typed'
<1> SUFFICES ASSUME Typed, [Next]_vars
             PROVE  Typed'
  OBVIOUS
<1>1. ASSUME NEW c \in Coros, NEW s \in Socks,
             \/ \E tm \in BOOLEAN : Connect(c, s, tm) \/ ConnectFails(c, s, tm) \/ Accept(c, s, tm)
             \/ Read(c, s) \/ ReadFails(c, s)
             \/ Write(c, s) \/ WriteAsync(c, s) \/ WriteFails(c, s)
             \/ Shutdown(c, s) \/ ShutdownFails(c, s)
             \/ Close(c, s)
      PROVE  Typed'
  <2>1. ReadFails(c, s) => Typed'
    BY FailsTyped, Amounts DEF ReadFails, Ops
  <2>2. QED
    BY <1>1, <2>1, ConnectTyped, ConnectFailsTyped, AcceptTyped, ReadTyped, WriteTyped,
       WriteAsyncTyped, WriteFailsTyped, ShutdownTyped, ShutdownFailsTyped, CloseTyped
<1>2. ASSUME NEW s \in Socks,
             OnRead(s) \/ KernelSend(s) \/ AfterWrite(s) \/ OnClose(s) \/ SetTimeout(s)
      PROVE  Typed'
  BY <1>2, OnReadTyped, KernelSendTyped, AfterWriteTyped, OnCloseTyped, SetTimeoutTyped
<1>3. ASSUME NEW r \in Reqs, OnConnect(r) \/ AfterShutdown(r)
      PROVE  Typed'
  BY <1>3, OnConnectTyped, AfterShutdownTyped
<1>4. ASSUME NEW t \in Timers,
             ConnectTimeout(t) \/ ReadTimeout(t) \/ WriteTimeout(t) \/ TimerClosed(t)
      PROVE  Typed'
  BY <1>4, ConnectTimeoutTyped, ReadTimeoutTyped, WriteTimeoutTyped, TimerClosedTyped
<1>5. ASSUME UNCHANGED vars
      PROVE  Typed'
  <2>1. UNCHANGED coroVars /\ UNCHANGED sockVars /\ UNCHANGED reqVars /\ UNCHANGED timerVars
    BY <1>5 DEF vars, coroVars, sockVars, reqVars, timerVars
  <2>2. SockClients'
    BY <2>1, SocksKeepClients DEF Typed, sockVars, timerVars
  <2>3. QED
    BY <2>1, <2>2, CorosKept, SocksKept, ReqsSame, TimersKept DEF Typed
<1>6. QED
  BY <1>1, <1>2, <1>3, <1>4, <1>5 DEF Next, Calling, Loop

\* What the types rest on holds in every reachable state.
THEOREM Typing == Spec => []Typed
BY InitTyped, NextTyped, PTL DEF Spec

\* The variables keep their types whatever the program does, also when it closes a
\* socket that is being read: in particular free_timers of luaio_timer.c never
\* falls below zero.
THEOREM TypeCorrect == Spec => []TypeOK
<1>1. Typed => TypeOK
  BY DEF Typed, TypeOK, CorosTyped, SocksTyped, ReqsTyped, TimersTyped
<1>2. QED
  BY <1>1, Typing, PTL

-----------------------------------------------------------------------------
(* Writes *)

\* What stands in a queue is a write request in use.
LEMMA Queued ==
  ASSUME Typed, NEW s \in Socks, NEW i \in 1 .. Len(wq[s])
  PROVE  /\ wq[s][i] \in Reqs /\ req[wq[s][i]].kind \in {"write", "write_async"}
         /\ req[wq[s][i]].sock = s /\ req[wq[s][i]].sent \in 0 .. Size
<1>1. wq[s] \in Seq(Reqs)
  BY DEF Typed, ReqsTyped
<1>2. wq[s][i] \in Reqs
  BY <1>1, ElementOfSeq
<1>3. req[wq[s][i]].kind \in {"write", "write_async"} /\ req[wq[s][i]].sock = s
  BY DEF Typed, Queues
<1>4. QED
  BY <1>2, <1>3, InUse DEF Typed

\* The queues are the same and no byte of a queued write was sent.
LEMMA OrderKept ==
  ASSUME Typed, WritesInOrder, UNCHANGED wq,
         \A r \in Reqs : req[r].kind \in {"write", "write_async"} => req'[r].sent = req[r].sent
  PROVE  WritesInOrder'
<1>1. \A s \in Socks : \A i \in 1 .. Len(wq[s]) : req'[wq[s][i]].sent = req[wq[s][i]].sent
  BY Queued
<1>2. QED
  BY <1>1 DEF WritesInOrder

\* A write joins the queue.  Part of it was sent only when no other had any left.
LEMMA EnqueueOrder ==
  ASSUME Typed, WritesInOrder, NEW s \in Socks, NEW r \in FreeReqs, NEW n \in Taken(s),
         NEW k, NEW c, NEW t, Enqueue(r, s, k, c, t, n)
  PROVE  WritesInOrder'
<1>1. /\ r \in Reqs /\ req[r].kind = "free" /\ wq[s] \in Seq(Reqs)
      /\ req' = [req EXCEPT ![r] = NewReq(k, s, c, t, n)]
      /\ wq' = [wq EXCEPT ![s] = Append(wq[s], r)]
  BY DEF FreeReqs, Enqueue, Typed, ReqsTyped
<1>2. /\ req'[r].sent = n
      /\ \A x \in Reqs : x # r => req'[x] = req[x]
  BY <1>1 DEF NewReq, Typed, ReqsTyped
<1>3. \A x \in Socks : \A i \in 1 .. Len(wq[x]) : req'[wq[x][i]].sent = req[wq[x][i]].sent
  BY <1>1, <1>2, Queued
<1>4. n > 0 => Drained(s)
  BY Amounts DEF Taken
<1>5. SUFFICES ASSUME NEW x \in Socks, NEW i \in 1 .. Len(wq'[x]), NEW j \in 1 .. Len(wq'[x]),
                      i < j, req'[wq'[x][j]].sent > 0
               PROVE  req'[wq'[x][i]].sent = Size
  BY DEF WritesInOrder
<1>6. CASE x # s
  <2>1. wq'[x] = wq[x]
    BY <1>1, <1>6 DEF Typed, ReqsTyped
  <2>2. QED
    BY <1>3, <1>5, <2>1 DEF WritesInOrder
<1>7. CASE x = s
  <2>1. /\ wq'[x] = Append(wq[s], r) /\ Len(wq'[x]) = Len(wq[s]) + 1 /\ Len(wq[s]) \in Nat
        /\ \A m \in 1 .. Len(wq[s]) : wq'[x][m] = wq[s][m]
        /\ wq'[x][Len(wq[s]) + 1] = r
    BY <1>1, <1>7, AppendProperties, LenProperties DEF Typed, ReqsTyped
  <2>2. i \in 1 .. Len(wq[s]) /\ wq'[x][i] = wq[s][i]
    BY <1>5, <2>1
  <2>3. CASE j \in 1 .. Len(wq[s])
    BY <1>3, <1>5, <2>1, <2>2, <2>3 DEF WritesInOrder
  <2>4. CASE j = Len(wq[s]) + 1
    <3>1. n > 0
      BY <1>2, <1>5, <2>1, <2>4
    <3>2. QED
      BY <1>3, <1>4, <2>2, <3>1 DEF Drained
  <2>5. QED
    BY <2>1, <2>3, <2>4
<1>8. QED
  BY <1>6, <1>7

\* The kernel takes of the oldest write that has bytes left.
LEMMA KernelSendOrder ==
  ASSUME Typed, WritesInOrder, NEW s \in Socks, KernelSend(s)
  PROVE  WritesInOrder'
<1>1. PICK m \in 1 .. Len(wq[s]) :
        /\ req[wq[s][m]].sent < Size
        /\ \A j \in 1 .. m - 1 : req[wq[s][j]].sent = Size
        /\ \E n \in (req[wq[s][m]].sent + 1) .. Size : req' = [req EXCEPT ![wq[s][m]].sent = n]
  BY DEF KernelSend
<1> DEFINE r == wq[s][m]
<1>2. r \in Reqs /\ req[r].sock = s /\ req[r].sent \in 0 .. Size
  BY Queued
<1>3. wq' = wq
  BY DEF KernelSend
<1>4. \A x \in Reqs : x # r => req'[x] = req[x]
  BY <1>1, <1>2 DEF Typed, ReqsTyped
<1>5. SUFFICES ASSUME NEW x \in Socks, NEW i \in 1 .. Len(wq[x]), NEW j \in 1 .. Len(wq[x]),
                      i < j, req'[wq[x][j]].sent > 0
               PROVE  req'[wq[x][i]].sent = Size
  BY <1>3 DEF WritesInOrder
<1>6. wq[x][i] \in Reqs /\ wq[x][j] \in Reqs /\ req[wq[x][i]].sock = x /\ req[wq[x][j]].sock = x
  BY Queued
<1>7. wq[x][i] # wq[x][j]
  BY <1>5 DEF Typed, Queues
<1>8. CASE wq[x][i] # r /\ wq[x][j] # r
  BY <1>4, <1>5, <1>6, <1>8 DEF WritesInOrder
<1>9. CASE wq[x][j] = r
  <2>1. x = s /\ j = m
    BY <1>2, <1>6, <1>9 DEF Typed, Queues
  <2>2. wq[x][i] # r /\ i \in 1 .. m - 1
    BY <1>5, <1>7, <1>9, <2>1
  <2>3. QED
    BY <1>1, <1>4, <1>6, <2>1, <2>2
<1>10. CASE wq[x][i] = r
  <2>1. x = s /\ i = m /\ wq[x][j] # r
    BY <1>2, <1>6, <1>7, <1>10 DEF Typed, Queues
  <2>2. req[wq[s][j]].sent > 0
    BY <1>4, <1>5, <1>6, <2>1
  <2>3. req[wq[s][m]].sent = Size
    BY <1>5, <2>1, <2>2 DEF WritesInOrder
  <2>4. QED
    BY <1>1, <2>3, Amounts
<1>11. QED
  BY <1>8, <1>9, <1>10

\* The oldest write leaves its queue.
LEMMA AfterWriteOrder ==
  ASSUME Typed, WritesInOrder, NEW s \in Socks, AfterWrite(s)
  PROVE  WritesInOrder'
<1> DEFINE r == Head(wq[s])
<1>1. /\ wq[s] # <<>> /\ wq[s] \in Seq(Reqs)
      /\ wq' = [wq EXCEPT ![s] = Tail(wq[s])]
      /\ req' = [req EXCEPT ![r] = FreeReq]
  BY DEF AfterWrite, Finish, Typed, ReqsTyped
<1>2. /\ Len(wq[s]) \in Nat /\ Len(wq[s]) > 0 /\ r = wq[s][1]
      /\ Len(Tail(wq[s])) = Len(wq[s]) - 1
      /\ \A i \in 1 .. Len(Tail(wq[s])) : Tail(wq[s])[i] = wq[s][i + 1]
  BY <1>1, HeadTailProperties, EmptySeq, LenProperties
<1>3. r \in Reqs /\ req[r].sock = s
  BY <1>2, Queued
<1>4. \A x \in Reqs : x # r => req'[x] = req[x]
  BY <1>1, <1>3 DEF Typed, ReqsTyped
<1> HIDE DEF r
<1>5. SUFFICES ASSUME NEW x \in Socks, NEW i \in 1 .. Len(wq'[x]), NEW j \in 1 .. Len(wq'[x]),
                      i < j, req'[wq'[x][j]].sent > 0
               PROVE  req'[wq'[x][i]].sent = Size
  BY DEF WritesInOrder
<1>6. CASE x # s
  <2>1. wq'[x] = wq[x]
    BY <1>1, <1>6 DEF Typed, ReqsTyped
  <2>2. /\ wq[x][i] \in Reqs /\ wq[x][i] # r
        /\ wq[x][j] \in Reqs /\ wq[x][j] # r
    BY <1>3, <1>6, <2>1, Queued
  <2>3. QED
    BY <1>4, <1>5, <2>1, <2>2 DEF WritesInOrder
<1>7. CASE x = s
  <2>1. wq'[x] = Tail(wq[s])
    BY <1>1, <1>7 DEF Typed, ReqsTyped
  <2>2. /\ i + 1 \in 1 .. Len(wq[s]) /\ j + 1 \in 1 .. Len(wq[s]) /\ 1 \in 1 .. Len(wq[s])
        /\ wq'[x][i] = wq[s][i + 1] /\ wq'[x][j] = wq[s][j + 1]
        /\ i + 1 < j + 1 /\ i + 1 # 1 /\ j + 1 # 1
    BY <1>2, <1>5, <2>1
  <2>3. /\ wq[s][i + 1] \in Reqs /\ wq[s][i + 1] # r
        /\ wq[s][j + 1] \in Reqs /\ wq[s][j + 1] # r
    <3>1. wq[s][i + 1] # wq[s][1] /\ wq[s][j + 1] # wq[s][1]
      BY <2>2 DEF Typed, Queues
    <3>2. QED
      BY <1>2, <2>2, <3>1, Queued
  <2>4. QED
    BY <1>4, <1>5, <2>2, <2>3 DEF WritesInOrder
<1>8. QED
  BY <1>6, <1>7

LEMMA WriteOrder ==
  ASSUME Typed, WritesInOrder, NEW c \in Coros, NEW s \in Socks, Write(c, s) \/ WriteAsync(c, s)
  PROVE  WritesInOrder'
<1>1. CASE UNCHANGED reqVars
  BY <1>1, OrderKept DEF reqVars
<1>2. ASSUME NEW n \in Taken(s), NEW t, NEW r \in FreeReqs,
             Enqueue(r, s, "write", c, t, n) \/ Enqueue(r, s, "write_async", NoCoro, t, n)
      PROVE  WritesInOrder'
  BY <1>2, EnqueueOrder
<1>3. QED
  BY <1>1, <1>2 DEF Write, WriteAsync

\* A request that is free, or not a write, is replaced.
LEMMA OtherRequestOrder ==
  ASSUME Typed, WritesInOrder, UNCHANGED wq, NEW r \in Reqs, NEW q,
         req[r].kind \notin {"write", "write_async"}, req' = [req EXCEPT ![r] = q]
  PROVE  WritesInOrder'
<1>1. \A x \in Reqs : x # r => req'[x] = req[x]
  BY DEF Typed, ReqsTyped
<1>2. QED
  BY <1>1, OrderKept

\* The same request with its timer gone.
LEMMA TimeoutOrder ==
  ASSUME Typed, WritesInOrder, NEW t \in Timers, ConnectTimeout(t) \/ WriteTimeout(t)
  PROVE  WritesInOrder'
<1> DEFINE r == armed[t]
<1>1. /\ r \in Reqs /\ UNCHANGED wq
      /\ \/ req' = [req EXCEPT ![r].timer = NoTimer, ![r].timedout = TRUE]
         \/ req' = [req EXCEPT ![r].timer = NoTimer]
  BY DEF ConnectTimeout, WriteTimeout
<1> HIDE DEF r
<1>2. \A x \in Reqs : req[x].kind \in {"write", "write_async"} => req'[x].sent = req[x].sent
  <2>1. ASSUME NEW x \in Reqs, req[x].kind \in {"write", "write_async"}
        PROVE  req'[x].sent = req[x].sent
    <3>1. req[x] \in Request
      BY <2>1, InUse DEF Typed
    <3>2. QED
      BY <1>1, <3>1 DEF Typed, ReqsTyped, Request
  <2>2. QED
    BY <2>1
<1>3. QED
  BY <1>1, <1>2, OrderKept

LEMMA NextOrder == Typed /\ WritesInOrder /\ [Next]_vars => WritesInOrder'
<1> SUFFICES ASSUME Typed, WritesInOrder, [Next]_vars
             PROVE  WritesInOrder'
  OBVIOUS
<1>1. CASE UNCHANGED reqVars
  BY <1>1, OrderKept DEF reqVars
<1>2. ASSUME NEW c \in Coros, NEW s \in Socks
      PROVE  /\ \A tm \in BOOLEAN : Connect(c, s, tm) => WritesInOrder'
             /\ Shutdown(c, s) => WritesInOrder'
  BY OtherRequestOrder DEF Connect, Shutdown, FreeReqs
<1>3. ASSUME NEW c \in Coros, NEW s \in Socks,
             \/ \E tm \in BOOLEAN : ConnectFails(c, s, tm) \/ Accept(c, s, tm)
             \/ Read(c, s) \/ ReadFails(c, s) \/ WriteFails(c, s)
             \/ ShutdownFails(c, s) \/ Close(c, s)
      PROVE  UNCHANGED reqVars
  BY <1>3 DEF ConnectFails, Accept, Read, ReadFails, WriteFails, Fails, ShutdownFails, Close
<1>4. ASSUME NEW s \in Socks, OnRead(s) \/ OnClose(s) \/ SetTimeout(s)
      PROVE  UNCHANGED reqVars
  BY <1>4 DEF OnRead, OnClose, SetTimeout
<1>5. ASSUME NEW r \in Reqs, OnConnect(r) \/ AfterShutdown(r)
      PROVE  WritesInOrder'
  BY <1>5, OtherRequestOrder DEF OnConnect, AfterShutdown
<1>6. ASSUME NEW t \in Timers, ReadTimeout(t) \/ TimerClosed(t)
      PROVE  UNCHANGED reqVars
  BY <1>6 DEF ReadTimeout, TimerClosed
<1>7. CASE UNCHANGED vars
  BY <1>1, <1>7 DEF vars, reqVars
<1>8. ASSUME NEW c \in Coros, NEW s \in Socks,
             \/ \E tm \in BOOLEAN : Connect(c, s, tm) \/ ConnectFails(c, s, tm) \/ Accept(c, s, tm)
             \/ Read(c, s) \/ ReadFails(c, s)
             \/ Write(c, s) \/ WriteAsync(c, s) \/ WriteFails(c, s)
             \/ Shutdown(c, s) \/ ShutdownFails(c, s)
             \/ Close(c, s)
      PROVE  WritesInOrder'
  BY <1>1, <1>2, <1>3, <1>8, WriteOrder
<1>9. ASSUME NEW s \in Socks,
             OnRead(s) \/ KernelSend(s) \/ AfterWrite(s) \/ OnClose(s) \/ SetTimeout(s)
      PROVE  WritesInOrder'
  BY <1>1, <1>4, <1>9, KernelSendOrder, AfterWriteOrder
<1>10. ASSUME NEW t \in Timers,
              ConnectTimeout(t) \/ ReadTimeout(t) \/ WriteTimeout(t) \/ TimerClosed(t)
       PROVE  WritesInOrder'
  BY <1>1, <1>6, <1>10, TimeoutOrder
<1>11. QED
  BY <1>5, <1>7, <1>8, <1>9, <1>10 DEF Next, Calling, Loop

\* The bytes of two writes never mix: uv_try_write of luaio_tcp_write takes nothing
\* while a queued write has bytes left, and the kernel empties the queue from its
\* head, also past writes that timed out.
THEOREM WritesOrdered == Spec => []WritesInOrder
<1>1. Init => WritesInOrder
  BY EmptySeq DEF Init, WritesInOrder
<1>2. QED
  BY <1>1, NextOrder, Typing, PTL DEF Spec

=============================================================================
