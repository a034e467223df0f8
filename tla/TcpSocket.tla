----------------------------- MODULE TcpSocket -----------------------------
(***************************************************************************)
(* TCP sockets of LuaIO: the calls of src/luaio_tcp.c as lib/tcp.lua makes *)
(* them, the callbacks the loop answers with, the request blocks, and the  *)
(* pool of timers of src/luaio_timer.c that all sockets share.             *)
(*                                                                         *)
(* A coroutine runs until it yields in a call or finishes; callbacks run   *)
(* one at a time.  So a call is one action, a callback is one action, and  *)
(* the interleaving is that of calls by different coroutines with ready    *)
(* callbacks.  The phases of a loop iteration are not modelled: a ready    *)
(* callback may run at any time, which includes every order libuv has.     *)
(***************************************************************************)
EXTENDS Integers, Sequences, FiniteSets

CONSTANTS
  Coros,          \* coroutines
  Socks,          \* socket blocks (userdata), reused after they are closed
  Timers,         \* timer blocks
  Reqs,           \* request blocks of the memory pool
  MaxFreeTimers,  \* max_free_timers of the timer pool
  Size,           \* bytes in the data of one write
  Allow,          \* what the program does beyond connecting, accepting, reading,
                  \* writing and closing
  NoCoro, NoTimer, NoOwner

\* Further calls, and two uses of close that the library does not forbid.
SetsTimeout == "set_timeout"
WritesAsync == "write_async"
Shuts == "shutdown"
CloseDuringRead == "close-during-read"
CloseAfterTimedRead == "close-after-timed-read"

ASSUME SocketAssumption ==
  /\ NoCoro \notin Coros /\ NoTimer \notin Timers
  /\ NoOwner \notin Socks \cup Reqs
  /\ Socks \cap Reqs = {}
  /\ IsFiniteSet(Timers)
  /\ MaxFreeTimers \in Nat
  /\ Size \in Nat \ {0}
  /\ Allow \subseteq {SetsTimeout, WritesAsync, Shuts, CloseDuringRead, CloseAfterTimedRead}

VARIABLES
  call,     \* the call each coroutine is suspended in, or NoCall
  last,     \* the last return of a call to its coroutine
  phase,    \* the life of a socket
  timed,    \* socket->timeout # 0
  cur,      \* socket->current_thread
  rtimer,   \* socket->timer
  reading,  \* the handle is reading (uv_read_start / uv_read_stop)
  shut,     \* the write side: open, shutting down, shut down
  req,      \* the request blocks
  wq,       \* the write queue of each handle, oldest first
  timer,    \* where each timer block is
  armed,    \* what a running timer points to (timer->data)
  nfree     \* free_timers

coroVars == <<call, last>>
sockVars == <<phase, timed, cur, rtimer, reading, shut>>
reqVars == <<req, wq>>
timerVars == <<timer, armed, nfree>>
vars == <<call, last, phase, timed, cur, rtimer, reading, shut,
          req, wq, timer, armed, nfree>>

Ops == {"connect", "read", "write", "write_async", "shutdown", "close"}
Call == [op : Ops, sock : Socks]
NoCall == [op |-> "none", sock |-> NoOwner]

\* What a call returned to whom: its error and byte count and, beside them, the
\* bytes of its data that the kernel really took.
Returned(c, op, s, err, n, k) ==
  [co |-> c, call |-> [op |-> op, sock |-> s], err |-> err, bytes |-> n, taken |-> k]
Result == [co : Coros, call : Call, err : {"ok", "error", "timedout"},
           bytes : 0 .. Size, taken : 0 .. Size]
NoResult == [co |-> NoCoro, call |-> NoCall, err |-> "ok", bytes |-> 0, taken |-> 0]

Kinds == {"connect", "write", "write_async", "shutdown"}
Request == [kind : Kinds, sock : Socks, co : Coros \cup {NoCoro},
            timer : Timers \cup {NoTimer}, timedout : BOOLEAN, sent : 0 .. Size]
FreeReq == [kind |-> "free", sock |-> NoOwner, co |-> NoCoro,
            timer |-> NoTimer, timedout |-> FALSE, sent |-> 0]
NewReq(k, s, c, t, n) == [kind |-> k, sock |-> s, co |-> c, timer |-> t,
                          timedout |-> FALSE, sent |-> n]
FreeReqs == {r \in Reqs : req[r].kind = "free"}

TypeOK ==
  /\ call \in [Coros -> Call \cup {NoCall}]
  /\ last \in Result \cup {NoResult}
  /\ phase \in [Socks -> {"connecting", "open", "closing", "closed"}]
  /\ timed \in [Socks -> BOOLEAN]
  /\ cur \in [Socks -> Coros \cup {NoCoro}]
  /\ rtimer \in [Socks -> Timers \cup {NoTimer}]
  /\ reading \in [Socks -> BOOLEAN]
  /\ shut \in [Socks -> {"open", "shutting", "shut"}]
  /\ req \in [Reqs -> Request \cup {FreeReq}]
  /\ wq \in [Socks -> Seq(Reqs)]
  /\ timer \in [Timers -> {"heap", "pool", "used", "closing"}]
  /\ armed \in [Timers -> Socks \cup Reqs \cup {NoOwner}]
  /\ nfree \in Nat

Init ==
  /\ call = [c \in Coros |-> NoCall]
  /\ last = NoResult
  /\ phase = [s \in Socks |-> "closed"]
  /\ timed = [s \in Socks |-> FALSE]
  /\ cur = [s \in Socks |-> NoCoro]
  /\ rtimer = [s \in Socks |-> NoTimer]
  /\ reading = [s \in Socks |-> FALSE]
  /\ shut = [s \in Socks |-> "open"]
  /\ req = [r \in Reqs |-> FreeReq]
  /\ wq = [s \in Socks |-> <<>>]
  /\ timer = [t \in Timers |-> "heap"]
  /\ armed = [t \in Timers |-> NoOwner]
  /\ nfree = 0

-----------------------------------------------------------------------------
(* The timer pool *)

Pool == {t \in Timers : timer[t] = "pool"}

\* luaio_timer_alloc: from the free list while it has any, else from the heap.
Allocatable == IF Pool # {} THEN Pool ELSE {t \in Timers : timer[t] = "heap"}

\* The timers a call on s may start: none when the socket has no timeout.
Deadlines(s) == IF timed[s] THEN Allocatable ELSE {NoTimer}

\* Mutant: free_timers is also decremented for a timer from the heap.
StartTimerMiscounted(t, o) ==
  IF t = NoTimer THEN UNCHANGED timerVars
  ELSE /\ nfree' = nfree - 1
       /\ timer' = [timer EXCEPT ![t] = "used"]
       /\ armed' = [armed EXCEPT ![t] = o]

\* Allocate timer t and start it for owner o.
StartTimer(t, o) ==
  IF t = NoTimer THEN UNCHANGED timerVars
  ELSE /\ nfree' = IF timer[t] = "pool" THEN nfree - 1 ELSE nfree
       /\ timer' = [timer EXCEPT ![t] = "used"]
       /\ armed' = [armed EXCEPT ![t] = o]

\* Mutant: the limit of the free list is not looked at.
FreeTimerUnlimited(t) ==
  IF t = NoTimer THEN UNCHANGED timerVars
  ELSE /\ armed' = [armed EXCEPT ![t] = NoOwner]
       /\ timer' = [timer EXCEPT ![t] = "pool"]
       /\ nfree' = nfree + 1

\* luaio_timer_free after uv_timer_stop: back to the free list, or closed when
\* the list is at its limit.
FreeTimer(t) ==
  IF t = NoTimer THEN UNCHANGED timerVars
  ELSE /\ armed' = [armed EXCEPT ![t] = NoOwner]
       /\ \/ /\ nfree < MaxFreeTimers
             /\ timer' = [timer EXCEPT ![t] = "pool"]
             /\ nfree' = nfree + 1
          \/ /\ nfree >= MaxFreeTimers
             /\ timer' = [timer EXCEPT ![t] = "closing"]
             /\ UNCHANGED nfree

\* luaio_timer_onclose: the closed handle's memory is freed.
TimerClosed(t) ==
  /\ timer[t] = "closing"
  /\ timer' = [timer EXCEPT ![t] = "heap"]
  /\ UNCHANGED <<armed, nfree, coroVars, sockVars, reqVars>>

\* Mutant: a call that fails leaves its timer running.
TimerLeftRunning(s) ==
  \/ UNCHANGED timerVars
  \/ timed[s] /\ \E t \in Allocatable : StartTimer(t, s)

\* Mutant: a call that fails frees socket->timer, which is a reader's.
TimerOfReadFreed(s) ==
  \/ UNCHANGED timerVars
  \/ FreeTimer(rtimer[s])

\* A call that fails before it suspends: before it has allocated a timer, or
\* after, when it stops and frees the timer.  A pooled timer is then back where
\* it came from; one from the heap goes to the pool.
TimerGivenBack(s) ==
  \/ UNCHANGED timerVars
  \/ /\ timed[s]
     /\ Pool = {}
     /\ \E t \in Allocatable : FreeTimer(t)

-----------------------------------------------------------------------------
(* Coroutines *)

Idle(c) == call[c] = NoCall
Waiting(c) == call[c] # NoCall

\* The call returns to its coroutine without a yield.
Return(c, op, s, err, n, k) ==
  /\ last' = Returned(c, op, s, err, n, k)
  /\ UNCHANGED call

\* The call ends in lua_yield.
Yield(c, op, s) ==
  /\ call' = [call EXCEPT ![c] = [op |-> op, sock |-> s]]
  /\ last' = NoResult

\* luaio_resume from the callback of call op on socket s.
Resume(c, op, s, err, n, k) ==
  /\ call' = [call EXCEPT ![c] = NoCall]
  /\ last' = Returned(c, op, s, err, n, k)

\* Mutant: current_thread stays what it was.
BeginCloseKeepsThread(c, s) ==
  /\ Yield(c, "close", s)
  /\ phase' = [phase EXCEPT ![s] = "closing"]
  /\ reading' = [reading EXCEPT ![s] = FALSE]
  /\ UNCHANGED <<timed, cur, rtimer, shut>>

\* socket:close(): current_thread is the closing coroutine from here on, and
\* uv_close stops the handle's reading.
BeginClose(c, s) ==
  /\ Yield(c, "close", s)
  /\ phase' = [phase EXCEPT ![s] = "closing"]
  /\ reading' = [reading EXCEPT ![s] = FALSE]
  /\ cur' = [cur EXCEPT ![s] = c]
  /\ UNCHANGED <<timed, rtimer, shut>>

-----------------------------------------------------------------------------
(* Connections *)

\* The fields tcp_native.new() and the server's onconnect give a new socket.
NewSocket(c, s, ph, tm) ==
  /\ phase' = [phase EXCEPT ![s] = ph]
  /\ timed' = [timed EXCEPT ![s] = tm]
  /\ cur' = [cur EXCEPT ![s] = c]
  /\ rtimer' = [rtimer EXCEPT ![s] = NoTimer]
  /\ reading' = [reading EXCEPT ![s] = FALSE]
  /\ shut' = [shut EXCEPT ![s] = "open"]

Unused(s) == phase[s] = "closed"

\* socket:connect with the request sent off.
Connect(c, s, tm) ==
  /\ Idle(c) /\ Unused(s)
  /\ \E t \in IF tm THEN Allocatable ELSE {NoTimer}, r \in FreeReqs :
       /\ StartTimer(t, r)
       /\ req' = [req EXCEPT ![r] = NewReq("connect", s, c, t, 0)]
  /\ NewSocket(c, s, "connecting", tm)
  /\ Yield(c, "connect", s)
  /\ UNCHANGED wq

\* socket:connect fails at once, before or after its timer was allocated, and
\* lib/tcp.lua closes the handle.
ConnectFails(c, s, tm) ==
  /\ Idle(c) /\ Unused(s)
  /\ NewSocket(c, s, "closing", tm)
  /\ \/ UNCHANGED timerVars
     \/ tm /\ Pool = {} /\ \E t \in Allocatable : FreeTimer(t)
  /\ Yield(c, "close", s)
  /\ UNCHANGED reqVars

\* luaio_tcp_socket_onconnect: of a connect in progress with its status, of one
\* that timed out, and whose handle is closing, with UV_ECANCELED.
OnConnect(r) ==
  LET s == req[r].sock
      c == req[r].co
  IN /\ req[r].kind = "connect"
     /\ FreeTimer(req[r].timer)
     /\ req' = [req EXCEPT ![r] = FreeReq]
     /\ UNCHANGED wq
     /\ \/ /\ req[r].timedout
           /\ phase[s] = "closing"
           /\ UNCHANGED <<coroVars, sockVars>>
        \/ /\ ~req[r].timedout
           /\ phase[s] = "connecting"
           /\ phase' = [phase EXCEPT ![s] = "open"]
           /\ Resume(c, "connect", s, "ok", 0, 0)
           /\ UNCHANGED <<timed, cur, rtimer, reading, shut>>
        \/ /\ ~req[r].timedout
           /\ phase[s] = "connecting"
           /\ BeginClose(c, s)

\* luaio_tcp_socket_connect_timeout: the request stays with libuv, the coroutine
\* is resumed with UV_ETIMEDOUT and lib/tcp.lua closes the handle.
ConnectTimeout(t) ==
  LET r == armed[t]
  IN /\ r \in Reqs
     /\ req[r].kind = "connect"
     /\ FreeTimer(t)
     /\ req' = [req EXCEPT ![r].timer = NoTimer, ![r].timedout = TRUE]
     /\ BeginClose(req[r].co, req[r].sock)
     /\ UNCHANGED wq

\* luaio_tcp_server_onconnect: an accepted socket with the server's timeout,
\* used by the new coroutine c.
Accept(c, s, tm) ==
  /\ Idle(c) /\ Unused(s)
  /\ NewSocket(c, s, "open", tm)
  /\ UNCHANGED <<coroVars, reqVars, timerVars>>

\* socket:set_timeout: from the next call on.
SetTimeout(s) ==
  /\ SetsTimeout \in Allow
  /\ phase[s] = "open"
  /\ timed' = [timed EXCEPT ![s] = ~@]
  /\ UNCHANGED <<coroVars, phase, cur, rtimer, reading, shut, reqVars, timerVars>>

-----------------------------------------------------------------------------
(* Reading *)

\* A call on an open socket that returns an error at once.
Fails(c, op, s, n) ==
  /\ Idle(c)
  /\ phase[s] = "open"
  /\ Return(c, op, s, "error", n, n)
  /\ TimerGivenBack(s)
  /\ UNCHANGED <<sockVars, reqVars>>

\* socket:read.  One coroutine reads a socket at a time.
Read(c, s) ==
  /\ Idle(c)
  /\ phase[s] = "open"
  /\ ~reading[s]
  /\ \E t \in Deadlines(s) :
       /\ StartTimer(t, s)
       /\ rtimer' = [rtimer EXCEPT ![s] = t]
  /\ reading' = [reading EXCEPT ![s] = TRUE]
  /\ cur' = [cur EXCEPT ![s] = c]
  /\ Yield(c, "read", s)
  /\ UNCHANGED <<phase, timed, shut, reqVars>>

ReadFails(c, s) == ~reading[s] /\ Fails(c, "read", s, 0)

\* luaio_tcp_socket_onread: data, end of file or an error.
OnRead(s) ==
  /\ phase[s] = "open"
  /\ reading[s]
  /\ reading' = [reading EXCEPT ![s] = FALSE]
  /\ FreeTimer(rtimer[s])
  /\ \E err \in {"ok", "error"} : Resume(cur[s], "read", s, err, 0, 0)
  /\ UNCHANGED <<phase, timed, cur, rtimer, shut, reqVars>>

\* Mutant: the timeout stops the reading and resumes nobody.
ReadTimeoutSilent(t) ==
  /\ armed[t] \in Socks
  /\ reading' = [reading EXCEPT ![armed[t]] = FALSE]
  /\ FreeTimer(t)
  /\ UNCHANGED <<coroVars, phase, timed, cur, rtimer, shut, reqVars>>

\* luaio_tcp_socket_read_timeout: it stops whatever reading goes on and resumes
\* whatever coroutine the socket points to.
ReadTimeout(t) ==
  LET s == armed[t]
  IN /\ s \in Socks
     /\ reading' = [reading EXCEPT ![s] = FALSE]
     /\ FreeTimer(t)
     /\ Resume(cur[s], "read", s, "timedout", 0, 0)
     /\ UNCHANGED <<phase, timed, cur, rtimer, shut, reqVars>>

-----------------------------------------------------------------------------
(* Writing *)

\* Every queued write has been sent; the callbacks of some may be still to come.
Drained(s) == \A i \in 1 .. Len(wq[s]) : req[wq[s][i]].sent = Size

\* Mutant: uv_try_write does not yield to the queue.
TakenPastQueue(s) == IF shut[s] # "shut" THEN 0 .. Size ELSE {0}

\* uv_try_write: what it takes of the data at once.  UV_EAGAIN, nothing, when
\* queued data is still to be sent or the write side is shut down.
Taken(s) == IF Drained(s) /\ shut[s] # "shut" THEN 0 .. Size ELSE {0}

\* The rest of the data goes to the queue of the handle.
Enqueue(r, s, k, c, t, n) ==
  /\ StartTimer(t, r)
  /\ req' = [req EXCEPT ![r] = NewReq(k, s, c, t, n)]
  /\ wq' = [wq EXCEPT ![s] = Append(@, r)]

\* socket:write: the coroutine waits for what uv_try_write has not taken.
Write(c, s) ==
  /\ Idle(c)
  /\ phase[s] = "open"
  /\ UNCHANGED sockVars
  /\ \E n \in Taken(s) :
       \/ /\ n = Size
          /\ Return(c, "write", s, "ok", n, n)
          /\ UNCHANGED <<reqVars, timerVars>>
       \/ /\ n < Size
          /\ \E t \in Deadlines(s), r \in FreeReqs : Enqueue(r, s, "write", c, t, n)
          /\ Yield(c, "write", s)

\* socket:write_async: it returns at once in every case.
WriteAsync(c, s) ==
  /\ WritesAsync \in Allow
  /\ Idle(c)
  /\ phase[s] = "open"
  /\ UNCHANGED sockVars
  /\ \E n \in Taken(s) :
       /\ Return(c, "write_async", s, "ok", Size, n)
       /\ \/ /\ n = Size
             /\ UNCHANGED <<reqVars, timerVars>>
          \/ /\ n < Size
             /\ \E t \in Deadlines(s), r \in FreeReqs :
                  Enqueue(r, s, "write_async", NoCoro, t, n)

\* A write fails: of uv_try_write, or for want of a timer or a request or in
\* uv_write2 with part of the data sent.
WriteFails(c, s) ==
  \E op \in {"write"} \cup (Allow \cap {WritesAsync}), n \in Taken(s) \ {Size} :
    Fails(c, op, s, n)

\* The kernel takes bytes of the oldest write with some left (uv__write).
KernelSend(s) ==
  /\ phase[s] = "open"
  /\ shut[s] # "shut"
  /\ \E i \in 1 .. Len(wq[s]) :
       LET r == wq[s][i]
       IN /\ req[r].sent < Size
          /\ \A j \in 1 .. i - 1 : req[wq[s][j]].sent = Size
          /\ \E n \in (req[r].sent + 1) .. Size : req' = [req EXCEPT ![r].sent = n]
  /\ UNCHANGED <<coroVars, sockVars, wq, timerVars>>

\* The oldest request leaves the queue; its coroutine is resumed unless nobody
\* waits, with the whole byte count or with 0 and an error.
Finish(s, silent, ok) ==
  LET r == Head(wq[s])
      q == req[r]
  IN /\ wq' = [wq EXCEPT ![s] = Tail(@)]
     /\ req' = [req EXCEPT ![r] = FreeReq]
     /\ FreeTimer(q.timer)
     /\ \/ silent /\ UNCHANGED coroVars
        \/ ~silent /\ ok /\ Resume(q.co, "write", s, "ok", Size, q.sent)
        \/ ~silent /\ ~ok /\ Resume(q.co, "write", s, "error", 0, q.sent)
     /\ UNCHANGED sockVars

\* Mutant: the callback does not look at timed_out.
AfterWriteResumesAgain(s) ==
  /\ wq[s] # <<>>
  /\ LET q == req[Head(wq[s])] IN Finish(s, q.kind = "write_async", q.sent = Size)

\* luaio_tcp_socket_after_write and luaio_tcp_socket_after_write_async: of a
\* write that was sent, failed, or is cancelled as the handle closes.  A request
\* that timed out is only freed.
AfterWrite(s) ==
  /\ wq[s] # <<>>
  /\ LET q == req[Head(wq[s])]
     IN Finish(s, q.timedout \/ q.kind = "write_async", q.sent = Size)

\* Mutant: the request of an asynchronous write still points to its timer.
WriteTimeoutKeepsTimer(t) ==
  LET r == armed[t]
      q == req[r]
  IN /\ r \in Reqs
     /\ FreeTimer(t)
     /\ \/ /\ q.kind = "write"
           /\ req' = [req EXCEPT ![r].timer = NoTimer, ![r].timedout = TRUE]
           /\ Resume(q.co, "write", q.sock, "timedout", 0, q.sent)
        \/ /\ q.kind = "write_async"
           /\ UNCHANGED <<req, coroVars>>
     /\ UNCHANGED <<sockVars, wq>>

\* luaio_tcp_socket_write_timeout and luaio_tcp_socket_write_async_timeout: the
\* request stays in the queue; the waiting coroutine is told 0 bytes.
WriteTimeout(t) ==
  LET r == armed[t]
      q == req[r]
  IN /\ r \in Reqs
     /\ FreeTimer(t)
     /\ \/ /\ q.kind = "write"
           /\ req' = [req EXCEPT ![r].timer = NoTimer, ![r].timedout = TRUE]
           /\ Resume(q.co, "write", q.sock, "timedout", 0, q.sent)
        \/ /\ q.kind = "write_async"
           /\ req' = [req EXCEPT ![r].timer = NoTimer]
           /\ UNCHANGED coroVars
     /\ UNCHANGED <<sockVars, wq>>

-----------------------------------------------------------------------------
(* Shutdown and close *)

\* socket:shutdown: done when the queue has drained.
Shutdown(c, s) ==
  /\ Shuts \in Allow
  /\ Idle(c)
  /\ phase[s] = "open"
  /\ shut[s] = "open"
  /\ \E r \in FreeReqs :
       req' = [req EXCEPT ![r] = NewReq("shutdown", s, c, NoTimer, 0)]
  /\ shut' = [shut EXCEPT ![s] = "shutting"]
  /\ Yield(c, "shutdown", s)
  /\ UNCHANGED <<phase, timed, cur, rtimer, reading, wq, timerVars>>

\* No request block, or uv_shutdown's UV_ENOTCONN.
ShutdownFails(c, s) ==
  /\ Shuts \in Allow
  /\ Idle(c)
  /\ phase[s] = "open"
  /\ Return(c, "shutdown", s, "error", 0, 0)
  /\ UNCHANGED <<sockVars, reqVars, timerVars>>

\* luaio_tcp_socket_after_shutdown: the write side is shut, shutdown(2) failed,
\* or the handle is closed under it.
AfterShutdown(r) ==
  LET s == req[r].sock
  IN /\ req[r].kind = "shutdown"
     /\ req' = [req EXCEPT ![r] = FreeReq]
     /\ \/ /\ phase[s] = "open"
           /\ Drained(s)
           /\ shut' = [shut EXCEPT ![s] = "shut"]
           /\ Resume(req[r].co, "shutdown", s, "ok", 0, 0)
        \/ /\ phase[s] = "open"
           /\ Drained(s)
           /\ shut' = [shut EXCEPT ![s] = "open"]
           /\ Resume(req[r].co, "shutdown", s, "error", 0, 0)
        \/ /\ phase[s] = "closing"
           /\ wq[s] = <<>>
           /\ UNCHANGED shut
           /\ Resume(req[r].co, "shutdown", s, "error", 0, 0)
     /\ UNCHANGED <<phase, timed, cur, rtimer, reading, wq, timerVars>>

\* Mutant: closed under its reader.
CloseUnderReader(c, s) ==
  /\ Idle(c)
  /\ phase[s] = "open"
  /\ BeginClose(c, s)
  /\ UNCHANGED <<reqVars, timerVars>>

\* socket:close.
Close(c, s) ==
  /\ Idle(c)
  /\ phase[s] = "open"
  /\ reading[s] => CloseDuringRead \in Allow
  /\ rtimer[s] # NoTimer /\ ~reading[s] => CloseAfterTimedRead \in Allow
  /\ BeginClose(c, s)
  /\ UNCHANGED <<reqVars, timerVars>>

\* luaio_tcp_socket_onclose, after libuv has called back every request left.
OnClose(s) ==
  /\ phase[s] = "closing"
  /\ \A r \in Reqs : req[r].sock # s
  /\ phase' = [phase EXCEPT ![s] = "closed"]
  /\ FreeTimer(rtimer[s])
  /\ Resume(cur[s], "close", s, "ok", 0, 0)
  /\ UNCHANGED <<timed, cur, rtimer, reading, shut, reqVars>>

-----------------------------------------------------------------------------

Calling ==
  \E c \in Coros, s \in Socks :
    \/ \E tm \in BOOLEAN : Connect(c, s, tm) \/ ConnectFails(c, s, tm) \/ Accept(c, s, tm)
    \/ Read(c, s) \/ ReadFails(c, s)
    \/ Write(c, s) \/ WriteAsync(c, s) \/ WriteFails(c, s)
    \/ Shutdown(c, s) \/ ShutdownFails(c, s)
    \/ Close(c, s)

Loop ==
  \/ \E s \in Socks : OnRead(s) \/ KernelSend(s) \/ AfterWrite(s) \/ OnClose(s)
  \/ \E r \in Reqs : OnConnect(r) \/ AfterShutdown(r)
  \/ \E t \in Timers :
       ConnectTimeout(t) \/ ReadTimeout(t) \/ WriteTimeout(t) \/ TimerClosed(t)

Next == Calling \/ Loop \/ \E s \in Socks : SetTimeout(s)

Spec == Init /\ [][Next]_vars

(***************************************************************************)
(* The loop runs every timer that is due and every callback of a handle    *)
(* that is closing.  Nothing is assumed of the network: reads, writes and  *)
(* connects may stay unanswered forever.                                   *)
(***************************************************************************)
Fairness ==
  /\ \A t \in Timers : WF_vars(ConnectTimeout(t) \/ ReadTimeout(t) \/ WriteTimeout(t))
  /\ \A s \in Socks : WF_vars(OnClose(s)) /\ WF_vars(phase[s] = "closing" /\ AfterWrite(s))
  /\ \A r \in Reqs :
       WF_vars(req[r].kind # "free" /\ phase[req[r].sock] = "closing"
               /\ (OnConnect(r) \/ AfterShutdown(r)))

FairSpec == Spec /\ Fairness

-----------------------------------------------------------------------------
(* Properties *)

\* Who a timer in use belongs to: the socket whose read it limits, or a request.
Owns(o, t) ==
  \/ o \in Socks /\ reading[o] /\ rtimer[o] = t
  \/ o \in Reqs /\ req[o].timer = t

\* Timers shared by all sockets are never mixed up: a timer in use belongs to one
\* read or one request, which is what its callback will find in timer->data, and
\* a timer that nobody uses is stopped.
TimersOwned ==
  \A t \in Timers :
    /\ timer[t] = "used" <=> \E o \in Socks \cup Reqs : Owns(o, t)
    /\ timer[t] = "used" => Owns(armed[t], t)
    /\ timer[t] # "used" => armed[t] = NoOwner
    /\ \A o \in Socks \cup Reqs : Owns(o, t) => armed[t] = o

\* The counter of the pool is the length of its free list and never exceeds the
\* limit: a timer is freed once for every time it is allocated.
PoolCounted == nfree = Cardinality(Pool) /\ nfree <= MaxFreeTimers

\* What will resume coroutine c: the callback of a request that has not timed
\* out, of the read its socket is in, or of the close of its socket.
Resumers(c) ==
  {r \in Reqs : req[r].co = c /\ ~req[r].timedout}
    \cup {s \in Socks : cur[s] = c /\ (reading[s] \/ phase[s] = "closing")}

\* No lost and no double wake-up: a suspended coroutine has exactly one thing that
\* will resume it, a coroutine that is not suspended has none, and every request
\* and every reading or closing socket points to a coroutine in that very call.
OneResumer ==
  \A c \in Coros :
    /\ Waiting(c) <=> Resumers(c) # {}
    /\ \A x, y \in Resumers(c) : x = y
    /\ \A r \in Resumers(c) \cap Reqs : call[c] = [op |-> req[r].kind, sock |-> req[r].sock]
    /\ \A s \in Resumers(c) \cap Socks :
         call[c] = [op |-> IF reading[s] THEN "read" ELSE "close", sock |-> s]

\* The bytes of two writes never mix on the connection: data is taken of a write
\* only when all of those before it in the queue has been.
WritesInOrder ==
  \A s \in Socks : \A i, j \in 1 .. Len(wq[s]) :
    i < j /\ req[wq[s][j]].sent > 0 => req[wq[s][i]].sent = Size

\* A socket that has closed has left nothing behind: no request, no queued write,
\* no coroutine suspended in a call on it.
ClosedIsQuiet ==
  \A s \in Socks : Unused(s) =>
    /\ wq[s] = <<>>
    /\ \A r \in Reqs : req[r].sock # s
    /\ \A c \in Coros : call[c].sock # s

\* lib/tcp.lua documents the first result of socket:write as the written bytes.
BytesAreWritten == last.call.op = "write" => last.bytes = last.taken

HasDeadline(c) ==
  Waiting(c) /\ \E t \in Timers :
    \/ armed[t] \in Reqs /\ req[armed[t]].co = c
    \/ armed[t] \in Socks /\ cur[armed[t]] = c

\* A suspended call keeps its deadline: its timer, in luaio_tcp.c that of its request or of
\* its socket's read, runs for it until it returns, whatever other calls on the same socket
\* allocate, free, fail with or overwrite.
DeadlineStays ==
  [][\A c \in Coros : HasDeadline(c) /\ call'[c] = call[c] => HasDeadline(c)']_vars

\* A call with a timeout returns, whatever the peer does: also a connect whose
\* handle is closed after the timeout.
TimedCallReturns == \A c \in Coros : HasDeadline(c) ~> Idle(c)

\* socket:close returns: everything pending on the handle is called back first.
CloseReturns == \A c \in Coros : call[c].op = "close" ~> Idle(c)

\* The calls keep the promise of AsyncCall.
Calls == INSTANCE AsyncCall WITH
  Clients <- Coros,
  Calls <- Call,
  Follow <- {<<[op |-> "connect", sock |-> s], [op |-> "close", sock |-> s]>> : s \in Socks},
  None <- NoCall,
  pending <- call,
  outcome <- IF last = NoResult THEN [client |-> NoCall, call |-> NoCall]
             ELSE [client |-> last.co, call |-> last.call]

KeepsPromise == Calls!Spec
=============================================================================
