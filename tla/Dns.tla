--------------------------------- MODULE Dns ---------------------------------
(***************************************************************************)
(* Name resolution (src/src/luaio_dns.c over c-ares and libuv): coroutines *)
(* wait for queries, which c-ares sends over UDP, or over TCP after a      *)
(* truncated answer, with one socket of each kind for a name server.       *)
(* c-ares reports the sockets it opens and closes; each has a task in a    *)
(* hash table and a poll handle, and one timer, which runs while there are *)
(* tasks, makes queries time out.                                          *)
(*                                                                         *)
(* A query that cannot be sent, or whose server fails, moves on to another *)
(* server in the same call of c-ares: it is in `resend` meanwhile, and     *)
(* nothing else of the loop runs.                                          *)
(*                                                                         *)
(* A poll handle closes in two steps: uv_close now, its callback at the    *)
(* end of the iteration of the loop.  c-ares closes the descriptor in      *)
(* between, so that the next socket may get the same number while the task *)
(* is still in the table; then uv_poll_start is called on a handle that is *)
(* closing, which libuv forbids.  The model shows how this is reached and  *)
(* stops there (`undefined`).                                              *)
(***************************************************************************)
EXTENDS Hash, FiniteSets

CONSTANTS
  Queries,
  Servers,
  Tries,   \* how often c-ares sends a query before it gives up
  None

\* The keys of the table are descriptors.
Fds == Keys

ASSUME DnsAssumption ==
  /\ Tries \in Nat \ {0}
  /\ IsFiniteSet(Fds)
  /\ None \notin Fds
  /\ Servers \cap {"new", "ended"} = {}

VARIABLES
  query,     \* the server each query has been sent to, or whether it is new or has ended
  tries,     \* how often it has been sent
  tcp,       \* the queries that use TCP
  resend,    \* the queries that c-ares moves on to another server
  sock,      \* the descriptor of each socket, or None
  poll,      \* the poll handle of each descriptor: none, polling or closing
  tasks,     \* luaio_ares_tasks
  timer,     \* luaio_ares_timer is active
  undefined

vars == <<query, tries, tcp, resend, sock, poll, tasks, timer, undefined>>

\* A server and the transport by which it is asked.
Ports == Servers \X {"udp", "tcp"}

TypeOK ==
  /\ query \in [Queries -> Servers \cup {"new", "ended"}]
  /\ tries \in [Queries -> 0 .. Tries]
  /\ tcp \in SUBSET Queries
  /\ resend \in SUBSET Queries
  /\ sock \in [Ports -> Fds \cup {None}]
  /\ poll \in [Fds -> {"none", "polling", "closing"}]
  /\ tasks \in Tables
  /\ timer \in BOOLEAN
  /\ undefined \in BOOLEAN

Init ==
  /\ query = [q \in Queries |-> "new"]
  /\ tries = [q \in Queries |-> 0]
  /\ tcp = {}
  /\ resend = {}
  /\ sock = [p \in Ports |-> None]
  /\ poll = [f \in Fds |-> "none"]
  /\ tasks = EmptyTable
  /\ timer = FALSE
  /\ undefined = FALSE

Waiting == {q \in Queries : query[q] \in Servers}

\* Where q goes when its server is s, and where it has gone.
PortOf(q, s) == <<s, IF q \in tcp THEN "tcp" ELSE "udp">>
Port(q) == PortOf(q, query[q])

\* Descriptors that the process has not open: those of closed sockets are free at once.
FreeFds == {f \in Fds : \A p \in Ports : sock[p] # f}

-----------------------------------------------------------------------------

\* Mutant: the timer is started with the first query only.
StartsOnce(t) == timer \/ \A q \in Queries : tries[q] = 0

\* The timer is started if it is not active.
Started(t) == TRUE

\* sockstate_callback for a socket that is opened: a new task, whose handle polls, or
\* the old one's handle is started.
Opened(f) ==
  IF Has(tasks, f)
  THEN /\ undefined' = (poll[f] = "closing")
       /\ UNCHANGED <<poll, tasks, timer>>
  ELSE /\ timer' = Started(tasks)
       /\ tasks' = Set(tasks, f)
       /\ poll' = [poll EXCEPT ![f] = "polling"]
       /\ UNCHANGED undefined

\* The part of ares__send_query that has a socket: it is opened when there is none.
SendTo(p) ==
  \/ /\ sock[p] # None
     /\ UNCHANGED <<sock, poll, tasks, timer, undefined>>
  \/ /\ sock[p] = None
     /\ \E f \in FreeFds :
          /\ sock' = [sock EXCEPT ![p] = f]
          /\ Opened(f)

\* ares__send_query: q is sent, or a write to the UDP socket fails, or no socket can be
\* opened; then q is to move on.
Attempt(q, p) ==
  \/ /\ SendTo(p)
     /\ resend' = resend \ {q}
  \/ /\ p[2] = "udp"
     /\ SendTo(p)
     /\ resend' = resend \cup {q}
  \/ /\ sock[p] = None
     /\ resend' = resend \cup {q}
     /\ UNCHANGED <<sock, poll, tasks, timer, undefined>>

\* ares__close_sockets for the servers of the ports in P: sockstate_callback closes
\* their poll handles.
CloseSockets(P) ==
  /\ sock' = [p \in Ports |-> IF p \in P THEN None ELSE sock[p]]
  /\ poll' = [f \in Fds |-> IF \E p \in P : sock[p] = f THEN "closing" ELSE poll[f]]
  /\ UNCHANGED <<tasks, timer, undefined>>

\* The loop is between two callbacks.
InLoop == ~undefined /\ resend = {}

\* ares_query for n, of a coroutine that then waits.
Ask(n, s) ==
  /\ query[n] = "new"
  /\ tries' = [tries EXCEPT ![n] = 1]
  /\ SendTo(<<s, "udp">>)

\* luaio_dns_queryA
Query(q, s) ==
  /\ InLoop
  /\ Ask(q, s)
  /\ query' = [query EXCEPT ![q] = s]
  /\ UNCHANGED <<tcp, resend>>

\* end_query: the coroutine of q is resumed, and may ask again, n, before c-ares looks
\* whether any query is left.
End(q) ==
  /\ tcp' = tcp \ {q}
  /\ resend' = resend \ {q}
  /\ \/ /\ query' = [query EXCEPT ![q] = "ended"]
        /\ UNCHANGED tries
        /\ IF Waiting = {q} THEN CloseSockets(Ports)
                            ELSE UNCHANGED <<sock, poll, tasks, timer, undefined>>
     \/ \E n \in Queries, s \in Servers :
          /\ Ask(n, s)
          /\ query' = [query EXCEPT ![q] = "ended", ![n] = s]

\* luaio_ares_poll_callback with an answer for q, perhaps to an earlier attempt.
Answer(q) ==
  /\ InLoop
  /\ q \in Waiting
  /\ \E p \in Ports : sock[p] # None /\ poll[sock[p]] = "polling"
  /\ End(q)

\* process_answer with a truncated answer for q: it is sent again over TCP.
Truncated(q) ==
  /\ InLoop
  /\ q \in Waiting \ tcp
  /\ \E s \in Servers : sock[<<s, "udp">>] # None /\ poll[sock[<<s, "udp">>]] = "polling"
  /\ tcp' = tcp \cup {q}
  /\ Attempt(q, <<query[q], "tcp">>)
  /\ UNCHANGED <<query, tries>>

\* next_server: q goes to some server, or no try is left.  Servers that are skipped, or
\* were asked over the same TCP connection, use up tries.
NextServer(q) ==
  \/ /\ tries[q] < Tries
     /\ tries' = [tries EXCEPT ![q] = @ + 1]
     /\ \E s \in Servers :
          /\ query' = [query EXCEPT ![q] = s]
          /\ Attempt(q, PortOf(q, s))
     /\ UNCHANGED tcp
  \/ End(q)

\* process_timeouts
TimesOut(q) ==
  /\ InLoop
  /\ timer
  /\ q \in Waiting
  /\ NextServer(q)

\* q is moved on, in the call of c-ares that has not ended.
MoveOn(q) ==
  /\ ~undefined
  /\ q \in resend
  /\ NextServer(q)

\* luaio_ares_poll_callback with an error on a socket to s, or a connection that c-ares
\* has found broken: handle_error closes the sockets of s and moves on the queries that
\* wait for it.
ServerFails(s) ==
  /\ InLoop
  /\ \E p \in Ports : p[1] = s /\ sock[p] # None
  /\ CloseSockets({p \in Ports : p[1] = s})
  /\ resend' = {q \in Waiting : query[q] = s}
  /\ UNCHANGED <<query, tries, tcp>>

\* Mutant: the timer is stopped whenever a task goes.
StopsAlways(t) == FALSE

\* Mutant: the timer is never stopped.
NeverStops(t) == timer

\* The timer goes on while there are tasks.
GoesOn(t) == timer /\ t.items > 0

\* luaio_ares_poll_close_callback
PollClosed(f) ==
  /\ InLoop
  /\ poll[f] = "closing"
  /\ tasks' = Remove(tasks, f)
  /\ poll' = [poll EXCEPT ![f] = "none"]
  /\ timer' = GoesOn(Remove(tasks, f))
  /\ UNCHANGED <<query, tries, tcp, resend, sock, undefined>>

Next ==
  \/ \E q \in Queries :
       \/ \E s \in Servers : Query(q, s)
       \/ Answer(q)
       \/ Truncated(q)
       \/ TimesOut(q)
       \/ MoveOn(q)
  \/ \E s \in Servers : ServerFails(s)
  \/ \E f \in Fds : PollClosed(f)

\* The loop runs the timer, and so does c-ares with every event of a socket; a call of
\* c-ares goes on to its end.  Nothing is assumed of name servers.
Fairness ==
  /\ \A q \in Queries : WF_vars(TimesOut(q)) /\ WF_vars(MoveOn(q))
  /\ \A f \in Fds : WF_vars(PollClosed(f))

Spec == Init /\ [][Next]_vars /\ Fairness

-----------------------------------------------------------------------------

\* The table has exactly the descriptors with a poll handle, each to be found, and its
\* count is theirs (luaio_hash.c:190-267, luaio_dns.c:43-45, 95).
TasksFound ==
  /\ \A f \in Fds : Has(tasks, f) <=> poll[f] # "none"
  /\ tasks.items = Cardinality({f \in Fds : poll[f] # "none"})

\* A query that waits, and is not being moved on, has a socket that is polled, and the
\* timer runs, whatever closes or fails meanwhile (luaio_dns.c:43-47, 80-101).
QueriesWatched ==
  undefined \/ \A q \in Waiting \ resend :
                 timer /\ sock[Port(q)] # None /\ poll[sock[Port(q)]] = "polling"

\* The timer is stopped with the last task, so that the loop may end (luaio_dns.c:45-47).
TimerStops == timer => \E f \in Fds : poll[f] # "none"

\* A query ends, with an answer or because it times out (luaio_dns.c:91-92, 98), if no
\* descriptor was used again while its poll handle was closing.
QueryEnds == \A q \in Queries : q \in Waiting ~> query[q] = "ended" \/ undefined

=============================================================================
