------------------------------ MODULE TcpServer ------------------------------
(***************************************************************************)
(* The server of src/lib/tcp.lua with the onconnect of                     *)
(* src/src/luaio_tcp.c below and the process it runs in.  Every accepted   *)
(* connection gets a coroutine, which runs the program's onconnect and     *)
(* then closes the socket; the server counts the connections against       *)
(* max_connections and, when the program has set the field quit, the last  *)
(* one to close closes the server and ends the process.  Reads and writes  *)
(* of the connections are those of TcpSocket and left out.                 *)
(***************************************************************************)
EXTENDS Process

CONSTANTS
  Conns,          \* connections that clients make
  MaxConnections

ASSUME TcpServerAssumption == MaxConnections \in Nat \ {0} /\ IsFiniteSet(Conns)

VARIABLES
  conn,         \* what became of each connection
  connections,
  quit,
  closed,
  listening,    \* the handle of the server: open, closing or closed
  exits         \* history: the server has called process.exit

serverVars == <<conn, connections, quit, closed, listening, exits>>
vars == <<processVars, serverVars>>

\* refused: accepted by libuv and left alone; failing: closed for lack of memory;
\* last: its coroutine waits for the close of the server before it closes the socket.
Conn == {"none", "refused", "failing", "serving", "last", "closing", "closed"}

TypeOK ==
  /\ ProcessTypeOK
  /\ conn \in [Conns -> Conn]
  /\ connections \in 0 .. MaxConnections
  /\ quit \in BOOLEAN
  /\ closed \in BOOLEAN
  /\ listening \in {"open", "closing", "closed"}
  /\ exits \in BOOLEAN

Init ==
  /\ ProcessInit
  /\ conn = [c \in Conns |-> "none"]
  /\ connections = 0
  /\ quit = FALSE
  /\ closed = FALSE
  /\ listening = "open"
  /\ exits = FALSE

Serving == {c \in Conns : conn[c] = "serving"}

Refuses == closed \/ quit \/ connections + 1 > MaxConnections

\* luaio_tcp_server_onconnect and _onconnect: a coroutine for the new connection, up to
\* where the program's onconnect waits.
Accept(c) ==
  /\ InLoop
  /\ listening = "open"
  /\ conn[c] = "none"
  /\ \/ /\ Refuses
        /\ conn' = [conn EXCEPT ![c] = "refused"]
        /\ UNCHANGED connections
     \/ /\ ~Refuses
        /\ conn' = [conn EXCEPT ![c] = "serving"]
        /\ connections' = connections + 1
     \/ /\ ~Refuses  \* no memory for the socket
        /\ conn' = [conn EXCEPT ![c] = "failing"]
        /\ UNCHANGED connections
  /\ UNCHANGED <<processVars, quit, closed, listening, exits>>

\* Mutants: the count is looked at before it is decreased; a server that the program has
\* closed already does not end the process.
ExitsEarly == quit /\ connections <= 2
ExitsOnlyOpen == quit /\ connections = 1 /\ ~closed

\* _decrease_connections finds that it was the last connection of a server that quits.
ExitsNow == quit /\ connections = 1

\* Mutant: Socket:close does not look at the field closed.
ClosesAgain(c) == conn[c] \in {"serving", "closing"}

\* The socket has a server and is not closed.
Closable(c) == conn[c] = "serving"

\* The program's onconnect returns, or calls socket:close() itself.  The last connection
\* waits for the close of the server, which Server:close skips if it was closed before.
CloseSocket(c) ==
  /\ InLoop
  /\ Closable(c)
  /\ connections' = connections - 1
  /\ \/ /\ ~ExitsNow
        /\ conn' = [conn EXCEPT ![c] = "closing"]
        /\ UNCHANGED <<processVars, closed, listening, exits>>
     \/ /\ ExitsNow /\ ~closed
        /\ conn' = [conn EXCEPT ![c] = "last"]
        /\ closed' = TRUE
        /\ listening' = "closing"
        /\ UNCHANGED <<processVars, exits>>
     \/ /\ ExitsNow /\ closed
        /\ exits' = TRUE
        /\ Exit
        /\ UNCHANGED <<childVars, conn, closed, listening>>
  /\ UNCHANGED quit

\* luaio_tcp_socket_onclose of a connection: its coroutine goes on and ends.
SocketClosed(c) ==
  /\ InLoop
  /\ conn[c] \in {"closing", "failing"}
  /\ conn' = [conn EXCEPT ![c] = "closed"]
  /\ UNCHANGED <<processVars, connections, quit, closed, listening, exits>>

\* luaio_tcp_socket_onclose of the server: the coroutine that closed it goes on, and if
\* it is the one of the last connection, calls process.exit.
ServerClosed ==
  /\ InLoop
  /\ listening = "closing"
  /\ listening' = "closed"
  /\ \/ /\ \A c \in Conns : conn[c] # "last"
        /\ UNCHANGED <<process, eventVars, exits>>
     \/ /\ \E c \in Conns : conn[c] = "last"
        /\ exits' = TRUE
        /\ Exit
  /\ UNCHANGED <<childVars, conn, connections, quit, closed>>

\* The program sets the field quit, in a handler of SIGTERM for example.
SetQuit ==
  /\ process = "runs"
  /\ quit' = TRUE
  /\ UNCHANGED <<processVars, conn, connections, closed, listening, exits>>

\* The program calls server:close().
CloseServer ==
  /\ process = "runs"
  /\ ~closed
  /\ closed' = TRUE
  /\ listening' = "closing"
  /\ UNCHANGED <<processVars, conn, connections, quit, exits>>

Next ==
  \/ ProcessNext /\ UNCHANGED serverVars
  \/ \E c \in Conns : Accept(c) \/ CloseSocket(c) \/ SocketClosed(c)
  \/ ServerClosed
  \/ SetQuit
  \/ CloseServer

\* A callback ends, the loop gets round to every event, and the program's onconnect
\* returns, which the timeouts of a socket allow it to make sure of.
Fairness ==
  /\ WF_vars((CallHandler \/ EndEmission \/ ExitHandled) /\ UNCHANGED serverVars)
  /\ SF_vars(ServerClosed)
  /\ \A c \in Conns : SF_vars(CloseSocket(c))

Spec == Init /\ [][Next]_vars /\ Fairness

-----------------------------------------------------------------------------

\* The server counts the connections it serves, no more and no less, over refused ones,
\* failures and closes, and so keeps to its limit (tcp.lua:369-390, 413-414).
ConnectionsCounted ==
  /\ exits \/ connections = Cardinality(Serving)
  /\ Cardinality(Serving) <= MaxConnections

\* When a server that quits ends the process, no connection is being served and no new
\* one can come (tcp.lua:369-371, 416-419).
ExitIsClean == exits => connections = 0 /\ closed

\* A server told to quit while it serves connections ends the process in the end; told
\* when it serves none, it would not (tcp.lua:416-421).
QuitExits == quit /\ connections > 0 ~> process # "runs"

=============================================================================
