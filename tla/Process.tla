------------------------------- MODULE Process -------------------------------
(***************************************************************************)
(* process.on, off, exit and fork (src/lib/process.lua over the emitter,   *)
(* src/src/luaio_signal.c and luaio_process.c): the handlers of the        *)
(* process's events, the signals that are watched for them, and the child  *)
(* processes, of which the ones forked with `forever` are started again    *)
(* when they exit.  The program, which the handlers belong to, may         *)
(* register and remove handlers and fork at any time, in a callback too;   *)
(* while one runs, nothing else happens.                                   *)
(***************************************************************************)
EXTENDS Events, FiniteSets

CONSTANTS
  Signals,  \* names of signals the program handles
  Jobs,     \* its calls of fork
  Forever,  \* those with the option forever
  Pids,     \* identifiers the system gives to child processes
  None

Names == Signals \cup {"exit"}

ASSUME ProcessAssumption == "exit" \notin Signals /\ Forever \subseteq Jobs /\ None \notin Jobs \cup Pids

VARIABLES
  process,   \* whether the process runs, has exited, or an error in a handler ended it
  handlers,  \* __EVENTS__ of the emitter
  watched,   \* the signals with a started handle
  failed,    \* those whose handle did not start
  emitting,  \* the emissions that are going on, the last one begun first
  child,     \* what each pid is: a child that is alive, or one that has exited and was reaped
  pids,      \* the table pids: the fork each pid belongs to
  onexit,    \* the pid whose onexit function is running
  forked,    \* history: forks that succeeded
  dropped    \* history: forks that could not be started again

processVars == <<process, handlers, watched, failed, emitting, child, pids, onexit, forked, dropped>>
eventVars == <<handlers, watched, failed, emitting>>
childVars == <<child, pids, onexit, forked, dropped>>

\* The table signals has a handle for either.
signals == watched \cup failed

ProcessTypeOK ==
  /\ process \in {"runs", "exited", "died"}
  /\ handlers \in [Names -> Sets]
  /\ watched \subseteq Signals
  /\ failed \subseteq Signals
  /\ \A n \in DOMAIN emitting : emitting[n].name \in Names
  /\ child \in [Pids -> {"free", "alive", "exited"}]
  /\ pids \in [Pids -> Jobs \cup {None}]
  /\ onexit \in Pids \cup {None}
  /\ forked \subseteq Jobs
  /\ dropped \subseteq Forever

ProcessInit ==
  /\ process = "runs"
  /\ handlers = [n \in Names |-> EmptySet]
  /\ watched = {}
  /\ failed = {}
  /\ emitting = <<>>
  /\ child = [p \in Pids |-> "free"]
  /\ pids = [p \in Pids |-> None]
  /\ onexit = None
  /\ forked = {}
  /\ dropped = {}

\* The event loop is about to handle an event.
InLoop == process = "runs" /\ emitting = <<>> /\ onexit = None

-----------------------------------------------------------------------------

\* process.on: the first handler of a signal makes a handle and starts it.  Nobody looks
\* whether that failed, as for SIGKILL and SIGSTOP, and with the handle in the table
\* nobody tries again.
On(n, v) ==
  /\ process = "runs"
  /\ \/ /\ n \in Signals \ signals
        /\ \/ watched' = watched \cup {n} /\ UNCHANGED failed
           \/ failed' = failed \cup {n} /\ UNCHANGED watched
     \/ /\ n \notin Signals \ signals
        /\ UNCHANGED <<watched, failed>>
  /\ handlers' = [handlers EXCEPT ![n] = Add(@, v)]
  /\ UNCHANGED <<process, emitting, childVars>>

\* process.off(name, callback) leaves the handle of the signal.
Off(n, v) ==
  /\ process = "runs"
  /\ handlers' = [handlers EXCEPT ![n] = Delete(@, v)]
  /\ emitting' = [k \in DOMAIN emitting |->
       IF emitting[k].name = n THEN AfterDelete(emitting[k], handlers[n], v) ELSE emitting[k]]
  /\ UNCHANGED <<process, watched, failed, childVars>>

\* Mutant: without a callback the handlers stay registered.
ClearsNothing(n) == handlers

Cleared(n) == [handlers EXCEPT ![n] = EmptySet]

\* process.off(name) stops and closes the handle and clears the set of handlers.
OffAll(n) ==
  /\ process = "runs"
  /\ watched' = watched \ {n}
  /\ failed' = failed \ {n}
  /\ handlers' = Cleared(n)
  /\ emitting' = [k \in DOMAIN emitting |->
       IF emitting[k].name = n THEN AfterClear(emitting[k], handlers[n]) ELSE emitting[k]]
  /\ UNCHANGED <<process, childVars>>

\* emitter:emit(name), which does nothing without handlers.
Emit(n) ==
  emitting' = IF handlers[n].size = 0 THEN emitting ELSE <<Emission(n, handlers[n])>> \o emitting

\* A watched signal arrives.
Signal(n) ==
  /\ InLoop
  /\ n \in watched
  /\ Emit(n)
  /\ UNCHANGED <<process, handlers, watched, failed, childVars>>

\* The loop of emit calls the next handler; a nil in its place is an error, which ends
\* the process.
CallHandler ==
  /\ process = "runs"
  /\ emitting # <<>>
  /\ LET e == Head(emitting)
         values == Walked(e, handlers[e.name])
     IN /\ e.i < e.size
        /\ \/ /\ e.i < Len(values)
              /\ emitting' = <<Called(e, values[e.i + 1])>> \o Tail(emitting)
              /\ UNCHANGED process
           \/ /\ e.i >= Len(values)
              /\ process' = "died"
              /\ UNCHANGED emitting
  /\ UNCHANGED <<handlers, watched, failed, childVars>>

\* emit returns; process.exit then ends the process.
EndEmission ==
  /\ process = "runs"
  /\ emitting # <<>>
  /\ Head(emitting).i = Head(emitting).size
  /\ emitting' = Tail(emitting)
  /\ process' = IF Head(emitting).name = "exit" THEN "exited" ELSE process
  /\ UNCHANGED <<handlers, watched, failed, childVars>>

\* process.exit, as part of an action of the loop.
Exit ==
  /\ Emit("exit")
  /\ process' = IF handlers["exit"].size = 0 THEN "exited" ELSE process
  /\ UNCHANGED <<handlers, watched, failed>>

\* The program calls process.exit, from a handler too.
ExitCall ==
  /\ process = "runs"
  /\ \A k \in DOMAIN emitting : emitting[k].name # "exit"
  /\ Exit
  /\ UNCHANGED childVars

-----------------------------------------------------------------------------

\* process.fork: the new child may get any pid that is free.
Fork(j) ==
  /\ process = "runs"
  /\ j \notin forked
  /\ \E p \in {q \in Pids : child[q] = "free"} :
       /\ child' = [child EXCEPT ![p] = "alive"]
       /\ pids' = [pids EXCEPT ![p] = j]
  /\ forked' = forked \cup {j}
  /\ UNCHANGED <<process, eventVars, onexit, dropped>>

\* A child exits and is reaped; its pid is taken not to be given to another one before
\* its onexit function has run.
ChildExits(p) ==
  /\ process = "runs"
  /\ child[p] = "alive"
  /\ child' = [child EXCEPT ![p] = "exited"]
  /\ UNCHANGED <<process, eventVars, pids, onexit, forked, dropped>>

\* luaio_process_onexit calls _onexit, and this the program's onexit.
OnExit(p) ==
  /\ InLoop
  /\ child[p] = "exited"
  /\ onexit' = p
  /\ UNCHANGED <<process, eventVars, child, pids, forked, dropped>>

\* Mutant: the entry is cleared after the spawn, which may have got the same pid.
ClearsLate(p, q, j) == [[pids EXCEPT ![q] = j] EXCEPT ![p] = None]

\* pids[pid] = nil, then pids[_pid] = pid_info.
Respawned(p, q, j) == [[pids EXCEPT ![p] = None] EXCEPT ![q] = j]

\* The rest of _onexit: with forever the child is started again, under any free pid, its
\* own included; a spawn that fails is not tried again.
ExitHandled ==
  /\ process = "runs"
  /\ emitting = <<>>
  /\ onexit # None
  /\ LET job == pids[onexit]
         free == [child EXCEPT ![onexit] = "free"]
     IN \/ /\ job \in Forever
           /\ \E q \in {q \in Pids : free[q] = "free"} :
                /\ child' = [free EXCEPT ![q] = "alive"]
                /\ pids' = Respawned(onexit, q, job)
           /\ UNCHANGED dropped
        \/ /\ child' = free
           /\ pids' = [pids EXCEPT ![onexit] = None]
           /\ dropped' = IF job \in Forever THEN dropped \cup {job} ELSE dropped
  /\ onexit' = None
  /\ UNCHANGED <<process, eventVars, forked>>

ProcessNext ==
  \/ \E n \in Names : OffAll(n) \/ (\E v \in Handlers : On(n, v) \/ Off(n, v))
  \/ \E n \in Signals : Signal(n)
  \/ CallHandler
  \/ EndEmission
  \/ ExitCall
  \/ \E j \in Jobs : Fork(j)
  \/ \E p \in Pids : ChildExits(p) \/ OnExit(p)
  \/ ExitHandled

ProcessSpec == ProcessInit /\ [][ProcessNext]_processVars

-----------------------------------------------------------------------------

\* However handlers are added and removed, the places the set has noted are those where
\* its members are: a handler can be removed again, and is called once (set.lua:12-35).
SetsConsistent == \A n \in Names : Consistent(handlers[n])

\* An emission calls the handlers that were registered when it began, each once and in
\* order, whatever they add and even if they remove all; only deleting a single handler
\* while the event is emitted disturbs it (emitter.lua:45-49, set.lua:21-43).
EmitsToAll ==
  \A k \in DOMAIN emitting :
    ~emitting[k].deleted => emitting[k].called = SubSeq(emitting[k].from, 1, emitting[k].i)

\* An error in emit ends the process only after such a deletion (emitter.lua:48).
DiesOfDeletion == process = "died" => Head(emitting).deleted

\* A signal with a handler is watched unless its handle failed to start, also when a
\* handler removed the event and registered it again: no sequence of on and off stops the
\* handle behind the handlers' back (process.lua:258-287).
HandledSignalsWatched ==
  \A n \in Signals : handlers[n].size > 0 => n \in watched \/ n \in failed

\* The table pids has exactly the children that are alive or whose exit has not been
\* handled, and a fork with forever has one child as long as no spawn of it failed
\* (process.lua:156-198).
ChildrenKept ==
  process = "runs" =>
    /\ \A p \in Pids : pids[p] # None <=> child[p] # "free"
    /\ \A j \in forked \cap Forever :
         Cardinality({p \in Pids : pids[p] = j}) = IF j \in dropped THEN 0 ELSE 1

=============================================================================
