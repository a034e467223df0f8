----------------------------- MODULE AsyncCall -----------------------------
(***************************************************************************)
(* What LuaIO promises a coroutine that makes a blocking-looking call: the *)
(* call either returns at once or suspends the coroutine, and a suspended  *)
(* coroutine is resumed exactly once, with the outcome of the very call it *)
(* is suspended in.  Nothing is said of how: no loop, no timers, no        *)
(* requests.                                                               *)
(***************************************************************************)
CONSTANTS
  Clients,  \* the coroutines
  Calls,    \* the calls they can make
  Follow,   \* the calls a coroutine may make, before it returns to the loop,
            \* on the outcome of another: a set of pairs of calls
  None      \* no call: not in Calls

VARIABLES
  pending,  \* the call each coroutine is suspended in, or None
  outcome   \* the coroutine and the call of the last outcome delivered

callVars == <<pending, outcome>>

Nothing == [client |-> None, call |-> None]
Outcome == [client : Clients, call : Calls] \cup {Nothing}

TypeOK ==
  /\ pending \in [Clients -> Calls \cup {None}]
  /\ outcome \in Outcome

Init ==
  /\ pending = [c \in Clients |-> None]
  /\ outcome = Nothing

\* A call that has its outcome at once: the coroutine is never suspended.
Immediate(c, k) ==
  /\ pending[c] = None
  /\ outcome' = [client |-> c, call |-> k]
  /\ UNCHANGED pending

\* A call that suspends its coroutine.
Suspend(c, k) ==
  /\ pending[c] = None
  /\ pending' = [pending EXCEPT ![c] = k]
  /\ outcome' = Nothing

\* The loop resumes a suspended coroutine with the outcome of its call.
Resume(c) ==
  /\ pending[c] # None
  /\ outcome' = [client |-> c, call |-> pending[c]]
  /\ pending' = [pending EXCEPT ![c] = None]

\* The same, and on the outcome the coroutine suspends at once in a next call.
Chain(c, k) ==
  /\ <<pending[c], k>> \in Follow
  /\ pending' = [pending EXCEPT ![c] = k]
  /\ outcome' = Nothing

Next ==
  \E c \in Clients :
    \/ Resume(c)
    \/ \E k \in Calls : Immediate(c, k) \/ Suspend(c, k) \/ Chain(c, k)

Spec == Init /\ [][Next]_callVars
=============================================================================
