------------------------------ MODULE Parallel ------------------------------
(***************************************************************************)
(* parallel.all and parallel.map (src/lib/parallel.lua): a coroutine runs  *)
(* functions in coroutines of their own, at most `limit` at a time, and    *)
(* gets all their results.  A round starts functions until `limit` of them *)
(* are suspended; the caller yields and the last one of the round resumes  *)
(* it.                                                                     *)
(*                                                                         *)
(* Every call assigns the global variable collect, and a function looks it *)
(* up when it starts.  Any coroutine, a function of a call in its first    *)
(* step too, may make a call, so calls overlap; a call that begins while   *)
(* another one still has functions to start takes those functions' results *)
(* away.  The model lets this happen and keeps, in `disturbed`, the calls  *)
(* that are involved: the properties are about all the others.             *)
(*                                                                         *)
(* Coroutines do not preempt each other: `stack` holds the callers that    *)
(* run, the last one resumed first, and an event of the loop ends a        *)
(* function only when it is empty.                                         *)
(***************************************************************************)
EXTENDS Naturals, Integers, Sequences, FiniteSets

CONSTANTS
  Callers,  \* coroutines that make one call each
  Num,      \* #funcs, #args
  Limits,   \* the limits they pass
  NoCaller

\* With no function, or with a limit of 0, the loop never yields and never ends.
ASSUME ParallelAssumption ==
  Num \in Nat \ {0} /\ Limits \subseteq 1 .. Num /\ NoCaller \notin Callers

Index == 1 .. Num

VARIABLES
  status,     \* where the caller is
  limit,
  index,      \* functions started
  running,
  completed,
  fn,         \* what each function of each call does
  by,         \* the call whose collect the function took when it started
  results,    \* whose function's values are at each place, or NoCaller
  collect,    \* the call that assigned the global variable last
  stack,
  disturbed   \* history: calls that another one overlapped before it had started all its functions

vars == <<status, limit, index, running, completed, fn, by, results, collect, stack, disturbed>>

Status == {"idle", "running", "waiting", "returned", "astray"}
Function == {"new", "running", "suspended", "done", "raised"}

TypeOK ==
  /\ status \in [Callers -> Status]
  /\ limit \in [Callers -> Index]
  /\ index \in [Callers -> 0 .. Num]
  /\ running \in [Callers -> 0 .. Num]
  /\ completed \in [Callers -> Int]
  /\ fn \in [Callers -> [Index -> Function]]
  /\ by \in [Callers -> [Index -> Callers \cup {NoCaller}]]
  /\ results \in [Callers -> [Index -> Callers \cup {NoCaller}]]
  /\ collect \in Callers \cup {NoCaller}
  /\ stack \in Seq(Callers)
  /\ disturbed \subseteq Callers

Init ==
  /\ status = [c \in Callers |-> "idle"]
  /\ limit = [c \in Callers |-> Num]
  /\ index = [c \in Callers |-> 0]
  /\ running = [c \in Callers |-> 0]
  /\ completed = [c \in Callers |-> 0]
  /\ fn = [c \in Callers |-> [i \in Index |-> "new"]]
  /\ by = [c \in Callers |-> [i \in Index |-> NoCaller]]
  /\ results = by
  /\ collect = NoCaller
  /\ stack = <<>>
  /\ disturbed = {}

\* The caller that runs, the function it has started being in its first step or the loop
\* itself.
Running(c) == stack # <<>> /\ Head(stack) = c
InFunction(c) == Running(c) /\ index[c] > 0 /\ fn[c][index[c]] = "running"
InLoop(c) == Running(c) /\ ~InFunction(c)

\* Mutant: the loop starts one function too many.
StartsOneMore(c) == InLoop(c) /\ running[c] <= limit[c] /\ index[c] < Num

\* It starts another function.
Starting(c) == InLoop(c) /\ running[c] < limit[c] /\ index[c] < Num

\* Calls that have functions to start, which will look collect up.
Unfinished == {c \in Callers : status[c] \in {"running", "waiting"} /\ index[c] < Num}

\* The call of c begins, from the event loop or from a function that runs.
Begin(c) ==
  /\ status[c] = "idle"
  /\ stack = <<>> \/ InFunction(Head(stack))
  /\ \E l \in Limits : limit' = [limit EXCEPT ![c] = l]
  /\ status' = [status EXCEPT ![c] = "running"]
  /\ collect' = c
  /\ stack' = <<c>> \o stack
  /\ disturbed' = IF Unfinished = {} THEN disturbed ELSE disturbed \cup Unfinished \cup {c}
  /\ UNCHANGED <<index, running, completed, fn, by, results>>

\* Mutant: a function looks collect up when it ends.
LooksUpLate(c, i) == collect

\* The call that gets the result of function i of c: collect is evaluated before func().
Collector(c, i) == by[c][i]

\* Mutant: one result too few resumes the caller.
ResumesEarly(d) == completed[d] + 2 >= running[d]

\* Mutant: a function that ends in its first step counts as a completed one.
CountsBoth(d) == completed[d] = running[d]

\* collect(): the count with the new result is that of the round.
RoundComplete(d) == completed[d] + 1 = running[d]

\* Mutant: the counts of a round go on in the next one.
KeepsCounts(d, n) == [running EXCEPT ![d] = @]

\* running = 0 before the next round, when there is one.
NextRound(d, r) == [r EXCEPT ![d] = IF index[d] < Num THEN 0 ELSE @]

\* co_resume(parent_co) at the end of a round: the caller returns or starts the next
\* round; if it is running already nothing happens; if the call has returned, whatever
\* its coroutine waits for now is taken to have ended.
ResumeParent(d) ==
  /\ status' = [status EXCEPT ![d] =
       CASE @ = "waiting" -> IF index[d] = Num THEN "returned" ELSE "running"
         [] @ = "returned" -> "astray"
         [] OTHER -> @]
  /\ stack' = IF status[d] = "waiting" /\ index[d] < Num THEN <<d>> \o stack ELSE stack

\* collect(i, ...) for the result of function i of c; `less` is what the loop of c
\* takes off its own count when the function has not been suspended.
Collect(d, c, i, less) ==
  LET resumes == RoundComplete(d) /\ status[d] = "waiting"
      next == resumes /\ index[d] < Num
      counted == [completed EXCEPT ![d] = IF next THEN 0 ELSE @ + 1]
  IN /\ results' = [results EXCEPT ![d][i] = c]
     /\ completed' = [counted EXCEPT ![c] = @ - less]
     /\ running' = IF next THEN NextRound(d, running) ELSE running
     /\ IF RoundComplete(d) THEN ResumeParent(d) ELSE UNCHANGED <<status, stack>>

\* co_resume(co, ...): a function is started, and looks collect up.
Start(c) ==
  LET i == index[c] + 1
  IN /\ Starting(c)
     /\ index' = [index EXCEPT ![c] = i]
     /\ fn' = [fn EXCEPT ![c][i] = "running"]
     /\ by' = [by EXCEPT ![c][i] = collect]
     /\ UNCHANGED <<status, limit, running, completed, results, collect, stack, disturbed>>

\* It ends in its first step: it counts in completed and, as a dead coroutine, is taken
\* off again.
EndAtOnce(c) ==
  LET i == index[c]
  IN /\ InFunction(c)
     /\ fn' = [fn EXCEPT ![c][i] = "done"]
     /\ Collect(Collector(c, i), c, i, 1)
     /\ UNCHANGED <<limit, index, by, collect, disturbed>>

\* It is suspended in its first step.
Suspend(c) ==
  /\ InFunction(c)
  /\ fn' = [fn EXCEPT ![c][index[c]] = "suspended"]
  /\ running' = [running EXCEPT ![c] = @ + 1]
  /\ UNCHANGED <<status, limit, index, completed, by, results, collect, stack, disturbed>>

\* It raises an error in its first step, which co_resume hides.
Raise(c) ==
  /\ InFunction(c)
  /\ fn' = [fn EXCEPT ![c][index[c]] = "raised"]
  /\ completed' = [completed EXCEPT ![c] = @ - 1]
  /\ UNCHANGED <<status, limit, index, running, by, results, collect, stack, disturbed>>

\* The loop has started what it may: the caller yields or, with nothing suspended, returns.
EndRound(c) ==
  /\ InLoop(c)
  /\ ~Starting(c)
  /\ status' = [status EXCEPT ![c] = IF running[c] > 0 THEN "waiting" ELSE "returned"]
  /\ stack' = Tail(stack)
  /\ UNCHANGED <<limit, index, running, completed, fn, by, results, collect, disturbed>>

\* A suspended function is resumed and ends.  An error while the event loop resumes it
\* would end the process (luaio_resume).
Finish(c, i) ==
  /\ stack = <<>>
  /\ fn[c][i] = "suspended"
  /\ fn' = [fn EXCEPT ![c][i] = "done"]
  /\ Collect(Collector(c, i), c, i, 0)
  /\ UNCHANGED <<limit, index, by, collect, disturbed>>

\* A suspended function that waited in a call of its own is resumed by the co_resume of
\* that call's collector, and raises an error: it is dropped there, and neither collect
\* nor the loop of c counts the function.
RaiseLate(c, i) ==
  /\ stack = <<>>
  /\ fn[c][i] = "suspended"
  /\ \E d \in Callers \ {c} : status[d] \in {"returned", "astray"}
  /\ fn' = [fn EXCEPT ![c][i] = "raised"]
  /\ UNCHANGED <<status, limit, index, running, completed, by, results, collect, stack, disturbed>>

Next ==
  \E c \in Callers :
    \/ Begin(c)
    \/ Start(c)
    \/ EndAtOnce(c)
    \/ Suspend(c)
    \/ Raise(c)
    \/ EndRound(c)
    \/ \E i \in Index : Finish(c, i) \/ RaiseLate(c, i)

\* The loop of a caller runs on; that a suspended function ends is up to the program.
Fairness ==
  \A c \in Callers :
    /\ WF_vars(Start(c) \/ EndAtOnce(c) \/ Suspend(c) \/ Raise(c) \/ EndRound(c))
    /\ \A i \in Index : WF_vars(Finish(c, i))

Spec == Init /\ [][Next]_vars /\ Fairness

-----------------------------------------------------------------------------

Suspended(c) == {i \in Index : fn[c][i] = "suspended"}
Raised(c) == \E i \in Index : fn[c][i] = "raised"
Undisturbed == Callers \ disturbed

\* A call that no other one overlapped while functions were to be started has the values
\* of its own functions at their places and nothing else, though collect may have been
\* assigned many times since they started (parallel.lua:29-35, 40-42).
OwnResults ==
  \A c \in Undisturbed : \A i \in Index :
    results[c][i] = IF fn[c][i] = "done" THEN c ELSE NoCaller

\* It returns when every function has been started and has ended: none is suspended
\* (parallel.lua:32-34, 57-58).
ReturnsWithAll ==
  \A c \in Undisturbed :
    status[c] = "returned" => \A i \in Index : fn[c][i] \in {"done", "raised"}

\* No lost wake-up: while the caller waits, one of the functions that it waits for is
\* suspended, so that there is someone to resume it (parallel.lua:45-57), unless one
\* raised, at once or after a call of its own: then nobody may be left to.
SomeoneResumes ==
  \A c \in Undisturbed : status[c] = "waiting" /\ ~Raised(c) => Suspended(c) # {}

\* No more than limit functions of the call are suspended at once, over all its rounds
\* (parallel.lua:38).
LimitKept == \A c \in Undisturbed : Cardinality(Suspended(c)) <= limit[c]

\* Its coroutine is never resumed out of something else it waits for after the call has
\* returned (parallel.lua:33).
NoStrayResume == \A c \in Undisturbed : status[c] # "astray"

\* A call whose functions end returns, unless one of them raised, in its first step or
\* after a call of its own returned, or another call disturbed it (parallel.lua:37-61).
CallReturns ==
  \A c \in Callers :
    status[c] = "running" ~> status[c] = "returned" \/ Raised(c) \/ c \in disturbed

=============================================================================
