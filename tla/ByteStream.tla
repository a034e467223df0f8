----------------------------- MODULE ByteStream -----------------------------
(***************************************************************************)
(* What the reading calls of LuaIO promise a coroutine, without any memory *)
(* they read from: the peer's bytes arrive in order, a call takes those    *)
(* behind what was taken before it, and it returns as soon as enough of    *)
(* them have arrived and not before.  Capacity is the longest read and the *)
(* longest line.                                                           *)
(***************************************************************************)
EXTENDS Integers, Sequences

CONSTANTS
  Text,      \* what the peer sends
  Capacity,
  Numbers    \* the numbers of bytes a call may ask for

VARIABLES
  pending,   \* the call that waits, or None
  received,  \* bytes that have arrived
  taken,     \* bytes that have been read or discarded
  result     \* what the last call returned, or Nothing while it waits

streamVars == <<pending, received, taken, result>>

Kinds == {"read", "rest", "line", "discard", "discard-rest", "fixed"}
None == [kind |-> "idle", n |-> 0, from |-> 0]
Nothing == [call |-> None, bytes |-> <<>>, err |-> "none"]

Init == pending = None /\ received = 0 /\ taken = 0 /\ result = Nothing

\* The call takes n bytes and returns the first m of them.
Returns(c, n, m, err) ==
  /\ taken' = taken + n
  /\ pending' = None
  /\ result' = [call |-> c, bytes |-> [i \in 1 .. m |-> taken + i], err |-> err]

\* The call takes n bytes and waits for more.
Waits(c, n) ==
  /\ taken' = taken + n
  /\ pending' = c
  /\ result' = Nothing

\* What has arrived and not been taken, and where lines end in it.
Rest == received' - taken
Ends == {i \in 1 .. Rest : Text[taken + i] = "lf"}

Read(c) ==
  \/ c.n > Capacity /\ Returns(c, 0, 0, "raised")
  \/ c.n <= Capacity /\ c.n <= Rest /\ Returns(c, c.n, c.n, "ok")
  \/ c.n <= Capacity /\ c.n > Rest /\ Waits(c, 0)

\* The only call that does not wait.
ReadFixed(c) ==
  \/ c.n <= Rest /\ Returns(c, c.n, c.n, "ok")
  \/ c.n > Rest /\ Returns(c, 0, 0, "again")

ReadRest(c) ==
  \/ Rest > 0 /\ Returns(c, Rest, Rest, "ok")
  \/ Rest = 0 /\ Waits(c, 0)

\* A line of e bytes with its end, "\n" or "\r\n".
ReadLine(c) ==
  \/ \E e \in Ends :
       /\ \A i \in Ends : e <= i
       /\ Returns(c, e, IF e > 1 /\ Text[taken + e - 1] = "cr" THEN e - 2 ELSE e - 1, "ok")
  \/ Ends = {} /\ Rest = Capacity /\ Returns(c, 0, 0, "exceeds")
  \/ Ends = {} /\ Rest < Capacity /\ Waits(c, 0)

\* What was there has been discarded already.
Discard(c) ==
  LET left == c.from + c.n - taken
  IN \/ left <= Rest /\ Returns(c, left, 0, "ok")
     \/ left > Rest /\ Waits(c, Rest)

DiscardRest(c) == Returns(c, Rest, 0, "ok")

Reply(c) ==
  \/ c.kind = "read" /\ Read(c)
  \/ c.kind = "fixed" /\ ReadFixed(c)
  \/ c.kind = "rest" /\ ReadRest(c)
  \/ c.kind = "line" /\ ReadLine(c)
  \/ c.kind = "discard" /\ Discard(c)
  \/ c.kind = "discard-rest" /\ DiscardRest(c)

\* A call: the first one waits, whatever it asks for.
Ask(c) ==
  /\ pending = None
  /\ UNCHANGED received
  /\ \/ received = 0 /\ c.kind # "fixed" /\ Waits(c, 0)
     \/ received > 0 /\ Reply(c)

\* Bytes arrive for the call that waits.
Arrive ==
  /\ pending # None
  /\ received' \in received + 1 .. Len(Text)
  /\ Reply(pending)

\* The wait ends in a timeout, an error or the end of the stream: nothing is taken.
Fail ==
  /\ pending # None
  /\ UNCHANGED received
  /\ Returns(pending, 0, 0, "error")

Next ==
  \/ \E kind \in Kinds, n \in Numbers : Ask([kind |-> kind, n |-> n, from |-> taken])
  \/ Arrive \/ Fail

Spec == Init /\ [][Next]_streamVars
=============================================================================
