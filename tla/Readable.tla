------------------------------ MODULE Readable ------------------------------
(***************************************************************************)
(* Reading from a stream (src/lib/readable.lua over the read buffer, with  *)
(* the onalloc and onread of src/luaio_tcp.c below): one coroutine reads   *)
(* by count, by line or whatever is there; each call tries the buffer and, *)
(* on EAGAIN, waits for more data and tries again.  The peer's bytes come  *)
(* in chunks of any size, and any wait may end in a timeout, the end of    *)
(* the stream or an error, after which the program may call again.         *)
(***************************************************************************)
EXTENDS ReadBuffer

CONSTANTS
  Counts,  \* the counts read and discard are called with
  Widths   \* the widths of the fixed size reads

\* The smallest size class of the memory pool has room for the widest number.
ASSUME ReadableAssumption == Counts \subseteq Nat \ {0} /\ Widths \subseteq 1 .. Capacity

VARIABLES
  buffer,    \* read_buffer
  op,        \* the call that waits for data in _read(), or Idle
  received,  \* read_bytes
  taken,     \* bytes read or discarded since the start
  out        \* what the last call returned

vars == <<buffer, op, received, taken, out>>

\* A call, how many bytes it still has to discard, and the value taken had.
Kinds == {"read", "rest", "line", "discard", "discard-rest", "fixed"}
Call(kind, n) == [kind |-> kind, n |-> n, left |-> n, from |-> taken]
Op == [kind : Kinds, n : Nat, left : Nat, from : Nat]
Idle == [kind |-> "idle", n |-> 0, left |-> 0, from |-> 0]

Output(o, bytes, err) == [call |-> o, bytes |-> bytes, err |-> err]
NoOutput == Output(Idle, <<>>, "none")

\* Bytes of the stream, and a number of them.
Positions == 1 .. Len(Text)
Count == 0 .. Len(Text)

TypeOK ==
  /\ buffer \in Buffer
  /\ op \in Op \cup {Idle}
  /\ received \in Count
  /\ taken \in Count
  /\ out.call \in Op \cup {Idle}
  /\ out.bytes \in Seq(Positions)
  /\ out.err \in {"none", "ok", "again", "raised", "exceeds", "error"}

Init ==
  /\ buffer = EmptyBuffer
  /\ op = Idle
  /\ received = 0
  /\ taken = 0
  /\ out = NoOutput

\* What the buffer answers to the call.
Tried(o, b) ==
  CASE o.kind = "read" -> Read(b, o.n)
    [] o.kind = "rest" -> ReadRest(b)
    [] o.kind = "line" -> ReadLine(b)
    [] o.kind = "fixed" -> ReadFixed(b, o.n)
    [] o.kind = "discard-rest" -> Discard(b, Rest(b))
    [] o.kind = "discard" ->
         [Discard(b, o.left) EXCEPT !.err = IF o.left <= Rest(b) THEN "ok" ELSE "again"]

\* Mutant: the loop of discard starts over with n.
ForgetsDiscarded(o, n) == o.left

\* What is left to discard when n more bytes have been.
StillToDiscard(o, n) == o.left - n

\* The call tries buffer b, and returns or waits in _read(); only the fixed size
\* reads, which are methods of the buffer itself, return EAGAIN.
Try(o, b) ==
  LET a == Tried(o, b)
  IN /\ buffer' = a.buf
     /\ taken' = taken + a.taken
     /\ \/ /\ a.err = "again" /\ o.kind # "fixed"
           /\ op' = [o EXCEPT !.left = StillToDiscard(o, a.taken)]
           /\ out' = NoOutput
        \/ /\ a.err # "again" \/ o.kind = "fixed"
           /\ op' = Idle
           /\ out' = Output(o, a.bytes, a.err)

\* A call of the coroutine.  As long as nothing has been received there is not
\* even memory: it waits for data first.
Start(o) ==
  /\ op = Idle
  /\ \/ /\ received = 0
        /\ op' = o
        /\ out' = NoOutput
        /\ UNCHANGED <<buffer, taken>>
     \/ /\ received > 0
        /\ Try(o, buffer)
  /\ UNCHANGED received

ReadCall(n) == Start(Call("read", n))
ReadRestCall == Start(Call("rest", 0))
ReadLineCall == Start(Call("line", 0))
DiscardCall(n) == Start(Call("discard", n))
DiscardRestCall == Start(Call("discard-rest", 0))
ReadFixedCall(n) == received > 0 /\ Start(Call("fixed", n))

\* luaio_tcp_socket_onread with k bytes: the reading is stopped, the coroutine is
\* resumed and tries again.
Data(k) ==
  /\ op # Idle
  /\ received + k <= Len(Text)
  /\ buffer.write_pos + k <= Capacity
  /\ received' = received + k
  /\ Try(op, Filled(buffer, received, k))

\* _read() returns an error: a timeout, the end of the stream, a reset, or
\* UV_ENOBUFS for a buffer without room.
NoData ==
  /\ op # Idle
  /\ op' = Idle
  /\ out' = Output(op, <<>>, "error")
  /\ UNCHANGED <<buffer, received, taken>>

Next ==
  \/ \E n \in Counts : ReadCall(n) \/ DiscardCall(n)
  \/ \E n \in Widths : ReadFixedCall(n)
  \/ ReadRestCall \/ ReadLineCall \/ DiscardRestCall
  \/ \E k \in 1 .. Capacity : Data(k)
  \/ NoData

Spec == Init /\ [][Next]_vars

-----------------------------------------------------------------------------
(* Properties *)

\* The buffer holds exactly the bytes received and not yet taken, in order,
\* whatever was moved: nothing is lost, repeated or overwritten.
Contents ==
  /\ received = taken + Rest(buffer)
  /\ \A i \in 0 .. Rest(buffer) - 1 : buffer.mem[buffer.read_pos + i] = taken + i + 1

\* A call that waits, and a fixed size read that answered EAGAIN, have room for
\* more: otherwise the wait could end in nothing but UV_ENOBUFS.
RoomToRead == op # Idle \/ out.err = "again" => buffer.write_pos < Capacity

\* A call returns the bytes that follow what was taken before it.
NextBytes == \A i \in 1 .. Len(out.bytes) : out.bytes[i] = out.call.from + i

\* read(n) and discard(n) take n bytes, over as many chunks as they come in.
ExactCount ==
  out.err = "ok" /\ out.call.kind \in {"read", "discard", "fixed"} =>
    /\ taken = out.call.from + out.call.n
    /\ out.call.kind # "discard" => Len(out.bytes) = out.call.n

\* readline returns one line without its end, also when the line, or its "\r\n",
\* came in several chunks.
WholeLine ==
  out.err = "ok" /\ out.call.kind = "line" =>
    /\ taken > 0 /\ Text[taken] = "lf"
    /\ \A i \in out.call.from + 1 .. taken - 1 : Text[i] # "lf"
    /\ out.call.from + Len(out.bytes) =
         IF taken - 1 > out.call.from /\ Text[taken - 1] = "cr" THEN taken - 2 ELSE taken - 1

\* readline gives up only when a whole capacity of bytes holds no line end.
ExceedsMeansFull ==
  out.err = "exceeds" =>
    /\ received - taken = Capacity
    /\ \A i \in taken + 1 .. taken + Capacity : Text[i] # "lf"

\* A call without what it has left to discard.
Seen(o) == [kind |-> o.kind, n |-> o.n, from |-> o.from]

\* The program reads a stream and sees nothing of the buffer: a call returns what follows,
\* as soon as that has been received, and waits only as long as it has not.
Stream == INSTANCE ByteStream WITH
  Numbers <- Counts \cup Widths \cup {0},
  pending <- Seen(op),
  result <- [out EXCEPT !.call = Seen(@)]

ReadsStream == Stream!Spec
=============================================================================
