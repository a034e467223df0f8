----------------------------- MODULE ReadBuffer -----------------------------
(***************************************************************************)
(* The read buffer of LuaIO (src/luaio_read_buffer.c, src/luaio_buffer.c): *)
(* a block of memory with a read position and a write position.  Whatever  *)
(* is between them has been received and not yet read.  A call takes bytes *)
(* from the read position, or answers EAGAIN and has made room for what it *)
(* is waiting for.                                                         *)
(*                                                                         *)
(* A byte is the position it has in the stream, from 1; the Text of the    *)
(* stream says which bytes end a line.                                     *)
(***************************************************************************)
EXTENDS Integers, Sequences, FiniteSets

CONSTANTS
  Capacity,  \* capacity of the memory, a size class of the pool
  Text       \* what the peer sends

ASSUME BufferAssumption ==
  /\ Capacity \in Nat \ {0}
  /\ Text \in Seq({"lf", "cr", "other"})

Buffer == [mem : [0 .. Capacity - 1 -> Nat],
           read_pos : 0 .. Capacity, write_pos : 0 .. Capacity]

\* onalloc: new memory, whose bytes are arbitrary, both positions at its start.
EmptyBuffer == [mem |-> [i \in 0 .. Capacity - 1 |-> 0], read_pos |-> 0, write_pos |-> 0]

Rest(b) == b.write_pos - b.read_pos

\* onalloc offers the memory from write_pos on; onread moves write_pos over the k
\* bytes the kernel put there, the ones after the first so many of the stream.
Filled(b, before, k) ==
  [mem |-> [i \in 0 .. Capacity - 1 |->
              IF i \in b.write_pos .. b.write_pos + k - 1
              THEN before + 1 + (i - b.write_pos) ELSE b.mem[i]],
   read_pos |-> b.read_pos, write_pos |-> b.write_pos + k]

\* The next n bytes of the buffer.
Bytes(b, n) == [i \in 1 .. n |-> b.mem[b.read_pos + i - 1]]

\* Mutant: the positions move, the bytes stay.
MovedWithoutBytes(b) == [b EXCEPT !.read_pos = 0, !.write_pos = Rest(b)]

\* luaio_memmove of what is left to the start of the memory.
Moved(b) ==
  [mem |-> [i \in 0 .. Capacity - 1 |->
              IF i < Rest(b) THEN b.mem[b.read_pos + i] ELSE b.mem[i]],
   read_pos |-> 0, write_pos |-> Rest(b)]

\* Both positions at the start of the memory.
Reset(b) == [mem |-> b.mem, read_pos |-> 0, write_pos |-> 0]

\* luaio_buffer_check_rest_size: n bytes are read; nothing left resets the positions.
Consumed(b, n) == IF n = Rest(b) THEN Reset(b) ELSE [b EXCEPT !.read_pos = @ + n]

\* What a call answers: the buffer after it, the bytes, how many it took off.
Took(b, bytes, n) == [buf |-> Consumed(b, n), bytes |-> bytes, taken |-> n, err |-> "ok"]
Answer(b, err) == [buf |-> b, bytes |-> <<>>, taken |-> 0, err |-> err]

\* Mutant: nothing is moved.
ReadFixedInPlace(b, n) ==
  IF n <= Rest(b) THEN Took(b, Bytes(b, n), n) ELSE Answer(b, "again")

\* read_uint8 ... read_double_be of n bytes: the bytes, or EAGAIN with room for them.
\* (The 8 bit reads move nothing: they have nothing left when they answer EAGAIN.)
ReadFixed(b, n) ==
  IF n <= Rest(b) THEN Took(b, Bytes(b, n), n)
  ELSE Answer(IF b.read_pos + n > Capacity THEN Moved(b) ELSE b, "again")

\* read(n), n > 0: the same, and no more than the memory can hold.
Read(b, n) == IF n > Capacity THEN Answer(b, "raised") ELSE ReadFixed(b, n)

\* read(-1): what is there.
ReadRest(b) ==
  IF Rest(b) > 0 THEN Took(b, Bytes(b, Rest(b)), Rest(b)) ELSE Answer(b, "again")

\* The line ends that have been received and not read, as offsets from read_pos.
LineEnds(b) == {i \in 0 .. Rest(b) - 1 : Text[b.mem[b.read_pos + i]] = "lf"}

\* Mutant: the line end stays in the buffer.
LineWithoutEnd(b, e) == Took(b, Bytes(b, e), e)

\* A line of e bytes, without its end, "\n" or "\r\n".
Line(b, e) ==
  LET size == IF e > 0 /\ Text[b.mem[b.read_pos + e - 1]] = "cr" THEN e - 1 ELSE e
  IN Took(b, Bytes(b, size), e + 1)

\* Mutant: a buffer filled to its end exceeds its capacity wherever it is read from.
NoLineGivesUp(b) ==
  IF Rest(b) = 0 \/ b.write_pos < Capacity THEN Answer(b, "again") ELSE Answer(b, "exceeds")

\* readline without a line end in sight.
NoLine(b) ==
  IF Rest(b) = 0 \/ b.write_pos < Capacity THEN Answer(b, "again")
  ELSE IF b.read_pos = 0 THEN Answer(b, "exceeds")
  ELSE Answer(Moved(b), "again")

\* readline: up to the first line end.
ReadLine(b) ==
  IF LineEnds(b) = {} THEN NoLine(b)
  ELSE Line(b, CHOOSE e \in LineEnds(b) : \A i \in LineEnds(b) : e <= i)

\* discard(n): n bytes or the rest, without looking at them.
Discard(b, n) == LET m == IF n < Rest(b) THEN n ELSE Rest(b) IN Took(b, <<>>, m)
=============================================================================
