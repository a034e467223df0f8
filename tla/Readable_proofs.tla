-------------------------- MODULE Readable_proofs --------------------------
(***************************************************************************)
(* For every capacity, every text and every division of it into chunks:    *)
(* the reading calls return the bytes of the stream in order, each once,   *)
(* never wait with a full buffer, and implement ByteStream.                *)
(***************************************************************************)
EXTENDS Readable, FiniteSetTheorems, SequenceTheorems, TLAPS

-----------------------------------------------------------------------------
(* What the operations of the read buffer keep, for every capacity. *)

\* Buffer b holds the bytes of the stream that come after the first t, and is
\* reset when it holds none.
Holds(b, t) ==
  /\ b \in Buffer
  /\ b.read_pos <= b.write_pos
  /\ Rest(b) = 0 => b.read_pos = 0
  /\ \A i \in 0 .. Rest(b) - 1 : b.mem[b.read_pos + i] = t + i + 1

\* A nonempty set of naturals has a least element.
LEMMA LeastElement ==
  ASSUME NEW T, T \subseteq Nat, T # {}
  PROVE  \E x \in T : \A y \in T : x <= y
<1> DEFINE Upto == {0 .. x : x \in T}
<1>1. Upto \subseteq FiniteSubsetsOf(Nat)
  <2>1. \A x \in T : 0 .. x \in SUBSET Nat /\ IsFiniteSet(0 .. x)
    BY FS_Interval
  <2>2. QED
    BY <2>1 DEF FiniteSubsetsOf
<1>2. PICK m \in Upto : \A u \in Upto : ~ (<<u, m>> \in StrictSubsetOrdering(Nat))
  <2>1. Upto # {}
    OBVIOUS
  <2>2. QED
    BY <1>1, <2>1, FS_StrictSubsetOrderingWellFounded, WFMin
<1>3. PICK x \in T : m = 0 .. x
  OBVIOUS
<1>4. ASSUME NEW y \in T, y < x
      PROVE  FALSE
  <2>1. 0 .. y \subseteq 0 .. x /\ 0 .. y # 0 .. x
    BY <1>4
  <2>2. <<0 .. y, m>> \in StrictSubsetOrdering(Nat)
    BY <2>1, <1>3, <1>4 DEF StrictSubsetOrdering
  <2>3. QED
    BY <2>2, <1>2
<1>5. QED
  BY <1>4

\* The positions and the memory of a buffer.
LEMMA BufferPositions ==
  ASSUME NEW b, NEW t \in Nat, Holds(b, t)
  PROVE  /\ b.read_pos \in Nat /\ b.write_pos \in Nat /\ Capacity \in Nat
         /\ b.read_pos <= b.write_pos /\ b.write_pos <= Capacity
         /\ Rest(b) = b.write_pos - b.read_pos /\ Rest(b) \in Nat
         /\ b.mem \in [0 .. Capacity - 1 -> Nat]
BY BufferAssumption DEF Holds, Buffer, Rest

\* Taking n bytes off leaves those that come after them.
LEMMA ConsumedHolds ==
  ASSUME NEW b, NEW t \in Nat, Holds(b, t), NEW n \in 0 .. Rest(b)
  PROVE  Holds(Consumed(b, n), t + n) /\ Rest(Consumed(b, n)) = Rest(b) - n
<1>1. /\ b.read_pos \in Nat /\ b.write_pos \in Nat /\ Capacity \in Nat
      /\ b.read_pos <= b.write_pos /\ b.write_pos <= Capacity
      /\ Rest(b) = b.write_pos - b.read_pos
      /\ b.mem \in [0 .. Capacity - 1 -> Nat]
      /\ b \in Buffer
  BY BufferPositions DEF Holds
<1>2. CASE n = Rest(b)
  <2> DEFINE c == Reset(b)
  <2>1. Consumed(b, n) = c
    BY <1>2 DEF Consumed
  <2>2. c \in Buffer /\ c.read_pos = 0 /\ c.write_pos = 0
    BY <1>1 DEF Buffer, Reset
  <2>3. Rest(c) = 0
    BY <2>2 DEF Rest
  <2>4. QED
    BY <1>1, <1>2, <2>1, <2>2, <2>3 DEF Holds
<1>3. CASE n # Rest(b)
  <2> DEFINE c == [b EXCEPT !.read_pos = @ + n]
  <2>1. Consumed(b, n) = c
    BY <1>3 DEF Consumed
  <2>2. /\ c.read_pos = b.read_pos + n /\ c.write_pos = b.write_pos /\ c.mem = b.mem
        /\ c \in Buffer
    <3>1. b.read_pos + n \in 0 .. Capacity
      BY <1>1
    <3>2. QED
      BY <1>1, <3>1 DEF Buffer
  <2>3. Rest(c) = Rest(b) - n /\ Rest(c) > 0
    <3>1. n \in Nat /\ n < b.write_pos - b.read_pos
      BY <1>1, <1>3
    <3>2. Rest(c) = b.write_pos - (b.read_pos + n)
      BY <2>2 DEF Rest
    <3>3. QED
      BY <1>1, <3>1, <3>2
  <2>4. ASSUME NEW i \in 0 .. Rest(c) - 1
        PROVE  c.mem[c.read_pos + i] = t + n + i + 1
    <3>1. n + i \in 0 .. Rest(b) - 1
      BY <1>1, <2>3
    <3>2. b.mem[b.read_pos + (n + i)] = t + (n + i) + 1
      BY <3>1 DEF Holds
    <3>3. b.read_pos + (n + i) = c.read_pos + i /\ t + (n + i) + 1 = t + n + i + 1
      BY <1>1, <2>2, <2>3
    <3>4. QED
      BY <2>2, <3>2, <3>3
  <2>5. c.read_pos <= c.write_pos
    BY <1>1, <2>2
  <2> HIDE DEF c
  <2>6. QED
    BY <2>1, <2>2, <2>3, <2>4, <2>5 DEF Holds
<1>4. QED
  BY <1>2, <1>3

\* Moving the bytes to the start of the memory keeps them.
LEMMA MovedHolds ==
  ASSUME NEW b, NEW t \in Nat, Holds(b, t)
  PROVE  /\ Holds(Moved(b), t)
         /\ Rest(Moved(b)) = Rest(b)
         /\ Moved(b).read_pos = 0 /\ Moved(b).write_pos = Rest(b)
<1> DEFINE c == Moved(b)
<1>1. /\ b.read_pos \in Nat /\ b.write_pos \in Nat /\ Capacity \in Nat
      /\ b.read_pos <= b.write_pos /\ b.write_pos <= Capacity
      /\ Rest(b) = b.write_pos - b.read_pos
      /\ b.mem \in [0 .. Capacity - 1 -> Nat]
  BY BufferPositions
<1>2. Rest(b) \in 0 .. Capacity
  BY <1>1
<1>3. /\ c.read_pos = 0 /\ c.write_pos = Rest(b)
      /\ c.mem = [i \in 0 .. Capacity - 1 |->
                    IF i < Rest(b) THEN b.mem[b.read_pos + i] ELSE b.mem[i]]
  BY DEF Moved
<1>4. c.mem \in [0 .. Capacity - 1 -> Nat]
  <2>1. ASSUME NEW i \in 0 .. Capacity - 1
        PROVE  (IF i < Rest(b) THEN b.mem[b.read_pos + i] ELSE b.mem[i]) \in Nat
    <3>1. b.mem[i] \in Nat
      BY <1>1
    <3>2. i < Rest(b) => b.read_pos + i \in 0 .. Capacity - 1
      BY <1>1
    <3>3. QED
      BY <1>1, <3>1, <3>2
  <2>2. QED
    BY <1>3, <2>1
<1>5. c \in Buffer
  BY <1>1, <1>2, <1>4, <1>3 DEF Moved, Buffer
<1>6. Rest(c) = Rest(b)
  BY <1>2, <1>3 DEF Rest
<1>7. ASSUME NEW i \in 0 .. Rest(c) - 1
      PROVE  c.mem[c.read_pos + i] = t + i + 1
  <2>1. i \in 0 .. Capacity - 1 /\ i < Rest(b) /\ i \in 0 .. Rest(b) - 1
    BY <1>1, <1>2, <1>6
  <2>2. c.mem[i] = b.mem[b.read_pos + i]
    BY <1>3, <2>1
  <2>3. c.read_pos + i = i
    BY <1>3, <2>1
  <2>4. QED
    BY <2>1, <2>2, <2>3 DEF Holds
<1>8. QED
  BY <1>2, <1>3, <1>5, <1>6, <1>7 DEF Holds

\* A chunk of k bytes that fits is added at the end.
LEMMA FilledHolds ==
  ASSUME NEW b, NEW t \in Nat, Holds(b, t),
         NEW k \in Nat, k > 0, b.write_pos + k <= Capacity
  PROVE  /\ Holds(Filled(b, t + Rest(b), k), t)
         /\ Rest(Filled(b, t + Rest(b), k)) = Rest(b) + k
<1> DEFINE c == Filled(b, t + Rest(b), k)
           New(i) == t + Rest(b) + 1 + (i - b.write_pos)
<1>1. /\ b.read_pos \in Nat /\ b.write_pos \in Nat /\ Capacity \in Nat
      /\ b.read_pos <= b.write_pos /\ b.write_pos <= Capacity
      /\ Rest(b) = b.write_pos - b.read_pos /\ Rest(b) \in Nat
  BY BufferPositions
<1>2. b.mem \in [0 .. Capacity - 1 -> Nat]
  BY BufferPositions
<1>3. c.read_pos = b.read_pos /\ c.write_pos = b.write_pos + k
  BY DEF Filled
<1>4. c.mem = [i \in 0 .. Capacity - 1 |->
                 IF i \in b.write_pos .. b.write_pos + k - 1 THEN New(i) ELSE b.mem[i]]
  BY DEF Filled
<1>5. c = [mem |-> c.mem, read_pos |-> c.read_pos, write_pos |-> c.write_pos]
  BY DEF Filled
<1>6. \A i \in b.write_pos .. b.write_pos + k - 1 : New(i) \in Nat
  BY <1>1
<1>7. \A i \in Nat : New(b.read_pos + i) = t + i + 1
  BY <1>1
<1> HIDE DEF c, New
<1>8. c.mem \in [0 .. Capacity - 1 -> Nat]
  <2>1. ASSUME NEW i \in 0 .. Capacity - 1
        PROVE  (IF i \in b.write_pos .. b.write_pos + k - 1 THEN New(i) ELSE b.mem[i]) \in Nat
    BY <1>2, <1>6
  <2>2. QED
    BY <1>4, <2>1
<1>9. c \in Buffer
  <2>1. c.read_pos \in 0 .. Capacity /\ c.write_pos \in 0 .. Capacity
    BY <1>1, <1>3
  <2>2. QED
    BY <1>5, <1>8, <2>1 DEF Buffer
<1>10. Rest(c) = Rest(b) + k
  BY <1>1, <1>3 DEF Rest
<1>11. ASSUME NEW i \in 0 .. Rest(c) - 1
       PROVE  c.mem[c.read_pos + i] = t + i + 1
  <2>1. i \in Nat /\ i < Rest(b) + k /\ b.read_pos + i \in 0 .. Capacity - 1
    BY <1>1, <1>3, <1>10
  <2>2. CASE i < Rest(b)
    <3>1. i \in 0 .. Rest(b) - 1 /\ ~(b.read_pos + i \in b.write_pos .. b.write_pos + k - 1)
      BY <1>1, <2>1, <2>2
    <3>2. c.mem[b.read_pos + i] = b.mem[b.read_pos + i]
      BY <1>4, <2>1, <3>1
    <3>3. QED
      BY <1>3, <3>1, <3>2 DEF Holds
  <2>3. CASE i >= Rest(b)
    <3>1. b.read_pos + i \in b.write_pos .. b.write_pos + k - 1
      BY <1>1, <2>1, <2>3
    <3>2. c.mem[b.read_pos + i] = New(b.read_pos + i)
      BY <1>4, <2>1, <3>1
    <3>3. QED
      BY <1>3, <1>7, <2>1, <3>2
  <2>4. QED
    BY <1>1, <2>1, <2>2, <2>3
<1>12. c.read_pos <= c.write_pos /\ Rest(c) > 0
  BY <1>1, <1>3, <1>10
<1>13. QED
  BY <1>9, <1>10, <1>11, <1>12 DEF Holds, c

\* The bytes a call returns are the next ones of the stream.
LEMMA BytesAreNext ==
  ASSUME NEW b, NEW t \in Nat, Holds(b, t), NEW n \in Nat, n <= Rest(b)
  PROVE  /\ Bytes(b, n) \in Seq((t + 1) .. (t + Rest(b)))
         /\ Len(Bytes(b, n)) = n
         /\ \A i \in 1 .. n : Bytes(b, n)[i] = t + i
<1>1. Rest(b) \in Nat /\ b.read_pos \in Nat
  BY BufferPositions
<1>2. ASSUME NEW i \in 1 .. n
      PROVE  Bytes(b, n)[i] = t + i
  <2>1. i - 1 \in 0 .. Rest(b) - 1
    BY <1>1
  <2>2. b.mem[b.read_pos + (i - 1)] = t + (i - 1) + 1
    BY <2>1 DEF Holds
  <2>3. b.read_pos + (i - 1) = b.read_pos + i - 1 /\ t + (i - 1) + 1 = t + i
    BY <1>1
  <2>4. QED
    BY <2>2, <2>3 DEF Bytes
<1>3. \A i \in 1 .. n : Bytes(b, n)[i] \in (t + 1) .. (t + Rest(b))
  BY <1>1, <1>2
<1>4. Bytes(b, n) = [i \in 1 .. n |-> Bytes(b, n)[i]]
  BY DEF Bytes
<1>5. Bytes(b, n) \in [1 .. n -> (t + 1) .. (t + Rest(b))]
  BY <1>3, <1>4
<1>6. Bytes(b, n) \in Seq((t + 1) .. (t + Rest(b)))
  BY <1>5, SeqDef
<1>7. Len(Bytes(b, n)) = n
  BY <1>6, LenProperties DEF Bytes
<1>8. QED
  BY <1>2, <1>6, <1>7

-----------------------------------------------------------------------------
(* The calls *)

\* Answer a takes bytes of b off its front and returns some of them.  EAGAIN and
\* the errors take nothing, and EAGAIN leaves room for more.
Answers(a, b, t) ==
  /\ a.taken \in 0 .. Rest(b)
  /\ Holds(a.buf, t + a.taken)
  /\ Rest(a.buf) = Rest(b) - a.taken
  /\ a.bytes \in Seq((t + 1) .. (t + Rest(b)))
  /\ \A i \in 1 .. Len(a.bytes) : a.bytes[i] = t + i
  /\ a.err \in {"ok", "again", "raised", "exceeds"}
  /\ a.err # "ok" => a.taken = 0 /\ a.bytes = <<>>
  /\ a.err = "again" => a.buf.write_pos < Capacity

\* Taking n bytes and returning the first m of them.
LEMMA TookAnswers ==
  ASSUME NEW b, NEW t \in Nat, Holds(b, t),
         NEW n \in Nat, n <= Rest(b), NEW m \in Nat, m <= n
  PROVE  Answers(Took(b, Bytes(b, m), n), b, t)
<1> DEFINE a == Took(b, Bytes(b, m), n)
<1>1. a.buf = Consumed(b, n) /\ a.taken = n /\ a.bytes = Bytes(b, m) /\ a.err = "ok"
  BY DEF Took
<1>2. Rest(b) \in Nat
  BY BufferPositions
<1>3. n \in 0 .. Rest(b) /\ m <= Rest(b)
  BY <1>2
<1>4. Holds(Consumed(b, n), t + n) /\ Rest(Consumed(b, n)) = Rest(b) - n
  BY <1>3, ConsumedHolds
<1>5. /\ Bytes(b, m) \in Seq((t + 1) .. (t + Rest(b)))
      /\ Len(Bytes(b, m)) = m
      /\ \A i \in 1 .. m : Bytes(b, m)[i] = t + i
  BY <1>3, BytesAreNext
<1> HIDE DEF a
<1>6. QED
  BY <1>1, <1>3, <1>4, <1>5 DEF Answers, a

\* An answer that takes nothing.
LEMMA NothingTaken ==
  ASSUME NEW b, NEW t \in Nat, Holds(b, t), NEW c, Holds(c, t), Rest(c) = Rest(b),
         NEW err \in {"again", "raised", "exceeds"}, err = "again" => c.write_pos < Capacity
  PROVE  Answers(Answer(c, err), b, t)
<1> DEFINE a == Answer(c, err)
<1>1. a.buf = c /\ a.taken = 0 /\ a.bytes = <<>> /\ a.err = err
  BY DEF Answer
<1>2. Rest(b) \in Nat
  BY BufferPositions
<1>3. t + 0 = t /\ Rest(b) - 0 = Rest(b) /\ 0 \in 0 .. Rest(b)
  BY <1>2
<1>4. <<>> \in Seq((t + 1) .. (t + Rest(b))) /\ Len(<<>>) = 0
  BY EmptySeq
<1> HIDE DEF a
<1>5. QED
  BY <1>1, <1>3, <1>4 DEF Answers, a

\* A fixed size read returns its n bytes, or answers EAGAIN.
LEMMA ReadFixedAnswers ==
  ASSUME NEW b, NEW t \in Nat, Holds(b, t), NEW n \in Nat, n <= Capacity
  PROVE  LET a == ReadFixed(b, n)
         IN  /\ Answers(a, b, t)
             /\ a.err \in {"ok", "again"}
             /\ a.err = "ok" => a.taken = n /\ Len(a.bytes) = n
<1>1. /\ b.read_pos \in Nat /\ b.write_pos \in Nat /\ Capacity \in Nat
      /\ b.read_pos <= b.write_pos /\ b.write_pos <= Capacity
      /\ Rest(b) = b.write_pos - b.read_pos /\ Rest(b) \in Nat
  BY BufferPositions
<1>2. CASE n <= Rest(b)
  <2>1. ReadFixed(b, n) = Took(b, Bytes(b, n), n)
    BY <1>2 DEF ReadFixed
  <2>2. Answers(Took(b, Bytes(b, n), n), b, t)
    BY <1>2, TookAnswers
  <2>3. Len(Bytes(b, n)) = n
    BY <1>2, BytesAreNext
  <2>4. QED
    BY <2>1, <2>2, <2>3 DEF Took
<1>3. CASE ~(n <= Rest(b))
  <2> DEFINE c == IF b.read_pos + n > Capacity THEN Moved(b) ELSE b
  <2>1. ReadFixed(b, n) = Answer(c, "again")
    BY <1>3 DEF ReadFixed
  <2>2. Holds(c, t) /\ Rest(c) = Rest(b) /\ c.write_pos < Capacity
    <3>1. CASE b.read_pos + n > Capacity
      <4>1. Holds(Moved(b), t) /\ Rest(Moved(b)) = Rest(b) /\ Moved(b).write_pos = Rest(b)
        BY MovedHolds
      <4>2. Rest(b) < Capacity
        BY <1>1, <1>3
      <4>3. QED
        BY <3>1, <4>1, <4>2
    <3>2. CASE ~(b.read_pos + n > Capacity)
      BY <1>1, <1>3, <3>2
    <3>3. QED
      BY <3>1, <3>2
  <2> HIDE DEF c
  <2>3. Answers(Answer(c, "again"), b, t)
    BY <2>2, NothingTaken
  <2>4. QED
    BY <2>1, <2>3 DEF Answer
<1>4. QED
  BY <1>2, <1>3

\* So does read(n), which is an error when the memory cannot hold n bytes.
LEMMA ReadAnswers ==
  ASSUME NEW b, NEW t \in Nat, Holds(b, t), NEW n \in Nat
  PROVE  LET a == Read(b, n)
         IN  /\ Answers(a, b, t)
             /\ a.err \in {"ok", "again", "raised"}
             /\ a.err = "ok" => a.taken = n /\ Len(a.bytes) = n
<1>1. Capacity \in Nat
  BY BufferPositions
<1>2. CASE n > Capacity
  <2>1. Read(b, n) = Answer(b, "raised")
    BY <1>2 DEF Read
  <2>2. Answers(Answer(b, "raised"), b, t)
    BY NothingTaken
  <2>3. QED
    BY <2>1, <2>2 DEF Answer
<1>3. CASE ~(n > Capacity)
  <2>1. Read(b, n) = ReadFixed(b, n) /\ n <= Capacity
    BY <1>1, <1>3 DEF Read
  <2>2. QED
    BY <2>1, ReadFixedAnswers
<1>4. QED
  BY <1>2, <1>3

\* read() returns what there is, or answers EAGAIN when there is nothing.
LEMMA ReadRestAnswers ==
  ASSUME NEW b, NEW t \in Nat, Holds(b, t)
  PROVE  Answers(ReadRest(b), b, t) /\ ReadRest(b).err \in {"ok", "again"}
<1>1. /\ b.read_pos \in Nat /\ b.write_pos \in Nat
      /\ Rest(b) = b.write_pos - b.read_pos /\ Rest(b) \in Nat
  BY BufferPositions
<1>2. CASE Rest(b) > 0
  <2>1. ReadRest(b) = Took(b, Bytes(b, Rest(b)), Rest(b))
    BY <1>2 DEF ReadRest
  <2>2. Answers(Took(b, Bytes(b, Rest(b)), Rest(b)), b, t)
    BY <1>1, TookAnswers
  <2>3. QED
    BY <2>1, <2>2 DEF Took
<1>3. CASE ~(Rest(b) > 0)
  <2>1. ReadRest(b) = Answer(b, "again")
    BY <1>3 DEF ReadRest
  <2>2. b.write_pos = 0 /\ 0 < Capacity
    BY <1>1, <1>3, BufferAssumption DEF Holds
  <2>3. Answers(Answer(b, "again"), b, t)
    BY <2>2, NothingTaken
  <2>4. QED
    BY <2>1, <2>3 DEF Answer
<1>4. QED
  BY <1>2, <1>3

\* discard(n) takes n bytes, or the rest when there are fewer.
LEMMA DiscardAnswers ==
  ASSUME NEW b, NEW t \in Nat, Holds(b, t), NEW n \in Nat
  PROVE  LET a == Discard(b, n)
         IN  /\ Answers(a, b, t)
             /\ a.err = "ok" /\ a.bytes = <<>>
             /\ a.taken = IF n < Rest(b) THEN n ELSE Rest(b)
             /\ a = [buf |-> a.buf, bytes |-> <<>>, taken |-> a.taken, err |-> "ok"]
<1> DEFINE m == IF n < Rest(b) THEN n ELSE Rest(b)
<1>1. Rest(b) \in Nat /\ m \in Nat /\ m <= Rest(b)
  BY BufferPositions
<1> HIDE DEF m
<1>2. Bytes(b, 0) = <<>>
  BY DEF Bytes
<1>3. Discard(b, n) = Took(b, Bytes(b, 0), m)
  BY <1>2 DEF Discard, m
<1>4. Answers(Took(b, Bytes(b, 0), m), b, t)
  BY <1>1, TookAnswers
<1>5. QED
  BY <1>2, <1>3, <1>4 DEF Took, m

\* The bytes after the first t, up to the first u, are one line, of which all but
\* the line end, n bytes, are returned.
IsLine(t, u, n) ==
  /\ u > t /\ Text[u] = "lf"
  /\ \A i \in t + 1 .. u - 1 : Text[i] # "lf"
  /\ t + n = IF u - 1 > t /\ Text[u - 1] = "cr" THEN u - 2 ELSE u - 1

\* The line ends in the buffer are those of the stream.
LEMMA LineEndsOfText ==
  ASSUME NEW b, NEW t \in Nat, Holds(b, t)
  PROVE  LineEnds(b) = {i \in 0 .. Rest(b) - 1 : Text[t + i + 1] = "lf"}
BY DEF Holds, LineEnds

\* readline returns a whole line, or answers EAGAIN, or gives up on a full buffer.
LEMMA ReadLineAnswers ==
  ASSUME NEW b, NEW t \in Nat, Holds(b, t)
  PROVE  LET a == ReadLine(b)
         IN  /\ Answers(a, b, t)
             /\ a.err \in {"ok", "again", "exceeds"}
             /\ a.err = "ok" => IsLine(t, t + a.taken, Len(a.bytes))
             /\ a.err = "exceeds" => /\ Rest(b) = Capacity
                                     /\ \A i \in t + 1 .. t + Capacity : Text[i] # "lf"
<1>1. /\ b.read_pos \in Nat /\ b.write_pos \in Nat /\ Capacity \in Nat
      /\ b.read_pos <= b.write_pos /\ b.write_pos <= Capacity
      /\ Rest(b) = b.write_pos - b.read_pos /\ Rest(b) \in Nat
  BY BufferPositions
<1>2. LineEnds(b) = {i \in 0 .. Rest(b) - 1 : Text[t + i + 1] = "lf"}
  BY LineEndsOfText
<1>3. CASE LineEnds(b) = {}
  <2>1. ReadLine(b) = NoLine(b)
    BY <1>3 DEF ReadLine
  <2>2. CASE Rest(b) = 0 \/ b.write_pos < Capacity
    <3>1. NoLine(b) = Answer(b, "again")
      BY <2>2 DEF NoLine
    <3>2. b.write_pos < Capacity
      BY <1>1, <2>2, BufferAssumption DEF Holds
    <3>3. Answers(Answer(b, "again"), b, t)
      BY <3>2, NothingTaken
    <3>4. QED
      BY <2>1, <3>1, <3>3 DEF Answer
  <2>3. CASE ~(Rest(b) = 0 \/ b.write_pos < Capacity) /\ b.read_pos = 0
    <3>1. NoLine(b) = Answer(b, "exceeds")
      BY <2>3 DEF NoLine
    <3>2. Answers(Answer(b, "exceeds"), b, t)
      BY NothingTaken
    <3>3. Rest(b) = Capacity
      BY <1>1, <2>3
    <3>4. ASSUME NEW i \in t + 1 .. t + Capacity
          PROVE  Text[i] # "lf"
      <4>1. i - t - 1 \in 0 .. Rest(b) - 1 /\ t + (i - t - 1) + 1 = i
        BY <1>1, <3>3
      <4>2. QED
        BY <1>2, <1>3, <4>1
    <3>5. QED
      BY <2>1, <3>1, <3>2, <3>3, <3>4 DEF Answer
  <2>4. CASE ~(Rest(b) = 0 \/ b.write_pos < Capacity) /\ b.read_pos # 0
    <3>1. NoLine(b) = Answer(Moved(b), "again")
      BY <2>4 DEF NoLine
    <3>2. Holds(Moved(b), t) /\ Rest(Moved(b)) = Rest(b) /\ Moved(b).write_pos = Rest(b)
      BY MovedHolds
    <3>3. Rest(b) < Capacity
      BY <1>1, <2>4
    <3>4. Answers(Answer(Moved(b), "again"), b, t)
      BY <3>2, <3>3, NothingTaken
    <3>5. QED
      BY <2>1, <3>1, <3>4 DEF Answer
  <2>5. QED
    BY <2>2, <2>3, <2>4
<1>4. CASE LineEnds(b) # {}
  <2> DEFINE e == CHOOSE e \in LineEnds(b) : \A i \in LineEnds(b) : e <= i
             size == IF e > 0 /\ Text[b.mem[b.read_pos + e - 1]] = "cr" THEN e - 1 ELSE e
  <2>1. e \in LineEnds(b) /\ \A i \in LineEnds(b) : e <= i
    <3>1. LineEnds(b) \subseteq Nat
      BY <1>1, <1>2
    <3>2. \E x \in LineEnds(b) : \A i \in LineEnds(b) : x <= i
      BY <1>4, <3>1, LeastElement
    <3>3. QED
      BY <3>2
  <2>2. ReadLine(b) = Took(b, Bytes(b, size), e + 1)
    BY <1>4 DEF ReadLine, Line
  <2> HIDE DEF e
  <2>3. e \in Nat /\ e < Rest(b) /\ Text[t + e + 1] = "lf"
    BY <1>1, <1>2, <2>1
  <2>4. e > 0 => b.mem[b.read_pos + e - 1] = t + e
    <3>1. HAVE e > 0
    <3>2. e - 1 \in 0 .. Rest(b) - 1
      BY <1>1, <2>3, <3>1
    <3>3. b.mem[b.read_pos + (e - 1)] = t + (e - 1) + 1
      BY <3>2 DEF Holds
    <3>4. b.read_pos + (e - 1) = b.read_pos + e - 1 /\ t + (e - 1) + 1 = t + e
      BY <1>1, <2>3
    <3>5. QED
      BY <3>3, <3>4
  <2>5. size = IF e > 0 /\ Text[t + e] = "cr" THEN e - 1 ELSE e
    BY <2>4
  <2> HIDE DEF size
  <2>6. size \in Nat /\ size <= e + 1 /\ e + 1 \in Nat /\ e + 1 <= Rest(b) /\ size <= Rest(b)
    BY <1>1, <2>3, <2>5
  <2>7. Answers(Took(b, Bytes(b, size), e + 1), b, t)
    BY <2>6, TookAnswers
  <2>8. Len(Bytes(b, size)) = size
    BY <2>6, BytesAreNext
  <2>9. IsLine(t, t + (e + 1), size)
    <3>1. ASSUME NEW i \in t + 1 .. t + (e + 1) - 1, Text[i] = "lf"
          PROVE  FALSE
      <4>1. i - t - 1 \in 0 .. Rest(b) - 1 /\ t + (i - t - 1) + 1 = i
        BY <1>1, <2>3
      <4>2. i - t - 1 \in LineEnds(b)
        BY <1>2, <3>1, <4>1
      <4>3. e <= i - t - 1
        BY <2>1, <4>2
      <4>4. QED
        BY <2>3, <4>3
    <3>2. t + (e + 1) > t /\ t + (e + 1) = t + e + 1 /\ t + (e + 1) - 1 = t + e
      BY <2>3
    <3>3. t + size = IF t + e > t /\ Text[t + e] = "cr" THEN t + (e + 1) - 2 ELSE t + (e + 1) - 1
      BY <2>3, <2>5
    <3>4. QED
      BY <2>3, <3>1, <3>2, <3>3 DEF IsLine
  <2>10. QED
    BY <2>2, <2>7, <2>8, <2>9 DEF Took
<1>5. QED
  BY <1>3, <1>4

-----------------------------------------------------------------------------
(* The calls *)

\* A call that has so far only discarded: n - left bytes of n.
Waiting(o) ==
  /\ o \in Op
  /\ o.left <= o.n
  /\ taken = o.from + (o.n - o.left)
  /\ o.kind # "discard" => o.left = o.n

\* The inductive invariant: beside the properties, that the buffer is reset when
\* it is empty, and what a waiting call has done.
IInv ==
  /\ TypeOK
  /\ Holds(buffer, taken)
  /\ received = taken + Rest(buffer)
  /\ op # Idle => Waiting(op) /\ op.kind # "fixed"
  /\ RoomToRead
  /\ NextBytes
  /\ ExactCount
  /\ WholeLine
  /\ ExceedsMeansFull

-----------------------------------------------------------------------------

\* What a call gets of a buffer that holds the stream from byte t + 1 on.
TriedIs(o, b, t, a) ==
  /\ a.taken \in 0 .. Rest(b)
  /\ Holds(a.buf, t + a.taken)
  /\ Rest(a.buf) = Rest(b) - a.taken
  /\ a.bytes \in Seq((t + 1) .. (t + Rest(b)))
  /\ \A i \in 1 .. Len(a.bytes) : a.bytes[i] = t + i
  /\ a.err \in {"ok", "again", "raised", "exceeds"}
  /\ a.err = "again" => a.buf.write_pos < Capacity
  /\ a.err # "ok" => a.bytes = <<>>
  /\ a.err # "ok" /\ o.kind # "discard" => a.taken = 0
  /\ o.kind = "discard" => /\ a.bytes = <<>>
                           /\ a.err = "ok" => a.taken = o.left
                           /\ a.err # "ok" => a.err = "again" /\ a.taken < o.left
  /\ o.kind \in {"read", "fixed"} /\ a.err = "ok" => a.taken = o.n /\ Len(a.bytes) = o.n
  /\ o.kind = "line" /\ a.err = "ok" => IsLine(t, t + a.taken, Len(a.bytes))
  /\ a.err = "exceeds" => /\ Rest(b) = Capacity
                          /\ \A i \in t + 1 .. t + Capacity : Text[i] # "lf"

\* Every call that does not discard answers as the buffer does.
LEMMA TriedReading ==
  ASSUME NEW o \in Op, o.kind # "discard", o.kind = "fixed" => o.n <= Capacity,
         NEW b, NEW t \in Nat, Holds(b, t)
  PROVE  TriedIs(o, b, t, Tried(o, b))
<1>1. o.kind \in {"read", "rest", "line", "fixed", "discard-rest"} /\ o.n \in Nat
  BY DEF Op, Kinds
<1>2. CASE o.kind = "read"
  <2>1. Tried(o, b) = Read(b, o.n)
    BY <1>2 DEF Tried
  <2>2. /\ Answers(Read(b, o.n), b, t)
        /\ Read(b, o.n).err \in {"ok", "again", "raised"}
        /\ Read(b, o.n).err = "ok" => Read(b, o.n).taken = o.n /\ Len(Read(b, o.n).bytes) = o.n
    BY <1>1, ReadAnswers
  <2>3. QED
    BY <1>2, <2>1, <2>2 DEF Answers, TriedIs
<1>3. CASE o.kind = "rest"
  <2>1. Tried(o, b) = ReadRest(b)
    BY <1>3 DEF Tried
  <2>2. QED
    BY <1>3, <2>1, ReadRestAnswers DEF Answers, TriedIs
<1>4. CASE o.kind = "line"
  <2>1. Tried(o, b) = ReadLine(b)
    BY <1>4 DEF Tried
  <2>2. QED
    BY <1>4, <2>1, ReadLineAnswers DEF Answers, TriedIs
<1>5. CASE o.kind = "fixed"
  <2>1. Tried(o, b) = ReadFixed(b, o.n)
    BY <1>5 DEF Tried
  <2>2. /\ Answers(ReadFixed(b, o.n), b, t)
        /\ ReadFixed(b, o.n).err \in {"ok", "again"}
        /\ ReadFixed(b, o.n).err = "ok"
             => ReadFixed(b, o.n).taken = o.n /\ Len(ReadFixed(b, o.n).bytes) = o.n
    BY <1>1, <1>5, ReadFixedAnswers
  <2>3. QED
    BY <1>5, <2>1, <2>2 DEF Answers, TriedIs
<1>6. CASE o.kind = "discard-rest"
  <2>1. Tried(o, b) = Discard(b, Rest(b)) /\ Rest(b) \in Nat
    BY <1>6, BufferPositions DEF Tried
  <2>2. QED
    BY <1>6, <2>1, DiscardAnswers DEF Answers, TriedIs
<1>7. QED
  BY <1>1, <1>2, <1>3, <1>4, <1>5, <1>6

\* A discard that has not yet got all it wants took everything, which leaves an
\* empty and so a reset buffer.
LEMMA TriedDiscarding ==
  ASSUME NEW o \in Op, o.kind = "discard", NEW b, NEW t \in Nat, Holds(b, t)
  PROVE  TriedIs(o, b, t, Tried(o, b))
<1> DEFINE d == Discard(b, o.left)
           a == Tried(o, b)
<1>1. o.left \in Nat /\ Rest(b) \in Nat /\ Capacity \in Nat /\ Capacity > 0
  BY BufferPositions, BufferAssumption DEF Op
<1>2. a = [d EXCEPT !.err = IF o.left <= Rest(b) THEN "ok" ELSE "again"]
  BY DEF Tried
<1>3. /\ Answers(d, b, t)
      /\ d.taken = IF o.left < Rest(b) THEN o.left ELSE Rest(b)
      /\ d = [buf |-> d.buf, bytes |-> <<>>, taken |-> d.taken, err |-> "ok"]
  BY <1>1, DiscardAnswers
<1> HIDE DEF d
<1>4. /\ a.buf = d.buf /\ a.taken = d.taken /\ a.bytes = <<>>
      /\ a.err = IF o.left <= Rest(b) THEN "ok" ELSE "again"
  BY <1>2, <1>3
<1> HIDE DEF a
<1>5. a.err = "again" => a.taken < o.left /\ a.buf.write_pos < Capacity
  <2>1. HAVE a.err = "again"
  <2>2. d.taken = Rest(b) /\ Rest(b) < o.left
    BY <1>1, <1>3, <1>4, <2>1
  <2>3. Rest(d.buf) = 0 /\ Holds(d.buf, t + d.taken) /\ t + d.taken \in Nat
    BY <1>1, <1>3, <2>2 DEF Answers
  <2>4. d.buf.write_pos = 0
    BY <2>3, BufferPositions DEF Holds
  <2>5. QED
    BY <1>1, <1>4, <2>2, <2>4
<1>6. a.err = "ok" => a.taken = o.left
  BY <1>1, <1>3, <1>4
<1>7. <<>> \in Seq((t + 1) .. (t + Rest(b))) /\ Len(<<>>) = 0
  BY EmptySeq
<1>8. QED
  BY <1>3, <1>4, <1>5, <1>6, <1>7 DEF Answers, TriedIs, a

\* A call that tries buffer b re-establishes the invariant.
LEMMA TryKeeps ==
  ASSUME NEW o, Waiting(o), o.kind = "fixed" => o.n <= Capacity,
         NEW b, taken \in Nat, Holds(b, taken), Try(o, b),
         received' \in Count, received' = taken + Rest(b)
  PROVE  IInv'
<1> DEFINE a == Tried(o, b)
<1>1. o \in Op /\ TriedIs(o, b, taken, a)
  BY TriedReading, TriedDiscarding DEF Waiting
<1>2. /\ buffer' = a.buf /\ taken' = taken + a.taken
      /\ \/ /\ a.err = "again" /\ o.kind # "fixed"
            /\ op' = [o EXCEPT !.left = @ - a.taken]
            /\ out' = NoOutput
         \/ /\ a.err # "again" \/ o.kind = "fixed"
            /\ op' = Idle
            /\ out' = Output(o, a.bytes, a.err)
  BY DEF Try, StillToDiscard
<1> HIDE DEF a
<1>3. /\ Rest(b) \in Nat /\ Capacity \in Nat /\ Len(Text) \in Nat
      /\ o.kind \in Kinds /\ o.n \in Nat /\ o.left \in Nat /\ o.from \in Nat
      /\ o.left <= o.n /\ taken = o.from + (o.n - o.left)
      /\ o.kind # "discard" => o.left = o.n /\ o.from = taken
  <2>1. Rest(b) \in Nat /\ Capacity \in Nat /\ Len(Text) \in Nat
    BY BufferPositions, BufferAssumption
  <2>2. /\ o.kind \in Kinds /\ o.n \in Nat /\ o.left \in Nat /\ o.from \in Nat
        /\ o.left <= o.n /\ taken = o.from + (o.n - o.left)
        /\ o.kind # "discard" => o.left = o.n
    BY DEF Waiting, Op
  <2>3. QED
    BY <2>1, <2>2
<1>4. /\ a.taken \in Nat /\ a.taken <= Rest(b)
      /\ Holds(a.buf, taken + a.taken) /\ Rest(a.buf) = Rest(b) - a.taken
  BY <1>1, <1>3 DEF TriedIs
<1>5. taken' \in Count /\ received' = taken' + Rest(buffer') /\ Holds(buffer', taken')
  <2>1. taken' = taken + a.taken /\ Len(Text) \in Nat /\ Rest(b) \in Nat
    BY <1>2, <1>3
  <2>2. received' \in Nat /\ received' <= Len(Text)
    BY <2>1 DEF Count
  <2>3. taken' \in Nat
    BY <1>4, <2>1
  <2>4. received' = taken' + (Rest(b) - a.taken) /\ taken' <= received'
    BY <1>4, <2>1
  <2>5. taken' \in Count
    BY <2>1, <2>2, <2>3, <2>4 DEF Count
  <2>6. QED
    BY <1>2, <1>4, <2>4, <2>5
<1>6. buffer' \in Buffer
  BY <1>5 DEF Holds
<1>7. CASE a.err = "again" /\ o.kind # "fixed"
  <2>1. op' = [o EXCEPT !.left = @ - a.taken] /\ out' = NoOutput
    BY <1>2, <1>7
  <2>2. /\ op'.kind = o.kind /\ op'.n = o.n /\ op'.from = o.from
        /\ op'.left = o.left - a.taken
    BY <1>1, <2>1 DEF Op
  <2>3. a.taken <= o.left /\ (o.kind # "discard" => a.taken = 0)
    <3>1. o.kind = "discard" => a.taken < o.left
      BY <1>1, <1>7 DEF TriedIs
    <3>2. o.kind # "discard" => a.taken = 0
      BY <1>1, <1>7 DEF TriedIs
    <3>3. QED
      BY <1>3, <1>4, <3>1, <3>2
  <2>4. op' \in Op
    <3>1. o.left \in Nat /\ a.taken \in Nat /\ a.taken <= o.left
      BY <1>3, <1>4, <2>3
    <3>2. o.left - a.taken \in Nat
      BY <3>1
    <3>3. QED
      BY <1>1, <2>1, <3>2 DEF Op
  <2>5. Waiting(op)' /\ op'.kind # "fixed"
    <3>1. taken' = op'.from + (op'.n - op'.left) /\ op'.left <= op'.n
      <4>1. taken' = taken + a.taken
        BY <1>2
      <4>2. op'.n = o.n /\ op'.from = o.from /\ op'.left = o.left - a.taken
        BY <2>2
      <4>3. /\ o.n \in Nat /\ o.left \in Nat /\ o.from \in Nat /\ o.left <= o.n
            /\ taken = o.from + (o.n - o.left)
        BY <1>3
      <4>4. a.taken \in Nat
        BY <1>4
      <4>5. QED
        BY <4>1, <4>2, <4>3, <4>4
    <3>2. op'.kind # "discard" => op'.left = op'.n
      BY <1>3, <2>2, <2>3
    <3>3. QED
      BY <1>7, <2>2, <2>4, <3>1, <3>2 DEF Waiting
  <2>6. buffer'.write_pos < Capacity
    BY <1>1, <1>2, <1>7 DEF TriedIs
  <2>7. out'.call = Idle /\ out'.bytes = <<>> /\ out'.err = "none"
    BY <2>1 DEF NoOutput, Output
  <2>8. TypeOK'
    BY <1>5, <1>6, <2>4, <2>7, EmptySeq DEF TypeOK
  <2>9. NextBytes' /\ ExactCount' /\ WholeLine' /\ ExceedsMeansFull'
    BY <2>7, EmptySeq DEF NextBytes, ExactCount, WholeLine, ExceedsMeansFull
  <2>10. QED
    BY <1>5, <2>5, <2>6, <2>8, <2>9 DEF IInv, RoomToRead
<1>8. CASE a.err # "again" \/ o.kind = "fixed"
  <2>1. op' = Idle /\ out' = Output(o, a.bytes, a.err)
    BY <1>2, <1>8
  <2>2. out'.call = o /\ out'.bytes = a.bytes /\ out'.err = a.err
    BY <2>1 DEF Output
  <2>3. /\ a.bytes \in Seq((taken + 1) .. (taken + Rest(b)))
        /\ a.err \in {"ok", "again", "raised", "exceeds"}
    BY <1>1 DEF TriedIs
  <2>4. a.bytes \in Seq(Positions)
    <3>1. (taken + 1) .. (taken + Rest(b)) \subseteq Positions
      BY <1>3 DEF Positions, Count
    <3>2. QED
      BY <2>3, <3>1, SeqMonotonic
  <2>5. TypeOK'
    BY <1>1, <1>5, <1>6, <2>1, <2>2, <2>3, <2>4 DEF TypeOK
  <2>6. RoomToRead'
    BY <1>1, <1>2, <2>1, <2>2 DEF TriedIs, RoomToRead
  <2>7. NextBytes'
    <3>1. CASE o.kind = "discard"
      <4>1. a.bytes = <<>>
        BY <1>1, <3>1 DEF TriedIs
      <4>2. QED
        BY <2>2, <4>1, EmptySeq DEF NextBytes
    <3>2. CASE o.kind # "discard"
      <4>1. o.from = taken
        BY <1>3, <3>2
      <4>2. \A i \in 1 .. Len(a.bytes) : a.bytes[i] = taken + i
        BY <1>1 DEF TriedIs
      <4>3. QED
        BY <2>2, <4>1, <4>2 DEF NextBytes
    <3>3. QED
      BY <3>1, <3>2
  <2>8. ExactCount'
    <3>1. SUFFICES ASSUME a.err = "ok", o.kind \in {"read", "discard", "fixed"}
                   PROVE  /\ taken' = o.from + o.n
                          /\ o.kind # "discard" => Len(a.bytes) = o.n
      BY <2>2 DEF ExactCount
    <3>2. CASE o.kind = "discard"
      <4>1. a.taken = o.left
        BY <1>1, <3>1, <3>2 DEF TriedIs
      <4>2. QED
        BY <1>2, <1>3, <3>2, <4>1
    <3>3. CASE o.kind # "discard"
      <4>1. a.taken = o.n /\ Len(a.bytes) = o.n
        BY <1>1, <3>1, <3>3 DEF TriedIs
      <4>2. QED
        BY <1>2, <1>3, <3>3, <4>1
    <3>4. QED
      BY <3>2, <3>3
  <2>9. WholeLine'
    <3>1. SUFFICES ASSUME a.err = "ok", o.kind = "line"
                   PROVE  /\ taken' > 0 /\ Text[taken'] = "lf"
                          /\ \A i \in o.from + 1 .. taken' - 1 : Text[i] # "lf"
                          /\ o.from + Len(a.bytes) =
                               IF taken' - 1 > o.from /\ Text[taken' - 1] = "cr"
                               THEN taken' - 2 ELSE taken' - 1
      BY <2>2 DEF WholeLine
    <3>2. o.from = taken /\ taken' = taken + a.taken /\ taken' \in Nat
      BY <1>2, <1>3, <1>4, <3>1
    <3>3. IsLine(taken, taken + a.taken, Len(a.bytes))
      BY <1>1, <3>1 DEF TriedIs
    <3>4. QED
      BY <3>2, <3>3 DEF IsLine
  <2>10. ExceedsMeansFull'
    <3>1. SUFFICES ASSUME a.err = "exceeds"
                   PROVE  /\ received' - taken' = Capacity
                          /\ \A i \in taken' + 1 .. taken' + Capacity : Text[i] # "lf"
      BY <2>2 DEF ExceedsMeansFull
    <3>2. /\ Rest(b) = Capacity /\ a.taken = 0
          /\ \A i \in taken + 1 .. taken + Capacity : Text[i] # "lf"
      BY <1>1, <3>1 DEF TriedIs
    <3>3. taken' = taken
      BY <1>2, <3>2
    <3>4. QED
      BY <1>3, <3>2, <3>3
  <2>11. QED
    BY <1>5, <2>1, <2>5, <2>6, <2>7, <2>8, <2>9, <2>10 DEF IInv
<1>9. QED
  BY <1>7, <1>8

-----------------------------------------------------------------------------

LEMMA InitIInv == Init => IInv
<1> SUFFICES ASSUME Init
             PROVE  IInv
  OBVIOUS
<1>1. Capacity \in Nat /\ Capacity > 0 /\ Len(Text) \in Nat
  BY BufferAssumption
<1>2. /\ buffer = [mem |-> [i \in 0 .. Capacity - 1 |-> 0], read_pos |-> 0, write_pos |-> 0]
      /\ op = Idle /\ received = 0 /\ taken = 0
      /\ out.call = Idle /\ out.bytes = <<>> /\ out.err = "none"
  BY DEF Init, EmptyBuffer, NoOutput, Output
<1>3. buffer \in Buffer /\ buffer.read_pos = 0 /\ buffer.write_pos = 0 /\ Rest(buffer) = 0
  BY <1>1, <1>2 DEF Buffer, Rest
<1>4. Holds(buffer, taken)
  BY <1>3 DEF Holds
<1>5. TypeOK
  BY <1>1, <1>2, <1>3, EmptySeq DEF TypeOK, Count
<1>6. RoomToRead /\ NextBytes /\ ExactCount /\ WholeLine /\ ExceedsMeansFull
  BY <1>2, EmptySeq DEF RoomToRead, NextBytes, ExactCount, WholeLine, ExceedsMeansFull
<1>7. QED
  BY <1>2, <1>3, <1>4, <1>5, <1>6 DEF IInv

\* A call that waits, or fails without touching the buffer.
LEMMA BufferKept ==
  ASSUME IInv, UNCHANGED <<buffer, received, taken>>,
         NEW o, Waiting(o), NEW err \in {"none", "error"},
         \/ op' = o /\ o.kind # "fixed" /\ buffer.write_pos < Capacity
         \/ op' = Idle,
         NEW c \in Op \cup {Idle}, out' = Output(c, <<>>, err)
  PROVE  IInv'
<1>1. out'.call = c /\ out'.bytes = <<>> /\ out'.err = err
  BY DEF Output
<1>2. TypeOK'
  BY <1>1, EmptySeq DEF IInv, TypeOK, Waiting
<1>3. (op # Idle => Waiting(op) /\ op.kind # "fixed")' /\ RoomToRead'
  BY <1>1 DEF Waiting, RoomToRead
<1>4. NextBytes' /\ ExactCount' /\ WholeLine' /\ ExceedsMeansFull'
  BY <1>1, EmptySeq DEF NextBytes, ExactCount, WholeLine, ExceedsMeansFull
<1>5. Holds(buffer, taken)' /\ (received = taken + Rest(buffer))'
  BY DEF IInv
<1>6. QED
  BY <1>2, <1>3, <1>4, <1>5 DEF IInv

\* A call.
LEMMA StartKeeps ==
  ASSUME IInv, NEW kind \in Kinds, NEW n \in Nat, Start(Call(kind, n)),
         kind = "fixed" => received > 0 /\ n <= Capacity
  PROVE  IInv'
<1> DEFINE o == Call(kind, n)
<1>1. /\ o = [kind |-> kind, n |-> n, left |-> n, from |-> taken]
      /\ taken \in Nat /\ received \in Count
  BY DEF Call, IInv, TypeOK, Count
<1>2. o.kind = kind /\ o.n = n /\ o.left = n /\ o.from = taken /\ o \in Op
  BY <1>1 DEF Op
<1> HIDE DEF o
<1>3. Waiting(o)
  <2>1. n <= n /\ taken = taken + (n - n)
    BY <1>1
  <2>2. QED
    BY <1>2, <2>1 DEF Waiting
<1>4. CASE received = 0
  <2>1. Start(o) /\ UNCHANGED received
    BY DEF Start, o
  <2>2. op' = o /\ out' = Output(Idle, <<>>, "none") /\ UNCHANGED <<buffer, received, taken>>
    BY <1>4, <2>1 DEF Start, NoOutput
  <2>3. buffer.write_pos < Capacity
    <3>1. Holds(buffer, taken) /\ received = taken + Rest(buffer)
      BY DEF IInv
    <3>2. /\ buffer.read_pos \in Nat /\ buffer.write_pos \in Nat /\ Capacity \in Nat
          /\ Rest(buffer) = buffer.write_pos - buffer.read_pos /\ Rest(buffer) \in Nat
      BY <1>1, <3>1, BufferPositions
    <3>3. Rest(buffer) = 0
      BY <1>1, <1>4, <3>1, <3>2
    <3>4. buffer.read_pos = 0
      BY <3>1, <3>3 DEF Holds
    <3>5. QED
      BY <3>2, <3>3, <3>4, BufferAssumption
  <2>4. o.kind # "fixed"
    BY <1>2, <1>4
  <2>5. QED
    BY <1>3, <2>2, <2>3, <2>4, BufferKept
<1>5. CASE received # 0
  <2>1. Try(o, buffer) /\ UNCHANGED received
    BY <1>5 DEF Start, o
  <2>2. Holds(buffer, taken) /\ received' = taken + Rest(buffer) /\ received' \in Count
    BY <1>1, <2>1 DEF IInv
  <2>3. QED
    BY <1>1, <1>2, <1>3, <2>1, <2>2, TryKeeps
<1>6. QED
  BY <1>4, <1>5

\* A chunk.
LEMMA DataKeeps ==
  ASSUME IInv, NEW k \in 1 .. Capacity, Data(k)
  PROVE  IInv'
<1> DEFINE b == Filled(buffer, received, k)
<1>1. /\ Holds(buffer, taken) /\ received = taken + Rest(buffer)
      /\ taken \in Nat /\ received \in Nat /\ Waiting(op) /\ op.kind # "fixed"
  BY DEF IInv, TypeOK, Count, Data
<1>2. Rest(buffer) \in Nat /\ k \in Nat /\ k > 0 /\ Len(Text) \in Nat
  BY <1>1, BufferPositions, BufferAssumption
<1>3. /\ received + k <= Len(Text) /\ buffer.write_pos + k <= Capacity
      /\ received' = received + k /\ Try(op, b)
  BY DEF Data
<1>4. b = Filled(buffer, taken + Rest(buffer), k)
  BY <1>1
<1> HIDE DEF b
<1>5. Holds(b, taken) /\ Rest(b) = Rest(buffer) + k
  BY <1>1, <1>2, <1>3, <1>4, FilledHolds
<1>6. received' \in Count /\ received' = taken + Rest(b)
  BY <1>1, <1>2, <1>3, <1>5 DEF Count
<1>7. QED
  BY <1>1, <1>3, <1>5, <1>6, TryKeeps

LEMMA NextIInv == IInv /\ [Next]_vars => IInv'
<1> SUFFICES ASSUME IInv, [Next]_vars
             PROVE  IInv'
  OBVIOUS
<1> USE DEF Kinds
<1>1. ASSUME NEW n \in Counts, ReadCall(n)
      PROVE  IInv'
  BY <1>1, StartKeeps, ReadableAssumption DEF ReadCall
<1>2. ASSUME NEW n \in Counts, DiscardCall(n)
      PROVE  IInv'
  BY <1>2, StartKeeps, ReadableAssumption DEF DiscardCall
<1>3. ASSUME NEW n \in Widths, ReadFixedCall(n)
      PROVE  IInv'
  <2>1. n \in Nat /\ n <= Capacity
    BY ReadableAssumption, BufferAssumption
  <2>2. QED
    BY <1>3, <2>1, StartKeeps DEF ReadFixedCall
<1>4. ASSUME ReadRestCall
      PROVE  IInv'
  BY <1>4, StartKeeps DEF ReadRestCall
<1>5. ASSUME ReadLineCall
      PROVE  IInv'
  BY <1>5, StartKeeps DEF ReadLineCall
<1>6. ASSUME DiscardRestCall
      PROVE  IInv'
  BY <1>6, StartKeeps DEF DiscardRestCall
<1>7. ASSUME NEW k \in 1 .. Capacity, Data(k)
      PROVE  IInv'
  BY <1>7, DataKeeps
<1>8. ASSUME NoData
      PROVE  IInv'
  <2>1. /\ Waiting(op) /\ op \in Op /\ op' = Idle /\ out' = Output(op, <<>>, "error")
        /\ UNCHANGED <<buffer, received, taken>>
    BY <1>8 DEF NoData, IInv, Waiting
  <2>2. QED
    BY <2>1, BufferKept
<1>9. ASSUME UNCHANGED vars
      PROVE  IInv'
  BY <1>9 DEF vars, IInv, TypeOK, Waiting, RoomToRead, NextBytes, ExactCount, WholeLine,
              ExceedsMeansFull
<1>10. QED
  BY <1>1, <1>2, <1>3, <1>4, <1>5, <1>6, <1>7, <1>8, <1>9 DEF Next

\* The inductive invariant holds in every reachable state.
THEOREM Invariance == Spec => []IInv
BY InitIInv, NextIInv, PTL DEF Spec

\* The variables keep their types: in particular the positions stay inside the memory
\* (luaio_read_buffer.c, luaio_buffer.c).
THEOREM Typing == Spec => []TypeOK
<1>1. IInv => TypeOK
  BY DEF IInv
<1>2. QED
  BY <1>1, Invariance, PTL

\* The buffer always holds exactly the bytes received and not yet taken, in order, through
\* every consumption, move and reset (luaio_read_buffer.c, luaio_buffer.c, onread).
THEOREM BufferContents == Spec => []Contents
<1>1. IInv => Contents
  BY DEF IInv, Holds, Contents
<1>2. QED
  BY <1>1, Invariance, PTL

\* No call waits for data while the memory has no room for any: EAGAIN is answered only
\* after the bytes were moved to make room (luaio_read_buffer.c).
THEOREM NeverWaitsFull == Spec => []RoomToRead
<1>1. IInv => RoomToRead
  BY DEF IInv
<1>2. QED
  BY <1>1, Invariance, PTL

\* What a call returns are the bytes that follow the ones taken before it.
THEOREM BytesInOrder == Spec => []NextBytes
<1>1. IInv => NextBytes
  BY DEF IInv
<1>2. QED
  BY <1>1, Invariance, PTL

\* read(n), discard(n) and the fixed size reads take exactly n bytes, over however many
\* chunks they come in (readable.lua).
THEOREM Counted == Spec => []ExactCount
<1>1. IInv => ExactCount
  BY DEF IInv
<1>2. QED
  BY <1>1, Invariance, PTL

\* readline returns exactly one line and takes its end off, wherever the chunks divide it.
THEOREM Lines == Spec => []WholeLine
<1>1. IInv => WholeLine
  BY DEF IInv
<1>2. QED
  BY <1>1, Invariance, PTL

\* readline answers EXCEED only when a whole capacity of unread bytes holds no line end.
THEOREM GivesUpWhenFull == Spec => []ExceedsMeansFull
<1>1. IInv => ExceedsMeansFull
  BY DEF IInv
<1>2. QED
  BY <1>1, Invariance, PTL

-----------------------------------------------------------------------------
(* The calls read a stream without a buffer. *)

\* The bytes that the buffer answers with are the next ones of the stream.
LEMMA AnsweredBytes ==
  ASSUME NEW o \in Op, NEW b, taken \in Nat, Holds(b, taken), NEW a, TriedIs(o, b, taken, a)
  PROVE  /\ Len(a.bytes) \in Nat
         /\ a.bytes = [i \in 1 .. Len(a.bytes) |-> taken + i]
<1>1. a.bytes \in Seq((taken + 1) .. (taken + Rest(b)))
  BY DEF TriedIs
<1>2. /\ Len(a.bytes) \in Nat /\ DOMAIN a.bytes = 1 .. Len(a.bytes)
      /\ a.bytes = [i \in DOMAIN a.bytes |-> a.bytes[i]]
  BY <1>1, LenProperties, SeqDef
<1>3. \A i \in 1 .. Len(a.bytes) : a.bytes[i] = taken + i
  BY DEF TriedIs
<1>4. QED
  BY <1>2, <1>3

\* A call that gets what it wants returns it.
LEMMA TryReturns ==
  ASSUME NEW o \in Op, NEW b, taken \in Nat, Holds(b, taken), Try(o, b),
         TriedIs(o, b, taken, Tried(o, b)),
         Tried(o, b).err # "again" \/ o.kind = "fixed"
  PROVE  Stream!Returns(Seen(o), Tried(o, b).taken, Len(Tried(o, b).bytes), Tried(o, b).err)
<1> DEFINE a == Tried(o, b)
<1>1. taken' = taken + a.taken /\ op' = Idle /\ out' = Output(o, a.bytes, a.err)
  BY DEF Try
<1>2. a.bytes = [i \in 1 .. Len(a.bytes) |-> taken + i]
  BY AnsweredBytes
<1> HIDE DEF a
<1>3. Seen(op)' = Stream!None
  BY <1>1 DEF Seen, Idle, Stream!None
<1>4. [out EXCEPT !.call = Seen(@)]' = [call |-> Seen(o), bytes |-> a.bytes, err |-> a.err]
  BY <1>1 DEF Output
<1>5. Stream!Returns(Seen(o), a.taken, Len(a.bytes), a.err)
  BY <1>1, <1>2, <1>3, <1>4 DEF Stream!Returns
<1>6. QED
  BY <1>5 DEF a

\* A call that does not waits.
LEMMA TryWaits ==
  ASSUME NEW o \in Op, NEW b, Try(o, b), Tried(o, b).err = "again", o.kind # "fixed"
  PROVE  Stream!Waits(Seen(o), Tried(o, b).taken)
<1> DEFINE a == Tried(o, b)
<1>1. /\ taken' = taken + a.taken /\ op' = [o EXCEPT !.left = o.left - a.taken]
      /\ out' = NoOutput
  BY DEF Try, StillToDiscard
<1> HIDE DEF a
<1>2. op'.kind = o.kind /\ op'.n = o.n /\ op'.from = o.from
  BY <1>1 DEF Op
<1>3. Seen(op)' = Seen(o)
  BY <1>2 DEF Seen
<1>4. [out EXCEPT !.call = Seen(@)]' = Stream!Nothing
  BY <1>1 DEF NoOutput, Output, Seen, Idle, Stream!Nothing, Stream!None
<1>5. Stream!Waits(Seen(o), a.taken)
  BY <1>1, <1>3, <1>4 DEF Stream!Waits
<1>6. QED
  BY <1>5 DEF a

\* What the lemmas below have in common.
Trying(o, b) ==
  /\ Waiting(o) /\ (o.kind = "fixed" => o.n <= Capacity)
  /\ taken \in Nat /\ Holds(b, taken) /\ Try(o, b)
  /\ received' = taken + Rest(b)

LEMMA TryingIs ==
  ASSUME NEW o, NEW b, Trying(o, b)
  PROVE  /\ o \in Op /\ taken \in Nat /\ Holds(b, taken) /\ Try(o, b)
         /\ o.n \in Nat /\ o.left \in Nat /\ o.from \in Nat
         /\ Rest(b) \in Nat /\ Stream!Rest = Rest(b) /\ Capacity \in Nat /\ Capacity > 0
         /\ TriedIs(o, b, taken, Tried(o, b))
         /\ Tried(o, b).taken \in Nat
         /\ Tried(o, b).err = "again" => Rest(b) - Tried(o, b).taken < Capacity
         /\ Seen(o).kind = o.kind /\ Seen(o).n = o.n /\ Seen(o).from = o.from
<1>1. o \in Op /\ taken \in Nat /\ Holds(b, taken) /\ Try(o, b)
  BY DEF Trying, Waiting
<1>2. Rest(b) \in Nat /\ Capacity \in Nat /\ Capacity > 0
  BY <1>1, BufferPositions, BufferAssumption
<1>3. Stream!Rest = Rest(b)
  BY <1>1, <1>2 DEF Trying, Stream!Rest
<1> DEFINE a == Tried(o, b)
<1>4. TriedIs(o, b, taken, a)
  BY <1>1, TriedReading, TriedDiscarding DEF Trying
<1> HIDE DEF a
<1>5. a.taken \in Nat
  BY <1>2, <1>4 DEF TriedIs
<1>6. ASSUME a.err = "again"
      PROVE  Rest(b) - a.taken < Capacity
  <2>1. a.buf.write_pos < Capacity /\ Rest(a.buf) = Rest(b) - a.taken /\ Holds(a.buf, taken + a.taken)
    BY <1>4, <1>6 DEF TriedIs
  <2>2. /\ a.buf.read_pos \in Nat /\ a.buf.write_pos \in Nat
        /\ Rest(a.buf) = a.buf.write_pos - a.buf.read_pos
    BY <1>1, <1>5, <2>1, BufferPositions
  <2>3. QED
    BY <1>2, <1>5, <2>1, <2>2
<1>7. o.n \in Nat /\ o.left \in Nat /\ o.from \in Nat
  BY <1>1 DEF Op
<1>8. QED
  BY <1>1, <1>2, <1>3, <1>4, <1>5, <1>6, <1>7 DEF a, Seen

\* read(n) returns n bytes as soon as they are there.
LEMMA ReplyRead ==
  ASSUME NEW o, NEW b, Trying(o, b), o.kind = "read"
  PROVE  Stream!Read(Seen(o))
<1> DEFINE a == Tried(o, b)
<1>1. a = Read(b, o.n)
  BY DEF Tried
<1>2. CASE o.n > Capacity
  <2>1. a.err = "raised" /\ a.taken = 0 /\ a.bytes = <<>> /\ Len(a.bytes) = 0
    BY <1>1, <1>2, EmptySeq DEF Read, Answer
  <2>2. Stream!Returns(Seen(o), 0, 0, "raised")
    BY <2>1, TryingIs, TryReturns
  <2>3. QED
    BY <1>2, <2>2, TryingIs DEF Stream!Read
<1>3. CASE ~(o.n > Capacity) /\ o.n <= Rest(b)
  <2>1. a.err = "ok"
    BY <1>1, <1>3 DEF Read, ReadFixed, Took
  <2>2. a.taken = o.n /\ Len(a.bytes) = o.n
    BY <2>1, TryingIs DEF TriedIs
  <2>3. Stream!Returns(Seen(o), o.n, o.n, "ok")
    BY <2>1, <2>2, TryingIs, TryReturns
  <2>4. QED
    BY <1>3, <2>3, TryingIs DEF Stream!Read
<1>4. CASE ~(o.n > Capacity) /\ ~(o.n <= Rest(b))
  <2>1. a.err = "again" /\ a.taken = 0
    BY <1>1, <1>4 DEF Read, ReadFixed, Answer
  <2>2. Stream!Waits(Seen(o), 0)
    BY <2>1, TryingIs, TryWaits
  <2>3. QED
    BY <1>4, <2>2, TryingIs DEF Stream!Read
<1>5. QED
  BY <1>2, <1>3, <1>4

\* A fixed size read returns its bytes if they are there, and EAGAIN if not.
LEMMA ReplyFixed ==
  ASSUME NEW o, NEW b, Trying(o, b), o.kind = "fixed"
  PROVE  Stream!ReadFixed(Seen(o))
<1> DEFINE a == Tried(o, b)
<1>1. a = ReadFixed(b, o.n)
  BY DEF Tried
<1>2. CASE o.n <= Rest(b)
  <2>1. a.err = "ok"
    BY <1>1, <1>2 DEF ReadFixed, Took
  <2>2. a.taken = o.n /\ Len(a.bytes) = o.n
    BY <2>1, TryingIs DEF TriedIs
  <2>3. Stream!Returns(Seen(o), o.n, o.n, "ok")
    BY <2>1, <2>2, TryingIs, TryReturns
  <2>4. QED
    BY <1>2, <2>3, TryingIs DEF Stream!ReadFixed
<1>3. CASE ~(o.n <= Rest(b))
  <2>1. a.err = "again" /\ a.taken = 0 /\ a.bytes = <<>> /\ Len(a.bytes) = 0
    BY <1>1, <1>3, EmptySeq DEF ReadFixed, Answer
  <2>2. Stream!Returns(Seen(o), 0, 0, "again")
    BY <2>1, TryingIs, TryReturns
  <2>3. QED
    BY <1>3, <2>2, TryingIs DEF Stream!ReadFixed
<1>4. QED
  BY <1>2, <1>3

\* read() returns what is there, and waits only for the first byte.
LEMMA ReplyRest ==
  ASSUME NEW o, NEW b, Trying(o, b), o.kind = "rest"
  PROVE  Stream!ReadRest(Seen(o))
<1> DEFINE a == Tried(o, b)
<1>1. a = ReadRest(b)
  BY DEF Tried
<1>2. CASE Rest(b) > 0
  <2>1. a.err = "ok" /\ a.taken = Rest(b) /\ a.bytes = Bytes(b, Rest(b))
    BY <1>1, <1>2 DEF ReadRest, Took
  <2>2. Len(a.bytes) = Rest(b)
    BY <2>1, TryingIs, BytesAreNext
  <2>3. Stream!Returns(Seen(o), Rest(b), Rest(b), "ok")
    BY <2>1, <2>2, TryingIs, TryReturns
  <2>4. QED
    BY <1>2, <2>3, TryingIs DEF Stream!ReadRest
<1>3. CASE ~(Rest(b) > 0)
  <2>1. a.err = "again" /\ a.taken = 0
    BY <1>1, <1>3 DEF ReadRest, Answer
  <2>2. Stream!Waits(Seen(o), 0)
    BY <2>1, TryingIs, TryWaits
  <2>3. QED
    BY <1>3, <2>2, TryingIs DEF Stream!ReadRest
<1>4. QED
  BY <1>2, <1>3

\* readline returns the first line as soon as its end is there.
LEMMA ReplyLine ==
  ASSUME NEW o, NEW b, Trying(o, b), o.kind = "line"
  PROVE  Stream!ReadLine(Seen(o))
<1> DEFINE a == Tried(o, b)
<1>1. a = ReadLine(b)
  BY DEF Tried
<1>2. /\ Rest(b) \in Nat /\ taken \in Nat /\ Stream!Rest = Rest(b) /\ Capacity \in Nat
      /\ TriedIs(o, b, taken, a) /\ a.taken \in Nat
      /\ a.err = "again" => Rest(b) - a.taken < Capacity
  BY TryingIs
<1>3. Stream!Ends = {i \in 1 .. Rest(b) : Text[taken + i] = "lf"}
  BY <1>2 DEF Stream!Ends
<1>4. LineEnds(b) = {i \in 0 .. Rest(b) - 1 : Text[taken + i + 1] = "lf"}
  BY TryingIs, LineEndsOfText
<1>5. CASE LineEnds(b) = {}
  <2>1. Stream!Ends = {}
    <3>1. ASSUME NEW i \in 1 .. Rest(b), Text[taken + i] = "lf"
          PROVE  FALSE
      <4>1. i - 1 \in 0 .. Rest(b) - 1 /\ taken + (i - 1) + 1 = taken + i
        BY <1>2
      <4>2. i - 1 \in LineEnds(b)
        BY <1>4, <3>1, <4>1
      <4>3. QED
        BY <1>5, <4>2
    <3>2. QED
      BY <1>3, <3>1
  <2>2. a.err \in {"again", "exceeds"} /\ a.taken = 0 /\ a.bytes = <<>> /\ Len(a.bytes) = 0
    BY <1>1, <1>5, EmptySeq DEF ReadLine, NoLine, Answer
  <2>3. CASE a.err = "again"
    <3>1. Stream!Waits(Seen(o), 0)
      BY <2>2, <2>3, TryingIs, TryWaits
    <3>2. Rest(b) < Capacity
      BY <1>2, <2>2, <2>3
    <3>3. QED
      BY <1>2, <2>1, <3>1, <3>2 DEF Stream!ReadLine
  <2>4. CASE a.err = "exceeds"
    <3>1. Stream!Returns(Seen(o), 0, 0, "exceeds")
      BY <2>2, <2>4, TryingIs, TryReturns
    <3>2. Rest(b) = Capacity
      BY <1>2, <2>4 DEF TriedIs
    <3>3. QED
      BY <1>2, <2>1, <3>1, <3>2 DEF Stream!ReadLine
  <2>5. QED
    BY <2>2, <2>3, <2>4
<1>6. CASE LineEnds(b) # {}
  <2> DEFINE e == a.taken
             m == Len(a.bytes)
  <2>1. a.err = "ok"
    BY <1>1, <1>6 DEF ReadLine, Line, Took
  <2>2. IsLine(taken, taken + e, m) /\ e <= Rest(b)
    BY <1>2, <2>1 DEF TriedIs
  <2>3. Stream!Returns(Seen(o), e, m, "ok")
    BY <2>1, TryingIs, TryReturns
  <2>4. m \in Nat /\ e \in Nat
    BY <1>2, TryingIs, AnsweredBytes
  <2> HIDE DEF e, m
  <2>5. e \in Stream!Ends
    <3>1. e > 0 /\ Text[taken + e] = "lf"
      BY <1>2, <2>2, <2>4 DEF IsLine
    <3>2. e \in 1 .. Rest(b)
      BY <1>2, <2>2, <2>4, <3>1
    <3>3. QED
      BY <1>3, <3>1, <3>2
  <2>6. ASSUME NEW i \in Stream!Ends, ~(e <= i)
        PROVE  FALSE
    <3>1. i \in 1 .. Rest(b) /\ Text[taken + i] = "lf"
      BY <1>3
    <3>2. taken + i \in taken + 1 .. taken + e - 1
      BY <1>2, <2>4, <2>6, <3>1
    <3>3. taken + i \in taken + 1 .. (taken + e) - 1
      BY <1>2, <2>4, <3>2
    <3>4. Text[taken + i] # "lf"
      BY <2>2, <3>3 DEF IsLine
    <3>5. QED
      BY <3>1, <3>4
  <2>7. m = IF e > 1 /\ Text[taken + e - 1] = "cr" THEN e - 2 ELSE e - 1
    <3>1. taken + m = IF taken + e - 1 > taken /\ Text[taken + e - 1] = "cr"
                      THEN taken + e - 2 ELSE taken + e - 1
      BY <1>2, <2>2, <2>4 DEF IsLine
    <3>2. QED
      BY <1>2, <2>4, <3>1
  <2>8. QED
    BY <2>3, <2>5, <2>6, <2>7 DEF Stream!ReadLine
<1>7. QED
  BY <1>5, <1>6

\* discard(n) returns as soon as n bytes have been there.
LEMMA ReplyDiscard ==
  ASSUME NEW o, NEW b, Trying(o, b), o.kind = "discard"
  PROVE  Stream!Discard(Seen(o))
<1> DEFINE a == Tried(o, b)
<1>1. /\ a.err = IF o.left <= Rest(b) THEN "ok" ELSE "again"
      /\ a.taken = IF o.left < Rest(b) THEN o.left ELSE Rest(b)
      /\ a.bytes = <<>> /\ Len(a.bytes) = 0
  BY EmptySeq DEF Tried, Discard, Took
<1>2. /\ Rest(b) \in Nat /\ o.left \in Nat /\ Stream!Rest = Rest(b)
      /\ Seen(o).from = o.from /\ Seen(o).n = o.n
  BY TryingIs
<1>3. o.left = o.from + o.n - taken
  <2>1. taken = o.from + (o.n - o.left)
    BY DEF Trying, Waiting
  <2>2. o.from \in Nat /\ o.n \in Nat /\ o.left \in Nat
    BY TryingIs
  <2>3. QED
    BY <2>1, <2>2
<1> HIDE DEF a
<1>4. CASE o.left <= Rest(b)
  <2>1. a.err = "ok" /\ a.taken = o.left
    BY <1>1, <1>2, <1>4
  <2>2. Stream!Returns(Seen(o), o.left, 0, "ok")
    BY <1>1, <2>1, TryingIs, TryReturns DEF a
  <2>3. QED
    BY <1>2, <1>3, <1>4, <2>2 DEF Stream!Discard
<1>5. CASE ~(o.left <= Rest(b))
  <2>1. a.err = "again" /\ a.taken = Rest(b)
    BY <1>1, <1>2, <1>5
  <2>2. Stream!Waits(Seen(o), Rest(b))
    BY <2>1, TryingIs, TryWaits DEF a
  <2>3. QED
    BY <1>2, <1>3, <1>5, <2>2 DEF Stream!Discard
<1>6. QED
  BY <1>4, <1>5

\* discard() takes what is there.
LEMMA ReplyDiscardRest ==
  ASSUME NEW o, NEW b, Trying(o, b), o.kind = "discard-rest"
  PROVE  Stream!DiscardRest(Seen(o))
<1> DEFINE a == Tried(o, b)
<1>1. a.err = "ok" /\ a.taken = Rest(b) /\ a.bytes = <<>> /\ Len(a.bytes) = 0
  BY EmptySeq DEF Tried, Discard, Took
<1>2. Stream!Returns(Seen(o), Rest(b), 0, "ok")
  BY <1>1, TryingIs, TryReturns
<1>3. QED
  BY <1>2, TryingIs DEF Stream!DiscardRest

\* A call that tries the buffer answers as the stream does.
LEMMA TryReplies ==
  ASSUME NEW o, NEW b, Trying(o, b)
  PROVE  Stream!Reply(Seen(o))
<1>1. o.kind \in Kinds /\ Seen(o).kind = o.kind
  BY TryingIs DEF Op
<1>2. CASE o.kind = "read"
  BY <1>1, <1>2, ReplyRead DEF Stream!Reply
<1>3. CASE o.kind = "fixed"
  BY <1>1, <1>3, ReplyFixed DEF Stream!Reply
<1>4. CASE o.kind = "rest"
  BY <1>1, <1>4, ReplyRest DEF Stream!Reply
<1>5. CASE o.kind = "line"
  BY <1>1, <1>5, ReplyLine DEF Stream!Reply
<1>6. CASE o.kind = "discard"
  BY <1>1, <1>6, ReplyDiscard DEF Stream!Reply
<1>7. CASE o.kind = "discard-rest"
  BY <1>1, <1>7, ReplyDiscardRest DEF Stream!Reply
<1>8. QED
  BY <1>1, <1>2, <1>3, <1>4, <1>5, <1>6, <1>7 DEF Kinds

\* A call of the program.
LEMMA StartAsks ==
  ASSUME IInv, NEW kind \in Kinds, NEW n \in Counts \cup Widths \cup {0}, n \in Nat,
         Start(Call(kind, n)), kind = "fixed" => received > 0 /\ n <= Capacity
  PROVE  Stream!Next
<1> DEFINE o == Call(kind, n)
           c == [kind |-> kind, n |-> n, from |-> taken]
<1>1. taken \in Nat /\ received \in Nat
  BY DEF IInv, TypeOK, Count
<1>2. /\ o.kind = kind /\ o.n = n /\ o.left = n /\ o.from = taken /\ o \in Op
      /\ Seen(o) = c
  BY <1>1 DEF Call, Op, Seen
<1>3. op = Idle /\ Seen(op) = Stream!None /\ received' = received
  BY DEF Start, Seen, Idle, Stream!None
<1> HIDE DEF o
<1>4. CASE received = 0
  <2>1. op' = o /\ out' = NoOutput /\ taken' = taken
    BY <1>4 DEF Start, o
  <2>2. Seen(op)' = c
    BY <1>2, <2>1 DEF Seen
  <2>3. [out EXCEPT !.call = Seen(@)]' = Stream!Nothing
    BY <2>1 DEF NoOutput, Output, Seen, Idle, Stream!Nothing, Stream!None
  <2>4. Stream!Waits(c, 0)
    BY <1>1, <2>1, <2>2, <2>3 DEF Stream!Waits
  <2>5. QED
    BY <1>3, <1>4, <2>4 DEF Stream!Next, Stream!Ask, Stream!Kinds, Kinds
<1>5. CASE received # 0
  <2>1. Try(o, buffer)
    BY <1>5 DEF Start, o
  <2>2. Waiting(o)
    <3>1. n <= n /\ taken = taken + (n - n)
      BY <1>1
    <3>2. QED
      BY <1>2, <3>1 DEF Waiting
  <2>3. Trying(o, buffer)
    BY <1>1, <1>2, <1>3, <2>1, <2>2 DEF Trying, IInv
  <2>4. Stream!Reply(c)
    BY <1>2, <2>3, TryReplies
  <2>5. received > 0
    BY <1>1, <1>5
  <2>6. QED
    BY <1>3, <2>4, <2>5 DEF Stream!Next, Stream!Ask, Stream!Kinds, Kinds
<1>6. QED
  BY <1>4, <1>5

\* A chunk.
LEMMA DataArrives ==
  ASSUME IInv, NEW k \in 1 .. Capacity, Data(k)
  PROVE  Stream!Next
<1> DEFINE b == Filled(buffer, received, k)
<1>1. /\ Holds(buffer, taken) /\ received = taken + Rest(buffer)
      /\ taken \in Nat /\ received \in Nat /\ Waiting(op) /\ op.kind # "fixed"
  BY DEF IInv, TypeOK, Count, Data
<1>2. Rest(buffer) \in Nat /\ k \in Nat /\ k > 0 /\ Len(Text) \in Nat
  BY <1>1, BufferPositions, BufferAssumption
<1>3. /\ received + k <= Len(Text) /\ buffer.write_pos + k <= Capacity
      /\ received' = received + k /\ Try(op, b)
  BY DEF Data
<1>4. b = Filled(buffer, taken + Rest(buffer), k)
  BY <1>1
<1> HIDE DEF b
<1>5. Holds(b, taken) /\ Rest(b) = Rest(buffer) + k
  BY <1>1, <1>2, <1>3, <1>4, FilledHolds
<1>6. Trying(op, b)
  BY <1>1, <1>2, <1>3, <1>5 DEF Trying
<1>7. Stream!Reply(Seen(op))
  BY <1>6, TryReplies
<1>8. Seen(op) # Stream!None
  <2>1. op.kind # "idle"
    BY <1>1 DEF Waiting, Op, Kinds
  <2>2. QED
    BY <2>1 DEF Seen, Stream!None
<1>9. received' \in received + 1 .. Len(Text)
  BY <1>1, <1>2, <1>3
<1>10. QED
  BY <1>7, <1>8, <1>9 DEF Stream!Next, Stream!Arrive

\* A timeout, an error or the end of the stream.
LEMMA NoDataFails ==
  ASSUME IInv, NoData
  PROVE  Stream!Next
<1>1. op # Idle /\ op' = Idle /\ out' = Output(op, <<>>, "error") /\ UNCHANGED <<received, taken>>
  BY DEF NoData
<1>2. Seen(op) # Stream!None
  <2>1. op.kind # "idle"
    BY <1>1 DEF IInv, Waiting, Op, Kinds
  <2>2. QED
    BY <2>1 DEF Seen, Stream!None
<1>3. Seen(op)' = Stream!None
  BY <1>1 DEF Seen, Idle, Stream!None
<1>4. [out EXCEPT !.call = Seen(@)]' = [call |-> Seen(op), bytes |-> <<>>, err |-> "error"]
  BY <1>1 DEF Output
<1>5. taken \in Nat /\ <<>> = [i \in 1 .. 0 |-> taken + i]
  BY DEF IInv, TypeOK, Count
<1>6. Stream!Returns(Seen(op), 0, 0, "error")
  BY <1>1, <1>3, <1>4, <1>5 DEF Stream!Returns
<1>7. QED
  BY <1>1, <1>2, <1>6 DEF Stream!Next, Stream!Fail

\* Every step of the reader is a step of the stream, or none.
LEMMA StepReads ==
  ASSUME IInv, [Next]_vars
  PROVE  [Stream!Next]_(Stream!streamVars)
<1>1. 0 \in Nat /\ Counts \subseteq Nat /\ Widths \subseteq Nat
  BY ReadableAssumption, BufferAssumption
<1> USE DEF Kinds
<1>2. ASSUME NEW n \in Counts, ReadCall(n) \/ DiscardCall(n)
      PROVE  Stream!Next
  BY <1>1, <1>2, StartAsks DEF ReadCall, DiscardCall
<1>3. ASSUME NEW n \in Widths, ReadFixedCall(n)
      PROVE  Stream!Next
  <2>1. n \in Nat /\ n <= Capacity
    BY ReadableAssumption, BufferAssumption
  <2>2. QED
    BY <1>3, <2>1, StartAsks DEF ReadFixedCall
<1>4. ASSUME ReadRestCall \/ ReadLineCall \/ DiscardRestCall
      PROVE  Stream!Next
  BY <1>1, <1>4, StartAsks DEF ReadRestCall, ReadLineCall, DiscardRestCall
<1>5. ASSUME NEW k \in 1 .. Capacity, Data(k)
      PROVE  Stream!Next
  BY <1>5, DataArrives
<1>6. ASSUME NoData
      PROVE  Stream!Next
  BY <1>6, NoDataFails
<1>7. ASSUME UNCHANGED vars
      PROVE  UNCHANGED Stream!streamVars
  BY <1>7 DEF vars, Stream!streamVars, Seen
<1>8. QED
  BY <1>2, <1>3, <1>4, <1>5, <1>6, <1>7 DEF Next

\* The calls of a coroutine read a stream: each returns the bytes that follow, as soon as
\* they have been received and no later, whatever the buffer does (readable.lua over
\* luaio_read_buffer.c).
THEOREM ReadsLikeStream == Spec => ReadsStream
<1>1. Init => Stream!Init
  BY DEF Init, NoOutput, Output, Seen, Idle, Stream!Init, Stream!None, Stream!Nothing
<1>2. IInv /\ [Next]_vars => [Stream!Next]_(Stream!streamVars)
  BY StepReads
<1>3. QED
  BY <1>1, <1>2, Invariance, PTL DEF Spec, ReadsStream, Stream!Spec
=============================================================================
