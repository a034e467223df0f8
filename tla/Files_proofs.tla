---------------------------- MODULE Files_proofs ----------------------------
(***************************************************************************)
(* For every number of coroutines, streams and descriptors, every size and *)
(* offset, and whatever the pool does first: the types; when a stream is   *)
(* used by one coroutine at a time, that every request finds its own file  *)
(* and descriptors are accounted for; and when also every write is whole   *)
(* and offsets are ints, that the bytes of a stream follow each other.     *)
(***************************************************************************)
EXTENDS Files, TLAPS

FileOps == {"readFile", "writeFile", "truncate"}
StreamOps == {"new", "move", "close"}

\* A request q of coroutine c: whom it is for; it has a descriptor unless it is the
\* open that is still to bring one; and it moves no more than it reports.
RequestOK(c, q) ==
  /\ q.op \in FileOps => q.for = c
  /\ q.op \in StreamOps => q.for \in Streams
  /\ q.op = "new" => q.step = "open"
  /\ q.op \in {"move", "close"} => q.step = q.op
  /\ q.step = "open" => (q.fd \in Fds <=> q.ok)
  /\ q.step # "open" => q.fd \in Fds
  /\ q.ok => q.done
  /\ q.moved <= Reported(q)

Requests == \A c \in Coros : task[c] # NoTask => RequestOK(c, task[c])

OpenHasFd == \A s \in Streams : stream[s].open => stream[s].fd \in Fds

\* The offset of a stream follows its bytes.
StreamOK(s) ==
  /\ stream[s].lost <= stream[s].bytes
  /\ stream[s].offset # NoOffset => stream[s].offset = stream[s].start + stream[s].bytes
  /\ stream[s].offset = NoOffset => stream[s].start = 0

\* A call on a stream has its descriptor.
CallOK(c) ==
  /\ task[c].op = "new" =>
       /\ ~stream[task[c].for].open
       /\ stream[task[c].for].bytes = 0 /\ stream[task[c].for].lost = 0
  /\ task[c].op \in {"move", "close"} =>
       stream[task[c].for].open /\ task[c].fd = stream[task[c].for].fd

\* A stream has one call at a time.
Alone ==
  \A c, d \in Coros :
    task[c].op \in StreamOps /\ task[d].op \in StreamOps /\ task[c].for = task[d].for => c = d

Streaming ==
  /\ \A s \in Streams : StreamOK(s)
  /\ \A c \in Coros : CallOK(c)
  /\ Alone

\* Who knows an open descriptor: a stream, or a call that opened it.
StreamHolds(s) == stream[s].open /\ ~BeingClosed(s)
CallHolds(c) ==
  /\ task[c].op \in FileOps \cup {"new"}
  /\ task[c].fd \in Fds
  /\ ~(task[c].step = "close" /\ task[c].done)

\* The table has every descriptor that is known, for the one who knows it, and every
\* other open one was left open.
Tabled ==
  /\ \A s \in Streams : StreamHolds(s) => table[stream[s].fd] = s /\ stream[s].fd \notin left
  /\ \A c \in Coros : CallHolds(c) => table[task[c].fd] = task[c].for /\ task[c].fd \notin left
  /\ \A f \in Fds : table[f] # NoOwner /\ f \notin left =>
       \/ \E s \in Streams : StreamHolds(s) /\ stream[s].fd = f
       \/ \E c \in Coros : CallHolds(c) /\ task[c].fd = f
  /\ \A f \in left : table[f] # NoOwner

\* The position of a stream without an offset, which a request that is done has
\* already moved on; and the places of the requests.
Counting(s) == \A c \in Coros : ~(JustMoved(c) /\ task[c].for = s)

\* The place of the next bytes of a stream.
NextPlace(v) == IF v.offset = NoOffset THEN v.bytes - v.lost ELSE v.start + v.bytes

PlacedStream(s) ==
  StreamHolds(s) /\ stream[s].offset = NoOffset /\ Counting(s) =>
    position[stream[s].fd] = stream[s].bytes - stream[s].lost

PlacedCall(c) ==
  /\ task[c].op = "new" /\ task[c].ok => position[task[c].fd] = 0
  /\ task[c].op = "move" /\ ~task[c].done => task[c].pos = AsInt(stream[task[c].for].offset)
  /\ JustMoved(c) =>
       LET v == stream[task[c].for]
       IN /\ v.offset < IntBound => task[c].at = NextPlace(v)
          /\ v.offset = NoOffset => position[task[c].fd] = NextPlace(v) + task[c].moved

Placed ==
  /\ \A s \in Streams : PlacedStream(s)
  /\ \A c \in Coros : PlacedCall(c)

Typed == TypeOK /\ Requests /\ OpenHasFd

\* The inductive invariant, when a stream is used by one coroutine at a time.
OneAtATime == Overlaps \notin Allow
IInv == Typed /\ Streaming /\ Tabled /\ Placed

\* No write is short and no offset is large, and what follows: all that streams count
\* has been moved, and every move of a stream is at its offset.
Plain == OneAtATime /\ ShortWrites \notin Allow /\ LargeOffsets \notin Allow
Whole ==
  /\ \A s \in Streams : stream[s].lost = 0
  /\ \A c \in Coros : task[c].op = "move" =>
       /\ stream[task[c].for].offset < IntBound
       /\ task[c].ok => task[c].moved = Reported(task[c])

-----------------------------------------------------------------------------
(* Types *)

LEMMA OffsetIsInt == ASSUME NEW p \in Int PROVE AsInt(p) \in Int
  BY FilesAssumption DEF AsInt

\* An offset below 2^31, or none, is passed on as it is.
LEMMA SmallOffset ==
  ASSUME NEW p \in Nat \cup {NoOffset}, p < IntBound
  PROVE  AsInt(p) = p
<1>1. IntBound \in Nat \ {0}
  BY FilesAssumption
<1>2. \A a, m \in Int : m > 0 /\ 0 <= a /\ a < m => a % m = a
  OBVIOUS
<1>3. p + IntBound \in Int /\ 2 * IntBound \in Int /\ 2 * IntBound > 0
      /\ 0 <= p + IntBound /\ p + IntBound < 2 * IntBound
  BY <1>1 DEF NoOffset
<1>4. (p + IntBound) % (2 * IntBound) = p + IntBound
  BY <1>2, <1>3
<1>5. QED
  BY <1>1, <1>4 DEF AsInt, NoOffset

LEMMA NoTaskIsNone == NoTask \notin Task /\ NoTask.op = "none"
  BY DEF NoTask, Request, Task, Ops

LEMMA RequestTyped ==
  ASSUME NEW op \in Ops, NEW step \in Steps, NEW o \in Coros \cup Streams,
         NEW f \in Fds \cup {NoFd}, NEW n \in Nat, NEW p \in Int
  PROVE  LET q == Request(op, step, o, f, n, p)
         IN /\ q \in Task
            /\ q.op = op /\ q.step = step /\ q.for = o /\ q.fd = f /\ q.len = n /\ q.pos = p
            /\ ~q.done /\ ~q.ok /\ q.at = 0 /\ q.moved = 0
            /\ q.moved <= Reported(q)
  BY DEF Request, Task, Reported, Writes

\* The types are kept by a step that gives one coroutine another request or none.
LEMMA OneTask ==
  ASSUME Typed, NEW c \in Coros, NEW q \in Task \cup {NoTask},
         q # NoTask => RequestOK(c, q),
         task' = [task EXCEPT ![c] = q]
  PROVE  task' \in [Coros -> Task \cup {NoTask}] /\ Requests'
<1>1. task' \in [Coros -> Task \cup {NoTask}]
  BY DEF Typed, TypeOK
<1>2. ASSUME NEW d \in Coros, task'[d] # NoTask
      PROVE  RequestOK(d, task'[d])
  BY <1>2 DEF Typed, TypeOK, Requests
<1>3. QED
  BY <1>1, <1>2 DEF Requests, RequestOK, Reported, Writes

LEMMA SubmitTyped ==
  ASSUME Typed, NEW c \in Coros, NEW q \in Task, RequestOK(c, q), Submit(c, q)
  PROVE  task' \in [Coros -> Task \cup {NoTask}] /\ Requests'
BY OneTask DEF Submit

LEMMA ReturnTyped ==
  ASSUME Typed, NEW c \in Coros, task[c] # NoTask, Return(c)
  PROVE  task' \in [Coros -> Task \cup {NoTask}] /\ Requests'
BY OneTask DEF Return

\* A coroutine with a call has a request that is in order.
LEMMA HasRequest ==
  ASSUME Typed, NEW c \in Coros, task[c].op # "none" \/ task[c].step # "none" \/ task[c].done
  PROVE  task[c] \in Task /\ task[c] # NoTask /\ RequestOK(c, task[c])
  BY DEF Typed, TypeOK, Requests, NoTask, Request

\* What a thread of the pool answers.
LEMMA AnswerTyped ==
  ASSUME Typed, NEW c \in Coros, task[c] # NoTask, NEW q \in Task,
         q.op = task[c].op, q.step = task[c].step, q.for = task[c].for, q.done,
         q.step = "open" => (q.fd \in Fds <=> q.ok),
         q.step # "open" => q.fd = task[c].fd,
         q.moved <= Reported(q),
         task' = [task EXCEPT ![c] = q]
  PROVE  task' \in [Coros -> Task \cup {NoTask}] /\ Requests'
<1>1. RequestOK(c, q)
  BY DEF Typed, Requests, RequestOK
<1>2. QED
  BY <1>1, OneTask

LEMMA CallingTyped ==
  ASSUME Typed, NEW c \in Coros, Calling(c)
  PROVE  Typed'
<1>1. ASSUME NEW s \in Streams, New(c, s) PROVE Typed'
  <2>1. PICK p \in Starts \cup {NoOffset} :
          stream' = [stream EXCEPT ![s] = [Gone EXCEPT !.offset = p,
                                                       !.start = IF p = NoOffset THEN 0 ELSE p]]
    BY <1>1 DEF New
  <2>2. /\ [Gone EXCEPT !.offset = p, !.start = IF p = NoOffset THEN 0 ELSE p] \in Stream
        /\ ~[Gone EXCEPT !.offset = p, !.start = IF p = NoOffset THEN 0 ELSE p].open
    BY FilesAssumption DEF Stream, Gone
  <2>3. stream' \in [Streams -> Stream] /\ OpenHasFd'
    BY <2>1, <2>2 DEF Typed, TypeOK, OpenHasFd
  <2>4. NoFd \notin Fds
    BY FilesAssumption
  <2>5. RequestOK(c, Request("new", "open", s, NoFd, 0, NoOffset))
        /\ Request("new", "open", s, NoFd, 0, NoOffset) \in Task
        /\ Submit(c, Request("new", "open", s, NoFd, 0, NoOffset))
    BY <1>1, <2>4, RequestTyped DEF New, RequestOK, FileOps, StreamOps, Ops, Steps, NoOffset
  <2>6. QED
    BY <1>1, <2>3, <2>5, SubmitTyped DEF Typed, TypeOK, New
<1>2. ASSUME NEW s \in Streams, Close(c, s) PROVE Typed'
  <2>1. stream[s].fd \in Fds
    BY <1>2 DEF Close, Usable, Typed, OpenHasFd
  <2>2. RequestOK(c, Request("close", "close", s, stream[s].fd, 0, NoOffset))
        /\ Request("close", "close", s, stream[s].fd, 0, NoOffset) \in Task
    BY <2>1, RequestTyped DEF RequestOK, FileOps, StreamOps, Ops, Steps, NoOffset
  <2>3. QED
    BY <1>2, <2>2, SubmitTyped DEF Typed, TypeOK, Close, OpenHasFd
<1>3. ASSUME NEW s \in Streams, CloseFails(c, s) PROVE Typed'
  <2>1. stream[s].fd \in Fds
    BY <1>3 DEF CloseFails, Usable, Typed, OpenHasFd
  <2>2. Gone \in Stream /\ ~Gone.open
    BY DEF Gone, Stream
  <2>3. stream' \in [Streams -> Stream] /\ OpenHasFd'
    BY <1>3, <2>2 DEF CloseFails, Typed, TypeOK, OpenHasFd
  <2>4. Requests'
    BY <1>3 DEF CloseFails, Typed, Requests, RequestOK, Reported, Writes
  <2>5. QED
    BY <1>3, <2>1, <2>3, <2>4 DEF CloseFails, Typed, TypeOK
<1>4. ASSUME NEW s \in Streams, NEW n \in Lengths, Move(c, s, n) PROVE Typed'
  <2>1. stream[s].fd \in Fds /\ n \in Nat
    BY <1>4, FilesAssumption DEF Move, Usable, Typed, OpenHasFd
  <2>2. AsInt(stream[s].offset) \in Int
    BY OffsetIsInt DEF Typed, TypeOK, Stream, NoOffset
  <2>3. PICK p \in Int : p = AsInt(stream[s].offset)
    BY <2>2
  <2>4. RequestOK(c, Request("move", "move", s, stream[s].fd, n, p))
        /\ Request("move", "move", s, stream[s].fd, n, p) \in Task
    <3> DEFINE q == Request("move", "move", s, stream[s].fd, n, p)
    <3> DEFINE f == stream[s].fd
    <3>1. /\ "move" \in Ops /\ "move" \in Steps /\ s \in Coros \cup Streams
          /\ f \in Fds \cup {NoFd} /\ n \in Nat /\ p \in Int
      BY <2>1 DEF Ops, Steps
    <3> HIDE DEF f, q
    <3>2. /\ q \in Task /\ q.op = "move" /\ q.step = "move" /\ q.for = s /\ q.fd = f
          /\ ~q.ok /\ q.moved <= Reported(q)
      BY <3>1 DEF q, f, Request, Task, Reported, Writes
    <3>3. RequestOK(c, q)
      BY <2>1, <3>2 DEF RequestOK, FileOps, StreamOps, f
    <3>4. QED
      BY <3>2, <3>3 DEF q
  <2>5. QED
    BY <1>4, <2>3, <2>4, SubmitTyped DEF Typed, TypeOK, Move, OpenHasFd
<1>5. ASSUME NEW op \in FileOps, FileCall(c, op) PROVE Typed'
  <2>1. RequestOK(c, Request(op, "open", c, NoFd, 0, NoOffset))
        /\ Request(op, "open", c, NoFd, 0, NoOffset) \in Task
    <3> DEFINE q == Request(op, "open", c, NoFd, 0, NoOffset)
    <3>1. op \in Ops /\ "open" \in Steps /\ NoOffset \in Int
      BY DEF FileOps, Ops, Steps, NoOffset
    <3>2. /\ q \in Task /\ q.op = op /\ q.step = "open" /\ q.for = c /\ q.fd = NoFd
          /\ ~q.ok /\ q.moved <= Reported(q)
      BY <3>1 DEF Request, Task, Reported, Writes
    <3> HIDE DEF q
    <3>3. RequestOK(c, q)
      BY <3>2, FilesAssumption DEF RequestOK, FileOps, StreamOps
    <3>4. QED
      BY <3>2, <3>3 DEF q
  <2>2. QED
    BY <1>5, <2>1, SubmitTyped DEF Typed, TypeOK, FileCall, OpenHasFd
<1>6. QED
  BY <1>1, <1>2, <1>3, <1>4, <1>5 DEF Calling, FileOps

LEMMA WorkingTyped ==
  ASSUME Typed, NEW c \in Coros, Working(c)
  PROVE  Typed'
<1>1. ASSUME NEW f \in Fds, DoOpen(c, f) PROVE Typed'
  <2> DEFINE q == [task[c] EXCEPT !.done = TRUE, !.ok = TRUE, !.fd = f]
  <2>1. task[c] \in Task /\ task[c] # NoTask /\ RequestOK(c, task[c]) /\ task[c].step = "open"
    BY <1>1, HasRequest DEF DoOpen, Queued
  <2>2. /\ q \in Task /\ q.op = task[c].op /\ q.step = task[c].step /\ q.for = task[c].for
        /\ q.done /\ q.ok /\ q.fd = f /\ q.moved <= Reported(q)
    BY <2>1 DEF Task, RequestOK, Reported, Writes
  <2>3. task' = [task EXCEPT ![c] = q]
    BY <1>1, <2>1 DEF DoOpen, Typed, TypeOK
  <2>4. task' \in [Coros -> Task \cup {NoTask}] /\ Requests'
    BY <2>1, <2>2, <2>3, AnswerTyped
  <2>5. task[c].for \in Coros \cup Streams
    BY <2>1 DEF Task
  <2>6. QED
    BY <1>1, <2>4, <2>5 DEF DoOpen, Typed, TypeOK, OpenHasFd
<1>2. CASE DoMove(c)
  <2>1. /\ task[c] \in Task /\ task[c] # NoTask /\ RequestOK(c, task[c])
        /\ task[c].step = "move" /\ task[c].fd \in Fds
    BY <1>2, HasRequest DEF DoMove, Queued, RequestOK
  <2>2. PICK k \in Movable(task[c]) :
          /\ task' = [task EXCEPT ![c] =
               [task[c] EXCEPT !.done = TRUE, !.ok = TRUE, !.moved = k,
                  !.at = IF task[c].pos < 0 THEN position[task[c].fd] ELSE task[c].pos]]
          /\ position' = IF task[c].pos < 0 THEN [position EXCEPT ![task[c].fd] = @ + k]
                                            ELSE position
    BY <1>2 DEF DoMove
  <2> DEFINE q == [task[c] EXCEPT !.done = TRUE, !.ok = TRUE, !.moved = k,
                     !.at = IF task[c].pos < 0 THEN position[task[c].fd] ELSE task[c].pos]
  <2>3. k \in Nat /\ k <= task[c].len
    BY <2>1, <2>2 DEF Movable, Writes, Task
  <2>4. /\ q \in Task /\ q.op = task[c].op /\ q.step = task[c].step /\ q.for = task[c].for
        /\ q.done /\ q.fd = task[c].fd /\ q.moved <= Reported(q)
    <3>1. position[task[c].fd] \in Nat /\ task[c].pos \in Int
      BY <2>1 DEF Typed, TypeOK, Task
    <3>2. PICK a \in Nat : a = IF task[c].pos < 0 THEN position[task[c].fd] ELSE task[c].pos
      BY <3>1
    <3>3. [task[c] EXCEPT !.done = TRUE, !.ok = TRUE, !.moved = k, !.at = a] \in Task
      BY <2>1, <2>3 DEF Task
    <3>4. q.moved = k /\ q.op = task[c].op /\ q.step = task[c].step /\ q.for = task[c].for
          /\ q.done /\ q.fd = task[c].fd /\ q.len = task[c].len
      BY <2>1 DEF Task
    <3>5. q.moved <= Reported(q)
      BY <2>3, <3>4 DEF Reported, Writes
    <3>6. QED
      BY <3>2, <3>3, <3>4, <3>5
  <2>5. task' \in [Coros -> Task \cup {NoTask}] /\ Requests'
    BY <2>1, <2>2, <2>4, AnswerTyped
  <2>6. position' \in [Fds -> Nat]
    BY <2>1, <2>2, <2>3 DEF Typed, TypeOK
  <2>7. QED
    BY <1>2, <2>5, <2>6 DEF DoMove, Typed, TypeOK, OpenHasFd
<1>3. CASE DoOther(c) \/ DoClose(c) \/ DoFail(c)
  <2>1. task[c] \in Task /\ task[c] # NoTask /\ RequestOK(c, task[c])
    BY <1>3, HasRequest DEF DoOther, DoClose, DoFail, Queued
  <2>2. PICK ok \in BOOLEAN :
          /\ task' = [task EXCEPT ![c].done = TRUE, ![c].ok = ok]
          /\ task[c].step = "open" => ~ok
    <3>1. task[c] = [task[c] EXCEPT !.ok = FALSE] \/ task[c].done
      BY <2>1 DEF Task, RequestOK
    <3>2. CASE DoOther(c)
      BY <3>2 DEF DoOther, Queued
    <3>3. CASE DoClose(c)
      BY <3>3 DEF DoClose, Queued
    <3>4. CASE DoFail(c)
      <4>1. ~task[c].done /\ task' = [task EXCEPT ![c].done = TRUE]
        BY <3>4 DEF DoFail, Fail, Queued
      <4>2. [task[c] EXCEPT !.done = TRUE] = [[task[c] EXCEPT !.done = TRUE] EXCEPT !.ok = FALSE]
        BY <2>1, <4>1 DEF Task, RequestOK
      <4>3. task' = [task EXCEPT ![c].done = TRUE, ![c].ok = FALSE]
        BY <2>1, <4>1, <4>2 DEF Typed, TypeOK
      <4>4. QED
        BY <4>3
    <3>5. QED
      BY <1>3, <3>2, <3>3, <3>4
  <2> DEFINE q == [task[c] EXCEPT !.done = TRUE, !.ok = ok]
  <2>3. /\ q \in Task /\ q.op = task[c].op /\ q.step = task[c].step /\ q.for = task[c].for
        /\ q.done /\ q.ok = ok /\ q.fd = task[c].fd /\ q.moved <= Reported(q)
    BY <2>1 DEF Task, RequestOK, Reported, Writes
  <2>4. task' = [task EXCEPT ![c] = q]
    BY <2>1, <2>2 DEF Typed, TypeOK
  <2>5. task[c].step = "open" => task[c].fd \notin Fds
    BY <1>3, <2>1 DEF DoOther, DoClose, DoFail, Queued, RequestOK
  <2>6. task' \in [Coros -> Task \cup {NoTask}] /\ Requests'
    BY <2>1, <2>2, <2>3, <2>4, <2>5, AnswerTyped
  <2>7. table' \in [Fds -> Coros \cup Streams \cup {NoOwner}]
    BY <1>3, <2>1 DEF DoOther, DoClose, DoFail, Fail, Typed, TypeOK
  <2>8. QED
    BY <1>3, <2>6, <2>7 DEF DoOther, DoClose, DoFail, Fail, Typed, TypeOK, OpenHasFd
<1>4. QED
  BY <1>1, <1>2, <1>3 DEF Working

\* A call that is called back goes on to another request, or returns.
LEMMA ContinueTyped ==
  ASSUME Typed, NEW c \in Coros, NEW step \in Steps \ {"open"}, NEW n \in Nat,
         task[c].op \in FileOps, task[c].fd \in Fds, Continue(c, step, n)
  PROVE  Typed'
<1>1. task[c].for = c /\ task[c].op \in Ops
  BY HasRequest DEF RequestOK, Task, FileOps
<1>2. RequestOK(c, Request(task[c].op, step, c, task[c].fd, n, NoOffset))
      /\ Request(task[c].op, step, c, task[c].fd, n, NoOffset) \in Task
  BY <1>1, RequestTyped DEF RequestOK, FileOps, StreamOps, NoOffset
<1>3. QED
  BY <1>2, SubmitTyped DEF Continue, Typed, TypeOK, OpenHasFd

LEMMA ReturnUnchanged ==
  ASSUME Typed, NEW c \in Coros, task[c] # NoTask,
         Return(c), UNCHANGED <<stream, table, position>>, left' \subseteq Fds
  PROVE  Typed'
  BY ReturnTyped DEF Typed, TypeOK, OpenHasFd

LEMMA CloseFileTyped ==
  ASSUME Typed, NEW c \in Coros, task[c].op \in FileOps, task[c].fd \in Fds, CloseFile(c)
  PROVE  Typed'
<1>1. CASE Continue(c, "close", 0)
  BY <1>1, ContinueTyped DEF Steps
<1>2. CASE ~Continue(c, "close", 0)
  <2>1. task[c] # NoTask
    BY HasRequest DEF FileOps
  <2>2. left' \subseteq Fds /\ UNCHANGED <<stream, table, position>> /\ Return(c)
    BY <1>2 DEF CloseFile, ReturnLeaving, Typed, TypeOK
  <2>3. QED
    BY <2>1, <2>2, ReturnUnchanged
<1>3. QED
  BY <1>1, <1>2

\* How the bytes of a call are counted.
LEMMA CountedTyped ==
  ASSUME NEW v \in Stream, NEW n \in Nat, NEW k \in Nat, k <= n
  PROVE  /\ Counted(v, n, k) \in Stream
         /\ Counted(v, n, k).open = v.open /\ Counted(v, n, k).fd = v.fd
         /\ Counted(v, n, k).start = v.start
         /\ Counted(v, n, k).bytes = v.bytes + n
         /\ Counted(v, n, k).lost = v.lost + (n - k)
         /\ Counted(v, n, k).offset = IF v.offset = NoOffset THEN NoOffset ELSE v.offset + n
<1>1. v.lost + (n - k) \in Nat /\ v.bytes + n \in Nat
  BY DEF Stream
<1>2. (IF v.offset = NoOffset THEN v.offset ELSE v.offset + n) \in Nat \cup {NoOffset}
  BY DEF Stream
<1>3. QED
  BY <1>1, <1>2 DEF Counted, Stream

LEMMA ReportedTyped ==
  ASSUME Typed, NEW c \in Coros, task[c] # NoTask
  PROVE  Reported(task[c]) \in Nat /\ task[c].moved \in Nat /\ task[c].moved <= Reported(task[c])
  BY DEF Typed, TypeOK, Requests, RequestOK, Reported, Writes, Task

LEMMA CallbackTyped ==
  ASSUME Typed, NEW c \in Coros, Callback(c)
  PROVE  Typed'
<1>1. /\ task[c] \in Task /\ task[c] # NoTask /\ RequestOK(c, task[c])
      /\ task[c].done /\ task[c].for \in Coros \cup Streams
  <2>1. task[c].done
    BY DEF Callback, OnNew, OnMoved, OnClosed, OnOpenFailed, ReadFileOpened, ReadFileStat,
           ReadFileRead, ReadFileClosed, WriteFileOpened, WriteFileEnds, TruncateOpened,
           TruncateEnds, Done
  <2>2. QED
    BY <2>1, HasRequest DEF Task
<1>2. /\ Reported(task[c]) \in Nat /\ task[c].moved \in Nat
      /\ task[c].moved <= Reported(task[c])
  BY <1>1, ReportedTyped
<1>3. CASE OnNew(c)
  <2>1. task[c].for \in Streams /\ (task[c].ok => task[c].fd \in Fds)
        /\ task[c].fd \in Fds \cup {NoFd} /\ task[c].ok \in BOOLEAN
    BY <1>1, <1>3 DEF OnNew, Done, RequestOK, StreamOps, Task
  <2>2. stream' \in [Streams -> Stream] /\ OpenHasFd'
    BY <1>3, <2>1 DEF OnNew, Typed, TypeOK, OpenHasFd, Stream
  <2>3. QED
    BY <1>1, <1>3, <2>2, ReturnTyped DEF OnNew, Typed, TypeOK
<1>4. CASE OnMoved(c)
  <2> DEFINE s == task[c].for
             n == Reported(task[c])
             k == task[c].moved
  <2>1. s \in Streams /\ n \in Nat /\ k \in Nat /\ k <= n
    BY <1>1, <1>2, <1>4 DEF OnMoved, Done, RequestOK, StreamOps
  <2> HIDE DEF s, n, k
  <2>2. stream' = [stream EXCEPT ![s] = Counted(stream[s], n, k)] \/ stream' = stream
    BY <1>4 DEF OnMoved, s, n, k
  <2>3. stream' \in [Streams -> Stream] /\ OpenHasFd'
    <3>1. stream[s] \in Stream
      BY <2>1 DEF Typed, TypeOK
    <3>2. PICK v \in Stream : v = Counted(stream[s], n, k) /\ v.open = stream[s].open /\ v.fd = stream[s].fd
      BY <2>1, <3>1, CountedTyped
    <3>3. CASE stream' = [stream EXCEPT ![s] = v]
      BY <2>1, <3>2, <3>3 DEF Typed, TypeOK, OpenHasFd
    <3>4. CASE stream' = stream
      BY <3>4 DEF Typed, TypeOK, OpenHasFd
    <3>5. QED
      BY <2>2, <3>2, <3>3, <3>4
  <2>4. QED
    BY <1>1, <1>4, <2>3, ReturnTyped DEF OnMoved, Typed, TypeOK
<1>5. CASE OnClosed(c)
  <2>1. Gone \in Stream /\ ~Gone.open
    BY DEF Gone, Stream
  <2>2. stream' \in [Streams -> Stream] /\ OpenHasFd'
    BY <1>5, <2>1 DEF OnClosed, Typed, TypeOK, OpenHasFd
  <2>3. QED
    BY <1>1, <1>5, <2>2, ReturnTyped DEF OnClosed, Typed, TypeOK
<1>6. CASE OnOpenFailed(c) \/ ReadFileClosed(c)
  <2>1. left' \subseteq Fds
    BY <1>6 DEF OnOpenFailed, ReadFileClosed, Typed, TypeOK
  <2>2. QED
    BY <1>1, <1>6, <2>1, ReturnUnchanged DEF OnOpenFailed, ReadFileClosed
<1>7. ASSUME ReadFileOpened(c) \/ WriteFileOpened(c) \/ WriteFileEnds(c) \/ TruncateOpened(c)
               \/ TruncateEnds(c)
      PROVE  Typed'
  <2>1. task[c].op \in FileOps /\ task[c].fd \in Fds
    BY <1>1, <1>7 DEF ReadFileOpened, WriteFileOpened, WriteFileEnds, TruncateOpened,
                      TruncateEnds, Done, RequestOK, FileOps
  <2>2. \/ \E step \in Steps \ {"open"}, n \in Nat : Continue(c, step, n)
        \/ ReturnLeaving(c) /\ UNCHANGED <<stream, table, position>>
    <3>1. Lengths \subseteq Nat /\ {"fstat", "move", "ftruncate"} \subseteq Steps \ {"open"}
      BY FilesAssumption DEF Steps
    <3>2. QED
      BY <1>2, <1>7, <3>1 DEF ReadFileOpened, WriteFileOpened, WriteFileEnds, TruncateOpened,
                              TruncateEnds
  <2>3. CASE \E step \in Steps \ {"open"}, n \in Nat : Continue(c, step, n)
    BY <2>1, <2>3, ContinueTyped
  <2>4. CASE ReturnLeaving(c) /\ UNCHANGED <<stream, table, position>>
    <3>1. left' \subseteq Fds
      BY <2>1, <2>4 DEF ReturnLeaving, Typed, TypeOK
    <3>2. QED
      BY <1>1, <2>4, <3>1, ReturnUnchanged DEF ReturnLeaving
  <2>5. QED
    BY <2>2, <2>3, <2>4
<1>8. CASE ReadFileStat(c) \/ ReadFileRead(c)
  <2>1. task[c].op \in FileOps /\ task[c].fd \in Fds
    BY <1>1, <1>8 DEF ReadFileStat, ReadFileRead, Done, RequestOK, FileOps
  <2>2. CASE CloseFile(c)
    BY <2>1, <2>2, CloseFileTyped
  <2>3. CASE \E n \in Lengths : Continue(c, "move", n)
    <3>1. Lengths \subseteq Nat /\ "move" \in Steps \ {"open"}
      BY FilesAssumption DEF Steps
    <3>2. QED
      BY <2>1, <2>3, <3>1, ContinueTyped
  <2>4. QED
    BY <1>8, <2>2, <2>3 DEF ReadFileStat, ReadFileRead
<1>9. QED
  BY <1>3, <1>4, <1>5, <1>6, <1>7, <1>8 DEF Callback

LEMMA InitTyped == Init => Typed
  BY FilesAssumption DEF Init, Typed, TypeOK, Requests, OpenHasFd, Stream, Gone

LEMMA StutterTyped == Typed /\ UNCHANGED vars => Typed'
  BY DEF vars, Typed, TypeOK, Requests, OpenHasFd, RequestOK, Reported, Writes

LEMMA NextTyped == Typed /\ Next => Typed'
  BY CallingTyped, WorkingTyped, CallbackTyped DEF Next

\* The types are invariant, for any streams, coroutines and descriptors, in any use of
\* them: also when a stream is closed under a call, no count or offset goes wrong.
THEOREM TypeCorrect == Spec => []TypeOK
<1>1. Typed /\ [Next]_vars => Typed'
  BY NextTyped, StutterTyped
<1>2. Typed => TypeOK
  BY DEF Typed
<1>3. QED
  BY InitTyped, <1>1, <1>2, PTL DEF Spec
-----------------------------------------------------------------------------
(* One call of a stream at a time: what a step of one coroutine leaves alone *)

LEMMA Kinds ==
  ASSUME Typed, NEW c \in Coros
  PROVE  /\ task[c].op \in FileOps \cup StreamOps \cup {"none"}
         /\ task[c].op \in FileOps => task[c].for = c /\ task[c].for \notin Streams
         /\ task[c].op \in StreamOps => task[c].for \in Streams
         /\ task[c].op = "none" => task[c] = NoTask /\ task[c].for \notin Streams
         /\ task[c].for \in Streams <=> task[c].op \in StreamOps
<1>1. CASE task[c] = NoTask
  BY <1>1, FilesAssumption DEF NoTask, Request, FileOps, StreamOps
<1>2. CASE task[c] # NoTask
  <2>1. task[c] \in Task /\ RequestOK(c, task[c])
    BY <1>2 DEF Typed, TypeOK, Requests
  <2>2. c \notin Streams
    BY FilesAssumption
  <2>3. task[c].op \in Ops
    BY <2>1 DEF Task
  <2>4. QED
    BY <2>1, <2>2, <2>3 DEF RequestOK, FileOps, StreamOps, Ops
<1>3. QED
  BY <1>1, <1>2

\* A step of a call on no stream.
LEMMA FileStep ==
  ASSUME IInv, NEW c \in Coros, NEW q, task' = [task EXCEPT ![c] = q],
         task[c].op \notin StreamOps,
         q.op \notin StreamOps, q.for \notin Streams, stream' = stream
  PROVE  /\ Streaming'
         /\ \A s \in Streams : StreamHolds(s)' <=> StreamHolds(s)
         /\ \A d \in Coros \ {c} : (CallHolds(d)' <=> CallHolds(d)) /\ task'[d] = task[d]
         /\ task'[c] = q
         /\ (\A f \in Fds : table[f] \in Streams /\ f \notin left => position'[f] = position[f])
              => Placed'
<1>1. task'[c] = q /\ \A d \in Coros \ {c} : task'[d] = task[d]
  BY DEF IInv, Typed, TypeOK
<1>2. task[c].for \notin Streams
  BY Kinds DEF IInv
<1>3. Streaming'
  BY <1>1 DEF IInv, Streaming, StreamOK, CallOK, Alone, StreamOps
<1>4. \A s \in Streams : BeingClosed(s)' <=> BeingClosed(s)
  BY <1>1, <1>2 DEF BeingClosed, Done
<1>5. \A s \in Streams : StreamHolds(s)' <=> StreamHolds(s)
  BY <1>4 DEF StreamHolds
<1>6. \A d \in Coros \ {c} : CallHolds(d)' <=> CallHolds(d)
  BY <1>1 DEF CallHolds
<1>7. ASSUME \A f \in Fds : table[f] \in Streams /\ f \notin left => position'[f] = position[f]
      PROVE  Placed'
  <2>1. ASSUME NEW s \in Streams PROVE PlacedStream(s)'
    <3>1. Counting(s)' <=> Counting(s)
      BY <1>1, <1>2 DEF Counting, JustMoved, Done
    <3>2. StreamHolds(s) => position'[stream[s].fd] = position[stream[s].fd]
      BY <1>7 DEF IInv, Tabled, Typed, OpenHasFd, StreamHolds
    <3>3. QED
      BY <1>5, <3>1, <3>2 DEF IInv, Placed, PlacedStream
  <2>2. ASSUME NEW d \in Coros PROVE PlacedCall(d)'
    <3>1. CASE d = c
      BY <1>1, <3>1 DEF PlacedCall, JustMoved, Done, StreamOps
    <3>2. CASE d # c
      <4>1. task'[d] = task[d]
        BY <1>1, <3>2
      <4>2. task[d].op = "new" /\ task[d].ok => position'[task[d].fd] = position[task[d].fd]
        BY <1>7, HasRequest, Kinds DEF IInv, Tabled, CallHolds, RequestOK, StreamOps
      <4>3. JustMoved(d) => position'[task[d].fd] = position[task[d].fd]
        <5> SUFFICES ASSUME JustMoved(d) PROVE position'[task[d].fd] = position[task[d].fd]
          OBVIOUS
        <5>1. task[d].for \in Streams /\ task[d].op = "move"
          BY Kinds DEF IInv, JustMoved, Done, StreamOps
        <5>2. stream[task[d].for].open /\ task[d].fd = stream[task[d].for].fd
          BY <5>1 DEF IInv, Streaming, CallOK
        <5>3. ~BeingClosed(task[d].for)
          BY <5>1 DEF IInv, Streaming, Alone, BeingClosed, Done, StreamOps
        <5>4. QED
          BY <1>7, <5>1, <5>2, <5>3 DEF IInv, Tabled, StreamHolds, Typed, OpenHasFd
      <4>4. QED
        BY <4>1, <4>2, <4>3 DEF IInv, Placed, PlacedCall, JustMoved, Done
    <3>3. QED
      BY <3>1, <3>2
  <2>3. QED
    BY <2>1, <2>2 DEF Placed
<1>8. QED
  BY <1>1, <1>3, <1>5, <1>6, <1>7

\* A step of the only call on stream s: c has request q then.
OnStream(c, s, q) ==
  /\ task' = [task EXCEPT ![c] = q]
  /\ \/ task[c].op \in StreamOps /\ task[c].for = s
     \/ task[c] = NoTask /\ ~Busy(s)
  /\ q = NoTask \/ (q.op \in StreamOps /\ q.for = s)
  /\ \A r \in Streams \ {s} : stream'[r] = stream[r]

LEMMA StreamStep ==
  ASSUME IInv, NEW c \in Coros, NEW s \in Streams, NEW q, OnStream(c, s, q)
  PROVE  /\ task'[c] = q
         /\ \A d \in Coros \ {c} : /\ task'[d] = task[d] /\ task[d].for # s
                                   /\ CallOK(d)' /\ (CallHolds(d)' <=> CallHolds(d))
         /\ Alone'
         /\ \A r \in Streams \ {s} : /\ StreamOK(r)' /\ (StreamHolds(r)' <=> StreamHolds(r))
                                     /\ stream'[r] = stream[r]
         /\ BeingClosed(s) <=> Done(c, "close", "close")
         /\ BeingClosed(s)' <=> q.op = "close" /\ q.step = "close" /\ q.done
         /\ (\A f \in Fds : table[f] \in Streams \ {s} /\ f \notin left => position'[f] = position[f])
              => /\ \A r \in Streams \ {s} : PlacedStream(r)'
                 /\ \A d \in Coros \ {c} : PlacedCall(d)'
<1> USE DEF OnStream
<1>1. task'[c] = q /\ \A d \in Coros \ {c} : task'[d] = task[d]
  BY DEF IInv, Typed, TypeOK
<1>2. \A d \in Coros \ {c} : task[d].for # s
  BY Kinds DEF IInv, Streaming, Alone, Busy
<1>3. NoTask.op = "none" /\ NoTask.for \notin Streams
  BY FilesAssumption DEF NoTask, Request
<1>4. ASSUME NEW d \in Coros \ {c} PROVE CallOK(d)' /\ (CallHolds(d)' <=> CallHolds(d))
  <2>1. task[d].op \in StreamOps => task[d].for \in Streams \ {s}
    BY <1>2, Kinds DEF IInv
  <2>2. QED
    BY <1>1, <2>1 DEF IInv, Streaming, CallOK, CallHolds, StreamOps
<1>5. Alone'
  BY <1>1, <1>2, <1>3 DEF IInv, Streaming, Alone, StreamOps
<1>6. ASSUME NEW r \in Streams \ {s}
      PROVE  StreamOK(r)' /\ (StreamHolds(r)' <=> StreamHolds(r)) /\ (Counting(r)' <=> Counting(r))
  <2>1. task[c].for # r /\ q.for # r
    BY <1>3
  <2>2. StreamOK(r)'
    BY DEF IInv, Streaming, StreamOK
  <2>3. BeingClosed(r)' <=> BeingClosed(r)
    BY <1>1, <2>1 DEF BeingClosed, Done
  <2>4. Counting(r)' <=> Counting(r)
    BY <1>1, <2>1 DEF Counting, JustMoved, Done
  <2>5. QED
    BY <2>2, <2>3, <2>4 DEF StreamHolds
<1>7. BeingClosed(s) <=> Done(c, "close", "close")
  BY <1>2, <1>3 DEF BeingClosed, Done
<1>8. BeingClosed(s)' <=> q.op = "close" /\ q.step = "close" /\ q.done
  BY <1>1, <1>2, <1>3 DEF BeingClosed, Done
<1>9. ASSUME \A f \in Fds : table[f] \in Streams \ {s} /\ f \notin left => position'[f] = position[f]
      PROVE  /\ \A r \in Streams \ {s} : PlacedStream(r)'
             /\ \A d \in Coros \ {c} : PlacedCall(d)'
  <2>1. ASSUME NEW r \in Streams \ {s} PROVE PlacedStream(r)'
    <3>1. StreamHolds(r) => position'[stream[r].fd] = position[stream[r].fd]
      BY <1>9 DEF IInv, Tabled, Typed, OpenHasFd, StreamHolds
    <3>2. QED
      BY <1>6, <3>1 DEF IInv, Placed, PlacedStream
  <2>2. ASSUME NEW d \in Coros \ {c} PROVE PlacedCall(d)'
    <3>1. task'[d] = task[d] /\ task[d].for # s
      BY <1>1, <1>2
    <3>2. task[d].op = "new" /\ task[d].ok => position'[task[d].fd] = position[task[d].fd]
      BY <1>9, <3>1, HasRequest, Kinds DEF IInv, Tabled, CallHolds, RequestOK, StreamOps
    <3>3. task[d].op = "move" => task[d].for \in Streams \ {s}
      BY <3>1, Kinds DEF IInv, StreamOps
    <3>4. JustMoved(d) => position'[task[d].fd] = position[task[d].fd]
      <4> SUFFICES ASSUME JustMoved(d) PROVE position'[task[d].fd] = position[task[d].fd]
        OBVIOUS
      <4>1. task[d].for \in Streams \ {s} /\ task[d].op = "move"
        BY <3>3 DEF JustMoved, Done
      <4>2. stream[task[d].for].open /\ task[d].fd = stream[task[d].for].fd
        BY <4>1 DEF IInv, Streaming, CallOK
      <4>3. ~BeingClosed(task[d].for)
        BY <4>1 DEF IInv, Streaming, Alone, BeingClosed, Done, StreamOps
      <4>4. QED
        BY <1>9, <4>1, <4>2, <4>3 DEF IInv, Tabled, StreamHolds, Typed, OpenHasFd
    <3>5. QED
      BY <3>1, <3>2, <3>3, <3>4 DEF IInv, Placed, PlacedCall, JustMoved, Done, NextPlace
  <2>3. QED
    BY <2>1, <2>2
<1>10. QED
  BY <1>1, <1>2, <1>4, <1>5, <1>6, <1>7, <1>8, <1>9

-----------------------------------------------------------------------------
(* The steps of calls that open a file for themselves *)

\* Nothing opened, closed or left open: the call has the descriptor it had.
LEMMA FileKeepsFd ==
  ASSUME IInv, NEW c \in Coros, NEW q, task' = [task EXCEPT ![c] = q],
         task[c].op \notin StreamOps,
         q.op \notin StreamOps, q.for \notin Streams,
         UNCHANGED <<stream, table, left>>,
         \A f \in Fds : position'[f] # position[f] => CallHolds(c) /\ f = task[c].fd,
         CallHolds(c)' <=> CallHolds(c),
         CallHolds(c) => q.fd = task[c].fd /\ q.for = task[c].for
  PROVE  Streaming' /\ Tabled' /\ Placed'
<1>1. CallHolds(c) => table[task[c].fd] \notin Streams
  BY Kinds DEF IInv, Tabled, CallHolds, StreamOps
<1>2. /\ Streaming' /\ Placed'
      /\ \A s \in Streams : StreamHolds(s)' <=> StreamHolds(s)
      /\ \A d \in Coros \ {c} : (CallHolds(d)' <=> CallHolds(d)) /\ task'[d] = task[d]
      /\ task'[c] = q
  BY <1>1, FileStep
<1>3. Tabled'
  BY <1>2 DEF IInv, Tabled
<1>4. QED
  BY <1>2, <1>3

\* The descriptor of the call is left open.
LEMMA FileLeavesFd ==
  ASSUME IInv, NEW c \in Coros, task[c].op \in FileOps, CallHolds(c),
         task' = [task EXCEPT ![c] = NoTask], left' = left \cup {task[c].fd},
         UNCHANGED <<stream, table, position>>
  PROVE  Streaming' /\ Tabled' /\ Placed'
<1>1. /\ NoTask.op \notin StreamOps /\ NoTask.for \notin Streams /\ task[c].op \notin StreamOps
      /\ NoTask.op \notin FileOps \cup {"new"} /\ NoOwner \notin Coros \cup Streams
  BY FilesAssumption DEF NoTask, Request, StreamOps, FileOps
<1>2. /\ Streaming' /\ Placed'
      /\ \A s \in Streams : StreamHolds(s)' <=> StreamHolds(s)
      /\ \A d \in Coros \ {c} : (CallHolds(d)' <=> CallHolds(d)) /\ task'[d] = task[d]
      /\ task'[c] = NoTask
  BY <1>1, FileStep
<1>3. table[task[c].fd] = c /\ task[c].fd \in Fds
  BY Kinds DEF IInv, Tabled, CallHolds
<1>4. ~CallHolds(c)'
  BY <1>1, <1>2 DEF CallHolds
<1>5. \A s \in Streams : StreamHolds(s) => stream[s].fd # task[c].fd
  BY <1>3, FilesAssumption DEF IInv, Tabled
<1>6. \A d \in Coros \ {c} : CallHolds(d) => task[d].fd # task[c].fd
  <2> SUFFICES ASSUME NEW d \in Coros \ {c}, CallHolds(d), task[d].fd = task[c].fd PROVE FALSE
    OBVIOUS
  <2>1. task[d].for = c
    BY <1>3 DEF IInv, Tabled
  <2>2. task[d].for = d \/ task[d].for \in Streams
    BY Kinds DEF IInv, CallHolds, StreamOps
  <2>3. QED
    BY <2>1, <2>2, FilesAssumption
<1>7. Tabled'
  BY <1>1, <1>2, <1>3, <1>4, <1>5, <1>6 DEF IInv, Tabled
<1>8. QED
  BY <1>2, <1>7

LEMMA FileContinues ==
  ASSUME IInv, NEW c \in Coros, NEW step \in Steps \ {"open"}, NEW n \in Nat,
         task[c].op \in FileOps, CallHolds(c), Continue(c, step, n)
  PROVE  Streaming' /\ Tabled' /\ Placed'
<1> DEFINE q == Request(task[c].op, step, c, task[c].fd, n, NoOffset)
<1>1. task[c].for = c /\ task[c].op \in Ops /\ task[c].fd \in Fds
  BY HasRequest DEF IInv, RequestOK, Task, FileOps, CallHolds
<1>2. /\ q.op = task[c].op /\ q.step = step /\ q.for = c /\ q.fd = task[c].fd /\ ~q.done
  BY <1>1, RequestTyped DEF NoOffset
<1> HIDE DEF q
<1>3. task' = [task EXCEPT ![c] = q] /\ UNCHANGED <<stream, table, position, left>>
  BY DEF Continue, Submit, q
<1>4. task'[c] = q
  BY <1>3 DEF IInv, Typed, TypeOK
<1>5. CallHolds(c)'
  BY <1>1, <1>2, <1>4 DEF CallHolds
<1>6. task[c].op \notin StreamOps /\ c \notin Streams
  BY FilesAssumption DEF StreamOps, FileOps
<1>7. QED
  BY <1>1, <1>2, <1>3, <1>5, <1>6, FileKeepsFd

\* A call that has no open descriptor ends.
LEMMA FileReturns ==
  ASSUME IInv, NEW c \in Coros, task[c].op \in FileOps, ~CallHolds(c),
         Return(c), UNCHANGED <<stream, table, position, left>>
  PROVE  Streaming' /\ Tabled' /\ Placed'
<1>1. /\ NoTask.op \notin StreamOps /\ NoTask.for \notin Streams /\ task[c].op \notin StreamOps
      /\ NoTask.op \notin FileOps \cup {"new"}
  BY FilesAssumption DEF NoTask, Request, StreamOps, FileOps
<1>2. task' = [task EXCEPT ![c] = NoTask] /\ task'[c] = NoTask
  BY DEF Return, IInv, Typed, TypeOK
<1>3. ~CallHolds(c)'
  BY <1>1, <1>2 DEF CallHolds
<1>4. QED
  BY <1>1, <1>2, <1>3, FileKeepsFd

LEMMA FileCloses ==
  ASSUME IInv, NEW c \in Coros, task[c].op \in FileOps, CallHolds(c), CloseFile(c)
  PROVE  Streaming' /\ Tabled' /\ Placed'
<1>1. CASE Continue(c, "close", 0)
  BY <1>1, FileContinues DEF Steps
<1>2. CASE ~Continue(c, "close", 0)
  BY <1>2, FileLeavesFd DEF CloseFile, ReturnLeaving, Return
<1>3. QED
  BY <1>1, <1>2

LEMMA FileCallbackKeeps ==
  ASSUME IInv, NEW c \in Coros,
         \/ OnOpenFailed(c) \/ ReadFileOpened(c) \/ ReadFileStat(c) \/ ReadFileRead(c)
         \/ ReadFileClosed(c) \/ WriteFileOpened(c) \/ WriteFileEnds(c)
         \/ TruncateOpened(c) \/ TruncateEnds(c)
  PROVE  Streaming' /\ Tabled' /\ Placed'
<1>1. task[c].op \in FileOps /\ task[c].done /\ task[c] \in Task /\ RequestOK(c, task[c])
  BY HasRequest DEF IInv, OnOpenFailed, ReadFileOpened, ReadFileStat, ReadFileRead, ReadFileClosed,
                    WriteFileOpened, WriteFileEnds, TruncateOpened, TruncateEnds, Done, FileOps
<1>2. CASE OnOpenFailed(c)
  <2>1. ~CallHolds(c)
    BY <1>1, <1>2 DEF OnOpenFailed, Done, CallHolds, RequestOK
  <2>2. QED
    BY <1>1, <1>2, <2>1, FileReturns DEF OnOpenFailed
<1>3. CASE ReadFileClosed(c)
  <2>1. ~CallHolds(c)
    BY <1>1, <1>3 DEF ReadFileClosed, Done, CallHolds
  <2>2. QED
    BY <1>1, <1>3, <2>1, FileReturns DEF ReadFileClosed
<1>4. CASE ReadFileStat(c) \/ ReadFileRead(c)
  <2>1. CallHolds(c)
    BY <1>1, <1>4 DEF ReadFileStat, ReadFileRead, Done, CallHolds, RequestOK
  <2>2. "move" \in Steps \ {"open"} /\ Lengths \subseteq Nat
    BY FilesAssumption DEF Steps
  <2>3. QED
    BY <1>1, <1>4, <2>1, <2>2, FileCloses, FileContinues DEF ReadFileStat, ReadFileRead
<1>5. ASSUME ReadFileOpened(c) \/ WriteFileOpened(c) \/ WriteFileEnds(c) \/ TruncateOpened(c)
               \/ TruncateEnds(c)
      PROVE  Streaming' /\ Tabled' /\ Placed'
  <2>1. CallHolds(c)
    BY <1>1, <1>5 DEF ReadFileOpened, WriteFileOpened, WriteFileEnds, TruncateOpened, TruncateEnds,
                      Done, CallHolds, RequestOK
  <2>2. \/ \E step \in Steps \ {"open"}, n \in Nat : Continue(c, step, n)
        \/ ReturnLeaving(c) /\ UNCHANGED <<stream, table, position>>
    <3>1. Lengths \subseteq Nat /\ {"fstat", "move", "ftruncate"} \subseteq Steps \ {"open"}
      BY FilesAssumption DEF Steps
    <3>2. QED
      BY <1>5, <3>1 DEF ReadFileOpened, WriteFileOpened, WriteFileEnds, TruncateOpened,
                        TruncateEnds
  <2>3. CASE \E step \in Steps \ {"open"}, n \in Nat : Continue(c, step, n)
    BY <1>1, <2>1, <2>3, FileContinues
  <2>4. CASE ReturnLeaving(c) /\ UNCHANGED <<stream, table, position>>
    BY <1>1, <2>1, <2>4, FileLeavesFd DEF ReturnLeaving, Return
  <2>5. QED
    BY <2>2, <2>3, <2>4
<1>6. QED
  BY <1>2, <1>3, <1>4, <1>5

LEMMA FileCallKeeps ==
  ASSUME IInv, NEW c \in Coros, NEW op \in FileOps, FileCall(c, op)
  PROVE  Streaming' /\ Tabled' /\ Placed'
<1> DEFINE q == Request(op, "open", c, NoFd, 0, NoOffset)
<1>1. /\ q.op = op /\ q.step = "open" /\ q.for = c /\ q.fd = NoFd
  BY DEF Request
<1> HIDE DEF q
<1>2. task' = [task EXCEPT ![c] = q] /\ UNCHANGED <<stream, table, position, left>>
  BY DEF FileCall, Submit, q
<1>3. task'[c] = q /\ task[c] = NoTask
  BY <1>2 DEF FileCall, Idle, IInv, Typed, TypeOK
<1>4. task[c].op = "none" /\ NoFd \notin Fds /\ c \notin Streams
  BY <1>3, NoTaskIsNone, FilesAssumption
<1>5. ~CallHolds(c) /\ ~CallHolds(c)'
  BY <1>1, <1>3, <1>4 DEF CallHolds, FileOps
<1>6. task[c].op \notin StreamOps /\ q.op \notin StreamOps
  BY <1>1, <1>4 DEF StreamOps, FileOps
<1>7. QED
  BY <1>1, <1>2, <1>4, <1>5, <1>6, FileKeepsFd

\* What the pool does for such a call.
LEMMA FileOpenKeeps ==
  ASSUME IInv, NEW c \in Coros, NEW f \in Fds, task[c].op \in FileOps, DoOpen(c, f)
  PROVE  Streaming' /\ Tabled' /\ Placed'
<1> DEFINE q == [task[c] EXCEPT !.done = TRUE, !.ok = TRUE, !.fd = f]
<1>1. /\ task[c] \in Task /\ RequestOK(c, task[c]) /\ task[c].step = "open" /\ ~task[c].done
      /\ task[c].for = c /\ table[f] = NoOwner
  BY HasRequest DEF IInv, DoOpen, Queued, RequestOK
<1>2. q.op = task[c].op /\ q.step = "open" /\ q.for = c /\ q.fd = f
  BY <1>1 DEF Task
<1>3. task' = [task EXCEPT ![c] = q]
  BY DEF DoOpen, IInv, Typed, TypeOK
<1> HIDE DEF q
<1>4. ~CallHolds(c) /\ NoOwner \notin Coros \cup Streams /\ c \notin Streams
  BY <1>1, FilesAssumption DEF CallHolds, RequestOK
<1>5. table' = [table EXCEPT ![f] = c] /\ left' = left /\ stream' = stream
      /\ \A g \in Fds \ {f} : position'[g] = position[g]
  BY <1>1 DEF DoOpen, IInv, Typed, TypeOK
<1>6. /\ Streaming' /\ Placed'
      /\ \A s \in Streams : StreamHolds(s)' <=> StreamHolds(s)
      /\ \A d \in Coros \ {c} : (CallHolds(d)' <=> CallHolds(d)) /\ task'[d] = task[d]
      /\ task'[c] = q
  <2>1. task[c].op \notin StreamOps
    BY DEF FileOps, StreamOps
  <2>2. \A g \in Fds : table[g] \in Streams /\ g \notin left => position'[g] = position[g]
    BY <1>1, <1>4, <1>5
  <2>3. q.op \notin StreamOps /\ q.for \notin Streams
    BY <1>2, <1>4, <2>1
  <2>4. QED
    BY <1>3, <1>5, <2>1, <2>2, <2>3, FileStep
<1>7. CallHolds(c)'
  BY <1>2, <1>6 DEF CallHolds
<1>8. f \notin left
  BY <1>1 DEF IInv, Tabled
<1>9. \A g \in Fds : table'[g] = IF g = f THEN c ELSE table[g]
  BY <1>5 DEF IInv, Typed, TypeOK
<1>10. \A s \in Streams : StreamHolds(s) => stream[s].fd # f /\ stream[s].fd \in Fds
  BY <1>1, <1>4 DEF IInv, Tabled, Typed, OpenHasFd, StreamHolds
<1>11. \A d \in Coros \ {c} : CallHolds(d) => task[d].fd # f /\ task[d].fd \in Fds
  <2> SUFFICES ASSUME NEW d \in Coros \ {c}, CallHolds(d) PROVE task[d].fd # f /\ task[d].fd \in Fds
    OBVIOUS
  <2>1. table[task[d].fd] = task[d].for /\ task[d].for \in Coros \cup Streams
    BY Kinds DEF IInv, Tabled, CallHolds, StreamOps
  <2>2. QED
    BY <1>1, <1>4, <2>1 DEF CallHolds
<1>12. left \subseteq Fds
  BY DEF IInv, Typed, TypeOK
<1>13. Tabled'
  BY <1>2, <1>4, <1>5, <1>6, <1>7, <1>8, <1>9, <1>10, <1>11, <1>12 DEF IInv, Tabled
<1>14. QED
  BY <1>6, <1>13

\* A descriptor that is known is open for the one who knows it, alone.
LEMMA KnownAlone ==
  ASSUME IInv
  PROVE  /\ \A s \in Streams : StreamHolds(s) => stream[s].fd \in Fds
         /\ \A r, s \in Streams : StreamHolds(r) /\ StreamHolds(s) /\ stream[r].fd = stream[s].fd => r = s
         /\ \A s \in Streams, c \in Coros : StreamHolds(s) /\ CallHolds(c) => stream[s].fd # task[c].fd
         /\ \A c, d \in Coros : CallHolds(c) /\ CallHolds(d) /\ task[c].fd = task[d].fd => c = d
<1>1. \A s \in Streams : StreamHolds(s) => stream[s].fd \in Fds
  BY DEF IInv, Typed, OpenHasFd, StreamHolds
<1>2. \A r, s \in Streams : StreamHolds(r) /\ StreamHolds(s) /\ stream[r].fd = stream[s].fd => r = s
  BY DEF IInv, Tabled
<1>3. ASSUME NEW s \in Streams, NEW c \in Coros, StreamHolds(s), CallHolds(c), stream[s].fd = task[c].fd
      PROVE  FALSE
  <2>1. task[c].for = s
    BY <1>3 DEF IInv, Tabled
  <2>2. task[c].op = "new"
    BY <1>3, <2>1, Kinds DEF IInv, CallHolds
  <2>3. QED
    BY <1>3, <2>1, <2>2 DEF IInv, Streaming, CallOK, StreamHolds
<1>4. ASSUME NEW c \in Coros, NEW d \in Coros, CallHolds(c), CallHolds(d), task[c].fd = task[d].fd
      PROVE  c = d
  <2>1. task[c].for = task[d].for
    BY <1>4 DEF IInv, Tabled
  <2>2. CASE task[c].for \in Streams
    BY <2>1, <2>2, Kinds DEF IInv, Streaming, Alone
  <2>3. CASE task[c].for \notin Streams
    BY <1>4, <2>1, <2>3, Kinds DEF IInv, CallHolds, StreamOps
  <2>4. QED
    BY <2>2, <2>3
<1>5. QED
  BY <1>1, <1>2, <1>3, <1>4

LEMMA FileCloseKeeps ==
  ASSUME IInv, NEW c \in Coros, task[c].op \in FileOps, DoClose(c)
  PROVE  Streaming' /\ Tabled' /\ Placed'
<1>1. PICK ok \in BOOLEAN : task' = [task EXCEPT ![c].done = TRUE, ![c].ok = ok]
  BY DEF DoClose
<1> DEFINE q == [task[c] EXCEPT !.done = TRUE, !.ok = ok]
<1>2. /\ task[c] \in Task /\ RequestOK(c, task[c]) /\ task[c].step = "close" /\ ~task[c].done
      /\ task[c].for = c /\ task[c].fd \in Fds /\ c \notin Streams
  BY HasRequest, FilesAssumption DEF IInv, DoClose, Queued, RequestOK
<1>3. q.op = task[c].op /\ q.step = "close" /\ q.for = c /\ q.done
  BY <1>2 DEF Task
<1>4. task' = [task EXCEPT ![c] = q]
  BY <1>1 DEF IInv, Typed, TypeOK
<1> HIDE DEF q
<1>5. table' = [table EXCEPT ![task[c].fd] = NoOwner] /\ UNCHANGED <<stream, position, left>>
  BY DEF DoClose
<1>6. /\ Streaming' /\ Placed'
      /\ \A s \in Streams : StreamHolds(s)' <=> StreamHolds(s)
      /\ \A d \in Coros \ {c} : (CallHolds(d)' <=> CallHolds(d)) /\ task'[d] = task[d]
      /\ task'[c] = q
  <2>1. task[c].op \notin StreamOps
    BY DEF FileOps, StreamOps
  <2>2. q.op \notin StreamOps /\ q.for \notin Streams
    BY <1>2, <1>3, <2>1
  <2>3. /\ stream' = stream
        /\ \A f \in Fds : table[f] \in Streams /\ f \notin left => position'[f] = position[f]
    BY <1>5
  <2>4. QED
    BY <1>4, <2>1, <2>2, <2>3, FileStep
<1>7. CallHolds(c) /\ ~CallHolds(c)'
  BY <1>2, <1>3, <1>6 DEF CallHolds
<1>8. \A g \in Fds : table'[g] = IF g = task[c].fd THEN NoOwner ELSE table[g]
  BY <1>5 DEF IInv, Typed, TypeOK
<1>9. task[c].fd \notin left /\ left \subseteq Fds
  BY <1>7 DEF IInv, Tabled, Typed, TypeOK
<1>10. \A s \in Streams : StreamHolds(s) => stream[s].fd # task[c].fd /\ stream[s].fd \in Fds
  BY <1>7, KnownAlone
<1>11. \A d \in Coros \ {c} : CallHolds(d) => task[d].fd # task[c].fd /\ task[d].fd \in Fds
  BY <1>7, KnownAlone DEF CallHolds
<1>12. Tabled'
  BY <1>2, <1>5, <1>6, <1>7, <1>8, <1>9, <1>10, <1>11 DEF IInv, Tabled
<1>13. QED
  BY <1>6, <1>12

LEMMA FileWorkKeeps ==
  ASSUME IInv, NEW c \in Coros, task[c].op \in FileOps, DoMove(c) \/ DoOther(c) \/ DoFail(c)
  PROVE  Streaming' /\ Tabled' /\ Placed'
<1>1. /\ task[c] \in Task /\ RequestOK(c, task[c]) /\ task[c].step # "close" /\ ~task[c].done
      /\ task[c].for = c /\ c \notin Streams
  BY HasRequest, FilesAssumption DEF IInv, DoMove, DoOther, DoFail, Queued, RequestOK
<1>2. UNCHANGED <<stream, table, left>>
  BY DEF DoMove, DoOther, DoFail, Fail
<1>3. PICK q : /\ task' = [task EXCEPT ![c] = q]
               /\ q.op = task[c].op /\ q.step = task[c].step /\ q.for = c /\ q.fd = task[c].fd
  <2>1. CASE DoMove(c)
    BY <1>1, <2>1 DEF DoMove, Task
  <2>2. CASE DoOther(c)
    <3> DEFINE q == [task[c] EXCEPT !.done = TRUE, !.ok = TRUE]
    <3>1. task' = [task EXCEPT ![c] = q]
      BY <2>2 DEF DoOther, IInv, Typed, TypeOK
    <3>2. q.op = task[c].op /\ q.step = task[c].step /\ q.for = c /\ q.fd = task[c].fd
      BY <1>1 DEF Task
    <3>3. QED
      BY <3>1, <3>2
  <2>3. CASE DoFail(c)
    <3> DEFINE q == [task[c] EXCEPT !.done = TRUE]
    <3>1. task' = [task EXCEPT ![c] = q]
      BY <2>3 DEF DoFail, Fail, IInv, Typed, TypeOK
    <3>2. q.op = task[c].op /\ q.step = task[c].step /\ q.for = c /\ q.fd = task[c].fd
      BY <1>1 DEF Task
    <3>3. QED
      BY <3>1, <3>2
  <2>4. QED
    BY <2>1, <2>2, <2>3
<1>4. task'[c] = q
  BY <1>3 DEF IInv, Typed, TypeOK
<1>5. CallHolds(c)' <=> CallHolds(c)
  BY <1>1, <1>3, <1>4 DEF CallHolds
<1>6. \A f \in Fds : position'[f] # position[f] => CallHolds(c) /\ f = task[c].fd
  <2>1. CASE DoMove(c)
    <3>1. CallHolds(c) /\ \A f \in Fds \ {task[c].fd} : position'[f] = position[f]
      BY <1>1, <2>1 DEF DoMove, Queued, RequestOK, CallHolds, IInv, Typed, TypeOK
    <3>2. QED
      BY <3>1
  <2>2. CASE DoOther(c) \/ DoFail(c)
    BY <2>2 DEF DoOther, DoFail, Fail
  <2>3. QED
    BY <2>1, <2>2
<1>7. task[c].op \notin StreamOps
  BY DEF FileOps, StreamOps
<1>8. QED
  BY <1>1, <1>2, <1>3, <1>5, <1>6, <1>7, FileKeepsFd

-----------------------------------------------------------------------------
(* The steps of calls on streams *)

\* What a stream and the call on it have open between them.
Between(c, s, f) ==
  \/ StreamHolds(s) /\ stream[s].fd = f
  \/ CallHolds(c) /\ task[c].fd = f

\* A step that opens, closes and leaves nothing, and keeps what is said of s and c.
LEMMA StreamKeepsFd ==
  ASSUME IInv, NEW c \in Coros, NEW s \in Streams, NEW q, OnStream(c, s, q),
         UNCHANGED <<table, left>>,
         \A f \in Fds : Between(c, s, f)' <=> Between(c, s, f),
         stream'[s].open => stream'[s].fd \in Fds,
         \A f \in Fds : position'[f] # position[f] => Between(c, s, f),
         StreamOK(s)', CallOK(c)', PlacedStream(s)', PlacedCall(c)'
  PROVE  Streaming' /\ Tabled' /\ Placed'
<1>1. /\ task'[c] = q
      /\ \A d \in Coros \ {c} : /\ task'[d] = task[d] /\ task[d].for # s
                                /\ CallOK(d)' /\ (CallHolds(d)' <=> CallHolds(d))
      /\ Alone'
      /\ \A r \in Streams \ {s} : /\ StreamOK(r)' /\ (StreamHolds(r)' <=> StreamHolds(r))
                                  /\ stream'[r] = stream[r]
      /\ BeingClosed(s) <=> Done(c, "close", "close")
      /\ BeingClosed(s)' <=> q.op = "close" /\ q.step = "close" /\ q.done
      /\ (\A f \in Fds : table[f] \in Streams \ {s} /\ f \notin left => position'[f] = position[f])
              => /\ \A r \in Streams \ {s} : PlacedStream(r)'
                 /\ \A d \in Coros \ {c} : PlacedCall(d)'
  BY StreamStep
<1>2. \A f \in Fds : Between(c, s, f) => table[f] = s /\ f \notin left
  <2>1. CallHolds(c) => task[c].for = s
    BY NoTaskIsNone DEF CallHolds, FileOps, OnStream
  <2>2. QED
    BY <2>1 DEF IInv, Tabled, Between
<1>3. Streaming'
  BY <1>1 DEF Streaming
<1>4. Placed'
  BY <1>1, <1>2 DEF Placed
<1>5. CallHolds(c)' => task'[c].for = s /\ task'[c].fd \in Fds
  BY <1>1, NoTaskIsNone DEF CallHolds, FileOps, OnStream
<1>6. StreamHolds(s)' => stream'[s].fd \in Fds
  BY DEF StreamHolds
<1>7. Tabled'
  <2>1. ASSUME NEW r \in Streams, StreamHolds(r)'
        PROVE  table'[stream'[r].fd] = r /\ stream'[r].fd \notin left'
    <3>1. CASE r = s
      BY <1>2, <1>6, <2>1, <3>1 DEF Between
    <3>2. CASE r # s
      BY <1>1, <2>1, <3>2 DEF IInv, Tabled
    <3>3. QED
      BY <3>1, <3>2
  <2>2. ASSUME NEW d \in Coros, CallHolds(d)'
        PROVE  table'[task'[d].fd] = task'[d].for /\ task'[d].fd \notin left'
    <3>1. CASE d = c
      BY <1>2, <1>5, <2>2, <3>1 DEF Between
    <3>2. CASE d # c
      BY <1>1, <2>2, <3>2 DEF IInv, Tabled
    <3>3. QED
      BY <3>1, <3>2
  <2>3. ASSUME NEW f \in Fds, table'[f] # NoOwner, f \notin left'
        PROVE  \/ \E r \in Streams : StreamHolds(r)' /\ stream'[r].fd = f
               \/ \E d \in Coros : CallHolds(d)' /\ task'[d].fd = f
    <3>1. CASE Between(c, s, f)
      BY <3>1 DEF Between
    <3>2. CASE ~Between(c, s, f)
      <4>1. \/ \E r \in Streams \ {s} : StreamHolds(r) /\ stream[r].fd = f
            \/ \E d \in Coros \ {c} : CallHolds(d) /\ task[d].fd = f
        BY <2>3, <3>2 DEF IInv, Tabled, Between
      <4>2. QED
        BY <1>1, <4>1
    <3>3. QED
      BY <3>1, <3>2
  <2>4. QED
    BY <2>1, <2>2, <2>3 DEF IInv, Tabled
<1>8. QED
  BY <1>3, <1>4, <1>7

LEMMA NoTaskHolds ==
  /\ NoTask.op \notin StreamOps /\ NoTask.op \notin FileOps /\ NoTask.op \notin {"new", "move", "close"}
  /\ NoTask.op \notin FileOps \cup {"new"}
  BY DEF NoTask, Request, StreamOps, FileOps

\* A stream that is not used by another coroutine is used by nobody.
LEMMA UsableFree ==
  ASSUME IInv, OneAtATime, NEW s \in Streams, Usable(s)
  PROVE  /\ ~Busy(s) /\ ~BeingClosed(s) /\ StreamHolds(s) /\ stream[s].fd \in Fds /\ Counting(s)
         /\ table[stream[s].fd] = s /\ stream[s].fd \notin left
<1>1. ~Busy(s) /\ stream[s].open
  BY DEF Usable, OneAtATime
<1>2. ~BeingClosed(s) /\ Counting(s)
  BY <1>1 DEF Busy, BeingClosed, Counting
<1>3. QED
  BY <1>1, <1>2 DEF StreamHolds, IInv, Tabled, Typed, OpenHasFd

LEMMA NewKeeps ==
  ASSUME IInv, NEW c \in Coros, NEW s \in Streams, New(c, s)
  PROVE  Streaming' /\ Tabled' /\ Placed'
<1>1. PICK p \in Starts \cup {NoOffset} :
        stream' = [stream EXCEPT ![s] = [Gone EXCEPT !.offset = p,
                                                     !.start = IF p = NoOffset THEN 0 ELSE p]]
  BY DEF New
<1> DEFINE q == Request("new", "open", s, NoFd, 0, NoOffset)
<1>2. q.op = "new" /\ q.step = "open" /\ q.for = s /\ q.fd = NoFd /\ ~q.done /\ ~q.ok
  BY DEF Request
<1>3. task' = [task EXCEPT ![c] = q] /\ UNCHANGED <<table, position, left>> /\ task[c] = NoTask
      /\ ~Busy(s) /\ ~stream[s].open
  BY DEF New, Submit, Idle
<1> HIDE DEF q
<1>4. /\ ~stream'[s].open /\ stream'[s].offset = p /\ stream'[s].bytes = 0 /\ stream'[s].lost = 0
      /\ stream'[s].start = IF p = NoOffset THEN 0 ELSE p
      /\ \A r \in Streams \ {s} : stream'[r] = stream[r]
  BY <1>1 DEF Gone, IInv, Typed, TypeOK
<1>5. OnStream(c, s, q)
  BY <1>2, <1>3, <1>4 DEF OnStream, StreamOps
<1>6. task'[c] = q
  BY <1>3 DEF IInv, Typed, TypeOK
<1>7. \A f \in Fds : Between(c, s, f)' <=> Between(c, s, f)
  BY <1>2, <1>3, <1>4, <1>6, NoTaskHolds, FilesAssumption DEF Between, StreamHolds, CallHolds
<1>8. StreamOK(s)' /\ CallOK(c)'
  <2>1. Starts \subseteq Nat
    BY FilesAssumption
  <2>2. StreamOK(s)'
    <3>1. p \in Nat \/ p = NoOffset
      BY <2>1
    <3>2. QED
      BY <1>4, <3>1 DEF StreamOK, NoOffset
  <2>3. CallOK(c)'
    BY <1>2, <1>4, <1>6 DEF CallOK
  <2>4. QED
    BY <2>2, <2>3
<1>9. PlacedStream(s)' /\ PlacedCall(c)'
  BY <1>2, <1>4, <1>6 DEF PlacedStream, PlacedCall, StreamHolds, JustMoved, Done
<1>10. QED
  BY <1>3, <1>4, <1>5, <1>7, <1>8, <1>9, StreamKeepsFd

LEMMA MoveKeeps ==
  ASSUME IInv, OneAtATime, NEW c \in Coros, NEW s \in Streams, NEW n \in Lengths, Move(c, s, n)
  PROVE  Streaming' /\ Tabled' /\ Placed'
<1> DEFINE q == Request("move", "move", s, stream[s].fd, n, AsInt(stream[s].offset))
<1>1. /\ q.op = "move" /\ q.step = "move" /\ q.for = s /\ q.fd = stream[s].fd /\ ~q.done /\ ~q.ok
      /\ q.pos = AsInt(stream[s].offset)
  BY DEF Request
<1>2. task' = [task EXCEPT ![c] = q] /\ UNCHANGED <<stream, table, position, left>>
      /\ task[c] = NoTask /\ Usable(s)
  BY DEF Move, Submit, Idle
<1> HIDE DEF q
<1>3. /\ ~Busy(s) /\ ~BeingClosed(s) /\ StreamHolds(s) /\ stream[s].fd \in Fds /\ Counting(s)
      /\ stream[s].open
  BY <1>2, UsableFree DEF Usable
<1>4. OnStream(c, s, q)
  BY <1>1, <1>2, <1>3 DEF OnStream, StreamOps
<1>5. task'[c] = q /\ ~BeingClosed(s)'
  BY <1>1, <1>4, StreamStep
<1>6. \A f \in Fds : Between(c, s, f)' <=> Between(c, s, f)
  BY <1>1, <1>2, <1>3, <1>5, NoTaskHolds DEF Between, StreamHolds, CallHolds, FileOps
<1>7. StreamOK(s)' /\ CallOK(c)'
  BY <1>1, <1>2, <1>3, <1>5 DEF StreamOK, CallOK, IInv, Streaming
<1>8. PlacedStream(s)'
  BY <1>2, <1>3 DEF PlacedStream, IInv, Placed
<1>9. PlacedCall(c)'
  BY <1>1, <1>2, <1>5 DEF PlacedCall, JustMoved, Done, AsInt
<1>10. QED
  BY <1>2, <1>3, <1>4, <1>6, <1>7, <1>8, <1>9, StreamKeepsFd

LEMMA CloseKeeps ==
  ASSUME IInv, OneAtATime, NEW c \in Coros, NEW s \in Streams, Close(c, s)
  PROVE  Streaming' /\ Tabled' /\ Placed'
<1> DEFINE q == Request("close", "close", s, stream[s].fd, 0, NoOffset)
<1>1. q.op = "close" /\ q.step = "close" /\ q.for = s /\ q.fd = stream[s].fd /\ ~q.done /\ ~q.ok
  BY DEF Request
<1>2. task' = [task EXCEPT ![c] = q] /\ UNCHANGED <<stream, table, position, left>>
      /\ task[c] = NoTask /\ Usable(s)
  BY DEF Close, Submit, Idle
<1> HIDE DEF q
<1>3. /\ ~Busy(s) /\ ~BeingClosed(s) /\ StreamHolds(s) /\ stream[s].fd \in Fds /\ Counting(s)
      /\ stream[s].open
  BY <1>2, UsableFree DEF Usable
<1>4. OnStream(c, s, q)
  BY <1>1, <1>2, <1>3 DEF OnStream, StreamOps
<1>5. task'[c] = q /\ ~BeingClosed(s)'
  BY <1>1, <1>4, StreamStep
<1>6. \A f \in Fds : Between(c, s, f)' <=> Between(c, s, f)
  BY <1>1, <1>2, <1>3, <1>5, NoTaskHolds DEF Between, StreamHolds, CallHolds, FileOps
<1>7. StreamOK(s)' /\ CallOK(c)'
  BY <1>1, <1>2, <1>3, <1>5 DEF StreamOK, CallOK, IInv, Streaming
<1>8. PlacedStream(s)'
  BY <1>2, <1>3 DEF PlacedStream, IInv, Placed
<1>9. PlacedCall(c)'
  BY <1>1, <1>5 DEF PlacedCall, JustMoved, Done
<1>10. QED
  BY <1>2, <1>3, <1>4, <1>6, <1>7, <1>8, <1>9, StreamKeepsFd

LEMMA OnNewKeeps ==
  ASSUME IInv, NEW c \in Coros, OnNew(c)
  PROVE  Streaming' /\ Tabled' /\ Placed'
<1>0. PICK s \in Streams : task[c].for = s
  BY HasRequest DEF OnNew, Done, IInv, RequestOK, StreamOps
<1>1. /\ task[c].op = "new" /\ task[c].step = "open" /\ task[c].done
      /\ (task[c].fd \in Fds <=> task[c].ok) /\ ~stream[s].open
      /\ stream[s].bytes = 0 /\ stream[s].lost = 0 /\ task[c].ok \in BOOLEAN
  BY <1>0, HasRequest DEF OnNew, Done, IInv, RequestOK, StreamOps, Streaming, CallOK, Task
<1>2. /\ task' = [task EXCEPT ![c] = NoTask] /\ UNCHANGED <<table, position, left>>
      /\ stream' = [stream EXCEPT ![s].open = task[c].ok, ![s].fd = task[c].fd]
  BY <1>0 DEF OnNew, Return
<1>3. stream[s] \in Stream
  BY <1>1 DEF IInv, Typed, TypeOK
<1>4. /\ stream'[s].open = task[c].ok /\ stream'[s].fd = task[c].fd
      /\ stream'[s].offset = stream[s].offset /\ stream'[s].start = stream[s].start
      /\ stream'[s].bytes = 0 /\ stream'[s].lost = 0
      /\ \A r \in Streams \ {s} : stream'[r] = stream[r]
  BY <1>1, <1>2, <1>3 DEF Stream, IInv, Typed, TypeOK
<1>5. OnStream(c, s, NoTask)
  <2>1. task[c].op \in StreamOps /\ task[c].for = s
    BY <1>0, <1>1 DEF StreamOps
  <2>2. QED
    BY <1>2, <1>4, <2>1 DEF OnStream
<1>6. task'[c] = NoTask /\ ~BeingClosed(s)'
  BY <1>5, StreamStep, NoTaskHolds
<1>7. \A f \in Fds : Between(c, s, f)' <=> Between(c, s, f)
  BY <1>1, <1>4, <1>6, NoTaskHolds DEF Between, StreamHolds, CallHolds
<1>8. StreamOK(s)' /\ CallOK(c)'
  BY <1>1, <1>4, <1>6, NoTaskHolds DEF StreamOK, CallOK, IInv, Streaming
<1>9. PlacedStream(s)'
  <2>1. task[c].ok => position[task[c].fd] = 0
    BY <1>1 DEF IInv, Placed, PlacedCall
  <2>2. stream'[s].open => position'[stream'[s].fd] = stream'[s].bytes - stream'[s].lost
    BY <1>2, <1>4, <2>1
  <2>3. QED
    BY <2>2 DEF PlacedStream, StreamHolds
<1>10. PlacedCall(c)'
  BY <1>6, NoTaskHolds DEF PlacedCall, JustMoved, Done
<1>11. QED
  BY <1>1, <1>2, <1>4, <1>5, <1>7, <1>8, <1>9, <1>10, StreamKeepsFd

\* The bytes of a call are counted: the next place is behind what was moved, and the
\* offset where the program was told that it is.
LEMMA CountedPlace ==
  ASSUME NEW v \in Stream, NEW n \in Nat, NEW k \in Nat, k <= n, v.lost <= v.bytes,
         v.offset # NoOffset => v.offset = v.start + v.bytes
  PROVE  LET w == Counted(v, n, k)
         IN /\ w.open = v.open /\ w.fd = v.fd /\ w.start = v.start
            /\ w.lost <= w.bytes
            /\ w.offset # NoOffset => w.offset = w.start + w.bytes
            /\ w.offset = NoOffset => v.offset = NoOffset /\ w.bytes - w.lost = (v.bytes - v.lost) + k
<1>1. PICK w : /\ w = Counted(v, n, k) /\ w.open = v.open /\ w.fd = v.fd /\ w.start = v.start
               /\ w.bytes = v.bytes + n /\ w.lost = v.lost + (n - k)
               /\ w.offset = IF v.offset = NoOffset THEN NoOffset ELSE v.offset + n
  BY CountedTyped
<1>2. v.bytes \in Nat /\ v.lost \in Nat /\ v.start \in Nat /\ v.offset \in Nat \cup {NoOffset}
  BY DEF Stream
<1>3. QED
  BY <1>1, <1>2 DEF NoOffset

LEMMA OnMovedKeeps ==
  ASSUME IInv, NEW c \in Coros, OnMoved(c)
  PROVE  Streaming' /\ Tabled' /\ Placed'
<1>0. PICK s \in Streams, n \in Nat, k \in Nat :
        task[c].for = s /\ Reported(task[c]) = n /\ task[c].moved = k /\ k <= n
  BY HasRequest, Kinds, ReportedTyped DEF OnMoved, Done, IInv, StreamOps
<1>1. /\ task[c].op = "move" /\ task[c].step = "move" /\ task[c].done
      /\ stream[s].open /\ task[c].fd = stream[s].fd
      /\ stream[s].fd \in Fds /\ stream[s] \in Stream
      /\ task[c].ok \in BOOLEAN
  <2>1. /\ task[c].op = "move" /\ task[c].step = "move" /\ task[c].done /\ task[c] # NoTask
        /\ task[c] \in Task
    BY HasRequest DEF OnMoved, Done, IInv
  <2>2. stream[s].open /\ task[c].fd = stream[s].fd
    BY <1>0, <2>1 DEF IInv, Streaming, CallOK
  <2>3. QED
    BY <2>1, <2>2 DEF IInv, Typed, TypeOK, OpenHasFd, Task
<1>2. /\ task' = [task EXCEPT ![c] = NoTask] /\ UNCHANGED <<table, position, left>>
      /\ \/ task[c].ok /\ stream' = [stream EXCEPT ![s] = Counted(stream[s], n, k)]
         \/ (~task[c].ok \/ n = 0) /\ stream' = stream
  BY <1>0, <1>1 DEF OnMoved, Return
<1>3. JustMoved(c) <=> task[c].ok
  BY <1>1 DEF JustMoved, Done
<1>4. task[c].ok /\ stream[s].offset = NoOffset =>
        position[stream[s].fd] = (stream[s].bytes - stream[s].lost) + k
  BY <1>0, <1>1, <1>3 DEF IInv, Placed, PlacedCall, NextPlace
<1>5. /\ stream[s].bytes \in Nat /\ stream[s].lost \in Nat /\ StreamOK(s)
      /\ \A r \in Streams \ {s} : stream'[r] = stream[r]
  BY <1>1, <1>2 DEF Stream, IInv, Streaming, Typed, TypeOK
<1>6. OnStream(c, s, NoTask)
  <2>1. task[c].op \in StreamOps /\ task[c].for = s
    BY <1>0, <1>1 DEF StreamOps
  <2>2. QED
    BY <1>2, <1>5, <2>1 DEF OnStream
<1>7. task'[c] = NoTask /\ ~BeingClosed(s)' /\ ~BeingClosed(s)
  BY <1>1, <1>6, StreamStep, NoTaskHolds DEF Done
<1>8. /\ StreamOK(s)' /\ stream'[s].open /\ stream'[s].fd = stream[s].fd
      /\ task[c].ok /\ stream'[s].offset = NoOffset =>
           position[stream[s].fd] = stream'[s].bytes - stream'[s].lost
      /\ ~task[c].ok => stream'[s] = stream[s]
  <2>1. CASE task[c].ok /\ stream' = [stream EXCEPT ![s] = Counted(stream[s], n, k)]
    <3>1. stream'[s] = Counted(stream[s], n, k)
      BY <1>1, <2>1 DEF IInv, Typed, TypeOK
    <3> DEFINE w == Counted(stream[s], n, k)
    <3>2. /\ w.open = stream[s].open /\ w.fd = stream[s].fd /\ w.start = stream[s].start
          /\ w.lost <= w.bytes
          /\ w.offset # NoOffset => w.offset = w.start + w.bytes
          /\ w.offset = NoOffset => /\ stream[s].offset = NoOffset
                                   /\ w.bytes - w.lost = (stream[s].bytes - stream[s].lost) + k
      <4>1. stream[s].lost <= stream[s].bytes /\ stream[s] \in Stream
        BY <1>1, <1>5 DEF StreamOK
      <4>2. stream[s].offset # NoOffset => stream[s].offset = stream[s].start + stream[s].bytes
        BY <1>5 DEF StreamOK
      <4>3. QED
        BY <1>0, <4>1, <4>2, CountedPlace
    <3> HIDE DEF w
    <3>3. stream'[s] = w
      BY <3>1 DEF w
    <3>4. w.offset = NoOffset => w.start = 0
      BY <1>5, <3>2 DEF StreamOK
    <3>5. StreamOK(s)'
      BY <3>2, <3>3, <3>4 DEF StreamOK
    <3>6. task[c].ok /\ stream'[s].offset = NoOffset =>
             position[stream[s].fd] = stream'[s].bytes - stream'[s].lost
      BY <1>4, <3>2, <3>3
    <3>7. QED
      BY <1>1, <2>1, <3>2, <3>3, <3>5, <3>6
  <2>2. CASE (~task[c].ok \/ n = 0) /\ stream' = stream
    BY <1>0, <1>1, <1>4, <1>5, <2>2 DEF StreamOK
  <2>3. QED
    BY <1>2, <2>1, <2>2
<1>9. \A f \in Fds : Between(c, s, f)' <=> Between(c, s, f)
  BY <1>1, <1>7, <1>8, NoTaskHolds DEF Between, StreamHolds, CallHolds, FileOps
<1>10. CallOK(c)' /\ PlacedCall(c)'
  BY <1>7, NoTaskHolds DEF CallOK, PlacedCall, JustMoved, Done
<1>11. PlacedStream(s)'
  <2>1. CASE task[c].ok
    BY <1>2, <1>8, <2>1 DEF PlacedStream
  <2>2. CASE ~task[c].ok
    <3>1. Counting(s) /\ StreamHolds(s)
      BY <1>1, <1>3, <1>6, <1>7, <2>2, StreamStep DEF Counting, StreamHolds
    <3>2. QED
      BY <1>1, <1>2, <1>8, <2>2, <3>1 DEF PlacedStream, IInv, Placed
  <2>3. QED
    BY <2>1, <2>2
<1>12. QED
  BY <1>1, <1>2, <1>6, <1>8, <1>9, <1>10, <1>11, StreamKeepsFd

LEMMA OnClosedKeeps ==
  ASSUME IInv, NEW c \in Coros, OnClosed(c)
  PROVE  Streaming' /\ Tabled' /\ Placed'
<1>0. PICK s \in Streams : task[c].for = s
  BY Kinds DEF OnClosed, Done, IInv, StreamOps
<1>1. task[c].op = "close" /\ task[c].step = "close" /\ task[c].done
  BY DEF OnClosed, Done
<1>2. /\ task' = [task EXCEPT ![c] = NoTask] /\ UNCHANGED <<table, position, left>>
      /\ stream' = [stream EXCEPT ![s] = Gone]
  BY <1>0 DEF OnClosed, Return
<1>3. stream'[s] = Gone /\ \A r \in Streams \ {s} : stream'[r] = stream[r]
  BY <1>1, <1>2 DEF IInv, Typed, TypeOK
<1>4. OnStream(c, s, NoTask)
  <2>1. task[c].op \in StreamOps /\ task[c].for = s
    BY <1>0, <1>1 DEF StreamOps
  <2>2. QED
    BY <1>2, <1>3, <2>1 DEF OnStream
<1>5. task'[c] = NoTask /\ BeingClosed(s)
  BY <1>1, <1>4, StreamStep DEF Done
<1>6. \A f \in Fds : Between(c, s, f)' <=> Between(c, s, f)
  BY <1>1, <1>3, <1>5, NoTaskHolds DEF Between, StreamHolds, CallHolds, FileOps, Gone
<1>7. StreamOK(s)' /\ CallOK(c)' /\ PlacedStream(s)' /\ PlacedCall(c)'
  BY <1>3, <1>5, NoTaskHolds DEF StreamOK, CallOK, PlacedStream, PlacedCall, StreamHolds, Gone, JustMoved, Done
<1>8. QED
  BY <1>1, <1>2, <1>3, <1>4, <1>6, <1>7, StreamKeepsFd DEF Gone

\* A close without memory: the descriptor is left open.
LEMMA CloseFailsKeeps ==
  ASSUME IInv, OneAtATime, NEW c \in Coros, NEW s \in Streams, CloseFails(c, s)
  PROVE  Streaming' /\ Tabled' /\ Placed'
<1>1. /\ task' = task /\ UNCHANGED <<table, position>> /\ task[c] = NoTask /\ Usable(s)
      /\ stream' = [stream EXCEPT ![s] = Gone] /\ left' = left \cup {stream[s].fd}
  BY DEF CloseFails, Idle
<1>2. /\ ~Busy(s) /\ StreamHolds(s) /\ stream[s].fd \in Fds
      /\ table[stream[s].fd] = s
  BY <1>1, UsableFree
<1>3. stream'[s] = Gone /\ \A r \in Streams \ {s} : stream'[r] = stream[r]
  BY <1>1 DEF IInv, Typed, TypeOK
<1>4. OnStream(c, s, NoTask)
  <2>1. task' = [task EXCEPT ![c] = NoTask]
    BY <1>1 DEF IInv, Typed, TypeOK
  <2>2. QED
    BY <1>1, <1>2, <1>3, <2>1 DEF OnStream
<1>5. /\ \A d \in Coros \ {c} : /\ task'[d] = task[d] /\ task[d].for # s
                                /\ CallOK(d)' /\ (CallHolds(d)' <=> CallHolds(d))
      /\ Alone'
      /\ \A r \in Streams \ {s} : /\ StreamOK(r)' /\ (StreamHolds(r)' <=> StreamHolds(r))
                                  /\ stream'[r] = stream[r]
      /\ (\A r \in Streams \ {s} : PlacedStream(r)') /\ (\A d \in Coros \ {c} : PlacedCall(d)')
  BY <1>1, <1>4, StreamStep
<1>6. /\ StreamOK(s)' /\ CallOK(c)' /\ PlacedStream(s)' /\ PlacedCall(c)'
      /\ ~StreamHolds(s)' /\ ~CallHolds(c)' /\ ~CallHolds(c)
  BY <1>1, <1>3, NoTaskHolds DEF StreamOK, CallOK, PlacedStream, PlacedCall, StreamHolds, CallHolds,
                                 Gone, JustMoved, Done
<1>7. \A r \in Streams \ {s} : StreamHolds(r) => stream[r].fd # stream[s].fd
  BY <1>2, KnownAlone
<1>8. \A d \in Coros : CallHolds(d) => task[d].fd # stream[s].fd
  BY <1>2, KnownAlone
<1>9. table[stream[s].fd] # NoOwner
  BY <1>2, FilesAssumption
<1>10. Tabled'
  BY <1>1, <1>2, <1>3, <1>5, <1>6, <1>7, <1>8, <1>9 DEF IInv, Tabled
<1>11. QED
  BY <1>5, <1>6, <1>10 DEF Streaming, Placed

LEMMA StreamOpenKeeps ==
  ASSUME IInv, NEW c \in Coros, NEW f \in Fds, task[c].op \in StreamOps, DoOpen(c, f)
  PROVE  Streaming' /\ Tabled' /\ Placed'
<1> DEFINE q == [task[c] EXCEPT !.done = TRUE, !.ok = TRUE, !.fd = f]
<1>1. PICK s \in Streams : task[c].for = s
  BY Kinds DEF IInv
<1>2. /\ task[c] \in Task /\ RequestOK(c, task[c]) /\ task[c].step = "open" /\ ~task[c].done
      /\ task[c].op = "new" /\ table[f] = NoOwner /\ ~stream[s].open
  BY <1>1, HasRequest DEF IInv, DoOpen, Queued, RequestOK, StreamOps, Streaming, CallOK
<1>3. q.op = "new" /\ q.step = "open" /\ q.for = s /\ q.fd = f /\ q.done /\ q.ok
  BY <1>1, <1>2 DEF Task
<1>4. task' = [task EXCEPT ![c] = q]
  BY DEF DoOpen, IInv, Typed, TypeOK
<1> HIDE DEF q
<1>5. /\ table' = [table EXCEPT ![f] = s] /\ position' = [position EXCEPT ![f] = 0]
      /\ left' = left /\ stream' = stream
  BY <1>1 DEF DoOpen
<1>6. NoOwner \notin Coros \cup Streams /\ f \notin left /\ left \subseteq Fds
  BY <1>2, FilesAssumption DEF IInv, Tabled, Typed, TypeOK
<1>7. /\ \A g \in Fds : table'[g] = IF g = f THEN s ELSE table[g]
      /\ \A g \in Fds : position'[g] = IF g = f THEN 0 ELSE position[g]
  BY <1>5 DEF IInv, Typed, TypeOK
<1>8. OnStream(c, s, q)
  BY <1>1, <1>3, <1>4, <1>5 DEF OnStream, StreamOps
<1>9. /\ task'[c] = q
      /\ \A d \in Coros \ {c} : /\ task'[d] = task[d] /\ task[d].for # s
                                /\ CallOK(d)' /\ (CallHolds(d)' <=> CallHolds(d))
      /\ Alone'
      /\ \A r \in Streams \ {s} : /\ StreamOK(r)' /\ (StreamHolds(r)' <=> StreamHolds(r))
                                  /\ stream'[r] = stream[r]
      /\ (\A r \in Streams \ {s} : PlacedStream(r)') /\ (\A d \in Coros \ {c} : PlacedCall(d)')
  <2>1. \A g \in Fds : table[g] \in Streams \ {s} /\ g \notin left => position'[g] = position[g]
    BY <1>2, <1>6, <1>7
  <2>2. QED
    BY <1>8, <2>1, StreamStep
<1>10. /\ StreamOK(s)' /\ CallOK(c)' /\ PlacedStream(s)' /\ PlacedCall(c)'
       /\ ~StreamHolds(s)' /\ CallHolds(c)' /\ ~CallHolds(c)
  <2>1. StreamOK(s)' /\ CallOK(c)'
    BY <1>1, <1>2, <1>3, <1>5, <1>9 DEF IInv, Streaming, StreamOK, CallOK
  <2>2. PlacedStream(s)' /\ PlacedCall(c)' /\ ~StreamHolds(s)'
    BY <1>2, <1>3, <1>5, <1>7, <1>9 DEF PlacedStream, PlacedCall, StreamHolds, JustMoved, Done
  <2>3. CallHolds(c)' /\ ~CallHolds(c)
    BY <1>2, <1>3, <1>9 DEF CallHolds, RequestOK
  <2>4. QED
    BY <2>1, <2>2, <2>3
<1>11. \A r \in Streams : StreamHolds(r) => stream[r].fd # f /\ stream[r].fd \in Fds
  BY <1>2, <1>6 DEF IInv, Tabled, Typed, OpenHasFd, StreamHolds
<1>12. \A d \in Coros : CallHolds(d) => task[d].fd # f /\ task[d].fd \in Fds
  <2> SUFFICES ASSUME NEW d \in Coros, CallHolds(d) PROVE task[d].fd # f /\ task[d].fd \in Fds
    OBVIOUS
  <2>1. table[task[d].fd] = task[d].for /\ task[d].for \in Coros \cup Streams
    BY Kinds DEF IInv, Tabled, CallHolds, StreamOps
  <2>2. QED
    BY <1>2, <1>6, <2>1 DEF CallHolds
<1>13. Tabled'
  <2>1. ASSUME NEW r \in Streams, StreamHolds(r)'
        PROVE  table'[stream'[r].fd] = r /\ stream'[r].fd \notin left'
    <3>1. r # s /\ StreamHolds(r)
      BY <1>9, <1>10, <2>1
    <3>2. QED
      BY <1>5, <1>7, <1>11, <3>1 DEF IInv, Tabled
  <2>2. ASSUME NEW d \in Coros, CallHolds(d)'
        PROVE  table'[task'[d].fd] = task'[d].for /\ task'[d].fd \notin left'
    <3>1. CASE d = c
      BY <1>3, <1>5, <1>6, <1>7, <1>9, <3>1
    <3>2. CASE d # c
      BY <1>5, <1>7, <1>9, <1>12, <2>2, <3>2 DEF IInv, Tabled
    <3>3. QED
      BY <3>1, <3>2
  <2>3. ASSUME NEW g \in Fds, table'[g] # NoOwner, g \notin left'
        PROVE  \/ \E r \in Streams : StreamHolds(r)' /\ stream'[r].fd = g
               \/ \E d \in Coros : CallHolds(d)' /\ task'[d].fd = g
    <3>1. CASE g = f
      BY <1>3, <1>9, <1>10, <3>1
    <3>2. CASE g # f
      <4>1. \/ \E r \in Streams : StreamHolds(r) /\ stream[r].fd = g
            \/ \E d \in Coros : CallHolds(d) /\ task[d].fd = g
        BY <1>5, <1>7, <2>3, <3>2 DEF IInv, Tabled
      <4>2. \A r \in Streams : StreamHolds(r) => r # s
        BY <1>2 DEF StreamHolds
      <4>3. QED
        BY <1>9, <1>10, <4>1, <4>2
    <3>3. QED
      BY <3>1, <3>2
  <2>4. \A g \in left' : table'[g] # NoOwner
    BY <1>5, <1>6, <1>7 DEF IInv, Tabled
  <2>5. QED
    BY <2>1, <2>2, <2>3, <2>4 DEF Tabled
<1>14. QED
  BY <1>5, <1>9, <1>10, <1>13 DEF Streaming, Placed

LEMMA StreamFailKeeps ==
  ASSUME IInv, NEW c \in Coros, task[c].op \in StreamOps, DoFail(c)
  PROVE  Streaming' /\ Tabled' /\ Placed'
<1> DEFINE q == [task[c] EXCEPT !.done = TRUE]
<1>1. PICK s \in Streams : task[c].for = s
  BY Kinds DEF IInv
<1>2. /\ task[c] \in Task /\ RequestOK(c, task[c]) /\ ~task[c].done /\ ~task[c].ok
      /\ task[c].op \in {"new", "move"}
  BY HasRequest DEF IInv, DoFail, Queued, RequestOK, StreamOps
<1>3. q.op = task[c].op /\ q.step = task[c].step /\ q.for = s /\ q.fd = task[c].fd /\ q.done /\ ~q.ok
  BY <1>1, <1>2 DEF Task
<1>4. task' = [task EXCEPT ![c] = q] /\ UNCHANGED <<stream, table, position, left>>
  BY DEF DoFail, Fail, IInv, Typed, TypeOK
<1> HIDE DEF q
<1>5. OnStream(c, s, q)
  BY <1>1, <1>2, <1>3, <1>4 DEF OnStream, StreamOps
<1>6. task'[c] = q /\ ~BeingClosed(s)' /\ ~BeingClosed(s)
  BY <1>2, <1>3, <1>5, StreamStep DEF Done
<1>7. \A f \in Fds : Between(c, s, f)' <=> Between(c, s, f)
  BY <1>2, <1>3, <1>4, <1>6 DEF Between, StreamHolds, CallHolds, RequestOK
<1>8. StreamOK(s)' /\ CallOK(c)'
  BY <1>1, <1>3, <1>4, <1>6 DEF IInv, Streaming, StreamOK, CallOK
<1>9. PlacedStream(s)'
  <2>1. Counting(s)
    BY <1>2, <1>5, StreamStep DEF Counting, JustMoved, Done
  <2>2. QED
    BY <1>4, <1>6, <2>1 DEF IInv, Placed, PlacedStream, StreamHolds
<1>10. PlacedCall(c)'
  BY <1>3, <1>6 DEF PlacedCall, JustMoved, Done
<1>11. QED
  BY <1>4, <1>5, <1>7, <1>8, <1>9, <1>10, StreamKeepsFd DEF IInv, Typed, OpenHasFd

LEMMA StreamMoveKeeps ==
  ASSUME IInv, NEW c \in Coros, task[c].op \in StreamOps, DoMove(c)
  PROVE  Streaming' /\ Tabled' /\ Placed'
<1>1. PICK s \in Streams : task[c].for = s
  BY Kinds DEF IInv
<1>2. /\ task[c] \in Task /\ RequestOK(c, task[c]) /\ ~task[c].done /\ ~task[c].ok
      /\ task[c].op = "move" /\ task[c].step = "move"
  BY HasRequest DEF IInv, DoMove, Queued, RequestOK, StreamOps
<1>3. /\ stream[s].open /\ task[c].fd = stream[s].fd /\ stream[s].fd \in Fds
      /\ stream[s] \in Stream /\ StreamOK(s)
  BY <1>1, <1>2 DEF IInv, Streaming, CallOK, Typed, OpenHasFd, TypeOK
<1> DEFINE f == task[c].fd
           a == IF task[c].pos < 0 THEN position[f] ELSE task[c].pos
<1>4. PICK k \in Movable(task[c]) :
        /\ task' = [task EXCEPT ![c] = [task[c] EXCEPT !.done = TRUE, !.ok = TRUE,
                                                       !.at = a, !.moved = k]]
        /\ position' = IF task[c].pos < 0 THEN [position EXCEPT ![f] = @ + k] ELSE position
  BY DEF DoMove
<1> DEFINE q == [task[c] EXCEPT !.done = TRUE, !.ok = TRUE, !.at = a, !.moved = k]
<1>5. /\ q.op = "move" /\ q.step = "move" /\ q.for = s /\ q.fd = stream[s].fd /\ q.done /\ q.ok
      /\ q.at = a /\ q.moved = k
  BY <1>1, <1>2, <1>3 DEF Task
<1>6. task' = [task EXCEPT ![c] = q] /\ UNCHANGED <<stream, table, left>>
  BY <1>4 DEF DoMove
<1>7. k \in Nat /\ task[c].pos \in Int /\ position[stream[s].fd] \in Nat
  BY <1>2, <1>3 DEF Movable, Writes, Task, IInv, Typed, TypeOK
<1>8. /\ task[c].pos < 0 => a = position[stream[s].fd]
      /\ task[c].pos >= 0 => a = task[c].pos
      /\ task[c].pos < 0 => position'[stream[s].fd] = position[stream[s].fd] + k
      /\ \A g \in Fds : position'[g] # position[g] => g = stream[s].fd
  BY <1>3, <1>4, <1>7 DEF IInv, Typed, TypeOK
<1> HIDE DEF q, f, a
<1>9. OnStream(c, s, q)
  BY <1>1, <1>2, <1>5, <1>6 DEF OnStream, StreamOps
<1>10. /\ task'[c] = q /\ ~BeingClosed(s)' /\ ~BeingClosed(s)
       /\ \A d \in Coros \ {c} : task[d].for # s
  BY <1>2, <1>5, <1>9, StreamStep DEF Done
<1>11. StreamHolds(s) /\ StreamHolds(s)' /\ ~CallHolds(c) /\ ~CallHolds(c)'
  BY <1>2, <1>3, <1>5, <1>6, <1>10 DEF StreamHolds, CallHolds, FileOps
<1>12. (\A g \in Fds : Between(c, s, g)' <=> Between(c, s, g)) /\ Between(c, s, stream[s].fd)
  BY <1>6, <1>11 DEF Between
<1>13. StreamOK(s)' /\ CallOK(c)'
  BY <1>3, <1>5, <1>6, <1>10 DEF StreamOK, CallOK
<1>14. JustMoved(c)' /\ ~Counting(s)'
  BY <1>5, <1>10 DEF JustMoved, Done, Counting
<1>15. PlacedStream(s)'
  BY <1>14 DEF PlacedStream
<1>16. task[c].pos = AsInt(stream[s].offset)
  BY <1>1, <1>2 DEF IInv, Placed, PlacedCall
<1>17. stream[s].offset \in Nat \cup {NoOffset} /\ stream[s].start \in Nat
       /\ stream[s].bytes \in Nat /\ stream[s].lost \in Nat
  BY <1>3 DEF Stream
<1>18. stream[s].offset = NoOffset =>
         /\ position[stream[s].fd] = NextPlace(stream[s])
         /\ task[c].pos < 0
  <2> SUFFICES ASSUME stream[s].offset = NoOffset
               PROVE  position[stream[s].fd] = NextPlace(stream[s]) /\ task[c].pos < 0
    OBVIOUS
  <2>1. Counting(s)
    BY <1>1, <1>2, <1>10 DEF Counting, JustMoved, Done
  <2>2. position[stream[s].fd] = NextPlace(stream[s])
    BY <1>11, <2>1 DEF IInv, Placed, PlacedStream, NextPlace
  <2>3. NoOffset < IntBound
    BY FilesAssumption DEF NoOffset
  <2>4. task[c].pos = NoOffset
    BY <1>16, <2>3, SmallOffset
  <2>5. QED
    BY <2>2, <2>4 DEF NoOffset
<1>19. stream[s].offset # NoOffset /\ stream[s].offset < IntBound =>
         /\ task[c].pos >= 0 /\ task[c].pos = NextPlace(stream[s])
  BY <1>3, <1>16, <1>17, SmallOffset DEF NextPlace, StreamOK, NoOffset
<1>20. PlacedCall(c)'
  <2>1. stream[s].offset < IntBound => q.at = NextPlace(stream[s])
    BY <1>5, <1>8, <1>18, <1>19
  <2>2. stream[s].offset = NoOffset => position'[q.fd] = NextPlace(stream[s]) + q.moved
    BY <1>5, <1>8, <1>18
  <2>3. QED
    BY <1>5, <1>6, <1>10, <2>1, <2>2 DEF PlacedCall, NextPlace
<1>21. QED
  BY <1>3, <1>6, <1>8, <1>9, <1>12, <1>13, <1>15, <1>20, StreamKeepsFd

LEMMA StreamCloseKeeps ==
  ASSUME IInv, NEW c \in Coros, task[c].op \in StreamOps, DoClose(c)
  PROVE  Streaming' /\ Tabled' /\ Placed'
<1>1. PICK s \in Streams : task[c].for = s
  BY Kinds DEF IInv
<1>2. PICK ok \in BOOLEAN : task' = [task EXCEPT ![c].done = TRUE, ![c].ok = ok]
  BY DEF DoClose
<1> DEFINE q == [task[c] EXCEPT !.done = TRUE, !.ok = ok]
<1>3. /\ task[c] \in Task /\ task[c].step = "close" /\ ~task[c].done /\ task[c].op = "close"
      /\ stream[s].open /\ task[c].fd = stream[s].fd /\ stream[s].fd \in Fds
  BY <1>1, HasRequest DEF IInv, DoClose, Queued, RequestOK, StreamOps, Streaming, CallOK,
                          Typed, OpenHasFd
<1>4. q.op = "close" /\ q.step = "close" /\ q.for = s /\ q.fd = stream[s].fd /\ q.done
  BY <1>1, <1>3 DEF Task
<1>5. task' = [task EXCEPT ![c] = q]
  BY <1>2 DEF IInv, Typed, TypeOK
<1> HIDE DEF q
<1>6. table' = [table EXCEPT ![stream[s].fd] = NoOwner] /\ UNCHANGED <<stream, position, left>>
  BY <1>3 DEF DoClose
<1>7. OnStream(c, s, q)
  BY <1>1, <1>3, <1>4, <1>5, <1>6 DEF OnStream, StreamOps
<1>8. /\ task'[c] = q
      /\ \A d \in Coros \ {c} : /\ task'[d] = task[d] /\ task[d].for # s
                                /\ CallOK(d)' /\ (CallHolds(d)' <=> CallHolds(d))
      /\ Alone'
      /\ \A r \in Streams \ {s} : /\ StreamOK(r)' /\ (StreamHolds(r)' <=> StreamHolds(r))
                                  /\ stream'[r] = stream[r]
      /\ BeingClosed(s)' /\ ~BeingClosed(s)
      /\ (\A r \in Streams \ {s} : PlacedStream(r)') /\ (\A d \in Coros \ {c} : PlacedCall(d)')
  BY <1>3, <1>4, <1>6, <1>7, StreamStep DEF Done
<1>9. /\ StreamOK(s)' /\ CallOK(c)' /\ PlacedStream(s)' /\ PlacedCall(c)'
      /\ ~StreamHolds(s)' /\ StreamHolds(s) /\ ~CallHolds(c)' /\ ~CallHolds(c)
  <2>1. StreamOK(s)' /\ CallOK(c)'
    BY <1>1, <1>3, <1>4, <1>6, <1>8 DEF IInv, Streaming, StreamOK, CallOK
  <2>2. /\ PlacedStream(s)' /\ PlacedCall(c)' /\ ~StreamHolds(s)' /\ StreamHolds(s)
        /\ ~CallHolds(c)' /\ ~CallHolds(c)
    BY <1>3, <1>4, <1>6, <1>8 DEF PlacedStream, PlacedCall, StreamHolds, CallHolds, JustMoved, Done,
                                  FileOps
  <2>3. QED
    BY <2>1, <2>2
<1>10. \A g \in Fds : table'[g] = IF g = stream[s].fd THEN NoOwner ELSE table[g]
  BY <1>6 DEF IInv, Typed, TypeOK
<1>11. stream[s].fd \notin left /\ left \subseteq Fds
  BY <1>9 DEF IInv, Tabled, Typed, TypeOK
<1>12. \A r \in Streams \ {s} : StreamHolds(r) => stream[r].fd # stream[s].fd /\ stream[r].fd \in Fds
  BY <1>9, KnownAlone
<1>13. \A d \in Coros : CallHolds(d) => task[d].fd # stream[s].fd /\ task[d].fd \in Fds
  BY <1>9, KnownAlone DEF CallHolds
<1>14. Tabled'
  BY <1>6, <1>8, <1>9, <1>10, <1>11, <1>12, <1>13 DEF IInv, Tabled
<1>15. QED
  BY <1>6, <1>8, <1>9, <1>14 DEF Streaming, Placed

-----------------------------------------------------------------------------
(* The invariant, and what it says *)

LEMMA WorkKeeps ==
  ASSUME IInv, NEW c \in Coros, Working(c)
  PROVE  Streaming' /\ Tabled' /\ Placed'
<1>1. task[c].op \in FileOps \/ task[c].op \in StreamOps
  <2>1. task[c] # NoTask
    BY HasRequest DEF IInv, Working, DoOpen, DoMove, DoOther, DoClose, DoFail, Queued
  <2>2. QED
    BY <2>1, Kinds DEF IInv
<1>2. CASE task[c].op \in FileOps
  BY <1>2, FileOpenKeeps, FileWorkKeeps, FileCloseKeeps DEF Working
<1>3. CASE task[c].op \in StreamOps
  <2>1. ~DoOther(c)
    <3>1. task[c].step \notin {"fstat", "ftruncate"}
      BY <1>3, HasRequest DEF IInv, RequestOK, StreamOps
    <3>2. QED
      BY <3>1 DEF DoOther, Queued
  <2>2. QED
    BY <1>3, <2>1, StreamOpenKeeps, StreamMoveKeeps, StreamFailKeeps, StreamCloseKeeps DEF Working
<1>4. QED
  BY <1>1, <1>2, <1>3

LEMMA NextKeeps ==
  ASSUME IInv, OneAtATime, Next
  PROVE  IInv'
<1>1. Typed'
  BY NextTyped DEF IInv
<1>2. PICK c \in Coros : Calling(c) \/ Working(c) \/ Callback(c)
  BY DEF Next
<1>3. CASE Calling(c)
  <2>1. Streaming' /\ Tabled' /\ Placed'
    BY <1>3, NewKeeps, CloseKeeps, CloseFailsKeeps, MoveKeeps, FileCallKeeps DEF Calling, FileOps
  <2>2. QED
    BY <1>1, <2>1 DEF IInv
<1>4. CASE Working(c)
  BY <1>1, <1>4, WorkKeeps DEF IInv
<1>5. CASE Callback(c)
  <2>1. Streaming' /\ Tabled' /\ Placed'
    BY <1>5, OnNewKeeps, OnMovedKeeps, OnClosedKeeps, FileCallbackKeeps DEF Callback
  <2>2. QED
    BY <1>1, <2>1 DEF IInv
<1>6. QED
  BY <1>2, <1>3, <1>4, <1>5

LEMMA InitKeeps == Init => IInv
<1> SUFFICES ASSUME Init PROVE IInv
  OBVIOUS
<1>1. \A c \in Coros : task[c] = NoTask
  BY DEF Init
<1>2. \A s \in Streams : ~stream[s].open /\ stream[s].offset = NoOffset /\ stream[s].bytes = 0 /\ stream[s].lost = 0
                       /\ stream[s].start = 0
  BY DEF Init, Gone
<1>3. Streaming
  BY <1>1, <1>2, NoTaskHolds DEF Streaming, StreamOK, CallOK, Alone
<1>4. Tabled
  BY <1>1, <1>2, NoTaskHolds DEF Tabled, StreamHolds, CallHolds, Init
<1>5. Placed
  BY <1>1, <1>2, NoTaskHolds DEF Placed, PlacedStream, PlacedCall, StreamHolds, JustMoved, Done
<1>6. QED
  BY <1>3, <1>4, <1>5, InitTyped DEF IInv

LEMMA StutterKeeps ==
  ASSUME IInv, UNCHANGED vars
  PROVE  IInv'
<1>1. Typed'
  BY StutterTyped DEF IInv
<1>2. /\ stream' = stream /\ task' = task /\ table' = table /\ position' = position /\ left' = left
  BY DEF vars
<1>3. \A s \in Streams : (StreamHolds(s)' <=> StreamHolds(s)) /\ (Counting(s)' <=> Counting(s))
  BY <1>2 DEF StreamHolds, BeingClosed, Counting, JustMoved, Done
<1>4. \A c \in Coros : (CallHolds(c)' <=> CallHolds(c)) /\ (PlacedCall(c)' <=> PlacedCall(c))
  BY <1>2 DEF CallHolds, PlacedCall, JustMoved, Done, NextPlace
<1>5. Streaming'
  BY <1>2 DEF IInv, Streaming, StreamOK, CallOK, Alone
<1>6. Tabled'
  BY <1>2, <1>3, <1>4 DEF IInv, Tabled
<1>7. Placed'
  BY <1>2, <1>3, <1>4 DEF IInv, Placed, PlacedStream
<1>8. QED
  BY <1>1, <1>5, <1>6, <1>7 DEF IInv

LEMMA RequestsFindTheirFile == IInv => OwnFile
<1> SUFFICES ASSUME IInv, NEW c \in Coros,
                    task[c].step \in {"fstat", "move", "ftruncate", "close"}, ~task[c].done
             PROVE  table[task[c].fd] = task[c].for
  BY DEF OwnFile
<1>1. task[c] # NoTask /\ RequestOK(c, task[c])
  BY HasRequest DEF IInv
<1>2. CASE task[c].op \in FileOps
  BY <1>1, <1>2 DEF IInv, Tabled, CallHolds, RequestOK
<1>3. CASE task[c].op \in StreamOps
  <2>1. PICK s \in Streams : task[c].for = s
    BY <1>3, Kinds DEF IInv
  <2>2. task[c].op \in {"move", "close"} /\ stream[s].open /\ task[c].fd = stream[s].fd
    BY <1>1, <1>3, <2>1 DEF RequestOK, StreamOps, IInv, Streaming, CallOK
  <2>3. ~BeingClosed(s)
    BY <1>3, <2>1, Kinds DEF IInv, Streaming, Alone, BeingClosed, Done, StreamOps
  <2>4. QED
    BY <2>1, <2>2, <2>3 DEF IInv, Tabled, StreamHolds
<1>4. QED
  BY <1>1, <1>2, <1>3, Kinds DEF IInv

\* A step of c that gives it request q, or none, keeps all writes whole.
LEMMA WholeStep ==
  ASSUME IInv, Whole, NEW c \in Coros, NEW q,
         task' = [task EXCEPT ![c] = q],
         \A s \in Streams : stream'[s].lost = 0,
         \A d \in Coros \ {c} : task[d].op = "move" =>
            stream'[task[d].for].offset = stream[task[d].for].offset,
         q.op = "move" => /\ stream'[q.for].offset < IntBound
                          /\ q.ok => q.moved = Reported(q)
  PROVE  Whole'
<1>1. task'[c] = q /\ \A d \in Coros \ {c} : task'[d] = task[d]
  BY DEF IInv, Typed, TypeOK
<1>2. ASSUME NEW d \in Coros, task'[d].op = "move"
      PROVE  /\ stream'[task'[d].for].offset < IntBound
             /\ task'[d].ok => task'[d].moved = Reported(task'[d])
  BY <1>1, <1>2 DEF Whole
<1>3. \A d \in Coros : Reported(task[d])' = Reported(task'[d])
  BY DEF Reported, Writes
<1>4. QED
  BY <1>2, <1>3 DEF Whole

LEMMA CallsKeepWhole ==
  ASSUME IInv, Whole, Plain, NEW c \in Coros, Calling(c)
  PROVE  Whole'
<1>1. \A s \in Streams : (~stream[s].open /\ ~Busy(s)) \/ Usable(s) =>
         \A d \in Coros : task[d].for # s
  BY UsableFree DEF Busy, Plain
<1>2. ASSUME NEW s \in Streams, New(c, s) PROVE Whole'
  <2> DEFINE q == Request("new", "open", s, NoFd, 0, NoOffset)
  <2>1. q.op = "new" /\ task' = [task EXCEPT ![c] = q]
    BY <1>2 DEF New, Submit, Request
  <2>2. /\ stream'[s].lost = 0
        /\ \A r \in Streams \ {s} : stream'[r] = stream[r]
    BY <1>2 DEF New, Gone, IInv, Typed, TypeOK
  <2>3. \A d \in Coros : task[d].op = "move" => task[d].for \in Streams \ {s}
    BY <1>1, <1>2, Kinds DEF New, IInv, StreamOps
  <2> HIDE DEF q
  <2>4. QED
    BY <2>1, <2>2, <2>3, WholeStep DEF Whole
<1>3. ASSUME NEW s \in Streams, Close(c, s) PROVE Whole'
  <2> DEFINE q == Request("close", "close", s, stream[s].fd, 0, NoOffset)
  <2>1. q.op = "close" /\ task' = [task EXCEPT ![c] = q] /\ stream' = stream
    BY <1>3 DEF Close, Submit, Request
  <2> HIDE DEF q
  <2>2. QED
    BY <2>1, WholeStep DEF Whole
<1>4. ASSUME NEW s \in Streams, CloseFails(c, s) PROVE Whole'
  <2>1. /\ stream'[s].lost = 0
        /\ \A r \in Streams \ {s} : stream'[r] = stream[r]
        /\ task' = task
    BY <1>4 DEF CloseFails, Gone, IInv, Typed, TypeOK
  <2>2. \A d \in Coros : task[d].op = "move" => task[d].for \in Streams \ {s}
    BY <1>1, <1>4, Kinds DEF CloseFails, IInv, StreamOps
  <2>3. \A d \in Coros : Reported(task[d])' = Reported(task[d])
    BY <2>1 DEF Reported, Writes
  <2>4. QED
    BY <2>1, <2>2, <2>3 DEF Whole
<1>5. ASSUME NEW s \in Streams, NEW n \in Lengths, Move(c, s, n) PROVE Whole'
  <2> DEFINE q == Request("move", "move", s, stream[s].fd, n, AsInt(stream[s].offset))
  <2>1. /\ q.for = s /\ ~q.ok /\ task' = [task EXCEPT ![c] = q] /\ stream' = stream
        /\ stream[s].offset < IntBound
    BY <1>5 DEF Move, Submit, Request, Plain
  <2> HIDE DEF q
  <2>2. QED
    BY <2>1, WholeStep DEF Whole
<1>6. ASSUME NEW op \in FileOps, FileCall(c, op) PROVE Whole'
  <2> DEFINE q == Request(op, "open", c, NoFd, 0, NoOffset)
  <2>1. q.op # "move" /\ task' = [task EXCEPT ![c] = q] /\ stream' = stream
    BY <1>6 DEF FileCall, Submit, Request, FileOps
  <2> HIDE DEF q
  <2>2. QED
    BY <2>1, WholeStep DEF Whole
<1>7. QED
  BY <1>2, <1>3, <1>4, <1>5, <1>6 DEF Calling, FileOps

LEMMA WorkKeepsWhole ==
  ASSUME IInv, Whole, Plain, NEW c \in Coros, Working(c)
  PROVE  Whole'
<1>1. task[c] \in Task
  BY HasRequest DEF IInv, Working, DoOpen, DoMove, DoOther, DoClose, DoFail, Queued
<1>2. stream' = stream
  BY DEF Working, DoOpen, DoMove, DoOther, DoClose, DoFail, Fail
<1>3. ASSUME DoMove(c) PROVE Whole'
  <2>1. PICK k \in Movable(task[c]), a \in Int :
          task' = [task EXCEPT ![c] = [task[c] EXCEPT !.done = TRUE, !.ok = TRUE,
                                                      !.at = a, !.moved = k]]
    <3>1. position[task[c].fd] \in Int /\ task[c].pos \in Int
      BY <1>1, <1>3, HasRequest DEF DoMove, Queued, RequestOK, IInv, Typed, TypeOK, Task
    <3>2. QED
      BY <1>3, <3>1 DEF DoMove
  <2> DEFINE q == [task[c] EXCEPT !.done = TRUE, !.ok = TRUE, !.at = a, !.moved = k]
  <2>2. q.op = task[c].op /\ q.for = task[c].for /\ q.len = task[c].len /\ q.moved = k
    BY <1>1 DEF Task
  <2>3. k = Reported(q)
    <3>1. Writes(q) <=> Writes(task[c])
      BY <2>2 DEF Writes
    <3>2. Writes(task[c]) => k = task[c].len
      BY <2>1 DEF Movable, Plain
    <3>3. QED
      BY <2>2, <3>1, <3>2 DEF Reported
  <2> HIDE DEF q
  <2>4. task' = [task EXCEPT ![c] = q]
    BY <2>1 DEF q
  <2>5. QED
    BY <1>2, <2>2, <2>3, <2>4, WholeStep DEF Whole
<1>4. ASSUME ~DoMove(c) PROVE Whole'
  <2>1. task[c].op # "move" \/ ~task'[c].ok
    <3>1. task[c].op = "move" => task[c].step = "move" /\ ~task[c].done /\ ~task[c].ok
      BY <1>4, HasRequest DEF Working, DoOpen, DoOther, DoClose, DoFail, Queued, IInv, RequestOK
    <3>2. task[c].op = "move" => DoFail(c)
      BY <1>4, <3>1 DEF Working, DoOpen, DoOther, DoClose, Queued
    <3>3. DoFail(c) => task'[c].ok = task[c].ok
      BY <1>1 DEF DoFail, Fail, Task, IInv, Typed, TypeOK
    <3>4. QED
      BY <3>1, <3>2, <3>3
  <2>2. task' = [task EXCEPT ![c] = task'[c]] /\ task'[c].op = task[c].op /\ task'[c].for = task[c].for
    BY <1>1, <1>4 DEF Working, DoOpen, DoOther, DoClose, DoFail, Fail, Task, IInv, Typed, TypeOK
  <2>3. PICK q : q = task'[c]
    OBVIOUS
  <2>4. QED
    BY <1>2, <2>1, <2>2, <2>3, WholeStep DEF Whole
<1>5. QED
  BY <1>3, <1>4

LEMMA CallbacksKeepWhole ==
  ASSUME IInv, Whole, NEW c \in Coros, Callback(c)
  PROVE  Whole'
<1>1. task[c] \in Task /\ task[c] # NoTask
  BY HasRequest DEF IInv, Callback, OnNew, OnMoved, OnClosed, OnOpenFailed, ReadFileOpened,
                    ReadFileStat, ReadFileRead, ReadFileClosed, WriteFileOpened, WriteFileEnds,
                    TruncateOpened, TruncateEnds, Done
<1>2. NoTask.op # "move"
  BY NoTaskHolds
<1>3. CASE OnNew(c) \/ OnMoved(c) \/ OnClosed(c)
  <2>1. PICK s \in Streams : task[c].for = s
    BY <1>3, Kinds DEF OnNew, OnMoved, OnClosed, Done, IInv, StreamOps
  <2>2. /\ task[c].op \in StreamOps
        /\ task' = [task EXCEPT ![c] = NoTask]
        /\ \A r \in Streams \ {s} : stream'[r] = stream[r]
    BY <1>3, <2>1 DEF OnNew, OnMoved, OnClosed, Done, Return, StreamOps, IInv, Typed, TypeOK
  <2>3. stream'[s].lost = 0
    <3>1. stream[s] \in Stream /\ stream[s].lost = 0
      BY DEF IInv, Typed, TypeOK, Whole
    <3>2. CASE OnNew(c)
      BY <2>1, <3>1, <3>2 DEF OnNew, Stream, IInv, Typed, TypeOK
    <3>3. CASE OnMoved(c)
      <4>1. PICK n \in Nat, k \in Nat : Reported(task[c]) = n /\ task[c].moved = k /\ k <= n
        BY <1>1, ReportedTyped DEF IInv
      <4>2. task[c].ok => k = n
        BY <3>3, <4>1 DEF OnMoved, Done, Whole
      <4>3. \/ stream'[s] = stream[s]
            \/ task[c].ok /\ stream'[s] = Counted(stream[s], n, k)
        <5>1. \/ stream' = stream
              \/ task[c].ok /\ stream' = [stream EXCEPT ![s] = Counted(stream[s], n, k)]
          BY <2>1, <3>3, <4>1 DEF OnMoved
        <5>2. stream \in [Streams -> Stream]
          BY DEF IInv, Typed, TypeOK
        <5>3. CASE stream' = stream
          BY <5>3
        <5>4. CASE task[c].ok /\ stream' = [stream EXCEPT ![s] = Counted(stream[s], n, k)]
          BY <5>2, <5>4
        <5>5. QED
          BY <5>1, <5>3, <5>4
      <4>4. Counted(stream[s], n, k).lost = stream[s].lost + (n - k)
        BY <3>1, <4>1, CountedTyped
      <4>5. QED
        BY <3>1, <4>1, <4>2, <4>3, <4>4
    <3>4. CASE OnClosed(c)
      BY <2>1, <3>4 DEF OnClosed, Gone, IInv, Typed, TypeOK
    <3>5. QED
      BY <1>3, <3>2, <3>3, <3>4
  <2>4. \A d \in Coros \ {c} : task[d].op = "move" => task[d].for \in Streams \ {s}
    BY <2>1, <2>2, Kinds DEF IInv, Streaming, Alone, StreamOps
  <2>5. QED
    BY <1>2, <2>2, <2>3, <2>4, WholeStep DEF Whole
<1>4. CASE ~(OnNew(c) \/ OnMoved(c) \/ OnClosed(c))
  <2>1. task[c].op \in FileOps /\ stream' = stream
    BY <1>4 DEF Callback, OnOpenFailed, ReadFileOpened, ReadFileStat, ReadFileRead, ReadFileClosed,
                WriteFileOpened, WriteFileEnds, TruncateOpened, TruncateEnds, CloseFile, Continue,
                ReturnLeaving, Done, FileOps
  <2>2. PICK q : task' = [task EXCEPT ![c] = q] /\ q.op # "move"
    <3>1. ASSUME NEW step, NEW n, Continue(c, step, n)
          PROVE  \E q : task' = [task EXCEPT ![c] = q] /\ q.op # "move"
      <4> DEFINE q == Request(task[c].op, step, c, task[c].fd, n, NoOffset)
      <4>1. task' = [task EXCEPT ![c] = q] /\ q.op = task[c].op
        BY <3>1 DEF Continue, Submit, Request
      <4> HIDE DEF q
      <4>2. QED
        BY <2>1, <4>1 DEF FileOps
    <3>2. Return(c) => \E q : task' = [task EXCEPT ![c] = q] /\ q.op # "move"
      BY <1>2 DEF Return
    <3>3. QED
      BY <1>4, <3>1, <3>2 DEF Callback, OnOpenFailed, ReadFileOpened, ReadFileStat, ReadFileRead,
               ReadFileClosed, WriteFileOpened, WriteFileEnds, TruncateOpened, TruncateEnds,
               CloseFile, ReturnLeaving
  <2>3. QED
    BY <2>1, <2>2, WholeStep DEF Whole
<1>5. QED
  BY <1>3, <1>4

\* The bytes just moved of a stream are behind those before them.
LEMMA PlacedInPlace == IInv /\ Whole => InPlace
<1> SUFFICES ASSUME IInv, Whole, NEW c \in Coros, JustMoved(c)
             PROVE  /\ stream[task[c].for].lost = 0
                    /\ task[c].at = stream[task[c].for].start + stream[task[c].for].bytes
  BY DEF InPlace
<1>1. PICK s \in Streams : task[c].for = s
  BY Kinds DEF JustMoved, Done, IInv, StreamOps
<1>2. stream[s].lost = 0 /\ stream[s].offset < IntBound
  BY <1>1 DEF JustMoved, Done, Whole
<1>3. task[c].at = NextPlace(stream[s])
  BY <1>1, <1>2 DEF IInv, Placed, PlacedCall
<1>4. stream[s] \in Stream /\ StreamOK(s)
  BY DEF IInv, Typed, TypeOK, Streaming
<1>5. stream[s].offset = NoOffset => stream[s].start = 0
  BY DEF IInv, Streaming, StreamOK
<1>6. QED
  BY <1>1, <1>2, <1>3, <1>4, <1>5 DEF NextPlace, Stream

LEMMA AllAccounted == IInv => DescriptorsAccounted
<1> SUFFICES ASSUME IInv, NEW f \in Fds
             PROVE  LET Known == {o \in Streams \cup Coros : KnownTo(o, f) /\ ~BeingClosed(o)}
                    IN /\ \A x, y \in Known : x = y
                       /\ IF table[f] = NoOwner THEN Known = {} /\ f \notin left
                                                ELSE Known # {} <=> f \notin left
  BY DEF DescriptorsAccounted
<1> DEFINE Known == {o \in Streams \cup Coros : KnownTo(o, f) /\ ~BeingClosed(o)}
<1>1. Coros \cap Streams = {} /\ NoOwner \notin Coros \cup Streams
  BY FilesAssumption
<1>2. ASSUME NEW s \in Streams
      PROVE  s \in Known <=> StreamHolds(s) /\ stream[s].fd = f
  BY <1>1 DEF KnownTo, StreamHolds
<1>3. ASSUME NEW c \in Coros
      PROVE  c \in Known <=> CallHolds(c) /\ task[c].fd = f
  <2>1. c \notin Streams
    BY <1>1
  <2>2. KnownTo(c, f) <=> CallHolds(c) /\ task[c].fd = f
    BY <2>1 DEF KnownTo, CallHolds, FileOps
  <2>3. ~BeingClosed(c)
    BY <2>1 DEF BeingClosed
  <2>4. QED
    BY <2>2, <2>3
<1>4. Known \subseteq Streams \cup Coros
  OBVIOUS
<1> HIDE DEF Known
<1>5. \A x, y \in Known : x = y
  BY <1>2, <1>3, <1>4, KnownAlone
<1>6. \A o \in Known : table[f] # NoOwner /\ f \notin left
  <2> SUFFICES ASSUME NEW o \in Known PROVE table[f] # NoOwner /\ f \notin left
    OBVIOUS
  <2>1. CASE o \in Streams
    BY <1>1, <1>2, <2>1 DEF IInv, Tabled
  <2>2. CASE o \in Coros
    <3>1. CallHolds(o) /\ task[o].fd = f
      BY <1>3, <2>2
    <3>2. task[o].for \in Coros \cup Streams
      BY <2>2, <3>1, Kinds DEF IInv, CallHolds, StreamOps
    <3>3. QED
      BY <1>1, <2>2, <3>1, <3>2 DEF IInv, Tabled
  <2>3. QED
    BY <1>4, <2>1, <2>2
<1>7. table[f] # NoOwner /\ f \notin left => Known # {}
  BY <1>2, <1>3 DEF IInv, Tabled
<1>8. f \in left => table[f] # NoOwner
  BY DEF IInv, Tabled
<1>9. QED
  BY <1>5, <1>6, <1>7, <1>8 DEF Known

LEMMA Invariant == OneAtATime => (Spec => []IInv)
<1> SUFFICES ASSUME OneAtATime PROVE Spec => []IInv
  OBVIOUS
<1>1. IInv /\ [Next]_vars => IInv'
  BY NextKeeps, StutterKeeps
<1>2. QED
  BY InitKeeps, <1>1, PTL DEF Spec

LEMMA WholeInvariant == Plain => (Spec => [](IInv /\ Whole))
<1> SUFFICES ASSUME Plain PROVE Spec => [](IInv /\ Whole)
  OBVIOUS
<1>1. Init => Whole
  BY NoTaskHolds DEF Init, Gone, Whole
<1>2. IInv /\ Whole /\ [Next]_vars => Whole'
  <2>1. ASSUME IInv, Whole, Next PROVE Whole'
    BY <2>1, CallsKeepWhole, WorkKeepsWhole, CallbacksKeepWhole DEF Next
  <2>2. ASSUME Whole, UNCHANGED vars PROVE Whole'
    BY <2>2 DEF vars, Whole, Reported, Writes
  <2>3. QED
    BY <2>1, <2>2
<1>3. Spec => []IInv
  BY Invariant DEF Plain
<1>4. QED
  BY <1>1, <1>2, <1>3, PTL DEF Spec

\* When a stream is used by one coroutine at a time, no request of any call uses a
\* descriptor that the system has meanwhile given to another file.
THEOREM RequestsOwnFile == OneAtATime => (Spec => []OwnFile)
  BY Invariant, RequestsFindTheirFile, PTL

\* Under the same condition, when no write is short and no offset above 2^31 is used,
\* every call of a stream moves its bytes right behind those of the call before, and all
\* that the stream counts has been moved (fs.lua:423-431, 507-519).
THEOREM BytesInPlace == Plain => (Spec => []InPlace)
  BY WholeInvariant, PlacedInPlace, PTL

\* When a stream is used by one coroutine at a time, every open descriptor is known to
\* one stream or call, or is one of those that calls leave open.
THEOREM NoneLostUnseen == OneAtATime => (Spec => []DescriptorsAccounted)
  BY Invariant, AllAccounted, PTL
=============================================================================
