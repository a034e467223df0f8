-------------------------------- MODULE Files --------------------------------
(***************************************************************************)
(* Files: the streams of src/lib/fs.lua and its calls that open a file for *)
(* themselves, over the requests of src/luaio_fs.c.  A request is done by  *)
(* a thread of libuv's pool at some time, in any order with the others,    *)
(* and called back at some later time.  Between, other coroutines run, and *)
(* the system gives descriptors that were closed to files opened next.     *)
(***************************************************************************)
EXTENDS Integers, FiniteSets

CONSTANTS
  Coros,     \* coroutines
  Streams,   \* the objects for streams, each over a file of its own
  Writers,   \* those that are WriteStreams
  Fds,       \* the descriptors the process may have open
  Lengths,   \* bytes of data written, or room in the buffer read into
  Starts,    \* the offsets streams are created with, beside none
  MaxBytes,  \* bound on the bytes of one stream
  IntBound,  \* 2^31: offsets are passed on as a C int
  Allow,     \* what the program and the system do beyond the usual
  NoFd, NoOwner

\* A stream is used while another coroutine is in a call on it; write(2) writes less
\* than it was given; a stream has an offset that is not an int.
Overlaps == "overlaps"
ShortWrites == "short writes"
LargeOffsets == "large offsets"

ASSUME FilesAssumption ==
  /\ Coros \cap Streams = {} /\ NoOwner \notin Coros \cup Streams
  /\ Writers \subseteq Streams
  /\ NoFd \notin Fds
  /\ Lengths \subseteq Nat \ {0} /\ Starts \subseteq Nat
  /\ MaxBytes \in Nat /\ IntBound \in Nat \ {0}
  /\ Allow \subseteq {Overlaps, ShortWrites, LargeOffsets}

VARIABLES
  stream,    \* the streams
  task,      \* the request each coroutine waits for, or NoTask
  table,     \* what each descriptor was opened for, or NoOwner
  position,  \* the position of the file a descriptor is open for
  left       \* descriptors that calls have left open when they returned

vars == <<stream, task, table, position, left>>

\* No offset: fs.read and fs.write pass -1, for the position of the file.
NoOffset == -1

\* A stream: its descriptor, its offset and the one it was created with, the
\* bytes it counts, and how many of those were never moved.
Stream == [open : BOOLEAN, fd : Fds \cup {NoFd}, offset : Nat \cup {NoOffset},
           start : Nat, bytes : Nat, lost : Nat]
Gone == [open |-> FALSE, fd |-> NoFd, offset |-> NoOffset, start |-> 0, bytes |-> 0, lost |-> 0]

Ops == {"new", "move", "close", "readFile", "writeFile", "truncate"}
Steps == {"open", "fstat", "move", "ftruncate", "close"}

\* A request: the call it is a step of, for which stream or coroutine, and once
\* it is done the outcome, with the place and number of the bytes moved.
Task == [op : Ops, step : Steps, for : Coros \cup Streams, fd : Fds \cup {NoFd},
         len : Nat, pos : Int, done : BOOLEAN, ok : BOOLEAN, at : Nat, moved : Nat]
Request(op, step, o, f, n, p) ==
  [op |-> op, step |-> step, for |-> o, fd |-> f, len |-> n, pos |-> p,
   done |-> FALSE, ok |-> FALSE, at |-> 0, moved |-> 0]
NoTask == Request("none", "none", NoOwner, NoFd, 0, NoOffset)

TypeOK ==
  /\ stream \in [Streams -> Stream]
  /\ task \in [Coros -> Task \cup {NoTask}]
  /\ table \in [Fds -> Coros \cup Streams \cup {NoOwner}]
  /\ position \in [Fds -> Nat]
  /\ left \subseteq Fds

Init ==
  /\ stream = [s \in Streams |-> Gone]
  /\ task = [c \in Coros |-> NoTask]
  /\ table = [f \in Fds |-> NoOwner]
  /\ position = [f \in Fds |-> 0]
  /\ left = {}

Idle(c) == task[c] = NoTask
Busy(s) == \E c \in Coros : task[c].for = s

\* A request is queued, and its coroutine yields.
Submit(c, q) == task' = [task EXCEPT ![c] = q]

\* The call of c ends.
Return(c) == task' = [task EXCEPT ![c] = NoTask]

\* The call of c ends and nobody knows its descriptor any more.
ReturnLeaving(c) ==
  /\ Return(c)
  /\ left' = left \cup {task[c].fd}

-----------------------------------------------------------------------------
(* Calls.  A call that fails before it yields changes nothing and is left    *)
(* out, but for the close of a stream.                                       *)

Usable(s) == stream[s].open /\ (Busy(s) => Overlaps \in Allow)

\* createReadStream and createWriteStream; the offset is that of the options.
New(c, s) ==
  /\ Idle(c) /\ ~stream[s].open /\ ~Busy(s)
  /\ \E p \in Starts \cup {NoOffset} :
       stream' = [stream EXCEPT ![s] = [Gone EXCEPT !.offset = p,
                                                    !.start = IF p = NoOffset THEN 0 ELSE p]]
  /\ Submit(c, Request("new", "open", s, NoFd, 0, NoOffset))
  /\ UNCHANGED <<table, position, left>>

\* luaL_checkinteger into an int.
AsInt(offset) == ((offset + IntBound) % (2 * IntBound)) - IntBound

\* ReadStream:_read and WriteStream:write.
Move(c, s, n) ==
  /\ Idle(c) /\ Usable(s)
  /\ stream[s].bytes + n <= MaxBytes
  /\ stream[s].offset < IntBound \/ LargeOffsets \in Allow
  /\ Submit(c, Request("move", "move", s, stream[s].fd, n, AsInt(stream[s].offset)))
  /\ UNCHANGED <<stream, table, position, left>>

\* close of a stream.
Close(c, s) ==
  /\ Idle(c) /\ Usable(s)
  /\ Submit(c, Request("close", "close", s, stream[s].fd, 0, NoOffset))
  /\ UNCHANGED <<stream, table, position, left>>

\* There is no memory for the request: the stream counts as closed.
CloseFails(c, s) ==
  /\ Idle(c) /\ Usable(s)
  /\ stream' = [stream EXCEPT ![s] = Gone]
  /\ left' = left \cup {stream[s].fd}
  /\ UNCHANGED <<task, table, position>>

\* fs.readFile, fs.writeFile or fs.appendFile, fs.truncate.
FileCall(c, op) ==
  /\ Idle(c)
  /\ Submit(c, Request(op, "open", c, NoFd, 0, NoOffset))
  /\ UNCHANGED <<stream, table, position, left>>

-----------------------------------------------------------------------------
(* The pool *)

Queued(c, step) == task[c].step = step /\ ~task[c].done

Fail(c) ==
  /\ task' = [task EXCEPT ![c].done = TRUE]
  /\ UNCHANGED <<stream, table, position, left>>

\* open(2): a descriptor that is free.
DoOpen(c, f) ==
  /\ Queued(c, "open")
  /\ table[f] = NoOwner
  /\ table' = [table EXCEPT ![f] = task[c].for]
  /\ position' = [position EXCEPT ![f] = 0]
  /\ task' = [task EXCEPT ![c].done = TRUE, ![c].ok = TRUE, ![c].fd = f]
  /\ UNCHANGED <<stream, left>>

Writes(q) == q.op = "writeFile" \/ q.for \in Writers

\* What read(2) or write(2) moves: a write all its bytes, unless there is no space for
\* them or a signal interrupts it, but at least one.
Movable(q) ==
  CASE ~Writes(q) -> 0 .. q.len
    [] Writes(q) /\ ShortWrites \in Allow -> 1 .. q.len
    [] Writes(q) /\ ShortWrites \notin Allow -> {q.len}

\* read, write, pread, pwrite: at the position of the file, which moves on, when
\* the offset is negative.
DoMove(c) ==
  LET q == task[c]
      f == q.fd
      at == IF q.pos < 0 THEN position[f] ELSE q.pos
  IN /\ Queued(c, "move")
     /\ table[f] # NoOwner
     /\ \E k \in Movable(q) :
          /\ task' = [task EXCEPT ![c] = [q EXCEPT !.done = TRUE, !.ok = TRUE,
                                                   !.at = at, !.moved = k]]
          /\ position' = IF q.pos < 0 THEN [position EXCEPT ![f] = @ + k] ELSE position
     /\ UNCHANGED <<stream, table, left>>

\* fstat, ftruncate.
DoOther(c) ==
  /\ Queued(c, "fstat") \/ Queued(c, "ftruncate")
  /\ table[task[c].fd] # NoOwner
  /\ task' = [task EXCEPT ![c].done = TRUE, ![c].ok = TRUE]
  /\ UNCHANGED <<stream, table, position, left>>

\* close(2): the descriptor is free, also when it reports an error.
DoClose(c) ==
  /\ Queued(c, "close")
  /\ table' = [table EXCEPT ![task[c].fd] = NoOwner]
  /\ \E ok \in BOOLEAN :
       /\ ok => table[task[c].fd] # NoOwner
       /\ task' = [task EXCEPT ![c].done = TRUE, ![c].ok = ok]
  /\ UNCHANGED <<stream, position, left>>

\* The system refuses: no such file, no free descriptor, no space, not open.
DoFail(c) ==
  /\ \E step \in {"open", "fstat", "move", "ftruncate"} : Queued(c, step)
  /\ Fail(c)

-----------------------------------------------------------------------------
(* Callbacks: luaio_fs_callback resumes the coroutine, which runs on until it  *)
(* yields or its call ends.                                                    *)

Done(c, op, step) == task[c].op = op /\ task[c].step = step /\ task[c].done

\* The next request of a call, when there is memory for it.
Continue(c, step, n) ==
  /\ Submit(c, Request(task[c].op, step, c, task[c].fd, n, NoOffset))
  /\ UNCHANGED <<stream, table, position, left>>

\* The end of ReadStream:init and WriteStream:init.
OnNew(c) ==
  LET s == task[c].for
  IN /\ Done(c, "new", "open")
     /\ stream' = [stream EXCEPT ![s].open = task[c].ok, ![s].fd = task[c].fd]
     /\ Return(c)
     /\ UNCHANGED <<table, position, left>>

\* luaio_fs_callback: the length of the data for any write, what was read for a read.
Reported(q) == IF Writes(q) THEN q.len ELSE q.moved

\* Mutant: the offset stays where it was.
CountedOnly(v, n, k) ==
  [v EXCEPT !.bytes = @ + n, !.lost = @ + (n - k)]

\* Both streams count n bytes of which k were moved, and advance their offset.
Counted(v, n, k) ==
  [v EXCEPT !.bytes = @ + n, !.lost = @ + (n - k),
            !.offset = IF @ = NoOffset THEN @ ELSE @ + n]

\* The end of ReadStream:_read and WriteStream:write.  When the stream was
\* closed meanwhile, or at the end of the file, nothing is counted.
OnMoved(c) ==
  LET q == task[c]
      s == q.for
      n == Reported(q)
  IN /\ Done(c, "move", "move")
     /\ stream' = IF q.ok /\ n > 0 /\ stream[s].open
                  THEN [stream EXCEPT ![s] = Counted(@, n, q.moved)]
                  ELSE stream
     /\ Return(c)
     /\ UNCHANGED <<table, position, left>>

\* Mutant: the stream can still be used.
OnClosedForgets(c) ==
  /\ Done(c, "close", "close")
  /\ Return(c)
  /\ UNCHANGED <<stream, table, position, left>>

\* The end of close of a stream: whatever it returns, fd is nil and closed is set.
OnClosed(c) ==
  /\ Done(c, "close", "close")
  /\ stream' = [stream EXCEPT ![task[c].for] = Gone]
  /\ Return(c)
  /\ UNCHANGED <<table, position, left>>

\* A call that opened a file itself could not open it.
OnOpenFailed(c) ==
  /\ \E op \in {"readFile", "writeFile", "truncate"} : Done(c, op, "open")
  /\ ~task[c].ok
  /\ Return(c)
  /\ UNCHANGED <<stream, table, position, left>>

\* fs.readFile with its file open: fstat, or without memory for it a nil that is
\* compared with 0.
ReadFileOpened(c) ==
  /\ Done(c, "readFile", "open") /\ task[c].ok
  /\ \/ Continue(c, "fstat", 0)
     \/ ReturnLeaving(c) /\ UNCHANGED <<stream, table, position>>

\* Mutant: the failing path returns without a close.
ReturnsAtOnce(c) ==
  /\ Return(c)
  /\ UNCHANGED <<stream, table, position, left>>

\* fs.readFile closes its file; without memory for the request it stays open.
CloseFile(c) ==
  \/ Continue(c, "close", 0)
  \/ /\ ReturnLeaving(c)
     /\ UNCHANGED <<stream, table, position>>

\* fstat is back: not a file, no memory for the buffer, or the file is read.
ReadFileStat(c) ==
  /\ Done(c, "readFile", "fstat")
  /\ \/ CloseFile(c)
     \/ task[c].ok /\ \E n \in Lengths : Continue(c, "move", n)

ReadFileRead(c) == Done(c, "readFile", "move") /\ CloseFile(c)

ReadFileClosed(c) ==
  /\ Done(c, "readFile", "close")
  /\ Return(c)
  /\ UNCHANGED <<stream, table, position, left>>

\* fs.writeFile and fs.appendFile with their file open, and their end.
WriteFileOpened(c) ==
  /\ Done(c, "writeFile", "open") /\ task[c].ok
  /\ \/ \E n \in Lengths : Continue(c, "move", n)
     \/ ReturnLeaving(c) /\ UNCHANGED <<stream, table, position>>

WriteFileEnds(c) ==
  /\ Done(c, "writeFile", "move")
  /\ ReturnLeaving(c)
  /\ UNCHANGED <<stream, table, position>>

\* fs.truncate: after ftruncate, or without memory for it, fs.native is nil.
TruncateOpened(c) ==
  /\ Done(c, "truncate", "open") /\ task[c].ok
  /\ \/ Continue(c, "ftruncate", 0)
     \/ ReturnLeaving(c) /\ UNCHANGED <<stream, table, position>>

TruncateEnds(c) ==
  /\ Done(c, "truncate", "ftruncate")
  /\ ReturnLeaving(c)
  /\ UNCHANGED <<stream, table, position>>

-----------------------------------------------------------------------------

Calling(c) ==
  \/ \E s \in Streams : New(c, s) \/ Close(c, s) \/ CloseFails(c, s)
  \/ \E s \in Streams, n \in Lengths : Move(c, s, n)
  \/ \E op \in {"readFile", "writeFile", "truncate"} : FileCall(c, op)

Working(c) ==
  \/ \E f \in Fds : DoOpen(c, f)
  \/ DoMove(c) \/ DoOther(c) \/ DoClose(c) \/ DoFail(c)

Callback(c) ==
  \/ OnNew(c) \/ OnMoved(c) \/ OnClosed(c) \/ OnOpenFailed(c)
  \/ ReadFileOpened(c) \/ ReadFileStat(c) \/ ReadFileRead(c) \/ ReadFileClosed(c)
  \/ WriteFileOpened(c) \/ WriteFileEnds(c)
  \/ TruncateOpened(c) \/ TruncateEnds(c)

Next == \E c \in Coros : Calling(c) \/ Working(c) \/ Callback(c)

Spec == Init /\ [][Next]_vars

-----------------------------------------------------------------------------
(* Properties *)

\* A request for an open file finds the file it is for: no descriptor is used
\* after the system may have given it to another file.
OwnFile ==
  \A c \in Coros :
    task[c].step \in {"fstat", "move", "ftruncate", "close"} /\ ~task[c].done =>
      table[task[c].fd] = task[c].for

\* What was just moved of a stream, and is still to be counted.
JustMoved(c) == Done(c, "move", "move") /\ task[c].ok

\* The bytes of a stream are moved one call after the other, without a gap and without
\* an overlap: when more are moved, all that are counted have been, and the new ones
\* are right behind them.
InPlace ==
  \A c \in Coros :
    LET v == stream[task[c].for]
    IN JustMoved(c) /\ task[c].moved > 0 => v.lost = 0 /\ task[c].at = v.start + v.bytes

\* A descriptor of the process is known to exactly one stream or call, or it is
\* one of those calls have left open.
KnownTo(o, f) ==
  \/ o \in Streams /\ stream[o].open /\ stream[o].fd = f
  \/ o \in Coros /\ task[o].fd = f /\ task[o].op \in {"new", "readFile", "writeFile", "truncate"}
       /\ (task[o].step = "close" => ~task[o].done)

\* A stream that is being closed knows its descriptor until close returns.
BeingClosed(o) ==
  o \in Streams /\ \E c \in Coros : task[c].for = o /\ Done(c, "close", "close")

DescriptorsAccounted ==
  \A f \in Fds :
    LET Known == {o \in Streams \cup Coros : KnownTo(o, f) /\ ~BeingClosed(o)}
    IN /\ \A x, y \in Known : x = y
       /\ IF table[f] = NoOwner THEN Known = {} /\ f \notin left
                                ELSE Known # {} <=> f \notin left
=============================================================================
