# LuaIO in TLA+

LuaIO is a runtime for Lua programs on one thread: coroutines make calls that look
blocking, C code starts an operation of libuv and yields, and a callback of the loop
resumes the coroutine. This directory holds TLA+ models of it, the TLC configurations
that check them, and proofs that TLAPS checks.

    tlc -config MCTcpSockets.cfg MCTcpSocket      # timers and wake-ups, two sockets
    tlc -config MCTcpSocket.cfg MCTcpSocket       # liveness and refinement, one socket
    tlc -config MCReadable.cfg MCReadable         # buffered reads
    tlc -config MCParallel.cfg Parallel           # parallel calls
    tlc -config MCProcess.cfg MCProcess           # events, signals
    tlc -config MCTcpServer.cfg TcpServer         # a server in its process
    tlc -config MCHttpHeaders.cfg MCHttpHeaders   # headers in chunks
    tlc -config MCDns.cfg MCDns                   # name resolution
    tlc -config MCFiles.cfg MCFiles               # files and their streams
    tlapm TcpCalls_proofs.tla                     # and the other *_proofs modules

## The system

Everything runs in one thread. A coroutine runs until it yields in a call or ends, a
callback runs until it returns, and the only concurrency is which coroutine or callback
runs next. All the trouble is in what happens between a yield and its resume.

| component | state | operations | meets |
|---|---|---|---|
| TCP sockets, `src/luaio_tcp.c`, `lib/tcp.lua` | per socket `current_thread`, `timer`, `timeout`, the handle; per pending call a request block | connect, read, write, write_async, set_timeout, shutdown, close, and a callback and a timeout for most | libuv, timer pool, memory pool, read buffer |
| timer pool, `src/luaio_timer.c` | free list, `free_timers`, `max_free_timers` | alloc, free, onclose | every call with a timeout |
| read buffer, `src/luaio_read_buffer.c`, `src/luaio_buffer.c` | memory, `read_pos`, `write_pos` | read, readline, fixed size reads, discard | filled by onread of sockets and of files |
| readable streams, `lib/readable.lua` | `read_bytes` and a read buffer | read, readline, discard, each a loop over `_read()` | sockets and file streams are subclasses |
| TCP server, `lib/tcp.lua` | `connections`, `quit`, `closed` | accept, quit, close | one coroutine and socket per connection |
| parallel calls, `lib/parallel.lua` | `running`, `completed`, results, the global `collect` | all, map | coroutines that any callback may resume |
| coroutine cache, `lib/coro.lua` | idle coroutines | create | - |
| events, `lib/emitter.lua`, `lib/set.lua` | ordered sets of handlers | on, off, emit | sockets (`close`), processes (signals, `exit`) |
| processes and signals, `lib/process.lua`, `src/luaio_process.c`, `src/luaio_signal.c` | `pids`, `signals`, handles | fork, exec, kill, on, off, exit | respawns children that exit |
| name resolution, `src/luaio_dns.c` | poll tasks by file descriptor, one idle timer | resolve4, resolve6, socket state callback | c-ares, hash table; connect of sockets |
| hash table, `src/luaio_hash.c` | slots, `bits`, `items` | set, get, remove, rehash | name resolution |
| memory pool, `src/luaio_pmemory.c` | a free list with a limit per size class | palloc, pfree | requests, buffers, tasks |
| HTTP parser, `src/luaio_http_parser.c`, `src/luaio_http.c` | the parser's state, pointers into the read buffer | parse request, status, headers, url | moves the read buffer under itself |
| file system, `src/luaio_fs.c`, `lib/fs.lua` | request blocks, descriptors, stream offsets | one call per file operation; ReadStream, WriteStream | libuv's thread pool |
| write buffer, dates, strings, paths, modules, system, start-up | positions, or none | sequential functions | - |

What is hard in them, and what would make them correct:

- *Sockets.* A timeout races the answer of the kernel. A request outlives the call that
  made it when the call times out. `current_thread` and `timer` are one field each for all
  the calls of a socket. Correct means: a suspended coroutine is resumed exactly once with
  the outcome of its own call, a call with a timeout returns, close returns, a timer belongs
  to one call at a time, writes are sent whole and in order.
- *Buffer and streams.* Data comes in chunks that fit no request, and making room moves what
  is left. Correct means: what is read is the stream, without loss, repetition or reordering,
  and nothing waits with a full buffer.
- *Server.* Connections come after quit, above the limit and while the last one closes.
  Correct means: the count is that of the connections served, and a server told to quit ends
  the process when the last one is gone and not before.
- *Parallel calls.* Functions may end at once, raise, or yield; calls may overlap. Correct
  means: the caller gets the results of its own functions, all of them, once.
- *Events, processes, signals.* Handlers change the set they are called from; children exit
  and are started again, under the same pid perhaps. Correct means: an event reaches the
  handlers it found, a signal with a handler is watched, no child is lost or run twice.
- *Name resolution and hash table.* Poll handles close later than their sockets, and a
  descriptor may come back before. Correct means: a query that waits is watched, by a handle
  and the timer, and ends in an answer or a timeout.
- *HTTP parser.* A field, a value or a line end comes in two chunks with a move between.
  Correct means: the parse of a text does not depend on its chunks.
- *Files.* Requests end in any order on other threads, writes are short, steps of a call fail
  after a descriptor was opened, a stream is closed under its reader. Correct means: a request
  finds the file it is for, the bytes of a stream follow each other, and every open descriptor
  has an owner.

`PROJECT.json` lists every hazard at the line where it bites.

## The modules

| module | models |
|---|---|
| `AsyncCall` | what LuaIO promises of a blocking-looking call, abstractly |
| `ByteStream` | what the reading calls promise, abstractly: a stream without a buffer |
| `TcpSocket` | sockets, their requests and callbacks, and the timer pool |
| `ReadBuffer` | the read buffer: operators from a buffer to a buffer and an answer |
| `Readable` | a coroutine that reads a stream through the buffer |
| `Parallel` | `parallel.all` and `map`: callers, rounds, the shared `collect` |
| `Events` | the set of handlers and an emission that walks through it, as operators |
| `Process` | the process's handlers, signals, children and its end, over `Events` |
| `TcpServer` | a server and its connections, in the process of `Process` |
| `HttpHeaders` | the parser of header lines over chunks and a buffer that moves |
| `Hash` | the hash table, as operators on slots |
| `Dns` | queries, sockets, poll handles and the timer of name resolution, over `Hash` |
| `Files` | the streams and file calls of `lib/fs.lua`, the thread pool and the descriptors |
| `MCTcpSocket`, `MCReadable`, `MCProcess`, `MCHttpHeaders`, `MCDns`, `MCFiles` | values for TLC |
| `TcpSocket_proofs`, `TcpCalls_proofs` | theorems about `TcpSocket` |
| `Readable_proofs` | lemmas about the buffer, theorems about `Readable` |
| `TcpServer_proofs` | theorems about `Process` and `TcpServer` |
| `Parallel_proofs`, `HttpHeaders_proofs`, `Dns_proofs`, `Files_proofs` | theorems about the module of that name |

`Readable` uses `ReadBuffer`, `TcpServer` is built on `Process` and this on `Events`, `Dns` on
`Hash`; `TcpSocket` is shown to implement `AsyncCall`, and `Readable` to implement `ByteStream`.

### TcpSocket

`phase`, `timed`, `cur`, `rtimer` and `reading` are the life of the handle, `timeout # 0`,
`current_thread`, `timer` and whether libuv reads; `req` holds the connect, write and
shutdown requests and `wq` the write queue of each handle; `timer`, `armed` and `nfree` are
the place of each timer block, its `data` while it runs, and `free_timers`. `call` and `last` are the
coroutines' side: the call each is suspended in, and what returned last. One action is a
whole call up to its return or yield, or a whole callback up to the resume; the coroutine's
next call is another action. Where `lib/tcp.lua` goes on at once in the same coroutine (it
closes the handle of a failed connect), that is in the same action.

Ready callbacks may run in any order. That is more than libuv does (timers, then polling,
then close callbacks), and includes it. `KernelSend`, `Drained` and the order of the
queue are what the code relies on of libuv's `uv__write` and `uv_try_write` (`deps/uv/src/unix/stream.c`).

The program is any set of coroutines making any calls, except where the constant `Allow`
says so. A socket is read by one coroutine at a time, and a coroutine does not use a socket
it has closed (the library raises). `Allow` adds `set_timeout`, `write_async` and `shutdown`,
and two uses of close that the library does not forbid and the code does not survive:
closing under a reader, and closing after a read with a timeout. The runs that must pass
leave these two out; each has a run of its own that shows what happens.

### ReadBuffer and Readable

A byte of memory is the position of that byte in the stream, so that order, loss and
repetition can be stated; `Text` says which positions end a line. The operators follow the C
functions: each takes a buffer and gives the buffer afterwards, the bytes, how many were
taken, and the error. `Readable` is one coroutine: a call tries the buffer and, on `EAGAIN`,
waits in `op`; `Data(k)` is onread with k bytes and the retry it causes, `NoData` a timeout
or error of `_read()`. `taken` and `out` are there for the properties.

`ByteStream` is the same calls for a reader who knows of no buffer, positions or retries: a call
takes the bytes behind what was taken, returns as soon as what it wants has arrived, and waits
otherwise. `ReadsStream` says that `Readable` implements it. Where the code counts what is left
of a discard down, `ByteStream` computes it from where the call began (`Seen` drops the count), so
that the refinement catches a loop that miscounts. Two things of the code remain visible there:
the first call on a stream waits whatever it asks for, as there is no memory yet, and a line
may be as long as the buffer and no longer.

The typed reads of `lib/readable.lua` call `self._readCommonType(...)` with a dot, so `self`
is a string and the call raises before it changes anything. The model has the fixed size
reads as the buffer's own methods, which is how a program can use them.

### Parallel

Coroutines do not preempt each other, so the callers that run form a `stack`: a caller that
starts a function, which makes a call itself, waits below it. `fn` is what each function of
each call does; a function is started (`Start`), and ends at once, is suspended or raises;
`EndRound` is the loop's yield or return, `Finish` the end of a suspended function, with all
that `collect` does up to the resume of the caller. A function that has been suspended may
raise as well. If a callback of the loop resumed it, the error ends the process, in
`luaio_resume`, and is no action. If it waited in a nested call, whose collector resumed it with
`co_resume(parent_co)`, the error is dropped: `RaiseLate`, after which nobody counts the function.

`collect` is a global variable of the program. A function evaluates it when it starts (the
function of a call is evaluated before its arguments), so that calls which overlap are safe
unless one begins while another has functions to start. The model has all of this; `by` is
the call whose `collect` a function took, and the history variable `disturbed` has the calls
that were mixed up, for which nothing is promised: the call that began last gets the results
of the other's later functions and may return early, late or never. The properties are about
all other calls.

### Events, Process and TcpServer

`Events` has the set as the code keeps it, members in an array and places in a table, and an
emission as a record: how far it has come, the size it found, and the array it found, which is
shared with the set until `clear` gives the set a new one. `Process` has a stack of emissions,
as a handler may emit again (`process.exit`), and lets the program add and remove handlers at
any step. If a handler is deleted while its event is emitted, the emission may skip a handler
or find an empty place and end the process with an error; the record notes the deletion, and
the properties say that nothing else disturbs an emission. The table `signals` has a handle for
each signal of `watched` and `failed`: `process.on` does not look at the result of `sig:start`,
which fails for SIGKILL and SIGSTOP, so that a handle of `failed` watches nothing, and stays there
until `process.off` without a callback.

`ChildExits`, `OnExit` and `ExitHandled` are the exit of a child, the start of its onexit and
the end of it, with the spawn that `forever` asks for. The system may give the new child any
free pid, its old one too. A pid that has been reaped is taken to be free only after its onexit.

`TcpServer` adds the connections. Accepting one is an action up to where the program's
onconnect waits, closing it (`CloseSocket`) is one up to the yield: the last connection of a
server that quits waits for the close of the server (`last`), which takes an iteration of the
loop, and exits then; it exits at once if the program had closed the server. The field `quit`
is set by the program: the method of that name is hidden by the field and cannot be called.
`Next` is a step of the process or of the server, and callbacks run only when none runs
(`InLoop`).

### HttpHeaders

A message is a sequence of classes of bytes (token, colon, space, line feed, ...), and what is
stored are stretches of it, so that a header is right when its stretch is. The program reads a
chunk and calls `parse_headers` (`ReadAndParse`), or calls it again for what is there
(`ParseMore`). A call is a beginning, the turns of the parser's loop, one action per state of
its switch (`LineBegins`, `InField`, ...), and an end: a return inside the loop (`Succeed`,
`Fail`) or one behind it (`Waits`, `GivesUp`, `Empties`, `MovesHeader`), with all it does to
the buffer, the parser and the table. Nothing else happens while `answer` is "parsing". `found`
is what the call has in its array; `HeaderAt`, `Stored` and `Number` are the reference, the
headers of the message read as a whole. Only well-formed messages occur, as the properties are
about chunks.

A chunk that ends inside a value makes the parser skip the byte behind it, which is harmless
unless that is the line feed itself. The history variable `skipped` says that this has happened,
and the properties promise nothing from then on. That it does happen shows when `~skipped` is
added to the invariants of the run.

### Hash and Dns

`Hash` has a list of items in each slot; which keys share a slot is a parameter. `Dns` has, for
each query, the server it was sent to and whether it uses TCP; for each server two `Ports`, UDP
and TCP, with the descriptor of the socket (`sock`); and for each descriptor the poll handle.
`Query`, `Answer`, `Truncated` (the query is sent again over TCP), `TimesOut` and `ServerFails` are
calls into c-ares with the socket callbacks they make, and a resumed coroutine may ask again
before c-ares closes what is left (`End`). A query whose send fails, or whose server failed, is
moved on in the same call, and this may fail again or end the query: it is in `resend`, `MoveOn`
takes such queries one after the other, each to a server of its own, and the loop does nothing else
meanwhile (`InLoop`). `PollClosed` is the close callback of a handle, which comes later. c-ares is
vendored: these operators are mapped to its lines (`deps/cares/src`). Which server comes
next, with the skipped and the broken ones, is any server, and skipped ones use up tries.

When c-ares opens a socket with a descriptor whose handle is still closing, the code finds the
old task and starts its handle, which libuv forbids. The model reaches this state and stops
there (`undefined`); the properties speak of all others.

### Files

`task` is the request each coroutine waits for: the call it is a step of, the descriptor, and,
once a thread of the pool has done it, its outcome. Three kinds of actions take turns. A call
queues a request (`New`, `Move`, `Close`, `FileCall`); the pool does any queued request and sets
`done` (`DoOpen`, `DoMove`, ..., in libuv's `uv__fs_work`): `open` gives any free descriptor, a
read moves any part, a write all its data unless `Allow` has short writes, every request but
`close` may fail and leave things as they were, and `close` frees the descriptor also when it
reports an error; and `luaio_fs_callback` resumes the coroutine, which runs to its next request or
the end of its call (`OnNew`, `OnMoved`, `ReadFileStat`, ...). `table` says what each descriptor
is open for and `left` which ones calls have left open. `_read`, `write` and both `close` are one
action each for both kinds of stream, where `Writers` tells them apart; `writeFile` stands for
`appendFile` too, which differs in a flag. Where a request cannot be allocated, the call goes on
without it: a file that cannot be closed stays open, `readFile` without its `fstat` compares nil
with 0 and raises. `Move` for a reader has room in the buffer, which `Readable` provides
(`RoomToRead`).

`Allow` is empty in the run `files`: a stream is used by one coroutine at a time, the system
writes what it is given, and offsets fit into an int. `ShortWrites` and `LargeOffsets` have a
configuration each beside the runs, where `InPlace` fails. With `Overlaps` the library lets a
second coroutine close a stream that is being closed or read, the descriptor is closed twice or
used after its close, and by then it may be another file's: `OwnFile` does not hold. No line of
the repository says that it should, so no run shows this.

## What the runs check

| run | checks | bounds |
|---|---|---|
| `sockets` | `TypeOK`, `TimersOwned`, `PoolCounted`, `OneResumer`, `DeadlineStays` | 2 coroutines, 2 sockets, 2 timers, 2 requests, at most one free timer, writes of one byte |
| `socket` | `TimedCallReturns`, `CloseReturns`, `KeepsPromise`, `WritesInOrder`, `TimersOwned`, `ClosedIsQuiet` | 2 coroutines, 1 socket, 1 timer, 2 requests, no free timers, writes of two bytes, every call |
| `readable` | `Contents`, `RoomToRead`, `WholeLine`, `ExceedsMeansFull`, `ReadsStream` | a buffer of 4 bytes, a text of 13, counts 1 to 6, widths 1, 2 and 4 |
| `parallel` | `OwnResults`, `ReturnsWithAll`, `SomeoneResumes`, `LimitKept`, `NoStrayResume`, `CallReturns` | 2 callers, 3 functions each, limits 1 to 3 |
| `process` | `SetsConsistent`, `EmitsToAll`, `DiesOfDeletion`, `HandledSignalsWatched` | 2 handlers, which are symmetric, 1 signal and `exit`, 1 fork with forever, 1 pid |
| `server` | `ChildrenKept`, `ConnectionsCounted`, `ExitIsClean`, `QuitExits` | 3 connections, room for 2, 1 handler of `exit`, 1 fork with forever, 2 pids |
| `headers` | `ParsedAsWhole`, `BodyKept`, `AcceptsWhatFits` | 175 messages of 2, 3 or 4 header lines of 5 kinds, a buffer of 14, a request line of 5 or none before them, 2 headers per call, at most 3 |
| `dns` | `TasksFound`, `QueriesWatched`, `TimerStops`, `QueryEnds` | 3 queries, 2 servers with a UDP and a TCP socket each, 3 descriptors in 2 slots, 2 tries |
| `files` | `OwnFile`, `InPlace`, `DescriptorsAccounted` | 2 coroutines, 1 stream that reads and 1 that writes, 2 descriptors, lengths 1 and 2, 3 bytes per stream, offsets none and 2, ints below 4 |
| `close_during_read` | violates `TimedCallReturns` | as `socket`, with close under a reader |
| `read_timer` | violates `PoolCounted` | as `socket`, with close after a timed read |
| `written_bytes` | violates `BytesAreWritten` | as `socket` |

Why the bounds are enough. Two sockets share the pool, so that a timer can go from one to the
other; two timers and a limit of one make a free go both ways (kept, closed). Two requests are a
write that timed out and the next one behind it. Two bytes are the least that can be sent in part,
in `socket`; in `sockets` one byte is enough, as sending or not is all that its properties see.
`sockets` has reads, writes and connects with timeouts, close among them; the timers of
asynchronous writes, and shutdown, are in `socket`, which has every call, one timer and no free
ones. A third coroutine adds no interaction, since a socket points to one reader and a request to
one writer. When timers or requests run out, the call waits in the model, where the code would
report `UV_ENOMEM`: the failing paths have actions of their own (`ReadFails`, `WriteFails`, ...).
The text has an empty line, both line ends, a lone carriage return and a line longer than the
buffer; with a capacity of 4 every position of a line end relative to both ends of the memory
occurs.

Two callers overlap and nest in every way a third could add to: it would disturb them or not, as
the second does. Three functions make two rounds with a limit of 2 and three with 1. Two handlers
are the least for which a deletion moves one, three connections the least that fill a server with
room for two and leave one to be refused; the second pid lets a child restart under its old pid or
another one. The shortest messages fit into the buffer of 14 and the longest do not, four lines
are one too many; with the request line before them or not, the buffer fills up inside a name, a
value and a line's end. Three descriptors for two servers allow a failed socket to be replaced
while its handle closes and a TCP socket beside the UDP ones, and run out, so that a socket cannot
be opened; two slots for three keys make two of them collide, and two tries are a timeout with a
retry and one without. Two descriptors for two streams and two coroutines with files of their own
make a closed descriptor come back for another file, and run out; three bytes in lengths of one
and two are a short read, or write, with a call after it, and from an offset of 2 they pass the
largest int, which is 3.

The runs of sockets, streams and files may not deadlock, as no coroutine is ever out of calls to
make, so deadlock is checked there. In the other runs everything there is to do may be done:
the calls have returned, the process has exited, the message is parsed, the queries are
answered; they do not check it, and `SomeoneResumes`, `CallReturns`, `QuitExits` and `QueryEnds`
say that nobody waits for ever.

Fairness (`FairSpec`). libuv runs every timer that is due and the callbacks of a handle that
is closing; that is weak fairness of each timer, of the request callbacks of a closing socket
and of its `OnClose`. Nothing is assumed of the peer or the kernel: data, the end of a
connect and of a write may never come, and no coroutine must ever make another call. So
`TimedCallReturns` rests on timers and closing alone, and `CloseReturns` on closing alone.
In `Parallel` the loop of a running caller goes on, and a suspended function ends, which is
what its program promises. In `TcpServer` a callback that runs ends, the loop handles the
close of the server (strongly fair, since it has to wait for callbacks that end again and
again), and the program's onconnect returns: without this a server rightly waits for its last
connection. In `Dns` the timer fires as long as it runs, closing handles get their
callback, and a call of c-ares runs on to its end (`MoveOn`); name servers need not answer at all.

What was found:

- *A reader whose socket is closed under it never returns* (`close_during_read`), in spite of
  its timeout: close takes `current_thread`, onclose frees the timer and resumes the closer.
  The README of LuaIO says that the read returns an error when the socket times out.
- *Closing after a read with a timeout frees its timer twice* (`read_timer`): no one resets
  `socket->timer`. The timer block comes to be twice in the free list, or free while another
  call uses it, or is closed while it is in the list, and every property about timers falls with it.
- *A write that fails or times out reports 0 bytes* (`written_bytes`), whatever was sent,
  where the comment promises the written bytes.

Found on the way and stated in the models rather than by a run of the project:

- *A short write of a file is reported as a whole one* (`src/luaio_fs.c:182`, `Reported`): the
  callback pushes the length of the data, not the result, where `lib/fs.lua:105` promises the
  written bytes. A stream with an offset then leaves a gap (`lost` in `Stream`);
  `tlc -config MCFilesShortWrite.cfg MCFiles` shows how `InPlace` fails.
- *Offsets are ints* (`src/luaio_fs.c:324` and `362`, `AsInt`), where `lib/fs.lua:104` says
  integer: from 2 GB on a stream with an offset reads or writes somewhere else;
  `tlc -config MCFilesLargeOffset.cfg MCFiles` shows it.
- *A line feed at the start of a chunk is skipped* (`src/luaio_http_parser.c:1186`, `InValue` and
  `Waits`): the parser stops one byte behind what it has when that ends inside a value,
  the first byte of the next chunk is not looked at, and the line goes on into the next one:
  two headers become one value, or the message is never complete.
- *`fs.truncate` always raises once its file is open* (`lib/fs.lua:347`, `TruncateEnds`), for
  `fs.native` where `fs_native` is meant, and leaves the file open.

And where no line of the repository promises otherwise: a call of `parallel` that disturbs another
one, or a function of it that raises in its first step, or later under a nested call, leaves
callers waiting for ever (`disturbed`, `Raise`, `RaiseLate`); a handler of a signal whose handle
did not start is never called, and nobody is told (`failed`); deleting a handler while its event
is emitted can end the process; a server told to quit when it serves nobody never ends it
(`QuitExits` says what it does); a refused connection is left open, neither served nor closed
(`Accept`); a poll handle is started while it closes (`undefined`); `writeFile` and `appendFile`
never close their file (`WriteFileEnds`).

The types of `TcpSocket` are checked in a run too; those of the other modules with theorems are
proved only, as no run could add to that.

Each property of a passing run has a mutant in `PROJECT.json`: a plausible slip in a
definition (`AfterWriteResumesAgain`: the callback forgets `timed_out`) that breaks it.

## What is proved

All for any number of coroutines, sockets, timers and requests, any sizes, capacities and texts.
The assumptions are those of the constants (`SocketAssumption`, `BufferAssumption`,
`ReadableAssumption`, `ParallelAssumption`, `ProcessAssumption`, `TcpServerAssumption`,
`HttpHeadersAssumption`, `HashAssumption`, `DnsAssumption`, `FilesAssumption`): distinct
identities, sizes and limits above zero, a finite number of connections and descriptors, no fixed
size read wider than the buffer, and well-formed messages.

`TcpSocket_proofs`: `TypeCorrect`, whatever the program does. `free_timers` never goes below
zero, because a timer leaves the pool only when it was in it and the count is at least the
number of pooled timers (`Typed` has that inequality beside the types; it survives the double
free, where the equality `PoolCounted` does not). Also whatever the program does:
`WritesOrdered` rests on `Queues`, the part of `Typed` that says that a write stands in one
queue, of its own socket, and once there. A write that joins a queue with bytes sent found it
drained, the kernel takes of the first that has bytes left, and what leaves is the head.

`TcpCalls_proofs`, under `CarefulClose` (neither of the two bad uses of close is in `Allow`):
`TimersNeverMixedUp`, `PoolIsCounted`, `ExactlyOneResumer`, `ClosedSocketsQuiet`,
`DeadlinesStay`, and `CallsKeepPromise`, that `TcpSocket` implements `AsyncCall`. The invariant is

    Inv == Typed /\ Timed /\ Phases /\ Resuming

None of its parts is inductive alone. `Timed` says that a timer points to exactly what points to
it: without it a timeout could stop another call's read. `Phases` says in which phases a socket
has which requests: that a timed out connect belongs to a closing socket is what makes the late
onconnect harmless, and a connecting socket has one connect request. `Resuming` says what each
coroutine is suspended in from the side of requests and sockets; `OneResumer` and, step by step,
the refinement follow from it. Each action has one step for each part it can disturb.
`DeadlinesStay` is the safety half of `TimedCallReturns`: as long as a coroutine stays in its
call, its timer stays its own. Each action is shown to leave alone every read, and every request
with a timer, whose coroutine does not leave its call in that step (`ReadersUntouched`,
`RequestsUntouched`); `Timed` after the step then says that the timer still points there.

`Readable_proofs`: the types, all five properties of the run `readable`, and two more that
`ReadsStream` implies (`NextBytes`: the bytes are the next ones, `ExactCount`: as many as asked
for, over any number of chunks). The lemmas under them are about
the buffer: whatever the buffer answers, it still `Holds` the stream from the next
byte on (what lies between the positions is right, and the positions are reset when nothing
does), the bytes are the next ones, and with `EAGAIN` it has room. That the positions are reset
is what the proof of `RoomToRead` needs: without it a buffer read to its end would be
full and empty. The invariant adds the progress of a call that waits: a discard has taken what
it no longer has to discard, every other call has taken nothing yet. For the refinement,
`ReadsLikeStream`, this is enough: each kind of call has a lemma that what the buffer answers, also
that it has to wait, is the reply of `ByteStream`, whatever the positions in the buffer and the
moves before were; a chunk is then a step `Arrive`.

`Parallel_proofs`: the types and all five invariants of the run. The invariant says who collects
(`Collects`: a function's results go to its own call, or both calls are disturbed, and only the
call that assigned `collect` last has functions to start undisturbed), that the stack is the
running callers (`Stacked`), and what the counts of an undisturbed call mean (`Counts`): its
suspended functions are `running - completed`, and fewer only if one raised. From this equation it
follows that the last one to end resumes the caller, and it is why a call with a function that
raised may wait for ever.

`TcpServer_proofs`: first the four properties of the run `process`. `InOrder` says that without a
deletion the array an emission walks through begins with what it found, as additions go to the end
and `clear` leaves the array alone; `Consistent` is inductive for `Add` and `Delete` by itself.
That handled signals are watched is inductive too: it holds of `signals`, the union of what runs
and what failed to start. `ChildInv` is about children: an entry of `pids` for each pid that is
not free, no fork twice, and one for every fork with `forever` that was not dropped. The types and
the properties of a server use both under its steps: with an exit or a connection that waits for
one, the count is 0 and the server is closed, so that no new connection comes; and while the
process exits nothing else happens in the loop, because the exit is still being emitted. This last
part is what `CountIsRight` needs.

`HttpHeaders_proofs`: the three properties of the run `headers`, for every set of well-formed
messages, every chunk and every size. The invariant is about where the parser stands:

    IInv == message \in Messages /\ skipped \in BOOLEAN
            /\ (~skipped => BufferOK /\ TypeOK /\ GoesOn /\ Stopped)

`GoesOn` says that there is a line of the message in which the parser is (`AtLine`): between
lines, inside the name, before the value or inside it, with `field`, `len` and `value` at the
places of that line, as offsets into a buffer that has moved under them; and that `headers` and
`found` together are the headers of exactly the lines before it (`HeadersBefore`). This is what
a call needs to know of the calls before it, and `ParsedAsWhole` alone says nothing of a
half-parsed line. Each turn stays in the line or ends it; `MovesHeader` keeps the
line and moves all pointers by the same distance, which is why the value pointer has to move
exactly if the parser has one (`index = 3`). `BodyIsKept` follows as the line in which the parser ends is
the empty one, and `FittingAccepted` since a full buffer whose unread part starts at
its start would hold all lines. A byte skipped inside a value is a step of this invariant like any
other; it is the line feed for which there is none.

`Dns_proofs`: the three invariants of the run and the types. The invariant is that the table, the
handles and the timer belong together (`Kept`: every item in its slot, once), that open sockets
have distinct polled descriptors (`Polled`), and that every waiting query that is not in `resend`
has a socket, of its server and transport, as long as no closing handle was started. The last part
needs the order in the code: the sockets of a server close in the step that puts its queries into
`resend`, and all sockets close only when no query waits, also none that a resumed coroutine has
just asked.

`Files_proofs`: `TypeCorrect` whatever the program does, from `Typed`, which adds to the types
that a request moves no more than it reports, so that no count goes below zero. `RequestsOwnFile`
and `NoneLostUnseen` under `OneAtATime` (no overlaps), from

    IInv == Typed /\ Streaming /\ Tabled /\ Placed

`Streaming` says that a stream has one call at a time, which has its descriptor, and that its
offset follows its bytes; `Tabled`, that the table has every known descriptor for the one who
knows it, and every other open one is in `left`; `Placed`, where the position of a file is while a
request moves it on and the callback has not counted it yet. `OwnFile` is not inductive: that the
descriptor of a waiting request stays its own needs `Tabled`, and this needs that nobody else is
in a call that closes it. `BytesInPlace` is under `Plain`, without short writes and large offsets
either, and needs `Whole` beside this: every call is reported as what was moved, so that nothing
is lost, and its offset was below 2^31 when it began and survived the conversion to an int
(`SmallOffset`).

Only model-checked: liveness under fairness (`TimedCallReturns`, `CloseReturns`, `CallReturns`,
`QuitExits`, `QueryEnds`), which is out of the prover's reach. Neither proved nor checked: what
`CarefulClose`, `OneAtATime` and `Plain` exclude, beyond the runs that show it, and what the
header parser does after a line feed was skipped.

## What is not modelled

`PROJECT.json` gives the reason for every component without a module, and the hazards no
property covers. In the components that have one:

- *Sockets*: bind and listen; the registry reference to the data of a write, which a write that
  times out releases twice; the failing allocation in onalloc; two readers of one socket; the
  name resolution inside connect, during which nothing of the socket exists but a handle;
  addresses and options.
- *Server*: a connection closed by two coroutines at once, which would be counted twice; an
  error in the program's onconnect; the registry reference of a connection's thread.
- *Parallel*: a call without functions or with a limit of 0, whose loop never ends.
- *Processes*: exec, kill, abort; a fork in an onexit that gets the pid just reaped, whose
  entry the rest of `_onexit` would clear.
- *Name resolution*: a task that cannot be allocated; a query that c-ares ends inside
  `ares_query`, before the coroutine has yielded, and so a first send that fails; memory that c-ares
  does not get for a TCP request.
- *Hash table*: the rehash, string keys and ages, which name resolution does not reach.
- *HTTP*: the request line, the status line and URLs; the limit on the size of all headers;
  the table of cookies, whose first index is 0; malformed messages.
- *Files*: the operations that are one request and keep nothing (access, stat, rename, links,
  directories, modes and times), sendfile, and mkdirp, which is a sequence of them; a stream
  over a descriptor that the program gives; what is in a file.

The memory pool and the write buffer have no module: their calls are sequential, and what they
keep is positions and free lists that no other step sees half changed. Dates, strings, paths and
encodings are functions over text.

The larger part of the repository by lines is not LuaIO: libuv, Lua, c-ares, OpenSSL and zlib
under `deps`, the build tool GYP under `tools/gyp` and the profiler scripts under `valgrind`,
which are in Python. The latter run at build time or not at all, and keep no state of
the program; nothing of them is modelled. Of libuv and c-ares the models have the parts that the code
of `lib` and `src` rests on (the write queue and the pool of the one, the queries and sockets of the
other), and no module of their own.
