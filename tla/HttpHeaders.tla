----------------------------- MODULE HttpHeaders -----------------------------
(***************************************************************************)
(* Parsing the header lines of an HTTP message (http_parse_headers of      *)
(* src/src/luaio_http_parser.c and parse_headers of src/src/luaio_http.c): *)
(* the program reads a chunk into its read buffer and calls the parser,    *)
(* until it answers something else than HTTP_AGAIN.  The parser goes on    *)
(* where it stopped, with pointers into the buffer to the field and the    *)
(* value that are not complete yet; when the buffer is full it moves them  *)
(* to the start.                                                           *)
(*                                                                         *)
(* A message is a sequence of classes of bytes, well-formed.  The buffer   *)
(* holds a stretch of it, the byte at offset 0 being number origin + 1, so *)
(* that pointers are offsets.  A call is a beginning, the turns of its     *)
(* loop and an end, and nothing else happens while it is parsing.  Cookies *)
(* are stored like other headers, and the limit on the size of all headers *)
(* is left out.                                                            *)
(***************************************************************************)
EXTENDS Integers, Sequences, FiniteSets

CONSTANTS
  Messages,     \* header lines, the empty line and what follows
  Capacity,     \* size of the read buffer
  RequestLine,  \* length of the line before the headers, when it is still in the buffer
  MaxHeaders,   \* HTTP_MAX_HEADERS
  MaxPerRead    \* HTTP_MAX_HEADERS_PER_READ

-----------------------------------------------------------------------------
(* Messages.  A line is known by its line feed. *)

Classes == {"token", "colon", "space", "cr", "lf"}

Least(S) == CHOOSE x \in S : \A y \in S : x <= y
Greatest(S) == CHOOSE x \in S : \A y \in S : x >= y

Feeds(m) == {i \in 1 .. Len(m) : m[i] = "lf"}
LineStart(m, f) == Greatest({0} \cup {g \in Feeds(m) : g < f}) + 1

\* The empty line, and the lines before it.
Empty(m, f) == LineStart(m, f) = f \/ (LineStart(m, f) = f - 1 /\ m[f - 1] = "cr")
HeaderEnd(m) == Least({f \in Feeds(m) : Empty(m, f)})
HeaderLines(m) == {f \in Feeds(m) : f < HeaderEnd(m)}

\* The name before the colon, and the value without the spaces around it and a "\r".
Colon(m, f) == Least({i \in LineStart(m, f) .. f : m[i] = "colon"})
Ink(m, f) ==
  {i \in Colon(m, f) + 1 .. f - 1 : m[i] # "space" /\ ~(i = f - 1 /\ m[i] = "cr")}
HeaderAt(m, f) ==
  [field |-> <<LineStart(m, f), Colon(m, f) - 1>>,
   value |-> <<Least(Ink(m, f)), Greatest(Ink(m, f))>>]

\* A name of tokens, a colon, and a value that does not begin with a "\r".
WellFormedLine(m, f) ==
  \E c \in LineStart(m, f) + 1 .. f - 1 :
    /\ m[c] = "colon"
    /\ \A i \in LineStart(m, f) .. c - 1 : m[i] = "token"
    /\ \A i \in c + 1 .. f - 2 : m[i] = "cr" => \E j \in c + 1 .. i - 1 : m[j] # "space"

WellFormed(m) ==
  /\ m \in Seq(Classes)
  /\ \E f \in Feeds(m) : Empty(m, f)
  /\ \A f \in HeaderLines(m) : WellFormedLine(m, f)

ASSUME HttpHeadersAssumption ==
  /\ \A m \in Messages : WellFormed(m)
  /\ Capacity \in Nat \ {0} /\ RequestLine \in Nat
  /\ MaxHeaders \in Nat /\ MaxPerRead \in Nat \ {0}

-----------------------------------------------------------------------------

VARIABLES
  message,
  origin,
  read_pos, write_pos,
  parser,       \* http_parser_t, and its state while it is parsing
  p,            \* where the loop is
  found, count, \* what this call has found: the headers with a value, the number of all
  headers,      \* the headers stored in the Lua table, as stretches of the message
  answer,       \* of parse_headers, or "parsing"
  skipped       \* history: a line feed was not looked at

vars == <<message, origin, read_pos, write_pos, parser, p, found, count, headers, answer, skipped>>

Null == -1

States == {"start", "header_field", "space_before_value", "header_value",
           "header_almost_done", "headers_almost_done"}

NewParser ==
  [state |-> "start", last_pos |-> Null, index |-> 0,
   field |-> Null, len |-> 0, value |-> Null, nheader |-> 0]

\* The request line took all that had been read, or the first bytes of the headers are
\* behind it.
Init ==
  /\ message \in Messages
  /\ parser = NewParser
  /\ headers = <<>>
  /\ p = 0 /\ found = <<>> /\ count = 0
  /\ skipped = FALSE
  /\ \/ /\ origin = 0 /\ read_pos = 0 /\ write_pos = 0
        /\ answer = "again"
     \/ /\ origin = -RequestLine /\ read_pos = RequestLine
        /\ write_pos \in RequestLine + 1 .. Capacity
        /\ write_pos - RequestLine <= Len(message)
        /\ answer = "done"

\* The byte at an offset of the buffer, and how many bytes have been received.
At(i) == message[origin + i + 1]
Received == origin + write_pos

-----------------------------------------------------------------------------
(* parse_headers begins. *)

Begin ==
  /\ answer' = "parsing"
  /\ p' = IF parser.last_pos = Null THEN read_pos ELSE parser.last_pos
  /\ UNCHANGED <<message, origin, read_pos, parser, found, count, headers, skipped>>

\* The program reads k bytes behind those in the buffer and calls parse_headers.
ReadAndParse(k) ==
  /\ answer = "again"
  /\ write_pos + k <= Capacity
  /\ Received + k <= Len(message)
  /\ write_pos' = write_pos + k
  /\ Begin

\* After HTTP_DONE it calls parse_headers again for what is there.
ParseMore ==
  /\ answer = "done"
  /\ UNCHANGED write_pos
  /\ Begin

-----------------------------------------------------------------------------
(* Turns of the loop, and the returns inside it. *)

\* The locals of the call are gone.
Return(ret) ==
  /\ answer' = ret
  /\ p' = 0 /\ found' = <<>> /\ count' = 0
  /\ UNCHANGED message

\* HTTP_BAD_REQUEST at offset i: what this call has found is not stored.
Fail(q, i) ==
  /\ Return("bad")
  /\ parser' = [q EXCEPT !.last_pos = i + 1]
  /\ UNCHANGED <<origin, read_pos, write_pos, headers, skipped>>

\* Mutant: the buffer is emptied with the headers.
TakesRest(i) == TRUE

\* Every byte in the buffer has been parsed: it is emptied.
Consumed(i) == i + 1 = write_pos

\* HTTP_OK or HTTP_DONE at offset i: the headers are stored, the next call begins behind.
Succeed(ret, q, i, stored) ==
  /\ Return(ret)
  /\ headers' = headers \o stored
  /\ parser' = [q EXCEPT !.last_pos = Null]
  /\ read_pos' = IF Consumed(i) THEN 0 ELSE i + 1
  /\ write_pos' = IF Consumed(i) THEN 0 ELSE write_pos
  /\ origin' = IF Consumed(i) THEN origin + write_pos ELSE origin
  /\ UNCHANGED skipped

\* The loop goes on at offset i.
GoOn(q, i) ==
  /\ parser' = q
  /\ p' = i
  /\ UNCHANGED <<message, origin, read_pos, write_pos, found, count, headers, answer, skipped>>

\* A header ends at offset i, with the name from the field on and n bytes of value.
Header(n) ==
  [field |-> <<origin + parser.field + 1, origin + parser.field + parser.len>>,
   value |-> <<origin + parser.value + 1, origin + parser.value + n>>]
EndHeader(i, n) ==
  LET q == [parser EXCEPT !.state = "start", !.index = 0, !.nheader = @ + 1]
      all == IF n = 0 THEN found ELSE Append(found, Header(n))
  IN IF q.nheader > MaxHeaders THEN Fail(q, i)
     ELSE IF count + 1 >= MaxPerRead THEN Succeed("done", q, i, all)
     ELSE /\ parser' = q
          /\ p' = i + 1
          /\ found' = all
          /\ count' = count + 1
          /\ UNCHANGED <<message, origin, read_pos, write_pos, headers, answer, skipped>>

Turn(state) == answer = "parsing" /\ parser.state = state /\ p < write_pos

LineBegins ==
  /\ Turn("start")
  /\ CASE At(p) = "cr" -> GoOn([parser EXCEPT !.state = "headers_almost_done"], p + 1)
       [] At(p) = "lf" -> Succeed("ok", parser, p, found)
       [] At(p) = "token" ->
            GoOn([parser EXCEPT !.field = p, !.index = @ + 1, !.state = "header_field"], p + 1)
       [] OTHER -> Fail(parser, p)

InField ==
  /\ Turn("header_field")
  /\ CASE At(p) = "colon" ->
            GoOn([parser EXCEPT !.len = p - parser.field, !.index = @ + 1,
                                !.state = "space_before_value"], p + 1)
       [] At(p) = "token" -> GoOn(parser, p + 1)
       [] OTHER -> Fail(parser, p)

BeforeValue ==
  /\ Turn("space_before_value")
  /\ CASE At(p) = "space" -> GoOn(parser, p + 1)
       [] At(p) = "cr" -> GoOn([parser EXCEPT !.state = "header_almost_done"], p + 1)
       [] At(p) = "lf" -> EndHeader(p, 0)
       [] OTHER ->
            GoOn([parser EXCEPT !.value = p, !.index = @ + 1, !.state = "header_value"], p + 1)

\* The line feeds that memchr may find, and the value that ends before the one at offset
\* i, without a "\r" and spaces at its end.
FeedsFrom(i) == {j \in i .. write_pos - 1 : At(j) = "lf"}
ValueLength(i) ==
  LET end == IF At(i - 1) = "cr" THEN i - 1 ELSE i
      last == Greatest({parser.value} \cup {j \in parser.value .. end - 1 : At(j) # "space"})
  IN last - parser.value + 1

\* Without a line feed p is set to last, and advanced once more.
InValue ==
  /\ Turn("header_value")
  /\ IF FeedsFrom(p) = {} THEN GoOn(parser, write_pos + 1)
     ELSE EndHeader(Least(FeedsFrom(p)), ValueLength(Least(FeedsFrom(p))))

AlmostDone ==
  /\ Turn("header_almost_done")
  /\ IF At(p) = "lf" THEN EndHeader(p, 0) ELSE Fail(parser, p)

AllAlmostDone ==
  /\ Turn("headers_almost_done")
  /\ IF At(p) = "lf" THEN Succeed("ok", [parser EXCEPT !.state = "start"], p, found)
     ELSE Fail(parser, p)

-----------------------------------------------------------------------------
(* HTTP_AGAIN: what is there has been parsed. *)

Again(ret, q) ==
  /\ answer = "parsing" /\ p >= write_pos
  /\ Return(ret)
  /\ headers' = headers \o found
  /\ parser' = q

\* The buffer has room: the next call goes on at p, which may be one byte too far.
Waits ==
  /\ write_pos < Capacity
  /\ Again("again", [parser EXCEPT !.last_pos = p])
  /\ skipped' = (skipped \/ (p > write_pos /\ Received < Len(message) /\ message[Received + 1] = "lf"))
  /\ UNCHANGED <<origin, read_pos, write_pos>>

\* Mutant: a full buffer is rejected wherever its unread part starts.
AlwaysRejects == read_pos >= 0

\* A full buffer is rejected if its unread part starts at its start, even if most of that
\* has been parsed.
Rejects == read_pos = 0

GivesUp ==
  /\ write_pos = Capacity /\ Rejects
  /\ Again("bad", [parser EXCEPT !.last_pos = p])
  /\ UNCHANGED <<origin, read_pos, write_pos, skipped>>

\* Between headers the whole buffer is given up.
Empties ==
  /\ write_pos = Capacity /\ ~Rejects /\ parser.index = 0
  /\ Again("again", [parser EXCEPT !.last_pos = Null])
  /\ read_pos' = 0 /\ write_pos' = 0
  /\ origin' = Received
  /\ UNCHANGED skipped

\* Mutant: the pointer to the value is not moved with the bytes.
MovesFieldOnly(q) == [q EXCEPT !.last_pos = write_pos - q.field, !.field = 0]

\* The parser's pointers after the bytes from the field on have moved to the start.
MovedToStart(q) ==
  [q EXCEPT !.last_pos = write_pos - q.field, !.field = 0,
            !.value = IF q.index = 3 THEN @ - q.field ELSE @]

\* Inside a header the bytes from its field on are moved to the start.
MovesHeader ==
  /\ write_pos = Capacity /\ ~Rejects /\ parser.index # 0
  /\ Again("again", MovedToStart(parser))
  /\ read_pos' = 0
  /\ write_pos' = write_pos - parser.field
  /\ origin' = origin + parser.field
  /\ UNCHANGED skipped

Next ==
  \/ \E k \in 1 .. Capacity : ReadAndParse(k)
  \/ ParseMore
  \/ LineBegins \/ InField \/ BeforeValue \/ InValue \/ AlmostDone \/ AllAlmostDone
  \/ Waits \/ GivesUp \/ Empties \/ MovesHeader

Spec == Init /\ [][Next]_vars

-----------------------------------------------------------------------------

\* The headers that are stored, in their order: those that have a value.
Stored(m) == {f \in HeaderLines(m) : Ink(m, f) # {}}
Number(m, f) == Cardinality({g \in Stored(m) : g <= f})

\* Whatever the chunks, the table gets the headers of the message with their whole names
\* and values, in order, and all of them before HTTP_OK, as long as no line feed of a
\* value comes first in a chunk (luaio_http_parser.c:1060-1235, luaio_http.c:312-387).
ParsedAsWhole ==
  ~skipped =>
    /\ Len(headers) <= Cardinality(Stored(message))
    /\ \A f \in Stored(message) :
         Number(message, f) <= Len(headers) =>
           headers[Number(message, f)] = HeaderAt(message, f)
    /\ answer = "ok" => Len(headers) = Cardinality(Stored(message))

\* What follows the empty line stays unread in the buffer when the headers are done, so
\* that the body is not lost (luaio_http.c:339-347).
BodyKept == ~skipped /\ answer = "ok" => origin + read_pos = HeaderEnd(message)

\* Header lines that fit into the buffer together and are not too many are not rejected,
\* however they arrive and wherever in the buffer they start (luaio_http.c:348-387).
AcceptsWhatFits ==
  /\ ~skipped
  /\ HeaderEnd(message) <= Capacity
  /\ Cardinality(HeaderLines(message)) <= MaxHeaders
  => answer # "bad"

=============================================================================
