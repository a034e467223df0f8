-------------------------- MODULE HttpHeaders_proofs --------------------------
(***************************************************************************)
(* For every well-formed message, every division of it into chunks and     *)
(* every size of the buffer: the table gets the headers of the message,    *)
(* the body is kept, and header lines that fit are not rejected, as long   *)
(* as no line feed has been skipped.                                       *)
(***************************************************************************)
EXTENDS HttpHeaders, FiniteSetTheorems, SequenceTheorems, TLAPS

-----------------------------------------------------------------------------
(* The least and the greatest number of a set. *)

\* The least element of a set is the one that is below all others.
LEMMA LeastIs ==
  ASSUME NEW S, S \subseteq Int, NEW x \in S, \A y \in S : x <= y
  PROVE  Least(S) = x
<1>1. Least(S) \in S /\ \A y \in S : Least(S) <= y
  BY DEF Least
<1>2. Least(S) <= x /\ x <= Least(S)
  BY <1>1
<1>3. x \in Int /\ Least(S) \in Int
  BY <1>1
<1>4. QED
  BY <1>2, <1>3

\* The greatest element of a set is the one that is above all others.
LEMMA GreatestIs ==
  ASSUME NEW S, S \subseteq Int, NEW x \in S, \A y \in S : x >= y
  PROVE  Greatest(S) = x
<1>1. Greatest(S) \in S /\ \A y \in S : Greatest(S) >= y
  BY DEF Greatest
<1>2. Greatest(S) <= x /\ x <= Greatest(S)
  BY <1>1
<1>3. x \in Int /\ Greatest(S) \in Int
  BY <1>1
<1>4. QED
  BY <1>2, <1>3

\* A nonempty set of naturals has a least element.
LEMMA LeastElement ==
  ASSUME NEW S, S \subseteq Nat, S # {}
  PROVE  Least(S) \in S /\ \A y \in S : Least(S) <= y
<1> DEFINE Below == {0 .. x : x \in S}
<1>1. Below \subseteq FiniteSubsetsOf(Nat)
  <2>1. \A x \in S : 0 .. x \in SUBSET Nat /\ IsFiniteSet(0 .. x)
    BY FS_Interval
  <2>2. QED
    BY <2>1 DEF FiniteSubsetsOf
<1>2. PICK b \in Below : \A u \in Below : ~ (<<u, b>> \in StrictSubsetOrdering(Nat))
  <2>1. Below # {}
    OBVIOUS
  <2>2. QED
    BY <1>1, <2>1, FS_StrictSubsetOrderingWellFounded, WFMin
<1>3. PICK x \in S : b = 0 .. x
  OBVIOUS
<1>4. ASSUME NEW y \in S, y < x
      PROVE  FALSE
  <2>1. 0 .. y \subseteq 0 .. x /\ 0 .. y # 0 .. x
    BY <1>4
  <2>2. <<0 .. y, b>> \in StrictSubsetOrdering(Nat)
    BY <2>1, <1>3, <1>4 DEF StrictSubsetOrdering
  <2>3. QED
    BY <2>2, <1>2
<1>5. \A y \in S : x <= y
  BY <1>4
<1>6. S \subseteq Int
  OBVIOUS
<1>7. QED
  BY <1>5, <1>6, LeastIs

\* A nonempty set of naturals that has an upper bound has a greatest element.
LEMMA GreatestElement ==
  ASSUME NEW S, S \subseteq Nat, S # {}, NEW n \in Nat, \A y \in S : y <= n
  PROVE  Greatest(S) \in S /\ \A y \in S : Greatest(S) >= y
<1> DEFINE D == {n - x : x \in S}
<1>1. \A y \in S : y \in Nat /\ n - y \in Nat /\ n - y \in D
  OBVIOUS
<1>2. D \subseteq Nat /\ D # {}
  BY <1>1
<1>3. Least(D) \in D /\ \A y \in D : Least(D) <= y
  BY <1>2, LeastElement
<1>4. PICK x \in S : Least(D) = n - x
  BY <1>3
<1>5. \A y \in S : x >= y
  <2>1. TAKE y \in S
  <2>2. n - x <= n - y
    BY <1>1, <1>3, <1>4
  <2>3. x \in Nat /\ y \in Nat
    BY <1>1
  <2>4. QED
    BY <2>2, <2>3
<1>6. S \subseteq Int
  BY <1>1
<1>7. QED
  BY <1>5, <1>6, GreatestIs

-----------------------------------------------------------------------------
(* Lines of a message. *)

\* A message is a sequence of classes, its line feeds are numbers.
LEMMA MessageType ==
  ASSUME NEW m \in Messages
  PROVE  /\ WellFormed(m) /\ m \in Seq(Classes) /\ Len(m) \in Nat
         /\ \A i \in 1 .. Len(m) : m[i] \in Classes
         /\ Feeds(m) \subseteq 1 .. Len(m) /\ Feeds(m) \subseteq Nat
         /\ IsFiniteSet(Feeds(m))
<1>1. WellFormed(m) /\ m \in Seq(Classes)
  BY HttpHeadersAssumption DEF WellFormed
<1>2. Len(m) \in Nat /\ \A i \in 1 .. Len(m) : m[i] \in Classes
  BY <1>1, LenProperties, ElementOfSeq
<1>3. Feeds(m) \subseteq 1 .. Len(m)
  BY DEF Feeds
<1>4. IsFiniteSet(Feeds(m))
  <2>1. IsFiniteSet(1 .. Len(m))
    BY <1>2, FS_Interval
  <2>2. QED
    BY <1>3, <2>1, FS_Subset
<1>5. QED
  BY <1>1, <1>2, <1>3, <1>4

\* A line begins at the start of the message or behind a line feed, and has no other line
\* feed than its own.
LEMMA LineStartOf ==
  ASSUME NEW m \in Messages, NEW f \in Feeds(m)
  PROVE  /\ LineStart(m, f) \in 1 .. f
         /\ \A g \in Feeds(m) : g < f <=> g < LineStart(m, f)
         /\ \A i \in LineStart(m, f) .. f - 1 : m[i] # "lf"
<1> DEFINE S == {0} \cup {g \in Feeds(m) : g < f}
<1>1. f \in Nat /\ f \in 1 .. Len(m) /\ S \subseteq Nat /\ S # {} /\ \A y \in S : y <= f
  BY MessageType
<1>2. Greatest(S) \in S /\ \A y \in S : Greatest(S) >= y
  BY <1>1, GreatestElement
<1>3. LineStart(m, f) = Greatest(S) + 1
  BY DEF LineStart
<1>4. LineStart(m, f) \in 1 .. f
  BY <1>1, <1>2, <1>3, MessageType
<1>5. ASSUME NEW g \in Feeds(m)
      PROVE  g < f <=> g < LineStart(m, f)
  BY <1>1, <1>2, <1>3, <1>4, MessageType
<1>6. ASSUME NEW i \in LineStart(m, f) .. f - 1, m[i] = "lf"
      PROVE  FALSE
  <2>1. i \in Feeds(m)
    BY <1>1, <1>4, <1>6, MessageType DEF Feeds
  <2>2. QED
    BY <2>1, <1>5, <1>4, <1>1
<1>7. QED
  BY <1>4, <1>5, <1>6

\* The empty line exists, and no line before it is empty.
LEMMA HeaderEndIs ==
  ASSUME NEW m \in Messages
  PROVE  /\ HeaderEnd(m) \in Feeds(m) /\ Empty(m, HeaderEnd(m))
         /\ \A f \in Feeds(m) : Empty(m, f) => HeaderEnd(m) <= f
<1> DEFINE S == {f \in Feeds(m) : Empty(m, f)}
<1>1. S \subseteq Nat /\ S # {}
  BY MessageType DEF WellFormed
<1>2. Least(S) \in S /\ \A y \in S : Least(S) <= y
  BY <1>1, LeastElement
<1>3. QED
  BY <1>2 DEF HeaderEnd

\* The header lines are some of the lines.
LEMMA HeaderLinesAre ==
  ASSUME NEW m \in Messages
  PROVE  /\ HeaderLines(m) \subseteq Feeds(m) /\ Stored(m) \subseteq HeaderLines(m)
         /\ \A f \in Feeds(m) : f \in HeaderLines(m) <=> f < HeaderEnd(m)
         /\ IsFiniteSet(HeaderLines(m)) /\ IsFiniteSet(Stored(m))
<1>1. HeaderLines(m) \subseteq Feeds(m) /\ Stored(m) \subseteq HeaderLines(m)
  BY DEF HeaderLines, Stored
<1>2. IsFiniteSet(HeaderLines(m)) /\ IsFiniteSet(Stored(m))
  BY <1>1, MessageType, FS_Subset
<1>3. QED
  BY <1>1, <1>2 DEF HeaderLines

\* In a header line the colon follows a name, and a "\r" at the start of the value ends the
\* line.
LEMMA ColonOf ==
  ASSUME NEW m \in Messages, NEW f \in HeaderLines(m)
  PROVE  /\ Colon(m, f) \in LineStart(m, f) + 1 .. f - 1
         /\ m[Colon(m, f)] = "colon"
         /\ \A i \in LineStart(m, f) .. Colon(m, f) - 1 : m[i] = "token"
         /\ \A i \in Colon(m, f) + 1 .. f - 2 :
              m[i] = "cr" => \E j \in Colon(m, f) + 1 .. i - 1 : m[j] # "space"
<1>1. f \in Feeds(m) /\ f \in Nat /\ LineStart(m, f) \in 1 .. f
  BY HeaderLinesAre, MessageType, LineStartOf
<1>2. PICK c \in LineStart(m, f) + 1 .. f - 1 :
        /\ m[c] = "colon"
        /\ \A i \in LineStart(m, f) .. c - 1 : m[i] = "token"
        /\ \A i \in c + 1 .. f - 2 : m[i] = "cr" => \E j \in c + 1 .. i - 1 : m[j] # "space"
  BY MessageType DEF WellFormed, WellFormedLine
<1> DEFINE S == {i \in LineStart(m, f) .. f : m[i] = "colon"}
<1>3. S \subseteq Int /\ c \in S
  BY <1>1, <1>2
<1>4. ASSUME NEW y \in S
      PROVE  c <= y
  <2>1. CASE y < c
    <3>1. y \in LineStart(m, f) .. c - 1
      BY <1>1, <1>2, <2>1
    <3>2. QED
      BY <3>1, <1>2
  <2>2. QED
    BY <2>1, <1>1, <1>2
<1>5. c = Colon(m, f)
  BY <1>3, <1>4, LeastIs DEF Colon
<1>6. QED
  BY <1>2, <1>5

\* The line after the one that ends at f ends at g.
Follows(m, f, g) ==
  g \in Feeds(m) /\ \A h \in Feeds(m) : h < g <=> h <= f

\* Behind a header line there is another line, and no line feed between.
LEMMA NextLine ==
  ASSUME NEW m \in Messages, NEW f \in HeaderLines(m)
  PROVE  \E g \in Feeds(m) :
           /\ f < g /\ g <= HeaderEnd(m) /\ LineStart(m, g) = f + 1
           /\ Follows(m, f, g)
<1> DEFINE S == {g \in Feeds(m) : f < g}
<1>1. /\ f \in Feeds(m) /\ f < HeaderEnd(m) /\ f \in Nat
      /\ S \subseteq Nat /\ HeaderEnd(m) \in S /\ S # {}
  BY HeaderLinesAre, MessageType, HeaderEndIs
<1>2. Least(S) \in S /\ \A y \in S : Least(S) <= y
  BY <1>1, LeastElement
<1>3. PICK g \in Feeds(m) : f < g /\ g <= HeaderEnd(m) /\ \A y \in S : g <= y
  BY <1>1, <1>2
<1>4. \A h \in Feeds(m) : h < g <=> h <= f
  BY <1>1, <1>3, MessageType
<1> DEFINE T == {0} \cup {h \in Feeds(m) : h < g}
<1>5. T \subseteq Int /\ f \in T /\ \A y \in T : f >= y
  BY <1>1, <1>3, <1>4, MessageType
<1>6. LineStart(m, g) = f + 1
  BY <1>5, GreatestIs DEF LineStart
<1>7. QED
  BY <1>3, <1>4, <1>6 DEF Follows

\* The message begins with a line.
LEMMA FirstLine ==
  ASSUME NEW m \in Messages
  PROVE  \E g \in Feeds(m) :
           /\ g <= HeaderEnd(m) /\ LineStart(m, g) = 1
           /\ \A h \in Feeds(m) : ~(h < g)
<1>1. Feeds(m) \subseteq Nat /\ HeaderEnd(m) \in Feeds(m)
  BY MessageType, HeaderEndIs
<1>2. Least(Feeds(m)) \in Feeds(m) /\ \A y \in Feeds(m) : Least(Feeds(m)) <= y
  BY <1>1, LeastElement
<1>3. PICK g \in Feeds(m) : g <= HeaderEnd(m) /\ \A y \in Feeds(m) : g <= y
  BY <1>1, <1>2
<1>4. \A h \in Feeds(m) : ~(h < g)
  BY <1>1, <1>3
<1> DEFINE T == {0} \cup {h \in Feeds(m) : h < g}
<1>5. T = {0}
  BY <1>4
<1>6. Greatest(T) = 0
  BY <1>5, GreatestIs
<1>7. LineStart(m, g) = 1
  BY <1>6 DEF LineStart
<1>8. QED
  BY <1>3, <1>4, <1>7

-----------------------------------------------------------------------------
(* The inductive invariant. *)

\* Where the parser goes on, as an offset of the buffer, and how many bytes it has looked
\* at or, from one byte too far, will have passed over.
Offset ==
  IF answer = "parsing" THEN p
  ELSE IF parser.last_pos = Null THEN read_pos ELSE parser.last_pos
Passed == origin + Offset
LookedAt == origin + (IF Offset <= write_pos THEN Offset ELSE write_pos)

\* In the line that ends at f, with n bytes of the message looked at: what state q has.
Between(m, f, q, n) ==
  /\ q.index = 0
  /\ \/ q.state = "start" /\ n = LineStart(m, f) - 1
     \/ /\ q.state = "headers_almost_done"
        /\ f = HeaderEnd(m) /\ n = LineStart(m, f) /\ f = n + 1

InName(m, f, q, n) ==
  /\ q.state = "header_field" /\ q.index = 1
  /\ LineStart(m, f) <= n /\ n < Colon(m, f)

InSpace(m, f, q, n) ==
  /\ q.state = "space_before_value" /\ q.index = 2
  /\ Colon(m, f) <= n /\ n < f
  /\ \A i \in Colon(m, f) + 1 .. n : m[i] = "space"

BehindSpace(m, f, q, n) ==
  /\ q.state = "header_almost_done" /\ q.index = 2
  /\ Colon(m, f) < n /\ n = f - 1 
  /\ Ink(m, f) = {}

InText(m, f, q, n, o) ==
  /\ q.state = "header_value" /\ q.index = 3
  /\ Ink(m, f) # {}
  /\ q.value \in Nat /\ o + q.value + 1 = Least(Ink(m, f))
  /\ o + q.value + 1 <= n /\ n < f

InHeader(m, f, q, n, o) ==
  /\ f < HeaderEnd(m)
  /\ q.field \in Nat /\ o + q.field + 1 = LineStart(m, f)
  /\ \/ InName(m, f, q, n)
     \/ /\ q.len = Colon(m, f) - LineStart(m, f)
        /\ (InSpace(m, f, q, n) \/ BehindSpace(m, f, q, n) \/ InText(m, f, q, n, o))

\* hs are the headers of the lines before f.
Before(S, f) == {g \in S : g < f}
HeadersBefore(m, f, hs) ==
  /\ Len(hs) = Cardinality(Before(Stored(m), f))
  /\ \A g \in Before(Stored(m), f) : hs[Number(m, g)] = HeaderAt(m, g)

AtLine(f) ==
  /\ f <= HeaderEnd(message)
  /\ (Between(message, f, parser, LookedAt) \/ InHeader(message, f, parser, LookedAt, origin))
  /\ (answer # "parsing" => Passed < f)
  /\ HeadersBefore(message, f, headers \o found)
  /\ parser.nheader = Cardinality(Before(HeaderLines(message), f))

HeaderType == [field : Int \X Int, value : Int \X Int]

BufferOK ==
  /\ origin \in Int /\ read_pos \in Nat /\ write_pos \in Nat
  /\ read_pos <= write_pos /\ write_pos <= Capacity
  /\ 0 <= origin + read_pos /\ Received <= Len(message)
  /\ (read_pos = 0 => 0 <= origin)

ParserType ==
  [state : States, last_pos : Int, index : Nat,
   field : Int, len : Int, value : Int, nheader : Nat]

TypeOK ==
  /\ parser \in ParserType
  /\ p \in Int /\ count \in Nat
  /\ headers \in Seq(HeaderType) /\ found \in Seq(HeaderType)
  /\ answer \in {"again", "done", "parsing", "ok", "bad"}

OffsetOK ==
  /\ read_pos <= Offset /\ Offset <= write_pos + 1
  /\ (Offset = write_pos + 1 => parser.state = "header_value")
  /\ (answer # "parsing" => found = <<>> /\ count = 0)

GoesOn ==
  answer \in {"again", "done", "parsing"} =>
    OffsetOK /\ \E f \in Feeds(message) : AtLine(f)

Stopped ==
  answer \in {"ok", "bad"} => ParsedAsWhole /\ BodyKept /\ AcceptsWhatFits

IInv ==
  /\ message \in Messages /\ skipped \in BOOLEAN
  /\ (~skipped => BufferOK /\ TypeOK /\ GoesOn /\ Stopped)

-----------------------------------------------------------------------------
(* Counting lines and headers. *)

\* With the next line one line more is before.
LEMMA BeforeNext ==
  ASSUME NEW m \in Messages, NEW S \in SUBSET Feeds(m), NEW f \in S, NEW g, Follows(m, f, g)
  PROVE  Before(S, g) = Before(S, f) \cup {f}
<1>1. \A h \in Feeds(m) : h \in Nat
  BY MessageType
<1>2. QED
  BY <1>1 DEF Before, Follows

\* So there is one more of them.
LEMMA CountLine ==
  ASSUME NEW m \in Messages, NEW S \in SUBSET Feeds(m), NEW f \in S, NEW g, Follows(m, f, g)
  PROVE  /\ Cardinality(Before(S, f)) \in Nat
         /\ Cardinality(Before(S, g)) = Cardinality(Before(S, f)) + 1
<1>1. \A h \in Feeds(m) : h \in Nat
  BY MessageType
<1>2. IsFiniteSet(Before(S, f))
  BY MessageType, FS_Subset DEF Before
<1>3. Cardinality(Before(S, f)) \in Nat
  BY <1>2, FS_CardinalityType
<1>4. Before(S, g) = Before(S, f) \cup {f}
  BY BeforeNext
<1>5. f \notin Before(S, f)
  BY <1>1 DEF Before
<1>6. Cardinality(Before(S, f) \cup {f}) = Cardinality(Before(S, f)) + 1
  BY <1>2, <1>5, FS_AddElement
<1>7. QED
  BY <1>3, <1>4, <1>6

\* The number of a stored header tells whether its line is before f.
LEMMA NumberOf ==
  ASSUME NEW m \in Messages, NEW f \in Feeds(m), NEW g \in Stored(m)
  PROVE  /\ Number(m, g) \in Nat /\ Number(m, g) >= 1
         /\ Cardinality(Before(Stored(m), f)) \in Nat
         /\ g < f => Number(m, g) <= Cardinality(Before(Stored(m), f))
         /\ ~(g < f) => Number(m, g) > Cardinality(Before(Stored(m), f))
         /\ g = f => Number(m, g) = Cardinality(Before(Stored(m), f)) + 1
<1> DEFINE U == {h \in Stored(m) : h <= g}
           B == Before(Stored(m), f)
<1>1. /\ IsFiniteSet(Stored(m)) /\ g \in Feeds(m)
      /\ \A h \in Stored(m) : h \in Nat
      /\ f \in Nat /\ g \in Nat
  BY HeaderLinesAre, MessageType
<1>2. IsFiniteSet(U) /\ IsFiniteSet(B)
  BY <1>1, FS_Subset DEF Before
<1>3. Cardinality(U) \in Nat /\ Cardinality(B) \in Nat
  BY <1>2, FS_CardinalityType
<1>4. Number(m, g) = Cardinality(U)
  BY DEF Number
<1>5. g \in U /\ {g} \subseteq U
  BY <1>1
<1>6. Cardinality(U) >= 1
  <2>1. U # {}
    BY <1>5
  <2>2. Cardinality(U) # 0
    BY <1>2, <2>1, FS_EmptySet
  <2>3. QED
    BY <1>3, <2>2
<1>7. ASSUME g < f
      PROVE  Cardinality(U) <= Cardinality(B)
  <2>1. \A h \in Stored(m) : h <= g => h < f
    BY <1>1, <1>7
  <2>2. U \subseteq B
    BY <2>1 DEF Before
  <2>3. QED
    BY <1>2, <2>2, FS_Subset
<1>8. ASSUME ~(g < f)
      PROVE  Cardinality(U) > Cardinality(B)
  <2>0. \A h \in Stored(m) : h < f => h <= g
    BY <1>1, <1>8
  <2>1. B \cup {g} \subseteq U /\ g \notin B
    BY <2>0, <1>5, <1>8 DEF Before
  <2>2. Cardinality(B \cup {g}) = Cardinality(B) + 1
    BY <1>2, <2>1, FS_AddElement
  <2>3. Cardinality(B \cup {g}) <= Cardinality(U)
    BY <1>2, <2>1, FS_Subset
  <2>4. QED
    BY <1>3, <2>2, <2>3
<1>9. ASSUME g = f
      PROVE  Cardinality(U) = Cardinality(B) + 1
  <2>1. \A h \in Stored(m) : h <= g <=> (h < f \/ h = g)
    BY <1>1, <1>9
  <2>2. ~(g < g)
    BY <1>1
  <2>3. B \cup {g} = U /\ g \notin B
    BY <2>1, <2>2, <1>9 DEF Before
  <2>4. QED
    BY <1>2, <2>3, FS_AddElement
<1>10. QED
  BY <1>3, <1>4, <1>6, <1>7, <1>8, <1>9

\* Behind a header line the same headers have been found, or one more if it has a value.
LEMMA HeadersWithLine ==
  ASSUME NEW m \in Messages, NEW f \in HeaderLines(m), NEW g, Follows(m, f, g),
         NEW hs \in Seq(HeaderType), HeadersBefore(m, f, hs)
  PROVE  /\ f \notin Stored(m) => HeadersBefore(m, g, hs)
         /\ f \in Stored(m) /\ HeaderAt(m, f) \in HeaderType
              => HeadersBefore(m, g, Append(hs, HeaderAt(m, f)))
<1>1. f \in Feeds(m) /\ Stored(m) \in SUBSET Feeds(m)
  BY HeaderLinesAre
<1>2. ASSUME f \notin Stored(m)
      PROVE  HeadersBefore(m, g, hs)
  <2>1. Before(Stored(m), g) = Before(Stored(m), f)
    <3>1. \A h \in Stored(m) : h < g <=> h < f
      BY <1>1, <1>2, MessageType DEF Follows
    <3>2. QED
      BY <3>1 DEF Before
  <2>2. QED
    BY <2>1 DEF HeadersBefore
<1>3. ASSUME f \in Stored(m), HeaderAt(m, f) \in HeaderType
      PROVE  HeadersBefore(m, g, Append(hs, HeaderAt(m, f)))
  <2> DEFINE h == HeaderAt(m, f)
             all == Append(hs, h)
             n == Cardinality(Before(Stored(m), f))
  <2>1. Cardinality(Before(Stored(m), g)) = n + 1 /\ n \in Nat
    BY <1>1, <1>3, CountLine
  <2>2. Len(hs) = n
    BY DEF HeadersBefore
  <2>3. /\ Len(all) = n + 1 /\ all[n + 1] = h
        /\ \A i \in 1 .. n : all[i] = hs[i]
    BY <2>1, <2>2, <1>3, AppendProperties
  <2>4. Number(m, f) = n + 1
    BY <1>1, <1>3, NumberOf
  <2>5. ASSUME NEW k \in Before(Stored(m), f)
        PROVE  all[Number(m, k)] = HeaderAt(m, k)
    <3>1. k \in Stored(m) /\ k < f
      BY DEF Before
    <3>2. Number(m, k) \in 1 .. n
      BY <3>1, <2>1, <1>1, NumberOf
    <3>3. hs[Number(m, k)] = HeaderAt(m, k)
      BY DEF HeadersBefore
    <3>4. QED
      BY <3>2, <3>3, <2>3
  <2>6. \A k \in Before(Stored(m), g) : all[Number(m, k)] = HeaderAt(m, k)
    <3>1. Before(Stored(m), g) = Before(Stored(m), f) \cup {f}
      BY <1>1, <1>3, BeforeNext
    <3>2. QED
      BY <3>1, <2>3, <2>4, <2>5
  <2>7. QED
    BY <2>1, <2>3, <2>6 DEF HeadersBefore
<1>4. QED
  BY <1>2, <1>3

\* What is stored is the first part of what has been found.
LEMMA PrefixParsed ==
  ASSUME NEW m \in Messages, NEW f \in Feeds(m), NEW hs \in Seq(HeaderType),
         NEW fs \in Seq(HeaderType), HeadersBefore(m, f, hs \o fs)
  PROVE  /\ Len(hs) <= Cardinality(Stored(m))
         /\ \A g \in Stored(m) :
              Number(m, g) <= Len(hs) => hs[Number(m, g)] = HeaderAt(m, g)
<1> DEFINE n == Cardinality(Before(Stored(m), f))
<1>1. /\ Len(hs) \in Nat /\ Len(fs) \in Nat /\ Len(hs \o fs) = Len(hs) + Len(fs)
      /\ \A i \in 1 .. Len(hs) : (hs \o fs)[i] = hs[i]
  BY ConcatProperties, LenProperties
<1>2. Len(hs \o fs) = n
  BY DEF HeadersBefore
<1>3. n <= Cardinality(Stored(m)) /\ n \in Nat /\ Cardinality(Stored(m)) \in Nat
  <2>1. IsFiniteSet(Stored(m)) /\ Before(Stored(m), f) \in SUBSET Stored(m)
    BY HeaderLinesAre DEF Before
  <2>2. QED
    BY <2>1, FS_Subset, FS_CardinalityType
<1>4. ASSUME NEW g \in Stored(m), Number(m, g) <= Len(hs)
      PROVE  hs[Number(m, g)] = HeaderAt(m, g)
  <2>1. Number(m, g) \in 1 .. Len(hs)
    BY <1>1, <1>4, NumberOf
  <2>2. Number(m, g) <= n
    BY <1>1, <1>2, <1>3, <2>1
  <2>3. g < f
    BY <1>3, <2>1, <2>2, NumberOf
  <2>4. (hs \o fs)[Number(m, g)] = HeaderAt(m, g)
    BY <2>3 DEF HeadersBefore, Before
  <2>5. QED
    BY <1>1, <2>1, <2>4
<1>5. QED
  BY <1>1, <1>2, <1>3, <1>4

\* Before the empty line are all headers.
LEMMA AllParsed ==
  ASSUME NEW m \in Messages, NEW hs, HeadersBefore(m, HeaderEnd(m), hs)
  PROVE  Len(hs) = Cardinality(Stored(m))
<1>1. Before(Stored(m), HeaderEnd(m)) = Stored(m)
  BY HeaderLinesAre DEF Before
<1>2. QED
  BY <1>1 DEF HeadersBefore

-----------------------------------------------------------------------------
(* The bytes of a line. *)

\* The first byte of a line tells whether it is the empty line.
LEMMA FirstByte ==
  ASSUME NEW m \in Messages, NEW f \in Feeds(m), f <= HeaderEnd(m)
  PROVE  LET b == m[LineStart(m, f)] IN
         /\ b = "cr" => f = HeaderEnd(m) /\ f = LineStart(m, f) + 1
         /\ b = "lf" => f = HeaderEnd(m) /\ f = LineStart(m, f)
         /\ b # "cr" /\ b # "lf" => f < HeaderEnd(m) /\ b = "token"
<1> DEFINE s == LineStart(m, f)
           e == HeaderEnd(m)
<1>1. /\ f \in Nat /\ e \in Nat /\ s \in 1 .. f /\ m[f] = "lf"
      /\ \A i \in s .. f - 1 : m[i] # "lf"
  BY LineStartOf, MessageType, HeaderEndIs DEF Feeds
<1>2. CASE f < e
  <2>1. f \in HeaderLines(m)
    BY <1>2, HeaderLinesAre
  <2>2. s \in s .. Colon(m, f) - 1
    BY <2>1, <1>1, ColonOf
  <2>3. m[s] = "token"
    BY <2>1, <2>2, ColonOf
  <2>4. QED
    BY <2>3, <1>2
<1>3. CASE f = e
  <2>1. s = f \/ (s = f - 1 /\ m[f - 1] = "cr")
    BY <1>3, HeaderEndIs DEF Empty
  <2>2. QED
    BY <2>1, <1>1, <1>3
<1>4. QED
  BY <1>1, <1>2, <1>3

\* The ink of a line is behind its colon.
LEMMA InkIs ==
  ASSUME NEW m \in Messages, NEW f \in HeaderLines(m), Ink(m, f) # {}
  PROVE  /\ Ink(m, f) \subseteq Colon(m, f) + 1 .. f - 1
         /\ Ink(m, f) \subseteq Nat
         /\ Least(Ink(m, f)) \in Ink(m, f) /\ Greatest(Ink(m, f)) \in Ink(m, f)
         /\ \A i \in Ink(m, f) : Least(Ink(m, f)) <= i /\ i <= Greatest(Ink(m, f))
<1>1. /\ f \in Nat /\ Colon(m, f) \in LineStart(m, f) + 1 .. f - 1
      /\ LineStart(m, f) \in 1 .. f
  BY HeaderLinesAre, MessageType, ColonOf, LineStartOf
<1>2. \A i \in Ink(m, f) : i \in Colon(m, f) + 1 .. f - 1
  BY DEF Ink
<1>3. \A i \in Ink(m, f) : i \in Nat /\ i <= f
  BY <1>1, <1>2
<1>4. Ink(m, f) \subseteq Nat
  BY <1>3
<1>5. Least(Ink(m, f)) \in Ink(m, f) /\ \A i \in Ink(m, f) : Least(Ink(m, f)) <= i
  BY <1>4, LeastElement
<1>6. Greatest(Ink(m, f)) \in Ink(m, f) /\ \A i \in Ink(m, f) : Greatest(Ink(m, f)) >= i
  BY <1>1, <1>3, <1>4, GreatestElement
<1>7. \A i \in Ink(m, f) : i <= Greatest(Ink(m, f))
  BY <1>3, <1>6
<1>8. QED
  BY <1>2, <1>4, <1>5, <1>6, <1>7

\* What the byte behind a colon and spaces tells about the value.
LEMMA ByteAfterSpace ==
  ASSUME NEW m \in Messages, NEW f \in HeaderLines(m), NEW n \in Int,
         Colon(m, f) <= n, n < f, \A i \in Colon(m, f) + 1 .. n : m[i] = "space"
  PROVE  /\ m[n + 1] = "lf" => n + 1 = f /\ Ink(m, f) = {}
         /\ m[n + 1] = "cr" => n + 1 = f - 1 /\ Ink(m, f) = {}
         /\ m[n + 1] = "space" =>
              n + 1 < f /\ \A i \in Colon(m, f) + 1 .. n + 1 : m[i] = "space"
         /\ m[n + 1] \notin {"space", "cr", "lf"} =>
              n + 1 < f /\ Ink(m, f) # {} /\ Least(Ink(m, f)) = n + 1
<1> DEFINE c == Colon(m, f)
           s == LineStart(m, f)
           b == m[n + 1]
<1>1. /\ f \in Nat /\ m[f] = "lf" /\ s \in 1 .. f /\ c \in s + 1 .. f - 1
      /\ \A i \in s .. f - 1 : m[i] # "lf"
      /\ \A i \in c + 1 .. f - 2 : m[i] = "cr" => \E j \in c + 1 .. i - 1 : m[j] # "space"
  BY HeaderLinesAre, MessageType, ColonOf, LineStartOf DEF Feeds
<1>2. n + 1 <= f /\ c < n + 1 /\ (b # "lf" <=> n + 1 < f)
  BY <1>1
<1>3. \A i \in Ink(m, f) : i \in c + 1 .. f - 1 /\ m[i] # "space" /\ ~(i = f - 1 /\ m[i] = "cr")
  BY DEF Ink
<1>4. \A i \in Ink(m, f) : i >= n + 1
  BY <1>1, <1>3
<1>5. ASSUME b = "lf"
      PROVE  n + 1 = f /\ Ink(m, f) = {}
  BY <1>1, <1>2, <1>3, <1>4, <1>5
<1>6. ASSUME b = "cr"
      PROVE  n + 1 = f - 1 /\ Ink(m, f) = {}
  <2>1. n + 1 = f - 1
    BY <1>1, <1>2, <1>6
  <2>2. \A i \in Ink(m, f) : i = f - 1
    BY <1>1, <1>3, <1>4, <2>1
  <2>3. QED
    BY <1>3, <1>6, <2>1, <2>2
<1>7. ASSUME b = "space"
      PROVE  n + 1 < f /\ \A i \in c + 1 .. n + 1 : m[i] = "space"
  BY <1>1, <1>2, <1>7
<1>8. ASSUME b \notin {"space", "cr", "lf"}
      PROVE  n + 1 < f /\ Ink(m, f) # {} /\ Least(Ink(m, f)) = n + 1
  <2>1. n + 1 < f /\ n + 1 \in c + 1 .. f - 1
    BY <1>1, <1>2, <1>8
  <2>2. n + 1 \in Ink(m, f)
    BY <1>8, <2>1 DEF Ink
  <2>3. Ink(m, f) \subseteq Int
    BY <1>1, <1>3
  <2>4. \A i \in Ink(m, f) : n + 1 <= i
    BY <1>3, <1>4, <1>1
  <2>5. QED
    BY <2>1, <2>2, <2>3, <2>4, LeastIs
<1>9. QED
  BY <1>5, <1>6, <1>7, <1>8

-----------------------------------------------------------------------------
(* The kinds of steps. *)

\* While the parser is at a line, what it has stored are the first headers.
LEMMA StoredPrefix ==
  ASSUME IInv, ~skipped
  PROVE  /\ Len(headers) <= Cardinality(Stored(message))
         /\ \A f \in Stored(message) :
              Number(message, f) <= Len(headers) =>
                headers[Number(message, f)] = HeaderAt(message, f)
<1>1. CASE answer \in {"ok", "bad"}
  BY <1>1 DEF IInv, Stopped, ParsedAsWhole
<1>2. CASE answer \in {"again", "done", "parsing"}
  <2>1. PICK f \in Feeds(message) : HeadersBefore(message, f, headers \o found)
    BY <1>2 DEF IInv, GoesOn, AtLine
  <2>2. headers \in Seq(HeaderType) /\ found \in Seq(HeaderType) /\ message \in Messages
    BY DEF IInv, TypeOK
  <2>3. QED
    BY <2>1, <2>2, PrefixParsed
<1>3. QED
  BY <1>1, <1>2 DEF IInv, TypeOK

\* What is known while the parser is in its loop.
LEMMA InLoop ==
  ASSUME IInv, ~skipped, answer = "parsing"
  PROVE  /\ message \in Messages /\ BufferOK /\ TypeOK
         /\ Offset = p /\ Passed = origin + p
         /\ read_pos <= p /\ p <= write_pos + 1
         /\ p = write_pos + 1 => parser.state = "header_value"
         /\ p <= write_pos => LookedAt = origin + p
         /\ p > write_pos => LookedAt = Received
         /\ \E f \in Feeds(message) : AtLine(f)
<1>1. Offset = p
  BY DEF Offset
<1>2. origin \in Int /\ p \in Int /\ write_pos \in Nat
  BY DEF IInv, BufferOK, TypeOK
<1>3. QED
  <2>1. message \in Messages /\ BufferOK /\ TypeOK
    BY DEF IInv
  <2>2. OffsetOK /\ \E f \in Feeds(message) : AtLine(f)
    BY DEF IInv, GoesOn
  <2>3. /\ p <= write_pos => LookedAt = origin + p
        /\ p > write_pos => LookedAt = Received
    BY <1>1, <1>2 DEF LookedAt, Received
  <2>4. QED
    BY <1>1, <2>1, <2>2, <2>3 DEF OffsetOK, Passed

\* The looked at bytes end before the line feed.
LEMMA LineAhead ==
  ASSUME IInv, ~skipped, answer \in {"again", "done", "parsing"},
         NEW f \in Feeds(message), AtLine(f)
  PROVE  /\ LookedAt \in Int /\ f \in Nat /\ LookedAt < f
         /\ f <= HeaderEnd(message) /\ HeaderEnd(message) \in Nat
         /\ LineStart(message, f) \in 1 .. f
<1>1. /\ f \in Nat /\ HeaderEnd(message) \in Nat /\ LineStart(message, f) \in 1 .. f
      /\ f <= HeaderEnd(message)
  BY MessageType, LineStartOf, HeaderEndIs DEF IInv, AtLine
<1>2. LookedAt \in Int
  <2>1. origin \in Int /\ read_pos \in Int /\ write_pos \in Int /\ p \in Int
    BY DEF IInv, BufferOK, TypeOK
  <2>2. parser.last_pos \in Int
    BY DEF IInv, TypeOK, ParserType
  <2>3. Offset \in Int
    BY <2>1, <2>2 DEF Offset
  <2>4. QED
    BY <2>1, <2>3 DEF LookedAt
<1>3. CASE Between(message, f, parser, LookedAt)
  BY <1>1, <1>2, <1>3 DEF Between
<1>4. CASE InHeader(message, f, parser, LookedAt, origin)
  <2>1. f \in HeaderLines(message)
    BY <1>4, HeaderLinesAre DEF InHeader, IInv
  <2>2. Colon(message, f) \in LineStart(message, f) + 1 .. f - 1
    BY <2>1, ColonOf DEF IInv
  <2>3. QED
    BY <1>1, <1>2, <1>4, <2>2 DEF InHeader, InName, InSpace, BehindSpace, InText
<1>5. QED
  BY <1>1, <1>2, <1>3, <1>4 DEF AtLine

\* A turn that stays in the line.
LEMMA GoOnKeeps ==
  ASSUME IInv, ~skipped, answer = "parsing",
         NEW q \in ParserType, NEW i \in Int, GoOn(q, i),
         read_pos <= i, i <= write_pos + 1, i = write_pos + 1 => q.state = "header_value",
         q.nheader = parser.nheader,
         NEW f \in Feeds(message), AtLine(f),
         NEW n \in Int, n = origin + (IF i <= write_pos THEN i ELSE write_pos),
         Between(message, f, q, n) \/ InHeader(message, f, q, n, origin)
  PROVE  IInv'
<1>1. /\ message' = message /\ origin' = origin /\ read_pos' = read_pos
      /\ write_pos' = write_pos /\ parser' = q /\ p' = i /\ found' = found /\ count' = count
      /\ headers' = headers /\ answer' = "parsing" /\ skipped' = skipped
  BY DEF GoOn
<1>2. Offset' = i /\ LookedAt' = n
  BY <1>1 DEF Offset, LookedAt
<1>3. BufferOK'
  BY <1>1 DEF IInv, BufferOK, Received
<1>4. TypeOK'
  BY <1>1 DEF IInv, TypeOK
<1>5. OffsetOK'
  BY <1>1, <1>2 DEF OffsetOK
<1>6. AtLine(f)'
  BY <1>1, <1>2 DEF AtLine
<1>7. GoesOn' /\ Stopped'
  BY <1>1, <1>5, <1>6 DEF GoesOn, Stopped
<1>8. QED
  BY <1>1, <1>3, <1>4, <1>7 DEF IInv

\* A message with too many header lines may be rejected.
LEMMA FailKeeps ==
  ASSUME IInv, ~skipped, answer = "parsing",
         NEW q \in ParserType, NEW i \in Int, Fail(q, i),
         Cardinality(HeaderLines(message)) > MaxHeaders
  PROVE  IInv'
<1>1. /\ message' = message /\ origin' = origin /\ read_pos' = read_pos
      /\ write_pos' = write_pos /\ parser' = [q EXCEPT !.last_pos = i + 1]
      /\ p' = 0 /\ found' = <<>> /\ count' = 0
      /\ headers' = headers /\ answer' = "bad" /\ skipped' = skipped
  BY DEF Fail, Return
<1>2. BufferOK'
  BY <1>1 DEF IInv, BufferOK, Received
<1>3. [q EXCEPT !.last_pos = i + 1] \in ParserType
  BY DEF ParserType
<1>4. TypeOK'
  BY <1>1, <1>3, EmptySeq DEF IInv, TypeOK
<1>5. ParsedAsWhole'
  BY <1>1, StoredPrefix DEF ParsedAsWhole
<1>6. BodyKept'
  BY <1>1 DEF BodyKept
<1>7. AcceptsWhatFits'
  <2>1. Cardinality(HeaderLines(message)) \in Nat
    BY HeaderLinesAre, FS_CardinalityType DEF IInv
  <2>2. ~(Cardinality(HeaderLines(message)) <= MaxHeaders)
    BY <2>1, HttpHeadersAssumption
  <2>3. QED
    BY <1>1, <2>2 DEF AcceptsWhatFits
<1>8. GoesOn'
  BY <1>1 DEF GoesOn
<1>9. QED
  BY <1>1, <1>2, <1>4, <1>5, <1>6, <1>7, <1>8 DEF IInv, Stopped

\* A return in the loop moves the buffer behind the byte at offset i.
LEMMA SucceedMoves ==
  ASSUME IInv, ~skipped, answer = "parsing", NEW ret \in {"ok", "done"},
         NEW q \in ParserType, NEW i \in Int, read_pos <= i, i < write_pos,
         NEW hs \in Seq(HeaderType), Succeed(ret, q, i, hs)
  PROVE  /\ message' = message /\ skipped' = skipped /\ answer' = ret
         /\ BufferOK' /\ TypeOK' /\ parser' = [q EXCEPT !.last_pos = Null]
         /\ origin' + read_pos' = origin + i + 1
         /\ read_pos' <= write_pos'
         /\ headers' = headers \o hs /\ found' = <<>> /\ count' = 0
<1>1. /\ message' = message /\ parser' = [q EXCEPT !.last_pos = Null]
      /\ p' = 0 /\ found' = <<>> /\ count' = 0
      /\ headers' = headers \o hs /\ answer' = ret /\ skipped' = skipped
  BY DEF Succeed, Return
<1>2. /\ origin \in Int /\ read_pos \in Nat /\ write_pos \in Nat /\ write_pos <= Capacity
      /\ 0 <= origin + read_pos /\ origin + write_pos <= Len(message)
      /\ Capacity \in Nat /\ Len(message) \in Nat
  BY HttpHeadersAssumption, MessageType DEF IInv, BufferOK, Received
<1>3. [q EXCEPT !.last_pos = Null] \in ParserType
  BY DEF ParserType, Null
<1>4. TypeOK'
  <2>1. headers \o hs \in Seq(HeaderType) /\ <<>> \in Seq(HeaderType)
    BY ConcatProperties, EmptySeq DEF IInv, TypeOK
  <2>2. QED
    BY <1>1, <1>3, <2>1 DEF TypeOK
<1>5. CASE i + 1 = write_pos
  <2>1. read_pos' = 0 /\ write_pos' = 0 /\ origin' = origin + write_pos
    BY <1>5 DEF Succeed, Consumed
  <2>2. QED
    BY <1>1, <1>2, <1>4, <1>5, <2>1 DEF BufferOK, Received
<1>6. CASE i + 1 # write_pos
  <2>1. read_pos' = i + 1 /\ write_pos' = write_pos /\ origin' = origin
    BY <1>6 DEF Succeed, Consumed
  <2>2. QED
    BY <1>1, <1>2, <1>4, <1>6, <2>1 DEF BufferOK, Received
<1>7. QED
  BY <1>5, <1>6

\* The headers are done at the end of the empty line.
LEMMA OkKeeps ==
  ASSUME IInv, ~skipped, answer = "parsing",
         NEW q \in ParserType, NEW i \in Int, read_pos <= i, i < write_pos,
         Succeed("ok", q, i, found), AtLine(HeaderEnd(message)),
         origin + i + 1 = HeaderEnd(message)
  PROVE  IInv'
<1>1. headers \in Seq(HeaderType) /\ found \in Seq(HeaderType) /\ message \in Messages
  BY DEF IInv, TypeOK
<1>2. /\ message' = message /\ skipped' = skipped /\ answer' = "ok"
      /\ BufferOK' /\ TypeOK'
      /\ origin' + read_pos' = HeaderEnd(message)
      /\ headers' = headers \o found
  BY <1>1, SucceedMoves
<1>3. HeadersBefore(message, HeaderEnd(message), headers \o found)
  BY DEF AtLine
<1>4. Len(headers \o found) = Cardinality(Stored(message))
  BY <1>1, <1>3, AllParsed
<1>5. Len(headers \o found) <= Cardinality(Stored(message))
  BY <1>1, <1>4, ConcatProperties, LenProperties
<1>6. \A f \in Stored(message) : (headers \o found)[Number(message, f)] = HeaderAt(message, f)
  BY <1>1, <1>3, HeaderLinesAre DEF HeadersBefore, Before
<1>7. ParsedAsWhole'
  BY <1>2, <1>4, <1>5, <1>6 DEF ParsedAsWhole
<1>8. BodyKept' /\ AcceptsWhatFits' /\ GoesOn'
  BY <1>2 DEF BodyKept, AcceptsWhatFits, GoesOn
<1>9. QED
  BY <1>1, <1>2, <1>7, <1>8 DEF IInv, Stopped

\* What is appended to the headers of this call is appended to all headers.
LEMMA FoundBehind ==
  ASSUME headers \in Seq(HeaderType), found \in Seq(HeaderType), NEW h \in HeaderType
  PROVE  Append(headers \o found, h) = headers \o Append(found, h)
<1>1. <<h>> \in Seq(HeaderType) /\ headers \o found \in Seq(HeaderType)
  BY ConcatProperties
<1>2. Append(headers \o found, h) = (headers \o found) \o <<h>>
  BY <1>1, AppendIsConcat
<1>3. Append(found, h) = found \o <<h>>
  BY AppendIsConcat
<1>4. (headers \o found) \o <<h>> = headers \o (found \o <<h>>)
  BY <1>1, ConcatAssociative
<1>5. QED
  BY <1>2, <1>3, <1>4

\* The header of a typed parser is a pair of stretches.
LEMMA HeaderTyped ==
  ASSUME parser \in ParserType, origin \in Int, NEW n \in Int
  PROVE  Header(n) \in HeaderType
<1>1. parser.field \in Int /\ parser.len \in Int /\ parser.value \in Int
  BY DEF ParserType
<1>2. /\ origin + parser.field + 1 \in Int /\ origin + parser.field + parser.len \in Int
      /\ origin + parser.value + 1 \in Int /\ origin + parser.value + n \in Int
  BY <1>1
<1>3. QED
  BY <1>2 DEF Header, HeaderType

\* A header that ends at its line feed is found, if it has a value, and the next line begins.
LEMMA EndHeaderKeeps ==
  ASSUME IInv, ~skipped, answer = "parsing",
         NEW f \in HeaderLines(message), AtLine(f),
         NEW i \in Int, read_pos <= i, i < write_pos, origin + i + 1 = f,
         NEW n \in Int, EndHeader(i, n),
         \/ n = 0 /\ Ink(message, f) = {}
         \/ n # 0 /\ Ink(message, f) # {} /\ Header(n) = HeaderAt(message, f)
  PROVE  IInv'
<1> DEFINE q == [parser EXCEPT !.state = "start", !.index = 0, !.nheader = @ + 1]
           all == IF n = 0 THEN found ELSE Append(found, Header(n))
<1>1. /\ message \in Messages /\ f \in Feeds(message)
      /\ parser \in ParserType /\ origin \in Int /\ write_pos \in Nat /\ read_pos \in Nat
      /\ headers \in Seq(HeaderType) /\ found \in Seq(HeaderType)
  BY HeaderLinesAre DEF IInv, TypeOK, BufferOK
<1>2. q \in ParserType /\ q.nheader = parser.nheader + 1 /\ parser.nheader \in Nat
      /\ q.state = "start" /\ q.index = 0
  <2>1. "start" \in States /\ parser.nheader + 1 \in Nat /\ parser.nheader \in Nat
    BY <1>1 DEF ParserType, States
  <2>2. QED
    BY <1>1, <2>1 DEF ParserType
<1>3. PICK g \in Feeds(message) :
        /\ f < g /\ g <= HeaderEnd(message) /\ LineStart(message, g) = f + 1
        /\ Follows(message, f, g)
  BY <1>1, NextLine
<1>4. q.nheader = Cardinality(Before(HeaderLines(message), g))
  <2>1. HeaderLines(message) \in SUBSET Feeds(message)
    BY <1>1, HeaderLinesAre
  <2>2. Cardinality(Before(HeaderLines(message), g))
          = Cardinality(Before(HeaderLines(message), f)) + 1
    BY <1>1, <1>3, <2>1, CountLine
  <2>3. QED
    BY <1>2, <2>2 DEF AtLine
<1>5. all \in Seq(HeaderType) /\ HeadersBefore(message, g, headers \o all)
  <2>1. headers \o found \in Seq(HeaderType) /\ HeadersBefore(message, f, headers \o found)
    BY <1>1, ConcatProperties DEF AtLine
  <2>2. CASE n = 0 /\ Ink(message, f) = {}
    <3>1. f \notin Stored(message)
      BY <2>2 DEF Stored
    <3>2. HeadersBefore(message, g, headers \o found)
      BY <1>1, <1>3, <2>1, <3>1, HeadersWithLine
    <3>3. QED
      BY <1>1, <2>2, <3>2
  <2>3. CASE n # 0 /\ Ink(message, f) # {} /\ Header(n) = HeaderAt(message, f)
    <3>1. f \in Stored(message)
      BY <2>3 DEF Stored
    <3>2. Header(n) \in HeaderType
      BY <1>1, HeaderTyped
    <3>3. HeadersBefore(message, g, Append(headers \o found, Header(n)))
      BY <1>1, <1>3, <2>1, <2>3, <3>1, <3>2, HeadersWithLine
    <3>4. Append(headers \o found, Header(n)) = headers \o Append(found, Header(n))
      BY <1>1, <3>2, FoundBehind
    <3>5. Append(found, Header(n)) \in Seq(HeaderType)
      BY <1>1, <3>2, AppendProperties
    <3>6. QED
      BY <2>3, <3>3, <3>4, <3>5
  <2>4. QED
    BY <2>2, <2>3
<1>6. CASE q.nheader > MaxHeaders
  <2>1. Fail(q, i)
    BY <1>6 DEF EndHeader
  <2>2. Cardinality(Before(HeaderLines(message), g)) <= Cardinality(HeaderLines(message))
    BY <1>1, HeaderLinesAre, FS_Subset DEF Before
  <2>3. Cardinality(HeaderLines(message)) \in Nat /\ MaxHeaders \in Nat
    BY <1>1, HeaderLinesAre, FS_CardinalityType, HttpHeadersAssumption
  <2>4. Cardinality(HeaderLines(message)) > MaxHeaders
    BY <1>2, <1>4, <1>6, <2>2, <2>3
  <2>5. QED
    BY <1>2, <2>1, <2>4, FailKeeps
<1>7. CASE ~(q.nheader > MaxHeaders) /\ count + 1 >= MaxPerRead
  <2>1. Succeed("done", q, i, all)
    BY <1>7 DEF EndHeader
  <2> HIDE DEF q, all
  <2>2. /\ message' = message /\ skipped' = skipped /\ answer' = "done"
        /\ BufferOK' /\ TypeOK' /\ parser' = [q EXCEPT !.last_pos = Null]
        /\ origin' + read_pos' = origin + i + 1
        /\ read_pos' <= write_pos'
        /\ headers' = headers \o all /\ found' = <<>> /\ count' = 0
    BY <1>2, <1>5, <2>1, SucceedMoves
  <2>3. /\ parser'.last_pos = Null /\ parser'.state = "start" /\ parser'.index = 0
        /\ parser'.nheader = q.nheader
    BY <1>2, <2>2 DEF ParserType
  <2>4. /\ Offset' = read_pos' /\ LookedAt' = f /\ Passed' = f
        /\ read_pos' \in Nat /\ write_pos' \in Nat
    BY <2>2, <2>3 DEF Offset, LookedAt, Passed, BufferOK
  <2>5. OffsetOK'
    BY <2>2, <2>4 DEF OffsetOK
  <2>6. Between(message, g, parser', f)
    BY <1>1, <1>3, <2>3, MessageType DEF Between
  <2>7. headers' \o found' = headers \o all
    BY <1>1, <1>5, <2>2, ConcatProperties, ConcatEmptySeq
  <2>8. AtLine(g)'
    BY <1>3, <1>4, <1>5, <2>2, <2>3, <2>4, <2>6, <2>7 DEF AtLine
  <2>9. GoesOn' /\ Stopped'
    BY <2>2, <2>5, <2>8 DEF GoesOn, Stopped
  <2>10. QED
    BY <1>1, <2>2, <2>9 DEF IInv
<1>8. CASE ~(q.nheader > MaxHeaders) /\ ~(count + 1 >= MaxPerRead)
  <2>1. /\ parser' = q /\ p' = i + 1 /\ found' = all /\ count' = count + 1
        /\ message' = message /\ origin' = origin /\ read_pos' = read_pos
        /\ write_pos' = write_pos /\ headers' = headers /\ answer' = "parsing"
        /\ skipped' = skipped
    BY <1>8 DEF EndHeader
  <2> HIDE DEF q, all
  <2>2. Offset' = i + 1 /\ LookedAt' = f
    BY <1>1, <2>1 DEF Offset, LookedAt
  <2>3. BufferOK'
    BY <2>1 DEF IInv, BufferOK, Received
  <2>4. TypeOK'
    BY <1>2, <1>5, <2>1 DEF IInv, TypeOK
  <2>5. OffsetOK'
    BY <1>1, <2>1, <2>2 DEF OffsetOK
  <2>6. Between(message, g, q, f)
    BY <1>1, <1>2, <1>3, MessageType DEF Between
  <2>7. AtLine(g)'
    BY <1>3, <1>4, <1>5, <2>1, <2>2, <2>6 DEF AtLine
  <2>8. GoesOn' /\ Stopped'
    BY <2>1, <2>5, <2>7, <1>3 DEF GoesOn, Stopped
  <2>9. QED
    BY <1>1, <2>1, <2>3, <2>4, <2>8 DEF IInv
<1>9. QED
  BY <1>6, <1>7, <1>8

-----------------------------------------------------------------------------
(* The turns of the loop. *)

\* In a turn the parser looks at the byte behind those it has looked at, in the line at f.
LEMMA InTurn ==
  ASSUME IInv, ~skipped, Turn(parser.state)
  PROVE  /\ answer = "parsing" /\ p < write_pos /\ read_pos <= p
         /\ message \in Messages /\ parser \in ParserType
         /\ origin \in Int /\ read_pos \in Nat /\ write_pos \in Nat /\ p \in Int
         /\ LookedAt = origin + p /\ LookedAt \in Int /\ At(p) = message[LookedAt + 1]
         /\ \E f \in Feeds(message) :
              AtLine(f) /\ f \in Nat /\ LineStart(message, f) \in 1 .. f /\ LookedAt < f
<1>1. answer = "parsing" /\ p < write_pos
  BY DEF Turn
<1>2. /\ message \in Messages /\ BufferOK /\ TypeOK /\ read_pos <= p
      /\ (p <= write_pos => LookedAt = origin + p)
      /\ \E f \in Feeds(message) : AtLine(f)
  BY <1>1, InLoop
<1>3. origin \in Int /\ read_pos \in Nat /\ write_pos \in Nat /\ p \in Int /\ parser \in ParserType
  BY <1>2 DEF BufferOK, TypeOK
<1>4. LookedAt = origin + p
  BY <1>1, <1>2, <1>3
<1>5. PICK f \in Feeds(message) : AtLine(f)
  BY <1>2
<1>6. f \in Nat /\ LineStart(message, f) \in 1 .. f /\ LookedAt < f
  BY <1>1, <1>5, LineAhead
<1>7. QED
  BY <1>1, <1>2, <1>3, <1>4, <1>5, <1>6 DEF At

\* The first byte of a line.
LEMMA LineBeginsKeeps ==
  ASSUME IInv, ~skipped, LineBegins
  PROVE  IInv'
<1>1. Turn(parser.state) /\ parser.state = "start"
  BY DEF LineBegins, Turn
<1>2. /\ answer = "parsing" /\ p < write_pos /\ read_pos <= p
      /\ message \in Messages /\ parser \in ParserType
      /\ origin \in Int /\ read_pos \in Nat /\ write_pos \in Nat /\ p \in Int
      /\ LookedAt = origin + p /\ LookedAt \in Int /\ At(p) = message[LookedAt + 1]
  BY <1>1, InTurn
<1>3. PICK f \in Feeds(message) :
        AtLine(f) /\ f \in Nat /\ LineStart(message, f) \in 1 .. f /\ LookedAt < f
  BY <1>1, InTurn
<1> DEFINE s == LineStart(message, f)
           e == HeaderEnd(message)
<1>4. parser.index = 0 /\ LookedAt = s - 1 /\ f <= e
  BY <1>1, <1>3 DEF AtLine, Between, InHeader, InName, InSpace, BehindSpace, InText
<1>5. At(p) = message[s] /\ e \in Nat
  BY <1>2, <1>3, <1>4, HeaderEndIs, MessageType
<1>6. /\ At(p) = "cr" => f = e /\ f = s + 1
      /\ At(p) = "lf" => f = e /\ f = s
      /\ At(p) # "cr" /\ At(p) # "lf" => f < e /\ At(p) = "token"
  BY <1>2, <1>4, <1>5, FirstByte
<1>7. CASE At(p) = "cr"
  <2> DEFINE q == [parser EXCEPT !.state = "headers_almost_done"]
  <2>1. GoOn(q, p + 1)
    BY <1>1, <1>7 DEF LineBegins
  <2>2. q \in ParserType /\ q.nheader = parser.nheader
    BY <1>2 DEF ParserType, States
  <2>3. Between(message, f, q, s)
    BY <1>2, <1>3, <1>4, <1>6, <1>7 DEF Between, ParserType
  <2> HIDE DEF q
  <2>4. s \in Int /\ s = origin + (IF p + 1 <= write_pos THEN p + 1 ELSE write_pos)
    BY <1>2, <1>3, <1>4
  <2>5. QED
    BY <1>2, <1>3, <2>1, <2>2, <2>3, <2>4, GoOnKeeps
<1>8. CASE At(p) = "lf"
  <2>1. Succeed("ok", parser, p, found)
    BY <1>1, <1>8 DEF LineBegins
  <2>2. f = e /\ origin + p + 1 = e
    BY <1>2, <1>3, <1>4, <1>5, <1>6, <1>8
  <2>3. QED
    BY <1>2, <1>3, <2>1, <2>2, OkKeeps
<1>9. CASE At(p) # "cr" /\ At(p) # "lf"
  <2> DEFINE q == [parser EXCEPT !.field = p, !.index = @ + 1, !.state = "header_field"]
  <2>1. GoOn(q, p + 1)
    BY <1>1, <1>6, <1>9 DEF LineBegins
  <2>2. /\ q \in ParserType /\ q.nheader = parser.nheader
        /\ q.field = p /\ q.index = 1 /\ q.state = "header_field"
    <3>1. "header_field" \in States /\ parser.index + 1 \in Nat /\ parser.index + 1 = 1
      BY <1>2, <1>4 DEF ParserType, States
    <3>2. QED
      BY <1>2, <1>4, <3>1 DEF ParserType
  <2> HIDE DEF q
  <2>3. f \in HeaderLines(message)
    BY <1>2, <1>6, <1>9, HeaderLinesAre
  <2>4. Colon(message, f) \in s + 1 .. f - 1
    BY <1>2, <2>3, ColonOf
  <2>5. InHeader(message, f, q, s, origin)
    BY <1>2, <1>3, <1>4, <1>6, <1>9, <2>2, <2>4 DEF InHeader, InName
  <2>6. s \in Int /\ s = origin + (IF p + 1 <= write_pos THEN p + 1 ELSE write_pos)
    BY <1>2, <1>3, <1>4
  <2>7. QED
    BY <1>2, <1>3, <2>1, <2>2, <2>5, <2>6, GoOnKeeps
<1>10. QED
  BY <1>7, <1>8, <1>9

\* A byte of the name, or the colon behind it.
LEMMA InFieldKeeps ==
  ASSUME IInv, ~skipped, InField
  PROVE  IInv'
<1>1. Turn(parser.state) /\ parser.state = "header_field"
  BY DEF InField, Turn
<1>2. /\ answer = "parsing" /\ p < write_pos /\ read_pos <= p
      /\ message \in Messages /\ parser \in ParserType
      /\ origin \in Int /\ read_pos \in Nat /\ write_pos \in Nat /\ p \in Int
      /\ LookedAt = origin + p /\ LookedAt \in Int /\ At(p) = message[LookedAt + 1]
  BY <1>1, InTurn
<1>3. PICK f \in Feeds(message) :
        AtLine(f) /\ f \in Nat /\ LineStart(message, f) \in 1 .. f /\ LookedAt < f
  BY <1>1, InTurn
<1> DEFINE s == LineStart(message, f)
           c == Colon(message, f)
           n == LookedAt + 1
<1>4. /\ f < HeaderEnd(message) /\ parser.field \in Nat /\ origin + parser.field + 1 = s
      /\ parser.index = 1 /\ s <= LookedAt /\ LookedAt < c
  BY <1>1, <1>3 DEF AtLine, Between, InHeader, InName, InSpace, BehindSpace, InText
<1>5. f \in HeaderLines(message)
  BY <1>2, <1>4, HeaderLinesAre
<1>6. /\ c \in s + 1 .. f - 1 /\ message[c] = "colon"
      /\ \A i \in s .. c - 1 : message[i] = "token"
  BY <1>2, <1>5, ColonOf
<1>7. n \in Int /\ n = origin + (IF p + 1 <= write_pos THEN p + 1 ELSE write_pos)
  BY <1>2
<1>8. CASE n = c
  <2> DEFINE q == [parser EXCEPT !.len = p - parser.field, !.index = @ + 1,
                                 !.state = "space_before_value"]
  <2>1. GoOn(q, p + 1)
    BY <1>1, <1>2, <1>6, <1>8 DEF InField
  <2>2. /\ q \in ParserType /\ q.nheader = parser.nheader
        /\ q.field = parser.field /\ q.index = 2 /\ q.len = p - parser.field
        /\ q.state = "space_before_value"
    <3>1. "space_before_value" \in States /\ parser.index + 1 \in Nat /\ parser.index + 1 = 2 /\ p - parser.field \in Int
      BY <1>2, <1>4 DEF ParserType, States
    <3>2. QED
      BY <1>2, <1>4, <3>1 DEF ParserType
  <2> HIDE DEF q
  <2>3. q.len = c - s
    BY <1>2, <1>3, <1>4, <1>8, <2>2
  <2>4. InSpace(message, f, q, n)
    BY <1>3, <1>6, <1>7, <1>8, <2>2 DEF InSpace
  <2>5. InHeader(message, f, q, n, origin)
    BY <1>4, <2>2, <2>3, <2>4 DEF InHeader
  <2>6. QED
    BY <1>2, <1>3, <1>7, <2>1, <2>2, <2>5, GoOnKeeps
<1>9. CASE n # c
  <2>1. n \in s .. c - 1
    BY <1>2, <1>3, <1>4, <1>6, <1>9
  <2>2. GoOn(parser, p + 1)
    BY <1>1, <1>2, <1>6, <2>1 DEF InField
  <2>3. InHeader(message, f, parser, n, origin)
    BY <1>1, <1>3, <1>4, <1>6, <2>1 DEF InHeader, InName
  <2>4. QED
    BY <1>2, <1>3, <1>7, <2>2, <2>3, GoOnKeeps
<1>10. QED
  BY <1>8, <1>9

\* A byte behind the colon.
LEMMA BeforeValueKeeps ==
  ASSUME IInv, ~skipped, BeforeValue
  PROVE  IInv'
<1>1. Turn(parser.state) /\ parser.state = "space_before_value"
  BY DEF BeforeValue, Turn
<1>2. /\ answer = "parsing" /\ p < write_pos /\ read_pos <= p
      /\ message \in Messages /\ parser \in ParserType
      /\ origin \in Int /\ read_pos \in Nat /\ write_pos \in Nat /\ p \in Int
      /\ LookedAt = origin + p /\ LookedAt \in Int /\ At(p) = message[LookedAt + 1]
  BY <1>1, InTurn
<1>3. PICK f \in Feeds(message) :
        AtLine(f) /\ f \in Nat /\ LineStart(message, f) \in 1 .. f /\ LookedAt < f
  BY <1>1, InTurn
<1> DEFINE s == LineStart(message, f)
           c == Colon(message, f)
           n == LookedAt + 1
<1>4. /\ f < HeaderEnd(message) /\ parser.field \in Nat /\ origin + parser.field + 1 = s
      /\ parser.index = 2 /\ parser.len = c - s
      /\ c <= LookedAt /\ \A i \in c + 1 .. LookedAt : message[i] = "space"
  BY <1>1, <1>3 DEF AtLine, Between, InHeader, InName, InSpace, BehindSpace, InText
<1>5. f \in HeaderLines(message)
  BY <1>2, <1>4, HeaderLinesAre
<1>6. c \in s + 1 .. f - 1
  BY <1>2, <1>5, ColonOf
<1>7. n \in Int /\ n = origin + (IF p + 1 <= write_pos THEN p + 1 ELSE write_pos)
  BY <1>2
<1>8. /\ At(p) = "lf" => n = f /\ Ink(message, f) = {}
      /\ At(p) = "cr" => n = f - 1 /\ Ink(message, f) = {}
      /\ At(p) = "space" =>
           n < f /\ \A i \in c + 1 .. n : message[i] = "space"
      /\ At(p) \notin {"space", "cr", "lf"} =>
           n < f /\ Ink(message, f) # {} /\ Least(Ink(message, f)) = n
  BY <1>2, <1>3, <1>4, <1>5, ByteAfterSpace
<1>9. CASE At(p) = "space"
  <2>1. GoOn(parser, p + 1)
    BY <1>1, <1>9 DEF BeforeValue
  <2>2. InSpace(message, f, parser, n)
    BY <1>1, <1>2, <1>4, <1>6, <1>8, <1>9 DEF InSpace
  <2>3. InHeader(message, f, parser, n, origin)
    BY <1>4, <2>2 DEF InHeader
  <2>4. QED
    BY <1>1, <1>2, <1>3, <1>7, <2>1, <2>3, GoOnKeeps
<1>10. CASE At(p) = "cr"
  <2> DEFINE q == [parser EXCEPT !.state = "header_almost_done"]
  <2>1. GoOn(q, p + 1)
    BY <1>1, <1>10 DEF BeforeValue
  <2>2. /\ q \in ParserType /\ q.nheader = parser.nheader /\ q.len = parser.len
        /\ q.field = parser.field /\ q.index = 2 /\ q.state = "header_almost_done"
    BY <1>2, <1>4 DEF ParserType, States
  <2> HIDE DEF q
  <2>3. BehindSpace(message, f, q, n)
    BY <1>2, <1>4, <1>6, <1>8, <1>10, <2>2 DEF BehindSpace
  <2>4. InHeader(message, f, q, n, origin)
    BY <1>4, <2>2, <2>3 DEF InHeader
  <2>5. QED
    BY <1>2, <1>3, <1>7, <2>1, <2>2, <2>4, GoOnKeeps
<1>11. CASE At(p) = "lf"
  <2>1. EndHeader(p, 0)
    BY <1>1, <1>11 DEF BeforeValue
  <2>2. origin + p + 1 = f
    BY <1>2, <1>8, <1>11
  <2>3. QED
    BY <1>2, <1>3, <1>5, <1>8, <1>11, <2>1, <2>2, EndHeaderKeeps
<1>12. CASE At(p) \notin {"space", "cr", "lf"}
  <2> DEFINE q == [parser EXCEPT !.value = p, !.index = @ + 1, !.state = "header_value"]
  <2>1. GoOn(q, p + 1)
    BY <1>1, <1>12 DEF BeforeValue
  <2>2. /\ q \in ParserType /\ q.nheader = parser.nheader /\ q.len = parser.len
        /\ q.field = parser.field /\ q.index = 3 /\ q.value = p /\ q.state = "header_value"
    <3>1. "header_value" \in States /\ parser.index + 1 \in Nat /\ parser.index + 1 = 3
      BY <1>2, <1>4 DEF ParserType, States
    <3>2. QED
      BY <1>2, <1>4, <3>1 DEF ParserType
  <2> HIDE DEF q
  <2>3. InText(message, f, q, n, origin)
    BY <1>2, <1>8, <1>12, <2>2 DEF InText
  <2>4. InHeader(message, f, q, n, origin)
    BY <1>4, <2>2, <2>3 DEF InHeader
  <2>5. QED
    BY <1>2, <1>3, <1>7, <2>1, <2>2, <2>4, GoOnKeeps
<1>13. QED
  BY <1>9, <1>10, <1>11, <1>12

\* The line feed behind a "\r" of an empty value.
LEMMA AlmostDoneKeeps ==
  ASSUME IInv, ~skipped, AlmostDone
  PROVE  IInv'
<1>1. Turn(parser.state) /\ parser.state = "header_almost_done"
  BY DEF AlmostDone, Turn
<1>2. /\ answer = "parsing" /\ p < write_pos /\ read_pos <= p
      /\ message \in Messages /\ parser \in ParserType
      /\ origin \in Int /\ read_pos \in Nat /\ write_pos \in Nat /\ p \in Int
      /\ LookedAt = origin + p /\ LookedAt \in Int /\ At(p) = message[LookedAt + 1]
  BY <1>1, InTurn
<1>3. PICK f \in Feeds(message) :
        AtLine(f) /\ f \in Nat /\ LineStart(message, f) \in 1 .. f /\ LookedAt < f
  BY <1>1, InTurn
<1>4. f < HeaderEnd(message) /\ LookedAt = f - 1 /\ Ink(message, f) = {}
  BY <1>1, <1>3 DEF AtLine, Between, InHeader, InName, InSpace, BehindSpace, InText
<1>5. f \in HeaderLines(message)
  BY <1>2, <1>4, HeaderLinesAre
<1>6. origin + p + 1 = f /\ At(p) = "lf"
  BY <1>2, <1>3, <1>4 DEF Feeds
<1>7. EndHeader(p, 0)
  BY <1>1, <1>6 DEF AlmostDone
<1>8. QED
  BY <1>2, <1>3, <1>4, <1>5, <1>6, <1>7, EndHeaderKeeps

\* The line feed behind the "\r" of the empty line.
LEMMA AllAlmostDoneKeeps ==
  ASSUME IInv, ~skipped, AllAlmostDone
  PROVE  IInv'
<1>1. Turn(parser.state) /\ parser.state = "headers_almost_done"
  BY DEF AllAlmostDone, Turn
<1>2. /\ answer = "parsing" /\ p < write_pos /\ read_pos <= p
      /\ message \in Messages /\ parser \in ParserType
      /\ origin \in Int /\ read_pos \in Nat /\ write_pos \in Nat /\ p \in Int
      /\ LookedAt = origin + p /\ LookedAt \in Int /\ At(p) = message[LookedAt + 1]
  BY <1>1, InTurn
<1>3. PICK f \in Feeds(message) :
        AtLine(f) /\ f \in Nat /\ LineStart(message, f) \in 1 .. f /\ LookedAt < f
  BY <1>1, InTurn
<1>4. f = HeaderEnd(message) /\ f = LookedAt + 1
  BY <1>1, <1>3 DEF AtLine, Between, InHeader, InName, InSpace, BehindSpace, InText
<1>5. origin + p + 1 = f /\ At(p) = "lf"
  BY <1>2, <1>3, <1>4 DEF Feeds
<1> DEFINE q == [parser EXCEPT !.state = "start"]
<1>6. Succeed("ok", q, p, found) /\ q \in ParserType
  BY <1>1, <1>2, <1>5 DEF AllAlmostDone, ParserType, States
<1> HIDE DEF q
<1>7. QED
  BY <1>2, <1>3, <1>4, <1>5, <1>6, OkKeeps

\* The value without the spaces and the "\r" at its end.
LEMMA ValueLengthIs ==
  ASSUME NEW f \in HeaderLines(message), message \in Messages, origin \in Int,
         Ink(message, f) # {}, parser.value \in Nat,
         origin + parser.value + 1 = Least(Ink(message, f))
  PROVE  ValueLength(f - origin - 1) = Greatest(Ink(message, f)) - Least(Ink(message, f)) + 1
<1> DEFINE i == f - origin - 1
           end == IF At(i - 1) = "cr" THEN i - 1 ELSE i
           T == {parser.value} \cup {j \in parser.value .. end - 1 : At(j) # "space"}
           w == Greatest(Ink(message, f)) - origin - 1
           c == Colon(message, f)
<1>1. /\ f \in Nat /\ Ink(message, f) \subseteq c + 1 .. f - 1 /\ Ink(message, f) \subseteq Nat
      /\ Least(Ink(message, f)) \in Ink(message, f)
      /\ Greatest(Ink(message, f)) \in Ink(message, f)
      /\ \A j \in Ink(message, f) :
           Least(Ink(message, f)) <= j /\ j <= Greatest(Ink(message, f))
  BY InkIs, HeaderLinesAre, MessageType
<1>2. c \in Nat
  BY <1>1, ColonOf, LineStartOf, HeaderLinesAre
<1>3. Least(Ink(message, f)) \in Nat /\ Greatest(Ink(message, f)) \in Nat
  BY <1>1
<1>4. At(i - 1) = message[f - 1] /\ end \in {i - 1, i} /\ i \in Int /\ w \in Int
  BY <1>1, <1>3 DEF At
<1>5. w \in T
  <2>1. /\ Greatest(Ink(message, f)) \in c + 1 .. f - 1
        /\ message[Greatest(Ink(message, f))] # "space"
        /\ ~(Greatest(Ink(message, f)) = f - 1 /\ message[Greatest(Ink(message, f))] = "cr")
    BY <1>1 DEF Ink
  <2>2. At(w) = message[Greatest(Ink(message, f))]
    BY <1>3 DEF At
  <2>3. parser.value <= w
    BY <1>1, <1>3
  <2>4. w <= end - 1
    <3>1. CASE At(i - 1) = "cr"
      <4>1. Greatest(Ink(message, f)) # f - 1
        BY <2>1, <1>4, <3>1
      <4>2. QED
        BY <4>1, <2>1, <1>1, <1>2, <3>1
    <3>2. CASE At(i - 1) # "cr"
      BY <2>1, <1>1, <1>2, <3>2
    <3>3. QED
      BY <3>1, <3>2
  <2>5. QED
    BY <2>1, <2>2, <2>3, <2>4, <1>4
<1>6. ASSUME NEW k \in T
      PROVE  w >= k
  <2>1. CASE k = parser.value
    BY <1>1, <1>3, <2>1
  <2>2. CASE k \in parser.value .. end - 1 /\ At(k) # "space"
    <3>1. /\ k \in Int /\ parser.value <= k /\ k <= end - 1
          /\ message[origin + k + 1] # "space"
      BY <1>4, <2>2 DEF At
    <3>2. origin + k + 1 \in c + 1 .. f - 1
      <4>1. Least(Ink(message, f)) \in c + 1 .. f - 1
        BY <1>1
      <4>2. origin + k + 1 >= Least(Ink(message, f))
        BY <3>1, <1>3
      <4>3. k <= i - 1
        BY <3>1, <1>4
      <4>4. QED
        BY <4>1, <4>2, <4>3, <3>1, <1>1, <1>2
    <3>3. ~(origin + k + 1 = f - 1 /\ message[origin + k + 1] = "cr")
      <4>1. SUFFICES ASSUME origin + k + 1 = f - 1, message[origin + k + 1] = "cr"
                     PROVE  FALSE
        OBVIOUS
      <4>2. At(i - 1) = "cr" /\ k = i - 1
        BY <4>1, <1>4, <3>1, <1>1
      <4>3. QED
        BY <4>2, <3>1, <1>4
    <3>4. origin + k + 1 \in Ink(message, f)
      BY <3>1, <3>2, <3>3 DEF Ink
    <3>5. QED
      BY <3>1, <3>4, <1>1, <1>3
  <2>3. QED
    BY <2>1, <2>2
<1>7. T \subseteq Int
  BY <1>4
<1>8. Greatest(T) = w
  BY <1>5, <1>6, <1>7, GreatestIs
<1>9. ValueLength(i) = Greatest(T) - parser.value + 1
  BY DEF ValueLength
<1>10. QED
  BY <1>3, <1>8, <1>9

\* The rest of the value, up to the line feed if it is there.
LEMMA InValueKeeps ==
  ASSUME IInv, ~skipped, InValue
  PROVE  IInv'
<1>1. Turn(parser.state) /\ parser.state = "header_value"
  BY DEF InValue, Turn
<1>2. /\ answer = "parsing" /\ p < write_pos /\ read_pos <= p
      /\ message \in Messages /\ parser \in ParserType
      /\ origin \in Int /\ read_pos \in Nat /\ write_pos \in Nat /\ p \in Int
      /\ LookedAt = origin + p /\ LookedAt \in Int /\ At(p) = message[LookedAt + 1]
  BY <1>1, InTurn
<1>3. PICK f \in Feeds(message) :
        AtLine(f) /\ f \in Nat /\ LineStart(message, f) \in 1 .. f /\ LookedAt < f
  BY <1>1, InTurn
<1> DEFINE s == LineStart(message, f)
           c == Colon(message, f)
           ink == Ink(message, f)
           i == f - origin - 1
<1>4. /\ f < HeaderEnd(message) /\ parser.field \in Nat /\ origin + parser.field + 1 = s
      /\ parser.len = c - s /\ parser.index = 3
      /\ ink # {} /\ parser.value \in Nat /\ origin + parser.value + 1 = Least(ink)
      /\ origin + parser.value + 1 <= LookedAt
  BY <1>1, <1>3 DEF AtLine, Between, InHeader, InName, InSpace, BehindSpace, InText
<1>5. f \in HeaderLines(message) /\ i \in Int /\ origin + i + 1 = f /\ p <= i
  BY <1>2, <1>3, <1>4, HeaderLinesAre
<1>6. /\ Least(ink) \in Nat /\ Greatest(ink) \in Nat /\ Least(ink) <= Greatest(ink)
      /\ Least(ink) > c
  BY <1>2, <1>4, <1>5, InkIs, ColonOf
<1>7. c \in s + 1 .. f - 1 /\ \A k \in s .. f - 1 : message[k] # "lf"
  BY <1>2, <1>3, <1>5, ColonOf, LineStartOf
<1>8. At(i) = "lf"
  BY <1>3, <1>5 DEF At, Feeds
<1>9. ASSUME NEW j \in FeedsFrom(p)
      PROVE  i <= j /\ j \in Int /\ j < write_pos
  <2>1. j \in p .. write_pos - 1 /\ message[origin + j + 1] = "lf"
    BY DEF FeedsFrom, At
  <2>2. s <= origin + j + 1
    BY <1>2, <1>3, <1>4, <1>6, <1>7, <2>1
  <2>3. ~(origin + j + 1 <= f - 1)
    BY <1>2, <1>3, <1>7, <2>1, <2>2
  <2>4. QED
    BY <1>2, <1>3, <1>5, <2>1, <2>3
<1>10. CASE FeedsFrom(p) = {}
  <2>1. GoOn(parser, write_pos + 1)
    BY <1>1, <1>10 DEF InValue
  <2>2. ~(i < write_pos)
    BY <1>2, <1>5, <1>8, <1>10 DEF FeedsFrom
  <2> DEFINE n == origin + write_pos
  <2>3. n \in Int /\ n < f /\ LookedAt <= n
    BY <1>2, <1>3, <1>5, <2>2
  <2>4. InText(message, f, parser, n, origin)
    BY <1>1, <1>2, <1>4, <2>3 DEF InText
  <2>5. InHeader(message, f, parser, n, origin)
    BY <1>4, <2>4 DEF InHeader
  <2>6. n = origin + (IF write_pos + 1 <= write_pos THEN write_pos + 1 ELSE write_pos)
    BY <1>2
  <2> HIDE DEF n
  <2>7. write_pos + 1 \in Int /\ read_pos <= write_pos + 1 /\ write_pos + 1 <= write_pos + 1
    BY <1>2
  <2>8. QED
    BY <1>1, <1>2, <1>3, <2>1, <2>3, <2>5, <2>6, <2>7, GoOnKeeps
<1>11. CASE FeedsFrom(p) # {}
  <2>1. i < write_pos /\ i \in FeedsFrom(p)
    <3>1. PICK j \in FeedsFrom(p) : TRUE
      BY <1>11
    <3>2. i < write_pos
      BY <1>2, <1>5, <1>9, <3>1
    <3>3. QED
      BY <1>2, <1>5, <1>8, <3>2 DEF FeedsFrom
  <2>2. Least(FeedsFrom(p)) = i
    <3>1. FeedsFrom(p) \subseteq Int
      BY <1>9
    <3>2. QED
      BY <1>9, <2>1, <3>1, LeastIs
  <2> DEFINE n == ValueLength(i)
  <2>3. EndHeader(i, n)
    BY <1>1, <1>11, <2>2 DEF InValue
  <2>4. n = Greatest(ink) - Least(ink) + 1
    BY <1>2, <1>4, <1>5, ValueLengthIs
  <2> HIDE DEF n
  <2>5. n \in Int /\ n # 0
    BY <1>6, <2>4
  <2>6. Header(n) = HeaderAt(message, f)
    <3>1. /\ origin + parser.field + 1 = s
          /\ origin + parser.field + parser.len = c - 1
          /\ origin + parser.value + 1 = Least(ink)
          /\ origin + parser.value + n = Greatest(ink)
      BY <1>2, <1>3, <1>4, <1>6, <1>7, <2>4
    <3>2. QED
      BY <3>1 DEF Header, HeaderAt
  <2>7. QED
    BY <1>2, <1>3, <1>4, <1>5, <2>1, <2>3, <2>5, <2>6, EndHeaderKeeps
<1>12. QED
  BY <1>10, <1>11

-----------------------------------------------------------------------------
(* The ends of a call that needs more, and its beginning. *)

\* What is there has been looked at, and the line feed is further on.
LEMMA AllLookedAt ==
  ASSUME IInv, ~skipped, answer = "parsing", p >= write_pos
  PROVE  /\ message \in Messages /\ parser \in ParserType /\ p \in Int
         /\ headers \in Seq(HeaderType) /\ found \in Seq(HeaderType)
         /\ origin \in Int /\ read_pos \in Nat /\ write_pos \in Nat
         /\ Received \in Int /\ Received = origin + write_pos /\ LookedAt = Received
         /\ p = write_pos \/ (p = write_pos + 1 /\ parser.state = "header_value")
         /\ \E f \in Feeds(message) :
              /\ AtLine(f) /\ f \in Nat /\ LineStart(message, f) \in 1 .. f
              /\ Received < f /\ f <= HeaderEnd(message) /\ f <= Len(message)
<1>1. /\ message \in Messages /\ BufferOK /\ TypeOK
      /\ p <= write_pos + 1
      /\ p = write_pos + 1 => parser.state = "header_value"
      /\ p <= write_pos => LookedAt = origin + p
      /\ p > write_pos => LookedAt = Received
      /\ \E f \in Feeds(message) : AtLine(f)
  BY InLoop
<1>2. /\ origin \in Int /\ read_pos \in Nat /\ write_pos \in Nat /\ p \in Int
      /\ parser \in ParserType /\ headers \in Seq(HeaderType) /\ found \in Seq(HeaderType)
  BY <1>1 DEF BufferOK, TypeOK
<1>3. Received = origin + write_pos
  BY DEF Received
<1>4. /\ Received \in Int /\ LookedAt = Received
      /\ p = write_pos \/ (p = write_pos + 1 /\ parser.state = "header_value")
  BY <1>1, <1>2, <1>3
<1>5. PICK f \in Feeds(message) : AtLine(f)
  BY <1>1
<1>6. /\ f \in Nat /\ LineStart(message, f) \in 1 .. f /\ Received < f
      /\ f <= HeaderEnd(message) /\ f <= Len(message)
  BY <1>1, <1>4, <1>5, LineAhead, MessageType
<1>7. QED
  BY <1>1, <1>2, <1>3, <1>4, <1>5, <1>6

\* The next call will go on in the same line.
LEMMA AgainKeeps ==
  ASSUME IInv, ~skipped, answer = "parsing", p >= write_pos,
         NEW q \in ParserType, Again("again", q), skipped' = skipped,
         q.nheader = parser.nheader, BufferOK', LookedAt' \in Int,
         read_pos' <= Offset', Offset' <= write_pos' + 1,
         Offset' = write_pos' + 1 => q.state = "header_value",
         NEW f \in Feeds(message), AtLine(f), Passed' < f,
         Between(message, f, q, LookedAt') \/ InHeader(message, f, q, LookedAt', origin')
  PROVE  IInv'
<1>1. /\ message' = message /\ parser' = q /\ p' = 0 /\ found' = <<>> /\ count' = 0
      /\ headers' = headers \o found /\ answer' = "again"
  BY DEF Again, Return
<1>2. headers \in Seq(HeaderType) /\ found \in Seq(HeaderType) /\ message \in Messages
  BY DEF IInv, TypeOK
<1>3. headers \o found \in Seq(HeaderType) /\ <<>> \in Seq(HeaderType)
  BY <1>2, ConcatProperties, EmptySeq
<1>4. TypeOK'
  BY <1>1, <1>3 DEF TypeOK
<1>5. headers' \o found' = headers \o found
  BY <1>1, <1>3, ConcatEmptySeq
<1>6. AtLine(f)'
  BY <1>1, <1>5 DEF AtLine
<1>7. OffsetOK'
  BY <1>1 DEF OffsetOK
<1>8. GoesOn' /\ Stopped'
  BY <1>1, <1>6, <1>7 DEF GoesOn, Stopped
<1>9. QED
  BY <1>1, <1>2, <1>4, <1>8 DEF IInv

\* The buffer has room.
LEMMA WaitsKeeps ==
  ASSUME IInv, ~skipped, Waits
  PROVE  IInv'
<1>1. answer = "parsing" /\ p >= write_pos /\ Again("again", [parser EXCEPT !.last_pos = p])
  BY DEF Waits, Again
<1>2. /\ message \in Messages /\ parser \in ParserType /\ p \in Int
      /\ origin \in Int /\ read_pos \in Nat /\ write_pos \in Nat
      /\ Received \in Int /\ Received = origin + write_pos /\ LookedAt = Received
      /\ p = write_pos \/ (p = write_pos + 1 /\ parser.state = "header_value")
  BY <1>1, AllLookedAt
<1>3. PICK f \in Feeds(message) :
        /\ AtLine(f) /\ f \in Nat /\ LineStart(message, f) \in 1 .. f
        /\ Received < f /\ f <= HeaderEnd(message) /\ f <= Len(message)
  BY <1>1, AllLookedAt
<1> DEFINE q == [parser EXCEPT !.last_pos = p]
           skips == p > write_pos /\ Received < Len(message) /\ message[Received + 1] = "lf"
<1>4. /\ message' = message /\ origin' = origin /\ read_pos' = read_pos
      /\ write_pos' = write_pos /\ parser' = q /\ answer' = "again"
      /\ skipped' = (skipped \/ skips)
  BY <1>1 DEF Waits, Again, Return
<1>5. CASE skips
  <2>1. skipped' = TRUE
    BY <1>4, <1>5
  <2>2. QED
    BY <1>2, <1>4, <2>1 DEF IInv
<1>6. CASE ~skips
  <2>1. skipped' = skipped
    BY <1>4, <1>6 DEF IInv
  <2>2. /\ q \in ParserType /\ q.nheader = parser.nheader /\ q.state = parser.state
        /\ q.index = parser.index /\ q.field = parser.field /\ q.len = parser.len
        /\ q.value = parser.value /\ q.last_pos = p
    BY <1>2 DEF ParserType
  <2> HIDE DEF q
  <2>3. BufferOK'
    BY <1>4 DEF IInv, BufferOK, Received
  <2>4. Offset' = p /\ LookedAt' = Received /\ Passed' = origin + p
    BY <1>2, <1>4, <2>2 DEF Offset, LookedAt, Passed, Null
  <2>5. read_pos <= p /\ p <= write_pos + 1
    BY <1>1, InLoop
  <2>6. origin + p < f
    <3>1. CASE p = write_pos
      BY <1>2, <1>3, <3>1
    <3>2. CASE p = write_pos + 1
      <4>1. Received + 1 # f
        <5>1. message[f] = "lf"
          BY DEF Feeds
        <5>2. Received < Len(message)
          BY <1>2, <1>3, MessageType
        <5>3. QED
          BY <5>1, <5>2, <1>2, <1>6, <3>2
      <4>2. QED
        BY <4>1, <1>2, <1>3, <3>2
    <3>3. QED
      BY <3>1, <3>2, <1>2
  <2>7. \/ Between(message, f, q, Received)
        \/ InHeader(message, f, q, Received, origin)
    BY <1>2, <1>3, <2>2 DEF AtLine, Between, InHeader, InName, InSpace, BehindSpace, InText
  <2>8. Again("again", q)
    BY <1>1 DEF q
  <2>9. Offset' = write_pos' + 1 => q.state = "header_value"
    BY <1>2, <1>4, <2>2, <2>4
  <2>10. QED
    BY <1>1, <1>2, <1>3, <1>4, <2>1, <2>2, <2>3, <2>4, <2>5, <2>6, <2>7, <2>8, <2>9, AgainKeeps
<1>7. QED
  BY <1>5, <1>6

\* Only header lines that do not fit fill the buffer.
LEMMA GivesUpKeeps ==
  ASSUME IInv, ~skipped, GivesUp
  PROVE  IInv'
<1>1. /\ answer = "parsing" /\ p >= write_pos /\ Again("bad", [parser EXCEPT !.last_pos = p])
      /\ write_pos = Capacity /\ read_pos = 0
  BY DEF GivesUp, Again, Rejects
<1>2. /\ message \in Messages /\ parser \in ParserType /\ p \in Int
      /\ headers \in Seq(HeaderType) /\ found \in Seq(HeaderType)
      /\ origin \in Int /\ read_pos \in Nat /\ write_pos \in Nat
      /\ Received \in Int /\ Received = origin + write_pos
  BY <1>1, AllLookedAt
<1>3. PICK f \in Feeds(message) :
        /\ AtLine(f) /\ f \in Nat /\ Received < f /\ f <= HeaderEnd(message)
  BY <1>1, AllLookedAt
<1>4. /\ message' = message /\ origin' = origin /\ read_pos' = read_pos
      /\ write_pos' = write_pos /\ parser' = [parser EXCEPT !.last_pos = p]
      /\ p' = 0 /\ found' = <<>> /\ count' = 0
      /\ headers' = headers \o found /\ answer' = "bad" /\ skipped' = skipped
  BY <1>1 DEF GivesUp, Again, Return
<1>5. BufferOK'
  BY <1>4 DEF IInv, BufferOK, Received
<1>6. headers \o found \in Seq(HeaderType) /\ <<>> \in Seq(HeaderType)
  BY <1>2, ConcatProperties, EmptySeq
<1>7. TypeOK'
  <2>1. [parser EXCEPT !.last_pos = p] \in ParserType
    BY <1>2 DEF ParserType
  <2>2. QED
    BY <1>4, <1>6, <2>1 DEF TypeOK
<1>8. ParsedAsWhole'
  <2>1. HeadersBefore(message, f, (headers \o found) \o <<>>)
    BY <1>3, <1>6, ConcatEmptySeq DEF AtLine
  <2>2. /\ Len(headers \o found) <= Cardinality(Stored(message))
        /\ \A g \in Stored(message) :
             Number(message, g) <= Len(headers \o found) =>
               (headers \o found)[Number(message, g)] = HeaderAt(message, g)
    BY <1>2, <1>6, <2>1, PrefixParsed
  <2>3. QED
    BY <1>4, <2>2 DEF ParsedAsWhole
<1>9. BodyKept'
  BY <1>4 DEF BodyKept
<1>10. AcceptsWhatFits'
  <2>1. 0 <= origin
    BY <1>1 DEF IInv, BufferOK
  <2>2. HeaderEnd(message) \in Nat /\ Capacity \in Nat
    BY <1>2, HeaderEndIs, MessageType, HttpHeadersAssumption
  <2>3. ~(HeaderEnd(message) <= Capacity)
    BY <1>1, <1>2, <1>3, <2>1, <2>2
  <2>4. QED
    BY <1>4, <2>3 DEF AcceptsWhatFits
<1>11. GoesOn'
  BY <1>4 DEF GoesOn
<1>12. QED
  BY <1>2, <1>4, <1>5, <1>7, <1>8, <1>9, <1>10, <1>11 DEF IInv, Stopped

\* A full buffer is given up between headers.
LEMMA EmptiesKeeps ==
  ASSUME IInv, ~skipped, Empties
  PROVE  IInv'
<1>1. /\ answer = "parsing" /\ p >= write_pos
      /\ Again("again", [parser EXCEPT !.last_pos = Null]) /\ parser.index = 0
  BY DEF Empties, Again
<1>2. /\ message \in Messages /\ parser \in ParserType /\ p \in Int
      /\ origin \in Int /\ read_pos \in Nat /\ write_pos \in Nat
      /\ Received \in Int /\ Received = origin + write_pos /\ LookedAt = Received
  BY <1>1, AllLookedAt
<1>3. PICK f \in Feeds(message) :
        /\ AtLine(f) /\ f \in Nat /\ LineStart(message, f) \in 1 .. f
        /\ Received < f /\ f <= HeaderEnd(message) /\ f <= Len(message)
  BY <1>1, AllLookedAt
<1> DEFINE q == [parser EXCEPT !.last_pos = Null]
<1>4. /\ message' = message /\ origin' = Received /\ read_pos' = 0
      /\ write_pos' = 0 /\ parser' = q /\ answer' = "again" /\ skipped' = skipped
  BY <1>1 DEF Empties, Again, Return
<1>5. /\ q \in ParserType /\ q.nheader = parser.nheader /\ q.state = parser.state
      /\ q.index = 0 /\ q.last_pos = Null
  BY <1>1, <1>2 DEF ParserType, Null
<1> HIDE DEF q
<1>6. /\ 0 <= Received /\ Received <= Len(message) /\ Len(message) \in Nat
      /\ Capacity \in Nat
  BY <1>2, MessageType, HttpHeadersAssumption DEF IInv, BufferOK
<1>7. BufferOK'
  BY <1>2, <1>4, <1>6 DEF BufferOK, Received
<1>8. Offset' = 0 /\ LookedAt' = Received /\ Passed' = Received
  BY <1>2, <1>4, <1>5 DEF Offset, LookedAt, Passed
<1>9. Between(message, f, parser, Received)
  BY <1>1, <1>2, <1>3 DEF AtLine, InHeader, InName, InSpace, BehindSpace, InText
<1>10. Between(message, f, q, Received)
  BY <1>5, <1>9 DEF Between
<1>11. Again("again", q)
  BY <1>1 DEF q
<1>12. QED
  BY <1>1, <1>2, <1>3, <1>4, <1>5, <1>7, <1>8, <1>10, <1>11, AgainKeeps

\* A header that is not complete keeps its bytes and the pointers to them.
LEMMA MovesHeaderKeeps ==
  ASSUME IInv, ~skipped, MovesHeader
  PROVE  IInv'
<1>1. /\ answer = "parsing" /\ p >= write_pos
      /\ Again("again", MovedToStart(parser)) /\ parser.index # 0
  BY DEF MovesHeader, Again
<1>2. /\ message \in Messages /\ parser \in ParserType /\ p \in Int
      /\ origin \in Int /\ read_pos \in Nat /\ write_pos \in Nat
      /\ Received \in Int /\ Received = origin + write_pos /\ LookedAt = Received
  BY <1>1, AllLookedAt
<1>3. PICK f \in Feeds(message) :
        /\ AtLine(f) /\ f \in Nat /\ LineStart(message, f) \in 1 .. f
        /\ Received < f /\ f <= HeaderEnd(message) /\ f <= Len(message)
  BY <1>1, AllLookedAt
<1> DEFINE s == LineStart(message, f)
           c == Colon(message, f)
           ink == Ink(message, f)
           n == write_pos - parser.field
           q == MovedToStart(parser)
<1>4. /\ message' = message /\ origin' = origin + parser.field /\ read_pos' = 0
      /\ write_pos' = n /\ parser' = q /\ answer' = "again" /\ skipped' = skipped
  BY <1>1 DEF MovesHeader, Again, Return
<1>5. InHeader(message, f, parser, Received, origin)
  BY <1>1, <1>2, <1>3 DEF AtLine, Between
<1>6. /\ f \in HeaderLines(message) /\ parser.field \in Nat
      /\ origin + parser.field + 1 = s
  BY <1>2, <1>5, HeaderLinesAre DEF InHeader
<1>7. c \in s + 1 .. f - 1
  BY <1>2, <1>6, ColonOf
<1>8. s <= Received
  <2>1. ink # {} => Least(ink) \in c + 1 .. f - 1
    BY <1>2, <1>6, InkIs
  <2>2. s \in Int /\ c \in Int /\ s < c
    BY <1>3, <1>7
  <2>3. CASE InName(message, f, parser, Received)
    BY <2>3 DEF InName
  <2>4. CASE InSpace(message, f, parser, Received)
    BY <1>2, <2>2, <2>4 DEF InSpace
  <2>5. CASE BehindSpace(message, f, parser, Received)
    BY <1>2, <2>2, <2>5 DEF BehindSpace
  <2>6. CASE InText(message, f, parser, Received, origin)
    <3>1. Least(ink) <= Received /\ Least(ink) \in c + 1 .. f - 1
      BY <2>1, <2>6 DEF InText
    <3>2. QED
      BY <1>2, <2>2, <3>1
  <2>7. QED
    BY <1>5, <2>3, <2>4, <2>5, <2>6 DEF InHeader
<1>9. n \in Nat /\ n <= write_pos
  BY <1>2, <1>3, <1>6, <1>8
<1>10. /\ parser.index = 3 => ink # {} /\ parser.value \in Nat
                              /\ origin + parser.value + 1 = Least(ink)
       /\ parser.index = 3 <=> parser.state = "header_value"
  BY <1>5 DEF InHeader, InName, InSpace, BehindSpace, InText
<1>11. parser.index = 3 => parser.value - parser.field \in Nat
  <2>1. SUFFICES ASSUME parser.index = 3
                 PROVE  parser.value - parser.field \in Nat
    OBVIOUS
  <2>2. Least(ink) \in ink /\ ink \subseteq c + 1 .. f - 1
    BY <1>2, <1>6, <1>10, <2>1, InkIs
  <2>3. Least(ink) \in Int /\ c \in Int /\ s \in Int /\ s < c /\ c < Least(ink)
    BY <1>3, <1>7, <2>2
  <2>4. origin + parser.value + 1 = Least(ink) /\ parser.value \in Nat
    BY <1>10, <2>1
  <2> HIDE DEF s, c, ink
  <2>5. QED
    BY <1>2, <1>6, <2>3, <2>4
<1>12. /\ q \in ParserType /\ q.nheader = parser.nheader /\ q.state = parser.state
       /\ q.index = parser.index /\ q.len = parser.len /\ q.field = 0 /\ q.last_pos = n
       /\ parser.index = 3 => q.value = parser.value - parser.field
  <2> DEFINE v == IF parser.index = 3 THEN parser.value - parser.field ELSE parser.value
  <2>1. n \in Int /\ v \in Int
    BY <1>2, <1>9, <1>11 DEF ParserType
  <2>2. q = [parser EXCEPT !.last_pos = n, !.field = 0, !.value = v]
    BY <1>2 DEF MovedToStart, ParserType
  <2> HIDE DEF n, v, q
  <2>3. q \in ParserType
    <3> DEFINE a == [parser EXCEPT !.last_pos = n]
               b == [a EXCEPT !.field = 0]
    <3>1. a \in ParserType
      BY <1>2, <2>1 DEF ParserType
    <3> HIDE DEF a
    <3>2. b \in ParserType
      BY <3>1 DEF ParserType
    <3> HIDE DEF b
    <3>3. [b EXCEPT !.value = v] \in ParserType
      BY <2>1, <3>2 DEF ParserType
    <3>4. q = [b EXCEPT !.value = v]
      BY <1>2, <2>2 DEF a, b, ParserType
    <3>5. QED
      BY <3>3, <3>4
  <2>4. /\ q.nheader = parser.nheader /\ q.state = parser.state
        /\ q.index = parser.index /\ q.len = parser.len /\ q.field = 0 /\ q.last_pos = n
        /\ q.value = v
    BY <1>2, <2>2 DEF ParserType
  <2>5. QED
    BY <2>3, <2>4 DEF v
<1> HIDE DEF q
<1>13. /\ Received <= Len(message) /\ Len(message) \in Nat
       /\ Capacity \in Nat /\ write_pos <= Capacity
  BY <1>2, MessageType, HttpHeadersAssumption DEF IInv, BufferOK
<1>14. origin + parser.field + n = Received
  BY <1>2, <1>6
<1>15. BufferOK'
  <2>1. 0 <= origin + parser.field /\ origin + parser.field \in Int
    BY <1>2, <1>3, <1>6
  <2>2. n <= Capacity
    BY <1>2, <1>9, <1>13
  <2>3. Received' = Received
    BY <1>4, <1>14 DEF Received
  <2> HIDE DEF n
  <2>4. QED
    BY <1>4, <1>9, <1>13, <2>1, <2>2, <2>3 DEF BufferOK
<1>16. Offset' = n
  BY <1>4, <1>9, <1>12 DEF Offset, Null
<1>17. LookedAt' = Received /\ Passed' = Received
  BY <1>4, <1>9, <1>14, <1>16 DEF LookedAt, Passed
<1>18. InHeader(message, f, q, Received, origin + parser.field)
  <2>1. f < HeaderEnd(message) /\ q.field \in Nat /\ origin + parser.field + q.field + 1 = s
    BY <1>2, <1>5, <1>6, <1>12 DEF InHeader
  <2>2. CASE InName(message, f, parser, Received)
    BY <1>12, <2>1, <2>2 DEF InHeader, InName
  <2>3. CASE ~InName(message, f, parser, Received)
    <3>1. /\ parser.len = c - s
          /\ \/ InSpace(message, f, parser, Received)
             \/ BehindSpace(message, f, parser, Received)
             \/ InText(message, f, parser, Received, origin)
      BY <1>5, <2>3 DEF InHeader
    <3>2. CASE InSpace(message, f, parser, Received)
      BY <1>12, <2>1, <3>1, <3>2 DEF InHeader, InSpace
    <3>3. CASE BehindSpace(message, f, parser, Received)
      BY <1>12, <2>1, <3>1, <3>3 DEF InHeader, BehindSpace
    <3>4. CASE InText(message, f, parser, Received, origin)
      <4>1. q.value \in Nat /\ origin + parser.field + q.value = origin + parser.value
        BY <1>2, <1>6, <1>10, <1>11, <1>12, <3>4 DEF InText
      <4>2. InText(message, f, q, Received, origin + parser.field)
        BY <1>2, <1>6, <1>12, <3>4, <4>1 DEF InText
      <4>3. QED
        BY <1>12, <2>1, <3>1, <4>2 DEF InHeader
    <3>5. QED
      BY <3>1, <3>2, <3>3, <3>4
  <2>4. QED
    BY <2>2, <2>3
<1>19. Again("again", q)
  BY <1>1 DEF q
<1>20. QED
  BY <1>1, <1>2, <1>3, <1>4, <1>9, <1>12, <1>15, <1>16, <1>17, <1>18, <1>19, AgainKeeps

\* A call goes on where the last one stopped.
LEMMA BeginKeeps ==
  ASSUME IInv, ~skipped, answer \in {"again", "done"}, Begin, BufferOK',
         write_pos' \in Nat,
         write_pos' = write_pos \/ (answer = "again" /\ write_pos' > write_pos)
  PROVE  IInv'
<1>1. /\ message' = message /\ origin' = origin /\ read_pos' = read_pos /\ parser' = parser
      /\ found' = found /\ count' = count /\ headers' = headers /\ skipped' = skipped
      /\ answer' = "parsing" /\ p' = Offset
  BY DEF Begin, Offset
<1>2. /\ message \in Messages /\ BufferOK /\ TypeOK /\ OffsetOK
      /\ origin \in Int /\ write_pos \in Nat /\ read_pos \in Nat
  BY DEF IInv, GoesOn, BufferOK
<1>3. PICK f \in Feeds(message) : AtLine(f)
  BY DEF IInv, GoesOn
<1>4. /\ f \in Nat /\ LookedAt \in Int /\ LookedAt < f /\ LineStart(message, f) \in 1 .. f
      /\ Passed < f
  BY <1>3, LineAhead DEF AtLine
<1>5. Offset \in Int /\ read_pos <= Offset /\ Offset <= write_pos + 1
      /\ (Offset = write_pos + 1 => parser.state = "header_value")
  BY <1>2 DEF OffsetOK, Offset, TypeOK, ParserType
<1>6. Offset' = Offset /\ Passed' = Passed /\ Passed = origin + Offset
  BY <1>1 DEF Offset, Passed
<1> DEFINE w == write_pos'
<1>w. w \in Nat /\ write_pos <= w
  BY <1>2
<1> HIDE DEF w
<1>7. OffsetOK'
  <2>1. Offset <= w + 1 /\ (Offset = w + 1 => Offset = write_pos + 1)
    BY <1>2, <1>5, <1>w
  <2>2. QED
    BY <1>1, <1>5, <1>6, <2>1 DEF OffsetOK, w
<1>8. TypeOK'
  BY <1>1, <1>2, <1>5 DEF TypeOK
<1>9. \/ LookedAt' = LookedAt
      \/ LookedAt' = LookedAt + 1 /\ LookedAt' < f /\ parser.state = "header_value"
  <2>1. /\ LookedAt = origin + (IF Offset <= write_pos THEN Offset ELSE write_pos)
        /\ LookedAt' = origin + (IF Offset <= w THEN Offset ELSE w)
        /\ origin + Offset < f
    BY <1>1, <1>4, <1>6 DEF LookedAt, w
  <2>2. CASE Offset <= write_pos
    BY <1>2, <1>5, <1>w, <2>1, <2>2
  <2>3. CASE Offset = write_pos + 1
    <3>1. CASE w = write_pos
      BY <1>2, <2>1, <2>3, <3>1
    <3>2. CASE w >= write_pos + 1
      <4>1. LookedAt = origin + write_pos /\ LookedAt' = origin + write_pos + 1
        BY <1>2, <1>w, <2>1, <2>3, <3>2
      <4>2. QED
        BY <1>2, <1>5, <2>1, <2>3, <4>1
    <3>3. QED
      BY <1>2, <1>w, <3>1, <3>2
  <2>4. QED
    BY <1>2, <1>5, <2>2, <2>3
<1>10. \/ Between(message, f, parser, LookedAt')
       \/ InHeader(message, f, parser, LookedAt', origin)
  <2>1. CASE LookedAt' = LookedAt
    BY <1>3, <2>1 DEF AtLine
  <2>2. CASE LookedAt' = LookedAt + 1 /\ LookedAt' < f /\ parser.state = "header_value"
    <3>1. /\ f < HeaderEnd(message)
          /\ parser.field \in Nat /\ origin + parser.field + 1 = LineStart(message, f)
          /\ parser.len = Colon(message, f) - LineStart(message, f)
          /\ InText(message, f, parser, LookedAt, origin)
      BY <1>3, <2>2 DEF AtLine, Between, InHeader, InName, InSpace, BehindSpace
    <3>2. InText(message, f, parser, LookedAt', origin)
      BY <1>2, <1>4, <2>2, <3>1 DEF InText
    <3>3. QED
      BY <3>1, <3>2 DEF InHeader
  <2>3. QED
    BY <1>9, <2>1, <2>2
<1>11. AtLine(f)'
  BY <1>1, <1>3, <1>10 DEF AtLine
<1>12. GoesOn' /\ Stopped'
  BY <1>1, <1>7, <1>11 DEF GoesOn, Stopped
<1>13. QED
  BY <1>1, <1>2, <1>8, <1>12 DEF IInv

\* A chunk is read and a call begins.
LEMMA ReadAndParseKeeps ==
  ASSUME IInv, ~skipped, NEW k \in 1 .. Capacity, ReadAndParse(k)
  PROVE  IInv'
<1>1. /\ write_pos' = write_pos + k /\ write_pos + k <= Capacity
      /\ Received + k <= Len(message) /\ answer = "again" /\ Begin
  BY DEF ReadAndParse
<1>2. /\ message \in Messages /\ BufferOK /\ origin \in Int /\ write_pos \in Nat
      /\ read_pos \in Nat /\ Capacity \in Nat /\ k \in Nat /\ k > 0
      /\ read_pos <= write_pos
  BY HttpHeadersAssumption DEF IInv, BufferOK
<1>3. message' = message /\ origin' = origin /\ read_pos' = read_pos
  BY <1>1 DEF Begin
<1>4. Received' = Received + k
  BY <1>1, <1>2, <1>3 DEF Received
<1>5. BufferOK'
  BY <1>1, <1>2, <1>3, <1>4 DEF BufferOK
<1>6. write_pos' \in Nat /\ write_pos' > write_pos
  BY <1>1, <1>2
<1>7. QED
  BY <1>1, <1>5, <1>6, BeginKeeps

\* A call begins for what is there.
LEMMA ParseMoreKeeps ==
  ASSUME IInv, ~skipped, ParseMore
  PROVE  IInv'
<1>1. write_pos' = write_pos /\ answer = "done" /\ Begin
  BY DEF ParseMore
<1>2. message' = message /\ origin' = origin /\ read_pos' = read_pos
  BY <1>1 DEF Begin
<1>3. BufferOK' /\ write_pos' \in Nat
  BY <1>1, <1>2 DEF IInv, BufferOK, Received
<1>4. QED
  BY <1>1, <1>3, BeginKeeps

-----------------------------------------------------------------------------
(* The theorems. *)

\* At the beginning nothing has been looked at.
LEMMA Initial == Init => IInv
<1> SUFFICES ASSUME Init
             PROVE  IInv
  OBVIOUS
<1>1. /\ message \in Messages /\ parser = NewParser /\ headers = <<>> /\ p = 0
      /\ found = <<>> /\ count = 0 /\ skipped = FALSE /\ answer \in {"again", "done"}
  BY DEF Init
<1>2. /\ Capacity \in Nat /\ RequestLine \in Nat /\ Len(message) \in Nat
  BY <1>1, HttpHeadersAssumption, MessageType
<1>3. /\ origin \in Int /\ read_pos \in Nat /\ write_pos \in Nat
      /\ origin + read_pos = 0 /\ read_pos <= write_pos /\ write_pos <= Capacity
      /\ origin + write_pos <= Len(message) /\ (read_pos = 0 => 0 <= origin)
  BY <1>2 DEF Init
<1>4. BufferOK
  BY <1>3 DEF BufferOK, Received
<1>5. TypeOK
  <2>1. NewParser \in ParserType
    BY DEF NewParser, ParserType, States, Null
  <2>2. QED
    BY <1>1, <2>1, EmptySeq DEF TypeOK
<1>6. Offset = read_pos /\ LookedAt = 0 /\ Passed = 0
  BY <1>1, <1>3 DEF Offset, NewParser, LookedAt, Passed
<1>7. OffsetOK
  BY <1>1, <1>3, <1>6 DEF OffsetOK
<1>8. PICK f \in Feeds(message) :
        /\ f <= HeaderEnd(message) /\ LineStart(message, f) = 1
        /\ \A h \in Feeds(message) : ~(h < f)
  BY <1>1, FirstLine
<1>9. AtLine(f)
  <2>1. Before(Stored(message), f) = {} /\ Before(HeaderLines(message), f) = {}
    BY <1>1, <1>8, HeaderLinesAre DEF Before
  <2>2. headers \o found = <<>>
    BY <1>1, EmptySeq, ConcatEmptySeq
  <2>3. HeadersBefore(message, f, headers \o found)
    BY <2>1, <2>2, FS_EmptySet, EmptySeq DEF HeadersBefore
  <2>4. Between(message, f, parser, LookedAt)
    BY <1>1, <1>6, <1>8 DEF Between, NewParser
  <2>5. 0 < f
    BY <1>1, MessageType
  <2>6. parser.nheader = Cardinality(Before(HeaderLines(message), f))
    BY <1>1, <2>1, FS_EmptySet DEF NewParser
  <2>7. QED
    BY <1>6, <1>8, <2>3, <2>4, <2>5, <2>6 DEF AtLine
<1>10. GoesOn /\ Stopped
  BY <1>1, <1>7, <1>9 DEF GoesOn, Stopped
<1>11. QED
  BY <1>1, <1>4, <1>5, <1>10 DEF IInv

\* A skipped line feed stays skipped, and no step changes the message.
LEMMA SkippedStays ==
  ASSUME Next
  PROVE  message' = message /\ (skipped' = skipped \/ (skipped => skipped'))
<1> USE DEF Return, Fail, Succeed, GoOn, Begin, Again
<1>1. ASSUME NEW k \in 1 .. Capacity, ReadAndParse(k)
      PROVE  message' = message /\ skipped' = skipped
  BY <1>1 DEF ReadAndParse
<1>2. CASE ParseMore
  BY <1>2 DEF ParseMore
<1>3. CASE LineBegins
  BY <1>3 DEF LineBegins
<1>4. CASE InField
  BY <1>4 DEF InField
<1>5. ASSUME NEW i, NEW n, EndHeader(i, n)
      PROVE  message' = message /\ skipped' = skipped
  BY <1>5 DEF EndHeader
<1>6. CASE BeforeValue
  BY <1>5, <1>6 DEF BeforeValue
<1>7. CASE InValue
  BY <1>5, <1>7 DEF InValue
<1>8. CASE AlmostDone
  BY <1>5, <1>8 DEF AlmostDone
<1>9. CASE AllAlmostDone
  BY <1>9 DEF AllAlmostDone
<1>10. CASE Waits
  BY <1>10 DEF Waits
<1>11. CASE GivesUp
  BY <1>11 DEF GivesUp
<1>12. CASE Empties
  BY <1>12 DEF Empties
<1>13. CASE MovesHeader
  BY <1>13 DEF MovesHeader
<1>14. QED
  BY <1>1, <1>2, <1>3, <1>4, <1>6, <1>7, <1>8, <1>9, <1>10, <1>11, <1>12, <1>13 DEF Next

\* Every step keeps the invariant.
LEMMA Inductive == IInv /\ [Next]_vars => IInv'
<1> SUFFICES ASSUME IInv, [Next]_vars
             PROVE  IInv'
  OBVIOUS
<1>1. CASE UNCHANGED vars
  <2>1. BufferOK => BufferOK'
    BY <1>1 DEF vars, BufferOK, Received
  <2>2. TypeOK => TypeOK'
    BY <1>1 DEF vars, TypeOK
  <2>3. Offset' = Offset /\ LookedAt' = LookedAt /\ Passed' = Passed
    BY <1>1 DEF vars, Offset, LookedAt, Passed
  <2>4. \A f \in Feeds(message) : AtLine(f) => AtLine(f)'
    BY <1>1, <2>3 DEF vars, AtLine
  <2>5. GoesOn => GoesOn'
    BY <1>1, <2>3, <2>4 DEF vars, GoesOn, OffsetOK
  <2>6. Stopped => Stopped'
    BY <1>1 DEF vars, Stopped, ParsedAsWhole, BodyKept, AcceptsWhatFits
  <2>7. message' = message /\ skipped' = skipped
    BY <1>1 DEF vars
  <2>8. QED
    BY <2>1, <2>2, <2>5, <2>6, <2>7 DEF IInv
<1>2. CASE Next /\ skipped
  <2>1. message' = message /\ (skipped' = skipped \/ (skipped => skipped'))
    BY <1>2, SkippedStays
  <2>2. QED
    BY <1>2, <2>1 DEF IInv
<1>3. CASE Next /\ ~skipped
  <2>1. CASE \E k \in 1 .. Capacity : ReadAndParse(k)
    BY <1>3, <2>1, ReadAndParseKeeps
  <2>2. CASE ParseMore
    BY <1>3, <2>2, ParseMoreKeeps
  <2>3. CASE LineBegins
    BY <1>3, <2>3, LineBeginsKeeps
  <2>4. CASE InField
    BY <1>3, <2>4, InFieldKeeps
  <2>5. CASE BeforeValue
    BY <1>3, <2>5, BeforeValueKeeps
  <2>6. CASE InValue
    BY <1>3, <2>6, InValueKeeps
  <2>7. CASE AlmostDone
    BY <1>3, <2>7, AlmostDoneKeeps
  <2>8. CASE AllAlmostDone
    BY <1>3, <2>8, AllAlmostDoneKeeps
  <2>9. CASE Waits
    BY <1>3, <2>9, WaitsKeeps
  <2>10. CASE GivesUp
    BY <1>3, <2>10, GivesUpKeeps
  <2>11. CASE Empties
    BY <1>3, <2>11, EmptiesKeeps
  <2>12. CASE MovesHeader
    BY <1>3, <2>12, MovesHeaderKeeps
  <2>13. QED
    BY <1>3, <2>1, <2>2, <2>3, <2>4, <2>5, <2>6, <2>7, <2>8, <2>9, <2>10, <2>11, <2>12
       DEF Next
<1>4. QED
  BY <1>1, <1>2, <1>3

\* The invariant holds in every state of every run.
THEOREM HeadersInvariant == Spec => []IInv
<1>1. Init => IInv
  BY Initial
<1>2. IInv /\ [Next]_vars => IInv'
  BY Inductive
<1>3. QED
  BY <1>1, <1>2, PTL DEF Spec

\* Whatever the chunks, the table gets the headers of the message, whole, in order, and
\* all of them before HTTP_OK.
THEOREM HeadersParsedAsWhole == Spec => []ParsedAsWhole
<1>1. IInv => ParsedAsWhole
  <2>1. SUFFICES ASSUME IInv, ~skipped
                 PROVE  ParsedAsWhole
    BY DEF ParsedAsWhole
  <2>2. answer = "ok" => ParsedAsWhole
    BY <2>1 DEF IInv, Stopped
  <2>3. QED
    BY <2>1, <2>2, StoredPrefix DEF ParsedAsWhole
<1>2. QED
  BY <1>1, HeadersInvariant, PTL

\* When the headers are done, the buffer begins with the body.
THEOREM BodyIsKept == Spec => []BodyKept
<1>1. IInv => BodyKept
  BY DEF IInv, Stopped, BodyKept
<1>2. QED
  BY <1>1, HeadersInvariant, PTL

\* Header lines that fit into the buffer, and are not too many, are not rejected.
THEOREM FittingAccepted == Spec => []AcceptsWhatFits
<1>1. IInv => AcceptsWhatFits
  BY DEF IInv, Stopped, AcceptsWhatFits
<1>2. QED
  BY <1>1, HeadersInvariant, PTL

=============================================================================
