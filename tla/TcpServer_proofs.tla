-------------------------- MODULE TcpServer_proofs --------------------------
(***************************************************************************)
(* For every number of handlers, signals, forks and pids: sets of handlers *)
(* stay consistent, an emission reaches the handlers it found, signals     *)
(* with a handler are watched, and children are neither lost nor doubled.  *)
(* For every number of connections and every limit: the server counts the  *)
(* connections it serves, keeps to its limit, and ends the process only    *)
(* when none is left and none can come; the process's handlers and         *)
(* children are as well kept with a server as without.                     *)
(***************************************************************************)
EXTENDS TcpServer, SequenceTheorems, FiniteSetTheorems, TLAPS

-----------------------------------------------------------------------------
(* The process. *)

Emissions ==
  [name : Names, i : Nat, size : Nat, values : Seq(Handlers), shared : BOOLEAN,
   from : Seq(Handlers), deleted : BOOLEAN, called : Seq(Handlers)]

\* The sequence a is the beginning of b.
Begins(a, b) == Len(a) <= Len(b) /\ \A n \in 1 .. Len(a) : b[n] = a[n]

\* An emission of the handlers in set s, which may have changed since: without a
\* deletion, handlers have only been added behind those it found.
InOrder(e, s) ==
  /\ e.i <= e.size
  /\ e.size = Len(e.from)
  /\ e.size # 0
  /\ ~e.deleted => Begins(e.from, Walked(e, s)) /\ e.called = SubSeq(e.from, 1, e.i)

HandlersInv ==
  /\ process \in {"runs", "exited", "died"}
  /\ handlers \in [Names -> Sets]
  /\ \A n \in Names : Consistent(handlers[n])
  /\ watched \subseteq Signals
  /\ failed \subseteq Signals
  /\ HandledSignalsWatched
  /\ emitting \in Seq(Emissions)
  /\ \A k \in 1 .. Len(emitting) : InOrder(emitting[k], handlers[emitting[k].name])
  /\ process = "died" => emitting # <<>> /\ Head(emitting).deleted

ChildInv ==
  /\ child \in [Pids -> {"free", "alive", "exited"}]
  /\ pids \in [Pids -> Jobs \cup {None}]
  /\ onexit \in Pids \cup {None}
  /\ forked \subseteq Jobs
  /\ dropped \subseteq Forever \cap forked
  /\ onexit # None => child[onexit] = "exited"
  /\ \A p \in Pids : pids[p] # None <=> child[p] # "free"
  /\ \A p \in Pids : pids[p] # None => pids[p] \in forked
  /\ \A p, q \in Pids : pids[p] = pids[q] /\ pids[p] # None => p = q
  /\ \A j \in forked \cap Forever : j \in dropped <=> \A p \in Pids : pids[p] # j

\* The inductive invariant.
PInv == HandlersInv /\ ChildInv

-----------------------------------------------------------------------------

\* Set:add keeps members and places together; the members there were stay where they are.
LEMMA AddKeeps ==
  ASSUME NEW s \in Sets, Consistent(s), NEW v \in Handlers
  PROVE  /\ Add(s, v) \in Sets /\ Consistent(Add(s, v))
         /\ Begins(s.values, Add(s, v).values)
<1>1. /\ s.values \in Seq(Handlers) /\ s.keys \in [Handlers -> Nat] /\ s.size \in Nat
      /\ s.size = Len(s.values)
  BY DEF Sets, Consistent
<1>2. CASE s.keys[v] # 0
  BY <1>1, <1>2 DEF Add, Begins
<1>3. CASE s.keys[v] = 0
  <2> DEFINE t == Add(s, v)
             a == Append(s.values, v)
  <2>1. /\ a \in Seq(Handlers) /\ Len(a) = s.size + 1
        /\ \A n \in 1 .. s.size : a[n] = s.values[n]
        /\ a[s.size + 1] = v
    BY <1>1, AppendProperties
  <2>2. /\ t.values = a /\ t.keys = [s.keys EXCEPT ![v] = s.size + 1] /\ t.size = s.size + 1
        /\ t = [values |-> t.values, keys |-> t.keys, size |-> t.size]
    BY <1>3 DEF Add
  <2> HIDE DEF a, t
  <2>3. t \in Sets
    BY <1>1, <2>1, <2>2 DEF Sets
  <2>4. \A w \in Handlers : t.keys[w] = IF w = v THEN s.size + 1 ELSE s.keys[w]
    BY <1>1, <2>2
  <2>5. ASSUME NEW w \in Handlers, NEW n \in 1 .. t.size
        PROVE  t.values[n] = w <=> t.keys[w] = n
    <3>1. CASE n = s.size + 1
      <4>1. t.values[n] = v
        BY <2>1, <2>2, <3>1
      <4>2. w # v => t.keys[w] <= s.size /\ t.keys[w] \in Nat
        BY <1>1, <2>4 DEF Consistent
      <4>3. QED
        BY <1>1, <2>4, <3>1, <4>1, <4>2
    <3>2. CASE n \in 1 .. s.size
      <4>1. t.values[n] = s.values[n] /\ (s.values[n] = w <=> s.keys[w] = n)
        BY <2>1, <2>2, <3>2 DEF Consistent
      <4>2. QED
        BY <1>1, <1>3, <2>4, <3>2, <4>1
    <3>3. QED
      BY <1>1, <2>2, <3>1, <3>2
  <2>6. ASSUME NEW w \in Handlers PROVE t.keys[w] <= t.size
    <3>1. s.keys[w] <= s.size /\ s.keys[w] \in Nat
      BY <1>1 DEF Consistent
    <3>2. t.size = s.size + 1 /\ t.keys[w] = IF w = v THEN s.size + 1 ELSE s.keys[w]
      BY <2>2, <2>4
    <3>3. QED
      BY <1>1, <3>1, <3>2
  <2>7. QED
    BY <1>1, <2>1, <2>2, <2>3, <2>5, <2>6 DEF Consistent, Begins, t
<1>4. QED
  BY <1>2, <1>3

\* Set:delete keeps members and places together when it moves the last member.
LEMMA DeleteKeeps ==
  ASSUME NEW s \in Sets, Consistent(s), NEW v \in Handlers
  PROVE  /\ Delete(s, v) \in Sets /\ Consistent(Delete(s, v))
         /\ s.keys[v] = 0 => Delete(s, v) = s
<1>1. /\ s.values \in Seq(Handlers) /\ s.keys \in [Handlers -> Nat] /\ s.size \in Nat
      /\ s.size = Len(s.values)
  BY DEF Sets, Consistent
<1>2. CASE s.keys[v] = 0
  BY <1>2 DEF Delete
<1>3. CASE s.keys[v] # 0
  <2> DEFINE t == Delete(s, v)
             k == s.keys[v]
             z == s.size
             top == s.values[z]
             short == SubSeq(s.values, 1, z - 1)
  <2>1. k \in 1 .. z /\ s.values[k] = v /\ z \in 1 .. z /\ z \in Nat
    BY <1>1, <1>3 DEF Consistent
  <2>2. top \in Handlers /\ s.keys[top] = z
    BY <1>1, <2>1, ElementOfSeq DEF Consistent
  <2>3. /\ t.values = IF top = v THEN short ELSE [short EXCEPT ![k] = top]
        /\ t.keys = [[s.keys EXCEPT ![v] = 0] EXCEPT ![top] = IF top = v THEN 0 ELSE k]
        /\ t.size = z - 1
        /\ t = [values |-> t.values, keys |-> t.keys, size |-> t.size]
    BY <1>1, <1>3 DEF Delete, Moved
  <2>4. top = v <=> k = z
    BY <2>1, <2>2
  <2> HIDE DEF t, k, z, top
  <2>5. /\ short \in Seq(Handlers) /\ Len(short) = z - 1
        /\ \A n \in 1 .. z - 1 : short[n] = s.values[n]
    <3>1. \A n \in 1 .. z - 1 : s.values[n] \in Handlers
      BY <1>1, <2>1, ElementOfSeq DEF z
    <3>2. 1 \in Int /\ z - 1 \in Int /\ z - 1 - 1 + 1 = z - 1 /\ z >= 1
      BY <2>1
    <3>3. /\ short \in Seq(Handlers)
          /\ Len(short) = IF 1 <= z - 1 THEN z - 1 - 1 + 1 ELSE 0
          /\ \A n \in 1 .. z - 1 - 1 + 1 : short[n] = s.values[1 + n - 1]
      BY <3>1, <3>2, SubSeqProperties
    <3>4. \A n \in 1 .. z - 1 : 1 + n - 1 = n
      BY <3>2
    <3> HIDE DEF short
    <3>5. Len(short) = z - 1
      <4>1. Len(short) = IF 1 <= z - 1 THEN z - 1 - 1 + 1 ELSE 0
        BY <3>3
      <4>2. QED
        BY <2>1, <3>2, <4>1
    <3>6. QED
      BY <3>2, <3>3, <3>4, <3>5
  <2> HIDE DEF short
  <2>6. /\ t.values \in Seq(Handlers) /\ Len(t.values) = z - 1
        /\ \A n \in 1 .. z - 1 : t.values[n] = IF n = k THEN top ELSE s.values[n]
    <3>1. CASE top = v
      BY <2>1, <2>3, <2>4, <2>5, <3>1
    <3>2. CASE top # v
      <4>1. k \in 1 .. Len(short)
        BY <2>1, <2>4, <2>5, <3>2
      <4>2. QED
        BY <2>2, <2>3, <2>5, <3>2, <4>1, ExceptSeq
    <3>3. QED
      BY <3>1, <3>2
  <2>7. \A w \in Handlers : t.keys[w] = IF w = v THEN 0 ELSE IF w = top THEN k ELSE s.keys[w]
    <3> DEFINE cleared == [s.keys EXCEPT ![v] = 0]
    <3>1. /\ cleared \in [Handlers -> Nat]
          /\ \A w \in Handlers : cleared[w] = IF w = v THEN 0 ELSE s.keys[w]
      BY <1>1
    <3>2. t.keys = [cleared EXCEPT ![top] = IF top = v THEN 0 ELSE k]
      BY <2>3
    <3> HIDE DEF cleared
    <3>3. \A w \in Handlers : t.keys[w] = IF w = top THEN (IF top = v THEN 0 ELSE k) ELSE cleared[w]
      BY <2>2, <3>1, <3>2
    <3>4. QED
      BY <3>1, <3>3
  <2>8. t \in Sets
    <3>1. k \in Nat /\ 0 \in Nat /\ z - 1 \in Nat
      BY <2>1
    <3>2. t.keys \in [Handlers -> Nat]
      BY <1>1, <2>2, <2>3, <3>1
    <3>3. QED
      BY <2>3, <2>6, <3>1, <3>2 DEF Sets
  <2>9. ASSUME NEW w \in Handlers, NEW n \in 1 .. z - 1
        PROVE  t.values[n] = w <=> t.keys[w] = n
    <3>1. n \in 1 .. s.size /\ n # z /\ n # 0
      BY <2>1 DEF z
    <3>2. s.values[n] = w <=> s.keys[w] = n
      BY <3>1 DEF Consistent
    <3>3. s.keys[v] = k
      BY DEF k
    <3>4. CASE w = v
      <4>1. t.keys[w] # n
        BY <2>7, <3>1, <3>4
      <4>2. n # k => s.values[n] # v
        BY <3>2, <3>3, <3>4
      <4>3. n = k => top # v
        BY <2>4, <3>1
      <4>4. QED
        BY <2>6, <3>4, <4>1, <4>2, <4>3
    <3>5. CASE w # v /\ w = top
      <4>1. t.keys[w] = k
        BY <2>7, <3>5
      <4>2. s.values[n] # w
        BY <2>2, <3>1, <3>2, <3>5
      <4>3. QED
        BY <2>6, <3>5, <4>1, <4>2
    <3>6. CASE w # v /\ w # top
      <4>1. t.keys[w] = s.keys[w]
        BY <2>7, <3>6
      <4>2. n = k => s.values[n] # w
        BY <2>1, <3>6
      <4>3. QED
        BY <2>6, <3>2, <3>6, <4>1, <4>2
    <3>7. QED
      BY <3>4, <3>5, <3>6
  <2>10. ASSUME NEW w \in Handlers
         PROVE  t.keys[w] <= z - 1
    <3>1. CASE w = v
      BY <2>1, <2>7, <3>1
    <3>2. CASE w # v /\ w = top
      BY <2>1, <2>4, <2>7, <3>2
    <3>3. CASE w # v /\ w # top
      <4>1. s.keys[w] <= z /\ s.keys[w] \in Nat
        BY <1>1 DEF Consistent, z
      <4>2. s.keys[w] # z
        BY <2>1, <3>3 DEF Consistent, top, z
      <4>3. QED
        BY <2>1, <2>7, <3>3, <4>1, <4>2
    <3>4. QED
      BY <3>1, <3>2, <3>3
  <2>11. Consistent(t)
    BY <2>3, <2>6, <2>9, <2>10 DEF Consistent
  <2>12. QED
    BY <1>3, <2>8, <2>11 DEF t
<1>4. QED
  BY <1>2, <1>3

LEMMA EmptySetFacts == EmptySet \in Sets /\ Consistent(EmptySet)
<1>1. <<>> \in Seq(Handlers) /\ Len(<<>>) = 0
  BY EmptySeq
<1>2. EmptySet.values = <<>> /\ EmptySet.keys = [v \in Handlers |-> 0] /\ EmptySet.size = 0
  BY DEF EmptySet
<1>3. EmptySet \in Sets
  BY <1>1 DEF EmptySet, Sets
<1>4. QED
  BY <1>1, <1>2, <1>3 DEF Consistent

LEMMA BeginsTransitive ==
  ASSUME NEW a \in Seq(Handlers), NEW b \in Seq(Handlers), NEW c \in Seq(Handlers),
         Begins(a, b), Begins(b, c)
  PROVE  Begins(a, c)
<1>1. Len(a) \in Nat /\ Len(b) \in Nat /\ Len(c) \in Nat
  BY LenProperties
<1>2. QED
  BY <1>1 DEF Begins

-----------------------------------------------------------------------------

\* An emission of n that begins.
LEMMA EmissionBegins ==
  ASSUME NEW n \in Names, NEW s \in Sets, Consistent(s), s.size # 0
  PROVE  Emission(n, s) \in Emissions /\ InOrder(Emission(n, s), s)
<1> DEFINE e == Emission(n, s)
<1>1. /\ s.values \in Seq(Handlers) /\ s.size \in Nat /\ s.size = Len(s.values)
      /\ <<>> \in Seq(Handlers)
  BY EmptySeq DEF Sets, Consistent
<1>2. /\ e.i = 0 /\ e.size = s.size /\ e.values = s.values /\ e.shared = TRUE
      /\ e.from = s.values /\ e.called = <<>>
  BY DEF Emission
<1>3. e \in Emissions
  BY <1>1 DEF Emission, Emissions
<1>4. SubSeq(s.values, 1, 0) = <<>>
  BY <1>1, SubSeqEmpty
<1>5. Begins(e.from, Walked(e, s))
  BY <1>1, <1>2 DEF Walked, Begins
<1>6. QED
  BY <1>1, <1>2, <1>3, <1>4, <1>5 DEF InOrder

\* A new emission goes in front of the others.
LEMMA FrontKeeps ==
  ASSUME NEW es \in Seq(Emissions), NEW e \in Emissions, NEW h,
         \A k \in 1 .. Len(es) : InOrder(es[k], h[es[k].name]),
         InOrder(e, h[e.name])
  PROVE  LET t == <<e>> \o es
         IN /\ t \in Seq(Emissions) /\ t # <<>> /\ Head(t) = e
            /\ Len(t) = Len(es) + 1
            /\ \A k \in 1 .. Len(es) : t[k + 1] = es[k]
            /\ \A k \in 1 .. Len(t) : InOrder(t[k], h[t[k].name])
<1> DEFINE t == <<e>> \o es
<1>1. <<e>> \in Seq(Emissions) /\ Len(<<e>>) = 1 /\ <<e>>[1] = e /\ Len(es) \in Nat
  BY LenProperties
<1>2. /\ t \in Seq(Emissions) /\ Len(t) = 1 + Len(es)
      /\ \A n \in 1 .. 1 + Len(es) : t[n] = IF n <= 1 THEN <<e>>[n] ELSE es[n - 1]
  BY <1>1, ConcatProperties
<1> HIDE DEF t
<1>3. t # <<>> /\ 1 \in 1 .. Len(t) /\ t[1] = e
  BY <1>1, <1>2, EmptySeq
<1>4. Head(t) = e
  BY <1>2, <1>3, HeadTailProperties
<1>5. \A k \in 1 .. Len(es) : t[k + 1] = es[k]
  BY <1>1, <1>2
<1>6. ASSUME NEW k \in 1 .. Len(t) PROVE InOrder(t[k], h[t[k].name])
  <2>1. CASE k = 1
    BY <1>3, <2>1
  <2>2. CASE k # 1
    <3>1. k - 1 \in 1 .. Len(es) /\ t[k] = es[k - 1]
      BY <1>1, <1>2, <2>2
    <3>2. QED
      BY <3>1
  <2>3. QED
    BY <2>1, <2>2
<1>7. Len(t) = Len(es) + 1
  BY <1>1, <1>2
<1>8. QED
  BY <1>2, <1>3, <1>4, <1>5, <1>6, <1>7 DEF t

\* The emission in front ends.
LEMMA RestKeeps ==
  ASSUME NEW es \in Seq(Emissions), es # <<>>, NEW h,
         \A k \in 1 .. Len(es) : InOrder(es[k], h[es[k].name])
  PROVE  /\ Tail(es) \in Seq(Emissions) /\ Len(Tail(es)) = Len(es) - 1
         /\ \A k \in 1 .. Len(Tail(es)) : k + 1 \in 1 .. Len(es) /\ Tail(es)[k] = es[k + 1]
         /\ \A k \in 1 .. Len(Tail(es)) : InOrder(Tail(es)[k], h[Tail(es)[k].name])
         /\ 1 \in 1 .. Len(es) /\ Head(es) = es[1] /\ Head(es) \in Emissions
<1> DEFINE t == Tail(es)
<1>1. Len(es) \in Nat \ {0}
  BY EmptySeq
<1>2. /\ t \in Seq(Emissions) /\ Len(t) = Len(es) - 1
      /\ \A k \in 1 .. Len(t) : t[k] = es[k + 1]
      /\ Head(es) = es[1] /\ Head(es) \in Emissions
  BY HeadTailProperties
<1> HIDE DEF t
<1>3. \A k \in 1 .. Len(t) : k + 1 \in 1 .. Len(es) /\ t[k] = es[k + 1]
  BY <1>1, <1>2
<1>4. \A k \in 1 .. Len(t) : InOrder(t[k], h[t[k].name])
  <2> TAKE k \in 1 .. Len(t)
  <2>1. k + 1 \in 1 .. Len(es) /\ t[k] = es[k + 1]
    BY <1>3
  <2>2. QED
    BY <2>1
<1>5. 1 \in 1 .. Len(es)
  BY <1>1
<1>6. QED
  BY <1>2, <1>3, <1>4, <1>5 DEF t

\* emitter:emit, which the signals and process.exit call.
LEMMA EmitKeeps ==
  ASSUME HandlersInv, NEW n \in Names, Emit(n), handlers' = handlers
  PROVE  /\ emitting' \in Seq(Emissions)
         /\ \A k \in 1 .. Len(emitting') : InOrder(emitting'[k], handlers'[emitting'[k].name])
         /\ handlers[n].size # 0 => emitting' # <<>> /\ Head(emitting').name = n
<1>1. CASE handlers[n].size = 0
  BY <1>1 DEF Emit, HandlersInv
<1>2. CASE handlers[n].size # 0
  <2> DEFINE e == Emission(n, handlers[n])
  <2>1. emitting' = <<e>> \o emitting /\ e.name = n
    BY <1>2 DEF Emit, Emission
  <2>2. e \in Emissions /\ InOrder(e, handlers[n])
    BY <1>2, EmissionBegins DEF HandlersInv
  <2> HIDE DEF e
  <2>3. /\ emitting' \in Seq(Emissions) /\ emitting' # <<>> /\ Head(emitting') = e
        /\ \A k \in 1 .. Len(emitting') : InOrder(emitting'[k], handlers[emitting'[k].name])
    BY <2>1, <2>2, FrontKeeps DEF HandlersInv
  <2>4. QED
    BY <2>1, <2>3
<1>3. QED
  BY <1>1, <1>2

-----------------------------------------------------------------------------

LEMMA OnKeeps ==
  ASSUME HandlersInv, NEW n \in Names, NEW v \in Handlers, On(n, v)
  PROVE  HandlersInv'
<1>1. /\ process = "runs" /\ process' = process
      /\ handlers' = [handlers EXCEPT ![n] = Add(@, v)]
      /\ emitting' = emitting
      /\ watched' \subseteq watched \cup {n} /\ failed' \subseteq failed \cup {n}
      /\ watched' # watched \/ failed' # failed => n \in Signals
      /\ watched \subseteq watched' /\ failed \subseteq failed'
      /\ n \in Signals => n \in watched' \/ n \in failed'
  BY DEF On, signals
<1> DEFINE s == handlers[n]
<1>2. handlers \in [Names -> Sets] /\ s \in Sets /\ Consistent(s)
  BY DEF HandlersInv
<1>3. Add(s, v) \in Sets /\ Consistent(Add(s, v)) /\ Begins(s.values, Add(s, v).values)
  BY <1>2, AddKeeps
<1>4. /\ handlers' \in [Names -> Sets]
      /\ \A m \in Names : handlers'[m] = IF m = n THEN Add(s, v) ELSE handlers[m]
  BY <1>1, <1>2, <1>3
<1>5. \A m \in Names : Consistent(handlers'[m])
  BY <1>3, <1>4 DEF HandlersInv
<1>6. HandledSignalsWatched' /\ watched' \subseteq Signals /\ failed' \subseteq Signals
  <2>1. ASSUME NEW m \in Signals, handlers'[m].size > 0 PROVE m \in watched' \/ m \in failed'
    <3>1. m \in Names
      BY DEF Names
    <3>2. QED
      BY <1>1, <1>4, <2>1, <3>1 DEF HandlersInv, HandledSignalsWatched
  <2>2. QED
    BY <1>1, <2>1 DEF HandledSignalsWatched, HandlersInv
<1>7. ASSUME NEW k \in 1 .. Len(emitting)
      PROVE  InOrder(emitting[k], handlers'[emitting[k].name])
  <2> DEFINE e == emitting[k]
  <2>1. e \in Emissions /\ InOrder(e, handlers[e.name])
    BY ElementOfSeq DEF HandlersInv
  <2>2. e.name \in Names /\ e.from \in Seq(Handlers) /\ e.values \in Seq(Handlers)
    BY <2>1 DEF Emissions
  <2> HIDE DEF e
  <2>3. CASE e.name # n
    BY <1>4, <2>1, <2>2, <2>3 DEF e
  <2>4. CASE e.name = n
    <3>1. handlers'[e.name] = Add(s, v) /\ handlers[e.name] = s
      BY <1>4, <2>2, <2>4
    <3>2. s.values \in Seq(Handlers) /\ Add(s, v).values \in Seq(Handlers)
      BY <1>2, <1>3 DEF Sets
    <3>3. Begins(e.from, Walked(e, s)) => Begins(e.from, Walked(e, Add(s, v)))
      BY <1>3, <2>2, <3>2, BeginsTransitive DEF Walked
    <3>4. InOrder(e, Add(s, v))
      BY <2>1, <3>1, <3>3 DEF InOrder
    <3>5. QED
      BY <3>1, <3>4 DEF e
  <2>5. QED
    BY <2>3, <2>4
<1>8. QED
  BY <1>1, <1>4, <1>5, <1>6, <1>7 DEF HandlersInv

\* The emissions after a deletion or a clearing: f is what becomes of each.
LEMMA ChangedEmissions ==
  ASSUME HandlersInv,
         NEW n \in Names,
         NEW s \in Sets, Consistent(s), s.size <= handlers[n].size,
         handlers' = [handlers EXCEPT ![n] = s],
         \/ watched' = watched /\ failed' = failed
         \/ watched' = watched \ {n} /\ failed' = failed \ {n} /\ s.size = 0,
         process = "runs", process' = process,
         DOMAIN emitting' = DOMAIN emitting,
         emitting' = [k \in DOMAIN emitting |-> emitting'[k]],
         \A k \in DOMAIN emitting : emitting'[k] \in Emissions /\ emitting'[k].name = emitting[k].name,
         \A k \in DOMAIN emitting : emitting[k].name # n => emitting'[k] = emitting[k],
         \A k \in DOMAIN emitting : emitting[k].name = n => InOrder(emitting'[k], s)
  PROVE  HandlersInv'
<1>1. /\ emitting \in Seq(Emissions) /\ handlers \in [Names -> Sets] /\ handlers[n] \in Sets
      /\ DOMAIN emitting = 1 .. Len(emitting) /\ Len(emitting) \in Nat
  BY LenProperties DEF HandlersInv
<1>2. emitting' \in [1 .. Len(emitting) -> Emissions]
  BY <1>1
<1>3. emitting' \in Seq(Emissions)
  BY <1>1, <1>2, SeqDef
<1>4. Len(emitting') = Len(emitting)
  BY <1>1, <1>2, <1>3, LenProperties
<1>5. /\ handlers' \in [Names -> Sets]
      /\ \A m \in Names : handlers'[m] = IF m = n THEN s ELSE handlers[m]
  BY <1>1
<1>6. \A m \in Names : Consistent(handlers'[m])
  BY <1>5 DEF HandlersInv
<1>7. ASSUME NEW k \in 1 .. Len(emitting')
      PROVE  InOrder(emitting'[k], handlers'[emitting'[k].name])
  <2>1. k \in DOMAIN emitting /\ k \in 1 .. Len(emitting)
    BY <1>1, <1>4
  <2>2. emitting[k].name \in Names /\ InOrder(emitting[k], handlers[emitting[k].name])
    BY <1>1, <2>1, ElementOfSeq DEF HandlersInv, Emissions
  <2>3. QED
    BY <1>5, <2>1, <2>2
<1>8. ASSUME NEW m \in Signals, handlers'[m].size > 0 PROVE m \in watched' \/ m \in failed'
  <2>1. m \in Names
    BY DEF Names
  <2>2. handlers[m].size \in Nat /\ s.size \in Nat /\ handlers[n].size \in Nat
    BY <1>1, <2>1 DEF Sets
  <2>3. handlers[m].size > 0
    BY <1>5, <1>8, <2>1, <2>2
  <2>4. m \in watched \/ m \in failed
    BY <2>3 DEF HandlersInv, HandledSignalsWatched
  <2>5. m = n => s.size > 0
    BY <1>5, <1>8, <2>1
  <2>6. QED
    BY <2>2, <2>4, <2>5
<1>9. QED
  BY <1>3, <1>5, <1>6, <1>7, <1>8 DEF HandlersInv, HandledSignalsWatched

LEMMA OffKeeps ==
  ASSUME HandlersInv, NEW n \in Names, NEW v \in Handlers, Off(n, v)
  PROVE  HandlersInv'
<1> DEFINE s == handlers[n]
           d == Delete(s, v)
<1>1. /\ process = "runs" /\ process' = process /\ watched' = watched /\ failed' = failed
      /\ handlers' = [handlers EXCEPT ![n] = d]
      /\ emitting' = [k \in DOMAIN emitting |->
           IF emitting[k].name = n THEN AfterDelete(emitting[k], s, v) ELSE emitting[k]]
  BY DEF Off
<1>2. /\ s \in Sets /\ Consistent(s) /\ d \in Sets /\ Consistent(d)
      /\ s.keys[v] = 0 => d = s
  BY DeleteKeeps DEF HandlersInv
<1>3. d.size <= s.size
  BY <1>2 DEF Delete, Sets
<1> HIDE DEF s, d
<1>4. ASSUME NEW k \in DOMAIN emitting
      PROVE  /\ emitting'[k] \in Emissions /\ emitting'[k].name = emitting[k].name
             /\ emitting[k].name # n => emitting'[k] = emitting[k]
             /\ emitting[k].name = n => InOrder(emitting'[k], d)
  <2> DEFINE e == emitting[k]
  <2>1. k \in 1 .. Len(emitting)
    BY LenProperties DEF HandlersInv
  <2>2. e \in Emissions /\ InOrder(e, handlers[e.name])
    BY <2>1, ElementOfSeq DEF HandlersInv
  <2>3. emitting'[k] = IF e.name = n THEN AfterDelete(e, s, v) ELSE e
    BY <1>1
  <2> HIDE DEF e
  <2>4. CASE e.name # n
    BY <2>2, <2>3, <2>4 DEF e
  <2>5. CASE e.name = n /\ e.shared /\ s.keys[v] # 0
    <3>1. emitting'[k] = [e EXCEPT !.deleted = TRUE]
      BY <2>3, <2>5 DEF AfterDelete
    <3>2. /\ emitting'[k] \in Emissions /\ emitting'[k].name = e.name
          /\ emitting'[k].i = e.i /\ emitting'[k].size = e.size
          /\ emitting'[k].from = e.from /\ emitting'[k].deleted = TRUE
      BY <2>2, <3>1 DEF Emissions
    <3>3. InOrder(emitting'[k], d)
      BY <2>2, <3>2 DEF InOrder
    <3>4. QED
      BY <2>5, <3>2, <3>3 DEF e
  <2>6. CASE e.name = n /\ ~(e.shared /\ s.keys[v] # 0)
    <3>1. emitting'[k] = e
      BY <2>3, <2>6 DEF AfterDelete
    <3>2. InOrder(e, s)
      BY <2>2, <2>6 DEF s
    <3>3. Walked(e, d) = Walked(e, s)
      BY <1>2, <2>6 DEF Walked
    <3>4. InOrder(e, d)
      BY <3>2, <3>3 DEF InOrder
    <3>5. QED
      BY <2>2, <2>6, <3>1, <3>4 DEF e
  <2>7. QED
    BY <2>4, <2>5, <2>6
<1>5. DOMAIN emitting' = DOMAIN emitting /\ emitting' = [k \in DOMAIN emitting |-> emitting'[k]]
  BY <1>1
<1>6. QED
  BY <1>1, <1>2, <1>3, <1>4, <1>5, ChangedEmissions DEF s

LEMMA OffAllKeeps ==
  ASSUME HandlersInv, NEW n \in Names, OffAll(n)
  PROVE  HandlersInv'
<1> DEFINE s == handlers[n]
<1>1. /\ process = "runs" /\ process' = process /\ watched' = watched \ {n} /\ failed' = failed \ {n}
      /\ handlers' = [handlers EXCEPT ![n] = EmptySet]
      /\ emitting' = [k \in DOMAIN emitting |->
           IF emitting[k].name = n THEN AfterClear(emitting[k], s) ELSE emitting[k]]
  BY DEF OffAll, Cleared
<1>2. /\ s \in Sets /\ Consistent(s) /\ EmptySet \in Sets /\ Consistent(EmptySet)
      /\ EmptySet.size = 0 /\ EmptySet.values = <<>> /\ s.size \in Nat
  BY EmptySetFacts DEF HandlersInv, EmptySet, Sets
<1> HIDE DEF s
<1>3. ASSUME NEW k \in DOMAIN emitting
      PROVE  /\ emitting'[k] \in Emissions /\ emitting'[k].name = emitting[k].name
             /\ emitting[k].name # n => emitting'[k] = emitting[k]
             /\ emitting[k].name = n => InOrder(emitting'[k], EmptySet)
  <2> DEFINE e == emitting[k]
  <2>1. k \in 1 .. Len(emitting)
    BY LenProperties DEF HandlersInv
  <2>2. e \in Emissions /\ InOrder(e, handlers[e.name])
    BY <2>1, ElementOfSeq DEF HandlersInv
  <2>3. emitting'[k] = IF e.name = n THEN AfterClear(e, s) ELSE e
    BY <1>1
  <2> HIDE DEF e
  <2>4. CASE e.name # n
    BY <2>2, <2>3, <2>4 DEF e
  <2>5. CASE e.name = n /\ e.shared /\ s.size # 0
    <3> DEFINE f == [e EXCEPT !.values = s.values, !.shared = FALSE]
    <3>1. emitting'[k] = f
      BY <2>3, <2>5 DEF AfterClear
    <3>2. s.values \in Seq(Handlers)
      BY <1>2 DEF Sets
    <3>3. /\ f \in Emissions /\ f.name = e.name /\ f.i = e.i /\ f.size = e.size
          /\ f.from = e.from /\ f.deleted = e.deleted /\ f.called = e.called
          /\ f.values = s.values /\ f.shared = FALSE
      BY <2>2, <3>2 DEF Emissions
    <3> HIDE DEF f
    <3>4. Walked(f, EmptySet) = Walked(e, s)
      BY <2>5, <3>3 DEF Walked
    <3>5. InOrder(e, s)
      BY <2>2, <2>5 DEF s
    <3>6. InOrder(f, EmptySet)
      BY <3>3, <3>4, <3>5 DEF InOrder
    <3>7. QED
      BY <2>5, <3>1, <3>3, <3>6 DEF e
  <2>6. CASE e.name = n /\ ~(e.shared /\ s.size # 0)
    <3>1. emitting'[k] = e
      BY <2>3, <2>6 DEF AfterClear
    <3>2. InOrder(e, s)
      BY <2>2, <2>6 DEF s
    <3>3. e.shared => s.values = <<>>
      BY <1>2, <2>6, EmptySeq DEF Consistent, Sets
    <3>4. Walked(e, EmptySet) = Walked(e, s)
      BY <1>2, <3>3 DEF Walked
    <3>5. InOrder(e, EmptySet)
      BY <3>2, <3>4 DEF InOrder
    <3>6. QED
      BY <2>2, <2>6, <3>1, <3>5 DEF e
  <2>7. QED
    BY <2>4, <2>5, <2>6
<1>4. DOMAIN emitting' = DOMAIN emitting /\ emitting' = [k \in DOMAIN emitting |-> emitting'[k]]
  BY <1>1
<1>5. EmptySet.size <= handlers[n].size
  BY <1>2 DEF s
<1>6. QED
  BY <1>1, <1>2, <1>3, <1>4, <1>5, ChangedEmissions

LEMMA SignalKeeps ==
  ASSUME HandlersInv, NEW n \in Signals, Signal(n)
  PROVE  HandlersInv'
<1>1. /\ process = "runs" /\ process' = process /\ handlers' = handlers /\ watched' = watched /\ failed' = failed
      /\ Emit(n) /\ n \in Names
  BY DEF Signal, InLoop, Names
<1>2. /\ emitting' \in Seq(Emissions)
      /\ \A k \in 1 .. Len(emitting') : InOrder(emitting'[k], handlers'[emitting'[k].name])
  BY <1>1, EmitKeeps
<1>3. QED
  BY <1>1, <1>2 DEF HandlersInv, HandledSignalsWatched

\* process.exit; the first handler for it, if there is one, has still to run.
LEMMA ExitKeeps ==
  ASSUME HandlersInv, process = "runs", Exit
  PROVE  /\ HandlersInv'
         /\ process' = "runs" => emitting' # <<>> /\ Head(emitting').name = "exit"
<1>1. /\ Emit("exit") /\ "exit" \in Names /\ handlers' = handlers /\ watched' = watched /\ failed' = failed
      /\ process' = IF handlers["exit"].size = 0 THEN "exited" ELSE process
  BY DEF Exit, Names
<1>2. /\ emitting' \in Seq(Emissions)
      /\ \A k \in 1 .. Len(emitting') : InOrder(emitting'[k], handlers'[emitting'[k].name])
      /\ handlers["exit"].size # 0 => emitting' # <<>> /\ Head(emitting').name = "exit"
  BY <1>1, EmitKeeps
<1>3. process' \in {"runs", "exited"} /\ (process' = "runs" => handlers["exit"].size # 0)
  BY <1>1
<1>4. HandlersInv'
  BY <1>1, <1>2, <1>3 DEF HandlersInv, HandledSignalsWatched
<1>5. QED
  BY <1>2, <1>3, <1>4

LEMMA EndEmissionKeeps ==
  ASSUME HandlersInv, EndEmission
  PROVE  HandlersInv'
<1>1. /\ process = "runs" /\ emitting # <<>> /\ emitting' = Tail(emitting)
      /\ process' = IF Head(emitting).name = "exit" THEN "exited" ELSE process
      /\ handlers' = handlers /\ watched' = watched /\ failed' = failed
  BY DEF EndEmission
<1>2. /\ emitting' \in Seq(Emissions)
      /\ \A k \in 1 .. Len(emitting') : InOrder(emitting'[k], handlers'[emitting'[k].name])
  BY <1>1, RestKeeps DEF HandlersInv
<1>3. process' \in {"runs", "exited"}
  BY <1>1
<1>4. QED
  BY <1>1, <1>2, <1>3 DEF HandlersInv, HandledSignalsWatched

\* The next handler is the one that the emission found at this place; a place that is
\* empty means a deletion.
LEMMA CallHandlerKeeps ==
  ASSUME HandlersInv, CallHandler
  PROVE  /\ HandlersInv'
         /\ emitting' # <<>> /\ Head(emitting').name = Head(emitting).name
         /\ Len(emitting') = Len(emitting)
         /\ \A k \in 1 .. Len(emitting) : emitting'[k].name = emitting[k].name
<1> DEFINE e == Head(emitting)
           w == Walked(e, handlers[e.name])
           c == Called(e, w[e.i + 1])
           t == Tail(emitting)
<1>1. /\ process = "runs" /\ emitting # <<>> /\ e.i < e.size
      /\ handlers' = handlers /\ watched' = watched /\ failed' = failed
      /\ \/ e.i < Len(w) /\ emitting' = <<c>> \o t /\ process' = process
         \/ e.i >= Len(w) /\ process' = "died" /\ emitting' = emitting
  BY DEF CallHandler
<1>2. /\ t \in Seq(Emissions) /\ Len(t) = Len(emitting) - 1
      /\ \A k \in 1 .. Len(t) : k + 1 \in 1 .. Len(emitting) /\ t[k] = emitting[k + 1]
      /\ \A k \in 1 .. Len(t) : InOrder(t[k], handlers[t[k].name])
      /\ 1 \in 1 .. Len(emitting) /\ e = emitting[1] /\ e \in Emissions
  BY <1>1, RestKeeps DEF HandlersInv
<1>3. InOrder(e, handlers[e.name])
  BY <1>2 DEF HandlersInv
<1>4. /\ e.i \in Nat /\ e.size \in Nat /\ e.from \in Seq(Handlers) /\ e.called \in Seq(Handlers)
      /\ e.name \in Names /\ e.values \in Seq(Handlers) /\ handlers[e.name] \in Sets
  BY <1>2 DEF Emissions, HandlersInv
<1>5. w \in Seq(Handlers)
  BY <1>4 DEF Walked, Sets
<1> HIDE DEF e, w, t
<1>7. ~e.deleted => /\ e.i + 1 \in 1 .. Len(e.from) /\ e.i < Len(w)
                    /\ w[e.i + 1] = e.from[e.i + 1]
                    /\ e.called = SubSeq(e.from, 1, e.i)
  <2> HAVE ~e.deleted
  <2>1. /\ Len(e.from) <= Len(w) /\ \A n \in 1 .. Len(e.from) : w[n] = e.from[n]
        /\ e.size = Len(e.from) /\ e.called = SubSeq(e.from, 1, e.i)
    BY <1>3 DEF InOrder, Begins, w
  <2>2. Len(w) \in Nat
    BY <1>5, LenProperties
  <2>3. e.i + 1 \in 1 .. Len(e.from)
    BY <1>1, <1>4, <2>1
  <2>4. QED
    BY <1>1, <1>4, <2>1, <2>2, <2>3
<1>8. CASE e.i < Len(w) /\ emitting' = <<c>> \o t /\ process' = process
  <2> DEFINE v == w[e.i + 1]
  <2>1. v \in Handlers
    <3>1. e.i + 1 \in 1 .. Len(w)
      BY <1>4, <1>5, <1>8, LenProperties
    <3>2. QED
      BY <1>5, <3>1, ElementOfSeq
  <2>2. Append(e.called, v) \in Seq(Handlers)
    BY <1>4, <2>1, AppendProperties
  <2>3. /\ c.name = e.name /\ c.i = e.i + 1 /\ c.size = e.size /\ c.values = e.values
        /\ c.shared = e.shared /\ c.from = e.from /\ c.deleted = e.deleted
        /\ c.called = Append(e.called, v) /\ c \in Emissions
    <3>1. c = [e EXCEPT !.i = e.i + 1, !.called = Append(e.called, v)]
      BY DEF Called
    <3>2. e.i + 1 \in Nat /\ e \in Emissions
      BY <1>2, <1>4
    <3> DEFINE a == Append(e.called, v)
    <3> HIDE DEF c, v, a
    <3>3. c = [e EXCEPT !.i = e.i + 1, !.called = a] /\ a \in Seq(Handlers)
      BY <2>2, <3>1 DEF a
    <3>4. /\ c.name = e.name /\ c.i = e.i + 1 /\ c.size = e.size /\ c.values = e.values
          /\ c.shared = e.shared /\ c.from = e.from /\ c.deleted = e.deleted
          /\ c.called = a /\ c \in Emissions
      BY <3>2, <3>3 DEF Emissions
    <3>5. QED
      BY <3>4 DEF a
  <2> HIDE DEF c, v
  <2>4. Walked(c, handlers[c.name]) = w
    BY <2>3 DEF Walked, w
  <2>5. ~e.deleted => c.called = SubSeq(c.from, 1, c.i)
    <3> HAVE ~e.deleted
    <3>1. v = e.from[e.i + 1] /\ e.called = SubSeq(e.from, 1, e.i) /\ e.i + 1 \in 1 .. Len(e.from)
      BY <1>7 DEF v
    <3>2. 1 \in 1 .. Len(e.from) /\ e.i + 1 \in 1 .. Len(e.from) /\ (e.i + 1) - 1 = e.i
      BY <1>4, <3>1
    <3>3. SubSeq(e.from, 1, e.i + 1) = SubSeq(e.from, 1, (e.i + 1) - 1) \o <<e.from[e.i + 1]>>
      BY <1>4, <3>2, SubSeqRecursiveSecond
    <3>4. Append(e.called, v) = e.called \o <<v>>
      BY <1>4, <2>1, AppendIsConcat DEF v
    <3>5. QED
      BY <2>3, <3>1, <3>2, <3>3, <3>4
  <2>6. InOrder(c, handlers[c.name])
    <3>1. c.i <= c.size /\ c.size = Len(c.from) /\ c.size # 0
      BY <1>1, <1>3, <1>4, <2>3 DEF InOrder
    <3>2. ~c.deleted => Begins(c.from, Walked(c, handlers[c.name]))
      BY <1>3, <2>3, <2>4 DEF InOrder, w
    <3>3. QED
      BY <2>3, <2>5, <3>1, <3>2 DEF InOrder
  <2>7. /\ emitting' \in Seq(Emissions) /\ emitting' # <<>> /\ Head(emitting') = c
        /\ Len(emitting') = Len(t) + 1
        /\ \A k \in 1 .. Len(t) : emitting'[k + 1] = t[k]
        /\ \A k \in 1 .. Len(emitting') : InOrder(emitting'[k], handlers[emitting'[k].name])
    BY <1>2, <1>8, <2>3, <2>6, FrontKeeps
  <2>8. Len(emitting) \in Nat /\ Len(emitting') = Len(emitting)
    BY <1>2, <2>7, LenProperties DEF HandlersInv
  <2>9. ASSUME NEW k \in 1 .. Len(emitting) PROVE emitting'[k].name = emitting[k].name
    <3>1. CASE k = 1
      <4>1. emitting'[1] = c
        BY <2>7, HeadTailProperties
      <4>2. QED
        BY <1>2, <2>3, <3>1, <4>1
    <3>2. CASE k # 1
      <4>1. k - 1 \in 1 .. Len(t) /\ (k - 1) + 1 = k
        BY <1>2, <2>8, <3>2
      <4>2. emitting'[k] = t[k - 1] /\ t[k - 1] = emitting[k]
        BY <1>2, <2>7, <4>1
      <4>3. QED
        BY <4>2
    <3>3. QED
      BY <3>1, <3>2
  <2>10. HandlersInv'
    BY <1>1, <1>8, <2>7 DEF HandlersInv, HandledSignalsWatched
  <2>11. QED
    BY <2>3, <2>7, <2>8, <2>9, <2>10 DEF e
<1>9. CASE e.i >= Len(w) /\ process' = "died" /\ emitting' = emitting
  <2>1. e.deleted
    <3>1. Len(w) \in Nat
      BY <1>5, LenProperties
    <3>2. QED
      BY <1>4, <1>7, <1>9, <3>1
  <2>2. HandlersInv'
    BY <1>1, <1>9, <2>1 DEF HandlersInv, HandledSignalsWatched, e
  <2>3. QED
    BY <1>1, <1>9, <2>2
<1>10. QED
  BY <1>1, <1>8, <1>9

-----------------------------------------------------------------------------

LEMMA ForkKeeps ==
  ASSUME ChildInv, NEW j \in Jobs, Fork(j)
  PROVE  ChildInv'
<1>1. PICK p \in Pids : /\ child[p] = "free"
                        /\ child' = [child EXCEPT ![p] = "alive"]
                        /\ pids' = [pids EXCEPT ![p] = j]
  BY DEF Fork
<1>2. j \notin forked /\ forked' = forked \cup {j} /\ onexit' = onexit /\ dropped' = dropped
  BY DEF Fork
<1>3. j # None
  BY ProcessAssumption
<1>4. /\ \A q \in Pids : child'[q] = IF q = p THEN "alive" ELSE child[q]
      /\ \A q \in Pids : pids'[q] = IF q = p THEN j ELSE pids[q]
      /\ child' \in [Pids -> {"free", "alive", "exited"}]
      /\ pids' \in [Pids -> Jobs \cup {None}]
  BY <1>1 DEF ChildInv
<1>5. \A q \in Pids : pids[q] # j
  BY <1>2, <1>3 DEF ChildInv
<1>6. pids[p] = None
  BY <1>1 DEF ChildInv
<1>7. \A i \in forked' \cap Forever : i \in dropped' <=> \A q \in Pids : pids'[q] # i
  <2> TAKE i \in forked' \cap Forever
  <2>1. CASE i = j
    BY <1>2, <1>4, <2>1 DEF ChildInv
  <2>2. CASE i # j
    <3>1. i \in forked \cap Forever /\ i # None
      BY <1>2, <2>2, ProcessAssumption
    <3>2. (\A q \in Pids : pids'[q] # i) <=> (\A q \in Pids : pids[q] # i)
      BY <1>4, <1>6, <2>2, <3>1
    <3>3. QED
      BY <1>2, <3>1, <3>2 DEF ChildInv
  <2>3. QED
    BY <2>1, <2>2
<1>8. \A q, r \in Pids : pids'[q] = pids'[r] /\ pids'[q] # None => q = r
  BY <1>4, <1>5 DEF ChildInv
<1>9. \A q \in Pids : (pids'[q] # None <=> child'[q] # "free") /\ (pids'[q] # None => pids'[q] \in forked')
  BY <1>2, <1>3, <1>4 DEF ChildInv
<1>10. onexit' # None => child'[onexit'] = "exited"
  BY <1>1, <1>2, <1>4 DEF ChildInv
<1>11. QED
  BY <1>2, <1>4, <1>7, <1>8, <1>9, <1>10 DEF ChildInv

LEMMA ChildExitsKeeps ==
  ASSUME ChildInv, NEW p \in Pids, ChildExits(p)
  PROVE  ChildInv'
<1>1. /\ child[p] = "alive" /\ child' = [child EXCEPT ![p] = "exited"]
      /\ pids' = pids /\ onexit' = onexit /\ forked' = forked /\ dropped' = dropped
  BY DEF ChildExits
<1>2. \A q \in Pids : child'[q] = IF q = p THEN "exited" ELSE child[q]
  BY <1>1 DEF ChildInv
<1>3. child' \in [Pids -> {"free", "alive", "exited"}]
  BY <1>1 DEF ChildInv
<1>4. \A q \in Pids : child'[q] # "free" <=> child[q] # "free"
  BY <1>1, <1>2
<1>5. QED
  BY <1>1, <1>2, <1>3, <1>4 DEF ChildInv

LEMMA OnExitKeeps ==
  ASSUME ChildInv, NEW p \in Pids, OnExit(p)
  PROVE  ChildInv'
  BY DEF ChildInv, OnExit

\* With forever the exit of the child and its new start, even under the same pid, leave
\* the fork with one child.
LEMMA ExitHandledKeeps ==
  ASSUME ChildInv, ExitHandled
  PROVE  ChildInv'
<1> DEFINE p == onexit
           j == pids[onexit]
           free == [child EXCEPT ![onexit] = "free"]
<1>1. /\ p # None /\ onexit' = None /\ forked' = forked
      /\ \/ /\ j \in Forever
            /\ \E q \in {q \in Pids : free[q] = "free"} :
                 child' = [free EXCEPT ![q] = "alive"] /\ pids' = Respawned(p, q, j)
            /\ dropped' = dropped
         \/ /\ child' = free
            /\ pids' = [pids EXCEPT ![p] = None]
            /\ dropped' = IF j \in Forever THEN dropped \cup {j} ELSE dropped
  BY DEF ExitHandled
<1>2. p \in Pids /\ child[p] = "exited" /\ j # None /\ j \in forked /\ j \in Jobs
  BY <1>1, ProcessAssumption DEF ChildInv
<1>3. /\ free \in [Pids -> {"free", "alive", "exited"}]
      /\ \A r \in Pids : free[r] = IF r = p THEN "free" ELSE child[r]
  BY <1>2 DEF ChildInv
<1>4. \A r \in Pids : r # p => pids[r] # j
  BY <1>2 DEF ChildInv
<1> HIDE DEF p, j, free
<1>5. pids[p] = j /\ forked \subseteq Jobs /\ None \notin Jobs
  BY ProcessAssumption DEF p, j, ChildInv
<1>6. ASSUME j \in Forever, dropped' = dropped, NEW q \in Pids, free[q] = "free",
             child' = [free EXCEPT ![q] = "alive"], pids' = Respawned(p, q, j)
      PROVE  ChildInv'
  <2>1. /\ child' \in [Pids -> {"free", "alive", "exited"}]
        /\ \A r \in Pids : child'[r] = IF r = q THEN "alive" ELSE free[r]
    BY <1>3, <1>6
  <2>2. /\ pids' \in [Pids -> Jobs \cup {None}]
        /\ \A r \in Pids : pids'[r] = IF r = q THEN j ELSE IF r = p THEN None ELSE pids[r]
    BY <1>2, <1>6 DEF Respawned, ChildInv
  <2>3. q = p \/ pids[q] = None
    BY <1>3, <1>6 DEF ChildInv
  <2>4. ASSUME NEW i \in forked \cap Forever
        PROVE  i \in dropped <=> \A r \in Pids : pids'[r] # i
    <3>1. i \in dropped <=> \A r \in Pids : pids[r] # i
      BY DEF ChildInv
    <3>2. CASE i = j
      <4>1. pids'[q] = i /\ pids[p] = i
        BY <1>5, <2>2, <3>2
      <4>2. QED
        BY <1>2, <3>1, <4>1
    <3>3. CASE i # j
      <4>1. i # None
        BY <1>5
      <4>2. \A r \in Pids : pids'[r] = i <=> pids[r] = i
        BY <1>5, <2>2, <2>3, <3>3, <4>1
      <4>3. QED
        BY <3>1, <4>2
    <3>4. QED
      BY <3>2, <3>3
  <2>5. \A r, u \in Pids : pids'[r] = pids'[u] /\ pids'[r] # None => r = u
    BY <1>4, <2>2 DEF ChildInv
  <2>6. \A r \in Pids : pids'[r] # None <=> child'[r] # "free"
    BY <1>2, <1>3, <2>1, <2>2 DEF ChildInv
  <2>7. \A r \in Pids : pids'[r] # None => pids'[r] \in forked
    BY <1>2, <2>2 DEF ChildInv
  <2>8. QED
    BY <1>1, <1>6, <2>1, <2>2, <2>4, <2>5, <2>6, <2>7 DEF ChildInv
<1>7. CASE /\ child' = free
           /\ pids' = [pids EXCEPT ![p] = None]
           /\ dropped' = IF j \in Forever THEN dropped \cup {j} ELSE dropped
  <2>1. /\ pids' \in [Pids -> Jobs \cup {None}]
        /\ \A r \in Pids : pids'[r] = IF r = p THEN None ELSE pids[r]
    BY <1>2, <1>7 DEF ChildInv
  <2>2. ASSUME NEW i \in forked \cap Forever
        PROVE  i \in dropped' <=> \A r \in Pids : pids'[r] # i
    <3>1. i \in dropped <=> \A r \in Pids : pids[r] # i
      BY DEF ChildInv
    <3>2. CASE i = j
      BY <1>2, <1>4, <1>7, <2>1, <3>2
    <3>3. CASE i # j
      <4>1. i # None /\ (i \in dropped' <=> i \in dropped)
        BY <1>5, <1>7, <3>3
      <4>2. \A r \in Pids : pids'[r] = i <=> pids[r] = i
        BY <1>5, <2>1, <3>3, <4>1
      <4>3. QED
        BY <3>1, <4>1, <4>2
    <3>4. QED
      BY <3>2, <3>3
  <2>3. dropped' \subseteq Forever \cap forked
    BY <1>2, <1>7 DEF ChildInv
  <2>4. \A r, u \in Pids : pids'[r] = pids'[u] /\ pids'[r] # None => r = u
    BY <2>1 DEF ChildInv
  <2>5. \A r \in Pids : pids'[r] # None <=> child'[r] # "free"
    BY <1>3, <1>7, <2>1 DEF ChildInv
  <2>6. \A r \in Pids : pids'[r] # None => pids'[r] \in forked
    BY <2>1 DEF ChildInv
  <2>7. QED
    BY <1>1, <1>3, <1>7, <2>1, <2>2, <2>3, <2>4, <2>5, <2>6 DEF ChildInv
<1>8. QED
  BY <1>1, <1>6, <1>7

-----------------------------------------------------------------------------

LEMMA ProcessInitInv == ProcessInit => PInv
<1> SUFFICES ASSUME ProcessInit PROVE PInv
  OBVIOUS
<1>1. HandlersInv
  <2>1. \A n \in Names : handlers[n] = EmptySet
    BY DEF ProcessInit
  <2>2. <<>> \in Seq(Emissions) /\ Len(<<>>) = 0
    BY EmptySeq
  <2>3. \A n \in Signals : ~(handlers[n].size > 0)
    BY <2>1 DEF EmptySet, Names
  <2>4. QED
    BY <2>1, <2>2, <2>3, EmptySetFacts DEF ProcessInit, HandlersInv, HandledSignalsWatched
<1>2. ChildInv
  BY ProcessAssumption DEF ProcessInit, ChildInv
<1>3. QED
  BY <1>1, <1>2 DEF PInv

LEMMA ProcessNextInv == PInv /\ ProcessNext => PInv'
<1> SUFFICES ASSUME PInv, ProcessNext PROVE PInv'
  OBVIOUS
<1>1. HandlersInv /\ ChildInv
  BY DEF PInv
<1>2. UNCHANGED childVars => ChildInv'
  BY <1>1 DEF childVars, ChildInv
<1>3. process' = process /\ UNCHANGED eventVars => HandlersInv'
  BY <1>1 DEF eventVars, HandlersInv, HandledSignalsWatched
<1>4. ASSUME NEW n \in Names, OffAll(n) PROVE PInv'
  BY <1>1, <1>2, <1>4, OffAllKeeps DEF OffAll, PInv
<1>5. ASSUME NEW n \in Names, NEW v \in Handlers, On(n, v) PROVE PInv'
  BY <1>1, <1>2, <1>5, OnKeeps DEF On, PInv
<1>6. ASSUME NEW n \in Names, NEW v \in Handlers, Off(n, v) PROVE PInv'
  BY <1>1, <1>2, <1>6, OffKeeps DEF Off, PInv
<1>7. ASSUME NEW n \in Signals, Signal(n) PROVE PInv'
  BY <1>1, <1>2, <1>7, SignalKeeps DEF Signal, PInv
<1>8. CASE CallHandler
  BY <1>1, <1>2, <1>8, CallHandlerKeeps DEF CallHandler, PInv
<1>9. CASE EndEmission
  BY <1>1, <1>2, <1>9, EndEmissionKeeps DEF EndEmission, PInv
<1>10. CASE ExitCall
  BY <1>1, <1>2, <1>10, ExitKeeps DEF ExitCall, PInv
<1>11. ASSUME NEW j \in Jobs, Fork(j) PROVE PInv'
  BY <1>1, <1>3, <1>11, ForkKeeps DEF Fork, PInv
<1>12. ASSUME NEW p \in Pids, ChildExits(p) PROVE PInv'
  BY <1>1, <1>3, <1>12, ChildExitsKeeps DEF ChildExits, PInv
<1>13. ASSUME NEW p \in Pids, OnExit(p) PROVE PInv'
  BY <1>1, <1>3, <1>13, OnExitKeeps DEF OnExit, PInv
<1>14. CASE ExitHandled
  BY <1>1, <1>3, <1>14, ExitHandledKeeps DEF ExitHandled, PInv
<1>15. QED
  BY <1>4, <1>5, <1>6, <1>7, <1>8, <1>9, <1>10, <1>11, <1>12, <1>13, <1>14 DEF ProcessNext

LEMMA ProcessStutter == PInv /\ UNCHANGED processVars => PInv'
  BY DEF PInv, HandlersInv, HandledSignalsWatched, ChildInv, processVars

LEMMA ProcessInductive == ProcessSpec => []PInv
<1>1. PInv /\ [ProcessNext]_processVars => PInv'
  BY ProcessNextInv, ProcessStutter
<1>2. QED
  BY <1>1, ProcessInitInv, PTL DEF ProcessSpec

\* What the invariant says of emissions and of children.
LEMMA PInvImplies == PInv => /\ SetsConsistent /\ EmitsToAll /\ DiesOfDeletion
                             /\ HandledSignalsWatched /\ ChildrenKept
<1> SUFFICES ASSUME PInv PROVE /\ SetsConsistent /\ EmitsToAll /\ DiesOfDeletion
                               /\ HandledSignalsWatched /\ ChildrenKept
  OBVIOUS
<1>1. EmitsToAll
  <2>1. DOMAIN emitting = 1 .. Len(emitting)
    BY LenProperties DEF PInv, HandlersInv
  <2>2. QED
    BY <2>1 DEF EmitsToAll, PInv, HandlersInv, InOrder
<1>2. ChildrenKept
  <2>1. ASSUME NEW j \in forked \cap Forever
        PROVE  Cardinality({p \in Pids : pids[p] = j}) = IF j \in dropped THEN 0 ELSE 1
    <3>1. j # None
      BY ProcessAssumption DEF PInv, ChildInv
    <3>2. CASE j \in dropped
      <4>1. {p \in Pids : pids[p] = j} = {}
        BY <3>2 DEF PInv, ChildInv
      <4>2. QED
        BY <3>2, <4>1, FS_EmptySet
    <3>3. CASE j \notin dropped
      <4>1. PICK p \in Pids : pids[p] = j
        BY <3>3 DEF PInv, ChildInv
      <4>2. {q \in Pids : pids[q] = j} = {p}
        BY <3>1, <4>1 DEF PInv, ChildInv
      <4>3. QED
        BY <3>3, <4>2, FS_Singleton
    <3>4. QED
      BY <3>2, <3>3
  <2>2. QED
    BY <2>1 DEF ChildrenKept, PInv, ChildInv
<1>3. SetsConsistent /\ DiesOfDeletion /\ HandledSignalsWatched
  BY DEF SetsConsistent, DiesOfDeletion, PInv, HandlersInv
<1>4. QED
  BY <1>1, <1>2, <1>3

\* The places that a set of handlers notes are those where its members are, after any
\* additions and deletions (set.lua:12-43).
THEOREM SetsStayConsistent == ProcessSpec => []SetsConsistent
<1>1. PInv => SetsConsistent
  BY PInvImplies
<1>2. QED
  BY <1>1, ProcessInductive, PTL

\* An emission calls the handlers it found, each once and in order, unless one of them
\* is deleted meanwhile (emitter.lua:45-49).
THEOREM EmissionsReachAll == ProcessSpec => []EmitsToAll
<1>1. PInv => EmitsToAll
  BY PInvImplies
<1>2. QED
  BY <1>1, ProcessInductive, PTL

\* Only after such a deletion does emit find an empty place (emitter.lua:48).
THEOREM OnlyDeletionKills == ProcessSpec => []DiesOfDeletion
<1>1. PInv => DiesOfDeletion
  BY PInvImplies
<1>2. QED
  BY <1>1, ProcessInductive, PTL

\* A signal with a handler is watched, unless its handle did not start (process.lua:258-287).
THEOREM HandledIsWatched == ProcessSpec => []HandledSignalsWatched
<1>1. PInv => HandledSignalsWatched
  BY PInvImplies
<1>2. QED
  BY <1>1, ProcessInductive, PTL

-----------------------------------------------------------------------------
(* The server. *)

Exiting == \E k \in 1 .. Len(emitting) : emitting[k].name = "exit"

Last == \E c \in Conns : conn[c] = "last"

\* The inductive invariant: with an exit, or a connection that waits for the close of
\* the server before it exits, the count is 0 and the server closed; and an exit that
\* has not ended the process is still being emitted.
IInv ==
  /\ TypeOK
  /\ PInv
  /\ ConnectionsCounted
  /\ exits \/ Last => connections = 0 /\ closed
  /\ exits /\ process = "runs" => Exiting

-----------------------------------------------------------------------------

LEMMA PInvTypes == PInv => ProcessTypeOK
<1> SUFFICES ASSUME PInv PROVE ProcessTypeOK
  OBVIOUS
<1>1. DOMAIN emitting = 1 .. Len(emitting) /\ emitting \in Seq(Emissions)
  BY LenProperties DEF PInv, HandlersInv
<1>2. \A n \in DOMAIN emitting : emitting[n].name \in Names
  <2> TAKE n \in DOMAIN emitting
  <2>1. emitting[n] \in Emissions
    BY <1>1, ElementOfSeq
  <2>2. QED
    BY <2>1 DEF Emissions
<1>3. dropped \subseteq Forever
  BY DEF PInv, ChildInv
<1>4. QED
  BY <1>2, <1>3 DEF ProcessTypeOK, PInv, HandlersInv, ChildInv

LEMMA PInvTypesNext == PInv' => ProcessTypeOK'
  BY PInvTypes, PTL

\* The loop handles no event while the process is exiting.
LEMMA LoopNotExiting ==
  ASSUME IInv, InLoop
  PROVE  process = "runs" /\ ~exits
<1>1. Len(<<>>) = 0
  BY EmptySeq
<1>2. QED
  BY <1>1 DEF IInv, InLoop, Exiting

LEMMA ServingFinite ==
  IsFiniteSet(Serving) /\ Cardinality(Serving) \in Nat /\ Serving \subseteq Conns
<1>1. Serving \subseteq Conns
  BY DEF Serving
<1>2. QED
  BY <1>1, TcpServerAssumption, FS_Subset, FS_CardinalityType

\* What other events do to an exit that is being emitted.
LEMMA StillExiting ==
  ASSUME PInv, ProcessNext, Exiting, process' = "runs"
  PROVE  Exiting'
<1>1. PICK k \in 1 .. Len(emitting) : emitting[k].name = "exit"
  BY DEF Exiting
<1>2. emitting \in Seq(Emissions) /\ emitting # <<>> /\ DOMAIN emitting = 1 .. Len(emitting)
  BY <1>1, EmptySeq, LenProperties DEF PInv, HandlersInv
<1>3. emitting' = emitting => Exiting'
  BY DEF Exiting
<1>4. ASSUME DOMAIN emitting' = DOMAIN emitting, emitting' \in Seq(Emissions),
             \A j \in DOMAIN emitting : emitting'[j].name = emitting[j].name
      PROVE  Exiting'
  <2>1. DOMAIN emitting' = 1 .. Len(emitting')
    BY <1>4, LenProperties
  <2>2. k \in 1 .. Len(emitting')
    BY <1>2, <1>4, <2>1
  <2>3. QED
    BY <1>1, <1>2, <1>4, <2>2 DEF Exiting
<1>5. ASSUME NEW n \in Names, OffAll(n) PROVE Exiting'
  <2>1. emitting' \in Seq(Emissions)
    BY <1>5, OffAllKeeps DEF PInv, HandlersInv
  <2>2. DOMAIN emitting' = DOMAIN emitting
    BY <1>5 DEF OffAll
  <2>3. \A j \in DOMAIN emitting : emitting'[j].name = emitting[j].name
    <3> TAKE j \in DOMAIN emitting
    <3>1. emitting[j] \in Emissions
      BY <1>2, ElementOfSeq
    <3>2. emitting'[j] = IF emitting[j].name = n THEN AfterClear(emitting[j], handlers[n]) ELSE emitting[j]
      BY <1>5 DEF OffAll
    <3>3. AfterClear(emitting[j], handlers[n]).name = emitting[j].name
      BY <3>1 DEF AfterClear, Emissions
    <3>4. QED
      BY <3>2, <3>3
  <2>4. QED
    BY <1>4, <2>1, <2>2, <2>3
<1>6. ASSUME NEW n \in Names, NEW v \in Handlers, Off(n, v) PROVE Exiting'
  <2>1. emitting' \in Seq(Emissions)
    BY <1>6, OffKeeps DEF PInv, HandlersInv
  <2>2. DOMAIN emitting' = DOMAIN emitting
    BY <1>6 DEF Off
  <2>3. \A j \in DOMAIN emitting : emitting'[j].name = emitting[j].name
    <3> TAKE j \in DOMAIN emitting
    <3>1. emitting[j] \in Emissions
      BY <1>2, ElementOfSeq
    <3>2. emitting'[j] = IF emitting[j].name = n THEN AfterDelete(emitting[j], handlers[n], v) ELSE emitting[j]
      BY <1>6 DEF Off
    <3>3. AfterDelete(emitting[j], handlers[n], v).name = emitting[j].name
      BY <3>1 DEF AfterDelete, Emissions
    <3>4. QED
      BY <3>2, <3>3
  <2>4. QED
    BY <1>4, <2>1, <2>2, <2>3
<1>7. ASSUME NEW n \in Names, NEW v \in Handlers, On(n, v) PROVE Exiting'
  BY <1>3, <1>7 DEF On
<1>8. ASSUME NEW n \in Signals, Signal(n) PROVE Exiting'
  BY <1>2, <1>8 DEF Signal, InLoop
<1>9. CASE CallHandler
  <2>1. Len(emitting') = Len(emitting) /\ \A j \in 1 .. Len(emitting) : emitting'[j].name = emitting[j].name
    BY <1>9, CallHandlerKeeps DEF PInv
  <2>2. QED
    BY <1>1, <2>1 DEF Exiting
<1>10. CASE EndEmission
  <2>1. emitting' = Tail(emitting) /\ Head(emitting).name # "exit"
    BY <1>10 DEF EndEmission
  <2>2. /\ Tail(emitting) \in Seq(Emissions) /\ Len(Tail(emitting)) = Len(emitting) - 1
        /\ \A j \in 1 .. Len(Tail(emitting)) : Tail(emitting)[j] = emitting[j + 1]
        /\ Head(emitting) = emitting[1] /\ Len(emitting) \in Nat
    BY <1>2, RestKeeps, LenProperties DEF PInv, HandlersInv
  <2>3. k # 1
    BY <1>1, <2>1, <2>2
  <2>4. k - 1 \in 1 .. Len(Tail(emitting)) /\ (k - 1) + 1 = k
    BY <2>2, <2>3
  <2>5. emitting'[k - 1] = emitting[k] /\ k - 1 \in 1 .. Len(emitting')
    BY <2>1, <2>2, <2>4
  <2>6. QED
    BY <1>1, <2>5 DEF Exiting
<1>11. CASE ExitCall
  BY <1>1, <1>2, <1>11 DEF ExitCall
<1>12. ASSUME NEW j \in Jobs, Fork(j) PROVE Exiting'
  BY <1>3, <1>12 DEF Fork, eventVars
<1>13. ASSUME NEW p \in Pids, ChildExits(p) \/ OnExit(p) PROVE Exiting'
  BY <1>3, <1>13 DEF ChildExits, OnExit, eventVars
<1>14. CASE ExitHandled
  BY <1>3, <1>14 DEF ExitHandled, eventVars
<1>15. QED
  BY <1>5, <1>6, <1>7, <1>8, <1>9, <1>10, <1>11, <1>12, <1>13, <1>14 DEF ProcessNext

\* What happens in the process without the server.
LEMMA ProcessKeeps ==
  ASSUME IInv, ProcessNext, UNCHANGED serverVars
  PROVE  IInv'
<1>1. /\ conn' = conn /\ connections' = connections /\ quit' = quit /\ closed' = closed
      /\ listening' = listening /\ exits' = exits
  BY DEF serverVars
<1>2. PInv' /\ ProcessTypeOK'
  BY ProcessNextInv, PInvTypesNext DEF IInv
<1>3. Serving' = Serving /\ (Last' <=> Last)
  BY <1>1 DEF Serving, Last
<1>4. exits' /\ process' = "runs" => Exiting'
  <2>1. process' = "runs" => process = "runs"
    BY DEF ProcessNext, OffAll, On, Off, Signal, InLoop, CallHandler, EndEmission, ExitCall,
           Fork, ChildExits, OnExit, ExitHandled
  <2>2. QED
    BY <1>1, <2>1, StillExiting DEF IInv
<1>5. QED
  BY <1>1, <1>2, <1>3, <1>4 DEF IInv, TypeOK, ConnectionsCounted

\* The exit that a server calls for, from the loop.
LEMMA ServerExits ==
  ASSUME IInv, InLoop, Exit, UNCHANGED childVars
  PROVE  PInv' /\ (process' = "runs" => Exiting')
<1>1. HandlersInv' /\ (process' = "runs" => emitting' # <<>> /\ Head(emitting').name = "exit")
  BY LoopNotExiting, ExitKeeps DEF IInv, PInv
<1>2. ChildInv'
  BY DEF IInv, PInv, ChildInv, childVars
<1>3. ASSUME process' = "runs" PROVE Exiting'
  <2>1. emitting' \in Seq(Emissions) /\ emitting' # <<>>
    BY <1>1, <1>3 DEF HandlersInv
  <2>2. 1 \in 1 .. Len(emitting') /\ Head(emitting') = emitting'[1]
    BY <2>1, EmptySeq, HeadTailProperties
  <2>3. QED
    BY <1>1, <1>3, <2>2 DEF Exiting
<1>4. QED
  BY <1>1, <1>2, <1>3 DEF PInv

LEMMA AcceptKeeps ==
  ASSUME IInv, NEW c \in Conns, Accept(c)
  PROVE  IInv'
<1>1. /\ InLoop /\ conn[c] = "none"
      /\ quit' = quit /\ closed' = closed /\ listening' = listening /\ exits' = exits
      /\ UNCHANGED processVars
  BY DEF Accept
<1>2. ~exits /\ PInv' /\ ProcessTypeOK'
  BY <1>1, LoopNotExiting, ProcessStutter, PInvTypesNext DEF IInv
<1>3. connections \in 0 .. MaxConnections /\ MaxConnections \in Nat /\ conn \in [Conns -> Conn]
      /\ connections = Cardinality(Serving)
  BY <1>2, TcpServerAssumption DEF IInv, TypeOK, ConnectionsCounted
<1>4. ASSUME NEW v \in {"refused", "failing"}, conn' = [conn EXCEPT ![c] = v],
             connections' = connections
      PROVE  IInv'
  <2>1. /\ conn' \in [Conns -> Conn] /\ Serving' = Serving /\ (Last' => Last)
    BY <1>1, <1>3, <1>4 DEF Serving, Last, Conn
  <2>2. TypeOK'
    BY <1>1, <1>2, <1>4, <2>1 DEF IInv, TypeOK
  <2>3. QED
    BY <1>1, <1>2, <1>4, <2>1, <2>2 DEF IInv, ConnectionsCounted
<1>5. CASE ~Refuses /\ conn' = [conn EXCEPT ![c] = "serving"] /\ connections' = connections + 1
  <2>1. ~closed /\ connections + 1 <= MaxConnections
    BY <1>3, <1>5 DEF Refuses
  <2>2. ~Last
    BY <2>1 DEF IInv
  <2>3. conn' \in [Conns -> Conn] /\ Serving' = Serving \cup {c} /\ c \notin Serving /\ ~Last'
    BY <1>1, <1>3, <1>5, <2>2 DEF Serving, Last, Conn
  <2>4. Cardinality(Serving') = Cardinality(Serving) + 1
    BY <2>3, ServingFinite, FS_AddElement
  <2>5. connections' \in 0 .. MaxConnections /\ connections' = Cardinality(Serving')
    BY <1>3, <1>5, <2>1, <2>4
  <2>6. Cardinality(Serving') <= MaxConnections
    BY <1>3, <2>5
  <2>7. TypeOK'
    BY <1>1, <1>2, <2>3, <2>5 DEF IInv, TypeOK
  <2>8. QED
    BY <1>1, <1>2, <2>3, <2>5, <2>6, <2>7 DEF IInv, ConnectionsCounted
<1>6. QED
  BY <1>4, <1>5 DEF Accept

LEMMA CloseSocketKeeps ==
  ASSUME IInv, NEW c \in Conns, CloseSocket(c)
  PROVE  IInv'
<1>1. /\ InLoop /\ conn[c] = "serving" /\ connections' = connections - 1 /\ quit' = quit
  BY DEF CloseSocket, Closable
<1>2. ~exits
  BY <1>1, LoopNotExiting
<1>3. connections \in 0 .. MaxConnections /\ MaxConnections \in Nat /\ conn \in [Conns -> Conn]
      /\ connections = Cardinality(Serving) /\ Cardinality(Serving) <= MaxConnections
  BY <1>2, TcpServerAssumption DEF IInv, TypeOK, ConnectionsCounted
<1>4. c \in Serving
  BY <1>1 DEF Serving
<1>5. connections # 0
  BY <1>3, <1>4, ServingFinite, FS_EmptySet
<1>6. connections' \in 0 .. MaxConnections
  BY <1>1, <1>3, <1>5
<1>7. ~Last
  BY <1>5 DEF IInv
<1>8. Cardinality(Serving \ {c}) = connections - 1
  BY <1>3, <1>4, ServingFinite, FS_RemoveElement
<1>9. UNCHANGED processVars => PInv' /\ ProcessTypeOK'
  BY ProcessStutter, PInvTypesNext DEF IInv
<1>10. ASSUME NEW v \in {"closing", "last"}, conn' = [conn EXCEPT ![c] = v]
       PROVE  /\ conn' \in [Conns -> Conn]
              /\ connections' = Cardinality(Serving') /\ Cardinality(Serving') <= MaxConnections
              /\ v = "closing" => ~Last'
  <2>1. Serving' = Serving \ {c}
    BY <1>3, <1>10 DEF Serving
  <2>2. QED
    BY <1>1, <1>3, <1>6, <1>7, <1>8, <1>10, <2>1 DEF Conn, Last
<1>11. CASE /\ ~ExitsNow
            /\ conn' = [conn EXCEPT ![c] = "closing"]
            /\ UNCHANGED <<processVars, closed, listening, exits>>
  <2>1. /\ conn' \in [Conns -> Conn] /\ ~Last'
        /\ connections' = Cardinality(Serving') /\ Cardinality(Serving') <= MaxConnections
    BY <1>10, <1>11
  <2>2. TypeOK'
    BY <1>1, <1>6, <1>9, <1>11, <2>1 DEF IInv, TypeOK
  <2>3. QED
    BY <1>2, <1>9, <1>11, <2>1, <2>2 DEF IInv, ConnectionsCounted
<1>12. CASE /\ ExitsNow /\ ~closed
            /\ conn' = [conn EXCEPT ![c] = "last"]
            /\ closed' = TRUE
            /\ listening' = "closing"
            /\ UNCHANGED <<processVars, exits>>
  <2>1. /\ conn' \in [Conns -> Conn]
        /\ connections' = Cardinality(Serving') /\ Cardinality(Serving') <= MaxConnections
    BY <1>10, <1>12
  <2>2. connections' = 0
    BY <1>1, <1>12 DEF ExitsNow
  <2>3. TypeOK'
    BY <1>1, <1>6, <1>9, <1>12, <2>1 DEF IInv, TypeOK
  <2>4. QED
    BY <1>2, <1>9, <1>12, <2>1, <2>2, <2>3 DEF IInv, ConnectionsCounted
<1>13. CASE /\ ExitsNow /\ closed
            /\ exits' = TRUE
            /\ Exit
            /\ UNCHANGED <<childVars, conn, closed, listening>>
  <2>1. PInv' /\ (process' = "runs" => Exiting') /\ ProcessTypeOK'
    BY <1>1, <1>13, ServerExits, PInvTypesNext
  <2>2. connections' = 0
    BY <1>1, <1>13 DEF ExitsNow
  <2>3. Serving' = Serving
    BY <1>13 DEF Serving
  <2>4. TypeOK'
    BY <1>1, <1>6, <1>13, <2>1 DEF IInv, TypeOK
  <2>5. QED
    BY <1>3, <1>13, <2>1, <2>2, <2>3, <2>4 DEF IInv, ConnectionsCounted
<1>14. QED
  BY <1>11, <1>12, <1>13 DEF CloseSocket

LEMMA SocketClosedKeeps ==
  ASSUME IInv, NEW c \in Conns, SocketClosed(c)
  PROVE  IInv'
<1>1. /\ conn[c] \in {"closing", "failing"} /\ conn' = [conn EXCEPT ![c] = "closed"]
      /\ UNCHANGED processVars /\ connections' = connections /\ quit' = quit
      /\ closed' = closed /\ listening' = listening /\ exits' = exits
  BY DEF SocketClosed
<1>2. PInv' /\ ProcessTypeOK' /\ process' = process /\ emitting' = emitting
  BY <1>1, ProcessStutter, PInvTypesNext DEF IInv, processVars
<1>3. conn' \in [Conns -> Conn] /\ Serving' = Serving /\ (Last' => Last)
  BY <1>1 DEF IInv, TypeOK, Conn, Serving, Last
<1>4. TypeOK'
  BY <1>1, <1>2, <1>3 DEF IInv, TypeOK
<1>5. QED
  BY <1>1, <1>2, <1>3, <1>4 DEF IInv, ConnectionsCounted, Exiting

LEMMA ServerClosedKeeps ==
  ASSUME IInv, ServerClosed
  PROVE  IInv'
<1>1. /\ InLoop /\ listening' = "closed" /\ UNCHANGED childVars /\ conn' = conn
      /\ connections' = connections /\ quit' = quit /\ closed' = closed
      /\ \/ ~Last /\ process' = process /\ UNCHANGED eventVars /\ exits' = exits
         \/ Last /\ exits' = TRUE /\ Exit
  BY DEF ServerClosed, Last
<1>2. Serving' = Serving /\ (Last' <=> Last)
  BY <1>1 DEF Serving, Last
<1>3. CASE ~Last /\ process' = process /\ UNCHANGED eventVars /\ exits' = exits
  <2>1. PInv' /\ ProcessTypeOK'
    BY <1>1, <1>3, ProcessStutter, PInvTypesNext DEF IInv, processVars, eventVars, childVars
  <2>2. ~exits
    BY <1>1, LoopNotExiting
  <2>3. TypeOK'
    BY <1>1, <1>3, <2>1 DEF IInv, TypeOK
  <2>4. QED
    BY <1>1, <1>2, <1>3, <2>1, <2>2, <2>3 DEF IInv, ConnectionsCounted
<1>4. CASE Last /\ exits' = TRUE /\ Exit
  <2>1. PInv' /\ (process' = "runs" => Exiting') /\ ProcessTypeOK'
    BY <1>1, <1>4, ServerExits, PInvTypesNext
  <2>2. TypeOK'
    BY <1>1, <1>4, <2>1 DEF IInv, TypeOK
  <2>3. QED
    BY <1>1, <1>2, <1>4, <2>1, <2>2 DEF IInv, ConnectionsCounted
<1>5. QED
  BY <1>1, <1>3, <1>4

\* The program sets quit, or closes the server.
LEMMA ProgramKeeps ==
  ASSUME IInv, SetQuit \/ CloseServer
  PROVE  IInv'
<1>1. /\ UNCHANGED processVars /\ conn' = conn /\ connections' = connections /\ exits' = exits
      /\ quit' \in BOOLEAN /\ closed' \in BOOLEAN /\ (closed => closed')
      /\ listening' \in {"open", "closing", "closed"}
  BY DEF SetQuit, CloseServer, IInv, TypeOK
<1>2. PInv' /\ ProcessTypeOK' /\ process' = process /\ emitting' = emitting
  BY <1>1, ProcessStutter, PInvTypesNext DEF IInv, processVars
<1>3. Serving' = Serving /\ (Last' <=> Last) /\ (Exiting' <=> Exiting)
  BY <1>1, <1>2 DEF Serving, Last, Exiting
<1>4. TypeOK'
  BY <1>1, <1>2 DEF IInv, TypeOK
<1>5. QED
  BY <1>1, <1>2, <1>3, <1>4 DEF IInv, ConnectionsCounted

-----------------------------------------------------------------------------

LEMMA InitInv == Init => IInv
<1> SUFFICES ASSUME Init PROVE IInv
  OBVIOUS
<1>1. PInv /\ ProcessTypeOK
  BY ProcessInitInv, PInvTypes DEF Init
<1>2. Serving = {} /\ ~Last
  BY DEF Init, Serving, Last
<1>3. Cardinality(Serving) = 0
  BY <1>2, FS_EmptySet
<1>4. MaxConnections \in Nat /\ 0 <= MaxConnections
  BY TcpServerAssumption
<1>5. TypeOK
  <2>1. conn \in [Conns -> Conn]
    BY DEF Init, Conn
  <2>2. connections \in 0 .. MaxConnections
    BY <1>4 DEF Init
  <2>3. QED
    BY <1>1, <2>1, <2>2 DEF Init, TypeOK
<1>6. QED
  BY <1>1, <1>2, <1>3, <1>4, <1>5 DEF Init, IInv, ConnectionsCounted

LEMMA NextInv == IInv /\ [Next]_vars => IInv'
<1> SUFFICES ASSUME IInv, [Next]_vars PROVE IInv'
  OBVIOUS
<1>1. CASE ProcessNext /\ UNCHANGED serverVars
  BY <1>1, ProcessKeeps
<1>2. ASSUME NEW c \in Conns, Accept(c) PROVE IInv'
  BY <1>2, AcceptKeeps
<1>3. ASSUME NEW c \in Conns, CloseSocket(c) PROVE IInv'
  BY <1>3, CloseSocketKeeps
<1>4. ASSUME NEW c \in Conns, SocketClosed(c) PROVE IInv'
  BY <1>4, SocketClosedKeeps
<1>5. CASE ServerClosed
  BY <1>5, ServerClosedKeeps
<1>6. CASE SetQuit \/ CloseServer
  BY <1>6, ProgramKeeps
<1>7. CASE UNCHANGED vars
  <2>1. UNCHANGED processVars /\ UNCHANGED serverVars
    BY <1>7 DEF vars
  <2>2. PInv' /\ ProcessTypeOK' /\ process' = process /\ emitting' = emitting
    BY <2>1, ProcessStutter, PInvTypesNext DEF IInv, processVars
  <2>3. Serving' = Serving /\ (Last' <=> Last) /\ (Exiting' <=> Exiting)
    BY <2>1, <2>2 DEF Serving, Last, Exiting, serverVars
  <2>4. QED
    BY <2>1, <2>2, <2>3 DEF IInv, TypeOK, ConnectionsCounted, serverVars
<1>8. QED
  BY <1>1, <1>2, <1>3, <1>4, <1>5, <1>6, <1>7 DEF Next

LEMMA Inductive == Spec => []IInv
  BY InitInv, NextInv, PTL DEF Spec

\* The variables of the server and of its process have the values their types say; the
\* count of connections is never negative or above the limit (tcp.lua:320-327).
THEOREM TypeCorrect == Spec => []TypeOK
<1>1. IInv => TypeOK
  BY DEF IInv
<1>2. QED
  BY <1>1, Inductive, PTL

\* The server counts the connections it serves, and serves no more than its limit
\* (tcp.lua:369-390, 413-414).
THEOREM CountIsRight == Spec => []ConnectionsCounted
<1>1. IInv => ConnectionsCounted
  BY DEF IInv
<1>2. QED
  BY <1>1, Inductive, PTL

\* The server ends the process when no connection is served and none can come
\* (tcp.lua:369-371, 416-419).
THEOREM ExitsClean == Spec => []ExitIsClean
<1>1. IInv => ExitIsClean
  BY DEF IInv, ExitIsClean
<1>2. QED
  BY <1>1, Inductive, PTL

\* No child is lost or doubled while its process serves connections
\* (process.lua:156-198).
THEOREM ChildrenAreKept == Spec => []ChildrenKept
<1>1. IInv => ChildrenKept
  BY PInvImplies DEF IInv
<1>2. QED
  BY <1>1, Inductive, PTL

=============================================================================
