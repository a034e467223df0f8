--------------------------- MODULE Parallel_proofs ---------------------------
(***************************************************************************)
(* For every number of callers, functions and limits: a call of            *)
(* parallel.all or parallel.map that no other one disturbed returns with   *)
(* all its own results, keeps to its limit and always has someone to wake  *)
(* it up.                                                                  *)
(***************************************************************************)
EXTENDS Parallel, SequenceTheorems, FiniteSetTheorems, TLAPS

\* The callers that run are those on the stack s, each once, when st is their status.
Stacked(st, s) ==
  /\ \A n \in 1 .. Len(s) : st[s[n]] = "running"
  /\ \A n, m \in 1 .. Len(s) : s[n] = s[m] => n = m
  /\ \A c \in Callers : st[c] = "running" => \E n \in 1 .. Len(s) : s[n] = c

\* What the loop of every call has started.
Started(c) ==
  /\ \A i \in Index : fn[c][i] = "new" <=> i > index[c]
  /\ \A i \in Index :
       fn[c][i] = "running" => i = index[c] /\ status[c] = "running" /\ running[c] < limit[c]
  /\ running[c] <= limit[c]

Unused(c) ==
  status[c] = "idle" =>
    index[c] = 0 /\ running[c] = 0 /\ completed[c] = 0 /\ c \notin disturbed /\ collect # c

\* Who collects: the call itself, or both are disturbed.
Collects ==
  /\ \A e \in Unfinished : e = collect \/ (e \in disturbed /\ collect \in disturbed)
  /\ \A e \in Callers : \A i \in Index :
       i <= index[e] => by[e][i] = e \/ (e \in disturbed /\ by[e][i] \in disturbed)

\* The counts of a call that is not disturbed.  A function that raised takes one off
\* completed that no suspended function will make up for in this round.
Counts(c) ==
  LET n == Cardinality(Suspended(c))
  IN /\ status[c] # "astray"
     /\ \A i \in Index : results[c][i] = IF fn[c][i] = "done" THEN c ELSE NoCaller
     /\ n <= running[c]
     /\ n <= running[c] - completed[c]
     /\ ~Raised(c) => n = running[c] - completed[c]
     /\ status[c] = "running" => completed[c] <= 0 /\ (~Raised(c) => completed[c] = 0)
     /\ status[c] = "waiting" /\ ~Raised(c) => Suspended(c) # {}
     /\ status[c] = "returned" => index[c] = Num /\ Suspended(c) = {}

\* The inductive invariant.
IInv ==
  /\ TypeOK
  /\ Stacked(status, stack)
  /\ \A c \in Callers : Started(c) /\ Unused(c)
  /\ Collects
  /\ \A c \in Undisturbed : Counts(c)

-----------------------------------------------------------------------------

LEMMA NumFacts == Num \in Nat /\ Num > 0 /\ Index = 1 .. Num /\ NoCaller \notin Callers
  BY ParallelAssumption DEF Index

LEMMA SuspendedFinite ==
  ASSUME NEW c \in Callers
  PROVE  IsFiniteSet(Suspended(c)) /\ Cardinality(Suspended(c)) \in Nat
<1>1. IsFiniteSet(Index)
  BY NumFacts, FS_Interval
<1>2. QED
  BY <1>1, FS_Subset, FS_CardinalityType DEF Suspended

\* A caller that starts to run is put on the stack.
LEMMA PushKeeps ==
  ASSUME NEW st \in [Callers -> Status], NEW s \in Seq(Callers), Stacked(st, s),
         NEW d \in Callers, st[d] # "running"
  PROVE  /\ <<d>> \o s \in Seq(Callers)
         /\ Stacked([st EXCEPT ![d] = "running"], <<d>> \o s)
<1> DEFINE t == <<d>> \o s
           new == [st EXCEPT ![d] = "running"]
<1>1. <<d>> \in Seq(Callers) /\ Len(<<d>>) = 1 /\ <<d>>[1] = d
  OBVIOUS
<1>2. Len(s) \in Nat
  BY LenProperties
<1>3. /\ t \in Seq(Callers) /\ Len(t) = 1 + Len(s)
      /\ \A n \in 1 .. 1 + Len(s) : t[n] = IF n <= 1 THEN <<d>>[n] ELSE s[n - 1]
  BY <1>1, ConcatProperties
<1> HIDE DEF t
<1>4. \A n \in 1 .. Len(t) : n = 1 \/ (n - 1 \in 1 .. Len(s) /\ t[n] = s[n - 1])
  BY <1>2, <1>3
<1>5. 1 \in 1 .. Len(t) /\ t[1] = d
  BY <1>1, <1>2, <1>3
<1>6. \A n \in 1 .. Len(s) : n + 1 \in 1 .. Len(t) /\ t[n + 1] = s[n]
  BY <1>2, <1>3
<1>7. \A c \in Callers : new[c] = IF c = d THEN "running" ELSE st[c]
  OBVIOUS
<1> HIDE DEF new
<1>8. \A n \in 1 .. Len(s) : s[n] # d /\ s[n] \in Callers
  BY ElementOfSeq DEF Stacked
<1>9. \A n \in 1 .. Len(t) : new[t[n]] = "running"
  BY <1>4, <1>5, <1>7, <1>8 DEF Stacked
<1>10. \A n, m \in 1 .. Len(t) : t[n] = t[m] => n = m
  <2> TAKE n, m \in 1 .. Len(t)
  <2> HAVE t[n] = t[m]
  <2>1. CASE n = 1 \/ m = 1
    BY <1>4, <1>5, <1>8, <2>1
  <2>2. CASE n # 1 /\ m # 1
    <3>1. n - 1 = m - 1 /\ n \in Int /\ m \in Int
      BY <1>4, <2>2 DEF Stacked
    <3>2. QED
      BY <3>1
  <2>3. QED
    BY <2>1, <2>2
<1>11. ASSUME NEW c \in Callers, new[c] = "running"
       PROVE  \E n \in 1 .. Len(t) : t[n] = c
  <2>1. CASE c = d
    BY <1>5, <2>1
  <2>2. CASE c # d
    <3>1. PICK n \in 1 .. Len(s) : s[n] = c
      BY <1>7, <1>11, <2>2 DEF Stacked
    <3>2. QED
      BY <1>6, <3>1
  <2>3. QED
    BY <2>1, <2>2
<1>12. QED
  BY <1>3, <1>9, <1>10, <1>11 DEF Stacked, t, new

\* The caller on top of the stack leaves it.
LEMMA PopKeeps ==
  ASSUME NEW st \in [Callers -> Status], NEW s \in Seq(Callers), Stacked(st, s),
         s # <<>>, NEW v, v # "running"
  PROVE  /\ Tail(s) \in Seq(Callers)
         /\ Stacked([st EXCEPT ![Head(s)] = v], Tail(s))
<1> DEFINE t == Tail(s)
           new == [st EXCEPT ![Head(s)] = v]
<1>1. Len(s) \in Nat \ {0}
  BY EmptySeq
<1>2. /\ t \in Seq(Callers) /\ Len(t) = Len(s) - 1
      /\ \A n \in 1 .. Len(t) : t[n] = s[n + 1]
      /\ Head(s) = s[1] /\ Head(s) \in Callers
  BY HeadTailProperties
<1> HIDE DEF t
<1>3. \A c \in Callers : new[c] = IF c = s[1] THEN v ELSE st[c]
  BY <1>2
<1> HIDE DEF new
<1>4. \A n \in 1 .. Len(t) : n + 1 \in 1 .. Len(s) /\ n + 1 # 1 /\ t[n] = s[n + 1] /\ t[n] # s[1]
  <2> TAKE n \in 1 .. Len(t)
  <2>1. n + 1 \in 1 .. Len(s) /\ n + 1 # 1 /\ 1 \in 1 .. Len(s) /\ t[n] = s[n + 1]
    BY <1>1, <1>2
  <2>2. QED
    BY <2>1 DEF Stacked
<1>5. \A n \in 1 .. Len(t) : new[t[n]] = "running"
  BY <1>2, <1>3, <1>4, ElementOfSeq DEF Stacked
<1>6. \A n, m \in 1 .. Len(t) : t[n] = t[m] => n = m
  <2> TAKE n, m \in 1 .. Len(t)
  <2> HAVE t[n] = t[m]
  <2>1. n + 1 = m + 1 /\ n \in Int /\ m \in Int
    BY <1>4 DEF Stacked
  <2>2. QED
    BY <2>1
<1>7. ASSUME NEW c \in Callers, new[c] = "running"
      PROVE  \E n \in 1 .. Len(t) : t[n] = c
  <2>1. PICK n \in 1 .. Len(s) : s[n] = c /\ c # s[1]
    BY <1>3, <1>7 DEF Stacked
  <2>2. n - 1 \in 1 .. Len(t) /\ (n - 1) + 1 = n
    BY <1>1, <1>2, <2>1
  <2>3. t[n - 1] = c
    BY <1>2, <2>1, <2>2
  <2>4. QED
    BY <2>2, <2>3
<1>8. QED
  BY <1>2, <1>5, <1>6, <1>7 DEF Stacked, t, new

\* A caller that neither ran nor runs leaves the stack alone.
LEMMA StayKeeps ==
  ASSUME NEW st \in [Callers -> Status], NEW s \in Seq(Callers), Stacked(st, s),
         NEW d \in Callers, st[d] # "running", NEW v, v # "running"
  PROVE  Stacked([st EXCEPT ![d] = v], s)
<1> DEFINE new == [st EXCEPT ![d] = v]
<1>1. \A c \in Callers : new[c] = IF c = d THEN v ELSE st[c]
  OBVIOUS
<1> HIDE DEF new
<1>2. \A n \in 1 .. Len(s) : s[n] \in Callers
  BY ElementOfSeq
<1>3. QED
  BY <1>1, <1>2 DEF Stacked, new

\* The caller whose loop or function runs.
LEMMA RunningFacts ==
  ASSUME IInv, NEW c \in Callers, Running(c)
  PROVE  status[c] = "running"
<1>1. stack \in Seq(Callers) /\ stack # <<>>
  BY DEF IInv, TypeOK, Running
<1>2. 1 \in 1 .. Len(stack) /\ stack[1] = c
  BY <1>1, EmptySeq, HeadTailProperties DEF Running
<1>3. QED
  BY <1>2 DEF IInv, Stacked

\* A function whose caller is in it.
LEMMA InFunctionFacts ==
  ASSUME IInv, NEW c \in Callers, InFunction(c)
  PROVE  /\ status[c] = "running"
         /\ index[c] \in Index /\ fn[c][index[c]] = "running"
         /\ running[c] < limit[c]
<1>1. status[c] = "running"
  BY RunningFacts DEF InFunction
<1>2. index[c] \in Index /\ fn[c][index[c]] = "running"
  BY NumFacts DEF InFunction, IInv, TypeOK
<1>3. QED
  BY <1>1, <1>2 DEF IInv, Started

\* Outside of its functions none of them is in its first step.
LEMMA InLoopFacts ==
  ASSUME IInv, NEW c \in Callers, InLoop(c)
  PROVE  /\ status[c] = "running"
         /\ \A i \in Index : fn[c][i] # "running"
<1>1. status[c] = "running" /\ Running(c) /\ ~InFunction(c)
  BY RunningFacts DEF InLoop
<1>2. ASSUME NEW i \in Index, fn[c][i] = "running" PROVE FALSE
  <2>1. i = index[c] /\ index[c] > 0
    BY <1>2, NumFacts DEF IInv, Started
  <2>2. QED
    BY <1>1, <1>2, <2>1 DEF InFunction
<1>3. QED
  BY <1>1, <1>2

\* A call that a step leaves alone keeps its part of the invariant.
LEMMA StartedFrame ==
  ASSUME NEW e \in Callers, Started(e),
         status'[e] = status[e] \/ status[e] # "running",
         index'[e] = index[e], fn'[e] = fn[e], limit'[e] = limit[e],
         running'[e] = running[e]
  PROVE  Started(e)'
  BY DEF Started

LEMMA CountsFrame ==
  ASSUME NEW e \in Callers, Counts(e),
         status'[e] = status[e], index'[e] = index[e], fn'[e] = fn[e],
         running'[e] = running[e], completed'[e] = completed[e], results'[e] = results[e]
  PROVE  Counts(e)'
<1>1. Suspended(e)' = Suspended(e) /\ Raised(e)' = Raised(e)
  BY DEF Suspended, Raised
<1>2. QED
  BY <1>1 DEF Counts

-----------------------------------------------------------------------------

LEMMA BeginKeeps ==
  ASSUME IInv, NEW c \in Callers, Begin(c)
  PROVE  IInv'
<1>1. PICK l \in Limits : limit' = [limit EXCEPT ![c] = l]
  BY DEF Begin
<1>2. /\ status[c] = "idle" /\ status' = [status EXCEPT ![c] = "running"]
      /\ collect' = c /\ stack' = <<c>> \o stack
      /\ disturbed' = IF Unfinished = {} THEN disturbed ELSE disturbed \cup Unfinished \cup {c}
      /\ index' = index /\ running' = running /\ completed' = completed
      /\ fn' = fn /\ by' = by /\ results' = results
  BY DEF Begin
<1>3. l \in Index
  BY ParallelAssumption DEF Index
<1>4. Stacked(status', stack') /\ stack' \in Seq(Callers)
  BY <1>2, PushKeeps DEF IInv, TypeOK
<1>5. Unfinished \subseteq Callers
  BY DEF Unfinished
<1>6. TypeOK'
  BY <1>1, <1>2, <1>3, <1>4, <1>5 DEF IInv, TypeOK, Status
<1>7. /\ index[c] = 0 /\ running[c] = 0 /\ completed[c] = 0 /\ c \notin disturbed /\ collect # c
      /\ Started(c) /\ Counts(c)
  BY <1>2 DEF IInv, Unused, Undisturbed
<1>8. \A i \in Index : fn[c][i] = "new"
  BY <1>7, NumFacts DEF Started
<1>9. ASSUME NEW e \in Callers PROVE Started(e)' /\ Unused(e)'
  <2>1. CASE e = c
    <3>1. Started(c)'
      BY <1>1, <1>2, <1>3, <1>7, <1>8, NumFacts DEF Started, IInv, TypeOK
    <3>2. QED
      BY <1>2, <2>1, <3>1 DEF Unused, IInv, TypeOK
  <2>2. CASE e # c
    <3>1. status'[e] = status[e] /\ limit'[e] = limit[e]
      BY <1>1, <1>2, <2>2 DEF IInv, TypeOK
    <3>2. Started(e)'
      BY <1>2, <3>1, StartedFrame DEF IInv
    <3>3. status[e] = "idle" => e \notin Unfinished
      BY DEF Unfinished
    <3>4. Unused(e)'
      BY <1>2, <2>2, <3>1, <3>3 DEF Unused, IInv
    <3>5. QED
      BY <3>2, <3>4
  <2>3. QED
    BY <2>1, <2>2
<1>10. Unfinished' \subseteq Unfinished \cup {c}
  BY <1>2 DEF Unfinished, IInv, TypeOK
<1>11. Collects'
  <2>1. \A e \in Unfinished' : e = collect' \/ (e \in disturbed' /\ collect' \in disturbed')
    BY <1>2, <1>10
  <2>2. disturbed \subseteq disturbed'
    BY <1>2
  <2>3. QED
    BY <1>2, <2>1, <2>2 DEF Collects, IInv
<1>12. ASSUME NEW e \in Undisturbed' PROVE Counts(e)'
  <2>1. e \in Callers /\ e \in Undisturbed
    BY <1>2, <1>12 DEF Undisturbed
  <2>2. CASE e # c
    <3>1. status'[e] = status[e]
      BY <1>2, <2>2 DEF IInv, TypeOK
    <3>2. QED
      BY <1>2, <2>1, <3>1, CountsFrame DEF IInv
  <2>3. CASE e = c
    <3>1. Suspended(c)' = Suspended(c) /\ Raised(c)' = Raised(c) /\ status'[c] = "running"
      BY <1>2 DEF Suspended, Raised, IInv, TypeOK
    <3>2. QED
      BY <1>2, <1>7, <2>3, <3>1 DEF Counts
  <2>4. QED
    BY <2>2, <2>3
<1>13. QED
  BY <1>4, <1>6, <1>9, <1>11, <1>12 DEF IInv

LEMMA StartKeeps ==
  ASSUME IInv, NEW c \in Callers, Start(c)
  PROVE  IInv'
<1> DEFINE i == index[c] + 1
<1>1. /\ InLoop(c) /\ running[c] < limit[c] /\ index[c] < Num
      /\ index' = [index EXCEPT ![c] = i]
      /\ fn' = [fn EXCEPT ![c][i] = "running"]
      /\ by' = [by EXCEPT ![c][i] = collect]
      /\ status' = status /\ limit' = limit /\ running' = running /\ completed' = completed
      /\ results' = results /\ collect' = collect /\ stack' = stack /\ disturbed' = disturbed
  BY DEF Start, Starting
<1>2. i \in Index /\ i \in Nat /\ index[c] \in Nat
  BY <1>1, NumFacts DEF IInv, TypeOK
<1>3. status[c] = "running" /\ \A j \in Index : fn[c][j] # "running"
  BY <1>1, InLoopFacts
<1>4. c \in Unfinished
  BY <1>1, <1>3 DEF Unfinished
<1>5. collect = c \/ (c \in disturbed /\ collect \in disturbed)
  BY <1>4 DEF IInv, Collects
<1>6. TypeOK'
  BY <1>1, <1>2, NumFacts DEF IInv, TypeOK, Function
<1>7. fn[c][i] = "new"
  BY <1>2 DEF IInv, Started
<1> HIDE DEF i
<1>8. /\ fn'[c][i] = "running" /\ by'[c][i] = collect /\ index'[c] = i
      /\ \A j \in Index : j # i => fn'[c][j] = fn[c][j] /\ by'[c][j] = by[c][j]
      /\ \A e \in Callers : e # c => fn'[e] = fn[e] /\ by'[e] = by[e] /\ index'[e] = index[e]
  BY <1>1, <1>2 DEF IInv, TypeOK
<1>9. \A j \in Index : j <= i <=> j = i \/ j <= index[c]
  BY <1>2, NumFacts DEF i
<1>10. ASSUME NEW e \in Callers PROVE Started(e)' /\ Unused(e)'
  <2>1. CASE e = c
    <3>1. \A j \in Index : fn'[c][j] = "new" <=> j > i
      <4> TAKE j \in Index
      <4>1. fn[c][j] = "new" <=> j > index[c]
        BY DEF IInv, Started
      <4>2. QED
        BY <1>2, <1>8, <1>9, <4>1, NumFacts
    <3>2. \A j \in Index : fn'[c][j] = "running" => j = i
      BY <1>3, <1>8
    <3>3. running[c] <= limit[c]
      BY DEF IInv, Started
    <3>4. Started(c)'
      BY <1>1, <1>3, <1>8, <3>1, <3>2, <3>3 DEF Started
    <3>5. QED
      BY <1>1, <1>3, <2>1, <3>4 DEF Unused
  <2>2. CASE e # c
    BY <1>1, <1>8, <2>2, StartedFrame DEF IInv, Unused
  <2>3. QED
    BY <2>1, <2>2
<1>11. Collects'
  <2>1. Unfinished' \subseteq Unfinished
    BY <1>1, <1>2, <1>4, <1>8 DEF Unfinished
  <2>2. ASSUME NEW e \in Callers, NEW j \in Index, j <= index'[e]
        PROVE  by'[e][j] = e \/ (e \in disturbed' /\ by'[e][j] \in disturbed')
    <3>1. CASE e = c /\ j = i
      BY <1>1, <1>5, <1>8, <3>1
    <3>2. CASE ~(e = c /\ j = i)
      <4>1. by'[e][j] = by[e][j] /\ j <= index[e]
        BY <1>8, <1>9, <2>2, <3>2
      <4>2. QED
        BY <1>1, <4>1 DEF IInv, Collects
    <3>3. QED
      BY <3>1, <3>2
  <2>3. QED
    BY <1>1, <2>1, <2>2 DEF IInv, Collects
<1>12. ASSUME NEW e \in Undisturbed' PROVE Counts(e)'
  <2>1. e \in Callers /\ Counts(e)
    BY <1>1, <1>12 DEF Undisturbed, IInv
  <2>2. CASE e # c
    BY <1>1, <1>8, <2>1, <2>2, CountsFrame
  <2>3. CASE e = c
    <3>1. Suspended(c)' = Suspended(c)
      BY <1>7, <1>8 DEF Suspended
    <3>2. Raised(c)' = Raised(c)
      BY <1>2, <1>7, <1>8 DEF Raised
    <3>3. \A j \in Index : fn'[c][j] = "done" <=> fn[c][j] = "done"
      BY <1>7, <1>8
    <3>4. QED
      BY <1>1, <1>3, <2>1, <2>3, <3>1, <3>2, <3>3 DEF Counts
  <2>4. QED
    BY <2>2, <2>3
<1>13. QED
  BY <1>1, <1>6, <1>10, <1>11, <1>12 DEF IInv

LEMMA SuspendKeeps ==
  ASSUME IInv, NEW c \in Callers, Suspend(c)
  PROVE  IInv'
<1> DEFINE i == index[c]
<1>1. /\ InFunction(c)
      /\ fn' = [fn EXCEPT ![c][i] = "suspended"]
      /\ running' = [running EXCEPT ![c] = @ + 1]
      /\ status' = status /\ limit' = limit /\ index' = index /\ completed' = completed
      /\ by' = by /\ results' = results /\ collect' = collect /\ stack' = stack
      /\ disturbed' = disturbed
  BY DEF Suspend
<1>2. status[c] = "running" /\ i \in Index /\ fn[c][i] = "running" /\ running[c] < limit[c]
  BY <1>1, InFunctionFacts
<1>3. /\ running[c] \in 0 .. Num /\ limit[c] \in 1 .. Num /\ completed[c] \in Int
      /\ running[c] + 1 \in 0 .. Num
  BY <1>2, NumFacts DEF IInv, TypeOK
<1> HIDE DEF i
<1>4. /\ fn'[c][i] = "suspended" /\ running'[c] = running[c] + 1
      /\ \A j \in Index : j # i => fn'[c][j] = fn[c][j]
      /\ \A e \in Callers : e # c => fn'[e] = fn[e] /\ running'[e] = running[e]
  BY <1>1, <1>2 DEF IInv, TypeOK
<1>5. TypeOK'
  BY <1>1, <1>2, <1>3 DEF IInv, TypeOK, Function
<1>6. ASSUME NEW e \in Callers PROVE Started(e)' /\ Unused(e)'
  <2>1. CASE e = c
    <3>1. \A j \in Index : fn'[c][j] # "running"
      BY <1>4 DEF IInv, Started, i
    <3>2. \A j \in Index : fn'[c][j] = "new" <=> j > index[c]
      BY <1>2, <1>4 DEF IInv, Started
    <3>3. running[c] + 1 <= limit[c]
      BY <1>2, <1>3
    <3>4. QED
      BY <1>1, <1>2, <1>4, <2>1, <3>1, <3>2, <3>3 DEF Started, Unused
  <2>2. CASE e # c
    BY <1>1, <1>4, <2>2, StartedFrame DEF IInv, Unused
  <2>3. QED
    BY <2>1, <2>2
<1>7. Collects'
  BY <1>1 DEF IInv, Collects, Unfinished
<1>8. ASSUME NEW e \in Undisturbed' PROVE Counts(e)'
  <2>1. e \in Callers /\ Counts(e)
    BY <1>1, <1>8 DEF Undisturbed, IInv
  <2>2. CASE e # c
    BY <1>1, <1>4, <2>1, <2>2, CountsFrame
  <2>3. CASE e = c
    <3>1. Suspended(c)' = Suspended(c) \cup {i} /\ i \notin Suspended(c)
      BY <1>2, <1>4 DEF Suspended
    <3>2. /\ Cardinality(Suspended(c)') = Cardinality(Suspended(c)) + 1
          /\ Cardinality(Suspended(c)) \in Nat
      BY <3>1, SuspendedFinite, FS_AddElement
    <3>3. Raised(c)' <=> Raised(c)
      BY <1>2, <1>4 DEF Raised
    <3>4. \A j \in Index : fn'[c][j] = "done" <=> fn[c][j] = "done"
      BY <1>2, <1>4
    <3>5. \A j \in Index : results'[c][j] = IF fn'[c][j] = "done" THEN c ELSE NoCaller
      BY <1>1, <2>1, <2>3, <3>4 DEF Counts
    <3>6. /\ Cardinality(Suspended(c)') <= running'[c]
          /\ Cardinality(Suspended(c)') <= running'[c] - completed'[c]
          /\ ~Raised(c)' => Cardinality(Suspended(c)') = running'[c] - completed'[c]
      BY <1>1, <1>3, <1>4, <2>1, <2>3, <3>2, <3>3 DEF Counts
    <3>7. completed'[c] <= 0 /\ (~Raised(c)' => completed'[c] = 0)
      BY <1>1, <1>2, <2>1, <2>3, <3>3 DEF Counts
    <3>8. QED
      BY <1>1, <1>2, <2>3, <3>5, <3>6, <3>7 DEF Counts
  <2>4. QED
    BY <2>2, <2>3
<1>9. QED
  BY <1>1, <1>5, <1>6, <1>7, <1>8 DEF IInv

LEMMA RaiseKeeps ==
  ASSUME IInv, NEW c \in Callers, Raise(c)
  PROVE  IInv'
<1> DEFINE i == index[c]
<1>1. /\ InFunction(c)
      /\ fn' = [fn EXCEPT ![c][i] = "raised"]
      /\ completed' = [completed EXCEPT ![c] = @ - 1]
      /\ status' = status /\ limit' = limit /\ index' = index /\ running' = running
      /\ by' = by /\ results' = results /\ collect' = collect /\ stack' = stack
      /\ disturbed' = disturbed
  BY DEF Raise
<1>2. status[c] = "running" /\ i \in Index /\ fn[c][i] = "running"
  BY <1>1, InFunctionFacts
<1>3. running[c] \in 0 .. Num /\ completed[c] \in Int /\ completed[c] - 1 \in Int
  BY DEF IInv, TypeOK
<1> HIDE DEF i
<1>4. /\ fn'[c][i] = "raised" /\ completed'[c] = completed[c] - 1
      /\ \A j \in Index : j # i => fn'[c][j] = fn[c][j]
      /\ \A e \in Callers : e # c => fn'[e] = fn[e] /\ completed'[e] = completed[e]
  BY <1>1, <1>2 DEF IInv, TypeOK
<1>5. TypeOK'
  BY <1>1, <1>2, <1>3 DEF IInv, TypeOK, Function
<1>6. ASSUME NEW e \in Callers PROVE Started(e)' /\ Unused(e)'
  <2>1. CASE e = c
    <3>1. \A j \in Index : fn'[c][j] # "running"
      BY <1>4 DEF IInv, Started, i
    <3>2. \A j \in Index : fn'[c][j] = "new" <=> j > index[c]
      BY <1>2, <1>4 DEF IInv, Started
    <3>3. QED
      BY <1>1, <1>2, <1>4, <2>1, <3>1, <3>2 DEF IInv, Started, Unused
  <2>2. CASE e # c
    BY <1>1, <1>4, <2>2, StartedFrame DEF IInv, Unused
  <2>3. QED
    BY <2>1, <2>2
<1>7. Collects'
  BY <1>1 DEF IInv, Collects, Unfinished
<1>8. ASSUME NEW e \in Undisturbed' PROVE Counts(e)'
  <2>1. e \in Callers /\ Counts(e)
    BY <1>1, <1>8 DEF Undisturbed, IInv
  <2>2. CASE e # c
    BY <1>1, <1>4, <2>1, <2>2, CountsFrame
  <2>3. CASE e = c
    <3>1. Suspended(c)' = Suspended(c)
      BY <1>2, <1>4 DEF Suspended
    <3>2. Cardinality(Suspended(c)) \in Nat
      BY SuspendedFinite
    <3>3. Raised(c)'
      BY <1>2, <1>4 DEF Raised
    <3>4. \A j \in Index : fn'[c][j] = "done" <=> fn[c][j] = "done"
      BY <1>2, <1>4
    <3>5. \A j \in Index : results'[c][j] = IF fn'[c][j] = "done" THEN c ELSE NoCaller
      BY <1>1, <2>1, <2>3, <3>4 DEF Counts
    <3>6. /\ Cardinality(Suspended(c)') <= running'[c]
          /\ Cardinality(Suspended(c)') <= running'[c] - completed'[c]
          /\ completed'[c] <= 0
      BY <1>1, <1>2, <1>3, <1>4, <2>1, <2>3, <3>1, <3>2 DEF Counts
    <3>7. QED
      BY <1>1, <1>2, <2>3, <3>3, <3>5, <3>6 DEF Counts
  <2>4. QED
    BY <2>2, <2>3
<1>9. QED
  BY <1>1, <1>5, <1>6, <1>7, <1>8 DEF IInv

\* A function that raises after it was suspended changes no count: there is one function
\* less that can complete the round.
LEMMA RaiseLateKeeps ==
  ASSUME IInv, NEW c \in Callers, NEW i \in Index, RaiseLate(c, i)
  PROVE  IInv'
<1>1. /\ fn[c][i] = "suspended"
      /\ fn' = [fn EXCEPT ![c][i] = "raised"]
      /\ status' = status /\ limit' = limit /\ index' = index /\ running' = running
      /\ completed' = completed /\ by' = by /\ results' = results /\ collect' = collect
      /\ stack' = stack /\ disturbed' = disturbed
  BY DEF RaiseLate
<1>2. /\ fn'[c][i] = "raised"
      /\ \A j \in Index : j # i => fn'[c][j] = fn[c][j]
      /\ \A e \in Callers : e # c => fn'[e] = fn[e]
  BY <1>1 DEF IInv, TypeOK
<1>3. TypeOK'
  BY <1>1 DEF IInv, TypeOK, Function
<1>4. ASSUME NEW e \in Callers PROVE Started(e)' /\ Unused(e)'
  <2>1. CASE e = c
    <3>1. \A j \in Index : /\ fn'[c][j] = "new" <=> fn[c][j] = "new"
                           /\ fn'[c][j] = "running" <=> fn[c][j] = "running"
      BY <1>1, <1>2
    <3>2. QED
      BY <1>1, <2>1, <3>1 DEF IInv, Started, Unused
  <2>2. CASE e # c
    BY <1>1, <1>2, <2>2, StartedFrame DEF IInv, Unused
  <2>3. QED
    BY <2>1, <2>2
<1>5. Collects'
  BY <1>1 DEF IInv, Collects, Unfinished
<1>6. ASSUME NEW e \in Undisturbed' PROVE Counts(e)'
  <2>1. e \in Callers /\ Counts(e)
    BY <1>1, <1>6 DEF Undisturbed, IInv
  <2>2. CASE e # c
    BY <1>1, <1>2, <2>1, <2>2, CountsFrame
  <2>3. CASE e = c
    <3>1. Suspended(c)' = Suspended(c) \ {i} /\ i \in Suspended(c)
      BY <1>1, <1>2 DEF Suspended
    <3>2. /\ Cardinality(Suspended(c)) \in Nat
          /\ Cardinality(Suspended(c)') = Cardinality(Suspended(c)) - 1
      BY <3>1, SuspendedFinite, FS_RemoveElement
    <3>3. Raised(c)'
      BY <1>2 DEF Raised
    <3>4. \A j \in Index : results'[c][j] = IF fn'[c][j] = "done" THEN c ELSE NoCaller
      BY <1>1, <1>2, <2>1, <2>3 DEF Counts
    <3>5. running[c] \in Int /\ completed[c] \in Int
      BY NumFacts DEF IInv, TypeOK
    <3>6. /\ Cardinality(Suspended(c)') <= running'[c]
          /\ Cardinality(Suspended(c)') <= running'[c] - completed'[c]
      BY <1>1, <2>1, <2>3, <3>2, <3>5 DEF Counts
    <3>7. status'[c] # "returned"
      BY <1>1, <2>1, <2>3, <3>1 DEF Counts
    <3>8. QED
      BY <1>1, <2>1, <2>3, <3>3, <3>4, <3>6, <3>7 DEF Counts
  <2>4. QED
    BY <2>2, <2>3
<1>7. QED
  BY <1>1, <1>3, <1>4, <1>5, <1>6 DEF IInv

\* The caller yields only with a function to wait for, or returns when none is left.
LEMMA EndRoundKeeps ==
  ASSUME IInv, NEW c \in Callers, EndRound(c)
  PROVE  IInv'
<1> DEFINE v == IF running[c] > 0 THEN "waiting" ELSE "returned"
<1>1. /\ InLoop(c) /\ ~Starting(c)
      /\ status' = [status EXCEPT ![c] = v]
      /\ stack' = Tail(stack)
      /\ limit' = limit /\ index' = index /\ running' = running /\ completed' = completed
      /\ fn' = fn /\ by' = by /\ results' = results /\ collect' = collect
      /\ disturbed' = disturbed
  BY DEF EndRound
<1>2. status[c] = "running" /\ \A j \in Index : fn[c][j] # "running"
  BY <1>1, InLoopFacts
<1>3. stack # <<>> /\ Head(stack) = c
  BY <1>1 DEF InLoop, Running
<1>4. v \in Status /\ v # "running" /\ v # "idle" /\ v # "astray"
  BY DEF Status
<1>5. stack' \in Seq(Callers) /\ Stacked(status', stack')
  BY <1>1, <1>3, <1>4, PopKeeps DEF IInv, TypeOK
<1>6. TypeOK'
  BY <1>1, <1>4, <1>5 DEF IInv, TypeOK
<1>7. \A e \in Callers : status'[e] = IF e = c THEN v ELSE status[e]
  BY <1>1 DEF IInv, TypeOK
<1>8. ASSUME NEW e \in Callers PROVE Started(e)' /\ Unused(e)'
  <2>1. CASE e = c
    BY <1>1, <1>2, <1>4, <1>7, <2>1 DEF Started, Unused, IInv
  <2>2. CASE e # c
    BY <1>1, <1>7, <2>2, StartedFrame DEF Unused, IInv
  <2>3. QED
    BY <2>1, <2>2
<1>9. Collects'
  <2>1. Unfinished' \subseteq Unfinished
    BY <1>1, <1>2, <1>7 DEF Unfinished
  <2>2. QED
    BY <1>1, <2>1 DEF IInv, Collects
<1>10. ASSUME NEW e \in Undisturbed' PROVE Counts(e)'
  <2>1. e \in Callers /\ Counts(e)
    BY <1>1, <1>10 DEF Undisturbed, IInv
  <2>2. CASE e # c
    BY <1>1, <1>7, <2>1, <2>2, CountsFrame
  <2>3. CASE e = c
    <3>1. Suspended(c)' = Suspended(c) /\ (Raised(c)' <=> Raised(c))
      BY <1>1 DEF Suspended, Raised
    <3>2. IsFiniteSet(Suspended(c)) /\ Cardinality(Suspended(c)) \in Nat
      BY SuspendedFinite
    <3>3. /\ running[c] \in 0 .. Num /\ limit[c] \in 1 .. Num /\ index[c] \in 0 .. Num
          /\ Cardinality(Suspended(c)) <= running[c]
      BY <2>1, <2>3, NumFacts DEF IInv, TypeOK, Counts
    <3>4. CASE running[c] > 0
      <4>1. status'[c] = "waiting"
        BY <1>7, <3>4
      <4>2. ~Raised(c) => Cardinality(Suspended(c)) = running[c]
        BY <1>2, <2>1, <2>3, <3>3 DEF Counts
      <4>3. ~Raised(c) => Suspended(c) # {}
        BY <3>4, <4>2, FS_EmptySet
      <4>4. QED
        BY <1>1, <2>1, <2>3, <3>1, <4>1, <4>3 DEF Counts
    <3>5. CASE ~(running[c] > 0)
      <4>1. running[c] = 0 /\ status'[c] = "returned"
        BY <1>7, <3>3, <3>5
      <4>2. index[c] = Num
        BY <1>1, <3>3, <4>1, NumFacts DEF Starting
      <4>3. Cardinality(Suspended(c)) = 0
        BY <3>2, <3>3, <4>1
      <4>4. Suspended(c) = {}
        BY <3>2, <4>3, FS_EmptySet
      <4>5. QED
        BY <1>1, <2>1, <2>3, <3>1, <4>1, <4>2, <4>4 DEF Counts
    <3>6. QED
      BY <3>4, <3>5
  <2>4. QED
    BY <2>2, <2>3
<1>11. QED
  BY <1>5, <1>6, <1>8, <1>9, <1>10 DEF IInv

-----------------------------------------------------------------------------

\* What collect changes: only of the call d that collects, which has begun, and of the
\* count that the loop of c corrects.
LEMMA CollectFacts ==
  ASSUME IInv, NEW c \in Callers, NEW d \in Callers, NEW i \in Index, NEW less \in {0, 1},
         status[d] # "idle", Collect(d, c, i, less)
  PROVE  /\ results' = [results EXCEPT ![d][i] = c]
         /\ completed' \in [Callers -> Int]
         /\ running' \in [Callers -> 0 .. Num]
         /\ status' \in [Callers -> Status]
         /\ stack' \in Seq(Callers) /\ Stacked(status', stack')
         /\ \A e \in Callers : e # d => status'[e] = status[e] /\ running'[e] = running[e]
         /\ \A e \in Callers : e # d /\ e # c => completed'[e] = completed[e]
         /\ status'[d] # "idle"
         /\ status'[d] # status[d] => status[d] \in {"waiting", "returned"}
         /\ running'[d] <= running[d]
         /\ \A e \in Callers : status'[e] \in {"running", "waiting"} => status[e] \in {"running", "waiting"}
<1> DEFINE resumes == RoundComplete(d) /\ status[d] = "waiting"
           next == resumes /\ index[d] < Num
           counted == [completed EXCEPT ![d] = IF next THEN 0 ELSE @ + 1]
<1>1. /\ results' = [results EXCEPT ![d][i] = c]
      /\ completed' = [counted EXCEPT ![c] = @ - less]
      /\ running' = IF next THEN NextRound(d, running) ELSE running
      /\ IF RoundComplete(d) THEN ResumeParent(d) ELSE status' = status /\ stack' = stack
  BY DEF Collect
<1>2. counted \in [Callers -> Int]
  BY DEF IInv, TypeOK
<1>3. completed' \in [Callers -> Int]
  BY <1>1, <1>2
<1>4. \A e \in Callers : e # d /\ e # c => completed'[e] = completed[e]
  BY <1>1, <1>2 DEF IInv, TypeOK
<1> HIDE DEF counted
<1>5. /\ running' \in [Callers -> 0 .. Num]
      /\ \A e \in Callers : e # d => running'[e] = running[e]
      /\ running'[d] <= running[d]
  BY <1>1, NumFacts DEF NextRound, IInv, TypeOK
<1>6. CASE ~RoundComplete(d)
  BY <1>1, <1>3, <1>4, <1>5, <1>6 DEF IInv, TypeOK
<1>7. CASE RoundComplete(d) /\ status[d] = "waiting" /\ index[d] < Num
  <2>1. index[d] # Num
    BY <1>7, NumFacts DEF IInv, TypeOK
  <2>2. status' = [status EXCEPT ![d] = "running"] /\ stack' = <<d>> \o stack
    BY <1>1, <1>7, <2>1 DEF ResumeParent
  <2>3. stack' \in Seq(Callers) /\ Stacked(status', stack')
    BY <1>7, <2>2, PushKeeps DEF IInv, TypeOK
  <2>4. QED
    BY <1>1, <1>3, <1>4, <1>5, <1>7, <2>2, <2>3 DEF IInv, TypeOK, Status
<1>8. CASE RoundComplete(d) /\ ~(status[d] = "waiting" /\ index[d] < Num)
  <2> DEFINE v == CASE status[d] = "waiting" -> IF index[d] = Num THEN "returned" ELSE "running"
                    [] status[d] = "returned" -> "astray"
                    [] OTHER -> status[d]
  <2>1. status' = [status EXCEPT ![d] = v] /\ stack' = stack
    BY <1>1, <1>8 DEF ResumeParent
  <2>2. CASE status[d] = "waiting"
    <3>1. index[d] = Num
      BY <1>8, <2>2, NumFacts DEF IInv, TypeOK
    <3>2. v = "returned"
      BY <2>2, <3>1
    <3>3. Stacked(status', stack')
      BY <2>1, <2>2, <3>2, StayKeeps DEF IInv, TypeOK
    <3>4. QED
      BY <1>1, <1>3, <1>4, <1>5, <2>1, <2>2, <3>2, <3>3 DEF IInv, TypeOK, Status
  <2>3. CASE status[d] = "returned"
    <3>1. v = "astray"
      BY <2>3
    <3>2. Stacked(status', stack')
      BY <2>1, <2>3, <3>1, StayKeeps DEF IInv, TypeOK
    <3>3. QED
      BY <1>1, <1>3, <1>4, <1>5, <2>1, <2>3, <3>1, <3>2 DEF IInv, TypeOK, Status
  <2>4. CASE status[d] \notin {"waiting", "returned"}
    <3>1. v = status[d]
      BY <2>4
    <3>2. status' = status
      BY <2>1, <3>1 DEF IInv, TypeOK
    <3>3. QED
      BY <1>1, <1>3, <1>4, <1>5, <2>1, <3>2 DEF IInv, TypeOK
  <2>5. QED
    BY <2>2, <2>3, <2>4
<1>9. QED
  BY <1>6, <1>7, <1>8

\* The call that gets the result of a function of c: c itself, or both are disturbed.
LEMMA CollectorFacts ==
  ASSUME IInv, NEW c \in Callers, NEW i \in Index, fn[c][i] # "new"
  PROVE  /\ Collector(c, i) \in Callers /\ status[Collector(c, i)] # "idle"
         /\ Collector(c, i) = c \/ (c \in disturbed /\ Collector(c, i) \in disturbed)
<1>1. i <= index[c]
  BY NumFacts DEF IInv, Started, TypeOK
<1>2. Collector(c, i) = c \/ (c \in disturbed /\ Collector(c, i) \in disturbed)
  BY <1>1 DEF Collector, IInv, Collects
<1>3. disturbed \subseteq Callers
  BY DEF IInv, TypeOK
<1>4. status[c] # "idle"
  BY <1>1, NumFacts DEF IInv, Unused, TypeOK
<1>5. \A e \in Callers : e \in disturbed => status[e] # "idle"
  BY DEF IInv, Unused
<1>6. QED
  BY <1>2, <1>3, <1>4, <1>5

\* A step in which function i of c ends keeps the invariant, if it does for c itself.
LEMMA EndingKeeps ==
  ASSUME IInv, NEW c \in Callers, NEW i \in Index, NEW less \in {0, 1},
         fn[c][i] \in {"running", "suspended"},
         fn' = [fn EXCEPT ![c][i] = "done"],
         Collect(Collector(c, i), c, i, less),
         limit' = limit, index' = index, by' = by, collect' = collect, disturbed' = disturbed,
         c \in Undisturbed => Counts(c)'
  PROVE  IInv'
<1> DEFINE d == Collector(c, i)
<1>1. /\ d \in Callers /\ status[d] # "idle"
      /\ d = c \/ (c \in disturbed /\ d \in disturbed)
  BY CollectorFacts
<1> HIDE DEF d
<1>2. /\ results' = [results EXCEPT ![d][i] = c]
      /\ completed' \in [Callers -> Int]
      /\ running' \in [Callers -> 0 .. Num]
      /\ status' \in [Callers -> Status]
      /\ stack' \in Seq(Callers) /\ Stacked(status', stack')
      /\ \A e \in Callers : e # d => status'[e] = status[e] /\ running'[e] = running[e]
      /\ \A e \in Callers : e # d /\ e # c => completed'[e] = completed[e]
      /\ status'[d] # "idle"
      /\ status'[d] # status[d] => status[d] \in {"waiting", "returned"}
      /\ running'[d] <= running[d]
      /\ \A e \in Callers : status'[e] \in {"running", "waiting"} => status[e] \in {"running", "waiting"}
  <2>1. Collect(d, c, i, less)
    BY DEF d
  <2>2. QED
    BY <1>1, <2>1, CollectFacts
<1>3. TypeOK'
  BY <1>1, <1>2 DEF IInv, TypeOK, Function
<1>4. /\ fn'[c][i] = "done"
      /\ \A j \in Index : j # i => fn'[c][j] = fn[c][j]
      /\ \A e \in Callers : e # c => fn'[e] = fn[e]
  BY DEF IInv, TypeOK
<1>5. ASSUME NEW e \in Callers PROVE Started(e)' /\ Unused(e)'
  <2>1. /\ \A j \in Index : fn'[e][j] = "new" <=> fn[e][j] = "new"
        /\ \A j \in Index : fn'[e][j] = "running" => fn[e][j] = "running"
    BY <1>4
  <2>2. running'[e] <= running[e]
    <3>1. running[e] \in 0 .. Num /\ Num \in Nat
      BY NumFacts DEF IInv, TypeOK
    <3>2. running'[e] = running[e] \/ e = d
      BY <1>2
    <3>3. QED
      BY <1>2, <3>1, <3>2
  <2>3. status[e] = "running" => status'[e] = "running"
    BY <1>2
  <2>4. running[e] \in Int /\ running'[e] \in Int /\ limit[e] \in Int
    BY <1>2, NumFacts DEF IInv, TypeOK
  <2>5. Started(e)'
    <3>1. ASSUME NEW j \in Index, fn'[e][j] = "running"
          PROVE  j = index[e] /\ status'[e] = "running" /\ running'[e] < limit[e]
      BY <2>1, <2>2, <2>3, <2>4, <3>1 DEF IInv, Started
    <3>2. running'[e] <= limit[e]
      BY <2>2, <2>4 DEF IInv, Started
    <3>3. \A j \in Index : fn'[e][j] = "new" <=> j > index[e]
      BY <2>1 DEF IInv, Started
    <3>4. QED
      BY <3>1, <3>2, <3>3 DEF Started
  <2>6. status'[e] = "idle" => status[e] = "idle" /\ e # d /\ e # c
    <3>1. status[c] # "idle"
      BY NumFacts DEF IInv, Started, Unused, TypeOK
    <3>2. status'[e] = "idle" => e # d
      BY <1>2
    <3>3. QED
      BY <1>2, <3>1, <3>2
  <2>7. Unused(e)'
    BY <1>2, <2>6 DEF IInv, Unused
  <2>8. QED
    BY <2>5, <2>7
<1>6. Collects'
  <2>1. Unfinished' \subseteq Unfinished
    BY <1>2 DEF Unfinished
  <2>2. QED
    BY <2>1 DEF IInv, Collects
<1>7. ASSUME NEW e \in Undisturbed' PROVE Counts(e)'
  <2>1. e \in Callers /\ e \in Undisturbed /\ Counts(e)
    BY <1>7 DEF Undisturbed, IInv
  <2>2. CASE e = c
    BY <2>1, <2>2
  <2>3. CASE e # c
    <3>1. e # d
      BY <1>1, <2>1, <2>3 DEF Undisturbed
    <3>2. results'[e] = results[e]
      BY <1>1, <1>2, <3>1 DEF IInv, TypeOK
    <3>3. QED
      BY <1>2, <1>4, <2>1, <2>3, <3>1, <3>2, CountsFrame
  <2>4. QED
    BY <2>2, <2>3
<1>8. QED
  BY <1>2, <1>3, <1>5, <1>6, <1>7 DEF IInv

LEMMA EndAtOnceKeeps ==
  ASSUME IInv, NEW c \in Callers, EndAtOnce(c)
  PROVE  IInv'
<1> DEFINE i == index[c]
<1>1. /\ InFunction(c)
      /\ fn' = [fn EXCEPT ![c][i] = "done"]
      /\ Collect(Collector(c, i), c, i, 1)
      /\ limit' = limit /\ index' = index /\ by' = by /\ collect' = collect
      /\ disturbed' = disturbed
  BY DEF EndAtOnce
<1>2. status[c] = "running" /\ i \in Index /\ fn[c][i] = "running"
  BY <1>1, InFunctionFacts
<1> HIDE DEF i
<1>3. ASSUME c \in Undisturbed PROVE Counts(c)'
  <2>1. Collector(c, i) = c /\ Counts(c)
    BY <1>2, <1>3, CollectorFacts DEF Undisturbed, IInv
  <2>2. /\ results' = [results EXCEPT ![c][i] = c]
        /\ completed' = [[completed EXCEPT ![c] = @ + 1] EXCEPT ![c] = @ - 1]
        /\ running' = running
        /\ status'[c] = "running"
    <3>1. Collect(c, c, i, 1)
      BY <1>1, <2>1
    <3>2. ~(status[c] = "waiting")
      BY <1>2
    <3>3. status[c] \notin {"waiting", "returned"}
      BY <1>2
    <3>4. status'[c] = status[c]
      BY <1>2, <3>1, <3>3, CollectFacts
    <3>5. QED
      BY <1>2, <3>1, <3>2, <3>4 DEF Collect
  <2>3. completed'[c] = completed[c]
    BY <2>2 DEF IInv, TypeOK
  <2>4. /\ fn'[c][i] = "done"
        /\ \A j \in Index : j # i => fn'[c][j] = fn[c][j]
    BY <1>1, <1>2 DEF IInv, TypeOK
  <2>5. Suspended(c)' = Suspended(c) /\ (Raised(c)' <=> Raised(c))
    BY <1>2, <2>4 DEF Suspended, Raised
  <2>6. \A j \in Index : results'[c][j] = IF fn'[c][j] = "done" THEN c ELSE NoCaller
    BY <1>2, <2>1, <2>2, <2>4 DEF Counts, IInv, TypeOK
  <2>7. QED
    BY <1>2, <2>1, <2>2, <2>3, <2>5, <2>6 DEF Counts
<1>4. 1 \in {0, 1} /\ fn[c][i] \in {"running", "suspended"}
  BY <1>2
<1>5. QED
  BY <1>1, <1>2, <1>3, <1>4, EndingKeeps

\* The last suspended function of a round, and only that one, resumes the caller.
LEMMA FinishKeeps ==
  ASSUME IInv, NEW c \in Callers, NEW i \in Index, Finish(c, i)
  PROVE  IInv'
<1>1. /\ stack = <<>> /\ fn[c][i] = "suspended"
      /\ fn' = [fn EXCEPT ![c][i] = "done"]
      /\ Collect(Collector(c, i), c, i, 0)
      /\ limit' = limit /\ index' = index /\ by' = by /\ collect' = collect
      /\ disturbed' = disturbed
  BY DEF Finish
<1>2. ASSUME c \in Undisturbed PROVE Counts(c)'
  <2> DEFINE n == Cardinality(Suspended(c))
             m == Cardinality(Suspended(c)')
             next == RoundComplete(c) /\ status[c] = "waiting" /\ index[c] < Num
  <2>1. Collector(c, i) = c /\ Counts(c) /\ Collect(c, c, i, 0)
    <3>1. Collector(c, i) = c
      BY <1>1, <1>2, CollectorFacts DEF Undisturbed
    <3>2. QED
      BY <1>1, <1>2, <3>1 DEF IInv
  <2>2. status[c] = "waiting"
    <3>1. status[c] # "running"
      <4>1. Len(stack) = 0
        BY <1>1, EmptySeq
      <4>2. QED
        BY <4>1 DEF IInv, Stacked
    <3>2. status[c] # "idle"
      BY <1>1, <2>1, CollectorFacts
    <3>3. Suspended(c) # {}
      BY <1>1 DEF Suspended
    <3>4. QED
      BY <2>1, <3>1, <3>2, <3>3 DEF Counts, IInv, TypeOK, Status
  <2>3. /\ running[c] \in Nat /\ completed[c] \in Int /\ index[c] \in 0 .. Num
        /\ running \in [Callers -> 0 .. Num] /\ completed \in [Callers -> Int]
        /\ status \in [Callers -> Status]
    BY NumFacts DEF IInv, TypeOK
  <2>4. /\ results' = [results EXCEPT ![c][i] = c]
        /\ completed'[c] = IF next THEN 0 ELSE completed[c] + 1
        /\ running'[c] = IF next THEN 0 ELSE running[c]
    BY <2>1, <2>2, <2>3 DEF Collect, NextRound
  <2>5. status'[c] = IF RoundComplete(c) THEN IF index[c] = Num THEN "returned" ELSE "running"
                     ELSE "waiting"
    BY <2>1, <2>2, <2>3 DEF Collect, ResumeParent
  <2>6. /\ fn'[c][i] = "done"
        /\ \A j \in Index : j # i => fn'[c][j] = fn[c][j]
    BY <1>1 DEF IInv, TypeOK
  <2>7. Suspended(c)' = Suspended(c) \ {i} /\ i \in Suspended(c)
    BY <1>1, <2>6 DEF Suspended
  <2>8. /\ IsFiniteSet(Suspended(c)) /\ IsFiniteSet(Suspended(c)')
        /\ n \in Nat /\ m \in Nat /\ m = n - 1
    BY <2>7, SuspendedFinite, FS_RemoveElement, FS_CardinalityType
  <2>9. Raised(c)' <=> Raised(c)
    BY <1>1, <2>6 DEF Raised
  <2>10. \A j \in Index : results'[c][j] = IF fn'[c][j] = "done" THEN c ELSE NoCaller
    BY <2>1, <2>4, <2>6 DEF Counts, IInv, TypeOK
  <2>11. /\ n <= running[c] /\ n <= running[c] - completed[c]
         /\ ~Raised(c) => n = running[c] - completed[c]
    BY <2>1 DEF Counts
  <2>12. CASE RoundComplete(c)
    <3>1. completed[c] + 1 = running[c]
      BY <2>12 DEF RoundComplete
    <3> HIDE DEF n, m
    <3>2. m = 0
      BY <2>3, <2>8, <2>11, <3>1
    <3>3. Suspended(c)' = {}
      BY <2>8, <3>2, FS_EmptySet DEF m
    <3>4. CASE index[c] < Num
      <4>1. completed'[c] = 0 /\ running'[c] = 0 /\ status'[c] = "running"
        BY <2>2, <2>3, <2>4, <2>5, <2>12, <3>4
      <4>2. QED
        BY <2>10, <3>2, <3>3, <4>1 DEF Counts, m
    <3>5. CASE ~(index[c] < Num)
      <4>1. index[c] = Num
        BY <2>3, <3>5, NumFacts
      <4>2. /\ completed'[c] = completed[c] + 1 /\ running'[c] = running[c]
            /\ status'[c] = "returned"
        BY <2>4, <2>5, <2>12, <3>5, <4>1
      <4>3. 0 <= running'[c] /\ 0 = running'[c] - completed'[c] /\ 0 <= running'[c] - completed'[c]
        BY <2>3, <3>1, <4>2
      <4>4. QED
        BY <1>1, <2>10, <3>2, <3>3, <4>1, <4>2, <4>3 DEF Counts, m
    <3>6. QED
      BY <3>4, <3>5
  <2>13. CASE ~RoundComplete(c)
    <3>1. /\ completed'[c] = completed[c] + 1 /\ running'[c] = running[c]
          /\ status'[c] = "waiting" /\ completed[c] + 1 # running[c]
      BY <2>4, <2>5, <2>13 DEF RoundComplete
    <3> HIDE DEF n, m
    <3>2. /\ m <= running'[c] /\ m <= running'[c] - completed'[c]
          /\ ~Raised(c) => m = running'[c] - completed'[c]
      BY <2>3, <2>8, <2>11, <3>1
    <3>3. ~Raised(c) => m # 0
      BY <2>3, <2>8, <2>11, <3>1
    <3>4. ~Raised(c) => Suspended(c)' # {}
      BY <3>3, FS_EmptySet DEF m
    <3>5. QED
      BY <2>9, <2>10, <3>1, <3>2, <3>4 DEF Counts, m
  <2>14. QED
    BY <2>12, <2>13
<1>3. 0 \in {0, 1} /\ fn[c][i] \in {"running", "suspended"}
  BY <1>1
<1>4. QED
  BY <1>1, <1>2, <1>3, EndingKeeps

-----------------------------------------------------------------------------

LEMMA InitInv == Init => IInv
<1> SUFFICES ASSUME Init PROVE IInv
  OBVIOUS
<1>1. /\ status = [c \in Callers |-> "idle"] /\ limit = [c \in Callers |-> Num]
      /\ index = [c \in Callers |-> 0] /\ running = [c \in Callers |-> 0]
      /\ completed = [c \in Callers |-> 0]
      /\ fn = [c \in Callers |-> [i \in Index |-> "new"]]
      /\ by = [c \in Callers |-> [i \in Index |-> NoCaller]]
      /\ results = by /\ collect = NoCaller /\ stack = <<>> /\ disturbed = {}
  BY DEF Init
<1>2. stack \in Seq(Callers) /\ Len(stack) = 0
  BY <1>1, EmptySeq
<1>3. TypeOK
  <2>1. 0 \in 0 .. Num /\ Num \in Index /\ 0 \in Int
    BY NumFacts
  <2>2. QED
    BY <1>1, <1>2, <2>1 DEF TypeOK, Status, Function
<1>4. Stacked(status, stack)
  BY <1>1, <1>2 DEF Stacked
<1>5. ASSUME NEW c \in Callers PROVE Started(c) /\ Unused(c)
  <2>1. /\ \A i \in Index : i > 0 /\ fn[c][i] = "new"
        /\ index[c] = 0 /\ running[c] = 0 /\ completed[c] = 0 /\ limit[c] = Num
        /\ collect # c
    BY <1>1, NumFacts
  <2>2. QED
    BY <1>1, <2>1, NumFacts DEF Started, Unused
<1>6. Collects
  <2>1. Unfinished = {}
    BY <1>1 DEF Unfinished
  <2>2. \A e \in Callers : \A i \in Index : ~(i <= index[e])
    BY <1>1, NumFacts
  <2>3. QED
    BY <2>1, <2>2 DEF Collects
<1>7. ASSUME NEW c \in Undisturbed PROVE Counts(c)
  <2>1. c \in Callers
    BY <1>7 DEF Undisturbed
  <2>2. Suspended(c) = {}
    BY <1>1, <2>1 DEF Suspended
  <2>3. Cardinality(Suspended(c)) = 0
    BY <2>2, FS_EmptySet
  <2>4. status[c] = "idle" /\ running[c] = 0 /\ completed[c] = 0
    BY <1>1, <2>1
  <2>5. \A i \in Index : results[c][i] = NoCaller /\ fn[c][i] = "new"
    BY <1>1, <2>1
  <2>6. QED
    BY <2>3, <2>4, <2>5 DEF Counts
<1>8. QED
  BY <1>3, <1>4, <1>5, <1>6, <1>7 DEF IInv

LEMMA NextInv == IInv /\ [Next]_vars => IInv'
<1> SUFFICES ASSUME IInv, [Next]_vars PROVE IInv'
  OBVIOUS
<1>1. ASSUME NEW c \in Callers, Begin(c) PROVE IInv'
  BY <1>1, BeginKeeps
<1>2. ASSUME NEW c \in Callers, Start(c) PROVE IInv'
  BY <1>2, StartKeeps
<1>3. ASSUME NEW c \in Callers, EndAtOnce(c) PROVE IInv'
  BY <1>3, EndAtOnceKeeps
<1>4. ASSUME NEW c \in Callers, Suspend(c) PROVE IInv'
  BY <1>4, SuspendKeeps
<1>5. ASSUME NEW c \in Callers, Raise(c) PROVE IInv'
  BY <1>5, RaiseKeeps
<1>6. ASSUME NEW c \in Callers, EndRound(c) PROVE IInv'
  BY <1>6, EndRoundKeeps
<1>7. ASSUME NEW c \in Callers, NEW i \in Index, Finish(c, i) PROVE IInv'
  BY <1>7, FinishKeeps
<1>8. ASSUME NEW c \in Callers, NEW i \in Index, RaiseLate(c, i) PROVE IInv'
  BY <1>8, RaiseLateKeeps
<1>9. CASE UNCHANGED vars
  <2>1. \A c \in Callers : Suspended(c)' = Suspended(c) /\ (Raised(c)' <=> Raised(c))
    BY <1>9 DEF vars, Suspended, Raised
  <2>2. Undisturbed' = Undisturbed /\ Undisturbed \subseteq Callers /\ Unfinished' = Unfinished
    BY <1>9 DEF vars, Undisturbed, Unfinished
  <2>3. \A c \in Callers : Started(c)' /\ Unused(c)'
    BY <1>9 DEF vars, IInv, Started, Unused
  <2>4. \A c \in Undisturbed' : Counts(c)'
    BY <1>9, <2>1, <2>2 DEF vars, IInv, Counts
  <2>5. TypeOK' /\ Collects' /\ Stacked(status', stack')
    BY <1>9, <2>2 DEF vars, IInv, TypeOK, Collects
  <2>6. QED
    BY <2>3, <2>4, <2>5 DEF IInv
<1>10. QED
  BY <1>1, <1>2, <1>3, <1>4, <1>5, <1>6, <1>7, <1>8, <1>9 DEF Next

LEMMA Inductive == Spec => []IInv
  BY InitInv, NextInv, PTL DEF Spec

\* The counters and tables of all calls have the values their types say
\* (parallel.lua:22-27).
THEOREM TypeCorrect == Spec => []TypeOK
<1>1. IInv => TypeOK
  BY DEF IInv
<1>2. QED
  BY <1>1, Inductive, PTL

\* A call that is not disturbed has the results of its own functions, at their places,
\* however many calls there are (parallel.lua:29-35, 40-42).
THEOREM ResultsAreOwn == Spec => []OwnResults
<1>1. IInv => OwnResults
  BY DEF IInv, Counts, OwnResults
<1>2. QED
  BY <1>1, Inductive, PTL

\* It returns when all its functions have ended (parallel.lua:32-34, 57-58).
THEOREM ReturnsComplete == Spec => []ReturnsWithAll
<1>1. ASSUME IInv, NEW c \in Undisturbed, status[c] = "returned", NEW i \in Index
      PROVE  fn[c][i] \in {"done", "raised"}
  <2>1. c \in Callers /\ index[c] = Num /\ Suspended(c) = {}
    BY <1>1 DEF Undisturbed, IInv, Counts
  <2>2. fn[c][i] # "new" /\ fn[c][i] # "running"
    BY <1>1, <2>1, NumFacts DEF IInv, Started
  <2>3. fn[c][i] # "suspended"
    BY <2>1 DEF Suspended
  <2>4. fn[c][i] \in Function
    BY <1>1, <2>1 DEF IInv, TypeOK
  <2>5. QED
    BY <2>2, <2>3, <2>4 DEF Function
<1>2. IInv => ReturnsWithAll
  BY <1>1 DEF ReturnsWithAll
<1>3. QED
  BY <1>2, Inductive, PTL

\* No wake-up is lost: a caller that waits, and none of whose functions raised, waits for
\* a function that is suspended (parallel.lua:45-57).
THEOREM WaitsForSomeone == Spec => []SomeoneResumes
<1>1. IInv => SomeoneResumes
  BY DEF IInv, Counts, SomeoneResumes
<1>2. QED
  BY <1>1, Inductive, PTL

\* No more than limit functions of a call are suspended at once (parallel.lua:38).
THEOREM LimitIsKept == Spec => []LimitKept
<1>1. ASSUME IInv, NEW c \in Undisturbed PROVE Cardinality(Suspended(c)) <= limit[c]
  <2>1. c \in Callers
    BY <1>1 DEF Undisturbed
  <2>2. /\ Cardinality(Suspended(c)) <= running[c] /\ running[c] <= limit[c]
        /\ Cardinality(Suspended(c)) \in Nat /\ running[c] \in Int /\ limit[c] \in Int
    BY <1>1, <2>1, SuspendedFinite, NumFacts DEF IInv, Counts, Started, TypeOK
  <2>3. QED
    BY <2>2
<1>2. IInv => LimitKept
  BY <1>1 DEF LimitKept
<1>3. QED
  BY <1>2, Inductive, PTL

\* The caller is not resumed again once its call has returned (parallel.lua:33).
THEOREM ResumedOnlyWhenWaiting == Spec => []NoStrayResume
<1>1. IInv => NoStrayResume
  BY DEF IInv, Counts, NoStrayResume
<1>2. QED
  BY <1>1, Inductive, PTL

=============================================================================
