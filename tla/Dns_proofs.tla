------------------------------ MODULE Dns_proofs ------------------------------
(***************************************************************************)
(* For every number of queries, name servers, descriptors and tries, and   *)
(* whatever descriptors share a slot of the table: the tasks are those of  *)
(* the poll handles, and a query that waits is watched.                    *)
(***************************************************************************)
EXTENDS Dns, SequenceTheorems, FiniteSetTheorems, TLAPS

\* Every item of the table is in the slot of its key, once.
Placed(t) ==
  /\ t \in Tables
  /\ \A i \in Slots : \A n \in 1 .. Len(t.slots[i]) : Slot[t.slots[i][n]] = i
  /\ \A i \in Slots : \A n, m \in 1 .. Len(t.slots[i]) :
       t.slots[i][n] = t.slots[i][m] => n = m

\* The handles and the timer that belong to a table.
Kept(p, t, tm) ==
  /\ p \in [Fds -> {"none", "polling", "closing"}]
  /\ Placed(t)
  /\ \A f \in Fds : Has(t, f) <=> p[f] # "none"
  /\ t.items = Cardinality({f \in Fds : p[f] # "none"})
  /\ tm \in BOOLEAN
  /\ tm <=> t.items > 0

\* The sockets that are open have each a descriptor that is polled.
Polled(sk, p) ==
  /\ \A a, b \in Ports : sk[a] = sk[b] /\ sk[a] # None => a = b
  /\ \A a \in Ports : sk[a] # None => p[sk[a]] = "polling"

\* The inductive invariant.
IInv ==
  /\ TypeOK
  /\ Kept(poll, tasks, timer)
  /\ tcp \subseteq Waiting /\ resend \subseteq Waiting
  /\ ~undefined => /\ Polled(sock, poll)
                   /\ \A q \in Waiting \ resend : sock[Port(q)] # None

-----------------------------------------------------------------------------

\* What the list of a slot is once the item of k is out of it.
LEMMA WithoutProperties ==
  ASSUME NEW s \in Seq(Keys), NEW k \in Keys,
         \E n \in 1 .. Len(s) : s[n] = k,
         \A n, m \in 1 .. Len(s) : s[n] = s[m] => n = m
  PROVE  /\ Without(s, k) \in Seq(Keys)
         /\ \A n, m \in 1 .. Len(Without(s, k)) : Without(s, k)[n] = Without(s, k)[m] => n = m
         /\ \A x \in Keys : (\E n \in 1 .. Len(Without(s, k)) : Without(s, k)[n] = x)
                              <=> x # k /\ \E n \in 1 .. Len(s) : s[n] = x
<1> DEFINE i == CHOOSE j \in DOMAIN s : s[j] = k
           a == SubSeq(s, 1, i - 1)
           b == SubSeq(s, i + 1, Len(s))
           w == Without(s, k)
<1>1. DOMAIN s = 1 .. Len(s) /\ Len(s) \in Nat
  BY LenProperties
<1>2. i \in 1 .. Len(s) /\ s[i] = k
  BY <1>1
<1>3. w = a \o b
  BY DEF Without
<1> HIDE DEF i, w
<1>4. /\ a \in Seq(Keys) /\ Len(a) = i - 1
      /\ \A n \in 1 .. i - 1 : a[n] = s[n]
  <2>1. \A n \in 1 .. i - 1 : s[n] \in Keys
    BY <1>1, <1>2, ElementOfSeq
  <2>2. 1 \in Int /\ i - 1 \in Int /\ i \in Int
    BY <1>1, <1>2
  <2>3. /\ a \in Seq(Keys)
        /\ Len(a) = IF 1 <= i - 1 THEN i - 1 - 1 + 1 ELSE 0
        /\ \A n \in 1 .. (i - 1) - 1 + 1 : a[n] = s[1 + n - 1]
    BY <2>1, <2>2, SubSeqProperties
  <2>4. QED
    BY <1>1, <1>2, <2>3
<1>5. /\ b \in Seq(Keys) /\ Len(b) = Len(s) - i
      /\ \A n \in 1 .. Len(s) - i : b[n] = s[i + n]
  <2>1. \A n \in i + 1 .. Len(s) : s[n] \in Keys
    BY <1>1, <1>2, ElementOfSeq
  <2>2. i + 1 \in Int /\ Len(s) \in Int
    BY <1>1, <1>2
  <2>3. /\ b \in Seq(Keys)
        /\ Len(b) = IF i + 1 <= Len(s) THEN Len(s) - (i + 1) + 1 ELSE 0
        /\ \A n \in 1 .. Len(s) - (i + 1) + 1 : b[n] = s[i + 1 + n - 1]
    BY <2>1, <2>2, SubSeqProperties
  <2> HIDE DEF b
  <2>4. Len(b) = Len(s) - i /\ Len(s) - (i + 1) + 1 = Len(s) - i
    <3>1. i \in Int /\ Len(s) \in Int /\ i <= Len(s)
      BY <1>1, <1>2
    <3>2. Len(b) = IF i + 1 <= Len(s) THEN Len(s) - (i + 1) + 1 ELSE 0
      BY <2>3
    <3>3. QED
      BY <3>1, <3>2
  <2>5. ASSUME NEW n \in 1 .. Len(s) - i
        PROVE  b[n] = s[i + n]
    <3>1. i + 1 + n - 1 = i + n
      BY <1>1, <1>2
    <3>2. QED
      BY <2>3, <2>4, <3>1
  <2>6. QED
    BY <2>3, <2>4, <2>5
<1> HIDE DEF a, b
<1>6. /\ w \in Seq(Keys) /\ Len(w) = Len(s) - 1
      /\ \A n \in 1 .. Len(w) : w[n] = IF n < i THEN s[n] ELSE s[n + 1]
  <2>1. /\ w \in Seq(Keys) /\ Len(w) = Len(a) + Len(b)
        /\ \A n \in 1 .. Len(a) + Len(b) : w[n] = IF n <= Len(a) THEN a[n] ELSE b[n - Len(a)]
    <3>1. a \in Seq(Keys) /\ b \in Seq(Keys)
      BY <1>4, <1>5
    <3>2. QED
      BY <1>3, <3>1, ConcatProperties
  <2>2. QED
    BY <1>1, <1>2, <1>4, <1>5, <2>1
<1>7. \A n, m \in 1 .. Len(w) : w[n] = w[m] => n = m
  <2> DEFINE at(n) == IF n < i THEN n ELSE n + 1
  <2>1. \A n \in 1 .. Len(w) : at(n) \in 1 .. Len(s) /\ w[n] = s[at(n)]
    BY <1>1, <1>2, <1>6
  <2>2. \A n, m \in 1 .. Len(w) : at(n) = at(m) => n = m
    BY <1>1, <1>2, <1>6
  <2> HIDE DEF at
  <2>3. QED
    BY <2>1, <2>2
<1>8. ASSUME NEW x \in Keys
      PROVE  (\E n \in 1 .. Len(w) : w[n] = x) <=> x # k /\ \E n \in 1 .. Len(s) : s[n] = x
  <2>1. ASSUME NEW n \in 1 .. Len(w), w[n] = x
        PROVE  x # k /\ \E m \in 1 .. Len(s) : s[m] = x
    <3>1. CASE n < i
      BY <1>1, <1>2, <1>6, <2>1, <3>1
    <3>2. CASE ~(n < i)
      BY <1>1, <1>2, <1>6, <2>1, <3>2
    <3>3. QED
      BY <3>1, <3>2
  <2>2. ASSUME x # k, NEW n \in 1 .. Len(s), s[n] = x
        PROVE  \E m \in 1 .. Len(w) : w[m] = x
    <3>1. n # i
      BY <1>2, <2>2
    <3>2. CASE n < i
      <4>1. n \in 1 .. Len(w) /\ w[n] = x
        BY <1>1, <1>2, <1>6, <2>2, <3>2
      <4>2. QED
        BY <4>1
    <3>3. CASE n > i
      <4>1. n - 1 \in 1 .. Len(w) /\ w[n - 1] = x
        BY <1>1, <1>2, <1>6, <2>2, <3>3
      <4>2. QED
        BY <4>1
    <3>4. QED
      BY <1>1, <1>2, <3>1, <3>2, <3>3
  <2>3. QED
    BY <2>1, <2>2
<1>9. QED
  BY <1>6, <1>7, <1>8 DEF w

\* The slot of a key and what is in it.
LEMMA SlotOfKey ==
  ASSUME NEW t, Placed(t), NEW k \in Keys
  PROVE  /\ Slot[k] \in Slots
         /\ t.slots \in [Slots -> Seq(Keys)] /\ t.items \in Nat
         /\ t = [slots |-> t.slots, items |-> t.items]
         /\ Has(t, k) <=> \E n \in 1 .. Len(t.slots[Slot[k]]) : t.slots[Slot[k]][n] = k
<1>1. Slot[k] \in Slots
  BY HashAssumption
<1>2. /\ t.slots \in [Slots -> Seq(Keys)] /\ t.items \in Nat
      /\ t = [slots |-> t.slots, items |-> t.items]
  BY DEF Placed, Tables
<1>3. DOMAIN t.slots[Slot[k]] = 1 .. Len(t.slots[Slot[k]])
  BY <1>1, <1>2, LenProperties
<1>4. QED
  BY <1>1, <1>2, <1>3 DEF Has

\* luaio_hash_int_set adds its key, and no other one.
LEMMA SetHas ==
  ASSUME NEW t, Placed(t), NEW k \in Keys, ~Has(t, k)
  PROVE  /\ Placed(Set(t, k))
         /\ Set(t, k).items = t.items + 1
         /\ \A x \in Keys : Has(Set(t, k), x) <=> x = k \/ Has(t, x)
<1> DEFINE l == t.slots[Slot[k]]
           n == <<k>> \o l
           u == Set(t, k)
<1>1. /\ Slot[k] \in Slots
      /\ t.slots \in [Slots -> Seq(Keys)] /\ t.items \in Nat
      /\ t = [slots |-> t.slots, items |-> t.items]
      /\ ~ \E j \in 1 .. Len(l) : l[j] = k
  BY SlotOfKey
<1>2. u = [slots |-> [t.slots EXCEPT ![Slot[k]] = n], items |-> t.items + 1]
  BY DEF Set
<1>3. <<k>> \in Seq(Keys) /\ Len(<<k>>) = 1 /\ <<k>>[1] = k
  OBVIOUS
<1>4. l \in Seq(Keys) /\ Len(l) \in Nat
  BY <1>1, LenProperties
<1> HIDE DEF l, u
<1>5. /\ n \in Seq(Keys) /\ Len(n) = Len(l) + 1
      /\ \A j \in 1 .. Len(n) : n[j] = IF j = 1 THEN k ELSE l[j - 1]
  <2>1. /\ n \in Seq(Keys) /\ Len(n) = 1 + Len(l)
        /\ \A j \in 1 .. 1 + Len(l) : n[j] = IF j <= 1 THEN <<k>>[j] ELSE l[j - 1]
    BY <1>3, <1>4, ConcatProperties
  <2>2. QED
    BY <1>3, <1>4, <2>1
<1> HIDE DEF n
<1>6. /\ u.slots \in [Slots -> Seq(Keys)] /\ u.items = t.items + 1 /\ u \in Tables
      /\ u.slots[Slot[k]] = n
      /\ \A i \in Slots : i # Slot[k] => u.slots[i] = t.slots[i]
  BY <1>1, <1>2, <1>5 DEF Tables
<1>7. \A j \in 1 .. Len(n) : j = 1 \/ j - 1 \in 1 .. Len(l)
  BY <1>4, <1>5
<1>8. \A j \in 1 .. Len(l) : j + 1 \in 1 .. Len(n) /\ n[j + 1] = l[j]
  BY <1>4, <1>5
<1>9. \A i \in Slots : \A j \in 1 .. Len(u.slots[i]) : Slot[u.slots[i][j]] = i
  <2>1. \A j \in 1 .. Len(l) : Slot[l[j]] = Slot[k]
    BY <1>1 DEF Placed, l
  <2>2. \A j \in 1 .. Len(n) : Slot[n[j]] = Slot[k]
    BY <1>5, <1>7, <2>1
  <2>3. QED
    BY <1>6, <2>2 DEF Placed
<1>10. \A i \in Slots : \A j, m \in 1 .. Len(u.slots[i]) : u.slots[i][j] = u.slots[i][m] => j = m
  <2>1. \A j, m \in 1 .. Len(l) : l[j] = l[m] => j = m
    BY <1>1 DEF Placed, l
  <2>2. \A j, m \in 1 .. Len(n) : n[j] = n[m] => j = m
    <3> TAKE j, m \in 1 .. Len(n)
    <3> HAVE n[j] = n[m]
    <3>1. CASE j = 1 /\ m = 1
      BY <3>1
    <3>2. CASE j # 1 /\ m # 1
      <4>1. j - 1 \in 1 .. Len(l) /\ m - 1 \in 1 .. Len(l) /\ l[j - 1] = l[m - 1]
        BY <1>5, <1>7, <3>2
      <4>2. j - 1 = m - 1 /\ j \in Int /\ m \in Int
        BY <2>1, <4>1
      <4>3. QED
        BY <4>2
    <3>3. CASE j = 1 /\ m # 1
      BY <1>1, <1>5, <1>7, <3>3
    <3>4. CASE j # 1 /\ m = 1
      BY <1>1, <1>5, <1>7, <3>4
    <3>5. QED
      BY <3>1, <3>2, <3>3, <3>4
  <2>3. QED
    BY <1>6, <2>2 DEF Placed
<1>11. Placed(u)
  BY <1>6, <1>9, <1>10 DEF Placed
<1>12. ASSUME NEW x \in Keys
       PROVE  Has(u, x) <=> x = k \/ Has(t, x)
  <2>1. /\ Slot[x] \in Slots
        /\ Has(u, x) <=> \E j \in 1 .. Len(u.slots[Slot[x]]) : u.slots[Slot[x]][j] = x
        /\ Has(t, x) <=> \E j \in 1 .. Len(t.slots[Slot[x]]) : t.slots[Slot[x]][j] = x
    BY <1>11, SlotOfKey
  <2>2. CASE Slot[x] # Slot[k]
    BY <1>6, <2>1, <2>2
  <2>3. CASE Slot[x] = Slot[k]
    <3>1. Has(u, x) <=> \E j \in 1 .. Len(n) : n[j] = x
      BY <1>6, <2>1, <2>3
    <3>2. Has(t, x) <=> \E j \in 1 .. Len(l) : l[j] = x
      BY <2>1, <2>3 DEF l
    <3>3. 1 \in 1 .. Len(n) /\ n[1] = k
      BY <1>4, <1>5
    <3>4. QED
      BY <1>5, <1>7, <1>8, <3>1, <3>2, <3>3
  <2>4. QED
    BY <2>2, <2>3
<1>13. QED
  BY <1>6, <1>11, <1>12 DEF u

\* luaio_hash_int_remove removes its key, and no other one.
LEMMA RemoveHas ==
  ASSUME NEW t, Placed(t), NEW k \in Keys, Has(t, k), t.items > 0
  PROVE  /\ Placed(Remove(t, k))
         /\ Remove(t, k).items = t.items - 1
         /\ \A x \in Keys : Has(Remove(t, k), x) <=> x # k /\ Has(t, x)
<1> DEFINE l == t.slots[Slot[k]]
           n == Without(l, k)
           u == Remove(t, k)
<1>1. /\ Slot[k] \in Slots
      /\ t.slots \in [Slots -> Seq(Keys)] /\ t.items \in Nat
      /\ t = [slots |-> t.slots, items |-> t.items]
      /\ \E j \in 1 .. Len(l) : l[j] = k
  BY SlotOfKey
<1>2. u = [slots |-> [t.slots EXCEPT ![Slot[k]] = n], items |-> t.items - 1]
  BY DEF Remove
<1>3. l \in Seq(Keys) /\ \A j, m \in 1 .. Len(l) : l[j] = l[m] => j = m
  BY <1>1 DEF Placed
<1> HIDE DEF l, u
<1>4. /\ n \in Seq(Keys)
      /\ \A j, m \in 1 .. Len(n) : n[j] = n[m] => j = m
      /\ \A x \in Keys : (\E j \in 1 .. Len(n) : n[j] = x) <=> x # k /\ \E j \in 1 .. Len(l) : l[j] = x
  BY <1>1, <1>3, WithoutProperties
<1> HIDE DEF n
<1>5. t.items - 1 \in Nat
  BY <1>1
<1>6. /\ u.slots \in [Slots -> Seq(Keys)] /\ u.items = t.items - 1 /\ u \in Tables
      /\ u.slots[Slot[k]] = n
      /\ \A i \in Slots : i # Slot[k] => u.slots[i] = t.slots[i]
  BY <1>1, <1>2, <1>4, <1>5 DEF Tables
<1>7. \A i \in Slots : \A j \in 1 .. Len(u.slots[i]) : Slot[u.slots[i][j]] = i
  <2>1. \A j \in 1 .. Len(l) : Slot[l[j]] = Slot[k]
    BY <1>1 DEF Placed, l
  <2>2. \A j \in 1 .. Len(n) : Slot[n[j]] = Slot[k]
    <3> TAKE j \in 1 .. Len(n)
    <3>1. n[j] \in Keys
      BY <1>4, ElementOfSeq
    <3>2. PICK m \in 1 .. Len(l) : l[m] = n[j]
      BY <1>4, <3>1
    <3>3. QED
      BY <2>1, <3>2
  <2>3. QED
    BY <1>6, <2>2 DEF Placed
<1>8. \A i \in Slots : \A j, m \in 1 .. Len(u.slots[i]) : u.slots[i][j] = u.slots[i][m] => j = m
  BY <1>4, <1>6 DEF Placed
<1>9. Placed(u)
  BY <1>6, <1>7, <1>8 DEF Placed
<1>10. ASSUME NEW x \in Keys
       PROVE  Has(u, x) <=> x # k /\ Has(t, x)
  <2>1. /\ Slot[x] \in Slots
        /\ Has(u, x) <=> \E j \in 1 .. Len(u.slots[Slot[x]]) : u.slots[Slot[x]][j] = x
        /\ Has(t, x) <=> \E j \in 1 .. Len(t.slots[Slot[x]]) : t.slots[Slot[x]][j] = x
    BY <1>9, SlotOfKey
  <2>2. CASE Slot[x] # Slot[k]
    BY <1>6, <2>1, <2>2
  <2>3. CASE Slot[x] = Slot[k]
    BY <1>4, <1>6, <2>1, <2>3 DEF l
  <2>4. QED
    BY <2>2, <2>3
<1>11. QED
  BY <1>6, <1>9, <1>10 DEF u

-----------------------------------------------------------------------------

\* The port of a query is one.
LEMMA PortTyped ==
  ASSUME NEW q, NEW s \in Servers
  PROVE  PortOf(q, s) \in Ports
BY DEF PortOf, Ports

\* Sockets that close keep their tasks and the timer, and leave the others polled.
LEMMA CloseKeeps ==
  ASSUME TypeOK, Kept(poll, tasks, timer), Polled(sock, poll),
         NEW P \in SUBSET Ports, CloseSockets(P)
  PROVE  /\ sock' \in [Ports -> Fds \cup {None}]
         /\ undefined' = undefined
         /\ Kept(poll', tasks', timer')
         /\ Polled(sock', poll')
         /\ \A p \in Ports \ P : sock'[p] = sock[p]
<1>1. /\ sock' = [p \in Ports |-> IF p \in P THEN None ELSE sock[p]]
      /\ poll' = [f \in Fds |-> IF \E p \in P : sock[p] = f THEN "closing" ELSE poll[f]]
      /\ tasks' = tasks /\ timer' = timer /\ undefined' = undefined
  BY DEF CloseSockets
<1>2. sock' \in [Ports -> Fds \cup {None}]
  BY <1>1 DEF TypeOK
<1>3. \A f \in Fds : (\E p \in P : sock[p] = f) => poll[f] = "polling"
  BY DnsAssumption DEF Polled
<1>4. /\ poll' \in [Fds -> {"none", "polling", "closing"}]
      /\ \A f \in Fds : poll'[f] # "none" <=> poll[f] # "none"
  BY <1>1, <1>3 DEF TypeOK
<1>5. {f \in Fds : poll'[f] # "none"} = {f \in Fds : poll[f] # "none"}
  BY <1>4
<1>6. Kept(poll', tasks', timer')
  BY <1>1, <1>4, <1>5 DEF Kept
<1>7. Polled(sock', poll')
  <2>1. ASSUME NEW r \in Ports, sock'[r] # None
        PROVE  /\ r \notin P /\ sock'[r] = sock[r] /\ sock[r] \in Fds
               /\ poll'[sock'[r]] = "polling"
    <3>1. r \notin P /\ sock'[r] = sock[r] /\ sock[r] \in Fds
      BY <1>1, <2>1 DEF TypeOK
    <3>2. ~ \E p \in P : sock[p] = sock[r]
      BY <2>1, <3>1 DEF Polled
    <3>3. poll[sock[r]] = "polling"
      BY <2>1, <3>1 DEF Polled
    <3>4. QED
      BY <1>1, <3>1, <3>2, <3>3
  <2>2. QED
    BY <2>1 DEF Polled
<1>8. QED
  BY <1>1, <1>2, <1>6, <1>7

\* What is left when a query has been written to the socket at p.
LEMMA SendKeeps ==
  ASSUME TypeOK, ~undefined, Kept(poll, tasks, timer), Polled(sock, poll),
         NEW p \in Ports, SendTo(p)
  PROVE  /\ sock' \in [Ports -> Fds \cup {None}]
         /\ undefined' \in BOOLEAN
         /\ Kept(poll', tasks', timer')
         /\ ~undefined' => Polled(sock', poll')
         /\ sock'[p] # None
         /\ \A r \in Ports : sock[r] # None => sock'[r] # None
<1>1. CASE /\ sock[p] # None
           /\ UNCHANGED <<sock, poll, tasks, timer, undefined>>
  BY <1>1 DEF TypeOK
<1>2. ASSUME sock[p] = None, NEW f \in FreeFds,
             sock' = [sock EXCEPT ![p] = f], Opened(f)
      PROVE  /\ sock' \in [Ports -> Fds \cup {None}]
             /\ undefined' \in BOOLEAN
             /\ Kept(poll', tasks', timer')
             /\ ~undefined' => Polled(sock', poll')
             /\ sock'[p] # None
             /\ \A r \in Ports : sock[r] # None => sock'[r] # None
  <2>1. f \in Fds /\ f # None /\ \A r \in Ports : sock[r] # f
    BY <1>2, DnsAssumption DEF FreeFds
  <2>2. /\ sock' \in [Ports -> Fds \cup {None}]
        /\ sock'[p] = f
        /\ \A r \in Ports : r # p => sock'[r] = sock[r]
    BY <1>2, <2>1 DEF TypeOK
  <2>3. CASE Has(tasks, f)
    <3>1. undefined' = (poll[f] = "closing") /\ poll' = poll /\ tasks' = tasks /\ timer' = timer
      BY <1>2, <2>3 DEF Opened
    <3>2. ~undefined' => poll[f] = "polling"
      BY <2>1, <2>3, <3>1 DEF Kept
    <3>3. ~undefined' => Polled(sock', poll')
      BY <2>1, <2>2, <3>1, <3>2 DEF Polled
    <3>4. QED
      BY <1>2, <2>1, <2>2, <3>1, <3>3
  <2>4. CASE ~Has(tasks, f)
    <3>1. /\ timer' = TRUE /\ tasks' = Set(tasks, f)
          /\ poll' = [poll EXCEPT ![f] = "polling"] /\ undefined' = undefined
      BY <1>2, <2>4 DEF Opened, Started
    <3>2. /\ Placed(tasks')
          /\ tasks'.items = tasks.items + 1
          /\ \A x \in Fds : Has(tasks', x) <=> x = f \/ Has(tasks, x)
      BY <2>1, <2>4, <3>1, SetHas DEF Kept, Fds
    <3>3. poll[f] = "none" /\ tasks.items \in Nat
      BY <2>1, <2>4 DEF Kept, Placed, Tables
    <3>4. tasks'.items = Cardinality({x \in Fds : poll'[x] # "none"})
      <4> DEFINE old == {x \in Fds : poll[x] # "none"}
                 new == {x \in Fds : poll'[x] # "none"}
      <4>1. new = old \cup {f} /\ f \notin old
        BY <2>1, <3>1, <3>3 DEF Kept
      <4>2. IsFiniteSet(old)
        BY DnsAssumption, FS_Subset
      <4>3. Cardinality(new) = Cardinality(old) + 1
        BY <4>1, <4>2, FS_AddElement
      <4>4. QED
        BY <3>2, <4>3 DEF Kept
    <3>5. \A x \in Fds : Has(tasks', x) <=> poll'[x] # "none"
      BY <2>1, <3>1, <3>2 DEF Kept
    <3>6. poll' \in [Fds -> {"none", "polling", "closing"}]
      BY <2>1, <3>1 DEF Kept
    <3>7. Kept(poll', tasks', timer')
      BY <3>1, <3>2, <3>3, <3>4, <3>5, <3>6 DEF Kept
    <3>8. Polled(sock', poll')
      BY <2>1, <2>2, <3>1 DEF Polled, Kept
    <3>9. QED
      BY <1>2, <2>1, <2>2, <3>1, <3>7, <3>8 DEF TypeOK
  <2>5. QED
    BY <2>3, <2>4
<1>3. QED
  BY <1>1, <1>2 DEF SendTo

\* An attempt to send q at p, which may fail: then q is to move on.
LEMMA AttemptKeeps ==
  ASSUME TypeOK, ~undefined, Kept(poll, tasks, timer), Polled(sock, poll),
         NEW q \in Queries, NEW p \in Ports, Attempt(q, p)
  PROVE  /\ sock' \in [Ports -> Fds \cup {None}]
         /\ undefined' \in BOOLEAN
         /\ Kept(poll', tasks', timer')
         /\ ~undefined' => Polled(sock', poll')
         /\ \A r \in Ports : sock[r] # None => sock'[r] # None
         /\ \/ resend' = resend \ {q} /\ sock'[p] # None
            \/ resend' = resend \cup {q}
<1>1. CASE SendTo(p) /\ resend' = resend \ {q}
  BY <1>1, SendKeeps
<1>2. CASE SendTo(p) /\ resend' = resend \cup {q}
  BY <1>2, SendKeeps
<1>3. CASE /\ resend' = resend \cup {q}
           /\ UNCHANGED <<sock, poll, tasks, timer, undefined>>
  BY <1>3 DEF TypeOK
<1>4. QED
  BY <1>1, <1>2, <1>3 DEF Attempt

\* A step after which every query that waits has a socket.
LEMMA StepKeeps ==
  ASSUME IInv, ~undefined,
         query' \in [Queries -> Servers \cup {"new", "ended"}],
         tries' \in [Queries -> 0 .. Tries],
         tcp' \subseteq Waiting', resend' \subseteq Waiting',
         sock' \in [Ports -> Fds \cup {None}],
         undefined' \in BOOLEAN,
         Kept(poll', tasks', timer'),
         ~undefined' => Polled(sock', poll'),
         \A r \in Ports : sock[r] # None => sock'[r] # None,
         \A n \in Waiting' \ resend' :
           \/ n \in Waiting \ resend /\ Port(n)' = Port(n)
           \/ sock'[Port(n)'] # None
  PROVE  IInv'
<1>1. TypeOK'
  BY DEF TypeOK, Kept, Placed, Waiting
<1>2. ASSUME NEW n \in Waiting' \ resend'
      PROVE  sock'[Port(n)'] # None
  <2>1. CASE n \in Waiting \ resend /\ Port(n)' = Port(n)
    <3>1. sock[Port(n)] # None
      BY <2>1 DEF IInv
    <3>2. Port(n) \in Ports
      BY <2>1, PortTyped DEF Port, Waiting
    <3>3. QED
      BY <2>1, <3>1, <3>2
  <2>2. QED
    BY <1>2, <2>1
<1>3. QED
  BY <1>1, <1>2 DEF IInv

\* A coroutine that asks keeps the invariant, also when that of another query, q, has
\* been resumed.
LEMMA AskKeeps ==
  ASSUME IInv, ~undefined, NEW q \in Queries, NEW n \in Queries, NEW s \in Servers,
         Ask(n, s),
         \/ /\ query' = [query EXCEPT ![n] = s]
            /\ UNCHANGED <<tcp, resend>>
         \/ /\ q \in Waiting
            /\ query' = [query EXCEPT ![q] = "ended", ![n] = s]
            /\ tcp' = tcp \ {q} /\ resend' = resend \ {q}
  PROVE  IInv'
<1>1. /\ sock' \in [Ports -> Fds \cup {None}]
      /\ undefined' \in BOOLEAN
      /\ Kept(poll', tasks', timer')
      /\ ~undefined' => Polled(sock', poll')
      /\ sock'[<<s, "udp">>] # None
      /\ \A r \in Ports : sock[r] # None => sock'[r] # None
  <2>1. <<s, "udp">> \in Ports
    BY DEF Ports
  <2>2. SendTo(<<s, "udp">>)
    BY DEF Ask
  <2>3. QED
    BY <2>1, <2>2, SendKeeps DEF IInv
<1>2. tries' \in [Queries -> 0 .. Tries]
  BY DnsAssumption DEF Ask, IInv, TypeOK
<1>3. n \notin Waiting /\ n \notin tcp
  BY DnsAssumption DEF Ask, Waiting, IInv
<1>4. /\ query' \in [Queries -> Servers \cup {"new", "ended"}]
      /\ query'[n] = s /\ n \notin tcp'
  BY <1>3 DEF IInv, TypeOK
<1>5. ASSUME NEW m \in Queries, m # n
      PROVE  \/ query'[m] = query[m] /\ (m \in tcp' <=> m \in tcp) /\ (m \in resend' <=> m \in resend)
             \/ query'[m] = "ended" /\ m \notin tcp' /\ m \notin resend'
  BY <1>3, <1>5 DEF IInv, TypeOK
<1>6. tcp' \subseteq Waiting' /\ resend' \subseteq Waiting'
  <2>1. tcp' \subseteq tcp /\ tcp \subseteq Waiting /\ resend' \subseteq resend /\ resend \subseteq Waiting
    BY DEF IInv
  <2>2. QED
    BY <1>4, <1>5, <2>1 DEF Waiting
<1>7. ASSUME NEW m \in Waiting' \ resend'
      PROVE  \/ m \in Waiting \ resend /\ Port(m)' = Port(m)
             \/ sock'[Port(m)'] # None
  <2>1. CASE m = n
    <3>1. Port(m)' = <<s, "udp">>
      BY <1>4, <2>1 DEF Port, PortOf
    <3>2. QED
      BY <1>1, <3>1
  <2>2. CASE m # n
    <3>1. m \in Queries /\ query'[m] \in Servers
      BY DEF Waiting
    <3>2. query'[m] = query[m] /\ (m \in tcp' <=> m \in tcp) /\ (m \in resend' <=> m \in resend)
      BY <1>5, <2>2, <3>1, DnsAssumption
    <3>3. Port(m)' = Port(m)
      BY <3>2 DEF Port, PortOf
    <3>4. QED
      BY <3>1, <3>2, <3>3 DEF Waiting
  <2>3. QED
    BY <2>1, <2>2
<1>8. QED
  BY <1>1, <1>2, <1>4, <1>6, <1>7, StepKeeps

LEMMA QueryKeeps ==
  ASSUME IInv, NEW q \in Queries, NEW s \in Servers, Query(q, s)
  PROVE  IInv'
BY AskKeeps DEF Query, InLoop

\* The end of a query keeps the invariant.
LEMMA EndKeeps ==
  ASSUME IInv, ~undefined, NEW q \in Waiting, End(q)
  PROVE  IInv'
<1>1. tcp' = tcp \ {q} /\ resend' = resend \ {q} /\ q \in Queries
  BY DEF End, Waiting
<1>2. ASSUME query' = [query EXCEPT ![q] = "ended"]
      PROVE  /\ Waiting' = Waiting \ {q}
             /\ tcp' \subseteq Waiting' /\ resend' \subseteq Waiting'
             /\ query' \in [Queries -> Servers \cup {"new", "ended"}]
             /\ \A n \in Waiting' \ resend' : n \in Waiting \ resend /\ Port(n)' = Port(n)
  <2>1. /\ query' \in [Queries -> Servers \cup {"new", "ended"}]
        /\ query'[q] = "ended"
        /\ \A n \in Queries \ {q} : query'[n] = query[n]
    BY <1>1, <1>2 DEF IInv, TypeOK
  <2>2. Waiting' = Waiting \ {q}
    BY <2>1, DnsAssumption DEF Waiting
  <2>3. \A n \in Queries \ {q} : n \in tcp' <=> n \in tcp
    BY <1>1
  <2>4. \A n \in Queries \ {q} : Port(n)' = Port(n)
    BY <2>1, <2>3 DEF Port, PortOf
  <2>5. QED
    BY <1>1, <2>1, <2>2, <2>4 DEF IInv, Waiting
<1>3. CASE /\ query' = [query EXCEPT ![q] = "ended"]
           /\ UNCHANGED tries
           /\ Waiting = {q}
           /\ CloseSockets(Ports)
  <2>1. /\ sock' \in [Ports -> Fds \cup {None}]
        /\ undefined' = undefined
        /\ Kept(poll', tasks', timer')
        /\ Polled(sock', poll')
    BY <1>3, CloseKeeps DEF IInv
  <2>2. Waiting' = {}
    BY <1>2, <1>3
  <2>3. TypeOK'
    BY <1>1, <1>2, <1>3, <2>1 DEF IInv, TypeOK, Kept, Placed
  <2>4. QED
    BY <1>2, <1>3, <2>1, <2>2, <2>3 DEF IInv
<1>4. CASE /\ query' = [query EXCEPT ![q] = "ended"]
           /\ UNCHANGED tries
           /\ UNCHANGED <<sock, poll, tasks, timer, undefined>>
  BY <1>1, <1>2, <1>4, StepKeeps DEF IInv, TypeOK
<1>5. ASSUME NEW n \in Queries, NEW s \in Servers, Ask(n, s),
             query' = [query EXCEPT ![q] = "ended", ![n] = s]
      PROVE  IInv'
  BY <1>1, <1>5, AskKeeps
<1>6. QED
  BY <1>3, <1>4, <1>5 DEF End

\* A query that goes to another port keeps the invariant, sent or not.
LEMMA MovedKeeps ==
  ASSUME IInv, ~undefined, NEW q \in Waiting, NEW s \in Servers, NEW p \in Ports,
         Attempt(q, p),
         query' = [query EXCEPT ![q] = s],
         tries' \in [Queries -> 0 .. Tries],
         tcp' \in {tcp, tcp \cup {q}},
         Port(q)' = p
  PROVE  IInv'
<1>1. q \in Queries
  BY DEF Waiting
<1>2. /\ sock' \in [Ports -> Fds \cup {None}]
      /\ undefined' \in BOOLEAN
      /\ Kept(poll', tasks', timer')
      /\ ~undefined' => Polled(sock', poll')
      /\ \A r \in Ports : sock[r] # None => sock'[r] # None
      /\ \/ resend' = resend \ {q} /\ sock'[p] # None
         \/ resend' = resend \cup {q}
  BY <1>1, AttemptKeeps DEF IInv
<1>3. /\ query' \in [Queries -> Servers \cup {"new", "ended"}]
      /\ query'[q] = s
      /\ \A n \in Queries \ {q} : query'[n] = query[n]
  BY <1>1 DEF IInv, TypeOK
<1>4. Waiting' = Waiting
  BY <1>1, <1>3 DEF Waiting
<1>5. tcp' \subseteq Waiting'
  BY <1>4 DEF IInv
<1>6. ASSUME NEW n \in Waiting' \ resend'
      PROVE  \/ n \in Waiting \ resend /\ Port(n)' = Port(n)
             \/ sock'[Port(n)'] # None
  <2>1. CASE n = q
    BY <1>2, <1>6, <2>1
  <2>2. CASE n # q
    <3>1. n \in Queries /\ query'[n] = query[n] /\ (n \in tcp' <=> n \in tcp)
      BY <1>3, <2>2 DEF Waiting
    <3>2. Port(n)' = Port(n)
      BY <3>1 DEF Port, PortOf
    <3>3. QED
      BY <1>2, <1>4, <1>6, <2>2, <3>2
  <2>3. QED
    BY <2>1, <2>2
<1>7. resend' \subseteq Waiting'
  BY <1>2, <1>4 DEF IInv
<1>8. QED
  BY <1>2, <1>3, <1>5, <1>6, <1>7, StepKeeps

LEMMA NextServerKeeps ==
  ASSUME IInv, ~undefined, NEW q \in Waiting, NextServer(q)
  PROVE  IInv'
<1>1. ASSUME tries[q] < Tries, NEW s \in Servers,
             tries' = [tries EXCEPT ![q] = @ + 1],
             query' = [query EXCEPT ![q] = s],
             Attempt(q, PortOf(q, s)), UNCHANGED tcp
      PROVE  IInv'
  <2>1. q \in Queries
    BY DEF Waiting
  <2>2. tries' \in [Queries -> 0 .. Tries]
    BY <1>1, <2>1, DnsAssumption DEF IInv, TypeOK
  <2>3. Port(q)' = PortOf(q, s) /\ PortOf(q, s) \in Ports
    BY <1>1, <2>1, PortTyped DEF Port, PortOf, IInv, TypeOK
  <2>4. QED
    BY <1>1, <2>2, <2>3, MovedKeeps
<1>2. QED
  BY <1>1, EndKeeps DEF NextServer

LEMMA TruncatedKeeps ==
  ASSUME IInv, NEW q \in Queries, Truncated(q)
  PROVE  IInv'
<1>1. /\ ~undefined /\ q \in Waiting
      /\ tcp' = tcp \cup {q} /\ Attempt(q, <<query[q], "tcp">>)
      /\ query' = query /\ tries' = tries
  BY DEF Truncated, InLoop
<1>2. /\ query[q] \in Servers
      /\ query' = [query EXCEPT ![q] = query[q]]
      /\ tries' \in [Queries -> 0 .. Tries]
  BY <1>1 DEF Waiting, IInv, TypeOK
<1>3. Port(q)' = <<query[q], "tcp">> /\ <<query[q], "tcp">> \in Ports
  BY <1>1, <1>2 DEF Port, PortOf, Ports
<1>4. QED
  BY <1>1, <1>2, <1>3, MovedKeeps

LEMMA ServerFailsKeeps ==
  ASSUME IInv, NEW s \in Servers, ServerFails(s)
  PROVE  IInv'
<1> DEFINE P == {p \in Ports : p[1] = s}
<1>1. /\ ~undefined /\ resend = {} /\ CloseSockets(P)
      /\ resend' = {q \in Waiting : query[q] = s}
      /\ query' = query /\ tries' = tries /\ tcp' = tcp
  BY DEF ServerFails, InLoop
<1>2. /\ sock' \in [Ports -> Fds \cup {None}]
      /\ undefined' = undefined
      /\ Kept(poll', tasks', timer')
      /\ Polled(sock', poll')
      /\ \A p \in Ports \ P : sock'[p] = sock[p]
  BY <1>1, CloseKeeps DEF IInv
<1>3. ASSUME NEW q \in Waiting' \ resend'
      PROVE  sock'[Port(q)'] # None
  <2>1. q \in Waiting \ resend /\ query[q] \in Servers /\ query[q] # s /\ Port(q)' = Port(q)
    BY <1>1 DEF Waiting, Port, PortOf
  <2>2. Port(q) \in Ports /\ Port(q)[1] = query[q]
    BY <2>1, PortTyped DEF Port, PortOf
  <2>3. sock[Port(q)] # None
    BY <1>1, <2>1 DEF IInv
  <2>4. QED
    BY <1>2, <2>1, <2>2, <2>3
<1>4. TypeOK'
  BY <1>1, <1>2 DEF IInv, TypeOK, Kept, Placed, Waiting
<1>5. tcp' \subseteq Waiting' /\ resend' \subseteq Waiting'
  BY <1>1 DEF IInv, Waiting
<1>6. QED
  BY <1>1, <1>2, <1>3, <1>4, <1>5 DEF IInv

\* The task of a handle that has closed goes, and with the last one the timer stops.
LEMMA PollClosedKeeps ==
  ASSUME IInv, NEW f \in Fds, PollClosed(f)
  PROVE  IInv'
<1>1. /\ ~undefined /\ poll[f] = "closing" /\ tcp' = tcp /\ resend' = resend
      /\ tasks' = Remove(tasks, f) /\ poll' = [poll EXCEPT ![f] = "none"]
      /\ timer' = GoesOn(tasks')
      /\ query' = query /\ tries' = tries /\ sock' = sock /\ undefined' = undefined
  BY DEF PollClosed, InLoop
<1>2. Kept(poll, tasks, timer) /\ TypeOK /\ Polled(sock, poll)
  BY <1>1 DEF IInv
<1> DEFINE old == {x \in Fds : poll[x] # "none"}
           new == {x \in Fds : poll'[x] # "none"}
<1>3. IsFiniteSet(old) /\ f \in old /\ new = old \ {f}
  BY <1>1, <1>2, DnsAssumption, FS_Subset DEF TypeOK
<1>4. Cardinality(new) = Cardinality(old) - 1 /\ Cardinality(new) \in Nat
  BY <1>3, FS_RemoveElement, FS_CardinalityType
<1>5. Has(tasks, f) /\ tasks.items > 0 /\ tasks.items = Cardinality(old)
  BY <1>1, <1>2, <1>4 DEF Kept, Placed, Tables
<1>6. /\ Placed(tasks')
      /\ tasks'.items = tasks.items - 1
      /\ \A x \in Fds : Has(tasks', x) <=> x # f /\ Has(tasks, x)
  BY <1>1, <1>2, <1>5, RemoveHas DEF Kept, Fds
<1>7. timer' \in BOOLEAN /\ (timer' <=> tasks'.items > 0)
  BY <1>1, <1>2, <1>5 DEF GoesOn, Kept
<1>8. \A x \in Fds : Has(tasks', x) <=> poll'[x] # "none"
  BY <1>1, <1>2, <1>6 DEF Kept
<1>9. poll' \in [Fds -> {"none", "polling", "closing"}]
  BY <1>1, <1>2 DEF Kept
<1>10. Kept(poll', tasks', timer')
  BY <1>4, <1>5, <1>6, <1>7, <1>8, <1>9 DEF Kept
<1>11. Polled(sock', poll')
  BY <1>1, <1>2 DEF Polled, TypeOK
<1>12. TypeOK'
  BY <1>1, <1>2, <1>10 DEF TypeOK, Kept, Placed
<1>13. Waiting' = Waiting /\ \A q \in Waiting : Port(q)' = Port(q)
  BY <1>1 DEF Waiting, Port, PortOf
<1>14. QED
  BY <1>1, <1>10, <1>11, <1>12, <1>13 DEF IInv

-----------------------------------------------------------------------------

LEMMA InitInv == Init => IInv
<1> SUFFICES ASSUME Init PROVE IInv
  OBVIOUS
<1>1. /\ EmptyTable.items = 0 /\ EmptyTable.slots = [i \in Slots |-> <<>>]
      /\ EmptyTable \in Tables
  BY EmptySeq DEF EmptyTable, Tables
<1>2. \A i \in Slots : EmptyTable.slots[i] = <<>> /\ Len(EmptyTable.slots[i]) = 0
  BY <1>1
<1>3. Placed(EmptyTable)
  BY <1>1, <1>2 DEF Placed
<1>4. \A f \in Fds : ~Has(EmptyTable, f)
  BY <1>2, <1>3, SlotOfKey DEF Fds
<1>5. {f \in Fds : poll[f] # "none"} = {}
  BY DEF Init
<1>6. Kept(poll, tasks, timer)
  <2>1. Cardinality({f \in Fds : poll[f] # "none"}) = 0
    BY <1>5, FS_EmptySet
  <2>2. /\ poll \in [Fds -> {"none", "polling", "closing"}]
        /\ \A f \in Fds : poll[f] = "none"
        /\ tasks = EmptyTable /\ timer = FALSE
    BY DEF Init
  <2>3. /\ \A f \in Fds : Has(tasks, f) <=> poll[f] # "none"
        /\ Placed(tasks) /\ tasks.items = 0
    BY <1>1, <1>3, <1>4, <2>2
  <2>4. ~(tasks.items > 0)
    BY <2>3
  <2>5. timer \in BOOLEAN /\ (timer <=> tasks.items > 0)
    BY <2>2, <2>4
  <2>6. QED
    BY <2>1, <2>2, <2>3, <2>5 DEF Kept
<1>7. Polled(sock, poll)
  BY DEF Init, Polled
<1>8. Waiting = {}
  BY DnsAssumption DEF Init, Waiting
<1>9. TypeOK
  <2>1. 0 \in 0 .. Tries
    BY DnsAssumption
  <2>2. QED
    BY <1>1, <2>1 DEF Init, TypeOK
<1>10. tcp = {} /\ resend = {}
  BY DEF Init
<1>11. QED
  BY <1>6, <1>7, <1>8, <1>9, <1>10 DEF IInv

LEMMA NextInv == IInv /\ [Next]_vars => IInv'
<1> SUFFICES ASSUME IInv, [Next]_vars PROVE IInv'
  OBVIOUS
<1>1. ASSUME NEW q \in Queries, NEW s \in Servers, Query(q, s) PROVE IInv'
  BY <1>1, QueryKeeps
<1>2. ASSUME NEW q \in Queries, Answer(q) PROVE IInv'
  BY <1>2, EndKeeps DEF Answer, InLoop
<1>3. ASSUME NEW q \in Queries, Truncated(q) PROVE IInv'
  BY <1>3, TruncatedKeeps
<1>4. ASSUME NEW q \in Queries, TimesOut(q) PROVE IInv'
  BY <1>4, NextServerKeeps DEF TimesOut, InLoop
<1>5. ASSUME NEW q \in Queries, MoveOn(q) PROVE IInv'
  BY <1>5, NextServerKeeps DEF MoveOn, IInv
<1>6. ASSUME NEW s \in Servers, ServerFails(s) PROVE IInv'
  BY <1>6, ServerFailsKeeps
<1>7. ASSUME NEW f \in Fds, PollClosed(f) PROVE IInv'
  BY <1>7, PollClosedKeeps
<1>8. CASE UNCHANGED vars
  BY <1>8 DEF vars, IInv, TypeOK, Waiting, Port, PortOf
<1>9. QED
  BY <1>1, <1>2, <1>3, <1>4, <1>5, <1>6, <1>7, <1>8 DEF Next

LEMMA Inductive == Spec => []IInv
  BY InitInv, NextInv, PTL DEF Spec

\* The variables of name resolution have the values their types say
\* (luaio_dns.c:9-17).
THEOREM TypeCorrect == Spec => []TypeOK
<1>1. IInv => TypeOK
  BY DEF IInv
<1>2. QED
  BY <1>1, Inductive, PTL

\* Every poll handle has its task in the table, whatever else is in its slot, and no
\* other descriptor has one (luaio_hash.c:190-267, luaio_dns.c:43-45, 95).
THEOREM EveryTaskFound == Spec => []TasksFound
<1>1. IInv => TasksFound
  BY DEF IInv, Kept, TasksFound
<1>2. QED
  BY <1>1, Inductive, PTL

\* A query that waits can be answered and can time out, whatever closes meanwhile
\* (luaio_dns.c:43-47, 80-101).
THEOREM WaitingIsWatched == Spec => []QueriesWatched
<1>1. ASSUME IInv PROVE QueriesWatched
  <2> SUFFICES ASSUME ~undefined, NEW q \in Waiting \ resend
               PROVE  timer /\ sock[Port(q)] # None /\ poll[sock[Port(q)]] = "polling"
    BY DEF QueriesWatched
  <2> DEFINE f == sock[Port(q)]
  <2>1. f # None /\ poll[f] = "polling" /\ f \in Fds
    <3>1. Port(q) \in Ports
      BY PortTyped DEF Port, Waiting
    <3>2. QED
      BY <1>1, <3>1 DEF IInv, Polled, TypeOK
  <2> HIDE DEF f
  <2>2. f \in {x \in Fds : poll[x] # "none"} /\ IsFiniteSet({x \in Fds : poll[x] # "none"})
    BY <2>1, DnsAssumption, FS_Subset
  <2>3. Cardinality({x \in Fds : poll[x] # "none"}) > 0
    BY <2>2, FS_EmptySet, FS_CardinalityType
  <2>4. timer
    BY <1>1, <2>3 DEF IInv, Kept
  <2>5. QED
    BY <2>1, <2>4 DEF f
<1>2. QED
  BY <1>1, Inductive, PTL

\* The timer does not outlive the last task, so that the event loop may end
\* (luaio_dns.c:45-47).
THEOREM TimerIsStopped == Spec => []TimerStops
<1>1. ASSUME IInv, timer PROVE \E f \in Fds : poll[f] # "none"
  <2>1. Cardinality({f \in Fds : poll[f] # "none"}) > 0
    BY <1>1 DEF IInv, Kept
  <2>2. {f \in Fds : poll[f] # "none"} # {}
    BY <2>1, FS_EmptySet
  <2>3. QED
    BY <2>2
<1>2. IInv => TimerStops
  BY <1>1 DEF TimerStops
<1>3. QED
  BY <1>2, Inductive, PTL

=============================================================================
