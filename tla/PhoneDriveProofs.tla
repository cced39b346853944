-------------------------- MODULE PhoneDriveProofs --------------------------
(***************************************************************************)
(* Phone control for any contacts, budgets, queue capacity, identifiers    *)
(* and timing.                                                             *)
(*                                                                         *)
(* Two ideas carry the proofs.  Sequence numbers: a write that left Rust   *)
(* is in one place only, the queue, the hand of the Bluetooth queue or the *)
(* wire, and the write that Rust calls pending is the one numbered last.   *)
(* And the neutral: no call leaves a hold without preparing it or being    *)
(* out of identifiers, and while it is pending no gesture can be held.     *)
(***************************************************************************)
EXTENDS PhoneDrive, PhoneDriveControlProofs, WellFoundedInduction

Entries == [kind : {"Ordinary"}, token : Nat] \cup Writes

\* Each motor write of a queue q is remembered, and in no other place: not twice in the
\* queue, and not on the wire.
QueueKnows(s, q, onWire) ==
  /\ q \in Seq(Entries)
  /\ \A i \in DOMAIN q : Motor(q[i]) => Remembers(s, q[i]) /\ q[i].sequence # onWire
  /\ \A i, j \in DOMAIN q :
       i # j /\ Motor(q[i]) /\ Motor(q[j]) => q[i].sequence # q[j].sequence

\* So is the write in hand.
HandKnows(s, q, onWire, w) ==
  /\ w \in Entries
  /\ Motor(w) => /\ Remembers(s, w)
                 /\ w.sequence # onWire
                 /\ \A i \in DOMAIN q : Motor(q[i]) => q[i].sequence # w.sequence

WireKnows(s, onWire) ==
  /\ onWire \in Nat
  /\ onWire <= s.next_sequence
  /\ s.pending # None /\ ~s.pending.emitted => onWire # s.pending.sequence

BleType ==
  [pc : {"rest", "offer", "hand", "flush"}, write : Entries \cup {None}, flush : BOOLEAN,
   gate : Entries \cup {None}]

DInv ==
  /\ now \in Nat
  /\ Coherent(session, lifted, now)
  /\ session.pending # None => Issued(session.pending, session)
  /\ ble \in BleType
  /\ WireKnows(session, wire)
  /\ QueueKnows(session, queue, wire)
  /\ ble.pc \in {"offer", "hand"} => HandKnows(session, queue, wire, ble.write)
  /\ ble.pc = "hand" => HandIsRight(session, lifted, wire, ble.write)
  /\ saved \in [mode : Modes, limits : Budgets]
  /\ sheet # None => sheet.record \in [mode : Modes, limits : Budgets] /\ sheet.token \in Nat

-----------------------------------------------------------------------------
(* The writes on their way. *)

\* What the queue, the hand and the wire know of s they know of what comes after it.
LEMMA GoesKnows ==
  ASSUME NEW s \in Sessions, NEW t \in Sessions, Goes(s, t), NEW q, NEW onWire
  PROVE  /\ QueueKnows(s, q, onWire) => QueueKnows(t, q, onWire)
         /\ \A w : HandKnows(s, q, onWire, w) => HandKnows(t, q, onWire, w)
         /\ WireKnows(s, onWire) => WireKnows(t, onWire)
<1>1. \A w : Remembers(s, w) => Remembers(t, w)
  BY GoesRemembers
<1>2. WireKnows(s, onWire) => WireKnows(t, onWire)
  <2>1. /\ s.next_sequence \in Nat /\ t.next_sequence \in Nat
        /\ t.pending # None => t.pending.sequence \in Nat
    BY ControlAssumption DEF Sessions, Writes
  <2> QED
    BY <2>1 DEF WireKnows, Goes
<1> QED
  BY <1>1, <1>2 DEF QueueKnows, HandKnows

\* Two queues joined.
LEMMA Joined ==
  ASSUME NEW S, NEW a \in Seq(S), NEW b \in Seq(S)
  PROVE  a \o b \in Seq(S) /\ Len(a \o b) = Len(a) + Len(b)
<1>1. a \o b \in Seq(S)
  OBVIOUS
<1>2. Len(a \o b) = Len(a) + Len(b)
  OBVIOUS
<1> QED
  BY <1>1, <1>2

\* What is left of a sequence when an entry is removed.
LEMMA Removed ==
  ASSUME NEW q \in Seq(Entries), NEW k \in DOMAIN q
  PROVE  LET r == Without(q, k)
         IN  /\ r \in Seq(Entries) /\ Len(r) = Len(q) - 1
             /\ \A i \in DOMAIN r :
                  r[i] = IF i < k THEN q[i] ELSE q[i + 1]
<1> DEFINE r == Without(q, k)
           a == SubSeq(q, 1, k - 1)
           b == SubSeq(q, k + 1, Len(q))
<1>1. Len(q) \in Nat /\ k \in 1 .. Len(q) /\ DOMAIN q = 1 .. Len(q)
  OBVIOUS
<1>2. r = a \o b
  BY DEF Without
<1>3. a \in Seq(Entries) /\ Len(a) = k - 1 /\ \A i \in 1 .. (k - 1) : a[i] = q[i]
  BY <1>1
<1>4. /\ b \in Seq(Entries) /\ Len(b) = Len(q) - k
      /\ \A i \in 1 .. (Len(q) - k) : b[i] = q[k + i]
  BY <1>1
<1> HIDE DEF a, b
<1>5. r \in Seq(Entries) /\ Len(r) = Len(q) - 1
  <2>1. a \o b \in Seq(Entries) /\ Len(a \o b) = Len(a) + Len(b)
    BY <1>3, <1>4, Joined, Zenon
  <2> QED
    BY <1>1, <1>2, <1>3, <1>4, <2>1
<1>6. ASSUME NEW i \in DOMAIN r
      PROVE  r[i] = IF i < k THEN q[i] ELSE q[i + 1]
  <2>1. i \in 1 .. (Len(q) - 1)
    BY <1>5
  <2>2. CASE i < k
    BY <1>1, <1>2, <1>3, <1>4, <2>1, <2>2
  <2>3. CASE ~(i < k)
    <3>1. i - (k - 1) \in 1 .. (Len(q) - k) /\ k + (i - (k - 1)) = i + 1
      BY <1>1, <2>1, <2>3
    <3>2. r[i] = b[i - (k - 1)]
      BY <1>1, <1>2, <1>3, <1>4, <2>1, <2>3
    <3> QED
      BY <1>4, <2>3, <3>1, <3>2
  <2> QED
    BY <2>2, <2>3
<1> QED
  BY <1>5, <1>6, Zenon

\* CoreBluetoothWriteQueue.discardExpired leaves the session as it was, or without the
\* pending write that was in the queue.
LEMMA DiscardedFacts ==
  ASSUME NEW s, NEW l, now \in Nat, Coherent(s, l, now), NEW onWire, QueueKnows(s, queue, onWire)
  PROVE  LET d == Discarded(s)
         IN  /\ Proper(s, d, l, now)
             /\ d = s \/ d.pending = None \/ ~d.pending.emitted
<1> DEFINE expired == {w \in Waiting : w.kind # "Ordinary" /\ ~Current(s, w)}
           mine    == {w \in expired : s.pending # None /\ s.pending.sequence = w.sequence}
<1>1. CASE mine = {}
  <2>1. Discarded(s) = s
    BY <1>1 DEF Discarded
  <2>2. SameControl(s, s)
    BY DEF SameControl
  <2>3. s \in Sessions /\ s.presented \in {None, s.attempt} /\ s.last_input_at <= now
    BY DEF Coherent
  <2>4. Proper(s, s, l, now)
    BY <2>2, <2>3, SameControlFacts, Zenon
  <2> QED
    BY <2>1, <2>4, Zenon
<1>2. CASE mine # {}
  <2> DEFINE w == CHOOSE x \in mine : TRUE
             d == Mark(s, w, "Cancelled", now)
  <2>1. Discarded(s) = d
    BY <1>2 DEF Discarded
  <2>2. w \in mine
    BY <1>2
  <2>3. w \in Waiting /\ Motor(w)
    BY <2>2 DEF Motor
  <2> HIDE DEF w
  <2>4. PICK i \in DOMAIN queue : w = queue[i]
    BY <2>3 DEF Waiting
  <2>5. Remembers(s, w)
    BY <2>3, <2>4, Zenon DEF QueueKnows
  <2>6. /\ Coherent(d, l, now) /\ Goes(s, d) /\ Releases(s, d) /\ Settles(s, d)
        /\ d = s \/ d.pending = None \/ ~d.pending.emitted
    BY <2>5, MarkFacts
  <2> HIDE DEF d
  <2> QED
    BY <2>1, <2>6, Zenon DEF Proper
<1> QED
  BY <1>1, <1>2, Zenon

-----------------------------------------------------------------------------
(* discardExpired keeps the current entries, in their order. *)

Less == {p \in Nat \X Nat : p[1] < p[2]}

\* A set of numbers has a least one: what stands for induction here.
LEMMA LeastNumber ==
  ASSUME NEW T \in SUBSET Nat, T # {}
  PROVE  \E x \in T : \A y \in T : x <= y
<1>1. IsWellFoundedOn(Less, Nat)
  <2>1. OpToRel(<, Nat) = Less
    BY Zenon DEF Less, OpToRel
  <2> QED
    BY <2>1, NatLessThanWellFounded, Zenon
<1>2. PICK x \in T : \A y \in T : ~(<<y, x>> \in Less)
  BY <1>1, WFMin, Zenon
<1>3. ASSUME NEW y \in T
      PROVE  x <= y
  <2>1. <<y, x>> \in Nat \X Nat /\ <<y, x>>[1] = y /\ <<y, x>>[2] = x
    OBVIOUS
  <2>2. ~(<<y, x>> \in Less)
    BY <1>2
  <2>3. ~(y < x)
    BY <2>1, <2>2, Zenon DEF Less
  <2> QED
    BY <2>3
<1> QED
  BY <1>3

\* One turn of the loop, and the loop over the first n entries.
Keep(s, i, before) == IF Current(s, queue[i]) THEN Append(before, queue[i]) ELSE before

KeepsFirst(s, n, g) == g = [i \in 0 .. n |-> IF i = 0 THEN <<>> ELSE Keep(s, i, g[i - 1])]

\* The loop has a result after n turns.
LEMMA KeptExists ==
  ASSUME NEW s, NEW n \in Nat
  PROVE  \E g : KeepsFirst(s, n, g)
<1> DEFINE T == {m \in Nat : ~ \E g : KeepsFirst(s, m, g)}
<1> SUFFICES ASSUME T # {}
             PROVE  FALSE
  OBVIOUS
<1>1. PICK m \in T : \A k \in T : m <= k
  <2>1. T \in SUBSET Nat
    OBVIOUS
  <2> QED
    BY <2>1, LeastNumber, Zenon
<1>2. m \in Nat /\ ~ \E g : KeepsFirst(s, m, g)
  OBVIOUS
<1>3. m # 0
  <2>1. KeepsFirst(s, 0, [i \in 0 .. 0 |-> <<>>])
    BY DEF KeepsFirst
  <2> QED
    BY <1>2, <2>1
<1>4. m - 1 \in Nat /\ ~(m <= m - 1)
  BY <1>2, <1>3
<1>5. PICK g : KeepsFirst(s, m - 1, g)
  BY <1>1, <1>4, Zenon
<1> DEFINE h == [i \in 0 .. m |-> IF i = m THEN Keep(s, m, g[m - 1]) ELSE g[i]]
<1>6. ASSUME NEW i \in 0 .. m
      PROVE  h[i] = IF i = 0 THEN <<>> ELSE Keep(s, i, h[i - 1])
  <2>1. CASE i = m
    <3>1. h[i] = Keep(s, m, g[m - 1]) /\ h[m - 1] = g[m - 1]
      BY <1>2, <1>4, <2>1
    <3> QED
      BY <1>3, <2>1, <3>1, Zenon
  <2>2. CASE i # m /\ i # 0
    <3>1. i \in 0 .. (m - 1) /\ i - 1 \in 0 .. (m - 1) /\ i - 1 # m /\ i - 1 \in 0 .. m
      BY <1>2, <2>2
    <3>2. h[i] = g[i] /\ h[i - 1] = g[i - 1]
      BY <2>2, <3>1, Zenon
    <3>3. g[i] = Keep(s, i, g[i - 1])
      BY <1>5, <2>2, <3>1, Zenon DEF KeepsFirst
    <3> QED
      BY <2>2, <3>2, <3>3, Zenon
  <2>3. CASE i = 0
    <3>1. h[0] = g[0] /\ 0 \in 0 .. (m - 1)
      BY <1>2, <1>3, <2>3
    <3>2. g[0] = <<>>
      BY <1>5, <3>1 DEF KeepsFirst
    <3> QED
      BY <2>3, <3>1, <3>2, Zenon
  <2> QED
    BY <2>1, <2>2, <2>3, Zenon
<1>7. h = [i \in 0 .. m |-> h[i]]
  OBVIOUS
<1> HIDE DEF h
<1>8. KeepsFirst(s, m, h)
  BY <1>6, <1>7, Zenon DEF KeepsFirst
<1> QED
  BY <1>2, <1>8

\* f tells which entries of the first n a sequence u has kept, and all of them are current.
Selects(s, u, n, f) ==
  /\ u \in Seq(Entries)
  /\ f \in [1 .. Len(u) -> 1 .. n]
  /\ \A i, j \in 1 .. Len(u) : i < j => f[i] < f[j]
  /\ \A i \in 1 .. Len(u) : u[i] = queue[f[i]] /\ Current(s, queue[f[i]])

\* One more turn selects one more entry, or none.
LEMMA KeepSelects ==
  ASSUME NEW s, queue \in Seq(Entries), NEW n \in Nat, n + 1 <= Len(queue),
         NEW u, NEW f, Selects(s, u, n, f)
  PROVE  \E g : Selects(s, Keep(s, n + 1, u), n + 1, g)
<1>1. Len(u) \in Nat /\ u \in Seq(Entries) /\ queue[n + 1] \in Entries
  BY DEF Selects
<1>2. CASE ~Current(s, queue[n + 1])
  <2>1. Keep(s, n + 1, u) = u
    BY <1>2 DEF Keep
  <2>2. f \in [1 .. Len(u) -> 1 .. (n + 1)]
    BY DEF Selects
  <2>3. Selects(s, u, n + 1, f)
    BY <2>2 DEF Selects
  <2> QED
    BY <2>1, <2>3
<1>3. CASE Current(s, queue[n + 1])
  <2> DEFINE v == Append(u, queue[n + 1])
             g == [i \in 1 .. (Len(u) + 1) |-> IF i = Len(u) + 1 THEN n + 1 ELSE f[i]]
  <2>1. Keep(s, n + 1, u) = v
    BY <1>3 DEF Keep
  <2>2. /\ v \in Seq(Entries) /\ Len(v) = Len(u) + 1 /\ v[Len(u) + 1] = queue[n + 1]
        /\ \A i \in 1 .. Len(u) : v[i] = u[i]
    BY <1>1
  <2> HIDE DEF v
  <2>3. \A i \in 1 .. Len(u) : f[i] \in 1 .. n
    BY DEF Selects
  <2>4. g \in [1 .. Len(v) -> 1 .. (n + 1)]
    BY <1>1, <2>2, <2>3
  <2>5. g[Len(u) + 1] = n + 1 /\ \A i \in 1 .. Len(u) : g[i] = f[i]
    BY <1>1
  <2> HIDE DEF g
  <2>6. ASSUME NEW i \in 1 .. Len(v), NEW j \in 1 .. Len(v), i < j
        PROVE  g[i] < g[j]
    <3>1. i \in 1 .. Len(u)
      BY <1>1, <2>2, <2>6
    <3>2. CASE j = Len(u) + 1
      BY <2>3, <2>5, <3>1, <3>2
    <3>3. CASE j # Len(u) + 1
      <4>1. j \in 1 .. Len(u)
        BY <1>1, <2>2, <3>3
      <4> QED
        BY <2>5, <2>6, <3>1, <4>1, Zenon DEF Selects
    <3> QED
      BY <3>2, <3>3
  <2>7. ASSUME NEW i \in 1 .. Len(v)
        PROVE  v[i] = queue[g[i]] /\ Current(s, queue[g[i]])
    <3>1. CASE i = Len(u) + 1
      BY <1>3, <2>2, <2>5, <3>1, Zenon
    <3>2. CASE i # Len(u) + 1
      <4>1. i \in 1 .. Len(u)
        BY <1>1, <2>2, <3>2
      <4> QED
        BY <2>2, <2>5, <4>1, Zenon DEF Selects
    <3> QED
      BY <3>1, <3>2
  <2>8. Selects(s, v, n + 1, g)
    BY <2>2, <2>4, <2>6, <2>7, Zenon DEF Selects
  <2> QED
    BY <2>1, <2>8
<1> QED
  BY <1>2, <1>3

\* The whole loop selects the current entries in their order.
LEMMA UnexpiredSelects ==
  ASSUME NEW s, queue \in Seq(Entries)
  PROVE  \E f : Selects(s, Unexpired(s), Len(queue), f)
<1> DEFINE kept[i \in 0 .. Len(queue)] ==
             IF i = 0 THEN <<>>
             ELSE IF Current(s, queue[i]) THEN Append(kept[i - 1], queue[i]) ELSE kept[i - 1]
<1>1. Len(queue) \in Nat
  OBVIOUS
<1>2. Unexpired(s) = kept[Len(queue)]
  BY DEF Unexpired
<1>3. kept = CHOOSE g : KeepsFirst(s, Len(queue), g)
  BY DEF KeepsFirst, Keep
<1> HIDE DEF kept
<1>4. KeepsFirst(s, Len(queue), kept)
  BY <1>1, <1>3, KeptExists, Zenon
<1>5. /\ kept[0] = <<>>
      /\ \A i \in 1 .. Len(queue) : kept[i] = Keep(s, i, kept[i - 1])
  BY <1>1, <1>4 DEF KeepsFirst
<1> DEFINE T == {m \in Nat : m <= Len(queue) /\ ~ \E f : Selects(s, kept[m], m, f)}
<1>6. T = {}
  <2> SUFFICES ASSUME T # {}
               PROVE  FALSE
    OBVIOUS
  <2>1. PICK m \in T : \A k \in T : m <= k
    <3>1. T \in SUBSET Nat
      OBVIOUS
    <3> QED
      BY <3>1, LeastNumber, Zenon
  <2>2. m \in Nat /\ m <= Len(queue) /\ ~ \E f : Selects(s, kept[m], m, f)
    OBVIOUS
  <2>3. m # 0
    <3>1. Selects(s, <<>>, 0, [i \in 1 .. 0 |-> 0])
      BY DEF Selects
    <3> QED
      BY <1>5, <2>2, <3>1, Zenon
  <2>4. m - 1 \in Nat /\ ~(m <= m - 1) /\ m - 1 <= Len(queue) /\ (m - 1) + 1 = m
    BY <1>1, <2>2, <2>3
  <2>5. PICK f : Selects(s, kept[m - 1], m - 1, f)
    BY <2>1, <2>4, Zenon
  <2>6. \E g : Selects(s, Keep(s, m, kept[m - 1]), m, g)
    BY <2>2, <2>4, <2>5, KeepSelects, ZenonT(40)
  <2>7. m \in 1 .. Len(queue)
    BY <1>1, <2>2, <2>3
  <2> QED
    BY <1>5, <2>2, <2>6, <2>7, Zenon
<1> QED
  BY <1>1, <1>2, <1>6

\* So every entry that is kept is current, and no motor write is there twice.
LEMMA UnexpiredKnows ==
  ASSUME NEW s, NEW t, NEW onWire, QueueKnows(t, queue, onWire)
  PROVE  LET u == Unexpired(s)
         IN  /\ QueueKnows(t, u, onWire)
             /\ \A i \in DOMAIN u : Current(s, u[i])
             /\ \A w : HandKnows(t, queue, onWire, w) => HandKnows(t, u, onWire, w)
<1> DEFINE u == Unexpired(s)
<1>1. queue \in Seq(Entries)
  BY DEF QueueKnows
<1>2. PICK f : Selects(s, u, Len(queue), f)
  BY <1>1, UnexpiredSelects, Zenon
<1> HIDE DEF u
<1>3. /\ u \in Seq(Entries) /\ DOMAIN u = 1 .. Len(u) /\ Len(u) \in Nat
      /\ DOMAIN queue = 1 .. Len(queue)
  BY <1>1, <1>2 DEF Selects
<1>4. /\ \A i \in DOMAIN u : f[i] \in DOMAIN queue /\ u[i] = queue[f[i]] /\ Current(s, u[i])
      /\ \A i, j \in DOMAIN u : i < j => f[i] < f[j]
  BY <1>2, <1>3, Zenon DEF Selects
<1>5. ASSUME NEW i \in DOMAIN u, NEW j \in DOMAIN u, i # j
      PROVE  f[i] # f[j]
  <2>1. i < j \/ j < i
    BY <1>3, <1>5
  <2>2. f[i] \in Nat /\ f[j] \in Nat
    BY <1>3, <1>4
  <2> QED
    BY <1>4, <2>1, <2>2
<1>6. QueueKnows(t, u, onWire)
  BY <1>3, <1>4, <1>5 DEF QueueKnows
<1>7. ASSUME NEW w, HandKnows(t, queue, onWire, w)
      PROVE  HandKnows(t, u, onWire, w)
  BY <1>4, <1>7, Zenon DEF HandKnows
<1> QED
  BY <1>4, <1>6, <1>7, Zenon DEF u

\* An entry that is taken out of the queue is there no more.
LEMMA RemovedKnows ==
  ASSUME NEW s, NEW q, NEW onWire, QueueKnows(s, q, onWire), NEW k \in DOMAIN q
  PROVE  LET r == Without(q, k)
         IN  /\ QueueKnows(s, r, onWire)
             /\ HandKnows(s, r, onWire, q[k])
             /\ \A w : HandKnows(s, q, onWire, w) => HandKnows(s, r, onWire, w)
<1> DEFINE r == Without(q, k)
           f(i) == IF i < k THEN i ELSE i + 1
<1>1. q \in Seq(Entries) /\ DOMAIN q = 1 .. Len(q) /\ Len(q) \in Nat /\ k \in 1 .. Len(q)
  BY SMTT(30) DEF QueueKnows
<1>2. /\ r \in Seq(Entries) /\ Len(r) = Len(q) - 1
      /\ \A i \in DOMAIN r : r[i] = IF i < k THEN q[i] ELSE q[i + 1]
  BY <1>1, Removed, Zenon
<1> HIDE DEF r
<1>3. DOMAIN r = 1 .. (Len(q) - 1)
  BY <1>1, <1>2
<1>4. ASSUME NEW i \in DOMAIN r
      PROVE  f(i) \in DOMAIN q /\ f(i) # k /\ r[i] = q[f(i)]
  <2>1. f(i) \in 1 .. Len(q) /\ f(i) # k
    BY <1>1, <1>3
  <2> QED
    BY <1>1, <1>2, <2>1, Zenon
<1>5. ASSUME NEW i \in DOMAIN r, NEW j \in DOMAIN r, i # j
      PROVE  f(i) # f(j)
  BY <1>1, <1>3, <1>5
<1> HIDE DEF f
<1>6. QueueKnows(s, r, onWire)
  BY <1>2, <1>4, <1>5 DEF QueueKnows
<1>7. q[k] \in Entries
  BY <1>1
<1>8. HandKnows(s, r, onWire, q[k])
  BY <1>4, <1>7, ZenonT(40) DEF QueueKnows, HandKnows
<1>9. ASSUME NEW w, HandKnows(s, q, onWire, w)
      PROVE  HandKnows(s, r, onWire, w)
  BY <1>4, <1>9 DEF HandKnows
<1> QED
  BY <1>6, <1>8, <1>9, Zenon DEF r

\* The write in hand may join the queue.
LEMMA AppendedKnows ==
  ASSUME NEW s, NEW q, NEW onWire, QueueKnows(s, q, onWire), NEW w, HandKnows(s, q, onWire, w)
  PROVE  QueueKnows(s, Append(q, w), onWire)
<1> DEFINE r == Append(q, w)
<1>1. q \in Seq(Entries) /\ w \in Entries
  BY DEF QueueKnows, HandKnows
<1>2. /\ r \in Seq(Entries) /\ Len(r) = Len(q) + 1 /\ Len(q) \in Nat
      /\ DOMAIN q = 1 .. Len(q) /\ DOMAIN r = 1 .. (Len(q) + 1)
      /\ \A i \in 1 .. Len(q) : r[i] = q[i]
      /\ r[Len(q) + 1] = w
  BY <1>1
<1> HIDE DEF r
<1>3. \A i \in DOMAIN r : i \in DOMAIN q \/ i = Len(q) + 1
  BY <1>2
<1>4. \A i \in DOMAIN r : Motor(r[i]) => Remembers(s, r[i]) /\ r[i].sequence # onWire
  BY <1>2, <1>3, Zenon DEF QueueKnows, HandKnows
<1>5. \A i, j \in DOMAIN r :
        i # j /\ Motor(r[i]) /\ Motor(r[j]) => r[i].sequence # r[j].sequence
  BY <1>2, <1>3, ZenonT(40) DEF QueueKnows, HandKnows
<1> QED
  BY <1>2, <1>4, <1>5 DEF QueueKnows, r

\* FirstOf and LastOf find an entry of the kind, if there is one.
LEMMA FirstOfFacts ==
  ASSUME NEW q \in Seq(Entries), NEW kind
  PROVE  \/ FirstOf(q, kind) = 0
         \/ FirstOf(q, kind) \in DOMAIN q /\ q[FirstOf(q, kind)].kind = kind
<1> DEFINE found == {i \in DOMAIN q : q[i].kind = kind}
<1>1. CASE found = {}
  BY <1>1 DEF FirstOf
<1>2. CASE found # {}
  <2>1. found \in SUBSET Nat
    OBVIOUS
  <2>2. \E i \in found : \A j \in found : i <= j
    BY <1>2, <2>1, LeastNumber, Zenon
  <2>3. FirstOf(q, kind) \in found
    BY <1>2, <2>2, Zenon DEF FirstOf
  <2> QED
    BY <2>3
<1> QED
  BY <1>1, <1>2

\* LastOf finds an entry of the kind when there is one.
LEMMA LastOfFacts ==
  ASSUME NEW q \in Seq(Entries), NEW kind
  PROVE  \/ LastOf(q, kind) = 0 /\ \A i \in DOMAIN q : q[i].kind # kind
         \/ LastOf(q, kind) \in DOMAIN q /\ q[LastOf(q, kind)].kind = kind
<1> DEFINE found == {i \in DOMAIN q : q[i].kind = kind}
<1>1. CASE found = {}
  BY <1>1 DEF LastOf
<1>2. CASE found # {}
  <2> DEFINE T == {n \in Nat : \E i \in found : i + n = Len(q)}
  <2>1. Len(q) \in Nat /\ \A i \in found : i \in Nat /\ Len(q) - i \in Nat
    OBVIOUS
  <2>2. PICK k \in found : TRUE
    BY <1>2
  <2> HIDE DEF found
  <2>3. ASSUME NEW j \in found
        PROVE  Len(q) - j \in T
    <3>1. j + (Len(q) - j) = Len(q)
      BY <2>1
    <3> QED
      BY <2>1, <3>1
  <2>4. Len(q) - k \in T
    BY <2>3
  <2>5. PICK n \in T : \A m \in T : n <= m
    <3>1. T \in SUBSET Nat /\ T # {}
      BY <2>4
    <3> QED
      BY <3>1, LeastNumber, Zenon
  <2>6. PICK i \in found : i + n = Len(q)
    BY <2>5
  <2>7. ASSUME NEW j \in found
        PROVE  j <= i
    <3>1. Len(q) - j \in T
      BY <2>3
    <3>2. n <= Len(q) - j
      BY <2>5, <3>1
    <3> QED
      BY <2>1, <2>5, <2>6, <3>2, SMTT(30)
  <2>8. LastOf(q, kind) \in found
    BY <1>2, <2>6, <2>7, Zenon DEF LastOf, found
  <2> QED
    BY <2>8 DEF found
<1> QED
  BY <1>1, <1>2

\* flush takes an entry of the queue.
LEMMA ChosenFacts ==
  ASSUME NEW q \in Seq(Entries), q # <<>>
  PROVE  Chosen(q) \in DOMAIN q
<1>1. 1 \in DOMAIN q
  OBVIOUS
<1> QED
  BY <1>1, FirstOfFacts DEF Chosen

\* A full queue gives up an entry of its own, or none.
LEMMA DisplacedFacts ==
  ASSUME NEW q \in Seq(Entries), NEW w
  PROVE  Displaced(q, w) = 0 \/ Displaced(q, w) \in DOMAIN q
BY LastOfFacts DEF Displaced

-----------------------------------------------------------------------------
(* What the Bluetooth queue checks before it hands a write over. *)

\* A motor write that is current is the pending one.
LEMMA CurrentIsPending ==
  ASSUME NEW s, NEW w, Motor(w), Remembers(s, w), Current(s, w)
  PROVE  TransportIsCurrent(s, w, now) /\ s.pending = w
<1>1. TransportIsCurrent(s, w, now)
  BY DEF Motor, Current
<1>2. s.pending # None /\ s.pending.sequence = w.sequence
  BY <1>1 DEF TransportIsCurrent
<1> QED
  BY <1>1, <1>2 DEF Remembers

\* So nothing is discarded while it is.
LEMMA DiscardedCurrent ==
  ASSUME NEW s, NEW onWire, QueueKnows(s, queue, onWire),
         NEW w, Motor(w), Remembers(s, w), Current(s, w)
  PROVE  Discarded(s) = s
<1> DEFINE expired == {x \in Waiting : x.kind # "Ordinary" /\ ~Current(s, x)}
           mine    == {x \in expired : s.pending # None /\ s.pending.sequence = x.sequence}
<1>1. s.pending = w
  BY CurrentIsPending
<1>2. ASSUME NEW x \in mine
      PROVE  FALSE
  <2>1. /\ x \in Waiting /\ Motor(x) /\ ~Current(s, x)
        /\ s.pending # None /\ s.pending.sequence = x.sequence
    BY DEF Motor
  <2>2. PICK i \in DOMAIN queue : x = queue[i]
    BY <2>1, Zenon DEF Waiting
  <2>3. Remembers(s, x)
    BY <2>1, <2>2, Zenon DEF QueueKnows
  <2>4. x = w
    BY <1>1, <2>1, <2>3, Zenon DEF Remembers
  <2> QED
    BY <2>1, <2>4, Zenon
<1>3. mine = {}
  BY <1>2, Zenon
<1> QED
  BY <1>3 DEF Discarded

\* It may be handed over.
LEMMA CurrentIsRight ==
  ASSUME NEW s, NEW l, NEW n, Coherent(s, l, n), NEW onWire, WireKnows(s, onWire),
         NEW q, NEW w, HandKnows(s, q, onWire, w), Current(s, w)
  PROVE  HandIsRight(s, l, onWire, w)
<1>1. CASE ~Motor(w)
  BY <1>1 DEF Motor, HandIsRight
<1>2. CASE Motor(w)
  <2>1. Remembers(s, w) /\ w.sequence # onWire
    BY <1>2 DEF HandKnows
  <2>2. TransportIsCurrent(s, w, now) /\ s.pending = w
    BY <1>2, <2>1, CurrentIsPending, Zenon
  <2>3. w \in Writes /\ w # None /\ s.next_sequence \in Nat /\ w.sequence \in Nat /\ onWire \in Nat
    BY <2>1, ControlAssumption DEF Remembers, Coherent, Sessions, Writes, WireKnows
  <2>4. w.sequence > onWire
    <3>1. w.sequence = s.next_sequence /\ onWire <= s.next_sequence
      BY <2>2, <2>3, Zenon DEF Coherent, WireKnows
    <3> QED
      BY <2>1, <2>3, <3>1
  <2>5. ASSUME w.kind = "Setpoint"
        PROVE  /\ Driving(s) /\ s.input.gesture.action = w.action
               /\ s.input.generation = w.generation
               /\ l = w.generation
               /\ w.budget = s.limits
               /\ s.presented = None
    <3>1. /\ s.activation # None /\ s.activation.id = w.activation
          /\ s.input.generation = w.generation
          /\ Held(s) /\ s.input.gesture.action = w.action
          /\ s.attempt = w.token /\ s.presented # w.token
      BY <2>2, <2>5, Zenon DEF TransportIsCurrent, IsVerified
    <3>2. w.budget = s.limits
      BY <2>1, <2>5, <3>1, Zenon DEF Remembers, Issued, Coherent
    <3>3. l = s.input.generation
      BY <3>1, Zenon DEF Coherent, InputKnows, Held
    <3>4. s.presented = None
      BY <3>1 DEF Coherent
    <3> QED
      BY <3>1, <3>2, <3>3, <3>4, Zenon DEF Driving
  <2> QED
    BY <2>4, <2>5 DEF HandIsRight
<1> QED
  BY <1>1, <1>2

\* A receipt for a write that is not the pending one changes nothing.
LEMMA MarkOther ==
  ASSUME NEW s, NEW w, Remembers(s, w), s.pending = None \/ ~s.pending.emitted,
         NEW status, NEW n
  PROVE  Mark(s, w, status, n) = s
<1>1. s.pending = None \/ s.pending.sequence # w.sequence
  BY DEF Remembers
<1> QED
  BY <1>1 DEF Mark

-----------------------------------------------------------------------------
(* The action properties, for one step. *)

HoldStep ==
  HoldEnds => \/ ReleasePending(session') \/ Exhausted(session')
              \/ late' /\ session.last_input_at + SubmissionWindow <= now

NeutralStep ==
  LET p == session.pending
      q == session'.pending
  IN  /\ ReleasePending(session)
      /\ q = None \/ q.sequence # p.sequence \/ q.submit_before # p.submit_before
      => \/ ~session'.verified
         \/ q = None /\ wire' # wire /\ wire' = p.sequence
         \/ q = None /\ session'.activation = None
            /\ session'.input.gesture.phase = "Cancelled"

\* A call that releases keeps the promise about the end of a hold.
LEMMA ReleasesHold ==
  ASSUME \/ Releases(session, session')
         \/ late' /\ session.last_input_at + SubmissionWindow <= now
  PROVE  HoldStep
BY DEF Releases, HoldStep, HoldEnds, Owed

\* A call that settles keeps the promise about a pending neutral.
LEMMA SettlesNeutral ==
  ASSUME Settles(session, session')
  PROVE  NeutralStep
BY DEF Settles, NeutralStep, ReleasePending

\* What the places of a write know, after a call.
LEMMA PlacesKnow ==
  ASSUME DInv, NEW t, NEW l, NEW n, Coherent(t, l, n), Goes(session, t)
  PROVE  /\ t.pending # None => Issued(t.pending, t)
         /\ QueueKnows(t, queue, wire) /\ WireKnows(t, wire)
         /\ ble.pc \in {"offer", "hand"} => HandKnows(t, queue, wire, ble.write)
<1>1. session \in Sessions /\ t \in Sessions
  BY DEF DInv, Coherent
<1>2. t.pending # None => Issued(t.pending, t)
  BY <1>1, GoesPending, Zenon DEF DInv
<1> QED
  BY <1>1, <1>2, GoesKnows, Zenon DEF DInv

\* The end of a handler without a write to offer.
LEMMA ContinueFacts ==
  ASSUME NEW s, NEW flush \in BOOLEAN, NEW can, Continue(s, flush, can)
  PROVE  ble' \in BleType /\ ble'.pc \in {"rest", "flush"}
<1>1. AtRest \in BleType /\ [AtRest EXCEPT !.pc = "flush", !.flush = TRUE] \in BleType
  BY Zenon DEF AtRest, BleType
<1>2. AtRest.pc = "rest" /\ [AtRest EXCEPT !.pc = "flush", !.flush = TRUE].pc = "flush"
  BY DEF AtRest
<1> QED
  BY <1>1, <1>2, Zenon DEF Continue

\* The end of a handler that called Rust: the session is t, and its write is offered.
LEMMA FinishFacts ==
  ASSUME DInv, NEW t, Coherent(t, lifted', now), Goes(session, t), NEW can, NEW flush \in BOOLEAN,
         NEW offers, offers => Emits(t, now, can), Finish(t, offers, flush),
         UNCHANGED <<queue, now, wire, settings>>
  PROVE  /\ DInv'
         /\ Settles(session, t) => Settles(session, session')
         /\ Releases(session, t) => Releases(session, session')
<1>1. /\ t.pending # None => Issued(t.pending, t)
      /\ QueueKnows(t, queue, wire) /\ WireKnows(t, wire)
  BY PlacesKnow, Zenon
<1>2. /\ now' \in Nat /\ queue' = queue /\ wire' = wire /\ now' = now
      /\ saved' \in [mode : Modes, limits : Budgets]
      /\ sheet' # None => sheet'.record \in [mode : Modes, limits : Budgets] /\ sheet'.token \in Nat
  BY Zenon DEF DInv, settings
<1>3. CASE ~offers
  <2>1. session' = t /\ Continue(t, flush, ready.can)
    BY <1>3, Zenon DEF Finish
  <2>2. ble' \in BleType /\ ble'.pc \in {"rest", "flush"}
    BY <2>1, ContinueFacts, Zenon
  <2> QED
    BY <1>1, <1>2, <2>1, <2>2, Zenon DEF DInv
<1>4. CASE offers
  <2> DEFINE e == Emitted(t)
  <2>1. /\ session' = e
        /\ ble' = [AtRest EXCEPT !.pc = "offer", !.write = e.pending, !.flush = flush]
    BY <1>4, Zenon DEF Finish
  <2>2. t.pending # None /\ ~t.pending.emitted
    BY <1>4, Zenon DEF Emits
  <2>3. /\ Coherent(e, lifted', now) /\ SameControl(t, e) /\ Remembers(e, e.pending)
        /\ e.pending \in Writes /\ e.pending.emitted
        /\ e.pending.sequence = t.pending.sequence /\ e.pending.kind = t.pending.kind
        /\ e.pending.submit_before = t.pending.submit_before
        /\ \A w : Remembers(t, w) => Remembers(e, w) /\ w.sequence # e.pending.sequence
    BY <1>1, <2>2, EmittedFacts, Zenon
  <2> HIDE DEF e
  <2>4. /\ ble' \in BleType /\ ble'.pc = "offer" /\ ble'.write = e.pending
    BY <2>1, <2>3, ZenonT(40) DEF BleType, AtRest, Entries
  <2>5. e.pending # None
    BY <2>3, NoneIsNothing, Zenon
  <2>6. QueueKnows(e, queue, wire)
    BY <1>1, <2>3, Zenon DEF QueueKnows
  <2>7. WireKnows(e, wire) /\ wire # e.pending.sequence
    BY <1>1, <2>2, <2>3, Zenon DEF WireKnows, SameControl
  <2>8. HandKnows(e, queue, wire, e.pending)
    BY <1>1, <2>3, <2>7, Zenon DEF HandKnows, QueueKnows, Entries
  <2>9. DInv'
    BY <1>2, <2>1, <2>3, <2>4, <2>6, <2>7, <2>8, ZenonT(40) DEF DInv, Remembers
  <2>10. Settles(session, t) => Settles(session, e)
    BY <2>2, <2>3, <2>5, Zenon DEF Settles, ReleasePending, SameControl
  <2>11. Releases(session, t) => Releases(session, e)
    BY <2>2, <2>3, <2>5, Zenon
    DEF Releases, Driving, Held, Owed, ReleasePending, Exhausted, SameControl
  <2> QED
    BY <2>1, <2>9, <2>10, <2>11, ZenonT(40)
<1> QED
  BY <1>3, <1>4

-----------------------------------------------------------------------------
(* The actions: each keeps the invariant and takes a step of the two properties. *)

Kept == DInv' /\ HoldStep /\ NeutralStep

\* The start of the application.
LEMMA InitDInv ==
  ASSUME Init
  PROVE  DInv
<1>1. InitialInput \in InputType /\ InputKnows(InitialInput, None)
  <2>1. 1 \in Generations /\ Idle \in GestureType /\ "Disabled" \in Modes
    BY InputAssumption DEF Generations, Idle, GestureType, Modes
  <2>2. InitialInput \in InputType
    BY <2>1 DEF InitialInput, InputType
  <2> QED
    BY <2>1, <2>2, NoneIsNothing, Zenon DEF InitialInput, InputKnows, Idle
<1>2. session \in Sessions
  BY <1>1, ControlAssumption, Zenon DEF Init, InitialSession, Sessions
<1>3. /\ session.pending = None /\ session.activation = None /\ session.presented = None
      /\ session.input = InitialInput /\ session.next_sequence = 0 /\ session.last_input_at = 0
  BY DEF Init, InitialSession
<1>4. Coherent(session, lifted, now)
  <2>1. lifted = None /\ now = 0 /\ 0 <= LastSequence
    BY ControlAssumption DEF Init
  <2> QED
    BY <1>1, <1>2, <1>3, <2>1 DEF Coherent, ReleasePending
<1>5. ble \in BleType /\ ble.pc = "rest"
  BY DEF Init, AtRest, BleType
<1>6. WireKnows(session, wire) /\ QueueKnows(session, queue, wire)
  BY <1>3 DEF Init, WireKnows, QueueKnows
<1> QED
  BY <1>3, <1>4, <1>5, <1>6, Zenon DEF Init, DInv

\* A step that leaves the session and the writes alone.
LEMMA QuietKept ==
  ASSUME DInv, UNCHANGED <<session, ble, queue, wire, lifted, now>>,
         saved' \in [mode : Modes, limits : Budgets],
         sheet' # None => sheet'.record \in [mode : Modes, limits : Budgets] /\ sheet'.token \in Nat
  PROVE  Kept
<1>1. DInv'
  BY DEF DInv
<1>2. HoldStep /\ NeutralStep
  BY DEF HoldStep, NeutralStep, HoldEnds, ReleasePending
<1> QED
  BY <1>1, <1>2, Zenon DEF Kept

\* A call of a handler that has no write in hand, or of another thread.
LEMMA CallKept ==
  ASSUME DInv, Proper(session, session', lifted, now), UNCHANGED <<queue, wire, lifted, now, ble>>,
         Rest \/ Interferes(session, session'),
         saved' \in [mode : Modes, limits : Budgets],
         sheet' # None => sheet'.record \in [mode : Modes, limits : Budgets] /\ sheet'.token \in Nat
  PROVE  Kept
<1>1. /\ session'.pending # None => Issued(session'.pending, session')
      /\ QueueKnows(session', queue, wire) /\ WireKnows(session', wire)
      /\ ble.pc \in {"offer", "hand"} => HandKnows(session', queue, wire, ble.write)
  BY PlacesKnow, Zenon DEF Proper
<1>2. ble.pc = "hand" => HandIsRight(session', lifted, wire, ble.write)
  BY InterferesFacts, Zenon DEF DInv, Rest
<1>3. DInv'
  BY <1>1, <1>2, ZenonT(40) DEF DInv, Proper
<1>4. HoldStep /\ NeutralStep
  BY ReleasesHold, SettlesNeutral, Zenon DEF Proper
<1> QED
  BY <1>3, <1>4, Zenon DEF Kept

\* A new attempt resets control.
LEMMA ConnectKept ==
  ASSUME DInv, Connect
  PROVE  Kept
<1> DEFINE c == CancelConnection(session)
           m == c.attempt + 1
           t == [c EXCEPT !.attempt = m, !.verified = TRUE, !.eligible = TRUE,
                          !.last_input_at = now]
<1>1. /\ session \in Sessions /\ Coherent(session, lifted, now) /\ now \in Nat
      /\ session.next_sequence \in Nat /\ session.next_activation \in Nat
  BY Zenon DEF DInv, Coherent, Sessions
<1>2. session' = t /\ ~session.verified
  BY Zenon DEF Connect
<1>3. /\ c \in Sessions /\ c.activation = None /\ c.pending = None /\ c.presented = None
      /\ c.input.gesture.phase = "Cancelled" /\ \A l : InputKnows(c.input, l)
      /\ c.attempt = session.attempt /\ c.next_sequence = session.next_sequence
      /\ c.next_activation = session.next_activation /\ c.last_input_at = session.last_input_at
  BY <1>1, CancelConnectionFacts, Zenon
<1> HIDE DEF c
<1>4. m \in Nat
  BY <1>3 DEF Sessions
<1> HIDE DEF m
<1>5. t \in Sessions
  BY <1>1, <1>3, <1>4, ZenonT(40) DEF Sessions
<1>6. /\ t.activation = None /\ t.pending = None /\ t.presented = None /\ t.input = c.input
      /\ t.next_sequence = c.next_sequence /\ t.next_activation = c.next_activation
      /\ t.last_input_at = now
  BY <1>3, Zenon DEF Sessions
<1> HIDE DEF t
<1>7. /\ now <= now /\ session.next_sequence <= session.next_sequence
      /\ session.next_activation <= session.next_activation
  BY <1>1
<1>8. Coherent(t, lifted, now)
  BY <1>1, <1>3, <1>5, <1>6, <1>7, Zenon DEF Coherent, ReleasePending
<1>9. Goes(session, t)
  BY <1>3, <1>6, <1>7, Zenon DEF Goes
<1>10. Settles(session, t) /\ Releases(session, t)
  BY <1>1, <1>2, Zenon DEF Settles, Releases, Coherent, ReleasePending, Driving
<1>11. Proper(session, session', lifted, now)
  BY <1>2, <1>8, <1>9, <1>10, Zenon DEF Proper
<1> QED
  BY <1>11, CallKept, Zenon DEF Connect, native, settings, transport, DInv

\* The end of a connection, with or without the native queue.
LEMMA LinkDownKept ==
  ASSUME DInv, NEW clears \in BOOLEAN, LinkDown(clears)
  PROVE  Kept
<1> DEFINE c == CancelConnection(session)
           t == [c EXCEPT !.verified = FALSE, !.eligible = FALSE]
<1>1. /\ session \in Sessions /\ Coherent(session, lifted, now)
      /\ session.next_sequence \in Nat /\ session.next_activation \in Nat
  BY DEF DInv, Coherent, Sessions
<1>2. session' = t /\ Rest /\ UNCHANGED <<ble, now, wire, lifted, sheet, saved>>
  BY Zenon DEF LinkDown, settings
<1>3. /\ c \in Sessions /\ c.activation = None /\ c.pending = None /\ c.presented = None
      /\ c.input.gesture.phase = "Cancelled" /\ \A l : InputKnows(c.input, l)
      /\ c.attempt = session.attempt /\ c.next_sequence = session.next_sequence
      /\ c.next_activation = session.next_activation /\ c.last_input_at = session.last_input_at
  BY <1>1, CancelConnectionFacts, Zenon
<1> HIDE DEF c
<1>4. t \in Sessions
  BY <1>3, ZenonT(40) DEF Sessions
<1>5. /\ t.activation = None /\ t.pending = None /\ t.presented = None /\ t.input = c.input
      /\ t.next_sequence = c.next_sequence /\ t.next_activation = c.next_activation
      /\ t.last_input_at = c.last_input_at /\ t.verified = FALSE
  BY <1>3, Zenon DEF Sessions
<1> HIDE DEF t
<1>6. Coherent(t, lifted, now)
  BY <1>1, <1>3, <1>4, <1>5, Zenon DEF Coherent, ReleasePending
<1>7. /\ session.next_sequence <= session.next_sequence
      /\ session.next_activation <= session.next_activation
  BY <1>1
<1>8. Goes(session, t)
  BY <1>3, <1>5, <1>7, Zenon DEF Goes
<1>9. /\ QueueKnows(session', queue, wire) /\ WireKnows(session', wire)
  BY <1>2, <1>6, <1>8, PlacesKnow, Zenon
<1>10. QueueKnows(session', queue', wire)
  <2>1. queue' = <<>> \/ queue' = queue
    BY DEF LinkDown
  <2>2. <<>> \in Seq(Entries) /\ DOMAIN <<>> = {}
    OBVIOUS
  <2>3. QueueKnows(session', <<>>, wire)
    BY <2>2, Zenon DEF QueueKnows
  <2> QED
    BY <1>9, <2>1, <2>3, Zenon
<1>11. DInv'
  BY <1>2, <1>5, <1>6, <1>9, <1>10, Zenon DEF DInv, Rest
<1>12. HoldStep /\ NeutralStep
  BY <1>2, <1>5, Zenon DEF HoldStep, NeutralStep, HoldEnds
<1> QED
  BY <1>11, <1>12, Zenon DEF Kept

\* A configuration change cancels control, on any thread.
LEMMA ReconfigureKept ==
  ASSUME DInv, Reconfigure
  PROVE  Kept
<1>1. Coherent(session, lifted, now) /\ session' = Cancel(session, "ConfigurationChanged")
  BY Zenon DEF DInv, Reconfigure
<1>2. Proper(session, session', lifted, now) /\ Interferes(session, session')
  BY <1>1, CancelInterferes, Zenon
<1> QED
  BY <1>2, CallKept, ZenonT(40) DEF Reconfigure, native, settings, transport, DInv

\* activatePhoneDrive
LEMMA ActivateDriveKept ==
  ASSUME DInv, NEW generation, NEW busy, ActivateDrive(generation, busy)
  PROVE  Kept
<1>1. /\ Coherent(session, lifted, now) /\ now \in Nat /\ Rest
      /\ session' = Activate(session, session.attempt, generation, busy, now)
  BY Zenon DEF DInv, ActivateDrive
<1>2. Proper(session, session', lifted, now)
  BY <1>1, ActivateFacts, Zenon
<1> QED
  BY <1>1, <1>2, CallKept, ZenonT(40) DEF ActivateDrive, settings, transport, DInv

\* The settings sheet is presented or dismissed.
LEMMA PresentKept ==
  ASSUME DInv, NEW presented, Present(presented)
  PROVE  Kept
<1>1. /\ Coherent(session, lifted, now)
      /\ session' = SetPresented(session, session.attempt, presented)
  BY Zenon DEF DInv, Present
<1>2. Proper(session, session', lifted, now) /\ Interferes(session, session')
  BY <1>1, SetPresentedFacts, Zenon
<1> QED
  BY <1>2, CallKept, ZenonT(40) DEF Present, native, settings, transport, DInv

\* Loads and saves of the settings, and their failures.
LEMMA SheetKept ==
  ASSUME DInv,
         \/ LoadBegins \/ LoadEnds \/ SaveEnds \/ SheetFails
         \/ \E record \in [mode : Modes, limits : Budgets] : SaveBegins(record)
  PROVE  Kept
<1>1. /\ Coherent(session, lifted, now) /\ saved \in [mode : Modes, limits : Budgets]
      /\ sheet # None => sheet.record \in [mode : Modes, limits : Budgets] /\ sheet.token \in Nat
      /\ session.attempt \in Nat
  BY ZenonT(40) DEF DInv, Coherent, Sessions
<1>2. ASSUME NEW token, NEW record \in [mode : Modes, limits : Budgets], Apply(token, record)
      PROVE  Proper(session, session', lifted, now) /\ Interferes(session, session')
  <2>1. record.mode \in Modes /\ record.limits \in Budgets
    OBVIOUS
  <2> QED
    BY <1>1, <1>2, <2>1, ApplyPreferencesFacts, Zenon DEF Apply
<1>3. CASE LoadBegins
  <2>1. UNCHANGED <<session, ble, queue, wire, lifted, now>> /\ saved' = saved
    BY <1>3 DEF LoadBegins, native, transport
  <2>2. sheet' = [kind |-> "load", token |-> session.attempt, generation |-> None, record |-> saved]
    BY <1>3 DEF LoadBegins
  <2>3. sheet'.record = saved /\ sheet'.token = session.attempt
    BY <2>2, SMTT(30)
  <2> QED
    BY <1>1, <2>1, <2>3, QuietKept, Zenon
<1>4. CASE LoadEnds
  <2>1. /\ Apply(sheet.token, saved) /\ sheet' = None /\ saved' = saved
        /\ UNCHANGED <<queue, wire, lifted, now, ble>>
    BY <1>4, Zenon DEF LoadEnds, native, transport
  <2> QED
    BY <1>1, <1>2, <2>1, CallKept, Zenon
<1>5. CASE SaveEnds
  <2>1. /\ sheet # None /\ sheet' = None /\ saved' = sheet.record
        /\ UNCHANGED <<queue, wire, lifted, now, ble>>
        /\ Apply(sheet.token, sheet.record) \/ session' = session
    BY <1>5, Zenon DEF SaveEnds, native, transport
  <2> QED
    BY <1>1, <1>2, <2>1, CallKept, QuietKept, Zenon
<1>6. CASE SheetFails
  <2>1. UNCHANGED <<session, ble, queue, wire, lifted, now>> /\ saved' = saved /\ sheet' = None
    BY <1>6, Zenon DEF SheetFails, native, transport
  <2> QED
    BY <1>1, <2>1, QuietKept, Zenon
<1>7. ASSUME NEW record \in [mode : Modes, limits : Budgets], SaveBegins(record)
      PROVE  Kept
  <2> DEFINE s == Cancel(session, "ActivationChanged")
  <2>1. /\ session' = s /\ saved' = saved /\ UNCHANGED <<queue, wire, lifted, now, ble>>
        /\ \/ sheet' = None
           \/ sheet' = [kind |-> "save", token |-> s.attempt, generation |-> s.input.generation,
                        record |-> record]
    BY <1>7, Zenon DEF SaveBegins, native, transport
  <2>2. Proper(session, s, lifted, now) /\ Interferes(session, s) /\ Cancels(session, s)
    BY <1>1, CancelInterferes, Zenon
  <2>3. s.attempt = session.attempt
    BY <2>2, Zenon DEF Cancels, Keeps
  <2> HIDE DEF s
  <2>4. sheet' # None => sheet'.record = record /\ sheet'.token = s.attempt
    BY <2>1
  <2> QED
    BY <1>1, <2>1, <2>2, <2>3, <2>4, CallKept, ZenonT(40)
<1> QED
  BY <1>3, <1>4, <1>5, <1>6, <1>7, Zenon

\* Steps that leave the session and the writes alone.
LEMMA IdleKept ==
  ASSUME DInv, BecomeReady \/ SubmitOrdinary \/ TimePasses \/ UNCHANGED vars
  PROVE  Kept
<1>1. /\ saved \in [mode : Modes, limits : Budgets]
      /\ sheet # None => sheet.record \in [mode : Modes, limits : Budgets] /\ sheet.token \in Nat
  BY Zenon DEF DInv
<1>2. CASE BecomeReady \/ UNCHANGED vars
  <2>1. UNCHANGED <<session, ble, queue, wire, lifted, now, saved, sheet>>
    BY <1>2 DEF BecomeReady, vars, native, settings, transport
  <2> QED
    BY <1>1, <2>1, QuietKept, ZenonT(40)
<1>3. CASE SubmitOrdinary
  <2>1. /\ UNCHANGED <<session, queue, wire, lifted, now, saved, sheet>>
        /\ ble' = [AtRest EXCEPT !.pc = "offer", !.write = Ordinary(session.attempt)]
    BY <1>3, Zenon DEF SubmitOrdinary, settings
  <2>2. Ordinary(session.attempt) \in Entries /\ ~Motor(Ordinary(session.attempt))
    BY DEF Ordinary, Entries, Motor, DInv, Coherent, Sessions
  <2>3. /\ ble' \in BleType /\ ble'.pc = "offer" /\ ble'.write = Ordinary(session.attempt)
    BY <2>1, <2>2, ZenonT(40) DEF AtRest, BleType
  <2>4. DInv'
    BY <2>1, <2>2, <2>3, Zenon DEF DInv, HandKnows
  <2>5. HoldStep /\ NeutralStep
    BY <2>1, Zenon DEF HoldStep, NeutralStep, HoldEnds, ReleasePending
  <2> QED
    BY <2>4, <2>5, Zenon DEF Kept
<1>4. CASE TimePasses
  <2>1. /\ UNCHANGED <<session, ble, queue, wire, lifted, saved, sheet>>
        /\ now' = now + 1
    BY <1>4, Zenon DEF TimePasses, native, transport, settings
  <2>2. now \in Nat /\ session.last_input_at \in Nat
    BY ZenonT(40) DEF DInv, Coherent, Sessions
  <2>3. Coherent(session, lifted, now + 1) /\ now + 1 \in Nat
    <3>1. session.last_input_at <= now
      BY Zenon DEF DInv, Coherent
    <3>2. session.last_input_at <= now + 1 /\ now + 1 \in Nat
      BY <2>2, <3>1
    <3> QED
      BY <3>2, Zenon DEF DInv, Coherent
  <2>4. DInv'
    BY <2>1, <2>3, Zenon DEF DInv
  <2>5. HoldStep /\ NeutralStep
    BY <2>1, Zenon DEF HoldStep, NeutralStep, HoldEnds, ReleasePending
  <2> QED
    BY <2>4, <2>5 DEF Kept
<1> QED
  BY <1>2, <1>3, <1>4, Zenon

\* ingest: a fault, or a changed route, cancels control.
LEMMA IngestKept ==
  ASSUME DInv, NEW fault \in BOOLEAN, NEW eligible \in BOOLEAN, Ingest(fault, eligible)
  PROVE  Kept
<1> DEFINE h == [session EXCEPT !.last_input_at = now, !.fault = fault]
           f == IF fault THEN Cancel(h, "ControllerFault") ELSE h
           g == [f EXCEPT !.eligible = eligible]
           c == Cancel(g, "ConfigurationChanged")
<1>1. /\ session \in Sessions /\ Coherent(session, lifted, now) /\ now \in Nat
      /\ session.last_input_at \in Nat /\ session.last_input_at <= now
      /\ session.presented \in {None, session.attempt}
  BY Zenon DEF DInv, Coherent, Sessions
<1>2. Later(session.last_input_at, now) = now
  BY <1>1 DEF Later
<1>3. Rest /\ (session' = f \/ session' = c)
  BY <1>2 DEF Ingest
<1>4. /\ h \in Sessions /\ SameControl(session, h) /\ h.pending = session.pending
      /\ h.presented = session.presented /\ h.attempt = session.attempt /\ h.last_input_at = now
  BY <1>1, ZenonT(40) DEF Sessions, SameControl
<1>5. h.presented \in {None, h.attempt} /\ h.last_input_at <= now
  BY <1>1, <1>4
<1> HIDE DEF h
<1>6. Proper(session, f, lifted, now) /\ (ReleasePending(session) => f.pending = session.pending)
  <2>1. CASE fault
    <3>1. Cancels(h, f) /\ Proper(session, f, lifted, now)
      BY <1>1, <1>4, <1>5, <2>1, CancelLateFacts, ZenonT(40)
    <3> HIDE DEF f
    <3>2. ReleasePending(session) => f.pending = session.pending
      BY <1>4, <3>1, Zenon DEF Cancels, ReleasePending
    <3> QED
      BY <3>1, <3>2, ZenonT(40)
  <2>2. CASE ~fault
    <3>1. f = h
      BY <2>2, Zenon
    <3>2. Proper(session, h, lifted, now)
      BY <1>1, <1>4, <1>5, SameControlFacts, ZenonT(40)
    <3> QED
      BY <1>4, <3>1, <3>2, Zenon
  <2> QED
    BY <2>1, <2>2
<1> HIDE DEF f
<1>7. /\ f \in Sessions /\ Coherent(f, lifted, now)
      /\ f.presented \in {None, f.attempt} /\ f.last_input_at <= now
  BY <1>6 DEF Proper, Coherent
<1>8. /\ g \in Sessions /\ SameControl(f, g) /\ g.pending = f.pending
      /\ g.presented = f.presented /\ g.attempt = f.attempt
      /\ g.last_input_at = f.last_input_at
  BY <1>7 DEF Sessions, SameControl
<1>9. g.presented \in {None, g.attempt} /\ g.last_input_at <= now
  BY <1>7, <1>8, Zenon
<1> HIDE DEF g
<1>10. /\ Cancels(g, c) /\ Proper(f, c, lifted, now)
       /\ Exhausted(f) => Exhausted(c)
       /\ f.activation # None => Owed(c)
  BY <1>7, <1>8, <1>9, CancelLateFacts, ZenonT(40)
<1> HIDE DEF c
<1>11. Proper(session, c, lifted, now)
  <2>1. Goes(session, c)
    BY <1>1, <1>6, <1>7, <1>10, GoesTransitive, ZenonT(40) DEF Proper, Cancels
  <2>2. Settles(session, c)
    BY <1>6, <1>10, ZenonT(40) DEF Proper, Settles, ReleasePending
  <2>3. ReleasePending(f) => ReleasePending(c)
    BY <1>8, <1>10, Zenon DEF Cancels, ReleasePending
  <2>4. Releases(session, c)
    BY <1>6, <1>10, <2>3, Zenon DEF Proper, Releases, Driving, Owed
  <2> QED
    BY <1>10, <2>1, <2>2, <2>4, Zenon DEF Proper
<1>12. Proper(session, session', lifted, now)
  BY <1>3, <1>6, <1>11, Zenon
<1> QED
  BY <1>3, <1>12, CallKept, Zenon DEF Ingest, settings, transport, DInv

\* observePhoneDriveContacts
LEMMA TouchKept ==
  ASSUME DInv, NEW generation \in KnownGenerations, NEW contacts \in Contacts,
         NEW observed \in 0 .. now, Touch(generation, contacts, observed)
  PROVE  Kept
<1> DEFINE s == ObserveContacts(session, session.attempt, generation, contacts, observed, now)
           offers == /\ Admits(session, session.attempt)
                     /\ session.input.generation = generation
                     /\ Emits(s, now, TRUE)
<1>1. Coherent(session, lifted, now) /\ now \in Nat
  BY Zenon DEF DInv
<1>2. generation # None /\ observed \in Nat
  <2>1. 0 # None
    BY InputAssumption
  <2>2. generation # None
    BY <2>1, Zenon DEF KnownGenerations
  <2>3. observed \in Nat
    BY <1>1
  <2> QED
    BY <2>2, <2>3
<1>3. /\ Finish(s, offers, FALSE) /\ UNCHANGED <<queue, now, wire, settings>>
      /\ lifted' = IF contacts.kind = "Released" /\ s.input.gesture = Idle
                   THEN s.input.generation ELSE lifted
  BY Zenon DEF Touch, transport
<1>4. /\ Coherent(s, IF contacts.kind = "Released" /\ s.input.gesture = Idle
                     THEN s.input.generation ELSE lifted, now)
      /\ Goes(session, s) /\ Settles(session, s)
      /\ \/ Releases(session, s)
         \/ StaleObservation(session, observed, now)
            /\ session.last_input_at + SubmissionWindow <= now
  BY <1>1, <1>2, ObserveContactsFacts, Zenon
<1>5. offers => Emits(s, now, TRUE)
  BY Zenon
<1> HIDE DEF s, offers
<1>6. Coherent(s, lifted', now)
  BY <1>3, <1>4, Zenon
<1>7. /\ DInv'
      /\ Settles(session, s) => Settles(session, session')
      /\ Releases(session, s) => Releases(session, session')
  BY <1>3, <1>4, <1>5, <1>6, FinishFacts, ZenonT(40)
<1>8. late' = (Driving(session) /\ StaleObservation(session, observed, now))
  BY Zenon DEF Touch
<1>9. Releases(session, session') \/ (late' /\ session.last_input_at + SubmissionWindow <= now)
  BY <1>4, <1>7, <1>8, Zenon DEF Releases
<1> QED
  BY <1>4, <1>7, <1>9, ReleasesHold, SettlesNeutral, Zenon DEF Kept

\* advancePhoneDrive after a call that took the session to s.
LEMMA AdvanceKept ==
  ASSUME DInv, NEW s, Proper(session, s, lifted, now), Advance(s), lifted' = lifted,
         UNCHANGED <<queue, now, wire, settings>>,
         ReleasePending(session) => s.pending = session.pending,
         Driving(session) => \/ Driving(s) \/ Exhausted(s)
                             \/ ReleasePending(s) /\ now < s.pending.submit_before
  PROVE  Kept
<1> DEFINE t == Tick(s, s.attempt, now, ready.can)
           offers == IsVerified(s, s.attempt) /\ Emits(t, now, ready.can)
<1>1. now \in Nat /\ Coherent(s, lifted, now) /\ session \in Sessions /\ s \in Sessions
  BY ZenonT(40) DEF DInv, Proper, Coherent
<1>2. Finish(t, offers, FALSE)
  BY ZenonT(40) DEF Advance
<1>3. Advances(s, t, lifted, now)
  BY <1>1, TickFacts, Zenon
<1>4. offers => Emits(t, now, ready.can)
  BY Zenon
<1> HIDE DEF t, offers
<1>5. Coherent(t, lifted', now) /\ t \in Sessions
  BY <1>3, ZenonT(40) DEF Advances, Proper, Coherent
<1>6. Goes(session, t)
  BY <1>1, <1>3, <1>5, GoesTransitive, Zenon DEF Proper, Advances
<1>7. Settles(session, t)
  BY <1>3, ZenonT(40) DEF Advances, Proper, Settles, ReleasePending
<1>8. Releases(session, t)
  BY <1>3, ZenonT(40) DEF Advances, Proper, Releases, Owed
<1>9. /\ DInv'
      /\ Settles(session, t) => Settles(session, session')
      /\ Releases(session, t) => Releases(session, session')
  BY <1>2, <1>4, <1>5, <1>6, FinishFacts, ZenonT(40)
<1> QED
  BY <1>7, <1>8, <1>9, ReleasesHold, SettlesNeutral, Zenon DEF Kept

\* cancelPhoneDrive
LEMMA CancelDriveKept ==
  ASSUME DInv, NEW reason, CancelDrive(reason)
  PROVE  Kept
<1> DEFINE c == CancelAt(session, reason, now)
<1>1. /\ session \in Sessions /\ Coherent(session, lifted, now) /\ now \in Nat
      /\ session.last_input_at <= now /\ session.presented \in {None, session.attempt}
  BY Zenon DEF DInv, Coherent
<1>2. SameControl(session, session)
  BY SMTT(30) DEF SameControl
<1>3. /\ Proper(session, c, lifted, now)
      /\ ReleasePending(session) => c.pending = session.pending
      /\ Driving(session) => \/ Exhausted(c)
                             \/ ReleasePending(c) /\ now < c.pending.submit_before
  BY <1>1, <1>2, CancelAtFacts, Zenon
<1>4. Advance(c) /\ lifted' = lifted /\ UNCHANGED <<queue, now, wire, settings>>
  BY SMTT(30) DEF CancelDrive, transport
<1> HIDE DEF c
<1> QED
  BY <1>3, <1>4, AdvanceKept, Zenon

\* handleTimer
LEMMA HandleTimerKept ==
  ASSUME DInv, HandleTimer
  PROVE  Kept
<1>1. /\ session \in Sessions /\ Coherent(session, lifted, now)
      /\ session.last_input_at <= now /\ session.presented \in {None, session.attempt}
  BY Zenon DEF DInv, Coherent
<1>2. SameControl(session, session)
  BY SMTT(30) DEF SameControl
<1>3. Proper(session, session, lifted, now)
  BY <1>1, <1>2, SameControlFacts, Zenon
<1>4. Advance(session) /\ lifted' = lifted /\ UNCHANGED <<queue, now, wire, settings>>
  BY DEF HandleTimer, transport
<1> QED
  BY <1>3, <1>4, AdvanceKept, ZenonT(40)

\* handlePeripheralIsReadyToSendWithoutResponse
LEMMA ReadyCallbackKept ==
  ASSUME DInv, ReadyCallback
  PROVE  Kept
<1>1. Coherent(session, lifted, now) /\ now \in Nat
  BY DEF DInv
<1>2. lifted' = lifted /\ UNCHANGED <<queue, now, wire, settings>>
  BY DEF ReadyCallback
<1>3. CASE session.verified
  <2> DEFINE t == Tick(session, session.attempt, now, ready.can)
             offers == Emits(t, now, ready.can)
  <2>1. Finish(t, offers, TRUE)
    BY <1>3, Zenon DEF ReadyCallback
  <2>2. Advances(session, t, lifted, now)
    BY <1>1, TickFacts, Zenon
  <2>3. offers => Emits(t, now, ready.can)
    OBVIOUS
  <2> HIDE DEF t, offers
  <2>4. Coherent(t, lifted', now) /\ Goes(session, t) /\ Settles(session, t) /\ Releases(session, t)
    BY <1>2, <2>2, Zenon DEF Advances, Proper
  <2>5. /\ DInv'
        /\ Settles(session, t) => Settles(session, session')
        /\ Releases(session, t) => Releases(session, session')
    BY <1>2, <2>1, <2>3, <2>4, FinishFacts, Zenon
  <2> QED
    BY <2>4, <2>5, ReleasesHold, SettlesNeutral, Zenon DEF Kept
<1>4. CASE ~session.verified
  <2>1. UNCHANGED <<session, ble, queue, wire, lifted, now, saved, sheet>>
    BY <1>2, <1>4, Zenon DEF ReadyCallback, settings
  <2> QED
    BY <2>1, QuietKept, Zenon DEF DInv
<1> QED
  BY <1>3, <1>4, Zenon

\* The receipt of the write w that was settled without being sent.
LEMMA ReceiptFacts ==
  ASSUME now \in Nat, NEW s, Coherent(s, lifted, now), NEW w, Motor(w) => Remembers(s, w),
         NEW status \in {"Cancelled", "Rejected"}
  PROVE  /\ Proper(s, Receipt(s, w, status), lifted, now)
         /\ s.pending = None \/ ~s.pending.emitted => Receipt(s, w, status) = s
<1>1. CASE ~Motor(w)
  <2>1. Receipt(s, w, status) = s
    BY <1>1, Zenon DEF Receipt, Motor
  <2>2. /\ s \in Sessions /\ SameControl(s, s)
        /\ s.last_input_at <= now /\ s.presented \in {None, s.attempt}
    BY DEF Coherent, SameControl
  <2> QED
    BY <2>1, <2>2, SameControlFacts, Zenon
<1>2. CASE Motor(w)
  <2> DEFINE t == Mark(s, w, status, now)
  <2>1. Receipt(s, w, status) = t
    BY <1>2, Zenon DEF Receipt, Motor
  <2>2. /\ Coherent(t, lifted, now) /\ Goes(s, t) /\ Releases(s, t)
        /\ Settles(s, t) \/ status = "Submitted"
    BY <1>2, MarkFacts, Zenon
  <2>3. s.pending = None \/ ~s.pending.emitted => t = s
    BY <1>2, MarkOther, Zenon
  <2> HIDE DEF t
  <2> QED
    BY <2>1, <2>2, <2>3, Zenon DEF Proper
<1> QED
  BY <1>1, <1>2, Zenon

\* What a turn of the write queue starts from, once it has discarded the expired entries.
LEMMA TurnFacts ==
  ASSUME DInv
  PROVE  LET d == Discarded(session)
             u == Unexpired(session)
         IN  /\ Proper(session, d, lifted, now)
             /\ d.pending # None => Issued(d.pending, d)
             /\ d = session \/ d.pending = None \/ ~d.pending.emitted
             /\ QueueKnows(d, u, wire) /\ WireKnows(d, wire)
             /\ \A i \in DOMAIN u : Current(session, u[i])
             /\ ble.pc = "offer" => HandKnows(d, u, wire, ble.write)
<1> DEFINE d == Discarded(session)
           u == Unexpired(session)
<1>1. now \in Nat /\ Coherent(session, lifted, now) /\ QueueKnows(session, queue, wire)
  BY DEF DInv
<1>2. /\ Proper(session, d, lifted, now)
      /\ d = session \/ d.pending = None \/ ~d.pending.emitted
  BY <1>1, DiscardedFacts, Zenon
<1> SUFFICES /\ d.pending # None => Issued(d.pending, d)
             /\ QueueKnows(d, u, wire) /\ WireKnows(d, wire)
             /\ \A i \in DOMAIN u : Current(session, u[i])
             /\ ble.pc = "offer" => HandKnows(d, u, wire, ble.write)
  BY <1>2, Zenon
<1> HIDE DEF d
<1>3. /\ d.pending # None => Issued(d.pending, d)
      /\ QueueKnows(d, queue, wire) /\ WireKnows(d, wire)
      /\ ble.pc \in {"offer", "hand"} => HandKnows(d, queue, wire, ble.write)
  BY <1>2, PlacesKnow, Zenon DEF Proper
<1>4. /\ QueueKnows(d, u, wire)
      /\ \A i \in DOMAIN u : Current(session, u[i])
      /\ \A w : HandKnows(d, queue, wire, w) => HandKnows(d, u, wire, w)
  BY <1>3, UnexpiredKnows, Zenon
<1> HIDE DEF u
<1> QED
  BY <1>3, <1>4, Zenon

\* A handler that has just let a write go keeps the invariant if the queue and the wire do.
LEMMA TurnKept ==
  ASSUME DInv, Proper(session, session', lifted, now),
         QueueKnows(session', queue', wire), ble' \in BleType,
         ble'.pc \in {"rest", "flush"} \/ /\ HandKnows(session', queue', wire, ble'.write)
                                          /\ HandIsRight(session', lifted, wire, ble'.write),
         UNCHANGED <<now, wire, lifted, settings>>
  PROVE  Kept
<1>1. session'.pending # None => Issued(session'.pending, session')
  BY PlacesKnow, ZenonT(40) DEF Proper
<1>2. WireKnows(session', wire)
  BY PlacesKnow, ZenonT(40) DEF Proper
<1>3. DInv'
  BY <1>1, <1>2, Zenon DEF DInv, Proper, settings
<1>4. HoldStep
  BY ReleasesHold DEF Proper
<1>5. NeutralStep
  BY SettlesNeutral, Zenon DEF Proper
<1> QED
  BY <1>3, <1>4, <1>5 DEF Kept

\* CoreBluetoothWriteQueue.submit
LEMMA OfferKept ==
  ASSUME DInv, Offer
  PROVE  Kept
<1> DEFINE w == ble.write
           d == Discarded(session)
           q == Unexpired(session)
           k == Displaced(q, w)
           r == IF k = 0 THEN q ELSE Without(q, k)
<1>1. /\ ble.pc = "offer" /\ UNCHANGED <<now, wire, lifted, settings>>
      /\ \/ /\ session' = Receipt(d, w, "Cancelled") /\ queue' = q
            /\ Continue(session', ble.flush, ready.can)
         \/ /\ Current(d, w) /\ session' = d /\ queue' = q /\ ble' = [ble EXCEPT !.pc = "hand"]
         \/ /\ session' = Receipt(d, w, "Rejected") /\ queue' = r
            /\ Continue(session', ble.flush, ready.can)
         \/ /\ session' = d /\ queue' = Append(r, w)
            /\ ble' = [ble EXCEPT !.pc = "flush", !.flush = TRUE,
                                  !.gate = IF ble.flush THEN None ELSE w]
  BY DEF Offer
<1>2. /\ Proper(session, d, lifted, now)
      /\ d = session \/ d.pending = None \/ ~d.pending.emitted
      /\ QueueKnows(d, q, wire) /\ WireKnows(d, wire)
      /\ HandKnows(d, q, wire, w)
  BY <1>1, TurnFacts, Zenon
<1>3. k = 0 \/ k \in DOMAIN q
  BY <1>2, DisplacedFacts, Zenon DEF QueueKnows
<1> HIDE DEF d, q, k
<1>4. QueueKnows(d, r, wire) /\ HandKnows(d, r, wire, w)
  BY <1>2, <1>3, RemovedKnows, ZenonT(40)
<1> HIDE DEF r
<1>5. now \in Nat /\ ble \in BleType /\ Coherent(d, lifted, now) /\ w \in Entries
  BY <1>2, Zenon DEF DInv, Proper, HandKnows
<1>6. ble.flush \in BOOLEAN
  BY <1>5, Zenon DEF BleType
<1>7. ASSUME NEW status \in {"Cancelled", "Rejected"}
      PROVE  /\ Proper(session, Receipt(d, w, status), lifted, now)
             /\ Goes(d, Receipt(d, w, status)) /\ Receipt(d, w, status) \in Sessions
  <2>1. Motor(w) => Remembers(d, w)
    BY <1>2, Zenon DEF HandKnows
  <2>2. /\ Proper(d, Receipt(d, w, status), lifted, now)
        /\ d.pending = None \/ ~d.pending.emitted => Receipt(d, w, status) = d
    BY <1>5, <2>1, ReceiptFacts, Zenon
  <2> QED
    BY <1>2, <2>2, ZenonT(40) DEF Proper, Coherent
<1>8. d \in Sessions
  BY <1>5, Zenon DEF Coherent
<1>9. CASE session' = Receipt(d, w, "Cancelled") /\ queue' = q
           /\ Continue(session', ble.flush, ready.can)
  <2>1. QueueKnows(session', queue', wire)
    BY <1>2, <1>7, <1>8, <1>9, GoesKnows, Zenon
  <2>2. ble' \in BleType /\ ble'.pc \in {"rest", "flush"}
    BY <1>6, <1>9, ContinueFacts, Zenon
  <2> QED
    BY <1>1, <1>7, <1>9, <2>1, <2>2, TurnKept, ZenonT(40)
<1>10. CASE session' = Receipt(d, w, "Rejected") /\ queue' = r
            /\ Continue(session', ble.flush, ready.can)
  <2>1. QueueKnows(session', queue', wire)
    BY <1>4, <1>7, <1>8, <1>10, GoesKnows, ZenonT(40)
  <2>2. ble' \in BleType /\ ble'.pc \in {"rest", "flush"}
    BY <1>6, <1>10, ContinueFacts, Zenon
  <2> QED
    BY <1>1, <1>7, <1>10, <2>1, <2>2, TurnKept, ZenonT(40)
<1>11. CASE Current(d, w) /\ session' = d /\ queue' = q /\ ble' = [ble EXCEPT !.pc = "hand"]
  <2>1. HandIsRight(d, lifted, wire, w)
    BY <1>2, <1>5, <1>11, CurrentIsRight, ZenonT(40)
  <2>2. ble' \in BleType /\ ble'.write = w
    BY <1>5, <1>11, Zenon DEF BleType
  <2> QED
    BY <1>1, <1>2, <1>11, <2>1, <2>2, TurnKept, ZenonT(40)
<1>12. CASE /\ session' = d /\ queue' = Append(r, w)
            /\ ble' = [ble EXCEPT !.pc = "flush", !.flush = TRUE,
                                  !.gate = IF ble.flush THEN None ELSE w]
  <2>1. QueueKnows(session', queue', wire)
    BY <1>4, <1>12, AppendedKnows, Zenon
  <2>2. ble' \in BleType /\ ble'.pc = "flush"
    BY <1>5, <1>12, ZenonT(40) DEF BleType
  <2> QED
    BY <1>1, <1>2, <1>12, <2>1, <2>2, TurnKept, ZenonT(40)
<1> QED
  BY <1>1, <1>9, <1>10, <1>11, <1>12, Zenon

\* The capture journal refuses the write.
LEMMA RefuseOfferKept ==
  ASSUME DInv, RefuseOffer
  PROVE  Kept
<1> DEFINE w == ble.write
<1>1. /\ session' = Receipt(session, w, "Rejected") /\ queue' = queue
      /\ UNCHANGED <<now, wire, lifted, settings>>
      /\ Continue(session', ble.flush, ready.can)
      /\ HandKnows(session, queue, wire, w)
  BY ZenonT(40) DEF RefuseOffer, DInv
<1>2. now \in Nat /\ ble.flush \in BOOLEAN /\ Coherent(session, lifted, now)
  BY ZenonT(40) DEF DInv, BleType
<1>3. Proper(session, session', lifted, now)
  BY <1>1, <1>2, ReceiptFacts, Zenon DEF HandKnows
<1>4. QueueKnows(session', queue', wire)
  BY <1>1, <1>3, PlacesKnow, Zenon DEF Proper
<1>5. ble' \in BleType /\ ble'.pc \in {"rest", "flush"}
  BY <1>1, <1>2, ContinueFacts, Zenon
<1> QED
  BY <1>1, <1>3, <1>4, <1>5, TurnKept, Zenon

\* One turn of CoreBluetoothWriteQueue.flush.
LEMMA FlushKept ==
  ASSUME DInv, Flush
  PROVE  Kept
<1> DEFINE d == Discarded(session)
           q == Unexpired(session)
           k == Chosen(q)
<1>1. /\ session' = d /\ UNCHANGED <<now, wire, lifted, settings>>
      /\ \/ /\ q # <<>> /\ queue' = Without(q, k)
            /\ ble' = [ble EXCEPT !.pc = "hand", !.write = q[k]]
         \/ queue' = q /\ Continue(d, FALSE, ready.can)
  BY Zenon DEF Flush
<1>2. /\ Proper(session, d, lifted, now)
      /\ QueueKnows(d, q, wire) /\ WireKnows(d, wire)
      /\ \A i \in DOMAIN q : Current(session, q[i])
  BY TurnFacts, Zenon
<1>3. q # <<>> => k \in DOMAIN q
  BY <1>2, ChosenFacts, Zenon DEF QueueKnows
<1>4. ASSUME NEW x, Motor(x), Remembers(session, x), Current(session, x)
      PROVE  d = session
  BY <1>4, DiscardedCurrent, Zenon DEF DInv
<1>5. ASSUME NEW i \in DOMAIN q, Motor(q[i])
      PROVE  Remembers(session, q[i])
  <2>1. QueueKnows(session, queue, wire)
    BY DEF DInv
  <2>2. QueueKnows(session, q, wire)
    BY <2>1, UnexpiredKnows, Zenon
  <2> HIDE DEF q
  <2> QED
    BY <1>5, <2>2, Zenon DEF QueueKnows
<1> HIDE DEF d, q, k
<1>6. CASE queue' = q /\ Continue(d, FALSE, ready.can)
  <2>1. ble' \in BleType /\ ble'.pc \in {"rest", "flush"}
    BY <1>6, ContinueFacts, Zenon
  <2> QED
    BY <1>1, <1>2, <1>6, <2>1, TurnKept, Zenon
<1>7. CASE /\ q # <<>> /\ queue' = Without(q, k)
           /\ ble' = [ble EXCEPT !.pc = "hand", !.write = q[k]]
  <2>1. /\ QueueKnows(d, queue', wire) /\ HandKnows(d, queue', wire, q[k])
    BY <1>2, <1>3, <1>7, RemovedKnows, Zenon
  <2>2. HandIsRight(d, lifted, wire, q[k])
    <3>1. CASE Motor(q[k])
      <4>1. d = session
        BY <1>2, <1>3, <1>4, <1>5, <1>7, <3>1, ZenonT(40)
      <4>2. Current(d, q[k]) /\ Coherent(d, lifted, now)
        BY <1>2, <1>3, <1>7, <4>1, Zenon DEF Proper
      <4> QED
        BY <1>2, <2>1, <4>2, CurrentIsRight, Zenon
    <3>2. CASE ~Motor(q[k])
      BY <3>2, Zenon DEF Motor, HandIsRight
    <3> QED
      BY <3>1, <3>2, Zenon
  <2>3. ble' \in BleType /\ ble'.write = q[k]
    BY <1>7, <2>1, Zenon DEF DInv, BleType, HandKnows
  <2> QED
    BY <1>1, <1>2, <1>7, <2>1, <2>2, <2>3, TurnKept, ZenonT(40)
<1> QED
  BY <1>1, <1>6, <1>7, Zenon

\* The write reaches CoreBluetooth, and its receipt Rust.
LEMMA HandOverKept ==
  ASSUME DInv, NEW still \in BOOLEAN, HandOver(still)
  PROVE  Kept
<1> DEFINE w == ble.write
<1>1. /\ now \in Nat /\ Coherent(session, lifted, now) /\ session \in Sessions
      /\ ble \in BleType /\ ble.flush \in BOOLEAN
      /\ QueueKnows(session, queue, wire) /\ WireKnows(session, wire)
      /\ HandKnows(session, queue, wire, w) /\ HandIsRight(session, lifted, wire, w)
  BY DEF HandOver, DInv, Coherent, BleType
<1>2. /\ session' = Receipt(session, w, "Submitted")
      /\ wire' = IF w.kind = "Ordinary" THEN wire ELSE w.sequence
      /\ UNCHANGED <<queue, now, lifted, settings>>
  BY DEF HandOver
<1>3. ble' \in BleType /\ ble'.pc \in {"rest", "flush"}
  <2>1. CASE ble' = [ble EXCEPT !.pc = "flush", !.write = None]
    BY <1>1, <2>1, Zenon DEF BleType
  <2>2. CASE Continue(session', FALSE, still)
    BY <2>2, ContinueFacts, ZenonT(40)
  <2> QED
    BY <2>1, <2>2, Zenon DEF HandOver
<1>4. CASE ~Motor(w)
  <2>1. session' = session /\ wire' = wire
    BY <1>2, <1>4, Zenon DEF Motor, Receipt
  <2>2. SameControl(session, session) /\ session.last_input_at <= now
        /\ session.presented \in {None, session.attempt}
    BY <1>1, ZenonT(40) DEF SameControl, Coherent
  <2>3. Proper(session, session, lifted, now)
    BY <1>1, <2>2, SameControlFacts, Zenon
  <2> QED
    BY <1>1, <1>2, <1>3, <2>1, <2>3, TurnKept, Zenon
<1>5. CASE Motor(w)
  <2> DEFINE t == Mark(session, w, "Submitted", now)
  <2>1. session' = t /\ wire' = w.sequence /\ Remembers(session, w) /\ w.sequence > wire
    BY <1>1, <1>2, <1>5, ZenonT(40) DEF Motor, Receipt, HandKnows, HandIsRight
  <2>2. /\ Coherent(t, lifted, now) /\ Goes(session, t) /\ Releases(session, t)
        /\ \/ Settles(session, t)
           \/ t.pending = None /\ session.pending.sequence = w.sequence
    BY <1>1, <2>1, MarkFacts, ZenonT(40)
  <2> HIDE DEF t
  <2>3. /\ t.pending # None => Issued(t.pending, t)
        /\ QueueKnows(t, queue, wire) /\ HandKnows(t, queue, wire, w)
    BY <2>2, PlacesKnow DEF HandOver
  <2>4. Remembers(t, w) /\ w.sequence \in Nat /\ wire \in Nat
    <3>1. Remembers(t, w)
      BY <1>5, <2>3, Zenon DEF HandKnows
    <3>2. w.sequence \in Nat
      BY <3>1 DEF Remembers, Writes
    <3> QED
      BY <1>1, <3>1, <3>2, Zenon DEF WireKnows
  <2>5. QueueKnows(t, queue, w.sequence)
    BY <1>5, <2>3, Zenon DEF QueueKnows, HandKnows
  <2>6. WireKnows(t, w.sequence)
    BY <2>4, Zenon DEF WireKnows, Remembers
  <2>7. DInv'
    BY <1>1, <1>2, <1>3, <2>1, <2>2, <2>3, <2>5, <2>6, ZenonT(40) DEF DInv, settings
  <2>8. HoldStep
    BY <2>1, <2>2, ReleasesHold, ZenonT(40)
  <2>9. NeutralStep
    <3>1. CASE Settles(session, t)
      BY <2>1, <3>1, SettlesNeutral, Zenon
    <3>2. CASE t.pending = None /\ session.pending.sequence = w.sequence
      BY <2>1, <2>4, <3>2, SMTT(30) DEF NeutralStep
    <3> QED
      BY <2>2, <3>1, <3>2, ZenonT(40)
  <2> QED
    BY <2>7, <2>8, <2>9, Zenon DEF Kept
<1> QED
  BY <1>4, <1>5

\* Every step keeps the invariant and the two promises about the neutral.
LEMMA NextKept ==
  ASSUME DInv, [Next]_vars
  PROVE  Kept
<1>1. CASE Connect \/ Reconfigure \/ \E clears \in BOOLEAN : LinkDown(clears)
  BY <1>1, ConnectKept, ReconfigureKept, LinkDownKept, Zenon
<1>2. CASE \E fault, eligible \in BOOLEAN : Ingest(fault, eligible)
  BY <1>2, IngestKept, Zenon
<1>3. CASE \E generation \in KnownGenerations, busy \in BOOLEAN : ActivateDrive(generation, busy)
  BY <1>3, ActivateDriveKept, Zenon
<1>4. CASE \/ \E generation \in {session.input.generation} \ {None}, contacts \in Contacts,
                observed \in 0 .. now : Touch(generation, contacts, observed)
           \/ Touch(0, NoSingle("Invalid"), now)
  <2>1. 0 \in KnownGenerations /\ ({session.input.generation} \ {None}) \subseteq KnownGenerations
    BY Zenon DEF KnownGenerations
  <2>2. NoSingle("Invalid") \in Contacts
    <3>1. NoSingle("Invalid") \in {NoSingle(k) : k \in {"Released", "Multiple", "Invalid"}}
      OBVIOUS
    <3> QED
      BY <3>1 DEF Contacts
  <2>3. now \in 0 .. now
    BY DEF DInv
  <2> QED
    BY <1>4, <2>1, <2>2, <2>3, TouchKept, ZenonT(40)
<1>5. CASE (\E reason \in NativeReasons : CancelDrive(reason)) \/ HandleTimer \/ ReadyCallback
  BY <1>5, CancelDriveKept, HandleTimerKept, ReadyCallbackKept, Zenon
<1>6. CASE Offer \/ RefuseOffer \/ Flush \/ \E still \in BOOLEAN : HandOver(still)
  BY <1>6, OfferKept, RefuseOfferKept, FlushKept, HandOverKept, ZenonT(40)
<1>7. CASE \E presented \in BOOLEAN : Present(presented)
  BY <1>7, PresentKept, Zenon
<1>8. CASE \/ LoadBegins \/ LoadEnds \/ SaveEnds \/ SheetFails
           \/ \E record \in [mode : Modes, limits : Budgets] : SaveBegins(record)
  BY <1>8, SheetKept, Zenon
<1>9. CASE BecomeReady \/ SubmitOrdinary \/ TimePasses \/ UNCHANGED vars
  BY <1>9, IdleKept, Zenon
<1> QED
  BY <1>1, <1>2, <1>3, <1>4, <1>5, <1>6, <1>7, <1>8, <1>9, ZenonT(40) DEF Next

-----------------------------------------------------------------------------
\* Whatever the native side does, every write that left Rust is in one place and remembered,
\* and the session is coherent.
THEOREM InvariantHolds == Spec => []DInv
<1>1. Init => DInv
  BY InitDInv, Zenon
<1>2. DInv /\ [Next]_vars => DInv'
  BY NextKept, Zenon DEF Kept
<1> QED
  BY <1>1, <1>2, PTL DEF Spec

\* A Setpoint that is handed to CoreBluetooth belongs to a contact that holds its region,
\* with the budget of the attempt, or the neutral that ends it is already owed.
THEOREM HandedSetpointIsHeld == Spec => []SetpointIsHeld
<1>1. DInv => SetpointIsHeld
  BY ZenonT(40) DEF DInv, HandIsRight, SetpointIsHeld
<1> QED
  BY <1>1, InvariantHolds, PTL

\* Motor writes reach CoreBluetooth in the order of their sequence numbers.
THEOREM OrderIsKept == Spec => []WritesKeepTheirOrder
<1>1. DInv => WritesKeepTheirOrder
  BY Zenon DEF DInv, HandIsRight, WritesKeepTheirOrder, Motor
<1> QED
  BY <1>1, InvariantHolds, PTL

\* A neutral that is current finds room in the native queue, or displaces another write: a
\* queue full of neutrals would hold another write with the number of the pending one.
THEOREM RoomForNeutral == Spec => []NeutralFindsRoom
<1>1. ASSUME DInv
      PROVE  NeutralFindsRoom
  <2> DEFINE w == ble.write
             d == Discarded(session)
             q == Unexpired(session)
  <2> SUFFICES ASSUME ble.pc = "offer", w.kind = "Release", Current(d, w), ~(Len(q) < Capacity),
                      Displaced(q, w) = 0
               PROVE  FALSE
    BY SMTT(30) DEF NeutralFindsRoom
  <2>1. /\ QueueKnows(d, q, wire) /\ HandKnows(d, q, wire, w)
        /\ \A i \in DOMAIN q : Current(session, q[i])
    BY <1>1, TurnFacts, ZenonT(40)
  <2>2. q \in Seq(Entries)
    BY <2>1, ZenonT(40) DEF QueueKnows
  <2>3. LastOf(q, "Ordinary") = 0 /\ LastOf(q, "Setpoint") = 0
    BY SMTT(30) DEF Displaced
  <2>4. QueueKnows(session, q, wire)
    BY <1>1, UnexpiredKnows, ZenonT(40) DEF DInv
  <2>5. ASSUME NEW x, Motor(x), Remembers(session, x), Current(session, x)
        PROVE  d = session
    BY <1>1, <2>5, DiscardedCurrent, ZenonT(40) DEF DInv
  <2> HIDE DEF d, q
  <2>6. 1 \in DOMAIN q
    BY <2>2, DriveAssumption
  <2>7. Motor(q[1]) /\ Motor(w)
    BY <2>2, <2>3, <2>6, LastOfFacts, SMTT(30) DEF Motor
  <2>8. Remembers(session, q[1]) /\ Current(session, q[1])
    BY <2>1, <2>4, <2>6, <2>7, ZenonT(40) DEF QueueKnows
  <2>9. d = session /\ session.pending = q[1]
    BY <2>5, <2>7, <2>8, CurrentIsPending, Zenon
  <2>10. Remembers(session, w) /\ q[1].sequence # w.sequence
    BY <2>1, <2>6, <2>7, <2>9, Zenon DEF HandKnows
  <2>11. session.pending = w
    BY <2>7, <2>9, <2>10, CurrentIsPending, Zenon
  <2> QED
    BY <2>9, <2>10, <2>11, Zenon
<1> QED
  BY <1>1, InvariantHolds, PTL

\* When a hold ends in a verified attempt, its neutral is pending at once, but for exhausted
\* identifiers and for the delivery of a contact that is too old, to a session that was not
\* heard of for a whole submission window.
THEOREM HoldOwesNeutral == Spec => EndOfHoldOwesNeutral
<1>1. DInv /\ [Next]_vars => HoldStep
  BY NextKept DEF Kept
<1>2. HoldStep => (HoldEnds => \/ ReleasePending(session') \/ Exhausted(session')
                               \/ late' /\ session.last_input_at + SubmissionWindow <= now)
  BY DEF HoldStep
<1> QED
  BY <1>1, <1>2, InvariantHolds, PTL DEF Spec, EndOfHoldOwesNeutral

\* A pending neutral stays with its deadline until it is on the wire, the connection ends,
\* or it fails together with the activation.
THEOREM NeutralStays == Spec => NeutralIsSettled
<1>1. DInv /\ [Next]_vars => NeutralStep
  BY NextKept DEF Kept
<1> QED
  BY <1>1, InvariantHolds, PTL DEF Spec, NeutralIsSettled, NeutralStep
=============================================================================
