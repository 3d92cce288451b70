--------------------------- MODULE BufChainProofs ---------------------------
(* The chain of rings for any width of the indices, size of the first ring   *)
(* and number of values: its types, for any producers and consumers; and     *)
(* that it is a FIFO queue, for one of each.                                 *)
EXTENDS BufChain, Integers, FiniteSetTheorems, TLAPS

-----------------------------------------------------------------------------
(* Words and indices.                                                        *)

LEMMA Widths ==
  /\ Indices \in Nat /\ Indices >= 4 /\ dequeueLimit \in Nat /\ dequeueLimit >= 1
  /\ 4 * dequeueLimit <= Indices /\ InitSize \in 1..dequeueLimit
BY BufChainAssumption DEF Indices, dequeueLimit

\* A number is put together from quotient and remainder in one way.
LEMMA Division ==
  ASSUME NEW n \in Nat, n > 0, NEW q \in Nat, NEW r \in 0..n-1
  PROVE  (q * n + r) \div n = q /\ (q * n + r) % n = r
<1> DEFINE x == q * n + r
           y == x \div n
           z == x % n
<1>1. x \in Nat /\ x = q * n + r /\ x = n * y + z /\ y \in Int /\ z \in 0..n-1
  OBVIOUS
<1> HIDE DEF x, y, z
<1>2. ~(y >= q + 1)
  <2> SUFFICES ASSUME y >= q + 1 PROVE FALSE
    OBVIOUS
  <2>1. n * y >= n * (q + 1)
    BY <1>1
  <2> QED BY <1>1, <2>1
<1>3. ~(y <= q - 1)
  <2> SUFFICES ASSUME y <= q - 1 PROVE FALSE
    OBVIOUS
  <2>1. n * y <= n * (q - 1)
    BY <1>1
  <2> QED BY <1>1, <2>1
<1>4. y = q
  BY <1>1, <1>2, <1>3
<1> QED BY <1>1, <1>4 DEF x, y, z

\* A word holds two indices, and nothing else.
LEMMA WordParts ==
  ASSUME NEW w \in Words
  PROVE  /\ Head_(w) \in 0..Indices-1 /\ Tail_(w) \in 0..Indices-1
         /\ w = Head_(w) * Indices + Tail_(w)
<1> DEFINE n == Indices
           q == w \div n
           r == w % n
<1>1. n \in Nat /\ n >= 4 /\ w \in 0..n * n - 1 /\ w \in Nat /\ n * n \in Nat
  BY Widths DEF Words
<1>2. w = n * q + r /\ q \in Nat /\ r \in 0..n-1
  BY <1>1
<1> HIDE DEF n, q, r
<1>3. q <= n - 1
  <2> SUFFICES ASSUME q >= n PROVE FALSE
    BY <1>1, <1>2
  <2>1. n * q >= n * n
    BY <1>1, <1>2
  <2> QED BY <1>1, <1>2, <2>1
<1>4. n * q = q * n
  BY <1>1, <1>2
<1> QED BY <1>1, <1>2, <1>3, <1>4 DEF n, q, r, Head_, Tail_

LEMMA PackedParts ==
  ASSUME NEW h \in 0..Indices-1, NEW t \in 0..Indices-1
  PROVE  /\ h * Indices + t \in Words
         /\ Head_(h * Indices + t) = h /\ Tail_(h * Indices + t) = t
<1>1. Indices \in Nat /\ Indices > 0
  BY Widths
<1>2. Head_(h * Indices + t) = h /\ Tail_(h * Indices + t) = t
  BY <1>1, Division DEF Head_, Tail_
<1> DEFINE n == Indices
<1>3. h * n <= (n - 1) * n
  BY <1>1
<1>4. (n - 1) * n = n * n - n
  BY <1>1
<1>5. h * n \in Nat /\ n * n \in Nat
  BY <1>1
<1> QED BY <1>1, <1>2, <1>3, <1>4, <1>5 DEF Words

\* The next index, and how far an index lies ahead of another.
Up(i) == IF i = Indices - 1 THEN 0 ELSE i + 1
Ahead(t, i) == IF t <= i THEN i - t ELSE i - t + Indices

LEMMA NextIndex ==
  ASSUME NEW i \in 0..Indices-1
  PROVE  Up(i) \in 0..Indices-1 /\ (i + 1) % Indices = Up(i) /\ i % Indices = i
<1>1. Indices \in Nat /\ Indices >= 4
  BY Widths
<1>2. i % Indices = i /\ 0 % Indices = 0
  BY <1>1
<1>3. CASE i = Indices - 1
  <2>1. Indices % Indices = 0
    BY <1>1, Division
  <2> QED BY <1>1, <1>2, <1>3, <2>1 DEF Up
<1>4. CASE i # Indices - 1
  <2>1. i + 1 \in 0..Indices-1
    BY <1>1, <1>4
  <2> QED BY <1>1, <1>2, <1>4, <2>1 DEF Up
<1> QED BY <1>3, <1>4

\* pack(head+1, tail) moves the head, ...
LEMMA HeadMoves ==
  ASSUME NEW w \in Words
  PROVE  /\ pack(Head_(w) + 1, Tail_(w)) \in Words
         /\ Head_(pack(Head_(w) + 1, Tail_(w))) = Up(Head_(w))
         /\ Tail_(pack(Head_(w) + 1, Tail_(w))) = Tail_(w)
<1>1. Head_(w) \in 0..Indices-1 /\ Tail_(w) \in 0..Indices-1
  BY WordParts
<1>2. pack(Head_(w) + 1, Tail_(w)) = Up(Head_(w)) * Indices + Tail_(w) /\ Up(Head_(w)) \in 0..Indices-1
  BY <1>1, NextIndex DEF pack
<1> QED BY <1>1, <1>2, PackedParts

\* ... and the addition the tail, also where it wraps.
LEMMA TailMoves ==
  ASSUME NEW w \in Words, NEW t, t = Tail_(w)
  PROVE  /\ NextTail(w, t) \in Words
         /\ Head_(NextTail(w, t)) = Head_(w) /\ Tail_(NextTail(w, t)) = Up(t)
<1> DEFINE n == Indices
           h == Head_(w)
<1>1. h \in 0..n-1 /\ t \in 0..n-1 /\ w = h * n + t /\ Up(t) \in 0..n-1 /\ n \in Nat /\ n >= 4
  BY WordParts, NextIndex, Widths
<1>2. h * n + Up(t) \in Words /\ Head_(h * n + Up(t)) = h /\ Tail_(h * n + Up(t)) = Up(t)
  BY <1>1, PackedParts
<1>3. n * n \in Nat /\ n * n > 0 /\ h * n \in Nat
  BY <1>1
<1>4. NextTail(w, t) = h * n + Up(t)
  <2>1. h * n + Up(t) \in 0..n * n - 1
    BY <1>2 DEF Words
  <2> DEFINE m == n * n
             x == h * n
  <2>2. m \in Nat /\ m > 0 /\ x \in Nat /\ x + Up(t) \in 0..m-1 /\ w = x + t
    BY <1>1, <1>3, <2>1
  <2>3. CASE t < n - 1
    <3>1. NextTail(w, t) = (w + 1) % m /\ Up(t) = t + 1
      BY <1>1, <2>3 DEF NextTail, Up
    <3> HIDE DEF n, h, m, x
    <3>2. w + 1 = x + Up(t)
      BY <1>1, <2>2, <3>1
    <3>3. (x + Up(t)) % m = x + Up(t)
      BY <2>2
    <3> QED BY <3>1, <3>2, <3>3 DEF x, n, h
  <2>4. CASE ~(t < n - 1)
    <3>1. NextTail(w, t) = (w + m - (n - 1)) % m /\ Up(t) = 0 /\ t = n - 1
      BY <1>1, <2>4 DEF NextTail, Up
    <3> HIDE DEF n, h, m, x
    <3>2. w + m - (n - 1) = 1 * m + x
      BY <1>1, <2>2, <3>1
    <3>3. (1 * m + x) % m = x
      BY <2>2, <3>1, Division
    <3>4. NextTail(w, t) = x
      BY <3>1, <3>2, <3>3
    <3> QED BY <1>1, <2>2, <3>1, <3>4 DEF x, n, h
  <2> QED BY <2>3, <2>4
<1> QED BY <1>2, <1>4

LEMMA AheadMoves ==
  ASSUME NEW t \in 0..Indices-1, NEW i \in 0..Indices-1
  PROVE  /\ Ahead(t, i) \in 0..Indices-1 /\ (Ahead(t, i) = 0 <=> i = t)
         /\ Ahead(t, i) < Indices - 1 => Ahead(t, Up(i)) = Ahead(t, i) + 1
         /\ Ahead(Up(t), i) = IF i = t THEN Indices - 1 ELSE Ahead(t, i) - 1
BY Widths DEF Ahead, Up

LEMMA AheadDiffers ==
  ASSUME NEW t \in 0..Indices-1, NEW i \in 0..Indices-1, NEW j \in 0..Indices-1,
         Ahead(t, i) = Ahead(t, j)
  PROVE  i = j
BY Widths DEF Ahead

\* As many slots as a ring has follow each other without one coming twice, also where the
\* index wraps: the length divides the number of indices.
LEMMA SlotsDiffer ==
  ASSUME NEW l \in Nat, l > 0, l <= Indices, Indices % l = 0, NEW t \in 0..Indices-1,
         NEW i \in 0..Indices-1, NEW j \in 0..Indices-1,
         Ahead(t, i) < l, Ahead(t, j) < l, i % l = j % l
  PROVE  i = j
<1> DEFINE x == i
           y == j
           a == Ahead(t, i)
           b == Ahead(t, j)
           k == Indices \div l
<1>1. x \in Nat /\ y \in Nat /\ Indices \in Nat /\ a \in 0..l-1 /\ b \in 0..l-1
      /\ x - y \in {a - b, a - b - Indices, a - b + Indices}
  BY Widths DEF Ahead
<1>2. Indices = l * k /\ k \in Int
  BY <1>1
<1>3. PICK q \in Int, r \in Int, z \in Int : x = l * q + z /\ y = l * r + z
  <2>1. \A u \in Nat : u = l * (u \div l) + (u % l) /\ (u \div l) \in Int /\ (u % l) \in Int
    OBVIOUS
  <2>2. x % l = y % l
    OBVIOUS
  <2> HIDE DEF x, y
  <2>3. x = l * (x \div l) + (x % l) /\ (x \div l) \in Int /\ (x % l) \in Int
    BY <1>1, <2>1
  <2>4. y = l * (y \div l) + (y % l) /\ (y \div l) \in Int
    BY <1>1, <2>1
  <2> DEFINE q == x \div l
             r == y \div l
             z == x % l
  <2>5. x = l * q + z /\ y = l * r + z /\ q \in Int /\ r \in Int /\ z \in Int
    BY <2>2, <2>3, <2>4
  <2> HIDE DEF q, r, z
  <2> QED BY <2>5
<1> HIDE DEF x, y, k, a, b
<1>4. \E m \in Int : a - b = l * m
  <2>1. x - y = l * (q - r)
    BY <1>1, <1>3
  <2>2. CASE x - y = a - b
    <3>1. a - b = l * (q - r) /\ q - r \in Int
      BY <1>3, <2>1, <2>2
    <3> QED BY <3>1
  <2>3. CASE x - y = a - b - Indices
    <3>1. a - b = l * (q - r) + l * k
      BY <1>1, <1>2, <2>1, <2>3
    <3>2. l * (q - r) + l * k = l * (q - r + k)
      BY <1>2
    <3>3. a - b = l * (q - r + k) /\ q - r + k \in Int
      BY <1>2, <3>1, <3>2
    <3> QED BY <3>3
  <2>4. CASE x - y = a - b + Indices
    <3>1. a - b = l * (q - r) - l * k
      BY <1>1, <1>2, <2>1, <2>4
    <3>2. l * (q - r) - l * k = l * (q - r - k)
      BY <1>2
    <3>3. a - b = l * (q - r - k) /\ q - r - k \in Int
      BY <1>2, <3>1, <3>2
    <3> QED BY <3>3
  <2> QED BY <1>1, <2>2, <2>3, <2>4
<1>5. PICK m \in Int : a - b = l * m
  BY <1>4
<1>6. ~(m >= 1)
  <2> SUFFICES ASSUME m >= 1 PROVE FALSE
    OBVIOUS
  <2>1. l * m >= l * 1
    OBVIOUS
  <2> QED BY <1>1, <1>5, <2>1
<1>7. ~(m <= -1)
  <2> SUFFICES ASSUME m <= -1 PROVE FALSE
    OBVIOUS
  <2>1. l * m <= l * (-1)
    OBVIOUS
  <2> QED BY <1>1, <1>5, <2>1
<1>8. m = 0
  BY <1>6, <1>7
<1>9. a = b
  BY <1>1, <1>5, <1>8
<1> QED BY <1>9, AheadDiffers DEF a, b

\* The slot that follows the last one is the first again.
LEMMA SlotAgain ==
  ASSUME NEW l \in Nat, l > 0, l < Indices, Indices % l = 0, NEW t \in 0..Indices-1,
         NEW i \in 0..Indices-1, Ahead(t, i) = l
  PROVE  i % l = t % l
<1> DEFINE k == Indices \div l
<1>1. Indices \in Nat /\ Indices = l * k /\ k \in Int /\ l \in Int
  BY Widths
<1>2. \A x \in Nat : x = l * (x \div l) + (x % l) /\ (x \div l) \in Nat /\ (x % l) \in 0..l-1
  OBVIOUS
<1> DEFINE q == t \div l
           r == t % l
<1>3. t = l * q + r /\ q \in Nat /\ r \in 0..l-1 /\ i \in Nat
  BY <1>2
<1>4. i = t + l \/ i = t + l - Indices
  BY <1>1 DEF Ahead
<1> HIDE DEF k, q, r
<1>5. PICK m \in Int : i = l * m + r
  <2>1. CASE i = t + l
    <3>1. i = l * (q + 1) + r /\ q + 1 \in Int
      BY <1>3, <2>1
    <3> QED BY <3>1
  <2>2. CASE i = t + l - Indices
    <3>1. i = l * q + l - l * k + r
      BY <1>1, <1>3, <2>2
    <3>2. l * q + l - l * k = l * (q + 1 - k)
      BY <1>1, <1>3
    <3>3. i = l * (q + 1 - k) + r /\ q + 1 - k \in Int
      BY <1>1, <1>3, <3>1, <3>2
    <3> QED BY <3>3
  <2> QED BY <1>4, <2>1, <2>2
<1>6. m >= 0
  <2> SUFFICES ASSUME m <= -1 PROVE FALSE
    BY <1>5
  <2>1. l * m <= l * (-1)
    OBVIOUS
  <2> QED BY <1>3, <1>5, <2>1
<1>7. (m * l + r) % l = r
  <2>1. m \in Nat /\ r \in 0..l-1
    BY <1>3, <1>5, <1>6
  <2> HIDE DEF r
  <2> QED BY <2>1, Division
<1>8. i % l = r
  BY <1>1, <1>5, <1>7
<1> QED BY <1>8 DEF r

-----------------------------------------------------------------------------
(* Types, for any number of producers and consumers.                         *)

Slots == UNION {[0..n-1 -> AllValues \cup {Nil}] : n \in 1..dequeueLimit}
Ring == [headTail : Words, vals : Slots, next : Nat]

TypeInv ==
  /\ TypeOK
  /\ \A d \in 1..Len(rings) : rings[d].next \in 0..Len(rings)
  /\ \A p \in Producers :
       /\ ppc[p] \notin {"idle", "gate", "loadHead", "release"} => ring[p] # None
       /\ ppc[p] # "idle" => made[p] >= 1
  /\ \A c \in Consumers :
       /\ cpc[c] \notin {"idle", "empty"} => cring[c] # None
       /\ cpc[c] \in {"take", "moveTail"} => val[c] # Nil

LEMMA RingShape ==
  ASSUME NEW r \in Ring
  PROVE  /\ Len_(r) \in 1..dequeueLimit /\ Len_(r) \in Nat /\ DOMAIN r.vals = 0..Len_(r)-1
         /\ r.vals \in [0..Len_(r)-1 -> AllValues \cup {Nil}]
         /\ r.headTail \in Words /\ r.next \in Nat
<1>1. PICK n \in 1..dequeueLimit : r.vals \in [0..n-1 -> AllValues \cup {Nil}]
  BY DEF Ring, Slots
<1>2. DOMAIN r.vals = 0..n-1 /\ n \in Nat /\ n >= 1
  BY <1>1, Widths
<1>3. Cardinality(0..n-1) = n
  BY <1>2, FS_Interval
<1> QED BY <1>1, <1>2, <1>3 DEF Len_, Ring

\* Changing a slot, the word or the link of a ring leaves it one of its length.
LEMMA RingChanged ==
  ASSUME NEW r \in Ring
  PROVE  /\ \A i : \A v \in AllValues \cup {Nil} :
              LET q == [r EXCEPT !.vals = [r.vals EXCEPT ![i] = v]]
              IN  q \in Ring /\ Len_(q) = Len_(r)
         /\ \A w \in Words :
              LET q == [r EXCEPT !.headTail = w] IN q \in Ring /\ Len_(q) = Len_(r)
         /\ \A n \in Nat : LET q == [r EXCEPT !.next = n] IN q \in Ring /\ Len_(q) = Len_(r)
<1>1. PICK n \in 1..dequeueLimit : r.vals \in [0..n-1 -> AllValues \cup {Nil}]
  BY DEF Ring, Slots
<1>2. ASSUME NEW i, NEW v \in AllValues \cup {Nil}
      PROVE  LET q == [r EXCEPT !.vals = [r.vals EXCEPT ![i] = v]]
             IN  q \in Ring /\ Len_(q) = Len_(r)
  <2> DEFINE f == [r.vals EXCEPT ![i] = v]
  <2>1. f \in [0..n-1 -> AllValues \cup {Nil}] /\ DOMAIN f = DOMAIN r.vals
    BY <1>1
  <2>2. f \in Slots
    BY <1>1, <2>1 DEF Slots
  <2> HIDE DEF f
  <2>3. [r EXCEPT !.vals = f] \in Ring /\ [r EXCEPT !.vals = f].vals = f
    BY <2>2 DEF Ring
  <2> QED BY <2>1, <2>3 DEF Len_, f
<1>3. ASSUME NEW w \in Words
      PROVE  LET q == [r EXCEPT !.headTail = w] IN q \in Ring /\ Len_(q) = Len_(r)
  BY DEF Ring, Len_
<1>4. ASSUME NEW m \in Nat
      PROVE  LET q == [r EXCEPT !.next = m] IN q \in Ring /\ Len_(q) = Len_(r)
  BY DEF Ring, Len_
<1> QED BY <1>2, <1>3, <1>4

\* A new ring is empty.
LEMMA RingMade ==
  ASSUME NEW n \in 1..dequeueLimit
  PROVE  /\ NewRing(n) \in Ring /\ Len_(NewRing(n)) = n
         /\ NewRing(n).vals = [i \in 0..n-1 |-> Nil]
         /\ NewRing(n).headTail = pack(0, 0) /\ NewRing(n).next = None
<1>1. pack(0, 0) \in Words
  <2>1. 0 \in 0..Indices-1 /\ 0 % Indices = 0
    BY Widths, NextIndex
  <2> QED BY <2>1, PackedParts DEF pack
<1>2. [i \in 0..n-1 |-> Nil] \in Slots
  BY DEF Slots
<1>3. NewRing(n) \in Ring
  BY <1>1, <1>2 DEF NewRing, Ring, None
<1>4. Cardinality(0..n-1) = n
  BY Widths, FS_Interval
<1> QED BY <1>3, <1>4 DEF NewRing, Len_

LEMMA SizesGrow ==
  ASSUME NEW n \in 1..dequeueLimit
  PROVE  NextSize(n) \in 1..dequeueLimit
BY Widths DEF NextSize

\* The types of what a ring is, and who looks at it.
LEMMA TypesOfRings ==
  ASSUME TypeOK
  PROVE  /\ rings \in Seq(Ring) /\ Len(rings) \in Nat /\ \A d \in 1..Len(rings) : rings[d] \in Ring
         /\ Len(rings) >= 1
<1>1. rings \in Seq(Ring) /\ tail \in 1..Len(rings)
  BY DEF TypeOK, Ring, Slots
<1> QED BY <1>1

LEMMA TypesInitially == Init => TypeInv
<1> SUFFICES ASSUME Init PROVE TypeInv
  OBVIOUS
<1>1. rings = <<NewRing(InitSize)>> /\ NewRing(InitSize) \in Ring
  BY Widths, RingMade DEF Init
<1>2. rings \in Seq(Ring) /\ Len(rings) = 1
  BY <1>1
<1>3. 0 \in Words /\ Items \in Nat
  BY Widths, BufChainAssumption, PackedParts DEF Words
<1>4. TypeOK
  BY <1>2, <1>3 DEF Init, TypeOK, Ring, Slots, PPcs, CPcs, None
<1>5. rings[1].next = 0 /\ Len(rings) = 1
  BY <1>1, RingMade, Widths DEF None
<1> QED BY <1>4, <1>5 DEF Init, TypeInv

\* The parts of the type invariant, for a number of rings.
RingsTyped(n) == rings \in Seq(Ring) /\ Len(rings) = n /\ \A d \in 1..n : rings[d].next \in 0..n
Ends(n) == head \in 1..n /\ tail \in 1..n /\ newChain \in 0..1
ProducersTyped(n) ==
  /\ ppc \in [Producers -> PPcs] /\ ring \in [Producers -> 0..n]
  /\ seen \in [Producers -> Words] /\ made \in [Producers -> 0..Items]
  /\ \A p \in Producers :
       /\ ppc[p] \notin {"idle", "gate", "loadHead", "release"} => ring[p] # None
       /\ ppc[p] # "idle" => made[p] >= 1
ConsumersTyped(n) ==
  /\ cpc \in [Consumers -> CPcs] /\ cring \in [Consumers -> 0..n]
  /\ cnext \in [Consumers -> 0..n] /\ cseen \in [Consumers -> Words]
  /\ val \in [Consumers -> AllValues \cup {Nil}]
  /\ popped \in Seq(AllValues) /\ before \in [Consumers -> SUBSET AllValues]
  /\ \A c \in Consumers :
       /\ cpc[c] \notin {"idle", "empty"} => cring[c] # None
       /\ cpc[c] \in {"take", "moveTail"} => val[c] # Nil

LEMMA TypeParts ==
  TypeInv => /\ RingsTyped(Len(rings)) /\ Ends(Len(rings))
             /\ ProducersTyped(Len(rings)) /\ ConsumersTyped(Len(rings))
BY DEF TypeInv, TypeOK, Ring, Slots, RingsTyped, Ends, ProducersTyped, ConsumersTyped

LEMMA TypedNext ==
  ASSUME NEW m, RingsTyped(m)', Ends(m)', ProducersTyped(m)', ConsumersTyped(m)'
  PROVE  TypeInv'
BY DEF TypeInv, TypeOK, Ring, Slots, RingsTyped, Ends, ProducersTyped, ConsumersTyped

\* The ring that pushHead appends holds one value, in its first slot.
Started(n, v) == [NewRing(n) EXCEPT !.vals[0] = v, !.headTail = pack(1, 0)]

LEMMA HeadRing ==
  ASSUME NEW n \in 1..dequeueLimit, NEW v \in AllValues
  PROVE  /\ Started(n, v) \in Ring /\ Len_(Started(n, v)) = n /\ Started(n, v).next = None
         /\ Started(n, v).vals = [i \in 0..n-1 |-> IF i = 0 THEN v ELSE Nil]
         /\ Head_(Started(n, v).headTail) = 1 /\ Tail_(Started(n, v).headTail) = 0
<1> DEFINE f == [NewRing(n).vals EXCEPT ![0] = v]
           r == [NewRing(n) EXCEPT !.vals = f]
           q == [r EXCEPT !.headTail = pack(1, 0)]
<1>1. /\ NewRing(n) \in Ring /\ Len_(NewRing(n)) = n /\ NewRing(n).next = None
      /\ NewRing(n).vals = [i \in 0..n-1 |-> Nil]
  BY RingMade
<1>2. pack(1, 0) \in Words /\ Head_(pack(1, 0)) = 1 /\ Tail_(pack(1, 0)) = 0
  <2>1. 1 \in 0..Indices-1 /\ 0 \in 0..Indices-1
    BY Widths
  <2>2. 1 % Indices = 1 /\ 0 % Indices = 0
    BY <2>1, NextIndex
  <2> QED BY <2>1, <2>2, PackedParts DEF pack
<1>3. r \in Ring /\ Len_(r) = n
  <2>1. PICK z \in Ring : z = NewRing(n)
    BY <1>1
  <2>2. v \in AllValues \cup {Nil}
    OBVIOUS
  <2>3. \A i : \A u \in AllValues \cup {Nil} :
          [z EXCEPT !.vals = [z.vals EXCEPT ![i] = u]] \in Ring
          /\ Len_([z EXCEPT !.vals = [z.vals EXCEPT ![i] = u]]) = Len_(z)
    BY RingChanged
  <2>4. [z EXCEPT !.vals = [z.vals EXCEPT ![0] = v]] \in Ring
        /\ Len_([z EXCEPT !.vals = [z.vals EXCEPT ![0] = v]]) = Len_(z)
    BY <2>2, <2>3
  <2> QED BY <1>1, <2>1, <2>4
<1>4. q \in Ring /\ Len_(q) = n
  BY <1>2, <1>3, RingChanged
<1>5. f = [i \in 0..n-1 |-> IF i = 0 THEN v ELSE Nil]
  BY <1>1
<1>6. q.next = None /\ q.vals = f /\ q.headTail = pack(1, 0)
  <2>1. DOMAIN NewRing(n) = {"headTail", "vals", "next"}
    BY DEF NewRing
  <2> HIDE DEF f
  <2> QED BY <1>1, <2>1
<1>7. Started(n, v) = q
  BY DEF NewRing, Started
<1> HIDE DEF q
<1> QED BY <1>2, <1>4, <1>5, <1>6, <1>7

LEMMA RingsParts ==
  ASSUME NEW n \in Nat, RingsTyped(n)
  PROVE  \A d \in 1..n : rings[d] \in Ring /\ rings[d].next \in 0..n
BY DEF RingsTyped

\* Replacing a ring leaves the rings typed.
LEMMA OneRingTyped ==
  ASSUME NEW n \in Nat, RingsTyped(n), NEW d \in 1..n, NEW r \in Ring, r.next \in 0..n,
         rings' = [rings EXCEPT ![d] = r]
  PROVE  RingsTyped(n)'
<1>1. rings \in Seq(Ring) /\ Len(rings) = n
  BY DEF RingsTyped
<1>2. rings' \in Seq(Ring) /\ Len(rings') = n
  BY <1>1
<1>3. \A e \in 1..n : rings'[e] = IF e = d THEN r ELSE rings[e]
  BY <1>1
<1> QED BY <1>2, <1>3 DEF RingsTyped

LEMMA ValueTyped ==
  ASSUME TypeInv, NEW p \in Producers, ppc[p] # "idle"
  PROVE  Value(p) \in AllValues
BY BufChainAssumption DEF TypeInv, TypeOK, Value, AllValues

\* A step of one producer: its counter, ring, word and value, typed, and the others' as they were.
LEMMA ProducerTyped ==
  ASSUME NEW n \in Nat, NEW m \in Nat, n <= m, ProducersTyped(n), NEW p \in Producers,
         NEW l \in PPcs, NEW d \in 0..n, NEW w \in Words, NEW k \in 0..Items,
         l \notin {"idle", "gate", "loadHead", "release"} => d # None,
         l # "idle" => k >= 1,
         ppc' = [ppc EXCEPT ![p] = l], ring' = [ring EXCEPT ![p] = d],
         seen' = [seen EXCEPT ![p] = w], made' = [made EXCEPT ![p] = k]
  PROVE  ProducersTyped(m)'
<1>1. /\ ppc \in [Producers -> PPcs] /\ ring \in [Producers -> 0..n]
      /\ seen \in [Producers -> Words] /\ made \in [Producers -> 0..Items]
  BY DEF ProducersTyped
<1>2. ppc' \in [Producers -> PPcs] /\ seen' \in [Producers -> Words] /\ made' \in [Producers -> 0..Items]
  BY <1>1
<1>3. ring' \in [Producers -> 0..m]
  <2>1. \A i \in 0..n : i \in 0..m
    OBVIOUS
  <2>2. DOMAIN ring' = Producers /\ \A i \in Producers : ring'[i] \in 0..n
    BY <1>1
  <2>3. ring' = [i \in Producers |-> ring'[i]]
    BY <1>1
  <2> QED BY <2>1, <2>2, <2>3
<1>4. ASSUME NEW i \in Producers
      PROVE  /\ ppc'[i] \notin {"idle", "gate", "loadHead", "release"} => ring'[i] # None
             /\ ppc'[i] # "idle" => made'[i] >= 1
  <2>1. CASE i = p
    BY <1>1, <2>1
  <2>2. CASE i # p
    <3>1. ppc'[i] = ppc[i] /\ ring'[i] = ring[i] /\ made'[i] = made[i]
      BY <1>1, <2>2
    <3> QED BY <3>1 DEF ProducersTyped
  <2> QED BY <2>1, <2>2
<1> QED BY <1>2, <1>3, <1>4 DEF ProducersTyped

LEMMA ProducerParts ==
  ASSUME NEW n \in Nat, ProducersTyped(n), NEW p \in Producers
  PROVE  /\ ring[p] \in 0..n /\ seen[p] \in Words /\ made[p] \in 0..Items /\ ppc[p] \in PPcs
         /\ ppc = [ppc EXCEPT ![p] = ppc[p]] /\ ring = [ring EXCEPT ![p] = ring[p]]
         /\ seen = [seen EXCEPT ![p] = seen[p]] /\ made = [made EXCEPT ![p] = made[p]]
         /\ ppc[p] \notin {"idle", "gate", "loadHead", "release"} => ring[p] \in 1..n
         /\ ppc[p] # "idle" => made[p] >= 1
BY DEF ProducersTyped, None

LEMMA PushingTyped ==
  ASSUME TypeInv, NEW p \in Producers, Push(p) \/ Pushing(p)
  PROVE  TypeInv'
<1>1. PICK n \in Nat : n = Len(rings) /\ n >= 1
  BY TypesOfRings DEF TypeInv
<1>2. /\ RingsTyped(n) /\ Ends(n) /\ ProducersTyped(n) /\ ConsumersTyped(n)
  BY <1>1, TypeParts
<1>3. \A d \in 1..n : rings[d] \in Ring /\ rings[d].next \in 0..n
  BY <1>2, RingsParts
<1>4. UNCHANGED <<tail, cpc, cring, cnext, cseen, val, popped, before>>
  BY DEF Push, Pushing, Gate, LoadHead, LoadIndices, Reserve, Store, Grow, NewHead, Link, Release,
         ChainUnchanged, consumerVars
\* the ring and the word that the producer looks at
<1>5. /\ ring[p] \in 0..n /\ seen[p] \in Words /\ made[p] \in 0..Items /\ ppc[p] \in PPcs
      /\ ppc = [ppc EXCEPT ![p] = ppc[p]] /\ ring = [ring EXCEPT ![p] = ring[p]]
      /\ seen = [seen EXCEPT ![p] = seen[p]] /\ made = [made EXCEPT ![p] = made[p]]
      /\ ppc[p] \notin {"idle", "gate", "loadHead", "release"} => ring[p] \in 1..n
      /\ ppc[p] # "idle" => made[p] >= 1
  BY <1>1, <1>2, ProducerParts
<1>6. ASSUME NEW m \in Nat, n <= m, RingsTyped(m)',
             head' \in 1..m, newChain' \in 0..1,
             NEW l \in PPcs, NEW d \in 0..n, NEW w \in Words, NEW k \in 0..Items,
             l \notin {"idle", "gate", "loadHead", "release"} => d # None,
             l # "idle" => k >= 1,
             ppc' = [ppc EXCEPT ![p] = l], ring' = [ring EXCEPT ![p] = d],
             seen' = [seen EXCEPT ![p] = w], made' = [made EXCEPT ![p] = k]
      PROVE  TypeInv'
  <2>1. ProducersTyped(m)'
    BY <1>1, <1>2, <1>6, ProducerTyped
  <2>2. Ends(m)'
    BY <1>1, <1>2, <1>4, <1>6 DEF Ends
  <2>3. ConsumersTyped(m)'
    <3>1. 0..n \subseteq 0..m
      BY <1>1, <1>6
    <3> QED BY <1>2, <1>4, <3>1 DEF ConsumersTyped
  <2> QED BY <1>6, <2>1, <2>2, <2>3, TypedNext
<1>17. ASSUME RingsTyped(n)', UNCHANGED head, newChain' \in 0..1,
              NEW l \in PPcs, NEW d \in 0..n, NEW w \in Words, NEW k \in 0..Items,
              l \notin {"idle", "gate", "loadHead", "release"} => d # None,
              l # "idle" => k >= 1,
              ppc' = [ppc EXCEPT ![p] = l], ring' = [ring EXCEPT ![p] = d],
              seen' = [seen EXCEPT ![p] = w], made' = [made EXCEPT ![p] = k]
       PROVE  TypeInv'
  <2>1. head' \in 1..n /\ n \in Nat /\ n <= n
    BY <1>1, <1>2, <1>17 DEF Ends
  <2> QED BY <1>6, <1>17, <2>1
<1>18. newChain \in 0..1 /\ 0 \in 0..1 /\ 1 \in 0..1 /\ (rings' = rings => RingsTyped(n)')
       /\ (\A d \in 1..n : d # None /\ d \in 0..n)
  BY <1>1, <1>2 DEF Ends, None, RingsTyped
<1>7. CASE Push(p)
  <2>1. rings' = rings /\ head' = head /\ newChain' = newChain /\ UNCHANGED <<ring, seen>>
        /\ ppc' = [ppc EXCEPT ![p] = "gate"] /\ made' = [made EXCEPT ![p] = made[p] + 1]
        /\ made[p] + 1 \in 1..Items
    BY <1>5, <1>7, BufChainAssumption DEF Push, ChainUnchanged, PGoto
  <2>2. made[p] + 1 \in 0..Items /\ made[p] + 1 >= 1
    BY <1>5, <2>1
  <2> QED BY <1>5, <1>17, <1>18, <2>1, <2>2 DEF PPcs
<1>8. CASE Gate(p)
  <2>1. UNCHANGED <<rings, head, newChain, ring, seen, made>> /\ ppc' = [ppc EXCEPT ![p] = "loadHead"]
        /\ ppc[p] = "gate"
    BY <1>8 DEF Gate, ChainUnchanged, PGoto
  <2> QED BY <1>5, <1>17, <1>18, <2>1 DEF PPcs
<1>9. CASE LoadHead(p)
  <2>1. UNCHANGED <<rings, head, newChain, seen, made>> /\ ppc' = [ppc EXCEPT ![p] = "loadIndices"]
        /\ ring' = [ring EXCEPT ![p] = head] /\ ppc[p] = "loadHead" /\ head \in 1..n
    BY <1>2, <1>9 DEF LoadHead, ChainUnchanged, PGoto, Ends
  <2> QED BY <1>5, <1>17, <1>18, <2>1 DEF PPcs
<1>10. CASE LoadIndices(p)
  <2>1. ring[p] \in 1..n /\ rings[ring[p]].headTail \in Words
    BY <1>3, <1>5, <1>10, RingShape DEF LoadIndices
  <2>2. PICK l \in {"grow", "reserve"} : ppc' = [ppc EXCEPT ![p] = l]
    BY <1>10 DEF LoadIndices, PGoto
  <2>3. UNCHANGED <<rings, head, newChain, ring, made>> /\ ppc[p] = "loadIndices"
        /\ seen' = [seen EXCEPT ![p] = rings[ring[p]].headTail]
    BY <1>10 DEF LoadIndices, ChainUnchanged
  <2> QED BY <1>5, <1>17, <1>18, <2>1, <2>2, <2>3 DEF PPcs
<1>11. CASE Reserve(p)
  <2>1. ring[p] \in 1..n /\ rings[ring[p]] \in Ring
    BY <1>3, <1>5, <1>11 DEF Reserve
  <2> DEFINE w == pack(Head_(seen[p]) + 1, Tail_(seen[p]))
             r == [rings[ring[p]] EXCEPT !.headTail = w]
  <2>2. r \in Ring /\ r.next \in 0..n
    BY <1>5, <1>3, <2>1, HeadMoves, RingChanged DEF Ring
  <2>3. rings' = rings \/ rings' = [rings EXCEPT ![ring[p]] = r]
    BY <1>11 DEF Reserve
  <2> HIDE DEF r
  <2>4. RingsTyped(n)'
    BY <1>1, <1>2, <2>1, <2>2, <2>3, <1>18, OneRingTyped
  <2>5. PICK l \in {"store", "loadIndices"} : ppc' = [ppc EXCEPT ![p] = l]
    BY <1>11 DEF Reserve, PGoto
  <2>6. UNCHANGED <<head, newChain, ring, seen, made>> /\ ppc[p] = "reserve"
    BY <1>11 DEF Reserve
  <2> QED BY <1>5, <1>17, <1>18, <2>1, <2>4, <2>5, <2>6 DEF PPcs
<1>12. CASE Store(p)
  <2>1. ring[p] \in 1..n /\ rings[ring[p]] \in Ring /\ Value(p) \in AllValues
    BY <1>3, <1>5, <1>12, ValueTyped DEF Store
  <2> DEFINE r == [rings[ring[p]] EXCEPT !.vals = [rings[ring[p]].vals EXCEPT ![Reserved(p)] = Value(p)]]
  <2>2. r \in Ring /\ r.next \in 0..n
    BY <1>3, <2>1, RingChanged DEF Ring, Zenon
  <2>3. rings' = [rings EXCEPT ![ring[p]] = r]
    BY <1>12 DEF Store
  <2> HIDE DEF r
  <2>4. RingsTyped(n)'
    BY <1>1, <1>2, <2>1, <2>2, <2>3, <1>18, OneRingTyped
  <2>5. UNCHANGED <<head, newChain, ring, seen, made>> /\ ppc[p] = "store"
        /\ ppc' = [ppc EXCEPT ![p] = "idle"]
    BY <1>12 DEF Store, PGoto
  <2> QED BY <1>5, <1>17, <1>18, <2>4, <2>5 DEF PPcs
<1>13. CASE Grow(p)
  <2>1. PICK l \in {"newHead", "gate"} : ppc' = [ppc EXCEPT ![p] = l]
    BY <1>13 DEF Grow, PGoto
  <2>2. UNCHANGED <<rings, head, ring, seen, made>> /\ ppc[p] = "grow" /\ newChain' \in {1, newChain}
    BY <1>13 DEF Grow
  <2> QED BY <1>5, <1>17, <1>18, <2>1, <2>2 DEF PPcs
<1>14. CASE Link(p)
  <2>1. ring[p] \in 1..n /\ rings[ring[p]] \in Ring /\ head \in 0..n /\ head \in Nat
    BY <1>2, <1>3, <1>5, <1>14 DEF Link, Ends
  <2> DEFINE r == [rings[ring[p]] EXCEPT !.next = head]
  <2>2. r \in Ring /\ r.next \in 0..n
    BY <1>3, <2>1, RingChanged DEF Ring
  <2>3. rings' = [rings EXCEPT ![ring[p]] = r]
    BY <1>14 DEF Link
  <2> HIDE DEF r
  <2>4. RingsTyped(n)'
    BY <1>1, <1>2, <2>1, <2>2, <2>3, <1>18, OneRingTyped
  <2>5. UNCHANGED <<head, newChain, ring, seen, made>> /\ ppc[p] = "link"
        /\ ppc' = [ppc EXCEPT ![p] = "release"]
    BY <1>14 DEF Link, PGoto
  <2> QED BY <1>5, <1>17, <1>18, <2>4, <2>5 DEF PPcs
<1>15. CASE Release(p)
  <2>1. UNCHANGED <<rings, head, ring, seen, made>> /\ newChain' = 0
        /\ ppc' = [ppc EXCEPT ![p] = "idle"]
    BY <1>15 DEF Release, PGoto
  <2> QED BY <1>5, <1>17, <1>18, <2>1 DEF PPcs
<1>16. CASE NewHead(p)
  <2>1. ring[p] \in 1..n /\ rings[ring[p]] \in Ring /\ Value(p) \in AllValues
    BY <1>3, <1>5, <1>16, ValueTyped DEF NewHead
  <2> DEFINE m == NextSize(Len_(rings[ring[p]]))
  <2>2. m \in 1..dequeueLimit
    BY <2>1, RingShape, SizesGrow
  <2>3. PICK q \in Ring : rings' = Append(rings, q) /\ q.next = 0
    <3>1. rings' = Append(rings, Started(m, Value(p)))
      BY <1>16 DEF NewHead, Started
    <3> HIDE DEF m
    <3> QED BY <2>1, <2>2, <3>1, HeadRing DEF None
  <2>4. RingsTyped(n + 1)'
    BY <1>1, <1>2, <1>3, <2>3 DEF RingsTyped
  <2>5. UNCHANGED <<newChain, ring, seen, made>> /\ ppc[p] = "newHead" /\ head' = n + 1
        /\ ppc' = [ppc EXCEPT ![p] = "link"]
    BY <1>1, <1>16 DEF NewHead, PGoto
  <2>6. n + 1 \in Nat /\ n <= n + 1 /\ head' \in 1..n+1 /\ newChain' \in 0..1
    BY <1>1, <1>2, <2>5 DEF Ends
  <2> QED BY <1>1, <1>5, <1>6, <2>4, <2>5, <2>6 DEF PPcs, None
<1> QED BY <1>7, <1>8, <1>9, <1>10, <1>11, <1>12, <1>13, <1>14, <1>15, <1>16 DEF Pushing

\* A step of one consumer: its counter, rings, word and value, typed, and the others' as they were.
LEMMA ConsumerTyped ==
  ASSUME NEW n \in Nat, ConsumersTyped(n), NEW c \in Consumers,
         NEW l \in CPcs, NEW d \in 0..n, NEW e \in 0..n, NEW w \in Words,
         NEW v \in AllValues \cup {Nil},
         l \notin {"idle", "empty"} => d # None,
         l \in {"take", "moveTail"} => v # Nil,
         cpc' = [cpc EXCEPT ![c] = l], cring' = [cring EXCEPT ![c] = d],
         cnext' = [cnext EXCEPT ![c] = e], cseen' = [cseen EXCEPT ![c] = w],
         val' = [val EXCEPT ![c] = v],
         popped' \in Seq(AllValues), before' \in [Consumers -> SUBSET AllValues]
  PROVE  ConsumersTyped(n)'
<1>1. /\ cpc \in [Consumers -> CPcs] /\ cring \in [Consumers -> 0..n]
      /\ cnext \in [Consumers -> 0..n] /\ cseen \in [Consumers -> Words]
      /\ val \in [Consumers -> AllValues \cup {Nil}]
  BY DEF ConsumersTyped
<1>2. /\ cpc' \in [Consumers -> CPcs] /\ cring' \in [Consumers -> 0..n]
      /\ cnext' \in [Consumers -> 0..n] /\ cseen' \in [Consumers -> Words]
      /\ val' \in [Consumers -> AllValues \cup {Nil}]
  BY <1>1
<1>3. ASSUME NEW i \in Consumers
      PROVE  /\ cpc'[i] \notin {"idle", "empty"} => cring'[i] # None
             /\ cpc'[i] \in {"take", "moveTail"} => val'[i] # Nil
  <2>1. CASE i = c
    BY <1>1, <2>1
  <2>2. CASE i # c
    <3>1. cpc'[i] = cpc[i] /\ cring'[i] = cring[i] /\ val'[i] = val[i]
      BY <1>1, <2>2
    <3> QED BY <3>1 DEF ConsumersTyped
  <2> QED BY <2>1, <2>2
<1> QED BY <1>2, <1>3 DEF ConsumersTyped

LEMMA ConsumerParts ==
  ASSUME NEW n \in Nat, ConsumersTyped(n), NEW c \in Consumers
  PROVE  /\ cring[c] \in 0..n /\ cnext[c] \in 0..n /\ cseen[c] \in Words
         /\ val[c] \in AllValues \cup {Nil} /\ cpc[c] \in CPcs
         /\ cpc = [cpc EXCEPT ![c] = cpc[c]] /\ cring = [cring EXCEPT ![c] = cring[c]]
         /\ cnext = [cnext EXCEPT ![c] = cnext[c]] /\ cseen = [cseen EXCEPT ![c] = cseen[c]]
         /\ val = [val EXCEPT ![c] = val[c]]
         /\ cpc[c] \notin {"idle", "empty"} => cring[c] \in 1..n
         /\ cpc[c] \in {"take", "moveTail"} => val[c] \in AllValues
         /\ popped \in Seq(AllValues) /\ before \in [Consumers -> SUBSET AllValues]
BY DEF ConsumersTyped, None

LEMMA SlotInRing ==
  ASSUME NEW r \in Ring, NEW i \in Nat
  PROVE  Slot(r, i) \in 0..Len_(r)-1
BY RingShape DEF Slot

LEMMA ValueNotNil == \A v \in AllValues : v # Nil
BY DEF AllValues, Nil

\* An addition to a word yields a word, whatever index was seen before it.
LEMMA TailKept ==
  ASSUME NEW w \in Words, NEW t
  PROVE  NextTail(w, t) \in Words
<1> DEFINE m == Indices * Indices
<1>1. m \in Nat /\ m > 0 /\ w \in 0..m-1 /\ Indices \in Nat /\ m - (Indices - 1) \in Int
  BY Widths DEF Words
<1>2. NextTail(w, t) \in {(w + 1) % m, (w + m - (Indices - 1)) % m}
  BY DEF NextTail
<1>3. Words = 0..m-1
  BY DEF Words
<1> HIDE DEF m
<1> QED BY <1>1, <1>2, <1>3

LEMMA PoppingTyped ==
  ASSUME TypeInv, NEW c \in Consumers, Popping(c)
  PROVE  TypeInv'
<1>1. PICK n \in Nat : n = Len(rings) /\ n >= 1
  BY TypesOfRings DEF TypeInv
<1>2. /\ RingsTyped(n) /\ Ends(n) /\ ProducersTyped(n) /\ ConsumersTyped(n)
  BY <1>1, TypeParts
<1>3. \A d \in 1..n : rings[d] \in Ring /\ rings[d].next \in 0..n
  BY <1>2, RingsParts
<1>4. UNCHANGED <<head, newChain, ppc, ring, seen, made>>
  BY DEF Popping, Pop, LoadNext, PopLoadIndices, LoadSlot, Take, MoveTail, Advance, ReturnEmpty,
         ChainUnchanged, producerVars
<1>5. /\ cring[c] \in 0..n /\ cnext[c] \in 0..n /\ cseen[c] \in Words
      /\ val[c] \in AllValues \cup {Nil} /\ cpc[c] \in CPcs
      /\ cpc = [cpc EXCEPT ![c] = cpc[c]] /\ cring = [cring EXCEPT ![c] = cring[c]]
      /\ cnext = [cnext EXCEPT ![c] = cnext[c]] /\ cseen = [cseen EXCEPT ![c] = cseen[c]]
      /\ val = [val EXCEPT ![c] = val[c]]
      /\ cpc[c] \notin {"idle", "empty"} => cring[c] \in 1..n
      /\ cpc[c] \in {"take", "moveTail"} => val[c] \in AllValues
      /\ popped \in Seq(AllValues) /\ before \in [Consumers -> SUBSET AllValues]
  BY <1>1, <1>2, ConsumerParts
<1>6. ASSUME RingsTyped(n)', tail' \in 1..n,
             NEW l \in CPcs, NEW d \in 0..n, NEW e \in 0..n, NEW w \in Words,
             NEW v \in AllValues \cup {Nil},
             l \notin {"idle", "empty"} => d # None,
             l \in {"take", "moveTail"} => v # Nil,
             cpc' = [cpc EXCEPT ![c] = l], cring' = [cring EXCEPT ![c] = d],
             cnext' = [cnext EXCEPT ![c] = e], cseen' = [cseen EXCEPT ![c] = w],
             val' = [val EXCEPT ![c] = v],
             popped' \in Seq(AllValues), before' \in [Consumers -> SUBSET AllValues]
      PROVE  TypeInv'
  <2>1. ConsumersTyped(n)'
    BY <1>1, <1>2, <1>6, ConsumerTyped
  <2>2. Ends(n)' /\ ProducersTyped(n)'
    BY <1>2, <1>4, <1>6 DEF Ends, ProducersTyped
  <2> QED BY <1>6, <2>1, <2>2, TypedNext
<1>7. (rings' = rings => RingsTyped(n)') /\ tail \in 1..n /\ \A d \in 1..n : d # None /\ d \in 0..n
  BY <1>1, <1>2 DEF Ends, None, RingsTyped
<1>8. CASE Pop(c)
  <2>1. UNCHANGED <<rings, tail, cnext, cseen, val, popped>> /\ cring' = [cring EXCEPT ![c] = tail]
        /\ cpc' = [cpc EXCEPT ![c] = "loadNext"] /\ before' \in [Consumers -> SUBSET AllValues]
    BY <1>5, <1>8 DEF Pop, ChainUnchanged, CGoto, Returned
  <2>2. "loadNext" \in CPcs /\ tail \in 0..n /\ tail # None
    BY <1>7 DEF CPcs
  <2> QED BY <1>5, <1>6, <1>7, <2>1, <2>2, ZenonT(60)
<1>9. CASE LoadNext(c)
  <2>1. cring[c] \in 1..n /\ rings[cring[c]].next \in 0..n
    BY <1>3, <1>5, <1>9 DEF LoadNext
  <2>2. UNCHANGED <<rings, tail, cring, cseen, val, popped, before>>
        /\ cnext' = [cnext EXCEPT ![c] = rings[cring[c]].next]
        /\ cpc' = [cpc EXCEPT ![c] = "loadIndices"]
    BY <1>9 DEF LoadNext, ChainUnchanged, CGoto
  <2>3. "loadIndices" \in CPcs /\ cring[c] # None
    BY <1>7, <2>1 DEF CPcs
  <2> QED BY <1>5, <1>6, <1>7, <2>1, <2>2, <2>3, ZenonT(60)
<1>10. CASE PopLoadIndices(c)
  <2>1. cring[c] \in 1..n /\ cring[c] # None /\ rings[cring[c]].headTail \in Words
    BY <1>3, <1>5, <1>7, <1>10, RingShape DEF PopLoadIndices
  <2>2. UNCHANGED <<rings, tail, cring, cnext, val, popped, before>>
        /\ cseen' = [cseen EXCEPT ![c] = rings[cring[c]].headTail]
    BY <1>10 DEF PopLoadIndices, ChainUnchanged
  <2>3. PICK l \in {"drained", "loadSlot"} : cpc' = [cpc EXCEPT ![c] = l]
    BY <1>10 DEF PopLoadIndices, CGoto
  <2>4. l \in CPcs /\ l \notin {"take", "moveTail"}
    BY <2>3 DEF CPcs
  <2> QED BY <1>5, <1>6, <1>7, <2>1, <2>2, <2>3, <2>4, ZenonT(60)
<1>11. CASE LoadSlot(c)
  <2> DEFINE v == rings[cring[c]].vals[Candidate(c)]
  <2>1. cring[c] \in 1..n /\ cring[c] # None
    BY <1>5, <1>7, <1>11 DEF LoadSlot
  <2>2. v \in AllValues \cup {Nil}
    <3>1. rings[cring[c]] \in Ring
      BY <1>3, <2>1
    <3>2. Candidate(c) \in 0..Len_(rings[cring[c]])-1
      BY <1>5, <3>1, RingShape, SlotInRing, WordParts DEF Candidate
    <3> QED BY <3>1, <3>2, RingShape
  <2>3. UNCHANGED <<rings, tail, cring, cnext, cseen, popped, before>>
        /\ val' = [val EXCEPT ![c] = v] /\ val'[c] = v
    <3>1. DOMAIN val = Consumers
      BY <1>2 DEF ConsumersTyped
    <3> QED BY <1>11, <3>1 DEF LoadSlot, ChainUnchanged
  <2> HIDE DEF v
  <2>4. PICK l \in {"loadIndices", "take"} : cpc' = [cpc EXCEPT ![c] = l] /\ (l = "take" => v # Nil)
    BY <1>11, <2>3 DEF LoadSlot, CGoto
  <2>5. l \in CPcs /\ (l \in {"take", "moveTail"} => v # Nil)
    BY <2>4 DEF CPcs
  <2> QED BY <1>5, <1>6, <1>7, <2>1, <2>2, <2>3, <2>4, <2>5, ZenonT(60)
<1>12. CASE Take(c)
  <2>1. cring[c] \in 1..n /\ cring[c] # None /\ rings[cring[c]] \in Ring
        /\ rings[cring[c]].next \in 0..n /\ val[c] \in AllValues
    BY <1>3, <1>5, <1>7, <1>12 DEF Take
  <2> DEFINE i == Candidate(c)
             r == [rings[cring[c]] EXCEPT !.vals = [rings[cring[c]].vals EXCEPT ![i] = Nil]]
  <2>2. r \in Ring /\ r.next \in 0..n
    BY <2>1, RingChanged DEF Ring
  <2>3. rings' = rings \/ rings' = [rings EXCEPT ![cring[c]] = r]
    BY <1>12 DEF Take, Emptied
  <2> HIDE DEF r
  <2>4. RingsTyped(n)'
    BY <1>1, <1>2, <1>7, <2>1, <2>2, <2>3, OneRingTyped
  <2>5. PICK l \in {"moveTail", "loadIndices"} : cpc' = [cpc EXCEPT ![c] = l]
    BY <1>12 DEF Take, CGoto
  <2>6. UNCHANGED <<tail, cring, cnext, cseen, val, popped, before>>
    BY <1>12 DEF Take
  <2>7. l \in CPcs /\ val[c] # Nil
    BY <2>1, <2>5, ValueNotNil DEF CPcs
  <2>8. /\ RingsTyped(n)' /\ tail' \in 1..n /\ l \in CPcs /\ cring[c] \in 0..n /\ cnext[c] \in 0..n
        /\ cseen[c] \in Words /\ val[c] \in AllValues \cup {Nil}
        /\ (l \notin {"idle", "empty"} => cring[c] # None) /\ (l \in {"take", "moveTail"} => val[c] # Nil)
        /\ cpc' = [cpc EXCEPT ![c] = l] /\ cring' = [cring EXCEPT ![c] = cring[c]]
        /\ cnext' = [cnext EXCEPT ![c] = cnext[c]] /\ cseen' = [cseen EXCEPT ![c] = cseen[c]]
        /\ val' = [val EXCEPT ![c] = val[c]]
        /\ popped' \in Seq(AllValues) /\ before' \in [Consumers -> SUBSET AllValues]
    BY <1>5, <1>7, <2>1, <2>4, <2>5, <2>6, <2>7
  <2> QED BY <1>6, <2>8, Zenon
<1>13. CASE MoveTail(c)
  <2>1. cring[c] \in 1..n /\ cring[c] # None /\ rings[cring[c]] \in Ring
        /\ rings[cring[c]].next \in 0..n /\ val[c] \in AllValues
    BY <1>3, <1>5, <1>7, <1>13 DEF MoveTail
  <2> DEFINE w == NextTail(rings[cring[c]].headTail, Tail_(cseen[c]))
             r == [rings[cring[c]] EXCEPT !.headTail = w]
  <2>2. r \in Ring /\ r.next \in 0..n
    <3>1. w \in Words
      BY <1>5, <2>1, RingShape, TailKept
    <3> HIDE DEF w
    <3> QED BY <2>1, <3>1, RingChanged DEF Ring
  <2>3. rings' = [rings EXCEPT ![cring[c]] = r]
    BY <1>13 DEF MoveTail
  <2> HIDE DEF r
  <2>4. RingsTyped(n)'
    BY <1>1, <1>2, <2>1, <2>2, <2>3, OneRingTyped
  <2>5. cpc' = [cpc EXCEPT ![c] = "idle"] /\ UNCHANGED <<tail, cring, cnext, cseen, before>>
        /\ val' = [val EXCEPT ![c] = Nil] /\ popped' \in Seq(AllValues)
    BY <1>5, <1>13, <2>1 DEF MoveTail, CGoto
  <2>6. "idle" \in CPcs /\ Nil \in AllValues \cup {Nil}
    BY DEF CPcs
  <2> QED BY <1>5, <1>6, <1>7, <2>1, <2>4, <2>5, <2>6
<1>14. CASE Advance(c)
  <2>1. cnext[c] \in 1..n /\ cnext[c] # None
    BY <1>5, <1>14 DEF Advance, Successor, None
  <2>2. UNCHANGED <<rings, cnext, cseen, val, popped, before>> /\ tail' \in {tail, cnext[c]}
        /\ cring' = [cring EXCEPT ![c] = cnext[c]] /\ cpc' = [cpc EXCEPT ![c] = "loadNext"]
    BY <1>14 DEF Advance, Successor, CGoto
  <2>3. "loadNext" \in CPcs
    BY DEF CPcs
  <2>4. /\ RingsTyped(n)' /\ tail' \in 1..n /\ "loadNext" \in CPcs /\ cnext[c] \in 0..n /\ cnext[c] \in 0..n
        /\ cseen[c] \in Words /\ val[c] \in AllValues \cup {Nil}
        /\ ("loadNext" \notin {"idle", "empty"} => cnext[c] # None) /\ ("loadNext" \in {"take", "moveTail"} => val[c] # Nil)
        /\ cpc' = [cpc EXCEPT ![c] = "loadNext"] /\ cring' = [cring EXCEPT ![c] = cnext[c]]
        /\ cnext' = [cnext EXCEPT ![c] = cnext[c]] /\ cseen' = [cseen EXCEPT ![c] = cseen[c]]
        /\ val' = [val EXCEPT ![c] = val[c]]
        /\ popped' \in Seq(AllValues) /\ before' \in [Consumers -> SUBSET AllValues]
    BY <1>5, <1>7, <2>1, <2>2, <2>3
  <2> QED BY <1>6, <2>4, Zenon
<1>15. CASE ReturnEmpty(c)
  <2>1. UNCHANGED <<rings, tail, cring, cnext, cseen, val, popped, before>>
        /\ cpc' = [cpc EXCEPT ![c] = "empty"]
    BY <1>15 DEF ReturnEmpty, CGoto, ChainUnchanged
  <2>2. "empty" \in CPcs
    BY DEF CPcs
  <2>3. /\ RingsTyped(n)' /\ tail' \in 1..n /\ "empty" \in CPcs /\ cring[c] \in 0..n /\ cnext[c] \in 0..n
        /\ cseen[c] \in Words /\ val[c] \in AllValues \cup {Nil}
        /\ ("empty" \notin {"idle", "empty"} => cring[c] # None) /\ ("empty" \in {"take", "moveTail"} => val[c] # Nil)
        /\ cpc' = [cpc EXCEPT ![c] = "empty"] /\ cring' = [cring EXCEPT ![c] = cring[c]]
        /\ cnext' = [cnext EXCEPT ![c] = cnext[c]] /\ cseen' = [cseen EXCEPT ![c] = cseen[c]]
        /\ val' = [val EXCEPT ![c] = val[c]]
        /\ popped' \in Seq(AllValues) /\ before' \in [Consumers -> SUBSET AllValues]
    BY <1>5, <1>7, <2>1, <2>2
  <2> QED BY <1>6, <2>3, Zenon
<1> QED BY <1>8, <1>9, <1>10, <1>11, <1>12, <1>13, <1>14, <1>15 DEF Popping

\* Every variable of the chain of rings has its type: no index leaves the width of a word
\* or the slots of its ring, no ring grows past the limit and no goroutine follows a link
\* or a ring that is not there (queue.go bufDequeue, bufChain).
THEOREM ChainTyped == Spec => []TypeOK
<1>1. Init => TypeInv
  BY TypesInitially
<1>2. TypeInv /\ [Next]_vars => TypeInv'
  <2> SUFFICES ASSUME TypeInv, [Next]_vars PROVE TypeInv'
    OBVIOUS
  <2>1. CASE Next
    BY <2>1, PushingTyped, PoppingTyped DEF Next
  <2>2. CASE UNCHANGED vars
    BY <2>2 DEF vars, producerVars, consumerVars, TypeInv, TypeOK
  <2> QED BY <2>1, <2>2
<1>3. TypeInv => TypeOK
  BY DEF TypeInv
<1> QED BY <1>1, <1>2, <1>3, PTL DEF Spec

-----------------------------------------------------------------------------
(* One ring.  Its window starts at the tail and is as long as head is ahead;  *)
(* the slots outside are empty.                                              *)

Bottom(r) == Tail_(r.headTail)
Top(r) == Head_(r.headTail)
Count(r) == Ahead(Bottom(r), Top(r))
At(r, i) == r.vals[Slot(r, i)]
Offset(r, i) == Ahead(Bottom(r), i)

Whole(r) ==
  /\ Indices % Len_(r) = 0 /\ Count(r) <= Len_(r)
  /\ \A i \in 0..Indices-1 : Offset(r, i) \in Count(r)..Len_(r)-1 => At(r, i) = Nil

LEMMA Window ==
  ASSUME NEW r \in Ring
  PROVE  /\ Bottom(r) \in 0..Indices-1 /\ Top(r) \in 0..Indices-1 /\ Count(r) \in 0..Indices-1
         /\ \A i \in 0..Indices-1 : Offset(r, i) \in 0..Indices-1 /\ Slot(r, i) \in DOMAIN r.vals
         /\ Offset(r, Bottom(r)) = 0 /\ Offset(r, Top(r)) = Count(r)
         /\ Len_(r) \in 1..dequeueLimit /\ 4 * Len_(r) <= Indices
<1>1. Bottom(r) \in 0..Indices-1 /\ Top(r) \in 0..Indices-1 /\ Len_(r) \in 1..dequeueLimit
      /\ DOMAIN r.vals = 0..Len_(r)-1
  BY RingShape, WordParts DEF Bottom, Top
<1>2. \A i \in 0..Indices-1 : Offset(r, i) \in 0..Indices-1 /\ (Offset(r, i) = 0 <=> i = Bottom(r))
  BY <1>1, AheadMoves DEF Offset
<1>3. \A i \in 0..Indices-1 : Slot(r, i) \in 0..Len_(r)-1
  BY Widths, SlotInRing
<1>4. 4 * Len_(r) <= Indices
  BY <1>1, Widths
<1> QED BY <1>1, <1>2, <1>3, <1>4 DEF Offset, Count

\* Two indices less than the length from the tail have slots of their own.
LEMMA OwnSlots ==
  ASSUME NEW r \in Ring, Whole(r), NEW i \in 0..Indices-1, NEW j \in 0..Indices-1,
         Offset(r, i) < Len_(r), Offset(r, j) < Len_(r), Slot(r, i) = Slot(r, j)
  PROVE  i = j
<1> DEFINE l == Len_(r)
           t == Bottom(r)
<1>1. l \in Nat /\ l > 0 /\ l <= Indices /\ Indices % l = 0 /\ t \in 0..Indices-1
  BY Window, Widths DEF Whole
<1>2. Ahead(t, i) < l /\ Ahead(t, j) < l /\ i % l = j % l
  BY DEF Offset, Slot
<1> HIDE DEF l, t
<1> QED BY <1>1, <1>2, SlotsDiffer

LEMMA FullRing ==
  ASSUME NEW r \in Ring, NEW w \in Words
  PROVE  Full(r, w) <=> Ahead(Tail_(w), Head_(w)) = Len_(r)
<1> DEFINE t == Tail_(w)
           h == Head_(w)
           l == Len_(r)
<1>1. t \in 0..Indices-1 /\ h \in 0..Indices-1 /\ l \in Nat /\ l >= 1 /\ 4 * l <= Indices
      /\ Indices \in Nat
  BY WordParts, Window, Widths
<1>2. (t + l) % Indices = IF t + l < Indices THEN t + l ELSE t + l - Indices
  <2> HIDE DEF t, l
  <2>1. CASE t + l < Indices
    <3>1. t + l \in 0..Indices-1
      BY <1>1, <2>1
    <3> QED BY <2>1, <3>1, NextIndex
  <2>2. CASE t + l >= Indices
    <3>1. t + l - Indices \in 0..Indices-1 /\ t + l = 1 * Indices + (t + l - Indices)
      BY <1>1, <2>2
    <3>2. (1 * Indices + (t + l - Indices)) % Indices = t + l - Indices
      BY <1>1, <3>1, Division
    <3> QED BY <1>1, <2>2, <3>1, <3>2
  <2> QED BY <1>1, <2>1, <2>2
<1>3. Full(r, w) <=> (t + l) % Indices = h
  BY DEF Full
<1> HIDE DEF t, h, l
<1>4. Full(r, w) <=> Ahead(t, h) = l
  BY <1>1, <1>2, <1>3 DEF Ahead
<1> QED BY <1>4 DEF t, h, l

Lengthened(r) == [r EXCEPT !.headTail = pack(Top(r) + 1, Bottom(r))]

\* Moving the head over a free slot adds it to the window.
LEMMA RingReserved ==
  ASSUME NEW r \in Ring, Whole(r), ~Full(r, r.headTail),
         NEW q, q = Lengthened(r)
  PROVE  /\ q \in Ring /\ Whole(q) /\ Len_(q) = Len_(r) /\ q.next = r.next
         /\ Bottom(q) = Bottom(r) /\ Top(q) = Up(Top(r)) /\ Count(q) = Count(r) + 1
         /\ \A i : At(q, i) = At(r, i)
         /\ At(r, Top(r)) = Nil
<1> DEFINE w == pack(Top(r) + 1, Bottom(r))
<1>1. w \in Words /\ Head_(w) = Up(Top(r)) /\ Tail_(w) = Bottom(r)
  BY RingShape, HeadMoves DEF Top, Bottom
<1>2. /\ q \in Ring /\ Len_(q) = Len_(r) /\ q.next = r.next /\ q.vals = r.vals /\ q.headTail = w
  BY <1>1, RingChanged DEF Ring, Lengthened
<1> HIDE DEF w
<1>3. Bottom(q) = Bottom(r) /\ Top(q) = Up(Top(r))
  BY <1>1, <1>2 DEF Top, Bottom
<1>4. Count(r) < Len_(r)
  BY RingShape, FullRing, Window DEF Whole, Count, Bottom, Top
<1>5. Count(q) = Count(r) + 1
  BY <1>3, <1>4, Window, AheadMoves, Widths DEF Count
<1>6. \A i : At(q, i) = At(r, i)
  BY <1>2 DEF At, Slot
<1>7. At(r, Top(r)) = Nil
  BY <1>4, Window DEF Whole
<1>8. Whole(q)
  <2>1. \A i : Offset(q, i) = Offset(r, i)
    BY <1>3 DEF Offset
  <2> QED BY <1>2, <1>4, <1>5, <1>6, <2>1, Window DEF Whole
<1> QED BY <1>2, <1>3, <1>5, <1>6, <1>7, <1>8 DEF w

Written(r, i, v) == [r EXCEPT !.vals = [r.vals EXCEPT ![Slot(r, i)] = v]]

\* Writing a slot of the window leaves the others.
LEMMA RingWritten ==
  ASSUME NEW r \in Ring, Whole(r), NEW i \in 0..Indices-1, Offset(r, i) < Count(r),
         NEW v \in AllValues \cup {Nil},
         NEW q, q = Written(r, i, v)
  PROVE  /\ q \in Ring /\ Whole(q) /\ Len_(q) = Len_(r) /\ q.next = r.next
         /\ q.headTail = r.headTail
         /\ At(q, i) = v
         /\ \A j \in 0..Indices-1 : j # i /\ Offset(r, j) < Len_(r) => At(q, j) = At(r, j)
<1> DEFINE f == [r.vals EXCEPT ![Slot(r, i)] = v]
<1>1. q \in Ring /\ Len_(q) = Len_(r)
  <2>1. q = [r EXCEPT !.vals = [r.vals EXCEPT ![Slot(r, i)] = v]]
    BY DEF Written
  <2> QED BY <2>1, RingChanged
<1>2. q.next = r.next /\ q.headTail = r.headTail /\ q.vals = f
  BY DEF Ring, Written
<1>3. f[Slot(r, i)] = v /\ \A k \in DOMAIN r.vals : k # Slot(r, i) => f[k] = r.vals[k]
  BY Window
<1> HIDE DEF f
<1>4. \A j : Slot(q, j) = Slot(r, j) /\ Offset(q, j) = Offset(r, j) /\ Count(q) = Count(r)
  BY <1>1, <1>2 DEF Slot, Offset, Count, Bottom, Top
<1>5. At(q, i) = v
  BY <1>2, <1>3, <1>4 DEF At
<1>6. \A j \in 0..Indices-1 : j # i /\ Offset(r, j) < Len_(r) => At(q, j) = At(r, j)
  <2> SUFFICES ASSUME NEW j \in 0..Indices-1, j # i, Offset(r, j) < Len_(r)
               PROVE  At(q, j) = At(r, j)
    OBVIOUS
  <2>1. Offset(r, i) < Len_(r)
    BY Window DEF Whole
  <2>2. Slot(r, j) # Slot(r, i)
    BY <2>1, OwnSlots
  <2>3. Slot(r, j) \in DOMAIN r.vals
    BY Window
  <2> QED BY <1>2, <1>3, <1>4, <2>2, <2>3 DEF At
<1>7. Whole(q)
  <2>1. \A j \in 0..Indices-1 : Offset(r, j) \in Count(r)..Len_(r)-1 => At(q, j) = Nil
    BY <1>6, Window DEF Whole
  <2> QED BY <1>1, <1>4, <2>1 DEF Whole
<1> QED BY <1>1, <1>2, <1>5, <1>6, <1>7 DEF f

Shortened(r) == [r EXCEPT !.headTail = NextTail(r.headTail, Bottom(r))]

\* Moving the tail over an empty slot takes it from the window.
LEMMA RingShortened ==
  ASSUME NEW r \in Ring, Whole(r), Count(r) >= 1, At(r, Bottom(r)) = Nil,
         NEW q, q = Shortened(r)
  PROVE  /\ q \in Ring /\ Whole(q) /\ Len_(q) = Len_(r) /\ q.next = r.next
         /\ Bottom(q) = Up(Bottom(r)) /\ Top(q) = Top(r) /\ Count(q) = Count(r) - 1
         /\ \A i : At(q, i) = At(r, i)
         /\ \A i \in 0..Indices-1 : i # Bottom(r) => Offset(q, i) = Offset(r, i) - 1
         /\ Offset(q, Bottom(r)) = Indices - 1
<1> DEFINE w == NextTail(r.headTail, Bottom(r))
<1>1. w \in Words /\ Head_(w) = Top(r) /\ Tail_(w) = Up(Bottom(r))
  BY RingShape, TailMoves DEF Top, Bottom
<1>2. /\ q \in Ring /\ Len_(q) = Len_(r) /\ q.next = r.next /\ q.vals = r.vals /\ q.headTail = w
  BY <1>1, RingChanged DEF Ring, Shortened
<1> HIDE DEF w
<1>3. Bottom(q) = Up(Bottom(r)) /\ Top(q) = Top(r)
  BY <1>1, <1>2 DEF Top, Bottom
<1>4. \A i \in 0..Indices-1 : Offset(q, i) = IF i = Bottom(r) THEN Indices - 1 ELSE Offset(r, i) - 1
  <2> SUFFICES ASSUME NEW i \in 0..Indices-1
               PROVE  Offset(q, i) = IF i = Bottom(r) THEN Indices - 1 ELSE Offset(r, i) - 1
    OBVIOUS
  <2>1. Ahead(Up(Bottom(r)), i) = IF i = Bottom(r) THEN Indices - 1 ELSE Ahead(Bottom(r), i) - 1
    <3>1. Bottom(r) \in 0..Indices-1
      BY Window
    <3> QED BY <3>1, AheadMoves
  <2> QED BY <1>3, <2>1 DEF Offset
<1>5. Count(q) = Count(r) - 1
  <2>1. Top(r) # Bottom(r) /\ Top(r) \in 0..Indices-1
    BY Window
  <2>2. Offset(q, Top(q)) = Count(q)
    BY DEF Offset, Count
  <2> QED BY <1>3, <1>4, <2>1, <2>2, Window
<1>6. \A i : At(q, i) = At(r, i)
  BY <1>2 DEF At, Slot
<1>7. Whole(q)
  <2> SUFFICES ASSUME NEW i \in 0..Indices-1, Offset(q, i) \in Count(q)..Len_(q)-1
               PROVE  At(q, i) = Nil
    BY <1>2, <1>5, Window DEF Whole
  <2>1. i # Bottom(r) /\ Offset(r, i) \in Count(r)..Len_(r)
    BY <1>2, <1>4, <1>5, Window, Widths
  <2>2. CASE Offset(r, i) \in Count(r)..Len_(r)-1
    BY <1>6, <2>2 DEF Whole
  <2>3. CASE Offset(r, i) = Len_(r)
    <3>1. Slot(r, i) = Slot(r, Bottom(r))
      BY <2>3, Window, Widths, SlotAgain DEF Whole, Slot, Offset
    <3> QED BY <1>6, <3>1 DEF At
  <2> QED BY <2>1, <2>2, <2>3, Window
<1>8. \A i \in 0..Indices-1 : i # Bottom(r) => Offset(q, i) = Offset(r, i) - 1
  BY <1>4
<1>9. Offset(q, Bottom(r)) = Indices - 1
  BY <1>4, Window
<1> QED BY <1>2, <1>3, <1>5, <1>6, <1>7, <1>8, <1>9 DEF w

\* The lengths of the rings divide the number of indices.
LEMMA SizesDivide ==
  /\ \A n \in 1..dequeueLimit : Indices % n = 0 => Indices % NextSize(n) = 0
  /\ Indices % InitSize = 0
<1>1. Indices \in Nat /\ Indices >= 4 /\ dequeueLimit = Indices \div 4
  BY Widths DEF dequeueLimit
<1>2. \A n \in 1..Indices-1 : Indices % n = 0 => Indices % (2 * n) = 0
  BY PowerOf2 DEF Indices
<1>3. Indices % 4 = 0
  <2>1. Indices % 1 = 0
    BY <1>1
  <2>2. Indices % (2 * 1) = 0
    BY <1>1, <1>2, <2>1
  <2>3. Indices % (2 * 2) = 0
    BY <1>1, <1>2, <2>2
  <2> QED BY <2>3
<1>4. Indices % dequeueLimit = 0
  <2>1. Indices = 4 * dequeueLimit + 0 /\ dequeueLimit \in Nat /\ dequeueLimit > 0
    BY <1>1, <1>3
  <2> QED BY <2>1, Division
<1>5. ASSUME NEW n \in 1..dequeueLimit, Indices % n = 0
      PROVE  Indices % NextSize(n) = 0
  <2>1. n \in 1..Indices-1
    BY <1>1, Widths
  <2> QED BY <1>2, <1>4, <1>5, <2>1 DEF NextSize
<1>6. Indices % InitSize = 0
  BY BufChainAssumption DEF Indices
<1> QED BY <1>5, <1>6

LEMMA NewRingWhole ==
  ASSUME NEW n \in 1..dequeueLimit, Indices % n = 0
  PROVE  /\ Whole(NewRing(n)) /\ Count(NewRing(n)) = 0
         /\ \A v \in AllValues :
              /\ Started(n, v) \in Ring /\ Whole(Started(n, v)) /\ Started(n, v).next = None
              /\ Count(Started(n, v)) = 1 /\ Bottom(Started(n, v)) = 0 /\ Top(Started(n, v)) = 1
              /\ At(Started(n, v), 0) = v
<1> DEFINE z == NewRing(n)
<1>1. z \in Ring /\ Len_(z) = n /\ z.vals = [i \in 0..n-1 |-> Nil] /\ z.headTail = pack(0, 0)
  BY RingMade
<1>2. 0 \in 0..Indices-1 /\ 1 \in 0..Indices-1 /\ 0 % Indices = 0
  BY Widths, NextIndex
<1>3. Bottom(z) = 0 /\ Top(z) = 0
  <2>1. pack(0, 0) = 0 * Indices + 0
    BY <1>2 DEF pack
  <2> HIDE DEF z
  <2> QED BY <1>1, <1>2, <2>1, PackedParts DEF Bottom, Top
<1>4. Count(z) = 0
  BY <1>3, Widths DEF Count, Ahead
<1> HIDE DEF z
<1>5. \A i \in 0..Indices-1 : At(z, i) = Nil
  BY <1>1, Window DEF At
<1>6. Whole(z)
  BY <1>1, <1>4, <1>5 DEF Whole
<1>7. ASSUME NEW v \in AllValues
      PROVE  /\ Started(n, v) \in Ring /\ Whole(Started(n, v)) /\ Started(n, v).next = None
             /\ Count(Started(n, v)) = 1 /\ Bottom(Started(n, v)) = 0 /\ Top(Started(n, v)) = 1
             /\ At(Started(n, v), 0) = v
  <2> DEFINE q == Started(n, v)
  <2>1. /\ q \in Ring /\ Len_(q) = n /\ q.next = None
        /\ q.vals = [i \in 0..n-1 |-> IF i = 0 THEN v ELSE Nil]
        /\ Top(q) = 1 /\ Bottom(q) = 0
    BY HeadRing DEF Top, Bottom
  <2> HIDE DEF q
  <2>2. Count(q) = 1 /\ \A i \in 0..Indices-1 : Offset(q, i) = i
    BY <2>1, Widths DEF Count, Offset, Ahead
  <2>3. At(q, 0) = v /\ \A i \in 1..n-1 : At(q, i) = Nil
    <3>1. \A i \in 0..n-1 : Slot(q, i) = i
      BY <2>1, Widths DEF Slot
    <3> QED BY <2>1, <3>1, Widths DEF At
  <2>4. Whole(q)
    BY <2>1, <2>2, <2>3, Widths DEF Whole
  <2> QED BY <2>1, <2>2, <2>3, <2>4 DEF q
<1> QED BY <1>4, <1>6, <1>7 DEF z

-----------------------------------------------------------------------------
(* One consumer, any producers.                                              *)

OneConsumer == \A c, e \in Consumers : c = e

\* A producer goes for a word of a ring that was not full; the slot it reserved is its own,
\* in the window and empty; and it is not the one that the consumer has just emptied.
Reserving(p) == ppc[p] = "reserve" => ~Full(rings[ring[p]], seen[p])
Reservation(p) ==
  ppc[p] = "store" =>
    /\ Offset(rings[ring[p]], Head_(seen[p])) < Count(rings[ring[p]])
    /\ At(rings[ring[p]], Head_(seen[p])) = Nil
Apart(p, q) ==
  p # q /\ ppc[p] = "store" /\ ppc[q] = "store" /\ ring[p] = ring[q] => Head_(seen[p]) # Head_(seen[q])
Consuming(c) ==
  cpc[c] \in {"loadSlot", "take", "moveTail"} =>
    LET r == rings[cring[c]]
    IN  /\ Tail_(cseen[c]) = Bottom(r) /\ Count(r) >= 1
        /\ cpc[c] = "take" => At(r, Bottom(r)) = val[c]
        /\ cpc[c] = "moveTail" =>
             /\ At(r, Bottom(r)) = Nil
             /\ \A p \in Producers :
                  ppc[p] = "store" /\ ring[p] = cring[c] => Head_(seen[p]) # Bottom(r)

RingsWhole == \A d \in 1..Len(rings) : Whole(rings[d])
ProducersApart == \A p \in Producers : Reserving(p) /\ Reservation(p) /\ \A q \in Producers : Apart(p, q)
ConsumersKnow == \A c \in Consumers : Consuming(c)
SlotInv == TypeInv /\ OneConsumer /\ RingsWhole /\ ProducersApart /\ ConsumersKnow

SameWindow(r, q) == q.vals = r.vals /\ q.headTail = r.headTail

LEMMA WindowKept ==
  ASSUME NEW r, NEW q, SameWindow(r, q)
  PROVE  /\ Whole(q) <=> Whole(r)
         /\ Count(q) = Count(r) /\ Bottom(q) = Bottom(r) /\ Top(q) = Top(r) /\ Len_(q) = Len_(r)
         /\ \A i : Offset(q, i) = Offset(r, i) /\ At(q, i) = At(r, i)
         /\ \A w : Full(q, w) <=> Full(r, w)
BY DEF SameWindow, Whole, Count, Bottom, Top, Len_, Offset, At, Slot, Full

\* Where a producer, and the consumer, look.
LEMMA Looks ==
  ASSUME TypeInv, NEW n \in Nat, n = Len(rings)
  PROVE  /\ \A d \in 1..n : rings[d] \in Ring
         /\ \A p \in Producers :
              /\ ppc[p] \in {"loadIndices", "reserve", "store", "newHead", "link"} => ring[p] \in 1..n
              /\ seen[p] \in Words /\ Head_(seen[p]) \in 0..Indices-1 /\ Tail_(seen[p]) \in 0..Indices-1
         /\ \A c \in Consumers :
              /\ cpc[c] \in {"loadNext", "loadIndices", "loadSlot", "take", "moveTail"} => cring[c] \in 1..n
              /\ cseen[c] \in Words
              /\ cpc[c] \in {"take", "moveTail"} => val[c] \in AllValues
<1>1. RingsTyped(n) /\ ProducersTyped(n) /\ ConsumersTyped(n)
  BY TypeParts
<1>2. \A d \in 1..n : rings[d] \in Ring
  BY <1>1, RingsParts
<1>3. ASSUME NEW p \in Producers
      PROVE  /\ ppc[p] \in {"loadIndices", "reserve", "store", "newHead", "link"} => ring[p] \in 1..n
             /\ seen[p] \in Words /\ Head_(seen[p]) \in 0..Indices-1 /\ Tail_(seen[p]) \in 0..Indices-1
  BY <1>1, ProducerParts, WordParts
<1>4. ASSUME NEW c \in Consumers
      PROVE  /\ cpc[c] \in {"loadNext", "loadIndices", "loadSlot", "take", "moveTail"} => cring[c] \in 1..n
             /\ cseen[c] \in Words
             /\ cpc[c] \in {"take", "moveTail"} => val[c] \in AllValues
  BY <1>1, ConsumerParts
<1> QED BY <1>2, <1>3, <1>4

LEMMA ProducersKept ==
  ASSUME SlotInv, NEW n \in Nat, n = Len(rings),
         \A d \in 1..n : SameWindow(rings[d], rings'[d]),
         \A d \in 1..Len(rings') : d \in 1..n \/ Whole(rings'[d]),
         \A p \in Producers :
           /\ ppc'[p] = "store" => ppc[p] = "store" /\ ring'[p] = ring[p] /\ seen'[p] = seen[p]
           /\ ppc'[p] = "reserve" => ring'[p] \in 1..n /\ ~Full(rings[ring'[p]], seen'[p])
  PROVE  RingsWhole' /\ ProducersApart'
<1>1. RingsWhole'
  BY WindowKept DEF SlotInv, RingsWhole
<1>2. ASSUME NEW p \in Producers
      PROVE  Reserving(p)'
  BY WindowKept DEF Reserving
<1>3. ASSUME NEW p \in Producers
      PROVE  Reservation(p)'
  <2> SUFFICES ASSUME ppc'[p] = "store"
               PROVE  Reservation(p)'
    BY DEF Reservation
  <2>1. ppc[p] = "store" /\ ring'[p] = ring[p] /\ seen'[p] = seen[p] /\ ring[p] \in 1..n
    BY Looks DEF SlotInv
  <2>2. SameWindow(rings[ring[p]], rings'[ring[p]]) /\ Reservation(p)
    BY <2>1 DEF SlotInv, ProducersApart
  <2> QED BY <2>1, <2>2, WindowKept DEF Reservation
<1>4. ASSUME NEW p \in Producers, NEW q \in Producers
      PROVE  Apart(p, q)'
  BY DEF SlotInv, ProducersApart, Apart
<1> QED BY <1>1, <1>2, <1>3, <1>4 DEF ProducersApart

LEMMA ConsumersKept ==
  ASSUME SlotInv, NEW n \in Nat, n = Len(rings),
         \A d \in 1..n : SameWindow(rings[d], rings'[d]),
         \A p \in Producers :
           ppc'[p] = "store" => ppc[p] = "store" /\ ring'[p] = ring[p] /\ seen'[p] = seen[p],
         UNCHANGED <<cpc, cring, cseen, val>>
  PROVE  ConsumersKnow'
<1> SUFFICES ASSUME NEW c \in Consumers, cpc[c] \in {"loadSlot", "take", "moveTail"}
             PROVE  Consuming(c)'
  BY DEF ConsumersKnow, Consuming
<1>1. cring[c] \in 1..n /\ Consuming(c)
  BY Looks DEF SlotInv, ConsumersKnow
<1>2. SameWindow(rings[cring[c]], rings'[cring[c]])
  BY <1>1
<1> QED BY <1>1, <1>2, WindowKept DEF Consuming

LEMMA SlotInitially == Init /\ OneConsumer => SlotInv
<1> SUFFICES ASSUME Init, OneConsumer PROVE SlotInv
  OBVIOUS
<1>1. TypeInv
  BY TypesInitially
<1>2. RingsWhole
  BY NewRingWhole, SizesDivide, Widths DEF Init, RingsWhole
<1> QED BY <1>1, <1>2 DEF Init, SlotInv, ProducersApart, ConsumersKnow, Reserving, Reservation, Apart,
                          Consuming

\* The steps of a producer that change no window.
LEMMA SlotsPushing ==
  ASSUME SlotInv, NEW p \in Producers,
         \/ Push(p) \/ Gate(p) \/ LoadHead(p) \/ LoadIndices(p) \/ Grow(p) \/ NewHead(p)
         \/ Link(p) \/ Release(p)
  PROVE  SlotInv'
<1>1. TypeInv' /\ OneConsumer'
  BY PushingTyped DEF SlotInv, Pushing, OneConsumer
<1>2. PICK n \in Nat : n = Len(rings) /\ n >= 1
  BY TypesOfRings DEF SlotInv, TypeInv
<1>3. /\ \A d \in 1..n : rings[d] \in Ring /\ Whole(rings[d])
      /\ ppc[p] \in {"loadIndices", "newHead", "link"} => ring[p] \in 1..n
      /\ \A q \in Producers : ppc[q] = "reserve" => ring[q] \in 1..n /\ ~Full(rings[ring[q]], seen[q])
      /\ rings \in Seq(Ring) /\ DOMAIN ppc = Producers /\ DOMAIN ring = Producers /\ DOMAIN seen = Producers
  BY <1>2, Looks, TypesOfRings, TypeParts DEF SlotInv, RingsWhole, ProducersApart, Reserving, TypeInv,
                                              ProducersTyped
<1>4. UNCHANGED <<cpc, cring, cseen, val>>
  BY DEF Push, Gate, LoadHead, LoadIndices, Grow, NewHead, Link, Release, ChainUnchanged, consumerVars
<1>5. \A d \in 1..n : SameWindow(rings[d], rings'[d])
  <2>1. CASE UNCHANGED rings
    BY <2>1 DEF SameWindow
  <2>2. CASE Link(p)
    <3>1. rings' = [rings EXCEPT ![ring[p]].next = head]
      BY <2>2 DEF Link
    <3>2. \A d \in 1..n : rings'[d].vals = rings[d].vals /\ rings'[d].headTail = rings[d].headTail
      BY <1>2, <1>3, <3>1 DEF Ring
    <3> QED BY <3>2 DEF SameWindow
  <2>3. CASE NewHead(p)
    <3>1. \E q : rings' = Append(rings, q)
      BY <2>3 DEF NewHead
    <3> QED BY <1>2, <1>3, <3>1 DEF SameWindow
  <2> QED BY <2>1, <2>2, <2>3 DEF Push, Gate, LoadHead, LoadIndices, Grow, Release, ChainUnchanged
<1>6. \A d \in 1..Len(rings') : d \in 1..n \/ Whole(rings'[d])
  <2>1. CASE UNCHANGED rings
    BY <1>2, <2>1
  <2>2. CASE Link(p)
    <3>1. Len(rings') = Len(rings)
      BY <1>3, <2>2 DEF Link
    <3> QED BY <1>2, <3>1
  <2>3. CASE NewHead(p)
    <3> DEFINE m == NextSize(Len_(rings[ring[p]]))
    <3>1. ring[p] \in 1..n /\ ppc[p] # "idle"
      BY <1>3, <2>3 DEF NewHead
    <3>2. Value(p) \in AllValues
      BY <3>1, ValueTyped DEF SlotInv
    <3>3. m \in 1..dequeueLimit /\ Indices % m = 0
      BY <1>3, <3>1, RingShape, SizesGrow, SizesDivide DEF Whole
    <3>4. rings' = Append(rings, Started(m, Value(p)))
      BY <2>3 DEF NewHead, Started
    <3> HIDE DEF m
    <3>5. Whole(Started(m, Value(p)))
      BY <3>2, <3>3, NewRingWhole
    <3> QED BY <1>2, <1>3, <3>4, <3>5
  <2> QED BY <2>1, <2>2, <2>3 DEF Push, Gate, LoadHead, LoadIndices, Grow, Release, ChainUnchanged
<1>7. \A q \in Producers : q # p => ppc'[q] = ppc[q] /\ ring'[q] = ring[q] /\ seen'[q] = seen[q]
  BY <1>3 DEF Push, Gate, LoadHead, LoadIndices, Grow, NewHead, Link, Release, PGoto
<1>8. /\ ppc'[p] # "store"
      /\ ppc'[p] = "reserve" => ring'[p] \in 1..n /\ ~Full(rings[ring'[p]], seen'[p])
  BY <1>3 DEF Push, Gate, LoadHead, LoadIndices, Grow, NewHead, Link, Release, PGoto
<1>9. \A q \in Producers :
           /\ ppc'[q] = "store" => ppc[q] = "store" /\ ring'[q] = ring[q] /\ seen'[q] = seen[q]
           /\ ppc'[q] = "reserve" => ring'[q] \in 1..n /\ ~Full(rings[ring'[q]], seen'[q])
  BY <1>3, <1>7, <1>8
<1>10. RingsWhole' /\ ProducersApart'
  BY <1>2, <1>5, <1>6, <1>9, ProducersKept
<1>11. ConsumersKnow'
  BY <1>2, <1>4, <1>5, <1>9, ConsumersKept
<1> QED BY <1>1, <1>10, <1>11 DEF SlotInv

LEMMA SlotsReserve ==
  ASSUME SlotInv, NEW p \in Producers, Reserve(p)
  PROVE  SlotInv'
<1>1. TypeInv' /\ OneConsumer'
  BY PushingTyped DEF SlotInv, Pushing, OneConsumer
<1>2. PICK n \in Nat : n = Len(rings) /\ n >= 1
  BY TypesOfRings DEF SlotInv, TypeInv
<1>3. /\ \A e \in 1..n : rings[e] \in Ring /\ Whole(rings[e])
      /\ \A q \in Producers : ppc[q] \in {"reserve", "store"} => ring[q] \in 1..n
      /\ \A c \in Consumers : cpc[c] \in {"loadSlot", "take", "moveTail"} => cring[c] \in 1..n
      /\ \A q \in Producers : Reserving(q) /\ Reservation(q) /\ \A o \in Producers : Apart(q, o)
      /\ \A c \in Consumers : Consuming(c)
      /\ \A q \in Producers : Head_(seen[q]) \in 0..Indices-1
      /\ rings \in Seq(Ring) /\ DOMAIN ppc = Producers
  BY <1>2, Looks, TypesOfRings, TypeParts DEF SlotInv, RingsWhole, ProducersApart, ConsumersKnow,
                                              TypeInv, ProducersTyped
<1>4. /\ UNCHANGED <<cpc, cring, cseen, val, ring, seen>> /\ ppc[p] = "reserve" /\ ring[p] \in 1..n
      /\ \A q \in Producers : q # p => ppc'[q] = ppc[q]
  BY <1>3 DEF Reserve, consumerVars, PGoto
<1>5. CASE rings[ring[p]].headTail # seen[p]
  <2>1. UNCHANGED rings /\ ppc'[p] = "loadIndices"
    BY <1>3, <1>5 DEF Reserve, PGoto
  <2>2. \A e \in 1..n : SameWindow(rings[e], rings'[e])
    BY <2>1 DEF SameWindow
  <2>3. \A q \in Producers :
          /\ ppc'[q] = "store" => ppc[q] = "store" /\ ring'[q] = ring[q] /\ seen'[q] = seen[q]
          /\ ppc'[q] = "reserve" => ring'[q] \in 1..n /\ ~Full(rings[ring'[q]], seen'[q])
    BY <1>3, <1>4, <2>1 DEF Reserving
  <2>4. RingsWhole' /\ ProducersApart'
    BY <1>2, <2>1, <2>2, <2>3, ProducersKept
  <2>5. ConsumersKnow'
    BY <1>2, <1>4, <2>2, <2>3, ConsumersKept
  <2> QED BY <1>1, <2>4, <2>5 DEF SlotInv
<1>6. CASE rings[ring[p]].headTail = seen[p]
  <2> DEFINE d == ring[p]
  <2>1. PICK r \in Ring : r = rings[d]
    BY <1>3, <1>4
  <2>2. PICK s \in Ring : s = Lengthened(r)
    BY <1>3, <1>4, <1>6, <2>1, RingReserved DEF Reserving
  <2>3. /\ Whole(r) /\ Whole(s) /\ Len_(s) = Len_(r)
        /\ Bottom(s) = Bottom(r) /\ Top(s) = Up(Top(r)) /\ Count(s) = Count(r) + 1
        /\ \A i : At(s, i) = At(r, i)
        /\ At(r, Top(r)) = Nil
    BY <1>3, <1>4, <1>6, <2>1, <2>2, RingReserved DEF Reserving
  <2>4. Head_(seen[p]) = Top(r) /\ Tail_(seen[p]) = Bottom(r) /\ ppc'[p] = "store"
    BY <1>3, <1>6, <2>1 DEF Top, Bottom, Reserve, PGoto
  <2>5. Len(rings') = n /\ \A e \in 1..n : rings'[e] = IF e = d THEN s ELSE rings[e]
    <3>1. rings' = [rings EXCEPT ![d] = s]
      BY <1>6, <2>1, <2>2, <2>4 DEF Reserve, Lengthened
    <3> QED BY <1>2, <1>3, <1>4, <3>1
  <2>6. \A i : Offset(s, i) = Offset(r, i) /\ \A w : Full(s, w) <=> Full(r, w)
    BY <2>3 DEF Offset, Full
  <2>7. Offset(r, Top(r)) = Count(r) /\ Count(r) \in Nat /\ \A i \in 0..Indices-1 : Offset(r, i) \in Nat
    BY Window DEF Offset, Count
  <2>8. RingsWhole'
    BY <1>3, <2>3, <2>5 DEF RingsWhole
  <2>9. ASSUME NEW q \in Producers
        PROVE  Reserving(q)'
    BY <1>3, <1>4, <2>1, <2>4, <2>5, <2>6 DEF Reserving
  <2>10. ASSUME NEW q \in Producers
         PROVE  Reservation(q)'
    <3>1. CASE q = p
      <4>1. rings'[d] = s /\ ring'[p] = d /\ seen'[p] = seen[p]
        BY <1>4, <2>5
      <4>2. Offset(s, Top(r)) < Count(s) /\ At(s, Top(r)) = Nil
        BY <2>3, <2>6, <2>7
      <4> QED BY <2>4, <3>1, <4>1, <4>2 DEF Reservation
    <3>2. CASE q # p /\ ppc[q] = "store" /\ ring[q] = d
      <4>1. Offset(r, Head_(seen[q])) < Count(r) /\ At(r, Head_(seen[q])) = Nil
        BY <1>3, <2>1, <3>2 DEF Reservation
      <4>2. Offset(s, Head_(seen[q])) < Count(s) /\ At(s, Head_(seen[q])) = Nil
        BY <1>3, <2>3, <2>6, <2>7, <4>1
      <4>3. rings'[d] = s
        BY <1>4, <2>5
      <4> QED BY <1>4, <3>2, <4>2, <4>3 DEF Reservation
    <3>3. CASE q # p /\ ppc[q] = "store" /\ ring[q] # d
      <4>1. Reservation(q) /\ rings'[ring[q]] = rings[ring[q]]
        BY <1>3, <2>5, <3>3
      <4> QED BY <1>4, <3>3, <4>1 DEF Reservation
    <3> QED BY <1>4, <3>1, <3>2, <3>3 DEF Reservation
  <2>11. \A q \in Producers : q # p /\ ppc[q] = "store" /\ ring[q] = d => Head_(seen[q]) # Top(r)
    BY <1>3, <2>1, <2>7 DEF Reservation
  <2>12. ASSUME NEW q \in Producers, NEW o \in Producers
         PROVE  Apart(q, o)'
    BY <1>3, <1>4, <2>4, <2>11 DEF Apart
  <2>13. ASSUME NEW c \in Consumers
         PROVE  Consuming(c)'
    <3> SUFFICES ASSUME cpc[c] \in {"loadSlot", "take", "moveTail"} PROVE Consuming(c)'
      BY <1>4 DEF Consuming
    <3>1. Consuming(c) /\ cring[c] \in 1..n
      BY <1>3
    <3>2. CASE cring[c] # d
      BY <1>3, <1>4, <2>5, <3>1, <3>2 DEF Consuming
    <3>3. CASE cring[c] = d
      <4>1. Top(r) # Bottom(r)
        BY <2>1, <3>1, <3>3, Window DEF Consuming
      <4> QED BY <1>3, <1>4, <2>1, <2>3, <2>4, <2>5, <2>7, <3>1, <3>3, <4>1 DEF Consuming
    <3> QED BY <3>2, <3>3
  <2>14. ProducersApart' /\ ConsumersKnow'
    BY <2>9, <2>10, <2>12, <2>13 DEF ProducersApart, ConsumersKnow
  <2> QED BY <1>1, <2>8, <2>14 DEF SlotInv
<1> QED BY <1>5, <1>6

LEMMA SlotsStore ==
  ASSUME SlotInv, NEW p \in Producers, Store(p)
  PROVE  SlotInv'
<1>1. TypeInv' /\ OneConsumer'
  BY PushingTyped DEF SlotInv, Pushing, OneConsumer
<1>2. PICK n \in Nat : n = Len(rings) /\ n >= 1
  BY TypesOfRings DEF SlotInv, TypeInv
<1>3. /\ \A e \in 1..n : rings[e] \in Ring /\ Whole(rings[e])
      /\ \A q \in Producers : ppc[q] \in {"reserve", "store"} => ring[q] \in 1..n
      /\ \A c \in Consumers :
           /\ cpc[c] \in {"loadSlot", "take", "moveTail"} => cring[c] \in 1..n
           /\ cpc[c] \in {"take", "moveTail"} => val[c] # Nil
      /\ \A q \in Producers : Reserving(q) /\ Reservation(q) /\ \A o \in Producers : Apart(q, o)
      /\ \A c \in Consumers : Consuming(c)
      /\ \A q \in Producers : Head_(seen[q]) \in 0..Indices-1
      /\ rings \in Seq(Ring) /\ DOMAIN ppc = Producers
  BY <1>2, Looks, TypesOfRings, TypeParts DEF SlotInv, RingsWhole, ProducersApart, ConsumersKnow,
                                              TypeInv, ProducersTyped
<1>4. /\ UNCHANGED <<cpc, cring, cseen, val, ring, seen>> /\ ppc[p] = "store" /\ ring[p] \in 1..n
      /\ ppc'[p] = "idle" /\ \A q \in Producers : q # p => ppc'[q] = ppc[q]
  BY <1>3 DEF Store, consumerVars, PGoto
<1> DEFINE d == ring[p]
           i == Head_(seen[p])
<1>5. PICK r \in Ring : r = rings[d]
  BY <1>3, <1>4
<1>6. Whole(r) /\ Offset(r, i) < Count(r) /\ At(r, i) = Nil /\ i \in 0..Indices-1
  BY <1>3, <1>4, <1>5 DEF Reservation
<1>7. Value(p) \in AllValues \cup {Nil}
  BY <1>4, ValueTyped DEF SlotInv
<1>8. PICK s \in Ring : s = Written(r, i, Value(p))
  BY <1>6, <1>7, RingWritten
<1>9. /\ Whole(s) /\ Len_(s) = Len_(r) /\ s.headTail = r.headTail
      /\ At(s, i) = Value(p)
      /\ \A j \in 0..Indices-1 : j # i /\ Offset(r, j) < Len_(r) => At(s, j) = At(r, j)
  BY <1>6, <1>7, <1>8, RingWritten
<1>10. Len(rings') = n /\ \A e \in 1..n : rings'[e] = IF e = d THEN s ELSE rings[e]
  <2>1. rings' = [rings EXCEPT ![d] = s]
    BY <1>5, <1>8 DEF Store, Written, Reserved
  <2> QED BY <1>2, <1>3, <1>4, <2>1
<1> HIDE DEF i
<1>11. /\ Bottom(s) = Bottom(r) /\ Top(s) = Top(r) /\ Count(s) = Count(r)
       /\ \A j : Offset(s, j) = Offset(r, j) /\ \A w : Full(s, w) <=> Full(r, w)
  BY <1>9 DEF Offset, Full, Bottom, Top, Count
<1>12. /\ Count(r) \in Nat /\ Len_(r) \in Nat /\ Count(r) <= Len_(r) /\ Bottom(r) \in 0..Indices-1
       /\ Offset(r, Bottom(r)) = 0 /\ \A j \in 0..Indices-1 : Offset(r, j) \in Nat
  BY <1>6, Window DEF Whole
<1>13. RingsWhole'
  BY <1>3, <1>9, <1>10 DEF RingsWhole
<1>14. ASSUME NEW q \in Producers
       PROVE  Reserving(q)'
  BY <1>3, <1>4, <1>5, <1>10, <1>11 DEF Reserving
<1>15. ASSUME NEW q \in Producers
       PROVE  Reservation(q)'
  <2> SUFFICES ASSUME ppc'[q] = "store" PROVE Reservation(q)'
    BY DEF Reservation
  <2>1. q # p /\ ppc[q] = "store" /\ ring[q] \in 1..n /\ Reservation(q)
    BY <1>3, <1>4
  <2>2. CASE ring[q] # d
    BY <1>4, <1>10, <2>1, <2>2 DEF Reservation
  <2>3. CASE ring[q] = d
    <3>1. Head_(seen[q]) # i /\ Head_(seen[q]) \in 0..Indices-1
      BY <1>3, <1>4, <2>1, <2>3 DEF Apart, i
    <3>2. Offset(r, Head_(seen[q])) < Count(r) /\ At(r, Head_(seen[q])) = Nil
      BY <1>5, <2>1, <2>3 DEF Reservation
    <3>3. At(s, Head_(seen[q])) = Nil
      BY <1>9, <1>12, <3>1, <3>2
    <3> QED BY <1>4, <1>10, <1>11, <2>1, <2>3, <3>2, <3>3 DEF Reservation
  <2> QED BY <2>2, <2>3
<1>16. ASSUME NEW q \in Producers, NEW o \in Producers
       PROVE  Apart(q, o)'
  BY <1>3, <1>4 DEF Apart
<1>17. ASSUME NEW c \in Consumers
       PROVE  Consuming(c)'
  <2> SUFFICES ASSUME cpc[c] \in {"loadSlot", "take", "moveTail"} PROVE Consuming(c)'
    BY <1>4 DEF Consuming
  <2>1. Consuming(c) /\ cring[c] \in 1..n
    BY <1>3
  <2>2. CASE cring[c] # d
    BY <1>3, <1>4, <1>10, <2>1, <2>2 DEF Consuming
  <2>3. CASE cring[c] = d
    <3>1. cpc[c] \in {"take", "moveTail"} => Bottom(r) # i
      BY <1>3, <1>4, <1>5, <1>6, <2>1, <2>3 DEF Consuming, i
    <3>2. cpc[c] \in {"take", "moveTail"} => At(s, Bottom(r)) = At(r, Bottom(r))
      BY <1>9, <1>12, <3>1, <2>1, <2>3, <1>5 DEF Consuming
    <3> QED BY <1>3, <1>4, <1>5, <1>10, <1>11, <2>1, <2>3, <3>2 DEF Consuming
  <2> QED BY <2>2, <2>3
<1>18. ProducersApart' /\ ConsumersKnow'
  BY <1>14, <1>15, <1>16, <1>17 DEF ProducersApart, ConsumersKnow
<1> QED BY <1>1, <1>13, <1>18 DEF SlotInv

\* The steps of the consumer that change no ring.
LEMMA SlotsSearching ==
  ASSUME SlotInv, NEW c \in Consumers,
         Pop(c) \/ LoadNext(c) \/ PopLoadIndices(c) \/ LoadSlot(c) \/ Advance(c) \/ ReturnEmpty(c)
  PROVE  SlotInv'
<1>1. TypeInv' /\ OneConsumer'
  BY PoppingTyped DEF SlotInv, Popping, OneConsumer
<1>2. PICK n \in Nat : n = Len(rings) /\ n >= 1
  BY TypesOfRings DEF SlotInv, TypeInv
<1>3. UNCHANGED <<rings, ppc, ring, seen>>
  BY DEF Pop, LoadNext, PopLoadIndices, LoadSlot, Advance, ReturnEmpty, ChainUnchanged, producerVars
<1>4. RingsWhole' /\ ProducersApart'
  BY <1>3 DEF SlotInv, RingsWhole, ProducersApart, Reserving, Reservation, Apart
<1>5. /\ DOMAIN cpc = Consumers /\ DOMAIN cseen = Consumers /\ DOMAIN val = Consumers
      /\ cseen[c] \in Words /\ Consuming(c)
      /\ (cpc[c] = "loadIndices" \/ cpc[c] = "loadSlot") => cring[c] \in 1..n /\ rings[cring[c]] \in Ring
  BY <1>2, Looks, TypeParts DEF SlotInv, ConsumersTyped, ConsumersKnow
<1>6. Consuming(c)'
  <2>1. CASE PopLoadIndices(c)
    <3>1. cring[c] \in 1..n /\ rings[cring[c]] \in Ring
      BY <1>5, <2>1 DEF PopLoadIndices
    <3>2. PICK r \in Ring : r = rings[cring[c]]
      BY <3>1
    <3>3. cseen'[c] = r.headTail /\ cring'[c] = cring[c]
      BY <1>5, <2>1, <3>2 DEF PopLoadIndices
    <3>4. cpc'[c] = IF Bottom(r) = Top(r) THEN "drained" ELSE "loadSlot"
      BY <1>5, <2>1, <3>2 DEF PopLoadIndices, CGoto, Bottom, Top
    <3>5. cpc'[c] = "loadSlot" => Count(r) >= 1
      <4>1. /\ Top(r) \in 0..Indices-1 /\ Bottom(r) \in 0..Indices-1 /\ Count(r) \in 0..Indices-1
        BY Window
      <4>2. Count(r) = 0 <=> Top(r) = Bottom(r)
        BY <4>1, AheadMoves DEF Count
      <4>3. Count(r) >= 1 \/ Count(r) = 0
        BY <4>1, Widths
      <4> QED BY <3>4, <4>2, <4>3
    <3> QED BY <1>3, <3>2, <3>3, <3>4, <3>5 DEF Consuming, Bottom
  <2>2. CASE LoadSlot(c)
    <3>1. cring[c] \in 1..n /\ cpc[c] = "loadSlot"
      BY <1>5, <2>2 DEF LoadSlot
    <3>2. val'[c] = At(rings[cring[c]], Bottom(rings[cring[c]]))
      BY <1>5, <2>2, <3>1 DEF LoadSlot, Candidate, At, Consuming
    <3>3. cpc'[c] \in {"loadIndices", "take"} /\ cring'[c] = cring[c] /\ cseen'[c] = cseen[c]
      BY <1>5, <2>2 DEF LoadSlot, CGoto
    <3> QED BY <1>3, <1>5, <3>1, <3>2, <3>3 DEF Consuming
  <2>3. CASE Pop(c) \/ LoadNext(c) \/ Advance(c) \/ ReturnEmpty(c)
    <3>1. cpc'[c] \in {"loadNext", "loadIndices", "empty"}
      BY <1>5, <2>3 DEF Pop, LoadNext, Advance, ReturnEmpty, CGoto
    <3> QED BY <3>1 DEF Consuming
  <2> QED BY <2>1, <2>2, <2>3
<1>7. ConsumersKnow'
  BY <1>1, <1>6 DEF ConsumersKnow, SlotInv, OneConsumer
<1> QED BY <1>1, <1>4, <1>7 DEF SlotInv

\* The value that the consumer has read is still there.
LEMMA SlotsTake ==
  ASSUME SlotInv, NEW c \in Consumers, Take(c)
  PROVE  SlotInv' /\ rings[cring[c]].vals[Candidate(c)] = val[c]
<1>1. TypeInv' /\ OneConsumer'
  BY PoppingTyped DEF SlotInv, Popping, OneConsumer
<1>2. PICK n \in Nat : n = Len(rings) /\ n >= 1
  BY TypesOfRings DEF SlotInv, TypeInv
<1>3. /\ \A e \in 1..n : rings[e] \in Ring /\ Whole(rings[e])
      /\ \A q \in Producers : ppc[q] \in {"reserve", "store"} => ring[q] \in 1..n
      /\ cring[c] \in 1..n /\ cpc[c] = "take" /\ val[c] # Nil
      /\ \A q \in Producers : Reserving(q) /\ Reservation(q) /\ \A o \in Producers : Apart(q, o)
      /\ Consuming(c)
      /\ \A q \in Producers : Head_(seen[q]) \in 0..Indices-1
      /\ rings \in Seq(Ring) /\ DOMAIN cpc = Consumers
  BY <1>2, Looks, TypesOfRings, TypeParts DEF SlotInv, RingsWhole, ProducersApart, ConsumersKnow,
                                              TypeInv, ConsumersTyped, Take
<1> DEFINE d == cring[c]
<1>4. PICK r \in Ring : r = rings[d]
  BY <1>3
<1>5. /\ Whole(r) /\ Bottom(r) = Tail_(cseen[c]) /\ Count(r) >= 1 /\ At(r, Bottom(r)) = val[c]
      /\ Bottom(r) \in 0..Indices-1 /\ Offset(r, Bottom(r)) = 0 /\ Count(r) \in Nat
      /\ Len_(r) \in Nat /\ Count(r) <= Len_(r) /\ \A j \in 0..Indices-1 : Offset(r, j) \in Nat
  <2>1. Bottom(r) = Tail_(cseen[c]) /\ Count(r) >= 1 /\ At(r, Bottom(r)) = val[c] /\ Whole(r)
    BY <1>3, <1>4 DEF Consuming
  <2>2. /\ Bottom(r) \in 0..Indices-1 /\ Count(r) \in Nat /\ Offset(r, Bottom(r)) = 0 /\ Len_(r) \in Nat
        /\ \A j \in 0..Indices-1 : Offset(r, j) \in Nat
    BY Window
  <2> QED BY <2>1, <2>2 DEF Whole
<1>6. r.vals[Candidate(c)] = val[c]
  BY <1>4, <1>5 DEF Candidate, At
<1>7. PICK s \in Ring : s = Written(r, Bottom(r), Nil)
  BY <1>5, RingWritten
<1>8. /\ Whole(s) /\ Len_(s) = Len_(r) /\ s.headTail = r.headTail
      /\ At(s, Bottom(r)) = Nil
      /\ \A j \in 0..Indices-1 : j # Bottom(r) /\ Offset(r, j) < Len_(r) => At(s, j) = At(r, j)
  BY <1>5, <1>7, RingWritten
<1>9. /\ cpc'[c] = "moveTail" /\ UNCHANGED <<ppc, ring, seen, cring, cseen, val>>
      /\ Len(rings') = n /\ \A e \in 1..n : rings'[e] = IF e = d THEN s ELSE rings[e]
  <2>1. rings' = [rings EXCEPT ![d] = s]
    BY <1>4, <1>5, <1>6, <1>7 DEF Take, Written, Emptied, Candidate
  <2>2. cpc'[c] = "moveTail" /\ UNCHANGED <<ppc, ring, seen, cring, cseen, val>>
    BY <1>3, <1>4, <1>6 DEF Take, CGoto, producerVars
  <2> QED BY <1>2, <1>3, <2>1, <2>2
<1>10. /\ Bottom(s) = Bottom(r) /\ Top(s) = Top(r) /\ Count(s) = Count(r)
       /\ \A j : Offset(s, j) = Offset(r, j) /\ \A w : Full(s, w) <=> Full(r, w)
  BY <1>8 DEF Offset, Full, Bottom, Top, Count
<1>11. RingsWhole'
  BY <1>3, <1>8, <1>9 DEF RingsWhole
<1>12. ASSUME NEW q \in Producers
       PROVE  Reserving(q)'
  BY <1>3, <1>4, <1>9, <1>10 DEF Reserving
\* the slot was not empty, so no producer has it reserved
<1>13. ASSUME NEW q \in Producers, ppc[q] = "store", ring[q] = d
       PROVE  /\ Head_(seen[q]) # Bottom(r)
              /\ Offset(r, Head_(seen[q])) < Count(r) /\ At(r, Head_(seen[q])) = Nil
              /\ At(s, Head_(seen[q])) = Nil
  <2>1. Offset(r, Head_(seen[q])) < Count(r) /\ At(r, Head_(seen[q])) = Nil
    BY <1>3, <1>4, <1>13 DEF Reservation
  <2>2. Head_(seen[q]) # Bottom(r)
    BY <1>3, <1>5, <2>1
  <2> QED BY <1>3, <1>5, <1>8, <2>1, <2>2
<1>14. ASSUME NEW q \in Producers
       PROVE  Reservation(q)'
  <2> SUFFICES ASSUME ppc[q] = "store" PROVE Reservation(q)'
    BY <1>9 DEF Reservation
  <2>1. CASE ring[q] # d
    BY <1>3, <1>9, <2>1 DEF Reservation
  <2>2. CASE ring[q] = d
    BY <1>3, <1>9, <1>10, <1>13, <2>2 DEF Reservation
  <2> QED BY <2>1, <2>2
<1>15. ProducersApart'
  BY <1>3, <1>9, <1>12, <1>14 DEF ProducersApart, Apart
<1>16. Consuming(c)'
  BY <1>3, <1>5, <1>8, <1>9, <1>10, <1>13 DEF Consuming
<1>17. ConsumersKnow'
  BY <1>1, <1>16 DEF ConsumersKnow, SlotInv, OneConsumer
<1> QED BY <1>1, <1>4, <1>6, <1>11, <1>15, <1>17 DEF SlotInv

LEMMA SlotsMoveTail ==
  ASSUME SlotInv, NEW c \in Consumers, MoveTail(c)
  PROVE  SlotInv'
<1>1. TypeInv' /\ OneConsumer'
  BY PoppingTyped DEF SlotInv, Popping, OneConsumer
<1>2. PICK n \in Nat : n = Len(rings) /\ n >= 1
  BY TypesOfRings DEF SlotInv, TypeInv
<1>3. /\ \A e \in 1..n : rings[e] \in Ring /\ Whole(rings[e])
      /\ \A q \in Producers : ppc[q] \in {"reserve", "store"} => ring[q] \in 1..n
      /\ cring[c] \in 1..n /\ cpc[c] = "moveTail"
      /\ \A q \in Producers : Reserving(q) /\ Reservation(q) /\ \A o \in Producers : Apart(q, o)
      /\ Consuming(c)
      /\ \A q \in Producers : Head_(seen[q]) \in 0..Indices-1
      /\ rings \in Seq(Ring) /\ DOMAIN cpc = Consumers
  BY <1>2, Looks, TypesOfRings, TypeParts DEF SlotInv, RingsWhole, ProducersApart, ConsumersKnow,
                                              TypeInv, ConsumersTyped, MoveTail
<1> DEFINE d == cring[c]
<1>4. PICK r \in Ring : r = rings[d]
  BY <1>3
<1>5. /\ Whole(r) /\ Bottom(r) = Tail_(cseen[c]) /\ Count(r) >= 1 /\ At(r, Bottom(r)) = Nil
      /\ \A q \in Producers : ppc[q] = "store" /\ ring[q] = d => Head_(seen[q]) # Bottom(r)
      /\ Count(r) \in Nat /\ \A j \in 0..Indices-1 : Offset(r, j) \in Nat
  <2>1. /\ Bottom(r) = Tail_(cseen[c]) /\ Count(r) >= 1 /\ At(r, Bottom(r)) = Nil /\ Whole(r)
        /\ \A q \in Producers : ppc[q] = "store" /\ ring[q] = d => Head_(seen[q]) # Bottom(r)
    BY <1>3, <1>4 DEF Consuming
  <2>2. Count(r) \in Nat /\ \A j \in 0..Indices-1 : Offset(r, j) \in Nat
    BY Window
  <2> QED BY <2>1, <2>2
<1>6. PICK s \in Ring : s = Shortened(r)
  BY <1>5, RingShortened
<1>7. /\ Whole(s) /\ Len_(s) = Len_(r) /\ Count(s) = Count(r) - 1
      /\ \A i : At(s, i) = At(r, i)
      /\ \A i \in 0..Indices-1 : i # Bottom(r) => Offset(s, i) = Offset(r, i) - 1
  BY <1>5, <1>6, RingShortened
<1>8. /\ cpc'[c] = "idle" /\ UNCHANGED <<ppc, ring, seen, cring>>
      /\ Len(rings') = n /\ \A e \in 1..n : rings'[e] = IF e = d THEN s ELSE rings[e]
  <2>1. rings' = [rings EXCEPT ![d] = s]
    BY <1>4, <1>5, <1>6 DEF MoveTail, Shortened
  <2>2. cpc'[c] = "idle" /\ UNCHANGED <<ppc, ring, seen, cring>>
    BY <1>3 DEF MoveTail, CGoto, producerVars
  <2> QED BY <1>2, <1>3, <2>1, <2>2
<1>9. RingsWhole'
  BY <1>3, <1>7, <1>8 DEF RingsWhole
<1>10. ASSUME NEW q \in Producers
       PROVE  Reserving(q)'
  BY <1>3, <1>4, <1>7, <1>8 DEF Reserving, Full
<1>11. ASSUME NEW q \in Producers
       PROVE  Reservation(q)'
  <2> SUFFICES ASSUME ppc[q] = "store" PROVE Reservation(q)'
    BY <1>8 DEF Reservation
  <2>1. CASE ring[q] # d
    BY <1>3, <1>8, <2>1 DEF Reservation
  <2>2. CASE ring[q] = d
    <3>1. Offset(r, Head_(seen[q])) < Count(r) /\ At(r, Head_(seen[q])) = Nil
      BY <1>3, <1>4, <2>2 DEF Reservation
    <3>2. Offset(s, Head_(seen[q])) < Count(s) /\ At(s, Head_(seen[q])) = Nil
      BY <1>3, <1>5, <1>7, <2>2, <3>1
    <3>3. rings'[d] = s
      BY <1>3, <1>8
    <3> QED BY <1>8, <2>2, <3>2, <3>3 DEF Reservation
  <2> QED BY <2>1, <2>2
<1>12. ProducersApart'
  BY <1>3, <1>8, <1>10, <1>11 DEF ProducersApart, Apart
<1>13. ConsumersKnow'
  BY <1>1, <1>8 DEF ConsumersKnow, Consuming, SlotInv, OneConsumer
<1> QED BY <1>1, <1>9, <1>12, <1>13 DEF SlotInv

LEMMA SlotsStep == SlotInv /\ [Next]_vars => SlotInv'
<1> SUFFICES ASSUME SlotInv, [Next]_vars PROVE SlotInv'
  OBVIOUS
<1>1. CASE Next
  <2>1. ASSUME NEW p \in Producers, Push(p) \/ Pushing(p)
        PROVE  SlotInv'
    BY <2>1, SlotsPushing, SlotsReserve, SlotsStore DEF Pushing
  <2>2. ASSUME NEW c \in Consumers, Popping(c)
        PROVE  SlotInv'
    BY <2>2, SlotsSearching, SlotsTake, SlotsMoveTail DEF Popping
  <2> QED BY <1>1, <2>1, <2>2 DEF Next
<1>2. CASE UNCHANGED vars
  BY <1>2 DEF vars, producerVars, consumerVars, SlotInv, TypeInv, TypeOK, OneConsumer, RingsWhole,
              ProducersApart, Reserving, Reservation, Apart, ConsumersKnow, Consuming
<1> QED BY <1>1, <1>2

\* With one consumer, as the program has for every chain, and any number of producers: the
\* slot that the compare-and-swap of the head gives a producer is empty when it stores into
\* it, across the wrap of the indices (queue.go:459).
THEOREM ReservedIsFree == OneConsumer /\ Spec => []ReservedSlotIsFree
<1>1. SlotInv => ReservedSlotIsFree
  BY DEF SlotInv, ProducersApart, Reservation, At, ReservedSlotIsFree, Reserved
<1> QED BY <1>1, SlotInitially, SlotsStep, PTL DEF Spec

-----------------------------------------------------------------------------
(* One producer and one consumer: a FIFO queue.  F gives the number of the   *)
(* first value in each ring.                                                 *)

OneEach == OneConsumer /\ \A p, q \in Producers : p = q

\* how many values are in a ring, or were, and of how many the push has returned
Placed(p) == IF ppc[p] \in {"idle", "store", "link", "release"} THEN made[p] ELSE made[p] - 1
Finished(p) == IF ppc[p] = "idle" THEN made[p] ELSE made[p] - 1

Linked(p) ==
  LET n == Len(rings)
  IN  /\ head = n
      /\ \A d \in 1..n :
           rings[d].next = IF d = n \/ (d = n - 1 /\ ppc[p] = "link") THEN None ELSE d + 1
      /\ ppc[p] \in {"loadIndices", "reserve", "store", "grow", "newHead"} => ring[p] = n
      /\ ppc[p] = "link" => ring[p] = n - 1 /\ tail < n /\ Count(rings[n]) = 1

InOrder(p) == \A i \in 1..Len(popped) : popped[i] = <<p, i>>

Sums(p, F) ==
  /\ F \in [1..Len(rings) -> Nat] /\ F[tail] = Len(popped) + 1
  /\ \A d \in tail..Len(rings)-1 : F[d] + Count(rings[d]) = F[d + 1]
  /\ F[Len(rings)] + Count(rings[Len(rings)]) = Placed(p) + 1

Holding(p, c, F, d, i) ==
  \/ At(rings[d], i) = <<p, F[d] + Offset(rings[d], i)>>
  \/ ppc[p] = "store" /\ d = Len(rings) /\ i = Head_(seen[p]) /\ At(rings[d], i) = Nil
  \/ cpc[c] = "moveTail" /\ d = tail /\ i = Bottom(rings[d])

Contents(p, c, F) ==
  /\ \A d \in tail..Len(rings) : \A i \in 0..Indices-1 :
       Offset(rings[d], i) < Count(rings[d]) => Holding(p, c, F, d, i)
  /\ ppc[p] = "store" => Up(Head_(seen[p])) = Top(rings[Len(rings)])

Searching(p, c, F) ==
  /\ cpc[c] \notin {"idle", "empty"} => cring[c] = tail
  /\ cpc[c] \in {"loadIndices", "loadSlot", "take", "moveTail", "drained"} =>
       cnext[c] = None \/ (cnext[c] = tail + 1 /\ rings[tail].next # None)
  /\ cpc[c] = "drained" /\ cnext[c] # None => Count(rings[tail]) = 0
  /\ cpc[c] = "moveTail" => val[c] = <<p, F[tail]>>
  /\ \A v \in before[c] : v[1] = p /\ v[2] <= Finished(p)
  /\ cpc[c] \in {"loadIndices", "loadSlot", "take"} /\ cnext[c] = None =>
       \A v \in before[c] : v[2] < F[tail] + Count(rings[tail])
  /\ (cpc[c] = "drained" /\ cnext[c] = None) \/ cpc[c] = "empty" =>
       \A v \in before[c] : v[2] <= Len(popped)

Fifo(p, c, F) == Sums(p, F) /\ Contents(p, c, F) /\ Searching(p, c, F)

ChainInv ==
  /\ SlotInv /\ OneEach
  /\ \A p \in Producers : Linked(p) /\ InOrder(p) /\ \A c \in Consumers : \E F : Fifo(p, c, F)

LEMMA ChainInitially == Init /\ OneEach => ChainInv
<1> SUFFICES ASSUME Init, OneEach, NEW p \in Producers
             PROVE  Linked(p) /\ InOrder(p) /\ \A c \in Consumers : \E F : Fifo(p, c, F)
  BY SlotInitially DEF ChainInv, OneEach
<1>1. InitSize \in 1..dequeueLimit /\ Indices % InitSize = 0
  BY Widths, SizesDivide
<1>2. Len(rings) = 1 /\ rings[1] \in Ring /\ Count(rings[1]) = 0 /\ rings[1].next = None
  BY <1>1, RingMade, NewRingWhole DEF Init
<1>3. Linked(p) /\ InOrder(p)
  BY <1>2 DEF Init, Linked, InOrder
<1>4. ASSUME NEW c \in Consumers
      PROVE  \E F : Fifo(p, c, F)
  <2> DEFINE F == [d \in 1..1 |-> 1]
  <2>1. Sums(p, F)
    BY <1>2 DEF Init, Sums, Placed
  <2>2. \A i \in 0..Indices-1 : Offset(rings[1], i) \in Nat
    BY <1>2, Window
  <2>3. Contents(p, c, F)
    <3>1. tail = 1 /\ ppc[p] = "idle"
      BY DEF Init
    <3>2. \A d \in tail..Len(rings) : d = 1
      BY <1>2, <3>1
    <3> QED BY <1>2, <2>2, <3>1, <3>2 DEF Contents
  <2>4. Searching(p, c, F)
    BY DEF Init, Searching
  <2> QED BY <2>1, <2>3, <2>4 DEF Fifo
<1> QED BY <1>3, <1>4

\* What the steps below need of the state.
LEMMA ChainParts ==
  ASSUME ChainInv, NEW p \in Producers
  PROVE  \E n \in Nat \ {0} :
           /\ n = Len(rings) /\ head = n /\ tail \in 1..n
           /\ \A d \in 1..n : /\ rings[d] \in Ring /\ Whole(rings[d]) /\ Count(rings[d]) \in Nat
                              /\ rings[d].next = IF d = n \/ (d = n - 1 /\ ppc[p] = "link")
                                                 THEN None ELSE d + 1
                              /\ \A i \in 0..Indices-1 : Offset(rings[d], i) \in Nat
           /\ ppc[p] \in {"loadIndices", "reserve", "store", "grow", "newHead"} => ring[p] = n
           /\ ppc[p] = "link" => ring[p] = n - 1 /\ ring[p] \in 1..n /\ tail < n /\ Count(rings[n]) = 1
           /\ rings \in Seq(Ring) /\ made[p] \in Nat /\ popped \in Seq(AllValues)
           /\ DOMAIN ppc = Producers /\ DOMAIN ring = Producers /\ DOMAIN seen = Producers
           /\ DOMAIN made = Producers
           /\ DOMAIN cpc = Consumers /\ DOMAIN cring = Consumers /\ DOMAIN cnext = Consumers
           /\ DOMAIN cseen = Consumers /\ DOMAIN val = Consumers /\ DOMAIN before = Consumers
<1>1. PICK n \in Nat : n = Len(rings) /\ n >= 1
  BY TypesOfRings DEF ChainInv, SlotInv, TypeInv
<1>2. RingsTyped(n) /\ Ends(n) /\ ProducersTyped(n) /\ ConsumersTyped(n)
  BY <1>1, TypeParts DEF ChainInv, SlotInv
<1>3. \A d \in 1..n : rings[d] \in Ring /\ Whole(rings[d])
  BY <1>1, Looks DEF ChainInv, SlotInv, RingsWhole
<1>4. Linked(p)
  BY DEF ChainInv
<1>5. ASSUME NEW d \in 1..n
      PROVE  Count(rings[d]) \in Nat /\ \A i \in 0..Indices-1 : Offset(rings[d], i) \in Nat
  BY <1>3, Window
<1>6. tail \in 1..n /\ rings \in Seq(Ring)
  BY <1>2 DEF Ends, RingsTyped
<1>7. /\ made[p] \in Nat /\ popped \in Seq(AllValues)
      /\ DOMAIN ppc = Producers /\ DOMAIN ring = Producers /\ DOMAIN seen = Producers
      /\ DOMAIN made = Producers
      /\ DOMAIN cpc = Consumers /\ DOMAIN cring = Consumers /\ DOMAIN cnext = Consumers
      /\ DOMAIN cseen = Consumers /\ DOMAIN val = Consumers /\ DOMAIN before = Consumers
  BY <1>2, BufChainAssumption DEF ProducersTyped, ConsumersTyped
<1>8. ppc[p] = "link" => ring[p] = n - 1 /\ ring[p] \in 1..n /\ tail < n /\ Count(rings[n]) = 1
  BY <1>1, <1>4, <1>6 DEF Linked
<1>9. /\ head = n
      /\ ppc[p] \in {"loadIndices", "reserve", "store", "grow", "newHead"} => ring[p] = n
  BY <1>1, <1>4 DEF Linked
<1>10. \A d \in 1..n : rings[d].next = IF d = n \/ (d = n - 1 /\ ppc[p] = "link") THEN None ELSE d + 1
  BY <1>1, <1>4 DEF Linked
<1>11. n \in Nat \ {0}
  BY <1>1
<1>12. \A d \in 1..n : /\ rings[d] \in Ring /\ Whole(rings[d]) /\ Count(rings[d]) \in Nat
                       /\ rings[d].next = IF d = n \/ (d = n - 1 /\ ppc[p] = "link")
                                          THEN None ELSE d + 1
                       /\ \A i \in 0..Indices-1 : Offset(rings[d], i) \in Nat
  BY <1>3, <1>5, <1>10
<1> QED BY <1>1, <1>6, <1>7, <1>8, <1>9, <1>11, <1>12

\* A step of the producer that changes no window keeps the numbers.
LEMMA NumbersKept ==
  ASSUME ChainInv, NEW p \in Producers, NEW c \in Consumers, NEW F, Fifo(p, c, F),
         NEW n, n = Len(rings), Len(rings') = n,
         \A d \in 1..n : SameWindow(rings[d], rings'[d]),
         rings[tail].next # None => rings'[tail].next # None,
         UNCHANGED <<tail, cpc, cring, cnext, cseen, val, popped, before>>,
         Placed(p)' = Placed(p), Finished(p) <= Finished(p)',
         ppc[p] # "store", ppc'[p] # "store",
         \A v \in before[c] : v[2] \in Nat, Finished(p) \in Int, Finished(p)' \in Int
  PROVE  Fifo(p, c, F)'
<1>1. n \in Nat /\ tail \in 1..n /\ n \in 1..n
  BY ChainParts
<1>2. \A d \in 1..n : /\ Count(rings'[d]) = Count(rings[d]) /\ Bottom(rings'[d]) = Bottom(rings[d])
                      /\ \A i : /\ Offset(rings'[d], i) = Offset(rings[d], i)
                                /\ At(rings'[d], i) = At(rings[d], i)
  BY WindowKept
<1>3. Sums(p, F)'
  <2>1. \A d \in tail..n-1 : d \in 1..n
    BY <1>1
  <2> QED BY <1>1, <1>2, <2>1 DEF Fifo, Sums
<1>4. Contents(p, c, F)'
  <2>1. \A d \in tail..n : d \in 1..n
    BY <1>1
  <2> SUFFICES ASSUME NEW d \in tail..n, NEW i \in 0..Indices-1,
                      Offset(rings[d], i) < Count(rings[d])
               PROVE  Holding(p, c, F, d, i)'
    BY <1>1, <1>2, <2>1 DEF Contents
  <2>2. Holding(p, c, F, d, i)
    BY DEF Fifo, Contents
  <2> QED BY <1>1, <1>2, <2>1, <2>2 DEF Holding
<1>5. Searching(p, c, F)'
  <2>1. Searching(p, c, F)
    BY DEF Fifo
  <2>2. \A v \in before[c] : v[1] = p /\ v[2] <= Finished(p)'
    BY <2>1 DEF Searching
  <2> QED BY <1>1, <1>2, <2>1, <2>2 DEF Searching
<1> QED BY <1>3, <1>4, <1>5 DEF Fifo

LEMMA ProducerAlone ==
  ASSUME ChainInv, NEW p \in Producers, Push(p) \/ Pushing(p)
  PROVE  /\ SlotInv' /\ OneEach' /\ UNCHANGED <<tail, cpc, cring, cnext, cseen, val, popped, before>>
         /\ \A q \in Producers : q = p
         /\ \A c \in Consumers : \A v \in before[c] : v[2] \in Nat
         /\ \A q \in Producers : made[q] \in Nat /\ made'[q] \in Nat
<1>1. SlotInv' /\ OneEach'
  BY SlotsStep DEF ChainInv, OneEach, OneConsumer, Next
<1>2. UNCHANGED <<tail, cpc, cring, cnext, cseen, val, popped, before>>
  BY DEF Push, Pushing, Gate, LoadHead, LoadIndices, Reserve, Store, Grow, NewHead, Link, Release,
         ChainUnchanged, consumerVars
<1>3. \A c \in Consumers : \A v \in before[c] : v[2] \in Nat
  BY DEF ChainInv, SlotInv, TypeInv, TypeOK, AllValues
<1>4. \A q \in Producers : made[q] \in Nat /\ made'[q] \in Nat
  BY <1>1, BufChainAssumption DEF ChainInv, SlotInv, TypeInv, TypeOK
<1> QED BY <1>1, <1>2, <1>3, <1>4 DEF ChainInv, OneEach

LEMMA ChainNext ==
  ASSUME NEW p \in Producers, SlotInv', OneEach', \A q \in Producers : q = p,
         Linked(p)', InOrder(p)',
         \A c \in Consumers : \E F : Fifo(p, c, F)'
  PROVE  ChainInv'
BY DEF ChainInv

LEMMA ChainQuiet ==
  ASSUME ChainInv, NEW p \in Producers,
         \/ Push(p) \/ Gate(p) \/ LoadHead(p) \/ LoadIndices(p) \/ Grow(p) \/ Link(p) \/ Release(p)
         \/ Reserve(p) /\ rings[ring[p]].headTail # seen[p]
  PROVE  ChainInv'
<1>1. /\ SlotInv' /\ OneEach' /\ UNCHANGED <<tail, cpc, cring, cnext, cseen, val, popped, before>>
      /\ \A q \in Producers : q = p
      /\ \A c \in Consumers : \A v \in before[c] : v[2] \in Nat
      /\ made[p] \in Nat /\ made'[p] \in Nat
  BY ProducerAlone DEF Pushing
<1>2. PICK n \in Nat \ {0} :
           /\ n = Len(rings) /\ head = n /\ tail \in 1..n
           /\ \A d \in 1..n : /\ rings[d] \in Ring
                              /\ rings[d].next = IF d = n \/ (d = n - 1 /\ ppc[p] = "link")
                                                 THEN None ELSE d + 1
           /\ ppc[p] \in {"loadIndices", "reserve", "store", "grow", "newHead"} => ring[p] = n
           /\ ppc[p] = "link" => ring[p] = n - 1 /\ ring[p] \in 1..n /\ tail < n /\ Count(rings[n]) = 1
           /\ rings \in Seq(Ring)
           /\ DOMAIN ppc = Producers /\ DOMAIN ring = Producers /\ DOMAIN seen = Producers
           /\ DOMAIN made = Producers
  BY ChainParts
<1>3. /\ ppc[p] # "store" /\ ppc'[p] # "store" /\ Placed(p)' = Placed(p) /\ Finished(p) <= Finished(p)'
      /\ Finished(p) \in Int /\ Finished(p)' \in Int
  BY <1>1, <1>2 DEF Push, Gate, LoadHead, LoadIndices, Grow, Link, Release, Reserve, PGoto, Placed, Finished
<1>4. CASE UNCHANGED rings /\ ~Link(p)
  <2>1. \A d \in 1..n : SameWindow(rings[d], rings'[d])
    BY <1>4 DEF SameWindow
  <2>2. \A c \in Consumers : \E F : Fifo(p, c, F)'
    BY <1>1, <1>2, <1>3, <1>4, <2>1, NumbersKept DEF ChainInv
  <2>3. /\ UNCHANGED head /\ ppc[p] # "link" /\ ppc'[p] # "link"
        /\ ppc'[p] \in {"loadIndices", "reserve", "store", "grow", "newHead"} => ring'[p] = n
    BY <1>2, <1>4 DEF Push, Gate, LoadHead, LoadIndices, Grow, Release, Reserve, PGoto, ChainUnchanged
  <2>4. Linked(p)'
    BY <1>1, <1>2, <1>4, <2>3 DEF Linked
  <2>5. InOrder(p)'
    BY <1>1 DEF ChainInv, InOrder
  <2> QED BY <1>1, <2>2, <2>4, <2>5, ChainNext
<1>5. CASE Link(p)
  <2>1. /\ ppc[p] = "link" /\ ppc'[p] = "release" /\ UNCHANGED <<head, ring>>
        /\ rings' = [rings EXCEPT ![n - 1].next = n]
    BY <1>2, <1>5 DEF Link, PGoto
  <2>2. /\ Len(rings') = n
        /\ \A d \in 1..n : rings'[d] = IF d = n - 1 THEN [rings[d] EXCEPT !.next = n] ELSE rings[d]
    BY <1>2, <2>1
  <2>3. \A d \in 1..n : /\ SameWindow(rings[d], rings'[d])
                        /\ rings'[d].next = IF d = n - 1 THEN n ELSE rings[d].next
    BY <2>2, <1>2 DEF SameWindow, Ring
  <2>4. rings[tail].next # None => rings'[tail].next # None
    BY <1>2, <2>3 DEF None
  <2>5. \A c \in Consumers : \E F : Fifo(p, c, F)'
    BY <1>1, <1>2, <1>3, <2>2, <2>3, <2>4, NumbersKept DEF ChainInv
  <2>6. Linked(p)'
    BY <1>1, <1>2, <2>1, <2>2, <2>3 DEF Linked
  <2>7. InOrder(p)'
    BY <1>1 DEF ChainInv, InOrder
  <2> QED BY <1>1, <2>5, <2>6, <2>7, ChainNext
<1> QED BY <1>4, <1>5 DEF Push, Gate, LoadHead, LoadIndices, Grow, Release, Reserve, ChainUnchanged

\* The slot that the producer reserves is for its next value, ...
LEMMA ChainReserve ==
  ASSUME ChainInv, NEW p \in Producers, Reserve(p), rings[ring[p]].headTail = seen[p]
  PROVE  ChainInv'
<1>1. /\ SlotInv' /\ OneEach' /\ UNCHANGED <<tail, cpc, cring, cnext, cseen, val, popped, before>>
      /\ \A q \in Producers : q = p
      /\ \A c \in Consumers : \A v \in before[c] : v[2] \in Nat
      /\ made[p] \in Nat
  BY ProducerAlone DEF Pushing
<1>2. PICK n \in Nat \ {0} :
           /\ n = Len(rings) /\ head = n /\ tail \in 1..n
           /\ \A d \in 1..n : /\ rings[d] \in Ring /\ Whole(rings[d]) /\ Count(rings[d]) \in Nat
                              /\ rings[d].next = IF d = n \/ (d = n - 1 /\ ppc[p] = "link")
                                                 THEN None ELSE d + 1
                              /\ \A i \in 0..Indices-1 : Offset(rings[d], i) \in Nat
           /\ ppc[p] \in {"loadIndices", "reserve", "store", "grow", "newHead"} => ring[p] = n
           /\ rings \in Seq(Ring) /\ DOMAIN ppc = Producers
  BY ChainParts
<1>3. ppc[p] = "reserve" /\ ppc'[p] = "store" /\ UNCHANGED <<head, ring, seen, made>> /\ ring[p] = n
  BY <1>2 DEF Reserve, PGoto
<1>4. Placed(p) = made[p] - 1 /\ Placed(p)' = made[p] /\ Finished(p)' = Finished(p)
  BY <1>3 DEF Placed, Finished
<1>5. PICK r \in Ring : r = rings[n]
  BY <1>2
<1>6. Whole(r) /\ ~Full(r, r.headTail)
  BY <1>2, <1>3, <1>5 DEF ChainInv, SlotInv, ProducersApart, Reserving
<1>7. PICK s \in Ring : s = Lengthened(r)
  BY <1>6, RingReserved
<1>8. /\ s.next = r.next /\ Bottom(s) = Bottom(r) /\ Top(s) = Up(Top(r)) /\ Count(s) = Count(r) + 1
      /\ \A i : At(s, i) = At(r, i) /\ Offset(s, i) = Offset(r, i)
      /\ At(r, Top(r)) = Nil
  BY <1>6, <1>7, RingReserved DEF Offset
<1>9. Head_(seen[p]) = Top(r) /\ Tail_(seen[p]) = Bottom(r)
  BY <1>3, <1>5 DEF Top, Bottom
<1>10. Len(rings') = n /\ \A d \in 1..n : rings'[d] = IF d = n THEN s ELSE rings[d]
  <2>1. rings' = [rings EXCEPT ![n] = s]
    BY <1>3, <1>5, <1>7, <1>9 DEF Reserve, Lengthened
  <2> QED BY <1>2, <2>1
<1>11. /\ Count(r) \in Nat /\ Bottom(r) \in 0..Indices-1 /\ Top(r) \in 0..Indices-1
       /\ Offset(r, Top(r)) = Count(r)
       /\ \A i \in 0..Indices-1 : Offset(r, i) \in Nat /\ (Offset(r, i) = Count(r) => i = Top(r))
  <2>1. Bottom(r) \in 0..Indices-1 /\ Top(r) \in 0..Indices-1 /\ Offset(r, Top(r)) = Count(r)
        /\ Count(r) \in Nat /\ \A i \in 0..Indices-1 : Offset(r, i) \in Nat
    BY Window
  <2>2. ASSUME NEW i \in 0..Indices-1, Offset(r, i) = Count(r)
        PROVE  i = Top(r)
    BY <2>1, <2>2, AheadDiffers DEF Offset
  <2> QED BY <2>1, <2>2
<1>12. ASSUME NEW c \in Consumers, NEW F, Fifo(p, c, F)
       PROVE  Fifo(p, c, F)'
  <2>1. Sums(p, F)'
    <3>1. Sums(p, F) /\ tail \in 1..n
      BY <1>2, <1>12 DEF Fifo
    <3>2. \A d \in tail..n-1 : d \in 1..n /\ d # n
      BY <1>2
    <3>3. F[n] + Count(r) = made[p] - 1 + 1 /\ F[n] \in Nat
      BY <1>2, <1>4, <1>5, <3>1 DEF Sums
    <3>4. F[n] + Count(s) = made[p] + 1
      BY <1>1, <1>8, <1>11, <3>3
    <3>5. rings'[n] = s
      BY <1>2, <1>10
    <3> QED BY <1>1, <1>2, <1>4, <1>10, <3>1, <3>2, <3>4, <3>5, ZenonT(60) DEF Sums
  <2>2. Contents(p, c, F)'
    <3>1. (ppc[p] = "store" => Up(Head_(seen[p])) = Top(rings[Len(rings)]))'
      BY <1>2, <1>3, <1>8, <1>9, <1>10
    <3> SUFFICES ASSUME NEW d \in tail..n, NEW i \in 0..Indices-1,
                        Offset(rings'[d], i) < Count(rings'[d])
                 PROVE  Holding(p, c, F, d, i)'
      BY <1>1, <1>10, <3>1 DEF Contents
    <3>2. d \in 1..n /\ Contents(p, c, F)
      BY <1>2, <1>12 DEF Fifo
    <3>3. CASE d # n
      <4>1. Holding(p, c, F, d, i) /\ rings'[d] = rings[d]
        BY <1>2, <1>10, <3>2, <3>3 DEF Contents
      <4> QED BY <1>1, <1>2, <1>3, <3>3, <4>1 DEF Holding
    <3>4. CASE d = n /\ i = Top(r)
      BY <1>3, <1>8, <1>9, <1>10, <3>2, <3>4 DEF Holding
    <3>5. CASE d = n /\ i # Top(r)
      <4>1. Offset(r, i) < Count(r)
        BY <1>8, <1>10, <1>11, <3>2, <3>5
      <4>2. Holding(p, c, F, d, i)
        BY <1>2, <1>5, <3>2, <3>5, <4>1 DEF Contents
      <4> QED BY <1>1, <1>3, <1>5, <1>8, <1>10, <3>2, <3>5, <4>2 DEF Holding
    <3> QED BY <3>3, <3>4, <3>5
  <2>3. Searching(p, c, F)'
    <3>1. Searching(p, c, F) /\ Sums(p, F)
      BY <1>12 DEF Fifo
    <3>2. /\ rings'[tail].next = rings[tail].next
          /\ Count(rings'[tail]) >= Count(rings[tail]) /\ Count(rings[tail]) \in Nat
          /\ Count(rings'[tail]) \in Nat
          /\ rings[tail].next # None => Count(rings'[tail]) = Count(rings[tail])
      BY <1>2, <1>3, <1>5, <1>8, <1>10 DEF None
    <3>3. F[tail] \in Nat
      BY <1>2, <3>1 DEF Sums
    <3>4. /\ cpc[c] \in {"loadIndices", "loadSlot", "take"} /\ cnext[c] = None =>
             \A v \in before[c] : v[2] < F[tail] + Count(rings'[tail])
      BY <1>1, <3>1, <3>2, <3>3 DEF Searching
    <3>5. cpc[c] = "drained" /\ cnext[c] # None => Count(rings'[tail]) = 0
      BY <3>1, <3>2 DEF Searching
    <3> QED BY <1>1, <1>4, <3>1, <3>2, <3>4, <3>5 DEF Searching
  <2> QED BY <2>1, <2>2, <2>3 DEF Fifo
<1>13. Linked(p)'
  BY <1>1, <1>2, <1>3, <1>5, <1>8, <1>10, ZenonT(60) DEF Linked
<1>14. InOrder(p)'
  BY <1>1 DEF ChainInv, InOrder
<1>15. \A c \in Consumers : \E F : Fifo(p, c, F)'
  BY <1>12 DEF ChainInv
<1> QED BY <1>1, <1>13, <1>14, <1>15, ChainNext

\* ... which it then stores there.
LEMMA ChainStore ==
  ASSUME ChainInv, NEW p \in Producers, Store(p)
  PROVE  ChainInv'
<1>1. /\ SlotInv' /\ OneEach' /\ UNCHANGED <<tail, cpc, cring, cnext, cseen, val, popped, before>>
      /\ \A q \in Producers : q = p
      /\ \A c \in Consumers : \A v \in before[c] : v[2] \in Nat
      /\ made[p] \in Nat
  BY ProducerAlone DEF Pushing
<1>2. PICK n \in Nat \ {0} :
           /\ n = Len(rings) /\ head = n /\ tail \in 1..n
           /\ \A d \in 1..n : /\ rings[d] \in Ring /\ Whole(rings[d]) /\ Count(rings[d]) \in Nat
                              /\ rings[d].next = IF d = n \/ (d = n - 1 /\ ppc[p] = "link")
                                                 THEN None ELSE d + 1
                              /\ \A i \in 0..Indices-1 : Offset(rings[d], i) \in Nat
           /\ ppc[p] \in {"loadIndices", "reserve", "store", "grow", "newHead"} => ring[p] = n
           /\ rings \in Seq(Ring) /\ DOMAIN ppc = Producers
  BY ChainParts
<1>3. ppc[p] = "store" /\ ppc'[p] = "idle" /\ UNCHANGED <<head, ring, seen, made>> /\ ring[p] = n
  BY <1>2 DEF Store, PGoto
<1>4. Placed(p) = made[p] /\ Placed(p)' = made[p] /\ Finished(p)' = made[p] /\ Finished(p) = made[p] - 1
  BY <1>3 DEF Placed, Finished
<1> DEFINE i == Head_(seen[p])
<1>5. PICK r \in Ring : r = rings[n]
  BY <1>2
<1>6. Whole(r) /\ Offset(r, i) < Count(r) /\ At(r, i) = Nil /\ i \in 0..Indices-1
  BY <1>2, <1>3, <1>5, Looks DEF ChainInv, SlotInv, ProducersApart, Reservation
<1>7. Value(p) \in AllValues \cup {Nil} /\ Value(p) = <<p, made[p]>>
  BY <1>3, ValueTyped DEF ChainInv, SlotInv, Value
<1>8. PICK s \in Ring : s = Written(r, i, Value(p))
  BY <1>6, <1>7, RingWritten
<1>9. /\ s.next = r.next /\ s.headTail = r.headTail /\ At(s, i) = Value(p)
      /\ \A j \in 0..Indices-1 : j # i /\ Offset(r, j) < Len_(r) => At(s, j) = At(r, j)
  BY <1>6, <1>7, <1>8, RingWritten
<1>10. Len(rings') = n /\ \A d \in 1..n : rings'[d] = IF d = n THEN s ELSE rings[d]
  <2>1. rings' = [rings EXCEPT ![n] = s]
    BY <1>3, <1>5, <1>8 DEF Store, Written, Reserved
  <2> QED BY <1>2, <2>1
<1> HIDE DEF i
<1>11. /\ Bottom(s) = Bottom(r) /\ Top(s) = Top(r) /\ Count(s) = Count(r)
       /\ \A j : Offset(s, j) = Offset(r, j)
  BY <1>9 DEF Offset, Bottom, Top, Count
<1>12. /\ Count(r) \in Nat /\ Len_(r) \in Nat /\ Count(r) <= Len_(r)
       /\ \A j \in 0..Indices-1 : Offset(r, j) \in Nat
  BY <1>6, Window DEF Whole
<1>13. ASSUME NEW c \in Consumers, NEW F, Fifo(p, c, F)
       PROVE  Fifo(p, c, F)'
  <2>1. Sums(p, F)'
    <3>1. Sums(p, F)
      BY <1>13 DEF Fifo
    <3>2. \A d \in 1..n : Count(rings'[d]) = Count(rings[d])
      BY <1>5, <1>10, <1>11
    <3>3. \A d \in tail..n-1 : d \in 1..n
      BY <1>2
    <3> QED BY <1>1, <1>2, <1>4, <1>10, <3>1, <3>2, <3>3 DEF Sums
  <2>2. Contents(p, c, F)'
    <3> SUFFICES ASSUME NEW d \in tail..n, NEW j \in 0..Indices-1,
                        Offset(rings'[d], j) < Count(rings'[d])
                 PROVE  Holding(p, c, F, d, j)'
      BY <1>1, <1>3, <1>10 DEF Contents
    <3>1. d \in 1..n /\ Contents(p, c, F) /\ Sums(p, F)
      BY <1>2, <1>13 DEF Fifo
    <3>2. CASE d # n
      <4>1. Holding(p, c, F, d, j) /\ rings'[d] = rings[d]
        BY <1>2, <1>10, <3>1, <3>2 DEF Contents
      <4> QED BY <1>1, <1>2, <1>3, <3>2, <4>1 DEF Holding
    <3>3. CASE d = n /\ j = i
      <4>1. Up(i) = Top(r)
        BY <1>2, <1>3, <1>5, <3>1 DEF Contents, i
      <4>2. Offset(r, i) + 1 = Count(r)
        <5>1. Bottom(r) \in 0..Indices-1 /\ Offset(r, i) < Indices - 1 /\ Count(r) \in 0..Indices-1
          BY <1>6, <1>12, Window, Widths
        <5> QED BY <1>6, <4>1, <5>1, AheadMoves DEF Offset, Count
      <4>3. F[n] + Count(r) = made[p] + 1 /\ F[n] \in Nat
        BY <1>2, <1>4, <1>5, <3>1 DEF Sums
      <4>4. F[n] + Offset(s, i) = made[p]
        BY <1>1, <1>6, <1>11, <1>12, <4>2, <4>3
      <4>5. rings'[n] = s
        BY <1>2, <1>10
      <4> QED BY <1>7, <1>9, <3>3, <4>4, <4>5 DEF Holding
    <3>4. CASE d = n /\ j # i
      <4>1. Offset(r, j) < Count(r)
        BY <1>10, <1>11, <3>1, <3>4
      <4>2. Holding(p, c, F, d, j)
        BY <1>2, <1>5, <3>1, <3>4, <4>1 DEF Contents
      <4>3. At(s, j) = At(r, j)
        BY <1>9, <1>12, <3>4, <4>1
      <4> QED BY <1>1, <1>2, <1>3, <1>5, <1>10, <1>11, <3>1, <3>4, <4>2, <4>3 DEF Holding, i
    <3> QED BY <3>2, <3>3, <3>4
  <2>3. Searching(p, c, F)'
    <3>1. Searching(p, c, F)
      BY <1>13 DEF Fifo
    <3>2. /\ rings'[tail].next = rings[tail].next
          /\ Count(rings'[tail]) = Count(rings[tail])
      BY <1>2, <1>5, <1>9, <1>10, <1>11
    <3>3. \A v \in before[c] : v[1] = p /\ v[2] <= Finished(p)'
      BY <1>1, <1>4, <3>1 DEF Searching
    <3> QED BY <1>1, <3>1, <3>2, <3>3 DEF Searching
  <2> QED BY <2>1, <2>2, <2>3 DEF Fifo
<1>14. Linked(p)'
  BY <1>1, <1>2, <1>3, <1>5, <1>9, <1>10, ZenonT(60) DEF Linked
<1>15. InOrder(p)'
  BY <1>1 DEF ChainInv, InOrder
<1>16. \A c \in Consumers : \E F : Fifo(p, c, F)'
  BY <1>13 DEF ChainInv
<1> QED BY <1>1, <1>14, <1>15, <1>16, ChainNext

\* The first value of a new ring follows the last one of the full ring.
LEMMA ChainNewHead ==
  ASSUME ChainInv, NEW p \in Producers, NewHead(p)
  PROVE  ChainInv'
<1>1. /\ SlotInv' /\ OneEach' /\ UNCHANGED <<tail, cpc, cring, cnext, cseen, val, popped, before>>
      /\ \A q \in Producers : q = p
      /\ \A c \in Consumers : \A v \in before[c] : v[2] \in Nat
      /\ made[p] \in Nat
  BY ProducerAlone DEF Pushing
<1>2. PICK n \in Nat \ {0} :
           /\ n = Len(rings) /\ head = n /\ tail \in 1..n
           /\ \A d \in 1..n : /\ rings[d] \in Ring /\ Whole(rings[d]) /\ Count(rings[d]) \in Nat
                              /\ rings[d].next = IF d = n \/ (d = n - 1 /\ ppc[p] = "link")
                                                 THEN None ELSE d + 1
                              /\ \A i \in 0..Indices-1 : Offset(rings[d], i) \in Nat
           /\ ppc[p] \in {"loadIndices", "reserve", "store", "grow", "newHead"} => ring[p] = n
           /\ rings \in Seq(Ring) /\ DOMAIN ppc = Producers
  BY ChainParts
<1>3. ppc[p] = "newHead" /\ ppc'[p] = "link" /\ UNCHANGED <<ring, seen, made>> /\ ring[p] = n
      /\ head' = n + 1
  BY <1>2 DEF NewHead, PGoto
<1>4. Placed(p) = made[p] - 1 /\ Placed(p)' = made[p] /\ Finished(p)' = Finished(p)
  BY <1>3 DEF Placed, Finished
<1> DEFINE m == NextSize(Len_(rings[n]))
<1>5. m \in 1..dequeueLimit /\ Indices % m = 0
  BY <1>2, RingShape, SizesGrow, SizesDivide, SMTT(60) DEF Whole
<1>6. Value(p) \in AllValues /\ Value(p) = <<p, made[p]>>
  BY <1>3, ValueTyped DEF ChainInv, SlotInv, Value
<1>7. rings' = Append(rings, Started(m, Value(p)))
  BY <1>3 DEF NewHead, Started
<1> HIDE DEF m
<1>8. PICK s \in Ring : s = Started(m, Value(p))
  BY <1>5, <1>6, NewRingWhole
<1>9. /\ s.next = None /\ Count(s) = 1 /\ Bottom(s) = 0 /\ At(s, 0) = Value(p)
  BY <1>5, <1>6, <1>8, NewRingWhole
<1>10. /\ Len(rings') = n + 1 /\ rings'[n + 1] = s
       /\ \A d \in 1..n : rings'[d] = rings[d]
  BY <1>2, <1>7, <1>8
<1>11. ASSUME NEW c \in Consumers, NEW F, Fifo(p, c, F)
       PROVE  \E G : Fifo(p, c, G)'
  <2> DEFINE G == [d \in 1..n+1 |-> IF d = n + 1 THEN F[n] + Count(rings[n]) ELSE F[d]]
  <2>1. Sums(p, F) /\ Contents(p, c, F) /\ Searching(p, c, F)
    BY <1>11 DEF Fifo
  <2>2. /\ F \in [1..n -> Nat] /\ F[tail] = Len(popped) + 1
        /\ \A d \in tail..n-1 : F[d] + Count(rings[d]) = F[d + 1]
        /\ F[n] + Count(rings[n]) = made[p]
    BY <1>1, <1>2, <1>4, <2>1 DEF Sums
  <2>3. /\ G \in [1..n+1 -> Nat] /\ G[n + 1] = made[p] /\ \A d \in 1..n : G[d] = F[d]
    <3>1. PICK g \in Nat : g = F[n] + Count(rings[n]) /\ g = made[p]
      BY <1>1, <2>2
    <3>2. G = [d \in 1..n+1 |-> IF d = n + 1 THEN g ELSE F[d]]
      BY <3>1
    <3> HIDE DEF G
    <3>3. \A d \in 1..n : d # n + 1 /\ d \in 1..n+1 /\ F[d] \in Nat
      BY <1>2, <2>2
    <3>4. n + 1 \in 1..n+1 /\ \A d \in 1..n+1 : d = n + 1 \/ d \in 1..n
      <4>1. n \in Nat
        OBVIOUS
      <4> QED BY <4>1
    <3>5. G \in [1..n+1 -> Nat]
      BY <3>1, <3>2, <3>3, <3>4
    <3> QED BY <3>1, <3>2, <3>3, <3>4, <3>5
  <2>4. PICK H : H = G
    OBVIOUS
  <2> HIDE DEF G
  <2>5. Sums(p, H)'
    <3>1. ASSUME NEW d \in tail..n
          PROVE  H[d] + Count(rings'[d]) = H[d + 1]
      <4>1. CASE d = n
        BY <1>2, <1>10, <2>2, <2>3, <2>4, <4>1
      <4>2. CASE d # n
        <5>1. d \in 1..n /\ d + 1 \in 1..n /\ d \in tail..n-1
          BY <1>2, <4>2
        <5> QED BY <1>10, <2>2, <2>3, <2>4, <5>1
      <4> QED BY <4>1, <4>2
    <3>2. H[tail] = Len(popped) + 1 /\ H[n + 1] + Count(rings'[n + 1]) = made[p] + 1
      BY <1>2, <1>9, <1>10, <2>2, <2>3, <2>4
    <3>3. n + 1 - 1 = n
      BY <1>2
    <3> QED BY <1>1, <1>4, <1>10, <2>3, <2>4, <3>1, <3>2, <3>3 DEF Sums
  <2>6. Contents(p, c, H)'
    <3> SUFFICES ASSUME NEW d \in tail..n+1, NEW i \in 0..Indices-1,
                        Offset(rings'[d], i) < Count(rings'[d])
                 PROVE  Holding(p, c, H, d, i)'
      BY <1>1, <1>3, <1>10 DEF Contents
    <3>1. CASE d # n + 1
      <4>1. d \in tail..n /\ d \in 1..n
        BY <1>2, <3>1
      <4>2. rings'[d] = rings[d] /\ Holding(p, c, F, d, i) /\ H[d] = F[d]
        BY <1>2, <1>10, <2>1, <2>3, <2>4, <4>1 DEF Contents
      <4> QED BY <1>1, <1>3, <4>2 DEF Holding
    <3>2. CASE d = n + 1
      <4>1. i = 0 /\ Offset(s, 0) = 0
        BY <1>9, <1>10, <3>2, Widths DEF Offset, Ahead
      <4>2. H[n + 1] + Offset(s, 0) = made[p]
        BY <1>1, <2>3, <2>4, <4>1
      <4>3. At(s, i) = <<p, H[n + 1] + Offset(s, i)>>
        BY <1>6, <1>9, <4>1, <4>2
      <4> QED BY <1>10, <3>2, <4>3 DEF Holding
    <3> QED BY <3>1, <3>2
  <2>7. Searching(p, c, H)'
    <3>1. rings'[tail] = rings[tail] /\ H[tail] = F[tail]
      BY <1>2, <1>10, <2>3, <2>4
    <3> QED BY <1>1, <1>4, <2>1, <3>1 DEF Searching
  <2> QED BY <2>5, <2>6, <2>7 DEF Fifo
<1>12. Linked(p)'
  BY <1>1, <1>2, <1>3, <1>9, <1>10 DEF Linked
<1>13. InOrder(p)'
  BY <1>1 DEF ChainInv, InOrder
<1>14. \A c \in Consumers : \E F : Fifo(p, c, F)'
  BY <1>11 DEF ChainInv
<1> QED BY <1>1, <1>12, <1>13, <1>14, ChainNext

\* What the consumer's steps leave alone.
LEMMA ConsumerAlone ==
  ASSUME ChainInv, NEW c \in Consumers, Popping(c)
  PROVE  /\ SlotInv' /\ OneEach' /\ UNCHANGED <<head, ppc, ring, seen, made>>
         /\ \A e \in Consumers : e = c
         /\ \A v \in before[c] : v[2] \in Nat
         /\ \A p \in Producers : Placed(p)' = Placed(p) /\ Finished(p)' = Finished(p)
<1>1. SlotInv' /\ OneEach'
  BY SlotsStep DEF ChainInv, OneEach, OneConsumer, Next
<1>2. UNCHANGED <<head, ppc, ring, seen, made>>
  BY DEF Popping, Pop, LoadNext, PopLoadIndices, LoadSlot, Take, MoveTail, Advance, ReturnEmpty,
         ChainUnchanged, producerVars
<1>3. \A v \in before[c] : v[2] \in Nat
  BY DEF ChainInv, SlotInv, TypeInv, TypeOK, AllValues
<1>4. \A p \in Producers : Placed(p)' = Placed(p) /\ Finished(p)' = Finished(p)
  BY <1>2 DEF Placed, Finished
<1> QED BY <1>1, <1>2, <1>3, <1>4 DEF ChainInv, OneEach, OneConsumer

\* A step of the consumer that changes nothing of the queue.
LEMMA SearchingStep ==
  ASSUME ChainInv, NEW c \in Consumers, Popping(c), UNCHANGED <<rings, tail, popped>>,
         cpc[c] # "moveTail", cpc'[c] # "moveTail",
         \A p \in Producers : \A F : Fifo(p, c, F) => Searching(p, c, F)'
  PROVE  ChainInv'
<1>1. /\ SlotInv' /\ OneEach' /\ UNCHANGED <<head, ppc, ring, seen, made>>
      /\ \A e \in Consumers : e = c
      /\ \A p \in Producers : Placed(p)' = Placed(p)
  BY ConsumerAlone
<1>2. \A p \in Producers : Linked(p)' /\ InOrder(p)'
  BY <1>1 DEF ChainInv, Linked, InOrder
<1>3. ASSUME NEW p \in Producers, NEW F, Fifo(p, c, F)
      PROVE  Fifo(p, c, F)'
  <2>1. Sums(p, F)'
    BY <1>1, <1>3 DEF Fifo, Sums
  <2>2. Contents(p, c, F)'
    BY <1>1, <1>3 DEF Fifo, Contents, Holding
  <2> QED BY <1>3, <2>1, <2>2 DEF Fifo
<1>4. \A p \in Producers : \E F : Fifo(p, c, F)'
  BY <1>3 DEF ChainInv
<1> QED BY <1>1, <1>2, <1>4 DEF ChainInv

LEMMA ChainSearching ==
  ASSUME ChainInv, NEW c \in Consumers,
         Pop(c) \/ LoadNext(c) \/ PopLoadIndices(c) \/ LoadSlot(c) \/ ReturnEmpty(c)
  PROVE  ChainInv'
<1>1. /\ UNCHANGED <<head, ppc, ring, seen, made>>
      /\ \A v \in before[c] : v[2] \in Nat
      /\ \A p \in Producers : Placed(p)' = Placed(p) /\ Finished(p)' = Finished(p)
  BY ConsumerAlone DEF Popping
<1>2. UNCHANGED <<rings, tail, popped>>
  BY DEF Pop, LoadNext, PopLoadIndices, LoadSlot, ReturnEmpty, ChainUnchanged
<1>3. /\ DOMAIN cpc = Consumers /\ DOMAIN cring = Consumers /\ DOMAIN cnext = Consumers
      /\ DOMAIN cseen = Consumers /\ DOMAIN val = Consumers /\ DOMAIN before = Consumers
  BY TypeParts DEF ChainInv, SlotInv, ConsumersTyped
<1>4. cpc[c] # "moveTail" /\ cpc'[c] # "moveTail"
  BY <1>3 DEF Pop, LoadNext, PopLoadIndices, LoadSlot, ReturnEmpty, CGoto
<1>5. ASSUME NEW p \in Producers, NEW F, Fifo(p, c, F)
      PROVE  Searching(p, c, F)'
  <2>1. PICK n \in Nat \ {0} :
           /\ n = Len(rings) /\ tail \in 1..n
           /\ \A d \in 1..n : /\ rings[d] \in Ring /\ Count(rings[d]) \in Nat
                              /\ rings[d].next = IF d = n \/ (d = n - 1 /\ ppc[p] = "link")
                                                 THEN None ELSE d + 1
           /\ ppc[p] = "link" => Count(rings[n]) = 1
           /\ made[p] \in Nat
    BY ChainParts, ZenonT(60)
  <2>2. Searching(p, c, F) /\ Sums(p, F)
    BY <1>5 DEF Fifo
  <2>3. CASE Pop(c)
    <3>1. \A v \in Returned : v[1] = p /\ v[2] <= Finished(p)
      <4> SUFFICES ASSUME NEW v \in Returned PROVE v[1] = p /\ v[2] <= Finished(p)
        OBVIOUS
      <4>1. v \in AllValues /\ v[1] \in Producers /\ v[2] \in Nat
        BY DEF Returned, AllValues
      <4>2. v[1] = p
        BY <4>1 DEF ChainInv, OneEach
      <4>3. v[2] <= made[p] /\ (v[2] = made[p] => ppc[p] = "idle")
        BY <4>2 DEF Returned
      <4> QED BY <2>1, <4>1, <4>2, <4>3 DEF Finished
    <3>2. cpc'[c] = "loadNext" /\ cring'[c] = tail /\ before'[c] = Returned
      BY <1>3, <2>3 DEF Pop, CGoto
    <3> QED BY <1>1, <1>2, <3>1, <3>2 DEF Searching
  <2>4. CASE LoadNext(c)
    <3>1. /\ cpc[c] = "loadNext" /\ cpc'[c] = "loadIndices" /\ cnext'[c] = rings[tail].next
          /\ UNCHANGED <<cring, before>> /\ cring[c] = tail
      BY <1>3, <2>2, <2>4 DEF LoadNext, CGoto, Searching
    <3>2. rings[tail].next = None \/ rings[tail].next = tail + 1
      BY <2>1
    <3>3. ASSUME rings[tail].next = None
          PROVE  Finished(p) < F[tail] + Count(rings[tail])
      <4>1. CASE tail = n
        <5>1. F[n] + Count(rings[n]) = Placed(p) + 1
          BY <2>1, <2>2 DEF Sums
        <5> QED BY <2>1, <4>1, <5>1 DEF Placed, Finished
      <4>2. CASE tail # n
        <5>1. tail = n - 1 /\ ppc[p] = "link" /\ tail \in tail..n-1 /\ n \in 1..n
          BY <2>1, <3>3, <4>2 DEF None
        <5>2. F[n] + Count(rings[n]) = Placed(p) + 1 /\ F[tail] + Count(rings[tail]) = F[tail + 1]
              /\ F[n] \in Nat
          BY <2>1, <2>2, <5>1 DEF Sums
        <5>3. Count(rings[n]) = 1 /\ Placed(p) = made[p] /\ Finished(p) = made[p] - 1 /\ tail + 1 = n
          BY <2>1, <5>1 DEF Placed, Finished
        <5> QED BY <2>1, <5>2, <5>3
      <4> QED BY <4>1, <4>2
    <3>4. Finished(p) \in Int /\ F[tail] + Count(rings[tail]) \in Int
      BY <2>1, <2>2 DEF Finished, Sums
    <3>5. \A v \in before[c] : v[2] <= Finished(p) /\ v[1] = p
      BY <2>2 DEF Searching
    <3>6. rings[tail].next = None => \A v \in before[c] : v[2] < F[tail] + Count(rings[tail])
      BY <1>1, <3>3, <3>4, <3>5
    <3> QED BY <1>1, <1>2, <3>1, <3>2, <3>5, <3>6 DEF Searching, None
  <2>5. CASE PopLoadIndices(c)
    <3>1. /\ cpc[c] = "loadIndices" /\ UNCHANGED <<cring, cnext, before>> /\ cring[c] = tail
          /\ cpc'[c] = IF Bottom(rings[tail]) = Top(rings[tail]) THEN "drained" ELSE "loadSlot"
      BY <1>3, <2>2, <2>5 DEF PopLoadIndices, CGoto, Searching, Bottom, Top
    <3>2. Bottom(rings[tail]) = Top(rings[tail]) => Count(rings[tail]) = 0
      <4>1. Bottom(rings[tail]) \in 0..Indices-1 /\ Top(rings[tail]) \in 0..Indices-1
        BY <2>1, Window
      <4> QED BY <4>1, AheadMoves DEF Count
    <3>3. F[tail] = Len(popped) + 1 /\ Len(popped) \in Nat
      BY <2>2 DEF Sums, ChainInv, SlotInv, TypeInv, TypeOK
    <3>4. Bottom(rings[tail]) = Top(rings[tail]) /\ cnext[c] = None =>
            \A v \in before[c] : v[2] <= Len(popped)
      BY <1>1, <2>2, <3>1, <3>2, <3>3 DEF Searching
    <3>5. \/ cpc'[c] = "loadSlot"
          \/ /\ cpc'[c] = "drained" /\ Count(rings[tail]) = 0
             /\ cnext[c] = None => \A v \in before[c] : v[2] <= Len(popped)
      BY <3>1, <3>2, <3>4
    <3> QED BY <1>1, <1>2, <2>2, <3>1, <3>5 DEF Searching
  <2>6. CASE LoadSlot(c)
    <3>1. /\ cpc[c] = "loadSlot" /\ UNCHANGED <<cring, cnext, before>>
          /\ cpc'[c] \in {"loadIndices", "take"}
      BY <1>3, <2>6 DEF LoadSlot, CGoto
    <3> QED BY <1>1, <1>2, <2>2, <3>1 DEF Searching
  <2>7. CASE ReturnEmpty(c)
    <3>1. /\ cpc[c] = "drained" /\ cnext[c] = None /\ UNCHANGED <<cring, cnext, before>>
          /\ cpc'[c] = "empty"
      BY <1>3, <2>7 DEF ReturnEmpty, CGoto, Successor
    <3> QED BY <1>1, <1>2, <2>2, <3>1 DEF Searching
  <2> QED BY <2>3, <2>4, <2>5, <2>6, <2>7
<1> QED BY <1>2, <1>4, <1>5, SearchingStep DEF Popping

\* The consumer goes on to the next ring: the values go on without a gap.
LEMMA ChainAdvance ==
  ASSUME ChainInv, NEW c \in Consumers, Advance(c)
  PROVE  ChainInv'
<1>1. /\ SlotInv' /\ OneEach' /\ UNCHANGED <<head, ppc, ring, seen, made, rings, popped, cnext, before>>
      /\ \A e \in Consumers : e = c
      /\ \A p \in Producers : Placed(p)' = Placed(p) /\ Finished(p)' = Finished(p)
  BY ConsumerAlone DEF Popping, Advance
<1>2. cpc[c] = "drained" /\ cpc'[c] = "loadNext" /\ cnext[c] # None /\ cring'[c] = cnext[c]
  BY TypeParts DEF Advance, Successor, CGoto, ChainInv, SlotInv, ConsumersTyped
<1>3. ASSUME NEW p \in Producers
      PROVE  Linked(p)' /\ InOrder(p)' /\ \E F : Fifo(p, c, F)'
  <2>1. PICK n \in Nat \ {0} :
           /\ n = Len(rings) /\ head = n /\ tail \in 1..n
           /\ \A d \in 1..n : /\ rings[d] \in Ring /\ Whole(rings[d]) /\ Count(rings[d]) \in Nat
                              /\ rings[d].next = IF d = n \/ (d = n - 1 /\ ppc[p] = "link")
                                                 THEN None ELSE d + 1
                              /\ \A i \in 0..Indices-1 : Offset(rings[d], i) \in Nat
           /\ ppc[p] \in {"loadIndices", "reserve", "store", "grow", "newHead"} => ring[p] = n
           /\ ppc[p] = "link" => ring[p] = n - 1 /\ ring[p] \in 1..n /\ tail < n /\ Count(rings[n]) = 1
    BY ChainParts
  <2>2. PICK F : Fifo(p, c, F)
    BY DEF ChainInv
  <2>3. /\ cring[c] = tail /\ cnext[c] = tail + 1 /\ rings[tail].next # None /\ Count(rings[tail]) = 0
    BY <1>2, <2>2 DEF Fifo, Searching
  <2>4. tail' = tail + 1 /\ tail \in tail..n-1 /\ tail + 1 \in 1..n /\ (ppc[p] = "link" => tail + 1 < n)
    <3>1. tail # n /\ (ppc[p] = "link" => tail # n - 1)
      BY <2>1, <2>3
    <3>2. tail' = tail + 1
      BY <2>3 DEF Advance, Successor
    <3> QED BY <2>1, <3>1, <3>2
  <2>5. Linked(p)'
    BY <1>1, <2>1, <2>4 DEF Linked, ChainInv
  <2>6. InOrder(p)'
    BY <1>1 DEF ChainInv, InOrder
  <2>7. Sums(p, F)'
    <3>1. Sums(p, F)
      BY <2>2 DEF Fifo
    <3>2. F[tail + 1] = Len(popped) + 1
      <4>1. F[tail] + Count(rings[tail]) = F[tail + 1] /\ F[tail] = Len(popped) + 1 /\ F[tail] \in Nat
        BY <2>1, <2>4, <3>1 DEF Sums
      <4> QED BY <2>3, <4>1
    <3>3. \A d \in tail+1..n-1 : d \in tail..n-1
      BY <2>1
    <3> QED BY <1>1, <2>1, <2>4, <3>1, <3>2, <3>3 DEF Sums
  <2>8. Contents(p, c, F)'
    <3>1. \A d \in tail+1..n : d \in tail..n
      BY <2>1
    <3> QED BY <1>1, <1>2, <2>1, <2>2, <2>4, <3>1 DEF Fifo, Contents, Holding
  <2>9. Searching(p, c, F)'
    BY <1>1, <1>2, <2>2, <2>3, <2>4 DEF Fifo, Searching
  <2> QED BY <2>5, <2>6, <2>7, <2>8, <2>9 DEF Fifo
<1> QED BY <1>1, <1>3 DEF ChainInv

\* What the consumer takes is the oldest value, ...
LEMMA ChainTake ==
  ASSUME ChainInv, NEW c \in Consumers, Take(c)
  PROVE  ChainInv'
<1>1. /\ SlotInv' /\ OneEach' /\ UNCHANGED <<head, ppc, ring, seen, made, tail, popped, cring, cnext,
                                             val, before>>
      /\ \A e \in Consumers : e = c
      /\ \A p \in Producers : Placed(p)' = Placed(p) /\ Finished(p)' = Finished(p)
  BY ConsumerAlone DEF Popping, Take
<1>2. cpc[c] = "take" /\ cpc'[c] = "moveTail" /\ val[c] # Nil
      /\ rings[cring[c]].vals[Candidate(c)] = val[c]
  BY TypeParts, SlotsTake DEF Take, CGoto, ChainInv, SlotInv, TypeInv, ConsumersTyped
<1>3. ASSUME NEW p \in Producers
      PROVE  Linked(p)' /\ InOrder(p)' /\ \E F : Fifo(p, c, F)'
  <2>1. PICK n \in Nat \ {0} :
           /\ n = Len(rings) /\ head = n /\ tail \in 1..n
           /\ \A d \in 1..n : /\ rings[d] \in Ring /\ Whole(rings[d]) /\ Count(rings[d]) \in Nat
                              /\ rings[d].next = IF d = n \/ (d = n - 1 /\ ppc[p] = "link")
                                                 THEN None ELSE d + 1
                              /\ \A i \in 0..Indices-1 : Offset(rings[d], i) \in Nat
           /\ ppc[p] \in {"loadIndices", "reserve", "store", "grow", "newHead"} => ring[p] = n
           /\ ppc[p] = "link" => ring[p] = n - 1 /\ ring[p] \in 1..n /\ tail < n /\ Count(rings[n]) = 1
           /\ rings \in Seq(Ring)
    BY ChainParts
  <2>2. PICK F : Fifo(p, c, F)
    BY DEF ChainInv
  <2>3. cring[c] = tail
    BY <1>2, <2>2 DEF Fifo, Searching
  <2>4. PICK r \in Ring : r = rings[tail]
    BY <2>1
  <2> DEFINE b == Bottom(r)
  <2>5. /\ Tail_(cseen[c]) = b /\ Count(r) >= 1 /\ At(r, b) = val[c] /\ Whole(r)
        /\ b \in 0..Indices-1 /\ Offset(r, b) = 0 /\ Count(r) \in Nat
    <3>1. Consuming(c)
      BY DEF ChainInv, SlotInv, ConsumersKnow
    <3>2. Tail_(cseen[c]) = b /\ Count(r) >= 1 /\ At(r, b) = val[c]
      BY <1>2, <2>3, <2>4, <3>1 DEF Consuming
    <3> QED BY <2>1, <2>4, <3>2, Window
  <2> HIDE DEF b
  <2>6. PICK s \in Ring : s = Written(r, b, Nil)
    BY <2>5, RingWritten
  <2>7. /\ s.next = r.next /\ s.headTail = r.headTail
        /\ \A j \in 0..Indices-1 : j # b /\ Offset(r, j) < Len_(r) => At(s, j) = At(r, j)
    BY <2>5, <2>6, RingWritten
  <2>8. Len(rings') = n /\ \A d \in 1..n : rings'[d] = IF d = tail THEN s ELSE rings[d]
    <3>1. rings' = [rings EXCEPT ![tail] = s]
      BY <1>2, <2>3, <2>4, <2>5, <2>6 DEF Take, Written, Emptied, Candidate
    <3> QED BY <2>1, <3>1
  <2>9. /\ Bottom(s) = b /\ Bottom(r) = b /\ Top(s) = Top(r) /\ Count(s) = Count(r)
        /\ \A j : Offset(s, j) = Offset(r, j)
    BY <2>7 DEF Offset, Bottom, Top, Count, b
  <2>10. \A d \in 1..n : /\ Count(rings'[d]) = Count(rings[d]) /\ rings'[d].next = rings[d].next
                         /\ Top(rings'[d]) = Top(rings[d])
    BY <2>4, <2>7, <2>8, <2>9
  <2>11. Linked(p)'
    BY <1>1, <2>1, <2>8, <2>10 DEF Linked
  <2>12. InOrder(p)'
    BY <1>1 DEF ChainInv, InOrder
  <2>13. Sums(p, F)'
    <3>1. \A d \in tail..n-1 : d \in 1..n
      BY <2>1
    <3> QED BY <1>1, <2>1, <2>2, <2>8, <2>10, <3>1 DEF Fifo, Sums
  <2>14. val[c] = <<p, F[tail]>>
    <3>1. Holding(p, c, F, tail, b)
      <4>1. tail \in tail..n /\ Offset(r, b) < Count(r)
        BY <2>1, <2>5
      <4> QED BY <2>1, <2>2, <2>4, <2>5, <4>1 DEF Fifo, Contents
    <3>2. At(rings[tail], b) = <<p, F[tail] + 0>>
      BY <1>2, <2>4, <2>5, <3>1 DEF Holding
    <3>3. F[tail] \in Nat
      BY <2>1, <2>2 DEF Fifo, Sums
    <3> QED BY <2>4, <2>5, <3>2, <3>3
  <2>15. Contents(p, c, F)'
    <3>1. (ppc[p] = "store" => Up(Head_(seen[p])) = Top(rings[Len(rings)]))'
      BY <1>1, <2>1, <2>2, <2>8, <2>10 DEF Fifo, Contents
    <3> SUFFICES ASSUME NEW d \in tail..n, NEW i \in 0..Indices-1,
                        Offset(rings'[d], i) < Count(rings'[d])
                 PROVE  Holding(p, c, F, d, i)'
      BY <1>1, <2>8, <3>1 DEF Contents
    <3>2. d \in 1..n /\ Contents(p, c, F)
      BY <2>1, <2>2 DEF Fifo
    <3>3. CASE d # tail
      <4>1. Holding(p, c, F, d, i) /\ rings'[d] = rings[d]
        BY <2>1, <2>8, <3>2, <3>3 DEF Contents
      <4> QED BY <1>1, <1>2, <2>1, <2>8, <3>3, <4>1 DEF Holding
    <3>4. CASE d = tail /\ i = b
      BY <1>1, <1>2, <2>8, <2>9, <3>2, <3>4 DEF Holding
    <3>5. CASE d = tail /\ i # b
      <4>1. Offset(r, i) < Count(r) /\ rings'[d] = s
        BY <2>8, <2>9, <3>2, <3>5
      <4>2. Holding(p, c, F, d, i)
        BY <2>1, <2>4, <3>2, <3>5, <4>1 DEF Contents
      <4>3. At(s, i) = At(r, i)
        <5>1. Offset(r, i) < Len_(r)
          BY <2>5, <4>1, Window DEF Whole
        <5> QED BY <2>7, <3>5, <5>1
      <4> QED BY <1>1, <2>1, <2>4, <2>8, <2>9, <3>5, <4>1, <4>2, <4>3 DEF Holding
    <3> QED BY <3>3, <3>4, <3>5
  <2>16. Searching(p, c, F)'
    <3>1. rings'[tail].next = rings[tail].next
      BY <2>1, <2>10
    <3> QED BY <1>1, <1>2, <2>2, <2>14, <3>1 DEF Fifo, Searching
  <2> QED BY <2>11, <2>12, <2>13, <2>15, <2>16 DEF Fifo
<1> QED BY <1>1, <1>3 DEF ChainInv

\* ... and what it returns.
LEMMA ChainMoveTail ==
  ASSUME ChainInv, NEW c \in Consumers, MoveTail(c)
  PROVE  ChainInv'
<1>1. /\ SlotInv' /\ OneEach' /\ UNCHANGED <<head, ppc, ring, seen, made, tail, before>>
      /\ \A e \in Consumers : e = c
      /\ \A p \in Producers : Placed(p)' = Placed(p) /\ Finished(p)' = Finished(p)
  BY ConsumerAlone DEF Popping, MoveTail
<1>2. cpc[c] = "moveTail" /\ cpc'[c] = "idle" /\ popped' = Append(popped, val[c])
  BY TypeParts DEF MoveTail, CGoto, ChainInv, SlotInv, ConsumersTyped
<1>3. ASSUME NEW p \in Producers
      PROVE  Linked(p)' /\ InOrder(p)' /\ \E G : Fifo(p, c, G)'
  <2>1. PICK n \in Nat \ {0} :
           /\ n = Len(rings) /\ head = n /\ tail \in 1..n
           /\ \A d \in 1..n : /\ rings[d] \in Ring /\ Whole(rings[d]) /\ Count(rings[d]) \in Nat
                              /\ rings[d].next = IF d = n \/ (d = n - 1 /\ ppc[p] = "link")
                                                 THEN None ELSE d + 1
                              /\ \A i \in 0..Indices-1 : Offset(rings[d], i) \in Nat
           /\ ppc[p] \in {"loadIndices", "reserve", "store", "grow", "newHead"} => ring[p] = n
           /\ ppc[p] = "link" => ring[p] = n - 1 /\ ring[p] \in 1..n /\ tail < n /\ Count(rings[n]) = 1
           /\ rings \in Seq(Ring) /\ popped \in Seq(AllValues)
    BY ChainParts
  <2>2. PICK F : Fifo(p, c, F)
    BY DEF ChainInv
  <2>3. cring[c] = tail /\ val[c] = <<p, F[tail]>>
    BY <1>2, <2>2 DEF Fifo, Searching
  <2>4. PICK r \in Ring : r = rings[tail]
    BY <2>1
  <2> DEFINE b == Bottom(r)
  <2>5. /\ Tail_(cseen[c]) = b /\ Count(r) >= 1 /\ At(r, b) = Nil /\ Whole(r)
        /\ b \in 0..Indices-1 /\ Count(r) \in Nat
    <3>1. Consuming(c)
      BY DEF ChainInv, SlotInv, ConsumersKnow
    <3>2. Tail_(cseen[c]) = b /\ Count(r) >= 1 /\ At(r, b) = Nil
      BY <1>2, <2>3, <2>4, <3>1 DEF Consuming
    <3> QED BY <2>1, <2>4, <3>2, Window
  <2> HIDE DEF b
  <2>6. PICK s \in Ring : s = Shortened(r)
    BY <2>5, RingShortened DEF b
  <2>7. /\ s.next = r.next /\ Top(s) = Top(r) /\ Count(s) = Count(r) - 1
        /\ \A i : At(s, i) = At(r, i)
        /\ \A i \in 0..Indices-1 : i # b => Offset(s, i) = Offset(r, i) - 1
        /\ Offset(s, b) = Indices - 1
    BY <2>5, <2>6, RingShortened DEF b
  <2>8. Len(rings') = n /\ \A d \in 1..n : rings'[d] = IF d = tail THEN s ELSE rings[d]
    <3>1. rings' = [rings EXCEPT ![tail] = s]
      BY <2>3, <2>4, <2>5, <2>6 DEF MoveTail, Shortened, b
    <3> QED BY <2>1, <3>1
  <2>9. \A d \in 1..n : /\ rings'[d].next = rings[d].next /\ Top(rings'[d]) = Top(rings[d])
                        /\ d # tail => Count(rings'[d]) = Count(rings[d])
    BY <2>4, <2>7, <2>8
  <2>10. Sums(p, F) /\ Contents(p, c, F) /\ Searching(p, c, F)
    BY <2>2 DEF Fifo
  <2>11. F \in [1..n -> Nat] /\ F[tail] = Len(popped) + 1 /\ F[tail] \in Nat /\ Len(popped) \in Nat
    BY <2>1, <2>10 DEF Sums
  <2>12. Len(popped') = Len(popped) + 1 /\ popped'[Len(popped) + 1] = val[c]
         /\ \A i \in 1..Len(popped) : popped'[i] = popped[i]
    BY <1>2, <2>1
  <2>13. Linked(p)'
    <3>1. Linked(p)
      BY DEF ChainInv
    <3>2. n \in 1..n /\ (ppc[p] = "link" => Count(rings'[n]) = Count(rings[n]))
      BY <2>1, <2>9
    <3> QED BY <1>1, <2>1, <2>8, <2>9, <3>1, <3>2 DEF Linked
  <2>14. InOrder(p)'
    <3> SUFFICES ASSUME NEW i \in 1..Len(popped')
                 PROVE  popped'[i] = <<p, i>>
      BY DEF InOrder
    <3>1. CASE i \in 1..Len(popped)
      <4>1. popped[i] = <<p, i>>
        BY <3>1 DEF ChainInv, InOrder
      <4> QED BY <2>12, <3>1, <4>1
    <3>2. CASE i = Len(popped) + 1
      BY <2>3, <2>11, <2>12, <3>2
    <3> QED BY <2>11, <2>12, <3>1, <3>2
  <2> DEFINE G == [d \in 1..n |-> IF d = tail THEN F[tail] + 1 ELSE F[d]]
  <2>15. G \in [1..n -> Nat] /\ G[tail] = F[tail] + 1 /\ \A d \in 1..n : d # tail => G[d] = F[d]
    BY <2>1, <2>11
  <2>16. PICK H : H = G
    OBVIOUS
  <2> HIDE DEF G
  <2>17. \A d \in 1..n : H[d] + Count(rings'[d]) = F[d] + Count(rings[d])
    <3> SUFFICES ASSUME NEW d \in 1..n
                 PROVE  H[d] + Count(rings'[d]) = F[d] + Count(rings[d])
      OBVIOUS
    <3>1. CASE d = tail
      BY <2>4, <2>5, <2>7, <2>8, <2>11, <2>15, <2>16, <3>1
    <3>2. CASE d # tail
      BY <2>9, <2>15, <2>16, <3>2
    <3> QED BY <3>1, <3>2
  <2>18. Sums(p, H)'
    <3>1. H[tail] = Len(popped') + 1 /\ H \in [1..n -> Nat]
      BY <2>11, <2>12, <2>15, <2>16
    <3>2. H[n] + Count(rings'[n]) = Placed(p) + 1
      BY <2>1, <2>10, <2>17 DEF Sums
    <3>3. ASSUME NEW d \in tail..n-1
          PROVE  H[d] + Count(rings'[d]) = H[d + 1]
      <4>1. d \in 1..n /\ d + 1 \in 1..n /\ d + 1 # tail
        BY <2>1
      <4> QED BY <2>1, <2>10, <2>15, <2>16, <2>17, <4>1 DEF Sums
    <3> QED BY <1>1, <2>8, <3>1, <3>2, <3>3 DEF Sums
  <2>19. Contents(p, c, H)'
    <3>1. (ppc[p] = "store" => Up(Head_(seen[p])) = Top(rings[Len(rings)]))'
      BY <1>1, <2>1, <2>8, <2>9, <2>10 DEF Contents
    <3> SUFFICES ASSUME NEW d \in tail..n, NEW i \in 0..Indices-1,
                        Offset(rings'[d], i) < Count(rings'[d])
                 PROVE  Holding(p, c, H, d, i)'
      BY <1>1, <2>8, <3>1 DEF Contents
    <3>2. d \in 1..n
      BY <2>1
    <3>3. CASE d # tail
      <4>1. Holding(p, c, F, d, i) /\ rings'[d] = rings[d] /\ H[d] = F[d]
        BY <2>1, <2>8, <2>10, <2>15, <2>16, <3>2, <3>3 DEF Contents
      <4> QED BY <1>1, <1>2, <2>1, <2>8, <3>3, <4>1 DEF Holding
    <3>4. CASE d = tail
      <4>1. i # b
        <5>1. Count(r) <= Indices - 1 /\ Indices \in Nat
          BY Window, Widths
        <5> QED BY <2>5, <2>7, <2>8, <3>2, <3>4, <5>1
      <4>2. rings'[d] = s /\ Offset(s, i) = Offset(r, i) - 1 /\ Offset(r, i) < Count(r)
            /\ Offset(r, i) \in Nat
        BY <2>1, <2>4, <2>5, <2>7, <2>8, <3>2, <3>4, <4>1
      <4>3. Holding(p, c, F, d, i)
        BY <2>1, <2>4, <2>10, <3>2, <3>4, <4>2 DEF Contents
      <4>4. H[d] + Offset(s, i) = F[d] + Offset(r, i)
        BY <2>11, <2>15, <2>16, <3>4, <4>2
      <4> QED BY <1>1, <2>1, <2>4, <2>7, <2>8, <3>4, <4>1, <4>2, <4>3, <4>4 DEF Holding, b
    <3> QED BY <3>3, <3>4
  <2>20. Searching(p, c, H)'
    BY <1>1, <1>2, <2>10 DEF Searching
  <2> QED BY <2>13, <2>14, <2>18, <2>19, <2>20 DEF Fifo
<1> QED BY <1>1, <1>3 DEF ChainInv

LEMMA ChainStep == ChainInv /\ [Next]_vars => ChainInv'
<1> SUFFICES ASSUME ChainInv, [Next]_vars PROVE ChainInv'
  OBVIOUS
<1>1. CASE Next
  <2>1. ASSUME NEW p \in Producers, Push(p) \/ Pushing(p)
        PROVE  ChainInv'
    BY <2>1, ChainQuiet, ChainReserve, ChainStore, ChainNewHead DEF Pushing
  <2>2. ASSUME NEW c \in Consumers, Popping(c)
        PROVE  ChainInv'
    BY <2>2, ChainSearching, ChainAdvance, ChainTake, ChainMoveTail DEF Popping
  <2> QED BY <1>1, <2>1, <2>2 DEF Next
<1>2. CASE UNCHANGED vars
  <2>1. SlotInv'
    BY <1>2, SlotsStep DEF ChainInv
  <2>2. UNCHANGED <<rings, head, tail, ppc, ring, seen, made, cpc, cring, cnext, cseen, val, popped, before>>
    BY <1>2 DEF vars, producerVars, consumerVars
  <2>3. \A p \in Producers : /\ Linked(p)' = Linked(p) /\ InOrder(p)' = InOrder(p)
                             /\ Placed(p)' = Placed(p) /\ Finished(p)' = Finished(p)
    BY <2>2 DEF Linked, InOrder, Placed, Finished
  <2>4. ASSUME NEW p \in Producers, NEW c \in Consumers, NEW F, Fifo(p, c, F)
        PROVE  Fifo(p, c, F)'
    BY <2>2, <2>3, <2>4 DEF Fifo, Sums, Contents, Holding, Searching
  <2>5. \A p \in Producers, c \in Consumers : \E F : Fifo(p, c, F)'
    BY <2>4 DEF ChainInv
  <2> QED BY <2>1, <2>3, <2>5 DEF ChainInv, OneEach, OneConsumer
<1> QED BY <1>1, <1>2

\* With one producer and one consumer, as newConns and the receive queues have: the k-th
\* value that is popped is the k-th that was pushed, across wraps and rings (queue.go
\* bufDequeue, bufChain).
THEOREM PoppedInOrder == OneEach /\ Spec => []FirstInFirstOut
<1>1. ChainInv => FirstInFirstOut
  <2> SUFFICES ASSUME ChainInv, NEW i \in 1..Len(popped)
               PROVE  popped[i][2] = Cardinality({j \in 1..i : popped[j][1] = popped[i][1]})
    BY DEF FirstInFirstOut
  <2>1. popped \in Seq(AllValues) /\ Len(popped) \in Nat
    BY DEF ChainInv, SlotInv, TypeInv, TypeOK
  <2>2. popped[i][1] \in Producers
    BY <2>1 DEF AllValues
  <2>3. PICK p \in Producers : p = popped[i][1]
    BY <2>2
  <2>4. \A j \in 1..Len(popped) : popped[j] = <<p, j>>
    BY DEF ChainInv, InOrder
  <2>5. \A j \in 1..i : popped[j][1] = p
    BY <2>1, <2>4
  <2>6. {j \in 1..i : popped[j][1] = popped[i][1]} = 1..i
    BY <2>3, <2>5
  <2>7. Cardinality(1..i) = i
    <3>1. i \in Nat /\ i >= 1
      BY <2>1
    <3> QED BY <3>1, FS_Interval
  <2>8. popped[i][2] = i
    BY <2>4
  <2> QED BY <2>6, <2>7, <2>8
<1> QED BY <1>1, ChainInitially, ChainStep, PTL DEF Spec

\* With one of each, popTail says that the queue is empty only if it was: all values whose
\* push had returned when it began are popped (queue.go:592-619).
THEOREM EmptyIsEmpty == OneEach /\ Spec => []EmptyMeansEmpty
<1>1. ChainInv => EmptyMeansEmpty
  <2> SUFFICES ASSUME ChainInv, NEW c \in Consumers, cpc[c] = "empty", NEW v \in before[c]
               PROVE  v \in PoppedValues
    BY DEF EmptyMeansEmpty
  <2>1. v \in AllValues /\ v = <<v[1], v[2]>> /\ v[1] \in Producers /\ v[2] \in 1..Items
    BY SMTT(60) DEF ChainInv, SlotInv, TypeInv, TypeOK, AllValues
  <2>2. PICK p \in Producers : p = v[1]
    BY <2>1
  <2>3. PICK F : Searching(p, c, F)
    BY DEF ChainInv, Fifo
  <2>4. v[2] <= Len(popped) /\ Len(popped) \in Nat
    BY <2>3 DEF Searching, ChainInv, SlotInv, TypeInv, TypeOK
  <2>5. v[2] \in 1..Len(popped)
    BY <2>1, <2>4, BufChainAssumption
  <2>6. popped[v[2]] = <<p, v[2]>>
    BY <2>5 DEF ChainInv, InOrder
  <2> QED BY <2>1, <2>2, <2>5, <2>6 DEF PoppedValues
<1> QED BY <1>1, ChainInitially, ChainStep, PTL DEF Spec
=============================================================================
