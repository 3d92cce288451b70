------------------------------- MODULE BufChain -------------------------------
(***************************************************************************)
(* The lock-free queue under all queues of lib/natpunch_mux (queue.go):    *)
(* bufDequeue, a ring whose head and tail indices share one word, and      *)
(* bufChain, a list of rings of doubling size.  One action is one atomic   *)
(* operation (load, store, compare-and-swap, add) of pushHead or popTail.  *)
(* The starving flag and the prev links only yield or help the garbage     *)
(* collector and are left out.                                             *)
(***************************************************************************)
EXTENDS Naturals, Sequences, FiniteSets

CONSTANTS
  Producers,    \* goroutines that call pushHead
  Consumers,    \* goroutines that call popTail
  Items,        \* bound: number of values each producer pushes
  InitSize,     \* size of the first ring, a power of 2
  DequeueBits   \* width of an index (32 in the code)

ASSUME BufChainAssumption ==
  /\ Items \in Nat \ {0} /\ InitSize \in Nat \ {0} /\ DequeueBits \in Nat
  /\ InitSize <= 2^DequeueBits \div 4 /\ 2^DequeueBits % InitSize = 0
  /\ Producers \cap Consumers = {}

\* true of every power of 2: twice a divisor is one, too
ASSUME PowerOf2 ==
  \A n \in 1..2^DequeueBits - 1 : 2^DequeueBits % n = 0 => 2^DequeueBits % (2 * n) = 0

VARIABLES
  rings,     \* the bufChainElts, in the order of their creation
  head, tail, newChain,   \* the bufChain
  ppc, ring, seen, made,  \* each producer: pc, d, headTail it loaded, values so far
  cpc, cring, cnext, cseen, val,  \* each consumer: pc, d, d2, headTail, value
  popped,    \* history: values returned by popTail, in order
  before     \* history: values whose push had returned when this popTail began

producerVars == <<ppc, ring, seen, made>>
consumerVars == <<cpc, cring, cnext, cseen, val, popped, before>>
vars == <<rings, head, tail, newChain, producerVars, consumerVars>>

Indices == 2^DequeueBits
dequeueLimit == Indices \div 4

\* headTail packs both indices; Nil is an empty slot, None a nil ring
pack(h, t) == (h % Indices) * Indices + (t % Indices)
Head_(w) == w \div Indices
Tail_(w) == w % Indices
Nil == <<>>
None == 0

NewRing(size) == [headTail |-> pack(0, 0), vals |-> [i \in 0..size-1 |-> Nil], next |-> None]
Len_(r) == Cardinality(DOMAIN r.vals)
Slot(r, index) == index % Len_(r)

\* the value a producer is pushing: its name and its count
Value(p) == <<p, made[p]>>
AllValues == Producers \X (1..Items)

Init ==
  /\ rings = <<NewRing(InitSize)>> /\ head = 1 /\ tail = 1 /\ newChain = 0
  /\ ppc = [p \in Producers |-> "idle"] /\ ring = [p \in Producers |-> None]
  /\ seen = [p \in Producers |-> 0] /\ made = [p \in Producers |-> 0]
  /\ cpc = [c \in Consumers |-> "idle"] /\ cring = [c \in Consumers |-> None]
  /\ cnext = [c \in Consumers |-> None] /\ cseen = [c \in Consumers |-> 0]
  /\ val = [c \in Consumers |-> Nil]
  /\ popped = <<>> /\ before = [c \in Consumers |-> {}]

PGoto(p, pc) == ppc' = [ppc EXCEPT ![p] = pc]
CGoto(c, pc) == cpc' = [cpc EXCEPT ![c] = pc]
ChainUnchanged == UNCHANGED <<rings, head, tail, newChain>>

-----------------------------------------------------------------------------
(* bufChain.pushHead and bufDequeue.pushHead                                *)

Push(p) ==
  /\ ppc[p] = "idle" /\ made[p] < Items
  /\ made' = [made EXCEPT ![p] = @ + 1]
  /\ PGoto(p, "gate")
  /\ ChainUnchanged /\ UNCHANGED <<ring, seen, consumerVars>>

\* startPush: wait until no producer is adding a ring
Gate(p) ==
  /\ ppc[p] = "gate" /\ newChain = 0
  /\ PGoto(p, "loadHead")
  /\ ChainUnchanged /\ UNCHANGED <<ring, seen, made, consumerVars>>

LoadHead(p) ==
  /\ ppc[p] = "loadHead"
  /\ ring' = [ring EXCEPT ![p] = head]
  /\ PGoto(p, "loadIndices")
  /\ ChainUnchanged /\ UNCHANGED <<seen, made, consumerVars>>

\* is the ring full?  The comparison is modulo the index width
FullNoWrap(r, w) == Tail_(w) + Len_(r) = Head_(w)
Full(r, w) == (Tail_(w) + Len_(r)) % Indices = Head_(w)

LoadIndices(p) ==
  /\ ppc[p] = "loadIndices"
  /\ LET w == rings[ring[p]].headTail
     IN /\ seen' = [seen EXCEPT ![p] = w]
        /\ PGoto(p, IF Full(rings[ring[p]], w) THEN "grow" ELSE "reserve")
  /\ ChainUnchanged /\ UNCHANGED <<ring, made, consumerVars>>

\* the compare-and-swap that moves head over the slot
Reserve(p) ==
  /\ ppc[p] = "reserve"
  /\ IF rings[ring[p]].headTail = seen[p]
     THEN /\ rings' = [rings EXCEPT ![ring[p]].headTail =
                         pack(Head_(seen[p]) + 1, Tail_(seen[p]))]
          /\ PGoto(p, "store")
     ELSE PGoto(p, "loadIndices") /\ UNCHANGED rings
  /\ UNCHANGED <<head, tail, newChain, ring, seen, made, consumerVars>>

\* the slot a producer has reserved
Reserved(p) == Slot(rings[ring[p]], Head_(seen[p]))

Store(p) ==
  /\ ppc[p] = "store"
  /\ rings' = [rings EXCEPT ![ring[p]].vals[Reserved(p)] = Value(p)]
  /\ PGoto(p, "idle")
  /\ UNCHANGED <<head, tail, newChain, ring, seen, made, consumerVars>>

\* a full ring: the producer that sets newChain appends a ring, others start over
Grow(p) ==
  /\ ppc[p] = "grow"
  /\ IF newChain = 0 THEN newChain' = 1 /\ PGoto(p, "newHead")
                     ELSE PGoto(p, "gate") /\ UNCHANGED newChain
  /\ UNCHANGED <<rings, head, tail, ring, seen, made, consumerVars>>

NextSizeUnlimited(size) == 2 * size
NextSize(size) == IF 2 * size >= dequeueLimit THEN dequeueLimit ELSE 2 * size

\* d2, twice the size and with the value in its first slot, becomes head
NewHead(p) ==
  /\ ppc[p] = "newHead"
  /\ rings' = Append(rings, [NewRing(NextSize(Len_(rings[ring[p]])))
                               EXCEPT !.vals[0] = Value(p), !.headTail = pack(1, 0)])
  /\ head' = Len(rings) + 1
  /\ PGoto(p, "link")
  /\ UNCHANGED <<tail, newChain, ring, seen, made, consumerVars>>

Link(p) ==
  /\ ppc[p] = "link"
  /\ rings' = [rings EXCEPT ![ring[p]].next = head]
  /\ PGoto(p, "release")
  /\ UNCHANGED <<head, tail, newChain, ring, seen, made, consumerVars>>

Release(p) ==
  /\ ppc[p] = "release"
  /\ newChain' = 0
  /\ PGoto(p, "idle")
  /\ UNCHANGED <<rings, head, tail, ring, seen, made, consumerVars>>

-----------------------------------------------------------------------------
(* bufChain.popTail and bufDequeue.popTail                                  *)

\* the values whose push has returned
Returned == {v \in AllValues : v[2] <= made[v[1]]
                               /\ (v[2] = made[v[1]] => ppc[v[1]] = "idle")}

Pop(c) ==
  /\ cpc[c] \in {"idle", "empty"}
  /\ cring' = [cring EXCEPT ![c] = tail]
  /\ before' = [before EXCEPT ![c] = Returned]
  /\ CGoto(c, "loadNext")
  /\ ChainUnchanged /\ UNCHANGED <<producerVars, cnext, cseen, val, popped>>

\* next is loaded before the indices: a ring found empty after that stays empty
LoadNext(c) ==
  /\ cpc[c] = "loadNext"
  /\ cnext' = [cnext EXCEPT ![c] = rings[cring[c]].next]
  /\ CGoto(c, "loadIndices")
  /\ ChainUnchanged /\ UNCHANGED <<producerVars, cring, cseen, val, popped, before>>

PopLoadIndices(c) ==
  /\ cpc[c] = "loadIndices"
  /\ LET w == rings[cring[c]].headTail
     IN /\ cseen' = [cseen EXCEPT ![c] = w]
        /\ CGoto(c, IF Tail_(w) = Head_(w) THEN "drained" ELSE "loadSlot")
  /\ ChainUnchanged /\ UNCHANGED <<producerVars, cring, cnext, val, popped, before>>

\* the slot a consumer looks at
Candidate(c) == Slot(rings[cring[c]], Tail_(cseen[c]))

LoadSlot(c) ==
  /\ cpc[c] = "loadSlot"
  /\ val' = [val EXCEPT ![c] = rings[cring[c]].vals[Candidate(c)]]
  /\ CGoto(c, IF val'[c] = Nil THEN "loadIndices" ELSE "take")
  /\ ChainUnchanged /\ UNCHANGED <<producerVars, cring, cnext, cseen, popped, before>>

\* the compare-and-swap that empties the slot
NotEmptied(v) == v
Emptied(v) == Nil

Take(c) ==
  /\ cpc[c] = "take"
  /\ IF rings[cring[c]].vals[Candidate(c)] = val[c]
     THEN /\ rings' = [rings EXCEPT ![cring[c]].vals[Candidate(c)] = Emptied(@)]
          /\ CGoto(c, "moveTail")
     ELSE CGoto(c, "loadIndices") /\ UNCHANGED rings
  /\ UNCHANGED <<head, tail, newChain, producerVars, cring, cnext, cseen, val, popped, before>>

\* AddUint64 on headTail: past the largest index the carry into head is undone
NextTailCarries(w, t) == (w + 1) % (Indices * Indices)
NextTail(w, t) ==
  IF t < Indices - 1 THEN (w + 1) % (Indices * Indices)
                     ELSE (w + Indices * Indices - (Indices - 1)) % (Indices * Indices)

MoveTail(c) ==
  /\ cpc[c] = "moveTail"
  /\ rings' = [rings EXCEPT ![cring[c]].headTail = NextTail(@, Tail_(cseen[c]))]
  /\ popped' = Append(popped, val[c]) /\ val' = [val EXCEPT ![c] = Nil]
  /\ CGoto(c, "idle")
  /\ UNCHANGED <<head, tail, newChain, producerVars, cring, cnext, cseen, before>>

\* d2, which popTail loaded before it looked into d
SuccessorNow(c) == rings[cring[c]].next
Successor(c) == cnext[c]

\* the drained ring is dropped from the chain
Advance(c) ==
  /\ cpc[c] = "drained" /\ Successor(c) # None
  /\ tail' = IF tail = cring[c] THEN Successor(c) ELSE tail
  /\ cring' = [cring EXCEPT ![c] = Successor(c)]
  /\ CGoto(c, "loadNext")
  /\ UNCHANGED <<rings, head, newChain, producerVars, cnext, cseen, val, popped, before>>

ReturnEmpty(c) ==
  /\ cpc[c] = "drained" /\ Successor(c) = None
  /\ CGoto(c, "empty")
  /\ ChainUnchanged /\ UNCHANGED <<producerVars, cring, cnext, cseen, val, popped, before>>

-----------------------------------------------------------------------------
Pushing(p) ==
  \/ Gate(p) \/ LoadHead(p) \/ LoadIndices(p) \/ Reserve(p) \/ Store(p)
  \/ Grow(p) \/ NewHead(p) \/ Link(p) \/ Release(p)
Popping(c) ==
  \/ Pop(c) \/ LoadNext(c) \/ PopLoadIndices(c) \/ LoadSlot(c) \/ Take(c)
  \/ MoveTail(c) \/ Advance(c) \/ ReturnEmpty(c)

Next == (\E p \in Producers : Push(p) \/ Pushing(p)) \/ (\E c \in Consumers : Popping(c))

Spec == Init /\ [][Next]_vars
(* Every goroutine inside pushHead runs on; a consumer calls popTail in a loop *)
FairSpec == Spec /\ (\A p \in Producers : WF_vars(Pushing(p)))
                 /\ (\A c \in Consumers : WF_vars(Popping(c)))

-----------------------------------------------------------------------------
(* Properties                                                              *)

PPcs == {"idle", "gate", "loadHead", "loadIndices", "reserve", "store", "grow", "newHead",
         "link", "release"}
CPcs == {"idle", "loadNext", "loadIndices", "empty", "drained", "loadSlot", "take",
         "moveTail"}
Words == 0..(Indices * Indices - 1)

\* Every variable has its type
TypeOK ==
  /\ rings \in Seq([headTail : Words, vals : UNION {[0..n-1 -> AllValues \cup {Nil}] : n \in 1..dequeueLimit},
                    next : Nat])
  /\ head \in 1..Len(rings) /\ tail \in 1..Len(rings) /\ newChain \in 0..1
  /\ ppc \in [Producers -> PPcs] /\ ring \in [Producers -> 0..Len(rings)]
  /\ seen \in [Producers -> Words] /\ made \in [Producers -> 0..Items]
  /\ cpc \in [Consumers -> CPcs] /\ cring \in [Consumers -> 0..Len(rings)]
  /\ cnext \in [Consumers -> 0..Len(rings)] /\ cseen \in [Consumers -> Words]
  /\ val \in [Consumers -> AllValues \cup {Nil}]
  /\ popped \in Seq(AllValues) /\ before \in [Consumers -> SUBSET AllValues]

PoppedValues == {popped[i] : i \in 1..Len(popped)}

\* The values of a producer come out in the order they went in, none twice and
\* none skipped, across the wrap of the indices and the change from ring to ring:
\* its k-th value comes out as its k-th
FirstInFirstOut ==
  \A i \in 1..Len(popped) :
    popped[i][2] = Cardinality({j \in 1..i : popped[j][1] = popped[i][1]})

\* "The head slot is free, so we own it" (queue.go:459): the slot that a
\* producer has reserved was emptied by the consumer of the value before
ReservedSlotIsFree ==
  \A p \in Producers : ppc[p] = "store" => rings[ring[p]].vals[Reserved(p)] = Nil

\* popTail reports an empty queue only if nothing was in it: every value whose
\* push had returned when the call began was popped
EmptyMeansEmpty ==
  \A c \in Consumers : cpc[c] = "empty" => before[c] \subseteq PoppedValues

\* Consumers that keep calling popTail catch up: there is always a later moment
\* when every value that was pushed so far has been popped
EverythingPopped == []<>({v \in AllValues : v[2] <= made[v[1]]} \subseteq PoppedValues)

\* Dropping the drained ring loses nothing: queue.go:599-604 says that a ring
\* with a next link that popTail finds empty is permanently empty, "the only
\* condition under which it's safe to drop d from the chain"
DroppedRingsStayEmpty ==
  \A d \in 1..tail-1 : \A i \in DOMAIN rings[d].vals : rings[d].vals[i] = Nil
=============================================================================
