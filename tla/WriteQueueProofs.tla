-------------------------- MODULE WriteQueueProofs --------------------------
(* What holds of the write queue for any number of goroutines that send, any *)
(* limit and any width of the starving counter.                              *)
EXTENDS WriteQueue, FiniteSetTheorems, TLAPS

Places == {"idle", "load", "cas", "push", "broadcast", "closing"}
Pushing == {p \in Producers : ppc[p] = "push"}
InHand == IF cpc = "count" THEN 1 ELSE 0
Held == queued["highest"] + queued["middle"] + queued["lowest"]

\* each packet of the count is in a chain, about to be pushed, or just popped; whoever
\* is about to count one more has seen room for it
Counted ==
  MaxLength > 0 =>
    /\ IsFiniteSet(Pushing)
    /\ length = Held + Cardinality(Pushing) + InHand
    /\ length <= MaxLength
    /\ \A p \in Producers : ppc[p] = "cas" => cur[p] < MaxLength

\* middle packets that overtake are counted by starving too, which wraps at most once,
\* and only when no lowest packet had been there
Overtaken ==
  /\ bypassed <= starving + 1 /\ bypassed <= maxStarving + 1
  /\ bypassed > 0 => queued["lowest"] > 0
  /\ cpc = "again" => bypassed = 0
  /\ cpc = "middle" => starving < maxStarving

\* Pop comes back with a packet or from a queue that was stopped, by a mux that was closed
Handed ==
  /\ closing # "no" => isClose
  /\ stop => closing # "no"
  /\ cpc = "count" => pack # None
  /\ cpc = "popped" => pack # None \/ stop
  /\ cpc = "pack" => pack # None

QueueInv == TypeOK /\ Counted /\ Overtaken /\ Handed

-----------------------------------------------------------------------------
(* The number of goroutines between counting a packet and pushing it.        *)

\* It is a natural number.
LEMMA PushersCounted == ASSUME IsFiniteSet(Pushing) PROVE Cardinality(Pushing) \in Nat
BY FS_CardinalityType

\* One goroutine more has counted its packet.
LEMMA PusherAdded ==
  ASSUME IsFiniteSet(Pushing), ppc \in [Producers -> Places],
         NEW p \in Producers, ppc[p] # "push", ppc' = [ppc EXCEPT ![p] = "push"]
  PROVE  IsFiniteSet(Pushing') /\ Cardinality(Pushing') = Cardinality(Pushing) + 1
<1>1. Pushing' = Pushing \cup {p} /\ p \notin Pushing
  BY DEF Pushing
<1> QED BY <1>1, FS_AddElement

\* One goroutine has pushed it.
LEMMA PusherGone ==
  ASSUME IsFiniteSet(Pushing), ppc \in [Producers -> Places],
         NEW p \in Producers, ppc[p] = "push", ppc' = [ppc EXCEPT ![p] = "broadcast"]
  PROVE  IsFiniteSet(Pushing') /\ Cardinality(Pushing') = Cardinality(Pushing) - 1
<1>1. Pushing' = Pushing \ {p} /\ p \in Pushing
  BY DEF Pushing
<1> QED BY <1>1, FS_RemoveElement

\* A step that pushes nothing and counts nothing.
LEMMA CountKept ==
  ASSUME TypeOK, Counted, UNCHANGED <<queued, length, cur>>, InHand' = InHand,
         \A p \in Producers : /\ ppc'[p] = "push" <=> ppc[p] = "push"
                              /\ ppc'[p] = "cas" => ppc[p] = "cas"
  PROVE  Counted'
<1>1. Pushing' = Pushing
  BY DEF Pushing
<1> QED BY <1>1 DEF Counted, Held

\* The queue is empty and nobody has called it.
LEMMA Initially == Init => QueueInv
<1> SUFFICES ASSUME Init PROVE QueueInv
  OBVIOUS
<1> USE WriteQueueAssumption DEF Init, Classes
<1>1. TypeOK
  <2>1. queued \in [Classes -> Nat] /\ starving \in 0..StarvingWrap-1 /\ early \in 0..EarlyPings
    OBVIOUS
  <2>2. /\ ppc \in [Producers -> {"idle", "load", "cas", "push", "broadcast", "closing"}]
        /\ cur \in [Producers -> Nat]
    OBVIOUS
  <2>3. /\ stop \in BOOLEAN /\ waiting \in BOOLEAN /\ isClose \in BOOLEAN
        /\ lock \in {None, "pop"} /\ pack \in Classes \cup {None}
    OBVIOUS
  <2>4. /\ length \in Nat /\ round \in 1..3 /\ bypassed \in Nat
        /\ closing = "no" /\ cpc = "top"
    OBVIOUS
  <2> QED BY <2>1, <2>2, <2>3, <2>4, Zenon DEF TypeOK
<1>2. Pushing = {}
  BY DEF Pushing
<1>3. Counted
  BY <1>2, FS_EmptySet DEF Counted, Held, InHand
<1>4. Overtaken /\ Handed
  BY DEF Overtaken, Handed
<1> QED BY <1>1, <1>3, <1>4 DEF QueueInv

-----------------------------------------------------------------------------
(* The mux is closed, at once or by a goroutine inside sendInfo.             *)

\* Close, Stop and what they do to the flags.
LEMMA ClosingKeeps ==
  ASSUME QueueInv, Close \/ StopFlag \/ StopBroadcast PROVE QueueInv'
<1> USE DEF QueueInv, queueVars, condVars, closeVars, producerVars, consumerVars,
            Close, StopFlag, StopBroadcast, BeginClose
<1>1. TypeOK'
  BY ZenonT(60) DEF TypeOK
<1>2. Counted'
  BY CountKept DEF InHand
<1>3. Overtaken' /\ Handed'
  BY DEF Overtaken, Handed
<1> QED BY <1>1, <1>2, <1>3

\* A producer counts no more than the limit, and leaves alone what writeSession has.
LEMMA ProducerKeeps ==
  ASSUME QueueInv, NEW p \in Producers, Send(p) \/ Sending(p) PROVE QueueInv'
<1> USE WriteQueueAssumption
    DEF QueueInv, queueVars, condVars, closeVars, consumerVars, PGoto, InHand
<1>0. ppc \in [Producers -> Places]
  BY DEF TypeOK, Places
<1>1. CASE Send(p)
  <2>1. TypeOK'
    BY <1>1 DEF TypeOK, Send, MaySend
  <2>2. Counted'
    <3>1. CASE MaxLength > 0
      <4>1. ppc[p] = "idle" /\ ppc' = [ppc EXCEPT ![p] = "load"]
        <5>1. MaxLength # 0
          BY <3>1
        <5> QED BY <1>1, <5>1 DEF Send
      <4> QED BY <1>1, <4>1, <1>0, CountKept DEF Send
    <3>2. CASE ~(MaxLength > 0)
      BY <3>2 DEF Counted
    <3> QED BY <3>1, <3>2
  <2>3. Overtaken' /\ Handed'
    BY <1>1 DEF Send, Overtaken, Handed
  <2> QED BY <2>1, <2>2, <2>3
<1>2. CASE Load(p)
  <2>1. TypeOK'
    BY <1>2, ZenonT(60) DEF TypeOK, Load, BeginClose
  <2>2. Counted'
    <3>1. CASE Overflow(length)
      <4>1. ppc[p] = "load" /\ ppc' = [ppc EXCEPT ![p] = "closing"] /\ UNCHANGED <<queued, length, cur, cpc>>
        BY <1>2, <3>1 DEF Load
      <4> QED BY <4>1, <1>0, CountKept
    <3>2. CASE ~Overflow(length)
      <4>1. /\ ppc[p] = "load" /\ ppc' = [ppc EXCEPT ![p] = "cas"]
            /\ cur' = [cur EXCEPT ![p] = length] /\ UNCHANGED <<queued, length, cpc>>
        BY <1>2, <3>2 DEF Load
      <4>2. Pushing' = Pushing
        BY <4>1, <1>0 DEF Pushing
      <4>3. MaxLength > 0 => \A q \in Producers : ppc'[q] = "cas" => cur'[q] < MaxLength
        BY <4>1, <3>2 DEF Counted, Overflow, TypeOK
      <4> QED BY <4>1, <4>2, <4>3 DEF Counted, Held
    <3> QED BY <3>1, <3>2
  <2>3. Overtaken' /\ Handed'
    BY <1>2 DEF Load, Overtaken, Handed, BeginClose
  <2> QED BY <2>1, <2>2, <2>3
<1>3. CASE CompareAndSwap(p)
  <2>1. TypeOK'
    BY <1>3 DEF TypeOK, CompareAndSwap
  <2>2. Counted'
    <3>1. CASE length = cur[p] /\ MaxLength > 0
      <4>1. /\ ppc[p] = "cas" /\ ppc' = [ppc EXCEPT ![p] = "push"] /\ length' = length + 1
            /\ UNCHANGED <<queued, cpc>> /\ cur' = [cur EXCEPT ![p] = 0]
        BY <1>3, <3>1 DEF CompareAndSwap
      <4>2. IsFiniteSet(Pushing') /\ Cardinality(Pushing') = Cardinality(Pushing) + 1
        BY <4>1, <3>1, <1>0, PusherAdded DEF Counted
      <4>3. length' = Held' + Cardinality(Pushing') + InHand'
        <5>1. Held \in Nat /\ Held' = Held /\ InHand' = InHand /\ InHand \in Nat
          BY <4>1 DEF Held, TypeOK, Classes
        <5>2. Cardinality(Pushing) \in Nat
          BY <3>1, PushersCounted DEF Counted
        <5> HIDE DEF InHand
        <5> QED BY <5>1, <5>2, <4>1, <4>2, <3>1 DEF Counted
      <4>4. length' <= MaxLength
        BY <4>1, <3>1 DEF Counted, TypeOK
      <4>5. \A q \in Producers : ppc'[q] = "cas" => cur'[q] < MaxLength
        BY <4>1, <3>1 DEF Counted, TypeOK
      <4> QED BY <4>2, <4>3, <4>4, <4>5 DEF Counted
    <3>2. CASE length # cur[p]
      <4>1. /\ ppc[p] = "cas" /\ ppc' = [ppc EXCEPT ![p] = "load"]
            /\ UNCHANGED <<queued, length, cpc>> /\ cur' = [cur EXCEPT ![p] = 0]
        BY <1>3, <3>2 DEF CompareAndSwap
      <4>2. Pushing' = Pushing
        BY <4>1, <1>0 DEF Pushing
      <4>3. MaxLength > 0 => \A q \in Producers : ppc'[q] = "cas" => cur'[q] < MaxLength
        BY <4>1 DEF Counted, TypeOK
      <4> QED BY <4>1, <4>2, <4>3 DEF Counted, Held
    <3>3. CASE ~(MaxLength > 0)
      BY <3>3 DEF Counted
    <3> QED BY <3>1, <3>2, <3>3
  <2>3. Overtaken' /\ Handed'
    BY <1>3 DEF CompareAndSwap, Overtaken, Handed
  <2> QED BY <2>1, <2>2, <2>3
<1>4. CASE PushHead(p)
  <2>0. ClassOf(p) \in Classes
    BY DEF ClassOf, Classes
  <2>1. TypeOK'
    BY <1>4, <2>0 DEF TypeOK, PushHead
  <2>2. Counted'
    <3>1. CASE MaxLength > 0
      <4>1. /\ ppc[p] = "push" /\ ppc' = [ppc EXCEPT ![p] = "broadcast"] /\ UNCHANGED <<length, cur, cpc>>
            /\ queued' = [queued EXCEPT ![ClassOf(p)] = @ + 1]
        BY <1>4 DEF PushHead
      <4>2. IsFiniteSet(Pushing') /\ Cardinality(Pushing') = Cardinality(Pushing) - 1
        BY <4>1, <3>1, <1>0, PusherGone DEF Counted
      <4>3. Held' = Held + 1 /\ Held \in Nat
        BY <4>1, <2>0 DEF Held, TypeOK, Classes
      <4>4. length' = Held' + Cardinality(Pushing') + InHand'
        <5>1. InHand' = InHand /\ InHand \in Nat
          BY <4>1
        <5>2. Cardinality(Pushing) \in Nat
          BY <3>1, PushersCounted DEF Counted
        <5> HIDE DEF InHand
        <5> QED BY <5>1, <5>2, <4>1, <4>2, <4>3, <3>1 DEF Counted
      <4>5. \A q \in Producers : ppc'[q] = "cas" => cur'[q] < MaxLength
        BY <4>1, <3>1 DEF Counted, TypeOK
      <4> QED BY <3>1, <4>1, <4>2, <4>4, <4>5 DEF Counted
    <3>2. CASE ~(MaxLength > 0)
      BY <3>2 DEF Counted
    <3> QED BY <3>1, <3>2
  <2>3. Overtaken' /\ Handed'
    BY <1>4, <2>0 DEF PushHead, Overtaken, Handed, TypeOK, Classes
  <2> QED BY <2>1, <2>2, <2>3
<1>5. CASE Broadcast(p) \/ CloseReturns(p)
  <2>1. TypeOK'
    BY <1>5, ZenonT(60) DEF TypeOK, Broadcast, CloseReturns
  <2>2. ppc[p] \in {"broadcast", "closing"} /\ ppc' = [ppc EXCEPT ![p] = "idle"]
        /\ UNCHANGED <<queued, length, cur, cpc>>
    BY <1>5 DEF Broadcast, CloseReturns
  <2>3. Counted'
    BY <2>2, <1>0, CountKept
  <2>4. Overtaken' /\ Handed'
    BY <1>5 DEF Broadcast, CloseReturns, Overtaken, Handed
  <2> QED BY <2>1, <2>3, <2>4
<1> QED BY <1>1, <1>2, <1>3, <1>4, <1>5 DEF Sending

-----------------------------------------------------------------------------
(* writeSession and Pop.                                                     *)

\* A packet that leaves its chain stays counted, as the one in hand.
LEMMA TookKeepsCount ==
  ASSUME TypeOK, Counted, NEW c \in Classes, queued[c] > 0, cpc # "count", Took(c),
         UNCHANGED <<length, producerVars>>
  PROVE  Counted'
<1>1. Held' = Held - 1 /\ Held \in Nat
  BY DEF Took, Held, TypeOK, Classes
<1>2. InHand = 0 /\ InHand' = 1
  BY DEF Took, InHand
<1>3. Pushing' = Pushing
  BY DEF Pushing, producerVars
<1> HIDE DEF Held, InHand
<1> QED BY <1>1, <1>2, <1>3, PushersCounted DEF Counted, TypeOK, producerVars

\* The chains are tried one after the other.
LEMMA TryKeeps ==
  ASSUME QueueInv, TryHighest \/ TryMiddle \/ TryLowest \/ TryMiddleAgain PROVE QueueInv'
<1> USE WriteQueueAssumption DEF QueueInv, condVars, closeVars, Classes
<1>1. ASSUME cpc = "highest", TryHighest PROVE QueueInv'
  <2>1. TypeOK'
    BY <1>1 DEF TypeOK, TryHighest, Took, TryNext, producerVars, MiddleFirst
  <2>2. Counted'
    <3>1. CASE queued["highest"] > 0
      BY <1>1, <3>1, TookKeepsCount DEF TryHighest
    <3>2. CASE ~(queued["highest"] > 0)
      <4>1. cpc' # "count" /\ UNCHANGED <<queued, length, cur, ppc>>
        BY <1>1, <3>2 DEF TryHighest, TryNext, producerVars
      <4> QED BY <4>1, <1>1, CountKept DEF InHand
    <3> QED BY <3>1, <3>2
  <2>3. Overtaken'
    BY <1>1 DEF TryHighest, Took, TryNext, Overtaken, TypeOK, MiddleFirst
  <2>4. Handed'
    BY <1>1 DEF TryHighest, Took, TryNext, Handed, MiddleFirst, None
  <2> QED BY <2>1, <2>2, <2>3, <2>4
<1>2. ASSUME TryMiddle \/ TryMiddleAgain PROVE QueueInv'
  <2>0. /\ cpc \in {"middle", "again"} /\ UNCHANGED <<length, stop, closeVars, producerVars>>
        /\ \/ queued["middle"] > 0 /\ TookMiddle
           \/ /\ ~(queued["middle"] > 0) /\ cpc' \in {"lowest", "nil"}
              /\ UNCHANGED <<queued, pack, starving, bypassed>>
    BY <1>2 DEF TryMiddle, TryMiddleAgain, TryNext
  <2>1. StarvingMore \in 0..StarvingWrap - 1 /\ (starving < maxStarving => StarvingMore = starving + 1)
    BY DEF StarvingMore, TypeOK
  <2>2. TypeOK'
    BY <1>2, <2>1 DEF TypeOK, TryMiddle, TryMiddleAgain, TookMiddle, Took, TryNext, producerVars
  <2>3. Counted'
    <3>1. CASE queued["middle"] > 0 /\ TookMiddle
      BY <3>1, <2>0, TookKeepsCount DEF TookMiddle
    <3>2. CASE cpc' \in {"lowest", "nil"} /\ UNCHANGED queued
      BY <3>2, <2>0, CountKept DEF InHand, producerVars
    <3> QED BY <3>1, <3>2, <2>0
  <2>4. Overtaken'
    <3>1. CASE queued["middle"] > 0 /\ TookMiddle
      <4>1. queued'["lowest"] = queued["lowest"] /\ cpc' = "count" /\ starving' = StarvingMore
        BY <3>1 DEF TookMiddle, Took, TypeOK
      <4>2. CASE queued["lowest"] = 0
        BY <4>1, <4>2, <3>1, <2>1 DEF TookMiddle, Overtaken, TypeOK
      <4>3. CASE queued["lowest"] > 0
        <5>1. bypassed' = bypassed + 1
          BY <4>3, <3>1 DEF TookMiddle, Overtaken, TypeOK
        <5>2. CASE cpc = "middle"
          BY <5>1, <5>2, <4>1, <4>3, <2>1 DEF Overtaken, TypeOK
        <5>3. CASE cpc = "again"
          BY <5>1, <5>3, <4>1, <4>3, <2>1 DEF Overtaken, TypeOK
        <5> QED BY <5>2, <5>3, <2>0
      <4> QED BY <4>2, <4>3 DEF TypeOK
    <3>2. CASE ~(queued["middle"] > 0)
      BY <3>2, <2>0 DEF Overtaken, TookMiddle
    <3> QED BY <3>1, <3>2, <2>0
  <2>5. Handed'
    BY <2>0 DEF Handed, TookMiddle, Took, None
  <2> QED BY <2>2, <2>3, <2>4, <2>5
<1>3. ASSUME TryLowest PROVE QueueInv'
  <2>1. TypeOK'
    BY <1>3 DEF TypeOK, TryLowest, Took, TryNext, producerVars
  <2>2. Counted'
    <3>1. CASE queued["lowest"] > 0
      BY <1>3, <3>1, TookKeepsCount DEF TryLowest
    <3>2. CASE ~(queued["lowest"] > 0)
      <4>1. cpc = "lowest" /\ cpc' # "count" /\ UNCHANGED <<queued, length, cur, ppc>>
        BY <1>3, <3>2 DEF TryLowest, TryNext, producerVars
      <4> QED BY <4>1, CountKept DEF InHand
    <3> QED BY <3>1, <3>2
  <2>3. Overtaken'
    <3>1. CASE queued["lowest"] > 0
      <4>1. bypassed' = 0 /\ starving' \in Nat /\ cpc' = "count"
        BY <1>3, <3>1 DEF TryLowest, Took, TypeOK
      <4>2. ~(0 > 0) /\ \A n \in Nat : 0 <= n + 1
        OBVIOUS
      <4>3. maxStarving \in Nat
        OBVIOUS
      <4> QED BY <4>1, <4>2, <4>3 DEF Overtaken
    <3>2. CASE ~(queued["lowest"] > 0)
      <4>1. bypassed = 0
        BY <3>2 DEF Overtaken, TypeOK
      <4> QED BY <4>1, <3>2, <1>3 DEF TryLowest, TryNext, Overtaken, TypeOK
    <3> QED BY <3>1, <3>2
  <2>4. Handed'
    BY <1>3 DEF TryLowest, Took, TryNext, Handed, None
  <2> QED BY <2>1, <2>2, <2>3, <2>4
<1> QED BY <1>1, <1>2, <1>3 DEF TryHighest

\* The packet in hand leaves the count.
LEMMA CountKeeps == ASSUME QueueInv, Count PROVE QueueInv'
<1> USE DEF QueueInv, Count, PopReturns, closeVars, producerVars
<1>1. Counted' /\ length' \in Nat
  <2>1. CASE MaxLength > 0
    <3>1. Held' = Held /\ Held \in Nat
      BY DEF Held, TypeOK, Classes
    <3>2. InHand = 1 /\ InHand' = 0
      BY DEF InHand
    <3>3. Pushing' = Pushing
      BY DEF Pushing
    <3> HIDE DEF Held, InHand
    <3> QED BY <2>1, <3>1, <3>2, <3>3, PushersCounted, WriteQueueAssumption DEF Counted, TypeOK
  <2>2. CASE ~(MaxLength > 0)
    BY <2>2, WriteQueueAssumption DEF Counted, TypeOK
  <2> QED BY <2>1, <2>2
<1>2. TypeOK'
  BY <1>1 DEF TypeOK
<1>3. Overtaken' /\ Handed'
  BY DEF Overtaken, Handed
<1> QED BY <1>1, <1>2, <1>3

\* The other steps of writeSession leave the chains alone.
LEMMA WriterKeeps ==
  ASSUME QueueInv, Loop \/ Nothing \/ Wait \/ Wake \/ Popped \/ Pack \/ Closed PROVE QueueInv'
<1> USE DEF QueueInv, queueVars, condVars, closeVars, producerVars, Exit, PopReturns
<1>1. TypeOK'
  <2>1. CASE Loop \/ Wait \/ Wake \/ Closed
    BY <2>1 DEF TypeOK, Loop, Wait, Wake, Closed
  <2>2. CASE Nothing
    BY <2>2 DEF TypeOK, Nothing
  <2>3. CASE Popped \/ Pack
    BY <2>3 DEF TypeOK, Popped, Pack, BeginClose
  <2> QED BY <2>1, <2>2, <2>3
<1>2. Counted'
  <2>1. cpc # "count" /\ cpc' # "count" /\ UNCHANGED <<queued, length, cur, ppc>>
    BY DEF Loop, Nothing, Wait, Wake, Popped, Pack, Closed
  <2> QED BY <2>1, CountKept DEF InHand
<1>3. Overtaken'
  BY DEF Overtaken, Loop, Nothing, Wait, Wake, Popped, Pack, Closed
<1>4. Handed'
  BY DEF Handed, Loop, Nothing, Wait, Wake, Popped, Pack, Closed, BeginClose, SeenClosed
<1> QED BY <1>1, <1>2, <1>3, <1>4

\* Every step keeps the invariant.
LEMMA EveryStepKeeps == QueueInv /\ [Next]_vars => QueueInv'
<1> SUFFICES ASSUME QueueInv, [Next]_vars PROVE QueueInv'
  OBVIOUS
<1>1. CASE UNCHANGED vars
  <2>1. UNCHANGED <<queued, length, starving, stop, lock, waiting, isClose, closing, ppc, cur,
                    early, cpc, round, pack, bypassed>>
    BY <1>1 DEF vars, queueVars, condVars, closeVars, producerVars, consumerVars
  <2>2. Counted'
    BY <2>1, CountKept DEF QueueInv, InHand
  <2>3. TypeOK' /\ Overtaken' /\ Handed'
    BY <2>1 DEF QueueInv, TypeOK, Overtaken, Handed
  <2> QED BY <2>2, <2>3 DEF QueueInv
<1>2. CASE Next
  BY <1>1, <1>2, ClosingKeeps, ProducerKeeps, TryKeeps, CountKeeps, WriterKeeps
     DEF Next, WriteSession, Rest
<1> QED BY <1>1, <1>2

\* So it holds in every reachable state.
LEMMA Always == Spec => []QueueInv
BY Initially, EveryStepKeeps, PTL DEF Spec

-----------------------------------------------------------------------------
\* The types; in particular a count with a limit never falls below zero.
THEOREM QueueTyped == Spec => []TypeOK
<1>1. QueueInv => TypeOK
  BY DEF QueueInv
<1> QED BY <1>1, Always, PTL

\* However many goroutines push at once, the limit holds and none of it is leaked.
THEOREM LimitIsHeld == Spec => []LimitHeld
<1>1. QueueInv => LimitHeld
  BY DEF QueueInv, Counted, LimitHeld, Pushing, InHand, Held
<1> QED BY <1>1, Always, PTL

\* No more than maxStarving + 1 middle packets overtake a waiting lowest one, wherever the
\* counter wraps.
THEOREM LowestIsServed == Spec => []LowestNotStarved
<1>1. QueueInv => LowestNotStarved
  BY DEF QueueInv, Overtaken, LowestNotStarved
<1> QED BY <1>1, Always, PTL

\* writeSession, which looks at isClose and not at the packet, never packs a nil one.
THEOREM NoNilPacket == Spec => []NilNeverPacked
<1>1. QueueInv => NilNeverPacked
  BY DEF QueueInv, Handed, NilNeverPacked
<1> QED BY <1>1, Always, PTL
=============================================================================
