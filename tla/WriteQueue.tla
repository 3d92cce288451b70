------------------------------ MODULE WriteQueue ------------------------------
(***************************************************************************)
(* The write queue of a mux (priorityQueue, lib/natpunch_mux/queue.go) and *)
(* the goroutines on both of its ends: those that send (Mux.sendInfo) and  *)
(* the one that writes to the tunnel (Mux.writeSession), with the part of  *)
(* Mux.Close that stops them.  Each of its three chains is a FIFO queue of *)
(* packets that differ only in their class, hence a number.                *)
(***************************************************************************)
EXTENDS Naturals, FiniteSets

CONSTANTS
  Pingers, Openers, Writers,  \* goroutines that send packets of each class
  MaxLength,     \* SetMaxLength: packets the queue may hold, 0 for no limit
  maxStarving,   \* 8 in the code
  StarvingWrap,  \* starving is a uint8: 256 in the code
  EarlyPings     \* bound: pings sent while writeSession is not asleep

ASSUME WriteQueueAssumption ==
  /\ MaxLength \in Nat /\ EarlyPings \in Nat
  /\ maxStarving \in Nat /\ StarvingWrap \in Nat /\ maxStarving < StarvingWrap
  /\ Pingers \cap Openers = {} /\ Pingers \cap Writers = {} /\ Openers \cap Writers = {}

Producers == Pingers \cup Openers \cup Writers
Classes == {"highest", "middle", "lowest"}
None == "none"

VARIABLES
  queued, length, starving, stop,  \* the priorityQueue: chains as their lengths
  lock, waiting,                   \* cond: holder of L, writeSession in Wait
  isClose, closing,                \* the Mux: flag, progress of closeOnce
  ppc, cur,                        \* each producer: pc, length it loaded
  cpc, round, pack,                \* writeSession: pc, tries of Pop, packet
  early,                           \* pings sent early so far
  bypassed    \* history: middle packets popped while a lowest one waited

queueVars == <<queued, length, starving, stop>>
condVars == <<lock, waiting>>
closeVars == <<isClose, closing>>
producerVars == <<ppc, cur, early>>
consumerVars == <<cpc, round, pack, bypassed>>
vars == <<queueVars, condVars, closeVars, producerVars, consumerVars>>

ClassOf(p) == IF p \in Pingers THEN "highest" ELSE IF p \in Openers THEN "middle" ELSE "lowest"

Init ==
  /\ queued = [c \in Classes |-> 0] /\ length = 0 /\ starving = 0 /\ stop = FALSE
  /\ lock = None /\ waiting = FALSE
  /\ isClose = FALSE /\ closing = "no"
  /\ ppc = [p \in Producers |-> "idle"] /\ cur = [p \in Producers |-> 0] /\ early = 0
  /\ cpc = "top" /\ round = 1 /\ pack = None /\ bypassed = 0

PGoto(p, pc) == ppc' = [ppc EXCEPT ![p] = pc]

-----------------------------------------------------------------------------
(* Mux.Close: the first caller runs it, later callers wait for its end      *)

\* (what comes between isClose and release does not touch the queue)
BeginClose ==
  IF closing = "no" THEN closing' = "flagged" /\ isClose' = TRUE ELSE UNCHANGED closeVars

\* the tunnel fails, a ping is overdue or the user closes the mux
Close ==
  /\ closing = "no" /\ BeginClose
  /\ UNCHANGED <<queueVars, condVars, producerVars, consumerVars>>

\* priorityQueue.Stop, called by release: the flag, then Broadcast under the lock
StopFlag ==
  /\ closing = "flagged" /\ closing' = "stopped" /\ stop' = TRUE
  /\ UNCHANGED <<queued, length, starving, condVars, isClose, producerVars, consumerVars>>

StopMayBroadcastUnlocked == TRUE
StopMayBroadcast == lock = None
StopBroadcast ==
  /\ closing = "stopped" /\ StopMayBroadcast
  /\ closing' = "done" /\ waiting' = FALSE
  /\ UNCHANGED <<queueVars, lock, isClose, producerVars, consumerVars>>

-----------------------------------------------------------------------------
(* Mux.sendInfo and priorityQueue.Push                                      *)

\* a ping is sent every 5 s: of those sent while writeSession is busy few matter
MaySend(p) == p \in Pingers => cpc = "asleep" \/ early < EarlyPings

Send(p) ==
  /\ ppc[p] = "idle" /\ ~isClose /\ MaySend(p)
  /\ early' = IF p \in Pingers /\ cpc # "asleep" THEN early + 1 ELSE early
  /\ PGoto(p, IF MaxLength = 0 THEN "push" ELSE "load")
  /\ UNCHANGED <<queueVars, condVars, closeVars, cur, consumerVars>>

OverflowLate(n) == n > MaxLength
Overflow(n) == n >= MaxLength

\* a full queue is an error, for which sendInfo closes the mux
Load(p) ==
  /\ ppc[p] = "load"
  /\ IF Overflow(length) THEN PGoto(p, "closing") /\ BeginClose /\ UNCHANGED cur
     ELSE PGoto(p, "cas") /\ cur' = [cur EXCEPT ![p] = length] /\ UNCHANGED closeVars
  /\ UNCHANGED <<queueVars, condVars, early, consumerVars>>

CompareAndSwap(p) ==
  /\ ppc[p] = "cas"
  /\ IF length = cur[p] THEN length' = length + 1 /\ PGoto(p, "push")
                        ELSE PGoto(p, "load") /\ UNCHANGED length
  /\ cur' = [cur EXCEPT ![p] = 0]
  /\ UNCHANGED <<queued, starving, stop, condVars, closeVars, early, consumerVars>>

PushHead(p) ==
  /\ ppc[p] = "push"
  /\ queued' = [queued EXCEPT ![ClassOf(p)] = @ + 1]
  /\ PGoto(p, "broadcast")
  /\ UNCHANGED <<length, starving, stop, condVars, closeVars, cur, early, consumerVars>>

\* without the lock: writeSession may be about to Wait, and miss it
Broadcast(p) ==
  /\ ppc[p] = "broadcast"
  /\ waiting' = FALSE
  /\ PGoto(p, "idle")
  /\ UNCHANGED <<queueVars, lock, closeVars, cur, early, consumerVars>>

CloseReturns(p) ==
  /\ ppc[p] = "closing" /\ closing = "done"
  /\ PGoto(p, "idle")
  /\ UNCHANGED <<queueVars, condVars, closeVars, cur, early, consumerVars>>

Sending(p) == Load(p) \/ CompareAndSwap(p) \/ PushHead(p) \/ Broadcast(p) \/ CloseReturns(p)

-----------------------------------------------------------------------------
(* priorityQueue.TryPop: a chain each step, by the one consumer             *)

Took(c) ==
  /\ queued' = [queued EXCEPT ![c] = @ - 1]
  /\ pack' = c /\ cpc' = "count"

TryNext(pc) == cpc' = pc /\ UNCHANGED <<queued, pack>>

\* middle packets go first until the lowest ones have waited too long
MiddleAlwaysFirst == TRUE
MiddleFirst == starving < maxStarving

TryHighest ==
  /\ cpc = "highest"
  /\ IF queued["highest"] > 0 THEN Took("highest")
     ELSE TryNext(IF MiddleFirst THEN "middle" ELSE "lowest")
  /\ UNCHANGED <<length, starving, stop, condVars, closeVars, producerVars, round, bypassed>>

StarvingMoreNever == starving
StarvingMoreWide == starving + 1
StarvingMore == (starving + 1) % StarvingWrap
TookMiddle ==
  /\ Took("middle")
  /\ starving' = StarvingMore
  /\ bypassed' = IF queued["lowest"] = 0 THEN 0
                 ELSE IF bypassed < maxStarving + 2 THEN bypassed + 1 ELSE bypassed

TryMiddle ==
  /\ cpc = "middle"
  /\ IF queued["middle"] > 0 THEN TookMiddle
     ELSE TryNext("lowest") /\ UNCHANGED <<starving, bypassed>>
  /\ UNCHANGED <<length, stop, condVars, closeVars, producerVars, round>>

TryLowest ==
  /\ cpc = "lowest"
  /\ IF queued["lowest"] > 0
     THEN Took("lowest") /\ starving' = starving \div 2 /\ bypassed' = 0
     ELSE TryNext(IF starving > 0 THEN "again" ELSE "nil") /\ UNCHANGED <<starving, bypassed>>
  /\ UNCHANGED <<length, stop, condVars, closeVars, producerVars, round>>

TryMiddleAgain ==
  /\ cpc = "again"
  /\ IF queued["middle"] > 0 THEN TookMiddle
     ELSE TryNext("nil") /\ UNCHANGED <<starving, bypassed>>
  /\ UNCHANGED <<length, stop, condVars, closeVars, producerVars, round>>

\* Pop unlocks if it has locked
PopReturns ==
  /\ cpc' = "popped" /\ round' = 1
  /\ lock' = IF round = 3 THEN None ELSE lock

\* the packet leaves the count after it left its chain; Pop returns it
Count ==
  /\ cpc = "count"
  /\ length' = IF MaxLength = 0 THEN length ELSE length - 1  \* without a limit nobody reads it
  /\ PopReturns
  /\ UNCHANGED <<queued, starving, stop, waiting, closeVars, producerVars, pack, bypassed>>

-----------------------------------------------------------------------------
(* priorityQueue.Pop and Mux.writeSession                                   *)

Exit == cpc' = "exit"

Loop ==
  /\ cpc = "top"
  /\ IF isClose THEN Exit ELSE cpc' = "highest"
  /\ UNCHANGED <<queueVars, condVars, closeVars, producerVars, round, pack, bypassed>>

\* nothing found: stopped, or a second try, then a third under the lock, then Wait
Nothing ==
  /\ cpc = "nil"
  /\ \/ stop /\ PopReturns /\ UNCHANGED waiting
     \/ /\ ~stop /\ round = 1 /\ round' = 2 /\ cpc' = "highest"
        /\ UNCHANGED condVars
     \/ /\ ~stop /\ round = 2 /\ lock = None
        /\ round' = 3 /\ lock' = "pop" /\ cpc' = "highest" /\ UNCHANGED waiting
     \/ /\ ~stop /\ round = 3 /\ cpc' = "wait"
        /\ UNCHANGED <<round, condVars>>
  /\ UNCHANGED <<queueVars, closeVars, producerVars, pack, bypassed>>

\* cond.Wait joins the waiters and gives up the lock
Wait ==
  /\ cpc = "wait"
  /\ waiting' = TRUE /\ lock' = None /\ cpc' = "asleep"
  /\ UNCHANGED <<queueVars, closeVars, producerVars, round, pack, bypassed>>

Wake ==
  /\ cpc = "asleep" /\ ~waiting /\ lock = None
  /\ lock' = "pop" /\ cpc' = "highest"
  /\ UNCHANGED <<queueVars, waiting, closeVars, producerVars, round, pack, bypassed>>

\* isClose is read again after Pop, which returns nil once stopped
NotSeenAfterPop == FALSE
SeenClosed == isClose

Popped ==
  /\ cpc = "popped"
  /\ IF SeenClosed THEN Exit /\ pack' = None ELSE cpc' = "pack" /\ UNCHANGED pack
  /\ UNCHANGED <<queueVars, condVars, closeVars, producerVars, round, bypassed>>

\* the packet is written to the tunnel, or writing fails and the mux is closed
Pack ==
  /\ cpc = "pack"
  /\ pack' = None
  /\ \/ cpc' = "top" /\ UNCHANGED closeVars
     \/ cpc' = "closing" /\ BeginClose
  /\ UNCHANGED <<queueVars, condVars, producerVars, round, bypassed>>

Closed ==
  /\ cpc = "closing" /\ closing = "done" /\ Exit
  /\ UNCHANGED <<queueVars, condVars, closeVars, producerVars, round, pack, bypassed>>

WriteSession ==
  \/ Loop \/ TryHighest \/ TryMiddle \/ TryLowest \/ TryMiddleAgain \/ Count
  \/ Nothing \/ Wait \/ Wake \/ Popped \/ Pack \/ Closed

-----------------------------------------------------------------------------
\* a closed mux: writeSession is gone and nobody is inside sendInfo
Ended == cpc = "exit" /\ closing = "done" /\ \A p \in Producers : ppc[p] = "idle"
Rest == Ended /\ UNCHANGED vars

Next ==
  \/ Close \/ StopFlag \/ StopBroadcast
  \/ \E p \in Producers : Send(p) \/ Sending(p)
  \/ WriteSession
  \/ Rest

Spec == Init /\ [][Next]_vars
(* Goroutines that can run do; the tunnel takes a packet or fails; the ping   *)
(* ticker goes on for as long as the mux is open                              *)
FairSpec ==
  /\ Spec /\ WF_vars(WriteSession) /\ WF_vars(StopFlag \/ StopBroadcast)
  /\ \A p \in Producers : WF_vars(Sending(p))
  /\ \A p \in Pingers : WF_vars(Send(p))

-----------------------------------------------------------------------------
(* Properties                                                              *)

\* Every variable has its type
TypeOK ==
  /\ queued \in [Classes -> Nat] /\ length \in Nat /\ starving \in 0..StarvingWrap-1
  /\ stop \in BOOLEAN /\ lock \in {None, "pop"} /\ waiting \in BOOLEAN
  /\ isClose \in BOOLEAN
  /\ closing \in {"no", "flagged", "stopped", "done"}
  /\ ppc \in [Producers -> {"idle", "load", "cas", "push", "broadcast", "closing"}]
  /\ cur \in [Producers -> Nat] /\ early \in 0..EarlyPings
  /\ cpc \in {"top", "highest", "middle", "lowest", "again", "nil", "count", "popped", "wait",
              "asleep", "pack", "closing", "exit"}
  /\ round \in 1..3 /\ pack \in Classes \cup {None} /\ bypassed \in Nat

\* "Limit of queued packets" (queue.go:22): whatever goroutines push at once, the
\* chains never hold more than maxLength, and no slot of the limit is ever leaked
LimitHeld ==
  MaxLength > 0 =>
    /\ length <= MaxLength
    /\ length = queued["highest"] + queued["middle"] + queued["lowest"]
                + Cardinality({p \in Producers : ppc[p] = "push"})
                + (IF cpc = "count" THEN 1 ELSE 0)

\* "not pop too much, lowestChain will wait too long" (queue.go:118): at most
\* maxStarving middle packets overtake a waiting lowest one, one more at the wrap
LowestNotStarved == bypassed <= maxStarving + 1

\* Pop returns nil only on a closed mux: writeSession, which checks isClose and
\* not the packet, never writes a nil packet
NilNeverPacked == cpc = "pack" => pack # None

\* The wakeup that Push may lose is made up for by the next ping: data waits
\* for some time only, however many new connections overtake it
DataGetsSent == queued["lowest"] > 0 ~> (pack = "lowest" \/ isClose)

\* Stop reaches the goroutine wherever it is in Pop: it ends with the mux
WriterEnds == isClose ~> cpc = "exit"
=============================================================================
