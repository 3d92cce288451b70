--------------------------- MODULE MuxSessionProofs ---------------------------
(* Two muxes over one tunnel, for any number of connections and any faults:   *)
(* messages find their conn, and a closed mux leaves no conn open.            *)
EXTENDS MuxSession, SequenceTheorems, TLAPS

Classes == {"middle", "lowest"}

\* the packets of a class that an end has sent and its peer has not read
OnWire(e, k) == {sent[e][k][i] : i \in 1..Len(sent[e][k])}

\* once an end has put a conn into its map it knows it for good: only its own
\* closing takes it out again
Known(e, c) == c \in connMap[e] \/ Closed(e, c)

\* what the opening end may tell the other of: a conn that NewConn has put into the
\* map after Mux.Close has copied it is not in the copy, and nobody will hear of it
Covered(c) ==
  Known("A", c) /\ (once["A"] \in {"conns", "done"} => c \in todo["A"] \/ Closed("A", c))
BothKnow(c) == Covered(c) /\ Known("B", c)

\* closeOnce.Do sets the flag first
MuxFlags == \A e \in Ends : isClose[e] <=> once[e] # "no"

\* the opening end covers a conn before anyone hears of it, the accepting end knows
\* it before it answers, and data and closing come from conns that both know
WireKnown ==
  /\ \A p \in OnWire("A", "middle") : p.kind = "newConn" /\ Covered(p.conn)
  /\ \A p \in OnWire("B", "middle") : p.kind = "newConnOk" /\ BothKnow(p.conn)
  /\ \A e \in Ends : \A p \in OnWire(e, "lowest") : BothKnow(p.conn)

OpeningKnown ==
  /\ \A c \in Conns : opening[c] = "send" => Known("A", c)
  /\ \A c \in Conns : opening[c] = "push" => Covered(c)
  /\ \A c \in Conns : opening[c] \in {"ok", "open"} => BothKnow(c)

AcceptKnown ==
  /\ \A i \in 1..Len(connQueue) : Covered(connQueue[i])
  /\ apc = "popped" => isClose["B"] \/ (next \in Conns /\ Covered(next))
  /\ apc \in {"set", "offer", "send", "push", "closing"} => next \in Conns /\ Covered(next)
  /\ apc \in {"offer", "send", "push", "closing"} => Known("B", next)

\* a user has only what both ends know; closeProcess tells the peer only of a conn
\* that the user closed, for when the mux closes it the flag is set
UserKnown ==
  /\ \A e \in Ends : \A c \in handed[e] : BothKnow(c)
  /\ \A e \in Ends, c \in Conns : connOnce[e][c] \in {"delete", "check"} => c \in handed[e] \/ isClose[e]
  /\ \A e \in Ends, c \in Conns : connOnce[e][c] = "push" => c \in handed[e]

\* what the user of a closing mux has or may still get is closed or will be
Snapshots ==
  /\ \A e \in Ends : once[e] \in {"conns", "done"} =>
       \A c \in handed[e] : c \in todo[e] \/ Closed(e, c)
  /\ \A e \in Ends : once[e] = "done" => todo[e] = {}

SessionInv ==
  TypeOK /\ MuxFlags /\ WireKnown /\ OpeningKnown /\ AcceptKnown /\ UserKnown /\ Snapshots

-----------------------------------------------------------------------------
(* The wire, and what only grows.                                            *)

Pcs == {"no", "delete", "check", "push", "closing", "done"}

LEMMA Ends_ ==
  /\ Ends = {"A", "B"} /\ \A e \in Ends : Peer(e) \in Ends
  /\ Peer("A") = "B" /\ Peer("B") = "A"
BY DEF Ends, Peer

\* a packet that is sent is one more on the wire
LEMMA Sending ==
  ASSUME TypeOK, NEW e \in Ends, NEW kind, NEW c \in Conns, Queue(e, kind, c),
         kind \in {"newConn", "newConnOk", "newMsg", "connClose"}
  PROVE  /\ sent' \in [Ends -> [Classes -> Seq(Packets)]]
         /\ \A f \in Ends, k \in Classes : \A q \in OnWire(f, k)' :
              q \in OnWire(f, k) \/ (f = e /\ k = Class(kind) /\ q = Pkt(kind, c))
<1> DEFINE p == Pkt(kind, c)
           old == sent[e][Class(kind)]
<1>1. sent \in [Ends -> [Classes -> Seq(Packets)]] /\ Class(kind) \in Classes /\ p \in Packets
  BY DEF TypeOK, Wires, Classes, Class, Pkt, Packets
<1>2. sent' = [sent EXCEPT ![e] = [sent[e] EXCEPT ![Class(kind)] = Append(old, p)]]
  BY DEF Queue
<1>3. old \in Seq(Packets)
  BY <1>1
<1>4. /\ Append(old, p) \in Seq(Packets) /\ Len(Append(old, p)) = Len(old) + 1
      /\ Len(old) \in Nat
      /\ \A i \in 1..Len(old) : Append(old, p)[i] = old[i]
      /\ Append(old, p)[Len(old) + 1] = p
  BY <1>1, <1>3, AppendProperties, LenProperties
<1> HIDE DEF p, old
<1>5. sent' \in [Ends -> [Classes -> Seq(Packets)]]
  BY <1>1, <1>2, <1>4
<1>6. ASSUME NEW f \in Ends, NEW k \in Classes, NEW q \in OnWire(f, k)'
      PROVE  q \in OnWire(f, k) \/ (f = e /\ k = Class(kind) /\ q = p)
  <2>1. CASE f = e /\ k = Class(kind)
    <3>1. sent'[f][k] = Append(old, p) /\ sent[f][k] = old
      BY <1>1, <1>2, <2>1 DEF old
    <3>2. PICK i \in 1..Len(Append(old, p)) : q = Append(old, p)[i]
      BY <3>1 DEF OnWire
    <3>3. CASE i \in 1..Len(old)
      BY <1>4, <3>1, <3>2, <3>3 DEF OnWire
    <3>4. CASE i = Len(old) + 1
      BY <1>4, <2>1, <3>2, <3>4
    <3> QED BY <1>4, <3>3, <3>4
  <2>2. CASE ~(f = e /\ k = Class(kind))
    <3>1. sent'[f][k] = sent[f][k]
      BY <1>1, <1>2, <2>2
    <3> QED BY <3>1 DEF OnWire
  <2> QED BY <2>1, <2>2
<1> QED BY <1>5, <1>6 DEF p

\* a packet that is read was on the wire
LEMMA Receiving ==
  ASSUME TypeOK, NEW e \in Ends, NEW k \in Classes, Receive(e, k)
  PROVE  /\ sent' \in [Ends -> [Classes -> Seq(Packets)]]
         /\ \A f \in Ends, j \in Classes : OnWire(f, j)' \subseteq OnWire(f, j)
         /\ Head(sent[Peer(e)][k]) \in OnWire(Peer(e), k)
         /\ Head(sent[Peer(e)][k]) \in Packets
<1> DEFINE g == Peer(e)
           old == sent[g][k]
<1>1. sent \in [Ends -> [Classes -> Seq(Packets)]] /\ g \in Ends
  BY Ends_ DEF TypeOK, Wires, Classes
<1>2. sent' = [sent EXCEPT ![g] = [sent[g] EXCEPT ![k] = Tail(old)]] /\ old # <<>>
  BY DEF Receive
<1>3. old \in Seq(Packets)
  BY <1>1
<1>4. /\ Tail(old) \in Seq(Packets) /\ Len(Tail(old)) = Len(old) - 1 /\ Len(old) \in Nat \ {0}
      /\ \A i \in 1..Len(Tail(old)) : Tail(old)[i] = old[i + 1]
      /\ Head(old) = old[1] /\ Head(old) \in Packets
  BY <1>2, <1>3, HeadTailProperties, LenProperties, EmptySeq
<1> HIDE DEF g, old
<1>5. sent' \in [Ends -> [Classes -> Seq(Packets)]]
  BY <1>1, <1>2, <1>4
<1>6. ASSUME NEW f \in Ends, NEW j \in Classes, NEW q \in OnWire(f, j)'
      PROVE  q \in OnWire(f, j)
  <2>1. CASE f = g /\ j = k
    <3>1. sent'[f][j] = Tail(old) /\ sent[f][j] = old
      BY <1>1, <1>2, <2>1 DEF old
    <3>2. PICK i \in 1..Len(Tail(old)) : q = Tail(old)[i]
      BY <3>1 DEF OnWire
    <3>3. q = old[i + 1] /\ i + 1 \in 1..Len(old)
      BY <1>4, <3>2
    <3> QED BY <3>1, <3>3 DEF OnWire
  <2>2. CASE ~(f = g /\ j = k)
    <3>1. sent'[f][j] = sent[f][j]
      BY <1>1, <1>2, <2>2
    <3> QED BY <3>1 DEF OnWire
  <2> QED BY <2>1, <2>2
<1>7. Head(old) \in OnWire(g, k)
  <2>1. 1 \in 1..Len(old)
    BY <1>4
  <2> QED BY <1>4, <2>1 DEF OnWire, old
<1> QED BY <1>4, <1>5, <1>6, <1>7 DEF old, g

LEMMA WireKept ==
  ASSUME UNCHANGED sent
  PROVE  \A f, k : OnWire(f, k)' = OnWire(f, k)
BY DEF OnWire

LEMMA OnWireConns ==
  ASSUME TypeOK
  PROVE  \A f \in Ends, k \in Classes : \A p \in OnWire(f, k) : p.conn \in Conns
<1> SUFFICES ASSUME NEW f \in Ends, NEW k \in Classes, NEW p \in OnWire(f, k) PROVE p.conn \in Conns
  OBVIOUS
<1>1. sent[f][k] \in Seq(Packets)
  BY DEF TypeOK, Wires, Classes
<1>2. PICK i \in 1..Len(sent[f][k]) : p = sent[f][k][i]
  BY DEF OnWire
<1>3. p \in Packets
  BY <1>1, <1>2, ElementOfSeq
<1> QED BY <1>3 DEF Packets

\* Everything that was known, handed to a user or closed stays so.
Grown ==
  /\ \A e \in Ends, c \in Conns : Known(e, c) => Known(e, c)'
  /\ \A c \in Conns : Covered(c) => Covered(c)'
  /\ \A e \in Ends, c \in Conns : Closed(e, c) => Closed(e, c)'
  /\ \A e \in Ends : handed[e] \subseteq handed'[e]
  /\ \A e \in Ends : isClose[e] => isClose'[e]

LEMMA TypeChanges ==
  /\ \A s \in ConnSets, e \in Ends, c \in Conns :
       /\ [s EXCEPT ![e] = @ \cup {c}] \in ConnSets
       /\ [s EXCEPT ![e] = @ \ {c}] \in ConnSets
  /\ \A s, t \in ConnSets, e \in Ends : [s EXCEPT ![e] = t[e]] \in ConnSets
  /\ \A o \in ConnOnces, e \in Ends, c \in Conns, pc \in Pcs : [o EXCEPT ![e][c] = pc] \in ConnOnces
BY DEF ConnSets, ConnOnces, Pcs

LEMMA BeginCloseFacts ==
  ASSUME TypeOK, NEW e \in Ends, BeginClose(e)
  PROVE  /\ isClose' \in [Ends -> BOOLEAN]
         /\ once' \in Onces
         /\ \A f \in Ends : isClose[f] => isClose'[f]
         /\ \A f \in Ends : once'[f] = once[f] \/ (once[f] = "no" /\ once'[f] = "flagged" /\ isClose'[f])
         /\ \A f \in Ends : once'[f] = once[f] => isClose'[f] = isClose[f]
         /\ MuxFlags => MuxFlags'
<1>1. isClose \in [Ends -> BOOLEAN] /\ once \in [Ends -> {"no", "flagged", "signalled", "conns", "done"}]
  BY DEF TypeOK, Onces
<1>2. CASE once[e] = "no"
  <2>1. once' = [once EXCEPT ![e] = "flagged"] /\ isClose' = [isClose EXCEPT ![e] = TRUE]
    BY <1>2 DEF BeginClose
  <2> QED BY <1>1, <1>2, <2>1 DEF Onces, MuxFlags
<1>3. CASE once[e] # "no"
  <2>1. once' = once /\ isClose' = isClose
    BY <1>3 DEF BeginClose
  <2> QED BY <1>1, <2>1 DEF Onces, MuxFlags
<1> QED BY <1>2, <1>3

USE DEF muxVars, connVars, acceptVars

LEMMA OpeningTypes ==
  ASSUME SessionInv, NEW c \in Conns, Opening(c) \/ NewConnTimeout(c), UNCHANGED setting
  PROVE  TypeOK'
<1> USE DEF SessionInv, TypeOK
<1>1. opening' \in Openings
  BY DEF Opening, NewConn, NewConnSet, NewConnSend, NewConnPush, NewConnClosing, NewConnOk, NewConnTimeout, OGoto, Openings
<1>2. CASE NewConnSet(c)
  <2>1. [connMap EXCEPT !["A"] = @ \cup {c}] \in ConnSets
    BY Ends_, TypeChanges
  <2>2. connMap' \in ConnSets
    BY <1>2, <2>1 DEF NewConnSet
  <2> QED BY <1>1, <1>2, <2>2 DEF NewConnSet, OnlyOpening
<1>3. CASE NewConn(c) \/ NewConnSend(c) \/ NewConnClosing(c) \/ NewConnTimeout(c)
  BY <1>1, <1>3 DEF NewConn, NewConnSend, NewConnClosing, NewConnTimeout, OnlyOpening
<1>4. CASE NewConnPush(c)
  <2>1. "A" \in Ends
    BY Ends_
  <2>2. CASE Queue("A", "newConn", c)
    <3>1. sent' \in Wires
      BY <2>1, <2>2, Sending DEF Wires, Classes
    <3> QED BY <1>1, <1>4, <2>2, <3>1 DEF NewConnPush, Queue, OnlyOpening
  <2>3. CASE Overflow("A")
    <3>1. isClose' \in [Ends -> BOOLEAN] /\ once' \in Onces /\ UNCHANGED <<todo, sent>>
      BY <2>1, <2>3, BeginCloseFacts DEF Overflow
    <3> QED BY <1>1, <1>4, <3>1 DEF NewConnPush, OnlyOpening
  <2> QED BY <1>4, <2>2, <2>3 DEF NewConnPush
<1>5. CASE NewConnOk(c)
  <2>1. handed' \in ConnSets
    BY <1>5, Ends_, TypeChanges DEF NewConnOk
  <2> QED BY <1>1, <1>5, <2>1 DEF NewConnOk
<1> QED BY <1>2, <1>3, <1>4, <1>5 DEF Opening

LEMMA UserTypes ==
  ASSUME SessionInv, NEW e \in Ends, NEW c \in Conns, Write(e, c) \/ ConnClose(e, c) \/ Closing(e, c),
         UNCHANGED setting
  PROVE  TypeOK'
<1> USE DEF SessionInv, TypeOK
<1>1. CASE Write(e, c)
  <2>1. wrote' \in ConnSets
    BY <1>1, TypeChanges DEF Write
  <2>2. CASE Queue(e, "newMsg", c)
    <3>1. sent' \in Wires
      BY <2>2, Sending DEF Wires, Classes
    <3> QED BY <1>1, <2>1, <2>2, <3>1 DEF Write, Queue
  <2>3. CASE Overflow(e)
    <3>1. isClose' \in [Ends -> BOOLEAN] /\ once' \in Onces /\ UNCHANGED <<todo, sent>>
      BY <2>3, BeginCloseFacts DEF Overflow
    <3> QED BY <1>1, <2>1, <3>1 DEF Write
  <2> QED BY <1>1, <2>2, <2>3 DEF Write
<1>2. ConnClose(e, c) \/ Closing(e, c) => connOnce' \in ConnOnces
  <2>1. \A pc \in Pcs : [connOnce EXCEPT ![e][c] = pc] \in ConnOnces
    BY TypeChanges
  <2>2. \A pc \in Pcs : COnce(e, c, pc) => connOnce' \in ConnOnces
    BY <2>1 DEF COnce
  <2> QED BY <2>2 DEF ConnClose, Closing, CloseDelete, CloseCheck, ClosePush, CloseClosing, Pcs
<1>3. CASE ConnClose(e, c) \/ CloseCheck(e, c) \/ CloseClosing(e, c)
  BY <1>2, <1>3 DEF Closing, ConnClose, CloseCheck, CloseClosing, OnlyClosing
<1>4. CASE CloseDelete(e, c)
  <2>1. connMap' \in ConnSets
    BY <1>4, TypeChanges DEF CloseDelete, MapWithout
  <2> QED BY <1>2, <1>4, <2>1 DEF Closing, CloseDelete, OnlyClosing
<1>5. CASE ClosePush(e, c)
  <2>1. CASE Queue(e, "connClose", c)
    <3>1. sent' \in Wires
      BY <2>1, Sending DEF Wires, Classes
    <3> QED BY <1>2, <1>5, <2>1, <3>1 DEF Closing, ClosePush, Queue, OnlyClosing
  <2>2. CASE Overflow(e)
    <3>1. isClose' \in [Ends -> BOOLEAN] /\ once' \in Onces /\ UNCHANGED <<todo, sent>>
      BY <2>2, BeginCloseFacts DEF Overflow
    <3> QED BY <1>2, <1>5, <3>1 DEF Closing, ClosePush, OnlyClosing
  <2> QED BY <1>5, <2>1, <2>2 DEF ClosePush
<1> QED BY <1>1, <1>3, <1>4, <1>5 DEF Closing

LEMMA MuxTypes ==
  ASSUME SessionInv, NEW e \in Ends, Close(e) \/ MuxClosing(e), UNCHANGED setting
  PROVE  TypeOK'
<1> USE DEF SessionInv, TypeOK
<1>1. CASE Close(e)
  <2>1. isClose' \in [Ends -> BOOLEAN] /\ once' \in Onces
    BY <1>1, BeginCloseFacts DEF Close
  <2> QED BY <1>1, <2>1 DEF Close
<1>2. \A pc \in {"signalled", "conns", "done"} : MGoto(e, pc) => once' \in Onces
  BY DEF MGoto, Onces
<1>3. CASE CloseDone(e) \/ CloseTunnel(e)
  BY <1>2, <1>3 DEF CloseDone, CloseTunnel, OnlyMux
<1>4. CASE Snapshot(e)
  <2>1. todo' \in ConnSets
    BY <1>4, TypeChanges DEF Snapshot
  <2> QED BY <1>2, <1>4, <2>1 DEF Snapshot, OnlyMux
<1>5. CASE CloseConn(e)
  <2>1. \A c \in todo[e] : c \in Conns
    BY DEF ConnSets
  <2>2. PICK c \in todo[e] : \/ COnce(e, c, "delete") /\ UNCHANGED todo
                             \/ todo' = [todo EXCEPT ![e] = @ \ {c}] /\ UNCHANGED connOnce
    BY <1>5 DEF CloseConn
  <2>3. [todo EXCEPT ![e] = @ \ {c}] \in ConnSets /\ [connOnce EXCEPT ![e][c] = "delete"] \in ConnOnces
    BY <2>1, <2>2, TypeChanges DEF Pcs
  <2>4. todo' \in ConnSets /\ connOnce' \in ConnOnces
    BY <2>2, <2>3 DEF COnce
  <2> QED BY <1>5, <2>4 DEF CloseConn, OnlyMux
<1> QED BY <1>1, <1>3, <1>4, <1>5 DEF MuxClosing

LEMMA ReadingTypes ==
  ASSUME SessionInv, NEW e \in Ends, Reading(e), UNCHANGED setting
  PROVE  TypeOK'
<1> USE DEF SessionInv, TypeOK
<1>1. rpc' \in Readers
  BY DEF Reading, ReadEnds, ReadError, ReadClosing, ReadNewConn, ReadBroadcast, ReadNewConnOk, ReadData,
     RGoto, Readers
<1>2. CASE ReadEnds(e) \/ ReadClosing(e) \/ ReadBroadcast(e)
  BY <1>1, <1>2 DEF ReadEnds, ReadClosing, ReadBroadcast
<1>3. CASE ReadError(e)
  <2>1. isClose' \in [Ends -> BOOLEAN] /\ once' \in Onces
    BY <1>3, BeginCloseFacts DEF ReadError
  <2> QED BY <1>1, <1>3, <2>1 DEF ReadError
<1>4. CASE ReadNewConn(e)
  <2>1. sent' \in Wires /\ Head(sent[Peer(e)]["middle"]).conn \in Conns
    BY <1>4, Receiving DEF ReadNewConn, Wires, Classes, Packets
  <2>2. connQueue' \in Seq(Conns)
    BY <1>4, <2>1, AppendProperties DEF ReadNewConn
  <2> QED BY <1>1, <1>4, <2>1, <2>2 DEF ReadNewConn
<1>5. CASE ReadNewConnOk(e)
  <2>1. sent' \in Wires
    BY <1>5, Receiving DEF ReadNewConnOk, Wires, Classes
  <2>2. opening' \in Openings
    BY <1>5 DEF ReadNewConnOk, Openings
  <2> QED BY <1>1, <1>5, <2>1, <2>2 DEF ReadNewConnOk
<1>6. CASE ReadData(e)
  <2>1. sent' \in Wires /\ Head(sent[Peer(e)]["lowest"]).conn \in Conns
    BY <1>6, Receiving DEF ReadData, Wires, Classes, Packets
  <2>2. closingFlag' \in ConnSets
    BY <1>6, <2>1, TypeChanges DEF ReadData, ToldPeerClosed
  <2> QED BY <1>1, <1>6, <2>1, <2>2 DEF ReadData
<1> QED BY <1>2, <1>3, <1>4, <1>5, <1>6 DEF Reading

LEMMA AcceptTypes ==
  ASSUME SessionInv, Accepting \/ AcceptFails, UNCHANGED setting
  PROVE  TypeOK'
<1> USE DEF SessionInv, TypeOK
<1>1. apc' \in Accepters
  BY DEF Accepting, AcceptTop, TryPop, Wait, Wake, AfterWake, Popped, Set, Offer, OfferGivesUp, OkSend, OkPush,
     OkClosing, AcceptFails, NextRound, AGoto, Accepters
<1>2. CASE AcceptTop \/ Wait \/ Wake \/ Popped \/ OfferGivesUp \/ OkSend \/ OkClosing \/ AcceptFails
  BY <1>1, <1>2 DEF AcceptTop, Wait, Wake, Popped, OfferGivesUp, OkSend, OkClosing, AcceptFails, NextRound,
     OnlyAccept
<1>3. CASE TryPop
  <2>1. next' \in Conns \cup {None} /\ connQueue' \in Seq(Conns)
    BY <1>3, HeadTailProperties DEF TryPop
  <2> QED BY <1>1, <1>3, <2>1 DEF TryPop, OnlyAccept
<1>4. CASE Set \/ Offer
  <2>1. next \in Conns
    BY <1>4 DEF AcceptKnown, Set, Offer
  <2>2. [connMap EXCEPT !["B"] = @ \cup {next}] \in ConnSets /\ [handed EXCEPT !["B"] = @ \cup {next}] \in ConnSets
    BY <2>1, Ends_, TypeChanges
  <2>3. CASE Set
    <3>1. connMap' = [connMap EXCEPT !["B"] = @ \cup {next}]
      BY <2>3 DEF Set, SetConn
    <3> QED BY <1>1, <2>2, <2>3, <3>1 DEF Set, OnlyAccept
  <2>4. CASE Offer
    BY <1>1, <2>2, <2>4 DEF Offer, OnlyAccept
  <2> QED BY <1>4, <2>3, <2>4
<1>5. CASE OkPush
  <2>1. next \in Conns /\ "B" \in Ends
    BY <1>5, Ends_ DEF AcceptKnown, OkPush
  <2>2. next' \in Conns \cup {None}
    BY <1>5 DEF OkPush, NextRound
  <2>3. CASE Queue("B", "newConnOk", next)
    <3>1. sent' \in Wires
      BY <2>1, <2>3, Sending DEF Wires, Classes
    <3> QED BY <1>1, <1>5, <2>2, <2>3, <3>1 DEF OkPush, Queue, OnlyAccept
  <2>4. CASE Overflow("B")
    <3>1. isClose' \in [Ends -> BOOLEAN] /\ once' \in Onces /\ UNCHANGED <<todo, sent>>
      BY <2>1, <2>4, BeginCloseFacts DEF Overflow
    <3> QED BY <1>1, <1>5, <2>2, <3>1 DEF OkPush, OnlyAccept
  <2> QED BY <1>5, <2>3, <2>4 DEF OkPush
<1> QED BY <1>2, <1>3, <1>4, <1>5 DEF Accepting

-----------------------------------------------------------------------------
(* What a step leaves alone keeps its part of the invariant.                 *)

LEMMA Kept ==
  ASSUME SessionInv, Grown
  PROVE  /\ \A c \in Conns : BothKnow(c) => BothKnow(c)'
         /\ UNCHANGED opening => OpeningKnown'
         /\ UNCHANGED <<connQueue, apc, next>> => AcceptKnown'
         /\ UNCHANGED <<handed, connOnce>> => UserKnown'
         /\ (\A f \in Ends, k \in Classes : OnWire(f, k)' \subseteq OnWire(f, k)) => WireKnown'
         /\ UNCHANGED sent => WireKnown'
<1> USE Ends_
<1>1. \A c \in Conns : BothKnow(c) => BothKnow(c)'
  BY DEF Grown, BothKnow
<1>2. ASSUME UNCHANGED opening PROVE OpeningKnown'
  BY <1>1, <1>2 DEF SessionInv, OpeningKnown, Grown
<1>3. ASSUME UNCHANGED <<connQueue, apc, next>> PROVE AcceptKnown'
  <2>1. \A i \in 1..Len(connQueue) : connQueue[i] \in Conns
    BY DEF SessionInv, TypeOK
  <2> QED BY <1>3, <2>1 DEF SessionInv, AcceptKnown, Grown
<1>4. ASSUME UNCHANGED <<handed, connOnce>> PROVE UserKnown'
  <2>1. \A e \in Ends : \A c \in handed[e] : c \in Conns
    BY DEF SessionInv, TypeOK, ConnSets
  <2> QED BY <1>1, <1>4, <2>1 DEF SessionInv, UserKnown, Grown
<1>5. ASSUME \A f \in Ends, k \in Classes : OnWire(f, k)' \subseteq OnWire(f, k) PROVE WireKnown'
  <2>1. \A f \in Ends, k \in Classes : \A p \in OnWire(f, k) : p.conn \in Conns
    BY OnWireConns DEF SessionInv
  <2>2. "middle" \in Classes /\ "lowest" \in Classes
    BY DEF Classes
  <2> QED BY <1>1, <1>5, <2>1, <2>2 DEF SessionInv, WireKnown, Grown
<1>6. ASSUME UNCHANGED sent PROVE WireKnown'
  <2>1. \A f \in Ends, k \in Classes : OnWire(f, k)' \subseteq OnWire(f, k)
    BY <1>6, WireKept
  <2> QED BY <1>5, <2>1
<1> QED BY <1>1, <1>2, <1>3, <1>4, <1>5, <1>6

\* A packet about a conn that the rule for its class allows keeps the rule.
LEMMA Sent ==
  ASSUME SessionInv, Grown, NEW e \in Ends, NEW kind, NEW c \in Conns, Queue(e, kind, c),
         \/ e = "A" /\ kind = "newConn" /\ Covered(c)
         \/ e = "B" /\ kind = "newConnOk" /\ BothKnow(c)
         \/ kind \in {"newMsg", "connClose"} /\ BothKnow(c)
  PROVE  WireKnown'
<1> USE Ends_
<1>1. \A f \in Ends, k \in Classes : \A q \in OnWire(f, k)' :
        q \in OnWire(f, k) \/ (f = e /\ k = Class(kind) /\ q = Pkt(kind, c))
  BY Sending DEF SessionInv
<1>2. \A f \in Ends, k \in Classes : \A p \in OnWire(f, k) : p.conn \in Conns
  BY OnWireConns DEF SessionInv
<1>3. "middle" \in Classes /\ "lowest" \in Classes /\ Pkt(kind, c).kind = kind /\ Pkt(kind, c).conn = c
  BY DEF Classes, Pkt
<1>4. \A d \in Conns : (BothKnow(d) => BothKnow(d)') /\ (Covered(d) => Covered(d)')
  BY Kept DEF Grown
<1>5. Class(kind) = IF kind \in {"newConn", "newConnOk"} THEN "middle" ELSE "lowest"
  BY DEF Class
<1>6. \A p \in OnWire("A", "middle")' : p.kind = "newConn" /\ Covered(p.conn)'
  BY <1>1, <1>2, <1>3, <1>4, <1>5 DEF SessionInv, WireKnown
<1>7. \A p \in OnWire("B", "middle")' : p.kind = "newConnOk" /\ BothKnow(p.conn)'
  BY <1>1, <1>2, <1>3, <1>4, <1>5 DEF SessionInv, WireKnown
<1>8. \A f \in Ends : \A p \in OnWire(f, "lowest")' : BothKnow(p.conn)'
  BY <1>1, <1>2, <1>3, <1>4, <1>5 DEF SessionInv, WireKnown
<1> QED BY <1>6, <1>7, <1>8 DEF WireKnown

\* While a mux does not go further in Close than to set its flag, and no conn is
\* set, closed or handed over, its snapshot stays as complete as it was.
LEMMA MuxKept ==
  ASSUME SessionInv, UNCHANGED <<connMap, connOnce, handed, todo>>,
         UNCHANGED <<isClose, once>> \/ \E e \in Ends : BeginClose(e)
  PROVE  Grown /\ MuxFlags' /\ Snapshots'
<1>1. /\ \A f \in Ends : isClose[f] => isClose'[f]
      /\ \A f \in Ends : once'[f] = once[f] \/ (once[f] = "no" /\ once'[f] = "flagged")
      /\ MuxFlags'
  <2>1. CASE UNCHANGED <<isClose, once>>
    BY <2>1 DEF SessionInv, MuxFlags
  <2>2. CASE \E e \in Ends : BeginClose(e)
    BY <2>2, BeginCloseFacts DEF SessionInv
  <2> QED BY <2>1, <2>2
<1>2. Grown
  BY <1>1, Ends_ DEF Grown, Covered, Known, Closed
<1>3. Snapshots'
  BY <1>1, Ends_ DEF SessionInv, Snapshots, Closed
<1> QED BY <1>1, <1>2, <1>3

-----------------------------------------------------------------------------
(* One lemma for each actor: its steps keep the invariant beyond the types.  *)

Beyond == MuxFlags /\ WireKnown /\ OpeningKnown /\ AcceptKnown /\ UserKnown /\ Snapshots

LEMMA OpeningSteps ==
  ASSUME SessionInv, NEW c \in Conns, Opening(c) \/ NewConnTimeout(c)
  PROVE  Beyond'
<1> USE Ends_ DEF OGoto, OnlyOpening
<1>1. opening \in Openings /\ connMap \in ConnSets /\ handed \in ConnSets
  BY DEF SessionInv, TypeOK
<1>2. CASE NewConnSet(c)
  <2>1. /\ connMap' = [connMap EXCEPT !["A"] = @ \cup {c}]
        /\ opening' = [opening EXCEPT ![c] = "send"]
        /\ UNCHANGED <<muxVars, connOnce, handed, connQueue, apc, next, sent>>
    BY <1>2 DEF NewConnSet
  <2>2. Grown /\ Known("A", c)'
    BY <1>1, <2>1 DEF Grown, Covered, Known, Closed, ConnSets
  <2>3. OpeningKnown'
    BY <1>1, <2>1, <2>2, Kept DEF SessionInv, OpeningKnown, Openings, Grown
  <2>4. MuxFlags' /\ Snapshots'
    BY <2>1 DEF SessionInv, MuxFlags, Snapshots, Closed
  <2> QED BY <2>1, <2>2, <2>3, <2>4, Kept DEF Beyond
<1>4. CASE NewConn(c) \/ NewConnSend(c) \/ NewConnClosing(c) \/ NewConnTimeout(c)
  <2>1. Grown /\ MuxFlags' /\ Snapshots'
    BY <1>4, MuxKept DEF NewConn, NewConnSend, NewConnClosing, NewConnTimeout
  <2>2. PICK pc \in {"set", "wait", "push", "error"} :
          /\ opening' = [opening EXCEPT ![c] = pc]
          /\ pc = "push" => opening[c] = "send" /\ ~isClose["A"]
    BY <1>4 DEF NewConn, NewConnSend, NewConnClosing, NewConnTimeout
  <2>3. pc = "push" => Covered(c)
    BY <2>2 DEF SessionInv, OpeningKnown, MuxFlags, Covered
  <2>4. OpeningKnown'
    BY <1>1, <2>1, <2>2, <2>3, Kept DEF SessionInv, OpeningKnown, Openings, Grown
  <2> QED BY <1>4, <2>1, <2>4, Kept DEF NewConn, NewConnSend, NewConnClosing, NewConnTimeout, Beyond
<1>5. CASE NewConnPush(c)
  <2>1. /\ UNCHANGED <<connMap, connOnce, handed, todo, connQueue, apc, next>>
        /\ UNCHANGED <<isClose, once>> \/ BeginClose("A")
        /\ Queue("A", "newConn", c) \/ UNCHANGED sent
    BY <1>5 DEF NewConnPush, Queue, Overflow
  <2>2. Grown /\ MuxFlags' /\ Snapshots'
    BY <2>1, MuxKept
  <2>3. PICK pc \in {"wait", "closing"} : opening' = [opening EXCEPT ![c] = pc]
    BY <1>5 DEF NewConnPush
  <2>4. Covered(c)
    BY <1>5 DEF NewConnPush, SessionInv, OpeningKnown
  <2>5. OpeningKnown'
    BY <1>1, <2>2, <2>3, Kept DEF SessionInv, OpeningKnown, Openings, Grown
  <2>6. WireKnown'
    BY <2>1, <2>2, <2>4, Sent, Kept
  <2> QED BY <2>1, <2>2, <2>5, <2>6, Kept DEF Beyond
<1>6. CASE NewConnOk(c)
  <2>1. /\ opening[c] = "ok" /\ opening' = [opening EXCEPT ![c] = "open"]
        /\ handed' = [handed EXCEPT !["A"] = @ \cup {c}]
        /\ UNCHANGED <<muxVars, connMap, connOnce, sent, connQueue, apc, next>>
    BY <1>6 DEF NewConnOk
  <2>2. BothKnow(c)
    BY <2>1 DEF SessionInv, OpeningKnown
  <2>3. Grown
    BY <1>1, <2>1 DEF Grown, Covered, Known, Closed, ConnSets
  <2>4. OpeningKnown'
    BY <1>1, <2>1, <2>2, <2>3, Kept DEF SessionInv, OpeningKnown, Openings, Grown
  <2>5. \A e \in Ends : \A d \in handed'[e] : d \in handed[e] \/ (e = "A" /\ d = c)
    BY <1>1, <2>1 DEF ConnSets
  <2>6. UserKnown'
    <3>1. \A e \in Ends : \A d \in handed'[e] : d \in Conns /\ BothKnow(d)
      BY <1>1, <2>2, <2>5 DEF SessionInv, UserKnown, ConnSets
    <3> QED BY <2>1, <2>3, <3>1, Kept DEF SessionInv, UserKnown, Grown
  <2>7. MuxFlags'
    BY <2>1 DEF SessionInv, MuxFlags
  <2>8. Snapshots'
    BY <2>1, <2>2, <2>5 DEF SessionInv, Snapshots, Closed, BothKnow, Covered
  <2> QED BY <2>1, <2>3, <2>4, <2>6, <2>7, <2>8, Kept DEF Beyond
<1> QED BY <1>2, <1>4, <1>5, <1>6 DEF Opening

\* A conn that goes on in closeProcess stays closed, whatever else changes.
LEMMA OnceGoes ==
  ASSUME SessionInv, NEW e \in Ends, NEW c \in Conns, NEW pc \in Pcs, pc # "no", COnce(e, c, pc)
  PROVE  /\ \A f \in Ends, d \in Conns : connOnce'[f][d] = IF f = e /\ d = c THEN pc ELSE connOnce[f][d]
         /\ \A f \in Ends, d \in Conns : Closed(f, d) => Closed(f, d)'
         /\ Closed(e, c)'
<1>1. connOnce \in [Ends -> [Conns -> Pcs]] /\ connOnce' = [connOnce EXCEPT ![e] = [connOnce[e] EXCEPT ![c] = pc]]
  BY DEF SessionInv, TypeOK, ConnOnces, COnce, Pcs
<1>2. \A f \in Ends, d \in Conns : connOnce'[f][d] = IF f = e /\ d = c THEN pc ELSE connOnce[f][d]
  BY <1>1
<1> QED BY <1>2 DEF Closed

LEMMA UserSteps ==
  ASSUME SessionInv, NEW e \in Ends, NEW c \in Conns, Write(e, c) \/ ConnClose(e, c) \/ Closing(e, c)
  PROVE  Beyond'
<1> USE Ends_
<1>1. connMap \in ConnSets /\ handed \in ConnSets
  BY DEF SessionInv, TypeOK
<1>2. c \in handed[e] => BothKnow(c)
  BY DEF SessionInv, UserKnown
<1>3. CASE Write(e, c)
  <2>1. Grown /\ MuxFlags' /\ Snapshots'
    BY <1>3, MuxKept DEF Write, Queue, Overflow
  <2>2. WireKnown'
    BY <1>2, <1>3, <2>1, Sent, Kept DEF Write, Overflow
  <2> QED BY <1>3, <2>1, <2>2, Kept DEF Write, Beyond
<1>4. CASE ConnClose(e, c) \/ Closing(e, c)
  <2>1. PICK pc \in Pcs :
          /\ pc # "no" /\ COnce(e, c, pc)
          /\ pc \in {"delete", "check"} => connOnce[e][c] = "delete" \/ c \in handed[e]
          /\ pc = "push" => connOnce[e][c] = "check" /\ ~isClose[e]
    BY <1>4 DEF ConnClose, Closing, CloseDelete, CloseCheck, ClosePush, CloseClosing, Pcs
  <2>2. /\ UNCHANGED <<handed, todo, opening, connQueue, apc, next>>
        /\ UNCHANGED <<isClose, once>> \/ BeginClose(e)
        /\ (Queue(e, "connClose", c) /\ connOnce[e][c] = "push") \/ UNCHANGED sent
        /\ UNCHANGED connMap \/ connMap' = [connMap EXCEPT ![e] = @ \ {c}]
    BY <1>4 DEF ConnClose, Closing, CloseDelete, CloseCheck, ClosePush, CloseClosing, OnlyClosing,
                Queue, Overflow, MapWithout
  <2>3. /\ \A f \in Ends, d \in Conns : connOnce'[f][d] = IF f = e /\ d = c THEN pc ELSE connOnce[f][d]
        /\ \A f \in Ends, d \in Conns : Closed(f, d) => Closed(f, d)'
        /\ Closed(e, c)'
    BY <2>1, OnceGoes
  <2>4. /\ \A f \in Ends : isClose[f] => isClose'[f]
        /\ \A f \in Ends : once'[f] = once[f] \/ (once[f] = "no" /\ once'[f] = "flagged")
        /\ MuxFlags'
    <3>1. CASE UNCHANGED <<isClose, once>>
      BY <3>1 DEF SessionInv, MuxFlags
    <3>2. CASE BeginClose(e)
      BY <3>2, BeginCloseFacts DEF SessionInv
    <3> QED BY <2>2, <3>1, <3>2
  <2>5. \A f \in Ends, d \in Conns :
          /\ d \in connMap[f] => d \in connMap'[f] \/ (f = e /\ d = c)
          /\ d \in connMap'[f] => d \in connMap[f]
    BY <1>1, <2>2 DEF ConnSets
  <2>6. Grown
    BY <2>2, <2>3, <2>4, <2>5 DEF Grown, Covered, Known
  <2>7. UserKnown'
    <3>1. \A f \in Ends : \A d \in handed'[f] : BothKnow(d)'
      BY <1>1, <2>2, <2>6, Kept DEF SessionInv, UserKnown, ConnSets
    <3>2. ASSUME NEW f \in Ends, NEW d \in Conns
          PROVE  /\ connOnce'[f][d] \in {"delete", "check"} => d \in handed'[f] \/ isClose'[f]
                 /\ connOnce'[f][d] = "push" => d \in handed'[f]
      <4>1. CASE f = e /\ d = c
        BY <2>1, <2>2, <2>3, <2>4, <4>1 DEF SessionInv, UserKnown
      <4>2. CASE ~(f = e /\ d = c)
        BY <2>2, <2>3, <2>4, <4>2 DEF SessionInv, UserKnown
      <4> QED BY <4>1, <4>2
    <3> QED BY <3>1, <3>2 DEF UserKnown
  <2>8. Snapshots'
    <3>1. \A f \in Ends : handed[f] \subseteq Conns /\ connMap'[f] \subseteq Conns
      BY <1>1, <2>2 DEF ConnSets
    <3> QED BY <2>2, <2>3, <2>4, <2>5, <3>1 DEF SessionInv, Snapshots
  <2>9. WireKnown'
    <3>1. connOnce[e][c] = "push" => BothKnow(c)
      BY <1>2 DEF SessionInv, UserKnown
    <3> QED BY <2>2, <2>6, <3>1, Sent, Kept
  <2> QED BY <2>2, <2>4, <2>6, <2>7, <2>8, <2>9, Kept DEF Beyond
<1> QED BY <1>3, <1>4

LEMMA MuxSteps ==
  ASSUME SessionInv, NEW e \in Ends, Close(e) \/ MuxClosing(e)
  PROVE  Beyond'
<1> USE Ends_
<1>1. connMap \in ConnSets /\ handed \in ConnSets /\ todo \in ConnSets /\ once \in Onces
  BY DEF SessionInv, TypeOK
<1>2. CASE Close(e)
  <2>1. Grown /\ MuxFlags' /\ Snapshots'
    BY <1>2, MuxKept DEF Close
  <2> QED BY <1>2, <2>1, Kept DEF Close, Beyond
<1>3. CASE CloseConn(e)
  <2>1. PICK c \in todo[e] :
          \/ COnce(e, c, "delete") /\ UNCHANGED todo
          \/ connOnce[e][c] = "done" /\ todo' = [todo EXCEPT ![e] = @ \ {c}] /\ UNCHANGED connOnce
    BY <1>3 DEF CloseConn
  <2>2. c \in Conns
    BY <1>1 DEF ConnSets
  <2>3. once[e] = "conns" /\ UNCHANGED <<isClose, once, connMap, handed, sent, opening, connQueue, apc, next>>
    BY <1>3 DEF CloseConn, OnlyMux
  <2>4. MuxFlags' /\ isClose[e]
    BY <2>3 DEF SessionInv, MuxFlags
  <2>5. CASE COnce(e, c, "delete") /\ UNCHANGED todo
    <3>1. /\ \A f \in Ends, d \in Conns :
               connOnce'[f][d] = IF f = e /\ d = c THEN "delete" ELSE connOnce[f][d]
          /\ \A f \in Ends, d \in Conns : Closed(f, d) => Closed(f, d)'
      BY <2>2, <2>5, OnceGoes DEF Pcs
    <3>2. Grown
      BY <2>3, <2>5, <3>1 DEF Grown, Covered, Known
    <3>3. \A f \in Ends : \A d \in handed'[f] : BothKnow(d)'
      BY <1>1, <2>3, <3>2, Kept DEF SessionInv, UserKnown, ConnSets
    <3>4. UserKnown'
      BY <2>3, <2>4, <3>1, <3>3 DEF SessionInv, UserKnown
    <3>5. Snapshots'
      BY <1>1, <2>3, <2>5, <3>1 DEF SessionInv, Snapshots, ConnSets
    <3> QED BY <2>3, <2>4, <3>2, <3>4, <3>5, Kept DEF Beyond
  <2>6. CASE connOnce[e][c] = "done" /\ todo' = [todo EXCEPT ![e] = @ \ {c}] /\ UNCHANGED connOnce
    <3>2. /\ \A f \in Ends : f # e => todo'[f] = todo[f]
          /\ todo'[e] = todo[e] \ {c}
      BY <1>1, <2>6 DEF ConnSets
    <3>1. Grown
      BY <2>3, <2>6, <3>2 DEF Grown, Covered, Known, Closed
    <3>3. Snapshots'
      BY <2>3, <2>6, <3>2 DEF SessionInv, Snapshots, Closed
    <3> QED BY <2>3, <2>4, <2>6, <3>1, <3>3, Kept DEF Beyond
  <2> QED BY <2>1, <2>5, <2>6
<1>4. CASE CloseDone(e) \/ Snapshot(e) \/ CloseTunnel(e)
  <2>1. PICK pc \in {"signalled", "conns", "done"} :
          /\ once' = [once EXCEPT ![e] = pc] /\ once[e] # "no"
          /\ pc = "conns" => todo' = [todo EXCEPT ![e] = connMap[e]]
          /\ pc # "conns" => UNCHANGED todo
          /\ pc = "done" => todo[e] = {} /\ once[e] = "conns"
    BY <1>4 DEF CloseDone, Snapshot, CloseTunnel, MGoto
  <2>2. UNCHANGED <<isClose, connMap, connOnce, handed, sent, opening, connQueue, apc, next>>
    BY <1>4 DEF CloseDone, Snapshot, CloseTunnel, OnlyMux
  <2>3. \A f \in Ends : once'[f] = IF f = e THEN pc ELSE once[f]
    BY <1>1, <2>1 DEF Onces
  <2>4. \A f \in Ends : todo'[f] = IF f = e /\ pc = "conns" THEN connMap[f] ELSE todo[f]
    BY <1>1, <2>1 DEF ConnSets
  <2>5. Grown
    BY <2>1, <2>2, <2>3, <2>4 DEF Grown, Covered, Known, Closed
  <2>6. MuxFlags'
    BY <2>1, <2>2, <2>3 DEF SessionInv, MuxFlags
  <2>7. \A f \in Ends : \A c \in handed[f] : c \in connMap[f] \/ Closed(f, c)
    BY DEF SessionInv, UserKnown, BothKnow, Covered, Known
  <2>8. Snapshots'
    <3>1. ASSUME NEW f \in Ends, once'[f] \in {"conns", "done"}, NEW c \in handed'[f]
          PROVE  c \in todo'[f] \/ Closed(f, c)'
      BY <2>1, <2>2, <2>3, <2>4, <2>7, <3>1 DEF SessionInv, Snapshots, Closed
    <3>3. ASSUME NEW f \in Ends, once'[f] = "done"
          PROVE  todo'[f] = {}
      BY <2>1, <2>3, <2>4, <3>3 DEF SessionInv, Snapshots
    <3> QED BY <3>1, <3>3 DEF Snapshots
  <2> QED BY <2>2, <2>5, <2>6, <2>8, Kept DEF Beyond
<1> QED BY <1>2, <1>3, <1>4 DEF MuxClosing

LEMMA ReadingSteps ==
  ASSUME SessionInv, NEW e \in Ends, Reading(e)
  PROVE  Beyond'
<1> USE Ends_
<1>1. UNCHANGED <<connMap, connOnce, handed, todo>> /\ (UNCHANGED <<isClose, once>> \/ BeginClose(e))
  BY DEF Reading, ReadEnds, ReadError, ReadClosing, ReadNewConn, ReadBroadcast, ReadNewConnOk, ReadData
<1>2. Grown /\ MuxFlags' /\ Snapshots' /\ UserKnown'
  BY <1>1, MuxKept, Kept
<1>3. TypeOK /\ "middle" \in Classes /\ "lowest" \in Classes
  BY DEF SessionInv, Classes
<1>4. CASE ReadEnds(e) \/ ReadError(e) \/ ReadClosing(e) \/ ReadBroadcast(e)
  <2>1. UNCHANGED <<sent, opening, connQueue, apc, next>>
    BY <1>4 DEF ReadEnds, ReadError, ReadClosing, ReadBroadcast
  <2> QED BY <1>2, <2>1, Kept DEF Beyond
<1>5. CASE ReadNewConn(e)
  <2> DEFINE p == Head(sent[Peer(e)]["middle"])
  <2>1. Receive(e, "middle") /\ p.kind = "newConn" /\ connQueue' = Append(connQueue, p.conn)
        /\ UNCHANGED <<opening, apc, next>>
    BY <1>5 DEF ReadNewConn
  <2>2. p \in OnWire(Peer(e), "middle") /\ p \in Packets
    BY <1>3, <2>1, Receiving
  <2>3. WireKnown'
    BY <1>2, <1>3, <2>1, Receiving, Kept
  <2>4. p.conn \in Conns /\ Covered(p.conn)
    BY <2>1, <2>2 DEF SessionInv, WireKnown, Packets, Ends, BothKnow
  <2>5. connQueue \in Seq(Conns)
    BY <1>3 DEF TypeOK
  <2> HIDE DEF p
  <2>6. \A i \in 1..Len(connQueue') : connQueue'[i] \in Conns /\ Covered(connQueue'[i])
    <3>1. Len(connQueue') = Len(connQueue) + 1 /\ Len(connQueue) \in Nat
      BY <2>1, <2>4, <2>5, AppendProperties, LenProperties
    <3>2. connQueue'[Len(connQueue) + 1] = p.conn
      BY <2>1, <2>4, <2>5, AppendProperties
    <3>3. \A i \in 1..Len(connQueue) : connQueue'[i] = connQueue[i]
      BY <2>1, <2>4, <2>5, AppendProperties
    <3>4. \A i \in 1..Len(connQueue) : connQueue[i] \in Conns
      BY <2>5, ElementOfSeq
    <3>5. \A i \in 1..Len(connQueue) : Covered(connQueue[i])
      BY DEF SessionInv, AcceptKnown
    <3> QED BY <2>4, <3>1, <3>2, <3>3, <3>4, <3>5
  <2>7. AcceptKnown'
    BY <1>2, <2>1, <2>6 DEF SessionInv, AcceptKnown, Grown
  <2> QED BY <1>2, <2>1, <2>3, <2>7, Kept DEF Beyond
<1>6. CASE ReadNewConnOk(e)
  <2> DEFINE p == Head(sent[Peer(e)]["middle"])
  <2>1. /\ Receive(e, "middle") /\ p.kind = "newConnOk"
        /\ opening' = opening \/ (opening[p.conn] = "wait" /\ opening' = [opening EXCEPT ![p.conn] = "ok"])
        /\ UNCHANGED <<connQueue, apc, next>>
    BY <1>6 DEF ReadNewConnOk
  <2>2. p \in OnWire(Peer(e), "middle") /\ p \in Packets
    BY <1>3, <2>1, Receiving
  <2>3. WireKnown'
    BY <1>2, <1>3, <2>1, Receiving, Kept
  <2>4. p.conn \in Conns /\ BothKnow(p.conn)
    BY <2>1, <2>2 DEF SessionInv, WireKnown, Packets, Ends
  <2>5. opening \in Openings
    BY <1>3 DEF TypeOK
  <2> HIDE DEF p
  <2>6. OpeningKnown'
    BY <1>2, <2>1, <2>4, <2>5, Kept DEF SessionInv, OpeningKnown, Openings, Grown
  <2> QED BY <1>2, <2>1, <2>3, <2>6, Kept DEF Beyond
<1>7. CASE ReadData(e)
  <2>1. Receive(e, "lowest") /\ UNCHANGED <<opening, connQueue, apc, next>>
    BY <1>7 DEF ReadData
  <2>2. WireKnown'
    BY <1>2, <1>3, <2>1, Receiving, Kept
  <2> QED BY <1>2, <2>1, <2>2, Kept DEF Beyond
<1> QED BY <1>4, <1>5, <1>6, <1>7 DEF Reading

LEMMA AcceptSteps ==
  ASSUME SessionInv, Accepting \/ AcceptFails
  PROVE  Beyond'
<1> USE Ends_ DEF AGoto, OnlyAccept
<1>1. connMap \in ConnSets /\ handed \in ConnSets /\ connQueue \in Seq(Conns)
  BY DEF SessionInv, TypeOK
<1>2. CASE AcceptTop \/ Wait \/ Wake \/ Popped \/ OfferGivesUp \/ OkSend \/ OkClosing \/ AcceptFails
  <2>1. UNCHANGED <<connMap, connOnce, handed, todo, isClose, once, sent, opening, connQueue>>
    BY <1>2 DEF AcceptTop, Wait, Wake, Popped, OfferGivesUp, OkSend, OkClosing, AcceptFails
  <2>2. Grown /\ MuxFlags' /\ Snapshots'
    BY <2>1, MuxKept
  <2>3. \/ apc' \in {"top", "try", "exit", "asleep"}
        \/ apc' = "popped" /\ isClose["B"]
        \/ apc' = "set" /\ apc = "popped" /\ ~isClose["B"] /\ UNCHANGED next
        \/ apc' = "push" /\ apc = "send" /\ UNCHANGED next
        \/ UNCHANGED <<apc, next>>
    BY <1>2 DEF AcceptTop, Wait, Wake, AfterWake, Popped, OfferGivesUp, OkSend, OkClosing, AcceptFails,
                NextRound, Released, SessionInv, MuxFlags
  <2>4. AcceptKnown'
    <3>1. \A i \in 1..Len(connQueue) : connQueue[i] \in Conns
      BY <1>1, ElementOfSeq
    <3> QED BY <2>1, <2>2, <2>3, <3>1 DEF SessionInv, AcceptKnown, Grown
  <2> QED BY <2>1, <2>2, <2>4, Kept DEF Beyond
<1>3. CASE TryPop
  <2>1. UNCHANGED <<connMap, connOnce, handed, todo, isClose, once, sent, opening>>
    BY <1>3 DEF TryPop
  <2>2. Grown /\ MuxFlags' /\ Snapshots'
    BY <2>1, MuxKept
  <2>3. \A i \in 1..Len(connQueue) : connQueue[i] \in Conns /\ Covered(connQueue[i])
    BY <1>1, ElementOfSeq DEF SessionInv, AcceptKnown
  <2>4. CASE connQueue # <<>>
    <3>1. next' = connQueue[1] /\ connQueue' = Tail(connQueue) /\ apc' = "popped"
      BY <1>1, <1>3, <2>4, HeadTailProperties DEF TryPop
    <3>2. /\ Len(connQueue') = Len(connQueue) - 1 /\ Len(connQueue) \in Nat \ {0}
          /\ \A i \in 1..Len(connQueue') : connQueue'[i] = connQueue[i + 1]
      BY <1>1, <2>4, <3>1, HeadTailProperties, LenProperties, EmptySeq
    <3>3. \A i \in 1..Len(connQueue') : connQueue'[i] \in Conns /\ Covered(connQueue'[i])
      BY <2>3, <3>2
    <3>4. next' \in Conns /\ Covered(next')
      BY <2>3, <3>1, <3>2
    <3>5. AcceptKnown'
      BY <2>2, <3>1, <3>3, <3>4 DEF AcceptKnown, Grown
    <3> QED BY <2>1, <2>2, <3>5, Kept DEF Beyond
  <2>5. CASE connQueue = <<>>
    <3>1. apc' = "wait" /\ UNCHANGED <<connQueue, next>>
      BY <1>3, <2>5 DEF TryPop
    <3>2. AcceptKnown'
      BY <2>2, <2>3, <3>1 DEF AcceptKnown, Grown
    <3> QED BY <2>1, <2>2, <3>2, Kept DEF Beyond
  <2> QED BY <2>4, <2>5
<1>4. CASE Set \/ Offer
  <2>1. /\ next \in Conns /\ Covered(next) /\ UNCHANGED <<connQueue, next>>
        /\ apc' = "offer" \/ (apc' = "send" /\ apc = "offer" /\ Known("B", next))
        /\ UNCHANGED <<connOnce, todo, isClose, once, sent, opening>>
    BY <1>4 DEF Set, Offer, SessionInv, AcceptKnown
  <2>2. \A i \in 1..Len(connQueue) : connQueue[i] \in Conns /\ Covered(connQueue[i])
    BY <1>1, ElementOfSeq DEF SessionInv, AcceptKnown
  <2>3. MuxFlags'
    BY <2>1 DEF SessionInv, MuxFlags
  <2>4. CASE Set
    <3>1. connMap' = [connMap EXCEPT !["B"] = @ \cup {next}] /\ UNCHANGED handed /\ apc' = "offer"
      BY <2>4 DEF Set, SetConn
    <3>2. Grown /\ Known("B", next)' /\ connMap'["A"] = connMap["A"]
      BY <1>1, <2>1, <3>1 DEF Grown, Covered, Known, Closed, ConnSets
    <3>3. Snapshots'
      BY <2>1, <3>1, <3>2 DEF SessionInv, Snapshots, Closed
    <3>4. AcceptKnown'
      BY <2>1, <2>2, <3>1, <3>2 DEF AcceptKnown, Grown
    <3> QED BY <2>1, <2>3, <3>1, <3>2, <3>3, <3>4, Kept DEF Beyond
  <2>5. CASE Offer
    <3>1. /\ handed' = [handed EXCEPT !["B"] = @ \cup {next}] /\ UNCHANGED connMap
          /\ apc' = "send" /\ apc = "offer" /\ ~Done("B")
      BY <2>5 DEF Offer, OfferOpen
    <3>2. BothKnow(next)
      BY <2>1, <3>1 DEF SessionInv, AcceptKnown, BothKnow
    <3>3. \A f \in Ends : \A c \in handed'[f] : c \in handed[f] \/ (f = "B" /\ c = next)
      BY <1>1, <3>1 DEF ConnSets
    <3>4. Grown
      BY <1>1, <2>1, <3>1 DEF Grown, Covered, Known, Closed, ConnSets
    <3>5. \A f \in Ends : \A c \in handed'[f] : c \in Conns /\ BothKnow(c)
      BY <1>1, <2>1, <3>2, <3>3 DEF SessionInv, UserKnown, ConnSets
    <3>6. UserKnown'
      BY <2>1, <3>4, <3>5, Kept DEF SessionInv, UserKnown, Grown
    <3>7. Snapshots'
      BY <2>1, <3>1, <3>3 DEF SessionInv, Snapshots, Closed, Done
    <3>8. AcceptKnown'
      BY <2>1, <2>2, <3>1, <3>2, <3>4 DEF AcceptKnown, Grown, BothKnow
    <3> QED BY <2>1, <2>3, <3>4, <3>6, <3>7, <3>8, Kept DEF Beyond
  <2> QED BY <1>4, <2>4, <2>5
<1>5. CASE OkPush
  <2>1. /\ UNCHANGED <<connMap, connOnce, handed, todo, opening, connQueue>>
        /\ UNCHANGED <<isClose, once>> \/ BeginClose("B")
        /\ Queue("B", "newConnOk", next) \/ UNCHANGED sent
        /\ apc' = "top" \/ (apc' = "closing" /\ UNCHANGED next)
    BY <1>5 DEF OkPush, Queue, Overflow, NextRound
  <2>2. Grown /\ MuxFlags' /\ Snapshots'
    BY <2>1, MuxKept
  <2>3. next \in Conns /\ BothKnow(next)
    BY <1>5 DEF OkPush, SessionInv, AcceptKnown, BothKnow
  <2>4. WireKnown'
    BY <2>1, <2>2, <2>3, Sent, Kept
  <2>5. AcceptKnown'
    <3>1. \A i \in 1..Len(connQueue) : connQueue[i] \in Conns /\ Covered(connQueue[i])
      BY <1>1, ElementOfSeq DEF SessionInv, AcceptKnown
    <3> QED BY <2>1, <2>2, <2>3, <3>1 DEF AcceptKnown, Grown, BothKnow
  <2> QED BY <2>1, <2>2, <2>4, <2>5, Kept DEF Beyond
<1> QED BY <1>2, <1>3, <1>4, <1>5 DEF Accepting

-----------------------------------------------------------------------------
(* The theorems.                                                             *)

LEMMA InitInv == Init => SessionInv
<1> SUFFICES ASSUME Init PROVE SessionInv
  OBVIOUS
<1> USE DEF Init
<1>1. TypeOK
  <2>1. sent \in Wires /\ connQueue \in Seq(Conns)
    BY DEF Wires
  <2>2. connOnce \in ConnOnces /\ opening \in Openings /\ rpc \in Readers /\ once \in Onces
    BY DEF ConnOnces, Openings, Readers, Onces
  <2>3. todo \in ConnSets /\ connMap \in ConnSets /\ closingFlag \in ConnSets /\ handed \in ConnSets
        /\ wrote \in ConnSets
    BY DEF ConnSets
  <2> QED BY <2>1, <2>2, <2>3 DEF TypeOK, Accepters
<1>2. \A f \in Ends, k \in Classes : OnWire(f, k) = {}
  <2>1. \A f \in Ends, k \in Classes : sent[f][k] = <<>>
    BY DEF Classes
  <2> QED BY <2>1 DEF OnWire
<1>3. MuxFlags /\ Snapshots
  BY Ends_ DEF MuxFlags, Snapshots
<1>4. WireKnown
  BY <1>2, Ends_ DEF WireKnown, Classes
<1>5. OpeningKnown /\ AcceptKnown /\ UserKnown
  BY DEF OpeningKnown, AcceptKnown, UserKnown
<1> QED BY <1>1, <1>3, <1>4, <1>5 DEF SessionInv

LEMMA StepInv == SessionInv /\ [Next]_vars => SessionInv'
<1> SUFFICES ASSUME SessionInv, [Next]_vars PROVE SessionInv'
  OBVIOUS
<1>1. CASE UNCHANGED vars
  <2>1. TypeOK'
    BY <1>1 DEF SessionInv, TypeOK, vars
  <2>2. Grown /\ MuxFlags' /\ Snapshots'
    BY <1>1, MuxKept DEF vars
  <2>3. OpeningKnown' /\ AcceptKnown' /\ UserKnown' /\ WireKnown'
    BY <1>1, <2>2, Kept DEF vars
  <2> QED BY <2>1, <2>2, <2>3 DEF SessionInv
<1>2. CASE Step /\ UNCHANGED setting
  <2>1. ASSUME NEW c \in Conns, Opening(c) \/ NewConnTimeout(c) PROVE SessionInv'
    BY <1>2, <2>1, OpeningTypes, OpeningSteps DEF SessionInv, Beyond
  <2>2. ASSUME NEW e \in Ends, NEW c \in Conns, Write(e, c) \/ ConnClose(e, c) \/ Closing(e, c) PROVE SessionInv'
    BY <1>2, <2>2, UserTypes, UserSteps DEF SessionInv, Beyond
  <2>3. ASSUME NEW e \in Ends, Close(e) \/ MuxClosing(e) PROVE SessionInv'
    BY <1>2, <2>3, MuxTypes, MuxSteps DEF SessionInv, Beyond
  <2>4. ASSUME NEW e \in Ends, Reading(e) PROVE SessionInv'
    BY <1>2, <2>4, ReadingTypes, ReadingSteps DEF SessionInv, Beyond
  <2>5. ASSUME Accepting \/ AcceptFails PROVE SessionInv'
    BY <1>2, <2>5, AcceptTypes, AcceptSteps DEF SessionInv, Beyond
  <2> QED BY <1>2, <2>1, <2>2, <2>3, <2>4, <2>5 DEF Step, GoesOn
<1> QED BY <1>1, <1>2 DEF Next, Rest

LEMMA AlwaysInv == Spec => []SessionInv
BY InitInv, StepInv, PTL DEF Spec

\* Every variable keeps its type, with any number of conns and whatever the users
\* and the network may do (mux.go:101 NewConn, :253 readSession, :372 Close)
THEOREM SessionTyped == Spec => []TypeOK
BY AlwaysInv, PTL DEF SessionInv

\* Data and the news of closing always find their conn at the other end, or an end
\* that has closed it: the accepting end sets the conn before it answers (mux.go:264),
\* and the opening end hands it out only when answered
THEOREM MessagesFindConn == Spec => []DataFindsConn
<1>1. SessionInv => DataFindsConn
  <2> SUFFICES ASSUME SessionInv, NEW e \in Ends, NEW i \in 1..Len(sent[Peer(e)]["lowest"])
               PROVE  Known(e, sent[Peer(e)]["lowest"][i].conn)
    BY DEF DataFindsConn, Known
  <2>1. sent[Peer(e)]["lowest"][i] \in OnWire(Peer(e), "lowest") /\ Peer(e) \in Ends
    BY Ends_ DEF OnWire
  <2>2. BothKnow(sent[Peer(e)]["lowest"][i].conn)
    BY <2>1 DEF SessionInv, WireKnown
  <2> QED BY <2>2 DEF BothKnow, Covered, Ends
<1> QED BY <1>1, AlwaysInv, PTL

\* Once Mux.Close is through (map.go:53), its user holds no open conn and will get
\* none: what is handed over was set before the snapshot, and is in it or deleted
THEOREM NoConnLeftOpen == Spec => []AllConnsClosed
<1>1. SessionInv => AllConnsClosed
  BY DEF SessionInv, Snapshots, AllConnsClosed
<1> QED BY <1>1, AlwaysInv, PTL

=============================================================================
