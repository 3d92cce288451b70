------------------------------ MODULE MuxSession ------------------------------
(***************************************************************************)
(* Two muxes over one tunnel (Mux of lib/natpunch_mux/mux.go, its connMap  *)
(* and its connQueue): A opens connections with NewConn, B accepts them.   *)
(* How connections come to be on both ends, how one is closed, and how a   *)
(* mux is closed with all of them.  What a connection carries is in        *)
(* MuxStream; here it may send one message per end.                        *)
(***************************************************************************)
EXTENDS Naturals, Sequences, FiniteSets

CONSTANTS
  Conns,   \* the connections, named by their ids, which getId keeps apart
  Settings \* what the users and the network may do, each a record of
           \*   opens: the connections that A opens
           \*   muxClosers: ends whose mux the user or a failing tunnel may close
           \*   connClosers: ends whose user may close a connection
           \*   overflows: ends where the write queue may be full
           \*   timeouts: whether NewConn's timer of two minutes may fire

Ends == {"A", "B"}
Peer(e) == IF e = "A" THEN "B" ELSE "A"
ASSUME MuxSessionAssumption ==
  Settings \subseteq [opens : SUBSET Conns, muxClosers : SUBSET Ends,
                      connClosers : SUBSET Ends, overflows : SUBSET Ends, timeouts : BOOLEAN]

VARIABLES
  setting,              \* the one of the Settings that this behaviour follows
  isClose, once, todo,  \* each Mux: flag, progress of Close, its snapshot
  connMap,              \* each Mux: the ids in its map
  connOnce,             \* each conn of each end: progress of closeProcess
  closingFlag,          \* each end: conns that the peer has closed
  handed, wrote,        \* each end: conns its user got, those it has written to
  sent,                 \* each end: packets on their way, by class
  rpc,                  \* each end: readSession
  opening,              \* A: progress of each NewConn
  connQueue, waiting,   \* B: conns not yet accepted; Pop sleeps in cond.Wait
  apc, next,            \* B: the accepting goroutine of readSession, its conn
  accepting             \* B: its user calls Accept again and again

muxVars == <<isClose, once, todo>>
connVars == <<connOnce, closingFlag, handed, wrote>>
acceptVars == <<connQueue, waiting, apc, next, accepting>>
vars == <<setting, muxVars, connMap, connVars, sent, rpc, opening, acceptVars>>

None == "none"
Pkt(kind, c) == [kind |-> kind, conn |-> c]
\* priorityQueue.push: news of connections go before data and closing
Class(kind) == IF kind \in {"newConn", "newConnOk"} THEN "middle" ELSE "lowest"

Init ==
  /\ setting \in Settings
  /\ isClose = [e \in Ends |-> FALSE] /\ once = [e \in Ends |-> "no"]
  /\ todo = [e \in Ends |-> {}] /\ connMap = [e \in Ends |-> {}]
  /\ connOnce = [e \in Ends |-> [c \in Conns |-> "no"]]
  /\ closingFlag = [e \in Ends |-> {}]
  /\ handed = [e \in Ends |-> {}] /\ wrote = [e \in Ends |-> {}]
  /\ sent = [e \in Ends |-> [k \in {"middle", "lowest"} |-> <<>>]]
  /\ rpc = [e \in Ends |-> "unpack"]
  /\ opening = [c \in Conns |-> "no"]
  /\ connQueue = <<>> /\ waiting = FALSE
  /\ apc = "top" /\ next = None /\ accepting = TRUE

\* conn.isClose is the first thing closeProcess sets
Closed(e, c) == connOnce[e][c] # "no"
\* Mux.Close has come past close(done)
Done(e) == once[e] \notin {"no", "flagged"}

\* Mux.Close is through
Released(e) == once[e] = "done"

\* closeOnce.Do by anyone: the first runs Close
BeginClose(e) ==
  IF once[e] = "no" THEN /\ once' = [once EXCEPT ![e] = "flagged"]
                         /\ isClose' = [isClose EXCEPT ![e] = TRUE]
  ELSE UNCHANGED <<once, isClose>>

\* the end of sendInfo: the packet is queued, or the queue is full and the mux closes
Queue(e, kind, c) ==
  /\ sent' = [sent EXCEPT ![e][Class(kind)] = Append(@, Pkt(kind, c))]
  /\ UNCHANGED muxVars
Overflow(e) == e \in setting.overflows /\ BeginClose(e) /\ UNCHANGED <<todo, sent>>

-----------------------------------------------------------------------------
(* Mux.NewConn, one goroutine per connection                                *)

OGoto(c, pc) == opening' = [opening EXCEPT ![c] = pc]
OnlyOpening == UNCHANGED <<connVars, rpc, acceptVars>>

\* isClose, ...
NewConn(c) ==
  /\ c \in setting.opens /\ opening[c] = "no"
  /\ OGoto(c, IF isClose["A"] THEN "error" ELSE "set")
  /\ OnlyOpening /\ UNCHANGED <<muxVars, connMap, sent>>

\* ... then getId and connMap.Set, perhaps after Mux.Close has taken its snapshot
NewConnSet(c) ==
  /\ opening[c] = "set"
  /\ OGoto(c, "send") /\ connMap' = [connMap EXCEPT !["A"] = @ \cup {c}]
  /\ OnlyOpening /\ UNCHANGED <<muxVars, sent>>

\* sendInfo(muxNewConn): isClose, then the push
NewConnSend(c) ==
  /\ opening[c] = "send"
  /\ OGoto(c, IF isClose["A"] THEN "wait" ELSE "push")
  /\ OnlyOpening /\ UNCHANGED <<muxVars, connMap, sent>>

NewConnPush(c) ==
  /\ opening[c] = "push"
  /\ \/ Queue("A", "newConn", c) /\ OGoto(c, "wait")
     \/ Overflow("A") /\ OGoto(c, "closing")
  /\ OnlyOpening /\ UNCHANGED connMap

NewConnClosing(c) ==
  /\ opening[c] = "closing" /\ Released("A")
  /\ OGoto(c, "wait")
  /\ OnlyOpening /\ UNCHANGED <<muxVars, connMap, sent>>

\* connStatusOkCh has a signal
NewConnOk(c) ==
  /\ opening[c] = "ok"
  /\ OGoto(c, "open") /\ handed' = [handed EXCEPT !["A"] = @ \cup {c}]
  /\ UNCHANGED <<muxVars, connMap, connOnce, closingFlag, wrote, sent, rpc, acceptVars>>

\* the timer fires: NewConn gives up and leaves the conn in the map
NewConnTimeout(c) ==
  /\ setting.timeouts /\ opening[c] \in {"wait", "ok"}
  /\ OGoto(c, "error")
  /\ OnlyOpening /\ UNCHANGED <<muxVars, connMap, sent>>

Opening(c) ==
  NewConn(c) \/ NewConnSet(c) \/ NewConnSend(c) \/ NewConnPush(c) \/ NewConnClosing(c)
  \/ NewConnOk(c)

-----------------------------------------------------------------------------
(* The users' calls on their connections                                    *)

\* conn.Write: its segment reaches the write queue, or closes the mux
Write(e, c) ==
  /\ c \in handed[e] \ wrote[e]
  /\ ~Closed(e, c) /\ c \notin closingFlag[e] /\ ~isClose[e]
  /\ Queue(e, "newMsg", c) \/ Overflow(e)
  /\ wrote' = [wrote EXCEPT ![e] = @ \cup {c}]
  /\ UNCHANGED <<connMap, connOnce, closingFlag, handed, rpc, opening, acceptVars>>

COnce(e, c, pc) == connOnce' = [connOnce EXCEPT ![e][c] = pc]
OnlyClosing == UNCHANGED <<closingFlag, handed, wrote, rpc, opening, acceptVars>>

\* conn.Close by the user; Mux.Close comes to it through connMap.Close
ConnClose(e, c) ==
  /\ e \in setting.connClosers /\ c \in handed[e] /\ connOnce[e][c] = "no"
  /\ COnce(e, c, "delete")
  /\ OnlyClosing /\ UNCHANGED <<muxVars, connMap, sent>>

\* closeProcess deletes the conn from the map before it asks whether the mux is
\* closed: a mux closing now either has it in its snapshot or is seen closed
MapKept(e, c) == connMap[e]
MapWithout(e, c) == connMap[e] \ {c}
CloseDelete(e, c) ==
  /\ connOnce[e][c] = "delete"
  /\ connMap' = [connMap EXCEPT ![e] = MapWithout(e, c)]
  /\ COnce(e, c, "check")
  /\ OnlyClosing /\ UNCHANGED <<muxVars, sent>>

\* mux.IsClose, then the same test in sendInfo
CloseCheck(e, c) ==
  /\ connOnce[e][c] = "check"
  /\ COnce(e, c, IF isClose[e] THEN "done" ELSE "push")
  /\ OnlyClosing /\ UNCHANGED <<muxVars, connMap, sent>>

\* muxConnClose; then the windows are closed
ClosePush(e, c) ==
  /\ connOnce[e][c] = "push"
  /\ \/ Queue(e, "connClose", c) /\ COnce(e, c, "done")
     \/ Overflow(e) /\ COnce(e, c, "closing")
  /\ OnlyClosing /\ UNCHANGED connMap

CloseClosing(e, c) ==
  /\ connOnce[e][c] = "closing" /\ Released(e)
  /\ COnce(e, c, "done")
  /\ OnlyClosing /\ UNCHANGED <<muxVars, connMap, sent>>

Closing(e, c) ==
  CloseDelete(e, c) \/ CloseCheck(e, c) \/ ClosePush(e, c) \/ CloseClosing(e, c)

-----------------------------------------------------------------------------
(* Mux.Close                                                                *)

\* by its user, or because a ping or a write failed
Close(e) ==
  /\ e \in setting.muxClosers /\ once[e] = "no" /\ BeginClose(e)
  /\ UNCHANGED <<todo, connMap, connVars, sent, rpc, opening, acceptVars>>

MGoto(e, pc) == once' = [once EXCEPT ![e] = pc]
OnlyMux == UNCHANGED <<isClose, connMap, closingFlag, handed, wrote, sent, rpc, opening>>

\* close(done): everyone who selects on it gives up
CloseDone(e) ==
  /\ once[e] = "flagged" /\ MGoto(e, "signalled")
  /\ OnlyMux /\ UNCHANGED <<todo, connOnce, acceptVars>>

\* connMap.Close copies the map, then closes each conn of the copy
Snapshot(e) ==
  /\ once[e] = "signalled" /\ MGoto(e, "conns")
  /\ todo' = [todo EXCEPT ![e] = connMap[e]]
  /\ OnlyMux /\ UNCHANGED <<connOnce, acceptVars>>

\* v.Close: runs closeProcess, or waits for the goroutine that does
CloseConn(e) ==
  /\ once[e] = "conns"
  /\ \E c \in todo[e] :
       \/ /\ connOnce[e][c] = "no"
          /\ \A d \in todo[e] : connOnce[e][d] \in {"no", "done"}
          /\ COnce(e, c, "delete") /\ UNCHANGED todo
       \/ /\ connOnce[e][c] = "done"
          /\ todo' = [todo EXCEPT ![e] = @ \ {c}] /\ UNCHANGED connOnce
  /\ OnlyMux /\ UNCHANGED <<once, acceptVars>>

\* the tunnel is closed, and release stops the queues: Pop, which looks at stop
\* and sleeps under the lock (WriteQueue), sees it or wakes
CloseTunnel(e) ==
  /\ once[e] = "conns" /\ todo[e] = {} /\ MGoto(e, "done")
  /\ waiting' = IF e = "B" THEN FALSE ELSE waiting
  /\ OnlyMux /\ UNCHANGED <<todo, connOnce, connQueue, apc, next, accepting>>

MuxClosing(e) ==
  CloseDone(e) \/ Snapshot(e) \/ CloseConn(e) \/ CloseTunnel(e)

-----------------------------------------------------------------------------
(* Mux.readSession: the goroutine that reads packets                        *)

RGoto(e, pc) == rpc' = [rpc EXCEPT ![e] = pc]

\* the test of isClose at the top of the loop, unless a packet is read after it
ReadEnds(e) ==
  /\ rpc[e] = "unpack" /\ isClose[e]
  /\ RGoto(e, "exit")
  /\ UNCHANGED <<muxVars, connMap, connVars, sent, opening, acceptVars>>

\* UnPack fails once either end has closed the tunnel
ReadError(e) ==
  /\ rpc[e] = "unpack" /\ (Released(e) \/ Released(Peer(e)))
  /\ BeginClose(e) /\ RGoto(e, "closing")
  /\ UNCHANGED <<todo, connMap, connVars, sent, opening, acceptVars>>

ReadClosing(e) ==
  /\ rpc[e] = "closing" /\ Released(e)
  /\ RGoto(e, "exit")
  /\ UNCHANGED <<muxVars, connMap, connVars, sent, opening, acceptVars>>

\* a packet comes out of the tunnel; the classes keep their own order only
Receive(e, k) ==
  /\ rpc[e] = "unpack" /\ sent[Peer(e)][k] # <<>>
  /\ sent' = [sent EXCEPT ![Peer(e)][k] = Tail(@)]

\* is there a live conn for the packet?  Without one the packet is dropped
Live(e, c) == c \in connMap[e] /\ ~Closed(e, c)

\* newConn: the conn is pushed to newConnQueue, then Broadcast without the lock
ReadNewConn(e) ==
  /\ Receive(e, "middle")
  /\ LET p == Head(sent[Peer(e)]["middle"])
     IN p.kind = "newConn" /\ connQueue' = Append(connQueue, p.conn)
  /\ RGoto(e, "broadcast")
  /\ UNCHANGED <<muxVars, connMap, connVars, opening, waiting, apc, next, accepting>>

ReadBroadcast(e) ==
  /\ rpc[e] = "broadcast"
  /\ waiting' = FALSE /\ RGoto(e, "unpack")
  /\ UNCHANGED <<muxVars, connMap, connVars, sent, opening, connQueue, apc, next, accepting>>

\* newConnOk: a signal for NewConn, which may have gone
ReadNewConnOk(e) ==
  /\ Receive(e, "middle")
  /\ LET p == Head(sent[Peer(e)]["middle"])
     IN /\ p.kind = "newConnOk"
        /\ opening' = IF Live(e, p.conn) /\ opening[p.conn] = "wait"
                      THEN [opening EXCEPT ![p.conn] = "ok"] ELSE opening
  /\ RGoto(e, "unpack")
  /\ UNCHANGED <<muxVars, connMap, connVars, acceptVars>>

\* newMsg goes to the receive window (MuxStream), connClose sets the flag
NotToldPeerClosed(e, c) == closingFlag[e]
ToldPeerClosed(e, c) == closingFlag[e] \cup {c}
ReadData(e) ==
  /\ Receive(e, "lowest")
  /\ LET p == Head(sent[Peer(e)]["lowest"])
     IN closingFlag' = IF Live(e, p.conn) /\ p.kind = "connClose"
                       THEN [closingFlag EXCEPT ![e] = ToldPeerClosed(e, p.conn)] ELSE closingFlag
  /\ RGoto(e, "unpack")
  /\ UNCHANGED <<muxVars, connMap, connOnce, handed, wrote, opening, acceptVars>>

Reading(e) ==
  \/ ReadEnds(e) \/ ReadError(e) \/ ReadClosing(e) \/ ReadNewConn(e) \/ ReadBroadcast(e)
  \/ ReadNewConnOk(e) \/ ReadData(e)

-----------------------------------------------------------------------------
(* B: the goroutine that takes conns off the queue, and Mux.Accept          *)

OnlyAccept == UNCHANGED <<connOnce, closingFlag, wrote, rpc, opening>>
AGoto(pc) == apc' = pc

AcceptTop ==
  /\ apc = "top" /\ AGoto(IF isClose["B"] THEN "exit" ELSE "try")
  /\ OnlyAccept /\ UNCHANGED <<muxVars, connMap, handed, sent, connQueue, waiting, next, accepting>>

\* connQueue.Pop: the last TryPop, under the lock ...
TryPop ==
  /\ apc = "try"
  /\ IF connQueue # <<>>
     THEN next' = Head(connQueue) /\ connQueue' = Tail(connQueue) /\ AGoto("popped")
     ELSE AGoto("wait") /\ UNCHANGED <<connQueue, next>>
  /\ OnlyAccept /\ UNCHANGED <<muxVars, connMap, handed, sent, waiting, accepting>>

\* ... then cond.Wait, unless stopped.  A Broadcast in between is lost
Wait ==
  /\ apc = "wait"
  /\ IF Released("B") THEN AGoto("popped") /\ UNCHANGED waiting
                      ELSE AGoto("asleep") /\ waiting' = TRUE
  /\ OnlyAccept /\ UNCHANGED <<muxVars, connMap, handed, sent, connQueue, next, accepting>>

AfterWakeNoRetry == "popped"
AfterWake == "try"
Wake ==
  /\ apc = "asleep" /\ ~waiting /\ AGoto(AfterWake)
  /\ OnlyAccept /\ UNCHANGED <<muxVars, connMap, handed, sent, connQueue, waiting, next, accepting>>

\* the conn must be in the map before the peer hears of it
NotSetConn == connMap["B"]
SetConn == connMap["B"] \cup {next}
Popped ==
  /\ apc = "popped" /\ AGoto(IF isClose["B"] THEN "exit" ELSE "set")
  /\ OnlyAccept /\ UNCHANGED <<muxVars, connMap, handed, sent, connQueue, waiting, next, accepting>>

Set ==
  /\ apc = "set" /\ AGoto("offer")
  /\ connMap' = [connMap EXCEPT !["B"] = SetConn]
  /\ OnlyAccept /\ UNCHANGED <<muxVars, handed, sent, connQueue, waiting, next, accepting>>

\* select on newConnCh and done: a goroutine that waits when done is closed gets
\* done, and one that comes later does not wait
OfferAlways == TRUE
OfferOpen == ~Done("B")
Offer ==
  /\ apc = "offer" /\ accepting /\ OfferOpen
  /\ handed' = [handed EXCEPT !["B"] = @ \cup {next}]
  /\ AGoto("send")
  /\ OnlyAccept /\ UNCHANGED <<muxVars, connMap, sent, connQueue, waiting, next, accepting>>

OfferGivesUp ==
  /\ apc = "offer" /\ Done("B") /\ AGoto("exit")
  /\ OnlyAccept /\ UNCHANGED <<muxVars, connMap, handed, sent, connQueue, waiting, next, accepting>>

NextRound == AGoto("top") /\ next' = None

\* sendInfo(muxNewConnOk)
OkSend ==
  /\ apc = "send"
  /\ IF isClose["B"] THEN NextRound ELSE AGoto("push") /\ UNCHANGED next
  /\ OnlyAccept /\ UNCHANGED <<muxVars, connMap, handed, sent, connQueue, waiting, accepting>>

OkPush ==
  /\ apc = "push"
  /\ \/ Queue("B", "newConnOk", next) /\ NextRound
     \/ Overflow("B") /\ AGoto("closing") /\ UNCHANGED next
  /\ OnlyAccept /\ UNCHANGED <<connMap, handed, connQueue, waiting, accepting>>

OkClosing ==
  /\ apc = "closing" /\ Released("B") /\ NextRound
  /\ OnlyAccept /\ UNCHANGED <<muxVars, connMap, handed, sent, connQueue, waiting, accepting>>

Accepting ==
  \/ AcceptTop \/ TryPop \/ Wait \/ Wake \/ Popped \/ Set \/ Offer \/ OfferGivesUp
  \/ OkSend \/ OkPush \/ OkClosing

\* Accept finds the mux closed when it is called, or done closed while it waits
AcceptFails ==
  /\ accepting /\ isClose["B"] /\ accepting' = FALSE
  /\ OnlyAccept /\ UNCHANGED <<muxVars, connMap, handed, sent, connQueue, waiting, apc, next>>

-----------------------------------------------------------------------------
\* nothing is under way: everyone waits for the other end or for the user
Quiescent ==
  /\ \A e \in Ends :
       /\ \/ rpc[e] = "exit"
          \/ rpc[e] = "unpack" /\ \A k \in {"middle", "lowest"} : sent[Peer(e)][k] = <<>>
       /\ once[e] \in {"no", "done"}
       /\ \A c \in Conns : connOnce[e][c] \in {"no", "done"}
  /\ once["A"] = once["B"]
  /\ \A c \in setting.opens : opening[c] \in {"open", "error", "wait"}
  /\ (apc = "asleep" /\ waiting) \/ (apc = "exit" /\ ~accepting)
Rest == Quiescent /\ UNCHANGED vars

\* what goroutines do without a new call of a user and without a fault
GoesOn ==
  \/ \E c \in Conns : Opening(c)
  \/ \E e \in Ends, c \in Conns : Closing(e, c)
  \/ \E e \in Ends : MuxClosing(e) \/ Reading(e)
  \/ Accepting \/ AcceptFails

Step ==
  \/ GoesOn
  \/ \E c \in Conns : NewConnTimeout(c)
  \/ \E e \in Ends, c \in Conns : Write(e, c) \/ ConnClose(e, c)
  \/ \E e \in Ends : Close(e)

Next ==
  \/ Step /\ UNCHANGED setting
  \/ Rest

Spec == Init /\ [][Next]_vars
(* As long as goroutines can go on one of them does, which is less than Go     *)
(* gives each; the tunnel delivers until it is closed; B's user keeps accepting *)
FairSpec == Spec /\ WF_vars(GoesOn /\ UNCHANGED setting)

-----------------------------------------------------------------------------
(* Properties                                                              *)

Packets == [kind : {"newConn", "newConnOk", "newMsg", "connClose"}, conn : Conns]
Wires == [Ends -> [{"middle", "lowest"} -> Seq(Packets)]]
ConnSets == [Ends -> SUBSET Conns]
Onces == [Ends -> {"no", "flagged", "signalled", "conns", "done"}]
ConnOnces == [Ends -> [Conns -> {"no", "delete", "check", "push", "closing", "done"}]]
Readers == [Ends -> {"unpack", "broadcast", "closing", "exit"}]
Openings == [Conns -> {"no", "set", "send", "push", "closing", "wait", "ok", "open", "error"}]
Accepters == {"top", "try", "wait", "asleep", "popped", "set", "offer", "send", "push",
              "closing", "exit"}

\* Every variable has its type
TypeOK ==
  /\ setting \in Settings
  /\ isClose \in [Ends -> BOOLEAN] /\ once \in Onces /\ todo \in ConnSets
  /\ connMap \in ConnSets /\ connOnce \in ConnOnces /\ closingFlag \in ConnSets
  /\ handed \in ConnSets /\ wrote \in ConnSets
  /\ sent \in Wires /\ rpc \in Readers /\ opening \in Openings
  /\ connQueue \in Seq(Conns) /\ waiting \in BOOLEAN
  /\ apc \in Accepters /\ next \in Conns \cup {None} /\ accepting \in BOOLEAN

\* No message is dropped for want of its conn: whatever overtakes what in the
\* write queue, data and the news of closing find the conn in the map of the
\* other end, unless that end has closed it (mux.go:316)
DataFindsConn ==
  \A e \in Ends : \A i \in 1..Len(sent[Peer(e)]["lowest"]) :
    LET c == sent[Peer(e)]["lowest"][i].conn
    IN c \in connMap[e] \/ Closed(e, c)

\* "close all the connections in the mux" (map.go:53): once Mux.Close is through,
\* no user holds or gets an open conn, though conns are set, offered and deleted meanwhile
AllConnsClosed ==
  \A e \in Ends : once[e] = "done" => \A c \in handed[e] : Closed(e, c)

\* Closing a conn reaches the other end, unless a mux goes first
CloseReachesPeer ==
  \A c \in Conns, e \in Ends :
    Closed(e, c) ~> (Closed(Peer(e), c) \/ c \in closingFlag[Peer(e)] \/ isClose["A"] \/ isClose["B"])

\* Nobody is left behind by a closed mux: Close ends, though closeOnce and the
\* once of each conn call each other in both orders, the goroutines of
\* readSession end, and Accept returns
MuxEnds ==
  \A e \in Ends :
    isClose[e] ~> /\ Released(e) /\ rpc[e] = "exit"
                  /\ e = "B" => apc = "exit" /\ ~accepting

\* "create connection fail, the server refused the connection" (mux.go:117): but
\* nobody refuses, and while both muxes are open an accepting peer answers
NewConnAnswered ==
  \A c \in Conns : opening[c] = "wait" ~> (opening[c] # "wait" \/ isClose["A"] \/ isClose["B"])
=============================================================================
