------------------------------ MODULE MuxStream ------------------------------
(***************************************************************************)
(* One direction of one multiplexed connection of lib/natpunch_mux: an     *)
(* application goroutine writes at one end, another reads at the other     *)
(* end, and the readSession goroutine of each mux moves the segments and   *)
(* the window updates.  The module covers conn.Read, Write and Close       *)
(* (conn.go), the sliding window (sendWindow, receiveWindow) and the       *)
(* blocking queue between readSession and Read (receiveWindowQueue).       *)
(*                                                                         *)
(* One action is one atomic step of the code: a compare-and-swap loop, a   *)
(* channel operation, a push or a pop.  A byte is its position 1..Total in *)
(* the stream.  data and acks stand for the write queue, the socket and    *)
(* the read buffer of each direction: NewMsg, NewMsgPart, MsgSendOk and    *)
(* ConnClose all travel in the lowest chain of priorityQueue, so each      *)
(* direction is FIFO and loses nothing while the tunnel is up.             *)
(***************************************************************************)
EXTENDS Naturals, Sequences

CONSTANTS
  Total,        \* bound: number of bytes the application writes in all
  MSS,          \* maximumSegmentSize
  InitWindow,   \* the initial window of both ends (30 segments in the code)
  WindowSizes,  \* the sizes calcSize may choose
  ReadSizes,    \* the buffer lengths the reading application passes to Read
  WriterCloses, \* may the writing application call Close of its own accord?
  ReaderCloses, \* may the reading application call Close of its own accord?
  ReadDeadline  \* is a read deadline set (SetReadDeadline)?

ASSUME StreamAssumption ==
  /\ Total \in Nat
  /\ MSS \in Nat \ {0}
  /\ InitWindow \in Nat \ {0}
  /\ WindowSizes \subseteq Nat \ {0}
  /\ ReadSizes \subseteq Nat \ {0}
  /\ WriterCloses \in BOOLEAN
  /\ ReaderCloses \in BOOLEAN
  /\ ReadDeadline \in BOOLEAN

VARIABLES
  \* the writing goroutine: conn.Write -> sendWindow.WriteFull
  wpc, off, end, seg, wSeen,
  \* sendWindow and the conn it belongs to
  sWord, sCloseOp, sTokens, setSizeClosed, sIsClose, closingFlag, sOnce,
  \* the readSession goroutine at the writing end
  spc,
  \* the two FIFO directions
  data, acks,
  \* the readSession goroutine at the reading end: receiveWindow.Write
  rrpc, cur, pSeen, pRemain, pWait,
  \* receiveWindow, its receiveWindowQueue and the conn it belongs to
  rWord, rCloseOp, qLength, qWait, queue, stopTokens, stopped, rIsClose, rOnce,
  \* the reading goroutine: conn.Read -> receiveWindow.readFromQueue
  rpc, want, elem, eOff, aSeen, aRemain, result,
  \* history: bytes handed to the reader, bytes of the elements it finished,
  \* credit put on the wire, bytes written before ConnClose was, and bytes the
  \* readSession at the reading end has taken in
  got, counted, acked, tail, taken

writerVars == <<wpc, off, end, seg, wSeen>>
sendVars   == <<sWord, sCloseOp, sTokens, setSizeClosed, sIsClose, closingFlag, sOnce>>
pushVars   == <<rrpc, cur, pSeen, pRemain, pWait>>
queueVars  == <<qLength, qWait, queue, stopTokens, stopped>>
recvVars   == <<rWord, rCloseOp, rIsClose, rOnce>>
readerVars == <<rpc, want, elem, eOff, aSeen, aRemain, result>>
history    == <<got, counted, acked, tail, taken>>
vars == <<writerVars, sendVars, spc, data, acks, pushVars, queueVars, recvVars,
          readerVars, history>>

Lesser(a, b) == IF a < b THEN a ELSE b

\* maxSizeDone: the packed word (maxSize, done, wait) of a window
Word(max, done, wait) == [max |-> max, done |-> done, wait |-> wait]
\* a local that holds no loaded word
NoWord == Word(0, 0, FALSE)
\* remainingSize of both windows: never negative
Remaining(max, used) == IF used < max THEN max - used ELSE 0

\* a listElement: the bytes from+1..to; it is a part if its Write goes on
Element(f, t, part) == [from |-> f, to |-> t, part |-> part]
Size(e) == e.to - e.from
\* the zero element of receiveWindow.New, and the nil pointer
NoElement == Element(0, 0, FALSE)
Nil == [from |-> 0, to |-> 0, part |-> TRUE]

Msg(e) == [kind |-> "msg", from |-> e.from, to |-> e.to, part |-> e.part]
Ack(max, read, upto) == [kind |-> "ack", max |-> max, read |-> read, upto |-> upto]
\* ConnClose, with the stream position it stands at
ConnClose(p) == [kind |-> "close", from |-> p, to |-> p, part |-> FALSE]
\* newMsg: the listElement of a received message
NewElement(m) == Element(m.from, m.to, m.part)

Init ==
  /\ wpc = "idle" /\ off = 0 /\ end = 0 /\ seg = 0
  /\ wSeen = NoWord
  /\ sWord = Word(InitWindow, 0, FALSE)
  /\ sCloseOp = FALSE /\ sTokens = 0 /\ setSizeClosed = FALSE
  /\ sIsClose = FALSE /\ closingFlag = FALSE /\ sOnce = "none"
  /\ spc = "idle"
  /\ data = <<>> /\ acks = <<>>
  /\ rrpc = "idle" /\ cur = NoElement
  /\ pSeen = NoWord /\ pRemain = 0 /\ pWait = FALSE
  /\ rWord = Word(InitWindow, 0, FALSE)
  /\ rCloseOp = FALSE /\ rIsClose = FALSE /\ rOnce = "none"
  /\ qLength = 0 /\ qWait = FALSE /\ queue = <<>>
  /\ stopTokens = 0 /\ stopped = FALSE
  /\ rpc = "idle" /\ want = 0 /\ elem = NoElement /\ eOff = 0
  /\ aSeen = NoWord /\ aRemain = 0 /\ result = "none"
  /\ got = <<>> /\ counted = 0 /\ acked = 0 /\ tail = 0
  /\ taken = 0

-----------------------------------------------------------------------------
(* The writing goroutine                                                   *)

\* conn.Write: refused once the conn is closed here or closing at the peer
Write(n) ==
  /\ wpc = "idle" /\ ~sIsClose /\ ~closingFlag
  /\ off + n <= Total
  /\ end' = off + n
  /\ wpc' = "writeTo"
  /\ UNCHANGED <<off, seg, wSeen, sendVars, spc, data, acks, pushVars, queueVars,
                 recvVars, readerVars, history>>

\* the length of the next segment, for a window that has remain bytes left
SegmentSizeUnbounded(remain) == Lesser(MSS, end - off)
SegmentSize(remain) == Lesser(Lesser(MSS, end - off), remain)

\* WriteTo from label start: load the word; a full window means waiting, an open
\* one fixes the length of the next segment
LoadWindow ==
  LET remain == Remaining(sWord.max, sWord.done)
  IN IF remain = 0
     THEN wpc' = "mark" /\ wSeen' = sWord /\ UNCHANGED seg
     ELSE wpc' = "sent" /\ seg' = SegmentSize(remain) /\ UNCHANGED wSeen

\* sendWindow.WriteTo from its entry: closed window, drained buffer, or go on.
\* (No update is applied once closeOp is set, so the test and the load are one
\* step.)
WriteTo ==
  /\ wpc = "writeTo"
  /\ IF sCloseOp \/ off >= end
     THEN wpc' = (IF sCloseOp THEN "failed" ELSE "idle") /\ UNCHANGED <<seg, wSeen>>
     ELSE LoadWindow
  /\ UNCHANGED <<off, end, sendVars, spc, data, acks, pushVars, queueVars, recvVars,
                 readerVars, history>>

\* WriteTo again from label start, after waiting or a lost compare-and-swap
WriteToStart ==
  /\ wpc = "start"
  /\ LoadWindow
  /\ UNCHANGED <<off, end, sendVars, spc, data, acks, pushVars, queueVars, recvVars,
                 readerVars, history>>

\* the compare-and-swap that sets the wait bit; it fails if SetSize was first
MarkAlways == TRUE
MarkSucceeds == sWord = wSeen
MarkWaiting ==
  /\ wpc = "mark"
  /\ IF MarkSucceeds
     THEN sWord' = [sWord EXCEPT !.wait = TRUE] /\ wpc' = "waiting"
     ELSE wpc' = "start" /\ UNCHANGED sWord
  /\ wSeen' = NoWord
  /\ UNCHANGED <<off, end, seg, sCloseOp, sTokens, setSizeClosed, sIsClose,
                 closingFlag, sOnce, spc, data, acks, pushVars, queueVars, recvVars,
                 readerVars, history>>

\* waitReceiveWindow returns an error: setSizeCh is closed or a close token came
WaitFails ==
  /\ wpc = "waiting"
  /\ \/ setSizeClosed /\ UNCHANGED sTokens
     \/ sTokens > 0 /\ sTokens' = sTokens - 1
  /\ wpc' = "failed"
  /\ UNCHANGED <<off, end, seg, wSeen, sWord, sCloseOp, setSizeClosed, sIsClose,
                 closingFlag, sOnce, spc, data, acks, pushVars, queueVars, recvVars,
                 readerVars, history>>

\* sendWindow.sent: the segment is counted before it is handed to sendInfo
Sent ==
  /\ wpc = "sent"
  /\ sWord' = [sWord EXCEPT !.done = @ + seg]
  /\ off' = off + seg
  /\ wpc' = "push"
  /\ UNCHANGED <<end, seg, wSeen, sCloseOp, sTokens, setSizeClosed, sIsClose,
                 closingFlag, sOnce, spc, data, acks, pushVars, queueVars, recvVars,
                 readerVars, history>>

\* WriteFull: sendInfo(muxNewMsgPart or muxNewMsg), then the next WriteTo
PushData ==
  /\ wpc = "push"
  /\ data' = Append(data, Msg(Element(off - seg, off, off < end)))
  /\ wpc' = "writeTo"
  /\ seg' = 0
  /\ UNCHANGED <<off, end, wSeen, sendVars, spc, acks, pushVars, queueVars,
                 recvVars, readerVars, history>>

-----------------------------------------------------------------------------
(* Close at the writing end: conn.Close -> once.Do(closeProcess)            *)

\* bytes already handed to sendInfo
Pushed == IF wpc = "push" THEN off - seg ELSE off

WriterCloseBegin ==
  /\ sOnce = "none"
  /\ WriterCloses \/ closingFlag
  /\ sIsClose' = TRUE /\ sOnce' = "inform"
  /\ UNCHANGED <<writerVars, sWord, sCloseOp, sTokens, setSizeClosed, closingFlag,
                 spc, data, acks, pushVars, queueVars, recvVars, readerVars, history>>

\* sendInfo(muxConnClose): it queues behind the data
InformAhead(q, p) == <<ConnClose(p)>> \o q
Inform(q, p) == Append(q, ConnClose(p))

WriterCloseInform ==
  /\ sOnce = "inform"
  /\ data' = Inform(data, Pushed)
  /\ tail' = Pushed
  /\ sOnce' = "window"
  /\ UNCHANGED <<writerVars, sWord, sCloseOp, sTokens, setSizeClosed, sIsClose,
                 closingFlag, spc, acks, pushVars, queueVars, recvVars, readerVars,
                 got, counted, acked, taken>>

\* window.CloseWindow of the send window: closeOp, then two tokens
CloseTokens == 2
WriterCloseWindow ==
  /\ sOnce = "window"
  /\ sCloseOp' = TRUE /\ sTokens' = CloseTokens
  /\ sOnce' = "done"
  /\ UNCHANGED <<writerVars, sWord, setSizeClosed, sIsClose, closingFlag, spc, data,
                 acks, pushVars, queueVars, recvVars, readerVars, history>>

-----------------------------------------------------------------------------
(* readSession at the writing end                                          *)

\* SetSize wakes the writer when the update ends its wait status
WakesAny(wait, newWait) == ~newWait
Wakes(wait, newWait) == wait /\ ~newWait

\* sendWindow.SetSize on the word (sWord) for a window update m
SetSize(m) ==
  LET left    == sWord.done - m.read
      newWait == sWord.wait /\ Remaining(m.max, left) = 0
  IN CASE sCloseOp ->
            setSizeClosed' = TRUE /\ UNCHANGED <<sWord, spc>>
       [] ~sCloseOp /\ (m.read > sWord.done \/ (m.read = 0 /\ m.max = sWord.max)) ->
            UNCHANGED <<sWord, spc, setSizeClosed>>
       [] OTHER ->
            /\ sWord' = Word(m.max, left, newWait)
            /\ spc' = IF Wakes(sWord.wait, newWait) THEN "allow" ELSE "idle"
            /\ UNCHANGED setSizeClosed

\* case muxMsgSendOk of readSession
RecvAck ==
  /\ spc = "idle" /\ acks # <<>> /\ Head(acks).kind = "ack"
  /\ acks' = Tail(acks)
  /\ IF sIsClose
     THEN UNCHANGED <<sWord, spc, setSizeClosed>>
     ELSE SetSize(Head(acks))
  /\ UNCHANGED <<writerVars, sCloseOp, sTokens, sIsClose, closingFlag, sOnce, data,
                 pushVars, queueVars, recvVars, readerVars, history>>

\* sendWindow.allow hands the unbuffered setSizeCh over to waitReceiveWindow
AllowWriter ==
  /\ spc = "allow" /\ wpc = "waiting"
  /\ spc' = "idle" /\ wpc' = "start"
  /\ UNCHANGED <<off, end, seg, wSeen, sendVars, data, acks, pushVars, queueVars,
                 recvVars, readerVars, history>>

\* sendWindow.allow gives up: it takes a close token and closes setSizeCh
AllowClosed ==
  /\ spc = "allow" /\ sTokens > 0
  /\ sTokens' = sTokens - 1 /\ setSizeClosed' = TRUE
  /\ spc' = "idle"
  /\ UNCHANGED <<writerVars, sWord, sCloseOp, sIsClose, closingFlag, sOnce, data,
                 acks, pushVars, queueVars, recvVars, readerVars, history>>

\* case muxConnClose: the peer closed; only a flag here, the writer stays blocked
RecvPeerClose ==
  /\ spc = "idle" /\ acks # <<>> /\ Head(acks).kind = "close"
  /\ acks' = Tail(acks)
  /\ closingFlag' = (closingFlag \/ ~sIsClose)
  /\ UNCHANGED <<writerVars, sWord, sCloseOp, sTokens, setSizeClosed, sIsClose, sOnce,
                 spc, data, pushVars, queueVars, recvVars, readerVars, history>>

-----------------------------------------------------------------------------
(* readSession at the reading end                                          *)

\* cases muxNewMsg and muxNewMsgPart up to receiveWindow.Write's closeOp test.
\* A message for a conn that is closed here is dropped; one that finds it closed
\* only at newMsg's own test, or finds the window closed, leads to conn.Close
RecvMsg ==
  /\ rrpc = "idle" /\ data # <<>> /\ Head(data).kind = "msg"
  /\ data' = Tail(data) /\ taken' = Head(data).to
  /\ IF rIsClose \/ rCloseOp
     THEN /\ rrpc' \in {"close"} \cup (IF rIsClose THEN {"idle"} ELSE {})
          /\ UNCHANGED cur
     ELSE rrpc' = "calc" /\ cur' = NewElement(Head(data))
  /\ UNCHANGED <<writerVars, sendVars, spc, acks, pSeen, pRemain, pWait, queueVars,
                 recvVars, readerVars, got, counted, acked, tail>>

\* receiveWindow.Write from label start: load the word, then the queue length.
\* (Both are one step: if the word changes in between, the compare-and-swap that
\* follows fails.)
LoadStatus(w) ==
  /\ pSeen' = w
  /\ pRemain' = Remaining(w.max, qLength + Size(cur))
  /\ rrpc' = "cas"

\* calcSize changes only the maxSize part of the word, or (count # 0) nothing;
\* then the first load
CalcSize ==
  /\ rrpc = "calc"
  /\ \E n \in WindowSizes \cup {rWord.max} :
       LET w == [rWord EXCEPT !.max = n] IN rWord' = w /\ LoadStatus(w)
  /\ UNCHANGED <<writerVars, sendVars, spc, data, acks, cur, pWait, queueVars, rCloseOp,
                 rIsClose, rOnce, readerVars, history>>

PushLoad ==
  /\ rrpc = "load"
  /\ LoadStatus(rWord)
  /\ UNCHANGED <<writerVars, sendVars, spc, data, acks, cur, pWait, queueVars, recvVars,
                 readerVars, history>>

\* the word once its read size has been taken for a window update
ReadKept(w) == w
ReadTaken(w) == [w EXCEPT !.done = 0]

\* its compare-and-swap: enter the wait status, or take the read size to send
PushCas ==
  /\ rrpc = "cas"
  /\ IF pSeen.wait
     THEN pWait' = TRUE /\ rrpc' = "push" /\ UNCHANGED rWord
     ELSE IF rWord # pSeen
     THEN rrpc' = "load" /\ UNCHANGED <<rWord, pWait>>
     ELSE /\ pWait' = (pRemain = 0)
          /\ rWord' = IF pRemain = 0 THEN [pSeen EXCEPT !.wait = TRUE]
                                     ELSE ReadTaken(pSeen)
          /\ rrpc' = "push"
  /\ pRemain' = 0
  /\ UNCHANGED <<writerVars, sendVars, spc, data, acks, cur, pSeen, queueVars,
                 rCloseOp, rIsClose, rOnce, readerVars, history>>

\* did the reader set the wait bit before this Push?
NobodyWaits == FALSE
ReaderWaits == qWait

\* receiveWindowQueue.Push: add the length and clear the wait bit; the reader
\* that had set it will be handed readOp after the element is in the chain
QueuePushLength ==
  /\ rrpc = "push"
  /\ qLength' = qLength + Size(cur)
  /\ qWait' = FALSE
  /\ rrpc' = IF ReaderWaits THEN "chainWake" ELSE "chain"
  /\ UNCHANGED <<writerVars, sendVars, spc, data, acks, cur, pSeen, pRemain, pWait,
                 queue, stopTokens, stopped, recvVars, readerVars, history>>

QueuePushChain ==
  /\ rrpc \in {"chain", "chainWake"}
  /\ queue' = Append(queue, cur) /\ cur' = NoElement
  /\ rrpc' = IF rrpc = "chainWake" THEN "allowPop" ELSE "ack"
  /\ UNCHANGED <<writerVars, sendVars, spc, data, acks, pSeen, pRemain, pWait, qLength,
                 qWait, stopTokens, stopped, recvVars, readerVars, history>>

\* receiveWindowQueue.allowPop meets the reader in waitPush, or takes a stop token
AllowPopReader ==
  /\ rrpc = "allowPop" /\ rpc = "waitPush"
  /\ rrpc' = "ack" /\ rpc' = "pop"
  /\ UNCHANGED <<writerVars, sendVars, spc, data, acks, cur, pSeen, pRemain, pWait,
                 queueVars, recvVars, want, elem, eOff, aSeen, aRemain, result, history>>

AllowPopStopped ==
  /\ rrpc = "allowPop" /\ stopTokens > 0
  /\ stopTokens' = stopTokens - 1
  /\ rrpc' = "ack"
  /\ UNCHANGED <<writerVars, sendVars, spc, data, acks, cur, pSeen, pRemain, pWait,
                 qLength, qWait, queue, stopped, recvVars, readerVars, history>>

\* the tail of receiveWindow.Write: unless waiting, send the captured status
PushAck ==
  /\ rrpc = "ack"
  /\ IF pWait
     THEN UNCHANGED <<acks, acked>>
     ELSE /\ acks' = Append(acks, Ack(pSeen.max, pSeen.done, acked + pSeen.done))
          /\ acked' = acked + pSeen.done
  /\ rrpc' = "idle" /\ pSeen' = NoWord /\ pWait' = FALSE
  /\ UNCHANGED <<writerVars, sendVars, spc, data, cur, pRemain, queueVars, recvVars,
                 readerVars, got, counted, tail, taken>>

\* receiveWindowQueue.Stop under its once: two tokens
StopQueueAgain ==
  /\ stopped' = TRUE
  /\ stopTokens' = stopTokens + 2
StopQueue ==
  /\ stopped' = TRUE
  /\ stopTokens' = IF stopped THEN stopTokens ELSE 2

\* what readSession does to the receive queue on muxConnClose
IgnorePeerClose == UNCHANGED <<stopTokens, stopped>>
PeerClosed == IF rIsClose THEN UNCHANGED <<stopTokens, stopped>> ELSE StopQueue

\* case muxConnClose: stop the queue; the conn itself stays open to drain it
RecvConnClose ==
  /\ rrpc = "idle" /\ data # <<>> /\ Head(data).kind = "close"
  /\ data' = Tail(data) /\ taken' = Head(data).to
  /\ PeerClosed
  /\ UNCHANGED <<writerVars, sendVars, spc, acks, pushVars, qLength, qWait, queue,
                 recvVars, readerVars, got, counted, acked, tail>>

\* a refused message makes readSession close the conn: it runs closeProcess, or
\* waits in once.Do for the goroutine that does
PushRefused ==
  /\ rrpc = "close" /\ rOnce = "done"
  /\ rrpc' = "idle"
  /\ UNCHANGED <<writerVars, sendVars, spc, data, acks, cur, pSeen, pRemain, pWait,
                 queueVars, recvVars, readerVars, history>>

-----------------------------------------------------------------------------
(* Close at the reading end                                                *)

ReaderCloseBegin ==
  /\ rOnce = "none"
  /\ ReaderCloses \/ rrpc = "close" \/ result # "none"
  /\ rIsClose' = TRUE /\ rOnce' = "inform"
  /\ UNCHANGED <<writerVars, sendVars, spc, data, acks, pushVars, queueVars, rWord,
                 rCloseOp, readerVars, history>>

ReaderCloseInform ==
  /\ rOnce = "inform"
  /\ acks' = Inform(acks, 0)
  /\ rOnce' = "window"
  /\ UNCHANGED <<writerVars, sendVars, spc, data, pushVars, queueVars, rWord, rCloseOp,
                 rIsClose, readerVars, history>>

\* receiveWindow.CloseWindow: closeOp and Stop, then release
ReaderCloseWindow ==
  /\ rOnce = "window"
  /\ rCloseOp' = TRUE /\ StopQueue
  /\ rOnce' = "release"
  /\ UNCHANGED <<writerVars, sendVars, spc, data, acks, pushVars, qLength, qWait, queue,
                 rWord, rIsClose, readerVars, history>>

\* receiveWindowQueue.TryPop when the chain is not empty
TryPop ==
  /\ queue # <<>>
  /\ queue' = Tail(queue)
  /\ qLength' = qLength - Size(Head(queue))

\* receiveWindow.release: TryPop until the queue is empty
ReaderCloseRelease ==
  /\ rOnce = "release"
  /\ IF queue # <<>> THEN TryPop /\ UNCHANGED rOnce
                     ELSE rOnce' = "done" /\ UNCHANGED <<queue, qLength>>
  /\ UNCHANGED <<writerVars, sendVars, spc, data, acks, pushVars, qWait, stopTokens,
                 stopped, rWord, rCloseOp, rIsClose, readerVars, history>>

-----------------------------------------------------------------------------
(* The reading goroutine                                                   *)

\* conn.Read with a buffer of n bytes
Read(n) ==
  /\ rpc = "idle" /\ ~rIsClose
  /\ rpc' = "copy" /\ want' = n
  /\ UNCHANGED <<writerVars, sendVars, spc, data, acks, pushVars, queueVars, recvVars,
                 elem, eOff, aSeen, aRemain, result, history>>

Exhausted == eOff = Size(elem)

\* readFromQueue at copyData, current element used up: Pop, or on a closed
\* window one TryPop and then EOF
NextElement ==
  /\ rpc = "copy" /\ elem # Nil /\ Exhausted
  /\ IF ~rCloseOp
     THEN rpc' = "pop" /\ UNCHANGED <<queue, qLength, elem, eOff, result>>
     ELSE IF queue # <<>>
     THEN TryPop /\ elem' = Head(queue) /\ eOff' = 0 /\ UNCHANGED <<rpc, result>>
     ELSE rpc' = "over" /\ result' = "eof" /\ UNCHANGED <<queue, qLength, elem, eOff>>
  /\ UNCHANGED <<writerVars, sendVars, spc, data, acks, pushVars, qWait, stopTokens,
                 stopped, recvVars, want, aSeen, aRemain, history>>

\* receiveWindowQueue.Pop: an empty queue sets the wait bit
PopLength ==
  /\ rpc = "pop"
  /\ IF qLength = 0 THEN qWait' = TRUE /\ rpc' = "waitPush"
                    ELSE rpc' = "tryPop" /\ UNCHANGED qWait
  /\ UNCHANGED <<writerVars, sendVars, spc, data, acks, pushVars, qLength, queue,
                 stopTokens, stopped, recvVars, want, elem, eOff, aSeen, aRemain, result,
                 history>>

\* Pop's inner loop: TryPop until the element that was counted is there
PopChain ==
  /\ rpc = "tryPop"
  /\ TryPop
  /\ elem' = Head(queue) /\ eOff' = 0
  /\ rpc' = "copy"
  /\ UNCHANGED <<writerVars, sendVars, spc, data, acks, pushVars, qWait, stopTokens,
                 stopped, recvVars, want, aSeen, aRemain, result, history>>

\* waitPush ends with EOF (a stop token) or with a timeout: element is nil
WaitPushFails ==
  /\ rpc = "waitPush"
  /\ \/ stopTokens > 0 /\ stopTokens' = stopTokens - 1 /\ result' = "eof"
     \/ ReadDeadline /\ UNCHANGED stopTokens /\ result' = "timeout"
  /\ elem' = Nil /\ eOff' = 0
  /\ rpc' = "closeWindow"
  /\ UNCHANGED <<writerVars, sendVars, spc, data, acks, pushVars, qLength, qWait, queue,
                 stopped, recvVars, want, aSeen, aRemain, history>>

\* readFromQueue closes the receive window after a failed Pop (but not the conn)
FailedReadCloses ==
  /\ rpc = "closeWindow"
  /\ rCloseOp' = TRUE /\ StopQueue
  /\ rpc' = "release"
  /\ UNCHANGED <<writerVars, sendVars, spc, data, acks, pushVars, qLength, qWait, queue,
                 rWord, rIsClose, rOnce, want, elem, eOff, aSeen, aRemain, result, history>>

FailedReadReleases ==
  /\ rpc = "release"
  /\ IF queue # <<>> THEN TryPop /\ UNCHANGED rpc
                     ELSE rpc' = "over" /\ UNCHANGED <<queue, qLength>>
  /\ UNCHANGED <<writerVars, sendVars, spc, data, acks, pushVars, qWait, stopTokens,
                 stopped, recvVars, want, elem, eOff, aSeen, aRemain, result, history>>

\* Read is called again after it failed: Self.element is dereferenced
ReadAgain ==
  /\ rpc = "over" /\ ~rIsClose
  /\ elem = Nil
  /\ rpc' = "panic"
  /\ UNCHANGED <<writerVars, sendVars, spc, data, acks, pushVars, queueVars, recvVars,
                 want, elem, eOff, aSeen, aRemain, result, history>>

\* copy bytes out of the current element
CopyData ==
  /\ rpc = "copy" /\ elem # Nil /\ ~Exhausted
  /\ LET l == Lesser(want, Size(elem) - eOff)
     IN /\ got' = got \o [i \in 1..l |-> elem.from + eOff + i]
        /\ eOff' = eOff + l
        /\ want' = want - l
        /\ rpc' = IF eOff + l = Size(elem) THEN "status" ELSE "idle"
  /\ UNCHANGED <<writerVars, sendVars, spc, data, acks, pushVars, queueVars, recvVars,
                 elem, aSeen, aRemain, result, counted, acked, tail, taken>>

\* receiveWindow.sendStatus: load the word, then the queue length
StatusLoad ==
  /\ rpc = "status"
  /\ aSeen' = rWord
  /\ aRemain' = Remaining(rWord.max, qLength)
  /\ rpc' = "statusCas"
  /\ UNCHANGED <<writerVars, sendVars, spc, data, acks, pushVars, queueVars, recvVars,
                 want, elem, eOff, result, history>>

\* does Read go on with the next element after this one?
AfterStatus == IF want > 0 /\ elem.part THEN "copy" ELSE "idle"

\* must the status be sent at once, or may the read size grow?
AckDueUnlessEmpty(w, read, remain) == (w.wait /\ remain > 0) \/ read >= w.max \div 2
AckDue(w, read, remain) ==
  (w.wait /\ remain > 0) \/ read >= w.max \div 2 \/ remain = w.max

\* its compare-and-swap: either the read size becomes an update, or it grows
StatusCas ==
  /\ rpc = "statusCas"
  /\ LET read == aSeen.done + Size(elem)
     IN IF rWord # aSeen
        THEN rpc' = "status" /\ UNCHANGED <<rWord, counted>>
        ELSE /\ counted' = counted + Size(elem)
             /\ IF AckDue(aSeen, read, aRemain)
                THEN rWord' = ReadTaken(Word(aSeen.max, read, FALSE)) /\ rpc' = "statusAck"
                ELSE rWord' = [aSeen EXCEPT !.done = read] /\ rpc' = AfterStatus
  /\ UNCHANGED <<writerVars, sendVars, spc, data, acks, pushVars, queueVars, rCloseOp,
                 rIsClose, rOnce, want, elem, eOff, aSeen, aRemain, result, got, acked, tail, taken>>

StatusAck ==
  /\ rpc = "statusAck"
  /\ LET read == aSeen.done + Size(elem)
     IN /\ acks' = Append(acks, Ack(aSeen.max, read, acked + read))
        /\ acked' = acked + read
  /\ rpc' = AfterStatus
  /\ UNCHANGED <<writerVars, sendVars, spc, data, pushVars, queueVars, recvVars, want,
                 elem, eOff, aSeen, aRemain, result, got, counted, tail, taken>>

-----------------------------------------------------------------------------
WriterStep == WriteTo \/ WriteToStart \/ MarkWaiting \/ WaitFails \/ Sent \/ PushData
WriterCloseStep == WriterCloseInform \/ WriterCloseWindow
SessionStep == RecvAck \/ AllowWriter \/ AllowClosed \/ RecvPeerClose
PeerSessionStep ==
  \/ RecvMsg \/ CalcSize \/ PushLoad \/ PushCas \/ QueuePushLength \/ QueuePushChain
  \/ AllowPopReader \/ AllowPopStopped \/ PushAck \/ RecvConnClose \/ PushRefused
ReaderCloseStep == ReaderCloseInform \/ ReaderCloseWindow \/ ReaderCloseRelease
ReaderStep ==
  \/ NextElement \/ PopLength \/ PopChain \/ WaitPushFails \/ FailedReadCloses
  \/ FailedReadReleases \/ CopyData \/ StatusLoad \/ StatusCas \/ StatusAck

\* nothing is left to do: the only state in which the stream may rest
Quiescent ==
  /\ \/ wpc = "idle" /\ (off = Total \/ sIsClose \/ closingFlag)
     \/ wpc = "failed"
  /\ spc = "idle" /\ rrpc = "idle" /\ data = <<>> /\ acks = <<>>
  /\ \/ rpc = "waitPush" /\ stopTokens = 0 /\ queue = <<>>
     \/ rpc = "idle" /\ rIsClose
     \/ rpc \in {"over", "panic"}
     \/ rpc = "tryPop" /\ queue = <<>> /\ rOnce = "done"  \* Pop spins (SpinMeansPushing)
  /\ sOnce \in {"none", "done"} /\ rOnce \in {"none", "done"}

Rest == Quiescent /\ UNCHANGED vars

Next ==
  \/ \E n \in 1..Total : Write(n)
  \/ WriterStep \/ WriterCloseBegin \/ WriterCloseStep
  \/ SessionStep \/ PeerSessionStep
  \/ \E n \in ReadSizes : Read(n)
  \/ ReaderStep \/ ReadAgain \/ ReaderCloseBegin \/ ReaderCloseStep
  \/ Rest

(* Fairness: every goroutine that can take a step does (the Go scheduler is *)
(* preemptive), the reading application reads in a loop, and an end whose   *)
(* peer closed is closed by its own application: goroutine.copyConnGroup    *)
(* reads until an error and then closes both ends.  A read deadline may lie *)
(* arbitrarily far ahead, so nothing relies on a timeout.                   *)
Fairness ==
  /\ WF_vars(WriterStep) /\ WF_vars(WriterCloseStep)
  /\ WF_vars(closingFlag /\ WriterCloseBegin)
  /\ WF_vars(SessionStep) /\ WF_vars(PeerSessionStep)
  /\ WF_vars(\E n \in ReadSizes : Read(n))
  /\ WF_vars(ReaderStep /\ result' # "timeout")
  /\ WF_vars((result # "none" \/ rrpc = "close") /\ ReaderCloseBegin)
  /\ WF_vars(ReaderCloseStep)

Spec == Init /\ [][Next]_vars
FairSpec == Spec /\ Fairness

-----------------------------------------------------------------------------
(* Properties                                                              *)

WPcs == {"idle", "writeTo", "start", "mark", "waiting", "sent", "push", "failed"}
RrPcs == {"idle", "calc", "load", "cas", "push", "chain", "chainWake", "allowPop", "ack",
          "close"}
RPcs == {"idle", "copy", "pop", "tryPop", "waitPush", "closeWindow", "release", "over",
         "panic", "status", "statusCas", "statusAck"}
Words == [max : Nat, done : Nat, wait : BOOLEAN]
Elements == [from : Nat, to : Nat, part : BOOLEAN]
DataMsgs == [kind : {"msg", "close"}, from : Nat, to : Nat, part : BOOLEAN]
AckMsgs == [kind : {"ack"}, max : Nat, read : Nat, upto : Nat]
             \cup [kind : {"close"}, from : Nat, to : Nat, part : BOOLEAN]

WriterTypeOK ==
  /\ wpc \in WPcs /\ off \in Nat /\ end \in Nat /\ seg \in Nat /\ wSeen \in Words
  /\ off <= end /\ (wpc = "sent" => off + seg <= end)
SendTypeOK ==
  /\ sWord \in Words /\ sCloseOp \in BOOLEAN /\ sTokens \in 0..2
  /\ setSizeClosed \in BOOLEAN /\ sIsClose \in BOOLEAN /\ closingFlag \in BOOLEAN
  /\ sOnce \in {"none", "inform", "window", "done"} /\ spc \in {"idle", "allow"}
DataTypeOK == data \in Seq(DataMsgs)
AcksTypeOK == acks \in Seq(AckMsgs)
PushTypeOK ==
  /\ rrpc \in RrPcs /\ cur \in Elements /\ pSeen \in Words /\ pRemain \in Nat
  /\ pWait \in BOOLEAN
QueueTypeOK ==
  /\ qLength \in Nat /\ qWait \in BOOLEAN /\ queue \in Seq(Elements)
  /\ stopTokens \in 0..2 /\ stopped \in BOOLEAN
RecvTypeOK ==
  /\ rWord \in Words /\ rCloseOp \in BOOLEAN /\ rIsClose \in BOOLEAN
  /\ rOnce \in {"none", "inform", "window", "release", "done"}
ReaderTypeOK ==
  /\ rpc \in RPcs /\ want \in Nat /\ elem \in Elements /\ eOff \in Nat
  /\ aSeen \in Words /\ aRemain \in Nat /\ result \in {"none", "eof", "timeout"}
HistoryTypeOK ==
  /\ got \in Seq(Nat) /\ counted \in Nat /\ acked \in Nat /\ tail \in Nat /\ taken \in Nat

\* Every variable has its type.  The two token channels have capacity 2: a
\* third token would block its sender for ever (conn.go:162, queue.go:367)
TypeOK ==
  /\ WriterTypeOK /\ SendTypeOK /\ DataTypeOK /\ AcksTypeOK /\ PushTypeOK
  /\ QueueTypeOK /\ RecvTypeOK /\ ReaderTypeOK /\ HistoryTypeOK

\* No window update on its way returns more credit than the sender has out.
\* SetSize drops such an update ("window read > send", conn.go:488), and its
\* credit would be lost for good
NeverOverAcked ==
  \A i \in 1..Len(acks) : acks[i].kind = "ack" => acks[i].read <= sWord.done

\* Credit does not leak: once the reader has finished every byte sent and no
\* update is on its way, the send window is wide open again.  Whatever is
\* missing there would shrink the window of the connection for ever
NoCreditLost ==
  (/\ off = counted /\ acks = <<>> /\ rrpc = "idle" /\ wpc # "sent"
   /\ rpc # "statusAck" /\ ~sIsClose /\ ~rIsClose)
  => sWord.done = 0

AllWindows == WindowSizes \cup {InitWindow}

\* The memory a peer can make readSession hold for one connection is bounded
\* by the largest window this end ever announced
QueueBounded == \E w \in AllWindows : qLength <= w

\* readSession serves every connection of the mux, so it may block in allow or
\* allowPop only if the goroutine it waits for is there to meet it, or a close
\* token is there or about to be put
SessionNeverStuck ==
  /\ spc = "allow" => wpc = "waiting" \/ sTokens > 0 \/ sOnce = "window"
  /\ rrpc = "allowPop" => rpc \in {"waitPush", "closeWindow"} \/ stopTokens > 0

\* Every call of Write returns: the window opens again or the close of either
\* end wakes the writer (mux_smoke_test.go names this regression)
WriteReturns == wpc \notin {"idle", "failed"} ~> wpc \in {"idle", "failed"}

\* Every byte that was sent reaches a reader that keeps reading
EventuallyDelivered ==
  off > Len(got) ~> Len(got) = off \/ rIsClose \/ sIsClose \/ result # "none"

\* A reader at the other end of a closed connection does not wait for ever
ReaderSeesEOF == sOnce = "done" ~> (result # "none" \/ rIsClose)

\* Pop's inner loop retries because "another goroutine is still pushing"
\* (queue.go:310): an empty chain at that point means a push is under way
SpinMeansPushing ==
  rpc = "tryPop" /\ queue = <<>> => rrpc \in {"chain", "chainWake"}
=============================================================================
