--------------------------- MODULE MuxStreamProofs ---------------------------
(***************************************************************************)
(* MuxStream, proved for every window, segment and stream length: types,   *)
(* no update returns more credit than is out, and the receive queue never  *)
(* outgrows the largest window; then what builds on that invariant: a conn *)
(* implements ByteStream, readSession is never stuck, no credit is lost.   *)
(***************************************************************************)
EXTENDS MCMuxStream, SequenceTheorems, TLAPS

\* readSession holds an element it has not put into the chain yet
InHand == rrpc \in {"calc", "load", "cas", "push", "chain", "chainWake"}
\* ... whose length is already counted in qLength
Counted == rrpc \in {"chain", "chainWake"}

\* the credit each of the two goroutines has taken from rWord but not yet sent
PushCredit ==
  IF rrpc \in {"push", "chain", "chainWake", "allowPop", "ack"} /\ ~pWait
  THEN pSeen.done ELSE 0
StatusCredit == IF rpc = "statusAck" THEN aSeen.done + Size(elem) ELSE 0

\* the reader holds an element that sendStatus has not counted yet
Unfinished == rpc \in {"status", "statusCas"} \/ (rpc \in {"copy", "idle"} /\ ~Exhausted)
Due == counted + (IF Unfinished THEN Size(elem) ELSE 0)

\* credit the sender has taken back so far
Applied == off - sWord.done

\* sendStatus runs when the current element is used up
ElemInv ==
  /\ elem.from <= elem.to /\ eOff <= Size(elem)
  /\ rpc \in {"status", "statusCas", "statusAck"} => Exhausted

\* a run of the stream: elements or messages, each beginning where the last ended
Contiguous(s) ==
  /\ \A i \in 1..Len(s) : s[i].from <= s[i].to
  /\ \A i \in 1..Len(s) : i < Len(s) => s[i].to = s[i+1].from
  /\ \A i, j \in 1..Len(s) : i < j => s[i].to <= s[j].from
First(s) == s[1].from
End(s) == s[Len(s)].to

\* the stream from taken up to Pushed is what data holds
DataInv ==
  /\ wpc = "push" => seg <= off
  /\ taken <= Pushed
  /\ Contiguous(data)
  /\ data = <<>> => taken = Pushed
  /\ data # <<>> => First(data) = taken /\ End(data) = Pushed
  /\ \A i \in 1..Len(data) : data[i].kind = "close" => data[i].from = data[i].to

\* below taken is the element in hand, and below that the receive queue
QueueInv ==
  /\ cur.from <= cur.to
  /\ Contiguous(queue)
  /\ InHand => cur.to = taken
  /\ queue # <<>> => End(queue) <= taken
  /\ queue # <<>> /\ InHand => End(queue) = cur.from
  /\ queue # <<>> /\ ~InHand /\ ~rIsClose /\ rrpc # "close" => End(queue) = taken
  /\ rOnce # "none" => rIsClose
  /\ qLength = (IF queue = <<>> THEN 0 ELSE End(queue) - First(queue))
               + (IF Counted THEN Size(cur) ELSE 0)

\* what the reader has finished lies below all of them
DueInv ==
  /\ Due <= taken
  /\ InHand => Due <= cur.from
  /\ queue # <<>> => Due <= First(queue)

\* the updates on their way bring the sender from Applied up to acked, in steps
AckInv ==
  /\ sWord.done <= off
  /\ Applied <= acked
  /\ \A i \in 1..Len(acks) : acks[i].kind = "ack" =>
       /\ Applied + acks[i].read <= acks[i].upto
       /\ acks[i].upto <= acked
  /\ \A i, j \in 1..Len(acks) :
       (i < j /\ acks[i].kind = "ack" /\ acks[j].kind = "ack")
       => acks[i].upto + acks[j].read <= acks[j].upto

\* credit is finished by the reader before it is taken to be sent
CreditInv == acked + rWord.done + PushCredit + StatusCredit <= counted

\* the sender never has more out than a window that was announced to it
SendWindowInv ==
  /\ \E w \in AllWindows : sWord.done + (IF wpc = "sent" THEN seg ELSE 0) <= w
  /\ \A i \in 1..Len(acks) : acks[i].kind = "ack" => acks[i].max \in AllWindows
  /\ sWord.max \in AllWindows

\* every window that is announced, or that a goroutine has loaded, is one of them
RecvWindowInv ==
  /\ rWord.max \in AllWindows
  /\ rrpc \in {"cas", "push", "chain", "chainWake", "allowPop", "ack"}
       => pSeen.max \in AllWindows
  /\ rpc \in {"statusCas", "statusAck"} => aSeen.max \in AllWindows

\* the two token channels: filled once, by the one Stop and the one CloseWindow
TokenInv ==
  /\ ~stopped => stopTokens = 0
  /\ sOnce # "done" => sTokens = 0

IInv ==
  /\ WriterTypeOK /\ SendTypeOK /\ DataTypeOK /\ AcksTypeOK /\ PushTypeOK
  /\ QueueTypeOK /\ RecvTypeOK /\ ReaderTypeOK /\ HistoryTypeOK
  /\ ElemInv /\ DataInv /\ QueueInv /\ DueInv /\ AckInv /\ CreditInv
  /\ SendWindowInv /\ RecvWindowInv /\ TokenInv

-----------------------------------------------------------------------------
(* Sequences: what a pop and a push do to a contiguous run                 *)

LEMMA TailFacts ==
  ASSUME NEW S, NEW s \in Seq(S), s # <<>>
  PROVE  /\ Len(s) \in Nat \ {0} /\ Head(s) = s[1] /\ \A i \in 1..Len(s) : s[i] \in S
         /\ Tail(s) \in Seq(S) /\ Len(Tail(s)) = Len(s) - 1
         /\ \A i \in 1..Len(Tail(s)) : Tail(s)[i] = s[i+1]
         /\ Tail(s) = <<>> <=> Len(s) = 1
  <1>1. Len(s) \in Nat \ {0} BY LenProperties, EmptySeq
  <1>2. Head(s) = s[1] OBVIOUS
  <1>3. \A i \in 1..Len(s) : s[i] \in S BY ElementOfSeq
  <1>4. /\ Tail(s) \in Seq(S) /\ Len(Tail(s)) = Len(s) - 1
        /\ \A i \in 1..Len(Tail(s)) : Tail(s)[i] = s[i+1]
    BY HeadTailProperties
  <1>5. Tail(s) = <<>> <=> Len(Tail(s)) = 0 BY <1>4, EmptySeq
  <1> QED BY <1>1, <1>2, <1>3, <1>4, <1>5

LEMMA AppendFacts ==
  ASSUME NEW S, NEW s \in Seq(S), NEW x \in S
  PROVE  /\ Append(s, x) \in Seq(S) /\ Append(s, x) # <<>>
         /\ Len(s) \in Nat /\ Len(Append(s, x)) = Len(s) + 1
         /\ \A i \in 1..Len(s) : s[i] \in S /\ Append(s, x)[i] = s[i]
         /\ Append(s, x)[Len(s) + 1] = x
         /\ s = <<>> <=> Len(s) = 0
  BY AppendProperties, EmptySeq, LenProperties, ElementOfSeq

LEMMA ContiguousTail ==
  ASSUME NEW S, \A x \in S : x.from \in Nat /\ x.to \in Nat,
         NEW s \in Seq(S), s # <<>>, Contiguous(s)
  PROVE  /\ Contiguous(Tail(s))
         /\ First(s) = Head(s).from /\ Head(s).from <= Head(s).to
         /\ Tail(s) = <<>> => End(s) = Head(s).to
         /\ Tail(s) # <<>> => /\ First(Tail(s)) = Head(s).to
                              /\ End(Tail(s)) = End(s) /\ Head(s).to <= End(s)
         /\ First(s) <= End(s) /\ Head(s).to <= End(s)
         /\ Head(s) \in S /\ Tail(s) \in Seq(S) /\ First(s) \in Nat /\ End(s) \in Nat
  BY TailFacts, SMTT(60) DEF Contiguous, First, End

LEMMA ContiguousAppend ==
  ASSUME NEW S, \A y \in S : y.from \in Nat /\ y.to \in Nat,
         NEW s \in Seq(S), Contiguous(s), NEW x \in S, x.from <= x.to,
         s # <<>> => End(s) = x.from
  PROVE  /\ Contiguous(Append(s, x)) /\ Append(s, x) \in Seq(S) /\ Append(s, x) # <<>>
         /\ End(Append(s, x)) = x.to
         /\ First(Append(s, x)) = (IF s = <<>> THEN x.from ELSE First(s))
         /\ s # <<>> => First(s) \in Nat /\ End(s) \in Nat /\ First(s) <= End(s)
  <1> DEFINE t == Append(s, x)
  <1>1. /\ t \in Seq(S) /\ t # <<>> /\ Len(s) \in Nat /\ Len(t) = Len(s) + 1
        /\ \A i \in 1..Len(s) : s[i] \in S /\ t[i] = s[i]
        /\ t[Len(s) + 1] = x
        /\ s = <<>> <=> Len(s) = 0
    BY AppendFacts
  <1> HIDE DEF t
  <1>2. s # <<>> => End(s) = s[Len(s)].to /\ Len(s) \in 1..Len(s) BY <1>1 DEF End
  <1>3. \A i \in 1..Len(s) : s[i].from <= s[i].to /\ s[i].to <= x.from
    BY <1>1, <1>2, SMTT(60) DEF Contiguous
  <1>4. Contiguous(t)
    <2>1. ASSUME NEW i \in 1..Len(t) PROVE t[i].from <= t[i].to
      <3>1. i \in 1..Len(s) \/ i = Len(s) + 1 BY <1>1
      <3> QED BY <3>1, <1>1, <1>3
    <2>2. ASSUME NEW i \in 1..Len(t), i < Len(t) PROVE t[i].to = t[i+1].from
      <3>1. i \in 1..Len(s) /\ (i + 1 \in 1..Len(s) \/ i = Len(s)) BY <2>2, <1>1
      <3> QED BY <3>1, <1>1, <1>2 DEF Contiguous
    <2>3. ASSUME NEW i \in 1..Len(t), NEW j \in 1..Len(t), i < j
          PROVE  t[i].to <= t[j].from
      <3>1. i \in 1..Len(s) /\ (j \in 1..Len(s) \/ j = Len(s) + 1) BY <2>3, <1>1
      <3> QED BY <3>1, <2>3, <1>1, <1>3 DEF Contiguous
    <2> QED BY <2>1, <2>2, <2>3 DEF Contiguous
  <1>5. End(t) = x.to BY <1>1 DEF End
  <1>6. First(t) = (IF s = <<>> THEN x.from ELSE First(s)) BY <1>1 DEF First
  <1>7. s # <<>> => First(s) \in Nat /\ End(s) \in Nat /\ First(s) <= End(s)
    BY <1>1, <1>2, <1>3 DEF First, End, Contiguous
  <1> QED BY <1>1, <1>4, <1>5, <1>6, <1>7 DEF t

LEMMA ElementTypes ==
  /\ \A x \in DataMsgs : x.from \in Nat /\ x.to \in Nat
  /\ \A x \in Elements : x.from \in Nat /\ x.to \in Nat /\ Size(x) = x.to - x.from
  /\ \A x \in DataMsgs : NewElement(x) \in Elements
  /\ \A x \in DataMsgs : NewElement(x).from = x.from /\ NewElement(x).to = x.to
  /\ NoElement \in Elements /\ Nil \in Elements
  BY DEF DataMsgs, Elements, NewElement, Element, NoElement, Nil, Size

\* what readSession takes from data is the stretch that follows taken
LEMMA TakeFacts ==
  ASSUME IInv, data # <<>>
  PROVE  /\ Head(data) \in DataMsgs /\ Tail(data) \in Seq(DataMsgs)
         /\ Contiguous(Tail(data))
         /\ Head(data).from = taken /\ taken <= Head(data).to
         /\ Tail(data) = <<>> => Head(data).to = Pushed
         /\ Tail(data) # <<>> => /\ First(Tail(data)) = Head(data).to
                                 /\ End(Tail(data)) = Pushed
         /\ Head(data).to <= Pushed
         /\ Head(data).kind = "close" => Head(data).to = taken
         /\ \A i \in 1..Len(Tail(data)) :
              Tail(data)[i].kind = "close" => Tail(data)[i].from = Tail(data)[i].to
  <1>1. data \in Seq(DataMsgs) /\ Contiguous(data) BY DEF IInv, DataTypeOK, DataInv
  <1>2. /\ Head(data) = data[1] /\ 1 \in 1..Len(data)
        /\ \A i \in 1..Len(Tail(data)) : Tail(data)[i] = data[i+1] /\ i + 1 \in 1..Len(data)
    BY <1>1, TailFacts
  <1>3. /\ Contiguous(Tail(data)) /\ First(data) = Head(data).from
        /\ Head(data).from <= Head(data).to
        /\ Tail(data) = <<>> => End(data) = Head(data).to
        /\ Tail(data) # <<>> => /\ First(Tail(data)) = Head(data).to
                                /\ End(Tail(data)) = End(data)
        /\ Head(data).to <= End(data)
        /\ Head(data) \in DataMsgs /\ Tail(data) \in Seq(DataMsgs)
    BY <1>1, ElementTypes, ContiguousTail
  <1> QED BY <1>1, <1>2, <1>3 DEF IInv, DataInv

\* what TryPop takes is the first stretch of the queue
LEMMA PopFacts ==
  ASSUME IInv, TryPop
  PROVE  /\ queue' \in Seq(Elements) /\ Contiguous(queue') /\ qLength' \in Nat
         /\ Head(queue) \in Elements /\ Head(queue).from <= Head(queue).to
         /\ queue # <<>> /\ First(queue) = Head(queue).from
         /\ queue' # <<>> => First(queue') = Head(queue).to /\ End(queue') = End(queue)
         /\ qLength' = (IF queue' = <<>> THEN 0 ELSE End(queue') - First(queue'))
                       + (IF Counted THEN Size(cur) ELSE 0)
         /\ InHand => Head(queue).to <= cur.from
         /\ Head(queue).to <= taken /\ Head(queue).from \in Nat /\ Head(queue).to \in Nat
  <1>1. queue \in Seq(Elements) /\ queue # <<>> /\ Contiguous(queue)
    BY DEF IInv, QueueTypeOK, QueueInv, TryPop
  <1>2. /\ Contiguous(Tail(queue)) /\ First(queue) = Head(queue).from
        /\ Head(queue).from <= Head(queue).to
        /\ Tail(queue) = <<>> => End(queue) = Head(queue).to
        /\ Tail(queue) # <<>> => /\ First(Tail(queue)) = Head(queue).to
                                 /\ End(Tail(queue)) = End(queue)
        /\ First(queue) <= End(queue) /\ Head(queue).to <= End(queue)
        /\ Head(queue) \in Elements /\ Tail(queue) \in Seq(Elements)
        /\ First(queue) \in Nat /\ End(queue) \in Nat
    BY <1>1, ElementTypes, ContiguousTail
  <1>3. queue' = Tail(queue) /\ qLength' = qLength - Size(Head(queue)) BY DEF TryPop
  <1>4. Head(queue).from \in Nat /\ Head(queue).to \in Nat /\ cur \in Elements
        /\ cur.from \in Nat /\ cur.to \in Nat /\ cur.from <= cur.to
        /\ Size(cur) = cur.to - cur.from
        /\ Size(Head(queue)) = Head(queue).to - Head(queue).from
    BY <1>2, ElementTypes DEF IInv, PushTypeOK, QueueInv
  <1>5. qLength' = (IF queue' = <<>> THEN 0 ELSE End(queue') - First(queue'))
                   + (IF Counted THEN Size(cur) ELSE 0)
    <2>1. qLength = End(queue) - First(queue) + (IF Counted THEN Size(cur) ELSE 0)
      BY <1>1 DEF IInv, QueueInv
    <2>2. (IF Counted THEN Size(cur) ELSE 0) \in Nat BY <1>4
    <2>3. CASE Tail(queue) = <<>> BY <2>1, <2>2, <2>3, <1>2, <1>3, <1>4, SMTT(60)
    <2>4. CASE Tail(queue) # <<>>
      <3>1. queue' # <<>> /\ End(queue') = End(queue) /\ First(queue') = Head(queue).to
        BY <2>4, <1>2, <1>3
      <3>2. qLength' = qLength - (Head(queue).to - Head(queue).from) BY <1>3, <1>4
      <3>3. /\ First(queue) = Head(queue).from /\ End(queue) \in Nat
            /\ Head(queue).from \in Nat /\ Head(queue).to \in Nat
        BY <1>2, <1>4
      <3> QED BY <3>1, <3>2, <3>3, <2>1, <2>2, SMTT(60)
    <2> QED BY <2>3, <2>4
  <1>6. queue' # <<>> => First(queue') \in Nat /\ End(queue') \in Nat
                         /\ First(queue') <= End(queue')
    BY <1>2, <1>3, <1>4
  <1>7. qLength' \in Nat BY <1>4, <1>5, <1>6
  <1>8. (InHand => Head(queue).to <= cur.from) /\ Head(queue).to <= taken
    BY <1>1, <1>2, <1>4, SMTT(60) DEF IInv, QueueInv, HistoryTypeOK
  <1> QED BY <1>1, <1>2, <1>3, <1>4, <1>5, <1>7, <1>8

LEMMA DueFacts ==
  ASSUME IInv
  PROVE  /\ Due \in Nat /\ Size(elem) \in Nat /\ Size(elem) = elem.to - elem.from
         /\ elem.from \in Nat /\ elem.to \in Nat /\ counted \in Nat /\ eOff \in Nat
         /\ Size(cur) \in Nat /\ cur.from \in Nat /\ cur.to \in Nat
         /\ Size(cur) = cur.to - cur.from
         /\ queue # <<>> => First(queue) \in Nat /\ End(queue) \in Nat
                            /\ First(queue) <= End(queue)
  <1>1. /\ elem \in Elements /\ cur \in Elements /\ counted \in Nat
        /\ elem.from <= elem.to /\ cur.from <= cur.to /\ eOff \in Nat
    BY DEF IInv, ReaderTypeOK, PushTypeOK, HistoryTypeOK, ElemInv, QueueInv
  <1>2. /\ elem.from \in Nat /\ elem.to \in Nat /\ Size(elem) = elem.to - elem.from
        /\ cur.from \in Nat /\ cur.to \in Nat /\ Size(cur) = cur.to - cur.from
    BY <1>1, ElementTypes
  <1>3. Size(elem) \in Nat /\ Size(cur) \in Nat BY <1>1, <1>2
  <1>4. Due \in Nat BY <1>1, <1>3 DEF Due
  <1>5. queue # <<>> => First(queue) \in Nat /\ End(queue) \in Nat
                        /\ First(queue) <= End(queue)
    BY ElementTypes, ContiguousTail DEF IInv, QueueTypeOK, QueueInv
  <1> QED BY <1>1, <1>2, <1>3, <1>4, <1>5

\* an element that the reader takes from the queue is due up to its end at most
LEMMA PoppedElement ==
  ASSUME IInv, TryPop, ~Unfinished, elem' = Head(queue), eOff' = 0, UNCHANGED counted
  PROVE  /\ elem'.from <= elem'.to /\ eOff' <= Size(elem')
         /\ Due' \in Nat /\ Due' <= Head(queue).to
  <1>1. /\ Size(Head(queue)) = Head(queue).to - Head(queue).from
        /\ Head(queue).from \in Nat /\ Head(queue).to \in Nat
        /\ Head(queue).from <= Head(queue).to
    BY PopFacts, ElementTypes
  <1>2. Size(elem') = Size(Head(queue)) OBVIOUS
  <1>3. Due = counted /\ counted \in Nat BY DueFacts DEF Due
  <1>4. Due' = counted \/ Due' = counted + Size(elem')
    BY <1>1, <1>2, <1>3 DEF Due, Size
  <1>5. counted <= Head(queue).from BY <1>3, PopFacts DEF IInv, DueInv
  <1> QED BY <1>1, <1>2, <1>3, <1>4, <1>5

\* a due count that ends in the popped stretch is due to what stays behind it too
LEMMA PoppedDue ==
  ASSUME IInv, TryPop, UNCHANGED <<cur, taken>>, InHand' <=> InHand,
         Due' \in Nat, Due' <= Head(queue).to
  PROVE  DueInv'
  <1>1. /\ Head(queue).to \in Nat /\ Head(queue).to <= taken
        /\ InHand => Head(queue).to <= cur.from
        /\ queue' # <<>> => First(queue') = Head(queue).to
    BY PopFacts
  <1>2. taken \in Nat /\ cur.from \in Nat BY DueFacts DEF IInv, HistoryTypeOK
  <1>3. Due' <= taken' BY <1>1, <1>2
  <1>4. InHand' => Due' <= cur'.from BY <1>1, <1>2
  <1>5. queue' # <<>> => Due' <= First(queue') BY <1>1
  <1> QED BY <1>3, <1>4, <1>5 DEF DueInv

LEMMA AckTypes ==
  ASSUME IInv
  PROVE  /\ off \in Nat /\ sWord.done \in Nat /\ acked \in Nat /\ Applied \in Nat
         /\ Applied = off - sWord.done
         /\ \A i \in 1..Len(acks) : acks[i] \in AckMsgs
         /\ \A m \in AckMsgs :
              m.kind = "ack" => m.read \in Nat /\ m.upto \in Nat /\ m.max \in Nat
  <1>1. off \in Nat /\ sWord.done \in Nat /\ acked \in Nat /\ sWord.done <= off
    BY DEF IInv, WriterTypeOK, SendTypeOK, HistoryTypeOK, Words, AckInv
  <1>2. \A i \in 1..Len(acks) : acks[i] \in AckMsgs
    BY ElementOfSeq DEF IInv, AcksTypeOK
  <1>3. \A m \in AckMsgs :
          m.kind = "ack" => m.read \in Nat /\ m.upto \in Nat /\ m.max \in Nat
    BY DEF AckMsgs
  <1> QED BY <1>1, <1>2, <1>3 DEF Applied

\* an update leaves acks and is applied in whole, or not at all
LEMMA TakeAck ==
  ASSUME IInv, acks # <<>>, acks' = Tail(acks), UNCHANGED <<off, acked>>,
         sWord' \in Words,
         \/ sWord'.done = sWord.done /\ sWord'.max = sWord.max
         \/ /\ Head(acks).kind = "ack" /\ sWord'.max = Head(acks).max
            /\ sWord'.done = sWord.done - Head(acks).read
  PROVE  /\ AcksTypeOK' /\ AckInv' /\ sWord'.done <= sWord.done
         /\ sWord'.max \in AllWindows
         /\ \A i \in 1..Len(acks') : acks'[i].kind = "ack" => acks'[i].max \in AllWindows
  <1>1. /\ acks' \in Seq(AckMsgs) /\ Head(acks) = acks[1] /\ 1 \in 1..Len(acks)
        /\ \A i \in 1..Len(acks') : acks'[i] = acks[i+1] /\ i + 1 \in 1..Len(acks)
    BY TailFacts DEF IInv, AcksTypeOK
  <1>2. sWord'.done \in Nat BY DEF Words
  <1>3. /\ Head(acks).kind = "ack" =>
             /\ Head(acks).read \in Nat /\ Head(acks).max \in AllWindows
             /\ Applied + Head(acks).read <= Head(acks).upto
             /\ Head(acks).upto <= acked /\ Head(acks).upto \in Nat
        /\ sWord.max \in AllWindows
    BY <1>1, AckTypes DEF IInv, AckInv, SendWindowInv
  <1>4. sWord'.done <= sWord.done /\ sWord'.max \in AllWindows
    BY <1>2, <1>3, AckTypes
  <1>5. /\ Applied' \in Nat /\ Applied' <= acked' /\ sWord'.done <= off'
        /\ \/ Applied' = Applied
           \/ Head(acks).kind = "ack" /\ Applied' = Applied + Head(acks).read
    <2>1. Applied' = off - sWord'.done BY DEF Applied
    <2>2. Applied <= acked /\ sWord.done <= off BY DEF IInv, AckInv
    <2>3. CASE sWord'.done = sWord.done BY <2>1, <2>2, <2>3, AckTypes
    <2>4. CASE Head(acks).kind = "ack" /\ sWord'.done = sWord.done - Head(acks).read
      <3>1. Applied' = Applied + Head(acks).read BY <2>1, <2>4, <1>3, AckTypes
      <3>2. /\ Applied + Head(acks).read <= acked /\ Head(acks).read \in Nat
            /\ Applied \in Nat
        BY <2>4, <1>3, AckTypes
      <3>3. sWord'.done <= off' BY <1>2, <1>4, <2>2, AckTypes
      <3> QED BY <3>1, <3>2, <3>3, <2>4
    <2> QED BY <2>3, <2>4
  <1>6. ASSUME NEW i \in 1..Len(acks'), acks'[i].kind = "ack"
        PROVE  /\ Applied' + acks'[i].read <= acks'[i].upto
               /\ acks'[i].upto <= acked' /\ acks'[i].max \in AllWindows
    <2>1. acks'[i] = acks[i+1] /\ i + 1 \in 1..Len(acks) /\ acks[i+1].kind = "ack"
      BY <1>1, <1>6
    <2>2. /\ acks[i+1].read \in Nat /\ acks[i+1].upto \in Nat
          /\ Applied + acks[i+1].read <= acks[i+1].upto
          /\ acks[i+1].upto <= acked /\ acks[i+1].max \in AllWindows
      BY <2>1, AckTypes DEF IInv, AckInv, SendWindowInv
    <2>3. Head(acks).kind = "ack" => Head(acks).upto + acks[i+1].read <= acks[i+1].upto
      BY <2>1, <1>1 DEF IInv, AckInv
    <2>4. Applied' + acks[i+1].read <= acks[i+1].upto
      <3>1. CASE Applied' = Applied BY <3>1, <2>2
      <3>2. CASE Head(acks).kind = "ack" /\ Applied' = Applied + Head(acks).read
        <4>1. /\ Applied \in Nat /\ Head(acks).read \in Nat /\ Head(acks).upto \in Nat
              /\ Applied + Head(acks).read <= Head(acks).upto
              /\ Head(acks).upto + acks[i+1].read <= acks[i+1].upto
          BY <3>2, <2>3, <1>3, AckTypes
        <4> QED BY <4>1, <3>2, <2>2, SMTT(60)
      <3> QED BY <3>1, <3>2, <1>5
    <2> QED BY <2>1, <2>2, <2>4
  <1>7. ASSUME NEW i \in 1..Len(acks'), NEW j \in 1..Len(acks'), i < j,
               acks'[i].kind = "ack", acks'[j].kind = "ack"
        PROVE  acks'[i].upto + acks'[j].read <= acks'[j].upto
    BY <1>1, <1>7 DEF IInv, AckInv
  <1> QED BY <1>1, <1>4, <1>5, <1>6, <1>7 DEF AcksTypeOK, AckInv

\* an update joins acks with the credit that acked grows by
LEMMA AddAck ==
  ASSUME IInv, NEW m \in AckMsgs, acks' = Append(acks, m), UNCHANGED <<off, sWord>>,
         acked' \in Nat,
         \/ m.kind = "close" /\ acked' = acked
         \/ /\ m.kind = "ack" /\ m.upto = acked' /\ acked' = acked + m.read
            /\ m.max \in AllWindows
  PROVE  /\ AcksTypeOK' /\ AckInv'
         /\ \A i \in 1..Len(acks') : acks'[i].kind = "ack" => acks'[i].max \in AllWindows
  <1>1. /\ acks' \in Seq(AckMsgs) /\ Len(acks) \in Nat /\ Len(acks') = Len(acks) + 1
        /\ \A i \in 1..Len(acks) : acks[i] \in AckMsgs /\ acks'[i] = acks[i]
        /\ acks'[Len(acks) + 1] = m
    BY AppendFacts DEF IInv, AcksTypeOK
  <1>2. /\ Applied' = Applied /\ Applied <= acked /\ acked <= acked'
        /\ m.kind = "ack" => m.read \in Nat
    BY AckTypes DEF Applied, IInv, AckInv
  <1>3. ASSUME NEW i \in 1..Len(acks'), acks'[i].kind = "ack"
        PROVE  /\ Applied' + acks'[i].read <= acks'[i].upto
               /\ acks'[i].upto <= acked' /\ acks'[i].max \in AllWindows
    <2>1. CASE i \in 1..Len(acks)
      <3>1. acks'[i] = acks[i] /\ acks[i].upto \in Nat BY <1>1, <1>3, <2>1, AckTypes
      <3> QED BY <3>1, <2>1, <1>2, <1>3, AckTypes DEF IInv, AckInv, SendWindowInv
    <2>2. CASE i = Len(acks) + 1
      <3>1. acks'[i] = m BY <1>1, <2>2
      <3> QED BY <3>1, <1>2, <1>3, AckTypes, SMTT(60)
    <2> QED BY <2>1, <2>2, <1>1
  <1>4. ASSUME NEW i \in 1..Len(acks'), NEW j \in 1..Len(acks'), i < j,
               acks'[i].kind = "ack", acks'[j].kind = "ack"
        PROVE  acks'[i].upto + acks'[j].read <= acks'[j].upto
    <2>1. i \in 1..Len(acks) /\ acks'[i] = acks[i] BY <1>1, <1>4
    <2>2. CASE j \in 1..Len(acks)
      BY <2>1, <2>2, <1>1, <1>4 DEF IInv, AckInv
    <2>3. CASE j = Len(acks) + 1
      <3>1. acks'[j] = m BY <1>1, <2>3
      <3>2. acks[i].upto <= acked /\ acks[i].upto \in Nat
        BY <2>1, <1>4, AckTypes DEF IInv, AckInv
      <3>3. m.kind = "ack" /\ acks'[j].read = m.read /\ acks'[j].upto = m.upto
        BY <1>4, <3>1
      <3>4. m.upto = acked + m.read /\ m.read \in Nat /\ acked \in Nat
        BY <1>2, <3>3, AckTypes
      <3>5. acks[i].upto + m.read <= acked + m.read
        BY <3>2, <3>4
      <3> QED BY <2>1, <3>3, <3>4, <3>5
    <2> QED BY <2>2, <2>3, <1>1
  <1>5. sWord'.done <= off' /\ Applied' <= acked'
    BY <1>2, AckTypes, SMTT(60) DEF IInv, AckInv
  <1> QED BY <1>1, <1>3, <1>4, <1>5 DEF AcksTypeOK, AckInv

LEMMA CreditTypes ==
  ASSUME IInv
  PROVE  /\ acked \in Nat /\ counted \in Nat /\ PushCredit \in Nat /\ StatusCredit \in Nat
         /\ rWord \in Words /\ pSeen \in Words /\ aSeen \in Words
         /\ rWord.done \in Nat /\ pSeen.done \in Nat /\ aSeen.done \in Nat
         /\ pWait \in BOOLEAN
  <1>1. /\ acked \in Nat /\ counted \in Nat /\ pWait \in BOOLEAN
        /\ rWord \in Words /\ pSeen \in Words /\ aSeen \in Words
    BY DEF IInv, HistoryTypeOK, RecvTypeOK, PushTypeOK, ReaderTypeOK
  <1>2. rWord.done \in Nat /\ pSeen.done \in Nat /\ aSeen.done \in Nat BY <1>1 DEF Words
  <1> QED BY <1>1, <1>2, DueFacts, SMTT(60) DEF PushCredit, StatusCredit

\* what sendInfo puts behind the data is the stretch that begins at Pushed
LEMMA AddMsg ==
  ASSUME IInv, NEW m \in DataMsgs, m.from = Pushed, m.to = Pushed', m.from <= m.to,
         m.kind = "close" => m.from = m.to,
         data' = Append(data, m), UNCHANGED taken, wpc' = "push" => seg' <= off'
  PROVE  DataTypeOK' /\ DataInv'
  <1>1. data \in Seq(DataMsgs) /\ Contiguous(data) BY DEF IInv, DataTypeOK, DataInv
  <1>2. data # <<>> => End(data) = m.from /\ First(data) = taken
    BY DEF IInv, DataInv
  <1>3. /\ Contiguous(data') /\ data' \in Seq(DataMsgs) /\ data' # <<>>
        /\ End(data') = m.to
        /\ First(data') = (IF data = <<>> THEN m.from ELSE First(data))
    BY <1>1, <1>2, ElementTypes, ContiguousAppend
  <1>4. First(data') = taken' BY <1>2, <1>3 DEF IInv, DataInv
  <1>5. \A i \in 1..Len(data') : data'[i].kind = "close" => data'[i].from = data'[i].to
    <2>1. /\ Len(data) \in Nat /\ Len(data') = Len(data) + 1 /\ data'[Len(data) + 1] = m
          /\ \A i \in 1..Len(data) : data'[i] = data[i]
      BY <1>1, AppendFacts
    <2>2. ASSUME NEW i \in 1..Len(data'), data'[i].kind = "close"
          PROVE  data'[i].from = data'[i].to
      <3>1. CASE i \in 1..Len(data) BY <3>1, <2>1, <2>2 DEF IInv, DataInv
      <3>2. CASE i = Len(data) + 1 BY <3>2, <2>1, <2>2
      <3> QED BY <3>1, <3>2, <2>1
    <2> QED BY <2>2
  <1>6. taken' <= Pushed'
    BY ElementTypes DEF IInv, DataInv, HistoryTypeOK
  <1> QED BY <1>3, <1>4, <1>5, <1>6 DEF DataTypeOK, DataInv

-----------------------------------------------------------------------------
(* Every action keeps the invariant                                        *)

USE DEF writerVars, sendVars, pushVars, queueVars, recvVars, readerVars, history

\* A part of the invariant goes on to hold while its variables do not change
LEMMA Frame ==
  /\ WriterTypeOK /\ UNCHANGED writerVars => WriterTypeOK'
  /\ SendTypeOK /\ UNCHANGED <<sendVars, spc>> => SendTypeOK'
  /\ DataTypeOK /\ UNCHANGED data => DataTypeOK'
  /\ AcksTypeOK /\ UNCHANGED acks => AcksTypeOK'
  /\ PushTypeOK /\ UNCHANGED pushVars => PushTypeOK'
  /\ QueueTypeOK /\ UNCHANGED queueVars => QueueTypeOK'
  /\ RecvTypeOK /\ UNCHANGED recvVars => RecvTypeOK'
  /\ ReaderTypeOK /\ UNCHANGED readerVars => ReaderTypeOK'
  /\ HistoryTypeOK /\ UNCHANGED history => HistoryTypeOK'
  /\ ElemInv /\ UNCHANGED <<rpc, elem, eOff>> => ElemInv'
  /\ DataInv /\ UNCHANGED <<wpc, off, seg, data, taken>> => DataInv'
  /\ QueueInv /\ UNCHANGED <<rrpc, cur, qLength, queue, rIsClose, rOnce, taken>>
       => QueueInv'
  /\ DueInv /\ UNCHANGED <<rrpc, cur, queue, rpc, elem, eOff, counted, taken>>
       => DueInv'
  /\ AckInv /\ UNCHANGED <<off, sWord, acks, acked>> => AckInv'
  /\ CreditInv /\ UNCHANGED <<rrpc, pSeen, pWait, rWord, rpc, elem, aSeen, counted, acked>>
       => CreditInv'
  /\ SendWindowInv /\ UNCHANGED <<wpc, seg, sWord, acks>> => SendWindowInv'
  /\ RecvWindowInv /\ UNCHANGED <<rrpc, pSeen, rWord, rpc, aSeen>> => RecvWindowInv'
  /\ TokenInv /\ UNCHANGED <<sTokens, sOnce, stopTokens, stopped>> => TokenInv'
  <1>1. WriterTypeOK /\ UNCHANGED writerVars => WriterTypeOK' BY DEF WriterTypeOK
  <1>2. SendTypeOK /\ UNCHANGED <<sendVars, spc>> => SendTypeOK' BY DEF SendTypeOK
  <1>3. DataTypeOK /\ UNCHANGED data => DataTypeOK' BY DEF DataTypeOK
  <1>4. AcksTypeOK /\ UNCHANGED acks => AcksTypeOK' BY DEF AcksTypeOK
  <1>5. PushTypeOK /\ UNCHANGED pushVars => PushTypeOK' BY DEF PushTypeOK
  <1>6. QueueTypeOK /\ UNCHANGED queueVars => QueueTypeOK' BY DEF QueueTypeOK
  <1>7. RecvTypeOK /\ UNCHANGED recvVars => RecvTypeOK' BY DEF RecvTypeOK
  <1>8. ReaderTypeOK /\ UNCHANGED readerVars => ReaderTypeOK' BY DEF ReaderTypeOK
  <1>9. HistoryTypeOK /\ UNCHANGED history => HistoryTypeOK' BY DEF HistoryTypeOK
  <1>10. ElemInv /\ UNCHANGED <<rpc, elem, eOff>> => ElemInv'
    BY DEF ElemInv, Exhausted, Size
  <1>11. DataInv /\ UNCHANGED <<wpc, off, seg, data, taken>> => DataInv'
    BY DEF DataInv, Pushed, Contiguous, First, End
  <1>12. QueueInv /\ UNCHANGED <<rrpc, cur, qLength, queue, rIsClose, rOnce, taken>>
           => QueueInv'
    BY DEF QueueInv, InHand, Counted, Size, Contiguous, First, End
  <1>13. DueInv /\ UNCHANGED <<rrpc, cur, queue, rpc, elem, eOff, counted, taken>>
           => DueInv'
    BY DEF DueInv, InHand, Due, Unfinished, Exhausted, Size, First
  <1>14. AckInv /\ UNCHANGED <<off, sWord, acks, acked>> => AckInv' BY DEF AckInv, Applied
  <1>15. CreditInv
         /\ UNCHANGED <<rrpc, pSeen, pWait, rWord, rpc, elem, aSeen, counted, acked>>
           => CreditInv'
    BY DEF CreditInv, PushCredit, StatusCredit, Size
  <1>16. SendWindowInv /\ UNCHANGED <<wpc, seg, sWord, acks>> => SendWindowInv'
    BY DEF SendWindowInv
  <1>17. RecvWindowInv /\ UNCHANGED <<rrpc, pSeen, rWord, rpc, aSeen>> => RecvWindowInv'
    BY DEF RecvWindowInv
  <1>18. TokenInv /\ UNCHANGED <<sTokens, sOnce, stopTokens, stopped>> => TokenInv'
    BY DEF TokenInv
  <1> QED
    BY <1>1, <1>2, <1>3, <1>4, <1>5, <1>6, <1>7, <1>8, <1>9, <1>10, <1>11, <1>12, <1>13,
       <1>14, <1>15, <1>16, <1>17, <1>18
LEMMA WriteKeeps ==
  ASSUME StreamAssumption, IInv, NEW n \in 1..Total, Write(n)
  PROVE  IInv'
  <1>1. WriterTypeOK' BY DEF IInv, Write, WriterTypeOK, Words, WPcs
  <1>2. DataInv' BY DEF IInv, Write, DataInv, Pushed, End, First, Contiguous
  <1>3. SendWindowInv' BY DEF IInv, Write, SendWindowInv, AllWindows
  <1> QED BY <1>1, <1>2, <1>3, Frame DEF IInv, Write

LEMMA WriteToKeeps ==
  ASSUME StreamAssumption, IInv, WriteTo
  PROVE  IInv'
  <1>1. WriterTypeOK' BY DEF IInv, WriteTo, LoadWindow, SegmentSize, Lesser, Remaining,
       WriterTypeOK, Words, WPcs, SendTypeOK
  <1>2. DataInv' BY DEF IInv, WriteTo, LoadWindow, SegmentSize, Lesser, Remaining,
       DataInv, Pushed, End, First, Contiguous
  <1>3. SendWindowInv' BY DEF IInv, WriteTo, LoadWindow, SegmentSize, Lesser, Remaining,
       SendWindowInv, AllWindows, WriterTypeOK, Words, WPcs, SendTypeOK, AcksTypeOK,
       AckMsgs
  <1> QED BY <1>1, <1>2, <1>3, Frame DEF IInv, WriteTo

LEMMA WriteToStartKeeps ==
  ASSUME StreamAssumption, IInv, WriteToStart
  PROVE  IInv'
  <1>1. WriterTypeOK' BY DEF IInv, WriteToStart, LoadWindow, SegmentSize, Lesser,
       Remaining, WriterTypeOK, Words, WPcs, SendTypeOK
  <1>2. DataInv' BY DEF IInv, WriteToStart, LoadWindow, SegmentSize, Lesser, Remaining,
       DataInv, Pushed, End, First, Contiguous
  <1>3. SendWindowInv' BY DEF IInv, WriteToStart, LoadWindow, SegmentSize, Lesser,
       Remaining, SendWindowInv, AllWindows, WriterTypeOK, Words, WPcs, SendTypeOK,
       AcksTypeOK, AckMsgs
  <1> QED BY <1>1, <1>2, <1>3, Frame DEF IInv, WriteToStart

LEMMA MarkWaitingKeeps ==
  ASSUME StreamAssumption, IInv, MarkWaiting
  PROVE  IInv'
  <1>1. WriterTypeOK' BY DEF IInv, MarkWaiting, NoWord, Word, MarkSucceeds,
       WriterTypeOK, Words, WPcs
  <1>2. SendTypeOK' BY DEF IInv, MarkWaiting, NoWord, Word, MarkSucceeds, SendTypeOK,
       Words
  <1>3. DataInv' BY DEF IInv, MarkWaiting, NoWord, Word, MarkSucceeds, DataInv, Pushed,
       End, First, Contiguous
  <1>4. AckInv' BY DEF IInv, MarkWaiting, NoWord, Word, MarkSucceeds, AckInv, Applied,
       SendTypeOK, Words
  <1>5. SendWindowInv' BY DEF IInv, MarkWaiting, NoWord, Word, MarkSucceeds,
       SendWindowInv, AllWindows, WriterTypeOK, Words, WPcs, SendTypeOK
  <1> QED BY <1>1, <1>2, <1>3, <1>4, <1>5, Frame DEF IInv, MarkWaiting

LEMMA WaitFailsKeeps ==
  ASSUME StreamAssumption, IInv, WaitFails
  PROVE  IInv'
  <1>1. WriterTypeOK' BY DEF IInv, WaitFails, WriterTypeOK, Words, WPcs
  <1>2. SendTypeOK' BY DEF IInv, WaitFails, SendTypeOK, Words
  <1>3. DataInv' BY DEF IInv, WaitFails, DataInv, Pushed, End, First, Contiguous
  <1>4. SendWindowInv' BY DEF IInv, WaitFails, SendWindowInv, AllWindows
  <1>5. TokenInv' BY DEF IInv, WaitFails, TokenInv
  <1> QED BY <1>1, <1>2, <1>3, <1>4, <1>5, Frame DEF IInv, WaitFails

LEMMA SentKeeps ==
  ASSUME StreamAssumption, IInv, Sent
  PROVE  IInv'
  <1>1. WriterTypeOK' BY DEF IInv, Sent, WriterTypeOK, Words, WPcs
  <1>2. SendTypeOK' BY DEF IInv, Sent, SendTypeOK, Words, WriterTypeOK, WPcs
  <1>3. DataInv'
    <2>1. Pushed' = Pushed /\ UNCHANGED <<data, taken>> /\ seg' <= off'
      BY DEF Sent, Pushed, IInv, WriterTypeOK
    <2> QED BY <2>1 DEF IInv, DataInv
  <1>4. AckInv' BY SMTT(60) DEF IInv, Sent, AckInv, Applied, WriterTypeOK, Words, WPcs,
       SendTypeOK
  <1>5. SendWindowInv' BY DEF IInv, Sent, SendWindowInv, AllWindows, WriterTypeOK,
       Words, WPcs, SendTypeOK
  <1> QED BY <1>1, <1>2, <1>3, <1>4, <1>5, Frame DEF IInv, Sent

LEMMA PushDataKeeps ==
  ASSUME StreamAssumption, IInv, PushData
  PROVE  IInv'
  <1>0. LET m == Msg(Element(off - seg, off, off < end))
        IN /\ m \in DataMsgs /\ m.kind = "msg" /\ m.from = Pushed /\ m.to = off
           /\ m.from <= m.to /\ data' = Append(data, m)
    BY DEF PushData, Msg, Element, DataMsgs, Pushed, IInv, WriterTypeOK, DataInv
  <1>1. WriterTypeOK' BY DEF IInv, PushData, Element, Msg, WriterTypeOK, Words, WPcs
  <1>2. DataTypeOK' BY <1>0, AddMsg DEF PushData, Pushed
  <1>3. DataInv' BY <1>0, AddMsg DEF PushData, Pushed, IInv, WriterTypeOK
  <1>4. SendWindowInv' BY DEF IInv, PushData, Element, Msg, SendWindowInv, AllWindows
  <1> QED BY <1>1, <1>2, <1>3, <1>4, Frame DEF IInv, PushData

LEMMA WriterCloseBeginKeeps ==
  ASSUME StreamAssumption, IInv, WriterCloseBegin
  PROVE  IInv'
  <1>1. SendTypeOK' BY DEF IInv, WriterCloseBegin, SendTypeOK, Words
  <1>2. TokenInv' BY DEF IInv, WriterCloseBegin, TokenInv
  <1> QED BY <1>1, <1>2, Frame DEF IInv, WriterCloseBegin

LEMMA WriterCloseInformKeeps ==
  ASSUME StreamAssumption, IInv, WriterCloseInform
  PROVE  IInv'
  <1>0. LET m == ConnClose(Pushed)
        IN /\ m \in DataMsgs /\ m.from = Pushed /\ m.to = Pushed /\ m.from <= m.to
           /\ data' = Append(data, m) /\ Pushed' = Pushed /\ Pushed \in Nat
    BY DEF WriterCloseInform, Inform, ConnClose, DataMsgs, Pushed, IInv, WriterTypeOK, DataInv
  <1>1. SendTypeOK' BY DEF IInv, WriterCloseInform, Pushed, Inform, ConnClose,
       SendTypeOK, Words
  <1>2. DataTypeOK' BY <1>0, AddMsg DEF WriterCloseInform, IInv, DataInv
  <1>3. HistoryTypeOK' BY <1>0 DEF WriterCloseInform, IInv, HistoryTypeOK
  <1>4. DataInv' BY <1>0, AddMsg DEF WriterCloseInform, IInv, DataInv
  <1>5. TokenInv' BY DEF IInv, WriterCloseInform, Pushed, Inform, ConnClose, TokenInv
  <1> QED BY <1>1, <1>2, <1>3, <1>4, <1>5, Frame DEF IInv, WriterCloseInform

LEMMA WriterCloseWindowKeeps ==
  ASSUME StreamAssumption, IInv, WriterCloseWindow
  PROVE  IInv'
  <1>1. SendTypeOK' BY DEF IInv, WriterCloseWindow, CloseTokens, SendTypeOK, Words
  <1>2. TokenInv' BY DEF IInv, WriterCloseWindow, CloseTokens, TokenInv
  <1> QED BY <1>1, <1>2, Frame DEF IInv, WriterCloseWindow

LEMMA RecvAckKeeps ==
  ASSUME StreamAssumption, IInv, RecvAck
  PROVE  IInv'
  <1>0. /\ sWord' \in Words
        /\ \/ sWord'.done = sWord.done /\ sWord'.max = sWord.max
           \/ /\ Head(acks).kind = "ack" /\ sWord'.max = Head(acks).max
              /\ sWord'.done = sWord.done - Head(acks).read
    <2>1. sWord \in Words BY DEF IInv, SendTypeOK
    <2>2. CASE UNCHANGED sWord BY <2>1, <2>2
    <2>3. CASE ~UNCHANGED sWord
      <3>1. Head(acks) = acks[1] /\ 1 \in 1..Len(acks) /\ Head(acks).kind = "ack"
        BY TailFacts DEF RecvAck, IInv, AcksTypeOK
      <3>2. Head(acks).read \in Nat /\ Head(acks).max \in Nat BY <3>1, AckTypes
      <3>3. /\ ~(Head(acks).read > sWord.done)
            /\ sWord' = Word(Head(acks).max, sWord.done - Head(acks).read,
                             sWord.wait /\ Remaining(Head(acks).max,
                                                     sWord.done - Head(acks).read) = 0)
        BY <2>3 DEF RecvAck, SetSize
      <3>4. sWord.done - Head(acks).read \in Nat BY <3>2, <3>3, AckTypes
      <3>5. (sWord.wait /\ Remaining(Head(acks).max, sWord.done - Head(acks).read) = 0)
              \in BOOLEAN
        BY <2>1 DEF Words
      <3> QED BY <3>1, <3>2, <3>3, <3>4, <3>5 DEF Word, Words
    <2> QED BY <2>2, <2>3
  <1>1. SendTypeOK'
    <2>1. sWord' \in Words BY <1>0
    <2>2. spc' \in {"idle", "allow"} /\ setSizeClosed' \in BOOLEAN
      BY DEF RecvAck, SetSize, IInv, SendTypeOK
    <2> QED BY <2>1, <2>2 DEF RecvAck, IInv, SendTypeOK
  <1>2. AcksTypeOK' BY <1>0, TakeAck DEF RecvAck
  <1>3. AckInv' BY <1>0, TakeAck DEF RecvAck
  <1>4. SendWindowInv'
    <2>1. /\ sWord'.max \in AllWindows /\ sWord'.done <= sWord.done
          /\ \A i \in 1..Len(acks') : acks'[i].kind = "ack" => acks'[i].max \in AllWindows
      BY <1>0, TakeAck DEF RecvAck
    <2>2. UNCHANGED <<wpc, seg>> BY DEF RecvAck
    <2>3. PICK w \in AllWindows : sWord.done + (IF wpc = "sent" THEN seg ELSE 0) <= w
      BY DEF IInv, SendWindowInv
    <2>4. sWord'.done \in Nat /\ sWord.done \in Nat /\ seg \in Nat /\ w \in Nat
      BY <1>0, AckTypes, StreamAssumption DEF Words, IInv, WriterTypeOK, AllWindows
    <2>5. sWord'.done + (IF wpc' = "sent" THEN seg' ELSE 0) <= w
      BY <2>1, <2>2, <2>3, <2>4
    <2> QED BY <2>1, <2>5 DEF SendWindowInv
  <1> QED BY <1>1, <1>2, <1>3, <1>4, Frame DEF IInv, RecvAck

LEMMA AllowWriterKeeps ==
  ASSUME StreamAssumption, IInv, AllowWriter
  PROVE  IInv'
  <1>1. WriterTypeOK' BY DEF IInv, AllowWriter, WriterTypeOK, Words, WPcs
  <1>2. SendTypeOK' BY DEF IInv, AllowWriter, SendTypeOK, Words
  <1>3. DataInv' BY DEF IInv, AllowWriter, DataInv, Pushed, End, First, Contiguous
  <1>4. SendWindowInv' BY DEF IInv, AllowWriter, SendWindowInv, AllWindows
  <1> QED BY <1>1, <1>2, <1>3, <1>4, Frame DEF IInv, AllowWriter

LEMMA AllowClosedKeeps ==
  ASSUME StreamAssumption, IInv, AllowClosed
  PROVE  IInv'
  <1>1. SendTypeOK' BY DEF IInv, AllowClosed, SendTypeOK, Words
  <1>2. TokenInv' BY DEF IInv, AllowClosed, TokenInv
  <1> QED BY <1>1, <1>2, Frame DEF IInv, AllowClosed

LEMMA RecvPeerCloseKeeps ==
  ASSUME StreamAssumption, IInv, RecvPeerClose
  PROVE  IInv'
  <1>0. sWord' \in Words /\ UNCHANGED <<sWord, off, acked>>
    BY DEF RecvPeerClose, IInv, SendTypeOK
  <1>1. SendTypeOK' BY DEF IInv, RecvPeerClose, SendTypeOK, Words
  <1>2. AcksTypeOK' BY DEF IInv, RecvPeerClose, AcksTypeOK, AckMsgs
  <1>3. AckInv' BY <1>0, TakeAck DEF RecvPeerClose
  <1>4. SendWindowInv' BY DEF IInv, RecvPeerClose, SendWindowInv, AllWindows
  <1> QED BY <1>1, <1>2, <1>3, <1>4, Frame DEF IInv, RecvPeerClose

LEMMA RecvMsgKeeps ==
  ASSUME StreamAssumption, IInv, RecvMsg
  PROVE  IInv'
  <1>1. DataTypeOK' BY TakeFacts DEF IInv, RecvMsg, NewElement, Element, DataTypeOK,
       DataMsgs
  <1>2. PushTypeOK'
    <2>1. cur' \in Elements
      BY TakeFacts, ElementTypes DEF RecvMsg, PushTypeOK, IInv
    <2>2. rrpc' \in {"close", "idle", "calc"} BY DEF RecvMsg
    <2> QED BY <2>1, <2>2 DEF RecvMsg, PushTypeOK, RrPcs, IInv
  <1>3. HistoryTypeOK' BY TakeFacts, ElementTypes DEF IInv, RecvMsg, NewElement,
       Element, HistoryTypeOK
  <1>4. DataInv' BY TakeFacts DEF IInv, RecvMsg, NewElement, Element, DataInv, Pushed,
       End, First, Contiguous
  <1>5. QueueInv'
    <2>1. /\ taken' = Head(data).to /\ taken <= taken' /\ taken' \in Nat /\ taken \in Nat
          /\ UNCHANGED <<queue, qLength, rIsClose, rOnce>> /\ ~InHand /\ ~Counted /\ ~Counted'
      BY TakeFacts, ElementTypes
      DEF RecvMsg, InHand, Counted, IInv, HistoryTypeOK
    <2>2. CASE rrpc' = "calc"
      <3>1. /\ cur'.from = taken /\ cur'.to = taken' /\ ~rIsClose /\ InHand'
            /\ rrpc # "close"
        BY <2>1, <2>2, TakeFacts, ElementTypes DEF RecvMsg, InHand
      <3>2. queue # <<>> => End(queue) = taken BY <2>1, <3>1 DEF IInv, QueueInv
      <3> QED BY <2>1, <2>2, <3>1, <3>2, DueFacts DEF IInv, QueueInv
    <2>3. CASE rrpc' # "calc"
      <3>1. UNCHANGED cur /\ ~InHand' /\ (rrpc' = "close" \/ rIsClose)
        BY <2>3 DEF RecvMsg, InHand
      <3> QED BY <2>1, <3>1, DueFacts, SMTT(60) DEF IInv, QueueInv
    <2> QED BY <2>2, <2>3
  <1>6. DueInv'
    <2>1. /\ Due' = Due /\ taken' = Head(data).to /\ taken <= taken' /\ taken' \in Nat
          /\ taken \in Nat /\ UNCHANGED queue
      BY TakeFacts, ElementTypes
      DEF RecvMsg, Due, Unfinished, Exhausted, Size, IInv, HistoryTypeOK
    <2>2. InHand' => cur'.from = taken
      BY TakeFacts, ElementTypes DEF RecvMsg, InHand
    <2> QED BY <2>1, <2>2, DueFacts, SMTT(60) DEF IInv, DueInv
  <1>7. CreditInv' BY TakeFacts DEF IInv, RecvMsg, NewElement, Element, CreditInv,
       StatusCredit, Size, PushCredit
  <1>8. RecvWindowInv' BY TakeFacts DEF IInv, RecvMsg, NewElement, Element,
       RecvWindowInv, AllWindows
  <1> QED BY <1>1, <1>2, <1>3, <1>4, <1>5, <1>6, <1>7, <1>8, Frame DEF IInv, RecvMsg

LEMMA CalcSizeKeeps ==
  ASSUME StreamAssumption, IInv, CalcSize
  PROVE  IInv'
  <1>1. PushTypeOK'
    <2>1. PICK n \in WindowSizes \cup {rWord.max} :
            LET w == [rWord EXCEPT !.max = n] IN rWord' = w /\ LoadStatus(w)
      BY DEF CalcSize
    <2>2. n \in Nat BY CreditTypes, StreamAssumption DEF Words
    <2>3. [rWord EXCEPT !.max = n] \in Words BY <2>2, CreditTypes DEF Words
    <2>4. Remaining(n, qLength + Size(cur)) \in Nat
      BY <2>2, DueFacts, SMTT(60) DEF Remaining, IInv, QueueTypeOK
    <2>5. [rWord EXCEPT !.max = n].max = n BY CreditTypes DEF Words
    <2> QED BY <2>1, <2>3, <2>4, <2>5 DEF CalcSize, LoadStatus, IInv, PushTypeOK, RrPcs
  <1>2. RecvTypeOK' BY DEF IInv, CalcSize, LoadStatus, Size, Remaining, RecvTypeOK,
       Words
  <1>3. QueueInv' BY DEF IInv, CalcSize, LoadStatus, Size, Remaining, QueueInv, Counted,
       First, End, InHand, Contiguous
  <1>4. DueInv' BY DEF IInv, CalcSize, LoadStatus, Size, Remaining, DueInv, First, Due,
       Unfinished, Exhausted, InHand
  <1>5. CreditInv' BY DEF IInv, CalcSize, LoadStatus, Size, Remaining, CreditInv,
       StatusCredit, PushCredit
  <1>6. RecvWindowInv' BY DEF IInv, CalcSize, LoadStatus, Size, Remaining,
       RecvWindowInv, AllWindows
  <1> QED BY <1>1, <1>2, <1>3, <1>4, <1>5, <1>6, Frame DEF IInv, CalcSize

LEMMA PushLoadKeeps ==
  ASSUME StreamAssumption, IInv, PushLoad
  PROVE  IInv'
  <1>1. PushTypeOK' BY DEF IInv, PushLoad, LoadStatus, Size, Remaining, PushTypeOK,
       Words, Elements, RrPcs, QueueTypeOK, RecvTypeOK
  <1>2. QueueInv' BY DEF IInv, PushLoad, LoadStatus, Size, Remaining, QueueInv, Counted,
       First, End, InHand, Contiguous
  <1>3. DueInv' BY DEF IInv, PushLoad, LoadStatus, Size, Remaining, DueInv, First, Due,
       Unfinished, Exhausted, InHand
  <1>4. CreditInv' BY DEF IInv, PushLoad, LoadStatus, Size, Remaining, CreditInv,
       StatusCredit, PushCredit
  <1>5. RecvWindowInv' BY DEF IInv, PushLoad, LoadStatus, Size, Remaining,
       RecvWindowInv, AllWindows
  <1> QED BY <1>1, <1>2, <1>3, <1>4, <1>5, Frame DEF IInv, PushLoad

LEMMA PushCasKeeps ==
  ASSUME StreamAssumption, IInv, PushCas
  PROVE  IInv'
  <1>0. /\ rWord' \in Words /\ rWord'.max = rWord.max /\ pWait' \in BOOLEAN
        /\ \/ rWord'.done = rWord.done /\ (pWait' \/ rrpc' = "load")
           \/ rWord'.done = 0 /\ rWord = pSeen /\ rrpc' = "push"
    <2>1. CASE pSeen.wait \/ rWord # pSeen
      BY <2>1, CreditTypes DEF PushCas
    <2>2. CASE ~pSeen.wait /\ rWord = pSeen /\ pRemain = 0
      <3>1. rWord' = [pSeen EXCEPT !.wait = TRUE] /\ pWait' = TRUE
        BY <2>2 DEF PushCas
      <3> QED BY <3>1, <2>2, CreditTypes DEF Words
    <2>3. CASE ~pSeen.wait /\ rWord = pSeen /\ pRemain # 0
      <3>1. rWord' = ReadTaken(pSeen) /\ pWait' = FALSE /\ rrpc' = "push"
        BY <2>3 DEF PushCas
      <3> QED BY <3>1, <2>3, CreditTypes DEF Words, ReadTaken
    <2> QED BY <2>1, <2>2, <2>3
  <1>1. PushTypeOK' BY <1>0 DEF PushCas, IInv, PushTypeOK, RrPcs
  <1>2. RecvTypeOK' BY <1>0 DEF PushCas, IInv, RecvTypeOK
  <1>3. QueueInv' BY DEF IInv, PushCas, ReadTaken, QueueInv, Size, Counted, First, End,
       InHand, Contiguous
  <1>4. DueInv' BY DEF IInv, PushCas, ReadTaken, DueInv, First, Due, Size, Unfinished,
       Exhausted, InHand
  <1>5. CreditInv'
    <2>1. /\ PushCredit = 0 /\ StatusCredit' = StatusCredit
          /\ UNCHANGED <<acked, counted, pSeen>>
      BY DEF PushCas, PushCredit, StatusCredit, Size
    <2>2. rWord'.done + PushCredit' <= rWord.done /\ PushCredit' \in Nat
      BY <1>0, <2>1, CreditTypes DEF PushCredit
    <2>3. rWord'.done \in Nat BY <1>0 DEF Words
    <2> QED BY <2>1, <2>2, <2>3, CreditTypes DEF IInv, CreditInv
  <1>6. RecvWindowInv' BY <1>0 DEF PushCas, IInv, RecvWindowInv
  <1> QED BY <1>1, <1>2, <1>3, <1>4, <1>5, <1>6, Frame DEF IInv, PushCas

LEMMA QueuePushLengthKeeps ==
  ASSUME StreamAssumption, IInv, QueuePushLength
  PROVE  IInv'
  <1>1. PushTypeOK' BY DEF IInv, QueuePushLength, ReaderWaits, Size, PushTypeOK, Words,
       Elements, RrPcs
  <1>2. QueueTypeOK'
    <2>1. qLength' \in Nat BY DueFacts, SMTT(60) DEF QueuePushLength, IInv, QueueTypeOK
    <2> QED BY <2>1 DEF QueuePushLength, IInv, QueueTypeOK
  <1>3. QueueInv'
    <2>1. /\ InHand /\ InHand' /\ ~Counted /\ Counted' /\ qLength' = qLength + Size(cur)
          /\ UNCHANGED <<cur, queue, rIsClose, rOnce, taken>> /\ Size(cur)' = Size(cur)
      BY DEF QueuePushLength, InHand, Counted, Size
    <2>2. qLength = (IF queue = <<>> THEN 0 ELSE End(queue) - First(queue))
                    /\ qLength \in Nat
      BY <2>1, DueFacts DEF IInv, QueueInv, QueueTypeOK
    <2>3. qLength' = (IF queue = <<>> THEN 0 ELSE End(queue) - First(queue)) + Size(cur)
      BY <2>1, <2>2
    <2> QED BY <2>1, <2>3 DEF IInv, QueueInv
  <1>4. DueInv' BY DEF IInv, QueuePushLength, ReaderWaits, Size, DueInv, First, Due,
       Unfinished, Exhausted, InHand
  <1>5. CreditInv' BY DEF IInv, QueuePushLength, ReaderWaits, Size, CreditInv,
       StatusCredit, PushCredit
  <1>6. RecvWindowInv' BY DEF IInv, QueuePushLength, ReaderWaits, Size, RecvWindowInv,
       AllWindows
  <1> QED BY <1>1, <1>2, <1>3, <1>4, <1>5, <1>6, Frame DEF IInv, QueuePushLength

LEMMA QueuePushChainKeeps ==
  ASSUME StreamAssumption, IInv, QueuePushChain
  PROVE  IInv'
  <1>1. PushTypeOK' BY DEF IInv, QueuePushChain, NoElement, Element, PushTypeOK, Words,
       Elements, RrPcs
  <1>2. QueueTypeOK' BY DEF IInv, QueuePushChain, NoElement, Element, QueueTypeOK,
       Elements, PushTypeOK, Words, RrPcs
  <1>3. QueueInv'
    <2>1. /\ queue' = Append(queue, cur) /\ Counted /\ InHand /\ cur \in Elements
          /\ cur.from <= cur.to /\ UNCHANGED <<taken, qLength, rIsClose, rOnce>>
          /\ cur' = NoElement /\ ~Counted' /\ ~InHand'
      BY DEF QueuePushChain, Counted, InHand, IInv, PushTypeOK, QueueInv
    <2>2. queue \in Seq(Elements) /\ Contiguous(queue) BY DEF IInv, QueueTypeOK, QueueInv
    <2>3. queue # <<>> => End(queue) = cur.from BY <2>1 DEF IInv, QueueInv
    <2>4. /\ Contiguous(queue') /\ queue' # <<>> /\ End(queue') = cur.to
          /\ First(queue') = (IF queue = <<>> THEN cur.from ELSE First(queue))
      BY <2>1, <2>2, <2>3, ElementTypes, ContiguousAppend
    <2>5. qLength' = End(queue') - First(queue')
      <3>1. CASE queue = <<>>
        BY <3>1, <2>1, <2>4, DueFacts DEF IInv, QueueInv
      <3>2. CASE queue # <<>>
        <4>1. qLength = End(queue) - First(queue) + Size(cur)
          BY <3>2, <2>1 DEF IInv, QueueInv
        <4> QED BY <4>1, <3>2, <2>1, <2>3, <2>4, DueFacts, SMTT(60)
      <3> QED BY <3>1, <3>2
    <2>6. cur.to = taken BY <2>1 DEF IInv, QueueInv
    <2>7. cur'.from <= cur'.to BY <2>1 DEF NoElement, Element
    <2>8. (IF Counted' THEN Size(cur') ELSE 0) = 0 /\ qLength' \in Nat
      BY <2>1 DEF IInv, QueueTypeOK
    <2>9. qLength' = (IF queue' = <<>> THEN 0 ELSE End(queue') - First(queue'))
                     + (IF Counted' THEN Size(cur') ELSE 0)
      BY <2>4, <2>5, <2>8
    <2>10. End(queue') <= taken' BY <2>1, <2>4, <2>6 DEF IInv, HistoryTypeOK
    <2> QED BY <2>1, <2>4, <2>6, <2>7, <2>9, <2>10 DEF IInv, QueueInv
  <1>4. DueInv' BY DEF IInv, QueuePushChain, NoElement, Element, DueInv, First, Due,
       Size, Unfinished, Exhausted, InHand
  <1>5. CreditInv' BY DEF IInv, QueuePushChain, NoElement, Element, CreditInv,
       StatusCredit, Size, PushCredit
  <1>6. RecvWindowInv' BY DEF IInv, QueuePushChain, NoElement, Element, RecvWindowInv,
       AllWindows
  <1> QED BY <1>1, <1>2, <1>3, <1>4, <1>5, <1>6, Frame DEF IInv, QueuePushChain

LEMMA AllowPopReaderKeeps ==
  ASSUME StreamAssumption, IInv, AllowPopReader
  PROVE  IInv'
  <1>1. PushTypeOK' BY DEF IInv, AllowPopReader, PushTypeOK, Words, Elements, RrPcs
  <1>2. ReaderTypeOK' BY DEF IInv, AllowPopReader, ReaderTypeOK, Words, Elements, RPcs
  <1>3. ElemInv' BY DEF IInv, AllowPopReader, ElemInv, Exhausted, Size
  <1>4. QueueInv' BY DEF IInv, AllowPopReader, QueueInv, Size, Counted, First, End,
       InHand, Contiguous
  <1>5. DueInv' BY DEF IInv, AllowPopReader, DueInv, First, Due, Size, Unfinished,
       Exhausted, InHand
  <1>6. CreditInv' BY DEF IInv, AllowPopReader, CreditInv, StatusCredit, Size,
       PushCredit
  <1>7. RecvWindowInv' BY DEF IInv, AllowPopReader, RecvWindowInv, AllWindows
  <1> QED BY <1>1, <1>2, <1>3, <1>4, <1>5, <1>6, <1>7, Frame DEF IInv, AllowPopReader

LEMMA AllowPopStoppedKeeps ==
  ASSUME StreamAssumption, IInv, AllowPopStopped
  PROVE  IInv'
  <1>1. PushTypeOK' BY DEF IInv, AllowPopStopped, PushTypeOK, Words, Elements, RrPcs
  <1>2. QueueTypeOK' BY DEF IInv, AllowPopStopped, QueueTypeOK, Elements
  <1>3. QueueInv' BY DEF IInv, AllowPopStopped, QueueInv, Size, Counted, First, End,
       InHand, Contiguous
  <1>4. DueInv' BY DEF IInv, AllowPopStopped, DueInv, First, Due, Size, Unfinished,
       Exhausted, InHand
  <1>5. CreditInv' BY DEF IInv, AllowPopStopped, CreditInv, StatusCredit, Size,
       PushCredit
  <1>6. RecvWindowInv' BY DEF IInv, AllowPopStopped, RecvWindowInv, AllWindows
  <1>7. TokenInv' BY DEF IInv, AllowPopStopped, TokenInv
  <1> QED BY <1>1, <1>2, <1>3, <1>4, <1>5, <1>6, <1>7, Frame DEF IInv, AllowPopStopped

LEMMA PushAckKeeps ==
  ASSUME StreamAssumption, IInv, PushAck
  PROVE  IInv'
  <1>0. AcksTypeOK' /\ AckInv' /\ SendWindowInv'
    <2>1. CASE pWait BY <2>1, Frame DEF PushAck, IInv
    <2>2. CASE ~pWait
      <3>1. /\ Ack(pSeen.max, pSeen.done, acked + pSeen.done) \in AckMsgs
            /\ acked' = acked + pSeen.done /\ pSeen.max \in AllWindows /\ acked' \in Nat
        BY <2>2 DEF PushAck, Ack, AckMsgs, IInv, HistoryTypeOK, PushTypeOK, Words,
                    RecvWindowInv
      <3> QED BY <2>2, <3>1, AddAck DEF PushAck, Ack, IInv, SendWindowInv
    <2> QED BY <2>1, <2>2
  <1>1. AcksTypeOK' BY <1>0
  <1>2. PushTypeOK' BY DEF IInv, PushAck, NoWord, Word, Ack, PushTypeOK, Words,
       Elements, RrPcs
  <1>3. HistoryTypeOK'
    <2>1. acked \in Nat /\ pSeen.done \in Nat
      BY DEF IInv, HistoryTypeOK, PushTypeOK, Words
    <2>2. acked' \in Nat BY <2>1 DEF PushAck
    <2> QED BY <2>2 DEF PushAck, IInv, HistoryTypeOK
  <1>4. QueueInv' BY DEF IInv, PushAck, NoWord, Word, Ack, QueueInv, Size, Counted,
       First, End, InHand, Contiguous
  <1>5. DueInv' BY DEF IInv, PushAck, NoWord, Word, Ack, DueInv, First, Due, Size,
       Unfinished, Exhausted, InHand
  <1>6. AckInv' BY <1>0
  <1>7. CreditInv'
    <2>1. /\ acked' + PushCredit' = acked + PushCredit /\ acked' \in Nat
          /\ PushCredit' = 0 /\ UNCHANGED <<rWord, counted>> /\ StatusCredit' = StatusCredit
      BY CreditTypes DEF PushAck, PushCredit, StatusCredit, Size
    <2> QED BY <2>1, CreditTypes DEF IInv, CreditInv
  <1>8. SendWindowInv' BY <1>0
  <1>9. RecvWindowInv' BY DEF IInv, PushAck, NoWord, Word, Ack, RecvWindowInv,
       AllWindows
  <1> QED BY <1>1, <1>2, <1>3, <1>4, <1>5, <1>6, <1>7, <1>8, <1>9, Frame DEF IInv,
       PushAck

LEMMA RecvConnCloseKeeps ==
  ASSUME StreamAssumption, IInv, RecvConnClose
  PROVE  IInv'
  <1>1. DataTypeOK' BY TakeFacts DEF IInv, RecvConnClose, PeerClosed, StopQueue,
       DataTypeOK, DataMsgs
  <1>2. QueueTypeOK'
    <2>1. StopQueue \/ UNCHANGED <<stopTokens, stopped>> BY DEF RecvConnClose, PeerClosed
    <2>2. stopTokens \in 0..2 /\ stopped \in BOOLEAN BY DEF IInv, QueueTypeOK
    <2>3. stopTokens' \in 0..2 BY <2>1, <2>2 DEF StopQueue
    <2>4. stopped' \in BOOLEAN BY <2>1, <2>2 DEF StopQueue
    <2> QED BY <2>3, <2>4 DEF RecvConnClose, QueueTypeOK, IInv
  <1>3. HistoryTypeOK' BY TakeFacts DEF IInv, RecvConnClose, PeerClosed, StopQueue,
       HistoryTypeOK
  <1>4. DataInv' BY TakeFacts DEF IInv, RecvConnClose, PeerClosed, StopQueue, DataInv,
       Pushed, End, First, Contiguous
  <1>5. QueueInv' BY TakeFacts DEF IInv, RecvConnClose, PeerClosed, StopQueue, QueueInv,
       Size, Counted, First, End, InHand, Contiguous
  <1>6. DueInv' BY TakeFacts DEF IInv, RecvConnClose, PeerClosed, StopQueue, DueInv,
       First, Due, Size, Unfinished, Exhausted, InHand
  <1>7. TokenInv' BY TakeFacts DEF IInv, RecvConnClose, PeerClosed, StopQueue, TokenInv
  <1> QED BY <1>1, <1>2, <1>3, <1>4, <1>5, <1>6, <1>7, Frame DEF IInv, RecvConnClose

LEMMA PushRefusedKeeps ==
  ASSUME StreamAssumption, IInv, PushRefused
  PROVE  IInv'
  <1>1. PushTypeOK' BY DEF IInv, PushRefused, PushTypeOK, Words, Elements, RrPcs
  <1>2. QueueInv' BY DEF IInv, PushRefused, QueueInv, Size, Counted, First, End, InHand,
       Contiguous
  <1>3. DueInv' BY DEF IInv, PushRefused, DueInv, First, Due, Size, Unfinished,
       Exhausted, InHand
  <1>4. CreditInv' BY DEF IInv, PushRefused, CreditInv, StatusCredit, Size, PushCredit
  <1>5. RecvWindowInv' BY DEF IInv, PushRefused, RecvWindowInv, AllWindows
  <1> QED BY <1>1, <1>2, <1>3, <1>4, <1>5, Frame DEF IInv, PushRefused

LEMMA ReaderCloseBeginKeeps ==
  ASSUME StreamAssumption, IInv, ReaderCloseBegin
  PROVE  IInv'
  <1>1. RecvTypeOK' BY DEF IInv, ReaderCloseBegin, RecvTypeOK, Words
  <1>2. QueueInv' BY DEF IInv, ReaderCloseBegin, QueueInv, Size, Counted, First, End,
       InHand, Contiguous
  <1> QED BY <1>1, <1>2, Frame DEF IInv, ReaderCloseBegin

LEMMA ReaderCloseInformKeeps ==
  ASSUME StreamAssumption, IInv, ReaderCloseInform
  PROVE  IInv'
  <1>0. /\ ConnClose(0) \in AckMsgs /\ ConnClose(0).kind = "close"
        /\ acks' = Append(acks, ConnClose(0)) /\ UNCHANGED <<off, sWord, acked>>
        /\ acked' \in Nat
    BY DEF ReaderCloseInform, Inform, ConnClose, AckMsgs, IInv, HistoryTypeOK
  <1>1. AcksTypeOK' BY <1>0, AddAck
  <1>2. RecvTypeOK' BY DEF IInv, ReaderCloseInform, Inform, ConnClose, RecvTypeOK, Words
  <1>3. QueueInv' BY DEF IInv, ReaderCloseInform, Inform, ConnClose, QueueInv, Size,
       Counted, First, End, InHand, Contiguous
  <1>4. AckInv' BY <1>0, AddAck
  <1>5. SendWindowInv' BY <1>0, AddAck DEF ReaderCloseInform, IInv, SendWindowInv
  <1> QED BY <1>1, <1>2, <1>3, <1>4, <1>5, Frame DEF IInv, ReaderCloseInform

LEMMA ReaderCloseWindowKeeps ==
  ASSUME StreamAssumption, IInv, ReaderCloseWindow
  PROVE  IInv'
  <1>1. QueueTypeOK' BY DEF IInv, ReaderCloseWindow, StopQueue, QueueTypeOK, Elements
  <1>2. RecvTypeOK' BY DEF IInv, ReaderCloseWindow, StopQueue, RecvTypeOK, Words
  <1>3. QueueInv' BY DEF IInv, ReaderCloseWindow, StopQueue, QueueInv, Size, Counted,
       First, End, InHand, Contiguous
  <1>4. TokenInv' BY DEF IInv, ReaderCloseWindow, StopQueue, TokenInv
  <1> QED BY <1>1, <1>2, <1>3, <1>4, Frame DEF IInv, ReaderCloseWindow

LEMMA ReaderCloseReleaseKeeps ==
  ASSUME StreamAssumption, IInv, ReaderCloseRelease
  PROVE  IInv'
  <1>1. QueueTypeOK' BY PopFacts DEF IInv, ReaderCloseRelease, Size, QueueTypeOK,
       Elements
  <1>2. RecvTypeOK' BY PopFacts DEF IInv, ReaderCloseRelease, Size, RecvTypeOK, Words
  <1>3. QueueInv' BY PopFacts DEF IInv, ReaderCloseRelease, Size, QueueInv, Counted,
       First, End, InHand, Contiguous
  <1>4. DueInv'
    <2>1. Due' = Due /\ UNCHANGED <<cur, taken>> /\ (InHand' <=> InHand)
      BY DEF ReaderCloseRelease, Due, Unfinished, Exhausted, Size, InHand
    <2>2. CASE queue # <<>>
      <3>1. TryPop BY <2>2 DEF ReaderCloseRelease
      <3>2. Due <= First(queue) BY <2>2 DEF IInv, DueInv
      <3>3. Due <= Head(queue).to BY <3>1, <3>2, PopFacts, DueFacts, SMTT(60)
      <3> QED BY <3>1, <3>3, <2>1, DueFacts, PoppedDue
    <2>3. CASE queue = <<>>
      BY <2>1, <2>3 DEF ReaderCloseRelease, IInv, DueInv
    <2> QED BY <2>2, <2>3
  <1> QED BY <1>1, <1>2, <1>3, <1>4, Frame DEF IInv, ReaderCloseRelease

LEMMA ReadKeeps ==
  ASSUME StreamAssumption, IInv, NEW n \in ReadSizes, Read(n)
  PROVE  IInv'
  <1>1. ReaderTypeOK' BY DEF IInv, Read, ReaderTypeOK, Words, Elements, RPcs
  <1>2. ElemInv' BY DEF IInv, Read, ElemInv, Exhausted, Size
  <1>3. DueInv' BY DEF IInv, Read, DueInv, First, Due, Size, Unfinished, Exhausted,
       InHand
  <1>4. CreditInv' BY DEF IInv, Read, CreditInv, StatusCredit, Size, PushCredit
  <1>5. RecvWindowInv' BY DEF IInv, Read, RecvWindowInv, AllWindows
  <1> QED BY <1>1, <1>2, <1>3, <1>4, <1>5, Frame DEF IInv, Read

LEMMA NextElementKeeps ==
  ASSUME StreamAssumption, IInv, NextElement
  PROVE  IInv'
  <1>1. QueueTypeOK' BY PopFacts DEF IInv, NextElement, Size, Exhausted, Nil,
       QueueTypeOK, Elements
  <1>2. ReaderTypeOK' BY PopFacts, ElementTypes DEF IInv, NextElement, Size, Exhausted,
       Nil, ReaderTypeOK, Words, Elements, RPcs
  <1>3. ElemInv'
    <2>1. rpc' \notin {"status", "statusCas", "statusAck"} BY DEF NextElement
    <2>2. ~Unfinished BY DEF NextElement, Unfinished
    <2>3. CASE rCloseOp /\ queue # <<>>
      BY <2>1, <2>2, <2>3, PoppedElement DEF NextElement, ElemInv
    <2>4. CASE ~(rCloseOp /\ queue # <<>>)
      BY <2>1, <2>4 DEF NextElement, ElemInv, Size, IInv
    <2> QED BY <2>3, <2>4
  <1>4. QueueInv' BY PopFacts DEF IInv, NextElement, Size, Exhausted, Nil, QueueInv,
       Counted, First, End, InHand, Contiguous
  <1>5. DueInv'
    <2>1. ~Unfinished /\ UNCHANGED <<cur, taken, counted>> /\ (InHand' <=> InHand)
      BY DEF NextElement, Unfinished, InHand
    <2>2. CASE rCloseOp /\ queue # <<>>
      <3>1. TryPop BY <2>2 DEF NextElement
      <3>2. Due' \in Nat /\ Due' <= Head(queue).to
        BY <2>1, <2>2, PoppedElement DEF NextElement
      <3> QED BY <2>1, <3>1, <3>2, PoppedDue
    <2>3. CASE ~(rCloseOp /\ queue # <<>>)
      <3>1. UNCHANGED <<queue, elem, eOff>> BY <2>3 DEF NextElement
      <3>2. ~Unfinished' BY <3>1 DEF NextElement, Unfinished, Exhausted, Size
      <3>3. Due' = Due BY <2>1, <3>1, <3>2 DEF Due
      <3> QED BY <3>1, <3>3, <2>1 DEF IInv, DueInv
    <2> QED BY <2>2, <2>3
  <1>6. CreditInv' BY PopFacts DEF IInv, NextElement, Size, Exhausted, Nil, CreditInv,
       StatusCredit, PushCredit
  <1>7. RecvWindowInv' BY PopFacts DEF IInv, NextElement, Size, Exhausted, Nil,
       RecvWindowInv, AllWindows
  <1> QED BY <1>1, <1>2, <1>3, <1>4, <1>5, <1>6, <1>7, Frame DEF IInv, NextElement

LEMMA PopLengthKeeps ==
  ASSUME StreamAssumption, IInv, PopLength
  PROVE  IInv'
  <1>1. QueueTypeOK' BY DEF IInv, PopLength, QueueTypeOK, Elements
  <1>2. ReaderTypeOK' BY DEF IInv, PopLength, ReaderTypeOK, Words, Elements, RPcs
  <1>3. ElemInv' BY DEF IInv, PopLength, ElemInv, Exhausted, Size
  <1>4. DueInv' BY DEF IInv, PopLength, DueInv, First, Due, Size, Unfinished, Exhausted,
       InHand
  <1>5. CreditInv' BY DEF IInv, PopLength, CreditInv, StatusCredit, Size, PushCredit
  <1>6. RecvWindowInv' BY DEF IInv, PopLength, RecvWindowInv, AllWindows
  <1> QED BY <1>1, <1>2, <1>3, <1>4, <1>5, <1>6, Frame DEF IInv, PopLength

LEMMA PopChainKeeps ==
  ASSUME StreamAssumption, IInv, PopChain
  PROVE  IInv'
  <1>1. QueueTypeOK' BY PopFacts DEF IInv, PopChain, Size, QueueTypeOK, Elements
  <1>2. ReaderTypeOK' BY PopFacts DEF IInv, PopChain, Size, ReaderTypeOK, Words,
       Elements, RPcs
  <1>3. ElemInv'
    <2>1. ~Unfinished BY DEF PopChain, Unfinished
    <2> QED BY <2>1, PoppedElement DEF PopChain, ElemInv
  <1>4. QueueInv' BY PopFacts DEF IInv, PopChain, Size, QueueInv, Counted, First, End,
       InHand, Contiguous
  <1>5. DueInv'
    <2>1. ~Unfinished /\ UNCHANGED <<cur, taken>> /\ (InHand' <=> InHand)
      BY DEF PopChain, Unfinished, InHand
    <2>2. Due' \in Nat /\ Due' <= Head(queue).to
      BY <2>1, PoppedElement DEF PopChain
    <2>3. TryPop BY DEF PopChain
    <2> QED BY <2>1, <2>2, <2>3, PoppedDue
  <1>6. CreditInv' BY PopFacts DEF IInv, PopChain, Size, CreditInv, StatusCredit,
       PushCredit
  <1>7. RecvWindowInv' BY PopFacts DEF IInv, PopChain, Size, RecvWindowInv, AllWindows
  <1> QED BY <1>1, <1>2, <1>3, <1>4, <1>5, <1>6, <1>7, Frame DEF IInv, PopChain

LEMMA WaitPushFailsKeeps ==
  ASSUME StreamAssumption, IInv, WaitPushFails
  PROVE  IInv'
  <1>1. QueueTypeOK' BY DEF IInv, WaitPushFails, Nil, QueueTypeOK, Elements
  <1>2. ReaderTypeOK' BY DEF IInv, WaitPushFails, Nil, ReaderTypeOK, Words, Elements,
       RPcs
  <1>3. ElemInv' BY DEF IInv, WaitPushFails, Nil, ElemInv, Exhausted, Size
  <1>4. DueInv' BY DEF IInv, WaitPushFails, Nil, DueInv, First, Due, Size, Unfinished,
       Exhausted, InHand
  <1>5. CreditInv' BY DEF IInv, WaitPushFails, Nil, CreditInv, StatusCredit, Size,
       PushCredit
  <1>6. RecvWindowInv' BY DEF IInv, WaitPushFails, Nil, RecvWindowInv, AllWindows
  <1>7. TokenInv' BY DEF IInv, WaitPushFails, Nil, TokenInv
  <1> QED BY <1>1, <1>2, <1>3, <1>4, <1>5, <1>6, <1>7, Frame DEF IInv, WaitPushFails

LEMMA FailedReadClosesKeeps ==
  ASSUME StreamAssumption, IInv, FailedReadCloses
  PROVE  IInv'
  <1>1. QueueTypeOK' BY DEF IInv, FailedReadCloses, StopQueue, QueueTypeOK, Elements
  <1>2. RecvTypeOK' BY DEF IInv, FailedReadCloses, StopQueue, RecvTypeOK, Words
  <1>3. ReaderTypeOK' BY DEF IInv, FailedReadCloses, StopQueue, ReaderTypeOK, Words,
       Elements, RPcs
  <1>4. ElemInv' BY DEF IInv, FailedReadCloses, StopQueue, ElemInv, Exhausted, Size
  <1>5. DueInv' BY DEF IInv, FailedReadCloses, StopQueue, DueInv, First, Due, Size,
       Unfinished, Exhausted, InHand
  <1>6. CreditInv' BY DEF IInv, FailedReadCloses, StopQueue, CreditInv, StatusCredit,
       Size, PushCredit
  <1>7. RecvWindowInv' BY DEF IInv, FailedReadCloses, StopQueue, RecvWindowInv,
       AllWindows
  <1>8. TokenInv' BY DEF IInv, FailedReadCloses, StopQueue, TokenInv
  <1> QED BY <1>1, <1>2, <1>3, <1>4, <1>5, <1>6, <1>7, <1>8, Frame DEF IInv,
       FailedReadCloses

LEMMA FailedReadReleasesKeeps ==
  ASSUME StreamAssumption, IInv, FailedReadReleases
  PROVE  IInv'
  <1>1. QueueTypeOK' BY PopFacts DEF IInv, FailedReadReleases, Size, QueueTypeOK,
       Elements
  <1>2. ReaderTypeOK' BY PopFacts DEF IInv, FailedReadReleases, Size, ReaderTypeOK,
       Words, Elements, RPcs
  <1>3. ElemInv' BY PopFacts DEF IInv, FailedReadReleases, Size, ElemInv, Exhausted
  <1>4. QueueInv' BY PopFacts DEF IInv, FailedReadReleases, Size, QueueInv, Counted,
       First, End, InHand, Contiguous
  <1>5. DueInv'
    <2>1. Due' = Due /\ UNCHANGED <<cur, taken>> /\ (InHand' <=> InHand)
      BY DEF FailedReadReleases, Due, Unfinished, Exhausted, Size, InHand
    <2>2. CASE queue # <<>>
      <3>1. TryPop BY <2>2 DEF FailedReadReleases
      <3>2. Due <= First(queue) BY <2>2 DEF IInv, DueInv
      <3>3. Due <= Head(queue).to BY <3>1, <3>2, PopFacts, DueFacts
      <3> QED BY <3>1, <3>3, <2>1, DueFacts, PoppedDue
    <2>3. CASE queue = <<>>
      BY <2>1, <2>3 DEF FailedReadReleases, IInv, DueInv
    <2> QED BY <2>2, <2>3
  <1>6. CreditInv' BY PopFacts DEF IInv, FailedReadReleases, Size, CreditInv,
       StatusCredit, PushCredit
  <1>7. RecvWindowInv' BY PopFacts DEF IInv, FailedReadReleases, Size, RecvWindowInv,
       AllWindows
  <1> QED BY <1>1, <1>2, <1>3, <1>4, <1>5, <1>6, <1>7, Frame DEF IInv,
       FailedReadReleases

LEMMA ReadAgainKeeps ==
  ASSUME StreamAssumption, IInv, ReadAgain
  PROVE  IInv'
  <1>1. ReaderTypeOK' BY DEF IInv, ReadAgain, Nil, ReaderTypeOK, Words, Elements, RPcs
  <1>2. ElemInv' BY DEF IInv, ReadAgain, Nil, ElemInv, Exhausted, Size
  <1>3. DueInv' BY DEF IInv, ReadAgain, Nil, DueInv, First, Due, Size, Unfinished,
       Exhausted, InHand
  <1>4. CreditInv' BY DEF IInv, ReadAgain, Nil, CreditInv, StatusCredit, Size,
       PushCredit
  <1>5. RecvWindowInv' BY DEF IInv, ReadAgain, Nil, RecvWindowInv, AllWindows
  <1> QED BY <1>1, <1>2, <1>3, <1>4, <1>5, Frame DEF IInv, ReadAgain

LEMMA CopyDataKeeps ==
  ASSUME StreamAssumption, IInv, CopyData
  PROVE  IInv'
  <1>0. PICK l \in Nat : /\ l <= want /\ eOff + l <= Size(elem) /\ want' = want - l
                         /\ eOff' = eOff + l
                         /\ got' = got \o [i \in 1..l |-> elem.from + eOff + i]
                         /\ rpc' = (IF eOff + l = Size(elem) THEN "status" ELSE "idle")
    <2> DEFINE l == Lesser(want, Size(elem) - eOff)
    <2>1. want \in Nat /\ eOff <= Size(elem) BY DEF IInv, ReaderTypeOK, ElemInv
    <2>2. l \in Nat /\ l <= want /\ eOff + l <= Size(elem) BY <2>1, DueFacts, SMTT(60) DEF Lesser
    <2> QED BY <2>2 DEF CopyData
  <1>1. ReaderTypeOK'
    <2>1. want' \in Nat /\ eOff' \in Nat
      BY <1>0, DueFacts DEF IInv, ReaderTypeOK
    <2> QED BY <1>0, <2>1 DEF CopyData, IInv, ReaderTypeOK, RPcs
  <1>2. HistoryTypeOK'
    <2>1. [i \in 1..l |-> elem.from + eOff + i] \in Seq(Nat) BY DueFacts, SMTT(60)
    <2>2. got' \in Seq(Nat) BY <1>0, <2>1, ConcatProperties DEF IInv, HistoryTypeOK
    <2> QED BY <2>2 DEF CopyData, IInv, HistoryTypeOK
  <1>3. ElemInv' BY DEF IInv, CopyData, Size, Lesser, Exhausted, Nil, ElemInv,
       ReaderTypeOK, Words, Elements, RPcs
  <1>4. DueInv' BY DEF IInv, CopyData, Size, Lesser, Exhausted, Nil, DueInv, First, Due,
       Unfinished, InHand
  <1>5. CreditInv' BY DEF IInv, CopyData, Size, Lesser, Exhausted, Nil, CreditInv,
       StatusCredit, PushCredit
  <1>6. RecvWindowInv' BY DEF IInv, CopyData, Size, Lesser, Exhausted, Nil,
       RecvWindowInv, AllWindows
  <1> QED BY <1>1, <1>2, <1>3, <1>4, <1>5, <1>6, Frame DEF IInv, CopyData

LEMMA StatusLoadKeeps ==
  ASSUME StreamAssumption, IInv, StatusLoad
  PROVE  IInv'
  <1>1. ReaderTypeOK' BY DEF IInv, StatusLoad, Remaining, ReaderTypeOK, Words, Elements,
       RPcs, QueueTypeOK, RecvTypeOK
  <1>2. ElemInv' BY DEF IInv, StatusLoad, Remaining, ElemInv, Exhausted, Size
  <1>3. DueInv' BY DEF IInv, StatusLoad, Remaining, DueInv, First, Due, Size,
       Unfinished, Exhausted, InHand
  <1>4. CreditInv' BY DEF IInv, StatusLoad, Remaining, CreditInv, StatusCredit, Size,
       PushCredit
  <1>5. RecvWindowInv' BY DEF IInv, StatusLoad, Remaining, RecvWindowInv, AllWindows
  <1> QED BY <1>1, <1>2, <1>3, <1>4, <1>5, Frame DEF IInv, StatusLoad

LEMMA StatusCasKeeps ==
  ASSUME StreamAssumption, IInv, StatusCas
  PROVE  IInv'
  <1>0. /\ rWord' \in Words /\ rWord'.max = rWord.max
        /\ \/ UNCHANGED <<rWord, counted>> /\ rpc' = "status"
           \/ /\ counted' = counted + Size(elem) /\ rWord = aSeen
              /\ \/ rWord'.done = 0 /\ rpc' = "statusAck"
                 \/ rWord'.done = aSeen.done + Size(elem) /\ rpc' \in {"copy", "idle"}
    <2> DEFINE read == aSeen.done + Size(elem)
    <2>1. CASE rWord # aSeen BY <2>1, CreditTypes DEF StatusCas
    <2>2. CASE rWord = aSeen
      <3>0. aSeen.done \in Nat /\ Size(elem) \in Nat BY CreditTypes, DueFacts
      <3>1. read \in Nat BY <3>0
      <3>2. CASE AckDue(aSeen, read, aRemain)
        <4>1. rWord' = ReadTaken(Word(aSeen.max, read, FALSE)) /\ rpc' = "statusAck"
              /\ counted' = counted + Size(elem)
          BY <2>2, <3>2 DEF StatusCas
        <4> QED BY <4>1, <2>2, <3>1, CreditTypes DEF ReadTaken, Word, Words
      <3>3. CASE ~AckDue(aSeen, read, aRemain)
        <4>1. /\ rWord' = [aSeen EXCEPT !.done = read] /\ rpc' \in {"copy", "idle"}
              /\ counted' = counted + Size(elem)
          BY <2>2, <3>3 DEF StatusCas, AfterStatus
        <4> QED BY <4>1, <2>2, <3>1, CreditTypes DEF Words
      <3> QED BY <3>2, <3>3
    <2> QED BY <2>1, <2>2
  <1>1. RecvTypeOK' BY <1>0 DEF StatusCas, IInv, RecvTypeOK
  <1>2. ReaderTypeOK' BY <1>0 DEF StatusCas, IInv, ReaderTypeOK, RPcs
  <1>3. HistoryTypeOK'
    <2>1. counted' \in Nat BY <1>0, CreditTypes, DueFacts, SMTT(60)
    <2> QED BY <2>1 DEF StatusCas, IInv, HistoryTypeOK
  <1>4. ElemInv' BY DEF IInv, StatusCas, AfterStatus, Word, ReadTaken, AckDue, Size,
       ElemInv, Exhausted
  <1>5. DueInv'
    <2>1. Due = counted + Size(elem) /\ UNCHANGED <<elem, eOff>>
      BY DEF StatusCas, Due, Unfinished
    <2>2. Exhausted' /\ Size(elem)' = Size(elem)
      BY <2>1 DEF StatusCas, IInv, ElemInv, Exhausted, Size
    <2>3. Due' = counted' + (IF rpc' = "status" THEN Size(elem) ELSE 0)
      BY <1>0, <2>2 DEF Due, Unfinished
    <2>4. counted \in Nat /\ Size(elem) \in Nat BY CreditTypes, DueFacts
    <2>5. Due' = Due BY <1>0, <2>1, <2>3, <2>4
    <2> QED BY <2>5 DEF StatusCas, IInv, DueInv, InHand
  <1>6. CreditInv'
    <2>1. StatusCredit = 0 /\ UNCHANGED <<acked, aSeen, elem>> /\ PushCredit' = PushCredit
      BY DEF StatusCas, StatusCredit, PushCredit
    <2>2. CASE UNCHANGED <<rWord, counted>> /\ rpc' = "status"
      BY <2>1, <2>2 DEF IInv, CreditInv, StatusCredit
    <2>3. CASE /\ counted' = counted + Size(elem) /\ rWord = aSeen
               /\ \/ rWord'.done = 0 /\ rpc' = "statusAck"
                  \/ rWord'.done = aSeen.done + Size(elem) /\ rpc' \in {"copy", "idle"}
      <3>1. StatusCredit' = (IF rpc' = "statusAck" THEN aSeen.done + Size(elem) ELSE 0)
        BY <2>1 DEF StatusCredit, Size
      <3>2. aSeen.done \in Nat /\ Size(elem) \in Nat BY CreditTypes, DueFacts
      <3>3. rWord'.done + StatusCredit' = rWord.done + Size(elem)
            /\ rWord'.done \in Nat /\ StatusCredit' \in Nat
        BY <2>3, <3>1, <3>2
      <3>4. acked + rWord.done + PushCredit <= counted
        BY <2>1, CreditTypes DEF IInv, CreditInv
      <3> QED BY <2>1, <2>3, <3>2, <3>3, <3>4, CreditTypes DEF CreditInv
    <2> QED BY <1>0, <2>2, <2>3
  <1>7. RecvWindowInv' BY <1>0 DEF StatusCas, IInv, RecvWindowInv
  <1> QED BY <1>1, <1>2, <1>3, <1>4, <1>5, <1>6, <1>7, Frame DEF IInv, StatusCas

LEMMA StatusAckKeeps ==
  ASSUME StreamAssumption, IInv, StatusAck
  PROVE  IInv'
  <1>0. AcksTypeOK' /\ AckInv' /\ SendWindowInv'
    <2> DEFINE read == aSeen.done + Size(elem)
    <2>1. read \in Nat BY DueFacts DEF IInv, ReaderTypeOK, Words
    <2>2. /\ Ack(aSeen.max, read, acked + read) \in AckMsgs
          /\ acked' = acked + read /\ aSeen.max \in AllWindows /\ acked' \in Nat
      BY <2>1 DEF StatusAck, Ack, AckMsgs, IInv, HistoryTypeOK, ReaderTypeOK, Words,
                  RecvWindowInv
    <2> QED BY <2>2, AddAck DEF StatusAck, Ack, IInv, SendWindowInv
  <1>1. AcksTypeOK' BY <1>0
  <1>2. ReaderTypeOK' BY DEF IInv, StatusAck, AfterStatus, Ack, Size, ReaderTypeOK,
       Words, Elements, RPcs
  <1>3. HistoryTypeOK'
    <2>1. acked' \in Nat
      BY DueFacts, SMTT(60) DEF StatusAck, IInv, HistoryTypeOK, ReaderTypeOK, Words
    <2> QED BY <2>1 DEF StatusAck, IInv, HistoryTypeOK
  <1>4. ElemInv' BY DEF IInv, StatusAck, AfterStatus, Ack, Size, ElemInv, Exhausted
  <1>5. DueInv'
    <2>1. ~Unfinished /\ ~Unfinished'
      BY DEF StatusAck, AfterStatus, Unfinished, Exhausted, Size, IInv, ElemInv
    <2>2. Due' = Due BY <2>1 DEF StatusAck, Due
    <2> QED BY <2>2 DEF StatusAck, IInv, DueInv, InHand
  <1>6. AckInv' BY <1>0
  <1>7. CreditInv'
    <2>1. /\ acked' = acked + StatusCredit /\ StatusCredit' = 0
          /\ UNCHANGED <<rWord, counted>> /\ PushCredit' = PushCredit
      BY DEF StatusAck, AfterStatus, PushCredit, StatusCredit
    <2> QED BY <2>1, CreditTypes DEF IInv, CreditInv
  <1>8. SendWindowInv' BY <1>0
  <1>9. RecvWindowInv' BY DEF IInv, StatusAck, AfterStatus, Ack, Size, RecvWindowInv,
       AllWindows
  <1> QED BY <1>1, <1>2, <1>3, <1>4, <1>5, <1>6, <1>7, <1>8, <1>9, Frame DEF IInv,
       StatusAck

-----------------------------------------------------------------------------
(* The theorems                                                            *)

LEMMA InitHolds == ASSUME StreamAssumption, Init PROVE IInv
  <1>1. NoWord \in Words /\ NoElement \in Elements
    BY DEF NoWord, Word, Words, NoElement, Element, Elements
  <1>2. Word(InitWindow, 0, FALSE) \in Words BY StreamAssumption DEF Word, Words
  <1>3. /\ WriterTypeOK /\ SendTypeOK /\ DataTypeOK /\ AcksTypeOK /\ PushTypeOK
        /\ QueueTypeOK /\ RecvTypeOK /\ ReaderTypeOK /\ HistoryTypeOK
    <2>1. WriterTypeOK BY <1>1 DEF Init, WriterTypeOK, WPcs
    <2>2. SendTypeOK
      <3>1. sWord = Word(InitWindow, 0, FALSE) /\ sTokens = 0 BY DEF Init
      <3>2. sWord \in Words BY <3>1, <1>2
      <3>3. sTokens \in 0..2 BY <3>1
      <3> QED BY <3>2, <3>3 DEF Init, SendTypeOK
    <2>3. DataTypeOK /\ AcksTypeOK BY DEF Init, DataTypeOK, AcksTypeOK
    <2>4. PushTypeOK BY <1>1 DEF Init, PushTypeOK, RrPcs
    <2>5. QueueTypeOK
      <3>1. stopTokens \in 0..2 /\ queue \in Seq(Elements) BY DEF Init
      <3> QED BY <3>1 DEF Init, QueueTypeOK
    <2>6. RecvTypeOK BY <1>2 DEF Init, RecvTypeOK
    <2>7. ReaderTypeOK BY <1>1 DEF Init, ReaderTypeOK, RPcs
    <2>8. HistoryTypeOK BY DEF Init, HistoryTypeOK
    <2> QED BY <2>1, <2>2, <2>3, <2>4, <2>5, <2>6, <2>7, <2>8
  <1>4. ElemInv BY DEF Init, ElemInv, NoElement, Element, Size
  <1>5. Contiguous(<<>>) BY DEF Contiguous
  <1>6. DataInv BY <1>5 DEF Init, DataInv, Pushed
  <1>7. QueueInv BY <1>5 DEF Init, QueueInv, InHand, Counted, NoElement, Element
  <1>8. DueInv
    BY DEF Init, DueInv, Due, Unfinished, Exhausted, InHand, Size, NoElement, Element
  <1>9. AckInv BY DEF Init, AckInv, Applied, Word
  <1>10. CreditInv BY DEF Init, CreditInv, PushCredit, StatusCredit, Word
  <1>11. SendWindowInv /\ RecvWindowInv
    BY StreamAssumption DEF Init, SendWindowInv, RecvWindowInv, AllWindows, Word
  <1>12. TokenInv BY DEF Init, TokenInv
  <1> QED
    BY <1>3, <1>4, <1>6, <1>7, <1>8, <1>9, <1>10, <1>11, <1>12 DEF IInv

LEMMA StepKeeps == ASSUME StreamAssumption, IInv, [Next]_vars PROVE IInv'
  <1>1. CASE \E n \in 1..Total : Write(n) BY <1>1, WriteKeeps
  <1>2. CASE \E n \in ReadSizes : Read(n) BY <1>2, ReadKeeps
  <1>3. CASE UNCHANGED vars BY <1>3, Frame DEF vars, IInv
  <1>4. CASE WriterStep
    BY <1>4, WriteToKeeps, WriteToStartKeeps, MarkWaitingKeeps, WaitFailsKeeps, SentKeeps,
       PushDataKeeps
    DEF WriterStep
  <1>5. CASE WriterCloseBegin \/ WriterCloseStep
    BY <1>5, WriterCloseBeginKeeps, WriterCloseInformKeeps, WriterCloseWindowKeeps
    DEF WriterCloseStep
  <1>6. CASE SessionStep
    BY <1>6, RecvAckKeeps, AllowWriterKeeps, AllowClosedKeeps, RecvPeerCloseKeeps
    DEF SessionStep
  <1>7. CASE PeerSessionStep
    BY <1>7, RecvMsgKeeps, CalcSizeKeeps, PushLoadKeeps, PushCasKeeps,
       QueuePushLengthKeeps, QueuePushChainKeeps, AllowPopReaderKeeps,
       AllowPopStoppedKeeps, PushAckKeeps, RecvConnCloseKeeps, PushRefusedKeeps
    DEF PeerSessionStep
  <1>8. CASE ReaderCloseBegin \/ ReaderCloseStep
    BY <1>8, ReaderCloseBeginKeeps, ReaderCloseInformKeeps, ReaderCloseWindowKeeps,
       ReaderCloseReleaseKeeps
    DEF ReaderCloseStep
  <1>9. CASE ReaderStep \/ ReadAgain
    BY <1>9, NextElementKeeps, PopLengthKeeps, PopChainKeeps, WaitPushFailsKeeps,
       FailedReadClosesKeeps, FailedReadReleasesKeeps, CopyDataKeeps, StatusLoadKeeps,
       StatusCasKeeps, StatusAckKeeps, ReadAgainKeeps
    DEF ReaderStep
  <1> QED BY <1>1, <1>2, <1>3, <1>4, <1>5, <1>6, <1>7, <1>8, <1>9 DEF Next, Rest

\* The invariant holds in every reachable state
THEOREM Invariance == Spec => []IInv
  <1>1. Init => IInv BY InitHolds, StreamAssumption
  <1>2. IInv /\ [Next]_vars => IInv' BY StepKeeps, StreamAssumption
  <1> QED BY <1>1, <1>2, PTL DEF Spec

\* Every variable has its type; in particular neither token channel is ever
\* over its capacity of 2, so neither CloseWindow nor Stop blocks
\* (conn.go:161-168, queue.go:366-373)
THEOREM TypeCorrect == Spec => []TypeOK
  <1>1. IInv => TypeOK BY DEF IInv, TypeOK
  <1> QED BY <1>1, Invariance, PTL

\* SetSize never meets a window update that returns more credit than is out, so
\* its error branch, which would lose the update, is dead (conn.go:487-491)
THEOREM CreditSafe == Spec => []NeverOverAcked
  <1>1. ASSUME IInv, NEW i \in 1..Len(acks), acks[i].kind = "ack"
        PROVE  acks[i].read <= sWord.done
    <2>1. acks[i].read \in Nat /\ acks[i].upto \in Nat BY <1>1, AckTypes
    <2>2. Applied + acks[i].read <= acked BY <2>1, <1>1, AckTypes, SMTT(60) DEF IInv, AckInv
    <2>3. acked <= off
      <3>1. acked <= counted BY <1>1, CreditTypes DEF IInv, CreditInv
      <3>2. counted <= Due BY <1>1, CreditTypes, DueFacts DEF Due
      <3>3. Due <= taken /\ taken <= Pushed /\ taken \in Nat
        BY <1>1 DEF IInv, DueInv, DataInv, HistoryTypeOK
      <3>4. Pushed <= off /\ Pushed \in Nat
        BY <1>1 DEF Pushed, IInv, WriterTypeOK, DataInv
      <3> QED BY <1>1, <3>1, <3>2, <3>3, <3>4, CreditTypes, DueFacts, AckTypes
    <2> QED BY <1>1, <2>1, <2>2, <2>3, AckTypes
  <1>2. IInv => NeverOverAcked BY <1>1 DEF NeverOverAcked
  <1> QED BY <1>2, Invariance, PTL

\* However both ends interleave, the bytes that wait in a receive queue fit into the
\* largest window this end ever announced (conn.go:270-308)
THEOREM MemoryBounded == Spec => []QueueBounded
  <1>1. ASSUME IInv PROVE QueueBounded
    <2>1. PICK w \in AllWindows : sWord.done + (IF wpc = "sent" THEN seg ELSE 0) <= w
      BY <1>1 DEF IInv, SendWindowInv
    <2>2. sWord.done <= w /\ w \in Nat
      BY <1>1, <2>1, AckTypes, StreamAssumption DEF AllWindows, IInv, WriterTypeOK
    <2>3. off <= acked + sWord.done BY <1>1, AckTypes DEF IInv, AckInv
    <2>4. acked <= Due
      <3>1. acked <= counted BY <1>1, CreditTypes DEF IInv, CreditInv
      <3>2. counted <= Due BY <1>1, CreditTypes, DueFacts DEF Due
      <3> QED BY <1>1, <3>1, <3>2, CreditTypes, DueFacts
    <2>5. taken <= off /\ taken \in Nat /\ off \in Nat
      BY <1>1 DEF Pushed, IInv, WriterTypeOK, DataInv, HistoryTypeOK
    <2>6. qLength + Due <= taken \/ qLength = 0
      <3>1. Counted => InHand BY DEF Counted, InHand
      <3>2. CASE queue = <<>> /\ ~Counted BY <1>1, <3>2 DEF IInv, QueueInv
      <3>3. CASE queue = <<>> /\ Counted
        <4>1. qLength = Size(cur) /\ cur.to = taken /\ Due <= cur.from
          BY <1>1, <3>1, <3>3, DueFacts DEF IInv, QueueInv, DueInv
        <4> QED BY <1>1, <4>1, <2>5, DueFacts
      <3>4. CASE queue # <<>> /\ ~Counted
        <4>1. qLength = End(queue) - First(queue) /\ End(queue) <= taken
              /\ Due <= First(queue)
          BY <1>1, <3>4, DueFacts DEF IInv, QueueInv, DueInv
        <4> QED BY <1>1, <3>4, <4>1, <2>5, DueFacts
      <3>5. CASE queue # <<>> /\ Counted
        <4>1. /\ qLength = End(queue) - First(queue) + Size(cur) /\ End(queue) = cur.from
              /\ cur.to = taken /\ Due <= First(queue)
          BY <1>1, <3>1, <3>5, DueFacts DEF IInv, QueueInv, DueInv
        <4> QED BY <1>1, <3>5, <4>1, <2>5, DueFacts, SMTT(60)
      <3> QED BY <3>2, <3>3, <3>4, <3>5
    <2>7. acked \in Nat /\ sWord.done \in Nat /\ Due \in Nat /\ qLength \in Nat
      BY <1>1, DueFacts, AckTypes DEF IInv, QueueTypeOK
    <2>8. qLength <= w BY <2>2, <2>3, <2>4, <2>5, <2>6, <2>7
    <2> QED BY <2>8 DEF QueueBounded
  <1>2. IInv => QueueBounded BY <1>1
  <1> QED BY <1>2, Invariance, PTL

-----------------------------------------------------------------------------
(* What follows from the invariant: the byte stream, tokens, and credit      *)

\* the reading end has neither been closed nor has a Read failed: as long as this
\* holds everything that arrives is read in order
Live == ~rIsClose /\ result = "none"

\* the stream position at which the element after elem begins
NextPosition ==
  IF queue # <<>> THEN First(queue) ELSE IF InHand THEN cur.from ELSE taken

\* what the reader has is a beginning of the stream, up to where it is in elem;
\* what it takes next is what follows elem
InOrder ==
  Live =>
    /\ got = [i \in 1..Len(got) |-> i]
    /\ Len(got) = elem.from + eOff
    /\ elem.to = NextPosition

\* once the peer's ConnClose has stopped the queue, what comes after it lies past the
\* tail; and who waits there has read the tail
AfterStop ==
  Live /\ stopped =>
    /\ sOnce \in {"window", "done"} /\ tail <= taken
    /\ InHand => tail <= cur.from
    /\ rpc = "waitPush" => tail <= Len(got)

\* a reader waits at an empty queue with its wait bit set, unless it is about to be woken
Waiting ==
  Live /\ ~stopped /\ rpc = "waitPush" /\ rrpc \notin {"chainWake", "allowPop"} =>
    qWait /\ qLength = 0

\* ConnClose stands at the tail, which is fixed when it is sent
Closing ==
  /\ end <= Total
  /\ sOnce \in {"window", "done"} => tail <= Pushed
  /\ \A i \in 1..Len(data) :
       data[i].kind = "close" => sOnce \in {"window", "done"} /\ data[i].to = tail

\* a Read that fails is the last one; Pop is called when the element is used up; the
\* window is closed by a failed Read or by Close, and a message refused only then
Places ==
  /\ rpc \in {"closeWindow", "release", "over", "panic"} <=> result # "none"
  /\ rpc \in {"pop", "tryPop", "waitPush"} => Exhausted
  /\ rCloseOp => ~Live
  /\ rrpc = "close" => ~Live

OrderInv == InOrder /\ AfterStop /\ Waiting /\ Closing /\ Places

-----------------------------------------------------------------------------
(* What an action leaves alone.                                              *)

LEMMA InOrderKept ==
  ASSUME InOrder, Live' => Live, UNCHANGED <<got, elem, eOff, queue, cur, taken>>,
         InHand' <=> InHand
  PROVE  InOrder'
BY DEF InOrder, NextPosition, First

LEMMA AfterStopKept ==
  ASSUME AfterStop, Live' => Live, UNCHANGED <<stopped, tail, taken, cur, got>>,
         sOnce \in {"window", "done"} => sOnce' \in {"window", "done"},
         InHand' => InHand, rpc' = "waitPush" => rpc = "waitPush"
  PROVE  AfterStop'
BY DEF AfterStop

LEMMA WaitingKept ==
  ASSUME Waiting, Live' => Live, stopped => stopped',
         UNCHANGED <<qWait, qLength>>, rpc' = "waitPush" => rpc = "waitPush",
         rrpc \in {"chainWake", "allowPop"} => rrpc' \in {"chainWake", "allowPop"}
  PROVE  Waiting'
BY DEF Waiting

LEMMA ClosingKept ==
  ASSUME Closing, UNCHANGED <<end, tail, data>>, Pushed' = Pushed,
         sOnce' \in {"window", "done"} <=> sOnce \in {"window", "done"}
  PROVE  Closing'
BY DEF Closing

\* Actions of the writer and of its readSession that send no data.
Aside == UNCHANGED <<end, data, pushVars, queueVars, recvVars, readerVars, history>>

LEMMA AsideKeeps ==
  ASSUME OrderInv, Aside, Pushed' = Pushed,
         sOnce' \in {"window", "done"} <=> sOnce \in {"window", "done"}
  PROVE  OrderInv'
<1> USE DEF Aside, pushVars, queueVars, recvVars, readerVars, history
<1>1. /\ Live' <=> Live
      /\ InHand' <=> InHand
      /\ Exhausted' <=> Exhausted
  BY DEF Live, InHand, Exhausted, Size
<1>2. InOrder'
  BY <1>1, InOrderKept DEF OrderInv
<1>3. AfterStop'
  BY <1>1, AfterStopKept DEF OrderInv
<1>4. Waiting'
  BY <1>1, WaitingKept DEF OrderInv
<1>5. Closing'
  BY ClosingKept DEF OrderInv
<1>6. Places'
  BY <1>1 DEF OrderInv, Places
<1> QED BY <1>2, <1>3, <1>4, <1>5, <1>6 DEF OrderInv

\* Once the reading end is closed or has failed, only places and ends matter.
LEMMA DeadKeeps ==
  ASSUME ~Live', Closing', Places'
  PROVE  OrderInv'
BY DEF OrderInv, InOrder, AfterStop, Waiting

-----------------------------------------------------------------------------
(* The writing end.                                                          *)

USE DEF writerVars, sendVars, pushVars, queueVars, recvVars, readerVars, history

LEMMA WriteOrdered ==
  ASSUME IInv, OrderInv, NEW n \in 1..Total, Write(n)
  PROVE  OrderInv'
<1>1. /\ Live' <=> Live
      /\ InHand' <=> InHand
      /\ Exhausted' <=> Exhausted
      /\ Pushed' = Pushed
  BY DEF Write, Live, InHand, Exhausted, Size, Pushed
<1>2. InOrder'
  BY <1>1, InOrderKept DEF OrderInv, Write
<1>3. AfterStop'
  BY <1>1, AfterStopKept DEF OrderInv, Write
<1>4. Waiting'
  BY <1>1, WaitingKept DEF OrderInv, Write
<1>5. Closing'
  BY <1>1 DEF OrderInv, Closing, Write
<1>6. Places'
  BY <1>1 DEF OrderInv, Places, Write
<1> QED BY <1>2, <1>3, <1>4, <1>5, <1>6 DEF OrderInv

\* None of these actions sends data or looks at the reading end.
LEMMA WriterOrdered ==
  ASSUME IInv, OrderInv,
         \/ WriteTo \/ WriteToStart \/ MarkWaiting \/ WaitFails \/ Sent
         \/ WriterCloseBegin \/ WriterCloseWindow \/ SessionStep
  PROVE  OrderInv'
<1>1. CASE WriteTo \/ WriteToStart
  BY <1>1, AsideKeeps DEF WriteTo, WriteToStart, LoadWindow, Aside, Pushed
<1>2. CASE MarkWaiting \/ WaitFails
  BY <1>2, AsideKeeps DEF MarkWaiting, WaitFails, Aside, Pushed
<1>3. CASE Sent
  <2>1. Pushed' = Pushed
    BY <1>3 DEF Sent, Pushed, IInv, WriterTypeOK
  <2> QED BY <1>3, <2>1, AsideKeeps DEF Sent, Aside
<1>4. CASE WriterCloseBegin \/ WriterCloseWindow
  BY <1>4, AsideKeeps DEF WriterCloseBegin, WriterCloseWindow, Aside, Pushed
<1>5. CASE SessionStep
  BY <1>5, AsideKeeps DEF SessionStep, RecvAck, AllowWriter, AllowClosed, RecvPeerClose,
     Aside, Pushed
<1> QED BY <1>1, <1>2, <1>3, <1>4, <1>5

\* What goes into data is a segment, or ConnClose at the tail.
LEMMA SendOrdered ==
  ASSUME IInv, OrderInv, PushData \/ WriterCloseInform
  PROVE  OrderInv'
<1>1. /\ Live' <=> Live
      /\ InHand' <=> InHand
      /\ Exhausted' <=> Exhausted
  BY DEF PushData, WriterCloseInform, Live, InHand, Exhausted, Size
<1>2. InOrder'
  BY <1>1, InOrderKept DEF OrderInv, PushData, WriterCloseInform
<1>3. AfterStop'
  <2>1. CASE PushData
    BY <2>1, <1>1, AfterStopKept DEF OrderInv, PushData
  <2>2. CASE WriterCloseInform
    BY <2>2, <1>1 DEF OrderInv, AfterStop, WriterCloseInform
  <2> QED BY <2>1, <2>2
<1>4. Waiting'
  BY <1>1, WaitingKept DEF OrderInv, PushData, WriterCloseInform
<1>5. Closing'
  <2>1. CASE PushData
    <3> DEFINE m == Msg(Element(off - seg, off, off < end))
    <3>1. m \in DataMsgs /\ data' = Append(data, m) /\ m.kind = "msg"
      BY <2>1 DEF PushData, Msg, Element, DataMsgs, IInv, WriterTypeOK, DataInv
    <3> HIDE DEF m
    <3>2. Pushed \in Nat /\ Pushed' \in Nat /\ Pushed <= Pushed'
      BY <2>1 DEF PushData, Pushed, IInv, WriterTypeOK, DataInv
    <3>3. /\ Len(data) \in Nat /\ Len(data') = Len(data) + 1
          /\ \A i \in 1..Len(data) : data'[i] = data[i]
          /\ data'[Len(data) + 1] = m
      BY <3>1, AppendFacts DEF IInv, DataTypeOK
    <3>4. ASSUME NEW i \in 1..Len(data'), data'[i].kind = "close"
          PROVE  sOnce' \in {"window", "done"} /\ data'[i].to = tail'
      <4>1. i \in 1..Len(data)
        BY <3>1, <3>3, <3>4
      <4> QED BY <4>1, <3>3, <3>4, <2>1 DEF OrderInv, Closing, PushData
    <3> QED BY <2>1, <3>2, <3>4 DEF OrderInv, Closing, PushData, IInv, HistoryTypeOK
  <2>2. CASE WriterCloseInform
    <3> DEFINE m == ConnClose(Pushed)
    <3>1. m \in DataMsgs /\ data' = Append(data, m) /\ m.to = Pushed
      BY <2>2 DEF WriterCloseInform, Inform, ConnClose, DataMsgs, Pushed, IInv, WriterTypeOK,
         DataInv
    <3> HIDE DEF m
    <3>2. tail' = Pushed /\ Pushed' = Pushed /\ Pushed \in Nat /\ sOnce' = "window"
      BY <2>2 DEF WriterCloseInform, Pushed, IInv, WriterTypeOK, DataInv
    <3>3. /\ Len(data) \in Nat /\ Len(data') = Len(data) + 1
          /\ \A i \in 1..Len(data) : data'[i] = data[i]
          /\ data'[Len(data) + 1] = m
      BY <3>1, AppendFacts DEF IInv, DataTypeOK
    <3>4. ASSUME NEW i \in 1..Len(data'), data'[i].kind = "close"
          PROVE  data'[i].to = tail'
      <4>1. CASE i \in 1..Len(data)
        BY <4>1, <3>3, <3>4, <2>2 DEF OrderInv, Closing, WriterCloseInform
      <4>2. CASE i = Len(data) + 1
        BY <4>2, <3>1, <3>2, <3>3
      <4> QED BY <4>1, <4>2, <3>3
    <3> QED BY <2>2, <3>2, <3>4 DEF OrderInv, Closing, WriterCloseInform
  <2> QED BY <2>1, <2>2
<1>6. Places'
  BY <1>1 DEF OrderInv, Places, PushData, WriterCloseInform
<1> QED BY <1>2, <1>3, <1>4, <1>5, <1>6 DEF OrderInv

-----------------------------------------------------------------------------
(* readSession at the reading end.                                           *)

\* The message it takes is the next stretch of the stream; ConnClose is the tail.
LEMMA TakeOrdered ==
  ASSUME IInv, OrderInv, RecvMsg \/ RecvConnClose
  PROVE  OrderInv'
<1>1. /\ data # <<>> /\ rrpc = "idle" /\ Live' = Live
      /\ UNCHANGED <<wpc, off, seg, end, tail, sOnce, rpc, elem, eOff, got, queue, qLength, qWait,
                     result, rCloseOp>>
      /\ data' = Tail(data) /\ taken' = Head(data).to
  BY DEF RecvMsg, RecvConnClose, Live, PeerClosed, StopQueue
<1>2. /\ Head(data).from = taken /\ taken <= Head(data).to
      /\ Head(data).kind = "close" => Head(data).to = taken
      /\ Head(data).from \in Nat /\ Head(data).to \in Nat /\ taken \in Nat
      /\ Head(data) = data[1] /\ 1 \in 1..Len(data)
  BY <1>1, TakeFacts, TailFacts, ElementTypes DEF IInv, HistoryTypeOK, DataTypeOK
<1>3. Exhausted' = Exhausted /\ Pushed' = Pushed /\ ~InHand
  BY <1>1 DEF Exhausted, Size, Pushed, InHand
<1>4. /\ RecvMsg /\ Live => InHand' /\ cur'.from = taken
      /\ RecvConnClose => ~InHand'
  BY <1>1, <1>2 DEF RecvMsg, RecvConnClose, InHand, NewElement, Element, Live, OrderInv, Places
<1>5. InOrder'
  BY <1>1, <1>2, <1>3, <1>4 DEF OrderInv, InOrder, NextPosition, First, RecvMsg, RecvConnClose
<1>6. AfterStop'
  <2>1. tail \in Nat /\ Len(got) \in Nat
    BY DEF IInv, HistoryTypeOK
  <2>2. CASE RecvMsg
    BY <1>1, <1>2, <1>3, <1>4, <2>1, <2>2 DEF OrderInv, AfterStop, RecvMsg
  <2>3. CASE RecvConnClose /\ ~stopped /\ Live
    <3>1. sOnce \in {"window", "done"} /\ tail = taken
      BY <1>2, <2>3 DEF OrderInv, Closing, RecvConnClose
    <3>2. rpc = "waitPush" => Len(got) = taken
      <4> SUFFICES ASSUME rpc = "waitPush" PROVE Len(got) = taken
        OBVIOUS
      <4>1. qLength = 0 /\ Exhausted
        BY <1>1, <2>3 DEF OrderInv, Waiting, Places
      <4>2. Len(got) = elem.to
        BY <2>3, <4>1, DueFacts, SMTT(60) DEF OrderInv, InOrder, Exhausted
      <4>3. queue = <<>> => elem.to = taken
        BY <1>3, <2>3 DEF OrderInv, InOrder, NextPosition
      <4>4. queue # <<>> => First(queue) = taken
        BY <1>1, <1>3, <2>3, <4>1, DueFacts DEF IInv, QueueInv, Counted, Live
      <4> QED BY <2>3, <4>2, <4>3, <4>4 DEF OrderInv, InOrder, NextPosition
    <3> QED BY <1>1, <1>2, <1>4, <2>1, <2>3, <3>1, <3>2 DEF AfterStop, RecvConnClose
  <2>4. CASE RecvConnClose /\ (stopped \/ ~Live)
    BY <1>1, <1>2, <1>4, <2>1, <2>4 DEF OrderInv, AfterStop, RecvConnClose, PeerClosed, StopQueue
  <2> QED BY <2>2, <2>3, <2>4
<1>7. Waiting'
  BY <1>1 DEF OrderInv, Waiting, RecvMsg, RecvConnClose, PeerClosed, StopQueue
<1>8. Closing'
  <2>1. \A i \in 1..Len(data') : data'[i] = data[i+1] /\ i + 1 \in 1..Len(data)
    BY <1>1, TailFacts DEF IInv, DataTypeOK
  <2> QED BY <1>1, <1>3, <2>1 DEF OrderInv, Closing
<1>9. Places'
  BY <1>1, <1>3 DEF OrderInv, Places, RecvMsg, RecvConnClose, Live
<1> QED BY <1>5, <1>6, <1>7, <1>8, <1>9 DEF OrderInv

\* Until the element is in the chain it stays in hand.
LEMMA PushOrdered ==
  ASSUME IInv, OrderInv,
         \/ CalcSize \/ PushLoad \/ PushCas \/ QueuePushLength \/ AllowPopReader
         \/ AllowPopStopped \/ PushAck \/ PushRefused
  PROVE  OrderInv'
<1>1. /\ Live' = Live /\ Exhausted' = Exhausted /\ Pushed' = Pushed /\ InHand' = InHand
      /\ UNCHANGED <<end, tail, sOnce, elem, eOff, got, queue, cur, taken, data,
                     result, rCloseOp, stopped>>
      /\ rpc' = "waitPush" => rpc = "waitPush"
  BY DEF CalcSize, PushLoad, PushCas, LoadStatus, QueuePushLength, AllowPopReader,
     AllowPopStopped, PushAck, PushRefused, Live, Exhausted, Size, Pushed, InHand, ReaderWaits
<1>2. InOrder'
  BY <1>1, InOrderKept DEF OrderInv
<1>3. AfterStop'
  BY <1>1, AfterStopKept DEF OrderInv
<1>4. Waiting'
  <2>1. CASE CalcSize \/ PushLoad \/ PushCas \/ PushAck \/ PushRefused
    BY <2>1, <1>1, WaitingKept DEF OrderInv, CalcSize, PushLoad, PushCas, LoadStatus, PushAck,
       PushRefused
  <2>2. CASE QueuePushLength
    BY <2>2, <1>1 DEF OrderInv, Waiting, QueuePushLength, ReaderWaits
  <2>3. CASE AllowPopReader
    BY <2>3 DEF Waiting, AllowPopReader
  <2>4. CASE AllowPopStopped
    BY <2>4, <1>1 DEF IInv, TokenInv, QueueTypeOK, Waiting, AllowPopStopped
  <2> QED BY <2>1, <2>2, <2>3, <2>4
<1>5. Closing'
  BY <1>1, ClosingKept DEF OrderInv
<1>6. Places'
  BY <1>1 DEF OrderInv, Places, CalcSize, PushLoad, PushCas, LoadStatus, QueuePushLength,
     AllowPopReader, AllowPopStopped, PushAck, PushRefused
<1> QED BY <1>2, <1>3, <1>4, <1>5, <1>6 DEF OrderInv

\* Then it is the last of the queue.
LEMMA ChainOrdered ==
  ASSUME IInv, OrderInv, QueuePushChain
  PROVE  OrderInv'
<1>1. /\ Live' = Live /\ Exhausted' = Exhausted /\ Pushed' = Pushed /\ InHand /\ ~InHand'
      /\ UNCHANGED <<end, tail, sOnce, elem, eOff, got, taken, data, result, rCloseOp, stopped,
                     rpc, qLength, qWait>>
      /\ queue' = Append(queue, cur)
  BY DEF QueuePushChain, Live, Exhausted, Size, Pushed, InHand
<1>2. InOrder'
  <2>1. queue' # <<>> /\ First(queue') = (IF queue = <<>> THEN cur.from ELSE First(queue))
    BY <1>1, AppendFacts DEF First, IInv, QueueTypeOK, PushTypeOK
  <2> QED BY <1>1, <2>1 DEF OrderInv, InOrder, NextPosition
<1>3. AfterStop'
  BY <1>1 DEF OrderInv, AfterStop
<1>4. Waiting'
  BY <1>1 DEF OrderInv, Waiting, QueuePushChain
<1>5. Closing'
  BY <1>1, ClosingKept DEF OrderInv
<1>6. Places'
  BY <1>1 DEF OrderInv, Places, QueuePushChain
<1> QED BY <1>2, <1>3, <1>4, <1>5, <1>6 DEF OrderInv

-----------------------------------------------------------------------------
(* The reading goroutine, and Close at its end.                              *)

\* A conn that is being closed promises nothing any more.
LEMMA CloseOrdered ==
  ASSUME IInv, OrderInv, ReaderCloseBegin \/ ReaderCloseStep
  PROVE  OrderInv'
<1>1. ~Live' /\ Exhausted' = Exhausted /\ Pushed' = Pushed
      /\ UNCHANGED <<end, tail, sOnce, data, rpc, result, rrpc>>
  BY DEF ReaderCloseBegin, ReaderCloseStep, ReaderCloseInform, ReaderCloseWindow,
     ReaderCloseRelease, Live, Exhausted, Size, Pushed, IInv, QueueInv
<1>2. Closing'
  BY <1>1, ClosingKept DEF OrderInv
<1>3. Places'
  BY <1>1 DEF OrderInv, Places
<1> QED BY <1>1, <1>2, <1>3, DeadKeeps

\* Neither does one whose Read fails.
LEMMA FailOrdered ==
  ASSUME IInv, OrderInv, WaitPushFails \/ FailedReadCloses \/ FailedReadReleases \/ ReadAgain
  PROVE  OrderInv'
<1>1. Pushed' = Pushed /\ UNCHANGED <<end, tail, sOnce, data, rrpc>>
  BY DEF WaitPushFails, FailedReadCloses, FailedReadReleases, ReadAgain, Pushed
<1>2. ~Live' /\ result' # "none" /\ rpc' \in {"closeWindow", "release", "over", "panic"}
  BY DEF WaitPushFails, FailedReadCloses, FailedReadReleases, ReadAgain, Live, OrderInv, Places
<1>3. Closing'
  BY <1>1, ClosingKept DEF OrderInv
<1>4. Places'
  BY <1>1, <1>2 DEF Places
<1> QED BY <1>2, <1>3, <1>4, DeadKeeps

\* These actions copy nothing and take no element.
LEMMA ReadOrdered ==
  ASSUME IInv, OrderInv,
         \/ \E n \in ReadSizes : Read(n)
         \/ StatusLoad \/ StatusCas \/ StatusAck \/ PopLength
  PROVE  OrderInv'
<1>1. /\ Live' = Live /\ Exhausted' = Exhausted /\ Pushed' = Pushed /\ InHand' = InHand
      /\ UNCHANGED <<end, tail, sOnce, elem, eOff, got, queue, cur, taken, data, rrpc,
                     result, rCloseOp, stopped, qLength>>
  <2>1. /\ UNCHANGED <<end, tail, sOnce, elem, eOff, got, queue, cur, taken, data, rrpc,
                       result, rCloseOp, stopped, qLength>>
        /\ UNCHANGED <<rIsClose, wpc, off, seg>>
    BY DEF Read, StatusLoad, StatusCas, StatusAck, PopLength
  <2> QED BY <2>1 DEF Live, Exhausted, Size, Pushed, InHand
<1>2. InOrder'
  BY <1>1, InOrderKept DEF OrderInv
<1>3. AfterStop'
  <2>1. CASE rpc' # "waitPush"
    BY <2>1, <1>1, AfterStopKept DEF OrderInv
  <2>2. CASE rpc' = "waitPush" /\ Live /\ stopped
    <3>1. PopLength /\ qLength = 0 /\ Exhausted
      BY <2>2 DEF Read, StatusLoad, StatusCas, StatusAck, PopLength, AfterStatus, OrderInv, Places
    <3>2. Len(got) = elem.to
      BY <2>2, <3>1, DueFacts, SMTT(60) DEF OrderInv, InOrder, Exhausted
    <3>3. queue # <<>> => First(queue) = (IF InHand THEN cur.from ELSE taken)
      <4> SUFFICES ASSUME queue # <<>> PROVE First(queue) = (IF InHand THEN cur.from ELSE taken)
        OBVIOUS
      <4>1. First(queue) = End(queue)
        BY <3>1, DueFacts, SMTT(60) DEF IInv, QueueInv
      <4>2. End(queue) = (IF InHand THEN cur.from ELSE taken)
        BY <2>2 DEF IInv, QueueInv, OrderInv, Places, Live
      <4> QED BY <4>1, <4>2
    <3>4. Len(got) = (IF InHand THEN cur.from ELSE taken)
      BY <2>2, <3>2, <3>3 DEF OrderInv, InOrder, NextPosition
    <3> QED BY <1>1, <2>2, <3>4 DEF OrderInv, AfterStop
  <2> QED BY <2>1, <2>2, <1>1 DEF AfterStop
<1>4. Waiting'
  <2>1. CASE PopLength
    BY <2>1, <1>1 DEF PopLength, Waiting
  <2>2. CASE ~PopLength
    BY <2>2, <1>1 DEF Read, StatusLoad, StatusCas, StatusAck, AfterStatus, Waiting
  <2> QED BY <2>1, <2>2
<1>5. Closing'
  BY <1>1, ClosingKept DEF OrderInv
<1>6. Places'
  BY <1>1 DEF OrderInv, Places, Read, StatusLoad, StatusCas, StatusAck, AfterStatus, PopLength
<1> QED BY <1>2, <1>3, <1>4, <1>5, <1>6 DEF OrderInv

\* The next element begins where the last one ended; a window that NextElement finds
\* closed belongs to a conn that is closed.
LEMMA PopOrdered ==
  ASSUME IInv, OrderInv, NextElement \/ PopChain
  PROVE  OrderInv'
<1>1. Pushed' = Pushed /\ UNCHANGED <<end, tail, sOnce, data, rrpc, cur, taken, got, stopped>>
      /\ rpc' # "waitPush" /\ InHand' = InHand /\ (Live' => Live)
  BY DEF NextElement, PopChain, Pushed, InHand, Live
<1>2. Closing'
  BY <1>1, ClosingKept DEF OrderInv
<1>3. Places'
  BY <1>1 DEF NextElement, PopChain, OrderInv, Places, Live, Exhausted
<1>4. InOrder'
  <2>1. CASE NextElement /\ Live
    <3>1. UNCHANGED <<queue, elem, eOff>>
      BY <2>1 DEF NextElement, OrderInv, Places
    <3> QED BY <1>1, <3>1, InOrderKept DEF OrderInv
  <2>2. CASE PopChain /\ Live
    <3>1. TryPop /\ elem' = Head(queue) /\ eOff' = 0
      BY <2>2 DEF PopChain
    <3>2. Len(got) = elem.to
      BY <2>2, DueFacts, SMTT(60) DEF PopChain, OrderInv, InOrder, Places, Exhausted
    <3>3. Len(got') = elem'.from + eOff'
      BY <1>1, <2>2, <3>1, <3>2, PopFacts DEF OrderInv, InOrder, NextPosition
    <3>4. elem'.to = NextPosition'
      <4>1. CASE queue' # <<>>
        BY <3>1, <4>1, PopFacts DEF NextPosition
      <4>2. CASE queue' = <<>>
        <5>1. End(queue) = Head(queue).to
          BY <3>1, <4>2, ContiguousTail, ElementTypes DEF TryPop, IInv, QueueTypeOK, QueueInv
        <5> QED BY <1>1, <2>2, <3>1, <4>2, <5>1
            DEF TryPop, NextPosition, IInv, QueueInv, OrderInv, Places, Live
      <4> QED BY <4>1, <4>2
    <3> QED BY <1>1, <2>2, <3>3, <3>4 DEF OrderInv, InOrder
  <2>3. CASE ~Live
    BY <1>1, <2>3 DEF InOrder
  <2> QED BY <2>1, <2>2, <2>3
<1>5. AfterStop'
  BY <1>1, AfterStopKept DEF OrderInv
<1>6. Waiting'
  BY <1>1 DEF Waiting
<1> QED BY <1>2, <1>3, <1>4, <1>5, <1>6 DEF OrderInv

\* CopyData takes the next bytes of the stream.
LEMMA CopyTakes ==
  ASSUME IInv, OrderInv, CopyData, Live
  PROVE  /\ \E l \in Nat : Len(got') = Len(got) + l /\ eOff' = eOff + l
         /\ got' = [i \in 1..Len(got') |-> i]
         /\ Len(got') <= elem.to
<1> DEFINE l == Lesser(want, Size(elem) - eOff)
           more == [i \in 1..l |-> elem.from + eOff + i]
<1>1. /\ got' = got \o more /\ eOff' = eOff + l
  BY DEF CopyData
<1>2. /\ l \in Nat /\ l <= Size(elem) - eOff
      /\ elem.from \in Nat /\ elem.to \in Nat /\ eOff \in Nat /\ Size(elem) = elem.to - elem.from
  BY DueFacts, SMTT(60) DEF Lesser, IInv, ReaderTypeOK, ElemInv
<1> HIDE DEF l
<1>3. /\ got \in Seq(Nat) /\ Len(got) \in Nat /\ Len(got) = elem.from + eOff
      /\ got = [i \in 1..Len(got) |-> i]
  BY DEF IInv, HistoryTypeOK, OrderInv, InOrder
<1>4. more \in Seq(Nat) /\ Len(more) = l
  BY <1>2, IsASeq DEF more
<1>9. \A i \in 1..l : more[i] = elem.from + eOff + i
  OBVIOUS
<1> HIDE DEF more
<1>5. /\ Len(got') = Len(got) + l
      /\ \A i \in 1..Len(got') :
           got'[i] = IF i <= Len(got) THEN got[i] ELSE more[i - Len(got)]
      /\ got' \in Seq(Nat)
  <2>1. got \in Seq(Nat) /\ Len(got) \in Nat /\ l \in Nat
    BY <1>2, <1>3
  <2>2. /\ got \o more \in Seq(Nat)
        /\ Len(got \o more) = Len(got) + Len(more)
        /\ \A i \in 1..Len(got) + Len(more) :
             (got \o more)[i] = IF i <= Len(got) THEN got[i] ELSE more[i - Len(got)]
    BY <1>4, <2>1, ConcatProperties
  <2>3. got' = got \o more /\ Len(more) = l
    BY <1>1, <1>4
  <2> QED BY <2>2, <2>3
<1>6. \A i \in 1..Len(got') : got'[i] = i
  <2> SUFFICES ASSUME NEW i \in 1..Len(got') PROVE got'[i] = i
    OBVIOUS
  <2>1. CASE i <= Len(got)
    BY <2>1, <1>3, <1>5
  <2>2. CASE i > Len(got)
    <3>1. i \in Nat /\ i <= Len(got) + l
      BY <1>2, <1>3, <1>5
    <3>2. i - Len(got) \in 1..l
      BY <3>1, <2>2, <1>2, <1>3, SMTT(60)
    <3>3. got'[i] = more[i - Len(got)]
      BY <2>2, <3>1, <1>3, <1>5
    <3>4. more[i - Len(got)] = elem.from + eOff + (i - Len(got))
      BY <3>2, <1>9
    <3>5. elem.from + eOff + (i - Len(got)) = i
      BY <3>1, <1>2, <1>3
    <3> QED BY <3>3, <3>4, <3>5
  <2> QED BY <2>1, <2>2, <1>3
<1>7. got' = [i \in 1..Len(got') |-> i]
  BY <1>5, <1>6, SeqDef
<1> QED BY <1>1, <1>2, <1>3, <1>5, <1>7

LEMMA CopyOrdered ==
  ASSUME IInv, OrderInv, CopyData
  PROVE  OrderInv'
<1>1. /\ Live' = Live /\ Pushed' = Pushed /\ InHand' = InHand
      /\ UNCHANGED <<end, tail, sOnce, elem, queue, cur, taken, data, rrpc, result, rCloseOp,
                     stopped, qWait, qLength>>
      /\ rpc = "copy" /\ rpc' \in {"status", "idle"}
  BY DEF CopyData, Live, Pushed, InHand
<1>2. InOrder'
  <2>1. CASE Live
    <3>1. PICK l \in Nat : Len(got') = Len(got) + l /\ eOff' = eOff + l
      BY <2>1, CopyTakes, ZenonT(60)
    <3>2. Len(got) = elem.from + eOff /\ elem.to = NextPosition
      BY <2>1 DEF OrderInv, InOrder
    <3>3. Len(got') = elem'.from + eOff'
      <4>1. elem' = elem
        BY <1>1
      <4>2. elem.from \in Nat /\ eOff \in Nat
        BY DueFacts DEF IInv, ReaderTypeOK, ElemInv
      <4> QED BY <3>1, <3>2, <4>1, <4>2
    <3>4. got' = [i \in 1..Len(got') |-> i]
      BY <2>1, CopyTakes, ZenonT(60)
    <3>5. elem'.to = NextPosition'
      BY <1>1, <3>2 DEF NextPosition, First
    <3> QED BY <3>3, <3>4, <3>5, SMTT(60) DEF InOrder
  <2>2. CASE ~Live
    BY <1>1, <2>2 DEF InOrder
  <2> QED BY <2>1, <2>2
<1>3. AfterStop'
  BY <1>1 DEF OrderInv, AfterStop
<1>4. Waiting'
  BY <1>1 DEF Waiting
<1>5. Closing'
  BY <1>1, ClosingKept DEF OrderInv
<1>6. Places'
  BY <1>1 DEF OrderInv, Places
<1> QED BY <1>2, <1>3, <1>4, <1>5, <1>6 DEF OrderInv

-----------------------------------------------------------------------------
(* The invariant, and the byte stream.                                       *)

LEMMA FirstOrdered == Init => OrderInv
<1> SUFFICES ASSUME Init PROVE OrderInv
  OBVIOUS
<1>1. Len(<<>>) = 0 /\ <<>> = [i \in 1..0 |-> i]
  OBVIOUS
<1>2. InOrder
  BY <1>1 DEF Init, InOrder, NextPosition, InHand, NoElement, Element
<1>3. AfterStop /\ Waiting
  BY DEF Init, AfterStop, Waiting
<1>4. Closing
  BY StreamAssumption DEF Init, Closing
<1>5. Places
  BY DEF Init, Places
<1> QED BY <1>2, <1>3, <1>4, <1>5 DEF OrderInv

LEMMA EveryStepOrdered == ASSUME IInv, OrderInv, [Next]_vars PROVE OrderInv'
<1>1. CASE \E n \in 1..Total : Write(n)
  BY <1>1, WriteOrdered
<1>2. CASE WriterStep \/ WriterCloseBegin \/ WriterCloseStep \/ SessionStep
  BY <1>2, WriterOrdered, SendOrdered DEF WriterStep, WriterCloseStep
<1>3. CASE PeerSessionStep
  BY <1>3, TakeOrdered, PushOrdered, ChainOrdered DEF PeerSessionStep
<1>4. CASE ReaderCloseBegin \/ ReaderCloseStep
  BY <1>4, CloseOrdered
<1>5. CASE (\E n \in ReadSizes : Read(n)) \/ ReaderStep \/ ReadAgain
  BY <1>5, ReadOrdered, PopOrdered, FailOrdered, CopyOrdered DEF ReaderStep
<1>6. CASE UNCHANGED vars
  BY <1>6, AsideKeeps DEF vars, Aside, Pushed
<1> QED BY <1>1, <1>2, <1>3, <1>4, <1>5, <1>6 DEF Next, Rest

\* What Spec has besides the types: the order of the bytes.
LEMMA OrderHolds == Spec => [](IInv /\ OrderInv)
<1>1. Init => OrderInv
  BY FirstOrdered
<1>2. IInv /\ OrderInv /\ [Next]_vars => OrderInv'
  BY EveryStepOrdered
<1> QED BY <1>1, <1>2, Invariance, PTL DEF Spec

\* A step of the abstract stream, or none.
StreamStep == [Stream!Next]_(Stream!vars)

LEMMA Quiet ==
  ASSUME Pushed' = Pushed, ClosedAt' = ClosedAt, got' = got, Ended' = Ended
  PROVE  StreamStep
BY DEF StreamStep, Stream!vars

\* A pushed segment is sent, unless it is empty.
LEMMA PushSends == ASSUME IInv, PushData PROVE StreamStep
<1>1. ClosedAt' = ClosedAt /\ got' = got /\ Ended' = Ended
  BY DEF PushData, ClosedAt, Ended
<1>2. Pushed' > Pushed \/ Pushed' = Pushed
  BY DEF PushData, Pushed, IInv, WriterTypeOK, DataInv
<1>3. CASE Pushed' > Pushed
  BY <1>1, <1>3 DEF StreamStep, Stream!Next, Stream!Send
<1> QED BY <1>1, <1>2, <1>3, Quiet

\* ConnClose closes the stream where it stands.
LEMMA InformCloses == ASSUME WriterCloseInform PROVE StreamStep
<1>1. Pushed' = Pushed /\ got' = got /\ Ended' = Ended
  BY DEF WriterCloseInform, Pushed, Ended
<1>2. ClosedAt = NotClosed /\ ClosedAt' = Pushed
  BY DEF WriterCloseInform, ClosedAt
<1> QED BY <1>1, <1>2 DEF StreamStep, Stream!Next, Stream!CloseWriter

\* A conn that its own end closes gives up the stream.
LEMMA CloseAborts == ASSUME ReaderCloseBegin PROVE StreamStep
<1>1. Pushed' = Pushed /\ ClosedAt' = ClosedAt /\ Ended' = "aborted"
  BY DEF ReaderCloseBegin, Pushed, ClosedAt, Ended
<1> QED BY <1>1 DEF StreamStep, Stream!Next, Stream!Abort

\* A Read that fails with end of file has had the whole tail.
LEMMA FailEnds == ASSUME IInv, OrderInv, WaitPushFails PROVE StreamStep
<1>1. Pushed' = Pushed /\ ClosedAt' = ClosedAt /\ got' = got /\ UNCHANGED rIsClose
  BY DEF WaitPushFails, Pushed, ClosedAt
<1>2. result = "none" /\ result' \in {"eof", "timeout"}
  BY DEF WaitPushFails, OrderInv, Places
<1>3. CASE rIsClose
  BY <1>1, <1>3, Quiet DEF Ended
<1>4. CASE ~rIsClose /\ result' = "timeout"
  BY <1>1, <1>4 DEF Ended, StreamStep, Stream!Next, Stream!Abort
<1>5. CASE ~rIsClose /\ result' = "eof"
  <2>1. Live /\ stopped /\ rpc = "waitPush"
    BY <1>2, <1>5 DEF WaitPushFails, Live, IInv, TokenInv
  <2>2. sOnce \in {"window", "done"} /\ tail <= Len(got)
    BY <2>1 DEF OrderInv, AfterStop
  <2>3. Pushed <= Total /\ Pushed \in Nat
    BY StreamAssumption DEF Pushed, IInv, WriterTypeOK, DataInv, OrderInv, Closing
  <2>4. ClosedAt = tail /\ tail # NotClosed
    BY <2>2, <2>3, StreamAssumption DEF ClosedAt, NotClosed, OrderInv, Closing, IInv, HistoryTypeOK
  <2>5. Ended = "open" /\ Ended' = "eof"
    BY <1>1, <1>2, <1>5 DEF Ended
  <2>6. Stream!EndOfFile
    BY <1>1, <2>2, <2>4, <2>5 DEF Stream!EndOfFile, IInv, HistoryTypeOK
  <2> QED BY <2>6 DEF StreamStep, Stream!Next
<1> QED BY <1>2, <1>3, <1>4, <1>5

\* What is copied is delivered; after Close nobody asks what it is.
LEMMA CopyDelivers == ASSUME IInv, OrderInv, CopyData PROVE StreamStep
<1>1. Pushed' = Pushed /\ ClosedAt' = ClosedAt /\ Ended' = Ended /\ result = "none"
  BY DEF CopyData, Pushed, ClosedAt, Ended, OrderInv, Places
<1>2. CASE rIsClose
  BY <1>1, <1>2 DEF Ended, StreamStep, Stream!Next, Stream!Abort
<1>3. CASE ~rIsClose
  <2>1. Live /\ Ended = "open"
    BY <1>1, <1>3, SMTT(60) DEF Live, Ended
  <2>2. PICK l \in Nat : Len(got') = Len(got) + l
    BY <2>1, CopyTakes, ZenonT(60)
  <2>3. got' = [i \in 1..Len(got') |-> i] /\ Len(got') <= elem.to
    BY <2>1, CopyTakes, ZenonT(60)
  <2>4. elem.to <= Pushed
    <3>1. elem.to = NextPosition
      BY <2>1 DEF OrderInv, InOrder
    <3>2. NextPosition <= taken
      BY DueFacts DEF NextPosition, IInv, QueueInv, HistoryTypeOK
    <3>3. taken <= Pushed /\ taken \in Nat /\ Pushed \in Nat
      BY DEF IInv, DataInv, HistoryTypeOK, Pushed, WriterTypeOK
    <3> QED BY <3>1, <3>2, <3>3, DueFacts
  <2>5. CASE l = 0
    <3>1. got = [i \in 1..Len(got) |-> i] /\ Len(got) \in Nat
      BY <2>1 DEF OrderInv, InOrder, IInv, HistoryTypeOK
    <3>2. Len(got') = Len(got)
      BY <2>2, <2>5, <3>1
    <3>3. got' = got
      BY <2>3, <3>1, <3>2, SMTT(60)
    <3> QED BY <1>1, <3>3, Quiet
  <2>6. CASE l # 0
    <3>1. Len(got') \in Len(got) + 1 .. Pushed
      BY <2>2, <2>3, <2>4, <2>6, DueFacts DEF IInv, HistoryTypeOK, Pushed, WriterTypeOK, DataInv
    <3> QED BY <1>1, <2>1, <2>3, <3>1 DEF StreamStep, Stream!Next, Stream!Deliver
  <2> QED BY <2>5, <2>6
<1> QED BY <1>2, <1>3

\* The rest changes nothing that the applications see; EOF of a closed window comes after
\* Close.
LEMMA RestIsQuiet ==
  ASSUME IInv, OrderInv,
         \/ \E n \in 1..Total : Write(n)
         \/ WriteTo \/ WriteToStart \/ MarkWaiting \/ WaitFails \/ Sent
         \/ WriterCloseBegin \/ WriterCloseWindow \/ SessionStep
         \/ PeerSessionStep \/ ReaderCloseStep
         \/ \E n \in ReadSizes : Read(n)
         \/ NextElement \/ PopLength \/ PopChain \/ FailedReadCloses \/ FailedReadReleases
         \/ ReadAgain \/ StatusLoad \/ StatusCas \/ StatusAck
         \/ UNCHANGED vars
  PROVE  StreamStep
<1>1. CASE \/ \E n \in 1..Total : Write(n)
           \/ WriteTo \/ WriteToStart \/ MarkWaiting \/ WaitFails
  BY <1>1, Quiet DEF Write, WriteTo, WriteToStart, LoadWindow, MarkWaiting, WaitFails, Pushed,
     ClosedAt, Ended
<1>2. CASE Sent
  <2>1. Pushed' = Pushed
    BY <1>2 DEF Sent, Pushed, IInv, WriterTypeOK
  <2> QED BY <1>2, <2>1, Quiet DEF Sent, ClosedAt, Ended
<1>3. CASE WriterCloseBegin \/ WriterCloseWindow \/ SessionStep
  BY <1>3, Quiet DEF WriterCloseBegin, WriterCloseWindow, SessionStep, RecvAck, AllowWriter,
     AllowClosed, RecvPeerClose, Pushed, ClosedAt, Ended
<1>4. CASE PeerSessionStep
  <2>1. UNCHANGED <<wpc, off, seg, sOnce, tail, got, rIsClose, result>>
    BY <1>4 DEF PeerSessionStep, RecvMsg, CalcSize, PushLoad, PushCas, QueuePushLength,
       QueuePushChain, AllowPopReader, AllowPopStopped, PushAck, RecvConnClose, PushRefused
  <2> QED BY <2>1, Quiet DEF Pushed, ClosedAt, Ended
<1>5. CASE ReaderCloseStep
  BY <1>5, Quiet DEF ReaderCloseStep, ReaderCloseInform, ReaderCloseWindow, ReaderCloseRelease,
     Pushed, ClosedAt, Ended
<1>6. CASE NextElement
  <2>1. UNCHANGED <<wpc, off, seg, sOnce, tail, got, rIsClose>> /\ (rIsClose \/ UNCHANGED result)
    BY <1>6 DEF NextElement, OrderInv, Places, Live
  <2> QED BY <2>1, Quiet DEF Pushed, ClosedAt, Ended
<1>7. CASE \/ \E n \in ReadSizes : Read(n)
           \/ PopLength \/ PopChain \/ FailedReadCloses \/ FailedReadReleases
           \/ ReadAgain \/ StatusLoad \/ StatusCas \/ StatusAck
  <2>1. UNCHANGED <<wpc, off, seg, sOnce, tail, got, rIsClose, result>>
    BY <1>7 DEF Read, PopLength, PopChain, FailedReadCloses, FailedReadReleases, ReadAgain,
       StatusLoad, StatusCas, StatusAck
  <2> QED BY <2>1, Quiet DEF Pushed, ClosedAt, Ended
<1>8. CASE UNCHANGED vars
  BY <1>8, Quiet DEF vars, Pushed, ClosedAt, Ended
<1> QED BY <1>1, <1>2, <1>3, <1>4, <1>5, <1>6, <1>7, <1>8

\* Every step of the conn is a step of the stream or none.
LEMMA EveryStepMaps == ASSUME IInv, OrderInv, [Next]_vars PROVE StreamStep
<1>1. CASE WriterStep \/ WriterCloseBegin \/ WriterCloseStep \/ SessionStep
  BY <1>1, RestIsQuiet, PushSends, InformCloses DEF WriterStep, WriterCloseStep
<1>2. CASE ReaderCloseBegin \/ ReaderStep
  BY <1>2, RestIsQuiet, CloseAborts, FailEnds, CopyDelivers DEF ReaderStep
<1>3. CASE ~(WriterStep \/ WriterCloseBegin \/ WriterCloseStep \/ SessionStep
             \/ ReaderCloseBegin \/ ReaderStep)
  BY <1>3, RestIsQuiet DEF Next, Rest
<1> QED BY <1>1, <1>2, <1>3

\* A mux connection is a reliable byte stream: what Read returns is what was written, in
\* order, without a gap, and end of file comes after the whole tail, however Read, Write,
\* both closes and both readSessions interleave (conn.go:311).
THEOREM StreamImplemented == Spec => ImplementsByteStream
<1>1. Init => Stream!Init
  BY DEF Init, Stream!Init, Pushed, ClosedAt, Ended
<1>2. IInv /\ OrderInv /\ [Next]_vars => [Stream!Next]_(Stream!vars)
  BY EveryStepMaps DEF StreamStep
<1> QED BY <1>1, <1>2, OrderHolds, PTL DEF Spec, ImplementsByteStream, Stream!Spec

-----------------------------------------------------------------------------
(* readSession serves every conn of a mux and hands over to their writers and  *)
(* readers through channels without a buffer.  It is never stuck there.        *)

\* Before CloseWindow an allow, or a wait bit that leads to one, is for a writer that
\* waits.  Its two tokens are one for the writer, who takes it once, and one for allow,
\* which SetSize does not call any more.
SendTokens ==
  /\ sOnce # "none" => sIsClose
  /\ sOnce = "done" <=> sCloseOp
  /\ setSizeClosed => sCloseOp
  /\ ~sCloseOp =>
       /\ sTokens = 0
       /\ spc = "allow" => wpc = "waiting" /\ ~sWord.wait
       /\ sWord.wait => wpc = "waiting"
  /\ sCloseOp =>
       sTokens >= (IF wpc = "failed" THEN 0 ELSE 1) + (IF spc = "allow" THEN 1 ELSE 0)

ReadFailed == rpc \in {"closeWindow", "release", "over", "panic"}
Waking == rrpc \in {"chainWake", "allowPop"}

\* Who wakes a reader has seen its wait bit, and that reader waits or has failed.  The two
\* tokens of Stop are one for the reader, who takes it once, and one for the waking that
\* may still come.
StopTokens ==
  /\ rpc \in {"release", "over", "panic"} => stopped
  /\ rCloseOp => stopped
  /\ ~stopped => stopTokens = 0
  /\ qWait \/ Waking => rpc = "waitPush" \/ ReadFailed
  /\ Waking => ~qWait
  /\ stopped =>
       stopTokens >= (IF ReadFailed THEN 0 ELSE 1)
                     + (IF qWait \/ Waking \/ (~ReadFailed /\ rpc # "waitPush") THEN 1 ELSE 0)

TokensInv == SendTokens /\ StopTokens

-----------------------------------------------------------------------------
(* The writing end.                                                          *)

LEMMA SendTokensKept ==
  ASSUME SendTokens, UNCHANGED <<wpc, sWord, sendVars, spc>>
  PROVE  SendTokens'
BY DEF SendTokens

LEMMA StopTokensKept ==
  ASSUME StopTokens, UNCHANGED <<rrpc, queueVars, rCloseOp, rpc>>
  PROVE  StopTokens'
BY DEF StopTokens, ReadFailed, Waking

LEMMA WriterTokens ==
  ASSUME IInv, SendTokens,
         \/ \E n \in 1..Total : Write(n)
         \/ WriterStep
  PROVE  SendTokens'
<1>1. sTokens \in 0..2 /\ sWord \in Words
  BY DEF IInv, SendTypeOK
<1>2. CASE \/ \E n \in 1..Total : Write(n)
           \/ WriteTo \/ WriteToStart
  BY <1>1, <1>2 DEF Write, WriteTo, WriteToStart, LoadWindow, SendTokens
<1>3. CASE MarkWaiting
  BY <1>1, <1>3 DEF MarkWaiting, MarkSucceeds, SendTokens, Words
<1>4. CASE WaitFails
  BY <1>1, <1>4 DEF WaitFails, SendTokens
<1>5. CASE Sent \/ PushData
  BY <1>1, <1>5 DEF Sent, PushData, SendTokens, Words
<1> QED BY <1>2, <1>3, <1>4, <1>5 DEF WriterStep

LEMMA WriterCloseTokens ==
  ASSUME IInv, SendTokens, WriterCloseBegin \/ WriterCloseStep
  PROVE  SendTokens'
<1>1. sTokens \in 0..2 /\ spc \in {"idle", "allow"}
  BY DEF IInv, SendTypeOK
<1>2. CASE WriterCloseBegin \/ WriterCloseInform
  BY <1>1, <1>2 DEF WriterCloseBegin, WriterCloseInform, SendTokens
<1>3. CASE WriterCloseWindow
  BY <1>1, <1>3 DEF WriterCloseWindow, CloseTokens, SendTokens
<1> QED BY <1>2, <1>3 DEF WriterCloseStep

LEMMA SessionTokens ==
  ASSUME IInv, SendTokens, SessionStep
  PROVE  SendTokens'
<1>1. sTokens \in 0..2 /\ sWord \in Words
  BY DEF IInv, SendTypeOK
<1>2. CASE RecvAck
  <2>1. CASE sIsClose
    BY <1>2, <2>1 DEF RecvAck, SendTokens
  <2>2. CASE ~sIsClose
    <3>1. ~sCloseOp /\ sOnce = "none" /\ SetSize(Head(acks)) /\ spc = "idle"
      BY <1>2, <2>2 DEF RecvAck, SendTokens
    <3>2. CASE UNCHANGED <<sWord, spc, setSizeClosed>>
      BY <1>2, <3>2, <2>2 DEF RecvAck, SendTokens
    <3>3. CASE ~UNCHANGED <<sWord, spc, setSizeClosed>>
      <4>1. PICK w \in BOOLEAN : /\ sWord' = Word(Head(acks).max, sWord.done - Head(acks).read, w)
                                 /\ w => sWord.wait
                                 /\ spc' = IF Wakes(sWord.wait, w) THEN "allow" ELSE "idle"
                                 /\ UNCHANGED setSizeClosed
        <5> DEFINE w == sWord.wait /\ Remaining(Head(acks).max, sWord.done - Head(acks).read) = 0
        <5>1. w \in BOOLEAN /\ (w => sWord.wait)
          BY <1>1 DEF Words
        <5> QED BY <3>1, <3>3, <5>1 DEF SetSize
      <4>2. sWord'.wait = w
        BY <4>1 DEF Word
      <4> QED BY <1>2, <2>2, <3>1, <4>1, <4>2 DEF RecvAck, SendTokens, Wakes
    <3> QED BY <3>2, <3>3
  <2> QED BY <2>1, <2>2
<1>3. CASE AllowWriter
  BY <1>1, <1>3 DEF AllowWriter, SendTokens
<1>4. CASE AllowClosed
  BY <1>1, <1>4 DEF AllowClosed, SendTokens
<1>5. CASE RecvPeerClose
  BY <1>1, <1>5 DEF RecvPeerClose, SendTokens
<1> QED BY <1>2, <1>3, <1>4, <1>5 DEF SessionStep

-----------------------------------------------------------------------------
(* The reading end.                                                          *)

LEMMA PeerSessionTokens ==
  ASSUME IInv, StopTokens, PeerSessionStep
  PROVE  StopTokens'
<1>1. stopTokens \in 0..2 /\ stopped \in BOOLEAN /\ qWait \in BOOLEAN
  BY DEF IInv, QueueTypeOK
<1>2. CASE RecvMsg \/ CalcSize \/ PushLoad \/ PushCas \/ PushAck \/ PushRefused
  BY <1>1, <1>2 DEF RecvMsg, CalcSize, PushLoad, PushCas, LoadStatus, PushAck, PushRefused,
     StopTokens, ReadFailed, Waking
<1>3. CASE QueuePushLength \/ QueuePushChain
  BY <1>1, <1>3 DEF QueuePushLength, QueuePushChain, ReaderWaits, StopTokens, ReadFailed, Waking
<1>4. CASE AllowPopReader \/ AllowPopStopped
  BY <1>1, <1>4 DEF AllowPopReader, AllowPopStopped, StopTokens, ReadFailed, Waking
<1>5. CASE RecvConnClose
  BY <1>1, <1>5 DEF RecvConnClose, PeerClosed, StopQueue, StopTokens, ReadFailed, Waking
<1> QED BY <1>2, <1>3, <1>4, <1>5 DEF PeerSessionStep

LEMMA ReaderCloseTokens ==
  ASSUME IInv, StopTokens, ReaderCloseBegin \/ ReaderCloseStep
  PROVE  StopTokens'
<1>1. stopTokens \in 0..2 /\ stopped \in BOOLEAN
  BY DEF IInv, QueueTypeOK
<1>2. CASE ReaderCloseBegin \/ ReaderCloseInform \/ ReaderCloseRelease
  BY <1>2 DEF ReaderCloseBegin, ReaderCloseInform, ReaderCloseRelease, TryPop, StopTokens,
     ReadFailed, Waking
<1>3. CASE ReaderCloseWindow
  BY <1>1, <1>3 DEF ReaderCloseWindow, StopQueue, StopTokens, ReadFailed, Waking
<1> QED BY <1>2, <1>3 DEF ReaderCloseStep

LEMMA ReaderTokens ==
  ASSUME IInv, StopTokens,
         \/ \E n \in ReadSizes : Read(n)
         \/ ReaderStep \/ ReadAgain
  PROVE  StopTokens'
<1>1. stopTokens \in 0..2 /\ stopped \in BOOLEAN /\ qWait \in BOOLEAN
  BY DEF IInv, QueueTypeOK
<1>2. CASE \E n \in ReadSizes : Read(n)
  BY <1>1, <1>2 DEF Read, StopTokens, ReadFailed, Waking
<1>3. CASE NextElement
  BY <1>1, <1>3 DEF NextElement, TryPop, StopTokens, ReadFailed, Waking
<1>4. CASE PopLength \/ PopChain
  BY <1>1, <1>4 DEF PopLength, PopChain, TryPop, StopTokens, ReadFailed, Waking
<1>5. CASE WaitPushFails
  BY <1>1, <1>5 DEF WaitPushFails, StopTokens, ReadFailed, Waking
<1>6. CASE FailedReadCloses \/ FailedReadReleases \/ ReadAgain
  BY <1>1, <1>6 DEF FailedReadCloses, FailedReadReleases, ReadAgain, StopQueue, TryPop, StopTokens,
     ReadFailed, Waking
<1>7. CASE CopyData \/ StatusLoad \/ StatusCas \/ StatusAck
  <2>1. /\ rpc \in {"copy", "status", "statusCas", "statusAck"}
        /\ rpc' \in {"idle", "copy", "status", "statusCas", "statusAck"}
        /\ UNCHANGED <<queueVars, rCloseOp, rrpc>>
    <3>1. CASE CopyData
      BY <3>1 DEF CopyData
    <3>2. CASE StatusLoad \/ StatusCas
      BY <3>2 DEF StatusLoad, StatusCas, AfterStatus
    <3>3. CASE StatusAck
      BY <3>3 DEF StatusAck, AfterStatus
    <3> QED BY <1>7, <3>1, <3>2, <3>3
  <2> QED BY <1>1, <2>1 DEF StopTokens, ReadFailed, Waking
<1> QED BY <1>2, <1>3, <1>4, <1>5, <1>6, <1>7 DEF ReaderStep

-----------------------------------------------------------------------------
(* Every step, and the theorem.                                              *)

LEMMA TokensAtFirst == Init => TokensInv
BY DEF Init, TokensInv, SendTokens, StopTokens, ReadFailed, Waking, Word

LEMMA EveryStepTokens == ASSUME IInv, TokensInv, [Next]_vars PROVE TokensInv'
<1> USE DEF TokensInv
<1>1. CASE (\E n \in 1..Total : Write(n)) \/ WriterStep
  <2>1. UNCHANGED <<rrpc, queueVars, rCloseOp, rpc>>
    BY <1>1 DEF Write, WriterStep, WriteTo, WriteToStart, MarkWaiting, WaitFails, Sent, PushData
  <2> QED BY <1>1, <2>1, WriterTokens, StopTokensKept
<1>2. CASE WriterCloseBegin \/ WriterCloseStep
  <2>1. UNCHANGED <<rrpc, queueVars, rCloseOp, rpc>>
    BY <1>2 DEF WriterCloseBegin, WriterCloseStep, WriterCloseInform, WriterCloseWindow
  <2> QED BY <1>2, <2>1, WriterCloseTokens, StopTokensKept
<1>3. CASE SessionStep
  <2>1. UNCHANGED <<rrpc, queueVars, rCloseOp, rpc>>
    BY <1>3 DEF SessionStep, RecvAck, AllowWriter, AllowClosed, RecvPeerClose
  <2> QED BY <1>3, <2>1, SessionTokens, StopTokensKept
<1>4. CASE PeerSessionStep
  <2>1. UNCHANGED <<wpc, sendVars, spc>>
    BY <1>4 DEF PeerSessionStep, RecvMsg, CalcSize, PushLoad, PushCas, LoadStatus, QueuePushLength,
       QueuePushChain, AllowPopReader, AllowPopStopped, PushAck, RecvConnClose, PushRefused
  <2> QED BY <1>4, <2>1, PeerSessionTokens, SendTokensKept
<1>5. CASE ReaderCloseBegin \/ ReaderCloseStep
  <2>1. UNCHANGED <<wpc, sendVars, spc>>
    BY <1>5 DEF ReaderCloseBegin, ReaderCloseStep, ReaderCloseInform, ReaderCloseWindow,
       ReaderCloseRelease
  <2> QED BY <1>5, <2>1, ReaderCloseTokens, SendTokensKept
<1>6. CASE (\E n \in ReadSizes : Read(n)) \/ ReaderStep \/ ReadAgain
  <2>1. UNCHANGED <<wpc, sendVars, spc>>
    BY <1>6 DEF Read, ReaderStep, ReadAgain, NextElement, PopLength, PopChain, WaitPushFails,
       FailedReadCloses, FailedReadReleases, CopyData, StatusLoad, StatusCas, StatusAck
  <2> QED BY <1>6, <2>1, ReaderTokens, SendTokensKept
<1>7. CASE UNCHANGED vars
  BY <1>7, SendTokensKept, StopTokensKept DEF vars
<1> QED BY <1>1, <1>2, <1>3, <1>4, <1>5, <1>6, <1>7 DEF Next, Rest

LEMMA TokensHold == Spec => []TokensInv
<1>1. Init => TokensInv
  BY TokensAtFirst
<1>2. IInv /\ TokensInv /\ [Next]_vars => TokensInv'
  BY EveryStepTokens
<1> QED BY <1>1, <1>2, Invariance, PTL DEF Spec

\* readSession blocks in allow or allowPop only where somebody meets it or a close token is
\* there: no conn stops the others of its mux (conn.go:518, queue.go:325).
THEOREM SessionGoesOn == Spec => []SessionNeverStuck
<1>1. IInv /\ TokensInv => SessionNeverStuck
  <2> SUFFICES ASSUME IInv, TokensInv PROVE SessionNeverStuck
    OBVIOUS
  <2>1. sTokens \in 0..2 /\ stopTokens \in 0..2 /\ stopped \in BOOLEAN
    BY DEF IInv, SendTypeOK, QueueTypeOK
  <2>2. spc = "allow" => wpc = "waiting" \/ sTokens > 0
    BY <2>1 DEF TokensInv, SendTokens
  <2>3. rrpc = "allowPop" => rpc \in {"waitPush", "closeWindow"} \/ stopTokens > 0
    BY <2>1 DEF TokensInv, StopTokens, ReadFailed, Waking
  <2> QED BY <2>2, <2>3 DEF SessionNeverStuck
<1> QED BY <1>1, TokensHold, Invariance, PTL

-----------------------------------------------------------------------------
(* The credit of a conn is neither lost nor held back.                         *)

\* what the reader has counted is the credit on the wire, kept, or in some hand
Balanced == acked + rWord.done + PushCredit + StatusCredit = counted

\* a read size is kept only while there is something left to read: its update comes then
Kept ==
  /\ rWord.done > 0 => counted < taken
  /\ rpc = "statusCas" /\ aRemain # aSeen.max => Due < taken

\* each update on its way begins where the one before it ends
Begin(i) == IF i > Len(acks) THEN acked ELSE acks[i].upto - acks[i].read
Adjacent ==
  ~sIsClose /\ ~rIsClose =>
    /\ Applied = Begin(1)
    /\ \A i \in 1..Len(acks) : acks[i].kind = "ack" /\ acks[i].upto = Begin(i + 1)

CreditsInv == Balanced /\ Kept /\ Adjacent

-----------------------------------------------------------------------------
(* What an action leaves alone.                                              *)

LEMMA BalancedKept ==
  ASSUME Balanced, PushCredit' = PushCredit, StatusCredit' = StatusCredit,
         UNCHANGED <<acked, counted>>, rWord'.done = rWord.done
  PROVE  Balanced'
BY DEF Balanced

LEMMA KeptKept ==
  ASSUME IInv, Kept, UNCHANGED counted, rWord'.done = rWord.done,
         taken' \in Nat, taken <= taken',
         rpc' = "statusCas" => UNCHANGED <<rpc, elem, aRemain, aSeen>>
  PROVE  Kept'
<1>1. counted \in Nat /\ taken \in Nat
  BY DEF IInv, HistoryTypeOK
<1>2. rWord'.done > 0 => counted' < taken'
  BY <1>1 DEF Kept
<1>3. rpc' = "statusCas" => Due' = Due /\ Due \in Nat
  BY DueFacts DEF Due, Unfinished, Size
<1> QED BY <1>1, <1>2, <1>3 DEF Kept

LEMMA AdjacentKept ==
  ASSUME Adjacent, UNCHANGED <<acks, acked>>, Applied' = Applied,
         sIsClose => sIsClose', rIsClose => rIsClose'
  PROVE  Adjacent'
BY DEF Adjacent, Begin

\* Actions of the writing end that apply no update.
LEMMA WriterCredit ==
  ASSUME IInv, CreditsInv,
         \/ \E n \in 1..Total : Write(n)
         \/ WriterStep \/ WriterCloseBegin \/ WriterCloseStep \/ AllowWriter \/ AllowClosed
  PROVE  CreditsInv'
<1>1. /\ UNCHANGED <<acks, acked, counted, taken, rWord, pushVars, readerVars, rIsClose>>
      /\ sIsClose => sIsClose'
      /\ \/ UNCHANGED off /\ sWord'.done = sWord.done
         \/ off' = off + seg /\ sWord'.done = sWord.done + seg
  <2>1. CASE \/ \E n \in 1..Total : Write(n)
             \/ WriteTo \/ WriteToStart \/ WaitFails \/ PushData
    BY <2>1 DEF Write, WriteTo, WriteToStart, WaitFails, PushData
  <2>2. CASE MarkWaiting \/ Sent
    BY <2>2 DEF MarkWaiting, Sent, IInv, SendTypeOK, Words
  <2>3. CASE WriterCloseBegin \/ WriterCloseStep \/ AllowWriter \/ AllowClosed
    BY <2>3 DEF WriterCloseBegin, WriterCloseStep, WriterCloseInform, WriterCloseWindow, AllowWriter,
       AllowClosed
  <2> QED BY <2>1, <2>2, <2>3 DEF WriterStep
<1>2. Applied' = Applied
  BY <1>1, AckTypes DEF Applied, IInv, WriterTypeOK
<1>3. Balanced'
  BY <1>1, BalancedKept DEF CreditsInv, PushCredit, StatusCredit, Size
<1>4. Kept'
  BY <1>1, KeptKept DEF CreditsInv, IInv, HistoryTypeOK
<1>5. Adjacent'
  BY <1>1, <1>2, AdjacentKept DEF CreditsInv
<1> QED BY <1>3, <1>4, <1>5 DEF CreditsInv

\* An update that SetSize applies moves Applied to where the next one begins; one that it
\* ignores returns nothing.
LEMMA AckCredit ==
  ASSUME IInv, TokensInv, CreditsInv, NeverOverAcked, RecvAck \/ RecvPeerClose
  PROVE  CreditsInv'
<1>1. /\ UNCHANGED <<acked, counted, taken, rWord, pushVars, readerVars, rIsClose, off, sIsClose>>
      /\ acks # <<>> /\ acks' = Tail(acks)
  BY DEF RecvAck, RecvPeerClose
<1>2. Balanced'
  BY <1>1, BalancedKept DEF CreditsInv, PushCredit, StatusCredit, Size
<1>3. Kept'
  BY <1>1, KeptKept DEF CreditsInv, IInv, HistoryTypeOK
<1>4. Adjacent'
  <2> SUFFICES ASSUME ~sIsClose, ~rIsClose
               PROVE  /\ Applied' = Begin(1)'
                      /\ \A i \in 1..Len(acks') :
                           acks'[i].kind = "ack" /\ acks'[i].upto = Begin(i + 1)'
    BY <1>1 DEF Adjacent
  <2>1. /\ Len(acks) \in Nat \ {0} /\ Head(acks) = acks[1] /\ 1 \in 1..Len(acks)
        /\ Len(acks') = Len(acks) - 1
        /\ \A i \in 1..Len(acks') : acks'[i] = acks[i+1] /\ i + 1 \in 1..Len(acks)
    BY <1>1, TailFacts DEF IInv, AcksTypeOK
  <2>2. \A i \in 1..Len(acks) : acks[i].kind = "ack" /\ acks[i].upto = Begin(i + 1)
    BY DEF CreditsInv, Adjacent
  <2>3. acks[1].read \in Nat /\ acks[1].upto \in Nat /\ acks[1].read <= sWord.done
    BY <2>1, <2>2, AckTypes DEF NeverOverAcked
  <2>4. \A i \in 1..Len(acks') + 1 : Begin(i)' = Begin(i + 1)
    BY <1>1, <2>1 DEF Begin
  <2>5. Applied' = Begin(2)
    <3>1. Applied = acks[1].upto - acks[1].read
      BY <2>1 DEF CreditsInv, Adjacent, Begin
    <3>2. acks[1].upto = Begin(2)
      BY <2>1, <2>2
    <3>3. SetSize(acks[1]) /\ ~sCloseOp
      BY <1>1, <2>1, <2>2 DEF RecvAck, RecvPeerClose, TokensInv, SendTokens
    <3>4. /\ sWord.done \in Nat /\ off \in Nat /\ off' = off
          /\ Applied = off - sWord.done /\ Applied' = off - sWord'.done
      BY <1>1, AckTypes DEF Applied
    <3>5. \/ sWord' = sWord /\ acks[1].read = 0
          \/ sWord'.done = sWord.done - acks[1].read
      BY <2>3, <3>3, AckTypes DEF SetSize, Word
    <3>6. CASE sWord' = sWord /\ acks[1].read = 0
      BY <2>3, <3>1, <3>2, <3>4, <3>6
    <3>7. CASE sWord'.done = sWord.done - acks[1].read
      BY <2>3, <3>1, <3>2, <3>4, <3>7
    <3> QED BY <3>5, <3>6, <3>7
  <2>6. 1 \in 1..Len(acks') + 1 /\ 1 + 1 = 2
    BY <2>1
  <2>7. Applied' = Begin(1)'
    BY <2>4, <2>5, <2>6
  <2>8. ASSUME NEW i \in 1..Len(acks')
        PROVE  acks'[i].kind = "ack" /\ acks'[i].upto = Begin(i + 1)'
    <3>1. i + 1 \in 1..Len(acks) /\ i + 1 \in 1..Len(acks') + 1 /\ acks'[i] = acks[i + 1]
      BY <2>1
    <3>2. Begin(i + 1)' = Begin((i + 1) + 1)
      BY <2>4, <3>1
    <3> QED BY <2>2, <3>1, <3>2
  <2> QED BY <2>7, <2>8
<1> QED BY <1>2, <1>3, <1>4 DEF CreditsInv

\* readSession at the reading end takes credit to send, and sends it.
LEMMA PeerSessionCredit ==
  ASSUME IInv, CreditsInv, PeerSessionStep, ~PushAck
  PROVE  CreditsInv'
<1>1. /\ UNCHANGED <<acks, acked, counted, off, sWord, sIsClose, rIsClose, elem, aSeen, aRemain>>
      /\ rpc' \in {rpc, "pop"} /\ (rpc' # rpc => rpc = "waitPush")
  BY DEF PeerSessionStep, RecvMsg, CalcSize, PushLoad, PushCas, QueuePushLength, QueuePushChain,
     AllowPopReader, AllowPopStopped, RecvConnClose, PushRefused
<1>2. taken' \in Nat /\ taken <= taken'
  <2>1. CASE RecvMsg \/ RecvConnClose
    BY <2>1, TakeFacts, ElementTypes DEF RecvMsg, RecvConnClose, IInv, HistoryTypeOK
  <2>2. CASE ~(RecvMsg \/ RecvConnClose)
    BY <2>2 DEF PeerSessionStep, CalcSize, PushLoad, PushCas, QueuePushLength, QueuePushChain,
       AllowPopReader, AllowPopStopped, PushRefused, IInv, HistoryTypeOK
  <2> QED BY <2>1, <2>2
<1>3. Adjacent'
  BY <1>1, AdjacentKept DEF CreditsInv, Applied
<1>4. StatusCredit' = StatusCredit
  BY <1>1 DEF StatusCredit, Size
<1>5. CASE PushCas
  <2>1. /\ \/ rWord'.done = rWord.done /\ (pWait' \/ rrpc' = "load")
           \/ rWord'.done = 0 /\ rWord = pSeen /\ rrpc' = "push" /\ ~pWait'
        /\ UNCHANGED pSeen /\ PushCredit = 0
    <3>1. CASE pSeen.wait \/ rWord # pSeen
      BY <1>5, <3>1 DEF PushCas, PushCredit
    <3>2. CASE ~pSeen.wait /\ rWord = pSeen /\ pRemain = 0
      <4>1. rWord' = [pSeen EXCEPT !.wait = TRUE] /\ pWait' = TRUE
        BY <1>5, <3>2 DEF PushCas
      <4> QED BY <1>5, <4>1, <3>2, CreditTypes DEF PushCas, PushCredit, Words
    <3>3. CASE ~pSeen.wait /\ rWord = pSeen /\ pRemain # 0
      <4>1. rWord' = ReadTaken(pSeen) /\ pWait' = FALSE /\ rrpc' = "push"
        BY <1>5, <3>3 DEF PushCas
      <4> QED BY <1>5, <4>1, <3>3, CreditTypes DEF PushCas, PushCredit, Words, ReadTaken
    <3> QED BY <3>1, <3>2, <3>3
  <2>2. rWord'.done + PushCredit' = rWord.done /\ rWord'.done \in Nat /\ PushCredit' \in Nat
    BY <2>1, CreditTypes DEF PushCredit
  <2>3. Balanced'
    <3>1. acked + rWord.done + StatusCredit = counted
      BY <2>1, CreditTypes DEF CreditsInv, Balanced
    <3>2. acked' = acked /\ counted' = counted
      BY <1>1
    <3> QED BY <1>4, <2>2, <3>1, <3>2, CreditTypes DEF Balanced
  <2>4. Kept'
    <3>1. CASE rWord'.done = rWord.done
      BY <1>1, <1>2, <3>1, KeptKept DEF CreditsInv
    <3>2. CASE rWord'.done = 0
      BY <1>1, <1>2, <1>5, <3>2 DEF CreditsInv, Kept, PushCas, Due, Unfinished, Exhausted, Size
    <3> QED BY <2>1, <3>1, <3>2
  <2> QED BY <1>3, <2>3, <2>4 DEF CreditsInv
<1>6. CASE ~PushCas
  <2>1. rWord'.done = rWord.done /\ PushCredit' = PushCredit
    <3>1. CASE CalcSize
      BY <3>1, CreditTypes DEF CalcSize, LoadStatus, PushCredit, Words
    <3>2. CASE ~CalcSize
      BY <1>6, <3>2 DEF PeerSessionStep, RecvMsg, PushLoad, LoadStatus, QueuePushLength,
         QueuePushChain, AllowPopReader, AllowPopStopped, RecvConnClose, PushRefused, PushCredit
    <3> QED BY <3>1, <3>2
  <2>2. Balanced'
    BY <1>1, <1>4, <2>1, BalancedKept DEF CreditsInv
  <2>3. Kept'
    BY <1>1, <1>2, <2>1, KeptKept DEF CreditsInv
  <2> QED BY <1>3, <2>2, <2>3 DEF CreditsInv
<1> QED BY <1>5, <1>6

\* A new update begins where the credit sent before it ends.
LEMMA AppendAdjacent ==
  ASSUME IInv, Adjacent, NEW m \in AckMsgs, m.kind = "ack", acks' = Append(acks, m),
         acked' = acked + m.read, m.upto = acked', UNCHANGED <<off, sWord, sIsClose, rIsClose>>
  PROVE  Adjacent'
<1> SUFFICES ASSUME ~sIsClose, ~rIsClose
             PROVE  /\ Applied' = Begin(1)'
                    /\ \A i \in 1..Len(acks') :
                         acks'[i].kind = "ack" /\ acks'[i].upto = Begin(i + 1)'
  BY DEF Adjacent
<1>1. /\ Len(acks) \in Nat /\ Len(acks') = Len(acks) + 1
      /\ \A i \in 1..Len(acks) : acks'[i] = acks[i]
      /\ acks'[Len(acks) + 1] = m
  BY AppendFacts DEF IInv, AcksTypeOK
<1>2. m.read \in Nat /\ acked \in Nat /\ m.upto = acked + m.read
  BY AckTypes
<1>3. \A i \in 1..Len(acks) + 1 : Begin(i)' = Begin(i)
  BY <1>1, <1>2 DEF Begin
<1>4. ASSUME NEW i \in 1..Len(acks')
      PROVE  acks'[i].kind = "ack" /\ acks'[i].upto = Begin(i + 1)'
  <2>1. CASE i \in 1..Len(acks)
    <3>1. acks[i].kind = "ack" /\ acks[i].upto = Begin(i + 1) /\ i + 1 \in 1..Len(acks) + 1
      BY <1>1, <2>1 DEF Adjacent
    <3> QED BY <1>1, <1>3, <2>1, <3>1
  <2>2. CASE i = Len(acks) + 1
    <3>1. acks'[i] = m /\ i + 1 = Len(acks') + 1 /\ ~(i + 1 <= Len(acks'))
      BY <1>1, <2>2
    <3>2. Begin(i + 1)' = acked'
      BY <1>1, <3>1 DEF Begin
    <3> QED BY <3>1, <3>2
  <2> QED BY <1>1, <2>1, <2>2
<1>5. Applied' = Applied /\ Applied = Begin(1) /\ 1 \in 1..Len(acks) + 1
  BY <1>1 DEF Applied, Adjacent
<1> QED BY <1>3, <1>4, <1>5

\* The two steps that put an update on the wire move the credit in a hand to acked.
LEMMA PushAckCredit ==
  ASSUME IInv, CreditsInv, PushAck
  PROVE  CreditsInv'
<1>1. /\ UNCHANGED <<counted, taken, rWord, readerVars, off, sWord, sIsClose, rIsClose>>
      /\ StatusCredit' = StatusCredit /\ PushCredit' = 0
  BY DEF PushAck, StatusCredit, PushCredit, Size
<1>2. Kept'
  BY <1>1, KeptKept DEF CreditsInv, IInv, HistoryTypeOK
<1>3. CASE pWait
  <2>1. UNCHANGED <<acks, acked>> /\ PushCredit = 0 /\ Applied' = Applied
    BY <1>1, <1>3 DEF PushAck, PushCredit, Applied
  <2>2. Balanced'
    BY <1>1, <2>1, BalancedKept DEF CreditsInv
  <2>3. Adjacent'
    BY <1>1, <2>1, AdjacentKept DEF CreditsInv
  <2> QED BY <1>2, <2>2, <2>3 DEF CreditsInv
<1>4. CASE ~pWait
  <2> DEFINE m == Ack(pSeen.max, pSeen.done, acked + pSeen.done)
  <2>1. acks' = Append(acks, m) /\ acked' = acked + pSeen.done /\ PushCredit = pSeen.done
    BY <1>4 DEF PushAck, PushCredit
  <2>2. m \in AckMsgs /\ m.kind = "ack" /\ m.read = pSeen.done /\ m.upto = acked + pSeen.done
    BY CreditTypes DEF Ack, AckMsgs, Words
  <2>3. Adjacent'
    BY <1>1, <2>1, <2>2, AppendAdjacent DEF CreditsInv
  <2>4. Balanced'
    BY <1>1, <2>1, CreditTypes DEF CreditsInv, Balanced
  <2> QED BY <1>2, <2>3, <2>4 DEF CreditsInv
<1> QED BY <1>3, <1>4

LEMMA StatusAckCredit ==
  ASSUME IInv, CreditsInv, StatusAck
  PROVE  CreditsInv'
<1> DEFINE read == aSeen.done + Size(elem)
           m == Ack(aSeen.max, read, acked + read)
<1>1. /\ UNCHANGED <<counted, taken, rWord, pushVars, off, sWord, sIsClose, rIsClose>>
      /\ rpc' \in {"copy", "idle"} /\ PushCredit' = PushCredit
      /\ StatusCredit = read /\ StatusCredit' = 0
      /\ acks' = Append(acks, m) /\ acked' = acked + read
  BY DEF StatusAck, AfterStatus, PushCredit, StatusCredit
<1>2. read \in Nat
  BY CreditTypes, DueFacts, SMTT(60)
<1>3. Kept'
  BY <1>1, KeptKept DEF CreditsInv, IInv, HistoryTypeOK
<1>4. m \in AckMsgs /\ m.kind = "ack" /\ m.read = read /\ m.upto = acked + read
  BY <1>2, CreditTypes DEF Ack, AckMsgs, Words
<1>5. Adjacent'
  BY <1>1, <1>4, AppendAdjacent DEF CreditsInv
<1>6. Balanced'
  <2> HIDE DEF read, m
  <2>1. acked + rWord.done + PushCredit + read = counted
    BY <1>1 DEF CreditsInv, Balanced
  <2>2. acked' = acked + read /\ rWord'.done = rWord.done /\ counted' = counted
    BY <1>1
  <2> QED BY <1>1, <1>2, <2>1, <2>2, CreditTypes DEF Balanced
<1> QED BY <1>3, <1>5, <1>6 DEF CreditsInv

\* The close of the reading end may end the updates with its ConnClose.
LEMMA ReaderCloseCredit ==
  ASSUME IInv, CreditsInv, ReaderCloseBegin \/ ReaderCloseStep
  PROVE  CreditsInv'
<1>1. /\ UNCHANGED <<acked, counted, taken, rWord, pushVars, readerVars, off, sWord, sIsClose>>
      /\ rIsClose => rIsClose'
      /\ ~UNCHANGED acks => rIsClose
  BY DEF ReaderCloseBegin, ReaderCloseStep, ReaderCloseInform, ReaderCloseWindow,
     ReaderCloseRelease, IInv, QueueInv
<1>2. Balanced'
  BY <1>1, BalancedKept DEF CreditsInv, PushCredit, StatusCredit, Size
<1>3. Kept'
  BY <1>1, KeptKept DEF CreditsInv, IInv, HistoryTypeOK
<1>4. Adjacent'
  <2>1. CASE rIsClose
    BY <1>1, <2>1 DEF Adjacent
  <2>2. CASE UNCHANGED acks
    BY <1>1, <2>2, AdjacentKept DEF CreditsInv, Applied
  <2> QED BY <1>1, <2>1, <2>2
<1> QED BY <1>2, <1>3, <1>4 DEF CreditsInv

-----------------------------------------------------------------------------
(* The reader.                                                               *)

LEMMA ReaderCredit ==
  ASSUME IInv, CreditsInv,
         \/ \E n \in ReadSizes : Read(n)
         \/ NextElement \/ PopLength \/ PopChain \/ WaitPushFails \/ FailedReadCloses
         \/ FailedReadReleases \/ CopyData \/ ReadAgain
  PROVE  CreditsInv'
<1>1. /\ UNCHANGED <<acks, acked, counted, taken, rWord, pushVars, off, sWord, sIsClose, rIsClose>>
      /\ rpc # "statusAck" /\ rpc' \notin {"statusAck", "statusCas"}
  <2>1. CASE \/ \E n \in ReadSizes : Read(n)
             \/ NextElement \/ PopLength \/ PopChain \/ WaitPushFails
    BY <2>1 DEF Read, NextElement, PopLength, PopChain, WaitPushFails
  <2>2. CASE FailedReadCloses \/ FailedReadReleases \/ CopyData \/ ReadAgain
    BY <2>2 DEF FailedReadCloses, FailedReadReleases, CopyData, ReadAgain
  <2> QED BY <2>1, <2>2
<1>2. Balanced'
  BY <1>1, BalancedKept DEF CreditsInv, PushCredit, StatusCredit
<1>3. Kept'
  BY <1>1, KeptKept DEF CreditsInv, IInv, HistoryTypeOK
<1>4. Adjacent'
  BY <1>1, AdjacentKept DEF CreditsInv, Applied
<1> QED BY <1>2, <1>3, <1>4 DEF CreditsInv

\* What waits in the queue lies between what the reader is due and what was taken in.
LEMMA QueueAhead ==
  ASSUME IInv
  PROVE  qLength \in Nat /\ taken \in Nat /\ (qLength > 0 => Due < taken)
<1>1. qLength \in Nat /\ taken \in Nat /\ (Counted => InHand)
  BY DEF IInv, QueueTypeOK, HistoryTypeOK, Counted, InHand
<1>2. CASE queue = <<>> /\ ~Counted
  BY <1>1, <1>2 DEF IInv, QueueInv
<1>3. CASE queue = <<>> /\ Counted
  <2>1. qLength = Size(cur) /\ cur.to = taken /\ Due <= cur.from
    BY <1>1, <1>3, DueFacts DEF IInv, QueueInv, DueInv
  <2> QED BY <1>1, <2>1, DueFacts
<1>4. CASE queue # <<>> /\ ~Counted
  <2>1. qLength = End(queue) - First(queue) /\ End(queue) <= taken /\ Due <= First(queue)
    BY <1>4, DueFacts DEF IInv, QueueInv, DueInv
  <2> QED BY <1>1, <1>4, <2>1, DueFacts
<1>5. CASE queue # <<>> /\ Counted
  <2>1. /\ qLength = End(queue) - First(queue) + Size(cur) /\ End(queue) = cur.from
        /\ cur.to = taken /\ Due <= First(queue)
    BY <1>1, <1>5, DueFacts DEF IInv, QueueInv, DueInv
  <2> QED BY <1>1, <1>5, <2>1, DueFacts, SMTT(60)
<1> QED BY <1>1, <1>2, <1>3, <1>4, <1>5

LEMMA StatusLoadCredit ==
  ASSUME IInv, CreditsInv, StatusLoad
  PROVE  CreditsInv'
<1>1. /\ UNCHANGED <<acks, acked, counted, taken, rWord, pushVars, off, sWord, sIsClose, rIsClose, elem>>
      /\ rpc = "status" /\ rpc' = "statusCas"
      /\ aSeen' = rWord /\ aRemain' = Remaining(rWord.max, qLength)
  BY DEF StatusLoad
<1>2. Balanced'
  BY <1>1, BalancedKept DEF CreditsInv, PushCredit, StatusCredit
<1>3. Adjacent'
  BY <1>1, AdjacentKept DEF CreditsInv, Applied
<1>4. aRemain' # aSeen'.max => qLength > 0
  BY <1>1, CreditTypes, QueueAhead DEF Remaining, Words
<1>5. Due' = Due
  BY <1>1 DEF Due, Unfinished, Size
<1>6. Kept'
  BY <1>1, <1>4, <1>5, QueueAhead DEF CreditsInv, Kept
<1> QED BY <1>2, <1>3, <1>6 DEF CreditsInv

LEMMA StatusCasCredit ==
  ASSUME IInv, CreditsInv, StatusCas
  PROVE  CreditsInv'
<1> DEFINE read == aSeen.done + Size(elem)
<1>0. aSeen.done \in Nat /\ Size(elem) \in Nat /\ read \in Nat
  BY CreditTypes, DueFacts, SMTT(60)
<1>1. /\ UNCHANGED <<acks, acked, taken, pushVars, off, sWord, sIsClose, rIsClose, elem, aSeen, aRemain>>
      /\ rpc = "statusCas" /\ rpc' # "statusCas"
      /\ StatusCredit = 0 /\ PushCredit' = PushCredit
  BY DEF StatusCas, AfterStatus, StatusCredit, PushCredit
<1>2. Adjacent'
  BY <1>1, AdjacentKept DEF CreditsInv, Applied
<1>3. CASE rWord # aSeen
  <2>1. UNCHANGED <<rWord, counted>> /\ rpc' = "status" /\ StatusCredit' = 0
    BY <1>3 DEF StatusCas, StatusCredit
  <2>2. Balanced'
    BY <1>1, <2>1, BalancedKept DEF CreditsInv
  <2>3. Kept'
    BY <1>1, <2>1 DEF CreditsInv, Kept
  <2> QED BY <1>2, <2>2, <2>3 DEF CreditsInv
<1>4. CASE rWord = aSeen
  <2>1. counted' = counted + Size(elem)
    BY <1>4 DEF StatusCas
  <2>2. \/ rWord'.done = 0 /\ StatusCredit' = read
        \/ rWord'.done = read /\ StatusCredit' = 0 /\ aRemain # aSeen.max
    <3>1. CASE AckDue(aSeen, read, aRemain)
      <4>1. rWord' = ReadTaken(Word(aSeen.max, read, FALSE)) /\ rpc' = "statusAck"
        BY <1>4, <3>1 DEF StatusCas
      <4> QED BY <1>1, <4>1 DEF ReadTaken, Word, StatusCredit, Size
    <3>2. CASE ~AckDue(aSeen, read, aRemain)
      <4>1. rWord' = [aSeen EXCEPT !.done = read] /\ rpc' \in {"copy", "idle"}
        BY <1>4, <3>2 DEF StatusCas, AfterStatus
      <4> QED BY <3>2, <4>1, CreditTypes DEF AckDue, StatusCredit, Words
    <3> QED BY <3>1, <3>2
  <2>3. rWord'.done + StatusCredit' = rWord.done + Size(elem)
        /\ rWord'.done \in Nat /\ StatusCredit' \in Nat
    BY <1>0, <1>4, <2>2
  <2>4. Balanced'
    <3>1. acked + rWord.done + PushCredit = counted
      BY <1>1, CreditTypes DEF CreditsInv, Balanced
    <3> QED BY <1>0, <1>1, <2>1, <2>3, <3>1, CreditTypes DEF Balanced
  <2>5. Kept'
    <3>1. Due = counted'
      BY <1>1, <2>1 DEF Due, Unfinished
    <3>2. rWord'.done > 0 => aRemain # aSeen.max
      BY <2>2
    <3> QED BY <1>1, <3>1, <3>2 DEF CreditsInv, Kept
  <2> QED BY <1>2, <2>4, <2>5 DEF CreditsInv
<1> QED BY <1>3, <1>4

-----------------------------------------------------------------------------
(* The theorem.                                                              *)

LEMMA CreditsAtFirst == Init => CreditsInv
<1> SUFFICES ASSUME Init PROVE CreditsInv
  OBVIOUS
<1>1. Balanced
  BY DEF Init, Balanced, PushCredit, StatusCredit, Word
<1>2. Kept
  BY DEF Init, Kept, Word
<1>3. Adjacent
  BY DEF Init, Adjacent, Begin, Applied, Word
<1> QED BY <1>1, <1>2, <1>3 DEF CreditsInv

LEMMA EveryStepCredits ==
  ASSUME IInv, TokensInv, NeverOverAcked, CreditsInv, [Next]_vars
  PROVE  CreditsInv'
<1>1. CASE \/ \E n \in 1..Total : Write(n)
           \/ WriterStep \/ WriterCloseBegin \/ WriterCloseStep
  BY <1>1, WriterCredit
<1>2. CASE SessionStep
  BY <1>2, WriterCredit, AckCredit DEF SessionStep
<1>3. CASE PeerSessionStep
  BY <1>3, PeerSessionCredit, PushAckCredit
<1>4. CASE ReaderCloseBegin \/ ReaderCloseStep
  BY <1>4, ReaderCloseCredit
<1>5. CASE (\E n \in ReadSizes : Read(n)) \/ ReaderStep \/ ReadAgain
  BY <1>5, ReaderCredit, StatusLoadCredit, StatusCasCredit, StatusAckCredit DEF ReaderStep
<1>6. CASE UNCHANGED vars
  <2>1. /\ UNCHANGED <<acks, acked, counted, taken, rWord, pushVars, readerVars>>
        /\ UNCHANGED <<off, sWord, sIsClose, rIsClose>>
    BY <1>6 DEF vars
  <2>2. Balanced'
    BY <2>1, BalancedKept DEF CreditsInv, PushCredit, StatusCredit, Size
  <2>3. Kept'
    BY <2>1, KeptKept DEF CreditsInv, IInv, HistoryTypeOK
  <2>4. Adjacent'
    BY <2>1, AdjacentKept DEF CreditsInv, Applied
  <2> QED BY <2>2, <2>3, <2>4 DEF CreditsInv
<1> QED BY <1>1, <1>2, <1>3, <1>4, <1>5, <1>6 DEF Next, Rest

LEMMA CreditsHold == Spec => []CreditsInv
<1>1. Init => CreditsInv
  BY CreditsAtFirst
<1>2. IInv /\ TokensInv /\ NeverOverAcked /\ CreditsInv /\ [Next]_vars => CreditsInv'
  BY EveryStepCredits
<1> QED BY <1>1, <1>2, Invariance, TokensHold, CreditSafe, PTL DEF Spec

\* Credit does not leak: a send window whose bytes were all read and whose updates have all
\* arrived is wide open again, however the two goroutines that send updates raced for the
\* packed word (conn.go:270-372, 471-516).
THEOREM CreditComesBack == Spec => []NoCreditLost
<1>1. IInv /\ CreditsInv => NoCreditLost
  <2> SUFFICES ASSUME IInv, CreditsInv,
                      off = counted, acks = <<>>, rrpc = "idle", wpc # "sent",
                      rpc # "statusAck", ~sIsClose, ~rIsClose
               PROVE  sWord.done = 0
    BY DEF NoCreditLost
  <2>1. PushCredit = 0 /\ StatusCredit = 0
    BY DEF PushCredit, StatusCredit
  <2>2. taken <= off /\ taken \in Nat /\ off \in Nat
    BY DEF Pushed, IInv, WriterTypeOK, DataInv, HistoryTypeOK
  <2>3. rWord.done = 0
    BY <2>2, CreditTypes DEF CreditsInv, Kept
  <2>4. acked = off
    BY <2>1, <2>3, CreditTypes DEF CreditsInv, Balanced
  <2>5. Applied = acked
    BY DEF CreditsInv, Adjacent, Begin
  <2> QED BY <2>4, <2>5, AckTypes
<1> QED BY <1>1, CreditsHold, Invariance, PTL

=============================================================================
