----------------------------- MODULE LinkProofs -----------------------------
(* What holds of a client and its bridge for any number of reconnections     *)
(* and faults: the types, where a count of ticks never passes the limit at   *)
(* which ping evicts, and that no signal is left without an entry.           *)
EXTENDS Link, SequenceTheorems, TLAPS

\* a generation that has not dialled has no signal, and those to come have not started
Unstarted ==
  /\ \A g \in Gens : g > gen => start[g] = "idle"
  /\ \A g \in Gens : start[g] \in {"idle", "dial"} => sig[g] = "none" /\ ~signal[g]
  /\ \A g \in Gens : start[g] \notin {"idle", "dial"} => sig[g] # "none"

\* handlers and entries hold only what has been there
Loaded ==
  /\ \A g \in Gens : main[g].pc # "none" => sig[g] # "none"
  /\ \A g \in Gens : main[g].pc \in {"swap", "close"} => main[g].entry # 0
  /\ \A g \in Gens : main[g].old # 0 => sig[main[g].old] # "none"
  /\ \A g \in Gens : chan[g].pc = "swap" => chan[g].entry # 0
  /\ \A t \in Callers : del[t].pc = "take" => del[t].entry # 0
  /\ conf.pc = "clear" => conf.entry # 0

Known == \A e \in 1..Len(entries) : entries[e].signal # 0 => sig[entries[e].signal] # "none"

\* the entry in the map has ticks left, or ping is at work on it
Counted ==
  client # 0 => entries[client].retryTime < MaxRetry \/ del[PingLoop].pc # "idle"

\* who is accepted is in an entry or about to be closed
Accepted == {"close", "done"}
ToClose(g) == \E h \in Gens : main[h].pc = "close" /\ main[h].old = g

NoStray ==
  \A g \in Gens : main[g].pc \in Accepted /\ sig[g] = "open" =>
    ToClose(g) \/ \E e \in 1..Len(entries) : entries[e].signal = g

LinkInv == TypeOK /\ Unstarted /\ Loaded /\ Known /\ Counted /\ NoStray


-----------------------------------------------------------------------------
(* Lemmas about entries, which are changed one at a time or get one more.    *)

\* The type of the entries, by name.
LEMMA EntryTyped ==
  ASSUME BridgeTypeOK
  PROVE  /\ entries \in Seq(Entry) /\ Len(entries) \in Nat
         /\ \A e \in 1..Len(entries) : /\ entries[e] \in Entry
                                       /\ entries[e].signal \in 0..MaxGen
                                       /\ entries[e].tunnel \in 0..MaxGen
                                       /\ entries[e].retryTime \in 0..MaxRetry
                                       /\ entries[e].signal # 0 => entries[e].signal \in Gens
<1>1. entries \in Seq(Entry)
  BY DEF BridgeTypeOK, Entry
<1>2. \A e \in 1..Len(entries) : entries[e] \in Entry
  BY <1>1, ElementOfSeq
<1>3. \A n \in 0..MaxGen : n # 0 => n \in Gens
  BY ConnsAssumption DEF Gens
<1> QED BY <1>1, <1>2, <1>3 DEF Entry

\* What is to be closed is a signal, or nothing.
LEMMA OldTyped ==
  ASSUME BridgeTypeOK
  PROVE  \A g \in Gens : main[g].old # 0 => main[g].old \in Gens
<1>1. \A g \in Gens : main[g].old \in 0..MaxGen
  BY DEF BridgeTypeOK, Main
<1> QED BY <1>1, ConnsAssumption DEF Gens

\* One entry is exchanged for another.
LEMMA EntryExchanged ==
  ASSUME entries \in Seq(Entry), NEW e \in 1..Len(entries), NEW r \in Entry,
         entries' = [entries EXCEPT ![e] = r]
  PROVE  /\ entries' \in Seq(Entry) /\ Len(entries') = Len(entries)
         /\ \A d \in 1..Len(entries) : entries'[d] = IF d = e THEN r ELSE entries[d]
BY ExceptSeq

\* One more entry.
LEMMA EntryAdded ==
  ASSUME entries \in Seq(Entry), NEW r \in Entry, entries' = Append(entries, r)
  PROVE  /\ entries' \in Seq(Entry) /\ Len(entries') = Len(entries) + 1
         /\ \A d \in 1..Len(entries) : entries'[d] = entries[d]
         /\ entries'[Len(entries) + 1] = r
BY AppendProperties

\* Nothing has started but the first generation.
LEMMA Initially == Init => LinkInv
<1> SUFFICES ASSUME Init PROVE LinkInv
  OBVIOUS
<1> USE ConnsAssumption, BridgeAssumption
        DEF Init, ConnsInit, ClientInit, BridgeInit, Gens, Callers, Handler, MainHandler, Idle
<1>1. TypeOK
  <2>1. entries \in Seq(Entry) /\ Len(entries) = 0
    BY EmptySeq
  <2>2. ConnsTypeOK /\ ClientTypeOK
    BY DEF ConnsTypeOK, ClientTypeOK
  <2>3. main \in [Gens -> Main(Len(entries))]
        /\ chan \in [Gens -> Chan(Len(entries))]
        /\ del \in [Callers -> Del(Len(entries))]
    BY <2>1 DEF Main, Chan, Del
  <2>4. conf \in Conf(Len(entries))
    BY <2>1 DEF Conf
  <2>5. BridgeTypeOK
    <3>1. client \in 0..Len(entries)
      <4>1. client = 0 /\ Len(entries) = 0
        BY <2>1
      <4> HIDE DEF Init
      <4> QED BY <4>1
    <3>2. orphaned \in BOOLEAN /\ health \in [Gens -> {"none", "run", "end"}]
      OBVIOUS
    <3> QED BY <2>1, <2>3, <2>4, <3>1, <3>2 DEF BridgeTypeOK
  <2> QED BY <2>2, <2>5 DEF TypeOK
<1>2. Unstarted
  BY DEF Unstarted
<1>3. Loaded
  BY DEF Loaded
<1>4. Known /\ Counted /\ NoStray
  BY DEF Known, Counted, NoStray, Accepted
<1> QED BY <1>1, <1>2, <1>3, <1>4 DEF LinkInv

-----------------------------------------------------------------------------
(* The client's steps leave entries and handlers alone: what they do to a    *)
(* signal is to open it, before any handler can have seen it, or to close it.*)

\* what a step may do to the signals, and what stays
SignalsKept == \A g \in Gens : sig'[g] = sig[g] \/ (sig[g] # "none" /\ sig'[g] = "closed")

\* Signals that are closed, and a bridge that stands still, keep what LinkInv says of it.
LEMMA BridgeStands ==
  ASSUME LinkInv, UNCHANGED bridgeVars, SignalsKept
  PROVE  BridgeTypeOK' /\ Loaded' /\ Known' /\ Counted' /\ NoStray'
<1> USE DEF LinkInv, TypeOK, BridgeTypeOK, bridgeVars, SignalsKept
<1>1. BridgeTypeOK' /\ Counted'
  BY DEF Counted
<1>4. Loaded'
  <2>1. \A g \in Gens : main[g].old # 0 => main[g].old \in Gens
    BY OldTyped
  <2> QED BY <2>1 DEF Loaded
<1>2. Known'
  <2>1. \A e \in 1..Len(entries) : entries[e].signal # 0 => entries[e].signal \in Gens
    BY EntryTyped
  <2> QED BY <2>1 DEF Known
<1>3. NoStray'
  BY ZenonT(60) DEF NoStray, ToClose
<1> QED BY <1>1, <1>2, <1>3, <1>4

\* Dial opens a signal that no handler has seen.
LEMMA DialInv == ASSUME LinkInv, NEW g \in Gens, Dial(g), UNCHANGED bridgeVars PROVE LinkInv'
<1> USE DEF LinkInv, TypeOK, ConnsTypeOK, ClientTypeOK, BridgeTypeOK, Dial, bridgeVars
<1>1. TypeOK' /\ Unstarted'
  BY SMTT(60), ZenonT(60) DEF Unstarted
<1>2. main[g].pc = "none"
  BY DEF Unstarted, Loaded
<1>3. Counted'
  BY DEF Counted
<1>6. Loaded'
  <2>1. \A h \in Gens : main[h].old # 0 => main[h].old \in Gens
    BY OldTyped
  <2> QED BY <2>1 DEF Loaded
<1>4. Known'
  <2>1. \A e \in 1..Len(entries) : entries[e].signal # 0 => entries[e].signal \in Gens
    BY EntryTyped
  <2> QED BY <2>1 DEF Known
<1>5. NoStray'
  BY <1>2 DEF NoStray, ToClose, Accepted
<1> QED BY <1>1, <1>3, <1>4, <1>5, <1>6

\* Every other step of the client.
LEMMA ClientInv == ASSUME LinkInv, ClientNext, UNCHANGED bridgeVars PROVE LinkInv'
<1> USE DEF LinkInv, TypeOK, ConnsTypeOK, ClientTypeOK, Unstarted, conns, Close, Fault
<1>1. ASSUME NEW g \in Gens, Dial(g) PROVE LinkInv'
  BY <1>1, DialInv
<1>2. ASSUME SignalsKept, ConnsTypeOK', ClientTypeOK', Unstarted' PROVE LinkInv'
  BY <1>2, BridgeStands
<1>3. ASSUME NEW g \in Gens, StoreSignal(g) PROVE LinkInv'
  BY <1>2, <1>3 DEF StoreSignal, SignalsKept
<1>4. ASSUME NEW g \in Gens, HandleMain(g) PROVE LinkInv'
  BY <1>2, <1>4 DEF HandleMain, SignalsKept
<1>5. ASSUME NEW g \in Gens, ReadFlagFails(g) PROVE LinkInv'
  BY <1>2, <1>5 DEF ReadFlagFails, SignalsKept
<1>6. ASSUME NEW g \in Gens, StartReturns(g) PROVE LinkInv'
  BY <1>2, <1>6 DEF StartReturns, SignalsKept
<1>7. CASE NextClient
  <2>1. gen + 1 \in Gens /\ start[gen + 1] = "idle"
    BY <1>7, ConnsAssumption DEF NextClient, Gens
  <2> QED BY <1>2, <1>7, <2>1, ConnsAssumption DEF NextClient, SignalsKept, Gens
<1>8. ASSUME NEW g \in Gens, ChanDial(g) PROVE LinkInv'
  BY <1>2, <1>8 DEF ChanDial, SignalsKept
<1>9. ASSUME NEW g \in Gens, StoreTunnel(g) PROVE LinkInv'
  BY <1>2, <1>9 DEF StoreTunnel, SignalsKept
<1>10. ASSUME NEW g \in Gens, TunnelLost(g) PROVE LinkInv'
  BY <1>2, <1>10 DEF TunnelLost, SignalsKept
<1>11. ASSUME NEW g \in Gens, CloseSignal(g) PROVE LinkInv'
  <2>1. sig' = [sig EXCEPT ![g] = IF signal[g] THEN "closed" ELSE sig[g]]
    BY <1>11 DEF CloseSignal, ClosesSignal
  <2>2. signal[g] => sig[g] # "none"
    OBVIOUS
  <2> QED BY <1>2, <1>11, <2>1, <2>2 DEF CloseSignal, SignalsKept
<1>12. ASSUME NEW g \in Gens, ChanDialFails(g) PROVE LinkInv'
  BY <1>2, <1>12, ConnsAssumption DEF ChanDialFails, SignalsKept
<1> QED BY <1>1, <1>3, <1>4, <1>5, <1>6, <1>7, <1>8, <1>9, <1>10, <1>11, <1>12
        DEF ClientNext, ClientGoesOn, ClientStep

-----------------------------------------------------------------------------
(* The bridge's steps: a signal leaves an entry only when it is closed, and  *)
(* a handler is done only when its signal is in one.                         *)

\* whoever has become done has its signal in this entry
DoneBy(r) ==
  \A g \in Gens : main'[g].pc \in Accepted => main[g].pc \in Accepted \/ r.signal = g

\* whoever was about to be closed is, or still is about to be
StillToClose == \A g \in Gens : ToClose(g) => ToClose(g)' \/ sig'[g] = "closed"

\* An entry is exchanged, and its signal with it, which is closed, or stays.
LEMMA SignalReplaced ==
  ASSUME LinkInv, SignalsKept,
         NEW e \in 1..Len(entries), NEW r \in Entry, entries' = [entries EXCEPT ![e] = r],
         entries[e].signal \in Gens =>
           \/ r.signal = entries[e].signal \/ sig'[entries[e].signal] = "closed"
           \/ \E h \in Gens : main'[h].pc = "close" /\ main'[h].old = entries[e].signal,
         DoneBy(r), StillToClose, r.signal # 0 => sig'[r.signal] # "none"
  PROVE  /\ entries' \in Seq(Entry) /\ Len(entries') = Len(entries)
         /\ \A d \in 1..Len(entries) : entries'[d] = IF d = e THEN r ELSE entries[d]
         /\ Known' /\ NoStray'
<1>1. /\ entries' \in Seq(Entry) /\ Len(entries') = Len(entries)
      /\ \A d \in 1..Len(entries) : entries'[d] = IF d = e THEN r ELSE entries[d]
  BY EntryTyped, EntryExchanged DEF LinkInv, TypeOK
<1>2. Known'
  <2>1. \A d \in 1..Len(entries) : entries[d].signal # 0 => entries[d].signal \in Gens
    BY EntryTyped DEF LinkInv, TypeOK
  <2> QED BY <1>1, <2>1 DEF Known, LinkInv, SignalsKept
<1>3. NoStray'
  <2> SUFFICES ASSUME NEW g \in Gens, main'[g].pc \in Accepted, sig'[g] = "open"
               PROVE  ToClose(g)' \/ \E d \in 1..Len(entries') : entries'[d].signal = g
    BY DEF NoStray
  <2>1. CASE r.signal = g
    BY <1>1, <2>1
  <2>2. CASE r.signal # g
    <3>1. main[g].pc \in Accepted /\ sig[g] = "open" /\ (ToClose(g) => ToClose(g)')
      BY <2>2 DEF DoneBy, SignalsKept, StillToClose
    <3>2. ToClose(g) \/ \E d \in 1..Len(entries) : entries[d].signal = g
      BY <3>1 DEF LinkInv, NoStray
    <3>3. ASSUME NEW d \in 1..Len(entries), entries[d].signal = g
          PROVE  ToClose(g)' \/ entries'[d].signal = g
      <4>1. CASE d = e
        <5>1. r.signal # entries[e].signal /\ sig'[entries[e].signal] # "closed"
              /\ entries[e].signal \in Gens
          BY <2>2, <3>3, <4>1
        <5>2. \E h \in Gens : main'[h].pc = "close" /\ main'[h].old = g
          BY <3>3, <4>1, <5>1
        <5> QED BY <5>2 DEF ToClose
      <4>2. CASE d # e
        BY <1>1, <3>3, <4>2
      <4> QED BY <4>1, <4>2
    <3> QED BY <1>1, <3>1, <3>2, <3>3
  <2> QED BY <2>1, <2>2
<1> QED BY <1>1, <1>2, <1>3

\* An entry is added.
LEMMA SignalAdded ==
  ASSUME LinkInv, UNCHANGED sig, NEW r \in Entry, entries' = Append(entries, r),
         DoneBy(r), StillToClose, r.signal # 0 => sig[r.signal] # "none"
  PROVE  /\ entries' \in Seq(Entry) /\ Len(entries') = Len(entries) + 1
         /\ \A d \in 1..Len(entries) : entries'[d] = entries[d]
         /\ entries'[Len(entries) + 1] = r
         /\ Known' /\ NoStray'
<1>1. /\ entries' \in Seq(Entry) /\ Len(entries') = Len(entries) + 1
      /\ \A d \in 1..Len(entries) : entries'[d] = entries[d]
      /\ entries'[Len(entries) + 1] = r
  BY EntryTyped, EntryAdded DEF LinkInv, TypeOK
<1>2. Len(entries) \in Nat
  BY EntryTyped DEF LinkInv, TypeOK
<1>3. Known'
  BY <1>1, <1>2 DEF Known, LinkInv
<1>4. NoStray'
  <2> SUFFICES ASSUME NEW g \in Gens, main'[g].pc \in Accepted, sig'[g] = "open"
               PROVE  ToClose(g)' \/ \E d \in 1..Len(entries') : entries'[d].signal = g
    BY DEF NoStray
  <2>1. CASE r.signal = g
    BY <1>1, <1>2, <2>1
  <2>2. CASE r.signal # g
    <3>1. main[g].pc \in Accepted /\ sig[g] = "open" /\ (ToClose(g) => ToClose(g)')
      BY <2>2 DEF DoneBy, StillToClose
    <3>2. ToClose(g) \/ \E d \in 1..Len(entries) : entries[d].signal = g
      BY <3>1 DEF LinkInv, NoStray
    <3> QED BY <1>1, <1>2, <3>1, <3>2
  <2> QED BY <2>1, <2>2
<1> QED BY <1>1, <1>3, <1>4

\* A signal that has been there is closed.
LEMMA OldSignalClosed ==
  ASSUME LinkInv, NEW old, old \in Gens => sig[old] # "none",
         sig' = [h \in Gens |-> IF h = old THEN "closed" ELSE sig[h]]
  PROVE  /\ SignalsKept
         /\ old \in Gens => sig'[old] = "closed"
         /\ ConnsTypeOK /\ UNCHANGED <<tun, cuts>> => ConnsTypeOK'
         /\ UNCHANGED clientVars => Unstarted'
<1>1. \A g \in Gens : g = old => sig[g] # "none"
  OBVIOUS
<1>2. SignalsKept
  BY <1>1 DEF SignalsKept
<1>3. ConnsTypeOK /\ UNCHANGED <<tun, cuts>> => ConnsTypeOK'
  BY DEF ConnsTypeOK
<1>4. UNCHANGED clientVars => Unstarted'
  BY <1>2 DEF Unstarted, clientVars, LinkInv, SignalsKept
<1> QED BY <1>2, <1>3, <1>4


\* What handlers and callers hold stays in range when there is one more entry.
LEMMA OneMore ==
  ASSUME LinkInv, Len(entries') = Len(entries) + 1
  PROVE  /\ main \in [Gens -> Main(Len(entries'))]
         /\ chan \in [Gens -> Chan(Len(entries'))]
         /\ del \in [Callers -> Del(Len(entries'))]
         /\ conf \in Conf(Len(entries'))
         /\ Len(entries) + 1 \in 0..Len(entries')
<1>1. Len(entries) \in Nat
  BY EntryTyped DEF LinkInv, TypeOK
<1>2. 0..Len(entries) \subseteq 0..Len(entries')
  BY <1>1
<1>3. /\ main \in [Gens -> Main(Len(entries))] /\ chan \in [Gens -> Chan(Len(entries))]
      /\ del \in [Callers -> Del(Len(entries))] /\ conf \in Conf(Len(entries))
  BY DEF LinkInv, TypeOK, BridgeTypeOK
<1>4. /\ Main(Len(entries)) \subseteq Main(Len(entries'))
      /\ Chan(Len(entries)) \subseteq Chan(Len(entries'))
      /\ Del(Len(entries)) \subseteq Del(Len(entries'))
      /\ Conf(Len(entries)) \subseteq Conf(Len(entries'))
  BY <1>2 DEF Main, Chan, Del, Conf
<1> QED BY <1>1, <1>2, <1>3, <1>4

\* A step of the handler of one signal, as others see it.
LEMMA MainMoves ==
  ASSUME main \in [Gens -> Main(Len(entries))], NEW g \in Gens, NEW m \in Main(Len(entries)),
         main' = [main EXCEPT ![g] = m]
  PROVE  /\ main' \in [Gens -> Main(Len(entries))] /\ main'[g] = m
         /\ \A h \in Gens \ {g} : main'[h] = main[h]
OBVIOUS

\* typeDeal of a signal, first half: a new entry that holds it, or the one that is there.
LEMMA MainLoadOrStoreInv ==
  ASSUME LinkInv, NEW g \in Gens, MainLoadOrStore(g), UNCHANGED clientVars PROVE LinkInv'
<1> USE BridgeAssumption, ConnsAssumption
<1>0. main[g].pc = "none" /\ main \in [Gens -> Main(Len(entries))]
  BY DEF MainLoadOrStore, LinkInv, TypeOK, BridgeTypeOK
<1>1. UNCHANGED <<conns, clientVars, sig, tun, cuts, chan, conf, del, orphaned>> /\ sig[g] # "none"
  BY DEF MainLoadOrStore, conns
<1>2. ConnsTypeOK' /\ ClientTypeOK' /\ Unstarted'
  BY <1>1 DEF LinkInv, TypeOK, ConnsTypeOK, ClientTypeOK, Unstarted, clientVars
<1>3. CASE client = 0
  <2> DEFINE r == NewClient(g, 0)
  <2>1. r \in Entry /\ r.signal = g /\ r.retryTime = 0 /\ g # 0
    BY DEF NewClient, Entry, Gens
  <2>2. /\ entries' = Append(entries, r) /\ client' = Len(entries) + 1
        /\ main' = [main EXCEPT ![g].pc = "done"] /\ health' = [health EXCEPT ![g] = "run"]
    BY <1>3 DEF MainLoadOrStore
  <2>3. DoneBy(r) /\ StillToClose
    BY <1>0, <2>1, <2>2 DEF DoneBy, StillToClose, ToClose, LinkInv, TypeOK, BridgeTypeOK
  <2> HIDE DEF r
  <2>4. /\ entries' \in Seq(Entry) /\ Len(entries') = Len(entries) + 1
        /\ entries'[Len(entries) + 1] = r
        /\ Known' /\ NoStray'
    BY <1>1, <2>1, <2>2, <2>3, SignalAdded
  <2>5. BridgeTypeOK'
    <3>1. /\ main \in [Gens -> Main(Len(entries'))]
          /\ chan \in [Gens -> Chan(Len(entries'))]
          /\ del \in [Callers -> Del(Len(entries'))]
          /\ client' \in 0..Len(entries') /\ conf \in Conf(Len(entries'))
      BY <2>2, <2>4, OneMore
    <3>2. main' \in [Gens -> Main(Len(entries'))]
      <4> DEFINE m == [main[g] EXCEPT !.pc = "done"]
      <4>1. main' = [main EXCEPT ![g] = m]
        BY <2>2, <3>1
      <4>2. m \in Main(Len(entries'))
        <5>1. main[g] \in Main(Len(entries'))
          BY <3>1
        <5> QED BY <5>1 DEF Main
      <4> HIDE DEF m
      <4> QED BY <3>1, <4>1, <4>2
    <3>3. chan' \in [Gens -> Chan(Len(entries'))] /\ del' \in [Callers -> Del(Len(entries'))]
      BY <1>1, <3>1
    <3>4. health' \in [Gens -> {"none", "run", "end"}]
      BY <1>1, <2>2 DEF LinkInv, TypeOK, BridgeTypeOK
    <3> QED BY <1>1, <2>4, <3>1, <3>2, <3>3, <3>4 DEF LinkInv, TypeOK, BridgeTypeOK, Entry
  <2>6. Loaded'
    BY <1>1, <2>2 DEF LinkInv, TypeOK, BridgeTypeOK, Loaded
  <2>7. Counted'
    BY <2>1, <2>2, <2>4 DEF Counted
  <2> QED BY <1>2, <2>4, <2>5, <2>6, <2>7 DEF LinkInv, TypeOK
<1>4. CASE client # 0
  <2>1. /\ UNCHANGED <<entries, client, health>>
        /\ main' = [main EXCEPT ![g].pc = "swap", ![g].entry = client]
    BY <1>4 DEF MainLoadOrStore
  <2>0. client \in 0..Len(entries) /\ client # 0
    BY <1>4 DEF LinkInv, TypeOK, BridgeTypeOK
  <2>5. /\ main'[g].pc = "swap" /\ main'[g].entry = client /\ main'[g].old = main[g].old
        /\ \A h \in Gens \ {g} : main'[h] = main[h]
        /\ main' \in [Gens -> Main(Len(entries))]
    <3> DEFINE m == [main[g] EXCEPT !.pc = "swap", !.entry = client]
    <3>1. main[g] \in Main(Len(entries))
      BY <1>0
    <3>2. m \in Main(Len(entries)) /\ m.pc = "swap" /\ m.entry = client /\ m.old = main[g].old
      BY <2>0, <3>1 DEF Main
    <3>3. main' = [main EXCEPT ![g] = m]
      BY <1>0, <2>1
    <3> HIDE DEF m
    <3> QED BY <1>0, <3>2, <3>3, MainMoves
  <2>2. BridgeTypeOK'
    BY <1>1, <2>1, <2>5 DEF LinkInv, TypeOK, BridgeTypeOK
  <2>3. Loaded' /\ Counted'
    BY <1>1, <2>0, <2>1, <2>5 DEF LinkInv, Loaded, Counted
  <2>4. Known' /\ NoStray'
    <3>1. \A h \in Gens : ToClose(h) => ToClose(h)'
      BY <1>0, <2>5 DEF ToClose
    <3>2. \A h \in Gens : main'[h].pc \in Accepted => main[h].pc \in Accepted
      BY <2>5 DEF Accepted
    <3> QED BY <1>1, <2>1, <3>1, <3>2 DEF LinkInv, Known, NoStray
  <2> QED BY <1>2, <2>2, <2>3, <2>4 DEF LinkInv, TypeOK
<1> QED BY <1>3, <1>4

\* Second half: the entry gets the new signal, and the old one is about to be closed.
LEMMA MainSwapInv ==
  ASSUME LinkInv, NEW g \in Gens, MainSwap(g), UNCHANGED clientVars PROVE LinkInv'
<1> USE BridgeAssumption, ConnsAssumption
<1> DEFINE e == main[g].entry
           r == [entries[e] EXCEPT !.signal = g]
           m == [main[g] EXCEPT !.pc = "close", !.old = entries[e].signal]
<1>1. /\ e \in 1..Len(entries) /\ main[g].pc = "swap" /\ main[g] \in Main(Len(entries))
      /\ main \in [Gens -> Main(Len(entries))] /\ sig[g] # "none"
  BY DEF LinkInv, TypeOK, BridgeTypeOK, Loaded, MainSwap, Main
<1>2. /\ r \in Entry /\ r.signal = g /\ r.retryTime = entries[e].retryTime
      /\ m \in Main(Len(entries)) /\ m.pc = "close" /\ m.entry = e /\ m.old = entries[e].signal
  <2>1. entries[e] \in Entry /\ entries[e].signal \in 0..MaxGen
    BY <1>1, EntryTyped DEF LinkInv, TypeOK
  <2>2. g \in 0..MaxGen
    BY DEF Gens
  <2> QED BY <1>1, <2>1, <2>2 DEF Entry, Main
<1>3. /\ entries' = [entries EXCEPT ![e] = r] /\ main' = [main EXCEPT ![g] = m]
      /\ UNCHANGED <<conns, client, chan, health, conf, del>> /\ orphaned' \in BOOLEAN
  <2>1. entries' = [entries EXCEPT ![e] = r]
    BY <1>1, EntryTyped DEF MainSwap, LinkInv, TypeOK
  <2>2. main' = [main EXCEPT ![g] = m]
    BY <1>1 DEF MainSwap
  <2> QED BY <2>1, <2>2 DEF MainSwap, LinkInv, TypeOK, BridgeTypeOK
<1> HIDE DEF e, r, m
<1>4. /\ main' \in [Gens -> Main(Len(entries))] /\ main'[g] = m
      /\ \A h \in Gens \ {g} : main'[h] = main[h]
  BY <1>1, <1>2, <1>3, MainMoves
<1>5. /\ DoneBy(r) /\ StillToClose /\ SignalsKept
      /\ \E h \in Gens : main'[h].pc = "close" /\ main'[h].old = entries[e].signal
  <2>1. DoneBy(r) /\ SignalsKept
    BY <1>2, <1>3, <1>4 DEF DoneBy, SignalsKept, conns
  <2>2. StillToClose
    BY <1>1, <1>4 DEF StillToClose, ToClose
  <2>3. \E h \in Gens : main'[h].pc = "close" /\ main'[h].old = entries[e].signal
    BY <1>2, <1>4
  <2> QED BY <2>1, <2>2, <2>3
<1>7. /\ entries' \in Seq(Entry) /\ Len(entries') = Len(entries)
      /\ \A d \in 1..Len(entries) : entries'[d] = IF d = e THEN r ELSE entries[d]
      /\ Known' /\ NoStray'
  <2>1. r.signal # 0 => sig'[r.signal] # "none"
    BY <1>1, <1>2, <1>3 DEF conns
  <2> QED BY <1>1, <1>2, <1>3, <1>5, <2>1, SignalReplaced
<1>8. ConnsTypeOK' /\ ClientTypeOK' /\ Unstarted'
  BY <1>3 DEF LinkInv, TypeOK, ConnsTypeOK, ClientTypeOK, Unstarted, conns, clientVars
<1>9. BridgeTypeOK'
  BY <1>3, <1>4, <1>7, SMTT(60) DEF LinkInv, TypeOK, BridgeTypeOK
<1>10. Loaded'
  <2>1. m.old # 0 => sig[m.old] # "none"
    BY <1>1, <1>2 DEF LinkInv, Known
  <2> QED BY <1>1, <1>2, <1>3, <1>4, <2>1 DEF LinkInv, Loaded, conns
<1>11. Counted'
  <2>1. client # 0 => client \in 1..Len(entries)
    BY DEF LinkInv, TypeOK, BridgeTypeOK
  <2> QED BY <1>2, <1>3, <1>7, <2>1 DEF LinkInv, Counted
<1> QED BY <1>7, <1>8, <1>9, <1>10, <1>11 DEF LinkInv, TypeOK

\* Last, the old signal is closed; the entry begins to count anew.
LEMMA MainCloseInv ==
  ASSUME LinkInv, NEW g \in Gens, MainClose(g), UNCHANGED clientVars PROVE LinkInv'
<1> USE BridgeAssumption, ConnsAssumption
<1> DEFINE e == main[g].entry
           r == [entries[e] EXCEPT !.retryTime = 0]
           old == main[g].old
           m == [pc |-> "done", entry |-> 0, old |-> 0]
<1>1. /\ e \in 1..Len(entries) /\ main[g].pc = "close"
      /\ main \in [Gens -> Main(Len(entries))]
      /\ old \in Gens => sig[old] # "none"
  BY DEF LinkInv, TypeOK, BridgeTypeOK, Loaded, MainClose, Main, Gens
<1>2. /\ r \in Entry /\ r.signal = entries[e].signal /\ r.retryTime = 0
      /\ m \in Main(Len(entries)) /\ m.pc = "done" /\ m.old = 0
  <2>1. entries[e] \in Entry /\ 0 \in 0..MaxRetry
    BY <1>1, EntryTyped DEF LinkInv, TypeOK
  <2>2. Len(entries) \in Nat
    BY EntryTyped DEF LinkInv, TypeOK
  <2> QED BY <1>1, <2>1, <2>2 DEF Entry, Main
<1>3. /\ entries' = [entries EXCEPT ![e] = r] /\ main' = [main EXCEPT ![g] = m]
      /\ sig' = [h \in Gens |-> IF h = old THEN "closed" ELSE sig[h]]
      /\ health' = [health EXCEPT ![g] = "run"]
      /\ UNCHANGED <<tun, cuts, client, chan, conf, del, orphaned>>
  <2>1. entries' = [entries EXCEPT ![e] = r]
    BY <1>1, EntryTyped DEF MainClose, LinkInv, TypeOK
  <2> QED BY <2>1 DEF MainClose, Replaced
<1>4. /\ SignalsKept /\ (old \in Gens => sig'[old] = "closed")
      /\ ConnsTypeOK' /\ Unstarted'
  BY <1>1, <1>3, OldSignalClosed DEF LinkInv, TypeOK
<1> HIDE DEF e, r, m
<1>5. /\ main' \in [Gens -> Main(Len(entries))] /\ main'[g] = m
      /\ \A h \in Gens \ {g} : main'[h] = main[h]
  BY <1>1, <1>2, <1>3, MainMoves
<1>6. DoneBy(r) /\ StillToClose
  <2>1. DoneBy(r)
    BY <1>1, <1>5 DEF DoneBy, Accepted
  <2>2. StillToClose
    BY <1>4, <1>5 DEF StillToClose, ToClose
  <2> QED BY <2>1, <2>2
<1> HIDE DEF old
<1>7. /\ entries' \in Seq(Entry) /\ Len(entries') = Len(entries)
      /\ \A d \in 1..Len(entries) : entries'[d] = IF d = e THEN r ELSE entries[d]
      /\ Known' /\ NoStray'
  <2>1. r.signal # 0 => sig'[r.signal] # "none"
    <3>1. r.signal # 0 => r.signal \in Gens /\ sig[r.signal] # "none"
      BY <1>1, <1>2, EntryTyped DEF LinkInv, TypeOK, Known
    <3> QED BY <1>4, <3>1 DEF SignalsKept
  <2> QED BY <1>1, <1>2, <1>3, <1>4, <1>6, <2>1, SignalReplaced
<1>8. ClientTypeOK'
  BY DEF LinkInv, TypeOK, ClientTypeOK, clientVars
<1>9. BridgeTypeOK'
  BY <1>3, <1>5, <1>7, SMTT(60) DEF LinkInv, TypeOK, BridgeTypeOK
<1>10. Loaded'
  <2>1. \A h \in Gens : main[h].old # 0 => main[h].old \in Gens /\ sig'[main[h].old] # "none"
    BY <1>4, OldTyped DEF LinkInv, TypeOK, Loaded, SignalsKept
  <2>2. \A h \in Gens : sig[h] # "none" => sig'[h] # "none"
    BY <1>4 DEF SignalsKept
  <2> QED BY <1>1, <1>2, <1>3, <1>5, <2>1, <2>2 DEF LinkInv, Loaded
<1>11. Counted'
  <2>1. client # 0 => client \in 1..Len(entries)
    BY DEF LinkInv, TypeOK, BridgeTypeOK
  <2> QED BY <1>2, <1>3, <1>7, <2>1 DEF LinkInv, Counted
<1> QED BY <1>4, <1>7, <1>8, <1>9, <1>10, <1>11 DEF LinkInv, TypeOK

\* typeDeal of a tunnel, which touches no signal.
LEMMA ChanLoadOrStoreInv ==
  ASSUME LinkInv, NEW g \in Gens, ChanLoadOrStore(g), UNCHANGED clientVars PROVE LinkInv'
<1> USE BridgeAssumption, ConnsAssumption
<1>1. UNCHANGED <<conns, clientVars, sig, tun, cuts, main, health, conf, del, orphaned>>
  BY DEF ChanLoadOrStore, conns
<1>2. ConnsTypeOK' /\ ClientTypeOK' /\ Unstarted'
  BY <1>1 DEF LinkInv, TypeOK, ConnsTypeOK, ClientTypeOK, Unstarted, clientVars
<1>3. CASE client = 0
  <2> DEFINE r == NewClient(0, g)
  <2>1. r \in Entry /\ r.signal = 0 /\ r.retryTime = 0
    BY DEF NewClient, Entry, Gens
  <2>2. /\ entries' = Append(entries, r) /\ client' = Len(entries) + 1
        /\ chan' = [chan EXCEPT ![g].pc = "done"]
    BY <1>3 DEF ChanLoadOrStore
  <2> HIDE DEF r
  <2>3. /\ entries' \in Seq(Entry) /\ Len(entries') = Len(entries) + 1
        /\ entries'[Len(entries) + 1] = r
        /\ Known' /\ NoStray'
    BY <1>1, <2>1, <2>2, SignalAdded DEF DoneBy, StillToClose, ToClose
  <2>4. BridgeTypeOK'
    <3>1. /\ main \in [Gens -> Main(Len(entries'))]
          /\ chan \in [Gens -> Chan(Len(entries'))]
          /\ del \in [Callers -> Del(Len(entries'))]
          /\ client' \in 0..Len(entries') /\ conf \in Conf(Len(entries'))
      BY <2>2, <2>3, OneMore
    <3>2. chan' \in [Gens -> Chan(Len(entries'))]
      <4> DEFINE m == [chan[g] EXCEPT !.pc = "done"]
      <4>1. chan' = [chan EXCEPT ![g] = m]
        BY <2>2, <3>1
      <4>2. m \in Chan(Len(entries'))
        <5>1. chan[g] \in Chan(Len(entries'))
          BY <3>1
        <5> QED BY <5>1 DEF Chan
      <4> HIDE DEF m
      <4> QED BY <3>1, <4>1, <4>2
    <3>3. main' \in [Gens -> Main(Len(entries'))] /\ del' \in [Callers -> Del(Len(entries'))]
      BY <1>1, <3>1
    <3>4. health' \in [Gens -> {"none", "run", "end"}]
      BY <1>1, <2>2 DEF LinkInv, TypeOK, BridgeTypeOK
    <3> QED BY <1>1, <2>3, <3>1, <3>2, <3>3, <3>4 DEF LinkInv, TypeOK, BridgeTypeOK, Entry
  <2>5. Loaded'
    BY <1>1, <2>2 DEF LinkInv, TypeOK, BridgeTypeOK, Loaded
  <2>6. Counted'
    BY <2>1, <2>2, <2>3 DEF Counted
  <2> QED BY <1>2, <2>3, <2>4, <2>5, <2>6 DEF LinkInv, TypeOK
<1>4. CASE client # 0
  <2>1. /\ UNCHANGED <<entries, client>>
        /\ chan' = [chan EXCEPT ![g] = [pc |-> "swap", entry |-> client]]
    BY <1>4 DEF ChanLoadOrStore
  <2>2. BridgeTypeOK'
    BY <1>1, <2>1 DEF LinkInv, TypeOK, BridgeTypeOK, Chan
  <2>3. Loaded' /\ Counted'
    BY <1>1, <1>4, <2>1 DEF LinkInv, TypeOK, BridgeTypeOK, Loaded, Counted
  <2>4. Known' /\ NoStray'
    BY <1>1, <2>1 DEF LinkInv, Known, NoStray, ToClose
  <2> QED BY <1>2, <2>2, <2>3, <2>4 DEF LinkInv, TypeOK
<1> QED BY <1>3, <1>4

\* An entry gets another tunnel, or another count: its signal stays.
LEMMA SignalStays ==
  ASSUME LinkInv, NEW e \in 1..Len(entries), NEW r \in Entry,
         entries' = [entries EXCEPT ![e] = r], r.signal = entries[e].signal,
         UNCHANGED <<sig, main>>
  PROVE  /\ entries' \in Seq(Entry) /\ Len(entries') = Len(entries)
         /\ \A d \in 1..Len(entries) : entries'[d] = IF d = e THEN r ELSE entries[d]
         /\ Known' /\ NoStray'
<1>1. SignalsKept /\ DoneBy(r) /\ StillToClose
  BY DEF SignalsKept, DoneBy, StillToClose, ToClose
<1>2. r.signal # 0 => sig'[r.signal] # "none"
  BY DEF LinkInv, Known
<1> QED BY <1>1, <1>2, SignalReplaced

\* The entry gets the new tunnel and the old one is closed.
LEMMA ChanSwapInv ==
  ASSUME LinkInv, NEW g \in Gens, ChanSwap(g), UNCHANGED clientVars PROVE LinkInv'
<1> USE BridgeAssumption, ConnsAssumption
<1> DEFINE e == chan[g].entry
           r == [entries[e] EXCEPT !.tunnel = g]
<1>1. e \in 1..Len(entries)
  BY DEF LinkInv, TypeOK, BridgeTypeOK, Loaded, ChanSwap, Chan
<1>2. /\ r \in Entry /\ r.signal = entries[e].signal
      /\ r.retryTime = entries[e].retryTime
  <2>1. entries[e] \in Entry
    BY <1>1, EntryTyped DEF LinkInv, TypeOK
  <2>2. g \in 0..MaxGen
    BY DEF Gens
  <2> QED BY <2>1, <2>2 DEF Entry
<1>3. /\ entries' = [entries EXCEPT ![e] = r] /\ chan' = [chan EXCEPT ![g] = [pc |-> "done", entry |-> 0]]
      /\ tun' \in [Gens -> {"none", "open", "closed"}]
      /\ UNCHANGED <<sig, cuts, client, main, health, conf, del, orphaned>>
  <2>1. entries' = [entries EXCEPT ![e] = r]
    BY <1>1, EntryTyped DEF ChanSwap, LinkInv, TypeOK, BridgeTypeOK
  <2> QED BY <2>1 DEF ChanSwap, LinkInv, TypeOK, ConnsTypeOK
<1> HIDE DEF e, r
<1>4. /\ entries' \in Seq(Entry) /\ Len(entries') = Len(entries)
      /\ \A d \in 1..Len(entries) : entries'[d] = IF d = e THEN r ELSE entries[d]
      /\ Known' /\ NoStray'
  BY <1>1, <1>2, <1>3, SignalStays
<1>5. ConnsTypeOK' /\ ClientTypeOK' /\ Unstarted'
  BY <1>3 DEF LinkInv, TypeOK, ConnsTypeOK, ClientTypeOK, Unstarted, clientVars
<1>6. BridgeTypeOK'
  <2>1. [pc |-> "done", entry |-> 0] \in Chan(Len(entries))
    BY <1>1 DEF Chan
  <2> QED BY <1>3, <1>4, <2>1, SMTT(60) DEF LinkInv, TypeOK, BridgeTypeOK
<1>7. Loaded'
  BY <1>3 DEF LinkInv, TypeOK, BridgeTypeOK, Loaded
<1>8. Counted'
  <2>1. client # 0 => client \in 1..Len(entries)
    BY DEF LinkInv, TypeOK, BridgeTypeOK
  <2> QED BY <1>2, <1>3, <1>4, <2>1 DEF LinkInv, Counted
<1> QED BY <1>4, <1>5, <1>6, <1>7, <1>8 DEF LinkInv, TypeOK

-----------------------------------------------------------------------------
(* DelClient and those who call it.                                          *)

\* DelClient takes the signal out of its entry and closes it.
LEMMA DelTakeInv ==
  ASSUME LinkInv, NEW t \in Callers, DelTake(t), UNCHANGED clientVars PROVE LinkInv'
<1> USE BridgeAssumption, ConnsAssumption
<1> DEFINE e == del[t].entry
           r == [entries[e] EXCEPT !.signal = 0]
<1>1. e \in 1..Len(entries)
  BY DEF LinkInv, TypeOK, BridgeTypeOK, Loaded, DelTake, Del
<1>2. r \in Entry /\ r.signal = 0 /\ r.retryTime = entries[e].retryTime
  <2>1. entries[e] \in Entry
    BY <1>1, EntryTyped DEF LinkInv, TypeOK
  <2> QED BY <2>1 DEF Entry
<1>3. /\ entries' = [entries EXCEPT ![e] = r] /\ del' = [del EXCEPT ![t].pc = "delete"]
      /\ sig' = [h \in Gens |-> IF h = entries[e].signal THEN "closed" ELSE sig[h]]
      /\ UNCHANGED <<tun, cuts, client, main, chan, health, conf, orphaned>>
  <2>1. entries' = [entries EXCEPT ![e] = r]
    BY <1>1, EntryTyped DEF DelTake, LinkInv, TypeOK, BridgeTypeOK
  <2> QED BY <2>1 DEF DelTake
<1> HIDE DEF e, r
<1>4. /\ SignalsKept
      /\ entries[e].signal \in Gens => sig'[entries[e].signal] = "closed"
      /\ ConnsTypeOK' /\ Unstarted'
  <2>1. entries[e].signal \in Gens => sig[entries[e].signal] # "none"
    BY <1>1, ConnsAssumption DEF LinkInv, Known, Gens
  <2> QED BY <1>3, <2>1, OldSignalClosed DEF LinkInv, TypeOK
<1>5. /\ entries' \in Seq(Entry) /\ Len(entries') = Len(entries)
      /\ \A d \in 1..Len(entries) : entries'[d] = IF d = e THEN r ELSE entries[d]
      /\ Known' /\ NoStray'
  <2>1. DoneBy(r) /\ StillToClose
    BY <1>3 DEF DoneBy, StillToClose, ToClose
  <2> QED BY <1>1, <1>2, <1>3, <1>4, <2>1, SignalReplaced
<1>6. ClientTypeOK'
  BY DEF LinkInv, TypeOK, ClientTypeOK, clientVars
<1>7. BridgeTypeOK'
  BY <1>3, <1>5, SMTT(60) DEF LinkInv, TypeOK, BridgeTypeOK, Del
<1>8. Loaded'
  BY <1>3, <1>4, OldTyped DEF LinkInv, TypeOK, BridgeTypeOK, Loaded, SignalsKept
<1>9. Counted'
  <2>1. client # 0 => client \in 1..Len(entries)
    BY DEF LinkInv, TypeOK, BridgeTypeOK
  <2>2. del'[PingLoop].pc = "idle" => del[PingLoop].pc = "idle"
    BY <1>3 DEF LinkInv, TypeOK, BridgeTypeOK, Callers
  <2> QED BY <1>2, <1>3, <1>5, <2>1, <2>2 DEF LinkInv, Counted
<1> QED BY <1>4, <1>5, <1>6, <1>7, <1>8, <1>9 DEF LinkInv, TypeOK


\* The steps that touch neither an entry nor a signal nor a handler of typeDeal.
LEMMA OthersInv ==
  ASSUME LinkInv, UNCHANGED <<conns, clientVars, entries, main, chan>>,
         BridgeTypeOK', Counted',
         \A t \in Callers : del'[t].pc = "take" => del'[t].entry # 0,
         conf'.pc = "clear" => conf'.entry # 0
  PROVE  LinkInv'
<1>1. ConnsTypeOK' /\ ClientTypeOK' /\ Unstarted'
  BY DEF LinkInv, TypeOK, ConnsTypeOK, ClientTypeOK, Unstarted, conns, clientVars
<1>2. Known' /\ NoStray'
  BY DEF LinkInv, Known, NoStray, ToClose, conns
<1>3. Loaded'
  BY DEF LinkInv, Loaded, conns
<1> QED BY <1>1, <1>2, <1>3 DEF LinkInv, TypeOK

\* GetHealthFromClient ends and may call DelClient.
LEMMA HealthEndsInv ==
  ASSUME LinkInv, NEW g \in Gens, HealthEnds(g), UNCHANGED clientVars PROVE LinkInv'
<1>1. g \in Callers /\ g # PingLoop
  BY BridgeAssumption DEF Callers
<1>2. \E pc \in {"load", "idle"} : del' = [del EXCEPT ![g].pc = pc]
  BY DEF HealthEnds
<1>3. PICK pc \in {"load", "idle"} : del' = [del EXCEPT ![g].pc = pc]
  BY <1>2
<1>4. BridgeTypeOK'
  <2>1. del' \in [Callers -> Del(Len(entries))]
    BY <1>1, <1>3 DEF LinkInv, TypeOK, BridgeTypeOK, Del
  <2> QED BY <2>1 DEF HealthEnds, LinkInv, TypeOK, BridgeTypeOK
<1>5. Counted'
  BY <1>1, <1>3 DEF HealthEnds, LinkInv, TypeOK, BridgeTypeOK, Counted
<1>6. \A t \in Callers : del'[t].pc = "take" => del'[t].entry # 0
  BY <1>1, <1>3 DEF LinkInv, TypeOK, BridgeTypeOK, Loaded
<1> QED BY <1>4, <1>5, <1>6, OthersInv DEF HealthEnds, LinkInv, Loaded, conns

\* Somebody who is not at it yet calls DelClient: a request of getConfig has failed, or the
\* panel has cut the client off.
LEMMA CallsDelClient ==
  ASSUME LinkInv, NEW t \in Callers \ {PingLoop}, del' = [del EXCEPT ![t].pc = "load"],
         conf' \in Conf(Len(entries)), conf'.pc = "clear" => conf'.entry # 0, cuts' \in 0..MaxCuts,
         UNCHANGED <<sig, tun, entries, client, main, chan, health, orphaned, clientVars>>
  PROVE  LinkInv'
<1>1. ConnsTypeOK' /\ ClientTypeOK' /\ Unstarted'
  BY DEF LinkInv, TypeOK, ConnsTypeOK, ClientTypeOK, Unstarted, clientVars
<1>2. Known' /\ NoStray'
  BY DEF LinkInv, Known, NoStray, ToClose
<1>3. del' \in [Callers -> Del(Len(entries))]
  BY DEF LinkInv, TypeOK, BridgeTypeOK, Del
<1>4. BridgeTypeOK'
  BY <1>3 DEF LinkInv, TypeOK, BridgeTypeOK
<1>5. Counted'
  BY DEF LinkInv, TypeOK, BridgeTypeOK, Counted
<1>6. Loaded'
  BY DEF LinkInv, TypeOK, BridgeTypeOK, Loaded
<1> QED BY <1>1, <1>2, <1>4, <1>5, <1>6 DEF LinkInv, TypeOK

\* getConfig ends.
LEMMA ConfFailsInv == ASSUME LinkInv, ConfFails, UNCHANGED clientVars PROVE LinkInv'
<1>1. ConfigLoop \in Callers \ {PingLoop}
  BY BridgeAssumption DEF Callers
<1>2. conf' = [conf EXCEPT !.pc = "end"] /\ conf \in Conf(Len(entries))
  BY DEF ConfFails, LinkInv, TypeOK, BridgeTypeOK
<1>3. conf' \in Conf(Len(entries)) /\ conf'.pc = "end"
  BY <1>2 DEF Conf
<1>4. cuts' \in 0..MaxCuts
  BY ConnsAssumption DEF ConfFails, Fault, LinkInv, TypeOK, ConnsTypeOK
<1> QED BY <1>1, <1>3, <1>4, CallsDelClient DEF ConfFails

\* The panel cuts the client off.
LEMMA DelClientConnectInv ==
  ASSUME LinkInv, DelClientConnect, UNCHANGED clientVars PROVE LinkInv'
<1>1. Panel \in Callers \ {PingLoop}
  BY BridgeAssumption DEF Callers
<1>2. conf' \in Conf(Len(entries)) /\ (conf'.pc = "clear" => conf'.entry # 0)
  BY DEF DelClientConnect, LinkInv, TypeOK, BridgeTypeOK, Loaded
<1>3. cuts' \in 0..MaxCuts
  BY ConnsAssumption DEF DelClientConnect, Fault, LinkInv, TypeOK, ConnsTypeOK
<1> QED BY <1>1, <1>2, <1>3, CallsDelClient DEF DelClientConnect

\* DelClient looks the entry up; ping has done with its eviction if there is none.
LEMMA DelLoadInv == ASSUME LinkInv, NEW t \in Callers, DelLoad(t), UNCHANGED clientVars PROVE LinkInv'
<1>1. BridgeTypeOK'
  BY DEF DelLoad, Idle, LinkInv, TypeOK, BridgeTypeOK, Del
<1>2. Counted'
  BY DEF DelLoad, Idle, LinkInv, TypeOK, BridgeTypeOK, Counted
<1>3. \A u \in Callers : del'[u].pc = "take" => del'[u].entry # 0
  BY DEF DelLoad, Idle, LinkInv, TypeOK, BridgeTypeOK, Loaded
<1> QED BY <1>1, <1>2, <1>3, OthersInv DEF DelLoad, LinkInv, Loaded, conns

\* DelClient empties the map; whatever was evicted is out of it when ping goes on.
LEMMA DelDeleteInv == ASSUME LinkInv, NEW t \in Callers, DelDelete(t), UNCHANGED clientVars PROVE LinkInv'
<1>1. Len(entries) \in Nat
  BY EntryTyped DEF LinkInv, TypeOK
<1>2. orphaned' \in BOOLEAN
  BY DEF DelDelete
<1>3. BridgeTypeOK'
  BY <1>1, <1>2 DEF DelDelete, Idle, LinkInv, TypeOK, BridgeTypeOK, Del
<1>4. Counted'
  BY DEF DelDelete, Counted
<1>5. \A u \in Callers : del'[u].pc = "take" => del'[u].entry # 0
  BY DEF DelDelete, Idle, LinkInv, TypeOK, BridgeTypeOK, Loaded
<1> QED BY <1>3, <1>4, <1>5, OthersInv DEF DelDelete, LinkInv, Loaded, conns

\* getConfig puts an empty entry into the map, or finds one there, ...
LEMMA ConfRegisterInv == ASSUME LinkInv, ConfRegister, UNCHANGED clientVars PROVE LinkInv'
<1> USE BridgeAssumption, ConnsAssumption
<1>1. /\ UNCHANGED <<clientVars, main, chan, health, del, orphaned>> /\ UNCHANGED <<sig, tun>>
      /\ cuts' \in 0..MaxCuts
  BY DEF ConfRegister, Fault, LinkInv, TypeOK, ConnsTypeOK
<1>2. ClientTypeOK'
  BY <1>1 DEF LinkInv, TypeOK, ClientTypeOK, clientVars
<1>3. CASE client = 0
  <2> DEFINE r == NewClient(0, 0)
  <2>1. r \in Entry /\ r.signal = 0 /\ r.retryTime = 0
    BY DEF NewClient, Entry
  <2>2. entries' = Append(entries, r) /\ client' = Len(entries) + 1
        /\ conf' = [conf EXCEPT !.pc = "registered"]
    BY <1>3 DEF ConfRegister
  <2> HIDE DEF r
  <2>3. /\ entries' \in Seq(Entry) /\ Len(entries') = Len(entries) + 1
        /\ entries'[Len(entries) + 1] = r
        /\ Known' /\ NoStray'
    BY <1>1, <2>1, <2>2, SignalAdded DEF DoneBy, StillToClose, ToClose
  <2>4. BridgeTypeOK'
    <3>1. /\ main \in [Gens -> Main(Len(entries'))]
          /\ chan \in [Gens -> Chan(Len(entries'))]
          /\ del \in [Callers -> Del(Len(entries'))]
          /\ client' \in 0..Len(entries') /\ conf \in Conf(Len(entries'))
      BY <2>2, <2>3, OneMore
    <3>2. conf' \in Conf(Len(entries'))
      BY <2>2, <3>1 DEF Conf
    <3> QED BY <1>1, <2>3, <3>1, <3>2 DEF LinkInv, TypeOK, BridgeTypeOK
  <2>5. ConnsTypeOK' /\ Unstarted'
    BY <1>1, <2>2 DEF LinkInv, TypeOK, ConnsTypeOK, Unstarted, clientVars
  <2>6. Loaded' /\ Counted'
    BY <1>1, <2>1, <2>2, <2>3 DEF LinkInv, Loaded, Counted
  <2> QED BY <1>2, <2>3, <2>4, <2>5, <2>6 DEF LinkInv, TypeOK
<1>4. CASE client # 0
  <2>1. conf' = [pc |-> "clear", entry |-> client] /\ UNCHANGED <<entries, client>>
    BY <1>4 DEF ConfRegister
  <2>2. client \in 0..Len(entries)
    BY DEF LinkInv, TypeOK, BridgeTypeOK
  <2>3. conf' \in Conf(Len(entries)) /\ conf'.entry # 0
    BY <1>4, <2>1, <2>2 DEF Conf
  <2>4. BridgeTypeOK'
    BY <1>1, <2>1, <2>3 DEF LinkInv, TypeOK, BridgeTypeOK
  <2>5. ConnsTypeOK' /\ Unstarted'
    BY <1>1 DEF LinkInv, TypeOK, ConnsTypeOK, Unstarted, clientVars
  <2>6. Loaded' /\ Counted'
    BY <1>1, <2>1, <2>3 DEF LinkInv, Loaded, Counted
  <2>7. Known' /\ NoStray'
    BY <1>1, <2>1 DEF LinkInv, Known, NoStray, ToClose
  <2> QED BY <1>2, <2>4, <2>5, <2>6, <2>7 DEF LinkInv, TypeOK
<1> QED BY <1>3, <1>4

\* ... which it empties, and closes what it held.
LEMMA ConfClearInv == ASSUME LinkInv, ConfClear, UNCHANGED clientVars PROVE LinkInv'
<1> DEFINE e == conf.entry
           r == [entries[e] EXCEPT !.signal = 0, !.tunnel = 0]
<1>1. e \in 1..Len(entries)
  BY DEF ConfClear, LinkInv, TypeOK, BridgeTypeOK, Loaded, Conf
<1>2. r \in Entry /\ r.signal = 0 /\ r.retryTime = entries[e].retryTime
  <2>1. entries[e] \in Entry /\ 0 \in 0..MaxGen
    BY <1>1, EntryTyped, ConnsAssumption DEF LinkInv, TypeOK
  <2> QED BY <2>1 DEF Entry
<1>3. /\ entries' = [entries EXCEPT ![e] = r]
      /\ sig' = [h \in Gens |-> IF h = entries[e].signal THEN "closed" ELSE sig[h]]
      /\ tun' = [h \in Gens |-> IF h = entries[e].tunnel THEN "closed" ELSE tun[h]]
      /\ conf' = [pc |-> "registered", entry |-> 0]
      /\ UNCHANGED <<cuts, client, main, chan, health, del, orphaned>>
  <2>1. entries' = [entries EXCEPT ![e] = r]
    BY <1>1, EntryTyped, ZenonT(60) DEF ConfClear, LinkInv, TypeOK, BridgeTypeOK
  <2> QED BY <2>1 DEF ConfClear
<1> HIDE DEF e, r
<1>4. /\ SignalsKept /\ Unstarted'
      /\ entries[e].signal \in Gens => sig'[entries[e].signal] = "closed"
  <2>1. entries[e].signal \in Gens => sig[entries[e].signal] # "none"
    BY <1>1, ConnsAssumption DEF LinkInv, Known, Gens
  <2> QED BY <1>3, <2>1, OldSignalClosed
<1>5. /\ entries' \in Seq(Entry) /\ Len(entries') = Len(entries)
      /\ \A d \in 1..Len(entries) : entries'[d] = IF d = e THEN r ELSE entries[d]
      /\ Known' /\ NoStray'
  <2>1. DoneBy(r) /\ StillToClose
    BY <1>3 DEF DoneBy, StillToClose, ToClose
  <2> QED BY <1>1, <1>2, <1>3, <1>4, <2>1, SignalReplaced
<1>6. ConnsTypeOK' /\ ClientTypeOK'
  BY <1>3 DEF LinkInv, TypeOK, ConnsTypeOK, ClientTypeOK, clientVars
<1>7. BridgeTypeOK'
  <2>1. [pc |-> "registered", entry |-> 0] \in Conf(Len(entries))
    BY <1>1 DEF Conf
  <2> QED BY <1>3, <1>5, <2>1 DEF LinkInv, TypeOK, BridgeTypeOK
<1>8. Loaded'
  <2>1. \A h \in Gens : main[h].old # 0 => main[h].old \in Gens
    BY OldTyped DEF LinkInv, TypeOK
  <2> QED BY <1>3, <1>4, <2>1 DEF LinkInv, Loaded, SignalsKept
<1>9. Counted'
  <2>1. client # 0 => client \in 1..Len(entries)
    BY DEF LinkInv, TypeOK, BridgeTypeOK
  <2> QED BY <1>2, <1>3, <1>5, <2>1 DEF LinkInv, Counted
<1> QED BY <1>4, <1>5, <1>6, <1>7, <1>8, <1>9 DEF LinkInv, TypeOK

-----------------------------------------------------------------------------
(* Ping, and the network.                                                    *)

\* A tick counts up to the limit only when it evicts.
LEMMA PingInv == ASSUME LinkInv, Ping PROVE LinkInv'
<1> USE BridgeAssumption, ConnsAssumption
<1> DEFINE e == entries[client]
           r == [e EXCEPT !.retryTime = IF HalfConnected(e) THEN @ + 1 ELSE @]
<1>1. /\ client \in 1..Len(entries) /\ client # 0 /\ del[PingLoop].pc = "idle"
      /\ PingLoop \in Callers
  BY DEF Ping, PingScan, LinkInv, TypeOK, BridgeTypeOK, Callers
<1>2. e \in Entry /\ e.retryTime \in 0..MaxRetry /\ e.retryTime < MaxRetry
  BY <1>1, EntryTyped DEF LinkInv, TypeOK, Counted
<1>3. /\ r \in Entry /\ r.signal = e.signal
      /\ r.retryTime = IF HalfConnected(e) THEN e.retryTime + 1 ELSE e.retryTime
  <2>1. (IF HalfConnected(e) THEN e.retryTime + 1 ELSE e.retryTime) \in 0..MaxRetry
    BY <1>2
  <2> QED BY <1>2, <2>1 DEF Entry
<1>4. /\ entries' = [entries EXCEPT ![client] = r]
      /\ del' = [del EXCEPT ![PingLoop].pc = IF Evict(e) THEN "load" ELSE "idle"]
      /\ UNCHANGED <<sig, tun, client, main, chan, health, conf, orphaned, clientVars>>
      /\ cuts' \in 0..MaxCuts
  <2>1. entries' = [entries EXCEPT ![client] = r]
    BY <1>1, EntryTyped DEF Ping, PingScan, LinkInv, TypeOK, BridgeTypeOK
  <2>2. cuts' \in 0..MaxCuts
    BY DEF Ping, Fault, LinkInv, TypeOK, ConnsTypeOK
  <2> QED BY <2>1, <2>2 DEF Ping, PingScan
<1>5. r.retryTime >= MaxRetry => Evict(e)
  BY <1>2, <1>3 DEF Evict
<1> HIDE DEF r
<1>6. /\ entries' \in Seq(Entry) /\ Len(entries') = Len(entries)
      /\ \A d \in 1..Len(entries) : entries'[d] = IF d = client THEN r ELSE entries[d]
      /\ Known' /\ NoStray'
  BY <1>1, <1>3, <1>4, SignalStays
<1>7. ConnsTypeOK' /\ ClientTypeOK' /\ Unstarted'
  BY <1>4 DEF LinkInv, TypeOK, ConnsTypeOK, ClientTypeOK, Unstarted, clientVars
<1>8. BridgeTypeOK'
  <2>1. \E pc \in {"load", "idle"} : del' = [del EXCEPT ![PingLoop].pc = pc]
    BY <1>4
  <2>2. PICK pc \in {"load", "idle"} : del' = [del EXCEPT ![PingLoop].pc = pc]
    BY <2>1
  <2>3. del \in [Callers -> Del(Len(entries))]
    BY DEF LinkInv, TypeOK, BridgeTypeOK
  <2>4. del' \in [Callers -> Del(Len(entries))]
    BY <2>2, <2>3 DEF Del
  <2> QED BY <1>4, <1>6, <2>4 DEF LinkInv, TypeOK, BridgeTypeOK, Entry
<1>9. Loaded'
  BY <1>1, <1>4 DEF LinkInv, TypeOK, BridgeTypeOK, Loaded
<1>10. Counted'
  <2>1. r.retryTime \in 0..MaxRetry
    BY <1>3 DEF Entry
  <2>2. CASE Evict(e)
    BY <1>1, <1>4, <2>2 DEF LinkInv, TypeOK, BridgeTypeOK, Counted
  <2>3. CASE ~Evict(e)
    BY <1>1, <1>4, <1>5, <1>6, <2>1, <2>3 DEF Counted
  <2> QED BY <2>2, <2>3
<1> QED BY <1>6, <1>7, <1>8, <1>9, <1>10 DEF LinkInv, TypeOK

\* The network closes what is open.
LEMMA CutInv ==
  ASSUME LinkInv, NEW g \in Gens, Cut(g), UNCHANGED <<clientVars, bridgeVars>> PROVE LinkInv'
<1>1. ConnsTypeOK'
  BY ConnsAssumption DEF Cut, Fault, LinkInv, TypeOK, ConnsTypeOK
<1>2. SignalsKept
  BY DEF Cut, LinkInv, TypeOK, ConnsTypeOK, SignalsKept
<1>3. ClientTypeOK'
  BY DEF LinkInv, TypeOK, ClientTypeOK, clientVars
<1>4. Unstarted'
  BY <1>2 DEF LinkInv, Unstarted, SignalsKept, clientVars
<1> QED BY <1>1, <1>2, <1>3, <1>4, BridgeStands DEF LinkInv, TypeOK

-----------------------------------------------------------------------------
\* Every step keeps the invariant.
LEMMA Inductive == LinkInv /\ [Next]_vars => LinkInv'
<1> SUFFICES ASSUME LinkInv, [Next]_vars PROVE LinkInv'
  OBVIOUS
<1>1. CASE ClientNext /\ UNCHANGED bridgeVars
  BY <1>1, ClientInv
<1>2. CASE Ping
  BY <1>2, PingInv
<1>3. CASE BridgeStep /\ UNCHANGED clientVars
  BY <1>3, MainLoadOrStoreInv, MainSwapInv, MainCloseInv, ChanLoadOrStoreInv, ChanSwapInv, HealthEndsInv,
     DelLoadInv, DelTakeInv, DelDeleteInv, ConfRegisterInv, ConfClearInv, ConfFailsInv, DelClientConnectInv
     DEF BridgeStep, MainStep, ChanStep, DelStep
<1>4. ASSUME NEW g \in Gens, Cut(g), UNCHANGED <<clientVars, bridgeVars>> PROVE LinkInv'
  BY <1>4, CutInv
<1>5. CASE UNCHANGED vars
  <2>1. ConnsTypeOK' /\ ClientTypeOK' /\ Unstarted'
    BY <1>5 DEF vars, LinkInv, TypeOK, ConnsTypeOK, ClientTypeOK, Unstarted, conns, clientVars
  <2>2. SignalsKept
    BY <1>5 DEF vars, conns, SignalsKept
  <2> QED BY <1>5, <2>1, <2>2, BridgeStands DEF vars, LinkInv, TypeOK
<1> QED BY <1>1, <1>2, <1>3, <1>4, <1>5 DEF Next

\* Types, for any number of starts and faults; among them that ping evicts a half
\* connected client at the limit and never counts beyond it, although other goroutines
\* delete and replace the entry under it (bridge.go, ping).
THEOREM LinkTyped == Spec => []TypeOK
<1>1. LinkInv => TypeOK
  BY DEF LinkInv
<1> QED BY <1>1, Initially, Inductive, PTL DEF Spec

\* However often a client reconnects while entries are replaced, evicted and deleted,
\* each signal that typeDeal has accepted is in an entry or closed (bridge.go, typeDeal
\* and DelClient).
THEOREM NoSignalStrays == Spec => []NoStraySignal
<1>1. LinkInv => NoStraySignal
  BY EntryTyped DEF LinkInv, TypeOK, NoStray, NoStraySignal, Accepted, ToClose
<1> QED BY <1>1, Initially, Inductive, PTL DEF Spec
=============================================================================
