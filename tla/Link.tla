-------------------------------- MODULE Link --------------------------------
(* A client that reconnects for ever, and the bridge of the server, over     *)
(* connections that break.  One id; the client starts MaxGen times.          *)
EXTENDS Client, Bridge

vars == <<conns, clientVars, bridgeVars>>

Init == ConnsInit /\ ClientInit /\ BridgeInit

\* the client, or cliProcess on its behalf, is about to complete the entry
Connecting ==
  \E g \in Gens :
    /\ sig[g] # "closed" /\ start[g] \notin {"idle", "close", "returned"}
    /\ \/ start[g] = "dial" \/ main[g].pc # "done"
       \/ newChan[g] \in {"none", "dial", "store"}
       \/ chan[g].pc # "done" /\ tun[g] = "open"

\* Three ticks of ping take ten to fifteen seconds: that connecting takes longer
\* counts as a fault of the network.
Ping ==
  /\ PingScan
  /\ IF Connecting /\ Evict(entries[client]) THEN Fault ELSE UNCHANGED cuts
  /\ UNCHANGED clientVars

Next ==
  \/ ClientNext /\ UNCHANGED bridgeVars
  \/ Ping
  \/ BridgeStep /\ UNCHANGED clientVars
  \/ \E g \in Gens : Cut(g) /\ UNCHANGED <<clientVars, bridgeVars>>

\* Goroutines that can move do.  Each of them has finitely many steps left when the
\* faults are used up, so that it is enough that some goroutine moves while one can.
GoesOn ==
  \/ ClientGoesOn /\ UNCHANGED bridgeVars
  \/ BridgeGoesOn /\ UNCHANGED clientVars
  \/ Ping /\ UNCHANGED cuts

Spec == Init /\ [][Next]_vars /\ WF_vars(GoesOn)

TypeOK == ConnsTypeOK /\ ClientTypeOK /\ BridgeTypeOK

-----------------------------------------------------------------------------
\* A user's connection finds its way: the bridge's tunnel for the client is open
\* and the client accepts from it (SendLinkInfo, newChan).
Reachable ==
  /\ client # 0
  /\ \E g \in Gens : entries[client].tunnel = g /\ tun[g] = "open" /\ newChan[g] = "accept"

\* Once nothing breaks any more the client becomes reachable and stays so, unless
\* DelClient drops an entry into which a new signal has just been put.
EventuallyReachable == <>[](Reachable \/ orphaned \/ start[MaxGen] = "returned")

\* A signal that is closed does not stay the client's signal in the map, whatever
\* closed it and whoever else is at work on the entry.
Dead(e) == e.signal # 0 /\ sig[e.signal] = "closed"

DeadSignalLeaves == []<>(client = 0 \/ ~Dead(entries[client]))

\* Closing makes Start return, so that the outer loop goes on; and a client that
\* has lost its tunnel closes (the state of issue 115: signal up, tunnel gone).
Lost(g) == once[g] # "open" \/ (tunnel[g] /\ tun[g] = "closed")

LostClientReturns == []<>\A g \in Gens : Lost(g) => start[g] = "returned"

\* Of the signals that typeDeal has accepted, each is in an entry, closed, or about to
\* be closed by the one that has replaced it: a client is never left with a connection
\* nobody knows of.
NoStraySignal ==
  \A g \in Gens :
    main[g].pc \in {"close", "done"} /\ sig[g] = "open" =>
      \/ \E e \in DOMAIN entries : entries[e].signal = g
      \/ \E h \in Gens : main[h].pc = "close" /\ main[h].old = g
=============================================================================
