---------------------------- MODULE UdpSessions -----------------------------
(* UdpModeServer: datagrams of one source address, each in a worker of the   *)
(* source's pool, share a session with one stream; the sweeper, and Close,   *)
(* remove sessions under them (server/proxy/udp.go, sourcepool.go).          *)
EXTENDS Quota

CONSTANTS MaxPackets, PoolSize, UdpPayer, Sweeper, Closer

ASSUME UdpAssumption ==
  /\ MaxPackets \in Nat /\ PoolSize \in Nat \ {0} /\ UdpPayer \in Clients
  /\ Sweeper # Closer /\ {Sweeper, Closer} \cap 1..MaxPackets = {}

VARIABLES
  upc,      \* the workers, the sweeper and the goroutine that closes the tunnel
  mine,     \* the session each of them is at work on
  sessions, \* every session made, with the worker that builds and runs it
  addrMap,  \* the number of the source's session, 0 for none
  closeCh,  \* closed, and the pools with it
  listener, \* the socket of the tunnel
  pool      \* the datagrams at which the workers of the source's pool are; {}: no pool

udpVars == <<upc, mine, sessions, addrMap, closeCh, listener, pool>>

Packets == 1..MaxPackets
Actors == Packets \cup {Sweeper, Closer}
Session ==
  [by : Packets, ready : {"no", "yes", "failed"}, target : {"none", "open", "closed"}]

UdpTypeOK ==
  /\ upc \in [Actors -> {"none", "process", "dispatch", "write", "check", "link", "fail", "drop",
                         "forget", "first", "read", "compare", "delete", "close", "uncount",
                         "end"}]
  /\ sessions \in Seq(Session)
  /\ mine \in [Actors -> 0..Len(sessions)] /\ addrMap \in 0..Len(sessions)
  /\ closeCh \in BOOLEAN /\ listener \in {"open", "closed"}
  /\ pool \subseteq Packets

UdpInit ==
  /\ upc = [a \in Actors |-> "none"] /\ mine = [a \in Actors |-> 0]
  /\ sessions = <<>> /\ addrMap = 0
  /\ closeCh = FALSE /\ listener = "open" /\ pool = {}

Step(a, l) == upc' = [upc EXCEPT ![a] = l]
held(a) == sessions[mine[a]]

-----------------------------------------------------------------------------
Workers == {p \in pool : upc[p] # "end"}

\* The set finds or makes the pool of the source, which has a worker for the datagram or
\* not.  There may be pools enough, or the set is closed.  The pool has just been used, so
\* that it is not swept between the two; if it is closed there, that is one or the other.
Submit(p) ==
  \/ /\ ~closeCh /\ Cardinality(Workers) < PoolSize
     /\ pool' = Workers \cup {p} /\ Step(p, "process")
  \/ /\ closeCh \/ pool = {} \/ Cardinality(Workers) >= PoolSize
     /\ Step(p, "end") /\ UNCHANGED pool

\* the loop of Start
Receive(p) ==
  /\ listener = "open" /\ upc[p] = "none" /\ p <= load.packets
  /\ \A q \in 1..p - 1 : upc[q] # "none"
  /\ Submit(p)
  /\ UNCHANGED <<counters, mine, sessions, addrMap, closeCh, listener>>

\* sweep: no datagram has come for five minutes; the workers of the pool go on.  Nobody
\* notices unless the pool was full and a datagram is still to come (of MaxPackets).
SweepPool ==
  /\ Cardinality(Workers) >= PoolSize /\ ~closeCh /\ upc[load.packets] = "none" /\ pool' = {}
  /\ UNCHANGED <<counters, upc, mine, sessions, addrMap, closeCh, listener>>

\* process: Load, and LoadOrStore of a session that is not ready
Process(p) ==
  /\ upc[p] = "process"
  /\ IF addrMap # 0
       THEN /\ mine' = [mine EXCEPT ![p] = addrMap] /\ Step(p, "dispatch")
            /\ UNCHANGED <<sessions, addrMap>>
       ELSE /\ sessions' = Append(sessions, [by |-> p, ready |-> "no", target |-> "none"])
            /\ addrMap' = Len(sessions) + 1
            /\ mine' = [mine EXCEPT ![p] = Len(sessions) + 1] /\ Step(p, "check")
  /\ UNCHANGED <<counters, closeCh, listener, pool>>

\* dispatch: the session is ready or has failed; five seconds have passed, or the
\* tunnel is closed
Dispatch(p) ==
  /\ upc[p] = "dispatch"
  /\ Step(p, IF held(p).ready = "yes" THEN "write" ELSE "end")
  /\ UNCHANGED <<counters, mine, sessions, addrMap, closeCh, listener, pool>>

\* the datagram is written; if that fails, or it was one too many, removeSession
Forwarded(p) ==
  /\ upc[p] \in {"write", "first"}
  /\ IF held(p).target = "closed" \/ exceeded[UdpPayer]
       THEN Step(p, "compare")
       ELSE Step(p, IF upc[p] = "first" THEN "read" ELSE "end")
  /\ UNCHANGED <<counters, mine, sessions, addrMap, closeCh, listener, pool>>

-----------------------------------------------------------------------------
\* runSession
CheckUdp(p) ==
  /\ upc[p] = "check"
  /\ IF Allowed(UdpPayer) THEN CutConn(UdpPayer) /\ Step(p, "link")
                          ELSE UNCHANGED nowConn /\ Step(p, "fail")
  /\ UNCHANGED <<globalConn, mine, sessions, addrMap, closeCh, listener, pool>>

Ready(p, r, t) ==
  sessions' = [sessions EXCEPT ![mine[p]] = [by |-> p, ready |-> r, target |-> t]]

Built(p) ==
  /\ upc[p] = "link" /\ Ready(p, "yes", "open") /\ Step(p, "first")
  /\ UNCHANGED <<counters, mine, addrMap, closeCh, listener, pool>>

\* failBuild: without a place (fail), or without a stream; the waiting are told, ...
FailBuild(p) ==
  /\ upc[p] \in {"fail", "link"} /\ Ready(p, "failed", "none")
  /\ Step(p, IF upc[p] = "fail" THEN "drop" ELSE "forget")
  /\ UNCHANGED <<counters, mine, addrMap, closeCh, listener, pool>>

\* ... then what the map holds for the source goes, whatever it is
Forget(p) ==
  /\ upc[p] \in {"drop", "forget"} /\ addrMap' = 0
  /\ Step(p, IF upc[p] = "drop" THEN "end" ELSE "uncount")
  /\ UNCHANGED <<counters, mine, sessions, closeCh, listener, pool>>

\* the answers: the stream has ended, or nothing has come for a minute, or the
\* listener is closed, or it is one too many
ReadEnds(p) ==
  /\ upc[p] = "read" /\ Step(p, "compare")
  /\ UNCHANGED <<counters, mine, sessions, addrMap, closeCh, listener, pool>>

UncountUdp(p) ==
  /\ upc[p] = "uncount" /\ AddConn(UdpPayer) /\ Step(p, "end")
  /\ UNCHANGED <<globalConn, mine, sessions, addrMap, closeCh, listener, pool>>

-----------------------------------------------------------------------------
\* removeSession: is it the one in the map?
Compare(a) ==
  /\ upc[a] = "compare"
  /\ Step(a, IF addrMap = mine[a] THEN "delete" ELSE "close")
  /\ UNCHANGED <<counters, mine, sessions, addrMap, closeCh, listener, pool>>

Delete(a) ==
  /\ upc[a] = "delete" /\ addrMap' = 0 /\ Step(a, "close")
  /\ UNCHANGED <<counters, mine, sessions, closeCh, listener, pool>>

\* the stream of a session that is ready is closed; who has built it is not through
Runs(a) == held(a).by = a

CloseTarget(a) ==
  /\ upc[a] = "close"
  /\ sessions' = IF held(a).ready = "no" THEN sessions
                 ELSE [sessions EXCEPT ![mine[a]].target = IF @ = "open" THEN "closed" ELSE @]
  /\ Step(a, IF Runs(a) THEN "uncount" ELSE IF a = Sweeper THEN "none" ELSE "end")
  /\ listener' = IF a = Closer THEN "closed" ELSE listener
  /\ UNCHANGED <<counters, mine, addrMap, closeCh, pool>>

\* sweeper: a session that is ready has been idle
Sweep ==
  /\ upc[Sweeper] = "none" /\ ~closeCh /\ addrMap # 0 /\ sessions[addrMap].ready # "no"
  /\ mine' = [mine EXCEPT ![Sweeper] = addrMap] /\ Step(Sweeper, "compare")
  /\ UNCHANGED <<counters, sessions, addrMap, closeCh, listener, pool>>

\* Close: closeCh and the pools, then every session, then the listener
Close ==
  /\ upc[Closer] = "none" /\ load.packets > 0 /\ closeCh' = TRUE /\ pool' = {}
  /\ mine' = [mine EXCEPT ![Closer] = addrMap]
  /\ IF addrMap = 0 THEN listener' = "closed" /\ Step(Closer, "end")
                    ELSE Step(Closer, "compare") /\ UNCHANGED listener
  /\ UNCHANGED <<counters, sessions, addrMap>>

\* the stream ends by itself
StreamEnds(s) ==
  /\ sessions[s].target = "open"
  /\ sessions' = [sessions EXCEPT ![s].target = "closed"]
  /\ UNCHANGED <<counters, upc, mine, addrMap, closeCh, listener, pool>>

UdpGoesOn ==
  /\ \E a \in Actors :
       \/ Compare(a) \/ Delete(a) \/ CloseTarget(a)
       \/ /\ a \in Packets
          /\ \/ Process(a) \/ Dispatch(a) \/ Forwarded(a) \/ CheckUdp(a)
             \/ Built(a) \/ FailBuild(a) \/ Forget(a) \/ ReadEnds(a) \/ UncountUdp(a)
  /\ UNCHANGED <<load, exceeded>>

UdpNext ==
  \/ UdpGoesOn
  \/ /\ \/ \E p \in Packets : Receive(p)
        \/ SweepPool \/ Sweep \/ Close
        \/ \E s \in DOMAIN sessions : StreamEnds(s)
     /\ UNCHANGED <<load, exceeded>>

-----------------------------------------------------------------------------
UdpEnded == \A a \in Actors : upc[a] \in {"none", "end"}

\* When every worker is through, no stream is open, and the map does not lead to a
\* session that nobody runs: the source's datagrams would all end in it.
UdpLeft ==
  UdpEnded /\ (addrMap # 0 \/ \E s \in DOMAIN sessions : sessions[s].target = "open")
=============================================================================
