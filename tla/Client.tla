------------------------------- MODULE Client -------------------------------
(* client/client.go: a TRPClient from Start to Close, once per generation,   *)
(* and the loop around it (cmd/natpunch-client/main.go, client/control.go).  *)
(* Three goroutines can close it: the one in Start, newChan and ping; the    *)
(* first to call Close runs closing, and what the others do then is nothing. *)
EXTENDS LinkConns

VARIABLES
  gen,     \* the generation that the outer loop is in
  start,   \* per generation: where Start and handleMain are
  newChan, \* where newChan is
  once,    \* how far closing is: open, signal (the tunnel is closed), done
  signal,  \* s.signal is set
  tunnel   \* s.tunnel is set

clientVars == <<gen, start, newChan, once, signal, tunnel>>

ClientTypeOK ==
  /\ gen \in Gens
  /\ start \in [Gens -> {"idle", "dial", "signal", "main", "read", "close", "returned"}]
  /\ newChan \in [Gens -> {"none", "dial", "store", "accept", "end"}]
  /\ once \in [Gens -> {"open", "signal", "done"}]
  /\ signal \in [Gens -> BOOLEAN] /\ tunnel \in [Gens -> BOOLEAN]

ClientInit ==
  /\ gen = 1
  /\ start = [g \in Gens |-> IF g = 1 THEN "dial" ELSE "idle"]
  /\ newChan = [g \in Gens |-> "none"]
  /\ once = [g \in Gens |-> "open"]
  /\ signal = [g \in Gens |-> FALSE]
  /\ tunnel = [g \in Gens |-> FALSE]

\* Close: the first call closes the tunnel, if it has been stored by then, and
\* goes on to the signal (CloseSignal)
Close(g) ==
  /\ once' = [once EXCEPT ![g] = IF @ = "open" THEN "signal" ELSE @]
  /\ tun' = [tun EXCEPT ![g] = IF once[g] = "open" /\ tunnel[g] THEN "closed" ELSE @]

LeavesSignal(g) == sig[g] \* mutant: closing forgets the signal
ClosesSignal(g) == IF signal[g] THEN "closed" ELSE sig[g]

CloseSignal(g) ==
  /\ once[g] = "signal"
  /\ once' = [once EXCEPT ![g] = "done"]
  /\ sig' = [sig EXCEPT ![g] = ClosesSignal(g)]
  /\ signal' = [signal EXCEPT ![g] = FALSE]
  /\ UNCHANGED <<tun, cuts, gen, start, newChan, tunnel>>

-----------------------------------------------------------------------------
\* Start: NewConn(WORK_MAIN), tried again until it succeeds
Dial(g) ==
  /\ start[g] = "dial"
  /\ sig' = [sig EXCEPT ![g] = "open"]
  /\ start' = [start EXCEPT ![g] = "signal"]
  /\ UNCHANGED <<tun, cuts, gen, newChan, once, signal, tunnel>>

\* s.signal.Store(c), go s.newChan()
StoreSignal(g) ==
  /\ start[g] = "signal"
  /\ signal' = [signal EXCEPT ![g] = TRUE]
  /\ newChan' = [newChan EXCEPT ![g] = "dial"]
  /\ start' = [start EXCEPT ![g] = "main"]
  /\ UNCHANGED <<conns, gen, once, tunnel>>

\* handleMain keeps its own reference to the signal, or returns if there is none
HandleMain(g) ==
  /\ start[g] = "main"
  /\ start' = [start EXCEPT ![g] = IF signal[g] THEN "read" ELSE "returned"]
  /\ UNCHANGED <<conns, gen, newChan, once, signal, tunnel>>

\* ReadFlag fails: handleMain closes the client
ReadFlagFails(g) ==
  /\ start[g] = "read" /\ sig[g] = "closed"
  /\ start' = [start EXCEPT ![g] = "close"]
  /\ Close(g)
  /\ UNCHANGED <<sig, cuts, gen, newChan, signal, tunnel>>

\* Close returns when closing is done, whoever does it, and Start with it
StartReturns(g) ==
  /\ start[g] = "close" /\ once[g] = "done"
  /\ start' = [start EXCEPT ![g] = "returned"]
  /\ UNCHANGED <<conns, gen, newChan, once, signal, tunnel>>

\* the outer loop starts a new client five seconds later
NextClient ==
  /\ start[gen] = "returned" /\ gen < MaxGen
  /\ gen' = gen + 1
  /\ start' = [start EXCEPT ![gen + 1] = "dial"]
  /\ UNCHANGED <<conns, newChan, once, signal, tunnel>>

-----------------------------------------------------------------------------
\* newChan cannot connect: it closes the client, see its comment on #115
ChanDialFails(g) ==
  /\ newChan[g] = "dial"
  /\ Fault
  /\ newChan' = [newChan EXCEPT ![g] = "end"]
  /\ Close(g)
  /\ UNCHANGED <<sig, gen, start, signal, tunnel>>

ChanDial(g) ==
  /\ newChan[g] = "dial"
  /\ tun' = [tun EXCEPT ![g] = "open"]
  /\ newChan' = [newChan EXCEPT ![g] = "store"]
  /\ UNCHANGED <<sig, cuts, gen, start, once, signal, tunnel>>

\* s.tunnel.Store(mux)
StoreTunnel(g) ==
  /\ newChan[g] = "store"
  /\ tunnel' = [tunnel EXCEPT ![g] = TRUE]
  /\ newChan' = [newChan EXCEPT ![g] = "accept"]
  /\ UNCHANGED <<conns, gen, start, once, signal>>

\* the tunnel has been closed: Accept fails in newChan, or a tick of ping sees it
TunnelLost(g) ==
  /\ once[g] = "open" /\ tunnel[g] /\ tun[g] = "closed"
  /\ Close(g)
  /\ UNCHANGED <<sig, cuts, gen, start, newChan, signal, tunnel>>

-----------------------------------------------------------------------------
ClientStep(g) ==
  \/ Dial(g) \/ StoreSignal(g) \/ HandleMain(g) \/ ReadFlagFails(g) \/ StartReturns(g)
  \/ ChanDial(g) \/ StoreTunnel(g)
  \/ TunnelLost(g) \/ CloseSignal(g)

\* what the client's goroutines do when nothing hinders them
ClientGoesOn == NextClient \/ \E g \in Gens : ClientStep(g)

ClientNext == ClientGoesOn \/ \E g \in Gens : ChanDialFails(g)
=============================================================================
