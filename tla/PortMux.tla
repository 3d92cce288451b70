------------------------------ MODULE PortMux -------------------------------
(* One public port for clients, panel, http and https: process reads the     *)
(* first bytes of a connection and offers it to the listener they belong to  *)
(* (lib/pmux).  The listener matters only by whether there is one.           *)
EXTENDS Quota

CONSTANT MaxPorts

ASSUME PortAssumption == MaxPorts \in Nat

VARIABLES
  accepting, \* the accept loop runs, and counts in wg
  closing,   \* Close: begun when done is closed, closed when the channels are
  listening, \* somebody calls Accept of the PortListeners
  process,   \* the goroutine of each connection
  socket     \* and the connection

portVars == <<accepting, closing, listening, process, socket>>

Conns == 1..MaxPorts

PortTypeOK ==
  /\ accepting \in BOOLEAN /\ listening \in BOOLEAN
  /\ closing \in {"no", "begun", "closed"}
  /\ process \in [Conns -> {"none", "read", "header", "offer", "nowhere", "end"}] \* never "panic"
  /\ socket \in [Conns -> {"none", "open", "closed", "taken"}]

PortInit ==
  /\ accepting = TRUE /\ closing = "no" /\ listening = TRUE
  /\ process = [c \in Conns |-> "none"] /\ socket = [c \in Conns |-> "none"]

Go(c, p, s) == process' = [process EXCEPT ![c] = p] /\ socket' = [socket EXCEPT ![c] = s]

-----------------------------------------------------------------------------
AcceptPort(c) ==
  /\ accepting /\ closing = "no" /\ c <= load.ports
  /\ process[c] = "none" /\ Go(c, "read", "open")
  /\ UNCHANGED <<counters, accepting, closing, listening>>

\* Accept fails, whether the listener is closed or not: the loop is over
AcceptStops ==
  /\ accepting /\ accepting' = FALSE
  /\ UNCHANGED <<counters, closing, listening, process, socket>>

\* Three bytes, within ten seconds, tell an HTTP method, a client or anything else;
\* then the header, within another ten.  A header without a Host leaves the
\* connection closed and goes on, with no channel to send to.
Recognise(c) ==
  /\ \/ process[c] = "read" /\ (Go(c, "end", "closed") \/ Go(c, "header", "open") \/ Go(c, "offer", "open"))
     \/ process[c] = "header" /\ (Go(c, "nowhere", "closed") \/ Go(c, "offer", "open"))
  /\ UNCHANGED <<counters, accepting, closing, listening>>

\* the select: somebody accepts it; or done is closed, or ten seconds are over.
\* A channel that is closed would make it panic.
Send(c) ==
  /\ process[c] = "offer"
  /\ IF closing = "closed" THEN Go(c, "panic", socket[c])
                           ELSE listening /\ Go(c, "end", "taken")
  /\ UNCHANGED <<counters, accepting, closing, listening>>

GiveUp(c) ==
  /\ process[c] \in {"offer", "nowhere"} /\ Go(c, "end", "closed")
  /\ UNCHANGED <<counters, accepting, closing, listening>>

\* Close: the listener and done; when the accept loop and every process have returned
\* (wg.Wait) the channels.  (mutant: it does not wait)
NobodyWaitedFor == TRUE
NoneInFlight == ~accepting /\ \A c \in Conns : process[c] \in {"none", "end"}

BeginClose ==
  /\ closing = "no" /\ load.ports > 0 /\ closing' = "begun"
  /\ UNCHANGED <<counters, accepting, listening, process, socket>>

CloseChannels ==
  /\ closing = "begun" /\ NoneInFlight /\ closing' = "closed"
  /\ UNCHANGED <<counters, accepting, listening, process, socket>>

\* the PortListeners are closed (web manager, bridge, http): nobody accepts any more
StopListening ==
  /\ listening /\ load.ports > 0 /\ listening' = FALSE
  /\ UNCHANGED <<counters, accepting, closing, process, socket>>

PortGoesOn ==
  /\ \/ closing # "no" /\ AcceptStops
     \/ CloseChannels
     \/ \E c \in Conns : Recognise(c) \/ Send(c) \/ GiveUp(c)
  /\ UNCHANGED <<load, exceeded>>

PortNext ==
  \/ PortGoesOn
  \/ /\ \/ \E c \in Conns : AcceptPort(c)
        \/ load.ports > 0 /\ AcceptStops
        \/ BeginClose \/ StopListening
     /\ UNCHANGED <<load, exceeded>>

-----------------------------------------------------------------------------
\* the goroutine is through, and its connection neither closed nor handed on
PortLeft == \E c \in Conns : process[c] = "end" /\ socket[c] = "open"

\* Close returns, and every connection is recognised or given up.
PortEnded ==
  /\ closing \in {"no", "closed"}
  /\ \A c \in Conns : process[c] \in {"none", "end"}
=============================================================================
