------------------------------- MODULE Health -------------------------------
(* The client checks a target and tells the server, which takes it out of    *)
(* the tunnel's targets and puts it back: client/health.go, and              *)
(* GetHealthFromClient of bridge/bridge.go.                                  *)
EXTENDS Quota

CONSTANTS MaxFail, \* HealthMaxFail
          Checks,  \* checks that may be under way at once
          WireSize \* messages on their way

ASSUME HealthAssumption ==
  /\ MaxFail \in Nat \ {0} /\ WireSize \in Nat \ {0}
  /\ \A l \in Loads : l.flips \in Nat

VARIABLES
  up,       \* the target works
  flips,    \* how often that may still change, and the client reconnect
  session,  \* the loop that starts the checks
  check,    \* each check: idle, or what it has seen
  failures, \* HealthMap, kept below 2 * MaxFail
  wire,     \* messages per connection, the last one the newest
  target,   \* it is in Target.TargetArr
  removed,  \* how often it is in HealthRemoveArr
  lost      \* history: the client has reconnected

healthVars == <<up, flips, session, check, failures, wire, target, removed, lost>>
inServer == <<target, removed>>

HealthTypeOK ==
  /\ up \in BOOLEAN /\ session \in BOOLEAN /\ target \in BOOLEAN /\ lost \in BOOLEAN
  /\ flips \in Nat
  /\ check \in [Checks -> {"idle", "good", "bad"}]
  /\ failures \in 0..2 * MaxFail
  /\ wire \in Seq(Seq(BOOLEAN)) /\ wire # <<>>
  /\ removed \in Nat

HealthInit ==
  /\ up = TRUE /\ flips = load.flips /\ session = (load.flips > 0)
  /\ check = [k \in Checks |-> "idle"] /\ failures = 0
  /\ wire = << <<>> >> /\ target = TRUE /\ removed = 0 /\ lost = FALSE

-----------------------------------------------------------------------------
\* session starts a check; the check dials or asks
Observe(k) ==
  /\ session /\ check[k] = "idle"
  /\ check' = [check EXCEPT ![k] = IF up THEN "good" ELSE "bad"]
  /\ UNCHANGED <<counters, up, flips, session, failures, wire, inServer, lost>>

\* How the failures add up; every MaxFail-th is told again.
More == IF failures = 2 * MaxFail THEN MaxFail + 1 ELSE failures + 1

Told(n) == n > 0 /\ n % MaxFail = 0

\* (mutant: a target that works again is put back only at the very limit)
BackAtLimit == failures = MaxFail
Back == failures >= MaxFail

\* SendHealthInfo on the newest connection
Tell(status) == wire' = [wire EXCEPT ![Len(wire)] = Append(@, status)]

\* the result is counted under the lock, and told
Count(k) ==
  /\ check[k] # "idle" /\ Len(wire[Len(wire)]) < WireSize
  /\ IF check[k] = "good"
       THEN /\ failures' = 0
            /\ IF Back THEN Tell(TRUE) ELSE UNCHANGED wire
       ELSE /\ failures' = More
            /\ IF Told(More) THEN Tell(FALSE) ELSE UNCHANGED wire
  /\ check' = [check EXCEPT ![k] = "idle"]
  /\ UNCHANGED <<counters, up, flips, session, inServer, lost>>

-----------------------------------------------------------------------------
\* GetHealthFromClient, one goroutine for each connection.  HealthRemoveArr gets
\* longer with every message; more than two entries are not told apart.
TakeOut == target' = FALSE /\ removed' = IF removed < 2 THEN removed + 1 ELSE removed
PutBack ==
  IF removed > 0 /\ ~target THEN target' = TRUE /\ removed' = removed - 1
                            ELSE UNCHANGED inServer

Heed(status) == IF status THEN PutBack ELSE TakeOut

GetHealthInfo(i) ==
  /\ wire[i] # <<>>
  /\ Heed(Head(wire[i]))
  /\ wire' = [wire EXCEPT ![i] = Tail(@)]
  /\ UNCHANGED <<counters, up, flips, session, check, failures, lost>>

-----------------------------------------------------------------------------
\* the target stops working, or works again
Flip ==
  /\ flips > 0 /\ flips' = flips - 1 /\ up' = ~up
  /\ UNCHANGED <<counters, session, check, failures, wire, inServer, lost>>

\* The client reconnects: heathCheck gets a new connection and forgets the failures.
\* What is on the old one may still arrive, or is lost.
Reconnect ==
  /\ flips > 0 /\ flips' = flips - 1
  /\ wire' = Append(wire, <<>>) /\ failures' = 0 /\ lost' = TRUE
  /\ UNCHANGED <<counters, up, session, check, inServer>>

Lose(i) ==
  /\ i < Len(wire) /\ wire[i] # <<>> /\ wire' = [wire EXCEPT ![i] = <<>>]
  /\ UNCHANGED <<counters, up, flips, session, check, failures, inServer, lost>>

\* The times in the heap are whole seconds, so that the timer may fire before any
\* check is due; then nothing is pushed again and the loop ends.
SessionEnds ==
  /\ session /\ session' = FALSE
  /\ UNCHANGED <<counters, up, flips, check, failures, wire, inServer, lost>>

Checking == (\E k \in Checks : Observe(k) \/ Count(k)) /\ UNCHANGED <<load, exceeded>>
Hearing == (\E i \in DOMAIN wire : GetHealthInfo(i)) /\ UNCHANGED <<load, exceeded>>

HealthNext ==
  \/ Checking \/ Hearing
  \/ /\ Flip \/ Reconnect \/ SessionEnds \/ \E i \in DOMAIN wire : Lose(i)
     /\ UNCHANGED <<load, exceeded>>

-----------------------------------------------------------------------------
\* As long as the checks go on: a target that does not work leaves the targets for
\* good, whatever messages got lost; and one that works comes back, unless the client
\* has reconnected in between and does not know that it was out.
TargetFollows ==
  /\ <>[](session /\ ~up) => <>[]~target
  /\ <>[](session /\ up /\ ~lost) => <>[]target
=============================================================================
