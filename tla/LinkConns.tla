----------------------------- MODULE LinkConns -----------------------------
(* The connections between one client and the server.  Every time it starts *)
(* anew (a generation) the client opens a signal connection (WORK_MAIN) and *)
(* a tunnel connection (WORK_CHAN); either end may close one, and so may    *)
(* the network.  An end learns of it by an error of a read, some time later.*)
EXTENDS Integers, Sequences

CONSTANTS MaxGen, \* how often the client starts
          MaxCuts \* how many connections and attempts to connect fail

ASSUME ConnsAssumption == MaxGen \in Nat \ {0} /\ MaxCuts \in Nat

Gens == 1..MaxGen

VARIABLES sig, tun, \* signal and tunnel of each generation: none, open, closed
          cuts

conns == <<sig, tun, cuts>>

ConnsTypeOK ==
  /\ sig \in [Gens -> {"none", "open", "closed"}]
  /\ tun \in [Gens -> {"none", "open", "closed"}]
  /\ cuts \in 0..MaxCuts

ConnsInit ==
  /\ sig = [g \in Gens |-> "none"]
  /\ tun = [g \in Gens |-> "none"]
  /\ cuts = 0

Fault == cuts < MaxCuts /\ cuts' = cuts + 1

\* the network breaks a connection
Cut(g) ==
  /\ Fault
  /\ \/ sig[g] = "open" /\ sig' = [sig EXCEPT ![g] = "closed"] /\ UNCHANGED tun
     \/ tun[g] = "open" /\ tun' = [tun EXCEPT ![g] = "closed"] /\ UNCHANGED sig
=============================================================================
