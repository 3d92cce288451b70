------------------------------- MODULE Quota -------------------------------
(* What the proxies of the server share: how many connections each client    *)
(* has (Client.NowConn), how many there are in all (globalConn), and the     *)
(* clients whose traffic is used up (Flow).                                  *)
EXTENDS Integers, FiniteSets, Sequences

CONSTANTS Clients,
          Loads \* the limits that are set, and what the users may do

\* A limit of 0 is none.
ASSUME QuotaAssumption ==
  \A l \in Loads : /\ l.maxConn \in Nat /\ l.maxGlobal \in Nat
                   /\ l.exceeds \in BOOLEAN /\ l.denied \in BOOLEAN

VARIABLES load, nowConn, globalConn, exceeded

quotaVars == <<load, nowConn, globalConn, exceeded>>
counters == <<nowConn, globalConn>>

QuotaTypeOK ==
  /\ load \in Loads
  /\ nowConn \in [Clients -> Nat]
  /\ globalConn \in Nat /\ (load.maxGlobal > 0 => globalConn <= load.maxGlobal)
  /\ exceeded \in [Clients -> BOOLEAN]

QuotaInit ==
  /\ load \in Loads
  /\ nowConn = [c \in Clients |-> 0]
  /\ globalConn = 0
  /\ exceeded = [c \in Clients |-> FALSE]

\* CheckFlowAndConnNum: the traffic, then GetConn's compare and swap
Allowed(c) == ~exceeded[c] /\ (load.maxConn = 0 \/ nowConn[c] < load.maxConn)
CutConn(c) == nowConn' = [nowConn EXCEPT ![c] = @ + 1]
AddConn(c) == nowConn' = [nowConn EXCEPT ![c] = @ - 1]

TryAcquireGlobalConn == load.maxGlobal = 0 \/ globalConn < load.maxGlobal
AcquireGlobalConn == globalConn' = globalConn + 1
ReleaseGlobalConn == globalConn' = globalConn - 1

\* somewhere on the way a byte too many has been counted (Flow.Add)
Exceed(c) ==
  /\ load.exceeds /\ ~exceeded[c]
  /\ exceeded' = [exceeded EXCEPT ![c] = TRUE]
  /\ UNCHANGED <<load, counters>>
=============================================================================
