----------------------------- MODULE ServerProofs -----------------------------
(* The table of tunnels, its file and the running services, for any number of  *)
(* tunnels, ports, requests and faults.                                        *)
EXTENDS Server, FiniteSetTheorems, SequenceTheorems, WellFoundedInduction, TLAPS

\* the goroutine is at work on one tunnel
Busy == Places \ {"idle", "next", "get"}

\* where a goroutine that creates a tunnel never comes
Later == {"edit", "saveEdit", "close", "unrun", "stopped", "saveStop"}
USE DEF Later

\* what the table leads to has the id under which it was found
IdOf == \A i \in Ids : tasks[i] # 0 => tunnels[tasks[i]].id = i

\* no id is twice in the file
UniqueSaved == IsFiniteSet(saved) /\ \A r, s \in saved : r.id = s.id => r = s

\* what a goroutine knows of its tunnel, and which operations come where
Held(w) ==
  /\ at[w].pc \in Busy => at[w].t # 0 /\ at[w].id = tunnels[at[w].t].id
  /\ at[w].pc = "get" => at[w].id # 0 /\ at[w].op \in {"start", "edit"}
  /\ at[w].op \notin {"boot", "del", "reclaim"} => at[w].todo = {}
  /\ at[w].op # "boot" => at[w].todo \subseteq 1..Len(tunnels)
  /\ at[w].op \in {"add", "del"} => w = Panel
  /\ at[w].pc \in {"new", "saveNew"} => at[w].op \in {"add", "register"}
  /\ at[w].pc = "delete" => at[w].op \in {"add", "del", "reclaim"}
  /\ at[w].pc \in Later => at[w].op # "add"

Base == TypeOK /\ IdOf /\ UniqueSaved /\ \A w \in Workers : Held(w)

-----------------------------------------------------------------------------
(* Loading the file, and the smallest free id.                               *)

LEMMA Bounds ==
  /\ MaxTunnels \in Nat \ {0} /\ ChanSize \in Nat \ {0}
  /\ {MaxRequests, MaxRegisters, MaxCloses, MaxFaults, MaxWork, MaxSeen} \subseteq Nat
  /\ Ids = 1..MaxTunnels
BY ServerAssumption DEF Ids

LEMMA Smallest ==
  ASSUME NEW T \in SUBSET Nat, T # {}
  PROVE  \E x \in T : \A y \in T : x <= y
<1>1. PICK x \in T : \A y \in T : ~(<<y, x>> \in OpToRel(<, Nat))
  BY WFMin, NatLessThanWellFounded, Zenon
<1>2. \A y \in T : ~(y < x)
  BY <1>1 DEF OpToRel
<1> QED BY <1>2

LEMMA NextIdFree ==
  ASSUME FreeIds # {}
  PROVE  NextId \in Ids /\ tasks[NextId] = 0
<1>1. FreeIds \in SUBSET Nat
  BY Bounds DEF FreeIds
<1>2. \E i \in FreeIds : \A j \in FreeIds : i <= j
  BY <1>1, Smallest
<1> QED BY <1>2 DEF NextId, FreeIds

LEMMA LoadOrder ==
  ASSUME NEW S, IsFiniteSet(S)
  PROVE  /\ Load(S) \in Seq(S) /\ Len(Load(S)) = Cardinality(S)
         /\ \A t, u \in 1..Len(Load(S)) : Load(S)[t] = Load(S)[u] => t = u
         /\ \A r \in S : \E t \in 1..Len(Load(S)) : Load(S)[t] = r
<1> DEFINE n == Cardinality(S)
<1>1. n \in Nat /\ ExistsBijection(1..n, S)
  BY FS_CardinalityType
<1>2. \E f \in [1..n -> S] : IsInjective(f)
  BY <1>1 DEF ExistsBijection, Bijection, Injection, IsInjective
<1>3. Load(S) \in [1..n -> S] /\ IsInjective(Load(S))
  BY <1>2 DEF Load, SetToSeq
<1>4. Load(S) \in Injection(1..n, S)
  BY <1>3 DEF Injection, IsInjective
<1>5. Cardinality(1..n) = n /\ IsFiniteSet(1..n)
  BY <1>1, FS_Interval
<1>6. Load(S) \in Surjection(1..n, S)
  BY <1>4, <1>5, FS_Injection
<1>7. Load(S) \in Seq(S) /\ Len(Load(S)) = n
  BY <1>1, <1>3, SeqDef
<1> QED BY <1>3, <1>6, <1>7 DEF Surjection, IsInjective

\* what is loaded from a file whose tunnels have different ids
LEMMA Loading ==
  ASSUME UniqueSaved, saved \subseteq StoredTunnel, NEW ts, ts = Load(saved)
  PROVE  /\ ts \in Seq(Tunnel) /\ \A t \in 1..Len(ts) : ts[t] \in saved /\ ~ts[t].noStore
         /\ \A r \in saved : \E t \in 1..Len(ts) : ts[t] = r
         /\ LoadedTasks(ts) \in [Ids -> 0..Len(ts)]
         /\ \A i \in Ids : LoadedTasks(ts)[i] # 0 => ts[LoadedTasks(ts)[i]].id = i
         /\ \A t \in 1..Len(ts) : ts[t].id \in Ids /\ LoadedTasks(ts)[ts[t].id] = t
<1>1. /\ ts \in Seq(saved) /\ Len(ts) \in Nat
      /\ \A t, u \in 1..Len(ts) : ts[t] = ts[u] => t = u
      /\ \A r \in saved : \E t \in 1..Len(ts) : ts[t] = r
  BY LoadOrder, LenProperties DEF UniqueSaved
<1>2. \A t \in 1..Len(ts) : ts[t] \in saved
  BY <1>1, ElementOfSeq
<1>3. \A r \in saved : r \in Tunnel /\ ~r.noStore /\ r.id \in Ids
  BY DEF StoredTunnel, Tunnel
<1>4. ts \in Seq(Tunnel)
  BY <1>1, <1>3 DEF Seq
<1>5. DOMAIN ts = 1..Len(ts)
  BY <1>1, LenProperties
<1>6. \A t, u \in 1..Len(ts) : ts[t].id = ts[u].id => t = u
  BY <1>1, <1>2 DEF UniqueSaved
<1>7. ASSUME NEW i \in Ids
      PROVE  /\ LoadedTasks(ts)[i] \in 0..Len(ts)
             /\ LoadedTasks(ts)[i] # 0 => ts[LoadedTasks(ts)[i]].id = i
             /\ \A t \in 1..Len(ts) : ts[t].id = i => LoadedTasks(ts)[i] = t
  <2>1. CASE \E t \in 1..Len(ts) : ts[t].id = i
    <3> DEFINE u == CHOOSE t \in 1..Len(ts) : ts[t].id = i
    <3>1. u \in 1..Len(ts) /\ ts[u].id = i
      BY <2>1
    <3>2. LoadedTasks(ts)[i] = u
      BY <1>5, <2>1 DEF LoadedTasks
    <3> HIDE DEF u
    <3> QED BY <1>1, <1>6, <3>1, <3>2
  <2>2. CASE ~\E t \in 1..Len(ts) : ts[t].id = i
    <3>1. LoadedTasks(ts)[i] = 0
      BY <1>5, <2>2 DEF LoadedTasks
    <3> QED BY <1>1, <2>2, <3>1
  <2> QED BY <2>1, <2>2
<1>8. LoadedTasks(ts) \in [Ids -> 0..Len(ts)]
  BY <1>7 DEF LoadedTasks
<1> QED BY <1>1, <1>2, <1>3, <1>4, <1>7, <1>8

LEMMA Booting ==
  ASSUME NEW ts \in Seq(Tunnel)
  PROVE  /\ InitFromCsv(ts) \in [Workers -> Errand(Len(ts))]
         /\ \A w \in Workers : \/ InitFromCsv(ts)[w] = Idle
                               \/ InitFromCsv(ts)[w].op = "boot" /\ InitFromCsv(ts)[w].pc = "next"
<1>1. Len(ts) \in Nat /\ DOMAIN ts = 1..Len(ts)
  BY LenProperties
<1> DEFINE toStart == DOMAIN ts \cup 1..MaxSeen
<1>2. Idle \in Errand(Len(ts)) /\ "boot" \in Operations /\ "next" \in Places
  BY <1>1, Bounds DEF Idle, Errand, Operations, Places
<1>3. toStart \in SUBSET Nat
  BY <1>1, Bounds
<1>4. [Idle EXCEPT !.op = "boot", !.pc = "next", !.todo = toStart] \in Errand(Len(ts))
  <2> HIDE DEF toStart
  <2> QED BY <1>2, <1>3 DEF Errand
<1>5. /\ [Idle EXCEPT !.op = "boot", !.pc = "next", !.todo = toStart].op = "boot"
      /\ [Idle EXCEPT !.op = "boot", !.pc = "next", !.todo = toStart].pc = "next"
  BY DEF Idle
<1> QED BY <1>2, <1>4, <1>5 DEF InitFromCsv

-----------------------------------------------------------------------------
(* A goroutine moves from one place to the next.                             *)

\* nobody but w moves, and w keeps operation, id and what it has to do, or is done
Moves(w) ==
  /\ \A v \in Workers \ {w} : at'[v] = at[v]
  /\ \/ at'[w] = Idle
     \/ /\ at'[w].op = at[w].op /\ at'[w].id = at[w].id /\ at'[w].todo = at[w].todo

LEMMA Going ==
  ASSUME NEW n \in Nat, at \in [Workers -> Errand(n)], NEW w \in Workers, NEW pc \in Places, Go(w, pc)
  PROVE  /\ at' \in [Workers -> Errand(n)] /\ Moves(w)
         /\ at'[w].pc = pc /\ at'[w].t = at[w].t /\ at'[w].op = at[w].op /\ at'[w].id = at[w].id
         /\ at'[w].todo = at[w].todo
<1>1. at' = [at EXCEPT ![w] = [at[w] EXCEPT !.pc = pc]]
  BY DEF Go
<1>2. [at[w] EXCEPT !.pc = pc] \in Errand(n)
  BY DEF Errand
<1> QED BY <1>1, <1>2 DEF Moves, Errand

LEMMA Returning ==
  ASSUME NEW n \in Nat, at \in [Workers -> Errand(n)], NEW w \in Workers, Return(w)
  PROVE  /\ at' \in [Workers -> Errand(n)] /\ Moves(w)
         /\ \/ at'[w] = Idle
            \/ at'[w].pc = "next" /\ at'[w].t = at[w].t /\ at[w].todo # {} /\ at'[w].op = at[w].op
<1>1. at' = [at EXCEPT ![w] = IF at[w].todo = {} THEN Idle ELSE [at[w] EXCEPT !.pc = "next"]]
  BY DEF Return
<1>2. Idle \in Errand(n) /\ [at[w] EXCEPT !.pc = "next"] \in Errand(n)
  BY Bounds, SMTT(60) DEF Errand, Idle, Operations, Places
<1> QED BY <1>1, <1>2 DEF Moves, Errand

\* a goroutine has something new to do
LEMMA Taking ==
  ASSUME NEW n \in Nat, at \in [Workers -> Errand(n)], NEW w \in Workers, NEW e \in Errand(n),
         at' = [at EXCEPT ![w] = e]
  PROVE  at' \in [Workers -> Errand(n)] /\ at'[w] = e /\ \A v \in Workers \ {w} : at'[v] = at[v]
OBVIOUS

\* an errand of a shorter table is one of a longer
LEMMA Longer ==
  ASSUME NEW n \in Nat, NEW m \in Nat, n <= m, at \in [Workers -> Errand(n)]
  PROVE  at \in [Workers -> Errand(m)]
<1>1. \A e \in Errand(n) : e \in Errand(m)
  BY DEF Errand
<1> QED BY <1>1

\* changes of the one object
LEMMA Changing ==
  ASSUME tunnels \in Seq(Tunnel), NEW t \in 1..Len(tunnels), NEW r \in Tunnel,
         r.id = tunnels[t].id, r.noStore = tunnels[t].noStore, tunnels' = [tunnels EXCEPT ![t] = r]
  PROVE  /\ tunnels' \in Seq(Tunnel) /\ Len(tunnels') = Len(tunnels)
         /\ \A u \in 1..Len(tunnels) : /\ tunnels'[u].id = tunnels[u].id
                                       /\ tunnels'[u].noStore = tunnels[u].noStore
                                       /\ u # t => tunnels'[u] = tunnels[u]
         /\ tunnels'[t] = r
<1>1. tunnels' \in Seq(Tunnel) /\ Len(tunnels') = Len(tunnels)
  BY ExceptSeq
<1>2. \A u \in 1..Len(tunnels) : tunnels'[u] = IF u = t THEN r ELSE tunnels[u]
  BY LenProperties
<1> QED BY <1>1, <1>2

-----------------------------------------------------------------------------
(* Types, ids and places.                                                    *)

\* tunnels are only added, and keep id and owner
Steady ==
  /\ Len(tunnels') \in Nat /\ Len(tunnels) <= Len(tunnels')
  /\ \A t \in 1..Len(tunnels) : /\ tunnels'[t].id = tunnels[t].id
                                /\ tunnels'[t].noStore = tunnels[t].noStore

LEMMA StoredUnique ==
  ASSUME Base
  PROVE  /\ Stored \subseteq StoredTunnel /\ IsFiniteSet(Stored)
         /\ \A r, s \in Stored : r.id = s.id => r = s
         /\ \A i \in Ids : tasks[i] # 0 /\ ~tunnels[tasks[i]].noStore => tunnels[tasks[i]] \in Stored
<1>1. tasks \in [Ids -> 0..Len(tunnels)] /\ tunnels \in Seq(Tunnel) /\ Len(tunnels) \in Nat
  BY LenProperties DEF Base, TypeOK
<1>2. \A t \in 1..Len(tunnels) : tunnels[t] \in Tunnel
  BY <1>1, ElementOfSeq
<1> DEFINE kept == {u \in InTable : ~tunnels[u].noStore}
<1>3. \A u \in kept : u \in 1..Len(tunnels) /\ ~tunnels[u].noStore /\ \E i \in Ids : u = tasks[i] /\ tunnels[u].id = i
  BY <1>1 DEF InTable, Base, IdOf
<1>4. Stored \subseteq StoredTunnel
  BY <1>2, <1>3, ZenonT(60) DEF Stored, Tunnel, StoredTunnel
<1>5. IsFiniteSet(Stored)
  <2>1. IsFiniteSet(1..Len(tunnels)) /\ kept \subseteq 1..Len(tunnels)
    BY <1>1, <1>3, FS_Interval
  <2>2. IsFiniteSet(kept)
    BY <2>1, FS_Subset
  <2> DEFINE f == [u \in kept |-> tunnels[u]]
  <2>3. f \in Surjection(kept, Stored)
    BY DEF Surjection, Stored
  <2> QED BY <2>2, <2>3, FS_Surjection
<1>6. \A r, s \in Stored : r.id = s.id => r = s
  BY <1>3 DEF Stored
<1>7. \A i \in Ids : tasks[i] # 0 /\ ~tunnels[tasks[i]].noStore => tunnels[tasks[i]] \in Stored
  BY DEF Stored, InTable
<1> QED BY <1>4, <1>5, <1>6, <1>7

LEMMA BaseFrom ==
  ASSUME Base, Steady, TypeOK', \A v \in Workers : Held(v)',
         saved' = saved \/ saved' = Stored,
         \/ tasks' = tasks
         \/ \E i \in Ids, t \in 0..Len(tunnels') :
              tasks' = [tasks EXCEPT ![i] = t] /\ (t # 0 => tunnels'[t].id = i)
  PROVE  Base'
<1>1. tasks \in [Ids -> 0..Len(tunnels)] /\ Len(tunnels) \in Nat
  BY LenProperties DEF Base, TypeOK
<1>2. UniqueSaved'
  BY StoredUnique DEF Base, UniqueSaved
<1>3. \A i \in Ids : tasks[i] # 0 => tunnels'[tasks[i]].id = i
  BY <1>1 DEF Base, IdOf, Steady
<1>4. IdOf'
  BY <1>1, <1>3 DEF IdOf
<1> QED BY <1>2, <1>4 DEF Base

\* w is done, or what it knows and may do is right
LEMMA HeldStays ==
  ASSUME Base, Steady, NEW v \in Workers, at'[v] = at[v]
  PROVE  Held(v)'
<1>1. Held(v) /\ at[v].t \in 0..Len(tunnels) /\ Len(tunnels) \in Nat
  BY LenProperties DEF Base, TypeOK, Errand
<1>2. at[v].t # 0 => tunnels'[at[v].t].id = tunnels[at[v].t].id
  BY <1>1 DEF Steady
<1>3. 1..Len(tunnels) \subseteq 1..Len(tunnels')
  BY <1>1 DEF Steady
<1> QED BY <1>1, <1>2, <1>3, SMTT(60) DEF Held

LEMMA HeldFrom ==
  ASSUME Base, Steady, NEW w \in Workers, \A v \in Workers \ {w} : at'[v] = at[v], Held(w)'
  PROVE  \A v \in Workers : Held(v)'
BY HeldStays

\* w goes on with the tunnel that it has, or ends
LEMMA HeldMoves ==
  ASSUME Base, Steady, NEW w \in Workers, Moves(w),
         \/ at'[w] = Idle
         \/ at'[w].pc = "next"
         \/ /\ at[w].pc \in Busy /\ at'[w].t = at[w].t
            /\ at'[w].pc \in {"new", "saveNew"} => at[w].op \in {"add", "register"}
            /\ at'[w].pc = "delete" => at[w].op \in {"add", "del", "reclaim"}
            /\ at'[w].pc \in Later => at[w].op # "add"
            /\ at'[w].pc = "get" => at[w].op = "edit"
  PROVE  \A v \in Workers : Held(v)'
<1>1. Held(w) /\ at[w].t \in 0..Len(tunnels) /\ Len(tunnels) \in Nat
  BY LenProperties DEF Base, TypeOK, Errand
<1>0. at[w].op # "boot" => at[w].todo \subseteq 1..Len(tunnels')
  BY <1>1 DEF Held, Steady
<1>2. CASE at'[w] = Idle
  <2>1. Held(w)'
    BY <1>2 DEF Held, Idle, Busy
  <2> QED BY <2>1, HeldFrom DEF Moves
<1>3. CASE at'[w].pc = "next" /\ at'[w] # Idle
  <2>1. Held(w)'
    BY <1>0, <1>1, <1>3, SMTT(60) DEF Held, Busy, Moves
  <2> QED BY <2>1, HeldFrom DEF Moves
<1>4. CASE at'[w] # Idle /\ at'[w].pc # "next"
  <2>1. at[w].t # 0 /\ at[w].id = tunnels[at[w].t].id /\ tunnels'[at[w].t].id = tunnels[at[w].t].id
        /\ at[w].id # 0
    <3>1. at[w].t \in 1..Len(tunnels) /\ at[w].id = tunnels[at[w].t].id
      BY <1>1, <1>4 DEF Held
    <3>2. tunnels[at[w].t] \in Tunnel
      BY <3>1, ElementOfSeq DEF Base, TypeOK
    <3>3. tunnels[at[w].t].id \in Ids
      BY <3>2 DEF Tunnel
    <3> QED BY <1>1, <3>1, <3>3, Bounds, SMTT(60) DEF Steady
  <2>2. Held(w)'
    BY <1>0, <1>1, <1>4, <2>1, SMTT(60) DEF Held, Moves
  <2> QED BY <2>2, HeldFrom DEF Moves
<1> QED BY <1>2, <1>3, <1>4

LEMMA SameTunnels == ASSUME UNCHANGED tunnels, tunnels \in Seq(Tunnel) PROVE Steady
BY LenProperties DEF Steady

LEMMA BusyFacts ==
  ASSUME Base, NEW w \in Workers
  PROVE  /\ Len(tunnels) \in Nat /\ at[w].t \in 0..Len(tunnels) /\ at[w].id \in 0..MaxTunnels
         /\ at[w].todo \in SUBSET Nat /\ at[w].pc \in Places /\ at[w].op \in Operations
         /\ at[w].op # "boot" => at[w].todo \subseteq 1..Len(tunnels)
         /\ at[w].pc \in Busy => /\ at[w].t \in 1..Len(tunnels) /\ at[w].id = tunnels[at[w].t].id
                                 /\ tunnels[at[w].t] \in Tunnel /\ at[w].id \in Ids
         /\ at[w].pc = "get" => at[w].id \in Ids
         /\ \A t \in 1..Len(tunnels) : tunnels[t] \in Tunnel /\ tunnels[t].id \in Ids
<1>1. /\ Len(tunnels) \in Nat /\ at[w].t \in 0..Len(tunnels) /\ at[w].id \in 0..MaxTunnels
      /\ at[w].todo \in SUBSET Nat /\ at[w].pc \in Places /\ at[w].op \in Operations
  BY LenProperties DEF Base, TypeOK, Errand
<1>2. \A t \in 1..Len(tunnels) : tunnels[t] \in Tunnel
  BY ElementOfSeq DEF Base, TypeOK
<1>3. \A t \in 1..Len(tunnels) : tunnels[t].id \in Ids
  BY <1>2 DEF Tunnel
<1>4. Held(w)
  BY DEF Base
<1> QED BY <1>1, <1>2, <1>3, <1>4, Bounds, SMTT(60) DEF Held

LEMMA Spending ==
  ASSUME left \in Work, NEW source \in {"requests", "registers", "closes", "faults"}, Spend(source)
  PROVE  left' \in Work
<1>1. left[source] \in Nat /\ left[source] > 0 /\ left' = [left EXCEPT ![source] = left[source] - 1]
  BY Bounds DEF Spend, Work
<1>2. CASE source = "requests"
  BY <1>1, <1>2, Bounds, SMTT(60) DEF Work
<1>3. CASE source = "registers"
  BY <1>1, <1>3, Bounds, SMTT(60) DEF Work
<1>4. CASE source = "closes"
  BY <1>1, <1>4, Bounds, SMTT(60) DEF Work
<1>5. CASE source = "faults"
  BY <1>1, <1>5, Bounds, SMTT(60) DEF Work
<1> QED BY <1>2, <1>3, <1>4, <1>5

USE DEF table, file, running, chans, history, collisions

\* what the history takes down has its type
LEMMA Straying ==
  ASSUME Base, NEW S, S \subseteq 0..Len(services), Strand(S)
  PROVE  strays' \subseteq 1..Len(services) /\ strays \subseteq strays' /\ S \ {0} \subseteq strays'
<1>1. Len(services) \in Nat /\ strays \subseteq 1..Len(services)
  BY LenProperties DEF Base, TypeOK
<1> QED BY <1>1 DEF Strand

LEMMA Reusing ==
  ASSUME Base, NEW i \in Ids, NEW t, Reuse(i, t)
  PROVE  reused' \subseteq Ids /\ reused \subseteq reused' /\ (tasks[i] \notin {0, t} => i \in reused')
BY DEF Reuse, Meets, Base, TypeOK

LEMMA Storing ==
  ASSUME Base, NEW t \in 1..Len(tunnels), Store(t)
  PROVE  /\ tasks' = [tasks EXCEPT ![tunnels[t].id] = t]
         /\ reused' \subseteq Ids /\ reused \subseteq reused'
         /\ strays' \subseteq 1..Len(services) /\ strays \subseteq strays'
         /\ tasks[tunnels[t].id] \notin {0, t} => /\ tunnels[t].id \in reused'
                                                /\ runList[tunnels[t].id] \in strays' \cup {0}
<1> DEFINE i == tunnels[t].id
<1>1. i \in Ids /\ runList[i] \in 0..Len(services) /\ Panel \in Workers
  BY BusyFacts DEF Base, TypeOK, Workers
<1>2. reused' \subseteq Ids /\ reused \subseteq reused' /\ (tasks[i] \notin {0, t} => i \in reused')
  BY <1>1, Reusing DEF Store
<1> DEFINE S == IF Meets(i, t) THEN {runList[i]} ELSE {}
<1>3. S \subseteq 0..Len(services) /\ Strand(S)
  BY <1>1 DEF Store
<1>4. strays' \subseteq 1..Len(services) /\ strays \subseteq strays' /\ S \ {0} \subseteq strays'
  BY <1>3, Straying
<1> QED BY <1>1, <1>2, <1>4 DEF Store, Meets

LEMMA Updated ==
  ASSUME Base, NEW t \in 1..Len(tunnels), UpdateTask(t)
  PROVE  Store(t) /\ spared' \subseteq 1..Len(tunnels)
BY DEF UpdateTask, Base, TypeOK

LEMMA Next1Base == ASSUME Base, NEW w \in Workers, Next1(w) PROVE Base'
<1> USE BusyFacts
<1>1. /\ Steady /\ at \in [Workers -> Errand(Len(tunnels))] /\ Len(tunnels) \in Nat
      /\ tasks \in [Ids -> 0..Len(tunnels)]
      /\ UNCHANGED <<tunnels, tasks, saved, lost, services, runList, openTask, closeClient, left, acked, collisions>>
  BY SameTunnels, ZenonT(60) DEF Next1, Base, TypeOK
<1>2. ASSUME at' \in [Workers -> Errand(Len(tunnels))] PROVE TypeOK'
  BY <1>1, <1>2, SMTT(60) DEF Base, TypeOK
<1>3. CASE at' = [at EXCEPT ![w] = Idle]
  <2>1. Idle \in Errand(Len(tunnels))
    BY <1>1, Bounds DEF Idle, Errand, Operations, Places
  <2>2. Moves(w) /\ at'[w] = Idle /\ at' \in [Workers -> Errand(Len(tunnels))]
    BY <1>1, <1>3, <2>1 DEF Moves
  <2> QED BY <1>1, <1>2, <2>2, HeldMoves, BaseFrom, ZenonT(60)
<1>4. CASE at' # [at EXCEPT ![w] = Idle]
  <2>1. PICK t \in at[w].todo :
          /\ at[w].op = "boot" => Due(t)
          /\ at' = [at EXCEPT ![w].t = t, ![w].id = tunnels[t].id, ![w].todo = @ \ {t},
                              ![w].pc = IF at[w].op = "boot" THEN "test" ELSE DelTask(tunnels[t].id)]
    BY <1>4, ZenonT(60) DEF Next1
  <2> DEFINE pc == IF at[w].op = "boot" THEN "test" ELSE DelTask(tunnels[t].id)
  <2>2. pc \in {"test", "close", "delete"} /\ pc \in Places /\ pc \in Busy
        /\ (pc = "delete" => at[w].op # "boot")
    BY DEF DelTask, Places, Busy
  <2>3. t \in 1..Len(tunnels)
    BY <1>1, <2>1 DEF Due, InTable
  <2>4. tunnels[t].id \in Ids /\ tunnels[t].id \in 0..MaxTunnels /\ at[w].todo \ {t} \in SUBSET Nat
    BY <2>3, Bounds
  <2> HIDE DEF pc
  <2>5. /\ at' \in [Workers -> Errand(Len(tunnels))]
        /\ at'[w].t = t /\ at'[w].id = tunnels[t].id /\ at'[w].todo = at[w].todo \ {t}
        /\ at'[w].pc = pc /\ at'[w].op = at[w].op
        /\ \A v \in Workers \ {w} : at'[v] = at[v]
    <3> DEFINE i == tunnels[t].id
               S == at[w].todo \ {t}
               e == [at[w] EXCEPT !.t = t, !.id = i, !.todo = S, !.pc = pc]
    <3>1. at[w] \in Errand(Len(tunnels)) /\ t \in 0..Len(tunnels) /\ i \in 0..MaxTunnels /\ S \in SUBSET Nat
      BY <1>1, <2>3, <2>4
    <3>2. at' = [at EXCEPT ![w] = e]
      BY <2>1 DEF pc
    <3> HIDE DEF i, S
    <3>4. e \in Errand(Len(tunnels)) /\ e.op = at[w].op /\ e.pc = pc /\ e.id = i /\ e.t = t /\ e.todo = S
      BY ONLY <2>2, <3>1 DEF Errand
    <3> HIDE DEF e
    <3> QED BY <1>1, <3>2, <3>4, Taking DEF i, S
  <2>6. at[w].op \in {"boot", "del", "reclaim"} /\ Held(w)
    BY <2>1, SMTT(60) DEF Base, Held
  <2>7. Held(w)'
    <3>1. at'[w].t # 0 /\ at'[w].id = tunnels'[at'[w].t].id
      BY <1>1, <2>3, <2>5
    <3>2. at'[w].pc \in {"test", "close", "delete"} /\ at'[w].op \in {"boot", "del", "reclaim"}
          /\ (at'[w].pc = "delete" => at'[w].op # "boot") /\ (at'[w].op = "del" => w = Panel)
      BY <2>2, <2>5, <2>6 DEF Held
    <3>3. at'[w].op # "boot" => at'[w].todo \subseteq 1..Len(tunnels')
      BY <1>1, <2>5, <2>6 DEF Held
    <3> QED BY <3>1, <3>2, <3>3 DEF Held
  <2> QED BY <1>1, <1>2, <2>5, <2>7, HeldFrom, BaseFrom, ZenonT(60)
<1> QED BY <1>3, <1>4, SMTT(60)

\* the steps that change nothing but places, or send and take over a channel
LEMMA MovingBase ==
  ASSUME Base, NEW w \in Workers,
         Test(w) \/ GetTask(w) \/ SaveFails(w) \/ Save(w)
         \/ (w = Conf /\ (Probe \/ SendOpen \/ SendFailed))
  PROVE  Base'
<1> USE BusyFacts
<1>1. Steady /\ at \in [Workers -> Errand(Len(tunnels))] /\ Len(tunnels) \in Nat
  BY SameTunnels DEF Test, GetTask, SaveFails, Save, Probe, SendOpen, SendFailed, Base, TypeOK
<1>2. Held(w)
  BY DEF Base
<1>3. CASE Test(w)
  <2>1. Return(w) \/ \E pc \in {"delete", "run"} : Go(w, pc) /\ (pc = "delete" => at[w].op = "add")
    BY <1>3 DEF Test, AddTaskFails
  <2>2. at' \in [Workers -> Errand(Len(tunnels))] /\ \A v \in Workers : Held(v)'
    BY <1>1, <1>3, <2>1, Returning, Going, HeldMoves DEF Test, Busy, Places
  <2>3. TypeOK'
    BY <1>3, <2>2 DEF Test, Base, TypeOK
  <2> QED BY <1>1, <1>3, <2>2, <2>3, BaseFrom DEF Test
<1>4. CASE GetTask(w)
  <2>1. CASE tasks[at[w].id] = 0
    <3>1. at' \in [Workers -> Errand(Len(tunnels))] /\ \A v \in Workers : Held(v)'
      BY <1>1, <1>4, <2>1, Returning, HeldMoves DEF GetTask
    <3>2. TypeOK'
      BY <1>4, <3>1 DEF GetTask, Base, TypeOK
    <3> QED BY <1>1, <1>4, <3>1, <3>2, BaseFrom DEF GetTask
  <2>2. CASE tasks[at[w].id] # 0
    <3> DEFINE t == tasks[at[w].id]
    <3>1. t \in 1..Len(tunnels) /\ tunnels[t].id = at[w].id /\ at[w].pc = "get"
      BY <1>4, <2>2 DEF Base, TypeOK, IdOf, GetTask
    <3>2. at' = [at EXCEPT ![w].t = t, ![w].pc = "test"] /\ "test" \in Places
      BY <1>4, <2>2 DEF GetTask, Places
    <3> HIDE DEF t
    <3>3. /\ at' \in [Workers -> Errand(Len(tunnels))]
          /\ at'[w].t = t /\ at'[w].id = at[w].id /\ at'[w].todo = at[w].todo
          /\ at'[w].pc = "test" /\ at'[w].op = at[w].op
          /\ \A v \in Workers \ {w} : at'[v] = at[v]
      <4> DEFINE e == [at[w] EXCEPT !.t = t, !.pc = "test"]
      <4>0. at[w] \in Errand(Len(tunnels)) /\ t \in 0..Len(tunnels)
        BY <1>1, <3>1
      <4>1. at[w] \in Errand(Len(tunnels)) /\ t \in 0..Len(tunnels) /\ at' = [at EXCEPT ![w] = e]
        BY ONLY <3>2, <4>0
      <4>2. /\ e \in Errand(Len(tunnels)) /\ e.t = t /\ e.pc = "test" /\ e.op = at[w].op
            /\ e.id = at[w].id /\ e.todo = at[w].todo
        BY <3>2, <4>1 DEF Errand
      <4> HIDE DEF e
      <4> QED BY <1>1, <4>1, <4>2, Taking
    <3>4. Held(w)'
      BY <1>2, <1>4, <3>1, <3>3 DEF GetTask, Held
    <3>5. TypeOK'
      BY <1>4, <3>3 DEF GetTask, Base, TypeOK
    <3> QED BY <1>1, <1>4, <3>3, <3>4, <3>5, HeldFrom, BaseFrom DEF GetTask
  <2> QED BY <2>1, <2>2
<1>5. CASE Save(w) \/ SaveFails(w)
  <2>1. /\ at[w].pc \in {"saveNew", "saveKey", "saveEdit", "saveStop", "saveStart", "saveDel"}
        /\ at[w].pc \in Busy
        /\ AfterSave(w) \/ AfterFailedSave(w)
    BY <1>5 DEF Save, SaveFails, Saving, Busy, Places
  <2>2. \/ Return(w)
        \/ \E pc \in {"probe", "test", "close", "fail", "delete", "get"} :
             /\ Go(w, pc) /\ (pc = "delete" => at[w].op \in {"del", "reclaim"})
             /\ (pc = "close" => at[w].pc = "saveEdit") /\ (pc = "get" => at[w].op = "edit")
    BY <2>1 DEF AfterSave, AfterFailedSave, AfterStop
  <2>3. /\ at' \in [Workers -> Errand(Len(tunnels))] /\ Moves(w)
        /\ at'[w] = Idle \/ at'[w].pc = "next"
           \/ (at'[w].t = at[w].t /\ at'[w].pc \in {"probe", "test", "close", "fail", "delete", "get"}
               /\ (at'[w].pc = "delete" => at[w].op \in {"del", "reclaim"})
               /\ (at'[w].pc = "close" => at[w].pc = "saveEdit") /\ (at'[w].pc = "get" => at[w].op = "edit"))
    BY <1>1, <2>2, Returning, Going DEF Places
  <2>4. \A v \in Workers : Held(v)'
    <3>1. at'[w].pc = "close" /\ at'[w] # Idle /\ at'[w].pc # "next" => at[w].op # "add"
      BY <1>2, <2>3 DEF Held, Later, Idle
    <3> QED BY <1>1, <2>1, <2>3, <3>1, HeldMoves DEF Later
  <2>5. saved' = saved \/ saved' = Stored
    BY <1>5 DEF Save, SaveFails
  <2>6. TypeOK'
    <3>1. left' \in Work
      BY <1>5, Spending DEF Save, SaveFails, Base, TypeOK
    <3>2. saved' \subseteq StoredTunnel
      BY <2>5, StoredUnique DEF Base, TypeOK
    <3> QED BY <1>5, <2>3, <3>1, <3>2 DEF Save, SaveFails, Base, TypeOK
  <2> QED BY <1>1, <1>5, <2>4, <2>5, <2>6, BaseFrom DEF Save, SaveFails
<1>6. CASE w = Conf /\ (SendOpen \/ SendFailed)
  <2>1. Return(w)
    BY <1>6 DEF SendOpen, SendFailed
  <2>2. at' \in [Workers -> Errand(Len(tunnels))] /\ \A v \in Workers : Held(v)'
    BY <1>1, <2>1, Returning, HeldMoves
  <2>3. openTask' \in Seq(Ids) /\ Len(openTask') <= ChanSize /\ closeClient' \in 0..ChanSize
    <3>1. CASE SendOpen
      <4>1. at[w].id \in Ids
        BY <1>6, <3>1 DEF SendOpen, Busy, Places
      <4>2. openTask \in Seq(Ids) /\ Len(openTask) \in Nat /\ Len(openTask) < ChanSize
        BY <3>1, LenProperties DEF SendOpen, Room, Base, TypeOK
      <4> QED BY <1>6, <3>1, <4>1, <4>2, AppendProperties, Bounds DEF SendOpen, Base, TypeOK
    <3>2. CASE SendFailed
      BY <3>2, Bounds DEF SendFailed, Room, Base, TypeOK
    <3> QED BY <1>6, <3>1, <3>2
  <2>4. TypeOK'
    BY <1>6, <2>2, <2>3 DEF SendOpen, SendFailed, Base, TypeOK
  <2> QED BY <1>1, <1>6, <2>2, <2>4, BaseFrom DEF SendOpen, SendFailed
<1>7. CASE w = Conf /\ Probe
  <2>1. at[w].pc = "probe" /\ at[w].pc \in Busy /\ \E pc \in {"fail", "open"} : Go(w, pc)
    BY <1>7 DEF Probe, Busy, Places
  <2>2. at' \in [Workers -> Errand(Len(tunnels))] /\ \A v \in Workers : Held(v)'
    BY <1>1, <2>1, Going, HeldMoves DEF Busy, Places
  <2>3. TypeOK'
    BY <1>7, <2>2 DEF Probe, Base, TypeOK
  <2> QED BY <1>1, <1>7, <2>2, <2>3, BaseFrom DEF Probe
<1> QED BY <1>3, <1>4, <1>5, <1>6, <1>7

\* the steps that put a tunnel into the table, or take one out
LEMMA TableBase ==
  ASSUME Base, NEW w \in Workers, NewTask(w) \/ Stopped(w) \/ Delete(w)
  PROVE  Base'
<1> USE BusyFacts
<1>1. Steady /\ at \in [Workers -> Errand(Len(tunnels))] /\ Len(tunnels) \in Nat /\ UNCHANGED <<tunnels, saved>>
  BY SameTunnels DEF NewTask, Stopped, Delete, Base, TypeOK
<1>2. /\ at[w].pc \in {"new", "stopped", "delete"} /\ at[w].pc \in Busy /\ Held(w)
      /\ \E pc \in {"saveNew", "saveStop", "saveDel"} :
           /\ Go(w, pc) /\ (pc = "saveNew" => at[w].pc = "new") /\ (pc = "saveStop" => at[w].pc = "stopped")
  BY DEF NewTask, Stopped, Delete, Busy, Places, Base
<1>3. PICK t \in {0, at[w].t} : tasks' = [tasks EXCEPT ![at[w].id] = t]
  BY <1>2, Storing, Updated DEF NewTask, Stopped, Delete
<1>4. /\ at' \in [Workers -> Errand(Len(tunnels))] /\ Moves(w) /\ at'[w].t = at[w].t
      /\ at'[w].pc \in {"saveNew", "saveStop", "saveDel"}
      /\ (at'[w].pc = "saveNew" => at[w].pc = "new") /\ (at'[w].pc = "saveStop" => at[w].pc = "stopped")
  BY <1>1, <1>2, Going DEF Places
<1>5. \A v \in Workers : Held(v)'
  <2>1. (at'[w].pc = "saveNew" => at[w].op \in {"add", "register"}) /\ (at'[w].pc = "saveStop" => at[w].op # "add")
    BY <1>2, <1>4 DEF Held
  <2> QED BY <1>1, <1>2, <1>4, <2>1, HeldMoves
<1>6. t \in 0..Len(tunnels') /\ at[w].id \in Ids /\ (t # 0 => tunnels'[t].id = at[w].id)
  BY <1>1, <1>2, <1>3
<1>7. TypeOK'
  <2>1. tasks' \in [Ids -> 0..Len(tunnels)]
    BY <1>1, <1>3, <1>6 DEF Base, TypeOK
  <2>2. reused' \subseteq Ids /\ strays' \subseteq 1..Len(services) /\ spared' \subseteq 1..Len(tunnels)
    <3>1. CASE NewTask(w) \/ Stopped(w)
      BY <1>2, <3>1, Storing, Updated DEF NewTask, Stopped, Base, TypeOK
    <3>2. CASE Delete(w)
      <4> DEFINE S == IF at[w].op = "add" THEN {runList[at[w].id]} ELSE {}
      <4>1. Strand(S) /\ S \subseteq 0..Len(services)
        BY <1>6, <3>2 DEF Delete, Base, TypeOK
      <4>2. strays' \subseteq 1..Len(services)
        BY <4>1, Straying
      <4> QED BY <1>6, <3>2, <4>2, Reusing DEF Delete, Base, TypeOK
    <3> QED BY <3>1, <3>2
  <2>3. UNCHANGED <<lost, services, runList, openTask, closeClient, left, acked>>
    BY DEF NewTask, Stopped, Delete
  <2> QED BY <1>1, <1>4, <2>1, <2>2, <2>3, SMTT(60) DEF Base, TypeOK
<1> QED BY <1>1, <1>3, <1>5, <1>6, <1>7, BaseFrom

\* the steps that change a tunnel: its status, or its port
LEMMA ObjectBase ==
  ASSUME Base, NEW w \in Workers, Started(w) \/ Normalize(w) \/ Unrun(w) \/ (w = Panel /\ Edit)
  PROVE  Base'
<1> USE BusyFacts
<1>1. /\ at \in [Workers -> Errand(Len(tunnels))] /\ Len(tunnels) \in Nat /\ tunnels \in Seq(Tunnel)
      /\ UNCHANGED <<saved, lost, services, chans, left, acked>> /\ Held(w)
  BY SMTT(60) DEF Started, Normalize, Unrun, Edit, Base, TypeOK
<1>2. at[w].pc \in {"status", "test", "unrun", "edit"} /\ at[w].pc \in Busy
  BY DEF Started, Normalize, Unrun, Edit, Busy, Places
<1>3. CASE Started(w) \/ Normalize(w)
  <2> DEFINE t == at[w].t
             r == IF Started(w) THEN [tunnels[t] EXCEPT !.status = TRUE] ELSE [tunnels[t] EXCEPT !.mode = "socks5"]
  <2>0. t \in 1..Len(tunnels) /\ UpdateTask(t) /\ \E pc \in {"saveStart", "saveKey"} : Go(w, pc)
    BY <1>2, <1>3 DEF Started, Normalize
  <2>1. t \in 1..Len(tunnels) /\ r \in Tunnel /\ r.id = tunnels[t].id /\ r.noStore = tunnels[t].noStore
        /\ tunnels' = [tunnels EXCEPT ![t] = r]
    BY <1>2, <1>3, <2>0, ZenonT(60) DEF Started, Normalize, Tunnel, Modes
  <2> HIDE DEF r
  <2>2. Steady /\ tunnels' \in Seq(Tunnel) /\ Len(tunnels') = Len(tunnels) /\ tunnels'[t].id = at[w].id
    BY <1>1, <1>2, <2>1, Changing DEF Steady
  <2>3. /\ at' \in [Workers -> Errand(Len(tunnels))] /\ Moves(w) /\ at'[w].t = at[w].t
        /\ at'[w].pc \in {"saveStart", "saveKey"}
    BY <1>1, <2>0, Going DEF Places
  <2>4. \A v \in Workers : Held(v)'
    BY <1>2, <2>2, <2>3, HeldMoves, SMTT(60)
  <2>5. tasks' = [tasks EXCEPT ![at[w].id] = t] /\ at[w].id \in Ids /\ t \in 0..Len(tunnels')
    BY <1>1, <1>2, <2>0, <2>2, Storing, Updated
  <2>6. reused' \subseteq Ids /\ strays' \subseteq 1..Len(services) /\ spared' \subseteq 1..Len(tunnels)
    BY <2>0, Storing, Updated
  <2>7. TypeOK'
    <3>1. UNCHANGED runList
      BY <1>3 DEF Started, Normalize
    <3> QED BY <1>1, <2>2, <2>3, <2>5, <2>6, <3>1, SMTT(60) DEF Base, TypeOK
  <2> QED BY <1>1, <2>2, <2>4, <2>5, <2>7, BaseFrom
<1>4. CASE Unrun(w)
  <2> DEFINE t == tasks[at[w].id]
  <2>1. at[w].id \in Ids /\ t \in 0..Len(tunnels) /\ (t # 0 => tunnels[t].id = at[w].id) /\ at[w].op # "add"
        /\ UNCHANGED tasks /\ runList' = [runList EXCEPT ![at[w].id] = 0]
    BY <1>1, <1>2, <1>4, Bounds DEF Unrun, Base, TypeOK, IdOf, Held
  <2>2. runList' \in [Ids -> 0..Len(services)] /\ reused' \subseteq Ids /\ UNCHANGED <<strays, spared>>
    BY <1>4, <2>1, LenProperties, Reusing DEF Unrun, Base, TypeOK
  <2>3. CASE t = 0
    <3>1. AfterStop(w) /\ UNCHANGED tunnels
      BY <1>4, <2>3 DEF Unrun
    <3>2. Steady
      BY <1>1, <3>1, SameTunnels
    <3>3. \/ Return(w)
          \/ \E pc \in {"delete", "get"} : /\ Go(w, pc) /\ (pc = "delete" => at[w].op \in {"del", "reclaim"})
                                         /\ (pc = "get" => at[w].op = "edit")
      BY <3>1 DEF AfterStop
    <3>4. /\ at' \in [Workers -> Errand(Len(tunnels))] /\ Moves(w)
          /\ at'[w] = Idle \/ at'[w].pc = "next"
             \/ (at'[w].t = at[w].t /\ at'[w].pc \in {"delete", "get"}
                 /\ (at'[w].pc = "delete" => at[w].op \in {"del", "reclaim"})
                 /\ (at'[w].pc = "get" => at[w].op = "edit"))
      BY <1>1, <3>3, Returning, Going DEF Places
    <3>5. \A v \in Workers : Held(v)'
      BY <1>2, <3>2, <3>4, HeldMoves
    <3>6. TypeOK'
      BY <1>1, <2>1, <2>2, <3>1, <3>4 DEF Base, TypeOK
    <3> QED BY <1>1, <2>1, <3>2, <3>5, <3>6, BaseFrom
  <2>4. CASE t # 0
    <3>0. /\ tunnels' = [tunnels EXCEPT ![t].status = FALSE]
          /\ at' = [at EXCEPT ![w].t = t, ![w].pc = "stopped"] /\ "stopped" \in Places
      BY <1>4, <2>4 DEF Unrun, Places
    <3>1. t \in 1..Len(tunnels) /\ tunnels[t] \in Tunnel /\ t \in 0..Len(tunnels)
      BY <2>1, <2>4
    <3> HIDE DEF t
    <3>4. /\ at' \in [Workers -> Errand(Len(tunnels))]
          /\ at'[w].t = t /\ at'[w].id = at[w].id /\ at'[w].todo = at[w].todo
          /\ at'[w].pc = "stopped" /\ at'[w].op = at[w].op
          /\ \A v \in Workers \ {w} : at'[v] = at[v]
      <4> DEFINE e == [at[w] EXCEPT !.t = t, !.pc = "stopped"]
      <4>1. at[w] \in Errand(Len(tunnels)) /\ at' = [at EXCEPT ![w] = e]
        BY <1>1, <3>0
      <4>2. /\ e \in Errand(Len(tunnels)) /\ e.t = t /\ e.pc = "stopped" /\ e.op = at[w].op
            /\ e.id = at[w].id /\ e.todo = at[w].todo
        BY <3>0, <3>1, <4>1 DEF Errand
      <4> HIDE DEF e
      <4> QED BY <1>1, <4>1, <4>2, Taking
    <3> DEFINE r == [tunnels[t] EXCEPT !.status = FALSE]
    <3>2. r \in Tunnel /\ r.id = tunnels[t].id /\ r.noStore = tunnels[t].noStore
          /\ tunnels' = [tunnels EXCEPT ![t] = r]
      BY <3>0, <3>1 DEF Tunnel
    <3> HIDE DEF r
    <3>3. Steady /\ tunnels' \in Seq(Tunnel) /\ Len(tunnels') = Len(tunnels) /\ tunnels'[t].id = at[w].id
      BY <1>1, <2>1, <2>4, <3>1, <3>2, Changing DEF Steady
    <3>5. Held(w)'
      BY <1>1, <2>1, <2>4, <3>3, <3>4 DEF Held
    <3>6. TypeOK'
      BY <1>1, <2>1, <2>2, <3>3, <3>4 DEF Base, TypeOK
    <3> QED BY <1>1, <2>1, <3>3, <3>4, <3>5, <3>6, HeldFrom, BaseFrom
  <2> QED BY <2>3, <2>4
<1>5. CASE w = Panel /\ Edit
  <2> DEFINE t == at[w].t
  <2>1. PICK p \in Ports :
          /\ tunnels' = [tunnels EXCEPT ![t].port = p]
          /\ \/ Return(w) /\ UNCHANGED <<tasks, collisions>>
             \/ Go(w, "saveEdit") /\ UpdateTask(t)
    BY <1>5 DEF Edit
  <2> DEFINE r == [tunnels[t] EXCEPT !.port = p]
  <2>2. t \in 1..Len(tunnels) /\ r \in Tunnel /\ r.id = tunnels[t].id /\ r.noStore = tunnels[t].noStore
        /\ tunnels' = [tunnels EXCEPT ![t] = r]
    BY <1>2, <2>1 DEF Tunnel
  <2> HIDE DEF r
  <2>3. Steady /\ tunnels' \in Seq(Tunnel) /\ Len(tunnels') = Len(tunnels) /\ tunnels'[t].id = at[w].id
    BY <1>1, <1>2, <2>2, Changing DEF Steady
  <2>4. /\ at' \in [Workers -> Errand(Len(tunnels))] /\ Moves(w)
        /\ at'[w] = Idle \/ at'[w].pc = "next" \/ (at'[w].t = at[w].t /\ at'[w].pc = "saveEdit")
    BY <1>1, <2>1, Returning, Going DEF Places
  <2>5. \A v \in Workers : Held(v)'
    <3>1. at[w].op # "add"
      BY <1>1, <1>5 DEF Edit, Held
    <3> QED BY <1>2, <2>3, <2>4, <3>1, HeldMoves
  <2>6. at[w].id \in Ids /\ t \in 0..Len(tunnels')
        /\ (tasks' = tasks \/ tasks' = [tasks EXCEPT ![at[w].id] = t])
    BY <1>1, <1>2, <2>1, <2>2, <2>3, Storing, Updated
  <2>7. /\ reused' \subseteq Ids /\ strays' \subseteq 1..Len(services) /\ spared' \subseteq 1..Len(tunnels)
        /\ UNCHANGED runList
    BY <1>5, <2>1, <2>2, Storing, Updated DEF Edit, Base, TypeOK
  <2>8. TypeOK'
    BY <1>1, <2>3, <2>4, <2>6, <2>7 DEF Base, TypeOK
  <2> QED BY <1>1, <2>3, <2>5, <2>6, <2>8, BaseFrom
<1> QED BY <1>3, <1>4, <1>5, SMTT(60)

\* the steps that start, stop and run services
LEMMA ServiceBase ==
  ASSUME Base, NEW w \in Workers, Run(w) \/ Close(w)
  PROVE  Base'
<1> USE BusyFacts
<1>1. /\ Steady /\ at \in [Workers -> Errand(Len(tunnels))] /\ Len(tunnels) \in Nat /\ Held(w)
      /\ UNCHANGED <<tunnels, tasks, saved, lost, chans, left>> /\ at[w].pc \in {"run", "close"} /\ at[w].pc \in Busy
  BY SameTunnels DEF Run, Close, Base, TypeOK, Busy, Places
<1>2. services \in Seq(Service(Len(tunnels))) /\ Len(services) \in Nat /\ runList \in [Ids -> 0..Len(services)]
  BY LenProperties DEF Base, TypeOK
<1>3. CASE Run(w)
  <2> DEFINE t == at[w].t
  <2>1. t \in 1..Len(tunnels) /\ tunnels[t].id \in Ids /\ tunnels[t].port \in Ports
    BY <1>1 DEF Tunnel
  <2>2. CASE tunnels[t].mode = "tcp"
    <3>1. UNCHANGED <<services, runList, acked, collisions>> /\ AddTaskFails(w)
      BY <1>3, <2>2 DEF Run
    <3>2. Return(w) \/ (Go(w, "delete") /\ at[w].op = "add")
      BY <3>1 DEF AddTaskFails
    <3>3. at' \in [Workers -> Errand(Len(tunnels))] /\ \A v \in Workers : Held(v)'
      BY <1>1, <3>2, Returning, Going, HeldMoves DEF Busy, Places
    <3>4. TypeOK'
      BY <1>1, <3>1, <3>3 DEF Base, TypeOK
    <3> QED BY <1>1, <3>3, <3>4, BaseFrom
  <2>3. CASE tunnels[t].mode # "tcp"
    <3> DEFINE s == [t |-> t, port |-> tunnels[t].port, listener |-> "new"]
               i == tunnels[t].id
    <3>1. /\ services' = Append(services, s) /\ runList' = [runList EXCEPT ![i] = Len(services) + 1]
          /\ acked' = acked \/ acked' = acked \cup {i}
          /\ Strand({runList[i]} \cup IF tasks[i] # t \/ BeingStopped(w, i) THEN {Len(services) + 1} ELSE {})
          /\ UNCHANGED <<reused, spared>>
          /\ Return(w) \/ Go(w, "status")
      BY <1>3, <2>3, ZenonT(60) DEF Run
    <3>2. s \in Service(Len(tunnels)) /\ i \in Ids
      BY <2>1 DEF Service
    <3> HIDE DEF s, i, t
    <3>3. services' \in Seq(Service(Len(tunnels))) /\ Len(services') = Len(services) + 1
      BY <1>2, <3>1, <3>2, AppendProperties
    <3>4. runList' \in [Ids -> 0..Len(services')]
      BY <1>2, <3>1, <3>2, <3>3
    <3>5. at' \in [Workers -> Errand(Len(tunnels))] /\ \A v \in Workers : Held(v)'
      BY <1>1, <3>1, Returning, Going, HeldMoves DEF Busy, Places
    <3>6. TypeOK'
      <4>1. runList[i] \in 0..Len(services') /\ Len(services) + 1 \in 0..Len(services') /\ strays \subseteq 1..Len(services')
        BY ONLY <1>2, <3>2, <3>3, Base DEF Base, TypeOK
      <4>2. \E S : S \subseteq 0..Len(services') /\ strays' = strays \cup (S \ {0})
        BY ONLY <3>1, <4>1, ZenonT(60) DEF Strand
      <4>3. strays' \subseteq 1..Len(services')
        BY ONLY <1>2, <3>3, <4>1, <4>2
      <4> QED BY <1>1, <3>1, <3>2, <3>3, <3>4, <3>5, <4>3, SMTT(60) DEF Base, TypeOK
    <3> QED BY <1>1, <3>5, <3>6, BaseFrom
  <2> QED BY <2>2, <2>3
<1>4. CASE Close(w)
  <2> DEFINE s == runList[at[w].id]
  <2>1. /\ UNCHANGED <<runList, acked, reused>>
        /\ \/ s = 0 /\ Return(w) /\ UNCHANGED <<services, strays>>
           \/ /\ s # 0 /\ Go(w, "unrun") /\ Strand(IF services[s].listener = "new" THEN {s} ELSE {})
              /\ services' = [services EXCEPT ![s].listener = IF @ = "open" THEN "closed" ELSE @]
    BY <1>4, SMTT(60) DEF Close
  <2>0. spared' \subseteq 1..Len(tunnels) /\ strays' \subseteq 1..Len(services)
    <3>1. spared' \in {spared, spared \cup {at[w].t}}
      BY <1>4, ZenonT(60) DEF Close
    <3>2. s \in 0..Len(services) /\ spared \subseteq 1..Len(tunnels) /\ strays \subseteq 1..Len(services)
      BY <1>1, <1>2, SMTT(60) DEF Base, TypeOK
    <3>3. spared' \subseteq 1..Len(tunnels)
      BY <1>1, <3>1, <3>2
    <3> QED BY <1>2, <2>1, <3>2, <3>3 DEF Strand
  <2>2. at[w].pc = "close"
    BY <1>4 DEF Close
  <2>3. CASE s = 0
    <3>1. at' \in [Workers -> Errand(Len(tunnels))] /\ \A v \in Workers : Held(v)'
      BY <1>1, <2>1, <2>3, Returning, HeldMoves
    <3>2. TypeOK'
      BY <1>1, <2>0, <2>1, <2>3, <3>1 DEF Base, TypeOK
    <3> QED BY <1>1, <3>1, <3>2, BaseFrom
  <2>4. CASE s # 0
    <3> DEFINE r == [services[s] EXCEPT !.listener = IF @ = "open" THEN "closed" ELSE @]
    <3>1. s \in 1..Len(services) /\ services[s] \in Service(Len(tunnels))
      BY <1>1, <1>2, <2>4, ElementOfSeq, SMTT(60)
    <3>2. r \in Service(Len(tunnels)) /\ services' = [services EXCEPT ![s] = r]
      BY <2>1, <2>4, <3>1, SMTT(60) DEF Service
    <3> HIDE DEF r
    <3>3. services' \in Seq(Service(Len(tunnels))) /\ Len(services') = Len(services)
      BY <1>2, <3>1, <3>2, ExceptSeq
    <3>4. at' \in [Workers -> Errand(Len(tunnels))] /\ Moves(w) /\ at'[w].t = at[w].t /\ at'[w].pc = "unrun"
      BY <1>1, <2>1, <2>4, Going, ZenonT(60) DEF Places
    <3>5. at[w].op # "add"
      BY <1>1, <2>2 DEF Held
    <3>6. \A v \in Workers : Held(v)'
      BY <1>1, <3>4, <3>5, HeldMoves
    <3>7. TypeOK'
      BY <1>1, <1>2, <2>0, <2>1, <3>3, <3>4 DEF Base, TypeOK
    <3> QED BY <1>1, <3>6, <3>7, BaseFrom
  <2> QED BY <2>3, <2>4
<1> QED BY <1>3, <1>4, SMTT(60)

LEMMA ListenBase ==
  ASSUME Base, NEW s \in DOMAIN services, Listen(s)
  PROVE  Base'
<1> DEFINE t == services[s].t
<1>1. /\ Steady /\ Len(tunnels) \in Nat /\ tunnels \in Seq(Tunnel)
      /\ UNCHANGED <<tunnels, tasks, saved, lost, chans, left, acked, at>>
      /\ services \in Seq(Service(Len(tunnels))) /\ runList \in [Ids -> 0..Len(services)]
      /\ UNCHANGED <<reused, spared>>
  BY SameTunnels, LenProperties DEF Listen, Base, TypeOK
<1>2. s \in 1..Len(services) /\ services[s] \in Service(Len(tunnels)) /\ Len(services) \in Nat
  BY <1>1, LenProperties, ElementOfSeq
<1>3. t \in 1..Len(tunnels) /\ tunnels[t] \in Tunnel
  BY <1>1, <1>2, ElementOfSeq DEF Service
<1>4. /\ \E p \in Ports, l \in {"open", "failed"} :
           services' = [services EXCEPT ![s] = [services[s] EXCEPT !.listener = l, !.port = p]]
      /\ runList' = runList \/ runList' = [runList EXCEPT ![tunnels[t].id] = 0]
      /\ strays' \subseteq 1..Len(services)
  <2>1. services[s].port \in Ports /\ tunnels[t].port \in Ports
    BY <1>2, <1>3 DEF Service, Tunnel
  <2>2. services[s] = [services[s] EXCEPT !.port = services[s].port]
    BY <1>2 DEF Service
  <2>3. runList' = runList \/ runList' = [runList EXCEPT ![tunnels[t].id] = 0]
    BY DEF Listen
  <2>4. strays' \subseteq 1..Len(services)
    <3>1. strays' = strays \/ Strand({}) \/ Strand({runList[tunnels[t].id]} \ {s})
      BY ZenonT(60) DEF Listen
    <3>2. tunnels[t].id \in Ids /\ strays \subseteq 1..Len(services)
      BY <1>3 DEF Tunnel, Base, TypeOK
    <3> QED BY <1>1, <1>2, <3>1, <3>2, Straying
  <2>5. \E p \in Ports, l \in {"open", "failed"} :
           services' = [services EXCEPT ![s] = [services[s] EXCEPT !.listener = l, !.port = p]]
    <3>1. CASE \E p \in Ports : services' = [services EXCEPT ![s].listener = "open", ![s].port = p]
      BY <3>1
    <3>2. CASE services' = [services EXCEPT ![s].listener = "failed"]
      BY <1>2, <2>1, <3>2 DEF Service
    <3> QED BY <2>1, <3>1, <3>2, ZenonT(60) DEF Listen
  <2> QED BY <2>3, <2>4, <2>5
<1>5. services' \in Seq(Service(Len(tunnels))) /\ Len(services') = Len(services)
  <2>1. PICK p \in Ports, l \in {"open", "failed"} :
           services' = [services EXCEPT ![s] = [services[s] EXCEPT !.listener = l, !.port = p]]
    BY <1>4
  <2>2. [services[s] EXCEPT !.listener = l, !.port = p] \in Service(Len(tunnels))
    BY <1>2 DEF Service
  <2> QED BY <1>1, <1>2, <2>1, <2>2, ExceptSeq
<1>6. TypeOK'
  <2>1. runList' \in [Ids -> 0..Len(services)]
    BY <1>1, <1>2, <1>4
  <2> QED BY <1>1, <1>4, <1>5, <2>1 DEF Base, TypeOK
<1>7. \A v \in Workers : Held(v)'
  BY <1>1, HeldStays
<1> QED BY <1>1, <1>6, <1>7, BaseFrom

\* a new tunnel
LEMMA Making ==
  ASSUME Base, NEW w \in {Panel, Conf}, NEW op \in {"add", "register"}, op = "add" => w = Panel,
         NEW p \in Ports, NEW m \in Modes, Make(w, op, p, m), UNCHANGED <<tasks, file, running, chans, history>>,
         left' \in Work
  PROVE  Base'
<1> DEFINE n == Len(tunnels)
           r == NewTunnel(NextId, p, m, op = "register")
<1>1. /\ n \in Nat /\ tunnels \in Seq(Tunnel) /\ tasks \in [Ids -> 0..n] /\ w \in Workers
      /\ at \in [Workers -> Errand(n)] /\ services \in Seq(Service(n))
  BY LenProperties DEF Base, TypeOK, Workers
<1>2. NextId \in Ids
  BY NextIdFree DEF Make
<1>3. r \in Tunnel /\ r.id = NextId
  BY <1>2 DEF NewTunnel, Tunnel
<1>4. tunnels' = Append(tunnels, r)
  BY DEF Make
<1> HIDE DEF r
<1>5. /\ tunnels' \in Seq(Tunnel) /\ Len(tunnels') = n + 1 /\ tunnels'[n + 1] = r
      /\ \A u \in 1..n : tunnels'[u] = tunnels[u]
  BY <1>1, <1>3, <1>4, AppendProperties
<1>6. Steady
  BY <1>1, <1>5 DEF Steady
<1>7. /\ at' \in [Workers -> Errand(n + 1)]
      /\ at'[w] = [op |-> op, pc |-> "new", id |-> NextId, t |-> n + 1, todo |-> {}]
      /\ \A v \in Workers \ {w} : at'[v] = at[v]
  <2> DEFINE e == [op |-> op, pc |-> "new", id |-> NextId, t |-> n + 1, todo |-> {}]
  <2>1. e \in Errand(n + 1)
    BY <1>1, <1>2, Bounds DEF Errand, Operations, Places
  <2>2. at' = [at EXCEPT ![w] = e]
    BY DEF Make
  <2> HIDE DEF e
  <2>3. at \in [Workers -> Errand(n + 1)]
    <3>1. n + 1 \in Nat /\ n <= n + 1
      BY <1>1
    <3> QED BY ONLY <1>1, <3>1, Longer
  <2> QED BY <1>1, <2>1, <2>2, <2>3, Taking DEF e
<1>8. Held(w)'
  BY <1>1, <1>3, <1>5, <1>7 DEF Held, Busy
<1>9. \A v \in Workers : Held(v)'
  BY <1>1, <1>6, <1>7, <1>8, HeldFrom
<1>10. services \in Seq(Service(n + 1))
  <2>1. \A x \in Service(n) : x \in Service(n + 1)
    BY <1>1 DEF Service
  <2> QED BY <1>1, <2>1 DEF Seq
<1>11. TypeOK'
  BY <1>1, <1>5, <1>7, <1>10 DEF Base, TypeOK
<1> QED BY <1>6, <1>9, <1>11, BaseFrom

LEMMA SourcesBase ==
  ASSUME Base, PanelAdd \/ ConfRegister \/ ClientLost \/ PanelDelClient \/ LoopOpen \/ LoopClose
               \/ \E op \in {"start", "stop", "del", "edit"} : PanelRequest(op)
  PROVE  Base'
<1> USE DEF Workers
<1>1. /\ Len(tunnels) \in Nat /\ tunnels \in Seq(Tunnel) /\ tasks \in [Ids -> 0..Len(tunnels)]
      /\ at \in [Workers -> Errand(Len(tunnels))] /\ left \in Work
      /\ openTask \in Seq(Ids) /\ Len(openTask) <= ChanSize /\ closeClient \in 0..ChanSize
  BY LenProperties DEF Base, TypeOK
<1>2. InTable \in SUBSET (1..Len(tunnels)) /\ Temporaries \in SUBSET (1..Len(tunnels))
  BY <1>1 DEF InTable, Temporaries
<1>3. CASE PanelAdd
  <2>1. left' \in Work
    BY <1>1, <1>3, Spending DEF PanelAdd
  <2>2. PICK p \in Ports, m \in Modes : Make(Panel, "add", p, m)
    BY <1>3 DEF PanelAdd, Modes
  <2>3. UNCHANGED <<tasks, file, running, chans, history>>
    BY <1>3 DEF PanelAdd
  <2> QED BY <2>1, <2>2, <2>3, Making
<1>4. CASE ConfRegister
  <2>1. left' \in Work
    BY <1>1, <1>4, Spending DEF ConfRegister
  <2>2. PICK p \in Ports, m \in Modes : Make(Conf, "register", p, m)
    BY <1>4 DEF ConfRegister
  <2>3. UNCHANGED <<tasks, file, running, chans, history>>
    BY <1>4 DEF ConfRegister
  <2> QED BY <2>1, <2>2, <2>3, Making
<1>5. CASE ClientLost
  <2>1. left' \in Work /\ UNCHANGED <<table, file, running, openTask, at, history>>
    BY <1>1, <1>5, Spending DEF ClientLost
  <2>2. closeClient' \in 0..ChanSize
    BY <1>1, <1>5, Bounds DEF ClientLost, Room
  <2>3. TypeOK'
    BY <2>1, <2>2 DEF Base, TypeOK
  <2>4. Steady /\ \A v \in Workers : Held(v)'
    BY <1>1, <2>1, SameTunnels, HeldStays
  <2> QED BY <2>1, <2>3, <2>4, BaseFrom
\* those that give a goroutine an errand
<1>6. ASSUME NEW w \in Workers, NEW e \in Errand(Len(tunnels)), at' = [at EXCEPT ![w] = e],
             UNCHANGED <<table, file, running>>, left' \in Work, acked' \subseteq Ids, UNCHANGED collisions,
             openTask' \in Seq(Ids), Len(openTask') <= ChanSize, closeClient' \in 0..ChanSize,
             /\ e.pc \in {"next", "get"} \/ (e.t # 0 /\ e.id = tunnels[e.t].id)
             /\ e.pc = "get" => e.id # 0 /\ e.op = "start"
             /\ e.op \notin {"boot", "del", "reclaim"} => e.todo = {}
             /\ e.todo \subseteq 1..Len(tunnels)
             /\ e.op # "add" /\ (e.op = "del" => w = Panel)
             /\ e.pc \notin {"new", "saveNew"} /\ (e.pc = "delete" => e.op \in {"add", "del", "reclaim"})
      PROVE  Base'
  <2>1. at' \in [Workers -> Errand(Len(tunnels))] /\ at'[w] = e /\ \A v \in Workers \ {w} : at'[v] = at[v]
    BY <1>1, <1>6
  <2>2. Held(w)'
    BY <1>6, <2>1 DEF Held, Busy
  <2>3. Steady /\ \A v \in Workers : Held(v)'
    BY <1>1, <1>6, <2>1, <2>2, SameTunnels, HeldFrom
  <2>4. TypeOK'
    BY <1>6, <2>1 DEF Base, TypeOK
  <2> QED BY <1>6, <2>3, <2>4, BaseFrom
<1>7. Idle \in Errand(Len(tunnels)) /\ acked \subseteq Ids
  BY <1>1, Bounds DEF Idle, Errand, Operations, Places, Base, TypeOK
<1>8. CASE PanelDelClient
  <2> DEFINE e == [Idle EXCEPT !.op = "del", !.pc = "next", !.todo = InTable]
  <2>1. e \in Errand(Len(tunnels)) /\ e.op = "del" /\ e.pc = "next" /\ e.todo \subseteq 1..Len(tunnels)
    <3>1. InTable \in SUBSET Nat
      BY <1>1, <1>2
    <3>2. e \in Errand(Len(tunnels)) /\ e.op = "del" /\ e.pc = "next" /\ e.todo = InTable
      BY ONLY <1>7, <3>1 DEF Errand, Operations, Places
    <3> QED BY ONLY <1>2, <3>2
  <2>2. at' = [at EXCEPT ![Panel] = e] /\ acked' = {} /\ UNCHANGED <<table, file, running, chans, collisions>>
    BY <1>8 DEF PanelDelClient
  <2>3. left' \in Work
    BY <1>1, <1>8, Spending DEF PanelDelClient
  <2> HIDE DEF e
  <2> QED BY <1>1, <1>6, <2>1, <2>2, <2>3
<1>9. CASE LoopOpen
  <2> DEFINE e == [Idle EXCEPT !.op = "start", !.pc = "get", !.id = Head(openTask)]
  <2>1. Head(openTask) \in Ids /\ openTask' = Tail(openTask) /\ openTask # <<>>
    BY <1>1, <1>9, HeadTailProperties DEF LoopOpen
  <2>2. openTask' \in Seq(Ids) /\ Len(openTask') <= ChanSize
    BY <1>1, <2>1, HeadTailProperties, LenProperties, Bounds
  <2>3. e \in Errand(Len(tunnels)) /\ e.op = "start" /\ e.pc = "get" /\ e.id # 0 /\ e.todo = {}
    <3>1. Idle.todo = {} /\ Head(openTask) # 0 /\ Head(openTask) \in 0..MaxTunnels
      BY <2>1, Bounds DEF Idle
    <3> QED BY <1>7, <3>1 DEF Errand, Operations, Places
  <2>4. at' = [at EXCEPT ![Loop] = e] /\ UNCHANGED <<table, file, running, closeClient, left, history>>
    BY <1>9 DEF LoopOpen
  <2> HIDE DEF e
  <2> QED BY <1>1, <1>6, <1>7, <2>2, <2>3, <2>4
<1>10. CASE LoopClose
  <2> DEFINE e == [Idle EXCEPT !.op = "reclaim", !.pc = "next", !.todo = Temporaries]
  <2>1. e \in Errand(Len(tunnels)) /\ e.op = "reclaim" /\ e.pc = "next" /\ e.todo \subseteq 1..Len(tunnels)
    <3>1. Temporaries \in SUBSET Nat
      BY <1>1, <1>2
    <3>2. e \in Errand(Len(tunnels)) /\ e.op = "reclaim" /\ e.pc = "next" /\ e.todo = Temporaries
      BY ONLY <1>7, <3>1 DEF Errand, Operations, Places
    <3> QED BY ONLY <1>2, <3>2
  <2>2. at' = [at EXCEPT ![Loop] = e] /\ UNCHANGED <<table, file, running, openTask, left, history>>
    BY <1>10 DEF LoopClose, Reclaimed
  <2>3. closeClient' \in 0..ChanSize
    BY <1>1, <1>10, Bounds, SMTT(60) DEF LoopClose
  <2> HIDE DEF e
  <2> QED BY <1>1, <1>6, <1>7, <2>1, <2>2, <2>3
<1>11. CASE \E op \in {"start", "stop", "del", "edit"} : PanelRequest(op)
  <2>1. PICK op \in {"start", "stop", "del", "edit"} : PanelRequest(op)
    BY <1>11
  <2>2. PICK t \in InTable :
          /\ at' = [at EXCEPT ![Panel] = [op |-> op, pc |-> FirstPlace(op, tunnels[t].id), id |-> tunnels[t].id,
                                         t |-> t, todo |-> {}]]
          /\ acked' = IF op = "del" THEN acked \ {tunnels[t].id} ELSE acked
    BY <2>1 DEF PanelRequest
  <2> DEFINE e == [op |-> op, pc |-> FirstPlace(op, tunnels[t].id), id |-> tunnels[t].id, t |-> t, todo |-> {}]
  <2>3. t \in 1..Len(tunnels) /\ tunnels[t].id \in 0..MaxTunnels
    <3>1. t \in 1..Len(tunnels)
      BY <1>2
    <3>2. tunnels[t] \in Tunnel
      BY <1>1, <3>1, ElementOfSeq
    <3>3. tunnels[t].id \in Ids
      BY <3>2 DEF Tunnel
    <3> QED BY <3>1, <3>3, Bounds
  <2>4. FirstPlace(op, tunnels[t].id) \in {"test", "close", "delete", "edit"}
        /\ (FirstPlace(op, tunnels[t].id) = "delete" => op = "del")
    BY DEF FirstPlace, DelTask
  <2>5. e \in Errand(Len(tunnels))
    BY <1>1, <2>3, <2>4, SMTT(60) DEF Errand, Operations, Places
  <2>6. left' \in Work /\ UNCHANGED <<table, file, running, chans, collisions>>
    BY <1>1, <2>1, Spending DEF PanelRequest
  <2>7. /\ e.op # "add" /\ e.todo = {} /\ e.t # 0 /\ e.id = tunnels[e.t].id
        /\ e.pc \in {"test", "close", "delete", "edit"} /\ (e.pc = "delete" => e.op = "del")
    BY <1>1, <2>3, <2>4
  <2>8. at' = [at EXCEPT ![Panel] = e] /\ acked' \subseteq Ids
    BY <1>7, <2>2
  <2> HIDE DEF e
  <2> QED BY <1>1, <1>6, <2>5, <2>6, <2>7, <2>8
<1> QED BY <1>3, <1>4, <1>5, <1>8, <1>9, <1>10, <1>11

LEMMA CrashBase == ASSUME Base, Crash PROVE Base'
<1>1. /\ tunnels' = Load(saved) /\ tasks' = LoadedTasks(tunnels') /\ at' = InitFromCsv(tunnels')
      /\ services' = <<>> /\ runList' = NotRunning /\ openTask' = <<>> /\ closeClient' = 0
      /\ lost' = FALSE /\ strays' = {} /\ spared' = {} /\ UNCHANGED <<saved, acked, reused>>
  BY DEF Crash
<1>2. /\ tunnels' \in Seq(Tunnel) /\ tasks' \in [Ids -> 0..Len(tunnels')]
      /\ \A i \in Ids : tasks'[i] # 0 => tunnels'[tasks'[i]].id = i
  BY <1>1, Loading DEF Base, TypeOK
<1>3. at' \in [Workers -> Errand(Len(tunnels'))]
      /\ \A w \in Workers : at'[w] = Idle \/ (at'[w].op = "boot" /\ at'[w].pc = "next")
  BY <1>1, <1>2, Booting
<1>4. \A w \in Workers : Held(w)'
  BY <1>3 DEF Held, Busy, Idle
<1>5. left' \in Work
  BY Spending DEF Crash, Base, TypeOK
<1>6. runList' \in [Ids -> 0..Len(services')] /\ services' \in Seq(Service(Len(tunnels')))
      /\ openTask' \in Seq(Ids) /\ Len(openTask') <= ChanSize /\ closeClient' \in 0..ChanSize
  <2>1. Len(<<>>) = 0 /\ \A S : <<>> \in Seq(S)
    BY EmptySeq
  <2> QED BY <1>1, <2>1, Bounds DEF NotRunning
<1>7. TypeOK'
  BY <1>1, <1>2, <1>3, <1>5, <1>6 DEF Base, TypeOK
<1> QED BY <1>1, <1>2, <1>4, <1>7 DEF Base, IdOf, UniqueSaved

LEMMA InitBase == ASSUME Init PROVE Base
<1> DEFINE r == NewTunnel(1, CHOOSE p \in Ports : TRUE, "rawKey", FALSE)
<1>1. r \in StoredTunnel
  <2>1. 1 \in Ids /\ (CHOOSE p \in Ports : TRUE) \in Ports
    BY Bounds, ServerAssumption
  <2> QED BY <2>1 DEF NewTunnel, StoredTunnel, Modes
<1> HIDE DEF r
<1>2. saved \subseteq StoredTunnel /\ UniqueSaved
  <2>1. saved = {} \/ saved = {r}
    BY DEF Init, r
  <2> QED BY <1>1, <2>1, FS_EmptySet, FS_Singleton DEF UniqueSaved
<1>3. /\ tunnels = Load(saved) /\ tasks = LoadedTasks(tunnels) /\ at = InitFromCsv(tunnels)
      /\ services = <<>> /\ runList = NotRunning /\ openTask = <<>> /\ closeClient = 0
      /\ lost = FALSE /\ reused = {} /\ strays = {} /\ spared = {} /\ acked = {x.id : x \in saved}
  BY DEF Init
<1>4. tunnels \in Seq(Tunnel) /\ tasks \in [Ids -> 0..Len(tunnels)] /\ IdOf
  BY <1>2, <1>3, Loading DEF IdOf
<1>5. at \in [Workers -> Errand(Len(tunnels))]
      /\ \A w \in Workers : at[w] = Idle \/ (at[w].op = "boot" /\ at[w].pc = "next")
  BY <1>3, <1>4, Booting
<1>6. \A w \in Workers : Held(w)
  BY <1>5 DEF Held, Busy, Idle
<1>7. left \in Work
  BY Bounds DEF Init, Work
<1>8. runList \in [Ids -> 0..Len(services)] /\ services \in Seq(Service(Len(tunnels)))
      /\ openTask \in Seq(Ids) /\ Len(openTask) <= ChanSize /\ closeClient \in 0..ChanSize
  <2>1. Len(<<>>) = 0 /\ \A S : <<>> \in Seq(S)
    BY EmptySeq
  <2> QED BY <1>3, <2>1, Bounds DEF NotRunning
<1>9. acked \subseteq Ids
  BY <1>2, <1>3 DEF StoredTunnel
<1> QED BY <1>2, <1>3, <1>4, <1>5, <1>6, <1>7, <1>8, <1>9 DEF Base, TypeOK

LEMMA StepBase == ASSUME Base, [Next]_vars PROVE Base'
<1> USE DEF Workers
<1>1. CASE UNCHANGED vars
  <2>1. UNCHANGED <<tunnels, tasks, saved, lost, services, runList, openTask, closeClient, at, left, acked, collisions>>
    BY <1>1 DEF vars
  <2>2. TypeOK' /\ IdOf' /\ UniqueSaved' /\ \A w \in Workers : Held(w)'
    BY <2>1 DEF Base, TypeOK, IdOf, UniqueSaved, Held, InTable
  <2> QED BY <2>2 DEF Base
<1>2. CASE \E w \in Workers : WorkerStep(w) \/ SaveFails(w)
  BY <1>2, Next1Base, MovingBase, TableBase, ObjectBase, ServiceBase DEF WorkerStep
<1>3. CASE Edit \/ Probe \/ SendOpen \/ SendFailed
  BY <1>3, MovingBase, ObjectBase
<1>4. CASE \E s \in DOMAIN services : Listen(s)
  BY <1>4, ListenBase
<1>5. CASE Crash
  BY <1>5, CrashBase
<1> QED BY <1>1, <1>2, <1>3, <1>4, <1>5, SourcesBase DEF Next, GoesOn, PanelNext

LEMMA BaseHolds == Spec => []Base
BY InitBase, StepBase, PTL DEF Spec

\* In every state the variables have their types: the table and the list lead to
\* tunnels and services that were made, and no goroutine holds one that was not.
THEOREM ServerTyped == Spec => []TypeOK
<1>1. Base => TypeOK
  BY DEF Base
<1> QED BY <1>1, BaseHolds, PTL

-----------------------------------------------------------------------------
(* The file.                                                                 *)

Others(w) == \A v \in Workers \ {w} : at'[v] = at[v]

LEMMA OneMoves ==
  ASSUME Base, NEW w \in Workers,
         WorkerStep(w) \/ SaveFails(w) \/ (w = Panel /\ Edit) \/ (w = Conf /\ (Probe \/ SendOpen \/ SendFailed))
  PROVE  Others(w)
<1>1. at \in [Workers -> Errand(Len(tunnels))]
  BY DEF Base, TypeOK
<1>2. ASSUME \E e : at' = [at EXCEPT ![w] = e] PROVE Others(w)
  BY <1>1, <1>2 DEF Others
<1>3. (\E pc \in Places : Go(w, pc)) \/ Return(w) => Others(w)
  BY <1>1 DEF Go, Return, Others
<1>4. AfterStop(w) => Others(w)
  BY <1>3 DEF AfterStop, Places
<1>5. AfterSave(w) => Others(w)
  BY <1>3, <1>4 DEF AfterSave, Places
<1>6. AfterFailedSave(w) => Others(w)
  BY <1>3, <1>5 DEF AfterFailedSave, Places
<1>7. AddTaskFails(w) => Others(w)
  BY <1>3, SMTT(60) DEF AddTaskFails, Places
<1>8. Next1(w) => Others(w)
  BY <1>1, ZenonT(60) DEF Next1, Others
<1>9. Test(w) \/ Run(w) => Others(w)
  BY <1>3, <1>7 DEF Test, Run, Places
<1>10. GetTask(w) => Others(w)
  BY <1>1, <1>3 DEF GetTask, Others
<1>11. Unrun(w) => Others(w)
  BY <1>1, <1>4, SMTT(60) DEF Unrun, Others
<1>12. NewTask(w) \/ Normalize(w) \/ Started(w) \/ Stopped(w) \/ Delete(w) \/ Close(w) => Others(w)
  BY <1>3 DEF NewTask, Normalize, Started, Stopped, Delete, Close, Places
<1>13. Save(w) \/ SaveFails(w) => Others(w)
  BY <1>5, <1>6 DEF Save, SaveFails
<1>14. (w = Panel /\ Edit) \/ (w = Conf /\ (Probe \/ SendOpen \/ SendFailed)) => Others(w)
  BY <1>3 DEF Edit, Probe, SendOpen, SendFailed, Places
<1> QED BY <1>8, <1>9, <1>10, <1>11, <1>12, <1>13, <1>14 DEF WorkerStep

\* what the file is compared by
Summary(S) == {<<r.id, r.status>> : r \in S}

LEMMA FileWaits ==
  ASSUME FileUpToDate, NEW w \in Workers, Others(w), lost' = lost, saved' = saved,
         \/ Unsaved(w)'
         \/ ~Unsaved(w) /\ Summary(Stored)' = Summary(Stored)
  PROVE  FileUpToDate'
<1>1. \A v \in Workers \ {w} : Unsaved(v)' = Unsaved(v)
  BY DEF Others, Unsaved, Saving
<1> QED BY <1>1 DEF FileUpToDate, Summary

LEMMA SameStored == ASSUME UNCHANGED table PROVE Summary(Stored)' = Summary(Stored)
BY DEF Stored, InTable, Summary

\* the steps that change what is to be saved
LEMMA ChangesAreSaved ==
  ASSUME Base, FileUpToDate, NEW w \in Workers,
         NewTask(w) \/ Normalize(w) \/ Started(w) \/ Unrun(w) \/ Stopped(w) \/ Delete(w) \/ (w = Panel /\ Edit)
  PROVE  FileUpToDate'
<1>1. /\ Others(w) /\ UNCHANGED <<lost, saved>>
      /\ at \in [Workers -> Errand(Len(tunnels))] /\ tunnels \in Seq(Tunnel) /\ Len(tunnels) \in Nat
      /\ tasks \in [Ids -> 0..Len(tunnels)]
  BY OneMoves, LenProperties, ZenonT(60) DEF WorkerStep, NewTask, Normalize, Started, Unrun, Stopped, Delete, Edit, Base, TypeOK
<1>2. CASE \E pc \in {"saveNew", "saveKey", "saveStart", "saveStop", "saveDel", "saveEdit"} : Go(w, pc)
  <2>1. at'[w].pc \in {"saveNew", "saveKey", "saveStart", "saveStop", "saveDel", "saveEdit"}
    BY <1>1, <1>2, Going DEF Places
  <2> QED BY <1>1, <2>1, FileWaits DEF Unsaved, Saving
<1>3. CASE Unrun(w)
  <2>1. at[w].pc = "unrun"
    BY <1>3 DEF Unrun
  <2>2. CASE tasks[at[w].id] = 0
    <3>1. UNCHANGED table
      BY <1>3, <2>2 DEF Unrun
    <3> QED BY <1>1, <2>1, <3>1, SameStored, FileWaits DEF Unsaved, Saving
  <2>3. CASE tasks[at[w].id] # 0
    <3>1. at' = [at EXCEPT ![w].t = tasks[at[w].id], ![w].pc = "stopped"]
      BY <1>3, <2>3 DEF Unrun
    <3>2. at'[w].pc = "stopped"
      BY <1>1, <3>1 DEF Errand
    <3> QED BY <1>1, <3>2, FileWaits DEF Unsaved
  <2> QED BY <2>2, <2>3
<1>4. CASE w = Panel /\ Edit /\ Return(w) /\ UNCHANGED tasks
  <2> DEFINE t == at[w].t
  <2>1. at[w].pc = "edit" /\ t \in 1..Len(tunnels) /\ tunnels[t] \in Tunnel
    BY <1>4, BusyFacts DEF Edit, Busy, Places
  <2>2. PICK p \in Ports : tunnels' = [tunnels EXCEPT ![t].port = p]
    BY <1>4 DEF Edit
  <2> DEFINE r == [tunnels[t] EXCEPT !.port = p]
  <2>3. r \in Tunnel /\ r.id = tunnels[t].id /\ r.noStore = tunnels[t].noStore /\ r.status = tunnels[t].status
        /\ tunnels' = [tunnels EXCEPT ![t] = r]
    BY <2>1, <2>2 DEF Tunnel
  <2> HIDE DEF r
  <2>4. \A u \in 1..Len(tunnels) : /\ tunnels'[u].id = tunnels[u].id
                                   /\ tunnels'[u].noStore = tunnels[u].noStore
                                   /\ tunnels'[u].status = tunnels[u].status
    BY <1>1, <2>1, <2>3, Changing
  <2>5. InTable' = InTable /\ InTable \subseteq 1..Len(tunnels)
    BY <1>1, <1>4 DEF InTable
  <2>6. Summary(Stored)' = Summary(Stored)
    <3>1. Summary(Stored) = {<<tunnels[u].id, tunnels[u].status>> : u \in {x \in InTable : ~tunnels[x].noStore}}
      BY DEF Summary, Stored
    <3>2. Summary(Stored)' = {<<tunnels'[u].id, tunnels'[u].status>> : u \in {x \in InTable' : ~tunnels'[x].noStore}}
      BY DEF Summary, Stored
    <3>3. \A u \in InTable : tunnels'[u].id = tunnels[u].id /\ tunnels'[u].status = tunnels[u].status
                            /\ tunnels'[u].noStore = tunnels[u].noStore
      BY <2>4, <2>5
    <3>4. {x \in InTable : ~tunnels'[x].noStore} = {x \in InTable : ~tunnels[x].noStore}
      BY <3>3
    <3> DEFINE S == {x \in InTable : ~tunnels[x].noStore}
    <3>5. \A u \in S : <<tunnels'[u].id, tunnels'[u].status>> = <<tunnels[u].id, tunnels[u].status>>
      BY <3>3
    <3>6. {<<tunnels'[u].id, tunnels'[u].status>> : u \in S} = {<<tunnels[u].id, tunnels[u].status>> : u \in S}
      BY <3>5, Zenon
    <3> QED BY <2>5, <3>1, <3>2, <3>4, <3>6
  <2> QED BY <1>1, <2>1, <2>6, FileWaits DEF Unsaved, Saving
<1> QED BY <1>2, <1>3, <1>4, ZenonT(60) DEF NewTask, Normalize, Started, Stopped, Delete, Edit

\* the steps that do not
LEMMA OthersDoNot ==
  ASSUME Base, FileUpToDate, UNCHANGED <<table, file>>,
         \/ UNCHANGED at
         \/ \E w \in Workers : Others(w) /\ ~Unsaved(w)
  PROVE  FileUpToDate'
<1>1. CASE UNCHANGED at
  BY <1>1 DEF FileUpToDate, Unsaved, Saving, Stored, InTable
<1>2. CASE \E w \in Workers : Others(w) /\ ~Unsaved(w)
  BY <1>2, SameStored, FileWaits
<1> QED BY <1>1, <1>2

LEMMA FileStep == ASSUME Base, FileUpToDate, [Next]_vars PROVE FileUpToDate'
<1> USE DEF Workers
<1>0. at \in [Workers -> Errand(Len(tunnels))] /\ tunnels \in Seq(Tunnel) /\ Len(tunnels) \in Nat
      /\ tasks \in [Ids -> 0..Len(tunnels)]
  BY LenProperties DEF Base, TypeOK
<1>1. CASE UNCHANGED vars
  BY <1>1, OthersDoNot DEF vars
<1>2. CASE \E w \in Workers : Next1(w) \/ Test(w) \/ Run(w) \/ GetTask(w) \/ Close(w)
  <2>1. PICK w \in Workers : Next1(w) \/ Test(w) \/ Run(w) \/ GetTask(w) \/ Close(w)
    BY <1>2, SMTT(60)
  <2>2. UNCHANGED <<table, file>> /\ ~Unsaved(w)
    BY <2>1, ZenonT(60) DEF Next1, Test, Run, GetTask, Close, Unsaved, Saving
  <2> QED BY <2>1, <2>2, OneMoves, OthersDoNot DEF WorkerStep
<1>3. CASE \E w \in Workers : NewTask(w) \/ Normalize(w) \/ Started(w) \/ Unrun(w) \/ Stopped(w) \/ Delete(w)
  BY <1>3, ChangesAreSaved
<1>4. CASE Edit
  BY <1>4, ChangesAreSaved
<1>5. CASE \E w \in Workers : Save(w)
  <2>1. PICK w \in Workers : Save(w)
    BY <1>5
  <2>2. saved' = Stored /\ Stored' = Stored
    BY <2>1 DEF Save, Stored, InTable
  <2> QED BY <2>2 DEF FileUpToDate
<1>6. CASE \E w \in Workers : SaveFails(w)
  BY <1>6 DEF SaveFails, FileUpToDate
<1>7. CASE Probe \/ SendOpen \/ SendFailed
  <2>1. UNCHANGED <<table, file>> /\ ~Unsaved(Conf)
    BY <1>7, SMTT(60) DEF Probe, SendOpen, SendFailed, Unsaved, Saving
  <2> QED BY <1>7, <2>1, OneMoves, OthersDoNot
<1>8. CASE (\E s \in DOMAIN services : Listen(s)) \/ ClientLost
  BY <1>8, OthersDoNot, ZenonT(60) DEF Listen, ClientLost
<1>9. CASE LoopOpen \/ LoopClose \/ PanelDelClient \/ \E op \in {"start", "stop", "del", "edit"} : PanelRequest(op)
  <2>1. UNCHANGED <<table, file>> /\ \E w \in Workers : at[w].pc = "idle" /\ Others(w)
    BY <1>0, <1>9 DEF LoopOpen, LoopClose, PanelDelClient, PanelRequest, Others
  <2> QED BY <2>1, OthersDoNot DEF Unsaved, Saving
<1>10. CASE PanelAdd \/ ConfRegister
  <2>0. PICK w \in {Panel, Conf} : /\ at[w].pc = "idle" /\ Others(w) /\ UNCHANGED <<tasks, file>>
                                 /\ \E r : tunnels' = Append(tunnels, r)
    BY <1>0, <1>10 DEF PanelAdd, ConfRegister, Make, Others
  <2>1. PICK r : tunnels' = Append(tunnels, r)
    BY <2>0
  <2>2. \A u \in 1..Len(tunnels) : tunnels'[u] = tunnels[u]
    BY <1>0, <2>1
  <2>3. InTable \subseteq 1..Len(tunnels) /\ InTable' = InTable
    BY <1>0, <2>0, <2>1 DEF InTable
  <2>4. Summary(Stored)' = Summary(Stored)
    <3>1. {x \in InTable : ~tunnels'[x].noStore} = {x \in InTable : ~tunnels[x].noStore}
      BY <2>2, <2>3
    <3> DEFINE S == {x \in InTable : ~tunnels[x].noStore}
    <3>2. {tunnels'[u] : u \in S} = {tunnels[u] : u \in S}
      BY <2>2, <2>3
    <3>3. Stored' = Stored
      BY <2>3, <3>1, <3>2 DEF Stored
    <3> QED BY <3>3 DEF Summary
  <2> QED BY <2>0, <2>4, FileWaits DEF Unsaved, Saving
<1>11. CASE Crash
  <2>1. tunnels' = Load(saved) /\ tasks' = LoadedTasks(tunnels') /\ saved' = saved
    BY <1>11 DEF Crash
  <2>2. /\ \A t \in 1..Len(tunnels') : tunnels'[t] \in saved /\ ~tunnels'[t].noStore
        /\ \A r \in saved : \E t \in 1..Len(tunnels') : tunnels'[t] = r
        /\ tasks' \in [Ids -> 0..Len(tunnels')] /\ Len(tunnels') \in Nat
        /\ \A t \in 1..Len(tunnels') : tunnels'[t].id \in Ids /\ tasks'[tunnels'[t].id] = t
    <3>1. UniqueSaved /\ saved \subseteq StoredTunnel
      BY DEF Base, TypeOK
    <3>2. tunnels' \in Seq(Tunnel)
      BY ONLY <2>1, <3>1, Loading
    <3>3. Len(tunnels') \in Nat
      BY ONLY <3>2, LenProperties
    <3> QED BY ONLY <2>1, <3>1, <3>3, Loading
  <2>3. InTable' = 1..Len(tunnels')
    BY <2>2 DEF InTable
  <2>4. Stored' = saved
    BY <2>2, <2>3 DEF Stored
  <2> QED BY <2>1, <2>4 DEF FileUpToDate
<1> QED BY <1>1, <1>2, <1>3, <1>4, <1>5, <1>6, <1>7, <1>8, <1>9, <1>10, <1>11
        DEF Next, GoesOn, PanelNext, WorkerStep

\* Whoever saves last, and whatever two goroutines have changed in between, the file
\* is behind the table only as long as somebody is on the way to a save, or it failed.
THEOREM FileKeepsUp == Spec => []FileUpToDate
<1>1. Init => FileUpToDate
  <2> SUFFICES ASSUME Init PROVE FileUpToDate
    OBVIOUS
  <2>1. Base /\ tunnels = Load(saved) /\ tasks = LoadedTasks(tunnels)
    BY InitBase DEF Init
  <2>2. /\ \A t \in 1..Len(tunnels) : tunnels[t] \in saved /\ ~tunnels[t].noStore
        /\ \A r \in saved : \E t \in 1..Len(tunnels) : tunnels[t] = r
        /\ tasks \in [Ids -> 0..Len(tunnels)] /\ Len(tunnels) \in Nat
        /\ \A t \in 1..Len(tunnels) : tunnels[t].id \in Ids /\ tasks[tunnels[t].id] = t
    BY <2>1, Loading, LenProperties DEF Base, TypeOK
  <2>3. InTable = 1..Len(tunnels)
    BY <2>2 DEF InTable
  <2>4. Stored = saved
    BY <2>2, <2>3 DEF Stored
  <2> QED BY <2>4 DEF FileUpToDate
<1>2. Base /\ FileUpToDate /\ [Next]_vars => FileUpToDate'
  BY FileStep
<1> QED BY <1>1, <1>2, BaseHolds, PTL DEF Spec

-----------------------------------------------------------------------------
(* What is acknowledged, and what listens: the invariant joins what has        *)
(* happened to what every goroutine is about to do, and excepts only the ids   *)
(* and the services that the history has taken down.                          *)

Live(s) == s \notin strays /\ services[s].listener \in {"new", "open"}
IdOfService(s) == tunnels[services[s].t].id
InFile(i) == \E r \in saved : r.id = i

\* what was acknowledged is in the table, for good, and in the file
Acked == \A i \in acked \ reused : tasks[i] # 0 /\ ~tunnels[tasks[i]].noStore /\ InFile(i)

\* a service that listens, or will, is in the list, and its tunnel in the table
Listeners ==
  \A s \in DOMAIN services : Live(s) => runList[IdOfService(s)] = s /\ tasks[IdOfService(s)] = services[s].t

\* the creation by the panel gets as far as the acknowledgement with its id its own
Adding(w) ==
  at[w].op = "add" =>
    /\ at[w].pc \in Busy => ~tunnels[at[w].t].noStore
    /\ at[w].id \notin reused =>
         /\ at[w].pc \in {"saveNew", "saveKey", "test", "run"} => tasks[at[w].id] = at[w].t
         /\ at[w].pc \in {"saveKey", "test", "run"} => InFile(at[w].id)

\* what is deleted is not acknowledged, or not any more, or is of a client
Removing(w) ==
  /\ at[w].op = "reclaim" => /\ at[w].pc \in Busy => tunnels[at[w].t].noStore \/ at[w].id \in reused
                             /\ \A t \in at[w].todo : tunnels[t].noStore
  /\ at[w].op \in {"add", "del"} => at[w].id \notin acked \ reused
  /\ at[w].op = "del" => \A t \in at[w].todo : tunnels[t].id \notin acked

\* nothing that can be stopped listens for the id of what is being stopped or deleted
Stopping(w) == Stops(w) => runList[at[w].id] = 0 \/ ~Live(runList[at[w].id])

Safe == Acked /\ Listeners /\ \A w \in Workers : Adding(w) /\ Removing(w) /\ Stopping(w)

\* nobody depends on what the table has for this id
Unneeded(i) ==
  /\ i \notin acked' \ reused'
  /\ \A s \in DOMAIN services : Live(s)' => IdOfService(s) # i
  /\ \A v \in Workers : at[v].op = "add" /\ at[v].pc \in {"saveNew", "saveKey", "test", "run"} =>
                          at[v].id # i \/ i \in reused'

\* the steps that take nothing from the others
Remembers == acked' \subseteq acked /\ reused \subseteq reused' /\ strays \subseteq strays'
KeepsTable == \A i \in Ids : tasks[i] # 0 => tasks'[i] = tasks[i] \/ Unneeded(i)
KeepsFile == saved' = saved \/ (saved' = Stored /\ UNCHANGED table)
KeepsServices ==
  /\ \A s \in DOMAIN services' : /\ s \in DOMAIN services /\ services'[s].t = services[s].t
                                 /\ Live(s)' => Live(s)
  /\ \A i \in Ids : \/ runList'[i] = runList[i]
                    \/ runList'[i] = 0 /\ \A s \in DOMAIN services' : Live(s)' => IdOfService(s) # i

LEMMA IdsOfServices ==
  ASSUME Base, NEW s \in DOMAIN services
  PROVE  /\ s \in 1..Len(services) /\ services[s].t \in 1..Len(tunnels) /\ IdOfService(s) \in Ids
<1>1. s \in 1..Len(services) /\ services[s] \in Service(Len(tunnels)) /\ tunnels \in Seq(Tunnel)
  BY LenProperties, ElementOfSeq DEF Base, TypeOK
<1>2. services[s].t \in 1..Len(tunnels)
  BY <1>1 DEF Service
<1>3. tunnels[services[s].t] \in Tunnel
  BY <1>1, <1>2, ElementOfSeq
<1> QED BY <1>1, <1>2, <1>3 DEF IdOfService, Tunnel

LEMMA StaysInFile ==
  ASSUME Base, KeepsFile, NEW i \in Ids, InFile(i), tasks[i] # 0, ~tunnels[tasks[i]].noStore
  PROVE  InFile(i)'
<1>1. tunnels[tasks[i]] \in Stored /\ tunnels[tasks[i]].id = i
  BY StoredUnique DEF Base, IdOf
<1> QED BY <1>1 DEF KeepsFile, InFile

\* no tunnel is lost to what w still has to do
LEMMA TodoStays ==
  ASSUME Base, Steady, NEW w \in Workers
  PROVE  /\ at[w].op # "boot" =>
              \A t \in at[w].todo : tunnels'[t].noStore = tunnels[t].noStore /\ tunnels'[t].id = tunnels[t].id
         /\ at[w].pc \in Busy => tunnels'[at[w].t].noStore = tunnels[at[w].t].noStore
BY BusyFacts DEF Steady

LEMMA SafeFrom ==
  ASSUME Base, Base', Safe, Steady, Remembers, KeepsTable, KeepsFile, KeepsServices,
         NEW w \in Workers, Others(w), at'[w] = at[w] \/ (Adding(w)' /\ Removing(w)' /\ Stopping(w)')
  PROVE  Safe'
<1> USE BusyFacts
<1>1. /\ tasks \in [Ids -> 0..Len(tunnels)] /\ acked \subseteq Ids /\ Len(tunnels) \in Nat
      /\ runList \in [Ids -> 0..Len(services)] /\ DOMAIN services = 1..Len(services)
      /\ runList' \in [Ids -> 0..Len(services')] /\ DOMAIN services' = 1..Len(services')
      /\ Len(services) \in Nat /\ Len(services') \in Nat
  <2>1. TypeOK /\ TypeOK'
    BY DEF Base
  <2> QED BY <2>1, LenProperties DEF TypeOK
<1>2. Acked'
  <2> SUFFICES ASSUME NEW i \in acked' \ reused' PROVE (tasks[i] # 0 /\ ~tunnels[tasks[i]].noStore /\ InFile(i))'
    BY DEF Acked
  <2>1. i \in acked \ reused /\ i \in Ids /\ tasks[i] # 0 /\ ~tunnels[tasks[i]].noStore /\ InFile(i)
    BY <1>1 DEF Safe, Acked, Remembers
  <2>2. tasks'[i] = tasks[i]
    BY <2>1 DEF KeepsTable, Unneeded
  <2>3. ~tunnels'[tasks[i]].noStore
    BY <1>1, <2>1 DEF Steady
  <2> QED BY <2>1, <2>2, <2>3, StaysInFile
<1>3. Listeners'
  <2> SUFFICES ASSUME NEW s \in DOMAIN services', Live(s)'
               PROVE (runList[IdOfService(s)] = s /\ tasks[IdOfService(s)] = services[s].t)'
    BY DEF Listeners
  <2>1. s \in DOMAIN services /\ Live(s) /\ services'[s].t = services[s].t
    BY DEF KeepsServices
  <2> DEFINE i == IdOfService(s)
  <2>2. services[s].t \in 1..Len(tunnels) /\ i \in Ids
    BY <2>1, IdsOfServices
  <2>3. IdOfService(s)' = i
    BY <2>1, <2>2 DEF Steady, IdOfService
  <2>4. runList[i] = s /\ tasks[i] = services[s].t
    BY <2>1 DEF Safe, Listeners
  <2>5. tasks'[i] = services[s].t
    <3>1. ~Unneeded(i)
      BY <2>1 DEF Unneeded
    <3>2. tasks[i] # 0
      BY <1>1, <2>2, <2>4
    <3> QED BY <2>2, <2>4, <3>1, <3>2 DEF KeepsTable
  <2>6. runList'[i] = s
    BY <2>1, <2>2, <2>3, <2>4 DEF KeepsServices
  <2> QED BY <2>1, <2>3, <2>5, <2>6
<1>4. ASSUME NEW v \in Workers, at'[v] = at[v]
      PROVE  Adding(v)' /\ Removing(v)' /\ Stopping(v)'
  <2>1. Adding(v) /\ Removing(v) /\ Stopping(v)
    BY DEF Safe
  <2>2. Adding(v)'
    <3> SUFFICES ASSUME at[v].op = "add", at[v].pc \in Busy
                 PROVE  /\ ~tunnels'[at[v].t].noStore
                        /\ at[v].id \notin reused' =>
                             /\ at[v].pc \in {"saveNew", "saveKey", "test", "run"} => tasks'[at[v].id] = at[v].t
                             /\ at[v].pc \in {"saveKey", "test", "run"} => InFile(at[v].id)'
      BY <1>4 DEF Adding, Busy, Places, InFile
    <3>1. ~tunnels[at[v].t].noStore /\ ~tunnels'[at[v].t].noStore /\ at[v].id \in Ids /\ at[v].t # 0
      BY <1>1, <2>1, SMTT(60) DEF Adding, Steady
    <3>2. ASSUME at[v].id \notin reused', at[v].pc \in {"saveNew", "saveKey", "test", "run"}
          PROVE  tasks[at[v].id] = at[v].t /\ tasks'[at[v].id] = at[v].t
      BY <2>1, <3>1, <3>2 DEF Adding, KeepsTable, Unneeded, Remembers
    <3>3. ASSUME at[v].id \notin reused', at[v].pc \in {"saveKey", "test", "run"} PROVE InFile(at[v].id)'
      <4>1. PICK i \in Ids : i = at[v].id
        BY <3>1
      <4>2. InFile(i) /\ tasks[i] # 0 /\ ~tunnels[tasks[i]].noStore
        BY <2>1, <3>1, <3>2, <3>3, <4>1 DEF Adding, InFile, Remembers
      <4>3. InFile(i)'
        BY <4>2, StaysInFile
      <4> QED BY <1>4, <4>1, <4>3 DEF InFile
    <3> QED BY <3>1, <3>2, <3>3
  <2>3. Removing(v)'
    BY <1>1, <1>4, <2>1, TodoStays, ZenonT(60) DEF Removing, Remembers
  <2>4. Stopping(v)'
    <3> SUFFICES ASSUME Stops(v) PROVE runList'[at[v].id] = 0 \/ ~Live(runList[at[v].id])'
      BY <1>4 DEF Stopping, Stops
    <3>1. PICK i \in Ids : i = at[v].id
      BY DEF Stops, Busy, Places
    <3>2. runList[i] = 0 \/ ~Live(runList[i])
      BY <2>1, <3>1 DEF Stopping
    <3>3. runList'[i] # 0 => runList'[i] = runList[i] /\ runList'[i] \in DOMAIN services'
      BY <1>1 DEF KeepsServices
    <3>4. runList'[i] = 0 \/ ~Live(runList[i])'
      BY <3>2, <3>3 DEF KeepsServices, Live
    <3> QED BY <1>4, <3>1, <3>4 DEF Live
  <2> QED BY <2>2, <2>3, <2>4
<1>5. \A v \in Workers : Adding(v)' /\ Removing(v)' /\ Stopping(v)'
  BY <1>4 DEF Others
<1> QED BY <1>2, <1>3, <1>5 DEF Safe

\* what w itself is about to do
Ready(w) == Adding(w) /\ Removing(w) /\ Stopping(w)

LEMMA ReturnReady ==
  ASSUME Base, Base', Safe, Steady, Remembers, NEW w \in Workers, Return(w)
  PROVE  Ready(w)'
<1>1. /\ at \in [Workers -> Errand(Len(tunnels))] /\ Len(tunnels) \in Nat /\ acked \subseteq Ids
      /\ Held(w) /\ Removing(w)
  BY BusyFacts DEF Base, TypeOK, Safe
<1>2. CASE at'[w] = Idle
  BY <1>2 DEF Ready, Adding, Removing, Stopping, Stops, Idle, Busy, Places
<1>3. CASE at'[w].pc = "next" /\ at'[w] # Idle
  <2>1. at'[w].op = at[w].op /\ at'[w].id = at[w].id /\ at'[w].todo = at[w].todo /\ at[w].todo # {}
    BY <1>1, <1>3, Returning DEF Moves
  <2>2. at[w].op # "add"
    BY <1>1, <2>1 DEF Held
  <2>3. /\ at[w].op = "reclaim" => \A t \in at[w].todo : tunnels'[t].noStore
        /\ at[w].op = "del" => at[w].id \notin acked' \ reused' /\ \A t \in at[w].todo : tunnels'[t].id \notin acked'
    BY <1>1, TodoStays DEF Removing, Remembers
  <2> QED BY <1>3, <2>1, <2>2, <2>3 DEF Ready, Adding, Removing, Stopping, Stops, Busy
<1> QED BY <1>1, <1>2, <1>3, Returning

LEMMA GoReady ==
  ASSUME Base, Base', Safe, Steady, Remembers, NEW w \in Workers, NEW pc \in Places, Go(w, pc),
         at[w].pc \in Busy,
         at[w].op = "add" /\ at[w].id \notin reused' =>
            /\ pc \in {"saveNew", "saveKey", "test", "run"} => tasks'[at[w].id] = at[w].t
            /\ pc \in {"saveKey", "test", "run"} => \E r \in saved' : r.id = at[w].id,
         pc = "unrun" \/ (at[w].op \in {"del", "reclaim"} /\ pc \in {"stopped", "saveStop", "delete"}) =>
            \/ runList'[at[w].id] \in strays' \cup {0}
            \/ services'[runList'[at[w].id]].listener \notin {"new", "open"}
  PROVE  Ready(w)'
<1>1. /\ at \in [Workers -> Errand(Len(tunnels))] /\ Len(tunnels) \in Nat
      /\ Adding(w) /\ Removing(w)
  BY BusyFacts DEF Base, TypeOK, Safe
<1>2. /\ at'[w].pc = pc /\ at'[w].t = at[w].t /\ at'[w].op = at[w].op /\ at'[w].id = at[w].id
      /\ at'[w].todo = at[w].todo
  BY <1>1, Going
<1>3. /\ tunnels'[at[w].t].noStore = tunnels[at[w].t].noStore
      /\ at[w].op # "boot" =>
           \A t \in at[w].todo : tunnels'[t].noStore = tunnels[t].noStore /\ tunnels'[t].id = tunnels[t].id
  BY TodoStays
<1>4. Adding(w)'
  BY <1>1, <1>2, <1>3 DEF Adding, InFile
<1>5. Removing(w)'
  BY <1>1, <1>2, <1>3 DEF Removing, Remembers
<1>6. Stopping(w)'
  BY <1>2 DEF Stopping, Stops, Live
<1> QED BY <1>4, <1>5, <1>6 DEF Ready

LEMMA SameServices == ASSUME UNCHANGED running, strays \subseteq strays' PROVE KeepsServices
BY DEF KeepsServices, Live

LEMMA SameTable == ASSUME UNCHANGED tasks PROVE KeepsTable
BY DEF KeepsTable

\* who stores over another tunnel takes its id and its service down
LEMMA StoreKeeps ==
  ASSUME Base, Safe, Remembers, NEW t \in 1..Len(tunnels), Store(t), UNCHANGED services
  PROVE  KeepsTable
<1> DEFINE i == tunnels[t].id
<1>1. /\ tasks \in [Ids -> 0..Len(tunnels)] /\ i \in Ids /\ tasks' = [tasks EXCEPT ![i] = t]
      /\ tasks[i] \notin {0, t} => i \in reused' /\ runList[i] \in strays' \cup {0}
  <2>1. Panel \in Workers
    BY DEF Workers
  <2> QED BY <2>1, BusyFacts, Storing DEF Base, TypeOK
<1>2. ASSUME tasks[i] \notin {0, t} PROVE Unneeded(i)
  <2>1. ASSUME NEW s \in DOMAIN services, Live(s)', IdOfService(s) = i PROVE FALSE
    <3>1. Live(s) /\ s \notin strays'
      BY <2>1 DEF Live, Remembers
    <3>2. runList[i] = s /\ s # 0
      BY <2>1, <3>1, IdsOfServices DEF Safe, Listeners
    <3> QED BY <1>1, <1>2, <3>1, <3>2
  <2> QED BY <1>1, <1>2, <2>1 DEF Unneeded
<1> HIDE DEF i
<1> QED BY <1>1, <1>2 DEF KeepsTable

LEMMA Next1Safe == ASSUME Base, Base', Safe, NEW w \in Workers, Next1(w) PROVE Safe'
<1> USE BusyFacts
<1>1. /\ Steady /\ Others(w) /\ UNCHANGED <<tunnels, tasks, saved, services, runList, history>>
      /\ at \in [Workers -> Errand(Len(tunnels))] /\ tasks \in [Ids -> 0..Len(tunnels)] /\ at[w].pc = "next"
  BY SameTunnels, OneMoves, ZenonT(60) DEF WorkerStep, Next1, Base, TypeOK
<1>2. Remembers /\ KeepsTable /\ KeepsFile /\ KeepsServices
  BY <1>1, SameServices, SameTable DEF KeepsFile, Remembers
<1>3. Removing(w) /\ Held(w)
  BY DEF Safe, Base
<1>4. Ready(w)'
  <2>1. CASE at' = [at EXCEPT ![w] = Idle]
    <3>1. at'[w] = Idle
      BY <1>1, <2>1
    <3> QED BY <3>1 DEF Ready, Adding, Removing, Stopping, Stops, Idle, Busy, Places
  <2>2. CASE at' # [at EXCEPT ![w] = Idle]
    <3>1. PICK t \in at[w].todo :
            /\ at[w].op = "boot" => Due(t)
            /\ at' = [at EXCEPT ![w].t = t, ![w].id = tunnels[t].id, ![w].todo = @ \ {t},
                                ![w].pc = IF at[w].op = "boot" THEN "test" ELSE DelTask(tunnels[t].id)]
      BY <2>2, ZenonT(60) DEF Next1
    <3> DEFINE pc == IF at[w].op = "boot" THEN "test" ELSE DelTask(tunnels[t].id)
    <3>2. /\ pc \in {"test", "close", "delete"}
          /\ (pc = "delete" => runList[tunnels[t].id] = 0)
      BY DEF DelTask
    <3> HIDE DEF pc
    <3>3. /\ at'[w].t = t /\ at'[w].id = tunnels[t].id /\ at'[w].todo = at[w].todo \ {t}
          /\ at'[w].pc = pc /\ at'[w].op = at[w].op
      BY <1>1, <3>1 DEF Errand, pc
    <3>4. at[w].op # "add"
      BY <1>3, <3>1 DEF Held
    <3>5. Adding(w)'
      BY <3>3, <3>4 DEF Adding
    <3>6. Removing(w)'
      BY <1>1, <1>3, <3>3, <3>4 DEF Removing
    <3>7. Stopping(w)'
      BY <1>1, <3>2, <3>3 DEF Stopping, Stops
    <3> QED BY <3>5, <3>6, <3>7, SMTT(60) DEF Ready
  <2> QED BY <2>1, <2>2
<1> QED BY <1>1, <1>2, <1>4, SafeFrom DEF Ready

LEMMA PlacesSafe ==
  ASSUME Base, Base', Safe, NEW w \in Workers,
         Test(w) \/ GetTask(w) \/ (w = Conf /\ (Probe \/ SendOpen \/ SendFailed))
  PROVE  Safe'
<1> USE BusyFacts
<1>1. /\ Steady /\ Others(w) /\ UNCHANGED <<tunnels, tasks, saved, services, runList, history>>
      /\ at \in [Workers -> Errand(Len(tunnels))]
  BY SameTunnels, OneMoves DEF WorkerStep, Test, GetTask, Probe, SendOpen, SendFailed, Base, TypeOK
<1>2. Remembers /\ KeepsTable /\ KeepsFile /\ KeepsServices
  BY <1>1, SameServices, SameTable DEF KeepsFile, Remembers
<1>3. Adding(w) /\ Held(w)
  BY DEF Safe, Base
<1>4. Return(w) => Ready(w)'
  BY <1>1, <1>2, ReturnReady
<1>5. ASSUME Test(w) PROVE Ready(w)'
  <2>1. at[w].pc = "test" /\ at[w].pc \in Busy
    BY <1>5 DEF Test, Busy, Places
  <2>2. Return(w) \/ \E pc \in {"delete", "run"} : Go(w, pc) /\ (pc = "delete" => at[w].op = "add")
    BY <1>5 DEF Test, AddTaskFails
  <2>3. at[w].op = "add" /\ at[w].id \notin reused' =>
          tasks'[at[w].id] = at[w].t /\ \E r \in saved' : r.id = at[w].id
    BY <1>1, <1>3, <2>1 DEF Adding, InFile
  <2>4. ASSUME Go(w, "delete"), at[w].op = "add" PROVE Ready(w)'
    BY <1>1, <1>2, <2>1, <2>4, GoReady DEF Places
  <2>5. ASSUME Go(w, "run") PROVE Ready(w)'
    BY <1>1, <1>2, <2>1, <2>3, <2>5, GoReady DEF Places
  <2> QED BY <1>4, <2>2, <2>4, <2>5
<1>6. ASSUME GetTask(w) PROVE Ready(w)'
  <2>1. CASE tasks[at[w].id] = 0
    BY <1>4, <1>6, <2>1 DEF GetTask
  <2>2. CASE tasks[at[w].id] # 0
    <3>1. at' = [at EXCEPT ![w].t = tasks[at[w].id], ![w].pc = "test"]
      BY <1>6, <2>2 DEF GetTask
    <3>2. at'[w].pc = "test" /\ at'[w].op = at[w].op
      BY <1>1, <3>1 DEF Errand
    <3>3. at[w].op \in {"start", "edit"}
      BY <1>3, <1>6 DEF GetTask, Held
    <3> QED BY <3>2, <3>3 DEF Ready, Adding, Removing, Stopping, Stops
  <2> QED BY <2>1, <2>2
<1>7. ASSUME w = Conf, Probe PROVE Ready(w)'
  <2>1. at[w].pc = "probe" /\ at[w].pc \in Busy /\ \E pc \in {"fail", "open"} : Go(w, pc)
    BY <1>7 DEF Probe, Busy, Places
  <2> QED BY <1>1, <1>2, <2>1, GoReady DEF Places
<1>8. Ready(w)'
  BY <1>4, <1>5, <1>6, <1>7 DEF SendOpen, SendFailed
<1> QED BY <1>1, <1>2, <1>8, SafeFrom DEF Ready

LEMMA SaveSafe ==
  ASSUME Base, Base', Safe, NEW w \in Workers, Save(w) \/ SaveFails(w)
  PROVE  Safe'
<1> USE BusyFacts
<1>1. /\ Steady /\ Others(w) /\ UNCHANGED <<tunnels, tasks, services, runList, history>>
      /\ at \in [Workers -> Errand(Len(tunnels))]
  BY SameTunnels, OneMoves DEF WorkerStep, Save, SaveFails, Base, TypeOK
<1>2. Remembers /\ KeepsTable /\ KeepsFile /\ KeepsServices
  BY <1>1, SameServices, SameTable DEF Save, SaveFails, KeepsFile, Remembers
<1>3. Adding(w) /\ Held(w) /\ Stopping(w) /\ Saving(w) /\ at[w].pc \in Busy /\ at[w].id \in Ids
  BY DEF Safe, Base, Save, SaveFails, Saving, Busy, Places
<1>4. \/ Return(w)
      \/ \E pc \in {"probe", "test", "close", "fail", "delete", "get"} :
           /\ Go(w, pc) /\ (pc = "delete" => at[w].pc = "saveStop")
           /\ (pc = "test" => at[w].pc = "saveKey" \/ (at[w].pc = "saveNew" /\ (at[w].op = "add" => Save(w))))
  BY <1>3 DEF Save, SaveFails, AfterSave, AfterFailedSave, AfterStop, Held
<1>5. Return(w) => Ready(w)'
  BY <1>1, <1>2, ReturnReady
<1>6. ASSUME NEW pc \in {"probe", "close", "fail", "get"}, Go(w, pc) PROVE Ready(w)'
  BY <1>1, <1>2, <1>3, <1>6, GoReady, SMTT(60) DEF Places
<1>7. ASSUME Go(w, "delete"), at[w].pc = "saveStop" PROVE Ready(w)'
  <2>1. at[w].op \in {"del", "reclaim"} =>
          runList[at[w].id] \in strays \cup {0} \/ services[runList[at[w].id]].listener \notin {"new", "open"}
    BY <1>3, <1>7 DEF Stopping, Stops, Live
  <2>2. runList' = runList /\ services' = services /\ strays' = strays
    BY <1>1, SMTT(60)
  <2> QED BY <1>1, <1>2, <1>3, <1>7, <2>1, <2>2, GoReady DEF Places
<1>8. ASSUME Go(w, "test"), at[w].pc = "saveKey" \/ (at[w].pc = "saveNew" /\ (at[w].op = "add" => Save(w)))
      PROVE Ready(w)'
  <2>1. at[w].op = "add" /\ at[w].id \notin reused' =>
          tasks'[at[w].id] = at[w].t /\ \E r \in saved' : r.id = at[w].id
    <3> SUFFICES ASSUME at[w].op = "add", at[w].id \notin reused
                 PROVE tasks'[at[w].id] = at[w].t /\ \E r \in saved' : r.id = at[w].id
      BY <1>1
    <3>1. tasks[at[w].id] = at[w].t /\ ~tunnels[at[w].t].noStore /\ at[w].t \in 1..Len(tunnels)
      BY <1>3, <1>8 DEF Adding
    <3>2. tunnels[at[w].t] \in Stored /\ tunnels[at[w].t].id = at[w].id
      BY <1>3, <3>1, StoredUnique
    <3>3. CASE saved' = Stored
      BY <1>1, <3>1, <3>2, <3>3
    <3>4. CASE saved' = saved /\ at[w].pc = "saveKey"
      BY <1>1, <1>3, <3>1, <3>4 DEF Adding, InFile
    <3> QED BY <1>8, <3>3, <3>4 DEF Save, SaveFails
  <2> QED BY <1>1, <1>2, <1>3, <1>8, <2>1, GoReady DEF Places
<1>9. Ready(w)'
  BY <1>4, <1>5, <1>6, <1>7, <1>8
<1> QED BY <1>1, <1>2, <1>9, SafeFrom DEF Ready

LEMMA ObjectSteady ==
  ASSUME Base, NEW t \in 1..Len(tunnels),
         \/ \E b \in BOOLEAN : tunnels' = [tunnels EXCEPT ![t].status = b]
         \/ \E p \in Ports : tunnels' = [tunnels EXCEPT ![t].port = p]
         \/ \E m \in Modes : tunnels' = [tunnels EXCEPT ![t].mode = m]
  PROVE  Steady
<1>1. tunnels \in Seq(Tunnel) /\ Len(tunnels) \in Nat /\ tunnels[t] \in Tunnel
  BY LenProperties, ElementOfSeq DEF Base, TypeOK
<1>2. CASE \E b \in BOOLEAN : tunnels' = [tunnels EXCEPT ![t].status = b]
  <2>1. PICK b \in BOOLEAN : tunnels' = [tunnels EXCEPT ![t].status = b]
    BY <1>2
  <2> DEFINE r == [tunnels[t] EXCEPT !.status = b]
  <2>2. r \in Tunnel /\ r.id = tunnels[t].id /\ r.noStore = tunnels[t].noStore /\ tunnels' = [tunnels EXCEPT ![t] = r]
    BY <1>1, <2>1 DEF Tunnel
  <2> HIDE DEF r
  <2> QED BY <1>1, <2>2, Changing DEF Steady
<1>3. CASE \E p \in Ports : tunnels' = [tunnels EXCEPT ![t].port = p]
  <2>1. PICK p \in Ports : tunnels' = [tunnels EXCEPT ![t].port = p]
    BY <1>3
  <2> DEFINE r == [tunnels[t] EXCEPT !.port = p]
  <2>2. r \in Tunnel /\ r.id = tunnels[t].id /\ r.noStore = tunnels[t].noStore /\ tunnels' = [tunnels EXCEPT ![t] = r]
    BY <1>1, <2>1 DEF Tunnel
  <2> HIDE DEF r
  <2> QED BY <1>1, <2>2, Changing DEF Steady
<1>4. CASE \E m \in Modes : tunnels' = [tunnels EXCEPT ![t].mode = m]
  <2>1. PICK m \in Modes : tunnels' = [tunnels EXCEPT ![t].mode = m]
    BY <1>4
  <2> DEFINE r == [tunnels[t] EXCEPT !.mode = m]
  <2>2. r \in Tunnel /\ r.id = tunnels[t].id /\ r.noStore = tunnels[t].noStore /\ tunnels' = [tunnels EXCEPT ![t] = r]
    BY <1>1, <2>1 DEF Tunnel
  <2> HIDE DEF r
  <2> QED BY <1>1, <2>2, Changing DEF Steady
<1> QED BY <1>2, <1>3, <1>4

LEMMA TableSafe ==
  ASSUME Base, Base', Safe, NEW w \in Workers,
         NewTask(w) \/ Normalize(w) \/ Stopped(w) \/ Started(w) \/ (w = Panel /\ Edit)
  PROVE  Safe'
<1> USE BusyFacts
<1>1. /\ Others(w) /\ UNCHANGED <<saved, services, runList, acked>> /\ Len(tunnels) \in Nat
      /\ tasks \in [Ids -> 0..Len(tunnels)] /\ tunnels \in Seq(Tunnel)
  BY OneMoves, LenProperties DEF WorkerStep, NewTask, Normalize, Stopped, Started, Edit, Base, TypeOK
<1>2. at[w].pc \in {"new", "test", "stopped", "status", "edit"} /\ at[w].pc \in Busy /\ at[w].t \in 1..Len(tunnels)
      /\ Held(w) /\ Stopping(w) /\ Adding(w) /\ at[w].id \in Ids /\ at[w].id = tunnels[at[w].t].id
  BY DEF NewTask, Normalize, Stopped, Started, Edit, Busy, Places, Base, Safe
<1>3. Steady
  BY <1>1, <1>2, SameTunnels, ObjectSteady, ZenonT(60) DEF NewTask, Normalize, Stopped, Started, Edit, Modes
<1>4. \/ Return(w) /\ UNCHANGED <<tasks, collisions>>
      \/ /\ Store(at[w].t)
         /\ \/ Go(w, "saveNew") \/ Go(w, "saveStart") \/ Go(w, "saveEdit")
            \/ Go(w, "saveKey") /\ at[w].pc = "test"
            \/ Go(w, "saveStop") /\ at[w].pc = "stopped"
  BY DEF NewTask, Normalize, Stopped, Started, Edit, UpdateTask
<1>5. Remembers
  BY <1>1, <1>2, <1>4, Storing DEF Remembers
<1>6. KeepsFile /\ KeepsServices /\ KeepsTable
  BY <1>1, <1>2, <1>4, <1>5, SameServices, SameTable, StoreKeeps DEF KeepsFile, Remembers
<1>7. Ready(w)'
  <2>1. CASE Return(w)
    BY <1>3, <1>5, <2>1, ReturnReady, SMTT(60)
  <2>2. CASE Go(w, "saveStart") \/ Go(w, "saveEdit")
    BY <1>2, <1>3, <1>5, <2>2, GoReady DEF Places
  <2>3. CASE (Go(w, "saveNew") \/ (Go(w, "saveKey") /\ at[w].pc = "test")) /\ Store(at[w].t)
    <3>1. tasks'[at[w].id] = at[w].t
      BY <1>1, <1>2, <2>3, Storing, SMTT(60)
    <3>2. CASE Go(w, "saveNew")
      <4>1. "saveNew" \in Places
        BY DEF Places
      <4>2. "saveNew" \notin {"saveKey", "test", "run", "unrun", "stopped", "saveStop", "delete"}
        OBVIOUS
      <4> QED BY <1>2, <1>3, <1>5, <3>1, <3>2, <4>1, <4>2, GoReady
    <3>3. CASE Go(w, "saveKey") /\ at[w].pc = "test"
      <4>1. at[w].op = "add" /\ at[w].id \notin reused' => \E r \in saved' : r.id = at[w].id
        BY <1>1, <1>2, <1>5, <3>3, SMTT(60) DEF Adding, InFile, Remembers
      <4>2. "saveKey" \in Places /\ "saveKey" \notin {"unrun", "stopped", "saveStop", "delete"}
        BY DEF Places
      <4> QED BY <1>2, <1>3, <1>5, <3>1, <3>3, <4>1, <4>2, GoReady
    <3> QED BY <2>3, <3>2, <3>3
  <2>4. CASE Go(w, "saveStop") /\ at[w].pc = "stopped"
    <3>1. at[w].op \in {"del", "reclaim"} =>
            runList[at[w].id] \in strays \cup {0} \/ services[runList[at[w].id]].listener \notin {"new", "open"}
      BY <1>2, <2>4 DEF Stopping, Stops, Live
    <3>2. runList' = runList /\ services' = services /\ strays \subseteq strays'
      BY <1>1, <1>5 DEF Remembers
    <3> QED BY <1>2, <1>3, <1>5, <2>4, <3>1, <3>2, GoReady, SMTT(60) DEF Places
  <2> QED BY <1>4, <2>1, <2>2, <2>3, <2>4
<1> QED BY <1>1, <1>3, <1>5, <1>6, <1>7, SafeFrom DEF Ready

LEMMA DeleteSafe ==
  ASSUME Base, Base', Safe, NEW w \in Workers, Delete(w)
  PROVE  Safe'
<1> USE BusyFacts
<1> DEFINE i == at[w].id
<1>1. /\ Others(w) /\ UNCHANGED <<saved, services, runList, acked>> /\ Len(tunnels) \in Nat
      /\ tasks \in [Ids -> 0..Len(tunnels)] /\ Steady /\ runList \in [Ids -> 0..Len(services)]
  BY OneMoves, SameTunnels, LenProperties DEF WorkerStep, Delete, Base, TypeOK
<1>2. /\ at[w].pc = "delete" /\ at[w].pc \in Busy /\ at[w].t \in 1..Len(tunnels) /\ i \in Ids
      /\ Held(w) /\ Stopping(w) /\ Removing(w) /\ Adding(w)
  BY DEF Delete, Busy, Places, Base, Safe
<1>3. /\ tasks' = [tasks EXCEPT ![i] = 0] /\ Go(w, "saveDel") /\ Reuse(i, at[w].t)
      /\ Strand(IF at[w].op = "add" THEN {runList[i]} ELSE {})
  BY DEF Delete
<1>4. /\ reused \subseteq reused' /\ (tasks[i] \notin {0, at[w].t} => i \in reused')
      /\ strays \subseteq strays' /\ (at[w].op = "add" => runList[i] \in strays' \cup {0})
  BY <1>2, <1>3, Reusing DEF Strand
<1>5. Remembers /\ KeepsFile /\ KeepsServices
  BY <1>1, <1>4, SameServices DEF KeepsFile, Remembers
<1>6. at[w].op \in {"add", "del", "reclaim"} /\ (at[w].op \in {"add", "del"} => i \notin acked \ reused /\ w = Panel)
      /\ (at[w].op = "reclaim" => tunnels[at[w].t].noStore \/ i \in reused)
  BY <1>2 DEF Held, Removing
<1>7. ASSUME tasks[i] # 0 PROVE Unneeded(i)
  <2>1. i \notin acked' \ reused'
    BY <1>1, <1>4, <1>6, <1>7 DEF Safe, Acked
  <2>2. ASSUME NEW s \in DOMAIN services, Live(s)' PROVE IdOfService(s) # i
    <3>1. Live(s) /\ s \notin strays'
      BY <1>1, <2>2, <1>4 DEF Live
    <3>2. runList[IdOfService(s)] = s /\ s # 0
      BY <3>1, IdsOfServices DEF Safe, Listeners
    <3>3. at[w].op # "add" => runList[i] = 0 \/ ~Live(runList[i])
      BY <1>2, <1>6 DEF Stopping, Stops
    <3> QED BY <1>4, <3>1, <3>2, <3>3
  <2>3. ASSUME NEW v \in Workers, at[v].op = "add", at[v].pc \in {"saveNew", "saveKey", "test", "run"}
        PROVE at[v].id # i \/ i \in reused'
    <3>1. v = Panel
      BY <2>3 DEF Base, Held
    <3>2. at[w].op = "reclaim"
      BY <1>2, <1>6, <2>3, <3>1
    <3>3. at[v].id \notin reused => tasks[at[v].id] = at[v].t /\ ~tunnels[at[v].t].noStore
      BY <2>3 DEF Safe, Adding, Busy, Places
    <3> QED BY <1>4, <1>6, <1>7, <3>2, <3>3
  <2> QED BY <2>1, <2>2, <2>3 DEF Unneeded
<1>8. KeepsTable
  BY <1>1, <1>3, <1>7, SMTT(60) DEF KeepsTable
<1>9. Ready(w)'
  BY <1>1, <1>2, <1>3, <1>5, GoReady DEF Places
<1> QED BY <1>1, <1>5, <1>8, <1>9, SafeFrom DEF Ready

LEMMA CloseSafe == ASSUME Base, Base', Safe, NEW w \in Workers, Close(w) PROVE Safe'
<1> USE BusyFacts
<1> DEFINE s == runList[at[w].id]
<1>1. /\ Others(w) /\ UNCHANGED <<tunnels, tasks, saved, runList, acked, reused>> /\ Steady
      /\ services \in Seq(Service(Len(tunnels))) /\ DOMAIN services = 1..Len(services)
      /\ runList \in [Ids -> 0..Len(services)] /\ Len(services) \in Nat
      /\ at[w].pc = "close" /\ at[w].pc \in Busy /\ at[w].id \in Ids
  BY OneMoves, SameTunnels, LenProperties DEF WorkerStep, Close, Base, TypeOK, Busy, Places
<1>2. KeepsTable /\ KeepsFile
  BY <1>1, SameTable DEF KeepsFile
<1>3. CASE s = 0
  <2>1. UNCHANGED <<services, strays>> /\ Return(w)
    BY <1>3 DEF Close
  <2>2. KeepsServices /\ Remembers
    BY <1>1, <2>1, SameServices DEF Remembers
  <2>3. Ready(w)'
    BY <1>1, <2>1, <2>2, ReturnReady, SMTT(60)
  <2> QED BY <1>1, <1>2, <2>2, <2>3, SafeFrom DEF Ready
<1>4. CASE s # 0
  <2>1. /\ services' = [services EXCEPT ![s].listener = IF @ = "open" THEN "closed" ELSE @]
        /\ Go(w, "unrun") /\ Strand(IF services[s].listener = "new" THEN {s} ELSE {})
    BY <1>4 DEF Close
  <2>2. s \in 1..Len(services) /\ services[s] \in Service(Len(tunnels))
    BY <1>1, <1>4, ElementOfSeq, SMTT(60)
  <2>3. strays \subseteq strays' /\ (services[s].listener = "new" => s \in strays') /\ Remembers
    BY <1>1, <1>4, <2>1, SMTT(60) DEF Strand, Remembers
  <2> DEFINE r == [services[s] EXCEPT !.listener = IF @ = "open" THEN "closed" ELSE @]
  <2>4. /\ r.t = services[s].t /\ services' = [services EXCEPT ![s] = r] /\ r.listener # "open"
        /\ r.listener = "new" => services[s].listener = "new"
    BY <2>1, <2>2 DEF Service
  <2> HIDE DEF r
  <2>5. /\ DOMAIN services' = DOMAIN services /\ services'[s] = r
        /\ \A u \in DOMAIN services : u # s => services'[u] = services[u]
    BY <1>1, <2>2, <2>4
  <2>6. KeepsServices
    BY <1>1, <2>2, <2>3, <2>4, <2>5 DEF KeepsServices, Live
  <2>7. runList'[at[w].id] \in strays' \/ services'[runList'[at[w].id]].listener \notin {"new", "open"}
    BY <1>1, <2>3, <2>4, <2>5, SMTT(60)
  <2>8. Ready(w)'
    BY <1>1, <2>1, <2>3, <2>7, GoReady, ZenonT(60) DEF Places
  <2> QED BY <1>1, <1>2, <2>3, <2>6, <2>8, SafeFrom, SMTT(60) DEF Ready
<1> QED BY <1>3, <1>4

LEMMA UnrunSafe == ASSUME Base, Base', Safe, NEW w \in Workers, Unrun(w) PROVE Safe'
<1> USE BusyFacts
<1> DEFINE i == at[w].id
           t == tasks[i]
<1>1. /\ Others(w) /\ UNCHANGED <<tasks, saved, services, acked, strays>>
      /\ DOMAIN services = 1..Len(services) /\ tunnels \in Seq(Tunnel) /\ Len(tunnels) \in Nat
      /\ runList \in [Ids -> 0..Len(services)] /\ tasks \in [Ids -> 0..Len(tunnels)]
      /\ at \in [Workers -> Errand(Len(tunnels))]
  BY OneMoves, LenProperties DEF WorkerStep, Unrun, Base, TypeOK
<1>2. at[w].pc = "unrun" /\ at[w].pc \in Busy /\ i \in Ids /\ runList' = [runList EXCEPT ![i] = 0]
  BY DEF Unrun, Busy, Places
<1>3. Held(w) /\ Stopping(w) /\ Removing(w)
  BY DEF Base, Safe
<1>4. Steady
  <2>1. CASE t = 0
    BY <1>1, <2>1, SameTunnels, SMTT(60) DEF Unrun
  <2>2. CASE t # 0
    <3>1. t \in 1..Len(tunnels) /\ tunnels' = [tunnels EXCEPT ![t].status = FALSE]
      BY <1>1, <1>2, <2>2 DEF Unrun
    <3> QED BY <3>1, ObjectSteady
  <2> QED BY <2>1, <2>2
<1>5. reused \subseteq reused' /\ (t \notin {0, at[w].t} => i \in reused') /\ Remembers
  BY <1>1, <1>2, Reusing DEF Unrun, Remembers
<1>6. KeepsTable /\ KeepsFile
  BY <1>1, SameTable DEF KeepsFile
<1>7. KeepsServices
  <2>1. ASSUME NEW s \in DOMAIN services, Live(s), IdOfService(s) = i PROVE FALSE
    <3>1. runList[i] = s /\ s # 0
      BY <2>1, IdsOfServices DEF Safe, Listeners
    <3> QED BY <1>2, <1>3, <2>1, <3>1 DEF Stopping, Stops
  <2> QED BY <1>1, <1>2, <2>1 DEF KeepsServices, Live
<1>8. runList'[i] = 0 /\ at[w].op # "add"
  BY <1>1, <1>2, <1>3 DEF Held
<1>9. Ready(w)'
  <2>1. CASE t = 0
    <3>1. Return(w) \/ \E pc \in {"delete", "get"} : Go(w, pc)
      BY <2>1, SMTT(60) DEF Unrun, AfterStop
    <3>2. ASSUME NEW pc \in {"delete", "get"}, Go(w, pc) PROVE Ready(w)'
      BY <1>1, <1>2, <1>4, <1>5, <1>8, <3>2, GoReady DEF Places
    <3> QED BY <1>1, <1>4, <1>5, <3>1, <3>2, ReturnReady
  <2>2. CASE t # 0
    <3>1. at' = [at EXCEPT ![w].t = t, ![w].pc = "stopped"] /\ (t = at[w].t \/ i \in reused')
      BY <1>5, <2>2 DEF Unrun
    <3> HIDE DEF t
    <3>2. /\ at'[w].t = t /\ at'[w].id = at[w].id /\ at'[w].todo = at[w].todo
          /\ at'[w].pc = "stopped" /\ at'[w].op = at[w].op
      BY <1>1, <3>1 DEF Errand
    <3>3. Adding(w)' /\ Stopping(w)'
      BY <1>8, <3>2 DEF Adding, Stopping
    <3>4. Removing(w)'
      <4>1. /\ at[w].op # "boot" => \A u \in at[w].todo : /\ tunnels'[u].noStore = tunnels[u].noStore
                                                         /\ tunnels'[u].id = tunnels[u].id
            /\ t = at[w].t => tunnels'[t].noStore = tunnels[at[w].t].noStore
        BY <1>2, <1>4, TodoStays
      <4>2. acked' = acked /\ at[w].pc \in Busy /\ Removing(w) /\ reused \subseteq reused'
        BY <1>1, <1>2, <1>3, <1>5
      <4>3. at'[w].op = "reclaim" => tunnels'[at'[w].t].noStore \/ at'[w].id \in reused'
        BY <3>1, <3>2, <4>1, <4>2 DEF Removing
      <4>4. at'[w].op = "reclaim" => \A u \in at'[w].todo : tunnels'[u].noStore
        BY <3>2, <4>1, <4>2 DEF Removing
      <4>5. at'[w].op \in {"add", "del"} => at'[w].id \notin acked' \ reused'
        BY <3>2, <4>2 DEF Removing
      <4>6. at'[w].op = "del" => \A u \in at'[w].todo : tunnels'[u].id \notin acked'
        BY <3>2, <4>1, <4>2 DEF Removing
      <4> QED BY <4>3, <4>4, <4>5, <4>6 DEF Removing
    <3> QED BY <3>3, <3>4 DEF Ready
  <2> QED BY <2>1, <2>2
<1> QED BY <1>1, <1>4, <1>5, <1>6, <1>7, <1>9, SafeFrom DEF Ready

LEMMA ListenSafe == ASSUME Base, Base', Safe, NEW s \in DOMAIN services, Listen(s) PROVE Safe'
<1>1. /\ UNCHANGED <<tunnels, tasks, saved, acked, reused, at>> /\ Steady
      /\ DOMAIN services = 1..Len(services) /\ services[s] \in Service(Len(tunnels))
      /\ runList \in [Ids -> 0..Len(services)]
  BY SameTunnels, LenProperties, ElementOfSeq DEF Listen, Base, TypeOK
<1> DEFINE i == IdOfService(s)
<1>2. i \in Ids /\ s # 0 /\ services[s].listener = "new" /\ s \in 1..Len(services)
  BY IdsOfServices DEF Listen
<1>3. /\ DOMAIN services' = DOMAIN services /\ services'[s].t = services[s].t
      /\ \A u \in DOMAIN services : u # s => services'[u] = services[u]
  <2>1. CASE \E p : services' = [services EXCEPT ![s].listener = "open", ![s].port = p]
    BY <1>1, <1>2, <2>1 DEF Service
  <2>2. CASE services' = [services EXCEPT ![s].listener = "failed"]
    BY <1>1, <1>2, <2>2 DEF Service
  <2> QED BY <2>1, <2>2 DEF Listen
<1>4. \/ runList' = runList /\ (UNCHANGED strays \/ Strand({}))
      \/ /\ runList' = [runList EXCEPT ![i] = 0] /\ Strand({runList[i]} \ {s})
         /\ services' = [services EXCEPT ![s].listener = "failed"]
  BY ZenonT(60) DEF Listen, IdOfService
<1>5. Remembers
  BY <1>1, <1>4 DEF Remembers, Strand
<1>6. KeepsServices
  <2>1. \A u \in DOMAIN services' : u \in DOMAIN services /\ services'[u].t = services[u].t /\ (Live(u)' => Live(u))
    BY <1>2, <1>3, <1>5 DEF Live, Remembers
  <2>2. CASE runList' = runList
    BY <2>1, <2>2 DEF KeepsServices
  <2>3. CASE /\ runList' = [runList EXCEPT ![i] = 0] /\ Strand({runList[i]} \ {s})
             /\ services' = [services EXCEPT ![s].listener = "failed"]
    <3>1. services'[s].listener = "failed"
      BY <1>1, <1>2, <2>3 DEF Service
    <3>2. ASSUME NEW u \in DOMAIN services', Live(u)' PROVE IdOfService(u) # i
      <4>1. u # s /\ Live(u) /\ u \in DOMAIN services /\ u \notin strays'
        BY <2>1, <3>1, <3>2 DEF Live
      <4>2. runList[IdOfService(u)] = u /\ u # 0
        BY <4>1, IdsOfServices DEF Safe, Listeners
      <4> QED BY <2>3, <4>1, <4>2 DEF Strand
    <3> QED BY <1>1, <2>1, <2>3, <3>2 DEF KeepsServices
  <2> QED BY <1>4, <2>2, <2>3
<1>7. Others(Panel) /\ at'[Panel] = at[Panel] /\ Panel \in Workers
  BY <1>1 DEF Others, Workers
<1> QED BY <1>1, <1>5, <1>6, <1>7, SameTable, SafeFrom DEF KeepsFile

LEMMA RunSafe == ASSUME Base, Base', Safe, NEW w \in Workers, Run(w) PROVE Safe'
<1> USE BusyFacts
<1> DEFINE t == at[w].t
           i == tunnels[t].id
           n == Len(services)
<1>1. /\ Others(w) /\ UNCHANGED <<tunnels, tasks, saved, reused>> /\ Steady
      /\ n \in Nat /\ services \in Seq(Service(Len(tunnels))) /\ DOMAIN services = 1..n
      /\ runList \in [Ids -> 0..n] /\ at \in [Workers -> Errand(Len(tunnels))]
  BY OneMoves, SameTunnels, LenProperties DEF WorkerStep, Run, Base, TypeOK
<1>2. at[w].pc = "run" /\ at[w].pc \in Busy /\ t \in 1..Len(tunnels) /\ i \in Ids /\ at[w].id = i
  BY DEF Run, Busy, Places
<1>3. Held(w) /\ Adding(w)
  BY DEF Base, Safe
<1>4. CASE tunnels[t].mode = "tcp"
  <2>1. UNCHANGED <<running, history>> /\ (Return(w) \/ (Go(w, "delete") /\ at[w].op = "add"))
    BY <1>4 DEF Run, AddTaskFails
  <2>2. Remembers /\ KeepsTable /\ KeepsFile /\ KeepsServices
    BY <1>1, <2>1, SameServices, SameTable, SMTT(60) DEF KeepsFile, Remembers
  <2>3. Go(w, "delete") /\ at[w].op = "add" => Ready(w)'
    BY <1>1, <1>2, <2>1, <2>2, GoReady DEF Places
  <2>4. Return(w) => Ready(w)'
    BY <1>1, <2>1, <2>2, ReturnReady
  <2> QED BY <1>1, <2>1, <2>2, <2>3, <2>4, SafeFrom DEF Ready
<1>5. CASE tunnels[t].mode # "tcp"
  <2>1. /\ services' = Append(services, [t |-> t, port |-> tunnels[t].port, listener |-> "new"])
        /\ runList' = [runList EXCEPT ![i] = n + 1]
        /\ Strand({runList[i]} \cup IF tasks[i] # t \/ BeingStopped(w, i) THEN {n + 1} ELSE {})
        /\ acked' = IF at[w].op = "add" THEN acked \cup {i} ELSE acked
        /\ IF at[w].op \in {"start", "edit"} THEN Go(w, "status") ELSE Return(w)
    BY <1>5, ZenonT(60) DEF Run
  <2>2. /\ DOMAIN services' = 1..(n + 1) /\ services'[n + 1].t = t
        /\ \A s \in 1..n : services'[s] = services[s]
    <3> DEFINE r == [t |-> t, port |-> tunnels[t].port, listener |-> "new"]
    <3>1. services' = Append(services, r) /\ r.t = t
      BY <2>1, SMTT(60)
    <3> HIDE DEF r
    <3> QED BY <1>1, <3>1, SMTT(60)
  <2>3. /\ strays \subseteq strays' /\ runList[i] \in strays' \cup {0}
        /\ n + 1 \notin strays' => tasks[i] = t /\ ~BeingStopped(w, i)
    BY <1>1, <2>1 DEF Strand
  <2>4. Acked'
    <3> SUFFICES ASSUME NEW j \in acked' \ reused' PROVE (tasks[j] # 0 /\ ~tunnels[tasks[j]].noStore /\ InFile(j))'
      BY DEF Acked
    <3>1. CASE j \in acked
      BY <1>1, <3>1 DEF Safe, Acked, InFile
    <3>2. CASE j \notin acked
      <4>1. at[w].op = "add" /\ j = i /\ i \notin reused
        BY <1>1, <2>1, <3>2
      <4>2. ~tunnels[t].noStore /\ InFile(i) /\ tasks[i] = t
        BY <1>2, <1>3, <4>1 DEF Adding, InFile
      <4> QED BY <1>1, <1>2, <4>1, <4>2, SMTT(60) DEF InFile
    <3> QED BY <3>1, <3>2
  <2>5. Listeners'
    <3> SUFFICES ASSUME NEW s \in 1..(n + 1), Live(s)'
                 PROVE (runList[IdOfService(s)] = s /\ tasks[IdOfService(s)] = services[s].t)'
      BY <2>2, SMTT(60) DEF Listeners
    <3>1. CASE s = n + 1
      <4>1. tasks[i] = t
        BY <2>3, <3>1, SMTT(60) DEF Live
      <4> QED BY <1>1, <1>2, <2>1, <2>2, <3>1, <4>1 DEF IdOfService
    <3>2. CASE s # n + 1
      <4>1. s \in 1..n /\ services'[s] = services[s] /\ s \notin strays'
        BY <1>1, <2>2, <3>2 DEF Live
      <4>2. Live(s) /\ IdOfService(s)' = IdOfService(s)
        BY <1>1, <2>3, <4>1 DEF Live, IdOfService
      <4>3. runList[IdOfService(s)] = s /\ tasks[IdOfService(s)] = services[s].t
        BY <1>1, <4>1, <4>2 DEF Safe, Listeners
      <4>4. IdOfService(s) # i /\ IdOfService(s) \in Ids
        BY <1>1, <2>3, <4>1, <4>3, IdsOfServices
      <4> QED BY <1>1, <2>1, <4>1, <4>2, <4>3, <4>4
    <3> QED BY <3>1, <3>2
  <2>6. ASSUME NEW v \in Workers \ {w} PROVE Ready(v)'
    <3>1. at'[v] = at[v] /\ Adding(v) /\ Removing(v) /\ Stopping(v) /\ Held(v)
      BY <1>1 DEF Safe, Base, Others
    <3>2. Adding(v)'
      BY <1>1, <3>1 DEF Adding, InFile
    <3>3. Removing(v)'
      <4>1. at[v].op \in {"add", "del"} => acked' = acked
        BY <1>3, <2>1, <2>6, <3>1 DEF Held
      <4> QED BY <1>1, <3>1, <4>1, SMTT(60) DEF Removing
    <3>4. Stopping(v)'
      <4> SUFFICES ASSUME Stops(v) PROVE runList'[at[v].id] = 0 \/ ~Live(runList[at[v].id])'
        BY <3>1 DEF Stopping, Stops
      <4>1. PICK j \in Ids : j = at[v].id
        BY SMTT(60) DEF Stops, Busy, Places
      <4>2. CASE j = i
        <5>1. n + 1 \in strays' /\ runList'[j] = n + 1
          BY <1>1, <1>2, <2>1, <2>3, <2>6, <4>1, <4>2 DEF BeingStopped
        <5> QED BY <3>1, <4>1, <5>1, SMTT(60) DEF Live
      <4>3. CASE j # i
        <5>1. runList'[j] = runList[j] /\ (runList[j] # 0 => runList[j] \in 1..n)
          BY <1>1, <2>1, <4>3
        <5>2. runList[j] = 0 \/ ~Live(runList[j])
          BY <3>1, <4>1 DEF Stopping
        <5>3. runList'[j] = 0 \/ ~Live(runList[j])'
          BY <2>2, <2>3, <5>1, <5>2 DEF Live
        <5> QED BY <3>1, <4>1, <5>3 DEF Live
      <4> QED BY <4>2, <4>3
    <3> QED BY <3>2, <3>3, <3>4 DEF Ready
  <2>7. Ready(w)'
    <3>1. CASE at[w].op = "add"
      <4>1. at'[w] = Idle
        BY <1>1, <1>3, <2>1, <3>1, SMTT(60) DEF Held, Return
      <4> QED BY <4>1 DEF Ready, Adding, Removing, Stopping, Stops, Idle, Busy, Places
    <3>2. CASE at[w].op # "add"
      <4>1. Remembers
        BY <1>1, <2>1, <2>3, <3>2, SMTT(60) DEF Remembers
      <4>2. CASE Go(w, "status")
        BY <1>1, <1>2, <3>2, <4>1, <4>2, GoReady DEF Places
      <4>3. CASE Return(w)
        BY <1>1, <4>1, <4>3, ReturnReady
      <4> QED BY <2>1, <4>2, <4>3, SMTT(60)
    <3> QED BY <3>1, <3>2
  <2> QED BY <2>4, <2>5, <2>6, <2>7, SMTT(60) DEF Safe, Ready
<1> QED BY <1>4, <1>5

LEMMA SourcesSafe ==
  ASSUME Base, Base', Safe, PanelAdd \/ ConfRegister \/ ClientLost \/ PanelDelClient \/ LoopOpen \/ LoopClose
                            \/ \E op \in {"start", "stop", "del", "edit"} : PanelRequest(op)
  PROVE  Safe'
<1> USE DEF Workers
<1>1. /\ Len(tunnels) \in Nat /\ tunnels \in Seq(Tunnel) /\ tasks \in [Ids -> 0..Len(tunnels)]
      /\ at \in [Workers -> Errand(Len(tunnels))]
  BY LenProperties DEF Base, TypeOK
<1>2. InTable \in SUBSET (1..Len(tunnels))
  BY <1>1 DEF InTable
<1>3. UNCHANGED <<tasks, file, running, collisions>> /\ acked' \subseteq acked
  BY DEF PanelAdd, ConfRegister, ClientLost, PanelDelClient, LoopOpen, LoopClose, PanelRequest
<1>4. Remembers /\ KeepsTable /\ KeepsFile /\ KeepsServices
  BY <1>3, SameServices, SameTable DEF KeepsFile, Remembers
<1>5. CASE PanelAdd \/ ConfRegister
  <2>1. PICK w \in {Panel, Conf}, op \in {"add", "register"}, p \in Ports, m \in Modes : Make(w, op, p, m)
    <3>1. CASE PanelAdd
      <4>1. PICK p \in Ports, m \in {"socks5", "tcp+udp"} : Make(Panel, "add", p, m)
        BY <3>1, ZenonT(60) DEF PanelAdd
      <4> QED BY <4>1 DEF Modes
    <3>2. CASE ConfRegister
      <4>1. PICK p \in Ports, m \in Modes : Make(Conf, "register", p, m)
        BY <3>2, ZenonT(60) DEF ConfRegister
      <4> QED BY <4>1
    <3> QED BY <1>5, <3>1, <3>2
  <2> DEFINE n == Len(tunnels)
             r == NewTunnel(NextId, p, m, op = "register")
             e == [op |-> op, pc |-> "new", id |-> NextId, t |-> n + 1, todo |-> {}]
  <2>2. tunnels' = Append(tunnels, r) /\ at' = [at EXCEPT ![w] = e] /\ NextId \in Ids /\ tasks[NextId] = 0
    BY <2>1, NextIdFree DEF Make
  <2>3. r.noStore = (op = "register") /\ e.op = op /\ e.pc = "new" /\ e.id = NextId /\ e.t = n + 1 /\ e.todo = {}
    BY DEF NewTunnel
  <2> HIDE DEF r, e
  <2>4. /\ Len(tunnels') = n + 1 /\ tunnels'[n + 1] = r /\ \A u \in 1..n : tunnels'[u] = tunnels[u]
    BY <1>1, <2>2
  <2>5. Steady
    BY <1>1, <2>4 DEF Steady
  <2>6. at'[w] = e /\ Others(w)
    BY <1>1, <2>2 DEF Others
  <2>7. NextId \notin acked' \ reused'
    BY <1>3, <2>2 DEF Safe, Acked
  <2>8. Ready(w)'
    BY <2>3, <2>4, <2>6, <2>7 DEF Ready, Adding, Removing, Stopping, Stops
  <2> QED BY <1>3, <1>4, <2>5, <2>6, <2>8, SafeFrom DEF Ready
<1>6. CASE ClientLost
  <2>1. UNCHANGED <<tunnels, at>>
    BY <1>6 DEF ClientLost
  <2>2. Steady /\ Others(Panel) /\ at'[Panel] = at[Panel] /\ Panel \in Workers
    BY <1>1, <2>1, SameTunnels DEF Others
  <2> QED BY <1>3, <1>4, <2>2, SafeFrom
<1>7. ASSUME NEW w \in Workers, NEW e, at' = [at EXCEPT ![w] = e], UNCHANGED tunnels,
             /\ e.op = "reclaim" => \A t \in e.todo : tunnels[t].noStore
             /\ e.op = "del" => e.id \notin acked' /\ \A t \in e.todo : tunnels[t].id \notin acked'
             /\ e.op # "add" /\ (e.pc = "delete" => runList[e.id] = 0)
             /\ e.pc \notin {"unrun", "stopped", "saveStop"} /\ (e.op = "reclaim" => e.pc = "next")
      PROVE  Safe'
  <2>1. at'[w] = e /\ Others(w) /\ Steady
    BY <1>1, <1>7, SameTunnels DEF Others
  <2>2. Ready(w)'
    BY <1>3, <1>7, <2>1 DEF Ready, Adding, Removing, Stopping, Stops, Busy
  <2> QED BY <1>3, <1>4, <2>1, <2>2, SafeFrom DEF Ready
<1>8. CASE PanelDelClient
  <2> DEFINE e == [Idle EXCEPT !.op = "del", !.pc = "next", !.todo = InTable]
  <2>1. e.op = "del" /\ e.pc = "next"
    BY DEF Idle
  <2>2. at' = [at EXCEPT ![Panel] = e] /\ acked' = {} /\ UNCHANGED tunnels
    BY <1>8 DEF PanelDelClient
  <2> HIDE DEF e
  <2> QED BY <1>7, <2>1, <2>2
<1>9. CASE LoopOpen
  <2> DEFINE e == [Idle EXCEPT !.op = "start", !.pc = "get", !.id = Head(openTask)]
  <2>1. e.op = "start" /\ e.pc = "get"
    BY DEF Idle
  <2>2. at' = [at EXCEPT ![Loop] = e] /\ UNCHANGED tunnels
    BY <1>9 DEF LoopOpen
  <2> HIDE DEF e
  <2> QED BY <1>7, <2>1, <2>2
<1>10. CASE LoopClose
  <2> DEFINE e == [Idle EXCEPT !.op = "reclaim", !.pc = "next", !.todo = Temporaries]
  <2>1. e.op = "reclaim" /\ e.pc = "next" /\ e.todo = Temporaries
    BY DEF Idle
  <2>2. at' = [at EXCEPT ![Loop] = e] /\ UNCHANGED tunnels
    BY <1>10 DEF LoopClose, Reclaimed
  <2>3. \A t \in Temporaries : tunnels[t].noStore
    BY DEF Temporaries
  <2> HIDE DEF e
  <2> QED BY <1>7, <2>1, <2>2, <2>3
<1>11. CASE \E op \in {"start", "stop", "del", "edit"} : PanelRequest(op)
  <2>1. PICK op \in {"start", "stop", "del", "edit"} : PanelRequest(op)
    BY <1>11
  <2>2. PICK t \in InTable :
          /\ at' = [at EXCEPT ![Panel] = [op |-> op, pc |-> FirstPlace(op, tunnels[t].id), id |-> tunnels[t].id,
                                         t |-> t, todo |-> {}]]
          /\ acked' = IF op = "del" THEN acked \ {tunnels[t].id} ELSE acked
    BY <2>1 DEF PanelRequest
  <2> DEFINE e == [op |-> op, pc |-> FirstPlace(op, tunnels[t].id), id |-> tunnels[t].id, t |-> t, todo |-> {}]
  <2>3. FirstPlace(op, tunnels[t].id) \in {"test", "close", "delete", "edit"}
        /\ (FirstPlace(op, tunnels[t].id) = "delete" => runList[tunnels[t].id] = 0)
    BY DEF FirstPlace, DelTask
  <2>4. /\ e.op = op /\ e.todo = {} /\ e.pc \in {"test", "close", "delete", "edit"}
        /\ (e.pc = "delete" => runList[e.id] = 0) /\ (e.op = "del" => e.id \notin acked')
    BY <2>2, <2>3
  <2>5. at' = [at EXCEPT ![Panel] = e] /\ UNCHANGED tunnels
    BY <2>1, <2>2 DEF PanelRequest
  <2> HIDE DEF e
  <2> QED BY <1>7, <2>4, <2>5
<1> QED BY <1>5, <1>6, <1>8, <1>9, <1>10, <1>11

\* what is loaded is what was acknowledged, and nothing runs
LEMMA CrashSafe == ASSUME Base, Base', Safe, Crash PROVE Safe'
<1>1. /\ tunnels' = Load(saved) /\ tasks' = LoadedTasks(tunnels') /\ at' = InitFromCsv(tunnels')
      /\ services' = <<>> /\ saved' = saved /\ acked' = acked /\ reused' = reused
  BY DEF Crash
<1>2. /\ tunnels' \in Seq(Tunnel) /\ Len(tunnels') \in Nat
      /\ \A t \in 1..Len(tunnels') : tunnels'[t] \in saved /\ ~tunnels'[t].noStore
      /\ \A r \in saved : \E t \in 1..Len(tunnels') : tunnels'[t] = r
      /\ \A t \in 1..Len(tunnels') : tasks'[tunnels'[t].id] = t
  BY <1>1, Loading, LenProperties DEF Base, TypeOK
<1>3. Acked'
  <2> SUFFICES ASSUME NEW i \in acked' \ reused' PROVE (tasks[i] # 0 /\ ~tunnels[tasks[i]].noStore /\ InFile(i))'
    BY DEF Acked
  <2>1. PICK r \in saved : r.id = i
    BY <1>1 DEF Safe, Acked, InFile
  <2>2. PICK t \in 1..Len(tunnels') : tunnels'[t] = r
    BY <1>2
  <2>3. tasks'[i] = t /\ t # 0 /\ ~tunnels'[t].noStore
    BY <1>2, <2>1, <2>2
  <2> QED BY <1>1, <2>1, <2>3 DEF InFile
<1>4. Listeners'
  <2>1. DOMAIN services' = {}
    BY <1>1
  <2> QED BY <2>1 DEF Listeners
<1>5. \A w \in Workers : Ready(w)'
  <2>1. \A w \in Workers : at'[w] = Idle \/ (at'[w].op = "boot" /\ at'[w].pc = "next")
    BY <1>1, <1>2, Booting
  <2> QED BY <2>1 DEF Ready, Adding, Removing, Stopping, Stops, Idle, Busy, Places
<1> QED BY <1>3, <1>4, <1>5 DEF Safe, Ready

LEMMA InitSafe == ASSUME Init PROVE Safe
<1>1. /\ tunnels = Load(saved) /\ tasks = LoadedTasks(tunnels) /\ at = InitFromCsv(tunnels)
      /\ services = <<>> /\ acked = {r.id : r \in saved} /\ Base
  BY InitBase DEF Init
<1>2. /\ tunnels \in Seq(Tunnel) /\ Len(tunnels) \in Nat
      /\ \A t \in 1..Len(tunnels) : tunnels[t] \in saved /\ ~tunnels[t].noStore
      /\ \A r \in saved : \E t \in 1..Len(tunnels) : tunnels[t] = r
      /\ \A t \in 1..Len(tunnels) : tasks[tunnels[t].id] = t
  BY <1>1, Loading, LenProperties, SMTT(60), ZenonT(60) DEF Base, TypeOK
<1>3. Acked
  <2> SUFFICES ASSUME NEW i \in acked \ reused PROVE tasks[i] # 0 /\ ~tunnels[tasks[i]].noStore /\ InFile(i)
    BY DEF Acked
  <2>1. PICK r \in saved : r.id = i
    BY <1>1
  <2>2. PICK t \in 1..Len(tunnels) : tunnels[t] = r
    BY <1>2
  <2>3. tasks[i] = t /\ t # 0 /\ ~tunnels[t].noStore
    BY <1>2, <2>1, <2>2
  <2> QED BY <2>1, <2>3 DEF InFile
<1>4. Listeners
  <2>1. DOMAIN services = {}
    BY <1>1
  <2> QED BY <2>1 DEF Listeners
<1>5. \A w \in Workers : Ready(w)
  <2>1. \A w \in Workers : at[w] = Idle \/ (at[w].op = "boot" /\ at[w].pc = "next")
    BY <1>1, <1>2, Booting
  <2> QED BY <2>1 DEF Ready, Adding, Removing, Stopping, Stops, Idle, Busy, Places
<1> QED BY <1>3, <1>4, <1>5 DEF Safe, Ready

LEMMA SafeStep == ASSUME Base, Base', Safe, [Next]_vars PROVE Safe'
<1> USE DEF Workers
<1>1. CASE UNCHANGED vars
  <2>1. UNCHANGED <<tunnels, tasks, saved, services, runList, at, acked, reused, strays>>
    BY <1>1 DEF vars
  <2> QED BY <2>1 DEF Safe, Acked, Listeners, Adding, Removing, Stopping, Stops, Live, IdOfService, InFile
<1>2. CASE \E w \in Workers : WorkerStep(w) \/ SaveFails(w)
  BY <1>2, Next1Safe, PlacesSafe, SaveSafe, TableSafe, DeleteSafe, CloseSafe, UnrunSafe, RunSafe DEF WorkerStep
<1>3. CASE Edit \/ Probe \/ SendOpen \/ SendFailed
  BY <1>3, TableSafe, PlacesSafe
<1>4. CASE \E s \in DOMAIN services : Listen(s)
  BY <1>4, ListenSafe
<1>5. CASE Crash
  BY <1>5, CrashSafe
<1> QED BY <1>1, <1>2, <1>3, <1>4, <1>5, SourcesSafe, SMTT(60) DEF Next, GoesOn, PanelNext

LEMMA SafeHolds == Spec => []Safe
<1>1. Init => Safe
  BY InitSafe
<1>2. Base /\ Base' /\ Safe /\ [Next]_vars => Safe'
  BY SafeStep
<1> QED BY <1>1, <1>2, BaseHolds, PTL DEF Spec

\* A tunnel whose creation was acknowledged, and whose deletion nobody has asked for,
\* is in the file after any failed save, any crash and whatever is done meanwhile,
\* unless an operation on another tunnel has met it under its id.
THEOREM AckedIsKept == Spec => []AckedSurvives
<1>1. Safe => AckedSurvives
  BY DEF AckedSurvives, Safe, Acked, InFile
<1> QED BY <1>1, SafeHolds, PTL

\* Every open listener is reached through the list and the table, at every place of
\* every goroutine that starts, stops, edits or deletes, and whatever has happened to
\* other services, unless its own service lost its entry in one of the five ways that
\* strays takes down.
THEOREM ListenersAreReached == Spec => []NoLeakedListener
<1>1. Safe => NoLeakedListener
  BY DEF NoLeakedListener, Safe, Listeners, Live, IdOfService
<1> QED BY <1>1, SafeHolds, PTL

==============================================================================
