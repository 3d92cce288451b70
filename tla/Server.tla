------------------------------- MODULE Server -------------------------------
(* server/server.go with the tunnels of lib/file: the table of tunnels and   *)
(* its file, the list of running services, and the goroutines that work on   *)
(* them: requests of the panel, DealBridgeTask, a client that registers its  *)
(* own tunnels (getConfig, NEW_TASK) and the start after a crash.  Tunnels   *)
(* are objects shared by pointer; operations find them by id, and ids are    *)
(* used again.                                                               *)
EXTENDS Integers, FiniteSets, SequencesExt

CONSTANTS
  Panel, Loop, Conf, Main, \* goroutines: requests, DealBridgeTask, getConfig, start
  Ports,
  MaxTunnels,    \* bound on ids, on tunnels made and on services started
  MaxRequests, MaxRegisters, MaxCloses, \* how often each source of work acts
  MaxFaults,     \* crashes and failed saves
  MaxWork,       \* all of these together
  MaxSeen,       \* InitFromCsv comes by a tunnel registered meanwhile up to this number
  ChanSize       \* capacity of the channels OpenTask and CloseClient

ASSUME ServerAssumption ==
  /\ {MaxTunnels, ChanSize} \subseteq Nat \ {0}
  /\ {MaxRequests, MaxRegisters, MaxCloses, MaxFaults, MaxWork, MaxSeen} \subseteq Nat
  /\ Cardinality({Panel, Loop, Conf, Main}) = 4 /\ Ports # {}

Ids == 1..MaxTunnels
Workers == {Panel, Loop, Conf, Main}
\* socks5 stands for the modes whose Start reports that it failed; NewMode knows no
\* mode "tcp"; rawKey is shadowsocks with a key that AddTask has still to normalise
Modes == {"socks5", "tcp+udp", "tcp", "rawKey"}

VARIABLES
  tunnels,  \* every Tunnel made; noStore: a client has registered it
  tasks,    \* JsonDb.Tasks: number of the tunnel with this id, or 0
  saved,    \* tasks.json
  lost,     \* the last save failed
  services, \* every Service made by NewMode
  runList,  \* RunList: number of the service started for this id, or 0
  openTask, closeClient, \* the channels: ids; how many times the client's id
  at,       \* per goroutine: operation, place in it, id, tunnel, what is left to do
  left,     \* how much work is still to come from each source
  \* history, which guards no step:
  acked,    \* ids of tunnels whose creation was acknowledged, not deleted since
  reused,   \* ids under which an operation on one tunnel met another one
  strays,   \* services that lost their entry, or their tunnel, to what went on meanwhile
  spared    \* tunnels put back after they were deleted, or whose deletion was given up

table == <<tunnels, tasks>>
file == <<saved, lost>>
running == <<services, runList>>
chans == <<openTask, closeClient>>
collisions == <<reused, strays, spared>>
history == <<acked, collisions>>
vars == <<table, file, running, chans, at, left, history>>

Idle == [op |-> "none", pc |-> "idle", id |-> 0, t |-> 0, todo |-> {}]

Operations == {"none", "add", "start", "stop", "del", "edit", "register", "boot", "reclaim"}
Places == {"idle", "next", "new", "saveNew", "probe", "fail", "test", "run", "get",
           "saveKey", "open", "status", "saveStart", "edit", "saveEdit", "close", "unrun",
           "stopped", "saveStop", "delete", "saveDel"}

Tunnel == [id : Ids, port : Ports, mode : Modes, status : BOOLEAN, noStore : BOOLEAN]
StoredTunnel == [id : Ids, port : Ports, mode : Modes, status : BOOLEAN, noStore : {FALSE}]
Service(n) == [t : 1..n, port : Ports, listener : {"new", "open", "closed", "failed"}]
Errand(n) == [op : Operations, pc : Places, id : 0..MaxTunnels, t : 0..n,
              todo : SUBSET Nat]
Work == [requests : 0..MaxRequests, registers : 0..MaxRegisters, closes : 0..MaxCloses,
         faults : 0..MaxFaults]

TypeOK ==
  /\ tunnels \in Seq(Tunnel) /\ tasks \in [Ids -> 0..Len(tunnels)]
  /\ saved \subseteq StoredTunnel /\ lost \in BOOLEAN
  /\ services \in Seq(Service(Len(tunnels))) /\ runList \in [Ids -> 0..Len(services)]
  /\ openTask \in Seq(Ids) /\ Len(openTask) <= ChanSize /\ closeClient \in 0..ChanSize
  /\ at \in [Workers -> Errand(Len(tunnels))]
  /\ left \in Work /\ acked \subseteq Ids /\ reused \subseteq Ids
  /\ strays \subseteq 1..Len(services) /\ spared \subseteq 1..Len(tunnels)

InTable == {tasks[i] : i \in Ids} \ {0}

\* what StoreTasksToJsonFile writes
Stored == {tunnels[t] : t \in {u \in InTable : ~tunnels[u].noStore}}

Listening(p) == \E s \in DOMAIN services : services[s].listener = "open" /\ services[s].port = p

NewTunnel(i, p, m, client) ==
  [id |-> i, port |-> p, mode |-> m, status |-> TRUE, noStore |-> client]

\* the program starts: it loads the tunnels.  InitFromCsv ranges over the table while
\* clients may register already: what they add meanwhile it may come by, or not.
Load(f) == SetToSeq(f)
LoadedTasks(ts) ==
  [i \in Ids |-> IF \E t \in DOMAIN ts : ts[t].id = i THEN CHOOSE t \in DOMAIN ts : ts[t].id = i ELSE 0]
NotRunning == [i \in Ids |-> 0]
InitFromCsv(ts) ==
  [w \in Workers |->
     IF w = Main THEN [Idle EXCEPT !.op = "boot", !.pc = "next", !.todo = DOMAIN ts \cup 1..MaxSeen]
     ELSE Idle]

Init ==
  /\ saved \in {{}, {NewTunnel(1, CHOOSE p \in Ports : TRUE, "rawKey", FALSE)}}
  /\ tunnels = Load(saved) /\ tasks = LoadedTasks(tunnels) /\ at = InitFromCsv(tunnels)
  /\ services = <<>> /\ runList = NotRunning
  /\ openTask = <<>> /\ closeClient = 0
  /\ left = [requests |-> MaxRequests, registers |-> MaxRegisters,
             closes |-> MaxCloses, faults |-> MaxFaults]
  /\ acked = {r.id : r \in saved}
  /\ lost = FALSE /\ reused = {} /\ strays = {} /\ spared = {}

-----------------------------------------------------------------------------
Go(w, pc) == at' = [at EXCEPT ![w].pc = pc]

\* room for one more in a channel (mutant: one too many)
RoomLate(n) == n <= ChanSize
Room(n) == n < ChanSize

\* DelTask: is it running? (mutant: it does not look)
DelTaskOnly(i) == "delete"
DelTask(i) == IF runList[i] # 0 THEN "close" ELSE "delete"

\* w has done with a tunnel, and goes on to the next one if it has several
Return(w) == at' = [at EXCEPT ![w] = IF @.todo = {} THEN Idle ELSE [@ EXCEPT !.pc = "next"]]

\* an operation on tunnel t by the id i, and what it takes from another tunnel's service
Meets(i, t) == tasks[i] \notin {0, t}
Reuse(i, t) == reused' = IF Meets(i, t) THEN reused \cup {i} ELSE reused
Strand(S) == strays' = strays \cup (S \ {0})

\* Tasks.Store by the id of t
Store(t) ==
  LET i == tunnels[t].id
  IN  /\ tasks' = [tasks EXCEPT ![i] = t]
      /\ Reuse(i, t)
      /\ Strand(IF Meets(i, t) THEN {runList[i]} ELSE {})

\* one more from a source of work, as long as there is to be any
Spent == (MaxRequests - left.requests) + (MaxRegisters - left.registers)
         + (MaxCloses - left.closes) + (MaxFaults - left.faults)
Spend(source) ==
  /\ left[source] > 0 /\ Spent < MaxWork
  /\ left' = [left EXCEPT ![source] = @ - 1]

\* the next tunnel of InitFromCsv or of DelTunnelAndHostByClientId, in any order
Due(t) == t \in InTable /\ tunnels[t].status

Next1(w) ==
  /\ at[w].pc = "next"
  /\ \/ /\ IF at[w].op = "boot" THEN \A t \in at[w].todo : Due(t) => tunnels[t].noStore
           ELSE at[w].todo = {}
        /\ at' = [at EXCEPT ![w] = Idle]
     \/ \E t \in at[w].todo :
          /\ at[w].op = "boot" => Due(t)
          /\ at' = [at EXCEPT ![w].t = t, ![w].id = tunnels[t].id, ![w].todo = @ \ {t},
                              ![w].pc = IF at[w].op = "boot" THEN "test" ELSE DelTask(tunnels[t].id)]
  /\ UNCHANGED <<table, file, running, chans, left, history>>

-----------------------------------------------------------------------------
\* GetTaskId: the smallest id that is not in the table now
FreeIds == {i \in Ids : tasks[i] = 0}
NextId == CHOOSE i \in FreeIds : \A j \in FreeIds : i <= j

Make(w, op, p, m) ==
  /\ FreeIds # {} /\ Len(tunnels) < MaxTunnels
  /\ tunnels' = Append(tunnels, NewTunnel(NextId, p, m, op = "register"))
  /\ at' = [at EXCEPT ![w] = [op |-> op, pc |-> "new", id |-> NextId,
                              t |-> Len(tunnels) + 1, todo |-> {}]]

\* IndexController.Add, createOne: a free port of the panel's modes
PanelAdd ==
  /\ at[Panel].pc = "idle" /\ at[Main].pc = "idle"
  /\ Spend("requests")
  /\ \E p \in Ports, m \in {"socks5", "tcp+udp"} : ~Listening(p) /\ Make(Panel, "add", p, m)
  /\ UNCHANGED <<tasks, file, running, chans, history>>

\* getConfig, NEW_TASK: the client chooses any mode; a port it has already is skipped
ConfRegister ==
  /\ at[Conf].pc = "idle"
  /\ Spend("registers")
  /\ \E p \in Ports, m \in Modes :
       /\ \A t \in InTable : tunnels[t].noStore => tunnels[t].port # p
       /\ Make(Conf, "register", p, m)
  /\ UNCHANGED <<tasks, file, running, chans, history>>

\* NewTask: Store by the id that was free
NewTask(w) ==
  /\ at[w].pc = "new"
  /\ Store(at[w].t)
  /\ Go(w, "saveNew")
  /\ UNCHANGED <<tunnels, file, running, chans, left, acked, spared>>

\* getConfig: TestServerPort, ...
Probe ==
  /\ at[Conf].pc = "probe"
  /\ Go(Conf, IF Listening(tunnels[at[Conf].t].port) THEN "fail" ELSE "open")
  /\ UNCHANGED <<table, file, running, chans, left, history>>

\* ... then OpenTask, when there is room; a failure ends in DelClient
SendOpen ==
  /\ at[Conf].pc = "open" /\ Room(Len(openTask))
  /\ openTask' = Append(openTask, at[Conf].id)
  /\ Return(Conf)
  /\ UNCHANGED <<table, file, running, closeClient, left, history>>

SendFailed ==
  /\ at[Conf].pc = "fail" /\ Room(closeClient)
  /\ closeClient' = closeClient + 1
  /\ Return(Conf)
  /\ UNCHANGED <<table, file, running, openTask, left, history>>

\* DelClient of a client that is lost, expired or switched off
ClientLost ==
  /\ Spend("closes") /\ Room(closeClient)
  /\ closeClient' = closeClient + 1
  /\ UNCHANGED <<table, file, running, openTask, at, history>>

-----------------------------------------------------------------------------
\* UpdateTask stores what it is given, also what has been deleted in between
UpdateTask(t) ==
  /\ Store(t)
  /\ spared' = IF tasks[tunnels[t].id] = 0 THEN spared \cup {t} ELSE spared

\* AddTask: a shadowsocks key that was never normalised is, and saved; ...
Normalize(w) ==
  LET t == at[w].t
  IN  /\ at[w].pc = "test" /\ tunnels[t].mode = "rawKey"
      /\ tunnels' = [tunnels EXCEPT ![t].mode = "socks5"]
      /\ UpdateTask(t)
      /\ Go(w, "saveKey")
      /\ UNCHANGED <<file, running, chans, left, acked>>

\* ... TestServerPort, ...
AddTaskFails(w) == IF at[w].op = "add" THEN Go(w, "delete") ELSE Return(w)

Test(w) ==
  /\ at[w].pc = "test" /\ tunnels[at[w].t].mode # "rawKey"
  /\ IF Listening(tunnels[at[w].t].port) THEN AddTaskFails(w) ELSE Go(w, "run")
  /\ UNCHANGED <<table, file, running, chans, left, history>>

\* v has looked at what runs, and is about to take the entry off the list or the tunnel
\* out of the table
Stops(v) ==
  \/ at[v].pc = "unrun"
  \/ at[v].op \in {"del", "reclaim"} /\ at[v].pc \in {"stopped", "saveStop", "delete"}
BeingStopped(w, i) == \E v \in Workers \ {w} : at[v].id = i /\ Stops(v)

\* ... NewMode, RunList.Store and the goroutine that starts the service
Run(w) ==
  LET t == at[w].t
      i == tunnels[t].id
      s == Len(services) + 1
  IN  /\ at[w].pc = "run"
      /\ IF tunnels[t].mode = "tcp"
           THEN AddTaskFails(w) /\ UNCHANGED <<running, history>>
           ELSE /\ services' = Append(services, [t |-> t, port |-> tunnels[t].port, listener |-> "new"])
                /\ runList' = [runList EXCEPT ![i] = s]
                /\ acked' = IF at[w].op = "add" THEN acked \cup {i} ELSE acked
                /\ Strand({runList[i]} \cup IF tasks[i] # t \/ BeingStopped(w, i) THEN {s} ELSE {})
                /\ UNCHANGED <<reused, spared>>
                /\ IF at[w].op \in {"start", "edit"} THEN Go(w, "status") ELSE Return(w)
      /\ UNCHANGED <<table, file, chans, left>>

\* the goroutine of the service: if Start fails it deletes the entry by the id.
\* Start of a multiService returns at once, and what its listeners do is lost.
Listen(s) ==
  LET t == services[s].t
      i == tunnels[t].id
      multi == tunnels[t].mode = "tcp+udp"
      p == IF multi THEN services[s].port ELSE tunnels[t].port
  IN  /\ services[s].listener = "new"
      /\ IF ~Listening(p)
           THEN /\ services' = [services EXCEPT ![s].listener = "open", ![s].port = p]
                /\ UNCHANGED <<runList, strays>>
           ELSE /\ services' = [services EXCEPT ![s].listener = "failed"]
                /\ runList' = IF multi THEN runList ELSE [runList EXCEPT ![i] = 0]
                /\ Strand(IF multi THEN {} ELSE {runList[i]} \ {s})
      /\ UNCHANGED <<table, file, chans, at, left, acked, reused, spared>>

\* StartTask: GetTask, AddTask, Status, UpdateTask
GetTask(w) ==
  /\ at[w].pc = "get"
  /\ IF tasks[at[w].id] = 0 THEN Return(w)
     ELSE at' = [at EXCEPT ![w].t = tasks[at[w].id], ![w].pc = "test"]
  /\ UNCHANGED <<table, file, running, chans, left, history>>

Started(w) ==
  /\ at[w].pc = "status"
  /\ tunnels' = [tunnels EXCEPT ![at[w].t].status = TRUE]
  /\ UpdateTask(at[w].t)
  /\ Go(w, "saveStart")
  /\ UNCHANGED <<file, running, chans, left, acked>>

-----------------------------------------------------------------------------
\* StopServer: Load and Close, which does nothing before Start has its listener; ...
Close(w) ==
  LET s == runList[at[w].id]
  IN  /\ at[w].pc = "close"
      /\ IF s = 0
           THEN /\ Return(w)
                /\ spared' = IF at[w].op \in {"del", "reclaim"} THEN spared \cup {at[w].t} ELSE spared
                /\ UNCHANGED <<services, strays>>
           ELSE /\ services' = [services EXCEPT ![s].listener = IF @ = "open" THEN "closed" ELSE @]
                /\ Strand(IF services[s].listener = "new" THEN {s} ELSE {})
                /\ Go(w, "unrun")
                /\ UNCHANGED spared
      /\ UNCHANGED <<table, file, runList, chans, left, acked, reused>>

\* what follows StopServer
AfterStop(w) == CASE at[w].op \in {"del", "reclaim"} -> Go(w, "delete")
                  [] at[w].op = "edit" -> Go(w, "get")
                  [] OTHER -> Return(w)

\* ... RunList.Delete, GetTask and Status, ...
Unrun(w) ==
  LET t == tasks[at[w].id]
  IN  /\ at[w].pc = "unrun"
      /\ runList' = [runList EXCEPT ![at[w].id] = 0]
      /\ IF t = 0 THEN AfterStop(w) /\ UNCHANGED tunnels
         ELSE /\ tunnels' = [tunnels EXCEPT ![t].status = FALSE]
              /\ at' = [at EXCEPT ![w].t = t, ![w].pc = "stopped"]
      /\ Reuse(at[w].id, at[w].t)
      /\ UNCHANGED <<tasks, file, services, chans, left, acked, strays, spared>>

\* ... UpdateTask (mutant: it is not saved)
StoppedUnsaved(w) ==
  /\ at[w].pc = "stopped"
  /\ UpdateTask(at[w].t)
  /\ AfterStop(w)
  /\ UNCHANGED <<tunnels, file, running, chans, left, acked>>

Stopped(w) ==
  /\ at[w].pc = "stopped"
  /\ UpdateTask(at[w].t)
  /\ Go(w, "saveStop")
  /\ UNCHANGED <<tunnels, file, running, chans, left, acked>>

Delete(w) ==
  /\ at[w].pc = "delete"
  /\ tasks' = [tasks EXCEPT ![at[w].id] = 0]
  /\ Reuse(at[w].id, at[w].t)
  /\ Strand(IF at[w].op = "add" THEN {runList[at[w].id]} ELSE {})
  /\ Go(w, "saveDel")
  /\ UNCHANGED <<tunnels, file, running, chans, left, acked, spared>>

-----------------------------------------------------------------------------
\* the requests of the panel for a tunnel that it shows
FirstPlace(op, i) == CASE op = "start" -> "test"
                       [] op = "stop" -> "close"
                       [] op = "del" -> DelTask(i)
                       [] op = "edit" -> "edit"

PanelRequest(op) ==
  /\ at[Panel].pc = "idle" /\ at[Main].pc = "idle"
  /\ Spend("requests")
  /\ \E t \in InTable :
       LET i == tunnels[t].id
       IN  /\ at' = [at EXCEPT ![Panel] = [op |-> op, pc |-> FirstPlace(op, i), id |-> i, t |-> t, todo |-> {}]]
           /\ acked' = IF op = "del" THEN acked \ {i} ELSE acked
  /\ UNCHANGED <<table, file, running, chans, collisions>>

\* ClientController.Del: all tunnels of the client
PanelDelClient ==
  /\ at[Panel].pc = "idle" /\ at[Main].pc = "idle" /\ InTable # {}
  /\ Spend("requests")
  /\ at' = [at EXCEPT ![Panel] = [Idle EXCEPT !.op = "del", !.pc = "next", !.todo = InTable]]
  /\ acked' = {}
  /\ UNCHANGED <<table, file, running, chans, collisions>>

\* IndexController.Edit changes the object itself, also when it then refuses the port
Edit ==
  LET t == at[Panel].t
  IN  /\ at[Panel].pc = "edit"
      /\ \E p \in Ports :
           /\ tunnels' = [tunnels EXCEPT ![t].port = p]
           /\ IF p # tunnels[t].port /\ Listening(p)
                THEN Return(Panel) /\ UNCHANGED <<tasks, collisions>>
                ELSE Go(Panel, "saveEdit") /\ UpdateTask(t)
      /\ UNCHANGED <<file, running, chans, left, acked>>

PanelNext ==
  \/ PanelAdd \/ PanelDelClient \/ Edit
  \/ \E op \in {"start", "stop", "del", "edit"} : PanelRequest(op)

\* DealBridgeTask takes from either channel
LoopOpen ==
  /\ at[Loop].pc = "idle" /\ openTask # <<>>
  /\ openTask' = Tail(openTask)
  /\ at' = [at EXCEPT ![Loop] = [Idle EXCEPT !.op = "start", !.pc = "get", !.id = Head(openTask)]]
  /\ UNCHANGED <<table, file, running, closeClient, left, history>>

\* DelTunnelAndHostByClientId: what goes with the client (mutant: only what runs)
Temporaries == {t \in InTable : tunnels[t].noStore}
ReclaimedIfRunning == {t \in Temporaries : runList[tunnels[t].id] # 0}
Reclaimed == Temporaries

LoopClose ==
  /\ at[Loop].pc = "idle" /\ closeClient > 0
  /\ closeClient' = closeClient - 1
  /\ at' = [at EXCEPT ![Loop] = [Idle EXCEPT !.op = "reclaim", !.pc = "next", !.todo = Reclaimed]]
  /\ UNCHANGED <<table, file, running, openTask, left, history>>

-----------------------------------------------------------------------------
AfterSave(w) ==
  CASE at[w].pc = "saveNew" -> Go(w, IF at[w].op = "register" THEN "probe" ELSE "test")
    [] at[w].pc = "saveKey" -> Go(w, "test")
    [] at[w].pc = "saveEdit" -> Go(w, "close")
    [] at[w].pc = "saveStop" -> AfterStop(w)
    [] OTHER -> Return(w)

\* only NewTask and DelTask look at the error of the save (mutant: nobody does)
IgnoreFailedSave(w) == AfterSave(w)
AfterFailedSave(w) ==
  CASE at[w].pc = "saveNew" /\ at[w].op = "register" -> Go(w, "fail")
    [] at[w].pc = "saveNew" /\ at[w].op = "add" -> Return(w)
    [] OTHER -> AfterSave(w)

Saving(w) == at[w].pc \in {"saveNew", "saveKey", "saveEdit", "saveStop", "saveStart", "saveDel"}

\* StoreTasksToJsonFile: a temporary file that is renamed, under a lock
Save(w) ==
  /\ Saving(w)
  /\ saved' = Stored /\ lost' = FALSE
  /\ AfterSave(w)
  /\ UNCHANGED <<table, running, chans, left, history>>

SaveFails(w) ==
  /\ Saving(w)
  /\ Spend("faults")
  /\ lost' = TRUE
  /\ AfterFailedSave(w)
  /\ UNCHANGED <<table, saved, running, chans, history>>

Crash ==
  /\ Spend("faults")
  /\ tunnels' = Load(saved) /\ tasks' = LoadedTasks(tunnels') /\ at' = InitFromCsv(tunnels')
  /\ services' = <<>> /\ runList' = NotRunning
  /\ openTask' = <<>> /\ closeClient' = 0
  /\ lost' = FALSE /\ strays' = {} /\ spared' = {}
  /\ UNCHANGED <<saved, acked, reused>>

-----------------------------------------------------------------------------
WorkerStep(w) ==
  \/ Next1(w) \/ NewTask(w) \/ Normalize(w) \/ Test(w) \/ Run(w) \/ GetTask(w) \/ Started(w)
  \/ Close(w) \/ Unrun(w) \/ Stopped(w) \/ Delete(w) \/ Save(w)

\* what the goroutines do without new work and without faults
GoesOn ==
  \/ \E w \in Workers : WorkerStep(w)
  \/ Edit \/ Probe \/ SendOpen \/ SendFailed \/ LoopOpen \/ LoopClose
  \/ \E s \in DOMAIN services : Listen(s)

Next ==
  \/ GoesOn \/ PanelNext \/ ConfRegister \/ ClientLost
  \/ \E w \in Workers : SaveFails(w)
  \/ Crash

Spec == Init /\ [][Next]_vars /\ WF_vars(GoesOn)

-----------------------------------------------------------------------------
\* When nobody is between a change and its save the file holds the ids and the
\* status of exactly the tunnels in the table, whoever saved last.
Unsaved(w) == Saving(w) \/ at[w].pc = "stopped"
FileUpToDate ==
  lost \/ (\E w \in Workers : Unsaved(w))
  \/ {<<r.id, r.status>> : r \in saved} = {<<r.id, r.status>> : r \in Stored}

\* A tunnel whose creation was acknowledged is in the file until its deletion is asked
\* for, whatever fails and crashes and whatever is stopped, unless an operation on another
\* tunnel has met it, or what came after it, under its id.
AckedSurvives == \A i \in acked \ reused : \E r \in saved : r.id = i

\* A listener that is open can be stopped: its service is in the list under the id of
\* a tunnel in the table, also while goroutines are at work on it.  It is lost in five
\* ways and no other: its own Close comes before Start has the listener; it is started
\* again while it is in the list; the failed Start of another service of its id deletes
\* its entry; it starts without its tunnel in the table, or while that is being stopped
\* or deleted; its id goes to another tunnel, or the failed creation of it.
NoLeakedListener ==
  \A s \in DOMAIN services :
    services[s].listener = "open" =>
      LET t == services[s].t
      IN  s \in strays \/ (runList[tunnels[t].id] = s /\ tasks[tunnels[t].id] = t)

\* Tunnels that a client has registered go when the client is lost, for good and also
\* when DealBridgeTask hears of that before it hears of the tunnels, except those that
\* another goroutine puts back or has stopped between DelTask and its StopServer.
NoMoreRegisters == left.registers = 0 \/ Spent >= MaxWork
TemporariesGo ==
  (closeClient > 0 /\ NoMoreRegisters /\ at[Conf].pc = "idle") ~> [](Temporaries \subseteq spared)
=============================================================================
