------------------------------- MODULE Bridge -------------------------------
(* bridge/bridge.go: what the server keeps of one client.  The map           *)
(* Bridge.Client leads from the client's id to an entry with a signal and a  *)
(* tunnel.  A goroutine that has loaded an entry keeps the pointer, also     *)
(* when the map has moved on; so entries are numbered and never reused.      *)
EXTENDS LinkConns

CONSTANTS MaxRetry, \* ping evicts a half connected client after so many ticks
          Registers, \* somebody uses the key to register the client again
          PingLoop, ConfigLoop, \* the goroutines in ping and in getConfig,
  Panel \* and whoever switches the client off, or deletes it

ASSUME BridgeAssumption ==
  MaxRetry \in Nat \ {0} /\ Registers \in BOOLEAN
  /\ PingLoop # ConfigLoop /\ Panel \notin {PingLoop, ConfigLoop}
  /\ {PingLoop, ConfigLoop, Panel} \cap Gens = {}

VARIABLES
  entries,    \* every entry made: generations of signal and tunnel, 0 for nil
  client,     \* what the map holds for the id: a number of an entry, or 0
  main, chan, \* cliProcess and typeDeal, for each signal and each tunnel
  health,     \* GetHealthFromClient for each signal
  conf,       \* getConfig of a client that registers itself
  del,        \* DelClient, for each goroutine that calls it
  orphaned    \* history: a new signal was put into an entry that DelClient drops

bridgeVars == <<entries, client, main, chan, health, conf, del, orphaned>>

\* the goroutines that call DelClient: one per signal, ping, getConfig, the panel
Callers == Gens \cup {PingLoop, ConfigLoop, Panel}
Idle == [pc |-> "idle", entry |-> 0]

NewClient(s, t) == [signal |-> s, tunnel |-> t, retryTime |-> 0]

Entry == [signal : 0..MaxGen, tunnel : 0..MaxGen, retryTime : 0..MaxRetry]

\* where the goroutines are, with the entry that they have loaded; old: the signal that
\* is to be closed
Main(n) == [pc : {"none", "swap", "close", "done"}, entry : 0..n, old : 0..MaxGen]
Chan(n) == [pc : {"none", "swap", "done"}, entry : 0..n]
Conf(n) == [pc : {"read", "clear", "registered", "end"}, entry : 0..n]
Del(n) == [pc : {"idle", "load", "take", "delete"}, entry : 0..n]

BridgeTypeOK ==
  /\ entries \in Seq(Entry)
  /\ client \in 0..Len(entries)
  /\ main \in [Gens -> Main(Len(entries))]
  /\ chan \in [Gens -> Chan(Len(entries))]
  /\ health \in [Gens -> {"none", "run", "end"}]
  /\ conf \in Conf(Len(entries))
  /\ del \in [Callers -> Del(Len(entries))]
  /\ orphaned \in BOOLEAN

Handler == [pc |-> "none", entry |-> 0]
MainHandler == [pc |-> "none", entry |-> 0, old |-> 0]

BridgeInit ==
  /\ entries = <<>> /\ client = 0
  /\ main = [g \in Gens |-> MainHandler] /\ chan = [g \in Gens |-> Handler]
  /\ health = [g \in Gens |-> "none"]
  /\ conf = [pc |-> IF Registers THEN "read" ELSE "end", entry |-> 0]
  /\ del = [t \in Callers |-> Idle]
  /\ orphaned = FALSE

-----------------------------------------------------------------------------
\* cliProcess has read the handshake (of a connection that is closed meanwhile it
\* may, or may not); typeDeal(WORK_MAIN): LoadOrStore; a new entry is complete at once, and then
\* GetHealthFromClient is started
MainLoadOrStore(g) ==
  /\ main[g].pc = "none" /\ sig[g] # "none"
  /\ IF client = 0
       THEN /\ entries' = Append(entries, NewClient(g, 0))
            /\ client' = Len(entries) + 1
            /\ main' = [main EXCEPT ![g].pc = "done"]
            /\ health' = [health EXCEPT ![g] = "run"]
       ELSE /\ main' = [main EXCEPT ![g].pc = "swap", ![g].entry = client]
            /\ UNCHANGED <<entries, client, health>>
  /\ UNCHANGED <<conns, chan, conf, del, orphaned>>

\* the signal that another connection of the client has replaced is closed
\* (mutant: it is not)
ReplacedStays(old) == 0
Replaced(old) == old

\* the loaded entry gets the new signal under its lock; ...
MainSwap(g) ==
  LET e == main[g].entry
  IN  /\ main[g].pc = "swap"
      /\ entries' = [entries EXCEPT ![e].signal = g]
      /\ main' = [main EXCEPT ![g].pc = "close", ![g].old = entries[e].signal]
      /\ orphaned' = (orphaned \/ e # client)
      /\ UNCHANGED <<conns, client, chan, health, conf, del>>

\* ... after that its ticks are forgotten and the old one is closed
MainClose(g) ==
  /\ main[g].pc = "close"
  /\ entries' = [entries EXCEPT ![main[g].entry].retryTime = 0]
  /\ sig' = [h \in Gens |-> IF h = Replaced(main[g].old) THEN "closed" ELSE sig[h]]
  /\ main' = [main EXCEPT ![g] = [pc |-> "done", entry |-> 0, old |-> 0]]
  /\ health' = [health EXCEPT ![g] = "run"]
  /\ UNCHANGED <<tun, cuts, client, chan, conf, del, orphaned>>

\* typeDeal(WORK_CHAN)
ChanLoadOrStore(g) ==
  /\ chan[g].pc = "none" /\ tun[g] # "none"
  /\ IF client = 0
       THEN /\ entries' = Append(entries, NewClient(0, g))
            /\ client' = Len(entries) + 1
            /\ chan' = [chan EXCEPT ![g].pc = "done"]
       ELSE /\ chan' = [chan EXCEPT ![g] = [pc |-> "swap", entry |-> client]]
            /\ UNCHANGED <<entries, client>>
  /\ UNCHANGED <<conns, main, health, conf, del, orphaned>>

ChanSwap(g) ==
  LET e == chan[g].entry
      old == entries[e].tunnel
  IN  /\ chan[g].pc = "swap"
      /\ entries' = [entries EXCEPT ![e].tunnel = g]
      /\ tun' = [h \in Gens |-> IF h = old THEN "closed" ELSE tun[h]]
      /\ chan' = [chan EXCEPT ![g] = [pc |-> "done", entry |-> 0]]
      /\ UNCHANGED <<sig, cuts, client, main, health, conf, del, orphaned>>

-----------------------------------------------------------------------------
\* delClientIfCurrent: is the signal that ended still that of the entry?
\* (mutant: the check of an entry that still waits for its signal)
NeverCurrent(g) == FALSE
IsCurrent(g) == client # 0 /\ entries[client].signal = g

\* GetHealthInfo fails
HealthEnds(g) ==
  /\ health[g] = "run" /\ sig[g] = "closed"
  /\ health' = [health EXCEPT ![g] = "end"]
  /\ del' = [del EXCEPT ![g].pc = IF IsCurrent(g) THEN "load" ELSE "idle"]
  /\ UNCHANGED <<conns, entries, client, main, chan, conf, orphaned>>

\* DelClient: Load, ...
DelLoad(t) ==
  /\ del[t].pc = "load"
  /\ del' = [del EXCEPT ![t] = IF client = 0 THEN Idle ELSE [pc |-> "take", entry |-> client]]
  /\ UNCHANGED <<conns, entries, client, main, chan, health, conf, orphaned>>

\* ... take the signal out of the entry and close it, ...
DelTake(t) ==
  LET e == del[t].entry
      old == entries[e].signal
  IN  /\ del[t].pc = "take"
      /\ entries' = [entries EXCEPT ![e].signal = 0]
      /\ sig' = [h \in Gens |-> IF h = old THEN "closed" ELSE sig[h]]
      /\ del' = [del EXCEPT ![t].pc = "delete"]
      /\ UNCHANGED <<tun, cuts, client, main, chan, health, conf, orphaned>>

\* ... Delete by the id, whatever is there by now (CloseClient: module Server)
DelDelete(t) ==
  /\ del[t].pc = "delete"
  /\ client' = 0
  /\ orphaned' = (orphaned \/ (client # 0 /\ entries[client].signal # 0))
  /\ del' = [del EXCEPT ![t] = Idle]
  /\ UNCHANGED <<conns, entries, main, chan, health, conf>>

-----------------------------------------------------------------------------
\* a tick of ping: half connected for the third time, or a tunnel that is closed;
\* the entry of a client that has registered and not connected yet is left alone
HalfConnected(c) == (c.signal = 0) # (c.tunnel = 0)

\* mutants: off by one; a tunnel that is closed is not looked at
EvictLate(c) == HalfConnected(c) /\ c.retryTime >= MaxRetry
EvictHalf(c) == HalfConnected(c) /\ c.retryTime + 1 >= MaxRetry

Evict(c) ==
  \/ HalfConnected(c) /\ c.retryTime + 1 >= MaxRetry
  \/ c.signal # 0 /\ c.tunnel # 0 /\ tun[c.tunnel] = "closed"

PingScan ==
  LET c == entries[client]
  IN  /\ del[PingLoop].pc = "idle"
      /\ client # 0
      /\ HalfConnected(c) \/ Evict(c)
      /\ entries' = [entries EXCEPT ![client].retryTime = IF HalfConnected(c) THEN @ + 1 ELSE @]
      /\ del' = [del EXCEPT ![PingLoop].pc = IF Evict(c) THEN "load" ELSE "idle"]
      /\ UNCHANGED <<sig, tun, client, main, chan, health, conf, orphaned>>

\* getConfig(NEW_CONF): LoadOrStore of the entry of a client that has not connected yet;
\* ...
ConfRegister ==
  /\ conf.pc = "read" /\ Fault
  /\ IF client = 0
       THEN /\ entries' = Append(entries, NewClient(0, 0))
            /\ client' = Len(entries) + 1
            /\ conf' = [conf EXCEPT !.pc = "registered"]
       ELSE /\ conf' = [pc |-> "clear", entry |-> client]
            /\ UNCHANGED <<entries, client>>
  /\ UNCHANGED <<sig, tun, main, chan, health, del, orphaned>>

\* ... what another entry has is closed and taken out under its lock
ConfClear ==
  LET c == entries[conf.entry]
  IN  /\ conf.pc = "clear"
      /\ entries' = [entries EXCEPT ![conf.entry].signal = 0, ![conf.entry].tunnel = 0]
      /\ sig' = [h \in Gens |-> IF h = c.signal THEN "closed" ELSE sig[h]]
      /\ tun' = [h \in Gens |-> IF h = c.tunnel THEN "closed" ELSE tun[h]]
      /\ conf' = [pc |-> "registered", entry |-> 0]
      /\ UNCHANGED <<cuts, client, main, chan, health, del, orphaned>>

\* a request of getConfig fails, this or a later one: DelClient(client.Id)
ConfFails ==
  /\ \/ conf.pc = "read" /\ Fault
     \/ conf.pc = "registered" /\ UNCHANGED cuts
  /\ conf' = [conf EXCEPT !.pc = "end"]
  /\ del' = [del EXCEPT ![ConfigLoop].pc = "load"]
  /\ UNCHANGED <<sig, tun, entries, client, main, chan, health, orphaned>>

\* DelClientConnect: the client is switched off, or has used up its time or traffic (and
\* is allowed again before it has found out)
DelClientConnect ==
  /\ del[Panel].pc = "idle" /\ Fault
  /\ del' = [del EXCEPT ![Panel].pc = "load"]
  /\ UNCHANGED <<sig, tun, entries, client, main, chan, health, conf, orphaned>>

-----------------------------------------------------------------------------
MainStep(g) == MainLoadOrStore(g) \/ MainSwap(g) \/ MainClose(g)
ChanStep(g) == ChanLoadOrStore(g) \/ ChanSwap(g)
MainGoesOn(g) == MainStep(g) /\ (sig[g] = "closed" => main[g].pc # "none")
ChanGoesOn(g) == ChanStep(g) /\ (tun[g] = "closed" => chan[g].pc = "swap")
DelStep(t) == DelLoad(t) \/ DelTake(t) \/ DelDelete(t)

BridgeStep ==
  \/ \E g \in Gens : MainStep(g) \/ ChanStep(g) \/ HealthEnds(g)
  \/ \E t \in Callers : DelStep(t)
  \/ ConfRegister \/ ConfClear \/ ConfFails \/ DelClientConnect

\* what the bridge's goroutines do for certain: the handshake of a connection that
\* is closed early may never be read
BridgeGoesOn ==
  \/ \E g \in Gens : MainGoesOn(g) \/ ChanGoesOn(g) \/ HealthEnds(g)
  \/ \E t \in Callers : DelStep(t)
  \/ ConfClear
=============================================================================
