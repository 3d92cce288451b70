# NatPunch in TLA+

NatPunch publishes services of machines behind a NAT. A server with a public
address (`server/`, `bridge/`) accepts users; a client (`client/`) behind the
NAT keeps two connections to the server: a *signal* and a *tunnel*. Over the one
tunnel connection a multiplexer (`lib/natpunch_mux`) carries one logical
connection per user. The modules here model the multiplexer, the life of a
client's connections on both sides, the server's tasks and their file, and the
proxies with everything a user's connection passes on its way.

Line numbers in the comments of `MuxStream`, `BufChain`, `WriteQueue` and
`MuxSession` refer to `src/lib/natpunch_mux` unless a path is given. `PROJECT.json`
maps every definition to its lines.

## 1. Inventory

### The parts of the program

| part | state | operations | talks to |
|---|---|---|---|
| mux connection (`conn.go`, `queue.go`) | two packed windows, receive queue, token channels, two close flags | Read, Write, Close, deadlines; SetSize, Write, Stop called by readSession | write queue (sendInfo), readSession |
| lock-free queue (`bufDequeue`, `bufChain` in `queue.go`) | rings with packed 32-bit indices, linked by next | pushHead, popTail | under the three queues below |
| write queue (`priorityQueue`) | three chains, length, starving, stop, condition variable | Push, Pop, Stop | all goroutines of a mux push, writeSession pops |
| mux (`mux.go`, `map.go`, `connQueue`) | conn map, new-conn queue, once, done | NewConn, Accept, Close, sendInfo, readSession, writeSession | the tunnel, the other mux, bridge and client |
| bridge (`bridge/bridge.go`) | per client an entry: signal, tunnel, retry count | cliProcess, typeDeal, SendLinkInfo, DelClient, ping, getConfig, GetHealthFromClient | client over signal and tunnel; server tasks over two channels |
| client (`client/client.go`, `control.go`, `health.go`) | signal, tunnel, status, once; failures per target | Start, newChan, handleChan, ping, closing, heathCheck | bridge |
| server tasks (`server/server.go`) | RunList, task channels | AddTask, StartTask, StopServer, DelTask, DealBridgeTask, InitFromCsv | bridge, database, proxies, panel |
| database (`lib/file`) | maps of clients, tunnels, hosts; JSON files; counters | ids, New/Del/Update, store, GetConn, GetRandomTarget | server tasks, bridge, proxies, panel |
| proxies (`server/proxy`) | listeners, connection counts, UDP sessions, source pools, certificate listeners | Start, Close, DealClient, handleHttp, UDP dispatch and sweep | bridge (SendLinkInfo), copy pools, database |
| copy pools (`lib/goroutine`) | two worker pools that block when full | copyConns, copyConnGroup, CopyBuffer | proxies, client, mux connections |
| port multiplexer (`lib/pmux`) | four channels, done, a wait group | Start, process, Close | bridge, panel, http, https listeners |
| rate limiter (`lib/rate`) | burst and limiter of a client | Get | every copied connection |

What each of them does to make itself hard to test:

* **Interleaving without locks.** Windows and queue lengths are words changed by
  compare-and-swap from three goroutines: the application's, readSession, and
  whoever closes. The chains are lock-free. `HttpsServer.cert` works on two
  maps without a lock.
* **Blocking hand-overs.** readSession serves every connection of a tunnel and
  yet blocks in `allow` and `allowPop`; one goroutine serves all task channels
  while the bridge blocks in sending to them; a copy takes a worker of one pool and waits for
  two of another.
* **Lost wakeups.** `Push` broadcasts without the lock that `Pop` waits under.
* **Reordering.** The write queue lets control packets overtake data; health
  messages come over connections of which the older may outlive the newer.
* **Closing.** A connection is closed by its user, by the peer, by a refused
  message, by the mux; a mux by its user, the ping, a failing tunnel, or a full
  write queue *while* a connection is being closed; a client by three goroutines.
* **Stale checks.** In bridge and server tasks something is looked up
  by id, and replaced before it is acted on; ids are found, not reserved.
* **Failure.** Saves may fail and the server may crash between a change of the
  table and its save; a tunnel, a user, a service and a quota may each end a connection
  whose two directions are copied apart.

### What makes each part correct

* mux connection: a reliable byte stream with the tail before end of file; no
  call blocks for ever; credit is neither lost nor returned twice; memory bounded.
* chain: FIFO, nothing lost, "empty" only if it is.
* write queue: its limit, no starvation, the writer ends with the mux.
* mux: data finds its connection; closing closes everything and ends everyone.
* bridge and client: a client that goes on trying becomes and stays reachable; nothing
  dead stays in the map, nothing live outside it; the retry loop runs on.
* server tasks: what was acknowledged survives; file and table agree; a
  listener can be stopped; temporary tunnels go with their client.
* proxies, copy pools, port multiplexer: every connection ends at every place when
  one of its parties goes, and gives back what was counted; the user's connection survives a
  change of host; targets follow their health.
* rate limiter: every byte is paid for once, and a call ends.

`PROJECT.json` has the hazards line by line, and the parts that hold no protocol
(cryptography, parsing, installers, scripts) with the reason why they are left out.

## 2. The modules

| module | what it is |
|---|---|
| `MuxStream` | one direction of one connection: writer, its readSession, the two FIFO directions, the reading end's readSession, reader, both closes |
| `ByteStream`, `MCMuxStream` | what a direction promises, and the refinement mapping to it |
| `BufChain` | `bufDequeue` and `bufChain`, one action per atomic operation |
| `WriteQueue` | `priorityQueue`, sendInfo, writeSession, Stop |
| `MuxSession`, `MCMuxSession` | two muxes: NewConn, Accept, readSession, Close, `connMap`, `connQueue` |
| `LinkConns` | the signals and tunnels between one client and the server, and the faults they suffer |
| `Client` | TRPClient from Start to Close, once per generation, with the retry loop around it |
| `Bridge` | what the server keeps of that client: typeDeal, DelClient, ping, getConfig |
| `Link` | `Client` and `Bridge` over `LinkConns` |
| `Server` | RunList, the table of tunnels and its file, and the goroutines that work on them |
| `Quota` | the limits that the proxies share |
| `Forward` | a user's connection of any mode: handler, copying on both sides, handleChan |
| `HttpHost` | handleHttp: one user's connection over requests to several hosts |
| `UdpSessions` | UdpModeServer with its sessions and the pool of a source |
| `PortMux` | `lib/pmux`: several listeners on one port |
| `Health` | health checks of the client and what the bridge makes of them |
| `CertHosts` | HttpsServer.cert: a listener per certificate |
| `Proxy`, `MCProxy` | the six modules above over one `Quota`, and the loads they are checked under |
| `RateLimit` | Rate.Get with the width of an int |
| `MuxStreamProofs` | the invariant of `MuxStream`: types, credit, memory; and what builds on it: readSession is never stuck, credit comes back, the refinement of `ByteStream` |
| `BufChainProofs`, `WriteQueueProofs`, `MuxSessionProofs`, `LinkProofs`, `ServerProofs`, `ProxyProofs` | inductive invariants and theorems of these modules |

The modules of the multiplexer meet at queues. `MuxStream` takes a chain as an
atomic sequence; `BufChain` is where that is justified, for one producer and one
consumer, which is what a receive queue has. `WriteQueue` takes each chain as a
counter and looks at what is built on top: classes, limit, condition variable.
`MuxSession` takes the write queue as two sequences that overtake each other
freely, which is more than `WriteQueue` allows, and a connection's data as one
message. `Link` takes a mux as a connection that is open or closed, and `Forward` a stream of it
as two ends: closing one closes the other some steps later.

### MuxStream

A byte is its position in the stream, so `got` shows at once what was lost,
repeated or reordered. `sWord` and `rWord` are the packed words of the send and the receive
window (`max`, `done`, `wait`); `qLength`, `qWait` that of
`receiveWindowQueue`; `sTokens`, `stopTokens` the contents of `closeOpCh` and
`stopOp`; `setSizeClosed` the closed `setSizeCh`. Each goroutine has a program
counter: `wpc` (Write, WriteFull, WriteTo), `spc` and `rrpc` (readSession of the
writing and of the reading end), `rpc` (Read, readFromQueue), `sOnce` and `rOnce`
(closeProcess under `once`). A loop that ends in a compare-and-swap is one action
where the words it reads cannot make a difference before it succeeds, and two
(load, compare-and-swap) where another location is read in between: the wait bit
in WriteTo, receiveWindow.Write, and sendStatus, which both read the queue length.
A rendezvous on an unbuffered channel is a joint action (`AllowWriter`,
`AllowPopReader`).

`data` and `acks` stand for write queue, tunnel and read buffer of each
direction. All packets of a connection but newConn and newConnOk go to the lowest
chain, so each direction is FIFO; the model assumes that the mux stays open and,
in view of the finding on `BufChain_producers`, that the chain loses nothing.
The history variables are `got`, `counted` (bytes of the elements the reader has
finished), `acked` (credit sent), `tail` (where the writer closed), `taken`.

Not in it: the write deadline, how `calcSize` arrives at a size (any of
`WindowSizes`), the wrap of 31-bit `done`.

### BufChain

`rings` holds every `bufChainElt` ever made, `head` and `tail` point into it, and a
ring's `headTail` is the packed number itself, with the width of an index as a constant, so that
the carry in popTail is done by arithmetic. `before` records which values had been pushed when a
popTail began.

### WriteQueue

`queued` counts the packets of the three chains; `length` is the counter of the
limit; `lock` and `waiting` are the mutex and the wait set of `cond`. Broadcast
by Push needs no lock, Broadcast by Stop does, Wait joins the waiters and unlocks
in one step, as `sync.Cond` does. `bypassed` counts the middle packets that
were popped while a lowest one waited.

### MuxSession

A opens, B accepts. `once` follows Mux.Close through `close(done)`, the snapshot
of the map, the conns of the snapshot and release; `connOnce` follows
closeProcess of each conn at each end; Close of a conn that someone else is
closing waits, as `sync.Once` does. `apc` is the goroutine that takes conns off
`connQueue`, offers them to Accept and answers. A full write queue (`Overflows`)
closes the mux in the middle of whatever sent the packet.

### Link: client and bridge

A *generation* is one run of TRPClient: one signal, one tunnel. `Client` has a
program counter for the goroutine in Start and handleMain (`start`) and for
newChan, and `once` for closing, which closes the tunnel before the signal; that
`s.signal` and `s.tunnel` are stored some time after the connection exists
has its own steps, since a close in between misses it. `ping` of the client
only ever closes it, as Accept's failure does, and is one action with that (`TunnelLost`).

`Bridge` numbers the entries that were ever in `Bridge.Client` (`entries`), because a goroutine
that has loaded one keeps the pointer when the map (`client`) has moved on.
typeDeal loads, then swaps under the entry's lock (`main`, `chan`); the end of
a signal is seen by GetHealthFromClient, which compares it with the entry's and
then calls DelClient, itself three steps (`del`): load, take the signal out,
delete by id. `PingScan` is a tick of ping, and `ConfRegister` stands for somebody
who registers with the key of the client and then fails. `orphaned` records the
one way in which a new signal ends up in an entry that is no longer in the map.

### Server

A tunnel is an object that is shared by pointer (`tunnels`), and found by id (`tasks`).
NewMode makes a service for a tunnel (`services`), with a listener that Start
opens, or fails to, some time later in a goroutine of its own; `runList` leads from ids
to services. `saved` is the file. Four goroutines have a program counter (`at`),
one place for each step that others can come between: the panel's requests
(add, start, stop, delete, edit), DealBridgeTask, getConfig on behalf of a
client that registers tunnels, and the start after a crash. `openTask` and
`closeClient` are the bounded channels. An id is found at one step and used at the
next ones, as GetTaskId does. A mode "rawKey" stands for Shadowsocks with a key that AddTask
has still to normalise and save (`Normalize`). InitFromCsv ranges over a map to which
clients may add already (`MaxSeen`): it may come by what they add, or not.

Three history variables record what goes wrong between two operations, none of them guards a step:
`reused` has the ids under which an operation on one tunnel met another tunnel; `strays` has the
services that lost the way to them, in five ways and no other: their own Close came before Start
had the listener (`proxy/tcp.go:75`); they were started again; the failed Start of another service
deleted their entry (`server.go:332`); they were started without their tunnel in the table,
or while that was being stopped or deleted; their id went to another tunnel, or the failed
creation of one. `spared` has the tunnels that UpdateTask has put back after they were deleted
(`server.go:291`, `354`), and those whose deletion was given up because another goroutine had
stopped them between DelTask's look and its StopServer (`server.go:362`).

`Crash` forgets everything but the file, and a save may fail (`SaveFails`): of the callers
only NewTask and DelTask look at the error. Edit changes the port of a tunnel
and not its mode, which goes the same way through the code.

### Proxy and its parts

`Quota` is `Client.NowConn`, the server's `globalConn`, and which clients have
used up their traffic. A *load* says what limits are set and who comes; it is chosen at the start.

`Forward` follows a connection (`pc`) through what its mode does: read a name,
CheckFlowAndConnNum, handshake, choice of a target, DealClient with
SendLinkInfo, a worker of `CopyConnsPool`, two workers of `connCopyPool` (`pump`), release,
uncount. The client's half is handleChan (`handle`) and its own copying (`copier`). User,
service, a local target and the tunnel may leave at any time. Ten modes are told apart by where
they are counted, checked and timed; the bytes of their handshakes are a free choice of success
or failure.

`HttpHost` is handleHttp: for each host a stream and a goroutine that copies the answers
back, a *generation* with its own flag `resetFlag`; `torn` records that
the answers ended because the stream was torn down for the next host.
`UdpSessions` has a worker per datagram, of which the first one builds the
session and then reads from the stream; the sweeper and Close work on the same
map. `PortMux` has a goroutine per connection and its offer to a channel that
Close closes. `Health` has checks that overlap, the count of failures, and one FIFO of messages
per connection of the client; messages of an older connection may be late or lost. `CertHosts` has
two maps and the listeners that were ever made, each with its channel.

## 3. The runs

| run | bounds | shows |
|---|---|---|
| `MuxStream_safety` | 3 bytes in segments of 2, window 4 shrinking to 2, writer closes | `NeverOverAcked`, `NoCreditLost`, `ImplementsByteStream` |
| `MuxStream_close` | 2 bytes, window 1, both ends close, reads time out | `WriteReturns`, `EventuallyDelivered`, `ReaderSeesEOF`, `SessionNeverStuck`, `QueueBounded` |
| `MuxStream_spin` | as above, no timeout | **finding**: `SpinMeansPushing` is violated |
| `BufChain_fifo` | 1 producer, 1 consumer, 11 values, rings of 1, 2, 2; indices modulo 8 | FIFO, free slots, empty means empty, everything popped |
| `BufChain_producers` | 2 producers of 2 values | **finding**: `DroppedRingsStayEmpty` is violated |
| `WriteQueue_all` | one goroutine per class, limit 2, starving modulo 2 | limit, starvation, nil packets, data gets sent, the writer ends |
| `MuxSession_close` | either 1 connection, with B's mux closed and write queues full at any time, or 2 connections that A closes; NewConn may time out | `DataFindsConn`, `AllConnsClosed`, `MuxEnds`, `CloseReachesPeer` |
| `MuxSession_wakeup` | 1 connection, nothing fails | **finding**: `NewConnAnswered` is violated |
| `Link_reconnect` | 2 generations, 1 fault, eviction at the 2nd tick, somebody may register | `NoStraySignal`, `EventuallyReachable`, `DeadSignalLeaves`, `LostClientReturns` |
| `Server_tasks` | 2 ports, 2 tunnels, 1 request, 1 registration, 1 lost client, 1 crash or failed save, 3 of these in all, channels of 1 | `FileUpToDate`, `AckedSurvives`, `NoLeakedListener`, `TemporariesGo` |
| `Proxy` | the loads of `MCProxy`: each mode alone, pairs that compete, kept-alive requests, 2 datagrams, 2 shared connections, 3 TLS connections, 3 changes of health | `NothingLeft`, `UserKept`, `EverythingEnds`, `TargetFollows` |
| `Proxy_deadline` | a SOCKS5 user beside another | **finding**: `CopiesUntimed` is violated |

`Link_reconnect` has about 996,000 distinct states, `Server_tasks` 1,168,000,
`Proxy` 295,000 and `MuxSession_close` 152,000; each takes two to three minutes.

Why these bounds reach the cases that matter. *Mux:* a window smaller than a message
makes the writer wait for every second byte or so, and makes a Write of several parts; a
window that shrinks below what is out gives the sender a negative remainder;
one-byte windows make both ends enter and leave the wait status again and again.
Eleven values drive the indices of a ring, which count modulo 8, past their wrap,
after the chain has grown twice and reached its largest ring. With `starving` modulo 2 and
`maxStarving` 1 the counter wraps as the uint8 does at 256. *Link:* a client is replaced by its
next generation, so two of them make every pair of old and new; with one fault the first
generation may lose its signal, its tunnel or its connecting, while the handlers, ping and
DelClient of the first are still at work on the second's. *Server:* two ids make an id free,
used and used again; one request beside a registration, a lost client and the start-up make all
pairs of goroutines that can meet at an id. *Proxy:* a pool of one worker for `copyConns` and a limit of one
connection make those who come later wait or be refused; three requests change the host and
change back; two datagrams are one that builds a session and one that finds it; two
failures before a target is out, two checks at once and two messages on the wire let results
overtake each other. The parts of `Proxy` share only the limits, and a load starts one
or two of them, so that the run is a sum and not a product.

### Fairness

* Goroutines that can take a step do: the Go scheduler is preemptive. In
  `MuxStream` this is weak fairness per goroutine.
* The reader reads in a loop, and an end whose read failed or whose peer has
  closed is closed: `goroutine.copyConnGroup` copies until an error and then closes both
  sides. A blocked writer is not woken by the peer's close itself but by this.
* A timeout is never relied on where it may lie as far ahead as its user likes (deadlines of a
  mux connection). Those that the code sets to ten seconds (the first
  bytes of a connection, a header, the offer to a channel of `pmux`) are steps like others.
* `WriteQueue`: the tunnel takes a packet or fails, and a ping is sent every
  five seconds while the mux is open (`mux.go:198`). This is what rescues a lost wakeup.
* `MuxSession`: the tunnel delivers until it is closed; B's user keeps calling
  Accept (`client.newChan` does). Nothing is assumed of the users' closing.
* `Link`, `Server` and `Proxy` ask for less than fairness per goroutine: weak fairness of
  *some* goroutine's step (`GoesOn`). When faults, users and requests are used up
  each goroutine there has finitely many steps left, so that the one that is never chosen would in the end be the only one
  that can move. Not part of `GoesOn`: faults, users who come or leave,
  and the handshake of a connection that is closed while it waits to be read. The health checks
  go round for ever and have a fairness of their own (`Checking`, `Hearing`).
* `Link` counts a connection attempt that takes longer than three ticks of ping (10 to 15 s) as
  a fault; without that ping may evict a client for ever, as it may in the code.

### Exceptions that the properties name

A property says where the code does not keep it; each exception was needed, TLC finds the
property violated without it.

* `EventuallyReachable` excepts `orphaned`: DelClient deletes the map's entry by id some steps
  after it loaded it (`bridge.go:322`), and a client that has reconnected in between stays
  connected and cannot be reached until its signal breaks again.
* `AckedSurvives` excepts the ids in `reused`: GetTaskId finds an id and does not reserve it, so two
  goroutines can give it to two tunnels.
* `NoLeakedListener` excepts, service by service, those in `strays`. Each of its five ways is a
  listener that nothing closes any more, or not by its id. Each was needed: with any
  one of them left out of `strays`, `Server_tasks` finds a listener that is open and not reached. A listener
  that is opened twice, stopped and started, or whose tunnel is edited, is not excepted for that.
* `TemporariesGo` excepts the tunnels in `spared`. So a tunnel that StopServer or StartTask resurrects is
  recorded, and no other may outlive its client.
* `NothingLeft` and `EverythingEnds` except users whom a white or black list turns away in CopyBuffer
  (`pool.go:157`): it returns no error, and the stream stays open while user and service do.
* `HttpOver` leaves out "wait": after a break handleHttp waits for the answers and does not look
  at the user any more.
* `EverythingEnds` excepts a TLS connection put into the channel of a listener that has
  just been closed and emptied (`https.go:186`), and hosts whose certificate and key do not match: no server
  accepts there and nobody closes the connections.
* `TargetFollows` speaks of one connection of the client when a target recovers: a reconnect empties
  the counts, and a target that was taken out and works again is never reported.

### Findings

1. `queue.go:310`. Pop's inner loop expects "another goroutine is still pushing".
   When conn.Close runs `release` between the load of the length and TryPop, the
   element is gone for good, and the goroutine in Read spins for ever.
2. `queue.go:599-604`. A drained ring with a successor is "permanently empty"
   only with one producer. `priorityQueue` has many: one that stalls after
   loading `c.head` can push into a ring that has been dropped. Its packet is lost.
3. `queue.go:168-172`. `connQueue.Push` broadcasts without the lock; the
   wakeup may be lost and nothing repeats it, so NewConn reports a refusal after
   two minutes although the peer accepts.
4. `server/proxy/socks5.go:361-365`. The comment says that the deadline of the handshake is
   cleared when the handshake ends and does not touch the forwarding; it is cleared by a
   defer of handleConn, which returns after the forwarding. Ten seconds after its start
   a SOCKS5 connection can no longer be read from.

Found by proof rather than by a run: without a rate limit `NewRate` computes
`int(addSize)` of 2^34, which is 0 on the 32-bit platforms of the Makefile, and Get loops for
ever (theorem `UnlimitedStalls`).

## 4. What is proved

Every theorem is checked by tlapm to its last leaf. A leaf that cites `SMTT(60)` or `ZenonT(60)` takes
that prover some seconds; the limit leaves room for a slower machine.

### The multiplexed connection (`MuxStreamProofs`)

For every total, segment size, initial window, set of
window sizes and set of read sizes (`StreamAssumption`: naturals, sizes positive),
with or without closes and deadlines:

* `TypeCorrect`: `TypeOK`. Its interesting part is that no token channel ever
  holds a third token, so neither CloseWindow nor Stop blocks.
* `CreditSafe`: `NeverOverAcked`. The branch of SetSize that throws an update away is dead.
* `MemoryBounded`: `QueueBounded`, the receive queue fits the largest window announced.
* `Invariance`: the inductive invariant `IInv` they follow from.

None of them is inductive by itself. That an update never returns too much
depends on where every byte is: in the sender's `done`, in a segment on its
way, in readSession's hands, in the queue, in the reader's element, in the read
size of the receive window, in a status some goroutine has taken but not sent, or
in an update on its way. `IInv` says so in parts:

* `DataInv`, `ElemInv`, `QueueInv`: the segments on their way, the one in hand,
  the queue and the reader's element are adjacent pieces of the stream, and
  `qLength` counts exactly what is queued or about to be;
* `DueInv`: what the reader has finished lies below all of them;
* `CreditInv`: credit sent, kept or in hand was finished by the reader before;
* `AckInv`: the updates on their way lead from what the sender has applied up
  to `acked`, step by step;
* `SendWindowInv`, `RecvWindowInv`: what is out fits a window that was announced;
* `TokenInv`: tokens come from the one Stop and the one CloseWindow.

The proof has one lemma per action (`WriteKeeps` ... `StatusAckKeeps`), lemmas
about contiguous sequences, and `Frame` for the parts an action leaves alone.

### readSession is never stuck (`MuxStreamProofs`)

`SessionGoesOn`: `SessionNeverStuck`. The invariant counts the tokens and who may still take one.

* `SendTokens`: before CloseWindow an `allow`, or a wait bit that will lead to one, is for a
  writer that waits; of the two tokens that CloseWindow puts, one is for the writer, who takes it
  once and then has failed, and one for an `allow` under way. SetSize starts no other.
* `StopTokens`: whoever wakes a reader has seen its wait bit, and that reader waits or has
  failed; of the two tokens of Stop one is for the reader and one for the waking that may still come.

### Credit comes back (`MuxStreamProofs`)

`CreditComesBack`: `NoCreditLost`. `IInv` bounds credit from one side: none is sent that was not earned. Here
the other side is needed, that none is forgotten.

* `Balanced`: what the reader has counted *is* what was sent, is kept in the packed word, or is
  in the hand of one of the two goroutines that send updates; the compare-and-swap that one of
  them loses takes nothing.
* `Kept`: a read size stays in the packed word only while there is something left to read,
  whose end will send it. This is what the third condition of sendStatus (`remain = maxSize`) is
  for; a model without it is a mutant that `MuxStream_safety` refutes.
* `Adjacent`: each update on its way begins where the one before it ends, so that the sender
  gets back every byte of them. It also needs `SendTokens` and `NeverOverAcked`: no update is ignored.

### A connection is a byte stream (`MuxStreamProofs`)

`StreamImplemented`: `MuxStream` implements `ByteStream` under the mapping of `MCMuxStream`. The
steps that write, read, close or end map to those of `ByteStream`, the others to none.

* `InOrder`: what was read is a beginning of the stream, up to where the reader is in its
  element; the next element begins where this one ends, be it in the queue, in readSession's hand or on its way.
* `Closing`, `AfterStop`: ConnClose stands at the tail; what comes once it has stopped the
  queue lies past the tail, and a reader that waits then has read the tail. So the end of file that a stop token
  brings comes after the last byte.
* `Waiting`: a reader in `waitPush` has its wait bit set and the queue empty, or is being woken.
* `Places`: where the reader can be after a Read that failed; nothing goes on from there.

### The lock-free queue (`BufChainProofs`)

For any width of the indices, any size of the first ring and any number of values
(`BufChainAssumption`: the first ring is at most a quarter of the index range and divides it):

* `ChainTyped`: `TypeOK`, for any producers and consumers.
* `ReservedIsFree`: `ReservedSlotIsFree`, for any producers and one consumer (`OneConsumer`).
* `PoppedInOrder`: `FirstInFirstOut`, and `EmptyIsEmpty`: `EmptyMeansEmpty`, for one of each (`OneEach`).

The hypotheses say for which queues this holds. The write queue has one consumer, writeSession
(`mux.go:398` says why nobody else may pop from it), and many producers; connQueue has readSession
as its producer and one goroutine that accepts; so has a receive queue, with the goroutine that reads, until the
connection is closed: then `release` drains it as well (`conn.go:429`), which may meet a Read under way
(finding 1). With two producers the last two theorems are false, which is the finding on
`BufChain_producers`: a stalled producer puts its value into a ring that was dropped.

The three invariants are layers.

* `TypeInv` is for the actions; a ring always has a size that divides the range of the indices
  (`SizesDivide`), without which a slot would jump when an index wraps.
* `SlotInv` speaks of one ring. Indices are compared modulo their width, so that all counting is
  in terms of how far one is `Ahead` of another: `Count` values from `Bottom` on (`Window`), at most
  as many as there are slots, and all slots outside are empty (`Whole`). A producer that has loaded the
  word of a ring saw it not full, and if the compare-and-swap finds the same word it is still not full,
  however often the indices went round meanwhile (`Reserving`): the proof needs no absence of ABA here.
  Two producers in "store" have different slots (`Apart`), and the slot the consumer
  has emptied but not given back is reserved by none (`Consuming`).
* `ChainInv` is the FIFO order. It says that there is a numbering `F` of the rings, `F[d]` the number of the first value of
  ring `d`, such that the oldest ring begins with the next one to pop, each ring goes on where the one
  before it ends, and the newest ends with the last one placed (`Sums`); and that a slot at an
  offset in its ring holds the value of that number, or is reserved and not yet stored, or just emptied
  (`Contents`). `Searching` is what the consumer knows, in particular that a ring that had a
  successor before it was found empty stays empty, since the producer of a linked ring's successor works there.
  That is the comment at `queue.go:599`, which this hypothesis makes true.

`PowerOf2`, which says that twice a proper divisor of a power of two divides it as well, is an
assumption about `2^DequeueBits` that TLC evaluates: it is a fact of arithmetic, but
the provers know nothing of exponentiation.

### The write queue (`WriteQueueProofs`)

For any number of goroutines that send, any limit and any width of the starving
counter (`WriteQueueAssumption`):

* `LimitIsHeld`: `LimitHeld`. The count is raised before the push and lowered after
  the pop, in separate steps, so that the invariant has to say where each counted packet is.
* `LowestIsServed`: `LowestNotStarved`, also where `starving` wraps.
* `NoNilPacket`: `NilNeverPacked`.
* `QueueTyped`: `TypeOK`.

The invariant `QueueInv` has three parts besides the types: `Counted` (the length is what is in the
chains, about to be pushed or just popped, and who is about to count one more has
seen room for it), `Overtaken` (how far the packets that overtake are ahead of
`starving`) and `Handed` (a Pop without a packet comes from a stopped queue, and that from a closed mux).
The goroutines between counting and pushing are a set whose finiteness is part of the
invariant, since the set of all producers need not be finite.

### The mux session (`MuxSessionProofs`)

For any set of connections and any number of overflows of the write queue:

* `SessionTyped`: `TypeOK`.
* `MessagesFindConn`: `DataFindsConn`. readSession drops data for an id that is not in its map, so
  this says that none is dropped but by an end that has closed the connection.
* `NoConnLeftOpen`: `AllConnsClosed`.

The first is needed for the others, and neither of them is inductive. A step may look at a packet
that was sent long ago, so that `SessionInv` says of everything under way who knows its
connection: the packets on the wire (`WireKnown`), NewConn between sending and its answer
(`OpeningKnown`), connQueue and the goroutine that takes from it (`AcceptKnown`), users and those
who close (`UserKnown`). To *know* a connection is to have it in the map or to have closed it; that only grows
(`Grown`), which is what carries these parts over the steps of everybody else. `Snapshots` says
of a closing mux that what its user has or may still get is closed or in the snapshot of the map; with
it comes that the flag is set before the map is read (`MuxFlags`).

### Client and bridge (`LinkProofs`)

For any number of generations, faults and ticks (`ConnsAssumption`, `BridgeAssumption`):

* `LinkTyped`: `TypeOK`. What is not obvious in it is that `retryTime` stays within `MaxRetry`:
  ping counts and evicts in two goroutines' time, and the entry it counts may be
  replaced, refilled or deleted by others before DelClient comes to it.
* `NoSignalStrays`: `NoStraySignal`; every signal that typeDeal has accepted is in an entry or
  closed, whatever DelClient, typeDeal of the next generation and getConfig do in between.

The invariant `LinkInv` adds to them what a handler may rely on: a generation that has not started
has no signal (`Unstarted`); a handler past its load holds an entry and a
signal that has existed (`Loaded`), and so does an entry (`Known`); an entry of the map is
below the limit unless ping is on its way to evict it (`Counted`). One lemma per action.

### Server tasks (`ServerProofs`)

For any number of ids, requests, registrations, lost clients, crashes and failed saves, any ports and
any capacity of the channels (`ServerAssumption`):

* `ServerTyped`: `TypeOK`.
* `FileKeepsUp`: `FileUpToDate`.
* `AckedIsKept`: `AckedSurvives`; only a second tunnel under its own id can make the file lose what was
  acknowledged.
* `ListenersAreReached`: `NoLeakedListener`; an open listener is in the list and its tunnel in the table at
  every place of every goroutine, whatever has gone wrong with other services, unless it is one of
  `strays` itself. That the five ways are all there are is what the theorem adds to the run.

There are three layers.

* `Base`: types, what the table has under an id is a tunnel of that id (`IdOf`), no id is
  twice in the file (`UniqueSaved`: else a crash would lose a tunnel), and what a goroutine
  holds (`Held`): the id it acts on is that of the tunnel it holds, and which operation can be at which place.
* `FileUpToDate` is inductive given `Base`. That a crash keeps it needs that loading the file and
  storing the table again is the identity (`Loading`), and `SetToSeq` of the file a bijection (`LoadOrder`).
* `Safe`: what was acknowledged under an id that is not `reused` is in the table, belongs to
  no client, and is in the file (`Acked`); every service that listens, or will, and is not in
  `strays` is in the list and its tunnel in the table (`Listeners`). To keep both, it says what every
  goroutine is about to do: a creation owns its id until the acknowledgement (`Adding`), what is deleted is
  not acknowledged, or not any more, or is of a client (`Removing`), and no such service
  is left under the id of what is being stopped (`Stopping`). `SafeFrom` takes a step of one goroutine
  apart into what it does to the table, the file, the services and the history, and is the only place where
  the others are considered.

`Loading` needs that the smallest free id exists and that sets are counted; for these the theorem
modules on well-founded induction and finite sets are cited.

### Proxies (`ProxyProofs`)

For any clients and loads, and any numbers of users, hosts, datagrams and connections:

* `ProxyTyped`: `TypeOK`. What is not obvious in it is the counts: no client's `NowConn` ever falls below
  zero, and `globalConn` never exceeds the limit.
* `NothingIsLeft`: `NothingLeft`, for users, handleHttp, the sessions of a UDP tunnel and the shared port.
* `UserIsKept`: `UserKept`.
* `PortNeverPanics`: the part of `TypeOK` about `PortMux`: nobody sends to a closed channel,
  because a goroutine that may send holds Close up in its wait. It needs nothing of the other parts.

The invariant `ProxyInv` has a conjunct for each part, and one that joins them:

* `UserInv`: which stages a kind of user goes through (`InCourse`); there is no stream before its stage;
  whoever has returned, or whose copying goroutine "up" has ended, has closed what it had to (`Shut`); and the
  same of the client's end.
* `HttpInv`: a stream that is closed while its answers are still copied was flagged before, or the
  user's connection is closed already; the place that is held is that of the client it was taken from.
* `UdpInv`: who has made a session is at it until its stream is closed and the map does not lead to it any
  more (`SessionInv`), although the sweeper, Close and the workers of other datagrams remove it as well.
* `PortInv`, `HealthTypeOK` and `CertInv`: a shared port that has closed its channels has nobody in flight; a target is
  put back only if it was taken out; whoever sends to a listener has found one.
* `QuotaInv`: the count of each client is the number of those that hold a place of it (`Payers`, `UdpPayers`,
  `counted`), and `globalConn` that of `Takers`. One step changes the place of at most one of them
  (`Books`, `HttpBooks`, `UdpBooks`), from which `OneChanges` has the cardinality of the set.

### Rate limit (`RateLimit`)

* `UnlimitedStalls`: on 32 bits and without a limit no byte is ever let through.
* `EveryBytePaid`, `EveryTurnPays`: with 64 bits and no limit, or a limit below 2 Gbit/s on
  either, what was paid and what is owed is the size asked for, and each turn of the loop leaves
  less to pay.

### Only model-checked

Liveness, since the prover knows no fairness: that what was pushed is popped, that closing ends
everyone, that a target follows its health, and so on in the table of runs. Every
safety property that a passing run checks is also stated by a theorem. The runs that expect a violation
are TLC's alone. What `FirstInFirstOut` becomes with several producers, before a ring is dropped under one of
them, is neither checked nor proved.

## 5. Not modelled

* *Data without control:* the mux's packet format and buffer pools, cryptography, parsing of
  configuration, HTTP, SOCKS5 and Shadowsocks beyond success or failure, compression, keep-alive.
* *Measurement:* the mux's ping counters and bandwidth estimates (their outcome is the
  free choice of a window in `MuxStream`), the sampling of rates for the panel, the dashboard.
* *Time by the clock:* expiry of clients by date, addresses let in by time (`register`), the
  write deadline of a mux connection.
* *Two locks for one object:* health messages change `Target.TargetArr` under the lock of the
  tunnel, GetRandomTarget reads it under that of the target. `Health` takes both as atomic;
  the race ends in an index out of range, and what it leaves no property could describe.
* *Ids:* `getId` of a mux is taken to give distinct ids; that its reset races with
  other callers (`mux.go:409`) would take 2^31 connections.
* *Second reader of a mux connection:* two goroutines inside Read of one conn, or a Read after a
  failed one. No caller in the repository does it.
* *Single-threaded or platform code:* installers, service control, the web panel's forms and login, the
  client's choice of a transport, P2P, terminals behind the shell stream.
* *The LRU cache:* handleHttp asks it, and nothing ever adds to it.

Abstractions to keep in mind when reading a result: `Server` takes a port as free or taken at the moment of
Listen, and `public_vkey` as not configured, as it is in the configuration that is shipped
(`conf/natpunch.conf:15`): with it InitFromCsv would put an entry that is no service into the list under a
client's id, which may be a tunnel's id too; `CertHosts` lets connections arrive in order and takes a certificate as one value, whether it is
given as a path or as text; what getConfig reads beyond the tunnels is left out of `Bridge`; the resize frames
of a terminal are ignored in `Forward`.

## 6. What could come next

1. The write deadline in `MuxStream`, two consumers in `BufChain`.
2. What a chain promises several producers until a ring is dropped under one of them: order per producer.
