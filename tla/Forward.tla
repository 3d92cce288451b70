------------------------------ MODULE Forward -------------------------------
(* A user's connection through a tunnel: the proxies of the server           *)
(* (server/proxy), the copying between two connections (lib/goroutine) and   *)
(* the client's end of the stream (client.handleChan).                       *)
(*                                                                           *)
(* load.users names the users that may come, by the kind of tunnel they use: *)
(*   tcp    ProcessTunnel                      local  the same, LocalProxy   *)
(*   trans  HandleTrans                        http   ProcessHttp            *)
(*   socks  SOCKS5 CONNECT                     assoc  SOCKS5 UDP ASSOCIATE   *)
(*   ss     Shadowsocks                        ssudp  Shadowsocks over UDP   *)
(*   https  handleHttps2                       ws     a WebSocket of a host  *)
(*   shell  the terminal of the web panel                                    *)
EXTENDS Quota

CONSTANTS MaxUsers, Payer, \* the client whose tunnels these are
          ConnsCap, CopyCap \* workers of CopyConnsPool and of connCopyPool

ASSUME ForwardAssumption ==
  /\ MaxUsers \in Nat /\ Payer \in Clients
  /\ ConnsCap \in Nat \ {0} /\ CopyCap \in Nat \ {0}

VARIABLES
  pc,       \* the goroutine that serves the user
  user,     \* the server's socket to the user
  deadline, \* a read deadline is set on it
  near,     \* the server's end of the stream
  far,      \* the client's end; of a local target, the target
  pump,     \* the copying goroutines of the server
  handle,   \* handleChan
  service,  \* the socket to the service behind the client
  copier    \* the copying goroutines of the client

forwardVars == <<pc, user, deadline, near, far, pump, handle, service, copier>>
server == <<pc, user, deadline, pump>>
remote == <<handle, service, copier>>

Users == 1..MaxUsers
Ways == {"up", "down"} \* from the user to the service, and back
kind(u) == IF u <= Len(load.users) THEN load.users[u] ELSE "none"

Socket == {"none", "open", "gone", "closed"} \* gone: the peer has left
Pump == {"none", "wait", "run", "end"}

ForwardTypeOK ==
  /\ pc \in [Users -> {"none", "sni", "host", "check", "free", "hand", "auth", "target",
                       "request", "deal", "link", "hijack", "queue", "copy", "release", "uncount",
                       "end"}]
  /\ user \in [Users -> Socket] /\ service \in [Users -> Socket]
  /\ near \in [Users -> Socket \ {"gone"}] /\ far \in [Users -> Socket \ {"gone"}]
  /\ deadline \in [Users -> BOOLEAN]
  /\ pump \in [Users -> [Ways -> Pump]] /\ copier \in [Users -> [Ways -> Pump]]
  /\ handle \in [Users -> {"none", "info", "dial", "copy", "end"}]

All(x) == [u \in Users |-> x]
Both(x) == [d \in Ways |-> x]

ForwardInit ==
  /\ pc = All("none") /\ user = All("none") /\ deadline = All(FALSE)
  /\ near = All("none") /\ far = All("none") /\ pump = All(Both("none"))
  /\ handle = All("none") /\ service = All("none") /\ copier = All(Both("none"))

Set(f, u, x) == f' = [f EXCEPT ![u] = x]
Goto(u, l) == Set(pc, u, l)

GoOn(u, l) == Goto(u, l) /\ UNCHANGED user

\* those that DealClient counts, and hands to the pool of workers
Dealt(u) == kind(u) \in {"tcp", "trans", "local", "http", "https", "socks", "ss"}
\* what follows when DealClient, or a handler that has done without, returns
After(u) == IF kind(u) \in {"ss", "ssudp", "shell"} THEN "end" ELSE "uncount"

\* the handler closes the connection and returns
Refused(u) == Set(user, u, "closed") /\ Goto(u, After(u))

-----------------------------------------------------------------------------
\* A connection is accepted.  The https proxy first reads the name from the
\* ClientHello; the two that come over HTTP are not checked (nor is a terminal ever
\* counted); serveUDP leaves a datagram of Shadowsocks to the library.
Arrive(u) ==
  /\ pc[u] = "none" /\ kind(u) # "none"
  /\ Goto(u, CASE kind(u) = "https" -> "sni" [] kind(u) = "ssudp" -> "link"
               [] kind(u) \in {"ws", "shell"} -> "hand" [] OTHER -> "check")
  /\ Set(user, u, "open")
  /\ UNCHANGED <<counters, deadline, near, far, pump, remote>>

\* GetServerNameFromClientHello: no more than ten seconds
ReadName(u) ==
  /\ pc[u] = "sni" /\ GoOn(u, "host")
  /\ UNCHANGED <<counters, deadline, near, far, pump, remote>>

\* what was read may name a host, or getFallbackServerName does, or nothing
FindHost(u) ==
  /\ pc[u] = "host"
  /\ GoOn(u, "check") \/ (Goto(u, "end") /\ Set(user, u, "closed"))
  /\ UNCHANGED <<counters, deadline, near, far, pump, remote>>

\* what the callback of Accept does first
NewMode(u) ==
  CASE kind(u) \in {"tcp", "local"} -> "target" [] kind(u) = "https" -> "auth"
    [] kind(u) = "ss" -> "free" [] OTHER -> "hand"

\* the handshake of ProcessHttp and handleConn has ten seconds
Timed(u) == kind(u) \in {"http", "socks", "assoc"}

\* CheckFlowAndConnNum
Check(u) ==
  /\ pc[u] = "check"
  /\ IF Allowed(Payer)
       THEN CutConn(Payer) /\ GoOn(u, NewMode(u)) /\ Set(deadline, u, Timed(u))
       ELSE /\ Set(user, u, "closed") /\ Goto(u, "end")
            /\ UNCHANGED <<nowConn, deadline>>
  /\ UNCHANGED <<globalConn, near, far, pump, remote>>

\* Shadowsocks gives its place back before the library takes over
Free(u) ==
  /\ pc[u] = "free" /\ AddConn(Payer) /\ Goto(u, "hand")
  /\ UNCHANGED <<globalConn, user, deadline, near, far, pump, remote>>

-----------------------------------------------------------------------------
\* What each kind does before it asks for a stream.

\* where the connection was going is always known, if only as an empty name
HandleTrans(u) == kind(u) = "trans" /\ GoOn(u, "deal")

\* a request is read, or is none; the deadline is cleared either way
GetHost(u) == kind(u) = "http" /\ (GoOn(u, "auth") \/ Refused(u))

\* version, methods, the password if there is one; then the deadline is still there
handleConn(u) == kind(u) \in {"socks", "assoc"} /\ (GoOn(u, "request") \/ Refused(u))

\* the library has decrypted a destination; what it cannot make sense of is closed
NewConnection(u) == kind(u) = "ss" /\ (GoOn(u, "deal") \/ Refused(u))

\* may the user open a terminal of this client, and can the connection be upgraded?
OpenTerminal(u) == kind(u) = "shell" /\ (GoOn(u, "link") \/ Refused(u))

Hand(u) ==
  /\ pc[u] = "hand"
  /\ \/ HandleTrans(u) \/ GetHost(u) \/ handleConn(u) \/ NewConnection(u) \/ OpenTerminal(u)
  /\ Set(deadline, u, deadline[u] /\ kind(u) # "http")
  /\ UNCHANGED <<counters, near, far, pump, remote>>

\* a WebSocket: the host, the password, a target; counted only then, and unchecked
ServeHTTP(u) ==
  /\ pc[u] = "hand" /\ kind(u) = "ws"
  /\ \/ CutConn(Payer) /\ GoOn(u, "link")
     \/ UNCHANGED nowConn /\ Set(user, u, "closed") /\ Goto(u, "end")
  /\ UNCHANGED <<globalConn, deadline, near, far, pump, remote>>

doAuth(u) ==
  /\ pc[u] = "auth"
  /\ GoOn(u, IF kind(u) = "https" THEN "target" ELSE "deal") \/ Refused(u)
  /\ UNCHANGED <<counters, deadline, near, far, pump, remote>>

\* of the targets, those that the health checks have left
GetRandomTarget(u) ==
  /\ pc[u] = "target" /\ (GoOn(u, "deal") \/ Refused(u))
  /\ UNCHANGED <<counters, deadline, near, far, pump, remote>>

\* CONNECT and UDP ASSOCIATE with an address that can be read, or something else
handleRequest(u) ==
  /\ pc[u] = "request"
  /\ GoOn(u, IF kind(u) = "assoc" THEN "link" ELSE "deal") \/ Refused(u)
  /\ UNCHANGED <<counters, deadline, near, far, pump, remote>>

\* DealClient: the place among all connections, ...
Deal(u) ==
  /\ pc[u] = "deal"
  /\ IF TryAcquireGlobalConn
       THEN AcquireGlobalConn /\ Goto(u, "link") /\ UNCHANGED user
       ELSE Set(user, u, "closed") /\ Goto(u, After(u)) /\ UNCHANGED globalConn
  /\ UNCHANGED <<nowConn, deadline, near, far, pump, remote>>

\* ... the lists of addresses, then SendLinkInfo, which dials a local target or opens
\* a stream and sends the link, ...
SendLinkInfo(u) ==
  /\ Set(near, u, "open") /\ Set(far, u, "open")
  /\ Set(handle, u, IF kind(u) = "local" THEN "none" ELSE "info")

LinkSent(u) ==
  /\ pc[u] = "link" /\ SendLinkInfo(u)
  /\ IF Dealt(u) \/ kind(u) = "ws"
       THEN Goto(u, IF Dealt(u) THEN "queue" ELSE "hijack") /\ UNCHANGED pump
       ELSE Goto(u, "copy") /\ Set(pump, u, Both("run"))
  /\ UNCHANGED <<counters, user, deadline, service, copier>>

\* ... or fails, because there is no client or its tunnel is about to close
LinkFails(u) ==
  /\ pc[u] = "link"
  /\ Set(user, u, "closed")
  /\ Goto(u, IF Dealt(u) THEN "release" ELSE After(u))
  /\ UNCHANGED <<counters, deadline, near, far, pump, remote>>

\* With the stream open, the handler of a WebSocket takes the connection over from net/http,
\* or cannot, and closes the stream as it returns.
Hijack(u) ==
  /\ pc[u] = "hijack"
  /\ \/ Goto(u, "copy") /\ Set(pump, u, Both("run")) /\ UNCHANGED <<user, near>>
     \/ Refused(u) /\ Set(near, u, "closed") /\ UNCHANGED pump
  /\ UNCHANGED <<counters, deadline, far, remote>>

-----------------------------------------------------------------------------
\* CopyWaitGroup: a worker of the one pool invokes two of the other
Worker(u) ==
  /\ pc[u] = "queue"
  /\ Cardinality({v \in Users : Dealt(v) /\ pc[v] = "copy"}) < ConnsCap
  /\ Goto(u, "copy") /\ Set(pump, u, Both("wait"))
  /\ UNCHANGED <<counters, user, deadline, near, far, remote>>

\* (mutant: the pool of the pumps is as large as that of the workers)
TooFewPumps == ConnsCap
Pumps == CopyCap

Start(u, d) ==
  /\ pump[u][d] = "wait" /\ (d = "down" => pump[u]["up"] # "wait")
  /\ Cardinality({p \in Users \X Ways : Dealt(p[1]) /\ pump[p[1]][p[2]] = "run"}) < Pumps
  /\ pump' = [pump EXCEPT ![u][d] = "run"]
  /\ UNCHANGED <<counters, pc, user, deadline, near, far, remote>>

Broken(u) == near[u] = "closed" \/ far[u] = "closed"

\* What each kind of handler does while bytes are copied: the connections that the
\* two directions close when they end, the goroutines the handler waits for, what it
\* closes then, and whether the traffic of the client ends it.
copyConns ==
  [up |-> {"user", "near"}, down |-> {"user", "near"}, waits |-> Ways, last |-> {}, limited |-> TRUE]
serveWebSocket == [copyConns EXCEPT !.last = {"user", "near"}]
\* it reads the connection over which the association was asked for, and waits for none
handleUDP ==
  [up |-> {"user"}, down |-> {"user"}, waits |-> {}, last |-> {"user", "near"}, limited |-> FALSE]
\* itself copies down, or up
NewPacketConnection ==
  [up |-> {"near"}, down |-> {}, waits |-> {"down"}, last |-> {"user", "near"}, limited |-> TRUE]
Ws == [up |-> {}, down |-> {"user"}, waits |-> {"up"}, last |-> {"user", "near"}, limited |-> FALSE]

handler(u) ==
  CASE Dealt(u) -> copyConns [] kind(u) = "assoc" -> handleUDP
    [] kind(u) = "ssudp" -> NewPacketConnection [] kind(u) = "ws" -> serveWebSocket
    [] OTHER -> Ws

\* what a copying goroutine cannot miss: its Read fails.  An association's "up"
\* reads the UDP socket, which is open as long as the handler runs.
ReadFails(u, d) ==
  IF d = "down" THEN Broken(u)
  ELSE IF kind(u) = "assoc" THEN pc[u] # "copy" ELSE user[u] # "open"

\* what it meets when there are bytes: Write fails, or they are too many
WriteFails(u, d) ==
  user[u] # "open" \/ Broken(u) \/ (handler(u).limited /\ exceeded[Payer])

\* the user is none of the client's white list (CopyBuffer is told the tunnel)
Denied(u) == load.denied /\ kind(u) \in {"tcp", "trans", "local", "http", "socks", "ss"}

\* CopyBuffer shows whoever is denied a page where to ask, at the first byte from either
\* side, closes the user's connection if it was reading that, and returns no error: then
\* copyConnGroup closes nothing.
CopyBuffer(u, d) ==
  IF ~Denied(u) THEN handler(u)[d] ELSE IF d = "up" THEN {"user"} ELSE {}

Closing(u, names) ==
  /\ user' = [user EXCEPT ![u] = IF "user" \in names THEN "closed" ELSE @]
  /\ near' = [near EXCEPT ![u] = IF "near" \in names THEN "closed" ELSE @]

PumpEnds(u, d) ==
  /\ pump[u][d] = "run"
  /\ pump' = [pump EXCEPT ![u][d] = "end"]
  /\ Closing(u, CopyBuffer(u, d))
  /\ UNCHANGED <<counters, pc, deadline, far, remote>>

\* the deadline of a handshake that is long over
TimesOut(u, d) == d = "up" /\ kind(u) # "assoc" /\ deadline[u]

HandlerReturns(u) ==
  /\ pc[u] = "copy" /\ \A d \in handler(u).waits : pump[u][d] = "end"
  /\ kind(u) = "assoc" => user[u] # "open" \/ deadline[u]
  /\ Closing(u, handler(u).last)
  /\ Goto(u, IF Dealt(u) THEN "release" ELSE After(u))
  /\ UNCHANGED <<counters, deadline, far, pump, remote>>

Release(u) ==
  /\ pc[u] = "release" /\ ReleaseGlobalConn
  /\ Goto(u, After(u))
  /\ UNCHANGED <<nowConn, user, deadline, near, far, pump, remote>>

\* (mutant: an early return without it)
Kept(c) == UNCHANGED nowConn
GivenBack(c) == AddConn(c)

Uncount(u) ==
  /\ pc[u] = "uncount" /\ GivenBack(Payer) /\ Goto(u, "end")
  /\ Set(deadline, u, FALSE)
  /\ UNCHANGED <<globalConn, user, near, far, pump, remote>>
-----------------------------------------------------------------------------
\* handleChan: the link is read, the service dialled (or a shell started), and bytes
\* are copied both ways; the link of kind udp5 gets a socket of its own (handleUdp)
Datagrams(u) == kind(u) \in {"assoc", "ssudp"}

GetLinkInfo(u) ==
  /\ handle[u] = "info"
  /\ \/ far[u] = "open" /\ Set(handle, u, "dial") /\ UNCHANGED far
     \/ Broken(u) /\ Set(handle, u, "end") /\ Set(far, u, "closed")
  /\ UNCHANGED <<counters, server, near, service, copier>>

\* nothing looks at the stream meanwhile
Dial(u) ==
  /\ handle[u] = "dial"
  /\ Set(handle, u, "copy") /\ Set(service, u, "open") /\ Set(copier, u, Both("run"))
  /\ UNCHANGED <<counters, server, near, far>>

DialFails(u) ==
  /\ handle[u] = "dial"
  /\ Set(handle, u, "end") /\ Set(far, u, "closed")
  /\ UNCHANGED <<counters, server, near, service, copier>>

CopierReadFails(u, d) == IF d = "up" THEN Broken(u) ELSE service[u] # "open"

CopierFails(u, d) == service[u] # "open" \/ Broken(u)

CopierEnds(u, d) ==
  /\ copier[u][d] = "run"
  /\ copier' = [copier EXCEPT ![u][d] = "end"]
  /\ Set(far, u, "closed")
  /\ IF Datagrams(u) /\ d = "down" THEN UNCHANGED service ELSE Set(service, u, "closed")
  /\ UNCHANGED <<counters, server, near, handle>>

Handled(u) ==
  /\ handle[u] = "copy" /\ copier[u] = Both("end")
  /\ Set(handle, u, "end")
  /\ UNCHANGED <<counters, server, near, far, service, copier>>

-----------------------------------------------------------------------------
\* the user, the service, the target of a local tunnel, and the tunnel between
\* server and client, which takes all its streams along
UserLeaves(u) ==
  /\ user[u] = "open" /\ Set(user, u, "gone")
  /\ UNCHANGED <<counters, pc, deadline, near, far, pump, remote>>

ServiceLeaves(u) ==
  /\ service[u] = "open" /\ ~Datagrams(u) /\ Set(service, u, "gone")
  /\ UNCHANGED <<counters, server, near, far, handle, copier>>

TargetLeaves(u) ==
  /\ kind(u) = "local" /\ far[u] = "open" /\ Set(far, u, "closed")
  /\ UNCHANGED <<counters, server, near, remote>>

TunnelFails(u) ==
  /\ kind(u) # "local" /\ "open" \in {near[u], far[u]}
  /\ Set(near, u, "closed") /\ Set(far, u, "closed")
  /\ UNCHANGED <<counters, server, remote>>

\* what the goroutines cannot but do
Moves(u) ==
  \/ ReadName(u) \/ FindHost(u) \/ Check(u) \/ Free(u) \/ Hand(u) \/ ServeHTTP(u) \/ doAuth(u)
  \/ GetRandomTarget(u) \/ handleRequest(u) \/ Deal(u) \/ LinkSent(u) \/ LinkFails(u)
  \/ Hijack(u) \/ Worker(u) \/ HandlerReturns(u) \/ Release(u) \/ Uncount(u) \/ GetLinkInfo(u) \/ Dial(u)
  \/ DialFails(u) \/ Handled(u)
  \/ \E d \in Ways :
       \/ Start(u, d)
       \/ (ReadFails(u, d) \/ TimesOut(u, d)) /\ PumpEnds(u, d)
       \/ CopierReadFails(u, d) /\ CopierEnds(u, d)

ForwardGoesOn ==
  /\ \E u \in Users : Moves(u)
  /\ UNCHANGED <<load, exceeded>>

ForwardNext ==
  \/ ForwardGoesOn
  \/ /\ \E u \in Users :
          \/ Arrive(u) \/ UserLeaves(u) \/ ServiceLeaves(u) \/ TargetLeaves(u) \/ TunnelFails(u)
          \/ \E d \in Ways :
               \/ (WriteFails(u, d) \/ Denied(u)) /\ PumpEnds(u, d)
               \/ CopierFails(u, d) /\ CopierEnds(u, d)
     /\ UNCHANGED <<load, exceeded>>

-----------------------------------------------------------------------------
\* whom the server has done with
Done(u) == pc[u] \in {"none", "end"}

\* The handler has returned: nobody holds the user's socket or the stream, but for the
\* stream of somebody denied; and the client nothing of what it opened.
ForwardLeft(u) ==
  \/ pc[u] = "end" /\ (user[u] # "closed" \/ (near[u] = "open" /\ ~Denied(u)))
  \/ handle[u] = "end" /\ (far[u] # "closed" \/ service[u] \in {"open", "gone"})

\* One of the four who take part has gone; if the user is denied, one on either side,
\* for what has ended one direction does not end the other.
FarOver(u) == Broken(u) \/ service[u] = "gone"
Over(u) ==
  \/ pc[u] = "none"
  \/ IF Denied(u) THEN user[u] # "open" /\ FarOver(u) ELSE user[u] # "open" \/ FarOver(u)

ForwardOver == \A u \in Users : Over(u)
ForwardEnded ==
  \A u \in Users : /\ Done(u) /\ handle[u] \in {"none", "end"}
                   /\ \A d \in Ways : {pump[u][d], copier[u][d]} \subseteq {"none", "end"}

\* "When the handshake ends the deadline is cleared at once, it does not touch the
\* forwarding that follows" (socks5.go:361): nothing is copied under a deadline.
CopiesUntimed == \A u \in Users : deadline[u] => pump[u]["up"] # "run" \/ kind(u) = "assoc"
=============================================================================
