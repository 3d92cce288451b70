---------------------------- MODULE ProxyProofs -----------------------------
(* What holds of the proxies for any number of clients, loads, connections   *)
(* and requests.                                                             *)
EXTENDS Proxy, FiniteSetTheorems, TLAPS

-----------------------------------------------------------------------------
(* The invariant of each part, and what it holds of the limits.              *)

\* Before there is a stream.
Before == {"none", "sni", "host", "check", "free", "hand", "auth", "target", "request", "deal", "link"}

\* Each stage belongs to some kinds of users.
InCourse(u) ==
  /\ pc[u] \in {"sni", "host"} => kind(u) = "https"
  /\ pc[u] = "check" => kind(u) \notin {"ssudp", "ws", "shell"}
  /\ pc[u] = "free" => kind(u) = "ss"
  /\ pc[u] = "hand" => kind(u) \notin {"tcp", "local", "https", "ssudp"}
  /\ pc[u] = "auth" => kind(u) \in {"http", "https"}
  /\ pc[u] = "target" => kind(u) \in {"tcp", "local", "https"}
  /\ pc[u] = "request" => kind(u) \in {"socks", "assoc"}
  /\ pc[u] \in {"deal", "queue", "release"} => Dealt(u)
  /\ pc[u] = "hijack" => kind(u) = "ws"
  /\ pc[u] \in {"link", "copy"} => Dealt(u) \/ kind(u) \in {"assoc", "ssudp", "ws", "shell"}
  /\ pc[u] = "uncount" => kind(u) \notin {"ss", "ssudp", "shell"}

\* Who has returned, or whose "up" has ended, has no socket, and no stream but of somebody
\* denied.
Shut(u) == user[u] = "closed" /\ (near[u] = "open" => Denied(u))

UserInv(u) ==
  /\ InCourse(u)
  /\ pc[u] \in Before => /\ near[u] = "none" /\ far[u] = "none" /\ handle[u] = "none"
                         /\ service[u] = "none" /\ \A d \in Ways : pump[u][d] = "none"
  /\ pc[u] \in {"release", "uncount", "end"} => Shut(u)
  /\ Dealt(u) /\ pump[u]["up"] = "end" => Shut(u)
  /\ handle[u] \in {"none", "info", "dial"} =>
       service[u] = "none" /\ \A d \in Ways : copier[u][d] # "run"
  /\ handle[u] = "copy" /\ copier[u]["up"] = "end" => service[u] = "closed" /\ far[u] = "closed"
  /\ handle[u] = "end" => service[u] \in {"none", "closed"} /\ far[u] = "closed"

ForwardInv == ForwardTypeOK /\ \A u \in Users : UserInv(u)

\* The user has a place of the client (NowConn), and one among all connections.
Pays(u) ==
  IF kind(u) = "ss" THEN pc[u] = "free"
  ELSE IF kind(u) = "ws" THEN pc[u] \in {"link", "hijack", "copy", "uncount"}
  ELSE /\ kind(u) \notin {"ssudp", "shell"}
       /\ pc[u] \in {"hand", "auth", "target", "request", "deal", "link", "queue", "copy",
                     "release", "uncount"}
Takes(u) == Dealt(u) /\ pc[u] \in {"link", "queue", "copy", "release"}

Payers == {u \in Users : Pays(u)}
Takers == {u \in Users : Takes(u)}

One(b) == IF b THEN 1 ELSE 0

\* A set that changes at one element: its cardinality follows.
LEMMA OneChanges ==
  ASSUME NEW S, NEW T, NEW x, IsFiniteSet(S), T \ {x} = S \ {x}
  PROVE  /\ IsFiniteSet(T)
         /\ Cardinality(S) \in Nat /\ Cardinality(T) \in Nat
         /\ Cardinality(T) = Cardinality(S) + One(x \in T) - One(x \in S)
<1>1. IsFiniteSet(T)
  <2>1. IsFiniteSet(S \cup {x})
    BY FS_AddElement
  <2>2. T \subseteq S \cup {x}
    OBVIOUS
  <2> QED BY <2>1, <2>2, FS_Subset
<1>2. Cardinality(S) \in Nat /\ Cardinality(T) \in Nat
  BY <1>1, FS_CardinalityType
<1>3. Cardinality(S \ {x}) = IF x \in S THEN Cardinality(S) - 1 ELSE Cardinality(S)
  BY FS_RemoveElement
<1>4. Cardinality(T \ {x}) = IF x \in T THEN Cardinality(T) - 1 ELSE Cardinality(T)
  BY <1>1, FS_RemoveElement
<1> QED BY <1>1, <1>2, <1>3, <1>4 DEF One

-----------------------------------------------------------------------------
(* A user's connection through a tunnel.                                     *)

\* The load is chosen once, and with it what each user is.
LEMMA KindsStay ==
  ASSUME UNCHANGED load, NEW u
  PROVE  kind(u)' = kind(u) /\ Dealt(u)' = Dealt(u) /\ Denied(u)' = Denied(u)
BY DEF kind, Dealt, Denied

\* What is done for one user is nothing to another.
OtherUsers(u) ==
  \A v \in Users \ {u} :
    /\ pc[v]' = pc[v] /\ user[v]' = user[v] /\ near[v]' = near[v] /\ far[v]' = far[v]
    /\ pump[v]' = pump[v] /\ handle[v]' = handle[v] /\ service[v]' = service[v]
    /\ copier[v]' = copier[v]

\* The steps before there is a stream, ...
Asks(u) ==
  \/ Arrive(u) \/ ReadName(u) \/ FindHost(u) \/ Check(u) \/ Free(u) \/ Hand(u) \/ ServeHTTP(u)
  \/ doAuth(u) \/ GetRandomTarget(u) \/ handleRequest(u) \/ Deal(u) \/ LinkFails(u)

\* ... those of the server from then on, ...
Serving(u) ==
  \/ LinkSent(u) \/ Hijack(u) \/ Worker(u) \/ HandlerReturns(u) \/ Release(u) \/ Uncount(u)
  \/ UserLeaves(u) \/ \E d \in Ways : Start(u, d) \/ PumpEnds(u, d)

\* ... and those of the client and of what lies between.
Beyond(u) ==
  \/ GetLinkInfo(u) \/ Dial(u) \/ DialFails(u) \/ Handled(u) \/ ServiceLeaves(u) \/ TargetLeaves(u)
  \/ TunnelFails(u) \/ \E d \in Ways : CopierEnds(u, d)

\* Every step of this part is one of a user's.
LEMMA UsersStep ==
  ForwardNext => UNCHANGED <<load, exceeded>> /\ \E u \in Users : Asks(u) \/ Serving(u) \/ Beyond(u)
BY DEF ForwardNext, ForwardGoesOn, Moves, Asks, Serving, Beyond

\* What the steps before the stream change.
LEMMA AskingTyped ==
  ASSUME ForwardTypeOK, NEW u \in Users, Asks(u)
  PROVE  ForwardTypeOK' /\ OtherUsers(u)
<1> DEFINE Pcs == {"none", "sni", "host", "check", "free", "hand", "auth", "target", "request",
                   "deal", "link", "hijack", "queue", "copy", "release", "uncount", "end"}
<1>0. pc \in [Users -> Pcs] /\ user \in [Users -> Socket] /\ deadline \in [Users -> BOOLEAN]
  BY DEF ForwardTypeOK
<1>1. /\ \E l \in Pcs : pc' = [pc EXCEPT ![u] = l]
      /\ user' = user \/ \E x \in Socket : user' = [user EXCEPT ![u] = x]
  <2> USE DEF Goto, GoOn, Set, Refused, After, Socket
  <2>1. CASE Arrive(u)
    BY <2>1 DEF Arrive
  <2>2. CASE ReadName(u) \/ FindHost(u)
    BY <2>2 DEF ReadName, FindHost
  <2>3. CASE Check(u)
    BY <2>3 DEF Check, NewMode
  <2>4. CASE Free(u) \/ ServeHTTP(u)
    BY <2>4 DEF Free, ServeHTTP
  <2>5. CASE Hand(u)
    BY <2>5 DEF Hand, HandleTrans, GetHost, handleConn, NewConnection, OpenTerminal
  <2>6. CASE doAuth(u) \/ GetRandomTarget(u) \/ handleRequest(u)
    BY <2>6 DEF doAuth, GetRandomTarget, handleRequest
  <2>7. CASE Deal(u) \/ LinkFails(u)
    BY <2>7 DEF Deal, LinkFails
  <2> QED BY <2>1, <2>2, <2>3, <2>4, <2>5, <2>6, <2>7 DEF Asks
<1>2. deadline' \in [Users -> BOOLEAN]
  <2>1. CASE Check(u)
    <3>1. Timed(u) \in BOOLEAN
      BY DEF Timed
    <3>2. deadline' = deadline \/ deadline' = [deadline EXCEPT ![u] = Timed(u)]
      BY <2>1 DEF Check, Set
    <3> QED BY <1>0, <3>1, <3>2
  <2>2. CASE Hand(u)
    BY <1>0, <2>2 DEF Hand, Set
  <2>3. CASE UNCHANGED deadline
    BY <1>0, <2>3
  <2> QED BY <2>1, <2>2, <2>3 DEF Asks, Arrive, ReadName, FindHost, Free, ServeHTTP, doAuth,
                                  GetRandomTarget, handleRequest, Deal, LinkFails
<1>3. UNCHANGED <<near, far, pump, remote>>
  BY DEF Asks, Arrive, ReadName, FindHost, Check, Free, Hand, ServeHTTP, doAuth, GetRandomTarget,
         handleRequest, Deal, LinkFails
<1>4. pc' \in [Users -> Pcs] /\ user' \in [Users -> Socket]
  BY <1>0, <1>1
<1>5. OtherUsers(u)
  BY <1>0, <1>1, <1>3 DEF OtherUsers, remote
<1> QED BY <1>2, <1>3, <1>4, <1>5 DEF ForwardTypeOK, remote

\* The two directions of a connection are in the same state.
LEMMA BothTyped == \A x \in Pump : Both(x) \in [Ways -> Pump]
BY DEF Both

\* ... when bytes are copied, ...
LEMMA ServingTyped ==
  ASSUME ForwardTypeOK, NEW u \in Users, Serving(u)
  PROVE  ForwardTypeOK' /\ OtherUsers(u)
<1> USE DEF ForwardTypeOK, OtherUsers, Socket, Goto, Set, After, remote
<1>0. "run" \in Pump /\ "wait" \in Pump /\ "end" \in Pump
  BY DEF Pump
<1>1. CASE LinkSent(u)
  <2>1. pump' \in [Users -> [Ways -> Pump]] /\ \A v \in Users \ {u} : pump[v]' = pump[v]
    BY <1>0, <1>1, BothTyped, ZenonT(60) DEF LinkSent
  <2>2. pc' \in [Users -> {"none", "sni", "host", "check", "free", "hand", "auth", "target",
                          "request", "deal", "link", "hijack", "queue", "copy", "release", "uncount",
                          "end"}]
        /\ \A v \in Users \ {u} : pc[v]' = pc[v]
    BY <1>1, ZenonT(60) DEF LinkSent
  <2>3. near' = [near EXCEPT ![u] = "open"] /\ far' = [far EXCEPT ![u] = "open"]
        /\ handle' = [handle EXCEPT ![u] = IF kind(u) = "local" THEN "none" ELSE "info"]
        /\ UNCHANGED <<user, deadline, service, copier>>
    BY <1>1 DEF LinkSent, SendLinkInfo
  <2> QED BY <2>1, <2>2, <2>3
<1>8. CASE Hijack(u)
  <2>1. pump' \in [Users -> [Ways -> Pump]] /\ \A v \in Users \ {u} : pump[v]' = pump[v]
    BY <1>0, <1>8, BothTyped, ZenonT(60) DEF Hijack
  <2>2. UNCHANGED <<deadline, far, handle, service, copier>>
    BY <1>8 DEF Hijack
  <2>3. CASE pc' = [pc EXCEPT ![u] = "copy"] /\ UNCHANGED <<user, near>>
    BY <2>1, <2>2, <2>3, SMTT(60)
  <2>4. CASE /\ pc' = [pc EXCEPT ![u] = After(u)]
             /\ user' = [user EXCEPT ![u] = "closed"] /\ near' = [near EXCEPT ![u] = "closed"]
    BY <2>1, <2>2, <2>4, SMTT(60)
  <2> QED BY <1>8, <2>3, <2>4, ZenonT(60) DEF Hijack, Refused
<1>2. CASE Worker(u)
  <2>1. pump' \in [Users -> [Ways -> Pump]] /\ \A v \in Users \ {u} : pump[v]' = pump[v]
    BY <1>0, <1>2, BothTyped DEF Worker
  <2> QED BY <1>2, <2>1 DEF Worker
<1>3. CASE UserLeaves(u)
  BY <1>3 DEF UserLeaves
<1>4. CASE HandlerReturns(u)
  BY <1>4 DEF HandlerReturns, Closing
<1>5. CASE Release(u) \/ Uncount(u)
  BY <1>5, ZenonT(60) DEF Release, Uncount
<1>6. ASSUME NEW d \in Ways, Start(u, d)
      PROVE  ForwardTypeOK' /\ OtherUsers(u)
  BY <1>0, <1>6 DEF Start
<1>7. ASSUME NEW d \in Ways, PumpEnds(u, d)
      PROVE  ForwardTypeOK' /\ OtherUsers(u)
  BY <1>0, <1>7 DEF PumpEnds, Closing
<1> QED BY <1>1, <1>2, <1>3, <1>4, <1>5, <1>6, <1>7, <1>8 DEF Serving

\* ... and beyond the stream.
LEMMA BeyondTyped ==
  ASSUME ForwardTypeOK, NEW u \in Users, Beyond(u)
  PROVE  ForwardTypeOK' /\ OtherUsers(u)
<1> USE DEF ForwardTypeOK, OtherUsers, Socket, Set, server, Ways
<1>1. CASE GetLinkInfo(u)
  <2>1. UNCHANGED <<pc, user, deadline, near, pump, service, copier>>
    BY <1>1 DEF GetLinkInfo
  <2>2. CASE handle' = [handle EXCEPT ![u] = "dial"] /\ UNCHANGED far
    BY <2>1, <2>2, SMTT(60)
  <2>3. CASE handle' = [handle EXCEPT ![u] = "end"] /\ far' = [far EXCEPT ![u] = "closed"]
    BY <2>1, <2>3, SMTT(60)
  <2> QED BY <1>1, <2>2, <2>3, ZenonT(60) DEF GetLinkInfo
<1>2. CASE DialFails(u)
  BY <1>2 DEF DialFails
<1>3. CASE Handled(u)
  BY <1>3 DEF Handled
<1>4. CASE Dial(u)
  BY <1>4, BothTyped DEF Dial, Pump
<1>5. CASE ServiceLeaves(u)
  BY <1>5 DEF ServiceLeaves
<1>6. CASE TargetLeaves(u)
  BY <1>6 DEF TargetLeaves, remote
<1>7. CASE TunnelFails(u)
  BY <1>7 DEF TunnelFails, remote
<1>8. ASSUME NEW d \in Ways, CopierEnds(u, d)
      PROVE  ForwardTypeOK' /\ OtherUsers(u)
  BY <1>8, SMTT(60) DEF CopierEnds, Pump
<1> QED BY <1>1, <1>2, <1>3, <1>4, <1>5, <1>6, <1>7, <1>8 DEF Beyond

\* The invariant of the user that a step is about, ...
LEMMA AskingKeeps ==
  ASSUME ForwardTypeOK, UNCHANGED load, NEW u \in Users, UserInv(u), Asks(u)
  PROVE  UserInv(u)'
<1> USE DEF ForwardTypeOK, UserInv, InCourse, Shut, Before, Goto, GoOn, Set, Refused, After, remote
<1>0. kind(u)' = kind(u) /\ Dealt(u)' = Dealt(u) /\ Denied(u)' = Denied(u)
  BY KindsStay
<1>1. CASE Arrive(u)
  <2>1. pc[u] = "none" /\ UNCHANGED <<near, far, pump, remote>>
    BY <1>1 DEF Arrive
  <2>2. pc'[u] \in {"sni", "link", "hand", "check"} /\ InCourse(u)'
    BY <1>0, <1>1 DEF Arrive, Dealt
  <2> QED BY <1>0, <2>1, <2>2 DEF Ways
<1>2. CASE ReadName(u) \/ FindHost(u)
  BY <1>0, <1>2 DEF ReadName, FindHost, Dealt
<1>3. CASE Check(u)
  BY <1>0, <1>3 DEF Check, NewMode, Dealt
<1>4. CASE Free(u) \/ ServeHTTP(u)
  BY <1>0, <1>4 DEF Free, ServeHTTP, Dealt
<1>5. CASE Hand(u)
  BY <1>0, <1>5 DEF Hand, HandleTrans, GetHost, handleConn, NewConnection, OpenTerminal, Dealt
<1>6. CASE doAuth(u) \/ GetRandomTarget(u) \/ handleRequest(u)
  BY <1>0, <1>6 DEF doAuth, GetRandomTarget, handleRequest, Dealt
<1>7. CASE Deal(u) \/ LinkFails(u)
  BY <1>0, <1>7 DEF Deal, LinkFails, Dealt
<1> QED BY <1>1, <1>2, <1>3, <1>4, <1>5, <1>6, <1>7 DEF Asks

\* ... with the connections that a direction closes when it ends, ...
LEMMA WhatIsClosed ==
  ASSUME NEW u \in Users
  PROVE  /\ Dealt(u) => /\ "user" \in CopyBuffer(u, "up")
                        /\ ~Denied(u) => "near" \in CopyBuffer(u, "up")
                        /\ handler(u).waits = Ways /\ handler(u).last = {}
         /\ ~Dealt(u) => {"user", "near"} \subseteq handler(u).last
<1>1. CASE Dealt(u)
  <2>1. handler(u) = copyConns
    BY <1>1 DEF handler, Dealt
  <2>2. copyConns["up"] = {"user", "near"} /\ copyConns.waits = Ways /\ copyConns.last = {}
    BY DEF copyConns
  <2> QED BY <1>1, <2>1, <2>2 DEF CopyBuffer
<1>2. CASE ~Dealt(u)
  BY <1>2 DEF handler, copyConns, serveWebSocket, handleUDP, NewPacketConnection, Ws
<1> QED BY <1>1, <1>2

\* The goroutines of the server close what they have to before they end.
LEMMA ServingKeeps ==
  ASSUME ForwardTypeOK, UNCHANGED load, NEW u \in Users, UserInv(u), Serving(u)
  PROVE  UserInv(u)'
<1> USE DEF ForwardTypeOK, UserInv, InCourse, Shut, Before, Goto, Set, After, remote
<1>0. kind(u)' = kind(u) /\ Dealt(u)' = Dealt(u) /\ Denied(u)' = Denied(u)
  BY KindsStay
<1>1. CASE LinkSent(u)
  BY <1>0, <1>1 DEF LinkSent, SendLinkInfo, Both, Ways, Dealt
<1>8. CASE Hijack(u)
  BY <1>0, <1>8 DEF Hijack, Refused, Both, Ways, Dealt
<1>2. CASE Worker(u)
  BY <1>0, <1>2 DEF Worker, Both, Ways
<1>3. CASE UserLeaves(u)
  BY <1>0, <1>3 DEF UserLeaves
<1>4. CASE HandlerReturns(u)
  <2>1. Shut(u)'
    BY <1>0, <1>4, WhatIsClosed DEF HandlerReturns, Closing, Ways
  <2>2. InCourse(u)' /\ pc[u] = "copy" /\ pc'[u] \in {"release", "uncount", "end"}
    BY <1>0, <1>4 DEF HandlerReturns, Dealt
  <2>3. UNCHANGED <<far, pump, remote>>
    BY <1>4 DEF HandlerReturns
  <2> QED BY <2>1, <2>2, <2>3
<1>5. CASE Release(u) \/ Uncount(u)
  BY <1>0, <1>5 DEF Release, Uncount, Dealt
<1>6. ASSUME NEW d \in Ways, Start(u, d)
      PROVE  UserInv(u)'
  BY <1>0, <1>6 DEF Start, Ways
<1>7. ASSUME NEW d \in Ways, PumpEnds(u, d)
      PROVE  UserInv(u)'
  <2>1. Shut(u) => Shut(u)'
    BY <1>0, <1>7 DEF PumpEnds, Closing
  <2>2. Dealt(u) /\ pump'[u]["up"] = "end" => Shut(u)'
    <3>1. CASE d = "up"
      BY <1>0, <1>7, <3>1, WhatIsClosed DEF PumpEnds, Closing
    <3>2. CASE d # "up"
      BY <1>7, <2>1, <3>2 DEF PumpEnds, Ways
    <3> QED BY <3>1, <3>2
  <2>3. pc[u] \notin Before
    <3>1. pump[u][d] = "run" /\ d \in {"up", "down"}
      BY <1>7 DEF PumpEnds, Ways
    <3> QED BY <3>1
  <2>4. UNCHANGED <<pc, far, remote>>
    BY <1>7 DEF PumpEnds
  <2> QED BY <1>0, <2>1, <2>2, <2>3, <2>4
<1> QED BY <1>1, <1>2, <1>3, <1>4, <1>5, <1>6, <1>7, <1>8 DEF Serving

\* So do those of the client.
LEMMA BeyondKeeps ==
  ASSUME ForwardTypeOK, UNCHANGED load, NEW u \in Users, UserInv(u), Beyond(u)
  PROVE  UserInv(u)'
<1> USE DEF ForwardTypeOK, UserInv, InCourse, Shut, Before, Set, server
<1>0. kind(u)' = kind(u) /\ Dealt(u)' = Dealt(u) /\ Denied(u)' = Denied(u)
  BY KindsStay
<1>1. CASE GetLinkInfo(u) \/ DialFails(u)
  BY <1>0, <1>1 DEF GetLinkInfo, DialFails
<1>2. CASE Dial(u)
  BY <1>0, <1>2 DEF Dial, Both, Ways
<1>3. CASE Handled(u)
  BY <1>0, <1>3 DEF Handled, Both, Ways
<1>4. CASE ServiceLeaves(u) \/ TargetLeaves(u) \/ TunnelFails(u)
  BY <1>0, <1>4 DEF ServiceLeaves, TargetLeaves, TunnelFails, remote
<1>5. ASSUME NEW d \in Ways, CopierEnds(u, d)
      PROVE  UserInv(u)'
  BY <1>0, <1>5 DEF CopierEnds, Ways
<1> QED BY <1>1, <1>2, <1>3, <1>4, <1>5 DEF Beyond

\* ... and what becomes of its places.
Books(u) ==
  /\ nowConn' \in [Clients -> Int]
  /\ \A c \in Clients :
       nowConn'[c] = nowConn[c] + (IF c = Payer THEN One(Pays(u)') - One(Pays(u)) ELSE 0)
  /\ globalConn' = globalConn + One(Takes(u)') - One(Takes(u))
  /\ globalConn' = globalConn + 1 => TryAcquireGlobalConn

\* One place more, or one less.
LEMMA CountOne ==
  ASSUME nowConn \in [Clients -> Int], NEW c, CutConn(c) \/ AddConn(c)
  PROVE  nowConn' \in [Clients -> Int]
BY DEF CutConn, AddConn

\* A place is taken, or given back, in the step that changes the stage.
LEMMA AskingBooks ==
  ASSUME ForwardTypeOK, QuotaTypeOK, UNCHANGED load, NEW u \in Users, UserInv(u), Asks(u)
  PROVE  Books(u)
<1> USE DEF ForwardTypeOK, UserInv, InCourse, Goto, GoOn, Set, Refused, After, counters, Books, Pays,
            Takes, One
<1>0. kind(u)' = kind(u) /\ Dealt(u)' = Dealt(u) /\ nowConn \in [Clients -> Int] /\ globalConn \in Int
  BY KindsStay DEF QuotaTypeOK
<1>1. CASE Arrive(u)
  BY <1>0, <1>1 DEF Arrive, Dealt
<1>2. CASE ReadName(u)
  BY <1>0, <1>2 DEF ReadName, Dealt
<1>12. CASE FindHost(u)
  BY <1>0, <1>12 DEF FindHost, Dealt
<1>3. CASE Check(u)
  BY <1>0, <1>3 DEF Check, NewMode, CutConn, Dealt
<1>4. CASE Free(u)
  <2>1. pc' = [pc EXCEPT ![u] = "hand"] /\ pc[u] = "free" /\ AddConn(Payer) /\ globalConn' = globalConn
    BY <1>4 DEF Free
  <2>2. kind(u) = "ss" /\ pc'[u] = "hand"
    BY <1>4, <2>1
  <2>3. nowConn' \in [Clients -> Int]
    BY <1>0, <2>1, CountOne
  <2> QED BY <1>0, <2>1, <2>2, <2>3 DEF AddConn
<1>5. CASE ServeHTTP(u)
  BY <1>0, <1>5 DEF ServeHTTP, CutConn, Dealt
<1>6. CASE Hand(u)
  BY <1>0, <1>6 DEF Hand, HandleTrans, GetHost, handleConn, NewConnection, OpenTerminal, Dealt
<1>7. CASE doAuth(u)
  <2>1. UNCHANGED counters /\ pc[u] = "auth" /\ pc'[u] \in {"target", "deal", "uncount"}
    BY <1>0, <1>7 DEF doAuth
  <2> QED BY <1>0, <2>1
<1>8. CASE GetRandomTarget(u)
  BY <1>0, <1>8 DEF GetRandomTarget, Dealt
<1>9. CASE handleRequest(u)
  BY <1>0, <1>9 DEF handleRequest, Dealt
<1>10. CASE Deal(u)
  BY <1>0, <1>10 DEF Deal, AcquireGlobalConn, Dealt
<1>11. CASE LinkFails(u)
  BY <1>0, <1>11 DEF LinkFails, Dealt
<1> QED BY <1>1, <1>2, <1>3, <1>4, <1>5, <1>6, <1>7, <1>8, <1>9, <1>10, <1>11, <1>12 DEF Asks

\* The handler that returns gives both back, one after the other.
LEMMA ServingBooks ==
  ASSUME ForwardTypeOK, QuotaTypeOK, UNCHANGED load, NEW u \in Users, UserInv(u), Serving(u)
  PROVE  Books(u)
<1> USE DEF ForwardTypeOK, UserInv, InCourse, Goto, Set, After, counters, Books, Pays, Takes, One
<1>0. kind(u)' = kind(u) /\ Dealt(u)' = Dealt(u) /\ nowConn \in [Clients -> Int] /\ globalConn \in Int
  BY KindsStay DEF QuotaTypeOK
<1>1. CASE LinkSent(u)
  BY <1>0, <1>1 DEF LinkSent, Dealt
<1>2. CASE Worker(u) \/ Hijack(u)
  BY <1>0, <1>2 DEF Worker, Hijack, Refused, Dealt
<1>3. CASE UNCHANGED <<counters, pc>>
  BY <1>0, <1>3
<1>4. CASE HandlerReturns(u)
  BY <1>0, <1>4 DEF HandlerReturns, Dealt
<1>5. CASE Release(u)
  BY <1>0, <1>5 DEF Release, ReleaseGlobalConn, Dealt
<1>6. CASE Uncount(u)
  <2>1. pc[u] = "uncount" /\ pc'[u] = "end" /\ AddConn(Payer) /\ globalConn' = globalConn
    BY <1>6 DEF Uncount, GivenBack
  <2>2. nowConn' \in [Clients -> Int]
    BY <1>0, <2>1, CountOne
  <2> QED BY <1>0, <2>1, <2>2 DEF AddConn
<1> QED BY <1>1, <1>2, <1>3, <1>4, <1>5, <1>6 DEF Serving, UserLeaves, Start, PumpEnds

\* The client's end has nothing to do with places.
LEMMA BeyondBooks ==
  ASSUME ForwardTypeOK, QuotaTypeOK, UNCHANGED load, NEW u \in Users, Beyond(u)
  PROVE  Books(u)
<1>0. kind(u)' = kind(u) /\ Dealt(u)' = Dealt(u) /\ nowConn \in [Clients -> Int] /\ globalConn \in Int
  BY KindsStay DEF QuotaTypeOK
<1>1. UNCHANGED <<counters, pc>>
  BY DEF Beyond, GetLinkInfo, Dial, DialFails, Handled, ServiceLeaves, TargetLeaves, TunnelFails,
         CopierEnds, server
<1> QED BY <1>0, <1>1 DEF Books, Pays, Takes, One, counters

\* Together: the invariant stays, and the places are those of the users that have them.
LEMMA ForwardStep ==
  ASSUME ForwardInv, QuotaTypeOK, ForwardNext
  PROVE  /\ ForwardInv' /\ UNCHANGED <<load, exceeded>>
         /\ \E u \in Users : Books(u) /\ \A v \in Users \ {u} : Pays(v)' = Pays(v) /\ Takes(v)' = Takes(v)
<1>1. PICK u \in Users : Asks(u) \/ Serving(u) \/ Beyond(u)
  BY UsersStep
<1>2. UNCHANGED <<load, exceeded>>
  BY UsersStep
<1>3. ForwardTypeOK' /\ OtherUsers(u)
  BY <1>1, AskingTyped, ServingTyped, BeyondTyped DEF ForwardInv
<1>4. UserInv(u)' /\ Books(u)
  BY <1>1, <1>2, AskingKeeps, ServingKeeps, BeyondKeeps, AskingBooks, ServingBooks, BeyondBooks
     DEF ForwardInv
<1>5. ASSUME NEW v \in Users \ {u}
      PROVE  UserInv(v)' /\ Pays(v)' = Pays(v) /\ Takes(v)' = Takes(v)
  <2>1. kind(v)' = kind(v) /\ Dealt(v)' = Dealt(v) /\ Denied(v)' = Denied(v)
    BY <1>2, KindsStay
  <2>2. UserInv(v)
    BY DEF ForwardInv
  <2>3. /\ pc[v]' = pc[v] /\ user[v]' = user[v] /\ near[v]' = near[v] /\ far[v]' = far[v]
        /\ pump[v]' = pump[v] /\ handle[v]' = handle[v] /\ service[v]' = service[v]
        /\ copier[v]' = copier[v]
    BY <1>3 DEF OtherUsers
  <2>4. InCourse(v)' /\ (Shut(v) => Shut(v)')
    BY <2>1, <2>2, <2>3 DEF UserInv, InCourse, Shut
  <2>5. UserInv(v)'
    BY <2>1, <2>2, <2>3, <2>4 DEF UserInv
  <2>6. Pays(v)' = Pays(v)
    BY <2>1, <2>3 DEF Pays
  <2>7. Takes(v)' = Takes(v)
    BY <2>1, <2>3 DEF Takes
  <2> QED BY <2>5, <2>6, <2>7
<1> QED BY <1>2, <1>3, <1>4, <1>5 DEF ForwardInv

-----------------------------------------------------------------------------
(* A user's connection survives the change from one host to the next.  The   *)
(* flag of a generation is set before its stream is closed for the change,   *)
(* so that a copying goroutine that sees only that close finds the flag.     *)

HttpTyped ==
  /\ HttpTypeOK
  /\ hpc = "none" => hconn = "none" /\ \A g \in HGens : answers[g] = "none"
  /\ hpc # "none" => request # 0
  /\ hpc \in {"serve", "read", "tear"} => gen # 0
  /\ hpc \in {"none", "check", "end"} => counted = Nobody
  /\ hpc \in {"free", "end"} => hconn = "closed"

\* While the answers are copied only a stream that was torn down, or the end of all, is
\* closed at this side; what was torn down is flagged; who closes the user has seen no flag.
HttpFlagged(g) ==
  /\ hnear[g] = "closed" /\ answers[g] = "run" => resetFlag[g] \/ hconn = "closed"
  /\ torn[g] => resetFlag[g]
  /\ answers[g] = "shut" => ~torn[g]
  /\ hnear[g] = "open" => answers[g] \notin {"none", "end"}

HttpInv == HttpTyped /\ \A g \in HGens : HttpFlagged(g)

\* The first state has no generation.
LEMMA HttpInitially == HttpInit /\ load \in Loads => HttpInv
<1> SUFFICES ASSUME HttpInit, load \in Loads PROVE HttpInv
  OBVIOUS
<1>1. Len(load.hosts) \in Nat
  BY HttpAssumption
<1> QED BY <1>1, HttpAssumption DEF HttpInit, HttpInv, HttpTyped, HttpTypeOK, HttpFlagged, HGens

\* What the copying goroutine of a generation does keeps the invariant.
LEMMA AnswersKeepInv ==
  ASSUME HttpInv, UNCHANGED load, NEW g \in HGens,
         AnswersEnd(g) \/ AskFlag(g) \/ CloseUser(g) \/ CloseOwn(g) \/ FarEnds(g)
  PROVE  HttpInv'
<1> USE DEF HttpInv, HttpTyped, HttpTypeOK, HttpFlagged, main
<1>1. CASE AnswersEnd(g)
  <2>1. torn' \in [HGens -> BOOLEAN]
    BY <1>1 DEF AnswersEnd
  <2> QED BY <1>1, <2>1 DEF AnswersEnd
<1>2. CASE AskFlag(g)
  BY <1>2 DEF AskFlag
<1>3. CASE CloseUser(g)
  BY <1>3 DEF CloseUser
<1>4. CASE CloseOwn(g)
  BY <1>4 DEF CloseOwn
<1>5. CASE FarEnds(g)
  BY <1>5 DEF FarEnds
<1> QED BY <1>1, <1>2, <1>3, <1>4, <1>5

\* The steps of handleHttp.
Handling ==
  \/ HttpArrives \/ Reset \/ Admit \/ Connect \/ NotConnected \/ writeRequestRaw
  \/ NotWritten \/ NextRequest \/ UnknownHost \/ NoRequest \/ Tear \/ Waited \/ Leave
  \/ FreeLast \/ HttpUserLeaves

\* The host of the request at hand is one of a client.
LEMMA HostIsOfClient ==
  ASSUME HttpInv, load \in Loads
  PROVE  Len(load.hosts) \in Nat /\ (hpc # "none" => hostClient \in Clients /\ hostClient # Nobody)
BY HttpAssumption DEF HttpInv, HttpTyped, HttpTypeOK, hostClient

\* So does every step of handleHttp; the change of host sets the flag first.
LEMMA HandlerKeepsInv ==
  ASSUME HttpInv, load \in Loads, UNCHANGED load, Handling
  PROVE  HttpInv'
<1> USE HttpAssumption, HostIsOfClient DEF HttpInv, HttpTyped, HttpTypeOK, HttpFlagged, main, HGens
<1>1. CASE HttpArrives
  BY <1>1 DEF HttpArrives
<1>2. CASE Reset \/ FreeLast
  BY <1>2 DEF Reset, FreeLast, Released
<1>9. CASE Admit
  BY <1>9 DEF Admit
<1>3. CASE Connect
  BY <1>3 DEF Connect
<1>4. CASE NotConnected \/ NotWritten \/ UnknownHost \/ NoRequest \/ Waited \/ writeRequestRaw
  BY <1>4 DEF NotConnected, NotWritten, UnknownHost, NoRequest, Waited, writeRequestRaw
<1>5. CASE NextRequest
  <2>1. /\ hpc = "read" /\ hpc' \in {"serve", "tear"} /\ request' = request + 1
        /\ request < Len(load.hosts) /\ UNCHANGED <<hconn, gen, counted, hfar, answers, torn, hnear>>
        /\ resetFlag' = resetFlag \/ resetFlag' = [resetFlag EXCEPT ![gen] = TRUE]
    BY <1>5 DEF NextRequest, FlagBefore
  <2>2. resetFlag' \in [HGens -> BOOLEAN] /\ \A g \in HGens : resetFlag[g] => resetFlag'[g]
    BY <2>1
  <2>3. request' \in 0..Len(load.hosts) /\ request' # 0
    BY <2>1
  <2> QED BY <2>1, <2>2, <2>3
<1>6. CASE Tear
  BY <1>6 DEF Tear
<1>7. CASE Leave
  BY <1>7 DEF Leave
<1>8. CASE HttpUserLeaves
  BY <1>8 DEF HttpUserLeaves
<1> QED BY <1>1, <1>2, <1>3, <1>4, <1>5, <1>6, <1>7, <1>8, <1>9 DEF Handling

\* The place that is counted is the one that is held: of the client it was taken from.
HttpBooks ==
  /\ nowConn' \in [Clients -> Int]
  /\ \A c \in Clients : nowConn'[c] = nowConn[c] + One(counted' = c) - One(counted = c)
  /\ globalConn' = globalConn

\* Together: the invariant stays, and the places with it.
LEMMA HttpStep ==
  ASSUME HttpInv, QuotaTypeOK, HttpNext
  PROVE  HttpInv' /\ HttpBooks /\ UNCHANGED <<load, exceeded>>
<1> USE DEF HttpBooks, One, counters, main
<1>0. UNCHANGED <<load, exceeded>> /\ load \in Loads /\ nowConn \in [Clients -> Int]
  BY DEF HttpNext, HttpGoesOn, QuotaTypeOK
<1>1. CASE \E g \in HGens : AnswersEnd(g) \/ AskFlag(g) \/ CloseUser(g) \/ CloseOwn(g) \/ FarEnds(g)
  <2>1. HttpInv'
    BY <1>0, <1>1, AnswersKeepInv
  <2>2. UNCHANGED <<counters, counted>>
    BY <1>1 DEF AnswersEnd, AskFlag, CloseUser, CloseOwn, FarEnds
  <2> QED BY <1>0, <2>1, <2>2
<1>2. CASE Handling
  <2>1. HttpInv'
    BY <1>0, <1>2, HandlerKeepsInv
  <2>2. CASE Reset \/ FreeLast
    <3>1. counted' = Nobody /\ Nobody \notin Clients /\ globalConn' = globalConn
      BY <2>2, HttpAssumption DEF Reset, FreeLast, Released
    <3>2. IF counted = Nobody THEN nowConn' = nowConn
                              ELSE nowConn' = [nowConn EXCEPT ![counted] = @ - 1]
      BY <2>2 DEF Reset, FreeLast, Released, AddConn
    <3>3. ASSUME NEW c \in Clients
          PROVE  nowConn'[c] = nowConn[c] + One(counted' = c) - One(counted = c)
      <4>1. c # Nobody /\ nowConn[c] \in Int
        BY <1>0, <3>1
      <4> QED BY <1>0, <3>1, <3>2, <4>1
    <3>4. nowConn' \in [Clients -> Int]
      BY <1>0, <3>2
    <3> QED BY <2>1, <1>0, <3>1, <3>3, <3>4
  <2>3. CASE Admit
    <3>1. counted = Nobody /\ Nobody \notin Clients
      BY <2>3, HttpAssumption DEF Admit, HttpInv, HttpTyped
    <3> QED BY <1>0, <2>1, <2>3, <3>1 DEF Admit, CutConn
  <2>4. CASE UNCHANGED <<counters, counted>>
    <3>1. \A c \in Clients : nowConn[c] \in Int
      BY <1>0
    <3> QED BY <1>0, <2>1, <2>4, <3>1
  <2>5. Reset \/ FreeLast \/ Admit \/ UNCHANGED <<counters, counted>>
    BY <1>2 DEF Handling, HttpArrives, Connect, NotConnected, writeRequestRaw, NotWritten,
                NextRequest, UnknownHost, NoRequest, Tear, Waited, Leave, HttpUserLeaves
  <2> QED BY <1>0, <2>1, <2>2, <2>3, <2>4, <2>5
<1> QED BY <1>0, <1>1, <1>2 DEF HttpNext, HttpGoesOn, Handling

-----------------------------------------------------------------------------
(* The shared port: Close closes the channels that process sends to, and a   *)
(* send on a closed channel would end the program.                           *)

PortInv ==
  /\ PortTypeOK
  /\ closing = "closed" => NoneInFlight
  /\ \A c \in Conns : process[c] = "end" => socket[c] # "open"

\* When the channels are closed nobody is left who could send, and nobody comes.
LEMMA PortStep == PortInv /\ PortNext => PortInv'
<1> SUFFICES ASSUME PortInv, PortNext PROVE PortInv'
  OBVIOUS
<1> USE DEF PortInv, PortTypeOK, NoneInFlight, Go
<1>1. ASSUME NEW c \in Conns, AcceptPort(c) PROVE PortInv'
  BY <1>1 DEF AcceptPort
<1>2. ASSUME NEW c \in Conns, Recognise(c) PROVE PortInv'
  BY <1>2 DEF Recognise
<1>3. ASSUME NEW c \in Conns, Send(c) PROVE PortInv'
  BY <1>3 DEF Send
<1>4. ASSUME NEW c \in Conns, GiveUp(c) PROVE PortInv'
  BY <1>4 DEF GiveUp
<1>5. CASE AcceptStops
  BY <1>5 DEF AcceptStops
<1>6. CASE BeginClose
  BY <1>6 DEF BeginClose
<1>7. CASE CloseChannels
  BY <1>7 DEF CloseChannels
<1>8. CASE StopListening
  BY <1>8 DEF StopListening
<1> QED BY <1>1, <1>2, <1>3, <1>4, <1>5, <1>6, <1>7, <1>8 DEF PortNext, PortGoesOn

\* No goroutine of the port multiplexer sends on a channel that Close has closed (it
\* would be in "panic", which is none of its types), however many connections it has
\* under way (pmux.go, the comment on wg).
THEOREM PortNeverPanics == Spec => []PortTypeOK
<1>1. Init => PortInv
  BY DEF Init, PortInit, PortInv, PortTypeOK
<1>2. PortInv /\ [Next]_vars => PortInv'
  <2> SUFFICES ASSUME PortInv, [Next]_vars PROVE PortInv'
    OBVIOUS
  <2>1. CASE UNCHANGED portVars
    BY <2>1 DEF portVars, PortInv, PortTypeOK, NoneInFlight
  <2>2. PortNext \/ UNCHANGED portVars
    BY DEF Next, vars, OnlyForward, OnlyHttp, OnlyUdp, OnlyHealth, OnlyCerts
  <2> QED BY <2>1, <2>2, PortStep
<1>3. PortInv => PortTypeOK
  BY DEF PortInv
<1> QED BY <1>1, <1>2, <1>3, PTL DEF Spec

-----------------------------------------------------------------------------
(* The sessions of a UDP tunnel.                                             *)

\* The worker p has made a session and is not through with it.
Building == {"check", "link", "fail", "drop", "forget", "first", "read", "uncount"}

ActorInv(a) ==
  /\ upc[a] \in Building => a \in Packets /\ mine[a] # 0 /\ held(a).by = a
  /\ upc[a] \in {"dispatch", "write", "compare", "delete", "close"} => mine[a] # 0
  /\ a \notin Packets => upc[a] \in {"none", "compare", "delete", "close", "end"}

\* Who has made a session is at it until its stream is closed, and until the map does not
\* lead to it any more.
SessionInv(s) ==
  LET p == sessions[s].by
  IN  /\ mine[p] = s /\ upc[p] \notin {"none", "process", "dispatch", "write"}
      /\ sessions[s].target = "open" =>
           /\ sessions[s].ready = "yes"
           /\ upc[p] \in {"first", "read", "compare", "delete", "close"}
      /\ addrMap = s => upc[p] \in {"check", "link", "fail", "drop", "forget", "first", "read",
                                    "compare", "delete"}

UdpInv ==
  /\ UdpTypeOK
  /\ \A a \in Actors : ActorInv(a)
  /\ \A s \in 1..Len(sessions) : SessionInv(s)

UdpPays(p) ==
  \/ upc[p] \in {"link", "forget", "first", "read", "uncount"}
  \/ upc[p] \in {"compare", "delete", "close"} /\ Runs(p)
UdpPayers == {p \in Packets : UdpPays(p)}

\* The sweeper and the closer are no workers.
LEMMA TheOthers ==
  /\ Sweeper \notin Packets /\ Closer \notin Packets /\ Sweeper # Closer
  /\ Packets \subseteq Actors /\ Sweeper \in Actors /\ Closer \in Actors
BY UdpAssumption DEF Packets, Actors

\* The session of somebody at work is one of those that were made.
LEMMA SessionFacts ==
  ASSUME UdpTypeOK
  PROVE  /\ Len(sessions) \in Nat
         /\ \A s \in 1..Len(sessions) :
              sessions[s] \in Session /\ sessions[s].by \in Packets /\ sessions[s].by \in Actors
<1>1. Len(sessions) \in Nat /\ \A s \in 1..Len(sessions) : sessions[s] \in Session
  BY DEF UdpTypeOK
<1>2. \A r \in Session : r.by \in Packets
  BY DEF Session
<1> QED BY <1>1, <1>2, TheOthers

\* A session that changes: the others do not.
LEMMA OneSession ==
  ASSUME UdpTypeOK, NEW i \in 1..Len(sessions), NEW r \in Session,
         sessions' = [sessions EXCEPT ![i] = r]
  PROVE  /\ sessions' \in Seq(Session) /\ Len(sessions') = Len(sessions)
         /\ \A s \in 1..Len(sessions) : sessions'[s] = IF s = i THEN r ELSE sessions[s]
BY DEF UdpTypeOK

\* The first state has no session.
LEMMA UdpInitially == UdpInit => UdpInv
<1> SUFFICES ASSUME UdpInit PROVE UdpInv
  OBVIOUS
<1>1. UdpTypeOK
  <2>1. sessions = <<>> /\ sessions \in Seq(Session) /\ Len(sessions) = 0
    BY DEF UdpInit
  <2>2. mine \in [Actors -> 0..Len(sessions)] /\ addrMap \in 0..Len(sessions)
    BY <2>1 DEF UdpInit
  <2> QED BY <2>1, <2>2 DEF UdpInit, UdpTypeOK
<1>2. \A a \in Actors : ActorInv(a)
  BY DEF UdpInit, ActorInv, Building
<1>3. 1..Len(sessions) = {}
  BY DEF UdpInit
<1> QED BY <1>1, <1>2, <1>3 DEF UdpInv

\* A worker at its work with a session that is made.
LEMMA WorkersKeepInv ==
  ASSUME UdpInv, NEW p \in Packets,
         \/ Dispatch(p) \/ Forwarded(p) \/ CheckUdp(p) \/ Forget(p) \/ ReadEnds(p) \/ UncountUdp(p)
  PROVE  UdpInv'
<1> USE TheOthers DEF UdpInv, Step, held, Building
<1>1. CASE Dispatch(p)
  <2>1. UdpTypeOK'
    BY <1>1 DEF Dispatch, UdpTypeOK
  <2>2. ASSUME NEW x \in Actors PROVE ActorInv(x)'
    BY <1>1 DEF Dispatch, UdpTypeOK, ActorInv
  <2>3. ASSUME NEW s \in 1..Len(sessions') PROVE SessionInv(s)'
    <3>1. s \in 1..Len(sessions) /\ sessions' = sessions
      BY <1>1 DEF Dispatch
    <3>2. CASE sessions[s].by # p
      BY <1>1, <3>1, <3>2, SessionFacts DEF Dispatch, UdpTypeOK, SessionInv
    <3>3. CASE sessions[s].by = p
      BY <1>1, <3>1, <3>3, SessionFacts DEF Dispatch, UdpTypeOK, SessionInv
    <3> QED BY <3>2, <3>3
  <2> QED BY <2>1, <2>2, <2>3
<1>2. CASE Forwarded(p)
  <2>1. UdpTypeOK'
    BY <1>2 DEF Forwarded, UdpTypeOK
  <2>2. ASSUME NEW x \in Actors PROVE ActorInv(x)'
    BY <1>2, SMTT(60) DEF Forwarded, UdpTypeOK, ActorInv
  <2>3. ASSUME NEW s \in 1..Len(sessions') PROVE SessionInv(s)'
    <3>1. s \in 1..Len(sessions) /\ sessions' = sessions
      BY <1>2 DEF Forwarded
    <3>2. CASE sessions[s].by # p
      BY <1>2, <3>1, <3>2, SessionFacts DEF Forwarded, UdpTypeOK, SessionInv
    <3>3. CASE sessions[s].by = p
      BY <1>2, <3>1, <3>3, SessionFacts DEF Forwarded, UdpTypeOK, SessionInv
    <3> QED BY <3>2, <3>3
  <2> QED BY <2>1, <2>2, <2>3
<1>3. CASE CheckUdp(p)
  <2>1. UdpTypeOK'
    BY <1>3 DEF CheckUdp, UdpTypeOK
  <2>2. ASSUME NEW x \in Actors PROVE ActorInv(x)'
    BY <1>3 DEF CheckUdp, UdpTypeOK, ActorInv
  <2>3. ASSUME NEW s \in 1..Len(sessions') PROVE SessionInv(s)'
    <3>1. s \in 1..Len(sessions) /\ sessions' = sessions
      BY <1>3 DEF CheckUdp
    <3>2. CASE sessions[s].by # p
      BY <1>3, <3>1, <3>2, SessionFacts DEF CheckUdp, UdpTypeOK, SessionInv
    <3>3. CASE sessions[s].by = p
      BY <1>3, <3>1, <3>3, SessionFacts, SMTT(60) DEF CheckUdp, UdpTypeOK, SessionInv
    <3> QED BY <3>2, <3>3
  <2> QED BY <2>1, <2>2, <2>3
<1>4. CASE Forget(p)
  <2>1. UdpTypeOK'
    BY <1>4 DEF Forget, UdpTypeOK
  <2>2. ASSUME NEW x \in Actors PROVE ActorInv(x)'
    BY <1>4 DEF Forget, UdpTypeOK, ActorInv
  <2>3. ASSUME NEW s \in 1..Len(sessions') PROVE SessionInv(s)'
    <3>1. s \in 1..Len(sessions) /\ sessions' = sessions
      BY <1>4 DEF Forget
    <3>2. CASE sessions[s].by # p
      BY <1>4, <3>1, <3>2, SessionFacts, SMTT(60) DEF Forget, UdpTypeOK, SessionInv
    <3>3. CASE sessions[s].by = p
      BY <1>4, <3>1, <3>3, SessionFacts, SMTT(60) DEF Forget, UdpTypeOK, SessionInv
    <3> QED BY <3>2, <3>3
  <2> QED BY <2>1, <2>2, <2>3
<1>5. CASE ReadEnds(p) \/ UncountUdp(p)
  <2>1. UdpTypeOK'
    BY <1>5 DEF ReadEnds, UncountUdp, UdpTypeOK
  <2>2. ASSUME NEW x \in Actors PROVE ActorInv(x)'
    BY <1>5 DEF ReadEnds, UncountUdp, UdpTypeOK, ActorInv
  <2>3. ASSUME NEW s \in 1..Len(sessions') PROVE SessionInv(s)'
    <3>1. s \in 1..Len(sessions) /\ sessions' = sessions
      BY <1>5 DEF ReadEnds, UncountUdp
    <3>2. CASE sessions[s].by # p
      BY <1>5, <3>1, <3>2, SessionFacts DEF ReadEnds, UncountUdp, UdpTypeOK, SessionInv
    <3>3. CASE sessions[s].by = p
      BY <1>5, <3>1, <3>3, SessionFacts DEF ReadEnds, UncountUdp, UdpTypeOK, SessionInv
    <3> QED BY <3>2, <3>3
  <2> QED BY <2>1, <2>2, <2>3
<1> QED BY <1>1, <1>2, <1>3, <1>4, <1>5

\* A datagram of a source that has a session, or has none.
LEMMA ProcessKeepsInv ==
  ASSUME UdpInv, NEW p \in Packets, Process(p)
  PROVE  UdpInv'
<1> USE TheOthers DEF UdpInv, Step, held, Building
<1>1. CASE addrMap # 0
  <2>1. UdpTypeOK'
    BY <1>1, Process(p) DEF Process, UdpTypeOK
  <2>2. ASSUME NEW x \in Actors PROVE ActorInv(x)'
    BY <1>1, Process(p) DEF Process, UdpTypeOK, ActorInv
  <2>3. ASSUME NEW s \in 1..Len(sessions') PROVE SessionInv(s)'
    <3>1. s \in 1..Len(sessions) /\ sessions' = sessions
      BY <1>1, Process(p) DEF Process
    <3>2. CASE sessions[s].by # p
      BY <1>1, Process(p), <3>1, <3>2, SessionFacts DEF Process, UdpTypeOK, SessionInv
    <3>3. CASE sessions[s].by = p
      BY <1>1, Process(p), <3>1, <3>3, SessionFacts DEF Process, UdpTypeOK, SessionInv
    <3> QED BY <3>2, <3>3
  <2> QED BY <2>1, <2>2, <2>3
<1>2. CASE addrMap = 0
  <2> DEFINE r == [by |-> p, ready |-> "no", target |-> "none"]
  <2>1. r \in Session
    BY DEF Session
  <2>2. /\ sessions' = Append(sessions, r) /\ addrMap' = Len(sessions) + 1
        /\ mine' = [mine EXCEPT ![p] = Len(sessions) + 1] /\ upc' = [upc EXCEPT ![p] = "check"]
        /\ upc[p] = "process" /\ UNCHANGED <<closeCh, listener, pool>>
    BY <1>2 DEF Process
  <2>3. /\ Len(sessions) \in Nat /\ Len(sessions') = Len(sessions) + 1
        /\ sessions' \in Seq(Session) /\ sessions'[Len(sessions) + 1] = r
        /\ \A s \in 1..Len(sessions) : sessions'[s] = sessions[s]
    BY <2>1, <2>2 DEF UdpTypeOK
  <2>4. UdpTypeOK'
    BY <2>2, <2>3 DEF UdpTypeOK
  <2>5. ASSUME NEW x \in Actors PROVE ActorInv(x)'
    <3>1. CASE x = p
      BY <2>2, <2>3, <3>1 DEF UdpTypeOK, ActorInv
    <3>2. CASE x # p
      <4>1. upc'[x] = upc[x] /\ mine'[x] = mine[x] /\ mine[x] \in 0..Len(sessions) /\ ActorInv(x)
        BY <2>2, <3>2 DEF UdpTypeOK
      <4> QED BY <2>3, <4>1 DEF ActorInv
    <3> QED BY <3>1, <3>2
  <2>6. ASSUME NEW s \in 1..Len(sessions') PROVE SessionInv(s)'
    <3>1. CASE s = Len(sessions) + 1
      BY <2>2, <2>3, <3>1 DEF UdpTypeOK, SessionInv
    <3>2. CASE s \in 1..Len(sessions)
      <4>1. sessions'[s] = sessions[s] /\ SessionInv(s) /\ sessions[s].by # p /\ sessions[s].by \in Actors
        BY <2>2, <2>3, <3>2, SessionFacts DEF SessionInv
      <4>2. addrMap' # s
        BY <2>2, <2>3, <3>2
      <4> QED BY <2>2, <4>1, <4>2 DEF UdpTypeOK, SessionInv
    <3> QED BY <2>3, <3>1, <3>2
  <2> QED BY <2>4, <2>5, <2>6
<1> QED BY <1>1, <1>2

\* A session that is built, or fails, or whose stream is closed: by somebody who is at it.
LEMMA SessionChanges ==
  ASSUME UdpInv, NEW a \in Actors, NEW i \in 1..Len(sessions), NEW r \in Session, NEW l,
         mine[a] = i, upc[a] \notin {"none", "process", "dispatch", "write"},
         r.by = sessions[i].by,
         sessions' = [sessions EXCEPT ![i] = r], upc' = [upc EXCEPT ![a] = l],
         l \in {"first", "drop", "forget", "uncount", "none", "end"},
         l \in {"none", "end"} => upc[a] = "close" /\ r.by # a,
         l \notin {"none", "end"} => a \in Packets /\ r.by = a,
         r.target = "open" => \/ r.ready = "yes" /\ l = "first"
                              \/ l \in {"none", "end"} /\ sessions[i].target = "open" /\ r.ready = sessions[i].ready,
         l = "uncount" => addrMap # i,
         UNCHANGED <<mine, addrMap, closeCh, pool>>, listener' \in {"open", "closed"}
  PROVE  UdpInv'
<1> USE TheOthers DEF UdpInv
<1>1. /\ sessions' \in Seq(Session) /\ Len(sessions') = Len(sessions) /\ Len(sessions) \in Nat
      /\ \A s \in 1..Len(sessions) : sessions'[s] = IF s = i THEN r ELSE sessions[s]
  BY OneSession, SessionFacts
<1>2. UdpTypeOK'
  BY <1>1 DEF UdpTypeOK
<1>3. ASSUME NEW x \in Actors PROVE ActorInv(x)'
  <2>1. ActorInv(x) /\ mine'[x] = mine[x] /\ mine[x] \in 0..Len(sessions)
    BY DEF UdpTypeOK
  <2>2. mine[x] # 0 => sessions'[mine[x]].by = sessions[mine[x]].by
    BY <1>1, <2>1
  <2>3. CASE x = a
    BY <1>1, <2>1, <2>2, <2>3 DEF ActorInv, UdpTypeOK, held, Building
  <2>4. CASE x # a
    <3>1. upc'[x] = upc[x]
      BY <2>4 DEF UdpTypeOK
    <3> QED BY <2>1, <2>2, <3>1 DEF ActorInv, held, Building
  <2> QED BY <2>3, <2>4
<1>4. ASSUME NEW s \in 1..Len(sessions') PROVE SessionInv(s)'
  <2>1. s \in 1..Len(sessions) /\ SessionInv(s) /\ sessions'[s].by = sessions[s].by
        /\ sessions[s].by \in Actors
    BY <1>1, SessionFacts
  <2>2. CASE s # i
    <3>1. sessions'[s] = sessions[s] /\ (sessions[s].by = a => s = i)
      BY <1>1, <2>1, <2>2 DEF SessionInv
    <3> QED BY <2>1, <2>2, <3>1 DEF SessionInv, UdpTypeOK
  <2>3. CASE s = i /\ r.by = a
    BY <1>1, <2>1, <2>3 DEF SessionInv, UdpTypeOK
  <2>4. CASE s = i /\ r.by # a
    BY <1>1, <2>1, <2>4 DEF SessionInv, UdpTypeOK
  <2> QED BY <2>2, <2>3, <2>4
<1> QED BY <1>1, <1>2, <1>3, <1>4

\* Whoever has made a session builds it, or forgets it.
LEMMA BuildersKeepInv ==
  ASSUME UdpInv, NEW p \in Packets, Built(p) \/ FailBuild(p)
  PROVE  UdpInv'
<1> DEFINE R(x, t) == [by |-> p, ready |-> x, target |-> t]
<1>1. /\ upc[p] \in {"link", "fail"} /\ mine[p] \in 1..Len(sessions) /\ sessions[mine[p]].by = p
      /\ p \in Actors
  BY TheOthers, SessionFacts DEF UdpInv, UdpTypeOK, ActorInv, held, Building, Built, FailBuild
<1>2. CASE Built(p)
  <2>1. R("yes", "open") \in Session
    BY DEF Session
  <2> QED BY <1>1, <1>2, <2>1, SessionChanges DEF Built, Ready, Step, UdpInv, UdpTypeOK
<1>3. CASE FailBuild(p)
  <2>1. R("failed", "none") \in Session
    BY DEF Session
  <2>2. CASE upc[p] = "fail"
    BY <1>1, <1>3, <2>1, <2>2, SessionChanges DEF FailBuild, Ready, Step, UdpInv, UdpTypeOK
  <2>3. CASE upc[p] = "link"
    <3>1. /\ sessions' = [sessions EXCEPT ![mine[p]] = R("failed", "none")]
          /\ upc' = [upc EXCEPT ![p] = "forget"] /\ UNCHANGED <<mine, addrMap, closeCh, listener, pool>>
      BY <1>3, <2>3 DEF FailBuild, Ready, Step
    <3>2. listener' \in {"open", "closed"}
      BY <3>1 DEF UdpInv, UdpTypeOK
    <3>3. upc[p] \notin {"none", "process", "dispatch", "write"}
      BY <2>3
    <3> QED BY <1>1, <2>1, <3>1, <3>2, <3>3, SessionChanges
  <2> QED BY <1>1, <2>2, <2>3
<1> QED BY <1>2, <1>3

\* What removes a session, and what leads to that.
LEMMA RemoversKeepInv ==
  ASSUME UdpInv, NEW a \in Actors, Compare(a) \/ Delete(a)
  PROVE  UdpInv'
<1> USE TheOthers DEF UdpInv, Step, held, Building
<1>1. CASE Compare(a)
  <2>1. UdpTypeOK'
    BY <1>1 DEF Compare, UdpTypeOK
  <2>2. ASSUME NEW x \in Actors PROVE ActorInv(x)'
    BY <1>1 DEF Compare, UdpTypeOK, ActorInv
  <2>3. ASSUME NEW s \in 1..Len(sessions') PROVE SessionInv(s)'
    <3>1. s \in 1..Len(sessions) /\ sessions' = sessions
      BY <1>1 DEF Compare
    <3>2. CASE sessions[s].by # a
      BY <1>1, <3>1, <3>2, SessionFacts DEF Compare, UdpTypeOK, SessionInv
    <3>3. CASE sessions[s].by = a
      BY <1>1, <3>1, <3>3, SessionFacts DEF Compare, UdpTypeOK, SessionInv
    <3> QED BY <3>2, <3>3
  <2> QED BY <2>1, <2>2, <2>3
<1>2. CASE Delete(a)
  <2>1. UdpTypeOK'
    BY <1>2 DEF Delete, UdpTypeOK
  <2>2. ASSUME NEW x \in Actors PROVE ActorInv(x)'
    BY <1>2 DEF Delete, UdpTypeOK, ActorInv
  <2>3. ASSUME NEW s \in 1..Len(sessions') PROVE SessionInv(s)'
    <3>1. s \in 1..Len(sessions) /\ sessions' = sessions
      BY <1>2 DEF Delete
    <3>2. CASE sessions[s].by # a
      BY <1>2, <3>1, <3>2, SessionFacts DEF Delete, UdpTypeOK, SessionInv
    <3>3. CASE sessions[s].by = a
      BY <1>2, <3>1, <3>3, SessionFacts DEF Delete, UdpTypeOK, SessionInv
    <3> QED BY <3>2, <3>3
  <2> QED BY <2>1, <2>2, <2>3
<1> QED BY <1>1, <1>2

\* The stream of a session is closed when the map has forgotten it.
LEMMA ClosersKeepInv ==
  ASSUME UdpInv, NEW a \in Actors, CloseTarget(a)
  PROVE  UdpInv'
<1> DEFINE i == mine[a]
           r == IF held(a).ready = "no" THEN sessions[i]
                ELSE [sessions[i] EXCEPT !.target = IF @ = "open" THEN "closed" ELSE @]
           l == IF Runs(a) THEN "uncount" ELSE IF a = Sweeper THEN "none" ELSE "end"
<1>1. i \in 1..Len(sessions) /\ upc[a] = "close" /\ sessions[i] \in Session /\ SessionInv(i)
      /\ sessions[i].by \in Packets
  BY SessionFacts DEF UdpInv, UdpTypeOK, ActorInv, CloseTarget
<1>2. r \in Session /\ r.by = sessions[i].by /\ r.ready = sessions[i].ready
  BY <1>1 DEF Session
<1>3. r.target = "open" => sessions[i].target = "open" /\ sessions[i].ready = "no"
  BY <1>1 DEF Session, held
<1>4. r.target # "open"
  BY <1>1, <1>3 DEF SessionInv
<1>5. sessions' = [sessions EXCEPT ![i] = r]
  <2>1. sessions = [sessions EXCEPT ![i] = sessions[i]]
    BY <1>1 DEF UdpInv, UdpTypeOK
  <2>2. CASE held(a).ready = "no"
    BY <2>1, <2>2 DEF CloseTarget
  <2>3. CASE held(a).ready # "no"
    BY <1>1, <2>3 DEF CloseTarget, held, UdpInv, UdpTypeOK
  <2> QED BY <2>2, <2>3
<1>6. /\ upc' = [upc EXCEPT ![a] = l] /\ listener' \in {"open", "closed"}
      /\ UNCHANGED <<mine, addrMap, closeCh, pool>>
  BY DEF CloseTarget, Step, UdpInv, UdpTypeOK
<1>7. l = "uncount" => a \in Packets /\ r.by = a /\ addrMap # i
  BY <1>1, <1>2 DEF Runs, held, SessionInv
<1>8. l \in {"none", "end"} => r.by # a
  BY <1>2 DEF Runs, held
<1>9. l \in {"uncount", "none", "end"}
  OBVIOUS
<1>10. mine[a] = i
  OBVIOUS
<1> HIDE DEF i, r, l
<1> QED BY <1>1, <1>2, <1>4, <1>5, <1>6, <1>7, <1>8, <1>9, <1>10, SessionChanges

\* Datagrams that come, the sweepers, Close, and streams that end.
LEMMA ComersKeepInv ==
  ASSUME UdpInv,
         \/ \E p \in Packets : Receive(p)
         \/ SweepPool \/ Sweep \/ Close
         \/ \E s \in DOMAIN sessions : StreamEnds(s)
  PROVE  UdpInv'
<1> USE TheOthers DEF UdpInv, Step, held, Building
<1>1. ASSUME NEW p \in Packets, Receive(p) PROVE UdpInv'
  <2>1. UdpTypeOK'
    BY <1>1 DEF Receive, Submit, Workers, UdpTypeOK
  <2>2. ASSUME NEW x \in Actors PROVE ActorInv(x)'
    BY <1>1 DEF Receive, Submit, Workers, UdpTypeOK, ActorInv
  <2>3. ASSUME NEW s \in 1..Len(sessions') PROVE SessionInv(s)'
    <3>1. s \in 1..Len(sessions) /\ sessions' = sessions
      BY <1>1 DEF Receive, Submit, Workers
    <3>2. CASE sessions[s].by # p
      BY <1>1, <3>1, <3>2, SessionFacts DEF Receive, Submit, Workers, UdpTypeOK, SessionInv
    <3>3. CASE sessions[s].by = p
      BY <1>1, <3>1, <3>3, SessionFacts DEF Receive, Submit, Workers, UdpTypeOK, SessionInv
    <3> QED BY <3>2, <3>3
  <2> QED BY <2>1, <2>2, <2>3
<1>2. CASE SweepPool
  <2>1. UdpTypeOK'
    BY <1>2 DEF SweepPool, UdpTypeOK
  <2>2. ASSUME NEW x \in Actors PROVE ActorInv(x)'
    BY <1>2 DEF SweepPool, UdpTypeOK, ActorInv
  <2>3. ASSUME NEW s \in 1..Len(sessions') PROVE SessionInv(s)'
    <3>1. s \in 1..Len(sessions) /\ sessions' = sessions
      BY <1>2 DEF SweepPool
    <3>2. CASE sessions[s].by # Sweeper
      BY <1>2, <3>1, <3>2, SessionFacts DEF SweepPool, UdpTypeOK, SessionInv
    <3>3. CASE sessions[s].by = Sweeper
      BY <1>2, <3>1, <3>3, SessionFacts DEF SweepPool, UdpTypeOK, SessionInv
    <3> QED BY <3>2, <3>3
  <2> QED BY <2>1, <2>2, <2>3
<1>3. CASE Sweep
  <2>1. UdpTypeOK'
    BY <1>3 DEF Sweep, UdpTypeOK
  <2>2. ASSUME NEW x \in Actors PROVE ActorInv(x)'
    BY <1>3 DEF Sweep, UdpTypeOK, ActorInv
  <2>3. ASSUME NEW s \in 1..Len(sessions') PROVE SessionInv(s)'
    <3>1. s \in 1..Len(sessions) /\ sessions' = sessions
      BY <1>3 DEF Sweep
    <3>2. CASE sessions[s].by # Sweeper
      BY <1>3, <3>1, <3>2, SessionFacts DEF Sweep, UdpTypeOK, SessionInv
    <3>3. CASE sessions[s].by = Sweeper
      BY <1>3, <3>1, <3>3, SessionFacts DEF Sweep, UdpTypeOK, SessionInv
    <3> QED BY <3>2, <3>3
  <2> QED BY <2>1, <2>2, <2>3
<1>4. CASE Close
  <2>1. UdpTypeOK'
    BY <1>4 DEF Close, UdpTypeOK
  <2>2. ASSUME NEW x \in Actors PROVE ActorInv(x)'
    BY <1>4 DEF Close, UdpTypeOK, ActorInv
  <2>3. ASSUME NEW s \in 1..Len(sessions') PROVE SessionInv(s)'
    <3>1. s \in 1..Len(sessions) /\ sessions' = sessions
      BY <1>4 DEF Close
    <3>2. CASE sessions[s].by # Closer
      BY <1>4, <3>1, <3>2, SessionFacts DEF Close, UdpTypeOK, SessionInv
    <3>3. CASE sessions[s].by = Closer
      BY <1>4, <3>1, <3>3, SessionFacts DEF Close, UdpTypeOK, SessionInv
    <3> QED BY <3>2, <3>3
  <2> QED BY <2>1, <2>2, <2>3
<1>5. ASSUME NEW i \in DOMAIN sessions, StreamEnds(i) PROVE UdpInv'
  <2> DEFINE r == [sessions[i] EXCEPT !.target = "closed"]
  <2>1. i \in 1..Len(sessions) /\ sessions[i] \in Session
    BY <1>5, SessionFacts DEF UdpTypeOK
  <2>2. r \in Session /\ r.by = sessions[i].by /\ r.target # "open"
    BY <2>1 DEF Session
  <2>3. sessions' = [sessions EXCEPT ![i] = r] /\ UNCHANGED <<upc, mine, addrMap, closeCh, listener, pool>>
    BY <1>5, <2>1 DEF StreamEnds, UdpTypeOK
  <2>4. /\ sessions' \in Seq(Session) /\ Len(sessions') = Len(sessions)
        /\ \A s \in 1..Len(sessions) : sessions'[s] = IF s = i THEN r ELSE sessions[s]
    BY <2>1, <2>2, <2>3, OneSession
  <2>5. UdpTypeOK'
    BY <2>3, <2>4 DEF UdpTypeOK
  <2>6. ASSUME NEW x \in Actors PROVE ActorInv(x)'
    <3>1. \A s \in 1..Len(sessions) : sessions'[s].by = sessions[s].by
      BY <2>2, <2>4
    <3>2. mine[x] # 0 => sessions'[mine[x]].by = sessions[mine[x]].by
      BY <3>1, SessionFacts DEF UdpTypeOK
    <3> QED BY <2>3, <3>2 DEF ActorInv
  <2>7. ASSUME NEW s \in 1..Len(sessions') PROVE SessionInv(s)'
    <3>1. /\ sessions'[s].by = sessions[s].by /\ SessionInv(s)
          /\ sessions'[s].target = "open" => sessions'[s] = sessions[s]
      BY <2>2, <2>4
    <3> QED BY <2>3, <3>1 DEF SessionInv
  <2> QED BY <2>5, <2>6, <2>7
<1> QED BY <1>1, <1>2, <1>3, <1>4, <1>5

\* What worker, sweeper or closer a does, or a datagram or the end of a stream brings.
Moving(a) ==
  \/ Compare(a) \/ Delete(a) \/ CloseTarget(a)
  \/ /\ a \in Packets
     /\ \/ Process(a) \/ Dispatch(a) \/ Forwarded(a) \/ CheckUdp(a) \/ Built(a) \/ FailBuild(a)
        \/ Forget(a) \/ ReadEnds(a) \/ UncountUdp(a) \/ Receive(a)
  \/ a = Sweeper /\ (Sweep \/ SweepPool \/ \E s \in DOMAIN sessions : StreamEnds(s))
  \/ a = Closer /\ Close

\* Every step of this part is one of a worker's, the sweeper's or the closer's.
LEMMA UdpMoves == UdpNext => UNCHANGED <<load, exceeded>> /\ \E a \in Actors : Moving(a)
BY TheOthers DEF UdpNext, UdpGoesOn, Moving

\* Together: the invariant stays.
LEMMA UdpKeepsInv ==
  ASSUME UdpInv, NEW a \in Actors, Moving(a)
  PROVE  UdpInv'
<1>1. CASE Compare(a) \/ Delete(a) \/ CloseTarget(a)
  BY <1>1, RemoversKeepInv, ClosersKeepInv
<1>2. CASE a \in Packets /\ (\/ Process(a) \/ Dispatch(a) \/ Forwarded(a) \/ CheckUdp(a) \/ Built(a)
                             \/ FailBuild(a) \/ Forget(a) \/ ReadEnds(a) \/ UncountUdp(a))
  BY <1>2, ProcessKeepsInv, WorkersKeepInv, BuildersKeepInv
<1>3. CASE \/ a \in Packets /\ Receive(a)
           \/ Sweep \/ SweepPool \/ Close \/ \E s \in DOMAIN sessions : StreamEnds(s)
  BY <1>3, ComersKeepInv
<1> QED BY <1>1, <1>2, <1>3 DEF Moving

\* Whose session it is does not change.
LEMMA ByStays ==
  ASSUME UdpInv, NEW a \in Actors, Moving(a)
  PROVE  \A s \in 1..Len(sessions) : sessions'[s].by = sessions[s].by
<1> USE DEF UdpInv, UdpTypeOK
<1>1. CASE UNCHANGED sessions
  BY <1>1
<1>2. CASE Process(a)
  <2>1. UNCHANGED sessions \/ \E r : sessions' = Append(sessions, r)
    BY <1>2 DEF Process
  <2> QED BY <2>1
<1>3. CASE a \in Packets /\ (Built(a) \/ FailBuild(a))
  <2>1. /\ upc[a] \in {"link", "fail"} /\ sessions[mine[a]].by = a
        /\ \E x, t : sessions' = [sessions EXCEPT ![mine[a]] = [by |-> a, ready |-> x, target |-> t]]
    BY <1>3, TheOthers DEF ActorInv, held, Building, Built, FailBuild, Ready
  <2> QED BY <2>1
<1>4. CASE CloseTarget(a)
  <2>1. CASE UNCHANGED sessions
    BY <2>1
  <2>2. CASE sessions' # sessions
    BY <1>4, <2>2 DEF CloseTarget, Session
  <2> QED BY <2>1, <2>2
<1>5. CASE \E s \in DOMAIN sessions : StreamEnds(s)
  BY <1>5 DEF StreamEnds, Session
<1> QED BY <1>1, <1>2, <1>3, <1>4, <1>5 DEF Moving, Compare, Delete, Dispatch, Forwarded, CheckUdp,
      Forget, ReadEnds, UncountUdp, Receive, Sweep, SweepPool, Close

\* One place of the client is taken with a session, and given back when it has ended.
UdpBooks(a) ==
  /\ nowConn' \in [Clients -> Int]
  /\ UdpPayers' \ {a} = UdpPayers \ {a}
  /\ \A c \in Clients :
       nowConn'[c] = nowConn[c]
                     + (IF c = UdpPayer THEN One(a \in UdpPayers') - One(a \in UdpPayers) ELSE 0)
  /\ globalConn' = globalConn

\* The worker that has made a session pays for it, whoever closes its stream.
LEMMA UdpPaying ==
  ASSUME UdpInv, QuotaTypeOK, NEW a \in Actors, Moving(a)
  PROVE  UdpBooks(a)
<1>1. upc \in [Actors -> {"none", "process", "dispatch", "write", "check", "link", "fail", "drop",
                         "forget", "first", "read", "compare", "delete", "close", "uncount", "end"}]
      /\ mine \in [Actors -> 0..Len(sessions)] /\ Len(sessions) \in Nat
  BY DEF UdpInv, UdpTypeOK
<1>2. \A q \in Packets \ {a} : upc'[q] = upc[q] /\ mine'[q] = mine[q]
  BY <1>1, TheOthers DEF Moving, Compare, Delete, CloseTarget, Process, Dispatch, Forwarded, CheckUdp,
     Built, FailBuild, Forget, ReadEnds, UncountUdp, Receive, Submit, Sweep, SweepPool, Close,
     StreamEnds, Step
<1>3. ASSUME NEW q \in Packets \ {a}
      PROVE  UdpPays(q)' = UdpPays(q)
  <2>1. ActorInv(q) /\ upc'[q] = upc[q] /\ mine'[q] = mine[q] /\ mine[q] \in 0..Len(sessions)
    BY <1>1, <1>2, TheOthers DEF UdpInv
  <2>2. upc[q] \in {"compare", "delete", "close"} => sessions'[mine[q]].by = sessions[mine[q]].by
    BY <1>1, <2>1, ByStays DEF ActorInv
  <2> QED BY <2>1, <2>2 DEF UdpPays, Runs, held
<1>4. UdpPayers' \ {a} = UdpPayers \ {a}
  BY <1>3 DEF UdpPayers
<1>5. nowConn \in [Clients -> Int] /\ globalConn \in Int
  BY DEF QuotaTypeOK
<1>6. CASE a \in Packets /\ CheckUdp(a)
  <2>1. a \notin UdpPayers /\ globalConn' = globalConn
    BY <1>6 DEF CheckUdp, UdpPayers, UdpPays
  <2>2. \/ a \in UdpPayers' /\ CutConn(UdpPayer)
        \/ a \notin UdpPayers' /\ nowConn' = nowConn
    BY <1>1, <1>6, TheOthers DEF CheckUdp, UdpPayers, UdpPays, Step
  <2> QED BY <1>4, <1>5, <2>1, <2>2 DEF UdpBooks, One, CutConn
<1>7. CASE a \in Packets /\ UncountUdp(a)
  <2>1. a \in UdpPayers /\ a \notin UdpPayers' /\ AddConn(UdpPayer) /\ globalConn' = globalConn
    BY <1>1, <1>7, TheOthers DEF UncountUdp, UdpPayers, UdpPays, Step
  <2>2. nowConn' \in [Clients -> Int]
    BY <1>5, <2>1, CountOne
  <2> QED BY <1>4, <1>5, <2>1, <2>2 DEF UdpBooks, One, AddConn
<1>8. CASE UNCHANGED counters /\ (a \in Packets => UdpPays(a)' = UdpPays(a))
  <2>1. (a \in UdpPayers') = (a \in UdpPayers)
    BY <1>8 DEF UdpPayers
  <2> QED BY <1>4, <1>5, <1>8, <2>1 DEF UdpBooks, One, counters
<1>9. ASSUME ~CheckUdp(a), ~UncountUdp(a), a \in Packets
      PROVE  UNCHANGED counters /\ UdpPays(a)' = UdpPays(a)
  <2>1. UNCHANGED counters
    BY <1>9, TheOthers DEF Moving, Compare, Delete, CloseTarget, Process, Dispatch, Forwarded, Built,
       FailBuild, Forget, ReadEnds, Receive
  <2>2. ActorInv(a)
    BY DEF UdpInv
  <2>3. CASE Compare(a) \/ Delete(a)
    BY <1>1, <2>3 DEF Compare, Delete, Step, UdpPays, Runs, held
  <2>4. CASE CloseTarget(a)
    <3>1. mine[a] \in 1..Len(sessions) /\ mine' = mine /\ sessions'[mine[a]].by = sessions[mine[a]].by
      BY <1>1, <2>2, <2>4, ByStays DEF CloseTarget, ActorInv
    <3> QED BY <1>1, <1>9, <2>4, <3>1, TheOthers DEF CloseTarget, Step, UdpPays, Runs, held
  <2>5. CASE Process(a) \/ Dispatch(a) \/ Receive(a)
    BY <1>1, <2>5 DEF Process, Dispatch, Receive, Submit, Step, UdpPays, Runs, held
  <2>6. CASE Forwarded(a)
    <3>1. mine[a] \in 1..Len(sessions) /\ mine' = mine /\ sessions' = sessions
      BY <1>1, <2>2, <2>6 DEF Forwarded, ActorInv, Building
    <3>2. sessions[mine[a]].by = a <=> upc[a] = "first"
      BY <2>2, <2>6, <3>1 DEF Forwarded, UdpInv, SessionInv, ActorInv, Building, held
    <3> QED BY <1>1, <2>6, <3>1, <3>2 DEF Forwarded, Step, UdpPays, Runs, held
  <2>7. CASE Built(a) \/ FailBuild(a) \/ Forget(a)
    BY <1>1, <2>7 DEF Built, FailBuild, Forget, Step, UdpPays, Runs, held
  <2>8. CASE ReadEnds(a)
    BY <1>1, <2>2, <2>8 DEF ReadEnds, Step, UdpPays, Runs, held, ActorInv, Building
  <2> QED BY <1>9, <2>1, <2>3, <2>4, <2>5, <2>6, <2>7, <2>8, TheOthers DEF Moving
<1>10. ASSUME a \notin Packets
       PROVE  UNCHANGED counters
  BY <1>10 DEF Moving, Compare, Delete, CloseTarget, Process, Dispatch, Sweep, SweepPool, Close, StreamEnds
<1> QED BY <1>6, <1>7, <1>8, <1>9, <1>10

-----------------------------------------------------------------------------
(* Health checks.                                                            *)

\* What is not on the wire.
OffWire ==
  /\ up \in BOOLEAN /\ session \in BOOLEAN /\ target \in BOOLEAN /\ lost \in BOOLEAN
  /\ flips \in Nat
  /\ check \in [Checks -> {"idle", "good", "bad"}]
  /\ failures \in 0..2 * MaxFail
  /\ removed \in Nat
OnWire == wire \in Seq(Seq(BOOLEAN)) /\ wire # <<>>

\* The types are those off the wire and those on it.
LEMMA HealthParts == HealthTypeOK <=> OffWire /\ OnWire
BY DEF HealthTypeOK, OffWire, OnWire

\* The first state has one connection to the server and nothing on it.
LEMMA HealthInitially == HealthInit /\ load \in Loads => HealthTypeOK
<1> SUFFICES ASSUME HealthInit, load \in Loads PROVE HealthTypeOK
  OBVIOUS
<1>1. load.flips \in Nat /\ MaxFail \in Nat
  BY HealthAssumption
<1>2. (load.flips > 0) \in BOOLEAN /\ 0 \in 0..2 * MaxFail
  BY <1>1
<1>3. << <<>> >> \in Seq(Seq(BOOLEAN)) /\ << <<>> >> # <<>>
  OBVIOUS
<1>4. OffWire
  BY <1>1, <1>2 DEF HealthInit, OffWire
<1> QED BY <1>3, <1>4, HealthParts DEF HealthInit, OnWire

\* What is told goes to the newest connection, and there is one.
LEMMA ToldOnWire ==
  ASSUME OnWire, NEW b \in BOOLEAN, Tell(b)
  PROVE  OnWire'
<1>1. wire \in Seq(Seq(BOOLEAN)) /\ Len(wire) \in 1..Len(wire)
  BY DEF OnWire
<1>2. Append(wire[Len(wire)], b) \in Seq(BOOLEAN)
  BY <1>1
<1>3. wire' = [wire EXCEPT ![Len(wire)] = Append(wire[Len(wire)], b)]
  BY DEF Tell
<1>4. wire' \in Seq(Seq(BOOLEAN)) /\ Len(wire') = Len(wire)
  BY <1>1, <1>2, <1>3
<1> QED BY <1>1, <1>4 DEF OnWire

\* One message less, or all of a connection.
LEMMA LessOnWire ==
  ASSUME OnWire, NEW i \in DOMAIN wire, NEW q \in Seq(BOOLEAN), wire' = [wire EXCEPT ![i] = q]
  PROVE  OnWire'
<1>1. wire \in Seq(Seq(BOOLEAN)) /\ i \in 1..Len(wire)
  BY DEF OnWire
<1>2. wire' \in Seq(Seq(BOOLEAN)) /\ Len(wire') = Len(wire)
  BY <1>1
<1> QED BY <1>1, <1>2 DEF OnWire

\* A target is put back only if it has been taken out.
LEMMA Heeding ==
  ASSUME OffWire, NEW b \in BOOLEAN, Heed(b)
  PROVE  removed' \in Nat /\ target' \in BOOLEAN
<1>1. removed' \in {removed, removed + 1, removed - 1} /\ (removed' = removed - 1 => removed > 0)
  BY DEF OffWire, Heed, PutBack, TakeOut, inServer
<1>2. removed' \in Nat
  BY <1>1 DEF OffWire
<1>3. target' = FALSE \/ target' = TRUE \/ target' = target
  BY DEF Heed, PutBack, TakeOut, inServer
<1> QED BY <1>2, <1>3 DEF OffWire

\* Checks, messages and reconnections keep the types, and take no place.
LEMMA HealthStep ==
  ASSUME HealthTypeOK, HealthNext
  PROVE  HealthTypeOK' /\ UNCHANGED quotaVars
<1>0. OffWire /\ OnWire
  BY HealthParts
<1>1. ASSUME NEW k \in Checks, Observe(k)
      PROVE  OffWire' /\ OnWire' /\ UNCHANGED counters
  BY <1>0, <1>1 DEF Observe, OffWire, OnWire, inServer
<1>2. ASSUME NEW k \in Checks, Count(k)
      PROVE  OffWire' /\ OnWire' /\ UNCHANGED counters
  <2>1. failures' = 0 \/ failures' = More
    BY <1>2 DEF Count
  <2>2. failures' \in 0..2 * MaxFail
    BY <1>0, <2>1, HealthAssumption DEF More, OffWire
  <2>3. check' \in [Checks -> {"idle", "good", "bad"}]
    BY <1>0, <1>2 DEF Count, OffWire
  <2>4. UNCHANGED wire \/ Tell(TRUE) \/ Tell(FALSE)
    BY <1>2 DEF Count
  <2>5. OnWire'
    BY <1>0, <2>4, ToldOnWire DEF OnWire
  <2>6. UNCHANGED <<counters, up, flips, session, inServer, lost>>
    BY <1>2 DEF Count
  <2> QED BY <1>0, <2>2, <2>3, <2>5, <2>6 DEF OffWire, inServer
<1>3. ASSUME NEW i \in DOMAIN wire, GetHealthInfo(i)
      PROVE  OffWire' /\ OnWire' /\ UNCHANGED counters
  <2> DEFINE b == Head(wire[i])
             q == Tail(wire[i])
  <2>1. wire[i] \in Seq(BOOLEAN) /\ wire[i] # <<>>
    BY <1>0, <1>3 DEF OnWire, GetHealthInfo
  <2>2. b \in BOOLEAN /\ q \in Seq(BOOLEAN)
    BY <2>1
  <2>3. /\ Heed(b) /\ wire' = [wire EXCEPT ![i] = q]
        /\ UNCHANGED <<counters, up, flips, session, check, failures, lost>>
    BY <1>3, Zenon DEF GetHealthInfo
  <2> HIDE DEF b, q
  <2>4. removed' \in Nat /\ target' \in BOOLEAN
    BY <1>0, <2>2, <2>3, Heeding
  <2>5. OnWire'
    BY <1>0, <2>2, <2>3, LessOnWire
  <2> QED BY <1>0, <2>3, <2>4, <2>5 DEF OffWire
<1>4. ASSUME Flip \/ SessionEnds
      PROVE  OffWire' /\ OnWire' /\ UNCHANGED counters
  <2>1. up' \in BOOLEAN /\ session' \in BOOLEAN
    BY <1>0, <1>4 DEF Flip, SessionEnds, OffWire
  <2>2. flips' \in Nat
    BY <1>0, <1>4 DEF Flip, SessionEnds, OffWire
  <2>3. UNCHANGED <<counters, check, failures, wire, inServer, lost>>
    BY <1>4 DEF Flip, SessionEnds
  <2> QED BY <1>0, <2>1, <2>2, <2>3 DEF OffWire, OnWire, inServer
<1>5. ASSUME Reconnect
      PROVE  OffWire' /\ OnWire' /\ UNCHANGED counters
  <2>1. OnWire'
    <3>1. wire' = Append(wire, <<>>) /\ <<>> \in Seq(BOOLEAN)
      BY <1>5 DEF Reconnect
    <3>2. wire' \in Seq(Seq(BOOLEAN)) /\ Len(wire') # 0
      BY <1>0, <3>1 DEF OnWire
    <3> QED BY <3>2 DEF OnWire
  <2>2. OffWire' /\ UNCHANGED counters
    BY <1>0, <1>5, HealthAssumption DEF Reconnect, OffWire, inServer
  <2> QED BY <2>1, <2>2
<1>6. ASSUME NEW i \in DOMAIN wire, Lose(i)
      PROVE  OffWire' /\ OnWire' /\ UNCHANGED counters
  <2>1. wire' = [wire EXCEPT ![i] = <<>>] /\ <<>> \in Seq(BOOLEAN)
        /\ UNCHANGED <<counters, up, flips, session, check, failures, inServer, lost>>
    BY <1>6 DEF Lose
  <2>2. OnWire'
    BY <1>0, <2>1, LessOnWire
  <2> QED BY <1>0, <2>1, <2>2 DEF OffWire, inServer
<1>7. UNCHANGED <<load, exceeded>>
  BY DEF HealthNext, Checking, Hearing
<1>8. OffWire' /\ OnWire' /\ UNCHANGED counters
  BY <1>1, <1>2, <1>3, <1>4, <1>5, <1>6 DEF HealthNext, Checking, Hearing
<1>9. HealthTypeOK'
  BY <1>8 DEF HealthTypeOK, OffWire, OnWire
<1> QED BY <1>7, <1>8, <1>9 DEF counters, quotaVars

-----------------------------------------------------------------------------
(* The listeners of the certificates.                                        *)

\* What a connection holds when there are n listeners.
Holding(n) ==
  [pc : {"none", "purge", "forget", "unname", "lookup", "load", "swap", "drop", "put", "refill",
         "name", "send", "queued", "served", "closed"},
   cert : Certs \cup {None}, l : 0..n, old : Certs \cup {None},
   h : 0..Len(load.certs), late : BOOLEAN]
Listener == [closed : BOOLEAN, serves : BOOLEAN, acceptConn : Seq(TlsConns)]

\* Who still has to find the listener has a host and the certificate of it.
Looks(r) == r.pc \in {"purge", "forget", "unname", "lookup", "load"}
\* Who has found one has it.
Goes(r) == r.pc \in {"swap", "drop", "put", "refill", "name", "send"}
Fits(c, r) ==
  /\ Looks(r) => c <= Len(load.tls) /\ r.cert \in Certs
  /\ Goes(r) => r.l # 0

HeldInv ==
  /\ at \in [TlsConns -> Holding(Len(listeners))]
  /\ \A c \in TlsConns : Fits(c, at[c])
MapsInv ==
  /\ changes \in 0..load.changes
  /\ hostCert \in [Hosts -> Certs \cup {Gone}] /\ certOf \in [Hosts -> Certs \cup {None}]
  /\ listenerOf \in [Certs -> 0..Len(listeners)]
ListenersInv ==
  /\ listeners \in Seq(Listener)
  /\ \A l \in DOMAIN listeners : Len(listeners[l].acceptConn) <= AcceptCap

CertInv == HeldInv /\ MapsInv /\ ListenersInv

\* The types follow.
LEMMA CertInvTypes == CertInv => CertTypeOK
BY DEF CertInv, HeldInv, MapsInv, ListenersInv, Holding, Listener, CertTypeOK

\* The first state has no listener.
LEMMA CertInitially == CertInit /\ load \in Loads => CertInv
<1> SUFFICES ASSUME CertInit, load \in Loads PROVE CertInv
  OBVIOUS
<1>1. load.certs \in Seq(Certs) /\ Len(load.certs) \in Nat /\ load.changes \in Nat
      /\ Hosts = 1..Len(load.certs)
  BY CertAssumption DEF Hosts
<1>2. listeners = <<>> /\ listeners \in Seq(Listener) /\ Len(listeners) = 0 /\ DOMAIN listeners = {}
  BY DEF CertInit
<1>3. AtStart \in Holding(0) /\ \A c \in TlsConns : Fits(c, AtStart)
  BY <1>1 DEF AtStart, Holding, Looks, Goes, Fits
<1>4. HeldInv
  BY <1>2, <1>3 DEF CertInit, HeldInv
<1>5. MapsInv
  BY <1>1, <1>2 DEF CertInit, MapsInv
<1> QED BY <1>2, <1>4, <1>5 DEF CertInv, ListenersInv

\* One connection goes on; there may be more listeners by then.
LEMMA HeldMoves ==
  ASSUME HeldInv, ListenersInv, UNCHANGED load, Len(listeners') \in Nat,
         Len(listeners) <= Len(listeners'), NEW c \in TlsConns, NEW r \in Holding(Len(listeners')),
         at' = [at EXCEPT ![c] = r], Fits(c, r)
  PROVE  HeldInv'
<1>1. Len(listeners) \in Nat
  BY DEF ListenersInv
<1>2. Holding(Len(listeners)) \subseteq Holding(Len(listeners'))
  BY <1>1 DEF Holding
<1>3. Holding(Len(listeners))' = Holding(Len(listeners'))
  BY DEF Holding
<1>4. at' \in [TlsConns -> Holding(Len(listeners'))]
  BY <1>2 DEF HeldInv
<1>5. \A d \in TlsConns : Fits(d, at'[d])
  BY DEF HeldInv
<1> QED BY <1>3, <1>4, <1>5 DEF HeldInv, Fits, Looks, Goes

\* What a connection holds, field by field.
LEMMA HeldFields ==
  ASSUME NEW n \in Nat, NEW r \in Holding(n)
  PROVE  r.cert \in Certs \cup {None} /\ r.l \in 0..n /\ r.old \in Certs \cup {None}
BY DEF Holding

Stages == {"purge", "unname", "lookup", "load", "put", "name", "send", "served", "closed"}

\* It holds the same at the next stage.
LEMMA HeldElsewhere ==
  ASSUME NEW n \in Nat, NEW r \in Holding(n), NEW x \in Stages
  PROVE  /\ [r EXCEPT !.pc = x] \in Holding(n)
         /\ [r EXCEPT !.pc = x].pc = x /\ [r EXCEPT !.pc = x].cert = r.cert
         /\ [r EXCEPT !.pc = x].l = r.l
BY DEF Holding, Stages

\* Steps that only change where a connection is.
LEMMA AtMoves ==
  ASSUME HeldInv, ListenersInv, UNCHANGED load, Len(listeners') = Len(listeners),
         NEW c \in TlsConns, NEW x \in Stages, At(c, x),
         x \in {"purge", "unname", "lookup", "load"} => Looks(at[c]),
         x \in {"put", "name", "send"} => Goes(at[c])
  PROVE  HeldInv'
<1> DEFINE r == [at[c] EXCEPT !.pc = x]
<1>1. Len(listeners) \in Nat /\ at[c] \in Holding(Len(listeners))
  BY DEF ListenersInv, HeldInv
<1>2. r \in Holding(Len(listeners)) /\ r.pc = x /\ r.cert = at[c].cert /\ r.l = at[c].l
  BY <1>1, HeldElsewhere
<1>3. at' = [at EXCEPT ![c] = r]
  BY DEF At, HeldInv
<1> HIDE DEF r
<1>4. Fits(c, r)
  <2>1. Fits(c, at[c])
    BY DEF HeldInv
  <2>2. Looks(r) => Looks(at[c])
    <3>1. Looks(r) => x \in {"purge", "forget", "unname", "lookup", "load"}
      BY <1>2 DEF Looks
    <3> QED BY <3>1 DEF Stages
  <2>3. Goes(r) => Goes(at[c])
    <3>1. Goes(r) => x \in {"swap", "drop", "put", "refill", "name", "send"}
      BY <1>2 DEF Goes
    <3> QED BY <3>1 DEF Stages
  <2> QED BY <1>2, <2>1, <2>2, <2>3 DEF Fits
<1>5. r \in Holding(Len(listeners')) /\ Len(listeners') \in Nat /\ Len(listeners) <= Len(listeners')
  BY <1>1, <1>2
<1> QED BY <1>3, <1>4, <1>5, HeldMoves

\* The steps that change the maps and nothing of the listeners.
LEMMA MapsMove ==
  ASSUME CertInv, UNCHANGED load, NEW c \in TlsConns,
         ForgetHost(c) \/ Purged(c) \/ Drop(c) \/ Put(c) \/ Name(c)
  PROVE  CertInv'
<1>1. at[c] \in Holding(Len(listeners)) /\ Len(listeners) \in Nat /\ listeners' = listeners
  BY DEF CertInv, HeldInv, ListenersInv, ForgetHost, Purged, Drop, Put, Name, maps
<1>2. at[c].cert \in Certs \cup {None} /\ at[c].l \in 0..Len(listeners)
  BY <1>1, HeldFields
<1>3. ListenersInv'
  BY <1>1 DEF CertInv, ListenersInv
<1>4. HeldInv'
  <2> USE <1>1, AtMoves DEF CertInv, Stages, Looks, Goes
  <2>1. CASE ForgetHost(c)
    BY <2>1 DEF ForgetHost
  <2>2. CASE Purged(c)
    BY <2>2 DEF Purged
  <2>3. CASE Drop(c)
    BY <2>3 DEF Drop
  <2>4. CASE Put(c)
    BY <2>4 DEF Put
  <2>5. CASE Name(c)
    BY <2>5 DEF Name
  <2> QED BY <2>1, <2>2, <2>3, <2>4, <2>5
<1>5. MapsInv'
  <2> USE <1>1, <1>2 DEF CertInv, MapsInv, Hosts
  <2>1. CASE ForgetHost(c)
    BY <2>1 DEF ForgetHost
  <2>2. CASE Purged(c)
    BY <2>2 DEF Purged, maps
  <2>3. CASE Drop(c)
    <3>1. 0 \in 0..Len(listeners)
      BY <1>1
    <3> QED BY <2>3, <3>1 DEF Drop
  <2>4. CASE Put(c)
    BY <2>4 DEF Put
  <2>5. CASE Name(c)
    BY <2>5 DEF Name
  <2> QED BY <2>1, <2>2, <2>3, <2>4, <2>5
<1> QED BY <1>3, <1>4, <1>5 DEF CertInv

\* The host of a connection that looks for a certificate is one.
LEMMA HostOfConn ==
  ASSUME CertInv, load \in Loads, NEW c \in TlsConns, Looks(at[c])
  PROVE  host(c) \in Hosts /\ certOf[host(c)] \in Certs \cup {None}
<1>1. c \in 1..Len(load.tls)
  BY DEF CertInv, HeldInv, Fits, TlsConns
<1>2. load.tls \in Seq(1..Len(load.certs)) /\ Hosts = 1..Len(load.certs)
  BY CertAssumption DEF Hosts
<1>3. host(c) \in Hosts
  <2>1. \A q \in Seq(1..Len(load.certs)) : c \in 1..Len(q) => q[c] \in 1..Len(load.certs)
    OBVIOUS
  <2> QED BY <1>1, <1>2, <2>1 DEF host
<1> QED BY <1>3 DEF CertInv, MapsInv

\* A connection that comes.
LEMMA ComingKeepsInv ==
  ASSUME CertInv, load \in Loads, UNCHANGED load, NEW c \in TlsConns, TlsArrives(c)
  PROVE  CertInv'
<1> DEFINE r == [at[c] EXCEPT !.pc = "purge", !.cert = hostCert[host(c)]]
<1>1. at[c] \in Holding(Len(listeners)) /\ Len(listeners) \in Nat /\ c \in 1..Len(load.tls)
      /\ UNCHANGED <<maps, listeners>>
  BY DEF CertInv, HeldInv, ListenersInv, TlsArrives, TlsConns
<1>2. host(c) \in Hosts
  BY <1>1, CertAssumption DEF Hosts, host
<1>3. hostCert[host(c)] \in Certs
  BY <1>2 DEF CertInv, MapsInv, TlsArrives
<1>4. r \in Holding(Len(listeners)) /\ r.cert \in Certs /\ ~Goes(r)
  BY <1>1, <1>3 DEF Holding, Goes
<1>5. at' = [at EXCEPT ![c] = r]
  BY DEF TlsArrives, CertInv, HeldInv
<1> HIDE DEF r
<1>6. /\ Len(listeners') \in Nat /\ Len(listeners) <= Len(listeners')
      /\ r \in Holding(Len(listeners')) /\ Fits(c, r)
  BY <1>1, <1>4 DEF Fits
<1>7. HeldInv'
  BY <1>4, <1>5, <1>6, HeldMoves DEF CertInv
<1> QED BY <1>1, <1>7 DEF CertInv, MapsInv, ListenersInv, maps, Hosts

\* A listener is made.
LEMMA ListenerMade ==
  ASSUME ListenersInv, NEW k, MakeListener(k)
  PROVE  ListenersInv' /\ Len(listeners) \in Nat /\ Len(listeners') = Len(listeners) + 1
<1> DEFINE r == [closed |-> FALSE, serves |-> Serves(k), acceptConn |-> <<>>]
<1>1. r \in Listener /\ r.acceptConn = <<>>
  BY DEF Listener, Serves
<1>2. listeners' = Append(listeners, r) /\ listeners \in Seq(Listener)
  BY DEF MakeListener, ListenersInv
<1> HIDE DEF r
<1>3. /\ listeners' \in Seq(Listener) /\ Len(listeners) \in Nat
      /\ Len(listeners') = Len(listeners) + 1 /\ listeners'[Len(listeners) + 1] = r
      /\ \A l \in 1..Len(listeners) : listeners'[l] = listeners[l]
  BY <1>1, <1>2
<1>4. \A l \in DOMAIN listeners' : Len(listeners'[l].acceptConn) <= AcceptCap
  <2> SUFFICES ASSUME NEW l \in 1..Len(listeners') PROVE Len(listeners'[l].acceptConn) <= AcceptCap
    BY <1>3
  <2>1. CASE l = Len(listeners) + 1
    BY <1>1, <1>3, <2>1, CertAssumption
  <2>2. CASE l \in 1..Len(listeners)
    BY <1>2, <1>3, <2>2 DEF ListenersInv
  <2> QED BY <1>3, <2>1, <2>2
<1> QED BY <1>3, <1>4 DEF ListenersInv

\* Looking up the listener of a certificate, and making one.
LEMMA LookingKeepsInv ==
  ASSUME CertInv, load \in Loads, UNCHANGED load, NEW c \in TlsConns, Lookup(c) \/ LoadListener(c)
  PROVE  CertInv'
<1> USE DEF CertInv
<1>1. at[c] \in Holding(Len(listeners)) /\ Len(listeners) \in Nat /\ UNCHANGED maps
  BY DEF HeldInv, ListenersInv, Lookup, LoadListener
<1>2. at[c].cert \in Certs \cup {None}
  BY <1>1, HeldFields
<1>3. ASSUME UNCHANGED listeners, HeldInv' PROVE CertInv'
  BY <1>1, <1>3 DEF ListenersInv, MapsInv, maps, Hosts
<1>4. ASSUME NEW k, MakeListener(k), NEW r \in Holding(Len(listeners) + 1), Fits(c, r),
             at' = [at EXCEPT ![c] = r]
      PROVE  CertInv'
  <2>1. ListenersInv' /\ Len(listeners') = Len(listeners) + 1
    BY <1>4, ListenerMade
  <2>4. Len(listeners') \in Nat /\ Len(listeners) <= Len(listeners') /\ r \in Holding(Len(listeners'))
    BY <1>1, <1>4, <2>1
  <2>2. HeldInv'
    BY <1>4, <2>4, HeldMoves
  <2>3. MapsInv'
    BY <1>1, <2>1 DEF MapsInv, maps, Hosts
  <2> QED BY <2>1, <2>2, <2>3
<1>5. CASE Lookup(c)
  <2> DEFINE o == certOf[host(c)]
             x == IF o = None THEN "put" ELSE "swap"
             r == [at[c] EXCEPT !.l = Len(listeners) + 1, !.old = o, !.pc = x]
  <2>1. o \in Certs \cup {None} /\ Looks(at[c])
    BY <1>5, HostOfConn DEF Lookup, Looks
  <2>2. CASE o = at[c].cert
    <3>1. At(c, "load") /\ UNCHANGED listeners
      BY <1>5, <2>2 DEF Lookup
    <3> QED BY <1>1, <1>3, <2>1, <3>1, AtMoves DEF Stages
  <2>3. CASE o # at[c].cert
    <3>1. MakeListener(at[c].cert)
      BY <1>5, <2>3 DEF Lookup
    <3>2. at' = [at EXCEPT ![c] = r]
      BY <1>5, <2>3 DEF Lookup, HeldInv
    <3>3. r \in Holding(Len(listeners) + 1) /\ Fits(c, r)
      <4>1. x \in {"put", "swap"}
        OBVIOUS
      <4> HIDE DEF x, o
      <4> DEFINE n == Len(listeners) + 1
                 r1 == [at[c] EXCEPT !.l = n]
                 r2 == [r1 EXCEPT !.old = o]
      <4>2. n \in 0..n /\ n \in Nat /\ n # 0 /\ 0..Len(listeners) \subseteq 0..n
        BY <1>1
      <4>3. r = [r2 EXCEPT !.pc = x]
        OBVIOUS
      <4> HIDE DEF n
      <4>4. r1 \in Holding(n) /\ r1.l = n
        BY <1>1, <4>2 DEF Holding
      <4> HIDE DEF r1
      <4>5. r2 \in Holding(n) /\ r2.l = n
        BY <2>1, <4>4 DEF Holding
      <4> HIDE DEF r2, r
      <4>6. r \in Holding(n) /\ ~Looks(r) /\ r.l # 0
        BY <4>1, <4>2, <4>3, <4>5 DEF Holding, Looks
      <4> QED BY <4>6 DEF n, Fits
    <3> HIDE DEF r
    <3> QED BY <1>4, <3>1, <3>2, <3>3
  <2> QED BY <2>2, <2>3
<1>6. CASE LoadListener(c)
  <2> DEFINE m == listenerOf[at[c].cert]
             n == IF m # 0 THEN m ELSE Len(listeners) + 1
             x == IF m # 0 THEN "send" ELSE "refill"
             r == [at[c] EXCEPT !.pc = x, !.l = n]
  <2>1. m \in 0..Len(listeners)
    BY <1>6 DEF LoadListener, Looks, HeldInv, Fits, MapsInv
  <2>2. at' = [at EXCEPT ![c] = r]
    BY <1>6 DEF LoadListener, HeldInv
  <2>3. r \in Holding(Len(listeners) + 1) /\ Fits(c, r) /\ (m # 0 => r \in Holding(Len(listeners)))
    <3>1. x \in {"send", "refill"} /\ n \in 0..Len(listeners) + 1 /\ n # 0 /\ (m # 0 => n \in 0..Len(listeners))
      BY <1>1, <2>1
    <3> HIDE DEF x, n, m
    <3>2. r.pc = x /\ r.l = n /\ r \in Holding(Len(listeners) + 1) /\ (m # 0 => r \in Holding(Len(listeners)))
      BY <1>1, <3>1 DEF Holding
    <3> HIDE DEF r
    <3> QED BY <3>1, <3>2 DEF Fits, Looks
  <2>4. IF m # 0 THEN UNCHANGED listeners ELSE MakeListener(at[c].cert)
    BY <1>6 DEF LoadListener
  <2> HIDE DEF r
  <2>5. CASE m # 0
    <3>1. UNCHANGED listeners
      BY <2>4, <2>5
    <3>2. Len(listeners') \in Nat /\ Len(listeners) <= Len(listeners') /\ r \in Holding(Len(listeners'))
      BY <1>1, <2>3, <2>5, <3>1
    <3>3. HeldInv'
      BY <2>2, <2>3, <3>2, HeldMoves
    <3> QED BY <1>3, <3>1, <3>3
  <2>6. CASE m = 0
    BY <1>4, <2>2, <2>3, <2>4, <2>6
  <2> QED BY <2>5, <2>6
<1> QED BY <1>5, <1>6

\* The queue of a listener, or whether it is closed or served, changes.
LEMMA ListenerChanges ==
  ASSUME ListenersInv, NEW l \in DOMAIN listeners, NEW r \in Listener,
         Len(r.acceptConn) <= AcceptCap, listeners' = [listeners EXCEPT ![l] = r]
  PROVE  ListenersInv' /\ Len(listeners') = Len(listeners)
<1>1. listeners \in Seq(Listener) /\ l \in 1..Len(listeners)
  BY DEF ListenersInv
<1>2. listeners' \in Seq(Listener) /\ Len(listeners') = Len(listeners)
      /\ \A m \in 1..Len(listeners) : listeners'[m] = IF m = l THEN r ELSE listeners[m]
  BY <1>1
<1>3. \A m \in DOMAIN listeners' : Len(listeners'[m].acceptConn) <= AcceptCap
  BY <1>1, <1>2 DEF ListenersInv
<1> QED BY <1>2, <1>3 DEF ListenersInv

\* Close: those in the queue are closed, whoever they are.
LEMMA ClosingKeepsInv ==
  ASSUME CertInv, UNCHANGED <<load, maps>>, NEW c \in TlsConns, NEW l,
         NEW d \in Holding(Len(listeners)), NEW x \in {"forget", "drop"},
         d.cert = at[c].cert, d.l = at[c].l,
         x = "forget" => Looks(at[c]), x = "drop" => Goes(at[c]),
         CloseListener(l, d, c, x)
  PROVE  CertInv'
<1> USE DEF CertInv
<1>1. listeners \in Seq(Listener) /\ Len(listeners) \in Nat
  BY DEF ListenersInv
<1>2. ListenersInv' /\ Len(listeners') = Len(listeners)
  <2>1. CASE l \in DOMAIN listeners
    <3> DEFINE r == [listeners[l] EXCEPT !.closed = TRUE, !.acceptConn = <<>>]
    <3>1. listeners[l] \in Listener
      BY <1>1, <2>1
    <3>2. r \in Listener /\ r.acceptConn = <<>>
      <4>1. <<>> \in Seq(TlsConns) /\ TRUE \in BOOLEAN
        OBVIOUS
      <4> QED BY <3>1, <4>1 DEF Listener
    <3>4. Len(r.acceptConn) <= AcceptCap
      BY <3>2, CertAssumption
    <3>3. listeners' = [listeners EXCEPT ![l] = r]
      BY <2>1, <1>1 DEF CloseListener
    <3> HIDE DEF r
    <3> QED BY <2>1, <3>2, <3>3, <3>4, ListenerChanges
  <2>2. CASE l \notin DOMAIN listeners
    <3>1. listeners' = listeners
      BY <1>1, <2>2 DEF CloseListener
    <3> QED BY <3>1 DEF ListenersInv
  <2> QED BY <2>1, <2>2
<1>3. \A e \in TlsConns : at'[e] = IF e = c THEN [d EXCEPT !.pc = x]
                                   ELSE IF \E i \in DOMAIN listeners[l].acceptConn : listeners[l].acceptConn[i] = e
                                     THEN [at[e] EXCEPT !.pc = "closed"] ELSE at[e]
  BY DEF CloseListener
<1>4. DOMAIN at' = TlsConns
  BY DEF CloseListener
<1>5. HeldInv'
  <2>1. [d EXCEPT !.pc = x] \in Holding(Len(listeners)) /\ [d EXCEPT !.pc = x].cert = d.cert
        /\ [d EXCEPT !.pc = x].pc = x /\ [d EXCEPT !.pc = x].l = d.l
    BY DEF Holding
  <2>2. ASSUME NEW e \in TlsConns
        PROVE  at'[e] \in Holding(Len(listeners)) /\ Fits(e, at'[e])
    <3>1. CASE e = c
      <4>1. at'[e] = [d EXCEPT !.pc = x] /\ Fits(e, at[c])
        BY <1>3, <3>1 DEF HeldInv
      <4>2. at'[e] \in Holding(Len(listeners)) /\ at'[e].cert = at[c].cert /\ at'[e].pc = x
            /\ at'[e].l = at[c].l
        BY <2>1, <4>1
      <4>3. Looks(at'[e]) => Looks(at[c])
        BY <4>2 DEF Looks
      <4>4. Goes(at'[e]) => Goes(at[c])
        BY <4>2 DEF Goes
      <4> QED BY <4>1, <4>2, <4>3, <4>4 DEF Fits
    <3>2. CASE e # c /\ at'[e] = at[e]
      BY <3>2 DEF HeldInv
    <3>3. CASE at'[e] = [at[e] EXCEPT !.pc = "closed"]
      <4>1. at[e] \in Holding(Len(listeners)) /\ "closed" \in Stages
        BY DEF HeldInv, Stages
      <4>2. at'[e] \in Holding(Len(listeners)) /\ at'[e].pc = "closed"
        BY <1>1, <3>3, <4>1, HeldElsewhere
      <4> QED BY <4>2 DEF Fits, Looks, Goes
    <3> QED BY <1>3, <3>1, <3>2, <3>3
  <2>3. at' \in [TlsConns -> Holding(Len(listeners))]
    BY <2>2 DEF CloseListener
  <2>4. Holding(Len(listeners))' = Holding(Len(listeners))
    BY <1>2 DEF Holding
  <2> QED BY <2>2, <2>3, <2>4 DEF HeldInv, Fits, Looks, Goes
<1>6. MapsInv'
  BY <1>2 DEF MapsInv, maps, Hosts
<1> QED BY <1>2, <1>5, <1>6

\* A listener is closed because its host is gone, or has another certificate.
LEMMA PurgeAndSwap ==
  ASSUME CertInv, load \in Loads, UNCHANGED load, NEW c \in TlsConns, Purge(c) \/ Swap(c)
  PROVE  CertInv'
<1>1. at[c] \in Holding(Len(listeners)) /\ Len(listeners) \in Nat
  BY DEF CertInv, HeldInv, ListenersInv
<1>4. UNCHANGED maps
  BY Zenon DEF Purge, Swap
<1>2. CASE Purge(c)
  <2>1. at[c].pc = "purge" /\ \E h \in Stale :
          CloseListener(listenerOf[certOf[h]], [at[c] EXCEPT !.h = h, !.old = certOf[h]], c, "forget")
    BY <1>2, Zenon DEF Purge
  <2>2. PICK h \in Stale :
          CloseListener(listenerOf[certOf[h]], [at[c] EXCEPT !.h = h, !.old = certOf[h]], c, "forget")
    BY <2>1, Zenon
  <2>3. h \in 0..Len(load.certs) /\ certOf[h] \in Certs \cup {None}
    <3>1. h \in Hosts
      BY DEF Stale
    <3>2. Hosts = 1..Len(load.certs) /\ Len(load.certs) \in Nat
      BY CertAssumption DEF Hosts
    <3> QED BY <3>1, <3>2 DEF CertInv, MapsInv
  <2> DEFINE d == [at[c] EXCEPT !.h = h, !.old = certOf[h]]
  <2>4. d \in Holding(Len(listeners)) /\ d.cert = at[c].cert /\ d.l = at[c].l
    BY <1>1, <2>3 DEF Holding
  <2>5. Looks(at[c])
    BY <2>1 DEF Looks
  <2>6. CloseListener(listenerOf[certOf[h]], d, c, "forget")
    BY <2>2
  <2> HIDE DEF d
  <2> QED BY <1>4, <2>4, <2>5, <2>6, ClosingKeepsInv
<1>3. CASE Swap(c)
  <2>1. Goes(at[c])
    BY <1>3 DEF Swap, Goes
  <2>2. CASE At(c, "put") /\ UNCHANGED listeners
    <3>1. HeldInv'
      BY <1>1, <2>1, <2>2, AtMoves DEF CertInv, Stages
    <3> QED BY <1>4, <2>2, <3>1 DEF CertInv, MapsInv, ListenersInv, maps, Hosts
  <2>3. CASE CloseListener(listenerOf[at[c].old], at[c], c, "drop")
    BY <1>1, <1>4, <2>1, <2>3, ClosingKeepsInv
  <2> QED BY <1>3, <2>2, <2>3, Zenon DEF Swap
<1> QED BY <1>2, <1>3

\* A connection is put in the queue of its listener, if it has room.
LEMMA SendingKeepsInv ==
  ASSUME CertInv, UNCHANGED load, NEW c \in TlsConns, SendTls(c)
  PROVE  CertInv'
<1> DEFINE l == at[c].l
<1>1. /\ at[c] \in Holding(Len(listeners)) /\ Len(listeners) \in Nat /\ UNCHANGED maps
      /\ Goes(at[c]) /\ Fits(c, at[c]) /\ listeners \in Seq(Listener)
  BY DEF CertInv, HeldInv, ListenersInv, SendTls, Goes
<1>2. l \in 1..Len(listeners) /\ l \in DOMAIN listeners /\ listeners[l] \in Listener
  BY <1>1, HeldFields DEF Fits
<1>3. ASSUME UNCHANGED listeners, HeldInv' PROVE CertInv'
  BY <1>1, <1>3 DEF CertInv, ListenersInv, MapsInv, maps, Hosts
<1>4. CASE At(c, "closed") /\ UNCHANGED listeners
  <2>1. HeldInv'
    BY <1>1, <1>4, AtMoves DEF CertInv, Stages
  <2> QED BY <1>3, <1>4, <2>1
<1>5. CASE /\ Len(listeners[l].acceptConn) < AcceptCap
           /\ listeners' = [listeners EXCEPT ![l].acceptConn = Append(@, c)]
           /\ at' = [at EXCEPT ![c].pc = "queued", ![c].late = listeners[l].closed]
  <2> DEFINE r == [listeners[l] EXCEPT !.acceptConn = Append(listeners[l].acceptConn, c)]
             d == [at[c] EXCEPT !.pc = "queued", !.late = listeners[l].closed]
  <2>1. r \in Listener /\ Len(r.acceptConn) <= AcceptCap /\ listeners[l].closed \in BOOLEAN
    <3> DEFINE q == listeners[l].acceptConn
               n == listeners[l]
    <3>1. q \in Seq(TlsConns) /\ n.closed \in BOOLEAN /\ n \in Listener
      BY <1>2 DEF Listener
    <3>2. Append(q, c) \in Seq(TlsConns) /\ Len(Append(q, c)) = Len(q) + 1 /\ Len(q) \in Nat
      BY <3>1
    <3>3. Len(q) < AcceptCap /\ AcceptCap \in Nat
      BY <1>5, CertAssumption
    <3> HIDE DEF n
    <3>4. Len(Append(q, c)) <= AcceptCap
      BY <3>2, <3>3
    <3> HIDE DEF q
    <3>5. r = [n EXCEPT !.acceptConn = Append(q, c)]
      BY DEF n, q
    <3> HIDE DEF r
    <3>6. r \in Listener /\ r.acceptConn = Append(q, c)
      BY <3>1, <3>2, <3>5 DEF Listener
    <3> QED BY <3>1, <3>4, <3>6 DEF n
  <2>2. listeners' = [listeners EXCEPT ![l] = r]
    BY <1>1, <1>2, <1>5
  <2>3. d \in Holding(Len(listeners)) /\ d.pc = "queued"
    BY <1>1, <2>1 DEF Holding
  <2>4. at' = [at EXCEPT ![c] = d]
    BY <1>5 DEF CertInv, HeldInv
  <2> HIDE DEF r, d, l
  <2>5. ListenersInv' /\ Len(listeners') = Len(listeners)
    BY <1>2, <2>1, <2>2, ListenerChanges DEF CertInv
  <2>6. /\ Len(listeners') \in Nat /\ Len(listeners) <= Len(listeners')
        /\ d \in Holding(Len(listeners')) /\ Fits(c, d)
    BY <1>1, <2>3, <2>5 DEF Fits, Looks, Goes
  <2>7. HeldInv'
    BY <2>4, <2>6, HeldMoves DEF CertInv
  <2> QED BY <1>1, <2>5, <2>7 DEF CertInv, MapsInv, maps, Hosts
<1> QED BY <1>4, <1>5 DEF SendTls

\* The server of a listener takes the first of the queue, or ends.
LEMMA AcceptingKeepsInv ==
  ASSUME CertInv, UNCHANGED load, NEW l \in DOMAIN listeners, AcceptTls(l)
  PROVE  CertInv'
<1>1. listeners \in Seq(Listener) /\ listeners[l] \in Listener /\ Len(listeners) \in Nat
      /\ UNCHANGED maps /\ Len(listeners[l].acceptConn) <= AcceptCap
  BY DEF CertInv, ListenersInv, AcceptTls
<1> DEFINE q == listeners[l].acceptConn
<1>2. q \in Seq(TlsConns)
  BY <1>1 DEF Listener
<1>3. CASE /\ q # <<>> /\ At(Head(q), "served")
           /\ listeners' = [listeners EXCEPT ![l].acceptConn = Tail(@)]
  <2> DEFINE r == [listeners[l] EXCEPT !.acceptConn = Tail(q)]
  <2>1. Tail(q) \in Seq(TlsConns) /\ Len(Tail(q)) <= AcceptCap /\ Head(q) \in TlsConns
    BY <1>1, <1>2, <1>3, CertAssumption
  <2>2. r \in Listener /\ r.acceptConn = Tail(q)
    BY <1>1, <2>1 DEF Listener
  <2>3. listeners' = [listeners EXCEPT ![l] = r]
    BY <1>1, <1>3
  <2> HIDE DEF r
  <2>4. ListenersInv' /\ Len(listeners') = Len(listeners)
    BY <2>1, <2>2, <2>3, ListenerChanges DEF CertInv
  <2>5. HeldInv'
    BY <1>3, <2>1, <2>4, AtMoves DEF CertInv, Stages
  <2> QED BY <1>1, <2>4, <2>5 DEF CertInv, MapsInv, maps, Hosts
<1>4. CASE UNCHANGED at /\ listeners' = [listeners EXCEPT ![l].serves = FALSE]
  <2> DEFINE r == [listeners[l] EXCEPT !.serves = FALSE]
  <2>1. r \in Listener /\ r.acceptConn = q
    BY <1>1 DEF Listener
  <2>2. listeners' = [listeners EXCEPT ![l] = r]
    BY <1>1, <1>4
  <2> HIDE DEF r
  <2>3. ListenersInv' /\ Len(listeners') = Len(listeners)
    BY <1>1, <2>1, <2>2, ListenerChanges DEF CertInv
  <2>4. HeldInv'
    BY <1>4, <2>3 DEF CertInv, HeldInv, Holding, Fits, Looks, Goes
  <2> QED BY <1>1, <2>3, <2>4 DEF CertInv, MapsInv, maps, Hosts
<1> QED BY <1>3, <1>4 DEF AcceptTls

\* Whatever the connections, the servers and the owner of the hosts do.
LEMMA CertStep ==
  ASSUME CertInv, load \in Loads, CertNext
  PROVE  CertInv' /\ UNCHANGED quotaVars
<1>1. UNCHANGED <<load, exceeded>>
  BY DEF CertNext, CertGoesOn
<1>2. UNCHANGED counters
  BY Zenon DEF CertNext, CertGoesOn, Purge, ForgetHost, Purged, Lookup, LoadListener, Swap, Drop, Put,
     Name, SendTls, AcceptTls, TlsArrives, ChangeHost
<1>3. ASSUME NEW h \in Hosts, ChangeHost(h) PROVE CertInv'
  <2>1. changes' \in 0..load.changes
    BY <1>3, CertAssumption DEF ChangeHost, CertInv, MapsInv
  <2>2. hostCert' \in [Hosts -> Certs \cup {Gone}]
    BY <1>3 DEF ChangeHost, CertInv, MapsInv
  <2>3. UNCHANGED <<at, certOf, listenerOf, listeners>>
    BY <1>3 DEF ChangeHost
  <2> QED BY <1>1, <2>1, <2>2, <2>3
          DEF CertInv, HeldInv, MapsInv, ListenersInv, Holding, Fits, Looks, Goes, Hosts
<1>4. CertInv'
  BY <1>1, <1>3, MapsMove, ComingKeepsInv, LookingKeepsInv, PurgeAndSwap, SendingKeepsInv,
     AcceptingKeepsInv DEF CertNext, CertGoesOn
<1> QED BY <1>1, <1>2, <1>4 DEF quotaVars, counters

-----------------------------------------------------------------------------
(* The proxies together: the places that the clients hold are counted.       *)

Places(c) ==
  (IF c = Payer THEN Cardinality(Payers) ELSE 0) + One(counted = c)
  + (IF c = UdpPayer THEN Cardinality(UdpPayers) ELSE 0)

QuotaInv ==
  /\ QuotaTypeOK
  /\ \A c \in Clients : nowConn[c] = Places(c)
  /\ globalConn = Cardinality(Takers)

ProxyInv == QuotaInv /\ ForwardInv /\ HttpInv /\ UdpInv /\ PortInv /\ HealthTypeOK /\ CertInv

\* There are finitely many who can have a place.
LEMMA AllFinite ==
  /\ IsFiniteSet(Payers) /\ IsFiniteSet(Takers) /\ IsFiniteSet(UdpPayers)
  /\ Cardinality(Payers) \in Nat /\ Cardinality(Takers) \in Nat /\ Cardinality(UdpPayers) \in Nat
<1>1. IsFiniteSet(Users) /\ IsFiniteSet(Packets)
  BY FS_Interval, ForwardAssumption, UdpAssumption DEF Users, Packets
<1>2. Payers \subseteq Users /\ Takers \subseteq Users /\ UdpPayers \subseteq Packets
  BY DEF Payers, Takers, UdpPayers
<1>3. IsFiniteSet(Payers) /\ IsFiniteSet(Takers) /\ IsFiniteSet(UdpPayers)
  BY <1>1, <1>2, FS_Subset
<1> QED BY <1>3, FS_CardinalityType

\* What holds of a part depends on its own variables, and on the load.
LEMMA ForwardStays ==
  ASSUME ForwardInv, UNCHANGED <<forwardVars, load>>
  PROVE  ForwardInv' /\ Payers' = Payers /\ Takers' = Takers
<1>0. /\ pc' = pc /\ user' = user /\ deadline' = deadline /\ near' = near /\ far' = far
      /\ pump' = pump /\ handle' = handle /\ service' = service /\ copier' = copier
  BY DEF forwardVars
<1>1. ForwardTypeOK'
  BY <1>0 DEF ForwardInv, ForwardTypeOK
<1>2. ASSUME NEW u \in Users
      PROVE  UserInv(u)' /\ Pays(u)' = Pays(u) /\ Takes(u)' = Takes(u)
  <2>1. kind(u)' = kind(u) /\ Dealt(u)' = Dealt(u) /\ Denied(u)' = Denied(u) /\ UserInv(u)
    BY KindsStay DEF ForwardInv
  <2>2. InCourse(u)' /\ (Shut(u) => Shut(u)')
    BY <1>0, <2>1 DEF UserInv, InCourse, Shut
  <2>3. UserInv(u)'
    BY <1>0, <2>1, <2>2 DEF UserInv
  <2>4. Pays(u)' = Pays(u) /\ Takes(u)' = Takes(u)
    BY <1>0, <2>1 DEF Pays, Takes
  <2> QED BY <2>3, <2>4
<1> QED BY <1>1, <1>2 DEF ForwardInv, Payers, Takers

\* The same of handleHttp, ...
LEMMA HttpStays ==
  ASSUME HttpInv, UNCHANGED <<httpVars, load>>
  PROVE  HttpInv' /\ counted' = counted
BY DEF HttpInv, HttpTyped, HttpTypeOK, HttpFlagged, httpVars

\* ... the sessions, ...
LEMMA UdpStays ==
  ASSUME UdpInv, UNCHANGED udpVars
  PROVE  UdpInv' /\ UdpPayers' = UdpPayers
<1>0. upc' = upc /\ mine' = mine /\ sessions' = sessions /\ addrMap' = addrMap
      /\ closeCh' = closeCh /\ listener' = listener /\ pool' = pool
  BY DEF udpVars
<1>1. UdpTypeOK'
  BY <1>0 DEF UdpInv, UdpTypeOK
<1>2. ASSUME NEW a \in Actors PROVE ActorInv(a)'
  BY <1>0 DEF UdpInv, ActorInv, held
<1>3. ASSUME NEW i \in 1..Len(sessions) PROVE SessionInv(i)'
  BY <1>0 DEF UdpInv, SessionInv
<1>4. UdpPayers' = UdpPayers
  BY <1>0 DEF UdpPayers, UdpPays, Runs, held
<1> QED BY <1>0, <1>1, <1>2, <1>3, <1>4 DEF UdpInv

\* ... the shared port, ...
LEMMA PortStays ==
  ASSUME PortInv, UNCHANGED portVars
  PROVE  PortInv'
BY DEF PortInv, PortTypeOK, NoneInFlight, portVars

\* ... the health checks ...
LEMMA HealthStays ==
  ASSUME HealthTypeOK, UNCHANGED healthVars
  PROVE  HealthTypeOK'
BY DEF HealthTypeOK, healthVars, inServer

\* ... and the listeners.
LEMMA CertStays ==
  ASSUME CertInv, UNCHANGED <<certVars, load>>
  PROVE  CertInv'
BY DEF CertInv, HeldInv, MapsInv, ListenersInv, Holding, Fits, Looks, Goes, Hosts, certVars

\* If the books are kept the count stays right, and in its type.
LEMMA Counted ==
  ASSUME QuotaInv, load' = load, exceeded' \in [Clients -> BOOLEAN], nowConn' \in [Clients -> Int],
         Cardinality(Payers') \in Nat, Cardinality(UdpPayers') \in Nat, Cardinality(Takers') \in Nat,
         \A c \in Clients :
           nowConn'[c] = (IF c = Payer THEN Cardinality(Payers') ELSE 0) + One(counted' = c)
                         + (IF c = UdpPayer THEN Cardinality(UdpPayers') ELSE 0),
         globalConn' = Cardinality(Takers'),
         globalConn' <= globalConn \/ (globalConn' = globalConn + 1 /\ TryAcquireGlobalConn)
  PROVE  QuotaInv'
<1>1. ASSUME NEW c \in Clients PROVE nowConn'[c] \in Nat /\ nowConn'[c] = Places(c)'
  BY <1>1 DEF One, Places
<1>2. nowConn' \in [Clients -> Nat]
  BY <1>1
<1>3. load.maxGlobal \in Nat /\ globalConn \in Nat
  BY QuotaAssumption DEF QuotaInv, QuotaTypeOK
<1>4. load.maxGlobal > 0 => globalConn' <= load.maxGlobal
  BY <1>3 DEF QuotaInv, QuotaTypeOK, TryAcquireGlobalConn
<1>5. QuotaTypeOK'
  BY <1>2, <1>4 DEF QuotaInv, QuotaTypeOK
<1> QED BY <1>1, <1>5 DEF QuotaInv

\* What each count was.
LEMMA CountedBefore ==
  ASSUME QuotaInv
  PROVE  /\ \A c \in Clients :
              nowConn[c] = (IF c = Payer THEN Cardinality(Payers) ELSE 0) + One(counted = c)
                           + (IF c = UdpPayer THEN Cardinality(UdpPayers) ELSE 0)
         /\ globalConn = Cardinality(Takers) /\ globalConn \in Nat /\ nowConn \in [Clients -> Int]
         /\ load \in Loads /\ exceeded \in [Clients -> BOOLEAN]
BY DEF QuotaInv, QuotaTypeOK, Places

\* A user's step changes its own places, and no others.
LEMMA ForwardCounts ==
  ASSUME QuotaInv, ForwardInv, ForwardNext, counted' = counted, UdpPayers' = UdpPayers
  PROVE  QuotaInv'
<1>1. QuotaTypeOK
  BY DEF QuotaInv
<1>2. UNCHANGED <<load, exceeded>>
  BY <1>1, ForwardStep
<1>3. PICK u \in Users :
        Books(u) /\ \A v \in Users \ {u} : Pays(v)' = Pays(v) /\ Takes(v)' = Takes(v)
  BY <1>1, ForwardStep
<1>4. /\ Payers' \ {u} = Payers \ {u} /\ Takers' \ {u} = Takers \ {u}
      /\ One(u \in Payers') = One(Pays(u)') /\ One(u \in Payers) = One(Pays(u))
      /\ One(u \in Takers') = One(Takes(u)') /\ One(u \in Takers) = One(Takes(u))
  BY <1>3 DEF Payers, Takers, One
<1>5. Cardinality(Payers') = Cardinality(Payers) + One(Pays(u)') - One(Pays(u))
      /\ Cardinality(Payers') \in Nat
  BY <1>4, AllFinite, OneChanges
<1>6. Cardinality(Takers') = Cardinality(Takers) + One(Takes(u)') - One(Takes(u))
      /\ Cardinality(Takers') \in Nat
  BY <1>4, AllFinite, OneChanges
<1>7. /\ One(Pays(u)') \in {0, 1} /\ One(Pays(u)) \in {0, 1}
      /\ One(Takes(u)') \in {0, 1} /\ One(Takes(u)) \in {0, 1}
      /\ \A c : One(counted = c) \in {0, 1}
  BY DEF One
<1>8. ASSUME NEW c \in Clients
      PROVE  nowConn'[c] = (IF c = Payer THEN Cardinality(Payers') ELSE 0) + One(counted' = c)
                           + (IF c = UdpPayer THEN Cardinality(UdpPayers') ELSE 0)
  <2>1. nowConn'[c] = nowConn[c] + (IF c = Payer THEN One(Pays(u)') - One(Pays(u)) ELSE 0)
    BY <1>3 DEF Books
  <2>2. nowConn[c] = (IF c = Payer THEN Cardinality(Payers) ELSE 0) + One(counted = c)
                     + (IF c = UdpPayer THEN Cardinality(UdpPayers) ELSE 0)
    BY CountedBefore
  <2>3. One(counted' = c) = One(counted = c) /\ One(counted = c) \in {0, 1}
    BY <1>7
  <2> QED BY <1>5, <1>7, <2>1, <2>2, <2>3, AllFinite
<1>9. /\ globalConn' = Cardinality(Takers')
      /\ globalConn' <= globalConn \/ (globalConn' = globalConn + 1 /\ TryAcquireGlobalConn)
  BY <1>3, <1>6, <1>7, CountedBefore DEF Books
<1>10. nowConn' \in [Clients -> Int]
  BY <1>3 DEF Books
<1> QED BY <1>2, <1>5, <1>6, <1>8, <1>9, <1>10, AllFinite, CountedBefore, Counted

\* So does handleHttp, ...
LEMMA HttpCounts ==
  ASSUME QuotaInv, HttpBooks, UNCHANGED <<load, exceeded>>,
         Payers' = Payers, Takers' = Takers, UdpPayers' = UdpPayers
  PROVE  QuotaInv'
<1>1. \A c : One(counted = c) \in {0, 1} /\ One(counted' = c) \in {0, 1}
  BY DEF One
<1>2. ASSUME NEW c \in Clients
      PROVE  nowConn'[c] = (IF c = Payer THEN Cardinality(Payers') ELSE 0) + One(counted' = c)
                           + (IF c = UdpPayer THEN Cardinality(UdpPayers') ELSE 0)
  <2>1. nowConn'[c] = nowConn[c] + One(counted' = c) - One(counted = c)
    BY DEF HttpBooks
  <2>2. nowConn[c] = (IF c = Payer THEN Cardinality(Payers) ELSE 0) + One(counted = c)
                     + (IF c = UdpPayer THEN Cardinality(UdpPayers) ELSE 0)
    BY CountedBefore
  <2>3. One(counted = c) \in {0, 1} /\ One(counted' = c) \in {0, 1}
    BY <1>1
  <2> QED BY <2>1, <2>2, <2>3, AllFinite
<1>3. globalConn' = Cardinality(Takers') /\ globalConn' <= globalConn
  BY CountedBefore DEF HttpBooks
<1>4. nowConn' \in [Clients -> Int]
  BY DEF HttpBooks
<1> QED BY <1>2, <1>3, <1>4, AllFinite, CountedBefore, Counted

\* ... and a worker of a session.
LEMMA UdpCounts ==
  ASSUME QuotaInv, NEW a, UdpBooks(a), UNCHANGED <<load, exceeded>>,
         Payers' = Payers, Takers' = Takers, counted' = counted
  PROVE  QuotaInv'
<1>1. \A b : One(b) \in {0, 1}
  BY DEF One
<1>2. Cardinality(UdpPayers') = Cardinality(UdpPayers) + One(a \in UdpPayers') - One(a \in UdpPayers)
      /\ Cardinality(UdpPayers') \in Nat
  BY AllFinite, OneChanges DEF UdpBooks
<1>3. ASSUME NEW c \in Clients
      PROVE  nowConn'[c] = (IF c = Payer THEN Cardinality(Payers') ELSE 0) + One(counted' = c)
                           + (IF c = UdpPayer THEN Cardinality(UdpPayers') ELSE 0)
  <2>1. nowConn'[c] = nowConn[c]
                      + (IF c = UdpPayer THEN One(a \in UdpPayers') - One(a \in UdpPayers) ELSE 0)
    BY DEF UdpBooks
  <2>2. nowConn[c] = (IF c = Payer THEN Cardinality(Payers) ELSE 0) + One(counted = c)
                     + (IF c = UdpPayer THEN Cardinality(UdpPayers) ELSE 0)
    BY CountedBefore
  <2>3. One(counted = c) \in {0, 1} /\ One(a \in UdpPayers') \in {0, 1} /\ One(a \in UdpPayers) \in {0, 1}
    BY <1>1
  <2> QED BY <1>2, <2>1, <2>2, <2>3, AllFinite
<1>4. globalConn' = Cardinality(Takers') /\ globalConn' <= globalConn
  BY CountedBefore DEF UdpBooks
<1>5. nowConn' \in [Clients -> Int]
  BY DEF UdpBooks
<1> QED BY <1>2, <1>3, <1>4, <1>5, AllFinite, CountedBefore, Counted

\* Where nobody takes a place and none is given back.
LEMMA SameCounts ==
  ASSUME QuotaInv, UNCHANGED <<load, nowConn, globalConn>>, exceeded' \in [Clients -> BOOLEAN],
         Payers' = Payers, Takers' = Takers, UdpPayers' = UdpPayers, counted' = counted
  PROVE  QuotaInv'
BY DEF QuotaInv, QuotaTypeOK, Places

\* The first state has no user.
LEMMA ForwardInitially == ForwardInit => ForwardInv
<1> SUFFICES ASSUME ForwardInit PROVE ForwardInv
  OBVIOUS
<1>1. ForwardTypeOK
  <2>1. Both("none") \in [Ways -> Pump]
    BY BothTyped DEF Pump
  <2> QED BY <2>1 DEF ForwardInit, ForwardTypeOK, All, Socket
<1>2. ASSUME NEW u \in Users PROVE UserInv(u)
  <2>1. \A d \in Ways : Both("none")[d] = "none"
    BY DEF Both
  <2> QED BY <2>1 DEF ForwardInit, All, UserInv, InCourse, Ways
<1> QED BY <1>1, <1>2 DEF ForwardInv

\* The first state keeps all of the invariant.
LEMMA InitiallyAll == Init => ProxyInv
<1> SUFFICES ASSUME Init PROVE ProxyInv
  OBVIOUS
<1>1. load \in Loads
  BY DEF Init, QuotaInit
<1>2. ForwardInv /\ HttpInv /\ UdpInv /\ HealthTypeOK /\ CertInv
  BY <1>1, ForwardInitially, HttpInitially, UdpInitially, HealthInitially, CertInitially DEF Init
<1>3. PortInv
  BY DEF Init, PortInit, PortInv, PortTypeOK
<1>4. Payers = {} /\ Takers = {}
  BY DEF Init, ForwardInit, All, Payers, Takers, Pays, Takes
<1>5. UdpPayers = {}
  BY TheOthers DEF Init, UdpInit, UdpPayers, UdpPays
<1>6. counted = Nobody /\ Nobody \notin Clients
  BY HttpAssumption DEF Init, HttpInit
<1>7. \A c \in Clients : Places(c) = 0
  BY <1>4, <1>5, <1>6, FS_EmptySet DEF Places, One
<1>8. QuotaTypeOK
  BY QuotaAssumption DEF Init, QuotaInit, QuotaTypeOK
<1>9. QuotaInv
  BY <1>4, <1>7, <1>8, FS_EmptySet DEF QuotaInv, Init, QuotaInit
<1> QED BY <1>2, <1>3, <1>9 DEF ProxyInv

\* So does every step, of whichever part.
LEMMA StepKeepsAll == ProxyInv /\ [Next]_vars => ProxyInv'
<1> SUFFICES ASSUME ProxyInv, [Next]_vars PROVE ProxyInv'
  OBVIOUS
<1> USE DEF ProxyInv
<1>0. QuotaTypeOK /\ load \in Loads /\ exceeded \in [Clients -> BOOLEAN]
  BY CountedBefore DEF QuotaInv
<1>1. CASE ForwardNext /\ OnlyForward
  <2>1. ForwardInv' /\ UNCHANGED load
    BY <1>0, <1>1, ForwardStep
  <2>2. UNCHANGED <<httpVars, udpVars, portVars, healthVars, certVars>>
    BY <1>1 DEF OnlyForward
  <2>3. HttpInv' /\ UdpInv' /\ PortInv' /\ HealthTypeOK' /\ CertInv'
    BY <2>1, <2>2, HttpStays, UdpStays, PortStays, HealthStays, CertStays
  <2>4. QuotaInv'
    BY <1>1, <2>1, <2>2, HttpStays, UdpStays, ForwardCounts
  <2> QED BY <2>1, <2>3, <2>4
<1>2. CASE HttpNext /\ OnlyHttp
  <2>1. HttpInv' /\ HttpBooks /\ UNCHANGED <<load, exceeded>>
    BY <1>0, <1>2, HttpStep
  <2>2. UNCHANGED <<forwardVars, udpVars, portVars, healthVars, certVars>>
    BY <1>2 DEF OnlyHttp
  <2>3. ForwardInv' /\ UdpInv' /\ PortInv' /\ HealthTypeOK' /\ CertInv'
    BY <2>1, <2>2, ForwardStays, UdpStays, PortStays, HealthStays, CertStays
  <2>4. QuotaInv'
    BY <2>1, <2>2, ForwardStays, UdpStays, HttpCounts
  <2> QED BY <2>1, <2>3, <2>4
<1>3. CASE UdpNext /\ OnlyUdp
  <2>1. UNCHANGED <<load, exceeded>> /\ \E a \in Actors : Moving(a)
    BY <1>3, UdpMoves
  <2>2. PICK a \in Actors : Moving(a)
    BY <2>1
  <2>3. UdpInv' /\ UdpBooks(a)
    BY <1>0, <2>2, UdpKeepsInv, UdpPaying
  <2>4. UNCHANGED <<forwardVars, httpVars, portVars, healthVars, certVars>>
    BY <1>3 DEF OnlyUdp
  <2>5. ForwardInv' /\ HttpInv' /\ PortInv' /\ HealthTypeOK' /\ CertInv'
    BY <2>1, <2>4, ForwardStays, HttpStays, PortStays, HealthStays, CertStays
  <2>6. QuotaInv'
    BY <2>1, <2>3, <2>4, ForwardStays, HttpStays, UdpCounts
  <2> QED BY <2>3, <2>5, <2>6
<1>4. CASE PortNext /\ OnlyPorts
  <2>1. PortInv' /\ UNCHANGED quotaVars
    <3>1. UNCHANGED quotaVars
      BY <1>4, Zenon DEF PortNext, PortGoesOn, AcceptPort, AcceptStops, Recognise, Send, GiveUp,
         BeginClose, CloseChannels, StopListening, quotaVars, counters
    <3> QED BY <1>4, <3>1, PortStep
  <2>2. UNCHANGED <<forwardVars, httpVars, udpVars, healthVars, certVars>>
    BY <1>4 DEF OnlyPorts
  <2> QED BY <1>0, <2>1, <2>2, ForwardStays, HttpStays, UdpStays, HealthStays, CertStays, SameCounts
          DEF quotaVars
<1>5. CASE HealthNext /\ OnlyHealth
  <2>1. HealthTypeOK' /\ UNCHANGED quotaVars
    BY <1>5, HealthStep
  <2>2. UNCHANGED <<forwardVars, httpVars, udpVars, portVars, certVars>>
    BY <1>5 DEF OnlyHealth
  <2> QED BY <1>0, <2>1, <2>2, ForwardStays, HttpStays, UdpStays, PortStays, CertStays, SameCounts
          DEF quotaVars
<1>6. CASE CertNext /\ OnlyCerts
  <2>1. CertInv' /\ UNCHANGED quotaVars
    BY <1>0, <1>6, CertStep
  <2>2. UNCHANGED <<forwardVars, httpVars, udpVars, portVars, healthVars>>
    BY <1>6 DEF OnlyCerts
  <2> QED BY <1>0, <2>1, <2>2, ForwardStays, HttpStays, UdpStays, PortStays, HealthStays, SameCounts
          DEF quotaVars
<1>7. CASE /\ \E c \in Clients : Exceed(c)
           /\ UNCHANGED <<forwardVars, httpVars, udpVars, portVars, healthVars, certVars>>
  <2>1. exceeded' \in [Clients -> BOOLEAN] /\ UNCHANGED <<load, nowConn, globalConn>>
    BY <1>0, <1>7 DEF Exceed, counters
  <2> QED BY <1>7, <2>1, ForwardStays, HttpStays, UdpStays, PortStays, HealthStays, CertStays,
             SameCounts
<1>8. CASE UNCHANGED vars
  <2>1. UNCHANGED <<quotaVars, forwardVars, httpVars, udpVars, portVars, healthVars, certVars>>
    BY <1>8 DEF vars
  <2> QED BY <1>0, <2>1, ForwardStays, HttpStays, UdpStays, PortStays, HealthStays, CertStays,
             SameCounts DEF quotaVars
<1> QED BY <1>1, <1>2, <1>3, <1>4, <1>5, <1>6, <1>7, <1>8 DEF Next

\* The invariant of all proxies.
LEMMA AlwaysInv == Spec => []ProxyInv
BY InitiallyAll, StepKeepsAll, PTL DEF Spec

\* The types of all proxies, for any number of clients, users, datagrams and connections:
\* the counters of the clients' connections never fall below zero, the connections in all
\* never exceed the limit that is set (TryAcquireGlobalConn), and nobody sends on a channel
\* that is closed.
THEOREM ProxyTyped == Spec => []TypeOK
<1>1. ProxyInv => TypeOK
  BY CertInvTypes DEF ProxyInv, TypeOK, QuotaInv, ForwardInv, HttpInv, HttpTyped, UdpInv, PortInv
<1> QED BY <1>1, AlwaysInv, PTL

\* Whoever is through has left nothing behind (NothingLeft): no socket, stream or session
\* that nobody will close, and when all are, the places of all clients are free again,
\* in whatever order the goroutines of users, services and tunnels have ended.
THEOREM NothingIsLeft == Spec => []NothingLeft
<1>1. ASSUME ProxyInv PROVE NothingLeft
  <2> USE <1>1 DEF ProxyInv
  <2>1. \A u \in Users : ~ForwardLeft(u)
    BY DEF ForwardInv, UserInv, Shut, ForwardLeft
  <2>2. ~HttpLeft
    BY DEF HttpLeft, HttpInv, HttpTyped, HttpFlagged
  <2>3. ~UdpLeft
    <3> SUFFICES ASSUME UdpEnded, NEW s \in 1..Len(sessions),
                        addrMap = s \/ sessions[s].target = "open"
                 PROVE  FALSE
      BY DEF UdpLeft, UdpInv, UdpTypeOK
    <3>1. sessions[s].by \in Packets /\ SessionInv(s)
      <4>1. sessions \in Seq(Session) /\ SessionInv(s)
        BY DEF UdpInv, UdpTypeOK
      <4>2. sessions[s] \in Session
        BY <4>1
      <4> QED BY <4>1, <4>2 DEF Session
    <3>2. upc[sessions[s].by] \in {"none", "end"}
      BY <3>1, TheOthers DEF UdpEnded
    <3> QED BY <3>1, <3>2 DEF SessionInv
  <2>4. ~PortLeft
    BY DEF PortLeft, PortInv
  <2>5. ASSUME Quiet PROVE globalConn = 0 /\ \A c \in Clients : nowConn[c] = 0
    <3>1. Payers = {} /\ Takers = {}
      BY <2>5 DEF Quiet, ForwardEnded, Done, Payers, Takers, Pays, Takes
    <3>2. UdpPayers = {}
      BY <2>5, TheOthers DEF Quiet, UdpEnded, UdpPayers, UdpPays
    <3>3. counted = Nobody /\ Nobody \notin Clients
      BY <2>5, HttpAssumption DEF Quiet, HttpEnded, HttpInv, HttpTyped
    <3> QED BY <3>1, <3>2, <3>3, FS_EmptySet DEF QuotaInv, Places, One
  <2> QED BY <2>1, <2>2, <2>3, <2>4, <2>5 DEF NothingLeft
<1> QED BY <1>1, AlwaysInv, PTL

\* A user whose stream is torn down for the next host is not closed by the goroutine that
\* copied the answers of the last one (http.go, the comment on resetFlag).
THEOREM UserIsKept == Spec => []UserKept
<1>1. ProxyInv => UserKept
  BY DEF ProxyInv, HttpInv, HttpFlagged, UserKept
<1> QED BY <1>1, AlwaysInv, PTL
=============================================================================
