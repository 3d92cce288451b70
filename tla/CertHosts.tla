----------------------------- MODULE CertHosts ------------------------------
(* HttpsServer.cert: a host with a certificate of its own is served by an    *)
(* HttpsListener made for the certificate, which every connection to the     *)
(* host looks up, makes or replaces, in two maps and without a lock          *)
(* (server/proxy/https.go).  load.tls names the host of each connection,     *)
(* load.certs the certificate of each host.                                  *)
EXTENDS Quota

CONSTANTS MaxTls, AcceptCap, \* capacity of acceptConn
          Certs, BadCert     \* one of them cannot be parsed

ASSUME CertAssumption ==
  /\ MaxTls \in Nat /\ AcceptCap \in Nat \ {0} /\ BadCert \in Certs
  /\ \A l \in Loads : /\ Len(l.tls) <= MaxTls /\ l.tls \in Seq(1..Len(l.certs))
                      /\ l.certs \in Seq(Certs) /\ l.changes \in Nat

VARIABLES
  at,         \* the goroutine of each connection, and what it holds
  changes,    \* how often hosts were changed
  hostCert,   \* the hosts: their certificates, Gone for one that was deleted
  certOf,     \* hostIdCertMap
  listenerOf, \* httpsListenerMap: the number of the listener, 0 for none
  listeners   \* every HttpsListener made, with the server that accepts from it

certVars == <<at, changes, hostCert, certOf, listenerOf, listeners>>
maps == <<changes, hostCert, certOf, listenerOf>>

TlsConns == 1..MaxTls
Hosts == DOMAIN load.certs
Gone == "gone"
None == "none"
host(c) == load.tls[c]
\* the listener, the old certificate and the host whose entries are being removed
AtStart == [pc |-> "none", cert |-> None, l |-> 0, old |-> None, h |-> 0, late |-> FALSE]

CertTypeOK ==
  /\ at \in [TlsConns ->
       [pc : {"none", "purge", "forget", "unname", "lookup", "load", "swap", "drop", "put", "refill",
              "name", "send", "queued", "served", "closed"},
        cert : Certs \cup {None}, l : 0..Len(listeners), old : Certs \cup {None},
        h : 0..Len(load.certs), late : BOOLEAN]]
  /\ changes \in 0..load.changes
  /\ hostCert \in [Hosts -> Certs \cup {Gone}]
  /\ certOf \in [Hosts -> Certs \cup {None}]
  /\ listenerOf \in [Certs -> 0..Len(listeners)]
  /\ listeners \in Seq([closed : BOOLEAN, serves : BOOLEAN, acceptConn : Seq(TlsConns)])
  /\ \A l \in DOMAIN listeners : Len(listeners[l].acceptConn) <= AcceptCap

CertInit ==
  /\ at = [c \in TlsConns |-> AtStart] /\ changes = 0 /\ hostCert = load.certs
  /\ certOf = [h \in Hosts |-> None] /\ listenerOf = [k \in Certs |-> 0] /\ listeners = <<>>

At(c, pc) == at' = [at EXCEPT ![c].pc = pc]

\* HttpsListener.Close: closeCh, and what is still in acceptConn is closed
CloseListener(l, drained, c, pc) ==
  /\ listeners' = [listeners EXCEPT ![l].closed = TRUE, ![l].acceptConn = <<>>]
  /\ at' = [d \in TlsConns |->
              IF d = c THEN [drained EXCEPT !.pc = pc]
              ELSE IF \E i \in DOMAIN listeners[l].acceptConn : listeners[l].acceptConn[i] = d
                   THEN [at[d] EXCEPT !.pc = "closed"] ELSE at[d]]

\* NewServerWithTls ends at once if it cannot read the pair of certificate and key
Serves(k) == k # BadCert

\* NewHttpsListener and NewHttps
MakeListener(k) ==
  listeners' = Append(listeners, [closed |-> FALSE, serves |-> Serves(k), acceptConn |-> <<>>])

-----------------------------------------------------------------------------
\* the name in the ClientHello is one of a host, and its certificate is there
TlsArrives(c) ==
  /\ at[c].pc = "none" /\ c <= Len(load.tls) /\ hostCert[host(c)] # Gone
  /\ \A d \in 1..c - 1 : at[d].pc # "none"
  /\ at' = [at EXCEPT ![c].pc = "purge", ![c].cert = hostCert[host(c)]]
  /\ UNCHANGED <<counters, maps, listeners>>

\* the Range: the listener of a host that has been deleted is closed, ...
Stale == {h \in Hosts : hostCert[h] = Gone /\ certOf[h] # None /\ listenerOf[certOf[h]] # 0}

Purge(c) ==
  /\ at[c].pc = "purge"
  /\ \E h \in Stale :
       CloseListener(listenerOf[certOf[h]], [at[c] EXCEPT !.h = h, !.old = certOf[h]], c, "forget")
  /\ UNCHANGED <<counters, maps>>

\* ... and then its entries removed, one after the other
ForgetHost(c) ==
  /\ \/ at[c].pc = "forget" /\ At(c, "unname") /\ UNCHANGED certOf
        /\ listenerOf' = [listenerOf EXCEPT ![at[c].old] = 0]
     \/ at[c].pc = "unname" /\ At(c, "purge") /\ UNCHANGED listenerOf
        /\ certOf' = [certOf EXCEPT ![at[c].h] = None]
  /\ UNCHANGED <<counters, changes, hostCert, listeners>>

Purged(c) ==
  /\ at[c].pc = "purge" /\ Stale = {} /\ At(c, "lookup")
  /\ UNCHANGED <<counters, maps, listeners>>

\* hostIdCertMap knows the certificate, or another, or none
Lookup(c) ==
  LET old == certOf[host(c)]
  IN  /\ at[c].pc = "lookup"
      /\ IF old = at[c].cert THEN At(c, "load") /\ UNCHANGED listeners
         ELSE /\ MakeListener(at[c].cert)
              /\ at' = [at EXCEPT ![c].l = Len(listeners) + 1, ![c].old = old,
                                  ![c].pc = IF old = None THEN "put" ELSE "swap"]
      /\ UNCHANGED <<counters, maps>>

LoadListener(c) ==
  LET l == listenerOf[at[c].cert]
  IN  /\ at[c].pc = "load"
      /\ IF l # 0 THEN UNCHANGED listeners ELSE MakeListener(at[c].cert)
      /\ at' = [at EXCEPT ![c].pc = IF l # 0 THEN "send" ELSE "refill",
                          ![c].l = IF l # 0 THEN l ELSE Len(listeners) + 1]
      /\ UNCHANGED <<counters, maps>>

\* the certificate has changed: the old listener is closed, ...
Swap(c) ==
  LET l == listenerOf[at[c].old]
  IN  /\ at[c].pc = "swap"
      /\ IF l = 0 THEN At(c, "put") /\ UNCHANGED listeners
                  ELSE CloseListener(l, at[c], c, "drop")
      /\ UNCHANGED <<counters, maps>>

\* ... forgotten, ...
Drop(c) ==
  /\ at[c].pc = "drop" /\ At(c, "put")
  /\ listenerOf' = [listenerOf EXCEPT ![at[c].old] = 0]
  /\ UNCHANGED <<counters, changes, hostCert, certOf, listeners>>

\* ... and the new one stored, over any other
Put(c) ==
  /\ at[c].pc \in {"put", "refill"} /\ At(c, IF at[c].pc = "put" THEN "name" ELSE "send")
  /\ listenerOf' = [listenerOf EXCEPT ![at[c].cert] = at[c].l]
  /\ UNCHANGED <<counters, changes, hostCert, certOf, listeners>>

Name(c) ==
  /\ at[c].pc = "name" /\ At(c, "send")
  /\ certOf' = [certOf EXCEPT ![host(c)] = at[c].cert]
  /\ UNCHANGED <<counters, changes, hostCert, listenerOf, listeners>>

\* the select: acceptConn has room, also when the listener is closed; or it is closed
SendTls(c) ==
  LET l == listeners[at[c].l]
  IN  /\ at[c].pc = "send"
      /\ \/ /\ Len(l.acceptConn) < AcceptCap
            /\ listeners' = [listeners EXCEPT ![at[c].l].acceptConn = Append(@, c)]
            /\ at' = [at EXCEPT ![c].pc = "queued", ![c].late = l.closed]
         \/ l.closed /\ At(c, "closed") /\ UNCHANGED listeners
      /\ UNCHANGED <<counters, maps>>

-----------------------------------------------------------------------------
\* http.Server accepts until Accept fails: a select, too
AcceptTls(l) ==
  /\ listeners[l].serves
  /\ \/ /\ listeners[l].acceptConn # <<>>
        /\ At(Head(listeners[l].acceptConn), "served")
        /\ listeners' = [listeners EXCEPT ![l].acceptConn = Tail(@)]
     \/ /\ listeners[l].closed /\ UNCHANGED at
        /\ listeners' = [listeners EXCEPT ![l].serves = FALSE]
  /\ UNCHANGED <<counters, maps>>

\* the file with the certificate of a host is renewed, or the host is deleted
ChangeHost(h) ==
  /\ changes < load.changes /\ changes' = changes + 1
  /\ hostCert[h] # Gone /\ hostCert' \in {[hostCert EXCEPT ![h] = k] : k \in Certs \cup {Gone}}
  /\ hostCert' # hostCert
  /\ UNCHANGED <<counters, at, certOf, listenerOf, listeners>>

CertGoesOn ==
  /\ \/ \E c \in TlsConns :
          \/ Purge(c) \/ ForgetHost(c) \/ Purged(c) \/ Lookup(c) \/ LoadListener(c) \/ Swap(c)
          \/ Drop(c) \/ Put(c) \/ Name(c) \/ SendTls(c)
     \/ \E l \in DOMAIN listeners : AcceptTls(l)
  /\ UNCHANGED <<load, exceeded>>

CertNext ==
  \/ CertGoesOn
  \/ /\ \/ \E c \in TlsConns : TlsArrives(c)
        \/ \E h \in Hosts : ChangeHost(h)
     /\ UNCHANGED <<load, exceeded>>

-----------------------------------------------------------------------------
\* It came when the listener had been closed and emptied, or its host has a pair of
\* certificate and key that do not go together: nobody will accept it.
Lost(c) == at[c].late \/ at[c].cert = BadCert

CertEnded ==
  \A c \in TlsConns : at[c].pc \in {"none", "served", "closed"} \/ Lost(c)
=============================================================================
