------------------------------- MODULE Proxy --------------------------------
(* The proxies of one server together: they share the limits of Quota.       *)
EXTENDS Forward, HttpHost, UdpSessions, PortMux, Health, CertHosts

vars == <<quotaVars, forwardVars, httpVars, udpVars, portVars, healthVars, certVars>>

Init ==
  /\ QuotaInit /\ ForwardInit /\ HttpInit /\ UdpInit /\ PortInit /\ HealthInit /\ CertInit

OnlyForward == UNCHANGED <<httpVars, udpVars, portVars, healthVars, certVars>>
OnlyHttp == UNCHANGED <<forwardVars, udpVars, portVars, healthVars, certVars>>
OnlyUdp == UNCHANGED <<forwardVars, httpVars, portVars, healthVars, certVars>>
OnlyPorts == UNCHANGED <<forwardVars, httpVars, udpVars, healthVars, certVars>>
OnlyHealth == UNCHANGED <<forwardVars, httpVars, udpVars, portVars, certVars>>
OnlyCerts == UNCHANGED <<forwardVars, httpVars, udpVars, portVars, healthVars>>

Next ==
  \/ ForwardNext /\ OnlyForward
  \/ HttpNext /\ OnlyHttp
  \/ UdpNext /\ OnlyUdp
  \/ PortNext /\ OnlyPorts
  \/ HealthNext /\ OnlyHealth
  \/ CertNext /\ OnlyCerts
  \/ /\ \E c \in Clients : Exceed(c)
     /\ UNCHANGED <<forwardVars, httpVars, udpVars, portVars, healthVars, certVars>>

\* Goroutines that can move do.  Apart from the health checks they have finitely many
\* steps left when nobody comes any more, so that it is enough that some one moves.
GoesOn ==
  \/ ForwardGoesOn /\ OnlyForward
  \/ HttpGoesOn /\ OnlyHttp
  \/ UdpGoesOn /\ OnlyUdp
  \/ PortGoesOn /\ OnlyPorts
  \/ CertGoesOn /\ OnlyCerts

Spec ==
  /\ Init /\ [][Next]_vars
  /\ WF_vars(GoesOn)
  /\ WF_vars(Checking /\ OnlyHealth) /\ WF_vars(Hearing /\ OnlyHealth)

\* The types; in particular nobody sends on a closed channel (pmux.go:42).
TypeOK ==
  /\ QuotaTypeOK /\ ForwardTypeOK /\ HttpTypeOK /\ UdpTypeOK /\ PortTypeOK /\ HealthTypeOK
  /\ CertTypeOK

-----------------------------------------------------------------------------
Quiet == ForwardEnded /\ HttpEnded /\ UdpEnded

\* Whoever is through has left nothing behind: no socket, stream or session that
\* nobody will close; and when all are, the places of all clients are free again.
NothingLeft ==
  /\ \A u \in Users : ~ForwardLeft(u)
  /\ ~HttpLeft /\ ~UdpLeft /\ ~PortLeft
  /\ Quiet => globalConn = 0 /\ \A c \in Clients : nowConn[c] = 0

\* When the user or the service has gone, what is left of the connection goes too, at
\* every one of the goroutines between them; and Close of the shared port returns.
EverythingEnds ==
  []<>(ForwardOver /\ HttpOver => Quiet /\ PortEnded /\ CertEnded)
=============================================================================
