------------------------------ MODULE MCProxy -------------------------------
(* Proxy with a handful of loads, each aimed at what one part finds hard.    *)
EXTENDS Proxy

CONSTANTS a, b \* two clients

Nothing ==
  [maxConn |-> 1, maxGlobal |-> 1, exceeds |-> FALSE, denied |-> FALSE, users |-> <<>>,
   hosts |-> <<>>, packets |-> 0, ports |-> 0, flips |-> 0,
   tls |-> <<>>, certs |-> <<>>, changes |-> 0]

Kinds == {"tcp", "trans", "local", "http", "https", "socks", "assoc", "ss", "ssudp", "ws",
          "shell"}

\* every kind of user alone, and pairs that compete for one limit or one worker
Single == {[Nothing EXCEPT !.users = <<k>>, !.exceeds = TRUE] : k \in Kinds}
Paired ==
  {[Nothing EXCEPT !.users = <<"local", "http">>, !.maxConn = 2, !.maxGlobal = 0],
   [Nothing EXCEPT !.users = <<"socks", "tcp">>, !.maxConn = 2],
   [Nothing EXCEPT !.users = <<"local", "ss">>],
   [Nothing EXCEPT !.users = <<"ws", "https">>]}

\* somebody the client's white list does not name
Unlisted == {[Nothing EXCEPT !.users = <<k>>, !.denied = TRUE] : k \in {"tcp", "local"}}

\* a connection kept alive from one client's host to another's and back, while a
\* tunnel of the first takes that client's only place
KeptAlive ==
  {[Nothing EXCEPT !.hosts = <<a, b, b>>, !.exceeds = TRUE],
   [Nothing EXCEPT !.hosts = <<a, b>>, !.users = <<"local">>]}

Datagram ==
  {[Nothing EXCEPT !.packets = 2, !.exceeds = TRUE],
   [Nothing EXCEPT !.packets = 1, !.users = <<"local">>]}
Shared == {[Nothing EXCEPT !.ports = 2]}
\* connections to one host whose certificate may change, to two hosts that share one,
\* and to a host with a pair of certificate and key that do not go together
Certified ==
  {[Nothing EXCEPT !.tls = <<1, 1, 1>>, !.certs = <<"one">>, !.changes = 1],
   [Nothing EXCEPT !.tls = <<1, 2>>, !.certs = <<"one", "one">>, !.changes = 1],
   [Nothing EXCEPT !.tls = <<1, 1>>, !.certs = <<"bad">>]}
Checked == {[Nothing EXCEPT !.flips = 3]}

\* a SOCKS5 user beside a plain one
SocksLoads == {[Nothing EXCEPT !.users = <<"socks", "tcp">>]}

TestLoads == Single \cup Unlisted \cup Paired \cup KeptAlive \cup Datagram \cup Shared
             \cup Certified \cup Checked
=============================================================================
