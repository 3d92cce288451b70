---------------------------- MODULE MCMuxSession ----------------------------
(* MuxSession with one or two connections and the faults each looks at.      *)
EXTENDS MuxSession

CONSTANTS c1, c2

Peaceful ==
  [opens |-> {c1}, muxClosers |-> {}, connClosers |-> {}, overflows |-> {}, timeouts |-> FALSE]

\* one connection; the tunnel of B fails or a write queue is full at any moment
Failing ==
  [Peaceful EXCEPT !.muxClosers = {"B"}, !.connClosers = {"B"}, !.overflows = Ends,
                    !.timeouts = TRUE]

\* two connections, closed by the user of A; NewConn may time out
TwoConns ==
  [Peaceful EXCEPT !.opens = {c1, c2}, !.connClosers = {"A"}, !.timeouts = TRUE]

Faults == {Failing, TwoConns}
NoFaults == {Peaceful}
=============================================================================
