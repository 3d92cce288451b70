------------------------------ MODULE ByteStream ------------------------------
(***************************************************************************)
(* What one direction of a mux connection promises to the applications at  *)
(* its ends: the bytes come out in the order they went in, none twice and  *)
(* none skipped, and end of file only after every byte that was handed     *)
(* over before Close.  Bytes are numbered 1, 2, 3, ...                     *)
(***************************************************************************)
EXTENDS Naturals, Sequences

CONSTANT Open   \* closedAt while the writer has not closed

VARIABLES
  sent,      \* number of bytes handed over by Write
  closedAt,  \* the value of sent when the writer closed
  received,  \* the bytes Read returned, in order
  ended      \* "open", "eof", or "aborted": the reading end gave up by itself

vars == <<sent, closedAt, received, ended>>

Init == sent = 0 /\ closedAt = Open /\ received = <<>> /\ ended = "open"

\* a Write that is under way at Close may still send: nothing is promised for it
Send == sent' > sent /\ UNCHANGED <<closedAt, received, ended>>

CloseWriter ==
  /\ closedAt = Open /\ closedAt' = sent
  /\ UNCHANGED <<sent, received, ended>>

Deliver ==
  /\ ended = "open"
  /\ \E n \in Len(received)+1 .. sent : received' = [i \in 1..n |-> i]
  /\ UNCHANGED <<sent, closedAt, ended>>

EndOfFile ==
  /\ ended = "open" /\ closedAt # Open /\ Len(received) >= closedAt
  /\ ended' = "eof"
  /\ UNCHANGED <<sent, closedAt, received>>

\* local Close or read deadline: the rest of the stream is given up
Abort == ended' = "aborted" /\ UNCHANGED <<sent, closedAt>>

Next == Send \/ CloseWriter \/ Deliver \/ EndOfFile \/ Abort

Spec == Init /\ [][Next]_vars
=============================================================================
