----------------------------- MODULE MCMuxStream -----------------------------
(* MuxStream as a byte stream: the refinement mapping and its checks.       *)
EXTENDS MuxStream

\* closedAt of the abstract stream before the writer closes
NotClosed == Total + 1

ClosedAt == IF sOnce \in {"none", "inform"} THEN NotClosed ELSE tail
Ended ==
  IF rIsClose \/ result = "timeout" THEN "aborted"
  ELSE IF result = "eof" THEN "eof" ELSE "open"

Stream == INSTANCE ByteStream WITH
  Open     <- NotClosed,
  sent     <- Pushed,
  closedAt <- ClosedAt,
  received <- got,
  ended    <- Ended

\* A mux connection is a reliable byte stream: conn.Write, Read and Close with
\* their windows, queues and tokens implement ByteStream, whose end of file
\* comes only after the whole tail (conn.go:311, TestMuxCloseDoesNotTruncateTail)
ImplementsByteStream == Stream!Spec
=============================================================================
