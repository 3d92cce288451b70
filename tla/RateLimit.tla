----------------------------- MODULE RateLimit ------------------------------
(* The rate limit of a client (lib/rate): every Read and Write of a copied   *)
(* connection waits in Rate.Get until its bytes are paid for, burst by       *)
(* burst.  The burst is an int of the platform, and the program is released  *)
(* for platforms of 32 and of 64 bits (Makefile, CROSS_ARCHS).               *)
EXTENDS Integers, TLAPS

CONSTANTS WordSize, \* bits of an int
          limit,    \* Client.RateLimit: Mbit/s, 0 for none
          Size      \* the bytes of one Read or Write

VARIABLES size, \* what Get has still to wait for
          paid  \* history: what the limiter has let through

vars == <<size, paid>>

Half == IF WordSize = 32 THEN 2147483648 ELSE 9223372036854775808

\* conversion to an int: the low bits, of which the highest is the sign
AsInt(x) == ((x + Half) % (2 * Half)) - Half

\* bytes per second; without a limit "about 16 GiB/s"
rateLimitAddSize == IF limit = 0 THEN 17179869184 ELSE AsInt(limit * 1048576) \div 8

\* NewRate: the burst is the bytes of a second
Burst == AsInt(rateLimitAddSize)

\* one turn of the loop of Get waits for a burst at most
Chunk == IF size > Burst THEN Burst ELSE size

Init == size = Size /\ paid = 0

\* rateConn does not ask without a rate
Waiting == rateLimitAddSize > 0 /\ size > 0

WaitN ==
  /\ Waiting
  /\ size' = size - Chunk /\ paid' = paid + Chunk

Spec == Init /\ [][WaitN]_vars

-----------------------------------------------------------------------------
\* Without a limit there is a rate all the same, so that rateConn asks for it.
LEMMA RateWithoutLimit == limit = 0 => rateLimitAddSize > 0
BY SMT DEF rateLimitAddSize

\* On 32 bits 16 GiB leave nothing in an int, ...
LEMMA BurstWraps == ASSUME WordSize = 32, limit = 0 PROVE Burst = 0
<1>1. Half = 2147483648 /\ rateLimitAddSize = 17179869184
  BY DEF Half, rateLimitAddSize
<1>2. AsInt(17179869184) = 0
  BY <1>1, SMT DEF AsInt
<1> QED BY <1>1, <1>2 DEF Burst

\* ... and on 64 bits they fit.
LEMMA BurstFits == ASSUME WordSize = 64, limit = 0 PROVE Burst = 17179869184
<1>1. Half = 9223372036854775808 /\ rateLimitAddSize = 17179869184
  BY DEF Half, rateLimitAddSize
<1>2. AsInt(17179869184) = 17179869184
  BY <1>1, SMT DEF AsInt
<1> QED BY <1>1, <1>2 DEF Burst

\* A limit below 2 Gbit/s is the burst that was asked for, on both.
LEMMA BurstOfALimit ==
  ASSUME WordSize \in {32, 64}, limit \in 1..2047
  PROVE  Burst = limit * 131072 /\ rateLimitAddSize = Burst
<1>1. Half \in {2147483648, 9223372036854775808}
  BY DEF Half
<1>2. AsInt(limit * 1048576) = limit * 1048576
  BY <1>1, SMTT(60), ZenonT(60) DEF AsInt
<1>3. rateLimitAddSize = limit * 131072
  BY <1>2, SMT DEF rateLimitAddSize
<1>4. AsInt(limit * 131072) = limit * 131072
  BY <1>1, SMTT(60), ZenonT(60) DEF AsInt
<1> QED BY <1>3, <1>4 DEF Burst

-----------------------------------------------------------------------------
\* Without a limit Get lets no byte pass on 32 bits: its loop goes on for ever, waiting
\* for nothing each time, and no user's connection is forwarded.
THEOREM UnlimitedStalls ==
  ASSUME WordSize = 32, limit = 0, Size \in Nat \ {0}
  PROVE  Spec => [](Waiting /\ paid = 0)
<1> DEFINE Stalled == size = Size /\ paid = 0
<1>1. Init => Stalled
  BY DEF Init
<1>2. Stalled /\ [WaitN]_vars => Stalled'
  <2>1. CASE WaitN
    BY <2>1, BurstWraps, SMT DEF WaitN, Waiting, Chunk
  <2>2. CASE UNCHANGED vars
    BY <2>2 DEF vars
  <2> QED BY <2>1, <2>2
<1>3. Stalled => Waiting /\ paid = 0
  BY RateWithoutLimit, SMT DEF Waiting
<1> QED BY <1>1, <1>2, <1>3, PTL DEF Spec

\* A burst that an int holds: 64 bits, or a limit below 2 Gbit/s.
BurstIsRight == (WordSize = 64 /\ limit = 0) \/ (WordSize \in {32, 64} /\ limit \in 1..2047)

\* What Get has waited for and what it has still to wait for are the bytes it was asked for.
Accounted == size \in Nat /\ paid \in Nat /\ size + paid = Size

\* A turn of the loop takes some of the bytes, and no more than the limiter can grant.
LEMMA ChunkIsRight ==
  ASSUME BurstIsRight, size \in Nat \ {0}
  PROVE  Chunk \in 1..size /\ Chunk <= Burst
<1>1. Burst \in Nat \ {0}
  <2>1. CASE WordSize = 64 /\ limit = 0
    BY <2>1, BurstFits, SMT
  <2>2. CASE WordSize \in {32, 64} /\ limit \in 1..2047
    BY <2>2, BurstOfALimit, SMTT(60), ZenonT(60)
  <2> QED BY <2>1, <2>2 DEF BurstIsRight
<1> QED BY <1>1, SMT DEF Chunk

\* A turn moves bytes from those to wait for to those that were paid for.
LEMMA WaitNAccounts == Accounted /\ WaitN /\ BurstIsRight => Accounted' /\ size' < size
BY ChunkIsRight DEF Accounted, WaitN, Waiting

\* With such a burst, each byte is paid for once, whatever the size of the Read or Write.
THEOREM EveryBytePaid ==
  ASSUME BurstIsRight, Size \in Nat
  PROVE  Spec => []Accounted
<1>1. Init => Accounted
  BY DEF Init, Accounted
<1>2. Accounted /\ [WaitN]_vars => Accounted'
  BY WaitNAccounts DEF Accounted, vars
<1> QED BY <1>1, <1>2, PTL DEF Spec

Shrinks == size' < size

\* And every turn of Get's loop is a step towards its end.
THEOREM EveryTurnPays ==
  ASSUME BurstIsRight, Size \in Nat
  PROVE  Spec => [][Shrinks]_vars
<1>1. Accounted /\ [WaitN]_vars => [Shrinks]_vars
  BY WaitNAccounts DEF Shrinks
<1> QED BY <1>1, EveryBytePaid, PTL DEF Spec
=============================================================================
