-------------------------- MODULE ThrottledWriter --------------------------
(***************************************************************************)
(* throttledWriter (proxy.go:275-313): the copy of one response body at a  *)
(* capped rate.  io.Copy hands the writer the body in deliveries of        *)
(* whatever sizes the upstream's reads have; each becomes one call of      *)
(* Write, a loop of chunks and sleeps.  Time is counted in sleeps of one   *)
(* tick, a tenth of a second: the least time the copy can have taken.      *)
(***************************************************************************)
EXTENDS Naturals

CONSTANTS Rates,                \* the throttle_bps of rules
          Bodies,               \* the lengths of response bodies
          Deliveries(_, _)      \* rate, bytes left -> sizes a read may have

TicksPerSecond == 10

ASSUME ThrottleAssumption ==
  /\ Rates \subseteq Nat \ {0}
  /\ Bodies \subseteq Nat
  /\ \A bps \in Rates, body \in Bodies :
       \A left \in 1 .. body : Deliveries(bps, left) \subseteq 1 .. left

VARIABLES bps, body,    \* the rate and the length of the body
          left,         \* bytes the upstream has not delivered
          p,            \* bytes of the current delivery not yet written
          sent,         \* bytes the client's connection has taken
          ticks,        \* sleeps so far
          calls,        \* calls of Write so far
          pc            \* reading, writing, sleeping, failed or done

vars == <<bps, body, left, p, sent, ticks, calls, pc>>

\* A tenth of a second of budget, one byte at least.
Chunk == IF bps \div TicksPerSecond < 1 THEN 1 ELSE bps \div TicksPerSecond

\* What the next write of the loop is handed: n.
Slice == IF p > Chunk THEN Chunk ELSE p

Init ==
  /\ bps \in Rates /\ body \in Bodies
  /\ left = body /\ p = 0 /\ sent = 0 /\ ticks = 0 /\ calls = 0
  /\ pc = "reading"

\* io.Copy reads and calls Write, or meets the end of the body.
Deliver ==
  /\ pc = "reading" /\ left > 0
  /\ \E k \in Deliveries(bps, left) : p' = k /\ left' = left - k
  /\ calls' = calls + 1
  /\ pc' = "writing"
  /\ UNCHANGED <<bps, body, sent, ticks>>

EndOfBody ==
  /\ pc = "reading" /\ left = 0
  /\ pc' = "done"
  /\ UNCHANGED <<bps, body, left, p, sent, ticks, calls>>

\* Mutant of AfterWrite: a short write costs a tick, too.
AfterWriteAlways(size) == "sleeping"

\* Mutant of AfterWrite: the loop is not left at the end of a delivery.
AfterWriteLoop(size) == IF size = Chunk THEN "sleeping" ELSE "writing"

\* A full chunk costs a tick; then the rest of the delivery.
AfterWrite(size) ==
  IF size = Chunk THEN "sleeping" ELSE IF p > size THEN "writing" ELSE "reading"

WriteChunk ==
  /\ pc = "writing"
  /\ sent' = sent + Slice
  /\ p' = p - Slice
  /\ pc' = AfterWrite(Slice)
  /\ UNCHANGED <<bps, body, left, ticks, calls>>

\* The client has gone: some of the slice may still have been taken.
WriteFails ==
  /\ pc = "writing"
  /\ \E size \in 0 .. Slice : sent' = sent + size /\ p' = p - size
  /\ pc' = "failed"
  /\ UNCHANGED <<bps, body, left, ticks, calls>>

Sleep ==
  /\ pc = "sleeping"
  /\ ticks' = ticks + 1
  /\ pc' = IF p > 0 THEN "writing" ELSE "reading"
  /\ UNCHANGED <<bps, body, left, p, sent, calls>>

Copy == Deliver \/ EndOfBody \/ WriteChunk \/ Sleep

Next == Copy \/ WriteFails

Spec == Init /\ [][Next]_vars

\* The upstream's reads return and the copy runs on; the client need not go.
FairSpec == Spec /\ WF_vars(Copy)

---------------------------------------------------------------------------
(* Properties. *)

TypeOK ==
  /\ bps \in Rates /\ body \in Bodies
  /\ left \in Nat /\ p \in Nat /\ sent \in Nat /\ ticks \in Nat /\ calls \in Nat
  /\ sent + p + left = body
  /\ pc \in {"reading", "writing", "sleeping", "failed", "done"}
  /\ pc = "writing" => p > 0

\* Ticks the budget of the bytes sent so far has been charged.
Charged == IF pc = "sleeping" THEN ticks + 1 ELSE ticks

\* The sleeps never lag behind nor run ahead of the bytes by more than the
\* rounding of each call of Write: a tick is charged for every full chunk
\* (proxy.go:276-278), and a call loses less than a chunk.
PaceIsExact ==
  /\ Chunk * Charged <= sent
  /\ pc # "failed" => sent <= Chunk * Charged + (Chunk - 1) * calls

\* Every copy comes to an end, at any rate and for any deliveries.
CopyEnds == <>(pc \in {"done", "failed"})

\* "A body of B bytes takes ~B/bps seconds regardless of how the source
\* delivers it" (proxy.go:277-278), give or take a second.
TakesItsTime ==
  pc = "done" => bps * (ticks + TicksPerSecond) >= TicksPerSecond * body
=============================================================================
