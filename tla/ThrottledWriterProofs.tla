----------------------- MODULE ThrottledWriterProofs -----------------------
(***************************************************************************)
(* The pace of the throttled copy for any rates, bodies and deliveries.    *)
(***************************************************************************)
EXTENDS ThrottledWriter, TLAPS

\* A chunk is never empty, so the loop of Write moves on.
LEMMA ChunkIsPositive == ASSUME bps \in Rates PROVE Chunk \in Nat \ {0}
<1>1. bps \in Nat \ {0} BY ThrottleAssumption
<1>2. bps \div TicksPerSecond \in Nat BY <1>1 DEF TicksPerSecond
<1> QED BY <1>2 DEF Chunk

\* What a call that is not over may still lose: the calls before it have lost
\* less than a chunk each, and this one nothing so far.
Midway == pc = "writing" \/ (pc = "sleeping" /\ p > 0)
PaceMidway ==
  Midway => calls > 0 /\ sent <= Chunk * Charged + (Chunk - 1) * (calls - 1)

\* Between two deliveries, nothing of the last one is left.
Emptied == pc = "reading" => p = 0

Pace == TypeOK /\ Emptied /\ PaceIsExact /\ PaceMidway

---------------------------------------------------------------------------
\* A copy starts out with nothing sent and nothing charged.
LEMMA InitPace == Init => Pace
<1> SUFFICES ASSUME Init PROVE Pace OBVIOUS
<1>1. Chunk \in Nat \ {0} BY ChunkIsPositive DEF Init
<1>2. body \in Nat BY ThrottleAssumption DEF Init
<1>3. TypeOK BY <1>2 DEF Init, TypeOK
<1>4. Chunk * 0 = 0 /\ (Chunk - 1) * 0 = 0 BY <1>1
<1>5. Charged = 0 BY DEF Init, Charged
<1> QED BY <1>1, <1>3, <1>4, <1>5 DEF Init, Pace, Emptied, PaceIsExact, PaceMidway, Midway

\* Every step of the copy keeps the pace.
LEMMA PaceStep == ASSUME Pace, [Next]_vars PROVE Pace'
<1> DEFINE C == Chunk
<1>1. C \in Nat \ {0} BY ChunkIsPositive DEF Pace, TypeOK
<1>2. CASE UNCHANGED vars
  BY <1>2 DEF vars, Pace, TypeOK, Emptied, PaceIsExact, PaceMidway, Midway, Charged, Chunk
<1>3. CASE Next
  <2>1. bps' = bps /\ C' = C
    BY <1>3 DEF Next, Copy, Deliver, EndOfBody, WriteChunk, Sleep, WriteFails, Chunk
  <2>2. C' \in Nat \ {0} BY <1>1, <2>1
  <2> HIDE DEF C
  <2>3. CASE Deliver
    <3>1. PICK k \in Deliveries(bps, left) : p' = k /\ left' = left - k BY <2>3 DEF Deliver
    <3>2. k \in 1 .. left
      <4>1. left \in 1 .. body /\ bps \in Rates /\ body \in Bodies
        BY <2>3, ThrottleAssumption DEF Deliver, Pace, TypeOK
      <4> QED BY <4>1, <3>1, ThrottleAssumption
    <3>3. TypeOK' BY <2>3, <3>1, <3>2 DEF Deliver, Pace, TypeOK, Emptied
    <3>4. Charged' = Charged BY <2>3 DEF Deliver, Charged
    <3>5. (C - 1) * (calls + 1) = (C - 1) * calls + (C - 1) BY <1>1 DEF Pace, TypeOK
    <3> QED
      BY <2>3, <1>1, <2>1, <3>3, <3>4, <3>5
      DEF Deliver, Pace, Emptied, PaceIsExact, PaceMidway, Midway, TypeOK, Charged, C
  <2>4. CASE EndOfBody
    BY <2>4, <2>1 DEF EndOfBody, Pace, TypeOK, Emptied, PaceIsExact, PaceMidway, Midway, Charged, C
  <2>5. CASE WriteChunk
    <3>1. Slice \in 1 .. p /\ Slice <= C /\ (Slice < C => Slice = p)
      BY <2>5, <1>1 DEF WriteChunk, Slice, Pace, TypeOK, C
    <3>2. TypeOK' BY <2>5, <3>1 DEF WriteChunk, Pace, TypeOK, AfterWrite, C
    <3>3. C * (ticks + 1) = C * ticks + C /\ (C - 1) * calls = (C - 1) * (calls - 1) + (C - 1)
      BY <1>1 DEF Pace, TypeOK
    <3>4. Charged = ticks /\ Charged' = IF Slice = C THEN ticks + 1 ELSE ticks
      BY <2>5, <3>1 DEF WriteChunk, Charged, AfterWrite, C
    <3>5. CASE Slice = C
      BY <2>5, <2>1, <1>1, <3>1, <3>2, <3>3, <3>4, <3>5
      DEF WriteChunk, AfterWrite, Pace, TypeOK, Emptied, PaceIsExact, PaceMidway, Midway, C
    <3>6. CASE Slice < C
      BY <2>5, <2>1, <1>1, <3>1, <3>2, <3>3, <3>4, <3>6
      DEF WriteChunk, AfterWrite, Pace, TypeOK, Emptied, PaceIsExact, PaceMidway, Midway, C
    <3> QED BY <3>1, <3>5, <3>6, <1>1
  <2>6. CASE WriteFails
    <3>1. PICK size \in 0 .. Slice : sent' = sent + size /\ p' = p - size BY <2>6 DEF WriteFails
    <3>2. Slice \in 0 .. p BY <2>6, <1>1 DEF WriteFails, Slice, Pace, TypeOK, C
    <3>3. TypeOK' BY <2>6, <3>1, <3>2 DEF WriteFails, Pace, TypeOK
    <3>4. Charged' = Charged BY <2>6 DEF WriteFails, Charged
    <3> QED
      BY <2>6, <2>1, <1>1, <3>1, <3>2, <3>3, <3>4
      DEF WriteFails, Pace, TypeOK, Emptied, PaceIsExact, PaceMidway, Midway, Charged, C
  <2>7. CASE Sleep
    <3>1. TypeOK' BY <2>7 DEF Sleep, Pace, TypeOK
    <3>2. Charged' = Charged BY <2>7 DEF Sleep, Charged
    <3> QED
      BY <2>7, <2>1, <1>1, <3>1, <3>2
      DEF Sleep, Pace, TypeOK, Emptied, PaceIsExact, PaceMidway, Midway, C
  <2> QED BY <1>3, <2>3, <2>4, <2>5, <2>6, <2>7 DEF Next, Copy
<1> QED BY <1>2, <1>3

---------------------------------------------------------------------------
\* The inductive invariant.
LEMMA PaceInvariant == Spec => []Pace
<1> QED BY InitPace, PaceStep, PTL DEF Spec

\* The shape of the state; no byte of the body is lost or written twice.
THEOREM ThrottleTypeTheorem == Spec => []TypeOK
<1>1. Pace => TypeOK BY DEF Pace
<1> QED BY <1>1, PaceInvariant, PTL

\* At any rate, for any body and however the source cuts it, a tick is slept
\* for every full chunk and a call of Write loses less than one
\* (proxy.go:288-312).
THEOREM PaceTheorem == Spec => []PaceIsExact
<1>1. Pace => PaceIsExact BY DEF Pace
<1> QED BY <1>1, PaceInvariant, PTL
=============================================================================
