------------------------------- MODULE Engine -------------------------------
(***************************************************************************)
(* internal/engine: the decision for one request, a function of the rules  *)
(* of a proxy, the request counter and the shape of the request.  The seed *)
(* and the proxy's name are fixed, so a draw depends on the rule, the      *)
(* purpose and the counter.                                                *)
(***************************************************************************)
EXTENDS Scenario

CONSTANTS Draw(_, _, _),  \* seeded.Draw(rule, purpose, counter), out of RateScale
          HalfWord,       \* an int64 lies in -HalfWord .. HalfWord - 1
          Millisecond     \* time.Millisecond in units of time.Duration

ASSUME EngineAssumption ==
  HalfWord \in Nat \ {0} /\ Millisecond \in Nat \ {0}

\* Mutant of Wrap: the word is taken to be unsigned.
WrapUnsigned(x) == x % (2 * HalfWord)

Wrap(x) == ((x + HalfWord) % (2 * HalfWord)) - HalfWord

\* Conversion of x / RateScale to an integer truncates.
Truncate(x) == IF x >= 0 THEN x \div RateScale ELSE -((-x) \div RateScale)

\* Mutant of DrawInt: the draw is spread over max buckets.
DrawIntShort(r, n, max) ==
  IF max <= 0 THEN 0 ELSE Truncate(Draw(r.name, "jitter", n) * max)

DrawInt(r, n, max) ==
  IF max <= 0 THEN 0
  ELSE LET v == Truncate(Draw(r.name, "jitter", n) * Wrap(max + 1))
       IN  IF v > max THEN max ELSE v

---------------------------------------------------------------------------
\* Mutant of ruleFires: a draw equal to the rate fires.
ruleFiresAtRate(r, n, req) ==
  /\ InWindow(r, n)
  /\ r.match # Nil => Matches(r.match, req)
  /\ Draw(r.name, "rate", n) <= EffectiveRate(r)

ruleFires(r, n, req) ==
  /\ InWindow(r, n)
  /\ r.match # Nil => Matches(r.match, req)
  /\ \/ EffectiveRate(r) >= RateScale
     \/ /\ EffectiveRate(r) > 0
        /\ Draw(r.name, "rate", n) < EffectiveRate(r)

NoDecision ==
  [delay |-> 0, delayRules |-> <<>>, status |-> 0, statusRule |-> Nil,
   drop |-> FALSE, dropRule |-> Nil, throttle_bps |-> 0, throttleRule |-> Nil]

\* Mutant of Terminal: an injected status does not stop the loop.
TerminalDropOnly(d) == d.drop

Terminal(d) == d.status # 0 \/ d.drop

\* What a firing rule does to the decision so far: delay, throttle, terminal.
RuleDelay(r, n) ==
  IF r.fault.jitter_ms > 0
  THEN Wrap(r.fault.delay_ms + DrawInt(r, n, r.fault.jitter_ms))
  ELSE r.fault.delay_ms

AddDelay(d, r, n) ==
  IF RuleDelay(r, n) > 0
  THEN [d EXCEPT !.delay      = Wrap(@ + Wrap(RuleDelay(r, n) * Millisecond)),
                 !.delayRules = Append(@, r.name)]
  ELSE d

\* Mutant of SetThrottle: the last throttle wins.
SetThrottleLast(d, r) ==
  IF r.fault.throttle_bps > 0
  THEN [d EXCEPT !.throttle_bps = r.fault.throttle_bps, !.throttleRule = r.name]
  ELSE d

SetThrottle(d, r) ==
  IF r.fault.throttle_bps > 0 /\ d.throttle_bps = 0
  THEN [d EXCEPT !.throttle_bps = r.fault.throttle_bps, !.throttleRule = r.name]
  ELSE d

SetTerminal(d, r) ==
  IF r.fault.status # 0
  THEN [d EXCEPT !.status = r.fault.status, !.statusRule = r.name]
  ELSE IF r.fault.drop
  THEN [d EXCEPT !.drop = TRUE, !.dropRule = r.name]
  ELSE d

Enact(d, r, n) == SetTerminal(SetThrottle(AddDelay(d, r, n), r), r)

\* Mutant of Decide: the loop goes on behind a terminal.
DecideWithoutBreak(rules, n, req) ==
  FoldLeft(LAMBDA d, r : IF ruleFires(r, n, req) THEN Enact(d, r, n) ELSE d,
           NoDecision, rules)

\* The whole loop over the rules, in file order, up to the first terminal.
Decide(rules, n, req) ==
  FoldLeft(LAMBDA d, r : IF ~Terminal(d) /\ ruleFires(r, n, req)
                         THEN Enact(d, r, n) ELSE d,
           NoDecision, rules)
=============================================================================
