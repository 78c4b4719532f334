----------------------------- MODULE DecideLoop -----------------------------
(***************************************************************************)
(* engine.Decide as the loop it is: one step per rule, and the laws its    *)
(* comment states of the decision the loop ends with.                      *)
(***************************************************************************)
EXTENDS Engine

CONSTANTS RuleLists,    \* the rule lists Decide may be called on
          Counters,     \* the counters it may be called with
          Shapes        \* the request shapes: [method, path, header]

\* Scenario files are validated before a request is decided.
ASSUME RuleListsAssumption ==
  \A list \in RuleLists :
     /\ list \in Seq(Range(list))
     /\ \A k \in DOMAIN list :
          /\ list[k].fault \in Faults /\ validateFault(list[k].fault) = {}
          /\ list[k].rate # Nil => list[k].rate \in 0 .. RateScale

\* A counter is a uint64, and a draw lies between 0 and 1.
ASSUME CountersAssumption == Counters \subseteq 0 .. 2 * HalfWord - 1

ASSUME DrawAssumption ==
  \A name \in UNION {{list[k].name : k \in DOMAIN list} : list \in RuleLists},
     purpose \in {"rate", "jitter"}, counter \in 0 .. 2 * HalfWord - 1 :
     Draw(name, purpose, counter) \in 0 .. RateScale - 1

VARIABLES rules, n, req,    \* the arguments of the call
          i,                \* the next rule, from 1
          d                 \* the decision so far

vars == <<rules, n, req, i, d>>

Init ==
  /\ rules \in RuleLists
  /\ n \in Counters
  /\ req \in Shapes
  /\ i = 1
  /\ d = NoDecision

Done == i > Len(rules) \/ Terminal(d)

Continue ==
  /\ ~Done
  /\ ~ruleFires(rules[i], n, req)
  /\ i' = i + 1
  /\ UNCHANGED <<rules, n, req, d>>

Fire ==
  /\ ~Done
  /\ ruleFires(rules[i], n, req)
  /\ d' = Enact(d, rules[i], n)
  /\ i' = i + 1
  /\ UNCHANGED <<rules, n, req>>

Next == Continue \/ Fire

Spec == Init /\ [][Next]_vars

---------------------------------------------------------------------------
(* The decision without a loop, from the documents: determinism.md:66-68 *)
(* for rate and jitter, scenario-format.md:75-85 for the composition laws. *)

IsTerminal(r) == r.fault.status # 0 \/ r.fault.drop
IsThrottle(r) == r.fault.throttle_bps > 0

\* Rule k is asked for, and "a rule with rate r fires iff draw < r".
Fires(k) ==
  /\ InWindow(rules[k], n)
  /\ rules[k].match # Nil => Matches(rules[k].match, req)
  /\ Draw(rules[k].name, "rate", n) < EffectiveRate(rules[k])

\* "Extra delay is floor(draw * (jitter_ms + 1)) milliseconds."
Latency(k) ==
  rules[k].fault.delay_ms
    + (Draw(rules[k].name, "jitter", n) * (rules[k].fault.jitter_ms + 1)) \div RateScale

\* More than that cannot come of it.
LatencyBound(k) == rules[k].fault.delay_ms + rules[k].fault.jitter_ms + 1

\* The rules that have a say: they fire and no terminal fires above them.
Evaluated ==
  {k \in DOMAIN rules :
     Fires(k) /\ \A j \in 1 .. k - 1 : ~(Fires(j) /\ IsTerminal(rules[j]))}

\* The first rule of a kind among those that have a say, as a set.
FirstEvaluated(Kind(_)) ==
  {k \in Evaluated :
     Kind(rules[k]) /\ \A j \in Evaluated : j < k => ~Kind(rules[j])}

Delaying == {k \in Evaluated : Latency(k) > 0}

\* Milliseconds of the rules that have a say, added up in time.Duration.
Total(ms(_)) ==
  SumFunctionOnSet([k \in DOMAIN rules |-> ms(k) * Millisecond], Evaluated)

TypeOK ==
  /\ i \in 1 .. Len(rules) + 1
  /\ DOMAIN d = DOMAIN NoDecision
  /\ d.delay \in -HalfWord .. HalfWord - 1
  /\ d.drop \in BOOLEAN

\* "The first matching terminal fault (status or drop) wins and stops
\* evaluation" (engine.go:61-62): the decision carries the fault of the first
\* terminal that fires, whatever fires below it, and nothing else does.
FirstTerminalWins ==
  Done =>
    /\ Terminal(d) <=> \E k \in Evaluated : IsTerminal(rules[k])
    /\ \A k \in FirstEvaluated(IsTerminal) :
         LET f == rules[k].fault
         IN  IF f.status # 0
             THEN d.status = f.status /\ d.statusRule = rules[k].name /\ ~d.drop
             ELSE d.status = 0 /\ d.drop /\ d.dropRule = rules[k].name

\* "The first matching throttle wins; later throttles are ignored"
\* (engine.go:63), and a throttle below a terminal is never reached.
FirstThrottleWins ==
  Done =>
    /\ d.throttle_bps # 0 <=> \E k \in Evaluated : IsThrottle(rules[k])
    /\ \A k \in FirstEvaluated(IsThrottle) :
         /\ d.throttle_bps = rules[k].fault.throttle_bps
         /\ d.throttleRule = rules[k].name

\* "Delays accumulate - every matching delay/jitter rule adds latency"
\* (engine.go:60): if all that the rules with a say may ask for fits an int64,
\* the delay is to the nanosecond the sum of their delays and published
\* jitters, and DelayRules names, in file order, those that delay.
DelaysAccumulate ==
  Done /\ Total(LatencyBound) < HalfWord =>
    /\ d.delay = Total(Latency)
    /\ Len(d.delayRules) = Cardinality(Delaying)
    /\ \A k \in Delaying :
         d.delayRules[Cardinality({j \in Delaying : j <= k})] = rules[k].name

\* The same sentence without a reservation: no rule with a say is delayed by
\* less than it asks for.  Nothing bounds delay_ms in a file.
EveryRuleAddsLatency ==
  Done => \A k \in Evaluated : d.delay >= rules[k].fault.delay_ms * Millisecond

\* "Adding or removing one rule never changes another rule's decisions"
\* (engine.go:103-105): without a rule that has no say the decision is the same
\* one; without a rule that only delays or throttles the terminal stays, the
\* delay is short of that rule's (if it all fits an int64), and the throttle is
\* another's only if that rule's was the one.
RulesAreIndependent ==
  Done =>
    \A k \in DOMAIN rules :
       LET without == Decide(RemoveAt(rules, k), n, req)
       IN  /\ k \notin Evaluated => without = d
           /\ k \in Evaluated /\ ~IsTerminal(rules[k]) =>
                /\ without.status = d.status /\ without.statusRule = d.statusRule
                /\ without.drop = d.drop /\ without.dropRule = d.dropRule
                /\ Total(LatencyBound) < HalfWord =>
                     d.delay = without.delay + Latency(k) * Millisecond
                /\ k \notin FirstEvaluated(IsThrottle) =>
                     /\ without.throttle_bps = d.throttle_bps
                     /\ without.throttleRule = d.throttleRule
=============================================================================
