----------------------------- MODULE PlanProofs -----------------------------
(***************************************************************************)
(* Proofs about Decide's loop and the plan command, for any rule lists,    *)
(* requests, counters and draws: what the loop's decision is, that it is   *)
(* the one the proxy acts out, and that a plan's rows are the live ones.   *)
(***************************************************************************)
EXTENDS PlanLoop, Numbers, SequenceTheorems, FiniteSetTheorems, TLAPS

---------------------------------------------------------------------------
(* A decision and what a rule does to it, field by field. *)

IsDecision(dec) ==
  dec = [delay |-> dec.delay, delayRules |-> dec.delayRules,
         status |-> dec.status, statusRule |-> dec.statusRule,
         drop |-> dec.drop, dropRule |-> dec.dropRule,
         throttle_bps |-> dec.throttle_bps, throttleRule |-> dec.throttleRule]

\* e is dec after rule r: the delay and its rules are AddDelay's, the throttle
\* is the rule's if there was none, the terminal is the rule's if it has one.
Enacted(e, dec, r, c) ==
  LET status == r.fault.status # 0
      drop == ~status /\ r.fault.drop
      throttle == r.fault.throttle_bps > 0 /\ dec.throttle_bps = 0
  IN  /\ IsDecision(e)
      /\ e.delay = AddDelay(dec, r, c).delay
      /\ e.delayRules = AddDelay(dec, r, c).delayRules
      /\ e.status = IF status THEN r.fault.status ELSE dec.status
      /\ e.statusRule = IF status THEN r.name ELSE dec.statusRule
      /\ e.drop = IF drop THEN TRUE ELSE dec.drop
      /\ e.dropRule = IF drop THEN r.name ELSE dec.dropRule
      /\ e.throttle_bps = IF throttle THEN r.fault.throttle_bps ELSE dec.throttle_bps
      /\ e.throttleRule = IF throttle THEN r.name ELSE dec.throttleRule

\* That is what Enact does.
LEMMA EnactFields ==
  ASSUME NEW dec, IsDecision(dec), NEW r, NEW c
  PROVE  Enacted(Enact(dec, r, c), dec, r, c)
<1> DEFINE a == AddDelay(dec, r, c)
           b == SetThrottle(a, r)
           e == SetTerminal(b, r)
<1>1. /\ IsDecision(a)
      /\ a.status = dec.status /\ a.statusRule = dec.statusRule
      /\ a.drop = dec.drop /\ a.dropRule = dec.dropRule
      /\ a.throttle_bps = dec.throttle_bps /\ a.throttleRule = dec.throttleRule
  BY DEF AddDelay, IsDecision
<1> HIDE DEF a
<1>2. /\ IsDecision(b)
      /\ b.delay = a.delay /\ b.delayRules = a.delayRules
      /\ b.status = a.status /\ b.statusRule = a.statusRule
      /\ b.drop = a.drop /\ b.dropRule = a.dropRule
      /\ b.throttle_bps = IF r.fault.throttle_bps > 0 /\ a.throttle_bps = 0
                          THEN r.fault.throttle_bps ELSE a.throttle_bps
      /\ b.throttleRule = IF r.fault.throttle_bps > 0 /\ a.throttle_bps = 0
                          THEN r.name ELSE a.throttleRule
  BY <1>1 DEF SetThrottle, IsDecision
<1> HIDE DEF b
<1>3. /\ IsDecision(e)
      /\ e.delay = b.delay /\ e.delayRules = b.delayRules
      /\ e.throttle_bps = b.throttle_bps /\ e.throttleRule = b.throttleRule
      /\ e.status = IF r.fault.status # 0 THEN r.fault.status ELSE b.status
      /\ e.statusRule = IF r.fault.status # 0 THEN r.name ELSE b.statusRule
      /\ e.drop = IF r.fault.status = 0 /\ r.fault.drop THEN TRUE ELSE b.drop
      /\ e.dropRule = IF r.fault.status = 0 /\ r.fault.drop THEN r.name ELSE b.dropRule
  BY <1>2 DEF SetTerminal, IsDecision
<1>4. Enact(dec, r, c) = e
  BY DEF Enact, a, b
<1> HIDE DEF e
<1> QED
  BY <1>1, <1>2, <1>3, <1>4 DEF a, Enacted

---------------------------------------------------------------------------
(* The counters. *)

\* They are words, and the rows a sequence.
CounterInv ==
  /\ from \in 0 .. Word - 1
  /\ n \in 0 .. Word - 1
  /\ entries \in Seq(Range(entries))

\* That holds of every plan.
THEOREM CounterTheorem == PlanSpec => []CounterInv
<1>0. Word \in Nat \ {0}
  BY EngineAssumption DEF Word
<1>1. PlanInit => CounterInv
  BY <1>0, CountersAssumption DEF PlanInit, Init, CounterInv, Word
<1>2. CounterInv /\ [PlanNext]_allVars => CounterInv'
  <2> SUFFICES ASSUME CounterInv, [PlanNext]_allVars PROVE CounterInv'
    OBVIOUS
  <2>1. CASE DecideStep \/ Footer \/ UNCHANGED allVars
    <3>1. n' = n /\ from' = from /\ entries' = entries
      BY <2>1 DEF DecideStep, Next, Continue, Fire, Footer, allVars, planVars, vars
    <3> QED
      BY <3>1 DEF CounterInv
  <2>2. CASE AppendEntry
    <3> DEFINE e == [counter |-> n, decision |-> d]
    <3>1. /\ from' = from /\ entries' = Append(entries, e)
          /\ n' = (from + (Len(entries) + 1)) % Word
      BY <2>2 DEF AppendEntry, NextCounter
    <3>2. /\ Len(entries') = Len(entries) + 1 /\ Len(entries) \in Nat
          /\ DOMAIN entries' = 1 .. Len(entries) + 1
      BY <3>1 DEF CounterInv
    <3>3. entries' \in Seq(Range(entries'))
      <4>1. \A k \in 1 .. Len(entries) + 1 : entries'[k] \in Range(entries')
        BY <3>2 DEF Range
      <4>2. entries' = [k \in 1 .. Len(entries) + 1 |-> entries'[k]]
        BY <3>1, <3>2 DEF CounterInv
      <4> QED
        BY <3>2, <4>1, <4>2
    <3>4. n' \in 0 .. Word - 1
      BY <1>0, <3>1, <3>2 DEF CounterInv
    <3> QED
      BY <3>1, <3>3, <3>4 DEF CounterInv
  <2> QED
    BY <2>1, <2>2 DEF PlanNext
<1> QED
  BY <1>1, <1>2, PTL DEF PlanSpec

---------------------------------------------------------------------------
(* The loop. *)

\* Rule k is not a terminal that fires.
LetsOn(k) == ~(Fires(k) /\ IsTerminal(rules[k]))

\* Where the loop stands: the rules above the one looked at last let it on,
\* and that one made the decision terminal or did not.
Progress ==
  /\ rules \in RuleLists
  /\ i \in 1 .. Len(rules) + 1
  /\ IsDecision(d)
  /\ \A k \in 1 .. i - 2 : LetsOn(k)

\* A decision is terminal by the last rule looked at, whose fault it carries.
Terminals ==
  IF i > 1 /\ ~LetsOn(i - 1)
  THEN LET f == rules[i - 1].fault
       IN  IF f.status # 0
           THEN d.status = f.status /\ d.statusRule = rules[i - 1].name /\ d.drop = FALSE
           ELSE d.status = 0 /\ d.drop = TRUE /\ d.dropRule = rules[i - 1].name
  ELSE d.status = 0 /\ d.drop = FALSE

\* The throttle is that of the first rule looked at that fires and has one.
Throttles ==
  IF d.throttle_bps = 0
  THEN \A k \in 1 .. i - 1 : ~(Fires(k) /\ IsThrottle(rules[k]))
  ELSE \E k \in 1 .. i - 1 :
          /\ Fires(k) /\ IsThrottle(rules[k])
          /\ \A j \in 1 .. k - 1 : ~(Fires(j) /\ IsThrottle(rules[j]))
          /\ d.throttle_bps = rules[k].fault.throttle_bps
          /\ d.throttleRule = rules[k].name

LoopInv == Progress /\ Terminals /\ Throttles

\* A rule list is a sequence of rules with faults.
LEMMA RulesTyped ==
  ASSUME rules \in RuleLists
  PROVE  /\ Len(rules) \in Nat /\ DOMAIN rules = 1 .. Len(rules)
         /\ \A k \in 1 .. Len(rules) : rules[k].fault \in Faults
<1>1. rules \in Seq(Range(rules)) /\ \A k \in DOMAIN rules : rules[k].fault \in Faults
  BY RuleListsAssumption
<1> QED
  BY <1>1

\* Draws are fractions.
LEMMA DrawsTyped ==
  ASSUME rules \in RuleLists, n \in 0 .. Word - 1, NEW k \in DOMAIN rules
  PROVE  /\ Draw(rules[k].name, "rate", n) \in 0 .. RateScale - 1
         /\ Draw(rules[k].name, "jitter", n) \in 0 .. RateScale - 1
<1> DEFINE Names == UNION {{list[j].name : j \in DOMAIN list} : list \in RuleLists}
<1>1. rules[k].name \in Names
  OBVIOUS
<1>2. n \in 0 .. 2 * HalfWord - 1
  BY DEF Word
<1> QED
  BY <1>1, <1>2, DrawAssumption, Zenon

\* "A rule with rate r fires iff draw < r": the short cuts of the code for the
\* rates 0 and 1 agree with that.
LEMMA FiresByDraw ==
  ASSUME rules \in RuleLists, n \in 0 .. Word - 1, NEW k \in DOMAIN rules
  PROVE  ruleFires(rules[k], n, req) <=> Fires(k)
<1> DEFINE draw == Draw(rules[k].name, "rate", n)
<1>1. draw \in 0 .. RateScale - 1 /\ RateScale \in Nat
  BY DrawsTyped, RateScaleAssumption
<1>2. EffectiveRate(rules[k]) \in 0 .. RateScale
  BY RuleListsAssumption, RateScaleAssumption DEF EffectiveRate
<1> HIDE DEF draw
<1>3. draw < EffectiveRate(rules[k]) <=>
        \/ EffectiveRate(rules[k]) >= RateScale
        \/ EffectiveRate(rules[k]) > 0 /\ draw < EffectiveRate(rules[k])
  BY <1>1, <1>2
<1> QED
  BY <1>3, Zenon DEF ruleFires, Fires, draw

\* The loop's invariant holds when it starts, for whatever arguments.
LEMMA LoopStart ==
  ASSUME rules \in RuleLists, i = 1, d = NoDecision
  PROVE  LoopInv
<1>1. Progress
  BY RulesTyped DEF Progress, IsDecision, NoDecision
<1>2. Terminals /\ Throttles
  BY DEF Terminals, Throttles, NoDecision
<1> QED
  BY <1>1, <1>2 DEF LoopInv

\* A step over a rule preserves it.
LEMMA LoopStep ==
  ASSUME LoopInv, CounterInv, Next
  PROVE  LoopInv'
<1>0. ruleFires(rules[i], n, req) <=> Fires(i)
  <2>1. rules \in RuleLists /\ n \in 0 .. Word - 1 /\ i \in DOMAIN rules
    BY RulesTyped DEF LoopInv, Progress, CounterInv, Next, Continue, Fire, Done
  <2> QED
    BY <2>1, FiresByDraw
<1>1. /\ rules' = rules /\ n' = n /\ req' = req /\ i' = i + 1
      /\ i \in 1 .. Len(rules) /\ ~Terminal(d) /\ Len(rules) \in Nat
      /\ rules \in RuleLists /\ rules[i].fault \in Faults
  BY RulesTyped DEF LoopInv, Progress, Next, Continue, Fire, Done
<1>2. \A k : (Fires(k)' <=> Fires(k)) /\ (LetsOn(k)' <=> LetsOn(k))
  BY <1>1 DEF Fires, LetsOn
<1>3. LetsOn(i - 1) \/ i = 1
  BY <1>1 DEF LoopInv, Terminals, Terminal, LetsOn, IsTerminal
<1>4. \A k \in 1 .. i' - 2 : LetsOn(k)'
  BY <1>1, <1>2, <1>3 DEF LoopInv, Progress
<1>5. i' - 1 = i /\ 1 .. i' - 1 = 1 .. i - 1 \cup {i}
  BY <1>1
<1>6. d.status = 0 /\ d.drop = FALSE
  BY <1>1, <1>3 DEF LoopInv, Terminals
<1>7. CASE Continue
  <2>1. d' = d /\ ~Fires(i)
    BY <1>0, <1>7 DEF Continue
  <2>2. Progress'
    BY <1>1, <1>4, <2>1 DEF LoopInv, Progress, IsDecision
  <2>3. Terminals'
    BY <1>1, <1>2, <1>5, <1>6, <2>1 DEF Terminals, LetsOn
  <2>4. Throttles'
    BY <1>1, <1>2, <1>5, <2>1 DEF LoopInv, Throttles
  <2> QED
    BY <2>2, <2>3, <2>4 DEF LoopInv
<1>8. CASE Fire
  <2> DEFINE r == rules[i]
  <2>1. d' = Enact(d, r, n) /\ Fires(i)
    BY <1>0, <1>8 DEF Fire
  <2>2. IsDecision(d)
    BY DEF LoopInv, Progress
  <2>3. Enacted(d', d, r, n)
    BY <2>1, <2>2, EnactFields
  <2>4. Progress'
    <3>1. IsDecision(d')
      BY <2>3 DEF Enacted
    <3> QED
      BY <1>1, <1>4, <3>1 DEF Progress, IsDecision
  <2>5. Terminals'
    <3>1. /\ d'.status = IF r.fault.status # 0 THEN r.fault.status ELSE 0
          /\ r.fault.status # 0 => d'.statusRule = r.name
          /\ d'.drop = (r.fault.status = 0 /\ r.fault.drop)
          /\ r.fault.status = 0 /\ r.fault.drop => d'.dropRule = r.name
      BY <1>6, <2>3 DEF Enacted
    <3>2. LetsOn(i) <=> r.fault.status = 0 /\ ~r.fault.drop
      BY <2>1 DEF LetsOn, IsTerminal
    <3>3. i' > 1 /\ rules'[i' - 1] = r /\ (LetsOn(i - 1)' <=> LetsOn(i))
      BY <1>1, <1>5 DEF LetsOn, Fires
    <3> QED
      BY <1>1, <3>1, <3>2, <3>3 DEF Terminals, Faults
  <2>6. Throttles'
    <3>1. CASE d.throttle_bps = 0 /\ IsThrottle(r)
      <4>1. d'.throttle_bps = r.fault.throttle_bps /\ d'.throttleRule = r.name
        BY <2>3, <3>1 DEF Enacted, IsThrottle
      <4>2. d'.throttle_bps # 0
        BY <1>1, <3>1, <4>1 DEF IsThrottle, Faults
      <4>3. \A j \in 1 .. i - 1 : ~(Fires(j) /\ IsThrottle(rules[j]))
        BY <3>1 DEF LoopInv, Throttles
      <4> QED
        BY <1>1, <1>2, <1>5, <2>1, <3>1, <4>1, <4>2, <4>3 DEF Throttles
    <3>2. CASE ~(d.throttle_bps = 0 /\ IsThrottle(r))
      <4>1. d'.throttle_bps = d.throttle_bps /\ d'.throttleRule = d.throttleRule
        BY <2>3, <3>2 DEF Enacted, IsThrottle
      <4> QED
        BY <1>1, <1>2, <1>5, <3>2, <4>1 DEF LoopInv, Throttles
    <3> QED
      BY <3>1, <3>2
  <2> QED
    BY <2>4, <2>5, <2>6 DEF LoopInv
<1> QED
  BY <1>7, <1>8 DEF Next

\* Every plan goes through the loop row by row: LoopInv holds throughout.
THEOREM LoopTheorem == PlanSpec => []LoopInv
<1>1. PlanInit => LoopInv
  BY LoopStart DEF PlanInit, Init
<1>2. LoopInv /\ CounterInv /\ [PlanNext]_allVars => LoopInv'
  <2> SUFFICES ASSUME LoopInv, CounterInv, [PlanNext]_allVars PROVE LoopInv'
    OBVIOUS
  <2>1. CASE DecideStep
    BY <2>1, LoopStep DEF DecideStep
  <2>2. CASE AppendEntry
    <3>1. (rules \in RuleLists /\ i = 1 /\ d = NoDecision)'
      BY <2>2 DEF AppendEntry, LoopInv, Progress
    <3> QED
      BY <3>1, LoopStart, PTL
  <2>3. CASE UNCHANGED vars
    BY <2>3 DEF vars, LoopInv, Progress, Terminals, Throttles, LetsOn, Fires, IsDecision
  <2> QED
    BY <2>1, <2>2, <2>3 DEF PlanNext, Footer, allVars
<1> QED
  BY <1>1, <1>2, CounterTheorem, PTL DEF PlanSpec

---------------------------------------------------------------------------
(* What the loop ends with. *)

\* When the loop is done, the rules with a say are those looked at that fire.
LEMMA EvaluatedAtEnd ==
  ASSUME LoopInv, Done
  PROVE  Evaluated = {k \in 1 .. i - 1 : Fires(k)}
<1>1. /\ i \in 1 .. Len(rules) + 1 /\ Len(rules) \in Nat
      /\ DOMAIN rules = 1 .. Len(rules)
      /\ \A k \in 1 .. i - 2 : LetsOn(k)
  BY RulesTyped DEF LoopInv, Progress
<1>2. i = Len(rules) + 1 \/ (i > 1 /\ ~LetsOn(i - 1))
  BY <1>1 DEF LoopInv, Done, Terminals, Terminal
<1>3. ASSUME NEW k \in 1 .. Len(rules)
      PROVE  (\A j \in 1 .. k - 1 : LetsOn(j)) <=> k \in 1 .. i - 1
  BY <1>1, <1>2
<1> QED
  BY <1>1, <1>3 DEF Evaluated, LetsOn

\* "The first matching terminal fault wins and stops evaluation", for any
\* rules: the decision carries the fault of the first terminal that fires.
THEOREM FirstTerminalTheorem == PlanSpec => []FirstTerminalWins
<1>1. LoopInv => FirstTerminalWins
  <2> SUFFICES ASSUME LoopInv, Done PROVE FirstTerminalWins
    BY DEF FirstTerminalWins
  <2>1. /\ i \in 1 .. Len(rules) + 1 /\ Len(rules) \in Nat
        /\ \A k \in 1 .. i - 2 : LetsOn(k)
    BY RulesTyped DEF LoopInv, Progress
  <2>2. Evaluated = {k \in 1 .. i - 1 : Fires(k)}
    BY EvaluatedAtEnd
  <2>3. \A k \in Evaluated : IsTerminal(rules[k]) => k = i - 1
    BY <2>1, <2>2 DEF LetsOn
  <2>4. Terminal(d) <=> i > 1 /\ ~LetsOn(i - 1)
    BY DEF LoopInv, Terminals, Terminal, LetsOn, IsTerminal
  <2>5. Terminal(d) <=> \E k \in Evaluated : IsTerminal(rules[k])
    BY <2>1, <2>2, <2>3, <2>4 DEF LetsOn
  <2>6. ASSUME NEW k \in FirstEvaluated(IsTerminal)
        PROVE  LET f == rules[k].fault
               IN  IF f.status # 0
                   THEN d.status = f.status /\ d.statusRule = rules[k].name /\ ~d.drop
                   ELSE d.status = 0 /\ d.drop /\ d.dropRule = rules[k].name
    <3>1. k = i - 1 /\ i > 1 /\ ~LetsOn(i - 1)
      BY <2>1, <2>2, <2>3, <2>6 DEF FirstEvaluated, LetsOn
    <3> QED
      BY <3>1 DEF LoopInv, Terminals
  <2> QED
    BY <2>5, <2>6 DEF FirstTerminalWins
<1> QED
  BY <1>1, LoopTheorem, PTL

\* "The first matching throttle wins; later throttles are ignored."
THEOREM FirstThrottleTheorem == PlanSpec => []FirstThrottleWins
<1>1. LoopInv => FirstThrottleWins
  <2> SUFFICES ASSUME LoopInv, Done PROVE FirstThrottleWins
    BY DEF FirstThrottleWins
  <2>1. i \in 1 .. Len(rules) + 1 /\ Len(rules) \in Nat
    BY RulesTyped DEF LoopInv, Progress
  <2>2. Evaluated = {k \in 1 .. i - 1 : Fires(k)}
    BY EvaluatedAtEnd
  <2>3. d.throttle_bps # 0 <=> \E k \in Evaluated : IsThrottle(rules[k])
    BY <2>2 DEF LoopInv, Throttles
  <2>4. ASSUME NEW k \in FirstEvaluated(IsThrottle)
        PROVE  /\ d.throttle_bps = rules[k].fault.throttle_bps
               /\ d.throttleRule = rules[k].name
    <3>1. /\ k \in 1 .. i - 1 /\ Fires(k) /\ IsThrottle(rules[k])
          /\ \A j \in 1 .. i - 1 : Fires(j) /\ j < k => ~IsThrottle(rules[j])
      BY <2>2 DEF FirstEvaluated
    <3>2. PICK j \in 1 .. i - 1 :
             /\ Fires(j) /\ IsThrottle(rules[j])
             /\ \A m \in 1 .. j - 1 : ~(Fires(m) /\ IsThrottle(rules[m]))
             /\ d.throttle_bps = rules[j].fault.throttle_bps
             /\ d.throttleRule = rules[j].name
      BY <3>1 DEF LoopInv, Throttles
    <3>3. j = k
      BY <2>1, <3>1, <3>2
    <3> QED
      BY <3>2, <3>3
  <2> QED
    BY <2>3, <2>4 DEF FirstThrottleWins
<1> QED
  BY <1>1, LoopTheorem, PTL

---------------------------------------------------------------------------
(* Decide as a function is the loop. *)

NoDecisionYet(c) == NoDecision

\* The turn of rule k in a call c of Decide with a list, a counter and a request.
RuleTurn(c, dec, k) ==
  IF ~Terminal(dec) /\ ruleFires(c[1][k], c[2], c[3]) THEN Enact(dec, c[1][k], c[2]) ELSE dec

Turns == INSTANCE FoldLaws WITH Base <- NoDecisionYet, Step <- RuleTurn, Pick <- Max

\* Decide takes the turns of all rules.
LEMMA DecideIsFold ==
  ASSUME NEW list, NEW c, NEW q, Len(list) \in Nat, DOMAIN list = 1 .. Len(list)
  PROVE  Decide(list, c, q) = Turns!FoldUpTo(<<list, c, q>>, Len(list), Len(list))
  BY DEF Decide, FoldLeft, MapThenFoldSet, Turns!FoldUpTo, Turns!Fold, Turns!IsFold,
         RuleTurn, NoDecisionYet

\* What the first k turns of a call make.
After(list, c, q, k) == Turns!FoldUpTo(<<list, c, q>>, Len(list), k)

\* The equations of the turns.
LEMMA TurnByTurn ==
  ASSUME NEW list, NEW c, NEW q, Len(list) \in Nat
  PROVE  /\ After(list, c, q, 0) = NoDecision
         /\ \A k \in 1 .. Len(list) :
              LET before == After(list, c, q, k - 1)
              IN  After(list, c, q, k) =
                    IF ~Terminal(before) /\ ruleFires(list[k], c, q)
                    THEN Enact(before, list[k], c) ELSE before
<1> DEFINE call == <<list, c, q>>
<1>1. /\ Turns!FoldUpTo(call, Len(list), 0) = NoDecisionYet(call)
      /\ \A k \in 1 .. Len(list) :
           Turns!FoldUpTo(call, Len(list), k)
             = RuleTurn(call, Turns!FoldUpTo(call, Len(list), k - 1), k)
  BY Turns!FoldIsLoop DEF Max, Turns!Max
<1> QED
  BY <1>1 DEF NoDecisionYet, RuleTurn, After

\* Once terminal, a decision stays as it is.
LEMMA TerminalStays ==
  ASSUME NEW list, NEW c, NEW q, Len(list) \in Nat, DOMAIN list = 1 .. Len(list),
         NEW k \in 0 .. Len(list), Terminal(After(list, c, q, k))
  PROVE  Decide(list, c, q) = After(list, c, q, k)
<1> DEFINE A(j) == After(list, c, q, j)
           S == {j \in Nat : k + j <= Len(list) => A(k + j) = A(k)}
<1>1. 0 \in S
  OBVIOUS
<1>2. ASSUME NEW j \in Nat, j \in S
      PROVE  j + 1 \in S
  <2> SUFFICES ASSUME k + (j + 1) <= Len(list) PROVE A(k + (j + 1)) = A(k)
    OBVIOUS
  <2>1. A(k + j) = A(k)
    BY <1>2
  <2>2. k + (j + 1) \in 1 .. Len(list) /\ (k + (j + 1)) - 1 = k + j
    OBVIOUS
  <2> HIDE DEF A
  <2>3. \A m \in 1 .. Len(list) : Terminal(A(m - 1)) => A(m) = A(m - 1)
    BY TurnByTurn DEF A
  <2>4. Terminal(A(k))
    BY DEF A
  <2> QED
    BY <2>1, <2>2, <2>3, <2>4
<1> HIDE DEF S, A
<1>3. \A j \in Nat : j \in S
  BY <1>1, <1>2, Induction
<1>4. Len(list) - k \in Nat /\ k + (Len(list) - k) = Len(list)
  OBVIOUS
<1>5. A(Len(list)) = A(k)
  BY <1>3, <1>4 DEF S
<1> QED
  BY <1>5, DecideIsFold DEF A, After

\* The loop's decision is that of the turns it has taken.
TurnInv == LoopInv /\ d = After(rules, n, req, i - 1)

\* The loop ends with the decision that Decide gives as a function.
LoopIsDecide == Done => d = Decide(rules, n, req)

\* It does, which lets the rows of a plan be compared with live decisions.
LEMMA TurnsTaken == PlanSpec => [](TurnInv /\ LoopIsDecide)
<1>1. ASSUME rules \in RuleLists, i = 1, d = NoDecision
      PROVE  d = After(rules, n, req, i - 1)
  <2>1. After(rules, n, req, 0) = NoDecision
    BY <1>1, RulesTyped, TurnByTurn
  <2> QED
    BY <1>1, <2>1
<1>2. PlanInit => d = After(rules, n, req, i - 1)
  BY <1>1 DEF PlanInit, Init
<1>3. LoopInv /\ TurnInv /\ [PlanNext]_allVars => (d = After(rules, n, req, i - 1))'
  <2> SUFFICES ASSUME LoopInv, TurnInv, [PlanNext]_allVars
               PROVE  (d = After(rules, n, req, i - 1))'
    OBVIOUS
  <2>1. CASE DecideStep
    <3>1. /\ rules' = rules /\ n' = n /\ req' = req /\ i' = i + 1
          /\ i \in 1 .. Len(rules) /\ ~Terminal(d) /\ Len(rules) \in Nat
      BY <2>1, RulesTyped DEF DecideStep, LoopInv, Progress, Next, Continue, Fire, Done
    <3>2. After(rules, n, req, i) =
            IF ruleFires(rules[i], n, req) THEN Enact(d, rules[i], n) ELSE d
      BY <3>1, TurnByTurn DEF TurnInv
    <3>3. d' = After(rules, n, req, i)
      BY <2>1, <3>2 DEF DecideStep, Next, Continue, Fire
    <3>4. i' - 1 = i
      BY <3>1
    <3> QED
      BY <3>1, <3>3, <3>4
  <2>2. CASE AppendEntry
    <3>1. (rules \in RuleLists /\ i = 1 /\ d = NoDecision)'
      BY <2>2 DEF AppendEntry, LoopInv, Progress
    <3> QED
      BY <1>1, <3>1, PTL
  <2>3. CASE UNCHANGED vars
    BY <2>3 DEF vars, TurnInv
  <2> QED
    BY <2>1, <2>2, <2>3 DEF PlanNext, Footer, allVars
<1>4. TurnInv => LoopIsDecide
  <2> SUFFICES ASSUME TurnInv, Done PROVE d = Decide(rules, n, req)
    BY DEF LoopIsDecide
  <2>1. /\ i \in 1 .. Len(rules) + 1 /\ Len(rules) \in Nat
        /\ DOMAIN rules = 1 .. Len(rules)
        /\ d = After(rules, n, req, i - 1)
    BY RulesTyped DEF TurnInv, LoopInv, Progress
  <2>2. CASE Terminal(d)
    <3>1. i - 1 \in 0 .. Len(rules)
      BY <2>1
    <3> QED
      BY <2>1, <2>2, <3>1, TerminalStays
  <2>3. CASE i > Len(rules)
    <3>1. i - 1 = Len(rules)
      BY <2>1, <2>3
    <3> QED
      BY <2>1, <3>1, DecideIsFold DEF After
  <2> QED
    BY <2>2, <2>3 DEF Done
<1>5. PlanSpec => []TurnInv
  BY <1>2, <1>3, LoopTheorem, PTL DEF PlanSpec, TurnInv
<1> QED
  BY <1>4, <1>5, PTL

---------------------------------------------------------------------------
(* The numbers of live requests. *)

NumberBefore(c) == (c[1] + Word - 1) % Word
OneMore(c, number, k) == (number + c[2][k]) % Word

Arrivals == INSTANCE FoldLaws WITH Base <- NumberBefore, Step <- OneMore, Pick <- Max

\* The k-th request to a proxy whose counter stands before the range gets the
\* number of the k-th row.
LEMMA LiveNumbers ==
  ASSUME from \in 0 .. Word - 1, NEW k \in Nat, k # 0
  PROVE  LiveNumber(k) = NextCounter(k - 1)
<1> DEFINE ones == [j \in 1 .. k |-> 1]
           N(j) == Arrivals!FoldUpTo(<<from, ones>>, k, j)
           S == {j \in Nat : j <= k => N(j) = (from + Word - 1 + j) % Word}
<1>1. Word \in Nat \ {0}
  BY EngineAssumption DEF Word
<1>2. DOMAIN ones = 1 .. k /\ \A j \in 1 .. k : ones[j] = 1
  OBVIOUS
<1>3. LiveNumber(k) = N(k)
  BY DEF LiveNumber, FoldLeft, MapThenFoldSet, Arrivals!FoldUpTo, Arrivals!Fold,
         Arrivals!IsFold, NumberBefore, OneMore
<1> HIDE DEF ones
<1>4. /\ N(0) = (from + Word - 1) % Word
      /\ \A j \in 1 .. k : N(j) = (N(j - 1) + 1) % Word
  <2>1. /\ N(0) = NumberBefore(<<from, ones>>)
        /\ \A j \in 1 .. k : N(j) = OneMore(<<from, ones>>, N(j - 1), j)
    BY Arrivals!FoldIsLoop DEF Max, Arrivals!Max
  <2> QED
    BY <1>2, <2>1 DEF NumberBefore, OneMore
<1> HIDE DEF N
<1>5. 0 \in S
  BY <1>1, <1>4
<1>6. ASSUME NEW j \in Nat, j \in S
      PROVE  j + 1 \in S
  <2> SUFFICES ASSUME j + 1 <= k PROVE N(j + 1) = (from + Word - 1 + (j + 1)) % Word
    OBVIOUS
  <2>1. N(j) = (from + Word - 1 + j) % Word
    BY <1>6
  <2>2. j + 1 \in 1 .. k /\ (j + 1) - 1 = j
    OBVIOUS
  <2>3. N(j + 1) = (N(j) + 1) % Word
    BY <1>4, <2>2
  <2>4. from + Word - 1 + j \in Int /\ (from + Word - 1 + j) + 1 = from + Word - 1 + (j + 1)
    BY <1>1
  <2>5. (((from + Word - 1 + j) % Word) + 1) % Word = ((from + Word - 1 + j) + 1) % Word
    BY <1>1, <2>4, 1 \in Int, RemainderOfSum, Zenon
  <2> QED
    BY <2>1, <2>3, <2>4, <2>5
<1> HIDE DEF S
<1>7. \A j \in Nat : j \in S
  BY <1>5, <1>6, Induction
<1>8. N(k) = (from + Word - 1 + k) % Word
  BY <1>7 DEF S
<1>9. (from + Word - 1 + k) % Word = (from + (k - 1)) % Word
  <2> DEFINE x == from + (k - 1)
  <2>1. x \in Int /\ from + Word - 1 + k = Word + x
    BY <1>1
  <2>2. Word % Word = 0
    <3>1. Word = Word * 1 + 0 /\ 0 \in 0 .. Word - 1
      BY <1>1
    <3> QED
      BY <1>1, <3>1, RemainderIsUnique
  <2>3. 0 + x = x
    BY <2>1
  <2> HIDE DEF x
  <2>4. ((Word % Word) + x) % Word = (Word + x) % Word
    BY <1>1, <2>1, Word \in Int, RemainderOfSum, Zenon
  <2> QED
    BY <2>1, <2>2, <2>3, <2>4 DEF x
<1> QED
  BY <1>3, <1>8, <1>9 DEF NextCounter

---------------------------------------------------------------------------
(* The rows. *)

\* Every row has its counter, and the decision Decide makes for it.
RowsInv ==
  /\ req = PlanShape(asked)
  /\ n = NextCounter(Len(entries))
  /\ \A k \in DOMAIN entries :
        /\ entries[k].counter = NextCounter(k - 1)
        /\ entries[k].decision = Decide(rules, NextCounter(k - 1), req)

\* Row k of a plan is what Decide gives for the k-th counter from --from on.
THEOREM RowsTheorem == PlanSpec => []RowsInv
<1>1. PlanInit => RowsInv
  <2> SUFFICES ASSUME PlanInit PROVE RowsInv
    OBVIOUS
  <2>1. from \in 0 .. Word - 1 /\ n = from /\ entries = <<>> /\ req = PlanShape(asked)
    BY CountersAssumption DEF PlanInit, Init, Word
  <2>2. Word \in Nat \ {0}
    BY EngineAssumption DEF Word
  <2>3. Len(entries) = 0 /\ DOMAIN entries = {}
    BY <2>1
  <2>4. (from + 0) % Word = from
    <3>1. from + 0 = Word * 0 + from /\ from + 0 \in Int
      BY <2>1, <2>2
    <3> QED
      BY <2>1, <2>2, <3>1, RemainderIsUnique
  <2> QED
    BY <2>1, <2>3, <2>4 DEF RowsInv, NextCounter
<1>2. RowsInv /\ CounterInv /\ LoopIsDecide /\ [PlanNext]_allVars => RowsInv'
  <2> SUFFICES ASSUME RowsInv, CounterInv, LoopIsDecide, [PlanNext]_allVars PROVE RowsInv'
    OBVIOUS
  <2>1. CASE DecideStep \/ Footer \/ UNCHANGED allVars
    <3>1. /\ rules' = rules /\ n' = n /\ req' = req
          /\ asked' = asked /\ from' = from /\ entries' = entries
      BY <2>1 DEF DecideStep, Next, Continue, Fire, Footer, allVars, planVars, vars
    <3> QED
      BY <3>1 DEF RowsInv, NextCounter
  <2>2. CASE AppendEntry
    <3> DEFINE e == [counter |-> n, decision |-> d]
    <3>1. /\ rules' = rules /\ req' = req /\ asked' = asked /\ from' = from
          /\ entries' = Append(entries, e)
          /\ n' = NextCounter(Len(entries) + 1)
          /\ d = Decide(rules, n, req)
      BY <2>2 DEF AppendEntry, LoopIsDecide
    <3>2. /\ Len(entries') = Len(entries) + 1 /\ Len(entries) \in Nat
          /\ DOMAIN entries = 1 .. Len(entries)
          /\ DOMAIN entries' = 1 .. Len(entries) + 1
          /\ \A k \in 1 .. Len(entries) : entries'[k] = entries[k]
          /\ entries'[Len(entries) + 1] = e
      BY <3>1 DEF CounterInv
    <3>4. n' = NextCounter(Len(entries))'
      BY <3>1, <3>2 DEF NextCounter
    <3>5. ASSUME NEW k \in 1 .. Len(entries) + 1
          PROVE  /\ entries'[k].counter = NextCounter(k - 1)
                 /\ entries'[k].decision = Decide(rules, NextCounter(k - 1), req)
      <4>1. CASE k \in 1 .. Len(entries)
        BY <3>2, <4>1 DEF RowsInv
      <4>2. CASE k = Len(entries) + 1
        <5>1. entries'[k] = e /\ k - 1 = Len(entries)
          BY <3>2, <4>2
        <5> QED
          BY <3>1, <5>1 DEF RowsInv
      <4> QED
        BY <3>2, <4>1, <4>2
    <3>6. \A k \in DOMAIN entries' :
             /\ entries'[k].counter = NextCounter(k - 1)'
             /\ entries'[k].decision = Decide(rules', NextCounter(k - 1)', req')
      BY <3>1, <3>2, <3>5 DEF NextCounter
    <3> QED
      BY <3>1, <3>4, <3>6 DEF RowsInv
  <2> QED
    BY <2>1, <2>2 DEF PlanNext
<1> QED
  BY <1>1, <1>2, TurnsTaken, CounterTheorem, PTL DEF PlanSpec

\* "The live proxy computes the identical decisions for the same counters",
\* for any rules, range and headers but Host.
THEOREM PlanIsLiveTheorem == PlanSpec => []PlanIsLive
<1>1. RowsInv /\ CounterInv => PlanIsLive
  <2> SUFFICES ASSUME RowsInv, CounterInv, \A pair \in Range(asked.headers) : Canonical(pair.name) # "Host",
                      NEW k \in DOMAIN entries
               PROVE  LET live == Decide(rules, LiveNumber(k), LiveShape(asked))
                      IN  /\ entries[k].counter = LiveNumber(k)
                          /\ entries[k].decision = live
                          /\ Summary(entries[k].decision) = Summary(live)
    BY DEF PlanIsLive, RowsAreLive
  <2>1. LiveShape(asked) = PlanShape(asked)
    <3>1. {Canonical(pair.name) : pair \in Range(asked.headers)} \ {"Host"}
            = {Canonical(pair.name) : pair \in Range(asked.headers)}
      OBVIOUS
    <3> QED
      BY <3>1 DEF LiveShape, PlanShape
  <2>2. LiveNumber(k) = NextCounter(k - 1)
    <3>1. k \in Nat /\ k # 0 /\ from \in 0 .. Word - 1
      BY DEF CounterInv
    <3> QED
      BY <3>1, LiveNumbers
  <2> QED
    BY <2>1, <2>2 DEF RowsInv
<1> QED
  BY <1>1, RowsTheorem, CounterTheorem, PTL

---------------------------------------------------------------------------
(* Words. *)

\* A wrapped number is a word, and differs by a multiple of the word size.
LEMMA WrapIsWord ==
  ASSUME NEW x \in Int
  PROVE  /\ Wrap(x) \in -HalfWord .. HalfWord - 1
         /\ \E q \in Int : Wrap(x) = x - Word * q
<1>1. Word \in Nat \ {0} /\ Word = 2 * HalfWord /\ HalfWord \in Nat
  BY EngineAssumption DEF Word
<1> DEFINE y == x + HalfWord
           r == y % Word
<1>2. y \in Int
  BY <1>1
<1>3. Wrap(x) = r - HalfWord
  BY <1>1 DEF Wrap
<1> HIDE DEF y
<1>4. r \in 0 .. Word - 1
  BY <1>1, <1>2
<1>5. PICK q \in Int : y = Word * q + r
  BY <1>1, <1>2, Remainder
<1> HIDE DEF r
<1>6. Word * q \in Int /\ x + HalfWord = Word * q + r
  BY <1>1, <1>5 DEF y
<1>7. Wrap(x) = x - Word * q
  BY <1>1, <1>3, <1>4, <1>6
<1> QED
  BY <1>1, <1>3, <1>4, <1>7

\* A word is what a number that differs by a multiple of the word size wraps
\* to.
LEMMA WrapIsUnique ==
  ASSUME NEW x \in Int, NEW q \in Int, NEW w \in -HalfWord .. HalfWord - 1,
         x = w + Word * q
  PROVE  Wrap(x) = w
<1>1. Word \in Nat \ {0} /\ Word = 2 * HalfWord /\ HalfWord \in Nat
  BY EngineAssumption DEF Word
<1>2. Word * q \in Int /\ x + HalfWord = Word * q + (w + HalfWord)
  BY <1>1
<1>3. w + HalfWord \in 0 .. Word - 1 /\ x + HalfWord \in Int
  BY <1>1
<1>4. (x + HalfWord) % Word = w + HalfWord
  BY <1>1, <1>2, <1>3, RemainderIsUnique
<1> QED
  BY <1>1, <1>4 DEF Wrap

\* Sums of words may be wrapped at any time.
LEMMA WrapOfSum ==
  ASSUME NEW x \in Int, NEW y \in Int
  PROVE  Wrap(Wrap(x) + Wrap(y)) = Wrap(x + y)
<1>1. Word \in Nat \ {0}
  BY EngineAssumption DEF Word
<1> DEFINE a == Wrap(x)
           b == Wrap(y)
           w == Wrap(x + y)
<1>2. PICK p \in Int : a = x - Word * p
  BY WrapIsWord
<1>3. PICK q \in Int : b = y - Word * q
  BY WrapIsWord
<1>4. x + y \in Int
  OBVIOUS
<1>5. w \in -HalfWord .. HalfWord - 1 /\ \E r \in Int : w = (x + y) - Word * r
  BY <1>4, WrapIsWord
<1>6. PICK r \in Int : w = (x + y) - Word * r
  BY <1>5
<1> HIDE DEF a, b, w
<1>7. /\ Word * p \in Int /\ Word * q \in Int /\ Word * r \in Int
      /\ Word * (r - p - q) = Word * r - Word * p - Word * q
  BY <1>1
<1>8. a + b = w + Word * (r - p - q) /\ a + b \in Int /\ r - p - q \in Int
  BY <1>2, <1>3, <1>6, <1>7
<1>9. Wrap(a + b) = w
  BY <1>5, <1>8, WrapIsUnique
<1> QED
  BY <1>9 DEF a, b, w

\* Words are left alone.
LEMMA WrapOfWord ==
  ASSUME NEW w \in -HalfWord .. HalfWord - 1
  PROVE  Wrap(w) = w
<1>1. Word \in Nat \ {0} /\ HalfWord \in Nat
  BY EngineAssumption DEF Word
<1>2. w \in Int /\ w = w + Word * 0 /\ 0 \in Int
  BY <1>1
<1> QED
  BY <1>2, WrapIsUnique

---------------------------------------------------------------------------
(* Sums. *)

NoSum(f) == 0
PlusValue(f, sum, k) == f[k] + sum
AnyOf(s) == CHOOSE x \in s : TRUE

Sums == INSTANCE FoldLaws WITH Base <- NoSum, Step <- PlusValue, Pick <- AnyOf

\* A sum of the first N values is that of all but one, and that one.
SumLaws(f, N) ==
  /\ SumFunctionOnSet(f, {}) = 0
  /\ \A S \in SUBSET (1 .. N) :
       /\ SumFunctionOnSet(f, S) \in Int
       /\ (\A k \in 1 .. N : f[k] \in Nat) => SumFunctionOnSet(f, S) \in Nat
       /\ \A x \in S : SumFunctionOnSet(f, S) = f[x] + SumFunctionOnSet(f, S \ {x})

\* The sums of the community modules obey these laws.
LEMMA SumGrows ==
  ASSUME NEW f, NEW N \in Nat, \A k \in 1 .. N : f[k] \in Int
  PROVE  SumLaws(f, N)
<1> DEFINE F(S) == Sums!Fold(f, S, S)
           V == 1 .. N
<1>1. \A S : SumFunctionOnSet(f, S) = F(S)
  BY DEF SumFunctionOnSet, FoldFunctionOnSet, MapThenFoldSet, Sums!Fold, Sums!IsFold,
         NoSum, PlusValue, AnyOf
<1>2. Sums!Picks(V)
  <2>1. IsFiniteSet(V)
    BY 1 \in Int, FS_Interval
  <2>2. Sums!IsFiniteSet(V)
    BY <2>1 DEF IsFiniteSet, Sums!IsFiniteSet
  <2> QED
    BY <2>2 DEF Sums!Picks, AnyOf
<1> HIDE DEF V
<1>3. Sums!Commutes(f, V, Int)
  BY DEF Sums!Commutes, PlusValue, NoSum, V
<1>4. (\A k \in V : f[k] \in Nat) => Sums!Commutes(f, V, Nat)
  BY DEF Sums!Commutes, PlusValue, NoSum
<1>5. /\ F({}) = NoSum(f)
      /\ \A S \in SUBSET V : F(S) \in Int
      /\ \A S \in SUBSET V : \A x \in S : F(S) = PlusValue(f, F(S \ {x}), x)
  BY <1>2, <1>3, Sums!FoldIsUnordered
<1>6. (\A k \in V : f[k] \in Nat) => \A S \in SUBSET V : F(S) \in Nat
  BY <1>2, <1>4, Sums!FoldIsUnordered
<1> HIDE DEF F
<1> QED
  BY <1>1, <1>5, <1>6 DEF NoSum, PlusValue, V, SumLaws

\* f has the values of g in D, a part of E outside of which g is 0, and h is
\* as large as g.
Compare(f, g, h, D, E, N) ==
  /\ E \in SUBSET (1 .. N) /\ D \in SUBSET E
  /\ \A k \in 1 .. N : f[k] \in Int /\ g[k] \in Nat /\ h[k] \in Nat
  /\ \A k \in D : f[k] = g[k]
  /\ \A k \in E \ D : g[k] = 0
  /\ \A k \in E : g[k] <= h[k]

\* Values that are 0 may be left out of a sum, and a sum grows with its values.
LEMMA SumsCompare ==
  ASSUME NEW N \in Nat, NEW E, NEW D, NEW f, NEW g, NEW h, Compare(f, g, h, D, E, N)
  PROVE  /\ SumFunctionOnSet(f, D) = SumFunctionOnSet(g, E)
         /\ SumFunctionOnSet(g, E) \in Nat /\ SumFunctionOnSet(h, E) \in Nat
         /\ SumFunctionOnSet(g, E) <= SumFunctionOnSet(h, E)
<1> DEFINE Below(M, k) == {j \in M : j <= k}
           F(S) == SumFunctionOnSet(f, S)
           G(S) == SumFunctionOnSet(g, S)
           H(S) == SumFunctionOnSet(h, S)
           Law(k) == /\ F(Below(D, k)) = G(Below(E, k))
                     /\ G(Below(E, k)) <= H(Below(E, k))
           S == {k \in Nat : k <= N => Law(k)}
<1>0. /\ E \in SUBSET (1 .. N) /\ D \in SUBSET E
      /\ \A k \in 1 .. N : f[k] \in Int /\ g[k] \in Nat /\ h[k] \in Nat
      /\ \A k \in D : f[k] = g[k]
      /\ \A k \in E \ D : g[k] = 0
      /\ \A k \in E : g[k] <= h[k]
  BY DEF Compare
<1> USE <1>0
<1>1. /\ F({}) = 0 /\ G({}) = 0 /\ H({}) = 0
      /\ \A T \in SUBSET (1 .. N) :
           /\ F(T) \in Int /\ G(T) \in Nat /\ H(T) \in Nat
           /\ \A x \in T : /\ F(T) = f[x] + F(T \ {x})
                           /\ G(T) = g[x] + G(T \ {x})
                           /\ H(T) = h[x] + H(T \ {x})
  <2>1. \A k \in 1 .. N : f[k] \in Int /\ g[k] \in Int /\ h[k] \in Int
    OBVIOUS
  <2>2. SumLaws(f, N) /\ SumLaws(g, N) /\ SumLaws(h, N)
    BY <2>1, SumGrows
  <2>3. F({}) = 0 /\ \A T \in SUBSET (1 .. N) :
          F(T) \in Int /\ \A x \in T : F(T) = f[x] + F(T \ {x})
    BY <2>2 DEF SumLaws
  <2>4. G({}) = 0 /\ \A T \in SUBSET (1 .. N) :
          G(T) \in Nat /\ \A x \in T : G(T) = g[x] + G(T \ {x})
    BY <2>2 DEF SumLaws
  <2>5. H({}) = 0 /\ \A T \in SUBSET (1 .. N) :
          H(T) \in Nat /\ \A x \in T : H(T) = h[x] + H(T \ {x})
    BY <2>2 DEF SumLaws
  <2> HIDE DEF F, G, H
  <2> QED
    BY <2>3, <2>4, <2>5
<1> HIDE DEF F, G, H
<1>2. ASSUME NEW M \in SUBSET (1 .. N)
      PROVE  /\ Below(M, 0) = {} /\ Below(M, N) = M
             /\ \A k \in Nat :
                  Below(M, k + 1) = IF k + 1 \in M THEN Below(M, k) \cup {k + 1} ELSE Below(M, k)
  <2>1. \A j \in M : j \in 1 .. N
    OBVIOUS
  <2>2. \A j \in M : ~(j <= 0) /\ j <= N
    BY <2>1
  <2>3. Below(M, 0) = {} /\ Below(M, N) = M
    BY <2>2
  <2>4. ASSUME NEW k \in Nat
        PROVE  Below(M, k + 1) =
                 IF k + 1 \in M THEN Below(M, k) \cup {k + 1} ELSE Below(M, k)
    <3>1. \A j \in M : j <= k + 1 <=> j <= k \/ j = k + 1
      BY <2>1
    <3> QED
      BY <3>1
  <2> QED
    BY <2>3, <2>4
<1>3. ASSUME NEW M \in SUBSET (1 .. N), NEW k \in Nat
      PROVE  Below(M, k) \in SUBSET (1 .. N) /\ k + 1 \notin Below(M, k)
  <2>1. ~(k + 1 <= k)
    OBVIOUS
  <2> QED
    BY <2>1
<1>4. D \in SUBSET (1 .. N)
  OBVIOUS
<1> HIDE DEF Below
<1>5. 0 \in S
  <2>1. Below(D, 0) = {} /\ Below(E, 0) = {}
    BY <1>2, <1>4
  <2>2. Law(0)
    BY <1>1, <2>1
  <2> HIDE DEF Law
  <2> QED
    BY <2>2
<1>6. ASSUME NEW k \in Nat, k \in S
      PROVE  k + 1 \in S
  <2> SUFFICES ASSUME k + 1 <= N PROVE Law(k + 1)
    OBVIOUS
  <2> DEFINE x == k + 1
             DB == Below(D, k)
             EB == Below(E, k)
  <2>1. F(DB) = G(EB) /\ G(EB) <= H(EB) /\ x \in 1 .. N
    BY <1>6
  <2>2. /\ Below(D, x) = IF x \in D THEN DB \cup {x} ELSE DB
        /\ Below(E, x) = IF x \in E THEN EB \cup {x} ELSE EB
    BY <1>2, <1>4
  <2>3. /\ DB \in SUBSET (1 .. N) /\ EB \in SUBSET (1 .. N)
        /\ x \notin DB /\ x \notin EB
    BY <1>3, <1>4
  <2> HIDE DEF x, DB, EB
  <2>4. /\ DB \cup {x} \in SUBSET (1 .. N) /\ EB \cup {x} \in SUBSET (1 .. N)
        /\ (DB \cup {x}) \ {x} = DB /\ (EB \cup {x}) \ {x} = EB
        /\ x \in DB \cup {x} /\ x \in EB \cup {x}
    BY <2>1, <2>3
  <2>5. /\ F(DB \cup {x}) = f[x] + F(DB)
        /\ G(EB \cup {x}) = g[x] + G(EB)
        /\ H(EB \cup {x}) = h[x] + H(EB)
    <3>1. F(DB \cup {x}) = f[x] + F((DB \cup {x}) \ {x})
      BY <1>1, <2>4, Zenon
    <3>2. G(EB \cup {x}) = g[x] + G((EB \cup {x}) \ {x})
      BY <1>1, <2>4, Zenon
    <3>3. H(EB \cup {x}) = h[x] + H((EB \cup {x}) \ {x})
      BY <1>1, <2>4, Zenon
    <3> QED
      BY <2>4, <3>1, <3>2, <3>3, Zenon
  <2>6. /\ F(DB) \in Int /\ G(EB) \in Nat /\ H(EB) \in Nat
        /\ f[x] \in Int /\ g[x] \in Nat /\ h[x] \in Nat
    BY <1>1, <2>1, <2>3
  <2>7. CASE x \in D
    <3>1. x \in E /\ f[x] = g[x] /\ g[x] <= h[x]
      BY <2>7
    <3>2. /\ F(Below(D, x)) = f[x] + F(DB)
          /\ G(Below(E, x)) = g[x] + G(EB) /\ H(Below(E, x)) = h[x] + H(EB)
      BY <2>2, <2>5, <2>7, <3>1
    <3>3. F(Below(D, x)) = G(Below(E, x)) /\ G(Below(E, x)) <= H(Below(E, x))
      BY <2>1, <2>6, <3>1, <3>2
    <3> QED
      BY <3>3 DEF x
  <2>8. CASE x \notin D /\ x \in E
    <3>1. g[x] = 0 /\ g[x] <= h[x]
      BY <2>8
    <3>2. /\ F(Below(D, x)) = F(DB)
          /\ G(Below(E, x)) = g[x] + G(EB) /\ H(Below(E, x)) = h[x] + H(EB)
      BY <2>2, <2>5, <2>8
    <3>3. F(Below(D, x)) = G(Below(E, x)) /\ G(Below(E, x)) <= H(Below(E, x))
      BY <2>1, <2>6, <3>1, <3>2
    <3> QED
      BY <3>3 DEF x
  <2>9. CASE x \notin E
    <3>1. x \notin D
      BY <2>9
    <3> QED
      BY <2>1, <2>2, <2>9, <3>1 DEF x
  <2> QED
    BY <2>7, <2>8, <2>9
<1> HIDE DEF S
<1>7. N \in S
  BY <1>5, <1>6, Induction
<1>8. F(D) = G(E) /\ G(E) <= H(E)
  BY <1>2, <1>4, <1>7 DEF S
<1> QED
  BY <1>1, <1>8 DEF F, G, H

---------------------------------------------------------------------------
(* Delays. *)

\* The delays that the rules draw, in an int64.
RuleDelays == [k \in DOMAIN rules |-> RuleDelay(rules[k], n) * Millisecond]

\* The delay a rule draws is an integer.
LEMMA RuleDelayTyped ==
  ASSUME rules \in RuleLists, n \in 0 .. Word - 1
  PROVE  \A k \in DOMAIN rules : RuleDelay(rules[k], n) \in Int
<1> SUFFICES ASSUME NEW k \in DOMAIN rules PROVE RuleDelay(rules[k], n) \in Int
  OBVIOUS
<1> DEFINE r == rules[k]
<1>1. r.fault \in Faults
  BY RulesTyped
<1>2. Draw(r.name, "jitter", n) \in Int
  BY DrawsTyped, RateScaleAssumption
<1>3. ASSUME NEW x \in Int
      PROVE  Wrap(x) \in Int
  BY <1>3, EngineAssumption DEF Wrap
<1>4. r.fault.jitter_ms \in Int /\ r.fault.delay_ms \in Int
  BY <1>1 DEF Faults
<1>5. DrawInt(r, n, r.fault.jitter_ms) \in Int
  <2> DEFINE top == r.fault.jitter_ms
             x == Draw(r.name, "jitter", n) * Wrap(top + 1)
  <2>1. x \in Int
    BY <1>2, <1>3, <1>4
  <2> HIDE DEF x
  <2>2. Truncate(x) \in Int
    BY <2>1, RateScaleAssumption DEF Truncate
  <2> QED
    BY <1>4, <2>2 DEF DrawInt, x
<1> HIDE DEF r
<1> QED
  BY <1>3, <1>4, <1>5 DEF RuleDelay, r

\* So are the delays in units of a duration.
LEMMA RuleDelaysTyped ==
  ASSUME rules \in RuleLists, n \in 0 .. Word - 1
  PROVE  /\ Len(rules) \in Nat /\ DOMAIN rules = 1 .. Len(rules)
         /\ \A k \in 1 .. Len(rules) :
              RuleDelays[k] = RuleDelay(rules[k], n) * Millisecond /\ RuleDelays[k] \in Int
  BY RulesTyped, RuleDelayTyped, EngineAssumption DEF RuleDelays

\* The delay the documents promise is at least 0 and within its bound, and it
\* is the one the code draws unless the bound exceeds an int64.
LEMMA DelayIsLatency ==
  ASSUME rules \in RuleLists, n \in 0 .. Word - 1, NEW k \in DOMAIN rules
  PROVE  /\ Latency(k) \in Nat /\ LatencyBound(k) \in Nat
         /\ Latency(k) < LatencyBound(k)
         /\ LatencyBound(k) < HalfWord => RuleDelay(rules[k], n) = Latency(k)
<1> DEFINE r == rules[k]
           ms == r.fault.delay_ms
           top == r.fault.jitter_ms
           draw == Draw(r.name, "jitter", n)
           extra == (draw * (top + 1)) \div RateScale
<1>1. ms \in Nat /\ top \in Nat
  <2>1. r.fault \in Faults /\ validateFault(r.fault) = {}
    BY RuleListsAssumption
  <2>2. ms \in Int /\ top \in Int
    BY <2>1 DEF Faults
  <2>3. ~(ms < 0) /\ ~(top < 0)
    <3>1. validateFault(r.fault) # {"fault"}
      BY <2>1
    <3>2. When(ms < 0, "delay_ms") = {} /\ When(top < 0, "jitter_ms") = {}
      BY <2>1, <3>1, Zenon DEF validateFault
    <3> QED
      BY <3>2 DEF When
  <2> QED
    BY <2>2, <2>3
<1>2. draw \in 0 .. RateScale - 1 /\ RateScale \in Nat \ {0} /\ HalfWord \in Nat \ {0}
  BY DrawsTyped, RateScaleAssumption, EngineAssumption
<1>3. Latency(k) = ms + extra /\ LatencyBound(k) = ms + top + 1
  BY DEF Latency, LatencyBound
<1>4. RuleDelay(r, n) = IF top > 0 THEN Wrap(ms + DrawInt(r, n, top)) ELSE ms
  BY DEF RuleDelay
<1>5. top > 0 => DrawInt(r, n, top) =
                   LET v == Truncate(draw * Wrap(top + 1)) IN IF v > top THEN top ELSE v
  BY <1>1 DEF DrawInt
<1> HIDE DEF ms, top, r, draw
<1>6. draw * (top + 1) \in Nat /\ extra \in 0 .. top
  <2>1. top + 1 \in Nat \ {0} /\ (top + 1) - 1 = top
    BY <1>1
  <2> QED
    BY <1>2, <2>1, FractionOf
<1>7. ASSUME ms + top + 1 < HalfWord
      PROVE  RuleDelay(r, n) = ms + extra
  <2>1. CASE top = 0
    <3>1. extra = 0
      BY <1>6, <2>1
    <3> QED
      BY <1>1, <1>4, <2>1, <3>1
  <2>2. CASE top > 0
    <3>1. top + 1 \in -HalfWord .. HalfWord - 1 /\ ms + extra \in -HalfWord .. HalfWord - 1
      BY <1>1, <1>2, <1>6, <1>7, <2>2
    <3>2. Wrap(top + 1) = top + 1 /\ Wrap(ms + extra) = ms + extra
      BY <3>1, WrapOfWord
    <3>3. Truncate(draw * (top + 1)) = extra
      BY <1>6 DEF Truncate
    <3>4. DrawInt(r, n, top) = extra
      BY <1>1, <1>5, <1>6, <2>2, <3>2, <3>3
    <3> QED
      BY <1>1, <1>4, <2>2, <3>2, <3>4
  <2> QED
    BY <1>1, <1>7, <2>1, <2>2
<1> QED
  BY <1>1, <1>3, <1>6, <1>7 DEF r

\* The rules looked at that delay.
Delayed == {k \in 1 .. i - 1 : Fires(k) /\ RuleDelay(rules[k], n) > 0}

\* The decision has their delays, and their names in order.
DelayInv ==
  /\ d.delay = Wrap(SumFunctionOnSet(RuleDelays, Delayed))
  /\ d.delayRules \in Seq({rules[k].name : k \in DOMAIN rules})
  /\ Len(d.delayRules) = Cardinality(Delayed)
  /\ \A k \in Delayed :
       d.delayRules[Cardinality({j \in Delayed : j <= k})] = rules[k].name

\* Before the first rule the delay is nothing.
LEMMA DelayStart ==
  ASSUME rules \in RuleLists, n \in 0 .. Word - 1, i = 1, d = NoDecision
  PROVE  DelayInv
<1>1. Delayed = {}
  BY DEF Delayed
<1>2. SumFunctionOnSet(RuleDelays, {}) = 0
  BY RuleDelaysTyped, SumGrows DEF SumLaws
<1>3. Wrap(0) = 0
  <2>1. 0 \in -HalfWord .. HalfWord - 1
    BY EngineAssumption
  <2> QED
    BY <2>1, WrapOfWord
<1>4. d.delay = 0 /\ d.delayRules = <<>>
  BY DEF NoDecision
<1> QED
  BY <1>1, <1>2, <1>3, <1>4, FS_EmptySet DEF DelayInv

\* A step over a rule preserves it.
LEMMA DelayStep ==
  ASSUME LoopInv, DelayInv, CounterInv, Next
  PROVE  DelayInv'
<1>1. /\ rules' = rules /\ n' = n /\ req' = req /\ i' = i + 1
      /\ i \in 1 .. Len(rules) /\ Len(rules) \in Nat /\ DOMAIN rules = 1 .. Len(rules)
      /\ rules \in RuleLists /\ n \in 0 .. Word - 1
  BY RulesTyped DEF LoopInv, Progress, Next, Continue, Fire, Done, CounterInv
<1> DEFINE r == rules[i]
           Old == Delayed
           Grows == Fires(i) /\ RuleDelay(r, n) > 0
<1>2. RuleDelay(r, n) \in Int /\ (ruleFires(r, n, req) <=> Fires(i))
  BY <1>1, RuleDelayTyped, FiresByDraw
<1>3. Delayed' = IF Grows THEN Old \cup {i} ELSE Old
  <2>1. \A k : Fires(k)' <=> Fires(k)
    BY <1>1 DEF Fires
  <2>2. 1 .. i' - 1 = 1 .. i - 1 \cup {i}
    BY <1>1
  <2>3. Delayed' = {k \in 1 .. i - 1 \cup {i} : Fires(k) /\ RuleDelay(rules[k], n) > 0}
    BY <1>1, <2>1, <2>2 DEF Delayed
  <2> QED
    BY <2>3 DEF Delayed
<1>4. IF Grows
      THEN /\ d'.delay = Wrap(d.delay + Wrap(RuleDelay(r, n) * Millisecond))
           /\ d'.delayRules = Append(d.delayRules, r.name)
      ELSE d'.delay = d.delay /\ d'.delayRules = d.delayRules
  <2>1. CASE Continue
    BY <1>2, <2>1 DEF Continue
  <2>2. CASE Fire
    <3>1. d' = Enact(d, r, n) /\ Fires(i) /\ IsDecision(d)
      BY <1>2, <2>2 DEF Fire, LoopInv, Progress
    <3>2. Enacted(d', d, r, n)
      BY <3>1, EnactFields
    <3>3. /\ d'.delay = AddDelay(d, r, n).delay
          /\ d'.delayRules = AddDelay(d, r, n).delayRules
      BY <3>2 DEF Enacted
    <3> QED
      BY <3>1, <3>3 DEF AddDelay, IsDecision
  <2> QED
    BY <2>1, <2>2 DEF Next
<1>5. CASE ~Grows
  <2>1. Delayed' = Old /\ d'.delay = d.delay /\ d'.delayRules = d.delayRules
    BY <1>3, <1>4, <1>5
  <2> QED
    BY <1>1, <2>1 DEF DelayInv, RuleDelays
<1>6. CASE Grows
  <2>1. /\ Delayed' = Old \cup {i}
        /\ d'.delay = Wrap(d.delay + Wrap(RuleDelay(r, n) * Millisecond))
        /\ d'.delayRules = Append(d.delayRules, r.name)
    BY <1>3, <1>4, <1>6
  <2>2. Old \in SUBSET (1 .. i - 1) /\ i \notin Old /\ (Old \cup {i}) \ {i} = Old
    BY <1>1 DEF Delayed
  <2>3. /\ IsFiniteSet(Old) /\ Cardinality(Old) \in Nat
        /\ Cardinality(Old \cup {i}) = Cardinality(Old) + 1
    <3>1. IsFiniteSet(1 .. i - 1)
      BY <1>1, 1 \in Int, FS_Interval
    <3>2. IsFiniteSet(Old)
      BY <2>2, <3>1, FS_Subset
    <3> QED
      BY <2>2, <3>2, FS_CardinalityType, FS_AddElement
  <2>4. (d.delay = Wrap(SumFunctionOnSet(RuleDelays, Delayed)))'
    <3> DEFINE x == RuleDelay(r, n) * Millisecond
               y == SumFunctionOnSet(RuleDelays, Old)
               S == Old \cup {i}
    <3>1. x \in Int /\ y \in Int /\ SumFunctionOnSet(RuleDelays, S) = x + y
      <4>1. S \in SUBSET (1 .. Len(rules)) /\ Old \in SUBSET (1 .. Len(rules)) /\ i \in S
        BY <1>1, <2>2
      <4>2. Len(rules) \in Nat /\ \A k \in 1 .. Len(rules) : RuleDelays[k] \in Int
        BY <1>1, RuleDelaysTyped
      <4>3. RuleDelays[i] = x /\ x \in Int
        BY <1>1, RuleDelaysTyped
      <4>4. S \ {i} = Old
        BY <2>2
      <4> HIDE DEF S, x
      <4>6. SumLaws(RuleDelays, Len(rules))
        BY <4>2, SumGrows
      <4>5. /\ SumFunctionOnSet(RuleDelays, Old) \in Int
            /\ SumFunctionOnSet(RuleDelays, S)
                 = RuleDelays[i] + SumFunctionOnSet(RuleDelays, S \ {i})
        BY <4>1, <4>6, Zenon DEF SumLaws
      <4> QED
        BY <4>3, <4>4, <4>5
    <3>2. d.delay = Wrap(y)
      BY DEF DelayInv
    <3>3. RuleDelays' = RuleDelays
      BY <1>1 DEF RuleDelays
    <3> HIDE DEF x, y, S
    <3>4. d'.delay = Wrap(Wrap(y) + Wrap(x))
      BY <2>1, <3>2 DEF x
    <3>5. d'.delay = Wrap(y + x) /\ y + x = x + y
      BY <3>1, <3>4, WrapOfSum
    <3> QED
      BY <2>1, <3>1, <3>3, <3>5 DEF S
  <2> DEFINE Names == {rules[k].name : k \in DOMAIN rules}
  <2>5. /\ d'.delayRules \in Seq(Names)
        /\ Len(d'.delayRules) = Cardinality(Old) + 1
        /\ \A k \in 1 .. Cardinality(Old) : d'.delayRules[k] = d.delayRules[k]
        /\ d'.delayRules[Cardinality(Old) + 1] = r.name
    <3>1. d.delayRules \in Seq(Names) /\ Len(d.delayRules) = Cardinality(Old)
      BY DEF DelayInv
    <3>2. r.name \in Names
      BY <1>1
    <3> HIDE DEF Names, r
    <3> QED
      BY <2>1, <2>3, <3>1, <3>2
  <2>6. ASSUME NEW k \in Old \cup {i}
        PROVE  d'.delayRules[Cardinality({j \in Old \cup {i} : j <= k})] = rules[k].name
    <3>1. CASE k = i
      <4>1. {j \in Old \cup {i} : j <= k} = Old \cup {i}
        <5>1. \A j \in Old \cup {i} : j <= i
          BY <1>1, <2>2
        <5> HIDE DEF Old
        <5> QED
          BY <3>1, <5>1
      <4> QED
        BY <2>3, <2>5, <3>1, <4>1
    <3>2. CASE k \in Old
      <4> DEFINE s == {j \in Old : j <= k}
      <4>1. {j \in Old \cup {i} : j <= k} = s
        BY <1>1, <2>2, <3>2
      <4>2. s \in SUBSET Old /\ s # {}
        BY <2>2, <3>2
      <4>3. Cardinality(s) \in 1 .. Cardinality(Old)
        <5>1. IsFiniteSet(s) /\ Cardinality(s) \in Nat /\ Cardinality(s) <= Cardinality(Old)
          BY <2>3, <4>2, FS_Subset, FS_CardinalityType
        <5>2. Cardinality(s) # 0
          BY <4>2, <5>1, FS_EmptySet
        <5> QED
          BY <2>3, <5>1, <5>2
      <4>4. d.delayRules[Cardinality(s)] = rules[k].name
        BY <3>2 DEF DelayInv
      <4> QED
        BY <2>5, <4>1, <4>3, <4>4
    <3> QED
      BY <2>6, <3>1, <3>2
  <2> QED
    BY <1>1, <2>1, <2>3, <2>4, <2>5, <2>6 DEF DelayInv
<1> QED
  BY <1>5, <1>6

\* At every turn the delay is the sum of the delays of the rules enacted so
\* far, in an int64, and they are named in order.
THEOREM DelayTheorem == PlanSpec => []DelayInv
<1>1. PlanInit /\ CounterInv => DelayInv
  BY DelayStart DEF PlanInit, Init, CounterInv
<1>2. LoopInv /\ DelayInv /\ CounterInv /\ CounterInv' /\ [PlanNext]_allVars => DelayInv'
  <2> SUFFICES ASSUME LoopInv, DelayInv, CounterInv, CounterInv', [PlanNext]_allVars
               PROVE  DelayInv'
    OBVIOUS
  <2>1. CASE DecideStep
    BY <2>1, DelayStep DEF DecideStep
  <2>2. CASE AppendEntry
    <3>1. (rules \in RuleLists /\ i = 1 /\ d = NoDecision)'
      BY <2>2 DEF AppendEntry, LoopInv, Progress
    <3>2. (n \in 0 .. Word - 1)'
      BY DEF CounterInv
    <3> QED
      BY <3>1, <3>2, DelayStart, PTL
  <2>3. CASE UNCHANGED vars
    BY <2>3 DEF vars, DelayInv, RuleDelays, Delayed, Fires
  <2> QED
    BY <2>1, <2>2, <2>3 DEF PlanNext, Footer, allVars
<1> QED
  BY <1>1, <1>2, LoopTheorem, CounterTheorem, PTL DEF PlanSpec

\* If all that the rules with a say may ask for fits an int64, so does what
\* they get, which is the sum of the delays the code draws for them.
LEMMA LatenciesFit ==
  ASSUME LoopInv, CounterInv, Done, Total(LatencyBound) < HalfWord
  PROVE  /\ \A k \in Evaluated :
              /\ Latency(k) \in Nat /\ RuleDelay(rules[k], n) = Latency(k)
              /\ Latency(k) * Millisecond <= Total(Latency)
         /\ Delaying = Delayed
         /\ Total(Latency) = SumFunctionOnSet(RuleDelays, Delayed)
         /\ Total(Latency) \in 0 .. HalfWord - 1
<1> DEFINE N == Len(rules)
           g == [k \in DOMAIN rules |-> Latency(k) * Millisecond]
           h == [k \in DOMAIN rules |-> LatencyBound(k) * Millisecond]
           G(S) == SumFunctionOnSet(g, S)
           H(S) == SumFunctionOnSet(h, S)
<1>1. rules \in RuleLists /\ n \in 0 .. Word - 1
  BY DEF LoopInv, Progress, CounterInv
<1>2. /\ N \in Nat /\ DOMAIN rules = 1 .. N
      /\ \A k \in 1 .. N :
           RuleDelays[k] = RuleDelay(rules[k], n) * Millisecond /\ RuleDelays[k] \in Int
  BY <1>1, RuleDelaysTyped
<1>3. Evaluated = {k \in 1 .. i - 1 : Fires(k)} /\ Evaluated \in SUBSET (1 .. N)
  BY <1>2, EvaluatedAtEnd DEF Evaluated
<1>4. Total(Latency) = G(Evaluated) /\ Total(LatencyBound) = H(Evaluated)
  BY DEF Total
<1>5. ASSUME NEW k \in 1 .. N
      PROVE  /\ Latency(k) \in Nat /\ LatencyBound(k) \in Nat
             /\ g[k] = Latency(k) * Millisecond /\ g[k] \in Nat
             /\ h[k] = LatencyBound(k) * Millisecond /\ h[k] \in Nat
             /\ g[k] <= h[k] /\ LatencyBound(k) <= h[k]
             /\ (g[k] = 0 <=> Latency(k) = 0)
  <2>1. /\ Latency(k) \in Nat /\ LatencyBound(k) \in Nat
        /\ Latency(k) < LatencyBound(k)
    BY <1>1, <1>2, DelayIsLatency
  <2>2. g[k] = Latency(k) * Millisecond /\ h[k] = LatencyBound(k) * Millisecond
    BY <1>2
  <2> HIDE DEF g, h
  <2>3. ASSUME NEW x \in Nat, NEW y \in Nat, x < y
        PROVE  /\ x * Millisecond \in Nat /\ y * Millisecond \in Nat
               /\ x * Millisecond <= y * Millisecond /\ y <= y * Millisecond
               /\ (x * Millisecond = 0 <=> x = 0)
    BY <2>3, EngineAssumption
  <2> QED
    BY <2>1, <2>2, <2>3
<1>6. ASSUME NEW k \in Evaluated
      PROVE  RuleDelay(rules[k], n) = Latency(k)
  <2> HIDE DEF g, h
  <2>1. /\ \A j \in 1 .. N : h[j] \in Nat
        /\ \A j \in 1 .. N : h[j] \in Int
        /\ k \in 1 .. N
    BY <1>3, <1>5
  <2>2. /\ H(Evaluated) = h[k] + H(Evaluated \ {k})
        /\ H(Evaluated \ {k}) \in Nat
    <3>1. Evaluated \ {k} \in SUBSET (1 .. N)
      BY <1>3
    <3>2. SumLaws(h, N)
      BY <1>2, <2>1, SumGrows
    <3> QED
      BY <1>3, <2>1, <3>1, <3>2, Zenon DEF SumLaws
  <2> HIDE DEF H
  <2>3. LatencyBound(k) < HalfWord
    BY <1>4, <1>5, <2>1, <2>2, EngineAssumption
  <2> QED
    BY <1>1, <1>2, <2>1, <2>3, DelayIsLatency
<1>7. Delayed = {k \in Evaluated : RuleDelay(rules[k], n) > 0} /\ Delaying = Delayed
  BY <1>3, <1>6 DEF Delayed, Delaying
<1>8. /\ SumFunctionOnSet(RuleDelays, Delayed) = G(Evaluated)
      /\ G(Evaluated) \in Nat /\ H(Evaluated) \in Nat
      /\ G(Evaluated) <= H(Evaluated)
  <2>1. Delayed \in SUBSET Evaluated
    BY <1>7
  <2>2. /\ \A k \in 1 .. N : RuleDelays[k] \in Int /\ g[k] \in Nat /\ h[k] \in Nat
        /\ \A k \in Evaluated : g[k] <= h[k]
    BY <1>2, <1>3, <1>5
  <2>3. \A k \in Delayed : RuleDelays[k] = g[k]
    BY <1>2, <1>3, <1>5, <1>6, <1>7
  <2>4. \A k \in Evaluated \ Delayed : g[k] = 0
    <3>1. \A k \in Evaluated \ Delayed : ~(Latency(k) > 0) /\ k \in 1 .. N
      BY <1>3, <1>7 DEF Delaying
    <3> HIDE DEF g, h
    <3> QED
      BY <1>5, <3>1
  <2>5. N \in Nat /\ Evaluated \in SUBSET (1 .. N)
    BY <1>2, <1>3
  <2> HIDE DEF g, h, G, H, N
  <2>6. Compare(RuleDelays, g, h, Delayed, Evaluated, N)
    BY <2>1, <2>2, <2>3, <2>4, <2>5 DEF Compare
  <2>7. /\ SumFunctionOnSet(RuleDelays, Delayed) = SumFunctionOnSet(g, Evaluated)
        /\ SumFunctionOnSet(g, Evaluated) \in Nat
        /\ SumFunctionOnSet(h, Evaluated) \in Nat
        /\ SumFunctionOnSet(g, Evaluated) <= SumFunctionOnSet(h, Evaluated)
    BY <2>5, <2>6, SumsCompare
  <2> QED
    BY <2>7 DEF G, H
<1>9. ASSUME NEW k \in Evaluated
      PROVE  Latency(k) \in Nat /\ Latency(k) * Millisecond <= G(Evaluated)
  <2> HIDE DEF g, h
  <2>1. /\ \A j \in 1 .. N : g[j] \in Nat
        /\ \A j \in 1 .. N : g[j] \in Int
        /\ k \in 1 .. N
    BY <1>3, <1>5
  <2>2. Latency(k) \in Nat /\ g[k] = Latency(k) * Millisecond
    BY <1>5, <2>1
  <2>3. SumLaws(g, N) /\ Evaluated \ {k} \in SUBSET (1 .. N)
    BY <1>2, <1>3, <2>1, SumGrows
  <2>4. G(Evaluated) = g[k] + G(Evaluated \ {k}) /\ G(Evaluated \ {k}) \in Nat
    BY <1>3, <2>1, <2>3, Zenon DEF SumLaws
  <2> HIDE DEF G
  <2> QED
    BY <2>1, <2>2, <2>4
<1> HIDE DEF G, H
<1>10. G(Evaluated) \in 0 .. HalfWord - 1
  BY <1>4, <1>8, EngineAssumption
<1> QED
  BY <1>4, <1>6, <1>7, <1>8, <1>9, <1>10

\* The decision has that sum.
LEMMA DelayOfFit ==
  ASSUME LoopInv, DelayInv, CounterInv, Done, Total(LatencyBound) < HalfWord
  PROVE  d.delay = Total(Latency)
<1>1. /\ Total(Latency) = SumFunctionOnSet(RuleDelays, Delayed)
      /\ Total(Latency) \in 0 .. HalfWord - 1
  BY LatenciesFit
<1>2. Total(Latency) \in -HalfWord .. HalfWord - 1
  BY <1>1, EngineAssumption
<1>3. Wrap(Total(Latency)) = Total(Latency)
  BY <1>2, WrapOfWord
<1> QED
  BY <1>1, <1>3 DEF DelayInv

\* "Delays accumulate", for any rules, draws and width of the integers: if all
\* that may be asked for fits, the delay is the sum of the published latencies
\* of all rules with a say.
THEOREM DelaysTheorem == PlanSpec => []DelaysAccumulate
<1>1. LoopInv /\ DelayInv /\ CounterInv => DelaysAccumulate
  <2> SUFFICES ASSUME LoopInv, DelayInv, CounterInv, Done, Total(LatencyBound) < HalfWord
               PROVE  d.delay = Total(Latency) /\ Delaying = Delayed
    BY DEF DelayInv, DelaysAccumulate
  <2> QED
    BY LatenciesFit, DelayOfFit
<1> QED
  BY <1>1, LoopTheorem, DelayTheorem, CounterTheorem, PTL

---------------------------------------------------------------------------
(* One rule less. *)

\* What the first j turns make with all rules, and without rule k.
With(j) == After(rules, n, req, j)
Less(k, j) == After(RemoveAt(rules, k), n, req, j)

\* The turns of the rules that are left.
LEMMA LessTurns ==
  ASSUME rules \in RuleLists, NEW k \in 1 .. Len(rules)
  PROVE  /\ Len(RemoveAt(rules, k)) = Len(rules) - 1
         /\ DOMAIN RemoveAt(rules, k) = 1 .. Len(rules) - 1
         /\ With(0) = NoDecision /\ Less(k, 0) = NoDecision
         /\ \A j \in 1 .. Len(rules) :
              With(j) = IF ~Terminal(With(j - 1)) /\ ruleFires(rules[j], n, req)
                        THEN Enact(With(j - 1), rules[j], n) ELSE With(j - 1)
         /\ \A j \in 1 .. k - 1 :
              Less(k, j) = IF ~Terminal(Less(k, j - 1)) /\ ruleFires(rules[j], n, req)
                           THEN Enact(Less(k, j - 1), rules[j], n) ELSE Less(k, j - 1)
         /\ \A j \in k .. Len(rules) - 1 :
              Less(k, j) = IF ~Terminal(Less(k, j - 1)) /\ ruleFires(rules[j + 1], n, req)
                           THEN Enact(Less(k, j - 1), rules[j + 1], n) ELSE Less(k, j - 1)
<1> DEFINE list == RemoveAt(rules, k)
           N == Len(rules)
<1>1. N \in Nat /\ DOMAIN rules = 1 .. N /\ rules \in Seq(Range(rules))
  BY RulesTyped, RuleListsAssumption
<1>2. /\ Len(list) = N - 1 /\ DOMAIN list = 1 .. N - 1
      /\ \A j \in 1 .. k - 1 : list[j] = rules[j]
      /\ \A j \in k .. N - 1 : list[j] = rules[j + 1]
  <2> DEFINE X == Range(rules)
             u == SubSeq(rules, 1, k - 1)
             v == SubSeq(rules, k + 1, N)
  <2>0. \A j \in 1 .. N : rules[j] \in X
    BY <1>1 DEF Range
  <2>1. /\ u \in Seq(X) /\ Len(u) = k - 1
        /\ \A j \in 1 .. k - 1 : u[j] = rules[j]
    <3>1. k - 1 \in Int /\ \A j \in 1 .. k - 1 : rules[j] \in X
      BY <1>1, <2>0
    <3>2. /\ u \in Seq(X) /\ Len(u) = IF 1 <= k - 1 THEN (k - 1) - 1 + 1 ELSE 0
          /\ \A j \in 1 .. (k - 1) - 1 + 1 : u[j] = rules[1 + j - 1]
      <4> HIDE DEF X
      <4> QED
        BY <3>1, 1 \in Int, SubSeqProperties
    <3> HIDE DEF u, X
    <3> QED
      BY <1>1, <3>2
  <2>2. /\ v \in Seq(X) /\ Len(v) = N - k
        /\ \A j \in 1 .. N - k : v[j] = rules[k + j]
    <3>1. k + 1 \in Int /\ N \in Int /\ \A j \in k + 1 .. N : rules[j] \in X
      BY <1>1, <2>0
    <3>2. /\ v \in Seq(X) /\ Len(v) = IF k + 1 <= N THEN N - (k + 1) + 1 ELSE 0
          /\ \A j \in 1 .. N - (k + 1) + 1 : v[j] = rules[(k + 1) + j - 1]
      <4> HIDE DEF X, N
      <4> QED
        BY <3>1, SubSeqProperties
    <3>3. /\ (IF k + 1 <= N THEN N - (k + 1) + 1 ELSE 0) = N - k
          /\ N - (k + 1) + 1 = N - k
          /\ \A j \in 1 .. N - k : (k + 1) + j - 1 = k + j
      <4> HIDE DEF X, v, list
      <4>1. k \in Nat /\ N \in Nat /\ k <= N
        BY <1>1
      <4> HIDE DEF N
      <4> QED
        BY <4>1
    <3> HIDE DEF v, X, N
    <3> QED
      BY <3>2, <3>3
  <2>3. list = u \o v
    BY DEF RemoveAt
  <2> HIDE DEF u, v, list, X
  <2>4. /\ Len(list) = Len(u) + Len(v) /\ DOMAIN list = 1 .. Len(u) + Len(v)
        /\ \A j \in 1 .. Len(u) + Len(v) :
             list[j] = IF j <= Len(u) THEN u[j] ELSE v[j - Len(u)]
    <3>1. u \o v \in Seq(X) /\ Len(u \o v) = Len(u) + Len(v)
      BY <2>1, <2>2, ConcatProperties
    <3>2. \A j \in 1 .. Len(u) + Len(v) :
            (u \o v)[j] = IF j <= Len(u) THEN u[j] ELSE v[j - Len(u)]
      BY <2>1, <2>2, ConcatProperties
    <3> QED
      BY <2>3, <3>1, <3>2
  <2>5. Len(u) + Len(v) = N - 1
    BY <1>1, <2>1, <2>2
  <2>6. ASSUME NEW j \in 1 .. k - 1 PROVE list[j] = rules[j]
    <3>1. j \in 1 .. Len(u) + Len(v) /\ j <= Len(u)
      BY <1>1, <2>1, <2>2
    <3> QED
      BY <2>1, <2>4, <3>1
  <2>7. ASSUME NEW j \in k .. N - 1 PROVE list[j] = rules[j + 1]
    <3>1. /\ j \in 1 .. Len(u) + Len(v) /\ ~(j <= Len(u))
          /\ j - Len(u) \in 1 .. N - k /\ k + (j - Len(u)) = j + 1
      BY <1>1, <2>1, <2>2
    <3> QED
      BY <2>2, <2>4, <3>1
  <2> QED
    BY <2>4, <2>5, <2>6, <2>7
<1>3. /\ With(0) = NoDecision
      /\ \A j \in 1 .. N :
           With(j) = IF ~Terminal(With(j - 1)) /\ ruleFires(rules[j], n, req)
                     THEN Enact(With(j - 1), rules[j], n) ELSE With(j - 1)
  BY <1>1, TurnByTurn DEF With
<1> HIDE DEF list
<1>4. Len(list) \in Nat
  BY <1>1, <1>2
<1>5. /\ Less(k, 0) = NoDecision
      /\ \A j \in 1 .. N - 1 :
           Less(k, j) = IF ~Terminal(Less(k, j - 1)) /\ ruleFires(list[j], n, req)
                        THEN Enact(Less(k, j - 1), list[j], n) ELSE Less(k, j - 1)
  BY <1>2, <1>4, TurnByTurn DEF Less, list
<1>6. /\ \A j \in 1 .. k - 1 : j \in 1 .. N - 1
      /\ \A j \in k .. N - 1 : j \in 1 .. N - 1
  BY <1>1
<1> QED
  BY <1>2, <1>3, <1>5, <1>6 DEF list

\* Up to the rule that is missing the turns are the same.
LEMMA SameBefore ==
  ASSUME rules \in RuleLists, NEW k \in 1 .. Len(rules)
  PROVE  \A j \in 0 .. k - 1 : Less(k, j) = With(j)
<1> DEFINE S == {j \in Nat : j <= k - 1 => Less(k, j) = With(j)}
<1>1. 0 \in S
  BY LessTurns
<1>2. ASSUME NEW j \in Nat, j \in S
      PROVE  j + 1 \in S
  <2> SUFFICES ASSUME j + 1 <= k - 1 PROVE Less(k, j + 1) = With(j + 1)
    OBVIOUS
  <2>1. j + 1 \in 1 .. k - 1 /\ j + 1 \in 1 .. Len(rules) /\ (j + 1) - 1 = j
    BY RulesTyped
  <2>2. Less(k, j) = With(j)
    BY <1>2
  <2>3. /\ With(j + 1) = IF ~Terminal(With(j)) /\ ruleFires(rules[j + 1], n, req)
                         THEN Enact(With(j), rules[j + 1], n) ELSE With(j)
        /\ Less(k, j + 1) = IF ~Terminal(Less(k, j)) /\ ruleFires(rules[j + 1], n, req)
                            THEN Enact(Less(k, j), rules[j + 1], n) ELSE Less(k, j)
    <3> DEFINE m == j + 1
    <3>1. m \in 1 .. k - 1 /\ m \in 1 .. Len(rules) /\ m - 1 = j
      BY <2>1
    <3> HIDE DEF m
    <3>2. /\ With(m) = IF ~Terminal(With(m - 1)) /\ ruleFires(rules[m], n, req)
                       THEN Enact(With(m - 1), rules[m], n) ELSE With(m - 1)
          /\ Less(k, m) = IF ~Terminal(Less(k, m - 1)) /\ ruleFires(rules[m], n, req)
                          THEN Enact(Less(k, m - 1), rules[m], n) ELSE Less(k, m - 1)
      BY <3>1, LessTurns
    <3> QED
      BY <3>1, <3>2 DEF m
  <2> QED
    BY <2>2, <2>3
<1> HIDE DEF S
<1>3. \A j \in Nat : j \in S
  BY <1>1, <1>2, Induction
<1> QED
  BY <1>3 DEF S

\* How two decisions agree: a has x more delay than b (in an int64) and the
\* same terminal; if t, the same throttle; if all, they are the same.
Agree(a, b, x, t, all) ==
  /\ IsDecision(a) /\ IsDecision(b)
  /\ a.status = b.status /\ a.statusRule = b.statusRule
  /\ a.drop = b.drop /\ a.dropRule = b.dropRule
  /\ b.delay \in -HalfWord .. HalfWord - 1
  /\ a.delay = Wrap(b.delay + x)
  /\ t => a.throttle_bps = b.throttle_bps /\ a.throttleRule = b.throttleRule
  /\ all => a = b

\* A word may be wrapped before something is added.
LEMMA WrapEarly ==
  ASSUME NEW x \in Int, NEW y \in Int
  PROVE  Wrap(Wrap(x) + y) = Wrap(x + y) /\ Wrap(x + Wrap(y)) = Wrap(x + y)
<1>1. ASSUME NEW u \in Int
      PROVE  Wrap(u) \in Int /\ Wrap(Wrap(u)) = Wrap(u)
  <2>1. Wrap(u) \in -HalfWord .. HalfWord - 1
    BY WrapIsWord
  <2> QED
    BY <2>1, WrapOfWord, EngineAssumption
<1>2. Wrap(Wrap(x) + Wrap(y)) = Wrap(x + y)
  BY WrapOfSum
<1>3. Wrap(Wrap(Wrap(x)) + Wrap(y)) = Wrap(Wrap(x) + y)
  BY <1>1, WrapOfSum
<1>4. Wrap(Wrap(x) + Wrap(Wrap(y))) = Wrap(x + Wrap(y))
  BY <1>1, WrapOfSum
<1> QED
  BY <1>1, <1>2, <1>3, <1>4

\* Decisions that agree still do after the same rule.
LEMMA AgreeStep ==
  ASSUME NEW a, NEW b, NEW x \in Int, NEW t \in BOOLEAN, NEW all \in BOOLEAN,
         Agree(a, b, x, t, all), NEW r, NEW c, RuleDelay(r, c) \in Int
  PROVE  Agree(Enact(a, r, c), Enact(b, r, c), x, t, all)
<1> DEFINE a1 == Enact(a, r, c)
           b1 == Enact(b, r, c)
           y == RuleDelay(r, c) * Millisecond
<1>1. Enacted(a1, a, r, c) /\ Enacted(b1, b, r, c)
  BY EnactFields DEF Agree
<1>2. all => a1 = b1
  BY DEF Agree
<1> HIDE DEF a1, b1
<1>3. y \in Int /\ b.delay \in Int
  BY EngineAssumption DEF Agree
<1>4. /\ AddDelay(a, r, c).delay = IF RuleDelay(r, c) > 0 THEN Wrap(a.delay + Wrap(y)) ELSE a.delay
      /\ AddDelay(b, r, c).delay = IF RuleDelay(r, c) > 0 THEN Wrap(b.delay + Wrap(y)) ELSE b.delay
  BY DEF Agree, AddDelay, IsDecision
<1> HIDE DEF y
<1>5. /\ AddDelay(b, r, c).delay \in -HalfWord .. HalfWord - 1
      /\ AddDelay(a, r, c).delay = Wrap(AddDelay(b, r, c).delay + x)
  <2>1. CASE RuleDelay(r, c) > 0
    <3>1. Wrap(b.delay + Wrap(y)) = Wrap(b.delay + y)
      BY <1>3, WrapEarly
    <3>2. /\ AddDelay(b, r, c).delay = Wrap(b.delay + y)
          /\ AddDelay(b, r, c).delay \in -HalfWord .. HalfWord - 1
      <4>1. b.delay + y \in Int
        BY <1>3
      <4> QED
        BY <1>4, <2>1, <3>1, <4>1, WrapIsWord
    <3>3. AddDelay(a, r, c).delay = Wrap((b.delay + x) + y)
      <4>1. AddDelay(a, r, c).delay = Wrap(Wrap(b.delay + x) + Wrap(y))
        BY <1>4, <2>1 DEF Agree
      <4>2. b.delay + x \in Int
        BY <1>3
      <4> QED
        BY <1>3, <4>1, <4>2, WrapOfSum
    <3>4. (b.delay + x) + y = (b.delay + y) + x /\ b.delay + y \in Int
      BY <1>3
    <3>5. Wrap(Wrap(b.delay + y) + x) = Wrap((b.delay + y) + x)
      BY <3>4, WrapEarly
    <3> QED
      BY <3>2, <3>3, <3>4, <3>5
  <2>2. CASE ~(RuleDelay(r, c) > 0)
    BY <1>4, <2>2 DEF Agree
  <2> QED
    BY <2>1, <2>2
<1>6. /\ a1.status = b1.status /\ a1.statusRule = b1.statusRule
      /\ a1.drop = b1.drop /\ a1.dropRule = b1.dropRule
      /\ t => a1.throttle_bps = b1.throttle_bps /\ a1.throttleRule = b1.throttleRule
  BY <1>1 DEF Agree, Enacted
<1>7. /\ IsDecision(a1) /\ IsDecision(b1)
      /\ a1.delay = AddDelay(a, r, c).delay /\ b1.delay = AddDelay(b, r, c).delay
  BY <1>1 DEF Enacted
<1>8. Agree(a1, b1, x, t, all)
  BY <1>2, <1>5, <1>6, <1>7 DEF Agree
<1> QED
  BY <1>8 DEF a1, b1

\* What agrees after the turn of rule k agrees in the end.
LEMMA SameBehind ==
  ASSUME rules \in RuleLists, n \in 0 .. Word - 1, NEW k \in 1 .. Len(rules),
         NEW x \in Int, NEW t \in BOOLEAN, NEW all \in BOOLEAN,
         Agree(With(k), Less(k, k - 1), x, t, all)
  PROVE  Agree(Decide(rules, n, req), Decide(RemoveAt(rules, k), n, req), x, t, all)
<1> DEFINE N == Len(rules)
           P(j) == Agree(With(j), Less(k, j - 1), x, t, all)
           S == {j \in Nat : k + j <= N => P(k + j)}
<1>0. N \in Nat
  BY RulesTyped
<1>1. 0 \in S
  <2>1. k + 0 = k
    OBVIOUS
  <2> HIDE DEF N
  <2> QED
    BY <2>1
<1>2. ASSUME NEW j \in Nat, j \in S
      PROVE  j + 1 \in S
  <2> SUFFICES ASSUME k + (j + 1) <= N PROVE P(k + (j + 1))
    OBVIOUS
  <2> DEFINE m == k + j
             l == k + (j + 1)
  <2>1. /\ l = m + 1 /\ l \in 1 .. N /\ m \in k .. N - 1 /\ l - 1 = m /\ m <= N
    BY <1>0
  <2>2. Agree(With(m), Less(k, m - 1), x, t, all)
    BY <1>2, <2>1
  <2> HIDE DEF m, l
  <2>3. Terminal(With(m)) <=> Terminal(Less(k, m - 1))
    BY <2>2 DEF Agree, Terminal
  <2>4. Agree(Enact(With(m), rules[l], n), Enact(Less(k, m - 1), rules[l], n), x, t, all)
    <3>1. RuleDelay(rules[l], n) \in Int
      BY <2>1, RulesTyped, RuleDelayTyped
    <3> QED
      BY <2>2, <3>1, AgreeStep
  <2>5. With(l) = IF ~Terminal(With(m)) /\ ruleFires(rules[l], n, req)
                  THEN Enact(With(m), rules[l], n) ELSE With(m)
    <3>1. With(l) = IF ~Terminal(With(l - 1)) /\ ruleFires(rules[l], n, req)
                    THEN Enact(With(l - 1), rules[l], n) ELSE With(l - 1)
      BY <2>1, LessTurns
    <3> QED
      BY <2>1, <3>1
  <2>6. Less(k, m) = IF ~Terminal(Less(k, m - 1)) /\ ruleFires(rules[l], n, req)
                     THEN Enact(Less(k, m - 1), rules[l], n) ELSE Less(k, m - 1)
    <3>1. Less(k, m) = IF ~Terminal(Less(k, m - 1)) /\ ruleFires(rules[m + 1], n, req)
                       THEN Enact(Less(k, m - 1), rules[m + 1], n) ELSE Less(k, m - 1)
      BY <2>1, LessTurns
    <3> QED
      BY <2>1, <3>1
  <2>7. Agree(With(l), Less(k, m), x, t, all)
    BY <2>2, <2>3, <2>4, <2>5, <2>6
  <2>8. P(l)
    BY <2>1, <2>7
  <2> QED
    BY <2>8 DEF l
<1> HIDE DEF S, P
<1>3. \A j \in Nat : j \in S
  BY <1>1, <1>2, Induction
<1>4. N - k \in Nat /\ k + (N - k) = N /\ N <= N
  BY <1>0
<1>5. P(N)
  <2>1. N - k \in S
    BY <1>3, <1>4
  <2>2. k + (N - k) <= N => P(k + (N - k))
    BY <2>1 DEF S
  <2> HIDE DEF N
  <2> QED
    BY <1>4, <2>2
<1>6. Decide(rules, n, req) = With(N)
  BY RulesTyped, DecideIsFold DEF With, After
<1>7. Decide(RemoveAt(rules, k), n, req) = Less(k, N - 1)
  <2>1. Len(RemoveAt(rules, k)) = N - 1 /\ DOMAIN RemoveAt(rules, k) = 1 .. N - 1 /\ N - 1 \in Nat
    BY <1>0, LessTurns
  <2> HIDE DEF N
  <2> QED
    BY <2>1, DecideIsFold DEF Less, After
<1> QED
  BY <1>5, <1>6, <1>7 DEF P

\* The decisions on the way to the one the loop ends with: an int64 of delay,
\* not terminal before the last, and a throttle from the first rule that has
\* one.
LEMMA Trail ==
  ASSUME LoopInv, CounterInv
  PROVE  \A m \in 0 .. i - 1 :
           /\ IsDecision(With(m)) /\ With(m).delay \in -HalfWord .. HalfWord - 1
           /\ m <= i - 2 => ~Terminal(With(m))
           /\ With(m).throttle_bps = 0 =>
                \A j \in 1 .. m : ~(Fires(j) /\ IsThrottle(rules[j]))
<1> DEFINE Q(m) == /\ IsDecision(With(m)) /\ With(m).delay \in -HalfWord .. HalfWord - 1
                   /\ m <= i - 2 => ~Terminal(With(m))
                   /\ With(m).throttle_bps = 0 =>
                        \A j \in 1 .. m : ~(Fires(j) /\ IsThrottle(rules[j]))
           S == {m \in Nat : m <= i - 1 => Q(m)}
<1>0. /\ rules \in RuleLists /\ n \in 0 .. Word - 1
      /\ i \in 1 .. Len(rules) + 1 /\ Len(rules) \in Nat /\ DOMAIN rules = 1 .. Len(rules)
      /\ \A k \in 1 .. i - 2 : LetsOn(k)
  BY RulesTyped DEF LoopInv, Progress, CounterInv
<1>1. /\ After(rules, n, req, 0) = NoDecision
      /\ \A m \in 1 .. Len(rules) :
           With(m) = IF ~Terminal(With(m - 1)) /\ ruleFires(rules[m], n, req)
                     THEN Enact(With(m - 1), rules[m], n) ELSE With(m - 1)
  BY <1>0, TurnByTurn DEF With
<1>2. Q(0)
  <2>1. With(0) = NoDecision
    BY <1>1 DEF With
  <2>2. /\ IsDecision(NoDecision) /\ NoDecision.delay = 0 /\ ~Terminal(NoDecision)
    BY DEF NoDecision, IsDecision, Terminal
  <2>3. 0 \in -HalfWord .. HalfWord - 1
    BY EngineAssumption
  <2> QED
    BY <2>1, <2>2, <2>3
<1>3. ASSUME NEW m \in Nat, m + 1 <= i - 1, Q(m)
      PROVE  Q(m + 1)
  <2> DEFINE l == m + 1
             a == With(m)
             b == With(l)
             r == rules[l]
  <2>1. /\ l \in 1 .. Len(rules) /\ l - 1 = m /\ l \in DOMAIN rules /\ m <= i - 2
        /\ l <= i - 2 => l \in 1 .. i - 2
        /\ \A j \in 1 .. l : j \in 1 .. m \/ j = l
    BY <1>0, <1>3
  <2>2. /\ IsDecision(a) /\ a.delay \in -HalfWord .. HalfWord - 1 /\ ~Terminal(a)
        /\ a.throttle_bps = 0 => \A j \in 1 .. m : ~(Fires(j) /\ IsThrottle(rules[j]))
    BY <1>3, <2>1
  <2> HIDE DEF l
  <2>3. b = IF Fires(l) THEN Enact(a, r, n) ELSE a
    <3>1. ruleFires(rules[l], n, req) <=> Fires(l)
      BY <1>0, <2>1, FiresByDraw
    <3>2. b = IF ~Terminal(With(l - 1)) /\ ruleFires(rules[l], n, req)
              THEN Enact(With(l - 1), rules[l], n) ELSE With(l - 1)
      BY <1>1, <2>1
    <3> QED
      BY <2>1, <2>2, <3>1, <3>2
  <2> HIDE DEF a, b
  <2>4. CASE ~Fires(l)
    <3>1. b = a
      BY <2>3, <2>4
    <3>2. Q(l)
      BY <2>1, <2>2, <2>4, <3>1 DEF b
    <3> QED
      BY <3>2 DEF l
  <2>5. CASE Fires(l)
    <3>1. Enacted(b, a, r, n)
      BY <2>2, <2>3, <2>5, EnactFields
    <3>2. b.delay \in -HalfWord .. HalfWord - 1
      <4>1. RuleDelay(r, n) \in Int
        BY <1>0, <2>1, RuleDelayTyped
      <4>2. AddDelay(a, r, n).delay =
              IF RuleDelay(r, n) > 0
              THEN Wrap(a.delay + Wrap(RuleDelay(r, n) * Millisecond)) ELSE a.delay
        BY <2>2 DEF AddDelay, IsDecision
      <4>3. RuleDelay(r, n) * Millisecond \in Int
        BY <4>1, EngineAssumption
      <4>4. a.delay + Wrap(RuleDelay(r, n) * Millisecond) \in Int
        <5>1. Wrap(RuleDelay(r, n) * Millisecond) \in -HalfWord .. HalfWord - 1
          BY <4>3, WrapIsWord
        <5> QED
          BY <2>2, <5>1, EngineAssumption
      <4>5. Wrap(a.delay + Wrap(RuleDelay(r, n) * Millisecond)) \in -HalfWord .. HalfWord - 1
        BY <4>4, WrapIsWord
      <4> QED
        BY <2>2, <3>1, <4>2, <4>5 DEF Enacted
    <3>3. ASSUME l <= i - 2 PROVE ~Terminal(b)
      <4>1. ~IsTerminal(r)
        BY <1>0, <2>1, <2>5, <3>3 DEF LetsOn
      <4> QED
        BY <2>2, <3>1, <4>1 DEF Enacted, Terminal, IsTerminal
    <3>4. ASSUME b.throttle_bps = 0 PROVE a.throttle_bps = 0 /\ ~IsThrottle(r)
      <4>1. r.fault.throttle_bps \in Int
        BY <1>0, <2>1, RulesTyped DEF Faults
      <4> QED
        BY <3>1, <3>4, <4>1 DEF Enacted, IsThrottle
    <3>5. ASSUME b.throttle_bps = 0, NEW j \in 1 .. l
          PROVE  ~(Fires(j) /\ IsThrottle(rules[j]))
      BY <2>1, <2>2, <3>4, <3>5
    <3>6. IsDecision(b)
      BY <3>1 DEF Enacted
    <3>7. Q(l)
      BY <3>2, <3>3, <3>5, <3>6 DEF b
    <3> QED
      BY <3>7 DEF l
  <2> QED
    BY <2>4, <2>5
<1> HIDE DEF Q
<1>4. 0 \in S
  BY <1>2
<1>5. ASSUME NEW m \in Nat, m \in S
      PROVE  m + 1 \in S
  <2> SUFFICES ASSUME m + 1 <= i - 1 PROVE Q(m + 1)
    OBVIOUS
  <2>1. m <= i - 1
    BY <1>0
  <2> QED
    BY <1>3, <1>5, <2>1
<1> HIDE DEF S
<1>6. \A m \in Nat : m \in S
  BY <1>4, <1>5, Induction
<1>7. \A m \in 0 .. i - 1 : Q(m)
  BY <1>0, <1>6 DEF S
<1> QED
  BY <1>7 DEF Q

\* Without a rule that has no say the decision is the same.
LEMMA NoSay ==
  ASSUME LoopInv, CounterInv, Done, d = After(rules, n, req, i - 1), LoopIsDecide,
         NEW k \in DOMAIN rules, k \notin Evaluated
  PROVE  Decide(RemoveAt(rules, k), n, req) = d
<1>0. /\ rules \in RuleLists /\ n \in 0 .. Word - 1 /\ k \in 1 .. Len(rules)
      /\ i \in 1 .. Len(rules) + 1 /\ Len(rules) \in Nat
      /\ d = Decide(rules, n, req) /\ d = With(i - 1)
  BY RulesTyped DEF LoopInv, Progress, CounterInv, LoopIsDecide, With
<1>1. CASE k <= i - 1
  <2>1. ~Fires(k) /\ k \in 1 .. i - 1 /\ k - 1 \in 0 .. i - 1 /\ k - 1 \in 0 .. k - 1
    BY <1>0, <1>1, EvaluatedAtEnd
  <2>2. With(k) = With(k - 1)
    <3>1. ~ruleFires(rules[k], n, req)
      BY <1>0, <2>1, FiresByDraw
    <3>2. With(k) = IF ~Terminal(With(k - 1)) /\ ruleFires(rules[k], n, req)
                    THEN Enact(With(k - 1), rules[k], n) ELSE With(k - 1)
      BY <1>0, LessTurns
    <3> QED
      BY <3>1, <3>2
  <2>3. Less(k, k - 1) = With(k - 1)
    BY <1>0, <2>1, SameBefore
  <2>4. IsDecision(With(k - 1)) /\ With(k - 1).delay \in -HalfWord .. HalfWord - 1
    BY <2>1, Trail
  <2>5. With(k - 1).delay = Wrap(With(k - 1).delay + 0)
    <3>1. With(k - 1).delay + 0 = With(k - 1).delay
      BY <2>4, EngineAssumption
    <3> QED
      BY <2>4, <3>1, WrapOfWord
  <2>6. Agree(With(k), Less(k, k - 1), 0, TRUE, TRUE)
    BY <2>2, <2>3, <2>4, <2>5 DEF Agree
  <2>7. Agree(Decide(rules, n, req), Decide(RemoveAt(rules, k), n, req), 0, TRUE, TRUE)
    BY <1>0, <2>6, 0 \in Int, TRUE \in BOOLEAN, SameBehind, Zenon
  <2> QED
    BY <1>0, <2>7 DEF Agree
<1>2. CASE ~(k <= i - 1)
  <2> DEFINE list == RemoveAt(rules, k)
  <2>1. Terminal(d) /\ i - 1 \in 0 .. k - 1 /\ i - 1 \in 0 .. Len(rules) - 1
    BY <1>0, <1>2 DEF Done
  <2>2. Len(list) = Len(rules) - 1 /\ DOMAIN list = 1 .. Len(rules) - 1
    BY <1>0, LessTurns
  <2>3. After(list, n, req, i - 1) = d
    <3>1. Less(k, i - 1) = With(i - 1)
      BY <1>0, <2>1, SameBefore
    <3> QED
      BY <1>0, <3>1 DEF Less
  <2> HIDE DEF list
  <2>4. /\ Len(list) \in Nat /\ DOMAIN list = 1 .. Len(list) /\ i - 1 \in 0 .. Len(list)
        /\ Terminal(After(list, n, req, i - 1))
    BY <1>0, <2>1, <2>2, <2>3
  <2>5. Decide(list, n, req) = d
    BY <2>3, <2>4, TerminalStays
  <2> QED
    BY <2>5 DEF list
<1> QED
  BY <1>1, <1>2

\* What a rule adds to the delay.
Share(k) == IF RuleDelay(rules[k], n) > 0 THEN RuleDelay(rules[k], n) * Millisecond ELSE 0

\* Without a rule that has a say and is no terminal, the decision is short of
\* its delay, and of its throttle if that was the one.
LEMMA OneSayLess ==
  ASSUME LoopInv, CounterInv, Done, LoopIsDecide,
         NEW k \in Evaluated, ~IsTerminal(rules[k])
  PROVE  /\ Agree(d, Decide(RemoveAt(rules, k), n, req), Share(k),
                  k \notin FirstEvaluated(IsThrottle), FALSE)
         /\ Share(k) \in Int
<1> DEFINE a == With(k)
           b == With(k - 1)
           r == rules[k]
           y == RuleDelay(r, n) * Millisecond
           t == k \notin FirstEvaluated(IsThrottle)
<1>0. /\ rules \in RuleLists /\ n \in 0 .. Word - 1 /\ Len(rules) \in Nat
      /\ i \in 1 .. Len(rules) + 1 /\ DOMAIN rules = 1 .. Len(rules)
      /\ d = Decide(rules, n, req)
  BY RulesTyped DEF LoopInv, Progress, CounterInv, LoopIsDecide
<1>1. /\ Evaluated = {j \in 1 .. i - 1 : Fires(j)}
      /\ k \in 1 .. Len(rules) /\ k \in DOMAIN rules /\ Fires(k)
      /\ k - 1 \in 0 .. i - 1 /\ k - 1 <= i - 2 /\ k - 1 \in 0 .. k - 1
  BY <1>0, EvaluatedAtEnd
<1>2. RuleDelay(r, n) \in Int /\ y \in Int
  BY <1>0, <1>1, RuleDelayTyped, EngineAssumption
<1>3. /\ IsDecision(b) /\ b.delay \in -HalfWord .. HalfWord - 1 /\ ~Terminal(b)
      /\ b.throttle_bps = 0 => \A j \in 1 .. k - 1 : ~(Fires(j) /\ IsThrottle(rules[j]))
  BY <1>1, Trail
<1>4. a = Enact(b, r, n) /\ Less(k, k - 1) = b
  <2>1. a = IF ~Terminal(b) /\ ruleFires(r, n, req) THEN Enact(b, r, n) ELSE b
    BY <1>0, <1>1, LessTurns
  <2>2. ruleFires(r, n, req)
    BY <1>0, <1>1, FiresByDraw
  <2>3. Less(k, k - 1) = With(k - 1)
    BY <1>0, <1>1, SameBefore
  <2> QED
    BY <1>3, <2>1, <2>2, <2>3
<1> HIDE DEF a, b
<1>5. Enacted(a, b, r, n)
  BY <1>3, <1>4, EnactFields
<1>6. Share(k) \in Int /\ a.delay = Wrap(b.delay + Share(k))
  <2>1. AddDelay(b, r, n).delay =
          IF RuleDelay(r, n) > 0 THEN Wrap(b.delay + Wrap(y)) ELSE b.delay
    BY <1>3 DEF AddDelay, IsDecision
  <2>2. Share(k) = IF RuleDelay(r, n) > 0 THEN y ELSE 0
    BY DEF Share
  <2> HIDE DEF y
  <2>3. b.delay \in Int /\ b.delay + 0 = b.delay
    BY <1>3, EngineAssumption
  <2>4. Wrap(b.delay + Wrap(y)) = Wrap(b.delay + y) /\ Wrap(b.delay) = b.delay
    BY <1>2, <1>3, <2>3, WrapEarly, WrapOfWord
  <2>5. a.delay = AddDelay(b, r, n).delay
    BY <1>5 DEF Enacted
  <2> QED
    BY <1>2, <2>1, <2>2, <2>3, <2>4, <2>5
<1>7. /\ IsDecision(a) /\ a.status = b.status /\ a.statusRule = b.statusRule
      /\ a.drop = b.drop /\ a.dropRule = b.dropRule
  BY <1>5 DEF Enacted, IsTerminal
<1>8. ASSUME t
      PROVE  a.throttle_bps = b.throttle_bps /\ a.throttleRule = b.throttleRule
  <2>1. ~IsThrottle(r) \/ \E j \in Evaluated : j < k /\ IsThrottle(rules[j])
    BY <1>8 DEF FirstEvaluated
  <2>2. ASSUME NEW j \in Evaluated, j < k, IsThrottle(rules[j])
        PROVE  b.throttle_bps # 0
    <3>1. j \in 1 .. k - 1 /\ Fires(j)
      BY <1>0, <1>1, <2>2
    <3> QED
      BY <1>3, <2>2, <3>1
  <2> QED
    BY <1>5, <2>1, <2>2 DEF Enacted, IsThrottle
<1>9. t \in BOOLEAN /\ FALSE \in BOOLEAN
  OBVIOUS
<1> HIDE DEF t
<1>10. Agree(a, b, Share(k), t, FALSE)
  BY <1>3, <1>6, <1>7, <1>8 DEF Agree
<1>11. Agree(With(k), Less(k, k - 1), Share(k), t, FALSE)
  BY <1>4, <1>10 DEF a
<1>12. Agree(Decide(rules, n, req), Decide(RemoveAt(rules, k), n, req), Share(k), t, FALSE)
  BY <1>0, <1>1, <1>6, <1>9, <1>11, SameBehind
<1> QED
  BY <1>0, <1>6, <1>12 DEF t

\* A word that wraps to a number at least x once x is added does not wrap.
LEMMA NoWrap ==
  ASSUME NEW w \in -HalfWord .. HalfWord - 1, NEW x \in Nat,
         NEW v \in 0 .. HalfWord - 1, x <= v, v = Wrap(w + x)
  PROVE  v = w + x
<1>1. Word \in Nat \ {0} /\ HalfWord \in Nat /\ w \in Int /\ w + x \in Int
  BY EngineAssumption DEF Word
<1>2. PICK q \in Int : Wrap(w + x) = (w + x) - Word * q
  BY <1>1, WrapIsWord
<1>3. Word * q \in Int
  BY <1>1
<1>4. v - x \in -HalfWord .. HalfWord - 1 /\ w = (v - x) + Word * q
  BY <1>1, <1>2, <1>3
<1>5. Wrap(w) = v - x
  BY <1>1, <1>4, WrapIsUnique
<1>6. Wrap(w) = w
  BY WrapOfWord
<1> QED
  BY <1>1, <1>5, <1>6

\* "Adding or removing one rule never changes another rule's decisions", for
\* any rules, draws and counters: a decision without a rule lacks what that
\* rule had a say in, and nothing else.
THEOREM IndependenceTheorem == PlanSpec => []RulesAreIndependent
<1>1. LoopInv /\ DelayInv /\ CounterInv /\ TurnInv /\ LoopIsDecide => RulesAreIndependent
  <2> SUFFICES ASSUME LoopInv, DelayInv, CounterInv, TurnInv, LoopIsDecide, Done,
                      NEW k \in DOMAIN rules
               PROVE  LET without == Decide(RemoveAt(rules, k), n, req)
                      IN  /\ k \notin Evaluated => without = d
                          /\ k \in Evaluated /\ ~IsTerminal(rules[k]) =>
                               /\ without.status = d.status /\ without.statusRule = d.statusRule
                               /\ without.drop = d.drop /\ without.dropRule = d.dropRule
                               /\ Total(LatencyBound) < HalfWord =>
                                    d.delay = without.delay + Latency(k) * Millisecond
                               /\ k \notin FirstEvaluated(IsThrottle) =>
                                    /\ without.throttle_bps = d.throttle_bps
                                    /\ without.throttleRule = d.throttleRule
    BY DEF RulesAreIndependent
  <2> DEFINE without == Decide(RemoveAt(rules, k), n, req)
  <2>1. CASE k \notin Evaluated
    BY <2>1, NoSay DEF TurnInv
  <2>2. CASE k \in Evaluated /\ ~IsTerminal(rules[k])
    <3>1. /\ Agree(d, without, Share(k), k \notin FirstEvaluated(IsThrottle), FALSE)
          /\ Share(k) \in Int
      BY <2>2, OneSayLess
    <3> HIDE DEF without
    <3>2. /\ without.status = d.status /\ without.statusRule = d.statusRule
          /\ without.drop = d.drop /\ without.dropRule = d.dropRule
          /\ k \notin FirstEvaluated(IsThrottle) =>
               /\ without.throttle_bps = d.throttle_bps
               /\ without.throttleRule = d.throttleRule
      BY <3>1 DEF Agree
    <3>3. ASSUME Total(LatencyBound) < HalfWord
          PROVE  d.delay = without.delay + Latency(k) * Millisecond
      <4> DEFINE x == Latency(k) * Millisecond
                 v == Total(Latency)
      <4>1. /\ Latency(k) \in Nat /\ RuleDelay(rules[k], n) = Latency(k)
            /\ x <= v /\ v \in 0 .. HalfWord - 1
        BY <2>2, <3>3, LatenciesFit
      <4>2. d.delay = v
        BY <3>3, LatenciesFit, DelayOfFit
      <4>3. Share(k) = x /\ x \in Nat
        BY <4>1, EngineAssumption DEF Share
      <4>4. d.delay = Wrap(without.delay + Share(k)) /\ without.delay \in -HalfWord .. HalfWord - 1
        BY <3>1 DEF Agree
      <4> HIDE DEF x, v
      <4>5. v = without.delay + x
        BY <4>1, <4>2, <4>3, <4>4, NoWrap
      <4> QED
        BY <4>2, <4>5 DEF x
    <3> QED
      BY <2>2, <3>2, <3>3 DEF without
  <2> QED
    BY <2>1, <2>2
<1> QED
  BY <1>1, LoopTheorem, DelayTheorem, CounterTheorem, TurnsTaken, PTL

---------------------------------------------------------------------------
(* The type of the decision. *)

\* The decision so far has its type: the delay is an int64.
THEOREM DecideTypeTheorem == PlanSpec => []TypeOK
<1>1. LoopInv /\ DelayInv /\ CounterInv => TypeOK
  <2> SUFFICES ASSUME LoopInv, DelayInv, CounterInv PROVE TypeOK
    OBVIOUS
  <2>1. rules \in RuleLists /\ i \in 1 .. Len(rules) + 1 /\ IsDecision(d)
    BY DEF LoopInv, Progress
  <2>2. DOMAIN d = DOMAIN NoDecision
    BY <2>1 DEF IsDecision, NoDecision
  <2>3. d.delay \in -HalfWord .. HalfWord - 1
    <3>1. \A k \in 1 .. Len(rules) : RuleDelays[k] \in Int
      BY <2>1, RuleDelaysTyped DEF CounterInv
    <3>2. Delayed \in SUBSET (1 .. Len(rules)) /\ Len(rules) \in Nat
      BY <2>1, RulesTyped DEF Delayed
    <3>3. SumFunctionOnSet(RuleDelays, Delayed) \in Int
      BY <3>1, <3>2, SumGrows DEF SumLaws
    <3> QED
      BY <3>3, WrapIsWord DEF DelayInv
  <2>4. d.drop \in BOOLEAN
    BY DEF LoopInv, Terminals
  <2> QED
    BY <2>1, <2>2, <2>3, <2>4 DEF TypeOK
<1> QED
  BY <1>1, LoopTheorem, DelayTheorem, CounterTheorem, PTL

---------------------------------------------------------------------------
(* The totals. *)

\* The parts of two sequences are those of their concatenation.
LEMMA RangeOfConcat ==
  ASSUME NEW X, NEW s \in Seq(X), NEW t \in Seq(X)
  PROVE  s \o t \in Seq(X) /\ Range(s \o t) = Range(s) \cup Range(t)
<1>1. /\ DOMAIN (s \o t) = 1 .. Len(s) + Len(t)
      /\ \A k \in 1 .. Len(s) + Len(t) :
           (s \o t)[k] = IF k <= Len(s) THEN s[k] ELSE t[k - Len(s)]
      /\ Len(s) \in Nat /\ Len(t) \in Nat
      /\ DOMAIN s = 1 .. Len(s) /\ DOMAIN t = 1 .. Len(t)
      /\ s \o t \in Seq(X)
  OBVIOUS
<1>2. ASSUME NEW y \in Range(s \o t) PROVE y \in Range(s) \cup Range(t)
  <2>1. PICK k \in 1 .. Len(s) + Len(t) : y = (s \o t)[k]
    BY <1>1, <1>2 DEF Range
  <2>2. CASE k <= Len(s)
    BY <1>1, <2>1, <2>2 DEF Range
  <2>3. CASE ~(k <= Len(s))
    <3>1. k - Len(s) \in 1 .. Len(t) /\ y = t[k - Len(s)]
      BY <1>1, <2>1, <2>3
    <3> QED
      BY <1>1, <3>1 DEF Range
  <2> QED
    BY <2>2, <2>3
<1>3. ASSUME NEW y \in Range(s) PROVE y \in Range(s \o t)
  <2>1. PICK k \in 1 .. Len(s) : y = s[k]
    BY <1>1, <1>3 DEF Range
  <2>2. k \in 1 .. Len(s) + Len(t) /\ y = (s \o t)[k]
    BY <1>1, <2>1
  <2> QED
    BY <1>1, <2>2 DEF Range
<1>4. ASSUME NEW y \in Range(t) PROVE y \in Range(s \o t)
  <2>1. PICK k \in 1 .. Len(t) : y = t[k]
    BY <1>1, <1>4 DEF Range
  <2>2. k + Len(s) \in 1 .. Len(s) + Len(t) /\ y = (s \o t)[k + Len(s)]
    BY <1>1, <2>1
  <2> QED
    BY <1>1, <2>2 DEF Range
<1> QED
  BY <1>1, <1>2, <1>3, <1>4

\* The phrase for a decision has the words of what the decision does.
LEMMA SummaryWords ==
  ASSUME NEW dec
  PROVE  LET Says(word) == \E part \in Range(Summary(dec)) : part[1] = word
         IN  /\ Says("pass") <=> Pass(dec)
             /\ Says("delay") <=> dec.delay > 0
             /\ Says("status") <=> dec.status # 0
             /\ Says("drop") <=> dec.drop
             /\ Says("throttle") <=> dec.throttle_bps > 0
<1> DEFINE Says(word) == \E part \in Range(Summary(dec)) : part[1] = word
           delay == <<"delay", Milliseconds(dec.delay), dec.delayRules>>
           status == <<"status", dec.status, dec.statusRule>>
           drop == <<"drop", dec.dropRule>>
           throttle == <<"throttle", dec.throttle_bps, dec.throttleRule>>
           s1 == IF dec.delay > 0 THEN <<delay>> ELSE <<>>
           s2 == IF dec.status # 0 THEN <<status>> ELSE <<>>
           s3 == IF dec.drop THEN <<drop>> ELSE <<>>
           s4 == IF dec.throttle_bps > 0 THEN <<throttle>> ELSE <<>>
<1>1. /\ delay[1] = "delay" /\ status[1] = "status"
      /\ drop[1] = "drop" /\ throttle[1] = "throttle"
  OBVIOUS
<1>2. Pass(dec) => Range(Summary(dec)) = {<<"pass">>}
  <2>1. Range(<< <<"pass">> >>) = {<<"pass">>}
    BY DEF Range
  <2> QED
    BY <2>1 DEF Summary
<1>3. ~Pass(dec) => Summary(dec) = s1 \o s2 \o s3 \o s4
  BY DEF Summary
<1> HIDE DEF delay, status, drop, throttle
<1> DEFINE X == {delay, status, drop, throttle}
<1>4. /\ s1 \in Seq(X) /\ Range(s1) = IF dec.delay > 0 THEN {delay} ELSE {}
      /\ s2 \in Seq(X) /\ Range(s2) = IF dec.status # 0 THEN {status} ELSE {}
      /\ s3 \in Seq(X) /\ Range(s3) = IF dec.drop THEN {drop} ELSE {}
      /\ s4 \in Seq(X) /\ Range(s4) = IF dec.throttle_bps > 0 THEN {throttle} ELSE {}
  <2>1. \A x : Range(<<x>>) = {x} /\ \A Y : x \in Y => <<x>> \in Seq(Y)
    BY DEF Range
  <2>2. Range(<<>>) = {} /\ \A Y : <<>> \in Seq(Y)
    BY DEF Range
  <2>3. ASSUME NEW P \in BOOLEAN, NEW x \in X
        PROVE  LET s == IF P THEN <<x>> ELSE <<>>
               IN  s \in Seq(X) /\ Range(s) = IF P THEN {x} ELSE {}
    <3>1. CASE P
      BY <2>1, <3>1
    <3>2. CASE ~P
      BY <2>2, <3>2
    <3> QED
      BY <3>1, <3>2
  <2>4. delay \in X /\ status \in X /\ drop \in X /\ throttle \in X
    OBVIOUS
  <2> HIDE DEF X
  <2> QED
    BY <2>3, <2>4
<1> HIDE DEF s1, s2, s3, s4, X
<1>5. Range(s1 \o s2 \o s3 \o s4) = Range(s1) \cup Range(s2) \cup Range(s3) \cup Range(s4)
  <2> DEFINE u == s1 \o s2
             v == u \o s3
  <2>1. u \in Seq(X) /\ Range(u) = Range(s1) \cup Range(s2)
    BY <1>4, RangeOfConcat
  <2> HIDE DEF u
  <2>2. v \in Seq(X) /\ Range(v) = Range(u) \cup Range(s3)
    BY <1>4, <2>1, RangeOfConcat
  <2> HIDE DEF v
  <2>3. Range(v \o s4) = Range(v) \cup Range(s4)
    BY <1>4, <2>2, RangeOfConcat
  <2> QED
    BY <2>1, <2>2, <2>3 DEF u, v
<1>6. CASE Pass(dec)
  <2>1. <<"pass">>[1] = "pass"
    OBVIOUS
  <2>2. \A word : Says(word) <=> word = "pass"
    BY <1>2, <1>6, <2>1
  <2>3. ~(dec.delay > 0) /\ dec.status = 0 /\ ~dec.drop /\ ~(dec.throttle_bps > 0)
    BY <1>6 DEF Pass
  <2> QED
    BY <1>6, <2>2, <2>3
<1>7. CASE ~Pass(dec)
  <2>1. \A part : part \in Range(Summary(dec)) <=>
          \/ part = delay /\ dec.delay > 0
          \/ part = status /\ dec.status # 0
          \/ part = drop /\ dec.drop
          \/ part = throttle /\ dec.throttle_bps > 0
    BY <1>3, <1>4, <1>5, <1>7
  <2> QED
    BY <1>1, <1>7, <2>1
<1> QED
  BY <1>6, <1>7

NothingCounted(plan) == NoStats
CountRow(plan, stats, k) == Count(stats, plan[k].decision)

Tally == INSTANCE FoldLaws WITH Base <- NothingCounted, Step <- CountRow, Pick <- Max

\* The delays of some rows of a plan, added up.
RowSum(plan, S) ==
  SumFunctionOnSet([k \in DOMAIN plan |-> plan[k].decision.delay], S)

\* A sum is that of all rows but one, and that one.
LEMMA RowSumGrows ==
  ASSUME NEW plan, NEW N \in Nat, DOMAIN plan = 1 .. N,
         \A k \in 1 .. N : plan[k].decision.delay \in Int
  PROVE  /\ RowSum(plan, {}) = 0
         /\ \A S \in SUBSET (1 .. N) :
              /\ RowSum(plan, S) \in Int
              /\ \A x \in S : RowSum(plan, S) = plan[x].decision.delay + RowSum(plan, S \ {x})
<1> DEFINE f == [k \in DOMAIN plan |-> plan[k].decision.delay]
<1>1. \A k \in 1 .. N : f[k] = plan[k].decision.delay /\ f[k] \in Int
  OBVIOUS
<1>2. \A S : RowSum(plan, S) = SumFunctionOnSet(f, S)
  BY DEF RowSum
<1> HIDE DEF f
<1>3. SumLaws(f, N)
  BY <1>1, SumGrows
<1>4. \A S \in SUBSET (1 .. N) : \A x \in S : f[x] = plan[x].decision.delay
  BY <1>1
<1> QED
  BY <1>2, <1>3, <1>4 DEF SumLaws

\* The members of M up to k.
First(M, k) == {j \in M : j <= k}

\* They are counted one by one.
LEMMA CountedOneByOne ==
  ASSUME NEW N \in Nat, NEW M \in SUBSET (1 .. N)
  PROVE  /\ First(M, 0) = {} /\ First(M, N) = M /\ Cardinality(First(M, 0)) = 0
         /\ \A k \in 1 .. N :
              /\ First(M, k) = IF k \in M THEN First(M, k - 1) \cup {k} ELSE First(M, k - 1)
              /\ k \notin First(M, k - 1)
              /\ Cardinality(First(M, k)) = Cardinality(First(M, k - 1)) + One(k \in M)
<1>0. \A j \in M : j \in 1 .. N
  OBVIOUS
<1>1. First(M, 0) = {} /\ First(M, N) = M
  <2>1. \A j \in M : j <= N /\ ~(j <= 0)
    BY <1>0
  <2> QED
    BY <2>1 DEF First
<1>2. ASSUME NEW k \in 1 .. N
      PROVE  /\ First(M, k) = IF k \in M THEN First(M, k - 1) \cup {k} ELSE First(M, k - 1)
             /\ k \notin First(M, k - 1)
             /\ Cardinality(First(M, k)) = Cardinality(First(M, k - 1)) + One(k \in M)
  <2>1. /\ First(M, k) = IF k \in M THEN First(M, k - 1) \cup {k} ELSE First(M, k - 1)
        /\ k \notin First(M, k - 1)
    <3>1. \A j \in M : (j <= k <=> j <= k - 1 \/ j = k) /\ ~(k <= k - 1)
      BY <1>0
    <3> QED
      BY <3>1 DEF First
  <2>2. IsFiniteSet(First(M, k - 1))
    <3>1. First(M, k - 1) \in SUBSET (1 .. N)
      BY <1>0 DEF First
    <3>2. IsFiniteSet(1 .. N)
      BY 1 \in Int, FS_Interval
    <3> QED
      BY <3>1, <3>2, FS_Subset
  <2>3. Cardinality(First(M, k - 1)) \in Nat
    BY <2>2, FS_CardinalityType
  <2>4. k \in M => Cardinality(First(M, k)) = Cardinality(First(M, k - 1)) + 1
    BY <2>1, <2>2, FS_AddElement
  <2> QED
    BY <2>1, <2>3, <2>4 DEF One
<1> QED
  BY <1>1, <1>2, FS_EmptySet

\* The rows of a plan that the totals tell apart.
PassRows(plan) == {k \in 1 .. Len(plan) : Pass(plan[k].decision)}
DelayRows(plan) == {k \in 1 .. Len(plan) : plan[k].decision.delay > 0}
StatusRows(plan) == {k \in 1 .. Len(plan) : plan[k].decision.status # 0}
DropRows(plan) == {k \in 1 .. Len(plan) : plan[k].decision.drop}
ThrottleRows(plan) == {k \in 1 .. Len(plan) : plan[k].decision.throttle_bps > 0}

\* What Summarize is to make of the first k rows.
Totals(plan, k) ==
  [requests   |-> k,
   passed     |-> Cardinality(First(PassRows(plan), k)),
   delayed    |-> Cardinality(First(DelayRows(plan), k)),
   injected   |-> Cardinality(First(StatusRows(plan), k)),
   dropped    |-> Cardinality(First(DropRows(plan), k)),
   throttled  |-> Cardinality(First(ThrottleRows(plan), k)),
   totalDelay |-> Wrap(RowSum(plan, First(DelayRows(plan), k)))]

\* One row more.
LEMMA TotalsGrow ==
  ASSUME NEW plan, Len(plan) \in Nat, DOMAIN plan = 1 .. Len(plan),
         NEW k \in 1 .. Len(plan),
         \A j \in 1 .. Len(plan) : plan[j].decision.delay \in -HalfWord .. HalfWord - 1
  PROVE  Totals(plan, k) = Count(Totals(plan, k - 1), plan[k].decision)
<1> DEFINE N == Len(plan)
           dec == plan[k].decision
<1>1. \A M \in SUBSET (1 .. N) :
        Cardinality(First(M, k)) = Cardinality(First(M, k - 1)) + One(k \in M)
  <2> TAKE M \in SUBSET (1 .. N)
  <2>0. N \in Nat
    OBVIOUS
  <2> HIDE DEF N, dec
  <2>1. k \in 1 .. N
    BY DEF N
  <2>2. \A j \in 1 .. N :
          /\ First(M, j) = IF j \in M THEN First(M, j - 1) \cup {j} ELSE First(M, j - 1)
          /\ j \notin First(M, j - 1)
          /\ Cardinality(First(M, j)) = Cardinality(First(M, j - 1)) + One(j \in M)
    BY <2>0, CountedOneByOne, Zenon
  <2> QED
    BY <2>1, <2>2, Zenon
<1>2. Cardinality(First(PassRows(plan), k))
        = Cardinality(First(PassRows(plan), k - 1)) + One(Pass(dec))
  <2>1. PassRows(plan) \in SUBSET (1 .. N) /\ (k \in PassRows(plan) <=> Pass(dec))
    BY DEF PassRows
  <2> QED
    BY <1>1, <2>1 DEF One
<1>3. Cardinality(First(DelayRows(plan), k))
        = Cardinality(First(DelayRows(plan), k - 1)) + One(dec.delay > 0)
  <2>1. DelayRows(plan) \in SUBSET (1 .. N) /\ (k \in DelayRows(plan) <=> dec.delay > 0)
    BY DEF DelayRows
  <2> QED
    BY <1>1, <2>1 DEF One
<1>4. Cardinality(First(StatusRows(plan), k))
        = Cardinality(First(StatusRows(plan), k - 1)) + One(dec.status # 0)
  <2>1. StatusRows(plan) \in SUBSET (1 .. N) /\ (k \in StatusRows(plan) <=> dec.status # 0)
    BY DEF StatusRows
  <2> QED
    BY <1>1, <2>1 DEF One
<1>5. Cardinality(First(DropRows(plan), k))
        = Cardinality(First(DropRows(plan), k - 1)) + One(dec.drop)
  <2>1. DropRows(plan) \in SUBSET (1 .. N) /\ (k \in DropRows(plan) <=> dec.drop)
    BY DEF DropRows
  <2> QED
    BY <1>1, <2>1 DEF One
<1>6. Cardinality(First(ThrottleRows(plan), k))
        = Cardinality(First(ThrottleRows(plan), k - 1)) + One(dec.throttle_bps > 0)
  <2>1. ThrottleRows(plan) \in SUBSET (1 .. N)
        /\ (k \in ThrottleRows(plan) <=> dec.throttle_bps > 0)
    BY DEF ThrottleRows
  <2> QED
    BY <1>1, <2>1 DEF One
<1>7. Wrap(RowSum(plan, First(DelayRows(plan), k)))
        = Wrap(Wrap(RowSum(plan, First(DelayRows(plan), k - 1)))
               + (IF dec.delay > 0 THEN dec.delay ELSE 0))
  <2> DEFINE M == DelayRows(plan)
             before == First(M, k - 1)
             y == RowSum(plan, before)
  <2>1. /\ M \in SUBSET (1 .. N) /\ (k \in M <=> dec.delay > 0)
        /\ before \in SUBSET (1 .. N) /\ before \cup {k} \in SUBSET (1 .. N)
    BY DEF DelayRows, First
  <2>2. /\ First(M, k) = IF k \in M THEN before \cup {k} ELSE before
        /\ k \notin before
    BY <2>1, CountedOneByOne
  <2>3. \A j \in 1 .. N : plan[j].decision.delay \in Int
    BY EngineAssumption
  <2>4. y \in Int
    BY <2>1, <2>3, RowSumGrows
  <2>5. 0 \in -HalfWord .. HalfWord - 1 /\ dec.delay \in -HalfWord .. HalfWord - 1
    BY EngineAssumption
  <2>6. CASE k \in M
    <3> DEFINE S == before \cup {k}
    <3>1. S \in SUBSET (1 .. N) /\ k \in S /\ S \ {k} = before
      BY <2>1, <2>2
    <3> HIDE DEF S, before
    <3>2. RowSum(plan, S) = dec.delay + RowSum(plan, S \ {k})
      <4>1. \A T \in SUBSET (1 .. N) : \A x \in T :
               RowSum(plan, T) = plan[x].decision.delay + RowSum(plan, T \ {x})
        BY <2>3, RowSumGrows, Zenon
      <4> QED
        BY <3>1, <4>1, Zenon
    <3>3. RowSum(plan, S) = dec.delay + y
      BY <3>1, <3>2
    <3>4. Wrap(dec.delay) = dec.delay
      BY <2>5, WrapOfWord
    <3> HIDE DEF y, dec
    <3>5. dec.delay \in Int
      BY <2>5, EngineAssumption
    <3>6. Wrap(Wrap(y) + Wrap(dec.delay)) = Wrap(y + dec.delay)
      BY <2>4, <3>5, WrapOfSum
    <3>7. y + dec.delay = dec.delay + y
      BY <2>4, <3>5
    <3>8. First(M, k) = S
      BY <2>2, <2>6 DEF S
    <3> QED
      BY <2>1, <2>6, <3>3, <3>4, <3>6, <3>7, <3>8 DEF y, before
  <2>7. CASE k \notin M
    <3>1. First(M, k) = before
      BY <2>2, <2>7
    <3> HIDE DEF y, dec
    <3>2. Wrap(Wrap(y) + Wrap(0)) = Wrap(y + 0) /\ Wrap(0) = 0 /\ y + 0 = y
      BY <2>4, <2>5, 0 \in Int, WrapOfSum, WrapOfWord
    <3> QED
      BY <2>1, <2>7, <3>1, <3>2 DEF y
  <2> QED
    BY <2>6, <2>7
<1>8. (k - 1) + 1 = k
  OBVIOUS
<1> HIDE DEF dec
<1> QED
  BY <1>2, <1>3, <1>4, <1>5, <1>6, <1>7, <1>8 DEF Totals, Count, dec

\* Summarize makes that of a plan.
LEMMA SummarizeIsTotals ==
  ASSUME NEW plan, Len(plan) \in Nat, DOMAIN plan = 1 .. Len(plan),
         \A j \in 1 .. Len(plan) : plan[j].decision.delay \in -HalfWord .. HalfWord - 1
  PROVE  Summarize(plan) = Totals(plan, Len(plan))
<1> DEFINE N == Len(plan)
           T(k) == Tally!FoldUpTo(plan, N, k)
           S == {k \in Nat : k <= N => T(k) = Totals(plan, k)}
<1>1. Summarize(plan) = T(N)
  BY DEF Summarize, FoldLeft, MapThenFoldSet, Tally!FoldUpTo, Tally!Fold, Tally!IsFold,
         NothingCounted, CountRow
<1>2. T(0) = NoStats /\ \A k \in 1 .. N : T(k) = Count(T(k - 1), plan[k].decision)
  BY Tally!FoldIsLoop DEF Max, Tally!Max, NothingCounted, CountRow
<1> HIDE DEF T
<1>3. Totals(plan, 0) = NoStats
  <2>1. \A M \in SUBSET (1 .. N) : First(M, 0) = {} /\ Cardinality(First(M, 0)) = 0
    BY CountedOneByOne
  <2>2. /\ PassRows(plan) \in SUBSET (1 .. N) /\ DelayRows(plan) \in SUBSET (1 .. N)
        /\ StatusRows(plan) \in SUBSET (1 .. N) /\ DropRows(plan) \in SUBSET (1 .. N)
        /\ ThrottleRows(plan) \in SUBSET (1 .. N)
    BY DEF PassRows, DelayRows, StatusRows, DropRows, ThrottleRows
  <2>3. RowSum(plan, {}) = 0
    <3>1. \A j \in 1 .. N : plan[j].decision.delay \in Int
      BY EngineAssumption
    <3> QED
      BY <3>1, RowSumGrows
  <2>4. Wrap(0) = 0
    <3>1. 0 \in -HalfWord .. HalfWord - 1
      BY EngineAssumption
    <3> QED
      BY <3>1, WrapOfWord
  <2> QED
    BY <2>1, <2>2, <2>3, <2>4 DEF Totals, NoStats
<1>4. 0 \in S
  BY <1>2, <1>3
<1>5. ASSUME NEW k \in Nat, k \in S
      PROVE  k + 1 \in S
  <2> SUFFICES ASSUME k + 1 <= N PROVE T(k + 1) = Totals(plan, k + 1)
    OBVIOUS
  <2>1. k + 1 \in 1 .. N /\ (k + 1) - 1 = k /\ T(k) = Totals(plan, k)
    BY <1>5
  <2>2. Totals(plan, k + 1) = Count(Totals(plan, (k + 1) - 1), plan[k + 1].decision)
    BY <2>1, TotalsGrow
  <2> QED
    BY <1>2, <2>1, <2>2
<1> HIDE DEF S
<1>6. N \in S
  BY <1>4, <1>5, Induction
<1> QED
  BY <1>1, <1>6 DEF S

\* The totals are out once there are no more rows to come, and are those of
\* the rows, whose delays are words.
PrintInv ==
  /\ printed # Nil =>
       /\ left = 0
       /\ printed = [last |-> (from + Len(entries) - 1) % Word, stats |-> Summarize(entries)]
  /\ \A k \in DOMAIN entries : entries[k].decision.delay \in -HalfWord .. HalfWord - 1

\* It holds of every plan.
THEOREM PrintTheorem == PlanSpec => []PrintInv
<1>1. PlanInit => PrintInv
  BY DEF PlanInit, PrintInv
<1>2. PrintInv /\ CounterInv /\ TypeOK /\ [PlanNext]_allVars => PrintInv'
  <2> SUFFICES ASSUME PrintInv, CounterInv, TypeOK, [PlanNext]_allVars PROVE PrintInv'
    OBVIOUS
  <2>1. CASE DecideStep \/ UNCHANGED allVars
    <3>1. UNCHANGED planVars
      BY <2>1 DEF DecideStep, allVars
    <3> QED
      BY <3>1 DEF PrintInv, planVars
  <2>2. CASE AppendEntry
    <3>1. /\ left # 0 /\ printed' = printed
          /\ entries' = Append(entries, [counter |-> n, decision |-> d])
      BY <2>2 DEF AppendEntry
    <3>2. entries \in Seq(Range(entries)) /\ d.delay \in -HalfWord .. HalfWord - 1
      BY DEF CounterInv, TypeOK
    <3>3. /\ Len(entries) \in Nat /\ DOMAIN entries = 1 .. Len(entries)
          /\ DOMAIN entries' = 1 .. Len(entries) + 1
          /\ \A k \in 1 .. Len(entries) : entries'[k] = entries[k]
          /\ entries'[Len(entries) + 1].decision = d
      BY <3>1, <3>2
    <3>4. \A k \in DOMAIN entries' :
            entries'[k].decision.delay \in -HalfWord .. HalfWord - 1
      BY <3>2, <3>3 DEF PrintInv
    <3>5. printed = Nil
      BY <3>1 DEF PrintInv
    <3> QED
      BY <3>1, <3>4, <3>5 DEF PrintInv
  <2>3. CASE Footer
    BY <2>3 DEF Footer, PrintInv
  <2> QED
    BY <2>1, <2>2, <2>3 DEF PlanNext
<1> QED
  BY <1>1, <1>2, CounterTheorem, DecideTypeTheorem, PTL DEF PlanSpec

\* The totals agree with the rows above them, for any plan.
THEOREM TotalsTheorem == PlanSpec => []TotalsMatchRows
<1>1. PrintInv /\ RowsInv /\ CounterInv => TotalsMatchRows
  <2> SUFFICES ASSUME PrintInv, RowsInv, CounterInv, printed # Nil PROVE TotalsMatchRows
    BY DEF TotalsMatchRows
  <2> DEFINE Rows(word) ==
               {k \in DOMAIN entries :
                  \E part \in Range(Summary(entries[k].decision)) : part[1] = word}
             N == Len(entries)
             stats == printed.stats
  <2>1. N \in Nat /\ DOMAIN entries = 1 .. N /\ entries \in Seq(Range(entries))
    BY DEF CounterInv
  <2>2. /\ Rows("pass") = PassRows(entries) /\ Rows("delay") = DelayRows(entries)
        /\ Rows("status") = StatusRows(entries) /\ Rows("drop") = DropRows(entries)
        /\ Rows("throttle") = ThrottleRows(entries)
    BY <2>1, SummaryWords DEF PassRows, DelayRows, StatusRows, DropRows, ThrottleRows
  <2>3. stats = Totals(entries, N)
    <3>1. \A j \in 1 .. N : entries[j].decision.delay \in -HalfWord .. HalfWord - 1
      BY <2>1 DEF PrintInv
    <3>2. Summarize(entries) = Totals(entries, N)
      BY <2>1, <3>1, SummarizeIsTotals
    <3> QED
      BY <3>2 DEF PrintInv
  <2>4. \A M \in SUBSET (1 .. N) : First(M, N) = M
    BY <2>1, CountedOneByOne
  <2>5. /\ First(PassRows(entries), N) = PassRows(entries)
        /\ First(DelayRows(entries), N) = DelayRows(entries)
        /\ First(StatusRows(entries), N) = StatusRows(entries)
        /\ First(DropRows(entries), N) = DropRows(entries)
        /\ First(ThrottleRows(entries), N) = ThrottleRows(entries)
    BY <2>4 DEF PassRows, DelayRows, StatusRows, DropRows, ThrottleRows
  <2>6. entries # <<>> => printed.last = Last(entries).counter
    <3> SUFFICES ASSUME entries # <<>> PROVE printed.last = Last(entries).counter
      OBVIOUS
    <3>1. N \in 1 .. N /\ Last(entries) = entries[N]
      BY <2>1 DEF Last
    <3>2. entries[N].counter = (from + (N - 1)) % Word
      BY <2>1, <3>1 DEF RowsInv, NextCounter
    <3>3. from + (N - 1) = from + N - 1
      BY <2>1, EngineAssumption DEF CounterInv, Word
    <3> QED
      BY <3>1, <3>2, <3>3 DEF PrintInv
  <2> HIDE DEF Rows, stats
  <2>7. /\ stats.requests = Len(entries)
        /\ stats.passed = Cardinality(Rows("pass"))
        /\ stats.delayed = Cardinality(Rows("delay"))
        /\ stats.injected = Cardinality(Rows("status"))
        /\ stats.dropped = Cardinality(Rows("drop"))
        /\ stats.throttled = Cardinality(Rows("throttle"))
        /\ stats.totalDelay = Wrap(RowSum(entries, Rows("delay")))
    BY <2>2, <2>3, <2>5 DEF Totals
  <2> QED
    BY <2>6, <2>7 DEF TotalsMatchRows, RowSum, Rows, stats
<1> QED
  BY <1>1, PrintTheorem, RowsTheorem, CounterTheorem, PTL
=============================================================================
