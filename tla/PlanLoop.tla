------------------------------ MODULE PlanLoop ------------------------------
(***************************************************************************)
(* The plan command (cli/plan_cmd.go, engine/plan.go): a row for each of a *)
(* range of counters, each the result of Decide's loop, and the totals     *)
(* under them; next to it, what the live proxy is handed for the request   *)
(* that was asked about.                                                   *)
(***************************************************************************)
EXTENDS DecideLoop

CONSTANTS Asks,      \* requests asked about: [method, path, headers], the
                     \* headers a sequence of [name, value]
          Requests   \* the numbers of rows asked for

ASSUME RequestsAssumption == Requests \subseteq Nat

VARIABLES asked,     \* the request asked about
          from,      \* --from
          entries,   \* the plan so far
          left,      \* rows still to come
          printed    \* the totals under the rows, Nil until they are out

planVars == <<asked, from, entries, left, printed>>
allVars == <<vars, planVars>>

Word == 2 * HalfWord     \* a counter is a uint64

\* The header map of the pairs, which Add files under canonical names.
Pairs(headers, name) ==
  SelectSeq(headers, LAMBDA pair : Canonical(pair.name) = name)

\* Mutant of PlanShape: the map is filled without Add.
PlanShapeAsSpelled(ask) ==
  [method |-> ask.method, path |-> ask.path,
   header |-> [name \in {pair.name : pair \in Range(ask.headers)} |->
                 LET own == SelectSeq(ask.headers, LAMBDA pair : pair.name = name)
                 IN  [k \in DOMAIN own |-> own[k].value]]]

PlanShape(ask) ==
  [method |-> ask.method, path |-> ask.path,
   header |-> [name \in {Canonical(pair.name) : pair \in Range(ask.headers)} |->
                 [k \in DOMAIN Pairs(ask.headers, name) |->
                    Pairs(ask.headers, name)[k].value]]]

PlanInit ==
  /\ Init
  /\ asked \in Asks /\ req = PlanShape(asked)
  /\ from = n
  /\ entries = <<>>
  /\ left \in Requests
  /\ printed = Nil

\* One step of Decide, for the row at hand.
DecideStep == left > 0 /\ Next /\ UNCHANGED planVars

NextCounter(k) == (from + k) % Word

AppendEntry ==
  /\ left > 0 /\ Done
  /\ entries' = Append(entries, [counter |-> n, decision |-> d])
  /\ left' = left - 1
  /\ n' = NextCounter(Len(entries) + 1)
  /\ i' = 1
  /\ d' = NoDecision
  /\ UNCHANGED <<rules, req, asked, from, printed>>

---------------------------------------------------------------------------
Pass(dec) ==
  dec.delay = 0 /\ dec.status = 0 /\ ~dec.drop /\ dec.throttle_bps = 0

Milliseconds(delay) ==
  IF delay >= 0 THEN delay \div Millisecond ELSE -((-delay) \div Millisecond)

\* The phrase for a decision, in the plan and in the log: its parts in order.
Summary(dec) ==
  LET Part(there, part) == IF there THEN <<part>> ELSE <<>>
  IN  IF Pass(dec) THEN << <<"pass">> >>
      ELSE Part(dec.delay > 0, <<"delay", Milliseconds(dec.delay), dec.delayRules>>)
           \o Part(dec.status # 0, <<"status", dec.status, dec.statusRule>>)
           \o Part(dec.drop, <<"drop", dec.dropRule>>)
           \o Part(dec.throttle_bps > 0, <<"throttle", dec.throttle_bps, dec.throttleRule>>)

NoStats == [requests |-> 0, passed |-> 0, delayed |-> 0, injected |-> 0,
            dropped |-> 0, throttled |-> 0, totalDelay |-> 0]

One(condition) == IF condition THEN 1 ELSE 0

\* Mutant of Count: a request is counted under its terminal only.
CountOnce(stats, dec) ==
  [requests   |-> stats.requests + 1,
   passed     |-> stats.passed + One(Pass(dec)),
   delayed    |-> stats.delayed + One(dec.delay > 0 /\ ~Terminal(dec)),
   injected   |-> stats.injected + One(dec.status # 0),
   dropped    |-> stats.dropped + One(dec.drop),
   throttled  |-> stats.throttled + One(dec.throttle_bps > 0),
   totalDelay |-> Wrap(stats.totalDelay + (IF dec.delay > 0 THEN dec.delay ELSE 0))]

Count(stats, dec) ==
  [requests   |-> stats.requests + 1,
   passed     |-> stats.passed + One(Pass(dec)),
   delayed    |-> stats.delayed + One(dec.delay > 0),
   injected   |-> stats.injected + One(dec.status # 0),
   dropped    |-> stats.dropped + One(dec.drop),
   throttled  |-> stats.throttled + One(dec.throttle_bps > 0),
   totalDelay |-> Wrap(stats.totalDelay + (IF dec.delay > 0 THEN dec.delay ELSE 0))]

Summarize(plan) == FoldLeft(LAMBDA stats, e : Count(stats, e.decision), NoStats, plan)

Footer ==
  /\ left = 0 /\ printed = Nil
  /\ printed' = [last |-> (from + Len(entries) - 1) % Word, stats |-> Summarize(entries)]
  /\ UNCHANGED <<vars, asked, from, entries, left>>

PlanNext == DecideStep \/ AppendEntry \/ Footer

PlanSpec == PlanInit /\ [][PlanNext]_allVars

---------------------------------------------------------------------------
(* The live proxy. *)

\* net/http hands the request on with the Host line taken out of its headers.
LiveShape(ask) ==
  [method |-> ask.method, path |-> ask.path,
   header |-> [name \in {Canonical(pair.name) : pair \in Range(ask.headers)} \ {"Host"} |->
                 [k \in DOMAIN Pairs(ask.headers, name) |->
                    Pairs(ask.headers, name)[k].value]]]

\* The number of the k-th request to a proxy whose counter stands before the
\* range: one atomic addition each.
LiveNumber(k) == FoldLeft(LAMBDA c, one : (c + one) % Word, (from + Word - 1) % Word,
                          [j \in 1 .. k |-> 1])

RowsAreLive ==
  \A k \in DOMAIN entries :
     LET live == Decide(rules, LiveNumber(k), LiveShape(asked))
     IN  /\ entries[k].counter = LiveNumber(k)
         /\ entries[k].decision = live
         /\ Summary(entries[k].decision) = Summary(live)

\* "The live proxy computes the identical decisions for the same counters"
\* (plan_cmd.go:19-20): whatever the spelling of headers and wherever the
\* range starts, the k-th row has the number and the decision of the k-th
\* request, as long as net/http leaves the headers asked about alone.
PlanIsLive ==
  (\A pair \in Range(asked.headers) : Canonical(pair.name) # "Host") => RowsAreLive

\* The same without a reservation, as the usage text has it.
PlanIsLiveForAnyHeader == RowsAreLive

\* The totals agree with the rows above them (plan.go:74-98, plan_cmd.go:
\* 83-88): each counts the rows whose phrase mentions it, the total delay is
\* the sum of the delays of these rows (in an int64), and the heading names the
\* number of the last row.
TotalsMatchRows ==
  printed # Nil =>
    LET Rows(word) ==
          {k \in DOMAIN entries :
             \E part \in Range(Summary(entries[k].decision)) : part[1] = word}
        stats == printed.stats
    IN  /\ stats.requests = Len(entries)
        /\ stats.passed = Cardinality(Rows("pass"))
        /\ stats.delayed = Cardinality(Rows("delay"))
        /\ stats.injected = Cardinality(Rows("status"))
        /\ stats.dropped = Cardinality(Rows("drop"))
        /\ stats.throttled = Cardinality(Rows("throttle"))
        /\ stats.totalDelay =
             Wrap(SumFunctionOnSet([k \in DOMAIN entries |-> entries[k].decision.delay],
                                   Rows("delay")))
        /\ entries # <<>> => printed.last = Last(entries).counter
=============================================================================
