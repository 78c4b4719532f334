-------------------------- MODULE ProxyServerProofs --------------------------
(***************************************************************************)
(* Theorems about the data plane, for any requests, any decisions, any     *)
(* upstream and any number of restarts.                                    *)
(***************************************************************************)
EXTENDS ProxyServer, TLAPS

\* Handlers past the call of Add.
Working == {"sleeping", "acting", "forwarding", "copying", "logging", "returning",
            "done", "panicked"}

\* A request has a number exactly from Begin on.
Numbered ==
  \A r \in Requests :
    /\ n[r] = 0 <=> ran[r] = 0
    /\ ran[r] <= run
    /\ pc[r] \in {"new", "sent"} => n[r] = 0
    /\ pc[r] \in Working => n[r] # 0

Typed == TypeOK /\ Numbered

---------------------------------------------------------------------------
\* A numbered request goes by a decision of the engine.
LEMMA DecTyped ==
  ASSUME TypeOK, NEW r \in Requests, n[r] # 0
  PROVE  IsDecision(Dec(r))
<1>1. n[r] \in 1 .. MaxCounter
  BY ProxyAssumption DEF TypeOK
<1> QED
  BY <1>1, ProxyAssumption DEF Dec

\* What net/http puts on the status line is a status.
LEMMA FinalStatusTyped ==
  ASSUME NEW code \in Statuses
  PROVE  FinalStatus(code) \in Statuses
BY DEF FinalStatus, Statuses

\* A response that is written leaves the responses well typed.
LEMMA RespondTyped ==
  ASSUME TypeOK, NEW r \in Requests, NEW code \in Statuses,
         NEW headers \in SUBSET Headers,
         NEW body \in {"none", "part", "whole", "cutoff"},
         Respond(r, code, headers, body)
  PROVE  written' \in [Requests -> Views]
<1>1. FinalStatus(code) \in Statuses
  BY FinalStatusTyped
<1>2. written[r] \in Views /\ written \in [Requests -> Views]
  BY DEF TypeOK
<1>3. [written[r] EXCEPT !.body = body] \in Views
  BY <1>2 DEF Views
<1>4. [status |-> FinalStatus(code), headers |-> headers, body |-> body] \in Views
  BY <1>1 DEF Views
<1> QED
  BY <1>2, <1>3, <1>4 DEF Respond

\* So does a status leave the events, with or without a flag beside it: that of
\* an answer, an injected one, that of a failed round trip.
LEMMA OutcomeTyped ==
  ASSUME NEW r \in Requests, NEW code \in Statuses, ev \in [Requests -> Events]
  PROVE  /\ [ev EXCEPT ![r].status = code] \in [Requests -> Events]
         /\ [ev EXCEPT ![r].status = code, ![r].injected = TRUE] \in [Requests -> Events]
         /\ [ev EXCEPT ![r].status = code, ![r].upstreamErr = TRUE] \in [Requests -> Events]
<1>1. ASSUME NEW f \in [Requests -> Events]
      PROVE  [f EXCEPT ![r].status = code] \in [Requests -> Events]
  BY <1>1 DEF Events
<1>2. ASSUME NEW f \in [Requests -> Events]
      PROVE  [f EXCEPT ![r].injected = TRUE] \in [Requests -> Events]
  BY <1>2 DEF Events
<1>3. ASSUME NEW f \in [Requests -> Events]
      PROVE  [f EXCEPT ![r].upstreamErr = TRUE] \in [Requests -> Events]
  BY <1>3 DEF Events
<1> DEFINE g == [ev EXCEPT ![r].status = code]
<1>4. g \in [Requests -> Events]
  BY <1>1
<1>5. [ev EXCEPT ![r].status = code, ![r].injected = TRUE]
        = [g EXCEPT ![r].injected = TRUE]
  OBVIOUS
<1>6. [ev EXCEPT ![r].status = code, ![r].upstreamErr = TRUE]
        = [g EXCEPT ![r].upstreamErr = TRUE]
  OBVIOUS
<1> HIDE DEF g
<1>7. /\ [g EXCEPT ![r].injected = TRUE] \in [Requests -> Events]
      /\ [g EXCEPT ![r].upstreamErr = TRUE] \in [Requests -> Events]
  BY <1>2, <1>3, <1>4
<1> QED
  BY <1>4, <1>5, <1>6, <1>7 DEF g

\* The invariant the other proofs start from.
THEOREM Typing == Spec => []Typed
<1>1. Init => Typed
  BY ProxyAssumption DEF Init, Typed, TypeOK, Numbered, NoEvent, NoView, Events,
     Views, States, Headers, Working
<1>2. Typed /\ [Next]_vars => Typed'
  <2> SUFFICES ASSUME Typed, [Next]_vars
               PROVE  Typed'
    OBVIOUS
  <2> USE DEF Typed
  <2>1. CASE Restart
    <3>1. run' \in 1 .. MaxRuns /\ counter' \in 0 .. MaxCounter
      BY <2>1, ProxyAssumption DEF Restart, TypeOK
    <3>2. pc' \in [Requests -> States]
      BY <2>1 DEF Restart, TypeOK, States
    <3>3. conn' \in [Requests -> {"open", "gone", "cut"}]
      BY <2>1 DEF Restart, TypeOK
    <3>4. TypeOK'
      BY <2>1, <3>1, <3>2, <3>3 DEF Restart, TypeOK, remote
    <3>5. \A r \in Requests : pc'[r] \in Working => pc[r] \in Working
      BY <2>1 DEF Restart, TypeOK, InFlight, Working
    <3>6. Numbered'
      BY <2>1, <3>5 DEF Restart, Numbered, TypeOK
    <3> QED
      BY <3>4, <3>6
  <2>2. ASSUME NEW r \in Requests, Send(r)
        PROVE  Typed'
    BY <2>2 DEF Send, TypeOK, Numbered, States, Working, remote
  <2>3. ASSUME NEW r \in Requests, HangUp(r)
        PROVE  Typed'
    BY <2>3 DEF HangUp, TypeOK, Numbered, remote, handler
  <2>4. ASSUME NEW r \in Requests, Begin(r)
        PROVE  Typed'
    BY <2>4, ProxyAssumption DEF Begin, Number, TypeOK, Numbered, States, Working,
       remote, client
  <2>5. ASSUME NEW r \in Requests, Wake(r)
        PROVE  Typed'
    <3>1. IsDecision(Dec(r))
      BY <2>5, DecTyped DEF Wake, Numbered, Working
    <3> QED
      BY <2>5, <3>1 DEF Wake, IsDecision, TypeOK, Numbered, States, Working, remote,
         client
  <2>6. ASSUME NEW r \in Requests, Drop(r)
        PROVE  Typed'
    <3>1. ev' \in [Requests -> Events]
      BY <2>6 DEF Drop, TypeOK, Events
    <3>2. conn' \in [Requests -> {"open", "gone", "cut"}]
      BY <2>6 DEF Drop, Sever, TypeOK
    <3>3. pc' \in [Requests -> States]
      BY <2>6 DEF Drop, TypeOK, States
    <3>4. TypeOK'
      BY <2>6, <3>1, <3>2, <3>3 DEF Drop, TypeOK, remote
    <3>5. Numbered'
      BY <2>6 DEF Drop, TypeOK, Numbered, Working
    <3> QED
      BY <3>4, <3>5
  <2>7. ASSUME NEW r \in Requests, Abort(r)
        PROVE  Typed'
    <3>1. ev' \in [Requests -> Events]
      BY <2>7 DEF Abort, TypeOK, Events
    <3>2. conn' \in [Requests -> {"open", "gone", "cut"}]
      BY <2>7 DEF Abort, Sever, TypeOK
    <3>3. pc' \in [Requests -> States]
      BY <2>7 DEF Abort, TypeOK, States
    <3>4. TypeOK'
      BY <2>7, <3>1, <3>2, <3>3 DEF Abort, TypeOK, remote
    <3>5. Numbered'
      BY <2>7 DEF Abort, TypeOK, Numbered, Working
    <3> QED
      BY <3>4, <3>5
  <2>8. ASSUME NEW r \in Requests, Inject(r)
        PROVE  Typed'
    <3>1. IsDecision(Dec(r))
      BY <2>8, DecTyped DEF Inject, Numbered, Working
    <3>2. Dec(r).status \in Statuses /\ InjectedHeaders(Dec(r)) \in SUBSET Headers
      BY <2>8, <3>1 DEF Inject, IsDecision, InjectedHeaders, DelayHeader, Headers
    <3>3. written' \in [Requests -> Views]
      BY <2>8, <3>2, RespondTyped DEF Inject
    <3>4. ev' \in [Requests -> Events]
      <4>1. ev \in [Requests -> Events]
        BY DEF TypeOK
      <4>2. ev' = [ev EXCEPT ![r].status = Dec(r).status, ![r].injected = TRUE]
        BY <2>8 DEF Inject
      <4> QED
        BY <3>2, <4>1, <4>2, OutcomeTyped
    <3> QED
      BY <2>8, <3>3, <3>4 DEF Inject, TypeOK, Numbered, States, Working, remote, client
  <2>9. ASSUME NEW r \in Requests, Forward(r)
        PROVE  Typed'
    BY <2>9 DEF Forward, TypeOK, Numbered, States, Working, remote, client
  <2>10. ASSUME NEW r \in Requests, Reach(r)
         PROVE  Typed'
    BY <2>10 DEF Reach, TypeOK, Numbered, handler, client
  <2>11. ASSUME NEW r \in Requests, UpstreamFails(r) \/ Cancelled(r)
         PROVE  Typed'
    <3>1. pc[r] = "forwarding" /\ BadGateway(r)
          /\ UNCHANGED <<run, counter, log, ran, n, slept, client, remote>>
      BY <2>11 DEF UpstreamFails, Cancelled
    <3>2. 502 \in Statuses /\ {"Request", "UpstreamError"} \in SUBSET Headers
      BY DEF Statuses, Headers
    <3>3. written' \in [Requests -> Views]
      BY <3>1, <3>2, RespondTyped DEF BadGateway
    <3>4. ev' \in [Requests -> Events]
      <4>1. ev \in [Requests -> Events]
        BY DEF TypeOK
      <4>2. ev' = [ev EXCEPT ![r].status = 502, ![r].upstreamErr = TRUE]
        BY <3>1 DEF BadGateway
      <4>3. ASSUME NEW code \in Statuses
            PROVE  [ev EXCEPT ![r].status = code, ![r].upstreamErr = TRUE]
                     \in [Requests -> Events]
        BY <4>1, OutcomeTyped
      <4> QED
        BY <3>2, <4>2, <4>3, Zenon
    <3> QED
      BY <3>1, <3>3, <3>4 DEF BadGateway, TypeOK, Numbered, States, Working, remote, client
  <2>12. ASSUME NEW r \in Requests, NEW status \in UpstreamStatuses, Answer(r, status)
         PROVE  Typed'
    <3>1. RelayedHeaders(Dec(r)) \in SUBSET Headers
      BY DEF RelayedHeaders, DelayHeader, Headers
    <3>2. status \in Statuses
      BY ProxyAssumption
    <3>3. written' \in [Requests -> Views]
      BY <2>12, <3>1, <3>2, RespondTyped DEF Answer
    <3>4. ev' \in [Requests -> Events]
      BY <2>12, <3>2, OutcomeTyped DEF Answer, TypeOK
    <3>5. pc' \in [Requests -> States]
          /\ answer' \in [Requests -> {0} \cup UpstreamStatuses]
      BY <2>12 DEF Answer, TypeOK, States
    <3>6. TypeOK'
      BY <2>12, <3>3, <3>4, <3>5 DEF Answer, TypeOK, client
    <3>7. Numbered'
      BY <2>12 DEF Answer, TypeOK, Numbered, Working
    <3> QED
      BY <3>6, <3>7
  <2>13. ASSUME NEW r \in Requests, NEW body \in {"whole", "cutoff"}, CopyReturns(r, body)
         PROVE  Typed'
    <3>1. written' \in [Requests -> Views]
      BY <2>13 DEF CopyReturns, TypeOK, Views
    <3>2. pc' \in [Requests -> States]
      BY <2>13 DEF CopyReturns, TypeOK, States
    <3>3. TypeOK'
      BY <2>13, <3>1, <3>2 DEF CopyReturns, TypeOK, remote, client
    <3>4. Numbered'
      BY <2>13 DEF CopyReturns, TypeOK, Numbered, Working
    <3> QED
      BY <3>3, <3>4
  <2>14. ASSUME NEW r \in Requests, Log(r)
         PROVE  Typed'
    <3>1. IsDecision(Dec(r))
      BY <2>14, DecTyped DEF Log, Numbered, Working
    <3>2. Entry(r) \in [run : 0 .. MaxRuns, req : Requests, n : 0 .. MaxCounter,
                        delay : Nat, event : Events]
      BY <3>1 DEF Entry, TypeOK, IsDecision
    <3>3. log' \in Seq([run : 0 .. MaxRuns, req : Requests, n : 0 .. MaxCounter,
                        delay : Nat, event : Events])
      <4>1. \A S : \A s \in Seq(S), e \in S : Append(s, e) \in Seq(S)
        OBVIOUS
      <4>2. log' = Append(log, Entry(r))
        BY <2>14 DEF Log
      <4> QED
        BY <3>2, <4>1, <4>2 DEF TypeOK
    <3>4. pc' \in [Requests -> States]
      BY <2>14 DEF Log, TypeOK, States
    <3>5. TypeOK'
      BY <2>14, <3>3, <3>4 DEF Log, TypeOK, remote, client
    <3>6. Numbered'
      BY <2>14 DEF Log, TypeOK, Numbered, Working
    <3> QED
      BY <3>5, <3>6
  <2>15. ASSUME NEW r \in Requests, Return(r)
         PROVE  Typed'
    <3>1. view' \in [Requests -> Views]
      BY <2>15 DEF Return, TypeOK
    <3>2. pc' \in [Requests -> States]
      BY <2>15 DEF Return, TypeOK, States
    <3>3. TypeOK'
      BY <2>15, <3>1, <3>2 DEF Return, TypeOK, remote
    <3>4. Numbered'
      BY <2>15 DEF Return, TypeOK, Numbered, Working
    <3> QED
      BY <3>3, <3>4
  <2>16. ASSUME NEW r \in Requests, Deliver(r)
         PROVE  Typed'
    <3>1. view' \in [Requests -> Views]
      <4>1. PICK body \in {"part", "whole"} :
              view' = [view EXCEPT ![r] = [written[r] EXCEPT !.body = body]]
        BY <2>16 DEF Deliver
      <4>2. [written[r] EXCEPT !.body = body] \in Views
        <5>1. written[r] \in Views
          BY DEF TypeOK
        <5> QED
          BY <4>1, <5>1 DEF Views
      <4> QED
        BY <4>1, <4>2 DEF TypeOK
    <3> QED
      BY <2>16, <3>1 DEF Deliver, TypeOK, Numbered, handler, remote
  <2>17. CASE UNCHANGED vars
    BY <2>17 DEF vars, handler, client, remote, TypeOK, Numbered
  <2> QED
    BY <2>1, <2>2, <2>3, <2>4, <2>5, <2>6, <2>7, <2>8, <2>9, <2>10, <2>11, <2>12,
       <2>13, <2>14, <2>15, <2>16, <2>17
    DEF Next, Handle, Environment, CopyEnds, CopyBreaks, CopyCancelled
<1> QED
  BY <1>1, <1>2, PTL DEF Spec

\* Events, views, numbers and the log keep the shape the code gives them, for
\* any number of requests and restarts.
THEOREM TypeTheorem == Spec => []TypeOK
BY Typing, PTL DEF Typed

---------------------------------------------------------------------------
(* Numbers. *)

\* Only Begin and a restart touch the counter and the numbers.
LEMMA NumbersStep ==
  ASSUME [Next]_vars
  PROVE  \/ Restart
         \/ \E r \in Requests : Begin(r)
         \/ UNCHANGED <<run, counter, ran, n>>
<1>1. CASE UNCHANGED vars
  BY <1>1 DEF vars, handler
<1>2. CASE Restart
  BY <1>2
<1>3. ASSUME NEW r \in Requests, Handle(r)
      PROVE  Begin(r) \/ UNCHANGED <<run, counter, ran, n>>
  BY <1>3 DEF Handle, Wake, Drop, Abort, Inject, Forward, Cancelled, CopyCancelled,
     CopyReturns, Log, Return
<1>4. ASSUME NEW r \in Requests, Environment(r)
      PROVE  UNCHANGED <<run, counter, ran, n>>
  BY <1>4 DEF Environment, Send, HangUp, Deliver, Reach, UpstreamFails, Answer, CopyEnds,
     CopyBreaks, CopyReturns, handler
<1> QED
  BY <1>1, <1>2, <1>3, <1>4 DEF Next

\* For any number of handlers and any interleaving of their Adds, the numbers
\* of a run are 1 .. counter, each taken once.
THEOREM NumbersTheorem == Spec => []NumbersAreThePlan
<1>1. Init => NumbersAreThePlan
  BY DEF Init, NumbersAreThePlan, NumberedIn
<1>2. Typed /\ NumbersAreThePlan /\ [Next]_vars => NumbersAreThePlan'
  <2> SUFFICES ASSUME Typed, NumbersAreThePlan, [Next]_vars
               PROVE  NumbersAreThePlan'
    OBVIOUS
  <2>1. CASE Restart
    <3>1. \A r \in Requests : ran[r] < run + 1
      BY DEF Typed, TypeOK, Numbered
    <3>2. NumberedIn(run)' = {}
      <4>1. run' = run + 1 /\ ran' = ran
        BY <2>1 DEF Restart
      <4> QED
        BY <3>1, <4>1 DEF NumberedIn
    <3>3. {n[r] : r \in NumberedIn(run)}' = 1 .. counter'
      BY <2>1, <3>2 DEF Restart
    <3> QED
      BY <2>1, <3>3 DEF Restart, NumbersAreThePlan
  <2>2. ASSUME NEW r \in Requests, Begin(r)
        PROVE  NumbersAreThePlan'
    <3>1. /\ n[r] = 0 /\ ran[r] = 0 /\ run # 0 /\ counter \in Nat
          /\ n' = [n EXCEPT ![r] = counter + 1]
          /\ ran' = [ran EXCEPT ![r] = run]
          /\ counter' = counter + 1 /\ run' = run
      BY <2>2 DEF Begin, Number, Typed, TypeOK, Numbered
    <3>2. /\ n \in [Requests -> Nat] /\ ran \in [Requests -> Nat]
      BY DEF Typed, TypeOK
    <3>3. NumberedIn(run)' = NumberedIn(run) \cup {r}
      BY <3>1, <3>2 DEF NumberedIn
    <3>4. \A q \in NumberedIn(run) : q # r /\ n'[q] = n[q] /\ n[q] \in 1 .. counter
      BY <3>1, <3>2 DEF NumberedIn, NumbersAreThePlan
    <3>5. {n[q] : q \in NumberedIn(run)}' = (1 .. counter) \cup {counter + 1}
      <4>1. {n[q] : q \in NumberedIn(run)}' = {n'[q] : q \in NumberedIn(run) \cup {r}}
        BY <3>3
      <4>2. {n'[q] : q \in NumberedIn(run) \cup {r}}
              = {n[q] : q \in NumberedIn(run)} \cup {counter + 1}
        BY <3>1, <3>2, <3>4
      <4> QED
        BY <4>1, <4>2 DEF NumbersAreThePlan
    <3>6. {n[q] : q \in NumberedIn(run)}' = 1 .. counter'
      BY <3>1, <3>5
    <3>7. ASSUME NEW q \in Requests, NEW s \in Requests,
                 q # s, ran'[q] = ran'[s], ran'[q] # 0
          PROVE  n'[q] # n'[s]
      <4>1. CASE q # r /\ s # r
        BY <4>1, <3>1, <3>2, <3>7 DEF NumbersAreThePlan
      <4>2. CASE q = r
        BY <4>2, <3>1, <3>2, <3>4, <3>7 DEF NumberedIn
      <4>3. CASE s = r
        BY <4>3, <3>1, <3>2, <3>4, <3>7 DEF NumberedIn
      <4> QED
        BY <4>1, <4>2, <4>3
    <3> QED
      BY <3>6, <3>7 DEF NumbersAreThePlan
  <2>3. CASE UNCHANGED <<run, counter, ran, n>>
    BY <2>3 DEF NumbersAreThePlan, NumberedIn
  <2> QED
    BY <2>1, <2>2, <2>3, NumbersStep
<1> QED
  BY <1>1, <1>2, Typing, PTL DEF Spec

---------------------------------------------------------------------------
(* What a handler may have done, by where it is. *)

Effects(r) ==
  \/ written[r] # NoView \/ view[r] # NoView
  \/ r \in reached \/ ev[r] # NoEvent \/ Logged(r)

Behind == {"logging", "returning", "done", "panicked", "lost"}

Settled(e) == e.dropped \/ e.injected \/ e.upstreamErr \/ e.status # 0

Life(r) ==
  /\ Effects(r) => n[r] # 0 /\ slept[r] = Dec(r).delay
  /\ pc[r] \in {"new", "sent", "sleeping"} => slept[r] = 0
  /\ pc[r] \in Working \ {"sleeping"} => slept[r] = Dec(r).delay
  /\ conn[r] = "cut" => pc[r] \in Behind
  /\ \A q \in before[r] : pc[q] \notin {"new", "sent"}
  /\ pc[r] \in {"forwarding", "copying"} => ~Terminal(r)
  /\ pc[r] \in {"new", "sent", "sleeping", "acting", "forwarding"} => ev[r] = NoEvent
  /\ pc[r] \in {"copying", "logging", "returning", "done", "panicked"} => Settled(ev[r])
  /\ r \in reached => ~Terminal(r)
  /\ n[r] # 0 /\ Dec(r).drop =>
       /\ written[r] = NoView /\ view[r] = NoView
       /\ pc[r] \in Behind => conn[r] # "open"

Lifecycle == \A r \in Requests : Life(r)

\* A step of a handler that takes its own request ahead and touches no other.
OnlyAt(r) ==
  /\ log' = log /\ before' = before
  /\ pc'[r] \notin {"new", "sent"}
  /\ \A q \in Requests \ {r} :
       /\ pc'[q] = pc[q] /\ n'[q] = n[q] /\ slept'[q] = slept[q] /\ ev'[q] = ev[q]
       /\ written'[q] = written[q] /\ conn'[q] = conn[q] /\ view'[q] = view[q]
       /\ q \in reached' <=> q \in reached

\* Such a step changes the life of no other request.
LEMMA LifeElsewhere ==
  ASSUME Typed, Lifecycle, NEW r \in Requests, OnlyAt(r)
  PROVE  \A q \in Requests \ {r} : Life(q)'
<1> SUFFICES ASSUME NEW q \in Requests \ {r}
             PROVE  Life(q)'
  OBVIOUS
<1>1. Life(q)
  BY DEF Lifecycle
<1>2. Dec(q)' = Dec(q) /\ Terminal(q)' = Terminal(q)
  BY DEF OnlyAt, Dec, Terminal
<1>3. Effects(q)' = Effects(q)
  BY DEF OnlyAt, Effects, Logged
<1>4. \A s \in Requests : pc[s] \notin {"new", "sent"} => pc'[s] \notin {"new", "sent"}
  BY DEF OnlyAt
<1> QED
  BY <1>1, <1>2, <1>3, <1>4 DEF OnlyAt, Life, Typed, TypeOK

\* A handler has done, at every place of ServeHTTP, what leads there and no
\* more.
THEOREM LifecycleTheorem == Spec => []Lifecycle
<1>1. Init => Lifecycle
  BY DEF Init, Lifecycle, Life, Effects, Logged, Working, Behind
<1>2. Typed /\ Lifecycle /\ [Next]_vars => Lifecycle'
  <2> SUFFICES ASSUME Typed, Lifecycle, [Next]_vars
               PROVE  Lifecycle'
    OBVIOUS
  <2>1. CASE Restart
    <3> SUFFICES ASSUME NEW q \in Requests
                 PROVE  Life(q)'
      BY DEF Lifecycle
    <3> QED
      BY <2>1 DEF Restart, InFlight, Lifecycle, Life, Effects, Logged, Typed, TypeOK,
         Numbered, Dec, Terminal, Working, Behind, States, remote
  <2>2. ASSUME NEW r \in Requests, Send(r)
        PROVE  Lifecycle'
    <3> SUFFICES ASSUME NEW q \in Requests
                 PROVE  Life(q)'
      BY DEF Lifecycle
    <3>1. \A s \in Requests : Ended(s) => pc[s] \notin {"new", "sent"}
      BY DEF Ended, Lifecycle, Life, Effects, NoView, Behind, Typed, Numbered
    <3> QED
      BY <2>2, <3>1 DEF Send, Lifecycle, Life, Effects, Logged, Typed, TypeOK,
         Dec, Terminal, Working, Behind, remote
  <2>3. ASSUME NEW r \in Requests, HangUp(r)
        PROVE  Lifecycle'
    <3> SUFFICES ASSUME NEW q \in Requests
                 PROVE  Life(q)'
      BY DEF Lifecycle
    <3> QED
      BY <2>3 DEF HangUp, Lifecycle, Life, Effects, Logged, Typed, TypeOK,
         Dec, Terminal, remote, handler
  <2>4. ASSUME NEW r \in Requests, Begin(r)
        PROVE  Lifecycle'
    <3>1. n[r] = 0 /\ ~Effects(r) /\ slept[r] = 0 /\ conn[r] # "cut"
      BY <2>4 DEF Begin, Lifecycle, Life, Typed, Numbered, Behind
    <3>2. IsDecision(Planned(counter + 1, r)) /\ n'[r] = counter + 1
      BY <2>4, ProxyAssumption DEF Begin, Number, Typed, TypeOK
    <3>3. \A q \in Requests \ {r} : Life(q)'
      <4> OnlyAt(r)
        BY <2>4 DEF OnlyAt, Begin, Number, Typed, TypeOK, remote, client
      <4> QED
        BY LifeElsewhere
    <3>4. Life(r)'
      BY <2>4, <3>1, <3>2 DEF Begin, Number, MustSleep, IsDecision, Lifecycle, Life,
         Effects, Logged, Typed, TypeOK, Dec, Terminal, Working, Behind, remote, client
    <3> QED
      BY <3>3, <3>4 DEF Lifecycle
  <2>5. ASSUME NEW r \in Requests, Wake(r)
        PROVE  Lifecycle'
    <3>1. \A q \in Requests \ {r} : Life(q)'
      <4> OnlyAt(r)
        BY <2>5 DEF OnlyAt, Wake, Typed, TypeOK, remote, client
      <4> QED
        BY LifeElsewhere
    <3>2. Life(r)'
      BY <2>5 DEF Wake, Lifecycle, Life, Effects, Logged, Typed, TypeOK, Dec,
         Terminal, Working, Behind, Numbered, remote, client
    <3> QED
      BY <3>1, <3>2 DEF Lifecycle
  <2>6. ASSUME NEW r \in Requests, Drop(r) \/ Abort(r)
        PROVE  Lifecycle'
    <3>1. \A q \in Requests \ {r} : Life(q)'
      <4> OnlyAt(r)
        BY <2>6 DEF OnlyAt, Drop, Abort, Sever, Typed, TypeOK, remote
      <4> QED
        BY LifeElsewhere
    <3>5. Settled(ev'[r])
      BY <2>6 DEF Drop, Abort, Settled, Typed, TypeOK, Events
    <3>2. Life(r)'
      BY <2>6, <3>5 DEF Drop, Abort, Sever, Lifecycle, Life, Effects, Logged, Typed, TypeOK,
         Dec, Terminal, Working, Behind, Numbered, remote
    <3> QED
      BY <3>1, <3>2 DEF Lifecycle
  <2>7. ASSUME NEW r \in Requests, Inject(r)
        PROVE  Lifecycle'
    <3>1. \A q \in Requests \ {r} : Life(q)'
      <4> OnlyAt(r)
        BY <2>7 DEF OnlyAt, Inject, Respond, Typed, TypeOK, remote, client
      <4> QED
        BY LifeElsewhere
    <3>5. Settled(ev'[r])
      BY <2>7 DEF Inject, Settled, Typed, TypeOK, Events
    <3>2. Life(r)'
      BY <2>7, <3>5 DEF Inject, Respond, Lifecycle, Life, Effects, Logged, Typed, TypeOK,
         Dec, Terminal, Working, Behind, Numbered, remote, client
    <3> QED
      BY <3>1, <3>2 DEF Lifecycle
  <2>8. ASSUME NEW r \in Requests, Forward(r)
        PROVE  Lifecycle'
    <3>1. \A q \in Requests \ {r} : Life(q)'
      <4> OnlyAt(r)
        BY <2>8 DEF OnlyAt, Forward, Typed, TypeOK, remote, client
      <4> QED
        BY LifeElsewhere
    <3>2. Life(r)'
      BY <2>8 DEF Forward, Lifecycle, Life, Effects, Logged, Typed, TypeOK,
         Dec, Terminal, Working, Behind, remote, client
    <3> QED
      BY <3>1, <3>2 DEF Lifecycle
  <2>9. ASSUME NEW r \in Requests, Reach(r)
        PROVE  Lifecycle'
    <3> SUFFICES ASSUME NEW q \in Requests
                 PROVE  Life(q)'
      BY DEF Lifecycle
    <3> QED
      BY <2>9 DEF Reach, Lifecycle, Life, Effects, Logged, Typed, TypeOK, Numbered,
         Dec, Terminal, Working, handler, client
  <2>10. ASSUME NEW r \in Requests, UpstreamFails(r) \/ Cancelled(r)
         PROVE  Lifecycle'
    <3>1. pc[r] = "forwarding" /\ BadGateway(r)
          /\ UNCHANGED <<run, counter, log, ran, n, slept, client, remote>>
      BY <2>10 DEF UpstreamFails, Cancelled
    <3>2. \A q \in Requests \ {r} : Life(q)'
      <4> OnlyAt(r)
        BY <3>1 DEF OnlyAt, BadGateway, Respond, Typed, TypeOK, remote, client
      <4> QED
        BY LifeElsewhere
    <3>5. Settled(ev'[r])
      BY <3>1 DEF BadGateway, Settled, Typed, TypeOK, Events
    <3>3. Life(r)'
      BY <3>1, <3>5 DEF BadGateway, Respond, Lifecycle, Life, Effects, Logged, Typed, TypeOK,
         Dec, Terminal, Working, Behind, Numbered, remote, client
    <3> QED
      BY <3>2, <3>3 DEF Lifecycle
  <2>11. ASSUME NEW r \in Requests, NEW status \in UpstreamStatuses, Answer(r, status)
         PROVE  Lifecycle'
    <3>1. \A q \in Requests \ {r} : Life(q)'
      <4> OnlyAt(r)
        BY <2>11 DEF OnlyAt, Answer, Respond, Typed, TypeOK, client
      <4> QED
        BY LifeElsewhere
    <3>5. Settled(ev'[r])
      <4>1. status # 0
        BY ProxyAssumption DEF Statuses
      <4>2. ev'[r].status = status
        BY <2>11 DEF Answer, Typed, TypeOK, Events
      <4> QED
        BY <4>1, <4>2 DEF Settled
    <3>2. Life(r)'
      BY <2>11, <3>5 DEF Answer, Respond, Lifecycle, Life, Effects, Logged, Typed, TypeOK,
         Dec, Terminal, Working, Behind, Numbered, client
    <3> QED
      BY <3>1, <3>2 DEF Lifecycle
  <2>12. ASSUME NEW r \in Requests, NEW body \in {"whole", "cutoff"}, CopyReturns(r, body)
         PROVE  Lifecycle'
    <3>1. \A q \in Requests \ {r} : Life(q)'
      <4> OnlyAt(r)
        BY <2>12 DEF OnlyAt, CopyReturns, Typed, TypeOK, remote, client
      <4> QED
        BY LifeElsewhere
    <3>2. Life(r)'
      BY <2>12 DEF CopyReturns, Lifecycle, Life, Effects, Logged, Typed, TypeOK,
         Dec, Terminal, Working, Behind, Numbered, remote, client
    <3> QED
      BY <3>1, <3>2 DEF Lifecycle
  <2>13. ASSUME NEW r \in Requests, Log(r)
         PROVE  Lifecycle'
    <3> SUFFICES ASSUME NEW q \in Requests
                 PROVE  Life(q)'
      BY DEF Lifecycle
    <3>1. Logged(q)' => Logged(q) \/ q = r
      <4>1. log' = Append(log, Entry(r)) /\ Entry(r).req = r /\ Len(log) \in Nat
            /\ DOMAIN log = 1 .. Len(log)
        BY <2>13 DEF Log, Entry, Typed, TypeOK
      <4>2. \A k \in DOMAIN log' : (k \in DOMAIN log /\ log'[k] = log[k])
                                  \/ log'[k] = Entry(r)
        BY <4>1
      <4> QED
        BY <4>1, <4>2 DEF Logged
    <3>2. n[r] # 0 /\ slept[r] = Dec(r).delay
      BY <2>13 DEF Log, Lifecycle, Life, Typed, Numbered, Working
    <3> QED
      BY <2>13, <3>1, <3>2 DEF Log, Lifecycle, Life, Effects, Typed, TypeOK,
         Dec, Terminal, Working, Behind, remote, client
  <2>14. ASSUME NEW r \in Requests, Return(r)
         PROVE  Lifecycle'
    <3>1. \A q \in Requests \ {r} : Life(q)'
      <4> OnlyAt(r)
        BY <2>14 DEF OnlyAt, Return, Typed, TypeOK, remote
      <4> QED
        BY LifeElsewhere
    <3>2. n[r] # 0 /\ slept[r] = Dec(r).delay /\ Life(r)
      BY <2>14 DEF Return, Lifecycle, Life, Typed, Numbered, Working
    <3>3. Life(r)'
      BY <2>14, <3>2 DEF Return, Lifecycle, Life, Effects, Logged, Typed, TypeOK, Dec,
         Terminal, Working, Behind, remote
    <3> QED
      BY <3>1, <3>3 DEF Lifecycle
  <2>15. ASSUME NEW r \in Requests, Deliver(r)
         PROVE  Lifecycle'
    <3>1. \A q \in Requests \ {r} : Life(q)'
      <4> OnlyAt(r)
        BY <2>15 DEF OnlyAt, Deliver, Typed, TypeOK, handler, remote
      <4> QED
        BY LifeElsewhere
    <3>2. written[r] # NoView /\ Life(r)
      BY <2>15 DEF Deliver, Lifecycle, NoView
    <3>3. Life(r)'
      BY <2>15, <3>2 DEF Deliver, Lifecycle, Life, Effects, Logged, Dec, Terminal, Working,
         Behind, handler, remote
    <3> QED
      BY <3>1, <3>3 DEF Lifecycle
  <2>16. CASE UNCHANGED vars
    BY <2>16 DEF vars, handler, client, remote, Lifecycle, Life, Effects, Logged, Dec,
       Terminal
  <2> QED
    BY <2>1, <2>2, <2>3, <2>4, <2>5, <2>6, <2>7, <2>8, <2>9, <2>10, <2>11, <2>12,
       <2>13, <2>14, <2>15, <2>16
    DEF Next, Handle, Environment, CopyEnds, CopyBreaks, CopyCancelled
<1> QED
  BY <1>1, <1>2, Typing, PTL DEF Spec

---------------------------------------------------------------------------
(* What follows from the life of a handler. *)

\* A request the upstream has seen has a decision that is not terminal.
THEOREM TerminalTheorem == Spec => []TerminalNeverReachesUpstream
<1>1. Typed /\ Lifecycle => TerminalNeverReachesUpstream
  BY DEF Typed, TypeOK, Lifecycle, Life, TerminalNeverReachesUpstream
<1> QED
  BY <1>1, Typing, LifecycleTheorem, PTL

\* A handler shows no effect before it has slept the delay of its decision.
THEOREM DelayTheorem == Spec => []NothingBeforeTheDelay
<1>1. Lifecycle => NothingBeforeTheDelay
  BY DEF Lifecycle, Life, Effects, Logged, NothingBeforeTheDelay
<1> QED
  BY <1>1, LifecycleTheorem, PTL

\* The client of a dropped request gets no byte, and in the end no connection.
THEOREM DropTheorem == Spec => []DropIsSilent
<1>1. Lifecycle => DropIsSilent
  BY DEF Lifecycle, Life, Behind, DropIsSilent
<1> QED
  BY <1>1, LifecycleTheorem, PTL

\* A request sent when another's exchange was over has a higher number.
THEOREM RealTimeTheorem == Spec => []NumbersFollowRealTime
<1>1. Init => NumbersFollowRealTime
  BY DEF Init, NumbersFollowRealTime
<1>2. /\ Typed /\ Lifecycle /\ NumbersAreThePlan
      /\ NumbersFollowRealTime /\ [Next]_vars
      => NumbersFollowRealTime'
  <2> SUFFICES ASSUME Typed, Lifecycle, NumbersAreThePlan, NumbersFollowRealTime,
                      [Next]_vars, NEW r \in Requests, NEW q \in before'[r],
                      ran'[q] # 0, ran'[q] = ran'[r]
               PROVE  n'[q] < n'[r]
    BY DEF NumbersFollowRealTime
  <2>1. CASE before' # before
    <3>1. PICK s \in Requests : Send(s)
      BY <2>1 DEF Next, Handle, Environment, Restart, HangUp, Begin, Wake, Drop, Abort,
         Inject, Forward, Cancelled, CopyCancelled, CopyReturns, Log, Return, Deliver,
         Reach, UpstreamFails, Answer, CopyEnds, CopyBreaks, vars, client
    <3>2. UNCHANGED <<ran, n>> /\ n[s] = 0 /\ ran[s] = 0
      BY <3>1 DEF Send, Typed, Numbered
    <3>3. r # s
      BY <3>2
    <3>4. before'[r] = before[r]
      BY <3>1, <3>3 DEF Send, Typed, TypeOK
    <3> QED
      BY <3>2, <3>4 DEF NumbersFollowRealTime
  <2>2. ASSUME before' = before, NEW s \in Requests, Begin(s)
        PROVE  n'[q] < n'[r]
    <3>1. q \in Requests /\ pc[q] \notin {"new", "sent"}
      BY <2>2 DEF Typed, TypeOK, Lifecycle, Life
    <3>2. /\ pc[s] = "sent" /\ run' = run
          /\ n' = [n EXCEPT ![s] = counter + 1] /\ ran' = [ran EXCEPT ![s] = run]
      BY <2>2 DEF Begin, Number
    <3>3. q # s /\ n'[q] = n[q] /\ ran'[q] = ran[q]
      BY <3>1, <3>2
    <3>4. CASE r = s
      <4>1. ran[q] = run /\ n'[r] = counter + 1
        BY <3>2, <3>3, <3>4 DEF Typed, TypeOK
      <4>2. n[q] \in 1 .. counter
        BY <3>1, <4>1 DEF NumbersAreThePlan, NumberedIn
      <4> QED
        BY <3>3, <4>1, <4>2 DEF Typed, TypeOK
    <3>5. CASE r # s
      BY <2>2, <3>2, <3>3, <3>5 DEF NumbersFollowRealTime
    <3> QED
      BY <3>4, <3>5
  <2>3. CASE before' = before /\ UNCHANGED <<ran, n>>
    BY <2>3 DEF NumbersFollowRealTime
  <2>4. CASE before' = before /\ Restart
    BY <2>4 DEF Restart, NumbersFollowRealTime
  <2> QED
    BY <2>1, <2>2, <2>3, <2>4, NumbersStep
<1> QED
  BY <1>1, <1>2, Typing, LifecycleTheorem, NumbersTheorem, PTL DEF Spec

---------------------------------------------------------------------------
(* What clients are told, and what the log says of it. *)

Early == {"new", "sent", "sleeping", "acting", "forwarding"}

\* The outcome fields of the event follow from the decision, the response that
\* is written and the answer of the upstream from the event, and what has gone
\* out to the client from what is written: all of it once the handler has
\* returned to a client that is still there.
Tale(r) ==
  /\ pc[r] \in Early => written[r] = NoView /\ view[r] = NoView /\ answer[r] = 0
  /\ answer[r] = IF ev[r].injected \/ ev[r].upstreamErr THEN 0 ELSE ev[r].status
  /\ Settled(ev[r]) =>
       /\ ev[r].dropped <=> Dec(r).drop
       /\ ev[r].injected <=> ~Dec(r).drop /\ Dec(r).status # 0
  /\ written[r].status = FinalStatus(ev[r].status)
  /\ written[r].status # 0 =>
       /\ "Injected" \in written[r].headers <=> ev[r].injected
       /\ "UpstreamError" \in written[r].headers <=> ev[r].upstreamErr
  /\ pc[r] \in {"logging", "returning"} =>
       ev[r].dropped \/ written[r].body \in {"whole", "cutoff"}
  /\ view[r].status # 0 =>
       view[r].status = written[r].status /\ view[r].headers = written[r].headers
  /\ pc[r] = "done" /\ conn[r] = "open" => view[r].body \in {"whole", "cutoff"}

Tales == \A r \in Requests : Tale(r)

\* The tale of a request is told by its own part of the state.
Same(r) ==
  /\ pc'[r] = pc[r] /\ n'[r] = n[r] /\ ev'[r] = ev[r]
  /\ written'[r] = written[r] /\ conn'[r] = conn[r] /\ view'[r] = view[r]
  /\ answer'[r] = answer[r]

\* So a step of one request leaves the tales of the others true.
LEMMA TaleElsewhere ==
  ASSUME Tales, NEW r \in Requests, Tale(r)', \A q \in Requests \ {r} : Same(q)
  PROVE  Tales'
<1> SUFFICES ASSUME NEW q \in Requests \ {r}
             PROVE  Tale(q)'
  BY DEF Tales
<1> QED
  BY DEF Tales, Tale, Same, Dec

\* The first response a handler writes is the one net/http keeps.
LEMMA ToldByRespond ==
  ASSUME Typed, NEW r \in Requests, NEW code, NEW headers, NEW body,
         written[r] = NoView, Respond(r, code, headers, body)
  PROVE  written'[r] = [status |-> FinalStatus(code), headers |-> headers, body |-> body]
BY DEF Respond, NoView, Typed, TypeOK

\* Every step of a handler adds to its tale what its place asks for.
LEMMA TalesStep ==
  ASSUME Typed, Lifecycle, Tales, [Next]_vars
  PROVE  Tales'
<1> USE DEF Typed
<1>0. /\ pc \in [Requests -> States] /\ ev \in [Requests -> Events]
      /\ conn \in [Requests -> {"open", "gone", "cut"}]
      /\ written \in [Requests -> Views]
      /\ view \in [Requests -> Views] /\ n \in [Requests -> 0 .. MaxCounter]
      /\ answer \in [Requests -> {0} \cup UpstreamStatuses]
  BY DEF TypeOK
<1>1. CASE Restart
  <2> SUFFICES ASSUME NEW r \in Requests
               PROVE  Tale(r)'
    BY DEF Tales
  <2>1. Tale(r) /\ Dec(r)' = Dec(r)
    BY <1>1 DEF Tales, Restart, Dec
  <2>2. pc'[r] = pc[r] \/ pc'[r] = "lost"
    BY <1>1 DEF Restart
  <2>3. conn[r] # "open" => conn'[r] # "open"
    BY <1>1 DEF Restart
  <2> QED
    BY <1>1, <2>1, <2>2, <2>3 DEF Restart, Tale, Early, remote
<1>2. ASSUME NEW r \in Requests,
             Send(r) \/ Begin(r) \/ Wake(r) \/ Forward(r) \/ Reach(r)
      PROVE  Tales'
  <2>1. /\ UNCHANGED <<ev, written, conn, view, answer>>
        /\ pc[r] \in Early /\ pc'[r] \in Early /\ \A q \in Requests \ {r} : Same(q)
    BY <1>0, <1>2 DEF Send, Begin, Number, Wake, Forward, Reach, Same, Early, handler,
       client, remote
  <2>2. ev[r] = NoEvent
    BY <2>1 DEF Lifecycle, Life, Early
  <2>3. Tale(r)'
    BY <1>0, <2>1, <2>2 DEF Tales, Tale, Early, Settled, NoEvent, NoView
  <2> QED
    BY <2>1, <2>3, TaleElsewhere
<1>3. ASSUME NEW r \in Requests, HangUp(r)
      PROVE  Tales'
  <2>1. \A q \in Requests \ {r} : Same(q)
    BY <1>0, <1>3 DEF HangUp, Same, handler, remote
  <2>2. Tale(r)'
    BY <1>0, <1>3 DEF HangUp, Tales, Tale, Dec, handler, remote
  <2> QED
    BY <2>1, <2>2, TaleElsewhere
<1>4. ASSUME NEW r \in Requests, Drop(r) \/ Abort(r)
      PROVE  Tales'
  <2>1. /\ pc[r] = "acting" /\ Dec(r).drop /\ Dec(r)' = Dec(r)
        /\ conn'[r] # "open" /\ UNCHANGED <<written, view, answer>>
        /\ pc'[r] \in {"logging", "panicked"}
        /\ ev' = [ev EXCEPT ![r].dropped = TRUE]
        /\ \A q \in Requests \ {r} : Same(q)
    BY <1>0, <1>4 DEF Drop, Abort, Sever, Same, Dec, remote
  <2>2. ev[r] = NoEvent /\ Tale(r)
    BY <2>1 DEF Lifecycle, Life, Tales
  <2>3. ev'[r] = [NoEvent EXCEPT !.dropped = TRUE]
    BY <1>0, <2>1, <2>2
  <2>4. Tale(r)'
    BY <2>1, <2>2, <2>3 DEF Tale, Early, Settled, NoEvent, NoView
  <2> QED
    BY <2>1, <2>4, TaleElsewhere
<1>5. ASSUME NEW r \in Requests, Inject(r)
      PROVE  Tales'
  <2>1. /\ pc[r] = "acting" /\ ~Dec(r).drop /\ Dec(r).status # 0 /\ Dec(r)' = Dec(r)
        /\ UNCHANGED <<view, answer>> /\ pc'[r] = "logging"
        /\ \A q \in Requests \ {r} : Same(q)
    BY <1>0, <1>5 DEF Inject, Respond, Same, Dec, client, remote
  <2>2. ev[r] = NoEvent /\ written[r] = NoView /\ view[r] = NoView /\ answer[r] = 0
    BY <2>1 DEF Lifecycle, Life, Tales, Tale, Early
  <2>3. ev'[r] = [NoEvent EXCEPT !.status = Dec(r).status, !.injected = TRUE]
    BY <1>0, <1>5, <2>2 DEF Inject
  <2>4. written'[r] = [status  |-> FinalStatus(Dec(r).status),
                       headers |-> InjectedHeaders(Dec(r)), body |-> "whole"]
    BY <1>5, <2>2, ToldByRespond DEF Inject
  <2>5. Tale(r)'
    BY <2>1, <2>2, <2>3, <2>4
    DEF Tale, Early, Settled, NoEvent, NoView, InjectedHeaders, DelayHeader
  <2> QED
    BY <2>1, <2>5, TaleElsewhere
<1>6. ASSUME NEW r \in Requests, UpstreamFails(r) \/ Cancelled(r)
      PROVE  Tales'
  <2>1. /\ pc[r] = "forwarding" /\ BadGateway(r) /\ Dec(r)' = Dec(r)
        /\ UNCHANGED <<view, answer>> /\ pc'[r] = "logging"
        /\ \A q \in Requests \ {r} : Same(q)
    BY <1>0, <1>6 DEF UpstreamFails, Cancelled, BadGateway, Respond, Same, Dec, client,
       remote
  <2>2. /\ ev[r] = NoEvent /\ written[r] = NoView /\ view[r] = NoView /\ answer[r] = 0
        /\ ~Dec(r).drop /\ Dec(r).status = 0
    BY <2>1 DEF Lifecycle, Life, Tales, Tale, Early, Terminal
  <2>3. ev'[r] = [NoEvent EXCEPT !.status = 502, !.upstreamErr = TRUE]
    BY <1>0, <2>1, <2>2 DEF BadGateway
  <2>4. written'[r] = [status  |-> FinalStatus(502),
                       headers |-> {"Request", "UpstreamError"}, body |-> "whole"]
    BY <2>1, <2>2, ToldByRespond DEF BadGateway
  <2>5. Tale(r)'
    BY <2>1, <2>2, <2>3, <2>4 DEF Tale, Early, Settled, NoEvent, NoView
  <2> QED
    BY <2>1, <2>5, TaleElsewhere
<1>7. ASSUME NEW r \in Requests, NEW status \in UpstreamStatuses, Answer(r, status)
      PROVE  Tales'
  <2>1. /\ pc[r] = "forwarding" /\ Dec(r)' = Dec(r) /\ view' = view
        /\ answer'[r] = status /\ pc'[r] = "copying"
        /\ \A q \in Requests \ {r} : Same(q)
    BY <1>0, <1>7 DEF Answer, Respond, Same, Dec, client
  <2>2. /\ ev[r] = NoEvent /\ written[r] = NoView /\ view[r] = NoView
        /\ ~Dec(r).drop /\ Dec(r).status = 0
    BY <2>1 DEF Lifecycle, Life, Tales, Tale, Early, Terminal
  <2>3. ev'[r] = [NoEvent EXCEPT !.status = status]
    BY <1>0, <1>7, <2>2 DEF Answer
  <2>4. written'[r] = [status  |-> FinalStatus(status),
                       headers |-> RelayedHeaders(Dec(r)), body |-> "part"]
    BY <1>7, <2>2, ToldByRespond DEF Answer
  <2>5. Tale(r)'
    BY <2>1, <2>2, <2>3, <2>4
    DEF Tale, Early, Settled, NoEvent, NoView, RelayedHeaders, DelayHeader
  <2> QED
    BY <2>1, <2>5, TaleElsewhere
<1>8. ASSUME NEW r \in Requests, NEW body \in {"whole", "cutoff"}, CopyReturns(r, body)
      PROVE  Tales'
  <2>1. /\ pc[r] = "copying" /\ Dec(r)' = Dec(r) /\ UNCHANGED <<ev, view, answer>>
        /\ pc'[r] = "logging" /\ \A q \in Requests \ {r} : Same(q)
        /\ written'[r].status = written[r].status
        /\ written'[r].headers = written[r].headers /\ written'[r].body = body
    BY <1>0, <1>8 DEF CopyReturns, Same, Dec, Views, client, remote
  <2>2. Tale(r)'
    BY <2>1 DEF Tales, Tale, Early
  <2> QED
    BY <2>1, <2>2, TaleElsewhere
<1>9. ASSUME NEW r \in Requests, Log(r)
      PROVE  Tales'
  <2>1. /\ pc[r] = "logging" /\ Dec(r)' = Dec(r) /\ UNCHANGED <<ev, written, view, answer>>
        /\ pc'[r] = "returning" /\ \A q \in Requests \ {r} : Same(q)
    BY <1>0, <1>9 DEF Log, Same, Dec, client, remote
  <2>2. Tale(r)'
    BY <2>1 DEF Tales, Tale, Early
  <2> QED
    BY <2>1, <2>2, TaleElsewhere
<1>10. ASSUME NEW r \in Requests, Return(r)
       PROVE  Tales'
  <2>1. /\ pc[r] = "returning" /\ Dec(r)' = Dec(r) /\ UNCHANGED <<ev, written, conn, answer>>
        /\ pc'[r] = "done" /\ \A q \in Requests \ {r} : Same(q)
        /\ view'[r] = IF conn[r] = "open" THEN written[r] ELSE view[r]
    BY <1>0, <1>10 DEF Return, Same, Dec, remote
  <2>2. conn[r] = "open" => ~ev[r].dropped
    <3>1. n[r] # 0 /\ Settled(ev[r]) /\ Tale(r)
      BY <2>1 DEF Lifecycle, Life, Numbered, Working, Tales
    <3> QED
      BY <2>1, <3>1 DEF Lifecycle, Life, Behind, Tale
  <2>3. Tale(r)'
    BY <2>1, <2>2 DEF Tales, Tale, Early
  <2> QED
    BY <2>1, <2>3, TaleElsewhere
<1>11. ASSUME NEW r \in Requests, Deliver(r)
       PROVE  Tales'
  <2>1. /\ pc[r] \in {"copying", "logging"} /\ pc' = pc /\ Dec(r)' = Dec(r)
        /\ UNCHANGED <<ev, written, conn, answer>> /\ \A q \in Requests \ {r} : Same(q)
        /\ view'[r].status = written[r].status /\ view'[r].headers = written[r].headers
    BY <1>0, <1>11 DEF Deliver, Same, Dec, Views, handler, remote
  <2>2. Tale(r)'
    BY <2>1 DEF Tales, Tale, Early
  <2> QED
    BY <2>1, <2>2, TaleElsewhere
<1>12. CASE UNCHANGED vars
  BY <1>12 DEF vars, handler, client, remote, Tales, Tale, Dec
<1> QED
  BY <1>1, <1>2, <1>3, <1>4, <1>5, <1>6, <1>7, <1>8, <1>9, <1>10, <1>11, <1>12
  DEF Next, Handle, Environment, CopyEnds, CopyBreaks, CopyCancelled

\* At every point of ServeHTTP the event of a request is what its decision says,
\* the response written is what its event says, and what its client has got is
\* a part of that response, whenever net/http chooses to send it.
THEOREM TalesTheorem == Spec => []Tales
<1>1. Init => Tales
  <2>1. FinalStatus(0) = 0
    BY DEF FinalStatus
  <2> QED
    BY <2>1 DEF Init, Tales, Tale, Early, Settled, NoEvent, NoView
<1> QED
  BY <1>1, TalesStep, Typing, LifecycleTheorem, PTL DEF Spec

\* For any decisions, upstream and interleaving, what a client got tells by
\* its headers whether the upstream has answered it (proxy.go:142-145).
THEOREM SelfDescribingTheorem == Spec => []ResponsesAreSelfDescribing
<1>1. Typed /\ Tales => ResponsesAreSelfDescribing
  <2> SUFFICES ASSUME Typed, Tales, NEW r \in Requests, view[r].status # 0
               PROVE  view[r].headers \cap {"Injected", "UpstreamError"} = {}
                        <=> answer[r] # 0 /\ view[r].status = FinalStatus(answer[r])
    BY DEF ResponsesAreSelfDescribing
  <2>1. Tale(r)
    BY DEF Tales
  <2>2. FinalStatus(0) = 0
    BY DEF FinalStatus
  <2> QED
    BY <2>1, <2>2 DEF Tale
<1> QED
  BY <1>1, Typing, TalesTheorem, PTL

---------------------------------------------------------------------------
\* The log has one event of each request whose handler is past OnEvent, the one
\* its handler has settled on, and of no other.
Past == {"returning", "done"}

Book ==
  /\ \A r \in Requests : pc[r] \in Past => Logged(r)
  /\ \A k \in DOMAIN log :
       /\ pc[log[k].req] \in Past \cup {"lost"}
       /\ log[k].event = ev[log[k].req] /\ log[k].n = n[log[k].req]
       /\ Settled(ev[log[k].req])
       /\ \A j \in DOMAIN log : log[j].req = log[k].req => j = k

\* What is in the log, entry by entry.
LEMMA LogTyped ==
  ASSUME TypeOK
  PROVE  /\ Len(log) \in Nat /\ DOMAIN log = 1 .. Len(log)
         /\ \A k \in DOMAIN log : log[k].req \in Requests
<1> DEFINE E == [run : 0 .. MaxRuns, req : Requests, n : 0 .. MaxCounter,
                 delay : Nat, event : Events]
<1>1. log \in Seq(E)
  BY DEF TypeOK
<1>2. \A e \in E : e.req \in Requests
  OBVIOUS
<1> HIDE DEF E
<1>3. Len(log) \in Nat /\ DOMAIN log = 1 .. Len(log) /\ \A k \in DOMAIN log : log[k] \in E
  BY <1>1
<1> QED
  BY <1>2, <1>3

\* Only OnEvent writes to the log, once for each handler that returns.
LEMMA BookStep ==
  ASSUME Typed, Lifecycle, Book, [Next]_vars
  PROVE  Book'
<1> USE DEF Typed
<1>0. /\ pc \in [Requests -> States] /\ n \in [Requests -> 0 .. MaxCounter]
      /\ \A k \in DOMAIN log : log[k].req \in Requests
  BY LogTyped DEF TypeOK
<1>1. ASSUME log' = log,
             \A r \in Requests :
                /\ pc'[r] \in Past => pc[r] \in Past
                /\ pc[r] \in Past \cup {"lost"} =>
                     pc'[r] \in Past \cup {"lost"} /\ ev'[r] = ev[r] /\ n'[r] = n[r]
      PROVE  Book'
  BY <1>0, <1>1 DEF Book, Logged
<1>2. ASSUME NEW r \in Requests, Log(r)
      PROVE  Book'
  <2>1. /\ log' = Append(log, Entry(r)) /\ Entry(r).req = r
        /\ Entry(r).event = ev'[r] /\ Entry(r).n = n'[r]
        /\ pc[r] = "logging" /\ pc'[r] = "returning"
    BY <1>0, <1>2 DEF Log, Entry
  <2>2. /\ Len(log) \in Nat /\ DOMAIN log = 1 .. Len(log)
        /\ DOMAIN log' = 1 .. Len(log) + 1 /\ log'[Len(log) + 1] = Entry(r)
        /\ \A k \in DOMAIN log : k # Len(log) + 1 /\ log'[k] = log[k]
    <3>1. Len(log) \in Nat /\ DOMAIN log = 1 .. Len(log)
      BY LogTyped
    <3> QED
      BY <2>1, <3>1
  <2>3. \A k \in DOMAIN log : log[k].req # r
    BY <2>1 DEF Book, Past
  <2>4. \A q \in Requests \ {r} : pc'[q] = pc[q]
    BY <1>0, <1>2 DEF Log
  <2>5. UNCHANGED <<ev, n>> /\ Settled(ev[r])
    BY <1>2 DEF Log, Lifecycle, Life
  <2>6. ASSUME NEW q \in Requests, pc'[q] \in Past
        PROVE  Logged(q)'
    <3>1. CASE q = r
      BY <2>1, <2>2, <3>1 DEF Logged
    <3>2. CASE q # r
      <4>1. PICK k \in DOMAIN log : log[k].req = q
        BY <2>4, <2>6, <3>2 DEF Book, Logged
      <4> QED
        BY <2>2, <4>1 DEF Logged
    <3> QED
      BY <3>1, <3>2
  <2>7. ASSUME NEW k \in DOMAIN log'
        PROVE  /\ pc'[log'[k].req] \in Past \cup {"lost"}
               /\ log'[k].event = ev'[log'[k].req] /\ log'[k].n = n'[log'[k].req]
               /\ Settled(ev'[log'[k].req])
    <3>1. CASE k = Len(log) + 1
      BY <2>1, <2>2, <2>5, <3>1 DEF Past
    <3>2. CASE k # Len(log) + 1
      <4>1. k \in DOMAIN log /\ log'[k] = log[k]
        BY <2>2, <3>2
      <4> QED
        BY <1>0, <2>3, <2>4, <2>5, <4>1 DEF Book
    <3> QED
      BY <3>1, <3>2
  <2>8. ASSUME NEW k \in DOMAIN log', NEW j \in DOMAIN log', log'[j].req = log'[k].req
        PROVE  j = k
    BY <2>1, <2>2, <2>3, <2>8 DEF Book
  <2> QED
    BY <2>6, <2>7, <2>8 DEF Book
<1>3. CASE Restart
  BY <1>0, <1>1, <1>3 DEF Restart, InFlight, Past
<1>4. ASSUME NEW r \in Requests, Handle(r), ~Log(r), ~Return(r)
      PROVE  Book'
  <2>1. log' = log /\ pc[r] \notin Past \cup {"lost"} /\ pc'[r] \notin Past
    BY <1>0, <1>4 DEF Handle, Begin, Wake, Drop, Abort, Inject, Forward, Cancelled,
       BadGateway, CopyCancelled, CopyReturns, Past
  <2>2. \A q \in Requests \ {r} : pc'[q] = pc[q] /\ ev'[q] = ev[q] /\ n'[q] = n[q]
    BY <1>0, <1>4 DEF Handle, Begin, Number, Wake, Drop, Abort, Inject, Forward, Cancelled,
       BadGateway, CopyCancelled, CopyReturns, TypeOK
  <2> QED
    BY <1>1, <2>1, <2>2
<1>5. ASSUME NEW r \in Requests, Return(r)
      PROVE  Book'
  BY <1>0, <1>1, <1>5 DEF Return, Past
<1>6. ASSUME NEW r \in Requests, Environment(r)
      PROVE  Book'
  <2>1. /\ log' = log
        /\ \/ pc' = pc /\ UNCHANGED <<ev, n>>
           \/ pc[r] \notin Past \cup {"lost"} /\ pc'[r] \notin Past
    BY <1>0, <1>6 DEF Environment, Send, HangUp, Deliver, Reach, UpstreamFails, BadGateway,
       Answer, CopyEnds, CopyBreaks, CopyReturns, handler, Past
  <2>2. \A q \in Requests \ {r} : pc'[q] = pc[q] /\ ev'[q] = ev[q] /\ n'[q] = n[q]
    BY <1>0, <1>6 DEF Environment, Send, HangUp, Deliver, Reach, UpstreamFails, BadGateway,
       Answer, CopyEnds, CopyBreaks, CopyReturns, handler, TypeOK
  <2> QED
    BY <1>1, <2>1, <2>2
<1>7. CASE UNCHANGED vars
  BY <1>1, <1>7 DEF vars, handler
<1> QED
  BY <1>2, <1>3, <1>4, <1>5, <1>6, <1>7 DEF Next

\* The log has one entry for every handler that got past OnEvent, as its event
\* was then.
THEOREM BookTheorem == Spec => []Book
<1>1. Init => Book
  BY DEF Init, Book, Past
<1> QED
  BY <1>1, BookStep, Typing, LifecycleTheorem, PTL DEF Spec

\* However handlers, clients, buffers and kills interleave, a request whose
\* handler returns has left exactly one event, which tells the response that
\* was written and the part of it that its client ever sees (proxy.go:37-66).
THEOREM LogTheorem == Spec => []LogAgreesWithClients
<1>1. Typed /\ Tales /\ Book => LogAgreesWithClients
  <2> SUFFICES ASSUME Typed, Tales, Book
               PROVE  LogAgreesWithClients
    OBVIOUS
  <2>1. ASSUME NEW r \in Requests
        PROVE  /\ pc[r] \in {"returning", "done"} => Logged(r)
               /\ pc[r] = "done" /\ conn[r] = "open" => view[r].body \in {"whole", "cutoff"}
    BY DEF Book, Past, Tales, Tale
  <2>2. ASSUME NEW k \in DOMAIN log
        PROVE  LET e == log[k]
                   status == FinalStatus(e.event.status)
               IN /\ \A j \in DOMAIN log : log[j].req = e.req => j = k
                  /\ written[e.req].status = status
                  /\ view[e.req].status \in {0, status}
                  /\ e.event.dropped <=> Planned(e.n, e.req).drop
                  /\ e.event.injected <=> ~e.event.dropped /\ Planned(e.n, e.req).status # 0
    <3>1. log[k].req \in Requests
      BY LogTyped DEF Typed
    <3> QED
      BY <3>1 DEF Tales, Tale, Book, Dec
  <2> QED
    BY <2>1, <2>2 DEF LogAgreesWithClients
<1> QED
  BY <1>1, Typing, TalesTheorem, BookTheorem, PTL

---------------------------------------------------------------------------
(* The data plane implements the contract: a handler takes its number in   *)
(* Begin, serves the delay in Wake and settles in the step that fills in   *)
(* its event; all other steps of handlers, clients and the upstream leave  *)
(* the contract's variables alone.                                         *)

\* A request that is not settled shows as pending, and its handler cannot have
\* been lost.
LEMMA PendingAt ==
  ASSUME Typed, Lifecycle, NEW r \in Requests,
         pc[r] \in {"new", "sent", "sleeping", "acting", "forwarding"}
  PROVE  Outcome(r) = "pending" /\ ev[r] = NoEvent
BY DEF Lifecycle, Life, Outcome, NoEvent

\* A step that fills in no event and loses no handler is one of the contract's
\* stutters, if it numbers and delays nothing.
LEMMA Stutter ==
  ASSUME UNCHANGED <<counter, n, slept, ev>>,
         \A r \in Requests : pc'[r] = "lost" <=> pc[r] = "lost"
  PROVE  UNCHANGED Contract!vars
<1>1. \A r \in Requests : Outcome(r)' = Outcome(r)
  BY DEF Outcome
<1>2. [r \in Requests |-> Outcome(r)]' = [r \in Requests |-> Outcome(r)]
  BY <1>1
<1> QED
  BY <1>2 DEF Contract!vars

\* A handler that settles on an outcome its decision allows settles in the
\* contract, once its delay is over.
LEMMA Settles ==
  ASSUME Typed, Lifecycle, NEW r \in Requests, OnlyAt(r),
         pc[r] \in {"acting", "forwarding"},
         UNCHANGED <<counter, n, slept>>,
         Outcome(r)' \in Contract!Allowed(Dec(r))
  PROVE  Contract!Settle(r)
<1>1. Outcome(r) = "pending"
  BY PendingAt
<1>2. n[r] # 0 /\ slept[r] = Dec(r).delay
  BY DEF Typed, Numbered, Lifecycle, Life, Working
<1>3. \A q \in Requests \ {r} : Outcome(q)' = Outcome(q)
  BY DEF OnlyAt, Outcome
<1>4. [q \in Requests |-> Outcome(q)]'
        = [[q \in Requests |-> Outcome(q)] EXCEPT ![r] = Outcome(r)']
  BY <1>3
<1> QED
  BY <1>1, <1>2, <1>4 DEF Contract!Settle, Contract!Pending, Dec

\* The server with its handlers, clients, upstream and crashes keeps the
\* contract, whatever the decisions are.
THEOREM RefinementTheorem == Spec => KeepsTheContract
<1>1. Init => Contract!Init
  BY DEF Init, Contract!Init, Contract!Pending, Outcome, NoEvent
<1>2. Typed /\ Lifecycle /\ [Next]_vars => [Contract!Next]_(Contract!vars)
  <2> SUFFICES ASSUME Typed, Lifecycle, [Next]_vars
               PROVE  [Contract!Next]_(Contract!vars)
    OBVIOUS
  <2>1. CASE Restart
    <3> DEFINE forgotten == {r \in Requests : pc[r] = "sent"}
    <3>1. forgotten \in SUBSET {r \in Requests : n[r] = 0}
      BY DEF Typed, Numbered
    <3>2. counter' = 0 /\ UNCHANGED <<n, slept>>
      BY <2>1 DEF Restart
    <3>3. ASSUME NEW r \in Requests
          PROVE  Outcome(r)' = IF Outcome(r) = "pending" /\ (n[r] # 0 \/ r \in forgotten)
                               THEN "lost" ELSE Outcome(r)
      <4>1. ev' = ev /\ pc'[r] = IF InFlight(r) THEN "lost" ELSE pc[r]
        BY <2>1 DEF Restart
      <4>2. CASE Settled(ev[r])
        BY <4>1, <4>2 DEF Outcome, Settled
      <4>3. CASE ~Settled(ev[r])
        <5>1. pc[r] \notin {"copying", "logging", "returning", "done", "panicked"}
          BY <4>3 DEF Lifecycle, Life
        <5>2. pc[r] \in {"new", "sent"} => n[r] = 0
          BY DEF Typed, Numbered
        <5>3. pc[r] \in {"sleeping", "acting", "forwarding"} => n[r] # 0
          BY DEF Typed, Numbered, Working
        <5>4. pc[r] \in States
          BY DEF Typed, TypeOK
        <5> QED
          BY <4>1, <4>3, <5>1, <5>2, <5>3, <5>4 DEF Outcome, Settled, InFlight, States
      <4> QED
        BY <4>2, <4>3
    <3>4. [r \in Requests |-> Outcome(r)]' =
            [r \in Requests |->
               IF [q \in Requests |-> Outcome(q)][r] = "pending"
                  /\ (n[r] # 0 \/ r \in forgotten)
               THEN "lost" ELSE [q \in Requests |-> Outcome(q)][r]]
      BY <3>3
    <3>5. Contract!Restart
      BY <3>1, <3>2, <3>4 DEF Contract!Restart, Contract!Pending, Contract!Lost
    <3> QED
      BY <3>5 DEF Contract!Next
  <2>2. ASSUME NEW r \in Requests, Begin(r)
        PROVE  Contract!Take(r)
    <3>1. Outcome(r) = "pending" /\ n[r] = 0
      BY <2>2, PendingAt DEF Begin, Typed, Numbered
    <3>2. \A q \in Requests : Outcome(q)' = Outcome(q)
      BY <2>2 DEF Begin, Outcome, Typed, TypeOK
    <3>3. [q \in Requests |-> Outcome(q)]' = [q \in Requests |-> Outcome(q)]
      BY <3>2
    <3> QED
      BY <2>2, <3>1, <3>3 DEF Begin, Number, Contract!Take, Contract!Pending
  <2>3. ASSUME NEW r \in Requests, Wake(r)
        PROVE  Contract!Wait(r)
    <3>1. Outcome(r) = "pending" /\ n[r] # 0 /\ slept[r] = 0
      BY <2>3, PendingAt DEF Wake, Typed, Numbered, Working, Lifecycle, Life
    <3>2. \A q \in Requests : Outcome(q)' = Outcome(q)
      BY <2>3 DEF Wake, Outcome, Typed, TypeOK
    <3>3. [q \in Requests |-> Outcome(q)]' = [q \in Requests |-> Outcome(q)]
      BY <3>2
    <3> QED
      BY <2>3, <3>1, <3>3 DEF Wake, Dec, Contract!Wait, Contract!Pending
  <2>4. ASSUME NEW r \in Requests, Drop(r) \/ Abort(r)
        PROVE  Contract!Settle(r)
    <3>1. OnlyAt(r) /\ UNCHANGED <<counter, n, slept>>
      BY <2>4 DEF OnlyAt, Drop, Abort, Sever, Typed, TypeOK, remote
    <3>2. ev'[r].dropped
      BY <2>4 DEF Drop, Abort, Typed, TypeOK, Events
    <3>3. Outcome(r)' = "severed" /\ "severed" \in Contract!Allowed(Dec(r))
      BY <2>4, <3>2 DEF Drop, Abort, Outcome, Contract!Allowed
    <3> QED
      BY <2>4, <3>1, <3>3, Settles DEF Drop, Abort
  <2>5. ASSUME NEW r \in Requests, Inject(r)
        PROVE  Contract!Settle(r)
    <3>1. OnlyAt(r) /\ UNCHANGED <<counter, n, slept>>
      BY <2>5 DEF OnlyAt, Inject, Respond, Typed, TypeOK, remote, client
    <3>2. ev[r] = NoEvent
      BY <2>5, PendingAt DEF Inject
    <3>3. ev'[r].injected /\ ~ev'[r].dropped
      BY <2>5, <3>2 DEF Inject, Typed, TypeOK, NoEvent
    <3>4. Outcome(r)' = "injected" /\ "injected" \in Contract!Allowed(Dec(r))
      BY <2>5, <3>3 DEF Inject, Outcome, Contract!Allowed
    <3> QED
      BY <2>5, <3>1, <3>4, Settles DEF Inject
  <2>6. ASSUME NEW r \in Requests, UpstreamFails(r) \/ Cancelled(r)
        PROVE  Contract!Settle(r)
    <3>1. /\ pc[r] = "forwarding" /\ BadGateway(r)
          /\ UNCHANGED <<run, counter, log, ran, n, slept, client, remote>>
      BY <2>6 DEF UpstreamFails, Cancelled
    <3>2. OnlyAt(r)
      BY <3>1 DEF OnlyAt, BadGateway, Respond, Typed, TypeOK, remote, client
    <3>3. ev[r] = NoEvent /\ ~Terminal(r)
      BY <3>1, PendingAt DEF Lifecycle, Life
    <3>4. ev'[r].upstreamErr /\ ~ev'[r].dropped /\ ~ev'[r].injected
      BY <3>1, <3>3 DEF BadGateway, Typed, TypeOK, NoEvent
    <3>5. Outcome(r)' = "unreachable" /\ "unreachable" \in Contract!Allowed(Dec(r))
      BY <3>3, <3>4 DEF Outcome, Terminal, Contract!Allowed
    <3> QED
      BY <3>1, <3>2, <3>5, Settles
  <2>7. ASSUME NEW r \in Requests, NEW status \in UpstreamStatuses, Answer(r, status)
        PROVE  Contract!Settle(r)
    <3>1. OnlyAt(r) /\ UNCHANGED <<counter, n, slept>>
      BY <2>7 DEF OnlyAt, Answer, Respond, Typed, TypeOK, client
    <3>2. ev[r] = NoEvent /\ ~Terminal(r)
      BY <2>7, PendingAt DEF Answer, Lifecycle, Life
    <3>3. status # 0
      BY ProxyAssumption DEF Statuses
    <3>4. /\ ev'[r].status = status
          /\ ~ev'[r].dropped /\ ~ev'[r].injected /\ ~ev'[r].upstreamErr
      BY <2>7, <3>2 DEF Answer, Typed, TypeOK, NoEvent
    <3>5. Outcome(r)' = "relayed" /\ "relayed" \in Contract!Allowed(Dec(r))
      BY <3>2, <3>3, <3>4 DEF Outcome, Terminal, Contract!Allowed
    <3> QED
      BY <2>7, <3>1, <3>5, Settles DEF Answer
  <2>8. ASSUME NEW r \in Requests,
               \/ Send(r) \/ HangUp(r) \/ Deliver(r) \/ Forward(r) \/ Reach(r)
               \/ Log(r) \/ Return(r)
               \/ \E body \in {"whole", "cutoff"} : CopyReturns(r, body)
        PROVE  UNCHANGED Contract!vars
    <3>1. UNCHANGED <<counter, n, slept, ev>>
      BY <2>8 DEF Send, HangUp, Deliver, Forward, Reach, Log, Return, CopyReturns, handler
    <3>2. pc \in [Requests -> States]
      BY DEF Typed, TypeOK
    <3>3. \A q \in Requests : pc'[q] = "lost" <=> pc[q] = "lost"
      BY <2>8, <3>2 DEF Send, HangUp, Deliver, Forward, Reach, Log, Return, CopyReturns,
         handler
    <3> QED
      BY <3>1, <3>3, Stutter
  <2>9. CASE UNCHANGED vars
    BY <2>9, Stutter DEF vars, handler
  <2> QED
    BY <2>1, <2>2, <2>3, <2>4, <2>5, <2>6, <2>7, <2>8, <2>9
    DEF Next, Handle, Environment, CopyEnds, CopyBreaks, CopyCancelled, Contract!Next
<1> QED
  BY <1>1, <1>2, Typing, LifecycleTheorem, PTL DEF Spec, KeepsTheContract, Contract!Spec
=============================================================================
