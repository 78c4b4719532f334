---------------------------- MODULE ProxyServer ----------------------------
(***************************************************************************)
(* The data plane (internal/proxy): one Server, and the goroutines in      *)
(* which net/http runs its ServeHTTP, one per request.  They share the     *)
(* request counter and the log and otherwise meet only their client, which *)
(* may hang up at any time, and the upstream, which may answer, fail, or   *)
(* stall for ever.  The process may be killed and started again.           *)
(*                                                                         *)
(* External to src/: net/http's server (hijacking, informational statuses, *)
(* the buffers between a handler and its client, cancelling the context of *)
(* a request whose client has gone) and its Transport; they are modelled   *)
(* by what ServeHTTP and its client see of them.                           *)
(***************************************************************************)
EXTENDS Naturals, Sequences, FiniteSets

CONSTANTS Requests,          \* the requests clients may send, each once
          Planned(_, _),      \* engine.Decide for a counter and a request
          UpstreamStatuses,  \* what the upstream may answer with
          MaxCounter,        \* bound: requests one run of the process handles
          MaxRuns            \* bound: runs of the process

Statuses == 100 .. 599

IsDecision(d) ==
  /\ d.delay \in Nat
  /\ d.status \in {0} \cup Statuses
  /\ d.drop \in BOOLEAN
  /\ d.throttle_bps \in Nat

ASSUME ProxyAssumption ==
  /\ UpstreamStatuses \subseteq Statuses
  /\ MaxCounter \in Nat /\ MaxRuns \in Nat \ {0}
  /\ \A k \in 1 .. MaxCounter, r \in Requests : IsDecision(Planned(k, r))

VARIABLES
  run,       \* which run of the process this is, from 1
  counter,   \* Server.counter: requests numbered in this run
  log,       \* the events handed to OnEvent, in order
  pc,        \* where the goroutine of a request is
  ran,       \* the run that numbered a request, 0 before
  n,         \* the number a request got, 0 before
  slept,     \* how long the handler has slept
  ev,        \* the outcome fields of its Event
  written,   \* the response it has handed to net/http
  conn,      \* the client's connection: open, gone (hung up) or cut (by us)
  view,      \* what of the response has gone out to the client
  reached,   \* the requests the upstream has seen
  answer,    \* the status the upstream answered with, 0 before
  before     \* the requests whose exchange had ended when a request was sent

handler == <<pc, ran, n, slept, ev, written>>
client  == <<conn, view, before>>
remote  == <<reached, answer>>
vars    == <<run, counter, log, handler, client, remote>>

NoEvent == [status |-> 0, injected |-> FALSE, dropped |-> FALSE, upstreamErr |-> FALSE]

\* A response: a status, those headers that slowlane sets, a body.
NoView  == [status |-> 0, headers |-> {}, body |-> "none"]

Init ==
  /\ run = 1 /\ counter = 0 /\ log = <<>>
  /\ pc = [r \in Requests |-> "new"]
  /\ ran = [r \in Requests |-> 0]
  /\ n = [r \in Requests |-> 0]
  /\ slept = [r \in Requests |-> 0]
  /\ ev = [r \in Requests |-> NoEvent]
  /\ written = [r \in Requests |-> NoView]
  /\ conn = [r \in Requests |-> "open"]
  /\ view = [r \in Requests |-> NoView]
  /\ reached = {}
  /\ answer = [r \in Requests |-> 0]
  /\ before = [r \in Requests |-> {}]

\* The decision a numbered request goes by.
Dec(r) == Planned(n[r], r)

Terminal(r) == Dec(r).status # 0 \/ Dec(r).drop

\* The exchange is over for the client.
Ended(r) == view[r].body \in {"whole", "cutoff"} \/ conn[r] = "cut"

---------------------------------------------------------------------------
(* The clients. *)

Send(r) ==
  /\ pc[r] = "new"
  /\ pc' = [pc EXCEPT ![r] = "sent"]
  /\ before' = [before EXCEPT ![r] = {q \in Requests : Ended(q)}]
  /\ UNCHANGED <<run, counter, log, ran, n, slept, ev, written, conn, view, remote>>

HangUp(r) ==
  /\ pc[r] # "new"
  /\ conn[r] = "open"
  /\ ~Ended(r)
  /\ conn' = [conn EXCEPT ![r] = "gone"]
  /\ UNCHANGED <<run, counter, log, handler, view, before, remote>>

---------------------------------------------------------------------------
(* ServeHTTP up to the outcome. *)

\* Mutant of Number: Add as a load and a store, an increment may be lost.
NumberTorn(r) ==
  /\ n' = [n EXCEPT ![r] = counter + 1]
  /\ counter' \in {counter, counter + 1}

\* Mutant of Number: Add is called once more to fill in the event.
NumberTwice(r) ==
  /\ n' = [n EXCEPT ![r] = counter + 1]
  /\ counter' = counter + 2

\* n := s.counter.Add(1)
Number(r) ==
  /\ n' = [n EXCEPT ![r] = counter + 1]
  /\ counter' = counter + 1

\* Mutant of MustSleep: only what goes on to the upstream is delayed.
MustSleepForwarded(d) == d.delay > 0 /\ d.status = 0 /\ ~d.drop

MustSleep(d) == d.delay > 0

Begin(r) ==
  /\ pc[r] = "sent"
  /\ counter < MaxCounter
  /\ Number(r)
  /\ ran' = [ran EXCEPT ![r] = run]
  /\ pc' = [pc EXCEPT ![r] =
              IF MustSleep(Planned(counter + 1, r)) THEN "sleeping" ELSE "acting"]
  /\ UNCHANGED <<run, log, slept, ev, written, client, remote>>

\* The sleep does not watch the request's context: a client that has gone
\* does not end it.
Wake(r) ==
  /\ pc[r] = "sleeping"
  /\ slept' = [slept EXCEPT ![r] = Dec(r).delay]
  /\ pc' = [pc EXCEPT ![r] = "acting"]
  /\ UNCHANGED <<run, counter, log, ran, n, ev, written, client, remote>>

---------------------------------------------------------------------------
(* Responses.  net/http keeps what a handler writes in buffers, which go   *)
(* out when they are full, when the throttle flushes them, and at the      *)
(* latest when the handler has returned, after its event has been logged.  *)
(* What goes out to a connection that is not open is lost.                 *)

\* net/http sends an informational status (1xx, except 101) ahead of the
\* response, which then takes the status 200.
FinalStatus(code) == IF code \in (100 .. 199) \ {101} THEN 200 ELSE code

\* WriteHeader and the body.  A second WriteHeader is ignored.
Respond(r, code, headers, body) ==
  written' = [written EXCEPT ![r] =
                IF @.status # 0 THEN [@ EXCEPT !.body = body]
                ELSE [status  |-> FinalStatus(code),
                      headers |-> headers,
                      body    |-> body]]

\* A write of the handler has filled the buffers or flushes them: some of the
\* response goes out, or all of it.
Deliver(r) ==
  /\ pc[r] \in {"copying", "logging"} /\ written[r].status # 0
  /\ conn[r] = "open" /\ ~Ended(r)
  /\ \E body \in {"part", "whole"} \cap {"part", written[r].body} :
       view' = [view EXCEPT ![r] = [written[r] EXCEPT !.body = body]]
  /\ UNCHANGED <<run, counter, log, handler, conn, before, remote>>

DelayHeader(d) == IF d.delay > 0 THEN {"Delay"} ELSE {}

\* Mutant of InjectedHeaders: the response does not name the rule.
InjectedHeadersAnonymous(d) == {"Request"} \cup DelayHeader(d)

InjectedHeaders(d) == {"Request", "Injected"} \cup DelayHeader(d)

RelayedHeaders(d) ==
  {"Request"} \cup DelayHeader(d)
  \cup (IF d.throttle_bps > 0 THEN {"Throttled"} ELSE {})

---------------------------------------------------------------------------
(* The three outcomes. *)

\* Mutant of Sever: the hijacked connection is not closed.
SeverNot(r) == UNCHANGED conn

Sever(r) ==
  conn' = [conn EXCEPT ![r] = IF @ = "open" THEN "cut" ELSE @]

\* The connection is hijacked and closed.
Drop(r) ==
  /\ pc[r] = "acting"
  /\ Dec(r).drop
  /\ Sever(r)
  /\ ev' = [ev EXCEPT ![r].dropped = TRUE]
  /\ pc' = [pc EXCEPT ![r] = "logging"]
  /\ UNCHANGED <<run, counter, log, ran, n, slept, written, view, before, remote>>

\* The connection cannot be hijacked, or Hijack fails.  Then the handler panics
\* with http.ErrAbortHandler: the server resets the stream, and OnEvent is
\* never called.
Abort(r) ==
  /\ pc[r] = "acting"
  /\ Dec(r).drop
  /\ Sever(r)
  /\ ev' = [ev EXCEPT ![r].dropped = TRUE]
  /\ pc' = [pc EXCEPT ![r] = "panicked"]
  /\ UNCHANGED <<run, counter, log, ran, n, slept, written, view, before, remote>>

\* Mutant of Inject: a client that has gone is waited for.
InjectConnected(r) ==
  /\ pc[r] = "acting"
  /\ ~Dec(r).drop /\ Dec(r).status # 0
  /\ conn[r] = "open"
  /\ Respond(r, Dec(r).status, InjectedHeaders(Dec(r)), "whole")
  /\ ev' = [ev EXCEPT ![r].status = Dec(r).status, ![r].injected = TRUE]
  /\ pc' = [pc EXCEPT ![r] = "logging"]
  /\ UNCHANGED <<run, counter, log, ran, n, slept, client, remote>>

Inject(r) ==
  /\ pc[r] = "acting"
  /\ ~Dec(r).drop /\ Dec(r).status # 0
  /\ Respond(r, Dec(r).status, InjectedHeaders(Dec(r)), "whole")
  /\ ev' = [ev EXCEPT ![r].status = Dec(r).status, ![r].injected = TRUE]
  /\ pc' = [pc EXCEPT ![r] = "logging"]
  /\ UNCHANGED <<run, counter, log, ran, n, slept, client, remote>>

\* Mutant of Forward: an injected status does not keep the request back.
ForwardInjected(r) ==
  /\ pc[r] = "acting"
  /\ ~Dec(r).drop
  /\ pc' = [pc EXCEPT ![r] = "forwarding"]
  /\ UNCHANGED <<run, counter, log, ran, n, slept, ev, written, client, remote>>

Forward(r) ==
  /\ pc[r] = "acting"
  /\ ~Terminal(r)
  /\ pc' = [pc EXCEPT ![r] = "forwarding"]
  /\ UNCHANGED <<run, counter, log, ran, n, slept, ev, written, client, remote>>

---------------------------------------------------------------------------
(* forward: the round trip and the relay of the answer. *)

\* The request gets to the upstream.
Reach(r) ==
  /\ pc[r] = "forwarding"
  /\ r \notin reached
  /\ reached' = reached \cup {r}
  /\ UNCHANGED <<run, counter, log, handler, client, answer>>

\* RoundTrip returned an error.
BadGateway(r) ==
  /\ Respond(r, 502, {"Request", "UpstreamError"}, "whole")
  /\ ev' = [ev EXCEPT ![r].status = 502, ![r].upstreamErr = TRUE]
  /\ pc' = [pc EXCEPT ![r] = "logging"]

\* The upstream refuses the connection, or breaks it before an answer.
UpstreamFails(r) ==
  /\ pc[r] = "forwarding"
  /\ BadGateway(r)
  /\ UNCHANGED <<run, counter, log, ran, n, slept, client, remote>>

\* Mutant of Cancelled: the round trip is not tied to the client's request.
CancelledNever(r) == FALSE /\ UNCHANGED vars

\* The client has gone, its context is cancelled and the round trip gives up.
Cancelled(r) ==
  /\ pc[r] = "forwarding"
  /\ conn[r] = "gone"
  /\ BadGateway(r)
  /\ UNCHANGED <<run, counter, log, ran, n, slept, client, remote>>

Answer(r, status) ==
  /\ pc[r] = "forwarding"
  /\ r \in reached
  /\ answer' = [answer EXCEPT ![r] = status]
  /\ Respond(r, status, RelayedHeaders(Dec(r)), "part")
  /\ ev' = [ev EXCEPT ![r].status = status]
  /\ pc' = [pc EXCEPT ![r] = "copying"]
  /\ UNCHANGED <<run, counter, log, ran, n, slept, client, reached>>

\* io.Copy returns: at the end of the body, or because the upstream broke off
\* or the client has gone.  Its error is ignored.
CopyReturns(r, body) ==
  /\ pc[r] = "copying"
  /\ written' = [written EXCEPT ![r].body = body]
  /\ pc' = [pc EXCEPT ![r] = "logging"]
  /\ UNCHANGED <<run, counter, log, ran, n, slept, ev, client, remote>>

CopyEnds(r) == CopyReturns(r, "whole")

\* Mutant of CopyBreaks: the error of the copy is answered with a 502.
CopyBreaksLoudly(r) ==
  /\ pc[r] = "copying"
  /\ BadGateway(r)
  /\ UNCHANGED <<run, counter, log, ran, n, slept, client, remote>>

CopyBreaks(r) == CopyReturns(r, "cutoff")

CopyCancelled(r) == conn[r] = "gone" /\ CopyReturns(r, "cutoff")

---------------------------------------------------------------------------
(* The end of ServeHTTP, and of the process. *)

Entry(r) ==
  [run |-> ran[r], req |-> r, n |-> n[r], delay |-> Dec(r).delay, event |-> ev[r]]

\* s.OnEvent(ev); the logger serializes concurrent calls.
Log(r) ==
  /\ pc[r] = "logging"
  /\ log' = Append(log, Entry(r))
  /\ pc' = [pc EXCEPT ![r] = "returning"]
  /\ UNCHANGED <<run, counter, ran, n, slept, ev, written, client, remote>>

\* ServeHTTP returns, and net/http flushes what is left of the response.
Return(r) ==
  /\ pc[r] = "returning"
  /\ view' = IF conn[r] = "open" THEN [view EXCEPT ![r] = written[r]] ELSE view
  /\ pc' = [pc EXCEPT ![r] = "done"]
  /\ UNCHANGED <<run, counter, log, ran, n, slept, ev, written, conn, before, remote>>

InFlight(r) == pc[r] \notin {"new", "done", "panicked", "lost"}

\* The process is killed and started again: the counter lives in memory, and so
\* does what is buffered for a client.
Restart ==
  /\ run < MaxRuns
  /\ run' = run + 1
  /\ counter' = 0
  /\ pc' = [r \in Requests |-> IF InFlight(r) THEN "lost" ELSE pc[r]]
  /\ conn' = [r \in Requests |->
                IF InFlight(r) /\ conn[r] = "open" THEN "cut" ELSE conn[r]]
  /\ UNCHANGED <<log, ran, n, slept, ev, written, view, before, remote>>

\* Steps of the handler that nothing outside slowlane can hold up.
Handle(r) ==
  \/ Begin(r) \/ Wake(r) \/ Drop(r) \/ Abort(r) \/ Inject(r) \/ Forward(r)
  \/ Cancelled(r) \/ CopyCancelled(r) \/ Log(r) \/ Return(r)

\* What clients, the network and the upstream do.
Environment(r) ==
  \/ Send(r) \/ HangUp(r) \/ Deliver(r)
  \/ Reach(r) \/ UpstreamFails(r)
  \/ \E status \in UpstreamStatuses : Answer(r, status)
  \/ CopyEnds(r) \/ CopyBreaks(r)

Next == Restart \/ \E r \in Requests : Handle(r) \/ Environment(r)

Spec == Init /\ [][Next]_vars

\* The scheduler runs every goroutine that can go on; neither clients nor the
\* upstream owe anything.
FairSpec == Spec /\ \A r \in Requests : WF_vars(Handle(r))

---------------------------------------------------------------------------
(* Properties. *)

States == {"new", "sent", "sleeping", "acting", "forwarding", "copying",
           "logging", "returning", "done", "panicked", "lost"}
Headers == {"Request", "Delay", "Injected", "Throttled", "UpstreamError"}
Events == [status : {0} \cup Statuses, injected : BOOLEAN, dropped : BOOLEAN,
           upstreamErr : BOOLEAN]
Views == [status : {0} \cup Statuses, headers : SUBSET Headers,
          body : {"none", "part", "whole", "cutoff"}]

TypeOK ==
  /\ run \in 1 .. MaxRuns
  /\ counter \in 0 .. MaxCounter
  /\ log \in Seq([run : 0 .. MaxRuns, req : Requests, n : 0 .. MaxCounter,
                  delay : Nat, event : Events])
  /\ pc \in [Requests -> States]
  /\ ran \in [Requests -> 0 .. MaxRuns]
  /\ n \in [Requests -> 0 .. MaxCounter]
  /\ slept \in [Requests -> Nat]
  /\ ev \in [Requests -> Events]
  /\ written \in [Requests -> Views]
  /\ conn \in [Requests -> {"open", "gone", "cut"}]
  /\ view \in [Requests -> Views]
  /\ reached \subseteq Requests
  /\ answer \in [Requests -> {0} \cup UpstreamStatuses]
  /\ before \in [Requests -> SUBSET Requests]

NumberedIn(k) == {r \in Requests : ran[r] = k}

\* Whatever the interleaving, the requests a run of the process has handled
\* carry the numbers 1 .. counter, each exactly one of them: the live run
\* walks through the plan without a gap or a repetition (proxy.go:90).
NumbersAreThePlan ==
  /\ {n[r] : r \in NumberedIn(run)} = 1 .. counter
  /\ \A q, r \in Requests :
       q # r /\ ran[q] = ran[r] /\ ran[q] # 0 => n[q] # n[r]

\* A client that sends its next request once the last one has ended gets the
\* decisions of the plan in order: numbers never run against real time.
NumbersFollowRealTime ==
  \A r \in Requests : \A q \in before[r] :
     ran[q] # 0 /\ ran[q] = ran[r] => n[q] < n[r]

\* A terminal decision keeps the request from the upstream (scenario.go:102-104
\* "the upstream is never contacted"), also when its handler was delayed,
\* its client has gone, or the process was killed in between.
TerminalNeverReachesUpstream == \A r \in reached : ~Terminal(r)

\* The delay comes "before anything else" (engine.go:26-27): no byte, no cut
\* by the handler, no contact with the upstream and no event before it.
NothingBeforeTheDelay ==
  \A r \in Requests :
    \/ written[r] # NoView \/ view[r] # NoView
    \/ r \in reached
    \/ ev[r] # NoEvent
    \/ \E k \in DOMAIN log : log[k].req = r
    => slept[r] = Dec(r).delay

\* A drop severs the connection "without writing a response"
\* (proxy.go:127-128), and does sever it: once the handler is through the
\* client has no byte and no open connection.
DropIsSilent ==
  \A r \in Requests :
    n[r] # 0 /\ Dec(r).drop =>
      /\ view[r] = NoView
      /\ pc[r] \in {"logging", "returning", "done", "panicked", "lost"} =>
           conn[r] # "open"

\* "Test assertions never have to guess whether a 503 came from slowlane or
\* from a genuinely broken upstream" (proxy.go:142-145): a response without
\* the headers of an injected or a failed one is the upstream's own.
ResponsesAreSelfDescribing ==
  \A r \in Requests :
    view[r].status # 0 =>
      (view[r].headers \cap {"Injected", "UpstreamError"} = {}
         <=> answer[r] # 0 /\ view[r].status = FinalStatus(answer[r]))

Logged(r) == \E k \in DOMAIN log : log[k].req = r

\* "One Event per handled request" (proxy.go:66): a handler that returns has
\* left one, no request has two, and what it says is what happened: its status
\* is that of the response handed to net/http, the one a client sees if it sees
\* any, its flags are those of the plan, and a client that stays does see the
\* response.  The event comes before the last of the response, or all of it,
\* has gone out (proxy.go:122-124), so neither may disown the other later.
LogAgreesWithClients ==
  /\ \A r \in Requests :
       /\ pc[r] \in {"returning", "done"} => Logged(r)
       /\ pc[r] = "done" /\ conn[r] = "open" => view[r].body \in {"whole", "cutoff"}
  /\ \A k \in DOMAIN log :
       LET e == log[k]
           status == FinalStatus(e.event.status)
       IN  /\ \A j \in DOMAIN log : log[j].req = e.req => j = k
           /\ written[e.req].status = status
           /\ view[e.req].status \in {0, status}
           /\ e.event.dropped <=> Planned(e.n, e.req).drop
           /\ e.event.injected <=> ~e.event.dropped /\ Planned(e.n, e.req).status # 0

Over(r) == pc[r] \in {"done", "panicked", "lost"}

\* A client that hangs up ends its handler, even with an upstream that
\* stalls for ever: the clone of the request carries its context
\* (proxy.go:168), and the copy fails.  Neither a hang-up nor the end of a
\* handler is taken back and the requests are finitely many, so this is: each
\* hang-up leads to the end of its handler.
HangUpEndsTheHandler ==
  <>[](\A r \in Requests : conn[r] = "gone" => Over(r))

\* A request with a terminal decision is served to the end whatever the
\* upstream and the client do: to be numbered for one leads to its end.
TerminalIsServed ==
  <>[](\A r \in Requests : n[r] # 0 /\ Terminal(r) => Over(r))

---------------------------------------------------------------------------
(* The contract. *)

\* The outcome a handler has settled on, which a crash does not take back.
Outcome(r) ==
  IF ev[r].dropped          THEN "severed"
  ELSE IF ev[r].injected    THEN "injected"
  ELSE IF ev[r].upstreamErr THEN "unreachable"
  ELSE IF ev[r].status # 0  THEN "relayed"
  ELSE IF pc[r] = "lost"    THEN "lost"
  ELSE "pending"

Contract ==
  INSTANCE FaultContract WITH
    taken   <- counter,
    number  <- n,
    outcome <- [r \in Requests |-> Outcome(r)],
    waited  <- slept

\* The server with its handlers, clients and upstream keeps the contract:
\* every request is settled at most once, as the plan says for its number and
\* after its delay, and every number is taken once between two restarts.
KeepsTheContract == Contract!Spec

---------------------------------------------------------------------------
(* What comments and documents say and some run of the model contradicts. *)

\* "status returned to the client" (proxy.go:46).
LoggedStatusIsTheClients ==
  \A k \in DOMAIN log :
    LET e == log[k]
    IN  view[e.req].status # 0 => e.event.status = view[e.req].status

\* "X-Slowlane-Delay: <n>ms" is on "delayed responses"
\* (docs/scenario-format.md:97), to tell injected latency from the upstream's
\* own (proxy.go:207-208): every response that was delayed carries it.
DelayedResponsesAreMarked ==
  \A r \in Requests :
    view[r].status # 0 /\ Dec(r).delay > 0 => "Delay" \in view[r].headers
=============================================================================
