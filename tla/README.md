# slowlane in TLA+

slowlane is a fault-injecting HTTP reverse proxy.  A scenario file describes
proxies and, per proxy, rules; each rule selects requests (method, path,
headers, a window of request counters, a rate) and injects a fault (delay and
jitter, a status, a dropped connection, a throttled body).  Its promise is
determinism: what happens to request N is a function of the scenario and of N,
so that `slowlane plan` prints what `slowlane run` will do.

This directory models the program in TLA+, checks the models with TLC on small
instances, and proves the central theorems with TLAPS for all instances.
`PROJECT.json` lists runs, theorems, the source lines of every definition, the
hazards the properties are for, and the disagreements found between code and
documents.  Line references are into `src/`.

## 1. The system

| Component | State | Operations | Talks to |
|---|---|---|---|
| Selectors, `internal/match` | none | `Criteria.Matches`, `MatchPath` | called by the engine for each request |
| Scenario, `internal/scenario` | the parsed file, read-only after `Parse` | `Load`, `Parse`, `Validate`, `normalize`, `InWindow`, `EffectiveRate` | read by everything |
| Draws, `internal/seeded` | none | `Draw`, `DrawInt` | called by the engine |
| Engine, `internal/engine/engine.go` | none | `Decide`, `ruleFires` | called by the data plane and by plan |
| Plan, `internal/engine/plan.go` | none | `Plan`, `Summary`, `Summarize` | `plan` command; `Summary` also for events |
| Data plane, `internal/proxy/proxy.go` | `Server.counter` (atomic), one goroutine per request | `ServeHTTP`: number, decide, sleep, then drop, inject or forward; `OnEvent` | clients, the upstream, the event logger |
| Throttle, `throttledWriter` | the rate | `Write` | between `io.Copy` and the client |
| Header relay, in `forward`, `inject` | none | strip, copy, append, set, join | client and upstream, through the headers of both |
| Echo upstream, `internal/proxy/echo.go`, `echo` | none | `EchoHandler` | a client or a proxy before it |
| `run`, `internal/cli/run_cmd.go` | listeners, servers, error channel, log mutex | bind, serve, select, shut down | `http.Server`, the data plane |
| Commands, `internal/cli`, `cmd` | none | dispatch, flags, loading, picking a proxy, exit codes | the file, `Plan`, `serveScenario` |

What is hard about it:

* **Interleaving.**  Handlers run concurrently and share the counter and the
  log; everything else they touch is their own.  The plan is only as good as
  the numbering.
* **Failure.**  The client may hang up at any time, also while the handler
  sleeps and does not look; the upstream may refuse, break off or stall for
  ever; a connection may not be hijackable; the process may be killed and
  starts over with counter 0.
* **Ordering.**  The delay comes first; a terminal fault keeps the request from
  the upstream; the event comes at the end of the handler, while net/http may
  still hold all of the response.
* **Composition.**  Several rules meet in one loop with a break, integer
  arithmetic, defaults for zeros, and pairs of faults that exclude each other.
* **Agreement.**  Three commands load the same file, a plan and a server decide
  about the same requests, totals and rows show the same decisions, each by code
  of its own.
* **Hops.**  Headers say which headers to remove, and the order of copy, strip
  and set decides whose mark a response carries behind two proxies.
* **Shutdown.**  A failed bind after successful ones, a server that fails while
  another does, an interrupt before a goroutine got to `Serve`, one timeout for
  all servers, connections the server no longer knows of.

What makes each component correct, in a line:

* Selectors: the matchers accept exactly the language of the pattern.
* Scenario: what validation accepts does something, fires somewhere and is told
  apart by name.  (That its addresses can be bound only `run` finds out:
  `validateListen` compares their texts.)
* Draws: the published values, no two requests or rules on one draw.
* Engine: the three laws of composition in `Decide`'s comment, and that a rule
  changes nothing in what the others do.
* Plan: the k-th row is the k-th request, and the totals are those of the rows.
* Header relay: end-to-end headers cross any number of hops, line by line, and
  a response tells who wrote it.
* Commands: what `check` says of a file holds for `run` and `plan`.
* Data plane: every request is settled once, as the plan says for its number,
  after its delay; numbers are `1 .. counter`, each once, and follow real time
  for a client that waits; events agree with what was written and with what clients see of it.
* Throttle: bytes and sleeps keep in step, and the copy ends.
* `run`: all proxies or none, nothing left open, a graceful and certain end.

## 2. Modules

| Module | Models | Uses |
|---|---|---|
| `Match` | `internal/match` as operators on sequences | |
| `Scenario` | defaults, windows, `normalize`, `Validate` | `Match` |
| `Engine` | `DrawInt`, `ruleFires`, `Decide` as functions | `Scenario` |
| `DecideLoop` | `Decide` as the loop it is, one step per rule | `Engine` |
| `PlanLoop` | the `plan` command: rows, totals, and the live decisions beside them | `DecideLoop` |
| `Seeded` | `internal/seeded`, bit for bit | |
| `HeaderRelay` | headers of requests and responses at a hop, joined paths, the echo's reply | `Match` |
| `CommandLine` | the commands over a file: flags, loading, choice of a proxy, exit codes | `Scenario` |
| `FaultContract` | what a proxy promises, without handlers and connections | |
| `ProxyServer` | `ServeHTTP` of all requests, clients, upstream, restarts | refines `FaultContract` |
| `ThrottledWriter` | the throttled copy of one body | |
| `RunCommand` | `serveScenario` and `shutdownAll` | |
| `MCRules` | values: real draws (recomputed by `MCFunctions`), a menu of rules, request shapes | `Scenario` |
| `MCFunctions`, `MCCommandLine`, `MCPlanLoop`, `MCProxyServer`, `MCThrottledWriter`, `MCRunCommand` | instances for TLC | |
| `ProxyServerProofs` | theorems about `ProxyServer` | `ProxyServer` |
| `FunctionProofs` | theorems about the functions of `Match`, `HeaderRelay` and `Seeded` | `MCFunctions`, `FoldLaws`, `Numbers` |
| `CommandLineProofs` | theorems about `CommandLine` and what `Scenario` validates | `CommandLine`, `Numbers` |
| `PlanProofs` | theorems about `DecideLoop` and `PlanLoop` | `PlanLoop`, `FoldLaws`, `Numbers` |
| `RunCommandProofs` | theorems about `RunCommand` | `RunCommand` |
| `ThrottledWriterProofs` | theorems about `ThrottledWriter` | `ThrottledWriter` |
| `FoldLaws` | the equations of the folds of the community modules, proved | `Numbers` |
| `Numbers` | induction over numbers, division with a remainder, quotients of sums, proved | |

### How the models correspond to the code

**Match.**  A text is a sequence of characters, a path the sequence of its
segments as `strings.Split` gives it.  `matchSeg` is anchored at both ends and
places the middle parts leftmost (`Floats`, a fold over them); the recursion
over `**` is a function of the pattern's place that gives the set of places in
the path from which the rest of the pattern can be taken.  Upper-casing and
header canonicalisation are constants.

**Scenario.**  A rule is a record with the fields of the JSON; an absent
pointer is `Nil`.  Rates and draws are integers out of `RateScale`.  Each
`validate...` operator gives the *set* of what it finds wrong, one element per
message of the code, and shares the code's early returns and `else` branches.
Syntax (`net.SplitHostPort`, `url.Parse`, the alphabet of names) enters as
attributes of an address, of an upstream, or as a constant.

**Seeded.**  A `uint64` is the set of the positions of its one-bits, so that
`^` is a symmetric difference and a shift a translation.  Sums and products
count, for each power of two, how often it occurs, and carry in digits of
sixteen bits; bits from 64 on are lost as in Go.  A draw is kept as its 53 bits;
`Whole(draw, scale)` is the integer part of a multiple of it, which is what
comparisons with a rate and `DrawInt` come down to.  The product is exact, where
Go rounds to a `float64`, which matters only within a rounding of an integer.

**Engine.**  The seed and the proxy are fixed, so a draw is a constant operator
of rule, purpose and counter.  `int64` is arithmetic modulo `2 * HalfWord`
(`Wrap`) with the same overflow as Go's: in milliseconds plus jitter, in the
conversion to nanoseconds (`Millisecond` units), and in the sum.  A body is not
part of a decision, as it follows from the rule.

**DecideLoop.**  The loop is the code's, one step per rule; what it must end
with is stated on the documents' terms and shares none of the code's operators
for firing and delays: `Fires` is determinism.md's "a rule with rate r fires iff
draw < r", `Latency` its "floor(draw * (jitter_ms + 1)) milliseconds" on top of
`delay_ms`, `Evaluated` the rules with a say.  `DelaysAccumulate` is to the
nanosecond where all that could be asked for fits an `int64`; what happens where
it does not is the run `plan_overflow`.

**PlanLoop.**  A plan's rows come out of `DecideLoop`'s steps, one decision
after the other, with counters modulo the word; `Footer` is the heading's last
number and the totals.  `Summary` is the sequence of the parts of the phrase.
`LiveShape` is what net/http makes of the same headers, and `LiveNumber` the
number the k-th of them gets from the server's atomic additions.

**HeaderRelay.**  A header map takes canonical names to the lines of that name,
a line is the sequence of its comma-separated elements.  `RelayedRequest` and
`RelayedResponse` do to it what `forward` does, in its order; `InjectedResponse`
and `UnreachableResponse` are the other two responses slowlane writes.
`Content-Length` is not modelled.

**CommandLine.**  `at` is where `Main` is with an invocation; each step is one
check of the command and its early return with an exit code.  A file is a
scenario and a text, of which only matters whether it can be read, whether it
decodes, and what follows the object.  `gate` remembers what the last `check`
said, until the user edits the file (`Edit`).  `IsFile` is what the decoder can
have filled in: any proxies and rules, none of it validated.

**ProxyServer.**  `pc[r]` is where the goroutine of request `r` is in
`ServeHTTP`.  `Begin` is the atomic `Add` and everything up to the sleep, which
reads nothing other goroutines write; `Wake` is the end of the sleep; `Drop`,
`Abort`, `Inject`, `Forward` are the branches of the switch; `Reach`,
`UpstreamFails`, `Cancelled`, `Answer` are the round trip; `CopyReturns` is
`io.Copy`; `Log` is `OnEvent`, and `Return` the end of `ServeHTTP`.  A response
is its final status, the names of slowlane's headers and how much of the body
there is, twice: `written` is what the handler has handed to net/http, `view`
what of it has gone out.  net/http sends a short response only after the handler
has returned, so after its event is logged (`Return`), and more or all of it
earlier where a write fills the buffers or the throttle flushes them
(`Deliver`).  A second `WriteHeader` is ignored; what goes out to a connection
that is not open is lost.  A hang-up cancels the context of the
request, which the round trip and the copy notice and the sleep does not.
`Restart` kills all handlers and starts the counter at 0.  `slept` and `before`
(the requests whose exchange was over when a request was sent) only observe.

**FaultContract.**  `Take`, `Wait`, `Settle`, `Restart`.  Under the mapping of
`ProxyServer`, a request is settled as soon as its event's outcome is filled
in: `Begin` is `Take`, `Wake` is `Wait`, the step into an outcome is `Settle`,
all else stutters.

**ThrottledWriter.**  `Deliver` is one read of `io.Copy` and the call of
`Write` it leads to; `WriteChunk` and `Sleep` are an iteration of its loop.

**RunCommand.**  `pc` and `i` are `serveScenario`'s place in its loops; each
server goroutine is before `Serve`, in it, at the channel, or done.  net/http's
`Serve` and `Shutdown` are modelled by what this file relies on: `Shutdown`
closes the listeners `Serve` has registered, waits for requests whose
connections the server still owns, gives up when the context is over; `Serve`
on a server that was shut down before closes its listener and returns.  The exit
of the process ends what is still at work: a request on a connection of the
server is then `killed`, one that had hijacked its connection `orphaned`.

## 3. Runs

| Run | Checks | Instance | Shows |
|---|---|---|---|
| `functions` | `SegmentGlobIsExact`, `PathGlobIsExact`, `PublishedDraws`, `EveryBitCounts`, `CoordinatesDoNotCollide`, `RequestCrossesHops`, `ResponseTellsItsOrigin` | patterns up to 5 characters against segments up to 4; paths of up to 3 segments; words of 6 bits; names of up to 2 letters; messages of up to 4 header lines, over two proxies | the matchers accept exactly the pattern language; the hash gives the published draws, loses no input bit and confuses no coordinates; headers and paths cross hops as they should |
| `command_line` | `CoordinatesAreUnique`, `AcceptedFaultActs`, `AcceptedWindowFires`, `WindowIsProgression`, `CheckIsAGate` | files with up to 2 proxies and 3 rules, every fault over boundary values, every window over 0..4; any sequence of 29 invocations on each | what validation lets through is meaningful, and no command disagrees with `check` about a file |
| `plan` | `TypeOK`, `FirstTerminalWins`, `FirstThrottleWins`, `DelaysAccumulate`, `RulesAreIndependent`, `PlanIsLive`, `TotalsMatchRows` | all lists of up to 4 of 9 rules; plans of 4 rows from 1 and across the end of the counter; two requests | the loop obeys the laws of composition and no rule changes another's part, in the order and with the arithmetic of the code; the plan is the live proxy's |
| `proxy` | `TypeOK`, `NumbersAreThePlan`, `NumbersFollowRealTime`, `TerminalNeverReachesUpstream`, `NothingBeforeTheDelay`, `DropIsSilent`, `ResponsesAreSelfDescribing`, `LogAgreesWithClients`, `KeepsTheContract`, `HangUpEndsTheHandler`, `TerminalIsServed` | 3 requests of 2 shapes, 3 numbers per run, 2 runs of the process, decisions of `Engine` | safety, refinement and liveness of the data plane |
| `throttle` | `TypeOK`, `PaceIsExact`, `CopyEnds` | rates 1, 9, 10, 25, 47; bodies up to 12; every sequence of reads | the pace up to rounding, and termination |
| `run_command` | `TypeOK`, `AllOrNothing`, `NothingLeftOpen`, `ShutdownIsGraceful`, `CommandEnds` | 2 proxies, 3 requests, one of which may hijack | start and end of the command |

Six runs end in a counterexample; each checks one sentence of the comments or documents against the code:

| Run | Sentence | What the code does |
|---|---|---|
| `plan_host` | "The live proxy computes the identical decisions" (plan_cmd.go:19-20) | net/http takes `Host` out of the headers, so a rule on it fires in the plan only |
| `plan_overflow` | "every matching delay/jitter rule adds latency" (engine.go:60, scenario-format.md:79) | the delay is an `int64` and nothing bounds `delay_ms`: a sum past its end (in nanoseconds, some 292 years) is smaller, or negative and not slept at all |
| `proxy_informational` | "status returned to the client" (proxy.go:46) | an injected 1xx other than 101 is an informational response; the client's status is 200 |
| `proxy_delayed_502` | `X-Slowlane-Delay` on "delayed responses" (scenario-format.md:97), "so clients can tell injected latency" (proxy.go:207-208) | the 502 for a failed upstream is written without it, also after a delay |
| `throttle_short_reads` | "regardless of how the source delivers it" (proxy.go:277-278) | reads shorter than a chunk are not throttled |
| `run_log_lines` | "one log line per handled request" (run_cmd.go:26) | a dropped request in flight is not waited for and its line may be lost |

More disagreements show in the modules without a run of their own:

* A client that hangs up in the round trip leaves an event with 502 and
  `upstream_error` (`Cancelled`), where proxy.go:49-50 says of it that "the
  upstream could not be reached; the client saw a 502".
* `dec.More()` is false before a closing bracket or brace, so whatever follows a
  stray one is not refused (`More`, `Load`), against scenario.go:219-220.
* Two spellings of one address, or a port that names no service, pass
  `validateListen` and fail when `run` binds (`BindFails` of `RunCommand`).
* Only the first `X-Forwarded-For` line is kept, where several are legal
  (`appendForwardedFor`; proxy.go:244-245).
* A drop that cannot hijack panics past `OnEvent` (`Abort` leads to `panicked`,
  with no entry in the log), against proxy.go:66, "one Event per handled
  request".  `slowlane run` serves HTTP/1 over plain TCP, where hijacking
  practically always works, so this is for servers that embed the handler
  otherwise; `LogAgreesWithClients` speaks of handlers that return.
* A throttle below a terminal is not reached, but one above it is planned and
  counted though no body of the upstream is relayed (`Summary`, `Count`).
* A file that cannot be read ends with exit code 1 (`Load`, `loadScenario`),
  where cli.go:5-6 gives 3 to an I/O error.
* A rate below 10 bytes per second is a rate of 10 (`Chunk`), against
  proxy.go:275.

### Bounds, and why they are enough

* `functions`: three parts between two wildcards can overlap, repeat and be
  adjacent; two adjacent `**`, empty segments at either end, and a wildcard in a
  segment all occur.  Words of six bits reach every bit position as a position
  to flip, and the published counters.  Names of one or two letters out of two can be
  cut at different places.  Four header lines hold two nominations, a nominated
  header and a repeated one, and every response of two proxies is tried.
* `command_line`: duplicates need two entries, and three to tell a set of names
  from a comparison of neighbours.  A window over 0..4 has every order of its
  ends and a period that divides its length or does not.  Each invocation is
  good or has one thing wrong; commands are run on files without rules and on
  files with one rule whose proxy is in order, as loading does not depend on how
  many rules there are.
* `plan`: four rules allow a delay, a throttle, a second throttle and a
  terminal in every order, with the window or match that switches each off.
  An `int64` is scaled to 12 bits and a millisecond to 10 units, so that some
  sums of two delays of the menu overflow, as two of 10^13 ms do in 64 bits, and
  many others fit, for which `DelaysAccumulate` says something; the counter
  has the same width and wraps in the second of the two plans.
* `proxy`: the decisions differ by number and by shape (a throttle and a delay,
  a 503, a 103, a drop with and without a delay), so which of three handlers
  takes which number matters; net/http may send each response in part, whole,
  early or only at the end; two runs of the process allow a kill at each
  point and a second run after it.  `MaxCounter` and `MaxRuns` bound the
  counter and the restarts in guards; the theorems hold for any.
* `throttle`: the rates have every kind of remainder by ten, and bodies are
  longer than a chunk.
* `run_command`: two proxies suffice for a bind that fails after another, two
  errors at one channel, and a shutdown that uses up the timeout of the next.

Deadlock is not checked where a behaviour really ends: the requests are finite,
a file or a loop is complete, the command has exited.

### Fairness

* `ProxyServer`: weak fairness of each goroutine's own steps (`Handle`): Go's
  scheduler runs a goroutine that can go on, a sleep ends, and net/http cancels
  the context of a client that has gone and flushes when the handler returns.
  (net/http notices a hang-up by reading ahead on the connection, which it does
  once the body of the request has been read: `Cancelled` is about requests
  without a body, or with one that the upstream has taken.)  Nothing is assumed of clients and of
  the upstream, so it may stall for ever.
* `ThrottledWriter`: weak fairness of the copy; the upstream's reads return.
  The client need not hang up.
* `RunCommand`: weak fairness of `serveScenario`, of the server goroutines and
  of the timer.  No handler has to end, and nobody has to interrupt.

## 4. Proofs

All theorems are checked by `tlapm`.  Each holds for every value of the
constants that satisfies the named assumptions, which TLC evaluates in the runs:

| Assumption | Says | Because |
|---|---|---|
| `ProxyAssumption` | bounds are numbers, statuses are statuses, what `Planned` gives is a decision with a delay that is not negative | `validateFault`; a delay that has overflowed is outside the theorems about the data plane, see section 3 |
| `RunAssumption` | there is a proxy, and a request is for one | `Validate` |
| `ThrottleAssumption` | rates are positive, a read delivers between one byte and what is left | `forward` asks for it, `io.Reader` |
| `EngineAssumption`, `RateScaleAssumption` | word size, unit and scale are positive | |
| `RuleListsAssumption` | a rule list is a sequence of rules whose faults and rates are valid | `Validate` comes before `Decide` in every command |
| `CountersAssumption`, `RequestsAssumption` | counters are words, a plan has a number of rows | `uint64`, `plan`'s flags |
| `DrawAssumption` | the draws of the rules are in 0 up to but not including 1 | `Draw` divides 53 bits by 2^53 |
| `CanonicalAssumption` | the names of the run's messages are canonical, but for one | `http.Header` |
| `MaxCounterAssumption`, `NilIsNoExitCode` | a bound is a number, no exit code stands for no answer | |

**The data plane** (`ProxyServerProofs`): any set of
requests, any decisions, upstream statuses and bounds.

1. `Typing`: `TypeOK` and `Numbered` (a request has a number exactly from
   `Begin` on), one step per action.  `TypeTheorem` is its part `TypeOK`.
2. `NumbersTheorem`: `NumbersAreThePlan` is inductive with `Typed`; only `Begin`
   and `Restart` matter (`NumbersStep`), and `Begin` adds `counter + 1` to the
   numbers of this run, which were `1 .. counter`.
3. `LifecycleTheorem`: `NothingBeforeTheDelay`, `DropIsSilent` and
   `TerminalNeverReachesUpstream` are not inductive, since a state of a handler
   says too little of how it came there.  `Life(r)` states, for each place of
   the handler, what it may have done: no sleep before `sleeping`, all of it
   after; no cut before the outcome; a handler in the round trip is not
   terminal; an event is empty before the outcome and settled after.  A step of
   one handler leaves the life of the others alone (`LifeElsewhere`).
   `DelayTheorem`, `DropTheorem` and `TerminalTheorem` follow.
4. `RealTimeTheorem`: `NumbersFollowRealTime`, from all of the above.
5. `RefinementTheorem`: `Spec => KeepsTheContract`.  `Life` gives that a request
   whose handler is at work is pending, and has slept when it settles.
6. `TalesTheorem`: `ResponsesAreSelfDescribing` and `LogAgreesWithClients`
   compare what a client has, what the handler wrote and what the event says,
   which different steps write, and net/http decides when one becomes the other.
   `Tale(r)` ties the three to each other and to the place of the handler:
   nothing is written before the outcome, the event's status is the upstream's
   unless slowlane made it, the response written is the one of the event, what
   has gone out has its status and headers, and a client that is still connected
   when all is done has all of it.  `SelfDescribingTheorem` follows.
7. `BookTheorem`: the log has the events of the handlers that are past
   `OnEvent`, once each, with number and outcome unchanged since, whether or not
   their responses have gone out.  `LogTheorem` reads `LogAgreesWithClients` off
   `Book`, `Tale` and `Life`.

**Decide and plan** (`PlanProofs`): any rule lists, draws, requests, counters
and word size.

1. `LoopInv`: the decision so far is the one of the rules looked at so far, with
   those that have a say among them, the first throttle and the first terminal.
   `LoopStep` preserves it; `FirstTerminalTheorem` and `FirstThrottleTheorem`
   are what it says when the loop is done.
2. `Decide` is a fold over all rules that stops changing once terminal
   (`TerminalStays`), the loop an iteration with an early exit.  At every turn
   the loop has what the fold has (`TurnInv`, `TurnsTaken`), which the rows of a plan
   and the independence of the rules rest on.
3. `RowsTheorem` and `PlanIsLiveTheorem`: row k is `Decide` for the counter
   `from + k - 1` in a word, and k atomic additions by one arrive at the same
   word (`LiveNumbers`).
4. `DelayTheorem`: the loop adds and wraps at each rule that fires; `WrapOfSum`
   says that wrapping once does the same.  The place of a rule's name in
   `delayRules` is how many delay up to it.  `DelayIsLatency` takes `DrawInt`
   to the published formula: with a draw below 1 the product never exceeds n and
   the cap of `DrawInt` never acts.  `DelaysTheorem` adds that the latencies fit
   if their bounds do (`LatenciesFit`), so nothing wraps.
5. `IndependenceTheorem`: the turns of the loop with rule k are compared with
   those without it.  Up to k they are the same (`SameBefore`); what agrees after
   rule k agrees in the end (`Agree`, `AgreeStep`, `SameBehind`), be it
   everything, because k had no say (`NoSay`), or the terminal, the throttle
   unless k gave it, and the delay but for k's share modulo the word
   (`OneSayLess`).  Where all fits, the shorter sum has not wrapped (`NoWrap`).
6. `PrintTheorem` and `TotalsTheorem`: `Summarize` as a fold over rows is, row
   by row, the counts of the rows whose `Summary` has a word (`SummaryWords`).

**The command line** (`CommandLineProofs`): any invocations, in any order, any
edits between them, files with any number of proxies and rules.

1. `ValidateParts` takes a file without findings apart; with it the four
   properties of accepted files hold of every file (`FileCoordinates` to
   `FileProgressions`), so always.  `validateName` looks only at the
   entries above one, which suffices for pairs in either order
   (`NamesAreUnique`).
2. `GateTheorem`: `CheckIsAGate` needs that what `check` has said is what
   loading says *now*, that behind loading the scenario is the file's normal
   form, and that the proxy is the one picked from it (`GateInv`).  The first of
   a name is the only one because the names of a file that loads are unique.

**`run`** (`RunCommandProofs`): any number of proxies and any set of requests.
`AllOrNothing`, `NothingLeftOpen` and `ShutdownIsGraceful` need each other and
three facts of the phases of `serveScenario` to be inductive: while it binds,
the proxies before `i` have a listener and nothing serves (`Binding`); a server
exists only when every proxy is bound, and one that has returned or is being
shut down has its listener closed (`Serving`); and a proxy `shutdownAll` is
through with is idle or was given up (`Stopping`).  `PhasesStep` keeps them
together, one step per action.

**The throttle** (`ThrottledWriterProofs`): any rates, bodies and deliveries.
`PaceIsExact` grants a call its loss from its start and is not inductive: the
last chunk of a call may lose only if the ones before it have not.  `PaceMidway`
bounds the bytes of a call at work by the losses of the calls before it, and
`Emptied` says that nothing of a delivery is left when the next one is read.

**Globs** (`FunctionProofs`): any patterns, segments and paths, any characters.

1. `Takes` is what a glob means: the input can be cut so that element k of the
   pattern takes its run, a wildcard any run, a plain element one input element
   it fits.  `FirstTakes` peels the first element off; with it `SearchTakes`
   shows, by induction over what is left of the pattern, that the search of
   `matchSegs` over `**` finds exactly the places from which the rest takes the
   rest.
2. `matchSeg` does not search: it anchors both ends and places each middle part
   leftmost.  That loses no match, since whatever can follow a later occurrence
   can follow an earlier one as well (`Continues`, `LeftmostWillDo`);
   `GreedyIsExact` adds the anchored end.  `PartsSplit` says that the parts and
   the stars between them are the pattern.
3. `SegmentGlob` and `PathGlob` state the language for any inputs, the
   trailing slashes included (`SplitPathTrims`); `SegmentGlobTheorem` and
   `PathGlobTheorem` read the run's invariants off them.

**Hops** (`FunctionProofs`): any messages, any names and lines.

1. `ReceivedKeeps`: a header map built line by line has, under each name, the
   lines of that name in their order (`FoldLaws` again).  `PeerNominates`: what
   `Nominated` finds in the map is what the `Connection` lines say.
2. `OneHop` says what a proxy passes on, and `TwoHops` composes it for any two
   peers whose address has a host.  `OneSlash` is `singleJoin` for any base and
   path.
3. Responses: `RelayedKeeps` follows `forward` through strip, copy and set;
   `RelayTells`, `InjectedTells` and `UnreachableTells` give what the three kinds
   of response tell, and `UpstreamPasses` and `SentPasses` what a next proxy may
   not take away from it.  `OriginIsTold` composes two hops, for any message
   that does not bear slowlane's marks and does not nominate the delay; without
   these conditions an upstream could pass for slowlane.  The messages of the
   run meet them.

**Draws** (`FunctionProofs`): any seeds, counters and names, on words of 64
bits.

1. `LabelsDiffer`: names without a NUL cannot change places with the zeros
   between them, so the label tells proxy, rule and purpose.
2. A column says how often each power of two occurs.  `CarriedTells`: if
   two columns agree below k, bit k of what they carry to is the same exactly if
   what they have at k has the same parity.  So the lowest difference of two
   words survives a sum, a product with an odd factor (`TimesIsOneToOne`), and,
   seen from the top, a shift (`ShiftsLoseNothing`).  `MixIsOneToOne` composes
   the six steps of `mix`.
3. `OneByteTells`: a step of `fnv1a64` maps different hashes to different
   hashes, so one differing byte is never made up for by equal ones after it.
4. `RequestsDrawApart`, `NamesDrawApart` and `SimilarRulesDrawApart` say what
   this means for coordinates.  They are about words: a draw is the upper 53
   bits of one, so two draws may still be equal.

**Folds and induction.**  A fold of the community modules is a recursive
function over subsets under a `CHOOSE`, and the library's induction theorems
take an operator, which the provers cannot instantiate.  `Numbers` proves
induction for a *set* of numbers from `WFMin`, which needs no operator.
`FoldLaws` declares base, step and choice of a fold as constant operators,
proves once that the function exists (`FoldExists`) and obeys its equations
(`FoldIsLoop`, and for steps that commute `FoldIsUnordered`); `PlanProofs`
instantiates it for the folds of `Decide`, `LiveNumber`, `Summarize` and the two
sums, `FunctionProofs` for those of the globs, the header maps, the digits of a
sum and the hash.

To be provable, two laws are stated with what the provers can expand:
`DelaysAccumulate` gives the place of a rule's name as a number of rules instead
of sorting a set (`SortSeq` has no definition for the prover), and
`TotalsMatchRows` sums the delays that the code sums.

Only model-checked:

* liveness, which is out of the prover's reach: `HangUpEndsTheHandler`,
  `TerminalIsServed`, `CopyEnds`, `CommandEnds`;
* `PublishedDraws`, `EveryBitCounts` and `CoordinatesDoNotCollide`: numbers
  written out, the inverse of `mix` with its two inverse factors, and the hashes
  of particular names.  What can be said of all inputs is under Draws; that no
  two texts of different lengths share a hash would be false.

## 5. Not modelled

Not modelled, for good: the bytes of bodies and the framing of TLS and HTTP/2;
the JSON grammar and the syntax of URLs and addresses, of which the code only
learns an error (attributes of the input here); the rounding of `float64`
products; the wording of messages, usage texts and rows, `--quiet`, and the
version string.  The wait in `echo`'s shutdown is left out of `CommandLine`; it
is the one `RunCommand` has for `run`.
