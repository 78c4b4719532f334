----------------------------- MODULE RunCommand -----------------------------
(***************************************************************************)
(* `slowlane run` (internal/cli/run_cmd.go): one process that binds every  *)
(* proxy, serves them from a goroutine each, and shuts all of them down    *)
(* when its context is cancelled or a server fails.  What a handler does   *)
(* is ProxyServer's matter; here a request is accepted by a proxy, may     *)
(* take its connection away from the server (a drop), and logs its line.   *)
(*                                                                         *)
(* External to src/: http.Server.Serve and Shutdown, net.Listen and the    *)
(* clients.                                                                *)
(***************************************************************************)
EXTENDS Naturals, Sequences

CONSTANTS NumProxies,       \* the scenario's proxies are 1 .. NumProxies
          Requests,         \* the requests clients may make, each once
          ProxyOf(_),       \* the proxy a request is made to
          Drops             \* the requests whose handler may drop them

ASSUME RunAssumption ==
  /\ NumProxies \in Nat \ {0}
  /\ \A r \in Requests : ProxyOf(r) \in 1 .. NumProxies

Proxies == 1 .. NumProxies

VARIABLES
  pc,         \* where serveScenario is
  i,          \* the proxy its current loop is at
  exit,       \* the exit code, "none" while the process runs
  ctx,        \* whether the context of the command is cancelled
  listener,   \* of a proxy: none, open or closed
  server,     \* the goroutine of a proxy in Serve: none, starting, serving,
              \*   sending (its error) or returned
  closing,    \* the proxies whose http.Server is shutting down
  errs,       \* errCh, the proxies whose error is buffered
  timeout,    \* whether the three seconds of the shutdown are over
  req,        \* of a request: none, active, hijacked, logged; when the process
              \*   ends killed (was active) or orphaned (was hijacked)
  shutdownCut \* the proxies whose Shutdown gave up with requests active

run   == <<pc, i, exit>>
vars  == <<run, ctx, listener, server, closing, errs, timeout, req, shutdownCut>>

Init ==
  /\ pc = "bind" /\ i = 1 /\ exit = "none"
  /\ ctx = FALSE
  /\ listener = [p \in Proxies |-> "none"]
  /\ server = [p \in Proxies |-> "none"]
  /\ closing = {} /\ errs = <<>> /\ timeout = FALSE
  /\ req = [r \in Requests |-> "none"]
  /\ shutdownCut = {}

Running == exit = "none"

\* When the process ends, its handlers end with it.
Exit(code) ==
  /\ pc' = "exited"
  /\ exit' = code
  /\ req' = [r \in Requests |->
               CASE req[r] = "active"   -> "killed"
                 [] req[r] = "hijacked" -> "orphaned"
                 [] OTHER               -> req[r]]

---------------------------------------------------------------------------
(* Binding. *)

\* Mutant of Bind: a proxy is served as soon as it is bound.
BindAndServe ==
  /\ pc = "bind" /\ i <= NumProxies
  /\ listener' = [listener EXCEPT ![i] = "open"]
  /\ server' = [server EXCEPT ![i] = "starting"]
  /\ i' = i + 1
  /\ UNCHANGED <<pc, exit, ctx, closing, errs, timeout, req, shutdownCut>>

\* Mutant of Bind: one proxy too many.
BindPastTheEnd ==
  /\ pc = "bind" /\ i <= NumProxies + 1
  /\ listener' = [listener EXCEPT ![i] = "open"]
  /\ i' = i + 1
  /\ UNCHANGED <<pc, exit, ctx, server, closing, errs, timeout, req, shutdownCut>>

Bind ==
  /\ pc = "bind" /\ i <= NumProxies
  /\ listener' = [listener EXCEPT ![i] = "open"]
  /\ i' = i + 1
  /\ UNCHANGED <<pc, exit, ctx, server, closing, errs, timeout, req, shutdownCut>>

\* Mutant of closeAll: nothing is closed.
closeAllForgotten == UNCHANGED listener

closeAll ==
  listener' = [p \in Proxies |-> IF listener[p] = "open" THEN "closed" ELSE listener[p]]

\* net.Listen fails (proxy.New does not: the upstream was parsed before).
BindFails ==
  /\ pc = "bind" /\ i <= NumProxies
  /\ closeAll
  /\ Exit("runtime")
  /\ UNCHANGED <<i, ctx, server, closing, errs, timeout, shutdownCut>>

\* The loop that starts the goroutines; errCh is made with room for all.
StartServing ==
  /\ pc = "bind" /\ i > NumProxies
  /\ server' = [p \in Proxies |-> "starting"]
  /\ pc' = "select"
  /\ UNCHANGED <<i, exit, ctx, listener, closing, errs, timeout, req, shutdownCut>>

---------------------------------------------------------------------------
(* The goroutines in Serve. *)

\* Serve registers its listener, or finds the server shutting down, closes
\* the listener and returns ErrServerClosed.
Serve(p) ==
  /\ Running
  /\ server[p] = "starting"
  /\ IF p \in closing
     THEN /\ server' = [server EXCEPT ![p] = "returned"]
          /\ listener' = [listener EXCEPT ![p] = "closed"]
     ELSE /\ server' = [server EXCEPT ![p] = "serving"]
          /\ UNCHANGED listener
  /\ UNCHANGED <<run, ctx, closing, errs, timeout, req, shutdownCut>>

\* Accept fails for good: Serve closes the listener and returns the error.
ServeFails(p) ==
  /\ Running
  /\ server[p] = "serving" /\ p \notin closing
  /\ server' = [server EXCEPT ![p] = "sending"]
  /\ listener' = [listener EXCEPT ![p] = "closed"]
  /\ UNCHANGED <<run, ctx, closing, errs, timeout, req, shutdownCut>>

\* Mutant of Capacity: an unbuffered channel would do for the first error.
CapacityOne == 1

Capacity == NumProxies

SendError(p) ==
  /\ Running
  /\ server[p] = "sending"
  /\ Len(errs) < Capacity
  /\ errs' = Append(errs, p)
  /\ server' = [server EXCEPT ![p] = "returned"]
  /\ UNCHANGED <<run, ctx, listener, closing, timeout, req, shutdownCut>>

\* ErrServerClosed, after Shutdown has closed the listener.
ServeReturns(p) ==
  /\ Running
  /\ server[p] = "serving" /\ p \in closing
  /\ server' = [server EXCEPT ![p] = "returned"]
  /\ UNCHANGED <<run, ctx, listener, closing, errs, timeout, req, shutdownCut>>

---------------------------------------------------------------------------
(* The select, and shutdownAll. *)

Cancel ==
  /\ Running /\ ~ctx
  /\ ctx' = TRUE
  /\ UNCHANGED <<run, listener, server, closing, errs, timeout, req, shutdownCut>>

\* If both are ready, the select takes either.
SelectDone ==
  /\ pc = "select" /\ ctx
  /\ pc' = "shutdown" /\ i' = 1
  /\ UNCHANGED <<exit, ctx, listener, server, closing, errs, timeout, req, shutdownCut>>

SelectError ==
  /\ pc = "select" /\ errs # <<>>
  /\ errs' = Tail(errs)
  /\ pc' = "shutdownOnError" /\ i' = 1
  /\ UNCHANGED <<exit, ctx, listener, server, closing, timeout, req, shutdownCut>>

ShuttingDown == pc \in {"shutdown", "shutdownOnError"}

\* Shutdown of proxy i: it stops the server from accepting ...
CloseListener ==
  /\ ShuttingDown /\ i <= NumProxies /\ i \notin closing
  /\ closing' = closing \cup {i}
  /\ listener' = [listener EXCEPT ![i] = IF server[i] = "starting" THEN @ ELSE "closed"]
  /\ UNCHANGED <<run, ctx, server, errs, timeout, req, shutdownCut>>

\* Requests Shutdown waits for: a hijacked connection is not the server's.
Busy(p) == \E r \in Requests : ProxyOf(r) = p /\ req[r] = "active"

\* Mutant of ShutdownIdle: it does not wait.
ShutdownAtOnce ==
  /\ ShuttingDown /\ i \in closing
  /\ i' = i + 1
  /\ UNCHANGED <<pc, exit, ctx, listener, server, closing, errs, timeout, req, shutdownCut>>

\* ... and returns when its requests are through,
ShutdownIdle ==
  /\ ShuttingDown /\ i \in closing
  /\ ~Busy(i)
  /\ i' = i + 1
  /\ UNCHANGED <<pc, exit, ctx, listener, server, closing, errs, timeout, req, shutdownCut>>

\* The one timeout of shutdownAll runs out for all its proxies.
Timeout ==
  /\ Running
  /\ ShuttingDown /\ ~timeout
  /\ timeout' = TRUE
  /\ UNCHANGED <<run, ctx, listener, server, closing, errs, req, shutdownCut>>

\* Mutant of ShutdownGivesUp: Shutdown without a deadline.
ShutdownGivesUpNever == FALSE /\ UNCHANGED vars

\* ... or when the timeout has run out.
ShutdownGivesUp ==
  /\ ShuttingDown /\ i \in closing
  /\ timeout /\ Busy(i)
  /\ shutdownCut' = shutdownCut \cup {i}
  /\ i' = i + 1
  /\ UNCHANGED <<pc, exit, ctx, listener, server, closing, errs, timeout, req>>

\* wg.Wait: all goroutines have returned from Serve.
WaitAndExit ==
  /\ ShuttingDown /\ i > NumProxies
  /\ \A p \in Proxies : server[p] = "returned"
  /\ Exit(IF pc = "shutdown" THEN "ok" ELSE "runtime")
  /\ UNCHANGED <<i, ctx, listener, server, closing, errs, timeout, shutdownCut>>

---------------------------------------------------------------------------
(* The requests. *)

\* A connection is accepted and its handler started.
Accept(r) ==
  /\ Running
  /\ req[r] = "none"
  /\ server[ProxyOf(r)] = "serving" /\ listener[ProxyOf(r)] = "open"
  /\ req' = [req EXCEPT ![r] = "active"]
  /\ UNCHANGED <<run, ctx, listener, server, closing, errs, timeout, shutdownCut>>

Hijack(r) ==
  /\ Running
  /\ req[r] = "active" /\ r \in Drops
  /\ req' = [req EXCEPT ![r] = "hijacked"]
  /\ UNCHANGED <<run, ctx, listener, server, closing, errs, timeout, shutdownCut>>

\* The handler logs its line and returns.
LogLine(r) ==
  /\ Running
  /\ req[r] = "hijacked" \/ (req[r] = "active" /\ r \notin Drops)
  /\ req' = [req EXCEPT ![r] = "logged"]
  /\ UNCHANGED <<run, ctx, listener, server, closing, errs, timeout, shutdownCut>>

---------------------------------------------------------------------------

\* What serveScenario does by itself.
Main ==
  \/ Bind \/ StartServing
  \/ SelectDone \/ SelectError
  \/ CloseListener \/ ShutdownIdle \/ ShutdownGivesUp \/ WaitAndExit

Goroutine(p) == Serve(p) \/ SendError(p) \/ ServeReturns(p)

Next ==
  \/ Main \/ BindFails \/ Timeout \/ Cancel
  \/ \E p \in Proxies : Goroutine(p) \/ ServeFails(p)
  \/ \E r \in Requests : Accept(r) \/ Hijack(r) \/ LogLine(r)

Spec == Init /\ [][Next]_vars

\* The goroutines of the command run and its timer fires.  A handler need not
\* come to an end, nor the user interrupt.
FairSpec ==
  /\ Spec
  /\ WF_vars(Main) /\ WF_vars(Timeout)
  /\ \A p \in Proxies : WF_vars(Goroutine(p))

---------------------------------------------------------------------------
(* Properties. *)

TypeOK ==
  /\ pc \in {"bind", "select", "shutdown", "shutdownOnError", "exited"}
  /\ i \in 1 .. NumProxies + 1
  /\ exit \in {"none", "ok", "runtime"}
  /\ ctx \in BOOLEAN /\ timeout \in BOOLEAN
  /\ listener \in [Proxies -> {"none", "open", "closed"}]
  /\ server \in [Proxies -> {"none", "starting", "serving", "sending", "returned"}]
  /\ closing \subseteq Proxies /\ shutdownCut \subseteq Proxies
  /\ errs \in Seq(Proxies)
  /\ req \in [Requests -> {"none", "active", "hijacked", "logged", "killed", "orphaned"}]

\* A scenario is served as a whole or not at all: while one of its proxies is
\* not bound, and when one cannot be, no request has been accepted
\* (run_cmd.go:71-93 before 97).
AllOrNothing ==
  \A r \in Requests :
    req[r] # "none" => \A p \in Proxies : listener[p] # "none"

\* However the command ends - a failed bind with proxies bound before it, an
\* interrupt before a goroutine got to Serve, a server error - it leaves no
\* listener open and no goroutine in Serve.
NothingLeftOpen ==
  exit # "none" =>
    \A p \in Proxies : listener[p] # "open" /\ server[p] \in {"none", "returned"}

\* The shutdown is graceful as long as its timeout lasts: a request whose
\* connection is still the server's is killed only if its proxy's Shutdown
\* gave up on it, whatever other proxies, errors and interrupts do meanwhile.
ShutdownIsGraceful ==
  \A r \in Requests : req[r] = "killed" => ProxyOf(r) \in shutdownCut

\* An interrupt ends the command, whatever its handlers are doing and however
\* many servers have failed at the same time; and so does a failing server.
CommandEnds ==
  /\ ctx ~> ~Running
  /\ \A p \in Proxies : server[p] = "sending" ~> ~Running

\* "One log line per handled request" (run_cmd.go:26): a command that was
\* interrupted and whose timeout did not run out has logged every request it
\* accepted.
OneLinePerRequest ==
  exit = "ok" /\ ~timeout => \A r \in Requests : req[r] \in {"none", "logged"}
=============================================================================
