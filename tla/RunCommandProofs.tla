-------------------------- MODULE RunCommandProofs --------------------------
(***************************************************************************)
(* The safety of RunCommand for any number of proxies and requests.        *)
(***************************************************************************)
EXTENDS RunCommand, TLAPS

\* While serveScenario binds, nothing runs and nothing has been accepted.
Binding ==
  pc = "bind" =>
    /\ \A p \in Proxies : p < i => listener[p] # "none"
    /\ \A p \in Proxies : server[p] = "none"
    /\ \A r \in Requests : req[r] = "none"

\* A goroutine that is through with Serve has no listener; one whose server
\* shuts down has none left to accept from.
Serving ==
  \A p \in Proxies :
    /\ server[p] # "none" => \A q \in Proxies : listener[q] # "none"
    /\ server[p] \in {"sending", "returned"} => listener[p] = "closed"
    /\ server[p] = "serving" /\ p \in closing => listener[p] = "closed"

\* The proxies shutdownAll is through with are idle or were given up.
Stopping ==
  /\ ShuttingDown =>
       \A p \in Proxies : p < i => p \in closing /\ (Busy(p) => p \in shutdownCut)
  /\ pc = "exited" <=> exit # "none"

\* What AllOrNothing, NothingLeftOpen and ShutdownIsGraceful need of each
\* other's neighbourhood to be kept by every step.
Phases ==
  Binding /\ Serving /\ Stopping /\ AllOrNothing /\ NothingLeftOpen /\ ShutdownIsGraceful

---------------------------------------------------------------------------
\* A command starts out with nothing bound and nothing running.
LEMMA InitPhases == Init => TypeOK /\ Phases
<1> SUFFICES ASSUME Init PROVE TypeOK /\ Phases OBVIOUS
<1> USE RunAssumption DEF Init, Proxies
<1>1. TypeOK
  <2>1. errs \in Seq(Proxies) OBVIOUS
  <2>2. i \in 1 .. NumProxies + 1 OBVIOUS
  <2>3. /\ listener \in [Proxies -> {"none", "open", "closed"}]
        /\ server \in [Proxies -> {"none", "starting", "serving", "sending", "returned"}]
        /\ req \in [Requests -> {"none", "active", "hijacked", "logged", "killed", "orphaned"}]
    OBVIOUS
  <2>4. ctx \in BOOLEAN /\ timeout \in BOOLEAN OBVIOUS
  <2> QED BY <2>1, <2>2, <2>3, <2>4 DEF TypeOK
<1>2. Binding /\ Serving BY DEF Binding, Serving
<1>3. Stopping BY DEF Stopping, ShuttingDown
<1>4. AllOrNothing /\ NothingLeftOpen /\ ShutdownIsGraceful
  BY DEF AllOrNothing, NothingLeftOpen, ShutdownIsGraceful
<1> QED BY <1>1, <1>2, <1>3, <1>4 DEF Phases

\* The steps keep the shape of the state.
LEMMA TypeStep == ASSUME TypeOK, [Next]_vars PROVE TypeOK'
<1> USE RunAssumption DEF TypeOK, Proxies
<1>1. CASE Bind BY <1>1 DEF Bind
<1>2. CASE StartServing BY <1>2 DEF StartServing
<1>3. CASE SelectDone BY <1>3 DEF SelectDone
<1>4. CASE SelectError BY <1>4 DEF SelectError
<1>5. CASE CloseListener BY <1>5 DEF CloseListener, run
<1>6. CASE ShutdownIdle BY <1>6 DEF ShutdownIdle
<1>7. CASE ShutdownGivesUp BY <1>7 DEF ShutdownGivesUp
<1>8. CASE WaitAndExit BY <1>8 DEF WaitAndExit, Exit
<1>9. CASE BindFails BY <1>9 DEF BindFails, Exit, closeAll
<1>10. CASE Timeout BY <1>10 DEF Timeout, run
<1>11. CASE Cancel BY <1>11 DEF Cancel, run
<1>12. ASSUME NEW p \in Proxies, Goroutine(p) \/ ServeFails(p) PROVE TypeOK'
  <2>1. CASE Serve(p) BY <2>1 DEF Serve, run
  <2>2. CASE SendError(p) BY <2>2 DEF SendError, run
  <2>3. CASE ServeReturns(p) BY <2>3 DEF ServeReturns, run
  <2>4. CASE ServeFails(p) BY <2>4 DEF ServeFails, run
  <2> QED BY <1>12, <2>1, <2>2, <2>3, <2>4 DEF Goroutine
<1>13. ASSUME NEW r \in Requests, Accept(r) \/ Hijack(r) \/ LogLine(r) PROVE TypeOK'
  BY <1>13 DEF Accept, Hijack, LogLine, run
<1>14. CASE UNCHANGED vars BY <1>14 DEF vars, run
<1> QED
  BY <1>1, <1>2, <1>3, <1>4, <1>5, <1>6, <1>7, <1>8, <1>9, <1>10, <1>11, <1>12,
     <1>13, <1>14 DEF Next, Main

---------------------------------------------------------------------------
\* And they keep what a phase of the command may have left and done.
LEMMA PhasesStep == ASSUME TypeOK, Phases, [Next]_vars PROVE Phases'
<1> USE RunAssumption
    DEF TypeOK, Phases, Proxies, Binding, Serving, Stopping, ShuttingDown, Busy,
        AllOrNothing, NothingLeftOpen, ShutdownIsGraceful
<1>1. CASE Bind BY <1>1 DEF Bind
<1>2. CASE StartServing BY <1>2 DEF StartServing
<1>3. CASE SelectDone BY <1>3 DEF SelectDone
<1>4. CASE SelectError BY <1>4 DEF SelectError
<1>5. CASE CloseListener BY <1>5 DEF CloseListener, run
<1>6. CASE ShutdownIdle BY <1>6 DEF ShutdownIdle
<1>7. CASE ShutdownGivesUp BY <1>7 DEF ShutdownGivesUp
<1>8. CASE WaitAndExit
  <2>1. \A r \in Requests : /\ req'[r] = "none" <=> req[r] = "none"
                            /\ req'[r] = "killed" => req[r] \in {"active", "killed"}
    BY <1>8 DEF WaitAndExit, Exit
  <2>2. \A r \in Requests : req[r] = "active" => ProxyOf(r) \in shutdownCut
    BY <1>8 DEF WaitAndExit
  <2>3. ShutdownIsGraceful'
    BY <1>8, <2>1, <2>2 DEF WaitAndExit
  <2>4. pc' = "exited" /\ exit' # "none"
    BY <1>8 DEF WaitAndExit, Exit
  <2> QED
    BY <1>8, <2>1, <2>3, <2>4 DEF WaitAndExit
<1>9. CASE BindFails BY <1>9 DEF BindFails, Exit, closeAll
<1>10. CASE Timeout BY <1>10 DEF Timeout, run
<1>11. CASE Cancel BY <1>11 DEF Cancel, run
<1>12. ASSUME NEW p \in Proxies, Goroutine(p) \/ ServeFails(p) PROVE Phases'
  <2>1. CASE Serve(p) BY <2>1 DEF Serve, run
  <2>2. CASE SendError(p) BY <2>2 DEF SendError, run
  <2>3. CASE ServeReturns(p) BY <2>3 DEF ServeReturns, run
  <2>4. CASE ServeFails(p) BY <2>4 DEF ServeFails, run
  <2> QED BY <1>12, <2>1, <2>2, <2>3, <2>4 DEF Goroutine
<1>13. ASSUME NEW r \in Requests, Accept(r) \/ Hijack(r) \/ LogLine(r) PROVE Phases'
  <2>1. CASE Accept(r) BY <2>1 DEF Accept, run, Running
  <2>2. CASE Hijack(r) BY <2>2 DEF Hijack, run
  <2>3. CASE LogLine(r) BY <2>3 DEF LogLine, run
  <2> QED BY <1>13, <2>1, <2>2, <2>3
<1>14. CASE UNCHANGED vars BY <1>14 DEF vars, run
<1> QED
  BY <1>1, <1>2, <1>3, <1>4, <1>5, <1>6, <1>7, <1>8, <1>9, <1>10, <1>11, <1>12,
     <1>13, <1>14 DEF Next, Main

---------------------------------------------------------------------------
\* The inductive invariant.
LEMMA LifecycleInvariant == Spec => [](TypeOK /\ Phases)
<1>1. Init => TypeOK /\ Phases BY InitPhases
<1>2. TypeOK /\ Phases /\ [Next]_vars => TypeOK' /\ Phases' BY TypeStep, PhasesStep
<1> QED BY <1>1, <1>2, PTL DEF Spec

\* The shape of the state, for any number of proxies and any requests.
THEOREM RunTypeTheorem == Spec => []TypeOK
BY LifecycleInvariant, PTL

\* However many proxies there are, a request is accepted only when all of them
\* are bound: run_cmd.go:71-93 is through before a goroutine is started.
THEOREM AllOrNothingTheorem == Spec => []AllOrNothing
<1>1. Phases => AllOrNothing BY DEF Phases
<1> QED BY <1>1, LifecycleInvariant, PTL

\* However the command ends, no listener is open and no goroutine in Serve:
\* closeAll covers the ends before the goroutines, Shutdown and wg.Wait those
\* behind (run_cmd.go:65-69, 109-127).
THEOREM NothingLeftOpenTheorem == Spec => []NothingLeftOpen
<1>1. Phases => NothingLeftOpen BY DEF Phases
<1> QED BY <1>1, LifecycleInvariant, PTL

\* A request that did not hijack its connection is killed only if its Shutdown
\* ran out of time: the proxies behind shutdownAll's loop are idle, and accept
\* nothing any more (run_cmd.go:120-127).
THEOREM ShutdownTheorem == Spec => []ShutdownIsGraceful
<1>1. Phases => ShutdownIsGraceful BY DEF Phases
<1> QED BY <1>1, LifecycleInvariant, PTL
=============================================================================
