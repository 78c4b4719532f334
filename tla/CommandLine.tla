---------------------------- MODULE CommandLine ----------------------------
(***************************************************************************)
(* The command line (internal/cli, cmd/slowlane) over one scenario file:   *)
(* dispatch, arguments, flags, loading, the choice of a proxy, and the     *)
(* exit code each early return gives.  A user invokes any commands one     *)
(* after the other; serving a scenario is RunCommand, printing a plan is   *)
(* PlanLoop, and only their exit codes are seen here.                      *)
(***************************************************************************)
EXTENDS Scenario

CONSTANTS Calls,      \* the invocations, see Invocation
          MaxCounter  \* bound: requests that WindowIsProgression looks at

ASSUME MaxCounterAssumption == MaxCounter \in Nat

VARIABLES file,   \* the scenario of the file: [version, proxies]
          text,   \* its text: [readable, decodes, rest], where rest is what
                  \* follows the object: brackets and values
          call,   \* the invocation
          at,     \* where Main is with it
          sc,     \* the scenario loaded, Nil before
          px,     \* the proxy picked, Nil before
          code,   \* the exit code of the last command that ended
          gate    \* what the last check said of the file: an exit code or Nil

fileVars == <<file, text>>
callVars == <<call, at, sc, px, code, gate>>

commandLineVars == <<fileVars, callVars>>

ExitOK      == 0
ExitInvalid == 1
ExitUsage   == 2
ExitRuntime == 3

ASSUME NilIsNoExitCode == Nil \notin {ExitOK, ExitInvalid}

\* What the text of a scenario decodes to, before it is validated.
IsRule(r) ==
  /\ r.fault \in Faults
  /\ r.window # Nil => r.window \in [from : Nat, to : Nat, every : Nat]

IsFile(s) ==
  /\ DOMAIN s = {"version", "proxies"}
  /\ s.proxies \in Seq(Range(s.proxies))
  /\ \A p \in DOMAIN s.proxies :
       /\ DOMAIN s.proxies[p] = {"name", "listen", "upstream", "rules"}
       /\ s.proxies[p].rules \in Seq(Range(s.proxies[p].rules))
       /\ \A k \in DOMAIN s.proxies[p].rules : IsRule(s.proxies[p].rules[k])

\* What is on the command line: the command; whether the flag package likes
\* the flags ("help" is -h); how many arguments follow them; and the values
\* of the flags that commands look at themselves.  A --header value has a
\* colon or not, and in front of it a blank name or not.
Invocation ==
  [command : {"", "run", "check", "plan", "echo", "version", "help", "other"},
   flags : {"good", "bad", "help"}, args : 0 .. 2,
   format : {"text", "json", "other"}, from : 0 .. 1, requests : 0 .. 1,
   header : [colon : BOOLEAN, blank : BOOLEAN], proxy : STRING]

CommandLineInit ==
  /\ IsFile(file)
  /\ call \in Calls
  /\ at = "idle" /\ sc = Nil /\ px = Nil /\ code = ExitOK /\ gate = Nil

Invoke ==
  /\ at = "idle"
  /\ call' \in Calls
  /\ at' = "main" /\ sc' = Nil /\ px' = Nil /\ code' = ExitOK
  /\ UNCHANGED <<fileVars, gate>>

\* Between commands the file may be edited; no check has spoken of it then.
Edit ==
  /\ at = "idle" /\ gate' = Nil
  /\ IsFile(file')
  /\ UNCHANGED <<call, at, sc, px, code>>

\* The process ends; a check that got to the file is what a gate goes by.
Exit(c) ==
  /\ code' = c
  /\ at' = "exit"
  /\ gate' = IF call.command = "check" /\ at \in {"load", "print"} THEN c ELSE gate
  /\ UNCHANGED <<fileVars, call, sc, px>>

Goto(place) == at' = place /\ UNCHANGED <<fileVars, call, sc, px, code, gate>>

Return == at = "exit" /\ Goto("idle")

---------------------------------------------------------------------------
Dispatch ==
  /\ at = "main"
  /\ \/ call.command \in {"", "other"} /\ Exit(ExitUsage)
     \/ call.command \in {"version", "help"} /\ Exit(ExitOK)
     \/ call.command \in {"run", "check", "plan", "echo"} /\ Goto("args")

\* headerFlag.Set, called by the flag package for every --header.
SetHeader(v) == v.colon /\ ~v.blank

ParseArgs ==
  LET refused == call.flags = "bad" \/ (call.command = "plan" /\ ~SetHeader(call.header))
      wanted == IF call.command = "echo" THEN 0 ELSE 1
  IN  /\ at = "args"
      /\ \/ refused /\ Exit(ExitUsage)
         \/ ~refused /\ call.flags = "help" /\ Exit(ExitOK)
         \/ /\ ~refused /\ call.flags = "good"
            /\ IF call.args # wanted THEN Exit(ExitUsage) ELSE Goto("flags")

\* --format of check and plan, --log of run; --from and --requests of plan.
CheckFlags ==
  /\ at = "flags"
  /\ \/ call.command = "echo" /\ Goto("listen")
     \/ /\ call.command \in {"run", "check", "plan"}
        /\ IF \/ call.format = "other"
              \/ call.command = "plan" /\ (call.from < 1 \/ call.requests < 1)
           THEN Exit(ExitUsage)
           ELSE Goto("load")

---------------------------------------------------------------------------
(* The file. *)

\* json.Decoder.More behind a top-level value: a next value, not a bracket.
More(rest) == rest # <<>> /\ rest[1] # "bracket"

NormalizedFile(s) ==
  [s EXCEPT !.proxies =
     [p \in DOMAIN s.proxies |->
        [s.proxies[p] EXCEPT !.rules = [k \in DOMAIN @ |-> normalize(@[k])]]]]

\* Load and Parse: the scenario, or what is wrong.
Load(t, s) ==
  IF ~t.readable THEN [err |-> {"unreadable"}, sc |-> Nil]
  ELSE IF ~t.decodes \/ More(t.rest) THEN [err |-> {"not a scenario"}, sc |-> Nil]
  ELSE IF Validate(s) # {} THEN [err |-> Validate(s), sc |-> Nil]
  ELSE [err |-> {}, sc |-> NormalizedFile(s)]

\* Mutant of loadScenario: a list of findings is printed, and that is all.
loadScenarioListing(t, s) ==
  IF Load(t, s).err = {} \/ (t.readable /\ t.decodes /\ ~More(t.rest))
  THEN [sc |-> NormalizedFile(s), code |-> ExitOK]
  ELSE [sc |-> Nil, code |-> ExitInvalid]

loadScenario(t, s) ==
  IF Load(t, s).err = {}
  THEN [sc |-> Load(t, s).sc, code |-> ExitOK]
  ELSE [sc |-> Nil, code |-> ExitInvalid]

LoadFile ==
  LET loaded == loadScenario(text, file)
  IN  /\ at = "load"
      /\ IF loaded.code # ExitOK THEN Exit(loaded.code)
         ELSE /\ sc' = loaded.sc
              /\ at' = CASE call.command = "run"   -> "serve"
                         [] call.command = "check" -> "print"
                         [] call.command = "plan"  -> "pick"
              /\ UNCHANGED <<fileVars, call, px, code, gate>>

\* ProxyByName: the first of that name.
ProxyByName(s, name) ==
  LET named == {p \in DOMAIN s.proxies : s.proxies[p].name = name}
  IN  IF named = {} THEN Nil
      ELSE s.proxies[CHOOSE p \in named : \A q \in named : p <= q]

pickProxy(s, name) ==
  IF name # "" THEN ProxyByName(s, name)
  ELSE IF Len(s.proxies) = 1 THEN s.proxies[1] ELSE Nil

PickProxy ==
  /\ at = "pick"
  /\ IF pickProxy(sc, call.proxy) = Nil THEN Exit(ExitUsage)
     ELSE /\ px' = pickProxy(sc, call.proxy)
          /\ at' = "print"
          /\ UNCHANGED <<fileVars, call, sc, code, gate>>

---------------------------------------------------------------------------
(* What the commands end with. *)

\* check's summary, plan's rows and totals.
Report == at = "print" /\ Exit(ExitOK)

\* serveScenario ends by an interrupt, or because it cannot bind or serve.
ServeScenario == at = "serve" /\ \E c \in {ExitOK, ExitRuntime} : Exit(c)

\* cmdEcho: the listener, then a select between interrupt and server error.
EchoListen == at = "listen" /\ (Goto("echo") \/ Exit(ExitRuntime))
EchoInterrupted == at = "echo" /\ Exit(ExitOK)
EchoFails == at = "echo" /\ Exit(ExitRuntime)

Main ==
  \/ Dispatch \/ ParseArgs \/ CheckFlags \/ LoadFile \/ PickProxy
  \/ Report \/ ServeScenario \/ EchoListen \/ EchoInterrupted \/ EchoFails

CommandLineNext == Edit \/ Invoke \/ Main \/ Return

CommandLineSpec == CommandLineInit /\ [][CommandLineNext]_commandLineVars

---------------------------------------------------------------------------
\* "Exit 0 on a clean file, 1 with every finding listed otherwise - made for
\* CI gates before a run" (check_cmd.go:1-3): what check has said of a file
\* holds for the commands behind it.  No file is served or planned that check
\* refuses, none that it accepts is refused by run or plan, and both act on a
\* valid scenario; plan on the one proxy that was meant.
CheckIsAGate ==
  /\ gate = ExitOK => ~(at = "exit" /\ code = ExitInvalid)
  /\ gate = ExitInvalid => at \notin {"pick", "print", "serve"}
  /\ at \in {"serve", "print"} =>
       /\ Validate(file) = {}
       /\ Len(sc.proxies) = Len(file.proxies)
  /\ at = "print" /\ call.command = "plan" =>
       \A p \in DOMAIN sc.proxies :
          sc.proxies[p] # px => call.proxy \notin {"", sc.proxies[p].name}

---------------------------------------------------------------------------
(* What Validate lets through. *)

Accepted == Validate(file) = {}

\* The rules of the file, by proxy and position.
Entries == UNION {{p} \X DOMAIN file.proxies[p].rules : p \in DOMAIN file.proxies}

RuleAt(e) == file.proxies[e[1]].rules[e[2]]

\* No two rules of an accepted file draw from the same coordinate (proxy,
\* rule): their decisions are independent (seeded.go:43-46), and a rule's
\* name in a header or a log line tells which one it was.
CoordinatesAreUnique ==
  LET Coordinate(e) == <<file.proxies[e[1]].name, RuleAt(e).name>>
  IN  Accepted => \A e, f \in Entries : e # f => Coordinate(e) # Coordinate(f)

\* A fault of an accepted file does something (scenario.go:375-379), and it
\* is at most one of injected status, drop and throttle.
AcceptedFaultActs ==
  Accepted =>
    \A e \in Entries :
      LET f == RuleAt(e).fault
          kinds == {k \in {"status", "drop", "throttle"} :
                      \/ k = "status"   /\ f.status # 0
                      \/ k = "drop"     /\ f.drop
                      \/ k = "throttle" /\ f.throttle_bps # 0}
      IN  /\ Cardinality(kinds) <= 1
          /\ kinds # {} \/ f.delay_ms > 0 \/ f.jitter_ms > 0

\* A window of an accepted file is not empty: it holds the counter its
\* normalized form starts with.
AcceptedWindowFires ==
  Accepted =>
    \A e \in Entries : InWindow(RuleAt(e), NormalizedWindow(RuleAt(e)).from)

\* A window is the arithmetic progression From, From+Every, ... cut off
\* behind To (scenario.go:82-90), whatever is left to the defaults.
WindowIsProgression ==
  \A e \in Entries :
    LET r == RuleAt(e)
        w == IF r.window = Nil THEN [from |-> 0, to |-> 0, every |-> 0] ELSE r.window
        Or(x, default) == IF x = 0 THEN default ELSE x
        hits == {Or(w.from, 1) + k * Or(w.every, 1) : k \in 0 .. MaxCounter}
    IN  \A counter \in 1 .. MaxCounter :
          InWindow(r, counter)
            <=> counter \in hits \cap (1 .. Or(w.to, MaxCounter))
=============================================================================
