------------------------- MODULE CommandLineProofs -------------------------
(***************************************************************************)
(* Proofs about the command line, for any invocations and any edits of the *)
(* file: what a file that Validate accepts is like, and that check is a    *)
(* gate for the commands behind it.                                        *)
(***************************************************************************)
EXTENDS CommandLine, Numbers, FiniteSetTheorems

---------------------------------------------------------------------------
(* What no findings mean. *)

\* Nothing is wrong with the entry at any place.
Named(entries) == \A k \in DOMAIN entries : validateName(entries, k) = {}

\* Nothing is wrong with any part of a rule, of a proxy.
RuleIsClean(rules, k) ==
  /\ validateName(rules, k) = {}
  /\ validateWindow(rules[k].window) = {}
  /\ validateFault(rules[k].fault) = {}

ProxyIsClean(proxies, p) ==
  /\ validateName(proxies, p) = {}
  /\ validateListen(proxies, p) = {}
  /\ \A k \in DOMAIN proxies[p].rules : RuleIsClean(proxies[p].rules, k)

\* A file without findings has none in any of its parts (Validate collects
\* all findings and never stops early).
LEMMA ValidateParts ==
  ASSUME NEW s, Validate(s) = {}, NEW p \in DOMAIN s.proxies
  PROVE  ProxyIsClean(s.proxies, p)
<1> DEFINE Found(k) == validateName(s.proxies, k)
                       \cup validateListen(s.proxies, k)
                       \cup validateUpstream(s.proxies[k].upstream)
                       \cup UNION {validateRule(s.proxies[k].rules, i) :
                                     i \in DOMAIN s.proxies[k].rules}
<1>1. UNION {Found(k) : k \in DOMAIN s.proxies} = {}
  BY Zenon DEF Validate
<1>2. Found(p) = {}
  <2> HIDE DEF Found
  <2> QED
    BY <1>1
<1>3. /\ validateName(s.proxies, p) = {} /\ validateListen(s.proxies, p) = {}
      /\ UNION {validateRule(s.proxies[p].rules, i) : i \in DOMAIN s.proxies[p].rules} = {}
  BY <1>2
<1>4. ASSUME NEW k \in DOMAIN s.proxies[p].rules
      PROVE  RuleIsClean(s.proxies[p].rules, k)
  <2>1. validateRule(s.proxies[p].rules, k) = {}
    BY <1>3
  <2> QED
    BY <2>1 DEF validateRule, RuleIsClean
<1> QED
  BY <1>3, <1>4 DEF ProxyIsClean

\* Entries without a name finding have different names (validateName looks
\* at all the names above an entry).
LEMMA NamesAreUnique ==
  ASSUME NEW entries, entries \in Seq(Range(entries)), Named(entries),
         NEW j \in DOMAIN entries, NEW k \in DOMAIN entries, j # k
  PROVE  entries[j].name # entries[k].name
<1>1. DOMAIN entries = 1 .. Len(entries) /\ Len(entries) \in Nat
  OBVIOUS
<1>2. \A i \in DOMAIN entries : ~\E h \in 1 .. i - 1 : entries[h].name = entries[i].name
  BY DEF Named, validateName, When
<1>3. CASE j < k
  BY <1>1, <1>2, <1>3
<1>4. CASE k < j
  BY <1>1, <1>2, <1>4
<1> QED
  BY <1>1, <1>3, <1>4

---------------------------------------------------------------------------
(* Windows. *)

\* The numbers that are on a step from x.
LEMMA StepsHaveNoRemainder ==
  ASSUME NEW counter \in Nat, NEW x \in Nat \ {0}, NEW step \in Nat \ {0}
  PROVE  /\ counter >= x /\ (counter - x) % step = 0
              => \E k \in 0 .. counter : counter = x + k * step
         /\ \A k \in Nat : counter = x + k * step
              => counter >= x /\ (counter - x) % step = 0
<1>1. ASSUME counter >= x, (counter - x) % step = 0
      PROVE  \E k \in 0 .. counter : counter = x + k * step
  <2>1. counter - x \in Int
    OBVIOUS
  <2>2. PICK q \in Int : counter - x = step * q + ((counter - x) % step)
    BY <2>1, Remainder
  <2>3. counter - x = step * q
    BY <1>1, <2>2
  <2>4. q >= 0
    BY <1>1, <2>3
  <2>5. q <= step * q
    BY <2>4
  <2>6. q \in 0 .. counter /\ counter = x + q * step
    BY <2>3, <2>4, <2>5
  <2> QED
    BY <2>6
<1>2. ASSUME NEW k \in Nat, counter = x + k * step
      PROVE  counter >= x /\ (counter - x) % step = 0
  <2>1. k * step >= 0 /\ k * step \in Int
    OBVIOUS
  <2>2. counter - x = step * k + 0 /\ counter - x \in Int /\ 0 \in 0 .. step - 1
    BY <1>2, <2>1
  <2>3. (counter - x) % step = 0
    BY <2>2, RemainderIsUnique
  <2> QED
    BY <1>2, <2>1, <2>3
<1> QED
  BY <1>1, <1>2

---------------------------------------------------------------------------
(* What IsFile says, in parts. *)

\* The entries of a file are rules of one of its proxies.
LEMMA EntryParts ==
  ASSUME IsFile(file), NEW e \in Entries
  PROVE  /\ e[1] \in DOMAIN file.proxies
         /\ e[2] \in DOMAIN file.proxies[e[1]].rules
         /\ e = <<e[1], e[2]>>
         /\ IsRule(RuleAt(e))
<1>1. PICK p \in DOMAIN file.proxies : e \in {p} \X DOMAIN file.proxies[p].rules
  BY DEF Entries
<1>2. e[1] = p /\ e[2] \in DOMAIN file.proxies[p].rules /\ e = <<e[1], e[2]>>
  BY <1>1
<1>3. IsRule(file.proxies[p].rules[e[2]])
  BY <1>2 DEF IsFile
<1> QED
  BY <1>1, <1>2, <1>3 DEF RuleAt

\* Nothing is wrong with an entry of an accepted file.
LEMMA EntryIsClean ==
  ASSUME IsFile(file), Accepted, NEW e \in Entries
  PROVE  validateWindow(RuleAt(e).window) = {} /\ validateFault(RuleAt(e).fault) = {}
<1>1. e[1] \in DOMAIN file.proxies /\ e[2] \in DOMAIN file.proxies[e[1]].rules
  BY EntryParts
<1>2. ProxyIsClean(file.proxies, e[1])
  BY <1>1, ValidateParts DEF Accepted
<1> QED
  BY <1>1, <1>2 DEF ProxyIsClean, RuleIsClean, RuleAt

---------------------------------------------------------------------------
(* What Validate lets through: true of every file, so always true. *)

\* The names of proxies, and of the rules of one, make every coordinate.
LEMMA FileCoordinates == IsFile(file) => CoordinatesAreUnique
<1> SUFFICES ASSUME IsFile(file), Accepted, NEW e \in Entries, NEW f \in Entries, e # f
             PROVE  <<file.proxies[e[1]].name, RuleAt(e).name>>
                      # <<file.proxies[f[1]].name, RuleAt(f).name>>
  BY DEF CoordinatesAreUnique
<1>1. /\ e[1] \in DOMAIN file.proxies /\ e[2] \in DOMAIN file.proxies[e[1]].rules
      /\ f[1] \in DOMAIN file.proxies /\ f[2] \in DOMAIN file.proxies[f[1]].rules
      /\ e = <<e[1], e[2]>> /\ f = <<f[1], f[2]>>
  BY EntryParts
<1>2. \A p \in DOMAIN file.proxies : ProxyIsClean(file.proxies, p)
  BY ValidateParts DEF Accepted
<1>3. CASE e[1] # f[1]
  <2>1. Named(file.proxies) /\ file.proxies \in Seq(Range(file.proxies))
    BY <1>2 DEF Named, ProxyIsClean, IsFile
  <2>2. file.proxies[e[1]].name # file.proxies[f[1]].name
    BY <1>1, <1>3, <2>1, NamesAreUnique
  <2> QED
    BY <2>2
<1>4. CASE e[1] = f[1] /\ e[2] # f[2]
  <2> DEFINE rules == file.proxies[e[1]].rules
  <2>1. Named(rules) /\ rules \in Seq(Range(rules))
    BY <1>1, <1>2 DEF Named, ProxyIsClean, RuleIsClean, IsFile
  <2>2. rules[e[2]].name # rules[f[2]].name
    <3> HIDE DEF rules
    <3>1. e[2] \in DOMAIN rules /\ f[2] \in DOMAIN rules
      BY <1>1, <1>4 DEF rules
    <3> QED
      BY <1>4, <2>1, <3>1, NamesAreUnique
  <2>3. RuleAt(e) = rules[e[2]] /\ RuleAt(f) = rules[f[2]]
    BY <1>4 DEF RuleAt
  <2> QED
    BY <2>2, <2>3
<1> QED
  BY <1>1, <1>3, <1>4

\* validateFault refuses a fault without an effect, and two terminal ones.
LEMMA FileFaults == IsFile(file) => AcceptedFaultActs
<1> SUFFICES ASSUME IsFile(file), Accepted, NEW e \in Entries
             PROVE  LET f == RuleAt(e).fault
                        kinds == {k \in {"status", "drop", "throttle"} :
                                    \/ k = "status"   /\ f.status # 0
                                    \/ k = "drop"     /\ f.drop
                                    \/ k = "throttle" /\ f.throttle_bps # 0}
                    IN  /\ Cardinality(kinds) <= 1
                        /\ kinds # {} \/ f.delay_ms > 0 \/ f.jitter_ms > 0
  BY DEF AcceptedFaultActs
<1> DEFINE f == RuleAt(e).fault
           kinds == {k \in {"status", "drop", "throttle"} :
                       \/ k = "status"   /\ f.status # 0
                       \/ k = "drop"     /\ f.drop
                       \/ k = "throttle" /\ f.throttle_bps # 0}
<1>1. f \in Faults /\ validateFault(f) = {}
  BY EntryParts, EntryIsClean DEF IsRule
<1> HIDE DEF f
<1>2. /\ ~Empty(f) /\ f.delay_ms >= 0 /\ f.jitter_ms >= 0 /\ f.throttle_bps >= 0
      /\ f.body => f.status # 0
      /\ ~(f.status # 0 /\ f.drop)
      /\ f.throttle_bps > 0 => f.status = 0 /\ ~f.drop
  BY <1>1 DEF validateFault, When, Faults
<1>3. kinds # {} \/ f.delay_ms > 0 \/ f.jitter_ms > 0
  BY <1>1, <1>2 DEF Empty, Faults
<1>4. kinds = {} \/ \E k : kinds = {k}
  <2>1. CASE f.status # 0
    <3>1. kinds = {"status"}
      BY <1>1, <1>2, <2>1 DEF Faults
    <3> QED
      BY <3>1
  <2>2. CASE f.status = 0 /\ f.drop
    <3>1. kinds = {"drop"}
      BY <1>1, <1>2, <2>2 DEF Faults
    <3> QED
      BY <3>1
  <2>3. CASE f.status = 0 /\ ~f.drop
    <3>1. kinds = {} \/ kinds = {"throttle"}
      BY <1>1, <1>2, <2>3 DEF Faults
    <3> QED
      BY <3>1
  <2> QED
    BY <1>1, <2>1, <2>2, <2>3 DEF Faults
<1> HIDE DEF kinds
<1>5. Cardinality(kinds) <= 1
  <2>1. CASE kinds = {}
    BY <2>1, FS_EmptySet
  <2>2. ASSUME NEW k, kinds = {k}
        PROVE  Cardinality(kinds) = 1
    BY <2>2, FS_Singleton
  <2> QED
    BY <1>4, <2>1, <2>2
<1> QED
  BY <1>3, <1>5 DEF kinds, f

\* The window that is left by the defaults of a window without findings.
LEMMA FileWindows == IsFile(file) => AcceptedWindowFires
<1> SUFFICES ASSUME IsFile(file), Accepted, NEW e \in Entries
             PROVE  InWindow(RuleAt(e), NormalizedWindow(RuleAt(e)).from)
  BY DEF AcceptedWindowFires
<1> DEFINE r == RuleAt(e)
           w == NormalizedWindow(r)
<1>1. IsRule(r) /\ validateWindow(r.window) = {}
  BY EntryParts, EntryIsClean
<1> HIDE DEF r
<1>2. /\ w.from \in Nat \ {0} /\ w.to \in Nat /\ w.every \in Nat \ {0}
      /\ w.to = 0 \/ w.from <= w.to
  BY <1>1 DEF IsRule, NormalizedWindow, validateWindow, When
<1> HIDE DEF w
<1>3. (w.from - w.from) % w.every = 0
  <2>1. w.from - w.from = w.every * 0 + 0 /\ 0 \in 0 .. w.every - 1
    BY <1>2
  <2>2. w.from - w.from \in Int /\ 0 \in Int
    BY <1>2
  <2> QED
    BY <1>2, <2>1, <2>2, RemainderIsUnique
<1> QED
  BY <1>2, <1>3 DEF InWindow, r, w

\* A counter in the window is a number of steps behind its start.
LEMMA FileProgressions == IsFile(file) => WindowIsProgression
<1> SUFFICES ASSUME IsFile(file), NEW e \in Entries,
                    NEW counter \in 1 .. MaxCounter
             PROVE  LET r == RuleAt(e)
                        w == IF r.window = Nil THEN [from |-> 0, to |-> 0, every |-> 0]
                             ELSE r.window
                        Or(x, default) == IF x = 0 THEN default ELSE x
                        hits == {Or(w.from, 1) + k * Or(w.every, 1) : k \in 0 .. MaxCounter}
                    IN  InWindow(r, counter)
                          <=> counter \in hits \cap (1 .. Or(w.to, MaxCounter))
  BY DEF WindowIsProgression
<1> DEFINE r == RuleAt(e)
           w == IF r.window = Nil THEN [from |-> 0, to |-> 0, every |-> 0] ELSE r.window
           Or(x, default) == IF x = 0 THEN default ELSE x
           hits == {Or(w.from, 1) + k * Or(w.every, 1) : k \in 0 .. MaxCounter}
           n == NormalizedWindow(r)
<1>1. IsRule(r)
  BY EntryParts
<1> HIDE DEF r
<1>2. /\ n.from = Or(w.from, 1) /\ n.every = Or(w.every, 1) /\ n.to = w.to
      /\ n.from \in Nat \ {0} /\ n.every \in Nat \ {0} /\ n.to \in Nat
  BY <1>1 DEF IsRule, NormalizedWindow
<1> HIDE DEF w, n
<1>3. hits = {n.from + k * n.every : k \in 0 .. MaxCounter}
  BY <1>2, Zenon
<1> HIDE DEF hits
<1>4. counter \in hits <=> counter >= n.from /\ (counter - n.from) % n.every = 0
  <2>1. counter \in Nat /\ 0 .. counter \subseteq 0 .. MaxCounter /\ 0 .. MaxCounter \subseteq Nat
    BY MaxCounterAssumption
  <2>2. /\ counter >= n.from /\ (counter - n.from) % n.every = 0
             => \E k \in 0 .. counter : counter = n.from + k * n.every
        /\ \A k \in Nat : counter = n.from + k * n.every
             => counter >= n.from /\ (counter - n.from) % n.every = 0
    BY <1>2, <2>1, StepsHaveNoRemainder, Zenon
  <2>3. counter \in hits => \E k \in Nat : counter = n.from + k * n.every
    BY <1>3, <2>1
  <2>4. (\E k \in 0 .. counter : counter = n.from + k * n.every) => counter \in hits
    BY <1>3, <2>1
  <2> QED
    BY <2>2, <2>3, <2>4
<1>5. counter \in 1 .. Or(w.to, MaxCounter) <=> n.to = 0 \/ counter <= n.to
  BY <1>2, MaxCounterAssumption
<1>6. InWindow(r, counter) <=> /\ counter >= n.from
                               /\ n.to = 0 \/ counter <= n.to
                               /\ (counter - n.from) % n.every = 0
  BY DEF InWindow, n
<1> QED
  BY <1>4, <1>5, <1>6 DEF hits, w, r

---------------------------------------------------------------------------
(* Every step, of a command or of an editor. *)

\* The file is one at every moment: no command writes it, and an edit leaves
\* a file (IsFile is the type of what json.Decoder.Decode fills in).
THEOREM FileTheorem == CommandLineSpec => []IsFile(file)
<1>1. CommandLineInit => IsFile(file)
  BY DEF CommandLineInit
<1>2. IsFile(file) /\ [CommandLineNext]_commandLineVars => IsFile(file)'
  <2> SUFFICES ASSUME IsFile(file), [CommandLineNext]_commandLineVars PROVE IsFile(file)'
    OBVIOUS
  <2>1. CASE Edit
    BY <2>1 DEF Edit, IsFile, IsRule
  <2>2. CASE UNCHANGED file
    BY <2>2 DEF IsFile, IsRule
  <2>3. Edit \/ UNCHANGED file
    BY DEF CommandLineNext, commandLineVars, fileVars, Invoke, Return, Goto, Exit, Main,
           Dispatch, ParseArgs, CheckFlags, LoadFile, PickProxy, Report, ServeScenario,
           EchoListen, EchoInterrupted, EchoFails
  <2> QED
    BY <2>1, <2>2, <2>3
<1> QED
  BY <1>1, <1>2, PTL DEF CommandLineSpec

\* No two rules of an accepted file draw from the same coordinate.
THEOREM CoordinatesTheorem == CommandLineSpec => []CoordinatesAreUnique
  BY FileTheorem, FileCoordinates, PTL

\* A fault of an accepted file does something, and one thing at the end.
THEOREM FaultsTheorem == CommandLineSpec => []AcceptedFaultActs
  BY FileTheorem, FileFaults, PTL

\* A window of an accepted file holds the counter it starts with.
THEOREM WindowsTheorem == CommandLineSpec => []AcceptedWindowFires
  BY FileTheorem, FileWindows, PTL

\* A window, accepted or not, is a progression cut off behind its end.
THEOREM ProgressionTheorem == CommandLineSpec => []WindowIsProgression
  BY FileTheorem, FileProgressions, PTL

---------------------------------------------------------------------------
(* The gate. *)

Loads == loadScenario(text, file).code = ExitOK

\* A command that loads is one of the three; behind loading, the scenario is
\* the file's; the proxy is the one picked from it; and what a check has said
\* is what loading says now.
GateInv ==
  /\ IsFile(file)
  /\ at = "load" => call.command \in {"run", "check", "plan"}
  /\ at \in {"pick", "print", "serve"} => Loads /\ sc = NormalizedFile(file)
  /\ at = "print" /\ call.command = "plan" =>
       px = pickProxy(sc, call.proxy) /\ px # Nil
  /\ at = "exit" /\ code = ExitInvalid => ~Loads
  /\ gate \in {Nil, ExitOK, ExitInvalid}
  /\ gate = ExitOK => Loads
  /\ gate = ExitInvalid => ~Loads

\* The exit codes are four, and none of them stands for no answer.
LEMMA ExitCodes ==
  /\ ExitOK = 0 /\ ExitInvalid = 1 /\ ExitUsage = 2 /\ ExitRuntime = 3
  /\ Nil # ExitOK /\ Nil # ExitInvalid
  BY NilIsNoExitCode DEF ExitOK, ExitInvalid, ExitUsage, ExitRuntime

\* Loading succeeds with the scenario in normal form or fails with 1.
LEMMA LoadFacts ==
  /\ loadScenario(text, file).code \in {ExitOK, ExitInvalid}
  /\ Loads => loadScenario(text, file).sc = NormalizedFile(file) /\ Validate(file) = {}
<1>1. Load(text, file).err = {} =>
        Load(text, file).sc = NormalizedFile(file) /\ Validate(file) = {}
  BY DEF Load
<1> QED
  BY <1>1, ExitCodes DEF loadScenario, Loads

\* The steps before the file is loaded, and those of echo.
LEMMA GateEarly ==
  ASSUME GateInv,
         Dispatch \/ ParseArgs \/ CheckFlags \/ EchoListen \/ EchoInterrupted \/ EchoFails
  PROVE  GateInv'
<1>1. /\ UNCHANGED <<file, text, call, sc, px, gate>>
      /\ \/ at' = "exit" /\ code' # ExitInvalid
         \/ at' = "load" /\ call.command \in {"run", "check", "plan"}
         \/ at' \in {"args", "flags", "listen", "echo"}
  <2>1. CASE Dispatch
    <3>1. at = "main" /\ (Exit(ExitUsage) \/ Exit(ExitOK) \/ Goto("args"))
      BY <2>1, Zenon DEF Dispatch
    <3>2. CASE Exit(ExitUsage)
      BY <3>1, <3>2, ExitCodes DEF Exit, fileVars
    <3>3. CASE Exit(ExitOK)
      BY <3>1, <3>3, ExitCodes DEF Exit, fileVars
    <3>4. CASE Goto("args")
      BY <3>4 DEF Goto, fileVars
    <3> QED
      BY <3>1, <3>2, <3>3, <3>4
  <2>2. CASE ParseArgs
    BY <2>2, ExitCodes DEF ParseArgs, Exit, Goto, fileVars
  <2>3. CASE CheckFlags
    BY <2>3, ExitCodes DEF CheckFlags, Exit, Goto, fileVars
  <2>4. CASE EchoListen \/ EchoInterrupted \/ EchoFails
    BY <2>4, ExitCodes DEF EchoListen, EchoInterrupted, EchoFails, Exit, Goto, fileVars
  <2> QED
    BY <2>1, <2>2, <2>3, <2>4
<1>2. IsFile(file)' /\ (Loads' <=> Loads)
  BY <1>1 DEF GateInv, Loads, IsFile, IsRule
<1> QED
  BY <1>1, <1>2 DEF GateInv

\* Loading: a check that fails here has found the file wanting.
LEMMA GateLoad == ASSUME GateInv, LoadFile PROVE GateInv'
<1>1. UNCHANGED <<file, text, call, px>> /\ at = "load"
  BY DEF LoadFile, Exit, fileVars
<1>2. IsFile(file)' /\ (Loads' <=> Loads)
  BY <1>1 DEF GateInv, Loads, IsFile, IsRule
<1>3. call.command \in {"run", "check", "plan"}
  BY <1>1 DEF GateInv
<1>4. CASE ~Loads
  <2>1. /\ at' = "exit" /\ code' = ExitInvalid /\ sc' = sc
        /\ gate' = gate \/ gate' = ExitInvalid
    BY <1>1, <1>4, LoadFacts, ExitCodes DEF LoadFile, Loads, Exit
  <2> QED
    BY <1>1, <1>2, <1>4, <2>1, ExitCodes DEF GateInv
<1>5. CASE Loads
  <2>1. /\ sc' = NormalizedFile(file) /\ gate' = gate
        /\ call.command = "run" => at' = "serve"
        /\ call.command = "check" => at' = "print"
        /\ call.command = "plan" => at' = "pick"
    BY <1>1, <1>3, <1>5, LoadFacts DEF LoadFile, Loads
  <2>2. (sc = NormalizedFile(file))'
    BY <1>1, <2>1 DEF NormalizedFile
  <2> QED
    BY <1>1, <1>2, <1>3, <1>5, <2>1, <2>2 DEF GateInv
<1> QED
  BY <1>4, <1>5

\* Behind loading: a check that ends well ends on a file that loads.
LEMMA GateLate ==
  ASSUME GateInv, PickProxy \/ Report \/ ServeScenario
  PROVE  GateInv'
<1>1. UNCHANGED <<file, text, call, sc>> /\ at \in {"pick", "print", "serve"}
  BY DEF PickProxy, Report, ServeScenario, Exit, fileVars
<1>2. /\ IsFile(file)' /\ (Loads' <=> Loads) /\ Loads
      /\ (sc = NormalizedFile(file))'
  BY <1>1 DEF GateInv, Loads, IsFile, IsRule
<1>3. CASE PickProxy /\ at' = "print"
  <2>1. px' = pickProxy(sc, call.proxy) /\ px' # Nil /\ gate' = gate
    BY <1>3 DEF PickProxy, Exit
  <2>2. (px = pickProxy(sc, call.proxy))'
    BY <1>1, <2>1
  <2> QED
    BY <1>1, <1>2, <1>3, <2>1, <2>2 DEF GateInv
<1>4. CASE at' = "exit"
  <2>1. code' # ExitInvalid /\ (gate' = gate \/ gate' = ExitOK)
    BY <1>1, <1>4, ExitCodes DEF PickProxy, Report, ServeScenario, Exit
  <2> QED
    BY <1>1, <1>2, <1>4, <2>1, ExitCodes DEF GateInv
<1> QED
  BY <1>3, <1>4 DEF PickProxy, Report, ServeScenario, Exit

\* Between commands: an edit takes back what a check has said.
LEMMA GateIdle ==
  ASSUME GateInv, Edit \/ Invoke \/ Return
  PROVE  GateInv'
<1>1. at' \in {"idle", "main"}
  BY DEF Edit, Invoke, Return, Goto
<1>2. CASE Edit
  <2>1. IsFile(file)'
    BY <1>2 DEF Edit, IsFile, IsRule
  <2>2. gate' = Nil /\ at' = "idle"
    BY <1>2 DEF Edit
  <2> QED
    BY <2>1, <2>2, ExitCodes DEF GateInv
<1>3. CASE Invoke \/ Return
  <2>1. UNCHANGED <<file, text, gate>>
    BY <1>3 DEF Invoke, Return, Goto, fileVars
  <2>2. IsFile(file)' /\ (Loads' <=> Loads)
    BY <2>1 DEF GateInv, Loads, IsFile, IsRule
  <2> QED
    BY <1>1, <2>1, <2>2 DEF GateInv
<1> QED
  BY <1>2, <1>3

\* Normalizing a file leaves the number and the names of its proxies.
LEMMA NormalizedNames ==
  ASSUME IsFile(file)
  PROVE  /\ Len(NormalizedFile(file).proxies) = Len(file.proxies)
         /\ DOMAIN NormalizedFile(file).proxies = 1 .. Len(file.proxies)
         /\ \A p \in 1 .. Len(file.proxies) :
              NormalizedFile(file).proxies[p].name = file.proxies[p].name
<1> DEFINE Normal(p) == [file.proxies[p] EXCEPT !.rules = [k \in DOMAIN @ |-> normalize(@[k])]]
           proxies == [p \in DOMAIN file.proxies |-> Normal(p)]
<1>1. DOMAIN file.proxies = 1 .. Len(file.proxies) /\ Len(file.proxies) \in Nat
  BY DEF IsFile
<1>2. NormalizedFile(file).proxies = proxies
  <2> HIDE DEF Normal
  <2>1. NormalizedFile(file) = [file EXCEPT !.proxies = proxies]
    BY DEF NormalizedFile, Normal
  <2> QED
    BY <2>1 DEF IsFile
<1>3. \A p \in DOMAIN file.proxies : Normal(p).name = file.proxies[p].name
  BY DEF IsFile
<1> HIDE DEF Normal
<1>4. DOMAIN proxies = 1 .. Len(file.proxies) /\ Len(proxies) = Len(file.proxies)
  BY <1>1
<1> QED
  BY <1>1, <1>2, <1>3, <1>4

\* The proxy that is picked from a scenario without findings is the only one
\* of the name that was asked for, or the only one.
LEMMA PickedIsMeant ==
  ASSUME IsFile(file), Validate(file) = {}, sc = NormalizedFile(file),
         px = pickProxy(sc, call.proxy), px # Nil,
         NEW p \in DOMAIN sc.proxies, sc.proxies[p] # px
  PROVE  call.proxy \notin {"", sc.proxies[p].name}
<1>1. /\ DOMAIN sc.proxies = 1 .. Len(file.proxies) /\ Len(sc.proxies) = Len(file.proxies)
      /\ \A q \in DOMAIN sc.proxies : sc.proxies[q].name = file.proxies[q].name
  BY NormalizedNames
<1>2. DOMAIN file.proxies = 1 .. Len(file.proxies) /\ Len(file.proxies) \in Nat
  BY DEF IsFile
<1>3. \A j, k \in DOMAIN sc.proxies : j # k => sc.proxies[j].name # sc.proxies[k].name
  <2>1. Named(file.proxies) /\ file.proxies \in Seq(Range(file.proxies))
    BY ValidateParts DEF Named, ProxyIsClean, IsFile
  <2> QED
    BY <1>1, <1>2, <2>1, NamesAreUnique
<1>4. CASE call.proxy = ""
  <2>1. Len(sc.proxies) = 1 /\ px = sc.proxies[1]
    BY <1>4 DEF pickProxy
  <2>2. p \in 1 .. 1
    BY <1>1, <2>1
  <2>3. p = 1
    BY <2>2
  <2> QED
    BY <2>1, <2>3
<1>5. CASE call.proxy # "" /\ call.proxy = sc.proxies[p].name
  <2> DEFINE named == {q \in DOMAIN sc.proxies : sc.proxies[q].name = call.proxy}
  <2>1. named = {p}
    BY <1>3, <1>5
  <2>2. px = sc.proxies[CHOOSE q \in named : \A o \in named : q <= o]
    BY <1>5, <2>1 DEF pickProxy, ProxyByName
  <2> HIDE DEF named
  <2>3. (CHOOSE q \in named : \A o \in named : q <= o) = p
    <3>1. p \in Int /\ p <= p
      BY <1>1, <1>2
    <3>2. p \in named /\ \A o \in named : p <= o
      BY <2>1, <3>1
    <3>3. (CHOOSE q \in named : \A o \in named : q <= o) \in named
      BY <3>2
    <3> QED
      BY <2>1, <3>3
  <2> QED
    BY <2>2, <2>3
<1> QED
  BY <1>4, <1>5

\* What check has said of a file holds for the commands behind it: the step
\* that reads the file is the same for all of them, and its answer is kept
\* until the file is edited.
THEOREM GateTheorem == CommandLineSpec => []CheckIsAGate
<1>1. CommandLineInit => GateInv
  BY ExitCodes DEF CommandLineInit, GateInv
<1>2. GateInv /\ [CommandLineNext]_commandLineVars => GateInv'
  <2> SUFFICES ASSUME GateInv, [CommandLineNext]_commandLineVars PROVE GateInv'
    OBVIOUS
  <2>1. CASE UNCHANGED commandLineVars
    <3>1. UNCHANGED <<file, text, call, at, sc, px, code, gate>>
      BY <2>1 DEF commandLineVars, fileVars, callVars
    <3>2. (IsFile(file)' <=> IsFile(file)) /\ (Loads' <=> Loads)
      BY <3>1 DEF Loads, IsFile, IsRule
    <3> QED
      BY <3>1, <3>2 DEF GateInv
  <2>2. CASE Edit \/ Invoke \/ Return
    BY <2>2, GateIdle
  <2>3. CASE Main
    BY <2>3, GateEarly, GateLoad, GateLate DEF Main
  <2> QED
    BY <2>1, <2>2, <2>3 DEF CommandLineNext
<1>3. GateInv => CheckIsAGate
  <2> SUFFICES ASSUME GateInv PROVE CheckIsAGate
    OBVIOUS
  <2>1. gate = ExitOK => ~(at = "exit" /\ code = ExitInvalid)
    BY DEF GateInv
  <2>2. gate = ExitInvalid => at \notin {"pick", "print", "serve"}
    BY DEF GateInv
  <2>3. at \in {"serve", "print"} =>
          Validate(file) = {} /\ Len(sc.proxies) = Len(file.proxies)
    BY LoadFacts, NormalizedNames DEF GateInv
  <2>4. at = "print" /\ call.command = "plan" =>
          \A p \in DOMAIN sc.proxies :
             sc.proxies[p] # px => call.proxy \notin {"", sc.proxies[p].name}
    BY LoadFacts, PickedIsMeant DEF GateInv
  <2> QED
    BY <2>1, <2>2, <2>3, <2>4 DEF CheckIsAGate
<1> QED
  BY <1>1, <1>2, <1>3, PTL DEF CommandLineSpec
=============================================================================
