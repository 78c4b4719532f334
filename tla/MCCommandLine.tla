--------------------------- MODULE MCCommandLine ---------------------------
(***************************************************************************)
(* Scenario files, written one proxy and one rule at a time, saved, and    *)
(* used: what Validate lets through, and what commands make of it.  The    *)
(* only rule of a file may have any fault or window over small boundary    *)
(* values; files with several rules and proxies differ in names, addresses *)
(* and upstreams.                                                          *)
(***************************************************************************)
EXTENDS CommandLine, MCRules

CONSTANTS MaxProxies,   \* bound: proxies of a file
          MaxRules,     \* bound: rules of a file
          MaxWindow     \* bound: the numbers in a window

VARIABLES written,      \* how many rules the file has
          saved         \* whether the file is finished

vars == <<commandLineVars, written, saved>>

Names == {"a", "b", ""}
Address(name, host, port) ==
  [text |-> name, hostport |-> TRUE, host |-> host, anyPort |-> port]
Listens == {Nil, Address("l:1", TRUE, FALSE), Address("l:0", TRUE, TRUE),
            Address(":1", FALSE, FALSE)}
Upstream == [url |-> TRUE, http |-> TRUE, host |-> TRUE, bare |-> TRUE]
Upstreams == {Upstream, [Upstream EXCEPT !.http = FALSE]}

OddFaults ==
  [delay_ms : {-1, 0, 1}, jitter_ms : {-1, 0, 1}, status : {0, 99, 100, 599, 600},
   body : BOOLEAN, drop : BOOLEAN, throttle_bps : {-1, 0, 1}]
Windows == [from : 0 .. MaxWindow, to : 0 .. MaxWindow, every : 0 .. MaxWindow]

PlainRules == {[Slow EXCEPT !.name = name] : name \in Names}
OddRules == {[Slow EXCEPT !.fault = f] : f \in OddFaults}
            \cup {[Slow EXCEPT !.window = w] : w \in Windows}

RulesOf(p) == file.proxies[p].rules

Text(readable, decodes, rest) ==
  [readable |-> readable, decodes |-> decodes, rest |-> rest]
Clean == Text(TRUE, TRUE, <<>>)
Texts == {Clean, Text(FALSE, TRUE, <<>>), Text(TRUE, FALSE, <<>>),
          Text(TRUE, TRUE, <<"value">>), Text(TRUE, TRUE, <<"bracket", "value">>)}

\* A good invocation of each command, and what may be wrong with one.
Good(command) ==
  [command |-> command, flags |-> "good", args |-> IF command = "echo" THEN 0 ELSE 1,
   format |-> "text", from |-> 1, requests |-> 1,
   header |-> [colon |-> TRUE, blank |-> FALSE], proxy |-> ""]
Commands == {"", "run", "check", "plan", "echo", "version", "help", "other"}
MCCalls ==
  {Good(command) : command \in Commands}
  \cup UNION {{[Good(command) EXCEPT !.flags = "bad"], [Good(command) EXCEPT !.flags = "help"],
               [Good(command) EXCEPT !.args = 1 - @], [Good(command) EXCEPT !.format = "other"]} :
                command \in {"run", "check", "plan", "echo"}}
  \cup {[Good("plan") EXCEPT !.proxy = name] : name \in {"a", "b"}}
  \cup {[Good("plan") EXCEPT !.from = 0], [Good("plan") EXCEPT !.requests = 0],
        [Good("plan") EXCEPT !.header.blank = TRUE]}

Init ==
  /\ file \in [version : {0, 1}, proxies : {<<>>}] /\ text = Clean
  /\ CommandLineInit /\ call = Good("")
  /\ written = 0 /\ saved = FALSE

Plain == \A p \in DOMAIN file.proxies : Range(RulesOf(p)) \subseteq PlainRules

AddProxy ==
  /\ ~saved /\ Plain
  /\ Len(file.proxies) < MaxProxies
  /\ \E name \in Names, listen \in Listens, upstream \in Upstreams :
       file' = [file EXCEPT !.proxies =
                  Append(@, [name |-> name, listen |-> listen,
                             upstream |-> upstream, rules |-> <<>>])]
  /\ Edit /\ UNCHANGED <<text, written, saved>>

AddRule ==
  /\ ~saved /\ Plain
  /\ file.proxies # <<>> /\ written < MaxRules
  /\ \E r \in PlainRules \cup (IF written = 0 /\ Len(file.proxies) = 1
                               THEN OddRules ELSE {}) :
       file' = [file EXCEPT !.proxies[Len(file.proxies)].rules = Append(@, r)]
  /\ written' = written + 1
  /\ Edit /\ UNCHANGED <<text, saved>>

\* Bound: commands are run on files without rules, and on files with one rule
\* and nothing wrong around it; the text is odd only where there is one proxy.
Save ==
  /\ ~saved
  /\ \/ written = 0
     \/ /\ written = 1 /\ Len(file.proxies) = 1
        /\ Validate([file EXCEPT !.proxies[1].rules = <<>>]) = {}
  /\ saved' = TRUE
  /\ text' \in IF Len(file.proxies) = 1 /\ written = 0 THEN Texts ELSE {Clean}
  /\ UNCHANGED file /\ Edit /\ UNCHANGED written

Use == saved /\ (Invoke \/ Main \/ Return) /\ UNCHANGED <<written, saved>>

Next == AddProxy \/ AddRule \/ Save \/ Use
Spec == Init /\ [][Next]_vars
=============================================================================
