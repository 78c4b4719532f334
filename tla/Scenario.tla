----------------------------- MODULE Scenario -----------------------------
(***************************************************************************)
(* The scenario file (internal/scenario): defaults, windows, and what      *)
(* validation refuses.  A rule is a record [name, match, window, rate,     *)
(* fault]; a fault is [delay_ms, jitter_ms, status, body, drop,            *)
(* throttle_bps], where body tells whether there is one.  A proxy is       *)
(* [name, listen, upstream, rules], where listen is what net.SplitHostPort *)
(* makes of it, [text, hostport, host, anyPort], and upstream is what      *)
(* url.Parse makes of it, [url, http, host, bare].                         *)
(***************************************************************************)
EXTENDS Integers, Match

CONSTANTS Nil,           \* an absent optional field
          RateScale,     \* rates and draws are integers out of RateScale
          validName(_),  \* a name over the legal alphabet ("" is not)
          IsMethod(_)    \* a method that is not "" and has no space or slash

ASSUME RateScaleAssumption == RateScale \in Nat \ {0}

\* What decodes as a fault: int64 is taken as Int.
Faults == [delay_ms : Int, jitter_ms : Int, status : Int, body : BOOLEAN,
           drop : BOOLEAN, throttle_bps : Int]

---------------------------------------------------------------------------
(* Defaults. *)

EffectiveRate(r) == IF r.rate = Nil THEN RateScale ELSE r.rate

NormalizedWindow(r) ==
  IF r.window = Nil
  THEN [from |-> 1, to |-> 0, every |-> 1]
  ELSE [from  |-> IF r.window.from = 0 THEN 1 ELSE r.window.from,
        to    |-> r.window.to,
        every |-> IF r.window.every = 0 THEN 1 ELSE r.window.every]

\* Mutant of InWindow: the period is counted from 0, not from the window.
InWindowFromZero(r, counter) ==
  LET w == NormalizedWindow(r)
  IN  /\ counter >= w.from
      /\ w.to = 0 \/ counter <= w.to
      /\ counter % w.every = 0

InWindow(r, counter) ==
  LET w == NormalizedWindow(r)
  IN  /\ counter >= w.from
      /\ w.to = 0 \/ counter <= w.to
      /\ (counter - w.from) % w.every = 0

\* normalize: the methods of a rule in upper case.
normalize(r) ==
  IF r.match = Nil THEN r
  ELSE [r EXCEPT !.match.methods =
                   [i \in DOMAIN r.match.methods |-> ToUpper(r.match.methods[i])]]

---------------------------------------------------------------------------
(* Validation: every operator gives the set of what it finds wrong. *)

When(wrong, finding) == IF wrong THEN {finding} ELSE {}

validateMatch(m) ==
  IF m = Nil THEN {}
  ELSE When(m.methods = <<>> /\ m.path = NoPath /\ DOMAIN m.headers = {}, "match")
       \cup When(\E i \in DOMAIN m.methods : ~IsMethod(m.methods[i]), "methods")
       \cup When(m.path # NoPath /\ m.path[1] # <<>>, "path")
       \cup When("" \in DOMAIN m.headers, "headers")

\* Mutant of validateWindow: its ends are not compared.
validateWindowNoOrder(w) ==
  IF w = Nil THEN {}
  ELSE When(w.from = 0 /\ w.to = 0 /\ w.every = 0, "window")

validateWindow(w) ==
  IF w = Nil THEN {}
  ELSE When(w.from = 0 /\ w.to = 0 /\ w.every = 0, "window")
       \cup When(w.to # 0 /\ w.from # 0 /\ w.to < w.from, "to")

Empty(f) ==
  /\ f.delay_ms = 0 /\ f.jitter_ms = 0 /\ f.status = 0
  /\ ~f.body /\ ~f.drop /\ f.throttle_bps = 0

\* Mutant of validateFault: throttle and drop may be combined.
validateFaultLoose(f) ==
  IF Empty(f) THEN {"fault"}
  ELSE When(f.delay_ms < 0, "delay_ms")
       \cup When(f.jitter_ms < 0, "jitter_ms")
       \cup When(f.status # 0 /\ f.status \notin 100 .. 599, "status")
       \cup When(f.body /\ f.status = 0, "body")
       \cup When(f.status # 0 /\ f.drop, "terminals")
       \cup When(f.throttle_bps < 0, "throttle_bps")
       \cup When(f.throttle_bps > 0 /\ f.status # 0, "throttle")

validateFault(f) ==
  IF Empty(f) THEN {"fault"}
  ELSE When(f.delay_ms < 0, "delay_ms")
       \cup When(f.jitter_ms < 0, "jitter_ms")
       \cup When(f.status # 0 /\ f.status \notin 100 .. 599, "status")
       \cup When(f.body /\ f.status = 0, "body")
       \cup When(f.status # 0 /\ f.drop, "terminals")
       \cup When(f.throttle_bps < 0, "throttle_bps")
       \cup When(f.throttle_bps > 0 /\ (f.status # 0 \/ f.drop), "throttle")

\* Mutant of validateName: an entry is compared with the one above it only.
validateNameAdjacent(entries, k) ==
  IF ~validName(entries[k].name) THEN {"name"}
  ELSE When(k > 1 /\ entries[k-1].name = entries[k].name, "duplicate")

\* A name is refused when it is illegal or taken by an entry above it.
validateName(entries, k) ==
  IF ~validName(entries[k].name) THEN {"name"}
  ELSE When(\E j \in 1 .. k - 1 : entries[j].name = entries[k].name, "duplicate")

validateRule(rules, k) ==
  LET r == rules[k]
  IN  validateName(rules, k)
      \cup validateMatch(r.match)
      \cup validateWindow(r.window)
      \cup When(r.rate # Nil /\ (r.rate < 0 \/ r.rate > RateScale), "rate")
      \cup validateFault(r.fault)

\* An address is refused when a proxy above it has it, unless the system
\* picks the port.
validateListen(proxies, k) ==
  LET l == proxies[k].listen
  IN  IF l = Nil \/ ~l.hostport THEN {"listen"}
      ELSE IF ~l.host THEN {"host"}
      ELSE When(/\ ~l.anyPort
                /\ \E j \in 1 .. k - 1 : proxies[j].listen = l, "taken")

validateUpstream(u) ==
  IF u = Nil \/ ~u.url THEN {"upstream"}
  ELSE When(~u.http, "scheme") \cup When(~u.host, "host") \cup When(~u.bare, "query")

Validate(s) ==
  When(s.version # 1, "version")
  \cup When(s.proxies = <<>>, "proxies")
  \cup UNION {validateName(s.proxies, k)
              \cup validateListen(s.proxies, k)
              \cup validateUpstream(s.proxies[k].upstream)
              \cup UNION {validateRule(s.proxies[k].rules, i) :
                            i \in DOMAIN s.proxies[k].rules} :
                k \in DOMAIN s.proxies}
=============================================================================
