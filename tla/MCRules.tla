------------------------------ MODULE MCRules ------------------------------
(***************************************************************************)
(* Values for the model checker: a menu of rules with the draws slowlane   *)
(* makes for them (seed 42, proxy "api"; the counters 4090 to 4095 stand   *)
(* for the last six of a uint64), and the request shapes they tell apart.  *)
(* An int64 is scaled down to 12 bits and a millisecond to 10 units, so    *)
(* that the sum of two delays of the menu overflows.                       *)
(***************************************************************************)
EXTENDS Scenario

MCToUpper(m) == IF m = "post" THEN "POST" ELSE m
MCCanonical(h) == IF h = "x-user" THEN "X-User" ELSE h
MCValidName(name) == name \notin {"", "Slow"}
MCIsMethod(m) == m \notin {"", "GE T"}

\* The draws of a rule out of RateScale, for the counters 0 to 8 and the last
\* six, the ones that the runs reach; MCFunctions computes them.
LastCounter == 4095
Reached == 0 .. 8 \cup LastCounter - 5 .. LastCounter
Index(n) == IF n <= 8 THEN n + 1 ELSE n - LastCounter + 15

BrownoutRate ==
  <<878146, 770628, 368948, 835712, 68416, 61332, 82258, 311480, 197625,
    958270, 83719, 891324, 888916, 971714, 341988>>
SlowJitter ==
  <<758707, 643418, 786151, 428591, 211374, 845003, 522719, 843969, 570268,
    745501, 954442, 396841, 493292, 117161, 766430>>
FlakyRate ==
  <<90223, 152784, 652004, 142589, 244229, 689763, 1143, 850750, 479626,
    470192, 889029, 395059, 346305, 57356, 321745>>
FlakyJitter ==
  <<783751, 71635, 617428, 646127, 317195, 262477, 288741, 162474, 746109,
    602197, 779319, 519593, 915336, 962307, 180176>>

\* TLC looks at draws that are not made, too: a rule with rate 1 makes none.
MCDraw(rule, purpose, n) ==
  CASE n \notin Reached                           -> 0
    [] <<rule, purpose>> = <<"brownout", "rate">> -> BrownoutRate[Index(n)]
    [] <<rule, purpose>> = <<"slow", "jitter">>   -> SlowJitter[Index(n)]
    [] <<rule, purpose>> = <<"flaky", "rate">>    -> FlakyRate[Index(n)]
    [] <<rule, purpose>> = <<"flaky", "jitter">>  -> FlakyJitter[Index(n)]
    [] OTHER                                      -> 0

Get  == [method |-> "GET",  path |-> << <<>>, <<"a">> >>,
         header |-> [h \in {"X-User"} |-> <<"bob", "amy">>]]
Post == [method |-> "post", path |-> << <<>>, <<"a">>, <<"b">> >>,
         header |-> [h \in {} |-> <<>>]]

NoFault == [delay_ms |-> 0, jitter_ms |-> 0, status |-> 0, body |-> FALSE,
            drop |-> FALSE, throttle_bps |-> 0]
Always(name, fault) ==
  [name |-> name, match |-> Nil, window |-> Nil, rate |-> Nil, fault |-> fault]
NoMatch == [methods |-> <<>>, path |-> << <<>> >>, headers |-> [h \in {} |-> ""]]

Slow     == Always("slow", [NoFault EXCEPT !.delay_ms = 30, !.jitter_ms = 100])
Lag      == [Always("lag", [NoFault EXCEPT !.delay_ms = 120])
               EXCEPT !.window = [from |-> 2, to |-> 0, every |-> 0]]
Drip     == Always("drip", [NoFault EXCEPT !.throttle_bps = 50])
Trickle  == [Always("trickle", [NoFault EXCEPT !.throttle_bps = 10, !.delay_ms = 5])
               EXCEPT !.window = [from |-> 0, to |-> 3, every |-> 2]]
Brownout == [Always("brownout", [NoFault EXCEPT !.status = 503, !.body = TRUE])
               EXCEPT !.rate = 400000]
Outage   == [Always("outage", [NoFault EXCEPT !.status = 500, !.delay_ms = 10])
               EXCEPT !.match = [NoMatch EXCEPT !.headers = [h \in {"x-user"} |-> "amy"]]]
Cut      == [Always("cut", [NoFault EXCEPT !.drop = TRUE])
               EXCEPT !.match = [NoMatch EXCEPT !.methods = <<"post">>]]
Flaky    == [Always("flaky", [NoFault EXCEPT !.drop = TRUE, !.jitter_ms = 40])
               EXCEPT !.rate = 652004,
                      !.match = [NoMatch EXCEPT !.path = << <<>>, <<"*", "*">>, <<"b">> >>]]
Never    == [Always("never", [NoFault EXCEPT !.status = 429]) EXCEPT !.rate = 0]

Hints    == [Always("hints", [NoFault EXCEPT !.status = 103])
               EXCEPT !.window = [from |-> 3, to |-> 0, every |-> 1]]

Menu == {Slow, Lag, Drip, Trickle, Brownout, Outage, Cut, Flaky, Never}

\* What Parse makes of a list of rules that Validate accepts.
Loaded(list) == [k \in DOMAIN list |-> normalize(list[k])]
=============================================================================
