--------------------------- MODULE FaultContract ---------------------------
(***************************************************************************)
(* What slowlane promises of a proxy, without handlers, connections or an  *)
(* upstream: a request takes the next number, and then, in any order with  *)
(* the others, it is settled once and for all as the plan's decision for   *)
(* this number and this request says, the delay having been served.  A     *)
(* restart starts the plan over and forgets what is not settled.           *)
(*                                                                         *)
(* An abstraction of Server.counter, Decide and the outcomes of ServeHTTP. *)
(***************************************************************************)
EXTENDS Naturals

CONSTANTS Requests,         \* the requests, each made once
          Planned(_, _),     \* the plan: a decision for a number and a request
          MaxCounter        \* bound: requests between two restarts

VARIABLES taken,     \* the numbers taken since the last restart: 1 .. taken
          number,    \* the number of a request, 0 before
          outcome,   \* what became of a request
          waited     \* for how long it was delayed

vars == <<taken, number, outcome, waited>>

Pending == "pending"
Lost    == "lost"

Init ==
  /\ taken = 0
  /\ number = [r \in Requests |-> 0]
  /\ outcome = [r \in Requests |-> Pending]
  /\ waited = [r \in Requests |-> 0]

Take(r) ==
  /\ number[r] = 0
  /\ outcome[r] = Pending
  /\ taken < MaxCounter
  /\ taken' = taken + 1
  /\ number' = [number EXCEPT ![r] = taken + 1]
  /\ UNCHANGED <<outcome, waited>>

\* The delay may be served well before the outcome shows.
Wait(r) ==
  /\ number[r] # 0
  /\ outcome[r] = Pending
  /\ waited[r] = 0
  /\ waited' = [waited EXCEPT ![r] = Planned(number[r], r).delay]
  /\ UNCHANGED <<taken, number, outcome>>

\* What a decision allows: a drop severs, a status is injected, and anything
\* else goes to the upstream, which answers or cannot be reached.
Allowed(d) ==
  IF d.drop THEN {"severed"}
  ELSE IF d.status # 0 THEN {"injected"}
  ELSE {"relayed", "unreachable"}

Settle(r) ==
  /\ number[r] # 0
  /\ outcome[r] = Pending
  /\ waited[r] = Planned(number[r], r).delay
  /\ \E o \in Allowed(Planned(number[r], r)) : outcome' = [outcome EXCEPT ![r] = o]
  /\ UNCHANGED <<taken, number, waited>>

Restart ==
  /\ taken' = 0
  /\ \E forgotten \in SUBSET {r \in Requests : number[r] = 0} :
       outcome' = [r \in Requests |->
                     IF outcome[r] = Pending /\ (number[r] # 0 \/ r \in forgotten)
                     THEN Lost ELSE outcome[r]]
  /\ UNCHANGED <<number, waited>>

Next == Restart \/ \E r \in Requests : Take(r) \/ Wait(r) \/ Settle(r)

Spec == Init /\ [][Next]_vars
=============================================================================
