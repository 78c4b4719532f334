--------------------------- MODULE MCProxyServer ---------------------------
(***************************************************************************)
(* The data plane with the decisions of the engine: three requests of two  *)
(* shapes, and rules under which what a request gets depends on its number *)
(* and on its shape: a delay and a throttle on 1 and 3, a 503 on 2, a 103  *)
(* from 3 on, and a drop, delayed or not, for every POST.                  *)
(***************************************************************************)
EXTENDS ProxyServer, MCRules

CONSTANTS Draw(_, _, _), HalfWord, Millisecond
CONSTANTS r1, r2, r3        \* requests; r2 is the POST

E == INSTANCE Engine

ShapeOf(r) == IF r = r2 THEN Post ELSE Get

MCRuleset == Loaded(<<Trickle, Cut, Brownout, Hints>>)

MCTable ==
  [k \in 1 .. MaxCounter, r \in Requests |-> E!Decide(MCRuleset, k, ShapeOf(r))]
MCPlanned(k, r) == MCTable[k, r]
=============================================================================
