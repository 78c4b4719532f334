----------------------------- MODULE MCPlanLoop -----------------------------
(***************************************************************************)
(* Plans under every list of at most MaxRules distinct rules of the menu,  *)
(* for two requests, at the start of the counter and across its end.       *)
(***************************************************************************)
EXTENDS PlanLoop, MCRules

CONSTANT MaxRules       \* bound: rules of a proxy

MCRuleLists ==
  {Loaded(s) : s \in {t \in UNION {[1 .. k -> Menu] : k \in 0 .. MaxRules} :
                       IsInjective(t)}}

AskGet  == [method |-> "GET", path |-> Get.path,
            headers |-> <<[name |-> "X-User", value |-> "bob"],
                          [name |-> "x-user", value |-> "amy"]>>]
AskPost == [method |-> "post", path |-> Post.path, headers |-> <<>>]
MCAsks == {AskGet, AskPost}
MCShapes == {PlanShape(ask) : ask \in Asks}

\* A rule for one virtual host, and a request for it.
Virtual == [Always("virtual", [NoFault EXCEPT !.status = 503])
              EXCEPT !.match = [NoMatch EXCEPT !.headers = [h \in {"Host"} |-> "amy"]]]
HostRuleLists == MCRuleLists \cup {Loaded(<<Virtual>>)}
AskHost == [AskGet EXCEPT !.headers = <<[name |-> "Host", value |-> "amy"]>>]
HostAsks == {AskGet, AskHost}

\* The menu is made of rules a scenario file may have.
ASSUME MenuIsValid == \A r \in Menu \cup {Virtual} : validateRule(<<r>>, 1) = {}
=============================================================================
