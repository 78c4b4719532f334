---------------------------- MODULE MCRunCommand ----------------------------
(***************************************************************************)
(* Two proxies; requests a and b to the first, c to the second; b drops.   *)
(***************************************************************************)
EXTENDS RunCommand

CONSTANTS a, b, c
MCProxyOf(r) == IF r = c THEN 2 ELSE 1
=============================================================================
