------------------------- MODULE MCThrottledWriter -------------------------
(***************************************************************************)
(* Deliveries for the throttled copy: any, or five bytes at a time.        *)
(***************************************************************************)
EXTENDS ThrottledWriter

AnyDelivery(rate, rest) == 1 .. rest

Fives(rate, rest) == {IF rest < 5 THEN rest ELSE 5}
=============================================================================
