-------------------------------- MODULE MCWebapp --------------------------------
(***************************************************************************)
(* Webapp for TLC: p1 is the administrator's page, p2 sends one request.   *)
(***************************************************************************)
EXTENDS Webapp

CONSTANTS p1, p2, AdminClicks

Clicks == [p \in Page |-> IF p = Admin THEN AdminClicks ELSE 1]
=============================================================================
