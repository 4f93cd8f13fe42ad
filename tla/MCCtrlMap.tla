------------------------------ MODULE MCCtrlMap ------------------------------
(***************************************************************************)
(* CtrlMap with two controls, and with three.                              *)
(***************************************************************************)
EXTENDS CtrlMap

CONSTANTS light, shield, limiter, empty

MCControls == {light, shield}
MCThree    == {light, shield, limiter}
MCValues   == {"switched-on", "switched-2", "switched-3"}
=============================================================================
