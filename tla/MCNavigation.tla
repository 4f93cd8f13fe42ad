---------------------------- MODULE MCNavigation ----------------------------
(***************************************************************************)
(* Navigation over a screen of three pages and a screen of one, to which   *)
(* two addresses lead.                                                     *)
(***************************************************************************)
EXTENDS Navigation

MCPage == {"a", "b", "c", "d"}
MCPath == MCPage \union {"alias"}
MCLead == [p \in MCPath |-> IF p = "alias" THEN "d" ELSE p]
MCScreenOf == [p \in MCPage |-> IF p = "d" THEN <<"d">> ELSE <<"a", "b", "c">>]
=============================================================================
