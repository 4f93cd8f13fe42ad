-------------------------- MODULE MCSessionManager --------------------------
(***************************************************************************)
(* SessionManager on small instances.                                      *)
(***************************************************************************)
EXTENDS SessionManager

CONSTANTS s1, s2, gc, httpd

MCSids       == {s1, s2}
MCCollectors == {gc}
=============================================================================
