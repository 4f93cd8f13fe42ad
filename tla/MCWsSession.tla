---------------------------- MODULE MCWsSession ----------------------------
(***************************************************************************)
(* WsSession with model values for sessions, sockets and tasks.            *)
(***************************************************************************)
EXTENDS WsSession
=============================================================================
