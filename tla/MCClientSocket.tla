---------------------------- MODULE MCClientSocket ----------------------------
(***************************************************************************)
(* ClientSocket with three names: two sockets after a recovery from sleep, *)
(* and one for the connection that replaces either.                        *)
(***************************************************************************)
EXTENDS ClientSocket

CONSTANTS w1, w2, w3

MCSockets == {w1, w2, w3}
=============================================================================
