-------------------------- MODULE SessionLifecycle --------------------------
(***************************************************************************)
(* What the session manager promises its users, without slots, locks,      *)
(* clocks or identifiers: every session object goes through its life once, *)
(* and the server hears of the end of every one of them.                   *)
(*                                                                         *)
(*    unmade --> open --> removed --> closed                               *)
(*       \__________________/                                              *)
(*                                                                         *)
(* A session that cannot be placed is removed as soon as it is made.       *)
(***************************************************************************)
EXTENDS Integers, FiniteSets

CONSTANTS
  Sessions,   \* the session objects there can be
  Capacity    \* sessions that can be open at once

VARIABLE stage

Stages == {"unmade", "open", "removed", "closed"}

At(s) == {x \in Sessions : stage[x] = s}

Move(S, to) == stage' = [x \in Sessions |-> IF x \in S THEN to ELSE stage[x]]

Init == stage = [x \in Sessions |-> "unmade"]

(* A session is opened, perhaps in the place of one whose time is over.    *)
Open ==
  \E x \in At("unmade"), S \in SUBSET At("open") :
    /\ Cardinality(S) <= 1
    /\ Cardinality(At("open") \ S) < Capacity
    /\ stage' = [y \in Sessions |-> IF y = x THEN "open"
                                    ELSE IF y \in S THEN "removed"
                                    ELSE stage[y]]

(* A session is made and turned down.                                      *)
Reject == \E x \in At("unmade") : Move({x}, "removed")

(* Sessions leave: one that ends, or all that a collection finds expired.  *)
Remove == \E S \in SUBSET At("open") : S # {} /\ Move(S, "removed")

(* The end of a session that was removed is announced.                     *)
Announce == \E x \in At("removed") : Move({x}, "closed")

Next == Open \/ Reject \/ Remove \/ Announce

Spec == Init /\ [][Next]_stage
=============================================================================
