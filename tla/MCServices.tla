----------------------------- MODULE MCServices -----------------------------
(***************************************************************************)
(* Two services of the board that share no state: the scheduler (extended) *)
(* and the control map (an instance). Each behaviour is one of them.       *)
(***************************************************************************)
EXTENDS Scheduler

CONSTANTS gc, kb, none, light, shield, limiter,
          Controls, Values, Empty, Steep   \* of the map

MCTags      == {gc, kb}
MCIntervals == {3}
MCRepeats   == {-1, 2}
MCControls  == {light, shield, limiter}
MCValues    == {"switched-on", "switched-2", "switched-3"}

VARIABLES m, v, threshold, given, overrun,
          part  \* which of the two this behaviour is about

CtrlMap == INSTANCE CtrlMap

ASSUME ServicesAssumption == CtrlMap!MapAssumption

mapVars == <<m, v, threshold, given, overrun>>
serviceVars == <<vars, mapVars, part>>

ServicesInit == Init /\ CtrlMap!Init /\ part \in {"scheduler", "map"}

ServicesNext ==
  \/ part = "scheduler" /\ Next /\ UNCHANGED <<mapVars, part>>
  \/ part = "map" /\ CtrlMap!Next /\ UNCHANGED <<vars, part>>

(* Scheduler's fairness, of the behaviours that are about it.              *)
ServicesSpec ==
  /\ ServicesInit /\ [][ServicesNext]_serviceVars
  /\ WF_vars(part = "scheduler" /\ TaskStep) /\ WF_vars(part = "scheduler" /\ Tick)

(* CtrlMap: see there.                                                     *)
MapHolds == CtrlMap!MapHolds
=============================================================================
