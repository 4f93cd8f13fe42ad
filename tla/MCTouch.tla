------------------------------ MODULE MCTouch ------------------------------
(***************************************************************************)
(* What fingers do, and what is drawn under them: the handlers of controls *)
(* (Gestures, extended), the shield and the pads, the life of the widgets  *)
(* that hold these, the limiter that shows the joystick's axes, and the    *)
(* overlay behind a page (instances). They share no state and no two of    *)
(* them see the same finger, so that each behaviour is one of them.        *)
(* Gestures has a double tap within 2 ticks, a long one after 4, and       *)
(* timers up to 2 ticks late: late enough for a tap to overtake the timer  *)
(* of the tap before it.                                                   *)
(***************************************************************************)
EXTENDS Gestures

CONSTANTS Thumbs, Vectors, Reserved, NoVector, MaxInputs, \* of the shield
          Fingers, PadCount, Full, Reach, MaxEvents,      \* of the pads
          MaxWidgets, MaxMoves,                           \* of the widgets
          Views, Joysticks, Top, MaxSteps,                \* of the limiter
          Pages, Nothing, MaxActs                         \* of the overlay

(* Fingers are named by anything but 0, which stands for none of them.     *)
ASSUME PadsAssumption == 0 \notin Fingers /\ PadCount \in Nat /\ Full \in Nat

VARIABLES open, touching, resting, timer, selecting, first, pressed, complete, chain, last,
          inputs, broken, renewed,
          policy, heard, padDown, at, pads, activations, keys, events, padStrayed, padRenewed,
          active, asleep, shut, made, widget, flushes, moves, hasty,
          js, uses, installed, net, view, gone, animating, list, stale, due, limShut, steps,
          skipped, kept,
          shape, route, goal, editing, reworks, configured, cache, asked, working, wait, pair, tasks,
          handle, dropped, shown, acts, reused, failed,
          part  \* which of the six this behaviour is about

Shield == INSTANCE Shield WITH None <- NoVector
Pads == INSTANCE Pads WITH down <- padDown, strayed <- padStrayed, renewed <- padRenewed
Widgets == INSTANCE Widgets
Limiter == INSTANCE Limiter WITH shut <- limShut
Overlay == INSTANCE Overlay

ASSUME CanvasAssumption ==
  Widgets!WidgetsAssumption /\ Limiter!LimiterAssumption /\ Overlay!OverlayAssumption

shieldVars == <<open, touching, resting, timer, selecting, first, pressed, complete, chain,
                last, inputs, broken, renewed>>
padVars == <<policy, heard, padDown, at, pads, activations, keys, events, padStrayed, padRenewed>>
widVars == <<active, asleep, shut, made, widget, flushes, moves, hasty>>
limVars == <<js, uses, installed, net, view, gone, animating, list, stale, due, limShut,
             steps, skipped, kept>>
ovVars == <<shape, route, goal, editing, reworks, configured, cache, asked, working, wait, pair, tasks,
            handle, dropped, shown, acts, reused, failed>>
canvasVars == <<widVars, limVars, ovVars>>
touchVars == <<vars, shieldVars, padVars, canvasVars, part>>

TouchInit ==
  /\ Init /\ Shield!Init /\ Pads!Init /\ Widgets!Init /\ Limiter!Init /\ Overlay!Init
  /\ part \in {"gestures", "shield", "pads", "widgets", "limiter", "overlay"}
  /\ part # "gestures" => kind = "control" /\ input = "touch"  \* idle parts start one way
  /\ part # "pads" => policy = "release"
  /\ part # "widgets" => ~shut
  /\ part # "limiter" => uses = CHOOSE j \in Joysticks : TRUE
  /\ part # "overlay" => route = CHOOSE p \in Pages : TRUE

TouchNext ==
  \/ part = "gestures" /\ Next /\ UNCHANGED <<shieldVars, padVars, canvasVars, part>>
  \/ part = "shield" /\ Shield!Next /\ UNCHANGED <<vars, padVars, canvasVars, part>>
  \/ part = "pads" /\ Pads!Next /\ UNCHANGED <<vars, shieldVars, canvasVars, part>>
  \/ part = "widgets" /\ Widgets!Next /\ UNCHANGED <<vars, shieldVars, padVars, limVars, ovVars, part>>
  \/ part = "limiter" /\ Limiter!Next /\ UNCHANGED <<vars, shieldVars, padVars, widVars, ovVars, part>>
  \/ part = "overlay" /\ Overlay!Next /\ UNCHANGED <<vars, shieldVars, padVars, widVars, limVars, part>>

TouchSpec == TouchInit /\ [][TouchNext]_touchVars

(* Shield, Pads, Widgets, Limiter and Overlay: see there.                  *)
ShieldHolds == Shield!ShieldHolds
PadsHold == Pads!PadsHold
WidgetsFollow == Widgets!WidgetsFollow
ShowsAxis == Limiter!ShowsAxis
ShownIsCurrent == Overlay!ShownIsCurrent
=============================================================================
