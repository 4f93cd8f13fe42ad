-------------------------------- MODULE Limiter --------------------------------
(***************************************************************************)
(* A limiter of index.js: the same axis of a joystick shown by the views   *)
(* of one control, dragged here and moved by the server. What a user drags *)
(* goes to the joystick and from there, with its own timers, to the other  *)
(* views; the view that set an axis is its owner and is not written back.  *)
(* One axis; a joystick sends its whole state.                             *)
(***************************************************************************)
EXTENDS Integers, FiniteSets

CONSTANTS Views, Joysticks, Top, MaxSteps

Values == 0..Top
Mid == Top \div 2            \* 1024: where a joystick begins, and a reset puts it

(* Owners that are no view: nobody, and a widget that was freed.           *)
Nobody == "nobody"
Gone == "gone"

LimiterAssumption == Top \in Nat /\ Nobody \notin Views /\ Gone \notin Views

VARIABLES
  js,         \* per joystick: its axis, the axis' owner, and whether sendState is due
  uses,       \* joystick-id of the control
  installed,  \* joystickChangeHandler is attached to it
  net,        \* netValues and valueOwners
  view,       \* per view, see Dead
  gone,       \* values whose timer outlived their widget
  animating,  \* widgetsAnimating
  list,       \* widgetsSyncList
  stale,      \* mustUpdateSyncList
  due,        \* syncRequest
  shut,       \* disabled
  steps,
  skipped,    \* history: views that were held when they should be synchronised
  kept        \* history: owners when their joystick was reset, or when they
              \* were written with what netValues was before they moved the axis,
              \* or when the control came back to a joystick before its send

limVars == <<js, uses, installed, net, view, gone, animating, list, stale, due, shut,
             steps, skipped, kept>>

(* "later" is the timer of updateValue(..., async).                        *)
Dead == [live |-> FALSE, asleep |-> TRUE, value |-> 0, held |-> FALSE, later |-> FALSE]

Init ==
  /\ js = [j \in Joysticks |-> [axis |-> Mid, owner |-> Nobody, op |-> FALSE]]
  /\ uses \in Joysticks
  /\ installed = FALSE
  /\ net = [value |-> 0, owner |-> Nobody]
  /\ view = [v \in Views |-> Dead]
  /\ gone = {} /\ animating = 0 /\ list = {} /\ stale = FALSE /\ due = FALSE
  /\ shut = FALSE
  /\ steps = 0 /\ skipped = {} /\ kept = {}

Step == steps < MaxSteps /\ steps' = steps + 1

-----------------------------------------------------------------------------
(* resync(): one request at a time, and only while a widget moves.         *)
(* Mutant: not even when one is woken.                                     *)
ResyncNever(count) == UNCHANGED due
Resync(count) == due' = (due \/ count > 0)

(* updateWidgetsSyncList.                                                  *)
Listed == {v \in Views : view[v].live /\ ~view[v].asleep}

Passed(L) == {v \in L : view[v].held /\ view[v].value # net.value}
Written(L) == {v \in L : ~view[v].held /\ net.owner # v}

(* The view for whose axis a sendState is due.                             *)
Sending(j) == {v \in Views : js[j].owner = v /\ js[j].op}

(* sync(): what differs from the axis and is neither held nor the owner is *)
(* written, silently. While controls are locked it does nothing.           *)
Sync ==
  LET L == IF stale THEN Listed ELSE list
  IN /\ due
     /\ due' = FALSE
     /\ IF shut THEN UNCHANGED <<list, stale, view, skipped, kept>>
        ELSE /\ list' = L /\ stale' = FALSE
             /\ view' = [v \in Views |-> IF v \in Written(L)
                                         THEN [view[v] EXCEPT !.value = net.value] ELSE view[v]]
             /\ skipped' = (skipped \ Written(L)) \union Passed(L)
             /\ kept' = (kept \ Written(L)) \union (Written(L) \intersect Sending(uses))
     /\ UNCHANGED <<js, uses, installed, net, gone, animating, shut, steps>>

-----------------------------------------------------------------------------
(* The joystick.                                                           *)

(* setAxis, then the owner; one sendState is due in 20 ms.                 *)
SetAxis(o, x) == js' = [js EXCEPT ![uses] = [axis |-> x, owner |-> o, op |-> TRUE]]

(* dispatchEvent("change"): the handler, if it is attached to joystick j.  *)
Heard(j, state) ==
  IF installed /\ uses = j
  THEN net' = [value |-> state.axis, owner |-> state.owner] /\ Resync(animating)
  ELSE UNCHANGED <<net, due>>

Changed(j, state) == js' = [js EXCEPT ![j] = state] /\ Heard(j, state)

SendState(j) ==
  /\ js[j].op
  /\ Changed(j, [js[j] EXCEPT !.op = FALSE])
  /\ UNCHANGED <<uses, installed, view, gone, animating, list, stale, shut, steps, skipped, kept>>

(* fromBuffer: the state of another client, which nobody here owns.        *)
FromBuffer(j, x) == [js[j] EXCEPT !.axis = x, !.owner = Nobody]

Receive(j, x) ==
  /\ Step
  /\ Changed(j, FromBuffer(j, x))
  /\ UNCHANGED <<uses, installed, view, gone, animating, list, stale, shut, skipped, kept>>

(* resetClientState: the axes of both go to the middle, the owners stay.   *)
Reset(j) ==
  /\ Step
  /\ Changed(j, [js[j] EXCEPT !.axis = Mid])
  /\ kept' = kept \union ({js[j].owner} \intersect Views)
  /\ UNCHANGED <<uses, installed, view, gone, animating, list, stale, shut, skipped>>

(* The attribute is set in edit mode, which locks controls.                *)
ChangeJoystick(j) ==
  /\ Step /\ j # uses /\ shut
  /\ uses' = j
  /\ (IF installed THEN net' = [value |-> js[j].axis, owner |-> Nobody] /\ Resync(animating)
      ELSE UNCHANGED <<net, due>>)
  /\ kept' = kept \union Sending(j)
  /\ UNCHANGED <<js, installed, view, gone, animating, list, stale, shut, skipped>>

-----------------------------------------------------------------------------
(* The life of the views (see Widgets.tla): the first one that is built    *)
(* attaches the handler, the last one that is freed detaches it.           *)

Built(v, woken) ==
  /\ Step /\ ~view[v].live
  /\ view' = [view EXCEPT ![v] = [Dead EXCEPT !.live = TRUE, !.asleep = ~woken]]
  /\ installed' = TRUE
  /\ net' = IF installed THEN net ELSE [net EXCEPT !.value = js[uses].axis]
  /\ animating' = animating + (IF woken THEN 1 ELSE 0)
  /\ stale' = TRUE
  /\ Resync(animating')
  /\ skipped' = skipped \ {v} /\ kept' = kept \ {v}
  /\ UNCHANGED <<js, uses, gone, list, shut>>

(* widgetAnimate and widgetSuspend.                                        *)
Wake(v) ==
  /\ Step /\ view[v].live /\ view[v].asleep
  /\ view' = [view EXCEPT ![v].asleep = FALSE]
  /\ animating' = animating + 1
  /\ stale' = TRUE
  /\ Resync(animating')
  /\ UNCHANGED <<js, uses, installed, net, gone, list, shut, skipped, kept>>

Sleep(v) ==
  /\ Step /\ view[v].live /\ ~view[v].asleep
  /\ view' = [view EXCEPT ![v].asleep = TRUE]
  /\ animating' = animating - 1
  /\ stale' = TRUE
  /\ UNCHANGED <<js, uses, installed, net, gone, list, due, shut, skipped, kept>>

(* widgetDeactivate; it does not count the widget out of widgetsAnimating. *)
(* What the axes' owners are mapped to is dropped, so that the freed       *)
(* widget stays their owner.                                               *)
Disown(o, v) == IF o = v THEN Gone ELSE o

Freed(v) ==
  /\ Step /\ view[v].live
  /\ view' = [view EXCEPT ![v] = Dead]
  /\ gone' = gone \union (IF view[v].later THEN {view[v].value} ELSE {})
  /\ js' = [j \in Joysticks |-> [js[j] EXCEPT !.owner = Disown(@, v)]]
  /\ net' = [net EXCEPT !.owner = Disown(@, v)]
  /\ installed' = (\E u \in Views \ {v} : view[u].live)
  /\ stale' = TRUE
  /\ UNCHANGED <<uses, animating, list, due, shut, skipped, kept>>

Shut ==
  /\ Step
  /\ shut' = ~shut
  /\ (IF shut THEN Resync(animating) ELSE UNCHANGED due)
  /\ UNCHANGED <<js, uses, installed, net, view, gone, animating, list, stale, skipped, kept>>

-----------------------------------------------------------------------------
(* The finger: a head is held, moved and let go; every value it takes is   *)
(* told later, the one it is left with at once, if it differs.             *)

Grab(v) ==
  /\ Step /\ view[v].live /\ ~shut /\ ~view[v].held
  /\ view' = [view EXCEPT ![v].held = TRUE]
  /\ UNCHANGED <<js, uses, installed, net, gone, animating, list, stale, due, shut, skipped, kept>>

Drag(v, x) ==
  /\ Step /\ view[v].held /\ ~shut /\ view[v].value # x
  /\ view' = [view EXCEPT ![v].value = x, ![v].later = TRUE]
  /\ skipped' = skipped \ {v} /\ kept' = kept \ {v}
  /\ UNCHANGED <<js, uses, installed, net, gone, animating, list, stale, due, shut>>

Drop(v, x) ==
  /\ Step /\ view[v].held /\ ~shut
  /\ IF view[v].value = x
     THEN view' = [view EXCEPT ![v].held = FALSE] /\ UNCHANGED <<js, skipped, kept>>
     ELSE /\ view' = [view EXCEPT ![v].held = FALSE, ![v].value = x, ![v].later = FALSE]
          /\ SetAxis(v, x)
          /\ skipped' = skipped \ {v} /\ kept' = kept \ {v}
  /\ UNCHANGED <<uses, installed, net, gone, animating, list, stale, due, shut>>

Told(v) ==
  /\ view[v].later
  /\ view' = [view EXCEPT ![v].later = FALSE]
  /\ SetAxis(v, view[v].value)
  /\ UNCHANGED <<uses, installed, net, gone, animating, list, stale, due, shut, steps, skipped, kept>>

ToldByGone(x) ==
  /\ gone' = gone \ {x}
  /\ SetAxis(Gone, x)
  /\ UNCHANGED <<uses, installed, net, view, animating, list, stale, due, shut, steps, skipped, kept>>

Next ==
  \/ Sync \/ Shut
  \/ \E j \in Joysticks : SendState(j) \/ Reset(j) \/ ChangeJoystick(j)
                          \/ (\E x \in Values : Receive(j, x))
  \/ \E v \in Views : Wake(v) \/ Sleep(v) \/ Freed(v) \/ Grab(v) \/ Told(v)
                      \/ (\E b \in BOOLEAN : Built(v, b))
                      \/ (\E x \in Values : Drag(v, x) \/ Drop(v, x))
  \/ \E x \in gone : ToldByGone(x)

Spec == Init /\ [][Next]_limVars

-----------------------------------------------------------------------------
Quiet ==
  /\ ~due /\ ~shut /\ gone = {} /\ ~js[uses].op
  /\ \A v \in Views : ~view[v].later

(* When nothing is due, every view that is shown and not held shows the    *)
(* axis of the joystick, whoever moved it: this view, another one, another *)
(* client, or a change of joystick while views slept and woke. Exceptions: *)
(* a view let go, unmoved, after a change passed it by, and the owner of   *)
(* an axis that is reset, or synchronised, or left by the control and come *)
(* back to, within the 20 ms of its send.                                  *)
ShowsAxis ==
  Quiet => \A v \in Views : (view[v].live /\ ~view[v].asleep /\ ~view[v].held
                             /\ v \notin skipped \union kept) => view[v].value = js[uses].axis
=============================================================================
