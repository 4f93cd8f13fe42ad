---------------------------------- MODULE Pads ----------------------------------
(***************************************************************************)
(* A row of pads on one canvas, each with a head that fingers drag: the    *)
(* events of the canvas (PDSWidgetsPad), the head of a pad (PDSWidgetHead) *)
(* and what listens to it.  With policy "release" (PDSControlWidget) a     *)
(* full push presses a key and the head returns to 0; with "change" (the   *)
(* limiters) the value follows the finger.                                 *)
(***************************************************************************)
EXTENDS Integers, FiniteSets

CONSTANTS
  Fingers,     \* identifiers of touches, "mouse" would be one more
  PadCount,
  Full,        \* the values are -Full..Full, a key takes the whole way
  Reach,       \* how far from the head it can be caught
  MaxEvents

VARIABLES
  policy,      \* changeEventPolicy
  heard,       \* the handlers are on the canvas: controls are not locked
  down,        \* the finger is on the screen, and came down on the canvas
  at,          \* touchToWidgetIndex
  pads,
  activations, \* pad.activataions: while positive, touches do not reach the page
  keys,        \* keys pressed so far
  events,      \* events so far
  strayed,     \* history: fingers that went straight from the pad they held
               \* to its neighbour, or held one when controls were locked
  renewed      \* history: a refresh replaced a head that was held

padVars == <<policy, heard, down, at, pads, activations, keys, events, strayed, renewed>>

Values == -Full..Full
Pads == 1..PadCount
None == 0                          \* no pad, no finger

(* "render" is _renderValue, which the next frames bring to the value when *)
(* the "update" transition is attached (glides); "body" is where the head  *)
(* can be caught; "back" is the timer that puts the body to the render     *)
(* value; "hold" is lockIdentifyer; "shown" a push of somebody else.       *)
Head(v) == [value |-> v, render |-> 0, body |-> v, hold |-> None, glides |-> v # 0,
            back |-> FALSE, shown |-> FALSE, pressed |-> 0]

Init ==
  /\ policy \in {"release", "change"}
  /\ heard = TRUE
  /\ down = [f \in Fingers |-> FALSE]
  /\ at = [f \in Fingers |-> None]
  /\ pads = [p \in Pads |-> Head(0)]
  /\ activations = 0 /\ keys = 0 /\ events = 0
  /\ strayed = {} /\ renewed = FALSE

-----------------------------------------------------------------------------
(* The head.                                                               *)

Held(h) == h.hold # None

(* The listener of PDSControlWidget presses a key for a full push and puts *)
(* the value back, which attaches the transition.                          *)
Change(h, v) ==
  IF v = 0 THEN [h EXCEPT !.value = 0, !.body = 0]
  ELSE [h EXCEPT !.value = 0, !.body = 0, !.glides = TRUE,
                 !.pressed = @ + (IF v \in {-Full, Full} THEN 1 ELSE 0)]

(* updateValue; what a limiter tells of it, and when, is in Limiter.tla.   *)
UpdateValue(h, v) ==
  IF h.value = v THEN h
  ELSE IF policy = "release" THEN Change(h, v) ELSE [h EXCEPT !.value = v, !.body = v]

(* The lock goes first, and then the value.                                *)
Release(h, v) == UpdateValue([h EXCEPT !.hold = None, !.back = TRUE], v)

Caught(h, here, y) == here /\ y >= h.body - Reach /\ y <= h.body + Reach

(* applyEvent: "here" says that the event lies in the box of the pad. A    *)
(* head that is held by another finger ignores it, one that is not caught  *)
(* and not held in its box lets go.                                        *)
Apply(h, f, type, here, y) ==
  CASE Held(h) /\ h.hold # f -> h
    [] (~Held(h) \/ h.hold = f) /\ ~Caught(h, here, y) /\ ~(Held(h) /\ here) ->
         IF Held(h) THEN Release(h, h.render) ELSE h
    [] OTHER ->
         CASE type \in {"leave", "touchcancel"} /\ Held(h) -> Release(h, h.render)
           [] type = "touchend" /\ Held(h) -> Release([h EXCEPT !.render = y], y)
           [] type = "touchstart" -> [h EXCEPT !.hold = f, !.glides = FALSE, !.render = y, !.body = y]
           [] type = "touchmove" /\ Held(h) ->
                IF policy = "change" THEN UpdateValue([h EXCEPT !.render = y], y)
                ELSE [h EXCEPT !.render = y, !.body = y]
           [] OTHER -> h

-----------------------------------------------------------------------------
(* The canvas: enter, the event itself, and leave. A finger that comes     *)
(* straight from another pad sends its leave to the pad it has entered.    *)
Ends == {"touchend", "touchcancel"}

Enter(P, f, p, from) ==
  IF p # None /\ from \notin {None, p} THEN [P EXCEPT ![p] = Apply(@, f, "leave", FALSE, 0)] ELSE P

Itself(P, f, type, p, y) ==
  IF p # None THEN [P EXCEPT ![p] = Apply(@, f, type, TRUE, y)] ELSE P

Last(f, p) == IF p # None THEN p ELSE at[f]
Leaves(f, type, p) == Last(f, p) # None /\ (p = None \/ type \in Ends)

(* Mutant: the leave goes only to a pad the finger is still on.            *)
LeaveInside(P, f, type, p, y) ==
  IF Leaves(f, type, p) /\ p # None THEN [P EXCEPT ![p] = Apply(@, f, "leave", TRUE, y)] ELSE P

Leave(P, f, type, p, y) ==
  IF Leaves(f, type, p)
  THEN [P EXCEPT ![Last(f, p)] = Apply(@, f, "leave", p = Last(f, p), y)] ELSE P

HeldIn(P) == Cardinality({p \in Pads : Held(P[p])})
KeysIn(P) == LET All[n \in 0..PadCount] == IF n = 0 THEN 0 ELSE All[n - 1] + P[n].pressed
             IN All[PadCount]

(* What the heads tell the canvas: "activate", and the keys.               *)
Become(P) ==
  /\ pads' = [p \in Pads |-> [P[p] EXCEPT !.pressed = 0]]
  /\ activations' = activations + HeldIn(P) - HeldIn(pads)
  /\ keys' = keys + KeysIn(P)

Handle(f, type, p, y) ==
  /\ Become(Leave(Itself(Enter(pads, f, p, at[f]), f, type, p, y), f, type, p, y))
  /\ at' = [at EXCEPT ![f] = IF Leaves(f, type, p) THEN None ELSE Last(f, p)]
  /\ strayed' = IF p # None /\ at[f] \notin {None, p} /\ (\E q \in Pads : pads[q].hold = f)
                THEN strayed \union {f} ELSE strayed

(* A touch stays with the canvas where it began, wherever it goes.         *)
Touch(f, type, p, y) ==
  /\ events < MaxEvents /\ events' = events + 1
  /\ down[f] = (type # "touchstart")
  /\ down' = [down EXCEPT ![f] = type \notin Ends]
  /\ (IF heard THEN Handle(f, type, p, y) ELSE UNCHANGED <<at, pads, activations, keys, strayed>>)
  /\ UNCHANGED <<policy, heard, renewed>>

(* freeEvents when controls are locked, initEvents when they are unlocked: *)
(* the handlers and their map are new ones. The "mouseleave" of freeEvents *)
(* bears no identifier and thus releases nothing.                          *)
Lock ==
  /\ events < MaxEvents /\ events' = events + 1
  /\ heard' = ~heard
  /\ at' = [f \in Fingers |-> None]
  /\ strayed' = strayed \union ({pads[p].hold : p \in Pads} \ {None})
  /\ UNCHANGED <<policy, down, pads, activations, keys, renewed>>

(* refresh() makes new heads with the values of the old ones.              *)
Refresh ==
  /\ events < MaxEvents /\ events' = events + 1
  /\ pads' = [p \in Pads |-> [Head(pads[p].value) EXCEPT !.shown = pads[p].shown]]
  /\ renewed' = (renewed \/ HeldIn(pads) > 0)
  /\ UNCHANGED <<policy, heard, down, at, activations, keys, strayed>>

(* applyState: silent, refused while the head is held. PDSControlWidget    *)
(* shows a push of somebody else for 750 ms.                               *)
Remote(p, v) ==
  /\ events < MaxEvents /\ events' = events + 1
  /\ ~Held(pads[p]) /\ pads[p].value # v
  /\ pads' = [pads EXCEPT ![p].value = v, ![p].body = v, ![p].glides = TRUE,
                          ![p].shown = (policy = "release")]
  /\ UNCHANGED <<policy, heard, down, at, activations, keys, strayed, renewed>>

Timer(p) ==
  /\ \/ /\ pads[p].back
        /\ pads' = [pads EXCEPT ![p].back = FALSE, ![p].body = pads[p].render]
     \/ /\ pads[p].shown
        /\ pads' = [pads EXCEPT ![p] =
             IF Held(@) THEN [@ EXCEPT !.shown = FALSE]           \* the setter throws
             ELSE Change([@ EXCEPT !.shown = FALSE, !.glides = TRUE], 0)]
     \/ /\ pads[p].glides
        /\ pads' = [pads EXCEPT ![p].glides = FALSE, ![p].render = pads[p].value]
  /\ UNCHANGED <<policy, heard, down, at, activations, keys, events, strayed, renewed>>

Next ==
  \/ Lock \/ Refresh
  \/ \E p \in Pads : Timer(p) \/ (\E v \in Values : Remote(p, v))
  \/ \E f \in Fingers, type \in {"touchstart", "touchmove", "touchend", "touchcancel"},
        p \in Pads \union {None}, y \in Values : Touch(f, type, p, y)

Spec == Init /\ [][Next]_padVars

-----------------------------------------------------------------------------
(* A head is held by a finger that is on its pad, and the canvas knows how *)
(* many are: it keeps touches from the page just while one is held. Two    *)
(* exceptions: a finger that strayed leaves its head held (the leave goes  *)
(* to the wrong pad, or has no identifier), and a refresh forgets holds.   *)
HeldByFinger ==
  /\ \A p \in Pads : (Held(pads[p]) /\ pads[p].hold \notin strayed) =>
       (down[pads[p].hold] /\ at[pads[p].hold] = p)
  /\ ~renewed => activations = HeldIn(pads)

(* A push presses a key at most once, when its head is let go: not when    *)
(* the leave follows the end of the touch, nor by what others push.        *)
OnePushOneKey == keys' # keys => keys' = keys + 1 /\ HeldIn(pads)' < HeldIn(pads)

(* Fingers and heads agree after every step, and a push presses one key.   *)
PadsHold == [][HeldByFinger' /\ OnePushOneKey]_padVars
=============================================================================
