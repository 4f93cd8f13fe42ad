------------------------------- MODULE Gestures -------------------------------
(***************************************************************************)
(* From touches and mouse buttons to taps, long taps and double taps: the  *)
(* event handlers of resource/lib.js. One element; one button, or up to    *)
(* two fingers and the mouse events that a browser makes of a touch; the   *)
(* times of the code (300 ms, 1000 ms) are Double and Long ticks, and a    *)
(* timer that is due may fire up to Late ticks too late.                   *)
(***************************************************************************)
EXTENDS Integers, FiniteSets

CONSTANTS Double, Long, Late

ASSUME TimesAssumption ==
  /\ Double \in Nat /\ Long \in Nat /\ Late \in Nat
  /\ 0 < Double /\ Double < Long

VARIABLES
  kind,      \* whose handlers: Control, MemoControl, DirectControl, touchEventHelper
  input,     \* mouse or touch
  fingers,   \* how many fingers are down on the element, or 1 for the button
  compat,    \* mouse events made of a touch that no handler prevented: a
             \* mousedown is due, has come, or has come and the touch ended
  locked,    \* ctx.disabled
  progress,  \* clickInProgress, tapInProgress; also "highlight"
  since,     \* ticks since keydownTime
  timers,    \* longTapTimer and tapTimer: what, in how many ticks, and
             \* whether its variable still refers to it
  on,        \* state of the memo and of the direct control
  act,       \* what the last step called
  armed,     \* history: pressed, and neither cancelled nor acted on since
  strayed,   \* history: an event was missed or ignored, or a second tap
             \* overtook the timer of the one before
  parted     \* history: one finger's release has let go what another holds

touch == <<fingers, compat>>
history == <<armed, strayed, parted>>
vars == <<kind, input, touch, locked, progress, since, timers, on, act, history>>

Kinds == {"control", "memo", "direct", "helper"}
Acts == {"none", "tap", "long", "set", "clear", "pair", "menu"}

Init ==
  /\ kind \in Kinds
  /\ input \in {"mouse", "touch"}
  /\ fingers = 0 /\ compat = "none"
  /\ locked = FALSE /\ progress = FALSE
  /\ since = Long
  /\ timers = {}
  /\ on = FALSE
  /\ act = "none"
  /\ armed = FALSE /\ strayed = FALSE /\ parted = FALSE

-----------------------------------------------------------------------------
Timer(what, left) == [what |-> what, left |-> left, held |-> TRUE]

(* The variable of a timer is given a new one; the old one stays.          *)
Forget(T, what) == {IF t.what = what THEN [t EXCEPT !.held = FALSE] ELSE t : t \in T}

(* clearTimeout(longTapTimer), also of tapTimer in a memo's complete().    *)
Cleared(T) == {t \in T : ~t.held}
ClearedLong(T) == {t \in T : ~(t.held /\ t.what = "long")}

(* Mutants of Complete: it forgets the timers, or the flag.                *)
CompleteKeepsTimers == progress' = FALSE /\ UNCHANGED timers
CompleteKeepsFlag == UNCHANGED progress /\ timers' = Cleared(timers)

Complete ==
  /\ progress' = FALSE
  /\ timers' = Cleared(timers)

Acted(what) ==
  /\ act' = what
  /\ armed' = FALSE
  /\ on' = IF kind = "memo" THEN what \notin {"clear", "menu"} /\ (on \/ what \in {"set", "pair", "tap"}) ELSE on

Ignored ==
  /\ act' = "none"
  /\ UNCHANGED on

(* An event on a disabled control only ends what was in progress.          *)
Dropped ==
  /\ locked /\ kind # "helper"
  /\ IF kind = "direct" THEN UNCHANGED <<progress, timers>> ELSE Complete
  /\ armed' = FALSE
  /\ Ignored

Heard == ~locked \/ kind = "helper"

Begin ==
  /\ progress' = TRUE
  /\ timers' = Forget(IF kind = "helper" THEN ClearedLong(timers) ELSE timers, "long")
                 \union {Timer("long", Long)}

-----------------------------------------------------------------------------
(* mousedown, touchstart                                                   *)
PressTap ==
  /\ kind \in {"control", "helper"}
  /\ IF progress THEN UNCHANGED <<progress, timers>> ELSE Begin
  /\ armed' = TRUE
  /\ Ignored

PressMemo ==
  /\ kind = "memo"
  /\ IF progress /\ since < Double
       THEN Complete /\ Acted("set")
       ELSE Begin /\ Ignored /\ armed' = TRUE

PressDirect ==
  /\ kind = "direct"
  /\ on' = TRUE
  /\ act' = "none" /\ armed' = TRUE
  /\ UNCHANGED <<progress, timers>>

HandlePress ==
  /\ since' = IF Heard THEN 0 ELSE since
  /\ Dropped \/ (Heard /\ (PressTap \/ PressMemo \/ PressDirect))
  /\ strayed' = (strayed \/ ~Heard \/ (kind = "memo" /\ progress /\ since >= Double))
  /\ parted' = FALSE
  /\ UNCHANGED <<kind, input, locked>>

(* e.preventDefault() for touchstart: a control and a memo call it unless  *)
(* they are disabled, the helper when it begins, a direct control never.   *)
StartPrevented == \/ kind \in {"control", "memo"} /\ Heard
                  \/ kind = "helper" /\ ~progress

(* A second finger on a memo is SecondFinger.                              *)
Press ==
  /\ fingers < IF input = "mouse" \/ kind = "memo" THEN 1 ELSE 2
  /\ fingers' = fingers + 1
  /\ compat' = IF fingers > 0 \/ compat = "lifted" THEN compat
               ELSE IF input = "touch" /\ ~StartPrevented THEN "due" ELSE "none"
  /\ HandlePress

(* The mousedown a browser makes of a touch, before or after its touchend  *)
(* (lib.js:1494-1497): another press to the same handler.                  *)
CompatPress ==
  /\ compat = "due"
  /\ compat' = IF fingers = 0 THEN "lifted" ELSE "pressed"
  /\ HandlePress
  /\ UNCHANGED fingers

(* A second finger sets a memo.                                            *)
SecondFinger ==
  /\ kind = "memo" /\ input = "touch" /\ fingers = 1
  /\ fingers' = 2
  /\ \/ Dropped
     \/ Heard /\ Complete /\ Acted("pair")
  /\ UNCHANGED <<kind, input, compat, locked, since, strayed, parted>>

-----------------------------------------------------------------------------
(* mouseup, touchend                                                       *)
ReleaseTap ==
  /\ kind \in {"control", "helper"}
  /\ Complete
  /\ IF progress THEN Acted("tap") ELSE Ignored /\ UNCHANGED armed

(* A short tap waits for a second one; after a long press, whose timer is  *)
(* late, the rest of that wait is negative: at once.                       *)
ReleaseMemo ==
  /\ kind = "memo"
  /\ \/ ~progress /\ Ignored /\ UNCHANGED <<progress, timers, armed>>
     \/ progress /\ Double <= since /\ since < Long /\ Complete /\ Acted("tap")
     \/ /\ progress /\ ~(Double <= since /\ since < Long)
        /\ timers' = Forget(ClearedLong(timers), "tap")
                       \union {Timer("tap", IF since < Double THEN Double - since ELSE 0)}
        /\ Ignored
        /\ UNCHANGED <<progress, armed>>

ReleaseDirect ==
  /\ kind = "direct"
  /\ on' = FALSE
  /\ act' = "none"
  /\ UNCHANGED <<progress, timers, armed>>

HandleRelease ==
  /\ Dropped \/ (Heard /\ (ReleaseTap \/ ReleaseMemo \/ ReleaseDirect))
  /\ strayed' = (strayed \/ ~Heard)
  /\ parted' = (parted \/ (kind = "direct" /\ fingers' > 0))
  /\ UNCHANGED <<kind, input, locked, since>>

(* e.preventDefault() for touchend: no mousedown follows.                  *)
EndPrevented == \/ kind \in {"control", "memo"} /\ Heard
                \/ kind = "helper" /\ progress

Lifted(prevented) ==
  /\ fingers' = fingers - 1
  /\ compat' = CASE compat = "pressed"            -> "lifted"
                 [] compat = "due" /\ prevented -> "none"
                 [] OTHER                        -> compat

Release ==
  /\ fingers > 0
  /\ Lifted(EndPrevented)
  /\ HandleRelease

(* The mouseup that follows such a mousedown, once the touch has ended.    *)
CompatRelease ==
  /\ compat = "lifted"
  /\ compat' = "none"
  /\ UNCHANGED fingers
  /\ HandleRelease

(* A mouse button released outside the element: no event reaches it.       *)
ReleaseOutside ==
  /\ fingers > 0 /\ input = "mouse"
  /\ fingers' = 0 /\ strayed' = TRUE
  /\ Ignored
  /\ UNCHANGED <<kind, input, compat, locked, progress, since, timers, armed, parted>>

-----------------------------------------------------------------------------
(* touchmove, mousemove beyond a quarter of a finger; touchcancel ends the *)
(* touch. A direct control minds neither.                                  *)
Cancelled ==
  /\ IF kind = "direct" THEN UNCHANGED <<progress, timers, armed>>
     ELSE /\ IF progress THEN Complete ELSE UNCHANGED <<progress, timers>>
          /\ armed' = FALSE
  /\ Ignored

Move ==
  /\ fingers > 0
  /\ Dropped \/ (Heard /\ Cancelled)
  /\ UNCHANGED <<kind, input, touch, locked, since, strayed, parted>>

(* touchcancel: touchEventHelper takes it for a release.                   *)
TouchCancel ==
  /\ fingers > 0 /\ input = "touch"
  /\ Lifted(TRUE)
  /\ Dropped \/ (Heard /\ IF kind = "helper" THEN ReleaseTap ELSE Cancelled)
  /\ strayed' = (strayed \/ kind = "direct")
  /\ UNCHANGED <<kind, input, locked, since, parted>>

(* The right button clears a memo.                                         *)
ContextMenu ==
  /\ kind = "memo" /\ input = "mouse" /\ fingers > 0
  /\ Dropped \/ (Heard /\ Complete /\ Acted("menu"))
  /\ UNCHANGED <<kind, input, touch, locked, since, strayed, parted>>

-----------------------------------------------------------------------------
Due == {t \in timers : t.left <= 0}

(* longTapTimer, which does not ask whether the control was disabled.      *)
FireLong ==
  \E t \in Due :
    /\ t.what = "long"
    /\ progress' = IF kind = "helper" /\ ~progress THEN progress ELSE FALSE
    /\ timers' = Cleared(timers) \ {t}
    /\ IF kind = "helper" /\ ~progress THEN Ignored /\ UNCHANGED armed
       ELSE Acted(IF kind = "memo" THEN "clear" ELSE "long")
    /\ UNCHANGED <<kind, input, touch, locked, since, strayed, parted>>

(* tapTimer of a memo, when no second tap has come.                        *)
FireTap ==
  \E t \in Due :
    /\ t.what = "tap"
    /\ progress' = FALSE
    /\ timers' = Cleared(timers) \ {t}
    /\ Acted("tap")
    /\ UNCHANGED <<kind, input, touch, locked, since, strayed, parted>>

Tick ==
  /\ \A t \in timers : t.left > -Late
  /\ timers' = {[t EXCEPT !.left = @ - 1] : t \in timers}
  /\ since' = IF since < Long THEN since + 1 ELSE since
  /\ act' = "none"
  /\ UNCHANGED <<kind, input, touch, locked, progress, on, history>>

(* Control.disable, Control.enable                                         *)
Lock ==
  /\ locked' = ~locked
  /\ act' = "none"
  /\ UNCHANGED <<kind, input, touch, progress, since, timers, on, history>>

Next ==
  \/ Press \/ SecondFinger \/ CompatPress \/ Release \/ CompatRelease
  \/ ReleaseOutside \/ Move \/ TouchCancel
  \/ ContextMenu \/ FireLong \/ FireTap \/ Tick \/ Lock

Spec == Init /\ [][Next]_vars

-----------------------------------------------------------------------------
TypeOK ==
  /\ kind \in Kinds /\ input \in {"mouse", "touch"}
  /\ fingers \in 0 .. 2 /\ compat \in {"none", "due", "pressed", "lifted"}
  /\ locked \in BOOLEAN /\ progress \in BOOLEAN
  /\ since \in 0 .. Long
  /\ timers \subseteq [what : {"long", "tap"}, left : -Late .. Long, held : BOOLEAN]
  /\ on \in BOOLEAN /\ act \in Acts
  /\ armed \in BOOLEAN /\ strayed \in BOOLEAN /\ parted \in BOOLEAN

(* Nothing that began, and nothing highlighted, stays so for ever: some    *)
(* timer that will end it is under way, whatever events are lost.          *)
SomethingEndsIt == progress => timers # {}

(* Every call has a press of its own, which was not cancelled by a move, a *)
(* lost touch or an event while disabled: one press never taps twice, nor  *)
(* both taps and long-taps. A memo that missed events is excepted,         *)
(* and a second finger or the menu of the right button is its own call.    *)
OnePressOneAct ==
  [][act' \notin {"none", "pair", "menu"} => armed \/ (kind = "memo" /\ strayed)]_vars

(* A long tap is one: a finger is still down when it takes effect, as      *)
(* long as no release was missed, however late the timers are.             *)
LongMeansHeld ==
  [][act' \in {"long", "clear"} => fingers > 0 \/ strayed]_vars

(* If no event was lost, a direct control is on only while a finger holds  *)
(* it, or until the mouseup that follows a mousedown made of a touch; and  *)
(* it is on while it is held, unless the release of another finger, or     *)
(* such a mouseup, has let it go (lib.js:3080-3095).                       *)
DirectFollows ==
  kind = "direct" /\ ~strayed =>
    /\ on => fingers > 0 \/ compat = "lifted"
    /\ fingers > 0 /\ ~parted => on

(* What a press began is ended, by an event or a timer, and a direct       *)
(* control follows the fingers on it.                                      *)
GesturesHold == TypeOK /\ SomethingEndsIt /\ DirectFollows

(* One press, one call, and the long one only while the finger is down.    *)
PressActsOnce == OnePressOneAct /\ LongMeansHeld
=============================================================================
