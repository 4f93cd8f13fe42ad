------------------------------ MODULE TouchProofs ------------------------------
(***************************************************************************)
(* Proofs about what fingers do: to controls (Gestures), to the shield and *)
(* to the pads; and about what a page shows below them: the axis of a      *)
(* joystick, the regions of the overlay and the canvas widgets.            *)
(*                                                                         *)
(* Controls, for any times of double and long taps and timers any number   *)
(* of ticks late: what a press began is ended, and one press is one call,  *)
(* the long one only while a finger is down. The difficulty is in the    *)
(* timers of the past. A timer acts although its element has forgotten it, *)
(* so that the proof must show that none is ever forgotten: every timer    *)
(* under way is the one its variable refers to, and belongs to the press   *)
(* in progress. A memo whose second tap overtook the timer of the first is *)
(* where this ends, and what strayed stands for.                           *)
(*                                                                         *)
(* The shield, for any thumbs and parts: no selection outlives the thumb   *)
(* that began it and no choice leaves the shield deaf. That the thumb is   *)
(* still there is not inductive: lifting a second thumb ends a rest only   *)
(* where the timer runs exactly while a thumb rests, and only where the    *)
(* handlers are on the canvas whenever anything is under way. These facts  *)
(* hold until a lock or the reserved part breaks in.                       *)
(*                                                                         *)
(* The pads, for any number of them, of fingers and of values: a head is   *)
(* held by a finger that is on its pad, the canvas counts those that are,  *)
(* and a push presses one key. An event passes a head up to three times,   *)
(* as enter, itself and leave, of one pad or of two. The proof shows that  *)
(* it changes one head only, and that one at most once.                    *)
(*                                                                         *)
(* The limiter, for any views, joysticks and values: when nothing is due,  *)
(* what a view shows is the axis of the joystick, whoever moved it, but    *)
(* for the views that skipped and kept name. The invariant compares a view *)
(* with what will be shown to it: the axis it owns until its send, then    *)
(* the value last heard of. Here the proof attempt found a case that TLC's *)
(* bounds did not reach: a control that comes back to a joystick before    *)
(* the view's own send is due.                                             *)
(*                                                                         *)
(* The overlay, for any pages and any number of layouts: once nothing is   *)
(* asked for, the regions shown are those of the layout in force. An       *)
(* evaluation of an older layout may be under way or in the cache as long  *)
(* as something is left that clears it, and the invariant names what that  *)
(* is.                                                                     *)
(*                                                                         *)
(* The widgets, for any number of them and of moves: the widget of the     *)
(* page moves, rests and hears as the page does, however long its promise  *)
(* took. What is queued behind the promise is run in one flush, and the    *)
(* last nap in the queue is the one that counts.                           *)
(***************************************************************************)
EXTENDS MCTouch, Sequences, FiniteSetTheorems, WellFoundedInduction, TLAPS

TimerSet == [what : {"long", "tap"}, left : -Late .. Long, held : BOOLEAN]

(* A press in progress may still act.                                      *)
ProgressIsArmed == progress => armed /\ kind # "direct"

(* All timers under way are known, and end something.                      *)
TimersKnown ==
  kind # "memo" \/ ~strayed =>
    /\ timers # {} => progress
    /\ \A t \in timers : t.held

(* A long tap awaits its end while the finger is down, a short one waits   *)
(* for another with the finger up.                                         *)
TimersTell ==
  /\ kind # "memo" => \A t \in timers : t.what = "long"
  /\ ~strayed => \A t \in timers : /\ t.what = "long" => fingers > 0
                                   /\ t.what = "tap" => fingers = 0

Known == ProgressIsArmed /\ TimersKnown /\ TimersTell /\ SomethingEndsIt

(* Only a direct control hears mouse events made of a touch, unless it was *)
(* locked meanwhile; and a second finger has ended what a memo began.      *)
TouchKnown ==
  ~strayed => /\ kind # "direct" => compat = "none"
              /\ kind = "memo" /\ fingers = 2 => ~progress

TouchType == /\ fingers \in 0 .. 2 /\ compat \in {"none", "due", "pressed", "lifted"}
             /\ parted \in BOOLEAN

Core == TypeOK /\ Known /\ DirectFollows

IInv == Core /\ TouchKnown

-----------------------------------------------------------------------------
(* The helpers on sets of timers.                                          *)
LEMMA ClearedFacts ==
  /\ Cleared(timers) \subseteq timers
  /\ ClearedLong(timers) \subseteq timers
  /\ (\A t \in timers : t.held) => Cleared(timers) = {}
BY DEF Cleared, ClearedLong

LEMMA ForgetType ==
  ASSUME NEW T \in SUBSET TimerSet, NEW what
  PROVE  Forget(T, what) \subseteq TimerSet
<1> SUFFICES ASSUME NEW t \in T
             PROVE  (IF t.what = what THEN [t EXCEPT !.held = FALSE] ELSE t) \in TimerSet
  BY DEF Forget
<1>1. [t EXCEPT !.held = FALSE] \in TimerSet
  BY DEF TimerSet
<1>2. QED
  BY <1>1

LEMMA ForgetNothing ==
  ASSUME NEW T, NEW what, \A t \in T : t.what # what
  PROVE  Forget(T, what) = T
BY DEF Forget

LEMMA TimerType ==
  ASSUME NEW what \in {"long", "tap"}, NEW left \in 0 .. Long
  PROVE  /\ Timer(what, left) \in TimerSet
         /\ Timer(what, left).what = what
         /\ Timer(what, left).held = TRUE
<1>1. left \in -Late .. Long
  BY TimesAssumption
<1>2. QED
  BY <1>1 DEF Timer, TimerSet

LEMMA LongTimer ==
  /\ Timer("long", Long) \in TimerSet
  /\ Timer("long", Long).what = "long"
  /\ Timer("long", Long).held = TRUE
<1>1. Long \in 0 .. Long
  BY TimesAssumption
<1>2. QED
  BY <1>1, TimerType

-----------------------------------------------------------------------------
(* Complete: nothing is in progress, and no known timer is left.           *)
LEMMA CompleteType ==
  ASSUME TypeOK, Complete
  PROVE  progress' \in BOOLEAN /\ timers' \subseteq TimerSet
BY ClearedFacts DEF Complete, TypeOK, TimerSet

LEMMA CompleteKnown ==
  ASSUME Known, Complete, kind' = kind, strayed => strayed'
  PROVE  Known'
<1>1. progress' = FALSE /\ timers' = Cleared(timers) /\ timers' \subseteq timers
  BY ClearedFacts DEF Complete
<1>2. ASSUME kind # "memo" \/ ~strayed
      PROVE  timers' = {}
  BY <1>1, <1>2, ClearedFacts DEF Known, TimersKnown
<1>3. CASE kind # "memo" \/ ~strayed
  <2>1. timers' = {}
    BY <1>2, <1>3
  <2>2. QED
    BY <1>1, <2>1 DEF Known, ProgressIsArmed, TimersKnown, TimersTell, SomethingEndsIt
<1>4. CASE kind = "memo" /\ strayed
  BY <1>1, <1>4 DEF Known, ProgressIsArmed, TimersKnown, TimersTell, SomethingEndsIt
<1>5. QED
  BY <1>3, <1>4

(* Begin: its timer is the only one, unless a memo strays.                 *)
LEMMA BeginType ==
  ASSUME TypeOK, Begin
  PROVE  progress' \in BOOLEAN /\ timers' \subseteq TimerSet
<1> DEFINE T == IF kind = "helper" THEN ClearedLong(timers) ELSE timers
<1>1. T \in SUBSET TimerSet
  BY ClearedFacts DEF TypeOK, TimerSet
<1>2. Forget(T, "long") \subseteq TimerSet
  BY <1>1, ForgetType
<1>3. Timer("long", Long) \in TimerSet
  BY LongTimer
<1>4. progress' = TRUE /\ timers' = Forget(T, "long") \union {Timer("long", Long)}
  BY DEF Begin
<1>5. QED
  BY <1>2, <1>3, <1>4

LEMMA BeginKnown ==
  ASSUME Known, Begin, kind' = kind, kind # "direct", armed' = TRUE,
         fingers' \in 0 .. 2, strayed' \/ fingers' > 0,
         strayed => strayed', progress => kind = "memo" /\ strayed'
  PROVE  Known'
<1>1. /\ Timer("long", Long).what = "long" /\ Timer("long", Long).held = TRUE
      /\ Timer("long", Long) \in timers' /\ progress' = TRUE
  BY LongTimer DEF Begin
<1>2. CASE kind = "memo" /\ strayed'
  BY <1>1, <1>2 DEF Known, ProgressIsArmed, TimersKnown, TimersTell, SomethingEndsIt
<1>3. CASE ~(kind = "memo" /\ strayed')
  <2>1. timers = {}
    BY <1>3 DEF Known, TimersKnown
  <2>2. timers' = {Timer("long", Long)}
    BY <2>1 DEF Begin, Forget, ClearedLong
  <2>3. QED
    BY <1>1, <1>3, <2>2 DEF Known, ProgressIsArmed, TimersKnown, TimersTell, SomethingEndsIt
<1>4. QED
  BY <1>2, <1>3

(* Acting.                                                                 *)
LEMMA ActedType ==
  ASSUME on \in BOOLEAN, NEW what \in Acts, Acted(what)
  PROVE  act' \in Acts /\ armed' \in BOOLEAN /\ on' \in BOOLEAN
BY DEF Acted

LEMMA IgnoredType ==
  ASSUME on \in BOOLEAN, Ignored
  PROVE  act' \in Acts /\ on' \in BOOLEAN
BY DEF Ignored, Acts

(* Ticks change what is left of timers and nothing else.                   *)
LEMMA TickTimers ==
  ASSUME TypeOK, Tick
  PROVE  /\ timers' \subseteq TimerSet
         /\ timers' = {} <=> timers = {}
         /\ \A u \in timers' : \E t \in timers : u.what = t.what /\ u.held = t.held
<1>1. timers' = {[t EXCEPT !.left = @ - 1] : t \in timers}
  BY DEF Tick
<1>2. ASSUME NEW t \in timers
      PROVE  /\ [t EXCEPT !.left = @ - 1] \in TimerSet
             /\ [t EXCEPT !.left = @ - 1].what = t.what
             /\ [t EXCEPT !.left = @ - 1].held = t.held
  <2>1. t \in TimerSet /\ t.left > -Late
    BY DEF TypeOK, TimerSet, Tick
  <2>2. t.left - 1 \in -Late .. Long
    BY <2>1, TimesAssumption DEF TimerSet
  <2>3. QED
    BY <2>1, <2>2 DEF TimerSet
<1>3. QED
  BY <1>1, <1>2

-----------------------------------------------------------------------------
(* An event on a disabled control.                                         *)
LEMMA DroppedHolds ==
  ASSUME TypeOK, Known, Dropped, kind' = kind, strayed => strayed',
         kind = "memo" \/ kind = "control" \/ kind = "direct"
  PROVE  /\ progress' \in BOOLEAN /\ timers' \subseteq TimerSet
         /\ armed' \in BOOLEAN /\ act' \in Acts /\ on' = on
         /\ Known'
<1>1. armed' = FALSE /\ act' = "none" /\ on' = on
  BY DEF Dropped, Ignored
<1>2. CASE kind = "direct"
  <2>1. progress' = progress /\ timers' = timers
    BY <1>2 DEF Dropped
  <2>2. progress = FALSE /\ timers = {}
    BY <1>2 DEF Known, ProgressIsArmed, TimersKnown, TypeOK
  <2>3. Known'
    BY <1>2, <2>1, <2>2 DEF Known, ProgressIsArmed, TimersKnown, TimersTell, SomethingEndsIt
  <2>4. QED
    BY <1>1, <2>1, <2>2, <2>3 DEF Acts
<1>3. CASE kind # "direct"
  <2>1. Complete
    BY <1>3 DEF Dropped
  <2>2. QED
    BY <1>1, <2>1, CompleteType, CompleteKnown DEF Acts
<1>4. QED
  BY <1>2, <1>3

(* The types of what an action leaves alone, and of what it changes.       *)
LEMMA TypeByParts ==
  ASSUME TypeOK, kind' = kind, input' = input, TouchType', locked' = locked,
         since' \in 0 .. Long, strayed' \in BOOLEAN,
         progress' \in BOOLEAN, timers' \subseteq TimerSet,
         on' \in BOOLEAN, act' \in Acts, armed' \in BOOLEAN
  PROVE  TypeOK'
BY DEF TypeOK, TouchType, TimerSet

(* A press, by a finger, a button or a mousedown made of a touch.          *)
LEMMA HandlePressHolds ==
  ASSUME IInv, HandlePress, TouchType', strayed' \/ fingers' > 0 \/ kind = "direct",
         fingers' > 0 \/ compat' = "lifted"
  PROVE  Core'
<1>1. TypeOK /\ Known /\ DirectFollows
  BY DEF IInv, Core
<1>2. /\ kind' = kind /\ input' = input /\ locked' = locked /\ fingers' \in 0 .. 2
      /\ strayed => strayed'
      /\ kind = "memo" /\ progress /\ since >= Double => strayed'
      /\ ~Heard => strayed'
      /\ strayed' \in BOOLEAN
  BY <1>1 DEF HandlePress, TypeOK, TouchType
<1>3. since' \in 0 .. Long
  BY <1>1, TimesAssumption DEF HandlePress, TypeOK
<1>4. kind \in Kinds /\ on \in BOOLEAN /\ armed \in BOOLEAN /\ progress \in BOOLEAN
  BY <1>1 DEF TypeOK
<1>5. CASE Dropped
  <2>1. kind = "memo" \/ kind = "control" \/ kind = "direct"
    BY <1>4, <1>5 DEF Dropped, Kinds
  <2>2. /\ progress' \in BOOLEAN /\ timers' \subseteq TimerSet
        /\ armed' \in BOOLEAN /\ act' \in Acts /\ on' = on /\ Known'
    BY <1>1, <1>2, <1>5, <2>1, DroppedHolds
  <2>3. TypeOK'
    BY <1>1, <1>2, <1>3, <1>4, <2>2, TypeByParts
  <2>4. strayed'
    BY <1>2, <1>5 DEF Dropped, Heard
  <2>5. QED
    BY <2>2, <2>3, <2>4 DEF Core, DirectFollows
<1>6. CASE PressTap
  <2>1. kind # "memo" /\ kind # "direct" /\ armed' = TRUE /\ act' = "none" /\ on' = on
    BY <1>6 DEF PressTap, Ignored
  <2>2. CASE progress
    <3>1. progress' = progress /\ timers' = timers
      BY <1>6, <2>2 DEF PressTap
    <3>2. TypeOK'
      BY <1>1, <1>2, <1>3, <1>4, <2>1, <3>1, TypeByParts DEF TypeOK, TimerSet, Acts
    <3>3. Known'
      BY <1>1, <1>2, <2>1, <3>1 DEF Known, ProgressIsArmed, TimersKnown, TimersTell, SomethingEndsIt
    <3>4. QED
      BY <1>2, <2>1, <3>2, <3>3 DEF Core, DirectFollows
  <2>3. CASE ~progress
    <3>1. Begin
      BY <1>6, <2>3 DEF PressTap
    <3>2. progress' \in BOOLEAN /\ timers' \subseteq TimerSet
      BY <1>1, <3>1, BeginType
    <3>3. TypeOK'
      BY <1>1, <1>2, <1>3, <1>4, <2>1, <3>2, TypeByParts DEF Acts
    <3>4. Known'
      BY <1>1, <1>2, <2>1, <2>3, <3>1, BeginKnown
    <3>5. QED
      BY <1>2, <2>1, <3>3, <3>4 DEF Core, DirectFollows
  <2>4. QED
    BY <2>2, <2>3
<1>7. CASE PressMemo
  <2>1. kind = "memo"
    BY <1>7 DEF PressMemo
  <2>2. CASE progress /\ since < Double
    <3>1. Complete /\ Acted("set")
      BY <1>7, <2>2 DEF PressMemo
    <3>2. act' \in Acts /\ armed' \in BOOLEAN /\ on' \in BOOLEAN
      BY <1>4, <3>1, ActedType DEF Acts
    <3>3. progress' \in BOOLEAN /\ timers' \subseteq TimerSet
      BY <1>1, <3>1, CompleteType
    <3>4. TypeOK'
      BY <1>1, <1>2, <1>3, <3>2, <3>3, TypeByParts
    <3>5. Known'
      BY <1>1, <1>2, <3>1, CompleteKnown
    <3>6. QED
      BY <1>2, <2>1, <3>4, <3>5 DEF Core, DirectFollows
  <2>3. CASE ~(progress /\ since < Double)
    <3>1. Begin /\ armed' = TRUE /\ act' = "none" /\ on' = on
      BY <1>7, <2>3 DEF PressMemo, Ignored
    <3>2. progress' \in BOOLEAN /\ timers' \subseteq TimerSet
      BY <1>1, <3>1, BeginType
    <3>3. TypeOK'
      BY <1>1, <1>2, <1>3, <1>4, <3>1, <3>2, TypeByParts DEF Acts
    <3>4. progress => kind = "memo" /\ strayed'
      <4>1. progress => since >= Double
        BY <1>1, <2>3, TimesAssumption DEF TypeOK
      <4>2. QED
        BY <1>2, <2>1, <4>1
    <3>5. Known'
      BY <1>1, <1>2, <2>1, <3>1, <3>4, BeginKnown
    <3>6. QED
      BY <1>2, <2>1, <3>3, <3>5 DEF Core, DirectFollows
  <2>4. QED
    BY <2>2, <2>3
<1>8. CASE PressDirect
  <2>1. /\ kind = "direct" /\ on' = TRUE /\ act' = "none" /\ armed' = TRUE
        /\ progress' = progress /\ timers' = timers
    BY <1>8 DEF PressDirect
  <2>2. TypeOK'
    BY <1>1, <1>2, <1>3, <1>4, <2>1, TypeByParts DEF TypeOK, TimerSet, Acts
  <2>3. progress = FALSE /\ timers = {}
    BY <1>1, <1>4, <2>1 DEF Known, ProgressIsArmed, TimersKnown
  <2>4. Known'
    BY <1>2, <2>1, <2>3 DEF Known, ProgressIsArmed, TimersKnown, TimersTell, SomethingEndsIt
  <2>5. DirectFollows'
    BY <1>2, <2>1 DEF DirectFollows
  <2>6. QED
    BY <2>2, <2>4, <2>5 DEF Core
<1>9. QED
  BY <1>5, <1>6, <1>7, <1>8 DEF HandlePress

(* What a touch that is lifted does to a control and to touchEventHelper.  *)
LEMMA ReleaseTapHolds ==
  ASSUME TypeOK, Known, ReleaseTap, kind' = kind, strayed => strayed'
  PROVE  /\ progress' \in BOOLEAN /\ timers' \subseteq TimerSet
         /\ on' \in BOOLEAN /\ act' \in Acts /\ armed' \in BOOLEAN
         /\ on' = on /\ Known'
<1>1. Complete /\ kind \in {"control", "helper"} /\ on \in BOOLEAN /\ armed \in BOOLEAN
  BY DEF ReleaseTap, TypeOK
<1>2. progress' \in BOOLEAN /\ timers' \subseteq TimerSet /\ Known'
  BY <1>1, CompleteType, CompleteKnown
<1>3. CASE progress
  BY <1>1, <1>2, <1>3, ActedType DEF ReleaseTap, Acted, Acts
<1>4. CASE ~progress
  BY <1>1, <1>2, <1>4 DEF ReleaseTap, Ignored, Acts
<1>5. QED
  BY <1>3, <1>4

(* ... and what a moved or lost touch does to all.                         *)
LEMMA CancelledHolds ==
  ASSUME TypeOK, Known, Cancelled, kind' = kind, strayed => strayed'
  PROVE  /\ progress' \in BOOLEAN /\ timers' \subseteq TimerSet
         /\ on' = on /\ act' \in Acts /\ armed' \in BOOLEAN
         /\ Known'
<1>1. /\ on' = on /\ act' = "none" /\ act' \in Acts
      /\ kind \in Kinds /\ armed \in BOOLEAN /\ progress \in BOOLEAN
      /\ timers \subseteq TimerSet
  BY DEF Cancelled, Ignored, TypeOK, TimerSet, Acts
<1>2. CASE kind # "direct" /\ progress
  <2>1. Complete /\ armed' = FALSE
    BY <1>2 DEF Cancelled
  <2>2. QED
    BY <1>1, <2>1, CompleteType, CompleteKnown
<1>3. CASE ~(kind # "direct" /\ progress)
  <2>1. /\ progress' = progress /\ timers' = timers /\ armed' \in BOOLEAN
        /\ progress = FALSE
    BY <1>1, <1>3 DEF Cancelled, Known, ProgressIsArmed
  <2>2. CASE kind # "memo" \/ ~strayed
    <3>1. timers = {}
      BY <2>1, <2>2 DEF Known, TimersKnown
    <3>2. Known'
      BY <2>1, <3>1 DEF Known, ProgressIsArmed, TimersKnown, TimersTell, SomethingEndsIt
    <3>3. QED
      BY <1>1, <2>1, <3>2
  <2>3. CASE kind = "memo" /\ strayed
    <3>1. Known'
      BY <2>1, <2>3 DEF Known, ProgressIsArmed, TimersKnown, TimersTell, SomethingEndsIt
    <3>2. QED
      BY <1>1, <2>1, <3>1
  <2>4. QED
    BY <2>2, <2>3
<1>4. QED
  BY <1>2, <1>3

(* A memo that is released: nothing, a tap at once, or one that waits.     *)
LEMMA ReleaseMemoHolds ==
  ASSUME TypeOK, Known, ReleaseMemo, kind' = kind, strayed' = strayed,
         strayed \/ ~progress \/ (fingers > 0 /\ fingers' = 0)
  PROVE  /\ progress' \in BOOLEAN /\ timers' \subseteq TimerSet
         /\ on' \in BOOLEAN /\ act' \in Acts /\ armed' \in BOOLEAN
         /\ Known'
<1>1. /\ kind = "memo" /\ on \in BOOLEAN /\ armed \in BOOLEAN /\ progress \in BOOLEAN
      /\ timers \subseteq TimerSet
  BY DEF ReleaseMemo, TypeOK, TimerSet
<1>2. CASE ~progress /\ Ignored /\ UNCHANGED <<progress, timers, armed>>
  <2>1. timers # {} => strayed
    BY <1>2 DEF Known, TimersKnown
  <2>2. Known'
    BY <1>1, <1>2, <2>1 DEF Known, ProgressIsArmed, TimersKnown, TimersTell, SomethingEndsIt
  <2>3. QED
    BY <1>1, <1>2, <2>2 DEF Ignored, Acts
<1>3. CASE Complete /\ Acted("tap")
  <2>1. act' \in Acts /\ armed' \in BOOLEAN /\ on' \in BOOLEAN
    BY <1>1, <1>3, ActedType DEF Acts
  <2>2. QED
    BY <1>3, <2>1, CompleteType, CompleteKnown
<1>4. CASE /\ progress
           /\ timers' = Forget(ClearedLong(timers), "tap")
                          \union {Timer("tap", IF since < Double THEN Double - since ELSE 0)}
           /\ Ignored
           /\ UNCHANGED <<progress, armed>>
  <2> DEFINE left == IF since < Double THEN Double - since ELSE 0
             new == Timer("tap", left)
  <2>1. left \in 0 .. Long
    BY TimesAssumption DEF TypeOK
  <2> HIDE DEF left
  <2>2. new \in TimerSet /\ new.what = "tap" /\ new.held = TRUE
    BY <2>1, TimerType
  <2> HIDE DEF new
  <2>3. timers' = Forget(ClearedLong(timers), "tap") \union {new}
    BY <1>4 DEF new, left
  <2>4. ClearedLong(timers) \in SUBSET TimerSet
    BY <1>1, ClearedFacts
  <2>5. timers' \subseteq TimerSet
    BY <2>2, <2>3, <2>4, ForgetType
  <2>6. ~strayed => timers' = {new}
    <3>1. SUFFICES ASSUME ~strayed PROVE timers' = {new}
      OBVIOUS
    <3>2. \A t \in timers : t.held /\ t.what # "tap"
      BY <1>4, <3>1 DEF Known, TimersKnown, TimersTell, TypeOK
    <3>3. \A t \in timers : t.what = "long"
      BY <1>1, <3>2 DEF TimerSet
    <3>4. ClearedLong(timers) = {}
      BY <3>2, <3>3 DEF ClearedLong
    <3>5. Forget(ClearedLong(timers), "tap") = {}
      BY <3>4 DEF Forget
    <3>6. QED
      BY <2>3, <3>5
  <2>7. Known'
    <3>1. progress' = progress /\ armed' = armed /\ timers' # {}
      BY <1>4, <2>3
    <3>2. CASE strayed
      BY <1>1, <3>1, <3>2 DEF Known, ProgressIsArmed, TimersKnown, TimersTell, SomethingEndsIt
    <3>3. CASE ~strayed
      <4>1. timers' = {new}
        BY <2>6, <3>3
      <4>2. QED
        BY <1>1, <1>4, <2>2, <3>1, <4>1
           DEF Known, ProgressIsArmed, TimersKnown, TimersTell, SomethingEndsIt
    <3>4. QED
      BY <3>2, <3>3
  <2>8. QED
    BY <1>1, <1>4, <2>5, <2>7 DEF Ignored, Acts
<1>5. QED
  BY <1>2, <1>3, <1>4 DEF ReleaseMemo

(* A release, by a finger, a button or a mouseup made of a touch.          *)
LEMMA HandleReleaseHolds ==
  ASSUME IInv, HandleRelease, TouchType',
         kind # "memo" \/ strayed \/ ~progress \/ (fingers > 0 /\ fingers' = 0)
  PROVE  Core'
<1>1. TypeOK /\ Known /\ DirectFollows
  BY DEF IInv, Core
<1>2. /\ kind' = kind /\ input' = input /\ locked' = locked /\ since' = since
      /\ kind = "direct" /\ fingers' > 0 => parted'
      /\ strayed' = (strayed \/ ~Heard) /\ strayed' \in BOOLEAN
  BY <1>1 DEF HandleRelease, TypeOK
<1>3. /\ kind \in Kinds /\ on \in BOOLEAN /\ armed \in BOOLEAN /\ progress \in BOOLEAN
      /\ strayed \in BOOLEAN /\ since' \in 0 .. Long /\ timers \subseteq TimerSet
  BY <1>1, <1>2 DEF TypeOK, TimerSet
<1>4. CASE Dropped
  <2>1. kind = "memo" \/ kind = "control" \/ kind = "direct"
    BY <1>3, <1>4 DEF Dropped, Kinds
  <2>2. /\ progress' \in BOOLEAN /\ timers' \subseteq TimerSet
        /\ armed' \in BOOLEAN /\ act' \in Acts /\ on' = on /\ Known'
    BY <1>1, <1>2, <1>4, <2>1, DroppedHolds
  <2>3. TypeOK'
    BY <1>1, <1>2, <1>3, <2>2, TypeByParts
  <2>4. strayed'
    BY <1>2, <1>4 DEF Dropped, Heard
  <2>5. QED
    BY <2>2, <2>3, <2>4 DEF Core, DirectFollows
<1>5. CASE Heard /\ ReleaseTap
  <2>1. /\ progress' \in BOOLEAN /\ timers' \subseteq TimerSet
        /\ on' \in BOOLEAN /\ act' \in Acts /\ armed' \in BOOLEAN /\ Known'
    BY <1>1, <1>2, <1>5, ReleaseTapHolds
  <2>2. TypeOK'
    BY <1>1, <1>2, <1>3, <2>1, TypeByParts
  <2>3. kind # "direct"
    BY <1>5 DEF ReleaseTap
  <2>4. QED
    BY <1>2, <2>1, <2>2, <2>3 DEF Core, DirectFollows
<1>6. CASE Heard /\ ReleaseMemo
  <2>1. strayed' = strayed
    BY <1>2, <1>3, <1>6
  <2>2. /\ progress' \in BOOLEAN /\ timers' \subseteq TimerSet
        /\ on' \in BOOLEAN /\ act' \in Acts /\ armed' \in BOOLEAN /\ Known'
    BY <1>1, <1>2, <1>6, <2>1, ReleaseMemoHolds DEF ReleaseMemo
  <2>3. TypeOK'
    BY <1>1, <1>2, <1>3, <2>2, TypeByParts
  <2>4. kind # "direct"
    BY <1>6 DEF ReleaseMemo
  <2>5. QED
    BY <1>2, <2>2, <2>3, <2>4 DEF Core, DirectFollows
<1>7. CASE Heard /\ ReleaseDirect
  <2>1. /\ kind = "direct" /\ on' = FALSE /\ act' = "none"
        /\ progress' = progress /\ timers' = timers /\ armed' = armed
    BY <1>7 DEF ReleaseDirect
  <2>2. TypeOK'
    BY <1>1, <1>2, <1>3, <2>1, TypeByParts DEF Acts
  <2>3. progress = FALSE /\ timers = {}
    BY <1>1, <1>3, <2>1 DEF Known, ProgressIsArmed, TimersKnown
  <2>4. Known'
    BY <1>2, <2>1, <2>3 DEF Known, ProgressIsArmed, TimersKnown, TimersTell, SomethingEndsIt
  <2>5. DirectFollows'
    BY <1>2, <2>1 DEF DirectFollows
  <2>6. QED
    BY <2>2, <2>4, <2>5 DEF Core
<1>8. QED
  BY <1>4, <1>5, <1>6, <1>7 DEF HandleRelease

LEMMA MoveHolds ==
  ASSUME IInv, Move \/ TouchCancel, TouchType'
  PROVE  Core'
<1>1. TypeOK /\ Known /\ DirectFollows
  BY DEF IInv, Core
<1>2. /\ kind' = kind /\ input' = input /\ locked' = locked /\ since' = since
      /\ strayed => strayed'
      /\ strayed' \in BOOLEAN
      /\ kind = "direct" => strayed' \/ UNCHANGED <<touch, parted>>
  BY <1>1 DEF Move, TouchCancel, TypeOK
<1>3. /\ kind \in Kinds /\ on \in BOOLEAN /\ strayed \in BOOLEAN /\ since' \in 0 .. Long
  BY <1>1, <1>2 DEF TypeOK
<1>4. kind = "direct" /\ ~strayed' => UNCHANGED <<touch, parted>> /\ ~strayed
  BY <1>2
<1>5. CASE Dropped
  <2>1. kind = "memo" \/ kind = "control" \/ kind = "direct"
    BY <1>3, <1>5 DEF Dropped, Kinds
  <2>2. /\ progress' \in BOOLEAN /\ timers' \subseteq TimerSet
        /\ armed' \in BOOLEAN /\ act' \in Acts /\ on' = on /\ Known'
    BY <1>1, <1>2, <1>5, <2>1, DroppedHolds
  <2>3. TypeOK'
    BY <1>1, <1>2, <1>3, <2>2, TypeByParts
  <2>4. QED
    BY <1>1, <1>2, <1>4, <2>2, <2>3 DEF Core, DirectFollows, touch
<1>6. CASE Cancelled
  <2>2. /\ progress' \in BOOLEAN /\ timers' \subseteq TimerSet
        /\ armed' \in BOOLEAN /\ act' \in Acts /\ on' = on /\ Known'
    BY <1>1, <1>2, <1>6, CancelledHolds
  <2>3. TypeOK'
    BY <1>1, <1>2, <1>3, <2>2, TypeByParts
  <2>4. QED
    BY <1>1, <1>2, <1>4, <2>2, <2>3 DEF Core, DirectFollows, touch
<1>7. CASE ReleaseTap
  <2>1. /\ progress' \in BOOLEAN /\ timers' \subseteq TimerSet
        /\ on' \in BOOLEAN /\ act' \in Acts /\ armed' \in BOOLEAN /\ Known'
    BY <1>1, <1>2, <1>7, ReleaseTapHolds
  <2>2. TypeOK'
    BY <1>1, <1>2, <1>3, <2>1, TypeByParts
  <2>3. kind # "direct"
    BY <1>7 DEF ReleaseTap
  <2>4. QED
    BY <1>2, <2>1, <2>2, <2>3 DEF Core, DirectFollows
<1>8. QED
  BY <1>5, <1>6, <1>7 DEF Move, TouchCancel

(* A second finger and the right button end what a memo had begun.         *)
LEMMA CompletedHolds ==
  ASSUME IInv, SecondFinger \/ ContextMenu, TouchType'
  PROVE  Core'
<1>1. TypeOK /\ Known /\ DirectFollows
  BY DEF IInv, Core
<1>2. UNCHANGED <<kind, input, locked, since, strayed>> /\ kind = "memo"
  BY DEF SecondFinger, ContextMenu
<1>3. /\ since' \in 0 .. Long /\ strayed' \in BOOLEAN /\ on \in BOOLEAN
      /\ kind' = kind /\ strayed' = strayed
  BY <1>1, <1>2 DEF TypeOK
<1>4. CASE Dropped
  <2>1. /\ progress' \in BOOLEAN /\ timers' \subseteq TimerSet
        /\ armed' \in BOOLEAN /\ act' \in Acts /\ on' = on /\ Known'
    BY <1>1, <1>2, <1>3, <1>4, DroppedHolds
  <2>2. TypeOK'
    BY <1>1, <1>2, <1>3, <2>1, TypeByParts
  <2>3. QED
    BY <1>2, <2>1, <2>2 DEF Core, DirectFollows
<1>5. CASE Complete /\ (Acted("pair") \/ Acted("menu"))
  <2>1. act' \in Acts /\ armed' \in BOOLEAN /\ on' \in BOOLEAN
    BY <1>3, <1>5, ActedType DEF Acts
  <2>2. progress' \in BOOLEAN /\ timers' \subseteq TimerSet /\ Known'
    BY <1>1, <1>3, <1>5, CompleteType, CompleteKnown
  <2>3. TypeOK'
    BY <1>1, <1>2, <1>3, <2>1, <2>2, TypeByParts
  <2>4. QED
    BY <1>2, <2>2, <2>3 DEF Core, DirectFollows
<1>6. QED
  BY <1>4, <1>5 DEF SecondFinger, ContextMenu

LEMMA ReleaseOutsideHolds ==
  ASSUME IInv, ReleaseOutside
  PROVE  Core'
<1>1. TypeOK /\ Known
  BY DEF IInv, Core
<1>2. /\ UNCHANGED <<kind, input, compat, locked, progress, since, timers, armed, parted>>
      /\ fingers' = 0 /\ strayed' = TRUE /\ act' = "none" /\ on' = on
  BY DEF ReleaseOutside, Ignored
<1>3. TypeOK'
  BY <1>1, <1>2 DEF TypeOK, Acts
<1>4. Known'
  BY <1>1, <1>2 DEF Known, ProgressIsArmed, TimersKnown, TimersTell, SomethingEndsIt
<1>5. QED
  BY <1>2, <1>3, <1>4 DEF Core, DirectFollows

-----------------------------------------------------------------------------
(* A timer that fires was the only one, unless a memo strayed.             *)
LEMMA FiredHolds ==
  ASSUME IInv, NEW t \in timers, progress' = FALSE, timers' = Cleared(timers) \ {t},
         UNCHANGED <<kind, input, touch, locked, since, strayed, parted>>,
         \/ Acted("tap") \/ Acted("clear") \/ Acted("long")
         \/ Ignored /\ UNCHANGED armed
  PROVE  Core'
<1>1. TypeOK /\ Known /\ DirectFollows
  BY DEF IInv, Core
<1>2. /\ TouchType' /\ since' \in 0 .. Long /\ strayed' \in BOOLEAN
      /\ on \in BOOLEAN /\ armed \in BOOLEAN /\ timers \subseteq TimerSet
  BY <1>1 DEF TypeOK, TimerSet, TouchType, touch
<1>3. act' \in Acts /\ armed' \in BOOLEAN /\ on' \in BOOLEAN
  BY <1>2, ActedType, IgnoredType DEF Acts
<1>4. timers' \subseteq timers /\ (kind # "memo" \/ ~strayed => timers' = {})
  BY <1>1, ClearedFacts DEF Known, TimersKnown
<1>5. TypeOK'
  BY <1>1, <1>2, <1>3, <1>4, TypeByParts
<1>6. Known'
  BY <1>1, <1>4 DEF Known, ProgressIsArmed, TimersKnown, TimersTell, SomethingEndsIt, touch
<1>7. kind = "direct" => FALSE
  BY <1>1 DEF Known, TimersKnown, ProgressIsArmed
<1>8. QED
  BY <1>5, <1>6, <1>7 DEF Core, DirectFollows

LEMMA FireHolds ==
  ASSUME IInv, FireLong \/ FireTap
  PROVE  Core'
<1>1. Due \subseteq timers /\ progress \in BOOLEAN
  BY DEF Due, IInv, Core, TypeOK
<1>2. CASE FireLong
  <2>1. PICK t \in Due :
          /\ progress' = IF kind = "helper" /\ ~progress THEN progress ELSE FALSE
          /\ timers' = Cleared(timers) \ {t}
          /\ IF kind = "helper" /\ ~progress THEN Ignored /\ UNCHANGED armed
             ELSE Acted(IF kind = "memo" THEN "clear" ELSE "long")
          /\ UNCHANGED <<kind, input, touch, locked, since, strayed, parted>>
    BY <1>2 DEF FireLong
  <2>2. progress' = FALSE
    BY <1>1, <2>1
  <2>3. Acted("clear") \/ Acted("long") \/ (Ignored /\ UNCHANGED armed)
    BY <2>1
  <2>4. QED
    BY <1>1, <2>1, <2>2, <2>3, FiredHolds
<1>3. CASE FireTap
  <2>1. PICK t \in Due :
          /\ progress' = FALSE
          /\ timers' = Cleared(timers) \ {t}
          /\ Acted("tap")
          /\ UNCHANGED <<kind, input, touch, locked, since, strayed, parted>>
    BY <1>3 DEF FireTap
  <2>2. QED
    BY <1>1, <2>1, FiredHolds
<1>4. QED
  BY <1>2, <1>3

LEMMA TickHolds ==
  ASSUME IInv, Tick
  PROVE  Core'
<1>1. TypeOK /\ Known /\ DirectFollows
  BY DEF IInv, Core
<1>2. /\ UNCHANGED <<kind, input, fingers, compat, locked, progress, on, armed, strayed, parted>>
      /\ act' = "none"
  BY DEF Tick, touch, history
<1>3. since' \in 0 .. Long
  BY <1>1, TimesAssumption DEF Tick, TypeOK
<1>4. /\ timers' \subseteq TimerSet
      /\ timers' = {} <=> timers = {}
      /\ \A u \in timers' : \E t \in timers : u.what = t.what /\ u.held = t.held
  BY <1>1, TickTimers
<1>5. TypeOK'
  BY <1>1, <1>2, <1>3, <1>4 DEF TypeOK, TimerSet, Acts
<1>6. Known'
  <2>1. ProgressIsArmed' /\ SomethingEndsIt'
    BY <1>1, <1>2, <1>4 DEF Known, ProgressIsArmed, SomethingEndsIt
  <2>2. TimersKnown'
    BY <1>1, <1>2, <1>4 DEF Known, TimersKnown
  <2>3. TimersTell'
    BY <1>1, <1>2, <1>4 DEF Known, TimersTell
  <2>4. QED
    BY <2>1, <2>2, <2>3 DEF Known
<1>7. QED
  BY <1>1, <1>2, <1>5, <1>6 DEF Core, DirectFollows

LEMMA LockHolds ==
  ASSUME IInv, Lock
  PROVE  Core'
BY DEF IInv, Core, Lock, TypeOK, Acts, Known, ProgressIsArmed, TimersKnown, TimersTell,
       SomethingEndsIt, DirectFollows, touch, history

-----------------------------------------------------------------------------
(* What a step does to the fingers and to the mouse events made of them.   *)
LEMMA TouchTypes ==
  ASSUME TypeOK, Next
  PROVE  TouchType'
<1>1. TouchType
  BY DEF TypeOK, TouchType
<1>2. CASE Press
  <2>1. parted' = FALSE /\ compat' \in {"none", "due", "pressed", "lifted"}
    BY <1>1, <1>2 DEF Press, HandlePress, TouchType
  <2>2. fingers \in 0 .. 2
    BY <1>1 DEF TouchType
  <2>3. fingers' = fingers + 1 /\ fingers < 2
    BY <1>2, <2>2 DEF Press
  <2>4. fingers' \in 0 .. 2
    BY <2>2, <2>3
  <2>5. QED
    BY <2>1, <2>4 DEF TouchType
<1>3. CASE CompatPress
  BY <1>1, <1>3 DEF CompatPress, HandlePress, TouchType
<1>4. CASE SecondFinger
  BY <1>1, <1>4 DEF SecondFinger, TouchType
<1>5. CASE Release
  <2>1. fingers' = fingers - 1 /\ fingers > 0
    BY <1>5 DEF Release, Lifted
  <2>2. compat' \in {"none", "due", "pressed", "lifted"}
    BY <1>1, <1>5 DEF Release, Lifted, TouchType
  <2>3. parted' \in BOOLEAN
    BY <1>1, <1>5 DEF Release, HandleRelease, TouchType
  <2>4. QED
    BY <1>1, <2>1, <2>2, <2>3 DEF TouchType
<1>6. CASE CompatRelease
  <2>1. parted' \in BOOLEAN
    BY <1>1, <1>6 DEF CompatRelease, HandleRelease, TouchType
  <2>2. QED
    BY <1>1, <1>6, <2>1 DEF CompatRelease, TouchType
<1>7. CASE ReleaseOutside
  BY <1>1, <1>7 DEF ReleaseOutside, TouchType
<1>8. CASE TouchCancel
  <2>1. fingers' = fingers - 1 /\ fingers > 0 /\ parted' = parted
    BY <1>8 DEF TouchCancel, Lifted
  <2>2. compat' \in {"none", "due", "pressed", "lifted"}
    BY <1>1, <1>8 DEF TouchCancel, Lifted, TouchType
  <2>3. QED
    BY <1>1, <2>1, <2>2 DEF TouchType
<1>9. CASE Move \/ ContextMenu \/ FireLong \/ FireTap \/ Tick \/ Lock
  <2>1. UNCHANGED <<fingers, compat, parted>>
    BY <1>9 DEF Move, ContextMenu, FireLong, FireTap, Tick, Lock, touch, history
  <2>2. QED
    BY <1>1, <2>1 DEF TouchType
<1>10. QED
  BY <1>2, <1>3, <1>4, <1>5, <1>6, <1>7, <1>8, <1>9 DEF Next

(* A helper has nothing in progress when a touch begins alone.             *)
LEMMA NothingBegun ==
  ASSUME IInv, kind = "helper", ~strayed, fingers = 0
  PROVE  ~progress
<1>1. \A t \in timers : t.what = "long" /\ ~(t.what = "long")
  BY DEF IInv, Core, Known, TimersTell
<1>2. QED
  BY <1>1 DEF IInv, Core, Known, SomethingEndsIt

LEMMA TouchKnownHolds ==
  ASSUME IInv, Next
  PROVE  TouchKnown'
<1>1. /\ TouchKnown /\ kind \in Kinds /\ input \in {"mouse", "touch"}
      /\ fingers \in 0 .. 2 /\ progress \in BOOLEAN /\ strayed \in BOOLEAN
  BY DEF IInv, Core, TypeOK
<1> USE DEF TouchKnown
<1>2. Complete => ~progress'
  BY DEF Complete
<1>3. CASE Press
  <2>1. kind' = kind /\ strayed' = (strayed \/ ~Heard \/ (kind = "memo" /\ progress /\ since >= Double))
    BY <1>3 DEF Press, HandlePress
  <2>2. SUFFICES ASSUME ~strayed' PROVE TouchKnown'
    OBVIOUS
  <2>3. ~strayed /\ Heard
    BY <1>1, <2>1, <2>2
  <2>4. kind # "direct" /\ fingers = 0 => StartPrevented
    BY <1>1, <2>3, NothingBegun DEF StartPrevented, Kinds
  <2>5. kind # "direct" => compat' = "none"
    BY <1>1, <1>3, <2>3, <2>4 DEF Press
  <2>6. kind = "memo" => fingers' # 2
    BY <1>1, <1>3 DEF Press
  <2>7. QED
    BY <2>1, <2>5, <2>6
<1>4. CASE CompatPress \/ CompatRelease
  <2>1. kind' = kind /\ (strayed => strayed')
    BY <1>4 DEF CompatPress, CompatRelease, HandlePress, HandleRelease
  <2>2. strayed \/ kind = "direct"
    BY <1>1, <1>4 DEF CompatPress, CompatRelease
  <2>3. QED
    BY <2>1, <2>2
<1>5. CASE SecondFinger
  BY <1>1, <1>2, <1>5 DEF SecondFinger, Dropped
<1>6. CASE Release \/ TouchCancel
  <2>1. /\ kind' = kind /\ (strayed => strayed') /\ fingers' = fingers - 1
        /\ compat = "none" => compat' = "none"
    BY <1>6 DEF Release, TouchCancel, HandleRelease, Lifted
  <2>2. fingers' # 2
    BY <1>1, <2>1
  <2>3. QED
    BY <1>1, <2>1, <2>2
<1>7. CASE ReleaseOutside
  BY <1>7 DEF ReleaseOutside
<1>8. CASE Move \/ ContextMenu \/ FireLong \/ FireTap
  <2>1. UNCHANGED <<kind, fingers, compat, strayed>> /\ (progress' => progress)
    BY <1>1, <1>2, <1>8 DEF Move, ContextMenu, FireLong, FireTap, touch, Dropped, Cancelled
  <2>2. QED
    BY <1>1, <2>1
<1>9. CASE Tick \/ Lock
  BY <1>1, <1>9 DEF Tick, Lock, touch, history
<1>10. QED
  BY <1>3, <1>4, <1>5, <1>6, <1>7, <1>8, <1>9 DEF Next

LEMMA InitHolds == Init => IInv
<1> SUFFICES ASSUME Init PROVE IInv
  OBVIOUS
<1>1. Long \in 0 .. Long /\ 0 \in 0 .. 2
  BY TimesAssumption
<1>2. TypeOK
  BY <1>1 DEF Init, TypeOK, Acts
<1>3. Known /\ DirectFollows /\ TouchKnown
  BY DEF Init, Known, ProgressIsArmed, TimersKnown, TimersTell, SomethingEndsIt, DirectFollows,
         TouchKnown
<1>4. QED
  BY <1>2, <1>3 DEF IInv, Core

LEMMA StepHolds == IInv /\ [Next]_vars => IInv'
<1> SUFFICES ASSUME IInv, [Next]_vars PROVE IInv'
  OBVIOUS
<1>1. CASE UNCHANGED vars
  BY <1>1 DEF vars, touch, history, IInv, Core, TypeOK, Known, TouchKnown, ProgressIsArmed,
              TimersKnown, TimersTell, SomethingEndsIt, DirectFollows
<1>2. CASE Next
  <2>1. TouchType' /\ TouchKnown'
    BY <1>2, TouchTypes, TouchKnownHolds DEF IInv, Core
  <2>2. /\ fingers \in 0 .. 2 /\ TouchKnown /\ kind \in Kinds
        /\ strayed \in BOOLEAN /\ progress \in BOOLEAN
    BY DEF IInv, Core, TypeOK
  <2>3. CASE Press
    <3>1. fingers' > 0 /\ HandlePress
      BY <2>2, <2>3 DEF Press
    <3>2. QED
      BY <2>1, <3>1, HandlePressHolds DEF IInv
  <2>4. CASE CompatPress
    <3>1. /\ HandlePress /\ fingers' = fingers
          /\ fingers > 0 \/ compat' = "lifted"
      BY <2>2, <2>4 DEF CompatPress
    <3>2. strayed' \/ kind = "direct"
      BY <2>2, <2>4, <3>1 DEF TouchKnown, CompatPress, HandlePress
    <3>3. QED
      BY <2>1, <3>1, <3>2, HandlePressHolds DEF IInv
  <2>5. CASE Release
    <3>1. HandleRelease /\ fingers' = fingers - 1 /\ fingers > 0
      BY <2>5 DEF Release, Lifted
    <3>2. kind # "memo" \/ strayed \/ ~progress \/ (fingers > 0 /\ fingers' = 0)
      BY <2>2, <3>1 DEF TouchKnown
    <3>3. QED
      BY <2>1, <3>1, <3>2, HandleReleaseHolds DEF IInv
  <2>6. CASE CompatRelease
    <3>1. HandleRelease /\ (strayed \/ kind # "memo")
      BY <2>2, <2>6 DEF CompatRelease, TouchKnown
    <3>2. QED
      BY <2>1, <3>1, HandleReleaseHolds DEF IInv
  <2>7. QED
    BY <1>2, <2>1, <2>3, <2>4, <2>5, <2>6, CompletedHolds, ReleaseOutsideHolds, MoveHolds,
       FireHolds, TickHolds, LockHolds DEF Next, IInv
<1>3. QED
  BY <1>1, <1>2

(* Every timer under way is known and belongs to the press in progress.    *)
THEOREM TimersAreKnown == Spec => []IInv
BY InitHolds, StepHolds, PTL DEF Spec

(* What a press began is ended by an event or a timer, and a direct        *)
(* control is on while a finger holds it and off when none does, but for   *)
(* the release of another finger and the mouse events made of a touch, for *)
(* any times and delays (lib.js:3080-3095).                                *)
THEOREM GesturesAreEnded == Spec => []GesturesHold
<1>1. IInv => GesturesHold
  BY DEF IInv, Core, Known, GesturesHold
<1>2. QED
  BY <1>1, TimersAreKnown, PTL

-----------------------------------------------------------------------------
(* Whatever acts: something is in progress, or a memo strayed.             *)
LEMMA ActsAreArmed ==
  ASSUME IInv, Next
  PROVE  act' \notin {"none", "pair", "menu"} => armed \/ (kind = "memo" /\ strayed)
<1> SUFFICES ASSUME act' \notin {"none", "pair", "menu"}
             PROVE  armed \/ (kind = "memo" /\ strayed)
  OBVIOUS
<1>1. progress => armed
  BY DEF IInv, Core, Known, ProgressIsArmed
<1>2. ~Dropped /\ ~Ignored
  BY DEF Dropped, Ignored
<1>3. CASE Press \/ CompatPress
  BY <1>1, <1>2, <1>3 DEF Press, CompatPress, HandlePress, PressTap, PressMemo, PressDirect
<1>4. CASE Release \/ CompatRelease
  BY <1>1, <1>2, <1>4
     DEF Release, CompatRelease, HandleRelease, ReleaseTap, ReleaseMemo, ReleaseDirect
<1>5. CASE TouchCancel
  BY <1>1, <1>2, <1>5 DEF TouchCancel, Cancelled, ReleaseTap
<1>6. CASE FireLong \/ FireTap
  <2>1. timers # {}
    BY <1>6 DEF FireLong, FireTap, Due
  <2>2. QED
    BY <1>1, <2>1 DEF IInv, Core, Known, TimersKnown
<1>7. CASE SecondFinger \/ ReleaseOutside \/ Move \/ ContextMenu \/ Tick \/ Lock
  BY <1>2, <1>7 DEF SecondFinger, ReleaseOutside, Move, ContextMenu, Tick, Lock, Cancelled, Acted
<1>8. QED
  BY <1>3, <1>4, <1>5, <1>6, <1>7 DEF Next

(* Only the long timer calls the long tap.                                 *)
LEMMA LongActsHeld ==
  ASSUME IInv, Next
  PROVE  act' \in {"long", "clear"} => fingers > 0 \/ strayed
<1> SUFFICES ASSUME act' \in {"long", "clear"}
             PROVE  fingers > 0 \/ strayed
  OBVIOUS
<1>1. ~Dropped /\ ~Ignored /\ ~Acted("tap") /\ ~Acted("set") /\ ~Acted("pair") /\ ~Acted("menu")
  BY DEF Dropped, Ignored, Acted
<1>2. ~Press /\ ~CompatPress /\ ~Release /\ ~CompatRelease /\ ~TouchCancel
  BY <1>1 DEF Press, CompatPress, HandlePress, PressTap, PressMemo, PressDirect, Release,
              CompatRelease, HandleRelease, ReleaseTap, ReleaseMemo, ReleaseDirect,
              TouchCancel, Cancelled
<1>3. ~SecondFinger /\ ~ReleaseOutside /\ ~Move /\ ~ContextMenu /\ ~Tick /\ ~Lock /\ ~FireTap
  BY <1>1 DEF SecondFinger, ReleaseOutside, Move, ContextMenu, Tick, Lock, Cancelled, FireTap
<1>4. FireLong
  BY <1>2, <1>3 DEF Next
<1>5. \E t \in timers : t.what = "long"
  BY <1>4 DEF FireLong, Due
<1>6. QED
  BY <1>5 DEF IInv, Core, Known, TimersTell

(* One press is one call: none that was cancelled, acted on or never was   *)
(* comes to act, and a long tap takes effect while the finger is down,     *)
(* however late timers are and whatever events come in between.            *)
THEOREM PressesActOnce == Spec => PressActsOnce
<1>1. IInv /\ [Next]_vars =>
        [act' \notin {"none", "pair", "menu"} => armed \/ (kind = "memo" /\ strayed)]_vars
  BY ActsAreArmed
<1>2. IInv /\ [Next]_vars => [act' \in {"long", "clear"} => fingers > 0 \/ strayed]_vars
  BY LongActsHeld
<1>3. QED
  BY <1>1, <1>2, TimersAreKnown, PTL DEF Spec, PressActsOnce, OnePressOneAct, LongMeansHeld

-----------------------------------------------------------------------------
(* The shield. Its flags are flags.                                        *)
Flags ==
  /\ open \in BOOLEAN /\ resting \in BOOLEAN /\ timer \in BOOLEAN
  /\ selecting \in BOOLEAN /\ complete \in BOOLEAN /\ chain \in BOOLEAN
  /\ broken \in BOOLEAN /\ renewed \in BOOLEAN

(* The timer runs exactly while a thumb rests, never during a selection,   *)
(* and neither goes on while the shield is locked.                         *)
OneAtATime ==
  ~broken => /\ timer = resting
             /\ ~(timer /\ selecting)
             /\ (timer \/ selecting) => open

ShieldInv == Flags /\ OneAtATime /\ Shield!SelectionIsHeld /\ Shield!FollowsAgain

-----------------------------------------------------------------------------
(* A choice that is shown leaves a transition, or is not waited for.       *)
LEMMA ShownFollows ==
  ASSUME NEW x, chain \in BOOLEAN, renewed' = renewed, Shield!Shown(x)
  PROVE  complete' \in BOOLEAN /\ chain' \in BOOLEAN /\ Shield!FollowsAgain'
BY DEF Shield!Shown, Shield!FollowsAgain

LEMMA UnchosenFollows ==
  ASSUME Flags, Shield!FollowsAgain, renewed' = renewed, Shield!Unchosen
  PROVE  complete' \in BOOLEAN /\ chain' \in BOOLEAN /\ Shield!FollowsAgain'
BY DEF Shield!Unchosen, Shield!FollowsAgain, Flags

(* What a touch that comes down does.                                      *)
LEMMA ShieldDownHolds ==
  ASSUME ShieldInv, NEW f, NEW x, Shield!Down(f, x)
  PROVE  ShieldInv'
<1>1. renewed' = renewed /\ open' = open /\ broken' = broken /\ selecting' = selecting
  BY DEF Shield!Down
<1>2. complete' \in BOOLEAN /\ chain' \in BOOLEAN /\ Shield!FollowsAgain'
  BY <1>1, UnchosenFollows DEF Shield!Down, ShieldInv
<1>3. CASE open /\ ~selecting /\ x = NoVector
  <2>1. resting' = TRUE /\ timer' = TRUE /\ first' = f /\ f \in touching'
    BY <1>3 DEF Shield!Down, Shield!Start
  <2>2. Flags'
    BY <1>1, <1>2, <2>1 DEF ShieldInv, Flags
  <2>3. OneAtATime'
    BY <1>1, <1>3, <2>1 DEF OneAtATime
  <2>4. Shield!SelectionIsHeld'
    BY <2>1 DEF Shield!SelectionIsHeld
  <2>5. QED
    BY <1>2, <2>2, <2>3, <2>4 DEF ShieldInv
<1>4. CASE ~(open /\ ~selecting /\ x = NoVector)
  <2>1. resting' = resting /\ timer' = timer /\ first' = first
    BY <1>4 DEF Shield!Down, Shield!Start
  <2>2. Flags'
    BY <1>1, <1>2, <2>1 DEF ShieldInv, Flags
  <2>3. OneAtATime'
    BY <1>1, <2>1 DEF ShieldInv, OneAtATime
  <2>4. touching \subseteq touching'
    BY DEF Shield!Down
  <2>5. Shield!SelectionIsHeld'
    BY <1>1, <2>1, <2>4 DEF ShieldInv, Shield!SelectionIsHeld
  <2>6. QED
    BY <1>2, <2>2, <2>3, <2>5 DEF ShieldInv
<1>5. QED
  BY <1>3, <1>4

(* Lifting any thumb ends what is under way, unless it was broken before.  *)
LEMMA ShieldUpHolds ==
  ASSUME ShieldInv, NEW f, NEW x, Shield!Up(f, x)
  PROVE  ShieldInv'
<1>1. renewed' = renewed /\ open' = open
  BY DEF Shield!Up
<1>2. Flags /\ OneAtATime /\ Shield!FollowsAgain /\ chain \in BOOLEAN
  BY DEF ShieldInv, Flags
<1>3. CASE open /\ Shield!EndOfRest
  <2>1. resting' = FALSE /\ timer' = FALSE /\ selecting' = selecting /\ broken' = broken
    BY <1>3 DEF Shield!EndOfRest, Shield!Stopped
  <2>2. complete' \in BOOLEAN /\ chain' \in BOOLEAN /\ Shield!FollowsAgain'
    BY <1>1, <1>2, <1>3, UnchosenFollows DEF Shield!EndOfRest
  <2>3. ~broken => ~selecting
    BY <1>2, <1>3 DEF Shield!EndOfRest, OneAtATime
  <2>4. Flags'
    BY <1>1, <1>2, <2>1, <2>2 DEF Flags
  <2>5. OneAtATime' /\ Shield!SelectionIsHeld'
    BY <2>1, <2>3 DEF OneAtATime, Shield!SelectionIsHeld
  <2>6. QED
    BY <2>2, <2>4, <2>5 DEF ShieldInv
<1>4. CASE open /\ Shield!EndOfSelection(x)
  <2>1. /\ resting' = resting /\ timer' = timer
        /\ selecting' = (x = Reserved)
        /\ broken' = (broken \/ x = Reserved)
    BY <1>4 DEF Shield!EndOfSelection
  <2>2. complete' \in BOOLEAN /\ chain' \in BOOLEAN /\ Shield!FollowsAgain'
    BY <1>1, <1>2, <1>4, UnchosenFollows, ShownFollows DEF Shield!EndOfSelection
  <2>3. ~broken' => ~timer' /\ ~resting' /\ ~selecting'
    BY <1>2, <1>4, <2>1 DEF Shield!EndOfSelection, OneAtATime, Flags
  <2>4. Flags'
    BY <1>1, <1>2, <2>1, <2>2 DEF Flags
  <2>5. OneAtATime' /\ Shield!SelectionIsHeld'
    BY <2>3, <2>4 DEF OneAtATime, Shield!SelectionIsHeld, Flags
  <2>6. QED
    BY <2>2, <2>4, <2>5 DEF ShieldInv
<1>5. CASE open /\ Shield!EndOfTap(x)
  <2>1. resting' = resting /\ timer' = timer /\ selecting' = selecting /\ broken' = broken
    BY <1>5 DEF Shield!EndOfTap
  <2>2. complete' \in BOOLEAN /\ chain' \in BOOLEAN /\ Shield!FollowsAgain'
    BY <1>1, <1>2, <1>5, UnchosenFollows, ShownFollows DEF Shield!EndOfTap
  <2>3. ~broken => ~timer /\ ~selecting
    BY <1>2, <1>5 DEF Shield!EndOfTap, OneAtATime
  <2>4. Flags'
    BY <1>1, <1>2, <2>1, <2>2 DEF Flags
  <2>5. OneAtATime'
    BY <1>1, <1>2, <2>1 DEF OneAtATime
  <2>6. Shield!SelectionIsHeld'
    BY <2>1, <2>3 DEF Shield!SelectionIsHeld
  <2>7. QED
    BY <2>2, <2>4, <2>5, <2>6 DEF ShieldInv
<1>6. CASE ~open
  <2>1. /\ resting' = resting /\ timer' = timer
        /\ selecting' = selecting /\ broken' = broken
        /\ Shield!Unchosen
    BY <1>6 DEF Shield!Up
  <2>2. complete' \in BOOLEAN /\ chain' \in BOOLEAN /\ Shield!FollowsAgain'
    BY <1>1, <1>2, <2>1, UnchosenFollows
  <2>3. Flags'
    BY <1>1, <1>2, <2>1, <2>2 DEF Flags
  <2>4. OneAtATime'
    BY <1>1, <1>2, <2>1 DEF OneAtATime
  <2>5. Shield!SelectionIsHeld'
    BY <1>2, <1>6, <2>1 DEF Shield!SelectionIsHeld, OneAtATime
  <2>6. QED
    BY <2>2, <2>3, <2>4, <2>5 DEF ShieldInv
<1>7. QED
  BY <1>3, <1>4, <1>5, <1>6 DEF Shield!Up

(* A cancelled touch and a thumb that moves away give up what was begun.   *)
LEMMA ShieldGivenUpHolds ==
  ASSUME ShieldInv, NEW f, Shield!Cancel(f) \/ Shield!Stir(f)
  PROVE  ShieldInv'
<1>1. /\ renewed' = renewed /\ open' = open /\ broken' = broken
      /\ first' = first /\ Shield!Unchosen
  BY DEF Shield!Cancel, Shield!Stir
<1>2. complete' \in BOOLEAN /\ chain' \in BOOLEAN /\ Shield!FollowsAgain'
  BY <1>1, UnchosenFollows DEF ShieldInv
<1>3. Flags /\ OneAtATime
  BY DEF ShieldInv
<1>4. timer' \in BOOLEAN /\ resting' \in BOOLEAN /\ selecting' \in BOOLEAN
  BY <1>3 DEF Shield!Cancel, Shield!Stir, Shield!Stopped, Flags
<1>5. ~broken => ~timer' /\ ~resting' /\ ~selecting'
  BY <1>3 DEF Shield!Cancel, Shield!Stir, Shield!Stopped, OneAtATime, Flags
<1>6. Flags'
  BY <1>1, <1>2, <1>3, <1>4 DEF Flags
<1>7. OneAtATime' /\ Shield!SelectionIsHeld'
  BY <1>1, <1>4, <1>5 DEF OneAtATime, Shield!SelectionIsHeld
<1>8. QED
  BY <1>2, <1>6, <1>7 DEF ShieldInv

-----------------------------------------------------------------------------
LEMMA ShieldInitHolds == Shield!Init => ShieldInv
BY DEF Shield!Init, ShieldInv, Flags, OneAtATime, Shield!SelectionIsHeld, Shield!FollowsAgain

LEMMA ShieldStepHolds == ShieldInv /\ [Shield!Next]_shieldVars => ShieldInv'
<1> SUFFICES ASSUME ShieldInv, [Shield!Next]_shieldVars PROVE ShieldInv'
  OBVIOUS
<1>1. CASE Shield!Timeout
  BY <1>1 DEF Shield!Timeout, ShieldInv, Flags, OneAtATime, Shield!SelectionIsHeld, Shield!FollowsAgain
<1>2. CASE Shield!Lock
  BY <1>2 DEF Shield!Lock, ShieldInv, Flags, OneAtATime, Shield!SelectionIsHeld, Shield!FollowsAgain
<1>3. CASE Shield!Completed
  BY <1>3 DEF Shield!Completed, ShieldInv, Flags, OneAtATime, Shield!SelectionIsHeld, Shield!FollowsAgain
<1>4. CASE Shield!Refresh
  BY <1>4 DEF Shield!Refresh, ShieldInv, Flags, OneAtATime, Shield!SelectionIsHeld, Shield!FollowsAgain
<1>5. ASSUME NEW f \in Thumbs, NEW x \in Vectors \union {NoVector}, Shield!Down(f, x) \/ Shield!Up(f, x)
      PROVE  ShieldInv'
  BY <1>5, ShieldDownHolds, ShieldUpHolds
<1>6. ASSUME NEW f \in Thumbs, Shield!Cancel(f) \/ Shield!Stir(f)
      PROVE  ShieldInv'
  BY <1>6, ShieldGivenUpHolds
<1>7. ASSUME NEW x \in Vectors, Shield!Apply(x)
      PROVE  ShieldInv'
  <2>1. UNCHANGED <<open, touching, resting, timer, selecting, first, broken, renewed>>
    BY <1>7 DEF Shield!Apply
  <2>2. complete' \in BOOLEAN /\ chain' \in BOOLEAN /\ Shield!FollowsAgain'
    BY <1>7, <2>1, UnchosenFollows, ShownFollows DEF Shield!Apply, ShieldInv, Flags
  <2>3. QED
    BY <2>1, <2>2 DEF ShieldInv, Flags, OneAtATime, Shield!SelectionIsHeld
<1>8. CASE UNCHANGED shieldVars
  BY <1>8 DEF shieldVars, ShieldInv, Flags, OneAtATime, Shield!SelectionIsHeld, Shield!FollowsAgain
<1>9. QED
  BY <1>1, <1>2, <1>3, <1>4, <1>5, <1>6, <1>7, <1>8 DEF Shield!Next

(* The facts about the flags hold throughout: the timer runs exactly while *)
(* a thumb rests, and nothing is under way behind a lock.                  *)
THEOREM FlagsAgree == Shield!Spec => []ShieldInv
<1>1. Shield!Spec => Shield!Init /\ [][Shield!Next]_shieldVars
  BY PTL DEF Shield!Spec, Shield!shieldVars, shieldVars
<1>2. QED
  BY <1>1, ShieldInitHolds, ShieldStepHolds, PTL

(* The shield holds, whatever touches, locks, refreshes and choices of     *)
(* others come in between: a selection or its timer ends with its thumb,   *)
(* and while moves are ignored a transition is left that will end it.      *)
THEOREM ShieldIsSafe == Shield!Spec => []ShieldHolds
<1>1. ShieldInv => ShieldHolds
  BY DEF ShieldInv, ShieldHolds, Shield!ShieldHolds
<1>2. QED
  BY <1>1, FlagsAgree, PTL

-----------------------------------------------------------------------------
(* The pads. Heads, and what is told of them to the canvas.                *)
Holders == Fingers \union {Pads!None}

HeadSet ==
  [value : Pads!Values, render : Pads!Values, body : Pads!Values, hold : Holders,
   glides : BOOLEAN, back : BOOLEAN, shown : BOOLEAN, pressed : Nat]

PadTypes ==
  /\ policy \in {"release", "change"} /\ heard \in BOOLEAN
  /\ padDown \in [Fingers -> BOOLEAN]
  /\ at \in [Fingers -> Pads!Pads \union {Pads!None}]
  /\ pads \in [Pads!Pads -> HeadSet]
  /\ activations \in Int /\ keys \in Nat
  /\ padRenewed \in BOOLEAN

NonePressed == \A p \in Pads!Pads : pads[p].pressed = 0

(* A finger is on a pad only while it is down, and on none while the       *)
(* handlers are gone.                                                      *)
FingersKnown == \A f \in Fingers : at[f] # Pads!None => padDown[f] = TRUE /\ heard = TRUE

PadsInv == PadTypes /\ NonePressed /\ FingersKnown /\ Pads!HeldByFinger

LEMMA PadFacts ==
  /\ Pads!None = 0 /\ 0 \in Pads!Values /\ Full \in Nat
  /\ Pads!None \notin Fingers /\ Pads!None \notin Pads!Pads
  /\ Pads!Pads = 1 .. PadCount /\ PadCount \in Nat
BY PadsAssumption DEF Pads!None, Pads!Values, Pads!Pads

LEMMA SameCount == \A S : Pads!Cardinality(S) = Cardinality(S)
BY DEF Pads!Cardinality, Cardinality

(* A head whose fields change keeps those that do not.                     *)
LEMMA HeadFields ==
  ASSUME NEW h \in HeadSet, NEW x \in Pads!Values
  PROVE  /\ [h EXCEPT !.render = x] \in HeadSet
         /\ [h EXCEPT !.render = x].hold = h.hold
         /\ [h EXCEPT !.render = x].pressed = h.pressed
         /\ [h EXCEPT !.render = x].value = h.value
         /\ [h EXCEPT !.render = x, !.body = x] \in HeadSet
         /\ [h EXCEPT !.render = x, !.body = x].hold = h.hold
         /\ [h EXCEPT !.render = x, !.body = x].pressed = h.pressed
         /\ [h EXCEPT !.value = x, !.body = x] \in HeadSet
         /\ [h EXCEPT !.value = x, !.body = x].hold = h.hold
         /\ [h EXCEPT !.value = x, !.body = x].pressed = h.pressed
         /\ h.render \in Pads!Values /\ h.value \in Pads!Values
         /\ h.hold \in Holders /\ h.pressed \in Nat
BY DEF HeadSet

LEMMA ChangeFacts ==
  ASSUME NEW h \in HeadSet, NEW x \in Pads!Values
  PROVE  /\ Pads!Change(h, x) \in HeadSet
         /\ Pads!Change(h, x).hold = h.hold
         /\ Pads!Change(h, x).pressed \in {h.pressed, h.pressed + 1}
         /\ x = 0 => Pads!Change(h, x).pressed = h.pressed
<1> DEFINE n == h.pressed + IF x \in {-Full, Full} THEN 1 ELSE 0
<1>1. CASE x = 0
  <2>1. Pads!Change(h, x) = [h EXCEPT !.value = 0, !.body = 0]
    BY <1>1 DEF Pads!Change
  <2>2. 0 \in Pads!Values
    BY PadFacts
  <2>3. /\ [h EXCEPT !.value = 0, !.body = 0] \in HeadSet
        /\ [h EXCEPT !.value = 0, !.body = 0].hold = h.hold
        /\ [h EXCEPT !.value = 0, !.body = 0].pressed = h.pressed
    BY <2>2, HeadFields
  <2>4. QED
    BY <1>1, <2>1, <2>3
<1>2. CASE x # 0
  <2>1. Pads!Change(h, x) = [h EXCEPT !.value = 0, !.body = 0, !.glides = TRUE, !.pressed = n]
    BY <1>2 DEF Pads!Change
  <2>2. n \in Nat /\ n \in {h.pressed, h.pressed + 1}
    <3>1. h.pressed \in Nat
      BY HeadFields
    <3>2. QED
      BY <3>1
  <2> HIDE DEF n
  <2>3. [h EXCEPT !.value = 0, !.body = 0, !.glides = TRUE, !.pressed = n] \in HeadSet
    BY <2>2, PadFacts DEF HeadSet
  <2>4. /\ [h EXCEPT !.value = 0, !.body = 0, !.glides = TRUE, !.pressed = n].hold = h.hold
        /\ [h EXCEPT !.value = 0, !.body = 0, !.glides = TRUE, !.pressed = n].pressed = n
    BY DEF HeadSet
  <2>5. QED
    BY <1>2, <2>1, <2>2, <2>3, <2>4
<1>3. QED
  BY <1>1, <1>2

LEMMA UpdateFacts ==
  ASSUME NEW h \in HeadSet, NEW x \in Pads!Values
  PROVE  /\ Pads!UpdateValue(h, x) \in HeadSet
         /\ Pads!UpdateValue(h, x).hold = h.hold
         /\ Pads!UpdateValue(h, x).pressed \in {h.pressed, h.pressed + 1}
         /\ policy = "change" => Pads!UpdateValue(h, x).pressed = h.pressed
BY ChangeFacts, HeadFields DEF Pads!UpdateValue

LEMMA ReleaseFacts ==
  ASSUME NEW h \in HeadSet, NEW x \in Pads!Values
  PROVE  /\ Pads!Release(h, x) \in HeadSet
         /\ Pads!Release(h, x).hold = Pads!None
         /\ Pads!Release(h, x).pressed \in {h.pressed, h.pressed + 1}
<1> DEFINE r == [h EXCEPT !.hold = Pads!None, !.back = TRUE]
<1>1. r \in HeadSet /\ r.hold = Pads!None /\ r.pressed = h.pressed
  BY DEF HeadSet, Holders
<1>2. Pads!Release(h, x) = Pads!UpdateValue(r, x)
  BY DEF Pads!Release
<1> HIDE DEF r
<1>3. QED
  BY <1>1, <1>2, UpdateFacts

(* What one event does to one head: nothing that counts, it lets it go, or *)
(* it catches it.                                                          *)
Alike(h, n) == n.hold = h.hold /\ n.pressed = h.pressed
Released(h, n, f) ==
  /\ h.hold = f /\ n.hold = Pads!None
  /\ n.pressed \in {h.pressed, h.pressed + 1}
Catches(h, n, f) == h.hold \in {Pads!None, f} /\ n.hold = f /\ n.pressed = h.pressed

EventTypes == {"touchstart", "touchmove", "touchend", "touchcancel", "leave"}

Becomes(h, n, f, type) ==
  /\ n \in HeadSet
  /\ \/ Alike(h, n) \/ Released(h, n, f)
     \/ type = "touchstart" /\ Catches(h, n, f)
  /\ h.hold # f /\ type # "touchstart" => n = h
  /\ type \in {"leave", "touchend", "touchcancel"} => n.hold # f

LEMMA ApplyFacts ==
  ASSUME NEW h \in HeadSet, NEW f \in Fingers, NEW type \in EventTypes,
         NEW here \in BOOLEAN, NEW y \in Pads!Values, policy \in {"release", "change"}
  PROVE  Becomes(h, Pads!Apply(h, f, type, here, y), f, type)
<1> DEFINE n == Pads!Apply(h, f, type, here, y)
<1> SUFFICES Becomes(h, n, f, type)
  OBVIOUS
<1>1. /\ h.hold \in Holders /\ h.render \in Pads!Values /\ Pads!None \notin Fingers
      /\ f # Pads!None
  BY HeadFields, PadFacts
<1>2. CASE n = h /\ h.hold # f
  BY <1>2 DEF Becomes, Alike
<1>3. CASE n = h /\ h.hold = f /\ type \notin {"leave", "touchend", "touchcancel"}
  BY <1>3 DEF Becomes, Alike
<1>4. CASE h.hold = f /\ n = Pads!Release(h, h.render)
  BY <1>1, <1>4, ReleaseFacts DEF Becomes, Released
<1>5. CASE h.hold = f /\ n = Pads!Release([h EXCEPT !.render = y], y)
  <2>1. /\ [h EXCEPT !.render = y] \in HeadSet
        /\ [h EXCEPT !.render = y].pressed = h.pressed
    BY HeadFields
  <2>2. QED
    BY <1>1, <1>5, <2>1, ReleaseFacts DEF Becomes, Released
<1>6. CASE /\ type = "touchstart" /\ h.hold \in {Pads!None, f}
           /\ n = [h EXCEPT !.hold = f, !.glides = FALSE, !.render = y, !.body = y]
  <2>1. n \in HeadSet /\ n.hold = f /\ n.pressed = h.pressed
    BY <1>6 DEF HeadSet, Holders
  <2>2. QED
    BY <1>6, <2>1 DEF Becomes, Catches
<1>7. CASE /\ type = "touchmove" /\ h.hold = f /\ policy = "change"
           /\ n = Pads!UpdateValue([h EXCEPT !.render = y], y)
  <2>1. /\ [h EXCEPT !.render = y] \in HeadSet
        /\ [h EXCEPT !.render = y].pressed = h.pressed
        /\ [h EXCEPT !.render = y].hold = h.hold
    BY HeadFields
  <2>2. PICK r : r = [h EXCEPT !.render = y]
    OBVIOUS
  <2>3. n \in HeadSet /\ n.hold = r.hold /\ n.pressed = r.pressed
    BY <1>7, <2>1, <2>2, UpdateFacts
  <2>4. QED
    BY <1>1, <1>7, <2>1, <2>2, <2>3 DEF Becomes, Alike
<1>8. CASE /\ type = "touchmove" /\ h.hold = f
           /\ n = [h EXCEPT !.render = y, !.body = y]
  <2>1. /\ [h EXCEPT !.render = y, !.body = y] \in HeadSet
        /\ [h EXCEPT !.render = y, !.body = y].pressed = h.pressed
        /\ [h EXCEPT !.render = y, !.body = y].hold = h.hold
    BY HeadFields
  <2>2. QED
    BY <1>1, <1>8, <2>1 DEF Becomes, Alike
<1>9. \/ n = h /\ h.hold # f
      \/ n = h /\ h.hold = f /\ type \notin {"leave", "touchend", "touchcancel"}
      \/ h.hold = f /\ n = Pads!Release(h, h.render)
      \/ h.hold = f /\ n = Pads!Release([h EXCEPT !.render = y], y)
      \/ /\ type = "touchstart" /\ h.hold \in {Pads!None, f}
         /\ n = [h EXCEPT !.hold = f, !.glides = FALSE, !.render = y, !.body = y]
      \/ /\ type = "touchmove" /\ h.hold = f /\ policy = "change"
         /\ n = Pads!UpdateValue([h EXCEPT !.render = y], y)
      \/ /\ type = "touchmove" /\ h.hold = f
         /\ n = [h EXCEPT !.render = y, !.body = y]
  <2>1. CASE h.hold # Pads!None /\ h.hold # f
    <3>1. Pads!Held(h) /\ h.hold # f
      BY <2>1 DEF Pads!Held
    <3>2. n = h
      BY <3>1 DEF Pads!Apply
    <3>3. QED
      BY <2>1, <3>2
  <2>2. CASE h.hold = Pads!None
    <3>1. ~Pads!Held(h) /\ h.hold # f
      BY <1>1, <2>2 DEF Pads!Held
    <3>2. \/ n = h
          \/ /\ type = "touchstart"
             /\ n = [h EXCEPT !.hold = f, !.glides = FALSE, !.render = y, !.body = y]
      BY <3>1 DEF Pads!Apply, EventTypes
    <3>3. QED
      BY <2>2, <3>1, <3>2
  <2>3. CASE h.hold = f
    <3>1. Pads!Held(h)
      BY <1>1, <2>3 DEF Pads!Held
    <3>2. CASE ~Pads!Caught(h, here, y) /\ ~here
      <4>1. n = Pads!Release(h, h.render)
        BY <2>3, <3>1, <3>2 DEF Pads!Apply
      <4>2. QED
        BY <2>3, <4>1
    <3>3. CASE ~(~Pads!Caught(h, here, y) /\ ~here)
      <4>1. n = CASE type \in {"leave", "touchcancel"} /\ Pads!Held(h) -> Pads!Release(h, h.render)
                  [] type = "touchend" /\ Pads!Held(h) -> Pads!Release([h EXCEPT !.render = y], y)
                  [] type = "touchstart" -> [h EXCEPT !.hold = f, !.glides = FALSE, !.render = y, !.body = y]
                  [] type = "touchmove" /\ Pads!Held(h) ->
                       IF policy = "change" THEN Pads!UpdateValue([h EXCEPT !.render = y], y)
                       ELSE [h EXCEPT !.render = y, !.body = y]
                  [] OTHER -> h
        BY <2>3, <3>1, <3>3 DEF Pads!Apply
      <4>2. CASE type \in {"leave", "touchcancel"}
        <5>1. n = Pads!Release(h, h.render)
          BY <3>1, <4>1, <4>2
        <5>2. QED
          BY <2>3, <5>1
      <4>3. CASE type = "touchend"
        <5>1. n = Pads!Release([h EXCEPT !.render = y], y)
          BY <3>1, <4>1, <4>3
        <5>2. QED
          BY <2>3, <5>1
      <4>4. CASE type = "touchstart"
        <5>1. n = [h EXCEPT !.hold = f, !.glides = FALSE, !.render = y, !.body = y]
          BY <3>1, <4>1, <4>4
        <5>2. QED
          BY <2>3, <4>4, <5>1
      <4>5. CASE type = "touchmove"
        <5>1. n = IF policy = "change" THEN Pads!UpdateValue([h EXCEPT !.render = y], y)
                  ELSE [h EXCEPT !.render = y, !.body = y]
          BY <3>1, <4>1, <4>5
        <5>2. QED
          BY <2>3, <4>5, <5>1
      <4>6. QED
        BY <4>2, <4>3, <4>4, <4>5 DEF EventTypes
    <3>4. QED
      BY <3>2, <3>3
  <2>4. QED
    BY <2>1, <2>2, <2>3
<1> HIDE DEF n
<1>10. QED
  BY <1>2, <1>3, <1>4, <1>5, <1>6, <1>7, <1>8, <1>9

-----------------------------------------------------------------------------
(* How many heads are held, and how many keys are pressed, when only one   *)
(* head changes.                                                           *)
Holds(P) == {p \in Pads!Pads : Pads!Held(P[p])}

LEMMA HeldCount ==
  ASSUME NEW P
  PROVE  /\ Pads!HeldIn(P) = Cardinality(Holds(P))
         /\ IsFiniteSet(Holds(P)) /\ Pads!HeldIn(P) \in Nat
<1>1. Pads!HeldIn(P) = Cardinality(Holds(P))
  BY SameCount DEF Pads!HeldIn, Holds
<1>2. IsFiniteSet(Pads!Pads)
  BY PadFacts, FS_Interval
<1>3. IsFiniteSet(Holds(P))
  BY <1>2, FS_Subset DEF Holds
<1>4. QED
  BY <1>1, <1>3, FS_CardinalityType

LEMMA SameHolds ==
  ASSUME NEW P, NEW Q, \A p \in Pads!Pads : P[p].hold = Q[p].hold
  PROVE  Pads!HeldIn(P) = Pads!HeldIn(Q)
<1>1. Holds(P) = Holds(Q)
  BY DEF Holds, Pads!Held
<1>2. QED
  BY <1>1, HeldCount

LEMMA OneLess ==
  ASSUME NEW P, NEW Q, NEW q \in Pads!Pads, \A p \in Pads!Pads \ {q} : P[p].hold = Q[p].hold,
         Q[q].hold # Pads!None, P[q].hold = Pads!None
  PROVE  Pads!HeldIn(P) < Pads!HeldIn(Q)
<1>1. Holds(P) = Holds(Q) \ {q} /\ q \in Holds(Q)
  BY DEF Holds, Pads!Held
<1>2. Cardinality(Holds(Q) \ {q}) = Cardinality(Holds(Q)) - 1
  BY <1>1, HeldCount, FS_RemoveElement
<1>3. QED
  BY <1>1, <1>2, HeldCount

(* A set of numbers has a least one: how an induction is carried out here, *)
(* by its least counterexample.                                            *)
LEMMA LeastOfNats ==
  ASSUME NEW T, T \subseteq Nat, T # {}
  PROVE  \E x \in T : \A y \in T : x <= y
<1> DEFINE R == OpToRel(<, Nat)
<1>1. IsWellFoundedOn(R, Nat)
  BY NatLessThanWellFounded
<1>2. \A x, y \in Nat : x < y => <<x, y>> \in R
  BY DEF OpToRel
<1> HIDE DEF R
<1>3. PICK x \in T : \A y \in T : ~ (<<y, x>> \in R)
  BY <1>1, WFMin
<1>4. \A y \in T : ~(y < x)
  BY <1>2, <1>3
<1>5. QED
  BY <1>3, <1>4

LEMMA KeysOfOne ==
  ASSUME NEW P, NEW q, NEW k \in Nat,
         \A p \in Pads!Pads : P[p].pressed = IF p = q THEN k ELSE 0
  PROVE  Pads!KeysIn(P) = IF q \in Pads!Pads THEN k ELSE 0
<1> DEFINE IsSum(g) == g = [n \in 0 .. PadCount |->
                              IF n = 0 THEN 0 ELSE g[n - 1] + P[n].pressed]
           Sum == CHOOSE g : IsSum(g)
           All(n) == IF q \in 1 .. n THEN k ELSE 0
<1>1. \A n \in 1 .. PadCount : P[n].pressed = IF n = q THEN k ELSE 0
  BY PadFacts
<1>2. \A n \in 0 .. PadCount : All(n) = IF n = 0 THEN 0 ELSE All(n - 1) + P[n].pressed
  <2> SUFFICES ASSUME NEW n \in 0 .. PadCount
               PROVE  All(n) = IF n = 0 THEN 0 ELSE All(n - 1) + P[n].pressed
    OBVIOUS
  <2>1. PadCount \in Nat
    BY PadFacts
  <2>2. CASE n = 0
    BY <2>2
  <2>3. CASE n # 0 /\ q = n
    BY <1>1, <2>1, <2>3
  <2>4. CASE n # 0 /\ q # n
    <3>1. q \in 1 .. n <=> q \in 1 .. n - 1
      BY <2>1, <2>4
    <3>2. P[n].pressed = 0
      BY <1>1, <2>1, <2>4
    <3>3. QED
      BY <2>4, <3>1, <3>2
  <2>5. QED
    BY <2>2, <2>3, <2>4
<1>3. PadCount \in Nat
  BY PadFacts
<1> HIDE DEF All
<1>4. IsSum([n \in 0 .. PadCount |-> All(n)])
  <2> DEFINE g == [n \in 0 .. PadCount |-> All(n)]
  <2>1. \A n \in 0 .. PadCount : g[n] = IF n = 0 THEN 0 ELSE g[n - 1] + P[n].pressed
    BY <1>2, <1>3
  <2>2. g = [n \in 0 .. PadCount |-> g[n]]
    OBVIOUS
  <2> HIDE DEF g
  <2>3. IsSum(g)
    BY <2>1, <2>2
  <2>4. QED
    BY <2>3 DEF g
<1>5. IsSum(Sum)
  BY <1>4
<1>6. Pads!KeysIn(P) = Sum[PadCount]
  BY DEF Pads!KeysIn
<1> HIDE DEF Sum
<1>7. \A n \in 0 .. PadCount : Sum[n] = IF n = 0 THEN 0 ELSE Sum[n - 1] + P[n].pressed
  BY <1>5
<1>8. \A n \in 0 .. PadCount : Sum[n] = All(n)
  <2> DEFINE T == {n \in 0 .. PadCount : Sum[n] # All(n)}
  <2> SUFFICES T = {}
    OBVIOUS
  <2>1. ASSUME NEW n \in T, \A j \in T : n <= j
        PROVE  FALSE
    <3>1. CASE n = 0
      BY <1>2, <1>7, <3>1
    <3>2. CASE n # 0
      <4>1. n - 1 \in 0 .. PadCount /\ n - 1 \notin T
        BY <1>3, <2>1, <3>2
      <4>2. QED
        BY <1>2, <1>7, <3>2, <4>1
    <3>3. QED
      BY <3>1, <3>2
  <2>2. T \subseteq Nat
    OBVIOUS
  <2> HIDE DEF T
  <2>3. QED
    BY <2>1, <2>2, LeastOfNats
<1>9. QED
  BY <1>3, <1>6, <1>8, PadFacts DEF All

-----------------------------------------------------------------------------
(* An event of a finger concerns one pad, the one it is on or was on last. *)
Result(f, type, p, y) ==
  Pads!Leave(Pads!Itself(Pads!Enter(pads, f, p, at[f]), f, type, p, y), f, type, p, y)

LEMMA ResultFacts ==
  ASSUME PadTypes, NEW f \in Fingers, NEW type \in EventTypes \ {"leave"},
         NEW p \in Pads!Pads \union {Pads!None}, NEW y \in Pads!Values,
         type = "touchstart" => at[f] = Pads!None
  PROVE  /\ Result(f, type, p, y) \in [Pads!Pads -> HeadSet]
         /\ \A r \in Pads!Pads \ {Pads!Last(f, p)} : Result(f, type, p, y)[r] = pads[r]
         /\ \A q \in Pads!Pads : q = Pads!Last(f, p) =>
              /\ \/ Alike(pads[q], Result(f, type, p, y)[q])
                 \/ Released(pads[q], Result(f, type, p, y)[q], f)
                 \/ type = "touchstart" /\ Catches(pads[q], Result(f, type, p, y)[q], f)
              /\ Pads!Leaves(f, type, p) => Result(f, type, p, y)[q].hold # f
<1> DEFINE E == Pads!Enter(pads, f, p, at[f])
           I == Pads!Itself(E, f, type, p, y)
           L == Pads!Leave(I, f, type, p, y)
           Goal(P) == /\ P \in [Pads!Pads -> HeadSet]
                      /\ \A r \in Pads!Pads \ {Pads!Last(f, p)} : P[r] = pads[r]
                      /\ \A q \in Pads!Pads : q = Pads!Last(f, p) =>
                           /\ \/ Alike(pads[q], P[q])
                              \/ Released(pads[q], P[q], f)
                              \/ type = "touchstart" /\ Catches(pads[q], P[q], f)
                           /\ Pads!Leaves(f, type, p) => P[q].hold # f
<1> SUFFICES Goal(L)
  BY DEF Result
<1>1. /\ pads \in [Pads!Pads -> HeadSet] /\ policy \in {"release", "change"}
      /\ at[f] \in Pads!Pads \union {Pads!None}
      /\ 0 \in Pads!Values /\ Pads!None \notin Pads!Pads /\ f # Pads!None
  BY PadFacts DEF PadTypes
<1>2. CASE p = Pads!None
  <2>1. E = pads /\ I = pads /\ Pads!Last(f, p) = at[f]
    BY <1>2 DEF Pads!Enter, Pads!Itself, Pads!Last
  <2>2. CASE at[f] = Pads!None
    <3>1. L = pads
      BY <2>1, <2>2 DEF Pads!Leave, Pads!Leaves
    <3>2. QED
      BY <1>1, <2>1, <2>2, <3>1
  <2>3. CASE at[f] # Pads!None
    <3> DEFINE q == at[f]
               n == Pads!Apply(pads[q], f, "leave", FALSE, y)
    <3>1. q \in Pads!Pads /\ pads[q] \in HeadSet
      BY <1>1, <2>3
    <3>2. L = [pads EXCEPT ![q] = n]
      <4>1. Pads!Leaves(f, type, p)
        BY <1>2, <2>1, <2>3 DEF Pads!Leaves
      <4>2. (p = Pads!Last(f, p)) = FALSE
        BY <1>2, <2>1, <2>3
      <4>3. QED
        BY <2>1, <4>1, <4>2 DEF Pads!Leave
    <3>3. /\ n \in HeadSet /\ n.hold # f
          /\ Alike(pads[q], n) \/ Released(pads[q], n, f)
      <4>1. "leave" \in EventTypes /\ FALSE \in BOOLEAN
        BY DEF EventTypes
      <4>2. Becomes(pads[q], n, f, "leave")
        BY <1>1, <3>1, <4>1, ApplyFacts, Zenon
      <4>3. QED
        BY <4>2 DEF Becomes
    <3> HIDE DEF n, E, I, L
    <3>4. /\ L \in [Pads!Pads -> HeadSet] /\ L[q] = n
          /\ \A r \in Pads!Pads \ {q} : L[r] = pads[r]
      BY <1>1, <3>1, <3>2, <3>3
    <3>5. QED
      BY <2>1, <3>3, <3>4
  <2>4. QED
    BY <2>2, <2>3
<1>3. CASE p # Pads!None
  <2> DEFINE h == pads[p]
             e == IF at[f] \notin {Pads!None, p} THEN Pads!Apply(h, f, "leave", FALSE, 0) ELSE h
             i == Pads!Apply(e, f, type, TRUE, y)
             l == IF Pads!Leaves(f, type, p) THEN Pads!Apply(i, f, "leave", TRUE, y) ELSE i
  <2>1. p \in Pads!Pads /\ h \in HeadSet /\ Pads!Last(f, p) = p
    BY <1>1, <1>3 DEF Pads!Last
  <2>1a. Becomes(h, Pads!Apply(h, f, "leave", FALSE, 0), f, "leave")
    <3>1. "leave" \in EventTypes /\ FALSE \in BOOLEAN
      BY DEF EventTypes
    <3>2. QED
      BY <1>1, <2>1, <3>1, ApplyFacts, Zenon
  <2>2. e \in HeadSet /\ E = [pads EXCEPT ![p] = e]
    <3>1. e \in HeadSet
      BY <2>1a, <2>1 DEF Becomes
    <3>2. E = [pads EXCEPT ![p] = e]
      BY <1>1, <1>3, <2>1 DEF Pads!Enter
    <3>3. QED
      BY <3>1, <3>2
  <2>3. /\ Alike(h, e) \/ Released(h, e, f)
        /\ h.hold # f => e = h
        /\ at[f] \notin {Pads!None, p} => e.hold # f
        /\ at[f] \in {Pads!None, p} => e = h
    <3>1. CASE at[f] \notin {Pads!None, p}
      <4>1. Becomes(h, e, f, "leave")
        BY <2>1a, <3>1
      <4>2. QED
        BY <3>1, <4>1 DEF Becomes
    <3>2. CASE at[f] \in {Pads!None, p}
      <4>1. e = h
        BY <3>2
      <4>2. QED
        BY <3>2, <4>1 DEF Alike
    <3>3. QED
      BY <3>1, <3>2
  <2> HIDE DEF e, E
  <2>4. /\ E \in [Pads!Pads -> HeadSet] /\ E[p] = e
        /\ \A r \in Pads!Pads \ {p} : E[r] = pads[r]
    BY <1>1, <2>1, <2>2
  <2>4a. Becomes(e, i, f, type)
    <3>1. type \in EventTypes /\ TRUE \in BOOLEAN
      OBVIOUS
    <3>2. QED
      BY <1>1, <2>2, <3>1, ApplyFacts, Zenon
  <2>5. i \in HeadSet /\ I = [E EXCEPT ![p] = i]
    <3>1. i \in HeadSet
      BY <2>4a DEF Becomes
    <3>2. I = [E EXCEPT ![p] = i]
      BY <1>3, <2>4 DEF Pads!Itself
    <3>3. QED
      BY <3>1, <3>2
  <2>6. /\ \/ Alike(e, i) \/ Released(e, i, f)
           \/ type = "touchstart" /\ Catches(e, i, f)
        /\ e.hold # f /\ type # "touchstart" => i = e
        /\ type \in {"touchend", "touchcancel"} => i.hold # f
    BY <2>4a DEF Becomes
  <2> HIDE DEF i, I
  <2>7. /\ I \in [Pads!Pads -> HeadSet] /\ I[p] = i
        /\ \A r \in Pads!Pads \ {p} : I[r] = pads[r]
    BY <2>1, <2>4, <2>5
  <2>8. Pads!Leaves(f, type, p) => i.hold # f
    BY <1>3, <2>6 DEF Pads!Leaves, Pads!Ends
  <2>9. l = i /\ L = [I EXCEPT ![p] = i]
    <3>1. CASE Pads!Leaves(f, type, p)
      <4>1. Pads!Apply(i, f, "leave", TRUE, y) = i
        <5>1. "leave" \in EventTypes /\ TRUE \in BOOLEAN
          BY DEF EventTypes
        <5>2. Becomes(i, Pads!Apply(i, f, "leave", TRUE, y), f, "leave")
          BY <1>1, <2>5, <5>1, ApplyFacts, Zenon
        <5>3. QED
          BY <2>8, <3>1, <5>2 DEF Becomes
      <4>2. (p = Pads!Last(f, p)) = TRUE
        BY <2>1
      <4>3. L = [I EXCEPT ![p] = Pads!Apply(i, f, "leave", TRUE, y)]
        BY <2>1, <2>7, <3>1, <4>2 DEF Pads!Leave
      <4>4. QED
        BY <3>1, <4>1, <4>3
    <3>2. CASE ~Pads!Leaves(f, type, p)
      <4>1. L = I /\ l = i
        BY <3>2 DEF Pads!Leave
      <4>2. I = [I EXCEPT ![p] = i]
        BY <2>1, <2>7
      <4>3. QED
        BY <4>1, <4>2
    <3>3. QED
      BY <3>1, <3>2
  <2> HIDE DEF l, L
  <2>10. /\ L \in [Pads!Pads -> HeadSet] /\ L[p] = i
         /\ \A r \in Pads!Pads \ {p} : L[r] = pads[r]
    BY <2>1, <2>5, <2>7, <2>9
  <2>11. \/ Alike(h, i) \/ Released(h, i, f)
         \/ type = "touchstart" /\ Catches(h, i, f)
    <3>1. CASE type = "touchstart"
      <4>1. e = h
        BY <2>3, <3>1
      <4>2. QED
        BY <2>6, <4>1
    <3>2. CASE type # "touchstart" /\ e.hold # f
      <4>1. i = e
        BY <2>6, <3>2
      <4>2. QED
        BY <2>3, <4>1
    <3>3. CASE type # "touchstart" /\ e.hold = f
      <4>1. e = h
        BY <2>3, <3>3
      <4>2. QED
        BY <2>6, <4>1
    <3>4. QED
      BY <3>1, <3>2, <3>3
  <2>12. QED
    BY <2>1, <2>8, <2>10, <2>11
<1>4. QED
  BY <1>2, <1>3

(* What a step keeps, and what it tells.                                   *)
PadsStep == PadsInv' /\ Pads!OnePushOneKey

LEMMA HandleHolds ==
  ASSUME PadsInv, NEW f \in Fingers, NEW type \in EventTypes \ {"leave"},
         NEW p \in Pads!Pads \union {Pads!None}, NEW y \in Pads!Values,
         heard = TRUE, padDown[f] = (type # "touchstart"),
         padDown' = [padDown EXCEPT ![f] = type \notin Pads!Ends],
         Pads!Handle(f, type, p, y), UNCHANGED <<policy, heard, padRenewed>>
  PROVE  PadsStep
<1> DEFINE P == Result(f, type, p, y)
           q == Pads!Last(f, p)
           k == IF q \in Pads!Pads THEN P[q].pressed ELSE 0
<1>1. /\ PadTypes /\ NonePressed /\ FingersKnown /\ Pads!HeldByFinger
      /\ pads \in [Pads!Pads -> HeadSet]
      /\ at \in [Fingers -> Pads!Pads \union {Pads!None}]
      /\ padDown \in [Fingers -> BOOLEAN]
      /\ activations \in Int /\ keys \in Nat
  BY DEF PadsInv, PadTypes
<1>2. type = "touchstart" => at[f] = Pads!None
  BY <1>1 DEF FingersKnown
<1>3. /\ P \in [Pads!Pads -> HeadSet]
      /\ \A r \in Pads!Pads \ {q} : P[r] = pads[r]
      /\ q \in Pads!Pads =>
           /\ \/ Alike(pads[q], P[q])
              \/ Released(pads[q], P[q], f)
              \/ type = "touchstart" /\ Catches(pads[q], P[q], f)
           /\ Pads!Leaves(f, type, p) => P[q].hold # f
  BY <1>1, <1>2, ResultFacts
<1>4. /\ pads' = [r \in Pads!Pads |-> [P[r] EXCEPT !.pressed = 0]]
      /\ activations' = activations + Pads!HeldIn(P) - Pads!HeldIn(pads)
      /\ keys' = keys + Pads!KeysIn(P)
      /\ at' = [at EXCEPT ![f] = IF Pads!Leaves(f, type, p) THEN Pads!None ELSE q]
      /\ padStrayed \subseteq padStrayed'
      /\ p # Pads!None /\ at[f] \notin {Pads!None, p} /\ (\E r \in Pads!Pads : pads[r].hold = f)
           => f \in padStrayed'
  BY DEF Pads!Handle, Pads!Become, Result
<1>5. q \in Pads!Pads \union {Pads!None} /\ (p # Pads!None => q = p) /\ (p = Pads!None => q = at[f])
  BY <1>1 DEF Pads!Last
<1>6. /\ Pads!Leaves(f, type, p) <=> q # Pads!None /\ (p = Pads!None \/ type \in Pads!Ends)
  BY DEF Pads!Leaves
<1> HIDE DEF P, q
<1>7. /\ pads' \in [Pads!Pads -> HeadSet]
      /\ \A r \in Pads!Pads : pads'[r].hold = P[r].hold /\ pads'[r].pressed = 0
  <2>1. \A r \in Pads!Pads : /\ [P[r] EXCEPT !.pressed = 0] \in HeadSet
                             /\ [P[r] EXCEPT !.pressed = 0].hold = P[r].hold
                             /\ [P[r] EXCEPT !.pressed = 0].pressed = 0
    BY <1>3 DEF HeadSet
  <2>2. QED
    BY <1>4, <2>1
<1>8. Pads!HeldIn(pads)' = Pads!HeldIn(P) /\ Pads!HeldIn(P) \in Nat /\ Pads!HeldIn(pads) \in Nat
  <2>1. Pads!HeldIn(pads') = Pads!HeldIn(P)
    BY <1>7, SameHolds
  <2>2. QED
    BY <2>1, HeldCount
<1>9. k \in {0, 1} /\ Pads!KeysIn(P) = k
      /\ (k = 1 => q \in Pads!Pads /\ Released(pads[q], P[q], f))
  <2>1. \A r \in Pads!Pads : pads[r].pressed = 0
    BY <1>1 DEF NonePressed
  <2>2. k \in {0, 1} /\ (k = 1 => q \in Pads!Pads /\ Released(pads[q], P[q], f))
    <3>1. CASE q \in Pads!Pads
      <4>1. pads[q].pressed = 0 /\ k = P[q].pressed
        BY <2>1, <3>1
      <4>2. \/ P[q].pressed = 0
            \/ P[q].pressed \in {0, 1} /\ Released(pads[q], P[q], f)
        BY <1>3, <3>1, <4>1 DEF Alike, Released, Catches
      <4>3. QED
        BY <3>1, <4>1, <4>2
    <3>2. CASE q \notin Pads!Pads
      BY <3>2
    <3>3. QED
      BY <3>1, <3>2
  <2>3. \A r \in Pads!Pads : P[r].pressed = IF r = q THEN k ELSE 0
    BY <1>3, <2>1
  <2>4. Pads!KeysIn(P) = IF q \in Pads!Pads THEN k ELSE 0
    <3>1. k \in Nat
      BY <2>2
    <3> HIDE DEF k
    <3>2. QED
      BY <2>3, <3>1, KeysOfOne
  <2>5. QED
    BY <2>2, <2>4
<1> HIDE DEF k
<1>10. Pads!OnePushOneKey
  <2>1. CASE k = 0
    BY <1>1, <1>4, <1>9, <2>1 DEF Pads!OnePushOneKey
  <2>2. CASE k = 1
    <3>1. /\ q \in Pads!Pads /\ pads[q].hold # Pads!None /\ P[q].hold = Pads!None
          /\ \A r \in Pads!Pads \ {q} : P[r].hold = pads[r].hold
      BY <1>3, <1>9, <2>2, PadFacts DEF Released
    <3>2. Pads!HeldIn(P) < Pads!HeldIn(pads)
      BY <3>1, OneLess
    <3>3. keys' = keys + 1
      BY <1>4, <1>9, <2>2
    <3>4. QED
      BY <1>8, <3>2, <3>3 DEF Pads!OnePushOneKey
  <2>3. QED
    BY <1>9, <2>1, <2>2
<1>11. PadTypes'
  <2>1. at' \in [Fingers -> Pads!Pads \union {Pads!None}]
    BY <1>1, <1>4, <1>5
  <2>2. padDown' \in [Fingers -> BOOLEAN]
    BY <1>1
  <2>3. activations' \in Int /\ keys' \in Nat
    BY <1>1, <1>4, <1>8, <1>9
  <2>4. QED
    BY <1>1, <1>7, <2>1, <2>2, <2>3 DEF PadTypes
<1>12. NonePressed'
  BY <1>7 DEF NonePressed
<1>13. /\ padDown'[f] = (type \notin Pads!Ends)
       /\ \A g \in Fingers \ {f} : padDown'[g] = padDown[g] /\ at'[g] = at[g]
       /\ at'[f] = IF Pads!Leaves(f, type, p) THEN Pads!None ELSE q
  BY <1>1, <1>4
<1>14. FingersKnown'
  <2> SUFFICES ASSUME NEW g \in Fingers, at'[g] # Pads!None
               PROVE  padDown'[g] = TRUE /\ heard' = TRUE
    BY DEF FingersKnown
  <2>1. CASE g = f
    BY <1>6, <1>13, <2>1
  <2>2. CASE g # f
    BY <1>1, <1>13, <2>2 DEF FingersKnown
  <2>3. QED
    BY <2>1, <2>2
<1>15. ASSUME NEW r \in Pads!Pads, Pads!Held(pads'[r]), pads'[r].hold \notin padStrayed'
       PROVE  padDown'[pads'[r].hold] /\ at'[pads'[r].hold] = r
  <2>1. P[r].hold = pads'[r].hold /\ P[r].hold \notin padStrayed /\ P[r].hold # Pads!None
        /\ P[r].hold \in Fingers
    <3>1. P[r].hold \in Holders
      BY <1>3 DEF HeadSet
    <3>2. QED
      BY <1>4, <1>7, <1>15, <3>1 DEF Pads!Held, Holders
  <2>2. CASE P[r].hold # f
    <3>1. pads[r].hold = P[r].hold
      BY <1>3, <2>1, <2>2 DEF Alike, Released, Catches
    <3>2. padDown[pads[r].hold] /\ at[pads[r].hold] = r
      BY <1>1, <2>1, <3>1 DEF Pads!HeldByFinger, Pads!Held
    <3>3. QED
      BY <1>13, <2>1, <2>2, <3>1, <3>2
  <2>3. CASE P[r].hold = f /\ r = q
    <3>1. ~Pads!Leaves(f, type, p)
      BY <1>3, <2>3
    <3>2. q # Pads!None
      BY <2>3, PadFacts
    <3>3. QED
      BY <1>6, <1>13, <2>1, <2>3, <3>1, <3>2
  <2>4. CASE P[r].hold = f /\ r # q
    <3>1. pads[r].hold = f
      BY <1>3, <2>4
    <3>2. at[f] = r
      BY <1>1, <2>1, <2>4, <3>1 DEF Pads!HeldByFinger, Pads!Held
    <3>3. f \in padStrayed'
      BY <1>4, <1>5, <2>4, <3>1, <3>2, PadFacts
    <3>4. QED
      BY <1>15, <2>1, <2>4, <3>3
  <2>5. QED
    BY <2>2, <2>3, <2>4
<1>16. ~padRenewed' => activations' = Pads!HeldIn(pads)'
  BY <1>1, <1>4, <1>8 DEF Pads!HeldByFinger
<1>17. Pads!HeldByFinger'
  BY <1>15, <1>16 DEF Pads!HeldByFinger
<1>18. QED
  BY <1>10, <1>11, <1>12, <1>14, <1>17 DEF PadsStep, PadsInv

(* A step that moves no finger and leaves all holds, or gives fingers up.  *)
LEMMA HoldsStay ==
  ASSUME PadsInv, pads' \in [Pads!Pads -> HeadSet],
         \A p \in Pads!Pads : pads'[p].hold = pads[p].hold /\ pads'[p].pressed = 0,
         UNCHANGED <<policy, heard, padDown, at, activations, keys, padStrayed, padRenewed>>
  PROVE  PadsStep
<1>1. PadTypes /\ NonePressed /\ FingersKnown /\ Pads!HeldByFinger
  BY DEF PadsInv
<1>2. PadTypes' /\ NonePressed' /\ FingersKnown'
  BY <1>1 DEF PadTypes, NonePressed, FingersKnown
<1>3. Pads!HeldIn(pads') = Pads!HeldIn(pads)
  BY SameHolds
<1>4. Pads!HeldByFinger'
  BY <1>1, <1>3 DEF Pads!HeldByFinger, Pads!Held
<1>5. Pads!OnePushOneKey
  BY DEF Pads!OnePushOneKey
<1>6. QED
  BY <1>2, <1>4, <1>5 DEF PadsStep, PadsInv

LEMMA TouchHolds ==
  ASSUME PadsInv, NEW f \in Fingers, NEW type \in EventTypes \ {"leave"},
         NEW p \in Pads!Pads \union {Pads!None}, NEW y \in Pads!Values,
         Pads!Touch(f, type, p, y)
  PROVE  PadsStep
<1>1. /\ padDown[f] = (type # "touchstart")
      /\ padDown' = [padDown EXCEPT ![f] = type \notin Pads!Ends]
      /\ UNCHANGED <<policy, heard, padRenewed>>
      /\ heard \in BOOLEAN
  BY DEF Pads!Touch, PadsInv, PadTypes
<1>2. CASE heard = TRUE
  <2>1. Pads!Handle(f, type, p, y)
    BY <1>2 DEF Pads!Touch
  <2>2. QED
    BY <1>1, <1>2, <2>1, HandleHolds
<1>3. CASE heard = FALSE
  <2>1. UNCHANGED <<at, pads, activations, keys, padStrayed>>
    BY <1>3 DEF Pads!Touch
  <2>2. /\ PadTypes /\ NonePressed /\ FingersKnown /\ Pads!HeldByFinger
        /\ padDown \in [Fingers -> BOOLEAN]
    BY DEF PadsInv, PadTypes
  <2>3. padDown' \in [Fingers -> BOOLEAN]
    BY <1>1, <2>2
  <2>4. \A g \in Fingers : at[g] = Pads!None
    BY <1>3, <2>2 DEF FingersKnown
  <2>5. PadTypes' /\ NonePressed' /\ FingersKnown'
    BY <1>1, <2>1, <2>2, <2>3, <2>4 DEF PadTypes, NonePressed, FingersKnown
  <2>6. \A r \in Pads!Pads : ~(Pads!Held(pads[r]) /\ pads[r].hold \notin padStrayed)
    <3> SUFFICES ASSUME NEW r \in Pads!Pads, Pads!Held(pads[r]), pads[r].hold \notin padStrayed
                 PROVE  FALSE
      OBVIOUS
    <3>1. at[pads[r].hold] = r
      BY <2>2 DEF Pads!HeldByFinger
    <3>2. pads[r].hold \in Fingers
      BY <2>2 DEF PadTypes, HeadSet, Holders, Pads!Held
    <3>3. QED
      BY <2>4, <3>1, <3>2, PadFacts
  <2>7. Pads!HeldIn(pads') = Pads!HeldIn(pads)
    BY <2>1
  <2>8. Pads!HeldByFinger'
    BY <1>1, <2>1, <2>2, <2>6, <2>7 DEF Pads!HeldByFinger
  <2>9. Pads!OnePushOneKey
    BY <2>1 DEF Pads!OnePushOneKey
  <2>10. QED
    BY <2>5, <2>8, <2>9 DEF PadsStep, PadsInv
<1>4. QED
  BY <1>1, <1>2, <1>3

LEMMA PadsLockHolds ==
  ASSUME PadsInv, Pads!Lock
  PROVE  PadsStep
<1>1. /\ PadTypes /\ NonePressed /\ FingersKnown /\ Pads!HeldByFinger
      /\ at' = [f \in Fingers |-> Pads!None] /\ heard' \in BOOLEAN
      /\ padStrayed' = padStrayed \union ({pads[p].hold : p \in Pads!Pads} \ {Pads!None})
      /\ UNCHANGED <<policy, padDown, pads, activations, keys, padRenewed>>
  BY DEF PadsInv, Pads!Lock, PadTypes
<1>2. PadTypes' /\ NonePressed' /\ FingersKnown'
  BY <1>1 DEF PadTypes, NonePressed, FingersKnown
<1>3. \A p \in Pads!Pads : ~(Pads!Held(pads[p]) /\ pads[p].hold \notin padStrayed')
  BY <1>1 DEF Pads!Held
<1>4. Pads!HeldIn(pads') = Pads!HeldIn(pads)
  BY <1>1
<1>5. Pads!HeldByFinger'
  BY <1>1, <1>3, <1>4 DEF Pads!HeldByFinger
<1>6. Pads!OnePushOneKey
  BY <1>1 DEF Pads!OnePushOneKey
<1>7. QED
  BY <1>2, <1>5, <1>6 DEF PadsStep, PadsInv

LEMMA PadsRefreshHolds ==
  ASSUME PadsInv, Pads!Refresh
  PROVE  PadsStep
<1>1. /\ PadTypes /\ NonePressed /\ FingersKnown /\ Pads!HeldByFinger
      /\ pads \in [Pads!Pads -> HeadSet] /\ padRenewed \in BOOLEAN
      /\ pads' = [p \in Pads!Pads |->
                    [Pads!Head(pads[p].value) EXCEPT !.shown = pads[p].shown]]
      /\ padRenewed' = (padRenewed \/ Pads!HeldIn(pads) > 0)
      /\ UNCHANGED <<policy, heard, padDown, at, activations, keys, padStrayed>>
  BY DEF PadsInv, Pads!Refresh, PadTypes
<1>2. ASSUME NEW p \in Pads!Pads
      PROVE  /\ pads'[p] \in HeadSet
             /\ pads'[p].hold = Pads!None /\ pads'[p].pressed = 0
  <2>1. pads[p].value \in Pads!Values /\ pads[p].shown \in BOOLEAN
    BY <1>1 DEF HeadSet
  <2>2. pads'[p] = [Pads!Head(pads[p].value) EXCEPT !.shown = pads[p].shown]
    BY <1>1
  <2>3. /\ Pads!Head(pads[p].value) \in HeadSet
        /\ Pads!Head(pads[p].value).hold = Pads!None
        /\ Pads!Head(pads[p].value).pressed = 0
    BY <2>1, PadFacts DEF Pads!Head, HeadSet, Holders
  <2>4. QED
    BY <2>1, <2>2, <2>3 DEF HeadSet
<1>3. pads' \in [Pads!Pads -> HeadSet]
  BY <1>1, <1>2
<1>4. PadTypes' /\ NonePressed' /\ FingersKnown'
  BY <1>1, <1>2, <1>3 DEF PadTypes, NonePressed, FingersKnown
<1>5. Pads!HeldIn(pads') = 0
  <2>1. Holds(pads') = {}
    BY <1>2 DEF Holds, Pads!Held
  <2>2. QED
    BY <2>1, HeldCount, FS_EmptySet
<1>6. Pads!HeldByFinger'
  <2>1. ~padRenewed' => activations' = 0
    <3>1. Pads!HeldIn(pads) \in Nat
      BY HeldCount
    <3>2. ASSUME ~padRenewed'
          PROVE  ~padRenewed /\ ~(Pads!HeldIn(pads) > 0)
      BY <1>1, <3>2, Zenon
    <3>3. ~padRenewed => activations = Pads!HeldIn(pads)
      BY <1>1 DEF Pads!HeldByFinger
    <3>4. QED
      BY <1>1, <3>1, <3>2, <3>3
  <2>2. \A p \in Pads!Pads : ~Pads!Held(pads'[p])
    BY <1>2 DEF Pads!Held
  <2>3. QED
    BY <1>5, <2>1, <2>2 DEF Pads!HeldByFinger
<1>7. Pads!OnePushOneKey
  BY <1>1 DEF Pads!OnePushOneKey
<1>8. QED
  BY <1>4, <1>6, <1>7 DEF PadsStep, PadsInv

LEMMA RemoteHolds ==
  ASSUME PadsInv, NEW p \in Pads!Pads, NEW x \in Pads!Values, Pads!Remote(p, x)
  PROVE  PadsStep
<1>1. /\ pads \in [Pads!Pads -> HeadSet] /\ NonePressed
      /\ UNCHANGED <<policy, heard, padDown, at, activations, keys, padStrayed, padRenewed>>
  BY DEF PadsInv, PadTypes, Pads!Remote
<1> DEFINE h == pads[p]
           b == (policy = "release")
           n == [[[[h EXCEPT !.value = x] EXCEPT !.body = x] EXCEPT !.glides = TRUE] EXCEPT !.shown = b]
<1>2. h \in HeadSet /\ b \in BOOLEAN /\ h.pressed = 0
  BY <1>1 DEF NonePressed
<1>3. pads' = [pads EXCEPT ![p] = n]
  BY <1>1 DEF Pads!Remote
<1> HIDE DEF h, b
<1>4. n \in HeadSet /\ n.hold = h.hold /\ n.pressed = 0
  BY <1>2 DEF HeadSet
<1> HIDE DEF n
<1>5. /\ pads' \in [Pads!Pads -> HeadSet]
      /\ \A r \in Pads!Pads : pads'[r].hold = pads[r].hold /\ pads'[r].pressed = 0
  BY <1>1, <1>3, <1>4 DEF h, NonePressed
<1>6. QED
  BY <1>1, <1>5, HoldsStay

LEMMA TimerHolds ==
  ASSUME PadsInv, NEW p \in Pads!Pads, Pads!Timer(p)
  PROVE  PadsStep
<1>1. /\ pads \in [Pads!Pads -> HeadSet] /\ NonePressed
      /\ UNCHANGED <<policy, heard, padDown, at, activations, keys, padStrayed, padRenewed>>
  BY DEF PadsInv, PadTypes, Pads!Timer
<1> DEFINE h == pads[p]
<1>2. h \in HeadSet /\ h.pressed = 0
  BY <1>1 DEF NonePressed
<1>3. PICK n : /\ pads' = [pads EXCEPT ![p] = n]
               /\ n \in HeadSet /\ n.hold = h.hold /\ n.pressed = 0
  <2>1. CASE pads' = [pads EXCEPT ![p].back = FALSE, ![p].body = pads[p].render]
    <3> DEFINE m == [[h EXCEPT !.back = FALSE] EXCEPT !.body = h.render]
    <3>1. pads' = [pads EXCEPT ![p] = m]
      BY <1>1, <2>1
    <3>2. m \in HeadSet /\ m.hold = h.hold /\ m.pressed = 0
      BY <1>2 DEF HeadSet
    <3>3. QED
      BY <3>1, <3>2
  <2>2. CASE pads' = [pads EXCEPT ![p] =
               IF Pads!Held(@) THEN [@ EXCEPT !.shown = FALSE]
               ELSE Pads!Change([@ EXCEPT !.shown = FALSE, !.glides = TRUE], 0)]
    <3> DEFINE s == [h EXCEPT !.shown = FALSE]
               g == [h EXCEPT !.shown = FALSE, !.glides = TRUE]
               m == IF Pads!Held(h) THEN s ELSE Pads!Change(g, 0)
    <3>1. pads' = [pads EXCEPT ![p] = m]
      BY <2>2
    <3>2. /\ s \in HeadSet /\ s.hold = h.hold /\ s.pressed = 0
          /\ g \in HeadSet /\ g.hold = h.hold /\ g.pressed = 0
      BY <1>2 DEF HeadSet
    <3> HIDE DEF s, g
    <3>3. m \in HeadSet /\ m.hold = h.hold /\ m.pressed = 0
      BY <3>2, ChangeFacts, PadFacts
    <3>4. QED
      BY <3>1, <3>3
  <2>3. CASE pads' = [pads EXCEPT ![p].glides = FALSE, ![p].render = pads[p].value]
    <3> DEFINE m == [[h EXCEPT !.glides = FALSE] EXCEPT !.render = h.value]
    <3>1. pads' = [pads EXCEPT ![p] = m]
      BY <1>1, <2>3
    <3>2. m \in HeadSet /\ m.hold = h.hold /\ m.pressed = 0
      BY <1>2 DEF HeadSet
    <3>3. QED
      BY <3>1, <3>2
  <2>4. QED
    BY <2>1, <2>2, <2>3 DEF Pads!Timer
<1>4. /\ pads' \in [Pads!Pads -> HeadSet]
      /\ \A r \in Pads!Pads : pads'[r].hold = pads[r].hold /\ pads'[r].pressed = 0
  BY <1>1, <1>3 DEF NonePressed
<1>5. QED
  BY <1>1, <1>4, HoldsStay

-----------------------------------------------------------------------------
LEMMA PadsInitHolds == Pads!Init => PadsInv
<1> SUFFICES ASSUME Pads!Init PROVE PadsInv
  OBVIOUS
<1>1. /\ policy \in {"release", "change"} /\ heard = TRUE
      /\ padDown = [f \in Fingers |-> FALSE] /\ at = [f \in Fingers |-> Pads!None]
      /\ pads = [p \in Pads!Pads |-> Pads!Head(0)]
      /\ activations = 0 /\ keys = 0 /\ padRenewed = FALSE
  BY DEF Pads!Init
<1>2. /\ Pads!Head(0) \in HeadSet
      /\ Pads!Head(0).hold = Pads!None /\ Pads!Head(0).pressed = 0
  BY PadFacts DEF Pads!Head, HeadSet, Holders
<1>3. PadTypes /\ NonePressed /\ FingersKnown
  <2>1. at \in [Fingers -> Pads!Pads \union {Pads!None}] /\ pads \in [Pads!Pads -> HeadSet]
    BY <1>1, <1>2
  <2>2. padDown \in [Fingers -> BOOLEAN] /\ heard \in BOOLEAN /\ padRenewed \in BOOLEAN
    BY <1>1
  <2>3. PadTypes
    BY <1>1, <2>1, <2>2 DEF PadTypes
  <2>4. NonePressed /\ FingersKnown
    BY <1>1, <1>2 DEF NonePressed, FingersKnown
  <2>5. QED
    BY <2>3, <2>4
<1>4. \A p \in Pads!Pads : ~Pads!Held(pads[p])
  BY <1>1, <1>2 DEF Pads!Held
<1>5. Pads!HeldIn(pads) = 0
  <2>1. Holds(pads) = {}
    BY <1>4 DEF Holds
  <2>2. QED
    BY <2>1, HeldCount, FS_EmptySet
<1>6. QED
  BY <1>1, <1>3, <1>4, <1>5 DEF PadsInv, Pads!HeldByFinger

LEMMA PadsNextHolds == PadsInv /\ Pads!Next => PadsStep
<1> SUFFICES ASSUME PadsInv, Pads!Next PROVE PadsStep
  OBVIOUS
<1>1. CASE Pads!Lock
  BY <1>1, PadsLockHolds
<1>2. CASE Pads!Refresh
  BY <1>2, PadsRefreshHolds
<1>3. ASSUME NEW p \in Pads!Pads, Pads!Timer(p)
      PROVE  PadsStep
  BY <1>3, TimerHolds
<1>4. ASSUME NEW p \in Pads!Pads, NEW x \in Pads!Values, Pads!Remote(p, x)
      PROVE  PadsStep
  BY <1>4, RemoteHolds
<1>5. ASSUME NEW f \in Fingers, NEW type \in {"touchstart", "touchmove", "touchend", "touchcancel"},
             NEW p \in Pads!Pads \union {Pads!None}, NEW y \in Pads!Values,
             Pads!Touch(f, type, p, y)
      PROVE  PadsStep
  <2>1. type \in EventTypes \ {"leave"}
    BY DEF EventTypes
  <2>2. QED
    BY <1>5, <2>1, TouchHolds
<1>6. QED
  BY <1>1, <1>2, <1>3, <1>4, <1>5 DEF Pads!Next

LEMMA PadsStays == PadsInv /\ UNCHANGED padVars => PadsInv'
<1> SUFFICES ASSUME PadsInv, UNCHANGED padVars PROVE PadsInv'
  OBVIOUS
<1>1. /\ pads \in [Pads!Pads -> HeadSet] /\ pads' = pads /\ NonePressed
      /\ UNCHANGED <<policy, heard, padDown, at, activations, keys, padStrayed, padRenewed>>
  BY DEF padVars, PadsInv, PadTypes
<1>2. QED
  BY <1>1, HoldsStay DEF PadsStep, NonePressed

(* For any number of pads and fingers, whatever they hold, drag and leave, *)
(* and whatever locks and others do meanwhile: a head is held by a finger  *)
(* on its pad, the canvas counts those that are, and a push presses a key  *)
(* once, when its head is let go.                                          *)
THEOREM PadsAreSafe == Pads!Spec => PadsHold
<1>1. Pads!Spec => Pads!Init /\ [][Pads!Next]_padVars
  BY PTL DEF Pads!Spec, Pads!padVars, padVars
<1>2. PadsInv /\ [Pads!Next]_padVars => PadsInv'
  BY PadsNextHolds, PadsStays DEF PadsStep
<1>3. PadsInv /\ [Pads!Next]_padVars => [Pads!HeldByFinger' /\ Pads!OnePushOneKey]_padVars
  BY PadsNextHolds DEF PadsStep, PadsInv
<1>4. Pads!Spec => [][Pads!HeldByFinger' /\ Pads!OnePushOneKey]_padVars
  BY <1>1, <1>2, <1>3, PadsInitHolds, PTL
<1>5. QED
  BY <1>4, PTL DEF PadsHold, Pads!PadsHold, Pads!padVars, padVars

-----------------------------------------------------------------------------
(* The limiter.                                                            *)

Awake == {u \in Views : view[u].live /\ ~view[u].asleep}

AxisTypes ==
  /\ js \in [Joysticks -> [axis : Limiter!Values, owner : Views \union {Limiter!Nobody, Limiter!Gone},
                           op : BOOLEAN]]
  /\ uses \in Joysticks
  /\ installed \in BOOLEAN
  /\ net \in [value : Limiter!Values, owner : Views \union {Limiter!Nobody, Limiter!Gone}]
  /\ view \in [Views -> [live : BOOLEAN, asleep : BOOLEAN, value : Limiter!Values,
                         held : BOOLEAN, later : BOOLEAN]]
  /\ gone \subseteq Limiter!Values
  /\ animating \in Int
  /\ list \subseteq Views /\ stale \in BOOLEAN /\ due \in BOOLEAN /\ limShut \in BOOLEAN
  /\ skipped \subseteq Views /\ kept \subseteq Views

(* What moves is counted: animating counts the awake views at least.       *)
AwakeCounted == IsFiniteSet(Awake) /\ Cardinality(Awake) <= animating

(* Who owns an axis, or has still to tell its value, is there.             *)
OwnersLive ==
  /\ installed = TRUE <=> \E u \in Views : view[u].live
  /\ \A u \in Views : view[u].later \/ view[u].held => view[u].live
  /\ \A u \in Views, j \in Joysticks : js[j].owner = u => view[u].live
  /\ \A u \in Views : net.owner = u => view[u].live

ListFollows == ~stale => list = Awake

(* netValues are those of the joystick unless its send is due.             *)
NetFollows == installed /\ ~js[uses].op => net.value = js[uses].axis

(* A view that has told what it shows, and is not excepted: an axis that   *)
(* is its own is what it shows, and what it has not been shown yet, it     *)
(* will be with the next synchronisation.                                  *)
Shows(u) ==
  /\ js[uses].owner = u /\ js[uses].op => js[uses].axis = view[u].value
  /\ net.owner = u /\ ~js[uses].op => net.value = view[u].value
  /\ (net.owner # u /\ ~js[uses].op /\ ~view[u].asleep /\ ~due /\ ~limShut)
        => net.value = view[u].value

ViewsShow ==
  \A u \in Views : (view[u].live /\ ~view[u].later /\ u \notin skipped \union kept) => Shows(u)

AxisInv == AxisTypes /\ AwakeCounted /\ OwnersLive /\ ListFollows /\ NetFollows /\ ViewsShow

-----------------------------------------------------------------------------
LEMMA AxisConstants ==
  /\ Top \in Nat /\ Limiter!Mid \in Limiter!Values /\ 0 \in Limiter!Values
  /\ Limiter!Nobody \notin Views /\ Limiter!Gone \notin Views
<1>1. Top \in Nat /\ Limiter!Nobody \notin Views /\ Limiter!Gone \notin Views
  BY CanvasAssumption DEF Limiter!LimiterAssumption
<1>2. Limiter!Mid \in Limiter!Values /\ 0 \in Limiter!Values
  BY <1>1 DEF Limiter!Mid, Limiter!Values
<1>3. QED
  BY <1>1, <1>2

LEMMA AxisInitHolds == Limiter!Init => AxisInv
<1> SUFFICES ASSUME Limiter!Init PROVE AxisInv
  OBVIOUS
<1>1. AxisTypes
  <2>1. js \in [Joysticks -> [axis : Limiter!Values, owner : Views \union {Limiter!Nobody, Limiter!Gone},
                              op : BOOLEAN]]
    BY AxisConstants DEF Limiter!Init
  <2>2. view \in [Views -> [live : BOOLEAN, asleep : BOOLEAN, value : Limiter!Values,
                            held : BOOLEAN, later : BOOLEAN]]
    BY AxisConstants DEF Limiter!Init, Limiter!Dead
  <2>3. net \in [value : Limiter!Values, owner : Views \union {Limiter!Nobody, Limiter!Gone}]
    BY AxisConstants DEF Limiter!Init
  <2>4. /\ uses \in Joysticks /\ installed = FALSE /\ animating = 0 /\ stale = FALSE /\ due = FALSE
        /\ limShut = FALSE
        /\ gone = {} /\ list = {} /\ skipped = {} /\ kept = {}
    BY DEF Limiter!Init
  <2>5. /\ installed \in BOOLEAN /\ stale \in BOOLEAN /\ due \in BOOLEAN /\ limShut \in BOOLEAN
    BY <2>4, Zenon
  <2>6. gone \subseteq Limiter!Values /\ list \subseteq Views /\ skipped \subseteq Views /\ kept \subseteq Views
    BY <2>4
  <2>7. QED
    BY <2>1, <2>2, <2>3, <2>4, <2>5, <2>6 DEF AxisTypes
<1>2. \A u \in Views : ~view[u].live /\ ~view[u].later /\ ~view[u].held
  BY DEF Limiter!Init, Limiter!Dead
<1>3. Awake = {}
  BY <1>2 DEF Awake
<1>4. AwakeCounted
  BY <1>3, FS_EmptySet DEF AwakeCounted, Limiter!Init
<1>5. OwnersLive /\ NetFollows /\ ViewsShow
  BY <1>2, AxisConstants DEF OwnersLive, NetFollows, ViewsShow, Limiter!Init
<1>6. ListFollows
  BY <1>3 DEF ListFollows, Limiter!Init
<1>7. QED
  BY <1>1, <1>4, <1>5, <1>6 DEF AxisInv

(* Whoever is awake is counted, so that what happens is synchronised.      *)
LEMMA AwakeMoves ==
  ASSUME AxisTypes, AwakeCounted, NEW u \in Views, view[u].live, ~view[u].asleep
  PROVE  animating > 0
<1>1. u \in Awake
  BY DEF Awake
<1>2. Cardinality(Awake) \in Nat /\ Cardinality(Awake) # 0
  BY <1>1, FS_CardinalityType, FS_EmptySet DEF AwakeCounted
<1>3. animating \in Int
  BY DEF AxisTypes
<1>4. QED
  BY <1>2, <1>3 DEF AwakeCounted

LEMMA AwakeMovesNext ==
  ASSUME AxisTypes', AwakeCounted', NEW u \in Views, view'[u].live, ~view'[u].asleep
  PROVE  animating' > 0
<1>1. u \in Awake'
  BY DEF Awake
<1>2. Cardinality(Awake') \in Nat /\ Cardinality(Awake') # 0
  BY <1>1, FS_CardinalityType, FS_EmptySet DEF AwakeCounted
<1>3. animating' \in Int
  BY DEF AxisTypes
<1>4. QED
  BY <1>2, <1>3 DEF AwakeCounted

(* Steps that leave who lives and who sleeps.                              *)
LEMMA SameAwake ==
  ASSUME AwakeCounted, animating' = animating,
         \A u \in Views : view'[u].live = view[u].live /\ view'[u].asleep = view[u].asleep
  PROVE  AwakeCounted' /\ Awake' = Awake
<1>1. Awake' = Awake
  BY DEF Awake
<1>2. QED
  BY <1>1 DEF AwakeCounted

(* The state of a joystick changes, and the control hears of its own.      *)
LEMMA ChangedHolds ==
  ASSUME AxisInv, NEW j \in Joysticks, NEW x \in Limiter!Values,
         NEW o \in Views \union {Limiter!Nobody, Limiter!Gone}, NEW b \in BOOLEAN,
         Limiter!Changed(j, [axis |-> x, owner |-> o, op |-> b]),
         o \in {js[j].owner, Limiter!Nobody},
         kept \subseteq kept', kept' \subseteq Views,
         \A u \in Views : o = u /\ u \notin kept' => x = js[j].axis /\ js[j].op /\ ~b,
         UNCHANGED <<uses, installed, view, gone, animating, list, stale, limShut, skipped>>
  PROVE  AxisInv'
<1>1. js' = [js EXCEPT ![j] = [axis |-> x, owner |-> o, op |-> b]]
  BY DEF Limiter!Changed
<1>2. CASE installed /\ uses = j
  <2>1. net' = [value |-> x, owner |-> o] /\ due' = (due \/ animating > 0)
    BY <1>2 DEF Limiter!Changed, Limiter!Heard, Limiter!Resync
  <2>2. AxisTypes'
    BY <1>1, <2>1 DEF AxisInv, AxisTypes
  <2>3. AwakeCounted' /\ ListFollows'
    BY SameAwake DEF AxisInv, ListFollows
  <2>4. OwnersLive'
    BY <1>1, <2>1, AxisConstants DEF AxisInv, AxisTypes, OwnersLive
  <2>5. NetFollows'
    BY <1>1, <1>2, <2>1 DEF NetFollows, AxisInv, AxisTypes
  <2>6. ASSUME NEW u \in Views, view[u].live, ~view[u].later, u \notin skipped \union kept'
        PROVE  Shows(u)'
    <3>1. Shows(u)
      BY <2>6 DEF AxisInv, ViewsShow
    <3>2. ~view[u].asleep => due'
      BY <2>1, <2>6, AwakeMoves DEF AxisInv
    <3>3. js'[uses].owner = o /\ js'[uses].op = b /\ js'[uses].axis = x
      BY <1>1, <1>2 DEF AxisInv, AxisTypes
    <3>4. QED
      BY <1>2, <2>1, <2>6, <3>1, <3>2, <3>3, AxisConstants DEF Shows
  <2>7. ViewsShow'
    BY <2>6 DEF ViewsShow
  <2>8. QED
    BY <2>2, <2>3, <2>4, <2>5, <2>7 DEF AxisInv
<1>3. CASE ~(installed /\ uses = j)
  <2>1. UNCHANGED <<net, due>>
    BY <1>3 DEF Limiter!Changed, Limiter!Heard
  <2>2. AxisTypes'
    BY <1>1, <2>1 DEF AxisInv, AxisTypes
  <2>3. AwakeCounted' /\ ListFollows'
    BY SameAwake DEF AxisInv, ListFollows
  <2>4. OwnersLive'
    BY <1>1, <2>1, AxisConstants DEF AxisInv, AxisTypes, OwnersLive
  <2>5. \A u \in Views : ~view[u].live \/ js'[uses] = js[uses]
    BY <1>1, <1>3 DEF AxisInv, AxisTypes, OwnersLive
  <2>6. NetFollows'
    BY <1>1, <1>3, <2>1 DEF NetFollows, AxisInv, AxisTypes
  <2>7. ViewsShow'
    BY <2>1, <2>5 DEF ViewsShow, Shows, AxisInv
  <2>8. QED
    BY <2>2, <2>3, <2>4, <2>6, <2>7 DEF AxisInv
<1>4. QED
  BY <1>2, <1>3

LEMMA JoystickFields ==
  ASSUME AxisTypes, NEW j \in Joysticks
  PROVE  /\ js[j].axis \in Limiter!Values /\ js[j].op \in BOOLEAN
         /\ js[j].owner \in Views \union {Limiter!Nobody, Limiter!Gone}
         /\ [js[j] EXCEPT !.op = FALSE] = [axis |-> js[j].axis, owner |-> js[j].owner, op |-> FALSE]
         /\ \A x \in Limiter!Values :
              [js[j] EXCEPT !.axis = x] = [axis |-> x, owner |-> js[j].owner, op |-> js[j].op]
         /\ \A x \in Limiter!Values :
              Limiter!FromBuffer(j, x) = [axis |-> x, owner |-> Limiter!Nobody, op |-> js[j].op]
<1>1. js[j] \in [axis : Limiter!Values, owner : Views \union {Limiter!Nobody, Limiter!Gone},
                 op : BOOLEAN]
  BY DEF AxisTypes
<1>2. ASSUME NEW x \in Limiter!Values
      PROVE  Limiter!FromBuffer(j, x) = [axis |-> x, owner |-> Limiter!Nobody, op |-> js[j].op]
  <2> DEFINE r == Limiter!FromBuffer(j, x)
  <2>1. /\ r.axis = x /\ r.owner = Limiter!Nobody /\ r.op = js[j].op
        /\ r \in [axis : Limiter!Values, owner : {Limiter!Nobody}, op : BOOLEAN]
    BY <1>1 DEF Limiter!FromBuffer
  <2> HIDE DEF r
  <2>2. r = [axis |-> x, owner |-> Limiter!Nobody, op |-> js[j].op]
    BY <2>1
  <2>3. QED
    BY <2>2 DEF r
<1>3. [js[j] EXCEPT !.op = FALSE] = [axis |-> js[j].axis, owner |-> js[j].owner, op |-> FALSE]
  <2> DEFINE r == [js[j] EXCEPT !.op = FALSE]
  <2>1. /\ r \in [axis : Limiter!Values, owner : Views \union {Limiter!Nobody, Limiter!Gone}, op : BOOLEAN]
        /\ r.axis = js[j].axis /\ r.owner = js[j].owner /\ r.op = FALSE
    BY <1>1
  <2> HIDE DEF r
  <2>2. r = [axis |-> js[j].axis, owner |-> js[j].owner, op |-> FALSE]
    BY <2>1
  <2>3. QED
    BY <2>2 DEF r
<1>4. ASSUME NEW x \in Limiter!Values
      PROVE  [js[j] EXCEPT !.axis = x] = [axis |-> x, owner |-> js[j].owner, op |-> js[j].op]
  BY <1>1
<1>5. QED
  BY <1>1, <1>2, <1>3, <1>4

LEMMA SendStateHolds ==
  ASSUME AxisInv, NEW j \in Joysticks, Limiter!SendState(j)
  PROVE  AxisInv'
<1>1. Limiter!Changed(j, [axis |-> js[j].axis, owner |-> js[j].owner, op |-> FALSE])
  BY JoystickFields DEF Limiter!SendState, AxisInv
<1>2. kept \subseteq Views /\ js[j].op
  BY DEF Limiter!SendState, AxisInv, AxisTypes
<1>3. QED
  BY <1>1, <1>2, JoystickFields, ChangedHolds DEF Limiter!SendState, AxisInv

LEMMA ReceiveHolds ==
  ASSUME AxisInv, NEW j \in Joysticks, NEW x \in Limiter!Values, Limiter!Receive(j, x)
  PROVE  AxisInv'
<1>1. Limiter!Changed(j, [axis |-> x, owner |-> Limiter!Nobody, op |-> js[j].op])
  BY JoystickFields DEF Limiter!Receive, AxisInv
<1>2. QED
  BY <1>1, JoystickFields, ChangedHolds, AxisConstants DEF Limiter!Receive, AxisInv, AxisTypes

LEMMA ResetHolds ==
  ASSUME AxisInv, NEW j \in Joysticks, Limiter!Reset(j)
  PROVE  AxisInv'
<1>1. Limiter!Changed(j, [axis |-> Limiter!Mid, owner |-> js[j].owner, op |-> js[j].op])
  BY JoystickFields, AxisConstants DEF Limiter!Reset, AxisInv
<1>2. kept' \subseteq Views /\ \A u \in Views : js[j].owner = u => u \in kept'
  BY DEF Limiter!Reset, AxisInv, AxisTypes
<1>3. QED
  BY <1>1, <1>2, JoystickFields, ChangedHolds, AxisConstants DEF Limiter!Reset, AxisInv

LEMMA ChangeJoystickHolds ==
  ASSUME AxisInv, NEW j \in Joysticks, Limiter!ChangeJoystick(j)
  PROVE  AxisInv'
<1>1. AxisTypes'
  BY AxisConstants DEF AxisInv, AxisTypes, Limiter!ChangeJoystick, Limiter!Sending, Limiter!Resync
<1>2. AwakeCounted' /\ ListFollows'
  BY SameAwake DEF AxisInv, ListFollows, Limiter!ChangeJoystick
<1>3. OwnersLive'
  BY AxisConstants DEF AxisInv, AxisTypes, OwnersLive, Limiter!ChangeJoystick
<1>4. NetFollows'
  BY DEF AxisInv, NetFollows, Limiter!ChangeJoystick
<1>5. ASSUME NEW u \in Views, view[u].live, ~view[u].later, u \notin skipped \union kept'
      PROVE  Shows(u)'
  <2>1. installed /\ net'.owner # u
    BY <1>5, AxisConstants DEF AxisInv, OwnersLive, Limiter!ChangeJoystick
  <2>2. ~(js[j].owner = u /\ js[j].op)
    BY <1>5 DEF Limiter!ChangeJoystick, Limiter!Sending
  <2>3. ~view[u].asleep => due'
    BY <1>5, <2>1, AwakeMoves DEF AxisInv, Limiter!ChangeJoystick, Limiter!Resync
  <2>4. QED
    BY <2>1, <2>2, <2>3 DEF Shows, Limiter!ChangeJoystick
<1>6. ViewsShow'
  BY <1>5 DEF ViewsShow, Limiter!ChangeJoystick
<1>7. QED
  BY <1>1, <1>2, <1>3, <1>4, <1>6 DEF AxisInv

LEMMA SyncHolds == ASSUME AxisInv, Limiter!Sync PROVE AxisInv'
<1> DEFINE L == IF stale THEN Limiter!Listed ELSE list
<1>1. L = Awake
  BY DEF AxisInv, ListFollows, Limiter!Listed, Awake
<1>2. due' = FALSE /\ UNCHANGED <<js, uses, installed, net, gone, animating, limShut>>
  BY DEF Limiter!Sync
<1>3. CASE limShut
  <2>1. UNCHANGED <<list, stale, view, skipped, kept>>
    BY <1>3 DEF Limiter!Sync
  <2>2. AwakeCounted' /\ ListFollows'
    BY <1>2, <2>1, SameAwake DEF AxisInv, ListFollows
  <2>3. QED
    BY <1>2, <1>3, <2>1, <2>2 DEF AxisInv, AxisTypes, OwnersLive, NetFollows, ViewsShow, Shows
<1>4. CASE ~limShut
  <2> DEFINE W == Limiter!Written(L)
  <2>1. /\ list' = Awake /\ stale' = FALSE
        /\ view' = [u \in Views |-> IF u \in W THEN [view[u] EXCEPT !.value = net.value] ELSE view[u]]
        /\ skipped' = (skipped \ W) \union Limiter!Passed(L)
        /\ kept' = (kept \ W) \union (W \intersect Limiter!Sending(uses))
    BY <1>1, <1>4 DEF Limiter!Sync
  <2>2. /\ W = {u \in Awake : ~view[u].held /\ net.owner # u}
        /\ Limiter!Passed(L) = {u \in Awake : view[u].held /\ view[u].value # net.value}
        /\ Limiter!Sending(uses) = {u \in Views : js[uses].owner = u /\ js[uses].op}
        /\ W \subseteq Views /\ Limiter!Passed(L) \subseteq Views
    BY <1>1 DEF Limiter!Written, Limiter!Passed, Limiter!Sending, Awake
  <2> HIDE DEF L, W
  <2>3. \A u \in Views : /\ view'[u].live = view[u].live /\ view'[u].asleep = view[u].asleep
                         /\ view'[u].later = view[u].later /\ view'[u].held = view[u].held
                         /\ view'[u].value = IF u \in W THEN net.value ELSE view[u].value
    BY <2>1 DEF AxisInv, AxisTypes
  <2>4. AxisTypes'
    <3>1. view' \in [Views -> [live : BOOLEAN, asleep : BOOLEAN, value : Limiter!Values,
                               held : BOOLEAN, later : BOOLEAN]]
      <4>1. net.value \in Limiter!Values
        BY DEF AxisInv, AxisTypes
      <4>2. \A u \in Views : view[u] \in [live : BOOLEAN, asleep : BOOLEAN, value : Limiter!Values,
                                          held : BOOLEAN, later : BOOLEAN]
        BY DEF AxisInv, AxisTypes
      <4>3. QED
        BY <2>1, <4>1, <4>2
    <3>2. list' \subseteq Views /\ stale' \in BOOLEAN /\ due' \in BOOLEAN
      BY <1>2, <2>1 DEF Awake
    <3>3. skipped' \subseteq Views /\ kept' \subseteq Views
      BY <2>1, <2>2 DEF AxisInv, AxisTypes
    <3>4. QED
      BY <1>2, <3>1, <3>2, <3>3 DEF AxisInv, AxisTypes
  <2>5. AwakeCounted' /\ Awake' = Awake
    BY <1>2, <2>3, SameAwake DEF AxisInv
  <2>6. ListFollows'
    BY <2>1, <2>5 DEF ListFollows
  <2>7. OwnersLive' /\ NetFollows'
    BY <1>2, <2>3 DEF AxisInv, OwnersLive, NetFollows
  <2>8. ASSUME NEW u \in Views, view[u].live, ~view[u].later, u \notin skipped' \union kept'
        PROVE  Shows(u)'
    <3>1. CASE u \in W
      <4>1. ~(js[uses].owner = u /\ js[uses].op) /\ net.owner # u /\ view'[u].value = net.value
        BY <2>1, <2>2, <2>3, <2>8, <3>1
      <4>2. QED
        BY <1>2, <4>1 DEF Shows
    <3>2. CASE u \notin W
      <4>1. Shows(u)
        BY <2>1, <2>8, <3>2 DEF AxisInv, ViewsShow
      <4>2. ~view[u].asleep /\ net.owner # u => view[u].value = net.value
        BY <2>1, <2>2, <2>8, <3>2 DEF Awake
      <4>3. QED
        BY <1>2, <2>3, <3>2, <4>1, <4>2 DEF Shows
    <3>3. QED
      BY <3>1, <3>2
  <2>9. ViewsShow'
    BY <2>3, <2>8 DEF ViewsShow
  <2>10. QED
    BY <2>4, <2>5, <2>6, <2>7, <2>9 DEF AxisInv
<1>5. QED
  BY <1>3, <1>4

LEMMA BuiltHolds ==
  ASSUME AxisInv, NEW v \in Views, NEW woken \in BOOLEAN, Limiter!Built(v, woken)
  PROVE  AxisInv'
<1> DEFINE new == [live |-> TRUE, asleep |-> ~woken, value |-> 0, held |-> FALSE, later |-> FALSE]
<1>0. [Limiter!Dead EXCEPT !.live = TRUE, !.asleep = ~woken] = new
  <2> DEFINE r == [Limiter!Dead EXCEPT !.live = TRUE, !.asleep = ~woken]
  <2>1. Limiter!Dead \in [live : BOOLEAN, asleep : BOOLEAN, value : Int, held : BOOLEAN, later : BOOLEAN]
    BY DEF Limiter!Dead
  <2>2. r \in [live : BOOLEAN, asleep : BOOLEAN, value : Int, held : BOOLEAN, later : BOOLEAN]
    BY <2>1
  <2>3. r.live = TRUE /\ r.asleep = ~woken /\ r.value = 0 /\ r.held = FALSE /\ r.later = FALSE
    BY DEF Limiter!Dead
  <2> HIDE DEF r
  <2>4. r = new
    BY <2>2, <2>3
  <2>5. QED
    BY <2>4 DEF r
<1>1. /\ ~view[v].live /\ view' = [view EXCEPT ![v] = new]
      /\ installed' = TRUE /\ stale' = TRUE
      /\ animating' = animating + (IF woken THEN 1 ELSE 0)
      /\ due' = (due \/ animating' > 0)
      /\ skipped' = skipped \ {v} /\ kept' = kept \ {v}
      /\ UNCHANGED <<js, uses, gone, list, limShut>>
  BY <1>0 DEF Limiter!Built, Limiter!Resync
<1>2. net' = IF installed THEN net ELSE [net EXCEPT !.value = js[uses].axis]
  BY DEF Limiter!Built
<1>3. AxisTypes'
  BY <1>1, <1>2, AxisConstants DEF AxisInv, AxisTypes
<1>4. Awake' = IF woken THEN Awake \union {v} ELSE Awake
  BY <1>1 DEF Awake, AxisInv, AxisTypes
<1>5. v \notin Awake
  BY <1>1 DEF Awake
<1>6. AwakeCounted'
  <2>1. IsFiniteSet(Awake) /\ Cardinality(Awake) <= animating /\ animating \in Int
    BY DEF AxisInv, AwakeCounted, AxisTypes
  <2>2. /\ IsFiniteSet(Awake \union {v}) /\ Cardinality(Awake \union {v}) = Cardinality(Awake) + 1
        /\ Cardinality(Awake) \in Nat
    BY <1>5, <2>1, FS_AddElement, FS_CardinalityType
  <2>3. QED
    BY <1>1, <1>4, <2>1, <2>2 DEF AwakeCounted
<1>7. net'.owner = net.owner /\ (installed => net' = net) /\ (~installed => net'.value = js[uses].axis)
  BY <1>2 DEF AxisInv, AxisTypes
<1>8. OwnersLive'
  BY <1>1, <1>7 DEF AxisInv, AxisTypes, OwnersLive
<1>9. NetFollows' /\ ListFollows'
  BY <1>1, <1>7 DEF AxisInv, NetFollows, ListFollows
<1>10. ASSUME NEW u \in Views, view'[u].live, ~view'[u].later, u \notin skipped' \union kept'
       PROVE  Shows(u)'
  <2>1. CASE u = v
    <3>1. net.owner # u /\ js[uses].owner # u
      BY <1>1, <2>1 DEF AxisInv, AxisTypes, OwnersLive
    <3>2. ~view'[u].asleep => due'
      BY <1>1, <1>3, <1>6, <1>10, AwakeMovesNext DEF AxisTypes
    <3>3. QED
      BY <1>1, <1>7, <3>1, <3>2 DEF Shows
  <2>2. CASE u # v
    <3>1. view'[u] = view[u]
      BY <1>1, <2>2 DEF AxisInv, AxisTypes
    <3>2. Shows(u) /\ installed
      BY <1>1, <1>10, <2>2, <3>1 DEF AxisInv, ViewsShow, OwnersLive
    <3>3. QED
      BY <1>1, <1>7, <3>1, <3>2 DEF Shows
  <2>3. QED
    BY <2>1, <2>2
<1>11. ViewsShow'
  BY <1>10 DEF ViewsShow
<1>12. QED
  BY <1>3, <1>6, <1>8, <1>9, <1>11 DEF AxisInv

(* A step of a view that changes none of the joysticks: what it leaves of  *)
(* its own, and what it must show.                                         *)
LEMMA ViewStepHolds ==
  ASSUME AxisInv, NEW v \in Views,
         view' \in [Views -> [live : BOOLEAN, asleep : BOOLEAN, value : Limiter!Values,
                              held : BOOLEAN, later : BOOLEAN]],
         \A u \in Views \ {v} : view'[u] = view[u],
         view'[v].live = view[v].live, view'[v].asleep = view[v].asleep,
         view'[v].later \/ view'[v].held => view[v].live,
         skipped' \subseteq Views, kept' \subseteq Views,
         skipped \subseteq skipped' \union {v}, kept \subseteq kept' \union {v},
         view'[v].later \/ (/\ view'[v].value = view[v].value /\ ~view[v].later
                            /\ skipped' = skipped /\ kept' = kept),
         UNCHANGED <<js, uses, installed, net, gone, animating, list, stale, due, limShut>>
  PROVE  AxisInv'
<1>1. AxisTypes'
  BY DEF AxisInv, AxisTypes
<1>2. \A u \in Views : view'[u].live = view[u].live /\ view'[u].asleep = view[u].asleep
  OBVIOUS
<1>3. AwakeCounted' /\ Awake' = Awake
  BY <1>2, SameAwake DEF AxisInv
<1>4. ListFollows' /\ NetFollows'
  BY <1>3 DEF AxisInv, ListFollows, NetFollows
<1>5. OwnersLive'
  <2>1. \A u \in Views : view'[u].later \/ view'[u].held => view'[u].live
    BY <1>2 DEF AxisInv, OwnersLive
  <2>2. QED
    BY <1>2, <2>1 DEF AxisInv, OwnersLive
<1>6. ASSUME NEW u \in Views, view'[u].live, ~view'[u].later, u \notin skipped' \union kept'
      PROVE  Shows(u)'
  <2>1. view'[u].value = view[u].value /\ ~view[u].later /\ u \notin skipped \union kept
    BY <1>6
  <2>2. Shows(u)
    BY <1>2, <1>6, <2>1 DEF AxisInv, ViewsShow
  <2>3. QED
    BY <1>2, <2>1, <2>2 DEF Shows
<1>7. ViewsShow'
  BY <1>6 DEF ViewsShow
<1>8. QED
  BY <1>1, <1>3, <1>4, <1>5, <1>7 DEF AxisInv

ViewSet == [live : BOOLEAN, asleep : BOOLEAN, value : Limiter!Values, held : BOOLEAN, later : BOOLEAN]

LEMMA GrabHolds ==
  ASSUME AxisInv, NEW v \in Views, Limiter!Grab(v)
  PROVE  AxisInv'
<1>1. /\ view' = [view EXCEPT ![v].held = TRUE]
      /\ UNCHANGED <<js, uses, installed, net, gone, animating, list, stale, due, limShut, skipped, kept>>
  BY DEF Limiter!Grab
<1>2. view \in [Views -> ViewSet] /\ skipped \subseteq Views /\ kept \subseteq Views
  BY DEF AxisInv, AxisTypes, ViewSet
<1>3. /\ view' \in [Views -> ViewSet] /\ \A u \in Views \ {v} : view'[u] = view[u]
      /\ view'[v].live = view[v].live /\ view'[v].asleep = view[v].asleep
      /\ view'[v].later = view[v].later /\ view'[v].value = view[v].value
  BY <1>1, <1>2 DEF ViewSet
<1>4. view[v].live
  BY DEF Limiter!Grab
<1>5. QED
  BY <1>1, <1>2, <1>3, <1>4, ViewStepHolds DEF ViewSet

LEMMA DragHolds ==
  ASSUME AxisInv, NEW v \in Views, NEW x \in Limiter!Values, Limiter!Drag(v, x)
  PROVE  AxisInv'
<1>0. view[v].live
  BY DEF AxisInv, OwnersLive, Limiter!Drag
<1>1. /\ view' = [view EXCEPT ![v].value = x, ![v].later = TRUE]
      /\ skipped' = skipped \ {v} /\ kept' = kept \ {v}
      /\ UNCHANGED <<js, uses, installed, net, gone, animating, list, stale, due, limShut>>
  BY DEF Limiter!Drag
<1>2. view \in [Views -> ViewSet] /\ skipped \subseteq Views /\ kept \subseteq Views
  BY DEF AxisInv, AxisTypes, ViewSet
<1>3. /\ view' \in [Views -> ViewSet] /\ \A u \in Views \ {v} : view'[u] = view[u]
      /\ view'[v].live = view[v].live /\ view'[v].asleep = view[v].asleep
      /\ view'[v].later = TRUE
  BY <1>1, <1>2 DEF ViewSet
<1>4. QED
  BY <1>0, <1>1, <1>2, <1>3, ViewStepHolds DEF ViewSet

(* The control's own axis is set: its send is due then.                    *)
LEMMA SetAxisHolds ==
  ASSUME AxisInv, NEW o \in Views \union {Limiter!Nobody, Limiter!Gone}, NEW x \in Limiter!Values,
         Limiter!SetAxis(o, x), gone' \subseteq Limiter!Values,
         view' \in [Views -> ViewSet],
         \A u \in Views : /\ view'[u].live = view[u].live /\ view'[u].asleep = view[u].asleep
                          /\ view'[u].later => view[u].later
                          /\ view'[u].held => view[u].held,
         \A u \in Views : o = u => view[u].live /\ view'[u].value = x,
         skipped' \subseteq Views, kept' \subseteq Views,
         UNCHANGED <<uses, installed, net, animating, list, stale, due, limShut>>
  PROVE  AxisInv'
<1>1. js' = [js EXCEPT ![uses] = [axis |-> x, owner |-> o, op |-> TRUE]]
  BY DEF Limiter!SetAxis
<1>2. AxisTypes'
  BY <1>1 DEF AxisInv, AxisTypes, ViewSet
<1>3. js'[uses].axis = x /\ js'[uses].owner = o /\ js'[uses].op = TRUE
  BY <1>1 DEF AxisInv, AxisTypes
<1>4. AwakeCounted' /\ Awake' = Awake
  BY SameAwake DEF AxisInv
<1>5. ListFollows' /\ NetFollows'
  BY <1>3, <1>4 DEF AxisInv, ListFollows, NetFollows
<1>6. OwnersLive'
  <2>1. \A u \in Views, j \in Joysticks : js'[j].owner = u => view'[u].live
    BY <1>1 DEF AxisInv, AxisTypes, OwnersLive
  <2>2. QED
    BY <2>1 DEF AxisInv, OwnersLive
<1>7. ViewsShow'
  BY <1>3 DEF ViewsShow, Shows
<1>8. QED
  BY <1>2, <1>4, <1>5, <1>6, <1>7 DEF AxisInv

LEMMA DropHolds ==
  ASSUME AxisInv, NEW v \in Views, NEW x \in Limiter!Values, Limiter!Drop(v, x)
  PROVE  AxisInv'
<1>1. /\ view \in [Views -> ViewSet] /\ skipped \subseteq Views /\ kept \subseteq Views
      /\ view[v].live
  BY DEF AxisInv, AxisTypes, ViewSet, OwnersLive, Limiter!Drop
<1>2. CASE view[v].value = x
  <2>1. /\ view' = [view EXCEPT ![v].held = FALSE]
        /\ UNCHANGED <<js, uses, installed, net, gone, animating, list, stale, due, limShut, skipped, kept>>
    BY <1>2 DEF Limiter!Drop
  <2>2. /\ view' \in [Views -> ViewSet] /\ \A u \in Views \ {v} : view'[u] = view[u]
        /\ view'[v].live = view[v].live /\ view'[v].asleep = view[v].asleep
        /\ view'[v].later = view[v].later /\ view'[v].value = view[v].value
    BY <1>1, <2>1 DEF ViewSet
  <2>3. QED
    BY <1>1, <2>1, <2>2, ViewStepHolds DEF ViewSet
<1>3. CASE view[v].value # x
  <2>1. /\ view' = [view EXCEPT ![v].held = FALSE, ![v].value = x, ![v].later = FALSE]
        /\ Limiter!SetAxis(v, x) /\ skipped' = skipped \ {v} /\ kept' = kept \ {v}
        /\ UNCHANGED <<uses, installed, net, gone, animating, list, stale, due, limShut>>
    BY <1>3 DEF Limiter!Drop
  <2>2. /\ view' \in [Views -> ViewSet]
        /\ \A u \in Views : /\ view'[u].live = view[u].live /\ view'[u].asleep = view[u].asleep
                            /\ view'[u].later => view[u].later
                            /\ view'[u].held => view[u].held
        /\ view'[v].value = x
    BY <1>1, <2>1 DEF ViewSet
  <2>3. gone \subseteq Limiter!Values
    BY DEF AxisInv, AxisTypes
  <2>4. QED
    BY <1>1, <2>1, <2>2, <2>3, SetAxisHolds
<1>4. QED
  BY <1>2, <1>3

LEMMA ToldHolds ==
  ASSUME AxisInv, NEW v \in Views, Limiter!Told(v)
  PROVE  AxisInv'
<1>1. /\ view \in [Views -> ViewSet] /\ skipped \subseteq Views /\ kept \subseteq Views
      /\ gone \subseteq Limiter!Values /\ view[v].live /\ view[v].value \in Limiter!Values
  BY DEF AxisInv, AxisTypes, ViewSet, OwnersLive, Limiter!Told
<1>2. /\ view' = [view EXCEPT ![v].later = FALSE] /\ Limiter!SetAxis(v, view[v].value)
      /\ UNCHANGED <<uses, installed, net, gone, animating, list, stale, due, limShut, skipped, kept>>
  BY DEF Limiter!Told
<1>3. /\ view' \in [Views -> ViewSet]
      /\ \A u \in Views : /\ view'[u].live = view[u].live /\ view'[u].asleep = view[u].asleep
                          /\ view'[u].later => view[u].later
                          /\ view'[u].held => view[u].held
      /\ view'[v].value = view[v].value
  BY <1>1, <1>2 DEF ViewSet
<1>4. QED
  BY <1>1, <1>2, <1>3, SetAxisHolds

LEMMA ToldByGoneHolds ==
  ASSUME AxisInv, NEW x \in gone, Limiter!ToldByGone(x)
  PROVE  AxisInv'
<1>1. /\ view \in [Views -> ViewSet] /\ skipped \subseteq Views /\ kept \subseteq Views
      /\ gone \subseteq Limiter!Values /\ x \in Limiter!Values
  BY DEF AxisInv, AxisTypes, ViewSet
<1>2. /\ gone' = gone \ {x} /\ Limiter!SetAxis(Limiter!Gone, x)
      /\ UNCHANGED <<uses, installed, net, view, animating, list, stale, due, limShut, skipped, kept>>
  BY DEF Limiter!ToldByGone
<1>3. QED
  BY <1>1, <1>2, SetAxisHolds, AxisConstants

LEMMA WakeHolds ==
  ASSUME AxisInv, NEW v \in Views, Limiter!Wake(v)
  PROVE  AxisInv'
<1>1. /\ view[v].live /\ view[v].asleep /\ view' = [view EXCEPT ![v].asleep = FALSE]
      /\ animating' = animating + 1 /\ stale' = TRUE /\ due' = (due \/ animating' > 0)
      /\ UNCHANGED <<js, uses, installed, net, gone, list, limShut, skipped, kept>>
  BY DEF Limiter!Wake, Limiter!Resync
<1>2. view \in [Views -> ViewSet] /\ animating \in Int
  BY DEF AxisInv, AxisTypes, ViewSet
<1>3. /\ view' \in [Views -> ViewSet] /\ \A u \in Views \ {v} : view'[u] = view[u]
      /\ view'[v].live = view[v].live /\ ~view'[v].asleep
      /\ view'[v].later = view[v].later /\ view'[v].value = view[v].value
  BY <1>1, <1>2 DEF ViewSet
<1>4. AxisTypes'
  BY <1>1, <1>3 DEF AxisInv, AxisTypes, ViewSet
<1>5. v \notin Awake /\ Awake' = Awake \union {v}
  BY <1>1, <1>3 DEF Awake
<1>6. AwakeCounted'
  <2>1. IsFiniteSet(Awake) /\ Cardinality(Awake) <= animating
    BY DEF AxisInv, AwakeCounted
  <2>2. /\ IsFiniteSet(Awake \union {v}) /\ Cardinality(Awake \union {v}) = Cardinality(Awake) + 1
        /\ Cardinality(Awake) \in Nat
    BY <1>5, <2>1, FS_AddElement, FS_CardinalityType
  <2>3. QED
    BY <1>1, <1>2, <1>5, <2>1, <2>2 DEF AwakeCounted
<1>7. OwnersLive' /\ NetFollows' /\ ListFollows'
  BY <1>1, <1>3 DEF AxisInv, OwnersLive, NetFollows, ListFollows
<1>8. ASSUME NEW u \in Views, view'[u].live, ~view'[u].later, u \notin skipped' \union kept'
      PROVE  Shows(u)'
  <2>1. Shows(u)
    BY <1>1, <1>3, <1>8 DEF AxisInv, ViewsShow
  <2>2. ~view'[u].asleep => due'
    BY <1>1, <1>4, <1>6, <1>8, AwakeMovesNext
  <2>3. view'[u].value = view[u].value
    BY <1>3
  <2>4. QED
    BY <1>1, <2>1, <2>2, <2>3 DEF Shows
<1>9. ViewsShow'
  BY <1>8 DEF ViewsShow
<1>10. QED
  BY <1>4, <1>6, <1>7, <1>9 DEF AxisInv

(* Who no longer moves is counted no longer, or still.                     *)
LEMMA FewerAwake ==
  ASSUME AxisTypes, AwakeCounted, NEW v \in Views, Awake' = Awake \ {v},
         animating' = animating \/ (v \in Awake /\ animating' = animating - 1)
  PROVE  AwakeCounted'
<1>1. IsFiniteSet(Awake) /\ Cardinality(Awake) <= animating /\ animating \in Int
  BY DEF AxisTypes, AwakeCounted
<1>2. /\ IsFiniteSet(Awake \ {v}) /\ Cardinality(Awake) \in Nat
      /\ Cardinality(Awake \ {v}) = IF v \in Awake THEN Cardinality(Awake) - 1 ELSE Cardinality(Awake)
  BY <1>1, FS_RemoveElement, FS_CardinalityType
<1>3. QED
  BY <1>1, <1>2 DEF AwakeCounted

LEMMA SleepHolds ==
  ASSUME AxisInv, NEW v \in Views, Limiter!Sleep(v)
  PROVE  AxisInv'
<1>1. /\ view[v].live /\ ~view[v].asleep /\ view' = [view EXCEPT ![v].asleep = TRUE]
      /\ animating' = animating - 1 /\ stale' = TRUE
      /\ UNCHANGED <<js, uses, installed, net, gone, list, due, limShut, skipped, kept>>
  BY DEF Limiter!Sleep
<1>2. view \in [Views -> ViewSet] /\ animating \in Int
  BY DEF AxisInv, AxisTypes, ViewSet
<1>3. /\ view' \in [Views -> ViewSet] /\ \A u \in Views \ {v} : view'[u] = view[u]
      /\ view'[v].live = view[v].live /\ view'[v].asleep = TRUE
      /\ view'[v].later = view[v].later /\ view'[v].value = view[v].value
  BY <1>1, <1>2 DEF ViewSet
<1>4. AxisTypes'
  BY <1>1, <1>2, <1>3 DEF AxisInv, AxisTypes, ViewSet
<1>5. v \in Awake /\ Awake' = Awake \ {v}
  BY <1>1, <1>3 DEF Awake
<1>6. AwakeCounted'
  BY <1>1, <1>5, FewerAwake DEF AxisInv
<1>7. OwnersLive' /\ NetFollows' /\ ListFollows'
  BY <1>1, <1>3 DEF AxisInv, OwnersLive, NetFollows, ListFollows
<1>8. ASSUME NEW u \in Views, view'[u].live, ~view'[u].later, u \notin skipped' \union kept'
      PROVE  Shows(u)'
  <2>1. Shows(u)
    BY <1>1, <1>3, <1>8 DEF AxisInv, ViewsShow
  <2>2. view'[u].value = view[u].value /\ (view[u].asleep => view'[u].asleep)
    BY <1>3
  <2>3. QED
    BY <1>1, <2>1, <2>2 DEF Shows
<1>9. ViewsShow'
  BY <1>8 DEF ViewsShow
<1>10. QED
  BY <1>4, <1>6, <1>7, <1>9 DEF AxisInv

LEMMA FreedHolds ==
  ASSUME AxisInv, NEW v \in Views, Limiter!Freed(v)
  PROVE  AxisInv'
<1>1. /\ view' = [view EXCEPT ![v] = Limiter!Dead]
      /\ gone' = gone \union (IF view[v].later THEN {view[v].value} ELSE {})
      /\ js' = [j \in Joysticks |-> [js[j] EXCEPT !.owner = Limiter!Disown(js[j].owner, v)]]
      /\ net' = [net EXCEPT !.owner = Limiter!Disown(net.owner, v)]
      /\ installed' = (\E u \in Views \ {v} : view[u].live)
      /\ stale' = TRUE
      /\ UNCHANGED <<uses, animating, list, due, limShut, skipped, kept>>
  BY DEF Limiter!Freed
<1>2. /\ view \in [Views -> ViewSet] /\ view[v].value \in Limiter!Values
      /\ gone \subseteq Limiter!Values
  BY DEF AxisInv, AxisTypes, ViewSet
<1>3. /\ Limiter!Dead \in ViewSet /\ ~Limiter!Dead.live /\ ~Limiter!Dead.later /\ ~Limiter!Dead.held
  BY AxisConstants DEF Limiter!Dead, ViewSet
<1>4. /\ view' \in [Views -> ViewSet] /\ \A u \in Views \ {v} : view'[u] = view[u]
      /\ view'[v] = Limiter!Dead
  BY <1>1, <1>2, <1>3
<1> DEFINE Owners == Views \union {Limiter!Nobody, Limiter!Gone}
<1>5. \A o \in Owners : Limiter!Disown(o, v) \in Owners /\ Limiter!Disown(o, v) # v
                        /\ \A u \in Views \ {v} : Limiter!Disown(o, v) = u <=> o = u
  BY AxisConstants DEF Limiter!Disown
<1>6. /\ \A j \in Joysticks : /\ js'[j].axis = js[j].axis /\ js'[j].op = js[j].op
                              /\ js'[j].owner = Limiter!Disown(js[j].owner, v)
                              /\ js[j].owner \in Owners
      /\ js' \in [Joysticks -> [axis : Limiter!Values, owner : Owners, op : BOOLEAN]]
  BY <1>1, <1>5 DEF AxisInv, AxisTypes
<1>7. /\ net'.value = net.value /\ net'.owner = Limiter!Disown(net.owner, v) /\ net.owner \in Owners
      /\ net' \in [value : Limiter!Values, owner : Owners]
  BY <1>1, <1>5 DEF AxisInv, AxisTypes
<1>8. AxisTypes'
  <2>1. gone' \subseteq Limiter!Values /\ installed' \in BOOLEAN /\ stale' \in BOOLEAN
    BY <1>1, <1>2
  <2>2. QED
    BY <1>1, <1>4, <1>6, <1>7, <2>1 DEF AxisInv, AxisTypes, ViewSet
<1>9. Awake' = Awake \ {v}
  BY <1>3, <1>4 DEF Awake
<1>10. AwakeCounted' /\ ListFollows'
  BY <1>1, <1>9, FewerAwake DEF AxisInv, ListFollows
<1>11. OwnersLive'
  <2>1. \A u \in Views : view'[u].live <=> u # v /\ view[u].live
    BY <1>3, <1>4
  <2>2. installed' = TRUE <=> \E u \in Views : view'[u].live
    BY <1>1, <2>1
  <2>3. ASSUME NEW u \in Views
        PROVE  /\ view'[u].later \/ view'[u].held => view'[u].live
               /\ net'.owner = u => view'[u].live
               /\ \A j \in Joysticks : js'[j].owner = u => view'[u].live
    <3>1. CASE u = v
      BY <1>3, <1>4, <1>5, <1>6, <1>7, <3>1
    <3>2. CASE u # v
      BY <1>4, <1>5, <1>6, <1>7, <2>1, <3>2 DEF AxisInv, OwnersLive
    <3>3. QED
      BY <3>1, <3>2
  <2>4. QED
    BY <2>2, <2>3 DEF OwnersLive
<1>12. uses \in Joysticks
  BY DEF AxisInv, AxisTypes
<1>13. NetFollows'
  BY <1>1, <1>6, <1>7, <1>12 DEF AxisInv, NetFollows, OwnersLive
<1>14. ASSUME NEW u \in Views, view'[u].live, ~view'[u].later, u \notin skipped' \union kept'
       PROVE  Shows(u)'
  <2>1. u # v /\ view'[u] = view[u]
    BY <1>3, <1>4, <1>14
  <2>2. Shows(u)
    BY <1>1, <1>14, <2>1 DEF AxisInv, ViewsShow
  <2>3. /\ js'[uses].owner = u <=> js[uses].owner = u
        /\ net'.owner = u <=> net.owner = u
    BY <1>5, <1>6, <1>7, <1>12, <2>1
  <2>4. QED
    BY <1>1, <1>6, <1>7, <1>12, <2>1, <2>2, <2>3 DEF Shows
<1>15. ViewsShow'
  BY <1>14 DEF ViewsShow
<1>16. QED
  BY <1>8, <1>10, <1>11, <1>13, <1>15 DEF AxisInv

LEMMA AxisShutHolds == ASSUME AxisInv, Limiter!Shut PROVE AxisInv'
<1>1. /\ limShut' = ~limShut /\ due' \in BOOLEAN /\ (due => due')
      /\ (limShut => due' = (due \/ animating > 0))
      /\ UNCHANGED <<js, uses, installed, net, view, gone, animating, list, stale, skipped, kept>>
  BY DEF Limiter!Shut, Limiter!Resync, AxisInv, AxisTypes
<1>2. AwakeCounted' /\ Awake' = Awake
  BY <1>1, SameAwake DEF AxisInv
<1>3. AxisTypes' /\ OwnersLive' /\ ListFollows' /\ NetFollows'
  BY <1>1, <1>2 DEF AxisInv, AxisTypes, OwnersLive, ListFollows, NetFollows
<1>4. ASSUME NEW u \in Views, view[u].live, ~view[u].later, u \notin skipped \union kept
      PROVE  Shows(u)'
  <2>1. Shows(u)
    BY <1>4 DEF AxisInv, ViewsShow
  <2>2. limShut /\ ~view[u].asleep => due'
    BY <1>1, <1>4, AwakeMoves DEF AxisInv
  <2>3. QED
    BY <1>1, <2>1, <2>2 DEF Shows
<1>5. ViewsShow'
  BY <1>1, <1>4 DEF ViewsShow
<1>6. QED
  BY <1>2, <1>3, <1>5 DEF AxisInv

LEMMA AxisNextHolds == AxisInv /\ [Limiter!Next]_limVars => AxisInv'
<1> SUFFICES ASSUME AxisInv, [Limiter!Next]_limVars PROVE AxisInv'
  OBVIOUS
<1>1. CASE UNCHANGED limVars
  <2>1. UNCHANGED <<js, uses, installed, net, view, gone, animating, list, stale, due, limShut,
                    skipped, kept>>
    BY <1>1 DEF limVars
  <2>2. AwakeCounted' /\ Awake' = Awake
    BY <2>1, SameAwake DEF AxisInv
  <2>3. QED
    BY <2>1, <2>2 DEF AxisInv, AxisTypes, OwnersLive, ListFollows, NetFollows, ViewsShow, Shows
<1>2. CASE Limiter!Next
  <2>1. CASE Limiter!Sync \/ Limiter!Shut
    BY <2>1, SyncHolds, AxisShutHolds
  <2>2. ASSUME NEW j \in Joysticks,
               Limiter!SendState(j) \/ Limiter!Reset(j) \/ Limiter!ChangeJoystick(j)
                 \/ \E x \in Limiter!Values : Limiter!Receive(j, x)
        PROVE  AxisInv'
    BY <2>2, SendStateHolds, ResetHolds, ChangeJoystickHolds, ReceiveHolds
  <2>3. ASSUME NEW v \in Views,
               Limiter!Wake(v) \/ Limiter!Sleep(v) \/ Limiter!Freed(v) \/ Limiter!Grab(v)
                 \/ Limiter!Told(v) \/ \E b \in BOOLEAN : Limiter!Built(v, b)
        PROVE  AxisInv'
    BY <2>3, WakeHolds, SleepHolds, FreedHolds, GrabHolds, ToldHolds, BuiltHolds
  <2>4. ASSUME NEW v \in Views, NEW x \in Limiter!Values, Limiter!Drag(v, x) \/ Limiter!Drop(v, x)
        PROVE  AxisInv'
    BY <2>4, DragHolds, DropHolds
  <2>5. ASSUME NEW x \in gone, Limiter!ToldByGone(x)
        PROVE  AxisInv'
    BY <2>5, ToldByGoneHolds
  <2>6. QED
    BY <1>2, <2>1, <2>2, <2>3, <2>4, <2>5 DEF Limiter!Next
<1>3. QED
  BY <1>1, <1>2

(* Once nothing is due, netValues are the joystick's axis, and a view      *)
(* shows them whether it owns the axis or was synchronised.                *)
LEMMA AxisIsShown == AxisInv => ShowsAxis
<1> SUFFICES ASSUME AxisInv, Limiter!Quiet, NEW u \in Views, view[u].live, ~view[u].asleep,
                    u \notin skipped \union kept
             PROVE  view[u].value = js[uses].axis
  BY DEF ShowsAxis, Limiter!ShowsAxis
<1>1. ~due /\ ~limShut /\ ~js[uses].op /\ ~view[u].later
  BY DEF Limiter!Quiet
<1>2. installed = TRUE
  BY DEF AxisInv, OwnersLive
<1>3. net.value = js[uses].axis
  BY <1>1, <1>2 DEF AxisInv, NetFollows
<1>4. Shows(u)
  BY <1>1 DEF AxisInv, ViewsShow
<1>5. QED
  BY <1>1, <1>3, <1>4 DEF Shows

(* When nothing is due, every view that is shown and not excepted shows    *)
(* the axis of the joystick, whoever moved it, for any views, joysticks    *)
(* and values: dragging, sending, synchronising, sleeping, building and    *)
(* freeing views and changing the joystick in any order.                   *)
THEOREM AxisIsAlwaysShown == Limiter!Spec => []ShowsAxis
<1>1. Limiter!Init => AxisInv
  BY AxisInitHolds
<1>2. AxisInv /\ [Limiter!Next]_limVars => AxisInv'
  BY AxisNextHolds
<1>3. AxisInv => ShowsAxis
  BY AxisIsShown
<1>4. QED
  BY <1>1, <1>2, <1>3, PTL DEF Limiter!Spec, limVars, Limiter!limVars

-----------------------------------------------------------------------------
(* The overlay. Regions of an older layout may be in the cache or on the   *)
(* way only while something is left that will clear them.                  *)
Excused(p) == \/ p \in reused \/ p \in reworks \/ Nothing \in reworks
              \/ p = configured \/ editing = p

Evaluations == [page : Pages, version : Nat, live : BOOLEAN, lost : BOOLEAN]

OverlayTypes ==
  /\ shape \in [Pages -> Nat]
  /\ route \in Pages
  /\ goal \in Pages \union {Nothing} /\ editing \in Pages \union {Nothing}
  /\ reworks \subseteq Pages \union {Nothing} /\ configured \in Pages \union {Nothing}
  /\ reused \subseteq Pages
  /\ cache \in [Pages -> [page : Pages \union {Nothing}, version : Nat]]
  /\ asked \in Seq(Evaluations)
  /\ working \in BOOLEAN /\ dropped \in BOOLEAN /\ failed \in BOOLEAN
  /\ wait \in Pages \union {Nothing}

CacheCurrent ==
  \A p \in Pages : cache[p] = Overlay!Empty \/ cache[p] = Overlay!Pair(p, shape[p]) \/ Excused(p)

AskedCurrent ==
  \A i \in DOMAIN asked :
    asked[i].live => asked[i].version = shape[asked[i].page] \/ Excused(asked[i].page)

(* What was asked for last is still to be selected, evaluated or drawn, or *)
(* it is shown.                                                            *)
Coming ==
  \/ Overlay!Select(route) \in tasks /\ ~dropped
  \/ wait = route /\ Overlay!Live(route)
  \/ wait = Nothing /\ Overlay!Draw \in tasks /\ pair = Overlay!Pair(route, shape[route])
  \/ wait = Nothing /\ Overlay!Draw \notin tasks /\ shown = Overlay!Pair(route, shape[route])

Underway ==
  (goal = Nothing /\ editing = Nothing /\ reworks = {} /\ configured = Nothing /\ ~failed
    /\ route \notin reused) => Coming

OverlayInv == OverlayTypes /\ CacheCurrent /\ AskedCurrent /\ Underway

-----------------------------------------------------------------------------
LEMMA OverlayFacts ==
  /\ Nothing \notin Pages
  /\ \A p \in Pages : Overlay!Select(p) # Overlay!Draw
  /\ \A p, q \in Pages : Overlay!Select(p) = Overlay!Select(q) => p = q
  /\ \A p \in Pages : \A n \in Nat : Overlay!Pair(p, n) # Overlay!Empty
<1>1. Nothing \notin Pages
  BY CanvasAssumption DEF Overlay!OverlayAssumption
<1>2. QED
  BY <1>1 DEF Overlay!Select, Overlay!Draw, Overlay!Pair, Overlay!Empty

LEMMA OverlayInitHolds == Overlay!Init => OverlayInv
<1> SUFFICES ASSUME Overlay!Init PROVE OverlayInv
  OBVIOUS
<1>1. OverlayTypes
  <2>1. cache \in [Pages -> [page : Pages \union {Nothing}, version : Nat]]
    BY DEF Overlay!Init, Overlay!Empty
  <2>2. asked \in Seq(Evaluations) /\ shape \in [Pages -> Nat]
    BY DEF Overlay!Init
  <2>3. working \in BOOLEAN /\ dropped \in BOOLEAN /\ failed \in BOOLEAN
    BY Zenon DEF Overlay!Init
  <2>4. QED
    BY <2>1, <2>2, <2>3 DEF OverlayTypes, Overlay!Init
<1>2. CacheCurrent /\ AskedCurrent
  BY DEF Overlay!Init, CacheCurrent, AskedCurrent
<1>3. Underway
  BY DEF Overlay!Init, Underway, Coming
<1>4. QED
  BY <1>1, <1>2, <1>3 DEF OverlayInv

(* The sequence of evaluations: its first goes, or one more comes.         *)
LEMMA TailOfAsked ==
  ASSUME OverlayTypes, asked # <<>>
  PROVE  /\ asked[1] \in Evaluations /\ 1 \in DOMAIN asked
         /\ Tail(asked) \in Seq(Evaluations)
         /\ \A i \in DOMAIN Tail(asked) : i + 1 \in DOMAIN asked /\ Tail(asked)[i] = asked[i + 1]
         /\ \A i \in DOMAIN asked : i = 1 \/ (i - 1 \in DOMAIN Tail(asked) /\ Tail(asked)[i - 1] = asked[i])
BY DEF OverlayTypes

LEMMA AskedTyped ==
  ASSUME OverlayTypes
  PROVE  /\ DOMAIN asked = 1 .. Len(asked) /\ Len(asked) \in Nat
         /\ \A i \in DOMAIN asked : /\ asked[i] \in Evaluations
              /\ asked[i].page \in Pages /\ asked[i].version \in Nat
              /\ asked[i].live \in BOOLEAN /\ asked[i].lost \in BOOLEAN
<1>1. asked \in Seq(Evaluations)
  BY DEF OverlayTypes
<1>2. DOMAIN asked = 1 .. Len(asked) /\ Len(asked) \in Nat
  BY <1>1
<1>3. \A i \in DOMAIN asked : asked[i] \in Evaluations
  BY <1>1, <1>2
<1>4. QED
  BY <1>2, <1>3 DEF Evaluations

(* The evaluation of a page stays asked for when another one is dropped.   *)
LEMMA LiveStays ==
  ASSUME OverlayTypes, asked # <<>>, asked' = Tail(asked), NEW p \in Pages,
         ~(asked[1].live /\ asked[1].page = p), Overlay!Live(p)
  PROVE  Overlay!Live(p)'
<1>1. PICK i \in DOMAIN asked : asked[i].live /\ asked[i].page = p
  BY DEF Overlay!Live
<1>2. i - 1 \in DOMAIN Tail(asked) /\ Tail(asked)[i - 1] = asked[i]
  BY <1>1, TailOfAsked
<1>3. i - 1 \in DOMAIN asked' /\ asked'[i - 1].live /\ asked'[i - 1].page = p
  BY <1>1, <1>2
<1>4. QED
  BY <1>3 DEF Overlay!Live

LEMMA PrefetchFacts ==
  ASSUME OverlayTypes, NEW p \in Pages, Overlay!Prefetch(p)
  PROVE  /\ asked' \in Seq(Evaluations)
         /\ \A i \in DOMAIN asked : i \in DOMAIN asked' /\ asked'[i] = asked[i]
         /\ \A i \in DOMAIN asked' : i \in DOMAIN asked \/
              (asked'[i].page = p /\ asked'[i].version = shape[p])
         /\ \E i \in DOMAIN asked' : asked'[i].live /\ asked'[i].page = p
<1>1. CASE Overlay!Live(p)
  <2>1. asked' = asked
    BY <1>1 DEF Overlay!Prefetch
  <2>2. QED
    BY <1>1, <2>1 DEF Overlay!Live, OverlayTypes
<1>2. CASE ~Overlay!Live(p)
  <2> DEFINE e == Overlay!Evaluation(p)
  <2>1. asked' = Append(asked, e)
    BY <1>2 DEF Overlay!Prefetch
  <2>2. e \in Evaluations /\ e.page = p /\ e.version = shape[p] /\ e.live
    BY DEF Overlay!Evaluation, Evaluations, OverlayTypes
  <2> HIDE DEF e
  <2>3. asked \in Seq(Evaluations)
    BY DEF OverlayTypes
  <2>4. /\ asked' \in Seq(Evaluations) /\ Len(asked') = Len(asked) + 1
        /\ \A i \in 1 .. Len(asked) : asked'[i] = asked[i]
        /\ asked'[Len(asked) + 1] = e
    BY <2>1, <2>2, <2>3
  <2>5. Len(asked) \in Nat /\ DOMAIN asked = 1 .. Len(asked) /\ DOMAIN asked' = 1 .. Len(asked')
    BY <2>3, <2>4
  <2>6. QED
    BY <2>2, <2>4, <2>5
<1>3. QED
  BY <1>1, <1>2

(* An update asks for the page that is shown then.                         *)
LEMMA UpdateComes ==
  ASSUME Overlay!UpdateUnlessEdited(route', editing' # Nothing)
  PROVE  Underway' /\ dropped' \in {dropped, FALSE} /\ failed' \in {failed, FALSE}
<1>1. CASE editing' # Nothing
  BY <1>1 DEF Overlay!UpdateUnlessEdited, Underway
<1>2. CASE editing' = Nothing
  <2>1. Overlay!Select(route') \in tasks' /\ dropped' = FALSE /\ failed' = FALSE
    BY <1>2 DEF Overlay!UpdateUnlessEdited, Overlay!Update
  <2>2. Coming'
    BY <2>1 DEF Coming, Overlay!Select
  <2>3. QED
    BY <2>1, <2>2 DEF Underway
<1>3. QED
  BY <1>1, <1>2

LEMMA SelectsHolds == ASSUME OverlayInv, Overlay!Selects PROVE OverlayInv'
<1>1. PICK p \in Pages :
        /\ Overlay!Select(p) \in tasks
        /\ CASE Overlay!Outdated(p) ->
                  /\ tasks' = tasks \ {Overlay!Select(p)}
                  /\ UNCHANGED <<handle, dropped, pair>> /\ UNCHANGED <<cache, asked, wait>>
             [] ~Overlay!Outdated(p) /\ cache[p] # Overlay!Empty ->
                  /\ wait' = Nothing
                  /\ Overlay!Ready(cache[p], tasks \ {Overlay!Select(p)})
                  /\ UNCHANGED <<cache, asked>>
             [] ~Overlay!Outdated(p) /\ cache[p] = Overlay!Empty ->
                  /\ wait' = p
                  /\ Overlay!Prefetch(p)
                  /\ tasks' = tasks \ {Overlay!Select(p)}
                  /\ UNCHANGED <<handle, dropped, pair, cache>>
  BY DEF Overlay!Selects, Overlay!changing, Overlay!calculator
<1>2. UNCHANGED <<shape, route, goal, editing, reworks, configured, working, shown, acts, reused, failed>>
  BY DEF Overlay!Selects, Overlay!changing
<1>3. CASE Overlay!Outdated(p)
  <2>1. /\ tasks' = tasks \ {Overlay!Select(p)}
        /\ UNCHANGED <<handle, dropped, pair, cache, asked, wait>>
    BY <1>1, <1>3
  <2>2. OverlayTypes' /\ CacheCurrent' /\ AskedCurrent'
    BY <1>2, <2>1 DEF OverlayInv, OverlayTypes, CacheCurrent, AskedCurrent, Excused
  <2>3. (Overlay!Select(route) \in tasks /\ ~dropped) => Overlay!Select(route) \in tasks'
    BY <1>3, <2>1, OverlayFacts DEF Overlay!Outdated, OverlayInv, OverlayTypes
  <2>4. Overlay!Draw \in tasks' <=> Overlay!Draw \in tasks
    BY <2>1, OverlayFacts
  <2>5. Coming => Coming'
    BY <1>2, <2>1, <2>3, <2>4 DEF Coming, Overlay!Live, Overlay!Select, Overlay!Draw, Overlay!Pair
  <2>6. QED
    BY <1>2, <2>2, <2>5 DEF OverlayInv, Underway
<1>4. CASE ~Overlay!Outdated(p) /\ cache[p] # Overlay!Empty
  <2>1. /\ wait' = Nothing /\ pair' = cache[p] /\ Overlay!Draw \in tasks'
        /\ UNCHANGED <<cache, asked, dropped>>
    BY <1>1, <1>4 DEF Overlay!Ready
  <2>2. OverlayTypes' /\ CacheCurrent' /\ AskedCurrent'
    BY <1>2, <2>1 DEF OverlayInv, OverlayTypes, CacheCurrent, AskedCurrent, Excused
  <2>3. p = route
    BY <1>4 DEF Overlay!Outdated
  <2>4. (editing = Nothing /\ reworks = {} /\ configured = Nothing /\ route \notin reused)
           => pair' = Overlay!Pair(route, shape[route])
    BY <1>4, <2>1, <2>3, OverlayFacts DEF OverlayInv, OverlayTypes, CacheCurrent, Excused
  <2>5. Underway'
    BY <1>2, <2>1, <2>4 DEF Underway, Coming, Overlay!Draw, Overlay!Pair
  <2>6. QED
    BY <2>2, <2>5 DEF OverlayInv
<1>5. CASE ~Overlay!Outdated(p) /\ cache[p] = Overlay!Empty
  <2>1. wait' = p /\ Overlay!Prefetch(p) /\ UNCHANGED <<dropped, pair, cache>>
    BY <1>1, <1>5
  <2>2. /\ asked' \in Seq(Evaluations)
        /\ \A i \in DOMAIN asked : i \in DOMAIN asked' /\ asked'[i] = asked[i]
        /\ \A i \in DOMAIN asked' : i \in DOMAIN asked \/
             (asked'[i].page = p /\ asked'[i].version = shape[p])
        /\ \E i \in DOMAIN asked' : asked'[i].live /\ asked'[i].page = p
    BY <2>1, PrefetchFacts DEF OverlayInv
  <2>3. OverlayTypes' /\ CacheCurrent'
    BY <1>2, <2>1, <2>2 DEF OverlayInv, OverlayTypes, CacheCurrent, Excused
  <2>4. AskedCurrent'
    BY <1>2, <2>2 DEF OverlayInv, AskedCurrent, Excused
  <2>5. p = route
    BY <1>5 DEF Overlay!Outdated
  <2>6. Underway'
    BY <1>2, <2>1, <2>2, <2>5 DEF Underway, Coming, Overlay!Live
  <2>7. QED
    BY <2>3, <2>4, <2>6 DEF OverlayInv
<1>6. QED
  BY <1>3, <1>4, <1>5

LEMMA DrawsHolds == ASSUME OverlayInv, Overlay!Draws PROVE OverlayInv'
<1>1. /\ Overlay!Draw \in tasks /\ tasks' = tasks \ {Overlay!Draw} /\ shown' = pair
      /\ UNCHANGED <<shape, route, goal, editing, reworks, configured, working, pair, dropped, reused, failed>>
      /\ UNCHANGED <<cache, asked, wait>>
  BY DEF Overlay!Draws, Overlay!changing, Overlay!calculator
<1>2. OverlayTypes' /\ CacheCurrent' /\ AskedCurrent'
  BY <1>1 DEF OverlayInv, OverlayTypes, CacheCurrent, AskedCurrent, Excused
<1>3. /\ Overlay!Select(route) \in tasks => Overlay!Select(route) \in tasks'
      /\ Overlay!Draw \notin tasks'
  BY <1>1, OverlayFacts DEF OverlayInv, OverlayTypes
<1>4. Coming => Coming'
  BY <1>1, <1>3 DEF Coming, Overlay!Live, Overlay!Select, Overlay!Draw, Overlay!Pair
<1>5. QED
  BY <1>1, <1>2, <1>4 DEF OverlayInv, Underway

LEMMA AnswerHolds == ASSUME OverlayInv, Overlay!Answer PROVE OverlayInv'
<1> DEFINE e == asked[1]
           c == Overlay!Pair(e.page, e.version)
<1>1. /\ asked # <<>> /\ asked' = Tail(asked)
      /\ IF ~e.live THEN UNCHANGED <<cache, wait, pair>> /\ UNCHANGED <<tasks, handle, dropped>>
         ELSE /\ cache' = [cache EXCEPT ![e.page] = c]
              /\ IF wait = e.page THEN wait' = Nothing /\ Overlay!Ready(c, tasks)
                 ELSE UNCHANGED <<wait, pair>> /\ UNCHANGED <<tasks, handle, dropped>>
      /\ UNCHANGED <<shape, route, goal, editing, reworks, configured, working, shown, reused, failed>>
  BY DEF Overlay!Answer, Overlay!changing, Overlay!request
<1>2. /\ e \in Evaluations /\ asked' \in Seq(Evaluations)
      /\ \A i \in DOMAIN asked' : i + 1 \in DOMAIN asked /\ asked'[i] = asked[i + 1]
      /\ \A i \in DOMAIN asked : i = 1 \/ (i - 1 \in DOMAIN asked' /\ asked'[i - 1] = asked[i])
      /\ 1 \in DOMAIN asked
  BY <1>1, TailOfAsked DEF OverlayInv
<1>3. e.live => e.version = shape[e.page] \/ Excused(e.page)
  BY <1>2 DEF OverlayInv, AskedCurrent
<1>4. e.page \in Pages /\ e.version \in Nat
  BY <1>2 DEF Evaluations
<1> HIDE DEF e
<1>5. AskedCurrent'
  BY <1>1, <1>2 DEF OverlayInv, AskedCurrent, Excused
<1>6. CASE ~e.live
  <2>1. UNCHANGED <<cache, wait, pair, tasks, dropped>>
    BY <1>1, <1>6
  <2>2. OverlayTypes' /\ CacheCurrent'
    BY <1>1, <1>2, <2>1 DEF OverlayInv, OverlayTypes, CacheCurrent, Excused
  <2>3. Overlay!Live(route) => Overlay!Live(route)'
    BY <1>1, <1>6, LiveStays DEF OverlayInv, OverlayTypes, e
  <2>4. Coming => Coming'
    BY <1>1, <2>1, <2>3 DEF Coming, Overlay!Select, Overlay!Draw, Overlay!Pair
  <2>5. QED
    BY <1>1, <1>5, <2>2, <2>4 DEF OverlayInv, Underway
<1>7. CASE e.live
  <2>1. cache' = [cache EXCEPT ![e.page] = c]
    BY <1>1, <1>7
  <2>2. c \in [page : Pages \union {Nothing}, version : Nat]
    BY <1>4 DEF Overlay!Pair
  <2>3. c = Overlay!Pair(e.page, shape[e.page]) \/ Excused(e.page)
    BY <1>3, <1>7
  <2>4. cache' \in [Pages -> [page : Pages \union {Nothing}, version : Nat]]
    BY <1>4, <2>1, <2>2 DEF OverlayInv, OverlayTypes
  <2>5. CacheCurrent'
    <3>1. ASSUME NEW q \in Pages
          PROVE  cache'[q] = Overlay!Empty \/ cache'[q] = Overlay!Pair(q, shape[q]) \/ Excused(q)
      <4>1. CASE q = e.page
        BY <2>1, <2>3, <4>1 DEF OverlayInv, OverlayTypes
      <4>2. CASE q # e.page
        BY <2>1, <4>2 DEF OverlayInv, OverlayTypes, CacheCurrent
      <4>3. QED
        BY <4>1, <4>2
    <3>2. QED
      BY <1>1, <3>1 DEF CacheCurrent, Excused, Overlay!Empty, Overlay!Pair
  <2>6. CASE wait = e.page
    <3>1. wait' = Nothing /\ pair' = c /\ Overlay!Draw \in tasks' /\ tasks \subseteq tasks'
          /\ dropped' = dropped
      BY <1>1, <1>7, <2>6 DEF Overlay!Ready
    <3>2. OverlayTypes'
      BY <1>1, <1>2, <2>4, <3>1 DEF OverlayInv, OverlayTypes
    <3>3. Underway'
      <4>1. SUFFICES ASSUME goal = Nothing, editing = Nothing, reworks = {}, configured = Nothing, ~failed,
                            route \notin reused
                     PROVE  Coming'
        BY <1>1 DEF Underway
      <4>2. Coming
        BY <4>1 DEF OverlayInv, Underway
      <4>3. CASE Overlay!Select(route) \in tasks /\ ~dropped
        BY <1>1, <3>1, <4>3 DEF Coming, Overlay!Select
      <4>4. CASE ~(Overlay!Select(route) \in tasks /\ ~dropped)
        <5>1. wait = route
          BY <1>4, <2>6, <4>2, <4>4, OverlayFacts DEF Coming
        <5>2. ~Excused(route)
          BY <4>1, OverlayFacts DEF Excused, OverlayInv, OverlayTypes
        <5>3. pair' = Overlay!Pair(route, shape[route])
          BY <2>3, <2>6, <3>1, <5>1, <5>2
        <5>4. QED
          BY <1>1, <3>1, <5>3 DEF Coming, Overlay!Draw, Overlay!Pair
      <4>5. QED
        BY <4>3, <4>4
    <3>4. QED
      BY <1>5, <2>5, <3>2, <3>3 DEF OverlayInv
  <2>7. CASE wait # e.page
    <3>1. UNCHANGED <<wait, pair, tasks, dropped>>
      BY <1>1, <1>7, <2>7
    <3>2. OverlayTypes'
      BY <1>1, <1>2, <2>4, <3>1 DEF OverlayInv, OverlayTypes
    <3>3. wait = route /\ Overlay!Live(route) => Overlay!Live(route)'
      BY <1>1, <2>7, LiveStays DEF OverlayInv, OverlayTypes, e
    <3>4. Coming => Coming'
      BY <1>1, <3>1, <3>3 DEF Coming, Overlay!Select, Overlay!Draw, Overlay!Pair
    <3>5. QED
      BY <1>1, <1>5, <2>5, <3>2, <3>4 DEF OverlayInv, Underway
  <2>8. QED
    BY <2>6, <2>7
<1>8. QED
  BY <1>6, <1>7, <1>2 DEF Evaluations

LEMMA FailHolds == ASSUME OverlayInv, Overlay!Fail PROVE OverlayInv'
<1>1. /\ working' = FALSE
      /\ asked' = [i \in DOMAIN asked |-> [asked[i] EXCEPT !.lost = TRUE]]
      /\ UNCHANGED <<shape, route, goal, editing, reworks, configured, cache, wait, pair, shown, reused,
                     failed, tasks, dropped>>
  BY DEF Overlay!Fail, Overlay!changing, Overlay!request
<1>2. \A i \in DOMAIN asked : asked[i] \in Evaluations
  BY AskedTyped DEF OverlayInv
<1>3. /\ DOMAIN asked' = DOMAIN asked
      /\ \A i \in DOMAIN asked : asked'[i] \in Evaluations /\ asked'[i].live = asked[i].live
           /\ asked'[i].page = asked[i].page /\ asked'[i].version = asked[i].version
  <2>1. ASSUME NEW i \in DOMAIN asked
        PROVE  asked'[i] \in Evaluations /\ asked'[i].live = asked[i].live
               /\ asked'[i].page = asked[i].page /\ asked'[i].version = asked[i].version
    <3>1. asked[i] \in [page : Pages, version : Nat, live : BOOLEAN, lost : BOOLEAN]
      BY <1>2 DEF Evaluations
    <3>2. asked'[i] = [asked[i] EXCEPT !.lost = TRUE]
      BY <1>1
    <3>3. QED
      BY <3>1, <3>2 DEF Evaluations
  <2>2. DOMAIN asked' = DOMAIN asked
    BY <1>1
  <2>3. QED
    BY <2>1, <2>2
<1>4. asked' \in Seq(Evaluations)
  <2>1. DOMAIN asked = 1 .. Len(asked) /\ Len(asked) \in Nat
    BY AskedTyped DEF OverlayInv
  <2>2. asked' \in [1 .. Len(asked) -> Evaluations]
    BY <1>1, <1>3, <2>1
  <2>3. QED
    BY <2>1, <2>2
<1>5. OverlayTypes'
  BY <1>1, <1>4 DEF OverlayInv, OverlayTypes
<1>6. CacheCurrent' /\ AskedCurrent'
  BY <1>1, <1>3 DEF OverlayInv, CacheCurrent, AskedCurrent, Excused
<1>7. Overlay!Live(route) => Overlay!Live(route)'
  <2>1. ASSUME NEW i \in DOMAIN asked, asked[i].live, asked[i].page = route
        PROVE  Overlay!Live(route)'
    <3>1. i \in DOMAIN asked' /\ asked'[i].live /\ asked'[i].page = route'
      BY <1>1, <1>3, <2>1
    <3>2. QED
      BY <3>1 DEF Overlay!Live
  <2>2. QED
    BY <2>1 DEF Overlay!Live
<1>8. Coming => Coming'
  BY <1>1, <1>7 DEF Coming, Overlay!Select, Overlay!Draw, Overlay!Pair
<1>9. QED
  BY <1>1, <1>5, <1>6, <1>8 DEF OverlayInv, Underway

LEMMA ExpireHolds == ASSUME OverlayInv, Overlay!Expire PROVE OverlayInv'
<1>1. /\ asked # <<>> /\ asked' = Tail(asked)
      /\ IF asked[1].live /\ asked[1].page = wait THEN wait' = Nothing /\ failed' = TRUE
         ELSE UNCHANGED <<wait, failed>>
      /\ UNCHANGED <<shape, route, goal, editing, reworks, configured, cache, working, pair, shown, reused,
                     tasks, dropped>>
  BY DEF Overlay!Expire, Overlay!changing, Overlay!request
<1>2. /\ asked' \in Seq(Evaluations)
      /\ \A i \in DOMAIN asked' : i + 1 \in DOMAIN asked /\ asked'[i] = asked[i + 1]
  BY <1>1, TailOfAsked DEF OverlayInv
<1>3. CacheCurrent' /\ AskedCurrent'
  BY <1>1, <1>2 DEF OverlayInv, CacheCurrent, AskedCurrent, Excused
<1>4. CASE asked[1].live /\ asked[1].page = wait
  <2>1. wait' = Nothing /\ failed' = TRUE
    BY <1>1, <1>4
  <2>2. OverlayTypes'
    BY <1>1, <1>2, <2>1 DEF OverlayInv, OverlayTypes
  <2>3. QED
    BY <1>3, <2>1, <2>2 DEF OverlayInv, Underway
<1>5. CASE ~(asked[1].live /\ asked[1].page = wait)
  <2>1. UNCHANGED <<wait, failed>>
    BY <1>1, <1>5
  <2>2. OverlayTypes'
    BY <1>1, <1>2, <2>1 DEF OverlayInv, OverlayTypes
  <2>3. wait = route /\ Overlay!Live(route) => Overlay!Live(route)'
    BY <1>1, <1>5, LiveStays DEF OverlayInv, OverlayTypes
  <2>4. Coming => Coming'
    BY <1>1, <2>1, <2>3 DEF Coming, Overlay!Select, Overlay!Draw, Overlay!Pair
  <2>5. QED
    BY <1>1, <1>3, <2>1, <2>2, <2>4 DEF OverlayInv, Underway
<1>6. QED
  BY <1>4, <1>5

LEMMA ReloadHolds == ASSUME OverlayInv, Overlay!Reload PROVE OverlayInv'
<1>1. /\ working' = TRUE
      /\ UNCHANGED <<shape, route, goal, editing, reworks, configured, cache, asked, wait, pair, shown, reused,
                     failed, tasks, dropped>>
  BY DEF Overlay!Reload, Overlay!changing, Overlay!request, Overlay!calculator
<1>2. OverlayTypes' /\ CacheCurrent' /\ AskedCurrent'
  BY <1>1 DEF OverlayInv, OverlayTypes, CacheCurrent, AskedCurrent, Excused
<1>3. Coming => Coming'
  BY <1>1 DEF Coming, Overlay!Live, Overlay!Select, Overlay!Draw, Overlay!Pair
<1>4. QED
  BY <1>1, <1>2, <1>3 DEF OverlayInv, Underway

(* A layout changes on pages that are excused from then on.                *)
LEMMA MovesExcused ==
  ASSUME OverlayInv, UNCHANGED <<cache, asked>>,
         \A p \in Pages : Excused(p) => Excused(p)',
         \A p \in Pages : shape'[p] = shape[p] \/ Excused(p)'
  PROVE  CacheCurrent' /\ AskedCurrent'
<1>1. \A i \in DOMAIN asked : asked[i].page \in Pages
  BY AskedTyped DEF OverlayInv
<1>2. CacheCurrent'
  BY DEF OverlayInv, CacheCurrent, Overlay!Empty, Overlay!Pair
<1>3. AskedCurrent'
  BY <1>1 DEF OverlayInv, AskedCurrent
<1>4. QED
  BY <1>2, <1>3

-----------------------------------------------------------------------------
(* Pages are turned.                                                       *)
LEMMA ResolveHolds ==
  ASSUME OverlayInv, NEW p \in Pages, Overlay!Resolve(p) PROVE OverlayInv'
<1>1. /\ route' = p
      /\ Overlay!UpdateUnlessEdited(p, editing # Nothing)
      /\ reworks' = reworks \intersect {Nothing} /\ configured' = Nothing
      /\ reused' = reused \union ((reworks \union {configured}) \ {Nothing})
      /\ UNCHANGED <<shape, goal, editing, working, cache, asked, wait>>
  BY DEF Overlay!Resolve, Overlay!calculator, Overlay!Measure, Overlay!Unmeasured
<1>2. Underway' /\ dropped' \in {dropped, FALSE} /\ failed' \in {failed, FALSE}
  <2>1. Overlay!UpdateUnlessEdited(route', editing' # Nothing)
    BY <1>1
  <2>2. QED
    BY <2>1, UpdateComes
<1>3. OverlayTypes'
  BY <1>1, <1>2 DEF OverlayInv, OverlayTypes
<1>4. \A q \in Pages : Excused(q) => Excused(q)'
  BY <1>1, OverlayFacts DEF Excused
<1>5. CacheCurrent' /\ AskedCurrent'
  BY <1>1, <1>4, MovesExcused
<1>6. QED
  BY <1>2, <1>3, <1>5 DEF OverlayInv

LEMMA SwipeStartHolds ==
  ASSUME OverlayInv, NEW p \in Pages, Overlay!SwipeStart(p) PROVE OverlayInv'
<1>1. /\ goal' = p /\ wait' = Nothing /\ dropped' = TRUE
      /\ UNCHANGED <<shape, route, editing, reworks, configured, cache, asked, working, reused, failed>>
  BY DEF Overlay!SwipeStart, Overlay!changing, Overlay!Cancel
<1>2. OverlayTypes' /\ CacheCurrent' /\ AskedCurrent'
  BY <1>1 DEF OverlayInv, OverlayTypes, CacheCurrent, AskedCurrent, Excused
<1>3. Underway'
  BY <1>1, OverlayFacts DEF Underway
<1>4. QED
  BY <1>2, <1>3 DEF OverlayInv

LEMMA SwipeEndHolds == ASSUME OverlayInv, Overlay!SwipeEnd PROVE OverlayInv'
<1>1. /\ goal # Nothing /\ route' = goal /\ goal' = Nothing
      /\ Overlay!UpdateUnlessEdited(goal, editing # Nothing)
      /\ UNCHANGED <<shape, editing, reworks, configured, working, reused, cache, asked, wait>>
  BY DEF Overlay!SwipeEnd, Overlay!changing, Overlay!calculator
<1>2. Underway' /\ dropped' \in {dropped, FALSE} /\ failed' \in {failed, FALSE}
  <2>1. Overlay!UpdateUnlessEdited(route', editing' # Nothing)
    BY <1>1
  <2>2. QED
    BY <2>1, UpdateComes
<1>3. OverlayTypes'
  BY <1>1, <1>2 DEF OverlayInv, OverlayTypes
<1>4. CacheCurrent' /\ AskedCurrent'
  BY <1>1 DEF OverlayInv, CacheCurrent, AskedCurrent, Excused
<1>5. QED
  BY <1>2, <1>3, <1>4 DEF OverlayInv

-----------------------------------------------------------------------------
(* Pages change: whatever moves is measured again, or is being edited.     *)
LEMMA EditHolds == ASSUME OverlayInv, Overlay!Edit PROVE OverlayInv'
<1>1. /\ editing = Nothing /\ editing' = route
      /\ UNCHANGED <<shape, route, goal, reworks, configured, working, reused, failed, cache, asked, wait, dropped>>
  BY DEF Overlay!Edit, Overlay!changing, Overlay!calculator, Overlay!request
<1>2. OverlayTypes'
  BY <1>1 DEF OverlayInv, OverlayTypes
<1>3. \A p \in Pages : Excused(p) => Excused(p)'
  BY <1>1, OverlayFacts DEF Excused
<1>4. CacheCurrent' /\ AskedCurrent'
  <2>1. \A i \in DOMAIN asked : asked[i].page \in Pages
    BY AskedTyped DEF OverlayInv
  <2>2. CacheCurrent'
    BY <1>1, <1>3 DEF OverlayInv, CacheCurrent, Overlay!Empty, Overlay!Pair
  <2>3. AskedCurrent'
    BY <1>1, <1>3, <2>1 DEF OverlayInv, AskedCurrent
  <2>4. QED
    BY <2>2, <2>3
<1>5. Underway'
  BY <1>1, OverlayFacts DEF Underway, OverlayInv, OverlayTypes
<1>6. QED
  BY <1>2, <1>4, <1>5 DEF OverlayInv

LEMMA RearrangeHolds == ASSUME OverlayInv, Overlay!Rearrange PROVE OverlayInv'
<1>1. /\ editing # Nothing /\ shape' = [shape EXCEPT ![editing] = @ + 1]
      /\ UNCHANGED <<route, goal, editing, reworks, configured, working, reused, failed, cache, asked, wait, dropped>>
  BY DEF Overlay!Rearrange, Overlay!changing, Overlay!calculator, Overlay!request
<1>2. OverlayTypes'
  BY <1>1 DEF OverlayInv, OverlayTypes
<1>3. \A p \in Pages : /\ Excused(p) => Excused(p)'
                       /\ shape'[p] = shape[p] \/ Excused(p)'
  BY <1>1 DEF Excused, OverlayInv, OverlayTypes
<1>4. CacheCurrent' /\ AskedCurrent'
  BY <1>1, <1>3, MovesExcused
<1>5. Underway'
  BY <1>1 DEF Underway
<1>6. QED
  BY <1>2, <1>4, <1>5 DEF OverlayInv

LEMMA EditEndHolds == ASSUME OverlayInv, Overlay!EditEnd PROVE OverlayInv'
<1>1. /\ editing # Nothing /\ editing' = Nothing /\ configured' = Nothing
      /\ reworks' = (reworks \intersect {Nothing}) \union {route}
      /\ reused' = reused \union ((reworks \union {configured}) \ {Nothing, route}) \union ({editing} \ {route})
      /\ UNCHANGED <<shape, route, goal, working, failed, cache, asked, wait, dropped>>
  BY OverlayFacts DEF Overlay!EditEnd, Overlay!calculator, Overlay!request, Overlay!Measure,
                      Overlay!Unmeasured, OverlayInv, OverlayTypes
<1>2. OverlayTypes'
  BY <1>1 DEF OverlayInv, OverlayTypes
<1>3. \A p \in Pages : Excused(p) => Excused(p)'
  BY <1>1, OverlayFacts DEF Excused
<1>4. CacheCurrent' /\ AskedCurrent'
  BY <1>1, <1>3, MovesExcused
<1>5. Underway'
  BY <1>1 DEF Underway
<1>6. QED
  BY <1>2, <1>4, <1>5 DEF OverlayInv

LEMMA RelayoutHolds == ASSUME OverlayInv, Overlay!Relayout PROVE OverlayInv'
<1>1. /\ shape' = [shape EXCEPT ![route] = @ + 1]
      /\ reworks' = (reworks \intersect {Nothing}) \union {route} /\ configured' = Nothing
      /\ reused' = reused \union ((reworks \union {configured}) \ {Nothing, route})
      /\ UNCHANGED <<route, goal, editing, working, failed, cache, asked, wait, dropped>>
  BY OverlayFacts DEF Overlay!Relayout, Overlay!calculator, Overlay!request, Overlay!Measure,
                      Overlay!Unmeasured, OverlayInv, OverlayTypes
<1>2. OverlayTypes'
  BY <1>1 DEF OverlayInv, OverlayTypes
<1>3. \A p \in Pages : /\ Excused(p) => Excused(p)'
                       /\ shape'[p] = shape[p] \/ Excused(p)'
  BY <1>1, OverlayFacts DEF Excused, OverlayInv, OverlayTypes
<1>4. CacheCurrent' /\ AskedCurrent'
  BY <1>1, <1>3, MovesExcused
<1>5. Underway'
  BY <1>1 DEF Underway
<1>6. QED
  BY <1>2, <1>4, <1>5 DEF OverlayInv

LEMMA ConfigureHolds == ASSUME OverlayInv, Overlay!Configure PROVE OverlayInv'
<1>1. PICK qs \in SUBSET (Pages \ {route}) :
        /\ shape' = [p \in Pages |-> IF p = route \/ p \in qs THEN shape[p] + 1 ELSE shape[p]]
        /\ reused' = reused \union ((reworks \union {configured}) \ {Nothing, route}) \union qs
  BY DEF Overlay!Configure, Overlay!Unmeasured
<1>2. /\ reworks' = reworks \intersect {Nothing} /\ configured' = route
      /\ UNCHANGED <<route, goal, editing, working, failed, cache, asked, wait, dropped>>
  BY DEF Overlay!Configure, Overlay!calculator, Overlay!request
<1>3. OverlayTypes'
  <2>1. shape' \in [Pages -> Nat]
    BY <1>1 DEF OverlayInv, OverlayTypes
  <2>2. reused' \subseteq Pages
    BY <1>1 DEF OverlayInv, OverlayTypes
  <2>3. QED
    BY <1>2, <2>1, <2>2 DEF OverlayInv, OverlayTypes
<1>4. \A p \in Pages : /\ Excused(p) => Excused(p)'
                       /\ shape'[p] = shape[p] \/ Excused(p)'
  BY <1>1, <1>2, OverlayFacts DEF Excused
<1>5. CacheCurrent' /\ AskedCurrent'
  BY <1>2, <1>4, MovesExcused
<1>6. Underway'
  BY <1>2, OverlayFacts DEF Underway, OverlayInv, OverlayTypes
<1>7. QED
  BY <1>3, <1>5, <1>6 DEF OverlayInv

LEMMA ResizeHolds == ASSUME OverlayInv, Overlay!Resize PROVE OverlayInv'
<1>1. /\ shape' = [p \in Pages |-> shape[p] + 1] /\ reworks' = {Nothing} /\ configured' = Nothing
      /\ UNCHANGED <<route, goal, editing, working, reused, failed, cache, asked, wait, dropped>>
  BY DEF Overlay!Resize, Overlay!calculator, Overlay!request
<1>2. OverlayTypes'
  <2>1. shape' \in [Pages -> Nat]
    BY <1>1 DEF OverlayInv, OverlayTypes
  <2>2. reworks' \subseteq Pages \union {Nothing}
    BY <1>1 DEF OverlayInv, OverlayTypes
  <2>3. QED
    BY <1>1, <2>1, <2>2 DEF OverlayInv, OverlayTypes
<1>3. \A p \in Pages : Excused(p)'
  BY <1>1 DEF Excused
<1>4. CacheCurrent' /\ AskedCurrent'
  BY <1>1, <1>3, MovesExcused
<1>5. Underway'
  BY <1>1 DEF Underway
<1>6. QED
  BY <1>2, <1>4, <1>5 DEF OverlayInv

(* Measured again, a page has no old regions, except those under way.      *)
LEMMA InvalidateHolds ==
  ASSUME OverlayInv, NEW p \in Pages, Overlay!Invalidate(p),
         Overlay!UpdateUnlessEdited(route, editing # Nothing),
         reworks' \subseteq reworks, configured' \in {configured, Nothing}, reused' \subseteq Pages,
         Overlay!Live(p) => p \in reused',
         \A q \in Pages \ {p} : Excused(q) => Excused(q)',
         UNCHANGED <<shape, route, goal, editing, working>>
  PROVE  OverlayInv'
<1>1. /\ cache' = [cache EXCEPT ![p] = Overlay!Empty]
      /\ wait' = (IF wait = p THEN Nothing ELSE wait)
      /\ Overlay!Prefetch(p)
  BY DEF Overlay!Invalidate
<1>2. Underway' /\ dropped' \in {dropped, FALSE} /\ failed' \in {failed, FALSE}
  <2>1. Overlay!UpdateUnlessEdited(route', editing' # Nothing)
    BY <1>1
  <2>2. QED
    BY <2>1, UpdateComes
<1>3. /\ asked' \in Seq(Evaluations)
      /\ \A i \in DOMAIN asked : i \in DOMAIN asked' /\ asked'[i] = asked[i]
      /\ \A i \in DOMAIN asked' : i \in DOMAIN asked \/
           (asked'[i].page = p /\ asked'[i].version = shape[p])
  BY <1>1, PrefetchFacts DEF OverlayInv
<1>4. cache' \in [Pages -> [page : Pages \union {Nothing}, version : Nat]]
  <2>1. Overlay!Empty \in [page : Pages \union {Nothing}, version : Nat]
    BY DEF Overlay!Empty
  <2>2. QED
    BY <1>1, <2>1 DEF OverlayInv, OverlayTypes
<1>5. OverlayTypes'
  BY <1>1, <1>2, <1>3, <1>4 DEF OverlayInv, OverlayTypes
<1>6. CacheCurrent'
  <2>1. ASSUME NEW q \in Pages
        PROVE  cache'[q] = Overlay!Empty \/ cache'[q] = Overlay!Pair(q, shape[q]) \/ Excused(q)'
    <3>1. CASE q = p
      BY <1>1, <3>1 DEF OverlayInv, OverlayTypes
    <3>2. CASE q # p
      BY <1>1, <3>2 DEF OverlayInv, OverlayTypes, CacheCurrent
    <3>3. QED
      BY <3>1, <3>2
  <2>2. QED
    BY <1>1, <2>1 DEF CacheCurrent, Overlay!Empty, Overlay!Pair
<1>7. AskedCurrent'
  <2> SUFFICES ASSUME NEW i \in DOMAIN asked', asked'[i].live
               PROVE  \/ asked'[i].version = shape'[asked'[i].page]
                      \/ asked'[i].page \in reused' \/ asked'[i].page \in reworks'
                      \/ Nothing \in reworks' \/ asked'[i].page = configured'
                      \/ editing' = asked'[i].page
    BY DEF AskedCurrent, Excused
  <2>1. CASE i \in DOMAIN asked /\ asked[i].page = p
    <3>1. Overlay!Live(p)
      BY <1>3, <2>1 DEF Overlay!Live
    <3>2. p \in reused' /\ asked'[i].page = p
      BY <1>1, <1>3, <2>1, <3>1
    <3>3. QED
      BY <3>2 DEF Excused
  <2>2. CASE i \in DOMAIN asked /\ asked[i].page # p
    <3>1. asked[i].page \in Pages \ {p} /\ asked'[i] = asked[i]
      BY <1>3, <2>2, AskedTyped DEF OverlayInv
    <3>2. asked[i].version = shape[asked[i].page] \/ Excused(asked[i].page)
      BY <2>2, <3>1 DEF OverlayInv, AskedCurrent
    <3>3. CASE Excused(asked[i].page)
      BY <1>1, <3>1, <3>3, OverlayFacts DEF Excused
    <3>4. CASE asked[i].version = shape[asked[i].page]
      BY <1>1, <3>1, <3>4
    <3>5. QED
      BY <3>2, <3>3, <3>4
  <2>3. CASE i \notin DOMAIN asked
    BY <1>1, <1>3, <2>3
  <2>4. QED
    BY <2>1, <2>2, <2>3
<1>8. QED
  BY <1>2, <1>5, <1>6, <1>7 DEF OverlayInv

LEMMA ReworkOneHolds ==
  ASSUME OverlayInv, NEW p \in Pages, Overlay!Rework(p) PROVE OverlayInv'
<1>1. /\ reworks' = reworks \ {p} /\ Overlay!Invalidate(p)
      /\ reused' = (IF Overlay!Live(p) THEN reused \union {p} ELSE reused)
      /\ Overlay!UpdateUnlessEdited(route, editing # Nothing)
      /\ UNCHANGED <<shape, route, goal, editing, configured, working>>
  BY OverlayFacts DEF Overlay!Rework
<1>2. reused' \subseteq Pages
  BY <1>1 DEF OverlayInv, OverlayTypes
<1>3. \A q \in Pages \ {p} : Excused(q) => Excused(q)'
  BY <1>1, OverlayFacts DEF Excused
<1>4. QED
  BY <1>1, <1>2, <1>3, InvalidateHolds

LEMMA ConfiguredHolds == ASSUME OverlayInv, Overlay!Configured PROVE OverlayInv'
<1>1. /\ configured # Nothing /\ configured' = Nothing /\ Overlay!Invalidate(route)
      /\ reused' = reused \union ({configured} \ {route}) \union {p \in {route} : Overlay!Live(p)}
      /\ Overlay!UpdateUnlessEdited(route, editing # Nothing)
      /\ UNCHANGED <<shape, route, goal, editing, reworks, working>>
  BY DEF Overlay!Configured
<1>2. route \in Pages /\ configured \in Pages /\ reused \subseteq Pages
  BY <1>1 DEF OverlayInv, OverlayTypes
<1>3. reused' \subseteq Pages /\ (Overlay!Live(route) => route \in reused')
  BY <1>1, <1>2
<1>4. \A q \in Pages \ {route} : Excused(q) => Excused(q)'
  BY <1>1 DEF Excused
<1>5. QED
  BY <1>1, <1>2, <1>3, <1>4, InvalidateHolds

LEMMA ReworkAllHolds == ASSUME OverlayInv, Overlay!Rework(Nothing) PROVE OverlayInv'
<1>1. /\ reworks' = reworks \ {Nothing} /\ reused' = {}
      /\ cache' = [q \in Pages |-> Overlay!Empty]
      /\ wait' = Nothing
      /\ asked' = [i \in DOMAIN asked |-> [asked[i] EXCEPT !.live = FALSE]]
      /\ Overlay!UpdateUnlessEdited(route, editing # Nothing)
      /\ UNCHANGED <<shape, route, goal, editing, configured, working>>
  BY DEF Overlay!Rework, Overlay!InvalidateAll
<1>2. Underway' /\ dropped' \in {dropped, FALSE} /\ failed' \in {failed, FALSE}
  <2>1. Overlay!UpdateUnlessEdited(route', editing' # Nothing)
    BY <1>1
  <2>2. QED
    BY <2>1, UpdateComes
<1>3. \A i \in DOMAIN asked : asked[i] \in Evaluations
  BY AskedTyped DEF OverlayInv
<1>4. \A i \in DOMAIN asked' : asked'[i] \in Evaluations /\ asked'[i].live = FALSE
  <2>1. ASSUME NEW i \in DOMAIN asked'
        PROVE  asked'[i] \in Evaluations /\ asked'[i].live = FALSE
    <3>1. asked[i] \in [page : Pages, version : Nat, live : BOOLEAN, lost : BOOLEAN]
      BY <1>1, <1>3 DEF Evaluations
    <3>2. asked'[i] = [asked[i] EXCEPT !.live = FALSE]
      BY <1>1
    <3>3. QED
      BY <3>1, <3>2 DEF Evaluations
  <2>2. QED
    BY <2>1
<1>5. asked' \in Seq(Evaluations)
  <2>1. DOMAIN asked = 1 .. Len(asked) /\ Len(asked) \in Nat
    BY AskedTyped DEF OverlayInv
  <2>2. asked' \in [1 .. Len(asked) -> Evaluations]
    BY <1>1, <1>4, <2>1
  <2>3. QED
    BY <2>1, <2>2
<1>6. cache' \in [Pages -> [page : Pages \union {Nothing}, version : Nat]]
  BY <1>1 DEF Overlay!Empty
<1>7. OverlayTypes'
  BY <1>1, <1>2, <1>5, <1>6 DEF OverlayInv, OverlayTypes
<1>8. CacheCurrent'
  BY <1>1 DEF CacheCurrent, Overlay!Empty
<1>9. AskedCurrent'
  BY <1>4 DEF AskedCurrent
<1>10. QED
  BY <1>2, <1>7, <1>8, <1>9 DEF OverlayInv

-----------------------------------------------------------------------------
LEMMA OverlayNextHolds == ASSUME OverlayInv, Overlay!Next PROVE OverlayInv'
<1>1. CASE Overlay!Selects
  BY <1>1, SelectsHolds
<1>2. CASE Overlay!Draws
  BY <1>2, DrawsHolds
<1>3. CASE Overlay!Answer
  BY <1>3, AnswerHolds
<1>4. CASE Overlay!Fail
  BY <1>4, FailHolds
<1>5. CASE Overlay!Expire
  BY <1>5, ExpireHolds
<1>6. CASE Overlay!Reload
  BY <1>6, ReloadHolds
<1>7. CASE \E p \in Pages : Overlay!Resolve(p) \/ Overlay!SwipeStart(p)
  BY <1>7, ResolveHolds, SwipeStartHolds
<1>8. CASE Overlay!SwipeEnd
  BY <1>8, SwipeEndHolds
<1>9. CASE Overlay!Edit \/ Overlay!Rearrange \/ Overlay!EditEnd
  BY <1>9, EditHolds, RearrangeHolds, EditEndHolds
<1>10. CASE Overlay!Relayout \/ Overlay!Configure \/ Overlay!Configured \/ Overlay!Resize
  BY <1>10, RelayoutHolds, ConfigureHolds, ConfiguredHolds, ResizeHolds
<1>11. CASE \E p \in Pages \union {Nothing} : Overlay!Rework(p)
  BY <1>11, ReworkOneHolds, ReworkAllHolds
<1>12. QED
  BY <1>1, <1>2, <1>3, <1>4, <1>5, <1>6, <1>7, <1>8, <1>9, <1>10, <1>11 DEF Overlay!Next

LEMMA OverlayStutters == OverlayInv /\ UNCHANGED Overlay!ovVars => OverlayInv'
<1> SUFFICES ASSUME OverlayInv, UNCHANGED Overlay!ovVars PROVE OverlayInv'
  OBVIOUS
<1>1. UNCHANGED <<shape, route, goal, editing, reworks, configured, cache, asked, working, wait, pair, tasks,
                  dropped, shown, reused, failed>>
  BY DEF Overlay!ovVars
<1>2. OverlayTypes' /\ CacheCurrent' /\ AskedCurrent'
  BY <1>1 DEF OverlayInv, OverlayTypes, CacheCurrent, AskedCurrent, Excused
<1>3. Coming => Coming'
  BY <1>1 DEF Coming, Overlay!Live, Overlay!Select, Overlay!Draw, Overlay!Pair
<1>4. QED
  BY <1>1, <1>2, <1>3 DEF OverlayInv, Underway

(* Once nothing is left to be answered, drawn or measured, what was asked  *)
(* for last is shown.                                                      *)
LEMMA QuietIsShown == OverlayInv => ShownIsCurrent
<1> SUFFICES ASSUME OverlayInv, Overlay!Quiet, route \notin reused, ~failed
             PROVE  shown = Overlay!Pair(route, shape[route])
  BY DEF ShownIsCurrent, Overlay!ShownIsCurrent
<1>1. Coming
  BY DEF OverlayInv, Underway, Overlay!Quiet
<1>2. tasks = {} /\ ~Overlay!Live(route)
  BY DEF Overlay!Quiet, Overlay!Live
<1>3. QED
  BY <1>1, <1>2 DEF Coming

(* ShownIsCurrent, for any number of pages, of evaluations under way and   *)
(* of pages turned, edited and resized while they are.                     *)
THEOREM QuietOverlayIsCurrent == Overlay!Spec => []ShownIsCurrent
<1>1. Overlay!Init => OverlayInv
  BY OverlayInitHolds
<1>2. OverlayInv /\ [Overlay!Next]_(Overlay!ovVars) => OverlayInv'
  BY OverlayNextHolds, OverlayStutters
<1>3. OverlayInv => ShownIsCurrent
  BY QuietIsShown
<1>4. QED
  BY <1>1, <1>2, <1>3, PTL DEF Overlay!Spec

-----------------------------------------------------------------------------
(* The widgets. One is kept by its page, and it is the last one made.      *)
Current(n) == active /\ n = made

Whats == {"sleep", "wake", "shut", "open", "free"}
WidgetSet ==
  [stage : {"none", "pending", "failed", "built", "freed"}, queue : Seq(Whats),
   frame : BOOLEAN, draws : BOOLEAN, counted : Int, refreshing : BOOLEAN,
   before : {"unset", "moving", "still"}, sets : Nat, own : BOOLEAN, resize : BOOLEAN]
FlushSet == {"build", "open"} \X Widgets!Ids

(* What waits for a widget to be built: for the one of the page, at last   *)
(* what the page does now; for another, its end.                           *)
LastNap(queue, what) ==
  \E m \in DOMAIN queue :
    queue[m] = what /\ \A j \in DOMAIN queue : j > m => queue[j] \notin {"sleep", "wake"}

Queued(n) ==
  /\ Current(n) => /\ \A j \in DOMAIN widget[n].queue : widget[n].queue[j] # "free"
                   /\ LastNap(widget[n].queue, IF asleep THEN "sleep" ELSE "wake")
  /\ ~Current(n) => /\ \E j \in DOMAIN widget[n].queue : widget[n].queue[j] = "free"
                    /\ "free" \in hasty[n]
  /\ "lock" \notin hasty[n] =>
       \A j \in DOMAIN widget[n].queue : widget[n].queue[j] \notin {"shut", "open"}

Fresh(w) ==
  /\ w.frame = FALSE /\ w.draws = FALSE /\ w.counted = 0
  /\ w.refreshing = FALSE /\ w.before = "unset"
  /\ w.sets = 0 /\ w.own = FALSE /\ w.resize = FALSE

(* A frame that is set is counted, and so is one that a refresh will set.  *)
Counts(w) ==
  /\ w.draws => w.frame
  /\ w.counted >= (IF w.frame THEN 1 ELSE 0) + (IF w.before = "moving" THEN 1 ELSE 0)
  /\ w.own => w.sets >= 1

(* A widget that is built moves as its page does, or a refresh will have   *)
(* it move that way.                                                       *)
Naps(n) ==
  /\ widget[n].draws <=> widget[n].frame
  /\ widget[n].refreshing <=> widget[n].before # "unset"
  /\ "nap" \notin hasty[n] =>
       /\ widget[n].refreshing => (widget[n].before = "moving" <=> ~asleep)
       /\ ~widget[n].refreshing => (widget[n].frame <=> ~asleep)

(* It takes events as its control does, or a flush will have it take them. *)
Opening(n) == \E i \in DOMAIN flushes : flushes[i][2] = n

Hears(n) ==
  "lock" \notin hasty[n] =>
    /\ Opening(n) => ~shut /\ widget[n].sets = 0 /\ ~widget[n].own
    /\ ~Opening(n) => /\ widget[n].own <=> ~shut
                      /\ widget[n].sets = IF shut THEN 0 ELSE 1

Rests(n) ==
  /\ ~widget[n].draws /\ ~widget[n].resize /\ widget[n].sets = 0
  /\ ~widget[n].refreshing /\ ~Opening(n)

Stage(n) ==
  /\ n > made => widget[n] = Widgets!Raw
  /\ n <= made => widget[n].stage # "none"
  /\ widget[n].stage = "built" => Current(n)
  /\ Current(n) => widget[n].stage \in {"pending", "built"}

Follows(n) ==
  /\ Stage(n)
  /\ Counts(widget[n])
  /\ widget[n].stage = "pending" => Fresh(widget[n]) /\ Queued(n)
  /\ widget[n].stage = "built" => Naps(n) /\ Hears(n)
  /\ widget[n].stage = "freed" /\ hasty[n] \intersect {"free", "lock"} = {} => Rests(n)

(* A flush builds a widget that is pending, or opens one that is not, and  *)
(* there is one for it where nothing was hasty.                            *)
FlushesAgree ==
  /\ \A i \in DOMAIN flushes :
       /\ flushes[i][1] = "build" => widget[flushes[i][2]].stage = "pending"
       /\ flushes[i][1] = "open" => widget[flushes[i][2]].stage \in {"built", "freed"}
  /\ \A i, j \in DOMAIN flushes :
       /\ flushes[i][2] = flushes[j][2]
       /\ flushes[i][1] = "build" \/ "lock" \notin hasty[flushes[i][2]]
       => i = j

WidgetTypes ==
  /\ active \in BOOLEAN /\ asleep \in BOOLEAN /\ shut \in BOOLEAN
  /\ made \in 0 .. MaxWidgets /\ moves \in 0 .. MaxMoves
  /\ widget \in [Widgets!Ids -> WidgetSet]
  /\ flushes \in Seq(FlushSet)
  /\ hasty \in [Widgets!Ids -> SUBSET {"lock", "nap", "free"}]

WidgetsInv ==
  /\ WidgetTypes
  /\ active => made >= 1
  /\ \A n \in Widgets!Ids : Follows(n)
  /\ FlushesAgree

-----------------------------------------------------------------------------
LEMMA IdFacts ==
  /\ MaxWidgets \in Nat /\ MaxMoves \in Nat
  /\ \A n \in Widgets!Ids : n \in Nat /\ n >= 1
BY CanvasAssumption DEF Widgets!WidgetsAssumption, Widgets!Ids

LEMMA RawFacts == Widgets!Raw \in WidgetSet /\ Fresh(Widgets!Raw) /\ Counts(Widgets!Raw)
                  /\ Widgets!Raw.stage = "none" /\ Widgets!Raw.queue = <<>>
BY DEF Widgets!Raw, WidgetSet, Fresh, Counts

(* Sequences that are joined.                                              *)
LEMMA JoinFacts ==
  ASSUME NEW F, NEW s \in Seq(F), NEW t \in Seq(F)
  PROVE  /\ s \o t \in Seq(F) /\ Len(s) \in Nat /\ Len(s \o t) = Len(s) + Len(t)
         /\ DOMAIN s = 1 .. Len(s) /\ DOMAIN t = 1 .. Len(t) /\ DOMAIN (s \o t) = 1 .. Len(s \o t)
         /\ \A i \in DOMAIN s : i \in DOMAIN (s \o t) /\ (s \o t)[i] = s[i]
         /\ \A i \in DOMAIN (s \o t) :
              \/ i \in DOMAIN s /\ (s \o t)[i] = s[i]
              \/ i > Len(s) /\ i - Len(s) \in DOMAIN t /\ (s \o t)[i] = t[i - Len(s)]
OBVIOUS

LEMMA WidgetsInitHolds == Widgets!Init => WidgetsInv
<1> SUFFICES ASSUME Widgets!Init PROVE WidgetsInv
  OBVIOUS
<1>1. /\ active = FALSE /\ asleep = FALSE /\ shut \in BOOLEAN /\ made = 0 /\ moves = 0
      /\ widget = [n \in Widgets!Ids |-> Widgets!Raw] /\ flushes = <<>>
      /\ hasty = [n \in Widgets!Ids |-> {}]
  BY DEF Widgets!Init
<1>2. WidgetTypes
  <2>1. active \in BOOLEAN /\ asleep \in BOOLEAN /\ shut \in BOOLEAN
    BY <1>1, Zenon
  <2>2. widget \in [Widgets!Ids -> WidgetSet] /\ hasty \in [Widgets!Ids -> SUBSET {"lock", "nap", "free"}]
    BY <1>1, RawFacts
  <2>3. QED
    BY <1>1, <2>1, <2>2, IdFacts DEF WidgetTypes
<1>3. ASSUME NEW n \in Widgets!Ids
      PROVE  Follows(n)
  <2>1. widget[n] = Widgets!Raw /\ n > made
    BY <1>1, IdFacts
  <2>2. QED
    BY <1>1, <2>1, IdFacts, RawFacts DEF Follows, Stage, Current
<1>4. QED
  BY <1>1, <1>2, <1>3 DEF WidgetsInv, FlushesAgree

-----------------------------------------------------------------------------
(* The methods of a widget, field by field.                                *)
LEMMA InitEventsFacts ==
  ASSUME NEW w \in WidgetSet, NEW r, r = Widgets!InitEvents(w)
  PROVE  /\ r \in WidgetSet
         /\ r.sets = w.sets + 1 /\ r.own = TRUE /\ r.resize = TRUE
         /\ r.stage = w.stage /\ r.queue = w.queue /\ r.frame = w.frame /\ r.draws = w.draws
         /\ r.counted = w.counted /\ r.refreshing = w.refreshing /\ r.before = w.before
<1> DEFINE more == w.sets + 1
<1>1. more \in Nat
  BY DEF WidgetSet
<1>2. r = [w EXCEPT !.sets = more, !.own = TRUE, !.resize = TRUE]
  BY DEF Widgets!InitEvents
<1> HIDE DEF more
<1>3. /\ r \in WidgetSet
      /\ r.sets = more /\ r.own = TRUE /\ r.resize = TRUE
      /\ r.stage = w.stage /\ r.queue = w.queue /\ r.frame = w.frame /\ r.draws = w.draws
      /\ r.counted = w.counted /\ r.refreshing = w.refreshing /\ r.before = w.before
  BY <1>1, <1>2 DEF WidgetSet
<1>4. QED
  BY <1>3 DEF more

LEMMA FreeEventsFacts ==
  ASSUME NEW w \in WidgetSet, Counts(w), NEW keepResize \in BOOLEAN,
         NEW r, r = Widgets!FreeEvents(w, keepResize)
  PROVE  /\ r \in WidgetSet
         /\ r.sets = (IF w.own THEN w.sets - 1 ELSE w.sets) /\ r.own = FALSE
         /\ keepResize => r.resize = w.resize
         /\ ~keepResize => r.resize = FALSE
         /\ r.stage = w.stage /\ r.queue = w.queue /\ r.frame = w.frame /\ r.draws = w.draws
         /\ r.counted = w.counted /\ r.refreshing = w.refreshing /\ r.before = w.before
<1> DEFINE fewer == IF w.own THEN w.sets - 1 ELSE w.sets
           kept_ == w.resize /\ keepResize
<1>1. r = [w EXCEPT !.sets = fewer, !.own = FALSE, !.resize = kept_]
  BY DEF Widgets!FreeEvents
<1>2. fewer \in Nat
  BY DEF WidgetSet, Counts
<1>3. w.resize \in BOOLEAN
  BY DEF WidgetSet
<1>4. kept_ \in BOOLEAN /\ (keepResize => kept_ = w.resize) /\ (~keepResize => kept_ = FALSE)
  BY <1>3, Zenon
<1> HIDE DEF fewer, kept_
<1>5. /\ r \in WidgetSet /\ r.sets = fewer /\ r.own = FALSE /\ r.resize = kept_
      /\ r.stage = w.stage /\ r.queue = w.queue /\ r.frame = w.frame /\ r.draws = w.draws
      /\ r.counted = w.counted /\ r.refreshing = w.refreshing /\ r.before = w.before
  BY <1>1, <1>2, <1>4 DEF WidgetSet
<1>6. QED
  BY <1>4, <1>5 DEF fewer

Does(w, what, r) ==
  /\ r \in WidgetSet /\ Counts(r)
  /\ r.queue = w.queue /\ r.refreshing = w.refreshing /\ r.before = w.before
  /\ r.stage = (IF what = "free" THEN "freed" ELSE w.stage)
  /\ what = "sleep" => r.frame = FALSE
  /\ what = "wake" => r.frame = TRUE
  /\ what \notin {"sleep", "wake"} => r.frame = w.frame
  /\ what # "free" /\ (w.draws <=> w.frame) => (r.draws <=> r.frame)
  /\ what \notin {"shut", "free"} => r.own = w.own /\ r.sets = w.sets
  /\ what \in {"shut", "free"} =>
       r.own = FALSE /\ r.sets = (IF w.own THEN w.sets - 1 ELSE w.sets)
  /\ what = "free" => r.draws = FALSE /\ r.resize = FALSE

LEMMA ThenFacts ==
  ASSUME NEW w \in WidgetSet, Counts(w), NEW what \in Whats
  PROVE  Does(w, what, Widgets!ThenOn(w, what))
<1> SUFFICES ASSUME NEW r, r = Widgets!ThenOn(w, what) PROVE Does(w, what, r)
  OBVIOUS
<1>1. CASE what = "sleep"
  <2>1. r = Widgets!WidgetSuspend(w)
    BY <1>1 DEF Widgets!ThenOn
  <2>2. CASE w.frame
    <3>1. r = [Widgets!Animate(w, FALSE) EXCEPT !.counted = Widgets!Animate(w, FALSE).counted - 1]
      BY <2>1, <2>2 DEF Widgets!WidgetSuspend
    <3>2. Widgets!Animate(w, FALSE).counted = w.counted /\ w.counted - 1 \in Int
      BY DEF Widgets!Animate, WidgetSet
    <3>3. r = [Widgets!Animate(w, FALSE) EXCEPT !.counted = w.counted - 1]
      BY <3>1, <3>2
    <3> DEFINE count == w.counted - 1
    <3>4. count \in Int /\ FALSE \in BOOLEAN /\ r = [Widgets!Animate(w, FALSE) EXCEPT !.counted = count]
      BY <3>2, <3>3
    <3> HIDE DEF count
    <3>5. /\ r \in WidgetSet /\ r.frame = FALSE /\ r.draws = FALSE /\ r.counted = count
          /\ r.stage = w.stage /\ r.queue = w.queue /\ r.sets = w.sets /\ r.own = w.own
          /\ r.refreshing = w.refreshing /\ r.before = w.before /\ r.resize = w.resize
      BY <3>4 DEF Widgets!Animate, WidgetSet
    <3>6. Counts(r)
      BY <2>2, <3>2, <3>5 DEF Counts, WidgetSet, count
    <3>7. QED
      BY <1>1, <3>5, <3>6 DEF Does
  <2>3. CASE ~w.frame
    <3>1. r = w /\ w.frame = FALSE
      BY <2>1, <2>3 DEF Widgets!WidgetSuspend, WidgetSet
    <3>2. QED
      BY <1>1, <3>1 DEF Does
  <2>4. QED
    BY <2>2, <2>3
<1>2. CASE what = "wake"
  <2>1. r = Widgets!WidgetAnimate(w)
    BY <1>2 DEF Widgets!ThenOn
  <2>2. CASE ~w.frame
    <3>1. r = [Widgets!Animate(w, TRUE) EXCEPT !.counted = Widgets!Animate(w, TRUE).counted + 1]
      BY <2>1, <2>2 DEF Widgets!WidgetAnimate
    <3>2. Widgets!Animate(w, TRUE).counted = w.counted /\ w.counted + 1 \in Int
      BY DEF Widgets!Animate, WidgetSet
    <3>3. r = [Widgets!Animate(w, TRUE) EXCEPT !.counted = w.counted + 1]
      BY <3>1, <3>2
    <3> DEFINE count == w.counted + 1
    <3>4. count \in Int /\ TRUE \in BOOLEAN /\ r = [Widgets!Animate(w, TRUE) EXCEPT !.counted = count]
      BY <3>2, <3>3
    <3> HIDE DEF count
    <3>5. /\ r \in WidgetSet /\ r.frame = TRUE /\ r.draws = TRUE /\ r.counted = count
          /\ r.stage = w.stage /\ r.queue = w.queue /\ r.sets = w.sets /\ r.own = w.own
          /\ r.refreshing = w.refreshing /\ r.before = w.before /\ r.resize = w.resize
      BY <3>4 DEF Widgets!Animate, WidgetSet
    <3>6. Counts(r)
      BY <2>2, <3>2, <3>5 DEF Counts, WidgetSet, count
    <3>7. QED
      BY <1>2, <3>5, <3>6 DEF Does
  <2>3. CASE w.frame
    <3>1. r = w /\ w.frame = TRUE
      BY <2>1, <2>3 DEF Widgets!WidgetAnimate, WidgetSet
    <3>2. QED
      BY <1>2, <3>1 DEF Does
  <2>4. QED
    BY <2>2, <2>3
<1>3. CASE what = "shut"
  <2>1. r = Widgets!FreeEvents(w, TRUE)
    BY <1>3 DEF Widgets!ThenOn
  <2>2. /\ r \in WidgetSet
        /\ r.sets = (IF w.own THEN w.sets - 1 ELSE w.sets) /\ r.own = FALSE
        /\ r.stage = w.stage /\ r.queue = w.queue /\ r.frame = w.frame /\ r.draws = w.draws
        /\ r.counted = w.counted /\ r.refreshing = w.refreshing /\ r.before = w.before
    BY <2>1, FreeEventsFacts
  <2>3. Counts(r)
    BY <2>2 DEF Counts
  <2>4. QED
    BY <1>3, <2>2, <2>3 DEF Does
<1>4. CASE what = "open"
  <2>1. r = w
    BY <1>4 DEF Widgets!ThenOn
  <2>2. QED
    BY <1>4, <2>1 DEF Does
<1>5. CASE what = "free"
  <2> DEFINE e == Widgets!FreeEvents(w, FALSE)
  <2>1. r = [e EXCEPT !.stage = "freed", !.draws = FALSE]
    BY <1>5 DEF Widgets!ThenOn, Widgets!Free
  <2> HIDE DEF e
  <2>2. /\ e \in WidgetSet
        /\ e.sets = (IF w.own THEN w.sets - 1 ELSE w.sets) /\ e.own = FALSE /\ e.resize = FALSE
        /\ e.queue = w.queue /\ e.frame = w.frame
        /\ e.counted = w.counted /\ e.refreshing = w.refreshing /\ e.before = w.before
    BY FreeEventsFacts DEF e
  <2>3. /\ r \in WidgetSet /\ r.stage = "freed" /\ r.draws = FALSE
        /\ r.sets = e.sets /\ r.own = e.own /\ r.resize = e.resize
        /\ r.queue = e.queue /\ r.frame = e.frame
        /\ r.counted = e.counted /\ r.refreshing = e.refreshing /\ r.before = e.before
    BY <2>1, <2>2 DEF WidgetSet
  <2>4. Counts(r)
    BY <2>2, <2>3 DEF Counts
  <2>5. QED
    BY <1>5, <2>2, <2>3, <2>4 DEF Does
<1>6. QED
  BY <1>1, <1>2, <1>3, <1>4, <1>5 DEF Whats

-----------------------------------------------------------------------------
(* What was queued runs in order, for a queue of any length. The function  *)
(* that Ran defines exists for every number of turns, and what holds after *)
(* a number of turns holds after one more.                                 *)
After(queue, k, w, r) ==
  /\ r \in WidgetSet /\ Counts(r)
  /\ r.queue = w.queue /\ r.refreshing = w.refreshing /\ r.before = w.before
  /\ r.stage \in {"built", "freed"}
  /\ (\E j \in 1 .. k : queue[j] = "free") => r.stage = "freed"
  /\ (\A j \in 1 .. k : queue[j] # "free") => r.stage = "built" /\ (r.draws <=> r.frame)
  /\ \A m \in 1 .. k :
       queue[m] \in {"sleep", "wake"} /\ (\A j \in m + 1 .. k : queue[j] \notin {"sleep", "wake"})
       => (r.frame <=> queue[m] = "wake")
  /\ (\A j \in 1 .. k : queue[j] \notin {"shut", "open", "free"}) => r.own = w.own /\ r.sets = w.sets

LEMMA OneMoreTurn ==
  ASSUME NEW queue \in Seq(Whats), NEW k \in 1 .. Len(queue), NEW w \in WidgetSet, NEW r,
         After(queue, k - 1, w, r)
  PROVE  After(queue, k, w, Widgets!ThenOn(r, queue[k]))
<1> DEFINE what == queue[k]
           s == Widgets!ThenOn(r, what)
<1>1. what \in Whats /\ k \in Nat /\ k >= 1 /\ k - 1 \in Nat
  OBVIOUS
<1>2. r \in WidgetSet /\ Counts(r)
  BY DEF After
<1>0. s = Widgets!ThenOn(r, what)
  OBVIOUS
<1> HIDE DEF s
<1>3. Does(r, what, s)
  BY <1>0, <1>1, <1>2, ThenFacts
<1>4. \A j : j \in 1 .. k <=> j \in 1 .. k - 1 \/ j = k
  BY <1>1
<1>5. /\ s.queue = w.queue /\ s.refreshing = w.refreshing /\ s.before = w.before
      /\ s.stage \in {"built", "freed"}
  BY <1>3 DEF After, Does
<1>6. (\E j \in 1 .. k : queue[j] = "free") => s.stage = "freed"
  BY <1>3, <1>4 DEF After, Does
<1>7. (\A j \in 1 .. k : queue[j] # "free") => s.stage = "built" /\ (s.draws <=> s.frame)
  <2> SUFFICES ASSUME \A j \in 1 .. k : queue[j] # "free"
               PROVE  s.stage = "built" /\ (s.draws <=> s.frame)
    OBVIOUS
  <2>1. what # "free" /\ \A j \in 1 .. k - 1 : queue[j] # "free"
    BY <1>4
  <2>2. r.stage = "built" /\ (r.draws <=> r.frame)
    BY <2>1 DEF After
  <2>3. QED
    BY <1>3, <2>1, <2>2 DEF Does
<1>8. ASSUME NEW m \in 1 .. k, queue[m] \in {"sleep", "wake"},
             \A j \in m + 1 .. k : queue[j] \notin {"sleep", "wake"}
      PROVE  s.frame <=> queue[m] = "wake"
  <2>1. CASE m = k
    BY <1>3, <1>8, <2>1 DEF Does
  <2>2. CASE m # k
    <3>1. m \in 1 .. k - 1 /\ k \in m + 1 .. k /\ m + 1 .. k - 1 \subseteq m + 1 .. k
      BY <1>1, <2>2
    <3>2. s.frame = r.frame
      BY <1>3, <1>8, <3>1 DEF Does
    <3>3. r.frame <=> queue[m] = "wake"
      BY <1>8, <3>1 DEF After
    <3>4. QED
      BY <3>2, <3>3
  <2>3. QED
    BY <2>1, <2>2
<1>9. (\A j \in 1 .. k : queue[j] \notin {"shut", "open", "free"}) => s.own = w.own /\ s.sets = w.sets
  BY <1>3, <1>4 DEF After, Does
<1>10. After(queue, k, w, s)
  BY <1>3, <1>5, <1>6, <1>7, <1>8, <1>9 DEF After, Does
<1>11. QED
  BY <1>10 DEF s

LEMMA RanHolds ==
  ASSUME NEW queue \in Seq(Whats), NEW w \in WidgetSet, Counts(w), w.stage = "built",
         w.draws <=> w.frame
  PROVE  After(queue, Len(queue), w, Widgets!Ran(w, queue))
<1> DEFINE n == Len(queue)
           Turn(k, r) == Widgets!ThenOn(r, queue[k])
           IsLoop(f, k) == f = [j \in 0 .. k |-> IF j = 0 THEN w ELSE Turn(j, f[j - 1])]
<1>1. n \in Nat
  OBVIOUS
<1>2. \A r : \A k \in 1 .. n : After(queue, k - 1, w, r) => After(queue, k, w, Turn(k, r))
  BY OneMoreTurn
<1> HIDE DEF Turn
<1>3. \A k \in Nat : \E f : IsLoop(f, k)
  <2> DEFINE T == {k \in Nat : ~\E f : IsLoop(f, k)}
  <2> SUFFICES T = {}
    OBVIOUS
  <2> HIDE DEF T
  <2>1. T \subseteq Nat
    BY DEF T
  <2>2. ASSUME NEW k \in T, \A j \in T : k <= j
        PROVE  FALSE
    <3>1. CASE k = 0
      <4>1. IsLoop([j \in 0 .. 0 |-> w], 0)
        OBVIOUS
      <4>2. QED
        BY <3>1, <4>1 DEF T
    <3>2. CASE k # 0
      <4>1. k - 1 \in Nat /\ k - 1 \notin T
        BY <2>1, <2>2, <3>2
      <4>2. PICK f : IsLoop(f, k - 1)
        BY <4>1 DEF T
      <4>3. \A j \in 0 .. k - 1 : f[j] = IF j = 0 THEN w ELSE Turn(j, f[j - 1])
        BY <4>2
      <4> DEFINE g == [j \in 0 .. k |-> IF j = k THEN Turn(k, f[k - 1]) ELSE f[j]]
      <4>4. \A j \in 0 .. k : g[j] = IF j = 0 THEN w ELSE Turn(j, g[j - 1])
        BY <2>1, <3>2, <4>1, <4>3
      <4>5. g = [j \in 0 .. k |-> g[j]]
        OBVIOUS
      <4> HIDE DEF g
      <4>6. IsLoop(g, k)
        BY <4>4, <4>5
      <4>7. QED
        BY <4>6 DEF T
    <3>3. QED
      BY <3>1, <3>2
  <2>3. QED
    BY <2>1, <2>2, LeastOfNats
<1> DEFINE Loop == CHOOSE f : IsLoop(f, n)
<1>4. IsLoop(Loop, n)
  BY <1>1, <1>3
<1>5. Widgets!Ran(w, queue) = Loop[n]
  BY DEF Widgets!Ran, Turn
<1> HIDE DEF Loop
<1>6. Loop[0] = w /\ \A j \in 1 .. n : Loop[j] = Turn(j, Loop[j - 1])
  BY <1>1, <1>4
<1>7. \A j \in 0 .. n : After(queue, j, w, Loop[j])
  <2> DEFINE T == {j \in 0 .. n : ~After(queue, j, w, Loop[j])}
  <2> SUFFICES T = {}
    OBVIOUS
  <2>1. ASSUME NEW k \in T, \A j \in T : k <= j
        PROVE  FALSE
    <3>1. CASE k = 0
      BY <1>6, <3>1 DEF After
    <3>2. CASE k # 0
      <4>1. k - 1 \in 0 .. n /\ k - 1 \notin T /\ k \in 1 .. n
        BY <1>1, <2>1, <3>2
      <4>2. QED
        BY <1>2, <1>6, <4>1
    <3>3. QED
      BY <3>1, <3>2
  <2> HIDE DEF T
  <2>2. T \subseteq Nat
    BY <1>1 DEF T
  <2>3. QED
    BY <2>1, <2>2, LeastOfNats
<1>8. QED
  BY <1>1, <1>5, <1>7

-----------------------------------------------------------------------------
(* What a step leaves alone. A widget that its page does not have changes  *)
(* by its own flushes and refreshes only.                                  *)
LEMMA OtherFollows ==
  ASSUME NEW n \in Widgets!Ids, Follows(n), ~Current(n), ~Current(n)',
         widget'[n] = widget[n], hasty'[n] = hasty[n], Opening(n)' => Opening(n),
         n > made' <=> n > made, n <= made' <=> n <= made
  PROVE  Follows(n)'
<1>1. Stage(n)'
  BY DEF Follows, Stage
<1>2. widget[n].stage = "pending" => Fresh(widget'[n]) /\ Queued(n)'
  BY DEF Follows, Queued, Fresh
<1>3. widget[n].stage # "built"
  BY DEF Follows, Stage
<1>4. Rests(n) => Rests(n)'
  BY DEF Rests
<1>5. Counts(widget[n]) => Counts(widget'[n])
  BY DEF Counts
<1>6. QED
  BY <1>1, <1>2, <1>3, <1>4, <1>5 DEF Follows, Fresh, Counts

LEMMA FlushFacts ==
  ASSUME WidgetTypes
  PROVE  /\ Len(flushes) \in Nat /\ DOMAIN flushes = 1 .. Len(flushes)
         /\ \A i \in DOMAIN flushes : /\ flushes[i] \in FlushSet
              /\ flushes[i][1] \in {"build", "open"} /\ flushes[i][2] \in Widgets!Ids
<1>1. flushes \in Seq(FlushSet)
  BY DEF WidgetTypes
<1>2. Len(flushes) \in Nat /\ DOMAIN flushes = 1 .. Len(flushes)
  BY <1>1
<1>3. \A i \in DOMAIN flushes : flushes[i] \in FlushSet
  BY <1>1, <1>2
<1>4. QED
  BY <1>2, <1>3 DEF FlushSet

LEMMA FlushesStay ==
  ASSUME WidgetTypes, FlushesAgree, flushes' = flushes,
         \A n \in Widgets!Ids :
           /\ widget[n].stage = "pending" => widget'[n].stage = "pending"
           /\ widget[n].stage \in {"built", "freed"} => widget'[n].stage \in {"built", "freed"}
           /\ hasty[n] \subseteq hasty'[n]
  PROVE  FlushesAgree'
<1>1. \A i \in DOMAIN flushes : flushes[i][2] \in Widgets!Ids
  BY FlushFacts
<1>2. QED
  BY <1>1 DEF FlushesAgree

LEMMA FlushesGrow ==
  ASSUME WidgetTypes, FlushesAgree, NEW n \in Widgets!Ids, NEW what \in {"build", "open"},
         flushes' = Append(flushes, <<what, n>>),
         \A q \in Widgets!Ids :
           /\ widget[q].stage = "pending" => widget'[q].stage = "pending"
           /\ widget[q].stage \in {"built", "freed"} => widget'[q].stage \in {"built", "freed"}
           /\ hasty[q] \subseteq hasty'[q],
         what = "build" => widget'[n].stage = "pending",
         what = "open" => widget'[n].stage \in {"built", "freed"},
         (what = "build" \/ "lock" \notin hasty'[n]) => ~Opening(n)
  PROVE  /\ FlushesAgree' /\ flushes' \in Seq(FlushSet)
         /\ Opening(n)'
         /\ \A q \in Widgets!Ids \ {n} : Opening(q)' => Opening(q)
<1> DEFINE k == Len(flushes) + 1
<1>1. /\ Len(flushes) \in Nat /\ DOMAIN flushes = 1 .. Len(flushes)
      /\ \A i \in DOMAIN flushes : /\ flushes[i] \in FlushSet
           /\ flushes[i][1] \in {"build", "open"} /\ flushes[i][2] \in Widgets!Ids
  BY FlushFacts
<1>2. flushes \in Seq(FlushSet) /\ <<what, n>> \in FlushSet
  BY DEF WidgetTypes, FlushSet
<1>3. /\ flushes' \in Seq(FlushSet) /\ DOMAIN flushes' = 1 .. k
      /\ \A i \in DOMAIN flushes : i \in DOMAIN flushes' /\ i # k /\ flushes'[i] = flushes[i]
      /\ k \in DOMAIN flushes' /\ flushes'[k] = <<what, n>>
      /\ \A i \in DOMAIN flushes' : i \in DOMAIN flushes \/ i = k
  BY <1>1, <1>2
<1>4. flushes'[k][1] = what /\ flushes'[k][2] = n
  BY <1>3
<1> HIDE DEF k
<1>5. \A i \in DOMAIN flushes' :
        /\ flushes'[i][1] = "build" => widget'[flushes'[i][2]].stage = "pending"
        /\ flushes'[i][1] = "open" => widget'[flushes'[i][2]].stage \in {"built", "freed"}
  BY <1>1, <1>3, <1>4 DEF FlushesAgree
<1>6. ASSUME NEW i \in DOMAIN flushes', NEW j \in DOMAIN flushes', flushes'[i][2] = flushes'[j][2],
             flushes'[i][1] = "build" \/ "lock" \notin hasty'[flushes'[i][2]]
      PROVE  i = j
  <2>1. CASE i \in DOMAIN flushes /\ j \in DOMAIN flushes
    BY <1>1, <1>3, <1>6, <2>1 DEF FlushesAgree
  <2>2. CASE i = k /\ j \in DOMAIN flushes
    BY <1>3, <1>4, <1>6, <2>2 DEF Opening
  <2>3. CASE i \in DOMAIN flushes /\ j = k
    <3>1. flushes[i][2] = n /\ flushes'[i] = flushes[i] /\ Opening(n)
      BY <1>3, <1>4, <1>6, <2>3 DEF Opening
    <3>2. what = "open" /\ "lock" \in hasty'[n]
      BY <3>1
    <3>3. flushes[i][1] = "build"
      BY <1>6, <3>1, <3>2
    <3>4. widget'[n].stage = "pending"
      BY <1>5, <1>3, <2>3, <3>1, <3>3
    <3>5. QED
      BY <3>2, <3>4
  <2>4. QED
    BY <1>3, <2>1, <2>2, <2>3
<1>7. FlushesAgree'
  BY <1>5, <1>6 DEF FlushesAgree
<1>8. Opening(n)'
  BY <1>3, <1>4 DEF Opening
<1>9. \A q \in Widgets!Ids \ {n} : Opening(q)' => Opening(q)
  BY <1>3, <1>4 DEF Opening
<1>10. QED
  BY <1>3, <1>7, <1>8, <1>9

(* The first flush is done, and leaves as many as its queue held.          *)
ShrinksBy(n, count) ==
  /\ WidgetTypes /\ FlushesAgree /\ flushes # <<>> /\ count \in Nat /\ n = flushes[1][2]
  /\ flushes' = Tail(flushes) \o [i \in 1 .. count |-> <<"open", n>>]
  /\ \A q \in Widgets!Ids \ {n} : widget'[q] = widget[q]
  /\ hasty' = hasty
  /\ flushes[1][1] = "open" => count = 0
  /\ flushes[1][1] = "open" \/ count > 0 => widget'[n].stage \in {"built", "freed"}
  /\ count > 0 => "lock" \in hasty[n]
LEMMA FlushesShrink ==
  ASSUME NEW n, NEW count, ShrinksBy(n, count)
  PROVE  /\ FlushesAgree' /\ flushes' \in Seq(FlushSet)
         /\ \A q \in Widgets!Ids \ {n} : Opening(q)' <=> Opening(q)
         /\ flushes[1][1] = "build" \/ "lock" \notin hasty[n] => (count = 0 => ~Opening(n)')
<1> USE DEF ShrinksBy
<1> DEFINE more == [i \in 1 .. count |-> <<"open", n>>]
           rest == Tail(flushes)
<1>1. /\ Len(flushes) \in Nat /\ DOMAIN flushes = 1 .. Len(flushes)
      /\ \A i \in DOMAIN flushes : /\ flushes[i] \in FlushSet
           /\ flushes[i][1] \in {"build", "open"} /\ flushes[i][2] \in Widgets!Ids
  BY FlushFacts
<1>2. flushes \in Seq(FlushSet)
  BY DEF WidgetTypes
<1>3. /\ rest \in Seq(FlushSet) /\ 1 \in DOMAIN flushes
      /\ \A i \in DOMAIN rest : i + 1 \in DOMAIN flushes /\ i + 1 # 1 /\ rest[i] = flushes[i + 1]
      /\ \A i \in DOMAIN flushes : i = 1 \/ (i - 1 \in DOMAIN rest /\ rest[i - 1] = flushes[i])
  BY <1>1, <1>2
<1>4. n \in Widgets!Ids /\ <<"open", n>> \in FlushSet
  BY <1>1, <1>3 DEF FlushSet
<1>5. /\ more \in Seq(FlushSet) /\ DOMAIN more = 1 .. count
      /\ \A i \in DOMAIN more : more[i] = <<"open", n>>
  <2>1. DOMAIN more = 1 .. count /\ \A i \in DOMAIN more : more[i] = <<"open", n>>
    OBVIOUS
  <2>2. more \in [1 .. count -> FlushSet]
    BY <1>4
  <2> HIDE DEF more
  <2>3. QED
    BY <2>1, <2>2
<1> HIDE DEF rest, more
<1>6. flushes' = rest \o more
  BY DEF rest, more
<1>7. /\ flushes' \in Seq(FlushSet)
      /\ \A i \in DOMAIN rest : i \in DOMAIN flushes' /\ flushes'[i] = rest[i]
      /\ \A i \in DOMAIN flushes' :
           \/ i \in DOMAIN rest /\ flushes'[i] = rest[i]
           \/ i > Len(rest) /\ i - Len(rest) \in DOMAIN more /\ flushes'[i] = more[i - Len(rest)]
  <2>1. rest \in Seq(FlushSet) /\ more \in Seq(FlushSet)
    BY <1>3, <1>5
  <2> DEFINE all == rest \o more
  <2>2. /\ all \in Seq(FlushSet)
        /\ \A i \in DOMAIN all :
             \/ i \in DOMAIN rest /\ all[i] = rest[i]
             \/ i > Len(rest) /\ i - Len(rest) \in DOMAIN more /\ all[i] = more[i - Len(rest)]
    BY ONLY <2>1, JoinFacts, Zenon
  <2>3. \A i \in DOMAIN rest : i \in DOMAIN all /\ all[i] = rest[i]
    BY ONLY <2>1, JoinFacts, Zenon
  <2>4. QED
    BY <1>6, <2>2, <2>3
(* Which flushes are left: some of those before, and some of n.            *)
<1> DEFINE Old(i) == i \in Nat /\ i + 1 \in DOMAIN flushes /\ i + 1 # 1 /\ flushes'[i] = flushes[i + 1]
           New(i) == count > 0 /\ flushes'[i][1] = "open" /\ flushes'[i][2] = n
<1>8. \A i \in DOMAIN flushes' : Old(i) \/ New(i)
  <2>1. ASSUME NEW i \in DOMAIN flushes', i \in DOMAIN rest, flushes'[i] = rest[i]
        PROVE  Old(i)
    BY <1>3, <2>1
  <2>2. ASSUME NEW i \in DOMAIN flushes', i - Len(rest) \in DOMAIN more,
               flushes'[i] = more[i - Len(rest)]
        PROVE  New(i)
    BY <1>5, <2>2
  <2>3. QED
    BY <1>7, <2>1, <2>2
<1>9. \A i \in DOMAIN flushes' : Old(i) => (flushes[1][1] = "build" => flushes'[i][2] # n)
  <2> SUFFICES ASSUME NEW i \in DOMAIN flushes', Old(i), flushes[1][1] = "build", flushes'[i][2] = n
               PROVE  FALSE
    OBVIOUS
  <2>1. flushes[1][2] = flushes[i + 1][2] /\ i + 1 \in DOMAIN flushes /\ i + 1 # 1
    OBVIOUS
  <2>2. QED
    BY <1>3, <2>1 DEF FlushesAgree
<1>10. \A i \in DOMAIN flushes' : Old(i) => ("lock" \notin hasty[n] => flushes'[i][2] # n)
  <2> SUFFICES ASSUME NEW i \in DOMAIN flushes', Old(i), "lock" \notin hasty[n], flushes'[i][2] = n
               PROVE  FALSE
    OBVIOUS
  <2>1. flushes[1][2] = flushes[i + 1][2] /\ i + 1 \in DOMAIN flushes /\ i + 1 # 1
    OBVIOUS
  <2>2. QED
    BY <1>3, <2>1 DEF FlushesAgree
<1>11. ASSUME NEW i \in DOMAIN flushes'
       PROVE  /\ flushes'[i][1] = "build" => widget'[flushes'[i][2]].stage = "pending"
              /\ flushes'[i][1] = "open" => widget'[flushes'[i][2]].stage \in {"built", "freed"}
  <2>1. CASE New(i)
    BY <2>1
  <2>2. CASE Old(i) /\ flushes'[i][2] # n
    <3>1. flushes[i + 1][2] \in Widgets!Ids \ {n} /\ i + 1 \in DOMAIN flushes
      BY <1>1, <2>2
    <3>2. widget'[flushes[i + 1][2]] = widget[flushes[i + 1][2]]
      BY <3>1
    <3>3. /\ flushes[i + 1][1] = "build" => widget[flushes[i + 1][2]].stage = "pending"
          /\ flushes[i + 1][1] = "open" => widget[flushes[i + 1][2]].stage \in {"built", "freed"}
      BY <3>1 DEF FlushesAgree
    <3>4. QED
      BY <2>2, <3>2, <3>3
  <2>3. CASE Old(i) /\ flushes'[i][2] = n
    <3>1. flushes[1][1] = "open"
      BY <1>1, <1>3, <1>9, <2>3
    <3>2. widget[n].stage \in {"built", "freed"} /\ widget'[n].stage \in {"built", "freed"}
      BY <1>3, <3>1 DEF FlushesAgree
    <3>3. flushes[i + 1][1] # "build"
      BY <2>3, <3>2 DEF FlushesAgree
    <3>4. QED
      BY <2>3, <3>2, <3>3
  <2>4. QED
    BY <1>8, <2>1, <2>2, <2>3
<1>12. ASSUME NEW i \in DOMAIN flushes', NEW j \in DOMAIN flushes', flushes'[i][2] = flushes'[j][2],
              flushes'[i][1] = "build" \/ "lock" \notin hasty'[flushes'[i][2]]
       PROVE  i = j
  <2>1. CASE Old(i) /\ Old(j)
    BY <1>12, <2>1 DEF FlushesAgree
  <2>2. CASE New(i)
    BY <1>12, <2>2
  <2>3. CASE Old(i) /\ New(j)
    <3>1. "lock" \in hasty[n] /\ flushes'[i][2] = n /\ flushes[1][1] # "open"
      BY <1>12, <2>3
    <3>2. QED
      BY <1>1, <1>3, <1>9, <2>3, <3>1
  <2>4. QED
    BY <1>8, <2>1, <2>2, <2>3
<1>13. FlushesAgree'
  BY <1>11, <1>12 DEF FlushesAgree
<1>14. ASSUME NEW q \in Widgets!Ids \ {n}
       PROVE  Opening(q)' <=> Opening(q)
  <2>1. Opening(q)' => Opening(q)
    BY <1>8 DEF Opening
  <2>2. ASSUME NEW i \in DOMAIN flushes, flushes[i][2] = q
        PROVE  Opening(q)'
    <3>1. i - 1 \in DOMAIN flushes' /\ flushes'[i - 1] = flushes[i]
      BY <1>3, <1>7, <2>2
    <3>2. QED
      BY <2>2, <3>1 DEF Opening
  <2>3. QED
    BY <2>1, <2>2 DEF Opening
<1>15. flushes[1][1] = "build" \/ "lock" \notin hasty[n] => (count = 0 => ~Opening(n)')
  BY <1>8, <1>9, <1>10 DEF Opening
<1>16. QED
  BY <1>7, <1>13, <1>14, <1>15

-----------------------------------------------------------------------------
Grown(queue, what, more) ==
  /\ more \in Seq(Whats) /\ DOMAIN more = 1 .. Len(queue) + 1 /\ Len(queue) \in Nat
  /\ DOMAIN queue = 1 .. Len(queue)
  /\ more[Len(queue) + 1] = what
  /\ \A j \in DOMAIN queue : more[j] = queue[j]

LEMMA AppendFacts ==
  ASSUME NEW queue \in Seq(Whats), NEW what \in Whats
  PROVE  Grown(queue, what, Append(queue, what))
BY DEF Grown

LEMMA EnterHolds ==
  ASSUME WidgetsInv, NEW woken \in BOOLEAN, Widgets!Enter(woken) PROVE WidgetsInv'
<1>0. PICK m : m = made + 1
  OBVIOUS
<1> DEFINE queue == <<"sleep">> \o (IF woken THEN <<"wake">> ELSE <<>>)
<1>1. /\ ~active /\ made < MaxWidgets /\ moves < MaxMoves /\ moves' = moves + 1
      /\ active' = TRUE /\ asleep' = ~woken /\ made' = m
      /\ widget' = [widget EXCEPT ![m].stage = "pending", ![m].queue = queue]
      /\ flushes' = Append(flushes, <<"build", m>>)
      /\ shut' = shut /\ hasty' = hasty
  BY <1>0 DEF Widgets!Enter, Widgets!Move
<1>2. WidgetTypes /\ FlushesAgree /\ \A n \in Widgets!Ids : Follows(n)
  BY DEF WidgetsInv
<1>3. m \in Widgets!Ids /\ m > made /\ made \in Nat
  BY <1>0, <1>1, <1>2, IdFacts DEF WidgetTypes, Widgets!Ids
<1>4. widget[m] = Widgets!Raw
  BY <1>2, <1>3 DEF Follows, Stage
<1>5. /\ queue \in Seq(Whats)
      /\ \A j \in DOMAIN queue : queue[j] \in {"sleep", "wake"}
      /\ LastNap(queue, IF asleep' THEN "sleep" ELSE "wake")
  <2>1. CASE woken
    <3>1. asleep' = FALSE /\ queue = <<"sleep">> \o <<"wake">>
      BY <1>1, <2>1
    <3> DEFINE s == <<"sleep">>
               t == <<"wake">>
    <3>2. /\ s \in Seq(Whats) /\ Len(s) = 1 /\ DOMAIN s = 1 .. 1 /\ s[1] = "sleep"
          /\ t \in Seq(Whats) /\ Len(t) = 1 /\ DOMAIN t = 1 .. 1 /\ t[1] = "wake"
      BY DEF Whats
    <3> HIDE DEF queue, s, t
    <3>3. queue \in Seq(Whats) /\ DOMAIN queue = 1 .. 2 /\ queue[1] = "sleep" /\ queue[2] = "wake"
      <4>1. queue = s \o t
        BY <3>1 DEF s, t
      <4>2. s \in Seq(Whats) /\ t \in Seq(Whats)
        BY <3>2
      <4>3. queue \in Seq(Whats) /\ Len(queue) = Len(s) + Len(t) /\ DOMAIN queue = 1 .. Len(queue)
        BY ONLY <4>1, <4>2, JoinFacts, Zenon
      <4>4. \A i \in DOMAIN s : queue[i] = s[i]
        BY ONLY <4>1, <4>2, JoinFacts, Zenon
      <4>5. \A i \in DOMAIN (s \o t) :
              \/ i \in DOMAIN s /\ (s \o t)[i] = s[i]
              \/ i > Len(s) /\ i - Len(s) \in DOMAIN t /\ (s \o t)[i] = t[i - Len(s)]
        BY ONLY <4>2, JoinFacts, Zenon
      <4>6. DOMAIN queue = 1 .. 2 /\ queue[1] = "sleep" /\ 2 - 1 = 1
        BY <3>2, <4>3, <4>4
      <4>7. queue[2] = t[2 - 1]
        BY <3>2, <4>1, <4>5, <4>6
      <4>8. QED
        BY <3>2, <4>3, <4>6, <4>7
    <3>4. LastNap(queue, "wake")
      BY <3>3 DEF LastNap
    <3>5. QED
      BY <3>1, <3>3, <3>4
  <2>2. CASE ~woken
    <3>1. queue = <<"sleep">>
      BY <2>2
    <3>2. asleep' = TRUE
      BY <1>1, <2>2
    <3> HIDE DEF queue
    <3>3. queue \in Seq(Whats) /\ DOMAIN queue = 1 .. 1 /\ queue[1] = "sleep"
      BY <3>1 DEF Whats
    <3>4. LastNap(queue, "sleep")
      BY <3>3 DEF LastNap
    <3>5. QED
      BY <3>2, <3>3, <3>4
  <2>3. QED
    BY <2>1, <2>2
<1> HIDE DEF queue
<1>6. /\ widget' \in [Widgets!Ids -> WidgetSet]
      /\ \A n \in Widgets!Ids \ {m} : widget'[n] = widget[n]
      /\ widget'[m].stage = "pending" /\ widget'[m].queue = queue
      /\ Fresh(widget'[m])
  <2>1. widget \in [Widgets!Ids -> WidgetSet]
    BY <1>2 DEF WidgetTypes
  <2>2. widget' = [widget EXCEPT ![m] = [Widgets!Raw EXCEPT !.stage = "pending", !.queue = queue]]
    BY <1>1, <1>3, <1>4, <2>1
  <2> DEFINE w == [Widgets!Raw EXCEPT !.stage = "pending", !.queue = queue]
  <2>3. w \in WidgetSet /\ w.stage = "pending" /\ w.queue = queue /\ Fresh(w)
    BY <1>5, RawFacts DEF WidgetSet, Fresh
  <2> HIDE DEF w
  <2>4. widget' = [widget EXCEPT ![m] = w]
    BY <2>2 DEF w
  <2>5. widget'[m] = w /\ widget' \in [Widgets!Ids -> WidgetSet]
        /\ \A n \in Widgets!Ids \ {m} : widget'[n] = widget[n]
    BY <1>3, <2>1, <2>3, <2>4
  <2>6. QED
    BY <2>3, <2>5
<1>7. ~Opening(m)
  <2> SUFFICES ASSUME NEW i \in DOMAIN flushes, flushes[i][2] = m PROVE FALSE
    BY DEF Opening
  <2>1. widget[m].stage \in {"pending", "built", "freed"}
    BY <1>2, FlushFacts DEF FlushesAgree
  <2>2. QED
    BY <1>4, <2>1, RawFacts
<1>8. /\ FlushesAgree' /\ flushes' \in Seq(FlushSet) /\ Opening(m)'
      /\ \A q \in Widgets!Ids \ {m} : Opening(q)' => Opening(q)
  <2>1. \A q \in Widgets!Ids :
           /\ widget[q].stage = "pending" => widget'[q].stage = "pending"
           /\ widget[q].stage \in {"built", "freed"} => widget'[q].stage \in {"built", "freed"}
           /\ hasty[q] \subseteq hasty'[q]
    BY <1>1, <1>4, <1>6, RawFacts
  <2>2. QED
    BY <1>1, <1>2, <1>3, <1>6, <1>7, <2>1, FlushesGrow
<1>9. WidgetTypes'
  <2>1. active' \in BOOLEAN /\ asleep' \in BOOLEAN
    BY <1>1, Zenon
  <2>2. made' \in 0 .. MaxWidgets /\ moves' \in 0 .. MaxMoves
    BY <1>0, <1>1, <1>2, <1>3, IdFacts DEF WidgetTypes
  <2>3. QED
    BY <1>1, <1>2, <1>6, <1>8, <2>1, <2>2 DEF WidgetTypes
<1>10. ASSUME NEW n \in Widgets!Ids
       PROVE  Follows(n)'
  <2>1. CASE n # m
    <3>1. ~Current(n) /\ ~Current(n)'
      BY <1>1, <2>1 DEF Current
    <3>2. (n > made' <=> n > made) /\ (n <= made' <=> n <= made)
      BY <1>0, <1>1, <1>3, <2>1, IdFacts
    <3>3. QED
      BY <1>1, <1>2, <1>6, <1>8, <2>1, <3>1, <3>2, OtherFollows
  <2>2. CASE n = m
    <3>1. Current(m)'
      BY <1>1 DEF Current
    <3>2. Stage(m)'
      BY <1>1, <1>3, <1>6, <3>1, IdFacts DEF Stage
    <3>3. Queued(m)'
      BY <1>5, <1>6, <3>1 DEF Queued, LastNap
    <3>4. Counts(widget'[m])
      BY <1>6 DEF Fresh, Counts
    <3>5. QED
      BY <1>6, <2>2, <3>2, <3>3, <3>4 DEF Follows, Fresh, Counts
  <2>3. QED
    BY <2>1, <2>2
<1>11. active' => made' >= 1
  BY <1>0, <1>1, <1>3
<1>12. QED
  BY <1>8, <1>9, <1>10, <1>11 DEF WidgetsInv

-----------------------------------------------------------------------------
(* The page and the locker tell the widget of the page something.          *)
LEMMA TellFacts ==
  ASSUME WidgetsInv, active, NEW what \in Whats, Widgets!Tell(what)
  PROVE  /\ made \in Widgets!Ids /\ Current(made)
         /\ \A n \in Widgets!Ids \ {made} : widget'[n] = widget[n] /\ hasty'[n] = hasty[n]
         /\ hasty' \in [Widgets!Ids -> SUBSET {"lock", "nap", "free"}]
         /\ hasty[made] \subseteq hasty'[made]
         /\ what \in {"shut", "open"} /\ Widgets!Due(made) => "lock" \in hasty'[made]
         /\ what \in {"sleep", "wake"} /\ widget[made].refreshing => "nap" \in hasty'[made]
         /\ what = "free" /\ (Widgets!Due(made) \/ widget[made].refreshing) =>
              "free" \in hasty'[made]
         /\ widget' = [widget EXCEPT ![made] = Widgets!Give(widget[made], what)]
         /\ widget[made].stage \in {"pending", "built"}
         /\ (widget[made].stage = "pending" \/ what # "open") => flushes' = flushes
         /\ (widget[made].stage = "built" /\ what = "open") =>
              flushes' = Append(flushes, <<"open", made>>)
<1>1. WidgetTypes /\ made >= 1 /\ \A n \in Widgets!Ids : Follows(n)
  BY DEF WidgetsInv
<1>2. made \in Widgets!Ids /\ Current(made)
  BY <1>1, IdFacts DEF WidgetTypes, Widgets!Ids, Current
<1>3. widget[made].stage \in {"pending", "built"}
  BY <1>1, <1>2 DEF Follows, Stage
<1> DEFINE more == CASE what \in {"shut", "open"} /\ Widgets!Due(made) -> {"lock"}
                     [] what \in {"sleep", "wake"} /\ widget[made].refreshing -> {"nap"}
                     [] what = "free" /\ (Widgets!Due(made) \/ widget[made].refreshing) -> {"free"}
                     [] OTHER -> {}
<1>4. more \subseteq {"lock", "nap", "free"}
  BY Zenon
<1>5. /\ what \in {"shut", "open"} /\ Widgets!Due(made) => "lock" \in more
      /\ what \in {"sleep", "wake"} /\ widget[made].refreshing => "nap" \in more
      /\ what = "free" /\ (Widgets!Due(made) \/ widget[made].refreshing) => "free" \in more
  OBVIOUS
<1> HIDE DEF more
<1>6. hasty' = [hasty EXCEPT ![made] = @ \union more]
  BY DEF Widgets!Tell, more
<1>7. hasty \in [Widgets!Ids -> SUBSET {"lock", "nap", "free"}]
  BY <1>1 DEF WidgetTypes
<1>8. /\ hasty'[made] = hasty[made] \union more
      /\ hasty' \in [Widgets!Ids -> SUBSET {"lock", "nap", "free"}]
      /\ \A n \in Widgets!Ids \ {made} : hasty'[n] = hasty[n]
  BY <1>2, <1>4, <1>6, <1>7
<1>9. widget' = [widget EXCEPT ![made] = Widgets!Give(widget[made], what)]
  BY DEF Widgets!Tell
<1>10. \A n \in Widgets!Ids \ {made} : widget'[n] = widget[n]
  BY <1>1, <1>9 DEF WidgetTypes
<1>11. flushes' = flushes \o Widgets!FlushesFor(made, widget[made], what)
  BY DEF Widgets!Tell
<1>12. flushes \in Seq(FlushSet)
  BY <1>1 DEF WidgetTypes
<1>13. (widget[made].stage = "pending" \/ what # "open") => flushes' = flushes
  BY <1>11, <1>12 DEF Widgets!FlushesFor
<1>14. (widget[made].stage = "built" /\ what = "open") => flushes' = Append(flushes, <<"open", made>>)
  BY <1>11, <1>12 DEF Widgets!FlushesFor
<1>15. QED
  BY <1>2, <1>3, <1>5, <1>8, <1>9, <1>10, <1>13, <1>14

(* Before it is built, it is queued.                                       *)
LEMMA PendingTold ==
  ASSUME WidgetsInv, NEW what \in Whats, made \in Widgets!Ids, widget[made].stage = "pending",
         widget' = [widget EXCEPT ![made] = Widgets!Give(widget[made], what)]
  PROVE  /\ widget' \in [Widgets!Ids -> WidgetSet]
         /\ widget'[made].stage = "pending" /\ Fresh(widget'[made]) /\ Counts(widget'[made])
         /\ widget[made].queue \in Seq(Whats)
         /\ widget'[made].queue = Append(widget[made].queue, what)
<1> DEFINE w == widget[made]
           more == Append(w.queue, what)
           r == [w EXCEPT !.queue = more]
<1>1. widget \in [Widgets!Ids -> WidgetSet] /\ w \in WidgetSet /\ Fresh(w) /\ w.stage = "pending"
  BY DEF WidgetsInv, WidgetTypes, Follows
<1>2. w.queue \in Seq(Whats) /\ more \in Seq(Whats)
  <2>1. w.queue \in Seq(Whats)
    BY <1>1 DEF WidgetSet
  <2>2. QED
    BY <2>1
<1>3. widget' = [widget EXCEPT ![made] = r]
  BY <1>1 DEF Widgets!Give
<1> HIDE DEF w, more
<1>4. /\ r \in WidgetSet /\ r.stage = "pending" /\ Fresh(r) /\ r.queue = more
  BY <1>1, <1>2 DEF WidgetSet, Fresh
<1>5. Counts(r)
  BY <1>4 DEF Fresh, Counts
<1> HIDE DEF r
<1>6. widget'[made] = r /\ widget' \in [Widgets!Ids -> WidgetSet]
  BY <1>1, <1>3, <1>4
<1>7. QED
  BY <1>2, <1>4, <1>5, <1>6 DEF w, more

LEMMA BuiltTold ==
  ASSUME WidgetsInv, NEW what \in Whats, made \in Widgets!Ids, widget[made].stage = "built",
         widget' = [widget EXCEPT ![made] = Widgets!Give(widget[made], what)]
  PROVE  /\ widget' \in [Widgets!Ids -> WidgetSet]
         /\ Does(widget[made], what, widget'[made])
         /\ Naps(made) /\ Hears(made)
<1>1. /\ widget \in [Widgets!Ids -> WidgetSet] /\ widget[made] \in WidgetSet
      /\ Counts(widget[made]) /\ Naps(made) /\ Hears(made)
  BY DEF WidgetsInv, WidgetTypes, Follows
<1>2. widget' = [widget EXCEPT ![made] = Widgets!ThenOn(widget[made], what)]
  BY DEF Widgets!Give
<1>3. Does(widget[made], what, Widgets!ThenOn(widget[made], what))
  BY <1>1, ThenFacts
<1>4. widget'[made] = Widgets!ThenOn(widget[made], what) /\ widget' \in [Widgets!Ids -> WidgetSet]
  BY <1>1, <1>2, <1>3 DEF Does
<1>5. QED
  BY <1>1, <1>3, <1>4

(* The other widgets are not told anything.                                *)
LEMMA OthersStay ==
  ASSUME WidgetsInv, made' = made, active, NEW n \in Widgets!Ids \ {made},
         widget'[n] = widget[n], hasty'[n] = hasty[n], Opening(n)' => Opening(n)
  PROVE  Follows(n)'
<1>1. ~Current(n) /\ ~Current(n)'
  BY DEF Current
<1>2. Follows(n)
  BY DEF WidgetsInv
<1>3. (n > made' <=> n > made) /\ (n <= made' <=> n <= made)
  OBVIOUS
<1>4. QED
  BY <1>1, <1>2, <1>3, OtherFollows

LEMMA SuspendHolds ==
  ASSUME WidgetsInv, NEW sleep \in BOOLEAN, Widgets!Suspend(sleep) PROVE WidgetsInv'
<1> DEFINE what == IF sleep THEN "sleep" ELSE "wake"
<1>1. /\ moves < MaxMoves /\ moves' = moves + 1 /\ asleep' = sleep
      /\ active' = active /\ shut' = shut /\ made' = made
      /\ active => Widgets!Tell(what)
      /\ ~active => UNCHANGED <<widget, flushes, hasty>>
  BY DEF Widgets!Suspend, Widgets!Move, Widgets!TellIfActive
<1>2. what \in Whats /\ what \in {"sleep", "wake"} /\ what = IF asleep' THEN "sleep" ELSE "wake"
  BY <1>1 DEF Whats
<1> HIDE DEF what
<1>3. /\ WidgetTypes /\ FlushesAgree /\ (active => made >= 1)
      /\ \A n \in Widgets!Ids : Follows(n)
  BY DEF WidgetsInv
<1>4. moves' \in 0 .. MaxMoves
  BY <1>1, <1>3, IdFacts DEF WidgetTypes
<1>5. CASE ~active
  <2>1. WidgetTypes'
    BY <1>1, <1>3, <1>4, <1>5 DEF WidgetTypes
  <2>2. FlushesAgree'
    BY <1>1, <1>3, <1>5 DEF FlushesAgree
  <2>3. ASSUME NEW n \in Widgets!Ids
        PROVE  Follows(n)'
    BY <1>1, <1>3, <1>5, OtherFollows DEF Current, Opening
  <2>4. QED
    BY <1>1, <1>5, <2>1, <2>2, <2>3 DEF WidgetsInv
<1>6. CASE active
  <2>1. /\ made \in Widgets!Ids /\ Current(made)
        /\ \A n \in Widgets!Ids \ {made} : widget'[n] = widget[n] /\ hasty'[n] = hasty[n]
        /\ hasty' \in [Widgets!Ids -> SUBSET {"lock", "nap", "free"}]
        /\ hasty[made] \subseteq hasty'[made]
        /\ widget[made].refreshing => "nap" \in hasty'[made]
        /\ widget' = [widget EXCEPT ![made] = Widgets!Give(widget[made], what)]
        /\ widget[made].stage \in {"pending", "built"}
        /\ flushes' = flushes
    BY <1>1, <1>2, <1>6, TellFacts
  <2>2. ASSUME NEW n \in Widgets!Ids
        PROVE  Opening(n)' <=> Opening(n)
    BY <2>1 DEF Opening
  <2>3. ASSUME NEW n \in Widgets!Ids \ {made}
        PROVE  Follows(n)'
    BY <1>1, <1>6, <2>1, <2>2, <2>3, OthersStay
  <2>4. /\ widget' \in [Widgets!Ids -> WidgetSet]
        /\ widget'[made].stage = widget[made].stage
        /\ \A n \in Widgets!Ids : n = made => Follows(n)'
    <3>1. CASE widget[made].stage = "pending"
      <4>1. /\ widget' \in [Widgets!Ids -> WidgetSet]
            /\ widget'[made].stage = "pending" /\ Fresh(widget'[made]) /\ Counts(widget'[made])
            /\ widget[made].queue \in Seq(Whats)
            /\ widget'[made].queue = Append(widget[made].queue, what)
        BY <1>2, <2>1, <3>1, PendingTold
      <4>2. ASSUME NEW n \in Widgets!Ids, n = made
            PROVE  Follows(n)'
        <5> DEFINE queue == widget[n].queue
                   more == widget'[n].queue
                   k == Len(queue) + 1
        <5>1. /\ more \in Seq(Whats) /\ k \in DOMAIN more /\ more[k] = what
              /\ \A j \in DOMAIN more : j = k \/ (j \in DOMAIN queue /\ more[j] = queue[j])
              /\ \A j \in DOMAIN more : ~(j > k)
          <6>1. Grown(queue, what, more)
            BY <1>2, <4>1, <4>2, AppendFacts
          <6>2. QED
            BY <6>1 DEF Grown
        <5>2. Current(n) /\ Current(n)' /\ Queued(n)
          BY <1>1, <1>3, <2>1, <3>1, <4>2 DEF Current, Follows
        <5>3. LastNap(more, what)
          BY <5>1 DEF LastNap
        <5>4. \A j \in DOMAIN more : more[j] # "free"
          BY <1>2, <5>1, <5>2 DEF Queued
        <5>5. "lock" \notin hasty'[n] => \A j \in DOMAIN more : more[j] \notin {"shut", "open"}
          BY <1>2, <2>1, <4>2, <5>1, <5>2 DEF Queued
        <5>6. Queued(n)'
          BY <1>2, <5>2, <5>3, <5>4, <5>5 DEF Queued, LastNap
        <5>7. Stage(n)'
          BY <1>1, <1>3, <4>1, <4>2, <5>2, IdFacts DEF Stage, WidgetTypes
        <5>8. QED
          BY <4>1, <4>2, <5>6, <5>7 DEF Follows, Fresh, Counts
      <4>3. QED
        BY <3>1, <4>1, <4>2
    <3>2. CASE widget[made].stage = "built"
      <4>1. /\ widget' \in [Widgets!Ids -> WidgetSet]
            /\ Does(widget[made], what, widget'[made])
            /\ Naps(made) /\ Hears(made)
        BY <1>2, <2>1, <3>2, BuiltTold
      <4>2. ASSUME NEW n \in Widgets!Ids, n = made
            PROVE  Follows(n)'
        <5>1. /\ widget'[n].refreshing = widget[n].refreshing /\ widget'[n].before = widget[n].before
              /\ widget'[n].stage = "built" /\ Counts(widget'[n])
              /\ what = "sleep" => widget'[n].frame = FALSE
              /\ what = "wake" => widget'[n].frame = TRUE
              /\ widget'[n].draws <=> widget'[n].frame
              /\ widget'[n].own = widget[n].own /\ widget'[n].sets = widget[n].sets
          BY <1>2, <3>2, <4>1, <4>2 DEF Does, Naps
        <5>2. Naps(n)'
          BY <1>2, <2>1, <4>1, <4>2, <5>1 DEF Naps
        <5>3. Hears(n)'
          BY <1>1, <2>1, <2>2, <4>1, <4>2, <5>1 DEF Hears
        <5>4. Stage(n)'
          BY <1>1, <1>6, <4>2, <5>1, IdFacts, <1>3 DEF Stage, Current, WidgetTypes
        <5>5. QED
          BY <5>1, <5>2, <5>3, <5>4 DEF Follows, Counts
      <4>3. QED
        BY <1>2, <3>2, <4>1, <4>2 DEF Does
    <3>3. QED
      BY <2>1, <3>1, <3>2
  <2>5. WidgetTypes'
    BY <1>1, <1>3, <1>4, <2>1, <2>4 DEF WidgetTypes
  <2>6. FlushesAgree'
    <3>1. ASSUME NEW n \in Widgets!Ids
          PROVE  widget'[n].stage = widget[n].stage /\ hasty[n] \subseteq hasty'[n]
      BY <2>1, <2>4
    <3>2. QED
      BY <1>3, <2>1, <3>1, FlushesStay
  <2>7. QED
    BY <1>1, <1>3, <2>3, <2>4, <2>5, <2>6 DEF WidgetsInv
<1>7. QED
  BY <1>5, <1>6

LEMMA LeaveHolds == ASSUME WidgetsInv, Widgets!Leave PROVE WidgetsInv'
<1>1. /\ moves < MaxMoves /\ moves' = moves + 1 /\ active /\ active' = FALSE
      /\ asleep' = asleep /\ shut' = shut /\ made' = made
      /\ Widgets!Tell("free")
  BY DEF Widgets!Leave, Widgets!Move
<1>2. "free" \in Whats
  BY DEF Whats
<1>3. WidgetTypes /\ FlushesAgree /\ \A n \in Widgets!Ids : Follows(n)
  BY DEF WidgetsInv
<1>4. moves' \in 0 .. MaxMoves
  BY <1>1, <1>3, IdFacts DEF WidgetTypes
<1>5. /\ made \in Widgets!Ids /\ Current(made)
      /\ \A n \in Widgets!Ids \ {made} : widget'[n] = widget[n] /\ hasty'[n] = hasty[n]
      /\ hasty' \in [Widgets!Ids -> SUBSET {"lock", "nap", "free"}]
      /\ hasty[made] \subseteq hasty'[made]
      /\ (Widgets!Due(made) \/ widget[made].refreshing) => "free" \in hasty'[made]
      /\ widget' = [widget EXCEPT ![made] = Widgets!Give(widget[made], "free")]
      /\ widget[made].stage \in {"pending", "built"}
      /\ flushes' = flushes
  BY <1>1, <1>2, TellFacts
<1>6. ASSUME NEW n \in Widgets!Ids
      PROVE  (Opening(n)' <=> Opening(n)) /\ ~Current(n)'
  BY <1>1, <1>5 DEF Opening, Current
<1>7. ASSUME NEW n \in Widgets!Ids \ {made}
      PROVE  Follows(n)'
  BY <1>1, <1>5, <1>6, <1>7, OthersStay
<1>8. CASE widget[made].stage = "pending"
  <2>1. /\ widget' \in [Widgets!Ids -> WidgetSet]
        /\ widget'[made].stage = "pending" /\ Fresh(widget'[made]) /\ Counts(widget'[made])
        /\ widget[made].queue \in Seq(Whats)
        /\ widget'[made].queue = Append(widget[made].queue, "free")
    BY <1>2, <1>5, <1>8, PendingTold
  <2>2. ASSUME NEW n \in Widgets!Ids, n = made
        PROVE  Follows(n)'
    <3> DEFINE queue == widget[n].queue
               more == widget'[n].queue
               k == Len(queue) + 1
    <3>1. /\ more \in Seq(Whats) /\ k \in DOMAIN more /\ more[k] = "free"
          /\ \A j \in DOMAIN more : j = k \/ (j \in DOMAIN queue /\ more[j] = queue[j])
      <4>1. Grown(queue, "free", more)
        BY <1>2, <2>1, <2>2, AppendFacts
      <4>2. QED
        BY <4>1 DEF Grown
    <3>2. Queued(n) /\ ~Current(n)'
      BY <1>3, <1>6, <1>8, <2>2 DEF Follows
    <3>3. "free" \in hasty'[n]
      BY <1>5, <1>8, <2>2 DEF Widgets!Due
    <3>4. "lock" \notin hasty'[n] => \A j \in DOMAIN more : more[j] \notin {"shut", "open"}
      BY <1>5, <2>2, <3>1, <3>2 DEF Queued
    <3>5. Queued(n)'
      BY <3>1, <3>2, <3>3, <3>4 DEF Queued
    <3>6. Stage(n)'
      BY <1>1, <1>3, <2>1, <2>2, <3>2, IdFacts DEF Stage, WidgetTypes
    <3>7. QED
      BY <2>1, <2>2, <3>5, <3>6 DEF Follows, Fresh, Counts
  <2>3. WidgetTypes'
    BY <1>1, <1>3, <1>4, <1>5, <2>1 DEF WidgetTypes
  <2>4. FlushesAgree'
    <3>1. ASSUME NEW n \in Widgets!Ids
          PROVE  widget'[n].stage = widget[n].stage /\ hasty[n] \subseteq hasty'[n]
      BY <1>5, <1>8, <2>1
    <3>2. QED
      BY <1>3, <1>5, <3>1, FlushesStay
  <2>5. QED
    BY <1>1, <1>7, <2>2, <2>3, <2>4 DEF WidgetsInv
<1>9. CASE widget[made].stage = "built"
  <2>1. /\ widget' \in [Widgets!Ids -> WidgetSet]
        /\ Does(widget[made], "free", widget'[made])
        /\ Naps(made) /\ Hears(made)
    BY <1>2, <1>5, <1>9, BuiltTold
  <2>2. ASSUME NEW n \in Widgets!Ids, n = made
        PROVE  Follows(n)'
    <3>1. /\ widget'[n].refreshing = widget[n].refreshing
          /\ widget'[n].stage = "freed" /\ Counts(widget'[n])
          /\ widget'[n].draws = FALSE /\ widget'[n].resize = FALSE
          /\ widget'[n].sets = (IF widget[n].own THEN widget[n].sets - 1 ELSE widget[n].sets)
      BY <2>1, <2>2 DEF Does
    <3>2. ASSUME hasty'[n] \intersect {"free", "lock"} = {}
          PROVE  Rests(n)'
      <4>1. ~Widgets!Due(n) /\ ~widget[n].refreshing /\ "lock" \notin hasty[n]
        BY <1>5, <2>2, <3>2
      <4>2. ~Opening(n)
        BY <4>1 DEF Opening, Widgets!Due
      <4>3. (widget[n].own <=> ~shut) /\ widget[n].sets = IF shut THEN 0 ELSE 1
        BY <2>1, <2>2, <4>1, <4>2 DEF Hears
      <4>4. widget'[n].sets = 0
        BY <3>1, <4>3
      <4>5. QED
        BY <1>6, <3>1, <4>1, <4>2, <4>4 DEF Rests
    <3>3. Stage(n)'
      BY <1>1, <1>3, <1>6, <2>2, <3>1, IdFacts DEF Stage, WidgetTypes
    <3>4. QED
      BY <3>1, <3>2, <3>3 DEF Follows, Counts
  <2>3. WidgetTypes'
    BY <1>1, <1>3, <1>4, <1>5, <2>1 DEF WidgetTypes
  <2>4. FlushesAgree'
    <3>1. widget'[made].stage = "freed"
      BY <2>1 DEF Does
    <3>2. \A n \in Widgets!Ids :
           /\ widget[n].stage = "pending" => widget'[n].stage = "pending"
           /\ widget[n].stage \in {"built", "freed"} => widget'[n].stage \in {"built", "freed"}
           /\ hasty[n] \subseteq hasty'[n]
      BY <1>5, <1>9, <3>1
    <3>3. QED
      BY <1>3, <1>5, <3>2, FlushesStay
  <2>5. QED
    BY <1>1, <1>7, <2>2, <2>3, <2>4 DEF WidgetsInv
<1>10. QED
  BY <1>5, <1>8, <1>9

LEMMA ShutHolds == ASSUME WidgetsInv, Widgets!Shut PROVE WidgetsInv'
<1> DEFINE what == IF shut THEN "open" ELSE "shut"
<1>1. /\ moves < MaxMoves /\ moves' = moves + 1 /\ active' = active
      /\ asleep' = asleep /\ shut' = ~shut /\ made' = made
      /\ active => Widgets!Tell(what)
      /\ ~active => UNCHANGED <<widget, flushes, hasty>>
  BY DEF Widgets!Shut, Widgets!Move, Widgets!TellIfActive
<1>2. what \in Whats /\ (shut => what = "open") /\ (~shut => what = "shut")
  BY DEF Whats
<1> HIDE DEF what
<1>3. /\ WidgetTypes /\ FlushesAgree /\ (active => made >= 1)
      /\ \A n \in Widgets!Ids : Follows(n)
  BY DEF WidgetsInv
<1>4. moves' \in 0 .. MaxMoves
  BY <1>1, <1>3, IdFacts DEF WidgetTypes
<1>5. shut' \in BOOLEAN
  BY <1>1, Zenon
<1>6. CASE ~active
  <2>1. WidgetTypes'
    BY <1>1, <1>3, <1>4, <1>5, <1>6 DEF WidgetTypes
  <2>2. FlushesAgree'
    BY <1>1, <1>3, <1>6 DEF FlushesAgree
  <2>3. ASSUME NEW n \in Widgets!Ids
        PROVE  Follows(n)'
    BY <1>1, <1>3, <1>6, OtherFollows DEF Current, Opening
  <2>4. QED
    BY <1>1, <1>6, <2>1, <2>2, <2>3 DEF WidgetsInv
<1>7. CASE active
  <2>1. /\ made \in Widgets!Ids /\ Current(made)
        /\ \A n \in Widgets!Ids \ {made} : widget'[n] = widget[n] /\ hasty'[n] = hasty[n]
        /\ hasty' \in [Widgets!Ids -> SUBSET {"lock", "nap", "free"}]
        /\ hasty[made] \subseteq hasty'[made]
        /\ Widgets!Due(made) => "lock" \in hasty'[made]
        /\ widget' = [widget EXCEPT ![made] = Widgets!Give(widget[made], what)]
        /\ widget[made].stage \in {"pending", "built"}
        /\ (widget[made].stage = "pending" \/ what # "open") => flushes' = flushes
        /\ (widget[made].stage = "built" /\ what = "open") =>
             flushes' = Append(flushes, <<"open", made>>)
    BY <1>1, <1>2, <1>7, TellFacts
  <2>2. CASE widget[made].stage = "pending"
    <3>1. /\ widget' \in [Widgets!Ids -> WidgetSet]
          /\ widget'[made].stage = "pending" /\ Fresh(widget'[made]) /\ Counts(widget'[made])
          /\ widget[made].queue \in Seq(Whats)
          /\ widget'[made].queue = Append(widget[made].queue, what)
      BY <1>2, <2>1, <2>2, PendingTold
    <3>2. flushes' = flushes
      BY <2>1, <2>2
    <3>3. ASSUME NEW n \in Widgets!Ids
          PROVE  Opening(n)' <=> Opening(n)
      BY <3>2 DEF Opening
    <3>4. ASSUME NEW n \in Widgets!Ids \ {made}
          PROVE  Follows(n)'
      BY <1>1, <1>7, <2>1, <3>3, <3>4, OthersStay
    <3>5. ASSUME NEW n \in Widgets!Ids, n = made
          PROVE  Follows(n)'
      <4> DEFINE queue == widget[n].queue
                 more == widget'[n].queue
                 k == Len(queue) + 1
      <4>1. /\ k \in DOMAIN more /\ more[k] = what
            /\ \A j \in DOMAIN queue : j \in DOMAIN more /\ more[j] = queue[j] /\ ~(k < j)
            /\ \A j \in DOMAIN more : j = k \/ (j \in DOMAIN queue /\ more[j] = queue[j])
        <5>1. Grown(queue, what, more)
          BY <1>2, <3>1, <3>5, AppendFacts
        <5>2. QED
          BY <5>1 DEF Grown
      <4>2. Current(n) /\ Current(n)' /\ Queued(n)
        BY <1>1, <1>3, <2>1, <2>2, <3>5 DEF Current, Follows
      <4>3. LastNap(more, IF asleep' THEN "sleep" ELSE "wake")
        <5>1. PICK m \in DOMAIN queue :
                /\ queue[m] = (IF asleep THEN "sleep" ELSE "wake")
                /\ \A j \in DOMAIN queue : j > m => queue[j] \notin {"sleep", "wake"}
          BY <4>2 DEF Queued, LastNap
        <5>2. more[m] = (IF asleep' THEN "sleep" ELSE "wake") /\ m \in DOMAIN more
          BY <1>1, <4>1, <5>1
        <5>3. \A j \in DOMAIN more : j > m => more[j] \notin {"sleep", "wake"}
          BY <1>2, <4>1, <5>1
        <5>4. QED
          BY <5>2, <5>3 DEF LastNap
      <4>4. \A j \in DOMAIN more : more[j] # "free"
        BY <1>2, <4>1, <4>2 DEF Queued
      <4>5. "lock" \in hasty'[n]
        BY <2>1, <2>2, <3>5 DEF Widgets!Due
      <4>6. Queued(n)'
        BY <4>2, <4>3, <4>4, <4>5 DEF Queued, LastNap
      <4>7. Stage(n)'
        BY <1>1, <1>3, <3>1, <3>5, <4>2, IdFacts DEF Stage, WidgetTypes
      <4>8. QED
        BY <3>1, <3>5, <4>6, <4>7 DEF Follows, Fresh, Counts
    <3>6. WidgetTypes'
      BY <1>1, <1>3, <1>4, <1>5, <2>1, <3>1, <3>2 DEF WidgetTypes
    <3>7. FlushesAgree'
      <4>1. ASSUME NEW n \in Widgets!Ids
            PROVE  widget'[n].stage = widget[n].stage /\ hasty[n] \subseteq hasty'[n]
        BY <2>1, <2>2, <3>1
      <4>2. QED
        BY <1>3, <3>2, <4>1, FlushesStay
    <3>8. QED
      BY <1>1, <1>3, <3>4, <3>5, <3>6, <3>7 DEF WidgetsInv
  <2>3. CASE widget[made].stage = "built"
    <3>1. /\ widget' \in [Widgets!Ids -> WidgetSet]
          /\ Does(widget[made], what, widget'[made])
          /\ Naps(made) /\ Hears(made)
      BY <1>2, <2>1, <2>3, BuiltTold
    <3>2. ASSUME "lock" \notin hasty'[made]
          PROVE  ~Opening(made) /\ "lock" \notin hasty[made]
      BY <2>1, <3>2 DEF Opening, Widgets!Due
    <3>3. widget'[made].stage = "built"
      BY <1>2, <2>3, <3>1 DEF Does
    <3>4. \A n \in Widgets!Ids :
           /\ widget[n].stage = "pending" => widget'[n].stage = "pending"
           /\ widget[n].stage \in {"built", "freed"} => widget'[n].stage \in {"built", "freed"}
           /\ hasty[n] \subseteq hasty'[n]
      BY <2>1, <2>3, <3>3
    <3>5. /\ FlushesAgree' /\ flushes' \in Seq(FlushSet)
          /\ \A q \in Widgets!Ids \ {made} : Opening(q)' => Opening(q)
          /\ shut => \E i \in DOMAIN flushes' : flushes'[i][2] = made
          /\ ~shut => flushes' = flushes
      <4>1. CASE shut
        <5>1. PICK n \in Widgets!Ids : n = made
          BY <2>1
        <5>2. /\ flushes' = Append(flushes, <<"open", n>>)
              /\ widget'[n].stage \in {"built", "freed"}
              /\ "lock" \notin hasty'[n] => ~Opening(n)
          BY <1>2, <2>1, <2>3, <3>2, <3>3, <4>1, <5>1
        <5>3. /\ FlushesAgree' /\ flushes' \in Seq(FlushSet) /\ Opening(n)'
              /\ \A q \in Widgets!Ids \ {n} : Opening(q)' => Opening(q)
          BY <1>3, <3>4, <5>2, FlushesGrow
        <5>4. QED
          BY <4>1, <5>1, <5>3 DEF Opening
      <4>2. CASE ~shut
        <5>1. flushes' = flushes
          BY <1>2, <2>1, <4>2
        <5>2. FlushesAgree'
          BY <1>3, <3>4, <5>1, FlushesStay
        <5>3. QED
          BY <1>3, <4>2, <5>1, <5>2 DEF Opening, WidgetTypes
      <4>3. QED
        BY <4>1, <4>2
    <3>6. ASSUME NEW n \in Widgets!Ids \ {made}
          PROVE  Follows(n)'
      BY <1>1, <1>7, <2>1, <3>5, <3>6, OthersStay
    <3>7. ASSUME NEW n \in Widgets!Ids, n = made
          PROVE  Follows(n)'
      <4>1. /\ widget'[n].refreshing = widget[n].refreshing /\ widget'[n].before = widget[n].before
            /\ Counts(widget'[n]) /\ widget'[n].frame = widget[n].frame
            /\ widget'[n].draws <=> widget'[n].frame
            /\ what = "open" => widget'[n].own = widget[n].own /\ widget'[n].sets = widget[n].sets
            /\ what = "shut" => /\ widget'[n].own = FALSE
                               /\ widget'[n].sets = IF widget[n].own THEN widget[n].sets - 1 ELSE widget[n].sets
        BY <1>2, <3>1, <3>7 DEF Does, Naps
      <4>2. Naps(n)'
        BY <1>1, <2>1, <3>1, <3>7, <4>1 DEF Naps
      <4>3. Hears(n)'
        <5> SUFFICES ASSUME "lock" \notin hasty'[n]
                     PROVE  /\ Opening(n)' => ~shut' /\ widget'[n].sets = 0 /\ ~widget'[n].own
                            /\ ~Opening(n)' => /\ widget'[n].own <=> ~shut'
                                              /\ widget'[n].sets = IF shut' THEN 0 ELSE 1
          BY <3>7 DEF Hears
        <5>1. ~Opening(n) /\ (widget[n].own <=> ~shut) /\ widget[n].sets = (IF shut THEN 0 ELSE 1)
          BY <3>1, <3>2, <3>7 DEF Hears
        <5>2. CASE shut
          <6>1. Opening(n)'
            BY <3>5, <3>7, <5>2 DEF Opening
          <6>2. ~shut' /\ widget'[n].sets = 0 /\ ~widget'[n].own
            BY <1>1, <1>2, <4>1, <5>1, <5>2
          <6>3. QED
            BY <6>1, <6>2
        <5>3. CASE ~shut
          <6>1. ~Opening(n)'
            BY <3>5, <5>1, <5>3 DEF Opening
          <6>2. shut'
            BY <1>1, <5>3, Zenon
          <6>3. widget'[n].own = FALSE /\ widget'[n].sets = 0
            BY <1>2, <4>1, <5>1, <5>3
          <6>4. QED
            BY <6>1, <6>2, <6>3
        <5>4. QED
          BY <5>2, <5>3
      <4>4. Stage(n)'
        BY <1>1, <1>3, <1>7, <3>3, <3>7, IdFacts DEF Stage, Current, WidgetTypes
      <4>5. QED
        BY <3>3, <3>7, <4>1, <4>2, <4>3, <4>4 DEF Follows, Counts
    <3>8. WidgetTypes'
      BY <1>1, <1>3, <1>4, <1>5, <2>1, <3>1, <3>5 DEF WidgetTypes
    <3>9. QED
      BY <1>1, <1>3, <3>5, <3>6, <3>7, <3>8 DEF WidgetsInv
  <2>4. QED
    BY <2>1, <2>2, <2>3
<1>8. QED
  BY <1>6, <1>7

-----------------------------------------------------------------------------
(* The handler of resize, and what it began.                               *)
LEMMA ResizeWidgetsHolds == ASSUME WidgetsInv, Widgets!Resize PROVE WidgetsInv'
<1>1. /\ moves < MaxMoves /\ moves' = moves + 1
      /\ widget' = [n \in Widgets!Ids |->
                      IF widget[n].resize THEN Widgets!Refresh(widget[n]) ELSE widget[n]]
      /\ UNCHANGED <<active, asleep, shut, made, flushes, hasty>>
  BY DEF Widgets!Resize, Widgets!Move
<1>2. /\ WidgetTypes /\ FlushesAgree /\ (active => made >= 1)
      /\ \A n \in Widgets!Ids : Follows(n)
  BY DEF WidgetsInv
<1>3. ASSUME NEW n \in Widgets!Ids
      PROVE  /\ widget[n] \in WidgetSet
             /\ ~widget[n].resize => widget'[n] = widget[n]
             /\ widget[n].resize => widget'[n] = Widgets!Refresh(widget[n])
  BY <1>1, <1>2 DEF WidgetTypes
<1>4. ASSUME NEW n \in Widgets!Ids, widget[n].resize
      PROVE  LET w == widget[n]
                 r == widget'[n]
             IN /\ r \in WidgetSet /\ r.refreshing = TRUE
                /\ r.stage = w.stage /\ r.own = w.own /\ r.sets = w.sets /\ r.counted = w.counted
                /\ w.before # "unset" => r.before = w.before /\ r.frame = w.frame /\ r.draws = w.draws
                /\ w.before = "unset" =>
                     /\ r.before = (IF w.frame THEN "moving" ELSE "still")
                     /\ r.frame = FALSE /\ r.draws = FALSE
  <2> DEFINE w == widget[n]
  <2>1. w \in WidgetSet /\ widget'[n] = Widgets!Refresh(w)
    BY <1>3, <1>4
  <2> HIDE DEF w
  <2>2. CASE w.before # "unset"
    <3>1. widget'[n] = [w EXCEPT !.refreshing = TRUE]
      BY <2>1, <2>2 DEF Widgets!Refresh
    <3>2. QED
      BY <2>1, <2>2, <3>1 DEF WidgetSet, w
  <2>3. CASE w.before = "unset"
    <3> DEFINE before == IF w.frame THEN "moving" ELSE "still"
    <3>1. before \in {"unset", "moving", "still"}
      OBVIOUS
    <3>2. widget'[n] = [Widgets!Animate(w, FALSE) EXCEPT !.refreshing = TRUE, !.before = before]
      BY <2>1, <2>3 DEF Widgets!Refresh
    <3> HIDE DEF before
    <3>3. LET r == widget'[n]
          IN /\ r \in WidgetSet /\ r.refreshing = TRUE
             /\ r.stage = w.stage /\ r.own = w.own /\ r.sets = w.sets /\ r.counted = w.counted
             /\ r.before = before /\ r.frame = FALSE /\ r.draws = FALSE
      BY <2>1, <3>1, <3>2 DEF WidgetSet, Widgets!Animate
    <3>4. QED
      BY <2>3, <3>3 DEF w, before
  <2>4. QED
    BY <2>2, <2>3
<1>5. ASSUME NEW n \in Widgets!Ids
      PROVE  /\ widget'[n] \in WidgetSet /\ widget'[n].stage = widget[n].stage
             /\ Opening(n)' <=> Opening(n)
             /\ Current(n)' <=> Current(n)
  BY <1>1, <1>3, <1>4 DEF Opening, Current
<1>6. ASSUME NEW n \in Widgets!Ids
      PROVE  Follows(n)'
  <2>1. CASE ~widget[n].resize
    <3>1. widget'[n] = widget[n]
      BY <1>3, <2>1
    <3>2. QED
      BY <1>1, <1>2, <1>5, <3>1 DEF Follows, Stage, Fresh, Queued, LastNap, Counts, Naps, Hears, Rests
  <2>2. CASE widget[n].resize
    <3>1. Follows(n)
      BY <1>2
    <3>2. widget[n].stage # "pending"
      BY <2>2, <3>1 DEF Follows, Fresh
    <3>3. Counts(widget'[n])
      <4> DEFINE w == widget[n]
                 r == widget'[n]
      <4>1. /\ r \in WidgetSet
            /\ r.own = w.own /\ r.sets = w.sets /\ r.counted = w.counted
            /\ w.before # "unset" => r.before = w.before /\ r.frame = w.frame /\ r.draws = w.draws
            /\ w.before = "unset" => /\ r.before = (IF w.frame THEN "moving" ELSE "still")
                                    /\ r.frame = FALSE /\ r.draws = FALSE
        BY <1>4, <2>2
      <4>2. Counts(w)
        BY <3>1 DEF Follows
      <4> HIDE DEF w, r
      <4>3. r.counted \in Int
        BY <4>1 DEF WidgetSet
      <4>4. r.own => r.sets >= 1
        BY <4>1, <4>2 DEF Counts
      <4>5. CASE w.before # "unset"
        BY <4>1, <4>2, <4>4, <4>5, <4>3 DEF Counts, r
      <4>6. CASE w.before = "unset"
        BY <4>1, <4>2, <4>4, <4>6, <4>3 DEF Counts, r
      <4>7. QED
        BY <4>5, <4>6
    <3>4. Stage(n)'
      <4>1. ~(n > made)
        BY <2>2, <3>1, RawFacts DEF Follows, Stage, Fresh
      <4>2. QED
        BY <1>1, <1>5, <3>1, <4>1 DEF Follows, Stage
    <3>5. ASSUME widget[n].stage = "built"
          PROVE  Naps(n)' /\ Hears(n)'
      <4>1. Naps(n) /\ Hears(n)
        BY <3>1, <3>5 DEF Follows
      <4>2. Naps(n)'
        BY <1>1, <1>4, <2>2, <4>1 DEF Naps
      <4>3. Hears(n)'
        BY <1>1, <1>4, <1>5, <2>2, <4>1 DEF Hears
      <4>4. QED
        BY <4>2, <4>3
    <3>6. ~Rests(n)
      BY <2>2 DEF Rests
    <3>7. QED
      BY <1>1, <1>5, <3>1, <3>2, <3>3, <3>4, <3>5, <3>6 DEF Follows, Counts
  <2>3. QED
    BY <2>1, <2>2
<1>7. WidgetTypes'
  <2>1. moves' \in 0 .. MaxMoves
    BY <1>1, <1>2, IdFacts DEF WidgetTypes
  <2>2. widget' \in [Widgets!Ids -> WidgetSet]
    BY <1>1, <1>5
  <2>3. QED
    BY <1>1, <1>2, <2>1, <2>2 DEF WidgetTypes
<1>8. FlushesAgree'
  <2>1. flushes' = flushes /\ hasty' = hasty
    BY <1>1
  <2>2. QED
    BY <1>2, <1>5, <2>1, FlushesStay
<1>9. QED
  BY <1>1, <1>2, <1>6, <1>7, <1>8 DEF WidgetsInv

LEMMA RefreshedHolds ==
  ASSUME WidgetsInv, NEW n \in Widgets!Ids, Widgets!Refreshed(n) PROVE WidgetsInv'
<1> DEFINE w == [widget[n] EXCEPT !.refreshing = FALSE]
           moves_ == w.before = "moving"
           r == IF active THEN [Widgets!Animate(w, moves_) EXCEPT !.before = "unset"] ELSE w
<1>1. /\ w # widget[n] /\ widget' = [widget EXCEPT ![n] = r]
      /\ UNCHANGED <<active, asleep, shut, made, flushes, moves, hasty>>
  BY DEF Widgets!Refreshed
<1>2. /\ WidgetTypes /\ FlushesAgree /\ (active => made >= 1)
      /\ \A q \in Widgets!Ids : Follows(q)
  BY DEF WidgetsInv
<1>3. widget \in [Widgets!Ids -> WidgetSet] /\ widget[n] \in WidgetSet /\ Follows(n)
  BY <1>2 DEF WidgetTypes
<1>4. /\ w \in WidgetSet /\ w.refreshing = FALSE /\ w.stage = widget[n].stage
      /\ w.own = widget[n].own /\ w.sets = widget[n].sets /\ w.resize = widget[n].resize
      /\ w.frame = widget[n].frame /\ w.draws = widget[n].draws
      /\ w.counted = widget[n].counted /\ w.before = widget[n].before
  BY <1>3 DEF WidgetSet
<1>5. widget[n].refreshing = TRUE
  <2>1. widget[n].refreshing \in BOOLEAN
    BY <1>3 DEF WidgetSet
  <2>2. widget[n].refreshing # FALSE
    <3> SUFFICES ASSUME widget[n].refreshing = FALSE PROVE FALSE
      OBVIOUS
    <3>1. w = widget[n]
      BY <1>3 DEF WidgetSet
    <3>2. QED
      BY <1>1, <3>1
  <2>3. QED
    BY <2>1, <2>2, Zenon
<1>6. /\ r \in WidgetSet /\ r.refreshing = FALSE /\ r.stage = w.stage
      /\ r.own = w.own /\ r.sets = w.sets /\ r.counted = w.counted
      /\ ~active => r.before = w.before /\ r.frame = w.frame /\ r.draws = w.draws
      /\ active => /\ r.before = "unset"
                   /\ r.frame <=> w.before = "moving"
                   /\ r.draws <=> r.frame
  <2> HIDE DEF w
  <2>1. CASE ~active
    BY <1>4, <2>1
  <2>2. CASE active
    <3>1. moves_ \in BOOLEAN
      BY Zenon
    <3>2. moves_ <=> w.before = "moving"
      OBVIOUS
    <3> HIDE DEF moves_
    <3>3. r = [Widgets!Animate(w, moves_) EXCEPT !.before = "unset"]
      BY <2>2
    <3> HIDE DEF r
    <3>4. /\ r \in WidgetSet /\ r.refreshing = w.refreshing /\ r.stage = w.stage
          /\ r.own = w.own /\ r.sets = w.sets /\ r.counted = w.counted
          /\ r.before = "unset" /\ r.frame = moves_ /\ r.draws = moves_
      BY <1>4, <3>1, <3>3 DEF WidgetSet, Widgets!Animate
    <3>5. QED
      BY <1>4, <2>2, <3>2, <3>4
  <2>3. QED
    BY <2>1, <2>2
<1> HIDE DEF w, r
<1>7. /\ widget' \in [Widgets!Ids -> WidgetSet] /\ widget'[n] = r
      /\ \A q \in Widgets!Ids \ {n} : widget'[q] = widget[q]
  BY <1>1, <1>3, <1>6
<1>8. ASSUME NEW q \in Widgets!Ids
      PROVE  (Opening(q)' <=> Opening(q)) /\ (Current(q)' <=> Current(q))
  BY <1>1 DEF Opening, Current
<1>9. WidgetTypes'
  BY <1>1, <1>2, <1>7 DEF WidgetTypes
<1>10. FlushesAgree'
  <2>1. ASSUME NEW q \in Widgets!Ids
        PROVE  widget'[q].stage = widget[q].stage /\ hasty[q] \subseteq hasty'[q]
    BY <1>1, <1>4, <1>6, <1>7
  <2>2. flushes' = flushes
    BY <1>1
  <2>3. QED
    BY <1>2, <2>1, <2>2, FlushesStay
<1>11. ASSUME NEW q \in Widgets!Ids, q # n
       PROVE  Follows(q)'
  <2>1. widget'[q] = widget[q] /\ Follows(q)
    BY <1>2, <1>7, <1>11
  <2>2. QED
    BY <1>1, <1>8, <2>1 DEF Follows, Stage, Fresh, Queued, LastNap, Counts, Naps, Hears, Rests
<1>12. Follows(n)'
  <2>1. widget[n].stage # "pending"
    BY <1>3, <1>5 DEF Follows, Fresh
  <2>2. ~(n > made)
    BY <1>3, <1>5, RawFacts DEF Follows, Stage, Fresh
  <2>3. Counts(r)
    <3>1. Counts(widget[n]) /\ r.counted \in Int
      BY <1>3, <1>6 DEF Follows, WidgetSet
    <3>2. r.own => r.sets >= 1
      BY <1>4, <1>6, <3>1 DEF Counts
    <3>3. CASE active
      BY <1>4, <1>6, <3>1, <3>2, <3>3 DEF Counts
    <3>4. CASE ~active
      BY <1>4, <1>6, <3>1, <3>2, <3>4 DEF Counts
    <3>5. QED
      BY <3>3, <3>4
  <2>4. Stage(n)'
    BY <1>1, <1>3, <1>4, <1>6, <1>7, <1>8, <2>2 DEF Follows, Stage
  <2>5. ASSUME widget[n].stage = "built"
        PROVE  Naps(n)' /\ Hears(n)'
    <3>1. Naps(n) /\ Hears(n) /\ active
      BY <1>3, <2>5 DEF Follows, Stage, Current
    <3>2. Naps(n)'
      BY <1>1, <1>4, <1>5, <1>6, <1>7, <3>1 DEF Naps
    <3>3. Hears(n)'
      BY <1>1, <1>4, <1>6, <1>7, <1>8, <3>1 DEF Hears
    <3>4. QED
      BY <3>2, <3>3
  <2>6. ~Rests(n)
    BY <1>5 DEF Rests
  <2>7. Counts(widget'[n])
    BY <1>7, <2>3
  <2>8. widget'[n].stage = widget[n].stage
    BY <1>4, <1>6, <1>7
  <2>9. QED
    BY <1>1, <1>3, <2>1, <2>4, <2>5, <2>6, <2>7, <2>8 DEF Follows, Counts
<1>13. QED
  BY <1>1, <1>2, <1>9, <1>10, <1>11, <1>12 DEF WidgetsInv

-----------------------------------------------------------------------------
(* The flushes. A widget is built with what was queued for it.             *)
LEMMA OpensFacts ==
  ASSUME NEW queue \in Seq(Whats)
  PROVE  /\ Widgets!Opens(queue) \in Nat
         /\ (\A j \in DOMAIN queue : queue[j] \notin {"shut", "open"}) => Widgets!Opens(queue) = 0
<1> DEFINE O == {i \in DOMAIN queue : queue[i] = "open"}
<1>1. Len(queue) \in Nat /\ DOMAIN queue = 1 .. Len(queue)
  OBVIOUS
<1>2. IsFiniteSet(DOMAIN queue)
  BY <1>1, FS_Interval
<1>3. IsFiniteSet(O)
  BY <1>2, FS_Subset
<1>4. Cardinality(O) \in Nat
  BY <1>3, FS_CardinalityType
<1>5. (\A j \in DOMAIN queue : queue[j] \notin {"shut", "open"}) => O = {}
  OBVIOUS
<1>6. Widgets!Opens(queue) = Cardinality(O)
  <2>1. \A S : Widgets!Cardinality(S) = Cardinality(S)
    BY DEF Widgets!Cardinality, Cardinality
  <2>2. QED
    BY <2>1 DEF Widgets!Opens
<1> HIDE DEF O
<1>7. QED
  BY <1>4, <1>5, <1>6, FS_EmptySet

(* The part of an unbuilt widget its first set of handlers changes.        *)
Bare(w) == IF shut THEN Widgets!FreeEvents(Widgets!InitEvents(w), TRUE) ELSE Widgets!InitEvents(w)

LEMMA BareFacts ==
  ASSUME NEW w \in WidgetSet, Fresh(w), shut \in BOOLEAN
  PROVE  LET r == [Bare(w) EXCEPT !.stage = "built", !.queue = <<>>]
         IN /\ r \in WidgetSet /\ Counts(r) /\ r.stage = "built" /\ r.queue = <<>>
            /\ r.draws = FALSE /\ r.frame = FALSE /\ r.refreshing = FALSE /\ r.before = "unset"
            /\ r.own <=> ~shut
            /\ r.sets = IF shut THEN 0 ELSE 1
<1> DEFINE e == Widgets!InitEvents(w)
           b == Bare(w)
           r == [b EXCEPT !.stage = "built", !.queue = <<>>]
<1>1. /\ e \in WidgetSet /\ e.sets = 1 /\ e.own = TRUE
      /\ e.draws = FALSE /\ e.frame = FALSE /\ e.counted = 0 /\ e.refreshing = FALSE
      /\ e.before = "unset"
  <2>1. e = Widgets!InitEvents(w)
    OBVIOUS
  <2> HIDE DEF e
  <2>2. /\ e \in WidgetSet /\ e.sets = w.sets + 1 /\ e.own = TRUE /\ e.frame = w.frame
        /\ e.draws = w.draws /\ e.counted = w.counted /\ e.refreshing = w.refreshing
        /\ e.before = w.before
    BY <2>1, InitEventsFacts
  <2>3. QED
    BY <2>2 DEF Fresh
<1> HIDE DEF e
<1>2. Counts(e)
  BY <1>1 DEF Counts
<1>3. /\ b \in WidgetSet /\ b.sets = (IF shut THEN 0 ELSE 1) /\ (b.own <=> ~shut)
      /\ b.draws = FALSE /\ b.frame = FALSE /\ b.counted = 0 /\ b.refreshing = FALSE
      /\ b.before = "unset"
  <2>1. CASE shut
    <3>1. b = Widgets!FreeEvents(e, TRUE)
      BY <2>1 DEF Bare, e
    <3>2. PICK f : f = Widgets!FreeEvents(e, TRUE)
      OBVIOUS
    <3>3. /\ f \in WidgetSet /\ f.sets = (IF e.own THEN e.sets - 1 ELSE e.sets) /\ f.own = FALSE
          /\ f.frame = e.frame /\ f.draws = e.draws
          /\ f.counted = e.counted /\ f.refreshing = e.refreshing /\ f.before = e.before
      <4>1. e \in WidgetSet /\ TRUE \in BOOLEAN
        BY <1>1
      <4>2. QED
        BY ONLY <1>2, <3>2, <4>1, FreeEventsFacts
    <3>4. f.sets = 0
      BY <1>1, <3>3
    <3>5. QED
      BY <1>1, <2>1, <3>1, <3>2, <3>3, <3>4
  <2>2. CASE ~shut
    <3>1. b = e
      BY <2>2 DEF Bare, e
    <3>2. QED
      BY <1>1, <2>2, <3>1
  <2>3. QED
    BY <2>1, <2>2
<1> HIDE DEF b
<1>4. <<>> \in Seq(Whats)
  OBVIOUS
<1>5. /\ r \in WidgetSet /\ r.stage = "built" /\ r.queue = <<>>
      /\ r.draws = b.draws /\ r.frame = b.frame /\ r.counted = b.counted
      /\ r.refreshing = b.refreshing /\ r.before = b.before
      /\ r.own = b.own /\ r.sets = b.sets
  BY <1>3, <1>4 DEF WidgetSet
<1> HIDE DEF r
<1>6. Counts(r)
  BY <1>3, <1>5 DEF Counts
<1>7. QED
  BY <1>3, <1>5, <1>6 DEF r, b

LEMMA NothingMore ==
  ASSUME NEW F, NEW s \in Seq(F), NEW e
  PROVE  s = s \o [i \in 1 .. 0 |-> e]
<1>1. [i \in 1 .. 0 |-> e] = <<>>
  OBVIOUS
<1>2. s \o <<>> = s
  OBVIOUS
<1>3. QED
  BY <1>1, <1>2

LEMMA FlushHolds == ASSUME WidgetsInv, Widgets!Flush PROVE WidgetsInv'
<1>1. PICK n, queue : n = flushes[1][2] /\ queue = widget[n].queue
  OBVIOUS
<1> DEFINE new == [Bare(widget[n]) EXCEPT !.stage = "built", !.queue = <<>>]
<1>2. /\ flushes # <<>>
      /\ UNCHANGED <<active, asleep, shut, made, moves, hasty>>
      /\ CASE flushes[1][1] = "build" /\ active ->
                /\ widget' = [widget EXCEPT ![n] = Widgets!Ran(new, queue)]
                /\ flushes' = Tail(flushes) \o [i \in 1 .. Widgets!Opens(queue) |-> <<"open", n>>]
           [] flushes[1][1] = "build" /\ ~active ->
                /\ widget' = [widget EXCEPT ![n] = [Widgets!Raw EXCEPT !.stage = "failed"]]
                /\ flushes' = Tail(flushes)
           [] flushes[1][1] = "open" ->
                /\ widget' = [widget EXCEPT ![n] = Widgets!InitEvents(widget[n])]
                /\ flushes' = Tail(flushes)
  BY <1>1 DEF Widgets!Flush, Bare
<1> HIDE DEF new
<1>3. /\ WidgetTypes /\ FlushesAgree /\ (active => made >= 1)
      /\ \A q \in Widgets!Ids : Follows(q)
  BY DEF WidgetsInv
<1>4. 1 \in DOMAIN flushes /\ flushes[1][1] \in {"build", "open"} /\ n \in Widgets!Ids
  <2>1. flushes \in Seq(FlushSet)
    BY <1>3 DEF WidgetTypes
  <2>2. 1 \in DOMAIN flushes
    BY <1>2, <2>1
  <2>3. QED
    BY <1>1, <1>3, <2>2, FlushFacts
<1>5. /\ flushes[1][1] = "build" => widget[n].stage = "pending"
      /\ flushes[1][1] = "open" => widget[n].stage \in {"built", "freed"}
  BY <1>1, <1>3, <1>4 DEF FlushesAgree
<1>6. widget \in [Widgets!Ids -> WidgetSet] /\ widget[n] \in WidgetSet /\ queue \in Seq(Whats)
  <2>1. widget \in [Widgets!Ids -> WidgetSet] /\ widget[n] \in WidgetSet
    BY <1>3, <1>4 DEF WidgetTypes
  <2>2. widget[n].queue \in Seq(Whats)
    BY <2>1 DEF WidgetSet
  <2>3. QED
    BY <1>1, <2>1, <2>2
<1>7. Tail(flushes) = Tail(flushes) \o [i \in 1 .. 0 |-> <<"open", n>>]
  <2>1. flushes \in Seq(FlushSet)
    BY <1>3 DEF WidgetTypes
  <2>2. Tail(flushes) \in Seq(FlushSet)
    BY <1>2, <2>1
  <2>3. QED
    BY ONLY <2>2, NothingMore, Zenon
<1>8. ASSUME NEW q \in Widgets!Ids, widget'[q] = widget[q], Opening(q)' <=> Opening(q)
      PROVE  Follows(q)'
  <2>1. Follows(q) /\ (Current(q)' <=> Current(q))
    BY <1>2, <1>3 DEF Current
  <2>2. QED
    BY <1>2, <1>8, <2>1 DEF Follows, Stage, Fresh, Queued, LastNap, Counts, Naps, Hears, Rests
<1>9. Follows(n) /\ (Current(n)' <=> Current(n)) /\ (n > made' <=> n > made)
      /\ n <= made /\ ~(n > made)
  <2>1. Follows(n)
    BY <1>3, <1>4
  <2>2. ~(n > made)
    BY <1>4, <1>5, <2>1, RawFacts DEF Follows, Stage
  <2>3. QED
    BY <1>2, <1>3, <1>4, <2>1, <2>2, IdFacts DEF Current, WidgetTypes
<1>10. CASE flushes[1][1] = "build" /\ active
  <2> DEFINE r == Widgets!Ran(new, queue)
             count == Widgets!Opens(queue)
  <2>1. /\ widget' = [widget EXCEPT ![n] = r]
        /\ flushes' = Tail(flushes) \o [i \in 1 .. count |-> <<"open", n>>]
    BY <1>2, <1>10
  <2>2. Fresh(widget[n]) /\ Queued(n)
    BY <1>5, <1>9, <1>10 DEF Follows
  <2>3. /\ new \in WidgetSet /\ Counts(new) /\ new.stage = "built" /\ new.queue = <<>>
        /\ new.draws = FALSE /\ new.frame = FALSE /\ new.refreshing = FALSE /\ new.before = "unset"
        /\ new.own <=> ~shut
        /\ new.sets = IF shut THEN 0 ELSE 1
    <3>1. shut \in BOOLEAN
      BY <1>3 DEF WidgetTypes
    <3>2. QED
      BY <1>6, <2>2, <3>1, BareFacts DEF new
  <2>4. After(queue, Len(queue), new, r)
    BY <1>6, <2>3, RanHolds
  <2>5. /\ count \in Nat
        /\ (\A j \in DOMAIN queue : queue[j] \notin {"shut", "open"}) => count = 0
    BY <1>6, OpensFacts
  <2> HIDE DEF r, count
  <2>6. DOMAIN queue = 1 .. Len(queue) /\ Len(queue) \in Nat
    BY <1>6
  <2>7. /\ r \in WidgetSet /\ Counts(r) /\ r.refreshing = FALSE /\ r.before = "unset"
        /\ r.stage \in {"built", "freed"}
        /\ (\E j \in DOMAIN queue : queue[j] = "free") => r.stage = "freed"
        /\ (\A j \in DOMAIN queue : queue[j] # "free") => r.stage = "built" /\ (r.draws <=> r.frame)
        /\ (\A j \in DOMAIN queue : queue[j] \notin {"shut", "open", "free"}) =>
             r.own = new.own /\ r.sets = new.sets
    BY <2>3, <2>4, <2>6 DEF After
  <2>8. \A what \in {"sleep", "wake"} : LastNap(queue, what) => (r.frame <=> what = "wake")
    <3> SUFFICES ASSUME NEW what \in {"sleep", "wake"}, NEW m \in DOMAIN queue, queue[m] = what,
                        \A j \in DOMAIN queue : j > m => queue[j] \notin {"sleep", "wake"}
                 PROVE  r.frame <=> what = "wake"
      BY DEF LastNap
    <3>1. m \in 1 .. Len(queue) /\ \A j \in m + 1 .. Len(queue) : queue[j] \notin {"sleep", "wake"}
      BY <2>6
    <3>2. QED
      BY <2>4, <3>1 DEF After
  <2>9. /\ widget'[n] = r /\ widget' \in [Widgets!Ids -> WidgetSet]
        /\ \A q \in Widgets!Ids \ {n} : widget'[q] = widget[q]
    BY <1>4, <1>6, <2>1, <2>7
  <2>10. "lock" \notin hasty[n] => count = 0
    BY <1>1, <2>2, <2>5 DEF Queued
  <2>11. /\ FlushesAgree' /\ flushes' \in Seq(FlushSet)
         /\ \A q \in Widgets!Ids \ {n} : Opening(q)' <=> Opening(q)
         /\ count = 0 => \A i \in DOMAIN flushes' : flushes'[i][2] # n
    <3>1. PICK some \in Nat : some = count
      BY <2>5
    <3>2. /\ widget'[n].stage \in {"built", "freed"} /\ hasty' = hasty
          /\ some > 0 => "lock" \in hasty[n]
      BY <1>2, <2>7, <2>9, <2>10, <3>1
    <3>3. flushes' = Tail(flushes) \o [i \in 1 .. some |-> <<"open", n>>]
      BY <2>1, <3>1
    <3>4. WidgetTypes /\ FlushesAgree /\ flushes # <<>> /\ n = flushes[1][2] /\ flushes[1][1] # "open"
      BY <1>1, <1>2, <1>3, <1>10
    <3>5. \A q \in Widgets!Ids \ {n} : widget'[q] = widget[q]
      BY <2>9
    <3>6. ShrinksBy(n, some)
      BY <2>5, <3>1, <3>2, <3>3, <3>4, <3>5 DEF ShrinksBy
    <3>7. /\ FlushesAgree' /\ flushes' \in Seq(FlushSet)
          /\ \A q \in Widgets!Ids \ {n} : Opening(q)' <=> Opening(q)
          /\ some = 0 => ~Opening(n)'
      <4>1. flushes[1][1] = "build"
        BY <1>10
      <4>2. QED
        BY ONLY <3>6, <4>1, FlushesShrink
    <3>8. QED
      BY <3>1, <3>7 DEF Opening
  <2>12. Follows(n)'
    <3>1. CASE Current(n)
      <4>1. /\ \A j \in DOMAIN queue : queue[j] # "free"
            /\ LastNap(queue, IF asleep THEN "sleep" ELSE "wake")
        BY <1>1, <2>2, <3>1 DEF Queued
      <4>2. r.stage = "built" /\ (r.draws <=> r.frame) /\ (r.frame <=> ~asleep)
        <5>1. r.frame <=> (IF asleep THEN "sleep" ELSE "wake") = "wake"
          BY <2>8, <4>1
        <5>2. QED
          BY <2>7, <4>1, <5>1
      <4>3. Naps(n)'
        BY <1>2, <2>7, <2>9, <4>2 DEF Naps
      <4>4. Hears(n)'
        <5> SUFFICES ASSUME "lock" \notin hasty[n]
                     PROVE  /\ \A i \in DOMAIN flushes' : flushes'[i][2] # n
                            /\ r.own <=> ~shut
                            /\ r.sets = IF shut THEN 0 ELSE 1
          BY <1>2, <2>9 DEF Hears, Opening
        <5>1. \A j \in DOMAIN queue : queue[j] \notin {"shut", "open", "free"}
          BY <1>1, <2>2, <4>1 DEF Queued
        <5>2. QED
          BY <2>3, <2>7, <2>10, <2>11, <5>1
      <4>5. Stage(n)'
        BY <1>2, <1>9, <2>9, <3>1, <4>2 DEF Stage
      <4>6. QED
        BY <2>7, <2>9, <4>2, <4>3, <4>4, <4>5 DEF Follows, Counts
    <3>2. CASE ~Current(n)
      <4>1. r.stage = "freed" /\ "free" \in hasty[n]
        BY <1>1, <2>2, <2>7, <3>2 DEF Queued
      <4>2. Stage(n)'
        BY <1>2, <1>9, <2>9, <3>2, <4>1 DEF Stage
      <4>3. QED
        BY <1>2, <2>7, <2>9, <4>1, <4>2 DEF Follows, Counts
    <3>3. QED
      BY <3>1, <3>2
  <2>13. WidgetTypes'
    BY <1>2, <1>3, <2>9, <2>11 DEF WidgetTypes
  <2>14. QED
    BY <1>2, <1>3, <1>8, <2>9, <2>11, <2>12, <2>13 DEF WidgetsInv
<1>11. CASE flushes[1][1] = "build" /\ ~active
  <2> DEFINE r == [Widgets!Raw EXCEPT !.stage = "failed"]
  <2>1. widget' = [widget EXCEPT ![n] = r] /\ flushes' = Tail(flushes)
    BY <1>2, <1>11
  <2>2. r \in WidgetSet /\ r.stage = "failed" /\ Fresh(r)
    BY RawFacts DEF WidgetSet, Fresh
  <2> HIDE DEF r
  <2>3. /\ widget'[n] = r /\ widget' \in [Widgets!Ids -> WidgetSet]
        /\ \A q \in Widgets!Ids \ {n} : widget'[q] = widget[q]
    BY <1>4, <1>6, <2>1, <2>2
  <2>4. /\ FlushesAgree' /\ flushes' \in Seq(FlushSet)
        /\ \A q \in Widgets!Ids \ {n} : Opening(q)' <=> Opening(q)
    <3>1. flushes' = Tail(flushes) \o [i \in 1 .. 0 |-> <<"open", n>>]
      BY <1>7, <2>1
    <3>2. hasty' = hasty /\ flushes[1][1] # "open" /\ 0 \in Nat /\ ~(0 > 0)
      BY <1>2, <1>11
    <3>3. ShrinksBy(n, 0)
      BY <1>1, <1>2, <1>3, <2>3, <3>1, <3>2 DEF ShrinksBy
    <3>4. QED
      BY ONLY <3>3, FlushesShrink
  <2>5. Follows(n)'
    <3>1. Stage(n)'
      BY <1>2, <1>9, <1>11, <2>2, <2>3 DEF Stage, Current
    <3>2. Counts(r)
      BY <2>2 DEF Fresh, Counts
    <3>3. QED
      BY <2>2, <2>3, <3>1, <3>2 DEF Follows, Counts
  <2>6. WidgetTypes'
    BY <1>2, <1>3, <2>3, <2>4 DEF WidgetTypes
  <2>7. QED
    BY <1>2, <1>3, <1>8, <2>3, <2>4, <2>5, <2>6 DEF WidgetsInv
<1>12. CASE flushes[1][1] = "open"
  <2> DEFINE w == widget[n]
             r == Widgets!InitEvents(w)
  <2>1. widget' = [widget EXCEPT ![n] = r] /\ flushes' = Tail(flushes)
    BY <1>2, <1>12
  <2>2. /\ r \in WidgetSet
        /\ r.sets = w.sets + 1 /\ r.own = TRUE
        /\ r.stage = w.stage /\ r.frame = w.frame /\ r.draws = w.draws
        /\ r.counted = w.counted /\ r.refreshing = w.refreshing /\ r.before = w.before
    <3>1. PICK e : e = r
      OBVIOUS
    <3>2. e = Widgets!InitEvents(widget[n]) /\ widget[n] \in WidgetSet
      BY <1>6, <3>1
    <3> HIDE DEF r
    <3>3. /\ e \in WidgetSet
          /\ e.sets = widget[n].sets + 1 /\ e.own = TRUE
          /\ e.stage = widget[n].stage /\ e.frame = widget[n].frame /\ e.draws = widget[n].draws
          /\ e.counted = widget[n].counted /\ e.refreshing = widget[n].refreshing
          /\ e.before = widget[n].before
      BY ONLY <3>2, InitEventsFacts
    <3>4. QED
      BY <3>1, <3>3
  <2>3. w.sets \in Nat /\ w.stage \in {"built", "freed"} /\ Counts(w)
    BY <1>5, <1>6, <1>9, <1>12 DEF WidgetSet, Follows
  <2> HIDE DEF r
  <2>4. /\ widget'[n] = r /\ widget' \in [Widgets!Ids -> WidgetSet]
        /\ \A q \in Widgets!Ids \ {n} : widget'[q] = widget[q]
    BY <1>4, <1>6, <2>1, <2>2
  <2>5. /\ FlushesAgree' /\ flushes' \in Seq(FlushSet)
        /\ \A q \in Widgets!Ids \ {n} : Opening(q)' <=> Opening(q)
        /\ "lock" \notin hasty[n] => ~Opening(n)'
    <3>1. flushes' = Tail(flushes) \o [i \in 1 .. 0 |-> <<"open", n>>]
      BY <1>7, <2>1
    <3>2. /\ hasty' = hasty /\ 0 \in Nat /\ ~(0 > 0)
          /\ widget'[n].stage \in {"built", "freed"}
      BY <1>2, <2>2, <2>3, <2>4
    <3>3. WidgetTypes /\ FlushesAgree /\ flushes # <<>> /\ n = flushes[1][2]
      BY <1>1, <1>2, <1>3
    <3>4. \A q \in Widgets!Ids \ {n} : widget'[q] = widget[q]
      BY <2>4
    <3>5. ShrinksBy(n, 0)
      BY <1>12, <3>1, <3>2, <3>3, <3>4 DEF ShrinksBy
    <3>6. QED
      BY ONLY <1>12, <3>5, FlushesShrink
  <2>6. Opening(n)
    BY <1>1, <1>4 DEF Opening
  <2>7. Follows(n)'
    <3>1. Stage(n)'
      BY <1>2, <1>9, <2>2, <2>4 DEF Stage, Follows
    <3>2. Counts(r)
      BY <2>2, <2>3 DEF Counts
    <3>3. ASSUME w.stage = "built"
          PROVE  Naps(n)' /\ Hears(n)'
      <4>1. Naps(n) /\ Hears(n)
        BY <1>9, <3>3 DEF Follows
      <4>2. Naps(n)'
        BY <1>2, <2>2, <2>4, <4>1 DEF Naps
      <4>3. Hears(n)'
        BY <1>2, <2>2, <2>4, <2>5, <2>6, <4>1 DEF Hears
      <4>4. QED
        BY <4>2, <4>3
    <3>4. w.stage = "freed" => hasty[n] \intersect {"free", "lock"} # {}
      BY <1>9, <2>6 DEF Follows, Rests
    <3>5. QED
      BY <1>2, <2>2, <2>3, <2>4, <3>1, <3>2, <3>3, <3>4 DEF Follows, Counts
  <2>8. WidgetTypes'
    BY <1>2, <1>3, <2>4, <2>5 DEF WidgetTypes
  <2>9. QED
    BY <1>2, <1>3, <1>8, <2>4, <2>5, <2>7, <2>8 DEF WidgetsInv
<1>13. QED
  BY <1>4, <1>10, <1>11, <1>12

-----------------------------------------------------------------------------
LEMMA WidgetsStepHolds == WidgetsInv /\ [Widgets!Next]_(Widgets!wvars) => WidgetsInv'
<1> SUFFICES ASSUME WidgetsInv, [Widgets!Next]_(Widgets!wvars) PROVE WidgetsInv'
  OBVIOUS
<1>1. CASE Widgets!Next
  BY <1>1, LeaveHolds, ShutHolds, FlushHolds, ResizeWidgetsHolds, EnterHolds, SuspendHolds,
     RefreshedHolds DEF Widgets!Next
<1>2. CASE UNCHANGED Widgets!wvars
  <2>1. UNCHANGED <<active, asleep, shut, made, widget, flushes, moves, hasty>>
    BY <1>2 DEF Widgets!wvars
  <2>2. WidgetTypes' /\ FlushesAgree' /\ (active' => made' >= 1)
    BY <2>1 DEF WidgetsInv, WidgetTypes, FlushesAgree
  <2>3. ASSUME NEW n \in Widgets!Ids
        PROVE  Follows(n)'
    <3>1. Follows(n)
      BY DEF WidgetsInv
    <3>2. QED
      BY <2>1, <3>1 DEF Follows, Stage, Current, Fresh, Queued, LastNap, Counts, Naps, Hears, Rests,
                        Opening
  <2>4. QED
    BY <2>2, <2>3 DEF WidgetsInv
<1>3. QED
  BY <1>1, <1>2

(* The invariant has what the runs check.                                  *)
LEMMA WidgetsAreRight == WidgetsInv => WidgetsFollow
<1> SUFFICES ASSUME WidgetsInv PROVE WidgetsFollow
  OBVIOUS
<1>1. Widgets!TypeOK
  BY DEF WidgetsInv, WidgetTypes, Widgets!TypeOK, WidgetSet, Whats, FlushSet
<1>2. \A n \in Widgets!Ids : Follows(n)
  BY DEF WidgetsInv
<1>3. Widgets!FreedIsStill
  BY <1>2 DEF Widgets!FreedIsStill, Follows, Rests
<1>4. Widgets!AwakeMoves
  BY <1>2 DEF Widgets!AwakeMoves, Widgets!Settled, Follows, Naps
<1>5. Widgets!HeardOnce
  BY <1>2 DEF Widgets!HeardOnce, Widgets!Settled, Widgets!Due, Follows, Hears, Opening
<1>6. Widgets!MovingIsCounted
  <2>1. ASSUME NEW n \in Widgets!Ids
        PROVE  widget[n].counted >= 0 /\ (widget[n].draws => widget[n].counted > 0)
    <3>1. Counts(widget[n]) /\ widget[n].counted \in Int
      BY <1>2 DEF Follows, WidgetsInv, WidgetTypes, WidgetSet
    <3>2. QED
      BY <3>1 DEF Counts
  <2>2. QED
    BY <2>1 DEF Widgets!MovingIsCounted
<1>7. QED
  BY <1>1, <1>3, <1>4, <1>5, <1>6 DEF WidgetsFollow, Widgets!WidgetsFollow

(* WidgetsFollow, for any number of activations and of moves of the page,  *)
(* of locks and of resizes, in any order with the frames they wait for.    *)
THEOREM WidgetsAlwaysFollow == Widgets!Spec => []WidgetsFollow
<1>1. Widgets!Init => WidgetsInv
  BY WidgetsInitHolds
<1>2. WidgetsInv => WidgetsFollow
  BY WidgetsAreRight
<1>3. QED
  BY <1>1, <1>2, WidgetsStepHolds, PTL DEF Widgets!Spec
=============================================================================
