-------------------------------- MODULE Widgets --------------------------------
(***************************************************************************)
(* The life of a canvas widget (a shield, a power pad, a limiter): it is   *)
(* built some frames after its page is activated, moves while the page is  *)
(* awake, takes events while controls are unlocked, is laid out again when *)
(* the window is resized, and is freed with the page.  One control with    *)
(* one view on one page; the n-th activation makes the n-th widget, and    *)
(* all of them draw on the canvas of that view.  What is queued on the     *)
(* promise of a widget waits until it is built.                            *)
(***************************************************************************)
EXTENDS Integers, Sequences, FiniteSets

CONSTANTS MaxWidgets, MaxMoves

WidgetsAssumption == MaxWidgets \in Nat /\ MaxMoves \in Nat

VARIABLES
  active,     \* the page is in the swiper, its controls have a size; page.active
  asleep,     \* page.suspend
  shut,       \* control.disabled
  made,       \* how many activations so far
  widget,     \* per widget, see Raw
  flushes,    \* requestDocumentFlushTime callbacks that nobody cancels, in order
  moves,      \* steps of the page and the user so far
  hasty       \* history, per widget: "lock" changed while a flush was due,
              \* "nap": slept or woke during a refresh, "free": freed with
              \* a flush or a refresh still due

wvars == <<active, asleep, shut, made, widget, flushes, moves, hasty>>

Ids == 1..MaxWidgets

(* A widget before it is built: "frame" says that nextAnimationFrameId is  *)
(* set and "draws" that such a frame will really come, "counted" is what   *)
(* it adds to widgetsAnimating, "before" is beforeRefreshAnimateState,     *)
(* "sets" counts the sets of handlers on the canvas and "own" says that    *)
(* this.events is one of them.                                             *)
Raw == [stage |-> "none", queue |-> <<>>, frame |-> FALSE, draws |-> FALSE, counted |-> 0,
        refreshing |-> FALSE, before |-> "unset", sets |-> 0, own |-> FALSE, resize |-> FALSE]

Init ==
  /\ active = FALSE /\ asleep = FALSE
  /\ shut \in BOOLEAN
  /\ made = 0
  /\ widget = [w \in Ids |-> Raw]
  /\ flushes = <<>>
  /\ moves = 0
  /\ hasty = [w \in Ids |-> {}]

-----------------------------------------------------------------------------
(* What the methods of a widget do to it.                                  *)

Animate(w, on) == [w EXCEPT !.frame = on, !.draws = on]

InitEvents(w) == [w EXCEPT !.sets = @ + 1, !.own = TRUE, !.resize = TRUE]

FreeEvents(w, keepResize) ==
  [w EXCEPT !.sets = IF w.own THEN @ - 1 ELSE @, !.own = FALSE, !.resize = @ /\ keepResize]

(* The frame is cancelled, its number stays; a refresh goes on.            *)
Free(w) == [FreeEvents(w, FALSE) EXCEPT !.stage = "freed", !.draws = FALSE]

(* widgetSuspend and widgetAnimate: a still widget is not counted again.   *)
WidgetSuspend(w) == IF w.frame THEN [Animate(w, FALSE) EXCEPT !.counted = @ - 1] ELSE w

WidgetAnimate(w) == IF w.frame THEN w ELSE [Animate(w, TRUE) EXCEPT !.counted = @ + 1]

(* What is queued with pendingWidget.then(...); the handlers of "open"     *)
(* come with a flush of their own.                                         *)
ThenOn(w, what) ==
  CASE what = "sleep" -> WidgetSuspend(w)
    [] what = "wake"  -> WidgetAnimate(w)
    [] what = "shut"  -> FreeEvents(w, TRUE)
    [] what = "open"  -> w
    [] what = "free"  -> Free(w)

(* Settled promises run what is given to then() at once, others when they  *)
(* are resolved.                                                           *)
Give(w, what) ==
  CASE w.stage = "pending" -> [w EXCEPT !.queue = Append(@, what)]
    [] w.stage \in {"built", "freed"} -> ThenOn(w, what)
    [] OTHER -> w                                 \* its constructor threw

FlushesFor(n, w, what) ==
  IF what = "open" /\ w.stage \in {"built", "freed"} THEN <<<<"open", n>>>> ELSE <<>>

-----------------------------------------------------------------------------
(* The page and the locker act on the last widget while the page has it.   *)

Move == moves < MaxMoves /\ moves' = moves + 1

Due(n) == widget[n].stage = "pending" \/ (\E i \in DOMAIN flushes : flushes[i][2] = n)

Tell(what) ==
  /\ widget' = [widget EXCEPT ![made] = Give(@, what)]
  /\ flushes' = flushes \o FlushesFor(made, widget[made], what)
  /\ hasty' = [hasty EXCEPT ![made] = @ \union
       CASE what \in {"shut", "open"} /\ Due(made) -> {"lock"}
         [] what \in {"sleep", "wake"} /\ widget[made].refreshing -> {"nap"}
         [] what = "free" /\ (Due(made) \/ widget[made].refreshing) -> {"free"}
         [] OTHER -> {}]

TellIfActive(what) ==
  IF active THEN Tell(what) ELSE UNCHANGED <<widget, flushes, hasty>>

(* resolve(): buildScreen puts the page into the swiper, asleep,           *)
(* transferScreen activates it and transferPage may wake it; activateView  *)
(* promises a widget.                                                      *)
Enter(woken) ==
  /\ Move /\ ~active /\ made < MaxWidgets
  /\ active' = TRUE /\ asleep' = ~woken /\ made' = made + 1
  /\ widget' = [widget EXCEPT ![made + 1].stage = "pending",
                              ![made + 1].queue = <<"sleep">> \o (IF woken THEN <<"wake">> ELSE <<>>)]
  /\ flushes' = Append(flushes, <<"build", made + 1>>)
  /\ UNCHANGED <<shut, hasty>>

(* resolve() for another screen: the page leaves the swiper and            *)
(* deactivateView has the widget freed as soon as it is built.             *)
Leave ==
  /\ Move /\ active
  /\ active' = FALSE
  /\ Tell("free")
  /\ UNCHANGED <<asleep, shut, made>>

(* The setter of page.suspend: transferPage wakes a page of the screen,    *)
(* and later puts the page before to sleep, wherever that is by then.      *)
Suspend(sleep) ==
  /\ Move /\ asleep # sleep /\ (sleep \/ active)
  /\ asleep' = sleep
  /\ TellIfActive(IF sleep THEN "sleep" ELSE "wake")
  /\ UNCHANGED <<active, shut, made>>

(* Control.disable and enable, from the locker's first and last reason.    *)
Shut ==
  /\ Move
  /\ shut' = ~shut
  /\ TellIfActive(IF shut THEN "open" ELSE "shut")
  /\ UNCHANGED <<active, asleep, made>>

-----------------------------------------------------------------------------
(* The flush: the widget is built with the lock of this moment, and what   *)
(* was queued runs in order. A canvas without a size throws, and then the  *)
(* promise stays as it is.                                                 *)
Opens(queue) == Cardinality({i \in DOMAIN queue : queue[i] = "open"})

Ran(w, queue) ==
  LET After[k \in 0 .. Len(queue)] == IF k = 0 THEN w ELSE ThenOn(After[k - 1], queue[k])
  IN  After[Len(queue)]

Flush ==
  LET what == flushes[1][1]
      n    == flushes[1][2]
      bare == IF shut THEN FreeEvents(InitEvents(widget[n]), TRUE) ELSE InitEvents(widget[n])
      new  == [bare EXCEPT !.stage = "built", !.queue = <<>>]
  IN /\ flushes # <<>>
     /\ CASE what = "build" /\ active ->
               /\ widget' = [widget EXCEPT ![n] = Ran(new, widget[n].queue)]
               /\ flushes' = Tail(flushes) \o [i \in 1..Opens(widget[n].queue) |-> <<"open", n>>]
          [] what = "build" /\ ~active ->
               /\ widget' = [widget EXCEPT ![n] = [Raw EXCEPT !.stage = "failed"]]
               /\ flushes' = Tail(flushes)
          [] what = "open" ->
               /\ widget' = [widget EXCEPT ![n] = InitEvents(@)]
               /\ flushes' = Tail(flushes)
     /\ UNCHANGED <<active, asleep, shut, made, moves, hasty>>

(* The handler of resize: the widget stops, what an earlier one still had  *)
(* to do is cancelled. Mutant: each refresh asks again whether the widget  *)
(* moves.                                                                  *)
RefreshAnew(w) ==
  [Animate(w, FALSE) EXCEPT !.refreshing = TRUE, !.before = IF w.frame THEN "moving" ELSE "still"]

Refresh(w) ==
  IF w.before # "unset" THEN [w EXCEPT !.refreshing = TRUE]
  ELSE [Animate(w, FALSE) EXCEPT !.refreshing = TRUE,
                                 !.before = IF w.frame THEN "moving" ELSE "still"]

Resize ==
  /\ Move
  /\ \E n \in Ids : widget[n].resize
  /\ widget' = [n \in Ids |-> IF widget[n].resize THEN Refresh(widget[n]) ELSE widget[n]]
  /\ UNCHANGED <<active, asleep, shut, made, flushes, hasty>>

(* Four frames later: the parts are made anew and the widget moves as      *)
(* before, unless the canvas has no size and buildRenderCtx throws.        *)
Refreshed(n) ==
  LET w == [widget[n] EXCEPT !.refreshing = FALSE]
  IN /\ w # widget[n]
     /\ widget' = [widget EXCEPT ![n] =
          IF active THEN [Animate(w, w.before = "moving") EXCEPT !.before = "unset"] ELSE w]
     /\ UNCHANGED <<active, asleep, shut, made, flushes, moves, hasty>>

Next ==
  \/ Leave \/ Shut \/ Flush \/ Resize
  \/ \E b \in BOOLEAN : Enter(b) \/ Suspend(b)
  \/ \E n \in Ids : Refreshed(n)

Spec == Init /\ [][Next]_wvars

-----------------------------------------------------------------------------
TypeOK ==
  /\ active \in BOOLEAN /\ asleep \in BOOLEAN /\ shut \in BOOLEAN
  /\ made \in 0..MaxWidgets /\ moves \in 0..MaxMoves
  /\ widget \in [Ids -> [stage : {"none", "pending", "failed", "built", "freed"},
       queue : Seq({"sleep", "wake", "shut", "open", "free"}),
       frame : BOOLEAN, draws : BOOLEAN, counted : Int, refreshing : BOOLEAN,
       before : {"unset", "moving", "still"}, sets : Nat, own : BOOLEAN, resize : BOOLEAN]]
  /\ flushes \in Seq({"build", "open"} \X Ids)
  /\ hasty \in [Ids -> SUBSET {"lock", "nap", "free"}]

(* A widget that was freed neither draws nor takes events on the canvas    *)
(* its page will use again, unless it was freed in the frames of a flush   *)
(* or a refresh (which free() does not cancel) or has lost a set of        *)
(* handlers.                                                               *)
FreedIsStill ==
  \A n \in Ids : (widget[n].stage = "freed" /\ hasty[n] \intersect {"free", "lock"} = {}) =>
    ~widget[n].draws /\ ~widget[n].resize /\ widget[n].sets = 0

Settled(n) == widget[n].stage = "built" /\ ~widget[n].refreshing /\ ~Due(n)

(* When nothing is due, the widget of an active page moves just while the  *)
(* page is awake, unless the page slept or woke during a refresh.          *)
AwakeMoves ==
  \A n \in Ids : (Settled(n) /\ "nap" \notin hasty[n]) => (widget[n].draws <=> ~asleep)

(* ... and takes events just while controls are unlocked, once, unless     *)
(* they were locked or unlocked while a flush was due.                     *)
HeardOnce ==
  \A n \in Ids : (Settled(n) /\ "lock" \notin hasty[n]) =>
    widget[n].sets = (IF shut THEN 0 ELSE 1)

(* Whatever is refreshed, suspended and freed: while a widget moves,       *)
(* widgetsAnimating is positive, or else resync() would not show it what   *)
(* others do to the joystick.                                              *)
MovingIsCounted ==
  \A n \in Ids : widget[n].counted >= 0 /\ (widget[n].draws => widget[n].counted > 0)

(* A widget does what its page and its controls do, from its building to   *)
(* its end, however frames, locks and resizes fall in between.             *)
WidgetsFollow ==
  TypeOK /\ FreedIsStill /\ AwakeMoves /\ HeardOnce /\ MovingIsCounted
=============================================================================
