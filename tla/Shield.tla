--------------------------------- MODULE Shield ---------------------------------
(***************************************************************************)
(* The shield (ShieldWidget and ShieldControlWidget): a tap on one of its  *)
(* parts chooses it; a finger that rests on the space between them for     *)
(* 500 ms begins a selection that ends where the finger is lifted.  What   *)
(* others choose is shown silently.  Parts may be lifted anywhere, so that *)
(* each event names the part it lies on, or None.                          *)
(***************************************************************************)
EXTENDS Naturals, FiniteSets

CONSTANTS
  Thumbs,     \* identifiers of touches
  Vectors,    \* the parts that formula (count) may show
  Reserved,   \* ShieldWidget.vectors.RESERVED, the part that no key belongs to
  None,
  MaxInputs

VARIABLES
  open,       \* the handlers are on the canvas: controls are not locked
  touching,   \* thumbs on the screen that came down on the canvas
  resting,    \* beginSelectionTransition
  timer,      \* timeouts.beginSelection has yet to fire
  selecting,  \* beginSelection
  first,      \* history: the thumb that rested last
  pressed,    \* this.mousedown, unless that part was made anew
  complete,   \* completeTransition
  chain,      \* a transition of a part will reset it
  last,       \* the part chosen last, here or by others
  inputs,
  broken,     \* history: a lock, or a choice of the reserved part, left a
              \* selection or a timer behind
  renewed     \* history: the parts were made anew while a choice was shown

shieldVars == <<open, touching, resting, timer, selecting, first, pressed, complete, chain,
                last, inputs, broken, renewed>>

Init ==
  /\ open = TRUE
  /\ touching = {}
  /\ resting = FALSE /\ timer = FALSE /\ selecting = FALSE
  /\ first = None /\ pressed = None
  /\ complete = FALSE /\ chain = FALSE
  /\ last = None
  /\ inputs = 0
  /\ broken = FALSE /\ renewed = FALSE

Input == inputs < MaxInputs /\ inputs' = inputs + 1

-----------------------------------------------------------------------------
(* chosed(): the parts show the choice; the end of their transitions says  *)
(* that it is complete, but the reserved one has none to wait for.         *)
Shown(x) ==
  /\ last' = x
  /\ complete' = (x # Reserved)
  /\ (IF x = Reserved THEN UNCHANGED chain ELSE chain' = TRUE)

(* ... and the control presses the key of the vector. There is none for    *)
(* the reserved one: activate throws, so that what follows chosed() in the *)
(* handler is not done.                                                    *)
Unchosen == UNCHANGED <<last, complete, chain>>

(* clearTimeout. Mutant: the end of a touch lets the timer run.            *)
StoppedNever == resting' = FALSE /\ UNCHANGED timer
Stopped == resting' = FALSE /\ timer' = FALSE

-----------------------------------------------------------------------------
(* touchstart and mousedown.                                               *)
Start(x) ==
  IF selecting THEN UNCHANGED <<resting, timer, pressed>>
  ELSE IF x # None THEN pressed' = x /\ UNCHANGED <<resting, timer>>
  ELSE resting' = TRUE /\ timer' = TRUE /\ UNCHANGED pressed

Down(f, x) ==
  /\ Input /\ f \notin touching
  /\ touching' = touching \union {f}
  /\ (IF open THEN Start(x) ELSE UNCHANGED <<resting, timer, pressed>>)
  /\ first' = IF open /\ ~selecting /\ x = None THEN f ELSE first
  /\ Unchosen
  /\ UNCHANGED <<open, selecting, broken, renewed>>

Timeout ==
  /\ timer
  /\ timer' = FALSE /\ selecting' = TRUE /\ resting' = FALSE
  /\ UNCHANGED <<open, touching, first, pressed, complete, chain, last, inputs, broken, renewed>>

(* touchend and mouseup: the rest was too short; the selection ends, with  *)
(* the part that is near, if any; or the part was tapped.                  *)
EndOfRest == resting /\ Stopped /\ Unchosen /\ UNCHANGED <<selecting, broken>>

EndOfSelection(x) ==
  /\ ~resting /\ selecting
  /\ (IF x = None THEN Unchosen ELSE Shown(x))
  /\ selecting' = (x = Reserved)
  /\ broken' = (broken \/ x = Reserved)
  /\ UNCHANGED <<resting, timer>>

EndOfTap(x) ==
  /\ ~resting /\ ~selecting
  /\ (IF x # None /\ x = pressed THEN Shown(x) ELSE Unchosen)
  /\ UNCHANGED <<resting, timer, selecting, broken>>

Up(f, x) ==
  /\ Input /\ f \in touching
  /\ touching' = touching \ {f}
  /\ IF open THEN EndOfRest \/ EndOfSelection(x) \/ EndOfTap(x)
     ELSE Unchosen /\ UNCHANGED <<resting, timer, selecting, broken>>
  /\ UNCHANGED <<open, first, pressed, renewed>>

(* touchcancel, and mouseleave for a mouse: all is given up, even a timer  *)
(* that an earlier touch has left.                                         *)
Cancel(f) ==
  /\ Input /\ f \in touching
  /\ touching' = touching \ {f}
  /\ IF open
     THEN /\ timer' = (timer /\ ~resting)
          /\ resting' = FALSE /\ selecting' = FALSE
     ELSE UNCHANGED <<resting, timer, selecting>>
  /\ Unchosen
  /\ UNCHANGED <<open, first, pressed, broken, renewed>>

(* touchmove: a thumb that leaves its place does not rest, unless a choice *)
(* is being shown. freeEvents knows this handler as "mousemove" and leaves *)
(* it where it is.                                                         *)
Stir(f) ==
  /\ Input /\ f \in touching
  /\ ~complete /\ ~selecting /\ resting
  /\ Stopped /\ Unchosen
  /\ UNCHANGED <<open, touching, selecting, first, pressed, broken, renewed>>

-----------------------------------------------------------------------------
(* freeEvents and initEvents; the timer goes on.                           *)
Lock ==
  /\ Input
  /\ open' = ~open
  /\ broken' = (broken \/ timer \/ selecting)
  /\ UNCHANGED <<touching, resting, timer, selecting, first, pressed, complete, chain, last,
                 renewed>>

(* applyState: silent, and not during a selection.                         *)
Apply(x) ==
  /\ Input
  /\ (IF selecting THEN Unchosen ELSE Shown(x))
  /\ UNCHANGED <<open, touching, resting, timer, selecting, first, pressed, broken, renewed>>

(* The end of the transitions.                                             *)
Completed ==
  /\ chain
  /\ chain' = FALSE /\ complete' = FALSE
  /\ UNCHANGED <<open, touching, resting, timer, selecting, first, pressed, last,
                 inputs, broken, renewed>>

(* refresh(), when the window or an attribute changes: new parts, and the  *)
(* transitions of the old ones are never finished.                         *)
Refresh ==
  /\ Input
  /\ pressed' = None /\ chain' = FALSE
  /\ renewed' = (renewed \/ chain)
  /\ UNCHANGED <<open, touching, resting, timer, selecting, first, complete, last, broken>>

Next ==
  \/ Timeout \/ Lock \/ Completed \/ Refresh
  \/ \E f \in Thumbs : Cancel(f) \/ Stir(f)
                       \/ (\E x \in Vectors \union {None} : Down(f, x) \/ Up(f, x))
  \/ \E x \in Vectors : Apply(x)

Spec == Init /\ [][Next]_shieldVars

-----------------------------------------------------------------------------
(* While a selection is under way or about to begin, the thumb that rested *)
(* is still on the shield: lifting any thumb, moving away or a cancelled   *)
(* touch ends it, whatever else happens. (A lock in between and a choice   *)
(* of the reserved part leave a selection behind.)                         *)
SelectionIsHeld == (timer \/ selecting) /\ ~broken => first \in touching

(* While the shield ignores moves to show a choice, a transition is left   *)
(* that will let it follow them again, whoever chose what in between. (A   *)
(* refresh drops the transitions with the parts, and moves stay ignored    *)
(* until the next choice.)                                                 *)
FollowsAgain == complete /\ ~renewed => chain

(* No selection goes on after its thumb has left, and no choice leaves     *)
(* the shield deaf to moves.                                               *)
ShieldHolds == SelectionIsHeld /\ FollowsAgain
=============================================================================
