-------------------------------- MODULE Overlay --------------------------------
(***************************************************************************)
(* The coloured regions behind the controls of the page on the screen:     *)
(* index.js asks for them after each change of page or layout, Overlay()   *)
(* of widget.js caches them per page and asks a worker, overlay.js         *)
(* computes them from where the controls were when it was asked.  What     *)
(* changes while a page is asked for, drawn, or computed is of interest;   *)
(* the regions themselves are the version of the layout they are made of.  *)
(***************************************************************************)
EXTENDS Naturals, SequencesExt

CONSTANTS Pages, Nothing, MaxActs

OverlayAssumption == Nothing \notin Pages

VARIABLES
  shape,    \* per page, how often its controls have moved
  route,    \* the page of router.path
  goal,     \* the page a swipe has begun to turn to
  editing,  \* the page edit mode works on, while "editmode" is locked
  reworks,  \* the page that is being measured after a change, "all" for a resize
  configured, \* the page that is, since a control of it was configured
  cache,    \* per page, the version of its pair
  asked,    \* evaluations the worker has yet to answer
  working,  \* the worker has not failed
  wait,     \* page of a selectPending that is not settled
  pair,     \* what draw() will draw
  tasks,    \* callbacks due: the flushes of updateOverlay, the frame of draw
  handle,   \* the one pendingUpdateOverlayRequest can cancel
  dropped,  \* pendingUpdateOverlayRequest.canceled
  shown,    \* what is visible
  acts,
  reused,   \* history: pages invalidated while they were being evaluated, or
            \* not invalidated after a change, and not resized since
  failed    \* history: the worker did not answer for what the last update asked for

ovVars == <<shape, route, goal, editing, reworks, configured, cache, asked, working, wait, pair,
            tasks, handle, dropped, shown, acts, reused, failed>>

Pair(p, v) == [page |-> p, version |-> v]
Empty == [page |-> Nothing, version |-> 0]
Draw == [what |-> "draw", page |-> Nothing]
Select(p) == [what |-> "select", page |-> p]
NoTask == [what |-> "none", page |-> Nothing]

Init ==
  /\ shape = [p \in Pages |-> 0]
  /\ route \in Pages
  /\ goal = Nothing /\ editing = Nothing /\ reworks = {} /\ configured = Nothing
  /\ cache = [p \in Pages |-> Empty]
  /\ asked = <<>> /\ working = TRUE
  /\ wait = Nothing /\ pair = Empty
  /\ tasks = {Select(route)} /\ handle = Select(route) /\ dropped = FALSE
  /\ shown = Empty
  /\ acts = 0 /\ reused = {} /\ failed = FALSE

Act == acts < MaxActs /\ acts' = acts + 1

calculator == <<cache, asked, wait>>
request == <<tasks, handle, dropped>>
changing == <<reworks, configured>>

(* Measuring begins, of one page or of none that will be invalidated: it   *)
(* cancels what is under way, and then the page measured so far is not.    *)
Unmeasured(p) == reused \union ((reworks \union {configured}) \ {Nothing, p})

Measure(p) ==
  /\ reworks' = (reworks \intersect {Nothing}) \union (IF p = Nothing THEN {} ELSE {p})
  /\ configured' = Nothing

-----------------------------------------------------------------------------
(* updateOverlay: hidden, and in the next flush the page is selected; the  *)
(* request before is cancelled. In edit mode it stays hidden.              *)
Update(p) ==
  /\ shown' = Empty
  /\ tasks' = (tasks \ {handle}) \union {Select(p)}
  /\ handle' = Select(p) /\ dropped' = FALSE
  /\ failed' = FALSE

UpdateUnlessEdited(p, edited) ==
  IF edited THEN shown' = Empty /\ UNCHANGED <<failed, tasks, handle, dropped>>
  ELSE Update(p)

(* prefetch: what is evaluated already is not asked for again.             *)
Live(p) == \E i \in DOMAIN asked : asked[i].live /\ asked[i].page = p

Evaluation(p) == [page |-> p, version |-> shape[p], live |-> TRUE, lost |-> ~working]

Prefetch(p) == IF Live(p) THEN UNCHANGED asked ELSE asked' = Append(asked, Evaluation(p))

(* The regions are here: draw them with the next frame, on the request     *)
(* that is the current one by now.                                         *)
Ready(c, T) ==
  /\ pair' = c
  /\ tasks' = T \union {Draw} /\ handle' = Draw
  /\ UNCHANGED dropped

(* The flush: the route may have changed, or a swipe begun.                *)
Outdated(p) == dropped \/ route # p

Selects ==
  \E p \in Pages :
    LET T == tasks \ {Select(p)}
    IN /\ Select(p) \in tasks
       /\ CASE Outdated(p) ->
                 /\ tasks' = T
                 /\ UNCHANGED <<handle, dropped, pair>> /\ UNCHANGED calculator
            [] ~Outdated(p) /\ cache[p] # Empty ->
                 /\ wait' = Nothing
                 /\ Ready(cache[p], T)
                 /\ UNCHANGED <<cache, asked>>
            [] ~Outdated(p) /\ cache[p] = Empty ->
                 /\ wait' = p
                 /\ Prefetch(p)
                 /\ tasks' = T
                 /\ UNCHANGED <<handle, dropped, pair, cache>>
       /\ UNCHANGED <<shape, route, goal, editing, changing, working, shown, acts, reused, failed>>

(* A flush takes a frame and then a timer, which its request can cancel.   *)
Draws ==
  /\ Draw \in tasks
  /\ tasks' = tasks \ {Draw}
  /\ handle' \in {handle} \union tasks'
  /\ shown' = pair
  /\ UNCHANGED <<shape, route, goal, editing, changing, working, pair, dropped, acts, reused, failed>>
  /\ UNCHANGED calculator

-----------------------------------------------------------------------------
(* The worker answers in order; an evaluation that was rejected before is  *)
(* not found any more.                                                     *)
Answer ==
  /\ asked # <<>> /\ ~asked[1].lost
  /\ LET e == asked[1]
         c == Pair(e.page, e.version)
     IN IF ~e.live THEN UNCHANGED <<cache, wait, pair>> /\ UNCHANGED request
        ELSE /\ cache' = [cache EXCEPT ![e.page] = c]
             /\ IF wait = e.page THEN wait' = Nothing /\ Ready(c, tasks)
                ELSE UNCHANGED <<wait, pair>> /\ UNCHANGED request
  /\ asked' = Tail(asked)
  /\ UNCHANGED <<shape, route, goal, editing, changing, working, shown, acts, reused, failed>>

(* onerror, the answer that does not come within 35 s, and reloadWorker.   *)
Fail ==
  /\ Act /\ working
  /\ working' = FALSE
  /\ asked' = [i \in DOMAIN asked |-> [asked[i] EXCEPT !.lost = TRUE]]
  /\ UNCHANGED <<shape, route, goal, editing, changing, cache, wait, pair, shown, reused, failed>>
  /\ UNCHANGED request

Expire ==
  /\ asked # <<>> /\ asked[1].lost
  /\ asked' = Tail(asked)
  /\ IF asked[1].live /\ asked[1].page = wait THEN wait' = Nothing /\ failed' = TRUE
     ELSE UNCHANGED <<wait, failed>>
  /\ UNCHANGED <<shape, route, goal, editing, changing, cache, working, pair, shown, acts, reused>>
  /\ UNCHANGED request

Reload ==
  /\ ~working
  /\ working' = TRUE
  /\ UNCHANGED <<shape, route, goal, editing, changing, pair, shown, acts, reused, failed>>
  /\ UNCHANGED calculator /\ UNCHANGED request

-----------------------------------------------------------------------------
(* Pages are turned.                                                       *)

(* resolve() for another screen, whose pages buildScreen measures.         *)
Resolve(p) ==
  /\ Act /\ p # route /\ goal = Nothing
  /\ route' = p
  /\ Measure(Nothing) /\ reused' = Unmeasured(Nothing)
  /\ UpdateUnlessEdited(p, editing # Nothing)
  /\ UNCHANGED <<shape, goal, editing, working, pair>>
  /\ UNCHANGED calculator

(* A swipe cancels what is under way when it begins (cancelOverlay), and   *)
(* asks anew when it has ended.                                            *)
Cancel ==
  /\ wait' = Nothing
  /\ tasks' = tasks \ {handle}
  /\ dropped' = TRUE /\ UNCHANGED handle

SwipeStart(p) ==
  /\ Act /\ p # route /\ goal = Nothing
  /\ goal' = p
  /\ Cancel
  /\ UNCHANGED <<shape, route, editing, changing, cache, asked, working, pair, shown, reused, failed>>

SwipeEnd ==
  /\ goal # Nothing
  /\ route' = goal /\ goal' = Nothing
  /\ UpdateUnlessEdited(goal, editing # Nothing)
  /\ UNCHANGED <<shape, editing, changing, working, pair, acts, reused>>
  /\ UNCHANGED calculator

-----------------------------------------------------------------------------
(* Pages change.                                                           *)

Edit ==
  /\ Act /\ editing = Nothing
  /\ editing' = route
  /\ UNCHANGED <<shape, route, goal, changing, working, pair, shown, reused, failed>>
  /\ UNCHANGED calculator /\ UNCHANGED request

Rearrange ==
  /\ Act /\ editing # Nothing
  /\ shape' = [shape EXCEPT ![editing] = @ + 1]
  /\ UNCHANGED <<route, goal, editing, changing, working, pair, shown, reused, failed>>
  /\ UNCHANGED calculator /\ UNCHANGED request

(* The end of edit mode, after its animation: what was edited is the page  *)
(* it began on, what is invalidated the one it ends on.                    *)
EditEnd ==
  /\ editing # Nothing
  /\ editing' = Nothing
  /\ Measure(route)
  /\ reused' = Unmeasured(route) \union ({editing} \ {route})
  /\ shown' = Empty
  /\ UNCHANGED <<shape, route, goal, working, pair, acts, failed>>
  /\ UNCHANGED calculator /\ UNCHANGED request

(* The layout of the page is configured.                                   *)
Relayout ==
  /\ Act /\ editing = Nothing
  /\ shape' = [shape EXCEPT ![route] = @ + 1]
  /\ Measure(route) /\ reused' = Unmeasured(route)
  /\ shown' = Empty
  /\ UNCHANGED <<route, goal, editing, working, pair, failed>>
  /\ UNCHANGED calculator /\ UNCHANGED request

(* A control is configured, with its views on other pages, qs. What is     *)
(* invalidated then is the page there is when it has been measured.        *)
Configure ==
  /\ Act /\ editing = Nothing
  /\ \E qs \in SUBSET (Pages \ {route}) :
       /\ shape' = [p \in Pages |-> IF p = route \/ p \in qs THEN shape[p] + 1 ELSE shape[p]]
       /\ reused' = Unmeasured(route) \union qs
  /\ reworks' = reworks \intersect {Nothing}
  /\ configured' = route
  /\ UNCHANGED <<route, goal, editing, working, pair, shown, failed>>
  /\ UNCHANGED calculator /\ UNCHANGED request

Resize ==
  /\ Act
  /\ shape' = [p \in Pages |-> shape[p] + 1]
  /\ reworks' = {Nothing} /\ configured' = Nothing
  /\ shown' = Empty
  /\ UNCHANGED <<route, goal, editing, working, pair, reused, failed>>
  /\ UNCHANGED calculator /\ UNCHANGED request

(* invalidate(page): the cache is cleared, the selection rejected, and the *)
(* page asked for again, unless it is being evaluated: that evaluation is  *)
(* kept under the number of its request and thus not found and rejected.   *)
(* Mutant: the cache is kept while the page is evaluated.                  *)
InvalidateKept(p) ==
  /\ UNCHANGED cache
  /\ wait' = (IF wait = p THEN Nothing ELSE wait)
  /\ Prefetch(p)

Invalidate(p) ==
  /\ cache' = [cache EXCEPT ![p] = Empty]
  /\ wait' = IF wait = p THEN Nothing ELSE wait
  /\ Prefetch(p)

(* invalidateAll: all evaluations are rejected, too.                       *)
InvalidateAll ==
  /\ cache' = [p \in Pages |-> Empty]
  /\ wait' = Nothing
  /\ asked' = [i \in DOMAIN asked |-> [asked[i] EXCEPT !.live = FALSE]]

Rework(p) ==
  /\ p \in reworks
  /\ reworks' = reworks \ {p}
  /\ IF p = Nothing THEN InvalidateAll /\ reused' = {}
     ELSE Invalidate(p) /\ reused' = (IF Live(p) THEN reused \union {p} ELSE reused)
  /\ UpdateUnlessEdited(route, editing # Nothing)
  /\ UNCHANGED <<shape, route, goal, editing, configured, working, pair, acts>>

Configured ==
  /\ configured # Nothing
  /\ configured' = Nothing
  /\ Invalidate(route)
  /\ reused' = reused \union ({configured} \ {route}) \union {p \in {route} : Live(p)}
  /\ UpdateUnlessEdited(route, editing # Nothing)
  /\ UNCHANGED <<shape, route, goal, editing, reworks, working, pair, acts>>

Next ==
  \/ Selects \/ Draws \/ Answer \/ Fail \/ Expire \/ Reload
  \/ SwipeEnd \/ Edit \/ Rearrange \/ EditEnd \/ Relayout \/ Configure \/ Configured \/ Resize
  \/ \E p \in Pages : Resolve(p) \/ SwipeStart(p)
  \/ \E p \in Pages \union {Nothing} : Rework(p)

Spec == Init /\ [][Next]_ovVars

-----------------------------------------------------------------------------
Quiet == tasks = {} /\ asked = <<>> /\ reworks = {} /\ configured = Nothing /\ goal = Nothing
         /\ editing = Nothing

(* Once all that was asked for is answered, there are regions behind the   *)
(* page on the screen, and those of its layout as it is now, whatever was  *)
(* swiped, edited, configured and resized while they were computed.        *)
(* Exceptions: old regions are kept by a page invalidated while it was     *)
(* evaluated, or left in edit mode or when configured, by other pages of   *)
(* the control configured, and where measuring was cut short; where the    *)
(* worker failed there may be none, or another page's.                     *)
ShownIsCurrent ==
  Quiet /\ route \notin reused /\ ~failed => shown = Pair(route, shape[route])
=============================================================================
