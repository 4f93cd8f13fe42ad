------------------------------- MODULE Editing -------------------------------
(***************************************************************************)
(* The edit mode of resource/index.js and what it leaves in localStorage.  *)
(* While it is on, a zone stands over each area of the pages of a screen:  *)
(* a tap selects, moves or exchanges the views of controls, a long tap     *)
(* removes one or adds another.  An edit takes effect when the animation   *)
(* it starts has finished; its zones are locked so long.  Each edit is     *)
(* saved, and a reload builds the pages from the declarations and the      *)
(* store.                                                                  *)
(***************************************************************************)
EXTENDS Integers, FiniteSets

CONSTANTS
  Page,      \* the pages of the screen
  Area,      \* the areas of every page's layout
  Out,       \* an area no layout names: a view there is an orphan
  Static,    \* views the pages declare
  Fresh,     \* ids of views the user adds
  HomePage,  \* [Static -> Page]
  HomeArea,  \* [Static -> Area \union {Out}]
  MaxActs    \* bound: what the user does in one behaviour

None == "none"
View == Static \union Fresh

(* The pages are declared with one view in an area, as validatePageArea    *)
(* demands.                                                                *)
EditingAssumption ==
  /\ Static \intersect Fresh = {} /\ Out \notin Area /\ MaxActs \in Nat
  /\ None \notin Page \union View \union Area \union {Out}
  /\ HomePage \in [Static -> Page] /\ HomeArea \in [Static -> Area \union {Out}]
  /\ \A p \in Page : \E v \in Static : HomePage[v] = p
  /\ \A v, w \in Static :
       (v /= w /\ HomePage[v] = HomePage[w] /\ HomeArea[v] = HomeArea[w])
         => HomeArea[v] \notin Area

VARIABLES
  refs,     \* [View -> Page or None]: the page that lists the view
  area,     \* [View -> the area it is in]
  custom,   \* views that bear the attribute custom
  removed,  \* views that bear the attribute removed
  areas,    \* localStorage: <<page, view, area>>
  gone,     \* localStorage: <<page, view>> whose removed is kept
  marks,    \* localStorage: <<page, view>> whose custom is kept
  customs,  \* localStorage: <<view, page>>, the list of added views
  pressed,  \* the button of the toolbar that is down: None, "editmode", "configurate"
  handlers, \* modes whose touch handlers stand on the document
  reasons,  \* why ctrlLocker is locked, of these two modes
  leaving,  \* exits of the edit mode whose animation has not finished
  zones,    \* [Page -> a layout's highlights stand on the page]
  frame,    \* [mode, page]: what the next frame brings to that page's neighbours
  shown,    \* the page on the screen
  routed,   \* the page of router.path
  edited,   \* page of the edit mode's closure: the router's when it began
  selected, \* Nothing or [zone, view]
  ops,      \* edits whose animation, window or frame is awaited
  acts,
  strayed,  \* history: an edit may have got past the zones' locks, or a view
            \* was added to one page and recorded on another
  hasty     \* history: the end of an exit unlocked an edit mode begun since

places == <<refs, area, custom, removed>>
store == <<areas, gone, marks, customs>>
modes == <<pressed, handlers, reasons, leaving, zones, frame>>
history == <<strayed, hasty>>
walk == <<shown, routed>>
vars == <<places, store, modes, walk, edited, selected, ops, acts, history>>

Zone == Page \X Area
NoZone == <<None, None>>  \* an orphan is picked without one
Nothing == [zone |-> NoZone, view |-> None]
NoFrame == [mode |-> None, page |-> None]

(***************************************************************************)
(* What a start makes of the store: every declared view at its area unless *)
(* it is stored elsewhere or removed, every listed one on the page the     *)
(* list names, where its attributes are looked up.                         *)
(***************************************************************************)
LoadedPage(v) ==
  IF v \in Static THEN HomePage[v]
  ELSE IF \E p \in Page : <<v, p>> \in customs
       THEN CHOOSE p \in Page : <<v, p>> \in customs ELSE None

LoadedRef(v) == IF <<LoadedPage(v), v>> \in gone THEN None ELSE LoadedPage(v)

LoadedArea(v) ==
  IF \E a \in Area \union {Out} : <<LoadedPage(v), v, a>> \in areas
  THEN CHOOSE a \in Area \union {Out} : <<LoadedPage(v), v, a>> \in areas
  ELSE IF v \in Static THEN HomeArea[v] ELSE None

LoadedCustom == {v \in View : <<LoadedPage(v), v>> \in marks}

Init ==
  /\ areas = {} /\ gone = {} /\ marks = {} /\ customs = {}
  /\ refs = [v \in View |-> IF v \in Static THEN HomePage[v] ELSE None]
  /\ area = [v \in View |-> IF v \in Static THEN HomeArea[v] ELSE None]
  /\ custom = {} /\ removed = {}
  /\ pressed = None /\ handlers = {} /\ reasons = {} /\ leaving = 0
  /\ zones = [p \in Page |-> FALSE] /\ frame = NoFrame
  /\ shown \in Page /\ routed = shown /\ edited = None /\ selected = Nothing /\ ops = {}
  /\ acts = 0 /\ strayed = FALSE /\ hasty = FALSE

(* addControl and removeControl of a page, doTerminate of a view; the area *)
(* of a view is an attribute whose application moves the element.          *)
Listed(v, p) == [refs EXCEPT ![v] = p]
Delisted(v, p) == IF refs[v] = p THEN [refs EXCEPT ![v] = None] ELSE refs
Terminated(v) == removed \union {v}
Placed(v, a, w, b) ==
  [u \in View |-> IF u = v THEN a ELSE IF u = w THEN b ELSE area[u]]

Act == acts < MaxActs /\ acts' = acts + 1

(***************************************************************************)
(* saveToStore of a view. [a] is what [area] becomes, [r] and [c] what     *)
(* [removed] and [custom] do. The page is the one that owns the view, kept *)
(* in its data; the attributes of a removed view are purged, all but the   *)
(* removal of a declared one.                                              *)
(***************************************************************************)
Home(v) == IF v \in Static THEN HomePage[v]
           ELSE IF refs[v] = None THEN LoadedPage(v) ELSE refs[v]

SavedAreas(vs, a, r) ==
  {t \in areas : t[2] \notin vs} \union {<<Home(v), v, a[v]>> : v \in vs \ r}
SavedGone(vs, r, c) == gone \union {<<Home(v), v>> : v \in (vs \intersect r) \ c}
SavedMarks(vs, r) == {t \in marks : t[2] \notin vs \intersect r}
Unlisted(v) == IF v \in custom THEN {t \in customs : t[1] /= v} ELSE customs

-----------------------------------------------------------------------------
(***************************************************************************)
(* The modes. Zones that are put up or taken down are elements of their    *)
(* own: the locks of the ones before them do not hold them.                *)
(***************************************************************************)
Strip(ps) ==
  {[op EXCEPT !.zones = {z \in op.zones : z[1] \notin ps}] : op \in ops}

ZonesAround(m) ==  \* cancels the frame that was requested, requests another
  /\ zones' = [zones EXCEPT ![routed] = m]
  /\ frame' = [mode |-> IF m THEN "on" ELSE "off", page |-> routed]
  /\ ops' = Strip({routed})

Frame ==
  /\ frame /= NoFrame /\ frame' = NoFrame
  /\ zones' = [p \in Page |-> IF p = frame.page THEN zones[p] ELSE frame.mode = "on"]
  /\ ops' = Strip(Page \ {frame.page})
  /\ UNCHANGED <<places, store, pressed, handlers, reasons, leaving, walk, edited,
                 selected, acts, history>>

(* The page is the router's, which the one shown may be ahead of. The      *)
(* transition a new entry turns back may end by it, or never end.          *)
EditmodeOn ==
  /\ Act /\ pressed /= "editmode" /\ pressed' = "editmode"
  /\ reasons' = (reasons \union {"editmode"}) \ {"configuration"}
  /\ handlers' = (IF "configuration" \in reasons THEN handlers \ {"configurate"}
                  ELSE handlers) \union {"editmode"}
  /\ leaving' \in {leaving, 0}
  /\ ZonesAround(TRUE)
  /\ edited' = routed /\ selected' = Nothing
  /\ strayed' = (strayed \/ ops /= {})
  /\ UNCHANGED <<places, store, walk, hasty>>

EditmodeOff ==
  /\ Act /\ pressed = "editmode" /\ pressed' = None
  /\ handlers' = handlers \ {"editmode"}
  /\ leaving' = leaving + 1
  /\ ZonesAround(FALSE)
  /\ selected' = Nothing
  /\ UNCHANGED <<places, store, reasons, walk, edited, history>>

ConfigurateOnAlone ==  \* mutant: the edit mode is not left
  /\ Act /\ pressed /= "configurate" /\ pressed' = "configurate"
  /\ reasons' = reasons \union {"configuration"}
  /\ handlers' = handlers \union {"configurate"}
  /\ UNCHANGED <<places, store, leaving, zones, frame, ops, selected, walk, edited,
                 history>>

ConfigurateOn ==
  /\ Act /\ pressed /= "configurate" /\ pressed' = "configurate"
  /\ reasons' = reasons \union {"configuration"}
  /\ IF "editmode" \in reasons
     THEN /\ handlers' = {"configurate"} /\ leaving' = leaving + 1
          /\ ZonesAround(FALSE) /\ selected' = Nothing
     ELSE /\ handlers' = handlers \union {"configurate"}
          /\ UNCHANGED <<leaving, zones, frame, ops, selected>>
  /\ UNCHANGED <<places, store, walk, edited, history>>

ConfigurateOff ==
  /\ Act /\ pressed = "configurate" /\ pressed' = None
  /\ handlers' = handlers \ {"configurate"}
  /\ reasons' = reasons \ {"configuration"}
  /\ UNCHANGED <<places, store, leaving, zones, frame, walk, edited, selected, ops,
                 history>>

LeftElsewhere ==  \* mutant: the page edited is looked at, not the one shown
  /\ leaving > 0 /\ leaving' = leaving - 1
  /\ reasons' = IF edited = shown THEN reasons \ {"editmode"} ELSE reasons
  /\ hasty' = (hasty \/ pressed = "editmode")
  /\ UNCHANGED <<places, store, pressed, handlers, zones, frame, walk, edited,
                 selected, ops, acts, strayed>>

Left ==  \* the animation of a page that leaves the edit mode is over
  /\ leaving > 0 /\ leaving' = leaving - 1
  /\ reasons' = reasons \ {"editmode"}
  /\ hasty' = (hasty \/ pressed = "editmode")
  /\ UNCHANGED <<places, store, pressed, handlers, zones, frame, walk, edited,
                 selected, ops, acts, strayed>>

(* The user swipes, or goes back or follows a link; the other of swiper    *)
(* and router comes after, which Navigation models: here, either of them.  *)
Swipe ==
  /\ Act /\ shown' \in Page \ {shown}
  /\ UNCHANGED <<places, store, modes, routed, edited, selected, ops, history>>

Go ==
  /\ Act /\ routed' \in Page \ {routed}
  /\ UNCHANGED <<places, store, modes, shown, edited, selected, ops, history>>

Follow ==
  /\ shown /= routed
  /\ \/ routed' = shown /\ UNCHANGED shown
     \/ shown' = routed /\ UNCHANGED routed
  /\ UNCHANGED <<places, store, modes, edited, selected, ops, acts, history>>

-----------------------------------------------------------------------------
(* Edits. An edit is due with its animation, and knows what it will do.    *)

LockedNever(z) == z = NoZone  \* mutant: the locks are not looked at

Locked(z) == \E op \in ops : z \in op.zones

Edit(k, v, a, w, b, zs) ==  \* v goes to a and w to b; or v is removed
  [kind |-> k, view |-> v, to |-> a, other |-> w, otherTo |-> b,
   zones |-> zs \ {NoZone}]

Touchable(z) ==
  /\ "editmode" \in handlers /\ z[1] = shown /\ zones[shown] /\ ~Locked(z)
  /\ \A op \in ops : op.kind /= "choose"

At(z) == {v \in View : refs[v] = edited /\ area[v] = z[2]}

Astray(z) == strayed' = (strayed \/ z[1] /= edited)

Select(z, v) == selected = Nothing /\ selected' = [zone |-> z, view |-> v] /\ ops' = ops

Exchange(z, v) ==
  /\ selected /= Nothing
  /\ IF Locked(selected.zone) THEN UNCHANGED <<selected, ops>>
     ELSE /\ selected' = Nothing
          /\ ops' = IF selected.view = v THEN ops
                    ELSE ops \union {Edit("swap", v, area[selected.view], selected.view,
                                          area[v], {z, selected.zone})}

Move(z) ==
  /\ selected /= Nothing
  /\ IF Locked(selected.zone) THEN UNCHANGED <<selected, ops>>
     ELSE /\ selected' = Nothing
          /\ ops' = ops \union {Edit("move", selected.view, z[2], None, None,
                                     {z, selected.zone})}

Tap ==
  \E z \in Zone :
    /\ Act /\ Touchable(z) /\ Astray(z)
    /\ \/ \E v \in At(z) : Select(z, v) \/ Exchange(z, v)
       \/ At(z) = {} /\ Move(z)
    /\ UNCHANGED <<places, store, modes, walk, edited, hasty>>

Orphan(v) == refs[v] = shown /\ area[v] \notin Area /\ "editmode" \in handlers
               /\ \A op \in ops : op.kind /= "choose"

(* No lock guards an orphan that an edit has already taken on its way. *)
Loose(v) == shown /= edited \/ \E op \in ops : v \in {op.view, op.other}

TapOrphan ==  \* whatever was selected no longer is
  \E v \in View :
    /\ Act /\ Orphan(v)
    /\ selected' = [zone |-> NoZone, view |-> v]
    /\ strayed' = (strayed \/ Loose(v))
    /\ UNCHANGED <<places, store, modes, walk, edited, ops, hasty>>

Remove(z, v) ==  \* the selected view takes the place
  /\ IF selected = Nothing
     THEN ops' = ops \union {Edit("remove", v, None, None, None, {z})}
     ELSE ops' = IF Locked(selected.zone) THEN ops
                 ELSE ops \union {Edit("remove", v, None, selected.view, area[v],
                                       {z, selected.zone})}
  /\ selected' = IF selected /= Nothing /\ Locked(selected.zone) THEN selected ELSE Nothing

Choose(z) ==  \* the window with the controls
  /\ ops' = ops \union {Edit("choose", None, z[2], None, None, {z})}
  /\ UNCHANGED selected

LongTap ==
  \E z \in Zone :
    /\ Act /\ Touchable(z) /\ Astray(z)
    /\ \/ \E v \in At(z) : Remove(z, v)
       \/ At(z) = {} /\ Choose(z)
    /\ UNCHANGED <<places, store, modes, walk, edited, hasty>>

LongTapOrphan ==
  \E v \in View :
    /\ Act /\ Orphan(v)
    /\ selected' = Nothing
    /\ ops' = ops \union {Edit("remove", v, None, None, None, {})}
    /\ strayed' = (strayed \/ Loose(v))
    /\ UNCHANGED <<places, store, modes, walk, edited, hasty>>

-----------------------------------------------------------------------------
(* What an edit does at last. *)

Others(op) == IF op.other = None THEN {} ELSE {op.other}

Moved ==
  \E op \in ops :
    /\ op.kind \in {"move", "swap"}
    /\ area' = Placed(op.view, op.to, op.other, op.otherTo)
    /\ areas' = SavedAreas({op.view} \union Others(op), area', removed)
    /\ gone' = SavedGone({op.view} \union Others(op), removed, custom)
    /\ marks' = SavedMarks({op.view} \union Others(op), removed)
    /\ ops' = ops \ {op}
    /\ UNCHANGED <<refs, custom, removed, customs, modes, walk, edited, selected,
                   acts, history>>

Removed ==
  \E op \in ops :
    /\ op.kind = "remove"
    /\ removed' = Terminated(op.view)
    /\ area' = Placed(op.other, op.otherTo, None, None)
    /\ areas' = SavedAreas({op.view} \union Others(op), area', removed')
    /\ gone' = SavedGone({op.view} \union Others(op), removed', custom)
    /\ marks' = SavedMarks({op.view} \union Others(op), removed')
    /\ customs' = Unlisted(op.view)
    /\ refs' = Delisted(op.view, edited)
    /\ ops' = ops \ {op}
    /\ UNCHANGED <<custom, modes, walk, edited, selected, acts, history>>

Unused(v) == refs[v] = None /\ v \notin removed

Chosen ==  \* the view goes to the router's page, its record names the page edited
  \E op \in ops, v \in Fresh :
    /\ op.kind = "choose" /\ Unused(v)
    /\ refs' = Listed(v, routed)
    /\ customs' = customs \union {<<v, edited>>}
    /\ custom' = custom \union {v}
    /\ area' = Placed(v, op.to, None, None)
    /\ marks' = marks \union {<<routed, v>>}
    /\ areas' = areas \union {<<routed, v, op.to>>}
    /\ ops' = (ops \ {op}) \union {[op EXCEPT !.kind = "unveil"]}
    /\ strayed' = (strayed \/ routed /= edited)
    /\ UNCHANGED <<removed, gone, modes, walk, edited, selected, acts, hasty>>

Dropped ==  \* the window was cancelled, or the new view has got its frames
  \E op \in ops :
    /\ op.kind \in {"choose", "unveil"}
    /\ ops' = ops \ {op}
    /\ UNCHANGED <<places, store, modes, walk, edited, selected, acts, history>>

(* The page is loaded again, at any time: what was pending is lost. *)
Reload ==
  /\ Act
  /\ refs' = [v \in View |-> LoadedRef(v)]
  /\ area' = [v \in View |-> LoadedArea(v)]
  /\ custom' = LoadedCustom
  /\ removed' = {v \in View : <<LoadedPage(v), v>> \in gone}
  /\ pressed' = None /\ handlers' = {} /\ reasons' = {} /\ leaving' = 0
  /\ zones' = [p \in Page |-> FALSE] /\ frame' = NoFrame
  /\ edited' = None /\ selected' = Nothing /\ ops' = {}
  /\ hasty' = FALSE
  /\ shown' = routed
  /\ UNCHANGED <<store, routed, strayed>>

Next ==
  \/ EditmodeOn \/ EditmodeOff \/ ConfigurateOn \/ ConfigurateOff \/ Left \/ Frame
  \/ Swipe \/ Go \/ Follow \/ Tap \/ TapOrphan \/ LongTap \/ LongTapOrphan
  \/ Moved \/ Removed \/ Chosen \/ Dropped \/ Reload

Spec == Init /\ [][Next]_vars /\ WF_vars(Left) /\ WF_vars(Frame)

-----------------------------------------------------------------------------
TypeOK ==
  /\ refs \in [View -> Page \union {None}]
  /\ area \in [View -> Area \union {Out, None}]
  /\ custom \subseteq Fresh /\ removed \subseteq View
  /\ customs \subseteq Fresh \X Page
  /\ handlers \subseteq {"editmode", "configurate"}
  /\ zones \in [Page -> BOOLEAN] /\ leaving \in 0..MaxActs

(* No two views of a page are in one area of its layout, whatever edits    *)
(* overlap: an edit locks the zones it comes from and goes to until its    *)
(* animation is over. It is what validatePageArea of index.js looks for.   *)
OnePerArea ==
  strayed \/ \A v, w \in View :
    (v /= w /\ refs[v] = refs[w] /\ refs[v] /= None /\ area[v] = area[w])
      => area[v] \notin Area

(* Whenever the page is loaded again, between any two steps of an edit, it *)
(* shows the views that it showed, where it showed them: no edit is kept   *)
(* by half, none comes back, and what the user added is still his.         *)
ReloadShows ==
  strayed \/ \A v \in View :
    /\ LoadedRef(v) = refs[v]
    /\ refs[v] /= None => LoadedArea(v) = area[v] /\ (v \in LoadedCustom <=> v \in custom)

(* One gesture never both moves a control and opens its configuration: the *)
(* handlers on the document are those of the button that is down, and the  *)
(* controls are off for that mode. An edit mode that the end of an earlier *)
(* exit has unlocked escapes it.                                           *)
HandlersFollow ==
  ~hasty =>
    /\ handlers = {pressed} \ {None}
    /\ (pressed = "configurate") => ("configuration" \in reasons)
    /\ (pressed = "editmode") => ("editmode" \in reasons)

(* Once no frame is due, zones stand on all pages of the screen while the  *)
(* edit mode is on, and on none when it is off, however fast the button    *)
(* was pressed and wherever the user had swiped.                           *)
ZonesFollow ==
  (frame = NoFrame /\ ~hasty) => \A p \in Page : zones[p] <=> pressed = "editmode"

(* Who leaves both modes gets the controls back. *)
ControlsReturn == pressed = None ~> (reasons = {} \/ pressed /= None)

(* What was edited is consistent, on the page and in what is kept of it.   *)
EditsHold == TypeOK /\ OnePerArea /\ ReloadShows

(* Handlers, locks and zones are those of the mode that is on.             *)
ModesFollow == HandlersFollow /\ ZonesFollow
=============================================================================
