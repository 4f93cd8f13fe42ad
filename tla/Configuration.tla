---------------------------- MODULE Configuration ----------------------------
(***************************************************************************)
(* The windows of resource/lib.js and what resource/index.js does with     *)
(* their results. One modal layer holds whatever window is showing. The    *)
(* window of a control edits an attribute of the control and of one of its *)
(* views, which inherits it until it has a value of its own; the window of *)
(* a page edits its layout, the window of settings asks the server first,  *)
(* the window of selection searches the controls in batches. All is kept   *)
(* in localStorage, from which the page is built again.                    *)
(***************************************************************************)
EXTENDS Integers, FiniteSets

CONSTANTS
  View,      \* views of one control
  Value,     \* values of its attribute
  Default,   \* the value the declaration gives it
  Grid,      \* columns, rows, gap and padding of a page
  Text,      \* size of the font, and named areas
  Rem,       \* those whose size is in rem
  Declared,  \* the layout the page declares
  Name,      \* names of the client
  Controls,  \* how many there are to select from
  BatchSize, \* how many of them are searched in a frame
  MaxActs    \* bound: what the user does in one behaviour

None == "none"
Layout == [grid : Grid, text : Text]

ConfigurationAssumption ==
  /\ Default \in Value /\ None \notin Value
  /\ Rem \subseteq Text /\ Declared \in [grid : Grid, text : Text \ Rem]
  /\ Controls \in Nat /\ BatchSize \in Nat \ {0} /\ MaxActs \in Nat

VARIABLES
  ctrl,     \* the control's own value, or None
  view,     \* [View -> own value or None]
  sCtrl,    \* localStorage, controls.<id>.<attribute>
  sView,    \* localStorage, page.<id>.views.<id>.<attribute>
  layout, sLayout,    \* of the page; what is kept of it, if anything
  client, identity,   \* kept name of the client, and the one the server was told
  saving,   \* settings sent to the server: whether the name is new
  asked,    \* the settings asked from the server before their window is shown
  showing,  \* windows that are showing
  waiting,  \* windows whose result is awaited
  heard,    \* windows whose own handlers are attached
  hides,    \* [window -> timers that will hide it]
  modal,    \* the modal layer is displayed
  form,     \* the forms of the control's window
  target,   \* the view its result is for
  query, results, tasks,  \* searched for, found, searches that go on
  pickers,  \* handlers of a long tap on what was found
  acts,
  mine,     \* history: [View -> value last given to the view itself]
  halved    \* history: half a layout was set since

attributes == <<ctrl, view, sCtrl, sView, mine>>
windows == <<showing, waiting, heard, hides, modal>>
settings == <<client, identity, saving, asked>>
layouts == <<layout, sLayout, halved>>
forms == <<form, target>>
search == <<query, results, tasks, pickers>>
vars == <<attributes, windows, settings, layouts, forms, search, acts>>

Window == {"control", "layout", "settings", "selection"}

-----------------------------------------------------------------------------
(* Attributes: a view's values have the control's as their prototype. *)

Get(c) == IF c = None THEN Default ELSE c
GetView(c, w) == IF w = None THEN Get(c) ELSE w

Owned(v) == view[v] /= None

SetCtrl(x) == IF Get(ctrl) = x THEN ctrl ELSE x
SetView(c, w, x) == IF GetView(c, w) = x THEN w ELSE x

(* What differs from the declaration, or from the control. *)
KeptCtrl(c) == IF Get(c) /= Default THEN c ELSE None
KeptView(c, w) == IF w /= None /\ w /= Get(c) THEN w ELSE None

(* What a view has no longer is removed from the store. *)
Saved(v, c, w) == KeptView(c, w)

(* What is kept is set again, controls before views. *)
LoadedCtrl == KeptCtrl(sCtrl)
LoadedView(v) == KeptView(LoadedCtrl, sView[v])
LoadedLayout == IF sLayout = {} THEN Declared ELSE CHOOSE l \in sLayout : TRUE

NoForm == [of |-> None, ctrl |-> None, view |-> None, owned |-> FALSE,
           manual |-> FALSE, scope |-> "view"]

Init ==
  /\ ctrl = None /\ view = [v \in View |-> None]
  /\ sCtrl = None /\ sView = [v \in View |-> None] /\ mine = [v \in View |-> None]
  /\ layout = Declared /\ sLayout = {} /\ halved = FALSE
  /\ client \in Name /\ identity = client /\ saving = {} /\ asked = FALSE
  /\ showing = {} /\ waiting = {} /\ heard = {}
  /\ hides = [w \in Window |-> 0] /\ modal = FALSE
  /\ form = NoForm /\ target = None
  /\ query = {} /\ results = {} /\ tasks = {} /\ pickers = 0
  /\ acts = 0

Act == acts < MaxActs /\ acts' = acts + 1

-----------------------------------------------------------------------------
(***************************************************************************)
(* Windows. A window that shows locks the page with the modal layer; it is *)
(* gone 300 ms after it was told to hide, and then the layer is unlocked.  *)
(* Its buttons work in between. Told to show while it is showing, it locks *)
(* the layer and throws: the result it has is awaited by who showed it.    *)
(***************************************************************************)
Show(w) ==
  /\ modal' = TRUE
  /\ showing' = showing \union {w}
  /\ waiting' = waiting \union ({w} \ showing)
  /\ heard' = heard \union {w}
  /\ UNCHANGED hides

HideTimes(w, n) ==
  /\ hides' = [hides EXCEPT ![w] = @ + n]
  /\ waiting' = waiting \ {w}
  /\ heard' = heard \ {w}
  /\ UNCHANGED <<showing, modal>>

(* hide of the window of selection: the search is over. *)
Cleared ==
  /\ query' = {} /\ results' = {} /\ tasks' = {}
  /\ pickers' = IF "selection" \in heard THEN pickers - 1 ELSE pickers

Hide(w) ==
  /\ HideTimes(w, 1)
  /\ IF w = "selection" THEN Cleared ELSE UNCHANGED search

LockedTillLast(w) == modal /\ hides[w] > 1  \* the last of its timers unlocks
Locked(w) == FALSE

Hidden(w) ==
  /\ hides[w] > 0 /\ hides' = [hides EXCEPT ![w] = @ - 1]
  /\ showing' = showing \ {w}
  /\ modal' = Locked(w)
  /\ UNCHANGED <<waiting, heard, attributes, settings, layouts, forms, search, acts>>

Answerable(w) == w \in showing /\ modal

Cancel(w) ==
  /\ Act /\ Answerable(w) /\ Hide(w)
  /\ UNCHANGED <<attributes, settings, layouts, forms>>

-----------------------------------------------------------------------------
(* The window of a control: a form for it and a form for the view tapped.  *)

Open(v) ==
  /\ Act /\ ~modal /\ Show("control")
  /\ form' = [of |-> v, ctrl |-> Get(ctrl), view |-> GetView(ctrl, view[v]),
              owned |-> Owned(v), manual |-> FALSE, scope |-> "view"]
  /\ target' = IF "control" \in showing THEN target ELSE v
  /\ UNCHANGED <<attributes, settings, layouts, search>>

(* updateOwnership: the label of a view's field that has no value yet. *)
Labelled(f) ==
  IF Owned(f.of) THEN f ELSE [f EXCEPT !.owned = f.view /= f.ctrl]

Type(f) ==
  /\ Act /\ Answerable("control") /\ "control" \in heard
  /\ form' = f
  /\ UNCHANGED <<attributes, windows, settings, layouts, target, search>>

TypeCtrl(x) == form.scope = "ctrl" /\ Type([form EXCEPT !.ctrl = x])

TypeView(x) ==
  form.scope = "view" /\ Type(Labelled([form EXCEPT !.view = x, !.manual = TRUE]))

(* syncFormValues from the control's form to the view's. The other way     *)
(* nothing is inherited.                                                   *)
SyncedNever(f) == f
Synced(f) ==
  IF ~f.manual /\ ~f.owned THEN [f EXCEPT !.view = f.ctrl] ELSE Labelled(f)

ChangeScope ==
  Type(IF form.scope = "ctrl" THEN [Synced(form) EXCEPT !.scope = "view"]
       ELSE [form EXCEPT !.scope = "ctrl"])

Data == IF form.scope = "ctrl" THEN Synced(form) ELSE form

Apply(v, x, y) ==  \* batch for the control, then for the view; both are saved
  /\ ctrl' = SetCtrl(x)
  /\ view' = [view EXCEPT ![v] = SetView(ctrl', @, y)]
  /\ sView' = [sView EXCEPT ![v] = Saved(v, ctrl', view'[v])]
  /\ sCtrl' = KeptCtrl(ctrl')
  /\ mine' = [mine EXCEPT ![v] =
                 IF form.manual \/ y /= Get(ctrl') \/ view'[v] /= view[v] THEN y ELSE @]

Submit ==
  /\ Act /\ Answerable("control") /\ Hide("control")
  /\ form' = Data
  /\ IF "control" \in waiting THEN Apply(target, Data.ctrl, Data.view)
     ELSE UNCHANGED attributes
  /\ UNCHANGED <<settings, layouts, target>>

-----------------------------------------------------------------------------
(***************************************************************************)
(* The layout of a page. Its parts are set one by one, the size of the     *)
(* font after the grid and before the areas, and that setter throws on a   *)
(* unit that the window takes.                                             *)
(***************************************************************************)
OpenLayout ==
  /\ Act /\ ~modal /\ Show("layout")
  /\ UNCHANGED <<attributes, settings, layouts, forms, search>>

SetLayout(l) ==
  IF l.text \in Rem
  THEN layout' = [layout EXCEPT !.grid = l.grid] /\ halved' = TRUE /\ UNCHANGED sLayout
  ELSE layout' = l /\ sLayout' = {l} /\ halved' = FALSE

SubmitLayout(l) ==  \* a configuration equal to the page's is ignored
  /\ Act /\ Answerable("layout") /\ Hide("layout")
  /\ IF "layout" \in waiting /\ l /= layout THEN SetLayout(l) ELSE UNCHANGED layouts
  /\ UNCHANGED <<attributes, settings, forms>>

-----------------------------------------------------------------------------
(* The settings. *)

AskSettings ==
  /\ Act /\ ~modal /\ ~asked /\ asked' = TRUE
  /\ UNCHANGED <<attributes, windows, layouts, forms, search, client, identity, saving>>

Answered ==  \* the window opens over whatever is there; or the server refuses
  /\ asked /\ asked' = FALSE
  /\ Show("settings") \/ UNCHANGED windows
  /\ UNCHANGED <<attributes, layouts, forms, search, client, identity, saving, acts>>

SubmitSettings(n) ==  \* the name is kept before the server takes the rest
  /\ Act /\ Answerable("settings") /\ Hide("settings")
  /\ IF "settings" \in waiting
     THEN /\ client' = n
          /\ \/ saving' = saving \union {n /= client}
             \/ UNCHANGED saving  \* not sent without a connection
     ELSE UNCHANGED <<client, saving>>
  /\ UNCHANGED <<attributes, layouts, forms, identity, asked>>

Taken(new) ==  \* taken, or refused or out of time
  /\ new \in saving /\ saving' = saving \ {new}
  /\ identity' \in {IF new THEN client ELSE identity, identity}
  /\ UNCHANGED <<attributes, windows, layouts, forms, search, client, asked, acts>>

-----------------------------------------------------------------------------
(***************************************************************************)
(* The window of selection. A query stands for the set of controls it      *)
(* matches; a search takes BatchSize controls in each frame and is         *)
(* complete when a batch was not full.                                     *)
(***************************************************************************)
OpenSelection ==
  /\ Act /\ ~modal /\ Show("selection") /\ pickers' = pickers + 1
  /\ UNCHANGED <<attributes, settings, layouts, forms, query, results, tasks>>

Running(q) == {[query |-> q, at |-> 1]}

Search(q) ==
  /\ Act /\ Answerable("selection") /\ "selection" \in heard
  /\ query' = q /\ results' = {} /\ tasks' = Running(q)
  /\ UNCHANGED <<attributes, windows, settings, layouts, forms, pickers>>

Batch(t) ==
  LET next == t.at + BatchSize
  IN /\ results' = results \union (t.query \cap t.at .. (next - 1))
     /\ tasks' = (tasks \ {t}) \union
                   IF next - 1 <= Controls THEN {[t EXCEPT !.at = next]} ELSE {}
     /\ UNCHANGED <<attributes, windows, settings, layouts, forms, query, pickers, acts>>

Pick ==  \* every handler submits and hides
  /\ Act /\ Answerable("selection") /\ results /= {} /\ pickers > 0
  /\ HideTimes("selection", pickers) /\ Cleared
  /\ UNCHANGED <<attributes, settings, layouts, forms>>

-----------------------------------------------------------------------------
Reload ==
  /\ Act
  /\ ctrl' = LoadedCtrl /\ view' = [v \in View |-> LoadedView(v)]
  /\ layout' = LoadedLayout /\ halved' = FALSE
  /\ identity' = client /\ saving' = {} /\ asked' = FALSE
  /\ showing' = {} /\ waiting' = {} /\ heard' = {}
  /\ hides' = [w \in Window |-> 0] /\ modal' = FALSE
  /\ form' = NoForm /\ target' = None
  /\ query' = {} /\ results' = {} /\ tasks' = {} /\ pickers' = 0
  /\ UNCHANGED <<sCtrl, sView, mine, sLayout, client>>

Next ==
  \/ \E w \in Window : Hidden(w) \/ Cancel(w)
  \/ \E v \in View : Open(v)
  \/ \E x \in Value : TypeCtrl(x) \/ TypeView(x)
  \/ ChangeScope \/ Submit
  \/ OpenLayout \/ \E l \in Layout : SubmitLayout(l)
  \/ AskSettings \/ Answered \/ \E n \in Name : SubmitSettings(n)
  \/ \E b \in BOOLEAN : Taken(b)
  \/ OpenSelection \/ Pick
  \/ \E q \in SUBSET (1 .. Controls) : Search(q)
  \/ \E t \in tasks : Batch(t)
  \/ Reload

Spec == Init /\ [][Next]_vars

-----------------------------------------------------------------------------
TypeOK ==
  /\ ctrl \in Value \union {None} /\ sCtrl \in Value \union {None}
  /\ view \in [View -> Value \union {None}] /\ sView \in [View -> Value \union {None}]
  /\ layout \in Layout /\ sLayout \subseteq Layout
  /\ showing \subseteq Window /\ hides \in [Window -> Nat] /\ modal \in BOOLEAN

(* The modal layer never covers the page with nothing on it: whatever      *)
(* windows open and close, twice, late or at once, the layer is displayed  *)
(* only while a window is showing.                                         *)
ModalHasWindow == modal => showing /= {}

(* A view shows its own last value or the control's, now and after any     *)
(* reload; a value that was replaced never comes back, and the control and *)
(* the layout are what they were.                                          *)
NothingComesBack ==
  /\ LoadedCtrl = KeptCtrl(ctrl)
  /\ halved \/ LoadedLayout = layout
  /\ \A v \in View :
       /\ GetView(ctrl, view[v]) \in {mine[v], Get(ctrl)}
       /\ GetView(LoadedCtrl, LoadedView(v)) \in {mine[v], Get(ctrl)}

(* A view that inherited goes on inheriting unless something was typed for *)
(* a view: changes made for the control alone reach it, whichever form was *)
(* in front when. Excepted is a window told to show another view while it  *)
(* was showing: it takes the form of that one, and whoever awaited the     *)
(* first gets what the form says.                                          *)
StaysInherited ==
  [][\A v \in View :
       (view[v] = None /\ view'[v] /= None /\ form' /= NoForm /\ form.of = target)
         => form.manual]_vars

(* What the window of selection shows was found for the last query, and    *)
(* all that it matches is shown when the search has ended, however many    *)
(* searches were begun before the one before had ended.                    *)
FoundIsAsked == results \subseteq query /\ (tasks = {} => results = query)

(* The windows show what was asked, the layer has a window, and what is    *)
(* kept is what was set.                                                   *)
WindowsHold ==
  TypeOK /\ ModalHasWindow /\ FoundIsAsked /\ NothingComesBack
=============================================================================
