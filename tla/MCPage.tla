------------------------------- MODULE MCPage -------------------------------
(***************************************************************************)
(* Three things the page lets its user do, which share no modelled state:  *)
(* walk from page to page (Navigation, extended: a screen of three pages   *)
(* and a screen of one, to which two addresses lead), edit pages (an       *)
(* instance: a screen of two pages with two views and an orphan on one, a  *)
(* view on the other, and a view the user may add), and configure (an      *)
(* instance: a control with two views and three values, a page with six    *)
(* layouts, a selection among two controls searched one by one). Each      *)
(* behaviour is one of them.                                               *)
(***************************************************************************)
EXTENDS Navigation, TLC

MCPage == {"a", "b", "c", "d"}
MCPath == MCPage \union {"alias"}
MCLead == [p \in MCPath |-> IF p = "alias" THEN "d" ELSE p]
MCScreenOf == [p \in MCPage |-> IF p = "d" THEN <<"d">> ELSE <<"a", "b", "c">>]

CONSTANTS EditedPage, Area, Out, Static, Fresh, HomePage, HomeArea, MaxEdits,  \* of the edit mode
          CtrlView, Value, Default, Grid, Text, Rem, Declared, Name, Controls, BatchSize,
          MaxChanges                                                           \* of the windows

MCHomePage == [v \in {"v", "w", "o"} |-> "p"] @@ [v \in {"u"} |-> "q"]
MCHomeArea == [v \in {"v", "u"} |-> "x"] @@ [v \in {"w"} |-> "y"] @@ [v \in {"o"} |-> "out"]
MCDeclared == [grid |-> "5x5", text |-> "plain"]

VARIABLES refs, area, custom, removed, areas, gone, marks, customs, pressed, handlers, reasons,
          leaving, zones, frame, shown, routed, edited, selected, ops, edits, strayed, hasty,
          ctrl, view, sCtrl, sView, layout, sLayout, client, identity, saving, asked, showing,
          waiting, heard, hides, modal, form, target, query, results, tasks, pickers, changes,
          mine, halved,
          part  \* which of the three this behaviour is about

Editing == INSTANCE Editing WITH Page <- EditedPage, MaxActs <- MaxEdits, acts <- edits
Configuration == INSTANCE Configuration WITH View <- CtrlView, MaxActs <- MaxChanges, acts <- changes

ASSUME PageAssumption == Editing!EditingAssumption /\ Configuration!ConfigurationAssumption

editVars == <<refs, area, custom, removed, areas, gone, marks, customs, pressed, handlers,
              reasons, leaving, zones, frame, shown, routed, edited, selected, ops, edits, strayed, hasty>>
confVars == <<ctrl, view, sCtrl, sView, layout, sLayout, client, identity, saving, asked, showing,
              waiting, heard, hides, modal, form, target, query, results, tasks, pickers, changes,
              mine, halved>>
pageVars == <<vars, editVars, confVars, part>>

PageInit ==
  /\ Init /\ Editing!Init /\ Configuration!Init
  /\ part \in {"navigation", "editing", "configuration"}
  /\ part # "navigation" => hash = "a"                        \* idle parts start one way
  /\ part # "editing" => shown = "p"
  /\ part # "configuration" => client = "n"

PageNext ==
  \/ part = "navigation" /\ Next /\ UNCHANGED <<editVars, confVars, part>>
  \/ part = "editing" /\ Editing!Next /\ UNCHANGED <<vars, confVars, part>>
  \/ part = "configuration" /\ Configuration!Next /\ UNCHANGED <<vars, editVars, part>>

(* The fairness of each module, of the behaviours that are about it.       *)
Walks(A) == part = "navigation" /\ A

PageSpec ==
  /\ PageInit /\ [][PageNext]_pageVars
  /\ WF_vars(Walks(Deliver)) /\ WF_vars(Walks(TransitionEnd)) /\ WF_vars(Walks(RouterUpdate))
  /\ WF_vars(Walks(Nap)) /\ WF_vars(Walks(Timeout)) /\ WF_vars(Walks(Frame))
  /\ WF_(editVars)(part = "editing" /\ Editing!Left)
  /\ WF_(editVars)(part = "editing" /\ Editing!Frame)

(* Navigation: what moves comes to rest (other parts do not move it).      *)
WalksSettle == part = "navigation" => Settles

(* Editing and Configuration: see there.                                   *)
EditsHold == Editing!EditsHold
ModesFollow == Editing!ModesFollow
ControlsReturn == Editing!ControlsReturn
WindowsHold == Configuration!WindowsHold
StaysInherited == Configuration!StaysInherited
=============================================================================
