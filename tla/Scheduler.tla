------------------------------ MODULE Scheduler ------------------------------
(***************************************************************************)
(* scheduler (main/scheduler.h): one task that runs handlers at intervals. *)
(* Clients schedule and unschedule them by tag, or once without a tag, at  *)
(* any moment, also while the task runs a handler.                         *)
(*                                                                         *)
(* What clients add goes to unitsShadow; only the task, told so by a       *)
(* FreeRTOS notification, moves it over to units.  The mutex covers every  *)
(* client call whole, and in the task the merge and the removal of a unit, *)
(* but neither the choice of the next unit nor the run of its handler.     *)
(*                                                                         *)
(* Time is counted in ticks, the precision with which the task sleeps.  A  *)
(* unit keeps the ticks left until it is due (interval - (now - invoked)   *)
(* in the code), negative once it is late.  Time passes while the task     *)
(* sleeps and while a handler runs; the rest of its loop takes none.       *)
(***************************************************************************)
EXTENDS Integers, Sequences, FiniteSets, SequencesExt

CONSTANTS
  Tags,       \* the tags clients use
  Anonymous,  \* TAG(): the tag of the units that nobody can name
  Intervals,  \* intervals in ticks
  Repeats,    \* how often clients ask for a handler; 0 or less: for ever
  MaxRun,     \* ticks that the slowest handler takes
  MaxUnits    \* bound: units at a time

ASSUME TagAssumption == Anonymous \notin Tags
ASSUME IntervalAssumption ==
  /\ Intervals \subseteq Nat \ {0} /\ Repeats \subseteq Int
  /\ MaxRun \in Nat /\ MaxUnits \in Nat

(* The units' handlers fit into each interval: the task is not overloaded. *)
ASSUME LoadAssumption == \A i \in Intervals : MaxUnits * MaxRun <= i

VARIABLES
  units,     \* units
  shadow,    \* unitsShadow
  notified,  \* the task's notification is pending
  pc,        \* where the task stands
  at,        \* nx.it, the position of the unit it runs
  elapsed    \* ticks the running handler has taken

taskVars == <<pc, at, elapsed>>
vars == <<units, shadow, notified, taskVars>>

All == units \o shadow

(* left: ticks until it is due.  ran, late: history, the runs since it was *)
(* scheduled (kept for units that end) and since it was unscheduled.       *)
Unit(tag, interval, repeat) ==
  [tag |-> tag, interval |-> interval, left |-> interval, repeat |-> repeat,
   erase |-> FALSE, asked |-> repeat, ran |-> 0, late |-> 0]

(* find: the units of a tag that were not unscheduled; unitsShadow first.  *)
Matches(list, tag) ==
  {i \in DOMAIN list : list[i].tag = tag /\ ~list[i].erase}

(* Mutant of Exists: only the units that were merged are looked through.   *)
ExistsMerged(tag) == Matches(units, tag) # {}

Exists(tag) == Matches(shadow, tag) # {} \/ Matches(units, tag) # {}

First(S) == CHOOSE i \in S : \A j \in S : i <= j

(* Mutant of Closest: the search stops at the first unit.                  *)
ClosestFirst(i) == i = 1

(* next: the first of the units with the least time left.                  *)
Closest(i) ==
  i = First({j \in DOMAIN units :
               \A k \in DOMAIN units : units[j].left <= units[k].left})

Due(i) == Closest(i) /\ units[i].left <= 0

(* Mutant of Without: the last unit goes, without taking the place.        *)
WithoutLast(i) == Front(units)

(* eraseByReplace: the last unit takes the place of the erased one.        *)
Without(i) == Front([units EXCEPT ![i] = Last(units)])

-----------------------------------------------------------------------------
Init ==
  /\ units = <<>>
  /\ shadow = <<>>
  /\ notified = FALSE
  /\ pc = "loop"
  /\ at = 0
  /\ elapsed = 0

-----------------------------------------------------------------------------
(* Clients.                                                                *)
Room == Len(All) < MaxUnits

(* Mutant of Add: the task is not told.                                    *)
AddSilently(unit) ==
  /\ shadow' = Append(shadow, unit)
  /\ UNCHANGED notified

Add(unit) ==
  /\ shadow' = Append(shadow, unit)
  /\ notified' = TRUE

(* A tag that is taken is refused.                                         *)
Schedule(tag) ==
  /\ ~Exists(tag)
  /\ Room
  /\ \E i \in Intervals, r \in Repeats : Add(Unit(tag, i, r))
  /\ UNCHANGED <<units, taskVars>>

(* A handler without a tag must end by itself.                             *)
ScheduleAnonymous ==
  /\ Room
  /\ \E i \in Intervals, r \in Repeats : r > 0 /\ Add(Unit(Anonymous, i, r))
  /\ UNCHANGED <<units, taskVars>>

Marked(list, i) == [list EXCEPT ![i].erase = TRUE]

(* The unit is only marked: the task drops it when it next falls due.      *)
Unschedule(tag) ==
  /\ Exists(tag)
  /\ IF Matches(shadow, tag) # {}
       THEN /\ shadow' = Marked(shadow, First(Matches(shadow, tag)))
            /\ UNCHANGED units
       ELSE /\ units' = Marked(units, First(Matches(units, tag)))
            /\ UNCHANGED shadow
  /\ UNCHANGED <<notified, taskVars>>

-----------------------------------------------------------------------------
(* The task's loop: the closest unit is dropped or run if it is due.       *)
Drop ==
  /\ pc = "loop"
  /\ \E i \in DOMAIN units : Due(i) /\ units[i].erase /\ units' = Without(i)
  /\ UNCHANGED <<shadow, notified, taskVars>>

(* The mark is read without the mutex, before the handler is called.       *)
Begin ==
  /\ pc = "loop"
  /\ \E i \in DOMAIN units : Due(i) /\ ~units[i].erase /\ at' = i
  /\ pc' = "call"
  /\ UNCHANGED <<units, shadow, notified, elapsed>>

Call ==
  /\ pc = "call"
  /\ units' = [units EXCEPT ![at].late = @ + IF units[at].erase THEN 1 ELSE 0]
  /\ pc' = "handler"
  /\ UNCHANGED <<shadow, notified, at, elapsed>>

(* invoked is set when the handler has returned; repeat counts down to 0.  *)
Counted(u) ==
  [u EXCEPT !.left = u.interval,
            !.repeat = IF @ > 0 THEN @ - 1 ELSE @,
            !.ran = IF u.asked > 0 THEN @ + 1 ELSE @]

EndHandler ==
  /\ pc = "handler"
  /\ units' = [units EXCEPT ![at] = Counted(@)]
  /\ pc' = IF units[at].repeat > 0 /\ units'[at].repeat = 0 THEN "retire"
           ELSE "loop"
  /\ at' = IF pc' = "retire" THEN at ELSE 0
  /\ elapsed' = 0
  /\ UNCHANGED <<shadow, notified>>

(* The last run is over: the unit goes, once the task has the mutex.       *)
Retire ==
  /\ pc = "retire"
  /\ units' = Without(at)
  /\ pc' = "loop"
  /\ at' = 0
  /\ UNCHANGED <<shadow, notified, elapsed>>

Sleep ==
  /\ pc = "loop"
  /\ ~\E i \in DOMAIN units : Due(i)
  /\ pc' = "sleep"
  /\ UNCHANGED <<units, shadow, notified, at, elapsed>>

(* xTaskNotifyWait returns by a notification, or when the time of the      *)
(* closest unit is up (ten seconds, when there is no unit).                *)
Notified ==
  /\ pc = "sleep"
  /\ notified
  /\ notified' = FALSE
  /\ pc' = "merge"
  /\ UNCHANGED <<units, shadow, at, elapsed>>

TimeUp == \A i \in DOMAIN units : Closest(i) => units[i].left <= 0

Timeout ==
  /\ pc = "sleep"
  /\ ~notified
  /\ TimeUp
  /\ pc' = "loop"
  /\ UNCHANGED <<units, shadow, notified, at, elapsed>>

Merge ==
  /\ pc = "merge"
  /\ units' = All
  /\ shadow' = <<>>
  /\ pc' = "loop"
  /\ UNCHANGED <<notified, at, elapsed>>

-----------------------------------------------------------------------------
Aged(list) == [i \in DOMAIN list |-> [list[i] EXCEPT !.left = @ - 1]]

(* A tick passes: the task sleeps until its unit is due or it is notified, *)
(* or a handler takes its time.                                            *)
Tick ==
  /\ \/ /\ pc = "sleep" /\ ~notified
        /\ All # <<>>
        /\ units = <<>> \/ ~TimeUp
        /\ UNCHANGED elapsed
     \/ /\ pc = "handler" /\ elapsed < MaxRun
        /\ elapsed' = elapsed + 1
  /\ units' = Aged(units)
  /\ shadow' = Aged(shadow)
  /\ UNCHANGED <<notified, pc, at>>

ClientStep == \/ \E t \in Tags : Schedule(t) \/ Unschedule(t)
              \/ ScheduleAnonymous

TaskStep == \/ Drop \/ Begin \/ Call \/ EndHandler \/ Retire
            \/ Sleep \/ Notified \/ Timeout \/ Merge

Next == ClientStep \/ TaskStep \/ Tick

Spec == Init /\ [][Next]_vars

(* The task runs whenever it can, time passes, handlers return.            *)
FairSpec == Spec /\ WF_vars(TaskStep) /\ WF_vars(Tick)
-----------------------------------------------------------------------------
States == {"loop", "call", "handler", "retire", "sleep", "merge"}

UnitType(u) ==
  /\ u.tag \in Tags \union {Anonymous} /\ u.interval \in Intervals
  /\ u.left \in Int /\ u.left <= u.interval
  /\ u.repeat \in Int /\ u.asked \in Repeats /\ u.erase \in BOOLEAN
  /\ u.ran \in Nat /\ u.late \in Nat

TypeOK ==
  /\ \A i \in DOMAIN units : UnitType(units[i])
  /\ \A i \in DOMAIN shadow : UnitType(shadow[i])
  /\ Len(All) <= MaxUnits
  /\ notified \in BOOLEAN
  /\ pc \in States
  /\ at \in IF pc \in {"call", "handler", "retire"} THEN DOMAIN units ELSE {0}
  /\ elapsed \in 0 .. MaxRun

(* A tag names one unit, wherever it is, unless the unit was unscheduled:  *)
(* what a client unschedules is what was scheduled by that tag last.       *)
OneLivePerTag ==
  \A i, j \in DOMAIN All :
    /\ All[i].tag = All[j].tag /\ All[i].tag \in Tags
    /\ ~All[i].erase /\ ~All[j].erase
    => i = j

(* A unit is run once more, at most, after its unscheduling was confirmed: *)
(* the task may have been about to call its handler.                       *)
AtMostOneLateRun == \A i \in DOMAIN All : All[i].late <= 1

(* A handler is called as often as it was asked for, unless it is          *)
(* unscheduled, and its tag is taken until then: a tag gets free only by   *)
(* Unschedule or when its unit has run for the last time.                  *)
Erased(tag) == {i \in DOMAIN All : All[i].tag = tag /\ All[i].erase}

RunsAsAsked ==
  [][\A t \in Tags :
       Exists(t) /\ ~Exists(t)' =>
         \/ Cardinality(Erased(t)') = Cardinality(Erased(t)) + 1
         \/ \E i \in Matches(units, t) :
              units[i].asked > 0 /\ units[i].ran = units[i].asked]_vars

(* No handler is called later than the others that were due take to run,   *)
(* however clients schedule and unschedule meanwhile.                      *)
Punctual ==
  pc = "call" => -units[at].left <= (MaxUnits - 1) * MaxRun

(* What is scheduled is run: no notification is lost between the task's    *)
(* look at its units and its sleep, and no unit is kept out by others.     *)
NoneStarves ==
  \A t \in Tags :
    Exists(t) ~> ~Exists(t) \/ (pc = "handler" /\ units[at].tag = t)

(* A tag names one live unit, and what was unscheduled runs once more at   *)
(* most.                                                                   *)
TagsHold == TypeOK /\ OneLivePerTag /\ AtMostOneLateRun
=============================================================================
