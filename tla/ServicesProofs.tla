---------------------------- MODULE ServicesProofs ----------------------------
(***************************************************************************)
(* Proofs about the two services of the board, Scheduler and CtrlMap.      *)
(*                                                                         *)
(* For any tags, intervals and numbers of units: a tag names one live      *)
(* unit, in either list, and an unscheduled unit runs once more at most.   *)
(* Both lists are looked at apart, since units move from one to the other  *)
(* and, when one of them goes, within the first. The last unit takes the   *)
(* place of the one that goes, and the task keeps a position across the    *)
(* run of a handler, so that the proof must show that no position changes  *)
(* its unit meanwhile. And a handler is called late by the runs of the     *)
(* others at most: since the task woke up each unit has run once, and what *)
(* has run is not due again before the task sleeps, whatever clients add.  *)
(* What a unit that ends has left and what it has run make what was asked  *)
(* for, and it goes when nothing is left, so that its tag is free by then  *)
(* or by an unscheduling.                                                  *)
(*                                                                         *)
(* For any controls, values and steepness: no control's position is beyond *)
(* the values, and the threshold stays at or above its first value. Both   *)
(* rest on facts of their own. A collection gives each control the place   *)
(* it has in some order, and cuts the values off at the number of          *)
(* controls: the order must reach every control, which counting shows. And *)
(* a threshold that falls by one step stays above zero, but at its floor   *)
(* only because it moves by whole steps.                                   *)
(***************************************************************************)
EXTENDS MCServices, FiniteSetTheorems, SequenceTheorems, WellFoundedInduction, TLAPS

UnitRecords ==
  [tag : Tags \union {Anonymous}, interval : Intervals, left : Int, repeat : Int,
   erase : BOOLEAN, asked : Repeats, ran : Nat, late : Nat]

(* A unit that was not unscheduled has not run late, and none has twice.   *)
GoodUnits ==
  {u \in UnitRecords : /\ u.left <= u.interval
                       /\ u.late <= 1
                       /\ ~u.erase => u.late = 0}

Shape ==
  /\ units \in Seq(GoodUnits)
  /\ shadow \in Seq(GoodUnits)
  /\ Len(units) + Len(shadow) <= MaxUnits
  /\ notified \in BOOLEAN
  /\ pc \in States
  /\ at \in IF pc \in {"call", "handler", "retire"} THEN DOMAIN units ELSE {0}
  /\ elapsed \in 0 .. MaxRun

(* The unit whose handler is about to be called has not run late.          *)
CallIsFirst == pc = "call" => units[at].late = 0

(* OneLivePerTag, of the two lists apart.                                  *)
Clash(u, w) == u.tag = w.tag /\ u.tag \in Tags /\ ~u.erase /\ ~w.erase

LiveOnce ==
  /\ \A i, j \in DOMAIN units : Clash(units[i], units[j]) => i = j
  /\ \A i, j \in DOMAIN shadow : Clash(shadow[i], shadow[j]) => i = j
  /\ \A i \in DOMAIN units, j \in DOMAIN shadow : ~Clash(units[i], shadow[j])

IInv == Shape /\ CallIsFirst /\ LiveOnce

-----------------------------------------------------------------------------
LEMMA AllFacts ==
  ASSUME Shape
  PROVE  /\ All \in Seq(GoodUnits)
         /\ Len(All) = Len(units) + Len(shadow)
         /\ DOMAIN All = 1 .. Len(units) + Len(shadow)
         /\ \A i \in DOMAIN All : All[i] = IF i <= Len(units) THEN units[i]
                                           ELSE shadow[i - Len(units)]
         /\ Len(units) \in Nat /\ Len(shadow) \in Nat
         /\ DOMAIN units = 1 .. Len(units) /\ DOMAIN shadow = 1 .. Len(shadow)
BY ConcatProperties, LenProperties DEF Shape, All

LEMMA WithoutFacts ==
  ASSUME Shape, NEW i \in DOMAIN units
  PROVE  /\ Without(i) \in Seq(GoodUnits)
         /\ Len(Without(i)) = Len(units) - 1
         /\ DOMAIN Without(i) = 1 .. Len(units) - 1
         /\ \A k \in 1 .. Len(units) - 1 :
              Without(i)[k] = IF k = i THEN units[Len(units)] ELSE units[k]
<1> DEFINE n == Len(units)
           swapped == [units EXCEPT ![i] = Last(units)]
<1>1. units \in Seq(GoodUnits) /\ n \in Nat /\ DOMAIN units = 1 .. n /\ n >= 1
  BY AllFacts DEF Shape
<1>2. Last(units) = units[n] /\ units[n] \in GoodUnits
  BY <1>1, ElementOfSeq DEF Last
<1>3. /\ swapped \in Seq(GoodUnits) /\ Len(swapped) = n
      /\ \A k \in 1 .. n : swapped[k] = IF k = i THEN units[n] ELSE units[k]
  BY <1>1, <1>2, ExceptSeq
<1> HIDE DEF swapped, n
<1>4. Without(i) = SubSeq(swapped, 1, n - 1)
  BY <1>3 DEF Without, Front, swapped
<1>5. QED
  BY <1>1, <1>3, <1>4, SubSeqProperties DEF n

(* Tags stay and marks only come.                                          *)
Kept(old, new) ==
  /\ DOMAIN new = DOMAIN old
  /\ \A k \in DOMAIN old : /\ new[k].tag = old[k].tag
                           /\ old[k].erase => new[k].erase

SameLate(old, new) == \A k \in DOMAIN old : new[k].late = old[k].late

LEMMA SameTags ==
  ASSUME LiveOnce, Kept(units, units'), Kept(shadow, shadow')
  PROVE  LiveOnce'
BY DEF LiveOnce, Clash, Kept

(* A unit that goes leaves no tag twice.                                   *)
LEMMA WithoutLives ==
  ASSUME Shape, LiveOnce, NEW i \in DOMAIN units, units' = Without(i), shadow' = shadow
  PROVE  LiveOnce'
<1>1. /\ DOMAIN units = 1 .. Len(units) /\ Len(units) \in Nat
      /\ DOMAIN units' = 1 .. Len(units) - 1
      /\ \A k \in 1 .. Len(units) - 1 :
           units'[k] = IF k = i THEN units[Len(units)] ELSE units[k]
  BY AllFacts, WithoutFacts
<1>2. ASSUME NEW k \in DOMAIN units', NEW l \in DOMAIN units', Clash(units'[k], units'[l])
      PROVE  k = l
  BY <1>1, <1>2 DEF LiveOnce
<1>3. ASSUME NEW k \in DOMAIN units', NEW l \in DOMAIN shadow'
      PROVE  ~Clash(units'[k], shadow'[l])
  BY <1>1, <1>3 DEF LiveOnce
<1>4. QED
  BY <1>2, <1>3 DEF LiveOnce, Clash

(* A step that changes neither list, nor brings the task to a call.        *)
LEMMA ListsStay ==
  ASSUME IInv, units' = units, shadow' = shadow, pc' # "call"
  PROVE  LiveOnce' /\ CallIsFirst'
BY DEF IInv, LiveOnce, Clash, CallIsFirst

(* A list with other units at the same positions.                          *)
LEMMA SamePositions ==
  ASSUME NEW list \in Seq(GoodUnits), NEW new \in [DOMAIN list -> GoodUnits]
  PROVE  /\ new \in Seq(GoodUnits) /\ Len(new) = Len(list)
         /\ DOMAIN new = DOMAIN list
<1>1. Len(list) \in Nat /\ DOMAIN list = 1 .. Len(list)
  BY LenProperties
<1>2. QED
  BY <1>1

(* What a client, the clock and a run do to one unit.                      *)
LEMMA UnitFacts ==
  ASSUME NEW u \in GoodUnits
  PROVE  /\ [u EXCEPT !.erase = TRUE] \in GoodUnits
         /\ [u EXCEPT !.left = @ - 1] \in GoodUnits
         /\ Counted(u) \in GoodUnits
         /\ Counted(u).tag = u.tag /\ Counted(u).erase = u.erase
         /\ [u EXCEPT !.erase = TRUE].tag = u.tag
         /\ [u EXCEPT !.erase = TRUE].late = u.late
         /\ [u EXCEPT !.left = @ - 1].tag = u.tag
         /\ [u EXCEPT !.left = @ - 1].erase = u.erase
         /\ [u EXCEPT !.left = @ - 1].late = u.late
<1>1. u \in UnitRecords /\ u.interval \in Nat /\ u.left \in Int /\ u.left - 1 \in Int
  <2>1. u \in UnitRecords
    BY DEF GoodUnits
  <2>2. u.interval \in Intervals /\ u.left \in Int
    BY <2>1 DEF UnitRecords
  <2>3. u.left - 1 \in Int
    BY <2>2
  <2>4. u.interval \in Nat
    BY <2>2, IntervalAssumption
  <2>5. QED
    BY <2>1, <2>2, <2>3, <2>4
<1>2. [u EXCEPT !.erase = TRUE] \in GoodUnits
  BY DEF GoodUnits, UnitRecords
<1>3. [u EXCEPT !.left = @ - 1] \in GoodUnits
  BY <1>1 DEF GoodUnits, UnitRecords
<1>4. Counted(u) \in GoodUnits /\ Counted(u).tag = u.tag /\ Counted(u).erase = u.erase
  <2> DEFINE r == IF u.repeat > 0 THEN u.repeat - 1 ELSE u.repeat
             n == IF u.asked > 0 THEN u.ran + 1 ELSE u.ran
  <2>1. r \in Int /\ n \in Nat
    BY DEF GoodUnits, UnitRecords
  <2>2. Counted(u) = [u EXCEPT !.left = u.interval, !.repeat = r, !.ran = n]
    BY DEF Counted
  <2> HIDE DEF r, n
  <2> DEFINE u1 == [u EXCEPT !.left = u.interval]
             u2 == [u1 EXCEPT !.repeat = r]
             u3 == [u2 EXCEPT !.ran = n]
  <2>a. Counted(u) = u3
    BY <2>2
  <2>b. /\ u1 \in UnitRecords /\ u1.left = u.interval /\ u1.interval = u.interval
        /\ u1.late = u.late /\ u1.tag = u.tag /\ u1.erase = u.erase
    BY <1>1 DEF UnitRecords
  <2> HIDE DEF u1
  <2>c. /\ u2 \in UnitRecords /\ u2.left = u.interval /\ u2.interval = u.interval
        /\ u2.late = u.late /\ u2.tag = u.tag /\ u2.erase = u.erase
    BY <2>1, <2>b DEF UnitRecords
  <2> HIDE DEF u2
  <2>d. /\ u3 \in UnitRecords /\ u3.left = u.interval /\ u3.interval = u.interval
        /\ u3.late = u.late /\ u3.tag = u.tag /\ u3.erase = u.erase
    BY <2>1, <2>c DEF UnitRecords
  <2> HIDE DEF u3
  <2>3. /\ Counted(u) \in UnitRecords
        /\ Counted(u).left = u.interval /\ Counted(u).interval = u.interval
        /\ Counted(u).late = u.late
        /\ Counted(u).tag = u.tag /\ Counted(u).erase = u.erase
    BY <2>a, <2>d
  <2>4. QED
    BY <1>1, <2>3 DEF GoodUnits
<1>5. QED
  BY <1>2, <1>3, <1>4 DEF GoodUnits, UnitRecords

LEMMA MarkedFacts ==
  ASSUME NEW list \in Seq(GoodUnits), NEW i
  PROVE  /\ Marked(list, i) \in Seq(GoodUnits)
         /\ Len(Marked(list, i)) = Len(list) /\ DOMAIN Marked(list, i) = DOMAIN list
         /\ Kept(list, Marked(list, i)) /\ SameLate(list, Marked(list, i))
<1>1. \A k \in DOMAIN list : list[k] \in GoodUnits
  BY LenProperties, ElementOfSeq
<1>2. /\ Marked(list, i) \in [DOMAIN list -> GoodUnits]
      /\ \A k \in DOMAIN list :
           Marked(list, i)[k] = IF k = i THEN [list[k] EXCEPT !.erase = TRUE] ELSE list[k]
  <2> DEFINE f == [k \in DOMAIN list |->
                    IF k = i THEN [list[k] EXCEPT !.erase = TRUE] ELSE list[k]]
  <2>1. Marked(list, i) = f
    <3>1. list = [k \in DOMAIN list |-> list[k]]
      BY LenProperties
    <3>2. QED
      BY <3>1 DEF Marked
  <2>2. f \in [DOMAIN list -> GoodUnits]
    BY <1>1, UnitFacts
  <2>3. QED
    BY <2>1, <2>2
<1>3. QED
  <2>1. /\ Marked(list, i) \in Seq(GoodUnits)
        /\ Len(Marked(list, i)) = Len(list) /\ DOMAIN Marked(list, i) = DOMAIN list
    BY <1>2, SamePositions
  <2>2. \A k \in DOMAIN list :
          /\ Marked(list, i)[k].tag = list[k].tag
          /\ list[k].erase => Marked(list, i)[k].erase
          /\ Marked(list, i)[k].late = list[k].late
    <3> SUFFICES ASSUME NEW k \in DOMAIN list
                 PROVE  /\ Marked(list, i)[k].tag = list[k].tag
                        /\ list[k].erase => Marked(list, i)[k].erase
                        /\ Marked(list, i)[k].late = list[k].late
      OBVIOUS
    <3>1. list[k] \in GoodUnits /\ list[k] \in UnitRecords
      BY <1>1 DEF GoodUnits
    <3>2. CASE k = i
      <4>1. Marked(list, i)[k] = [list[k] EXCEPT !.erase = TRUE]
        BY <1>2, <3>2
      <4>2. [list[k] EXCEPT !.erase = TRUE].erase = TRUE
        BY <3>1 DEF UnitRecords
      <4>3. QED
        BY <3>1, <4>1, <4>2, UnitFacts
    <3>3. CASE k # i
      BY <1>2, <3>3
    <3>4. QED
      BY <3>2, <3>3
  <2>3. QED
    BY <2>1, <2>2 DEF Kept, SameLate

LEMMA AgedFacts ==
  ASSUME NEW list \in Seq(GoodUnits)
  PROVE  /\ Aged(list) \in Seq(GoodUnits)
         /\ Len(Aged(list)) = Len(list) /\ DOMAIN Aged(list) = DOMAIN list
         /\ \A k \in DOMAIN list : /\ Aged(list)[k].tag = list[k].tag
                                  /\ Aged(list)[k].erase = list[k].erase
                                  /\ Aged(list)[k].late = list[k].late
<1>1. \A k \in DOMAIN list : list[k] \in GoodUnits
  BY LenProperties, ElementOfSeq
<1>2. /\ Aged(list) \in [DOMAIN list -> GoodUnits]
      /\ \A k \in DOMAIN list : Aged(list)[k] = [list[k] EXCEPT !.left = @ - 1]
  BY <1>1, UnitFacts DEF Aged
<1>3. QED
  BY <1>1, <1>2, SamePositions, UnitFacts

-----------------------------------------------------------------------------
(* Clients.                                                                *)
LEMMA AddHolds ==
  ASSUME IInv, Room, NEW t, NEW i \in Intervals, NEW r \in Repeats,
         t = Anonymous \/ (t \in Tags /\ ~Exists(t)),
         Add(Unit(t, i, r)), UNCHANGED <<units, taskVars>>
  PROVE  IInv'
<1> DEFINE u == Unit(t, i, r)
<1>1. /\ Shape /\ LiveOnce /\ CallIsFirst
      /\ units' = units /\ pc' = pc /\ at' = at /\ elapsed' = elapsed
      /\ shadow' = Append(shadow, u) /\ notified' = TRUE
  BY DEF IInv, Add, taskVars
<1>2. /\ u \in GoodUnits /\ u.tag = t /\ u.erase = FALSE
  BY IntervalAssumption DEF Unit, GoodUnits, UnitRecords
<1> HIDE DEF u
<1>3. /\ shadow' \in Seq(GoodUnits) /\ Len(shadow') = Len(shadow) + 1
      /\ \A k \in 1 .. Len(shadow) : shadow'[k] = shadow[k]
      /\ shadow'[Len(shadow) + 1] = u
  BY <1>1, <1>2, AppendProperties DEF Shape
<1>4. /\ Len(units) \in Nat /\ Len(shadow) \in Nat
      /\ DOMAIN units = 1 .. Len(units) /\ DOMAIN shadow = 1 .. Len(shadow)
      /\ DOMAIN shadow' = 1 .. Len(shadow) + 1
      /\ Len(units) + Len(shadow) < MaxUnits
  BY <1>1, <1>3, AllFacts, LenProperties DEF Room
<1>5. Shape'
  BY <1>1, <1>3, <1>4, IntervalAssumption DEF Shape
<1>6. ASSUME t \in Tags
      PROVE  /\ \A k \in DOMAIN units : ~Clash(units[k], u) /\ ~Clash(u, units[k])
             /\ \A k \in DOMAIN shadow : ~Clash(shadow[k], u) /\ ~Clash(u, shadow[k])
  <2>1. Matches(shadow, t) = {} /\ Matches(units, t) = {}
    BY <1>6, TagAssumption DEF Exists
  <2>2. QED
    BY <1>2, <2>1 DEF Matches, Clash
<1>7. ASSUME t = Anonymous
      PROVE  /\ \A k \in DOMAIN units : ~Clash(units[k], u) /\ ~Clash(u, units[k])
             /\ \A k \in DOMAIN shadow : ~Clash(shadow[k], u) /\ ~Clash(u, shadow[k])
  BY <1>2, <1>7, TagAssumption DEF Clash
<1>8. LiveOnce'
  <2>1. \A k, l \in DOMAIN units' : Clash(units'[k], units'[l]) => k = l
    BY <1>1 DEF LiveOnce
  <2>2. ASSUME NEW k \in DOMAIN shadow', NEW l \in DOMAIN shadow',
               Clash(shadow'[k], shadow'[l])
        PROVE  k = l
    BY <1>1, <1>3, <1>4, <1>6, <1>7, <2>2 DEF LiveOnce
  <2>3. ASSUME NEW k \in DOMAIN units', NEW l \in DOMAIN shadow'
        PROVE  ~Clash(units'[k], shadow'[l])
    BY <1>1, <1>3, <1>4, <1>6, <1>7, <2>3 DEF LiveOnce
  <2>4. QED
    BY <2>1, <2>2, <2>3 DEF LiveOnce, Clash
<1>9. CallIsFirst'
  BY <1>1 DEF CallIsFirst
<1>10. QED
  BY <1>5, <1>8, <1>9 DEF IInv

LEMMA UnscheduleHolds ==
  ASSUME IInv, NEW t \in Tags, Unschedule(t)
  PROVE  IInv'
<1>1. /\ Shape /\ LiveOnce /\ CallIsFirst
      /\ notified' = notified /\ pc' = pc /\ at' = at /\ elapsed' = elapsed
      /\ units \in Seq(GoodUnits) /\ shadow \in Seq(GoodUnits)
  BY DEF IInv, Unschedule, taskVars, Shape
<1>2. \/ units' = units /\ \E i : shadow' = Marked(shadow, i)
      \/ shadow' = shadow /\ \E i : units' = Marked(units, i)
  BY DEF Unschedule
<1>3. /\ units' \in Seq(GoodUnits)
      /\ Len(units') = Len(units) /\ DOMAIN units' = DOMAIN units
      /\ Kept(units, units') /\ SameLate(units, units')
  <2>1. CASE units' = units
    BY <1>1, <2>1 DEF Kept, SameLate
  <2>2. CASE \E i : units' = Marked(units, i)
    <3>1. PICK i : units' = Marked(units, i)
      BY <2>2
    <3>2. QED
      BY <1>1, <3>1, MarkedFacts
  <2>3. QED
    BY <1>2, <2>1, <2>2
<1>4. /\ shadow' \in Seq(GoodUnits)
      /\ Len(shadow') = Len(shadow) /\ DOMAIN shadow' = DOMAIN shadow
      /\ Kept(shadow, shadow') /\ SameLate(shadow, shadow')
  <2>1. CASE shadow' = shadow
    BY <1>1, <2>1 DEF Kept, SameLate
  <2>2. CASE \E i : shadow' = Marked(shadow, i)
    <3>1. PICK i : shadow' = Marked(shadow, i)
      BY <2>2
    <3>2. QED
      BY <1>1, <3>1, MarkedFacts
  <2>3. QED
    BY <1>2, <2>1, <2>2
<1>5. Shape'
  BY <1>1, <1>3, <1>4 DEF Shape
<1>6. LiveOnce'
  BY <1>1, <1>3, <1>4, SameTags
<1>7. CallIsFirst'
  BY <1>1, <1>3 DEF CallIsFirst, Shape, SameLate
<1>8. QED
  BY <1>5, <1>6, <1>7 DEF IInv

-----------------------------------------------------------------------------
(* The task. It is at a unit's position only from Begin to the end of its  *)
(* run, when nobody else moves a unit.                                     *)
LEMMA DropHolds ==
  ASSUME IInv, Drop \/ Retire
  PROVE  IInv'
<1>1. /\ Shape /\ LiveOnce
      /\ shadow' = shadow /\ notified' = notified /\ elapsed' = elapsed
      /\ pc' = "loop" /\ at' = 0
  <2>1. CASE Drop
    BY <2>1 DEF IInv, Drop, taskVars, Shape
  <2>2. CASE Retire
    BY <2>2 DEF IInv, Retire
  <2>3. QED
    BY <2>1, <2>2
<1>2. PICK i \in DOMAIN units : units' = Without(i)
  BY DEF Drop, Retire, IInv, Shape
<1>3. units' \in Seq(GoodUnits) /\ Len(units') = Len(units) - 1
  BY <1>1, <1>2, WithoutFacts
<1>4. Shape'
  <2>1. Len(units) \in Nat /\ Len(shadow) \in Nat
    BY <1>1, AllFacts
  <2>2. Len(units') + Len(shadow') <= MaxUnits
    BY <1>1, <1>3, <2>1, IntervalAssumption DEF Shape
  <2>3. QED
    BY <1>1, <1>3, <2>2 DEF Shape, States
<1>5. LiveOnce'
  BY <1>1, <1>2, WithoutLives
<1>6. CallIsFirst'
  BY <1>1 DEF CallIsFirst
<1>7. QED
  BY <1>4, <1>5, <1>6 DEF IInv

LEMMA BeginHolds ==
  ASSUME IInv, Begin
  PROVE  IInv'
<1>1. Shape /\ LiveOnce /\ UNCHANGED <<units, shadow, notified, elapsed>> /\ pc' = "call"
  BY DEF IInv, Begin
<1>2. at' \in DOMAIN units /\ ~units[at'].erase
  BY DEF Begin
<1>3. units[at'] \in GoodUnits
  BY <1>1, <1>2, LenProperties, ElementOfSeq DEF Shape
<1>4. CallIsFirst'
  BY <1>1, <1>2, <1>3 DEF CallIsFirst, GoodUnits
<1>5. Shape'
  BY <1>1, <1>2 DEF Shape, States
<1>6. LiveOnce'
  BY <1>1 DEF LiveOnce, Clash
<1>7. QED
  BY <1>4, <1>5, <1>6 DEF IInv

(* Call and EndHandler put one unit in the place of itself.                *)
LEMMA OneUnitHolds ==
  ASSUME IInv, NEW u \in GoodUnits, at \in DOMAIN units,
         u.tag = units[at].tag, units[at].erase => u.erase,
         units' = [units EXCEPT ![at] = u], shadow' = shadow, notified' = notified,
         pc' \in States \ {"call"},
         at' \in IF pc' \in {"call", "handler", "retire"} THEN DOMAIN units ELSE {0},
         elapsed' \in 0 .. MaxRun
  PROVE  IInv'
<1>1. Shape /\ LiveOnce /\ units \in Seq(GoodUnits)
  BY DEF IInv, Shape
<1>2. at \in 1 .. Len(units)
  BY <1>1, LenProperties
<1>3. /\ units' \in Seq(GoodUnits) /\ Len(units') = Len(units)
      /\ \A k \in 1 .. Len(units) : units'[k] = IF k = at THEN u ELSE units[k]
  BY <1>1, <1>2, ExceptSeq
<1>4. DOMAIN units' = DOMAIN units /\ DOMAIN units = 1 .. Len(units)
  BY <1>1, <1>3, LenProperties
<1>5. Shape'
  BY <1>1, <1>3, <1>4 DEF Shape
<1>6. LiveOnce'
  <2>1. Kept(units, units')
    BY <1>3, <1>4 DEF Kept
  <2>2. Kept(shadow, shadow')
    BY DEF Kept
  <2>3. QED
    BY <1>1, <2>1, <2>2, SameTags
<1>7. CallIsFirst'
  BY DEF CallIsFirst
<1>8. QED
  BY <1>5, <1>6, <1>7 DEF IInv

LEMMA CallHolds ==
  ASSUME IInv, Call
  PROVE  IInv'
<1> DEFINE w == units[at]
           u == [w EXCEPT !.late = w.late + IF w.erase THEN 1 ELSE 0]
<1>1. Shape /\ pc = "call" /\ w.late = 0
  BY DEF IInv, Call, CallIsFirst
<1>2. at \in DOMAIN units
  BY <1>1 DEF Shape
<1>3. w \in GoodUnits
  BY <1>1, <1>2, LenProperties, ElementOfSeq DEF Shape
<1>4. units' = [units EXCEPT ![at] = u]
  BY DEF Call
<1> HIDE DEF w
<1>5. u \in GoodUnits /\ u.tag = w.tag /\ u.erase = w.erase
  <2>1. w.late + (IF w.erase THEN 1 ELSE 0) = IF w.erase THEN 1 ELSE 0
    BY <1>1
  <2>2. u = [w EXCEPT !.late = IF w.erase THEN 1 ELSE 0]
    BY <2>1
  <2>3. QED
    BY <1>3, <2>2 DEF GoodUnits, UnitRecords
<1> HIDE DEF u
<1>6. /\ pc' = "handler" /\ at' = at /\ shadow' = shadow /\ notified' = notified
      /\ elapsed' = elapsed
  BY DEF Call
<1>7. elapsed' \in 0 .. MaxRun
  BY <1>1, <1>6 DEF Shape
<1>8. QED
  BY <1>2, <1>4, <1>5, <1>6, <1>7, OneUnitHolds DEF States, w

LEMMA EndHandlerHolds ==
  ASSUME IInv, EndHandler
  PROVE  IInv'
<1> DEFINE w == units[at]
<1>1. Shape /\ pc = "handler"
  BY DEF IInv, EndHandler
<1>2. at \in DOMAIN units
  BY <1>1 DEF Shape
<1>3. w \in GoodUnits
  BY <1>1, <1>2, LenProperties, ElementOfSeq DEF Shape
<1>4. Counted(w) \in GoodUnits /\ Counted(w).tag = w.tag /\ Counted(w).erase = w.erase
  BY <1>3, UnitFacts
<1>5. /\ units' = [units EXCEPT ![at] = Counted(w)]
      /\ shadow' = shadow /\ notified' = notified /\ elapsed' = 0
      /\ (pc' = "retire" /\ at' = at) \/ (pc' = "loop" /\ at' = 0)
  BY DEF EndHandler
<1>6. elapsed' \in 0 .. MaxRun
  BY <1>5, IntervalAssumption
<1> HIDE DEF w
<1>7. QED
  BY <1>2, <1>4, <1>5, <1>6, OneUnitHolds DEF States, w

LEMMA WaitHolds ==
  ASSUME IInv, Sleep \/ Notified \/ Timeout
  PROVE  IInv'
<1>1. /\ Shape /\ units' = units /\ shadow' = shadow /\ notified' \in BOOLEAN
      /\ pc' \in {"sleep", "merge", "loop"} /\ at' = at /\ elapsed' = elapsed
      /\ pc \in {"loop", "sleep"}
  BY DEF IInv, Sleep, Notified, Timeout, Shape
<1>2. LiveOnce' /\ CallIsFirst'
  BY <1>1, ListsStay
<1>3. Shape'
  BY <1>1 DEF Shape, States
<1>4. QED
  BY <1>2, <1>3 DEF IInv

(* What clashes neither in a list nor between the two does not clash once  *)
(* the lists are one.                                                      *)
LEMMA MergedLives ==
  ASSUME Shape, LiveOnce, NEW i \in DOMAIN All, NEW j \in DOMAIN All, Clash(All[i], All[j])
  PROVE  i = j
<1>1. /\ DOMAIN All = 1 .. Len(units) + Len(shadow)
      /\ \A k \in DOMAIN All : All[k] = IF k <= Len(units) THEN units[k]
                                        ELSE shadow[k - Len(units)]
      /\ Len(units) \in Nat /\ Len(shadow) \in Nat
      /\ DOMAIN units = 1 .. Len(units) /\ DOMAIN shadow = 1 .. Len(shadow)
  BY AllFacts
<1>2. Clash(All[j], All[i])
  BY DEF Clash
<1>3. CASE i <= Len(units) /\ j <= Len(units)
  BY <1>1, <1>3 DEF LiveOnce
<1>4. CASE i > Len(units) /\ j > Len(units)
  <2>1. i - Len(units) \in DOMAIN shadow /\ j - Len(units) \in DOMAIN shadow
    BY <1>1, <1>4
  <2>2. All[i] = shadow[i - Len(units)] /\ All[j] = shadow[j - Len(units)]
    BY <1>1, <1>4
  <2>3. i - Len(units) = j - Len(units)
    BY <2>1, <2>2 DEF LiveOnce
  <2>4. QED
    BY <1>1, <2>3
<1>5. CASE i <= Len(units) /\ j > Len(units)
  <2>1. i \in DOMAIN units /\ j - Len(units) \in DOMAIN shadow
    BY <1>1, <1>5
  <2>2. All[i] = units[i] /\ All[j] = shadow[j - Len(units)]
    BY <1>1, <1>5
  <2>3. QED
    BY <2>1, <2>2 DEF LiveOnce
<1>6. CASE i > Len(units) /\ j <= Len(units)
  <2>1. j \in DOMAIN units /\ i - Len(units) \in DOMAIN shadow
    BY <1>1, <1>6
  <2>2. All[j] = units[j] /\ All[i] = shadow[i - Len(units)]
    BY <1>1, <1>6
  <2>3. QED
    BY <1>2, <2>1, <2>2 DEF LiveOnce
<1>7. QED
  BY <1>1, <1>3, <1>4, <1>5, <1>6

LEMMA MergeHolds ==
  ASSUME IInv, Merge
  PROVE  IInv'
<1>1. /\ Shape /\ LiveOnce /\ units' = All /\ shadow' = <<>> /\ pc' = "loop"
      /\ pc = "merge" /\ at' = at /\ notified' = notified /\ elapsed' = elapsed
  BY DEF IInv, Merge
<1>2. /\ units' \in Seq(GoodUnits) /\ Len(units') = Len(units) + Len(shadow)
      /\ DOMAIN units' = 1 .. Len(units) + Len(shadow)
      /\ \A i \in DOMAIN units' : units'[i] = IF i <= Len(units) THEN units[i]
                                             ELSE shadow[i - Len(units)]
      /\ Len(units) \in Nat /\ Len(shadow) \in Nat
      /\ DOMAIN units = 1 .. Len(units) /\ DOMAIN shadow = 1 .. Len(shadow)
  BY <1>1, AllFacts
<1>3. shadow' \in Seq(GoodUnits) /\ Len(shadow') = 0 /\ DOMAIN shadow' = {}
  BY <1>1
<1>4. Shape'
  <2>1. Len(units') + Len(shadow') <= MaxUnits
    BY <1>1, <1>2, <1>3 DEF Shape
  <2>2. QED
    BY <1>1, <1>2, <1>3, <2>1 DEF Shape, States
<1>5. \A i, j \in DOMAIN units' : Clash(units'[i], units'[j]) => i = j
  BY <1>1, MergedLives
<1>6. LiveOnce'
  BY <1>3, <1>5 DEF LiveOnce, Clash
<1>7. CallIsFirst'
  BY <1>1 DEF CallIsFirst
<1>8. QED
  BY <1>4, <1>6, <1>7 DEF IInv

LEMMA TickHolds ==
  ASSUME IInv, Tick
  PROVE  IInv'
<1>1. /\ Shape /\ LiveOnce /\ CallIsFirst
      /\ units' = Aged(units) /\ shadow' = Aged(shadow)
      /\ notified' = notified /\ pc' = pc /\ at' = at /\ pc # "call"
      /\ units \in Seq(GoodUnits) /\ shadow \in Seq(GoodUnits)
  BY DEF IInv, Tick, Shape
<1>2. elapsed' \in 0 .. MaxRun
  BY <1>1, IntervalAssumption DEF Tick, Shape
<1>3. /\ units' \in Seq(GoodUnits) /\ shadow' \in Seq(GoodUnits)
      /\ Len(units') = Len(units) /\ Len(shadow') = Len(shadow)
      /\ DOMAIN units' = DOMAIN units /\ DOMAIN shadow' = DOMAIN shadow
  BY <1>1, AgedFacts
<1>4. /\ \A k \in DOMAIN units : units'[k].tag = units[k].tag /\ units'[k].erase = units[k].erase
      /\ \A k \in DOMAIN shadow : shadow'[k].tag = shadow[k].tag
                                 /\ shadow'[k].erase = shadow[k].erase
  BY <1>1, AgedFacts
<1>5. LiveOnce'
  <2>1. Kept(units, units')
    BY <1>3, <1>4 DEF Kept
  <2>2. Kept(shadow, shadow')
    BY <1>3, <1>4 DEF Kept
  <2>3. QED
    BY <1>1, <2>1, <2>2, SameTags
<1>6. Shape'
  BY <1>1, <1>2, <1>3 DEF Shape
<1>7. CallIsFirst'
  BY <1>1 DEF CallIsFirst
<1>8. QED
  BY <1>5, <1>6, <1>7 DEF IInv

-----------------------------------------------------------------------------
LEMMA InitHolds == Init => IInv
<1> SUFFICES ASSUME Init PROVE IInv
  OBVIOUS
<1>1. /\ units = <<>> /\ shadow = <<>> /\ notified = FALSE /\ pc = "loop" /\ at = 0
      /\ elapsed = 0 /\ MaxUnits \in Nat /\ MaxRun \in Nat
  BY IntervalAssumption DEF Init
<1>2. /\ units \in Seq(GoodUnits) /\ Len(units) = 0 /\ DOMAIN units = {}
      /\ shadow \in Seq(GoodUnits) /\ Len(shadow) = 0 /\ DOMAIN shadow = {}
  BY <1>1
<1>3. Shape
  <2>1. Len(units) + Len(shadow) <= MaxUnits /\ elapsed \in 0 .. MaxRun
    BY <1>1, <1>2
  <2>2. pc \in States /\ pc \notin {"call", "handler", "retire"} /\ notified \in BOOLEAN
    BY <1>1 DEF States
  <2>3. QED
    BY <1>1, <1>2, <2>1, <2>2 DEF Shape
<1>4. CallIsFirst /\ LiveOnce
  BY <1>1, <1>2 DEF CallIsFirst, LiveOnce
<1>5. QED
  BY <1>3, <1>4 DEF IInv

LEMMA StepHolds == IInv /\ [Next]_vars => IInv'
<1> SUFFICES ASSUME IInv, [Next]_vars PROVE IInv'
  OBVIOUS
<1>1. ASSUME NEW t \in Tags, Schedule(t)
      PROVE  IInv'
  <2>1. PICK i \in Intervals, r \in Repeats : Add(Unit(t, i, r))
    BY <1>1 DEF Schedule
  <2>2. QED
    BY <1>1, <2>1, AddHolds DEF Schedule
<1>2. ASSUME NEW t \in Tags, Unschedule(t)
      PROVE  IInv'
  BY <1>2, UnscheduleHolds
<1>3. CASE ScheduleAnonymous
  <2>1. PICK i \in Intervals, r \in Repeats : Add(Unit(Anonymous, i, r))
    BY <1>3 DEF ScheduleAnonymous
  <2>2. QED
    BY <1>3, <2>1, AddHolds DEF ScheduleAnonymous
<1>4. CASE Drop \/ Retire
  BY <1>4, DropHolds
<1>5. CASE Begin
  BY <1>5, BeginHolds
<1>6. CASE Call
  BY <1>6, CallHolds
<1>7. CASE EndHandler
  BY <1>7, EndHandlerHolds
<1>8. CASE Sleep \/ Notified \/ Timeout
  BY <1>8, WaitHolds
<1>9. CASE Merge
  BY <1>9, MergeHolds
<1>10. CASE Tick
  BY <1>10, TickHolds
<1>11. CASE UNCHANGED vars
  BY <1>11 DEF vars, taskVars, IInv, Shape, CallIsFirst, LiveOnce, Clash
<1>12. QED
  BY <1>1, <1>2, <1>3, <1>4, <1>5, <1>6, <1>7, <1>8, <1>9, <1>10, <1>11
     DEF Next, ClientStep, TaskStep

(* The two lists never name one live unit twice, and the position the task *)
(* keeps across a handler's run is the position of its unit.               *)
THEOREM ListsAgree == Spec => []IInv
BY InitHolds, StepHolds, PTL DEF Spec

(* The invariant has what the runs check.                                  *)
LEMMA TagsFollow == IInv => TagsHold
<1> SUFFICES ASSUME IInv PROVE TagsHold
  OBVIOUS
<1>1. Shape /\ LiveOnce
  BY DEF IInv
<1>2. \A u \in GoodUnits : UnitType(u) /\ u.late <= 1
  <2> SUFFICES ASSUME NEW u \in GoodUnits PROVE UnitType(u) /\ u.late <= 1
    OBVIOUS
  <2>1. u \in UnitRecords /\ u.left <= u.interval /\ u.late <= 1
    BY DEF GoodUnits
  <2>2. QED
    BY <2>1 DEF UnitRecords, UnitType
<1>3. /\ \A i \in DOMAIN units : units[i] \in GoodUnits
      /\ \A i \in DOMAIN shadow : shadow[i] \in GoodUnits
      /\ \A i \in DOMAIN All : All[i] \in GoodUnits
  BY <1>1, AllFacts, LenProperties, ElementOfSeq DEF Shape
<1>4. TypeOK
  <2>1. Len(All) <= MaxUnits
    BY <1>1, AllFacts DEF Shape
  <2>2. QED
    BY <1>1, <1>2, <1>3, <2>1 DEF TypeOK, Shape
<1>5. OneLivePerTag
  <2> SUFFICES ASSUME NEW i \in DOMAIN All, NEW j \in DOMAIN All, Clash(All[i], All[j])
               PROVE  i = j
    BY DEF OneLivePerTag, Clash
  <2>1. QED
    BY <1>1, MergedLives
<1>6. AtMostOneLateRun
  BY <1>2, <1>3 DEF AtMostOneLateRun
<1>7. QED
  BY <1>4, <1>5, <1>6 DEF TagsHold

(* A tag names one live unit, wherever it is, so that unscheduling by a tag *)
(* reaches what was scheduled by it last; and a unit that was unscheduled   *)
(* runs once more at most.                                                  *)
THEOREM TagsAreSafe == Spec => []TagsHold
BY ListsAgree, TagsFollow, PTL

-----------------------------------------------------------------------------
(* Punctuality. From the moment the task wakes up until it sleeps again it *)
(* runs a unit at most once: k counts the runs since then, and W holds the *)
(* positions of the units that still wait for theirs. A unit that ended is *)
(* in neither, so that k and W together never outgrow the units there may  *)
(* be. What waits is late by the k runs at most; what has run had its      *)
(* whole interval before it then, less the runs that followed its own.     *)
Used(k) == k * MaxRun

InTime(us, ss, e, k, W) ==
  /\ \A i \in DOMAIN us :
       IF i \in W THEN us[i].left >= -Used(k) - e
       ELSE k >= 1 /\ us[i].left >= us[i].interval - Used(k - 1) - e
  /\ \A i \in DOMAIN ss : ss[i].left >= ss[i].interval - Used(k) - e

Busy(k, W) ==
  /\ k + Cardinality(W) <= MaxUnits
  /\ InTime(units, shadow, elapsed, k, W)
  /\ pc \in {"call", "handler"} => at \in W

NoneLate(list) == \A i \in DOMAIN list : list[i].left >= 0

(* Asleep nothing is late, and what was not merged yet keeps it from       *)
(* falling asleep for long.                                                *)
Times ==
  /\ pc # "handler" => elapsed = 0
  /\ shadow # <<>> => notified = TRUE \/ pc = "merge"
  /\ pc \in {"sleep", "merge"} => NoneLate(units) /\ NoneLate(shadow)
  /\ pc \notin {"sleep", "merge"} =>
       \E k \in Nat, W \in SUBSET DOMAIN units : Busy(k, W)

(* A set of numbers has a least one: how an induction is carried out here, *)
(* by its least counterexample.                                            *)
LEMMA LeastOfNats ==
  ASSUME NEW T, T \subseteq Nat, T # {}
  PROVE  \E x \in T : \A y \in T : x <= y
<1> DEFINE R == OpToRel(<, Nat)
<1>1. IsWellFoundedOn(R, Nat)
  BY NatLessThanWellFounded
<1>2. \A x, y \in Nat : x < y => <<x, y>> \in R
  BY DEF OpToRel
<1> HIDE DEF R
<1>3. PICK x \in T : \A y \in T : ~ (<<y, x>> \in R)
  BY <1>1, WFMin
<1>4. \A y \in T : ~(y < x)
  BY <1>2, <1>3
<1>5. QED
  BY <1>3, <1>4

LEMMA UsedFacts ==
  ASSUME NEW k \in Nat
  PROVE  /\ Used(k) \in Nat /\ Used(0) = 0 /\ Used(k + 1) = Used(k) + MaxRun
         /\ k >= 1 => k - 1 \in Nat /\ Used(k - 1) \in Nat /\ Used(k) = Used(k - 1) + MaxRun
         /\ \A n \in Nat : k <= n => Used(k) <= Used(n)
<1>1. MaxRun \in Nat
  BY IntervalAssumption
<1>2. ASSUME NEW n \in Nat, k <= n
      PROVE  Used(k) <= Used(n)
  <2>1. n * MaxRun = k * MaxRun + (n - k) * MaxRun /\ n - k \in Nat
    BY <1>1, <1>2
  <2>2. (n - k) * MaxRun \in Nat
    BY <1>1, <2>1
  <2>3. k * MaxRun \in Nat
    BY <1>1
  <2>4. QED
    BY <2>1, <2>2, <2>3 DEF Used
<1>3. (k - 1) * MaxRun + MaxRun = k * MaxRun /\ (k + 1) * MaxRun = k * MaxRun + MaxRun
  BY <1>1
<1>4. k * MaxRun \in Nat /\ 0 * MaxRun = 0
  BY <1>1
<1>5. k >= 1 => k - 1 \in Nat /\ (k - 1) * MaxRun \in Nat
  BY <1>1
<1>6. QED
  BY <1>2, <1>3, <1>4, <1>5 DEF Used

LEMMA UnitTimes ==
  ASSUME NEW u \in GoodUnits
  PROVE  /\ u.left \in Int /\ u.interval \in Nat /\ u.left <= u.interval
         /\ Used(MaxUnits) <= u.interval
         /\ [u EXCEPT !.erase = TRUE].left = u.left
         /\ [u EXCEPT !.erase = TRUE].interval = u.interval
         /\ [u EXCEPT !.left = @ - 1].left = u.left - 1
         /\ [u EXCEPT !.left = @ - 1].interval = u.interval
         /\ Counted(u).left = u.interval /\ Counted(u).interval = u.interval
<1>1. u \in UnitRecords /\ u.left <= u.interval
  BY DEF GoodUnits
<1>2. u.left \in Int /\ u.interval \in Intervals
  BY <1>1 DEF UnitRecords
<1>3. u.interval \in Nat /\ Used(MaxUnits) <= u.interval
  BY <1>2, IntervalAssumption, LoadAssumption DEF Used
<1>4. Counted(u).left = u.interval /\ Counted(u).interval = u.interval
  BY <1>1 DEF Counted, UnitRecords
<1>5. QED
  BY <1>1, <1>2, <1>3, <1>4 DEF UnitRecords

LEMMA ListFacts ==
  ASSUME NEW list \in Seq(GoodUnits)
  PROVE  /\ Len(list) \in Nat /\ DOMAIN list = 1 .. Len(list)
         /\ IsFiniteSet(DOMAIN list) /\ Cardinality(DOMAIN list) = Len(list)
         /\ \A i \in DOMAIN list :
              /\ list[i] \in GoodUnits
              /\ list[i].left \in Int /\ list[i].interval \in Nat
              /\ list[i].left <= list[i].interval
              /\ Used(MaxUnits) <= list[i].interval
<1>1. /\ Len(list) \in Nat /\ DOMAIN list = 1 .. Len(list)
      /\ \A i \in DOMAIN list : list[i] \in GoodUnits
  BY LenProperties, ElementOfSeq
<1> DEFINE n == Len(list)
<1>2. n \in Nat
  BY <1>1
<1> HIDE DEF n
<1>3. IsFiniteSet(1 .. n) /\ Cardinality(1 .. n) = n
  <2>1. /\ IsFiniteSet(1 .. n)
        /\ Cardinality(1 .. n) = IF 1 > n THEN 0 ELSE n - 1 + 1
    BY <1>2, FS_Interval
  <2>2. QED
    BY <1>2, <2>1
<1>4. IsFiniteSet(DOMAIN list) /\ Cardinality(DOMAIN list) = Len(list)
  BY <1>1, <1>3 DEF n
<1>5. QED
  BY <1>1, <1>4, UnitTimes

LEMMA WaitingFacts ==
  ASSUME NEW list \in Seq(GoodUnits), NEW W \in SUBSET DOMAIN list
  PROVE  IsFiniteSet(W) /\ Cardinality(W) \in Nat /\ Cardinality(W) <= Len(list)
<1>1. IsFiniteSet(DOMAIN list) /\ Cardinality(DOMAIN list) = Len(list)
  BY ListFacts
<1>2. QED
  BY <1>1, FS_Subset, FS_CardinalityType

LEMMA ShapeTimes ==
  ASSUME Shape
  PROVE  /\ units \in Seq(GoodUnits) /\ shadow \in Seq(GoodUnits)
         /\ MaxUnits \in Nat /\ MaxRun \in Nat
         /\ elapsed \in Nat /\ elapsed <= MaxRun
         /\ Len(units) <= MaxUnits
BY ListFacts, IntervalAssumption DEF Shape

(* The runs since it woke up are one for each unit at most.                *)
LEMMA BusyFacts ==
  ASSUME Shape, NEW k \in Nat, NEW W \in SUBSET DOMAIN units, Busy(k, W)
  PROVE  /\ IsFiniteSet(W) /\ Cardinality(W) \in Nat /\ k + Cardinality(W) <= MaxUnits
         /\ k <= MaxUnits /\ Used(k) \in Nat /\ Used(k) <= Used(MaxUnits)
         /\ Used(MaxUnits) \in Nat
         /\ k >= 1 => Used(k - 1) \in Nat /\ Used(k) = Used(k - 1) + MaxRun
<1>1. IsFiniteSet(W) /\ Cardinality(W) \in Nat
  BY ShapeTimes, WaitingFacts
<1>2. k + Cardinality(W) <= MaxUnits /\ MaxUnits \in Nat
  BY ShapeTimes DEF Busy
<1>3. k <= MaxUnits
  BY <1>1, <1>2
<1>4. QED
  BY <1>1, <1>2, <1>3, UsedFacts

(* The units that are closest.                                             *)
LEMMA ClosestFacts ==
  ASSUME Shape, NEW b \in Nat, \A i \in DOMAIN units : units[i].left >= -b,
         units # <<>>
  PROVE  /\ \E i \in DOMAIN units : Closest(i)
         /\ \A i : Closest(i) => /\ i \in DOMAIN units
                                 /\ \A j \in DOMAIN units : units[i].left <= units[j].left
<1> DEFINE S == {j \in DOMAIN units : \A k \in DOMAIN units : units[j].left <= units[k].left}
           T == {units[i].left + b : i \in DOMAIN units}
<1>1. /\ DOMAIN units \subseteq Nat /\ DOMAIN units # {}
      /\ \A i \in DOMAIN units : units[i].left \in Int
  <2>1. /\ units \in Seq(GoodUnits)
        /\ Len(units) \in Nat /\ DOMAIN units = 1 .. Len(units)
        /\ \A i \in DOMAIN units : units[i].left \in Int
    BY ShapeTimes, ListFacts
  <2>2. DOMAIN units # {}
    BY <2>1, EmptySeq
  <2>3. QED
    BY <2>1, <2>2
<1>2. T \subseteq Nat /\ T # {}
  BY <1>1
<1>3. PICK x \in T : \A y \in T : x <= y
  <2> HIDE DEF T
  <2>1. QED
    BY <1>2, LeastOfNats
<1>4. PICK i \in DOMAIN units : x = units[i].left + b
  BY <1>3
<1>5. i \in S
  <2>1. \A k \in DOMAIN units : units[i].left + b <= units[k].left + b
    BY <1>3, <1>4
  <2>2. QED
    BY <1>1, <2>1
<1>6. S \subseteq Nat /\ S # {}
  BY <1>1, <1>5
<1> HIDE DEF S
<1>7. First(S) \in S
  <2>1. \E j \in S : \A k \in S : j <= k
    BY <1>6, LeastOfNats
  <2>2. QED
    BY <2>1 DEF First
<1>8. QED
  BY <1>7 DEF S, Closest

LEMMA Bounded ==
  ASSUME Shape, NEW k \in Nat, NEW W \in SUBSET DOMAIN units, Busy(k, W), elapsed = 0
  PROVE  \A i \in DOMAIN units : units[i].left >= -Used(k)
<1> SUFFICES ASSUME NEW i \in DOMAIN units PROVE units[i].left >= -Used(k)
  OBVIOUS
<1>1. /\ units[i].left \in Int /\ units[i].interval \in Nat /\ Used(k) \in Nat
      /\ Used(MaxUnits) <= units[i].interval /\ Used(k) <= Used(MaxUnits)
      /\ Used(MaxUnits) \in Nat
      /\ k >= 1 => Used(k - 1) \in Nat /\ Used(k) = Used(k - 1) + MaxRun
      /\ MaxRun \in Nat
  BY ShapeTimes, ListFacts, BusyFacts
<1>2. CASE i \in W
  BY <1>1, <1>2 DEF Busy, InTime
<1>3. CASE i \notin W
  <2>1. k >= 1 /\ units[i].left >= units[i].interval - Used(k - 1) - 0
    BY <1>3 DEF Busy, InTime
  <2>2. QED
    BY <1>1, <2>1
<1>4. QED
  BY <1>2, <1>3

-----------------------------------------------------------------------------
SameTimes(old, new) ==
  /\ DOMAIN new = DOMAIN old
  /\ \A i \in DOMAIN old : new[i].left = old[i].left /\ new[i].interval = old[i].interval

LEMMA SameInTime ==
  ASSUME NEW us, NEW vs, NEW ss, NEW ts, NEW e, NEW k, NEW W,
         SameTimes(us, vs), SameTimes(ss, ts), InTime(us, ss, e, k, W)
  PROVE  InTime(vs, ts, e, k, W)
BY DEF SameTimes, InTime

LEMMA MarkedTimes ==
  ASSUME NEW list \in Seq(GoodUnits), NEW i
  PROVE  SameTimes(list, Marked(list, i))
<1>1. \A k \in DOMAIN list :
        Marked(list, i)[k] = IF k = i THEN [list[k] EXCEPT !.erase = TRUE] ELSE list[k]
  <2>1. list = [k \in DOMAIN list |-> list[k]]
    BY LenProperties
  <2>2. QED
    BY <2>1 DEF Marked
<1>2. \A k \in DOMAIN list : list[k] \in GoodUnits
  BY ListFacts
<1>3. ASSUME NEW k \in DOMAIN list
      PROVE  /\ Marked(list, i)[k].left = list[k].left
             /\ Marked(list, i)[k].interval = list[k].interval
  <2>1. CASE k = i
    <3>1. Marked(list, i)[k] = [list[k] EXCEPT !.erase = TRUE]
      BY <1>1, <2>1
    <3>2. QED
      BY <1>2, <3>1, UnitTimes
  <2>2. CASE k # i
    BY <1>1, <2>2
  <2>3. QED
    BY <2>1, <2>2
<1>4. QED
  BY <1>3, MarkedFacts DEF SameTimes

(* A step that leaves all times, and the task where it is or, in the       *)
(* handler, at the unit that it called.                                    *)
LEMMA TimesStay ==
  ASSUME IInv, Times, SameTimes(units, units'), SameTimes(shadow, shadow'),
         notified' = notified, at' = at, elapsed' = elapsed,
         shadow = <<>> => shadow' = <<>>,
         pc' = pc \/ (pc = "call" /\ pc' = "handler")
  PROVE  Times'
<1>1. pc' # "handler" => elapsed' = 0
  BY DEF Times
<1>2. shadow' # <<>> => notified' = TRUE \/ pc' = "merge"
  BY DEF Times
<1>3. pc' \in {"sleep", "merge"} => NoneLate(units)' /\ NoneLate(shadow)'
  BY DEF Times, NoneLate, SameTimes
<1>4. ASSUME pc' \notin {"sleep", "merge"}
      PROVE  \E k \in Nat, W \in SUBSET DOMAIN units' : Busy(k, W)'
  <2>1. PICK k \in Nat, W \in SUBSET DOMAIN units : Busy(k, W)
    BY <1>4 DEF Times
  <2>2. InTime(units', shadow', elapsed', k, W)
    BY <2>1, SameInTime DEF Busy
  <2>3. Busy(k, W)'
    BY <2>1, <2>2 DEF Busy
  <2>4. DOMAIN units' = DOMAIN units
    BY DEF SameTimes
  <2>5. QED
    BY <2>3, <2>4
<1>5. QED
  BY <1>1, <1>2, <1>3, <1>4 DEF Times

(* The task wakes up.                                                      *)
LEMMA PeriodBegins ==
  ASSUME NEW us \in Seq(GoodUnits), Len(us) <= MaxUnits, NoneLate(us)
  PROVE  /\ 0 + Cardinality(DOMAIN us) <= MaxUnits
         /\ InTime(us, <<>>, 0, 0, DOMAIN us)
<1>1. Cardinality(DOMAIN us) = Len(us) /\ Len(us) \in Nat /\ MaxUnits \in Nat
  BY ListFacts, IntervalAssumption
<1>2. \A i \in DOMAIN us : us[i].left \in Int
  BY ListFacts
<1>3. \A i \in DOMAIN us : us[i].left >= -Used(0) - 0
  <2>1. Used(0) = 0
    BY UsedFacts
  <2>2. \A i \in DOMAIN us : us[i].left >= 0
    BY DEF NoneLate
  <2>3. QED
    BY <1>2, <2>1, <2>2
<1>4. QED
  BY <1>1, <1>3 DEF InTime

LEMMA AddTimes ==
  ASSUME IInv, Times, NEW t, NEW i \in Intervals, NEW r \in Repeats,
         Add(Unit(t, i, r)), UNCHANGED <<units, taskVars>>
  PROVE  Times'
<1> DEFINE u == Unit(t, i, r)
<1>1. /\ Shape
      /\ units' = units /\ pc' = pc /\ at' = at /\ elapsed' = elapsed
      /\ shadow' = Append(shadow, u) /\ notified' = TRUE
  BY DEF IInv, Add, taskVars
<1>2. u.left = i /\ u.interval = i /\ i \in Nat
  BY IntervalAssumption DEF Unit
<1> HIDE DEF u
<1>3. /\ DOMAIN shadow' = 1 .. Len(shadow) + 1 /\ DOMAIN shadow = 1 .. Len(shadow)
      /\ Len(shadow) \in Nat
      /\ \A k \in 1 .. Len(shadow) : shadow'[k] = shadow[k]
      /\ shadow'[Len(shadow) + 1] = u
  BY <1>1, AppendProperties, LenProperties DEF Shape
<1>4. pc' \in {"sleep", "merge"} => NoneLate(units)' /\ NoneLate(shadow)'
  BY <1>1, <1>2, <1>3 DEF Times, NoneLate
<1>5. ASSUME pc' \notin {"sleep", "merge"}
      PROVE  \E k \in Nat, W \in SUBSET DOMAIN units' : Busy(k, W)'
  <2>1. PICK k \in Nat, W \in SUBSET DOMAIN units : Busy(k, W)
    BY <1>1, <1>5 DEF Times
  <2>2. Used(k) \in Nat /\ elapsed \in Nat
    BY <1>1, UsedFacts, ShapeTimes
  <2>3. u.left >= u.interval - Used(k) - elapsed
    BY <1>2, <2>2
  <2>4. InTime(units', shadow', elapsed', k, W)
    BY <1>1, <1>3, <2>1, <2>3 DEF Busy, InTime
  <2>5. QED
    BY <1>1, <2>1, <2>4 DEF Busy
<1>6. QED
  BY <1>1, <1>4, <1>5 DEF Times

LEMMA UnscheduleTimes ==
  ASSUME IInv, Times, NEW t \in Tags, Unschedule(t)
  PROVE  Times'
<1>1. /\ units \in Seq(GoodUnits) /\ shadow \in Seq(GoodUnits)
      /\ notified' = notified /\ pc' = pc /\ at' = at /\ elapsed' = elapsed
  BY DEF IInv, Shape, Unschedule, taskVars
<1>2. \/ units' = units /\ \E i : shadow' = Marked(shadow, i)
      \/ shadow' = shadow /\ \E i : units' = Marked(units, i)
  BY DEF Unschedule
<1>3. /\ SameTimes(units, units)
      /\ SameTimes(shadow, shadow)
  BY DEF SameTimes
<1>4. SameTimes(units, units') /\ SameTimes(shadow, shadow')
  BY <1>1, <1>2, <1>3, MarkedTimes
<1>5. shadow = <<>> => shadow' = <<>>
  BY <1>2 DEF Marked
<1>6. QED
  BY <1>1, <1>4, <1>5, TimesStay

-----------------------------------------------------------------------------
(* A unit goes, and with it the last position: who waited there waits at   *)
(* the position of the unit that went.                                     *)
LEMMA DropTimes ==
  ASSUME IInv, Times, Drop \/ Retire
  PROVE  Times'
<1>1. /\ Shape /\ shadow' = shadow /\ notified' = notified
      /\ elapsed' = elapsed /\ elapsed = 0
      /\ pc' = "loop" /\ pc \notin {"sleep", "merge"}
  <2>1. CASE Drop
    BY <2>1 DEF IInv, Drop, taskVars, Times
  <2>2. CASE Retire
    BY <2>2 DEF IInv, Retire, Times
  <2>3. QED
    BY <2>1, <2>2
<1>2. PICK i \in DOMAIN units : units' = Without(i)
  BY <1>1 DEF Drop, Retire, Shape
<1> DEFINE n == Len(units)
<1>3. /\ DOMAIN units = 1 .. n /\ n \in Nat /\ n \in DOMAIN units
      /\ DOMAIN units' = 1 .. n - 1
      /\ \A p \in 1 .. n - 1 : units'[p] = IF p = i THEN units[n] ELSE units[p]
  <2>1. DOMAIN units = 1 .. n /\ n \in Nat
    BY <1>1, AllFacts
  <2>2. n \in DOMAIN units
    BY <2>1
  <2>3. QED
    BY <1>1, <1>2, <2>1, <2>2, WithoutFacts
<1> HIDE DEF n
<1>4. PICK k \in Nat, W \in SUBSET DOMAIN units : Busy(k, W)
  BY <1>1 DEF Times
<1> DEFINE V == {p \in 1 .. n - 1 : IF p = i THEN n \in W ELSE p \in W}
<1>5. /\ IsFiniteSet(W) /\ Cardinality(W) \in Nat /\ k + Cardinality(W) <= MaxUnits
      /\ MaxUnits \in Nat
  BY <1>1, <1>4, BusyFacts, ShapeTimes
<1>6. IsFiniteSet(V) /\ Cardinality(V) \in Nat /\ Cardinality(V) <= Cardinality(W)
  <2>1. CASE n \notin W \/ i \in W \/ i = n
    <3>1. V \in SUBSET W
      BY <1>3, <2>1
    <3> HIDE DEF V
    <3>2. QED
      BY <1>5, <3>1, FS_Subset, FS_CardinalityType
  <2>2. CASE n \in W /\ i \notin W /\ i # n
    <3> DEFINE U == W \ {n}
    <3>1. V = U \union {i} /\ i \notin U
      BY <1>3, <2>2
    <3> HIDE DEF V
    <3>2. IsFiniteSet(U) /\ Cardinality(U) = Cardinality(W) - 1
      BY <1>5, <2>2, FS_RemoveElement
    <3> HIDE DEF U
    <3>3. IsFiniteSet(U \union {i}) /\ Cardinality(U \union {i}) = Cardinality(U) + 1
      BY <3>1, <3>2, FS_AddElement
    <3>4. QED
      BY <1>5, <3>1, <3>2, <3>3
  <2>3. QED
    BY <2>1, <2>2
<1>7. V \in SUBSET DOMAIN units'
  BY <1>3
<1>8. InTime(units', shadow', elapsed', k, V)
  <2>1. ASSUME NEW p \in DOMAIN units'
        PROVE  IF p \in V THEN units'[p].left >= -Used(k) - elapsed'
               ELSE k >= 1 /\ units'[p].left >= units'[p].interval - Used(k - 1) - elapsed'
    <3>1. PICK q \in DOMAIN units : units'[p] = units[q] /\ (p \in V <=> q \in W)
      BY <1>3
    <3>2. QED
      BY <1>1, <1>4, <3>1 DEF Busy, InTime
  <2>2. QED
    BY <1>1, <1>4, <2>1 DEF Busy, InTime
<1>9. PICK X : X = V
  OBVIOUS
<1>10. X \in SUBSET DOMAIN units' /\ Busy(k, X)'
  <2> HIDE DEF V
  <2>1. k + Cardinality(X) <= MaxUnits
    BY <1>5, <1>6, <1>9
  <2>2. QED
    BY <1>1, <1>7, <1>8, <1>9, <2>1 DEF Busy
<1>11. QED
  BY <1>1, <1>10 DEF Times

(* A unit falls due that has run: only if handlers take no time.           *)
LEMMA BeginTimes ==
  ASSUME IInv, Times, Begin
  PROVE  Times'
<1>1. /\ Shape /\ UNCHANGED <<units, shadow, notified, elapsed>> /\ pc' = "call"
      /\ pc = "loop" /\ elapsed = 0
  BY DEF IInv, Begin, Times
<1>2. at' \in DOMAIN units /\ Closest(at') /\ units[at'].left <= 0
  BY DEF Begin, Due
<1>3. PICK k \in Nat, W \in SUBSET DOMAIN units : Busy(k, W)
  BY <1>1 DEF Times
<1>4. /\ \A i \in DOMAIN units : units[i].left \in Int /\ units[i].interval \in Nat
                                 /\ Used(MaxUnits) <= units[i].interval
      /\ \A i \in DOMAIN shadow : shadow[i].left \in Int /\ shadow[i].interval \in Nat
      /\ Used(k) \in Nat /\ Used(k) <= Used(MaxUnits) /\ MaxRun \in Nat
      /\ Used(MaxUnits) \in Nat
      /\ k >= 1 => Used(k - 1) \in Nat /\ Used(k) = Used(k - 1) + MaxRun
  BY <1>1, <1>3, ShapeTimes, ListFacts, BusyFacts
<1>5. CASE at' \in W
  BY <1>1, <1>3, <1>5 DEF Busy, Times
<1>6. CASE at' \notin W
  <2>1. k >= 1 /\ units[at'].left >= units[at'].interval - Used(k - 1) - 0
    BY <1>1, <1>2, <1>3, <1>6 DEF Busy, InTime
  <2>2. MaxRun = 0 /\ units[at'].left = 0
    BY <1>2, <1>4, <2>1
  <2>3. Used(k) = 0 /\ Used(0) = 0
    BY <2>2 DEF Used
  <2>4. \A i \in DOMAIN units : units[i].left >= 0
    BY <1>1, <1>3, <1>4, <2>3, Bounded
  <2>5. 0 + Cardinality(DOMAIN units) <= MaxUnits
    <3>1. units \in Seq(GoodUnits) /\ Len(units) <= MaxUnits /\ NoneLate(units)
      BY <1>1, <2>4, ShapeTimes DEF NoneLate
    <3>2. QED
      BY <3>1, PeriodBegins
  <2>6. InTime(units, shadow, elapsed, 0, DOMAIN units)
    <3>1. \A i \in DOMAIN units : units[i].left >= -Used(0) - elapsed
      BY <1>1, <1>4, <2>3, <2>4
    <3>2. \A i \in DOMAIN shadow : shadow[i].left >= shadow[i].interval - Used(0) - elapsed
      BY <1>3, <2>3 DEF Busy, InTime
    <3>3. QED
      BY <3>1, <3>2 DEF InTime
  <2>7. Busy(0, DOMAIN units)'
    BY <1>1, <1>2, <2>5, <2>6 DEF Busy
  <2>8. QED
    BY <1>1, <2>7 DEF Times
<1>7. QED
  BY <1>5, <1>6

LEMMA CallTimes ==
  ASSUME IInv, Times, Call
  PROVE  Times'
<1>1. /\ Shape /\ units \in Seq(GoodUnits) /\ pc = "call" /\ pc' = "handler"
      /\ shadow' = shadow /\ notified' = notified /\ at' = at /\ elapsed' = elapsed
  BY DEF IInv, Call, Shape
<1>2. SameTimes(shadow, shadow')
  BY <1>1 DEF SameTimes
<1>3. SameTimes(units, units')
  <2> DEFINE u == [units[at] EXCEPT !.late = @ + IF units[at].erase THEN 1 ELSE 0]
  <2>1. units' = [units EXCEPT ![at] = u]
    BY DEF Call
  <2>2. at \in DOMAIN units /\ units[at] \in UnitRecords
    BY <1>1, ListFacts DEF Shape, GoodUnits
  <2>3. u.left = units[at].left /\ u.interval = units[at].interval
    BY <2>2 DEF UnitRecords
  <2> HIDE DEF u
  <2>4. DOMAIN units' = DOMAIN units
    BY <2>1
  <2>5. \A k \in DOMAIN units : units'[k] = IF k = at THEN u ELSE units[k]
    BY <2>1
  <2>6. QED
    BY <2>3, <2>4, <2>5 DEF SameTimes
<1>4. QED
  BY <1>1, <1>2, <1>3, TimesStay

LEMMA EndHandlerTimes ==
  ASSUME IInv, Times, EndHandler
  PROVE  Times'
<1>1. /\ Shape /\ pc = "handler" /\ pc' \in {"retire", "loop"}
      /\ shadow' = shadow /\ notified' = notified /\ elapsed' = 0
      /\ units' = [units EXCEPT ![at] = Counted(units[at])]
  BY DEF IInv, EndHandler
<1>2. PICK k \in Nat, W \in SUBSET DOMAIN units : Busy(k, W)
  BY <1>1 DEF Times
<1>3. at \in W
  BY <1>1, <1>2 DEF Busy
<1>4. /\ \A i \in DOMAIN units : units[i].left \in Int /\ units[i].interval \in Nat
      /\ \A i \in DOMAIN shadow : shadow[i].left \in Int /\ shadow[i].interval \in Nat
      /\ units[at] \in GoodUnits
      /\ elapsed \in Nat /\ elapsed <= MaxRun /\ MaxRun \in Nat /\ MaxUnits \in Nat
  BY <1>1, <1>3, ShapeTimes, ListFacts
<1>5. /\ IsFiniteSet(W) /\ Cardinality(W) \in Nat /\ k + Cardinality(W) <= MaxUnits
      /\ Used(k) \in Nat /\ Used(k + 1) = Used(k) + MaxRun
      /\ k >= 1 => Used(k - 1) \in Nat /\ Used(k) = Used(k - 1) + MaxRun
  BY <1>1, <1>2, BusyFacts, UsedFacts
<1> DEFINE V == W \ {at}
<1>6. IsFiniteSet(V) /\ Cardinality(V) = Cardinality(W) - 1
  BY <1>3, <1>5, FS_RemoveElement
<1>7. /\ DOMAIN units' = DOMAIN units
      /\ \A i \in DOMAIN units : units'[i] = IF i = at THEN Counted(units[at]) ELSE units[i]
  BY <1>1
<1>8. /\ Counted(units[at]).left = units[at].interval
      /\ Counted(units[at]).interval = units[at].interval
  BY <1>4, UnitTimes
<1>9. ASSUME NEW i \in DOMAIN units'
      PROVE  IF i \in V THEN units'[i].left >= -Used(k + 1) - 0
             ELSE k + 1 >= 1 /\ units'[i].left >= units'[i].interval - Used(k + 1 - 1) - 0
  <2>1. k + 1 - 1 = k /\ k + 1 >= 1
    OBVIOUS
  <2>2. CASE i = at
    <3>1. units'[i].left = units[at].interval /\ units'[i].interval = units[at].interval
      BY <1>7, <1>8, <1>9, <2>2
    <3>2. units[at].interval \in Nat
      BY <1>3, <1>4
    <3>3. QED
      BY <1>5, <2>1, <2>2, <3>1, <3>2
  <2>3. CASE i # at /\ i \in W
    <3>1. units'[i] = units[i] /\ units[i].left >= -Used(k) - elapsed
      BY <1>2, <1>7, <1>9, <2>3 DEF Busy, InTime
    <3>2. QED
      BY <1>4, <1>5, <1>7, <2>3, <3>1
  <2>4. CASE i # at /\ i \notin W
    <3>1. /\ units'[i] = units[i] /\ k >= 1
          /\ units[i].left >= units[i].interval - Used(k - 1) - elapsed
      BY <1>2, <1>7, <1>9, <2>4 DEF Busy, InTime
    <3>2. units[i].left \in Int /\ units[i].interval \in Nat
      BY <1>4, <1>7, <1>9
    <3>3. units[i].left >= units[i].interval - Used(k) - 0
      BY <1>4, <1>5, <3>1, <3>2
    <3>4. QED
      BY <2>1, <2>4, <3>1, <3>3
  <2>5. QED
    BY <2>2, <2>3, <2>4
<1>10. ASSUME NEW i \in DOMAIN shadow'
       PROVE  shadow'[i].left >= shadow'[i].interval - Used(k + 1) - 0
  <2>1. shadow[i].left >= shadow[i].interval - Used(k) - elapsed
    BY <1>1, <1>2, <1>10 DEF Busy, InTime
  <2>2. QED
    BY <1>1, <1>4, <1>5, <1>10, <2>1
<1>11. InTime(units', shadow', elapsed', k + 1, V)
  BY <1>1, <1>9, <1>10 DEF InTime
<1>12. V \in SUBSET DOMAIN units'
  BY <1>7
<1>13. PICK X, l : X = V /\ l = k + 1
  OBVIOUS
<1>14. X \in SUBSET DOMAIN units' /\ l \in Nat /\ Busy(l, X)'
  <2> HIDE DEF V
  <2>1. l + Cardinality(X) <= MaxUnits /\ l \in Nat
    BY <1>4, <1>5, <1>6, <1>13
  <2>2. QED
    BY <1>1, <1>11, <1>12, <1>13, <2>1 DEF Busy
<1>15. QED
  BY <1>1, <1>14 DEF Times

(* The task falls asleep only if nothing is due, so that nothing is late.  *)
LEMMA SleepTimes ==
  ASSUME IInv, Times, Sleep
  PROVE  Times'
<1>1. /\ Shape /\ UNCHANGED <<units, shadow, notified, elapsed>> /\ pc' = "sleep"
      /\ pc = "loop" /\ elapsed = 0 /\ ~\E i \in DOMAIN units : Due(i)
  BY DEF IInv, Sleep, Times
<1>2. PICK k \in Nat, W \in SUBSET DOMAIN units : Busy(k, W)
  BY <1>1 DEF Times
<1>3. /\ \A i \in DOMAIN units : units[i].left \in Int
      /\ \A i \in DOMAIN shadow : /\ shadow[i].left \in Int /\ shadow[i].interval \in Nat
                                  /\ Used(MaxUnits) <= shadow[i].interval
      /\ Used(k) \in Nat /\ Used(k) <= Used(MaxUnits) /\ Used(MaxUnits) \in Nat
  BY <1>1, <1>2, ShapeTimes, ListFacts, BusyFacts
<1>4. NoneLate(units)
  <2>1. CASE units = <<>>
    BY <2>1 DEF NoneLate
  <2>2. CASE units # <<>>
    <3>1. \A i \in DOMAIN units : units[i].left >= -Used(k)
      BY <1>1, <1>2, Bounded
    <3>2. PICK i \in DOMAIN units : Closest(i)
      BY <1>1, <1>3, <2>2, <3>1, ClosestFacts
    <3>3. \A j \in DOMAIN units : units[i].left <= units[j].left
      BY <1>1, <1>3, <2>2, <3>1, <3>2, ClosestFacts
    <3>4. ~(units[i].left <= 0)
      BY <1>1, <3>2 DEF Due
    <3>5. QED
      BY <1>3, <3>3, <3>4 DEF NoneLate
  <2>3. QED
    BY <2>1, <2>2
<1>5. NoneLate(shadow)
  <2>1. \A i \in DOMAIN shadow : shadow[i].left >= shadow[i].interval - Used(k) - 0
    BY <1>1, <1>2 DEF Busy, InTime
  <2>2. QED
    BY <1>3, <2>1 DEF NoneLate
<1>6. NoneLate(units)' /\ NoneLate(shadow)'
  BY <1>1, <1>4, <1>5 DEF NoneLate
<1>7. QED
  BY <1>1, <1>6 DEF Times

LEMMA WakeTimes ==
  ASSUME IInv, IInv', Times, Timeout \/ Merge
  PROVE  Times'
<1>1. Shape /\ Shape' /\ pc' = "loop" /\ elapsed' = 0
  BY DEF IInv, Timeout, Merge, Times
<1>2. shadow' = <<>> /\ NoneLate(units')
  <2>1. CASE Timeout
    BY <2>1 DEF Timeout, Times, NoneLate
  <2>2. CASE Merge
    <3>1. units' = All /\ shadow' = <<>> /\ NoneLate(units) /\ NoneLate(shadow)
      BY <2>2 DEF Merge, Times
    <3>2. ASSUME NEW i \in DOMAIN All
          PROVE  All[i].left >= 0
      <4>1. CASE i <= Len(units)
        <5>1. i \in DOMAIN units /\ All[i] = units[i]
          BY <1>1, <3>2, <4>1, AllFacts
        <5>2. QED
          BY <3>1, <5>1 DEF NoneLate
      <4>2. CASE i > Len(units)
        <5>1. i - Len(units) \in DOMAIN shadow /\ All[i] = shadow[i - Len(units)]
          BY <1>1, <3>2, <4>2, AllFacts
        <5>2. QED
          BY <3>1, <5>1 DEF NoneLate
      <4>3. QED
        BY <1>1, <3>2, <4>1, <4>2, AllFacts
    <3>3. QED
      BY <3>1, <3>2 DEF NoneLate
  <2>3. QED
    BY <2>1, <2>2
<1>3. units' \in Seq(GoodUnits) /\ Len(units') <= MaxUnits
  <2>1. units' \in Seq(GoodUnits) /\ Len(units') + Len(<<>>) <= MaxUnits
    BY <1>1, <1>2 DEF Shape
  <2>2. Len(units') \in Nat
    BY <2>1, LenProperties
  <2>3. QED
    BY <2>1, <2>2, IntervalAssumption
<1>4. 0 + Cardinality(DOMAIN units') <= MaxUnits /\ InTime(units', <<>>, 0, 0, DOMAIN units')
  BY <1>2, <1>3, PeriodBegins
<1>5. Busy(0, DOMAIN units)'
  BY <1>1, <1>2, <1>4 DEF Busy
<1>6. QED
  BY <1>1, <1>2, <1>5 DEF Times

(* Asleep time passes only while the closest unit has some left.           *)
LEMMA TickTimes ==
  ASSUME IInv, Times, Tick
  PROVE  Times'
<1>1. /\ Shape /\ units' = Aged(units) /\ shadow' = Aged(shadow)
      /\ notified' = notified /\ pc' = pc /\ at' = at /\ pc \in {"sleep", "handler"}
      /\ units \in Seq(GoodUnits) /\ shadow \in Seq(GoodUnits)
  BY DEF IInv, Tick, Shape
<1>2. /\ DOMAIN units' = DOMAIN units /\ DOMAIN shadow' = DOMAIN shadow
      /\ \A i \in DOMAIN units : units[i].left \in Int /\ units[i].interval \in Nat
      /\ \A i \in DOMAIN shadow : shadow[i].left \in Int /\ shadow[i].interval \in Nat
      /\ \A i \in DOMAIN units : /\ units'[i].left = units[i].left - 1
                                 /\ units'[i].interval = units[i].interval
      /\ \A i \in DOMAIN shadow : /\ shadow'[i].left = shadow[i].left - 1
                                  /\ shadow'[i].interval = shadow[i].interval
      /\ elapsed \in Nat
      /\ shadow = <<>> => shadow' = <<>>
  <2>1. /\ DOMAIN units' = DOMAIN units /\ DOMAIN shadow' = DOMAIN shadow
        /\ \A i \in DOMAIN units : units'[i] = [units[i] EXCEPT !.left = @ - 1]
        /\ \A i \in DOMAIN shadow : shadow'[i] = [shadow[i] EXCEPT !.left = @ - 1]
    BY <1>1 DEF Aged
  <2>2. shadow = <<>> => shadow' = <<>>
    BY <1>1 DEF Aged
  <2>3. /\ \A i \in DOMAIN units : units[i] \in GoodUnits
        /\ \A i \in DOMAIN shadow : shadow[i] \in GoodUnits
    BY <1>1, ListFacts
  <2>4. QED
    BY <1>1, <2>1, <2>2, <2>3, UnitTimes, ShapeTimes
<1>3. CASE pc = "sleep"
  <2>1. /\ ~notified /\ All # <<>> /\ (units = <<>> \/ ~TimeUp) /\ elapsed' = elapsed
        /\ NoneLate(units) /\ shadow = <<>> /\ elapsed = 0
    BY <1>3 DEF Tick, Times
  <2>2. units # <<>>
    BY <1>1, <2>1 DEF All
  <2>3. PICK i \in DOMAIN units : Closest(i) /\ ~(units[i].left <= 0)
    BY <2>1, <2>2 DEF TimeUp
  <2>4. \A j \in DOMAIN units : units[i].left <= units[j].left
    <3>1. \A j \in DOMAIN units : units[j].left >= -0
      BY <1>2, <2>1 DEF NoneLate
    <3>2. QED
      BY <1>1, <2>2, <2>3, <3>1, ClosestFacts
  <2>5. NoneLate(units')
    <3>1. \A j \in DOMAIN units : units[j].left - 1 >= 0
      BY <1>2, <2>3, <2>4
    <3>2. QED
      BY <1>2, <3>1 DEF NoneLate
  <2>6. shadow' = <<>> /\ NoneLate(shadow')
    BY <1>2, <2>1 DEF NoneLate
  <2>7. QED
    BY <1>1, <1>3, <2>1, <2>5, <2>6 DEF Times, NoneLate
<1>4. CASE pc = "handler"
  <2>1. elapsed' = elapsed + 1
    BY <1>4 DEF Tick
  <2>2. PICK k \in Nat, W \in SUBSET DOMAIN units : Busy(k, W)
    BY <1>4 DEF Times
  <2>3. /\ Used(k) \in Nat
        /\ k >= 1 => Used(k - 1) \in Nat
    BY UsedFacts
  <2>4. ASSUME NEW i \in DOMAIN units'
        PROVE  IF i \in W THEN units'[i].left >= -Used(k) - elapsed'
               ELSE k >= 1 /\ units'[i].left >= units'[i].interval - Used(k - 1) - elapsed'
    <3>1. CASE i \in W
      <4>1. units[i].left >= -Used(k) - elapsed
        BY <1>2, <2>2, <2>4, <3>1 DEF Busy, InTime
      <4>2. QED
        BY <1>2, <2>1, <2>3, <2>4, <3>1, <4>1
    <3>2. CASE i \notin W
      <4>1. k >= 1 /\ units[i].left >= units[i].interval - Used(k - 1) - elapsed
        BY <1>2, <2>2, <2>4, <3>2 DEF Busy, InTime
      <4>2. QED
        BY <1>2, <2>1, <2>3, <2>4, <3>2, <4>1
    <3>3. QED
      BY <3>1, <3>2
  <2>5. ASSUME NEW i \in DOMAIN shadow'
        PROVE  shadow'[i].left >= shadow'[i].interval - Used(k) - elapsed'
    <3>1. shadow[i].left >= shadow[i].interval - Used(k) - elapsed
      BY <1>2, <2>2, <2>5 DEF Busy, InTime
    <3>2. QED
      BY <1>2, <2>1, <2>3, <2>5, <3>1
  <2>6. InTime(units', shadow', elapsed', k, W)
    BY <2>4, <2>5 DEF InTime
  <2>7. Busy(k, W)'
    BY <1>1, <2>2, <2>6 DEF Busy
  <2>8. shadow' # <<>> => notified' = TRUE \/ pc' = "merge"
    BY <1>1, <1>2, <1>4 DEF Times
  <2>9. QED
    BY <1>1, <1>2, <1>4, <2>2, <2>7, <2>8 DEF Times
<1>5. QED
  BY <1>1, <1>3, <1>4

-----------------------------------------------------------------------------
LEMMA TimesInit == Init => Times
<1> SUFFICES ASSUME Init PROVE Times
  OBVIOUS
<1>1. /\ Shape /\ units = <<>> /\ shadow = <<>> /\ pc = "loop" /\ elapsed = 0
  BY InitHolds DEF Init, IInv
<1>2. 0 + Cardinality(DOMAIN units) <= MaxUnits /\ InTime(units, <<>>, 0, 0, DOMAIN units)
  <2>1. units \in Seq(GoodUnits) /\ Len(units) <= MaxUnits /\ NoneLate(units)
    BY <1>1, ShapeTimes DEF NoneLate
  <2>2. QED
    BY <2>1, PeriodBegins
<1>3. Busy(0, DOMAIN units)
  BY <1>1, <1>2 DEF Busy
<1>4. QED
  BY <1>1, <1>3 DEF Times

LEMMA TimesStep ==
  ASSUME IInv, IInv', Times, [Next]_vars
  PROVE  Times'
<1>1. ASSUME NEW t \in Tags, Schedule(t)
      PROVE  Times'
  BY <1>1, AddTimes DEF Schedule
<1>2. CASE ScheduleAnonymous
  BY <1>2, AddTimes DEF ScheduleAnonymous
<1>3. ASSUME NEW t \in Tags, Unschedule(t)
      PROVE  Times'
  BY <1>3, UnscheduleTimes
<1>4. CASE Drop \/ Retire
  BY <1>4, DropTimes
<1>5. CASE Begin
  BY <1>5, BeginTimes
<1>6. CASE Call
  BY <1>6, CallTimes
<1>7. CASE EndHandler
  BY <1>7, EndHandlerTimes
<1>8. CASE Sleep
  BY <1>8, SleepTimes
<1>9. CASE Notified
  BY <1>9 DEF Notified, Times, NoneLate
<1>10. CASE Timeout \/ Merge
  BY <1>10, WakeTimes
<1>11. CASE Tick
  BY <1>11, TickTimes
<1>12. CASE UNCHANGED vars
  <2>1. /\ units' = units /\ shadow' = shadow /\ notified' = notified
        /\ pc' = pc /\ at' = at /\ elapsed' = elapsed
    BY <1>12 DEF vars, taskVars
  <2>2. SameTimes(units, units') /\ SameTimes(shadow, shadow')
    BY <2>1 DEF SameTimes
  <2>3. QED
    BY <2>1, <2>2, TimesStay
<1>13. QED
  BY <1>1, <1>2, <1>3, <1>4, <1>5, <1>6, <1>7, <1>8, <1>9, <1>10, <1>11, <1>12
     DEF Next, ClientStep, TaskStep

LEMMA TimesBound ==
  ASSUME IInv, Times
  PROVE  Punctual
<1> SUFFICES ASSUME pc = "call" PROVE -units[at].left <= (MaxUnits - 1) * MaxRun
  BY DEF Punctual
<1>1. Shape /\ elapsed = 0 /\ at \in DOMAIN units
  BY DEF IInv, Times, Shape
<1>2. PICK k \in Nat, W \in SUBSET DOMAIN units : Busy(k, W)
  BY DEF Times
<1>3. at \in W
  BY <1>2 DEF Busy
<1>4. IsFiniteSet(W) /\ Cardinality(W) \in Nat /\ k + Cardinality(W) <= MaxUnits
  BY <1>1, <1>2, BusyFacts
<1>5. Cardinality(W) >= 1
  BY <1>3, <1>4, FS_EmptySet
<1>6. MaxUnits \in Nat /\ MaxUnits - 1 \in Nat /\ k <= MaxUnits - 1
  BY <1>4, <1>5, IntervalAssumption
<1>7. Used(k) \in Nat /\ Used(MaxUnits - 1) \in Nat /\ Used(k) <= Used(MaxUnits - 1)
  BY <1>6, UsedFacts
<1>8. units[at].left \in Int /\ units[at].left >= -Used(k)
  BY <1>1, <1>2, ShapeTimes, ListFacts, Bounded
<1>9. -units[at].left <= Used(MaxUnits - 1)
  BY <1>7, <1>8
<1>10. QED
  BY <1>9 DEF Used

(* No handler is called later than the others that were due take to run,   *)
(* whatever clients schedule and unschedule meanwhile.                     *)
THEOREM PunctualIsSafe == Spec => []Punctual
<1>1. Init => IInv /\ Times
  BY InitHolds, TimesInit
<1>2. IInv /\ Times /\ [Next]_vars => (IInv /\ Times)'
  BY StepHolds, TimesStep
<1>3. IInv /\ Times => Punctual
  BY TimesBound
<1>4. QED
  BY <1>1, <1>2, <1>3, PTL DEF Spec

-----------------------------------------------------------------------------
(* How often a handler runs. A unit that ends counts its runs and what is  *)
(* left of them; none is left only of the unit that is about to go.        *)
Counting(u) ==
  IF u.asked > 0 THEN u.ran + u.repeat = u.asked /\ u.repeat >= 0 ELSE u.repeat <= 0

Over(u) == u.asked > 0 /\ u.repeat = 0

Counts ==
  /\ \A k \in DOMAIN units : /\ Counting(units[k])
                             /\ Over(units[k]) <=> pc = "retire" /\ k = at
  /\ \A k \in DOMAIN shadow : Counting(shadow[k]) /\ ~Over(shadow[k])

(* What a step may leave of a list: each unit is there, as it was.         *)
SameCounts(u, w) == w.asked = u.asked /\ w.repeat = u.repeat /\ w.ran = u.ran

LEMMA Elements ==
  ASSUME Shape
  PROVE  /\ \A k \in DOMAIN units : units[k] \in GoodUnits /\ units[k] \in UnitRecords
         /\ \A k \in DOMAIN shadow : shadow[k] \in GoodUnits /\ shadow[k] \in UnitRecords
BY LenProperties, ElementOfSeq DEF Shape, GoodUnits

LEMMA SameCounting ==
  ASSUME NEW u, NEW w, SameCounts(u, w)
  PROVE  (Counting(w) <=> Counting(u)) /\ (Over(w) <=> Over(u))
BY DEF SameCounts, Counting, Over

LEMMA CountsStay ==
  ASSUME Counts, DOMAIN units' = DOMAIN units, DOMAIN shadow' = DOMAIN shadow,
         \A k \in DOMAIN units : SameCounts(units[k], units'[k]),
         \A k \in DOMAIN shadow : SameCounts(shadow[k], shadow'[k]),
         pc = "retire" <=> pc' = "retire", pc = "retire" => at' = at
  PROVE  Counts'
<1>1. ASSUME NEW k \in DOMAIN units
      PROVE  Counting(units'[k]) /\ (Over(units'[k]) <=> pc' = "retire" /\ k = at')
  <2>1. Counting(units[k]) /\ (Over(units[k]) <=> pc = "retire" /\ k = at)
    BY DEF Counts
  <2>2. QED
    BY <2>1, SameCounting
<1>2. ASSUME NEW k \in DOMAIN shadow
      PROVE  Counting(shadow'[k]) /\ ~Over(shadow'[k])
  BY SameCounting DEF Counts
<1>3. QED
  BY <1>1, <1>2 DEF Counts

LEMMA NewCounts ==
  ASSUME NEW t, NEW i \in Intervals, NEW r \in Repeats
  PROVE  Counting(Unit(t, i, r)) /\ ~Over(Unit(t, i, r))
BY IntervalAssumption DEF Unit, Counting, Over

LEMMA AddCounts ==
  ASSUME IInv, Counts, NEW t, NEW i \in Intervals, NEW r \in Repeats,
         Add(Unit(t, i, r)), UNCHANGED <<units, taskVars>>
  PROVE  Counts'
<1> DEFINE u == Unit(t, i, r)
<1>1. Counting(u) /\ ~Over(u) /\ shadow' = Append(shadow, u) /\ UNCHANGED <<units, pc, at>>
  BY NewCounts DEF Add, taskVars
<1> HIDE DEF u
<1>2. shadow \in Seq(GoodUnits)
  BY DEF IInv, Shape
<1>3. /\ DOMAIN shadow = 1 .. Len(shadow) /\ DOMAIN shadow' = 1 .. Len(shadow) + 1
      /\ Len(shadow) \in Nat /\ shadow'[Len(shadow) + 1] = u
      /\ \A k \in 1 .. Len(shadow) : shadow'[k] = shadow[k]
  BY <1>1, <1>2
<1>4. ASSUME NEW k \in DOMAIN shadow'
      PROVE  Counting(shadow'[k]) /\ ~Over(shadow'[k])
  <2>1. CASE k = Len(shadow) + 1
    BY <1>1, <1>3, <2>1
  <2>2. CASE k \in 1 .. Len(shadow)
    BY <1>3, <2>2 DEF Counts
  <2>3. QED
    BY <1>3, <2>1, <2>2
<1>5. QED
  BY <1>1, <1>4 DEF Counts

LEMMA MarkedCounts ==
  ASSUME NEW list \in Seq(GoodUnits), NEW i
  PROVE  /\ DOMAIN Marked(list, i) = DOMAIN list
         /\ \A k \in DOMAIN list :
              /\ SameCounts(list[k], Marked(list, i)[k])
              /\ k # i => Marked(list, i)[k] = list[k]
              /\ k = i => Marked(list, i)[k].erase = TRUE
<1> DEFINE f == [k \in DOMAIN list |->
                  IF k = i THEN [list[k] EXCEPT !.erase = TRUE] ELSE list[k]]
<1>1. Marked(list, i) = f
  <2>1. list = [k \in DOMAIN list |-> list[k]]
    BY LenProperties
  <2>2. QED
    BY <2>1 DEF Marked
<1>2. ASSUME NEW k \in DOMAIN list
      PROVE  /\ SameCounts(list[k], [list[k] EXCEPT !.erase = TRUE])
             /\ [list[k] EXCEPT !.erase = TRUE].erase = TRUE
  <2>1. list[k] \in UnitRecords
    BY LenProperties, ElementOfSeq DEF GoodUnits
  <2>2. QED
    BY <2>1 DEF UnitRecords, SameCounts
<1>3. QED
  BY <1>1, <1>2 DEF SameCounts

LEMMA UnscheduleCounts ==
  ASSUME IInv, Counts, NEW t \in Tags, Unschedule(t)
  PROVE  Counts'
<1>1. UNCHANGED <<pc, at>> /\ units \in Seq(GoodUnits) /\ shadow \in Seq(GoodUnits)
  BY DEF Unschedule, taskVars, IInv, Shape
<1>2. ASSUME NEW i, units' = units, shadow' = Marked(shadow, i)
      PROVE  Counts'
  <2>1. /\ DOMAIN shadow' = DOMAIN shadow
        /\ \A k \in DOMAIN shadow : SameCounts(shadow[k], shadow'[k])
    BY <1>1, <1>2, MarkedCounts
  <2>2. \A k \in DOMAIN units : SameCounts(units[k], units'[k])
    BY <1>2 DEF SameCounts
  <2>3. QED
    BY <1>1, <1>2, <2>1, <2>2, CountsStay
<1>3. ASSUME NEW i, shadow' = shadow, units' = Marked(units, i)
      PROVE  Counts'
  <2>1. /\ DOMAIN units' = DOMAIN units
        /\ \A k \in DOMAIN units : SameCounts(units[k], units'[k])
    BY <1>1, <1>3, MarkedCounts
  <2>2. \A k \in DOMAIN shadow : SameCounts(shadow[k], shadow'[k])
    BY <1>3 DEF SameCounts
  <2>3. QED
    BY <1>1, <1>3, <2>1, <2>2, CountsStay
<1>4. QED
  BY <1>2, <1>3 DEF Unschedule

(* What goes is marked, or over.                                           *)
LEMMA WithoutCounts ==
  ASSUME IInv, Counts, NEW i \in DOMAIN units, units' = Without(i), shadow' = shadow,
         pc' = "loop", pc = "retire" => i = at
  PROVE  Counts'
<1>1. /\ DOMAIN units' = 1 .. Len(units) - 1 /\ DOMAIN units = 1 .. Len(units) /\ Len(units) \in Nat
      /\ \A k \in 1 .. Len(units) - 1 :
           units'[k] = IF k = i THEN units[Len(units)] ELSE units[k]
  BY AllFacts, WithoutFacts DEF IInv
<1>2. ASSUME NEW k \in DOMAIN units'
      PROVE  Counting(units'[k]) /\ ~Over(units'[k])
  <2>1. PICK l \in DOMAIN units : units'[k] = units[l] /\ l # i
    <3>1. CASE k = i
      BY <1>1, <3>1
    <3>2. CASE k # i
      BY <1>1, <3>2
    <3>3. QED
      BY <3>1, <3>2
  <2>2. QED
    BY <2>1 DEF Counts
<1>3. QED
  BY <1>2 DEF Counts

LEMMA EndHandlerCounts ==
  ASSUME IInv, Counts, EndHandler
  PROVE  Counts'
<1> DEFINE w == units[at]
<1>1. /\ pc = "handler" /\ at \in DOMAIN units /\ units' = [units EXCEPT ![at] = Counted(w)]
      /\ pc' = (IF w.repeat > 0 /\ units'[at].repeat = 0 THEN "retire" ELSE "loop")
      /\ pc' = "retire" => at' = at
      /\ shadow' = shadow
  BY DEF EndHandler, IInv, Shape
<1>2. w \in UnitRecords /\ w.repeat \in Int /\ w.asked \in Int /\ w.ran \in Nat
  BY <1>1, Elements, IntervalAssumption DEF IInv, UnitRecords
<1>3. Counting(w) /\ ~Over(w)
  BY <1>1 DEF Counts
<1>4. /\ DOMAIN units' = DOMAIN units /\ units'[at] = Counted(w)
      /\ \A k \in DOMAIN units : k # at => units'[k] = units[k]
  BY <1>1
<1> HIDE DEF w
<1>5. /\ Counted(w).asked = w.asked
      /\ Counted(w).repeat = IF w.repeat > 0 THEN w.repeat - 1 ELSE w.repeat
      /\ Counted(w).ran = IF w.asked > 0 THEN w.ran + 1 ELSE w.ran
  BY <1>2 DEF Counted, UnitRecords
<1>6. Counting(Counted(w)) /\ (Over(Counted(w)) <=> pc' = "retire")
  BY <1>1, <1>2, <1>3, <1>4, <1>5 DEF Counting, Over
<1>7. ASSUME NEW k \in DOMAIN units'
      PROVE  Counting(units'[k]) /\ (Over(units'[k]) <=> pc' = "retire" /\ k = at')
  <2>1. CASE k = at
    BY <1>1, <1>4, <1>6, <2>1
  <2>2. CASE k # at
    <3>1. Counting(units[k]) /\ ~Over(units[k]) /\ units'[k] = units[k]
      BY <1>1, <1>4, <2>2 DEF Counts
    <3>2. QED
      BY <1>1, <2>2, <3>1
  <2>3. QED
    BY <2>1, <2>2
<1>8. QED
  BY <1>1, <1>7 DEF Counts

LEMMA MergeCounts ==
  ASSUME IInv, Counts, Merge
  PROVE  Counts'
<1>1. units' = All /\ shadow' = <<>> /\ pc' = "loop" /\ pc = "merge" /\ Shape
  BY DEF Merge, IInv
<1>2. /\ DOMAIN units' = 1 .. Len(units) + Len(shadow)
      /\ \A i \in DOMAIN units' : units'[i] = IF i <= Len(units) THEN units[i]
                                             ELSE shadow[i - Len(units)]
      /\ Len(units) \in Nat /\ Len(shadow) \in Nat
      /\ DOMAIN units = 1 .. Len(units) /\ DOMAIN shadow = 1 .. Len(shadow)
  BY <1>1, AllFacts
<1>3. ASSUME NEW k \in DOMAIN units'
      PROVE  Counting(units'[k]) /\ ~Over(units'[k])
  <2>1. CASE k <= Len(units)
    BY <1>1, <1>2, <2>1 DEF Counts
  <2>2. CASE k > Len(units)
    <3>1. k - Len(units) \in DOMAIN shadow /\ units'[k] = shadow[k - Len(units)]
      BY <1>2, <2>2
    <3>2. QED
      BY <3>1 DEF Counts
  <2>3. QED
    BY <1>2, <2>1, <2>2
<1>4. DOMAIN shadow' = {}
  BY <1>1
<1>5. QED
  BY <1>1, <1>3, <1>4 DEF Counts

LEMMA CallCounts ==
  ASSUME IInv, Counts, Call
  PROVE  Counts'
<1>1. /\ pc = "call" /\ pc' = "handler" /\ shadow' = shadow /\ at \in DOMAIN units
      /\ units' = [units EXCEPT ![at] = [units[at] EXCEPT !.late = @ + IF units[at].erase THEN 1 ELSE 0]]
  BY DEF Call, IInv, Shape
<1>2. units[at] \in UnitRecords
  BY <1>1, Elements DEF IInv
<1>3. SameCounts(units[at], units'[at])
  BY <1>1, <1>2 DEF SameCounts, UnitRecords
<1>4. \A k \in DOMAIN units : SameCounts(units[k], units'[k])
  BY <1>1, <1>3 DEF SameCounts
<1>5. QED
  BY <1>1, <1>4, CountsStay DEF SameCounts

LEMMA TickCounts ==
  ASSUME IInv, Counts, Tick
  PROVE  Counts'
<1>1. units' = Aged(units) /\ shadow' = Aged(shadow) /\ UNCHANGED <<pc, at>>
  BY DEF Tick
<1>2. \A k \in DOMAIN units : SameCounts(units[k], units'[k])
  BY <1>1, Elements DEF IInv, Aged, SameCounts, UnitRecords
<1>3. \A k \in DOMAIN shadow : SameCounts(shadow[k], shadow'[k])
  BY <1>1, Elements DEF IInv, Aged, SameCounts, UnitRecords
<1>4. QED
  BY <1>1, <1>2, <1>3, CountsStay DEF Aged

LEMMA CountsStep == IInv /\ Counts /\ [Next]_vars => Counts'
<1> SUFFICES ASSUME IInv, Counts, [Next]_vars PROVE Counts'
  OBVIOUS
<1>1. ASSUME NEW t \in Tags, Schedule(t)
      PROVE  Counts'
  BY <1>1, AddCounts DEF Schedule
<1>2. ASSUME NEW t \in Tags, Unschedule(t)
      PROVE  Counts'
  BY <1>2, UnscheduleCounts
<1>3. CASE ScheduleAnonymous
  BY <1>3, AddCounts DEF ScheduleAnonymous
<1>4. CASE Drop
  <2>1. PICK i \in DOMAIN units : units' = Without(i)
    BY <1>4 DEF Drop
  <2>2. pc = "loop" /\ pc' = "loop" /\ shadow' = shadow
    BY <1>4 DEF Drop, taskVars
  <2>3. QED
    BY <2>1, <2>2, WithoutCounts
<1>5. CASE Retire
  BY <1>5, WithoutCounts DEF Retire, IInv, Shape
<1>6. CASE Begin \/ Sleep \/ Notified \/ Timeout
  BY <1>6, CountsStay DEF Begin, Sleep, Notified, Timeout, SameCounts
<1>7. CASE UNCHANGED vars
  BY <1>7, CountsStay DEF vars, taskVars, SameCounts
<1>8. QED
  BY <1>1, <1>2, <1>3, <1>4, <1>5, <1>6, <1>7, CallCounts, EndHandlerCounts, MergeCounts, TickCounts
     DEF Next, ClientStep, TaskStep

-----------------------------------------------------------------------------
(* The tag of what stays unmarked is still taken.                          *)
Taken(t) ==
  \/ \E k \in DOMAIN units : units[k].tag = t /\ ~units[k].erase
  \/ \E k \in DOMAIN shadow : shadow[k].tag = t /\ ~shadow[k].erase

LEMMA TakenExists == \A t : Exists(t) <=> Taken(t)
BY DEF Exists, Taken, Matches

LEMMA StillTaken ==
  ASSUME NEW t, Taken(t), DOMAIN units' = DOMAIN units, DOMAIN shadow' = DOMAIN shadow,
         \A k \in DOMAIN units : units'[k].tag = units[k].tag /\ units'[k].erase = units[k].erase,
         \A k \in DOMAIN shadow : shadow'[k].tag = shadow[k].tag /\ shadow'[k].erase = shadow[k].erase
  PROVE  Taken(t)'
BY DEF Taken

(* A tag that one mark frees has one marked unit more.                     *)
LEMMA MarkFrees ==
  ASSUME IInv, NEW t, Taken(t), ~Taken(t)', NEW i,
         \/ units' = Marked(units, i) /\ shadow' = shadow /\ i \in DOMAIN units
         \/ shadow' = Marked(shadow, i) /\ units' = units /\ i \in DOMAIN shadow
  PROVE  Cardinality(Erased(t)') = Cardinality(Erased(t)) + 1
<1>1. Shape /\ units \in Seq(GoodUnits) /\ shadow \in Seq(GoodUnits)
  BY DEF IInv, Shape
<1>2. /\ DOMAIN units = 1 .. Len(units) /\ DOMAIN shadow = 1 .. Len(shadow)
      /\ Len(units) \in Nat /\ Len(shadow) \in Nat
      /\ DOMAIN All = 1 .. Len(units) + Len(shadow)
      /\ \A k \in DOMAIN All : All[k] = IF k <= Len(units) THEN units[k] ELSE shadow[k - Len(units)]
  BY <1>1, AllFacts
<1>3. /\ units' \in Seq(GoodUnits) /\ Len(units') = Len(units) /\ DOMAIN units' = DOMAIN units
      /\ shadow' \in Seq(GoodUnits) /\ Len(shadow') = Len(shadow) /\ DOMAIN shadow' = DOMAIN shadow
  BY <1>1, MarkedFacts
<1>4. /\ DOMAIN All' = DOMAIN All
      /\ \A k \in DOMAIN All : All'[k] = IF k <= Len(units) THEN units'[k] ELSE shadow'[k - Len(units)]
  <2>1. All' = units' \o shadow'
    BY DEF All
  <2>2. /\ Len(units' \o shadow') = Len(units') + Len(shadow')
        /\ units' \o shadow' \in Seq(GoodUnits)
        /\ \A k \in 1 .. Len(units') + Len(shadow') :
             (units' \o shadow')[k] = IF k <= Len(units') THEN units'[k] ELSE shadow'[k - Len(units')]
    BY <1>3, ConcatProperties
  <2>3. DOMAIN (units' \o shadow') = 1 .. Len(units') + Len(shadow')
    BY <2>2, LenProperties
  <2>4. QED
    BY <1>2, <1>3, <2>1, <2>2, <2>3
<1>5. \E pos \in DOMAIN All :
        /\ All[pos].tag = t /\ ~All[pos].erase
        /\ All'[pos].tag = t /\ All'[pos].erase
        /\ \A k \in DOMAIN All : k # pos => All'[k] = All[k]
  <2>1. CASE units' = Marked(units, i) /\ shadow' = shadow /\ i \in DOMAIN units
    <3>1. /\ \A k \in DOMAIN units : k # i => units'[k] = units[k]
          /\ units'[i].erase = TRUE /\ units'[i].tag = units[i].tag
      BY <1>1, <2>1, MarkedCounts, MarkedFacts DEF Kept
    <3>2. units[i].tag = t /\ ~units[i].erase
      BY <1>3, <2>1, <3>1 DEF Taken
    <3>3. i \in DOMAIN All /\ i <= Len(units) /\ All[i] = units[i] /\ All'[i] = units'[i]
      BY <1>2, <1>4, <2>1
    <3>4. \A k \in DOMAIN All : k # i => All'[k] = All[k]
      BY <1>2, <1>4, <2>1, <3>1
    <3>5. QED
      BY <3>1, <3>2, <3>3, <3>4
  <2>2. CASE shadow' = Marked(shadow, i) /\ units' = units /\ i \in DOMAIN shadow
    <3>1. /\ \A k \in DOMAIN shadow : k # i => shadow'[k] = shadow[k]
          /\ shadow'[i].erase = TRUE /\ shadow'[i].tag = shadow[i].tag
      BY <1>1, <2>2, MarkedCounts, MarkedFacts DEF Kept
    <3>2. shadow[i].tag = t /\ ~shadow[i].erase
      BY <1>3, <2>2, <3>1 DEF Taken
    <3> DEFINE pos == Len(units) + i
    <3>3. pos \in DOMAIN All /\ ~(pos <= Len(units)) /\ pos - Len(units) = i
      BY <1>2, <2>2
    <3>4. \A k \in DOMAIN All : (k # pos /\ ~(k <= Len(units))) =>
            k - Len(units) \in DOMAIN shadow /\ k - Len(units) # i
      BY <1>2, <2>2
    <3> HIDE DEF pos
    <3>5. All[pos] = shadow[i] /\ All'[pos] = shadow'[i]
      BY <1>2, <1>4, <3>3
    <3>6. \A k \in DOMAIN All : k # pos => All'[k] = All[k]
      BY <1>2, <1>4, <2>2, <3>1, <3>4
    <3>7. QED
      BY <3>1, <3>2, <3>3, <3>5, <3>6
  <2>3. QED
    BY <2>1, <2>2
<1>6. PICK pos \in DOMAIN All :
        /\ All[pos].tag = t /\ ~All[pos].erase
        /\ All'[pos].tag = t /\ All'[pos].erase
        /\ \A k \in DOMAIN All : k # pos => All'[k] = All[k]
  BY <1>5
<1>7. Erased(t)' = Erased(t) \union {pos} /\ pos \notin Erased(t)
  BY <1>4, <1>6 DEF Erased
<1>8. IsFiniteSet(Erased(t))
  <2>1. Erased(t) \subseteq 1 .. Len(units) + Len(shadow)
    BY <1>2 DEF Erased
  <2>2. IsFiniteSet(1 .. Len(units) + Len(shadow))
    BY <1>2, FS_Interval
  <2>3. QED
    BY <2>1, <2>2, FS_Subset
<1>9. QED
  BY <1>7, <1>8, FS_AddElement

(* A unit that goes is the last of its tag only if it was over.            *)
LEMMA RetiredIsOver ==
  ASSUME IInv, Counts, Retire, NEW t, Taken(t), ~Taken(t)'
  PROVE  \E i \in Matches(units, t) : units[i].asked > 0 /\ units[i].ran = units[i].asked
<1>1. at \in DOMAIN units /\ units' = Without(at) /\ shadow' = shadow /\ pc = "retire"
  BY DEF Retire, IInv, Shape
<1>2. /\ DOMAIN units' = 1 .. Len(units) - 1 /\ DOMAIN units = 1 .. Len(units) /\ Len(units) \in Nat
      /\ \A k \in 1 .. Len(units) - 1 :
           units'[k] = IF k = at THEN units[Len(units)] ELSE units[k]
  BY <1>1, AllFacts, WithoutFacts DEF IInv
<1>3. PICK i \in DOMAIN units : units[i].tag = t /\ ~units[i].erase
  BY <1>1 DEF Taken
<1>4. i = at
  <2>1. SUFFICES ASSUME i # at PROVE FALSE
    OBVIOUS
  <2>2. \E k \in DOMAIN units' : units'[k] = units[i]
    <3>1. CASE i = Len(units)
      BY <1>1, <1>2, <2>1, <3>1
    <3>2. CASE i # Len(units)
      BY <1>2, <2>1, <3>2
    <3>3. QED
      BY <3>1, <3>2
  <2>3. QED
    BY <1>3, <2>2 DEF Taken
<1>5. Over(units[at]) /\ Counting(units[at])
  BY <1>1 DEF Counts
<1>6. units[at] \in UnitRecords /\ units[at].ran \in Nat
  BY <1>1, Elements DEF IInv, UnitRecords
<1>7. units[at].asked > 0 /\ units[at].ran = units[at].asked
  BY <1>5, <1>6 DEF Over, Counting
<1>8. QED
  BY <1>3, <1>4, <1>7 DEF Matches

(* A unit that is dropped leaves its tag to those that are not marked.     *)
LEMMA DropLeavesTaken ==
  ASSUME IInv, Drop, NEW t, Taken(t)
  PROVE  Taken(t)'
<1>1. PICK i \in DOMAIN units : units[i].erase /\ units' = Without(i)
  BY DEF Drop
<1>2. shadow' = shadow
  BY DEF Drop
<1>3. /\ DOMAIN units' = 1 .. Len(units) - 1 /\ DOMAIN units = 1 .. Len(units) /\ Len(units) \in Nat
      /\ \A k \in 1 .. Len(units) - 1 :
           units'[k] = IF k = i THEN units[Len(units)] ELSE units[k]
  BY <1>1, AllFacts, WithoutFacts DEF IInv
<1>4. CASE \E k \in DOMAIN shadow : shadow[k].tag = t /\ ~shadow[k].erase
  BY <1>2, <1>4 DEF Taken
<1>5. ASSUME NEW l \in DOMAIN units, units[l].tag = t, ~units[l].erase
      PROVE  Taken(t)'
  <2>1. \E k \in DOMAIN units' : units'[k] = units[l]
    <3>1. CASE l = Len(units)
      BY <1>1, <1>3, <1>5, <3>1
    <3>2. CASE l # Len(units)
      BY <1>1, <1>3, <1>5, <3>2
    <3>3. QED
      BY <3>1, <3>2
  <2>2. QED
    BY <1>5, <2>1 DEF Taken
<1>6. QED
  BY <1>4, <1>5 DEF Taken

LEMMA MergeLeavesTaken ==
  ASSUME IInv, Merge, NEW t, Taken(t)
  PROVE  Taken(t)'
<1>1. units' = All /\ Shape
  BY DEF Merge, IInv
<1>2. /\ DOMAIN units' = 1 .. Len(units) + Len(shadow)
      /\ \A i \in DOMAIN units' : units'[i] = IF i <= Len(units) THEN units[i]
                                             ELSE shadow[i - Len(units)]
      /\ Len(units) \in Nat /\ Len(shadow) \in Nat
      /\ DOMAIN units = 1 .. Len(units) /\ DOMAIN shadow = 1 .. Len(shadow)
  BY <1>1, AllFacts
<1>3. ASSUME NEW k \in DOMAIN units, units[k].tag = t, ~units[k].erase
      PROVE  Taken(t)'
  <2>1. k \in DOMAIN units' /\ units'[k] = units[k]
    BY <1>2
  <2>2. QED
    BY <1>3, <2>1 DEF Taken
<1>4. ASSUME NEW k \in DOMAIN shadow, shadow[k].tag = t, ~shadow[k].erase
      PROVE  Taken(t)'
  <2>1. Len(units) + k \in DOMAIN units' /\ units'[Len(units) + k] = shadow[k]
    BY <1>2
  <2>2. QED
    BY <1>4, <2>1 DEF Taken
<1>5. QED
  BY <1>3, <1>4 DEF Taken

LEMMA AddLeavesTaken ==
  ASSUME IInv, NEW u, Add(u), UNCHANGED units, NEW t, Taken(t)
  PROVE  Taken(t)'
<1>1. /\ shadow' = Append(shadow, u) /\ shadow \in Seq(GoodUnits)
  BY DEF Add, IInv, Shape
<1>2. \A k \in DOMAIN shadow : k \in DOMAIN shadow' /\ shadow'[k] = shadow[k]
  BY <1>1
<1>3. QED
  BY <1>2 DEF Taken

LEMMA UnscheduleFrees ==
  ASSUME IInv, NEW s \in Tags, Unschedule(s), NEW t, Taken(t), ~Taken(t)'
  PROVE  Cardinality(Erased(t)') = Cardinality(Erased(t)) + 1
<1> DEFINE i == First(Matches(shadow, s))
           j == First(Matches(units, s))
<1>1. \/ shadow' = Marked(shadow, i) /\ units' = units
      \/ units' = Marked(units, j) /\ shadow' = shadow
  BY DEF Unschedule
<1> HIDE DEF i, j
<1>2. ASSUME shadow' = Marked(shadow, i), units' = units
      PROVE  i \in DOMAIN shadow
  <2>1. SUFFICES ASSUME i \notin DOMAIN shadow PROVE FALSE
    OBVIOUS
  <2>2. DOMAIN shadow' = DOMAIN shadow /\ \A k \in DOMAIN shadow : shadow'[k] = shadow[k]
    BY <1>2, <2>1, MarkedCounts DEF IInv, Shape
  <2>3. QED
    BY <1>2, <2>2 DEF Taken
<1>3. ASSUME units' = Marked(units, j), shadow' = shadow
      PROVE  j \in DOMAIN units
  <2>1. SUFFICES ASSUME j \notin DOMAIN units PROVE FALSE
    OBVIOUS
  <2>2. DOMAIN units' = DOMAIN units /\ \A k \in DOMAIN units : units'[k] = units[k]
    BY <1>3, <2>1, MarkedCounts DEF IInv, Shape
  <2>3. QED
    BY <1>3, <2>2 DEF Taken
<1>4. QED
  BY <1>1, <1>2, <1>3, MarkFrees

LEMMA CallLeavesTaken ==
  ASSUME IInv, Call \/ EndHandler \/ Tick, NEW t, Taken(t)
  PROVE  Taken(t)'
<1>1. CASE Call
  <2>1. at \in DOMAIN units /\ shadow' = shadow
        /\ units' = [units EXCEPT ![at] = [units[at] EXCEPT !.late = @ + IF units[at].erase THEN 1 ELSE 0]]
    BY <1>1 DEF Call, IInv, Shape
  <2>2. units[at] \in UnitRecords
    BY <2>1, Elements DEF IInv
  <2>3. units'[at].tag = units[at].tag /\ units'[at].erase = units[at].erase
    BY <2>1, <2>2 DEF UnitRecords
  <2>4. QED
    BY <2>1, <2>3, StillTaken
<1>2. CASE EndHandler
  <2>1. at \in DOMAIN units /\ shadow' = shadow /\ units' = [units EXCEPT ![at] = Counted(units[at])]
    BY <1>2 DEF EndHandler, IInv, Shape
  <2>2. units[at] \in GoodUnits
    BY <2>1, Elements DEF IInv
  <2>3. units'[at].tag = units[at].tag /\ units'[at].erase = units[at].erase
    BY <2>1, <2>2, UnitFacts
  <2>4. QED
    BY <2>1, <2>3, StillTaken
<1>3. CASE Tick
  <2>1. units' = Aged(units) /\ shadow' = Aged(shadow) /\ units \in Seq(GoodUnits) /\ shadow \in Seq(GoodUnits)
    BY <1>3 DEF Tick, IInv, Shape
  <2>2. QED
    BY <2>1, AgedFacts, StillTaken
<1>4. QED
  BY <1>1, <1>2, <1>3

LEMMA FreedAsAsked ==
  ASSUME IInv, Counts, [Next]_vars, NEW t \in Tags, Taken(t), ~Taken(t)'
  PROVE  \/ Cardinality(Erased(t)') = Cardinality(Erased(t)) + 1
         \/ \E i \in Matches(units, t) : units[i].asked > 0 /\ units[i].ran = units[i].asked
<1>1. \A s \in Tags : ~Schedule(s)
  BY AddLeavesTaken DEF Schedule
<1>2. ~ScheduleAnonymous
  BY AddLeavesTaken DEF ScheduleAnonymous
<1>3. ~Drop /\ ~Merge
  BY DropLeavesTaken, MergeLeavesTaken
<1>4. ~Call /\ ~EndHandler /\ ~Tick
  BY CallLeavesTaken
<1>5. ~(Begin \/ Sleep \/ Notified \/ Timeout \/ UNCHANGED vars)
  BY DEF Begin, Sleep, Notified, Timeout, vars, Taken
<1>6. (\E s \in Tags : Unschedule(s)) \/ Retire
  BY <1>1, <1>2, <1>3, <1>4, <1>5 DEF Next, ClientStep, TaskStep
<1>7. QED
  BY <1>6, UnscheduleFrees, RetiredIsOver

(* A handler is called as often as it was asked for, unless it is          *)
(* unscheduled, and its tag is taken until then: for any tags, intervals   *)
(* and numbers of runs.                                                    *)
THEOREM RunsAreAsAsked == Spec => RunsAsAsked
<1> DEFINE Freed ==
      \A t \in Tags :
        Exists(t) /\ ~Exists(t)' =>
          \/ Cardinality(Erased(t)') = Cardinality(Erased(t)) + 1
          \/ \E i \in Matches(units, t) : units[i].asked > 0 /\ units[i].ran = units[i].asked
<1>1. Init => Counts
  <2> SUFFICES ASSUME Init PROVE Counts
    OBVIOUS
  <2>1. DOMAIN units = {} /\ DOMAIN shadow = {}
    BY DEF Init
  <2>2. QED
    BY <2>1 DEF Counts
<1>2. \A t : Exists(t)' <=> Taken(t)'
  BY DEF Exists, Taken, Matches
<1>3. IInv /\ Counts /\ [Next]_vars => [Freed]_vars
  BY <1>2, TakenExists, FreedAsAsked
<1>4. Spec => [][Freed]_vars
  <2> HIDE DEF Freed
  <2>1. QED
    BY <1>1, <1>3, InitHolds, StepHolds, CountsStep, PTL DEF Spec
<1>5. QED
  BY <1>4, PTL DEF RunsAsAsked

-----------------------------------------------------------------------------
(* The control map.                                                        *)

(* The values that are kept, and what a string is when it was moved from.  *)
Strings == Values \union {Empty}

MapShape ==
  /\ IsFiniteSet(DOMAIN m) /\ DOMAIN m \subseteq Controls
  /\ m = [c \in DOMAIN m |-> m[c]]
  /\ \A c \in DOMAIN m : m[c] \in Nat
  /\ v \in Seq(Strings)

WholeSteps == \E k \in Nat \ {0} : threshold = k * Steep

Histories == DOMAIN given \subseteq Controls /\ overrun \in BOOLEAN

MapInv == /\ MapShape
          /\ CtrlMap!PositionsHold
          /\ WholeSteps
          /\ Histories
          /\ CtrlMap!GivenHolds

-----------------------------------------------------------------------------
(* Known(value) has the value's position, and every position there was.    *)
LEMMA KnownPositions ==
  ASSUME NEW list \in Seq(Strings), NEW value \in Values
  PROVE  /\ CtrlMap!Known(value, list) \in Seq(Strings)
         /\ Len(list) <= Len(CtrlMap!Known(value, list))
         /\ CtrlMap!Position(value, list) \in Nat
         /\ CtrlMap!Position(value, list) < Len(CtrlMap!Known(value, list))
         /\ CtrlMap!At(CtrlMap!Known(value, list), CtrlMap!Position(value, list)) = value
         /\ \A p \in 0 .. Len(list) - 1 :
              CtrlMap!At(CtrlMap!Known(value, list), p) = CtrlMap!At(list, p)
<1>1. Len(list) \in Nat /\ value \in Strings
  BY DEF Strings
<1>2. CASE CtrlMap!Contains(list, value)
  <2> DEFINE I == {i \in 1 .. Len(list) : list[i] = value}
  <2>1. I # {} /\ I \subseteq Nat
    BY <1>2 DEF CtrlMap!Contains
  <2>2. PICK least \in I : \A y \in I : least <= y
    BY <2>1, LeastOfNats
  <2>3. CtrlMap!Min(I) \in I
    BY <2>2 DEF CtrlMap!Min
  <2>4. CtrlMap!SelectInSeq(list, LAMBDA x : x = value) = CtrlMap!Min(I)
    BY <2>1 DEF CtrlMap!SelectInSeq
  <2>5. CtrlMap!Position(value, list) = CtrlMap!Min(I) - 1
    BY <1>2, <2>4 DEF CtrlMap!Position
  <2>6. CtrlMap!Min(I) \in 1 .. Len(list) /\ list[CtrlMap!Min(I)] = value
    BY <2>3
  <2> HIDE DEF I
  <2>7. CtrlMap!Known(value, list) = list
    BY <1>2 DEF CtrlMap!Known
  <2>8. (CtrlMap!Min(I) - 1) + 1 = CtrlMap!Min(I)
    BY <1>1, <2>6
  <2>9. CtrlMap!At(list, CtrlMap!Position(value, list)) = value
    BY <2>5, <2>6, <2>8 DEF CtrlMap!At
  <2>10. QED
    BY <1>1, <2>5, <2>6, <2>7, <2>9
<1>3. CASE ~CtrlMap!Contains(list, value)
  <2>1. CtrlMap!Known(value, list) = Append(list, value) /\ CtrlMap!Position(value, list) = Len(list)
    BY <1>3 DEF CtrlMap!Known, CtrlMap!Position
  <2>2. /\ CtrlMap!At(Append(list, value), Len(list)) = value
        /\ \A p \in 0 .. Len(list) - 1 :
             CtrlMap!At(Append(list, value), p) = CtrlMap!At(list, p)
    BY <1>1 DEF CtrlMap!At
  <2>3. QED
    BY <1>1, <2>1, <2>2
<1>4. QED
  BY <1>2, <1>3

(* CtrlMap has the library's operators by its own name.                    *)
LEMMA SameCardinality ==
  ASSUME NEW S
  PROVE  CtrlMap!Cardinality(S) = Cardinality(S)
BY DEF CtrlMap!Cardinality, Cardinality

(* An order of a finite set, each element once, has each element.          *)
LEMMA OrderReachesAll ==
  ASSUME NEW S, IsFiniteSet(S), NEW order \in CtrlMap!SetToSeqs(S), NEW c \in S
  PROVE  \E p \in 0 .. Cardinality(S) - 1 : order[p + 1] = c
<1> DEFINE n == Cardinality(S)
<1>1. n \in Nat
  BY FS_CardinalityType
<1>2. order \in [1 .. n -> S] /\ \A i, j \in 1 .. n : i # j => order[i] # order[j]
  BY SameCardinality DEF CtrlMap!SetToSeqs
<1>3. order \in Injection(1 .. n, S)
  BY <1>2 DEF Injection, IsInjective
<1>4. Cardinality(1 .. n) = n
  BY <1>1, FS_Interval
<1>5. order \in Surjection(1 .. n, S)
  BY <1>3, <1>4, FS_Injection
<1>6. PICK i \in 1 .. n : order[i] = c
  BY <1>5 DEF Surjection
<1>7. i - 1 \in 0 .. n - 1 /\ (i - 1) + 1 = i
  BY <1>1, <1>6
<1>8. QED
  BY <1>6, <1>7

LEMMA ResizedKeeps ==
  ASSUME NEW list \in Seq(Strings), NEW size \in Nat
  PROVE  Len(CtrlMap!Resized(list, size)) = size /\ CtrlMap!Resized(list, size) \in Seq(Strings)
<1>1. Len(list) \in Nat /\ \A p \in 1 .. Len(list) : list[p] \in Strings
  BY ElementOfSeq
<1>2. CtrlMap!Resized(list, size) \in [1 .. size -> Strings]
  BY <1>1 DEF CtrlMap!Resized, Strings
<1>3. QED
  BY <1>2

(* A turn of collect's loop moves and empties values, and adds none.       *)
LEMMA MovedKeeps ==
  ASSUME NEW pos \in Nat, NEW list \in Seq(Strings), pos < Len(list),
         NEW next \in Nat, next < Len(list), NEW keeps \in BOOLEAN
  PROVE  /\ CtrlMap!Moved(pos, list, next, keeps) \in Seq(Strings)
         /\ Len(CtrlMap!Moved(pos, list, next, keeps)) = Len(list)
<1>1. /\ Len(list) \in Nat /\ pos + 1 \in 1 .. Len(list) /\ Empty \in Strings
      /\ CtrlMap!At(list, pos) \in Strings
  BY ElementOfSeq DEF CtrlMap!At, Strings
<1> DEFINE gone == CtrlMap!Put(list, pos, Empty)
<1>2. gone \in Seq(Strings) /\ Len(gone) = Len(list)
  BY <1>1, ExceptSeq DEF CtrlMap!Put
<1> HIDE DEF gone
<1>3. next + 1 \in 1 .. Len(gone)
  BY <1>1, <1>2
<1>4. /\ CtrlMap!Put(gone, next, CtrlMap!At(list, pos)) \in Seq(Strings)
      /\ Len(CtrlMap!Put(gone, next, CtrlMap!At(list, pos))) = Len(list)
  BY <1>1, <1>2, <1>3, ExceptSeq DEF CtrlMap!Put
<1>5. QED
  BY <1>2, <1>4 DEF CtrlMap!Moved, gone

(* The loop as a whole, by its turns. What the recursion of Compacted      *)
(* defines is a function that exists for every number of turns; a smallest *)
(* number for which it did not, or for which it lost the type, would be    *)
(* the successor of one for which all was well.                            *)
LEMMA CompactedKeeps ==
  ASSUME v \in Seq(Strings), NEW order, Len(order) \in Nat, Len(order) <= Len(v),
         NEW keeps \in BOOLEAN,
         \A k \in 1 .. Len(order) : m[order[k]] \in Nat /\ m[order[k]] < Len(v)
  PROVE  CtrlMap!Compacted(order, keeps) \in Seq(Strings)
<1> DEFINE n == Len(order)
           Turn(k, list) == CtrlMap!Moved(m[order[k]], list, k - 1, keeps)
           IsLoop(f, k) == f = [j \in 0 .. k |-> IF j = 0 THEN v ELSE Turn(j, f[j - 1])]
           Good(list) == list \in Seq(Strings) /\ Len(list) = Len(v)
<1>1. \A list : \A k \in 1 .. n : Good(list) => Good(Turn(k, list))
  <2> SUFFICES ASSUME NEW k \in 1 .. n, NEW list, Good(list)
               PROVE  Good(Turn(k, list))
    OBVIOUS
  <2>1. /\ k - 1 \in Nat /\ k - 1 < Len(list)
        /\ m[order[k]] \in Nat /\ m[order[k]] < Len(list)
    OBVIOUS
  <2>2. QED
    BY <2>1, MovedKeeps
<1> HIDE DEF Turn, Good
<1>2. \A k \in Nat : \E f : IsLoop(f, k)
  <2> DEFINE T == {k \in Nat : ~\E f : IsLoop(f, k)}
  <2> SUFFICES T = {}
    OBVIOUS
  <2> HIDE DEF T
  <2>1. T \subseteq Nat
    BY DEF T
  <2>2. ASSUME NEW k \in T, \A j \in T : k <= j
        PROVE  FALSE
    <3>1. CASE k = 0
      <4>1. IsLoop([j \in 0 .. 0 |-> v], 0)
        OBVIOUS
      <4>2. QED
        BY <3>1, <4>1 DEF T
    <3>2. CASE k # 0
      <4>1. k - 1 \in Nat /\ k - 1 \notin T
        BY <2>1, <2>2, <3>2
      <4>2. PICK f : IsLoop(f, k - 1)
        BY <4>1 DEF T
      <4>3. \A j \in 0 .. k - 1 : f[j] = IF j = 0 THEN v ELSE Turn(j, f[j - 1])
        BY <4>2
      <4> DEFINE g == [j \in 0 .. k |-> IF j = k THEN Turn(k, f[k - 1]) ELSE f[j]]
      <4>4. \A j \in 0 .. k : g[j] = IF j = 0 THEN v ELSE Turn(j, g[j - 1])
        BY <2>1, <3>2, <4>1, <4>3
      <4>5. g = [j \in 0 .. k |-> g[j]]
        OBVIOUS
      <4> HIDE DEF g
      <4>6. IsLoop(g, k)
        BY <4>4, <4>5
      <4>7. QED
        BY <4>6 DEF T
    <3>3. QED
      BY <3>1, <3>2
  <2>3. QED
    BY <2>1, <2>2, LeastOfNats
<1> DEFINE After == CHOOSE f : IsLoop(f, n)
<1>3. IsLoop(After, n)
  BY <1>2
<1>4. CtrlMap!Compacted(order, keeps) = After[n]
  BY DEF CtrlMap!Compacted, Turn
<1> HIDE DEF After
<1>5. After[0] = v /\ \A j \in 1 .. n : After[j] = Turn(j, After[j - 1])
  <2>1. \A j \in 0 .. n : After[j] = IF j = 0 THEN v ELSE Turn(j, After[j - 1])
    BY <1>3, Zenon
  <2>2. 0 \in 0 .. n /\ \A j \in 1 .. n : j \in 0 .. n /\ j # 0
    OBVIOUS
  <2>3. QED
    BY <2>1, <2>2
<1>6. \A j \in 0 .. n : Good(After[j])
  <2> DEFINE T == {j \in 0 .. n : ~Good(After[j])}
  <2> SUFFICES T = {}
    OBVIOUS
  <2>1. ASSUME NEW k \in T, \A j \in T : k <= j
        PROVE  FALSE
    <3>1. CASE k = 0
      BY <1>5, <3>1 DEF Good
    <3>2. CASE k # 0
      <4>1. k - 1 \in 0 .. n /\ k - 1 \notin T /\ k \in 1 .. n
        BY <2>1, <3>2
      <4>2. QED
        BY <1>1, <1>5, <4>1
    <3>3. QED
      BY <3>1, <3>2
  <2> HIDE DEF T
  <2>2. T \subseteq Nat
    BY DEF T
  <2>3. QED
    BY <2>1, <2>2, LeastOfNats
<1>7. QED
  BY <1>4, <1>6 DEF Good

(* The threshold moves by whole steps and stops at one.                    *)
LEMMA AdaptedSteps ==
  ASSUME CtrlMap!MapAssumption, WholeSteps, NEW size \in Nat
  PROVE  \E k \in Nat \ {0} : CtrlMap!Adapted(size) = k * Steep
<1>1. PICK k \in Nat \ {0} : threshold = k * Steep
  BY DEF WholeSteps
<1>2. Steep \in Nat \ {0}
  BY DEF CtrlMap!MapAssumption
<1>3. CASE size > threshold
  <2>1. CtrlMap!Adapted(size) = threshold + Steep
    <3>1. threshold \in Nat
      BY <1>1, <1>2
    <3>2. ~(size < threshold - Steep)
      BY <1>2, <1>3, <3>1
    <3>3. QED
      BY <1>3, <3>2 DEF CtrlMap!Adapted
  <2>2. k * Steep + Steep = (k + 1) * Steep /\ k + 1 \in Nat \ {0}
    BY <1>2
  <2>3. QED
    BY <1>1, <2>1, <2>2
<1>4. CASE ~(size > threshold) /\ size < threshold - Steep
  <2>1. CtrlMap!Adapted(size) = threshold - Steep
    BY <1>4 DEF CtrlMap!Adapted
  <2>2. k # 1
    BY <1>1, <1>2, <1>4
  <2>3. k * Steep - Steep = (k - 1) * Steep /\ k - 1 \in Nat \ {0}
    BY <1>2, <2>2
  <2>4. QED
    BY <1>1, <2>1, <2>3
<1>5. CASE ~(size > threshold) /\ ~(size < threshold - Steep)
  <2>1. CtrlMap!Adapted(size) = threshold
    BY <1>5 DEF CtrlMap!Adapted
  <2>2. QED
    BY <1>1, <2>1
<1>6. QED
  BY <1>3, <1>4, <1>5

-----------------------------------------------------------------------------
LEMMA MapInitHolds ==
  ASSUME CtrlMap!MapAssumption, CtrlMap!Init
  PROVE  MapInv
<1>1. DOMAIN m = {}
  BY DEF CtrlMap!Init
<1>2. v \in Seq(Strings)
  BY DEF CtrlMap!Init
<1>3. MapShape /\ CtrlMap!PositionsHold
  BY <1>1, <1>2, FS_EmptySet DEF CtrlMap!Init, MapShape, CtrlMap!PositionsHold
<1>4. threshold = 1 * Steep
  BY DEF CtrlMap!Init, CtrlMap!MapAssumption
<1>5. Histories /\ CtrlMap!GivenHolds
  BY <1>1 DEF CtrlMap!Init, Histories, CtrlMap!GivenHolds, CtrlMap!ReadState
<1>6. QED
  BY <1>3, <1>4, <1>5 DEF MapInv, WholeSteps

(* What a control was given, added to what the others were.                *)
LEMMA GaveKeeps ==
  ASSUME Histories, NEW c \in Controls, NEW value, CtrlMap!Gave(c, value), overrun' = overrun
  PROVE  /\ Histories'
         /\ \A k \in DOMAIN given' :
              \/ k = c /\ given'[k] = value
              \/ k # c /\ k \in DOMAIN given /\ given'[k] = given[k]
<1>1. /\ DOMAIN given' = DOMAIN given \union {c}
      /\ \A k \in DOMAIN given \union {c} : given'[k] = IF k = c THEN value ELSE given[k]
  BY DEF CtrlMap!Gave
<1>2. QED
  BY <1>1 DEF Histories

LEMMA PushHolds ==
  ASSUME MapInv, NEW c \in Controls, NEW value \in Values, CtrlMap!Push(c, value)
  PROVE  MapInv'
<1>1. v \in Seq(Strings)
  BY DEF MapInv, MapShape
<1>2. /\ v' \in Seq(Strings)
      /\ Len(v) <= Len(v') /\ Len(v) \in Nat /\ Len(v') \in Nat
      /\ CtrlMap!Position(value, v) \in Nat /\ CtrlMap!Position(value, v) < Len(v')
      /\ CtrlMap!At(v', CtrlMap!Position(value, v)) = value
      /\ \A p \in 0 .. Len(v) - 1 : CtrlMap!At(v', p) = CtrlMap!At(v, p)
  BY <1>1, KnownPositions DEF CtrlMap!Push
<1>3. /\ DOMAIN m' = DOMAIN m \union {c}
      /\ \A k \in DOMAIN m' : m'[k] = IF k = c THEN CtrlMap!Position(value, v) ELSE m[k]
      /\ m' = [k \in DOMAIN m' |-> m'[k]]
  BY DEF CtrlMap!Push
<1>4. IsFiniteSet(DOMAIN m')
  BY <1>3, FS_AddElement DEF MapInv, MapShape
<1>5. \A k \in DOMAIN m' : m'[k] \in Nat /\ m'[k] < Len(v')
  BY <1>2, <1>3 DEF MapInv, MapShape, CtrlMap!PositionsHold
<1>6. WholeSteps'
  BY DEF MapInv, WholeSteps, CtrlMap!Push
<1>7. MapShape' /\ CtrlMap!PositionsHold'
  BY <1>2, <1>3, <1>4, <1>5 DEF MapInv, MapShape, CtrlMap!PositionsHold
<1>8. /\ Histories'
      /\ \A k \in DOMAIN given' :
           \/ k = c /\ given'[k] = value
           \/ k # c /\ k \in DOMAIN given /\ given'[k] = given[k]
  BY GaveKeeps DEF MapInv, CtrlMap!Push
<1>9. ASSUME NEW k \in DOMAIN given'
      PROVE  CtrlMap!ReadState(k)' = given'[k]
  <2>1. CASE k = c
    BY <1>2, <1>3, <1>8, <2>1 DEF CtrlMap!ReadState
  <2>2. CASE k # c
    <3>1. given'[k] = CtrlMap!ReadState(k)
      BY <1>8, <2>2 DEF MapInv, CtrlMap!GivenHolds
    <3>2. CASE k \in DOMAIN m
      <4>1. /\ m[k] \in 0 .. Len(v) - 1 /\ m[k] < Len(v)
            /\ k \in DOMAIN m' /\ m'[k] = m[k] /\ m'[k] < Len(v')
        BY <1>2, <1>3, <1>5, <2>2, <3>2 DEF MapInv, MapShape, CtrlMap!PositionsHold
      <4>2. QED
        BY <1>2, <3>1, <3>2, <4>1 DEF CtrlMap!ReadState
    <3>3. CASE k \notin DOMAIN m
      BY <1>3, <2>2, <3>1, <3>3 DEF CtrlMap!ReadState
    <3>4. QED
      BY <3>2, <3>3
  <2>3. QED
    BY <2>1, <2>2
<1>10. CtrlMap!GivenHolds'
  BY <1>9 DEF CtrlMap!GivenHolds
<1>11. QED
  BY <1>6, <1>7, <1>8, <1>10 DEF MapInv

LEMMA PopHolds ==
  ASSUME MapInv, NEW c \in Controls, CtrlMap!Pop(c)
  PROVE  MapInv'
<1>1. /\ DOMAIN m' = DOMAIN m \ {c}
      /\ \A k \in DOMAIN m' : m'[k] = m[k]
      /\ m' = [k \in DOMAIN m' |-> m'[k]]
      /\ v' = v /\ threshold' = threshold
  BY DEF CtrlMap!Pop
<1>2. IsFiniteSet(DOMAIN m')
  BY <1>1, FS_Subset DEF MapInv, MapShape
<1>3. MapShape' /\ CtrlMap!PositionsHold'
  BY <1>1, <1>2 DEF MapInv, MapShape, CtrlMap!PositionsHold
<1>4. WholeSteps'
  BY <1>1 DEF MapInv, WholeSteps
<1>5. /\ Histories'
      /\ \A k \in DOMAIN given' :
           \/ k = c /\ given'[k] = Empty
           \/ k # c /\ k \in DOMAIN given /\ given'[k] = given[k]
  BY GaveKeeps DEF MapInv, CtrlMap!Pop
<1>6. CtrlMap!GivenHolds'
  BY <1>1, <1>5 DEF MapInv, CtrlMap!GivenHolds, CtrlMap!ReadState
<1>7. QED
  BY <1>3, <1>4, <1>5, <1>6 DEF MapInv

LEMMA CollectHolds ==
  ASSUME CtrlMap!MapAssumption, MapInv, CtrlMap!Collect
  PROVE  MapInv'
<1> DEFINE size == Cardinality(DOMAIN m)
<1>1. IsFiniteSet(DOMAIN m) /\ size \in Nat
  BY FS_CardinalityType DEF MapInv, MapShape
<1>2. PICK order \in CtrlMap!SetToSeqs(DOMAIN m) :
        /\ IF CtrlMap!Overruns
             THEN v' \in [1 .. size -> Strings]
             ELSE \E keeps \in BOOLEAN :
                    v' = CtrlMap!Resized(CtrlMap!Compacted(order, keeps), size)
        /\ m' = [c \in DOMAIN m |-> CHOOSE p \in 0 .. size - 1 : order[p + 1] = c]
  BY SameCardinality DEF CtrlMap!Collect, Strings
<1>0. threshold' = CtrlMap!Adapted(size) /\ CtrlMap!Touched
  BY SameCardinality DEF CtrlMap!Collect
<1> HIDE DEF size
<1>3. Len(v') = size /\ v' \in Seq(Strings)
  <2>1. CASE CtrlMap!Overruns
    BY <1>1, <1>2, <2>1
  <2>2. CASE ~CtrlMap!Overruns
    <3>1. PICK keeps \in BOOLEAN : v' = CtrlMap!Resized(CtrlMap!Compacted(order, keeps), size)
      BY <1>2, <2>2
    <3>2. v \in Seq(Strings) /\ Len(v) \in Nat
      BY DEF MapInv, MapShape
    <3>3. size <= Len(v)
      BY <1>1, <2>2, <3>2, SameCardinality DEF CtrlMap!Overruns, size
    <3>4. /\ order \in [1 .. size -> DOMAIN m] /\ Len(order) = size
          /\ \A k \in 1 .. Len(order) : m[order[k]] \in Nat /\ m[order[k]] < Len(v)
      BY <1>1, SameCardinality
         DEF CtrlMap!SetToSeqs, MapInv, MapShape, CtrlMap!PositionsHold, size
    <3>5. CtrlMap!Compacted(order, keeps) \in Seq(Strings)
      BY <1>1, <3>2, <3>3, <3>4, CompactedKeeps
    <3>6. QED
      BY <1>1, <3>1, <3>5, ResizedKeeps
  <2>3. QED
    BY <2>1, <2>2
<1>4. /\ DOMAIN m' = DOMAIN m
      /\ m' = [c \in DOMAIN m' |-> m'[c]]
      /\ \A c \in DOMAIN m : m'[c] = CHOOSE p \in 0 .. size - 1 : order[p + 1] = c
  BY <1>2
<1>5. ASSUME NEW c \in DOMAIN m
      PROVE  m'[c] \in 0 .. size - 1
  <2>1. \E p \in 0 .. size - 1 : order[p + 1] = c
    BY <1>1, OrderReachesAll DEF size
  <2>2. QED
    BY <1>4, <2>1
<1>6. \A c \in DOMAIN m' : m'[c] \in Nat /\ m'[c] < Len(v')
  BY <1>1, <1>3, <1>4, <1>5
<1>7. MapShape' /\ CtrlMap!PositionsHold'
  BY <1>1, <1>3, <1>4, <1>6 DEF MapInv, MapShape, CtrlMap!PositionsHold
<1>8. WholeSteps'
  BY <1>0, <1>1, AdaptedSteps DEF MapInv, WholeSteps
<1>9. Histories' /\ CtrlMap!GivenHolds'
  BY <1>0, <1>4
     DEF CtrlMap!Touched, CtrlMap!GivenHolds, CtrlMap!ReadState, MapInv, Histories
<1>10. QED
  BY <1>7, <1>8, <1>9 DEF MapInv

LEMMA MapStepHolds ==
  ASSUME CtrlMap!MapAssumption, MapInv, [CtrlMap!Next]_mapVars
  PROVE  MapInv'
<1>1. CASE UNCHANGED mapVars
  BY <1>1 DEF mapVars, MapInv, MapShape, CtrlMap!PositionsHold, WholeSteps, Histories,
              CtrlMap!GivenHolds, CtrlMap!ReadState
<1>2. QED
  BY <1>1, PushHolds, PopHolds, CollectHolds DEF CtrlMap!Next

(* The invariant has what the runs check.                                  *)
LEMMA MapFollows == MapInv => MapHolds
<1> SUFFICES ASSUME MapInv PROVE MapHolds
  OBVIOUS
<1>1. PICK k \in Nat \ {0} : threshold = k * Steep
  BY DEF MapInv, WholeSteps
<1>2. k * Steep >= Steep /\ k * Steep \in Nat
  BY ServicesAssumption DEF CtrlMap!MapAssumption
<1>3. CtrlMap!TypeOK
  BY <1>1, <1>2 DEF MapInv, MapShape, Strings, Histories, CtrlMap!TypeOK
<1>4. QED
  BY <1>1, <1>2, <1>3 DEF MapInv, MapHolds, CtrlMap!MapHolds, CtrlMap!ThresholdStays

(* As long as no collection has written beyond the values, no reader looks *)
(* beyond them and every control that no collection has touched has the    *)
(* state it was given last; and collections do not become ever more        *)
(* frequent: the threshold stays at one step or more.                      *)
THEOREM MapIsSafe == CtrlMap!Spec => []MapHolds
<1>1. CtrlMap!Init => MapInv
  BY MapInitHolds, ServicesAssumption
<1>2. MapInv /\ [CtrlMap!Next]_mapVars => MapInv'
  BY MapStepHolds, ServicesAssumption
<1>3. CtrlMap!Spec => CtrlMap!Init /\ [][CtrlMap!Next]_mapVars
  BY PTL DEF CtrlMap!Spec, CtrlMap!vars, mapVars
<1>4. QED
  BY <1>1, <1>2, <1>3, MapFollows, PTL
=============================================================================
