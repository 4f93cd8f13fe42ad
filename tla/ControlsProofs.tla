---------------------------- MODULE ControlsProofs ----------------------------
(***************************************************************************)
(* Proofs about Controls, for any pages, controls, groups and counts: of a *)
(* group one switch at most is on, a repetition's interval runs exactly    *)
(* while the repetition goes on and its page is not locked, and once all   *)
(* messages have arrived the pages show what the server holds, however     *)
(* many messages are under way at once.                                    *)
(*                                                                         *)
(* What is shown and what repeats depend on each other: a task that is     *)
(* under way belongs to a control that is shown as on, so that whatever    *)
(* turns the control off finds the interval; and only remote controls wait *)
(* for answers, so that a failed request turns off none that repeats here. *)
(* Messages need no types for this: what they name is turned on or off in  *)
(* the same way as by a tap.                                               *)
(*                                                                         *)
(* The agreement rests on what the messages under way will do to whoever   *)
(* reads them: Turns(s, n, c, X, Y) says that the first n messages of s    *)
(* take c from being in X or not to being in Y or not. A page that has     *)
(* been heard out will show what the server holds; one that has not will   *)
(* be left alone until it has. The hard part are the groups: whoever       *)
(* applies "switched-on" also turns the rivals off, without a word, so     *)
(* that each queue has to turn every rival off before it turns the control *)
(* on. Speakers at the same time would break this, and only "apart" tells  *)
(* that there were some.                                                   *)
(***************************************************************************)
EXTENDS Controls, TLAPS, FiniteSetTheorems, SequenceTheorems

TaskRecords == [live : BOOLEAN, left : Int, held : BOOLEAN, leaked : Nat]

Shape ==
  /\ on = [p \in Pages |-> on[p]]
  /\ locks \in [Pages -> SUBSET {"no_connection", "configuration"}]
  /\ task \in [Pages -> [Controls -> TaskRecords]]
  /\ asked = [p \in Pages |-> asked[p]]

(* A task t of control c on a page that shows S, locked for reasons L.     *)
Agrees(t, c, S, L) ==
  /\ t.leaked = 0
  /\ t.live => c \in S /\ Class[c] = "repeat"
  /\ t.held = (t.live /\ L = {})

TasksAgree == \A p \in Pages, c \in Controls : Agrees(task[p][c], c, on[p], locks[p])

AskedRemote == \A p \in Pages : \A c \in asked[p] : Class[c] = "remote"

IInv == Shape /\ OneOfGroup /\ TasksAgree /\ AskedRemote

-----------------------------------------------------------------------------
LEMMA StartFacts ==
  ASSUME NEW t \in TaskRecords
  PROVE  /\ Start(t) \in TaskRecords
         /\ Start(t).live = t.live
         /\ Start(t).held = TRUE
         /\ ~t.held => Start(t).leaked = t.leaked
<1>1. CASE t.held
  <2>1. Start(t) = [t EXCEPT !.held = TRUE, !.leaked = t.leaked + 1]
    BY <1>1 DEF Start, TaskRecords
  <2>2. t.leaked + 1 \in Nat
    BY DEF TaskRecords
  <2>3. QED
    BY <1>1, <2>1, <2>2 DEF TaskRecords
<1>2. CASE ~t.held
  <2>1. Start(t) = [t EXCEPT !.held = TRUE, !.leaked = t.leaked]
    BY <1>2 DEF Start, TaskRecords
  <2>2. QED
    BY <1>2, <2>1 DEF TaskRecords
<1>3. QED
  BY <1>1, <1>2

LEMMA StopFacts ==
  ASSUME NEW t \in TaskRecords
  PROVE  /\ Stop(t) \in TaskRecords
         /\ Stop(t).live = FALSE
         /\ Stop(t).held = FALSE
         /\ Stop(t).leaked = t.leaked
BY DEF Stop, TaskRecords

(* A task that is stopped agrees with whatever is shown.                   *)
LEMMA StoppedAgrees ==
  ASSUME NEW t \in TaskRecords, NEW c, NEW S, NEW L, t.leaked = 0
  PROVE  Agrees(Stop(t), c, S, L)
BY StopFacts DEF Agrees

(* One repetition less: the task agrees as before, or it is stopped.       *)
LEMMA CountedAgrees ==
  ASSUME NEW t \in TaskRecords, NEW c, NEW S, NEW L, Agrees(t, c, S, L)
  PROVE  Counted(t) \in TaskRecords /\ Agrees(Counted(t), c, S, L)
<1>1. t.left - 1 \in Int
  BY DEF TaskRecords
<1>2. CASE t.left = 1
  <2>1. [t EXCEPT !.left = 0] \in TaskRecords /\ [t EXCEPT !.left = 0].leaked = 0
    BY DEF TaskRecords, Agrees
  <2>2. QED
    BY <1>2, <2>1, StopFacts, StoppedAgrees DEF Counted
<1>3. CASE t.left # 1
  <2> DEFINE u == [t EXCEPT !.left = t.left - 1]
  <2>1. u \in TaskRecords /\ u.live = t.live /\ u.held = t.held /\ u.leaked = t.leaked
    BY <1>1 DEF TaskRecords
  <2>2. Counted(t) = u
    BY <1>3 DEF Counted
  <2> HIDE DEF u
  <2>3. QED
    BY <2>1, <2>2 DEF Agrees
<1>4. QED
  BY <1>2, <1>3

(* What a page shows may change where no task is under way.                *)
LEMMA AgreesWith ==
  ASSUME NEW t \in TaskRecords, NEW c, NEW S, NEW T, NEW L,
         Agrees(t, c, S, L), t.live => c \in T
  PROVE  Agrees(t, c, T, L)
BY DEF Agrees

(* Turning X off and one control on, its group with it, keeps the groups.  *)
LEMMA GroupsKept ==
  ASSUME Shape, OneOfGroup, NEW p \in Pages, NEW c, NEW X, NEW Y,
         Y \subseteq {c}, c \in Y /\ IsSwitch(c) => Members(p, c) \subseteq X,
         on' = [on EXCEPT ![p] = (@ \ X) \union Y]
  PROVE  OneOfGroup' /\ on' = [q \in Pages |-> on'[q]]
<1>1. on'[p] = (on[p] \ X) \union Y /\ \A q \in Pages \ {p} : on'[q] = on[q]
  BY DEF Shape
<1>2. on' = [q \in Pages |-> on'[q]]
  BY DEF Shape
<1>3. ASSUME NEW q \in Pages, NEW d \in on'[q], NEW e \in on'[q],
             Mates(d, e), IsSwitch(d), IsSwitch(e)
      PROVE  d = e
  <2>1. CASE d \in on[q] /\ e \in on[q]
    BY <1>3, <2>1 DEF OneOfGroup
  <2>2. CASE d \notin on[q]
    <3>1. q = p /\ d = c /\ c \in Y
      BY <1>1, <2>2
    <3>2. CASE e # c
      <4>1. e \in on[p] /\ e \notin X
        BY <1>1, <3>1, <3>2
      <4>2. e \in Members(p, c)
        BY <1>3, <3>1, <3>2, <4>1 DEF Members, Mates
      <4>3. QED
        BY <1>3, <3>1, <4>1, <4>2
    <3>3. QED
      BY <3>1, <3>2
  <2>3. CASE e \notin on[q]
    <3>1. q = p /\ e = c /\ c \in Y
      BY <1>1, <2>3
    <3>2. CASE d # c
      <4>1. d \in on[p] /\ d \notin X
        BY <1>1, <3>1, <3>2
      <4>2. d \in Members(p, c)
        BY <1>3, <3>1, <3>2, <4>1 DEF Members, Mates
      <4>3. QED
        BY <1>3, <3>1, <4>1, <4>2
    <3>3. QED
      BY <3>1, <3>2
  <2>4. QED
    BY <2>1, <2>2, <2>3
<1>4. OneOfGroup'
  BY <1>3 DEF OneOfGroup, IsSwitch
<1>5. QED
  BY <1>2, <1>4

(* switchTo, wherever it is called from, keeps groups and tasks.           *)
LEMMA SwitchedHolds ==
  ASSUME IInv, NEW p \in Pages, NEW c, NEW X, NEW Y,
         Y \subseteq {c}, c \in Y /\ IsSwitch(c) => Members(p, c) \subseteq X,
         Switched(p, X, Y), locks' = locks,
         asked' = [q \in Pages |-> asked'[q]], AskedRemote'
  PROVE  IInv'
<1> DEFINE Off == (X \intersect on[p]) \union Y
           T(d) == IF d \in Off /\ Class[d] = "repeat" THEN Stop(task[p][d]) ELSE task[p][d]
<1>1. /\ on' = [on EXCEPT ![p] = (@ \ X) \union Y]
      /\ task' = [task EXCEPT ![p] = [d \in Controls |-> T(d)]]
  BY DEF Switched
<1>2. OneOfGroup' /\ on' = [q \in Pages |-> on'[q]]
  BY <1>1, GroupsKept DEF IInv
<1>3. \A q \in Pages, d \in Controls : task[q][d] \in TaskRecords
  BY DEF IInv, Shape
<1>4. ASSUME NEW d \in Controls
      PROVE  T(d) \in TaskRecords /\ Agrees(T(d), d, (on[p] \ X) \union Y, locks[p])
  <2>1. Agrees(task[p][d], d, on[p], locks[p])
    BY DEF IInv, TasksAgree
  <2>2. CASE d \in Off /\ Class[d] = "repeat"
    BY <1>3, <2>1, <2>2, StopFacts, StoppedAgrees DEF Agrees
  <2>3. CASE ~(d \in Off /\ Class[d] = "repeat")
    <3>1. task[p][d].live => d \in (on[p] \ X) \union Y
      BY <2>1, <2>3 DEF Agrees
    <3>2. QED
      BY <1>3, <2>1, <2>3, <3>1, AgreesWith
  <2>4. QED
    BY <2>2, <2>3
<1> HIDE DEF T, Off
<1>5. task' \in [Pages -> [Controls -> TaskRecords]]
  BY <1>1, <1>4 DEF IInv, Shape
<1>6. ASSUME NEW q \in Pages, NEW d \in Controls
      PROVE  Agrees(task'[q][d], d, on'[q], locks'[q])
  <2>1. CASE q = p
    BY <1>1, <1>4, <2>1 DEF IInv, Shape
  <2>2. CASE q # p
    BY <1>1, <2>2 DEF IInv, Shape, TasksAgree
  <2>3. QED
    BY <2>1, <2>2
<1>7. TasksAgree'
  BY <1>6 DEF TasksAgree, Agrees
<1>8. QED
  BY <1>2, <1>5, <1>7 DEF Shape, IInv

(* A step that leaves what is shown and the locks alone, and the tasks of  *)
(* page p or of all.                                                       *)
LEMMA TaskStepHolds ==
  ASSUME IInv, on' = on, asked' = [q \in Pages |-> asked'[q]], AskedRemote',
         locks' \in [Pages -> SUBSET {"no_connection", "configuration"}],
         task' \in [Pages -> [Controls -> TaskRecords]],
         \A q \in Pages, d \in Controls : Agrees(task'[q][d], d, on[q], locks'[q])
  PROVE  IInv'
<1>1. Shape'
  BY DEF IInv, Shape
<1>2. OneOfGroup'
  BY DEF IInv, OneOfGroup
<1>3. TasksAgree'
  BY DEF TasksAgree
<1>4. QED
  BY <1>1, <1>2, <1>3 DEF IInv

(* ... and those that touch neither.                                       *)
LEMMA NothingShown ==
  ASSUME IInv, UNCHANGED <<on, task, locks>>, asked' = [q \in Pages |-> asked'[q]],
         AskedRemote'
  PROVE  IInv'
BY DEF IInv, Shape, OneOfGroup, TasksAgree, Agrees

LEMMA AskedKept ==
  ASSUME Shape, AskedRemote, asked' = asked
  PROVE  asked' = [q \in Pages |-> asked'[q]] /\ AskedRemote'
BY DEF Shape, AskedRemote

LEMMA AskedLess ==
  ASSUME Shape, AskedRemote, NEW p \in Pages, NEW S, S \subseteq asked[p],
         asked' = [asked EXCEPT ![p] = S]
  PROVE  asked' = [q \in Pages |-> asked'[q]] /\ AskedRemote'
<1>1. \A q \in Pages : asked'[q] \subseteq asked[q]
  BY DEF Shape
<1>2. asked' = [q \in Pages |-> asked'[q]]
  BY DEF Shape
<1>3. QED
  BY <1>1, <1>2 DEF AskedRemote

-----------------------------------------------------------------------------
(* A tap, on a control of each class.                                      *)
LEMMA RepeatOnHolds ==
  ASSUME IInv, NEW p \in Pages, NEW c \in Controls, RepeatOn(p, c),
         locks[p] = {}, locks' = locks
  PROVE  IInv'
<1> DEFINE M == Members(p, c)
           begun == [live |-> Count[c] # 1, left |-> Count[c] - 1, held |-> FALSE,
                     leaked |-> task[p][c].leaked + IF task[p][c].held THEN 1 ELSE 0]
           stopped(d) == IF d \in M THEN Stop(task[p][d]) ELSE task[p][d]
           T(d) == IF d # c THEN stopped(d) ELSE IF begun.live THEN Start(begun) ELSE begun
           S == (on[p] \ M) \union {c}
<1>1. /\ c \notin on[p] /\ Class[c] = "repeat"
      /\ on' = [on EXCEPT ![p] = (@ \ M) \union {c}]
      /\ task' = [task EXCEPT ![p] = [d \in Controls |-> T(d)]]
      /\ asked' = asked
  BY DEF RepeatOn
<1>2. \A q \in Pages, d \in Controls :
        task[q][d] \in TaskRecords /\ Agrees(task[q][d], d, on[q], locks[q])
  BY DEF IInv, Shape, TasksAgree
<1>3. T(c) \in TaskRecords /\ Agrees(T(c), c, S, {})
  <2>1. task[p][c].leaked = 0 /\ task[p][c].held = FALSE
    <3>1. task[p][c].leaked = 0 /\ task[p][c].live \in BOOLEAN /\ ~task[p][c].live
          /\ task[p][c].held = (task[p][c].live /\ locks[p] = {})
      BY <1>1, <1>2 DEF Agrees, TaskRecords
    <3>2. QED
      BY <3>1
  <2>2. begun = [live |-> Count[c] # 1, left |-> Count[c] - 1, held |-> FALSE, leaked |-> 0]
    <3>1. task[p][c].leaked + (IF task[p][c].held THEN 1 ELSE 0) = 0
      BY <2>1
    <3>2. QED
      BY <3>1
  <2>3. begun \in TaskRecords /\ begun.held = FALSE /\ begun.leaked = 0
    <3>1. Count[c] - 1 \in Int /\ (Count[c] # 1) \in BOOLEAN
      BY CountAssumption
    <3>2. QED
      BY <2>2, <3>1 DEF TaskRecords
  <2> HIDE DEF begun
  <2>4. CASE begun.live
    <3>1. T(c) = Start(begun)
      BY <2>4
    <3>2. Start(begun).live = begun.live /\ Start(begun).held = TRUE
          /\ Start(begun).leaked = 0 /\ Start(begun) \in TaskRecords
      BY <2>3, StartFacts
    <3>3. QED
      BY <1>1, <2>4, <3>1, <3>2 DEF Agrees
  <2>5. CASE ~begun.live
    BY <2>3, <2>5 DEF Agrees
  <2>6. QED
    BY <2>4, <2>5
<1>4. ASSUME NEW d \in Controls, d # c
      PROVE  T(d) \in TaskRecords /\ Agrees(T(d), d, S, {})
  <2>1. CASE d \in M
    BY <1>2, <1>4, <2>1, StopFacts, StoppedAgrees DEF Agrees
  <2>2. CASE d \notin M
    <3>1. task[p][d].live => d \in S
      BY <1>2, <2>2 DEF Agrees
    <3>2. Agrees(task[p][d], d, on[p], {})
      BY <1>2
    <3>3. Agrees(task[p][d], d, S, {}) /\ task[p][d] \in TaskRecords
      BY <1>2, <3>1, <3>2, AgreesWith
    <3>4. QED
      BY <1>4, <2>2, <3>3
  <2>3. QED
    BY <2>1, <2>2
<1>5. OneOfGroup' /\ on' = [q \in Pages |-> on'[q]]
  BY <1>1, GroupsKept DEF IInv
<1> HIDE DEF T, M
<1>6. task' \in [Pages -> [Controls -> TaskRecords]]
  BY <1>1, <1>3, <1>4 DEF IInv, Shape
<1>7. ASSUME NEW q \in Pages, NEW d \in Controls
      PROVE  Agrees(task'[q][d], d, on'[q], locks'[q])
  <2>1. CASE q = p
    <3>1. task'[p][d] = T(d) /\ on'[p] = S
      BY <1>1 DEF IInv, Shape
    <3>2. QED
      BY <1>3, <1>4, <2>1, <3>1
  <2>2. CASE q # p
    BY <1>1, <1>2, <2>2 DEF IInv, Shape
  <2>3. QED
    BY <2>1, <2>2
<1>8. TasksAgree'
  BY <1>7 DEF TasksAgree
<1>9. asked' = [q \in Pages |-> asked'[q]] /\ AskedRemote'
  BY <1>1, AskedKept DEF IInv
<1>10. QED
  BY <1>5, <1>6, <1>8, <1>9 DEF IInv, Shape

LEMMA TapHolds ==
  ASSUME IInv, NEW p \in Pages, NEW c \in Controls, Tap(p, c)
  PROVE  IInv'
<1>1. locks' = locks /\ locks[p] = {} /\ Shape /\ AskedRemote
  BY DEF Tap, MayTap, IInv
<1>2. ASSUME NEW X, NEW Y, Y \subseteq {c},
             c \in Y /\ IsSwitch(c) => Members(p, c) \subseteq X,
             Switched(p, X, Y), asked' = asked
      PROVE  IInv'
  <2>1. asked' = [q \in Pages |-> asked'[q]] /\ AskedRemote'
    BY <1>1, <1>2, AskedKept
  <2>2. QED
    BY <1>1, <1>2, <2>1, SwitchedHolds
<1>3. CASE OneshotClick(p, c)
  BY <1>2, <1>3 DEF OneshotClick
<1>4. CASE SwitchOn(p, c)
  BY <1>2, <1>4 DEF SwitchOn
<1>5. CASE SwitchOff(p, c)
  BY <1>2, <1>5 DEF SwitchOff
<1>6. CASE RepeatOn(p, c)
  BY <1>1, <1>6, RepeatOnHolds
<1>7. CASE RepeatOff(p, c)
  BY <1>2, <1>7 DEF RepeatOff
<1>8. CASE RemoteSwitch(p, c)
  <2>1. asked' = [q \in Pages |-> asked'[q]] /\ AskedRemote'
    <3>1. Class[c] = "remote"
      BY <1>8 DEF RemoteSwitch
    <3>2. asked' = asked \/ asked' = [asked EXCEPT ![p] = @ \union {c}]
      BY <1>8 DEF RemoteSwitch
    <3>3. QED
      BY <1>1, <3>1, <3>2 DEF Shape, AskedRemote
  <2>2. Switched(p, {c}, {}) \/ Switched(p, Members(p, c), {c})
    BY <1>8 DEF RemoteSwitch
  <2>3. QED
    BY <1>1, <2>1, <2>2, SwitchedHolds
<1>9. CASE MemoSet(p, c)
  <2>1. ~IsSwitch(c)
    BY <1>9 DEF MemoSet, IsSwitch
  <2>2. QED
    BY <1>2, <1>9, <2>1 DEF MemoSet
<1>10. CASE MemoClear(p, c)
  BY <1>2, <1>10 DEF MemoClear
<1>11. QED
  BY <1>3, <1>4, <1>5, <1>6, <1>7, <1>8, <1>9, <1>10 DEF Tap

-----------------------------------------------------------------------------
(* Timers.                                                                 *)
LEMMA TimerHolds ==
  ASSUME IInv, NEW p \in Pages, NEW c \in Controls,
         Restore(p, c) \/ RepeatEnd(p, c) \/ RemoteTimeout(p, c)
  PROVE  IInv'
<1>1. Shape /\ AskedRemote
  BY DEF IInv
<1>2. CASE Restore(p, c)
  <2>1. asked' = asked /\ locks' = locks /\ Switched(p, {c}, {})
    BY <1>2 DEF Restore
  <2>2. asked' = [q \in Pages |-> asked'[q]] /\ AskedRemote'
    BY <1>1, <2>1, AskedKept
  <2>3. QED
    BY <2>1, <2>2, SwitchedHolds
<1>3. CASE RepeatEnd(p, c)
  <2>1. asked' = asked /\ locks' = locks
    BY <1>3 DEF RepeatEnd
  <2>2. asked' = [q \in Pages |-> asked'[q]] /\ AskedRemote'
    BY <1>1, <2>1, AskedKept
  <2>3. CASE c \in on[p]
    <3>1. Switched(p, {c}, {})
      BY <1>3, <2>3 DEF RepeatEnd
    <3>2. QED
      BY <2>1, <2>2, <3>1, SwitchedHolds
  <2>4. CASE c \notin on[p]
    <3>1. UNCHANGED <<on, task>>
      BY <1>3, <2>4 DEF RepeatEnd
    <3>2. QED
      BY <2>1, <2>2, <3>1, NothingShown
  <2>5. QED
    BY <2>3, <2>4
<1>4. CASE RemoteTimeout(p, c)
  <2>1. /\ asked' = [asked EXCEPT ![p] = asked[p] \ {c}]
        /\ locks' = locks /\ Switched(p, {c}, {})
    BY <1>1, <1>4 DEF RemoteTimeout, Shape
  <2>2. asked' = [q \in Pages |-> asked'[q]] /\ AskedRemote'
    BY <1>1, <2>1, AskedLess
  <2>3. locks' = locks /\ Switched(p, {c}, {})
    BY <2>1
  <2>4. QED
    BY <2>2, <2>3, SwitchedHolds
<1>5. QED
  BY <1>2, <1>3, <1>4

(* The interval of a task: the last repetition ends it.                    *)
LEMMA HandleTaskHolds ==
  ASSUME IInv, NEW p \in Pages, NEW c \in Controls, HandleTask(p, c)
  PROVE  IInv'
<1> DEFINE T == Counted(task[p][c])
<1>1. /\ on' = on /\ locks' = locks /\ asked' = asked
      /\ task' = [task EXCEPT ![p][c] = T]
  BY DEF HandleTask
<1>2. \A q \in Pages, d \in Controls :
        task[q][d] \in TaskRecords /\ Agrees(task[q][d], d, on[q], locks[q])
  BY DEF IInv, Shape, TasksAgree
<1> HIDE DEF T
<1>5. T \in TaskRecords /\ Agrees(T, c, on[p], locks[p])
  BY <1>2, CountedAgrees DEF T
<1>6. \A q \in Pages, d \in Controls :
        task'[q][d] = IF q = p /\ d = c THEN T ELSE task[q][d]
  BY <1>1 DEF IInv, Shape
<1>7. task' \in [Pages -> [Controls -> TaskRecords]]
  BY <1>1, <1>5 DEF IInv, Shape
<1>8. \A q \in Pages, d \in Controls : Agrees(task'[q][d], d, on[q], locks'[q])
  BY <1>1, <1>2, <1>5, <1>6
<1>9. asked' = [q \in Pages |-> asked'[q]] /\ AskedRemote'
  BY <1>1, AskedKept DEF IInv
<1>10. locks' \in [Pages -> SUBSET {"no_connection", "configuration"}]
  BY <1>1 DEF IInv, Shape
<1>11. QED
  BY <1>1, <1>7, <1>8, <1>9, <1>10, TaskStepHolds

-----------------------------------------------------------------------------
(* Locks: a locked page holds no interval, an enabled one those of all its *)
(* tasks.                                                                  *)
LEMMA PausedAgrees ==
  ASSUME IInv, NEW p \in Pages, NEW L, L # {}, task' = Paused(p)
  PROVE  /\ task' \in [Pages -> [Controls -> TaskRecords]]
         /\ \A c \in Controls : /\ task'[p][c].live = task[p][c].live
                               /\ Agrees(task'[p][c], c, on[p], L)
         /\ \A q \in Pages \ {p} : task'[q] = task[q]
<1> DEFINE T(c) == IF task[p][c].live /\ locks[p] = {}
                     THEN [task[p][c] EXCEPT !.held = FALSE] ELSE task[p][c]
<1>1. task' = [task EXCEPT ![p] = [c \in Controls |-> T(c)]]
  BY DEF Paused, IInv, Shape
<1>2. \A c \in Controls : task[p][c] \in TaskRecords /\ Agrees(task[p][c], c, on[p], locks[p])
  BY DEF IInv, Shape, TasksAgree
<1>3. ASSUME NEW c \in Controls
      PROVE  T(c) \in TaskRecords /\ T(c).live = task[p][c].live
             /\ T(c).held = FALSE /\ T(c).leaked = 0
  <2>1. CASE task[p][c].live /\ locks[p] = {}
    BY <1>2, <2>1 DEF TaskRecords, Agrees
  <2>2. CASE ~(task[p][c].live /\ locks[p] = {})
    BY <1>2, <2>2 DEF Agrees
  <2>3. QED
    BY <2>1, <2>2
<1>4. \A c \in Controls : Agrees(T(c), c, on[p], L)
  BY <1>2, <1>3 DEF Agrees
<1> HIDE DEF T
<1>5. task'[p] = [c \in Controls |-> T(c)] /\ \A q \in Pages \ {p} : task'[q] = task[q]
  BY <1>1 DEF IInv, Shape
<1>6. task' \in [Pages -> [Controls -> TaskRecords]]
  <2>1. [c \in Controls |-> T(c)] \in [Controls -> TaskRecords]
    BY <1>3
  <2>2. QED
    BY <1>1, <2>1 DEF IInv, Shape
<1>7. \A c \in Controls : task'[p][c] = T(c)
  BY <1>5
<1>8. QED
  BY <1>3, <1>4, <1>5, <1>6, <1>7

(* Tasks agree with any locks once they are resumed, if the page was       *)
(* locked before: none has its interval yet.                               *)
LEMMA ResumedAgrees ==
  ASSUME NEW tasks \in [Controls -> TaskRecords], NEW S, NEW L, L # {},
         \A c \in Controls : Agrees(tasks[c], c, S, L)
  PROVE  /\ Resumed(tasks) \in [Controls -> TaskRecords]
         /\ \A c \in Controls : Agrees(Resumed(tasks)[c], c, S, {})
<1>1. ASSUME NEW c \in Controls
      PROVE  Resumed(tasks)[c] \in TaskRecords /\ Agrees(Resumed(tasks)[c], c, S, {})
  <2>1. tasks[c] \in TaskRecords /\ tasks[c].held = FALSE /\ Agrees(tasks[c], c, S, L)
    BY DEF Agrees
  <2>2. CASE tasks[c].live
    <3>1. Resumed(tasks)[c] = Start(tasks[c])
      BY <2>2 DEF Resumed
    <3>2. /\ Start(tasks[c]) \in TaskRecords
          /\ Start(tasks[c]).live = tasks[c].live /\ Start(tasks[c]).held = TRUE
          /\ Start(tasks[c]).leaked = tasks[c].leaked
      BY <2>1, StartFacts
    <3>3. QED
      BY <2>1, <2>2, <3>1, <3>2 DEF Agrees
  <2>3. CASE ~tasks[c].live
    <3>1. Resumed(tasks)[c] = tasks[c]
      BY <2>3 DEF Resumed
    <3>2. QED
      BY <2>1, <2>3, <3>1 DEF Agrees
  <2>4. QED
    BY <2>2, <2>3
<1>2. QED
  BY <1>1 DEF Resumed

LEMMA LockHolds ==
  ASSUME IInv, NEW p \in Pages, Lock(p)
  PROVE  IInv'
<1>1. /\ on' = on /\ asked' = asked /\ task' = Paused(p)
      /\ locks' = [locks EXCEPT ![p] = @ \union {"configuration"}]
  BY DEF Lock
<1>2. locks'[p] # {} /\ \A q \in Pages \ {p} : locks'[q] = locks[q]
  BY <1>1 DEF IInv, Shape
<1>3. locks' \in [Pages -> SUBSET {"no_connection", "configuration"}]
  BY <1>1 DEF IInv, Shape
<1>4. /\ task' \in [Pages -> [Controls -> TaskRecords]]
      /\ \A c \in Controls : Agrees(task'[p][c], c, on[p], locks'[p])
      /\ \A q \in Pages \ {p} : task'[q] = task[q]
  BY <1>1, <1>2, PausedAgrees
<1>5. \A q \in Pages, d \in Controls : Agrees(task'[q][d], d, on[q], locks'[q])
  BY <1>2, <1>4 DEF IInv, TasksAgree
<1>6. asked' = [q \in Pages |-> asked'[q]] /\ AskedRemote'
  BY <1>1, AskedKept DEF IInv
<1>7. QED
  BY <1>1, <1>3, <1>4, <1>5, <1>6, TaskStepHolds

LEMMA UnlockHolds ==
  ASSUME IInv, NEW p \in Pages, Unlock(p)
  PROVE  IInv'
<1>1. /\ on' = on /\ asked' = asked
      /\ locks' = [locks EXCEPT ![p] = @ \ {"configuration"}]
      /\ locks[p] # {}
  BY DEF Unlock
<1>2. \A q \in Pages \ {p} : locks'[q] = locks[q]
  BY <1>1 DEF IInv, Shape
<1>3. locks' \in [Pages -> SUBSET {"no_connection", "configuration"}]
  BY <1>1 DEF IInv, Shape
<1>4. /\ task[p] \in [Controls -> TaskRecords]
      /\ \A q \in Pages, c \in Controls : Agrees(task[q][c], c, on[q], locks[q])
  BY DEF IInv, Shape, TasksAgree
<1>5. asked' = [q \in Pages |-> asked'[q]] /\ AskedRemote'
  BY <1>1, AskedKept DEF IInv
<1>6. CASE locks'[p] = {}
  <2>1. task' = [task EXCEPT ![p] = Resumed(task[p])]
    BY <1>6 DEF Unlock
  <2>2. /\ Resumed(task[p]) \in [Controls -> TaskRecords]
        /\ \A c \in Controls : Agrees(Resumed(task[p])[c], c, on[p], {})
    BY <1>1, <1>4, ResumedAgrees
  <2>3. task' \in [Pages -> [Controls -> TaskRecords]]
    BY <2>1, <2>2 DEF IInv, Shape
  <2>4. task'[p] = Resumed(task[p]) /\ \A q \in Pages \ {p} : task'[q] = task[q]
    BY <2>1 DEF IInv, Shape
  <2>5. \A q \in Pages, d \in Controls : Agrees(task'[q][d], d, on[q], locks'[q])
    BY <1>2, <1>4, <1>6, <2>2, <2>4
  <2>6. QED
    BY <1>1, <1>3, <1>5, <2>3, <2>5, TaskStepHolds
<1>7. CASE locks'[p] # {}
  <2>1. task' = task
    BY <1>7 DEF Unlock
  <2>2. task' \in [Pages -> [Controls -> TaskRecords]]
    BY <2>1 DEF IInv, Shape
  <2>3. \A c \in Controls : Agrees(task[p][c], c, on[p], locks'[p])
    BY <1>1, <1>4, <1>7 DEF Agrees
  <2>4. \A q \in Pages, d \in Controls : Agrees(task'[q][d], d, on[q], locks'[q])
    BY <1>2, <1>4, <2>1, <2>3
  <2>5. QED
    BY <1>1, <1>3, <1>5, <2>2, <2>4, TaskStepHolds
<1>8. QED
  BY <1>6, <1>7

-----------------------------------------------------------------------------
(* A lost connection turns off what waited for an answer: remote controls, *)
(* none of which has a task.                                               *)
LEMMA DisconnectHolds ==
  ASSUME IInv, NEW p \in Pages, Disconnect(p)
  PROVE  IInv'
<1>1. /\ on' = [on EXCEPT ![p] = @ \ asked[p]]
      /\ asked' = [asked EXCEPT ![p] = {}]
      /\ task' = Paused(p)
      /\ locks' = [locks EXCEPT ![p] = @ \union {"no_connection"}]
  BY DEF Disconnect
<1>2. locks'[p] # {} /\ \A q \in Pages \ {p} : locks'[q] = locks[q]
  BY <1>1 DEF IInv, Shape
<1>3. locks' \in [Pages -> SUBSET {"no_connection", "configuration"}]
  BY <1>1 DEF IInv, Shape
<1>4. /\ task' \in [Pages -> [Controls -> TaskRecords]]
      /\ \A c \in Controls : Agrees(task'[p][c], c, on[p], locks'[p])
      /\ \A q \in Pages \ {p} : task'[q] = task[q]
  BY <1>1, <1>2, PausedAgrees
<1>5. on'[p] = on[p] \ asked[p] /\ \A q \in Pages \ {p} : on'[q] = on[q]
  BY <1>1 DEF IInv, Shape
<1>6. ASSUME NEW d \in Controls
      PROVE  Agrees(task'[p][d], d, on'[p], locks'[p])
  <2>1. task'[p][d] \in TaskRecords /\ Agrees(task'[p][d], d, on[p], locks'[p])
    BY <1>4
  <2>2. task'[p][d].live => d \in on'[p]
    BY <1>5, <2>1 DEF Agrees, IInv, AskedRemote
  <2>3. QED
    BY <2>1, <2>2, AgreesWith
<1>7. ASSUME NEW q \in Pages, NEW d \in Controls
      PROVE  Agrees(task'[q][d], d, on'[q], locks'[q])
  <2>1. CASE q = p
    BY <1>6, <2>1
  <2>2. CASE q # p
    <3>1. on'[q] = on[q] /\ task'[q] = task[q] /\ locks'[q] = locks[q]
      BY <1>2, <1>4, <1>5, <2>2
    <3>2. QED
      BY <3>1 DEF IInv, TasksAgree
  <2>3. QED
    BY <2>1, <2>2
<1>8. TasksAgree'
  BY <1>7 DEF TasksAgree
<1>9. asked' = [q \in Pages |-> asked'[q]] /\ AskedRemote'
  <2>1. /\ asked' = [q \in Pages |-> asked'[q]]
        /\ \A q \in Pages : asked'[q] \subseteq asked[q]
    BY <1>1 DEF IInv, Shape
  <2>2. QED
    BY <2>1 DEF IInv, AskedRemote
<1>10. OneOfGroup' /\ on' = [q \in Pages |-> on'[q]]
  <2>1. \A q \in Pages : on'[q] \subseteq on[q]
    BY <1>5
  <2>2. OneOfGroup'
    BY <2>1 DEF IInv, OneOfGroup
  <2>3. on' = [q \in Pages |-> on'[q]]
    BY <1>1 DEF IInv, Shape
  <2>4. QED
    BY <2>2, <2>3
<1>11. QED
  BY <1>3, <1>4, <1>8, <1>9, <1>10 DEF IInv, Shape

(* The states of the page are reset before the controls are enabled, so    *)
(* that no task is left that would be resumed with its control off.        *)
LEMMA AuthorizeHolds ==
  ASSUME IInv, NEW p \in Pages, Authorize(p)
  PROVE  IInv'
<1> DEFINE R(c) == IF c \in on[p] THEN Stop(task[p][c]) ELSE task[p][c]
           reset == [c \in Controls |-> R(c)]
           tasks == IF locks[p] = {"no_connection"} THEN Resumed(reset) ELSE reset
<1>1. /\ on' = [on EXCEPT ![p] = {}]
      /\ asked' = asked
      /\ task' = [task EXCEPT ![p] = tasks]
      /\ locks' = [locks EXCEPT ![p] = @ \ {"no_connection"}]
  BY DEF Authorize
<1>2. ASSUME NEW c \in Controls
      PROVE  /\ R(c) \in TaskRecords /\ R(c).live = FALSE
             /\ R(c).held = FALSE /\ R(c).leaked = 0
  <2>1. task[p][c] \in TaskRecords /\ Agrees(task[p][c], c, on[p], locks[p])
    BY DEF IInv, Shape, TasksAgree
  <2>2. CASE c \in on[p]
    BY <2>1, <2>2, StopFacts DEF Agrees
  <2>3. CASE c \notin on[p]
    <3>1. task[p][c].live = FALSE
      BY <2>1, <2>3 DEF Agrees, TaskRecords
    <3>2. QED
      BY <2>1, <2>3, <3>1 DEF Agrees
  <2>4. QED
    BY <2>2, <2>3
<1> HIDE DEF R
<1>3. /\ reset \in [Controls -> TaskRecords]
      /\ \A c \in Controls : reset[c].live = FALSE /\ reset[c].held = FALSE
                            /\ reset[c].leaked = 0
  BY <1>2
<1>4. Resumed(reset) = reset
  BY <1>3 DEF Resumed
<1> HIDE DEF reset
<1>5. tasks = reset
  BY <1>4
<1> HIDE DEF tasks
<1>6. task' \in [Pages -> [Controls -> TaskRecords]]
  BY <1>1, <1>3, <1>5 DEF IInv, Shape
<1>7. /\ on'[p] = {} /\ task'[p] = reset
      /\ \A q \in Pages \ {p} : on'[q] = on[q] /\ task'[q] = task[q] /\ locks'[q] = locks[q]
  BY <1>1, <1>5 DEF IInv, Shape
<1>8. ASSUME NEW q \in Pages, NEW d \in Controls
      PROVE  Agrees(task'[q][d], d, on'[q], locks'[q])
  <2>1. CASE q = p
    BY <1>3, <1>7, <2>1 DEF Agrees
  <2>2. CASE q # p
    <3>1. on'[q] = on[q] /\ task'[q] = task[q] /\ locks'[q] = locks[q]
      BY <1>7, <2>2
    <3>2. QED
      BY <3>1 DEF IInv, TasksAgree
  <2>3. QED
    BY <2>1, <2>2
<1>9. TasksAgree'
  BY <1>8 DEF TasksAgree
<1>10. OneOfGroup' /\ on' = [q \in Pages |-> on'[q]]
  <2>1. \A q \in Pages : on'[q] \subseteq on[q]
    BY <1>7
  <2>2. OneOfGroup'
    BY <2>1 DEF IInv, OneOfGroup
  <2>3. on' = [q \in Pages |-> on'[q]]
    BY <1>1 DEF IInv, Shape
  <2>4. QED
    BY <2>2, <2>3
<1>11. locks' \in [Pages -> SUBSET {"no_connection", "configuration"}]
  BY <1>1 DEF IInv, Shape
<1>12. asked' = [q \in Pages |-> asked'[q]] /\ AskedRemote'
  BY <1>1, AskedKept DEF IInv
<1>13. QED
  BY <1>6, <1>9, <1>10, <1>11, <1>12 DEF IInv, Shape

(* What the server tells is switched like a tap.                           *)
LEMMA ApplyHolds ==
  ASSUME IInv, NEW p \in Pages, Apply(p)
  PROVE  IInv'
<1> DEFINE m == Head(down[p])
<1>1. /\ Applied(p, m)
      /\ asked' = IF m.state \in {"accepted", "rejected"}
                    THEN [asked EXCEPT ![p] = @ \ {m.ctrl}] ELSE asked
      /\ locks' = locks
  BY DEF Apply
<1> HIDE DEF m
<1>2. asked' = [q \in Pages |-> asked'[q]] /\ AskedRemote'
  <2>1. CASE asked' = asked
    BY <2>1, AskedKept DEF IInv
  <2>2. CASE asked' = [asked EXCEPT ![p] = @ \ {m.ctrl}]
    <3>1. asked' = [asked EXCEPT ![p] = asked[p] \ {m.ctrl}]
      BY <2>2 DEF IInv, Shape
    <3>2. QED
      BY <3>1, AskedLess DEF IInv
  <2>3. QED
    BY <1>1, <2>1, <2>2
<1>3. \/ Switched(p, Members(p, m.ctrl), {m.ctrl})
      \/ Switched(p, {m.ctrl}, {})
      \/ UNCHANGED <<on, task>>
  BY <1>1 DEF Applied
<1>4. CASE Switched(p, Members(p, m.ctrl), {m.ctrl})
  BY <1>1, <1>2, <1>4, SwitchedHolds
<1>5. CASE Switched(p, {m.ctrl}, {})
  <2>1. locks' = locks
    BY <1>1
  <2>2. QED
    BY <1>2, <1>5, <2>1, SwitchedHolds
<1>6. CASE UNCHANGED <<on, task>>
  BY <1>1, <1>2, <1>6, NothingShown
<1>7. QED
  BY <1>3, <1>4, <1>5, <1>6

LEMMA LongTapHolds ==
  ASSUME IInv, NEW p \in Pages, NEW c \in Controls, LongTap(p, c)
  PROVE  IInv'
<1>1. asked' = asked /\ locks' = locks
  BY DEF LongTap
<1>2. asked' = [q \in Pages |-> asked'[q]] /\ AskedRemote'
  BY <1>1, AskedKept DEF IInv
<1>3. Switched(p, {c}, {}) \/ Switched(p, Members(p, c), {c})
  BY DEF LongTap
<1>4. QED
  BY <1>1, <1>2, <1>3, SwitchedHolds

-----------------------------------------------------------------------------
LEMMA InitHolds == Init => IInv
<1> SUFFICES ASSUME Init PROVE IInv
  OBVIOUS
<1>1. NoTask \in TaskRecords /\ \A c, S, L : Agrees(NoTask, c, S, L)
  <2>1. NoTask \in TaskRecords /\ NoTask.live = FALSE /\ NoTask.held = FALSE /\ NoTask.leaked = 0
    BY DEF NoTask, TaskRecords
  <2>2. QED
    BY <2>1 DEF Agrees
<1>2. Shape
  BY <1>1 DEF Init, Shape
<1>3. TasksAgree
  BY <1>1 DEF Init, TasksAgree
<1>4. OneOfGroup /\ AskedRemote
  BY DEF Init, OneOfGroup, AskedRemote
<1>5. QED
  BY <1>2, <1>3, <1>4 DEF IInv

LEMMA StepHolds == IInv /\ [Next]_vars => IInv'
<1> SUFFICES ASSUME IInv, [Next]_vars PROVE IInv'
  OBVIOUS
<1>1. ASSUME NEW p \in Pages, NEW c \in Controls,
             \/ Tap(p, c) \/ LongTap(p, c) \/ Restore(p, c)
             \/ HandleTask(p, c) \/ RepeatEnd(p, c) \/ RemoteTimeout(p, c)
      PROVE  IInv'
  BY <1>1, TapHolds, LongTapHolds, TimerHolds, HandleTaskHolds
<1>2. ASSUME NEW p \in Pages,
             Lock(p) \/ Unlock(p) \/ Disconnect(p) \/ Authorize(p) \/ Apply(p)
      PROVE  IInv'
  BY <1>2, LockHolds, UnlockHolds, DisconnectHolds, AuthorizeHolds, ApplyHolds
<1>3. ASSUME UNCHANGED <<on, task, locks, asked>>
      PROVE  IInv'
  BY <1>3, AskedKept, NothingShown DEF IInv
<1>4. ASSUME NEW p \in Pages, Refused(p) \/ Serve(p)
      PROVE  IInv'
  BY <1>3, <1>4 DEF Refused, Serve, page
<1>5. ASSUME NEW c \in Controls, RunEnds(c)
      PROVE  IInv'
  BY <1>3, <1>5 DEF RunEnds, page
<1>6. CASE UNCHANGED vars
  BY <1>3, <1>6 DEF vars
<1>7. QED
  BY <1>1, <1>2, <1>4, <1>5, <1>6 DEF Next

(* Tasks, locks and what is shown agree on every page, always.             *)
THEOREM TasksFollow == Spec => []IInv
BY InitHolds, StepHolds, PTL DEF Spec

(* Of a controlling group one switch at most is on, on every page, through *)
(* taps, long taps, other pages' messages and the replay of the server.    *)
THEOREM GroupsAreExclusive == Spec => []OneOfGroup
<1>1. IInv => OneOfGroup
  BY DEF IInv
<1>2. QED
  BY <1>1, TasksFollow, PTL

(* No interval runs that nobody can stop, none on a locked page, none for  *)
(* a control that is shown as off, through locks and lost connections.     *)
THEOREM NoRepeatIsLost == Spec => []NoGhostRepeats
<1>1. IInv => NoGhostRepeats
  BY DEF IInv, TasksAgree, Agrees, Shape, TaskRecords, NoGhostRepeats
<1>2. QED
  BY <1>1, TasksFollow, PTL

(* A repetition that was paused goes on when the page is unlocked: the     *)
(* tasks of an enabled page have their intervals.                          *)
THEOREM RepeatsAreResumed == Spec => []RepeatsGoOn
<1>1. IInv => RepeatsGoOn
  BY DEF IInv, TasksAgree, Agrees, RepeatsGoOn
<1>2. QED
  BY <1>1, TasksFollow, PTL

-----------------------------------------------------------------------------
(* What a message says, and what the first n messages of s do to a control *)
(* c: they turn it from its state in X into its state in Y.                *)
On(c) == Told(c, "switched-on")
Off(c) == Told(c, "switched-off")

Says(s, m) == \E i \in 1 .. Len(s) : s[i] = m

Untold(s, n, c) == \A k \in 1 .. n : s[k].ctrl # c

Silent(s, c) == Untold(s, Len(s), c)

Decides(s, n, m) ==
  \E j \in 1 .. n : s[j] = m /\ \A k \in j + 1 .. n : s[k].ctrl # m.ctrl

Turns(s, n, c, X, Y) ==
  \/ Untold(s, n, c) /\ (c \in X <=> c \in Y)
  \/ Decides(s, n, On(c)) /\ c \in Y
  \/ Decides(s, n, Off(c)) /\ c \notin Y

LEMMA ToldFacts ==
  \A c : /\ On(c).ctrl = c /\ On(c).state = "switched-on"
         /\ Off(c).ctrl = c /\ Off(c).state = "switched-off"
         /\ \A d : On(c) # Off(d) /\ (On(c) = On(d) => c = d) /\ (Off(c) = Off(d) => c = d)
BY DEF On, Off, Told

(* A message that only turns a control on or off is one of the two.        *)
LEMMA ToldIs ==
  ASSUME NEW m \in Messages
  PROVE  /\ m.state = "switched-on" => m = On(m.ctrl)
         /\ m.state = "switched-off" => m = Off(m.ctrl)
BY DEF Messages, On, Off, Told

(* Messages that are not among the first n change nothing.                 *)
LEMMA TurnsSame ==
  ASSUME NEW s, NEW t, NEW n \in Nat, NEW c, NEW X, NEW Y,
         \A k \in 1 .. n : t[k] = s[k], Turns(s, n, c, X, Y)
  PROVE  Turns(t, n, c, X, Y)
<1>1. Untold(s, n, c) => Untold(t, n, c)
  BY DEF Untold
<1>2. ASSUME NEW m, Decides(s, n, m)
      PROVE  Decides(t, n, m)
  <2>1. PICK j \in 1 .. n : s[j] = m /\ \A k \in j + 1 .. n : s[k].ctrl # m.ctrl
    BY <1>2 DEF Decides
  <2>2. \A k \in j + 1 .. n : k \in 1 .. n
    OBVIOUS
  <2>3. QED
    BY <2>1, <2>2 DEF Decides
<1>3. QED
  BY <1>1, <1>2 DEF Turns

(* What is turned into Y is left in it, whatever it was before, if a       *)
(* message is about it.                                                    *)
LEMMA TurnsFrom ==
  ASSUME NEW s, NEW n, NEW c, NEW X, NEW Y, NEW Z, Turns(s, n, c, X, Y),
         Untold(s, n, c) => (c \in Z <=> c \in Y)
  PROVE  Turns(s, n, c, Z, Y)
BY DEF Turns

LEMMA TurnsTo ==
  ASSUME NEW s, NEW n, NEW c, NEW X, NEW Y, NEW Z, Turns(s, n, c, X, Y),
         c \in Z <=> c \in Y
  PROVE  Turns(s, n, c, X, Z)
BY DEF Turns

LEMMA TurnsNothing ==
  ASSUME NEW s, NEW c, NEW X, NEW Y
  PROVE  Turns(s, 0, c, X, Y) <=> (c \in X <=> c \in Y)
<1>1. Untold(s, 0, c)
  BY DEF Untold
<1>2. \A m : ~Decides(s, 0, m)
  BY DEF Decides
<1>3. QED
  BY <1>1, <1>2 DEF Turns

(* Who says something last says it, and is not silent.                     *)
LEMMA DecidesSays ==
  ASSUME NEW s, NEW m, Decides(s, Len(s), m)
  PROVE  Says(s, m) /\ ~Silent(s, m.ctrl)
<1>1. PICK j \in 1 .. Len(s) : s[j] = m
  BY DEF Decides
<1>2. QED
  BY <1>1 DEF Says, Silent, Untold

LEMMA SaysOf ==
  ASSUME NEW s, NEW m, Says(s, m)
  PROVE  ~Silent(s, m.ctrl)
BY DEF Says, Silent, Untold

-----------------------------------------------------------------------------
(* Messages that come after others.                                        *)
LEMMA ConcatFacts ==
  ASSUME NEW s \in Seq(Messages), NEW t \in Seq(Messages)
  PROVE  /\ s \o t \in Seq(Messages)
         /\ Len(s) \in Nat /\ Len(t) \in Nat
         /\ Len(s \o t) = Len(s) + Len(t)
         /\ \A k \in 1 .. Len(s) : (s \o t)[k] = s[k]
         /\ \A k \in 1 .. Len(t) : (s \o t)[Len(s) + k] = t[k]
         /\ \A k \in 1 .. Len(s) + Len(t) : k \in 1 .. Len(s) \/ k - Len(s) \in 1 .. Len(t)
<1>1. Len(s) \in Nat /\ Len(t) \in Nat
  BY LenProperties
<1>2. QED
  BY <1>1, ConcatProperties

LEMMA ConcatTurns ==
  ASSUME NEW s \in Seq(Messages), NEW t \in Seq(Messages), NEW n \in 0 .. Len(t),
         NEW c, NEW X, NEW Y, NEW Z,
         Turns(s, Len(s), c, X, Y), Turns(t, n, c, Y, Z)
  PROVE  Turns(s \o t, Len(s) + n, c, X, Z)
<1> DEFINE u == s \o t
<1>1. /\ Len(s) \in Nat /\ Len(t) \in Nat /\ n \in Nat /\ n <= Len(t)
      /\ \A k \in 1 .. Len(s) : u[k] = s[k]
      /\ \A k \in 1 .. n : u[Len(s) + k] = t[k]
  BY ConcatFacts
<1> HIDE DEF u
<1>2. \A k \in 1 .. Len(s) + n : k \in 1 .. Len(s) \/ (k - Len(s) \in 1 .. n /\ k = Len(s) + (k - Len(s)))
  BY <1>1
<1>3. ASSUME NEW m, Decides(t, n, m)
      PROVE  Decides(u, Len(s) + n, m)
  <2>1. PICK j \in 1 .. n : t[j] = m /\ \A k \in j + 1 .. n : t[k].ctrl # m.ctrl
    BY <1>3 DEF Decides
  <2>2. u[Len(s) + j] = m /\ Len(s) + j \in 1 .. Len(s) + n
    BY <1>1, <2>1
  <2>3. ASSUME NEW k \in Len(s) + j + 1 .. Len(s) + n
        PROVE  u[k].ctrl # m.ctrl
    <3>1. k - Len(s) \in j + 1 .. n /\ k - Len(s) \in 1 .. n /\ k = Len(s) + (k - Len(s))
      BY <1>1
    <3>2. u[Len(s) + (k - Len(s))] = t[k - Len(s)]
      BY <1>1, <3>1
    <3>3. QED
      BY <2>1, <3>1, <3>2
  <2>4. QED
    BY <2>2, <2>3 DEF Decides
<1>4. CASE Untold(t, n, c)
  <2>1. \A k \in 1 .. Len(s) + n : k \in 1 .. Len(s) \/ u[k].ctrl # c
    <3> SUFFICES ASSUME NEW k \in 1 .. Len(s) + n, k \notin 1 .. Len(s)
                 PROVE  u[k].ctrl # c
      OBVIOUS
    <3>1. k - Len(s) \in 1 .. n /\ k = Len(s) + (k - Len(s))
      BY <1>2
    <3>2. u[Len(s) + (k - Len(s))] = t[k - Len(s)]
      BY <1>1, <3>1
    <3>3. QED
      BY <1>4, <3>1, <3>2 DEF Untold
  <2>2. Untold(s, Len(s), c) => Untold(u, Len(s) + n, c)
    BY <1>1, <2>1 DEF Untold
  <2>3. ASSUME NEW m, m.ctrl = c, Decides(s, Len(s), m)
        PROVE  Decides(u, Len(s) + n, m)
    <3>1. PICK j \in 1 .. Len(s) : s[j] = m /\ \A k \in j + 1 .. Len(s) : s[k].ctrl # m.ctrl
      BY <2>3 DEF Decides
    <3>2. j \in 1 .. Len(s) + n /\ u[j] = m
      BY <1>1, <3>1
    <3>3. ASSUME NEW k \in j + 1 .. Len(s) + n
          PROVE  u[k].ctrl # m.ctrl
      <4>1. k \in 1 .. Len(s) + n
        BY <1>1
      <4>2. CASE k \in 1 .. Len(s)
        BY <1>1, <3>1, <4>2
      <4>3. QED
        BY <2>1, <2>3, <4>1, <4>2
    <3>4. QED
      BY <3>2, <3>3 DEF Decides
  <2>4. Decides(t, n, On(c)) \/ Decides(t, n, Off(c)) => Decides(u, Len(s) + n, On(c)) \/ Decides(u, Len(s) + n, Off(c))
    BY <1>3
  <2>5. c \in Y <=> c \in Z
    <3>1. ~Decides(t, n, On(c)) /\ ~Decides(t, n, Off(c))
      BY <1>4, ToldFacts DEF Decides, Untold
    <3>2. QED
      BY <3>1 DEF Turns
  <2>6. QED
    BY <2>2, <2>3, <2>5, ToldFacts DEF Turns, u
<1>5. CASE ~Untold(t, n, c)
  BY <1>3, <1>5 DEF Turns, u
<1>6. QED
  BY <1>4, <1>5

(* One message more.                                                       *)
LEMMA OneMessage ==
  ASSUME NEW m, NEW c, NEW X, NEW Y,
         \/ m.ctrl # c /\ (c \in X <=> c \in Y)
         \/ m = On(c) /\ c \in Y
         \/ m = Off(c) /\ c \notin Y
  PROVE  Len(<<m>>) = 1 /\ <<m>>[1] = m /\ Turns(<<m>>, 1, c, X, Y)
<1>1. Len(<<m>>) = 1 /\ <<m>>[1] = m
  OBVIOUS
<1>2. m.ctrl # c => Untold(<<m>>, 1, c)
  BY <1>1 DEF Untold
<1>3. Decides(<<m>>, 1, m)
  BY <1>1 DEF Decides
<1>4. QED
  BY <1>1, <1>2, <1>3 DEF Turns

LEMMA AppendTurns ==
  ASSUME NEW s \in Seq(Messages), NEW m \in Messages, NEW c, NEW X, NEW Y, NEW Z,
         Turns(s, Len(s), c, X, Y),
         \/ m.ctrl # c /\ (c \in Y <=> c \in Z)
         \/ m = On(c) /\ c \in Z
         \/ m = Off(c) /\ c \notin Z
  PROVE  Turns(Append(s, m), Len(Append(s, m)), c, X, Z)
<1>1. Append(s, m) = s \o <<m>> /\ <<m>> \in Seq(Messages) /\ Len(<<m>>) = 1
  OBVIOUS
<1>2. Turns(<<m>>, 1, c, Y, Z)
  BY OneMessage
<1>3. Turns(s \o <<m>>, Len(s) + 1, c, X, Z)
  <2>1. 1 \in 0 .. Len(<<m>>)
    BY <1>1
  <2> DEFINE t == <<m>>
  <2>2. t \in Seq(Messages) /\ 1 \in 0 .. Len(t) /\ Turns(t, 1, c, Y, Z)
    BY <1>1, <1>2, <2>1
  <2> HIDE DEF t
  <2>3. Turns(s \o t, Len(s) + 1, c, X, Z)
    BY <2>2, ConcatTurns
  <2>4. QED
    BY <2>3 DEF t
<1>4. Len(s \o <<m>>) = Len(s) + 1
  BY <1>1, ConcatFacts
<1>5. QED
  BY <1>1, <1>3, <1>4

(* What is said in s followed by t.                                        *)
LEMMA ConcatSays ==
  ASSUME NEW s \in Seq(Messages), NEW t \in Seq(Messages)
  PROVE  /\ \A m : Says(s \o t, m) <=> Says(s, m) \/ Says(t, m)
         /\ \A c : Silent(s \o t, c) <=> Silent(s, c) /\ Silent(t, c)
<1> DEFINE u == s \o t
<1>1. /\ Len(s) \in Nat /\ Len(t) \in Nat /\ Len(u) = Len(s) + Len(t)
      /\ \A k \in 1 .. Len(s) : u[k] = s[k]
      /\ \A k \in 1 .. Len(t) : u[Len(s) + k] = t[k]
  BY ConcatFacts
<1> HIDE DEF u
<1>2. \A k \in 1 .. Len(s) : k \in 1 .. Len(u)
  BY <1>1
<1>3. \A k \in 1 .. Len(t) : Len(s) + k \in 1 .. Len(u)
  BY <1>1
<1>4. ASSUME NEW k \in 1 .. Len(u)
      PROVE  (\E i \in 1 .. Len(s) : u[k] = s[i]) \/ (\E i \in 1 .. Len(t) : u[k] = t[i])
  <2>1. CASE k \in 1 .. Len(s)
    BY <1>1, <2>1
  <2>2. CASE k \notin 1 .. Len(s)
    <3>1. k - Len(s) \in 1 .. Len(t) /\ k = Len(s) + (k - Len(s))
      BY <1>1, <2>2
    <3>2. u[Len(s) + (k - Len(s))] = t[k - Len(s)]
      BY <1>1, <3>1
    <3>3. QED
      BY <3>1, <3>2
  <2>3. QED
    BY <2>1, <2>2
<1>5. \A m : Says(u, m) <=> Says(s, m) \/ Says(t, m)
  BY <1>1, <1>2, <1>3, <1>4 DEF Says
<1>6. ASSUME NEW c, Silent(s, c), Silent(t, c)
      PROVE  Silent(u, c)
  BY <1>4, <1>6 DEF Silent, Untold
<1>7. ASSUME NEW c, Silent(u, c)
      PROVE  Silent(s, c) /\ Silent(t, c)
  <2>1. Silent(s, c)
    BY <1>1, <1>2, <1>7 DEF Silent, Untold
  <2>2. Silent(t, c)
    BY <1>1, <1>3, <1>7 DEF Silent, Untold
  <2>3. QED
    BY <2>1, <2>2
<1>8. QED
  BY <1>5, <1>6, <1>7 DEF u

LEMMA AppendSays ==
  ASSUME NEW s \in Seq(Messages), NEW m \in Messages
  PROVE  /\ Append(s, m) \in Seq(Messages)
         /\ Len(Append(s, m)) = Len(s) + 1
         /\ \A k \in 1 .. Len(s) : Append(s, m)[k] = s[k]
         /\ Append(s, m)[Len(s) + 1] = m
         /\ \A x : Says(Append(s, m), x) <=> Says(s, x) \/ x = m
         /\ \A c : Silent(Append(s, m), c) <=> Silent(s, c) /\ m.ctrl # c
<1>1. Append(s, m) = s \o <<m>> /\ <<m>> \in Seq(Messages) /\ Len(<<m>>) = 1 /\ <<m>>[1] = m
  OBVIOUS
<1>2. (\A x : Says(<<m>>, x) <=> x = m) /\ (\A c : Silent(<<m>>, c) <=> m.ctrl # c)
  <2>1. \A i \in 1 .. Len(<<m>>) : i = 1
    OBVIOUS
  <2>2. 1 \in 1 .. Len(<<m>>)
    OBVIOUS
  <2>3. QED
    BY <1>1, <2>1, <2>2 DEF Says, Silent, Untold
<1> DEFINE t == <<m>>
<1>3. /\ t \in Seq(Messages) /\ Len(t) = 1 /\ t[1] = m /\ Append(s, m) = s \o t
      /\ (\A x : Says(t, x) <=> x = m) /\ (\A c : Silent(t, c) <=> m.ctrl # c)
  BY <1>1, <1>2
<1> HIDE DEF t
<1>4. /\ s \o t \in Seq(Messages) /\ Len(s \o t) = Len(s) + 1
      /\ \A k \in 1 .. Len(s) : (s \o t)[k] = s[k]
      /\ (s \o t)[Len(s) + 1] = m
  <2>1. /\ s \o t \in Seq(Messages) /\ Len(s \o t) = Len(s) + Len(t)
        /\ \A k \in 1 .. Len(s) : (s \o t)[k] = s[k]
        /\ \A k \in 1 .. Len(t) : (s \o t)[Len(s) + k] = t[k]
    BY <1>3, ConcatFacts
  <2>2. 1 \in 1 .. Len(t)
    BY <1>3
  <2>3. QED
    BY <1>3, <2>1, <2>2
<1>5. /\ \A x : Says(s \o t, x) <=> Says(s, x) \/ x = m
      /\ \A c : Silent(s \o t, c) <=> Silent(s, c) /\ m.ctrl # c
  BY <1>3, ConcatSays
<1>6. QED
  BY <1>3, <1>4, <1>5

-----------------------------------------------------------------------------
(* The first message has been read.                                        *)
LEMMA TailFacts ==
  ASSUME NEW s \in Seq(Messages), s # <<>>
  PROVE  /\ Head(s) \in Messages /\ Head(s) = s[1] /\ Tail(s) \in Seq(Messages)
         /\ Len(s) \in Nat /\ Len(s) >= 1 /\ Len(Tail(s)) = Len(s) - 1
         /\ \A k \in 1 .. Len(Tail(s)) : Tail(s)[k] = s[k + 1]
<1>1. Len(s) \in Nat \ {0}
  BY EmptySeq
<1>2. QED
  BY <1>1, HeadTailProperties

LEMMA TailTurns ==
  ASSUME NEW s \in Seq(Messages), s # <<>>, NEW n \in 1 .. Len(s), NEW c,
         NEW X, NEW Y, NEW Z, Turns(s, n, c, X, Y),
         \/ Head(s).ctrl # c /\ (c \in Z <=> c \in X)
         \/ Head(s) = On(c) /\ c \in Z
         \/ Head(s) = Off(c) /\ c \notin Z
  PROVE  Turns(Tail(s), n - 1, c, Z, Y)
<1> DEFINE u == Tail(s)
<1>1. /\ Head(s) = s[1] /\ Len(s) \in Nat /\ n \in Nat /\ n >= 1 /\ n <= Len(s)
      /\ \A k \in 1 .. n - 1 : u[k] = s[k + 1]
  BY TailFacts
<1> HIDE DEF u
<1>2. Untold(s, n, c) => Untold(u, n - 1, c) /\ Head(s).ctrl # c
  <2>1. \A k \in 1 .. n - 1 : k + 1 \in 1 .. n
    BY <1>1
  <2>2. 1 \in 1 .. n
    BY <1>1
  <2>3. QED
    BY <1>1, <2>1, <2>2 DEF Untold
<1>3. ASSUME NEW m, m.ctrl = c, Decides(s, n, m)
      PROVE  Decides(u, n - 1, m) \/ (Head(s) = m /\ Untold(u, n - 1, c))
  <2>1. PICK j \in 1 .. n : s[j] = m /\ \A k \in j + 1 .. n : s[k].ctrl # m.ctrl
    BY <1>3 DEF Decides
  <2>2. ASSUME NEW k \in j .. n - 1, k \in 1 .. n - 1
        PROVE  u[k].ctrl # m.ctrl
    <3>1. k + 1 \in j + 1 .. n
      BY <1>1
    <3>2. QED
      BY <1>1, <2>1, <2>2, <3>1
  <2>3. CASE j = 1
    BY <1>1, <1>3, <2>1, <2>2, <2>3 DEF Untold
  <2>4. CASE j # 1
    <3>1. j - 1 \in 1 .. n - 1 /\ j = (j - 1) + 1
      BY <1>1, <2>4
    <3>2. u[j - 1] = s[(j - 1) + 1]
      BY <1>1, <3>1
    <3>3. \A k \in (j - 1) + 1 .. n - 1 : u[k].ctrl # m.ctrl
      BY <1>1, <2>2, <3>1
    <3>4. QED
      BY <2>1, <3>1, <3>2, <3>3 DEF Decides
  <2>5. QED
    BY <2>3, <2>4
<1>4. CASE Untold(s, n, c) /\ (c \in X <=> c \in Y)
  BY <1>2, <1>4, ToldFacts DEF Turns, u
<1>5. CASE Decides(s, n, On(c)) /\ c \in Y
  <2>1. CASE Decides(u, n - 1, On(c))
    BY <1>5, <2>1 DEF Turns, u
  <2>2. CASE Head(s) = On(c) /\ Untold(u, n - 1, c)
    BY <1>5, <2>2, ToldFacts DEF Turns, u
  <2>3. QED
    BY <1>3, <1>5, <2>1, <2>2, ToldFacts
<1>6. CASE Decides(s, n, Off(c)) /\ c \notin Y
  <2>1. CASE Decides(u, n - 1, Off(c))
    BY <1>6, <2>1 DEF Turns, u
  <2>2. CASE Head(s) = Off(c) /\ Untold(u, n - 1, c)
    BY <1>6, <2>2, ToldFacts DEF Turns, u
  <2>3. QED
    BY <1>3, <1>6, <2>1, <2>2, ToldFacts
<1>7. QED
  BY <1>4, <1>5, <1>6 DEF Turns

LEMMA TailSays ==
  ASSUME NEW s \in Seq(Messages), s # <<>>
  PROVE  /\ \A m : Says(Tail(s), m) => Says(s, m)
         /\ \A c : Silent(s, c) <=> Silent(Tail(s), c) /\ Head(s).ctrl # c
         /\ Says(s, Head(s))
<1> DEFINE u == Tail(s)
<1>1. /\ Head(s) = s[1] /\ Len(s) \in Nat /\ Len(s) >= 1 /\ Len(u) = Len(s) - 1
      /\ \A k \in 1 .. Len(u) : u[k] = s[k + 1]
  BY TailFacts
<1> HIDE DEF u
<1>2. \A k \in 1 .. Len(u) : k + 1 \in 1 .. Len(s)
  BY <1>1
<1>3. 1 \in 1 .. Len(s)
  BY <1>1
<1>4. ASSUME NEW k \in 1 .. Len(s)
      PROVE  s[k] = Head(s) \/ \E i \in 1 .. Len(u) : s[k] = u[i]
  <2>1. CASE k = 1
    BY <1>1, <2>1
  <2>2. CASE k # 1
    <3>1. k - 1 \in 1 .. Len(u) /\ k = (k - 1) + 1
      BY <1>1, <2>2
    <3>2. u[k - 1] = s[(k - 1) + 1]
      BY <1>1, <3>1
    <3>3. QED
      BY <3>1, <3>2
  <2>3. QED
    BY <2>1, <2>2
<1>5. \A m : Says(u, m) => Says(s, m)
  BY <1>1, <1>2 DEF Says
<1>6. \A c : Silent(s, c) <=> Silent(u, c) /\ Head(s).ctrl # c
  BY <1>1, <1>2, <1>3, <1>4 DEF Silent, Untold
<1>7. Says(s, Head(s))
  BY <1>1, <1>3 DEF Says
<1>8. QED
  BY <1>5, <1>6, <1>7 DEF u

-----------------------------------------------------------------------------
(* The members of a set in some order: each of them, and each once.        *)
Lists(f, n, X) ==
  /\ f \in [1 .. n -> X]
  /\ \A i, j \in 1 .. n : f[i] = f[j] => i = j
  /\ \A x \in X : \E i \in 1 .. n : f[i] = x

LEMMA InjectiveLists ==
  ASSUME NEW X, IsFiniteSet(X), NEW f \in [1 .. Cardinality(X) -> X],
         \A i, j \in 1 .. Cardinality(X) : f[i] = f[j] => i = j
  PROVE  Cardinality(X) \in Nat /\ Lists(f, Cardinality(X), X)
<1> DEFINE n == Cardinality(X)
<1>1. n \in Nat
  BY FS_CardinalityType
<1>2. f \in Injection(1 .. n, X)
  BY DEF Injection, IsInjective
<1>3. Cardinality(1 .. n) = n
  BY <1>1, FS_Interval
<1>4. f \in Surjection(1 .. n, X)
  BY <1>2, <1>3, FS_Injection
<1>5. \A x \in X : \E i \in 1 .. n : f[i] = x
  BY <1>4 DEF Surjection
<1>6. QED
  BY <1>1, <1>5 DEF Lists

LEMMA SetToSeqLists ==
  ASSUME NEW X, IsFiniteSet(X)
  PROVE  Cardinality(X) \in Nat /\ Lists(SetToSeq(X), Cardinality(X), X)
<1> DEFINE n == Cardinality(X)
<1>1. \E f \in [1 .. n -> X] : IsInjective(f)
  BY FS_CardinalityType DEF ExistsBijection, Bijection, Injection
<1>2. SetToSeq(X) \in [1 .. n -> X] /\ IsInjective(SetToSeq(X))
  BY <1>1 DEF SetToSeq
<1>3. \A i, j \in 1 .. n : SetToSeq(X)[i] = SetToSeq(X)[j] => i = j
  BY <1>2 DEF IsInjective
<1>4. QED
  BY <1>2, <1>3, InjectiveLists

(* One message for each control of X.                                      *)
OneEach(s, n, X, st) ==
  /\ s \in Seq(Messages) /\ Len(s) = n
  /\ \A i \in 1 .. n : s[i].ctrl \in X /\ s[i].state = st
  /\ \A c \in X : Decides(s, n, Told(c, st))
  /\ \A c : c \notin X => Untold(s, n, c)

LEMMA OnePerControl ==
  ASSUME NEW X \in SUBSET Controls, NEW n \in Nat, NEW f, Lists(f, n, X),
         NEW st, st = "switched-on" \/ st = "switched-off", NEW s,
         s = [i \in 1 .. n |-> Told(f[i], st)]
  PROVE  OneEach(s, n, X, st)
<1>1. \A i \in 1 .. n : f[i] \in X /\ Told(f[i], st) \in Messages
  BY DEF Lists, Told, Messages
<1>2. s \in Seq(Messages) /\ Len(s) = n /\ \A i \in 1 .. n : s[i] = Told(f[i], st)
  <2>1. s \in [1 .. n -> Messages]
    BY <1>1
  <2>2. QED
    BY <2>1
<1>3. \A c : Told(c, st).ctrl = c /\ Told(c, st).state = st
  BY DEF Told
<1>4. \A i \in 1 .. n : s[i].ctrl = f[i] /\ s[i].state = st
  BY <1>2, <1>3
<1>5. ASSUME NEW c \in X
      PROVE  Decides(s, n, Told(c, st))
  <2>1. PICK i \in 1 .. n : f[i] = c
    BY DEF Lists
  <2>2. \A k \in i + 1 .. n : k \in 1 .. n /\ k # i
    OBVIOUS
  <2>3. \A k \in i + 1 .. n : f[k] # f[i]
    BY <2>2 DEF Lists
  <2>4. \A k \in i + 1 .. n : s[k].ctrl # c
    BY <1>4, <2>1, <2>2, <2>3
  <2>5. QED
    BY <1>2, <1>3, <2>1, <2>4 DEF Decides
<1>6. QED
  BY <1>1, <1>2, <1>4, <1>5 DEF Untold, OneEach

(* A group is told to turn off.                                            *)
LEMMA OffsFacts ==
  ASSUME NEW X \in SUBSET Controls
  PROVE  /\ Offs(X) \in Seq(Messages)
         /\ \A i \in 1 .. Len(Offs(X)) : Offs(X)[i].state = "switched-off"
         /\ \A i \in 1 .. Len(Offs(X)) : Offs(X)[i].ctrl \in X
         /\ \A c, Y, Z : c \notin Z /\ (c \in Y => c \in X)
              => Turns(Offs(X), Len(Offs(X)), c, Y, Z)
         /\ \A c, Y, Z : c \notin X /\ (c \in Y <=> c \in Z)
              => Turns(Offs(X), Len(Offs(X)), c, Y, Z)
<1> DEFINE n == Cardinality(X)
           f == SetToSeq(X)
           s == Offs(X)
<1>1. n \in Nat /\ Lists(f, n, X)
  BY ControlsAssumption, FS_Subset, SetToSeqLists
<1>2. s = [i \in 1 .. n |-> Told(f[i], "switched-off")]
  BY DEF Offs
<1> HIDE DEF n, f, s
<1>3. /\ s \in Seq(Messages) /\ Len(s) = n
      /\ \A i \in 1 .. n : s[i].ctrl \in X /\ s[i].state = "switched-off"
      /\ \A c \in X : Decides(s, n, Told(c, "switched-off"))
      /\ \A c : c \notin X => Untold(s, n, c)
  <2>1. OneEach(s, n, X, "switched-off")
    BY <1>1, <1>2, OnePerControl, Zenon
  <2>2. QED
    BY <2>1 DEF OneEach
<1>4. \A c \in X : Decides(s, n, Off(c))
  BY <1>3 DEF Off
<1>5. \A c, Y, Z : c \notin Z /\ (c \in Y => c \in X) => Turns(s, n, c, Y, Z)
  BY <1>3, <1>4 DEF Turns
<1>6. \A c, Y, Z : c \notin X /\ (c \in Y <=> c \in Z) => Turns(s, n, c, Y, Z)
  BY <1>3 DEF Turns
<1>7. QED
  BY <1>3, <1>5, <1>6 DEF s

(* The server's replay, in any order.                                      *)
LEMMA ReplayFacts ==
  ASSUME NEW X \in SUBSET Controls, NEW order \in SetToSeqs(X), NEW s,
         s = [i \in DOMAIN order |-> Told(order[i], "switched-on")]
  PROVE  /\ s \in Seq(Messages)
         /\ \A i \in 1 .. Len(s) : s[i].ctrl \in X /\ s[i].state = "switched-on"
         /\ \A c : Turns(s, Len(s), c, {}, X)
<1> DEFINE n == Cardinality(X)
<1>1. /\ order \in [1 .. n -> X]
      /\ \A i, j \in 1 .. n : order[i] = order[j] => i = j
  BY DEF SetToSeqs
<1>2. n \in Nat /\ Lists(order, n, X)
  BY <1>1, ControlsAssumption, FS_Subset, InjectiveLists
<1>3. s = [i \in 1 .. n |-> Told(order[i], "switched-on")]
  BY <1>1
<1> HIDE DEF n
<1>4. /\ s \in Seq(Messages) /\ Len(s) = n
      /\ \A i \in 1 .. n : s[i].ctrl \in X /\ s[i].state = "switched-on"
      /\ \A c \in X : Decides(s, n, Told(c, "switched-on"))
      /\ \A c : c \notin X => Untold(s, n, c)
  <2>1. OneEach(s, n, X, "switched-on")
    BY <1>2, <1>3, OnePerControl, Zenon
  <2>2. QED
    BY <2>1 DEF OneEach
<1>5. \A c \in X : Decides(s, n, On(c))
  BY <1>4 DEF On
<1>6. \A c : Turns(s, n, c, {}, X)
  BY <1>4, <1>5 DEF Turns
<1>7. QED
  BY <1>4, <1>6

-----------------------------------------------------------------------------
(* Two switches of which one turns the other off.                          *)
Rivals(c, d) == c # d /\ Mates(c, d) /\ IsSwitch(c) /\ IsSwitch(d)

(* What is said at all: of a oneshot never that it is on, and of what the  *)
(* covered controls do nothing but on and off.                             *)
Sayable ==
  /\ \A p \in Pages : p \notin signed => up[p] = <<>>
  /\ \A p \in Pages : \A i \in 1 .. Len(up[p]) :
       \/ up[p][i].state = "switched-off"
       \/ up[p][i].state = "switched-on" /\ Class[up[p][i].ctrl] # "oneshot"
  /\ \A p \in Pages : \A i \in 1 .. Len(down[p]) :
       \/ Class[down[p][i].ctrl] = "remote"
       \/ down[p][i].state = "switched-off"
       \/ down[p][i].state = "switched-on" /\ Class[down[p][i].ctrl] # "oneshot"
  /\ \A c \in srv : Class[c] # "oneshot"

(* A page that has been heard out shows, once it has read everything, what *)
(* the server holds.                                                       *)
ReadersFollow ==
  \A q \in signed, c \in Covered :
    Silent(up[q], c) => Turns(down[q], Len(down[q]), c, on[q], srv)

(* While a page has still something to say of a control, nobody turns the  *)
(* control on there.                                                       *)
SpeakersAreLeft ==
  \A q \in Pages, c \in Covered :
    ~Silent(up[q], c) =>
      ~Says(down[q], On(c)) /\ Turns(down[q], Len(down[q]), c, {}, {})

(* The last thing a page has said of a control is what it shows.           *)
SaidIsShown ==
  \A q \in Pages, c \in Covered : Turns(up[q], Len(up[q]), c, on[q], on[q])

(* While one page turns a control on, no other speaks of it, nor turns a   *)
(* rival on.                                                               *)
OneTurnsOn ==
  \A p, q \in Pages, c \in Covered :
    p # q /\ Says(up[p], On(c)) =>
      /\ Silent(up[q], c)
      /\ \A d \in Covered : Rivals(c, d) => ~Says(up[q], On(d))

(* ... and nobody speaks of it to that page.                               *)
NobodyAnswers ==
  \A p \in Pages, c \in Covered : Says(up[p], On(c)) => Silent(down[p], c)

(* Before a control is turned on its rivals have been turned off: at the   *)
(* server by what comes before, on each page likewise.                     *)
ServerTurnsOffFirst ==
  \A p \in Pages : \A i \in 1 .. Len(up[p]) : \A c, d \in Covered :
    up[p][i] = On(d) /\ Rivals(c, d) => Turns(up[p], i - 1, c, srv, {})

PagesTurnOffFirst ==
  \A p \in signed : \A i \in 1 .. Len(down[p]) : \A c, d \in Covered :
    down[p][i] = On(d) /\ Rivals(c, d) => Turns(down[p], i - 1, c, on[p], {})

ServerHoldsOne == \A c, d \in srv \intersect Covered : ~Rivals(c, d)

InStep ==
  /\ ReadersFollow
  /\ SpeakersAreLeft
  /\ SaidIsShown
  /\ OneTurnsOn
  /\ NobodyAnswers
  /\ ServerTurnsOffFirst
  /\ PagesTurnOffFirst
  /\ ServerHoldsOne

LEMMA RivalsFacts ==
  /\ \A c, d : Rivals(c, d) => Rivals(d, c)
  /\ \A c : ~Rivals(c, c)
BY DEF Rivals, Mates

LEMMA CoveredFacts ==
  ASSUME NEW c \in Covered
  PROVE  /\ c \in Controls /\ Class[c] # "remote"
         /\ \A d \in Controls : Mates(c, d) =>
              d \in Covered /\ Mates(d, c) /\ Class[d] \in {"switch", "oneshot"}
         /\ Class[c] \notin {"switch", "oneshot"} =>
              \A d \in Controls : ~Mates(c, d) /\ ~Mates(d, c)
<1>1. PICK C \in SUBSET Controls : c \in C /\ Announced(C)
  BY DEF Covered
<1>2. c \in Controls /\ Class[c] # "remote"
  BY DEF Covered
<1>3. ASSUME NEW d \in Controls, Mates(c, d)
      PROVE  d \in Covered /\ Class[d] \in {"switch", "oneshot"}
  <2>1. d \in C /\ Class[d] \in {"switch", "oneshot"}
    BY <1>1, <1>3 DEF Announced
  <2>2. QED
    BY <1>1, <2>1 DEF Covered
<1>4. \A d : Mates(c, d) <=> Mates(d, c)
  BY DEF Mates
<1>5. \A d \in Controls : Mates(c, d) => Mates(c, c)
  BY DEF Mates
<1>6. QED
  BY <1>2, <1>3, <1>4, <1>5

(* What is sent and received has a type.                                   *)
LEMMA SeqTypes ==
  ASSUME TypeOK, NEW p \in Pages
  PROVE  /\ up[p] \in Seq(Messages) /\ down[p] \in Seq(Messages)
         /\ Len(up[p]) \in Nat /\ Len(down[p]) \in Nat
BY LenProperties DEF TypeOK

LEMMA UnheardFacts ==
  ASSUME TypeOK, NEW p \in Pages
  PROVE  /\ \A c : ~Crossed(p, c) =>
              /\ ~Says(down[p], On(c))
              /\ \A q \in Pages : q # p => ~Says(up[q], On(c))
         /\ \A c, d : ~Met(p, c) /\ (d = c \/ Mates(c, d)) =>
              /\ Silent(down[p], d) /\ ~Crossed(p, d)
              /\ \A q \in Pages : q # p => Silent(up[q], d)
<1>1. \A q \in Pages : /\ DOMAIN up[q] = 1 .. Len(up[q])
                       /\ DOMAIN down[q] = 1 .. Len(down[q])
  BY SeqTypes, LenProperties
<1>2. /\ \A q \in Pages : \A m : m \in Range(up[q]) <=> Says(up[q], m)
      /\ \A m : m \in Range(down[p]) <=> Says(down[p], m)
  BY <1>1 DEF Range, Says
<1>3. \A m : m \in Unheard(p) <=> \/ Says(down[p], m)
                                  \/ \E q \in Pages : q # p /\ Says(up[q], m)
  BY <1>2 DEF Unheard
<1>4. ASSUME NEW c, NEW d, ~Met(p, c), d = c \/ Mates(c, d)
      PROVE  \A m \in Unheard(p) : m.ctrl # d
  BY <1>4 DEF Met
<1>5. ASSUME NEW s, NEW d, \A m : Says(s, m) => m.ctrl # d
      PROVE  Silent(s, d)
  BY <1>5 DEF Silent, Untold, Says
<1>6. \A d : Crossed(p, d) <=> On(d) \in Unheard(p)
  BY DEF Crossed, On
<1>7. QED
  BY <1>3, <1>4, <1>5, <1>6, ToldFacts

LEMMA SilentTurns ==
  ASSUME NEW s, NEW c, NEW X, NEW Y, Silent(s, c), Turns(s, Len(s), c, X, Y)
  PROVE  c \in X <=> c \in Y
BY DecidesSays, ToldFacts DEF Turns

LEMMA NothingSays ==
  ASSUME NEW s, Len(s) = 0
  PROVE  (\A c : Silent(s, c)) /\ (\A m : ~Says(s, m)) /\ \A n : n \notin 1 .. Len(s)
BY DEF Silent, Untold, Says

-----------------------------------------------------------------------------
(* What page p may say as it comes to show S.                              *)
Speech(p, t, S) ==
  /\ \A c \in Covered : Turns(t, Len(t), c, on[p], S)
  /\ \A c \in Covered : ~Silent(t, c) => ~Crossed(p, c)
  /\ \A c \in Covered : Says(t, On(c)) => ~Met(p, c)
  /\ \A i \in 1 .. Len(t) : \A c, d \in Covered :
       t[i] = On(d) /\ Rivals(c, d) => Turns(t, i - 1, c, on[p], {})

LEMMA SpeakHolds ==
  ASSUME TypeOK, InStep, NEW p \in signed, NEW t \in Seq(Messages), NEW S,
         on' = [on EXCEPT ![p] = S], up' = [up EXCEPT ![p] = up[p] \o t],
         UNCHANGED <<down, srv, signed>>, Speech(p, t, S)
  PROVE  InStep'
<1> DEFINE u == up[p] \o t
<1>1. /\ p \in Pages /\ signed \subseteq Pages
      /\ on'[p] = S /\ up'[p] = u
      /\ \A q \in Pages : q # p => on'[q] = on[q] /\ up'[q] = up[q]
  BY DEF TypeOK
<1>2. /\ u \in Seq(Messages) /\ Len(u) = Len(up[p]) + Len(t)
      /\ Len(t) \in Nat
      /\ \A k \in 1 .. Len(up[p]) : u[k] = up[p][k]
      /\ \A k \in 1 .. Len(t) : u[Len(up[p]) + k] = t[k]
  BY <1>1, SeqTypes, ConcatFacts
<1>3. /\ \A m : Says(u, m) <=> Says(up[p], m) \/ Says(t, m)
      /\ \A c : Silent(u, c) <=> Silent(up[p], c) /\ Silent(t, c)
  BY <1>1, SeqTypes, ConcatSays
<1>4. \A c \in Covered : Turns(u, Len(u), c, on[p], S)
  <2> SUFFICES ASSUME NEW c \in Covered
               PROVE  Turns(u, Len(u), c, on[p], S)
    OBVIOUS
  <2>1. Turns(up[p], Len(up[p]), c, on[p], on[p])
    BY <1>1 DEF InStep, SaidIsShown
  <2>2. Turns(t, Len(t), c, on[p], S) /\ Len(t) \in 0 .. Len(t)
    BY <1>2 DEF Speech
  <2>3. Turns(u, Len(up[p]) + Len(t), c, on[p], S)
    BY <1>1, <2>1, <2>2, SeqTypes, ConcatTurns
  <2>4. QED
    BY <1>2, <2>3
<1>5. \A c \in Covered : Silent(t, c) => (c \in on[p] <=> c \in S)
  <2>1. \A c \in Covered : Turns(t, Len(t), c, on[p], S)
    BY DEF Speech
  <2>2. \A c : Decides(t, Len(t), On(c)) \/ Decides(t, Len(t), Off(c)) => ~Silent(t, c)
    BY DecidesSays, ToldFacts
  <2>3. QED
    BY <2>1, <2>2 DEF Turns
<1>6. ASSUME NEW c \in Covered, Says(t, On(c)), NEW d, d = c \/ Rivals(c, d)
      PROVE  /\ Silent(down[p], d) /\ ~Says(down[p], On(d))
             /\ \A q \in Pages : q # p => Silent(up[q], d) /\ ~Says(up[q], On(d))
  <2>1. ~Met(p, c) /\ (d = c \/ Mates(c, d))
    BY <1>6 DEF Speech, Rivals
  <2>2. Silent(down[p], d) /\ \A q \in Pages : q # p => Silent(up[q], d)
    BY <1>1, <2>1, UnheardFacts
  <2>3. QED
    BY <2>2, SaysOf, ToldFacts
<1>7. \A c \in Covered : ~Silent(t, c) =>
        ~Says(down[p], On(c)) /\ \A q \in Pages : q # p => ~Says(up[q], On(c))
  BY <1>1, UnheardFacts DEF Speech
<1> HIDE DEF u
<1>8. ReadersFollow'
  <2> SUFFICES ASSUME NEW q \in signed, NEW c \in Covered, Silent(up'[q], c)
               PROVE  Turns(down[q], Len(down[q]), c, on'[q], srv)
    BY DEF ReadersFollow, Silent, Untold
  <2>1. CASE q # p
    BY <1>1, <2>1 DEF InStep, ReadersFollow
  <2>2. CASE q = p
    <3>1. Silent(up[p], c) /\ Silent(t, c)
      BY <1>1, <1>3, <2>2
    <3>2. Turns(down[p], Len(down[p]), c, on[p], srv)
      BY <3>1 DEF InStep, ReadersFollow
    <3>3. Turns(down[p], Len(down[p]), c, S, srv)
      BY <1>5, <3>1, <3>2 DEF Turns
    <3>4. QED
      BY <1>1, <2>2, <3>3
  <2>3. QED
    BY <2>1, <2>2
<1>9. SpeakersAreLeft'
  <2> SUFFICES ASSUME NEW q \in Pages, NEW c \in Covered, ~Silent(up'[q], c)
               PROVE  ~Says(down[q], On(c)) /\ Turns(down[q], Len(down[q]), c, {}, {})
    BY DEF SpeakersAreLeft
  <2>1. CASE ~Silent(up[q], c)
    BY <2>1 DEF InStep, SpeakersAreLeft
  <2>2. CASE Silent(up[q], c)
    <3>1. q = p /\ ~Silent(t, c)
      BY <1>1, <1>3, <2>2
    <3>2. Turns(down[p], Len(down[p]), c, on[p], srv)
      BY <2>2, <3>1 DEF InStep, ReadersFollow
    <3>3. ~Says(down[p], On(c))
      BY <1>7, <3>1
    <3>4. ~Decides(down[p], Len(down[p]), On(c))
      BY <3>3, DecidesSays
    <3>5. QED
      BY <3>1, <3>2, <3>3, <3>4 DEF Turns
  <2>3. QED
    BY <2>1, <2>2
<1>10. SaidIsShown'
  <2> SUFFICES ASSUME NEW q \in Pages, NEW c \in Covered
               PROVE  Turns(up'[q], Len(up'[q]), c, on'[q], on'[q])
    BY DEF SaidIsShown
  <2>1. CASE q # p
    BY <1>1, <2>1 DEF InStep, SaidIsShown
  <2>2. CASE q = p
    <3>1. Turns(u, Len(u), c, S, S)
      BY <1>4 DEF Turns
    <3>2. QED
      BY <1>1, <2>2, <3>1
  <2>3. QED
    BY <2>1, <2>2
<1>11. OneTurnsOn'
  <2> SUFFICES ASSUME NEW r \in Pages, NEW q \in Pages, NEW c \in Covered,
                      r # q, Says(up'[r], On(c))
               PROVE  /\ Silent(up'[q], c)
                      /\ \A d \in Covered : Rivals(c, d) => ~Says(up'[q], On(d))
    BY DEF OneTurnsOn
  <2>1. CASE r # p /\ q # p
    BY <1>1, <2>1 DEF InStep, OneTurnsOn
  <2>2. CASE r = p
    <3>1. up'[q] = up[q] /\ (Says(up[p], On(c)) \/ Says(t, On(c)))
      BY <1>1, <1>3, <2>2
    <3>2. CASE Says(up[p], On(c))
      BY <2>2, <3>1, <3>2 DEF InStep, OneTurnsOn
    <3>3. CASE Says(t, On(c))
      BY <1>6, <2>2, <3>1, <3>3
    <3>4. QED
      BY <3>1, <3>2, <3>3
  <2>3. CASE q = p
    <3>1. Says(up[r], On(c)) /\ r # p
      BY <1>1, <2>3
    <3>2. Silent(up[p], c) /\ \A d \in Covered : Rivals(c, d) => ~Says(up[p], On(d))
      BY <1>1, <3>1 DEF InStep, OneTurnsOn
    <3>3. Silent(t, c)
      BY <1>7, <3>1
    <3>4. \A d \in Covered : Rivals(c, d) => ~Says(t, On(d))
      BY <1>6, <3>1, RivalsFacts
    <3>5. QED
      BY <1>1, <1>3, <2>3, <3>2, <3>3, <3>4
  <2>4. QED
    BY <2>1, <2>2, <2>3
<1>12. NobodyAnswers'
  <2> SUFFICES ASSUME NEW q \in Pages, NEW c \in Covered, Says(up'[q], On(c))
               PROVE  Silent(down[q], c)
    BY DEF NobodyAnswers
  <2>1. CASE Says(up[q], On(c))
    BY <2>1 DEF InStep, NobodyAnswers
  <2>2. CASE ~Says(up[q], On(c))
    BY <1>1, <1>3, <1>6, <2>2
  <2>3. QED
    BY <2>1, <2>2
<1>13. ServerTurnsOffFirst'
  <2> SUFFICES ASSUME NEW q \in Pages, NEW i \in 1 .. Len(up'[q]), NEW c \in Covered,
                      NEW d \in Covered, up'[q][i] = On(d), Rivals(c, d)
               PROVE  Turns(up'[q], i - 1, c, srv, {})
    BY DEF ServerTurnsOffFirst
  <2>1. CASE q # p
    BY <1>1, <2>1 DEF InStep, ServerTurnsOffFirst
  <2>2. CASE q = p /\ i \in 1 .. Len(up[p])
    <3>1. up[p][i] = On(d)
      BY <1>1, <1>2, <2>2
    <3>2. Turns(up[p], i - 1, c, srv, {})
      BY <1>1, <2>2, <3>1 DEF InStep, ServerTurnsOffFirst
    <3>3. i - 1 \in Nat /\ \A k \in 1 .. i - 1 : u[k] = up[p][k]
      BY <1>1, <1>2, <2>2, SeqTypes
    <3>4. Turns(u, i - 1, c, srv, {})
      BY <3>2, <3>3, TurnsSame
    <3>5. QED
      BY <1>1, <2>2, <3>4
  <2>3. CASE q = p /\ i \notin 1 .. Len(up[p])
    <3> DEFINE j == i - Len(up[p])
    <3>1. j \in 1 .. Len(t) /\ i = Len(up[p]) + j /\ j - 1 \in 0 .. Len(t)
          /\ i - 1 = Len(up[p]) + (j - 1)
      BY <1>1, <1>2, <2>3, SeqTypes
    <3> HIDE DEF j
    <3>2. t[j] = On(d)
      BY <1>1, <1>2, <2>3, <3>1
    <3>3. Turns(t, j - 1, c, on[p], {})
      BY <3>1, <3>2 DEF Speech
    <3>4. Silent(down[p], c)
      <4>1. Says(t, On(d)) /\ Rivals(d, c)
        BY <3>1, <3>2, RivalsFacts DEF Says
      <4>2. QED
        BY <1>6, <4>1
    <3>5. Turns(up[p], Len(up[p]), c, srv, on[p])
      <4>1. Turns(up[p], Len(up[p]), c, on[p], on[p])
        BY <1>1 DEF InStep, SaidIsShown
      <4>2. Silent(up[p], c) => Turns(down[p], Len(down[p]), c, on[p], srv)
        BY DEF InStep, ReadersFollow
      <4>3. Silent(up[p], c) => (c \in on[p] <=> c \in srv)
        BY <3>4, <4>2, SilentTurns
      <4>4. QED
        BY <4>1, <4>3, TurnsFrom DEF Silent
    <3>6. Turns(u, Len(up[p]) + (j - 1), c, srv, {})
      BY <1>1, <3>1, <3>3, <3>5, SeqTypes, ConcatTurns DEF u
    <3>7. QED
      BY <1>1, <2>3, <3>1, <3>6
  <2>4. QED
    BY <2>1, <2>2, <2>3
<1>14. PagesTurnOffFirst'
  <2> SUFFICES ASSUME NEW q \in signed, NEW i \in 1 .. Len(down[q]), NEW c \in Covered,
                      NEW d \in Covered, down[q][i] = On(d), Rivals(c, d)
               PROVE  Turns(down[q], i - 1, c, on'[q], {})
    BY DEF PagesTurnOffFirst
  <2>1. Turns(down[q], i - 1, c, on[q], {})
    BY DEF InStep, PagesTurnOffFirst
  <2>2. CASE q # p
    BY <1>1, <2>1, <2>2
  <2>3. CASE q = p
    <3>1. c \in S => c \in on[p]
      <4>1. Turns(t, Len(t), c, on[p], S)
        BY DEF Speech
      <4>2. ~Says(t, On(c))
        <5>1. Says(down[p], On(d))
          BY <2>3 DEF Says
        <5>2. QED
          BY <1>6, <5>1
      <4>3. ~Decides(t, Len(t), On(c))
        BY <4>2, DecidesSays
      <4>4. QED
        BY <4>1, <4>3 DEF Turns
    <3>2. Turns(down[q], i - 1, c, S, {})
      BY <2>1, <2>3, <3>1 DEF Turns
    <3>3. QED
      BY <1>1, <2>3, <3>2
  <2>4. QED
    BY <2>2, <2>3
<1>15. ServerHoldsOne'
  BY DEF InStep, ServerHoldsOne
<1>16. QED
  BY <1>8, <1>9, <1>10, <1>11, <1>12, <1>13, <1>14, <1>15 DEF InStep

-----------------------------------------------------------------------------
(* A page changes by itself what the others need not know.                 *)
LEMMA AloneHolds ==
  ASSUME TypeOK, Sayable, InStep, NEW p \in Pages, NEW S,
         on' = [on EXCEPT ![p] = S], UNCHANGED <<up, down, srv, signed>>,
         p \in signed => \A c \in Covered : c \in S <=> c \in on[p]
  PROVE  InStep'
<1>1. /\ signed \subseteq Pages /\ on'[p] = S
      /\ \A q \in Pages : q # p => on'[q] = on[q]
  BY DEF TypeOK
<1>2. ASSUME NEW q \in signed, NEW c \in Covered
      PROVE  c \in on'[q] <=> c \in on[q]
  BY <1>1
<1>3. ReadersFollow'
  <2> SUFFICES ASSUME NEW q \in signed, NEW c \in Covered, Silent(up[q], c)
               PROVE  Turns(down[q], Len(down[q]), c, on'[q], srv)
    BY DEF ReadersFollow
  <2>1. Turns(down[q], Len(down[q]), c, on[q], srv)
    BY DEF InStep, ReadersFollow
  <2>2. QED
    BY <1>2, <2>1 DEF Turns
<1>4. SaidIsShown'
  <2> SUFFICES ASSUME NEW q \in Pages, NEW c \in Covered
               PROVE  Turns(up[q], Len(up[q]), c, on'[q], on'[q])
    BY DEF SaidIsShown
  <2>1. Turns(up[q], Len(up[q]), c, on[q], on[q])
    BY DEF InStep, SaidIsShown
  <2>2. CASE q \in signed
    BY <1>2, <2>1, <2>2 DEF Turns
  <2>3. CASE q \notin signed
    <3>1. up[q] = <<>>
      BY <2>3 DEF Sayable
    <3>2. Len(up[q]) = 0
      BY <3>1
    <3>3. QED
      BY <3>2, TurnsNothing
  <2>4. QED
    BY <2>2, <2>3
<1>5. PagesTurnOffFirst'
  <2> SUFFICES ASSUME NEW q \in signed, NEW i \in 1 .. Len(down[q]), NEW c \in Covered,
                      NEW d \in Covered, down[q][i] = On(d), Rivals(c, d)
               PROVE  Turns(down[q], i - 1, c, on'[q], {})
    BY DEF PagesTurnOffFirst
  <2>1. Turns(down[q], i - 1, c, on[q], {})
    BY DEF InStep, PagesTurnOffFirst
  <2>2. QED
    BY <1>2, <2>1 DEF Turns
<1>6. SpeakersAreLeft' /\ OneTurnsOn' /\ NobodyAnswers' /\ ServerTurnsOffFirst' /\ ServerHoldsOne'
  BY DEF InStep, SpeakersAreLeft, OneTurnsOn, NobodyAnswers, ServerTurnsOffFirst, ServerHoldsOne
<1>7. QED
  BY <1>3, <1>4, <1>5, <1>6 DEF InStep

LEMMA SameHolds ==
  ASSUME InStep, UNCHANGED <<on, up, down, srv, signed>>
  PROVE  InStep'
BY DEF InStep, ReadersFollow, SpeakersAreLeft, SaidIsShown, OneTurnsOn, NobodyAnswers,
       ServerTurnsOffFirst, PagesTurnOffFirst, ServerHoldsOne

(* A page is cut off: what it had to say is lost.                          *)
LEMMA LeaveHolds ==
  ASSUME TypeOK, InStep, NEW p \in signed, NEW S, NEW D, D = <<>> \/ D = down[p],
         on' = [on EXCEPT ![p] = S], up' = [up EXCEPT ![p] = <<>>],
         down' = [down EXCEPT ![p] = D], signed' = signed \ {p}, srv' = srv
  PROVE  InStep'
<1>1. /\ signed \subseteq Pages /\ p \in Pages /\ up'[p] = <<>> /\ down'[p] = D
      /\ \A q \in Pages : q # p => on'[q] = on[q] /\ up'[q] = up[q] /\ down'[q] = down[q]
  BY DEF TypeOK
<1>2. Len(up'[p]) = 0
  BY <1>1
<1>3. ReadersFollow' /\ PagesTurnOffFirst'
  BY <1>1 DEF InStep, ReadersFollow, PagesTurnOffFirst
<1>4. SpeakersAreLeft'
  <2> SUFFICES ASSUME NEW q \in Pages, NEW c \in Covered, ~Silent(up'[q], c)
               PROVE  ~Says(down'[q], On(c)) /\ Turns(down'[q], Len(down'[q]), c, {}, {})
    BY DEF SpeakersAreLeft
  <2>1. q # p
    BY <1>2, NothingSays
  <2>2. QED
    BY <1>1, <2>1 DEF InStep, SpeakersAreLeft
<1>5. SaidIsShown'
  <2> SUFFICES ASSUME NEW q \in Pages, NEW c \in Covered
               PROVE  Turns(up'[q], Len(up'[q]), c, on'[q], on'[q])
    BY DEF SaidIsShown
  <2>1. CASE q = p
    BY <1>2, <2>1, TurnsNothing
  <2>2. CASE q # p
    BY <1>1, <2>2 DEF InStep, SaidIsShown
  <2>3. QED
    BY <2>1, <2>2
<1>6. OneTurnsOn' /\ NobodyAnswers'
  <2>1. ASSUME NEW q \in Pages, NEW c, Says(up'[q], On(c))
        PROVE  q # p /\ Says(up[q], On(c))
    BY <1>1, <1>2, <2>1, NothingSays
  <2>2. ASSUME NEW q \in Pages, NEW c, Silent(up[q], c)
        PROVE  Silent(up'[q], c)
    BY <1>1, <1>2, <2>2, NothingSays
  <2>3. OneTurnsOn'
    BY <2>1, <2>2 DEF InStep, OneTurnsOn
  <2>4. NobodyAnswers'
    BY <1>1, <2>1 DEF InStep, NobodyAnswers
  <2>5. QED
    BY <2>3, <2>4
<1>7. ServerTurnsOffFirst'
  <2> SUFFICES ASSUME NEW q \in Pages, NEW i \in 1 .. Len(up'[q]), NEW c \in Covered,
                      NEW d \in Covered, up'[q][i] = On(d), Rivals(c, d)
               PROVE  Turns(up'[q], i - 1, c, srv, {})
    BY DEF ServerTurnsOffFirst
  <2>1. q # p
    BY <1>2, NothingSays
  <2>2. QED
    BY <1>1, <2>1 DEF InStep, ServerTurnsOffFirst
<1>8. ServerHoldsOne'
  BY DEF InStep, ServerHoldsOne
<1>9. QED
  BY <1>3, <1>4, <1>5, <1>6, <1>7, <1>8 DEF InStep

(* A page signs in: it has been reset, and what the server holds is said   *)
(* to it, in any order.                                                    *)
LEMMA JoinHolds ==
  ASSUME TypeOK, Sayable, InStep, NEW p \in Pages, p \notin signed, NEW s,
         on' = [on EXCEPT ![p] = {}], down' = [down EXCEPT ![p] = s],
         signed' = signed \union {p}, UNCHANGED <<up, srv>>,
         s \in Seq(Messages),
         \A i \in 1 .. Len(s) : s[i].ctrl \in srv,
         \A c : Turns(s, Len(s), c, {}, srv)
  PROVE  InStep'
<1>1. /\ signed \subseteq Pages /\ up[p] = <<>> /\ down'[p] = s /\ on'[p] = {}
      /\ \A q \in Pages : q # p => on'[q] = on[q] /\ down'[q] = down[q]
  BY DEF TypeOK, Sayable
<1>2. Len(up[p]) = 0
  BY <1>1
<1>3. ReadersFollow'
  BY <1>1 DEF InStep, ReadersFollow
<1>4. SpeakersAreLeft'
  <2> SUFFICES ASSUME NEW q \in Pages, NEW c \in Covered, ~Silent(up[q], c)
               PROVE  ~Says(down'[q], On(c)) /\ Turns(down'[q], Len(down'[q]), c, {}, {})
    BY DEF SpeakersAreLeft
  <2>1. q # p
    BY <1>2, NothingSays
  <2>2. QED
    BY <1>1, <2>1 DEF InStep, SpeakersAreLeft
<1>5. SaidIsShown'
  <2> SUFFICES ASSUME NEW q \in Pages, NEW c \in Covered
               PROVE  Turns(up[q], Len(up[q]), c, on'[q], on'[q])
    BY DEF SaidIsShown
  <2>1. CASE q = p
    BY <1>2, <2>1, TurnsNothing
  <2>2. CASE q # p
    BY <1>1, <2>2 DEF InStep, SaidIsShown
  <2>3. QED
    BY <2>1, <2>2
<1>6. NobodyAnswers'
  BY <1>1, <1>2, NothingSays DEF InStep, NobodyAnswers
<1>7. PagesTurnOffFirst'
  <2> SUFFICES ASSUME NEW q \in signed', NEW i \in 1 .. Len(down'[q]), NEW c \in Covered,
                      NEW d \in Covered, down'[q][i] = On(d), Rivals(c, d)
               PROVE  Turns(down'[q], i - 1, c, on'[q], {})
    BY DEF PagesTurnOffFirst
  <2>1. CASE q # p
    BY <1>1, <2>1 DEF InStep, PagesTurnOffFirst
  <2>2. CASE q = p
    <3>1. Len(s) \in Nat /\ i \in 1 .. Len(s) /\ s[i] = On(d)
      BY <1>1, <2>2, LenProperties
    <3>2. d \in srv
      BY <3>1, ToldFacts
    <3>3. c \notin srv
      BY <3>2 DEF InStep, ServerHoldsOne
    <3>4. \A k \in 1 .. i - 1 : k \in 1 .. Len(s)
      BY <3>1
    <3>5. Untold(s, i - 1, c)
      BY <3>3, <3>4 DEF Untold
    <3>6. QED
      BY <1>1, <2>2, <3>5 DEF Turns
  <2>3. QED
    BY <2>1, <2>2
<1>8. OneTurnsOn' /\ ServerTurnsOffFirst' /\ ServerHoldsOne'
  BY DEF InStep, OneTurnsOn, ServerTurnsOffFirst, ServerHoldsOne
<1>9. QED
  BY <1>3, <1>4, <1>5, <1>6, <1>7, <1>8 DEF InStep

-----------------------------------------------------------------------------
(* A page reads a message m, and comes to show S.                          *)
LEMMA ReadHolds ==
  ASSUME TypeOK, Sayable, InStep, NEW p \in Pages, down[p] # <<>>,
         NEW m, m = Head(down[p]), NEW S,
         on' = [on EXCEPT ![p] = S], down' = [down EXCEPT ![p] = Tail(down[p])],
         UNCHANGED <<up, srv, signed>>,
         p \in signed => \A c \in Covered :
           \/ m.ctrl # c /\ (c \in S <=> c \in on[p])
           \/ m = On(c) /\ c \in S
           \/ m = Off(c) /\ c \notin S
  PROVE  InStep'
<1> DEFINE u == Tail(down[p])
<1>1. /\ signed \subseteq Pages /\ down'[p] = u /\ on'[p] = S
      /\ \A q \in Pages : q # p => on'[q] = on[q] /\ down'[q] = down[q]
  BY DEF TypeOK
<1>2. /\ down[p] \in Seq(Messages) /\ Len(down[p]) \in Nat /\ Len(down[p]) >= 1
      /\ Len(u) = Len(down[p]) - 1
      /\ \A k \in 1 .. Len(u) : u[k] = down[p][k + 1]
  BY SeqTypes, TailFacts
<1>3. /\ \A x : Says(u, x) => Says(down[p], x)
      /\ \A c : Silent(down[p], c) <=> Silent(u, c) /\ m.ctrl # c
      /\ Says(down[p], m)
  BY <1>2, TailSays
<1>4. ASSUME NEW n \in 1 .. Len(down[p]), NEW c, NEW X, NEW Y, NEW Z,
             Turns(down[p], n, c, X, Y),
             \/ m.ctrl # c /\ (c \in Z <=> c \in X)
             \/ m = On(c) /\ c \in Z
             \/ m = Off(c) /\ c \notin Z
      PROVE  Turns(u, n - 1, c, Z, Y)
  BY <1>2, <1>4, TailTurns
<1>5. \A q \in Pages : \A c : ~Silent(up[q], c) => q \in signed
  <2>1. \A q \in Pages : q \notin signed => Len(up[q]) = 0
    BY DEF Sayable
  <2>2. QED
    BY <2>1, NothingSays
<1> HIDE DEF u
<1>6. ReadersFollow'
  <2> SUFFICES ASSUME NEW q \in signed, NEW c \in Covered, Silent(up[q], c)
               PROVE  Turns(down'[q], Len(down'[q]), c, on'[q], srv)
    BY DEF ReadersFollow
  <2>1. Turns(down[q], Len(down[q]), c, on[q], srv)
    BY DEF InStep, ReadersFollow
  <2>2. CASE q # p
    BY <1>1, <2>1, <2>2
  <2>3. CASE q = p
    <3>1. Len(down[p]) \in 1 .. Len(down[p])
      BY <1>2
    <3>2. Turns(u, Len(down[p]) - 1, c, S, srv)
      BY <1>4, <2>1, <2>3, <3>1
    <3>3. QED
      BY <1>1, <1>2, <2>3, <3>2
  <2>4. QED
    BY <2>2, <2>3
<1>7. ASSUME NEW c \in Covered, ~Silent(up[p], c)
      PROVE  /\ m # On(c) /\ ~Says(u, On(c)) /\ Turns(u, Len(u), c, {}, {})
             /\ c \in S <=> c \in on[p]
  <2>1. ~Says(down[p], On(c)) /\ Turns(down[p], Len(down[p]), c, {}, {})
    BY <1>7 DEF InStep, SpeakersAreLeft
  <2>2. m # On(c) /\ ~Says(u, On(c))
    BY <1>3, <2>1
  <2>3. \/ m.ctrl # c /\ (c \in S <=> c \in on[p])
        \/ m = Off(c) /\ c \notin S
    BY <1>5, <1>7, <2>2
  <2>4. Len(down[p]) \in 1 .. Len(down[p])
    BY <1>2
  <2>5. Turns(u, Len(down[p]) - 1, c, {}, {})
    BY <1>4, <2>1, <2>3, <2>4
  <2>6. m = Off(c) => c \notin on[p]
    <3>1. m = Off(c) => ~Silent(down[p], c)
      BY <1>3, ToldFacts
    <3>2. m = Off(c) => ~Says(up[p], On(c))
      BY <3>1 DEF InStep, NobodyAnswers
    <3>3. Turns(up[p], Len(up[p]), c, on[p], on[p])
      BY DEF InStep, SaidIsShown
    <3>4. Decides(up[p], Len(up[p]), On(c)) => Says(up[p], On(c))
      BY DecidesSays
    <3>5. QED
      BY <1>7, <3>2, <3>3, <3>4 DEF Turns, Silent
  <2>7. QED
    BY <1>2, <2>2, <2>3, <2>5, <2>6
<1>8. SpeakersAreLeft'
  <2> SUFFICES ASSUME NEW q \in Pages, NEW c \in Covered, ~Silent(up[q], c)
               PROVE  ~Says(down'[q], On(c)) /\ Turns(down'[q], Len(down'[q]), c, {}, {})
    BY DEF SpeakersAreLeft
  <2>1. CASE q # p
    BY <1>1, <2>1 DEF InStep, SpeakersAreLeft
  <2>2. CASE q = p
    BY <1>1, <1>7, <2>2
  <2>3. QED
    BY <2>1, <2>2
<1>9. SaidIsShown'
  <2> SUFFICES ASSUME NEW q \in Pages, NEW c \in Covered
               PROVE  Turns(up[q], Len(up[q]), c, on'[q], on'[q])
    BY DEF SaidIsShown
  <2>1. Turns(up[q], Len(up[q]), c, on[q], on[q])
    BY DEF InStep, SaidIsShown
  <2>2. CASE q # p
    BY <1>1, <2>1, <2>2
  <2>3. CASE q = p /\ Silent(up[p], c)
    BY <1>1, <2>3 DEF Turns, Silent
  <2>4. CASE q = p /\ ~Silent(up[p], c)
    <3>1. c \in S <=> c \in on[p]
      BY <1>7, <2>4
    <3>2. QED
      BY <1>1, <2>1, <2>4, <3>1 DEF Turns
  <2>5. QED
    BY <2>2, <2>3, <2>4
<1>10. NobodyAnswers'
  <2> SUFFICES ASSUME NEW q \in Pages, NEW c \in Covered, Says(up[q], On(c))
               PROVE  Silent(down'[q], c)
    BY DEF NobodyAnswers
  <2>1. Silent(down[q], c)
    BY DEF InStep, NobodyAnswers
  <2>2. QED
    BY <1>1, <1>3, <2>1
<1>11. PagesTurnOffFirst'
  <2> SUFFICES ASSUME NEW q \in signed, NEW i \in 1 .. Len(down'[q]), NEW c \in Covered,
                      NEW d \in Covered, down'[q][i] = On(d), Rivals(c, d)
               PROVE  Turns(down'[q], i - 1, c, on'[q], {})
    BY DEF PagesTurnOffFirst
  <2>1. CASE q # p
    BY <1>1, <2>1 DEF InStep, PagesTurnOffFirst
  <2>2. CASE q = p
    <3>1. /\ i \in 1 .. Len(u) /\ i \in Nat /\ i + 1 \in 1 .. Len(down[p])
          /\ i \in 1 .. Len(down[p])
          /\ down[p][i + 1] = On(d) /\ (i + 1) - 1 = i
      BY <1>1, <1>2, <2>2
    <3>2. Turns(down[p], (i + 1) - 1, c, on[p], {})
      BY <2>2, <3>1 DEF InStep, PagesTurnOffFirst
    <3>3. Turns(u, i - 1, c, S, {})
      BY <1>4, <2>2, <3>1, <3>2
    <3>4. QED
      BY <1>1, <2>2, <3>3
  <2>3. QED
    BY <2>1, <2>2
<1>12. OneTurnsOn' /\ ServerTurnsOffFirst' /\ ServerHoldsOne'
  BY DEF InStep, OneTurnsOn, ServerTurnsOffFirst, ServerHoldsOne
<1>13. QED
  BY <1>6, <1>8, <1>9, <1>10, <1>11, <1>12 DEF InStep

(* The server reads a message m of page p, and passes on what it will.     *)
LEMMA ServedHolds ==
  ASSUME TypeOK, Sayable, InStep, NEW p \in Pages, up[p] # <<>>, NEW m, m = Head(up[p]),
         up' = [up EXCEPT ![p] = Tail(up[p])], UNCHANGED <<on, signed>>,
         \A q \in Pages : \/ down'[q] = down[q]
                          \/ \E n \in Messages : /\ n.ctrl = m.ctrl
                                                 /\ down'[q] = Append(down[q], n),
         \A c \in Covered : c # m.ctrl => (c \in srv' <=> c \in srv),
         m.ctrl \in Covered =>
           /\ \A q \in Pages :
                down'[q] = IF q \in signed \ {p} THEN Append(down[q], m) ELSE down[q]
           /\ \/ m = On(m.ctrl) /\ m.ctrl \in srv'
              \/ m = Off(m.ctrl) /\ m.ctrl \notin srv'
  PROVE  InStep'
<1> DEFINE u == Tail(up[p])
<1>1. /\ signed \subseteq Pages /\ up'[p] = u
      /\ \A q \in Pages : q # p => up'[q] = up[q]
  BY DEF TypeOK
<1>2. p \in signed
  BY DEF Sayable
<1>3. /\ up[p] \in Seq(Messages) /\ Len(up[p]) \in Nat /\ Len(up[p]) >= 1
      /\ Len(u) = Len(up[p]) - 1 /\ m \in Messages /\ m = up[p][1]
      /\ \A k \in 1 .. Len(u) : u[k] = up[p][k + 1]
  BY SeqTypes, TailFacts
<1>4. /\ \A x : Says(u, x) => Says(up[p], x)
      /\ \A c : Silent(up[p], c) <=> Silent(u, c) /\ m.ctrl # c
      /\ Says(up[p], m)
  BY <1>3, TailSays
<1>5. \A c \in Covered : \/ m.ctrl # c /\ (c \in srv' <=> c \in srv)
                         \/ m = On(c) /\ c \in srv'
                         \/ m = Off(c) /\ c \notin srv'
  OBVIOUS
<1>6. ASSUME NEW n \in 1 .. Len(up[p]), NEW c, NEW X, NEW Y, NEW Z,
             Turns(up[p], n, c, X, Y),
             \/ m.ctrl # c /\ (c \in Z <=> c \in X)
             \/ m = On(c) /\ c \in Z
             \/ m = Off(c) /\ c \notin Z
      PROVE  Turns(u, n - 1, c, Z, Y)
  BY <1>3, <1>6, TailTurns
<1>7. \A q \in Pages : /\ \A x : Says(up'[q], x) => Says(up[q], x)
                       /\ \A c : Silent(up[q], c) => Silent(up'[q], c)
  BY <1>1, <1>4
<1> HIDE DEF u
(* What is not about c leaves c alone. *)
<1>8. ASSUME NEW q \in Pages, NEW c, c # m.ctrl
      PROVE  /\ Silent(down'[q], c) <=> Silent(down[q], c)
             /\ Says(down'[q], On(c)) <=> Says(down[q], On(c))
             /\ \A X, Y : Turns(down[q], Len(down[q]), c, X, Y)
                            => Turns(down'[q], Len(down'[q]), c, X, Y)
  <2>1. CASE down'[q] = down[q]
    BY <2>1
  <2>2. CASE \E n \in Messages : n.ctrl = m.ctrl /\ down'[q] = Append(down[q], n)
    <3>1. PICK n \in Messages : n.ctrl = m.ctrl /\ down'[q] = Append(down[q], n)
      BY <2>2
    <3>2. /\ \A x : Says(Append(down[q], n), x) <=> Says(down[q], x) \/ x = n
          /\ \A e : Silent(Append(down[q], n), e) <=> Silent(down[q], e) /\ n.ctrl # e
      BY SeqTypes, AppendSays
    <3>3. On(c) # n
      BY <1>8, <3>1, ToldFacts
    <3>4. ASSUME NEW X, NEW Y, Turns(down[q], Len(down[q]), c, X, Y)
          PROVE  Turns(Append(down[q], n), Len(Append(down[q], n)), c, X, Y)
      BY <1>8, <3>1, <3>4, SeqTypes, AppendTurns
    <3>5. QED
      BY <1>8, <3>1, <3>2, <3>3, <3>4
  <2>3. QED
    BY <2>1, <2>2
<1>9. ReadersFollow'
  <2> SUFFICES ASSUME NEW q \in signed, NEW c \in Covered, Silent(up'[q], c)
               PROVE  Turns(down'[q], Len(down'[q]), c, on[q], srv')
    BY DEF ReadersFollow
  <2>1. CASE c # m.ctrl
    <3>1. Silent(up[q], c)
      BY <1>1, <1>4, <2>1
    <3>2. Turns(down[q], Len(down[q]), c, on[q], srv)
      BY <3>1 DEF InStep, ReadersFollow
    <3>3. Turns(down'[q], Len(down'[q]), c, on[q], srv)
      BY <1>1, <1>8, <2>1, <3>2
    <3>4. QED
      BY <2>1, <3>3 DEF Turns
  <2>2. CASE c = m.ctrl /\ q # p
    <3>1. Turns(down[q], Len(down[q]), c, on[q], srv)
      BY <1>1, <2>2 DEF InStep, ReadersFollow
    <3>2. Turns(Append(down[q], m), Len(Append(down[q], m)), c, on[q], srv')
      BY <1>1, <1>3, <1>5, <2>2, <3>1, SeqTypes, AppendTurns
    <3>3. down'[q] = Append(down[q], m)
      BY <1>1, <2>2
    <3>4. QED
      BY <3>2, <3>3
  <2>3. CASE c = m.ctrl /\ q = p
    <3>1. down'[p] = down[p] /\ ~Silent(up[p], c)
      BY <1>4, <2>3
    <3>2. Turns(up[p], Len(up[p]), c, on[p], on[p]) /\ Len(up[p]) \in 1 .. Len(up[p])
      BY <1>3 DEF InStep, SaidIsShown
    <3>3. Turns(u, Len(u), c, srv', on[p])
      BY <1>3, <1>5, <1>6, <2>3, <3>2
    <3>4. c \in srv' <=> c \in on[p]
      <4>1. Silent(u, c)
        BY <1>1, <2>3
      <4>2. ~Decides(u, Len(u), On(c)) /\ ~Decides(u, Len(u), Off(c))
        BY <4>1, DecidesSays, ToldFacts
      <4>3. QED
        BY <3>3, <4>2 DEF Turns
    <3>5. CASE m = On(c)
      <4>1. Silent(down[p], c)
        BY <1>4, <3>5 DEF InStep, NobodyAnswers
      <4>2. QED
        BY <2>3, <3>1, <3>4, <4>1 DEF Turns, Silent
    <3>6. CASE m # On(c)
      <4>1. Turns(down[p], Len(down[p]), c, {}, {})
        BY <3>1 DEF InStep, SpeakersAreLeft
      <4>2. c \notin srv'
        BY <1>5, <2>3, <3>6
      <4>3. QED
        BY <2>3, <3>1, <3>4, <4>1, <4>2 DEF Turns
    <3>7. QED
      BY <3>5, <3>6
  <2>4. QED
    BY <2>1, <2>2, <2>3
<1>10. SpeakersAreLeft'
  <2> SUFFICES ASSUME NEW q \in Pages, NEW c \in Covered, ~Silent(up'[q], c)
               PROVE  ~Says(down'[q], On(c)) /\ Turns(down'[q], Len(down'[q]), c, {}, {})
    BY DEF SpeakersAreLeft
  <2>1. ~Silent(up[q], c)
    BY <1>7
  <2>2. ~Says(down[q], On(c)) /\ Turns(down[q], Len(down[q]), c, {}, {})
    BY <2>1 DEF InStep, SpeakersAreLeft
  <2>3. CASE c # m.ctrl
    BY <1>8, <2>2, <2>3
  <2>4. CASE c = m.ctrl /\ down'[q] = down[q]
    BY <2>2, <2>4
  <2>5. CASE c = m.ctrl /\ down'[q] # down[q]
    <3>1. q # p /\ down'[q] = Append(down[q], m)
      BY <2>5
    <3>2. m # On(c)
      BY <1>4, <2>1, <3>1 DEF InStep, OneTurnsOn
    <3>3. m = Off(c)
      BY <1>5, <2>5, <3>2
    <3>4. Turns(Append(down[q], m), Len(Append(down[q], m)), c, {}, {})
      BY <1>3, <2>2, <3>3, SeqTypes, AppendTurns
    <3>5. Says(Append(down[q], m), On(c)) <=> Says(down[q], On(c)) \/ On(c) = m
      BY <1>3, SeqTypes, AppendSays
    <3>6. QED
      BY <2>2, <3>1, <3>2, <3>4, <3>5
  <2>6. QED
    BY <2>3, <2>4, <2>5
<1>11. SaidIsShown'
  <2> SUFFICES ASSUME NEW q \in Pages, NEW c \in Covered
               PROVE  Turns(up'[q], Len(up'[q]), c, on[q], on[q])
    BY DEF SaidIsShown
  <2>1. Turns(up[q], Len(up[q]), c, on[q], on[q])
    BY DEF InStep, SaidIsShown
  <2>2. CASE q # p
    BY <1>1, <2>1, <2>2
  <2>3. CASE q = p
    <3>1. Len(up[p]) \in 1 .. Len(up[p])
      BY <1>3
    <3>2. CASE c # m.ctrl
      <4>1. Turns(u, Len(up[p]) - 1, c, on[p], on[p])
        BY <1>6, <2>1, <2>3, <3>1, <3>2
      <4>2. QED
        BY <1>1, <1>3, <2>3, <4>1
    <3>3. CASE c = m.ctrl
      <4>1. Turns(u, Len(up[p]) - 1, c, srv', on[p])
        BY <1>5, <1>6, <2>1, <2>3, <3>1, <3>3
      <4>2. Turns(u, Len(up[p]) - 1, c, on[p], on[p])
        BY <4>1 DEF Turns
      <4>3. QED
        BY <1>1, <1>3, <2>3, <4>2
    <3>4. QED
      BY <3>2, <3>3
  <2>4. QED
    BY <2>2, <2>3
<1>12. OneTurnsOn'
  <2> SUFFICES ASSUME NEW r \in Pages, NEW q \in Pages, NEW c \in Covered,
                      r # q, Says(up'[r], On(c))
               PROVE  /\ Silent(up'[q], c)
                      /\ \A d \in Covered : Rivals(c, d) => ~Says(up'[q], On(d))
    BY DEF OneTurnsOn
  <2>1. Says(up[r], On(c))
    BY <1>7
  <2>2. Silent(up[q], c) /\ \A d \in Covered : Rivals(c, d) => ~Says(up[q], On(d))
    BY <2>1 DEF InStep, OneTurnsOn
  <2>3. QED
    BY <1>7, <2>2
<1>13. NobodyAnswers'
  <2> SUFFICES ASSUME NEW q \in Pages, NEW c \in Covered, Says(up'[q], On(c))
               PROVE  Silent(down'[q], c)
    BY DEF NobodyAnswers
  <2>1. Says(up[q], On(c))
    BY <1>7
  <2>2. Silent(down[q], c)
    BY <2>1 DEF InStep, NobodyAnswers
  <2>3. CASE c # m.ctrl
    BY <1>8, <2>2, <2>3
  <2>4. CASE c = m.ctrl /\ down'[q] = down[q]
    BY <2>2, <2>4
  <2>5. CASE c = m.ctrl /\ down'[q] # down[q]
    <3>1. q # p
      BY <2>5
    <3>2. Silent(up[p], c)
      BY <2>1, <3>1 DEF InStep, OneTurnsOn
    <3>3. QED
      BY <1>4, <2>5, <3>2
  <2>6. QED
    BY <2>3, <2>4, <2>5
<1>14. ServerTurnsOffFirst'
  <2> SUFFICES ASSUME NEW q \in Pages, NEW i \in 1 .. Len(up'[q]), NEW c \in Covered,
                      NEW d \in Covered, up'[q][i] = On(d), Rivals(c, d)
               PROVE  Turns(up'[q], i - 1, c, srv', {})
    BY DEF ServerTurnsOffFirst
  <2>1. CASE q # p
    <3>1. Turns(up[q], i - 1, c, srv, {}) /\ Says(up[q], On(d))
      BY <1>1, <2>1 DEF InStep, ServerTurnsOffFirst, Says
    <3>2. m # On(c)
      BY <1>4, <2>1, <3>1 DEF InStep, OneTurnsOn
    <3>3. c \in srv' => c \in srv
      BY <1>5, <3>2
    <3>4. QED
      BY <1>1, <2>1, <3>1, <3>3 DEF Turns
  <2>2. CASE q = p
    <3>1. /\ i \in 1 .. Len(u) /\ i \in Nat /\ i + 1 \in 1 .. Len(up[p])
          /\ i \in 1 .. Len(up[p])
          /\ up[p][i + 1] = On(d) /\ (i + 1) - 1 = i
      BY <1>1, <1>3, <2>2
    <3>2. Turns(up[p], (i + 1) - 1, c, srv, {})
      BY <3>1 DEF InStep, ServerTurnsOffFirst
    <3>3. Turns(u, i - 1, c, srv', {})
      BY <1>5, <1>6, <3>1, <3>2
    <3>4. QED
      BY <1>1, <2>2, <3>3
  <2>3. QED
    BY <2>1, <2>2
(* If m turns d on, its rivals are off at the server. *)
<1>15. ASSUME NEW c \in Covered, NEW d \in Covered, m = On(d), Rivals(c, d)
       PROVE  c \notin srv
  <2>1. 1 \in 1 .. Len(up[p]) /\ up[p][1] = On(d)
    BY <1>3, <1>15
  <2>2. Turns(up[p], 1 - 1, c, srv, {})
    BY <1>15, <2>1 DEF InStep, ServerTurnsOffFirst
  <2>3. Turns(up[p], 0, c, srv, {})
    BY <2>2
  <2>4. QED
    BY <2>3, TurnsNothing
<1>16. PagesTurnOffFirst'
  <2> SUFFICES ASSUME NEW q \in signed, NEW i \in 1 .. Len(down'[q]), NEW c \in Covered,
                      NEW d \in Covered, down'[q][i] = On(d), Rivals(c, d)
               PROVE  Turns(down'[q], i - 1, c, on[q], {})
    BY DEF PagesTurnOffFirst
  <2>1. q \in Pages /\ down[q] \in Seq(Messages) /\ Len(down[q]) \in Nat
    BY <1>1, SeqTypes
  <2>2. CASE down'[q] = down[q]
    BY <2>2 DEF InStep, PagesTurnOffFirst
  <2>3. CASE down'[q] # down[q]
    <3>1. PICK n \in Messages : n.ctrl = m.ctrl /\ down'[q] = Append(down[q], n)
      BY <2>1, <2>3
    <3>2. /\ Len(down'[q]) = Len(down[q]) + 1
          /\ \A k \in 1 .. Len(down[q]) : down'[q][k] = down[q][k]
          /\ down'[q][Len(down[q]) + 1] = n
      BY <2>1, <3>1, AppendSays
    <3>3. i - 1 \in Nat /\ \A k \in 1 .. i - 1 : down'[q][k] = down[q][k]
      BY <2>1, <3>2
    <3>4. Turns(down[q], i - 1, c, on[q], {})
      <4>1. CASE i \in 1 .. Len(down[q])
        BY <3>2, <4>1 DEF InStep, PagesTurnOffFirst
      <4>2. CASE i \notin 1 .. Len(down[q])
        <5>1. i - 1 = Len(down[q]) /\ n = On(d)
          BY <2>1, <3>2, <4>2
        <5>2. m.ctrl = d /\ q # p /\ down'[q] = Append(down[q], m)
          BY <2>1, <2>3, <3>1, <5>1, ToldFacts
        <5>3. m = On(d)
          <6>1. /\ Append(down[q], m)[Len(down[q]) + 1] = m
                /\ Append(down[q], n)[Len(down[q]) + 1] = n
            BY <1>3, <2>1, AppendSays
          <6>2. QED
            BY <3>1, <5>1, <5>2, <6>1
        <5>4. c \notin srv
          BY <1>15, <5>3
        <5>5. CASE Silent(up[q], c)
          <6>1. Turns(down[q], Len(down[q]), c, on[q], srv)
            BY <5>5 DEF InStep, ReadersFollow
          <6>2. QED
            BY <5>1, <5>4, <6>1 DEF Turns
        <5>6. CASE ~Silent(up[q], c)
          <6>1. Turns(down[q], Len(down[q]), c, {}, {})
            BY <2>1, <5>6 DEF InStep, SpeakersAreLeft
          <6>2. ~Says(up[q], On(c))
            BY <1>4, <2>1, <5>2, <5>3, RivalsFacts DEF InStep, OneTurnsOn
          <6>3. Turns(up[q], Len(up[q]), c, on[q], on[q])
            BY <2>1 DEF InStep, SaidIsShown
          <6>4. c \notin on[q]
            BY <5>6, <6>2, <6>3, DecidesSays DEF Turns, Silent
          <6>5. QED
            BY <5>1, <6>1, <6>4 DEF Turns
        <5>7. QED
          BY <5>5, <5>6
      <4>3. QED
        BY <4>1, <4>2
    <3>5. QED
      BY <3>3, <3>4, TurnsSame
  <2>4. QED
    BY <2>2, <2>3
<1>17. ServerHoldsOne'
  <2> SUFFICES ASSUME NEW c \in srv' \intersect Covered, NEW d \in srv' \intersect Covered,
                      Rivals(c, d)
               PROVE  FALSE
    BY DEF ServerHoldsOne
  <2>1. c # d /\ Rivals(d, c)
    BY RivalsFacts
  <2>2. CASE c = m.ctrl
    <3>1. m = On(c) /\ d \in srv
      BY <1>5, <2>1, <2>2
    <3>2. QED
      BY <1>15, <2>1, <3>1
  <2>3. CASE d = m.ctrl
    <3>1. m = On(d) /\ c \in srv
      BY <1>5, <2>1, <2>3
    <3>2. QED
      BY <1>15, <3>1
  <2>4. CASE c # m.ctrl /\ d # m.ctrl
    BY <2>4 DEF InStep, ServerHoldsOne
  <2>5. QED
    BY <2>2, <2>3, <2>4
<1>18. QED
  BY <1>9, <1>10, <1>11, <1>12, <1>13, <1>14, <1>16, <1>17 DEF InStep

-----------------------------------------------------------------------------
(* What a user or a timer says, and when it may be said.                   *)
LEMMA SpeechOff ==
  ASSUME TypeOK, NEW p \in Pages, NEW c \in Controls, ~Crossed(p, c)
  PROVE  /\ <<Off(c)>> \in Seq(Messages)
         /\ Speech(p, <<Off(c)>>, on[p] \ {c})
<1> DEFINE t == <<Off(c)>>
<1>1. t \in Seq(Messages) /\ Len(t) = 1 /\ t[1] = Off(c)
  BY DEF Off, Told, Messages
<1>2. \A d : Turns(t, 1, d, on[p], on[p] \ {c})
  BY OneMessage, ToldFacts
<1> HIDE DEF t
<1>3. \A d : d # c => Silent(t, d)
  BY <1>1, ToldFacts DEF Silent, Untold
<1>4. \A i \in 1 .. Len(t) : \A d : t[i] # On(d)
  BY <1>1, ToldFacts
<1>5. Speech(p, t, on[p] \ {c})
  BY <1>1, <1>2, <1>3, <1>4 DEF Speech, Says
<1>6. QED
  BY <1>1, <1>5 DEF t

(* What is no switch turns off none that is covered.                       *)
LEMMA SpeechOn ==
  ASSUME TypeOK, NEW p \in Pages, NEW c \in Controls, ~Met(p, c),
         Class[c] \notin {"switch", "oneshot"}, NEW X, X \subseteq Members(p, c)
  PROVE  /\ <<On(c)>> \in Seq(Messages)
         /\ Speech(p, <<On(c)>>, (on[p] \ X) \union {c})
<1> DEFINE t == <<On(c)>>
           S == (on[p] \ X) \union {c}
<1>1. t \in Seq(Messages) /\ Len(t) = 1 /\ t[1] = On(c)
  BY DEF On, Told, Messages
<1>2. on[p] \in SUBSET Controls
  BY DEF TypeOK
<1>3. ASSUME NEW d \in Covered
      PROVE  d \notin X /\ ~Rivals(d, c)
  <2>1. ~Mates(c, d)
    BY <1>3, CoveredFacts DEF Mates
  <2>2. QED
    BY <2>1, RivalsFacts DEF Members, Rivals
<1>4. \A d \in Covered : Turns(t, 1, d, on[p], S)
  BY <1>3, OneMessage, ToldFacts
<1> HIDE DEF t, S
<1>5. \A c1, d \in Covered, i \in 1 .. Len(t) : t[i] = On(d) => ~Rivals(c1, d)
  BY <1>1, <1>3, ToldFacts
<1>6. ~Crossed(p, c)
  BY UnheardFacts
<1>7. \A d : Says(t, On(d)) \/ ~Silent(t, d) => d = c
  BY <1>1, ToldFacts DEF Says, Silent, Untold
<1>8. Speech(p, t, S)
  BY <1>1, <1>4, <1>5, <1>6, <1>7 DEF Speech
<1>9. QED
  BY <1>1, <1>8 DEF t, S

LEMMA MembersFacts ==
  ASSUME TypeOK, NEW p \in Pages, NEW c
  PROVE  /\ Members(p, c) \in SUBSET Controls
         /\ Members(p, c) \subseteq on[p]
         /\ c \notin Members(p, c)
         /\ \A d \in Members(p, c) : Mates(c, d)
         /\ \A d \in on[p] : Rivals(d, c) => d \in Members(p, c)
BY DEF TypeOK, Members, Rivals, Mates

LEMMA SpeechOffs ==
  ASSUME TypeOK, NEW p \in Pages, NEW c \in Controls, ~Met(p, c)
  PROVE  /\ Offs(Members(p, c)) \in Seq(Messages)
         /\ Speech(p, Offs(Members(p, c)), on[p] \ Members(p, c))
<1> DEFINE M == Members(p, c)
           t == Offs(M)
<1>1. M \in SUBSET Controls /\ \A d \in M : Mates(c, d)
  BY MembersFacts
<1> HIDE DEF M
<1>2. /\ t \in Seq(Messages)
      /\ \A i \in 1 .. Len(t) : t[i].state = "switched-off" /\ t[i].ctrl \in M
      /\ \A d \in M : Turns(t, Len(t), d, on[p], on[p] \ M)
      /\ \A d : d \notin M => Turns(t, Len(t), d, on[p], on[p] \ M)
  BY <1>1, OffsFacts
<1> HIDE DEF t
<1>3. \A i \in 1 .. Len(t) : \A d : t[i] # On(d)
  BY <1>2, ToldFacts
<1>4. \A d : ~Silent(t, d) => ~Crossed(p, d)
  BY <1>1, <1>2, UnheardFacts DEF Silent, Untold
<1>5. Speech(p, t, on[p] \ M)
  BY <1>2, <1>3, <1>4 DEF Speech, Says
<1>6. QED
  BY <1>2, <1>5 DEF t, M

LEMMA SpeechSwitch ==
  ASSUME TypeOK, NEW p \in Pages, NEW c \in Controls, ~Met(p, c)
  PROVE  /\ Append(Offs(Members(p, c)), On(c)) \in Seq(Messages)
         /\ Speech(p, Append(Offs(Members(p, c)), On(c)), (on[p] \ Members(p, c)) \union {c})
<1> DEFINE M == Members(p, c)
           o == Offs(M)
           t == Append(o, On(c))
           S == (on[p] \ M) \union {c}
<1>1. /\ M \in SUBSET Controls /\ c \notin M
      /\ \A d \in on[p] : Rivals(d, c) => d \in M
      /\ \A d \in M : Mates(c, d)
  BY MembersFacts
<1> HIDE DEF M
<1>2. /\ o \in Seq(Messages)
      /\ \A i \in 1 .. Len(o) : o[i].state = "switched-off" /\ o[i].ctrl \in M
      /\ \A d, Y, Z : d \notin Z /\ (d \in Y => d \in M) => Turns(o, Len(o), d, Y, Z)
      /\ \A d, Y, Z : d \notin M /\ (d \in Y <=> d \in Z) => Turns(o, Len(o), d, Y, Z)
  BY <1>1, OffsFacts
<1>3. On(c) \in Messages
  BY DEF On, Told, Messages
<1> HIDE DEF o
<1>4. /\ t \in Seq(Messages) /\ Len(t) = Len(o) + 1 /\ Len(o) \in Nat
      /\ \A k \in 1 .. Len(o) : t[k] = o[k]
      /\ t[Len(o) + 1] = On(c)
  BY <1>2, <1>3, AppendSays, LenProperties
<1>5. ASSUME NEW d
      PROVE  Turns(t, Len(t), d, on[p], S)
  <2>1. CASE d = c
    <3>1. Turns(o, Len(o), d, on[p], on[p])
      BY <1>1, <1>2, <2>1
    <3>2. QED
      BY <1>2, <1>3, <2>1, <3>1, AppendTurns
  <2>2. CASE d # c
    <3>1. Turns(o, Len(o), d, on[p], on[p] \ M)
      <4>1. CASE d \in M
        BY <1>2, <4>1
      <4>2. CASE d \notin M
        BY <1>2, <4>2
      <4>3. QED
        BY <4>1, <4>2
    <3>2. On(c).ctrl # d /\ (d \in on[p] \ M <=> d \in S)
      BY <2>2, ToldFacts
    <3>3. QED
      BY <1>2, <1>3, <3>1, <3>2, AppendTurns
  <2>3. QED
    BY <2>1, <2>2
<1> HIDE DEF t, S
<1>6. ASSUME NEW i \in 1 .. Len(t), NEW d \in Covered, NEW e \in Covered,
             t[i] = On(d), Rivals(e, d)
      PROVE  Turns(t, i - 1, e, on[p], {})
  <2>1. i \notin 1 .. Len(o)
    BY <1>2, <1>4, <1>6, ToldFacts
  <2>2. i - 1 = Len(o) /\ d = c
    BY <1>4, <1>6, <2>1, ToldFacts
  <2>3. Turns(o, Len(o), e, on[p], {})
    BY <1>1, <1>2, <1>6, <2>2
  <2>4. Turns(t, Len(o), e, on[p], {})
    BY <1>4, <2>3, TurnsSame
  <2>5. QED
    BY <2>2, <2>4
<1>7. ASSUME NEW i \in 1 .. Len(t)
      PROVE  /\ t[i].ctrl = c \/ Mates(c, t[i].ctrl)
             /\ \A d : t[i] = On(d) => d = c
  <2>1. i \in 1 .. Len(o) \/ i = Len(o) + 1
    BY <1>4
  <2>2. QED
    BY <1>1, <1>2, <1>4, <2>1, ToldFacts
<1>8. \A d : ~Silent(t, d) => ~Crossed(p, d)
  BY <1>7, UnheardFacts DEF Silent, Untold
<1>9. \A d : Says(t, On(d)) => d = c
  BY <1>7 DEF Says
<1>10. Speech(p, t, S)
  BY <1>5, <1>6, <1>8, <1>9 DEF Speech
<1>11. QED
  BY <1>4, <1>10 DEF t, S, o, M

-----------------------------------------------------------------------------
(* The inductive invariant.                                                *)
AgreeInv == TypeOK /\ IInv /\ Sayable /\ (~apart => InStep)

(* Page p says t and comes to show S.                                      *)
SaysAndShows(p, t, S) ==
  /\ t \in Seq(Messages)
  /\ S \in SUBSET Controls
  /\ \A i \in 1 .. Len(t) : \/ t[i].state = "switched-off"
                            \/ t[i].state = "switched-on" /\ Class[t[i].ctrl] # "oneshot"
  /\ on' = [on EXCEPT ![p] = S]
  /\ Fire(p, t)
  /\ UNCHANGED <<down, srv, signed>>

LEMMA SaidHolds ==
  ASSUME AgreeInv, NEW p \in Pages, NEW t, NEW S, SaysAndShows(p, t, S),
         ~apart' => ~apart /\ (p \in signed => Speech(p, t, S))
  PROVE  /\ on' \in [Pages -> SUBSET Controls]
         /\ up' \in [Pages -> Seq(Messages)]
         /\ Sayable' /\ (~apart' => InStep')
<1>1. /\ t \in Seq(Messages) /\ S \in SUBSET Controls
      /\ on' = [on EXCEPT ![p] = S] /\ Fire(p, t)
      /\ UNCHANGED <<down, srv, signed>>
  BY DEF SaysAndShows
<1>2. up[p] \in Seq(Messages) /\ TypeOK /\ signed \subseteq Pages
  BY SeqTypes DEF AgreeInv, TypeOK
<1>3. on' \in [Pages -> SUBSET Controls]
  BY <1>1, <1>2 DEF TypeOK
<1>4. CASE p \notin signed
  <2>1. up' = up
    BY <1>1, <1>4 DEF Fire
  <2>2. Sayable'
    BY <1>1, <2>1 DEF AgreeInv, Sayable
  <2>3. ~apart' => InStep'
    BY <1>1, <1>2, <1>4, <2>1, AloneHolds DEF AgreeInv
  <2>4. QED
    BY <1>2, <1>3, <2>1, <2>2, <2>3 DEF TypeOK
<1>5. CASE p \in signed
  <2>1. up' = [up EXCEPT ![p] = up[p] \o t]
    BY <1>1, <1>5 DEF Fire
  <2>2. /\ up[p] \o t \in Seq(Messages)
        /\ Len(up[p]) \in Nat /\ Len(t) \in Nat
        /\ Len(up[p] \o t) = Len(up[p]) + Len(t)
        /\ \A k \in 1 .. Len(up[p]) : (up[p] \o t)[k] = up[p][k]
        /\ \A k \in 1 .. Len(t) : (up[p] \o t)[Len(up[p]) + k] = t[k]
    BY <1>1, <1>2, ConcatFacts
  <2>3. up' \in [Pages -> Seq(Messages)]
    BY <1>2, <2>1, <2>2 DEF TypeOK
  <2>4. up'[p] = up[p] \o t /\ \A q \in Pages : q # p => up'[q] = up[q]
    BY <1>2, <2>1 DEF TypeOK
  <2>5. Sayable'
    <3>1. ASSUME NEW q \in Pages, NEW i \in 1 .. Len(up'[q])
          PROVE  \/ up'[q][i].state = "switched-off"
                 \/ up'[q][i].state = "switched-on" /\ Class[up'[q][i].ctrl] # "oneshot"
      <4>1. CASE q # p
        BY <2>4, <4>1 DEF AgreeInv, Sayable
      <4>2. CASE q = p /\ i \in 1 .. Len(up[p])
        <5>1. up'[q][i] = up[p][i]
          BY <2>2, <2>4, <4>2
        <5>2. QED
          BY <4>2, <5>1 DEF AgreeInv, Sayable
      <4>3. CASE q = p /\ i \notin 1 .. Len(up[p])
        <5>1. i - Len(up[p]) \in 1 .. Len(t) /\ i = Len(up[p]) + (i - Len(up[p]))
          BY <2>2, <2>4, <4>3
        <5>2. (up[p] \o t)[Len(up[p]) + (i - Len(up[p]))] = t[i - Len(up[p])]
          BY <2>2, <5>1
        <5>3. up'[q][i] = t[i - Len(up[p])]
          BY <2>4, <4>3, <5>1, <5>2
        <5>4. QED
          BY <5>1, <5>3 DEF SaysAndShows
      <4>4. QED
        BY <4>1, <4>2, <4>3
    <3>2. \A q \in Pages : q \notin signed => up'[q] = <<>>
      BY <1>5, <2>4 DEF AgreeInv, Sayable
    <3>3. QED
      BY <1>1, <3>1, <3>2 DEF AgreeInv, Sayable
  <2>6. ~apart' => InStep'
    BY <1>1, <1>2, <1>5, <2>1, SpeakHolds DEF AgreeInv
  <2>7. QED
    BY <1>3, <2>3, <2>5, <2>6
<1>6. QED
  BY <1>4, <1>5

LEMMA TypeStep ==
  ASSUME IInv', on' \in [Pages -> SUBSET Controls], signed' \subseteq Pages,
         timers' \in [Pages -> [Controls -> Nat]],
         up' \in [Pages -> Seq(Messages)], down' \in [Pages -> Seq(Messages)],
         asked' \in [Pages -> SUBSET Controls], srv' \subseteq Controls,
         runs' \subseteq Controls, apart' \in BOOLEAN
  PROVE  TypeOK'
BY DEF TypeOK, IInv, Shape, TaskRecords

-----------------------------------------------------------------------------
(* What a tap makes a page say and show.                                   *)
LEMMA OffSaid ==
  ASSUME TypeOK, NEW p \in Pages, NEW c \in Controls,
         Switched(p, {c}, {}), Fire(p, <<Told(c, "switched-off")>>),
         UNCHANGED <<down, srv, signed>>
  PROVE  SaysAndShows(p, <<Off(c)>>, on[p] \ {c})
<1>1. on' = [on EXCEPT ![p] = on[p] \ {c}] /\ on[p] \ {c} \in SUBSET Controls
  BY DEF Switched, TypeOK
<1>2. <<Off(c)>> \in Seq(Messages) /\ \A i \in 1 .. Len(<<Off(c)>>) : <<Off(c)>>[i] = Off(c)
  BY DEF Off, Told, Messages
<1>3. Fire(p, <<Off(c)>>)
  BY DEF Off
<1>4. QED
  BY <1>1, <1>2, <1>3, ToldFacts DEF SaysAndShows

LEMMA OnSaid ==
  ASSUME TypeOK, NEW p \in Pages, NEW c \in Controls, NEW X, Class[c] # "oneshot",
         on' = [on EXCEPT ![p] = (on[p] \ X) \union {c}],
         Fire(p, <<Told(c, "switched-on")>>), UNCHANGED <<down, srv, signed>>
  PROVE  SaysAndShows(p, <<On(c)>>, (on[p] \ X) \union {c})
<1>1. (on[p] \ X) \union {c} \in SUBSET Controls
  BY DEF TypeOK
<1>2. <<On(c)>> \in Seq(Messages) /\ \A i \in 1 .. Len(<<On(c)>>) : <<On(c)>>[i] = On(c)
  BY DEF On, Told, Messages
<1>3. Fire(p, <<On(c)>>)
  BY DEF On
<1>4. QED
  BY <1>1, <1>2, <1>3, ToldFacts DEF SaysAndShows

LEMMA OffsSaid ==
  ASSUME TypeOK, NEW p \in Pages, NEW c \in Controls,
         Switched(p, Members(p, c), {}), Fire(p, Offs(Members(p, c))),
         UNCHANGED <<down, srv, signed>>
  PROVE  SaysAndShows(p, Offs(Members(p, c)), on[p] \ Members(p, c))
<1>1. Members(p, c) \in SUBSET Controls
  BY MembersFacts
<1>2. /\ Offs(Members(p, c)) \in Seq(Messages)
      /\ \A i \in 1 .. Len(Offs(Members(p, c))) : Offs(Members(p, c))[i].state = "switched-off"
  BY <1>1, OffsFacts
<1>3. /\ on' = [on EXCEPT ![p] = on[p] \ Members(p, c)]
      /\ on[p] \ Members(p, c) \in SUBSET Controls
  BY DEF Switched, TypeOK
<1>4. QED
  BY <1>2, <1>3 DEF SaysAndShows

LEMMA SwitchSaid ==
  ASSUME TypeOK, NEW p \in Pages, NEW c \in Controls, Class[c] # "oneshot",
         Switched(p, Members(p, c), {c}),
         Fire(p, Append(Offs(Members(p, c)), Told(c, "switched-on"))),
         UNCHANGED <<down, srv, signed>>
  PROVE  SaysAndShows(p, Append(Offs(Members(p, c)), On(c)), (on[p] \ Members(p, c)) \union {c})
<1> DEFINE o == Offs(Members(p, c))
           t == Append(o, On(c))
<1>1. o \in Seq(Messages) /\ \A i \in 1 .. Len(o) : o[i].state = "switched-off"
  BY MembersFacts, OffsFacts
<1>2. On(c) \in Messages
  BY DEF On, Told, Messages
<1> HIDE DEF o
<1>3. /\ t \in Seq(Messages) /\ Len(t) = Len(o) + 1 /\ Len(o) \in Nat
      /\ \A k \in 1 .. Len(o) : t[k] = o[k]
      /\ t[Len(o) + 1] = On(c)
  BY <1>1, <1>2, AppendSays, LenProperties
<1>4. Fire(p, t)
  BY DEF On, t, o
<1> HIDE DEF t
<1>5. \A i \in 1 .. Len(t) : i \in 1 .. Len(o) \/ i = Len(o) + 1
  BY <1>3
<1>6. \A i \in 1 .. Len(t) : \/ t[i].state = "switched-off"
                             \/ t[i].state = "switched-on" /\ Class[t[i].ctrl] # "oneshot"
  BY <1>1, <1>3, <1>5, ToldFacts
<1>7. /\ on' = [on EXCEPT ![p] = (on[p] \ Members(p, c)) \union {c}]
      /\ (on[p] \ Members(p, c)) \union {c} \in SUBSET Controls
  BY DEF Switched, TypeOK
<1>8. SaysAndShows(p, t, (on[p] \ Members(p, c)) \union {c})
  BY <1>3, <1>4, <1>6, <1>7 DEF SaysAndShows
<1>9. QED
  BY <1>8 DEF t, o

(* A tap on a control of any class says something, which may be said if    *)
(* what the others have said of its group has arrived.                     *)
LEMMA TapSaid ==
  ASSUME TypeOK, NEW p \in Pages, NEW c \in Controls, Tap(p, c)
  PROVE  \E t, S : SaysAndShows(p, t, S) /\ (~Met(p, c) => Speech(p, t, S))
<1>1. UNCHANGED <<down, srv, signed>>
  BY DEF Tap, server
<1>2. ~Met(p, c) => ~Crossed(p, c)
  BY UnheardFacts
<1>3. CASE Switched(p, {c}, {}) /\ Fire(p, <<Told(c, "switched-off")>>)
  BY <1>1, <1>2, <1>3, OffSaid, SpeechOff
<1>4. ASSUME NEW X, X \subseteq Members(p, c), Class[c] \notin {"switch", "oneshot"},
             on' = [on EXCEPT ![p] = (on[p] \ X) \union {c}],
             Fire(p, <<Told(c, "switched-on")>>)
      PROVE  \E t, S : SaysAndShows(p, t, S) /\ (~Met(p, c) => Speech(p, t, S))
  BY <1>1, <1>4, OnSaid, SpeechOn
<1>5. CASE OneshotClick(p, c)
  BY <1>1, <1>5, OffsSaid, SpeechOffs DEF OneshotClick
<1>6. CASE SwitchOn(p, c)
  BY <1>1, <1>6, SwitchSaid, SpeechSwitch DEF SwitchOn
<1>7. CASE RepeatOn(p, c)
  BY <1>4, <1>7 DEF RepeatOn
<1>8. CASE RemoteSwitch(p, c)
  <2>1. CASE c \in on[p]
    BY <1>3, <1>8, <2>1 DEF RemoteSwitch
  <2>2. CASE c \notin on[p]
    BY <1>4, <1>8, <2>2 DEF RemoteSwitch, Switched
  <2>3. QED
    BY <2>1, <2>2
<1>9. CASE MemoSet(p, c)
  <2>1. CASE c \in on[p]
    <3>1. on' = [on EXCEPT ![p] = (on[p] \ {}) \union {c}]
      BY <1>9, <2>1 DEF MemoSet, Switched
    <3>2. PICK X : X \subseteq Members(p, c) /\ on' = [on EXCEPT ![p] = (on[p] \ X) \union {c}]
      BY <3>1
    <3>3. QED
      BY <1>4, <1>9, <3>2 DEF MemoSet
  <2>2. CASE c \notin on[p]
    BY <1>4, <1>9, <2>2 DEF MemoSet, Switched
  <2>3. QED
    BY <2>1, <2>2
<1>10. CASE SwitchOff(p, c) \/ RepeatOff(p, c) \/ MemoClear(p, c)
  BY <1>3, <1>10 DEF SwitchOff, RepeatOff, MemoClear
<1>11. QED
  BY <1>5, <1>6, <1>7, <1>8, <1>9, <1>10 DEF Tap

LEMMA TimersMore ==
  ASSUME TypeOK, NEW p \in Pages, NEW c \in Controls
  PROVE  [timers EXCEPT ![p][c] = @ + 1] \in [Pages -> [Controls -> Nat]]
<1>1. timers[p][c] \in Nat
  BY DEF TypeOK
<1>2. timers[p][c] + 1 \in Nat
  BY <1>1
<1>3. [timers[p] EXCEPT ![c] = timers[p][c] + 1] \in [Controls -> Nat]
  BY <1>2 DEF TypeOK
<1>4. QED
  BY <1>3 DEF TypeOK

LEMMA TimersLess ==
  ASSUME TypeOK, NEW p \in Pages, NEW c \in Controls, timers[p][c] > 0
  PROVE  [timers EXCEPT ![p][c] = @ - 1] \in [Pages -> [Controls -> Nat]]
<1>1. timers[p][c] \in Nat
  BY DEF TypeOK
<1>2. timers[p][c] - 1 \in Nat
  BY <1>1
<1>3. [timers[p] EXCEPT ![c] = timers[p][c] - 1] \in [Controls -> Nat]
  BY <1>2 DEF TypeOK
<1>4. QED
  BY <1>3 DEF TypeOK

LEMMA TapAgrees ==
  ASSUME AgreeInv, IInv', NEW p \in Pages, NEW c \in Controls, Tap(p, c)
  PROVE  AgreeInv'
<1>1. TypeOK
  BY DEF AgreeInv
<1>2. PICK t, S : SaysAndShows(p, t, S) /\ (~Met(p, c) => Speech(p, t, S))
  BY <1>1, TapSaid
<1>3. /\ apart' = (apart \/ (p \in signed /\ Met(p, c)))
      /\ UNCHANGED <<locks, signed, down, server>>
  BY DEF Tap
<1>4. ~apart' => ~apart /\ (p \in signed => Speech(p, t, S))
  BY <1>2, <1>3
<1>5. /\ on' \in [Pages -> SUBSET Controls]
      /\ up' \in [Pages -> Seq(Messages)]
      /\ Sayable' /\ (~apart' => InStep')
  BY <1>2, <1>4, SaidHolds
<1>6. timers' \in [Pages -> [Controls -> Nat]]
  <2>1. timers' = timers \/ timers' = [timers EXCEPT ![p][c] = @ + 1]
    BY DEF Tap, OneshotClick, SwitchOn, SwitchOff, RepeatOn, RepeatOff, RemoteSwitch,
           MemoSet, MemoClear
  <2>2. CASE timers' = timers
    BY <1>1, <2>2 DEF TypeOK
  <2>3. CASE timers' = [timers EXCEPT ![p][c] = @ + 1]
    BY ONLY <1>1, <2>3, TimersMore
  <2>4. QED
    BY <2>1, <2>2, <2>3
<1>7. asked' \in [Pages -> SUBSET Controls]
  <2>1. asked' = asked \/ asked' = [asked EXCEPT ![p] = asked[p] \union {c}]
    <3>1. asked' = asked \/ asked' = [asked EXCEPT ![p] = @ \union {c}]
      BY DEF Tap, OneshotClick, SwitchOn, SwitchOff, RepeatOn, RepeatOff, RemoteSwitch,
             MemoSet, MemoClear
    <3>2. QED
      BY <3>1
  <2>2. asked \in [Pages -> SUBSET Controls] /\ asked[p] \union {c} \in SUBSET Controls
    BY <1>1 DEF TypeOK
  <2>3. QED
    BY <2>1, <2>2
<1>8. TypeOK'
  <2>1. apart' \in BOOLEAN
    BY <1>3
  <2>2. QED
    BY <1>1, <1>3, <1>5, <1>6, <1>7, <2>1, TypeStep DEF TypeOK, server
<1>9. QED
  BY <1>5, <1>8 DEF AgreeInv

(* A page whose user overrides what is shown is apart from then on, if the *)
(* others can hear it.                                                     *)
LEMMA LongTapAgrees ==
  ASSUME AgreeInv, IInv', NEW p \in Pages, NEW c \in Controls, LongTap(p, c)
  PROVE  AgreeInv'
<1>1. TypeOK /\ Sayable /\ (~apart => InStep)
  BY DEF AgreeInv
<1>2. /\ UNCHANGED <<signed, timers, up, down, asked, srv, runs>>
      /\ apart' = (apart \/ p \in signed)
      /\ Switched(p, {c}, {}) \/ Switched(p, Members(p, c), {c})
  BY DEF LongTap, server
<1>3. PICK S \in SUBSET Controls : on' = [on EXCEPT ![p] = S]
  BY <1>1, <1>2 DEF Switched, TypeOK
<1>4. ~apart' => InStep'
  BY <1>1, <1>2, <1>3, AloneHolds
<1>5. Sayable'
  BY <1>1, <1>2 DEF Sayable
<1>6. TypeOK'
  <2>1. on' \in [Pages -> SUBSET Controls]
    BY <1>1, <1>3 DEF TypeOK
  <2>2. apart' \in BOOLEAN
    BY <1>2
  <2>3. QED
    BY <1>1, <1>2, <2>1, <2>2, TypeStep DEF TypeOK
<1>7. QED
  BY <1>4, <1>5, <1>6 DEF AgreeInv

(* A timer turns its control off, and tells the others.                    *)
LEMMA TimerAgrees ==
  ASSUME AgreeInv, IInv', NEW p \in Pages, NEW c \in Controls,
         Restore(p, c) \/ (RepeatEnd(p, c) /\ c \in on[p])
  PROVE  AgreeInv'
<1>1. TypeOK
  BY DEF AgreeInv
<1>2. /\ timers[p][c] > 0
      /\ timers' = [timers EXCEPT ![p][c] = @ - 1]
      /\ Switched(p, {c}, {})
      /\ Fire(p, <<Told(c, "switched-off")>>)
      /\ apart' = (apart \/ (p \in signed /\ Crossed(p, c)))
      /\ UNCHANGED <<signed, down, asked, srv, runs>>
  BY DEF Restore, RepeatEnd, server
<1>3. SaysAndShows(p, <<Off(c)>>, on[p] \ {c})
  BY <1>1, <1>2, OffSaid
<1>4. ~apart' => ~apart /\ (p \in signed => Speech(p, <<Off(c)>>, on[p] \ {c}))
  BY <1>1, <1>2, SpeechOff
<1>5. /\ on' \in [Pages -> SUBSET Controls]
      /\ up' \in [Pages -> Seq(Messages)]
      /\ Sayable' /\ (~apart' => InStep')
  BY <1>3, <1>4, SaidHolds
<1>6. timers' \in [Pages -> [Controls -> Nat]]
  BY <1>1, <1>2, TimersLess
<1>7. apart' \in BOOLEAN
  BY <1>2
<1>8. TypeOK'
  BY <1>1, <1>2, <1>5, <1>6, <1>7, TypeStep DEF TypeOK
<1>9. QED
  BY <1>5, <1>8 DEF AgreeInv

(* Steps that neither say nor show anything.                               *)
LEMMA QuietStep ==
  ASSUME AgreeInv, IInv', UNCHANGED <<on, signed, up, down, asked, srv, apart>>,
         timers' \in [Pages -> [Controls -> Nat]], runs' \subseteq Controls
  PROVE  AgreeInv'
<1>1. Sayable' /\ (~apart' => InStep')
  BY SameHolds DEF AgreeInv, Sayable
<1>2. TypeOK'
  BY TypeStep DEF AgreeInv, TypeOK
<1>3. QED
  BY <1>1, <1>2 DEF AgreeInv

LEMMA TimersAgree ==
  ASSUME AgreeInv, IInv', NEW p \in Pages, NEW c \in Controls,
         HandleTask(p, c) \/ (RepeatEnd(p, c) /\ c \notin on[p])
  PROVE  AgreeInv'
<1>1. TypeOK /\ runs \subseteq Controls
  BY DEF AgreeInv, TypeOK
<1>2. UNCHANGED <<on, signed, up, down, asked, srv, apart, runs>>
  BY DEF HandleTask, RepeatEnd, server
<1>3. timers' \in [Pages -> [Controls -> Nat]]
  <2>1. \/ timers' = timers \/ timers' = [timers EXCEPT ![p][c] = @ + 1]
        \/ timers[p][c] > 0 /\ timers' = [timers EXCEPT ![p][c] = @ - 1]
    BY DEF HandleTask, RepeatEnd
  <2>2. CASE timers' = timers
    BY <1>1, <2>2 DEF TypeOK
  <2>3. CASE timers' = [timers EXCEPT ![p][c] = @ + 1]
    BY ONLY <1>1, <2>3, TimersMore
  <2>4. CASE timers[p][c] > 0 /\ timers' = [timers EXCEPT ![p][c] = @ - 1]
    BY ONLY <1>1, <2>4, TimersLess
  <2>5. QED
    BY <2>1, <2>2, <2>3, <2>4
<1>4. QED
  BY <1>1, <1>2, <1>3, QuietStep

LEMMA LockAgrees ==
  ASSUME AgreeInv, IInv', NEW p \in Pages, Lock(p) \/ Unlock(p)
  PROVE  AgreeInv'
BY QuietStep DEF Lock, Unlock, server, AgreeInv, TypeOK

LEMMA RunEndsAgrees ==
  ASSUME AgreeInv, IInv', NEW c \in Controls, RunEnds(c)
  PROVE  AgreeInv'
BY QuietStep DEF RunEnds, page, AgreeInv, TypeOK

LEMMA StutterAgrees ==
  ASSUME AgreeInv, IInv', UNCHANGED vars
  PROVE  AgreeInv'
BY QuietStep DEF vars, AgreeInv, TypeOK

(* A request that fails turns a remote control off, which is not covered.  *)
LEMMA RemoteTimeoutAgrees ==
  ASSUME AgreeInv, IInv', NEW p \in Pages, NEW c \in Controls, RemoteTimeout(p, c)
  PROVE  AgreeInv'
<1>1. TypeOK /\ Sayable /\ (~apart => InStep) /\ AskedRemote
  BY DEF AgreeInv, IInv
<1>2. /\ c \in asked[p] /\ asked' = [asked EXCEPT ![p] = @ \ {c}]
      /\ UNCHANGED <<signed, timers, up, down, srv, runs, apart>>
      /\ on' = [on EXCEPT ![p] = on[p] \ {c}]
  BY DEF RemoteTimeout, Switched, server
<1>3. \A d \in Covered : d \in on[p] \ {c} <=> d \in on[p]
  BY <1>1, <1>2, CoveredFacts DEF AskedRemote
<1>4. ~apart' => InStep'
  BY <1>1, <1>2, <1>3, AloneHolds
<1>5. Sayable'
  BY <1>1, <1>2 DEF Sayable
<1>6. on' \in [Pages -> SUBSET Controls] /\ asked' \in [Pages -> SUBSET Controls]
  BY <1>1, <1>2 DEF TypeOK
<1>7. TypeOK'
  BY <1>1, <1>2, <1>6, TypeStep DEF TypeOK
<1>8. QED
  BY <1>4, <1>5, <1>7 DEF AgreeInv

-----------------------------------------------------------------------------
(* Connections.                                                            *)
LEMMA LeaveAgrees ==
  ASSUME AgreeInv, IInv', NEW p \in Pages, Disconnect(p) \/ Refused(p)
  PROVE  AgreeInv'
<1>1. TypeOK /\ Sayable /\ (~apart => InStep)
  BY DEF AgreeInv
<1>2. /\ p \in signed /\ signed' = signed \ {p}
      /\ up' = [up EXCEPT ![p] = <<>>]
      /\ UNCHANGED <<timers, srv, runs, apart>>
  BY DEF Disconnect, Refused, server, page
<1>3. PICK S \in SUBSET Controls : on' = [on EXCEPT ![p] = S]
  <2>1. on' = [on EXCEPT ![p] = on[p] \ asked[p]] \/ on' = [on EXCEPT ![p] = on[p]]
    BY <1>1 DEF Disconnect, Refused, page, TypeOK
  <2>2. QED
    BY <1>1, <2>1 DEF TypeOK
<1>4. PICK D \in Seq(Messages) : (D = <<>> \/ D = down[p]) /\ down' = [down EXCEPT ![p] = D]
  <2>1. down' = [down EXCEPT ![p] = <<>>] \/ down' = [down EXCEPT ![p] = down[p]]
    BY <1>1 DEF Disconnect, Refused, TypeOK
  <2>2. <<>> \in Seq(Messages) /\ down[p] \in Seq(Messages)
    BY <1>1, SeqTypes
  <2>3. QED
    BY <2>1, <2>2
<1>5. ~apart' => InStep'
  BY <1>1, <1>2, <1>3, <1>4, LeaveHolds
<1>6. Sayable'
  <2>1. /\ \A q \in Pages : q # p => up'[q] = up[q] /\ down'[q] = down[q]
        /\ up'[p] = <<>> /\ (down'[p] = <<>> \/ down'[p] = down[p])
    BY <1>1, <1>2, <1>4 DEF TypeOK
  <2>2. \A i : i \notin 1 .. Len(<<>>)
    OBVIOUS
  <2>3. ASSUME NEW q \in Pages, NEW i \in 1 .. Len(up'[q])
        PROVE  q # p /\ i \in 1 .. Len(up[q])
    BY <2>1, <2>2
  <2>4. ASSUME NEW q \in Pages, NEW i \in 1 .. Len(down'[q])
        PROVE  down'[q] = down[q]
    BY <2>1, <2>2
  <2>5. QED
    BY <1>1, <1>2, <2>1, <2>3, <2>4 DEF Sayable
<1>7. TypeOK'
  <2>1. /\ on' \in [Pages -> SUBSET Controls]
        /\ up' \in [Pages -> Seq(Messages)] /\ down' \in [Pages -> Seq(Messages)]
    BY <1>1, <1>2, <1>3, <1>4 DEF TypeOK
  <2>2. asked' \in [Pages -> SUBSET Controls]
    BY <1>1 DEF Disconnect, Refused, TypeOK
  <2>3. QED
    BY <1>1, <1>2, <2>1, <2>2, TypeStep DEF TypeOK
<1>8. QED
  BY <1>5, <1>6, <1>7 DEF AgreeInv

(* Oneshots are never stored, so that none is replayed.                    *)
LEMMA AuthorizeAgrees ==
  ASSUME AgreeInv, IInv', NEW p \in Pages, Authorize(p)
  PROVE  AgreeInv'
<1>1. TypeOK /\ Sayable /\ (~apart => InStep) /\ srv \in SUBSET Controls
  BY DEF AgreeInv, TypeOK
<1>2. /\ p \notin signed /\ signed' = signed \union {p}
      /\ on' = [on EXCEPT ![p] = {}]
      /\ UNCHANGED <<timers, up, asked, srv, runs, apart>>
  BY DEF Authorize, server
<1>3. PICK order \in SetToSeqs(srv) :
        down' = [down EXCEPT ![p] = [i \in DOMAIN order |-> Told(order[i], "switched-on")]]
  BY DEF Authorize
<1>4. PICK s : /\ s = [i \in DOMAIN order |-> Told(order[i], "switched-on")]
               /\ down' = [down EXCEPT ![p] = s]
  BY <1>3
<1>5. /\ s \in Seq(Messages)
      /\ \A i \in 1 .. Len(s) : s[i].ctrl \in srv /\ s[i].state = "switched-on"
      /\ \A c : Turns(s, Len(s), c, {}, srv)
  BY <1>1, <1>4, ReplayFacts
<1>6. ~apart' => InStep'
  BY <1>1, <1>2, <1>4, <1>5, JoinHolds
<1>7. Sayable'
  <2>1. down'[p] = s /\ \A q \in Pages : q # p => down'[q] = down[q]
    BY <1>1, <1>4 DEF TypeOK
  <2>2. QED
    BY <1>1, <1>2, <1>5, <2>1 DEF Sayable
<1>8. TypeOK'
  <2>1. on' \in [Pages -> SUBSET Controls] /\ down' \in [Pages -> Seq(Messages)]
    BY <1>1, <1>2, <1>4, <1>5 DEF TypeOK
  <2>2. QED
    BY <1>1, <1>2, <2>1, TypeStep DEF TypeOK
<1>9. QED
  BY <1>6, <1>7, <1>8 DEF AgreeInv

-----------------------------------------------------------------------------
(* Messages that come in and go out.                                       *)
LEMMA ServeAgrees ==
  ASSUME AgreeInv, IInv', NEW p \in Pages, Serve(p)
  PROVE  AgreeInv'
<1>1. TypeOK /\ Sayable /\ (~apart => InStep) /\ signed \subseteq Pages
  BY DEF AgreeInv, TypeOK
<1> DEFINE m == Head(up[p])
<1>2. /\ up[p] # <<>> /\ (ServeKb(p, m) \/ ServeRepeat(p, m))
      /\ up' = [up EXCEPT ![p] = Tail(up[p])]
      /\ UNCHANGED <<on, timers, signed, asked, apart>>
  BY DEF Serve, page
<1>3. /\ m \in Messages /\ m = up[p][1] /\ Tail(up[p]) \in Seq(Messages)
      /\ Len(up[p]) \in Nat /\ 1 \in 1 .. Len(up[p]) /\ Len(Tail(up[p])) = Len(up[p]) - 1
      /\ \A k \in 1 .. Len(Tail(up[p])) : Tail(up[p])[k] = up[p][k + 1]
  BY <1>1, <1>2, SeqTypes, TailFacts
<1> HIDE DEF m
<1>4. /\ m.ctrl \in Controls
      /\ \/ m.state = "switched-off" /\ m = Off(m.ctrl)
         \/ m.state = "switched-on" /\ m = On(m.ctrl) /\ Class[m.ctrl] # "oneshot"
  <2>1. \/ m.state = "switched-off"
        \/ m.state = "switched-on" /\ Class[m.ctrl] # "oneshot"
    BY <1>1, <1>3 DEF Sayable
  <2>2. QED
    BY <1>3, <2>1, ToldIs DEF Messages
<1>5. /\ Stored(m) \subseteq Controls
      /\ \A c \in Stored(m) : Class[c] # "oneshot"
      /\ \A c : c # m.ctrl => (c \in Stored(m) <=> c \in srv)
      /\ \/ m = On(m.ctrl) /\ m.ctrl \in Stored(m)
         \/ m = Off(m.ctrl) /\ m.ctrl \notin Stored(m)
  BY <1>1, <1>4 DEF Stored, TypeOK, Sayable
<1>6. \A q \in Pages :
        Notified(p, m)[q] = IF q \in signed \ {p} THEN Append(down[q], m) ELSE down[q]
  BY DEF Notified
(* What is passed on is the message itself, or an answer about a remote    *)
(* control.                                                                *)
<1>7. /\ srv' = srv \/ srv' = Stored(m)
      /\ runs' \subseteq Controls
      /\ down' = [q \in Pages |-> down'[q]]
      /\ \A q \in Pages :
           \/ down'[q] = down[q]
           \/ \E n \in Messages : /\ n.ctrl = m.ctrl /\ down'[q] = Append(down[q], n)
                                  /\ n = m \/ Class[n.ctrl] = "remote"
      /\ m.ctrl \in Covered =>
           /\ srv' = Stored(m)
           /\ \A q \in Pages :
                down'[q] = IF q \in signed \ {p} THEN Append(down[q], m) ELSE down[q]
  <2>1. CASE ServeKb(p, m)
    <3>1. /\ srv' = Stored(m) /\ down' = Notified(p, m) /\ runs' = runs
      BY <2>1 DEF ServeKb
    <3>2. \A q \in Pages : down'[q] = IF q \in signed \ {p} THEN Append(down[q], m) ELSE down[q]
      BY <1>6, <3>1
    <3>3. down' = [q \in Pages |-> down'[q]]
      BY <3>1 DEF Notified
    <3>4. QED
      BY <1>1, <1>3, <3>1, <3>2, <3>3 DEF TypeOK
  <2>2. CASE ServeRepeat(p, m)
    <3>1. Class[m.ctrl] = "remote" /\ m.ctrl \notin Covered
      BY <2>2, CoveredFacts DEF ServeRepeat
    <3>2. /\ Told(m.ctrl, "accepted") \in Messages /\ Told(m.ctrl, "accepted").ctrl = m.ctrl
          /\ Told(m.ctrl, "rejected") \in Messages /\ Told(m.ctrl, "rejected").ctrl = m.ctrl
      BY <1>4 DEF Told, Messages
    <3>3. CASE /\ runs' \in {runs \union {m.ctrl}, runs \ {m.ctrl}}
               /\ srv' = Stored(m)
               /\ down' = [Notified(p, m) EXCEPT ![p] = Append(@, Told(m.ctrl, "accepted"))]
      <4>1. down' = [q \in Pages |-> down'[q]]
        BY <3>3 DEF Notified
      <4>2. /\ down'[p] = Append(down[p], Told(m.ctrl, "accepted"))
            /\ \A q \in Pages : q # p => down'[q] = Notified(p, m)[q]
        BY <1>6, <3>3 DEF Notified
      <4>3. runs' \subseteq Controls
        BY <1>1, <1>4, <3>3 DEF TypeOK
      <4>4. ASSUME NEW q \in Pages
            PROVE  \/ down'[q] = down[q]
                   \/ \E n \in Messages : /\ n.ctrl = m.ctrl /\ down'[q] = Append(down[q], n)
                                          /\ n = m \/ Class[n.ctrl] = "remote"
        <5>1. CASE q = p
          BY <3>1, <3>2, <4>2, <5>1
        <5>2. CASE q # p
          BY <1>3, <1>6, <4>2, <5>2
        <5>3. QED
          BY <5>1, <5>2
      <4>5. QED
        BY <3>1, <3>3, <4>1, <4>3, <4>4
    <3>4. CASE /\ runs' = runs /\ srv' = srv
               /\ down' = [down EXCEPT ![p] = Append(@, Told(m.ctrl, "rejected"))]
      <4>1. /\ down' = [q \in Pages |-> down'[q]]
            /\ down'[p] = Append(down[p], Told(m.ctrl, "rejected"))
            /\ \A q \in Pages : q # p => down'[q] = down[q]
        BY <1>1, <3>4 DEF TypeOK
      <4>2. QED
        BY <1>1, <3>1, <3>2, <3>4, <4>1 DEF TypeOK
    <3>5. QED
      BY <2>2, <3>3, <3>4 DEF ServeRepeat, server
  <2>3. QED
    BY <1>2, <2>1, <2>2
<1>8. ~apart' => InStep'
  <2> SUFFICES ASSUME ~apart'
               PROVE  InStep'
    OBVIOUS
  <2>1. InStep
    BY <1>1, <1>2
  <2>2. \A c \in Covered : c # m.ctrl => (c \in srv' <=> c \in srv)
    BY <1>5, <1>7
  <2>3. m.ctrl \in Covered =>
          /\ \A q \in Pages :
               down'[q] = IF q \in signed \ {p} THEN Append(down[q], m) ELSE down[q]
          /\ \/ m = On(m.ctrl) /\ m.ctrl \in srv'
             \/ m = Off(m.ctrl) /\ m.ctrl \notin srv'
    BY <1>5, <1>7
  <2>4. \A q \in Pages : \/ down'[q] = down[q]
                         \/ \E n \in Messages : /\ n.ctrl = m.ctrl
                                                /\ down'[q] = Append(down[q], n)
    BY <1>7
  <2>5. m = Head(up[p]) /\ UNCHANGED <<on, signed>>
    BY <1>2 DEF m
  <2>6. QED
    BY <1>1, <1>2, <2>1, <2>2, <2>3, <2>4, <2>5, ServedHolds
<1>9. Sayable'
  <2>1. /\ up'[p] = Tail(up[p]) /\ \A q \in Pages : q # p => up'[q] = up[q]
    BY <1>1, <1>2 DEF TypeOK
  <2>2. \A q \in Pages : q \notin signed' => up'[q] = <<>>
    BY <1>1, <1>2, <2>1 DEF Sayable
  <2>3. ASSUME NEW q \in Pages, NEW i \in 1 .. Len(up'[q])
        PROVE  \/ up'[q][i].state = "switched-off"
               \/ up'[q][i].state = "switched-on" /\ Class[up'[q][i].ctrl] # "oneshot"
    <3>1. CASE q # p
      BY <1>1, <2>1, <3>1 DEF Sayable
    <3>2. CASE q = p
      <4>1. i \in 1 .. Len(Tail(up[p])) /\ up'[q][i] = Tail(up[p])[i]
        BY <2>1, <2>3, <3>2
      <4>2. i + 1 \in 1 .. Len(up[p]) /\ Tail(up[p])[i] = up[p][i + 1]
        BY <1>3, <4>1
      <4>3. QED
        BY <1>1, <4>1, <4>2 DEF Sayable
    <3>3. QED
      BY <3>1, <3>2
  <2>4. ASSUME NEW q \in Pages, NEW i \in 1 .. Len(down'[q])
        PROVE  \/ Class[down'[q][i].ctrl] = "remote"
               \/ down'[q][i].state = "switched-off"
               \/ down'[q][i].state = "switched-on" /\ Class[down'[q][i].ctrl] # "oneshot"
    <3>1. CASE down'[q] = down[q]
      BY <1>1, <3>1 DEF Sayable
    <3>2. CASE down'[q] # down[q]
      <4>1. PICK n \in Messages : /\ down'[q] = Append(down[q], n)
                                  /\ n = m \/ Class[n.ctrl] = "remote"
        BY <1>7, <3>2
      <4>2. /\ Len(down[q]) \in Nat /\ Len(down'[q]) = Len(down[q]) + 1
            /\ \A k \in 1 .. Len(down[q]) : down'[q][k] = down[q][k]
            /\ down'[q][Len(down[q]) + 1] = n
        BY <1>1, <4>1, SeqTypes, AppendSays
      <4>3. CASE i \in 1 .. Len(down[q])
        BY <1>1, <4>2, <4>3 DEF Sayable
      <4>4. CASE i \notin 1 .. Len(down[q])
        <5>1. down'[q][i] = n
          BY <4>2, <4>4
        <5>2. QED
          BY <1>4, <4>1, <5>1
      <4>5. QED
        BY <4>3, <4>4
    <3>3. QED
      BY <3>1, <3>2
  <2>5. \A c \in srv' : Class[c] # "oneshot"
    BY <1>1, <1>5, <1>7 DEF Sayable
  <2>6. QED
    BY <2>2, <2>3, <2>4, <2>5 DEF Sayable
<1>10. TypeOK'
  <2>1. up' \in [Pages -> Seq(Messages)]
    BY <1>1, <1>2, <1>3 DEF TypeOK
  <2>2. ASSUME NEW q \in Pages
        PROVE  down'[q] \in Seq(Messages)
    <3>1. down[q] \in Seq(Messages)
      BY <1>1, SeqTypes
    <3>2. CASE down'[q] # down[q]
      <4>1. PICK n \in Messages : down'[q] = Append(down[q], n)
        BY <1>7, <3>2
      <4>2. QED
        BY <3>1, <4>1, AppendSays
    <3>3. QED
      BY <3>1, <3>2
  <2>3. down' \in [Pages -> Seq(Messages)]
    BY <1>7, <2>2
  <2>4. srv' \subseteq Controls
    BY <1>1, <1>5, <1>7 DEF TypeOK
  <2>5. QED
    BY <1>1, <1>2, <1>7, <2>1, <2>3, <2>4, TypeStep DEF TypeOK
<1>11. QED
  BY <1>8, <1>9, <1>10 DEF AgreeInv

(* The rivals of what the server turns on are off already, on a page that  *)
(* is in step: a group is not turned off a second time, untold.            *)
LEMMA ApplyAgrees ==
  ASSUME AgreeInv, IInv', NEW p \in Pages, Apply(p)
  PROVE  AgreeInv'
<1>1. TypeOK /\ Sayable /\ (~apart => InStep)
  BY DEF AgreeInv
<1> DEFINE m == Head(down[p])
<1>2. /\ down[p] # <<>> /\ Applied(p, m)
      /\ asked' = asked \/ asked' = [asked EXCEPT ![p] = @ \ {m.ctrl}]
      /\ down' = [down EXCEPT ![p] = Tail(down[p])]
      /\ UNCHANGED <<signed, timers, up, srv, runs, apart>>
  BY DEF Apply, server
<1>3. /\ m \in Messages /\ m = down[p][1] /\ Tail(down[p]) \in Seq(Messages)
      /\ Len(down[p]) \in Nat /\ 1 \in 1 .. Len(down[p])
      /\ Len(Tail(down[p])) = Len(down[p]) - 1
      /\ \A k \in 1 .. Len(Tail(down[p])) : Tail(down[p])[k] = down[p][k + 1]
  BY <1>1, <1>2, SeqTypes, TailFacts
<1>4. m = Head(down[p])
  OBVIOUS
<1> HIDE DEF m
<1>5. /\ m.ctrl \in Controls
      /\ m.state = "switched-on" => m = On(m.ctrl)
      /\ m.state = "switched-off" => m = Off(m.ctrl)
      /\ m.ctrl \in Covered => \/ m.state = "switched-off"
                               \/ m.state = "switched-on" /\ Class[m.ctrl] # "oneshot"
  <2>1. \/ Class[m.ctrl] = "remote" \/ m.state = "switched-off"
        \/ m.state = "switched-on" /\ Class[m.ctrl] # "oneshot"
    BY <1>1, <1>3 DEF Sayable
  <2>2. QED
    BY <1>3, <2>1, ToldIs, CoveredFacts DEF Messages
<1>6. PICK S \in SUBSET Controls :
        /\ on' = [on EXCEPT ![p] = S]
        /\ \/ /\ m.state = "switched-on" /\ m.ctrl \notin on[p]
              /\ S = (on[p] \ Members(p, m.ctrl)) \union {m.ctrl}
           \/ /\ m.state = "switched-off" \/ m.state = "rejected"
              /\ S = on[p] \ {m.ctrl}
           \/ /\ m.state = "switched-on" => m.ctrl \in on[p]
              /\ m.state # "switched-off"
              /\ S = on[p]
  <2>1. on[p] \in SUBSET Controls /\ on = [on EXCEPT ![p] = on[p]]
    BY <1>1 DEF TypeOK
  <2>2. CASE m.state = "switched-on" /\ m.ctrl \notin on[p]
    <3>1. on' = [on EXCEPT ![p] = (on[p] \ Members(p, m.ctrl)) \union {m.ctrl}]
      BY <1>2, <2>2 DEF Applied, Switched
    <3>2. (on[p] \ Members(p, m.ctrl)) \union {m.ctrl} \in SUBSET Controls
      BY <1>5, <2>1
    <3>3. QED
      BY <2>2, <3>1, <3>2
  <2>3. CASE m.state = "switched-off" \/ (m.state = "rejected" /\ m.ctrl \in asked[p])
    <3>1. Switched(p, {m.ctrl}, {})
      BY <1>2, <2>3 DEF Applied
    <3>2. on' = [on EXCEPT ![p] = on[p] \ {m.ctrl}] /\ on[p] \ {m.ctrl} \in SUBSET Controls
      BY <2>1, <3>1 DEF Switched
    <3>3. QED
      BY <2>3, <3>2
  <2>4. CASE /\ ~(m.state = "switched-on" /\ m.ctrl \notin on[p])
             /\ ~(m.state = "switched-off" \/ (m.state = "rejected" /\ m.ctrl \in asked[p]))
    <3>1. on' = on
      BY <1>2, <2>4 DEF Applied
    <3>2. QED
      BY <2>1, <2>4, <3>1
  <2>5. QED
    BY <2>2, <2>3, <2>4
<1>7. ~apart' => InStep'
  <2> SUFFICES ASSUME ~apart'
               PROVE  InStep'
    OBVIOUS
  <2>1. InStep
    BY <1>1, <1>2
  <2>2. ASSUME p \in signed, m.state = "switched-on", NEW d \in Covered
        PROVE  d \notin Members(p, m.ctrl)
    <3> SUFFICES ASSUME d \in Members(p, m.ctrl)
                 PROVE  FALSE
      OBVIOUS
    <3>1. d \in on[p] /\ d # m.ctrl /\ Mates(m.ctrl, d) /\ Mates(d, m.ctrl) /\ IsSwitch(d)
      BY DEF Members, Mates
    <3>2. m.ctrl \in Covered /\ Class[m.ctrl] \in {"switch", "oneshot"}
      BY <1>5, <3>1, CoveredFacts
    <3>3. Class[m.ctrl] = "switch"
      BY <1>5, <2>2, <3>2
    <3>4. Rivals(d, m.ctrl)
      BY <3>1, <3>3 DEF Rivals, IsSwitch
    <3>5. down[p][1] = On(m.ctrl)
      BY <1>3, <1>5, <2>2
    <3>6. Turns(down[p], 1 - 1, d, on[p], {})
      BY <1>3, <2>1, <2>2, <3>2, <3>4, <3>5 DEF InStep, PagesTurnOffFirst
    <3>7. Turns(down[p], 0, d, on[p], {})
      BY <3>6
    <3>8. QED
      BY <3>1, <3>7, TurnsNothing
  <2>3. ASSUME p \in signed, NEW d \in Covered
        PROVE  \/ m.ctrl # d /\ (d \in S <=> d \in on[p])
               \/ m = On(d) /\ d \in S
               \/ m = Off(d) /\ d \notin S
    <3>1. CASE m.ctrl = d
      BY <1>5, <1>6, <3>1
    <3>2. CASE m.ctrl # d
      BY <1>6, <2>2, <2>3, <3>2
    <3>3. QED
      BY <3>1, <3>2
  <2>4. UNCHANGED <<up, srv, signed>>
    BY <1>2
  <2>5. QED
    BY <1>1, <1>2, <1>4, <1>6, <2>1, <2>3, <2>4, ReadHolds
<1>8. Sayable'
  <2>1. /\ down'[p] = Tail(down[p]) /\ \A q \in Pages : q # p => down'[q] = down[q]
    BY <1>1, <1>2 DEF TypeOK
  <2>2. ASSUME NEW q \in Pages, NEW i \in 1 .. Len(down'[q])
        PROVE  \E k \in 1 .. Len(down[q]) : down'[q][i] = down[q][k]
    <3>1. CASE q # p
      BY <2>1, <2>2, <3>1
    <3>2. CASE q = p
      <4>1. i \in 1 .. Len(Tail(down[p])) /\ down'[q][i] = Tail(down[p])[i]
        BY <2>1, <2>2, <3>2
      <4>2. i + 1 \in 1 .. Len(down[p]) /\ Tail(down[p])[i] = down[p][i + 1]
        BY <1>3, <4>1
      <4>3. QED
        BY <3>2, <4>1, <4>2
    <3>3. QED
      BY <3>1, <3>2
  <2>3. QED
    BY <1>1, <1>2, <2>2 DEF Sayable
<1>9. TypeOK'
  <2>1. on' \in [Pages -> SUBSET Controls] /\ down' \in [Pages -> Seq(Messages)]
    BY <1>1, <1>2, <1>3, <1>6 DEF TypeOK
  <2>2. asked' \in [Pages -> SUBSET Controls]
    BY <1>1, <1>2 DEF TypeOK
  <2>3. QED
    BY <1>1, <1>2, <2>1, <2>2, TypeStep DEF TypeOK
<1>10. QED
  BY <1>7, <1>8, <1>9 DEF AgreeInv

-----------------------------------------------------------------------------
LEMMA InitAgrees == Init => AgreeInv
<1> SUFFICES ASSUME Init PROVE AgreeInv
  OBVIOUS
<1>1. IInv
  BY InitHolds
<1>2. TypeOK
  <2>1. <<>> \in Seq(Messages)
    OBVIOUS
  <2>2. task \in [Pages -> [Controls -> TaskRecords]]
    BY <1>1 DEF IInv, Shape
  <2>3. QED
    BY <2>1, <2>2 DEF Init, TypeOK, TaskRecords
<1>3. /\ signed = {} /\ srv = {}
      /\ \A p \in Pages : up[p] = <<>> /\ down[p] = <<>> /\ on[p] = {}
  BY DEF Init
<1>4. \A p \in Pages : Len(up[p]) = 0 /\ Len(down[p]) = 0
  BY <1>3
<1>5. Sayable
  BY <1>3, <1>4 DEF Sayable
<1>6. InStep
  <2>1. /\ \A p \in Pages : \A c : Silent(up[p], c) /\ ~Says(up[p], On(c))
        /\ \A p \in Pages : \A i : i \notin 1 .. Len(up[p])
    BY <1>4, NothingSays
  <2>2. SaidIsShown
    BY <1>4, TurnsNothing DEF SaidIsShown
  <2>3. QED
    BY <1>3, <2>1, <2>2 DEF InStep, ReadersFollow, SpeakersAreLeft, OneTurnsOn, NobodyAnswers,
       ServerTurnsOffFirst, PagesTurnOffFirst, ServerHoldsOne
<1>7. QED
  BY <1>1, <1>2, <1>5, <1>6 DEF AgreeInv

LEMMA StepAgrees == AgreeInv /\ [Next]_vars => AgreeInv'
<1> SUFFICES ASSUME AgreeInv, [Next]_vars PROVE AgreeInv'
  OBVIOUS
<1>1. IInv'
  BY StepHolds DEF AgreeInv
<1>2. ASSUME NEW p \in Pages, NEW c \in Controls,
             \/ Tap(p, c) \/ LongTap(p, c) \/ Restore(p, c)
             \/ HandleTask(p, c) \/ RepeatEnd(p, c) \/ RemoteTimeout(p, c)
      PROVE  AgreeInv'
  BY <1>1, <1>2, TapAgrees, LongTapAgrees, TimerAgrees, TimersAgree, RemoteTimeoutAgrees
<1>3. ASSUME NEW p \in Pages,
             Disconnect(p) \/ Refused(p) \/ Authorize(p) \/ Apply(p) \/ Serve(p)
      PROVE  AgreeInv'
  BY <1>1, <1>3, LeaveAgrees, AuthorizeAgrees, ApplyAgrees, ServeAgrees
<1>4. ASSUME NEW p \in Pages, Lock(p) \/ Unlock(p)
      PROVE  AgreeInv'
  BY <1>1, <1>4, LockAgrees
<1>5. ASSUME NEW c \in Controls, RunEnds(c)
      PROVE  AgreeInv'
  BY <1>1, <1>5, RunEndsAgrees
<1>6. CASE UNCHANGED vars
  BY <1>1, <1>6, StutterAgrees
<1>7. QED
  BY <1>2, <1>3, <1>4, <1>5, <1>6 DEF Next

(* What the pages show, what they have under way and what the server holds *)
(* fit together, as long as no two pages spoke at once.                    *)
THEOREM PagesKeepInStep == Spec => []AgreeInv
BY InitAgrees, StepAgrees, PTL DEF Spec

(* Once all messages have arrived, every page that is signed in shows of   *)
(* the covered controls what the server holds.                             *)
THEOREM PagesAgree == Spec => []StatesAgree
<1>1. ASSUME AgreeInv, Quiet, ~apart, NEW p \in signed, NEW c \in Covered
      PROVE  c \in on[p] <=> c \in srv
  <2>1. p \in Pages /\ Len(up[p]) = 0 /\ Len(down[p]) = 0
    BY <1>1 DEF AgreeInv, TypeOK, Quiet
  <2>2. Turns(down[p], 0, c, on[p], srv)
    BY <1>1, <2>1, NothingSays DEF AgreeInv, InStep, ReadersFollow
  <2>3. QED
    BY <2>2, TurnsNothing
<1>2. AgreeInv => StatesAgree
  BY <1>1 DEF StatesAgree, Agreement, AgreeInv
<1>3. QED
  BY <1>2, PagesKeepInStep, PTL
=============================================================================
