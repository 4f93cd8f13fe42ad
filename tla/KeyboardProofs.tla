---------------------------- MODULE KeyboardProofs ----------------------------
(***************************************************************************)
(* Proofs about CompositeTask: the keyboard task and direct access never   *)
(* hold the joystick together, whatever commands clients send, so that its *)
(* axes stay where a command put them; and someone who only uses the       *)
(* keyboard always sees the dangling keys, and no others, at rest.         *)
(***************************************************************************)
EXTENDS MCKeyboard, FiniteSetTheorems, SequenceTheorems, WellFoundedInduction, TLAPS

(* -------------------- The axes of the joystick ------------------------- *)

AxesTypes ==
  /\ queue \in Seq(Commands)
  /\ cmd \in Commands \union {None}
  /\ axesLeft \subseteq Axes
  /\ locked \in BOOLEAN
  /\ axis \in [Axes -> Positions]
  /\ wish \in Positions

(* Who holds the joystick's mutex, and which axes are written so far.      *)
Locks ==
  /\ jsMutex = "task" => locked = TRUE
  /\ locked = TRUE => jsMutex = "task"
  /\ jsMutex = "httpd" => direct \in {"write", "report"}
  /\ direct \in {"write", "report"} => jsMutex = "httpd"

Written ==
  /\ axesLeft # {} => pc = "collect"
  /\ pc = "wait" => locked = FALSE
  /\ locked = FALSE => axesLeft \in {{}, Axes}
  /\ locked = TRUE => \A a \in Axes : a \notin axesLeft => axis[a] = cmd.to

AxesInv == AxesTypes /\ Locks /\ Written

LEMMA CommandFacts ==
  /\ \A c \in Commands : /\ c.keys \subseteq Buttons /\ IsFiniteSet(c.keys)
                        /\ c.moves \subseteq Devices /\ c.to \in Positions
                        /\ c.text \in Seq(Buttons)
  /\ None.to \in Positions /\ Center \in Positions /\ Widgets \subseteq Positions
BY CommandAssumption, AxisAssumption DEF CommandType, None

LEMMA AxesInitHolds == Init => AxesInv
<1> SUFFICES ASSUME Init PROVE AxesInv
  OBVIOUS
<1>1. axis \in [Axes -> Positions] /\ wish \in Positions
  BY CommandFacts DEF Init
<1>2. queue \in Seq(Commands) /\ cmd \in Commands \union {None}
  BY DEF Init
<1>3. axesLeft \subseteq Axes /\ locked \in BOOLEAN
  BY DEF Init
<1>4. AxesTypes
  BY <1>1, <1>2, <1>3 DEF AxesTypes
<1>5. Locks /\ Written
  BY DEF Init, Locks, Written
<1>6. QED
  BY <1>4, <1>5 DEF AxesInv

(* Steps that leave the axes, their lock and the command alone.            *)
LEMMA AxesStay ==
  ASSUME AxesInv, UNCHANGED <<cmd, axesLeft, locked, axis, wish, jsMutex, direct>>,
         queue' \in Seq(Commands), pc' = "wait" => pc = "wait", axesLeft # {} => pc' = pc
  PROVE  AxesInv'
<1>1. AxesTypes'
  BY DEF AxesInv, AxesTypes
<1>2. Locks'
  BY DEF AxesInv, Locks
<1>3. Written'
  BY DEF AxesInv, Written
<1>4. QED
  BY <1>1, <1>2, <1>3 DEF AxesInv

LEMMA PopAxes == AxesInv /\ Pop => AxesInv'
<1> SUFFICES ASSUME AxesInv, Pop PROVE AxesInv'
  OBVIOUS
<1>1. Head(queue) \in Commands /\ Tail(queue) \in Seq(Commands)
  BY DEF AxesInv, AxesTypes, Pop
<1>2. AxesTypes'
  <2>1. queue' \in Seq(Commands) /\ cmd' \in Commands \union {None}
    BY <1>1 DEF Pop
  <2>2. axesLeft' \subseteq Axes
    BY DEF Pop
  <2>3. QED
    BY <2>1, <2>2 DEF AxesInv, AxesTypes, Pop, deviceVars
<1>3. Locks' /\ Written'
  BY DEF AxesInv, Locks, Written, Pop, deviceVars
<1>4. QED
  BY <1>2, <1>3 DEF AxesInv

LEMMA CollectAxes == AxesInv /\ CollectAxis => AxesInv'
<1> SUFFICES ASSUME AxesInv, CollectAxis PROVE AxesInv'
  OBVIOUS
<1>1. PICK a \in axesLeft : /\ \A other \in axesLeft : a <= other
                            /\ locked = TRUE \/ jsMutex = "free"
                            /\ axis' = [axis EXCEPT ![a] = cmd.to]
                            /\ axesLeft' = axesLeft \ {a}
  BY DEF CollectAxis, AxesInv, AxesTypes
<1>2. cmd.to \in Positions
  BY CommandFacts DEF AxesInv, AxesTypes
<1>3. AxesTypes'
  BY <1>1, <1>2 DEF AxesInv, AxesTypes, CollectAxis
<1>4. jsMutex # "httpd"
  BY <1>1 DEF AxesInv, Locks
<1>5. Locks'
  BY <1>4 DEF AxesInv, Locks, CollectAxis
<1>6. Written'
  <2>1. pc' = "collect"
    BY DEF CollectAxis
  <2>2. ASSUME NEW b \in Axes, b \notin axesLeft'
        PROVE  axis'[b] = cmd'.to
    <3>1. CASE b = a
      BY <1>1, <3>1 DEF AxesInv, AxesTypes, CollectAxis
    <3>2. CASE b # a
      <4>1. axis'[b] = axis[b] /\ b \notin axesLeft
        BY <1>1, <2>2, <3>2 DEF AxesInv, AxesTypes
      <4>2. axesLeft # Axes /\ axesLeft # {}
        BY <2>2, <4>1
      <4>3. locked = TRUE
        BY <4>2 DEF AxesInv, AxesTypes, Written
      <4>4. QED
        BY <4>1, <4>3 DEF AxesInv, Written, CollectAxis
    <3>3. QED
      BY <3>1, <3>2
  <2>3. QED
    BY <2>1, <2>2 DEF Written, CollectAxis
<1>7. QED
  BY <1>3, <1>5, <1>6 DEF AxesInv

LEMMA ExecuteAxes == AxesInv /\ Execute => AxesInv'
<1> SUFFICES ASSUME AxesInv, Execute PROVE AxesInv'
  OBVIOUS
<1>1. axesLeft = {} /\ pc' \in {"finish", "lock"}
  BY DEF Execute, ExecutePress, ExecuteDown, ExecuteUp, Plan
<1>2. UNCHANGED <<queue, cmd, axesLeft, locked, axis, wish, jsMutex, direct>>
  BY DEF Execute, deviceVars
<1>3. queue' \in Seq(Commands)
  BY <1>2 DEF AxesInv, AxesTypes
<1>4. QED
  BY <1>1, <1>2, <1>3, AxesStay

LEMMA FinishAxes == AxesInv /\ Finish => AxesInv'
<1> SUFFICES ASSUME AxesInv, Finish PROVE AxesInv'
  OBVIOUS
<1>1. AxesTypes'
  BY DEF AxesInv, AxesTypes, Finish, deviceVars
<1>2. Locks' /\ Written'
  BY DEF AxesInv, AxesTypes, Locks, Written, Finish, deviceVars
<1>3. QED
  BY <1>1, <1>2 DEF AxesInv

(* The task's other steps: none of them touches an axis.                   *)
LEMMA TaskAxes == AxesInv /\ TaskStep => AxesInv'
<1> SUFFICES ASSUME AxesInv, TaskStep PROVE AxesInv'
  OBVIOUS
<1>1. queue \in Seq(Commands) /\ (axesLeft # {} => pc = "collect")
  BY DEF AxesInv, AxesTypes, Written
<1>2. CASE Idle
  <2>1. pc' # "wait" /\ pc = "wait"
    BY <1>2 DEF Idle, Plan
  <2>2. UNCHANGED <<queue, cmd, axesLeft, locked, axis, wish, jsMutex, direct>>
    BY <1>2 DEF Idle, deviceVars
  <2>3. QED
    BY <1>1, <2>1, <2>2, AxesStay
<1>3. CASE LockFlush \/ Prepare \/ AwaitReady \/ SendReport \/ EndFlush
  <2>1. pc' # "wait" /\ pc # "collect"
    BY <1>3 DEF LockFlush, Prepare, AwaitReady, SendReport, EndFlush
  <2>2. UNCHANGED <<queue, cmd, axesLeft, locked, axis, wish, jsMutex, direct>>
    BY <1>3 DEF LockFlush, Prepare, AwaitReady, SendReport, EndFlush, deviceVars
  <2>3. QED
    BY <1>1, <2>1, <2>2, AxesStay
<1>4. QED
  BY <1>2, <1>3, PopAxes, CollectAxes, ExecuteAxes, FinishAxes DEF TaskStep

(* Direct access writes the axes only while it owns their mutex, that is   *)
(* while no command has it.                                                *)
LEMMA DirectAxes == AxesInv /\ DirectStep => AxesInv'
<1> SUFFICES ASSUME AxesInv, DirectStep PROVE AxesInv'
  OBVIOUS
<1>1. UNCHANGED <<queue, cmd, axesLeft, locked, pc>>
  BY DEF DirectStep, DirectBegin, DirectTry, DirectWrite, DirectRead, DirectEnd, taskVars
<1>2. wish' \in Positions
  BY CommandFacts DEF AxesInv, AxesTypes, DirectStep, DirectBegin, DirectTry, DirectWrite,
     DirectRead, DirectEnd
<1>3. \/ axis' = axis
      \/ locked = FALSE /\ axis' \in [Axes -> Positions]
  <2>1. CASE DirectWrite
    <3>1. jsMutex = "httpd"
      BY <2>1 DEF AxesInv, Locks, DirectWrite
    <3>2. locked = FALSE
      BY <3>1 DEF AxesInv, AxesTypes, Locks
    <3>3. QED
      BY <2>1, <3>2 DEF AxesInv, AxesTypes, DirectWrite
  <2>2. CASE ~DirectWrite
    BY <2>2 DEF DirectStep, DirectBegin, DirectTry, DirectRead, DirectEnd, deviceVars
  <2>3. QED
    BY <2>1, <2>2
<1>4. AxesTypes'
  BY <1>1, <1>2, <1>3 DEF AxesInv, AxesTypes
<1>5. Written'
  BY <1>1, <1>3 DEF AxesInv, Written
<1>6. Locks'
  <2>1. CASE DirectBegin \/ DirectTry \/ DirectRead
    BY <1>1, <2>1 DEF AxesInv, Locks, DirectBegin, DirectTry, DirectRead, BothFree, TakeBoth
  <2>2. CASE DirectWrite \/ DirectEnd
    BY <1>1, <2>2 DEF AxesInv, Locks, DirectWrite, DirectEnd
  <2>3. QED
    BY <2>1, <2>2 DEF DirectStep
<1>7. QED
  BY <1>4, <1>5, <1>6 DEF AxesInv

LEMMA AxesStepHolds == AxesInv /\ [Next]_vars => AxesInv'
<1> SUFFICES ASSUME AxesInv, [Next]_vars PROVE AxesInv'
  OBVIOUS
<1>1. CASE SendCommand
  <2>1. queue' \in Seq(Commands)
    BY <1>1 DEF AxesInv, AxesTypes, SendCommand
  <2>2. UNCHANGED <<cmd, axesLeft, locked, axis, wish, jsMutex, direct, pc>>
    BY <1>1 DEF SendCommand, taskVars, deviceVars
  <2>3. QED
    BY <2>1, <2>2, AxesStay
<1>2. CASE TransferDone \/ UNCHANGED vars
  <2>1. UNCHANGED <<queue, cmd, axesLeft, locked, axis, wish, jsMutex, direct, pc>>
    BY <1>2 DEF TransferDone, vars, taskVars, deviceVars
  <2>2. QED
    BY <2>1, AxesStay DEF AxesInv, AxesTypes
<1>3. QED
  BY <1>1, <1>2, TaskAxes, DirectAxes DEF Next

(* From its last axis to the end of the command that moves it the joystick *)
(* stays where the command put it, for all commands and widgets: the one   *)
(* who writes axes has their mutex, the task in "collect" and direct       *)
(* access between its lock and its report, so a locked device is written   *)
(* by the task alone, and by it only until no axis is left.                *)
THEOREM AxesAreHeld == Spec => []AxesHeld
<1>1. Init => AxesInv
  BY AxesInitHolds
<1>2. AxesInv /\ [Next]_vars => AxesInv'
  BY AxesStepHolds
<1>3. AxesInv => AxesHeld
  <2> SUFFICES ASSUME AxesInv, locked, axesLeft = {} PROVE \A a \in Axes : axis[a] = cmd.to
    BY DEF AxesHeld
  <2>1. locked = TRUE
    BY DEF AxesInv, AxesTypes
  <2>2. QED
    BY <2>1 DEF AxesInv, Written
<1>4. QED
  BY <1>1, <1>2, <1>3, PTL DEF Spec

(* ---------------- Someone who only uses the keyboard -------------------- *)

K == "keyboard"
KeyButtons == {b \in Buttons : DeviceOf[b] = K}

(* What can be dangling, and what a flush of such a user looks like.       *)
HeldCommands == {c \in KeyboardCommands : c.text = <<>> /\ c.keys # {}}

Flushes ==
  [kind : {"push", "release"}, keys : SUBSET KeyButtons, devices : {{}, {K}}]

LEMMA OrderFacts ==
  /\ InOrder(PushOrder, {}) = <<>> /\ InOrder(PushOrder, {K}) = <<K>>
  /\ InOrder(ReleaseOrder, {}) = <<>> /\ InOrder(ReleaseOrder, {K}) = <<K>>
  /\ InOrder(FlagOrder, {K}) = <<K>>
BY DEF InOrder, Only, PushOrder, ReleaseOrder, FlagOrder, K

LEMMA KeyboardFacts ==
  ASSUME NEW c \in KeyboardCommands
  PROVE  /\ c \in Commands
         /\ c.keys \subseteq KeyButtons /\ IsFiniteSet(c.keys)
         /\ c.text \in Seq(KeyButtons)
         /\ ToSet(c.text) \subseteq KeyButtons
         /\ c.keys # {} => Pending(c) = {K}
         /\ c.keys = {} => Pending(c) = {}
<1>1. /\ c \in Commands /\ c.moves = {}
      /\ \A b \in c.keys \union ToSet(c.text) : DeviceOf[b] = K
  BY DEF KeyboardCommands, K
<1>2. c.keys \subseteq Buttons /\ IsFiniteSet(c.keys) /\ c.text \in Seq(Buttons)
  BY <1>1, CommandFacts
<1>3. \A i \in 1 .. Len(c.text) : c.text[i] \in Buttons /\ c.text[i] \in ToSet(c.text)
  BY <1>2 DEF ToSet
<1>4. c.text \in Seq(KeyButtons)
  <2>1. \A i \in 1 .. Len(c.text) : c.text[i] \in KeyButtons
    BY <1>1, <1>3 DEF KeyButtons
  <2>2. QED
    BY <1>2, <2>1
<1>5. ToSet(c.text) \subseteq KeyButtons
  BY <1>4 DEF ToSet
<1>6. Pending(c) = {DeviceOf[b] : b \in c.keys}
  BY <1>1 DEF Pending
<1>7. QED
  BY <1>1, <1>2, <1>4, <1>5, <1>6 DEF KeyButtons

LEMMA OfFacts ==
  ASSUME NEW keys \in SUBSET KeyButtons
  PROVE  Of(keys, K) = keys /\ \A d \in Devices : d # K => Of(keys, d) = {}
BY DEF Of, KeyButtons

(* A finite set has a subset of every smaller size.                        *)
LEMMA SubsetOfSize ==
  ASSUME NEW S, IsFiniteSet(S), NEW n \in Nat, n <= Cardinality(S)
  PROVE  \E T \in SUBSET S : Cardinality(T) = n
<1> DEFINE size == Cardinality(S)
<1>1. size \in Nat /\ \E f : f \in Bijection(1 .. size, S)
  BY FS_CardinalityType DEF ExistsBijection
<1>2. PICK f : f \in Bijection(1 .. size, S)
  BY <1>1
<1>3. f \in [1 .. size -> S] /\ \A i, j \in 1 .. size : f[i] = f[j] => i = j
  BY <1>2 DEF Bijection, Injection, IsInjective
<1> DEFINE T == {f[i] : i \in 1 .. n}
           g == [i \in 1 .. n |-> f[i]]
<1>4. 1 .. n \subseteq 1 .. size
  BY <1>1
<1>5. g \in Bijection(1 .. n, T)
  <2>1. g \in [1 .. n -> T] /\ \A t \in T : \E i \in 1 .. n : g[i] = t
    OBVIOUS
  <2>2. \A i, j \in 1 .. n : g[i] = g[j] => i = j
    BY <1>3, <1>4
  <2> HIDE DEF g, T
  <2>3. g \in Injection(1 .. n, T)
    BY <2>1, <2>2 DEF Injection, IsInjective
  <2>4. g \in Surjection(1 .. n, T)
    BY <2>1 DEF Surjection
  <2>5. QED
    BY <2>3, <2>4 DEF Bijection
<1>6. T \subseteq S
  BY <1>3, <1>4
<1> HIDE DEF T, g
<1>7. IsFiniteSet(1 .. n) /\ Cardinality(1 .. n) = n
  BY FS_Interval
<1>8. Cardinality(T) = n
  BY <1>5, <1>7, FS_Bijection DEF ExistsBijection
<1>9. QED
  BY <1>6, <1>8

(* A set of numbers has a least one: how an induction is carried out here, *)
(* by its least counterexample.                                            *)
LEMMA LeastOfNats ==
  ASSUME NEW T, T \subseteq Nat, T # {}
  PROVE  \E x \in T : \A y \in T : x <= y
<1> DEFINE R == OpToRel(<, Nat)
<1>1. IsWellFoundedOn(R, Nat)
  BY NatLessThanWellFounded
<1>2. \A x, y \in Nat : x < y => <<x, y>> \in R
  BY DEF OpToRel
<1> HIDE DEF R
<1>3. PICK x \in T : \A y \in T : ~ (<<y, x>> \in R)
  BY <1>1, WFMin
<1>4. \A y \in T : ~(y < x)
  BY <1>2, <1>3
<1>5. QED
  BY <1>3, <1>4


(* What Merge does with one more held command. When its keycodes do not    *)
(* fit, the report has all its slots filled afterwards.                    *)
Reports == [keys : SUBSET KeyButtons, slots : 0 .. KeyLimit, devices : {{}, {K}}]
Nothing == [keys |-> {}, slots |-> 0, devices |-> {}]

LEMMA MergeFacts ==
  ASSUME NEW r \in Reports, NEW c \in HeldCommands
  PROVE  /\ Merge(r, c) \in Reports
         /\ Merge(r, c).keys \subseteq r.keys \union c.keys
         /\ \/ Merge(r, c).devices = {K}
            \/ /\ Merge(r, c).devices = r.devices
               /\ Merge(r, c).slots = KeyLimit
               /\ r.slots = KeyLimit => Merge(r, c).keys = r.keys
               /\ r = Nothing => \E b \in c.keys : b \notin Merge(r, c).keys
<1> DEFINE room == KeyLimit - r.slots
           length == Cardinality(c.keys)
<1>1. /\ c.keys \subseteq KeyButtons /\ IsFiniteSet(c.keys) /\ c.keys # {}
      /\ Pending(c) = {K} /\ Of(c.keys, "keyboard") = c.keys
  <2>1. c \in KeyboardCommands /\ c.keys # {}
    BY DEF HeldCommands
  <2>2. c.keys \subseteq KeyButtons /\ IsFiniteSet(c.keys) /\ Pending(c) = {K}
    BY <2>1, KeyboardFacts
  <2>3. QED
    BY <2>1, <2>2, OfFacts DEF K
<1>2. /\ KeyLimit \in Nat /\ room \in Nat /\ length \in Nat /\ length # 0
      /\ r.slots \in 0 .. KeyLimit /\ r.keys \subseteq KeyButtons /\ r.devices \in {{}, {K}}
      /\ r = [keys |-> r.keys, slots |-> r.slots, devices |-> r.devices]
  BY <1>1, LimitAssumption, FS_CardinalityType, FS_EmptySet DEF Reports
<1>3. c.keys \intersect LowJoystick = {}
  BY <1>1, LowAssumption DEF KeyButtons, K, Js
<1>4. CASE length <= room
  <2>1. Merge(r, c) = [keys    |-> r.keys \union c.keys,
                       slots   |-> r.slots + length,
                       devices |-> r.devices \union {K}]
    BY <1>1, <1>3, <1>4 DEF Merge
  <2>2. r.slots + length \in 0 .. KeyLimit
    BY <1>2, <1>4
  <2>3. r.devices \union {K} = {K}
    BY <1>2
  <2> HIDE DEF room, length
  <2>4. QED
    BY <1>1, <1>2, <2>1, <2>2, <2>3 DEF Reports
<1>5. CASE ~(length <= room)
  <2> DEFINE kept == CHOOSE S \in SUBSET c.keys : Cardinality(S) = room
  <2>1. Merge(r, c) = [r EXCEPT !.keys = r.keys \union kept, !.slots = KeyLimit]
    BY <1>1, <1>5 DEF Merge
  <2>2. room <= length
    BY <1>2, <1>5
  <2>3. \E S \in SUBSET c.keys : Cardinality(S) = room
    BY <1>1, <1>2, <2>2, SubsetOfSize
  <2>4. kept \in SUBSET c.keys /\ Cardinality(kept) = room
    BY <2>3
  <2> HIDE DEF kept
  <2>5. IsFiniteSet(kept)
    BY <1>1, <2>4, FS_Subset
  <2>6. r.slots = KeyLimit => kept = {}
    BY <1>2, <2>4, <2>5, FS_EmptySet
  <2>7. kept # c.keys
    BY <1>2, <1>5, <2>4
  <2>8. /\ Merge(r, c).keys = r.keys \union kept
        /\ Merge(r, c).slots = KeyLimit
        /\ Merge(r, c).devices = r.devices
        /\ Merge(r, c) = [keys |-> r.keys \union kept, slots |-> KeyLimit, devices |-> r.devices]
    BY <1>2, <2>1
  <2>9. Merge(r, c) \in Reports
    BY <1>1, <1>2, <2>4, <2>8 DEF Reports
  <2>10. r = Nothing => r.keys = {}
    BY DEF Nothing
  <2> HIDE DEF room, length
  <2>11. QED
    BY <2>4, <2>6, <2>7, <2>8, <2>9, <2>10
<1>6. QED
  BY <1>4, <1>5

KeysOf(list) == UNION {list[i].keys : i \in DOMAIN list}

(* The merge of held commands is a report of keyboard keys. It names no    *)
(* device only if a first command too long for a report left no slot for   *)
(* any other, and then it lacks one of that command's keys. By induction   *)
(* over the commands, through the least counterexample.                    *)
LEMMA MergedFacts ==
  ASSUME NEW list \in Seq(HeldCommands)
  PROVE  /\ MergedOf(list) \in Reports
         /\ list # <<>> /\ MergedOf(list).keys = KeysOf(list) => MergedOf(list).devices = {K}
<1> DEFINE n == Len(list)
           IsFold(f, k) == f = [j \in 0 .. k |-> IF j = 0 THEN Nothing ELSE Merge(f[j - 1], list[j])]
           Lacks(r) == r.slots = KeyLimit /\ \E b \in list[1].keys : b \notin r.keys
           Good(r, k) == /\ r \in Reports
                         /\ k = 0 => r = Nothing
                         /\ k > 0 => r.devices = {K} \/ (r.devices = {} /\ Lacks(r))
<1>0. n \in Nat
  OBVIOUS
<1>1. ASSUME NEW k \in 1 .. n, NEW r, Good(r, k - 1)
      PROVE  Good(Merge(r, list[k]), k)
  <2>1. list[k] \in HeldCommands
    OBVIOUS
  <2>2. r \in Reports
    BY <1>1
  <2> DEFINE s == Merge(r, list[k])
  <2>3. s \in Reports
    BY <2>1, <2>2, MergeFacts
  <2>4. \/ s.devices = {K}
        \/ /\ s.devices = r.devices
           /\ s.slots = KeyLimit
           /\ r.slots = KeyLimit => s.keys = r.keys
           /\ r = Nothing => \E b \in list[k].keys : b \notin s.keys
    BY <2>1, <2>2, MergeFacts
  <2> HIDE DEF s
  <2>5. s.devices = {K} \/ (s.devices = {} /\ Lacks(s))
    <3>1. CASE k = 1
      <4>1. r = Nothing /\ r.devices = {}
        BY <1>1, <3>1 DEF Nothing
      <4>2. ASSUME s.devices # {K}
            PROVE  s.devices = {} /\ s.slots = KeyLimit /\ \E b \in list[1].keys : b \notin s.keys
        BY <2>4, <3>1, <4>1, <4>2
      <4>3. QED
        BY <4>2
    <3>2. CASE k # 1
      <4>1. r.devices = {K} \/ (r.devices = {} /\ Lacks(r))
        BY <1>1, <3>2
      <4>2. ASSUME s.devices # {K}, r.devices = {K}
            PROVE  FALSE
        BY <2>4, <4>2
      <4>3. ASSUME s.devices # {K}, r.devices = {}, r.slots = KeyLimit,
                   NEW b \in list[1].keys, b \notin r.keys
            PROVE  s.devices = {} /\ s.slots = KeyLimit /\ b \notin s.keys
        BY <2>4, <4>3
      <4>4. QED
        BY <4>1, <4>2, <4>3
    <3>3. QED
      BY <3>1, <3>2
  <2>6. Good(s, k)
    BY <2>3, <2>5
  <2>7. QED
    BY <2>6 DEF s
<1>2. Good(Nothing, 0)
  BY LimitAssumption DEF Nothing, Reports
<1>3. \A k \in Nat : \E f : IsFold(f, k)
  <2> DEFINE T == {k \in Nat : ~\E f : IsFold(f, k)}
  <2> SUFFICES T = {}
    OBVIOUS
  <2> HIDE DEF T
  <2>1. T \subseteq Nat
    BY DEF T
  <2>2. ASSUME NEW k \in T, \A j \in T : k <= j
        PROVE  FALSE
    <3>1. CASE k = 0
      <4>1. IsFold([j \in 0 .. 0 |-> Nothing], 0)
        OBVIOUS
      <4>2. QED
        BY <3>1, <4>1 DEF T
    <3>2. CASE k # 0
      <4>1. k - 1 \in Nat /\ k - 1 \notin T
        BY <2>1, <2>2, <3>2
      <4>2. PICK f : IsFold(f, k - 1)
        BY <4>1 DEF T
      <4>3. \A j \in 0 .. k - 1 : f[j] = IF j = 0 THEN Nothing ELSE Merge(f[j - 1], list[j])
        BY <4>2
      <4> DEFINE g == [j \in 0 .. k |-> IF j = k THEN Merge(f[k - 1], list[k]) ELSE f[j]]
      <4>4. \A j \in 0 .. k : g[j] = IF j = 0 THEN Nothing ELSE Merge(g[j - 1], list[j])
        BY <2>1, <3>2, <4>1, <4>3
      <4>5. g = [j \in 0 .. k |-> g[j]]
        OBVIOUS
      <4> HIDE DEF g
      <4>6. IsFold(g, k)
        BY <4>4, <4>5
      <4>7. QED
        BY <4>6 DEF T
    <3>3. QED
      BY <3>1, <3>2
  <2>3. QED
    BY <2>1, <2>2, LeastOfNats
<1> DEFINE Merged == CHOOSE f : IsFold(f, n)
<1>4. IsFold(Merged, n)
  BY <1>0, <1>3
<1>5. MergedOf(list) = Merged[n]
  BY DEF MergedOf, Nothing
<1> HIDE DEF Merged, Good
<1>6. Merged[0] = Nothing /\ \A j \in 1 .. n : Merged[j] = Merge(Merged[j - 1], list[j])
  BY <1>0, <1>4
<1>7. \A j \in 0 .. n : Good(Merged[j], j)
  <2> DEFINE T == {j \in 0 .. n : ~Good(Merged[j], j)}
  <2> SUFFICES T = {}
    OBVIOUS
  <2>1. ASSUME NEW k \in T, \A j \in T : k <= j
        PROVE  FALSE
    <3>1. CASE k = 0
      BY <1>2, <1>6, <3>1
    <3>2. CASE k # 0
      <4>1. k - 1 \in 0 .. n /\ k - 1 \notin T /\ k \in 1 .. n
        BY <1>0, <2>1, <3>2
      <4>2. Good(Merged[k - 1], k - 1)
        BY <4>1
      <4>3. QED
        BY <1>1, <1>6, <4>1, <4>2
    <3>3. QED
      BY <3>1, <3>2
  <2> HIDE DEF T
  <2>2. T \subseteq Nat
    BY <1>0 DEF T
  <2>3. QED
    BY <2>1, <2>2, LeastOfNats
<1>8. Good(MergedOf(list), n)
  BY <1>0, <1>5, <1>7
<1>9. ASSUME list # <<>>, MergedOf(list).keys = KeysOf(list)
      PROVE  MergedOf(list).devices = {K}
  <2>1. n > 0 /\ 1 \in DOMAIN list
    BY <1>9
  <2>2. \A b \in list[1].keys : b \in MergedOf(list).keys
    BY <1>9, <2>1 DEF KeysOf
  <2>3. QED
    BY <1>8, <2>1, <2>2 DEF Good
<1>10. QED
  BY <1>8, <1>9 DEF Good

Named(c) == c.keys \union ToSet(c.text)

(* The flushes of a pressed or typed command: all of the keyboard, each    *)
(* push is released, and what is pushed is what the command names.         *)
Alternating(p, c) ==
  \A i \in 1 .. Len(p) :
    /\ p[i].devices = {K}
    /\ p[i].kind = "release" => p[i].keys = {}
    /\ p[i].kind = "push" => p[i].keys \subseteq Named(c)
    /\ i > 1 /\ p[i].kind = "release" => p[i - 1].kind = "push"
    /\ i = Len(p) => p[i].kind = "release"

LEMMA FlushFacts ==
  ASSUME NEW kind \in {"push", "release"}, NEW keys \in SUBSET KeyButtons,
         NEW D \in {{}, {K}}
  PROVE  /\ Flush(kind, keys, D) \in Flushes
         /\ Flush(kind, keys, D).kind = kind
         /\ Flush(kind, keys, D).keys = keys
         /\ Flush(kind, keys, D).devices = D
BY DEF Flush, Flushes

LEMMA TypingFacts ==
  ASSUME NEW c \in KeyboardCommands, c.text # <<>>
  PROVE  /\ Typing(c) \in Seq(Flushes) /\ Typing(c) # <<>>
         /\ Typing(c)[1].kind = "push"
         /\ Alternating(Typing(c), c)
<1> DEFINE n == 2 * Len(c.text)
           Step(i) == IF i % 2 = 1 THEN Flush("push", {c.text[(i + 1) \div 2]}, {"keyboard"})
                      ELSE Flush("release", {}, {"keyboard"})
<1>1. /\ c.text \in Seq(KeyButtons) /\ Len(c.text) \in Nat \ {0} /\ n \in Nat
      /\ \A j \in 1 .. Len(c.text) : c.text[j] \in KeyButtons /\ c.text[j] \in Named(c)
  <2>1. c.text \in Seq(KeyButtons) /\ Len(c.text) \in Nat \ {0}
    BY KeyboardFacts
  <2>2. QED
    BY <2>1 DEF Named, ToSet
<1>2. Typing(c) = [i \in 1 .. n |-> Step(i)]
  BY DEF Typing
<1>3. ASSUME NEW i \in 1 .. n, i % 2 = 1
      PROVE  /\ Step(i) \in Flushes /\ Step(i).kind = "push" /\ Step(i).devices = {K}
             /\ Step(i).keys \subseteq Named(c) /\ i # n
  <2>1. (i + 1) \div 2 \in 1 .. Len(c.text) /\ i # n
    BY <1>1, <1>3
  <2>2. {c.text[(i + 1) \div 2]} \in SUBSET KeyButtons /\ {c.text[(i + 1) \div 2]} \subseteq Named(c)
    BY <1>1, <2>1
  <2>3. Step(i) = Flush("push", {c.text[(i + 1) \div 2]}, {K})
    BY <1>3 DEF K
  <2>4. /\ Flush("push", {c.text[(i + 1) \div 2]}, {K}) \in Flushes
        /\ Flush("push", {c.text[(i + 1) \div 2]}, {K}).kind = "push"
        /\ Flush("push", {c.text[(i + 1) \div 2]}, {K}).keys = {c.text[(i + 1) \div 2]}
        /\ Flush("push", {c.text[(i + 1) \div 2]}, {K}).devices = {K}
    BY <2>2, FlushFacts
  <2> HIDE DEF Step
  <2>5. QED
    BY <2>1, <2>2, <2>3, <2>4
<1>4. ASSUME NEW i \in 1 .. n, i % 2 # 1
      PROVE  /\ Step(i) \in Flushes /\ Step(i).kind = "release" /\ Step(i).devices = {K}
             /\ Step(i).keys = {} /\ i - 1 \in 1 .. n /\ (i - 1) % 2 = 1
  <2>1. i - 1 \in 1 .. n /\ (i - 1) % 2 = 1
    BY <1>1, <1>4
  <2>2. Step(i) = Flush("release", {}, {K})
    BY <1>4 DEF K
  <2>3. /\ Flush("release", {}, {K}) \in Flushes
        /\ Flush("release", {}, {K}).kind = "release"
        /\ Flush("release", {}, {K}).keys = {}
        /\ Flush("release", {}, {K}).devices = {K}
    BY FlushFacts
  <2> HIDE DEF Step
  <2>4. QED
    BY <2>1, <2>2, <2>3
<1> HIDE DEF Step
<1>5. \A i \in 1 .. n : Step(i) \in Flushes
  BY <1>3, <1>4
<1>6. Typing(c) \in Seq(Flushes) /\ Len(Typing(c)) = n /\ Typing(c) # <<>>
  BY <1>1, <1>2, <1>5
<1>7. \A i \in 1 .. n : Typing(c)[i] = Step(i)
  BY <1>2
<1>8. Typing(c)[1].kind = "push"
  <2>1. 1 \in 1 .. n /\ 1 % 2 = 1
    BY <1>1
  <2>2. QED
    BY <1>3, <1>7, <2>1
<1>9. ASSUME NEW i \in 1 .. n
      PROVE  /\ Typing(c)[i].devices = {K}
             /\ Typing(c)[i].kind = "release" => Typing(c)[i].keys = {}
             /\ Typing(c)[i].kind = "push" => Typing(c)[i].keys \subseteq Named(c)
             /\ i > 1 /\ Typing(c)[i].kind = "release" => Typing(c)[i - 1].kind = "push"
             /\ i = n => Typing(c)[i].kind = "release"
  <2>1. CASE i % 2 = 1
    BY <1>3, <1>7, <2>1
  <2>2. CASE i % 2 # 1
    <3>1. i - 1 \in 1 .. n /\ Step(i - 1).kind = "push"
      BY <1>3, <1>4, <2>2
    <3>2. QED
      BY <1>4, <1>7, <2>2, <3>1
  <2>3. QED
    BY <2>1, <2>2
<1>10. QED
  BY <1>6, <1>8, <1>9 DEF Alternating

(* A command of keys: its flushes, and the press type that decides which.  *)
LEMMA PressFacts ==
  ASSUME NEW c \in KeyboardCommands, c.keys # {}
  PROVE  /\ Flags(c) = c.press /\ c.press # "unspecified"
         /\ Push(c) \in Flushes /\ Push(c).kind = "push" /\ Push(c).devices = {K}
         /\ Push(c).keys = c.keys
         /\ Release(c) \in Flushes /\ Release(c).kind = "release" /\ Release(c).devices = {K}
         /\ Release(c).keys = {}
<1>1. c.keys \subseteq KeyButtons /\ Pending(c) = {K} /\ Of(c.keys, K) = c.keys
  BY KeyboardFacts, OfFacts
<1>2. Head(InOrder(FlagOrder, Pending(c))) = K
  BY <1>1, OrderFacts
<1>3. Flags(c) = c.press
  BY <1>1, <1>2 DEF Flags
<1>4. c.press # "unspecified"
  BY KeyboardFacts, CommandAssumption DEF CommandType, Presses
<1>5. Push(c) = Flush("push", c.keys, {K}) /\ Release(c) = Flush("release", {}, {K})
  BY <1>1 DEF Push, Release
<1>6. /\ Push(c) \in Flushes /\ Push(c).kind = "push" /\ Push(c).devices = {K}
      /\ Push(c).keys = c.keys
  BY <1>1, <1>5 DEF Flush, Flushes
<1>7. /\ Release(c) \in Flushes /\ Release(c).kind = "release" /\ Release(c).devices = {K}
      /\ Release(c).keys = {}
  BY <1>5 DEF Flush, Flushes
<1>8. QED
  BY <1>3, <1>4, <1>6, <1>7

LEMMA MergedFlush ==
  ASSUME NEW list \in Seq(HeldCommands)
  PROVE  /\ PushMerged(list) \in Flushes /\ PushMerged(list).kind = "push"
         /\ PushMerged(list).keys = MergedOf(list).keys
         /\ list # <<>> /\ MergedOf(list).keys = KeysOf(list) => PushMerged(list).devices = {K}
<1>1. MergedOf(list).keys \in SUBSET KeyButtons /\ MergedOf(list).devices \in {{}, {K}}
  BY MergedFacts DEF Reports
<1>2. /\ PushMerged(list) \in Flushes /\ PushMerged(list).kind = "push"
      /\ PushMerged(list).keys = MergedOf(list).keys
      /\ PushMerged(list).devices = MergedOf(list).devices
  BY <1>1 DEF PushMerged, Flush, Flushes
<1>3. QED
  BY <1>2, MergedFacts

(* What Alternating says of one flush.                                     *)
LEMMA AlternatingAt ==
  ASSUME NEW p, NEW c, Alternating(p, c), NEW i \in 1 .. Len(p)
  PROVE  /\ p[i].devices = {K}
         /\ p[i].kind = "release" => p[i].keys = {}
         /\ p[i].kind = "push" => p[i].keys \subseteq Named(c)
         /\ i > 1 /\ p[i].kind = "release" => p[i - 1].kind = "push"
         /\ i = Len(p) => p[i].kind = "release"
BY DEF Alternating

LEMMA TailAlternates ==
  ASSUME NEW p \in Seq(Flushes), NEW c, Alternating(p, c), p # <<>>
  PROVE  /\ Tail(p) \in Seq(Flushes) /\ Alternating(Tail(p), c)
         /\ Tail(p) # <<>> /\ Tail(p)[1].kind = "release" => p[1].kind = "push"
         /\ Tail(p) = <<>> => p[1].kind = "release"
<1>1. /\ Tail(p) \in Seq(Flushes) /\ Len(Tail(p)) = Len(p) - 1 /\ Len(p) \in Nat
      /\ \A i \in 1 .. Len(p) - 1 : Tail(p)[i] = p[i + 1]
  OBVIOUS
<1>2. ASSUME NEW i \in 1 .. Len(Tail(p))
      PROVE  /\ Tail(p)[i].devices = {K}
             /\ Tail(p)[i].kind = "release" => Tail(p)[i].keys = {}
             /\ Tail(p)[i].kind = "push" => Tail(p)[i].keys \subseteq Named(c)
             /\ i > 1 /\ Tail(p)[i].kind = "release" => Tail(p)[i - 1].kind = "push"
             /\ i = Len(Tail(p)) => Tail(p)[i].kind = "release"
  <2>1. i + 1 \in 1 .. Len(p) /\ Tail(p)[i] = p[i + 1] /\ i + 1 > 1 /\ (i + 1) - 1 = i
    BY <1>1
  <2>2. i > 1 => Tail(p)[i - 1] = p[i]
    BY <1>1
  <2>3. /\ p[i + 1].devices = {K}
        /\ p[i + 1].kind = "release" => p[i + 1].keys = {}
        /\ p[i + 1].kind = "push" => p[i + 1].keys \subseteq Named(c)
        /\ p[i + 1].kind = "release" => p[i].kind = "push"
        /\ i + 1 = Len(p) => p[i + 1].kind = "release"
    BY <2>1, AlternatingAt
  <2>4. i = Len(Tail(p)) => i + 1 = Len(p)
    BY <1>1
  <2>5. QED
    BY <2>1, <2>2, <2>3, <2>4
<1>3. Tail(p) # <<>> /\ Tail(p)[1].kind = "release" => p[1].kind = "push"
  <2>1. Tail(p) # <<>> => 2 \in 1 .. Len(p) /\ Tail(p)[1] = p[2] /\ 2 - 1 = 1
    BY <1>1
  <2>2. QED
    BY <2>1 DEF Alternating
<1>4. ASSUME Tail(p) = <<>> PROVE p[1].kind = "release"
  <2>1. 1 \in 1 .. Len(p) /\ 1 = Len(p)
    BY <1>1, <1>4
  <2>2. QED
    BY <2>1, AlternatingAt
<1>5. QED
  BY <1>1, <1>2, <1>3, <1>4 DEF Alternating

(* ------------- The states of someone who only uses the keyboard --------- *)

KeyTypes ==
  /\ direct = "idle"
  /\ queue \in Seq(KeyboardCommands)
  /\ cmd \in KeyboardCommands \union {None}
  /\ pc = "collect" => cmd \in KeyboardCommands
  /\ axesLeft = {}
  /\ dangling \in Seq(HeldCommands)
  /\ using \in BOOLEAN
  /\ using = TRUE => dangling # <<>>
  /\ plan \in Seq(Flushes)
  /\ left \in {<<>>, <<K>>}

(* What the host sees, of the keyboard and of the other devices.           *)
HostTypes ==
  /\ buttons \in [Devices -> SUBSET Buttons]
  /\ host \in [Devices -> SUBSET Buttons]
  /\ busy \in BOOLEAN
  /\ \A d \in Devices : d # K => host[d] = {}

(* Between commands: nothing is down, or what is dangling.                 *)
Shows ==
  /\ using = FALSE => host[K] = {}
  /\ using = TRUE /\ MergedOf(dangling).keys = KeysOf(dangling) => host[K] = KeysOf(dangling)

Shown == pc \in {"wait", "collect", "finish"} => Shows

(* The flushes still to come end with a release, or repeat what dangles.   *)
Planned ==
  pc \in {"lock", "prepare", "await", "send"} =>
    /\ plan # <<>>
    /\ using = TRUE => plan = <<PushMerged(dangling)>>
    /\ using = FALSE => Alternating(plan, cmd)

(* How far the flush at the head of the plan is.                           *)
Flushed ==
  /\ pc = "lock" /\ plan[1].kind = "release" => dangling = <<>> \/ host[K] \subseteq Named(cmd)
  /\ pc = "prepare" /\ left = <<>> /\ plan[1].devices = {K} => host[K] = plan[1].keys
  /\ pc = "prepare" /\ left = <<K>> => plan[1].devices = {K}
  /\ pc \in {"await", "send"} =>
       left = <<K>> /\ plan[1].devices = {K} /\ buttons[K] = plan[1].keys
  /\ pc = "send" => busy = FALSE

KeyInv == KeyTypes /\ HostTypes /\ Shown /\ Planned /\ Flushed

HostInv == user = "keyboard" => KeyInv

LEMMA KeyInitHolds == Init => KeyInv
<1> SUFFICES ASSUME Init PROVE KeyInv
  OBVIOUS
<1>1. KeyTypes
  <2>1. queue \in Seq(KeyboardCommands) /\ dangling \in Seq(HeldCommands) /\ plan \in Seq(Flushes)
    BY DEF Init
  <2>2. QED
    BY <2>1 DEF Init, KeyTypes
<1>2. HostTypes
  BY DEF Init, HostTypes, Devices, K
<1>3. Shown
  BY DEF Init, Shown, Shows, Devices, K
<1>4. Planned /\ Flushed
  BY DEF Init, Planned, Flushed
<1>5. QED
  BY <1>1, <1>2, <1>3, <1>4 DEF KeyInv

(* Of the steps that only move the queue or the endpoint.                  *)
LEMMA KeyStays ==
  ASSUME KeyInv, queue' \in Seq(KeyboardCommands), busy' = TRUE => busy = TRUE,
         UNCHANGED <<taskVars, dangling, using, buttons, host, direct>>,
         busy' \in BOOLEAN
  PROVE  KeyInv'
<1>1. UNCHANGED <<pc, cmd, axesLeft, plan, left>>
  BY DEF taskVars
<1>2. KeyTypes'
  BY <1>1 DEF KeyInv, KeyTypes
<1>3. HostTypes' /\ Shown'
  BY <1>1 DEF KeyInv, HostTypes, Shown, Shows
<1>4. Planned'
  BY <1>1 DEF KeyInv, Planned
<1>5. Flushed'
  BY <1>1 DEF KeyInv, Flushed
<1>6. QED
  BY <1>2, <1>3, <1>4, <1>5 DEF KeyInv

LEMMA PopKeys == KeyInv /\ Pop => KeyInv'
<1> SUFFICES ASSUME KeyInv, Pop PROVE KeyInv'
  OBVIOUS
<1>1. Head(queue) \in KeyboardCommands /\ Tail(queue) \in Seq(KeyboardCommands)
  BY DEF KeyInv, KeyTypes, Pop
<1>2. Head(queue).moves = {}
  BY <1>1 DEF KeyboardCommands
<1>3. queue' = Tail(queue) /\ cmd' = Head(queue) /\ pc' = "collect"
  BY DEF Pop
<1>4. axesLeft' = {}
  BY <1>2 DEF Pop
<1>5. KeyTypes'
  BY <1>1, <1>3, <1>4 DEF KeyInv, KeyTypes, Pop
<1>6. HostTypes' /\ Shown'
  BY DEF KeyInv, HostTypes, Shown, Shows, Pop, deviceVars
<1>7. Planned' /\ Flushed'
  BY DEF KeyInv, Planned, Flushed, Pop
<1>8. QED
  BY <1>5, <1>6, <1>7 DEF KeyInv

(* A command has been executed when its flushes are planned: it leaves     *)
(* none, or some that end with what is to be seen.                         *)
LEMMA ExecutedKeys ==
  ASSUME KeyInv,
         UNCHANGED <<queue, cmd, axesLeft, left, buttons, host, direct, busy>>,
         dangling' \in Seq(HeldCommands), using' \in BOOLEAN,
         using' = TRUE => dangling' # <<>>,
         plan' \in Seq(Flushes),
         \/ plan' = <<>> /\ pc' = "finish" /\ Shows'
         \/ /\ plan' # <<>> /\ pc' = "lock"
            /\ using' = TRUE => plan' = <<PushMerged(dangling')>>
            /\ using' = FALSE => Alternating(plan', cmd)
            /\ plan'[1].kind = "release" => dangling' = <<>>
  PROVE  KeyInv'
<1>1. KeyTypes'
  BY DEF KeyInv, KeyTypes
<1>2. HostTypes'
  BY DEF KeyInv, HostTypes
<1>3. Shown'
  BY DEF Shown
<1>4. Planned'
  BY DEF Planned
<1>5. Flushed'
  BY DEF Flushed
<1>6. QED
  BY <1>1, <1>2, <1>3, <1>4, <1>5 DEF KeyInv

LEMMA PairAlternates ==
  ASSUME NEW c \in KeyboardCommands, c.keys # {}
  PROVE  /\ Alternating(<<Push(c), Release(c)>>, c)
         /\ Alternating(<<Push(c), Release(c), Push(c), Release(c)>>, c)
         /\ Alternating(<<Release(c)>>, c)
<1> DEFINE p == Push(c)
           r == Release(c)
<1>1. /\ p.kind = "push" /\ p.devices = {K} /\ p.keys = c.keys
      /\ r.kind = "release" /\ r.devices = {K} /\ r.keys = {}
      /\ c.keys \subseteq Named(c)
  BY PressFacts DEF Named
<1> HIDE DEF p, r
<1>2. Alternating(<<p, r>>, c)
  BY <1>1 DEF Alternating
<1>3. Alternating(<<p, r, p, r>>, c)
  BY <1>1 DEF Alternating
<1>4. Alternating(<<r>>, c)
  BY <1>1 DEF Alternating
<1>5. QED
  BY <1>2, <1>3, <1>4 DEF p, r

LEMMA PressKeys ==
  ASSUME KeyInv, cmd \in KeyboardCommands, ~Empty(cmd), ExecutePress,
         UNCHANGED <<queue, cmd, axesLeft, left, buttons, host, direct, busy>>
  PROVE  KeyInv'
<1>1. dangling' \in Seq(HeldCommands) /\ using' = FALSE /\ UNCHANGED dangling
  BY DEF KeyInv, KeyTypes, ExecutePress
<1>2. CASE cmd.text # <<>>
  <2>1. plan' = Typing(cmd) /\ pc' = IF Typing(cmd) = <<>> THEN "finish" ELSE "lock"
    BY <1>2 DEF ExecutePress, Plan
  <2>2. /\ Typing(cmd) \in Seq(Flushes) /\ Typing(cmd) # <<>>
        /\ Typing(cmd)[1].kind = "push" /\ Alternating(Typing(cmd), cmd)
    BY <1>2, TypingFacts
  <2>3. QED
    BY <1>1, <2>1, <2>2, ExecutedKeys
<1>3. CASE cmd.text = <<>>
  <2>1. cmd.keys # {}
    BY <1>3, KeyboardFacts DEF Empty
  <2>2. Flags(cmd) # "unspecified" /\ Push(cmd) \in Flushes /\ Release(cmd) \in Flushes
        /\ Push(cmd).kind = "push"
    BY <2>1, PressFacts
  <2>3. \/ plan' = <<Push(cmd), Release(cmd)>> /\ pc' = "lock"
        \/ plan' = <<Push(cmd), Release(cmd), Push(cmd), Release(cmd)>> /\ pc' = "lock"
    BY <1>3, <2>2 DEF ExecutePress, Plan
  <2>4. plan' \in Seq(Flushes) /\ plan' # <<>> /\ plan'[1].kind = "push"
    <3>1. /\ <<Push(cmd), Release(cmd)>> \in Seq(Flushes)
          /\ <<Push(cmd), Release(cmd)>>[1].kind = "push"
      BY <2>2
    <3>2. /\ <<Push(cmd), Release(cmd), Push(cmd), Release(cmd)>> \in Seq(Flushes)
          /\ <<Push(cmd), Release(cmd), Push(cmd), Release(cmd)>>[1].kind = "push"
      BY <2>2
    <3>3. /\ <<Push(cmd), Release(cmd)>> # <<>>
          /\ <<Push(cmd), Release(cmd), Push(cmd), Release(cmd)>> # <<>>
      OBVIOUS
    <3>4. CASE plan' = <<Push(cmd), Release(cmd)>>
      BY <3>1, <3>3, <3>4
    <3>5. CASE plan' = <<Push(cmd), Release(cmd), Push(cmd), Release(cmd)>>
      BY <3>2, <3>3, <3>5
    <3>6. QED
      BY <2>3, <3>4, <3>5
  <2>5. Alternating(plan', cmd)
    BY <2>1, <2>3, PairAlternates
  <2>6. QED
    BY <1>1, <2>3, <2>4, <2>5, ExecutedKeys
<1>4. QED
  BY <1>2, <1>3

(* "down" and "up": the keys that dangle change, and the host is told if   *)
(* it sees them at the time.                                               *)
LEMMA DownKeys ==
  ASSUME KeyInv, pc = "collect", cmd \in KeyboardCommands, ~Empty(cmd), ExecuteDown,
         UNCHANGED <<queue, cmd, axesLeft, left, buttons, host, direct, busy>>
  PROVE  KeyInv'
<1>1. cmd \in HeldCommands
  BY KeyboardFacts DEF HeldCommands, ExecuteDown, Empty
<1>2. /\ using' = using /\ using \in BOOLEAN /\ dangling \in Seq(HeldCommands) /\ Shows
      /\ using = TRUE => dangling # <<>>
  BY DEF KeyInv, KeyTypes, Shown, ExecuteDown
<1>3. CASE dangling' = Append(dangling, cmd) /\ using = TRUE /\ Plan(<<PushMerged(dangling')>>)
  <2>1. dangling' \in Seq(HeldCommands) /\ dangling' # <<>>
    BY <1>1, <1>2, <1>3
  <2>2. PushMerged(dangling') \in Flushes /\ PushMerged(dangling').kind = "push"
    BY <2>1, MergedFlush
  <2>3. plan' = <<PushMerged(dangling')>> /\ pc' = "lock"
    BY <1>3 DEF Plan
  <2>4. plan' \in Seq(Flushes) /\ plan' # <<>> /\ plan'[1].kind = "push"
    BY <2>2, <2>3
  <2>5. QED
    BY <1>2, <1>3, <2>1, <2>3, <2>4, ExecutedKeys
<1>4. CASE dangling' = Append(dangling, cmd) /\ using = FALSE /\ Plan(<<>>)
  <2>1. dangling' \in Seq(HeldCommands)
    BY <1>1, <1>2, <1>4
  <2>2. plan' = <<>> /\ pc' = "finish" /\ plan' \in Seq(Flushes)
    BY <1>4 DEF Plan
  <2>3. Shows'
    BY <1>2, <1>4 DEF Shows
  <2>4. QED
    BY <1>2, <1>4, <2>1, <2>2, <2>3, ExecutedKeys
<1>5. CASE dangling' = dangling /\ Plan(<<>>)
  <2>1. plan' = <<>> /\ pc' = "finish" /\ plan' \in Seq(Flushes)
    BY <1>5 DEF Plan
  <2>2. Shows'
    BY <1>2, <1>5 DEF Shows
  <2>3. QED
    BY <1>2, <1>5, <2>1, <2>2, ExecutedKeys
<1>6. QED
  BY <1>2, <1>3, <1>4, <1>5 DEF ExecuteDown

(* eraseByReplace leaves held commands.                                    *)
LEMMA WithoutFacts ==
  ASSUME dangling \in Seq(HeldCommands), NEW i \in DOMAIN dangling
  PROVE  Without(i) \in Seq(HeldCommands)
<1>1. i \in 1 .. Len(dangling) /\ Len(dangling) \in Nat \ {0}
  OBVIOUS
<1> DEFINE moved == [dangling EXCEPT ![i] = Last(dangling)]
<1>2. Last(dangling) \in HeldCommands
  BY <1>1 DEF Last
<1>3. moved \in Seq(HeldCommands) /\ Len(moved) = Len(dangling)
  BY <1>1, <1>2, ExceptSeq
<1> HIDE DEF moved
<1>4. SubSeq(moved, 1, Len(moved) - 1) \in Seq(HeldCommands)
  BY <1>1, <1>3
<1>5. QED
  BY <1>4 DEF Without, Front, moved

LEMMA UpKeys ==
  ASSUME KeyInv, pc = "collect", cmd \in KeyboardCommands, ~Empty(cmd), ExecuteUp,
         UNCHANGED <<queue, cmd, axesLeft, left, buttons, host, direct, busy>>
  PROVE  KeyInv'
<1>1. cmd.keys # {}
  BY KeyboardFacts DEF ExecuteUp, Empty
<1>2. /\ using \in BOOLEAN /\ dangling \in Seq(HeldCommands) /\ Shows
      /\ using = TRUE => dangling # <<>>
  BY DEF KeyInv, KeyTypes, Shown
<1>3. CASE Same(cmd) = {} /\ Plan(<<>>) /\ UNCHANGED <<dangling, using>>
  <2>1. plan' = <<>> /\ pc' = "finish" /\ plan' \in Seq(Flushes)
    BY <1>3 DEF Plan
  <2>2. Shows'
    BY <1>2, <1>3 DEF Shows
  <2>3. QED
    BY <1>2, <1>3, <2>1, <2>2, ExecutedKeys
<1>4. ASSUME NEW i \in Same(cmd), dangling' = Without(i),
             Plan(CASE ~using                       -> <<>>
                    [] using /\ dangling' # <<>> -> <<PushMerged(dangling')>>
                    [] using /\ dangling' = <<>> -> <<Release(cmd)>>),
             using' = (using /\ dangling' # <<>>)
      PROVE  KeyInv'
  <2>1. i \in DOMAIN dangling
    BY DEF Same
  <2>2. dangling' \in Seq(HeldCommands)
    BY <1>2, <1>4, <2>1, WithoutFacts
  <2>3. CASE using = FALSE
    <3>1. using' = FALSE
      BY <1>4, <2>3
    <3>2. plan' = <<>> /\ pc' = "finish" /\ plan' \in Seq(Flushes)
      BY <1>4, <2>3 DEF Plan
    <3>3. Shows'
      BY <1>2, <2>3, <3>1 DEF Shows
    <3>4. QED
      BY <2>2, <3>1, <3>2, <3>3, ExecutedKeys
  <2>4. CASE using = TRUE /\ dangling' # <<>>
    <3>1. using' = TRUE
      BY <1>4, <2>4
    <3>2. plan' = <<PushMerged(dangling')>> /\ pc' = "lock"
      BY <1>4, <2>4 DEF Plan
    <3>3. PushMerged(dangling') \in Flushes /\ PushMerged(dangling').kind = "push"
      BY <2>2, MergedFlush
    <3>4. plan' \in Seq(Flushes) /\ plan' # <<>> /\ plan'[1].kind = "push"
      BY <3>2, <3>3
    <3>5. QED
      BY <2>2, <2>4, <3>1, <3>2, <3>4, ExecutedKeys
  <2>5. CASE using = TRUE /\ dangling' = <<>>
    <3>1. using' = FALSE
      BY <1>4, <2>5
    <3>2. plan' = <<Release(cmd)>> /\ pc' = "lock"
      BY <1>4, <2>5 DEF Plan
    <3>3. Release(cmd) \in Flushes
      BY <1>1, PressFacts
    <3>4. plan' \in Seq(Flushes) /\ plan' # <<>>
      BY <3>2, <3>3
    <3>5. Alternating(plan', cmd)
      BY <1>1, <3>2, PairAlternates
    <3>6. QED
      BY <2>2, <2>5, <3>1, <3>2, <3>4, <3>5, ExecutedKeys
  <2>6. QED
    BY <1>2, <2>3, <2>4, <2>5
<1>5. QED
  BY <1>3, <1>4 DEF ExecuteUp

LEMMA ExecuteKeys == KeyInv /\ Execute => KeyInv'
<1> SUFFICES ASSUME KeyInv, Execute PROVE KeyInv'
  OBVIOUS
<1>1. pc = "collect" /\ cmd \in KeyboardCommands
  BY DEF KeyInv, KeyTypes, Execute
<1>2. UNCHANGED <<queue, cmd, axesLeft, left, buttons, host, direct, busy>>
  BY DEF Execute, deviceVars
<1>3. CASE Empty(cmd) /\ Plan(<<>>) /\ UNCHANGED <<dangling, using>>
  <2>1. plan' = <<>> /\ pc' = "finish" /\ plan' \in Seq(Flushes)
    BY <1>3 DEF Plan
  <2>2. /\ using \in BOOLEAN /\ dangling \in Seq(HeldCommands) /\ Shows
        /\ using = TRUE => dangling # <<>>
    BY <1>1 DEF KeyInv, KeyTypes, Shown
  <2>3. Shows'
    BY <1>2, <1>3, <2>2 DEF Shows
  <2>4. QED
    BY <1>2, <1>3, <2>1, <2>2, <2>3, ExecutedKeys
<1>4. QED
  BY <1>1, <1>2, <1>3, PressKeys, DownKeys, UpKeys DEF Execute

(* The idle task repeats what dangles, and has no command for it.          *)
LEMMA IdleKeys == KeyInv /\ Idle => KeyInv'
<1> SUFFICES ASSUME KeyInv, Idle PROVE KeyInv'
  OBVIOUS
<1>1. /\ UNCHANGED <<queue, cmd, axesLeft, left, buttons, host, direct, busy, dangling>>
      /\ using' = TRUE /\ dangling # <<>> /\ dangling \in Seq(HeldCommands)
  BY DEF KeyInv, KeyTypes, Idle, deviceVars
<1>2. plan' = <<PushMerged(dangling')>> /\ pc' = "lock"
  BY <1>1 DEF Idle, Plan
<1>3. PushMerged(dangling') \in Flushes /\ PushMerged(dangling').kind = "push"
  BY <1>1, MergedFlush
<1>4. plan' \in Seq(Flushes) /\ plan' # <<>> /\ plan'[1].kind = "push"
  BY <1>2, <1>3
<1>5. QED
  BY <1>1, <1>2, <1>4, ExecutedKeys

(* The steps of a flush.                                                   *)
LEMMA HeadFacts ==
  ASSUME KeyInv, pc \in {"lock", "prepare", "await", "send"}
  PROVE  /\ plan \in Seq(Flushes) /\ plan # <<>> /\ plan[1] \in Flushes /\ Head(plan) = plan[1]
         /\ plan[1].devices \in {{}, {K}} /\ plan[1].keys \in SUBSET KeyButtons
         /\ plan[1].kind \in {"push", "release"}
<1>1. plan \in Seq(Flushes) /\ plan # <<>>
  BY DEF KeyInv, KeyTypes, Planned
<1>2. plan[1] \in Flushes /\ Head(plan) = plan[1]
  BY <1>1
<1>3. QED
  BY <1>1, <1>2 DEF Flushes

LEMMA LockKeys == KeyInv /\ LockFlush => KeyInv'
<1> SUFFICES ASSUME KeyInv, LockFlush PROVE KeyInv'
  OBVIOUS
<1>1. pc = "lock" /\ pc' = "prepare"
  BY DEF LockFlush
<1>2. plan[1].devices \in {{}, {K}} /\ Head(plan) = plan[1]
  BY <1>1, HeadFacts
<1>3. \/ plan[1].devices = {} /\ left' = <<>>
      \/ plan[1].devices = {K} /\ left' = <<K>>
  BY <1>2, OrderFacts DEF LockFlush
<1>4. UNCHANGED <<queue, cmd, axesLeft, plan, dangling, using, buttons, host, direct, busy>>
  BY DEF LockFlush, deviceVars
<1>5. KeyTypes'
  BY <1>1, <1>3, <1>4 DEF KeyInv, KeyTypes
<1>6. HostTypes' /\ Shown' /\ Planned'
  BY <1>1, <1>4 DEF KeyInv, HostTypes, Shown, Planned
<1>7. Flushed'
  <2>1. {K} # {}
    OBVIOUS
  <2>2. QED
    BY <1>1, <1>3, <1>4, <2>1 DEF Flushed
<1>8. QED
  BY <1>5, <1>6, <1>7 DEF KeyInv

LEMMA PrepareKeys == KeyInv /\ Prepare => KeyInv'
<1> SUFFICES ASSUME KeyInv, Prepare PROVE KeyInv'
  OBVIOUS
<1>1. pc = "prepare" /\ pc' = "await" /\ left # <<>>
  BY DEF Prepare
<1>2. left = <<K>> /\ Head(left) = K
  BY <1>1 DEF KeyInv, KeyTypes
<1>3. plan[1].keys \in SUBSET KeyButtons /\ Head(plan) = plan[1] /\ plan[1].devices = {K}
  BY <1>1, <1>2, HeadFacts DEF KeyInv, Flushed
<1>4. buttons' = [buttons EXCEPT ![K] = plan[1].keys]
  BY <1>2, <1>3, OfFacts DEF Prepare
<1>5. UNCHANGED <<queue, cmd, axesLeft, plan, left, dangling, using, host, direct, busy>>
  BY DEF Prepare
<1>6. KeyTypes'
  BY <1>1, <1>5 DEF KeyInv, KeyTypes
<1>7. HostTypes' /\ buttons'[K] = plan[1].keys
  <2>1. plan[1].keys \in SUBSET Buttons /\ K \in Devices
    BY <1>3 DEF KeyButtons, Devices, K
  <2>2. QED
    BY <1>4, <1>5, <2>1 DEF KeyInv, HostTypes
<1>8. Shown' /\ Planned'
  BY <1>1, <1>5 DEF KeyInv, Shown, Planned
<1>9. Flushed'
  BY <1>1, <1>2, <1>3, <1>5, <1>7 DEF Flushed
<1>10. QED
  BY <1>6, <1>7, <1>8, <1>9 DEF KeyInv

LEMMA AwaitKeys == KeyInv /\ AwaitReady => KeyInv'
<1> SUFFICES ASSUME KeyInv, AwaitReady PROVE KeyInv'
  OBVIOUS
<1>1. /\ pc = "await" /\ pc' = "send" /\ busy' = FALSE
      /\ UNCHANGED <<queue, cmd, axesLeft, plan, left, dangling, using, buttons, host, direct, busy>>
  <2>1. UNCHANGED busy /\ ~busy /\ busy \in BOOLEAN
    BY DEF AwaitReady, deviceVars, KeyInv, HostTypes
  <2>2. QED
    BY <2>1 DEF AwaitReady, deviceVars
<1>2. KeyTypes'
  BY <1>1 DEF KeyInv, KeyTypes
<1>3. HostTypes' /\ Shown' /\ Planned'
  BY <1>1 DEF KeyInv, HostTypes, Shown, Planned
<1>4. Flushed'
  BY <1>1 DEF KeyInv, Flushed
<1>5. QED
  BY <1>2, <1>3, <1>4 DEF KeyInv

(* No other report can have come between: this one gets through.           *)
LEMMA SendKeys == KeyInv /\ SendReport => KeyInv'
<1> SUFFICES ASSUME KeyInv, SendReport PROVE KeyInv'
  OBVIOUS
<1>1. /\ pc = "send" /\ pc' = "prepare" /\ left = <<K>> /\ busy = FALSE
      /\ plan[1].devices = {K} /\ buttons[K] = plan[1].keys
  BY DEF KeyInv, Flushed, SendReport
<1>2. left' = <<>> /\ Head(left) = K
  BY <1>1 DEF SendReport
<1>3. host' = [host EXCEPT ![K] = buttons[K]] /\ busy' = TRUE
  BY <1>1, <1>2 DEF SendReport, Report
<1>4. UNCHANGED <<queue, cmd, axesLeft, plan, dangling, using, buttons, direct>>
  BY DEF SendReport
<1>5. KeyTypes'
  BY <1>1, <1>2, <1>4 DEF KeyInv, KeyTypes
<1>6. HostTypes' /\ host'[K] = plan[1].keys
  <2>1. K \in Devices
    BY DEF Devices, K
  <2>2. QED
    BY <1>1, <1>3, <1>4, <2>1 DEF KeyInv, HostTypes
<1>7. Shown' /\ Planned'
  BY <1>1, <1>4 DEF KeyInv, Shown, Planned
<1>8. Flushed'
  BY <1>1, <1>2, <1>4, <1>6 DEF Flushed
<1>9. QED
  BY <1>5, <1>6, <1>7, <1>8 DEF KeyInv

(* After the last flush the host sees nothing, or what dangles; before a   *)
(* release it sees what the push before it pressed.                        *)
LEMMA EndKeys == KeyInv /\ EndFlush => KeyInv'
<1> SUFFICES ASSUME KeyInv, EndFlush PROVE KeyInv'
  OBVIOUS
<1>1. /\ pc = "prepare" /\ left = <<>> /\ plan' = Tail(plan)
      /\ pc' = IF Len(plan) = 1 THEN "finish" ELSE "lock"
  BY DEF EndFlush
<1>2. UNCHANGED <<queue, cmd, axesLeft, left, dangling, using, buttons, host, direct, busy>>
  BY DEF EndFlush, deviceVars
<1>3. /\ plan \in Seq(Flushes) /\ plan # <<>> /\ plan[1].kind \in {"push", "release"}
      /\ plan[1].devices = {K} => host[K] = plan[1].keys
      /\ using = TRUE => plan = <<PushMerged(dangling)>> /\ dangling # <<>>
      /\ using = FALSE => Alternating(plan, cmd)
      /\ using \in BOOLEAN /\ dangling \in Seq(HeldCommands)
  BY <1>1, HeadFacts DEF KeyInv, KeyTypes, Planned, Flushed
<1>4. /\ Tail(plan) \in Seq(Flushes) /\ Len(plan) \in Nat /\ 1 \in 1 .. Len(plan)
      /\ Len(plan) = 1 => Tail(plan) = <<>>
      /\ Len(plan) # 1 => Tail(plan) # <<>>
  <2>1. plan \in Seq(Flushes) /\ plan # <<>>
    BY <1>3
  <2>2. Tail(plan) \in Seq(Flushes) /\ Len(Tail(plan)) = Len(plan) - 1 /\ Len(plan) \in Nat \ {0}
    BY <2>1
  <2> DEFINE rest == Tail(plan)
             n == Len(plan)
  <2>3. /\ rest \in Seq(Flushes) /\ n \in Nat \ {0} /\ Len(rest) = n - 1
    BY <2>2
  <2> HIDE DEF rest, n
  <2>4. rest # <<>> => Len(rest) # 0
    BY <2>3, EmptySeq
  <2>5. rest = <<>> => Len(rest) = 0
    BY EmptySeq
  <2>6. n = 1 => rest = <<>>
    BY <2>3, <2>4
  <2>7. n # 1 => rest # <<>>
    BY <2>3, <2>5
  <2>8. rest \in Seq(Flushes) /\ n \in Nat /\ 1 \in 1 .. n
    BY <2>3
  <2>9. QED
    BY <2>6, <2>7, <2>8 DEF rest, n
<1>5. KeyTypes'
  BY <1>1, <1>2, <1>4 DEF KeyInv, KeyTypes
<1>6. HostTypes'
  BY <1>2 DEF KeyInv, HostTypes
<1>7. CASE using = TRUE
  <2>1. plan = <<PushMerged(dangling)>> /\ dangling # <<>>
    BY <1>3, <1>7
  <2>2. Len(plan) = 1 /\ plan[1] = PushMerged(dangling)
    BY <2>1
  <2>3. pc' = "finish"
    BY <1>1, <2>2
  <2>4. MergedOf(dangling).keys = KeysOf(dangling) => host[K] = KeysOf(dangling)
    BY <1>3, <2>1, <2>2, MergedFlush
  <2>5. Shows'
    BY <1>2, <1>7, <2>4 DEF Shows
  <2>6. QED
    BY <1>5, <1>6, <2>3, <2>5 DEF KeyInv, Shown, Planned, Flushed
<1>8. CASE using = FALSE
  <2>1. /\ plan[1].devices = {K}
        /\ plan[1].kind = "release" => plan[1].keys = {}
        /\ plan[1].kind = "push" => plan[1].keys \subseteq Named(cmd)
    BY <1>3, <1>4, <1>8, AlternatingAt
  <2>2. host[K] = plan[1].keys
    BY <1>3, <2>1
  <2>3. /\ Alternating(Tail(plan), cmd)
        /\ Tail(plan) # <<>> /\ Tail(plan)[1].kind = "release" => plan[1].kind = "push"
        /\ Tail(plan) = <<>> => plan[1].kind = "release"
    BY <1>3, <1>8, TailAlternates
  <2>4. CASE Tail(plan) = <<>>
    <3>1. pc' = "finish" /\ host[K] = {}
      BY <1>1, <1>4, <2>1, <2>2, <2>3, <2>4
    <3>2. Shows'
      BY <1>2, <1>8, <3>1 DEF Shows
    <3>3. QED
      BY <1>5, <1>6, <3>1, <3>2 DEF KeyInv, Shown, Planned, Flushed
  <2>5. CASE Tail(plan) # <<>>
    <3>1. pc' = "lock"
      BY <1>1, <1>4, <2>5
    <3>2. plan'[1].kind = "release" => host[K] \subseteq Named(cmd)
      BY <1>1, <2>1, <2>2, <2>3, <2>5
    <3>3. Planned'
      BY <1>1, <1>2, <1>8, <2>3, <2>5 DEF Planned
    <3>4. Flushed' /\ Shown'
      BY <1>2, <3>1, <3>2 DEF Flushed, Shown
    <3>5. QED
      BY <1>5, <1>6, <3>3, <3>4 DEF KeyInv
  <2>6. QED
    BY <2>4, <2>5
<1>9. QED
  BY <1>3, <1>7, <1>8

LEMMA FinishKeys == KeyInv /\ Finish => KeyInv'
<1> SUFFICES ASSUME KeyInv, Finish PROVE KeyInv'
  OBVIOUS
<1>1. /\ pc = "finish" /\ pc' = "wait" /\ cmd' = None
      /\ UNCHANGED <<queue, axesLeft, plan, left, dangling, using, buttons, host, direct, busy>>
  BY DEF Finish, deviceVars
<1>2. KeyTypes'
  BY <1>1 DEF KeyInv, KeyTypes
<1>3. HostTypes' /\ Shown' /\ Planned'
  BY <1>1 DEF KeyInv, HostTypes, Shown, Shows, Planned
<1>4. Flushed'
  BY <1>1 DEF Flushed
<1>5. QED
  BY <1>2, <1>3, <1>4 DEF KeyInv

LEMMA KeyStepHolds ==
  ASSUME KeyInv, UserNext, user = "keyboard"
  PROVE  KeyInv'
<1>1. direct = "idle" /\ direct' = "idle" /\ axesLeft = {} /\ queue \in Seq(KeyboardCommands)
  BY DEF KeyInv, KeyTypes, UserNext
<1>2. CASE SendCommand
  <2>1. PICK c \in Commands : queue' = Append(queue, c)
    BY <1>2 DEF SendCommand
  <2>2. Len(queue) + 1 \in DOMAIN queue' /\ queue'[Len(queue) + 1] = c
    BY <1>1, <2>1
  <2>3. c \in KeyboardCommands
    BY <2>2 DEF UserNext
  <2>4. queue' \in Seq(KeyboardCommands)
    BY <1>1, <2>1, <2>3
  <2>5. UNCHANGED <<taskVars, dangling, using, buttons, host, direct, busy>>
    BY <1>2 DEF SendCommand, deviceVars
  <2>6. KeyTypes' /\ HostTypes'
    BY <2>4, <2>5 DEF KeyInv, KeyTypes, HostTypes, taskVars
  <2>7. Shown' /\ Planned' /\ Flushed'
    BY <2>5 DEF KeyInv, Shown, Shows, Planned, Flushed, taskVars
  <2>8. QED
    BY <2>6, <2>7 DEF KeyInv
<1>3. CASE TransferDone
  BY <1>1, <1>3, KeyStays DEF TransferDone
<1>4. CASE DirectStep
  BY <1>1, <1>4 DEF DirectStep, DirectBegin, DirectTry, DirectWrite, DirectRead, DirectEnd
<1>5. CASE CollectAxis
  BY <1>1, <1>5 DEF CollectAxis
<1>6. QED
  BY <1>2, <1>3, <1>4, <1>5, PopKeys, ExecuteKeys, IdleKeys, LockKeys, PrepareKeys, AwaitKeys,
     SendKeys, EndKeys, FinishKeys DEF UserNext, Next, TaskStep

LEMMA HostStepHolds == HostInv /\ [UserNext]_<<vars, user>> => HostInv'
<1> SUFFICES ASSUME HostInv, [UserNext]_<<vars, user>>, user' = "keyboard" PROVE KeyInv'
  BY DEF HostInv
<1>1. user = "keyboard" /\ KeyInv
  BY DEF HostInv, UserNext
<1>2. CASE UserNext
  BY <1>1, <1>2, KeyStepHolds
<1>3. CASE UNCHANGED <<vars, user>>
  <2>1. UNCHANGED <<queue, taskVars, dangling, using, buttons, host, direct, busy>>
    BY <1>3 DEF vars, deviceVars
  <2>2. KeyTypes' /\ HostTypes'
    BY <1>1, <2>1 DEF KeyInv, KeyTypes, HostTypes, taskVars
  <2>3. Shown' /\ Planned' /\ Flushed'
    BY <1>1, <2>1 DEF KeyInv, Shown, Shows, Planned, Flushed, taskVars
  <2>4. QED
    BY <2>2, <2>3 DEF KeyInv
<1>4. QED
  BY <1>2, <1>3

(* The invariant has what the run checks: at rest ...                      *)
LEMMA RestShows == KeyInv => HostShowsDangling
<1> SUFFICES ASSUME KeyInv, AtRest, Fits, NEW d \in Devices PROVE host[d] = Of(Down, d)
  BY DEF HostShowsDangling
<1>1. Down = KeysOf(dangling)
  BY DEF Down, KeysOf
<1>2. /\ dangling \in Seq(HeldCommands) /\ using \in BOOLEAN
      /\ using = TRUE => dangling # <<>>
      /\ d # K => host[d] = {}
      /\ using = TRUE \/ dangling = <<>>
      /\ Shows
  BY DEF KeyInv, KeyTypes, HostTypes, AtRest, Shown
<1>3. Down \in SUBSET KeyButtons
  <2>1. \A i \in DOMAIN dangling : dangling[i].keys \subseteq KeyButtons
    BY <1>2, KeyboardFacts DEF HeldCommands
  <2>2. QED
    BY <2>1 DEF Down
<1>4. host[K] = Down
  <2>1. CASE using = TRUE
    BY <1>1, <2>1 DEF KeyInv, AtRest, Shown, Shows, Fits
  <2>2. CASE using = FALSE
    <3>1. dangling = <<>> /\ host[K] = {}
      BY <1>2, <2>2 DEF Shows
    <3>2. Down = {}
      BY <3>1 DEF Down
    <3>3. QED
      BY <3>1, <3>2
  <2>3. QED
    BY <1>2, <2>1, <2>2
<1>5. QED
  BY <1>2, <1>3, <1>4, OfFacts

(* ... and before a release.                                               *)
LEMMA HeldYields == KeyInv => DanglingYields
<1> SUFFICES ASSUME KeyInv, pc = "lock", Head(plan).kind = "release", NEW d \in Devices
             PROVE  host[d] \intersect Down \subseteq cmd.keys \union ToSet(cmd.text)
  BY DEF DanglingYields
<1>1. plan[1].kind = "release"
  BY HeadFacts
<1>2. CASE d = K
  <2>1. dangling = <<>> \/ host[K] \subseteq Named(cmd)
    BY <1>1 DEF KeyInv, Flushed
  <2>2. dangling = <<>> => Down = {}
    BY DEF Down
  <2>3. QED
    BY <1>2, <2>1, <2>2 DEF Named
<1>3. CASE d # K
  BY <1>3 DEF KeyInv, HostTypes
<1>4. QED
  BY <1>2, <1>3

(* For someone who only uses the keyboard, the host sees at rest exactly   *)
(* the dangling keys, if they fit one report, and while a combination or a *)
(* symbol is held the other dangling keys are up: whatever the commands    *)
(* and the limits, and whenever the host reads the endpoint.               *)
THEOREM KeyboardIsShown == UserSpec => []KeyboardShowsDangling
<1>1. UserInit => HostInv
  BY KeyInitHolds DEF UserInit, HostInv
<1>2. HostInv /\ [UserNext]_<<vars, user>> => HostInv'
  BY HostStepHolds
<1>3. HostInv => KeyboardShowsDangling
  BY RestShows, HeldYields DEF HostInv, KeyboardShowsDangling
<1>4. QED
  BY <1>1, <1>2, <1>3, PTL DEF UserSpec
=============================================================================
