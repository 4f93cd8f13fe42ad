---------------------------- MODULE CompositeTask ----------------------------
(***************************************************************************)
(* hid::compositeTask (main/hid/compositeTask.h): the task that turns the  *)
(* combinations clients send into USB reports of a keyboard, a mouse and   *)
(* two joysticks, and the direct access by which a joystick widget moves   *)
(* axes past its queue.                                                    *)
(*                                                                         *)
(* Three parties run here: whoever queues commands (the httpd task, and    *)
(* the scheduler for repeated ones), the keyboard task, and the httpd task *)
(* as the user of direct access.  They share the state of the joystick,    *)
(* its mutex, flushMutex and one USB endpoint, which takes one report at a *)
(* time.  A key is down for the host when the last report of its device    *)
(* that got through says so.                                               *)
(*                                                                         *)
(* Modifiers, the wheel and the position of the mouse are left out: no     *)
(* direct access reaches them, and a modifier behaves as a key that always *)
(* fits.  Delays are left out; where the task waits, the others may step.  *)
(***************************************************************************)
EXTENDS Integers, Sequences, FiniteSets, SequencesExt

CONSTANTS
  Buttons,      \* the keys and buttons that commands name
  DeviceOf,     \* the device of each of them
  Commands,     \* the commands that clients send
  KeyLimit,     \* keycodes of one keyboard report: 6
  LowJoystick,  \* the buttons in the lowest byte of joystick0's bitmap
  MaxDangling,  \* MAX_DANGLING_REPORTS: 8
  QueueSize,    \* reports the queue holds: 25
  Positions,    \* values that axes take
  Center,       \* AXIS_MIDDLE, where they start
  Widgets       \* positions that widgets send by direct access

Devices == {"keyboard", "mouse", "joystick0", "joystick1"}
Presses == {"press", "doubletap", "down", "up"}
Axes    == 1 .. 2
Js      == "joystick0"    \* the one joystick of the default build

(* A command holds buttons, moves the axes of some devices, or types.      *)
CommandType ==
  [keys : SUBSET Buttons, moves : SUBSET Devices, to : Positions,
   press : Presses, text : Seq(Buttons)]

ASSUME ButtonAssumption == DeviceOf \in [Buttons -> Devices]
ASSUME CommandAssumption ==
  \A c \in Commands : c \in CommandType /\ IsFiniteSet(c.keys)
ASSUME LimitAssumption ==
  KeyLimit \in Nat /\ MaxDangling \in Nat /\ QueueSize \in Nat
ASSUME AxisAssumption == Center \in Positions /\ Widgets \subseteq Positions
ASSUME LowAssumption == \A b \in LowJoystick : DeviceOf[b] = Js

VARIABLES
  queue,      \* the queue of reports
  pc,         \* where the keyboard task stands
  cmd,        \* current: the command it executes
  axesLeft,   \* axes of that command not written yet
  locked,     \* ctx.lockedDev: whether it took the joystick's mutex
  plan,       \* the flushes that the command still needs
  left,       \* devices that the current flush has not reported yet
  dangling,   \* danglingCommands
  using,      \* usingDanglingKeys
  buttons,    \* the buttons next to report: of a joystick or the mouse, its
              \* state.*.unsafe.buttons; of the keyboard, those of the flush
  axis,       \* state.joystick0.unsafe, its axes
  jsMutex,    \* who holds state.joystick0.mutex
  flushMutex, \* who holds flushMutex
  busy,       \* the endpoint still transfers a report
  host,       \* the buttons that are down, as the host sees each device
  hostAxis,   \* the joystick's axes, as the host sees them
  direct,     \* where the httpd task stands in a direct access
  wish        \* the position that access is to set

taskVars   == <<pc, cmd, axesLeft, locked, plan, left>>
deviceVars == <<buttons, axis, busy, host, hostAxis>>
vars == <<queue, taskVars, dangling, using, jsMutex, flushMutex, deviceVars,
          direct, wish>>

-----------------------------------------------------------------------------
Of(keys, d) == {b \in keys : DeviceOf[b] = d}
Pending(c)  == {DeviceOf[b] : b \in c.keys} \union c.moves

Only(d, D) == IF d \in D THEN <<d>> ELSE <<>>

InOrder(order, D) ==
  Only(order[1], D) \o Only(order[2], D) \o Only(order[3], D) \o Only(order[4], D)

PushOrder    == <<"keyboard", "mouse", "joystick0", "joystick1">>
ReleaseOrder == <<"joystick0", "joystick1", "mouse", "keyboard">>
FlagOrder    == <<"keyboard", "joystick0", "joystick1", "mouse">>

(* A command that does nothing is not executed.                            *)
Empty(c) == Pending(c) = {} /\ c.text = <<>>

(* evaluateCommandFlags: the press type comes from the first device of the *)
(* command, and only its buttons carry one.                                *)
Flags(c) ==
  LET first == Head(InOrder(FlagOrder, Pending(c)))
  IN  IF Of(c.keys, first) = {} THEN "unspecified" ELSE c.press

(* A flush: press or release these buttons, one report for each device.    *)
Flush(kind, keys, D) == [kind |-> kind, keys |-> keys, devices |-> D]
Release(c) == Flush("release", {}, Pending(c))

(* mergeCommands appends keycodes, the same one twice if need be.  When    *)
(* they do not fit it gives up: what fits is kept (which of them depends   *)
(* on their order), all that comes after the keyboard is not merged.  The  *)
(* end of a full array is looked for in the byte after it, which is the    *)
(* lowest one of the joystick's buttons.                                   *)
Merge(target, c) ==
  LET keycodes == Of(c.keys, "keyboard")
      room     == KeyLimit - target.slots
      length   == Cardinality(keycodes)
      fits     == /\ length <= room
                  /\ length = KeyLimit => c.keys \intersect LowJoystick = {}
      kept     == IF length <= room THEN keycodes
                  ELSE CHOOSE S \in SUBSET keycodes : Cardinality(S) = room
  IN  IF fits
        THEN [keys    |-> target.keys \union c.keys,
              slots   |-> target.slots + length,
              devices |-> target.devices \union Pending(c)]
        ELSE [target EXCEPT !.keys = @ \union kept, !.slots = KeyLimit]

MergedOf(list) ==
  LET Merged[k \in 0 .. Len(list)] ==
        IF k = 0 THEN [keys |-> {}, slots |-> 0, devices |-> {}]
        ELSE Merge(Merged[k - 1], list[k])
  IN  Merged[Len(list)]

Push(c) == Flush("push", c.keys, Pending(c))

PushMerged(list) == Flush("push", MergedOf(list).keys, MergedOf(list).devices)

(* addDanglingCommand and removeDanglingKeys.                              *)
Same(c)   == {i \in DOMAIN dangling : dangling[i].keys = c.keys}
CanAdd(c) == Len(dangling) < MaxDangling /\ Same(c) = {}

(* eraseByReplace: the last command takes the place of the removed one.    *)
Without(i) == Front([dangling EXCEPT ![i] = Last(dangling)])

(* executeTyping: every symbol is pushed and released.                     *)
Typing(c) ==
  [i \in 1 .. 2 * Len(c.text) |->
     IF i % 2 = 1 THEN Flush("push", {c.text[(i + 1) \div 2]}, {"keyboard"})
     ELSE Flush("release", {}, {"keyboard"})]

-----------------------------------------------------------------------------
(* current = {}: the task holds no command.                                *)
None == [keys |-> {}, moves |-> {}, to |-> Center, press |-> "press",
         text |-> <<>>]

Init ==
  /\ queue = <<>>
  /\ pc = "wait"
  /\ cmd = None
  /\ axesLeft = {}
  /\ locked = FALSE
  /\ plan = <<>>
  /\ left = <<>>
  /\ dangling = <<>>
  /\ using = FALSE
  /\ buttons = [d \in Devices |-> {}]
  /\ axis = [a \in Axes |-> Center]
  /\ jsMutex = "free"
  /\ flushMutex = "free"
  /\ busy = FALSE
  /\ host = [d \in Devices |-> {}]
  /\ hostAxis = [a \in Axes |-> Center]
  /\ direct = "idle"
  /\ wish = Center

(* push_back: a full queue refuses the report at once.                     *)
SendCommand ==
  /\ Len(queue) < QueueSize
  /\ \E c \in Commands : queue' = Append(queue, c)
  /\ UNCHANGED <<taskVars, dangling, using, jsMutex, flushMutex, deviceVars,
                 direct, wish>>

-----------------------------------------------------------------------------
Pop ==
  /\ pc = "wait"
  /\ queue # <<>>
  /\ queue' = Tail(queue)
  /\ cmd' = Head(queue)
  /\ axesLeft' = IF Js \in Head(queue).moves THEN Axes ELSE {}
  /\ pc' = "collect"
  /\ UNCHANGED <<locked, plan, left, dangling, using, jsMutex, flushMutex,
                 deviceVars, direct, wish>>

(* collect: the first axis takes the joystick's mutex; then they are       *)
(* written one by one.                                                     *)
CollectAxis ==
  /\ pc = "collect"
  /\ \E a \in axesLeft :
       /\ \A other \in axesLeft : a <= other
       /\ locked \/ jsMutex = "free"
       /\ axis' = [axis EXCEPT ![a] = cmd.to]
       /\ axesLeft' = axesLeft \ {a}
  /\ locked' = TRUE
  /\ jsMutex' = "task"
  /\ UNCHANGED <<queue, pc, cmd, plan, left, dangling, using, flushMutex,
                 buttons, busy, host, hostAxis, direct, wish>>

(* The flushes of a command, and what it does to the dangling ones.        *)
Plan(flushes) ==
  /\ plan' = flushes
  /\ pc' = IF flushes = <<>> THEN "finish" ELSE "lock"

(* Mutant of ExecutePress: the dangling keys are still taken for shown.    *)
PressKeepsUsing ==
  /\ \/ cmd.text # <<>> /\ Plan(Typing(cmd))
     \/ /\ cmd.text = <<>>
        /\ Flags(cmd) \in {"unspecified", "press", "doubletap"}
        /\ Plan(<<Push(cmd), Release(cmd)>>)
  /\ UNCHANGED <<dangling, using>>

ExecutePress ==
  /\ \/ cmd.text # <<>> /\ Plan(Typing(cmd))
     \/ /\ cmd.text = <<>>
        /\ \/ Flags(cmd) = "unspecified" /\ Plan(<<Push(cmd)>>)
           \/ Flags(cmd) = "press" /\ Plan(<<Push(cmd), Release(cmd)>>)
           \/ /\ Flags(cmd) = "doubletap"
              /\ Plan(<<Push(cmd), Release(cmd), Push(cmd), Release(cmd)>>)
  /\ using' = FALSE
  /\ UNCHANGED dangling

ExecuteDown ==
  /\ cmd.text = <<>> /\ Flags(cmd) = "down"
  /\ \/ /\ CanAdd(cmd)
        /\ dangling' = Append(dangling, cmd)
        /\ Plan(IF using THEN <<PushMerged(dangling')>> ELSE <<>>)
     \/ /\ ~CanAdd(cmd)
        /\ Plan(<<>>)
        /\ UNCHANGED dangling
  /\ UNCHANGED using

ExecuteUp ==
  /\ cmd.text = <<>> /\ Flags(cmd) = "up"
  /\ \/ \E i \in Same(cmd) :
          /\ dangling' = Without(i)
          /\ Plan(CASE ~using                       -> <<>>
                    [] using /\ dangling' # <<>> -> <<PushMerged(dangling')>>
                    [] using /\ dangling' = <<>> -> <<Release(cmd)>>)
          /\ using' = (using /\ dangling' # <<>>)
     \/ /\ Same(cmd) = {}
        /\ Plan(<<>>)
        /\ UNCHANGED <<dangling, using>>

Execute ==
  /\ pc = "collect"
  /\ axesLeft = {}
  /\ \/ Empty(cmd) /\ Plan(<<>>) /\ UNCHANGED <<dangling, using>>
     \/ ~Empty(cmd) /\ (ExecutePress \/ ExecuteDown \/ ExecuteUp)
  /\ UNCHANGED <<queue, cmd, axesLeft, locked, left, jsMutex, flushMutex,
                 deviceVars, direct, wish>>

(* Mutant of Idle: a single dangling command does not count as any.        *)
IdleIfMany ==
  /\ pc = "wait"
  /\ queue = <<>>
  /\ Len(dangling) > 1
  /\ ~using
  /\ Plan(<<PushMerged(dangling)>>)
  /\ using' = TRUE
  /\ UNCHANGED <<queue, cmd, axesLeft, locked, left, dangling, jsMutex,
                 flushMutex, deviceVars, direct, wish>>

(* The queue stayed empty for 30 ms: the dangling keys go down again.      *)
Idle ==
  /\ pc = "wait"
  /\ queue = <<>>
  /\ dangling # <<>>
  /\ ~using
  /\ Plan(<<PushMerged(dangling)>>)
  /\ using' = TRUE
  /\ UNCHANGED <<queue, cmd, axesLeft, locked, left, dangling, jsMutex,
                 flushMutex, deviceVars, direct, wish>>

-----------------------------------------------------------------------------
(* flushPush and flushRelease, under flushMutex: for each device, set its  *)
(* buttons, wait until the endpoint is ready, hand the report over.        *)
LockFlush ==
  /\ pc = "lock"
  /\ flushMutex = "free"
  /\ flushMutex' = "task"
  /\ left' = InOrder(IF Head(plan).kind = "push" THEN PushOrder
                     ELSE ReleaseOrder, Head(plan).devices)
  /\ pc' = "prepare"
  /\ UNCHANGED <<queue, cmd, axesLeft, locked, plan, dangling, using, jsMutex,
                 deviceVars, direct, wish>>

Prepare ==
  /\ pc = "prepare"
  /\ left # <<>>
  /\ buttons' = [buttons EXCEPT ![Head(left)] = Of(Head(plan).keys, Head(left))]
  /\ pc' = "await"
  /\ UNCHANGED <<queue, cmd, axesLeft, locked, plan, left, dangling, using,
                 jsMutex, flushMutex, axis, busy, host, hostAxis, direct, wish>>

AwaitReady ==
  /\ pc = "await"
  /\ ~busy
  /\ pc' = "send"
  /\ UNCHANGED <<queue, cmd, axesLeft, locked, plan, left, dangling, using,
                 jsMutex, flushMutex, deviceVars, direct, wish>>

(* tud_hid_report: a report for an endpoint that is busy is lost, and no   *)
(* caller looks at the result.                                             *)
Report(d) ==
  \/ /\ ~busy
     /\ busy' = TRUE
     /\ host' = [host EXCEPT ![d] = buttons[d]]
     /\ hostAxis' = IF d = Js THEN axis ELSE hostAxis
  \/ /\ busy
     /\ UNCHANGED <<busy, host, hostAxis>>

SendReport ==
  /\ pc = "send"
  /\ Report(Head(left))
  /\ left' = Tail(left)
  /\ pc' = "prepare"
  /\ UNCHANGED <<queue, cmd, axesLeft, locked, plan, dangling, using, jsMutex,
                 flushMutex, buttons, axis, direct, wish>>

EndFlush ==
  /\ pc = "prepare"
  /\ left = <<>>
  /\ flushMutex' = "free"
  /\ plan' = Tail(plan)
  /\ pc' = IF Len(plan) = 1 THEN "finish" ELSE "lock"
  /\ UNCHANGED <<queue, cmd, axesLeft, locked, left, dangling, using, jsMutex,
                 deviceVars, direct, wish>>

(* releaseDevLocks, and the next turn of the task's loop.                  *)
Finish ==
  /\ pc = "finish"
  /\ jsMutex' = IF locked THEN "free" ELSE jsMutex
  /\ locked' = FALSE
  /\ cmd' = None
  /\ pc' = "wait"
  /\ UNCHANGED <<queue, axesLeft, plan, left, dangling, using, flushMutex,
                 deviceVars, direct, wish>>

(* The host polls the endpoint.                                            *)
TransferDone ==
  /\ busy
  /\ busy' = FALSE
  /\ UNCHANGED <<queue, taskVars, dangling, using, jsMutex, flushMutex,
                 buttons, axis, host, hostAxis, direct, wish>>

-----------------------------------------------------------------------------
(* directJoystick(nowait): ready or not, the guardian is made; it owns the *)
(* two mutexes only if both could be taken.                                *)
DirectBegin ==
  /\ direct = "idle"
  /\ \E v \in Widgets : wish' = v
  /\ direct' = IF busy THEN "refused" ELSE "try"
  /\ UNCHANGED <<queue, taskVars, dangling, using, jsMutex, flushMutex,
                 deviceVars>>

BothFree == jsMutex = "free" /\ flushMutex = "free"

TakeBoth == jsMutex' = "httpd" /\ flushMutex' = "httpd"

(* Mutant of DirectTry: only flushMutex is asked for.                      *)
TryFlushOnly ==
  /\ direct = "try"
  /\ \/ flushMutex = "free" /\ TakeBoth /\ direct' = "write"
     \/ /\ flushMutex # "free"
        /\ direct' = "refused"
        /\ UNCHANGED <<jsMutex, flushMutex>>
  /\ UNCHANGED <<queue, taskVars, dangling, using, deviceVars, wish>>

DirectTry ==
  /\ direct = "try"
  /\ \/ BothFree /\ TakeBoth /\ direct' = "write"
     \/ ~BothFree /\ direct' = "refused" /\ UNCHANGED <<jsMutex, flushMutex>>
  /\ UNCHANGED <<queue, taskVars, dangling, using, deviceVars, wish>>

DirectWrite ==
  /\ direct = "write"
  /\ axis' = [a \in Axes |-> wish]
  /\ direct' = "report"
  /\ UNCHANGED <<queue, taskVars, dangling, using, jsMutex, flushMutex,
                 buttons, busy, host, hostAxis, wish>>

(* A client that signs in reads the axes: this access waits for its locks. *)
DirectRead ==
  /\ direct = "idle"
  /\ Widgets # {}
  /\ BothFree
  /\ TakeBoth
  /\ direct' = "report"
  /\ UNCHANGED <<queue, taskVars, dangling, using, deviceVars, wish>>

(* The guardian's destructor reports the state whether or not it owned the *)
(* locks, and gives them back if it did.                                   *)
DirectEnd ==
  /\ direct \in {"report", "refused"}
  /\ Report(Js)
  /\ jsMutex' = IF direct = "report" THEN "free" ELSE jsMutex
  /\ flushMutex' = IF direct = "report" THEN "free" ELSE flushMutex
  /\ direct' = "idle"
  /\ wish' = Center
  /\ UNCHANGED <<queue, taskVars, dangling, using, buttons, axis>>

-----------------------------------------------------------------------------
TaskStep ==
  \/ Pop \/ CollectAxis \/ Execute \/ Idle
  \/ LockFlush \/ Prepare \/ AwaitReady \/ SendReport \/ EndFlush \/ Finish

DirectStep == DirectBegin \/ DirectTry \/ DirectWrite \/ DirectRead \/ DirectEnd

Next == SendCommand \/ TaskStep \/ TransferDone \/ DirectStep

Spec == Init /\ [][Next]_vars

(* The task goes on when the locks and the endpoint let it, and a direct   *)
(* access ends.  A widget sends far slower than the task polls and the     *)
(* host reads, so neither shuts the task out for ever.                     *)
Fairness ==
  /\ WF_vars(Pop) /\ WF_vars(Execute) /\ WF_vars(Idle) /\ WF_vars(Prepare)
  /\ WF_vars(SendReport) /\ WF_vars(EndFlush) /\ WF_vars(Finish)
  /\ SF_vars(CollectAxis) /\ SF_vars(LockFlush) /\ SF_vars(AwaitReady)
  /\ WF_vars(TransferDone)
  /\ WF_vars(DirectTry) /\ WF_vars(DirectWrite) /\ WF_vars(DirectEnd)

FairSpec == Spec /\ Fairness

-----------------------------------------------------------------------------
TypeOK ==
  /\ queue \in Seq(Commands) /\ Len(queue) <= QueueSize
  /\ pc \in {"wait", "collect", "lock", "prepare", "await", "send", "finish"}
  /\ cmd \in Commands \union {None}
  /\ axesLeft \subseteq Axes
  /\ locked \in BOOLEAN
  /\ \A i \in DOMAIN plan : /\ plan[i].kind \in {"push", "release"}
                           /\ plan[i].keys \subseteq Buttons
                           /\ plan[i].devices \subseteq Devices
  /\ left \in Seq(Devices)
  /\ dangling \in Seq(Commands) /\ Len(dangling) <= MaxDangling
  /\ using \in BOOLEAN
  /\ buttons \in [Devices -> SUBSET Buttons]
  /\ axis \in [Axes -> Positions]
  /\ jsMutex \in {"free", "task", "httpd"}
  /\ flushMutex \in {"free", "task", "httpd"}
  /\ busy \in BOOLEAN
  /\ host \in [Devices -> SUBSET Buttons]
  /\ hostAxis \in [Axes -> Positions]
  /\ direct \in {"idle", "try", "write", "report", "refused"}
  /\ wish \in Positions

Down == UNION {dangling[i].keys : i \in DOMAIN dangling}

(* Nothing is queued or executed, and the idle task has nothing to repeat. *)
AtRest == pc = "wait" /\ queue = <<>> /\ (using \/ dangling = <<>>)

Fits == MergedOf(dangling).keys = Down

(* At rest the host sees exactly the dangling keys down: a combination was *)
(* released, a key that went "up" is up, a dangling one is pressed again.  *)
(* Dangling keys that do not fit one report together are no concern.       *)
HostShowsDangling ==
  AtRest /\ Fits => \A d \in Devices : host[d] = Of(Down, d)

(* While a combination or a typed symbol is held, the dangling keys that   *)
(* do not belong to it are up for the host.                                *)
DanglingYields ==
  pc = "lock" /\ Head(plan).kind = "release" =>
    \A d \in Devices :
      host[d] \intersect Down \subseteq cmd.keys \union ToSet(cmd.text)

(* From its last axis to the end of the command that moves it, the         *)
(* joystick stays where the command put it, whatever widgets send.         *)
AxesHeld ==
  locked /\ axesLeft = {} => \A a \in Axes : axis[a] = cmd.to

(* The task comes back to its queue from every command: no mutex that it   *)
(* or a direct access forgot, no endpoint it waits for in vain.            *)
TaskReturns == pc # "wait" ~> pc = "wait"

(* Dangling keys go down (again) once no command comes.                    *)
HeldComesBack ==
  dangling # <<>> /\ ~using ~> using \/ dangling = <<>> \/ queue # <<>>

(* The task comes back to its queue, and to the dangling keys.             *)
TaskGoesOn == TaskReturns /\ HeldComesBack
=============================================================================
