------------------------------- MODULE Controls -------------------------------
(***************************************************************************)
(* The controls of the browser pages (resource/lib.js, with the handlers   *)
(* of resource/index.js) that share their states through the server.       *)
(*                                                                         *)
(* A page keeps for each control whether it is "switched-on", tells the    *)
(* server, and applies in silence what the server tells it of the others.  *)
(* Messages carry a control and its new state; a message that changes no   *)
(* state ("click", a key of a repetition) is left out, and with it a key   *)
(* that stands for another control ("call:"): those of index.html call     *)
(* controls that keep no state.                                            *)
(***************************************************************************)
EXTENDS Integers, FiniteSets, Sequences, SequencesExt

CONSTANTS
  Pages,
  Controls,
  Class,      \* the class of each control
  GroupIds,   \* the controlling groups of each
  Simple,     \* switches in simplified mode: the same key in both states
  Count,      \* repeatCount of each, 0 for no end
  Used,       \* bound: sets of controls that are used together
  MaxQueue,   \* bound: messages under way when a user acts
  MaxTimers   \* bound: timers of one control when a user acts

Classes == {"oneshot", "switch", "repeat", "remote", "memo"}

ASSUME ClassAssumption == Class \in [Controls -> Classes]
ASSUME ControlsAssumption == IsFiniteSet(Controls)
ASSUME SimpleAssumption == \A c \in Simple : c \in Controls /\ Class[c] = "switch"
ASSUME CountAssumption == Count \in [Controls -> Nat]
ASSUME BoundAssumption == MaxQueue \in Nat /\ MaxTimers \in Nat

VARIABLES
  on,        \* "switched-on" of each control on each page
  locks,     \* ctrlLocker: the reasons for which a page's controls are disabled
  signed,    \* pages for which socket.available()
  task,      \* RepeatControl's task and its interval
  timers,    \* timeouts under way: of a simplified switch, of a task's end
  up, down,  \* messages under way, from and to each page
  asked,     \* "repeat" messages of each page that wait for an answer
  srv,       \* the server's control map
  runs,      \* repetitions the server's scheduler has
  apart      \* history: a page was changed behind the others' backs by a long
             \* tap, or what a user or a timer did there met what another page
             \* had said of the same group and was still under way

vars == <<on, locks, signed, task, timers, up, down, asked, srv, runs, apart>>

page == <<on, task, timers>>
server == <<srv, runs>>

(* SwitchControl and what inherits from it.                                *)
IsSwitch(c) == Class[c] \in {"switch", "repeat", "remote"}

NoTask == [live |-> FALSE, left |-> 0, held |-> FALSE, leaked |-> 0]

Init ==
  /\ on = [p \in Pages |-> {}]
  /\ locks = [p \in Pages |-> {"no_connection"}]
  /\ signed = {}
  /\ task = [p \in Pages |-> [c \in Controls |-> NoTask]]
  /\ timers = [p \in Pages |-> [c \in Controls |-> 0]]
  /\ up = [p \in Pages |-> <<>>]
  /\ down = [p \in Pages |-> <<>>]
  /\ asked = [p \in Pages |-> {}]
  /\ srv = {}
  /\ runs = {}
  /\ apart = FALSE

-----------------------------------------------------------------------------
(* setInterval and clearInterval on the handle a task keeps: what the      *)
(* handle no longer refers to is not stopped any more.                     *)
Start(t) == [t EXCEPT !.held = TRUE, !.leaked = IF t.held THEN @ + 1 ELSE @]
Stop(t) == [t EXCEPT !.live = FALSE, !.held = FALSE]

(* notifyGroupMembers: the others of the controlling groups that are on.   *)
Mates(c, d) == GroupIds[c] \intersect GroupIds[d] # {}

Members(p, c) == {d \in on[p] \ {c} : Mates(c, d) /\ IsSwitch(d)}

(* switchTo on the controls of a page, in silence: X turns off, Y on.      *)
Switched(p, X, Y) ==
  /\ on' = [on EXCEPT ![p] = (@ \ X) \union Y]
  /\ task' = [task EXCEPT ![p] = [c \in Controls |->
       IF c \in (X \intersect on[p]) \union Y /\ Class[c] = "repeat"
         THEN Stop(@[c]) ELSE @[c]]]

(* Mutant of Offs: a group is turned off in silence.                       *)
OffsUntold(X) == <<>>

Told(c, state) == [ctrl |-> c, state |-> state]
Offs(X) == [i \in 1 .. Cardinality(X) |-> Told(SetToSeq(X)[i], "switched-off")]

(* Handler of "fire": dropped if the socket is not available.              *)
Fire(p, messages) ==
  up' = IF p \in signed THEN [up EXCEPT ![p] = @ \o messages] ELSE up

(* What page p has not heard yet: messages on their way to it, and those   *)
(* of the other pages on their way to the server.                          *)
Unheard(p) == Range(down[p]) \union UNION {Range(up[q]) : q \in Pages \ {p}}

(* The user of p acts on c while another page's word on c, or on one of    *)
(* its groups, is under way.                                               *)
Met(p, c) == \E m \in Unheard(p) : m.ctrl = c \/ Mates(c, m.ctrl)

Crossed(p, c) == Told(c, "switched-on") \in Unheard(p)

InUse ==
  srv \union runs \union {c \in Controls : \E p \in Pages :
    \/ c \in on[p] \union asked[p] \/ timers[p][c] > 0 \/ task[p][c].live
    \/ \E m \in Range(up[p]) \union Range(down[p]) : m.ctrl = c}

Together(c) == \E U \in Used : c \in U /\ InUse \subseteq U

MayTap(p, c) ==
  /\ locks[p] = {}
  /\ timers[p][c] < MaxTimers
  /\ MapThenSumSet(LAMBDA q : Len(up[q]) + Len(down[q]), Pages) < MaxQueue
  /\ Together(c)

-----------------------------------------------------------------------------
OneshotClick(p, c) ==
  /\ Class[c] = "oneshot"
  /\ Switched(p, Members(p, c), {})
  /\ Fire(p, Offs(Members(p, c)))
  /\ UNCHANGED <<timers, asked>>

SwitchOn(p, c) ==
  /\ Class[c] = "switch"
  /\ c \notin on[p]
  /\ Switched(p, Members(p, c), {c})
  /\ Fire(p, Append(Offs(Members(p, c)), Told(c, "switched-on")))
  /\ timers' = IF c \in Simple THEN [timers EXCEPT ![p][c] = @ + 1] ELSE timers
  /\ UNCHANGED asked

SwitchOff(p, c) ==
  /\ Class[c] = "switch"
  /\ c \in on[p]
  /\ Switched(p, {c}, {})
  /\ Fire(p, <<Told(c, "switched-off")>>)
  /\ UNCHANGED <<timers, asked>>

(* 250 ms after a simplified switch was turned on; the server is told      *)
(* whether or not the switch was still on.                                 *)
Restore(p, c) ==
  /\ Class[c] = "switch"
  /\ timers[p][c] > 0
  /\ timers' = [timers EXCEPT ![p][c] = @ - 1]
  /\ Switched(p, {c}, {})
  /\ Fire(p, <<Told(c, "switched-off")>>)
  /\ apart' = (apart \/ (p \in signed /\ Crossed(p, c)))
  /\ UNCHANGED <<locks, signed, down, asked, server>>

-----------------------------------------------------------------------------
(* RepeatControl.switchTo: it calls SwitchControl's in silence, which has  *)
(* turned the group off before the group is to be told.                    *)
RepeatOn(p, c) ==
  /\ Class[c] = "repeat"
  /\ c \notin on[p]
  /\ on' = [on EXCEPT ![p] = (@ \ Members(p, c)) \union {c}]
  /\ LET begun == [live |-> Count[c] # 1, left |-> Count[c] - 1, held |-> FALSE,
                   leaked |-> task[p][c].leaked + IF task[p][c].held THEN 1 ELSE 0]
         stopped(d) == IF d \in Members(p, c) THEN Stop(task[p][d]) ELSE task[p][d]
     IN  task' = [task EXCEPT ![p] = [d \in Controls |->
           IF d # c THEN stopped(d) ELSE IF begun.live THEN Start(begun) ELSE begun]]
  /\ timers' = IF Count[c] = 1 THEN [timers EXCEPT ![p][c] = @ + 1] ELSE timers
  /\ Fire(p, <<Told(c, "switched-on")>>)
  /\ UNCHANGED asked

RepeatOff(p, c) ==
  /\ Class[c] = "repeat"
  /\ c \in on[p]
  /\ Switched(p, {c}, {})
  /\ Fire(p, <<Told(c, "switched-off")>>)
  /\ UNCHANGED <<timers, asked>>

(* handleTask, called by the interval: the last repetition ends the task.  *)
Counted(t) == IF t.left = 1 THEN Stop([t EXCEPT !.left = 0]) ELSE [t EXCEPT !.left = @ - 1]

HandleTask(p, c) ==
  /\ task[p][c].held
  /\ task[p][c].left > 0
  /\ task' = [task EXCEPT ![p][c] = Counted(@)]
  /\ timers' = IF task[p][c].left = 1 THEN [timers EXCEPT ![p][c] = @ + 1] ELSE timers
  /\ UNCHANGED <<on, locks, signed, up, down, asked, server, apart>>

(* The timeout of 0 that handleTask sets when a task ends.                 *)
RepeatEnd(p, c) ==
  /\ Class[c] = "repeat"
  /\ timers[p][c] > 0
  /\ timers' = [timers EXCEPT ![p][c] = @ - 1]
  /\ IF c \in on[p]
       THEN /\ Switched(p, {c}, {})
            /\ Fire(p, <<Told(c, "switched-off")>>)
            /\ apart' = (apart \/ (p \in signed /\ Crossed(p, c)))
       ELSE UNCHANGED <<on, task, up, apart>>
  /\ UNCHANGED <<locks, signed, down, asked, server>>

-----------------------------------------------------------------------------
(* RemoteRepeatControl.switchTo: the server repeats, and answers.          *)
RemoteSwitch(p, c) ==
  /\ Class[c] = "remote"
  /\ IF c \in on[p]
       THEN Switched(p, {c}, {}) /\ Fire(p, <<Told(c, "switched-off")>>)
       ELSE Switched(p, Members(p, c), {c}) /\ Fire(p, <<Told(c, "switched-on")>>)
  /\ asked' = IF p \in signed THEN [asked EXCEPT ![p] = @ \union {c}] ELSE asked
  /\ UNCHANGED timers

(* sendConf gives up after a second: the control is turned off.            *)
RemoteTimeout(p, c) ==
  /\ c \in asked[p]
  /\ asked' = [asked EXCEPT ![p] = @ \ {c}]
  /\ Switched(p, {c}, {})
  /\ UNCHANGED <<locks, signed, timers, up, down, server, apart>>

-----------------------------------------------------------------------------
(* A memo is set by a tap if it is not set, or by a double one; the group  *)
(* is not told. activate() changes nothing that is kept.                   *)
MemoSet(p, c) ==
  /\ Class[c] = "memo"
  /\ Switched(p, IF c \in on[p] THEN {} ELSE Members(p, c), {c})
  /\ Fire(p, <<Told(c, "switched-on")>>)
  /\ UNCHANGED <<timers, asked>>

MemoClear(p, c) ==
  /\ Class[c] = "memo"
  /\ Switched(p, {c}, {})
  /\ Fire(p, <<Told(c, "switched-off")>>)
  /\ UNCHANGED <<timers, asked>>

Tap(p, c) ==
  /\ MayTap(p, c)
  /\ \/ OneshotClick(p, c) \/ SwitchOn(p, c) \/ SwitchOff(p, c)
     \/ RepeatOn(p, c) \/ RepeatOff(p, c) \/ RemoteSwitch(p, c)
     \/ MemoSet(p, c) \/ MemoClear(p, c)
  /\ apart' = (apart \/ (p \in signed /\ Met(p, c)))
  /\ UNCHANGED <<locks, signed, down, server>>

(* A long tap turns a switch over without telling anyone.                  *)
LongTap(p, c) ==
  /\ MayTap(p, c)
  /\ IsSwitch(c)
  /\ IF c \in on[p] THEN Switched(p, {c}, {}) ELSE Switched(p, Members(p, c), {c})
  /\ apart' = (apart \/ p \in signed)
  /\ UNCHANGED <<locks, signed, timers, up, down, asked, server>>

-----------------------------------------------------------------------------
(* UiLocker.lock and unlock: the first reason disables the controls, which *)
(* stops the intervals of tasks under way; the last one enables them.      *)
PausedNever(p) == task  \* mutant of Paused

Paused(p) ==
  [task EXCEPT ![p] = [c \in Controls |->
     IF @[c].live /\ locks[p] = {} THEN [@[c] EXCEPT !.held = FALSE] ELSE @[c]]]

ResumedNever(tasks) == tasks  \* mutant of Resumed

Resumed(tasks) == [c \in Controls |-> IF tasks[c].live THEN Start(tasks[c]) ELSE tasks[c]]

Lock(p) ==
  /\ "configuration" \notin locks[p]
  /\ task' = Paused(p)
  /\ locks' = [locks EXCEPT ![p] = @ \union {"configuration"}]
  /\ UNCHANGED <<on, signed, timers, up, down, asked, server, apart>>

Unlock(p) ==
  /\ "configuration" \in locks[p]
  /\ locks' = [locks EXCEPT ![p] = @ \ {"configuration"}]
  /\ task' = IF locks'[p] = {} THEN [task EXCEPT ![p] = Resumed(@)] ELSE task
  /\ UNCHANGED <<on, signed, timers, up, down, asked, server, apart>>

(* ondisconnect: what is under way is lost, unanswered requests fail.      *)
Disconnect(p) ==
  /\ p \in signed
  /\ signed' = signed \ {p}
  /\ up' = [up EXCEPT ![p] = <<>>]
  /\ down' = [down EXCEPT ![p] = <<>>]
  /\ asked' = [asked EXCEPT ![p] = {}]
  /\ on' = [on EXCEPT ![p] = @ \ asked[p]]
  /\ task' = Paused(p)
  /\ locks' = [locks EXCEPT ![p] = @ \union {"no_connection"}]
  /\ UNCHANGED <<timers, server, apart>>

(* "authfail": the socket is unavailable until the page has signed in      *)
(* again, but its controls are not locked.                                 *)
Refused(p) ==
  /\ p \in signed
  /\ signed' = signed \ {p}
  /\ up' = [up EXCEPT ![p] = <<>>]
  /\ UNCHANGED <<page, locks, down, asked, server, apart>>

(* onauthorize: the controls are reset and enabled, and the server sends   *)
(* the states it has, in any order.                                        *)
Authorize(p) ==
  /\ p \notin signed
  /\ down[p] = <<>>
  /\ signed' = signed \union {p}
  /\ locks' = [locks EXCEPT ![p] = @ \ {"no_connection"}]
  /\ on' = [on EXCEPT ![p] = {}]
  /\ LET reset == [c \in Controls |-> IF c \in on[p] THEN Stop(task[p][c]) ELSE task[p][c]]
     IN  task' = [task EXCEPT ![p] =
           IF locks[p] = {"no_connection"} THEN Resumed(reset) ELSE reset]
  /\ \E order \in SetToSeqs(srv) :
       down' = [down EXCEPT ![p] = [i \in DOMAIN order |-> Told(order[i], "switched-on")]]
  /\ UNCHANGED <<timers, up, asked, server, apart>>

-----------------------------------------------------------------------------
(* Mutant of Applied: a control turned on by the server leaves its group.  *)
AppliedAlone(p, m) ==
  CASE m.state = "switched-on" /\ m.ctrl \notin on[p] -> Switched(p, {}, {m.ctrl})
    [] m.state = "switched-off" \/ (m.state = "rejected" /\ m.ctrl \in asked[p]) ->
         Switched(p, {m.ctrl}, {})
    [] OTHER -> UNCHANGED <<on, task>>

(* applyState of a message from the server, also to a locked page; the     *)
(* answer to a request that has timed out is ignored.                      *)
Applied(p, m) ==
  CASE m.state = "switched-on" /\ m.ctrl \notin on[p] ->
         Switched(p, Members(p, m.ctrl), {m.ctrl})
    [] m.state = "switched-off" \/ (m.state = "rejected" /\ m.ctrl \in asked[p]) ->
         Switched(p, {m.ctrl}, {})
    [] OTHER -> UNCHANGED <<on, task>>

Apply(p) ==
  /\ down[p] # <<>>
  /\ LET m == Head(down[p])
     IN  /\ Applied(p, m)
         /\ asked' = IF m.state \in {"accepted", "rejected"}
                       THEN [asked EXCEPT ![p] = @ \ {m.ctrl}] ELSE asked
  /\ down' = [down EXCEPT ![p] = Tail(@)]
  /\ UNCHANGED <<locks, signed, timers, up, server, apart>>

-----------------------------------------------------------------------------
(* The server (wsproto.h): its map of states, and the notification of all  *)
(* other clients that are signed in.                                       *)
Stored(m) == IF m.state = "switched-on" THEN srv \union {m.ctrl} ELSE srv \ {m.ctrl}

Notified(p, m) == [q \in Pages |-> IF q \in signed \ {p} THEN Append(down[q], m) ELSE down[q]]

ServeKb(p, m) ==
  /\ Class[m.ctrl] # "remote"
  /\ srv' = Stored(m)
  /\ down' = Notified(p, m)
  /\ UNCHANGED runs

(* "repeat": refused if the scheduler has, or does not have, the task.     *)
ServeRepeat(p, m) ==
  /\ Class[m.ctrl] = "remote"
  /\ \/ /\ (m.state = "switched-on") = (m.ctrl \notin runs)
        /\ runs' = IF m.state = "switched-on" THEN runs \union {m.ctrl} ELSE runs \ {m.ctrl}
        /\ srv' = Stored(m)
        /\ down' = [Notified(p, m) EXCEPT ![p] = Append(@, Told(m.ctrl, "accepted"))]
     \/ /\ (m.state = "switched-on") = (m.ctrl \in runs)
        /\ down' = [down EXCEPT ![p] = Append(@, Told(m.ctrl, "rejected"))]
        /\ UNCHANGED server

Serve(p) ==
  /\ up[p] # <<>>
  /\ ServeKb(p, Head(up[p])) \/ ServeRepeat(p, Head(up[p]))
  /\ up' = [up EXCEPT ![p] = Tail(@)]
  /\ UNCHANGED <<page, locks, signed, asked, apart>>

(* The last repetition on the server: nobody is told.                      *)
RunEnds(c) ==
  /\ c \in runs /\ Count[c] > 0
  /\ runs' = runs \ {c}
  /\ UNCHANGED <<page, locks, signed, up, down, asked, srv, apart>>

-----------------------------------------------------------------------------
Next ==
  \/ \E p \in Pages, c \in Controls :
       \/ Tap(p, c) \/ LongTap(p, c)
       \/ Restore(p, c) \/ HandleTask(p, c) \/ RepeatEnd(p, c) \/ RemoteTimeout(p, c)
  \/ \E p \in Pages :
       \/ Lock(p) \/ Unlock(p) \/ Disconnect(p) \/ Refused(p) \/ Authorize(p)
       \/ Apply(p) \/ Serve(p)
  \/ \E c \in Controls : RunEnds(c)

Spec == Init /\ [][Next]_vars

-----------------------------------------------------------------------------
Messages == [ctrl : Controls,
             state : {"switched-on", "switched-off", "accepted", "rejected"}]

TypeOK ==
  /\ on \in [Pages -> SUBSET Controls]
  /\ locks \in [Pages -> SUBSET {"no_connection", "configuration"}]
  /\ signed \subseteq Pages
  /\ task \in [Pages -> [Controls ->
       [live : BOOLEAN, left : Int, held : BOOLEAN, leaked : Nat]]]
  /\ timers \in [Pages -> [Controls -> Nat]]
  /\ up \in [Pages -> Seq(Messages)]
  /\ down \in [Pages -> Seq(Messages)]
  /\ asked \in [Pages -> SUBSET Controls]
  /\ srv \subseteq Controls
  /\ runs \subseteq Controls
  /\ apart \in BOOLEAN

(* Of the switches of a controlling group one at most is on, on every page *)
(* and at every moment, whoever turned it on: a tap, a long tap, another   *)
(* page, or the server's replay after a reconnection.                      *)
OneOfGroup ==
  \A p \in Pages : \A c, d \in on[p] :
    Mates(c, d) /\ IsSwitch(c) /\ IsSwitch(d) => c = d

(* No interval runs that the page could not stop any more, none on a       *)
(* locked page, and none for a control that is shown as off.               *)
NoGhostRepeats ==
  \A p \in Pages, c \in Controls :
    /\ task[p][c].leaked = 0
    /\ task[p][c].held => task[p][c].live /\ c \in on[p] /\ locks[p] = {}

(* Switches and oneshots say which of their groups they turn off, what     *)
(* repeats or remembers does not.                                          *)
Announced(C) ==
  \A c \in C, d \in Controls : Mates(c, d) => d \in C /\ Class[d] \in {"switch", "oneshot"}

(* Remote repetitions are not covered: the server tells nobody when one    *)
(* ends.                                                                   *)
Covered == {c \in Controls :
  Class[c] # "remote" /\ \E C \in SUBSET Controls : c \in C /\ Announced(C)}

(* Once all messages have arrived, the pages that are signed in show what  *)
(* the server holds, through groups, timers, lost connections and          *)
(* reconnections, however many messages are under way, unless two users    *)
(* acted on the same group at once or a long tap intervened.               *)
Quiet == \A p \in Pages : up[p] = <<>> /\ down[p] = <<>>

Agreement ==
  Quiet /\ ~apart => \A p \in signed, c \in Covered : c \in on[p] <=> c \in srv

(* A repetition that a lock paused goes on once the page is unlocked, and  *)
(* nothing else stops one in between: each task that is under way on an    *)
(* enabled page has its interval.                                          *)
RepeatsGoOn ==
  \A p \in Pages, c \in Controls :
    task[p][c].live /\ locks[p] = {} => task[p][c].held

(* What the pages show and what the server holds, of the right type,       *)
(* agree.                                                                  *)
StatesAgree == TypeOK /\ Agreement
=============================================================================
