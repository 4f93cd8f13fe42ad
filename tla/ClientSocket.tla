----------------------------- MODULE ClientSocket -----------------------------
(***************************************************************************)
(* wsocket("/socks") of the browser client (resource/lib.js) as            *)
(* resource/index.js uses it: begin() once, end() when the page goes, the  *)
(* session renewed through "/renew", keepAlive(5000).                      *)
(*                                                                         *)
(* The page runs one event at a time.  An event (a socket opened or        *)
(* closed, an answer, a timer, a page event) is one step; the promise      *)
(* callbacks it sets off run before the next event, each as a step of its  *)
(* own: first monitorHelper, then the handlers of the tasks that failed or *)
(* went on, in any order.  "The context" is privateCtx.context, the last   *)
(* socket openTask made: handlers read it anew, whatever socket they were  *)
(* registered for.                                                         *)
(*                                                                         *)
(* The identity is taken as computed before the socket opens.  connect(),  *)
(* reconnect() and signal are not used by index.js and left out, as is the *)
(* message "sessionclose", which the server does not send.                 *)
(***************************************************************************)
EXTENDS Integers

CONSTANTS
  Sockets,       \* names of WebSocket objects, used again once forgotten
  None,
  KeepAlive,     \* SOCKET_KEEP_ALIVE_TIMEOUT > 0 in the server's build
  MaxRecoveries  \* bound: recoveries from sleep

ASSUME NameAssumption == Sockets \intersect {None, "end", "again", "renew"} = {}
ASSUME KeepAliveAssumption == KeepAlive \in BOOLEAN
ASSUME BoundAssumption == MaxRecoveries \in Nat

(* Promise chains: connectTask of each socket, disconnectTask of end() and *)
(* of the recovery from sleep, authorizeTask of authFailureHandler.        *)
Tasks == Sockets \union {"end", "again", "renew"}

(* Close codes by what monitorHelper makes of them: 1001, 1011 and 3002;   *)
(* 3003; 1005; 3001; all others.                                           *)
Codes == {"final", "unauthorized", "none", "timeout", "lost"}

ASSUME NoneAssumption == None \notin Codes

VARIABLES
  context,    \* privateCtx.context
  ws,         \* readyState of each socket; "aborting" is CLOSING before OPEN
  status,     \* context.status: that of no other socket is ever read
  watched,    \* sockets whose closed promise leads to monitorHelper
  task,       \* where each chain is, and the socket it waits for
  reason,     \* the code monitorHelper is about to be called with, or None
  lastCode,   \* lastDisconnectReason.code
  reconnect,  \* privateCtx.reconnect
  session,    \* whether privateCtx.session holds the callbacks
  errors,     \* sessionErrors
  recovering, \* calls of recoverCB under way
  timers,     \* sockets that were the context when a 3 s timer was set
  ticking,    \* whether kaHandler was ever called
  late,       \* whether two intervals went by since kaWakeAt
  wasSignedIn, \* kaWakeStatus === SocketAuthorize
  recoveries  \* recoveries from sleep so far

vars == <<context, ws, status, watched, task, reason, lastCode, reconnect,
          session, errors, recovering, timers, ticking, late, wasSignedIn,
          recoveries>>

sleep == <<ticking, late, wasSignedIn, recoveries>>
renewal == <<errors, recovering, timers>>

Idle == [at |-> "none", on |-> None]
At(step, c) == [at |-> step, on |-> c]

Init ==
  /\ context = None
  /\ ws = [c \in Sockets |-> "closed"]
  /\ status = "init"
  /\ watched = {}
  /\ task = [i \in Tasks |-> Idle]
  /\ reason = None
  /\ lastCode = None
  /\ reconnect = FALSE
  /\ session = FALSE
  /\ errors = 0
  /\ recovering = 0
  /\ timers = {}
  /\ ticking = FALSE
  /\ late = FALSE
  /\ wasSignedIn = FALSE
  /\ recoveries = 0

-----------------------------------------------------------------------------
Live == {c \in Sockets : ws[c] # "closed"}

(* A chain that a promise settled: its next callback is due.               *)
Due(i) == \/ task[i].at \in {"failed", "over"}
          \/ task[i].at \in {"opening", "closing", "shut"} /\ task[i].on \notin Live

(* No callback is due: the page takes the next event.                      *)
Quiet == reason = None /\ \A i \in Tasks : ~Due(i)

(* A name no one refers to.                                                *)
Fresh(c) == /\ c \notin Live \union timers \union {context}
            /\ task[c] = Idle
            /\ \A i \in Tasks : task[i].on # c

(* connectTask: openTask makes a new socket the context, whatever the old  *)
(* one is doing; its closed promise then gets monitorHelper, or not.       *)
Connect(others, watch) ==
  LET c == CHOOSE x \in Sockets : Fresh(x)
  IN  /\ \E x \in Sockets : Fresh(x)
      /\ context' = c
      /\ ws' = [ws EXCEPT ![c] = "connecting"]
      /\ status' = "init"
      /\ task' = [others EXCEPT ![c] = At("opening", c)]
      /\ watched' = IF watch THEN watched \union {c} ELSE watched

(* socket.close() on the context.                                          *)
Closing == [ws EXCEPT ![context] = IF @ = "connecting" THEN "aborting"
                                   ELSE IF @ = "open" THEN "closing" ELSE @]

-----------------------------------------------------------------------------
Begin ==
  /\ context = None
  /\ Connect(task, TRUE)
  /\ reconnect' = TRUE
  /\ session' = TRUE
  /\ UNCHANGED <<reason, lastCode, renewal, sleep>>

(* socketOpenHandler, then authorizeTask.  It throws when end() took the   *)
(* callbacks, or when the context is another socket still connecting.      *)
Opened(c) ==
  /\ Quiet
  /\ ws[c] = "connecting"
  /\ ws' = [ws EXCEPT ![c] = "open"]
  /\ status' = "open"
  /\ task' = [task EXCEPT ![c] =
       IF session /\ ws'[context] # "connecting" THEN At("auth", context)
                                                 ELSE At("failed", None)]
  /\ UNCHANGED <<context, watched, reason, lastCode, reconnect, session,
                 renewal, sleep>>

(* Mutant of Closed: the status is left after a clean close.               *)
ClosedCleanly(c, code) ==
  /\ Quiet
  /\ \/ ws[c] \in {"connecting", "aborting"} /\ code = "lost"
     \/ ws[c] \in {"open", "closing"} /\ (code = "timeout" => KeepAlive)
  /\ ws' = [ws EXCEPT ![c] = "closed"]
  /\ status' = IF code = "lost" THEN "closed" ELSE status
  /\ lastCode' = code
  /\ task' = [i \in Tasks |-> IF task[i].at \in {"auth", "leave"}
                                THEN At("failed", None) ELSE task[i]]
  /\ reason' = IF c \in watched THEN code ELSE None
  /\ watched' = watched \ {c}
  /\ UNCHANGED <<context, reconnect, session, renewal, sleep>>

(* socketCloseHandler: every request still unanswered is rejected.         *)
Closed(c, code) ==
  /\ Quiet
  /\ \/ ws[c] \in {"connecting", "aborting"} /\ code = "lost"
     \/ ws[c] \in {"open", "closing"} /\ (code = "timeout" => KeepAlive)
  /\ ws' = [ws EXCEPT ![c] = "closed"]
  /\ status' = "closed"
  /\ lastCode' = code
  /\ task' = [i \in Tasks |-> IF task[i].at \in {"auth", "leave"}
                                THEN At("failed", None) ELSE task[i]]
  /\ reason' = IF c \in watched THEN code ELSE None
  /\ watched' = watched \ {c}
  /\ UNCHANGED <<context, reconnect, session, renewal, sleep>>

-----------------------------------------------------------------------------
(* monitorHelper, by the code of the lost connection.                      *)
Ignore ==
  /\ ~reconnect \/ reason = "final" \/ (reason = "timeout" /\ late)
  /\ UNCHANGED <<context, ws, status, watched, task, errors, recovering, timers>>

(* Mutants of Recover: as if "break" were missing and the case of 1005     *)
(* followed; without the limit.                                            *)
RecoverFallsThrough ==
  /\ reconnect
  /\ reason = "unauthorized"
  /\ errors < 1 /\ recovering' = recovering + 1 /\ errors' = errors + 1
  /\ timers' = timers \union {context}
  /\ UNCHANGED <<context, ws, status, watched, task>>

(* 3003: once until the next sign-in (what sessionErrors counts beyond one *)
(* makes no difference), recoverCB is asked to renew the session.          *)
Recover ==
  /\ reconnect
  /\ reason = "unauthorized"
  /\ \/ /\ errors < 1
        /\ recovering' = recovering + 1
        /\ errors' = errors + 1
     \/ errors >= 1 /\ UNCHANGED <<recovering, errors>>
  /\ UNCHANGED <<context, ws, status, watched, task, timers>>

ConnectLater ==
  /\ reconnect
  /\ reason = "none"
  /\ timers' = timers \union {context}
  /\ UNCHANGED <<context, ws, status, watched, task, errors, recovering>>

ConnectNow ==
  /\ reconnect
  /\ reason = "lost" \/ (reason = "timeout" /\ ~late)
  /\ Connect(task, TRUE)
  /\ UNCHANGED <<errors, recovering, timers>>

Monitor ==
  /\ reason # None
  /\ Ignore \/ Recover \/ ConnectLater \/ ConnectNow
  /\ reason' = None
  /\ UNCHANGED <<lastCode, reconnect, session, sleep>>

-----------------------------------------------------------------------------
Disconnecting(i) == i \in {"end", "again"}

(* connectionErrorHandler: what is done about the context depends on its   *)
(* status.  It signs off first; it closes the socket; there is nothing to  *)
(* close.  A chain that disconnects goes on when the socket has closed; of *)
(* a chain that connected nothing more comes.                              *)
SignOff(i) ==
  /\ status = "authorized"
  /\ task' = [task EXCEPT ![i] = At("leave", context)]
  /\ UNCHANGED <<ws, status>>

CloseTask(i) ==
  /\ status = "open"
  /\ ws' = Closing
  /\ task' = [task EXCEPT ![i] =
                IF Disconnecting(i) THEN At("closing", context) ELSE Idle]
  /\ UNCHANGED status

GiveUp(i) ==
  /\ status \in {"init", "closed"}
  /\ status' = "closed"
  /\ task' = [task EXCEPT ![i] =
                IF Disconnecting(i) THEN At("over", None) ELSE Idle]
  /\ UNCHANGED ws

ConnectionErrorHandler(i) ==
  /\ i # "renew"
  /\ task[i].at \in {"failed", "opening"} /\ Due(i)
  /\ SignOff(i) \/ CloseTask(i) \/ GiveUp(i)
  /\ UNCHANGED <<context, watched, session>>

(* authFailureHandler has no handler for a failure.                        *)
RenewFails ==
  /\ task["renew"].at = "failed"
  /\ task' = [task EXCEPT !["renew"] = Idle]
  /\ UNCHANGED <<context, ws, status, watched, session>>

(* The second half of disconnectTask: close(1000) on the context.          *)
Shut(i) ==
  /\ task[i].at \in {"over", "closing"} /\ Due(i)
  /\ ws' = Closing
  /\ task' = [task EXCEPT ![i] = At("shut", context)]
  /\ UNCHANGED <<context, status, watched, session>>

Ended ==
  /\ task["end"].at = "shut" /\ Due("end")
  /\ session' = FALSE
  /\ task' = [task EXCEPT !["end"] = Idle]
  /\ UNCHANGED <<context, ws, status, watched>>

ConnectAgain ==
  /\ task["again"].at = "shut" /\ Due("again")
  /\ Connect([task EXCEPT !["again"] = Idle], reconnect)
  /\ UNCHANGED session

Callback ==
  /\ reason = None
  /\ \/ \E i \in Tasks : ConnectionErrorHandler(i)
     \/ RenewFails
     \/ \E i \in {"end", "again"} : Shut(i)
     \/ Ended
     \/ ConnectAgain
  /\ UNCHANGED <<reason, lastCode, reconnect, renewal, sleep>>

-----------------------------------------------------------------------------
(* Only the context has a message handler: openTask takes it from the      *)
(* socket before.                                                          *)
Hears(c) == c = context /\ ws[c] \in {"open", "closing"}

SignedIn(i) ==
  /\ Quiet
  /\ task[i].at = "auth" /\ Hears(task[i].on)
  /\ status' = "authorized"
  /\ errors' = 0
  /\ task' = [task EXCEPT ![i] = Idle]
  /\ ticking' = TRUE                                           \* kaSync
  /\ late' = FALSE
  /\ wasSignedIn' = TRUE
  /\ UNCHANGED <<context, ws, watched, reason, lastCode, reconnect, session,
                 recovering, timers, recoveries>>

SignedOff(i) ==
  /\ Quiet
  /\ task[i].at = "leave" /\ Hears(task[i].on)
  /\ status' = "open"
  /\ task' = [task EXCEPT ![i] = At("failed", None)]
  /\ UNCHANGED <<context, ws, watched, reason, lastCode, reconnect, session,
                 renewal, sleep>>

(* Refused, or not answered within a second.                               *)
Rejected(i) ==
  /\ Quiet
  /\ task[i].at \in {"auth", "leave"}
  /\ task' = [task EXCEPT ![i] = At("failed", None)]
  /\ UNCHANGED <<context, ws, status, watched, reason, lastCode, reconnect,
                 session, renewal, sleep>>

(* "authfail" comes.  Bound: one renewal at a time.                        *)
AuthFail ==
  /\ Quiet
  /\ task["renew"] = Idle
  /\ context # None /\ Hears(context)
  /\ status = "authorized"
  /\ status' = "open"
  /\ task' = [task EXCEPT !["renew"] = At("auth", context)]
  /\ UNCHANGED <<context, ws, watched, reason, lastCode, reconnect, session,
                 renewal, sleep>>

-----------------------------------------------------------------------------
(* "/renew" was answered; the request itself failed.                       *)
Recovered ==
  /\ Quiet
  /\ recovering > 0
  /\ recovering' = recovering - 1
  /\ Connect(task, TRUE)
  /\ UNCHANGED <<reason, lastCode, reconnect, session, errors, timers, sleep>>

RecoverFails ==
  /\ Quiet
  /\ recovering > 0
  /\ recovering' = recovering - 1
  /\ UNCHANGED <<context, ws, status, watched, task, reason, lastCode,
                 reconnect, session, errors, timers, sleep>>

(* Mutants of Timer: the condition inverted; no monitor for the socket.    *)
TimerInverted(c) ==
  /\ Quiet
  /\ c \in timers
  /\ timers' = timers \ {c}
  /\ \/ c # context /\ Connect(task, TRUE)
     \/ c = context /\ UNCHANGED <<context, ws, status, watched, task>>
  /\ UNCHANGED <<reason, lastCode, reconnect, session, errors, recovering, sleep>>

TimerUnwatched(c) ==
  /\ Quiet
  /\ c \in timers
  /\ timers' = timers \ {c}
  /\ \/ c = context /\ Connect(task, FALSE)
     \/ c # context /\ UNCHANGED <<context, ws, status, watched, task>>
  /\ UNCHANGED <<reason, lastCode, reconnect, session, errors, recovering, sleep>>

(* 3 s after a close without a code.                                       *)
Timer(c) ==
  /\ Quiet
  /\ c \in timers
  /\ timers' = timers \ {c}
  /\ \/ c = context /\ Connect(task, TRUE)
     \/ c # context /\ UNCHANGED <<context, ws, status, watched, task>>
  /\ UNCHANGED <<reason, lastCode, reconnect, session, errors, recovering, sleep>>

(* The page goes: disconnectTask begins with connectionErrorHandler(null). *)
End ==
  /\ Quiet
  /\ reconnect
  /\ reconnect' = FALSE
  /\ task' = [task EXCEPT !["end"] = At("failed", None)]
  /\ UNCHANGED <<context, ws, status, watched, reason, lastCode, session,
                 renewal, sleep>>

-----------------------------------------------------------------------------
(* The device sleeps, or the browser holds the page's timers back.         *)
Sleep ==
  /\ Quiet
  /\ ticking /\ ~late
  /\ late' = TRUE
  /\ UNCHANGED <<context, ws, status, watched, task, reason, lastCode,
                 reconnect, session, renewal, ticking, wasSignedIn, recoveries>>

(* kaHandler; a page whose server timed it out while it slept connects     *)
(* again.  Bounds: one recovery at a time, and a name left for its socket. *)
Asleep == /\ status # "authorized"
          /\ wasSignedIn /\ late /\ lastCode = "timeout"

Tick ==
  /\ Quiet
  /\ ticking
  /\ late' = FALSE
  /\ wasSignedIn' = (status = "authorized")
  /\ \/ /\ Asleep
        /\ task["again"] = Idle
        /\ recoveries < MaxRecoveries
        /\ recoveries' = recoveries + 1
        /\ task' = [task EXCEPT !["again"] = At("failed", None)]
     \/ ~Asleep /\ UNCHANGED <<task, recoveries>>
  /\ UNCHANGED <<context, ws, status, watched, reason, lastCode, reconnect,
                 session, renewal, ticking>>

-----------------------------------------------------------------------------
Events ==
  \/ Begin \/ End
  \/ \E c \in Sockets : Opened(c) \/ Timer(c)
  \/ \E c \in Sockets, code \in Codes : Closed(c, code)
  \/ \E i \in Tasks : SignedIn(i) \/ SignedOff(i) \/ Rejected(i)
  \/ AuthFail \/ Recovered \/ RecoverFails \/ Sleep \/ Tick

Next == Events \/ Monitor \/ Callback

Spec == Init /\ [][Next]_vars

(* Callbacks run, and timers of the page expire.  Neither the server nor   *)
(* the network need ever do anything.                                      *)
Fairness ==
  /\ WF_vars(Monitor) /\ WF_vars(Callback)
  /\ \A c \in Sockets : WF_vars(Timer(c))
  /\ WF_vars(Tick)

FairSpec == Spec /\ Fairness

-----------------------------------------------------------------------------
TypeOK ==
  /\ context \in Sockets \union {None}
  /\ ws \in [Sockets -> {"connecting", "aborting", "open", "closing", "closed"}]
  /\ status \in {"init", "open", "authorized", "closed"}
  /\ watched \subseteq Sockets
  /\ task \in [Tasks -> [at : {"none", "opening", "auth", "leave", "failed",
                               "closing", "over", "shut"},
                         on : Sockets \union {None}]]
  /\ reason \in Codes \union {None}
  /\ lastCode \in Codes \union {None}
  /\ reconnect \in BOOLEAN /\ session \in BOOLEAN
  /\ errors \in 0 .. 1
  /\ recovering \in Nat
  /\ timers \subseteq Sockets
  /\ ticking \in BOOLEAN /\ late \in BOOLEAN /\ wasSignedIn \in BOOLEAN
  /\ recoveries \in 0 .. MaxRecoveries

(* Until the first recovery from sleep (a server built without keep-alive  *)
(* timeouts causes none) the client never has two sockets: reconnection by *)
(* the monitor, by the 3 s timer and after "/renew" exclude each other and *)
(* the first connection; openTask only logs it when they do not.           *)
OneSocket == recoveries = 0 => \A c, d \in Live : c = d

(* While the client is to stay connected, the loss of any socket it has    *)
(* reaches monitorHelper.                                                  *)
Watched == reconnect => Live \subseteq watched

(* available(), which index.js asks before it sends a command, is true     *)
(* only while the context is a socket that was opened and has not closed,  *)
(* and end() has not done away with the session.                           *)
AvailableIsReal ==
  status = "authorized" =>
     context # None /\ session /\ ws[context] \in {"open", "closing"}

(* A connection lost for a reason to reconnect is followed by another, if  *)
(* the page stays.                                                         *)
Lost == /\ context # None /\ context \notin Live
        /\ reconnect
        /\ lastCode \in {"lost", "none"}

LostIsRetried == Lost ~> ~reconnect \/ context \in Live
=============================================================================
