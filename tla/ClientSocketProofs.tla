-------------------------- MODULE ClientSocketProofs --------------------------
(***************************************************************************)
(* Proofs about ClientSocket, for any names of sockets, any number of      *)
(* recoveries from sleep, and servers with and without keep-alive.         *)
(***************************************************************************)
EXTENDS ClientSocket, TLAPS

Chains == [Tasks -> [at : {"none", "opening", "auth", "leave", "failed",
                           "closing", "over", "shut"},
                     on : Sockets \union {None}]]

(* Nothing happens before begin().                                         *)
Unbegun ==
  context = None =>
    /\ Live = {} /\ reason = None /\ recovering = 0 /\ timers = {}
    /\ ~reconnect /\ ~ticking /\ recoveries = 0 /\ status = "init"
    /\ \A i \in Tasks : task[i] = Idle

(* Until a recovery from sleep: only the context lives, and what would     *)
(* make another (a close to look at, a renewal, a timer set for the        *)
(* context) is due only when it is dead, and one at a time.                *)
Alone ==
  recoveries = 0 =>
    /\ Live \subseteq {context}
    /\ task["again"] = Idle
    /\ recovering \in {0, 1}
    /\ Live # {} => reason = None /\ recovering = 0 /\ context \notin timers
    /\ reason # None => recovering = 0 /\ context \notin timers
    /\ recovering = 0 \/ context \notin timers

Asking(i) == task[i].at = "auth" /\ task[i].on \in Live

(* An answer that would sign the client in can come only to a client with  *)
(* a session; when end() is about to take it away, none can.               *)
Asked == \A i \in Tasks : Asking(i) => session /\ context \in Live

Parting ==
  task["end"].at = "shut" /\ Due("end") =>
    status # "authorized" /\ \A i \in Tasks : ~Asking(i)

IInv == /\ TypeOK /\ Unbegun /\ Alone /\ Watched
        /\ AvailableIsReal /\ Asked /\ Parting

-----------------------------------------------------------------------------
(* The names of the chains that are not of a socket.                       *)
LEMMA Names ==
  /\ "end" \in Tasks /\ "again" \in Tasks /\ "renew" \in Tasks
  /\ Sockets \subseteq Tasks
  /\ "end" \notin Sockets /\ "again" \notin Sockets /\ "renew" \notin Sockets
  /\ None \notin Sockets
BY NameAssumption DEF Tasks

(* What connectTask does, for the socket it makes.                         *)
LEMMA Connected ==
  ASSUME NEW others, NEW watch, Connect(others, watch)
  PROVE  \E c \in Sockets :
           /\ Fresh(c)
           /\ context' = c
           /\ ws' = [ws EXCEPT ![c] = "connecting"]
           /\ status' = "init"
           /\ task' = [others EXCEPT ![c] = At("opening", c)]
           /\ watched' = IF watch THEN watched \union {c} ELSE watched
<1> DEFINE c == CHOOSE x \in Sockets : Fresh(x)
<1>1. c \in Sockets /\ Fresh(c)
  BY DEF Connect
<1> QED
  BY <1>1 DEF Connect

LEMMA Initial == Init => IInv
<1> SUFFICES ASSUME Init PROVE IInv
  OBVIOUS
<1>1. TypeOK
  <2>1. recoveries \in 0 .. MaxRecoveries
    BY BoundAssumption DEF Init
  <2>2. task \in Chains
    BY DEF Init, Idle, Chains
  <2>3. /\ ws \in [Sockets -> {"connecting", "aborting", "open", "closing", "closed"}]
        /\ errors \in 0 .. 1 /\ recovering \in Nat
    BY DEF Init
  <2>4. /\ reconnect \in BOOLEAN /\ session \in BOOLEAN
        /\ ticking \in BOOLEAN /\ late \in BOOLEAN /\ wasSignedIn \in BOOLEAN
    BY DEF Init
  <2>5. status \in {"init", "open", "authorized", "closed"}
    BY DEF Init
  <2>6. /\ context \in Sockets \union {None}
        /\ reason \in Codes \union {None} /\ lastCode \in Codes \union {None}
        /\ watched \subseteq Sockets /\ timers \subseteq Sockets
    BY DEF Init
  <2> QED
    BY <2>1, <2>2, <2>3, <2>4, <2>5, <2>6 DEF TypeOK, Chains
<1>2. Live = {} /\ ~reconnect /\ status = "init"
  BY DEF Init, Live
<1>3. Unbegun /\ Alone
  BY <1>2, Names DEF Init, Unbegun, Alone
<1>4. Watched /\ AvailableIsReal /\ Asked /\ Parting
  BY <1>2, Names DEF Init, Watched, AvailableIsReal, Asked, Asking, Parting, Idle
<1> QED
  BY <1>1, <1>3, <1>4 DEF IInv

(* Which sockets live after a step.                                        *)
LEMMA LiveConnect ==
  ASSUME TypeOK, NEW c \in Sockets, ws' = [ws EXCEPT ![c] = "connecting"]
  PROVE  Live' = Live \union {c}
BY DEF TypeOK, Live

LEMMA LiveClosing ==
  ASSUME TypeOK, ws' = Closing
  PROVE  /\ Live' = Live
         /\ ws' \in [Sockets -> {"connecting", "aborting", "open", "closing", "closed"}]
         /\ \A c \in Sockets : ws[c] \in {"open", "closing"} => ws'[c] \in {"open", "closing"}
BY DEF TypeOK, Live, Closing

LEMMA LiveClosed ==
  ASSUME TypeOK, NEW c \in Sockets, ws' = [ws EXCEPT ![c] = "closed"]
  PROVE  Live' = Live \ {c}
BY DEF TypeOK, Live

LEMMA LiveOpened ==
  ASSUME TypeOK, NEW c \in Sockets, ws[c] = "connecting",
         ws' = [ws EXCEPT ![c] = "open"]
  PROVE  Live' = Live
BY DEF TypeOK, Live

(* Connecting keeps what concerns signing in; the socket it makes lives,   *)
(* and none of the names in use is its own.                                *)
LEMMA ConnectKeeps ==
  ASSUME IInv, NEW others, NEW watch \in BOOLEAN, Connect(others, watch),
         others = task \/ others = [task EXCEPT !["again"] = Idle],
         session' = session \/ session' = TRUE
  PROVE  /\ AvailableIsReal' /\ Asked' /\ Parting' /\ Unbegun'
         /\ context' \in Sockets
         /\ context' \notin Live \union timers \union {context}
         /\ Live' = Live \union {context'}
         /\ status' = "init"
         /\ task' \in Chains
         /\ task'["again"] = others["again"]
         /\ ws' \in [Sockets -> {"connecting", "aborting", "open", "closing", "closed"}]
         /\ watched' = IF watch THEN watched \union {context'} ELSE watched
<1>1. PICK c \in Sockets :
        /\ Fresh(c)
        /\ context' = c
        /\ ws' = [ws EXCEPT ![c] = "connecting"]
        /\ status' = "init"
        /\ task' = [others EXCEPT ![c] = At("opening", c)]
        /\ watched' = IF watch THEN watched \union {c} ELSE watched
  BY Connected
<1>2. Live' = Live \union {c}
  BY <1>1, LiveConnect DEF IInv
<1>3. task \in Chains /\ others \in Chains
  BY Names DEF IInv, TypeOK, Chains, Idle
<1>4. task' \in Chains
  BY <1>1, <1>3, Names DEF Chains, At
<1>5. /\ c \notin Live \union timers \union {context}
      /\ \A i \in Tasks : task[i].on # c
  BY <1>1 DEF Fresh
<1>6. \A i \in Tasks : \/ task'[i].at = "opening"
                        \/ task'[i].at = "none"
                        \/ task'[i] = task[i]
  BY <1>1, <1>3, Names DEF Chains, At, Idle
<1>7. \A i \in Tasks : Asking(i)' => Asking(i)
  BY <1>2, <1>5, <1>6 DEF Asking
<1>8. Asked'
  BY <1>1, <1>2, <1>7 DEF Asked, IInv
<1>9. Parting'
  <2> SUFFICES ASSUME task'["end"].at = "shut", Due("end")'
               PROVE  status' # "authorized" /\ \A i \in Tasks : ~Asking(i)'
    BY DEF Parting
  <2>1. task["end"] = task'["end"]
    BY <1>6, Names
  <2>2. Due("end")
    BY <1>2, <2>1 DEF Due
  <2>3. \A i \in Tasks : ~Asking(i)
    BY <2>1, <2>2 DEF Parting, IInv
  <2> QED
    BY <1>1, <1>7, <2>3
<1>10. task'["again"] = others["again"]
  BY <1>1, <1>3, Names DEF Chains
<1>11. ws' \in [Sockets -> {"connecting", "aborting", "open", "closing", "closed"}]
  BY <1>1 DEF IInv, TypeOK
<1> QED
  BY <1>1, <1>2, <1>4, <1>5, <1>8, <1>9, <1>10, <1>11, Names DEF AvailableIsReal, Unbegun

-----------------------------------------------------------------------------
LEMMA BeginStep == IInv /\ Begin => IInv'
<1> SUFFICES ASSUME IInv, Begin PROVE IInv'
  OBVIOUS
<1>1. Connect(task, TRUE) /\ session' = TRUE
  BY DEF Begin
<1>2. TypeOK'
  BY <1>1, ConnectKeeps DEF IInv, TypeOK, Begin, renewal, sleep, Chains
<1>3. Alone' /\ Watched'
  BY <1>1, ConnectKeeps, Names DEF IInv, Unbegun, Alone, Watched, Begin, renewal, sleep, Idle
<1> QED
  BY <1>1, <1>2, <1>3, ConnectKeeps DEF IInv

LEMMA RecoveredStep == IInv /\ Recovered => IInv'
<1> SUFFICES ASSUME IInv, Recovered PROVE IInv'
  OBVIOUS
<1>1. /\ Connect(task, TRUE) /\ session' = session
      /\ recovering > 0 /\ recovering' = recovering - 1
      /\ reason = None
      /\ UNCHANGED <<reason, lastCode, reconnect, errors, timers, ticking, late,
                     wasSignedIn, recoveries>>
  BY DEF Recovered, Quiet, sleep
<1>2. /\ AvailableIsReal' /\ Asked' /\ Parting' /\ Unbegun'
      /\ context' \in Sockets
      /\ context' \notin Live \union timers \union {context}
      /\ Live' = Live \union {context'}
      /\ status' = "init"
      /\ task' \in Chains
      /\ task'["again"] = task["again"]
      /\ ws' \in [Sockets -> {"connecting", "aborting", "open", "closing", "closed"}]
      /\ watched' = watched \union {context'}
  BY <1>1, ConnectKeeps
<1>3. recovering' \in Nat /\ (recovering \in {0, 1} => recovering' = 0)
  BY <1>1 DEF IInv, TypeOK
<1>4. TypeOK'
  BY <1>1, <1>2, <1>3 DEF IInv, TypeOK, Chains
<1>5. Watched'
  BY <1>1, <1>2 DEF IInv, Watched
<1>6. Alone'
  BY <1>1, <1>2, <1>3 DEF IInv, Alone
<1> QED
  BY <1>2, <1>4, <1>5, <1>6 DEF IInv

LEMMA TimerStep ==
  ASSUME IInv, NEW c \in Sockets, Timer(c)
  PROVE  IInv'
<1>1. CASE c = context /\ Connect(task, TRUE)
  <2>1. session' = session
    BY DEF Timer
  <2>2. TypeOK'
    BY <1>1, <2>1, ConnectKeeps DEF IInv, TypeOK, Timer, sleep, Chains
  <2>3. Alone' /\ Watched'
    BY <1>1, <2>1, ConnectKeeps DEF IInv, TypeOK, Alone, Watched, Timer, sleep, Quiet
  <2> QED
    BY <1>1, <2>1, <2>2, <2>3, ConnectKeeps DEF IInv
<1>2. CASE c # context /\ UNCHANGED <<context, ws, status, watched, task>>
  <2>1. Live' = Live /\ \A i \in Tasks : Due(i)' = Due(i)
    BY <1>2 DEF Live, Due
  <2> QED
    BY <1>2, <2>1, Names DEF IInv, TypeOK, Unbegun, Alone, Watched,
       AvailableIsReal, Asked, Asking, Parting, Timer, sleep
<1> QED
  BY <1>1, <1>2 DEF Timer

-----------------------------------------------------------------------------
(* Steps of the sockets.                                                   *)
LEMMA OpenedStep ==
  ASSUME IInv, NEW c \in Sockets, Opened(c)
  PROVE  IInv'
<1>1. /\ Live' = Live /\ c \in Live /\ context # None
      /\ ws' \in [Sockets -> {"connecting", "aborting", "open", "closing", "closed"}]
  BY LiveOpened DEF IInv, TypeOK, Opened, Unbegun, Live
<1>2. /\ task' \in Chains
      /\ \A i \in Tasks \ {c} : task'[i] = task[i]
      /\ task'[c].at = "auth" => session /\ task'[c].on = context
      /\ task'[c].at \in {"auth", "failed"}
  BY Names DEF IInv, TypeOK, Opened, Chains, At
<1>3. TypeOK'
  BY <1>1, <1>2 DEF IInv, TypeOK, Opened, Chains, renewal, sleep
<1>4. Unbegun' /\ Alone' /\ Watched'
  BY <1>1, <1>2, Names DEF IInv, Unbegun, Alone, Watched, Opened, renewal, sleep
<1>5. AvailableIsReal' /\ Asked'
  BY <1>1, <1>2 DEF IInv, AvailableIsReal, Asked, Asking, Opened
<1>6. Parting'
  <2>1. ~(task["end"].at = "shut" /\ Due("end"))
    BY Names DEF Opened, Quiet
  <2>2. ~(task'["end"].at = "shut" /\ Due("end")')
    BY <1>1, <1>2, <2>1, Names DEF Due
  <2> QED
    BY <2>2 DEF Parting
<1> QED
  BY <1>3, <1>4, <1>5, <1>6 DEF IInv

LEMMA ClosedStep ==
  ASSUME IInv, NEW c \in Sockets, NEW code \in Codes, Closed(c, code)
  PROVE  IInv'
<1>1. /\ Live' = Live \ {c} /\ c \in Live /\ context # None
      /\ ws' \in [Sockets -> {"connecting", "aborting", "open", "closing", "closed"}]
  BY LiveClosed DEF IInv, TypeOK, Closed, Unbegun, Live
<1>2. /\ task' \in Chains
      /\ \A i \in Tasks : task'[i].at # "auth"
      /\ task["again"] = Idle => task'["again"] = Idle
  BY Names DEF IInv, TypeOK, Closed, Chains, At, Idle
<1>3. TypeOK'
  BY <1>1, <1>2 DEF IInv, TypeOK, Closed, Chains, renewal, sleep
<1>4. Unbegun' /\ Alone' /\ Watched'
  BY <1>1, <1>2, Names DEF IInv, Unbegun, Alone, Watched, Closed, renewal, sleep
<1>5. AvailableIsReal' /\ Asked' /\ Parting'
  BY <1>1, <1>2 DEF AvailableIsReal, Asked, Asking, Parting, Closed
<1> QED
  BY <1>3, <1>4, <1>5 DEF IInv

-----------------------------------------------------------------------------
(* monitorHelper.                                                          *)
LEMMA MonitorStep == IInv /\ Monitor => IInv'
<1> SUFFICES ASSUME IInv, Monitor PROVE IInv'
  OBVIOUS
<1>1. /\ reason # None /\ reason' = None /\ context # None
      /\ UNCHANGED <<lastCode, reconnect, session, ticking, late, wasSignedIn,
                     recoveries>>
  BY DEF IInv, Unbegun, Monitor, sleep
<1>2. CASE Connect(task, TRUE) /\ UNCHANGED <<errors, recovering, timers>>
  <2>1. TypeOK'
    BY <1>1, <1>2, ConnectKeeps DEF IInv, TypeOK, Chains
  <2>2. Alone' /\ Watched'
    BY <1>1, <1>2, ConnectKeeps DEF IInv, Alone, Watched
  <2> QED
    BY <1>1, <1>2, <2>1, <2>2, ConnectKeeps DEF IInv
<1>3. CASE Ignore \/ Recover \/ ConnectLater
  <2>1. UNCHANGED <<context, ws, status, watched, task>>
    BY <1>3 DEF Ignore, Recover, ConnectLater
  <2>2. Live' = Live /\ \A i \in Tasks : Due(i)' = Due(i)
    BY <2>1 DEF Live, Due
  <2>3. /\ errors' \in 0 .. 1 /\ recovering' \in Nat /\ timers' \subseteq Sockets
        /\ \/ recovering' = recovering /\ timers' = timers
           \/ recovering' = recovering + 1 /\ timers' = timers
           \/ recovering' = recovering /\ timers' = timers \union {context}
    BY <1>1, <1>3 DEF IInv, TypeOK, Ignore, Recover, ConnectLater
  <2>4. TypeOK' /\ Watched' /\ Unbegun'
    BY <1>1, <2>1, <2>2, <2>3 DEF IInv, TypeOK, Watched, Unbegun
  <2>5. Alone'
    BY <1>1, <2>1, <2>2, <2>3 DEF IInv, Alone
  <2>6. AvailableIsReal' /\ Asked' /\ Parting'
    BY <1>1, <2>1, <2>2, Names DEF IInv, AvailableIsReal, Asked, Asking, Parting
  <2> QED
    BY <2>4, <2>5, <2>6 DEF IInv
<1> QED
  BY <1>2, <1>3 DEF Monitor, ConnectNow

-----------------------------------------------------------------------------
(* The handlers of the chains.                                             *)
LEMMA ErrorHandlerStep ==
  ASSUME IInv, NEW i \in Tasks, reason = None, ConnectionErrorHandler(i),
         UNCHANGED <<reason, lastCode, reconnect, renewal, sleep>>
  PROVE  IInv'
<1> USE DEF renewal, sleep
<1>1. context # None
  BY Names DEF IInv, Unbegun, ConnectionErrorHandler, Idle
<1>2. /\ Live' = Live
      /\ ws' \in [Sockets -> {"connecting", "aborting", "open", "closing", "closed"}]
      /\ \A c \in Sockets : ws[c] \in {"open", "closing"} => ws'[c] \in {"open", "closing"}
  <2>1. CASE UNCHANGED ws
    BY <2>1 DEF IInv, TypeOK, Live
  <2>2. CASE ws' = Closing
    BY <2>2, LiveClosing DEF IInv
  <2> QED
    BY <2>1, <2>2 DEF ConnectionErrorHandler, SignOff, CloseTask, GiveUp
<1>3. /\ task' \in Chains
      /\ \A j \in Tasks \ {i} : task'[j] = task[j]
      /\ task'[i].at \in {"leave", "closing", "over", "none"}
      /\ status' \in {status, "closed"}
      /\ task["again"] = Idle => task'["again"] = Idle
  BY Names DEF IInv, TypeOK, ConnectionErrorHandler, SignOff, CloseTask, GiveUp,
     Chains, At, Idle, Due
<1>4. TypeOK'
  BY <1>1, <1>2, <1>3 DEF IInv, TypeOK, Chains, ConnectionErrorHandler
<1>5. Unbegun' /\ Alone' /\ Watched'
  BY <1>1, <1>2, <1>3 DEF IInv, Unbegun, Alone, Watched, ConnectionErrorHandler
<1>6. AvailableIsReal' /\ Asked'
  BY <1>1, <1>2, <1>3 DEF IInv, TypeOK, AvailableIsReal, Asked, Asking,
     ConnectionErrorHandler
<1>7. Parting'
  <2> SUFFICES ASSUME task'["end"].at = "shut", Due("end")'
               PROVE  status' # "authorized" /\ \A j \in Tasks : ~Asking(j)'
    BY DEF Parting
  <2>1. task["end"] = task'["end"]
    BY <1>3, Names
  <2>2. Due("end")
    BY <1>2, <2>1 DEF Due
  <2>3. status # "authorized" /\ \A j \in Tasks : ~Asking(j)
    BY <2>1, <2>2 DEF Parting, IInv
  <2> QED
    BY <1>2, <1>3, <2>3 DEF Asking
<1> QED
  BY <1>4, <1>5, <1>6, <1>7 DEF IInv

LEMMA ShutStep ==
  ASSUME IInv, NEW i \in {"end", "again"}, reason = None, Shut(i),
         UNCHANGED <<reason, lastCode, reconnect, renewal, sleep>>
  PROVE  IInv'
<1> USE DEF renewal, sleep
<1>1. context # None
  BY Names DEF IInv, Unbegun, Shut, Idle
<1>2. /\ Live' = Live
      /\ ws' \in [Sockets -> {"connecting", "aborting", "open", "closing", "closed"}]
      /\ \A c \in Sockets : ws[c] \in {"open", "closing"} => ws'[c] \in {"open", "closing"}
  BY LiveClosing DEF IInv, Shut
<1>3. /\ task' \in Chains
      /\ \A j \in Tasks \ {i} : task'[j] = task[j]
      /\ task'[i] = At("shut", context)
      /\ task["again"] = Idle => task'["again"] = Idle
  BY <1>1, Names DEF IInv, TypeOK, Shut, Chains, At, Idle
<1>4. TypeOK'
  BY <1>2, <1>3 DEF IInv, TypeOK, Chains, Shut
<1>5. Unbegun' /\ Alone' /\ Watched'
  BY <1>1, <1>2, <1>3 DEF IInv, Unbegun, Alone, Watched, Shut
<1>6. AvailableIsReal' /\ Asked'
  BY <1>1, <1>2, <1>3 DEF IInv, TypeOK, AvailableIsReal, Asked, Asking, Shut, At
<1>7. Parting'
  <2> SUFFICES ASSUME task'["end"].at = "shut", Due("end")'
               PROVE  status # "authorized" /\ \A j \in Tasks : ~Asking(j)'
    BY DEF Parting, Shut
  <2>1. CASE i = "end"
    <3>1. context \notin Live
      BY <1>2, <1>3, <2>1 DEF Due, At
    <3>2. status # "authorized"
      BY <1>1, <3>1 DEF IInv, TypeOK, AvailableIsReal, Live
    <3>3. \A j \in Tasks : ~Asking(j)
      BY <3>1 DEF IInv, Asked
    <3> QED
      BY <1>2, <1>3, <3>2, <3>3 DEF Asking, At
  <2>2. CASE i = "again"
    <3>1. task["end"] = task'["end"]
      BY <1>3, <2>2, Names
    <3>2. Due("end")
      BY <1>2, <3>1 DEF Due
    <3>3. status # "authorized" /\ \A j \in Tasks : ~Asking(j)
      BY <3>1, <3>2 DEF Parting, IInv
    <3> QED
      BY <1>2, <1>3, <3>3 DEF Asking, At
  <2> QED
    BY <2>1, <2>2
<1> QED
  BY <1>4, <1>5, <1>6, <1>7 DEF IInv

LEMMA CallbackStep == IInv /\ Callback => IInv'
<1> SUFFICES ASSUME IInv, Callback PROVE IInv'
  OBVIOUS
<1>1. /\ reason = None
      /\ UNCHANGED <<reason, lastCode, reconnect, renewal, sleep>>
  BY DEF Callback
<1>2. ASSUME NEW i \in Tasks, ConnectionErrorHandler(i) PROVE IInv'
  BY <1>1, <1>2, ErrorHandlerStep
<1>3. ASSUME NEW i \in {"end", "again"}, Shut(i) PROVE IInv'
  BY <1>1, <1>3, ShutStep
<1>4. CASE RenewFails
  <2>1. Live' = Live /\ UNCHANGED <<context, ws, status, watched, session>>
    BY <1>4 DEF RenewFails, Live
  <2>2. /\ task' \in Chains
        /\ \A j \in Tasks \ {"renew"} : task'[j] = task[j]
        /\ task'["renew"] = Idle
    BY <1>4, Names DEF IInv, TypeOK, RenewFails, Chains, Idle
  <2>3. TypeOK'
    BY <1>1, <2>1, <2>2 DEF IInv, TypeOK, Chains, renewal, sleep
  <2>4. Unbegun' /\ Alone' /\ Watched'
    BY <1>1, <2>1, <2>2, Names DEF IInv, Unbegun, Alone, Watched, renewal, sleep
  <2>5. AvailableIsReal' /\ Asked' /\ Parting'
    BY <2>1, <2>2, Names DEF IInv, AvailableIsReal, Asked, Asking, Parting, Due, Idle
  <2> QED
    BY <2>3, <2>4, <2>5 DEF IInv
<1>5. CASE Ended
  <2>1. Live' = Live /\ UNCHANGED <<context, ws, status, watched>> /\ session' = FALSE
    BY <1>5 DEF Ended, Live
  <2>2. /\ task' \in Chains
        /\ \A j \in Tasks \ {"end"} : task'[j] = task[j]
        /\ task'["end"] = Idle
        /\ task["end"].at = "shut" /\ Due("end")
    BY <1>5, Names DEF IInv, TypeOK, Ended, Chains, Idle
  <2>3. TypeOK'
    BY <1>1, <2>1, <2>2 DEF IInv, TypeOK, Chains, renewal, sleep
  <2>4. Unbegun' /\ Alone' /\ Watched'
    BY <1>1, <2>1, <2>2, Names DEF IInv, Unbegun, Alone, Watched, renewal, sleep, Idle
  <2>5. status # "authorized" /\ \A j \in Tasks : ~Asking(j)
    BY <2>2 DEF IInv, Parting
  <2>6. AvailableIsReal' /\ Asked' /\ Parting'
    BY <2>1, <2>2, <2>5, Names DEF AvailableIsReal, Asked, Asking, Parting, Due, Idle
  <2> QED
    BY <2>3, <2>4, <2>6 DEF IInv
<1>6. CASE ConnectAgain
  <2> DEFINE others == [task EXCEPT !["again"] = Idle]
  <2>1. /\ Connect(others, reconnect) /\ session' = session
        /\ reconnect \in BOOLEAN /\ task["again"] # Idle
    BY <1>6 DEF ConnectAgain, IInv, TypeOK, Idle
  <2>2. TypeOK'
    BY <1>1, <2>1, ConnectKeeps DEF IInv, TypeOK, Chains, renewal, sleep
  <2>3. Alone'
    BY <1>1, <2>1 DEF IInv, Alone, sleep
  <2>4. Watched'
    BY <1>1, <2>1, ConnectKeeps DEF IInv, Watched
  <2> QED
    BY <2>1, <2>2, <2>3, <2>4, ConnectKeeps DEF IInv
<1> QED
  BY <1>2, <1>3, <1>4, <1>5, <1>6 DEF Callback

-----------------------------------------------------------------------------
(* Answers, timers and the page.  All of them leave the sockets alone, are *)
(* taken only when no callback is due, and move one chain at most.         *)
LEMMA QuietStep ==
  ASSUME IInv, Quiet, NEW i \in Tasks,
         UNCHANGED <<context, ws, watched, reason, session, timers>>,
         task' \in Chains,
         \A j \in Tasks \ {i} : task'[j] = task[j],
         task'[i] # task[i] => context # None,
         task'[i].at \in {"none", "opening", "auth", "leave", "failed", "closing",
                         "over", "shut"},
         task'[i].at = "shut" => task'[i] = task[i],
         Asking(i)' => Asking(i) \/ (session /\ context \in Live)
  PROVE  Asked' /\ Parting' /\ Live' = Live
<1>1. Live' = Live
  BY DEF Live
<1>2. Asked'
  BY <1>1 DEF IInv, Asked, Asking
<1>3. Parting'
  <2>1. ~(task["end"].at = "shut" /\ Due("end"))
    BY Names DEF Quiet
  <2>2. ~(task'["end"].at = "shut" /\ Due("end")')
    BY <1>1, <2>1, Names DEF Due
  <2> QED
    BY <2>2 DEF Parting
<1> QED
  BY <1>1, <1>2, <1>3

LEMMA SignedInStep ==
  ASSUME IInv, NEW i \in Tasks, SignedIn(i)
  PROVE  IInv'
<1>1. /\ context # None /\ Asking(i) /\ session
      /\ ws[context] \in {"open", "closing"}
  BY Names DEF IInv, TypeOK, Unbegun, SignedIn, Hears, Asked, Asking, Live, Idle
<1>2. /\ task' \in Chains
      /\ \A j \in Tasks \ {i} : task'[j] = task[j]
      /\ task'[i] = Idle
  BY Names DEF IInv, TypeOK, SignedIn, Chains, Idle
<1>3. Asked' /\ Parting' /\ Live' = Live
  <2>1. ~Asking(i)'
    BY <1>1, <1>2 DEF Asking, At, Idle, SignedIn, Live
  <2>2. /\ task'[i].at \in {"none", "opening", "auth", "leave", "failed",
                            "closing", "over", "shut"}
        /\ task'[i].at # "shut"
    BY <1>2 DEF At, Idle
  <2>3. UNCHANGED <<context, ws, watched, reason, session, timers>> /\ Quiet
    BY DEF SignedIn, renewal
  <2> QED
    BY <1>1, <1>2, <2>1, <2>2, <2>3, QuietStep, Names
<1>4. TypeOK'
  <2>1. errors' = 0 /\ status' = "authorized" /\ ticking' /\ ~late' /\ wasSignedIn'
    BY DEF SignedIn
  <2>2. UNCHANGED <<context, ws, watched, reason, lastCode, reconnect, session,
                    recovering, timers, recoveries>>
    BY DEF SignedIn
  <2>3. ticking' \in BOOLEAN /\ late' \in BOOLEAN /\ wasSignedIn' \in BOOLEAN
    BY DEF SignedIn
  <2> QED
    BY <1>2, <2>1, <2>2, <2>3 DEF IInv, TypeOK, Chains
<1>5. Unbegun' /\ Alone' /\ Watched' /\ AvailableIsReal'
  BY <1>1, <1>2, <1>3, Names DEF IInv, Unbegun, Alone, Watched, AvailableIsReal,
     SignedIn
<1> QED
  BY <1>3, <1>4, <1>5 DEF IInv

LEMMA FailureStep ==
  ASSUME IInv, NEW i \in Tasks, SignedOff(i) \/ Rejected(i)
  PROVE  IInv'
<1>1. context # None /\ task[i].at \in {"auth", "leave"}
  BY DEF IInv, Unbegun, SignedOff, Rejected, Idle
<1>2. /\ task' \in Chains
      /\ \A j \in Tasks \ {i} : task'[j] = task[j]
      /\ task'[i] = At("failed", None)
      /\ task["again"] = Idle => task'["again"] = Idle
      /\ status' \in {status, "open"}
  BY <1>1, Names DEF IInv, TypeOK, SignedOff, Rejected, Chains, At, Idle
<1>3. Asked' /\ Parting' /\ Live' = Live
  BY <1>1, <1>2, QuietStep DEF SignedOff, Rejected, Asking, At, renewal
<1>4. TypeOK'
  BY <1>1, <1>2 DEF IInv, TypeOK, SignedOff, Rejected, Chains, renewal, sleep
<1>5. Unbegun' /\ Alone' /\ Watched' /\ AvailableIsReal'
  BY <1>1, <1>2, <1>3 DEF IInv, Unbegun, Alone, Watched, AvailableIsReal,
     SignedOff, Rejected, renewal, sleep
<1> QED
  BY <1>3, <1>4, <1>5 DEF IInv

LEMMA AuthFailStep == IInv /\ AuthFail => IInv'
<1> SUFFICES ASSUME IInv, AuthFail PROVE IInv'
  OBVIOUS
<1>1. /\ context # None /\ session /\ context \in Live /\ context \in Sockets
  BY DEF IInv, TypeOK, AvailableIsReal, AuthFail, Live
<1>2. /\ task' \in Chains
      /\ \A j \in Tasks \ {"renew"} : task'[j] = task[j]
      /\ task'["renew"] = At("auth", context)
  BY <1>1, Names DEF IInv, TypeOK, AuthFail, Chains, At
<1>3. Asked' /\ Parting' /\ Live' = Live
  <2>1. session /\ context \in Live
    BY <1>1, <1>2 DEF Asking, At, Idle, AuthFail, Live
  <2>2. /\ task'["renew"].at \in {"none", "opening", "auth", "leave", "failed",
                            "closing", "over", "shut"}
        /\ task'["renew"].at # "shut"
    BY <1>2 DEF At, Idle
  <2>3. UNCHANGED <<context, ws, watched, reason, session, timers>> /\ Quiet
    BY DEF AuthFail, renewal
  <2> QED
    BY <1>1, <1>2, <2>1, <2>2, <2>3, QuietStep, Names
<1>4. TypeOK'
  BY <1>1, <1>2 DEF IInv, TypeOK, AuthFail, Chains, renewal, sleep
<1>5. Unbegun' /\ Alone' /\ Watched' /\ AvailableIsReal'
  BY <1>1, <1>2, <1>3, Names DEF IInv, Unbegun, Alone, Watched, AvailableIsReal,
     AuthFail, renewal, sleep
<1> QED
  BY <1>3, <1>4, <1>5 DEF IInv

LEMMA EndStep == IInv /\ End => IInv'
<1> SUFFICES ASSUME IInv, End PROVE IInv'
  OBVIOUS
<1>1. context # None
  BY DEF IInv, Unbegun, End
<1>2. /\ task' \in Chains
      /\ \A j \in Tasks \ {"end"} : task'[j] = task[j]
      /\ task'["end"] = At("failed", None)
  BY Names DEF IInv, TypeOK, End, Chains, At
<1>3. Asked' /\ Parting' /\ Live' = Live
  <2>1. ~Asking("end")'
    BY <1>1, <1>2 DEF Asking, At, Idle, End, Live
  <2>2. /\ task'["end"].at \in {"none", "opening", "auth", "leave", "failed",
                            "closing", "over", "shut"}
        /\ task'["end"].at # "shut"
    BY <1>2 DEF At, Idle
  <2>3. UNCHANGED <<context, ws, watched, reason, session, timers>> /\ Quiet
    BY DEF End, renewal
  <2> QED
    BY <1>1, <1>2, <2>1, <2>2, <2>3, QuietStep, Names
<1>4. TypeOK'
  BY <1>1, <1>2 DEF IInv, TypeOK, End, Chains, renewal, sleep
<1>5. Unbegun' /\ Alone' /\ Watched' /\ AvailableIsReal'
  BY <1>1, <1>2, <1>3, Names DEF IInv, Unbegun, Alone, Watched, AvailableIsReal,
     End, renewal, sleep
<1> QED
  BY <1>3, <1>4, <1>5 DEF IInv

LEMMA TickStep == IInv /\ Tick => IInv'
<1> SUFFICES ASSUME IInv, Tick PROVE IInv'
  OBVIOUS
<1>1. context # None
  BY DEF IInv, Unbegun, Tick
<1>2. /\ task' \in Chains
      /\ \A j \in Tasks \ {"again"} : task'[j] = task[j]
      /\ \/ task'["again"] = At("failed", None) /\ recoveries' = recoveries + 1
            /\ recoveries < MaxRecoveries
         \/ task'["again"] = task["again"] /\ recoveries' = recoveries
  BY Names DEF IInv, TypeOK, Tick, Chains, At
<1>3. task'["again"].at = "shut" => task'["again"] = task["again"]
  BY <1>2 DEF At
<1>4. Asked' /\ Parting' /\ Live' = Live
  <2>1. Asking("again")' => Asking("again")
    BY <1>2 DEF Asking, At, Tick, Live
  <2>2. task'["again"].at \in {"none", "opening", "auth", "leave", "failed",
                              "closing", "over", "shut"}
    BY <1>2, Names DEF Chains
  <2> QED
    BY <1>1, <1>2, <1>3, <2>1, <2>2, QuietStep, Names DEF Tick, renewal
<1>5. TypeOK'
  <2>1. recoveries' \in 0 .. MaxRecoveries
    BY <1>2, BoundAssumption DEF IInv, TypeOK
  <2> QED
    BY <1>2, <2>1 DEF IInv, TypeOK, Tick, Chains, renewal
<1>6. Alone'
  BY <1>2, <1>4 DEF IInv, TypeOK, Alone, Tick, renewal
<1>7. Unbegun' /\ Watched' /\ AvailableIsReal'
  BY <1>1, <1>4 DEF IInv, Unbegun, Watched, AvailableIsReal, Tick, renewal
<1> QED
  BY <1>4, <1>5, <1>6, <1>7 DEF IInv

LEMMA OtherStep == IInv /\ (RecoverFails \/ Sleep \/ UNCHANGED vars) => IInv'
<1> SUFFICES ASSUME IInv, RecoverFails \/ Sleep \/ UNCHANGED vars PROVE IInv'
  OBVIOUS
<1>1. /\ UNCHANGED <<context, ws, status, watched, task, reason, lastCode,
                     reconnect, session, errors, timers, ticking, wasSignedIn,
                     recoveries>>
      /\ late' \in BOOLEAN
      /\ \/ recovering' = recovering
         \/ recovering > 0 /\ recovering' = recovering - 1
  BY DEF IInv, TypeOK, RecoverFails, Sleep, vars, renewal, sleep
<1>2. Live' = Live /\ \A i \in Tasks : Due(i)' = Due(i)
  BY <1>1 DEF Live, Due
<1>3. /\ recovering' \in Nat
      /\ recovering = 0 => recovering' = 0
      /\ recovering \in {0, 1} => recovering' \in {0, 1}
  BY <1>1 DEF IInv, TypeOK
<1>4. TypeOK' /\ Unbegun' /\ Watched' /\ AvailableIsReal'
  BY <1>1, <1>2, <1>3 DEF IInv, TypeOK, Unbegun, Watched, AvailableIsReal
<1>5. Alone'
  BY <1>1, <1>2, <1>3 DEF IInv, Alone
<1>6. Asked' /\ Parting'
  BY <1>1, <1>2, Names DEF IInv, Asked, Asking, Parting
<1> QED
  BY <1>4, <1>5, <1>6 DEF IInv

LEMMA Step == IInv /\ [Next]_vars => IInv'
BY BeginStep, RecoveredStep, TimerStep, OpenedStep, ClosedStep, MonitorStep,
   CallbackStep, SignedInStep, FailureStep, AuthFailStep, EndStep, TickStep,
   OtherStep DEF Next, Events

-----------------------------------------------------------------------------
(* The strengthened invariant, from which the others follow.               *)
THEOREM Invariance == Spec => []IInv
<1> QED
  BY Initial, Step, PTL DEF Spec

(* Every variable keeps its type; in particular a lost session is renewed  *)
(* at most once before the next sign-in, whatever closes the sockets.      *)
THEOREM TypeCorrect == Spec => []TypeOK
<1>1. IInv => TypeOK
  BY DEF IInv
<1> QED
  BY <1>1, Invariance, PTL

(* connectTask is never called while an earlier socket lives, unless the   *)
(* client recovered from sleep: not at all in the default build.           *)
THEOREM OneAtATime == Spec => []OneSocket
<1>1. IInv => OneSocket
  BY DEF IInv, Alone, OneSocket
<1> QED
  BY <1>1, Invariance, PTL

(* No socket lives unwatched while the client is to stay connected, not    *)
(* even after a recovery from sleep has made a second one.                 *)
THEOREM NoLossUnseen == Spec => []Watched
<1>1. IInv => Watched
  BY DEF IInv
<1> QED
  BY <1>1, Invariance, PTL

(* available() never vouches for a socket that is not open, nor after the  *)
(* end of the session, though an answer may come while end() is waiting.   *)
THEOREM AvailableHolds == Spec => []AvailableIsReal
<1>1. IInv => AvailableIsReal
  BY DEF IInv
<1> QED
  BY <1>1, Invariance, PTL
=============================================================================
