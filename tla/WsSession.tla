----------------------------- MODULE WsSession -----------------------------
(***************************************************************************)
(* What the server tells the other clients about one of them: the flags of *)
(* a session (main/session.h), the handler of its messages and of its      *)
(* events (main/wsproto.h), and the sockets that come and go beneath it    *)
(* (main/http/server.cpp, main/http/socket).                               *)
(*                                                                         *)
(* The httpd task accepts and closes sockets, handles messages and closes  *)
(* sessions; the scheduler task collects expired ones.  The flags are read *)
(* and written in critical sections of their own, so between any two of    *)
(* them the other task may step.  The array of sessions is SessionManager; *)
(* here a session is stored in it or not.                                  *)
(***************************************************************************)
EXTENDS FiniteSets

CONSTANTS
  Sessions,   \* names of session objects, given to new ones once they are free
  Fds,        \* file descriptors of sockets, used again and again
  None,       \* noAsyncSocket, and no session
  Httpd,      \* the task that serves sockets
  Scheduler   \* the task that runs "server gc"

ASSUME NoneAssumption == None \notin Sessions \union Fds
ASSUME TaskAssumption == Httpd # Scheduler

Tasks == {Httpd, Scheduler}

(* sessionFlags, by their initials: the client left, it signed in, its     *)
(* socket changed since its last message, the others were told it left.    *)
Flags == {"DISCONNECTED", "AUTHORIZE", "SOCKET_CHANGE", "NOTE_SENT"}

VARIABLES
  stored,   \* the sessions in the session manager's array
  flags,    \* flags of each session
  sock,     \* _socket of each session
  conn,     \* the session in each socket's context, or None: not in use
  closing,  \* sockets for which a job that closes them is queued
  at,       \* what each task is about to do
  on,       \* the session it does it for
  seen,     \* the copy of the flags it has read
  owed,     \* removed sessions whose CLOSE event it has to handle
  present,  \* the sessions whose clients the others believe connected
  signed,   \* history: signed in since its socket last changed
  late      \* history: sessions announced after their departure was told

task == <<at, on, seen, owed>>
vars == <<stored, flags, sock, conn, closing, task, present, signed, late>>

-----------------------------------------------------------------------------
(* A weak pointer to x can be locked while someone holds the object.       *)
Alive(x) == x \in stored \/ \E t \in Tasks : x \in owed[t] \/ on[t] = x

Idle(t) == at[t] = "idle"

Add(x, fs)  == flags' = [flags EXCEPT ![x] = @ \union fs]
Goto(t, label) == at' = [at EXCEPT ![t] = label]

(* A handler returns: its locals, and the pointer it held, are gone.       *)
Done(t) ==
  /\ Goto(t, "idle")
  /\ on' = [on EXCEPT ![t] = None]
  /\ seen' = [seen EXCEPT ![t] = {}]

(* Whether a handler of CLOSE or WS_CLOSE is to tell the others.           *)
Telling(t) == at[t] \in {"closeTell", "lostTell"} /\ "NOTE_SENT" \notin seen[t]

(* connectedNotify(.., 3), queued for all other sessions: they hear that   *)
(* the client of x left.                                                   *)
TellLeft(x) == present' = present \ {x}

Init ==
  /\ stored = {}
  /\ flags = [x \in Sessions |-> {}]
  /\ sock = [x \in Sessions |-> None]
  /\ conn = [f \in Fds |-> None]
  /\ closing = {}
  /\ at = [t \in Tasks |-> "idle"]
  /\ on = [t \in Tasks |-> None]
  /\ seen = [t \in Tasks |-> {}]
  /\ owed = [t \in Tasks |-> {}]
  /\ present = {}
  /\ signed = [x \in Sessions |-> FALSE]
  /\ late = {}

-----------------------------------------------------------------------------
(* The session manager, as far as this module needs it.                    *)

(* A page is requested without a session: one is made, under a name that   *)
(* nothing refers to.                                                      *)
Open(x) ==
  /\ Idle(Httpd) /\ ~Alive(x) /\ \A f \in Fds : conn[f] # x
  /\ stored' = stored \union {x}
  /\ flags' = [flags EXCEPT ![x] = {}]
  /\ sock' = [sock EXCEPT ![x] = None]
  /\ present' = present \ {x}
  /\ signed' = [signed EXCEPT ![x] = FALSE]
  /\ late' = late \ {x}
  /\ UNCHANGED <<conn, closing, task>>

Remove(t, S) ==
  /\ stored' = stored \ S
  /\ owed' = [owed EXCEPT ![t] = S]
  /\ Goto(t, "close")

(* POST /leave, or a lookup or placement that finds x expired.  Time is    *)
(* not modelled: any stored session may have expired.                      *)
Dismiss(x) ==
  /\ Idle(Httpd) /\ x \in stored
  /\ Remove(Httpd, {x})
  /\ UNCHANGED <<flags, sock, conn, closing, on, seen, present, signed, late>>

(* "server gc" removes all sessions that have expired at once.             *)
Collect ==
  /\ Idle(Scheduler)
  /\ \E gone \in SUBSET stored : gone # {} /\ Remove(Scheduler, gone)
  /\ UNCHANGED <<flags, sock, conn, closing, on, seen, present, signed, late>>

-----------------------------------------------------------------------------
(* Messages.  The handshake stores the socket in the session; its event    *)
(* (WS_OPEN or WS_CHANGE) changes nothing.                                 *)
Upgrade(f, x) ==
  /\ Idle(Httpd) /\ conn[f] = None /\ x \in stored
  /\ conn' = [conn EXCEPT ![f] = x]
  /\ sock' = [sock EXCEPT ![x] = f]
  /\ Add(x, {"SOCKET_CHANGE"})
  /\ signed' = [signed EXCEPT ![x] = FALSE]
  /\ UNCHANGED <<stored, closing, task, present, late>>

(* Mutant of Message: a change of socket does not revoke the sign-in.      *)
MessageKeepsSignIn(f) ==
  /\ Idle(Httpd) /\ conn[f] # None /\ Alive(conn[f])
  /\ LET x == conn[f]
         fs == flags[x] \ {"SOCKET_CHANGE"}
     IN  /\ flags' = [flags EXCEPT ![x] = fs]
         /\ seen' = [seen EXCEPT ![Httpd] = fs]
         /\ on' = [on EXCEPT ![Httpd] = x]
  /\ Goto(Httpd, "message")
  /\ UNCHANGED <<stored, sock, conn, closing, owed, present, signed, late>>

(* A message of a socket whose session lives: the flags are copied, and    *)
(* the first message after a change of socket revokes the sign-in.  The    *)
(* copy is made before the flags are written; all that can happen between  *)
(* is a note sent of a session no longer stored.                           *)
Message(f) ==
  /\ Idle(Httpd) /\ conn[f] # None /\ Alive(conn[f])
  /\ LET x == conn[f]
         fs == IF "SOCKET_CHANGE" \in flags[x]
                 THEN flags[x] \ {"SOCKET_CHANGE", "AUTHORIZE", "NOTE_SENT"}
                 ELSE flags[x]
     IN  /\ flags' = [flags EXCEPT ![x] = fs]
         /\ seen' = [seen EXCEPT ![Httpd] = fs]
         /\ on' = [on EXCEPT ![Httpd] = x]
  /\ Goto(Httpd, "message")
  /\ UNCHANGED <<stored, sock, conn, closing, owed, present, signed, late>>

(* A "ping:" is answered before the flags are looked at again: it reads    *)
(* AUTHORIZE while a change of socket has yet to revoke it ...             *)
Ping(f) ==
  /\ Idle(Httpd) /\ conn[f] # None /\ Alive(conn[f])
  /\ on' = [on EXCEPT ![Httpd] = conn[f]]
  /\ seen' = [seen EXCEPT ![Httpd] = flags[conn[f]]]
  /\ Goto(Httpd, "ping")
  /\ UNCHANGED <<stored, flags, sock, conn, closing, owed, present, signed, late>>

(* ... and writes the time of the heartbeat, or nothing ("authfail").      *)
Pong ==
  /\ at[Httpd] = "ping"
  /\ Done(Httpd)
  /\ UNCHANGED <<stored, flags, sock, conn, closing, owed, present, signed, late>>

(* "auth:" first writes the flags ...                                      *)
SignIn ==
  /\ at[Httpd] = "message"
  /\ LET x == on[Httpd]
     IN  /\ flags' = [flags EXCEPT ![x] =
                        (@ \union {"AUTHORIZE"}) \ {"DISCONNECTED", "NOTE_SENT"}]
         /\ signed' = [signed EXCEPT ![x] = TRUE]
  /\ Goto(Httpd, "welcome")
  /\ UNCHANGED <<stored, sock, conn, closing, on, seen, owed, present, late>>

(* The departure of x has yet to be told by the task that removed it.      *)
NoteToCome(x) ==
  \E t \in Tasks : x \in owed[t] \/ (at[t] = "closeTell" /\ on[t] = x /\ Telling(t))

(* ... and then tells the others that the client is connected, or again,   *)
(* even of a session that was removed, and its departure told, meanwhile.  *)
Welcome ==
  /\ at[Httpd] = "welcome"
  /\ present' = present \union {on[Httpd]}
  /\ late' = IF on[Httpd] \in stored \/ NoteToCome(on[Httpd])
               THEN late ELSE late \union {on[Httpd]}
  /\ Done(Httpd)
  /\ UNCHANGED <<stored, flags, sock, conn, closing, owed, signed>>

(* "authfail" for whatever else comes from a client not signed in.         *)
Refuse ==
  /\ at[Httpd] = "message" /\ "AUTHORIZE" \notin seen[Httpd]
  /\ Done(Httpd)
  /\ UNCHANGED <<stored, flags, sock, conn, closing, owed, present, signed, late>>

(* "leave:" closes the session, if it is still stored.                     *)
Leave ==
  /\ at[Httpd] = "message" /\ "AUTHORIZE" \in seen[Httpd]
  /\ LET x == on[Httpd]
     IN  \/ /\ x \in stored
            /\ Remove(Httpd, {x})
            /\ UNCHANGED <<on, seen>>
         \/ /\ x \notin stored
            /\ Done(Httpd)
            /\ UNCHANGED <<stored, owed>>
  /\ UNCHANGED <<flags, sock, conn, closing, present, signed, late>>

(* Any command; that it prolongs the session is left to SessionManager.    *)
Command ==
  /\ at[Httpd] = "message" /\ "AUTHORIZE" \in seen[Httpd]
  /\ Done(Httpd)
  /\ UNCHANGED <<stored, flags, sock, conn, closing, owed, present, signed, late>>

-----------------------------------------------------------------------------
(* The end of a socket: the client went away, a queued job closes it, or   *)
(* its session is gone and the handler of its message failed.              *)
SocketClose(f) ==
  LET x == conn[f]
  IN  /\ conn' = [conn EXCEPT ![f] = None]
      /\ \/ /\ Alive(x) /\ sock[x] = f
            /\ sock' = [sock EXCEPT ![x] = None]
            /\ Add(x, {"SOCKET_CHANGE"})
            /\ on' = [on EXCEPT ![Httpd] = x]
            /\ Goto(Httpd, "lost")
            /\ signed' = [signed EXCEPT ![x] = FALSE]
         \/ /\ ~(Alive(x) /\ sock[x] = f)
            /\ UNCHANGED <<sock, flags, on, at, signed>>
      /\ UNCHANGED <<stored, seen, owed, present, late>>

HangUp(f) ==
  /\ Idle(Httpd) /\ conn[f] # None
  /\ SocketClose(f)
  /\ UNCHANGED closing

(* asyncSocket::close queued only the descriptor: whoever uses it now.     *)
RunClose(f) ==
  /\ Idle(Httpd) /\ f \in closing
  /\ closing' = closing \ {f}
  /\ \/ conn[f] # None /\ SocketClose(f)
     \/ /\ conn[f] = None
        /\ UNCHANGED <<stored, flags, sock, conn, task, present, signed, late>>

(* WS_CLOSE is delivered only if the session is still stored.              *)
Lost ==
  /\ at[Httpd] = "lost"
  /\ \/ /\ on[Httpd] \in stored
        /\ Goto(Httpd, "lostRead")
        /\ UNCHANGED <<on, seen>>
     \/ /\ on[Httpd] \notin stored
        /\ Done(Httpd)
  /\ UNCHANGED <<stored, flags, sock, conn, closing, owed, present, signed, late>>

LostRead ==
  /\ at[Httpd] = "lostRead"
  /\ seen' = [seen EXCEPT ![Httpd] = flags[on[Httpd]]]
  /\ Goto(Httpd, "lostTell")
  /\ UNCHANGED <<stored, flags, sock, conn, closing, on, owed, present, signed, late>>

(* Mutant of LostTell: the test of the mark is inverted.                   *)
LostTellInverted ==
  /\ at[Httpd] = "lostTell"
  /\ IF Telling(Httpd) THEN UNCHANGED present ELSE TellLeft(on[Httpd])
  /\ Goto(Httpd, "lostSet")
  /\ UNCHANGED <<stored, flags, sock, conn, closing, on, seen, owed, signed, late>>

LostTell ==
  /\ at[Httpd] = "lostTell"
  /\ IF Telling(Httpd) THEN TellLeft(on[Httpd]) ELSE UNCHANGED present
  /\ Goto(Httpd, "lostSet")
  /\ UNCHANGED <<stored, flags, sock, conn, closing, on, seen, owed, signed, late>>

LostSet ==
  /\ at[Httpd] = "lostSet"
  /\ Add(on[Httpd], {"DISCONNECTED", "NOTE_SENT"})
  /\ Done(Httpd)
  /\ UNCHANGED <<stored, sock, conn, closing, owed, present, signed, late>>

-----------------------------------------------------------------------------
(* CLOSE, handled by the task t that removed the session.                  *)
CloseRead(t) ==
  /\ at[t] = "close"
  /\ \E x \in owed[t] : /\ owed' = [owed EXCEPT ![t] = @ \ {x}]
                        /\ on' = [on EXCEPT ![t] = x]
                        /\ seen' = [seen EXCEPT ![t] = flags[x]]
  /\ Goto(t, "closeTell")
  /\ UNCHANGED <<stored, flags, sock, conn, closing, present, signed, late>>

(* Mutant of CloseTell: the mark is set and nobody is told.                *)
CloseTellSilent(t) ==
  /\ at[t] = "closeTell"
  /\ UNCHANGED present
  /\ Goto(t, IF Telling(t) THEN "closeSet" ELSE "closeSocket")
  /\ UNCHANGED <<stored, flags, sock, conn, closing, on, seen, owed, signed, late>>

CloseTell(t) ==
  /\ at[t] = "closeTell"
  /\ IF Telling(t)
       THEN TellLeft(on[t]) /\ Goto(t, "closeSet")
       ELSE UNCHANGED present /\ Goto(t, "closeSocket")
  /\ UNCHANGED <<stored, flags, sock, conn, closing, on, seen, owed, signed, late>>

CloseSet(t) ==
  /\ at[t] = "closeSet"
  /\ Add(on[t], {"NOTE_SENT"})
  /\ seen' = [seen EXCEPT ![t] = flags'[on[t]]]
  /\ Goto(t, "closeSocket")
  /\ UNCHANGED <<stored, sock, conn, closing, on, owed, present, signed, late>>

(* Mutant of CloseSocket: only a socket known to be closed is closed.      *)
CloseSocketInverted(t) ==
  /\ at[t] = "closeSocket"
  /\ closing' = IF sock[on[t]] # None /\ "DISCONNECTED" \in seen[t]
                  THEN closing \union {sock[on[t]]} ELSE closing
  /\ on' = [on EXCEPT ![t] = None]
  /\ seen' = [seen EXCEPT ![t] = {}]
  /\ Goto(t, IF owed[t] = {} THEN "idle" ELSE "close")
  /\ UNCHANGED <<stored, flags, sock, conn, owed, present, signed, late>>

(* The socket of a session that did not leave is closed, by a queued job.  *)
CloseSocket(t) ==
  /\ at[t] = "closeSocket"
  /\ closing' = IF sock[on[t]] # None /\ "DISCONNECTED" \notin seen[t]
                  THEN closing \union {sock[on[t]]} ELSE closing
  /\ on' = [on EXCEPT ![t] = None]
  /\ seen' = [seen EXCEPT ![t] = {}]
  /\ Goto(t, IF owed[t] = {} THEN "idle" ELSE "close")
  /\ UNCHANGED <<stored, flags, sock, conn, owed, present, signed, late>>

-----------------------------------------------------------------------------
MessageStep == Pong \/ SignIn \/ Welcome \/ Refuse \/ Leave \/ Command
LostStep == Lost \/ LostRead \/ LostTell \/ LostSet
CloseStep(t) == CloseRead(t) \/ CloseTell(t) \/ CloseSet(t) \/ CloseSocket(t)

Next ==
  \/ \E x \in Sessions : Open(x) \/ Dismiss(x)
  \/ Collect
  \/ \E f \in Fds : \/ \E x \in Sessions : Upgrade(f, x)
                    \/ Message(f) \/ Ping(f) \/ HangUp(f) \/ RunClose(f)
  \/ MessageStep \/ LostStep
  \/ \E t \in Tasks : CloseStep(t)

Spec == Init /\ [][Next]_vars

(* A handler runs to its end, and httpd serves its queue of jobs in every  *)
(* turn, however many messages come.                                       *)
Fairness ==
  /\ WF_vars(MessageStep) /\ WF_vars(LostStep)
  /\ \A t \in Tasks : WF_vars(CloseStep(t))
  /\ \A f \in Fds : SF_vars(RunClose(f))

FairSpec == Spec /\ Fairness

-----------------------------------------------------------------------------
TypeOK ==
  /\ stored \in SUBSET Sessions
  /\ flags \in [Sessions -> SUBSET Flags]
  /\ sock \in [Sessions -> Fds \union {None}]
  /\ conn \in [Fds -> Sessions \union {None}]
  /\ closing \in SUBSET Fds
  /\ at \in [Tasks -> {"idle", "message", "ping", "welcome", "lost", "lostRead",
                      "lostTell", "lostSet", "close", "closeTell", "closeSet", "closeSocket"}]
  /\ on \in [Tasks -> Sessions \union {None}]
  /\ seen \in [Tasks -> SUBSET Flags]
  /\ owed \in [Tasks -> SUBSET Sessions]
  /\ present \in SUBSET Sessions
  /\ signed \in [Sessions -> BOOLEAN]
  /\ late \in SUBSET Sessions

(* A command is taken for a signed-in client's only if the client signed   *)
(* in after its socket last changed, although the flag itself survives the *)
(* socket (wsproto.h:193-198, 263).  A ping alone trusts the flag that an  *)
(* earlier socket left (wsproto.h:170), and only until the first message   *)
(* of the new socket has revoked it: the revocation stays due.             *)
NoStaleSignIn ==
  "AUTHORIZE" \in seen[Httpd] =>
    /\ at[Httpd] = "message" => signed[on[Httpd]]
    /\ at[Httpd] = "ping" => signed[on[Httpd]] \/ "SOCKET_CHANGE" \in flags[on[Httpd]]

(* The mark that suppresses the note of a departure is never set on a      *)
(* stored session that the others believe present (wsproto.h:570, 600):    *)
(* otherwise nobody would ever hear that it left.                          *)
NoteIsDue ==
  \A x \in stored \intersect present : "NOTE_SENT" \notin flags[x]

(* When the socket of a present client ends, or its session is no longer   *)
(* stored, the others hear that it left, whichever task gets to tell them  *)
(* and whatever the other one does meanwhile; but for a client whose       *)
(* sign-in is announced after that has been told (wsproto.h:225-247, 569). *)
Ending(x) == x \notin stored \/ (at[Httpd] = "lost" /\ on[Httpd] = x)

DepartureIsTold ==
  \A x \in Sessions : (Ending(x) /\ x \in present \ late) ~> x \notin present

(* The socket of a session that is removed while connected is closed.      *)
EndedIsCut ==
  \A x \in Sessions, f \in Fds :
    (\E t \in Tasks : x \in owed[t] /\ sock[x] = f /\ "DISCONNECTED" \notin flags[x])
      ~> conn[f] # x
=============================================================================
