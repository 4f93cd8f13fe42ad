-------------------------- MODULE WsSessionProofs --------------------------
(***************************************************************************)
(* Theorems about WsSession, for any number of sessions and sockets: what  *)
(* the flags of a session say of its client is true, whatever the two      *)
(* tasks do between their critical sections.                               *)
(***************************************************************************)
EXTENDS WsSession, TLAPS

(* A sign-in that no change of socket has put in doubt is a real one.      *)
SignInsHold ==
  \A x \in Sessions :
    "AUTHORIZE" \in flags[x] /\ "SOCKET_CHANGE" \notin flags[x] => signed[x]

(* Whoever handles something holds a session, and whoever handles CLOSE    *)
(* one that is no longer stored.                                           *)
HandlersHold ==
  \A t \in Tasks :
    /\ at[t] \notin {"idle", "close"} => on[t] \in Sessions
    /\ at[t] \in {"closeTell", "closeSet", "closeSocket"} => on[t] \notin stored
    /\ owed[t] \intersect stored = {}

(* While a sign-in waits to be announced its session bears no mark, and    *)
(* while the end of a socket is handled a marked session is not present.   *)
NotesHold ==
  on[Httpd] \in stored =>
    /\ at[Httpd] = "welcome" => "NOTE_SENT" \notin flags[on[Httpd]]
    /\ at[Httpd] = "lostTell" /\ "NOTE_SENT" \in seen[Httpd] => on[Httpd] \notin present
    /\ at[Httpd] = "lostSet" => on[Httpd] \notin present

IInv == /\ TypeOK
        /\ SignInsHold
        /\ HandlersHold
        /\ NotesHold
        /\ NoStaleSignIn
        /\ NoteIsDue

-----------------------------------------------------------------------------
(* The end of a socket, closed by its client or by a job of httpd.         *)
LEMMA SocketCloseStep ==
  ASSUME NEW f \in Fds, IInv, at[Httpd] = "idle", conn[f] # None,
         SocketClose(f), closing' \in SUBSET Fds
  PROVE  IInv'
<1> USE NoneAssumption, TaskAssumption DEF IInv, TypeOK, Tasks
<1>1. PICK x \in Sessions : x = conn[f]
  OBVIOUS
<1>2. conn' \in [Fds -> Sessions \union {None}]
  BY DEF SocketClose
<1>3. CASE Alive(x) /\ sock[x] = f
  <2>1. /\ sock' = [sock EXCEPT ![x] = None]
        /\ flags' = [flags EXCEPT ![x] = @ \union {"SOCKET_CHANGE"}]
        /\ on' = [on EXCEPT ![Httpd] = x]
        /\ at' = [at EXCEPT ![Httpd] = "lost"]
        /\ signed' = [signed EXCEPT ![x] = FALSE]
        /\ UNCHANGED <<stored, seen, owed, present, late>>
    BY <1>1, <1>3 DEF SocketClose, Add, Goto
  <2>2. TypeOK'
    BY <1>2, <2>1 DEF Flags
  <2>3. SignInsHold' /\ NoStaleSignIn'
    BY <2>1 DEF SignInsHold, NoStaleSignIn
  <2>4. HandlersHold' /\ NotesHold' /\ NoteIsDue'
    BY <2>1 DEF HandlersHold, NotesHold, NoteIsDue
  <2> QED BY <2>2, <2>3, <2>4
<1>4. CASE ~(Alive(x) /\ sock[x] = f)
  <2>1. UNCHANGED <<stored, flags, sock, at, on, seen, owed, present, signed, late>>
    BY <1>1, <1>4 DEF SocketClose
  <2> QED
    BY <1>2, <2>1
       DEF SignInsHold, HandlersHold, NotesHold, NoStaleSignIn, NoteIsDue
<1> QED BY <1>3, <1>4

(* Every step preserves the inductive invariant.                           *)
LEMMA Step == IInv /\ [Next]_vars => IInv'
<1> SUFFICES ASSUME IInv, [Next]_vars PROVE IInv'
  OBVIOUS
<1> USE NoneAssumption, TaskAssumption
    DEF IInv, TypeOK, SignInsHold, HandlersHold, NotesHold, NoStaleSignIn, NoteIsDue,
        Tasks, Flags, Idle, Alive, Goto, Done, Telling
<1>1. ASSUME NEW x \in Sessions, Open(x) PROVE IInv'
  BY <1>1 DEF Open, task
<1>2. ASSUME NEW x \in Sessions, Dismiss(x) PROVE IInv'
  BY <1>2 DEF Dismiss, Remove
<1>3. CASE Collect
  BY <1>3 DEF Collect, Remove
<1>4. ASSUME NEW f \in Fds, NEW x \in Sessions, Upgrade(f, x) PROVE IInv'
  BY <1>4 DEF Upgrade, Add, task
<1>5. ASSUME NEW f \in Fds, Message(f) PROVE IInv'
  BY <1>5 DEF Message
<1>22. ASSUME NEW f \in Fds, Ping(f) PROVE IInv'
  BY <1>22 DEF Ping
<1>23. CASE Pong
  BY <1>23 DEF Pong
<1>6. ASSUME NEW f \in Fds, HangUp(f) PROVE IInv'
  BY <1>6, SocketCloseStep DEF HangUp
<1>7. ASSUME NEW f \in Fds, RunClose(f) PROVE IInv'
  <2>1. CASE conn[f] # None /\ SocketClose(f)
    BY <1>7, <2>1, SocketCloseStep DEF RunClose
  <2>2. CASE UNCHANGED <<stored, flags, sock, conn, task, present, signed, late>>
    BY <1>7, <2>2 DEF RunClose, task
  <2> QED BY <1>7, <2>1, <2>2 DEF RunClose
<1>8. CASE SignIn
  BY <1>8 DEF SignIn
<1>9. CASE Welcome
  BY <1>9 DEF Welcome
<1>10. CASE Refuse
  BY <1>10 DEF Refuse
<1>11. CASE Leave
  BY <1>11 DEF Leave, Remove
<1>12. CASE Command
  BY <1>12 DEF Command
<1>13. CASE Lost
  BY <1>13 DEF Lost
<1>14. CASE LostRead
  BY <1>14 DEF LostRead
<1>15. CASE LostTell
  BY <1>15 DEF LostTell, TellLeft
<1>16. CASE LostSet
  BY <1>16 DEF LostSet, Add
<1>17. ASSUME NEW t \in Tasks, CloseRead(t) PROVE IInv'
  BY <1>17 DEF CloseRead
<1>18. ASSUME NEW t \in Tasks, CloseTell(t) PROVE IInv'
  BY <1>18 DEF CloseTell, TellLeft
<1>19. ASSUME NEW t \in Tasks, CloseSet(t) PROVE IInv'
  BY <1>19 DEF CloseSet, Add
<1>20. ASSUME NEW t \in Tasks, CloseSocket(t) PROVE IInv'
  BY <1>20 DEF CloseSocket
<1>21. CASE UNCHANGED vars
  BY <1>21 DEF vars, task
<1> QED
  BY <1>1, <1>2, <1>3, <1>4, <1>5, <1>6, <1>7, <1>8, <1>9, <1>10,
     <1>11, <1>12, <1>13, <1>14, <1>15, <1>16, <1>17, <1>18, <1>19, <1>20, <1>21,
     <1>22, <1>23
     DEF Next, MessageStep, LostStep, CloseStep

(* What httpd and the scheduler hold and what the flags say agree in every *)
(* reachable state: the inductive invariant of this module.                *)
THEOREM Agreement == Spec => []IInv
<1>1. Init => IInv
  BY NoneAssumption, TaskAssumption
     DEF Init, IInv, TypeOK, SignInsHold, HandlersHold, NotesHold, NoStaleSignIn,
         NoteIsDue, Tasks
<1>2. IInv /\ [Next]_vars => IInv'
  BY Step
<1> QED BY <1>1, <1>2, PTL DEF Spec

(* Every variable keeps its type (session.h, wsproto.h, http/server.cpp).  *)
THEOREM TypeCorrect == Spec => []TypeOK
<1>1. IInv => TypeOK
  BY DEF IInv
<1> QED BY <1>1, Agreement, PTL

(* A command is accepted only of a client that signed in after its socket  *)
(* last changed, and a ping that trusts an older sign-in leaves the change *)
(* to be noticed by the next message (wsproto.h:168-182, 193-198, 263).    *)
THEOREM SignInIsFresh == Spec => []NoStaleSignIn
<1>1. IInv => NoStaleSignIn
  BY DEF IInv
<1> QED BY <1>1, Agreement, PTL

(* No stored session bears the mark that would silence its departure while *)
(* the others believe its client present (wsproto.h:570, 600).             *)
THEOREM DepartureCanBeTold == Spec => []NoteIsDue
<1>1. IInv => NoteIsDue
  BY DEF IInv
<1> QED BY <1>1, Agreement, PTL
=============================================================================
