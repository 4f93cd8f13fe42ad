--------------------------- MODULE SessionManager ---------------------------
(***************************************************************************)
(* http::session::manager (main/http/session/manager.h) as sessionManager  *)
(* (main/sessionManager.cpp) instantiates it: a fixed array of slots       *)
(* holding shared pointers to sessions, guarded by one shared mutex.       *)
(*                                                                         *)
(* The httpd task is the only one that opens, renews, closes and prolongs  *)
(* sessions; the collectors (the scheduler task, which runs "server gc")   *)
(* are the other tasks that take pointers out of the array.  Every section *)
(* under the mutex is one step.  What the code does before it takes the    *)
(* mutex (reading the clock) and after it gives it back (invalidating what *)
(* it removed) is a step of its own, so tasks interleave there.            *)
(*                                                                         *)
(* A session object is named by the index its generator gave it: pointer   *)
(* equality in the code is equality of indices here.                       *)
(***************************************************************************)
EXTENDS Integers, FiniteSets

CONSTANTS
  Total,           \* SESSION_MAX_CLIENT_COUNT, the size of storage.data
  Sids,            \* the session identifiers generateSID can produce
  Collectors,      \* tasks that call collect()
  Httpd,           \* the task that serves requests
  Duration,        \* SESSION_TIMEOUT, in seconds
  TicksPerSecond,  \* instants of esp_timer_get_time() within a second
  MaxSessions,     \* bound: session objects ever made
  MaxTime          \* bound: last instant of the clock

ASSUME TotalAssumption == Total \in Nat \ {0}
ASSUME TaskAssumption == Httpd \notin Collectors
ASSUME TimeAssumption == Duration \in Nat /\ TicksPerSecond \in Nat \ {0}
ASSUME BoundAssumption == MaxSessions \in Nat /\ MaxTime \in Nat

Slots == 0 .. Total - 1
Idx   == 0 .. MaxSessions - 1
Tasks == Collectors \union {Httpd}
Nil   == -1                      \* nullptr
Tries == 3                       \* attempts of open() to place a session

VARIABLES
  now,      \* esp_timer_get_time()
  data,     \* storage.data: the session of each slot, or Nil
  count,    \* storage.count
  next,     \* the index generator
  sid,      \* _sid of each session object
  upd,      \* _updatedExpiredS of each session object, in seconds
  valid,    \* _valid of each session object
  closes,   \* CLOSE notifications emitted for each session object
  pc,       \* what each task is about to do
  ts,       \* the timestamp local to the call each task is in
  sess,     \* the session pointer the httpd task holds, or Nil
  attempt,  \* the loop counter of open()
  owed      \* sessions a task took out and has not invalidated yet

objects == <<sid, upd, valid, closes>>
vars == <<now, data, count, next, objects, pc, ts, sess, attempt, owed>>

-----------------------------------------------------------------------------
Stored(x) == \E i \in Slots : data[i] = x
Occupied  == {i \in Slots : data[i] # Nil}
Created   == {x \in Idx : x < next}

(* session::expired: the mark is kept in whole seconds.                    *)
Expired(x, t) == t - upd[x] * TicksPerSecond > Duration * TicksPerSecond

(* What findBy returns when the slots in S match: the session of the first *)
(* of them, and nothing at all when the count says the array is empty.     *)
Finds(x, S) ==
  IF count = 0 \/ S = {}
    THEN x = Nil
    ELSE \E i \in S : (\A j \in S : i <= j) /\ x = data[i]

WithSid(s) == {i \in Occupied : sid[data[i]] = s}

(* removeBy: takes the pointer out of its slot and leaves count alone.     *)
Without(x) == [i \in Slots |-> IF data[i] = x THEN Nil ELSE data[i]]

Goto(t, label) == pc' = [pc EXCEPT ![t] = label]

(* A call's locals end with it: an instant that is read no more is not     *)
(* kept, which only keeps equal states equal.                              *)
Forget(t) == ts' = [ts EXCEPT ![t] = 0]

-----------------------------------------------------------------------------
Init ==
  /\ now = 0
  /\ data = [i \in Slots |-> Nil]
  /\ count = 0
  /\ next = 0
  /\ sid = [x \in Idx |-> Nil]
  /\ upd = [x \in Idx |-> 0]
  /\ valid = [x \in Idx |-> FALSE]
  /\ closes = [x \in Idx |-> 0]
  /\ pc = [t \in Tasks |-> "idle"]
  /\ ts = [t \in Tasks |-> 0]
  /\ sess = Nil
  /\ attempt = 0
  /\ owed = [t \in Tasks |-> {}]

Tick ==
  /\ now < MaxTime
  /\ now' = now + 1
  /\ UNCHANGED <<data, count, next, objects, pc, ts, sess, attempt, owed>>

-----------------------------------------------------------------------------
(* open(context): up to three attempts to place a session just made.  A    *)
(* call is begun only while the bound leaves it all its attempts.          *)
OpenNew ==
  /\ pc[Httpd] = "idle"
  /\ next + Tries <= MaxSessions
  /\ Goto(Httpd, "place")
  /\ ts' = [ts EXCEPT ![Httpd] = now]
  /\ UNCHANGED <<now, data, count, next, objects, sess, attempt, owed>>

(* makeSession: the object starts valid, marked with the caller's clock.   *)
MakeSession(s) ==
  /\ next < MaxSessions
  /\ next' = next + 1
  /\ sid' = [sid EXCEPT ![next] = s]
  /\ upd' = [upd EXCEPT ![next] = ts[Httpd] \div TicksPerSecond]
  /\ valid' = [valid EXCEPT ![next] = TRUE]
  /\ UNCHANGED closes

Live == {i \in Occupied : ~Expired(data[i], ts[Httpd])}
Free == Slots \ Live
Collides(s) == \E i \in Live : sid[data[i]] = s

(* placeNew refuses: the session just made is invalidated instead.         *)
PlaceFails(s) ==
  /\ Collides(s) \/ Free = {}
  /\ owed' = [owed EXCEPT ![Httpd] = {next}]
  /\ attempt' = attempt + 1
  /\ Goto(Httpd, "retry")
  /\ UNCHANGED <<data, count, sess, ts>>

(* Mutant of PlaceSucceeds: the expired session is overwritten in silence. *)
PlaceOverwrites(s) ==
  /\ ~Collides(s)
  /\ \E slot \in Free :
       /\ \A other \in Free : slot <= other
       /\ data' = [data EXCEPT ![slot] = next]
       /\ count' = IF data[slot] = Nil THEN count + 1 ELSE count
  /\ sess' = next
  /\ attempt' = 0
  /\ Goto(Httpd, "drop")
  /\ Forget(Httpd)
  /\ UNCHANGED owed

(* placeNew takes the first slot that is empty or holds an expired session *)
(* and hands that session back to be invalidated.                          *)
PlaceSucceeds(s) ==
  /\ ~Collides(s)
  /\ \E slot \in Free :
       /\ \A other \in Free : slot <= other
       /\ data' = [data EXCEPT ![slot] = next]
       /\ count' = IF data[slot] = Nil THEN count + 1 ELSE count
       /\ owed' = [owed EXCEPT ![Httpd] = {data[slot]} \ {Nil}]
  /\ sess' = next
  /\ attempt' = 0
  /\ Goto(Httpd, "drop")
  /\ Forget(Httpd)

Place ==
  /\ pc[Httpd] = "place"
  /\ \E s \in Sids : MakeSession(s) /\ (PlaceFails(s) \/ PlaceSucceeds(s))
  /\ UNCHANGED now

(* Mutant of Retry: the failed session forgotten.                          *)
RetryForgets ==
  /\ pc[Httpd] = "retry"
  /\ Goto(Httpd, IF attempt < Tries THEN "place" ELSE "idle")
  /\ attempt' = IF attempt < Tries THEN attempt ELSE 0
  /\ owed' = [owed EXCEPT ![Httpd] = {}]
  /\ UNCHANGED <<now, data, count, next, objects, ts, sess>>

(* After the session of a failed attempt was invalidated.                  *)
Retry ==
  /\ pc[Httpd] = "retry"
  /\ owed[Httpd] = {}
  /\ \/ /\ attempt < Tries
        /\ Goto(Httpd, "place")
        /\ UNCHANGED <<attempt, ts>>
     \/ /\ attempt = Tries
        /\ Goto(Httpd, "idle")
        /\ attempt' = 0
        /\ Forget(Httpd)
  /\ UNCHANGED <<now, data, count, next, objects, sess, owed>>

-----------------------------------------------------------------------------
(* open(sid, context) for a request with a cookie; fromIndex(index, false) *)
(* for a notification that reaches its recipient.                          *)
Lookup(label) ==
  /\ pc[Httpd] = "idle"
  /\ Goto(Httpd, label)
  /\ ts' = [ts EXCEPT ![Httpd] = now]
  /\ UNCHANGED <<now, data, count, next, objects, sess, attempt, owed>>

LookupSid   == Lookup("findSid")
LookupIndex == next > 0 /\ Lookup("findIndex")

Absent ==
  /\ Goto(Httpd, "idle")
  /\ Forget(Httpd)
  /\ UNCHANGED <<now, data, count, next, objects, sess, attempt, owed>>

Outlived(x) ==
  /\ Expired(x, ts[Httpd])
  /\ Goto(Httpd, "evict")
  /\ sess' = x
  /\ Forget(Httpd)
  /\ UNCHANGED <<now, data, count, next, objects, attempt, owed>>

Prolonged(x) ==
  /\ ~Expired(x, ts[Httpd])
  /\ upd' = [upd EXCEPT ![x] = ts[Httpd] \div TicksPerSecond]
  /\ sess' = x
  /\ Goto(Httpd, "serve")
  /\ Forget(Httpd)
  /\ UNCHANGED <<now, data, count, next, sid, valid, closes, attempt, owed>>

(* validateSession may refuse a session that is found: then it is left as  *)
(* it is, expired or not.                                                  *)
FindSid ==
  /\ pc[Httpd] = "findSid"
  /\ \E s \in Sids, x \in Idx \union {Nil} :
       /\ Finds(x, WithSid(s))
       /\ Absent \/ (x # Nil /\ (Prolonged(x) \/ Outlived(x)))

(* The message goes to the session's socket; nothing is prolonged.         *)
FindIndex ==
  /\ pc[Httpd] = "findIndex"
  /\ \E x \in Created, y \in Idx \union {Nil} :
       /\ Finds(y, {i \in Occupied : data[i] = x})
       /\ \/ y = Nil /\ Absent
          \/ y # Nil /\ ~Expired(y, ts[Httpd]) /\ Absent
          \/ y # Nil /\ Outlived(y)

(* Mutants of Evict: the session is invalidated although it was no longer  *)
(* there; the count is lowered for it; it is removed by its identifier.    *)
EvictBlindly ==
  /\ pc[Httpd] = "evict"
  /\ data' = Without(sess)
  /\ owed' = [owed EXCEPT ![Httpd] = {sess}]
  /\ Goto(Httpd, "drop")
  /\ sess' = Nil
  /\ UNCHANGED <<now, count, next, objects, ts, attempt>>

EvictUncounted ==
  /\ pc[Httpd] = "evict"
  /\ count' = IF count = 0 THEN 0 ELSE count - 1
  /\ data' = Without(sess)
  /\ owed' = [owed EXCEPT ![Httpd] = IF Stored(sess) THEN {sess} ELSE {}]
  /\ Goto(Httpd, "drop")
  /\ sess' = Nil
  /\ UNCHANGED <<now, next, objects, ts, attempt>>

(* The second lock of a lookup that saw an expired session: it removes     *)
(* exactly that pointer, unless another task already has.                  *)
Evict ==
  /\ pc[Httpd] = "evict"
  /\ \/ /\ count > 0 /\ Stored(sess)
        /\ data' = Without(sess)
        /\ owed' = [owed EXCEPT ![Httpd] = {sess}]
     \/ /\ ~(count > 0 /\ Stored(sess))
        /\ UNCHANGED <<data, owed>>
  /\ Goto(Httpd, "drop")
  /\ sess' = Nil
  /\ UNCHANGED <<now, count, next, objects, ts, attempt>>

-----------------------------------------------------------------------------
(* A request or message on a socket that already has a session: the weak   *)
(* pointer in its context is locked, which succeeds while the array or a   *)
(* task that took the session out still holds the object.                  *)
Attach ==
  /\ pc[Httpd] = "idle"
  /\ \E x \in Created :
       /\ Stored(x) \/ \E t \in Tasks : x \in owed[t]
       /\ sess' = x
  /\ Goto(Httpd, "serve")
  /\ UNCHANGED <<now, data, count, next, objects, ts, attempt, owed>>

(* keepAlive: prolongs the session the message came for, without the       *)
(* manager's lock and whether or not it is still stored.                   *)
KeepAlive ==
  /\ pc[Httpd] = "serve"
  /\ upd' = [upd EXCEPT ![sess] = now \div TicksPerSecond]
  /\ UNCHANGED <<now, data, count, next, sid, valid, closes, pc, ts, sess,
                 attempt, owed>>

(* renew(sess): a new identifier, unless some stored session has it.       *)
Renew ==
  /\ pc[Httpd] = "serve"
  /\ \E s \in Sids : /\ Finds(Nil, WithSid(s))
                     /\ sid' = [sid EXCEPT ![sess] = s]
  /\ UNCHANGED <<now, data, count, next, upd, valid, closes, pc, ts, sess,
                 attempt, owed>>

(* Mutant of Close: the event is emitted while the array is locked.        *)
CloseUnderLock ==
  /\ pc[Httpd] = "serve"
  /\ \E x \in Idx :
       /\ Finds(x, WithSid(sid[sess]))
       /\ data' = Without(x)
       /\ valid' = [valid EXCEPT ![x] = FALSE]
       /\ closes' = [closes EXCEPT ![x] = @ + 1]
  /\ Goto(Httpd, "drop")
  /\ sess' = Nil
  /\ UNCHANGED <<now, count, next, sid, upd, ts, attempt, owed>>

(* close(sid of the session held): removes what has that identifier.       *)
Close ==
  /\ pc[Httpd] = "serve"
  /\ \E x \in Idx \union {Nil} :
       /\ Finds(x, WithSid(sid[sess]))
       /\ data' = IF x = Nil THEN data ELSE Without(x)
       /\ owed' = [owed EXCEPT ![Httpd] = {x} \ {Nil}]
  /\ Goto(Httpd, "drop")
  /\ sess' = Nil
  /\ UNCHANGED <<now, count, next, objects, ts, attempt>>

Served ==
  /\ pc[Httpd] = "serve"
  /\ Goto(Httpd, "idle")
  /\ sess' = Nil
  /\ UNCHANGED <<now, data, count, next, objects, ts, attempt, owed>>

-----------------------------------------------------------------------------
(* collect(): reads count and the clock, then sweeps under the lock.       *)
CollectBegin(t) ==
  /\ pc[t] = "idle"
  /\ count > 0
  /\ ts' = [ts EXCEPT ![t] = now]
  /\ Goto(t, "sweep")
  /\ UNCHANGED <<now, data, count, next, objects, sess, attempt, owed>>

CollectSweep(t) ==
  /\ pc[t] = "sweep"
  /\ LET gone == {i \in Occupied : Expired(data[i], ts[t])}
     IN  /\ data' = [i \in Slots |-> IF i \in gone THEN Nil ELSE data[i]]
         /\ count' = count - Cardinality(gone)
         /\ owed' = [owed EXCEPT ![t] = {data[i] : i \in gone}]
  /\ Goto(t, "drop")
  /\ Forget(t)
  /\ UNCHANGED <<now, next, objects, sess, attempt>>

(* invalidateSessionPtr, outside the lock: the object becomes garbage and  *)
(* the CLOSE event is emitted for it.                                      *)
Invalidate(t) ==
  /\ \E x \in owed[t] :
       /\ valid' = [valid EXCEPT ![x] = FALSE]
       /\ closes' = [closes EXCEPT ![x] = @ + 1]
       /\ owed' = [owed EXCEPT ![t] = @ \ {x}]
  /\ UNCHANGED <<now, data, count, next, sid, upd, pc, ts, sess, attempt>>

(* A call that owes nothing more returns; open() returns a session, which  *)
(* the request goes on with.                                               *)
Return(t) ==
  /\ pc[t] = "drop"
  /\ owed[t] = {}
  /\ Goto(t, IF t = Httpd /\ sess # Nil THEN "serve" ELSE "idle")
  /\ UNCHANGED <<now, data, count, next, objects, ts, sess, attempt, owed>>

-----------------------------------------------------------------------------
HttpdStep == \/ OpenNew \/ Place \/ Retry
             \/ LookupSid \/ LookupIndex \/ FindSid \/ FindIndex \/ Evict
             \/ Attach \/ KeepAlive \/ Renew \/ Close \/ Served

CollectorStep(t) == CollectBegin(t) \/ CollectSweep(t)

Next == \/ Tick
        \/ HttpdStep
        \/ \E t \in Collectors : CollectorStep(t)
        \/ \E t \in Tasks : Invalidate(t) \/ Return(t)

Spec == Init /\ [][Next]_vars

(* Once begun, a call runs to its end, and the scheduler calls collect     *)
(* again and again.  Requests need not arrive, and time need not pass.     *)
Fairness ==
  /\ \A t \in Tasks : WF_vars(Invalidate(t)) /\ WF_vars(Return(t))
  /\ \A t \in Collectors : WF_vars(CollectBegin(t)) /\ WF_vars(CollectSweep(t))
  /\ WF_vars(Place) /\ WF_vars(Retry) /\ WF_vars(FindSid)
  /\ WF_vars(FindIndex) /\ WF_vars(Evict) /\ WF_vars(Served)

FairSpec == Spec /\ Fairness

-----------------------------------------------------------------------------
TypeOK ==
  /\ now \in Nat
  /\ data \in [Slots -> Idx \union {Nil}]
  /\ count \in Nat
  /\ next \in 0 .. MaxSessions
  /\ sid \in [Idx -> Sids \union {Nil}]
  /\ upd \in [Idx -> Nat]
  /\ valid \in [Idx -> BOOLEAN]
  /\ closes \in [Idx -> Nat]
  /\ pc \in [Tasks -> {"idle", "place", "retry", "findSid", "findIndex",
                      "evict", "serve", "sweep", "drop"}]
  /\ ts \in [Tasks -> Nat]
  /\ sess \in Idx \union {Nil}
  /\ attempt \in 0 .. Tries
  /\ owed \in [Tasks -> SUBSET Idx]

(* A session object has one home.  While a slot holds it, no other slot    *)
(* does, no task is about to invalidate it, it is valid and its end was    *)
(* not announced; once out of the array, one task owes its end.            *)
OneSlotEach ==
  \A i, j \in Slots : data[i] = data[j] /\ data[i] # Nil => i = j

StoredIsAlive ==
  \A i \in Slots : data[i] # Nil =>
    /\ valid[data[i]]
    /\ closes[data[i]] = 0
    /\ \A t \in Tasks : data[i] \notin owed[t]

OwedOnce ==
  \A t \in Tasks : \A x \in owed[t] :
    /\ valid[x]
    /\ closes[x] = 0
    /\ \A u \in Tasks : x \in owed[u] => u = t

OneHome == OneSlotEach /\ StoredIsAlive /\ OwedOnce

(* No session is lost: each that was made is stored, about to be closed by *)
(* a task, or closed, with its CLOSE event emitted exactly once.           *)
NoLostClose ==
  \A x \in Created :
    \/ Stored(x)
    \/ \E t \in Tasks : x \in owed[t]
    \/ closes[x] = 1 /\ ~valid[x]

(* removeBy leaves storage.count alone and collect lowers it, yet it never *)
(* falls below the number of slots in use: the shortcut for an empty array *)
(* (in findBy, removeBy, close and collect) never hides a stored session.  *)
CountCoversSlots == count >= Cardinality(Occupied)

(* Where each call stands agrees with what it holds: only a call that is   *)
(* about to give pointers up owes an invalidation, a request that is       *)
(* served has a session, and a session seen to be expired stays expired    *)
(* until the lookup has come back for it.                                  *)
CallsAgree ==
  /\ pc[Httpd] # "sweep"
  /\ pc[Httpd] = "place" => attempt < Tries
  /\ attempt # 0 => pc[Httpd] \in {"place", "retry"}
  /\ pc[Httpd] \in {"evict", "serve"} => sess # Nil
  /\ pc[Httpd] = "evict" => Expired(sess, now)
  /\ \A t \in Tasks : ts[t] <= now
  /\ \A t \in Tasks : owed[t] # {} => pc[t] \in {"retry", "drop"}
  /\ \A t \in Collectors : pc[t] \in {"idle", "sweep", "drop"}

(* Nothing refers to a session that was not made yet.                      *)
MadeOnly ==
  /\ sess < next
  /\ \A i \in Slots : data[i] < next
  /\ \A t \in Tasks : \A x \in owed[t] : x < next
  /\ \A x \in Idx : x >= next => closes[x] = 0

IInv == TypeOK /\ CallsAgree /\ MadeOnly /\ CountCoversSlots /\ OneHome /\ NoLostClose

(* A session leaves the array only if it is expired at that very instant,  *)
(* whatever clock the task read before it had the lock, or because the     *)
(* httpd task closes it.                                                   *)
OnlyExpiredLeave ==
  [][\A x \in Idx : Stored(x) /\ ~(\E i \in Slots : data'[i] = x)
        => Expired(x, now) \/ pc[Httpd] = "serve"]_vars

(* A removed session is closed in the end.                                 *)
OwedIsClosed ==
  \A x \in Idx : (\E t \in Tasks : x \in owed[t]) ~> closes[x] = 1

(* A session that expires is collected or prolonged: the array cannot stay *)
(* full of dead sessions.                                                  *)
ExpiredLeaves ==
  \A x \in Idx : (Stored(x) /\ Expired(x, now))
                   ~> (~Stored(x) \/ ~Expired(x, now))

(* The lifecycle of each session, as an outsider sees it.                  *)
Stage(x) == IF x >= next THEN "unmade"
            ELSE IF Stored(x) THEN "open"
            ELSE IF closes[x] = 0 THEN "removed"
            ELSE "closed"

Lifecycle == INSTANCE SessionLifecycle
               WITH Sessions <- Idx, Capacity <- Total,
                    stage <- [x \in Idx |-> Stage(x)]

ImplementsLifecycle == Lifecycle!Spec
=============================================================================
