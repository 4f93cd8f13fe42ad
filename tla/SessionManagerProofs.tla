------------------------ MODULE SessionManagerProofs ------------------------
(***************************************************************************)
(* Proofs about SessionManager, for any number of slots, identifiers,      *)
(* collectors and sessions and any session duration.                       *)
(*                                                                         *)
(* Types come first, with the control facts and the bound on the count,    *)
(* because collect subtracts from the count; the ownership of session      *)
(* objects is then proved on top of them.                                  *)
(***************************************************************************)
EXTENDS SessionManager, FiniteSetTheorems, TLAPS

-----------------------------------------------------------------------------
(* Facts about the array that do not depend on time.                       *)

LEMMA OccupiedFinite ==
  /\ IsFiniteSet(Slots)
  /\ IsFiniteSet(Occupied)
  /\ Cardinality(Occupied) \in Nat
<1>1. IsFiniteSet(Slots)
  BY FS_Interval, TotalAssumption DEF Slots
<1>2. Occupied \in SUBSET Slots
  BY DEF Occupied
<1>3. IsFiniteSet(Occupied)
  BY <1>1, <1>2, FS_Subset
<1>4. QED
  BY <1>1, <1>3, FS_CardinalityType

(* Slots that are only ever emptied do not raise what the count covers.    *)
LEMMA EmptyingKeepsCover ==
  ASSUME CountCoversSlots, count \in Nat, count' = count,
         \A i \in Slots : data'[i] = data[i] \/ data'[i] = Nil
  PROVE  CountCoversSlots'
<1>1. Occupied' \in SUBSET Occupied
  BY DEF Occupied
<1>2. Cardinality(Occupied') <= Cardinality(Occupied)
  BY <1>1, OccupiedFinite, FS_Subset
<1>3. Cardinality(Occupied') \in Nat
  BY <1>1, OccupiedFinite, FS_Subset, FS_CardinalityType
<1>4. QED
  BY <1>2, <1>3, OccupiedFinite DEF CountCoversSlots

(* What a lookup returns is in one of the slots it was to look at.         *)
LEMMA FindsMember ==
  ASSUME NEW x, NEW S, Finds(x, S), x # Nil
  PROVE  \E i \in S : x = data[i]
BY DEF Finds

-----------------------------------------------------------------------------
Base == TypeOK /\ CallsAgree /\ MadeOnly /\ CountCoversSlots

LEMMA BaseInit == Init => Base
<1> SUFFICES ASSUME Init PROVE Base
  OBVIOUS
<1>1. TypeOK
  BY BoundAssumption DEF Init, TypeOK, Tries, Nil
<1>2. CallsAgree /\ MadeOnly
  BY TaskAssumption DEF Init, CallsAgree, MadeOnly, CallsAgree, MadeOnly, Tasks, Tries, Nil
<1>3. Occupied = {}
  BY DEF Init, Occupied
<1>4. CountCoversSlots
  BY <1>3, FS_EmptySet DEF Init, CountCoversSlots
<1>5. QED
  BY <1>1, <1>2, <1>4 DEF Base

(* Whole seconds of an instant are a natural number.                       *)
LEMMA SecondsAreNat ==
  ASSUME NEW t \in Nat
  PROVE  t \div TicksPerSecond \in Nat
BY TimeAssumption

(* A session that is expired stays so while its mark does not move.        *)
LEMMA ExpiredPersists ==
  ASSUME NEW x \in Idx, NEW t \in Nat, NEW u \in Nat, t <= u,
         upd \in [Idx -> Nat], Expired(x, t)
  PROVE  Expired(x, u)
<1>1. upd[x] * TicksPerSecond \in Int /\ Duration * TicksPerSecond \in Int
  BY TimeAssumption
<1>2. QED
  BY <1>1 DEF Expired

LEMMA BaseStep == Base /\ [Next]_vars => Base'
<1> SUFFICES ASSUME Base, [Next]_vars PROVE Base'
  OBVIOUS
<1> USE DEF Base
<1>a. Httpd \in Tasks /\ Collectors \subseteq Tasks /\ Httpd \notin Collectors
  BY TaskAssumption DEF Tasks
<1>b. Nil \notin Idx /\ Idx \subseteq Nat /\ Nil \in Int /\ Nil < 0
  BY DEF Nil, Idx
<1>c. next \in Nat /\ now \in Nat
  BY DEF TypeOK
<1>0. CASE UNCHANGED vars
  <2>1. TypeOK'
    BY <1>0 DEF vars, objects, TypeOK
  <2>2. (CallsAgree /\ MadeOnly)'
    <3>1. CallsAgree'
      BY <1>0 DEF vars, objects, CallsAgree, MadeOnly,
        Expired
    <3>2. MadeOnly'
      BY <1>0 DEF vars, objects, CallsAgree, MadeOnly
    <3> QED BY <3>1, <3>2
  <2>3. CountCoversSlots'
    BY <1>0, EmptyingKeepsCover DEF vars, TypeOK
  <2> QED BY <2>1, <2>2, <2>3
<1>1. CASE Tick
  <2>1. TypeOK'
    BY <1>1 DEF Tick, objects, TypeOK
  <2>2. pc[Httpd] = "evict" => Expired(sess, now')
    BY <1>1, ExpiredPersists DEF Tick, CallsAgree, MadeOnly, TypeOK
  <2>3. (CallsAgree /\ MadeOnly)'
    <3>1. CallsAgree'
      BY <1>1, <2>2 DEF Tick, objects, CallsAgree, MadeOnly, Expired, TypeOK
    <3>2. MadeOnly'
      BY <1>1, <2>2 DEF Tick, objects, CallsAgree, MadeOnly, TypeOK
    <3> QED BY <3>1, <3>2
  <2>4. CountCoversSlots'
    BY <1>1, EmptyingKeepsCover DEF Tick, TypeOK
  <2> QED BY <2>1, <2>3, <2>4
<1>2. CASE OpenNew
  <2>1. TypeOK'
    BY <1>2, <1>a DEF OpenNew, Goto, objects, TypeOK
  <2>2. (CallsAgree /\ MadeOnly)'
    <3>1. CallsAgree'
      BY <1>2, <1>a, <1>b, <1>c DEF OpenNew, Goto, objects,
        CallsAgree, MadeOnly, TypeOK, Tries
    <3>2. MadeOnly'
      BY <1>2, <1>a, <1>b, <1>c DEF OpenNew, Goto, objects,
        CallsAgree, MadeOnly, TypeOK, Tries
    <3> QED BY <3>1, <3>2
  <2>3. CountCoversSlots'
    BY <1>2, EmptyingKeepsCover DEF OpenNew, Goto, objects, TypeOK
  <2> QED BY <2>1, <2>2, <2>3
<1>3. CASE Place
  <2>1. PICK s \in Sids : MakeSession(s) /\ (PlaceFails(s) \/ PlaceSucceeds(s))
    BY <1>3 DEF Place
  <2>2. next \in Idx /\ next' = next + 1 /\ next' \in 0 .. MaxSessions
    BY <2>1, BoundAssumption DEF MakeSession, Idx, TypeOK
  <2>3. ts[Httpd] \div TicksPerSecond \in Nat
    BY <1>a, SecondsAreNat DEF TypeOK
  <2>4. /\ sid' \in [Idx -> Sids \union {Nil}]
        /\ upd' \in [Idx -> Nat]
        /\ valid' \in [Idx -> BOOLEAN]
        /\ closes' = closes
    BY <2>1, <2>2, <2>3 DEF MakeSession, TypeOK
  <2>5. pc[Httpd] = "place" /\ now' = now /\ attempt \in 0 .. Tries - 1
    BY <1>3 DEF Place, CallsAgree, MadeOnly, TypeOK, Tries
  <2>8. \A i \in Slots : data[i] \in Int /\ data[i] < next
    <3>1. \A i \in Slots : data[i] \in Idx \union {Nil}
      BY DEF TypeOK
    <3>2. Idx \union {Nil} \subseteq Int
      BY DEF Idx, Nil
    <3>3. \A i \in Slots : data[i] < next
      BY DEF MadeOnly
    <3> QED BY <3>1, <3>2, <3>3
  <2>6. CASE PlaceFails(s)
    <3>1. TypeOK'
      BY <2>2, <2>4, <2>5, <2>6, <1>a DEF PlaceFails, Goto, TypeOK, Tries
    <3>2. (CallsAgree /\ MadeOnly)'
      <4>1. CallsAgree'
        BY <2>2, <2>4, <2>5, <2>6, <1>a, <1>b, <1>c DEF
          PlaceFails, Goto, CallsAgree, MadeOnly, TypeOK,
          Tries
      <4>2. MadeOnly'
        <5>1. sess' < next'
          BY <2>2, <2>4, <2>5, <2>6, <1>a, <1>b, <1>c DEF PlaceFails,
          Goto, MadeOnly, TypeOK, Tries
        <5>2. \A i \in Slots : data'[i] < next'
          BY <2>2, <2>8, <2>6, <1>c DEF PlaceFails
        <5>3. ASSUME NEW u \in Tasks, NEW x \in owed'[u]
              PROVE  x < next'
          BY <2>2, <2>4, <2>5, <2>6, <1>a, <1>b, <1>c DEF PlaceFails,
          Goto, MadeOnly, TypeOK, Tries
        <5>4. \A x \in Idx : x >= next' => closes'[x] = 0
          BY <2>2, <2>4, <2>5, <2>6, <1>a, <1>b, <1>c DEF PlaceFails,
          Goto, MadeOnly, TypeOK, Tries
        <5> QED BY <5>1, <5>2, <5>3, <5>4 DEF MadeOnly
      <4> QED BY <4>1, <4>2
    <3>3. CountCoversSlots'
      BY <2>6, EmptyingKeepsCover DEF PlaceFails, TypeOK
    <3> QED BY <3>1, <3>2, <3>3
  <2>7. CASE PlaceSucceeds(s)
    <3>1. PICK slot \in Slots :
            /\ data' = [data EXCEPT ![slot] = next]
            /\ count' = IF data[slot] = Nil THEN count + 1 ELSE count
            /\ owed' = [owed EXCEPT ![Httpd] = {data[slot]} \ {Nil}]
      BY <2>7 DEF PlaceSucceeds, Free
    <3>2. /\ ts' = [ts EXCEPT ![Httpd] = 0]
          /\ pc' = [pc EXCEPT ![Httpd] = "drop"]
          /\ sess' = next
          /\ attempt' = 0
      BY <2>7 DEF PlaceSucceeds, Forget, Goto
    <3>3. TypeOK'
      BY <2>2, <2>4, <2>5, <3>1, <3>2, <1>a DEF TypeOK, Tries
    <3>4. (CallsAgree /\ MadeOnly)'
      <4>1. CallsAgree'
        BY <2>2, <2>4, <2>5, <3>1, <3>2, <1>a, <1>b, <1>c DEF
          CallsAgree, MadeOnly, TypeOK
      <4>2. MadeOnly'
        <5>1. sess' < next'
          BY <2>2, <2>4, <2>5, <3>1, <3>2, <1>a, <1>b, <1>c DEF MadeOnly,
          TypeOK
        <5>2. \A i \in Slots : data'[i] < next'
          BY <2>2, <2>8, <3>1, <1>c DEF TypeOK
        <5>3. ASSUME NEW u \in Tasks, NEW x \in owed'[u]
              PROVE  x < next'
          BY <2>2, <2>4, <2>5, <3>1, <3>2, <1>a, <1>b, <1>c DEF MadeOnly,
          TypeOK
        <5>4. \A x \in Idx : x >= next' => closes'[x] = 0
          BY <2>2, <2>4, <2>5, <3>1, <3>2, <1>a, <1>b, <1>c DEF MadeOnly,
          TypeOK
        <5> QED BY <5>1, <5>2, <5>3, <5>4 DEF MadeOnly
      <4> QED BY <4>1, <4>2
    <3>5. Occupied' = Occupied \union {slot}
      BY <3>1, <2>2, <1>b DEF Occupied, TypeOK
    <3>6. slot \in Occupied <=> data[slot] # Nil
      BY DEF Occupied
    <3>7. Cardinality(Occupied') = IF slot \in Occupied
                                     THEN Cardinality(Occupied)
                                     ELSE Cardinality(Occupied) + 1
      BY <3>5, OccupiedFinite, FS_AddElement
    <3>8. CountCoversSlots'
      BY <3>1, <3>6, <3>7, OccupiedFinite DEF CountCoversSlots, TypeOK
    <3> QED BY <3>3, <3>4, <3>8
  <2> QED BY <2>1, <2>6, <2>7
<1>4. CASE Retry
  <2>1. TypeOK'
    BY <1>4, <1>a DEF Retry, Goto, Forget, Tries, objects, TypeOK
  <2>2. (CallsAgree /\ MadeOnly)'
    <3>1. CallsAgree'
      BY <1>4, <1>a, <1>b, <1>c DEF Retry, Goto, Forget, Tries,
        objects, CallsAgree, MadeOnly, TypeOK, Expired
    <3>2. MadeOnly'
      BY <1>4, <1>a, <1>b, <1>c DEF Retry, Goto, Forget, Tries,
        objects, CallsAgree, MadeOnly, TypeOK
    <3> QED BY <3>1, <3>2
  <2>3. CountCoversSlots'
    BY <1>4, EmptyingKeepsCover DEF Retry, Goto, Forget, Tries, objects, TypeOK
  <2> QED BY <2>1, <2>2, <2>3
<1>5. CASE LookupSid \/ LookupIndex
  <2>1. PICK label \in {"findSid", "findIndex"} : Lookup(label)
    BY <1>5 DEF LookupSid, LookupIndex
  <2>2. TypeOK'
    BY <2>1, <1>a DEF Lookup, Goto, objects, TypeOK
  <2>3. CallsAgree'
    BY <2>1, <1>a, <1>c DEF Lookup, Goto, objects, CallsAgree, TypeOK
  <2>4. MadeOnly'
    BY <2>1 DEF Lookup, objects, MadeOnly
  <2>5. CountCoversSlots'
    BY <2>1, EmptyingKeepsCover DEF Lookup, TypeOK
  <2> QED BY <2>2, <2>3, <2>4, <2>5
<1>6. CASE FindSid \/ FindIndex
  <2>1. CASE Absent
    <3>1. TypeOK'
      BY <2>1, <1>a DEF Absent, Goto, Forget, objects, TypeOK
    <3>2. (CallsAgree /\ MadeOnly)'
      <4>1. CallsAgree'
        BY <2>1, <1>6, <1>a DEF Absent, FindSid, FindIndex, Goto,
          Forget, objects, CallsAgree, MadeOnly, TypeOK,
          Expired
      <4>2. MadeOnly'
        BY <2>1, <1>6, <1>a DEF Absent, FindSid, FindIndex, Goto,
          Forget, objects, CallsAgree, MadeOnly, TypeOK
      <4> QED BY <4>1, <4>2
    <3>3. CountCoversSlots'
      BY <2>1, EmptyingKeepsCover DEF Absent, TypeOK
    <3> QED BY <3>1, <3>2, <3>3
  <2>2. ASSUME NEW x \in Idx, \E i \in Slots : x = data[i], Prolonged(x)
        PROVE  Base'
    <3>1. ts[Httpd] \div TicksPerSecond \in Nat
      BY <1>a, SecondsAreNat DEF TypeOK
    <3>2. TypeOK'
      BY <2>2, <3>1, <1>a DEF Prolonged, Goto, Forget, TypeOK
    <3>3. x < next
      BY <2>2 DEF CallsAgree, MadeOnly
    <3>4. (CallsAgree /\ MadeOnly)'
      <4>1. CallsAgree'
        BY <2>2, <3>3, <1>6, <1>a, <1>b, <1>c DEF Prolonged,
          FindSid, FindIndex, Goto, Forget, CallsAgree, MadeOnly, TypeOK
      <4>2. MadeOnly'
        BY <2>2, <3>3, <1>6, <1>a, <1>b, <1>c DEF Prolonged,
          FindSid, FindIndex, Goto, Forget, CallsAgree, MadeOnly, TypeOK
      <4> QED BY <4>1, <4>2
    <3>5. CountCoversSlots'
      BY <2>2, EmptyingKeepsCover DEF Prolonged, TypeOK
    <3> QED BY <3>2, <3>4, <3>5
  <2>3. ASSUME NEW x \in Idx, \E i \in Slots : x = data[i], Outlived(x)
        PROVE  Base'
    <3>1. TypeOK'
      BY <2>3, <1>a DEF Outlived, Goto, Forget, objects, TypeOK
    <3>2. x < next
      BY <2>3 DEF CallsAgree, MadeOnly
    <3>3. Expired(x, now)
      BY <2>3, <1>a, ExpiredPersists DEF Outlived, CallsAgree, MadeOnly, TypeOK
    <3>4. (CallsAgree /\ MadeOnly)'
      <4>1. CallsAgree'
        BY <2>3, <3>2, <3>3, <1>6, <1>a, <1>b, <1>c DEF Outlived,
          FindSid, FindIndex, Goto, Forget, objects, CallsAgree, MadeOnly, TypeOK, Expired
      <4>2. MadeOnly'
        BY <2>3, <3>2, <3>3, <1>6, <1>a, <1>b, <1>c DEF Outlived,
          FindSid, FindIndex, Goto, Forget, objects, CallsAgree, MadeOnly, TypeOK
      <4> QED BY <4>1, <4>2
    <3>5. CountCoversSlots'
      BY <2>3, EmptyingKeepsCover DEF Outlived, TypeOK
    <3> QED BY <3>1, <3>4, <3>5
  <2>4. ASSUME FindSid PROVE Base'
    <3>1. PICK s \in Sids, x \in Idx \union {Nil} :
            /\ Finds(x, WithSid(s))
            /\ Absent \/ (x # Nil /\ (Prolonged(x) \/ Outlived(x)))
      BY <2>4 DEF FindSid
    <3>2. WithSid(s) \subseteq Slots
      BY DEF WithSid, Occupied
    <3> QED BY <3>1, <3>2, <2>1, <2>2, <2>3, FindsMember
  <2>5. ASSUME FindIndex PROVE Base'
    <3>1. PICK x \in Created, y \in Idx \union {Nil} :
            /\ Finds(y, {i \in Occupied : data[i] = x})
            /\ Absent \/ (y # Nil /\ Outlived(y))
      BY <2>5 DEF FindIndex
    <3>2. {i \in Occupied : data[i] = x} \subseteq Slots
      BY DEF Occupied
    <3> QED BY <3>1, <3>2, <2>1, <2>3, FindsMember
  <2> QED BY <1>6, <2>4, <2>5
<1>7. CASE Evict
  <2>1. TypeOK'
    BY <1>7, <1>a DEF Evict, Goto, Without, objects, TypeOK, CallsAgree, MadeOnly
  <2>2. (CallsAgree /\ MadeOnly)'
    <3>1. CallsAgree'
      BY <1>7, <1>a, <1>b, <1>c DEF Evict, Goto, Without, objects,
        CallsAgree, MadeOnly, TypeOK, Expired
    <3>2. MadeOnly'
      <4>1. sess' < next'
        BY <1>7, <1>a, <1>b, <1>c DEF Evict, Goto, Without, objects,
        MadeOnly, TypeOK
      <4>2. \A i \in Slots : data'[i] < next'
        BY <1>7, <1>a, <1>b, <1>c DEF Evict, Goto, Without, objects,
        MadeOnly, TypeOK
      <4>3. ASSUME NEW u \in Tasks, NEW x \in owed'[u]
            PROVE  x < next'
        <5>1. next' = next /\ (x \in owed[u] \/ x = sess)
          BY <1>7, <1>a DEF Evict, TypeOK
        <5> QED BY <5>1 DEF MadeOnly
      <4>4. \A x \in Idx : x >= next' => closes'[x] = 0
        BY <1>7, <1>a, <1>b, <1>c DEF Evict, Goto, Without, objects,
        MadeOnly, TypeOK
      <4> QED BY <4>1, <4>2, <4>3, <4>4 DEF MadeOnly
    <3> QED BY <3>1, <3>2
  <2>3. CountCoversSlots'
    BY <1>7, EmptyingKeepsCover DEF Evict, Goto, Without, objects, TypeOK
  <2> QED BY <2>1, <2>2, <2>3
<1>8. CASE Attach
  <2>1. TypeOK'
    BY <1>8, <1>a DEF Attach, Goto, Created, objects, TypeOK
  <2>2. (CallsAgree /\ MadeOnly)'
    <3>1. CallsAgree'
      BY <1>8, <1>a, <1>b, <1>c DEF Attach, Goto, Created, objects,
        CallsAgree, MadeOnly, TypeOK, Expired
    <3>2. MadeOnly'
      BY <1>8, <1>a, <1>b, <1>c DEF Attach, Goto, Created, objects,
        CallsAgree, MadeOnly, TypeOK
    <3> QED BY <3>1, <3>2
  <2>3. CountCoversSlots'
    BY <1>8, EmptyingKeepsCover DEF Attach, Goto, Created, objects, TypeOK
  <2> QED BY <2>1, <2>2, <2>3
<1>9. CASE KeepAlive
  <2>1. now \div TicksPerSecond \in Nat
    BY SecondsAreNat DEF TypeOK
  <2>2. TypeOK'
    BY <1>9, <2>1 DEF KeepAlive, TypeOK
  <2>3. (CallsAgree /\ MadeOnly)'
    <3>1. CallsAgree'
      BY <1>9 DEF KeepAlive, CallsAgree, MadeOnly, TypeOK
    <3>2. MadeOnly'
      BY <1>9 DEF KeepAlive, CallsAgree, MadeOnly, TypeOK
    <3> QED BY <3>1, <3>2
  <2>4. CountCoversSlots'
    BY <1>9, EmptyingKeepsCover DEF KeepAlive, TypeOK
  <2> QED BY <2>2, <2>3, <2>4
<1>10. CASE Renew
  <2>1. TypeOK'
    BY <1>10, <1>a DEF Renew, objects, TypeOK
  <2>2. (CallsAgree /\ MadeOnly)'
    <3>1. CallsAgree'
      BY <1>10, <1>a, <1>b, <1>c DEF Renew, objects, CallsAgree, MadeOnly, TypeOK, Expired
    <3>2. MadeOnly'
      BY <1>10, <1>a, <1>b, <1>c DEF Renew, objects, CallsAgree, MadeOnly, TypeOK
    <3> QED BY <3>1, <3>2
  <2>3. CountCoversSlots'
    BY <1>10, EmptyingKeepsCover DEF Renew, objects, TypeOK
  <2> QED BY <2>1, <2>2, <2>3
<1>11. CASE Close
  <2>1. TypeOK'
    BY <1>11, <1>a DEF Close, Goto, Without, objects, TypeOK
  <2>2. (CallsAgree /\ MadeOnly)'
    <3>1. CallsAgree'
      BY <1>11, <1>a, <1>b, <1>c DEF Close, Goto, Without, objects,
        CallsAgree, MadeOnly, TypeOK, Expired
    <3>2. MadeOnly'
      <4>1. sess' < next'
        BY <1>11, <1>a, <1>b, <1>c DEF Close, Goto, Without, objects,
        MadeOnly, TypeOK
      <4>2. \A i \in Slots : data'[i] < next'
        BY <1>11, <1>a, <1>b, <1>c DEF Close, Goto, Without, objects,
        MadeOnly, TypeOK
      <4>3. ASSUME NEW u \in Tasks, NEW x \in owed'[u]
            PROVE  x < next'
        <5>1. PICK y \in Idx \union {Nil} :
                /\ Finds(y, WithSid(sid[sess]))
                /\ owed' = [owed EXCEPT ![Httpd] = {y} \ {Nil}]
          BY <1>11 DEF Close
        <5>2. WithSid(sid[sess]) \subseteq Slots
          BY DEF WithSid, Occupied
        <5>3. next' = next /\ (x \in owed[u] \/ (x = y /\ y # Nil))
          BY <1>11, <5>1, <1>a DEF Close, TypeOK
        <5>4. x \in owed[u] \/ \E i \in Slots : x = data[i]
          BY <5>1, <5>2, <5>3, FindsMember
        <5> QED BY <5>3, <5>4 DEF MadeOnly
      <4>4. \A x \in Idx : x >= next' => closes'[x] = 0
        BY <1>11, <1>a, <1>b, <1>c DEF Close, Goto, Without, objects,
        MadeOnly, TypeOK
      <4> QED BY <4>1, <4>2, <4>3, <4>4 DEF MadeOnly
    <3> QED BY <3>1, <3>2
  <2>3. CountCoversSlots'
    BY <1>11, EmptyingKeepsCover DEF Close, Goto, Without, objects, TypeOK
  <2> QED BY <2>1, <2>2, <2>3
<1>12. CASE Served
  <2>1. TypeOK'
    BY <1>12, <1>a DEF Served, Goto, objects, TypeOK
  <2>2. (CallsAgree /\ MadeOnly)'
    <3>1. CallsAgree'
      BY <1>12, <1>a, <1>b, <1>c DEF Served, Goto, objects,
        CallsAgree, MadeOnly, TypeOK, Expired
    <3>2. MadeOnly'
      BY <1>12, <1>a, <1>b, <1>c DEF Served, Goto, objects,
        CallsAgree, MadeOnly, TypeOK
    <3> QED BY <3>1, <3>2
  <2>3. CountCoversSlots'
    BY <1>12, EmptyingKeepsCover DEF Served, Goto, objects, TypeOK
  <2> QED BY <2>1, <2>2, <2>3
<1>13. ASSUME NEW t \in Collectors, CollectBegin(t)
       PROVE  Base'
  <2>1. TypeOK'
    BY <1>13, <1>a DEF CollectBegin, Goto, objects, TypeOK
  <2>2. (CallsAgree /\ MadeOnly)'
    <3>1. CallsAgree'
      BY <1>13, <1>a DEF CollectBegin, Goto, objects, CallsAgree, MadeOnly, TypeOK, Expired
    <3>2. MadeOnly'
      BY <1>13, <1>a DEF CollectBegin, Goto, objects, CallsAgree, MadeOnly, TypeOK
    <3> QED BY <3>1, <3>2
  <2>3. CountCoversSlots'
    BY <1>13, EmptyingKeepsCover DEF CollectBegin, TypeOK
  <2> QED BY <2>1, <2>2, <2>3
<1>14. ASSUME NEW t \in Collectors, CollectSweep(t)
       PROVE  Base'
  <2> DEFINE gone == {i \in Occupied : Expired(data[i], ts[t])}
  <2>1. /\ data' = [i \in Slots |-> IF i \in gone THEN Nil ELSE data[i]]
        /\ count' = count - Cardinality(gone)
        /\ owed' = [owed EXCEPT ![t] = {data[i] : i \in gone}]
    BY <1>14 DEF CollectSweep
  <2>2. /\ IsFiniteSet(gone)
        /\ Cardinality(gone) \in Nat
        /\ Cardinality(gone) <= Cardinality(Occupied)
    BY OccupiedFinite, FS_Subset, FS_CardinalityType
  <2>3. Occupied' = Occupied \ gone
    BY <2>1 DEF Occupied
  <2>4. Occupied \cap gone = gone
    OBVIOUS
  <2>5. Cardinality(Occupied') = Cardinality(Occupied) - Cardinality(gone)
    <3> HIDE DEF gone
    <3>1. Cardinality(Occupied \ gone)
            = Cardinality(Occupied) - Cardinality(Occupied \cap gone)
      BY OccupiedFinite, FS_Difference
    <3> QED BY <3>1, <2>3, <2>4
  <2>6. CountCoversSlots'
    BY <2>1, <2>2, <2>5, OccupiedFinite DEF CountCoversSlots, TypeOK
  <2>7. count' \in Nat
    BY <2>1, <2>2, OccupiedFinite DEF CountCoversSlots, TypeOK
  <2>8. {data[i] : i \in gone} \subseteq Idx
    BY DEF Occupied, TypeOK
  <2>9. TypeOK'
    BY <1>14, <2>1, <2>7, <2>8, <1>a
    DEF CollectSweep, Goto, Forget, objects, TypeOK
  <2>10. (CallsAgree /\ MadeOnly)'
    <3>1. CallsAgree'
      BY <1>14, <2>1, <1>a, <1>b, <1>c DEF CollectSweep, Goto,
        Forget, objects, CallsAgree, MadeOnly, TypeOK,
        Expired
    <3>2. MadeOnly'
      <4>1. sess' < next'
        BY <1>14, <2>1, <1>a, <1>b, <1>c DEF CollectSweep, Goto, Forget,
        objects, MadeOnly, TypeOK
      <4>2. \A i \in Slots : data'[i] < next'
        BY <1>14, <2>1, <1>a, <1>b, <1>c DEF CollectSweep, Goto, Forget,
        objects, MadeOnly, TypeOK
      <4>3. ASSUME NEW u \in Tasks, NEW x \in owed'[u]
            PROVE  x < next'
        <5>1. next' = next
          BY <1>14 DEF CollectSweep
        <5>2. x \in owed[u] \/ \E i \in Slots : x = data[i]
          BY <2>1, <1>a DEF Occupied, TypeOK
        <5> QED BY <5>1, <5>2 DEF MadeOnly
      <4>4. \A x \in Idx : x >= next' => closes'[x] = 0
        BY <1>14, <2>1, <1>a, <1>b, <1>c DEF CollectSweep, Goto, Forget,
        objects, MadeOnly, TypeOK
      <4> QED BY <4>1, <4>2, <4>3, <4>4 DEF MadeOnly
    <3> QED BY <3>1, <3>2
  <2> QED BY <2>6, <2>9, <2>10
<1>15. ASSUME NEW t \in Tasks, Invalidate(t)
       PROVE  Base'
  <2>1. PICK x \in owed[t] :
          /\ valid' = [valid EXCEPT ![x] = FALSE]
          /\ closes' = [closes EXCEPT ![x] = @ + 1]
          /\ owed' = [owed EXCEPT ![t] = @ \ {x}]
    BY <1>15 DEF Invalidate
  <2>2. TypeOK'
    BY <1>15, <2>1 DEF Invalidate, TypeOK
  <2>3. (CallsAgree /\ MadeOnly)'
    <3>1. CallsAgree'
      BY <1>15, <2>1 DEF Invalidate, CallsAgree, MadeOnly,
        TypeOK, Expired
    <3>2. MadeOnly'
      <4>1. sess' < next'
        BY <1>15, <2>1 DEF Invalidate, MadeOnly, TypeOK
      <4>2. \A i \in Slots : data'[i] < next'
        BY <1>15, <2>1 DEF Invalidate, MadeOnly, TypeOK
      <4>3. ASSUME NEW u \in Tasks, NEW w \in owed'[u]
            PROVE  w < next'
        BY <1>15, <2>1 DEF Invalidate, MadeOnly, TypeOK
      <4>4. \A y \in Idx : y >= next' => closes'[y] = 0
        <5>1. next' = next /\ x \in Idx /\ x < next
          BY <1>15, <2>1 DEF Invalidate, MadeOnly, TypeOK
        <5>2. \A y \in Idx : y # x => closes'[y] = closes[y]
          BY <2>1 DEF TypeOK
        <5> QED BY <5>1, <5>2, <1>b, <1>c DEF MadeOnly
      <4> QED BY <4>1, <4>2, <4>3, <4>4 DEF MadeOnly
    <3> QED BY <3>1, <3>2
  <2>4. CountCoversSlots'
    BY <1>15, EmptyingKeepsCover DEF Invalidate, TypeOK
  <2> QED BY <2>2, <2>3, <2>4
<1>16. ASSUME NEW t \in Tasks, Return(t)
       PROVE  Base'
  <2>1. TypeOK'
    BY <1>16 DEF Return, Goto, objects, TypeOK
  <2>2. (CallsAgree /\ MadeOnly)'
    <3>1. CallsAgree'
      BY <1>16, <1>a DEF Return, Goto, objects, CallsAgree, MadeOnly, TypeOK, Expired
    <3>2. MadeOnly'
      BY <1>16, <1>a DEF Return, Goto, objects, CallsAgree, MadeOnly, TypeOK
    <3> QED BY <3>1, <3>2
  <2>3. CountCoversSlots'
    BY <1>16, EmptyingKeepsCover DEF Return, TypeOK
  <2> QED BY <2>1, <2>2, <2>3
<1> QED
  BY <1>0, <1>1, <1>2, <1>3, <1>4, <1>5, <1>6, <1>7, <1>8, <1>9, <1>10,
     <1>11, <1>12, <1>13, <1>14, <1>15, <1>16
  DEF Next, HttpdStep, CollectorStep

LEMMA BaseAlways == Spec => []Base
<1>1. Init => Base
  BY BaseInit
<1>2. Base /\ [Next]_vars => Base'
  BY BaseStep
<1> QED BY <1>1, <1>2, PTL DEF Spec

(* Every variable keeps its type: in particular storage.count, which is    *)
(* unsigned, never wraps below zero although collect subtracts from it     *)
(* what removeBy may have taken out before.                                *)
THEOREM TypeCorrect == Spec => []TypeOK
<1>1. Base => TypeOK
  BY DEF Base
<1> QED BY <1>1, BaseAlways, PTL

(* The count never falls below the number of slots in use, so that the     *)
(* shortcuts taken when it is zero never hide a stored session.            *)
THEOREM CountIsSafe == Spec => []CountCoversSlots
<1>1. Base => CountCoversSlots
  BY DEF Base
<1> QED BY <1>1, BaseAlways, PTL

(* A session leaves the array only when it is expired at that instant, or  *)
(* by a close: a task that decided on a clock it read before it had the    *)
(* lock never removes a session that is still alive.                       *)
THEOREM LeavingIsDue == Spec => OnlyExpiredLeave
<1> DEFINE Due == \A x \in Idx :
             Stored(x) /\ ~(\E i \in Slots : data'[i] = x)
               => Expired(x, now) \/ pc[Httpd] = "serve"
<1>1. Base /\ [Next]_vars => [Due]_vars
  <2> SUFFICES ASSUME Base, Next,
                      NEW x \in Idx, Stored(x),
                      \A i \in Slots : data'[i] # x,
                      pc[Httpd] # "serve"
               PROVE  Expired(x, now)
    BY DEF vars
  <2> USE DEF Base
  <2>1. Httpd \in Tasks /\ Collectors \subseteq Tasks /\ x # Nil
    BY DEF Tasks, Idx, Nil
  <2>2. PICK i \in Slots : data[i] = x /\ data'[i] # x
    BY DEF Stored
  <2>3. ASSUME NEW t \in Tasks, Expired(x, ts[t]) PROVE Expired(x, now)
    BY <2>3, ExpiredPersists DEF CallsAgree, TypeOK
  <2>4. CASE Place
    <3>1. PICK s \in Sids : PlaceSucceeds(s)
      BY <2>4, <2>2 DEF Place, PlaceFails
    <3>2. i \in Free
      BY <3>1, <2>2 DEF PlaceSucceeds, Free, TypeOK
    <3>3. Expired(x, ts[Httpd])
      BY <3>2, <2>1, <2>2 DEF Free, Live, Occupied
    <3> QED BY <3>3, <2>1, <2>3
  <2>5. CASE Evict
    <3>1. sess = x /\ pc[Httpd] = "evict"
      BY <2>5, <2>2 DEF Evict, Without
    <3> QED BY <3>1 DEF CallsAgree
  <2>6. ASSUME NEW t \in Collectors, CollectSweep(t) PROVE Expired(x, now)
    <3>1. Expired(x, ts[t])
      BY <2>6, <2>2 DEF CollectSweep
    <3> QED BY <3>1, <2>1, <2>3
  <2>7. data' # data
    BY <2>2
  <2> QED
    BY <2>4, <2>5, <2>6, <2>7
    DEF Next, HttpdStep, CollectorStep, Tick, OpenNew, Retry, LookupSid,
        LookupIndex, Lookup, FindSid, FindIndex, Absent, Prolonged, Outlived,
        Attach, KeepAlive, Renew, Close, Served, CollectBegin, Invalidate,
        Return
<1> QED BY <1>1, BaseAlways, PTL DEF Spec, OnlyExpiredLeave

-----------------------------------------------------------------------------
(* Who is responsible for a session object.                                *)

Own == OneHome /\ NoLostClose

LEMMA OwnInit == Init => Own
BY DEF Init, Own, OneHome, OneSlotEach, StoredIsAlive, OwedOnce, NoLostClose,
       Created, Idx

(* Own says nothing of the variables that most steps change.               *)
LEMMA OwnUnchanged ==
  ASSUME Own, UNCHANGED <<data, next, valid, closes, owed>>
  PROVE  Own'
BY DEF Own, OneHome, OneSlotEach, StoredIsAlive, OwedOnce, NoLostClose,
       Created, Stored

(* A task that owes nothing takes sessions out of the array: it owes       *)
(* exactly those.                                                          *)
LEMMA RemovalKeepsOwn ==
  ASSUME Base, Own, NEW t \in Tasks, owed[t] = {},
         UNCHANGED <<next, valid, closes>>,
         \A i \in Slots : data'[i] = data[i] \/ data'[i] = Nil,
         \A u \in Tasks \ {t} : owed'[u] = owed[u],
         \A x \in owed'[t] : Stored(x) /\ x # Nil,
         \A x \in owed'[t] : ~Stored(x)',
         \A x \in Idx : Stored(x) => Stored(x)' \/ x \in owed'[t]
  PROVE  Own'
<1> USE DEF Own, OneHome
<1>1. OneSlotEach'
  BY DEF OneSlotEach
<1>2. StoredIsAlive'
  BY DEF StoredIsAlive, Stored
<1>3. OwedOnce'
  BY DEF OwedOnce, StoredIsAlive, Stored
<1>4. NoLostClose'
  BY DEF NoLostClose, Created
<1> QED BY <1>1, <1>2, <1>3, <1>4

(* A session is made and turned down: only httpd owes its end.             *)
LEMMA PlaceFailsKeepsOwn ==
  ASSUME Base, Own, pc[Httpd] = "place",
         NEW s \in Sids, MakeSession(s), PlaceFails(s)
  PROVE  Own'
<1> USE DEF Base, Own, OneHome
<1>1. next \in Idx /\ next' = next + 1 /\ Httpd \in Tasks
  BY BoundAssumption DEF MakeSession, TypeOK, Idx, Tasks
<1>2. /\ valid' = [valid EXCEPT ![next] = TRUE]
      /\ closes' = closes
      /\ data' = data
      /\ owed' = [owed EXCEPT ![Httpd] = {next}]
  BY DEF MakeSession, PlaceFails
<1>3. closes[next] = 0 /\ owed[Httpd] = {}
  BY <1>1 DEF MadeOnly, CallsAgree, Idx
<1>4. \A i \in Slots : data[i] # next
  BY <1>1 DEF MadeOnly, Idx
<1>5. \A t \in Tasks : next \notin owed[t]
  BY <1>1 DEF MadeOnly, Idx
<1>6. owed'[Httpd] = {next} /\ \A t \in Tasks \ {Httpd} : owed'[t] = owed[t]
  BY <1>1, <1>2 DEF TypeOK
<1>7. \A x \in Idx : valid'[x] = IF x = next THEN TRUE ELSE valid[x]
  BY <1>2 DEF TypeOK
<1>8. OneSlotEach'
  BY <1>2 DEF OneSlotEach
<1>9. StoredIsAlive'
  <2> SUFFICES ASSUME NEW i \in Slots, data[i] # Nil
               PROVE  /\ valid'[data[i]]
                      /\ closes[data[i]] = 0
                      /\ \A t \in Tasks : data[i] \notin owed'[t]
    BY <1>2 DEF StoredIsAlive
  <2>1. data[i] \in Idx
    BY DEF TypeOK
  <2> QED BY <2>1, <1>4, <1>6, <1>7 DEF StoredIsAlive
<1>10. OwedOnce'
  <2> SUFFICES ASSUME NEW t \in Tasks, NEW x \in owed'[t]
               PROVE  /\ valid'[x]
                      /\ closes[x] = 0
                      /\ \A u \in Tasks : x \in owed'[u] => u = t
    BY <1>2 DEF OwedOnce
  <2>1. CASE t = Httpd
    BY <2>1, <1>1, <1>3, <1>5, <1>6, <1>7
  <2>2. CASE t # Httpd
    <3>1. x \in owed[t] /\ x \in Idx /\ x # next
      BY <2>2, <1>5, <1>6 DEF TypeOK
    <3> QED BY <2>2, <3>1, <1>6, <1>7 DEF OwedOnce
  <2> QED BY <2>1, <2>2
<1>11. NoLostClose'
  <2> SUFFICES ASSUME NEW x \in Idx, x < next + 1
               PROVE  \/ Stored(x)
                      \/ \E t \in Tasks : x \in owed'[t]
                      \/ closes[x] = 1 /\ ~valid'[x]
    BY <1>1, <1>2 DEF NoLostClose, Created, Stored
  <2>1. CASE x = next
    BY <2>1, <1>1, <1>6
  <2>2. CASE x # next
    <3>1. x \in Created
      BY <2>2, <1>1 DEF Created, Idx
    <3> QED BY <2>2, <3>1, <1>3, <1>6, <1>7 DEF NoLostClose
  <2> QED BY <2>1, <2>2
<1> QED BY <1>8, <1>9, <1>10, <1>11

(* A session is made and stored; httpd owes the end of the one it replaces.*)
LEMMA PlaceSucceedsKeepsOwn ==
  ASSUME Base, Own, pc[Httpd] = "place",
         NEW s \in Sids, MakeSession(s), PlaceSucceeds(s)
  PROVE  Own'
<1> USE DEF Base, Own, OneHome
<1>1. next \in Idx /\ next' = next + 1 /\ Httpd \in Tasks /\ next # Nil
  BY BoundAssumption DEF MakeSession, TypeOK, Idx, Tasks, Nil
<1>2. PICK slot \in Slots :
        /\ data' = [data EXCEPT ![slot] = next]
        /\ owed' = [owed EXCEPT ![Httpd] = {data[slot]} \ {Nil}]
  BY DEF PlaceSucceeds, Free
<1>3. closes[next] = 0 /\ owed[Httpd] = {} /\ closes' = closes
  BY <1>1 DEF MadeOnly, CallsAgree, MakeSession, Idx
<1>4. \A i \in Slots : data[i] # next
  BY <1>1 DEF MadeOnly, Idx
<1>5. \A t \in Tasks : next \notin owed[t]
  BY <1>1 DEF MadeOnly, Idx
<1>6. /\ owed'[Httpd] = {data[slot]} \ {Nil}
      /\ \A t \in Tasks \ {Httpd} : owed'[t] = owed[t]
  BY <1>1, <1>2 DEF TypeOK
<1>7. \A x \in Idx : valid'[x] = IF x = next THEN TRUE ELSE valid[x]
  BY DEF MakeSession, TypeOK
<1>8. \A i \in Slots : data'[i] = IF i = slot THEN next ELSE data[i]
  BY <1>2 DEF TypeOK
<1>9. OneSlotEach'
  BY <1>4, <1>8 DEF OneSlotEach
<1>10. StoredIsAlive'
  <2> SUFFICES ASSUME NEW i \in Slots, data'[i] # Nil
               PROVE  /\ valid'[data'[i]]
                      /\ closes[data'[i]] = 0
                      /\ \A t \in Tasks : data'[i] \notin owed'[t]
    BY <1>3 DEF StoredIsAlive
  <2>1. CASE i = slot
    BY <2>1, <1>1, <1>3, <1>4, <1>5, <1>6, <1>7, <1>8
  <2>2. CASE i # slot
    <3>1. data'[i] = data[i] /\ data[i] \in Idx /\ data[i] # next
      BY <2>2, <1>4, <1>8 DEF TypeOK
    <3>2. data[i] # data[slot]
      BY <2>2, <3>1 DEF OneSlotEach
    <3> QED BY <3>1, <3>2, <1>6, <1>7 DEF StoredIsAlive
  <2> QED BY <2>1, <2>2
<1>11. OwedOnce'
  <2> SUFFICES ASSUME NEW t \in Tasks, NEW x \in owed'[t]
               PROVE  /\ valid'[x]
                      /\ closes[x] = 0
                      /\ \A u \in Tasks : x \in owed'[u] => u = t
    BY <1>3 DEF OwedOnce
  <2>1. CASE t = Httpd
    <3>1. x = data[slot] /\ x # Nil /\ x \in Idx /\ x # next
      BY <2>1, <1>4, <1>6 DEF TypeOK
    <3> QED BY <2>1, <3>1, <1>6, <1>7 DEF StoredIsAlive
  <2>2. CASE t # Httpd
    <3>1. x \in owed[t] /\ x \in Idx /\ x # next
      BY <2>2, <1>5, <1>6 DEF TypeOK
    <3>2. x # data[slot] \/ data[slot] = Nil
      BY <3>1 DEF StoredIsAlive
    <3> QED BY <2>2, <3>1, <3>2, <1>6, <1>7 DEF OwedOnce
  <2> QED BY <2>1, <2>2
<1>12. NoLostClose'
  <2> SUFFICES ASSUME NEW x \in Idx, x < next + 1
               PROVE  \/ \E i \in Slots : data'[i] = x
                      \/ \E t \in Tasks : x \in owed'[t]
                      \/ closes[x] = 1 /\ ~valid'[x]
    BY <1>1, <1>3 DEF NoLostClose, Created, Stored
  <2>1. CASE x = next
    BY <2>1, <1>8
  <2>2. CASE x # next
    <3>1. x \in Created /\ x # Nil
      BY <2>2, <1>1 DEF Created, Idx, Nil
    <3>2. CASE Stored(x)
      BY <3>1, <3>2, <1>1, <1>6, <1>8 DEF Stored
    <3>3. CASE ~Stored(x)
      BY <2>2, <3>1, <3>3, <1>3, <1>6, <1>7 DEF NoLostClose
    <3> QED BY <3>2, <3>3
  <2> QED BY <2>1, <2>2
<1> QED BY <1>9, <1>10, <1>11, <1>12

(* The end of a session is announced: from then on nobody owes it.         *)
LEMMA InvalidateKeepsOwn ==
  ASSUME Base, Own, NEW t \in Tasks, Invalidate(t)
  PROVE  Own'
<1> USE DEF Base, Own, OneHome
<1>1. PICK x \in owed[t] :
        /\ valid' = [valid EXCEPT ![x] = FALSE]
        /\ closes' = [closes EXCEPT ![x] = @ + 1]
        /\ owed' = [owed EXCEPT ![t] = @ \ {x}]
  BY DEF Invalidate
<1>2. data' = data /\ next' = next /\ x \in Idx /\ closes[x] = 0
  BY DEF Invalidate, OwedOnce, TypeOK
<1>3. \A y \in Idx : /\ valid'[y] = IF y = x THEN FALSE ELSE valid[y]
                     /\ closes'[y] = IF y = x THEN 1 ELSE closes[y]
  BY <1>1, <1>2 DEF TypeOK
<1>4. owed'[t] = owed[t] \ {x} /\ \A u \in Tasks \ {t} : owed'[u] = owed[u]
  BY <1>1 DEF TypeOK
<1>5. OneSlotEach'
  BY <1>2 DEF OneSlotEach
<1>6. StoredIsAlive'
  <2> SUFFICES ASSUME NEW i \in Slots, data[i] # Nil
               PROVE  /\ valid'[data[i]]
                      /\ closes'[data[i]] = 0
                      /\ \A u \in Tasks : data[i] \notin owed'[u]
    BY <1>2 DEF StoredIsAlive
  <2>1. data[i] \in Idx /\ data[i] # x
    BY DEF StoredIsAlive, TypeOK
  <2> QED BY <2>1, <1>3, <1>4 DEF StoredIsAlive
<1>7. OwedOnce'
  <2> SUFFICES ASSUME NEW u \in Tasks, NEW y \in owed'[u]
               PROVE  /\ valid'[y]
                      /\ closes'[y] = 0
                      /\ \A v \in Tasks : y \in owed'[v] => v = u
    BY DEF OwedOnce
  <2>1. y \in owed[u] /\ y \in Idx /\ y # x
    BY <1>4 DEF OwedOnce, TypeOK
  <2> QED BY <2>1, <1>3, <1>4 DEF OwedOnce
<1>8. NoLostClose'
  <2> SUFFICES ASSUME NEW y \in Created
               PROVE  \/ Stored(y)
                      \/ \E u \in Tasks : y \in owed'[u]
                      \/ closes'[y] = 1 /\ ~valid'[y]
    BY <1>2 DEF NoLostClose, Created, Stored
  <2>1. y \in Idx
    BY DEF Created
  <2> QED BY <2>1, <1>3, <1>4 DEF NoLostClose
<1> QED BY <1>5, <1>6, <1>7, <1>8

LEMMA OwnStep == Base /\ Own /\ [Next]_vars => Own'
<1> SUFFICES ASSUME Base, Own, [Next]_vars PROVE Own'
  OBVIOUS
<1> USE DEF Base
<1>a. Httpd \in Tasks /\ Collectors \subseteq Tasks /\ Nil \notin Idx
  BY DEF Tasks, Nil, Idx
<1>1. CASE Place
  <2>1. PICK s \in Sids : MakeSession(s) /\ (PlaceFails(s) \/ PlaceSucceeds(s))
    BY <1>1 DEF Place
  <2> QED BY <1>1, <2>1, PlaceFailsKeepsOwn, PlaceSucceedsKeepsOwn DEF Place
<1>2. CASE Evict
  <2>1. /\ owed[Httpd] = {} /\ sess \in Idx /\ sess # Nil
        /\ UNCHANGED <<next, valid, closes>>
    BY <1>2, <1>a DEF Evict, CallsAgree, TypeOK, objects
  <2>2. CASE count > 0 /\ Stored(sess)
    <3>1. data' = Without(sess) /\ owed' = [owed EXCEPT ![Httpd] = {sess}]
      BY <1>2, <2>2 DEF Evict
    <3>2. /\ owed'[Httpd] = {sess}
          /\ \A u \in Tasks \ {Httpd} : owed'[u] = owed[u]
      BY <3>1, <1>a DEF TypeOK
    <3>3. \A i \in Slots : data'[i] = IF data[i] = sess THEN Nil ELSE data[i]
      BY <3>1 DEF Without
    <3>4. \A x \in Idx : Stored(x) => Stored(x)' \/ x \in owed'[Httpd]
      BY <3>2, <3>3 DEF Stored
    <3>5. \A x \in owed'[Httpd] : Stored(x) /\ x # Nil /\ ~Stored(x)'
      <4> SUFFICES ASSUME NEW x \in owed'[Httpd]
                   PROVE  Stored(x) /\ x # Nil /\ ~Stored(x)'
        OBVIOUS
      <4>1. x = sess
        BY <3>2
      <4>2. \A i \in Slots : data'[i] # x
        BY <2>1, <3>3, <4>1
      <4> QED BY <2>1, <2>2, <4>1, <4>2 DEF Stored
    <3> QED BY <1>a, <2>1, <3>2, <3>3, <3>4, <3>5, RemovalKeepsOwn
  <2>3. CASE ~(count > 0 /\ Stored(sess))
    BY <1>2, <2>1, <2>3, OwnUnchanged DEF Evict
  <2> QED BY <2>2, <2>3
<1>3. CASE Close
  <2>1. /\ owed[Httpd] = {}
        /\ UNCHANGED <<next, valid, closes>>
    BY <1>3, <1>a DEF Close, CallsAgree, objects
  <2>2. PICK y \in Idx \union {Nil} :
          /\ Finds(y, WithSid(sid[sess]))
          /\ data' = IF y = Nil THEN data ELSE Without(y)
          /\ owed' = [owed EXCEPT ![Httpd] = {y} \ {Nil}]
    BY <1>3 DEF Close
  <2>3. /\ owed'[Httpd] = {y} \ {Nil}
        /\ \A u \in Tasks \ {Httpd} : owed'[u] = owed[u]
    BY <2>2, <1>a DEF TypeOK
  <2>4. \A i \in Slots : data'[i] = IF data[i] = y THEN Nil ELSE data[i]
    BY <2>2 DEF Without, TypeOK
  <2>5. \A x \in Idx : Stored(x) => Stored(x)' \/ x \in owed'[Httpd]
    BY <1>a, <2>3, <2>4 DEF Stored
  <2>6. \A x \in owed'[Httpd] : Stored(x) /\ x # Nil /\ ~Stored(x)'
    <3> SUFFICES ASSUME NEW x \in owed'[Httpd]
                 PROVE  Stored(x) /\ x # Nil /\ ~Stored(x)'
      OBVIOUS
    <3>1. x = y /\ y # Nil
      BY <2>3
    <3>2. WithSid(sid[sess]) \subseteq Slots
      BY DEF WithSid, Occupied
    <3>3. \E i \in Slots : x = data[i]
      BY <2>2, <3>1, <3>2, FindsMember
    <3>4. \A i \in Slots : data'[i] # x
      BY <2>4, <3>1
    <3> QED BY <3>1, <3>3, <3>4 DEF Stored
  <2> QED BY <1>a, <2>1, <2>3, <2>4, <2>5, <2>6, RemovalKeepsOwn
<1>4. ASSUME NEW t \in Collectors, CollectSweep(t) PROVE Own'
  <2> DEFINE gone == {i \in Occupied : Expired(data[i], ts[t])}
  <2>1. /\ owed[t] = {} /\ t \in Tasks
        /\ UNCHANGED <<next, valid, closes>>
    BY <1>4, <1>a DEF CollectSweep, CallsAgree, objects
  <2>2. /\ \A i \in Slots : data'[i] = IF i \in gone THEN Nil ELSE data[i]
        /\ owed' = [owed EXCEPT ![t] = {data[i] : i \in gone}]
    BY <1>4 DEF CollectSweep
  <2>3. /\ owed'[t] = {data[i] : i \in gone}
        /\ \A u \in Tasks \ {t} : owed'[u] = owed[u]
    BY <2>1, <2>2 DEF TypeOK
  <2>4. \A x \in Idx : Stored(x) => Stored(x)' \/ x \in owed'[t]
    BY <2>2, <2>3 DEF Stored
  <2>5. \A x \in owed'[t] : Stored(x) /\ x # Nil /\ ~Stored(x)'
    <3> SUFFICES ASSUME NEW i \in gone
                 PROVE  /\ Stored(data[i]) /\ data[i] # Nil
                        /\ \A j \in Slots : data'[j] # data[i]
      BY <2>3 DEF Stored
    <3>1. i \in Slots /\ data[i] # Nil
      BY DEF Occupied
    <3>2. \A j \in Slots : data'[j] = Nil \/ (data'[j] = data[j] /\ j # i)
      BY <2>2
    <3> QED BY <3>1, <3>2 DEF Stored, Own, OneHome, OneSlotEach
  <2> QED BY <2>1, <2>2, <2>3, <2>4, <2>5, RemovalKeepsOwn
<1>5. ASSUME NEW t \in Tasks, Invalidate(t) PROVE Own'
  BY <1>5, InvalidateKeepsOwn
<1>6. CASE UNCHANGED <<data, next, valid, closes, owed>>
  BY <1>6, OwnUnchanged
<1> QED
  BY <1>1, <1>2, <1>3, <1>4, <1>5, <1>6
  DEF Next, HttpdStep, CollectorStep, vars, objects, Tick, OpenNew, Retry,
      LookupSid, LookupIndex, Lookup, FindSid, FindIndex, Absent, Prolonged,
      Outlived, Attach, KeepAlive, Renew, Served, CollectBegin, Return

(* Every session object has one home, and the invariant is inductive.      *)
THEOREM Ownership == Spec => []IInv
<1>1. Init => Base /\ Own
  BY BaseInit, OwnInit
<1>2. Base /\ Own /\ [Next]_vars => (Base /\ Own)'
  BY BaseStep, OwnStep
<1>3. Base /\ Own => IInv
  BY DEF Base, Own, IInv
<1> QED BY <1>1, <1>2, <1>3, PTL DEF Spec

(* A stored session is in one slot, valid, and was not announced as        *)
(* closed; a removed one is owed by one task.                              *)
THEOREM OneHomeEach == Spec => []OneHome
<1>1. IInv => OneHome
  BY DEF IInv
<1> QED BY <1>1, Ownership, PTL

(* No session disappears without its CLOSE event, whoever removed it, and  *)
(* none has it twice.                                                      *)
THEOREM CloseIsNeverLost == Spec => []NoLostClose
<1>1. IInv => NoLostClose
  BY DEF IInv
<1> QED BY <1>1, Ownership, PTL

-----------------------------------------------------------------------------
(* The manager implements the lifecycle of SessionLifecycle.               *)

stages == [x \in Idx |-> Stage(x)]

LEMMA LifecycleInit == Init => Lifecycle!Init
BY DEF Init, Lifecycle!Init, Stage, Idx

(* The sessions open but for the one in a slot fit in the other slots.     *)
LEMMA OthersFit ==
  ASSUME TypeOK, NEW slot \in Slots,
         NEW T, T = {x \in Idx : \E i \in Slots \ {slot} : data[i] = x}
  PROVE  Cardinality(T) < Total
<1> DEFINE D == {i \in Slots \ {slot} : data[i] # Nil}
           f == [i \in D |-> data[i]]
<1>1. IsFiniteSet(Slots) /\ Cardinality(Slots) = Total
  BY FS_Interval, TotalAssumption DEF Slots
<1>2. IsFiniteSet(Slots \ {slot}) /\ Cardinality(Slots \ {slot}) = Total - 1
  BY <1>1, FS_RemoveElement
<1>3. /\ IsFiniteSet(D)
      /\ Cardinality(D) \in Nat
      /\ Cardinality(D) <= Total - 1
  BY <1>2, FS_Subset, FS_CardinalityType
<1>4. f \in Surjection(D, T)
  BY DEF Surjection, TypeOK, Idx, Nil
<1>5. IsFiniteSet(T) /\ Cardinality(T) <= Cardinality(D)
  BY <1>3, <1>4, FS_Surjection
<1>6. Cardinality(T) \in Nat
  BY <1>5, FS_CardinalityType
<1> QED BY <1>3, <1>5, <1>6, TotalAssumption

(* A step that touches no slot, index or announcement is a stutter.        *)
LEMMA StageUnchanged ==
  ASSUME UNCHANGED <<data, next, closes>>
  PROVE  stages' = stages
BY DEF stages, Stage, Stored

(* Sessions taken out of the array and not announced yet are removed.      *)
LEMMA RemovalIsRemove ==
  ASSUME Base, Own, UNCHANGED <<next, closes>>,
         \A i \in Slots : data'[i] = data[i] \/ data'[i] = Nil
  PROVE  Lifecycle!Remove \/ stages' = stages
<1> USE DEF Base, Own, OneHome
<1> DEFINE S == {x \in Idx : Stored(x) /\ ~Stored(x)'}
<1>1. \A x \in Idx : Stored(x)' => Stored(x)
  BY DEF Stored, Idx, Nil
<1>2. \A x \in S : stages[x] = "open" /\ closes[x] = 0 /\ ~(x >= next)
  <2> SUFFICES ASSUME NEW x \in Idx, Stored(x)
               PROVE  Stage(x) = "open" /\ closes[x] = 0 /\ ~(x >= next)
    BY DEF stages
  <2>1. PICK i \in Slots : data[i] = x
    BY DEF Stored
  <2>2. x < next /\ x # Nil
    BY <2>1 DEF MadeOnly, Idx, Nil
  <2> QED BY <2>1, <2>2 DEF StoredIsAlive, Stage, Stored, TypeOK, Idx
<1>3. \A x \in Idx : Stage(x)' = IF x \in S THEN "removed" ELSE Stage(x)
  BY <1>1, <1>2 DEF Stage
<1>4. CASE S = {}
  BY <1>3, <1>4 DEF stages
<1>5. CASE S # {}
  <2>1. S \in SUBSET Lifecycle!At("open")
    BY <1>2 DEF Lifecycle!At, stages
  <2>2. stages' = [x \in Idx |-> IF x \in S THEN "removed" ELSE stages[x]]
    BY <1>3 DEF stages
  <2> HIDE DEF S
  <2>3. Lifecycle!Move(S, "removed")
    BY <2>2 DEF Lifecycle!Move, stages
  <2> QED BY <1>5, <2>1, <2>3 DEF Lifecycle!Remove
<1> QED BY <1>4, <1>5

(* A session turned down is removed at once.                               *)
LEMMA PlaceFailsIsReject ==
  ASSUME Base, Own, NEW s \in Sids, MakeSession(s), PlaceFails(s)
  PROVE  Lifecycle!Reject
<1> USE DEF Base
<1>1. next \in Idx /\ next' = next + 1 /\ data' = data /\ closes' = closes
  BY BoundAssumption DEF MakeSession, PlaceFails, TypeOK, Idx
<1>2. ~Stored(next) /\ closes[next] = 0
  BY <1>1 DEF MadeOnly, Stored, Idx
<1>3. \A x \in Idx : Stage(x)' = IF x = next THEN "removed" ELSE Stage(x)
  BY <1>1, <1>2 DEF Stage, Stored, Idx
<1>4. next \in Lifecycle!At("unmade")
  BY <1>1 DEF Lifecycle!At, Stage, Idx
<1>5. Lifecycle!Move({next}, "removed")
  BY <1>3 DEF Lifecycle!Move
<1> QED BY <1>4, <1>5 DEF Lifecycle!Reject

(* Cardinality, as the instance of SessionLifecycle extends it.            *)
LEMMA SameCardinality ==
  ASSUME NEW S
  PROVE  Lifecycle!Cardinality(S) = Cardinality(S)
BY DEF Cardinality, Lifecycle!Cardinality

(* A session placed is opened, and there is room for it: the others hold a *)
(* slot each, and none of them holds the slot it took.                     *)
LEMMA PlaceSucceedsIsOpen ==
  ASSUME Base, Own, NEW s \in Sids, MakeSession(s), PlaceSucceeds(s)
  PROVE  Lifecycle!Open
<1> USE DEF Base, Own, OneHome
<1>1. next \in Idx /\ next' = next + 1 /\ closes' = closes /\ next # Nil
  BY BoundAssumption DEF MakeSession, TypeOK, Idx, Nil
<1>2. PICK slot \in Slots : data' = [data EXCEPT ![slot] = next]
  BY DEF PlaceSucceeds, Free
<1> DEFINE S == {data[slot]} \ {Nil}
           T == {x \in Idx : \E i \in Slots \ {slot} : data[i] = x}
<1>3. \A i \in Slots : data'[i] = IF i = slot THEN next ELSE data[i]
  BY <1>2 DEF TypeOK
<1>4. \A i \in Slots : data[i] # next
  BY <1>1 DEF MadeOnly, Idx
<1>5. \A x \in Idx : Stored(x) <=> x \in S \/ x \in T
  BY DEF Stored, Idx, Nil
<1>6. \A x \in S : x \notin T
  BY DEF OneSlotEach
<1>7. \A x \in Idx : Stored(x)' <=> x = next \/ x \in T
  BY <1>3 DEF Stored
<1>8. \A x \in Idx : Stored(x) => x < next /\ closes[x] = 0
  BY DEF Stored, MadeOnly, StoredIsAlive, Idx, Nil
<1>9. Lifecycle!At("open") = {x \in Idx : Stored(x)}
  BY <1>1, <1>8 DEF Lifecycle!At, Stage, Idx
<1>10. S \in SUBSET Lifecycle!At("open")
  <2>1. S \subseteq Idx
    BY DEF TypeOK
  <2> QED BY <1>5, <1>9, <2>1
<1>11. Cardinality(S) <= 1
  <2>1. CASE data[slot] = Nil
    BY <2>1, FS_EmptySet
  <2>2. CASE data[slot] # Nil
    BY <2>2, FS_Singleton
  <2> QED BY <2>1, <2>2
<1>12. Cardinality(Lifecycle!At("open") \ S) < Total
  <2>1. Lifecycle!At("open") \ S = T
    BY <1>5, <1>6, <1>9
  <2> QED BY <2>1, OthersFit
<1>13. next \in Lifecycle!At("unmade")
  BY <1>1 DEF Lifecycle!At, Stage, Idx
<1>14. \A x \in Idx : Stage(x)' = IF x = next THEN "open"
                                  ELSE IF x \in S THEN "removed" ELSE Stage(x)
  <2> SUFFICES ASSUME NEW x \in Idx
               PROVE  Stage(x)' = IF x = next THEN "open"
                                  ELSE IF x \in S THEN "removed" ELSE Stage(x)
    OBVIOUS
  <2>1. CASE x = next
    BY <2>1, <1>1, <1>7 DEF Stage, Idx
  <2>2. CASE x # next
    <3>1. (x >= next') <=> (x >= next)
      BY <2>2, <1>1 DEF Idx
    <3>2. x \in S => ~(x >= next) /\ closes[x] = 0 /\ ~Stored(x)'
      BY <2>2, <1>1, <1>5, <1>6, <1>7, <1>8 DEF Idx
    <3>3. x \notin S => (Stored(x)' <=> Stored(x))
      BY <2>2, <1>5, <1>7
    <3> HIDE DEF S, T
    <3> QED BY <2>2, <1>1, <3>1, <3>2, <3>3 DEF Stage
  <2> QED BY <2>1, <2>2
<1> HIDE DEF S, T
<1>15. stages' = [y \in Idx |-> IF y = next THEN "open"
                                ELSE IF y \in S THEN "removed" ELSE stages[y]]
  BY <1>14 DEF stages
<1>16. /\ Lifecycle!Cardinality(S) <= 1
       /\ Lifecycle!Cardinality(Lifecycle!At("open") \ S) < Total
  BY <1>11, <1>12, SameCardinality
<1> QED BY <1>10, <1>13, <1>15, <1>16 DEF Lifecycle!Open, stages

(* The CLOSE event of a session ends its life.                             *)
LEMMA InvalidateIsAnnounce ==
  ASSUME Base, Own, NEW t \in Tasks, Invalidate(t)
  PROVE  Lifecycle!Announce
<1> USE DEF Base, Own, OneHome
<1>1. PICK x \in owed[t] : closes' = [closes EXCEPT ![x] = @ + 1]
  BY DEF Invalidate
<1>2. data' = data /\ next' = next /\ x \in Idx /\ closes[x] = 0 /\ x < next
  BY DEF Invalidate, OwedOnce, TypeOK, MadeOnly
<1>3. ~Stored(x)
  BY <1>2 DEF StoredIsAlive, Stored, Idx, Nil
<1>4. \A y \in Idx : closes'[y] = IF y = x THEN 1 ELSE closes[y]
  BY <1>1, <1>2 DEF TypeOK
<1>5. \A y \in Idx : Stage(y)' = IF y = x THEN "closed" ELSE Stage(y)
  BY <1>2, <1>3, <1>4 DEF Stage, Stored, Idx, TypeOK
<1>6. x \in Lifecycle!At("removed")
  BY <1>2, <1>3 DEF Lifecycle!At, Stage, Idx, TypeOK
<1>7. Lifecycle!Move({x}, "closed")
  BY <1>5 DEF Lifecycle!Move
<1> QED BY <1>6, <1>7 DEF Lifecycle!Announce

LEMMA LifecycleStep == Base /\ Own /\ [Next]_vars => [Lifecycle!Next]_stages
<1> SUFFICES ASSUME Base, Own, [Next]_vars, stages' # stages
             PROVE  Lifecycle!Next
  OBVIOUS
<1> USE DEF Lifecycle!Next
<1>1. CASE Place
  <2>1. PICK s \in Sids : MakeSession(s) /\ (PlaceFails(s) \/ PlaceSucceeds(s))
    BY <1>1 DEF Place
  <2> QED BY <2>1, PlaceFailsIsReject, PlaceSucceedsIsOpen
<1>2. CASE Evict
  <2>1. /\ UNCHANGED <<next, closes>>
        /\ \A i \in Slots : data'[i] = data[i] \/ data'[i] = Nil
    BY <1>2 DEF Evict, Without, objects
  <2> QED BY <2>1, RemovalIsRemove
<1>3. CASE Close
  <2>1. /\ UNCHANGED <<next, closes>>
        /\ \A i \in Slots : data'[i] = data[i] \/ data'[i] = Nil
    BY <1>3 DEF Close, Without, objects
  <2> QED BY <2>1, RemovalIsRemove
<1>4. ASSUME NEW t \in Collectors, CollectSweep(t) PROVE Lifecycle!Next
  <2>1. /\ UNCHANGED <<next, closes>>
        /\ \A i \in Slots : data'[i] = data[i] \/ data'[i] = Nil
    BY <1>4 DEF CollectSweep, objects
  <2> QED BY <2>1, RemovalIsRemove
<1>5. ASSUME NEW t \in Tasks, Invalidate(t) PROVE Lifecycle!Next
  BY <1>5, InvalidateIsAnnounce
<1>6. CASE UNCHANGED <<data, next, closes>>
  BY <1>6, StageUnchanged
<1> QED
  BY <1>1, <1>2, <1>3, <1>4, <1>5, <1>6
  DEF Next, HttpdStep, CollectorStep, vars, objects, Tick, OpenNew, Retry,
      LookupSid, LookupIndex, Lookup, FindSid, FindIndex, Absent, Prolonged,
      Outlived, Attach, KeepAlive, Renew, Served, CollectBegin, Return

(* The manager implements its abstract specification: every session object *)
(* goes through its life once, never more than Total are open, and the     *)
(* server hears of every end.                                              *)
THEOREM LifecycleImplemented == Spec => ImplementsLifecycle
<1>1. Init => Base /\ Own
  BY BaseInit, OwnInit
<1>2. Base /\ Own /\ [Next]_vars => (Base /\ Own)'
  BY BaseStep, OwnStep
<1>3. Base /\ Own /\ [Next]_vars
        => [Lifecycle!Next]_([x \in Idx |-> Stage(x)])
  BY LifecycleStep DEF stages
<1> QED
  BY <1>1, <1>2, <1>3, LifecycleInit, PTL
  DEF Spec, ImplementsLifecycle, Lifecycle!Spec
=============================================================================
