------------------------------- MODULE CtrlMap -------------------------------
(***************************************************************************)
(* ctrlmap (main/ctrlmap.h): the states of the controls that clients share *)
(* through the server, each distinct state kept once and referred to by    *)
(* its position.  The httpd task and the USB task (for the keyboard's      *)
(* lights) change states; the scheduler task collects positions that no    *)
(* control uses.  Every operation holds the lock from its first line to    *)
(* its last, so that each is a step.                                       *)
(*                                                                         *)
(* The server does not look at the states that clients send, other than    *)
(* "switched-off" and those of controls that have none ("click",           *)
(* "activate-...").  The clients it ships send "switched-on" and           *)
(* "switched-off" for switches, so that one position is all they ever use. *)
(***************************************************************************)
EXTENDS Integers, Sequences, FiniteSets, SequencesExt

CONSTANTS
  Controls,  \* the keys
  Values,    \* the values that are kept
  Empty,     \* "", what a string is when it was moved from, or just made
  Steep      \* collectThresholdSteep, also the first threshold

MapAssumption == Empty \notin Values /\ Steep \in Nat \ {0}

VARIABLES
  m,         \* position of the value of each control that has one
  v,         \* the values; positions count from 0
  threshold, \* collectThreshold
  given,     \* history: what each control was given last, of the controls
             \* that no collection has touched since
  overrun    \* history: a collection has written beyond the values

vars == <<m, v, threshold, given, overrun>>

At(list, p) == list[p + 1]
Put(list, p, value) == [list EXCEPT ![p + 1] = value]

(* index: the first position of the value, which is added if need be.      *)
Position(value, list) ==
  IF Contains(list, value) THEN SelectInSeq(list, LAMBDA x : x = value) - 1
  ELSE Len(list)

Known(value, list) ==
  IF Contains(list, value) THEN list ELSE Append(list, value)

Init ==
  /\ m = << >>
  /\ v = << >>
  /\ threshold = Steep
  /\ given = [c \in Controls |-> Empty]
  /\ overrun = FALSE

Gave(c, value) ==
  given' = [k \in DOMAIN given \union {c} |-> IF k = c THEN value ELSE given[k]]

-----------------------------------------------------------------------------
(* Mutant of Push: the position after the value's.                         *)
PushSize(c, value) ==
  /\ v' = Known(value, v)
  /\ m' = [k \in DOMAIN m \union {c} |-> IF k = c THEN Position(value, v) + 1
                                         ELSE m[k]]
  /\ Gave(c, value)
  /\ UNCHANGED <<threshold, overrun>>

(* nextState with a value that is kept, and with "switched-off".  Other    *)
(* values change nothing.                                                  *)
Push(c, value) ==
  /\ v' = Known(value, v)
  /\ m' = [k \in DOMAIN m \union {c} |-> IF k = c THEN Position(value, v)
                                         ELSE m[k]]
  /\ Gave(c, value)
  /\ UNCHANGED <<threshold, overrun>>

Pop(c) ==
  /\ m' = [k \in DOMAIN m \ {c} |-> m[k]]
  /\ Gave(c, Empty)
  /\ UNCHANGED <<v, threshold, overrun>>

(* One turn of collect's loop: the value of c moves to position next.  The *)
(* positions of the other controls with that value, or with the value that *)
(* stood there, are not looked at.  A string moved onto itself is in a     *)
(* state the library may choose: empty, or what it was.                    *)
Moved(pos, list, next, keeps) ==
  IF pos = next
    THEN IF keeps THEN list ELSE Put(list, pos, Empty)
    ELSE Put(Put(list, pos, Empty), next, At(list, pos))

(* The whole loop, over the controls in the order the hash map has them:   *)
(* the k-th of them gets position k - 1.                                   *)
Compacted(order, keeps) ==
  LET After[k \in 0 .. Len(order)] ==
        IF k = 0 THEN v ELSE Moved(m[order[k]], After[k - 1], k - 1, keeps)
  IN  After[Len(order)]

Resized(list, size) ==
  [p \in 1 .. size |-> IF p <= Len(list) THEN list[p] ELSE Empty]

(* More controls than values: the loop writes at v[v.size()] and beyond,   *)
(* where no string is, and resize then makes strings there.  What that     *)
(* leaves is undefined: any contents.                                      *)
Overruns == Cardinality(DOMAIN m) > Len(v)

Adapted(size) ==
  CASE size > threshold         -> threshold + Steep
    [] size < threshold - Steep -> threshold - Steep
    [] OTHER                    -> threshold

Touched ==
  /\ given' = [c \in Controls \ DOMAIN m |-> Empty]
  /\ overrun' = (overrun \/ Overruns)

(* Mutant of Collect: the values are cut off, the positions stay.          *)
CollectCuts ==
  /\ Len(v) > threshold
  /\ v' = Resized(v, Cardinality(DOMAIN m))
  /\ threshold' = Adapted(Cardinality(DOMAIN m))
  /\ Touched
  /\ UNCHANGED m

Collect ==
  /\ Len(v) > threshold
  /\ LET size == Cardinality(DOMAIN m)
     IN  /\ \E order \in SetToSeqs(DOMAIN m) :
              /\ IF Overruns
                   THEN v' \in [1 .. size -> Values \union {Empty}]
                   ELSE \E keeps \in BOOLEAN : v' = Resized(Compacted(order, keeps), size)
              /\ m' = [c \in DOMAIN m |->
                         CHOOSE p \in 0 .. size - 1 : order[p + 1] = c]
         /\ threshold' = Adapted(size)
  /\ Touched

Next ==
  \/ \E c \in Controls, value \in Values : Push(c, value)
  \/ \E c \in Controls : Pop(c)
  \/ Collect

Spec == Init /\ [][Next]_vars

-----------------------------------------------------------------------------
TypeOK ==
  /\ DOMAIN m \subseteq Controls
  /\ \A c \in DOMAIN m : m[c] \in Nat
  /\ v \in Seq(Values \union {Empty})
  /\ threshold \in Nat
  /\ DOMAIN given \subseteq Controls /\ overrun \in BOOLEAN

(* A reader never looks beyond the values: the positions of controls stay  *)
(* good when positions are reused and values are cut off.                  *)
PositionsHold == \A c \in DOMAIN m : m[c] < Len(v)

(* The threshold never falls to where every change leads to a collection.  *)
ThresholdStays == threshold >= Steep

(* The value that a reader (a client that signs in) is told of each.       *)
ReadState(c) == IF c \in DOMAIN m /\ m[c] < Len(v) THEN At(v, m[c]) ELSE Empty

States == INSTANCE ControlStates
            WITH None <- Empty, state <- [c \in Controls |-> ReadState(c)]

(* Whatever is reused or collected, each control has its last state.       *)
ImplementsStates == States!Spec

(* Whatever is shared and reused, a control has the state it was given     *)
(* last, until a collection touches it.                                    *)
GivenHolds == \A c \in DOMAIN given : ReadState(c) = given[c]

(* As long as no collection has written beyond the values, positions stay  *)
(* within them and controls that none has touched have their states; the   *)
(* threshold stays at its floor or above (ctrlmap.h:31-39, 136-172).       *)
MapHolds == TypeOK /\ ThresholdStays /\ (~overrun => PositionsHold /\ GivenHolds)

(* Positions are "real index not size" (ctrlmap.h:36): a collection hands  *)
(* out none that is the size of the values, or more, and writes there.     *)
RealIndices == ~overrun
=============================================================================
