---------------------------- MODULE ControlStates ----------------------------
(***************************************************************************)
(* What the server promises of the controls its clients share: each one    *)
(* has the state it was given last, or none.                               *)
(***************************************************************************)
CONSTANTS
  Controls,  \* identifiers of controls
  Values,    \* states a control can be given
  None       \* the state of a control that is off

VARIABLE state

Init == state = [c \in Controls |-> None]

Give(c, s) == state' = [state EXCEPT ![c] = s]

Next == \E c \in Controls, s \in Values \union {None} : Give(c, s)

Spec == Init /\ [][Next]_state
=============================================================================
