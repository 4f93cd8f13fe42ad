------------------------------ MODULE MCKeyboard ------------------------------
(***************************************************************************)
(* CompositeTask as its two users drive it, one in each behaviour: someone *)
(* who types and holds keys, and someone whose commands move the joystick  *)
(* while a widget moves it by direct access. What the two do to each other *)
(* is in the runs that expect a violation and in the README.               *)
(***************************************************************************)
EXTENDS MCCompositeTask

VARIABLE user

MCCommands == MCKeyboard \union MCJoystick

(* The commands of someone who only uses the keyboard.                     *)
KeyboardCommands ==
  {c \in Commands : /\ c.moves = {}
                    /\ \A b \in c.keys \union ToSet(c.text) : DeviceOf[b] = "keyboard"}

UserInit == Init /\ user \in {"keyboard", "joystick"}

UserNext ==
  /\ Next
  /\ UNCHANGED user
  /\ user = "keyboard" => direct' = "idle"
  /\ \A i \in DOMAIN queue' : queue'[i] \in KeyboardCommands <=> user = "keyboard"

UserSpec == UserInit /\ [][UserNext]_<<vars, user>> /\ Fairness

(* CompositeTask's HostShowsDangling and DanglingYields, where no report   *)
(* takes the endpoint from the task.                                       *)
KeyboardShowsDangling == user = "keyboard" => HostShowsDangling /\ DanglingYields
=============================================================================
