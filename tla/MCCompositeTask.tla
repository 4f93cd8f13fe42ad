--------------------------- MODULE MCCompositeTask ---------------------------
(***************************************************************************)
(* CompositeTask on small instances: two keys and a modifier-like third,   *)
(* one joystick button and one mouse button, two places to move the axes.  *)
(***************************************************************************)
EXTENDS CompositeTask

MCButtons  == {"a", "b", "c", "j", "m"}
MCDeviceOf == [b \in MCButtons |-> IF b = "j" THEN "joystick0"
                                   ELSE IF b = "m" THEN "mouse"
                                   ELSE "keyboard"]
MCLow      == {"j"}

Combination(keys, press) ==
  [keys |-> keys, moves |-> {}, to |-> 0, press |-> press, text |-> <<>>]

Typed(text) == [Combination({}, "press") EXCEPT !.text = text]

Moved(keys, press) ==
  [Combination(keys, press) EXCEPT !.moves = {"joystick0"}, !.to = 1]

Hold(keys) == {Combination(keys, "down"), Combination(keys, "up")}

(* Everything a keyboard is asked for, nothing included; {"a", "b"} fills  *)
(* a report, and overflows it together with another key.                   *)
MCKeyboard == Hold({"a"}) \union Hold({"a", "b"}) \union Hold({"c"})
                \union {Combination({"b"}, "press"), Combination({}, "down"),
                        Combination({"a"}, "doubletap"), Typed(<<"b", "c">>)}

(* Everything a joystick is asked for, on its own.                         *)
MCJoystick == Hold({"j"}) \union {Combination({"j"}, "press"),
                                  Moved({}, "press"), Moved({"j"}, "press")}

(* A key is held while the joystick is used.                               *)
MCTwoDevices == Hold({"a"}) \union {Combination({"j"}, "press")}

MCPositions == 0 .. 2
MCNoWidgets == {}
MCWidgets   == {2}
=============================================================================
