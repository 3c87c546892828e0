------------------------------- MODULE Keyboard -------------------------------
(***************************************************************************)
(* getchar() of keyboard.c: the modifier flags, and the character that a   *)
(* scan code from port 0x60 stands for.  A code is named after its key,    *)
(* with "up" when the key is released; DOUBLE_KEY is the prefix 0xE0 that  *)
(* comes before the codes of the right ctrl and of the arrows.  Both ctrl  *)
(* keys have the same code.                                                *)
(***************************************************************************)
EXTENDS Naturals, Sequences

Shifts == {"lf_shift", "rt_shift"}
Ctrls == {"lf_ctrl", "rt_ctrl"}
Modifiers == Shifts \cup Ctrls
Typing == {"letter", "digit", "tab", "backspace"}
Keys == Modifiers \cup Typing \cup {"caps_lock", "arrow"}

(* The codes a key sends (the keyboard, not this program). *)
Code(key, dir) == [key |-> IF key \in Ctrls THEN "ctrl" ELSE key, dir |-> dir]
DOUBLE_KEY == Code("double", "down")
Codes(key, dir) ==
  IF key \in {"rt_ctrl", "arrow"} THEN <<DOUBLE_KEY, Code(key, dir)>> ELSE <<Code(key, dir)>>

(* The tables, for the codes that are not NIL in them. *)
keyboard_origin == [letter |-> "a", digit |-> "1", tab |-> "TAB", backspace |-> "BS"]
keyboard_shift == [letter |-> "A", digit |-> "!", tab |-> "TAB", backspace |-> "BS"]

(* No flag is set at boot. *)
Flags == {"double_key_on", "lf_shift", "rt_shift", "lf_ctrl", "rt_ctrl", "capslock"}
NoFlags == [f \in Flags |-> FALSE]

(* One flag for both shift keys. *)
flags_OneShift(K, c) ==
  LET side == IF K["double_key_on"] THEN "rt_ctrl" ELSE "lf_ctrl"
  IN  CASE c = Code("caps_lock", "down") -> [K EXCEPT !["capslock"] = ~@]
        [] c.key \in Shifts -> [K EXCEPT !["lf_shift"] = c.dir = "down"]
        [] c = Code("lf_ctrl", "down") -> [K EXCEPT ![side] = TRUE]
        [] c = Code("lf_ctrl", "up") -> [K EXCEPT ![side] = FALSE, !["double_key_on"] = FALSE]
        [] c = DOUBLE_KEY -> [K EXCEPT !["double_key_on"] = TRUE]
        [] OTHER -> K

(* getchar(): the flags after the code c.  The prefix is remembered until a *)
(* ctrl key is released, whatever code it belonged to.                      *)
flags(K, c) ==
  LET side == IF K["double_key_on"] THEN "rt_ctrl" ELSE "lf_ctrl"
  IN  CASE c = Code("caps_lock", "down") -> [K EXCEPT !["capslock"] = ~@]
        [] c.key \in Shifts -> [K EXCEPT ![c.key] = c.dir = "down"]
        [] c = Code("lf_ctrl", "down") -> [K EXCEPT ![side] = TRUE]
        [] c = Code("lf_ctrl", "up") -> [K EXCEPT ![side] = FALSE, !["double_key_on"] = FALSE]
        [] c = DOUBLE_KEY -> [K EXCEPT !["double_key_on"] = TRUE]
        [] OTHER -> K

(* getchar(): the character, under the flags it has just set. *)
getchar(K, c) ==
  LET shifted == K["capslock"] # (K["lf_shift"] \/ K["rt_shift"])
  IN  IF c.key \notin Typing \/ c.dir = "up" THEN "NIL"
      ELSE IF shifted THEN keyboard_shift[c.key] ELSE keyboard_origin[c.key]

=============================================================================
