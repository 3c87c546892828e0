------------------------------- MODULE Console -------------------------------
(***************************************************************************)
(* Kernel threads that print, the keyboard interrupt and the timer, which  *)
(* all share the cursor of VGA.c.  A thread prints with interrupts on, so  *)
(* show_char() can be interrupted between any two accesses to the cursor,  *)
(* and a cursor_x++ is a load and a store.  The handlers print with        *)
(* interrupts off.  The timer handler switches to another thread, and      *)
(* schedule() prints a line before it does.                                *)
(***************************************************************************)
EXTENDS Screen, Keyboard

CONSTANTS
  Threads,
  Printed,     \* the numbers the threads print
  UsedKeys,    \* the keys that are used
  TextLen,     \* length of the text that the handlers print
  MaxPort      \* bound: codes the keyboard holds back while they are not read

ASSUME ConsoleAssumption ==
  Printed \subseteq Nat /\ UsedKeys \subseteq Keys /\ TextLen \in Nat /\ MaxPort \in Nat

VARIABLES
  cursor,      \* cursor_x and cursor_y
  current,     \* the thread that runs
  thread,      \* todo: the characters a thread still has to print; pc and reg:
               \* where it is in show_char(), and the value it has loaded
  kbd,         \* the flags of keyboard.c
  port,        \* codes the keyboard has sent, each with what it should print, if
               \* it is a letter
  held,        \* the modifier keys that are down
  lamp         \* whether caps lock is on, as the user counts

consoleVars == <<cursor, current, thread, kbd, port, held, lamp>>

ConsoleInit ==
  /\ cursor = Cursor(0, 0)
  /\ current \in Threads
  /\ thread = [t \in Threads |-> [todo |-> <<>>, pc |-> "next", reg |-> 0]]
  /\ kbd = NoFlags
  /\ port = <<>>
  /\ held = {}
  /\ lamp = FALSE

-----------------------------------------------------------------------------
(* printf("%d\n", n) or printf("%x\n", n) by the running thread. *)
printf(n, base) ==
  /\ thread[current].todo = <<>>
  /\ LET prefix == IF base = 16 THEN <<"0", "x">> ELSE <<>>
         digits == [i \in 1..Len(put_int(n, base)) |-> "digit"]
     IN  thread' = [thread EXCEPT ![current].todo = prefix \o digits \o <<"LF">>]
  /\ UNCHANGED <<cursor, current, kbd, port, held, lamp>>

T == thread[current]
At(pc) == T.todo # <<>> /\ T.pc = pc

(* The thread goes on at pc with v in its register; "next" is the next      *)
(* character.                                                               *)
Goto(pc, v) ==
  thread' = [thread EXCEPT ![current] =
    [todo |-> IF pc = "next" THEN Tail(T.todo) ELSE T.todo, pc |-> pc,
     reg |-> IF pc = "next" THEN 0 ELSE v]]

(* The value the compiled code tests after a store: its register, or memory *)
(* once more.                                                               *)
Tested(v) == {T.reg, v}

(* show_char(), one access to the cursor at a time. *)
LoadX ==
  /\ At("next") /\ Head(T.todo) # "LF"
  /\ Goto("storex", u8(cursor.x + 1))
  /\ UNCHANGED cursor

StoreX ==
  /\ At("storex")
  /\ cursor' = [cursor EXCEPT !.x = T.reg]
  /\ Goto("testx", T.reg)

TestX ==
  /\ At("testx")
  /\ \E v \in Tested(cursor.x) : Goto(IF v >= Width THEN "zerox" ELSE "next", 0)
  /\ UNCHANGED cursor

ZeroX ==
  /\ At("zerox") \/ (At("next") /\ Head(T.todo) = "LF")
  /\ cursor' = [cursor EXCEPT !.x = 0]
  /\ Goto("loady", 0)

LoadY ==
  /\ At("loady")
  /\ Goto("storey", u8(cursor.y + 1))
  /\ UNCHANGED cursor

StoreY ==
  /\ At("storey")
  /\ cursor' = [cursor EXCEPT !.y = T.reg]
  /\ Goto("scroll", T.reg)

(* scroll() that lets the cursor leave the screen by a line. *)
ScrollTest_OneMore ==
  /\ At("scroll")
  /\ \E v \in Tested(cursor.y) : Goto(IF v <= Height THEN "next" ELSE "lasty", 0)
  /\ UNCHANGED cursor

ScrollTest ==
  /\ At("scroll")
  /\ \E v \in Tested(cursor.y) : Goto(IF v < Height THEN "next" ELSE "lasty", 0)
  /\ UNCHANGED cursor

ScrollLast ==
  /\ At("lasty")
  /\ cursor' = [cursor EXCEPT !.y = Height - 1]
  /\ Goto("next", 0)

ShowChar ==
  /\ LoadX \/ StoreX \/ TestX \/ ZeroX \/ LoadY \/ StoreY \/ ScrollTest \/ ScrollLast
  /\ UNCHANGED <<current, kbd, port, held, lamp>>

-----------------------------------------------------------------------------
Text == [i \in 1..TextLen |-> "text"]

(* The timer: schedule() prints its line and runs another thread. *)
Switch(t) ==
  /\ t # current
  /\ cursor' = put_raw_string(cursor, Append(Text, "LF"))
  /\ current' = t
  /\ UNCHANGED <<thread, kbd, port, held, lamp>>

(* A key goes down or up, or repeats while it is down.  Caps lock is not    *)
(* held down.                                                               *)
Key(key, dir) ==
  /\ key \in Modifiers => (key \in held) = (dir = "up")
  /\ Len(port) + Len(Codes(key, dir)) <= MaxPort
  /\ LET wanted == IF key = "letter" /\ dir = "down"
                   THEN IF lamp # (held \cap Shifts # {}) THEN "A" ELSE "a" ELSE "NIL"
     IN  port' = port \o [i \in 1..Len(Codes(key, dir)) |->
                            [code |-> Codes(key, dir)[i], wanted |-> wanted]]
  /\ held' = IF key \notin Modifiers THEN held
             ELSE IF dir = "down" THEN held \cup {key} ELSE held \ {key}
  /\ lamp' = (lamp # (key = "caps_lock" /\ dir = "down"))
  /\ UNCHANGED <<cursor, current, thread, kbd>>

(* kbd_handler(): one code is read, and a line printed with its character.  *)
kbd_handler ==
  /\ port # <<>>
  /\ kbd' = flags(kbd, Head(port).code)
  /\ cursor' = put_raw_string(cursor, Text \o <<getchar(kbd', Head(port).code), "LF">>)
  /\ port' = Tail(port)
  /\ UNCHANGED <<current, thread, held, lamp>>

ConsoleNext ==
  \/ \E n \in Printed, base \in {10, 16} : printf(n, base)
  \/ ShowChar
  \/ \E t \in Threads : Switch(t)
  \/ \E key \in UsedKeys, dir \in {"down", "up"} : Key(key, dir)
  \/ kbd_handler

ConsoleSpec == ConsoleInit /\ [][ConsoleNext]_consoleVars

-----------------------------------------------------------------------------
(* The type invariant.  The cursor is at most one column or one line behind *)
(* the last.  '\t' takes it to column 252 or more, but only a handler prints*)
(* one, and its line feed follows with interrupts off.                      *)
ConsoleTypeOK ==
  /\ cursor \in [x : 0..Width, y : 0..Height]
  /\ current \in Threads
  /\ \A t \in Threads : thread[t].reg \in 0..255
  /\ kbd \in [Flags -> BOOLEAN]
  /\ held \subseteq Modifiers
  /\ lamp \in BOOLEAN

(* Although every print races with every other one over the cursor, it is   *)
(* on the screen whenever no thread is inside show_char(): a lost scroll()  *)
(* or a wrong column would leave later output invisible for good.           *)
CursorOnScreen ==
  (\A t \in Threads : thread[t].pc = "next") => OnScreen(cursor)

(* A letter is going to come out in the case of the shift and caps lock     *)
(* keys at the moment it was pressed, with prefixes, arrows, both shifts    *)
(* and codes that wait in between.                                          *)
LettersRight ==
  port # <<>> /\ Head(port).wanted # "NIL" =>
    getchar(flags(kbd, Head(port).code), Head(port).code) = Head(port).wanted

(* The digits of n, read as a number in the base, are n again, with no      *)
(* leading zero.                                                            *)
Exact(n, base) ==
  LET d == put_int(n, base)
  IN  Value(d, base) = n /\ (Len(d) > 1 => d[1] # 0)

=============================================================================
