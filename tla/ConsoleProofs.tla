---------------------------- MODULE ConsoleProofs ----------------------------
(***************************************************************************)
(* Proofs about module Console, for any screen, any number of threads and  *)
(* any keys and codes that wait: however the threads and handlers that     *)
(* print race for the cursor, it is on the screen whenever nobody is       *)
(* inside show_char(), and a letter comes out in the case in which it was  *)
(* typed.                                                                  *)
(*                                                                         *)
(* The cursor: a switch prints a line, so the thread that goes on finds    *)
(* the cursor on the screen wherever it was interrupted; only the running  *)
(* thread can have moved it off, and it is then about to bring it back.    *)
(* The keys: the codes that wait lead from the flags of the driver to the  *)
(* state of the keys, one code at a time.                                  *)
(*                                                                         *)
(* put_int() prints the number it was given.  After k turns of the loop    *)
(* that swaps, the first and the last k digits have changed places; and    *)
(* the value of the first k digits is what the division had left when it   *)
(* came to them.                                                           *)
(***************************************************************************)
EXTENDS Console, SequenceTheorems, WellFoundedInduction, NaturalsInduction, TLAPS

(* Induction on a set of numbers. *)
LEMMA SetInduction ==
  ASSUME NEW S, 0 \in S, \A n \in Nat : n \in S => n + 1 \in S
  PROVE  Nat \subseteq S
<1> DEFINE U == Nat \ S
           R == OpToRel(<, Nat)
<1>. SUFFICES ASSUME U # {}  PROVE FALSE
  OBVIOUS
<1>1. IsWellFoundedOn(R, Nat)
  BY NatLessThanWellFounded, Zenon
<1>2. \A x, y \in Nat : <<y, x>> \in R <=> y < x
  BY DEF OpToRel
<1> HIDE DEF R
<1>3. PICK x \in U : \A y \in U : ~(<<y, x>> \in R)
  BY <1>1, WFMin
<1>4. x \in Nat /\ x # 0 /\ x - 1 \in Nat
  BY <1>3
<1>5. x - 1 \in S
  <2>1. x - 1 < x
    BY <1>4
  <2>2. <<x - 1, x>> \in R
    BY <1>2, <1>4, <2>1
  <2>. QED  BY <1>3, <1>4, <2>2
<1>6. x - 1 + 1 \in S
  BY <1>4, <1>5
<1>. QED  BY <1>3, <1>4, <1>6

-----------------------------------------------------------------------------
(* The string of put_raw_string(), one character after the other.           *)
Folds(c, s, D, g) ==
  g = [t \in SUBSET D |-> IF t = {} THEN c ELSE show_char(g[t \ {Max(t)}], s[Max(t)])]

Fold(c, s) == CHOOSE g : Folds(c, s, DOMAIN s, g)

LEMMA FoldIs == \A c, s : put_raw_string(c, s) = Fold(c, s)[DOMAIN s]
  BY DEF put_raw_string, FoldLeft, MapThenFoldSet, Fold, Folds

LEMMA MaxIs ==
  ASSUME NEW n \in Nat, NEW t \in SUBSET (1..n), n \in t
  PROVE  Max(t) = n
<1>1. \A y \in t : y \in Nat /\ n >= y
  OBVIOUS
<1>2. \E x \in t : \A y \in t : x >= y
  BY <1>1
<1>3. Max(t) \in t /\ \A y \in t : Max(t) >= y
  BY <1>2 DEF Max
<1>4. Max(t) \in Nat /\ n >= Max(t) /\ Max(t) >= n
  BY <1>1, <1>3
<1>. QED  BY <1>4

LEMMA FoldExists ==
  ASSUME NEW c, NEW s
  PROVE  \A n \in Nat : \E g : Folds(c, s, 1..n, g)
<1> DEFINE S == {n \in Nat : \E g : Folds(c, s, 1..n, g)}
<1>1. 0 \in S
  <2> DEFINE g == [t \in SUBSET (1..0) |-> c]
  <2>1. \A t \in SUBSET (1..0) : t = {}
    OBVIOUS
  <2>2. Folds(c, s, 1..0, g)
    BY <2>1 DEF Folds
  <2>. QED  BY <2>2
<1>2. ASSUME NEW n \in Nat, n \in S  PROVE n + 1 \in S
  <2>1. PICK g : Folds(c, s, 1..n, g)
    BY <1>2
  <2> DEFINE h == [t \in SUBSET (1..(n + 1)) |->
                     IF n + 1 \in t THEN show_char(g[t \ {n + 1}], s[n + 1]) ELSE g[t]]
             e(f, t) == IF t = {} THEN c ELSE show_char(f[t \ {Max(t)}], s[Max(t)])
  <2>2. \A t \in SUBSET (1..(n + 1)) : n + 1 \notin t => t \in SUBSET (1..n)
    BY <1>2
  <2>3. \A t \in SUBSET (1..n) : t \in SUBSET (1..(n + 1)) /\ n + 1 \notin t
    BY <1>2
  <2>4. ASSUME NEW t \in SUBSET (1..(n + 1))  PROVE h[t] = e(h, t)
    <3>1. CASE n + 1 \in t
      <4>1. Max(t) = n + 1
        BY <1>2, <2>4, <3>1, MaxIs
      <4>2. t \ {n + 1} \in SUBSET (1..(n + 1)) /\ n + 1 \notin t \ {n + 1}
        BY <2>4
      <4>3. h[t \ {n + 1}] = g[t \ {n + 1}]
        BY <4>2
      <4>4. h[t] = show_char(g[t \ {n + 1}], s[n + 1])
        BY <2>4, <3>1
      <4>. QED  BY <3>1, <4>1, <4>3, <4>4
    <3>2. CASE n + 1 \notin t
      <4>1. t \in SUBSET (1..n)
        BY <2>2, <3>2
      <4>2. h[t] = g[t]
        BY <2>4, <3>2
      <4>3. g[t] = e(g, t)
        BY <2>1, <4>1 DEF Folds
      <4>4. h[t \ {Max(t)}] = g[t \ {Max(t)}]
        BY <2>3, <4>1
      <4>. QED  BY <4>2, <4>3, <4>4
    <3>. QED  BY <3>1, <3>2
  <2>5. h = [t \in SUBSET (1..(n + 1)) |-> h[t]]
    OBVIOUS
  <2> HIDE DEF h
  <2>6. h = [t \in SUBSET (1..(n + 1)) |-> e(h, t)]
    BY <2>4, <2>5
  <2>7. Folds(c, s, 1..(n + 1), h)
    BY <2>6 DEF Folds
  <2>. QED  BY <1>2, <2>7
<1> HIDE DEF S
<1>3. Nat \subseteq S
  BY <1>1, <1>2, SetInduction
<1>. QED  BY <1>3 DEF S

(* put_raw_string() shows one character after the other. *)
Shows(f, c, s, n) ==
  /\ f[0] = c
  /\ \A k \in 1..n : f[k] = show_char(f[k - 1], s[k])

LEMMA ShowsString ==
  ASSUME NEW c, NEW s, NEW n \in Nat, DOMAIN s = 1..n
  PROVE  \E f : Shows(f, c, s, n) /\ put_raw_string(c, s) = f[n]
<1> DEFINE g == Fold(c, s)
           f == [k \in 0..n |-> g[1..k]]
<1>1. Folds(c, s, 1..n, g)
  <2>1. \E h : Folds(c, s, 1..n, h)
    BY FoldExists
  <2>. QED  BY <2>1 DEF Fold
<1>2. put_raw_string(c, s) = f[n]
  BY FoldIs
<1> HIDE DEF g
<1>3. f[0] = c
  <2>1. 1..0 = {}
    OBVIOUS
  <2>2. f[0] = g[{}]
    BY <2>1
  <2>3. g[{}] = c
    BY <1>1 DEF Folds
  <2>. QED  BY <2>2, <2>3
<1>4. ASSUME NEW k \in 1..n  PROVE f[k] = show_char(f[k - 1], s[k])
  <2>1. k \in Nat /\ 1..k \in SUBSET (1..n) /\ k \in 1..k /\ 1..k # {}
    BY <1>4
  <2>2. Max(1..k) = k
    BY <2>1, MaxIs
  <2>3. (1..k) \ {k} = 1..(k - 1) /\ k - 1 \in 0..n /\ k \in 0..n
    BY <1>4
  <2>4. g[1..k] = show_char(g[(1..k) \ {Max(1..k)}], s[Max(1..k)])
    BY <1>1, <2>1 DEF Folds
  <2>. QED  BY <2>2, <2>3, <2>4
<1>. QED  BY <1>2, <1>3, <1>4 DEF Shows

-----------------------------------------------------------------------------
(* Where show_char() takes the cursor: '\t' goes far to the right, and only *)
(* a line feed is sure to come back.                                        *)
Near == [x : 0..255, y : 0..Height]

LEMMA NewLineBack ==
  ASSUME NEW c \in Near
  PROVE  /\ NewLine(c) \in Near
         /\ NewLine(c) = Cursor(0, NewLine(c).y) /\ NewLine(c).y \in 0..(Height - 1)
<1>1. c.y \in 0..Height /\ Height \in 1..254
  BY ScreenAssumption DEF Near
<1>2. u8(c.y + 1) = c.y + 1
  BY <1>1 DEF u8
<1>3. scroll(c.y + 1) \in 0..(Height - 1)
  BY <1>1 DEF scroll
<1>. QED  BY <1>1, <1>2, <1>3 DEF NewLine, Cursor, Near

LEMMA ShowNear ==
  ASSUME NEW c \in Near, NEW ch
  PROVE  show_char(c, ch) \in Near
<1>1. c.x \in 0..255 /\ c.y \in 0..Height
  BY DEF Near
<1>2. NewLine(c) \in Near
  BY NewLineBack
<1>3. 252 + (c.x % 4) \in 0..255 /\ u8(c.x + 1) \in 0..255 /\ (c.x # 0 => c.x - 1 \in 0..255)
  BY <1>1 DEF u8
<1> HIDE DEF u8
<1>. QED  BY <1>1, <1>2, <1>3 DEF show_char, Cursor, Near

(* A line that ends in a line feed leaves the cursor on the screen, in      *)
(* column 0, wherever it began.                                             *)
LEMMA LineBack ==
  ASSUME NEW c \in Near, NEW s, NEW n \in Nat \ {0}, DOMAIN s = 1..n, s[n] = "LF"
  PROVE  /\ put_raw_string(c, s).x = 0 /\ put_raw_string(c, s).y \in 0..(Height - 1)
         /\ put_raw_string(c, s) \in [x : 0..Width, y : 0..Height]
<1>1. PICK f : Shows(f, c, s, n) /\ put_raw_string(c, s) = f[n]
  BY ShowsString
<1> DEFINE S == {k \in Nat : k <= n => f[k] \in Near}
<1>2. 0 \in S
  BY <1>1 DEF Shows
<1>3. ASSUME NEW k \in Nat, k \in S  PROVE k + 1 \in S
  <2>1. CASE k + 1 <= n
    <3>1. f[k] \in Near
      BY <1>3, <2>1
    <3>2. k + 1 \in 1..n /\ (k + 1) - 1 = k
      BY <1>3, <2>1
    <3>3. f[k + 1] = show_char(f[k], s[k + 1])
      BY <1>1, <3>2 DEF Shows
    <3>. QED  BY <3>1, <3>3, ShowNear
  <2>2. CASE ~(k + 1 <= n)
    BY <2>2
  <2>. QED  BY <2>1, <2>2
<1> HIDE DEF S
<1>4. Nat \subseteq S
  BY <1>2, <1>3, SetInduction
<1>5. n - 1 \in Nat /\ n \in 1..n /\ n - 1 <= n
  OBVIOUS
<1>6. f[n - 1] \in Near
  BY <1>4, <1>5 DEF S
<1>7. f[n] = NewLine(f[n - 1])
  <2>1. f[n] = show_char(f[n - 1], "LF")
    BY <1>1, <1>5 DEF Shows
  <2>. QED  BY <2>1 DEF show_char
<1>8. f[n] = Cursor(0, f[n].y) /\ f[n].y \in 0..(Height - 1)
  BY <1>6, <1>7, NewLineBack
<1>9. f[n].x = 0 /\ Width \in 1..252 /\ Height \in 1..254
  BY <1>8, ScreenAssumption DEF Cursor
<1>10. f[n] \in [x : 0..Width, y : 0..Height]
  <2>1. 0 \in 0..Width /\ f[n].y \in 0..Height
    BY <1>8, <1>9
  <2>. QED  BY <1>8, <2>1 DEF Cursor
<1>. QED  BY <1>1, <1>8, <1>9, <1>10

-----------------------------------------------------------------------------
Labels == {"next", "storex", "testx", "zerox", "loady", "storey", "scroll", "lasty"}

(* Every thread is a record; what it is about to store is at most one       *)
(* behind the last column or line.                                          *)
ThreadShape(r) ==
  /\ r = [todo |-> r.todo, pc |-> r.pc, reg |-> r.reg]
  /\ r.pc \in Labels
  /\ r.reg \in 0..255
  /\ r.pc = "storex" => r.reg <= Width
  /\ r.pc = "storey" => r.reg <= Height

ThreadsOK ==
  /\ thread = [t \in Threads |-> thread[t]]
  /\ \A t \in Threads : ThreadShape(thread[t])

(* The cursor is off the screen only when the running thread has put it     *)
(* there and is about to bring it back.                                     *)
Returning(c, r) ==
  /\ c.x = Width => (r.pc = "testx" /\ r.reg = Width) \/ r.pc = "zerox"
  /\ c.y = Height => (r.pc = "scroll" /\ r.reg = Height) \/ r.pc = "lasty"

CursorInv ==
  /\ cursor \in [x : 0..Width, y : 0..Height]
  /\ current \in Threads
  /\ ThreadsOK
  /\ Returning(cursor, thread[current])

(* The codes that wait, and the flags before and after each of them: they   *)
(* lead from the flags the driver has to the keys that are down and the     *)
(* lamp, and each letter is right under the flags it will find.             *)
CodeType == [key : Keys \cup {"ctrl", "double"}, dir : {"down", "up"}]
PortType == [code : CodeType, wanted : {"A", "a", "NIL"}]
FlagType == [Flags -> BOOLEAN]

Agrees(K, h, l) ==
  /\ K["lf_shift"] = ("lf_shift" \in h)
  /\ K["rt_shift"] = ("rt_shift" \in h)
  /\ K["capslock"] = l

LetterRight(K, e) == e.wanted # "NIL" => getchar(K, e.code) = e.wanted

Leads(f, K, q, h, l) ==
  /\ f[0] = K
  /\ \A i \in 1..Len(q) : f[i] = flags(f[i - 1], q[i].code) /\ LetterRight(f[i], q[i])
  /\ Agrees(f[Len(q)], h, l)

KeysInv ==
  /\ kbd \in FlagType
  /\ port \in Seq(PortType)
  /\ held \subseteq Modifiers
  /\ lamp \in BOOLEAN
  /\ \E f \in [Nat -> FlagType] : Leads(f, kbd, port, held, lamp)

ConsoleIInv == CursorInv /\ KeysInv

-----------------------------------------------------------------------------
(* The cursor.  A thread goes on in show_char(). *)
LEMMA GotoKeeps ==
  ASSUME ThreadsOK, current \in Threads, NEW p \in Labels, NEW v \in 0..255, Goto(p, v),
         p = "storex" => v <= Width, p = "storey" => v <= Height
  PROVE  /\ ThreadsOK'
         /\ thread'[current].pc = p
         /\ thread'[current].reg = (IF p = "next" THEN 0 ELSE v)
<1> DEFINE r == [todo |-> IF p = "next" THEN Tail(T.todo) ELSE T.todo, pc |-> p,
                 reg |-> IF p = "next" THEN 0 ELSE v]
<1>1. thread' = [thread EXCEPT ![current] = r]
  BY DEF Goto
<1>2. r.pc = p /\ r.reg = (IF p = "next" THEN 0 ELSE v)
      /\ r = [todo |-> r.todo, pc |-> r.pc, reg |-> r.reg]
  OBVIOUS
<1>3. ThreadShape(r)
  <2>1. (IF p = "next" THEN 0 ELSE v) \in 0..255
    OBVIOUS
  <2>. QED  BY <1>2, <2>1 DEF ThreadShape
<1> HIDE DEF r
<1>4. DOMAIN thread = Threads
  BY DEF ThreadsOK
<1>5. thread'[current] = r
  BY <1>1, <1>4
<1>6. \A t \in Threads : t # current => thread'[t] = thread[t]
  BY <1>1, <1>4
<1>7. thread' = [t \in Threads |-> thread'[t]]
  BY <1>1, <1>4
<1>8. \A t \in Threads : ThreadShape(thread'[t])
  BY <1>3, <1>5, <1>6 DEF ThreadsOK
<1>. QED  BY <1>2, <1>5, <1>7, <1>8 DEF ThreadsOK

(* What the invariant says of the running thread. *)
LEMMA RunningFacts ==
  ASSUME CursorInv
  PROVE  /\ cursor = Cursor(cursor.x, cursor.y)
         /\ cursor.x \in 0..Width /\ cursor.y \in 0..Height
         /\ Width \in 1..252 /\ Height \in 1..254
         /\ T.pc \in Labels /\ T.reg \in 0..255
         /\ T.pc = "storex" => T.reg <= Width
         /\ T.pc = "storey" => T.reg <= Height
         /\ cursor.x = Width => (T.pc = "testx" /\ T.reg = Width) \/ T.pc = "zerox"
         /\ cursor.y = Height => (T.pc = "scroll" /\ T.reg = Height) \/ T.pc = "lasty"
<1>1. ThreadShape(T) /\ Returning(cursor, T) /\ cursor \in [x : 0..Width, y : 0..Height]
  BY DEF CursorInv, ThreadsOK, T
<1>. QED  BY <1>1, ScreenAssumption DEF ThreadShape, Returning, Cursor

(* The step of a thread that leaves cursor at (x, y) and goes on at p. *)
GoodStep(x, y, p, v) ==
  /\ x \in 0..Width /\ y \in 0..Height /\ p \in Labels /\ v \in 0..255
  /\ p = "storex" => v <= Width
  /\ p = "storey" => v <= Height
  /\ x = Width => (p = "testx" /\ v = Width) \/ p = "zerox"
  /\ y = Height => (p = "scroll" /\ v = Height) \/ p = "lasty"

LEMMA StepKeeps ==
  ASSUME CursorInv, NEW x, NEW y, NEW p, NEW v, GoodStep(x, y, p, v),
         cursor' = Cursor(x, y), current' = current, Goto(p, v)
  PROVE  CursorInv'
<1>. USE DEF GoodStep
<1>1. ThreadsOK /\ current \in Threads
  BY DEF CursorInv
<1>2. /\ ThreadsOK'
      /\ thread'[current].pc = p
      /\ thread'[current].reg = (IF p = "next" THEN 0 ELSE v)
  BY <1>1, GotoKeeps
<1>3. cursor'.x = x /\ cursor'.y = y /\ cursor' \in [x : 0..Width, y : 0..Height]
  BY DEF Cursor
<1>4. Returning(cursor', thread'[current])
  BY <1>2, <1>3 DEF Returning
<1>. QED  BY <1>1, <1>2, <1>3, <1>4 DEF CursorInv

LEMMA ShowCharKeeps ==
  ASSUME CursorInv, ShowChar
  PROVE  CursorInv'
<1> DEFINE X == cursor.x
           Y == cursor.y
<1>0. current' = current
  BY DEF ShowChar
<1>1. CASE LoadX
  <2>1. T.pc = "next" /\ Goto("storex", u8(X + 1)) /\ cursor' = cursor
    BY <1>1 DEF LoadX, At
  <2>2. X < Width /\ Y < Height
    BY <2>1, RunningFacts
  <2>3. u8(X + 1) = X + 1
    BY <2>2, RunningFacts DEF u8
  <2>8. GoodStep(X, Y, "storex", X + 1)
    BY <2>1, <2>2, <2>3, RunningFacts DEF GoodStep, Labels
  <2>9. cursor' = Cursor(X, Y) /\ Goto("storex", X + 1)
    BY <2>1, <2>2, <2>3, RunningFacts
  <2>. QED  BY <1>0, <2>8, <2>9, StepKeeps
<1>2. CASE StoreX
  <2>1. T.pc = "storex" /\ Goto("testx", T.reg) /\ cursor' = Cursor(T.reg, Y)
    BY <1>2, RunningFacts DEF StoreX, At, Cursor
  <2>2. Y < Height /\ T.reg \in 0..Width
    BY <2>1, RunningFacts
  <2>8. GoodStep(T.reg, Y, "testx", T.reg)
    BY <2>1, <2>2, RunningFacts DEF GoodStep, Labels
  <2>9. cursor' = Cursor(T.reg, Y) /\ Goto("testx", T.reg)
    BY <2>1, <2>2, RunningFacts
  <2>. QED  BY <1>0, <2>8, <2>9, StepKeeps
<1>3. CASE TestX
  <2>1. T.pc = "testx" /\ cursor' = cursor
    BY <1>3 DEF TestX, At
  <2>2. PICK v \in {T.reg, X} : Goto(IF v >= Width THEN "zerox" ELSE "next", 0)
    BY <1>3 DEF TestX, Tested
  <2>3. Y < Height /\ (X = Width => T.reg = Width)
    BY <2>1, RunningFacts
  <2>4. CASE v >= Width
    <3>1. Goto("zerox", 0)
      BY <2>2, <2>4
    <3>8. GoodStep(X, Y, "zerox", 0)
      BY <2>1, <2>3, <3>1, RunningFacts DEF GoodStep, Labels
    <3>9. cursor' = Cursor(X, Y) /\ Goto("zerox", 0)
      BY <2>1, <2>3, <3>1, RunningFacts
    <3>. QED  BY <1>0, <3>8, <3>9, StepKeeps
  <2>5. CASE ~(v >= Width)
    <3>1. Goto("next", 0)
      BY <2>2, <2>5
    <3>2. X < Width
      BY <2>2, <2>3, <2>5, RunningFacts
    <3>8. GoodStep(X, Y, "next", 0)
      BY <2>1, <2>3, <3>1, <3>2, RunningFacts DEF GoodStep, Labels
    <3>9. cursor' = Cursor(X, Y) /\ Goto("next", 0)
      BY <2>1, <2>3, <3>1, <3>2, RunningFacts
    <3>. QED  BY <1>0, <3>8, <3>9, StepKeeps
  <2>. QED  BY <2>4, <2>5
<1>4. CASE ZeroX
  <2>1. T.pc \in {"zerox", "next"} /\ Goto("loady", 0) /\ cursor' = Cursor(0, Y)
    BY <1>4, RunningFacts DEF ZeroX, At, Cursor
  <2>2. Y < Height /\ 0 \in 0..Width /\ 0 # Width
    BY <2>1, RunningFacts
  <2>8. GoodStep(0, Y, "loady", 0)
    BY <2>1, <2>2, RunningFacts DEF GoodStep, Labels
  <2>9. cursor' = Cursor(0, Y) /\ Goto("loady", 0)
    BY <2>1, <2>2, RunningFacts
  <2>. QED  BY <1>0, <2>8, <2>9, StepKeeps
<1>5. CASE LoadY
  <2>1. T.pc = "loady" /\ Goto("storey", u8(Y + 1)) /\ cursor' = cursor
    BY <1>5 DEF LoadY, At
  <2>2. X < Width /\ Y < Height
    BY <2>1, RunningFacts
  <2>3. u8(Y + 1) = Y + 1
    BY <2>2, RunningFacts DEF u8
  <2>8. GoodStep(X, Y, "storey", Y + 1)
    BY <2>1, <2>2, <2>3, RunningFacts DEF GoodStep, Labels
  <2>9. cursor' = Cursor(X, Y) /\ Goto("storey", Y + 1)
    BY <2>1, <2>2, <2>3, RunningFacts
  <2>. QED  BY <1>0, <2>8, <2>9, StepKeeps
<1>6. CASE StoreY
  <2>1. T.pc = "storey" /\ Goto("scroll", T.reg) /\ cursor' = Cursor(X, T.reg)
    BY <1>6, RunningFacts DEF StoreY, At, Cursor
  <2>2. X < Width /\ T.reg \in 0..Height
    BY <2>1, RunningFacts
  <2>8. GoodStep(X, T.reg, "scroll", T.reg)
    BY <2>1, <2>2, RunningFacts DEF GoodStep, Labels
  <2>9. cursor' = Cursor(X, T.reg) /\ Goto("scroll", T.reg)
    BY <2>1, <2>2, RunningFacts
  <2>. QED  BY <1>0, <2>8, <2>9, StepKeeps
<1>7. CASE ScrollTest
  <2>1. T.pc = "scroll" /\ cursor' = cursor
    BY <1>7 DEF ScrollTest, At
  <2>2. PICK v \in {T.reg, Y} : Goto(IF v < Height THEN "next" ELSE "lasty", 0)
    BY <1>7 DEF ScrollTest, Tested
  <2>3. X < Width /\ (Y = Height => T.reg = Height)
    BY <2>1, RunningFacts
  <2>4. CASE v < Height
    <3>1. Goto("next", 0)
      BY <2>2, <2>4
    <3>2. Y < Height
      BY <2>2, <2>3, <2>4, RunningFacts
    <3>8. GoodStep(X, Y, "next", 0)
      BY <2>1, <2>3, <3>1, <3>2, RunningFacts DEF GoodStep, Labels
    <3>9. cursor' = Cursor(X, Y) /\ Goto("next", 0)
      BY <2>1, <2>3, <3>1, <3>2, RunningFacts
    <3>. QED  BY <1>0, <3>8, <3>9, StepKeeps
  <2>5. CASE ~(v < Height)
    <3>1. Goto("lasty", 0)
      BY <2>2, <2>5
    <3>8. GoodStep(X, Y, "lasty", 0)
      BY <2>1, <2>3, <3>1, RunningFacts DEF GoodStep, Labels
    <3>9. cursor' = Cursor(X, Y) /\ Goto("lasty", 0)
      BY <2>1, <2>3, <3>1, RunningFacts
    <3>. QED  BY <1>0, <3>8, <3>9, StepKeeps
  <2>. QED  BY <2>4, <2>5
<1>8. CASE ScrollLast
  <2>1. T.pc = "lasty" /\ Goto("next", 0) /\ cursor' = Cursor(X, Height - 1)
    BY <1>8, RunningFacts DEF ScrollLast, At, Cursor
  <2>2. X < Width /\ Height - 1 \in 0..Height /\ Height - 1 # Height
    BY <2>1, RunningFacts
  <2>8. GoodStep(X, Height - 1, "next", 0)
    BY <2>1, <2>2, RunningFacts DEF GoodStep, Labels
  <2>9. cursor' = Cursor(X, Height - 1) /\ Goto("next", 0)
    BY <2>1, <2>2, RunningFacts
  <2>. QED  BY <1>0, <2>8, <2>9, StepKeeps
<1>. QED  BY <1>1, <1>2, <1>3, <1>4, <1>5, <1>6, <1>7, <1>8 DEF ShowChar

(* A thread begins to print: only its text changes. *)
LEMMA PrintfKeeps ==
  ASSUME CursorInv, NEW n, NEW base, printf(n, base)
  PROVE  CursorInv'
<1>1. current \in Threads /\ ThreadsOK /\ DOMAIN thread = Threads
  BY DEF CursorInv, ThreadsOK
<1> DEFINE text == (IF base = 16 THEN <<"0", "x">> ELSE <<>>)
                     \o [i \in 1..Len(put_int(n, base)) |-> "digit"] \o <<"LF">>
<1>2. thread' = [thread EXCEPT ![current].todo = text]
  BY DEF printf
<1>3. UNCHANGED <<cursor, current>>
  BY DEF printf
<1> HIDE DEF text
<1> DEFINE r == [T EXCEPT !.todo = text]
<1>4. T = [todo |-> T.todo, pc |-> T.pc, reg |-> T.reg] /\ ThreadShape(T)
  BY <1>1 DEF T, ThreadsOK, ThreadShape
<1>5. r = [todo |-> text, pc |-> T.pc, reg |-> T.reg]
  BY <1>4
<1>6. r.pc = T.pc /\ r.reg = T.reg /\ r.todo = text
  BY <1>5
<1>7. ThreadShape(r)
  BY <1>4, <1>5, <1>6 DEF ThreadShape
<1>8. thread' = [thread EXCEPT ![current] = r]
  BY <1>2 DEF T
<1> HIDE DEF r
<1>9. thread'[current] = r /\ (\A t \in Threads : t # current => thread'[t] = thread[t])
      /\ thread' = [t \in Threads |-> thread'[t]]
  BY <1>1, <1>8
<1>10. ThreadsOK'
  BY <1>1, <1>7, <1>9 DEF ThreadsOK
<1>11. Returning(cursor, r)
  BY <1>6 DEF CursorInv, Returning, T
<1>. QED  BY <1>3, <1>9, <1>10, <1>11 DEF CursorInv

LEMMA CursorNear == CursorInv => cursor \in Near
<1>. SUFFICES ASSUME CursorInv  PROVE cursor \in Near
  OBVIOUS
<1>1. cursor \in [x : 0..Width, y : 0..Height]
  BY DEF CursorInv
<1>2. 0..Width \subseteq 0..255
  BY ScreenAssumption
<1>. QED  BY <1>1, <1>2 DEF Near

(* The handlers print a line, which brings the cursor back wherever the     *)
(* thread that they interrupt has left it.                                  *)
LEMMA HandlerKeeps ==
  ASSUME CursorInv, NEW s, NEW n \in Nat \ {0}, DOMAIN s = 1..n, s[n] = "LF",
         cursor' = put_raw_string(cursor, s), UNCHANGED thread, current' \in Threads
  PROVE  CursorInv'
<1>1. cursor \in Near
  BY CursorNear
<1>2. cursor'.x = 0 /\ cursor'.y \in 0..(Height - 1) /\ cursor' \in [x : 0..Width, y : 0..Height]
  BY <1>1, LineBack
<1>3. cursor'.x # Width /\ cursor'.y # Height
  BY <1>2, ScreenAssumption
<1>4. ThreadsOK'
  BY DEF CursorInv, ThreadsOK
<1>. QED  BY <1>2, <1>3, <1>4 DEF CursorInv, Returning

LEMMA TextIs == Text \in Seq({"text"}) /\ Len(Text) = TextLen /\ TextLen \in Nat
  BY ConsoleAssumption DEF Text

LEMMA SwitchKeeps ==
  ASSUME CursorInv, NEW t \in Threads, Switch(t)
  PROVE  CursorInv'
<1> DEFINE s == Append(Text, "LF")
           n == TextLen + 1
<1>1. n \in Nat \ {0} /\ DOMAIN s = 1..n /\ s[n] = "LF"
  BY TextIs
<1>2. cursor' = put_raw_string(cursor, s) /\ UNCHANGED thread /\ current' \in Threads
  BY DEF Switch
<1> HIDE DEF s, n
<1>. QED  BY <1>1, <1>2, HandlerKeeps

LEMMA KbdHandlerKeeps ==
  ASSUME CursorInv, kbd_handler
  PROVE  CursorInv'
<1> DEFINE ch == getchar(kbd', Head(port).code)
           s == Text \o <<ch, "LF">>
           n == TextLen + 2
<1>1. cursor' = put_raw_string(cursor, s) /\ UNCHANGED thread /\ current' \in Threads
  BY DEF kbd_handler, CursorInv
<1> HIDE DEF ch
<1>2. n \in Nat \ {0} /\ DOMAIN s = 1..n /\ s[n] = "LF"
  <2>1. Text \in Seq({"text", ch, "LF"}) /\ <<ch, "LF">> \in Seq({"text", ch, "LF"})
    BY TextIs
  <2>2. Len(<<ch, "LF">>) = 2 /\ <<ch, "LF">>[2] = "LF"
    OBVIOUS
  <2>. QED  BY <2>1, <2>2, TextIs
<1> HIDE DEF s, n
<1>. QED  BY <1>1, <1>2, HandlerKeeps

LEMMA CursorStep ==
  ASSUME CursorInv, [ConsoleNext]_consoleVars
  PROVE  CursorInv'
<1>1. CASE \E n \in Printed, base \in {10, 16} : printf(n, base)
  BY <1>1, PrintfKeeps
<1>2. CASE ShowChar
  BY <1>2, ShowCharKeeps
<1>3. CASE \E t \in Threads : Switch(t)
  BY <1>3, SwitchKeeps
<1>4. CASE kbd_handler
  BY <1>4, KbdHandlerKeeps
<1>5. CASE UNCHANGED <<cursor, current, thread>>
  BY <1>5 DEF CursorInv, ThreadsOK
<1>6. CASE \E key \in UsedKeys, dir \in {"down", "up"} : Key(key, dir)
  BY <1>5, <1>6 DEF Key
<1>7. CASE UNCHANGED consoleVars
  BY <1>5, <1>7 DEF consoleVars
<1>. QED  BY <1>1, <1>2, <1>3, <1>4, <1>6, <1>7 DEF ConsoleNext

LEMMA CursorStart ==
  ASSUME ConsoleInit
  PROVE  CursorInv
<1>1. cursor = Cursor(0, 0) /\ current \in Threads
      /\ thread = [t \in Threads |-> [todo |-> <<>>, pc |-> "next", reg |-> 0]]
  BY DEF ConsoleInit
<1>2. cursor.x = 0 /\ cursor.y = 0 /\ cursor.x # Width /\ cursor.y # Height
      /\ cursor \in [x : 0..Width, y : 0..Height]
  BY <1>1, ScreenAssumption DEF Cursor
<1>3. \A t \in Threads : ThreadShape(thread[t])
  BY <1>1 DEF ThreadShape, Labels
<1>4. thread = [t \in Threads |-> thread[t]]
  BY <1>1
<1>. QED  BY <1>1, <1>2, <1>3, <1>4 DEF CursorInv, ThreadsOK, Returning

-----------------------------------------------------------------------------
(* The keys.  What a code does to the flags. *)
LEMMA FlagsTyped ==
  ASSUME NEW K \in FlagType, NEW c \in CodeType
  PROVE  flags(K, c) \in FlagType
  BY DEF flags, FlagType, Flags, CodeType, Shifts

(* The flags that matter for letters. *)
Same(K, L) ==
  K["lf_shift"] = L["lf_shift"] /\ K["rt_shift"] = L["rt_shift"] /\ K["capslock"] = L["capslock"]

LEMMA OtherCodes ==
  ASSUME NEW K \in FlagType, NEW c \in CodeType,
         c.key \notin Shifts, c # Code("caps_lock", "down")
  PROVE  Same(flags(K, c), K)
<1> DEFINE side == IF K["double_key_on"] THEN "rt_ctrl" ELSE "lf_ctrl"
<1>1. side \in {"rt_ctrl", "lf_ctrl"}
  OBVIOUS
<1>2. flags(K, c) \in {K, [K EXCEPT ![side] = TRUE], [K EXCEPT !["double_key_on"] = TRUE],
                       [K EXCEPT ![side] = FALSE, !["double_key_on"] = FALSE]}
  BY DEF flags
<1> HIDE DEF side
<1>3. DOMAIN K = Flags
  BY DEF FlagType
<1>. QED  BY <1>1, <1>2, <1>3 DEF Same, Flags

LEMMA ShiftCodes ==
  ASSUME NEW K \in FlagType, NEW c \in CodeType, c.key \in Shifts
  PROVE  flags(K, c) = [K EXCEPT ![c.key] = (c.dir = "down")]
<1>1. /\ c # Code("lf_ctrl", "down") /\ c # Code("lf_ctrl", "up") /\ c # DOUBLE_KEY
      /\ c # Code("caps_lock", "down")
  BY DEF Code, Shifts, Ctrls, DOUBLE_KEY
<1>. QED  BY <1>1 DEF flags

LEMMA CapsCode ==
  ASSUME NEW K \in FlagType
  PROVE  flags(K, Code("caps_lock", "down")) = [K EXCEPT !["capslock"] = ~@]
<1> DEFINE c == Code("caps_lock", "down")
<1>1. /\ c.key \notin Shifts
      /\ c # Code("lf_ctrl", "down") /\ c # Code("lf_ctrl", "up") /\ c # DOUBLE_KEY
  BY DEF Code, Shifts, Ctrls, DOUBLE_KEY
<1>. QED  BY <1>1 DEF flags

(* What Key() makes of the keys that are down and of the lamp, and the      *)
(* character it expects.                                                    *)
NewHeld(h, key, dir) ==
  IF key \notin Modifiers THEN h ELSE IF dir = "down" THEN h \cup {key} ELSE h \ {key}
NewLamp(l, key, dir) == (l # (key = "caps_lock" /\ dir = "down"))
Wanted(h, l, key, dir) ==
  IF key = "letter" /\ dir = "down" THEN IF l # (h \cap Shifts # {}) THEN "A" ELSE "a" ELSE "NIL"

Dirs == {"down", "up"}

LEMMA CodesTyped ==
  /\ \A key \in Keys, dir \in Dirs : Code(key, dir) \in CodeType
  /\ DOUBLE_KEY \in CodeType
<1>1. \A key \in Keys, dir \in Dirs : Code(key, dir) \in CodeType
  BY DEF Code, CodeType, Dirs
<1>2. DOUBLE_KEY \in CodeType
  BY DEF DOUBLE_KEY, Code, CodeType, Ctrls
<1>. QED  BY <1>1, <1>2

LEMMA KeyAgrees ==
  ASSUME NEW K \in FlagType, NEW h \in SUBSET Modifiers, NEW l \in BOOLEAN,
         NEW key \in Keys, NEW dir \in Dirs, Agrees(K, h, l)
  PROVE  Agrees(flags(K, Code(key, dir)), NewHeld(h, key, dir), NewLamp(l, key, dir))
<1> DEFINE c == Code(key, dir)
           L == flags(K, c)
           nh == NewHeld(h, key, dir)
           nl == NewLamp(l, key, dir)
<1>1. c \in CodeType
  BY CodesTyped
<1>2. DOMAIN K = Flags
  BY DEF FlagType
<1>3. CASE key \in Shifts
  <2>1. c.key = key /\ c.dir = dir
    BY <1>3 DEF Code, Shifts, Ctrls
  <2>2. L = [K EXCEPT ![key] = (dir = "down")]
    BY <1>1, <1>3, <2>1, ShiftCodes
  <2> HIDE DEF L
  <2>3. nl = l
    BY <1>3 DEF NewLamp, Shifts
  <2>4. nh = IF dir = "down" THEN h \cup {key} ELSE h \ {key}
    BY <1>3 DEF NewHeld, Modifiers
  <2> HIDE DEF nl, nh
  <2>5. L["capslock"] = nl
    BY <1>2, <1>3, <2>2, <2>3 DEF Agrees, Flags, Shifts
  <2>6. L["lf_shift"] = ("lf_shift" \in nh)
    BY <1>2, <1>3, <2>2, <2>4 DEF Agrees, Flags, Shifts, Dirs
  <2>7. L["rt_shift"] = ("rt_shift" \in nh)
    BY <1>2, <1>3, <2>2, <2>4 DEF Agrees, Flags, Shifts, Dirs
  <2>. QED  BY <2>5, <2>6, <2>7 DEF Agrees, L, nl, nh
<1>4. CASE key = "caps_lock" /\ dir = "down"
  <2>1. L = [K EXCEPT !["capslock"] = ~@]
    BY <1>4, CapsCode
  <2> HIDE DEF L
  <2>2. nl = ~l
    BY <1>4 DEF NewLamp
  <2>3. nh = h
    BY <1>4 DEF NewHeld, Modifiers, Shifts, Ctrls
  <2> HIDE DEF nl, nh
  <2>4. /\ L["capslock"] = ~K["capslock"]
        /\ L["lf_shift"] = K["lf_shift"] /\ L["rt_shift"] = K["rt_shift"]
    BY <1>2, <2>1 DEF Flags
  <2>. QED  BY <2>2, <2>3, <2>4 DEF Agrees, L, nl, nh
<1>5. CASE key \notin Shifts /\ ~(key = "caps_lock" /\ dir = "down")
  <2>1. c.key \notin Shifts /\ c # Code("caps_lock", "down")
    BY <1>5 DEF Code, Shifts, Ctrls
  <2>2. Same(L, K)
    BY <1>1, <2>1, OtherCodes
  <2> HIDE DEF L
  <2>3. nl = l
    BY <1>5 DEF NewLamp
  <2>4. ("lf_shift" \in nh) = ("lf_shift" \in h) /\ ("rt_shift" \in nh) = ("rt_shift" \in h)
    BY <1>5 DEF NewHeld, Shifts
  <2> HIDE DEF nl, nh
  <2>. QED  BY <2>2, <2>3, <2>4 DEF Agrees, Same, L, nl, nh
<1>. QED  BY <1>3, <1>4, <1>5

LEMMA LetterCode ==
  ASSUME NEW K \in FlagType, NEW h \in SUBSET Modifiers, NEW l \in BOOLEAN,
         NEW key \in Keys, NEW dir \in Dirs, Agrees(K, h, l)
  PROVE  LetterRight(flags(K, Code(key, dir)),
                     [code |-> Code(key, dir), wanted |-> Wanted(h, l, key, dir)])
<1> DEFINE c == Code(key, dir)
           L == flags(K, c)
<1>1. CASE key = "letter" /\ dir = "down"
  <2>1. c = [key |-> "letter", dir |-> "down"]
    BY <1>1 DEF Code, Ctrls
  <2>2. Agrees(L, NewHeld(h, key, dir), NewLamp(l, key, dir))
    BY KeyAgrees
  <2>3. NewHeld(h, key, dir) = h /\ NewLamp(l, key, dir) = l
    BY <1>1 DEF NewHeld, NewLamp, Modifiers, Shifts, Ctrls
  <2> HIDE DEF L, c
  <2>4. (L["lf_shift"] \/ L["rt_shift"]) = (h \cap Shifts # {}) /\ L["capslock"] = l
    BY <2>2, <2>3 DEF Agrees, Shifts
  <2> DEFINE sh == (L["lf_shift"] \/ L["rt_shift"])
             hs == (h \cap Shifts # {})
  <2>5. (L["capslock"] # sh) = (l # hs)
    BY <2>4
  <2>6. getchar(L, c) = IF L["capslock"] # sh THEN "A" ELSE "a"
    BY <2>1 DEF getchar, Typing, keyboard_shift, keyboard_origin
  <2>7. Wanted(h, l, key, dir) = IF l # hs THEN "A" ELSE "a"
    BY <1>1 DEF Wanted
  <2> HIDE DEF sh, hs
  <2>8. getchar(L, c) = Wanted(h, l, key, dir)
    BY <2>5, <2>6, <2>7
  <2>. QED  BY <2>8 DEF LetterRight, L, c
<1>2. CASE ~(key = "letter" /\ dir = "down")
  <2>1. Wanted(h, l, key, dir) = "NIL"
    BY <1>2 DEF Wanted
  <2>. QED  BY <2>1 DEF LetterRight
<1>. QED  BY <1>1, <1>2

(* The prefix changes nothing that matters for letters. *)
LEMMA DoubleAgrees ==
  ASSUME NEW K \in FlagType, NEW h, NEW l, Agrees(K, h, l)
  PROVE  Agrees(flags(K, DOUBLE_KEY), h, l)
<1>1. DOUBLE_KEY.key \notin Shifts /\ DOUBLE_KEY # Code("caps_lock", "down")
  BY DEF DOUBLE_KEY, Code, Shifts, Ctrls
<1>2. Same(flags(K, DOUBLE_KEY), K)
  BY <1>1, CodesTyped, OtherCodes
<1>. QED  BY <1>2 DEF Same, Agrees

-----------------------------------------------------------------------------
(* A code arrives behind those that wait. *)
Extends(g, f, K, q, e, h, l) ==
  Leads(g, K, Append(q, e), h, l) /\ g[Len(q) + 1] = flags(f[Len(q)], e.code)

LEMMA LeadsAppend ==
  ASSUME NEW f \in [Nat -> FlagType], NEW K, NEW q \in Seq(PortType), NEW h, NEW l,
         Leads(f, K, q, h, l), NEW e \in PortType, NEW h2, NEW l2,
         LetterRight(flags(f[Len(q)], e.code), e),
         Agrees(flags(f[Len(q)], e.code), h2, l2)
  PROVE  \E g \in [Nat -> FlagType] : Extends(g, f, K, q, e, h2, l2)
<1> DEFINE n == Len(q)
           F == flags(f[n], e.code)
           g == [f EXCEPT ![n + 1] = F]
           r == Append(q, e)
<1>1. n \in Nat /\ n + 1 \in Nat /\ n + 1 # 0
  OBVIOUS
<1>2. F \in FlagType
  BY <1>1, FlagsTyped DEF PortType
<1>3. Len(r) = n + 1 /\ r[n + 1] = e /\ (\A i \in 1..n : r[i] = q[i])
  OBVIOUS
<1> HIDE DEF F, r
<1>4. g \in [Nat -> FlagType] /\ g[n + 1] = F /\ (\A i \in Nat : i # n + 1 => g[i] = f[i])
  BY <1>1, <1>2
<1>5. F = flags(f[n], e.code)
  BY DEF F
<1> HIDE DEF g
<1>6. f[0] = K /\ (\A i \in 1..n : f[i] = flags(f[i - 1], q[i].code) /\ LetterRight(f[i], q[i]))
  BY DEF Leads
<1>7. ASSUME NEW i \in 1..(n + 1)
      PROVE  g[i] = flags(g[i - 1], r[i].code) /\ LetterRight(g[i], r[i])
  <2>1. CASE i = n + 1
    <3>1. i - 1 = n /\ g[i - 1] = f[n]
      BY <1>1, <1>4, <2>1
    <3>2. g[i] = F /\ r[i] = e
      BY <1>3, <1>4, <2>1
    <3>. QED  BY <1>5, <3>1, <3>2
  <2>2. CASE i # n + 1
    <3>1. i \in 1..n /\ i \in Nat /\ i - 1 \in Nat /\ i - 1 # n + 1
      BY <1>1, <1>7, <2>2
    <3>2. g[i] = f[i] /\ g[i - 1] = f[i - 1] /\ r[i] = q[i]
      BY <1>3, <1>4, <2>2, <3>1
    <3>. QED  BY <1>6, <3>1, <3>2
  <2>. QED  BY <2>1, <2>2
<1>8. g[0] = K
  BY <1>1, <1>4, <1>6
<1>9. Agrees(g[n + 1], h2, l2)
  BY <1>4, <1>5
<1>10. Leads(g, K, r, h2, l2)
  BY <1>3, <1>7, <1>8, <1>9 DEF Leads
<1>. QED  BY <1>4, <1>5, <1>10 DEF r, Extends

(* The oldest code is read. *)
LEMMA LeadsTail ==
  ASSUME NEW f \in [Nat -> FlagType], NEW K, NEW q \in Seq(PortType), NEW h, NEW l,
         Leads(f, K, q, h, l), q # <<>>
  PROVE  \E g \in [Nat -> FlagType] : Leads(g, flags(K, Head(q).code), Tail(q), h, l)
<1> DEFINE n == Len(q)
           g == [i \in Nat |-> f[i + 1]]
           r == Tail(q)
<1>1. n \in Nat /\ n # 0 /\ 1 \in 1..n /\ Head(q) = q[1]
  OBVIOUS
<1>2. Len(r) = n - 1 /\ (\A i \in 1..(n - 1) : r[i] = q[i + 1])
  OBVIOUS
<1> HIDE DEF r
<1>3. g \in [Nat -> FlagType] /\ (\A i \in Nat : g[i] = f[i + 1])
  OBVIOUS
<1> HIDE DEF g
<1>4. /\ f[0] = K /\ Agrees(f[n], h, l)
      /\ \A i \in 1..n : f[i] = flags(f[i - 1], q[i].code) /\ LetterRight(f[i], q[i])
  BY DEF Leads
<1>5. g[0] = flags(K, Head(q).code)
  <2>1. g[0] = f[1] /\ f[1] = flags(f[1 - 1], q[1].code)
    BY <1>1, <1>3, <1>4
  <2>. QED  BY <1>1, <1>4, <2>1
<1>6. ASSUME NEW i \in 1..(n - 1)
      PROVE  g[i] = flags(g[i - 1], r[i].code) /\ LetterRight(g[i], r[i])
  <2>1. i + 1 \in 1..n /\ i \in Nat /\ i - 1 \in Nat /\ (i + 1) - 1 = i /\ (i - 1) + 1 = i
    BY <1>1, <1>6
  <2>2. g[i] = f[i + 1] /\ g[i - 1] = f[i] /\ r[i] = q[i + 1]
    BY <1>2, <1>3, <1>6, <2>1
  <2>3. f[i + 1] = flags(f[i], q[i + 1].code) /\ LetterRight(f[i + 1], q[i + 1])
    BY <1>4, <2>1
  <2>. QED  BY <2>2, <2>3
<1>7. Agrees(g[n - 1], h, l)
  <2>1. n - 1 \in Nat /\ (n - 1) + 1 = n
    BY <1>1
  <2>. QED  BY <1>3, <1>4, <2>1
<1>8. Leads(g, flags(K, Head(q).code), r, h, l)
  BY <1>2, <1>5, <1>6, <1>7 DEF Leads
<1>. QED  BY <1>3, <1>8 DEF r

LEMMA KeyKeeps ==
  ASSUME KeysInv, NEW key \in UsedKeys, NEW dir \in Dirs, Key(key, dir)
  PROVE  KeysInv'
<1> DEFINE w == Wanted(held, lamp, key, dir)
           c == Code(key, dir)
           e == [code |-> c, wanted |-> w]
           d == [code |-> DOUBLE_KEY, wanted |-> w]
           nh == NewHeld(held, key, dir)
           nl == NewLamp(lamp, key, dir)
<1>1. key \in Keys
  BY ConsoleAssumption
<1>2. kbd \in FlagType /\ port \in Seq(PortType) /\ held \in SUBSET Modifiers /\ lamp \in BOOLEAN
  BY DEF KeysInv
<1>3. PICK f \in [Nat -> FlagType] : Leads(f, kbd, port, held, lamp)
  BY DEF KeysInv
<1>4. held' = nh /\ lamp' = nl /\ kbd' = kbd
  BY DEF Key, NewHeld, NewLamp
<1>5. nh \in SUBSET Modifiers /\ nl \in BOOLEAN
  BY <1>2 DEF NewHeld, NewLamp
<1>6. w \in {"A", "a", "NIL"}
  BY DEF Wanted
<1>7. port' = port \o [i \in 1..Len(Codes(key, dir)) |->
                          [code |-> Codes(key, dir)[i], wanted |-> w]]
  BY DEF Key, Wanted
<1>8. c \in CodeType /\ DOUBLE_KEY \in CodeType
  BY <1>1, CodesTyped
<1> HIDE DEF w, c, nh, nl
<1>9. e \in PortType /\ d \in PortType /\ e.code = c /\ d.code = DOUBLE_KEY /\ d.wanted = w
  BY <1>6, <1>8 DEF PortType
<1> DEFINE n == Len(port)
<1>10. n \in Nat /\ f[n] \in FlagType /\ Agrees(f[n], held, lamp)
  BY <1>2, <1>3 DEF Leads
<1>11. CASE key \notin {"rt_ctrl", "arrow"}
  <2>1. Codes(key, dir) = <<c>>
    BY <1>11 DEF Codes, c
  <2>2. port' = Append(port, e)
    BY <1>2, <1>7, <1>9, <2>1
  <2>3. LetterRight(flags(f[n], e.code), e) /\ Agrees(flags(f[n], e.code), nh, nl)
    BY <1>1, <1>2, <1>9, <1>10, LetterCode, KeyAgrees DEF c, w, nh, nl
  <2> HIDE DEF e
  <2>4. \E g \in [Nat -> FlagType] : Leads(g, kbd, port', nh, nl)
    BY <1>2, <1>3, <1>9, <2>2, <2>3, LeadsAppend DEF Extends
  <2>5. port' \in Seq(PortType)
    BY <1>2, <1>9, <2>2
  <2>. QED  BY <1>2, <1>4, <1>5, <2>4, <2>5 DEF KeysInv
<1>12. CASE key \in {"rt_ctrl", "arrow"}
  <2>1. Codes(key, dir) = <<DOUBLE_KEY, c>>
    BY <1>12 DEF Codes, c
  <2> DEFINE q == Append(port, d)
             G == flags(f[n], DOUBLE_KEY)
  <2>2. port' = Append(q, e)
    BY <1>2, <1>7, <1>9, <2>1
  <2>3. w = "NIL"
    BY <1>12 DEF w, Wanted
  <2>4. LetterRight(flags(f[n], d.code), d) /\ Agrees(flags(f[n], d.code), held, lamp)
    BY <1>9, <1>10, <2>3, DoubleAgrees DEF LetterRight
  <2> HIDE DEF d
  <2>5. PICK g \in [Nat -> FlagType] : Leads(g, kbd, q, held, lamp) /\ g[n + 1] = G
    <3>1. \E g \in [Nat -> FlagType] : Extends(g, f, kbd, port, d, held, lamp)
      BY <1>2, <1>3, <1>9, <2>4, LeadsAppend
    <3>. QED  BY <1>9, <3>1 DEF Extends
  <2>6. q \in Seq(PortType) /\ Len(q) = n + 1
    BY <1>2, <1>9
  <2>7. G \in FlagType /\ Agrees(G, held, lamp)
    BY <1>8, <1>9, <1>10, <2>4, FlagsTyped
  <2> HIDE DEF q, G
  <2>8. LetterRight(flags(G, e.code), e) /\ Agrees(flags(G, e.code), nh, nl)
    BY <1>1, <1>2, <1>9, <2>7, LetterCode, KeyAgrees DEF c, w, nh, nl
  <2> HIDE DEF e
  <2>9. \E k \in [Nat -> FlagType] : Leads(k, kbd, port', nh, nl)
    BY <1>9, <2>2, <2>5, <2>6, <2>8, LeadsAppend DEF Extends
  <2>10. port' \in Seq(PortType)
    BY <1>9, <2>2, <2>6
  <2>. QED  BY <1>2, <1>4, <1>5, <2>9, <2>10 DEF KeysInv
<1>. QED  BY <1>11, <1>12

LEMMA CodeRead ==
  ASSUME KeysInv, kbd_handler
  PROVE  KeysInv'
<1>1. kbd \in FlagType /\ port \in Seq(PortType) /\ held \subseteq Modifiers /\ lamp \in BOOLEAN
  BY DEF KeysInv
<1>2. port # <<>> /\ kbd' = flags(kbd, Head(port).code) /\ port' = Tail(port)
      /\ UNCHANGED <<held, lamp>>
  BY DEF kbd_handler
<1>3. PICK f \in [Nat -> FlagType] : Leads(f, kbd, port, held, lamp)
  BY DEF KeysInv
<1>4. \E g \in [Nat -> FlagType] : Leads(g, kbd', port', held, lamp)
  BY <1>1, <1>2, <1>3, LeadsTail
<1>5. Head(port) \in PortType /\ port' \in Seq(PortType)
  BY <1>1, <1>2
<1>6. kbd' \in FlagType
  BY <1>1, <1>2, <1>5, FlagsTyped DEF PortType
<1>. QED  BY <1>1, <1>2, <1>4, <1>5, <1>6 DEF KeysInv

LEMMA KeysStep ==
  ASSUME KeysInv, [ConsoleNext]_consoleVars
  PROVE  KeysInv'
<1>1. CASE \E key \in UsedKeys, dir \in {"down", "up"} : Key(key, dir)
  BY <1>1, KeyKeeps DEF Dirs
<1>2. CASE kbd_handler
  BY <1>2, CodeRead
<1>3. CASE UNCHANGED <<kbd, port, held, lamp>>
  BY <1>3 DEF KeysInv
<1>4. CASE \E n \in Printed, base \in {10, 16} : printf(n, base)
  BY <1>3, <1>4 DEF printf
<1>5. CASE ShowChar
  BY <1>3, <1>5 DEF ShowChar
<1>6. CASE \E t \in Threads : Switch(t)
  BY <1>3, <1>6 DEF Switch
<1>7. CASE UNCHANGED consoleVars
  BY <1>3, <1>7 DEF consoleVars
<1>. QED  BY <1>1, <1>2, <1>4, <1>5, <1>6, <1>7 DEF ConsoleNext

LEMMA KeysStart ==
  ASSUME ConsoleInit
  PROVE  KeysInv
<1> DEFINE f == [i \in Nat |-> NoFlags]
<1>1. kbd = NoFlags /\ port = <<>> /\ held = {} /\ lamp = FALSE
  BY DEF ConsoleInit
<1>2. NoFlags \in FlagType
  BY DEF NoFlags, FlagType
<1>3. Agrees(NoFlags, {}, FALSE)
  <2>1. NoFlags["lf_shift"] = FALSE /\ NoFlags["rt_shift"] = FALSE /\ NoFlags["capslock"] = FALSE
    BY DEF NoFlags, Flags
  <2>2. ("lf_shift" \in {}) = FALSE /\ ("rt_shift" \in {}) = FALSE
    OBVIOUS
  <2>. QED  BY <2>1, <2>2 DEF Agrees
<1>4. Leads(f, kbd, port, held, lamp)
  <2>1. Len(port) = 0 /\ 1..Len(port) = {} /\ f[0] = NoFlags
    BY <1>1
  <2>2. f[0] = kbd /\ Agrees(f[Len(port)], held, lamp)
    BY <1>1, <1>3, <2>1
  <2> HIDE DEF f
  <2>. QED  BY <2>1, <2>2, Zenon DEF Leads
<1>5. f \in [Nat -> FlagType]
  BY <1>2
<1>6. port \in Seq(PortType)
  BY <1>1
<1> HIDE DEF f
<1>. QED  BY <1>1, <1>2, <1>4, <1>5, <1>6 DEF KeysInv

-----------------------------------------------------------------------------
(* The inductive invariant of the console. *)
THEOREM ConsoleInvariant == ConsoleSpec => []ConsoleIInv
<1>1. ConsoleInit => ConsoleIInv
  BY CursorStart, KeysStart DEF ConsoleIInv
<1>2. ConsoleIInv /\ [ConsoleNext]_consoleVars => ConsoleIInv'
  BY CursorStep, KeysStep DEF ConsoleIInv
<1>. QED  BY <1>1, <1>2, PTL DEF ConsoleSpec

(* The cursor, the registers of the threads and the flags of the driver     *)
(* keep their types: between two accesses the cursor is never more than one *)
(* column or one line behind the last.                                      *)
THEOREM ConsoleTypes == ConsoleSpec => []ConsoleTypeOK
<1>1. ConsoleIInv => ConsoleTypeOK
  BY DEF ConsoleIInv, CursorInv, KeysInv, ThreadsOK, ThreadShape, FlagType, ConsoleTypeOK
<1>. QED  BY <1>1, ConsoleInvariant, PTL

(* However threads, timer and keyboard race in show_char(), the cursor is   *)
(* on the screen when no thread is inside it.                               *)
THEOREM CursorStays == ConsoleSpec => []CursorOnScreen
<1>1. ConsoleIInv => CursorOnScreen
  <2>. SUFFICES ASSUME ConsoleIInv, \A t \in Threads : thread[t].pc = "next"  PROVE OnScreen(cursor)
    BY DEF CursorOnScreen
  <2>1. CursorInv /\ T.pc = "next"
    BY DEF ConsoleIInv, CursorInv, T
  <2>. QED  BY <2>1, RunningFacts DEF OnScreen
<1>. QED  BY <1>1, ConsoleInvariant, PTL

(* A letter that getchar() is about to read comes out in the case of the    *)
(* shift and caps lock keys when it was pressed, however many codes waited. *)
THEOREM LettersComeOut == ConsoleSpec => []LettersRight
<1>1. ConsoleIInv => LettersRight
  <2>. SUFFICES ASSUME ConsoleIInv, port # <<>>, Head(port).wanted # "NIL"
                PROVE  getchar(flags(kbd, Head(port).code), Head(port).code) = Head(port).wanted
    BY DEF LettersRight
  <2>1. port \in Seq(PortType)
    BY DEF ConsoleIInv, KeysInv
  <2>2. PICK f \in [Nat -> FlagType] : Leads(f, kbd, port, held, lamp)
    BY DEF ConsoleIInv, KeysInv
  <2>3. 1 \in 1..Len(port) /\ Head(port) = port[1] /\ 1 - 1 = 0
    BY <2>1
  <2>4. f[1] = flags(kbd, port[1].code) /\ LetterRight(f[1], port[1])
    BY <2>2, <2>3 DEF Leads
  <2>. QED  BY <2>3, <2>4 DEF LetterRight
<1>. QED  BY <1>1, ConsoleInvariant, PTL
-----------------------------------------------------------------------------
(* put_int().  A loop of n turns from c, where turn k takes v to F[k][v]:   *)
(* the fold that a FoldLeft over 1..n chooses.                              *)
Iterates(F, c, D, g) ==
  g = [t \in SUBSET D |-> IF t = {} THEN c ELSE F[Max(t)][g[t \ {Max(t)}]]]

Closed(F, V) == \A k \in Nat, v \in V : F[k][v] \in V

LEMMA IterateExists ==
  ASSUME NEW V, NEW c \in V, NEW F, Closed(F, V)
  PROVE  \A n \in Nat : \E g \in [SUBSET (1..n) -> V] : Iterates(F, c, 1..n, g)
<1> DEFINE S == {n \in Nat : \E g \in [SUBSET (1..n) -> V] : Iterates(F, c, 1..n, g)}
<1>1. 0 \in S
  <2> DEFINE g == [t \in SUBSET (1..0) |-> c]
  <2>1. \A t \in SUBSET (1..0) : t = {}
    OBVIOUS
  <2>2. Iterates(F, c, 1..0, g)
    BY <2>1 DEF Iterates
  <2>. QED  BY <2>2
<1>2. ASSUME NEW n \in Nat, n \in S  PROVE n + 1 \in S
  <2>1. PICK g \in [SUBSET (1..n) -> V] : Iterates(F, c, 1..n, g)
    BY <1>2
  <2> DEFINE h == [t \in SUBSET (1..(n + 1)) |->
                     IF n + 1 \in t THEN F[n + 1][g[t \ {n + 1}]] ELSE g[t]]
             e(f, t) == IF t = {} THEN c ELSE F[Max(t)][f[t \ {Max(t)}]]
  <2>2. \A t \in SUBSET (1..(n + 1)) : n + 1 \notin t => t \in SUBSET (1..n)
    BY <1>2
  <2>3. \A t \in SUBSET (1..n) : t \in SUBSET (1..(n + 1)) /\ n + 1 \notin t
    BY <1>2
  <2>4. ASSUME NEW t \in SUBSET (1..(n + 1))  PROVE h[t] = e(h, t) /\ h[t] \in V
    <3>1. CASE n + 1 \in t
      <4>1. Max(t) = n + 1
        BY <1>2, <2>4, <3>1, MaxIs
      <4>2. t \ {n + 1} \in SUBSET (1..(n + 1)) /\ n + 1 \notin t \ {n + 1}
        BY <2>4
      <4>3. h[t \ {n + 1}] = g[t \ {n + 1}] /\ g[t \ {n + 1}] \in V
        BY <2>2, <4>2
      <4>4. h[t] = F[n + 1][g[t \ {n + 1}]]
        BY <2>4, <3>1
      <4>5. h[t] \in V
        BY <1>2, <4>3, <4>4 DEF Closed
      <4>. QED  BY <3>1, <4>1, <4>3, <4>4, <4>5
    <3>2. CASE n + 1 \notin t
      <4>1. t \in SUBSET (1..n)
        BY <2>2, <3>2
      <4>2. h[t] = g[t] /\ g[t] \in V
        BY <2>4, <3>2, <4>1
      <4>3. g[t] = e(g, t)
        BY <2>1, <4>1 DEF Iterates
      <4>4. h[t \ {Max(t)}] = g[t \ {Max(t)}]
        BY <2>3, <4>1
      <4>. QED  BY <4>2, <4>3, <4>4
    <3>. QED  BY <3>1, <3>2
  <2>5. h = [t \in SUBSET (1..(n + 1)) |-> h[t]]
    OBVIOUS
  <2> HIDE DEF h
  <2>6. h = [t \in SUBSET (1..(n + 1)) |-> e(h, t)] /\ h \in [SUBSET (1..(n + 1)) -> V]
    BY <2>4, <2>5
  <2>7. Iterates(F, c, 1..(n + 1), h)
    BY <2>6 DEF Iterates
  <2>8. \E f \in [SUBSET (1..(n + 1)) -> V] : Iterates(F, c, 1..(n + 1), f)
    BY <2>6, <2>7
  <2>9. n + 1 \in Nat
    OBVIOUS
  <2>. QED  BY <2>8, <2>9
<1> HIDE DEF S
<1>3. Nat \subseteq S
  BY <1>1, <1>2, SetInduction
<1>. QED  BY <1>3 DEF S

(* The values after each turn. *)
LEMMA IntervalIs ==
  ASSUME NEW n \in Nat, NEW k \in 1..n
  PROVE  /\ 1..k \in SUBSET (1..n) /\ 1..k # {} /\ Max(1..k) = k
         /\ (1..k) \ {k} = 1..(k - 1) /\ 1..(k - 1) \in SUBSET (1..n)
<1>1. k \in Nat /\ 1..k \in SUBSET (1..n) /\ k \in 1..k /\ 1..k # {}
  OBVIOUS
<1>2. Max(1..k) = k
  BY <1>1, MaxIs
<1>3. (1..k) \ {k} = 1..(k - 1) /\ 1..(k - 1) \in SUBSET (1..n)
  OBVIOUS
<1>. QED  BY <1>1, <1>2, <1>3

Turns(F, c, n, f) == f[0] = c /\ \A k \in 1..n : f[k] = F[k][f[k - 1]]

LEMMA TurnsExist ==
  ASSUME NEW V, NEW c \in V, NEW F, Closed(F, V), NEW n \in Nat
  PROVE  \E f \in [0..n -> V] : Turns(F, c, n, f)
<1>1. PICK g \in [SUBSET (1..n) -> V] : Iterates(F, c, 1..n, g)
  BY IterateExists
<1> DEFINE f == [k \in 0..n |-> g[1..k]]
<1>2. f[0] = c
  <2>1. 1..0 = {} /\ {} \in SUBSET (1..n)
    OBVIOUS
  <2>2. f[0] = g[{}]
    BY <2>1
  <2>. QED  BY <1>1, <2>1, <2>2 DEF Iterates
<1>3. ASSUME NEW k \in 1..n  PROVE f[k] = F[k][f[k - 1]]
  <2>1. k \in 0..n /\ k - 1 \in 0..n
    OBVIOUS
  <2>2. g[1..k] = F[Max(1..k)][g[(1..k) \ {Max(1..k)}]]
    BY <1>1, IntervalIs DEF Iterates
  <2>. QED  BY <2>1, <2>2, IntervalIs
<1>4. f \in [0..n -> V]
  <2>1. ASSUME NEW k \in 0..n  PROVE 1..k \in SUBSET (1..n)
    OBVIOUS
  <2>. QED  BY <1>1, <2>1
<1>. QED  BY <1>2, <1>3, <1>4 DEF Turns

(* The bits of a u32 bound the turns of the loop. *)
Bits == 32
U32 == 4 * 1024 * 1024 * 1024

LEMMA BitsIs == Bits \in Nat /\ Bits >= 12
  BY DEF Bits

(* The numbers that the loop of put_int() divides. *)
Rests(num, base, r) ==
  r = [i \in 0..Bits |-> IF i = 0 THEN num ELSE r[i - 1] \div base]

LEMMA BaseFacts ==
  ASSUME NEW v \in Nat, NEW base \in {8, 10, 16}
  PROVE  /\ v \div base \in Nat /\ v % base \in Nat /\ v % base < base
         /\ v = (v \div base) * base + (v % base)
         /\ \A m \in Nat : v < 8 * m => v \div base < m
<1>1. CASE base = 8
  BY <1>1
<1>2. CASE base = 10
  BY <1>2
<1>3. CASE base = 16
  BY <1>3
<1>. QED  BY <1>1, <1>2, <1>3

LEMMA RestsExist ==
  ASSUME NEW num \in Nat, NEW base \in {8, 10, 16}
  PROVE  \E r \in [0..Bits -> Nat] : Rests(num, base, r)
<1> DEFINE F == [k \in Nat |-> [v \in Nat |-> v \div base]]
<1>1. \A k \in Nat, v \in Nat : F[k][v] = v \div base /\ F[k][v] \in Nat
  BY BaseFacts
<1> HIDE DEF F
<1>2. PICK r \in [0..Bits -> Nat] : Turns(F, num, Bits, r)
  <2>1. Closed(F, Nat) /\ Bits \in Nat
    BY <1>1, BitsIs DEF Closed
  <2>. QED  BY <2>1, TurnsExist
<1>3. ASSUME NEW k \in 0..Bits  PROVE r[k] = IF k = 0 THEN num ELSE r[k - 1] \div base
  <2>1. CASE k = 0
    BY <1>2, <2>1 DEF Turns
  <2>2. CASE k # 0
    <3>1. k \in 1..Bits /\ k \in Nat /\ k - 1 \in 0..Bits
      BY <2>2, BitsIs
    <3>2. r[k] = F[k][r[k - 1]] /\ r[k - 1] \in Nat
      BY <1>2, <3>1 DEF Turns
    <3>. QED  BY <1>1, <2>2, <3>1, <3>2
  <2>. QED  BY <2>1, <2>2
<1>4. r = [k \in 0..Bits |-> r[k]]
  OBVIOUS
<1>5. Rests(num, base, r)
  BY <1>3, <1>4 DEF Rests
<1>. QED  BY <1>5

(* The numbers that are left after each division, and buf: the digits,      *)
(* lowest first, up to the first number that is 0.                          *)
Rest(num, base) == CHOOSE r : Rests(num, base, r)
Count(num, base) ==
  IF num = 0 THEN 1
  ELSE CHOOSE i \in 1..Bits : Rest(num, base)[i] = 0 /\ Rest(num, base)[i - 1] # 0

LEMMA RestIs ==
  ASSUME NEW num \in Nat, NEW base \in {8, 10, 16}
  PROVE  LET r == Rest(num, base) IN
           /\ r \in [0..Bits -> Nat] /\ r[0] = num
           /\ \A k \in 1..Bits : r[k] = r[k - 1] \div base
           /\ buf(num, base) = [i \in 1..Count(num, base) |-> r[i - 1] % base]
<1> DEFINE r == Rest(num, base)
<1>1. PICK x \in [0..Bits -> Nat] : Rests(num, base, x)
  BY RestsExist
<1>2. Rests(num, base, r)
  BY <1>1 DEF Rest
<1>3. buf(num, base) = [i \in 1..Count(num, base) |-> r[i - 1] % base]
  BY DEF buf, Rests, Rest, Count, Bits
<1> HIDE DEF r
<1>4. r[0] = num /\ \A k \in 1..Bits : r[k] = r[k - 1] \div base
  <2>1. 0 \in 0..Bits /\ \A k \in 1..Bits : k \in 0..Bits /\ k # 0
    BY BitsIs
  <2>. QED  BY <1>2, <2>1 DEF Rests
<1> DEFINE S == {k \in Nat : k <= Bits => r[k] \in Nat}
<1>5. 0 \in S
  BY <1>4, BitsIs
<1>6. ASSUME NEW k \in Nat, k \in S  PROVE k + 1 \in S
  <2>1. CASE k + 1 <= Bits
    <3>1. k + 1 \in 1..Bits /\ k + 1 - 1 = k /\ r[k] \in Nat
      BY <1>6, <2>1, BitsIs
    <3>2. r[k + 1] = r[k] \div base
      BY <1>4, <3>1
    <3>. QED  BY <3>1, <3>2, BaseFacts
  <2>. QED  BY <2>1
<1>7. Nat \subseteq S
  <2> HIDE DEF S
  <2>. QED  BY <1>5, <1>6, SetInduction
<1>8. \A k \in 0..Bits : r[k] \in Nat
  BY <1>7, BitsIs
<1>9. r = [k \in 0..Bits |-> r[k]]
  BY <1>2 DEF Rests
<1>10. r \in [0..Bits -> Nat]
  BY <1>8, <1>9
<1>. QED  BY <1>3, <1>4, <1>10 DEF r

(* r are the numbers that are left, and n is cnt. *)
Digits(num, base, r, n) ==
  /\ r \in [0..Bits -> Nat] /\ r[0] = num
  /\ \A k \in 1..Bits : r[k] = r[k - 1] \div base
  /\ n \in 1..Bits /\ r[n] = 0
  /\ num = 0 => n = 1
  /\ num # 0 => r[n - 1] # 0
  /\ buf(num, base) = [i \in 1..n |-> r[i - 1] % base]

LEMMA BufIs ==
  ASSUME NEW num \in Nat, num < U32, NEW base \in {8, 10, 16}
  PROVE  Digits(num, base, Rest(num, base), Count(num, base))
<1> DEFINE r == Rest(num, base)
           n == Count(num, base)
<1>1. /\ r \in [0..Bits -> Nat] /\ r[0] = num
      /\ \A k \in 1..Bits : r[k] = r[k - 1] \div base
      /\ buf(num, base) = [i \in 1..n |-> r[i - 1] % base]
  BY RestIs
<1>2. n = IF num = 0 THEN 1 ELSE CHOOSE i \in 1..Bits : r[i] = 0 /\ r[i - 1] # 0
  BY DEF Count
<1> HIDE DEF r, n
<1>3. ASSUME NEW k \in 1..11, NEW m \in Nat, r[k - 1] < 8 * m  PROVE r[k] < m
  <2>1. k \in 1..Bits /\ k - 1 \in 0..Bits
    BY BitsIs
  <2>2. r[k] = r[k - 1] \div base /\ r[k - 1] \in Nat
    BY <1>1, <2>1
  <2>. QED  BY <1>3, <2>2, BaseFacts
<1>4. r[11] = 0
  <2>1. r[1] < 512 * 1024 * 1024
    <3>1. r[1 - 1] < 8 * (512 * 1024 * 1024)
      BY <1>1 DEF U32
    <3>2. 1 \in 1..11 /\ 512 * 1024 * 1024 \in Nat
      OBVIOUS
    <3>. QED  BY <1>3, <3>1, <3>2
  <2>2. r[2] < 64 * 1024 * 1024
    BY <1>3, <2>1
  <2>3. r[3] < 8 * 1024 * 1024
    BY <1>3, <2>2
  <2>4. r[4] < 1024 * 1024
    BY <1>3, <2>3
  <2>5. r[5] < 128 * 1024
    BY <1>3, <2>4
  <2>6. r[6] < 16 * 1024
    BY <1>3, <2>5
  <2>7. r[7] < 2 * 1024
    BY <1>3, <2>6
  <2>8. r[8] < 256
    BY <1>3, <2>7
  <2>9. r[9] < 32
    BY <1>3, <2>8
  <2>10. r[10] < 4
    BY <1>3, <2>9
  <2>11. r[11] < 1
    <3>1. 11 - 1 = 10 /\ 11 \in 1..11 /\ 1 \in Nat /\ 10 \in 0..Bits
      BY BitsIs
    <3>2. r[10] \in Nat
      BY <1>1, <3>1
    <3>3. r[10] < 8 * 1
      BY <2>10, <3>2
    <3>4. r[11 - 1] < 8 * 1
      BY <3>1, <3>3
    <3>. QED  BY <1>3, <3>1, <3>4
  <2>12. r[11] \in Nat
    <3>1. 11 \in 0..Bits
      BY BitsIs
    <3>. QED  BY <1>1, <3>1
  <2>. QED  BY <2>11, <2>12
<1>5. num # 0 => \E i \in 1..Bits : r[i] = 0 /\ r[i - 1] # 0
  <2> SUFFICES ASSUME \A i \in 1..Bits : r[i] = 0 => r[i - 1] = 0  PROVE num = 0
    OBVIOUS
  <2>1. \A i \in 1..11 : r[i] = 0 => r[i - 1] = 0
    BY BitsIs
  <2>2. r[10] = 0 /\ (r[10] = 0 => r[9] = 0) /\ (r[9] = 0 => r[8] = 0) /\ (r[8] = 0 => r[7] = 0)
    BY <1>4, <2>1
  <2>3. (r[7] = 0 => r[6] = 0) /\ (r[6] = 0 => r[5] = 0) /\ (r[5] = 0 => r[4] = 0)
    BY <2>1
  <2>4. /\ (r[4] = 0 => r[3] = 0) /\ (r[3] = 0 => r[2] = 0) /\ (r[2] = 0 => r[1] = 0)
        /\ (r[1] = 0 => r[0] = 0)
    BY <2>1
  <2>. QED  BY <1>1, <2>2, <2>3, <2>4
<1>6. n \in 1..Bits /\ r[n] = 0 /\ (num = 0 => n = 1) /\ (num # 0 => r[n - 1] # 0)
  <2>1. CASE num = 0
    <3>1. r[1] = r[0] \div base /\ r[0] = 0 /\ 1 \in 1..Bits
      BY <1>1, <2>1, BitsIs
    <3>2. 0 \div base = 0
      OBVIOUS
    <3>. QED  BY <1>2, <2>1, <3>1, <3>2
  <2>2. CASE num # 0
    BY <1>2, <1>5, <2>2
  <2>. QED  BY <2>1, <2>2
<1>. QED  BY <1>1, <1>6 DEF Digits, r, n

(* A set of indices has a greatest. *)
LEMMA MaxIn ==
  ASSUME NEW n \in Nat, NEW t \in SUBSET (1..n), t # {}
  PROVE  Max(t) \in t
<1> DEFINE S == {m \in Nat : \A u \in SUBSET (1..m) : u # {} => \E x \in u : \A y \in u : x >= y}
<1>1. 0 \in S
  <2>1. \A u \in SUBSET (1..0) : u = {}
    OBVIOUS
  <2>. QED  BY <2>1
<1>2. ASSUME NEW m \in Nat, m \in S  PROVE m + 1 \in S
  <2> SUFFICES ASSUME NEW u \in SUBSET (1..(m + 1)), u # {}
               PROVE  \E x \in u : \A y \in u : x >= y
    OBVIOUS
  <2>1. CASE m + 1 \in u
    BY <2>1
  <2>2. CASE m + 1 \notin u
    <3>1. u \in SUBSET (1..m)
      BY <2>2
    <3>. QED  BY <1>2, <3>1
  <2>. QED  BY <2>1, <2>2
<1>3. Nat \subseteq S
  <2> HIDE DEF S
  <2>. QED  BY <1>1, <1>2, SetInduction
<1>4. \E x \in t : \A y \in t : x >= y
  BY <1>3
<1>. QED  BY <1>4 DEF Max

LEMMA LenIs ==
  ASSUME NEW n \in Nat, NEW c \in [1..n -> Nat]
  PROVE  Len(c) = n /\ DOMAIN c = 1..n
<1>1. c \in Seq(Nat)
  BY SeqDef
<1>2. Len(c) \in Nat /\ DOMAIN c = 1..Len(c) /\ DOMAIN c = 1..n
  BY <1>1
<1>3. \A x : x \in 1..n <=> x \in 1..Len(c)
  BY <1>2
<1>4. n # 0 => n \in 1..Len(c)
  BY <1>3
<1>5. Len(c) # 0 => Len(c) \in 1..n
  BY <1>2, <1>3
<1>. QED  BY <1>2, <1>4, <1>5

(* The loop that swaps the ends. *)
Swaps(b, s, D, g) ==
  g = [t \in SUBSET D |-> IF t = {} THEN b ELSE SwapEnds(g[t \ {Max(t)}], s[Max(t)])]
Order(b) == [i \in 1..((Len(b) - 1) \div 2 + 1) |-> i - 1]

LEMMA PutIntIs ==
  \A num, base : put_int(num, base) =
    LET b == buf(num, base)
    IN  (CHOOSE g : Swaps(b, Order(b), DOMAIN Order(b), g))[DOMAIN Order(b)]
  BY DEF put_int, FoldLeft, MapThenFoldSet, Swaps, Order

Middle(n) == (n - 1) \div 2 + 1

LEMMA MiddleIs ==
  ASSUME NEW n \in Nat \ {0}
  PROVE  Middle(n) \in 1..n /\ 2 * Middle(n) <= n + 1 /\ n <= 2 * Middle(n)
  BY DEF Middle

LEMMA SwapIs ==
  ASSUME NEW n \in Nat \ {0}, NEW k \in 1..Middle(n), NEW c \in [1..n -> Nat]
  PROVE  /\ SwapEnds(c, k - 1) \in [1..n -> Nat]
         /\ \A j \in 1..n : SwapEnds(c, k - 1)[j] = IF j = k \/ j = n + 1 - k THEN c[n + 1 - j] ELSE c[j]
<1>1. Len(c) = n
  BY LenIs
<1>2. k \in 1..n /\ n + 1 - k \in 1..n /\ k - 1 + 1 = k /\ n - (k - 1) = n + 1 - k
  BY MiddleIs
<1>3. SwapEnds(c, k - 1) = [c EXCEPT ![k] = c[n + 1 - k], ![n + 1 - k] = c[k]]
  BY <1>1, <1>2 DEF SwapEnds
<1> DEFINE a == n + 1 - k
<1>4. a \in 1..n /\ n + 1 - a = k /\ n + 1 - k = a
  BY <1>2
<1> HIDE DEF a
<1>5. SwapEnds(c, k - 1) = [c EXCEPT ![k] = c[a], ![a] = c[k]]
  BY <1>3 DEF a
<1>6. SwapEnds(c, k - 1) \in [1..n -> Nat]
  BY <1>2, <1>4, <1>5
<1>7. ASSUME NEW j \in 1..n
      PROVE  SwapEnds(c, k - 1)[j] = IF j = k \/ j = a THEN c[n + 1 - j] ELSE c[j]
  <2>1. CASE j = a
    BY <1>2, <1>4, <1>5, <2>1
  <2>2. CASE j # a /\ j = k
    BY <1>2, <1>4, <1>5, <2>2
  <2>3. CASE j # a /\ j # k
    BY <1>2, <1>4, <1>5, <2>3
  <2>. QED  BY <2>1, <2>2, <2>3
<1>. QED  BY <1>6, <1>7 DEF a

LEMMA SwapsExist ==
  ASSUME NEW n \in Nat \ {0}, NEW b \in [1..n -> Nat]
  PROVE  \E g : Swaps(b, Order(b), 1..Middle(n), g)
<1> DEFINE m == Middle(n)
           V == [1..n -> Nat]
           F == [k \in Nat |-> [v \in V |-> IF k \in 1..m THEN SwapEnds(v, k - 1) ELSE v]]
<1>1. m \in Nat /\ Order(b) = [i \in 1..m |-> i - 1]
  BY LenIs, MiddleIs DEF Order, Middle
<1> HIDE DEF m
<1>2. \A k \in 1..m, v \in V : SwapEnds(v, k - 1) \in V
  BY SwapIs DEF m
<1>3. Closed(F, V)
  BY <1>2 DEF Closed
<1>4. \A k \in 1..m, v \in V : F[k][v] = SwapEnds(v, Order(b)[k])
  BY <1>1
<1> HIDE DEF F
<1>5. PICK g \in [SUBSET (1..m) -> V] : Iterates(F, b, 1..m, g)
  <2>1. b \in V
    OBVIOUS
  <2> HIDE DEF V
  <2>. QED  BY <1>1, <1>3, <2>1, IterateExists
<1>6. ASSUME NEW t \in SUBSET (1..m)
      PROVE  g[t] = IF t = {} THEN b ELSE SwapEnds(g[t \ {Max(t)}], Order(b)[Max(t)])
  <2>1. g[t] = IF t = {} THEN b ELSE F[Max(t)][g[t \ {Max(t)}]]
    BY <1>5 DEF Iterates
  <2>2. t # {} => Max(t) \in 1..m
    BY <1>1, MaxIn
  <2>3. t \ {Max(t)} \in SUBSET (1..m)
    OBVIOUS
  <2>4. g[t \ {Max(t)}] \in V
    BY <2>3
  <2>. QED  BY <1>4, <2>1, <2>2, <2>4
<1>7. g = [t \in SUBSET (1..m) |-> g[t]]
  OBVIOUS
<1>8. Swaps(b, Order(b), 1..m, g)
  BY <1>6, <1>7 DEF Swaps
<1>. QED  BY <1>8 DEF m

(* put_int() reverses buf: after k turns the first k and the last k digits  *)
(* have changed places, and it stops in the middle.                         *)
LEMMA PutIntReverses ==
  ASSUME NEW num, NEW base, NEW n \in Nat \ {0}, NEW b \in [1..n -> Nat], buf(num, base) = b
  PROVE  put_int(num, base) = [j \in 1..n |-> b[n + 1 - j]]
<1> DEFINE m == Middle(n)
           g == CHOOSE x : Swaps(b, Order(b), 1..m, x)
           Half(k) == [j \in 1..n |-> IF j <= k \/ j > n - k THEN b[n + 1 - j] ELSE b[j]]
<1>1. m \in 1..n /\ m \in Nat /\ 2 * m <= n + 1 /\ n <= 2 * m
  BY MiddleIs
<1>2. Order(b) = [i \in 1..m |-> i - 1] /\ DOMAIN Order(b) = 1..m
  BY LenIs DEF Order, Middle
<1>3. put_int(num, base) = g[1..m]
  BY <1>2, PutIntIs
<1>4. Swaps(b, Order(b), 1..m, g)
  BY SwapsExist
<1> HIDE DEF g
<1>5. g[1..0] = b
  <2>1. 1..0 = {} /\ {} \in SUBSET (1..m)
    OBVIOUS
  <2>. QED  BY <1>4, <2>1 DEF Swaps
<1>6. ASSUME NEW k \in 1..m  PROVE g[1..k] = SwapEnds(g[1..(k - 1)], k - 1)
  <2> DEFINE t == 1..k
  <2>1. t \in SUBSET (1..m) /\ t # {} /\ Max(t) = k /\ t \ {k} = 1..(k - 1)
    <3>1. m \in Nat
      BY <1>1
    <3> HIDE DEF m
    <3>. QED  BY <3>1, IntervalIs
  <2> HIDE DEF t
  <2>2. g[t] = SwapEnds(g[t \ {Max(t)}], Order(b)[Max(t)])
    BY <1>4, <2>1 DEF Swaps
  <2>3. Order(b)[k] = k - 1
    BY <1>2
  <2>. QED  BY <2>1, <2>2, <2>3 DEF t
<1> DEFINE S == {k \in Nat : k <= m => g[1..k] = Half(k)}
<1>7. 0 \in S
  <2>1. \A j \in 1..n : ~(j <= 0) /\ ~(j > n - 0)
    OBVIOUS
  <2>2. b = [j \in 1..n |-> b[j]]
    OBVIOUS
  <2>3. Half(0) = b
    BY <2>1, <2>2
  <2>. QED  BY <1>5, <2>3
<1>8. ASSUME NEW k \in Nat, k \in S  PROVE k + 1 \in S
  <2> SUFFICES ASSUME k + 1 <= m  PROVE g[1..(k + 1)] = Half(k + 1)
    OBVIOUS
  <2> DEFINE c == Half(k)
  <2>1. k + 1 \in 1..m /\ k + 1 - 1 = k /\ k <= m
    BY <1>1
  <2>2. g[1..(k + 1)] = SwapEnds(c, k)
    BY <1>6, <1>8, <2>1
  <2>3. c \in [1..n -> Nat]
    <3>1. \A j \in 1..n : n + 1 - j \in 1..n
      OBVIOUS
    <3>. QED  BY <3>1
  <2>4. \A j \in 1..n : c[j] = IF j <= k \/ j > n - k THEN b[n + 1 - j] ELSE b[j]
    OBVIOUS
  <2> HIDE DEF c
  <2>5. /\ SwapEnds(c, k) \in [1..n -> Nat]
        /\ \A j \in 1..n : SwapEnds(c, k)[j] = IF j = k + 1 \/ j = n + 1 - (k + 1)
                                               THEN c[n + 1 - j] ELSE c[j]
    <3>1. LET e == SwapEnds(c, k + 1 - 1) IN
            /\ e \in [1..n -> Nat]
            /\ \A j \in 1..n : e[j] = IF j = k + 1 \/ j = n + 1 - (k + 1) THEN c[n + 1 - j] ELSE c[j]
      <4>1. k + 1 \in 1..Middle(n)
        BY <2>1
      <4> DEFINE x == k + 1
      <4>2. x \in 1..Middle(n)
        BY <4>1
      <4> HIDE DEF x
      <4>3. LET e == SwapEnds(c, x - 1) IN
              /\ e \in [1..n -> Nat]
              /\ \A j \in 1..n : e[j] = IF j = x \/ j = n + 1 - x THEN c[n + 1 - j] ELSE c[j]
        BY <2>3, <4>2, SwapIs
      <4>. QED  BY <4>3 DEF x
    <3>2. SwapEnds(c, k + 1 - 1) = SwapEnds(c, k)
      BY <2>1
    <3>. QED  BY <3>1, <3>2
  <2>6. ASSUME NEW j \in 1..n  PROVE SwapEnds(c, k)[j] = Half(k + 1)[j]
    <3>1. /\ n + 1 - j \in 1..n /\ n + 1 - (n + 1 - j) = j
          /\ 2 * k + 1 <= n
      BY <1>1, <2>1
    <3>2. CASE j = k + 1 \/ j = n + 1 - (k + 1)
      <4>1. SwapEnds(c, k)[j] = c[n + 1 - j]
        BY <2>5, <3>2
      <4>2. ~(n + 1 - j <= k) /\ ~(n + 1 - j > n - k) /\ (j <= k + 1 \/ j > n - (k + 1))
        BY <3>1, <3>2
      <4>. QED  BY <2>4, <3>1, <4>1, <4>2
    <3>3. CASE ~(j = k + 1 \/ j = n + 1 - (k + 1))
      <4>1. SwapEnds(c, k)[j] = c[j]
        BY <2>5, <3>3
      <4>2. (j <= k \/ j > n - k) <=> (j <= k + 1 \/ j > n - (k + 1))
        BY <3>3
      <4>. QED  BY <2>4, <4>1, <4>2
    <3>. QED  BY <3>2, <3>3
  <2>7. SwapEnds(c, k) = [j \in 1..n |-> SwapEnds(c, k)[j]]
    BY <2>5
  <2>. QED  BY <2>2, <2>6, <2>7
<1>9. Nat \subseteq S
  <2> HIDE DEF S
  <2>. QED  BY <1>7, <1>8, SetInduction
<1>10. g[1..m] = Half(m)
  <2> HIDE DEF Half
  <2>1. m \in S
    <3> HIDE DEF S
    <3>. QED  BY <1>1, <1>9
  <2>2. m <= m
    BY <1>1
  <2>. QED  BY <2>1, <2>2
<1>11. \A j \in 1..n : j <= m \/ j > n - m
  BY <1>1
<1>. QED  BY <1>3, <1>10, <1>11

(* The number a string of digits stands for, digit by digit. *)
Sums(base, d, D, g) ==
  g = [t \in SUBSET D |-> IF t = {} THEN 0 ELSE g[t \ {Max(t)}] * base + d[Max(t)]]

LEMMA ValueIs ==
  \A d, base : Value(d, base) = (CHOOSE g : Sums(base, d, DOMAIN d, g))[DOMAIN d]
  BY DEF Value, FoldLeft, MapThenFoldSet, Sums

LEMMA SumsExist ==
  ASSUME NEW n \in Nat, NEW d \in [1..n -> Nat], NEW base \in Nat
  PROVE  \E g : Sums(base, d, 1..n, g)
<1> DEFINE F == [k \in Nat |-> [v \in Nat |-> IF k \in 1..n THEN v * base + d[k] ELSE v]]
<1>1. Closed(F, Nat)
  BY DEF Closed
<1>2. \A k \in 1..n, v \in Nat : F[k][v] = v * base + d[k]
  OBVIOUS
<1> HIDE DEF F
<1>3. PICK g \in [SUBSET (1..n) -> Nat] : Iterates(F, 0, 1..n, g)
  <2>1. 0 \in Nat
    OBVIOUS
  <2>. QED  BY <1>1, <2>1, IterateExists
<1>4. ASSUME NEW t \in SUBSET (1..n)
      PROVE  g[t] = IF t = {} THEN 0 ELSE g[t \ {Max(t)}] * base + d[Max(t)]
  <2>1. g[t] = IF t = {} THEN 0 ELSE F[Max(t)][g[t \ {Max(t)}]]
    BY <1>3 DEF Iterates
  <2>2. t # {} => Max(t) \in 1..n
    BY MaxIn
  <2>3. t \ {Max(t)} \in SUBSET (1..n)
    OBVIOUS
  <2>4. g[t \ {Max(t)}] \in Nat
    BY <2>3
  <2>. QED  BY <1>2, <2>1, <2>2, <2>4
<1>5. g = [t \in SUBSET (1..n) |-> g[t]]
  OBVIOUS
<1>6. Sums(base, d, 1..n, g)
  BY <1>4, <1>5 DEF Sums
<1>. QED  BY <1>6

LEMMA DigitsFacts ==
  ASSUME NEW num, NEW base, NEW r, NEW n, Digits(num, base, r, n)
  PROVE  /\ n \in Nat \ {0} /\ n \in 1..n
         /\ \A k \in 0..n : r[k] \in Nat
         /\ \A k \in 1..n : r[k] = r[k - 1] \div base
<1>1. n \in 1..Bits /\ r \in [0..Bits -> Nat] /\ \A k \in 1..Bits : r[k] = r[k - 1] \div base
  BY DEF Digits
<1>0. n \in 1..Bits
  BY <1>1
<1>2. n \in Nat \ {0} /\ n \in 1..n /\ \A k \in 1..n : k \in 1..Bits
  BY <1>0, BitsIs
<1>3. \A k \in 0..n : k \in 0..Bits
  BY <1>0, BitsIs
<1>. QED  BY <1>1, <1>2, <1>3

(* The digits, highest first. *)
Backwards(r, n, base, d) == d \in [1..n -> Nat] /\ \A j \in 1..n : d[j] = r[n - j] % base

(* The sum over the first digits is what the division had left when it came *)
(* to them.                                                                 *)
LEMMA ValueBack ==
  ASSUME NEW num \in Nat, NEW base \in {8, 10, 16}, NEW r, NEW n, Digits(num, base, r, n),
         NEW d, Backwards(r, n, base, d)
  PROVE  Value(d, base) = num
<1> DEFINE g == CHOOSE x : Sums(base, d, 1..n, x)
<1>0. n \in Nat \ {0} /\ r[n] = 0 /\ r[0] = num
  BY DigitsFacts DEF Digits
<1>1. /\ n \in Nat /\ n >= 1 /\ r[n] = 0 /\ r[0] = num /\ base \in Nat
      /\ \A k \in 0..n : r[k] \in Nat
      /\ \A k \in 1..n : r[k] = r[k - 1] \div base
      /\ d \in [1..n -> Nat] /\ \A j \in 1..n : d[j] = r[n - j] % base
  BY <1>0, DigitsFacts DEF Backwards
<1>2. Value(d, base) = g[1..n]
  <2>1. n \in Nat /\ d \in [1..n -> Nat]
    BY <1>1
  <2>2. DOMAIN d = 1..n
    BY <2>1, LenIs
  <2>. QED  BY <2>2, ValueIs
<1>3. Sums(base, d, 1..n, g)
  BY <1>1, SumsExist
<1> HIDE DEF g
<1>4. g[1..0] = 0
  <2>1. 1..0 = {} /\ {} \in SUBSET (1..n)
    OBVIOUS
  <2>. QED  BY <1>3, <2>1 DEF Sums
<1>5. ASSUME NEW k \in 1..n  PROVE g[1..k] = g[1..(k - 1)] * base + d[k]
  <2> DEFINE t == 1..k
  <2>1. t \in SUBSET (1..n) /\ t # {} /\ Max(t) = k /\ t \ {k} = 1..(k - 1)
    <3>1. n \in Nat
      BY <1>0
    <3>. QED  BY <3>1, IntervalIs
  <2> HIDE DEF t
  <2>2. g[t] = g[t \ {Max(t)}] * base + d[Max(t)]
    BY <1>3, <2>1 DEF Sums
  <2>. QED  BY <2>1, <2>2 DEF t
<1> DEFINE S == {k \in Nat : k <= n => g[1..k] = r[n - k]}
<1>6. 0 \in S
  BY <1>1, <1>4
<1>7. ASSUME NEW k \in Nat, k \in S  PROVE k + 1 \in S
  <2> SUFFICES ASSUME k + 1 <= n  PROVE g[1..(k + 1)] = r[n - (k + 1)]
    OBVIOUS
  <2> DEFINE v == r[n - (k + 1)]
  <2>1. /\ k + 1 \in 1..n /\ k + 1 - 1 = k /\ k <= n
        /\ n - (k + 1) \in 0..n /\ n - k \in 1..n /\ n - k - 1 = n - (k + 1)
    BY <1>1
  <2>2. v \in Nat /\ r[n - k] = v \div base /\ d[k + 1] = v % base
    BY <1>1, <2>1
  <2>3. g[1..(k + 1)] = (v \div base) * base + (v % base)
    BY <1>5, <1>7, <2>1, <2>2
  <2> HIDE DEF v
  <2>4. v = (v \div base) * base + (v % base)
    BY <2>2, BaseFacts
  <2>. QED  BY <2>3, <2>4 DEF v
<1>8. Nat \subseteq S
  <2> HIDE DEF S
  <2>. QED  BY <1>6, <1>7, SetInduction
<1>9. g[1..n] = r[n - n] /\ n - n = 0
  <2>1. n \in S
    <3> HIDE DEF S
    <3>. QED  BY <1>1, <1>8
  <2>. QED  BY <1>1, <2>1
<1>. QED  BY <1>1, <1>2, <1>9

(* put_int() prints the digits of buf, highest first. *)
LEMMA PutIntBack ==
  ASSUME NEW num \in Nat, NEW base \in {8, 10, 16}, NEW r, NEW n, Digits(num, base, r, n)
  PROVE  Backwards(r, n, base, put_int(num, base)) /\ Len(put_int(num, base)) = n
<1> DEFINE b == buf(num, base)
           d == put_int(num, base)
<1>1. Digits(num, base, r, n)
  OBVIOUS
<1>2. n \in Nat \ {0} /\ (\A k \in 0..n : r[k] \in Nat) /\ n \in 1..n
  BY <1>1, DigitsFacts
<1>3. b = [i \in 1..n |-> r[i - 1] % base]
  BY <1>1 DEF Digits
<1> HIDE DEF d, b
<1>4. b \in [1..n -> Nat]
  <2>1. ASSUME NEW i \in 1..n  PROVE r[i - 1] % base \in Nat
    <3>1. i - 1 \in 0..n
      BY <1>2
    <3>. QED  BY <1>2, <3>1, BaseFacts
  <2>. QED  BY <1>3, <2>1
<1>5. d = [j \in 1..n |-> b[n + 1 - j]]
  <2>1. n \in Nat \ {0}
    BY <1>2
  <2>2. buf(num, base) = b
    BY DEF b
  <2>3. put_int(num, base) = [j \in 1..n |-> b[n + 1 - j]]
    BY <1>4, <2>1, <2>2, PutIntReverses
  <2>. QED  BY <2>3 DEF d
<1>6. Backwards(r, n, base, d)
  <2>1. \A j \in 1..n : n + 1 - j \in 1..n
    BY <1>2
  <2>2. d \in [1..n -> Nat]
    BY <1>4, <1>5, <2>1
  <2>3. ASSUME NEW j \in 1..n  PROVE d[j] = r[n - j] % base
    <3> DEFINE i == n + 1 - j
    <3>1. i \in 1..n /\ i - 1 = n - j
      BY <1>2, <2>1
    <3>2. d[j] = b[i]
      BY <1>5
    <3> HIDE DEF i
    <3>3. b[i] = r[i - 1] % base
      BY <1>3, <3>1
    <3>. QED  BY <3>1, <3>2, <3>3
  <2>. QED  BY <2>2, <2>3 DEF Backwards
<1>7. Len(d) = n
  BY <1>2, <1>6, LenIs DEF Backwards
<1>. QED  BY <1>6, <1>7 DEF d

LEMMA PutIntExact ==
  ASSUME NEW num \in Nat, num < U32, NEW base \in {8, 10, 16}
  PROVE  Exact(num, base)
<1> DEFINE r == Rest(num, base)
           n == Count(num, base)
           d == put_int(num, base)
<1>1. Digits(num, base, r, n)
  BY BufIs
<1> HIDE DEF r, n
<1>2. n \in Nat \ {0} /\ (\A k \in 0..n : r[k] \in Nat) /\ n \in 1..n
  BY <1>1, DigitsFacts
<1>6. Backwards(r, n, base, d) /\ Len(d) = n
  BY <1>1, PutIntBack
<1> HIDE DEF d
<1>7. Value(d, base) = num
  BY <1>1, <1>6, ValueBack
<1>8. Len(d) = n
  BY <1>6
<1>9. n > 1 => d[1] # 0
  <2> SUFFICES ASSUME n > 1  PROVE d[1] # 0
    OBVIOUS
  <2>1. r[n - 1] # 0 /\ r[n] = 0
    BY <1>1 DEF Digits
  <2>4. r[n] = r[n - 1] \div base /\ r[n - 1] \in Nat
    BY <1>1, <1>2, DigitsFacts
  <2>2. r[n - 1] = (r[n - 1] \div base) * base + (r[n - 1] % base)
    BY <2>4, BaseFacts
  <2>3. d[1] = r[n - 1] % base
    BY <1>2, <1>6 DEF Backwards
  <2>. QED  BY <2>1, <2>2, <2>3, <2>4
<1>. QED  BY <1>7, <1>8, <1>9 DEF Exact, d

(* The number of digits: once a division leaves 0, all later ones do. *)
LEMMA FewDigits ==
  ASSUME NEW num \in Nat, NEW base \in {8, 10, 16}, NEW r, NEW n, Digits(num, base, r, n), r[10] = 0
  PROVE  n <= 10
<1>1. /\ \A k \in 1..Bits : r[k] = r[k - 1] \div base
      /\ n \in 1..Bits /\ (num = 0 => n = 1) /\ (num # 0 => r[n - 1] # 0)
  BY DEF Digits
<1> DEFINE S == {k \in Nat : k + 10 <= Bits => r[k + 10] = 0}
<1>2. 0 \in S
  OBVIOUS
<1>3. ASSUME NEW k \in Nat, k \in S  PROVE k + 1 \in S
  <2> SUFFICES ASSUME k + 1 + 10 <= Bits  PROVE r[k + 1 + 10] = 0
    OBVIOUS
  <2>1. k + 1 + 10 \in 1..Bits /\ k + 1 + 10 - 1 = k + 10 /\ k + 10 <= Bits
    BY BitsIs
  <2>2. r[k + 10] = 0
    BY <1>3, <2>1
  <2>3. r[k + 1 + 10] = r[k + 1 + 10 - 1] \div base
    BY <1>1, <2>1
  <2>4. 0 \div base = 0
    OBVIOUS
  <2>. QED  BY <2>1, <2>2, <2>3, <2>4
<1>4. Nat \subseteq S
  <2> HIDE DEF S
  <2>. QED  BY <1>2, <1>3, SetInduction
<1>5. CASE num = 0
  BY <1>1, <1>5
<1>6. CASE num # 0
  <2> SUFFICES ASSUME n > 10  PROVE FALSE
    BY <1>1, BitsIs
  <2>1. n - 11 \in Nat /\ n - 11 + 10 = n - 1 /\ n - 1 <= Bits
    BY <1>1, BitsIs
  <2>2. n - 11 \in S
    BY <1>4, <2>1
  <2>. QED  BY <1>1, <1>6, <2>1, <2>2
<1>. QED  BY <1>5, <1>6

(* Ten divisions by the base b leave nothing of a number below b^10.        *)
LEMMA TenDivisions ==
  ASSUME NEW num \in Nat, NEW base \in {8, 10, 16}, NEW r, NEW n, Digits(num, base, r, n),
         IF base = 8 THEN num < 1024 * 1024 * 1024 ELSE num < U32
  PROVE  r[10] = 0
<1>1. /\ r \in [0..Bits -> Nat] /\ r[0] = num
      /\ \A k \in 1..Bits : r[k] = r[k - 1] \div base
  BY DEF Digits
<1>2. ASSUME NEW k \in 0..9  PROVE r[k] \in Nat /\ r[k + 1] = r[k] \div base
  <2>1. k \in 0..Bits /\ k + 1 \in 1..Bits /\ k + 1 - 1 = k
    BY BitsIs
  <2>. QED  BY <1>1, <2>1
<1>3. CASE base = 8
  <2>1. ASSUME NEW k \in 0..9, NEW m \in Nat, r[k] < 8 * m  PROVE r[k + 1] < m
    BY <1>2, <1>3, <2>1
  <2>2. r[1] < 128 * 1024 * 1024
    <3>1. r[0] < 8 * (128 * 1024 * 1024)
      BY <1>1, <1>3
    <3>. QED  BY <2>1, <3>1
  <2>3. r[2] < 16 * 1024 * 1024
    BY <2>1, <2>2
  <2>4. r[3] < 2 * 1024 * 1024
    BY <2>1, <2>3
  <2>5. r[4] < 256 * 1024
    BY <2>1, <2>4
  <2>6. r[5] < 32 * 1024
    BY <2>1, <2>5
  <2>7. r[6] < 4 * 1024
    BY <2>1, <2>6
  <2>8. r[7] < 512
    BY <2>1, <2>7
  <2>9. r[8] < 64
    BY <2>1, <2>8
  <2>10. r[9] < 8
    BY <2>1, <2>9
  <2>11. r[10] < 1
    <3>1. r[9] < 8 * 1
      BY <2>10
    <3>2. 9 \in 0..9 /\ 1 \in Nat /\ 9 + 1 = 10
      OBVIOUS
    <3>3. r[9 + 1] < 1
      BY <2>1, <3>1, <3>2
    <3>. QED  BY <3>2, <3>3
  <2>12. 10 \in 0..Bits
    BY BitsIs
  <2>. QED  BY <1>1, <2>11, <2>12
<1>4. CASE base # 8
  <2>1. ASSUME NEW k \in 0..9, NEW m \in Nat, r[k] < 10 * m  PROVE r[k + 1] < m
    <3>1. CASE base = 10
      BY <1>2, <2>1, <3>1
    <3>2. CASE base = 16
      BY <1>2, <2>1, <3>2
    <3>. QED  BY <1>4, <3>1, <3>2
  <2>2. r[1] < 429496730
    <3>1. r[0] < 10 * 429496730
      BY <1>1, <1>4 DEF U32
    <3>. QED  BY <2>1, <3>1
  <2>3. r[2] < 42949673
    BY <2>1, <2>2
  <2>4. r[3] < 4294968
    BY <1>2, <2>1, <2>3
  <2>5. r[4] < 429497
    BY <1>2, <2>1, <2>4
  <2>6. r[5] < 42950
    BY <1>2, <2>1, <2>5
  <2>7. r[6] < 4295
    BY <1>2, <2>1, <2>6
  <2>8. r[7] < 430
    BY <1>2, <2>1, <2>7
  <2>9. r[8] < 43
    BY <2>1, <2>8
  <2>10. r[9] < 5
    BY <1>2, <2>1, <2>9
  <2>11. r[10] < 1
    <3>1. r[9] < 10 * 1
      BY <1>2, <2>10
    <3>2. 9 \in 0..9 /\ 1 \in Nat /\ 9 + 1 = 10
      OBVIOUS
    <3>3. r[9 + 1] < 1
      BY <2>1, <3>1, <3>2
    <3>. QED  BY <3>2, <3>3
  <2>12. 10 \in 0..Bits
    BY BitsIs
  <2>. QED  BY <1>1, <2>11, <2>12
<1>. QED  BY <1>3, <1>4

(* put_int() prints the number it was given, for every u32 and in each base *)
(* of printf(): the digits that the loop of divisions leaves in buf and the *)
(* loop of swaps turns round stand for the number, and the first is not 0.  *)
(* They are at most ten, so that they and the '\0' fit into buf[11], in     *)
(* decimal and hexadecimal; in octal only for numbers below 2^30.           *)
THEOREM PutIntPrints ==
  \A num \in Nat, base \in {8, 10, 16} :
    num < U32 => /\ Exact(num, base)
                 /\ (base = 8 => num < 1024 * 1024 * 1024) => Len(put_int(num, base)) <= 10
<1> SUFFICES ASSUME NEW num \in Nat, NEW base \in {8, 10, 16}, num < U32
             PROVE  /\ Exact(num, base)
                    /\ (base = 8 => num < 1024 * 1024 * 1024) => Len(put_int(num, base)) <= 10
  OBVIOUS
<1>1. Exact(num, base)
  BY PutIntExact
<1>2. ASSUME base = 8 => num < 1024 * 1024 * 1024  PROVE Len(put_int(num, base)) <= 10
  <2> DEFINE r == Rest(num, base)
             n == Count(num, base)
  <2>1. Digits(num, base, r, n)
    BY BufIs
  <2> HIDE DEF r, n
  <2>2. n <= 10
    <3>1. IF base = 8 THEN num < 1024 * 1024 * 1024 ELSE num < U32
      BY <1>2
    <3>2. r[10] = 0
      BY <2>1, <3>1, TenDivisions
    <3>. QED  BY <2>1, <3>2, FewDigits
  <2>3. Len(put_int(num, base)) = n
    BY <2>1, PutIntBack
  <2>. QED  BY <2>2, <2>3
<1>. QED  BY <1>1, <1>2

=============================================================================
