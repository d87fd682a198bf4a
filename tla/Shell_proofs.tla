---------------------------- MODULE Shell_proofs ----------------------------
(***************************************************************************)
(* Proofs about Shell for every size of the screen, of the line and of the *)
(* history: the history lists the latest commands, and every store of      *)
(* print hits the screen, also while keys and the first prompt mix.        *)
(***************************************************************************)
EXTENDS Shell, SequenceTheorems, WellFoundedInduction, TLAPS

(* A nonempty set of natural numbers has a least element. *)
LEMMA LeastElement ==
  ASSUME NEW S \in SUBSET Nat, S # {}
  PROVE  \E m \in S : \A k \in S : m <= k
<1>1. PICK R : R = OpToRel(<, Nat)
  OBVIOUS
<1>2. PICK m \in S : \A k \in S : <<k, m>> \notin R
  BY <1>1, NatLessThanWellFounded, WFMin
<1>3. \A k \in S : ~(k < m)
  BY <1>1, <1>2 DEF OpToRel
<1> QED BY <1>3

(* What holds of 0, and of a number when it holds of the one before, holds *)
(* of every number: here a property is the set of the numbers that have it.*)
LEMMA SetInduction ==
  ASSUME NEW P, NEW n \in Nat, 0 \in P,
         \A i \in 1 .. n : i - 1 \in P => i \in P
  PROVE  \A i \in 0 .. n : i \in P
<1> SUFFICES ASSUME NEW S, S = {i \in 0 .. n : i \notin P}, S # {} PROVE FALSE
  OBVIOUS
<1>1. S \in SUBSET Nat
  OBVIOUS
<1>2. PICK m \in S : \A k \in S : m <= k
  BY <1>1, LeastElement
<1>3. m \in 1 .. n /\ m - 1 \in 0 .. n /\ m - 1 \notin S
  BY <1>2
<1> QED BY <1>2, <1>3

-----------------------------------------------------------------------------
(* The line and the history.                                               *)

(* The beginning of a sequence. *)
LEMMA Prefix ==
  ASSUME NEW S, NEW s \in Seq(S), NEW n \in 0 .. Len(s)
  PROVE  /\ SubSeq(s, 1, n) \in Seq(S) /\ Len(SubSeq(s, 1, n)) = n
         /\ \A i \in 1 .. n : SubSeq(s, 1, n)[i] = s[i]
<1>1. \A i \in 1 .. n : s[i] \in S
  OBVIOUS
<1>2. /\ SubSeq(s, 1, n) \in Seq(S)
      /\ Len(SubSeq(s, 1, n)) = IF 1 <= n THEN n - 1 + 1 ELSE 0
      /\ \A i \in 1 .. n - 1 + 1 : SubSeq(s, 1, n)[i] = s[1 + i - 1]
  <2>1. 1 \in Int /\ n \in Int
    OBVIOUS
  <2> QED BY <1>1, <2>1, SubSeqProperties
<1>3. Len(SubSeq(s, 1, n)) = n
  BY <1>2
<1>4. ASSUME NEW i \in 1 .. n PROVE SubSeq(s, 1, n)[i] = s[i]
  <2>1. i \in 1 .. n - 1 + 1 /\ 1 + i - 1 = i
    OBVIOUS
  <2> QED BY <1>2, <2>1
<1> QED BY <1>2, <1>3, <1>4

(* The history's rows hold what commands remembers; behind them the array  *)
(* goes on to its end.                                                     *)
Kept == /\ shell_buf \in Seq(Typed) /\ Len(shell_buf) < SHELL_BUFFER_SIZE
        /\ commands \in Seq(Seq(Typed))
        /\ history_count = Len(commands) /\ history_count <= HISTORY_SIZE
        /\ 0 .. HISTORY_SIZE - 1 \subseteq DOMAIN history
        /\ \A i \in 1 .. Len(commands) : history[i - 1] = commands[i]

(* Moving the rows up by one and saving the new line in front keeps the    *)
(* history and the latest commands alike, also when the history is full.   *)
LEMMA SaveKeeps ==
  ASSUME Kept, NEW cmd \in Seq(Typed), history_save(cmd),
         commands' = SubSeq(<<cmd>> \o commands, 1,
                       IF Len(commands) < HISTORY_SIZE THEN Len(commands) + 1
                       ELSE HISTORY_SIZE)
  PROVE  /\ commands' \in Seq(Seq(Typed))
         /\ history_count' = Len(commands') /\ history_count' <= HISTORY_SIZE
         /\ 0 .. HISTORY_SIZE - 1 \subseteq DOMAIN history'
         /\ \A i \in 1 .. Len(commands') : history'[i - 1] = commands'[i]
<1> DEFINE all  == <<cmd>> \o commands
           size == IF Len(commands) < HISTORY_SIZE THEN Len(commands) + 1
                   ELSE HISTORY_SIZE
<1>1. HISTORY_SIZE \in Nat \ {0} /\ Len(commands) \in Nat /\ Len(commands) <= HISTORY_SIZE
  BY ShellAssumption DEF Kept
<1>2. all \in Seq(Seq(Typed)) /\ Len(all) = Len(commands) + 1
      /\ all[1] = cmd /\ \A i \in 2 .. Len(all) : all[i] = commands[i - 1]
  <2>1. <<cmd>> \in Seq(Seq(Typed)) /\ Len(<<cmd>>) = 1 /\ <<cmd>>[1] = cmd
    OBVIOUS
  <2> QED BY <1>1, <2>1 DEF Kept
<1>3. size \in 1 .. Len(all) /\ size <= HISTORY_SIZE
  BY <1>1, <1>2
<1>4. commands' \in Seq(Seq(Typed)) /\ Len(commands') = size
      /\ \A i \in 1 .. size : commands'[i] = all[i]
  <2> HIDE DEF all
  <2>1. commands' = SubSeq(all, 1, size)
    BY DEF all
  <2> HIDE DEF size
  <2>2. size \in 0 .. Len(all)
    BY <1>2, <1>3
  <2> QED BY <1>2, <2>1, <2>2, Prefix
<1>5. history_count' = size
  BY <1>1 DEF history_save, Kept
<1>6. DOMAIN history' = DOMAIN history \cup (0 .. Len(commands))
  BY DEF history_save, Moved, Kept
<1>7. ASSUME NEW i \in 1 .. size PROVE history'[i - 1] = commands'[i]
  <2>1. i - 1 \in 0 .. Len(commands) /\ i \in 1 .. Len(all)
    BY <1>1, <1>2, <1>3
  <2>2. history'[i - 1] = IF i - 1 = 0 THEN cmd ELSE history[i - 2]
    BY <1>1, <2>1 DEF history_save, Moved, Kept
  <2>3. CASE i = 1
    BY <1>2, <1>4, <2>2, <2>3
  <2>4. CASE i # 1
    <3>1. i - 1 \in 1 .. Len(commands) /\ i \in 2 .. Len(all)
      BY <1>1, <1>2, <2>1, <2>4
    <3>2. history[(i - 1) - 1] = commands[i - 1]
      BY <3>1 DEF Kept
    <3>3. (i - 1) - 1 = i - 2 /\ i - 1 # 0
      BY <2>4
    <3> HIDE DEF all, size
    <3> QED BY <1>2, <1>4, <2>2, <3>1, <3>2, <3>3
  <2> QED BY <2>3, <2>4
<1> HIDE DEF all, size
<1> QED BY <1>1, <1>3, <1>4, <1>5, <1>6, <1>7 DEF Kept

(* Enter on any line, for any command. *)
LEMMA EnterKeeps ==
  ASSUME Kept, NEW out, Enter(out)
  PROVE  Kept'
<1>1. shell_buf' = <<>> /\ shell_buf' \in Seq(Typed) /\ Len(shell_buf') < SHELL_BUFFER_SIZE
  BY ShellAssumption DEF Enter
<1>2. CASE shell_buf = <<>>
  <2>1. UNCHANGED <<history, history_count, commands>>
    BY <1>2 DEF Enter
  <2> QED BY <1>1, <2>1 DEF Kept
<1>3. CASE shell_buf # <<>>
  <2>1. /\ history_save(shell_buf)
        /\ commands' = SubSeq(<<shell_buf>> \o commands, 1,
                         IF Len(commands) < HISTORY_SIZE THEN Len(commands) + 1
                         ELSE HISTORY_SIZE)
    BY <1>3 DEF Enter
  <2>2. shell_buf \in Seq(Typed)
    BY DEF Kept
  <2> QED BY <1>1, <2>1, <2>2, SaveKeeps DEF Kept
<1> QED BY <1>2, <1>3

(* Every step keeps the history. *)
LEMMA StepKeeps ==
  ASSUME Kept, [Next]_vars
  PROVE  Kept'
<1>1. CASE BootPlace
  BY <1>1 DEF BootPlace, line, Kept
<1>2. CASE BootStore
  BY <1>2 DEF BootStore, line, Kept
<1>3. ASSUME NEW out \in Outputs, Enter(out) PROVE Kept'
  BY <1>3, EnterKeeps
<1>4. ASSUME NEW name \in PromptNames, SetPrompt(name) PROVE Kept'
  BY <1>4, EnterKeeps DEF SetPrompt
<1>5. CASE Backspace
  <2>1. shell_buf' \in Seq(Typed) /\ Len(shell_buf') < SHELL_BUFFER_SIZE
    <3>1. Len(shell_buf) \in Nat \ {0} /\ SHELL_BUFFER_SIZE \in Nat
      BY <1>5, ShellAssumption DEF Backspace, Kept
    <3>2. shell_buf' = SubSeq(shell_buf, 1, Len(shell_buf) - 1)
      BY <1>5 DEF Backspace
    <3>3. shell_buf' \in Seq(Typed) /\ Len(shell_buf') = Len(shell_buf) - 1
      <4>1. shell_buf \in Seq(Typed) /\ Len(shell_buf) - 1 \in 0 .. Len(shell_buf)
        BY <3>1 DEF Kept
      <4> QED BY <3>2, <4>1, Prefix
    <3> QED BY <3>1, <3>3 DEF Kept
  <2> QED BY <1>5, <2>1 DEF Backspace, Kept
<1>6. ASSUME NEW c \in Typed, Character(c) PROVE Kept'
  <2>1. shell_buf' \in Seq(Typed) /\ Len(shell_buf') < SHELL_BUFFER_SIZE
    BY <1>6, ShellAssumption DEF Character, Kept
  <2> QED BY <1>6, <2>1 DEF Character, Kept
<1>7. CASE UNCHANGED vars
  BY <1>7 DEF vars, line, Kept
<1> QED BY <1>1, <1>2, <1>3, <1>4, <1>5, <1>6, <1>7 DEF Next

(* The history lists the last commands, each once, the latest first: what  *)
(* history_save does to the array, for every HISTORY_SIZE.                 *)
THEOREM HistoryTrue == Spec => []HistoryIsRecent
<1>1. Init => Kept
  BY ShellAssumption DEF Init, Kept
<1>2. Kept => HistoryIsRecent
  BY DEF Kept, HistoryIsRecent
<1> QED BY <1>1, <1>2, StepKeeps, PTL DEF Spec

-----------------------------------------------------------------------------
(* The screen.                                                             *)

(* A record of a cursor on the screen and of the screen's cells. *)
IsScreen(s) == s = [column |-> s.column, line |-> s.line, vga |-> s.vga] /\ OnScreen(s)

(* Rows do not overlap and end in the array: the last cell of the last row *)
(* is the last one of the screen.                                          *)
LEMMA RowsFit ==
  ASSUME NEW w \in Nat \ {0}, NEW h \in Nat \ {0}, NEW l \in 0 .. h - 1, NEW c \in 0 .. w
  PROVE  /\ l * w + c \in 0 .. w * h
         /\ c < w => l * w + c \in 0 .. w * h - 1
<1>1. l * w \in Nat /\ (h - 1) * w \in Nat /\ l * w <= (h - 1) * w
  OBVIOUS
<1>2. (h - 1) * w + w = w * h
  OBVIOUS
<1> QED BY <1>1, <1>2

(* Where a cursor on the screen points. *)
LEMMA CursorOnScreen ==
  ASSUME NEW s, IsScreen(s)
  PROVE  /\ CursorAt(s) \in 0 .. VGAWidth * VGAHeight
         /\ s.column < VGAWidth => CursorAt(s) \in ScreenCells
<1>1. VGAWidth \in Nat \ {0} /\ VGAHeight \in Nat \ {0}
  BY VgaAssumption
<1>2. s.line \in 0 .. VGAHeight - 1 /\ s.column \in 0 .. VGAWidth
  BY DEF IsScreen, OnScreen
<1> QED BY <1>1, <1>2, RowsFit DEF CursorAt, ScreenCells

(* A store at a cursor before the end of its row hits the screen. *)
LEMMA StoreHits ==
  ASSUME NEW s, IsScreen(s), s.column < VGAWidth, NEW c
  PROVE  IsScreen(Store(s, c)) /\ Store(s, c).column = s.column
                               /\ Store(s, c).line = s.line
<1>1. CursorAt(s) \in ScreenCells
  BY CursorOnScreen
<1> DEFINE cells == [i \in DOMAIN s.vga \cup {CursorAt(s)} |->
                       IF i = CursorAt(s) THEN c ELSE s.vga[i]]
<1>2. DOMAIN cells = ScreenCells
  BY <1>1 DEF IsScreen, OnScreen
<1>3. Store(s, c) = [column |-> s.column, line |-> s.line, vga |-> cells]
  <2>1. Store(s, c) = [s EXCEPT !.vga = cells]
    BY DEF Store
  <2>2. s = [column |-> s.column, line |-> s.line, vga |-> s.vga]
    BY DEF IsScreen
  <2> HIDE DEF cells
  <2> QED BY <2>1, <2>2
<1> HIDE DEF cells
<1> QED BY <1>2, <1>3 DEF IsScreen, OnScreen

(* A new line, scrolled to or not, leaves the cursor on the screen. *)
LEMMA LineStays ==
  ASSUME NEW s, IsScreen(s)
  PROVE  IsScreen(newLine(s)) /\ newLine(s).column = 0
<1>1. VGAWidth \in Nat \ {0} /\ VGAHeight \in Nat \ {0}
  BY VgaAssumption
<1>2. s = [column |-> s.column, line |-> s.line, vga |-> s.vga]
      /\ s.column \in 0 .. VGAWidth /\ s.line \in 0 .. VGAHeight - 1
      /\ DOMAIN s.vga = ScreenCells
  BY DEF IsScreen, OnScreen
<1>3. CASE s.line < VGAHeight - 1
  <2>1. newLine(s) = [column |-> 0, line |-> s.line + 1, vga |-> s.vga]
    BY <1>2, <1>3 DEF newLine
  <2> QED BY <1>1, <1>2, <1>3, <2>1 DEF IsScreen, OnScreen
<1>4. CASE ~(s.line < VGAHeight - 1)
  <2> DEFINE cells == [i \in DOMAIN s.vga |->
                         IF i < (VGAHeight - 1) * VGAWidth THEN s.vga[i + VGAWidth]
                                                           ELSE " "]
  <2>1. newLine(s) = [column |-> 0, line |-> s.line, vga |-> cells]
    <3>1. newLine(s) = [[s EXCEPT !.vga = cells] EXCEPT !.column = 0]
      BY <1>4 DEF newLine, scrollUp
    <3> HIDE DEF cells
    <3> QED BY <1>2, <3>1
  <2>2. DOMAIN cells = ScreenCells
    BY <1>2
  <2> HIDE DEF cells
  <2> QED BY <1>1, <1>2, <2>1, <2>2 DEF IsScreen, OnScreen
<1> QED BY <1>3, <1>4

(* After the check for the end of the row there is room for a character.   *)
LEMMA WrapMakesRoom ==
  ASSUME NEW s, IsScreen(s)
  PROVE  /\ IsScreen(Wrap(s)) /\ Wrap(s).column < VGAWidth
         /\ Wrap(s).column <= s.column
         /\ s.column < VGAWidth => Wrap(s) = s
<1>1. VGAWidth \in Nat \ {0} /\ s.column \in 0 .. VGAWidth
  BY VgaAssumption DEF IsScreen, OnScreen
<1> QED BY <1>1, LineStays DEF Wrap

(* A character of text takes one cell, in the next row if need be. *)
LEMMA TextStays ==
  ASSUME NEW s, IsScreen(s), NEW c
  PROVE  /\ IsScreen(PutText(s, c))
         /\ PutText(s, c).column <= s.column + 1
         /\ s.column < VGAWidth => PutText(s, c).column = s.column + 1
<1>1. VGAWidth \in Nat \ {0} /\ s.column \in 0 .. VGAWidth
  BY VgaAssumption DEF IsScreen, OnScreen
<1> DEFINE w == Wrap(s)
           t == Store(w, c)
<1>2. IsScreen(w) /\ w.column < VGAWidth /\ w.column <= s.column
      /\ (s.column < VGAWidth => w = s)
  BY WrapMakesRoom
<1>3. IsScreen(t) /\ t.column = w.column
  <2> HIDE DEF w
  <2> QED BY <1>2, StoreHits
<1>4. PutText(s, c) = [t EXCEPT !.column = @ + 1]
  BY DEF PutText
<1> HIDE DEF w, t
<1>5. PutText(s, c) = [column |-> t.column + 1, line |-> t.line, vga |-> t.vga]
  BY <1>3, <1>4 DEF IsScreen
<1>6. w.column \in 0 .. VGAWidth
  BY <1>2 DEF IsScreen, OnScreen
<1> QED BY <1>1, <1>2, <1>3, <1>5, <1>6 DEF IsScreen, OnScreen

(* Backspace erases a cell of the screen, and across the end of a row the  *)
(* last cell of the row before; in the first cell it does nothing.         *)
LEMMA BackStays ==
  ASSUME NEW s, IsScreen(s)
  PROVE  /\ IsScreen(PutBack(s))
         /\ s.column > 0 => PutBack(s).column = s.column - 1
<1>1. VGAWidth \in Nat \ {0} /\ VGAHeight \in Nat \ {0}
  BY VgaAssumption
<1>2. s = [column |-> s.column, line |-> s.line, vga |-> s.vga]
      /\ s.column \in 0 .. VGAWidth /\ s.line \in 0 .. VGAHeight - 1
      /\ DOMAIN s.vga = ScreenCells
  BY DEF IsScreen, OnScreen
<1> DEFINE t == IF s.column = 0 /\ s.line # 0
                THEN [s EXCEPT !.line = @ - 1, !.column = VGAWidth] ELSE s
<1>3. IsScreen(t) /\ (s.column > 0 => t = s)
  <2>1. CASE s.column = 0 /\ s.line # 0
    <3>1. t = [column |-> VGAWidth, line |-> s.line - 1, vga |-> s.vga]
      BY <1>2, <2>1
    <3> HIDE DEF t
    <3> QED BY <1>1, <1>2, <2>1, <3>1 DEF IsScreen, OnScreen
  <2>2. CASE ~(s.column = 0 /\ s.line # 0)
    BY <1>2, <2>2
  <2> QED BY <2>1, <2>2
<1>4. PutBack(s) = IF t.column > 0 THEN Store([t EXCEPT !.column = @ - 1], " ") ELSE t
  BY DEF PutBack
<1> HIDE DEF t
<1>5. CASE t.column > 0
  <2> DEFINE u == [t EXCEPT !.column = @ - 1]
  <2>1. u = [column |-> t.column - 1, line |-> t.line, vga |-> t.vga]
    BY <1>3 DEF IsScreen
  <2>2. PutBack(s) = Store(u, " ")
    BY <1>4, <1>5
  <2> HIDE DEF u
  <2>3. IsScreen(u) /\ u.column < VGAWidth /\ u.column = t.column - 1
    BY <1>1, <1>3, <1>5, <2>1 DEF IsScreen, OnScreen
  <2> QED BY <1>3, <2>2, <2>3, StoreHits
<1>6. CASE ~(t.column > 0)
  BY <1>3, <1>4, <1>6
<1> QED BY <1>5, <1>6

(* A tab goes at least one cell on, at most four, and not beyond the row.  *)
LEMMA TabStays ==
  ASSUME NEW s, IsScreen(s)
  PROVE  /\ IsScreen(PutTab(s))
         /\ PutTab(s).column <= s.column + 4
         /\ s.column < VGAWidth => PutTab(s).column > s.column
<1>1. VGAWidth \in Nat \ {0} /\ s.column \in 0 .. VGAWidth
  BY VgaAssumption DEF IsScreen, OnScreen
<1> DEFINE t    == Wrap(s)
           stop == t.column + 4 - (t.column % 4)
           end  == IF stop < VGAWidth THEN stop ELSE VGAWidth
           to   == [t EXCEPT !.column = end]
           hit  == CursorAt(t) .. CursorAt(to) - 1
           cells == [i \in DOMAIN t.vga \cup hit |-> IF i \in hit THEN " " ELSE t.vga[i]]
<1>2. IsScreen(t) /\ t.column < VGAWidth /\ t.column <= s.column
      /\ (s.column < VGAWidth => t = s)
  BY WrapMakesRoom
<1>3. PutTab(s) = [to EXCEPT !.vga = cells]
  BY DEF PutTab
<1> HIDE DEF t
<1>4. t.column \in 0 .. VGAWidth
  BY <1>2 DEF IsScreen, OnScreen
<1>5. end \in 0 .. VGAWidth /\ end > t.column /\ end <= t.column + 4
  BY <1>1, <1>2, <1>4
<1> HIDE DEF end
<1>6. to = [column |-> end, line |-> t.line, vga |-> t.vga]
  BY <1>2 DEF IsScreen
<1> HIDE DEF to
<1>7. IsScreen(to)
  BY <1>2, <1>5, <1>6 DEF IsScreen, OnScreen
<1>8. CursorAt(t) \in 0 .. VGAWidth * VGAHeight /\ CursorAt(to) \in 0 .. VGAWidth * VGAHeight
  BY <1>2, <1>7, CursorOnScreen
<1>9. hit \subseteq ScreenCells
  <2>1. VGAWidth * VGAHeight \in Nat
    BY VgaAssumption
  <2> QED BY <1>8, <2>1 DEF ScreenCells
<1> HIDE DEF hit
<1>10. DOMAIN cells = ScreenCells
  <2>1. DOMAIN t.vga = ScreenCells
    BY <1>2 DEF IsScreen, OnScreen
  <2> QED BY <1>9, <2>1
<1> HIDE DEF cells
<1>11. PutTab(s) = [column |-> end, line |-> t.line, vga |-> cells]
  BY <1>3, <1>6
<1> QED BY <1>1, <1>2, <1>4, <1>5, <1>10, <1>11 DEF IsScreen, OnScreen

(* One turn of the loop of print: whatever the character, the cursor stays *)
(* on the screen and the store hits it.                                    *)
LEMMA CharStays ==
  ASSUME NEW s, IsScreen(s), NEW c
  PROVE  /\ IsScreen(PutChar(s, c))
         /\ c \in {"LF", "CR"} => PutChar(s, c).column = 0
         /\ c = "BS" => (s.column > 0 => PutChar(s, c).column = s.column - 1)
         /\ c = "TAB" => /\ PutChar(s, c).column <= s.column + 4
                         /\ s.column < VGAWidth => PutChar(s, c).column > s.column
         /\ c \notin Controls => /\ PutChar(s, c).column <= s.column + 1
                                 /\ s.column < VGAWidth => PutChar(s, c).column = s.column + 1
<1>1. CASE c = "LF"
  <2>1. PutChar(s, c) = newLine(s)
    BY <1>1 DEF PutChar
  <2> QED BY <1>1, <2>1, LineStays DEF Controls
<1>2. CASE c = "CR"
  <2>1. PutChar(s, c) = [s EXCEPT !.column = 0]
    BY <1>2 DEF PutChar
  <2>2. PutChar(s, c) = [column |-> 0, line |-> s.line, vga |-> s.vga]
    BY <2>1 DEF IsScreen
  <2>3. IsScreen(PutChar(s, c)) /\ PutChar(s, c).column = 0
    BY <2>2, VgaAssumption DEF IsScreen, OnScreen
  <2> QED BY <1>2, <2>3 DEF Controls
<1>3. CASE c = "BS"
  <2>1. PutChar(s, c) = PutBack(s)
    BY <1>3 DEF PutChar
  <2> QED BY <1>3, <2>1, BackStays DEF Controls
<1>4. CASE c = "TAB"
  <2>1. PutChar(s, c) = PutTab(s)
    BY <1>4 DEF PutChar
  <2> QED BY <1>4, <2>1, TabStays DEF Controls
<1>5. CASE c \notin Controls
  <2>1. PutChar(s, c) = PutText(s, c)
    BY <1>5 DEF PutChar, Controls
  <2> QED BY <1>5, <2>1, TextStays DEF Controls
<1> QED BY <1>1, <1>2, <1>3, <1>4, <1>5 DEF Controls

(* The screens that print goes through. *)
Printing(f, n, s, str) ==
  f = [i \in 0 .. n |-> IF i = 0 THEN s ELSE PutChar(f[i - 1], str[i])]

(* There are such screens: print is defined by recursion. *)
LEMMA PrintingExists ==
  ASSUME NEW n \in Nat, NEW s, NEW str
  PROVE  \E f : Printing(f, n, s, str)
<1> DEFINE P == {m \in 0 .. n : \E f : Printing(f, m, s, str)}
<1>1. 0 \in P
  <2>1. Printing([i \in 0 .. 0 |-> s], 0, s, str)
    BY DEF Printing
  <2> QED BY <2>1
<1>2. ASSUME NEW m \in 1 .. n, m - 1 \in P PROVE m \in P
  <2>1. PICK g : Printing(g, m - 1, s, str)
    BY <1>2
  <2> DEFINE f == [i \in 0 .. m |-> IF i < m THEN g[i] ELSE PutChar(g[m - 1], str[m])]
  <2>2. ASSUME NEW i \in 0 .. m
        PROVE  f[i] = IF i = 0 THEN s ELSE PutChar(f[i - 1], str[i])
    <3>1. CASE i = 0
      BY <2>1, <3>1 DEF Printing
    <3>2. CASE i # 0 /\ i < m
      <4>1. i \in 0 .. m - 1 /\ i - 1 \in 0 .. m /\ i - 1 < m
        BY <3>2
      <4>2. f[i] = g[i] /\ f[i - 1] = g[i - 1]
        BY <3>2, <4>1
      <4>3. g[i] = PutChar(g[i - 1], str[i])
        BY <2>1, <3>2, <4>1 DEF Printing
      <4> QED BY <3>2, <4>2, <4>3
    <3>3. CASE i = m
      <4>1. m # 0 /\ m - 1 \in 0 .. m /\ m - 1 < m
        OBVIOUS
      <4>2. f[m] = PutChar(g[m - 1], str[m]) /\ f[m - 1] = g[m - 1]
        BY <4>1
      <4> QED BY <3>3, <4>1, <4>2
    <3> QED BY <3>1, <3>2, <3>3
  <2>3. f = [i \in 0 .. m |-> f[i]]
    OBVIOUS
  <2>4. Printing(f, m, s, str)
    <3> HIDE DEF f
    <3> QED BY <2>2, <2>3, Zenon DEF Printing
  <2> HIDE DEF f
  <2> QED BY <2>4
<1>3. n \in P
  <2> HIDE DEF P
  <2> QED BY <1>1, <1>2, SetInduction
<1> QED BY <1>3

(* print applies PutChar to one character after the other. *)
LEMMA PrintSteps ==
  ASSUME NEW s, NEW str, Len(str) \in Nat
  PROVE  \E f : /\ f[0] = s /\ print(s, str) = f[Len(str)]
                /\ \A i \in 1 .. Len(str) : f[i] = PutChar(f[i - 1], str[i])
<1> DEFINE f == CHOOSE g : Printing(g, Len(str), s, str)
<1>1. Printing(f, Len(str), s, str)
  BY PrintingExists, Zenon
<1>2. print(s, str) = f[Len(str)]
  BY Zenon DEF print, Printing
<1> HIDE DEF f
<1>3. \A i \in 0 .. Len(str) : f[i] = IF i = 0 THEN s ELSE PutChar(f[i - 1], str[i])
  BY <1>1, Zenon DEF Printing
<1>4. f[0] = s
  BY <1>3
<1>5. \A i \in 1 .. Len(str) : f[i] = PutChar(f[i - 1], str[i])
  BY <1>3
<1> QED BY <1>2, <1>4, <1>5, Zenon

(* Whatever print is given, the screen stays one; after a line end at the  *)
(* end the cursor is at the left, and text moves it by one cell at most    *)
(* for each character.                                                     *)
LEMMA PrintStays ==
  ASSUME NEW s, IsScreen(s), NEW str, Len(str) \in Nat
  PROVE  /\ IsScreen(print(s, str))
         /\ Len(str) = 0 => print(s, str) = s
         /\ Len(str) # 0 /\ str[Len(str)] = "LF" => print(s, str).column = 0
         /\ (\A i \in 1 .. Len(str) : str[i] \notin Controls)
            => print(s, str).column <= s.column + Len(str)
<1>1. PICK f : /\ f[0] = s /\ print(s, str) = f[Len(str)]
               /\ \A i \in 1 .. Len(str) : f[i] = PutChar(f[i - 1], str[i])
  BY PrintSteps
<1>2. \A i \in 0 .. Len(str) : IsScreen(f[i])
  <2> DEFINE P == {j \in 0 .. Len(str) : IsScreen(f[j])}
  <2>1. 0 \in P
    BY <1>1
  <2>2. ASSUME NEW j \in 1 .. Len(str), j - 1 \in P PROVE j \in P
    BY <1>1, <2>2, CharStays
  <2>3. \A j \in 0 .. Len(str) : j \in P
    <3> HIDE DEF P
    <3> QED BY <2>1, <2>2, SetInduction
  <2> QED BY <2>3
<1>3. ASSUME Len(str) # 0, str[Len(str)] = "LF" PROVE print(s, str).column = 0
  <2>1. Len(str) \in 1 .. Len(str) /\ Len(str) - 1 \in 0 .. Len(str)
    BY <1>3
  <2> QED BY <1>1, <1>2, <1>3, <2>1, CharStays
<1>4. ASSUME \A i \in 1 .. Len(str) : str[i] \notin Controls
      PROVE  print(s, str).column <= s.column + Len(str)
  <2> DEFINE P == {j \in 0 .. Len(str) : f[j].column <= s.column + j}
  <2>0. \A i \in 0 .. Len(str) : f[i].column \in Int
    <3>1. \A i \in 0 .. Len(str) : f[i].column \in 0 .. VGAWidth
      BY <1>2 DEF IsScreen, OnScreen
    <3>2. \A x \in 0 .. VGAWidth : x \in Int
      BY VgaAssumption
    <3> QED BY <3>1, <3>2
  <2>1. 0 \in P
    <3>1. 0 \in 0 .. Len(str) /\ s.column \in Int
      BY <1>1, <2>0
    <3> QED BY <1>1, <3>1
  <2>2. ASSUME NEW j \in 1 .. Len(str), j - 1 \in P PROVE j \in P
    <3>1. j - 1 \in 0 .. Len(str) /\ j \in 0 .. Len(str)
      OBVIOUS
    <3>2. f[j].column <= f[j - 1].column + 1
      BY <1>1, <1>2, <1>4, <3>1, CharStays
    <3>3. f[j - 1].column <= s.column + (j - 1)
      BY <2>2
    <3>4. s.column \in Int /\ f[j].column \in Int /\ f[j - 1].column \in Int
      BY <1>1, <2>0, <3>1
    <3> QED BY <3>1, <3>2, <3>3, <3>4
  <2>3. \A j \in 0 .. Len(str) : j \in P
    <3> HIDE DEF P
    <3> QED BY <2>1, <2>2, SetInduction
  <2> QED BY <1>1, <2>3
<1> QED BY <1>1, <1>2, <1>3, <1>4

(* A key prints one character. *)
LEMMA PrintOne ==
  ASSUME NEW s, NEW c
  PROVE  print(s, <<c>>) = PutChar(s, c)
<1>1. Len(<<c>>) = 1 /\ <<c>>[1] = c
  OBVIOUS
<1>2. PICK f : /\ f[0] = s /\ print(s, <<c>>) = f[1]
               /\ \A i \in 1 .. 1 : f[i] = PutChar(f[i - 1], <<c>>[i])
  BY <1>1, PrintSteps
<1>3. f[1] = PutChar(f[0], c)
  BY <1>1, <1>2
<1> QED BY <1>2, <1>3

-----------------------------------------------------------------------------
(* The history on the screen.                                              *)

HistoryText(h, n) == <<ToString(n - 1), " ">> \o h[n - 1] \o <<"CR", "LF">>

(* A row of the history is text of some length that ends its line. *)
LEMMA HistoryTextEnds ==
  ASSUME NEW h, NEW n, h[n - 1] \in Seq(Typed)
  PROVE  /\ Len(HistoryText(h, n)) \in Nat \ {0}
         /\ HistoryText(h, n)[Len(HistoryText(h, n))] = "LF"
<1> DEFINE S == Typed \cup {ToString(n - 1), " ", "CR", "LF"}
           a == <<ToString(n - 1), " ">>
           b == h[n - 1]
           c == <<"CR", "LF">>
<1>1. a \in Seq(S) /\ c \in Seq(S) /\ Len(c) = 2 /\ c[2] = "LF"
  OBVIOUS
<1>2. b \in Seq(S)
  <2>1. b \in Seq(Typed) /\ Typed \subseteq S
    OBVIOUS
  <2> HIDE DEF S, b
  <2> QED BY <2>1, SeqMonotonic
<1>3. HistoryText(h, n) = (a \o b) \o c
  BY DEF HistoryText
<1> HIDE DEF S, a, b, c
<1>4. a \o b \in Seq(S) /\ Len(a \o b) \in Nat
  BY <1>1, <1>2
<1> DEFINE ab == a \o b
<1>5. ab \in Seq(S) /\ Len(ab) \in Nat /\ HistoryText(h, n) = ab \o c
  BY <1>3, <1>4
<1> HIDE DEF ab
<1>6. Len(ab \o c) = Len(ab) + 2 /\ (ab \o c)[Len(ab) + 2] = c[2]
  <2>1. Len(ab) + 2 \in 1 .. Len(ab) + Len(c) /\ ~(Len(ab) + 2 <= Len(ab))
        /\ Len(ab) + 2 - Len(ab) = 2
    BY <1>1, <1>5
  <2>2. /\ Len(ab \o c) = Len(ab) + Len(c)
        /\ \A i \in 1 .. Len(ab) + Len(c) :
             (ab \o c)[i] = IF i <= Len(ab) THEN ab[i] ELSE c[i - Len(ab)]
    BY <1>1, <1>5, ConcatProperties
  <2> QED BY <1>1, <1>5, <2>1, <2>2
<1> QED BY <1>1, <1>5, <1>6

(* The screens that the command history goes through. *)
Listing(f, n, s, h) ==
  f = [i \in 0 .. n |-> IF i = 0 THEN s ELSE print(f[i - 1], HistoryText(h, i))]

(* There are such screens: cmd_history is defined by recursion. *)
LEMMA ListingExists ==
  ASSUME NEW n \in Nat, NEW s, NEW h
  PROVE  \E f : Listing(f, n, s, h)
<1> DEFINE P == {m \in 0 .. n : \E f : Listing(f, m, s, h)}
<1>1. 0 \in P
  <2>1. Listing([i \in 0 .. 0 |-> s], 0, s, h)
    BY DEF Listing
  <2> QED BY <2>1
<1>2. ASSUME NEW m \in 1 .. n, m - 1 \in P PROVE m \in P
  <2>1. PICK g : Listing(g, m - 1, s, h)
    BY <1>2
  <2> DEFINE f == [i \in 0 .. m |->
                     IF i < m THEN g[i] ELSE print(g[m - 1], HistoryText(h, m))]
  <2>2. ASSUME NEW i \in 0 .. m
        PROVE  f[i] = IF i = 0 THEN s ELSE print(f[i - 1], HistoryText(h, i))
    <3>1. CASE i = 0
      BY <2>1, <3>1 DEF Listing
    <3>2. CASE i # 0 /\ i < m
      <4>1. i \in 0 .. m - 1 /\ i - 1 \in 0 .. m /\ i - 1 < m
        BY <3>2
      <4>2. f[i] = g[i] /\ f[i - 1] = g[i - 1]
        BY <3>2, <4>1
      <4>3. g[i] = print(g[i - 1], HistoryText(h, i))
        BY <2>1, <3>2, <4>1 DEF Listing
      <4> QED BY <3>2, <4>2, <4>3
    <3>3. CASE i = m
      <4>1. m # 0 /\ m - 1 \in 0 .. m /\ m - 1 < m
        OBVIOUS
      <4>2. f[m] = print(g[m - 1], HistoryText(h, m)) /\ f[m - 1] = g[m - 1]
        BY <4>1
      <4> QED BY <3>3, <4>1, <4>2
    <3> QED BY <3>1, <3>2, <3>3
  <2>3. f = [i \in 0 .. m |-> f[i]]
    OBVIOUS
  <2>4. Listing(f, m, s, h)
    <3> HIDE DEF f
    <3> QED BY <2>2, <2>3, Zenon DEF Listing
  <2> HIDE DEF f
  <2> QED BY <2>4
<1>3. n \in P
  <2> HIDE DEF P
  <2> QED BY <1>1, <1>2, SetInduction
<1> QED BY <1>3

(* The command history leaves a screen, and the cursor at the left when it *)
(* was there.                                                              *)
LEMMA HistoryStays ==
  ASSUME NEW s, IsScreen(s), s.column = 0, history_count' \in Nat,
         \A i \in 1 .. history_count' : history'[i - 1] \in Seq(Typed)
  PROVE  IsScreen(cmd_history(s)) /\ cmd_history(s).column = 0
<1> DEFINE n == history_count'
           h == history'
           f == CHOOSE g : Listing(g, n, s, h)
<1>1. Listing(f, n, s, h)
  <2> HIDE DEF n, h
  <2>1. n \in Nat
    BY DEF n
  <2> QED BY <2>1, ListingExists, Zenon
<1>2. cmd_history(s) = f[n]
  BY Zenon DEF cmd_history, Listing, HistoryText
<1>3. n \in Nat /\ \A i \in 1 .. n : h[i - 1] \in Seq(Typed)
  OBVIOUS
<1> HIDE DEF n, h, f
<1>4. \A i \in 0 .. n : f[i] = IF i = 0 THEN s ELSE print(f[i - 1], HistoryText(h, i))
  BY <1>1, Zenon DEF Listing
<1> DEFINE P == {i \in 0 .. n : IsScreen(f[i]) /\ f[i].column = 0}
<1>5. 0 \in P
  <2>1. 0 \in 0 .. n /\ f[0] = s
    BY <1>3, <1>4
  <2> QED BY <2>1
<1>6. ASSUME NEW i \in 1 .. n, i - 1 \in P PROVE i \in P
  <2>1. i \in 0 .. n /\ f[i] = print(f[i - 1], HistoryText(h, i))
    BY <1>4
  <2>2. /\ Len(HistoryText(h, i)) \in Nat \ {0}
        /\ HistoryText(h, i)[Len(HistoryText(h, i))] = "LF"
    BY <1>3, HistoryTextEnds
  <2> QED BY <1>6, <2>1, <2>2, PrintStays
<1>7. n \in P
  <2> HIDE DEF P
  <2>1. \A i \in 0 .. n : i \in P
    BY <1>3, <1>5, <1>6, SetInduction
  <2> QED BY <1>3, <2>1
<1> QED BY <1>2, <1>7

-----------------------------------------------------------------------------
(* The first prompt.                                                       *)

(* Until kmain has printed the first prompt it has a row to itself: each   *)
(* character of the line took a cell, and there is room for the rest of    *)
(* the prompt and for the keys that may still come, also when Enter prints *)
(* the whole prompt in between.                                            *)
Room == boot # <<>> =>
  /\ Len(shell_buf) <= scr.column
  /\ scr.column <= 2 * Len(Prompt(prompt_name)) - Len(boot) - 1
                   + KeyWidth * (EarlyKeys - early)

(* The rest of the prompt is shorter than the prompt, and a cell for its   *)
(* next character is one of the screen.                                    *)
Booting == /\ prompt_name \in PromptNames /\ early \in 0 .. EarlyKeys
           /\ boot # <<>> => prompt_name = FirstName
           /\ boot \in Seq(STRING) /\ Len(boot) <= Len(Prompt(prompt_name))
           /\ at \in ScreenCells \cup {Nowhere}
           /\ at # Nowhere => boot # <<>>
           /\ Room

ShellInv == Kept /\ IsScreen(scr) /\ Booting

(* The numbers of Room: p cells of prompt of which b are to be printed,    *)
(* keys of k cells, e of them at most and r still to come, w cells in all. *)
LEMMA RoomLeft ==
  ASSUME NEW p \in Nat, NEW b \in 1 .. p, NEW k \in {1, 4}, NEW e \in Nat, NEW r \in 0 .. e,
         NEW w \in Nat, 2 * p + k * e <= w + 1
  PROVE  /\ 2 * p - b - 1 + k * (e - r) < w
         /\ r > 0 => p <= 2 * p - b - 1 + k * (e - (r - 1))
         /\ r > 0 => 2 * p - b - 1 + k * (e - (r - 1)) = 2 * p - b - 1 + k * (e - r) + k
         /\ 2 * p - (b - 1) - 1 = 2 * p - b - 1 + 1
<1>1. CASE k = 1
  BY <1>1
<1>2. CASE k = 4
  BY <1>2
<1> QED BY <1>1, <1>2

(* The constants, as the proofs need them. *)
LEMMA Sizes ==
  /\ VGAWidth \in Nat \ {0} /\ EarlyKeys \in Nat /\ KeyWidth \in {1, 4}
  /\ \A name \in PromptNames :
       /\ Len(Prompt(name)) \in Nat /\ Prompt(name) \in Seq(STRING)
       /\ \A i \in 1 .. Len(Prompt(name)) : Prompt(name)[i] \notin Controls
  /\ FirstName \in PromptNames
  /\ 2 * Len(Prompt(FirstName)) + KeyWidth * EarlyKeys <= VGAWidth + 1
<1>1. KeyWidth \in {1, 4}
  BY DEF KeyWidth
<1>2. ASSUME NEW name \in PromptNames
      PROVE  /\ Prompt(name) \in Seq(STRING)
             /\ \A i \in 1 .. Len(Prompt(name)) : Prompt(name)[i] \notin Controls
  BY PromptAssumption, Zenon DEF Prompt
<1>3. ASSUME NEW name \in PromptNames PROVE Len(Prompt(name)) \in Nat
  BY <1>2
<1>4. 2 * Len(Prompt(FirstName)) + KeyWidth * EarlyKeys <= VGAWidth + 1
  BY PromptAssumption, Zenon DEF Prompt
<1> QED BY <1>1, <1>2, <1>3, <1>4, VgaAssumption, ShellAssumption

(* The numbers of Room in a state before the end of the first prompt. *)
LEMMA RoomNow ==
  ASSUME ShellInv, boot # <<>>
  PROVE  /\ scr.column \in 0 .. VGAWidth /\ scr.column < VGAWidth
         /\ Len(boot) \in 1 .. Len(Prompt(prompt_name))
         /\ Len(shell_buf) <= scr.column /\ Len(shell_buf) \in Nat
<1> DEFINE p == Len(Prompt(prompt_name))
           b == Len(boot)
<1>1. prompt_name = FirstName /\ early \in 0 .. EarlyKeys /\ b <= p
      /\ boot \in Seq(STRING) /\ shell_buf \in Seq(Typed)
  BY DEF ShellInv, Booting, Kept
<1>2. p \in Nat /\ 2 * p + KeyWidth * EarlyKeys <= VGAWidth + 1
      /\ VGAWidth \in Nat /\ EarlyKeys \in Nat /\ KeyWidth \in {1, 4}
  BY <1>1, Sizes
<1>3. b \in 1 .. p
  BY <1>1, <1>2
<1>4. Len(shell_buf) <= scr.column
      /\ scr.column <= 2 * p - b - 1 + KeyWidth * (EarlyKeys - early)
  BY DEF ShellInv, Booting, Room
<1>5. scr.column \in 0 .. VGAWidth /\ Len(shell_buf) \in Nat
  BY <1>1 DEF ShellInv, IsScreen, OnScreen
<1> HIDE DEF p, b
<1>6. 2 * p - b - 1 + KeyWidth * (EarlyKeys - early) < VGAWidth
  BY <1>1, <1>2, <1>3, RoomLeft
<1>7. KeyWidth * (EarlyKeys - early) \in Int
  <2>1. KeyWidth \in Int /\ EarlyKeys - early \in Int
    BY <1>1, <1>2
  <2> QED BY <2>1
<1>8. scr.column < VGAWidth
  BY <1>2, <1>3, <1>4, <1>5, <1>6, <1>7
<1> QED BY <1>3, <1>4, <1>5, <1>8 DEF p, b

(* A key leaves room when it moves the cursor by its width at most, or     *)
(* prints the prompt on a new line.                                        *)
LEMMA KeyLeavesRoom ==
  ASSUME ShellInv, Key, Kept', IsScreen(scr'), prompt_name' \in PromptNames,
         boot # <<>> =>
           /\ prompt_name' = prompt_name
           /\ Len(shell_buf') <= scr'.column
           /\ \/ scr'.column <= Len(Prompt(prompt_name))
              \/ scr'.column <= scr.column + KeyWidth
  PROVE  Booting'
<1>1. boot' = boot /\ at' = at /\ early' = IF boot # <<>> THEN early - 1 ELSE early
  BY DEF Key
<1>2. early \in 0 .. EarlyKeys /\ boot \in Seq(STRING) /\ at \in ScreenCells \cup {Nowhere}
      /\ (at # Nowhere => boot # <<>>) /\ prompt_name \in PromptNames
      /\ Len(boot) <= Len(Prompt(prompt_name))
      /\ (boot # <<>> => prompt_name = FirstName)
  BY DEF ShellInv, Booting
<1>3. CASE boot = <<>>
  <2>1. Len(boot) = 0 /\ Len(Prompt(prompt_name')) \in Nat
    BY <1>3, Sizes
  <2>2. Len(boot') <= Len(Prompt(prompt_name'))
    BY <1>1, <2>1
  <2>3. Room'
    BY <1>1, <1>3 DEF Room
  <2> QED BY <1>1, <1>2, <1>3, <2>2, <2>3 DEF Booting
<1>4. CASE boot # <<>>
  <2>1. early > 0 /\ early' = early - 1 /\ prompt_name' = prompt_name
    BY <1>1, <1>4, ShellAssumption DEF Key
  <2>2. early \in 1 .. EarlyKeys /\ early' \in 0 .. EarlyKeys /\ EarlyKeys \in Nat
    BY <1>2, <2>1, ShellAssumption
  <2> DEFINE p == Len(Prompt(prompt_name))
             b == Len(boot)
             k == KeyWidth
  <2>3. p \in Nat /\ k \in {1, 4} /\ 2 * p + k * EarlyKeys <= VGAWidth + 1 /\ VGAWidth \in Nat
    BY <1>2, <1>4, Sizes
  <2>4. b \in 1 .. p
    BY <1>4, RoomNow
  <2>5. scr.column <= 2 * p - b - 1 + k * (EarlyKeys - early)
    BY <1>4 DEF ShellInv, Booting, Room
  <2>6. scr'.column <= p \/ scr'.column <= scr.column + k
    BY <1>4
  <2>7. scr'.column \in Int /\ scr.column \in Int
    <3>1. scr'.column \in 0 .. VGAWidth /\ scr.column \in 0 .. VGAWidth
      BY DEF ShellInv, IsScreen, OnScreen
    <3> QED BY <3>1, <2>3
  <2> HIDE DEF p, b, k
  <2>8. /\ p <= 2 * p - b - 1 + k * (EarlyKeys - (early - 1))
        /\ 2 * p - b - 1 + k * (EarlyKeys - (early - 1))
           = 2 * p - b - 1 + k * (EarlyKeys - early) + k
    <3>1. early \in 0 .. EarlyKeys /\ early > 0
      BY <2>2
    <3> QED BY <2>2, <2>3, <2>4, <3>1, RoomLeft
  <2>9. scr'.column <= 2 * p - b - 1 + k * (EarlyKeys - (early - 1))
    <3>1. k * (EarlyKeys - early) \in Int /\ k * (EarlyKeys - (early - 1)) \in Int
      <4>1. k \in Int /\ EarlyKeys - early \in Int /\ EarlyKeys - (early - 1) \in Int
        BY <2>2, <2>3
      <4> QED BY <4>1
    <3> QED BY <2>3, <2>4, <2>5, <2>6, <2>7, <2>8, <3>1
  <2>10. Room'
    <3>1. Len(shell_buf') <= scr'.column
      BY <1>4
    <3> QED BY <1>1, <2>1, <2>9, <3>1 DEF Room, p, b, k
  <2> QED BY <1>1, <1>2, <2>1, <2>2, <2>10 DEF Booting
<1> QED BY <1>3, <1>4

(* kmain computes the cell of the next character. *)
LEMMA PlaceStays ==
  ASSUME ShellInv, BootPlace
  PROVE  ShellInv'
<1>1. boot # <<>> /\ UNCHANGED <<line, boot, early>> /\ scr' = Wrap(scr) /\ at' = CursorAt(scr')
  BY DEF BootPlace
<1>2. scr.column < VGAWidth /\ IsScreen(scr)
  BY <1>1, RoomNow DEF ShellInv
<1>3. scr' = scr /\ at' \in ScreenCells
  BY <1>1, <1>2, WrapMakesRoom, CursorOnScreen
<1>4. Kept'
  BY <1>1 DEF line, Kept, ShellInv
<1>5. Booting'
  BY <1>1, <1>3 DEF line, Booting, Room, ShellInv
<1> QED BY <1>2, <1>3, <1>4, <1>5 DEF ShellInv

(* kmain stores the character there and moves the cursor. *)
LEMMA BootStoreStays ==
  ASSUME ShellInv, BootStore
  PROVE  ShellInv'
<1>1. /\ boot # <<>> /\ UNCHANGED <<line, early>>
      /\ scr' = [scr EXCEPT !.vga[at] = Head(boot), !.column = @ + 1]
      /\ boot' = Tail(boot) /\ at' = Nowhere
  BY DEF BootStore, ShellInv, Booting
<1>2. /\ scr.column \in 0 .. VGAWidth /\ scr.column < VGAWidth
      /\ Len(boot) \in 1 .. Len(Prompt(prompt_name))
      /\ Len(shell_buf) <= scr.column /\ Len(shell_buf) \in Nat
  BY <1>1, RoomNow
<1>3. /\ scr = [column |-> scr.column, line |-> scr.line, vga |-> scr.vga]
      /\ scr.line \in 0 .. VGAHeight - 1 /\ DOMAIN scr.vga = ScreenCells
  BY DEF ShellInv, IsScreen, OnScreen
<1> DEFINE cells == [scr.vga EXCEPT ![at] = Head(boot)]
<1>4. scr' = [column |-> scr.column + 1, line |-> scr.line, vga |-> cells]
  BY <1>1, <1>3
<1>5. DOMAIN cells = ScreenCells
  BY <1>3
<1> HIDE DEF cells
<1>6. IsScreen(scr')
  <2>1. scr.column + 1 \in 0 .. VGAWidth
    BY <1>2, VgaAssumption
  <2> QED BY <1>3, <1>4, <1>5, <2>1 DEF IsScreen, OnScreen
<1>7. boot' \in Seq(STRING) /\ Len(boot') = Len(boot) - 1
  <2>1. boot \in Seq(STRING)
    BY DEF ShellInv, Booting
  <2> QED BY <1>1, <2>1, HeadTailProperties
<1>8. prompt_name' = prompt_name /\ shell_buf' = shell_buf /\ early' = early
  BY <1>1 DEF line
<1>9. Room'
  <2> DEFINE p == Len(Prompt(prompt_name))
             more == KeyWidth * (EarlyKeys - early)
  <2>1. scr.column <= 2 * p - Len(boot) - 1 + more
    BY <1>1 DEF ShellInv, Booting, Room
  <2>2. p \in Nat /\ more \in Int
    <3>1. prompt_name \in PromptNames /\ early \in 0 .. EarlyKeys
      BY DEF ShellInv, Booting
    <3>2. KeyWidth \in Int /\ EarlyKeys - early \in Int /\ p \in Nat
      BY <3>1, Sizes
    <3> QED BY <3>2
  <2>3. scr'.column = scr.column + 1
    BY <1>4
  <2> HIDE DEF p, more
  <2>4. Len(shell_buf) <= scr'.column /\ scr'.column <= 2 * p - Len(boot') - 1 + more
    BY <1>2, <1>7, <2>1, <2>2, <2>3
  <2> QED BY <1>8, <2>4 DEF Room, p, more
<1>10. Kept'
  BY <1>1 DEF line, Kept, ShellInv
<1>11. Booting'
  <2>1. Len(boot') <= Len(Prompt(prompt_name'))
    <3>1. prompt_name \in PromptNames
      BY DEF ShellInv, Booting
    <3> QED BY <1>2, <1>7, <1>8, <3>1, Sizes
  <2>2. prompt_name = FirstName
    BY <1>1 DEF ShellInv, Booting
  <2> QED BY <1>1, <1>7, <1>8, <1>9, <2>1, <2>2 DEF Booting, ShellInv
<1> QED BY <1>6, <1>10, <1>11 DEF ShellInv

(* An empty screen is one. *)
LEMMA ResetStays == IsScreen(Reset) /\ Reset.column = 0
<1> DEFINE cells == [i \in ScreenCells |-> " "]
<1>1. Reset = [column |-> 0, line |-> 0, vga |-> cells] /\ DOMAIN cells = ScreenCells
  BY DEF Reset
<1> HIDE DEF cells
<1> QED BY <1>1, VgaAssumption DEF IsScreen, OnScreen

(* A command leaves the cursor at the left when it was there. *)
LEMMA CommandStays ==
  ASSUME NEW s, IsScreen(s), s.column = 0, Kept', NEW out \in Outputs \cup {<<>>}
  PROVE  IsScreen(shell_execute(s, out)) /\ shell_execute(s, out).column = 0
<1>1. CASE out = <<"cls">>
  <2>1. out # <<"history">>
    BY <1>1
  <2>2. shell_execute(s, out) = Reset
    BY <1>1, <2>1, Zenon DEF shell_execute
  <2> QED BY <2>2, ResetStays
<1>2. CASE out = <<"history">>
  <2>1. out # <<"cls">>
    BY <1>2
  <2>2. shell_execute(s, out) = cmd_history(s)
    BY <1>2, <2>1, Zenon DEF shell_execute
  <2>3. history_count' \in Nat /\ \A i \in 1 .. history_count' : history'[i - 1] \in Seq(Typed)
    BY DEF Kept
  <2> QED BY <2>2, <2>3, HistoryStays
<1>3. CASE out # <<"cls">> /\ out # <<"history">>
  <2>1. shell_execute(s, out) = print(s, out)
    BY <1>3, Zenon DEF shell_execute
  <2>2. Len(out) \in Nat /\ (Len(out) = 0 \/ out[Len(out)] = "LF")
    <3>1. CASE out = <<>>
      BY <3>1
    <3>2. CASE out \in Outputs /\ out # <<>>
      BY <1>3, <3>2, TextAssumption
    <3> QED BY <3>1, <3>2
  <2>3. CASE Len(out) = 0
    BY <2>1, <2>2, <2>3, PrintStays
  <2>4. CASE Len(out) # 0 /\ out[Len(out)] = "LF"
    BY <2>1, <2>2, <2>4, PrintStays
  <2> QED BY <2>2, <2>3, <2>4
<1> QED BY <1>1, <1>2, <1>3

(* Enter prints the prompt at the left of a screen. *)
LEMMA EnterPrints ==
  ASSUME ShellInv, NEW out \in Outputs \cup {<<>>}, Enter(out)
  PROVE  \E t : /\ IsScreen(t) /\ t.column = 0
                /\ scr' = print(t, Prompt(prompt_name'))
<1> DEFINE s == print(scr, <<"CR", "LF">>)
           t == IF shell_buf = <<>> THEN s ELSE shell_execute(s, out)
           p == Prompt(prompt_name')
<1>1. Kept'
  BY EnterKeeps DEF Enter, ShellInv
<1>2. scr' = print(t, p)
  <2>1. CASE shell_buf = <<>>
    <3>1. scr' = print_prompt(s)
      BY <2>1, Zenon DEF Enter
    <3> QED BY <2>1, <3>1, Zenon DEF print_prompt
  <2>2. CASE shell_buf # <<>>
    <3>1. scr' = print_prompt(shell_execute(s, out))
      BY <2>2, Zenon DEF Enter
    <3> QED BY <2>2, <3>1, Zenon DEF print_prompt
  <2> QED BY <2>1, <2>2
<1>3. IsScreen(s) /\ s.column = 0
  <2> DEFINE nl == <<"CR", "LF">>
  <2>1. Len(nl) = 2 /\ nl[Len(nl)] = "LF"
    OBVIOUS
  <2>2. IsScreen(scr) /\ s = print(scr, nl)
    BY DEF ShellInv
  <2> HIDE DEF nl, s
  <2>3. Len(nl) \in Nat /\ Len(nl) # 0
    BY <2>1
  <2> QED BY <2>1, <2>2, <2>3, PrintStays
<1> HIDE DEF s
<1>4. IsScreen(t) /\ t.column = 0
  BY <1>1, <1>3, CommandStays
<1> HIDE DEF t
<1> QED BY <1>2, <1>4

(* Enter, on any line and for any command. *)
LEMMA EnterStays ==
  ASSUME ShellInv, NEW out \in Outputs \cup {<<>>}, Enter(out), prompt_name' \in PromptNames,
         boot # <<>> => prompt_name' = prompt_name
  PROVE  ShellInv'
<1> DEFINE p == Prompt(prompt_name')
<1>1. Kept' /\ Key /\ shell_buf' = <<>>
  BY EnterKeeps DEF Enter, ShellInv
<1>2. PICK t : IsScreen(t) /\ t.column = 0 /\ scr' = print(t, p)
  BY EnterPrints
<1>3. Len(p) \in Nat /\ \A i \in 1 .. Len(p) : p[i] \notin Controls
  BY Sizes
<1> HIDE DEF p
<1>4. IsScreen(scr') /\ scr'.column <= Len(p)
  <2>1. IsScreen(print(t, p)) /\ print(t, p).column <= t.column + Len(p)
    BY <1>2, <1>3, PrintStays
  <2> QED BY <1>2, <1>3, <2>1
<1>5. boot # <<>> => /\ prompt_name' = prompt_name
                     /\ Len(shell_buf') <= scr'.column
                     /\ scr'.column <= Len(Prompt(prompt_name))
  <2>1. Len(shell_buf') = 0 /\ scr'.column \in 0 .. VGAWidth
    BY <1>1, <1>4 DEF IsScreen, OnScreen
  <2> QED BY <1>4, <2>1, VgaAssumption DEF p
<1> QED BY <1>1, <1>4, <1>5, KeyLeavesRoom DEF ShellInv

(* Backspace takes one character of the line and one cell before the end   *)
(* of the first prompt, and at most one cell after it.                     *)
LEMMA BackspaceStays ==
  ASSUME ShellInv, Backspace
  PROVE  ShellInv'
<1>1. Kept'
  BY StepKeeps DEF Next, ShellInv
<1>2. IsScreen(scr) /\ scr' = PutChar(scr, "BS")
  BY PrintOne DEF Backspace, ShellInv
<1>3. IsScreen(scr') /\ (scr.column > 0 => scr'.column = scr.column - 1)
  BY <1>2, CharStays
<1>4. Len(shell_buf) \in Nat \ {0} /\ Len(shell_buf') = Len(shell_buf) - 1
  <2>1. shell_buf \in Seq(Typed) /\ shell_buf # <<>>
        /\ shell_buf' = SubSeq(shell_buf, 1, Len(shell_buf) - 1)
    BY DEF Backspace, ShellInv, Kept
  <2>2. Len(shell_buf) \in Nat \ {0}
    BY <2>1
  <2>3. Len(shell_buf) - 1 \in 0 .. Len(shell_buf)
    BY <2>2
  <2> QED BY <2>1, <2>2, <2>3, Prefix
<1>5. boot # <<>> => /\ Len(shell_buf') <= scr'.column
                     /\ scr'.column <= scr.column + KeyWidth
  <2>1. KeyWidth \in {1, 4} /\ VGAWidth \in Nat
    BY Sizes
  <2> QED BY <1>3, <1>4, <2>1, RoomNow
<1>6. Key /\ prompt_name' = prompt_name /\ prompt_name \in PromptNames
  BY DEF Backspace, ShellInv, Booting
<1> QED BY <1>1, <1>3, <1>5, <1>6, KeyLeavesRoom DEF ShellInv

(* Any other key. *)
LEMMA CharacterStays ==
  ASSUME ShellInv, NEW c \in Typed, Character(c)
  PROVE  ShellInv'
<1>1. Kept'
  BY StepKeeps DEF Next, ShellInv
<1>2. IsScreen(scr) /\ scr' = PutChar(scr, c)
  BY PrintOne DEF Character, ShellInv
<1>3. c = "TAB" \/ c \notin Controls
  BY TextAssumption
<1>4. /\ IsScreen(scr')
      /\ c = "TAB" => /\ scr'.column <= scr.column + 4
                      /\ scr.column < VGAWidth => scr'.column > scr.column
      /\ c \notin Controls => /\ scr'.column <= scr.column + 1
                              /\ scr.column < VGAWidth => scr'.column = scr.column + 1
  BY <1>2, CharStays
<1>5. scr.column \in Int /\ scr'.column \in Int
  <2>1. scr.column \in 0 .. VGAWidth /\ scr'.column \in 0 .. VGAWidth
    BY <1>2, <1>4 DEF IsScreen, OnScreen
  <2> QED BY <2>1, Sizes
<1>6. scr'.column <= scr.column + KeyWidth
  BY <1>3, <1>4, <1>5 DEF KeyWidth
<1>7. Len(shell_buf) \in Nat /\ Len(shell_buf') = Len(shell_buf) + 1
  BY DEF Character, ShellInv, Kept
<1>8. boot # <<>> => Len(shell_buf') <= scr'.column
  <2> SUFFICES ASSUME boot # <<>> PROVE Len(shell_buf') <= scr'.column
    OBVIOUS
  <2>1. scr.column < VGAWidth /\ Len(shell_buf) <= scr.column
    BY RoomNow
  <2>2. scr'.column > scr.column
    BY <1>3, <1>4, <1>5, <2>1
  <2> QED BY <1>5, <1>7, <2>1, <2>2
<1>9. Key /\ prompt_name' = prompt_name /\ prompt_name \in PromptNames
  BY DEF Character, ShellInv, Booting
<1> QED BY <1>1, <1>4, <1>6, <1>8, <1>9, KeyLeavesRoom DEF ShellInv

(* The initial state and every step. *)
LEMMA ShellInvInductive ==
  /\ Init => ShellInv
  /\ ShellInv /\ [Next]_vars => ShellInv'
<1>1. ASSUME Init PROVE ShellInv
  <2>1. Kept
    BY <1>1, ShellAssumption DEF Init, Kept
  <2>2. IsScreen(scr) /\ scr.column = 0
    BY <1>1, ResetStays DEF Init
  <2>3. prompt_name = FirstName /\ prompt_name \in PromptNames
        /\ boot = Prompt(prompt_name) /\ early = EarlyKeys
        /\ at = Nowhere /\ shell_buf = <<>>
    BY <1>1, ShellAssumption DEF Init
  <2>4. boot \in Seq(STRING) /\ Len(boot) \in Nat /\ EarlyKeys \in Nat /\ KeyWidth \in Int
    BY <2>3, Sizes
  <2>5. Room
    <3>1. KeyWidth * (EarlyKeys - early) = 0
      BY <2>3, <2>4
    <3>2. boot # <<>> => Len(boot) > 0
      BY <2>4
    <3> QED BY <2>2, <2>3, <2>4, <3>1, <3>2 DEF Room
  <2>6. Booting
    BY <2>3, <2>4, <2>5 DEF Booting
  <2> QED BY <2>1, <2>2, <2>6 DEF ShellInv
<1>2. ASSUME ShellInv, [Next]_vars PROVE ShellInv'
  <2>1. CASE BootPlace
    BY <1>2, <2>1, PlaceStays
  <2>2. CASE BootStore
    BY <1>2, <2>2, BootStoreStays
  <2>3. ASSUME NEW out \in Outputs, UNCHANGED prompt_name, Enter(out) PROVE ShellInv'
    BY <1>2, <2>3, EnterStays DEF ShellInv, Booting
  <2>4. ASSUME NEW name \in PromptNames, SetPrompt(name) PROVE ShellInv'
    BY <1>2, <2>4, EnterStays DEF SetPrompt
  <2>5. CASE Backspace
    BY <1>2, <2>5, BackspaceStays
  <2>6. ASSUME NEW c \in Typed, Character(c) PROVE ShellInv'
    BY <1>2, <2>6, CharacterStays
  <2>7. CASE UNCHANGED vars
    BY <1>2, <2>7 DEF vars, line, ShellInv, Kept, Booting, Room
  <2> QED BY <1>2, <2>1, <2>2, <2>3, <2>4, <2>5, <2>6, <2>7 DEF Next
<1> QED BY <1>1, <1>2

(* Every store of print hits the screen, the cursor stays on it and the    *)
(* line in its buffer: for every size of the screen, every text that       *)
(* commands print, and also while kmain prints the first prompt and a key  *)
(* arrives between the moment it computes a cell and the one it stores.    *)
THEOREM StoresHitScreen == Spec => []TypeOK
<1>1. ShellInv => TypeOK
  BY DEF ShellInv, Kept, Booting, IsScreen, TypeOK
<1> QED BY <1>1, ShellInvInductive, PTL DEF Spec

-----------------------------------------------------------------------------
(* What stands before the cursor.                                          *)

(* The last of the first n characters of text stand before the cursor, as  *)
(* far as they have not scrolled away.                                     *)
Shows(s, text, n) ==
  \A i \in 1 .. n : CursorAt(s) - i >= 0 => s.vga[CursorAt(s) - i] = text[n - i + 1]

(* A character stored at the cursor, which then moves on, comes after the  *)
(* text.                                                                   *)
LEMMA StoredShows ==
  ASSUME NEW s, NEW t, NEW n \in Nat, NEW text, NEW more, NEW c,
         IsScreen(s), s.column < VGAWidth, CursorAt(t) = CursorAt(s) + 1,
         t.vga[CursorAt(s)] = c,
         \A j \in ScreenCells : j # CursorAt(s) => t.vga[j] = s.vga[j],
         Shows(s, text, n), \A i \in 1 .. n : more[i] = text[i], more[n + 1] = c
  PROVE  Shows(t, more, n + 1)
<1>1. CursorAt(s) \in ScreenCells /\ CursorAt(s) \in Nat
  <2>1. CursorAt(s) \in ScreenCells
    BY CursorOnScreen
  <2> QED BY <2>1 DEF ScreenCells
<1> SUFFICES ASSUME NEW i \in 1 .. n + 1, CursorAt(t) - i >= 0
             PROVE  t.vga[CursorAt(t) - i] = more[(n + 1) - i + 1]
  BY DEF Shows
<1>2. CASE i = 1
  <2>1. CursorAt(t) - i = CursorAt(s) /\ (n + 1) - i + 1 = n + 1
    BY <1>1, <1>2
  <2> QED BY <2>1
<1>3. CASE i # 1
  <2> DEFINE k == i - 1
             j == CursorAt(s) - k
  <2>1. k \in 1 .. n /\ CursorAt(t) - i = j /\ (n + 1) - i + 1 = n - k + 1
        /\ n - k + 1 \in 1 .. n
    BY <1>1, <1>3
  <2>2. j >= 0 /\ j # CursorAt(s) /\ j \in ScreenCells
    <3>1. j >= 0 /\ j < CursorAt(s)
      BY <1>1, <2>1
    <3>2. VGAWidth * VGAHeight \in Nat
      BY VgaAssumption
    <3> HIDE DEF k
    <3> QED BY <1>1, <2>1, <3>1, <3>2 DEF ScreenCells
  <2>3. s.vga[j] = text[n - k + 1]
    <3> HIDE DEF k
    <3> QED BY <2>1, <2>2 DEF Shows
  <2>4. t.vga[j] = s.vga[j]
    BY <2>2
  <2> HIDE DEF k, j
  <2> QED BY <2>1, <2>3, <2>4
<1> QED BY <1>2, <1>3

(* Wrapping into the next row does not move the cursor among the cells, or *)
(* moves it and the cells by one row.                                      *)
LEMMA WrapShows ==
  ASSUME NEW s, IsScreen(s), NEW n \in Nat, NEW text, Shows(s, text, n)
  PROVE  Shows(Wrap(s), text, n)
<1> DEFINE w == VGAWidth
           h == VGAHeight
<1>1. w \in Nat \ {0} /\ h \in Nat \ {0}
  BY VgaAssumption
<1>2. s = [column |-> s.column, line |-> s.line, vga |-> s.vga]
      /\ s.column \in 0 .. w /\ s.line \in 0 .. h - 1
      /\ DOMAIN s.vga = ScreenCells
  BY DEF IsScreen, OnScreen
<1>3. CASE s.column < w
  <2>1. Wrap(s) = s
    BY <1>3, WrapMakesRoom
  <2> QED BY <2>1
<1>4. CASE ~(s.column < w) /\ s.line < h - 1
  <2>1. Wrap(s) = [column |-> 0, line |-> s.line + 1, vga |-> s.vga]
    <3>1. Wrap(s) = [s EXCEPT !.line = @ + 1, !.column = 0]
      BY <1>1, <1>2, <1>4 DEF Wrap, newLine
    <3> QED BY <1>2, <3>1
  <2>2. CursorAt(Wrap(s)) = CursorAt(s)
    <3>1. CursorAt(Wrap(s)) = (s.line + 1) * w + 0 /\ CursorAt(s) = s.line * w + w
      <4>1. s.column = w
        BY <1>1, <1>2, <1>4
      <4> QED BY <2>1, <4>1 DEF CursorAt
    <3>2. (s.line + 1) * w + 0 = s.line * w + w
      BY <1>1, <1>2
    <3> QED BY <3>1, <3>2
  <2>3. Wrap(s).vga = s.vga
    BY <2>1
  <2> QED BY <2>2, <2>3 DEF Shows
<1>5. CASE ~(s.column < w) /\ ~(s.line < h - 1)
  <2> DEFINE cells == [i \in DOMAIN s.vga |->
                         IF i < (h - 1) * w THEN s.vga[i + w] ELSE " "]
  <2>1. s.column = w /\ s.line = h - 1
    BY <1>1, <1>2, <1>5
  <2>2. Wrap(s) = [column |-> 0, line |-> h - 1, vga |-> cells]
    <3>1. Wrap(s) = [[s EXCEPT !.vga = cells] EXCEPT !.column = 0]
      BY <1>1, <1>5, <2>1 DEF Wrap, newLine, scrollUp
    <3> HIDE DEF cells
    <3> QED BY <1>2, <2>1, <3>1
  <2> DEFINE top == (h - 1) * w
  <2>3. top \in Nat /\ top + w = w * h
    BY <1>1
  <2>4. CursorAt(Wrap(s)) = top /\ CursorAt(s) = top + w
    <3> HIDE DEF cells
    <3>1. CursorAt(Wrap(s)) = top + 0
      BY <2>2 DEF CursorAt
    <3>2. CursorAt(s) = top + w
      BY <2>1 DEF CursorAt
    <3> QED BY <2>3, <3>1, <3>2
  <2>5. \A i \in ScreenCells : i < top => Wrap(s).vga[i] = s.vga[i + w]
    <3>1. \A i \in ScreenCells : i < top => cells[i] = s.vga[i + w]
      BY <1>2
    <3> HIDE DEF cells, top
    <3> QED BY <2>2, <3>1
  <2> HIDE DEF cells, top
  <2> SUFFICES ASSUME NEW i \in 1 .. n, top - i >= 0
               PROVE  Wrap(s).vga[top - i] = text[n - i + 1]
    BY <2>4 DEF Shows
  <2>6. top - i \in ScreenCells /\ top - i < top /\ (top - i) + w = (top + w) - i
        /\ (top + w) - i >= 0
    BY <1>1, <2>3 DEF ScreenCells
  <2>7. s.vga[(top + w) - i] = text[n - i + 1]
    BY <2>4, <2>6 DEF Shows
  <2> HIDE DEF w
  <2> QED BY <2>5, <2>6, <2>7
<1> QED BY <1>3, <1>4, <1>5

(* A character of text comes after the text. *)
LEMMA TextShows ==
  ASSUME NEW s, IsScreen(s), NEW n \in Nat, NEW text, NEW more, NEW c, c \notin Controls,
         Shows(s, text, n), \A i \in 1 .. n : more[i] = text[i], more[n + 1] = c
  PROVE  Shows(PutChar(s, c), more, n + 1)
<1> DEFINE u == Wrap(s)
           t == Store(u, c)
           r == PutChar(s, c)
<1>1. IsScreen(u) /\ u.column < VGAWidth /\ Shows(u, text, n)
  BY WrapMakesRoom, WrapShows
<1>2. r = [t EXCEPT !.column = @ + 1]
  BY DEF PutChar, PutText, Controls
<1> HIDE DEF u, r
<1>3. IsScreen(t) /\ t.column = u.column /\ t.line = u.line
  BY <1>1, StoreHits
<1>4. CursorAt(u) \in ScreenCells /\ DOMAIN u.vga = ScreenCells
      /\ u = [column |-> u.column, line |-> u.line, vga |-> u.vga]
  BY <1>1, CursorOnScreen DEF IsScreen, OnScreen
<1>5. t.vga[CursorAt(u)] = c /\ \A j \in ScreenCells : j # CursorAt(u) => t.vga[j] = u.vga[j]
  <2> DEFINE cells == [i \in DOMAIN u.vga \cup {CursorAt(u)} |->
                         IF i = CursorAt(u) THEN c ELSE u.vga[i]]
  <2>1. t = [u EXCEPT !.vga = cells]
    BY DEF Store
  <2>2. cells[CursorAt(u)] = c
        /\ \A j \in ScreenCells : j # CursorAt(u) => cells[j] = u.vga[j]
    BY <1>4
  <2> HIDE DEF cells, t
  <2>3. t.vga = cells
    BY <1>4, <2>1
  <2> QED BY <2>2, <2>3
<1> HIDE DEF t
<1>6. r = [column |-> t.column + 1, line |-> t.line, vga |-> t.vga]
  BY <1>2, <1>3 DEF IsScreen
<1>7. CursorAt(r) = CursorAt(u) + 1
  <2>1. u.line * VGAWidth \in Int /\ u.column \in Int
    <3>1. u.line \in Int /\ u.column \in Int /\ VGAWidth \in Int
      BY <1>1, VgaAssumption DEF IsScreen, OnScreen
    <3> QED BY <3>1
  <2> QED BY <1>3, <1>6, <2>1 DEF CursorAt
<1>8. r.vga[CursorAt(u)] = c /\ \A j \in ScreenCells : j # CursorAt(u) => r.vga[j] = u.vga[j]
  BY <1>5, <1>6
<1> QED BY <1>1, <1>7, <1>8, StoredShows DEF r

(* Backspace leaves the text without its last character.                   *)
LEMMA BackShows ==
  ASSUME NEW s, IsScreen(s), NEW n \in Nat \ {0}, NEW text, NEW less, Shows(s, text, n),
         \A i \in 1 .. n - 1 : less[i] = text[i]
  PROVE  Shows(PutBack(s), less, n - 1)
<1>1. VGAWidth \in Nat \ {0} /\ VGAHeight \in Nat \ {0}
  BY VgaAssumption
<1>2. s = [column |-> s.column, line |-> s.line, vga |-> s.vga]
      /\ s.column \in 0 .. VGAWidth /\ s.line \in 0 .. VGAHeight - 1
      /\ DOMAIN s.vga = ScreenCells
  BY DEF IsScreen, OnScreen
<1> DEFINE t == IF s.column = 0 /\ s.line # 0
                THEN [s EXCEPT !.line = @ - 1, !.column = VGAWidth] ELSE s
<1>3. /\ IsScreen(t) /\ CursorAt(t) = CursorAt(s) /\ t.vga = s.vga
      /\ t.column = 0 => s.line = 0 /\ s.column = 0
  <2>1. CASE s.column = 0 /\ s.line # 0
    <3>1. t = [column |-> VGAWidth, line |-> s.line - 1, vga |-> s.vga]
      BY <1>2, <2>1
    <3> HIDE DEF t
    <3>2. (s.line - 1) * VGAWidth + VGAWidth = s.line * VGAWidth + 0
      BY <1>1, <1>2
    <3>3. CursorAt(t) = (s.line - 1) * VGAWidth + VGAWidth
          /\ CursorAt(s) = s.line * VGAWidth + 0
      BY <2>1, <3>1 DEF CursorAt
    <3>4. IsScreen(t)
      BY <1>1, <1>2, <2>1, <3>1 DEF IsScreen, OnScreen
    <3> QED BY <1>1, <3>1, <3>2, <3>3, <3>4
  <2>2. CASE ~(s.column = 0 /\ s.line # 0)
    BY <1>2, <2>2
  <2> QED BY <2>1, <2>2
<1>4. PutBack(s) = IF t.column > 0 THEN Store([t EXCEPT !.column = @ - 1], " ") ELSE t
  BY DEF PutBack
<1> HIDE DEF t
<1>5. t.column \in 0 .. VGAWidth
  BY <1>3 DEF IsScreen, OnScreen
<1>6. CASE t.column > 0
  <2> DEFINE u == [t EXCEPT !.column = @ - 1]
             r == Store(u, " ")
  <2>1. u = [column |-> t.column - 1, line |-> t.line, vga |-> s.vga]
    BY <1>3 DEF IsScreen
  <2> HIDE DEF u
  <2>2. IsScreen(u) /\ u.column < VGAWidth
    BY <1>1, <1>2, <1>3, <1>5, <1>6, <2>1 DEF IsScreen, OnScreen
  <2>3. CursorAt(u) = CursorAt(s) - 1 /\ CursorAt(u) \in ScreenCells
        /\ CursorAt(s) \in Int
    <3>1. CursorAt(u) \in ScreenCells /\ CursorAt(s) \in Int
      BY <2>2, CursorOnScreen
    <3>2. t.line * VGAWidth \in Int /\ t.column \in Int
      <4>1. t.line \in Int /\ t.column \in Int /\ VGAWidth \in Int
        BY <1>1, <1>3 DEF IsScreen, OnScreen
      <4> QED BY <4>1
    <3>3. CursorAt(u) = t.line * VGAWidth + (t.column - 1)
          /\ CursorAt(t) = t.line * VGAWidth + t.column
      BY <2>1 DEF CursorAt
    <3> QED BY <1>3, <3>1, <3>2, <3>3
  <2>4. CursorAt(r) = CursorAt(u)
    BY <2>2, StoreHits, Zenon DEF CursorAt
  <2>5. \A j \in ScreenCells : j # CursorAt(u) => r.vga[j] = s.vga[j]
    <3> DEFINE cells == [i \in DOMAIN u.vga \cup {CursorAt(u)} |->
                           IF i = CursorAt(u) THEN " " ELSE u.vga[i]]
    <3>1. r = [u EXCEPT !.vga = cells]
      BY DEF Store
    <3>2. DOMAIN u.vga = ScreenCells /\ u.vga = s.vga
      BY <1>2, <2>1
    <3>3. \A j \in ScreenCells : j # CursorAt(u) => cells[j] = s.vga[j]
      BY <3>2
    <3> HIDE DEF cells, r
    <3>4. r.vga = cells
      BY <2>1, <3>1
    <3> QED BY <3>3, <3>4
  <2> HIDE DEF r
  <2> SUFFICES ASSUME NEW i \in 1 .. n - 1, CursorAt(r) - i >= 0
               PROVE  r.vga[CursorAt(r) - i] = less[(n - 1) - i + 1]
    BY <1>4, <1>6 DEF Shows, u, r
  <2> DEFINE k == i + 1
             j == CursorAt(s) - k
  <2>6. k \in 1 .. n /\ CursorAt(r) - i = j /\ j >= 0 /\ (n - 1) - i + 1 = n - k + 1
        /\ n - k + 1 \in 1 .. n - 1
    BY <2>3, <2>4
  <2>7. j \in ScreenCells /\ j # CursorAt(u)
    <3>1. VGAWidth * VGAHeight \in Nat
      BY <1>1
    <3> HIDE DEF k
    <3> QED BY <2>3, <2>4, <2>6, <3>1 DEF ScreenCells
  <2>8. s.vga[j] = text[n - k + 1]
    <3> HIDE DEF k
    <3> QED BY <2>6 DEF Shows
  <2>9. r.vga[j] = s.vga[j]
    BY <2>5, <2>7
  <2> HIDE DEF k, j
  <2> QED BY <2>6, <2>8, <2>9
<1>7. CASE ~(t.column > 0)
  <2>1. CursorAt(s) = 0
    <3>1. s.line = 0 /\ s.column = 0
      BY <1>1, <1>3, <1>5, <1>7
    <3> QED BY <1>1, <3>1 DEF CursorAt
  <2>2. PutBack(s) = t /\ CursorAt(t) = 0
    BY <1>3, <1>4, <1>7, <2>1
  <2> QED BY <2>2 DEF Shows
<1> QED BY <1>6, <1>7

(* Text that print has printed stands before the cursor, wherever it began *)
(* and however many rows it took.                                          *)
LEMMA PrintShows ==
  ASSUME NEW s, IsScreen(s), NEW str, Len(str) \in Nat,
         \A i \in 1 .. Len(str) : str[i] \notin Controls
  PROVE  Shows(print(s, str), str, Len(str))
<1>1. PICK f : /\ f[0] = s /\ print(s, str) = f[Len(str)]
               /\ \A i \in 1 .. Len(str) : f[i] = PutChar(f[i - 1], str[i])
  BY PrintSteps
<1> DEFINE P == {i \in 0 .. Len(str) : IsScreen(f[i]) /\ Shows(f[i], str, i)}
<1>2. 0 \in P
  BY <1>1 DEF Shows
<1>3. ASSUME NEW i \in 1 .. Len(str), i - 1 \in P PROVE i \in P
  <2>1. IsScreen(f[i - 1]) /\ Shows(f[i - 1], str, i - 1)
    BY <1>3
  <2>2. f[i] = PutChar(f[i - 1], str[i]) /\ str[i] \notin Controls
    BY <1>1
  <2>3. IsScreen(f[i])
    BY <2>1, <2>2, CharStays
  <2>4. i - 1 \in Nat /\ (i - 1) + 1 = i /\ i \in 0 .. Len(str)
    OBVIOUS
  <2>5. Shows(f[i], str, (i - 1) + 1)
    <3> DEFINE m == i - 1
               a == f[m]
               c == str[i]
    <3>1. str[m + 1] = c
      BY <2>4
    <3> HIDE DEF m, a, c
    <3>2. m \in Nat /\ IsScreen(a) /\ Shows(a, str, m) /\ c \notin Controls
      BY <2>1, <2>2, <2>4 DEF m, a, c
    <3>3. Shows(PutChar(a, c), str, m + 1)
      BY <3>1, <3>2, TextShows
    <3> QED BY <2>2, <3>3 DEF m, a, c
  <2> QED BY <2>3, <2>4, <2>5
<1>4. \A i \in 0 .. Len(str) : i \in P
  <2> HIDE DEF P
  <2> QED BY <1>2, <1>3, SetInduction
<1> QED BY <1>1, <1>4

(* How much of the prompt is printed, and the text that the cursor stands  *)
(* behind: that part of the prompt and the line.                           *)
Printed == Len(Prompt(prompt_name)) - Len(boot)
LineText == [i \in 1 .. Printed + Len(shell_buf) |->
               IF i <= Printed THEN Prompt(prompt_name)[i] ELSE shell_buf[i - Printed]]

(* While no key has mixed with the first prompt, the text is on the screen *)
(* and the cell computed for the next character is the cursor's.  boot is  *)
(* the rest of the prompt.                                                 *)
OnLine == ~mixed => /\ Shows(scr, LineText, Printed + Len(shell_buf))
                    /\ at # Nowhere => at = CursorAt(scr)
                    /\ boot # <<>> => shell_buf = <<>>
RestOfPrompt == \A i \in 1 .. Len(boot) : boot[i] = Prompt(prompt_name)[Printed + i]

ShowInv == ShellInv /\ mixed \in BOOLEAN /\ OnLine /\ RestOfPrompt

(* The lengths in a state. *)
LEMMA Lengths ==
  ASSUME ShellInv
  PROVE  /\ Len(boot) \in Nat /\ Len(shell_buf) \in Nat /\ Printed \in Nat
         /\ prompt_name \in PromptNames
         /\ boot = <<>> <=> Len(boot) = 0
<1>1. prompt_name \in PromptNames /\ boot \in Seq(STRING) /\ shell_buf \in Seq(Typed)
      /\ Len(boot) <= Len(Prompt(prompt_name))
  BY DEF ShellInv, Booting, Kept
<1>2. Len(Prompt(prompt_name)) \in Nat
  BY <1>1, Sizes
<1>3. Len(boot) \in Nat /\ Len(shell_buf) \in Nat /\ (boot = <<>> <=> Len(boot) = 0)
  BY <1>1
<1> QED BY <1>1, <1>2, <1>3 DEF Printed

(* The property of the runs, from the invariant. *)
LEMMA TextIsLine ==
  ASSUME ShowInv
  PROVE  ScreenShowsLine
<1> SUFFICES ASSUME ~mixed PROVE
      LET text == SubSeq(Prompt(prompt_name), 1, Len(Prompt(prompt_name)) - Len(boot))
                    \o shell_buf
      IN  \A i \in 1 .. Len(text) :
            LET cell == CursorAt(scr) - i
            IN  cell >= 0 => scr.vga[cell] = text[Len(text) - i + 1]
  BY DEF ScreenShowsLine
<1> DEFINE a == SubSeq(Prompt(prompt_name), 1, Printed)
           S == STRING \cup Typed
           text == a \o shell_buf
<1>1. Len(boot) \in Nat /\ Len(shell_buf) \in Nat /\ Printed \in Nat
      /\ prompt_name \in PromptNames
  BY Lengths DEF ShowInv
<1>2. /\ a \in Seq(STRING) /\ Len(a) = Printed
      /\ \A i \in 1 .. Printed : a[i] = Prompt(prompt_name)[i]
  <2>1. Prompt(prompt_name) \in Seq(STRING) /\ Len(Prompt(prompt_name)) \in Nat
    BY <1>1, Sizes
  <2>2. Printed \in 0 .. Len(Prompt(prompt_name))
    BY <1>1, <2>1 DEF Printed
  <2> QED BY <2>1, <2>2, Prefix
<1> HIDE DEF a
<1>3. a \in Seq(S) /\ shell_buf \in Seq(S)
  <2>1. shell_buf \in Seq(Typed) /\ STRING \subseteq S /\ Typed \subseteq S
    BY DEF ShowInv, ShellInv, Kept
  <2> HIDE DEF S
  <2> QED BY <1>2, <2>1, SeqMonotonic
<1> HIDE DEF S
<1>4. /\ Len(text) = Printed + Len(shell_buf)
      /\ \A i \in 1 .. Printed + Len(shell_buf) : text[i] = LineText[i]
  <2>1. /\ Len(text) = Len(a) + Len(shell_buf)
        /\ \A i \in 1 .. Len(a) + Len(shell_buf) :
             text[i] = IF i <= Len(a) THEN a[i] ELSE shell_buf[i - Len(a)]
    BY <1>3, ConcatProperties
  <2> HIDE DEF text
  <2> QED BY <1>1, <1>2, <2>1 DEF LineText
<1>5. Shows(scr, LineText, Printed + Len(shell_buf))
  BY DEF ShowInv, OnLine
<1> DEFINE n == Printed + Len(shell_buf)
<1>6. n \in Nat /\ Len(text) = n /\ \A i \in 1 .. n : text[i] = LineText[i]
  BY <1>1, <1>4
<1>7. Shows(scr, LineText, n)
  BY <1>5
<1> HIDE DEF text, n
<1>8. \A i \in 1 .. Len(text) :
        CursorAt(scr) - i >= 0 => scr.vga[CursorAt(scr) - i] = text[Len(text) - i + 1]
  <2> SUFFICES ASSUME NEW i \in 1 .. n, CursorAt(scr) - i >= 0
               PROVE  scr.vga[CursorAt(scr) - i] = text[n - i + 1]
    BY <1>6
  <2>1. n - i + 1 \in 1 .. n
    BY <1>6
  <2> QED BY <1>6, <1>7, <2>1 DEF Shows
<1> QED BY <1>8, Zenon DEF text, a, Printed

(* kmain's next character: the cell it computed is still the cursor's.     *)
LEMMA BootStoreShows ==
  ASSUME ShowInv, BootStore
  PROVE  OnLine' /\ RestOfPrompt'
<1> DEFINE n == Printed
           c == Head(boot)
<1>1. /\ at # Nowhere /\ boot # <<>> /\ UNCHANGED <<shell_buf, prompt_name, mixed>>
      /\ scr' = [scr EXCEPT !.vga[at] = c, !.column = @ + 1]
      /\ boot' = Tail(boot) /\ at' = Nowhere
  BY DEF BootStore, line, ShowInv, ShellInv, Booting
<1>2. Len(boot) \in Nat /\ Len(shell_buf) \in Nat /\ n \in Nat /\ prompt_name \in PromptNames
      /\ boot \in Seq(STRING) /\ Len(Prompt(prompt_name)) \in Nat
  BY Lengths, Sizes DEF ShowInv, ShellInv, Booting
<1>3. /\ Len(boot) \in 1 .. Len(Prompt(prompt_name))
      /\ scr.column \in 0 .. VGAWidth /\ scr.column < VGAWidth
  BY <1>1, RoomNow DEF ShowInv
<1>4. /\ Len(boot') = Len(boot) - 1 /\ c = boot[1]
      /\ \A i \in 1 .. Len(boot') : boot'[i] = boot[i + 1]
  BY <1>1, <1>2, HeadTailProperties
<1>5. Printed' = n + 1
  BY <1>1, <1>2, <1>4 DEF Printed
<1>6. c = Prompt(prompt_name)[n + 1]
  BY <1>3, <1>4 DEF ShowInv, RestOfPrompt
<1>7. RestOfPrompt'
  <2>1. ASSUME NEW i \in 1 .. Len(boot') PROVE boot'[i] = Prompt(prompt_name)[(n + 1) + i]
    <3>1. i + 1 \in 1 .. Len(boot) /\ (n + 1) + i = n + (i + 1)
      BY <1>2, <1>4
    <3>2. boot[i + 1] = Prompt(prompt_name)[n + (i + 1)]
      BY <3>1 DEF ShowInv, RestOfPrompt
    <3> HIDE DEF n
    <3> QED BY <1>4, <3>1, <3>2
  <2> QED BY <1>1, <1>5, <2>1 DEF RestOfPrompt
<1> HIDE DEF n
<1>8. ASSUME ~mixed PROVE Shows(scr', LineText', Printed' + Len(shell_buf'))
  <2> DEFINE t == scr'
             more == LineText'
  <2>1. at = CursorAt(scr) /\ shell_buf = <<>> /\ Shows(scr, LineText, n)
    <3>1. at = CursorAt(scr) /\ shell_buf = <<>>
          /\ Shows(scr, LineText, Printed + Len(shell_buf))
      BY <1>1, <1>8 DEF ShowInv, OnLine
    <3>2. Printed + Len(shell_buf) = n
      BY <1>2, <3>1 DEF n
    <3> QED BY <3>1, <3>2
  <2>2. IsScreen(scr) /\ CursorAt(scr) \in ScreenCells
    BY <1>3, CursorOnScreen DEF ShowInv, ShellInv
  <2>3. /\ scr = [column |-> scr.column, line |-> scr.line, vga |-> scr.vga]
        /\ DOMAIN scr.vga = ScreenCells
    BY <2>2 DEF IsScreen, OnScreen
  <2>4. t = [column |-> scr.column + 1, line |-> scr.line, vga |-> [scr.vga EXCEPT ![at] = c]]
    BY <1>1, <2>3
  <2>5. CursorAt(t) = CursorAt(scr) + 1
    <3>1. scr.line * VGAWidth \in Int /\ scr.column \in Int
      <4>1. scr.line \in Int /\ scr.column \in Int /\ VGAWidth \in Int
        BY <2>2, VgaAssumption DEF IsScreen, OnScreen
      <4> QED BY <4>1
    <3>2. t.line = scr.line /\ t.column = scr.column + 1
      BY <2>4
    <3> HIDE DEF t
    <3> QED BY <3>1, <3>2 DEF CursorAt
  <2>6. t.vga[CursorAt(scr)] = c
        /\ \A j \in ScreenCells : j # CursorAt(scr) => t.vga[j] = scr.vga[j]
    BY <2>1, <2>2, <2>3, <2>4
  <2>7. /\ \A i \in 1 .. n : LineText[i] = Prompt(prompt_name)[i]
        /\ \A i \in 1 .. n + 1 : more[i] = Prompt(prompt_name)[i]
        /\ Printed' + Len(shell_buf') = n + 1
    <3>1. Len(shell_buf) = 0 /\ shell_buf' = shell_buf /\ prompt_name' = prompt_name
      BY <1>1, <2>1
    <3>2. \A i \in 1 .. n : LineText[i] = Prompt(prompt_name)[i]
      BY <1>2, <3>1 DEF LineText, n
    <3>3. \A i \in 1 .. n + 1 : more[i] = Prompt(prompt_name)[i]
      BY <1>2, <1>5, <3>1 DEF LineText
    <3> QED BY <1>2, <1>5, <3>1, <3>2, <3>3
  <2>8. (\A i \in 1 .. n : more[i] = LineText[i]) /\ more[n + 1] = c
    BY <1>2, <1>6, <2>7
  <2> HIDE DEF t, more, c
  <2>9. Shows(t, more, n + 1)
    BY <1>2, <1>3, <2>1, <2>2, <2>5, <2>6, <2>8, StoredShows
  <2> QED BY <2>7, <2>9 DEF t, more
<1>9. boot' # <<>> => (~mixed => shell_buf' = <<>>)
  BY <1>1 DEF ShowInv, OnLine
<1> QED BY <1>1, <1>7, <1>8, <1>9 DEF OnLine

(* A key other than Enter mixes with the first prompt or comes after it.   *)
LEMMA BackspaceShows ==
  ASSUME ShowInv, Backspace
  PROVE  OnLine' /\ RestOfPrompt'
<1>1. /\ UNCHANGED <<boot, at, prompt_name>> /\ mixed' = (mixed \/ boot # <<>>)
      /\ shell_buf # <<>> /\ shell_buf' = SubSeq(shell_buf, 1, Len(shell_buf) - 1)
      /\ scr' = PutBack(scr)
  <2>1. scr' = PutChar(scr, "BS")
    BY PrintOne DEF Backspace
  <2>2. PutChar(scr, "BS") = PutBack(scr)
    BY DEF PutChar
  <2> QED BY <2>1, <2>2 DEF Backspace, Key
<1>2. RestOfPrompt' /\ Printed' = Printed
  BY <1>1 DEF ShowInv, RestOfPrompt, Printed
<1>3. ASSUME ~mixed' PROVE ~mixed /\ boot = <<>> /\ at = Nowhere
  BY <1>1, <1>3 DEF ShowInv, ShellInv, Booting
<1>4. ASSUME ~mixed' PROVE Shows(scr', LineText', Printed' + Len(shell_buf'))
  <2> DEFINE n == Printed + Len(shell_buf)
             less == LineText'
  <2>1. Shows(scr, LineText, n)
    BY <1>3, <1>4 DEF ShowInv, OnLine
  <2>2. Len(shell_buf) \in Nat \ {0} /\ Printed \in Nat
    <3>1. shell_buf \in Seq(Typed)
      BY DEF ShowInv, ShellInv, Kept
    <3> QED BY <1>1, <3>1, Lengths DEF ShowInv
  <2>3. Len(shell_buf') = Len(shell_buf) - 1
        /\ \A i \in 1 .. Len(shell_buf) - 1 : shell_buf'[i] = shell_buf[i]
    <3>1. shell_buf \in Seq(Typed) /\ Len(shell_buf) - 1 \in 0 .. Len(shell_buf)
      BY <2>2 DEF ShowInv, ShellInv, Kept
    <3> QED BY <1>1, <3>1, Prefix
  <2>4. \A i \in 1 .. n - 1 : less[i] = LineText[i]
    BY <1>1, <1>2, <2>2, <2>3 DEF LineText
  <2>5. n \in Nat \ {0} /\ Printed' + Len(shell_buf') = n - 1
    BY <1>2, <2>2, <2>3
  <2>6. IsScreen(scr)
    BY DEF ShowInv, ShellInv
  <2> HIDE DEF n, less
  <2>7. Shows(PutBack(scr), less, n - 1)
    BY <2>1, <2>4, <2>5, <2>6, BackShows
  <2> QED BY <1>1, <2>5, <2>7 DEF less
<1> QED BY <1>1, <1>2, <1>3, <1>4 DEF OnLine

(* Any other key, a tab excepted. *)
LEMMA CharacterShows ==
  ASSUME ShowInv, NEW c \in Typed, c # "TAB", Character(c)
  PROVE  OnLine' /\ RestOfPrompt'
<1>1. /\ UNCHANGED <<boot, at, prompt_name>> /\ mixed' = (mixed \/ boot # <<>>)
      /\ shell_buf' = Append(shell_buf, c)
      /\ scr' = PutChar(scr, c)
  BY PrintOne DEF Character, Key
<1>2. RestOfPrompt' /\ Printed' = Printed
  BY <1>1 DEF ShowInv, RestOfPrompt, Printed
<1>3. ASSUME ~mixed' PROVE ~mixed /\ boot = <<>> /\ at = Nowhere
  BY <1>1, <1>3 DEF ShowInv, ShellInv, Booting
<1>4. ASSUME ~mixed' PROVE Shows(scr', LineText', Printed' + Len(shell_buf'))
  <2> DEFINE n == Printed + Len(shell_buf)
             more == LineText'
  <2>1. Shows(scr, LineText, n)
    BY <1>3, <1>4 DEF ShowInv, OnLine
  <2>2. Len(shell_buf) \in Nat /\ Printed \in Nat
    BY Lengths DEF ShowInv
  <2>3. Len(shell_buf') = Len(shell_buf) + 1 /\ shell_buf'[Len(shell_buf) + 1] = c
        /\ \A i \in 1 .. Len(shell_buf) : shell_buf'[i] = shell_buf[i]
    <3>1. shell_buf \in Seq(Typed)
      BY DEF ShowInv, ShellInv, Kept
    <3> QED BY <1>1, <3>1
  <2>4. (\A i \in 1 .. n : more[i] = LineText[i]) /\ more[n + 1] = c
    BY <1>1, <1>2, <2>2, <2>3 DEF LineText
  <2>5. n \in Nat /\ Printed' + Len(shell_buf') = n + 1
    BY <1>2, <2>2, <2>3
  <2>6. IsScreen(scr) /\ c \notin Controls
    BY TextAssumption DEF ShowInv, ShellInv
  <2> HIDE DEF n, more
  <2>7. Shows(PutChar(scr, c), more, n + 1)
    BY <2>1, <2>4, <2>5, <2>6, TextShows
  <2> QED BY <1>1, <2>5, <2>7 DEF more
<1> QED BY <1>1, <1>2, <1>3, <1>4 DEF OnLine

(* Enter after the first prompt leaves the prompt before the cursor. *)
LEMMA EnterShows ==
  ASSUME ShowInv, NEW out \in Outputs \cup {<<>>}, Enter(out), prompt_name' \in PromptNames,
         boot # <<>> => prompt_name' = prompt_name
  PROVE  OnLine' /\ RestOfPrompt'
<1> DEFINE p == Prompt(prompt_name')
<1>1. UNCHANGED <<boot, at>> /\ mixed' = (boot # <<>>) /\ shell_buf' = <<>>
  BY DEF Enter, Key
<1>2. RestOfPrompt'
  <2>1. CASE boot = <<>>
    <3>1. Len(boot') = 0
      BY <1>1, <2>1
    <3> QED BY <3>1 DEF RestOfPrompt
  <2>2. CASE boot # <<>>
    BY <1>1, <2>2 DEF ShowInv, RestOfPrompt, Printed
  <2> QED BY <2>1, <2>2
<1>3. ASSUME ~mixed' PROVE boot = <<>> /\ at = Nowhere
  BY <1>1, <1>3 DEF ShowInv, ShellInv, Booting
<1>4. ASSUME ~mixed' PROVE Shows(scr', LineText', Printed' + Len(shell_buf'))
  <2> DEFINE text == LineText'
  <2>1. PICK t : IsScreen(t) /\ scr' = print(t, p)
    BY EnterPrints DEF ShowInv
  <2>2. Len(p) \in Nat /\ \A i \in 1 .. Len(p) : p[i] \notin Controls
    BY Sizes
  <2>3. Shows(scr', p, Len(p))
    <3> HIDE DEF p
    <3> QED BY <2>1, <2>2, PrintShows
  <2>4. Printed' = Len(p) /\ Len(shell_buf') = 0 /\ boot' = <<>>
    <3>1. Len(boot') = 0 /\ Len(shell_buf') = 0 /\ boot' = <<>>
      BY <1>1, <1>3, <1>4
    <3> QED BY <2>2, <3>1 DEF Printed
  <2>5. \A i \in 1 .. Len(p) : text[i] = p[i]
    BY <2>2, <2>4 DEF LineText
  <2>6. \A i \in 1 .. Len(p) : Len(p) - i + 1 \in 1 .. Len(p)
    BY <2>2
  <2>7. Printed' + Len(shell_buf') = Len(p)
    BY <2>2, <2>4
  <2> HIDE DEF p, text
  <2>8. Shows(scr', text, Len(p))
    BY <2>3, <2>5, <2>6 DEF Shows
  <2> QED BY <2>7, <2>8 DEF text
<1> QED BY <1>1, <1>2, <1>3, <1>4 DEF OnLine

(* The initial state and every step, as long as no tab is typed. *)
LEMMA ShowInvInductive ==
  ASSUME "TAB" \notin Typed
  PROVE  /\ Init => ShowInv
         /\ ShowInv /\ [Next]_vars => ShowInv'
<1>1. ASSUME Init PROVE ShowInv
  <2>1. ShellInv
    BY <1>1, ShellInvInductive
  <2>2. boot = Prompt(prompt_name) /\ shell_buf = <<>> /\ at = Nowhere /\ mixed = FALSE
    BY <1>1 DEF Init
  <2>3. Len(boot) \in Nat /\ Printed = 0 /\ Len(shell_buf) = 0
    <3>1. Len(boot) \in Nat /\ Len(shell_buf) = 0
      BY <2>1, <2>2, Lengths
    <3> QED BY <2>2, <3>1 DEF Printed
  <2>4. OnLine
    BY <2>2, <2>3 DEF OnLine, Shows
  <2>5. RestOfPrompt
    BY <2>2, <2>3 DEF RestOfPrompt
  <2> QED BY <2>1, <2>2, <2>4, <2>5 DEF ShowInv
<1>2. ASSUME ShowInv, [Next]_vars PROVE ShowInv'
  <2>1. ShellInv'
    BY <1>2, ShellInvInductive DEF ShowInv
  <2>2. CASE BootPlace
    <3>1. boot # <<>> /\ UNCHANGED <<line, boot, mixed>> /\ scr' = Wrap(scr)
          /\ at' = CursorAt(scr')
      BY <2>2 DEF BootPlace
    <3>2. scr' = scr
      <4>1. scr.column < VGAWidth /\ IsScreen(scr)
        BY <1>2, <3>1, RoomNow DEF ShowInv, ShellInv
      <4> QED BY <3>1, <4>1, WrapMakesRoom
    <3>3. OnLine' /\ RestOfPrompt'
      BY <1>2, <3>1, <3>2 DEF line, ShowInv, OnLine, RestOfPrompt, LineText, Printed
    <3>4. mixed' \in BOOLEAN
      BY <1>2, <3>1 DEF ShowInv
    <3> QED BY <2>1, <3>3, <3>4 DEF ShowInv
  <2>3. CASE BootStore
    <3>1. mixed' \in BOOLEAN
      BY <1>2, <2>3 DEF ShowInv, BootStore
    <3> QED BY <1>2, <2>1, <2>3, <3>1, BootStoreShows DEF ShowInv
  <2>4. ASSUME NEW out \in Outputs \cup {<<>>}, Enter(out), prompt_name' \in PromptNames,
               boot # <<>> => prompt_name' = prompt_name
        PROVE  ShowInv'
    <3>1. mixed' \in BOOLEAN
      BY <2>4 DEF Enter
    <3>2. OnLine' /\ RestOfPrompt'
      BY <1>2, <2>4, EnterShows
    <3> QED BY <2>1, <3>1, <3>2 DEF ShowInv
  <2>5. ASSUME NEW out \in Outputs, UNCHANGED prompt_name, Enter(out) PROVE ShowInv'
    <3>1. prompt_name \in PromptNames
      BY <1>2 DEF ShowInv, ShellInv, Booting
    <3> QED BY <2>4, <2>5, <3>1
  <2>6. ASSUME NEW name \in PromptNames, SetPrompt(name) PROVE ShowInv'
    BY <2>4, <2>6 DEF SetPrompt
  <2>7. CASE Backspace
    <3>1. mixed' \in BOOLEAN
      BY <2>7 DEF Backspace
    <3> QED BY <1>2, <2>1, <2>7, <3>1, BackspaceShows DEF ShowInv
  <2>8. ASSUME NEW c \in Typed, Character(c) PROVE ShowInv'
    <3>1. mixed' \in BOOLEAN /\ c # "TAB"
      BY <2>8 DEF Character
    <3> QED BY <1>2, <2>1, <2>8, <3>1, CharacterShows DEF ShowInv
  <2>9. CASE UNCHANGED vars
    BY <1>2, <2>1, <2>9 DEF vars, line, ShowInv, OnLine, RestOfPrompt, LineText, Printed
  <2> QED BY <1>2, <2>2, <2>3, <2>5, <2>6, <2>7, <2>8, <2>9 DEF Next
<1> QED BY <1>1, <1>2

(* The screen shows the prompt and the line before the cursor, for every   *)
(* size of the screen, across wrapped rows, scrolling and backspaces, from *)
(* the first prompt on or from the first Enter after a key has mixed with  *)
(* it.  With typed tabs the code does not keep this: a tab is one          *)
(* character of the line and up to four cells.                             *)
THEOREM LineIsOnScreen ==
  ASSUME "TAB" \notin Typed
  PROVE  Spec => []ScreenShowsLine
<1>1. Init => ShowInv
  BY ShowInvInductive
<1>2. ShowInv /\ [Next]_vars => ShowInv'
  BY ShowInvInductive
<1>3. ShowInv => ScreenShowsLine
  BY TextIsLine
<1> QED BY <1>1, <1>2, <1>3, PTL DEF Spec
=============================================================================
