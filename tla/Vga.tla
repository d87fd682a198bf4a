-------------------------------- MODULE Vga --------------------------------
(***************************************************************************)
(* The text screen of vga.c: a cursor and a row-major array of cells,      *)
(* changed one character at a time by print.  A screen is a record; the    *)
(* color of a cell is left out.  A store through a bad index would fall    *)
(* outside the array: it adds a cell to the record's array here, so that   *)
(* the type of a screen says that there was none.                          *)
(***************************************************************************)
EXTENDS Integers, Sequences

CONSTANTS VGAWidth, VGAHeight

ASSUME VgaAssumption == VGAWidth \in Nat \ {0} /\ VGAHeight \in Nat \ {0}

ScreenCells == 0 .. VGAWidth * VGAHeight - 1

(* The index of the cell that the cursor is at. *)
CursorAt(s) == s.line * VGAWidth + s.column

Reset == [column |-> 0, line |-> 0, vga |-> [i \in ScreenCells |-> " "]]

Store(s, c) ==
  [s EXCEPT !.vga = [i \in DOMAIN s.vga \cup {CursorAt(s)} |->
                       IF i = CursorAt(s) THEN c ELSE s.vga[i]]]

scrollUp(s) ==
  [s EXCEPT !.vga = [i \in DOMAIN s.vga |->
                       IF i < (VGAHeight - 1) * VGAWidth THEN s.vga[i + VGAWidth]
                                                         ELSE " "]]

newLine(s) == IF s.line < VGAHeight - 1
              THEN [s EXCEPT !.line = @ + 1, !.column = 0]
              ELSE [scrollUp(s) EXCEPT !.column = 0]

(* The cursor may stand behind the last column; the next character wraps. *)
Wrap(s) == IF s.column >= VGAWidth THEN newLine(s) ELSE s

PutBack_line(s) == IF s.column > 0 THEN Store([s EXCEPT !.column = @ - 1], " ") ELSE s

(* Backspace erases the cell before the cursor, across the end of a line.  *)
PutBack(s) ==
  LET t == IF s.column = 0 /\ s.line # 0
           THEN [s EXCEPT !.line = @ - 1, !.column = VGAWidth] ELSE s
  IN  IF t.column > 0 THEN Store([t EXCEPT !.column = @ - 1], " ") ELSE t

(* A tab blanks cells up to the next multiple of four or the last column.  *)
PutTab(s) ==
  LET t    == Wrap(s)
      stop == t.column + 4 - (t.column % 4)
      end  == IF stop < VGAWidth THEN stop ELSE VGAWidth
      to   == [t EXCEPT !.column = end]
      hit  == CursorAt(t) .. CursorAt(to) - 1
  IN  [to EXCEPT !.vga = [i \in DOMAIN t.vga \cup hit |->
                            IF i \in hit THEN " " ELSE t.vga[i]]]

PutText_unwrapped(s, c) == [Store(s, c) EXCEPT !.column = @ + 1]

PutText(s, c) == [Store(Wrap(s), c) EXCEPT !.column = @ + 1]

(* One turn of the loop of print. *)
PutChar(s, c) == CASE c = "LF" -> newLine(s)
                   [] c = "CR" -> [s EXCEPT !.column = 0]
                   [] c = "BS" -> PutBack(s)
                   [] c = "TAB" -> PutTab(s)
                   [] OTHER -> PutText(s, c)

print(s, str) ==
  LET f[i \in 0 .. Len(str)] == IF i = 0 THEN s ELSE PutChar(f[i - 1], str[i])
  IN  f[Len(str)]

(* Every store of print so far has hit the screen, and the next one will.  *)
OnScreen(s) == /\ s.column \in 0 .. VGAWidth /\ s.line \in 0 .. VGAHeight - 1
               /\ DOMAIN s.vga = ScreenCells
=============================================================================
