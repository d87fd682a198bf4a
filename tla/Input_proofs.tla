---------------------------- MODULE Input_proofs ----------------------------
(***************************************************************************)
(* Proofs about Input for every buffer size, number of attempts, password  *)
(* and keyboard.  IInv strengthens the invariants: the last cell of        *)
(* input_buf is never written with a character, because login_handle_char  *)
(* stops one cell before it, and attempts counts the rejected lines.  LInv *)
(* is about the interrupt path, Held about the line after Enter.           *)
(***************************************************************************)
EXTENDS Input, TLAPS

LastCellFree == input_buf[MAX_INPUT - 1] = NUL
Counting == /\ attempts = wrong
            /\ attempts = MAX_ATTEMPTS <=> main = "locked"

(* Between the reads of keybHandler a byte may be waiting whose request    *)
(* was already taken; before the first and after the last it may not.      *)
RequestKept == /\ irq # "read" /\ obf => irr \/ early
               /\ irq = "none" => ~isr /\ (iflag \/ main = "initIDT")
               /\ main = "initIDT" => irq = "none" /\ ~iflag

(* Once Enter was pressed, and until a key changes the line, the buffer    *)
(* holds the line that was entered with its end mark.                      *)
LineHeld == entered = [i \in 1 .. input_len |-> input_buf[i - 1]]
            /\ input_buf[input_len] = NUL
Held == /\ input_done \in BOOLEAN /\ overtyped \in BOOLEAN
        /\ input_done /\ ~overtyped => LineHeld

IInv == TypeOK /\ LastCellFree /\ Counting /\ ReaderIsAsking
LInv == TypeOK /\ RequestKept

(* The buffer is empty and no line was rejected when the kernel starts.    *)
LEMMA InvInit == Init => IInv
  BY InputAssumption
     DEF Init, IInv, TypeOK, LastCellFree, Counting, ReaderIsAsking, Keys, Cells

(* What a key types is a character. *)
LEMMA CharType ==
  ASSUME TypeOK, scanCode \notin {"shift", "caps", "esc"}
  PROVE  CharOf(scanCode) \in Chars
  BY DEF TypeOK, CharOf, Chars, Keys

(* login_handle_char keeps the line in the buffer and its last cell free.  *)
LEMMA HandleChar ==
  ASSUME TypeOK, LastCellFree, NEW c \in Chars, login_handle_char(c)
  PROVE  /\ input_buf' \in [Cells -> Chars \cup {NUL}]
         /\ input_len' \in Cells
         /\ LastCellFree'
  <1> USE InputAssumption DEF TypeOK, LastCellFree, Cells, Editable
  <1>1. CASE c = "enter"
    BY <1>1 DEF login_handle_char
  <1>2. CASE c = "back"
    BY <1>2 DEF login_handle_char
  <1>3. CASE c \notin {"enter", "back"}
    BY <1>3 DEF login_handle_char, line
  <1> QED BY <1>1, <1>2, <1>3

(* IInv is inductive. *)
LEMMA InvStep == IInv /\ [Next]_vars => IInv'
  <1> SUFFICES ASSUME IInv, [Next]_vars PROVE IInv'
    OBVIOUS
  <1> USE InputAssumption
          DEF IInv, TypeOK, LastCellFree, Counting, ReaderIsAsking
  <1>1. ASSUME NEW b \in Bytes, SendByte(b) PROVE IInv'
    BY <1>1 DEF SendByte, line, caps
  <1>2. CASE Offer
    <2>1. port' \in Bytes /\ queue' \in Seq(Bytes)
      BY <1>2 DEF Offer
    <2> QED BY <1>2, <2>1 DEF Offer, line, caps
  <1>3. CASE TakeIrq
    BY <1>3 DEF TakeIrq, line, caps
  <1>4. CASE ReadCode
    BY <1>4 DEF ReadCode, line, caps
  <1>5. CASE keybHandler
    <2>1. /\ input_buf' \in [Cells -> Chars \cup {NUL}]
          /\ input_len' \in Cells
          /\ LastCellFree'
      BY <1>5, CharType, HandleChar DEF keybHandler, line
    <2> QED BY <1>5, <2>1 DEF keybHandler
  <1>6. CASE EndIrq
    BY <1>6 DEF EndIrq, line, caps
  <1>7. CASE initIDT
    BY <1>7 DEF initIDT, line, caps
  <1>8. CASE initKeyb
    BY <1>8 DEF initKeyb, line, device
  <1>9. CASE read_input
    BY <1>9 DEF read_input, ReadLine, device, caps, Cells
  <1>10. CASE CheckName
    BY <1>10 DEF CheckName, Checked, line, device, caps
  <1>11. CASE read_password
    BY <1>11 DEF read_password, ReadLine, device, caps, Cells
  <1>12. CASE CheckPass
    BY <1>12 DEF CheckPass, Checked, line, device, caps
  <1>13. CASE startShell
    BY <1>13 DEF startShell, line, device, caps
  <1>14. CASE UNCHANGED vars
    BY <1>14 DEF vars, line, device, caps
  <1> QED
    BY <1>1, <1>2, <1>3, <1>4, <1>5, <1>6, <1>7, <1>8, <1>9, <1>10, <1>11, <1>12,
       <1>13, <1>14 DEF Next, Irq, Main

(* LInv is inductive. *)
LEMMA RequestStep == TypeOK' /\ LInv /\ [Next]_vars => LInv'
  <1> SUFFICES ASSUME TypeOK', LInv, [Next]_vars PROVE RequestKept'
    BY DEF LInv
  <1> USE DEF LInv, TypeOK, RequestKept
  <1>1. ASSUME NEW b \in Bytes, SendByte(b) PROVE RequestKept'
    BY <1>1 DEF SendByte
  <1>2. CASE Offer
    BY <1>2 DEF Offer
  <1>3. CASE Irq
    <2>1. CASE TakeIrq
      <3>1. main # "initIDT" /\ main' = main /\ iflag' = FALSE /\ obf' = obf
        BY <1>3, <2>1 DEF TakeIrq
      <3>2. CASE installed
        BY <2>1, <3>1, <3>2 DEF TakeIrq
      <3>3. CASE ~installed
        <4>1. early'
          BY <2>1, <3>3 DEF TakeIrq
        <4> QED BY <2>1, <3>1, <3>3, <4>1 DEF TakeIrq
      <3> QED BY <3>2, <3>3
    <2>2. CASE ReadCode
      BY <2>2 DEF ReadCode
    <2>3. CASE keybHandler
      BY <2>3 DEF keybHandler
    <2>4. CASE EndIrq
      BY <2>4 DEF EndIrq
    <2> QED BY <1>3, <2>1, <2>2, <2>3, <2>4 DEF Irq
  <1>4. CASE initIDT
    BY <1>4 DEF initIDT
  <1>5. CASE initKeyb \/ read_input \/ CheckName \/ read_password \/ CheckPass
             \/ startShell
    BY <1>5 DEF initKeyb, read_input, read_password, ReadLine, CheckName, CheckPass,
                Checked, startShell, device
  <1>6. CASE UNCHANGED vars
    BY <1>6 DEF vars, device
  <1> QED BY <1>1, <1>2, <1>3, <1>4, <1>5, <1>6 DEF Next, Main

(* A key keeps the line that was entered, or changes it and is recorded.   *)
LEMMA HeldChar ==
  ASSUME TypeOK, Held, NEW c, login_handle_char(c)
  PROVE  Held'
  <1>1. CASE input_done
    <2>1. input_done' = TRUE /\ entered' = entered
      BY <1>1 DEF login_handle_char, line
    <2>2. overtyped' = (overtyped \/ line' # line)
      BY <1>1 DEF login_handle_char
    <2>3. overtyped' \in BOOLEAN
      BY <2>2 DEF Held
    <2>4. ASSUME ~overtyped' PROVE LineHeld'
      <3>1. ~overtyped /\ line' = line
        BY <2>2, <2>4 DEF Held
      <3>2. LineHeld
        BY <1>1, <3>1 DEF Held
      <3> QED BY <2>1, <3>1, <3>2 DEF LineHeld, line
    <2> QED BY <2>1, <2>3, <2>4 DEF Held
  <1>2. CASE ~input_done
    <2>1. overtyped' = overtyped
      BY <1>2 DEF login_handle_char, Held
    <2>2. CASE c = "enter"
      <3>1. /\ input_done' = TRUE /\ input_len' = input_len
            /\ input_buf' = [input_buf EXCEPT ![input_len] = NUL]
            /\ entered' = [i \in 1 .. input_len |-> input_buf[i - 1]]
        BY <1>2, <2>2 DEF login_handle_char
      <3>2. input_len \in Nat /\ input_len \in Cells
            /\ DOMAIN input_buf = Cells
        BY InputAssumption DEF TypeOK, Cells
      <3>3. input_buf'[input_len'] = NUL
        BY <3>1, <3>2
      <3>4. \A i \in 1 .. input_len : input_buf'[i - 1] = input_buf[i - 1]
        BY <3>1, <3>2, InputAssumption DEF Cells
      <3>5. LineHeld'
        BY <3>1, <3>3, <3>4 DEF LineHeld
      <3> QED BY <2>1, <3>1, <3>5 DEF Held
    <2>3. CASE c # "enter"
      <3>1. input_done' = input_done
        BY <2>3 DEF login_handle_char, line
      <3> QED BY <1>2, <2>1, <3>1 DEF Held
    <2> QED BY <2>2, <2>3
  <1> QED BY <1>1, <1>2

(* Held is inductive. *)
LEMMA HeldStep == TypeOK /\ Held /\ [Next]_vars => Held'
  <1> SUFFICES ASSUME TypeOK, Held, [Next]_vars PROVE Held'
    OBVIOUS
  <1>1. CASE UNCHANGED <<line, typed>>
    BY <1>1 DEF Held, LineHeld, line, typed
  <1>2. CASE keybHandler
    <2>1. CASE UNCHANGED <<line, typed>>
      BY <1>1, <2>1
    <2>2. CASE login_handle_char(CharOf(scanCode))
      BY <2>2, HeldChar
    <2> QED BY <1>2, <2>1, <2>2 DEF keybHandler
  <1>3. CASE read_input \/ read_password
    <2>1. input_done' = FALSE /\ overtyped' = FALSE
      BY <1>3 DEF read_input, read_password, ReadLine
    <2> QED BY <2>1 DEF Held
  <1>4. ASSUME NEW b \in Bytes, SendByte(b) PROVE UNCHANGED <<line, typed>>
    BY <1>4 DEF SendByte
  <1>5. CASE Offer \/ TakeIrq \/ ReadCode \/ EndIrq \/ initIDT
    BY <1>1, <1>5 DEF Offer, TakeIrq, ReadCode, EndIrq, initIDT
  <1>6. CASE initKeyb \/ CheckName \/ CheckPass \/ startShell
    BY <1>1, <1>6 DEF initKeyb, CheckName, CheckPass, Checked, startShell
  <1>7. CASE UNCHANGED vars
    BY <1>1, <1>7 DEF vars
  <1> QED
    BY <1>1, <1>2, <1>3, <1>4, <1>5, <1>6, <1>7 DEF Next, Irq, Main

(* A held line is a string that ends inside the buffer, so that k_strcmp   *)
(* against it finds no difference.                                         *)
LEMMA HeldEquals == TypeOK /\ LineHeld => Equals(entered)
  <1> SUFFICES ASSUME TypeOK, LineHeld PROVE Equals(entered)
    OBVIOUS
  <1>1. input_len \in Nat /\ input_len < MAX_INPUT
    BY InputAssumption DEF TypeOK, Cells
  <1>2. entered \in Seq(Chars \cup {NUL}) /\ Len(entered) = input_len
    <2>1. \A i \in 1 .. input_len : input_buf[i - 1] \in Chars \cup {NUL}
      BY <1>1, InputAssumption DEF TypeOK, Cells
    <2>2. entered \in [1 .. input_len -> Chars \cup {NUL}]
      BY <2>1 DEF LineHeld
    <2> QED BY <1>1, <2>2
  <1> QED BY <1>1, <1>2 DEF LineHeld, Equals

(* The string that login compares always ends inside input_buf: whatever   *)
(* keys are pressed, and whenever, login_handle_char and login_handle_pass *)
(* leave an end mark in it.                                                *)
THEOREM LoginComparesInBuffer == Spec => [](TypeOK /\ CompareEnds)
  <1>1. IInv => TypeOK /\ CompareEnds
    <2>1. MAX_INPUT - 1 \in Cells
      BY InputAssumption DEF Cells
    <2> QED BY <2>1 DEF IInv, LastCellFree, CompareEnds
  <1> QED BY <1>1, InvInit, InvStep, PTL DEF Spec

(* The handlers and the main program leave the line, its length and the    *)
(* keyboard's bytes in their ranges.                                       *)
THEOREM InputStaysTyped == Spec => []TypeOK
  <1>1. IInv => TypeOK
    BY DEF IInv
  <1> QED BY <1>1, InvInit, InvStep, PTL DEF Spec

(* Login rejects at most MAX_ATTEMPTS lines and is locked from the last on.*)
THEOREM LoginStops == Spec => []ThreeStrikes
  <1>1. IInv => ThreeStrikes
    BY InputAssumption DEF IInv, TypeOK, Counting, ThreeStrikes
  <1> QED BY <1>1, InvInit, InvStep, PTL DEF Spec

(* Name, password and shell input each reach the reader that asked for it. *)
THEOREM ReadersApart == Spec => []ReaderIsAsking
  <1>1. IInv => ReaderIsAsking
    BY DEF IInv
  <1> QED BY <1>1, InvInit, InvStep, PTL DEF Spec

(* No interrupt of the keyboard is lost after initKeyb, at whatever point  *)
(* of the handler the next byte arrives.                                   *)
THEOREM NoInterruptLost == Spec => []KeyboardReady
  <1>1. Init => LInv
    BY InvInit DEF IInv, LInv, Init, RequestKept
  <1>2. LInv => KeyboardReady
    BY DEF LInv, RequestKept, KeyboardReady
  <1>3. IInv => TypeOK
    BY DEF IInv
  <1> QED BY <1>1, <1>2, <1>3, InvInit, InvStep, RequestStep, PTL DEF Spec

(* The line that login accepts or rejects is the one that was in the       *)
(* buffer when Enter was pressed: the handler still runs between Enter and *)
(* its removal, and only a key that it takes then can make a difference.   *)
THEOREM EnteredLineCompared == Spec => ComparesEnteredLine
  <1>1. Init => Held
    BY DEF Init, Held
  <1>2. TypeOK /\ Held /\ [Next]_vars
        => [main' # main /\ main \in {"name", "pass"} /\ ~overtyped
            => Equals(entered)]_vars
    <2> SUFFICES ASSUME TypeOK, Held, Next, main' # main,
                        main \in {"name", "pass"}, ~overtyped
                 PROVE  Equals(entered)
      OBVIOUS
    <2>1. input_done
      <3>1. ASSUME NEW b \in Bytes, SendByte(b) PROVE FALSE
        BY <3>1 DEF SendByte
      <3>2. CASE Offer \/ Irq
        BY <3>2 DEF Offer, Irq, TakeIrq, ReadCode, keybHandler, EndIrq
      <3>3. CASE Main
        BY <3>3 DEF Main, initIDT, initKeyb, read_input, read_password, ReadLine,
                    CheckName, CheckPass, Checked, startShell
      <3> QED BY <3>1, <3>2, <3>3 DEF Next
    <2> QED BY <2>1, HeldEquals DEF Held
  <1>3. IInv => TypeOK
    BY DEF IInv
  <1> QED
    BY <1>1, <1>2, <1>3, InvInit, InvStep, HeldStep, PTL
       DEF Spec, ComparesEnteredLine
=============================================================================
