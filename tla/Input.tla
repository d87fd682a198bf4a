------------------------------- MODULE Input -------------------------------
(***************************************************************************)
(* From a key to the program that waits for it: the interrupt path of      *)
(* idt.c, the keyboard driver, and login, which polls a flag that the      *)
(* interrupt handler sets.  The main program and the handler share one     *)
(* processor: the handler runs with interrupts off, at any point of the    *)
(* main program between initIDT and the end of time.                       *)
(*                                                                         *)
(* External are the keyboard controller, which holds one byte for port     *)
(* 0x60 and loads the next when that was read, and the interrupt           *)
(* controller, which latches the rising edge of "byte waiting".            *)
(***************************************************************************)
EXTENDS Integers, Sequences

CONSTANTS MAX_INPUT,     \* cells of input_buf
          MAX_ATTEMPTS,
          Letters,       \* keys that type a character of their own
          Upper,         \* what they type with shift or caps lock
          VALID_USER,    \* sequences of characters
          VALID_PASS,
          Bytes,         \* the scan codes a keyboard may send
          QueueLen       \* bound: bytes waiting in the keyboard

Keys  == Letters \cup {"enter", "back", "tab", "shift", "caps", "esc"}
NUL   == "NUL"
Chars == Letters \cup {Upper[l] : l \in Letters} \cup {"enter", "back", "tab"}

ASSUME InputAssumption ==
  /\ MAX_INPUT \in Nat \ {0} /\ MAX_ATTEMPTS \in Nat \ {0} /\ QueueLen \in Nat
  /\ Upper \in [Letters -> STRING] /\ Letters \subseteq STRING
  /\ Bytes \subseteq [key : Keys, up : BOOLEAN] /\ Bytes # {}

VARIABLES main,          \* where kmain or login is
          irq,           \* where the interrupt handler is; "none": not running
          iflag,         \* interrupts are enabled
          installed,     \* irq_routines[1] is keybHandler
          char_handler,  \* "none", "login", "pass" or "shell"
          capsOn, capsLock,
          scanCode,      \* keybHandler's local variable
          input_buf, input_len, input_done, attempts,
          queue,         \* keyboard: bytes not yet at the port
          port,          \* controller: the byte at port 0x60
          obf,           \* controller: that byte was not read yet
          irr, isr,      \* interrupt controller: request latched, in service
          early,         \* ghost: a byte arrived before there was a handler
          wrong,         \* ghost: lines that login has rejected
          entered,       \* ghost: the line, as it was when Enter was pressed
          overtyped      \* ghost: a key has changed it since

device == <<queue, port, obf, irr, isr>>
line   == <<input_buf, input_len, input_done>>
caps   == <<capsOn, capsLock>>
typed  == <<entered, overtyped>>
vars   == <<main, irq, iflag, installed, char_handler, caps, scanCode, line,
            attempts, device, early, wrong, typed>>

Cells == 0 .. MAX_INPUT - 1

Init == /\ main = "initIDT" /\ irq = "none" /\ iflag = FALSE
        /\ installed = FALSE /\ char_handler = "none"
        /\ capsOn = FALSE /\ capsLock = FALSE /\ scanCode = "esc"
        /\ input_buf = [i \in Cells |-> NUL] /\ input_len = 0
        /\ input_done = FALSE /\ attempts = 0
        /\ queue = <<>> /\ port \in Bytes /\ obf = FALSE
        /\ irr = FALSE /\ isr = FALSE
        /\ early = FALSE /\ wrong = 0 /\ entered = <<>> /\ overtyped = FALSE

(* k_strcmp(input_buf, s) = 0 *)
Equals(s) == /\ Len(s) < MAX_INPUT
             /\ \A i \in 1 .. Len(s) : input_buf[i - 1] = s[i]
             /\ input_buf[Len(s)] = NUL

-----------------------------------------------------------------------------
(* The keyboard sends a byte; the controller offers it at the port. *)
SendByte(b) ==
  /\ Len(queue) < QueueLen
  /\ queue' = Append(queue, b)
  /\ UNCHANGED <<main, irq, iflag, installed, char_handler, caps, scanCode, line,
                 attempts, port, obf, irr, isr, early, wrong, typed>>

Offer ==
  /\ ~obf /\ queue # <<>>
  /\ port' = Head(queue) /\ queue' = Tail(queue)
  /\ obf' = TRUE /\ irr' = TRUE
  /\ UNCHANGED <<main, irq, iflag, installed, char_handler, caps, scanCode, line,
                 attempts, isr, early, wrong, typed>>

(* The processor takes the interrupt.  The gate turns interrupts off, and  *)
(* irq_handler looks up the routine.                                       *)
TakeIrq ==
  /\ irq = "none" /\ iflag /\ irr /\ ~isr
  /\ irr' = FALSE /\ isr' = TRUE /\ iflag' = FALSE
  /\ irq' = IF installed THEN "read" ELSE "eoi"
  /\ early' = (early \/ ~installed)
  /\ UNCHANGED <<main, installed, char_handler, caps, scanCode, line, attempts,
                 queue, port, obf, wrong, typed>>

(* keybHandler reads the port for the code ... *)
ReadCode ==
  /\ irq = "read"
  /\ scanCode' = port.key
  /\ obf' = FALSE
  /\ irq' = "press"
  /\ UNCHANGED <<main, iflag, installed, char_handler, caps, line, attempts,
                 queue, port, irr, isr, early, wrong, typed>>

Editable_last(len) == len < MAX_INPUT

(* A cell is kept for the end mark. *)
Editable(len) == len < MAX_INPUT - 1

login_handle_char_full(c) ==
  /\ \/ /\ c = "enter"
        /\ input_buf' = [input_buf EXCEPT ![input_len] = NUL]
        /\ input_done' = TRUE
        /\ UNCHANGED input_len
     \/ /\ c = "back"
        /\ input_len' = IF input_len > 0 THEN input_len - 1 ELSE 0
        /\ UNCHANGED <<input_buf, input_done>>
     \/ /\ c \notin {"enter", "back"}
        /\ input_buf' = [input_buf EXCEPT ![input_len] = c]
        /\ input_len' = IF Editable(input_len) THEN input_len + 1 ELSE input_len
        /\ UNCHANGED input_done
  /\ entered' = IF c = "enter" /\ ~input_done
                THEN [i \in 1 .. input_len |-> input_buf[i - 1]] ELSE entered
  /\ overtyped' = (overtyped \/ (input_done /\ line' # line))

login_handle_char_open(c) ==
  /\ \/ /\ c = "enter"
        /\ input_done' = TRUE
        /\ UNCHANGED <<input_buf, input_len>>
     \/ /\ c = "back"
        /\ input_len' = IF input_len > 0 THEN input_len - 1 ELSE 0
        /\ UNCHANGED <<input_buf, input_done>>
     \/ /\ c \notin {"enter", "back"} /\ Editable(input_len)
        /\ input_buf' = [input_buf EXCEPT ![input_len] = c]
        /\ input_len' = input_len + 1
        /\ UNCHANGED input_done
     \/ /\ c \notin {"enter", "back"} /\ ~Editable(input_len)
        /\ UNCHANGED line
  /\ entered' = IF c = "enter" /\ ~input_done
                THEN [i \in 1 .. input_len |-> input_buf[i - 1]] ELSE entered
  /\ overtyped' = (overtyped \/ (input_done /\ line' # line))

(* login_handle_char and login_handle_pass differ in what they print.      *)
login_handle_char(c) ==
  /\ \/ /\ c = "enter"
        /\ input_buf' = [input_buf EXCEPT ![input_len] = NUL]
        /\ input_done' = TRUE
        /\ UNCHANGED input_len
     \/ /\ c = "back"
        /\ input_len' = IF input_len > 0 THEN input_len - 1 ELSE 0
        /\ UNCHANGED <<input_buf, input_done>>
     \/ /\ c \notin {"enter", "back"} /\ Editable(input_len)
        /\ input_buf' = [input_buf EXCEPT ![input_len] = c]
        /\ input_len' = input_len + 1
        /\ UNCHANGED input_done
     \/ /\ c \notin {"enter", "back"} /\ ~Editable(input_len)
        /\ UNCHANGED line
  /\ entered' = IF c = "enter" /\ ~input_done
                THEN [i \in 1 .. input_len |-> input_buf[i - 1]] ELSE entered
  /\ overtyped' = (overtyped \/ (input_done /\ line' # line))

(* What a key types. *)
CharOf(k) == IF k \in Letters /\ (capsOn \/ capsLock) THEN Upper[k] ELSE k

(* ... and again for the bit that tells a press from a release, which may  *)
(* be that of the next byte.  Then it acts on the key.                     *)
keybHandler ==
  /\ irq = "press"
  /\ obf' = FALSE
  /\ capsOn' = IF scanCode = "shift" THEN ~port.up ELSE capsOn
  /\ capsLock' = IF scanCode = "caps" /\ ~port.up THEN ~capsLock ELSE capsLock
  /\ IF /\ scanCode \notin {"shift", "caps", "esc"} /\ ~port.up
        /\ char_handler \in {"login", "pass"}
     THEN login_handle_char(CharOf(scanCode))
     ELSE UNCHANGED <<line, typed>>
  /\ irq' = "eoi"
  /\ UNCHANGED <<main, iflag, installed, char_handler, scanCode, attempts, queue,
                 port, irr, isr, early, wrong>>

EndIrq_unacknowledged ==
  /\ irq = "eoi"
  /\ iflag' = TRUE /\ irq' = "none"
  /\ UNCHANGED <<main, installed, char_handler, caps, scanCode, line, attempts,
                 queue, port, obf, irr, isr, early, wrong, typed>>

EndIrq_waiting ==
  /\ irq = "eoi" /\ ~input_done
  /\ isr' = FALSE /\ iflag' = TRUE /\ irq' = "none"
  /\ UNCHANGED <<main, installed, char_handler, caps, scanCode, line, attempts,
                 queue, port, obf, irr, early, wrong, typed>>

(* irq_handler acknowledges the interrupt and iret enables interrupts. *)
EndIrq ==
  /\ irq = "eoi"
  /\ isr' = FALSE /\ iflag' = TRUE /\ irq' = "none"
  /\ UNCHANGED <<main, installed, char_handler, caps, scanCode, line, attempts,
                 queue, port, obf, irr, early, wrong, typed>>

-----------------------------------------------------------------------------
(* initIDT programs the interrupt controller, which forgets its request,   *)
(* and enables interrupts.                                                 *)
initIDT ==
  /\ main = "initIDT" /\ irq = "none"
  /\ iflag' = TRUE /\ irr' = FALSE
  /\ early' = obf
  /\ main' = "initKeyb"
  /\ UNCHANGED <<irq, installed, char_handler, caps, scanCode, line, attempts,
                 queue, port, obf, isr, wrong, typed>>

initKeyb ==
  /\ main = "initKeyb" /\ irq = "none"
  /\ capsOn' = FALSE /\ capsLock' = FALSE /\ installed' = TRUE
  /\ main' = "askName"
  /\ UNCHANGED <<irq, iflag, char_handler, scanCode, line, attempts, device, early,
                 wrong, typed>>

(* read_input and read_password up to their loop.  No handler is set until *)
(* their third statement, so that an interrupt between the three does      *)
(* nothing to the line.                                                    *)
ReadLine(from, to, handler) ==
  /\ main = from /\ irq = "none"
  /\ input_len' = 0 /\ input_done' = FALSE
  /\ char_handler' = handler
  /\ main' = to
  /\ entered' = <<>> /\ overtyped' = FALSE
  /\ UNCHANGED <<irq, iflag, installed, caps, scanCode, input_buf, attempts, device,
                 early, wrong>>

read_input    == ReadLine("askName", "name", "login")
read_password == ReadLine("askPass", "pass", "pass")

(* The loop has seen input_done; the handler is removed and login compares *)
(* the line.                                                               *)
Checked(s, next) ==
  /\ irq = "none" /\ input_done
  /\ char_handler' = "none"
  /\ IF Equals(s)
     THEN main' = next /\ UNCHANGED <<attempts, wrong>>
     ELSE /\ attempts' = attempts + 1 /\ wrong' = wrong + 1
          /\ main' = IF attempts + 1 < MAX_ATTEMPTS THEN "askName" ELSE "locked"
  /\ UNCHANGED <<irq, iflag, installed, caps, scanCode, line, device, early, typed>>

CheckName_keeping ==
  /\ main = "name" /\ irq = "none" /\ input_done
  /\ IF Equals(VALID_USER)
     THEN main' = "askPass" /\ UNCHANGED <<attempts, wrong>>
     ELSE /\ attempts' = attempts + 1 /\ wrong' = wrong + 1
          /\ main' = IF attempts + 1 < MAX_ATTEMPTS THEN "askName" ELSE "locked"
  /\ UNCHANGED <<irq, iflag, installed, char_handler, caps, scanCode, line, device,
                 early, typed>>
CheckName == main = "name" /\ Checked(VALID_USER, "askPass")
CheckPass_uncounted ==
  /\ main = "pass" /\ irq = "none" /\ input_done
  /\ char_handler' = "none"
  /\ main' = IF Equals(VALID_PASS) THEN "startShell" ELSE "askName"
  /\ wrong' = IF Equals(VALID_PASS) THEN wrong ELSE wrong + 1
  /\ UNCHANGED <<irq, iflag, installed, caps, scanCode, line, attempts, device, early,
                 typed>>
CheckPass == main = "pass" /\ Checked(VALID_PASS, "startShell")

(* kmain makes the shell the reader of the keyboard and idles. *)
startShell ==
  /\ main = "startShell" /\ irq = "none"
  /\ char_handler' = "shell" /\ main' = "shell"
  /\ UNCHANGED <<irq, iflag, installed, caps, scanCode, line, attempts, device,
                 early, wrong, typed>>

Irq  == TakeIrq \/ ReadCode \/ keybHandler \/ EndIrq
Main == \/ initIDT \/ initKeyb \/ read_input \/ CheckName
        \/ read_password \/ CheckPass \/ startShell

Next == \/ \E b \in Bytes : SendByte(b)
        \/ Offer \/ Irq \/ Main

(* The processor takes an interrupt that is pending, and otherwise goes on *)
(* with the main program, which may wait as long as keys keep coming.      *)
Spec == Init /\ [][Next]_vars /\ WF_vars(Irq) /\ WF_vars(Main)

-----------------------------------------------------------------------------
(* Every store of login_handle_char goes into input_buf, and the rest of   *)
(* the state has its type.                                                 *)
TypeOK ==
  /\ main \in {"initIDT", "initKeyb", "askName", "name", "askPass", "pass",
               "startShell", "shell", "locked"}
  /\ irq \in {"none", "read", "press", "eoi"}
  /\ char_handler \in {"none", "login", "pass", "shell"}
  /\ scanCode \in Keys
  /\ input_buf \in [Cells -> Chars \cup {NUL}]
  /\ input_len \in Cells
  /\ attempts \in 0 .. MAX_ATTEMPTS
  /\ port \in Bytes /\ queue \in Seq(Bytes)

(* The string that login compares ends inside input_buf, also when keys    *)
(* after Enter have overwritten the end mark that Enter stored.            *)
CompareEnds == \E i \in Cells : input_buf[i] = NUL

(* Login rejects at most MAX_ATTEMPTS lines, and locks with the last.      *)
ThreeStrikes == /\ wrong <= MAX_ATTEMPTS
                /\ wrong = MAX_ATTEMPTS <=> main = "locked"

(* Each reader gets its own keys: the handler that echoes is never active  *)
(* when the password is asked for, nor the shell's before login is done.   *)
ReaderIsAsking ==
  /\ char_handler = "login" => main = "name"
  /\ char_handler = "pass" => main = "pass"
  /\ char_handler = "shell" => main = "shell"

(* Whenever the handler is not running, a byte at the port has its request *)
(* pending and nothing keeps the processor from taking it, unless the byte *)
(* came before initKeyb: no interrupt is lost between the two reads of     *)
(* keybHandler or before irq_handler acknowledges.                         *)
KeyboardReady ==
  irq = "none" => /\ ~isr
                  /\ iflag \/ main = "initIDT"
                  /\ obf => irr \/ early

(* A byte at the port that came after initKeyb is read: its interrupt is   *)
(* neither lost nor left unacknowledged, although a byte may arrive at any *)
(* point of the handler.                                                   *)
KeysAreRead == obf ~> (~obf \/ early)

(* A byte whose interrupt is requested while the processor takes           *)
(* interrupts is read, so that the keyboard can go on: kmain reports       *)
(* "Keyboard [DONE]" after initKeyb, whatever was typed before.            *)
EveryKeyIsRead == (obf /\ irr /\ iflag) ~> ~obf

(* The line that login compares is the one that was in the buffer when     *)
(* Enter was pressed, whatever longer line was there before, unless a key  *)
(* changed it between Enter and the removal of the handler.                *)
ComparesEnteredLine ==
  [][main' # main /\ main \in {"name", "pass"} /\ ~overtyped => Equals(entered)]_vars
=============================================================================
