------------------------------- MODULE Shell -------------------------------
(***************************************************************************)
(* The shell's line editor and command history, on the screen of Vga.  The *)
(* keyboard's interrupt handler calls shell_handle_char for every key, and *)
(* a command runs inside that call.  What a command prints is an input;    *)
(* what it does to files is the subject of Commands.                       *)
(*                                                                         *)
(* kmain gives the keyboard to the shell before it prints the first        *)
(* prompt, so keys may be handled in the middle of that, even between the  *)
(* moment when print has computed where a character goes and the moment    *)
(* when it stores the character and moves the cursor.  The keyboard sends  *)
(* few keys in that time: EarlyKeys bounds them.                           *)
(***************************************************************************)
EXTENDS Vga, TLC

CONSTANTS SHELL_BUFFER_SIZE,
          HISTORY_SIZE,
          Typed,        \* the characters that keys type, "TAB" or not
          Outputs,      \* what commands print
          FirstName,    \* the prompt's name when the kernel starts
          PromptNames,  \* that one and the names that users give to setprompt
          PromptRest,   \* what print_prompt prints after the name
          EarlyKeys     \* bound: keys before the first prompt is finished

ASSUME ShellAssumption ==
  /\ SHELL_BUFFER_SIZE \in Nat \ {0} /\ HISTORY_SIZE \in Nat \ {0}
  /\ FirstName \in PromptNames /\ EarlyKeys \in Nat

(* A tab that a key types takes up to four cells, any other key one. *)
Controls == {"LF", "CR", "BS", "TAB"}
KeyWidth == IF "TAB" \in Typed THEN 4 ELSE 1

(* A prompt is text.  What kmain and the keys print on the first line does *)
(* not fill a row: the first prompt, the early keys and, after an Enter,   *)
(* the rest of that prompt once more.  Later prompts may be longer.        *)
ASSUME PromptAssumption ==
  /\ \A name \in PromptNames :
       LET text == name \o PromptRest
       IN  /\ text \in Seq(STRING)
           /\ \A i \in 1 .. Len(text) : text[i] \notin Controls
  /\ 2 * Len(FirstName \o PromptRest) + KeyWidth * EarlyKeys <= VGAWidth + 1

(* The other keys have actions of their own.  A command ends its lines.    *)
ASSUME TextAssumption ==
  /\ Typed \cap Controls \subseteq {"TAB"}
  /\ \A out \in Outputs :
       /\ Len(out) \in Nat
       /\ out \in {<<>>, <<"cls">>, <<"history">>} \/ out[Len(out)] = "LF"

VARIABLES scr,           \* the screen
          shell_buf,     \* the first shell_len characters of the buffer
          history,       \* history[i], the most recent first
          history_count,
          prompt_name,
          boot,          \* what kmain has still to print of the first prompt
          at,            \* the cell of its next character, once computed
          early,         \* keys that may still come before it is finished
          commands,      \* ghost: the non-empty lines entered, latest first
          mixed          \* ghost: keys and the first prompt are on one line

line == <<shell_buf, history, history_count, prompt_name, commands>>
vars == <<scr, line, boot, at, early, mixed>>

Prompt(name) == name \o PromptRest
Nowhere == -1

Init == /\ scr = Reset
        /\ shell_buf = <<>>
        /\ history = [i \in 0 .. HISTORY_SIZE - 1 |-> <<>>] /\ history_count = 0
        /\ prompt_name = FirstName /\ boot = Prompt(FirstName)
        /\ at = Nowhere /\ early = EarlyKeys
        /\ commands = <<>> /\ mixed = FALSE

(* kmain's print, character by character: the cell is computed ... *)
BootPlace == /\ boot # <<>> /\ at = Nowhere
             /\ scr' = Wrap(scr)
             /\ at' = CursorAt(scr')
             /\ UNCHANGED <<line, boot, early, mixed>>

(* ... and stored to, and then the cursor advances from where it is then.  *)
BootStore == /\ at # Nowhere
             /\ scr' = [scr EXCEPT !.vga[at] = Head(boot), !.column = @ + 1]
             /\ boot' = Tail(boot) /\ at' = Nowhere
             /\ UNCHANGED <<line, early, mixed>>

(* A key is handled. *)
Key == /\ boot # <<>> => early > 0
       /\ early' = IF boot # <<>> THEN early - 1 ELSE early
       /\ UNCHANGED <<boot, at>>

-----------------------------------------------------------------------------
Moved_stuck(h, n, cmd) ==
  [i \in DOMAIN h |-> IF i = 0 THEN cmd
                      ELSE IF i <= n /\ n < HISTORY_SIZE THEN h[i - 1] ELSE h[i]]

(* The entries move up by one; with a full history the last one moves to   *)
(* the row behind the array, where the build has a buffer of fat.c that    *)
(* holds nothing between commands.                                         *)
Moved(h, n, cmd) ==
  [i \in DOMAIN h \cup (0 .. n) |->
     IF i = 0 THEN cmd ELSE IF i <= n THEN h[i - 1] ELSE h[i]]

history_save(cmd) ==
  /\ history' = Moved(history, history_count, cmd)
  /\ history_count' = IF history_count < HISTORY_SIZE THEN history_count + 1
                      ELSE history_count

(* The command history prints what history_save has just saved. *)
cmd_history(s) ==
  LET f[n \in 0 .. history_count'] ==
        IF n = 0 THEN s
        ELSE print(f[n - 1], <<ToString(n - 1), " ">> \o history'[n - 1] \o <<"CR", "LF">>)
  IN  f[history_count']

shell_execute(s, out) == CASE out = <<"cls">> -> Reset
                           [] out = <<"history">> -> cmd_history(s)
                           [] OTHER -> print(s, out)

print_prompt(s) == print(s, Prompt(prompt_name'))

(* shell_handle_char for Enter.  An empty line is neither kept nor run.    *)
Enter(out) ==
  LET s == print(scr, <<"CR", "LF">>)
  IN  /\ Key
      /\ IF shell_buf = <<>>
         THEN /\ scr' = print_prompt(s)
              /\ UNCHANGED <<history, history_count, commands>>
         ELSE /\ history_save(shell_buf)
              /\ scr' = print_prompt(shell_execute(s, out))
              /\ commands' = SubSeq(<<shell_buf>> \o commands, 1,
                               IF Len(commands) < HISTORY_SIZE THEN Len(commands) + 1
                               ELSE HISTORY_SIZE)
      /\ shell_buf' = <<>>
      /\ mixed' = (boot # <<>>)

(* The same for the command setprompt, with a name that fits; nobody types *)
(* that fast that kmain has not finished.                                  *)
SetPrompt(name) ==
  /\ shell_buf # <<>> /\ boot = <<>>
  /\ prompt_name' = name
  /\ Enter(<<>>)

(* ... for backspace ... *)
Backspace ==
  /\ Key /\ shell_buf # <<>>
  /\ shell_buf' = SubSeq(shell_buf, 1, Len(shell_buf) - 1)
  /\ scr' = print(scr, <<"BS">>)
  /\ mixed' = (mixed \/ boot # <<>>)
  /\ UNCHANGED <<history, history_count, prompt_name, commands>>

(* ... and for any other character, which is dropped when the line is full *)
Character(c) ==
  /\ Key /\ Len(shell_buf) < SHELL_BUFFER_SIZE - 1
  /\ shell_buf' = Append(shell_buf, c)
  /\ scr' = print(scr, <<c>>)
  /\ mixed' = (mixed \/ boot # <<>>)
  /\ UNCHANGED <<history, history_count, prompt_name, commands>>

Next == \/ BootPlace \/ BootStore
        \/ \E out \in Outputs : UNCHANGED prompt_name /\ Enter(out)
        \/ \E name \in PromptNames : SetPrompt(name)
        \/ Backspace
        \/ \E c \in Typed : Character(c)

Spec == Init /\ [][Next]_vars

-----------------------------------------------------------------------------
(* print stores into the screen only and leaves the cursor on it, also     *)
(* when keys arrive in the middle of the first prompt; the line fits into  *)
(* shell_buf.                                                              *)
TypeOK == /\ OnScreen(scr) /\ at \in ScreenCells \cup {Nowhere}
          /\ shell_buf \in Seq(Typed) /\ Len(shell_buf) < SHELL_BUFFER_SIZE
          /\ history_count \in 0 .. HISTORY_SIZE

(* The screen shows the line: before the cursor stand the prompt and the   *)
(* characters of shell_buf, as far as they have not scrolled away, across  *)
(* line ends, scrolling and backspaces.  Keys that come before the first   *)
(* prompt is finished spoil it, and the next Enter repairs it.             *)
ScreenShowsLine ==
  LET text == SubSeq(Prompt(prompt_name), 1, Len(Prompt(prompt_name)) - Len(boot))
                \o shell_buf
  IN  ~mixed => \A i \in 1 .. Len(text) :
        LET cell == CursorAt(scr) - i
        IN  cell >= 0 => scr.vga[cell] = text[Len(text) - i + 1]

(* history lists the last commands, each once, the most recent first. *)
HistoryIsRecent ==
  /\ history_count = Len(commands)
  /\ \A i \in 1 .. Len(commands) : history[i - 1] = commands[i]
=============================================================================
