------------------------------- MODULE Clock -------------------------------
(***************************************************************************)
(* The two clocks of the kernel.  timer.c counts the pulses of interrupt   *)
(* 0; rtc.c reads the registers of the real-time clock, which changes them *)
(* whenever a second is over.  A command runs inside interrupt 1 with      *)
(* interrupts off, so the timer's pulses pile up while one runs.           *)
(*                                                                         *)
(* External are the timer, the interrupt controller, which latches one     *)
(* request per line and prefers line 0, and the real-time clock.  That one *)
(* announces an update with its UIP bit and then changes its registers one *)
(* by one, in any order.  The processor may be slow: any number of these   *)
(* steps fits between two reads.                                           *)
(***************************************************************************)
EXTENDS Integers, Sequences, FiniteSets

CONSTANTS Histories,   \* sequences of consecutive times of the clock
          Offsets,     \* time zones that users give to the command time
          Freq,        \* pulses per second, 100
          MaxPulses    \* bound: pulses of the timer

Registers == <<"seconds", "minutes", "hours", "day", "month", "year">>
Reg       == {Registers[k] : k \in 1 .. 6}
Byte      == 0 .. 255

ASSUME ClockAssumption ==
  Offsets \subseteq Nat /\ Freq \in Nat \ {0} /\ MaxPulses \in Nat

(* The clock counts in two digits, and hours up to 23.  A history is so    *)
(* short that no register returns to a value it has left: the seconds do   *)
(* that first, after a minute.                                             *)
ASSUME HistoriesAssumption ==
  \A h \in Histories :
    /\ h \in Seq([Reg -> 0 .. 99]) /\ h # <<>>
    /\ \A n \in 1 .. Len(h) : h[n]["hours"] < 24
    /\ \A i, n, j \in 1 .. Len(h), r \in Reg :
         i <= n /\ n <= j /\ h[i][r] = h[j][r] => h[n][r] = h[i][r]

NoArg  == -1                               \* time was typed without an argument
NoTime == [r \in Reg |-> -1]

Printed == Reg \ {"seconds"}              \* what cmd_time prints of a time
Blank   == [r \in Printed |-> -1]

VARIABLES ticks,
          installed,   \* irq_routines[0] is onIrq0
          iflag,       \* interrupts are enabled
          irr, isr,    \* interrupt controller: requested and served lines
          irq,         \* where the interrupt handler is; "none": not running
          offset,      \* the argument of the command
          k,           \* the next register that rtc_read_raw reads
          t, last,     \* the variables of rtc_read, gone when it is over
          shown,       \* what the command in progress has printed
          halted,      \* isr_handler has stopped the machine
          hist, now,   \* clock: its times and the current one
          phase,       \* clock: "quiet", "soon" or "update"
          todo,        \* clock: registers that still have their old value
          hours24,     \* clock: bit 1 of status B
          binary,      \* clock: bit 2 of status B
          pulses,      \* ghost: pulses since initTimer
          lost,        \* ghost: those that met a request still latched
          from         \* ghost: the time at which rtc_read was called

clock == <<hist, now, phase, todo, hours24, binary>>
read  == <<offset, k, t, last, shown, from>>
timer == <<ticks, installed, pulses, lost>>
pic   == <<iflag, irr, isr>>
vars  == <<timer, pic, irq, read, halted, clock>>

Init == /\ ticks = 0 /\ installed = FALSE
        /\ iflag = TRUE /\ irr = {} /\ isr = {} /\ irq = "none"
        /\ offset = NoArg /\ k = 1 /\ t = NoTime /\ last = NoTime /\ shown = Blank
        /\ halted = FALSE
        /\ hist \in Histories /\ now = 1 /\ phase = "quiet" /\ todo = {}
        /\ hours24 \in BOOLEAN /\ binary \in BOOLEAN
        /\ pulses = 0 /\ lost = 0 /\ from = 1

-----------------------------------------------------------------------------
(* A command is running: interrupts stay off until it is over. *)
Busy == irq \in {"command", "uip", "read", "compare", "print"}

(* The timer.  An interrupt takes far less than the time between pulses    *)
(* when nothing keeps the processor from taking it.                        *)
Pulse ==
  /\ pulses < MaxPulses /\ (0 \in irr => Busy)
  /\ irr' = irr \cup {0}
  /\ pulses' = pulses + 1
  /\ lost' = IF 0 \in irr THEN lost + 1 ELSE lost
  /\ UNCHANGED <<ticks, installed, iflag, isr, irq, read, halted, clock>>

(* The user has typed the command time. *)
Type(zone) ==
  /\ installed /\ ~halted /\ 1 \notin irr /\ ~Busy
  /\ irr' = irr \cup {1}
  /\ offset' = zone
  /\ UNCHANGED <<timer, iflag, isr, irq, k, t, last, shown, from, halted, clock>>

(* The real-time clock announces an update, a second is over, registers    *)
(* change, and UIP is cleared again.                                       *)
Announce == /\ phase = "quiet" /\ now < Len(hist)
            /\ phase' = "soon"
            /\ UNCHANGED <<timer, pic, irq, read, halted, hist, now, todo, hours24, binary>>

Second == /\ phase = "soon"
          /\ phase' = "update" /\ now' = now + 1
          /\ todo' = {r \in Reg : hist[now][r] # hist[now + 1][r]}
          /\ UNCHANGED <<timer, pic, irq, read, halted, hist, hours24, binary>>

Change(r) == /\ r \in todo
             /\ todo' = todo \ {r}
             /\ UNCHANGED <<timer, pic, irq, read, halted, hist, now, phase, hours24, binary>>

Settled == /\ phase = "update" /\ todo = {}
           /\ phase' = "quiet"
           /\ UNCHANGED <<timer, pic, irq, read, halted, hist, now, todo, hours24, binary>>

UIP == phase # "quiet"

(* A register holds its value in the format that status B selects. *)
Bcd(v)  == IF binary THEN v ELSE (v \div 10) * 16 + (v % 10)
Hour(h) == IF hours24 THEN Bcd(h)
           ELSE Bcd(IF h % 12 = 0 THEN 12 ELSE h % 12) + (IF h >= 12 THEN 128 ELSE 0)
Port(r) == LET v == hist[IF r \in todo THEN now - 1 ELSE now][r]
           IN  IF r = "hours" THEN Hour(v) ELSE Bcd(v)

-----------------------------------------------------------------------------
(* initTimer resets the count and installs the handler.  A request that is *)
(* latched then will be counted.                                           *)
initTimer ==
  /\ ~installed /\ irq = "none"
  /\ ticks' = 0 /\ installed' = TRUE
  /\ pulses' = Cardinality(irr \cap {0}) /\ lost' = 0
  /\ UNCHANGED <<pic, irq, read, halted, clock>>

(* The processor takes the interrupt and irq_handler calls the routine. *)
TakeIrq ==
  /\ irq = "none" /\ iflag /\ irr # {} /\ isr = {}
  /\ LET line == IF 0 \in irr THEN 0 ELSE 1
     IN  /\ irr' = irr \ {line} /\ isr' = {line}
         /\ irq' = IF line = 1 THEN "command" ELSE IF installed THEN "tick" ELSE "eoi"
  /\ iflag' = FALSE
  /\ UNCHANGED <<timer, read, halted, clock>>

onIrq0_shared == /\ irq = "tick"
                 /\ ticks' = IF 1 \in irr THEN ticks ELSE ticks + 1
                 /\ irq' = "eoi"
                 /\ UNCHANGED <<installed, pulses, lost, pic, read, halted, clock>>

onIrq0 == /\ irq = "tick"
          /\ ticks' = ticks + 1
          /\ irq' = "eoi"
          /\ UNCHANGED <<installed, pulses, lost, pic, read, halted, clock>>

GUS == ticks \div Freq

EndIrq_master == /\ irq = "eoi"
                 /\ irq' = "none" /\ iflag' = TRUE
                 /\ isr' = isr \ {0}
                 /\ shown' = Blank
                 /\ UNCHANGED <<timer, irr, offset, k, t, last, from, halted, clock>>

(* irq_handler acknowledges and iret enables interrupts. *)
EndIrq == /\ irq = "eoi"
          /\ irq' = "none" /\ iflag' = TRUE
          /\ isr' = {}
          /\ shown' = Blank
          /\ UNCHANGED <<timer, irr, offset, k, t, last, from, halted, clock>>

(* cmd_time calls rtc_read. *)
cmd_time == /\ irq = "command"
            /\ irq' = "uip" /\ last' = NoTime /\ from' = now
            /\ UNCHANGED <<timer, pic, offset, k, t, shown, halted, clock>>

rtc_read_raw_hasty == /\ irq = "uip"
                      /\ irq' = "read" /\ k' = 1
                      /\ UNCHANGED <<timer, pic, offset, t, last, shown, from, halted, clock>>

(* rtc_read_raw waits for UIP to be clear ... *)
rtc_read_raw == /\ irq = "uip" /\ ~UIP
                /\ irq' = "read" /\ k' = 1
                /\ UNCHANGED <<timer, pic, offset, t, last, shown, from, halted, clock>>

rtc_read_reg_running ==
  /\ irq = "read"
  /\ t' = [t EXCEPT ![Registers[k]] = Port(Registers[k])]
  /\ k' = k + 1
  /\ irq' = IF k < 6 THEN "read" ELSE "compare"
  /\ UNCHANGED <<timer, pic, offset, last, shown, from, halted, clock>>

(* ... and reads one register after the other. *)
rtc_read_reg == /\ irq = "read"
                /\ t' = [t EXCEPT ![Registers[k]] = Port(Registers[k])]
                /\ k' = IF k < 6 THEN k + 1 ELSE 1
                /\ irq' = IF k < 6 THEN "read" ELSE "compare"
                /\ UNCHANGED <<timer, pic, offset, last, shown, from, halted, clock>>

rtc_read_first == /\ irq = "compare"
                  /\ IF t = last THEN irq' = "print" /\ UNCHANGED last
                     ELSE irq' = "uip" /\ last' = IF last = NoTime THEN t ELSE last
                  /\ UNCHANGED <<timer, pic, offset, k, t, shown, from, halted, clock>>

(* rtc_read repeats that until two passes agree. *)
rtc_read == /\ irq = "compare"
            /\ IF t = last THEN irq' = "print" /\ UNCHANGED last
               ELSE irq' = "uip" /\ last' = t
            /\ UNCHANGED <<timer, pic, offset, k, t, shown, from, halted, clock>>

bcd_to_bin(v) == ((v \div 16) * 10 + (v % 16)) % 256

(* The end of rtc_read: the time in binary, on 24 hours. *)
Decoded ==
  LET value(v) == IF binary THEN v ELSE bcd_to_bin(v)
      pm  == t["hours"] >= 128
      h12 == value(t["hours"] % 128)
      h   == IF hours24 THEN value(t["hours"])
             ELSE IF pm /\ h12 < 12 THEN h12 + 12
             ELSE IF ~pm /\ h12 = 12 THEN 0
             ELSE h12
  IN  [r \in Reg |-> IF r = "hours" THEN h ELSE value(t[r])]

Show(zone) ==
  LET h == (Decoded["hours"] + zone) % 256
  IN  shown' = [r \in Printed |-> IF r # "hours" THEN Decoded[r]
                                  ELSE IF h >= 24 THEN h - 24 ELSE h]

(* cmd_time goes on with the offset.  Without an argument k_atoi reads     *)
(* address 0, which is not mapped: isr_handler stops the machine with      *)
(* interrupts off, unless the processor still remembers the page of 4 MB   *)
(* that boot.s had mapped there and finds some number or none.             *)
PrintTime(zone) ==
  /\ irq = "print" /\ offset \in {zone, NoArg}
  /\ Show(zone)
  /\ offset' = NoArg /\ t' = NoTime /\ last' = NoTime /\ from' = 1
  /\ irq' = "eoi"
  /\ UNCHANGED <<timer, pic, k, halted, clock>>

isr_handler ==
  /\ irq = "print" /\ offset = NoArg
  /\ irq' = "halt" /\ halted' = TRUE
  /\ UNCHANGED <<timer, pic, read, clock>>

Cpu == \/ initTimer \/ TakeIrq \/ onIrq0 \/ EndIrq
       \/ cmd_time \/ rtc_read_raw \/ rtc_read_reg \/ rtc_read
       \/ (\E zone \in Offsets : PrintTime(zone)) \/ isr_handler

Update == Second \/ (\E r \in Reg : Change(r)) \/ Settled

Next == \/ Pulse \/ Announce \/ Update \/ Cpu
        \/ \E zone \in Offsets \cup {NoArg} : Type(zone)

(* The processor goes on with what it executes, and the real-time clock    *)
(* finishes an update that it has announced.                               *)
Spec == Init /\ [][Next]_vars /\ WF_vars(Cpu) /\ WF_vars(Update)

-----------------------------------------------------------------------------
(* The interrupt path of idt.c serves one line at a time, and rtc_read     *)
(* keeps bytes.                                                            *)
TypeOK ==
  /\ irq \in {"none", "tick", "eoi", "command", "uip", "read", "compare", "print", "halt"}
  /\ irr \subseteq {0, 1} /\ Cardinality(isr) <= 1
  /\ iflag = (irq = "none")
  /\ k \in 1 .. 6
  /\ \A r \in Reg : t[r] \in Byte \cup {-1}
  /\ \A r \in Printed : shown[r] \in Byte \cup {-1}
  /\ now \in 1 .. Len(hist) /\ todo \subseteq Reg

(* A user reads off mfetch how many seconds of pulses have passed since    *)
(* initTimer, except for those that came while a command kept an earlier   *)
(* one waiting: no pulse is counted twice, and none is lost otherwise.     *)
UptimeIsReal ==
  LET waiting == Cardinality(irr \cap {0}) + (IF irq = "tick" THEN 1 ELSE 0)
  IN  installed => /\ ticks = pulses - lost - waiting
                   /\ GUS * Freq <= pulses

(* What cmd_time prints is, shifted by an offset of at most a day, a time  *)
(* that the clock had between the call and the print, although registers   *)
(* change between the reads, in either format and on 12 or 24 hours.  The  *)
(* date is the one at offset 0.                                            *)
TimeShownIsTrue ==
  [][\A zone \in Offsets \cap 0 .. 24 :
       PrintTime(zone) => \E n \in from .. now :
         shown' = [r \in Printed |-> IF r = "hours" THEN (hist[n][r] + zone) % 24
                                     ELSE hist[n][r]]]_vars

(* A pulse that waits is counted, or the machine has stopped: rtc_read,    *)
(* which keeps it waiting, does not run forever.                           *)
PulsesAreServed == 0 \in irr ~> (0 \notin irr \/ halted)
=============================================================================
