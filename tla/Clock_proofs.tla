---------------------------- MODULE Clock_proofs ----------------------------
(***************************************************************************)
(* Proofs about Clock for every history of the real-time clock, every      *)
(* frequency and any number of pulses.                                     *)
(*                                                                         *)
(* The timer: a pulse is counted, lost, latched, or in the hands of the    *)
(* handler, and only one of these.  The real-time clock: between the two   *)
(* passes of rtc_read lies a moment n at which UIP was clear, so that all  *)
(* registers held the time hist[n].  The first pass read each register     *)
(* before that moment and the second one after it; if both read the same   *)
(* and no register returns to a value it has left, it is the time hist[n]. *)
(***************************************************************************)
EXTENDS Clock, FiniteSetTheorems, TLAPS

Waiting == Cardinality(irr \cap {0}) + (IF irq = "tick" THEN 1 ELSE 0)

(* Each pulse since initTimer is in one place. *)
Counted ==
  /\ ticks \in Nat /\ pulses \in Nat /\ lost \in Nat
  /\ irq = "tick" => installed
  /\ installed => ticks = pulses - lost - Waiting

Lines ==
  /\ irq \in {"none", "tick", "eoi", "command", "uip", "read", "compare", "print", "halt"}
  /\ irr \subseteq {0, 1} /\ isr \in {{}, {0}, {1}}
  /\ iflag \in BOOLEAN /\ (iflag <=> irq = "none")

TInv == Lines /\ Counted

(* The value of a register that stands for v. *)
Stored(r, v) == IF r = "hours" THEN Hour(v) ELSE Bcd(v)

(* The first pass read every register up to the time n. *)
FirstPass(n) == \/ last = NoTime
                \/ \A r \in Reg : \E i \in 1 .. n : last[r] = Stored(r, hist[i][r])

(* The pass in progress read the registers of R from the time n on. *)
SecondPass(n, R) == \A r \in R : \E i \in n .. now : t[r] = Stored(r, hist[i][r])

Passes ==
  /\ irq = "uip" => FirstPass(now)
  /\ irq = "read" => \E n \in from .. now :
       /\ todo # {} => n < now
       /\ FirstPass(n) /\ SecondPass(n, {Registers[j] : j \in 1 .. k - 1})
  /\ irq = "compare" => \E n \in from .. now : FirstPass(n) /\ SecondPass(n, Reg)
  /\ irq = "print" => \E n \in from .. now : \A r \in Reg : t[r] = Stored(r, hist[n][r])

Reads ==
  /\ irq \in {"none", "tick", "eoi", "command", "uip", "read", "compare", "print", "halt"}
  /\ offset \in Offsets \cup {NoArg} /\ k \in 1 .. 6
  /\ t \in [Reg -> Byte \cup {-1}] /\ last \in [Reg -> Byte \cup {-1}]
  /\ shown \in [Printed -> Byte \cup {-1}]

Running ==
  /\ hist \in Histories /\ now \in 1 .. Len(hist) /\ from \in 1 .. now
  /\ todo \subseteq Reg
  /\ phase = "quiet" => todo = {}
  /\ phase = "soon" => todo = {} /\ now < Len(hist)
  /\ todo # {} => now > 1
  /\ hours24 \in BOOLEAN /\ binary \in BOOLEAN

RInv == Reads /\ Running /\ Passes

-----------------------------------------------------------------------------
(* The timer *)

(* Whether a line is latched, as a number. *)
LEMMA Latched ==
  ASSUME NEW S
  PROVE  Cardinality(S \cap {0}) = IF 0 \in S THEN 1 ELSE 0
<1>1. CASE 0 \in S
  <2>1. S \cap {0} = {0}
    BY <1>1
  <2> QED BY <1>1, <2>1, FS_Singleton
<1>2. CASE 0 \notin S
  <2>1. S \cap {0} = {}
    BY <1>2
  <2> QED BY <1>2, <2>1, FS_EmptySet
<1> QED BY <1>1, <1>2

(* Whole periods are not longer than the time they are part of. *)
LEMMA WholePeriods ==
  ASSUME NEW n \in Nat, NEW d \in Nat \ {0}
  PROVE  (n \div d) * d <= n
BY SMT

(* Nothing has been counted at the start. *)
LEMMA TInvInit == Init => TInv
BY DEF Init, TInv, Lines, Counted

(* TInv is inductive. *)
LEMMA TInvStep == TInv /\ [Next]_vars => TInv'
<1> SUFFICES ASSUME TInv, [Next]_vars PROVE TInv'
  OBVIOUS
<1> DEFINE one == IF 0 \in irr THEN 1 ELSE 0
<1>1. Waiting = one + IF irq = "tick" THEN 1 ELSE 0
  BY Latched DEF Waiting
<1>2. Waiting' = (IF 0 \in irr' THEN 1 ELSE 0) + IF irq' = "tick" THEN 1 ELSE 0
  BY Latched DEF Waiting
<1> USE DEF TInv, Lines, Counted
<1>3. CASE Pulse
  BY <1>1, <1>2, <1>3 DEF Pulse, Busy
<1>4. ASSUME NEW zone \in Offsets \cup {NoArg}, Type(zone) PROVE TInv'
  BY <1>1, <1>2, <1>4 DEF Type, timer
<1>5. CASE Announce
  BY <1>1, <1>2, <1>5 DEF Announce, timer, pic
<1>6. CASE Update
  <2>1. UNCHANGED <<timer, pic, irq>>
    BY <1>6 DEF Update, Second, Change, Settled
  <2> QED BY <1>1, <1>2, <2>1 DEF timer, pic
<1>7. CASE initTimer
  BY <1>1, <1>2, <1>7, Latched DEF initTimer, pic
<1>8. CASE TakeIrq
  <2>1. CASE 0 \in irr
    <3>1. /\ irr' = irr \ {0} /\ isr' = {0} /\ irq = "none"
          /\ irq' = IF installed THEN "tick" ELSE "eoi"
      BY <1>8, <2>1 DEF TakeIrq
    <3>2. iflag' = FALSE /\ UNCHANGED timer
      BY <1>8 DEF TakeIrq
    <3>3. irr' \subseteq {0, 1}
      BY <3>1
    <3>4. 0 \notin irr'
      BY <3>1
    <3>5. Lines'
      BY <3>1, <3>2, <3>3
    <3>6. CASE installed
      <4>1. Waiting = 1 /\ Waiting' = 1
        BY <1>1, <1>2, <2>1, <3>1, <3>4, <3>6
      <4> QED BY <3>1, <3>2, <3>5, <3>6, <4>1 DEF timer
    <3>7. CASE ~installed
      BY <3>1, <3>2, <3>5, <3>7 DEF timer
    <3> QED BY <3>6, <3>7
  <2>2. CASE 0 \notin irr
    <3>1. irr = {1}
      <4>1. irr \subseteq {0, 1} /\ irr # {}
        BY <1>8 DEF TakeIrq
      <4> HIDE DEF TInv, Lines, Counted
      <4>2. PICK x \in irr : TRUE
        BY <4>1
      <4>3. \A y \in irr : y = 1
        BY <2>2, <4>1
      <4> QED BY <4>2, <4>3
    <3>3. irr' = {} /\ isr' = {1} /\ irq' = "command" /\ irq = "none"
      BY <1>8, <2>2, <3>1 DEF TakeIrq
    <3>2. iflag' = FALSE /\ UNCHANGED timer
      BY <1>8 DEF TakeIrq
    <3> QED BY <1>1, <1>2, <3>1, <3>2, <3>3 DEF timer
  <2> QED BY <2>1, <2>2
<1>9. CASE onIrq0
  BY <1>1, <1>2, <1>9 DEF onIrq0, pic
<1>10. CASE EndIrq
  BY <1>1, <1>2, <1>10 DEF EndIrq, timer
<1>11. CASE cmd_time \/ rtc_read_raw \/ rtc_read_reg \/ rtc_read \/ isr_handler
  <2>1. /\ UNCHANGED <<timer, pic>> /\ irq \notin {"none", "tick"}
        /\ irq' \in {"uip", "read", "compare", "print", "halt"}
    BY <1>11 DEF cmd_time, rtc_read_raw, rtc_read_reg, rtc_read, isr_handler
  <2> QED BY <1>1, <1>2, <2>1 DEF timer, pic
<1>12. ASSUME NEW zone \in Offsets, PrintTime(zone) PROVE TInv'
  <2>1. UNCHANGED <<timer, pic>> /\ irq = "print" /\ irq' = "eoi"
    BY <1>12 DEF PrintTime
  <2> QED BY <1>1, <1>2, <2>1 DEF timer, pic
<1>13. CASE UNCHANGED vars
  BY <1>1, <1>2, <1>13 DEF vars, timer, pic
<1> QED BY <1>3, <1>4, <1>5, <1>6, <1>7, <1>8, <1>9, <1>10, <1>11, <1>12, <1>13
           DEF Next, Cpu

(* TInv implies that uptime is real. *)
LEMMA TInvUptime == TInv => UptimeIsReal
<1> SUFFICES ASSUME TInv, installed PROVE /\ ticks = pulses - lost - Waiting
                                         /\ GUS * Freq <= pulses
  BY DEF UptimeIsReal, Waiting
<1>1. ticks = pulses - lost - Waiting
  BY DEF TInv, Counted
<1>2. Waiting \in Nat
  BY Latched DEF Waiting
<1>3. ticks <= pulses
  BY <1>1, <1>2 DEF TInv, Counted
<1>4. GUS * Freq <= ticks
  BY WholePeriods, ClockAssumption DEF GUS, TInv, Counted
<1>5. GUS \in Int /\ Freq \in Int
  BY ClockAssumption DEF GUS, TInv, Counted
<1>6. GUS * Freq \in Int
  BY <1>5
<1> QED BY <1>1, <1>3, <1>4, <1>6 DEF TInv, Counted

(* The uptime of mfetch: timer.c counts every pulse once, or the pulse met *)
(* a request still latched, or it is yet to be counted, for every pulse    *)
(* rate.                                                                   *)
THEOREM UptimeTrue == Spec => []UptimeIsReal
<1>1. TInv /\ [Next]_vars => TInv'
  BY TInvStep
<1> QED BY <1>1, TInvInit, TInvUptime, PTL DEF Spec

-----------------------------------------------------------------------------
(* The format of the registers *)

(* Two binary-coded digits fit a byte, and bcd_to_bin undoes them. *)
LEMMA BcdRoundTrip ==
  ASSUME NEW v \in 0 .. 99
  PROVE  LET b == (v \div 10) * 16 + (v % 10)
         IN  /\ b \in 0 .. 153 /\ bcd_to_bin(b) = v
             /\ v < 24 => b < 36
BY SMT DEF bcd_to_bin

(* A register holds a byte, whatever the format. *)
LEMMA StoredType ==
  ASSUME NEW r \in Reg, NEW v \in 0 .. 99, r = "hours" => v < 24
  PROVE  Stored(r, v) \in Byte
<1>1. Bcd(v) \in 0 .. 153
  BY BcdRoundTrip DEF Bcd
<1>2. CASE r # "hours"
  BY <1>1, <1>2 DEF Stored, Byte
<1>3. CASE r = "hours"
  <2> DEFINE h12 == IF v % 12 = 0 THEN 12 ELSE v % 12
  <2>1. h12 \in 0 .. 12
    BY SMT
  <2>2. Bcd(h12) \in 0 .. 35
    BY <2>1, BcdRoundTrip DEF Bcd
  <2>3. Hour(v) \in Byte
    BY <1>1, <2>2 DEF Hour, Byte
  <2> QED BY <1>3, <2>3 DEF Stored
<1> QED BY <1>2, <1>3

(* The end of rtc_read gets back the time that the registers stood for. *)
LEMMA DecodedIsStored ==
  ASSUME NEW x, x \in [Reg -> 0 .. 99], x["hours"] < 24,
         \A r \in Reg : t[r] = Stored(r, x[r])
  PROVE  \A r \in Reg : Decoded[r] = x[r]
<1> SUFFICES ASSUME NEW r \in Reg PROVE Decoded[r] = x[r]
  OBVIOUS
<1> DEFINE value(v) == IF binary THEN v ELSE bcd_to_bin(v)
<1>1. \A v \in 0 .. 99 : value(Bcd(v)) = v
  BY BcdRoundTrip DEF Bcd
<1>2. x[r] \in 0 .. 99
  OBVIOUS
<1>3. CASE r # "hours"
  BY <1>1, <1>2, <1>3 DEF Decoded, Stored
<1>4. CASE r = "hours"
  <2> DEFINE h  == x["hours"]
             h12 == IF h % 12 = 0 THEN 12 ELSE h % 12
             s   == t["hours"]
  <2>1. s = Hour(h) /\ h \in 0 .. 23
    BY <1>2, <1>4 DEF Stored
  <2>2. CASE hours24
    BY <1>1, <1>2, <1>4, <2>1, <2>2 DEF Decoded, Hour
  <2>3. CASE ~hours24
    <3>1. h12 \in 1 .. 12 /\ Bcd(h12) \in 0 .. 35
      <4>1. h12 \in 1 .. 12
        BY <2>1, SMT
      <4> QED BY <4>1, BcdRoundTrip DEF Bcd
    <3>2. s = Bcd(h12) + IF h >= 12 THEN 128 ELSE 0
      BY <2>1, <2>3 DEF Hour
    <3>3. s % 128 = Bcd(h12) /\ (s >= 128 <=> h >= 12)
      BY <2>1, <3>1, <3>2, SMT
    <3>4. value(s % 128) = h12
      BY <1>1, <3>1, <3>3
    <3>5. Decoded["hours"] = IF s >= 128 /\ h12 < 12 THEN h12 + 12
                             ELSE IF ~(s >= 128) /\ h12 = 12 THEN 0 ELSE h12
      BY <1>4, <2>3, <3>4 DEF Decoded
    <3>6. h = IF h >= 12 /\ h12 < 12 THEN h12 + 12
              ELSE IF ~(h >= 12) /\ h12 = 12 THEN 0 ELSE h12
      BY <2>1, SMT
    <3> QED BY <1>4, <3>3, <3>5, <3>6
  <2> QED BY <2>2, <2>3
<1> QED BY <1>3, <1>4

(* Different values of a register are stored differently. *)
LEMMA StoredApart ==
  ASSUME NEW r \in Reg, NEW v \in 0 .. 99, NEW w \in 0 .. 99,
         r = "hours" => v < 24 /\ w < 24,
         Stored(r, v) = Stored(r, w)
  PROVE  v = w
<1>1. \A u, x \in 0 .. 99 : Bcd(u) = Bcd(x) => u = x
  BY SMT DEF Bcd
<1>2. CASE r # "hours"
  BY <1>1, <1>2 DEF Stored
<1>3. CASE r = "hours"
  <2> DEFINE h12(x) == IF x % 12 = 0 THEN 12 ELSE x % 12
  <2>1. \A x \in 0 .. 23 : h12(x) \in 1 .. 12 /\ Bcd(h12(x)) \in 0 .. 35
    <3>1. \A x \in 0 .. 23 : h12(x) \in 1 .. 12
      BY SMT
    <3> QED BY <3>1, BcdRoundTrip DEF Bcd
  <2>2. Hour(v) = Hour(w) /\ v \in 0 .. 23 /\ w \in 0 .. 23
    BY <1>3 DEF Stored
  <2>3. CASE hours24
    BY <1>1, <2>2, <2>3 DEF Hour
  <2>4. CASE ~hours24
    <3>1. (v >= 12 <=> w >= 12) /\ Bcd(h12(v)) = Bcd(h12(w))
      BY <2>1, <2>2, <2>4 DEF Hour
    <3>2. h12(v) = h12(w)
      BY <1>1, <2>1, <2>2, <3>1
    <3> QED BY <2>2, <3>1, <3>2, SMT
  <2> QED BY <2>3, <2>4
<1> QED BY <1>2, <1>3

(* The times of the history in progress. *)
LEMMA TimesOfHistory ==
  ASSUME Running
  PROVE  /\ Len(hist) \in Nat /\ now \in Nat /\ from \in Nat
         /\ \A i \in 1 .. Len(hist) : hist[i] \in [Reg -> 0 .. 99] /\ hist[i]["hours"] < 24
         /\ \A i, n, j \in 1 .. Len(hist), r \in Reg :
              i <= n /\ n <= j /\ hist[i][r] = hist[j][r] => hist[n][r] = hist[i][r]
<1>1. hist \in Seq([Reg -> 0 .. 99]) /\ DOMAIN hist = 1 .. Len(hist)
  BY HistoriesAssumption DEF Running
<1>2. Len(hist) \in Nat /\ now \in Nat /\ from \in Nat
  BY <1>1 DEF Running
<1>3. \A i \in 1 .. Len(hist) : hist[i] \in [Reg -> 0 .. 99]
  BY <1>1, <1>2
<1>4. hist \in Histories
  BY DEF Running
<1>5. /\ \A n \in 1 .. Len(hist) : hist[n]["hours"] < 24
      /\ \A i, n, j \in 1 .. Len(hist), r \in Reg :
           i <= n /\ n <= j /\ hist[i][r] = hist[j][r] => hist[n][r] = hist[i][r]
  BY <1>4, HistoriesAssumption, Zenon
<1> QED BY <1>2, <1>3, <1>5, Zenon

(* What the real-time clock answers. *)
LEMMA PortType ==
  ASSUME Running, NEW r \in Reg
  PROVE  Port(r) \in Byte
<1> DEFINE n == IF r \in todo THEN now - 1 ELSE now
<1>1. n \in 1 .. Len(hist)
  BY TimesOfHistory DEF Running
<1>2. hist[n][r] \in 0 .. 99 /\ (r = "hours" => hist[n][r] < 24)
  BY <1>1, TimesOfHistory
<1>3. Port(r) = Stored(r, hist[n][r])
  BY DEF Port, Stored
<1> QED BY <1>2, <1>3, StoredType

-----------------------------------------------------------------------------
(* The two passes *)

(* A step of the real-time clock, or of the timer, between two reads. *)
LEMMA PassesKept ==
  ASSUME RInv,
         UNCHANGED <<irq, k, t, last, from, hist, hours24, binary>>,
         now' \in {now, now + 1},
         todo' # {} => now' = now + 1 \/ todo # {}
  PROVE  Passes'
<1>1. now \in Nat /\ from \in Nat
  BY TimesOfHistory DEF RInv
<1>2. ASSUME NEW n \in 1 .. now, FirstPass(n) PROVE FirstPass(n)'
  BY <1>2 DEF FirstPass, Stored, Hour, Bcd, NoTime
<1>3. ASSUME NEW n \in 1 .. now, NEW R, SecondPass(n, R) PROVE SecondPass(n, R)'
  BY <1>1, <1>3 DEF SecondPass, Stored, Hour, Bcd
<1>4. CASE irq = "uip"
  <2>1. FirstPass(now)
    BY <1>4 DEF RInv, Passes
  <2>2. FirstPass(now)'
    BY <1>1, <2>1 DEF FirstPass, Stored, Hour, Bcd, NoTime
  <2> QED BY <1>4, <2>2 DEF Passes
<1>5. CASE irq = "read"
  <2> DEFINE R == {Registers[j] : j \in 1 .. k - 1}
  <2>1. PICK n \in from .. now :
          (todo # {} => n < now) /\ FirstPass(n) /\ SecondPass(n, R)
    BY <1>5 DEF RInv, Passes
  <2>2. n \in 1 .. now
    BY <1>1, <2>1 DEF RInv, Running
  <2>3. FirstPass(n)' /\ SecondPass(n, R)'
    BY <1>2, <1>3, <2>1, <2>2
  <2>4. n \in from' .. now' /\ (todo' # {} => n < now')
    BY <1>1, <2>1
  <2> QED BY <1>5, <2>3, <2>4 DEF Passes
<1>6. CASE irq = "compare"
  <2>1. PICK n \in from .. now : FirstPass(n) /\ SecondPass(n, Reg)
    BY <1>6 DEF RInv, Passes
  <2>2. n \in 1 .. now
    BY <1>1, <2>1 DEF RInv, Running
  <2>3. FirstPass(n)' /\ SecondPass(n, Reg)'
    BY <1>2, <1>3, <2>1, <2>2
  <2>4. n \in from' .. now'
    BY <1>1, <2>1
  <2> QED BY <1>6, <2>3, <2>4 DEF Passes
<1>7. CASE irq = "print"
  <2>1. PICK n \in from .. now : \A r \in Reg : t[r] = Stored(r, hist[n][r])
    BY <1>7 DEF RInv, Passes
  <2>2. \A r \in Reg : t'[r] = Stored(r, hist[n][r])'
    BY <2>1 DEF Stored, Hour, Bcd
  <2>3. n \in from' .. now'
    BY <1>1, <2>1
  <2> QED BY <1>7, <2>2, <2>3 DEF Passes
<1>8. CASE irq \notin {"uip", "read", "compare", "print"}
  BY <1>8 DEF Passes
<1> QED BY <1>4, <1>5, <1>6, <1>7, <1>8

(* rtc_read_reg reads one more register of the pass. *)
LEMMA RegisterRead ==
  ASSUME RInv, rtc_read_reg
  PROVE  Passes'
<1>1. now \in Nat /\ from \in Nat /\ k \in 1 .. 6
  BY TimesOfHistory DEF RInv, Reads
<1>r. PICK R : R = {Registers[j] : j \in 1 .. k - 1}
  OBVIOUS
<1>s. PICK S : S = R \cup {Registers[k]}
  OBVIOUS
<1>2. PICK n \in from .. now :
        (todo # {} => n < now) /\ FirstPass(n) /\ SecondPass(n, R)
  BY <1>r DEF rtc_read_reg, RInv, Passes
<1>3. /\ Registers[k] \in Reg /\ t \in [Reg -> Byte \cup {-1}]
      /\ t' = [t EXCEPT ![Registers[k]] = Port(Registers[k])]
      /\ UNCHANGED <<last, from, hist, now, todo, hours24, binary>>
  BY <1>1 DEF rtc_read_reg, Reg, RInv, Reads, clock
<1>4. FirstPass(n)'
  BY <1>2, <1>3 DEF FirstPass, Stored, Hour, Bcd, NoTime
<1>5. \E i \in n .. now : Port(Registers[k]) = Stored(Registers[k], hist[i][Registers[k]])
  <2>1. now - 1 \in n .. now \/ todo = {}
    BY <1>1, <1>2
  <2> QED BY <1>1, <1>2, <2>1 DEF Port, Stored
<1>6. \A r \in S : \E i \in n .. now : t'[r] = Stored(r, hist[i][r])
  <2> SUFFICES ASSUME NEW r \in S
               PROVE  \E i \in n .. now : t'[r] = Stored(r, hist[i][r])
    OBVIOUS
  <2>1. CASE r = Registers[k]
    BY <1>3, <1>5, <2>1
  <2>2. CASE r # Registers[k]
    <3>1. r \in R /\ r \in Reg
      BY <1>1, <1>r, <1>s, <2>2 DEF Reg
    <3>2. t'[r] = t[r]
      BY <1>3, <2>2, <3>1
    <3> QED BY <1>2, <3>1, <3>2 DEF SecondPass
  <2> QED BY <2>1, <2>2
<1>7. SecondPass(n, S)'
  BY <1>3, <1>6 DEF SecondPass, Stored, Hour, Bcd
<1>8. CASE k < 6
  <2>1. {Registers[j] : j \in 1 .. k' - 1} = S
    BY <1>1, <1>r, <1>s, <1>8 DEF rtc_read_reg
  <2>2. irq' = "read" /\ n \in from' .. now' /\ (todo' # {} => n < now')
    BY <1>2, <1>3, <1>8 DEF rtc_read_reg
  <2> QED BY <1>4, <1>7, <2>1, <2>2 DEF Passes
<1>9. CASE k = 6
  <2>1. Reg = S
    BY <1>r, <1>s, <1>9 DEF Reg
  <2>2. irq' = "compare" /\ n \in from' .. now'
    BY <1>2, <1>3, <1>9 DEF rtc_read_reg
  <2> QED BY <1>4, <1>7, <2>1, <2>2 DEF Passes
<1> QED BY <1>1, <1>8, <1>9

(* rtc_read compares the passes.  If they agree, each register had at the  *)
(* time n the value that it had before and after n.                        *)
LEMMA PassesCompared ==
  ASSUME RInv, rtc_read
  PROVE  Passes'
<1>1. now \in Nat /\ from \in 1 .. now /\ Len(hist) \in Nat /\ now <= Len(hist)
  BY TimesOfHistory DEF RInv, Running
<1>2. PICK n \in from .. now : FirstPass(n) /\ SecondPass(n, Reg)
  BY DEF rtc_read, RInv, Passes
<1>3. UNCHANGED <<t, from, hist, now, hours24, binary>>
  BY DEF rtc_read, clock
<1>4. CASE t = last
  <2>1. last # NoTime
    <3>1. PICK i \in n .. now : t["seconds"] = Stored("seconds", hist[i]["seconds"])
      BY <1>2 DEF SecondPass, Reg, Registers
    <3>2. "seconds" \in Reg
      BY DEF Reg, Registers
    <3>3. i \in 1 .. Len(hist) /\ Running
      BY <1>1 DEF RInv
    <3>4. hist[i]["seconds"] \in 0 .. 99
      BY <3>2, <3>3, TimesOfHistory
    <3>5. t["seconds"] \in Byte
      BY <3>1, <3>2, <3>4, StoredType
    <3> QED BY <1>4, <3>2, <3>5 DEF NoTime, Byte
  <2>2. \A r \in Reg : t[r] = Stored(r, hist[n][r])
    <3> SUFFICES ASSUME NEW r \in Reg PROVE t[r] = Stored(r, hist[n][r])
      OBVIOUS
    <3>1. PICK i \in 1 .. n : t[r] = Stored(r, hist[i][r])
      BY <1>2, <1>4, <2>1 DEF FirstPass
    <3>2. PICK j \in n .. now : t[r] = Stored(r, hist[j][r])
      BY <1>2 DEF SecondPass
    <3>3. i \in 1 .. Len(hist) /\ n \in 1 .. Len(hist) /\ j \in 1 .. Len(hist)
          /\ i <= n /\ n <= j
      BY <1>1
    <3>4. /\ hist[i][r] \in 0 .. 99 /\ (r = "hours" => hist[i][r] < 24)
          /\ hist[j][r] \in 0 .. 99 /\ (r = "hours" => hist[j][r] < 24)
      BY <3>3, TimesOfHistory DEF RInv
    <3>5. hist[i][r] = hist[j][r]
      BY <3>1, <3>2, <3>4, StoredApart
    <3>6. hist[n][r] = hist[i][r]
      BY <3>3, <3>5, TimesOfHistory DEF RInv
    <3> QED BY <3>1, <3>6
  <2>3. irq' = "print"
    BY <1>4 DEF rtc_read
  <2>4. \A r \in Reg : t'[r] = Stored(r, hist[n][r])'
    BY <1>3, <2>2 DEF Stored, Hour, Bcd
  <2> QED BY <1>3, <2>3, <2>4 DEF Passes
<1>5. CASE t # last
  <2>1. irq' = "uip" /\ last' = t
    BY <1>5 DEF rtc_read
  <2>2. \A r \in Reg : \E i \in 1 .. now : t[r] = Stored(r, hist[i][r])
    <3> SUFFICES ASSUME NEW r \in Reg
                 PROVE  \E i \in 1 .. now : t[r] = Stored(r, hist[i][r])
      OBVIOUS
    <3>1. PICK j \in n .. now : t[r] = Stored(r, hist[j][r])
      BY <1>2 DEF SecondPass
    <3> QED BY <1>1, <3>1
  <2>3. FirstPass(now)'
    BY <1>3, <2>1, <2>2 DEF FirstPass, Stored, Hour, Bcd
  <2> QED BY <2>1, <2>3 DEF Passes
<1> QED BY <1>4, <1>5

(* What cmd_time makes of the hour a. *)
HourAt(a, zone) == LET h == (a + zone) % 256 IN IF h >= 24 THEN h - 24 ELSE h

(* It is a byte, and the hour of the zone up to a day away. *)
LEMMA HourShown ==
  ASSUME NEW a \in 0 .. 99, a < 24, NEW zone \in Nat
  PROVE  /\ HourAt(a, zone) \in 0 .. 255
         /\ zone <= 24 => HourAt(a, zone) = (a + zone) % 24
BY SMT DEF HourAt

(* What cmd_time prints comes from the time n at which UIP was clear.      *)
LEMMA Shown ==
  ASSUME RInv, NEW zone \in Offsets, PrintTime(zone)
  PROVE  \E n \in from .. now :
           /\ n \in 1 .. Len(hist)
           /\ shown' = [r \in Printed |-> IF r = "hours" THEN HourAt(hist[n][r], zone)
                                          ELSE hist[n][r]]
<1>1. PICK n \in from .. now : \A r \in Reg : t[r] = Stored(r, hist[n][r])
  BY DEF PrintTime, RInv, Passes
<1>2. n \in 1 .. Len(hist)
  BY TimesOfHistory DEF RInv, Running
<1>3. \A r \in Reg : Decoded[r] = hist[n][r]
  BY <1>1, <1>2, DecodedIsStored, TimesOfHistory DEF RInv
<1>4. "hours" \in Reg /\ Printed \subseteq Reg
  BY DEF Reg, Registers, Printed
<1>5. shown' = [r \in Printed |-> IF r = "hours" THEN HourAt(Decoded["hours"], zone)
                                  ELSE Decoded[r]]
  BY DEF PrintTime, Show, HourAt
<1>6. \A r \in Printed : Decoded[r] = hist[n][r]
  BY <1>3, <1>4
<1>7. Decoded["hours"] = hist[n]["hours"]
  BY <1>3, <1>4
<1> QED BY <1>2, <1>5, <1>6, <1>7

(* No register was read at the start. *)
LEMMA RInvInit == Init => RInv
<1> SUFFICES ASSUME Init PROVE RInv
  OBVIOUS
<1>1. Len(hist) \in Nat \ {0}
  BY HistoriesAssumption DEF Init
<1> QED BY <1>1 DEF Init, RInv, Reads, Running, Passes, NoTime, Blank, Byte, NoArg

(* RInv is inductive. *)
LEMMA RInvStep == RInv /\ [Next]_vars => RInv'
<1> SUFFICES ASSUME RInv, [Next]_vars PROVE RInv'
  OBVIOUS
<1>h. Len(hist) \in Nat /\ now \in Nat /\ from \in Nat
  BY TimesOfHistory DEF RInv
<1>1. CASE Pulse
  BY <1>1, <1>h, PassesKept DEF Pulse, RInv, Reads, Running, read, clock
<1>2. ASSUME NEW zone \in Offsets \cup {NoArg}, Type(zone) PROVE RInv'
  BY <1>2, <1>h, PassesKept DEF Type, RInv, Reads, Running, clock
<1>3. CASE Announce
  BY <1>3, <1>h, PassesKept DEF Announce, RInv, Reads, Running, read
<1>4. CASE Second
  <2>1. todo' \subseteq Reg /\ phase' = "update" /\ now' = now + 1
    BY <1>4 DEF Second
  <2> QED BY <1>4, <1>h, <2>1, PassesKept DEF Second, RInv, Reads, Running, read
<1>5. ASSUME NEW r \in Reg, Change(r) PROVE RInv'
  BY <1>5, <1>h, PassesKept DEF Change, RInv, Reads, Running, read
<1>6. CASE Settled
  BY <1>6, <1>h, PassesKept DEF Settled, RInv, Reads, Running, read
<1>7. CASE initTimer
  BY <1>7, <1>h, PassesKept DEF initTimer, RInv, Reads, Running, read, clock
<1>8. CASE TakeIrq
  <2>1. irq' \in {"command", "tick", "eoi"}
    BY <1>8 DEF TakeIrq
  <2> QED BY <1>8, <2>1 DEF TakeIrq, RInv, Reads, Running, Passes, read, clock
<1>9. CASE onIrq0
  BY <1>9 DEF onIrq0, RInv, Reads, Running, Passes, read, clock
<1>10. CASE EndIrq
  BY <1>10 DEF EndIrq, RInv, Reads, Running, Passes, clock, Blank
<1>11. CASE cmd_time
  BY <1>11, <1>h DEF cmd_time, RInv, Reads, Running, Passes, clock, NoTime, FirstPass
<1>12. CASE rtc_read_raw
  <2>1. /\ irq' = "read" /\ k' = 1 /\ UNCHANGED <<offset, t, last, shown, from, clock>>
        /\ phase = "quiet"
    BY <1>12 DEF rtc_read_raw, UIP
  <2>2. FirstPass(now) /\ now \in from .. now
    BY <1>12, <1>h DEF rtc_read_raw, RInv, Running, Passes
  <2>3. FirstPass(now)'
    BY <2>1, <2>2 DEF FirstPass, Stored, Hour, Bcd, NoTime, clock
  <2>4. {Registers[j] : j \in 1 .. k' - 1} = {}
    BY <2>1
  <2>5. SecondPass(now, {Registers[j] : j \in 1 .. k - 1})'
    BY <2>4 DEF SecondPass
  <2>6. Passes'
    BY <2>1, <2>2, <2>3, <2>5 DEF Passes, RInv, Running, clock
  <2> QED BY <2>1, <2>6 DEF RInv, Reads, Running, clock
<1>13. CASE rtc_read_reg
  <2>1. k \in 1 .. 6 /\ Registers[k] \in Reg
    BY DEF RInv, Reads, Reg
  <2>2. Port(Registers[k]) \in Byte
    BY <2>1, PortType DEF RInv
  <2>3. t' \in [Reg -> Byte \cup {-1}] /\ k' \in 1 .. 6 /\ irq' \in {"read", "compare"}
    BY <1>13, <2>1, <2>2 DEF rtc_read_reg, RInv, Reads
  <2> QED BY <1>13, <2>3, RegisterRead DEF rtc_read_reg, RInv, Reads, Running, clock
<1>14. CASE rtc_read
  <2>1. last' \in [Reg -> Byte \cup {-1}] /\ irq' \in {"uip", "print"}
    BY <1>14 DEF rtc_read, RInv, Reads
  <2> QED BY <1>14, <2>1, PassesCompared DEF rtc_read, RInv, Reads, Running, clock
<1>15. ASSUME NEW zone \in Offsets, PrintTime(zone) PROVE RInv'
  <2>1. shown' \in [Printed -> Byte \cup {-1}]
    <3>1. PICK n \in 1 .. Len(hist) :
            shown' = [r \in Printed |-> IF r = "hours" THEN HourAt(hist[n][r], zone)
                                        ELSE hist[n][r]]
      BY <1>15, Shown
    <3>2. Printed \subseteq Reg /\ zone \in Nat
      BY ClockAssumption DEF Printed
    <3>3. PICK x : x = hist[n]
      OBVIOUS
    <3>4. x \in [Reg -> 0 .. 99] /\ x["hours"] < 24
      BY <3>1, <3>3, TimesOfHistory DEF RInv
    <3>5. ASSUME NEW r \in Printed
          PROVE  (IF r = "hours" THEN HourAt(x[r], zone) ELSE x[r]) \in Byte
      <4>1. x[r] \in 0 .. 99
        BY <3>2, <3>4
      <4>2. CASE r = "hours"
        <5>1. x[r] < 24
          BY <3>4, <4>2, Zenon
        <5>2. HourAt(x[r], zone) \in 0 .. 255
          BY <3>2, <4>1, <5>1, HourShown
        <5> QED BY <4>2, <5>2 DEF Byte
      <4> QED BY <4>1, <4>2 DEF Byte
    <3> QED BY <3>1, <3>3, <3>5
  <2>2. t' \in [Reg -> Byte \cup {-1}] /\ last' \in [Reg -> Byte \cup {-1}]
    BY <1>15 DEF PrintTime, NoTime
  <2> QED BY <1>15, <1>h, <2>1, <2>2
          DEF PrintTime, RInv, Reads, Running, Passes, clock
<1>16. CASE isr_handler
  BY <1>16 DEF isr_handler, RInv, Reads, Running, Passes, read, clock
<1>17. CASE UNCHANGED vars
  BY <1>17, <1>h, PassesKept DEF vars, RInv, Reads, Running, read, clock
<1> QED BY <1>1, <1>2, <1>3, <1>4, <1>5, <1>6, <1>7, <1>8, <1>9, <1>10, <1>11, <1>12,
           <1>13, <1>14, <1>15, <1>16, <1>17 DEF Next, Cpu, Update

(* The interrupt path serves one line at a time. *)
LEMMA Types == TInv /\ RInv => TypeOK
<1> SUFFICES ASSUME TInv, RInv PROVE TypeOK
  OBVIOUS
<1>1. Cardinality(isr) <= 1
  <2>1. isr \in {{}, {0}, {1}}
    BY DEF TInv, Lines
  <2>2. CASE isr = {}
    BY <2>2, FS_EmptySet
  <2>3. ASSUME NEW line, isr = {line} PROVE Cardinality(isr) <= 1
    BY <2>3, FS_Singleton
  <2> QED BY <2>1, <2>2, <2>3
<1>2. iflag = (irq = "none")
  <2>1. iflag \in BOOLEAN /\ (iflag <=> irq = "none")
    BY DEF TInv, Lines
  <2> QED BY <2>1, Zenon
<1>3. \A r \in Reg : t[r] \in Byte \cup {-1}
  BY DEF RInv, Reads
<1>4. \A r \in Printed : shown[r] \in Byte \cup {-1}
  BY DEF RInv, Reads
<1> QED BY <1>1, <1>2, <1>3, <1>4 DEF TypeOK, TInv, Lines, RInv, Reads, Running

(* rtc_read keeps bytes, and idt.c serves one interrupt at a time with     *)
(* interrupts off until irq_handler is over, whatever the clock shows.     *)
THEOREM OneInterruptAtATime == Spec => []TypeOK
<1>1. TInv /\ [Next]_vars => TInv'
  BY TInvStep
<1>2. RInv /\ [Next]_vars => RInv'
  BY RInvStep
<1> QED BY <1>1, <1>2, TInvInit, RInvInit, Types, PTL DEF Spec

(* What the command time prints is a time that the clock had between the   *)
(* call of rtc_read and the print, shifted by the offset: for every        *)
(* history in which no register returns to a value it has left, in either  *)
(* format, on 12 or 24 hours, and however slow the processor is.           *)
THEOREM TimeIsTrue == Spec => TimeShownIsTrue
<1> DEFINE Truly(zone) ==
      PrintTime(zone) => \E n \in from .. now :
        shown' = [r \in Printed |-> IF r = "hours" THEN (hist[n][r] + zone) % 24
                                    ELSE hist[n][r]]
<1>1. RInv => [\A zone \in Offsets \cap 0 .. 24 : Truly(zone)]_vars
  <2> SUFFICES ASSUME RInv, NEW zone \in Offsets \cap 0 .. 24, PrintTime(zone)
               PROVE  \E n \in from .. now :
                        shown' = [r \in Printed |->
                                    IF r = "hours" THEN (hist[n][r] + zone) % 24
                                    ELSE hist[n][r]]
    OBVIOUS
  <2>1. PICK n \in from .. now :
          /\ n \in 1 .. Len(hist)
          /\ shown' = [r \in Printed |-> IF r = "hours" THEN HourAt(hist[n][r], zone)
                                         ELSE hist[n][r]]
    BY Shown
  <2>2. PICK x : x = hist[n]
    OBVIOUS
  <2>3. x \in [Reg -> 0 .. 99] /\ x["hours"] < 24 /\ "hours" \in Reg
    BY <2>1, <2>2, TimesOfHistory DEF RInv, Reg, Registers
  <2>4. HourAt(x["hours"], zone) = (x["hours"] + zone) % 24
    <3>1. x["hours"] \in 0 .. 99
      BY <2>3
    <3>2. zone \in Nat /\ zone <= 24
      OBVIOUS
    <3> QED BY <2>3, <3>1, <3>2, HourShown
  <2>5. shown' = [r \in Printed |-> IF r = "hours" THEN (x[r] + zone) % 24 ELSE x[r]]
    BY <2>1, <2>2, <2>4
  <2> QED BY <2>2, <2>5
<1>2. RInv /\ [Next]_vars => RInv'
  BY RInvStep
<1> QED BY <1>1, <1>2, RInvInit, PTL DEF Spec, TimeShownIsTrue

=============================================================================
