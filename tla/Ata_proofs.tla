----------------------------- MODULE Ata_proofs -----------------------------
(***************************************************************************)
(* Proofs about Ata for any number of sectors, contents and polls: the     *)
(* driver implements module Disk.                                          *)
(*                                                                         *)
(* The driver and the disk are in step as long as no call was given up     *)
(* while the disk was at it: then the disk works on the call in progress,  *)
(* and what it holds in transit belongs to that call.                      *)
(***************************************************************************)
EXTENDS Ata, TLAPS

Contents == Values \cup {Junk}

Calls == [op : {"read"}, lba : Lbas, val : {Junk}]
         \cup [op : {"write"}, lba : Lbas, val : Values]

(* A sector on its way to the disk's cache is one that a call has written. *)
Types ==
  /\ TypeOK
  /\ call.op = "none" \/ call \in Calls
  /\ pc \notin {"boot", "idle"} => call \in Calls
  /\ pc \in {"sent", "flush"} => call.op = "write"
  /\ at \in Lbas /\ (phase = "busy" /\ cmd = "store" => data \in Values)
  /\ late \in BOOLEAN /\ failed \in BOOLEAN /\ err \in BOOLEAN
  /\ pc = "boot" => call.op = "none"

(* A missing drive accepts nothing, and nothing is sent to it. *)
Missing == pc = "boot" \/ ~There => phase = "ready" /\ pc \notin {"sent", "flush"}

(* The sector is written, unless the disk has failed to. *)
Stored == failed \/ cache[call.lba] = call.val

(* Where the disk may be while the driver waits for its answer. *)
Asked ==
  \/ phase = "busy" /\ cmd = call.op /\ at = call.lba
  \/ phase = "in" /\ call.op = "read" /\ data = cache[call.lba]
  \/ phase = "out" /\ call.op = "write" /\ at = call.lba
  \/ phase = "ready"

(* The same after the data of a write: the flush may have been accepted, or *)
(* ignored by a disk that was still storing the sector.                     *)
Sent ==
  /\ at = call.lba
  /\ \/ phase = "busy" /\ cmd = "store" /\ data = call.val
     \/ phase = "busy" /\ cmd = "flush" /\ pc = "flush" /\ Stored
     \/ phase = "ready" /\ Stored

InStep ==
  ~late => /\ pc \in {"boot", "idle", "ready?"} => phase = "ready"
           /\ pc \in {"bsy", "drq"} => Asked
           /\ pc \in {"sent", "flush"} => Sent

IInv == Types /\ Missing /\ InStep

-----------------------------------------------------------------------------
(* The driver has found no drive yet and the disk is idle. *)
LEMMA InvInit == Init => IInv
<1> SUFFICES ASSUME Init PROVE IInv
  OBVIOUS
<1>1. call.lba \in Lbas /\ call.op = "none"
  BY AtaAssumption DEF Init
<1>2. /\ cache \in [Lbas -> Values] /\ media \in [Lbas -> Values] /\ at \in Lbas
      /\ timeout = 0 /\ data = Junk /\ buf = Junk
  BY <1>1 DEF Init
<1>3. TypeOK
  BY <1>2, AtaAssumption DEF Init, TypeOK
<1>4. Types
  BY <1>1, <1>2, <1>3 DEF Init, Types
<1> QED BY <1>4 DEF Init, IInv, Missing, InStep

(* Types is inductive. *)
LEMMA TypesStep == Types /\ [Next]_vars => Types'
<1> SUFFICES ASSUME Types, [Next]_vars PROVE Types'
  OBVIOUS
<1> USE AtaAssumption DEF Types, TypeOK
<1>1. CASE ata_init
  BY <1>1 DEF ata_init, device
<1>2. ASSUME NEW l \in Lbas, ata_read(l) PROVE Types'
  <2>1. call' = [op |-> "read", lba |-> l, val |-> Junk]
    BY <1>2 DEF ata_read, Begin
  <2>2. call' \in Calls
    BY <2>1 DEF Calls
  <2>3. /\ pc' = "ready?" /\ timeout' = Polls /\ buf' = Junk /\ failed' = FALSE
        /\ UNCHANGED <<code, device, late>>
    BY <1>2 DEF ata_read, Begin, Wait
  <2>4. TypeOK'
    BY <2>3 DEF device
  <2> QED BY <2>2, <2>3, <2>4 DEF device
<1>3. ASSUME NEW l \in Lbas, NEW v \in Values, ata_write(l, v) PROVE Types'
  <2>1. call' = [op |-> "write", lba |-> l, val |-> v]
    BY <1>3 DEF ata_write, Begin
  <2>2. call' \in Calls
    BY <2>1 DEF Calls
  <2>3. /\ pc' = "ready?" /\ timeout' = Polls /\ buf' = Junk /\ failed' = FALSE
        /\ UNCHANGED <<code, device, late>>
    BY <1>3 DEF ata_write, Begin, Wait
  <2>4. TypeOK'
    BY <2>3 DEF device
  <2> QED BY <2>2, <2>3, <2>4 DEF device
<1>4. CASE PollBsy
  BY <1>4 DEF PollBsy, BsyGoesOn, device
<1>5. CASE BsyTimeout
  BY <1>5 DEF BsyTimeout, Return, device
<1>6. CASE Issue
  <2>1. call \in Calls /\ call.op \in {"read", "write"} /\ call.lba \in Lbas
    BY <1>6 DEF Issue, Calls
  <2>2. /\ pc' = "bsy" /\ timeout' = Polls
        /\ UNCHANGED <<call, buf, code, data, cache, media, late, failed>>
    BY <1>6 DEF Issue, Command, Wait, device
  <2>3. CASE UNCHANGED device
    BY <2>1, <2>2, <2>3 DEF device
  <2>4. CASE phase' = "busy" /\ cmd' = call.op /\ at' = call.lba /\ err' = FALSE
    <3>1. TypeOK'
      BY <2>1, <2>2, <2>4
    <3>2. cmd' # "store" /\ at' \in Lbas /\ err' \in BOOLEAN
      BY <2>1, <2>4
    <3>3. call' \in Calls /\ call'.op # "none" /\ pc' \notin {"boot", "sent", "flush"}
      BY <2>1, <2>2
    <3> QED BY <2>2, <3>1, <3>2, <3>3
  <2> QED BY <1>6, <2>3, <2>4 DEF Issue, Command
<1>7. CASE AwaitDrq
  BY <1>7 DEF AwaitDrq, Wait, device
<1>8. CASE PollDrq
  BY <1>8 DEF PollDrq, device
<1>9. CASE DrqFails
  BY <1>9 DEF DrqFails, Return, device
<1>10. CASE TransferIn
  BY <1>10 DEF TransferIn, Return
<1>11. CASE TransferOut
  <2>1. call \in Calls /\ call.val \in Values
    BY <1>11 DEF TransferOut, Calls
  <2> QED BY <1>11, <2>1 DEF TransferOut
<1>12. CASE Flush
  <2>1. /\ pc = "sent" /\ pc' = "flush" /\ timeout' = Polls
        /\ UNCHANGED <<call, buf, code, data, cache, media, late, failed>>
    BY <1>12 DEF Flush, Command, Wait, device
  <2>2. CASE UNCHANGED device
    BY <2>1, <2>2 DEF device
  <2>3. CASE phase' = "busy" /\ cmd' = "flush" /\ at' = at /\ err' = FALSE
    <3>1. TypeOK'
      BY <2>1, <2>3
    <3> QED BY <2>1, <2>3, <3>1
  <2> QED BY <1>12, <2>2, <2>3 DEF Flush, Command
<1>13. CASE WriteReturns
  BY <1>13 DEF WriteReturns, Return, device
<1>14. CASE DeviceDone
  <2>1. cache' \in [Lbas -> Values] /\ data' \in Values \cup {Junk}
    BY <1>14 DEF DeviceDone
  <2> QED BY <1>14, <2>1 DEF DeviceDone, driver
<1>15. CASE DeviceFails
  BY <1>15 DEF DeviceFails, driver
<1>16. CASE WriteBack
  BY <1>16 DEF WriteBack, driver
<1>17. CASE UNCHANGED vars
  BY <1>17 DEF vars, driver, device
<1> QED BY <1>1, <1>2, <1>3, <1>4, <1>5, <1>6, <1>7, <1>8, <1>9, <1>10, <1>11, <1>12,
           <1>13, <1>14, <1>15, <1>16, <1>17 DEF Next, Driver

(* The disk is found once, and then present or missing for good. *)
LEMMA MissingStep == Types /\ Missing /\ [Next]_vars => Missing'
<1> SUFFICES ASSUME Types, Missing, [Next]_vars PROVE Missing'
  OBVIOUS
<1> USE DEF Missing, There
<1>1. CASE ata_init
  BY <1>1 DEF ata_init, device
<1>2. ASSUME NEW op, NEW l, NEW v, Begin(op, l, v) PROVE Missing'
  BY <1>2 DEF Begin, Wait, device
<1>3. CASE PollBsy \/ PollDrq
  BY <1>3 DEF PollBsy, PollDrq, device
<1>4. CASE BsyTimeout \/ DrqFails \/ WriteReturns
  BY <1>4 DEF BsyTimeout, DrqFails, WriteReturns, Return, device
<1>5. CASE Issue \/ Flush
  BY <1>5 DEF Issue, Flush, Command, Accepts, Wait, device
<1>6. CASE AwaitDrq
  BY <1>6 DEF AwaitDrq, Wait, device
<1>7. CASE TransferIn
  BY <1>7 DEF TransferIn, Return
<1>8. CASE TransferOut
  BY <1>8 DEF TransferOut, DRQ, ERR
<1>9. CASE DeviceDone \/ DeviceFails \/ WriteBack
  BY <1>9 DEF DeviceDone, DeviceFails, WriteBack, driver
<1>10. CASE UNCHANGED vars
  BY <1>10 DEF vars, driver, device
<1> QED BY <1>1, <1>2, <1>3, <1>4, <1>5, <1>6, <1>7, <1>8, <1>9, <1>10
        DEF Next, Driver, ata_read, ata_write

(* Once a call was given up, the driver and the disk may be out of step.   *)
LEMMA LateStays == late /\ [Next]_vars => late'
BY DEF Next, Driver, ata_init, ata_read, ata_write, Begin, PollBsy, BsyTimeout, Issue,
       AwaitDrq, PollDrq, DrqFails, TransferIn, TransferOut, Flush, WriteReturns, Return,
       DeviceDone, DeviceFails, WriteBack, vars

(* As long as no call is given up, the disk works on the call in progress. *)
LEMMA InStepStep == IInv /\ [Next]_vars => InStep'
<1> SUFFICES ASSUME IInv, [Next]_vars, ~late' PROVE InStep'
  BY DEF InStep
<1>n. ~late
  BY LateStays
<1>t. Types /\ Missing /\ (pc \in {"boot", "idle", "ready?"} => phase = "ready")
      /\ (pc \in {"bsy", "drq"} => Asked) /\ (pc \in {"sent", "flush"} => Sent)
  BY <1>n DEF IInv, InStep
<1> USE DEF InStep
<1>1. CASE ata_init
  BY <1>t, <1>1 DEF ata_init, device
<1>2. ASSUME NEW op, NEW l, NEW v, Begin(op, l, v) PROVE InStep'
  BY <1>t, <1>2 DEF Begin, Wait, device
<1>3. CASE PollBsy \/ PollDrq
  BY <1>t, <1>3 DEF PollBsy, PollDrq, device, Asked, Sent, Stored
<1>4. CASE BsyTimeout \/ DrqFails
  <2>1. pc' = "idle" /\ UNCHANGED phase /\ ~(There /\ phase # "ready")
    BY <1>4 DEF BsyTimeout, DrqFails, Return, device
  <2> QED BY <1>t, <2>1 DEF Missing
<1>5. CASE Issue
  <2>1. pc = "ready?" /\ phase = "ready" /\ pc' = "bsy" /\ UNCHANGED <<call, cache>>
    BY <1>t, <1>5 DEF Issue, Wait, Command, device
  <2>2. phase' = "ready" \/ (phase' = "busy" /\ cmd' = call.op /\ at' = call.lba)
    BY <1>5, <2>1 DEF Issue, Command, device
  <2> QED BY <2>1, <2>2 DEF Asked
<1>6. CASE AwaitDrq
  BY <1>t, <1>6 DEF AwaitDrq, Wait, device, Asked
<1>7. CASE TransferIn
  <2>1. pc = "drq" /\ call.op = "read" /\ DRQ /\ ~ERR /\ Asked
    BY <1>t, <1>7 DEF TransferIn
  <2>2. phase = "in"
    BY <2>1 DEF DRQ, ERR, Asked, Types, TypeOK, There
  <2> QED BY <1>7, <2>2 DEF TransferIn, Return
<1>8. CASE TransferOut
  <2>1. pc = "drq" /\ call.op = "write" /\ DRQ /\ ~ERR /\ Asked
    BY <1>t, <1>8 DEF TransferOut
  <2>2. phase = "out" /\ at = call.lba
    BY <2>1 DEF DRQ, ERR, Asked, There
  <2> QED BY <1>8, <2>2 DEF TransferOut, Sent
<1>9. CASE Flush
  <2>1. pc = "sent" /\ pc' = "flush" /\ Sent /\ UNCHANGED <<call, cache, data, failed>>
    BY <1>t, <1>9 DEF Flush, Wait, Command, device
  <2>2. CASE UNCHANGED device
    BY <2>1, <2>2 DEF device, Sent, Stored
  <2>3. CASE phase = "ready" /\ phase' = "busy" /\ cmd' = "flush" /\ at' = at
    BY <2>1, <2>3 DEF Sent, Stored
  <2> QED BY <1>9, <2>2, <2>3 DEF Flush, Command, Accepts
<1>10. CASE WriteReturns
  <2>1. Sent /\ pc = "flush" /\ pc' = "idle" /\ UNCHANGED phase /\ ~BSY
    BY <1>t, <1>10 DEF WriteReturns, Return, device, BsyGoesOn, BsyFails
  <2>2. There
    BY <1>t, <2>1 DEF Missing
  <2> QED BY <2>1, <2>2 DEF Sent, BSY
<1>11. CASE DeviceDone
  <2>1. /\ phase = "busy" /\ UNCHANGED <<pc, call, cmd, at, failed>>
        /\ phase' = CASE cmd = "read" -> "in" [] cmd = "write" -> "out" [] OTHER -> "ready"
        /\ data' = IF cmd = "read" THEN cache[at] ELSE data
        /\ cache' = IF cmd = "store" THEN [cache EXCEPT ![at] = data] ELSE cache
    BY <1>11 DEF DeviceDone, driver
  <2>2. CASE pc \in {"bsy", "drq"}
    <3>1. cmd = call.op /\ at = call.lba /\ call.op \in {"read", "write"}
      BY <1>t, <2>1, <2>2 DEF Asked, Types, Calls
    <3> QED BY <2>1, <2>2, <3>1 DEF Asked
  <2>3. CASE pc \in {"sent", "flush"}
    <3>1. at = call.lba /\ at \in Lbas /\ cache \in [Lbas -> Values]
      BY <1>t, <2>3 DEF Sent, Types, TypeOK
    <3>2. CASE cmd = "store"
      BY <1>t, <2>1, <2>3, <3>1, <3>2 DEF Sent, Stored
    <3>3. CASE cmd = "flush"
      BY <1>t, <2>1, <2>3, <3>1, <3>3 DEF Sent, Stored
    <3> QED BY <1>t, <2>1, <2>3, <3>2, <3>3 DEF Sent
  <2> QED BY <1>t, <2>1, <2>2, <2>3
<1>12. CASE DeviceFails
  BY <1>t, <1>12 DEF DeviceFails, driver, Asked, Sent, Stored, Types, Calls
<1>13. CASE WriteBack
  BY <1>t, <1>13 DEF WriteBack, driver, Asked, Sent, Stored
<1>14. CASE UNCHANGED vars
  BY <1>t, <1>14 DEF vars, driver, device, Asked, Sent, Stored
<1> QED BY <1>1, <1>2, <1>3, <1>4, <1>5, <1>6, <1>7, <1>8, <1>9, <1>10, <1>11, <1>12,
           <1>13, <1>14 DEF Next, Driver, ata_read, ata_write

(* IInv is inductive. *)
LEMMA InvStep == IInv /\ [Next]_vars => IInv'
BY TypesStep, MissingStep, InStepStep DEF IInv

(* The waits of ata.c stay within their polls, and only sectors travel,    *)
(* however many polls there are and whether or not the disk answers.       *)
THEOREM WaitsStayBounded == Spec => []TypeOK
<1>1. IInv => TypeOK
  BY DEF IInv, Types
<1> QED BY <1>1, InvInit, InvStep, PTL DEF Spec

-----------------------------------------------------------------------------
(* The refinement *)

(* The driver's start is the start of Disk. *)
LEMMA RefinesInit == Init => Contract!DiskInit
BY DEF Init, Contract!DiskInit, Contract!None, Contract!Junk, Junk

(* Each step of the driver or of its disk is one step of Disk, or none. *)
LEMMA RefinesStep ==
  IInv /\ IInv' /\ [Next]_vars => [Contract!DiskNext]_(Contract!dvars)
<1> SUFFICES ASSUME IInv, IInv', [Next]_vars
             PROVE  Contract!DiskNext \/ UNCHANGED Contract!dvars
  OBVIOUS
<1>t. Types /\ Missing /\ Types'
  BY DEF IInv
<1>1. CASE late
  <2>1. late'
    BY <1>1, LateStays
  <2> QED BY <1>1, <2>1 DEF Contract!DiskNext, Contract!Broken
<1>2. CASE ~late
  <2>i. /\ pc \in {"boot", "idle", "ready?"} => phase = "ready"
        /\ pc \in {"bsy", "drq"} => Asked
        /\ pc \in {"sent", "flush"} => Sent
    BY <1>2 DEF IInv, InStep
  <2>1. CASE ata_init
    BY <1>t, <2>1 DEF ata_init, device, Types, Contract!dvars
  <2>2. ASSUME NEW op \in {"read", "write"}, NEW l \in Lbas, NEW v \in Contents, Begin(op, l, v)
        PROVE  Contract!Ask
    <3>1. pc = "idle" /\ pc' = "ready?" /\ call' = [op |-> op, lba |-> l, val |-> v]
          /\ buf' = Junk /\ failed' = FALSE /\ UNCHANGED <<cache, late>>
      BY <2>2 DEF Begin, Wait, device
    <3>2. call' \in [op : {"read", "write"}, lba : Lbas, val : Values \cup {Junk}]
      BY <3>1 DEF Contents
    <3> QED BY <3>1, <3>2 DEF Contract!Ask, Contract!None, Contract!Junk, Junk
  <2>3. CASE PollBsy \/ AwaitDrq \/ PollDrq
    BY <2>3 DEF PollBsy, AwaitDrq, PollDrq, Wait, device, Contract!dvars
  <2>4. CASE BsyTimeout \/ DrqFails
    <3>1. /\ pc \notin {"boot", "idle"} /\ pc' = "idle" /\ code' = -1
          /\ UNCHANGED <<call, buf, cache, failed>>
      BY <2>4 DEF BsyTimeout, DrqFails, Return, device
    <3>2. late' \in BOOLEAN /\ call.op # "none" /\ call # Contract!None
      BY <1>t, <3>1 DEF Types, Calls, Contract!None
    <3>3. Contract!GiveUp
      BY <3>1, <3>2 DEF Contract!GiveUp, Contract!None
    <3> QED BY <3>3 DEF Contract!DiskNext
  <2>5. CASE Issue \/ TransferOut \/ Flush
    <3>1. pc \notin {"boot", "idle"} /\ pc' \notin {"boot", "idle"}
          /\ UNCHANGED <<call, buf, code, cache, failed, late>>
      BY <2>5 DEF Issue, TransferOut, Flush, Command, Wait, device
    <3> QED BY <3>1 DEF Contract!dvars
  <2>6. CASE TransferIn
    <3>1. pc = "drq" /\ call.op = "read" /\ DRQ /\ ~ERR /\ Asked
      BY <2>i, <2>6 DEF TransferIn
    <3>2. phase = "in" /\ data = cache[call.lba]
      BY <3>1 DEF DRQ, ERR, Asked, There
    <3>3. /\ buf' = cache[call.lba] /\ pc' = "idle" /\ code' = 0
          /\ UNCHANGED <<call, cache, failed>>
      BY <2>6, <3>2 DEF TransferIn, Return
    <3>4. late' = late /\ call # Contract!None
      BY <1>t, <1>2, <2>6, <3>1 DEF TransferIn, Return, Types, Calls, Contract!None
    <3>5. Contract!Done
      BY <1>2, <3>1, <3>3, <3>4 DEF Contract!Done, Contract!None
    <3> QED BY <3>5 DEF Contract!DiskNext
  <2>7. CASE WriteReturns
    <3>1. Sent /\ pc = "flush" /\ ~BSY /\ call.op = "write"
      BY <1>t, <2>i, <2>7 DEF WriteReturns, BsyGoesOn, BsyFails, Types
    <3>2. Stored
      BY <1>t, <3>1 DEF Sent, BSY, Missing
    <3>3. /\ pc' = "idle" /\ code' = 0 /\ UNCHANGED <<call, buf, cache, failed>>
      BY <2>7 DEF WriteReturns, Return, device
    <3>4. late' = late /\ call # Contract!None
      BY <1>t, <1>2, <2>7, <3>1 DEF WriteReturns, Return, Types, Calls, Contract!None
    <3>5. Contract!Done
      BY <1>2, <3>1, <3>2, <3>3, <3>4 DEF Contract!Done, Contract!None, Stored
    <3> QED BY <3>5 DEF Contract!DiskNext
  <2>8. CASE DeviceDone
    <3>1. phase = "busy" /\ UNCHANGED <<pc, call, code, buf, late, failed>>
          /\ cache' = IF cmd = "store" THEN [cache EXCEPT ![at] = data] ELSE cache
      BY <2>8 DEF DeviceDone, driver
    <3>2. CASE cmd = "store"
      <4>1. pc \in {"sent", "flush"} /\ at = call.lba /\ data = call.val /\ call.op = "write"
        BY <1>t, <2>i, <3>1, <3>2 DEF Asked, Sent, Types, TypeOK, Calls
      <4>2. call # Contract!None
        BY <4>1 DEF Contract!None
      <4>3. Contract!Take
        BY <3>1, <3>2, <4>1, <4>2 DEF Contract!Take, Contract!Writing, Contract!None
      <4> QED BY <4>3 DEF Contract!DiskNext
    <3>3. CASE cmd # "store"
      BY <3>1, <3>3 DEF Contract!dvars
    <3> QED BY <3>2, <3>3
  <2>9. CASE DeviceFails
    <3>1. phase = "busy" /\ UNCHANGED <<pc, call, code, buf, late, cache>>
          /\ failed' = (failed \/ cmd \in {"write", "store", "flush"})
      BY <2>9 DEF DeviceFails, driver
    <3>2. CASE cmd \in {"write", "store", "flush"}
      <4>1. pc \notin {"boot", "idle"} /\ call.op = "write"
        BY <1>t, <2>i, <3>1, <3>2 DEF Asked, Types, TypeOK, Calls
      <4>2. call # Contract!None
        BY <4>1 DEF Contract!None
      <4>3. failed' = TRUE
        BY <3>1, <3>2
      <4>4. Contract!Fail
        BY <3>1, <4>1, <4>2, <4>3 DEF Contract!Fail, Contract!Writing, Contract!None
      <4> QED BY <4>4 DEF Contract!DiskNext
    <3>3. CASE cmd \notin {"write", "store", "flush"}
      <4>1. failed' = failed
        BY <1>t, <3>1, <3>3 DEF Types
      <4> QED BY <3>1, <4>1 DEF Contract!dvars
    <3> QED BY <3>2, <3>3
  <2>10. CASE WriteBack \/ UNCHANGED vars
    BY <2>10 DEF WriteBack, vars, driver, device, Contract!dvars
  <2>11. ASSUME NEW l \in Lbas, ata_read(l) PROVE Contract!Ask
    BY <2>2, <2>11 DEF ata_read, Contents
  <2>12. ASSUME NEW l \in Lbas, NEW v \in Values, ata_write(l, v) PROVE Contract!Ask
    BY <2>2, <2>12 DEF ata_write, Contents
  <2> QED BY <2>1, <2>3, <2>4, <2>5, <2>6, <2>7, <2>8, <2>9, <2>10, <2>11, <2>12
          DEF Next, Driver, Contract!DiskNext
<1> QED BY <1>1, <1>2

(* ata.c gives fat.c the disk of module Disk, for every number of sectors  *)
(* and polls: an answer 0 is true, and a failed write changes at most the  *)
(* sector asked for, until a call is given up while the disk is at it.     *)
THEOREM DriverImplementsDisk == Spec => ImplementsDisk
BY InvInit, InvStep, RefinesInit, RefinesStep, PTL DEF Spec, ImplementsDisk, Contract!DiskSpec

=============================================================================
