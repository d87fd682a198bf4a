--------------------------------- MODULE Ata ---------------------------------
(***************************************************************************)
(* The disk driver of ata.c, with the disk it talks to.  The driver polls  *)
(* the status register with a bounded number of polls and gives up when    *)
(* they are used up; the disk goes on with its command regardless.         *)
(*                                                                         *)
(* The disk is external.  What matters of it is that it accepts a command  *)
(* only when it is neither busy nor in a data phase, that it moves data    *)
(* only in the phase of the command it accepted, and that a written sector *)
(* sits in its cache until a flush.  Every caller transfers one sector per *)
(* call, so the loops over count are taken once; the 256 words of a sector *)
(* move in one step.                                                       *)
(***************************************************************************)
EXTENDS Integers

CONSTANTS Lbas,     \* sector numbers
          Values,   \* sector contents
          Polls,    \* bound: the 100000 polls of a wait
          Errors    \* whether a command of the disk may fail

ASSUME AtaAssumption == Lbas # {} /\ Polls \in Nat \ {0} /\ Errors \in BOOLEAN

Drives == {"slave", "master"}
Junk   == "junk"    \* what the data port gives outside a data phase for reading

VARIABLES present,    \* the drives on the bus
          floating,   \* the status byte of a missing drive: "00" or "FF"
          ata_drive,  \* the drive that ata_init found, slave by default
          pc,         \* where the call in progress is
          call,       \* its arguments: [op, lba, val]
          timeout,    \* polls left in the current wait
          buf,        \* what the last read put into its buffer
          code,       \* what the last call returned
          phase,      \* disk: "ready", "busy", "in" (data to host), "out"
          cmd,        \* disk: the command it accepted last
          at,         \* disk: the sector of that command
          data,       \* disk: the sector in transit
          err,        \* disk: the ERR bit
          cache,      \* disk: contents as a read would return them
          media,      \* disk: contents that survive a loss of power
          late,       \* ghost: a call gave up on a command in progress
          failed      \* ghost: the disk failed the write of this call

driver == <<ata_drive, pc, call, timeout, buf, code>>
device == <<phase, cmd, at, data, err, cache, media>>
vars   == <<present, floating, driver, device, late, failed>>

Init == /\ present \in SUBSET Drives
        /\ floating \in {"00", "FF"}
        /\ ata_drive = "slave" /\ pc = "boot"
        /\ call = [op |-> "none", lba |-> CHOOSE l \in Lbas : TRUE, val |-> Junk]
        /\ timeout = 0 /\ buf = Junk /\ code = 0
        /\ phase = "ready" /\ cmd = "none" /\ at = call.lba /\ data = Junk
        /\ err = FALSE /\ cache \in [Lbas -> Values] /\ media = cache
        /\ late = FALSE /\ failed = FALSE

-----------------------------------------------------------------------------
(* The status register.  A missing drive answers with a constant byte. *)
There == ata_drive \in present
BSY == IF There THEN phase = "busy" ELSE floating = "FF"
DRQ == IF There THEN phase \in {"in", "out"} ELSE floating = "FF"
ERR == IF There THEN err ELSE floating = "FF"

(* The disk takes a command, or ignores it. *)
Accepts == There /\ phase = "ready"
Command(c, l) ==
  IF Accepts
  THEN /\ phase' = "busy" /\ cmd' = c /\ at' = l /\ err' = FALSE
       /\ UNCHANGED <<data, cache, media>>
  ELSE UNCHANGED device

Return(c) ==
  /\ pc' = "idle" /\ code' = c /\ timeout' = 0
  /\ late' = (late \/ (c = -1 /\ There /\ phase # "ready"))

Wait(next) == pc' = next /\ timeout' = Polls

(* ata_init: the drive that answers, slave first; "00" and "FF" are no     *)
(* answers.                                                                *)
ata_init == /\ pc = "boot"
            /\ ata_drive' = IF "slave" \in present THEN "slave"
                            ELSE IF "master" \in present THEN "master"
                            ELSE ata_drive
            /\ code' = IF present = {} THEN -1 ELSE 0
            /\ pc' = "idle"
            /\ UNCHANGED <<present, floating, call, timeout, buf, device, late, failed>>

Begin(op, l, v) ==
  /\ pc = "idle"
  /\ call' = [op |-> op, lba |-> l, val |-> v]
  /\ buf' = Junk
  /\ failed' = FALSE
  /\ Wait("ready?")
  /\ UNCHANGED <<present, floating, ata_drive, code, device, late>>

ata_read(l) == Begin("read", l, Junk)
ata_write(l, v) == Begin("write", l, v)

(* One turn of the loop of ata_wait_bsy: busy costs a poll, and reaching a *)
(* ready disk with the last poll used up still counts as a timeout.        *)
BsyGoesOn == BSY /\ timeout # 0
BsyFails  == timeout = 0

PollBsy_uncounted ==
  /\ pc \in {"ready?", "bsy", "flush"} /\ BsyGoesOn
  /\ UNCHANGED vars

PollBsy ==
  /\ pc \in {"ready?", "bsy", "flush"} /\ BsyGoesOn
  /\ timeout' = timeout - 1
  /\ UNCHANGED <<present, floating, ata_drive, pc, call, buf, code, device, late, failed>>

BsyTimeout ==
  /\ pc \in {"ready?", "bsy", "flush"} /\ ~BsyGoesOn /\ BsyFails
  /\ Return(-1)
  /\ UNCHANGED <<present, floating, ata_drive, call, buf, device, failed>>

(* The first wait is over: the registers and the command are written. *)
Issue ==
  /\ pc = "ready?" /\ ~BsyGoesOn /\ ~BsyFails
  /\ Command(call.op, call.lba)
  /\ Wait("bsy")
  /\ UNCHANGED <<present, floating, ata_drive, call, buf, code, late, failed>>

AwaitDrq ==
  /\ pc = "bsy" /\ ~BsyGoesOn /\ ~BsyFails
  /\ Wait("drq")
  /\ UNCHANGED <<present, floating, ata_drive, call, buf, code, device, late, failed>>

PollDrq_uncapped ==
  /\ pc = "drq" /\ ~ERR /\ ~DRQ
  /\ timeout' = timeout - 1
  /\ UNCHANGED <<present, floating, ata_drive, pc, call, buf, code, device, late, failed>>

(* One turn of the loop of ata_wait_drq. *)
PollDrq ==
  /\ pc = "drq" /\ timeout # 0 /\ ~ERR /\ ~DRQ
  /\ timeout' = timeout - 1
  /\ UNCHANGED <<present, floating, ata_drive, pc, call, buf, code, device, late, failed>>

DrqFails ==
  /\ pc = "drq" /\ (timeout = 0 \/ ERR)
  /\ Return(-1)
  /\ UNCHANGED <<present, floating, ata_drive, call, buf, device, failed>>

(* The data phase of a read. *)
TransferIn ==
  /\ pc = "drq" /\ timeout # 0 /\ ~ERR /\ DRQ /\ call.op = "read"
  /\ IF phase = "in"
     THEN buf' = data /\ phase' = "ready"
     ELSE buf' = Junk /\ UNCHANGED phase
  /\ Return(0)
  /\ UNCHANGED <<present, floating, ata_drive, call, cmd, at, data, err, cache, media, failed>>

(* The data phase of a write ... *)
TransferOut ==
  /\ pc = "drq" /\ timeout # 0 /\ ~ERR /\ DRQ /\ call.op = "write"
  /\ IF phase = "out"
     THEN data' = call.val /\ phase' = "busy" /\ cmd' = "store"
     ELSE UNCHANGED <<data, phase, cmd>>
  /\ pc' = "sent"
  /\ UNCHANGED <<present, floating, ata_drive, call, timeout, buf, code, at, err,
                 cache, media, late, failed>>

(* ... after which the flush command follows at once. *)
Flush ==
  /\ pc = "sent"
  /\ Command("flush", at)
  /\ Wait("flush")
  /\ UNCHANGED <<present, floating, ata_drive, call, buf, code, late, failed>>

WriteReturns_early ==
  /\ pc = "flush"
  /\ Return(0)
  /\ UNCHANGED <<present, floating, ata_drive, call, buf, device, failed>>

WriteReturns ==
  /\ pc = "flush" /\ ~BsyGoesOn /\ ~BsyFails
  /\ Return(0)
  /\ UNCHANGED <<present, floating, ata_drive, call, buf, device, failed>>

-----------------------------------------------------------------------------
(* The disk finishes what it is busy with. *)
DeviceDone ==
  /\ phase = "busy"
  /\ phase' = CASE cmd = "read" -> "in" [] cmd = "write" -> "out" [] OTHER -> "ready"
  /\ data' = IF cmd = "read" THEN cache[at] ELSE data
  /\ cache' = IF cmd = "store" THEN [cache EXCEPT ![at] = data] ELSE cache
  /\ media' = IF cmd = "flush" THEN cache ELSE media
  /\ UNCHANGED <<present, floating, driver, cmd, at, err, late, failed>>

(* Or it fails it. *)
DeviceFails ==
  /\ Errors /\ phase = "busy"
  /\ phase' = "ready" /\ err' = TRUE
  /\ failed' = (failed \/ cmd \in {"write", "store", "flush"})
  /\ UNCHANGED <<present, floating, driver, cmd, at, data, cache, media, late>>

(* The disk writes its cache back when it likes. *)
WriteBack == /\ phase = "ready" /\ media # cache
             /\ media' = cache
             /\ UNCHANGED <<present, floating, driver, phase, cmd, at, data, err,
                            cache, late, failed>>

Driver == \/ ata_init
          \/ PollBsy \/ BsyTimeout \/ Issue \/ AwaitDrq
          \/ PollDrq \/ DrqFails \/ TransferIn \/ TransferOut
          \/ Flush \/ WriteReturns

Next == \/ \E l \in Lbas : ata_read(l)
        \/ \E l \in Lbas, v \in Values : ata_write(l, v)
        \/ Driver
        \/ DeviceDone \/ DeviceFails \/ WriteBack

(* The processor keeps executing a call that was made.  Nothing is assumed *)
(* of the disk.                                                            *)
Spec == Init /\ [][Next]_vars /\ WF_vars(Driver)

-----------------------------------------------------------------------------
(* The waits of ata.c stay within their polls, and only sectors travel. *)
TypeOK ==
  /\ pc \in {"boot", "idle", "ready?", "bsy", "drq", "sent", "flush"}
  /\ timeout \in 0 .. Polls /\ code \in {0, -1}
  /\ phase \in {"ready", "busy", "in", "out"}
  /\ cmd \in {"none", "read", "write", "store", "flush"}
  /\ buf \in Values \cup {Junk} /\ data \in Values \cup {Junk}
  /\ cache \in [Lbas -> Values] /\ media \in [Lbas -> Values]

(* Every call returns, also when the disk never answers or is missing. *)
CallsReturn == pc # "idle" ~> pc = "idle"

Contract == INSTANCE Disk WITH
              sectors  <- cache,
              request  <- IF pc \in {"boot", "idle"} THEN [op |-> "none"] ELSE call,
              buffer   <- buf,
              result   <- IF pc # "idle" \/ call.op = "none" THEN 0 ELSE code,
              doubtful <- failed,
              broken   <- late

(* The driver gives fat.c the disk of module Disk: a read that returns 0   *)
(* has put the sector asked for into the buffer; a write changes the       *)
(* sector asked for and no other, also when it fails, and has stored its   *)
(* data when it returns 0, if the disk reported no error for it.  All this *)
(* until a call was given up while the disk was at it.                     *)
ImplementsDisk == Contract!DiskSpec

Ends(op) == pc # "idle" /\ pc' = "idle" /\ call.op = op /\ code' = 0

(* A write that returns 0 was flushed: ata.c, "Flush cache after each      *)
(* sector write".                                                          *)
WritesAreFlushed == [][Ends("write") => media[call.lba] = call.val]_vars
=============================================================================
