-------------------------------- MODULE Disk --------------------------------
(***************************************************************************)
(* What fat.c may rely on when it calls ata_read and ata_write: an array   *)
(* of sectors and one request at a time.  A request is answered with 0 or  *)
(* -1.  The driver cannot promise more than the disk: once it has given up *)
(* on a command that the disk goes on with, anything may happen, and a     *)
(* write that the disk failed silently may be answered with 0.             *)
(***************************************************************************)
EXTENDS Integers

CONSTANTS Lbas, Values

None == [op |-> "none"]
Junk == "junk"

VARIABLES sectors,   \* what a read returns
          request,   \* the call in progress: [op, lba, val] or None
          buffer,    \* the caller's buffer
          result,    \* of the last call, 0 while there is none
          doubtful,  \* the disk failed the write in progress
          broken     \* a call was given up while the disk was at it

dvars == <<sectors, request, buffer, result, doubtful, broken>>

DiskInit == /\ sectors \in [Lbas -> Values]
            /\ request = None /\ buffer = Junk /\ result = 0
            /\ doubtful = FALSE /\ broken = FALSE

Ask == /\ request = None
       /\ request' \in [op : {"read", "write"}, lba : Lbas, val : Values \cup {Junk}]
       /\ buffer' = Junk /\ result' = 0 /\ doubtful' = FALSE
       /\ UNCHANGED <<sectors, broken>>

Writing == request # None /\ request.op = "write"

(* The sector asked for takes its new contents, and no other. *)
Take == /\ Writing
        /\ sectors' = [sectors EXCEPT ![request.lba] = request.val]
        /\ UNCHANGED <<request, buffer, result, doubtful, broken>>

Fail == /\ Writing
        /\ doubtful' = TRUE
        /\ UNCHANGED <<sectors, request, buffer, result, broken>>

Done == /\ request # None
        /\ IF request.op = "read" THEN buffer' = sectors[request.lba]
           ELSE /\ doubtful \/ sectors[request.lba] = request.val
                /\ UNCHANGED buffer
        /\ request' = None /\ result' = 0
        /\ UNCHANGED <<sectors, doubtful, broken>>

(* A failed read leaves the buffer; a failed write may have been taken. *)
GiveUp == /\ request # None
          /\ request' = None /\ result' = -1
          /\ broken' \in BOOLEAN
          /\ UNCHANGED <<sectors, buffer, doubtful>>

Broken == broken /\ broken'

DiskNext == Ask \/ Take \/ Fail \/ Done \/ GiveUp \/ Broken

DiskSpec == DiskInit /\ [][DiskNext]_dvars
=============================================================================
