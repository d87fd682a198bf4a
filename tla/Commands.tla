------------------------------ MODULE Commands ------------------------------
(***************************************************************************)
(* The shell's file commands as a user meets them: what a command tells    *)
(* against what fat.c has done to the disk.  The message is a function of  *)
(* the command and of what fat.c returned, so it needs no variable; Report *)
(* is the step that prints it.  A command runs to its end before the next  *)
(* key is read.                                                            *)
(*                                                                         *)
(* At the first boot the disk is one that another system has written: it   *)
(* may hold a file that is larger than file_buf.                           *)
(***************************************************************************)
EXTENDS FatTree

CONSTANTS FileBuf,     \* sectors of file_buf, 64
          Contexts,    \* what users give to create, in Tags
          Volumes      \* disks at the first boot: [fat, sector]

ASSUME CommandsAssumption == FileBuf \in Nat \ {0} /\ Contexts \subseteq Tags /\ MaxSize > 0

(* What another system has written is a tree of directories and files.     *)
ASSUME VolumesAssumption ==
  \A v \in Volumes :
    /\ v.fat \in [1 .. FatCount -> Tables] /\ v.sector \in Contents
    /\ \E D \in DirectorySets : /\ Tree(v.sector, v.fat[1], D, {})
                                /\ Intact(v.sector, v.fat[1], D, {})

VARIABLES mode,        \* "off", "on", or "stopped" with interrupts off
          cmd          \* the command in progress

(* A command with its ghosts: what the file to copy or rename held when it *)
(* was called, the entries named like the one to delete, the faults so far.*)
Command(verb, a, b, file, count, n) ==
  [verb |-> verb, a |-> a, b |-> b, file |-> file, count |-> count, faults |-> n]
NoFile == [code |-> -1, data |-> <<>>]
NoCmd  == Command("none", "", "", NoFile, 0, 0)

shellVars == <<vars, mode, cmd>>

BootInit == /\ \E v \in Volumes : fat = v.fat /\ sector = v.sector
            /\ initialized = FALSE /\ cur = 0 /\ path = <<>>
            /\ job = Idle /\ ret = NoRet /\ faults = 0
            /\ torn = FALSE /\ leaky = FALSE
            /\ mode = "off" /\ cmd = NoCmd

-----------------------------------------------------------------------------
(* kmain mounts the disk and starts the shell, mounted or not. *)
Boot == /\ mode = "off" /\ mode' = "on"
        /\ \E r \in Reads : FatInit(r)
        /\ UNCHANGED cmd

Kind(verb) == IF verb \in {"cd", "mkdir", "rmdir"} THEN "dir" ELSE "file"

(* The entries that a command on a looks for. *)
Named(verb, a) == Matches(fat[1], cur, Kind(verb), a)

Ready == mode = "on" /\ cmd = NoCmd

Start(verb, a, b) ==
  /\ Ready
  /\ cmd' = Command(verb, a, b,
                    IF verb \in {"copy", "ren"} THEN fat_read(a, MaxSize) ELSE NoFile,
                    IF verb \in {"del", "rmdir"} THEN Cardinality(Named(verb, a)) ELSE 0,
                    faults)
  /\ UNCHANGED mode

(* Every operation of fat.c begins with: if (!initialized) return -1. *)
Refused(op, a) ==
  /\ ~initialized
  /\ Finish(op, a, "", 0, -1)
  /\ UNCHANGED <<initialized, disk, cur, path, faults, torn, leaky>>

cmd_del(a) == /\ Start("del", a, "")
              /\ (\E r \in Reads : fat_delete(a, r)) \/ Refused("delete", a)

cmd_ren(a, b) == /\ Start("ren", a, b)
                 /\ (\E o \in Outcomes : fat_rename(a, b, o)) \/ Refused("rename", a)

cmd_mkdir(a) == /\ Start("mkdir", a, "")
                /\ (\E r \in Reads : fat_mkdir(a, r)) \/ Refused("mkdir", a)

cmd_rmdir(a) == /\ Start("rmdir", a, "")
                /\ (\E r \in Reads : fat_rmdir(a, r)) \/ Refused("rmdir", a)

cmd_cd(a) == /\ Start("cd", a, "")
             /\ (\E r \in Reads : fat_cd(a, r)) \/ Refused("cd", a)

cmd_cd_up == /\ Start("cd up", "", "")
             /\ fat_cd_up \/ Refused("cd", "")

(* create ignores what fat_write returns.  Its context fits in a sector.   *)
cmd_create(a, tag) ==
  /\ Start("create", a, "")
  /\ (\E r \in Reads : fat_write(a, tag, 1, r)) \/ Refused("write", a)

(* Without a context create measures a string at address 0 before it looks *)
(* at the pointer: page 0 is not mapped, and isr_handler halts.  (Nothing  *)
(* happens while the processor still remembers the mapping of boot.s.)     *)
CreateBare == /\ Ready
              /\ mode' = "stopped"
              /\ UNCHANGED <<vars, cmd>>

(* The call of fat_read in type and copy; an access that fails, as well as *)
(* a missing file, gives -1.                                               *)
ReadFails(a, r) ==
  /\ r = "error" \/ ~initialized \/ fat_read(a, FileBuf).code = -1
  /\ Finish("read", a, "", 0, -1)
  /\ Count(r)
  /\ UNCHANGED <<initialized, disk, cur, path, torn, leaky>>

ReadTo(a) == /\ initialized /\ fat_read(a, FileBuf).code >= 0
             /\ Finish("read", a, "", 0, 0)
             /\ UNCHANGED <<initialized, disk, cur, path, faults, torn, leaky>>

cmd_type(a) == /\ Start("type", a, "")
               /\ ReadTo(a) \/ \E r \in Reads : ReadFails(a, r)

(* The file's contents are one tag's: FilesIntact, outside its exception. *)
Whole(data) == \E t \in Tags : data = Written(t, Len(data)).data

(* copy reads as much as file_buf holds and writes that. *)
cmd_copy(a, b) ==
  LET file_buf == fat_read(a, FileBuf)
  IN  /\ Start("copy", a, b)
      /\ \/ \E r \in Reads : ReadFails(a, r)
         \/ /\ initialized /\ file_buf.code >= 0 /\ Whole(file_buf.data)
            /\ \E t \in Tags, r \in Reads :
                 /\ file_buf.code > 0 => t = file_buf.data[1].tag
                 /\ fat_write(b, t, file_buf.code, r)

(* A command prints its message and the next one can be typed. *)
Report == /\ mode = "on" /\ cmd # NoCmd /\ job.pc = "idle"
          /\ cmd' = NoCmd /\ ret' = NoRet
          /\ UNCHANGED <<initialized, disk, cur, path, job, faults, torn, leaky, mode>>

Off == /\ mode' = "off"
       /\ initialized' = FALSE /\ cur' = 0 /\ path' = <<>>
       /\ UNCHANGED <<disk, job, ret, faults, torn, leaky, cmd>>

cmd_reboot   == Ready /\ Off
cmd_shutdown == Ready /\ Off
cmd_halt     == Ready /\ mode' = "stopped" /\ UNCHANGED <<vars, cmd>>

(* The user switches a stopped machine off, or power fails. *)
SwitchOff == mode = "stopped" /\ Off
PowerFails == /\ mode = "on" /\ mode' = "off" /\ cmd' = NoCmd
              /\ Crash

Execute == \/ \E a \in FileNames : cmd_del(a) \/ cmd_type(a)
           \/ \E a \in FileNames, t \in Contexts : cmd_create(a, t)
           \/ \E a, b \in FileNames : cmd_ren(a, b) \/ cmd_copy(a, b)
           \/ \E a \in DirNames : cmd_mkdir(a) \/ cmd_rmdir(a) \/ cmd_cd(a)
           \/ cmd_cd_up \/ CreateBare \/ cmd_reboot \/ cmd_shutdown \/ cmd_halt

Session == \/ Boot \/ Execute \/ Report \/ SwitchOff \/ PowerFails
           \/ Step /\ UNCHANGED <<mode, cmd>>

SessionSpec == BootInit /\ [][Session]_shellVars

-----------------------------------------------------------------------------
(* The command is about to print, no access failed while it ran, and no    *)
(* release was cut off before.                                             *)
Telling(verbs) == /\ mode = "on" /\ cmd.verb \in verbs /\ job.pc = "idle"
                  /\ faults = cmd.faults /\ ~torn

(* A message of success is true: after "Copied" the destination reads as   *)
(* the source did, up to the size of file_buf; "Deleted" and "Removed" one *)
(* entry is gone; "Renamed" a file of the new name holds what the one of   *)
(* the old name held, although fat_read may find another of that name      *)
(* first; "Created" there is a directory of the name and it is empty; and  *)
(* type has shown the contents of one file.  This also holds when a crash  *)
(* or an error in an earlier command has left the disk half way.           *)
SuccessIsTrue ==
  /\ Telling({"copy"}) /\ ret.code = 0 /\ split_83(cmd.b) = cmd.b
       => fat_read(cmd.b, MaxSize).data = SubSeq(cmd.file.data, 1, ret.size)
          /\ ret.size = Least({FileBuf, cmd.file.code})
  /\ Telling({"del", "rmdir"}) /\ ret.code = 0
       => Cardinality(Named(cmd.verb, cmd.a)) = cmd.count - 1
  /\ Telling({"ren"}) /\ ret.code = 0 /\ split_83(cmd.b) = cmd.b
       => \E p \in Named("ren", cmd.b) :
            ReadFile(SlotAt(fat[1], cur, p), MaxSize) = cmd.file
  /\ Telling({"mkdir"}) /\ ret.code = 0 /\ split_83(cmd.a) = cmd.a
       => \E p \in Named("mkdir", cmd.a) : ~InUse(SlotAt(fat[1], cur, p).first)
  /\ Telling({"type"}) /\ ret.code = 0 => Whole(fat_read(cmd.a, FileBuf).data)

(* A message of failure is true: "not found" there is no entry of the      *)
(* name; "Copy failed (disk full or error)" and "Failed to create          *)
(* directory" the clusters that were free do not suffice, or there is no   *)
(* place for an entry.                                                     *)
FailureIsTrue ==
  LET free   == {c \in Cluster : fat[1][c] = 0}
      places == {p \in Positions(fat[1], cur) :
                   SlotAt(fat[1], cur, p).kind \in {"end", "del"}}
      needed == IF ret.op = "mkdir" THEN SPC ELSE ret.size
  IN  initialized /\ ret.code = -1 =>
        /\ Telling({"del", "ren", "type", "rmdir", "cd", "copy"}) /\ ret.op # "write"
             => Named(cmd.verb, cmd.a) = {}
        /\ ret.op \in {"write", "mkdir"} /\ Telling({"copy", "mkdir"})
             => Cardinality(free) * SPC < needed \/ places = {}

(* copy keeps its source, also when it fails on a full disk and when       *)
(* source and destination are one file, which fat_write deletes before it  *)
(* writes.  Only two things lose it: a file larger than file_buf is cut,   *)
(* or hidden behind its shorter copy, when the copy gets its name; and a   *)
(* file copied to itself gets the name as split_83 stores it.              *)
CopyKeepsSource ==
  /\ Telling({"copy"}) /\ cmd.file.code >= 0
  /\ split_83(cmd.b) = cmd.a => cmd.file.code <= FileBuf
  /\ cmd.a = cmd.b => split_83(cmd.b) = cmd.a
  => fat_read(cmd.a, MaxSize) = cmd.file

(* The space that mfetch shows as used, the sizes in the root directory,   *)
(* is taken in the table.                                                  *)
UsedSpaceIsTaken ==
  job.pc = "idle" /\ ~torn
    => fat_get_used_kb <= SPC * Cardinality({c \in Cluster : fat[1][c] # 0})
=============================================================================
