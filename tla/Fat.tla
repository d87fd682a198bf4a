-------------------------------- MODULE Fat --------------------------------
(***************************************************************************)
(* The file system of fat.c.  An operation is a sequence of single-sector  *)
(* writes through ata_write; every write is one step, so a crash may fall  *)
(* between any two and each may report an error.  The reads an operation   *)
(* makes before its next write happen in the step of that write.           *)
(*                                                                         *)
(* The file allocation table is an array here: FatTable shows that the     *)
(* packed table of fat.c is one.  Its entries, the clusters of the data    *)
(* area and the range of the search for a free one are the same NC: fat.c  *)
(* computes the range from the size of the table, so this is a volume      *)
(* whose table has no entries to spare.                                    *)
(*                                                                         *)
(* Sizes count sectors, names are compared up to case, and the data of a   *)
(* file is a tag: sector k of a file written with tag t holds the pair of  *)
(* t and k.                                                                *)
(***************************************************************************)
EXTENDS Integers, Sequences, FiniteSets

CONSTANTS NC,         \* clusters of the volume
          SPC,        \* bpb.sectors_per_cluster
          EPS,        \* directory entries in a sector
          RootSecs,   \* root_sectors
          FatCount,   \* bpb.fat_count
          FatSecs,    \* sectors of one copy of the table
          FileNames,  \* the names callers use for files
          DirNames,   \* and for directories
          Split83,    \* the name under which split_83 stores each of them
          Tags,       \* file contents
          MaxSize,    \* bound: sectors of a file
          MaxDepth,   \* bound: length of the current path
          MaxFaults   \* bound: crashes and failing disk accesses in a run

ASSUME GeometryAssumption ==
  /\ NC \in 1 .. 4078 /\ SPC \in Nat \ {0} /\ RootSecs \in Nat \ {0}
  /\ EPS \in Nat /\ EPS >= 2
  /\ FatCount \in Nat \ {0} /\ FatSecs \in Nat \ {0}
  /\ MaxSize \in Nat /\ MaxDepth \in Nat /\ MaxFaults \in Nat

Names == FileNames \cup DirNames

(* A stored name is an 8.3 name, which split_83 stores as it is. *)
ASSUME Split83Assumption ==
  /\ Split83 \in [Names -> Names]
  /\ \A n \in Names : Split83[Split83[n]] = Split83[n]

(* The name under which a new entry is stored. *)
split_83(name) == Split83[name]

Cluster == 2 .. (NC + 1)
EOC     == 4095
Link    == Cluster \cup {0, EOC}
Tables  == [Cluster -> Link]

Sectors == ({0} \X (0 .. RootSecs - 1)) \cup (Cluster \X (0 .. SPC - 1))

(***************************************************************************)
(* A directory entry.  The tag of a file is a ghost: what was written.     *)
(***************************************************************************)
Entry(kind, name, first, size, tag) ==
  [kind |-> kind, name |-> name, first |-> first, size |-> size, tag |-> tag]
EndSlot  == Entry("end", "", 0, 0, "")     \* name[0] = 0x00
DelSlot  == Entry("del", "", 0, 0, "")     \* name[0] = 0xE5
Inert    == Entry("label", "", 0, 0, "")   \* skipped by every search
DotSlot  == Entry("dot", "", 0, 0, "")     \* "." and "..", never followed

Slots == {EndSlot, DelSlot, Inert, DotSlot}
           \cup [kind : {"file"}, name : Names, first : Cluster \cup {0},
                 size : 0 .. MaxSize, tag : Tags]
           \cup [kind : {"dir"}, name : Names, first : Cluster,
                 size : {0}, tag : {""}]

(* A sector holds directory entries or one sector of a file. *)
DirSectors  == [slots : [1 .. EPS -> Slots]]
DataSectors == [tag : Tags, k : 0 .. MaxSize]
Blank == [slots |-> [i \in 1 .. EPS |-> EndSlot]]

-----------------------------------------------------------------------------
VARIABLES initialized,  \* fat_init has succeeded since the last boot
          fat,          \* fat[f]: copy f of the table on the disk
          sector,       \* root directory and data sectors of the disk
          cur,          \* current_dir_cluster
          path,         \* current_path
          job,          \* the operation in progress, between two writes
          ret,          \* the last finished operation and what it returned
          faults,       \* crashes and failed accesses so far
          torn,         \* ghost: a release was cut off before its erase
          leaky         \* ghost: an operation has dropped clusters it took

vars == <<initialized, fat, sector, cur, path, job, ret, faults, torn, leaky>>
disk == <<fat, sector>>

Empty == [c \in Cluster |-> 0]
Idle  == [pc |-> "idle", op |-> "", name |-> "", tag |-> "", size |-> 0,
          buf |-> Empty, w |-> 0, at |-> <<0, 0>>, slot |-> 0,
          k |-> 0, first |-> 0, prev |-> 0]
NoRet == [op |-> "", name |-> "", tag |-> "", size |-> 0, code |-> 0]

Init == /\ initialized = FALSE
        /\ fat = [f \in 1 .. FatCount |-> Empty]
        /\ sector = [x \in Sectors |-> Blank]
        /\ cur = 0 /\ path = <<>>
        /\ job = Idle /\ ret = NoRet
        /\ faults = 0 /\ torn = FALSE /\ leaky = FALSE

-----------------------------------------------------------------------------
Least(S) == CHOOSE x \in S : \A y \in S : x <= y

(* The clusters met by following a chain: position i, then a non-cluster. *)
Follow(buf, c) ==
  LET next == [x \in Link |-> IF x \in Cluster THEN buf[x] ELSE x]
      f[i \in 0 .. NC] == IF i = 0 THEN c ELSE next[f[i - 1]]
  IN  f

ChainOf(buf, c) == {Follow(buf, c)[i] : i \in 0 .. NC} \cap Cluster

Release_first(buf, c) == [d \in Cluster |-> IF d = c THEN 0 ELSE buf[d]]

Release_none(buf, c) == buf

(* The release loop of fat_delete and fat_rmdir. *)
Release(buf, c) == [d \in Cluster |-> IF d \in ChainOf(buf, c) THEN 0 ELSE buf[d]]

fat_find_free_cluster_short(buf) ==
  LET free == {c \in Cluster : c <= NC /\ buf[c] = 0}
  IN  IF free = {} THEN 0 ELSE Least(free)

fat_find_free_cluster(buf) ==
  LET free == {c \in Cluster : buf[c] = 0}
  IN  IF free = {} THEN 0 ELSE Least(free)

(***************************************************************************)
(* read_dir_sector and the scans.  A position counts the entries of a      *)
(* directory through all its sectors.  File data found in a sector of a    *)
(* directory is taken for entries in use that match no name.               *)
(***************************************************************************)
DirSector(buf, dir, s) ==
  IF dir = 0 THEN <<0, s>> ELSE <<Follow(buf, dir)[s \div SPC], s % SPC>>

DirLength(buf, dir) ==
  EPS * IF dir = 0 THEN RootSecs ELSE SPC * Cardinality(ChainOf(buf, dir))

Positions(buf, dir) == 0 .. DirLength(buf, dir) - 1

AsSlots(x) == IF "slots" \in DOMAIN x THEN x.slots ELSE [i \in 1 .. EPS |-> Inert]

SlotAt(buf, dir, p) ==
  AsSlots(sector[DirSector(buf, dir, p \div EPS)])[(p % EPS) + 1]

(* The entries a search looks at: those before the first end mark. *)
Visible(buf, dir) ==
  LET ends == {p \in Positions(buf, dir) : SlotAt(buf, dir, p) = EndSlot}
  IN  IF ends = {} THEN Positions(buf, dir) ELSE 0 .. Least(ends) - 1

Matches(buf, dir, kind, name) ==
  {p \in Visible(buf, dir) :
     LET e == SlotAt(buf, dir, p) IN e.kind = kind /\ e.name = name}

(* What fat_list shows of a directory: neither labels nor "." and "..". *)
Listed(buf, dir) ==
  {p \in Visible(buf, dir) : SlotAt(buf, dir, p).kind \in {"file", "dir"}}

(***************************************************************************)
(* fat_read: the first file of the name, sector by sector until its size   *)
(* or the buffer's is reached or its chain ends.                           *)
(***************************************************************************)
ReadFile(e, buf_size) ==
  LET chain == Follow(fat[1], e.first)
      short == {k \in 0 .. e.size - 1 : chain[k \div SPC] \notin Cluster}
      n     == Least({e.size, buf_size} \cup short)
  IN  [code |-> n,
       data |-> [k \in 1 .. n |->
                   sector[<<chain[(k - 1) \div SPC], (k - 1) % SPC>>]]]

fat_read(name, buf_size) ==
  LET found == Matches(fat[1], cur, "file", name)
  IN  IF found = {} THEN [code |-> -1, data |-> <<>>]
      ELSE ReadFile(SlotAt(fat[1], cur, Least(found)), buf_size)

(* fat_get_used_kb: the sizes of the entries of the root directory. *)
fat_get_used_kb ==
  LET sizes[p \in 0 .. EPS * RootSecs] ==
        IF p = 0 THEN 0
        ELSE sizes[p - 1] + IF p - 1 \in Visible(fat[1], 0)
                            THEN SlotAt(fat[1], 0, p - 1).size ELSE 0
  IN  sizes[EPS * RootSecs]

FreeSlots(buf, dir) ==
  {p \in Positions(buf, dir) : SlotAt(buf, dir, p) \in {EndSlot, DelSlot}}

(* The sector that holds position p with its entry replaced, as written. *)
WithSlot(x, i, new) == [sector EXCEPT ![x] = [slots |-> [AsSlots(@) EXCEPT ![i] = new]]]

-----------------------------------------------------------------------------
(***************************************************************************)
(* Disk faults.  A failed ata_write may have reached the disk or not: the  *)
(* wait for the flush can time out after the data was taken.               *)
(***************************************************************************)
Outcomes == {"ok"} \cup IF faults < MaxFaults THEN {"lost", "late"} ELSE {}
Count(o) == faults' = IF o = "ok" THEN faults ELSE faults + 1
Reads    == {"ok"} \cup IF faults < MaxFaults THEN {"error"} ELSE {}

Finish(op, name, tag, size, code) ==
  /\ job' = Idle
  /\ ret' = [op |-> op, name |-> name, tag |-> tag, size |-> size, code |-> code]

Return(code) == Finish(job.op, job.name, job.tag, job.size, code)

(* One sector of write_fat; copy after copy. *)
FatSectorOf(c) == ((c - 2) * FatSecs) \div NC
PutFatSector(w, buf) ==
  [fat EXCEPT ![(w \div FatSecs) + 1] =
     [c \in Cluster |-> IF FatSectorOf(c) = w % FatSecs THEN buf[c] ELSE @[c]]]
LastFatSector_one == FatSecs - 1
LastFatSector == FatCount * FatSecs - 1

(* fat_delete or fat_rmdir has found its entry at position p. *)
StartRelease(op, name, tag, size, p) ==
  LET x == DirSector(fat[1], cur, p \div EPS)
      e == SlotAt(fat[1], cur, p)
  IN  /\ job' = [Idle EXCEPT !.pc = "free", !.op = op, !.name = name, !.tag = tag,
                             !.size = size, !.buf = Release(fat[1], e.first),
                             !.at = x, !.slot = (p % EPS) + 1]
      /\ UNCHANGED ret

-----------------------------------------------------------------------------
(***************************************************************************)
(* fat_init: only the boot sector is read.  Without it every operation     *)
(* returns -1 at once; the kernel calls it once, so another attempt after  *)
(* an error stands for a reboot, which has nothing else to forget.         *)
(***************************************************************************)
FatInit(r) == /\ job.pc = "idle" /\ ~initialized
              /\ initialized' = (r = "ok")
              /\ Count(r)
              /\ UNCHANGED <<disk, cur, path, job, ret, torn, leaky>>

fat_delete(name, r) ==
  LET found == Matches(fat[1], cur, "file", name)
  IN  /\ job.pc = "idle" /\ initialized
      /\ IF r = "ok" /\ found # {}
         THEN StartRelease("delete", name, "", 0, Least(found))
         ELSE Finish("delete", name, "", 0, -1)
      /\ Count(r)
      /\ UNCHANGED <<initialized, disk, cur, path, torn, leaky>>

fat_rmdir(name, r) ==
  LET found == Matches(fat[1], cur, "dir", name)
  IN  /\ job.pc = "idle" /\ initialized
      /\ IF r = "ok" /\ found # {}
         THEN StartRelease("rmdir", name, "", 0, Least(found))
         ELSE Finish("rmdir", name, "", 0, -1)
      /\ Count(r)
      /\ UNCHANGED <<initialized, disk, cur, path, torn, leaky>>

fat_write_keeping(name, tag, size, r) ==
  /\ job.pc = "idle" /\ initialized
  /\ job' = [Idle EXCEPT !.pc = "load", !.op = "write",
                         !.name = name, !.tag = tag, !.size = size]
  /\ Count(r)
  /\ UNCHANGED <<initialized, disk, cur, path, ret, torn, leaky>>

fat_write_unnamed(name, tag, size, r) ==
  LET found == {p \in Visible(fat[1], cur) : SlotAt(fat[1], cur, p).kind = "file"}
  IN  /\ job.pc = "idle" /\ initialized
      /\ IF r = "ok" /\ found # {}
         THEN StartRelease("write", name, tag, size, Least(found))
         ELSE /\ job' = [Idle EXCEPT !.pc = "load", !.op = "write",
                             !.name = name, !.tag = tag, !.size = size]
              /\ UNCHANGED ret
      /\ Count(r)
      /\ UNCHANGED <<initialized, disk, cur, path, torn, leaky>>

(* fat_write deletes the old file first and ignores what that returns. *)
fat_write(name, tag, size, r) ==
  LET found == Matches(fat[1], cur, "file", name)
  IN  /\ job.pc = "idle" /\ initialized
      /\ IF r = "ok" /\ found # {}
         THEN StartRelease("write", name, tag, size, Least(found))
         ELSE /\ job' = [Idle EXCEPT !.pc = "load", !.op = "write",
                             !.name = name, !.tag = tag, !.size = size]
              /\ UNCHANGED ret
      /\ Count(r)
      /\ UNCHANGED <<initialized, disk, cur, path, torn, leaky>>

fat_mkdir(name, r) ==
  LET c == fat_find_free_cluster(fat[1])
  IN  /\ job.pc = "idle" /\ initialized
      /\ IF r = "error" \/ c = 0 THEN Finish("mkdir", name, "", 0, -1)
         ELSE /\ job' = [Idle EXCEPT !.pc = "putfat", !.op = "mkdir",
                                     !.name = name, !.first = c,
                                     !.buf = [fat[1] EXCEPT ![c] = EOC]]
              /\ UNCHANGED ret
      /\ Count(r)
      /\ UNCHANGED <<initialized, disk, cur, path, torn, leaky>>

(* fat_rename does not look whether the new name is taken. *)
fat_rename(old, new, o) ==
  LET found == Matches(fat[1], cur, "file", old)
      p == Least(found)
      e == SlotAt(fat[1], cur, p)
  IN  /\ job.pc = "idle" /\ initialized
      /\ IF found = {}
         THEN o = "ok" /\ Finish("rename", old, "", 0, -1) /\ UNCHANGED sector
         ELSE /\ Finish("rename", old, "", 0, IF o = "ok" THEN 0 ELSE -1)
              /\ sector' = IF o = "lost" THEN sector
                           ELSE WithSlot(DirSector(fat[1], cur, p \div EPS),
                                         (p % EPS) + 1,
                                         [e EXCEPT !.name = split_83(new)])
      /\ Count(o)
      /\ UNCHANGED <<initialized, fat, cur, path, torn, leaky>>

fat_cd(name, r) ==
  LET found == Matches(fat[1], cur, "dir", name)
  IN  /\ job.pc = "idle" /\ initialized
      /\ Len(path) < MaxDepth
      /\ IF r = "ok" /\ found # {}
         THEN /\ cur' = SlotAt(fat[1], cur, Least(found)).first
              /\ path' = Append(path, name)
              /\ Finish("cd", name, "", 0, 0)
         ELSE /\ Finish("cd", name, "", 0, -1)
              /\ UNCHANGED <<cur, path>>
      /\ Count(r)
      /\ UNCHANGED <<initialized, disk, torn, leaky>>

fat_cd_up_keeping == /\ job.pc = "idle" /\ initialized
                     /\ cur' = 0 /\ UNCHANGED path
                     /\ Finish("cd", "", "", 0, 0)
                     /\ UNCHANGED <<initialized, disk, faults, torn, leaky>>

(* fat_cd("..") goes to the root from everywhere. *)
fat_cd_up == /\ job.pc = "idle" /\ initialized
             /\ cur' = 0 /\ path' = <<>>
             /\ Finish("cd", "", "", 0, 0)
             /\ UNCHANGED <<initialized, disk, faults, torn, leaky>>

-----------------------------------------------------------------------------
(* write_fat of fat_delete and fat_rmdir: an error ends it and is ignored. *)
FreeStep(o) ==
  /\ job.pc = "free"
  /\ fat' = IF o = "lost" THEN fat ELSE PutFatSector(job.w, job.buf)
  /\ job' = IF o # "ok" \/ job.w = LastFatSector
            THEN [job EXCEPT !.pc = "erase"]
            ELSE [job EXCEPT !.w = @ + 1]
  /\ Count(o)
  /\ UNCHANGED <<initialized, sector, cur, path, ret, torn, leaky>>

(* The directory dir has entries.  fat_rmdir does not look; only the ghost *)
(* leaky does.                                                             *)
InUse(dir) == Listed(fat[1], dir) # {}

(* The entry is marked deleted; fat_write then goes on in any case. *)
EraseStep(o) ==
  /\ job.pc = "erase"
  /\ sector' = IF o = "lost" THEN sector ELSE WithSlot(job.at, job.slot, DelSlot)
  /\ IF job.op = "write"
     THEN /\ job' = [Idle EXCEPT !.pc = "load", !.op = "write", !.name = job.name,
                                 !.tag = job.tag, !.size = job.size]
          /\ UNCHANGED ret
     ELSE Return(IF o = "ok" THEN 0 ELSE -1)
  /\ torn' = (torn \/ o = "lost")
  /\ leaky' = (leaky \/ (job.op = "rmdir"
                            /\ InUse(AsSlots(sector[job.at])[job.slot].first)))
  /\ Count(o)
  /\ UNCHANGED <<initialized, fat, cur, path>>

(* fat_write loads the table anew. *)
LoadStep(r) ==
  /\ job.pc = "load"
  /\ IF r = "error" THEN Return(-1)
     ELSE /\ job' = [job EXCEPT !.pc = IF job.size = 0 THEN "putfat" ELSE "data",
                                !.buf = fat[1]]
          /\ UNCHANGED ret
  /\ Count(r)
  /\ UNCHANGED <<initialized, disk, cur, path, torn, leaky>>

(***************************************************************************)
(* Wrong variants of DataStep: the loop runs one sector too far; the new   *)
(* cluster is not marked; the predecessor is not linked; a write error is  *)
(* ignored.                                                                *)
(***************************************************************************)
DataStepIf(o, more, marks, links, stops) ==
  LET fresh == job.k % SPC = 0
      c     == IF fresh THEN fat_find_free_cluster(job.buf) ELSE job.prev
      linked == IF fresh /\ job.prev # 0 /\ links
                THEN [job.buf EXCEPT ![job.prev] = c] ELSE job.buf
      x     == <<c, job.k % SPC>>
  IN  /\ job.pc = "data"
      /\ IF c = 0 THEN o = "ok" /\ Return(-1) /\ UNCHANGED sector
         ELSE /\ sector' = IF o = "lost" THEN sector
                           ELSE [sector EXCEPT ![x] = [tag |-> job.tag, k |-> job.k]]
              /\ IF o # "ok" /\ stops THEN Return(-1)
                 ELSE /\ job' = [job EXCEPT
                           !.buf = IF fresh /\ marks THEN [linked EXCEPT ![c] = EOC]
                                   ELSE linked,
                           !.first = IF @ = 0 THEN c ELSE @,
                           !.prev = c,
                           !.k = @ + 1,
                           !.pc = IF job.k + 1 = job.size + more
                                  THEN "putfat" ELSE "data"]
                      /\ UNCHANGED ret
      /\ Count(o)
      /\ UNCHANGED <<initialized, fat, cur, path, torn, leaky>>
DataStep_overrun(o)  == DataStepIf(o, 1, TRUE, TRUE, TRUE)
DataStep_unmarked(o) == DataStepIf(o, 0, FALSE, TRUE, TRUE)
DataStep_unlinked(o) == DataStepIf(o, 0, TRUE, FALSE, TRUE)
DataStep_careless(o) == DataStepIf(o, 0, TRUE, TRUE, FALSE)

(* One sector of fat_write's loop; a cluster is taken before its first.    *)
DataStep(o) ==
  LET fresh == job.k % SPC = 0
      c     == IF fresh THEN fat_find_free_cluster(job.buf) ELSE job.prev
      linked == IF fresh /\ job.prev # 0
                THEN [job.buf EXCEPT ![job.prev] = c] ELSE job.buf
      x     == <<c, job.k % SPC>>
  IN  /\ job.pc = "data"
      /\ IF c = 0 THEN o = "ok" /\ Return(-1) /\ UNCHANGED sector
         ELSE /\ sector' = IF o = "lost" THEN sector
                           ELSE [sector EXCEPT ![x] = [tag |-> job.tag, k |-> job.k]]
              /\ IF o # "ok" THEN Return(-1)
                 ELSE /\ job' = [job EXCEPT
                           !.buf = IF fresh THEN [linked EXCEPT ![c] = EOC] ELSE @,
                           !.first = IF @ = 0 THEN c ELSE @,
                           !.prev = c,
                           !.k = @ + 1,
                           !.pc = IF job.k + 1 = job.size THEN "putfat" ELSE "data"]
                      /\ UNCHANGED ret
      /\ Count(o)
      /\ UNCHANGED <<initialized, fat, cur, path, torn, leaky>>

PutFatStep_careless(o) ==
  /\ job.pc = "putfat"
  /\ fat' = IF o = "lost" THEN fat ELSE PutFatSector(job.w, job.buf)
  /\ job' = IF job.w < LastFatSector THEN [job EXCEPT !.w = @ + 1]
            ELSE [job EXCEPT !.w = 0,
                    !.pc = IF job.op = "mkdir" THEN "dots" ELSE "entry"]
  /\ Count(o)
  /\ UNCHANGED <<initialized, sector, cur, path, ret, torn, leaky>>

(* write_fat of fat_write and fat_mkdir: an error ends the operation. *)
PutFatStep(o) ==
  /\ job.pc = "putfat"
  /\ fat' = IF o = "lost" THEN fat ELSE PutFatSector(job.w, job.buf)
  /\ IF o # "ok" THEN Return(-1)
     ELSE /\ job' = IF job.w < LastFatSector THEN [job EXCEPT !.w = @ + 1]
                    ELSE [job EXCEPT !.w = 0,
                            !.pc = IF job.op = "mkdir" THEN "dots" ELSE "entry"]
          /\ UNCHANGED ret
  /\ Count(o)
  /\ UNCHANGED <<initialized, sector, cur, path, torn, leaky>>

(* fat_mkdir writes the first sector of the new cluster, and only that.    *)
DotsStep(o) ==
  /\ job.pc = "dots"
  /\ sector' = IF o = "lost" THEN sector
               ELSE [sector EXCEPT ![<<job.first, 0>>] =
                       [Blank EXCEPT !.slots[1] = DotSlot, !.slots[2] = DotSlot]]
  /\ IF o # "ok" THEN Return(-1)
     ELSE job' = [job EXCEPT !.pc = "entry"] /\ UNCHANGED ret
  /\ Count(o)
  /\ UNCHANGED <<initialized, fat, cur, path, torn, leaky>>

(* The new entry goes to the first free place of the current directory.    *)
EntryStep(o) ==
  LET free == FreeSlots(job.buf, cur)
      p    == Least(free)
      new  == IF job.op = "mkdir"
              THEN Entry("dir", split_83(job.name), job.first, 0, "")
              ELSE Entry("file", split_83(job.name), job.first, job.size, job.tag)
  IN  /\ job.pc = "entry"
      /\ IF free = {} THEN o = "ok" /\ Return(-1) /\ UNCHANGED sector
         ELSE /\ sector' = IF o = "lost" THEN sector
                           ELSE WithSlot(DirSector(job.buf, cur, p \div EPS),
                                         (p % EPS) + 1, new)
              /\ Return(IF o = "ok" THEN 0 ELSE -1)
      /\ leaky' = (leaky \/ (free = {} /\ job.first # 0))
      /\ Count(o)
      /\ UNCHANGED <<initialized, fat, cur, path, torn>>

(* A read error while an entry is looked for ends fat_write and fat_mkdir. *)
EntryReadError == /\ job.pc = "entry" /\ faults < MaxFaults
                  /\ Return(-1)
                  /\ faults' = faults + 1
                  /\ UNCHANGED <<initialized, disk, cur, path, torn, leaky>>

(* Power is lost: memory is gone, the disk stays as it is. *)
Crash == /\ faults < MaxFaults
         /\ initialized' = FALSE /\ cur' = 0 /\ path' = <<>>
         /\ job' = Idle /\ ret' = NoRet
         /\ torn' = (torn \/ job.pc = "erase" \/ (job.pc = "free" /\ job.w > 0))
         /\ faults' = faults + 1
         /\ UNCHANGED <<disk, leaky>>

Call == \/ \E r \in Reads : FatInit(r)
        \/ \E n \in FileNames, r \in Reads : fat_delete(n, r)
        \/ \E n \in DirNames, r \in Reads : fat_rmdir(n, r)
        \/ \E n \in FileNames, t \in Tags, z \in 0 .. MaxSize, r \in Reads :
             fat_write(n, t, z, r)
        \/ \E n \in DirNames, r \in Reads : fat_mkdir(n, r)
        \/ \E n, m \in FileNames, o \in Outcomes : fat_rename(n, m, o)
        \/ \E n \in DirNames, r \in Reads : fat_cd(n, r)
        \/ fat_cd_up

Step == \/ \E o \in Outcomes : FreeStep(o)
        \/ \E o \in Outcomes : EraseStep(o)
        \/ \E r \in Reads : LoadStep(r)
        \/ \E o \in Outcomes : DataStep(o)
        \/ \E o \in Outcomes : PutFatStep(o)
        \/ \E o \in Outcomes : DotsStep(o)
        \/ \E o \in Outcomes : EntryStep(o)
        \/ EntryReadError

Next == Call \/ Step \/ Crash

Spec == Init /\ [][Next]_vars

-----------------------------------------------------------------------------
(* The disk holds tables, entries and file sectors of their types, and the *)
(* operation of fat.c in progress stays within its bounds.                 *)
TypeOK ==
  /\ initialized \in BOOLEAN /\ torn \in BOOLEAN /\ leaky \in BOOLEAN
  /\ fat \in [1 .. FatCount -> Tables]
  /\ DOMAIN sector = Sectors
  /\ \A x \in Sectors : sector[x] \in DataSectors \/ sector[x] \in DirSectors
  /\ cur \in Cluster \cup {0}
  /\ Len(path) <= MaxDepth /\ \A i \in DOMAIN path : path[i] \in Names
  /\ job.pc \in {"idle", "free", "erase", "load", "data", "putfat", "dots", "entry"}
  /\ job.buf \in Tables
  /\ {job.first, job.prev} \subseteq Cluster \cup {0}
  /\ job.k \in 0 .. MaxSize /\ job.w \in 0 .. LastFatSector
  /\ ret.code \in {0, -1}
  /\ faults \in 0 .. MaxFaults

(* The directories of the tree, and the entries a user can reach. *)
Dirs ==
  LET kids(d) == {SlotAt(fat[1], d, p).first :
                    p \in {q \in Visible(fat[1], d) : SlotAt(fat[1], d, q).kind = "dir"}}
      r[i \in 0 .. NC] == IF i = 0 THEN {0}
                          ELSE r[i - 1] \cup UNION {kids(d) : d \in r[i - 1]}
  IN  r[NC]

Live == UNION {{<<d, p>> : p \in Listed(fat[1], d)} : d \in Dirs}

At(a)    == SlotAt(fat[1], a[1], a[2])
Owned(a) == ChainOf(fat[1], At(a).first)

(* The entry whose chain the operation in progress is releasing. *)
Dying(a) == /\ job.pc \in {"free", "erase"}
            /\ job.at = DirSector(fat[1], a[1], a[2] \div EPS)
            /\ job.slot = (a[2] % EPS) + 1

(* No cluster belongs to two files or directories, and every cluster of    *)
(* one is marked taken, so that fat_find_free_cluster never hands it out,  *)
(* as long as no release was cut off between write_fat and the erase.      *)
ChainsOwned ==
  ~torn => \A a \in Live :
              /\ \A b \in Live \ {a} : Owned(a) \cap Owned(b) = {}
              /\ Dying(a) \/ \A c \in Owned(a) : fat[1][c] # 0

(* Every file holds what was last written to it, whatever operations on    *)
(* other names did since, and in the middle of them.                       *)
FilesIntact ==
  ~torn => \A a \in Live :
             At(a).kind = "file" /\ ~Dying(a) =>
               \A k \in 0 .. At(a).size - 1 :
                 LET c == Follow(fat[1], At(a).first)[k \div SPC]
                 IN  c \in Cluster /\ sector[<<c, k % SPC>>] = [tag |-> At(a).tag, k |-> k]

(* What fat_read returns for a file written with these arguments. *)
Written(tag, size) ==
  [code |-> size, data |-> [k \in 1 .. size |-> [tag |-> tag, k |-> k - 1]]]

(* After fat_write has returned 0 for an 8.3 name, fat_read of that name   *)
(* gives the new contents, although other files of the name may exist.     *)
WriteReadsBack ==
  /\ faults = 0 /\ job.pc = "idle" /\ ret.op = "write" /\ ret.code = 0
  /\ split_83(ret.name) = ret.name
  => fat_read(ret.name, MaxSize) = Written(ret.tag, ret.size)

(* When no access failed, every taken cluster belongs to an entry between  *)
(* operations, unless fat_rmdir removed a directory in use or the current  *)
(* directory had no place for the entry of clusters already taken.         *)
NoLostClusters ==
  faults = 0 /\ job.pc = "idle" /\ ~leaky
    => {c \in Cluster : fat[1][c] # 0} \subseteq UNION {Owned(a) : a \in Live}

Acyclic(buf) == \A S \in SUBSET Cluster : S = {} \/ \E c \in S : buf[c] \notin S

(* No chain in any copy of the table, nor in the one in memory, has a      *)
(* cycle, even after crashes and failed writes: the loops of fat_read and  *)
(* fat_delete end.                                                         *)
NoCycles == Acyclic(job.buf) /\ \A f \in 1 .. FatCount : Acyclic(fat[f])

(* The current path names the current directory. *)
PathResolves ==
  LET step(d, n) == LET found == Matches(fat[1], d, "dir", n)
                    IN  IF found = {} THEN -1 ELSE SlotAt(fat[1], d, Least(found)).first
      r[i \in 0 .. Len(path)] == IF i = 0 THEN 0
                                 ELSE IF r[i - 1] = -1 THEN -1
                                 ELSE step(r[i - 1], path[i])
  IN  ~torn => r[Len(path)] = cur

(* Between operations the copies of the table agree. *)
CopiesAgree ==
  faults = 0 /\ job.pc = "idle" => \A f \in 1 .. FatCount : fat[f] = fat[1]
=============================================================================
