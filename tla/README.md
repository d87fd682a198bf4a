# MasterOS in TLA+

MasterOS is a 32-bit hobby kernel: it boots from GRUB, sets up paging, finds an
ATA disk, mounts a FAT volume, asks for a name and a password and runs a shell
inside the keyboard interrupt. This directory holds TLA+ models of the parts of
it that keep state, the TLC runs that check them on small instances, and TLAPS
proofs of what holds for every value of the constants. Paths are relative to
`src/masterOS/src/` unless they start with `src/`.

`PROJECT.json` lists the components, the runs, the source lines behind every
definition, the disagreements found, and the hazards the properties are for.

## The system

| Part | State | Operations | Called by |
|---|---|---|---|
| FAT table (`drivers/fs/fat.c`) | `fat_buf`, one per operation | read and set a 12-bit entry, find a free cluster, load, store | file operations |
| FAT file system (`fat.c`) | BPB, `initialized`, current directory and path; on disk: table copies, root directory, clusters | `fat_init/read/list/write/delete/rename/mkdir/rmdir/cd` | shell, `exec_run` |
| ATA driver (`drivers/fs/ata.c`) | `ata_drive` | `ata_init/read/write`, polling with a timeout | FAT |
| Page frames, paging (`memory/memory.c`) | `PMB`, frame range, page directory and tables | `pmm_init`, `pmmAllocPageFrame`, `initMemory`, `memMapPage`, `inval` | `kmain`, heap, `exec_run` |
| Heap (`memory/kmalloc.c`) | `heapStart`, `heapSize` | `kmallocInit`, `changeHeapSize` | `kmain` |
| Loader (`drivers/device/exec.c`) | `program_buf`, memory at `LOAD_ADDRESS` | `exec_run` | shell |
| Interrupts (`interrupts/`) | IDT, `irq_routines` | `initIDT`, `irq_handler`, `isr_handler` | processor |
| Keyboard (`drivers/device/keyboard.c`) | `capsOn`, `capsLock`, `char_handler` | `initKeyb`, `keybHandler` | `irq_handler` |
| Login (`login.c`) | `input_buf`, `input_len`, `input_done`, attempts | `login`, two character handlers | `kmain`, keyboard |
| Screen (`drivers/vga/vga.c`) | `column`, `line`, video memory | `print`, `newLine`, `scrollUp`, `Reset` | everything |
| Shell (`shell.c`) | line, history, prompt, `file_buf` | `shell_handle_char`, commands | keyboard |
| Timer (`timer.c`) | `ticks` | `initTimer`, `onIrq0`, `GUS` | `irq_handler`, shell |
| Real-time clock (`rtc.c`) | none of its own | `rtc_read` | shell |
| Power (`power.c`) | none | `reboot`, `shutdown` | shell |
| Speaker, GDT, VGA modes, CPU id, printf | none | | `kmain`, shell |

There is one thread of control and one interrupt handler that preempts it.
Concurrency is therefore between `kmain`/`login` and the keyboard interrupt,
between the interrupts of timer and keyboard, between the driver and the disk,
between `rtc_read` and the clock's registers, and between the kernel and the
processor's TLB. Every command runs inside the keyboard interrupt. What makes the code hard to test is the rest of the list in
`PROJECT.json`: power lost or a write failing between two sector writes, a disk
that answers after the driver gave up, keys that arrive at the wrong moment,
and arithmetic at the ends of tables, buffers and bitmaps.

What makes each part correct:

- table: reading and writing 12-bit entries that share bytes behaves as an
  array, links stay inside it, a chain takes free clusters only;
- file system: no cluster has two owners, a file holds what was written to it
  whatever happens to other files, chains do not loop, clusters are not lost,
  the path names the current directory, copies of the table agree;
- ATA: a call returns, 0 means what `ata.h` says, and only the sector asked for
  changes;
- commands: what the user is told is true, `copy` keeps its source;
- clocks: ticks are counted once, the time shown is one the clock had;
- memory: frames handed out exist, pages translate to what they were mapped to;
- input: no key is lost, the line stays in its buffer and ends there, login
  stops after its attempts, each reader gets its own keys;
- screen and shell: stores hit the screen, the line on it is the line in the
  buffer, the history is the latest commands.

## Modules

| Module | Models | Checked by | Proved in |
|---|---|---|---|
| `FatArray` | what the driver needs from a table (abstract) | | |
| `FatTable` | the packed table and the two loops over it | `MCFatTable` | `FatTable_proofs` |
| `Fat` | the file system on a disk that may fail | `MCFat` | `Fat_proofs` |
| `FatTree` (extends `Fat`) | what a volume looks like between two operations | `MCCommands` | `Fat_proofs` |
| `PageFrames` | the frame allocator | | `Memory_proofs` |
| `Memory` (extends `PageFrames`) | paging, heap, loader, TLB | `MCMemory` | `Memory_proofs` |
| `Disk` | what `fat.c` may rely on of the driver (abstract) | | |
| `Ata` | driver and disk, implementing `Disk` | `MCAta` | `Ata_proofs` |
| `Commands` (extends `Fat`) | the file commands, boots and power | `MCCommands` | `Commands_proofs` |
| `Clock` | timer, interrupt controller, `rtc_read`, `time` | `MCClock` | `Clock_proofs` |
| `Input` | PIC and controller, `irq_handler`, keyboard, login | `MCInput` | `Input_proofs` |
| `Vga` | `print` as a function on screens | | `Shell_proofs` |
| `Shell` (extends `Vga`) | first prompt, line editor, history, prompt name | `MCShell` | `Shell_proofs` |

**FatTable.** `fat_buf` is a function from byte offsets to bytes, with the two
bytes behind the buffer that the search reads. `AllocCluster` is one turn of the
loop in `fat_write` (find, link the predecessor, mark the end), `FreeCluster`
one turn of the release loop in `fat_delete` and `fat_rmdir`. `OddEntry` to
`EvenHigh` are the masks and shifts of the code. `FatArray` is the promise: an
array with one entry per cluster. `RefinesArray` says that the packed table
read entry by entry implements it.

**Fat.** Uses that array. An operation is a sequence of sector writes, and each
write is a step with three outcomes: done, failed without effect, failed after
it took effect. The operation in progress is the record `job`; its `pc` is the
place in the code. `fat_delete`, `fat_rmdir`, `fat_write`, `fat_mkdir`,
`fat_rename`, `fat_cd` start an operation; `FreeStep` (write_fat of a release,
whose result the code ignores), `EraseStep`, `LoadStep`, `DataStep`,
`PutFatStep`, `DotsStep` and `EntryStep` are its writes; `Crash` may fall
between any two. `fat_read` and `fat_list` change nothing and are operators;
the properties use them as the observer. Sizes count sectors, file contents are
tags, names are compared up to case, and `split_83` is a constant function that
may map a long name to a short one. Two ghosts mark the windows in which the
code is known to break its promises, so that the properties show there are no
others: `torn` (a release cut off before its erase) and `leaky` (clusters
dropped because the directory was full or a removed directory had entries).
The sector in which an entry is erased is where the search found it; the code
computes it again from the table after the release, which differs only when
the current directory itself is cross-linked after a torn release.

**PageFrames, Memory.** Bytes of `PMB` are sets of bits. The order of calls is
that of `kmain`, then `exec_run` any number of times. `inval` invalidates
nothing, because the operand of its `invlpg` is its own argument on the stack.
The TLB is external: it may remember any translation a walk gives and forget it
at will. A page table lives in a frame, so frames handed out twice show.

**Ata.** Driver and disk are separate processes. Each poll is a step; the disk
finishes, or fails, when it likes. It accepts a command only when it is ready,
and a flush only then. A missing drive answers with a constant status byte.
`Disk` is the contract: sectors, one request at a time, answered with 0 or -1.
`ImplementsDisk` maps the disk's cache to the sectors and the call in progress
to the request. The three outcomes that `Fat` gives to a sector write (done,
failed without effect, failed after it took effect) are those of `Disk` as long
as it is neither `broken` (the driver gave up while the disk went on) nor
`doubtful` (the disk failed a write after the data phase).

**Commands.** A command is a call of an operation of `Fat` followed by its
message. The message is a function of the command and of what the operation
returned, so the properties compare those two with the disk at the moment
before `Report`. `Boot`, `cmd_reboot`, `cmd_shutdown`, `cmd_halt` and the power
switch frame the sessions; the disk survives them. Every operation of `fat.c`
refuses to work when no disk was mounted (`Refused`). `copy` reads no more than
`file_buf` holds. The volume at the first boot was written by another system
and holds a file that is larger than that.

**Clock.** Timer, controller and real-time clock are external. The controller
latches one request per line, prefers line 0 and serves one at a time. The
real-time clock announces an update (UIP), takes the next time and then changes
its registers one by one in any order; the processor may be arbitrarily slow
between two reads. `rtc_read` is split into the wait for UIP, the reads and the
comparison. Registers are in BCD or binary and on 12 or 24 hours, and `Decoded`
undoes both as the code does. `Pulse` has the one assumption on time: an
interrupt that nothing keeps away is served before the next pulse. So pulses
are lost only while a command runs, and the ghost `lost` counts those.

**Input.** The keyboard controller holds one byte and raises an edge when it
loads it; the PIC latches the edge and waits for the end of interrupt.
`keybHandler` is split at its two reads of port 0x60, so that the next byte may
arrive between them. `login` is split where an interrupt makes a difference:
before the loop, in it, and at the comparison. The ghosts `entered` and
`overtyped` remember the line at Enter and whether a key changed it since.

**Vga, Shell.** `print` is a function from screens to screens, character by
character. What a command prints is an input of `Enter`, except for `history`,
which prints what was saved, and `cls`. Keys call `shell_handle_char` inside
the interrupt, so the actions do not overlap, with one exception: `kmain` hands
the keyboard to the shell (`kernel.c:64`) before it prints the first prompt.
That prompt is therefore printed in steps of two per character, with the split
that the build at `-O2` has: the cell is computed from `line` and `column`
(`BootPlace`), then stored to and `column` incremented in memory (`BootStore`).
`EarlyKeys` bounds the keys that fit in between. `PromptAssumption` says that
prompts are text and that the first one (`FirstName`, which only `setprompt`
changes) and these keys do not fill a row (a typed tab counts four cells); on
the screen of 80 columns that leaves room for dozens of keys. Prompts that
`setprompt` makes later may be of any length.
`TextAssumption` says that a command prints nothing or ends with a line end, as
every command of `shell.c` does; a program that `run` starts might not, but
nobody types `run` and a name before the first prompt is printed.

## Runs

`tlc -workers 2 -config X.cfg M` in this directory. States are distinct states.

| Run | Instance | Shows |
|---|---|---|
| `table` | 9-byte table, clusters 2 to 7, any of 2 and 3 in use; 53,280 states | links stay in the table, the table implements the array |
| `files` | 2 clusters of 2 sectors, 2 copies of a table of 2 sectors, 2 directory entries, 2 names of which one is cut to the other, one content, one fault; 370,523 | no cluster shared, contents survive whatever happens to other files, a write reads back, no cluster lost, no cycles, copies agree |
| `tree` | 2 clusters, 3 entries per directory, one file and one directory name, 2 contents, depth 2, one fault; 1,040,401 | ownership, contents, only the two known leaks, the path resolves |
| `paging` | real addresses, 528-frame bitmap, 520 to 536 frames; 3,728 | frames in range, pages translate, heap apart from its table |
| `disk_driver` | 2 sectors, 2 contents, 2 polls, failing or missing disk; 271,600 | calls return; the driver implements `Disk` until a call gave up |
| `login` | 3-byte buffer, 2 attempts, a letter, Enter, backspace and caps lock; 1,173,160 | the invariants of `Input`, the line compared is the line entered, every byte after `initKeyb` is read |
| `line_editing` | 4x2 screen, lines longer than a row, 2 history rows, 2 letters, 3 prompt names of which one is longer than a row, a key before the first prompt is finished, commands that print tabs, clear or list; 333,557 | stores hit the screen, the screen shows the line, the history is the latest commands, when full too |
| `commands` | 3 clusters, 3 entries per directory, 2 file names, one directory, a file of 2 sectors and a buffer of one, one fault; about 1,007,350 | messages are true, `copy` keeps its source, the used space is taken |
| `clock` | 3 sequences of up to 3 times (end of a month, noon, an hour after midnight), all formats, offsets 3 and 24, 2 pulses; 512,104 | ticks are counted, the time shown is true, waiting interrupts are served |

The bounds are the smallest at which the cases of interest happen: a volume and
a directory that fill up, a file of two clusters, a cluster with more than one
sector, a table in more than one sector, an odd and an even entry in one byte,
a wait that ends with its last poll, a line that fills its buffer and one that is
longer than a row. One fault (a crash, a failed read or a failed write) per run
is what the properties of `Fat` are stated for. Symmetry is used on file
contents, which the code only copies. The runs of `Fat` have a view: no action
reads `ret`, so two states that differ only in what the last operation returned
are one, except for the part that `WriteReadsBack` and `TypeOK` read. The run of
`Commands` has a view that hides the sectors of free clusters, which no
operation reads before it writes them. (A cluster that a fault in `mkdir` left
marked but unwritten keeps its old sector, so that the number of states depends
a little on the order of the search; nothing reads that sector either.) It does
not go on from states with `torn`, of which its invariants say nothing.
`line_editing` treats its two letters as symmetric.

Deadlock is checked except in the runs of `Input`, where the kernel legally
waits for a key, and of `Clock`, where it may have halted.

Three runs are expected to be violated. Each checks what a comment or a document
of the repository says, against what the code does:

| Run | Statement | Counterexample |
|---|---|---|
| `fat16_volume` | the driver takes free clusters of its volume | the makefile's disk is FAT16, read as 12-bit entries |
| `early_flush` | every write is flushed | flush issued while BSY (`ata.c:132`) |
| `early_key` | a key whose interrupt is pending is read: `kmain` reports `Keyboard [DONE]` after `initKeyb` (`kernel.c:59`) | a key between `initIDT` and `initKeyb`: `irq_handler` acknowledges it (`idt.c:186`) and nobody reads port 0x60; `login` then waits for a name that cannot be typed |

Other behaviours of the code that the properties have to step around, each
visible in the model as a ghost, a condition or an assumption:

- `memory.c:126` assigns `PMB[b] = (1 << i)` where it means to set the bit, so
  that an allocation forgets the other frames of the byte and the third one
  returns the first frame: `HeapSparesItsTable` is about the two of the boot;
- `shell.c:175` starts at `history_count`, so that the eleventh command moves an
  entry to `history[10]`, behind the array; `Moved` has that row;
- `shell.c:384` cuts a file of more than 32 KB when it is copied, also when it
  is copied to itself: `SuccessIsTrue` and `CopyKeepsSource` say so;
- `shell.c:311` ignores what `fat_write` returns: `create` fails silently;
- `shell.c:339` and its like report every error as a missing file: a command
  during which an access failed is left out of `SuccessIsTrue` and
  `FailureIsTrue`;
- `shell.c:303` and `shell.c:405` read through a null pointer when `create` has
  no context and `time` no argument: the machine halts (`CreateBare`,
  `isr_handler`), or goes on with some number if the processor still remembers
  the mapping of `boot.s`;
- `shell.c:407` wraps the hour once and leaves the date: `TimeShownIsTrue` is
  about offsets up to 24 and the date at offset 0;
- `kernel.c:64`: a key before the first prompt is finished mixes with it on the
  screen until the next Enter: ghost `mixed`;
- `fat.c:336` searches 6144 clusters but a link has 12 bits: the assumption
  `TwelveBits` of the proofs, and the small table of run `table`;
- `fat.c:336` takes the bound of the search from the size of the table, not of
  the volume. `NC` is one number for the clusters of the data area, the entries
  of the table and the bound: volumes whose table has no entries to spare. On
  others the code may take a cluster behind the data area, or one whose entry
  lies behind the last sector that `write_fat` stores (`fat.c:111`); that is not
  modelled, and no property is about it;
- `fat.c:69` stores a name cut to 8.3, while searches compare in full:
  `WriteReadsBack` is about names that `split_83` keeps;
- `fat.c:310` renames onto a name in use, so that two files of one name can
  exist: `WriteReadsBack` still holds, because `fat_write` deletes the first of
  them and puts the new entry at its place or before it;
- `fat.c:269` writes the freed table before the entry is erased: ghost `torn`;
- `fat.c:383` and `fat.c:505` lose clusters: ghost `leaky`;
- `memory.c:28` invalidates the wrong page: `MappedPagesTranslate` holds because
  every page below 4 MB is mapped to its own address;
- `exec.c:34` calls the load address after an empty file too: `image` then is
  still the previous program;
- `ata.c:97` leaves a command in progress when it gives up: ghost `late`;
- `ata.c:133` does not look at ERR after the data phase: ghost `failed`;
- `login.c:48` leaves the handler installed between Enter and the comparison:
  ghost `overtyped`;
- a typed tab (`keyboard.c:110` forwards it) is one character of the line and
  several cells of the screen, so that backspace and the screen disagree:
  tabs are printed by commands in `line_editing`, and not typed.

## Fairness

`Ata` assumes weak fairness of the driver only: the processor keeps executing a
call. Nothing is assumed of the disk. `Input` assumes that a pending interrupt
is taken and its handler runs on (weak fairness of the interrupt path), and that
the main program goes on unless interrupts keep it from that: nothing between
`initIDT` and `login` waits without a bound. Nothing is assumed of the keyboard. `Clock` assumes weak fairness of the processor, which goes on
with what it executes, and of the update of the real-time clock: an update that
it announced ends, as its data sheet says. It needs both, because `rtc_read`
waits for UIP without a bound. Nothing is assumed of the timer and of the
beginning of updates. All other modules state safety only.

## Proofs

`tlapm M.tla` checks a module. Every invariant was first checked by TLC on the
instance of the component's run. What is proved, for all values of the constants:

| Module | Theorem | Property |
|---|---|---|
| `FatTable_proofs` | `LinksStayInTable`, `TableStaysTyped`, `TableRefinesArray` | `LinksInTable`, `TypeOK`, `RefinesArray` |
| `Fat_proofs` | `DiskStaysTyped`, `ChainsEnd`, `CopiesStayEqual` | `TypeOK`, `NoCycles`, `CopiesAgree` |
| `Fat_proofs`, for volumes with `DirectoriesCleared` | `ClustersOwned`, `FilesStayIntact`, `PathStaysResolved`, `WritesReadBack`, `NoClusterLost` | `ChainsOwned`, `FilesIntact`, `PathResolves`, `WriteReadsBack`, `NoLostClusters` |
| `Commands_proofs`, for volumes with `DirectoriesCleared` | `UsedSpaceTaken`, `SuccessHolds`, `FailureHolds`, `SourceStays` | `UsedSpaceIsTaken`, `SuccessIsTrue`, `FailureIsTrue`, `CopyKeepsSource` |
| `Ata_proofs` | `WaitsStayBounded`, `DriverImplementsDisk` | `TypeOK`, `ImplementsDisk` |
| `Memory_proofs` | `FramesStayInRange`, `TablesStayTyped`, `MappingsHold`, `HeapApartFromItsTable` | `FramesInRange`, `TypeOK`, `MappedPagesTranslate`, `HeapSparesItsTable` |
| `Input_proofs` | `LoginComparesInBuffer`, `InputStaysTyped`, `LoginStops`, `ReadersApart`, `NoInterruptLost`, `EnteredLineCompared` | `CompareEnds`, `TypeOK`, `ThreeStrikes`, `ReaderIsAsking`, `KeyboardReady`, `ComparesEnteredLine` |
| `Clock_proofs` | `OneInterruptAtATime`, `UptimeTrue`, `TimeIsTrue` | `TypeOK`, `UptimeIsReal`, `TimeShownIsTrue` |
| `Shell_proofs` | `StoresHitScreen`, `LineIsOnScreen`, `HistoryTrue` | `TypeOK`, `ScreenShowsLine`, `HistoryIsRecent` |

The arguments, and what they assume of the constants:

- `FatTable_proofs` assumes sizes that are naturals, initial tables whose links
  are in range, and `TwelveBits`: at most 4078 clusters, so that every cluster
  number is one that the loops take for a cluster (a table of up to 11 sectors
  of 512 bytes). The invariant is `TypeOK /\ LinksInTable /\ TailMarked`:
  without the end mark on the tail the search could return the tail itself, and
  the new link would then point to itself. The lemmas are about bytes: an entry
  written reads back (`SetReadsBack`), and every other one is kept, the one in
  the shared byte included (`SetKeepsOthers`).
- `Fat_proofs` assumes `GeometryAssumption`, where `NC` is at most 4078 for the
  same reason (with more clusters the end mark 4095 would be a cluster), and that
  8.3 names are stored as they are. Nothing is assumed of the number of crashes
  and failed accesses. `DiskStaysTyped` needs `Phases`, what the operation in
  progress knows at each of its writes. `ChainsEnd` rests on `Climbing`: every
  link, in memory and in each copy on the disk, is 0, the end mark or larger than
  its own cluster. `fat_write` keeps it because it takes the least free cluster
  and everything up to the last one it took is still taken. The condition is one
  on single entries, so that it holds of any mixture of old and new sectors that
  a crash or a failed write leaves (`UpwardMixture`), and a chain that climbs
  ends (`UpwardEnds`). `Acyclic` alone is not inductive: two acyclic tables can
  be mixed into a cycle. `CopiesStayEqual` follows how far `write_fat` has come:
  before write `w` every entry that an earlier write carries has arrived.
- The second half of `Fat_proofs` is about the tree of directories.  It assumes
  `DirectoriesCleared`: a cluster is one sector, or there are no directories but
  the root. Without it the five properties are false: `fat_mkdir` clears the
  first sector of a directory only (`fat.c:414`), and the old contents of the
  others are read as entries. Their invariant `Keeping` (theorem `VolumeKept`)
  says that, unless a release was cut off, there is a set `D` of directories
  with the root and the current one in it, such that:
  - `Sound(D)`: directory entries of `D` lead into `D`, no two entries share a
    cluster (`Apart`), the clusters of every entry are taken, every file holds
    its contents (`Intact`), and the operation in progress keeps to its part. A
    release has found its entry and frees only clusters of that entry
    (`Releases`); the chain that `fat_write` builds is made of clusters that
    are free on the disk (`Grows`) and holds what was written so far (`Fills`);
    what `write_fat` brings to the disk shares nothing with the tree (`Adds`).
    While a release is between its first write and its erase, its entry is
    exempt (`Gone`);
  - `Trail(D)`: the current path is a sequence of different directories of `D`;
  - `EndsLast(D)`, `Rooted(D)`: a search sees every entry in use, and users reach
    every directory of `D`, unless `fat_rmdir` has dropped some;
  - `Taken(D)`: without faults every taken cluster belongs to an entry, or is
    about to;
  - `NameLeads`, `ReadsNew`: other files of the name that is written come after
    a place that is free or is about to be, so that the new entry precedes them.

  `D` is a witness, not a variable: `After(D)` is the set after a step, and
  `SoundNext` shows for every step that `Sound` goes from `D` to `After(D)` and
  that the step has one of a few `Effects` on the entries, from which the lemmas
  for the other parts follow. The properties are stated of what users reach;
  `KidsInTree` and `AllReached` relate that to `D`. TLC checked the invariant on
  the instances of `files` and `tree` before it was proved. None of it holds any
  more after a crash or a lost write between `write_fat` and the erase of the
  entry (`torn`).
- `Commands_proofs` goes on from there, also for `DirectoriesCleared`: whatever
  the shell tells is true for every number of clusters, directories, names,
  buffer sizes and boots. `VolumesAssumption` is what it needs of the disk at
  the first boot: a tree of directories with the root in it, files that hold
  contents, and no cluster with two owners. Such a volume was written by another
  system, so the links on it need not climb, some clusters may belong to nobody
  and its table copies may differ. `Climbing` and `Taken` are therefore not part
  of the invariant. `Rising` replaces the first: the clusters that `fat_write`
  has taken so far climb, and everything up to the last of them is taken.
  - `SInv` (theorem `SessionKeepsVolume`) is `Sound` and `Rising` with what the
    session adds: no operation is in progress without a command, and nothing is
    remembered of the last one. A step of a session is one of `Fat` or `Quiet`:
    mounting, a refused operation, a message and the power switch leave the disk
    alone and find and leave no operation in progress. Faults and loss of power
    may come at any time.
  - `UsedSpaceTaken` is a counting argument: an entry of `n` sectors has a chain
    of at least `n` sectors (`HoldsSpace`), chains share nothing, and the sizes
    of the root directory are added entry by entry (`Adding`, by `SetInduction`).
  - `CInv` (theorem `CommandsProceed`) adds `Doing`, what each command has
    reached at each write of its operation, as long as no access failed since it
    started and no release was cut off before (`Calm`). `Removing`: the entry in
    progress is the first of `count` entries of its name, and one less is left
    after the erase. `Looking`: the entry that was looked for is there, or is
    not, and a file that `ren` found is left under the new name. `Making`: an operation that gives up does so because the table or the
    directory is full, and a new directory names nothing. `Copies`: `fat_write`
    writes what the source held (`Carries`), the new entry will be the first of
    its name (`NameLeads`, `ReadsNew`), and the source is still the first of its
    name (`Source`). When a file is copied to itself the source is gone for a
    while; then the clusters its release gives back suffice for the copy, and
    its place for the entry (`Itself`).
  - `SuccessTold`, `FailureTold` and `SourceTold` read the three properties off
    `CInv` once the operation has ended. TLC checked `Calm => Doing` on the
    instance of `commands`, and with two table copies and a buffer of two
    sectors, before it was proved.
- `Ata_proofs` assumes one sector, one poll per wait at least, and nothing of the
  number of either. The invariant `InStep` says where the disk may be at each
  place of the driver, as long as no call was given up while the disk was busy
  (`late`). `DriverImplementsDisk` maps the steps: a command that is accepted, a
  poll and a flush are stutters, the end of a data phase is `Take`, and each
  return is `Done`, `Fail` or `GiveUp` of `Disk`.
- `Memory_proofs`: `FramesStayInRange` holds for every memory size, start
  address and bitmap length, which matters at the upper end of the range: the
  run takes its few frames from the first byte, so that the rounding of `end`
  is judged by the theorem. The invariant adds that no byte of `PMB` is full,
  because an allocation overwrites its byte (`memory.c:126`): a byte that the
  search finds has a 0 bit, and its frame is in range. The other three are about
  the boot and every program run after it; `MemInv` follows the few frames that
  are taken. All come from one byte of the bitmap and, because of the same line,
  alternate between its first two bits: the heap's page and the table of the
  first 4 MB are one frame, the heap's table is the other. They assume
  `RoomAssumption`: a heap of at most a page (`kmain` asks for one) and one whole
  byte of free frames. Both are needed: with a heap of two pages the second page
  would be the frame of the heap's table.
- `Input_proofs` holds for every buffer size, number of attempts, key set and
  queue: the last cell of `input_buf` is never
  written, so there is always an end mark, although keys after Enter overwrite
  the one stored; and the invariant of `NoInterruptLost`
  says where a request is while the handler is between its reads.
  `EnteredLineCompared`, an action property, rests on `Held`: from Enter until a
  key changes the line, the buffer is the line that was entered followed by its
  end mark, whatever longer line the buffer held before.
- `Clock_proofs`: a pulse is counted, lost, latched or in the handler, and only
  one of these (`UptimeTrue`). For `TimeIsTrue` the invariant names the moment
  between the two passes of `rtc_read` at which UIP was clear: the first pass
  read before it, the second after it, and a register that reads the same twice
  held that value in between. `HistoriesAssumption` says what that takes: times
  with two digits and hours below 24, and histories in which no register returns
  to a value it has left, that is, a call of `rtc_read` of less than a minute.
- `Shell_proofs`: `HistoryTrue` by the shift of `history_save`, a full history
  and the row behind it included. `StoresHitScreen` holds for any string that
  commands print: each character keeps the cursor in the screen's rows
  (`CharStays`), by induction so does `print`. What needs an invariant is the
  first prompt, whose characters are stored to a cell computed earlier: `Room`
  bounds the column by what is printed, what is left to print and the keys that
  may still come. `LineIsOnScreen` follows the text before the cursor through
  wrapping and scrolling (`WrapShows`: both move cursor and cells alike), text
  (`TextShows`), backspace (`BackShows`) and a prompt (`PrintShows`). It assumes
  that no tab is typed, with which it is false: see the hazard at `shell.c:471`.
- Induction over numbers is stated with the property given as a set
  (`SetInduction`), from well-founded induction of the library, which the provers can use where an induction rule with an
  operator as parameter cannot be instantiated. `RecursionExists`,
  `PrintingExists` and `ListingExists` show with it that recursively defined
  functions exist, so that what `Follow`, `print` and `cmd_history` compute is
  proved and not assumed.

Only model-checked are `CallsReturn`, `KeysAreRead` and `PulsesAreServed`:
liveness under fairness is out of the prover's reach. Every other property of a
passing run is also proved. The volumes that `DirectoriesCleared` leaves out,
several sectors per cluster together with directories, are neither proved about
nor run (see the hazard at `fat.c:414`); run `files` has such clusters with
files only, and the theorems include that case.

## Not modelled

What `isr_handler` prints, the GDT and the IDT's gates (constant tables), VGA
registers, modes, fonts and colours, the speaker, `cpuid`, `printf` in
`stdlib/` (no caller), how the shell cuts a line into verb and argument, the
text of the commands that only print, the boot sector's contents (volumes are
valid), byte lengths of paths and prompts and what the build keeps behind those
buffers, and memory sizes below 2080 KB, where every allocation fails and the
kernel uses frame 0 without noticing. Typed tabs are left out of
`line_editing`. With several sectors per cluster `fat_mkdir` leaves all but the
first as they were; the model does the same, but no run combines directories
with such clusters.
