------------------------------- MODULE Memory -------------------------------
(***************************************************************************)
(* Paging as the kernel uses it: initMemory, memMapPage, kmallocInit with  *)
(* changeHeapSize, and exec_run, in the order in which kmain calls them.   *)
(*                                                                         *)
(* Two page directory entries matter, that of the first 4 MB ("low") and   *)
(* that of the heap at KERNEL_MALLOC.  A page table lies in a page frame,  *)
(* and a frame has one content whoever uses it.  The translation           *)
(* look-aside buffer is the processor's: it may keep any translation that  *)
(* a walk gives, and forgets one when it likes or is told to.              *)
(***************************************************************************)
EXTENDS PageFrames, FiniteSets

CONSTANTS MemUppers,       \* mem_upper values of the boot loader, in KB
          AllocStart,      \* physicalAllocStart, 0x200000
          HeapSize,        \* initialHeapSize, 0x1000
          LoadPage,        \* LOAD_ADDRESS / 0x1000, 0x300
          MaxPages,        \* MAX_PROGRAM_SIZE / 0x1000, 16
          VgaPage,         \* 0xB8
          Programs,        \* files that exec_run may be given
          Pages            \* their length in pages, by file

(* A machine on which the boot loader found room for the kernel has more   *)
(* than 32 KB; with less, end in pmmAllocPageFrame would wrap around.      *)
ASSUME MemoryAssumption ==
  /\ \A m \in MemUppers : m \in Nat /\ m % 4194304 >= 32
  /\ AllocStart \in Nat /\ HeapSize \in Nat \ {0}
  /\ LoadPage \in Nat /\ MaxPages \in Nat /\ VgaPage \in Nat
  /\ Pages \in [Programs -> 0 .. MaxPages]

(* The heap that kmain asks for is at most a page, and the managed memory  *)
(* holds a whole byte of the bitmap, eight frames: with less, or with a    *)
(* larger heap, pages are not mapped as this module says.                  *)
ASSUME RoomAssumption ==
  /\ HeapSize <= PageSize
  /\ \A m \in MemUppers :
       LET low  == CEIL_DIV(AllocStart, PageSize)
           high == ((m % 4194304) * 1024) \div PageSize
       IN  /\ CEIL_DIV(low, 8) < BitmapLen
           /\ CEIL_DIV(low, 8) < high \div 8 - IF high % 8 # 0 THEN 1 ELSE 0

Absent  == -1          \* PAGE_FLAG_PRES is clear
BigPage == -2          \* the 4 MB page of boot.s, mapped one to one
Garbled == -3          \* two different addresses were ORed into an entry

LowPages  == {0, VgaPage} \cup (LoadPage .. LoadPage + MaxPages - 1)
HeapPages == 0 .. CEIL_DIV(HeapSize, PageSize) - 1
VPages    == ({"low"} \X LowPages) \cup ({"heap"} \X HeapPages)
PtIndex   == LowPages \cup HeapPages
NoTable   == [i \in PtIndex |-> Absent]

VARIABLES pc,        \* the call that kmain makes next
          todo,      \* pages that call has still to map: <<vpage, frame>>
          pageDir,   \* "low" and "heap": BigPage, Absent or a table's frame
          table,     \* table[f]: frame f read as a page table
          tlb,       \* translations the processor remembers
          mapped,    \* ghost: what memMapPage was asked to map
          image      \* whose bytes are at LOAD_ADDRESS; "" before the first

vars == <<pmmVars, pc, todo, pageDir, table, tlb, mapped, image>>

Init == /\ pageFrameMin = 0 /\ pageFrameMax = 0
        /\ PMB = [b \in 0 .. BitmapLen - 1 |-> {}]
        /\ frame = 0 /\ given = {}
        /\ pc = "initMemory" /\ todo = <<>>
        /\ pageDir = [r \in {"low", "heap"} |-> IF r = "low" THEN BigPage ELSE Absent]
        /\ table = [f \in {} |-> NoTable]
        /\ tlb = {} /\ mapped = {} /\ image = ""

(* The translation that a walk of the tables gives for a page. *)
Walk(v) ==
  LET e == pageDir[v[1]]
  IN  IF e = BigPage THEN v[2]
      ELSE IF e = Absent THEN Absent
      ELSE table[e][v[2]]

-----------------------------------------------------------------------------
(* The size in bytes has 32 bits, so mem_upper counts modulo 2^22.  Both   *)
(* calls of inval invalidate the page of their argument on the stack, so   *)
(* they do not touch the translations of interest.                         *)
initMemory(mem_upper) ==
  /\ pc = "initMemory"
  /\ pageDir' = [pageDir EXCEPT !["low"] = Absent]
  /\ pmm_init(AllocStart, (mem_upper % 4194304) * 1024)
  /\ pc' = "kmallocInit"
  /\ UNCHANGED <<frame, given, todo, table, tlb, mapped, image>>

memMapPage_anew(v, phys) ==
  LET new == [NoTable EXCEPT ![v[2]] = phys]
  IN  /\ pmmAllocPageFrame
      /\ pageDir' = [pageDir EXCEPT ![v[1]] = frame']
      /\ table' = [g \in DOMAIN table \cup {frame'} |->
                     IF g = frame' THEN new ELSE table[g]]
      /\ mapped' = mapped \cup {<<v, phys>>}

memMapPage_swapped(v, phys) ==
  LET missing == pageDir[v[1]] = Absent
      f    == IF missing THEN frame' ELSE pageDir[v[1]]
      base == IF missing \/ f \notin DOMAIN table THEN NoTable ELSE table[f]
      new  == [base EXCEPT ![v[2]] = f]
  IN  /\ IF missing THEN pmmAllocPageFrame ELSE UNCHANGED <<PMB, frame, given>>
      /\ pageDir' = [pageDir EXCEPT ![v[1]] = phys]
      /\ table' = [g \in DOMAIN table \cup {f} |-> IF g = f THEN new ELSE table[g]]
      /\ mapped' = mapped \cup {<<v, phys>>}

(* memMapPage always runs on initial_page_dir, so it neither switches page *)
(* directories nor finds one to synchronise.  A missing table is allocated *)
(* and cleared, then the entry is ORed in.  A failed allocation is not     *)
(* noticed: frame 0 is used.                                               *)
memMapPage(v, phys) ==
  LET missing == pageDir[v[1]] = Absent
      f    == IF missing THEN frame' ELSE pageDir[v[1]]
      base == IF missing \/ f \notin DOMAIN table THEN NoTable ELSE table[f]
      old  == base[v[2]]
      new  == [base EXCEPT ![v[2]] = IF old \in {Absent, phys} THEN phys ELSE Garbled]
  IN  /\ IF missing THEN pmmAllocPageFrame ELSE UNCHANGED <<PMB, frame, given>>
      /\ pageDir' = [pageDir EXCEPT ![v[1]] = f]
      /\ table' = [g \in DOMAIN table \cup {f} |-> IF g = f THEN new ELSE table[g]]
      /\ mapped' = mapped \cup {<<v, phys>>}

(* changeHeapSize: a frame for the next page of the heap ... *)
HeapFrame ==
  /\ pc = "kmallocInit" /\ todo = <<>>
  /\ pmmAllocPageFrame
  /\ todo' = <<<<"heap", Cardinality(mapped)>>, frame'>>
  /\ UNCHANGED <<pageFrameMin, pageFrameMax, pc, pageDir, table, tlb, mapped, image>>

(* ... which is then mapped. *)
HeapMap ==
  /\ pc = "kmallocInit" /\ todo # <<>>
  /\ memMapPage(todo[1], todo[2])
  /\ todo' = <<>>
  /\ pc' = IF Cardinality(mapped') = Cardinality(HeapPages) THEN "mapVga" ELSE pc
  /\ UNCHANGED <<pageFrameMin, pageFrameMax, tlb, image>>

(* kmain maps the text buffer at its own address. *)
MapVga == /\ pc = "mapVga"
          /\ memMapPage(<<"low", VgaPage>>, VgaPage)
          /\ pc' = "shell"
          /\ UNCHANGED <<pageFrameMin, pageFrameMax, todo, tlb, image>>

(* exec_run maps the pages of the program one by one ... *)
ExecRun(file) ==
  /\ pc = "shell"
  /\ todo' = <<file, 0>>
  /\ pc' = "exec"
  /\ UNCHANGED <<pmmVars, pageDir, table, tlb, mapped, image>>

ExecMap == /\ pc = "exec" /\ todo[2] < Pages[todo[1]]
           /\ memMapPage(<<"low", LoadPage + todo[2]>>, LoadPage + todo[2])
           /\ todo' = <<todo[1], todo[2] + 1>>
           /\ UNCHANGED <<pageFrameMin, pageFrameMax, pc, tlb, image>>

(* ... copies it there, if it has any byte, and calls LOAD_ADDRESS. *)
ExecCall == /\ pc = "exec" /\ todo[2] = Pages[todo[1]]
            /\ image' = IF Pages[todo[1]] > 0 THEN todo[1] ELSE image
            /\ pc' = "shell" /\ todo' = <<>>
            /\ UNCHANGED <<pmmVars, pageDir, table, tlb, mapped>>

(* The processor remembers, or drops, a translation. *)
TlbFill(v) == /\ Walk(v) \notin {Absent, Garbled}
              /\ \A t \in tlb : t[1] # v
              /\ tlb' = tlb \cup {<<v, Walk(v)>>}
              /\ UNCHANGED <<pmmVars, pc, todo, pageDir, table, mapped, image>>

TlbDrop(t) == /\ tlb' = tlb \ {t}
              /\ UNCHANGED <<pmmVars, pc, todo, pageDir, table, mapped, image>>

Next == \/ \E m \in MemUppers : initMemory(m)
        \/ HeapFrame \/ HeapMap \/ MapVga
        \/ \E file \in Programs : ExecRun(file)
        \/ ExecMap \/ ExecCall
        \/ \E v \in VPages : TlbFill(v)
        \/ \E t \in tlb : TlbDrop(t)

Spec == Init /\ [][Next]_vars

-----------------------------------------------------------------------------
(* Page directory, page tables and bitmap of memory.c have their types, and *)
(* the page directory points to frames that memMapPage made tables of.     *)
TypeOK ==
  /\ pc \in {"initMemory", "kmallocInit", "mapVga", "shell", "exec"}
  /\ pageDir \in [{"low", "heap"} -> Nat \cup {Absent, BigPage}]
  /\ \A r \in {"low", "heap"} : pageDir[r] >= 0 => pageDir[r] \in DOMAIN table
  /\ \A f \in DOMAIN table : table[f] \in [PtIndex -> Nat \cup {Absent, Garbled}]
  /\ PMB \in [0 .. BitmapLen - 1 -> SUBSET Bits]
  /\ {t[1] : t \in tlb} \cup {m[1] : m \in mapped} \subseteq VPages

(* Every page that kmain, changeHeapSize or exec_run has mapped translates *)
(* to the frame it was mapped to, by the tables and by whatever the        *)
(* processor remembers, although frames are handed out twice and inval     *)
(* invalidates nothing.                                                    *)
MappedPagesTranslate ==
  \A m \in mapped : /\ Walk(m[1]) = m[2]
                    /\ \A t \in tlb : t[1] = m[1] => t[2] = m[2]

(* The page table of the heap is not itself a page of the heap: a store to *)
(* the heap does not change where the heap is.                             *)
HeapSparesItsTable ==
  \A m \in mapped : m[1][1] = "heap" => m[2] # pageDir["heap"]
=============================================================================
