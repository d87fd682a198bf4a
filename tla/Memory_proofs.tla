---------------------------- MODULE Memory_proofs ----------------------------
(***************************************************************************)
(* Proofs about the page frame allocator and about paging, for every       *)
(* bitmap length, memory size and start address.  For the allocator the    *)
(* invariant adds to FramesInRange that no byte of the bitmap is ever      *)
(* full: each holds at most the bit of the frame taken last.  For paging   *)
(* it follows the few frames that the boot takes: all of one byte, which   *)
(* pmmAllocPageFrame gives out in turn, so that the frame of the heap's    *)
(* page is given again to the table of the first 4 MB.                     *)
(***************************************************************************)
EXTENDS Memory, FiniteSetTheorems, WellFoundedInduction, TLAPS

PmmType == /\ pageFrameMin \in Nat /\ pageFrameMax \in Nat
           /\ PMB \in [0 .. BitmapLen - 1 -> SUBSET Bits]
NeverFull == \A b \in 0 .. BitmapLen - 1 : PMB[b] # Bits
GivenLater == pc = "initMemory" => given = {}

PmmInv == PmmType /\ NeverFull /\ GivenLater /\ FramesInRange

(* A nonempty set of natural numbers has a least element. *)
LEMMA LeastElement ==
  ASSUME NEW S \in SUBSET Nat, S # {}
  PROVE  \E m \in S : \A k \in S : m <= k
<1>1. PICK R : R = OpToRel(<, Nat)
  OBVIOUS
<1>2. PICK m \in S : \A k \in S : <<k, m>> \notin R
  BY <1>1, NatLessThanWellFounded, WFMin
<1>3. \A k \in S : ~(k < m)
  BY <1>1, <1>2 DEF OpToRel
<1> QED BY <1>3

(* Least picks the least element of a set of natural numbers. *)
LEMMA LeastIsLeast ==
  ASSUME NEW S \in SUBSET Nat, S # {}
  PROVE  Least(S) \in S /\ \A y \in S : Least(S) <= y
  <1>1. \E m \in S : \A y \in S : m <= y
    BY LeastElement
  <1> QED BY <1>1 DEF Least

(* The bytes searched hold only bits of frames of the managed memory. *)
LEMMA SearchRange ==
  ASSUME pageFrameMin \in Nat, pageFrameMax \in Nat
  PROVE  /\ SearchStart \in Nat /\ SearchEnd \in Int
         /\ pageFrameMin <= 8 * SearchStart
         /\ 8 * SearchEnd <= pageFrameMax
  BY DEF SearchStart, SearchEnd

(* The byte and the bit that the search finds. *)
LEMMA Found ==
  ASSUME PmmType, NeverFull, Open # {}
  PROVE  /\ FreeByte \in Open /\ FreeByte \in Nat
         /\ FreeBit \in Bits
         /\ \A b \in Open : FreeByte <= b
  <1>1. Open \in SUBSET Nat
    BY SearchRange DEF Open, PmmType
  <1>2. FreeByte \in Open /\ \A b \in Open : FreeByte <= b
    BY <1>1, LeastIsLeast DEF FreeByte
  <1>3. Bits \ ByteAt(FreeByte) # {}
    <2>1. ByteAt(FreeByte) \subseteq Bits
      <3>1. CASE FreeByte < BitmapLen
        <4>1. FreeByte \in 0 .. BitmapLen - 1
          BY <1>1, <1>2, <3>1, BitmapLenAssumption
        <4> QED BY <3>1, <4>1 DEF ByteAt, PmmType
      <3>2. CASE ~(FreeByte < BitmapLen)
        BY <3>2 DEF ByteAt
      <3> QED BY <3>1, <3>2
    <2> QED BY <1>2, <2>1 DEF Open
  <1>4. Bits \ ByteAt(FreeByte) \in SUBSET Nat
    BY DEF Bits
  <1>5. FreeBit \in Bits
    BY <1>3, <1>4, LeastIsLeast DEF FreeBit
  <1> QED BY <1>1, <1>2, <1>5

(* An allocation keeps the invariant. *)
LEMMA AllocStep ==
  ASSUME PmmInv, pmmAllocPageFrame, UNCHANGED <<pageFrameMin, pageFrameMax>>,
         pc # "initMemory", pc' # "initMemory"
  PROVE  PmmInv'
  <1> USE DEF PmmInv
  <1>1. CASE Open = {}
    BY <1>1 DEF pmmAllocPageFrame, PmmType, NeverFull, GivenLater, FramesInRange
  <1>2. CASE Open # {}
    <2>1. /\ PMB' = [PMB EXCEPT ![FreeByte] = {FreeBit}]
          /\ frame' = FreeByte * 8 + FreeBit
          /\ given' = given \cup {frame'}
      BY <1>2 DEF pmmAllocPageFrame
    <2>2. FreeByte \in Open /\ FreeByte \in Nat /\ FreeBit \in 0 .. 7
      BY <1>2, Found DEF Bits
    <2>3. FreeByte >= SearchStart /\ FreeByte <= SearchEnd - 1
      BY <2>2, SearchRange DEF Open, PmmType
    <2>4. frame' \in pageFrameMin .. pageFrameMax - 1
      BY <2>1, <2>2, <2>3, SearchRange DEF PmmType
    <2>5. {FreeBit} \in SUBSET Bits /\ {FreeBit} # Bits
      BY <2>2 DEF Bits
    <2>6. PmmType' /\ NeverFull'
      BY <2>1, <2>5 DEF PmmType, NeverFull
    <2>7. FramesInRange'
      BY <2>1, <2>4 DEF FramesInRange
    <2> QED BY <2>6, <2>7 DEF GivenLater
  <1> QED BY <1>1, <1>2

(* memMapPage allocates at most one frame. *)
LEMMA MapStep ==
  ASSUME PmmInv, NEW v, NEW phys, memMapPage(v, phys),
         UNCHANGED <<pageFrameMin, pageFrameMax>>,
         pc # "initMemory", pc' # "initMemory"
  PROVE  PmmInv'
  <1>1. CASE pageDir[v[1]] = Absent
    BY <1>1, AllocStep DEF memMapPage
  <1>2. CASE pageDir[v[1]] # Absent
    BY <1>2 DEF memMapPage, PmmInv, PmmType, NeverFull, GivenLater, FramesInRange
  <1> QED BY <1>1, <1>2

(* PmmInv is inductive. *)
LEMMA PmmStep == PmmInv /\ [Next]_vars => PmmInv'
  <1> SUFFICES ASSUME PmmInv, [Next]_vars PROVE PmmInv'
    OBVIOUS
  <1>1. ASSUME NEW m \in MemUppers, initMemory(m) PROVE PmmInv'
    <2>1. /\ pageFrameMin' = CEIL_DIV(AllocStart, PageSize)
          /\ pageFrameMax' = ((m % 4194304) * 1024) \div PageSize
          /\ PMB' = [b \in 0 .. BitmapLen - 1 |-> {}]
          /\ given' = {}
      BY <1>1 DEF initMemory, pmm_init, PmmInv, GivenLater
    <2>2. AllocStart \in Nat /\ m \in Nat
      BY MemoryAssumption
    <2>3. pageFrameMin' \in Nat
      BY <2>1, <2>2 DEF CEIL_DIV, PageSize
    <2>4. pageFrameMax' \in Nat
      BY <2>1, <2>2 DEF PageSize
    <2>5. {} # Bits
      BY DEF Bits
    <2> QED BY <2>1, <2>3, <2>4, <2>5
            DEF PmmInv, PmmType, NeverFull, GivenLater, FramesInRange
  <1>2. CASE HeapFrame
    BY <1>2, AllocStep DEF HeapFrame
  <1>3. CASE HeapMap
    BY <1>3, MapStep DEF HeapMap
  <1>4. CASE MapVga
    BY <1>4, MapStep DEF MapVga
  <1>5. CASE ExecMap
    BY <1>5, MapStep DEF ExecMap
  <1>6. ASSUME UNCHANGED pmmVars, pc' = "initMemory" => pc = "initMemory"
        PROVE  PmmInv'
    BY <1>6 DEF pmmVars, PmmInv, PmmType, NeverFull, GivenLater, FramesInRange
  <1>7. CASE (\E file \in Programs : ExecRun(file)) \/ ExecCall
    BY <1>6, <1>7 DEF ExecRun, ExecCall
  <1>8. CASE (\E v \in VPages : TlbFill(v)) \/ (\E t \in tlb : TlbDrop(t))
    BY <1>6, <1>8 DEF TlbFill, TlbDrop
  <1>9. CASE UNCHANGED vars
    BY <1>6, <1>9 DEF vars
  <1> QED BY <1>1, <1>2, <1>3, <1>4, <1>5, <1>7, <1>8, <1>9 DEF Next

(* PmmInv holds initially. *)
LEMMA PmmStart == Init => PmmInv
  <1>1. {} # Bits
    BY DEF Bits
  <1>2. Init => PmmType
    <2>1. Init => /\ pageFrameMin = 0 /\ pageFrameMax = 0
                  /\ PMB = [b \in 0 .. BitmapLen - 1 |-> {}]
      BY Zenon DEF Init
    <2> QED BY <2>1 DEF PmmType
  <1>3. Init => NeverFull
    BY <1>1 DEF Init, NeverFull
  <1>4. Init => GivenLater /\ FramesInRange
    BY DEF Init, GivenLater, FramesInRange
  <1> QED BY <1>2, <1>3, <1>4 DEF PmmInv

(* Every frame that pmmAllocPageFrame hands out lies in the memory that    *)
(* initMemory was given, for every size and alignment of that memory.      *)
THEOREM FramesStayInRange == Spec => []FramesInRange
  <1>1. PmmInv => FramesInRange
    BY DEF PmmInv
  <1> QED BY <1>1, PmmStart, PmmStep, PTL DEF Spec

-----------------------------------------------------------------------------
(***************************************************************************)
(* Where the tables and the heap lie.  All frames come from one byte of    *)
(* the bitmap, in turns its first and its second: the page of the heap and *)
(* the table of the first 4 MB are the same frame, the table of the heap   *)
(* is the next one.                                                        *)
(***************************************************************************)
Base == 8 * SearchStart

Searchable == SearchStart < BitmapLen /\ SearchStart < SearchEnd

Tables  == [PtIndex -> Nat \cup {Absent, Garbled}]
HeapMap0 == <<<<"heap", 0>>, Base>>

HeapMapped == /\ pageDir["heap"] = Base + 1 /\ Base + 1 \in DOMAIN table
              /\ table[Base + 1][0] = Base

LowMapped == /\ pageDir["low"] = Base /\ Base \in DOMAIN table
             /\ \A i \in LowPages : table[Base][i] \in {Absent, i}
             /\ \A m \in mapped \ {HeapMap0} :
                  /\ m[1][1] = "low" /\ m[1][2] \in LowPages /\ m[1] \in VPages
                  /\ m[2] = m[1][2] /\ table[Base][m[2]] = m[2]

Types == /\ pageDir \in [{"low", "heap"} -> Nat \cup {Absent, BigPage}]
         /\ \A f \in DOMAIN table : f \in Nat /\ table[f] \in Tables
         /\ pc \in {"initMemory", "kmallocInit", "mapVga", "shell", "exec"}

Layout ==
  /\ pc # "initMemory" => Searchable
  /\ pc = "initMemory" => /\ pageDir["low"] = BigPage /\ pageDir["heap"] = Absent
                          /\ mapped = {} /\ todo = <<>>
  /\ pc = "kmallocInit" =>
       /\ pageDir["low"] = Absent /\ pageDir["heap"] = Absent /\ mapped = {}
       /\ \/ todo = <<>> /\ PMB[SearchStart] = {}
          \/ todo = HeapMap0 /\ PMB[SearchStart] = {0}
  /\ pc = "mapVga" => /\ HeapMapped /\ pageDir["low"] = Absent
                      /\ mapped = {HeapMap0} /\ PMB[SearchStart] = {1}
  /\ pc \in {"shell", "exec"} => HeapMapped /\ LowMapped
  /\ pc = "exec" => /\ todo[1] \in Programs
                    /\ todo[2] \in 0 .. Pages[todo[1]]

(* What the processor remembers is right, from the first moment. *)
Remembered ==
  \A t \in tlb :
    \/ t[1][1] = "low" /\ t[1] \in VPages /\ t[2] = t[1][2]
    \/ t[1] = <<"heap", 0>> /\ t[2] = Base /\ pc \in {"mapVga", "shell", "exec"}

MemInv == PmmInv /\ Types /\ Layout /\ Remembered

(* The pages of the model, and the frames it knows. *)
LEMMA PagesKnown ==
  /\ HeapPages = {0} /\ <<"heap", 0>> \in VPages /\ Cardinality(HeapPages) = 1
  /\ \A i \in LowPages : i \in Nat /\ i \in PtIndex /\ <<"low", i>> \in VPages
  /\ 0 \in PtIndex /\ VgaPage \in LowPages /\ 0 \in LowPages
  /\ \A file \in Programs : Pages[file] \in Nat
       /\ \A n \in 0 .. Pages[file] - 1 : LoadPage + n \in LowPages
  /\ NoTable \in Tables
<1>1. CEIL_DIV(HeapSize, PageSize) = 1
  BY MemoryAssumption, RoomAssumption DEF CEIL_DIV, PageSize
<1>2. HeapPages = {0}
  BY <1>1 DEF HeapPages
<1>3. Cardinality(HeapPages) = 1
  BY <1>2, FS_Singleton
<1>4. /\ \A i \in LowPages : i \in Nat /\ i \in PtIndex
      /\ VgaPage \in LowPages /\ 0 \in LowPages /\ 0 \in PtIndex
  BY MemoryAssumption DEF LowPages, PtIndex
<1>5. \A file \in Programs : Pages[file] \in Nat
        /\ \A n \in 0 .. Pages[file] - 1 : LoadPage + n \in LowPages
  BY MemoryAssumption DEF LowPages
<1>6. NoTable \in Tables
  BY DEF NoTable, Tables, Absent
<1> QED BY <1>2, <1>3, <1>4, <1>5, <1>6 DEF VPages

(* The frame handed out is the first or the second of the byte searched. *)
LEMMA AllocInTurns ==
  ASSUME PmmInv, Searchable, pmmAllocPageFrame,
         UNCHANGED <<pageFrameMin, pageFrameMax>>
  PROVE  /\ PMB[SearchStart] \in {{}, {1}} => frame' = Base /\ PMB'[SearchStart] = {0}
         /\ PMB[SearchStart] = {0} => frame' = Base + 1 /\ PMB'[SearchStart] = {1}
<1> DEFINE s == SearchStart
<1>1. s \in Nat /\ SearchEnd \in Int /\ s \in 0 .. BitmapLen - 1
  BY SearchRange, BitmapLenAssumption DEF PmmInv, PmmType, Searchable
<1>2. s \in Open /\ ByteAt(s) = PMB[s]
  BY <1>1 DEF Open, ByteAt, PmmInv, NeverFull, Searchable
<1>3. FreeByte = s
  <2>1. FreeByte \in Nat /\ FreeByte <= s /\ FreeByte \in Open
    BY <1>2, Found DEF PmmInv
  <2>2. FreeByte >= s
    BY <2>1, <1>1 DEF Open
  <2> QED BY <1>1, <2>1, <2>2
<1>4. /\ FreeBit = Least(Bits \ PMB[s])
      /\ PMB' = [PMB EXCEPT ![s] = {FreeBit}] /\ frame' = s * 8 + FreeBit
  BY <1>2, <1>3 DEF FreeBit, pmmAllocPageFrame
<1>5. PMB'[s] = {FreeBit}
  BY <1>1, <1>4 DEF PmmInv, PmmType
<1>6. ASSUME NEW b \in Bits, b \notin PMB[s], \A a \in Bits \ PMB[s] : b <= a
      PROVE  FreeBit = b
  <2>1. Bits \ PMB[s] \in SUBSET Nat /\ b \in Bits \ PMB[s]
    BY <1>6 DEF Bits
  <2>2. FreeBit \in Bits \ PMB[s] /\ FreeBit <= b
    BY <1>4, <2>1, LeastIsLeast
  <2> QED BY <1>6, <2>2 DEF Bits
<1>7. PMB[s] \in {{}, {1}} => FreeBit = 0
  BY <1>6 DEF Bits
<1>8. PMB[s] = {0} => FreeBit = 1
  BY <1>6 DEF Bits
<1>9. 8 * s = s * 8 + 0 /\ 8 * s + 1 = s * 8 + 1
  BY <1>1
<1>10. PMB[s] \in {{}, {1}} => frame' = Base /\ PMB'[s] = {0}
  BY <1>4, <1>5, <1>7, <1>9 DEF Base
<1>11. PMB[s] = {0} => frame' = Base + 1 /\ PMB'[s] = {1}
  BY <1>4, <1>5, <1>8, <1>9 DEF Base
<1> QED BY <1>10, <1>11

(* memMapPage where the page directory has no table: a new one is taken.   *)
LEMMA MapAnew ==
  ASSUME Types, NEW v \in VPages, NEW phys \in Nat, memMapPage(v, phys),
         pageDir[v[1]] = Absent, frame' \in Nat
  PROVE  /\ pmmAllocPageFrame
         /\ mapped' = mapped \cup {<<v, phys>>}
         /\ pageDir' = [pageDir EXCEPT ![v[1]] = frame']
         /\ DOMAIN table' = DOMAIN table \cup {frame'}
         /\ \A f \in DOMAIN table \ {frame'} : table'[f] = table[f]
         /\ table'[frame'] \in Tables /\ table'[frame'][v[2]] = phys
         /\ \A i \in PtIndex \ {v[2]} : table'[frame'][i] = Absent
<1>1. v[2] \in PtIndex
  BY DEF VPages, PtIndex
<1> DEFINE new == [NoTable EXCEPT ![v[2]] = IF NoTable[v[2]] \in {Absent, phys}
                                            THEN phys ELSE Garbled]
<1>2. /\ pmmAllocPageFrame
      /\ mapped' = mapped \cup {<<v, phys>>}
      /\ pageDir' = [pageDir EXCEPT ![v[1]] = frame']
      /\ table' = [g \in DOMAIN table \cup {frame'} |-> IF g = frame' THEN new ELSE table[g]]
  BY DEF memMapPage
<1>3. NoTable \in Tables /\ \A i \in PtIndex : NoTable[i] = Absent
  BY PagesKnown DEF NoTable
<1>4. new \in Tables /\ new[v[2]] = phys /\ \A i \in PtIndex \ {v[2]} : new[i] = Absent
  BY <1>1, <1>3 DEF Tables
<1> HIDE DEF new
<1> QED BY <1>2, <1>4

(* memMapPage where there is one: an entry is ORed into it. *)
LEMMA MapInto ==
  ASSUME Types, NEW v \in VPages, NEW phys \in Nat, memMapPage(v, phys),
         NEW f \in DOMAIN table, pageDir[v[1]] = f,
         table[f][v[2]] \in {Absent, phys}
  PROVE  /\ UNCHANGED <<PMB, frame, given, pageDir>>
         /\ mapped' = mapped \cup {<<v, phys>>}
         /\ DOMAIN table' = DOMAIN table
         /\ \A g \in DOMAIN table \ {f} : table'[g] = table[g]
         /\ table'[f] \in Tables /\ table'[f][v[2]] = phys
         /\ \A i \in PtIndex \ {v[2]} : table'[f][i] = table[f][i]
<1>1. v[2] \in PtIndex /\ v[1] \in {"low", "heap"}
  BY DEF VPages, PtIndex
<1> DEFINE new == [table[f] EXCEPT ![v[2]] = IF table[f][v[2]] \in {Absent, phys}
                                             THEN phys ELSE Garbled]
<1>2. f \in Nat /\ f # Absent /\ table[f] \in Tables
  BY DEF Types, Absent
<1>3. /\ UNCHANGED <<PMB, frame, given>>
      /\ mapped' = mapped \cup {<<v, phys>>}
      /\ pageDir' = [pageDir EXCEPT ![v[1]] = f]
      /\ table' = [g \in DOMAIN table \cup {f} |-> IF g = f THEN new ELSE table[g]]
  BY <1>2 DEF memMapPage
<1>4. pageDir' = pageDir
  BY <1>1, <1>3 DEF Types
<1>5. new \in Tables /\ new[v[2]] = phys /\ \A i \in PtIndex \ {v[2]} : new[i] = table[f][i]
  BY <1>1, <1>2 DEF Tables
<1> HIDE DEF new
<1> QED BY <1>3, <1>4, <1>5

(* MemInv holds initially. *)
LEMMA MemStart == Init => MemInv
<1> SUFFICES ASSUME Init PROVE MemInv
  OBVIOUS
<1>1. PmmInv
  BY PmmStart
<1>2. /\ pageDir = [r \in {"low", "heap"} |-> IF r = "low" THEN BigPage ELSE Absent]
      /\ table = [f \in {} |-> NoTable] /\ pc = "initMemory" /\ todo = <<>>
      /\ tlb = {} /\ mapped = {}
  BY DEF Init
<1>3. Types
  BY <1>2 DEF Types
<1>4. Layout
  BY <1>2 DEF Layout
<1>5. Remembered
  BY <1>2 DEF Remembered
<1> QED BY <1>1, <1>3, <1>4, <1>5 DEF MemInv

(* Base is a frame number and stays where it is once it is known. *)
LEMMA BaseType ==
  ASSUME PmmInv
  PROVE  /\ Base \in Nat /\ SearchStart \in Nat
         /\ UNCHANGED <<pageFrameMin, pageFrameMax>> =>
              Base' = Base /\ SearchStart' = SearchStart /\ SearchEnd' = SearchEnd
<1>1. SearchStart \in Nat
  BY SearchRange DEF PmmInv, PmmType
<1>2. UNCHANGED <<pageFrameMin, pageFrameMax>> =>
        SearchStart' = SearchStart /\ SearchEnd' = SearchEnd
  BY DEF SearchStart, SearchEnd
<1> QED BY <1>1, <1>2 DEF Base

(* What a walk of the tables gives, if anything. *)
LEMMA WalkInLayout ==
  ASSUME PmmInv, Types, Layout, NEW v \in VPages, Walk(v) \notin {Absent, Garbled}
  PROVE  \/ v[1] = "low" /\ Walk(v) = v[2]
         \/ v = <<"heap", 0>> /\ Walk(v) = Base /\ pc \in {"mapVga", "shell", "exec"}
<1>b. Base \in Nat /\ Base # BigPage /\ Base + 1 # BigPage /\ Base # Absent
      /\ Base + 1 # Absent
  BY BaseType DEF BigPage, Absent
<1>p. pc \in {"initMemory", "kmallocInit", "mapVga", "shell", "exec"}
  BY DEF Types
<1>1. CASE v[1] = "low"
  <2>1. v[2] \in LowPages
    BY <1>1 DEF VPages
  <2>2. CASE pc = "initMemory"
    BY <1>1, <2>2 DEF Layout, Walk
  <2>3. CASE pc \in {"kmallocInit", "mapVga"}
    <3>1. pageDir[v[1]] = Absent
      BY <1>1, <2>3 DEF Layout
    <3> QED BY <3>1 DEF Walk, Absent, BigPage
  <2>4. CASE pc \in {"shell", "exec"}
    <3>1. pageDir[v[1]] = Base /\ table[Base][v[2]] \in {Absent, v[2]}
      BY <1>1, <2>1, <2>4 DEF Layout, LowMapped
    <3>2. Walk(v) = table[Base][v[2]]
      BY <1>b, <3>1 DEF Walk
    <3> QED BY <1>1, <3>1, <3>2
  <2> QED BY <1>p, <2>2, <2>3, <2>4
<1>2. CASE v[1] = "heap"
  <2>1. v = <<"heap", 0>> /\ v[2] = 0
    BY <1>2, PagesKnown DEF VPages
  <2>2. CASE pc \in {"initMemory", "kmallocInit"}
    <3>1. pageDir[v[1]] = Absent
      BY <1>2, <2>2 DEF Layout
    <3> QED BY <3>1 DEF Walk, Absent, BigPage
  <2>3. CASE pc \in {"mapVga", "shell", "exec"}
    <3>1. pageDir[v[1]] = Base + 1 /\ table[Base + 1][v[2]] = Base
      BY <1>2, <2>1, <2>3 DEF Layout, HeapMapped
    <3>2. Walk(v) = table[Base + 1][v[2]]
      BY <1>b, <3>1 DEF Walk
    <3> QED BY <2>1, <2>3, <3>1, <3>2
  <2> QED BY <1>p, <2>2, <2>3
<1> QED BY <1>1, <1>2 DEF VPages

(* MemInv is inductive: one step per call of kmain, and what the processor *)
(* remembers.                                                              *)
LEMMA MemStep == MemInv /\ [Next]_vars => MemInv'
<1> SUFFICES ASSUME MemInv, [Next]_vars PROVE MemInv'
  OBVIOUS
<1>i. PmmInv /\ PmmInv' /\ Types /\ Layout /\ Remembered
  BY PmmStep DEF MemInv
<1>b. /\ Base \in Nat /\ SearchStart \in Nat
      /\ UNCHANGED <<pageFrameMin, pageFrameMax>> =>
           Base' = Base /\ SearchStart' = SearchStart /\ SearchEnd' = SearchEnd
  BY <1>i, BaseType
<1>1. ASSUME NEW m \in MemUppers, initMemory(m) PROVE MemInv'
  <2>0. PICK low, high :
          /\ low = CEIL_DIV(AllocStart, PageSize)
          /\ high = ((m % 4194304) * 1024) \div PageSize
    OBVIOUS
  <2>1. /\ pc = "initMemory" /\ pc' = "kmallocInit"
        /\ pageDir' = [pageDir EXCEPT !["low"] = Absent]
        /\ pageFrameMin' = low /\ pageFrameMax' = high
        /\ PMB' = [b \in 0 .. BitmapLen - 1 |-> {}]
        /\ UNCHANGED <<todo, table, tlb, mapped>>
    BY <1>1, <2>0, SMT DEF initMemory, pmm_init
  <2>2. Searchable' /\ SearchStart' \in Nat
    <3>1. low \in Nat /\ high \in Nat
      <4>1. AllocStart \in Nat /\ m \in Nat
        BY MemoryAssumption
      <4> QED BY <2>0, <4>1, SMT DEF CEIL_DIV, PageSize
    <3>2. /\ CEIL_DIV(low, 8) < BitmapLen
          /\ CEIL_DIV(low, 8) < high \div 8 - IF high % 8 # 0 THEN 1 ELSE 0
      BY <2>0, RoomAssumption, SMT
    <3>4. SearchStart' = CEIL_DIV(low, 8) /\ SearchStart' \in Nat
      BY <2>1, <3>1 DEF SearchStart, CEIL_DIV
    <3>5. SearchEnd' = high \div 8 - IF high % 8 # 0 THEN 1 ELSE 0
      BY <2>1 DEF SearchEnd
    <3> QED BY <3>2, <3>4, <3>5 DEF Searchable
  <2>3. Types'
    BY <1>i, <2>1 DEF Types
  <2>4. Layout'
    <3>1. /\ pageDir'["low"] = Absent /\ pageDir'["heap"] = Absent
          /\ mapped' = {} /\ todo' = <<>>
      BY <1>i, <2>1 DEF Layout, Types
    <3>2. SearchStart' \in 0 .. BitmapLen - 1
      BY <2>2, BitmapLenAssumption DEF Searchable
    <3>3. PMB'[SearchStart'] = {}
      BY <2>1, <3>2
    <3> QED BY <2>1, <2>2, <3>1, <3>3 DEF Layout
  <2>5. Remembered'
    BY <1>i, <2>1 DEF Remembered, Layout
  <2> QED BY <1>i, <2>3, <2>4, <2>5 DEF MemInv
<1>2. ASSUME HeapFrame PROVE MemInv'
  <2>1. /\ pc = "kmallocInit" /\ todo = <<>> /\ pmmAllocPageFrame
        /\ todo' = <<<<"heap", Cardinality(mapped)>>, frame'>>
        /\ UNCHANGED <<pageFrameMin, pageFrameMax, pc, pageDir, table, tlb, mapped>>
    BY <1>2 DEF HeapFrame
  <2>2. /\ Searchable /\ mapped = {} /\ PMB[SearchStart] = {}
        /\ pageDir["low"] = Absent /\ pageDir["heap"] = Absent
    BY <1>i, <2>1 DEF Layout, HeapMap0
  <2>3. frame' = Base /\ PMB'[SearchStart] = {0}
    BY <1>i, <2>1, <2>2, AllocInTurns
  <2>4. todo' = HeapMap0'
    BY <1>b, <2>1, <2>2, <2>3, FS_EmptySet DEF HeapMap0
  <2>5. Layout'
    BY <1>b, <2>1, <2>2, <2>3, <2>4 DEF Layout, Searchable
  <2>6. Types' /\ Remembered'
    BY <1>i, <1>b, <2>1 DEF Types, Remembered
  <2> QED BY <1>i, <2>5, <2>6 DEF MemInv
<1>3. ASSUME HeapMap PROVE MemInv'
  <2>1. /\ pc = "kmallocInit" /\ todo # <<>> /\ memMapPage(todo[1], todo[2])
        /\ pc' = IF Cardinality(mapped') = Cardinality(HeapPages) THEN "mapVga" ELSE pc
        /\ UNCHANGED <<pageFrameMin, pageFrameMax, tlb>>
    BY <1>3 DEF HeapMap
  <2>2. /\ Searchable /\ mapped = {} /\ PMB[SearchStart] = {0} /\ todo = HeapMap0
        /\ pageDir["low"] = Absent /\ pageDir["heap"] = Absent
    BY <1>i, <2>1 DEF Layout
  <2> DEFINE v == <<"heap", 0>>
  <2>3. memMapPage(v, Base) /\ v \in VPages /\ pageDir[v[1]] = Absent
    BY <2>1, <2>2, PagesKnown DEF HeapMap0
  <2>4. pmmAllocPageFrame
    BY <2>3 DEF memMapPage
  <2>5. frame' = Base + 1 /\ PMB'[SearchStart] = {1}
    BY <1>i, <2>1, <2>2, <2>4, AllocInTurns
  <2>6. /\ mapped' = {HeapMap0} /\ pageDir' = [pageDir EXCEPT !["heap"] = Base + 1]
        /\ DOMAIN table' = DOMAIN table \cup {Base + 1}
        /\ \A f \in DOMAIN table \ {Base + 1} : table'[f] = table[f]
        /\ table'[Base + 1] \in Tables /\ table'[Base + 1][0] = Base
    <3>1. frame' \in Nat
      BY <1>b, <2>5
    <3>2. /\ mapped' = mapped \cup {<<v, Base>>}
          /\ pageDir' = [pageDir EXCEPT ![v[1]] = frame']
          /\ DOMAIN table' = DOMAIN table \cup {frame'}
          /\ \A f \in DOMAIN table \ {frame'} : table'[f] = table[f]
          /\ table'[frame'] \in Tables /\ table'[frame'][v[2]] = Base
      BY <1>i, <1>b, <2>3, <3>1, MapAnew
    <3> QED BY <2>2, <2>5, <3>2 DEF HeapMap0
  <2>7. pc' = "mapVga"
    <3>1. Cardinality(mapped') = 1
      BY <2>6, FS_Singleton
    <3> QED BY <2>1, <3>1, PagesKnown
  <2>8. Types'
    BY <1>i, <1>b, <2>6, <2>7 DEF Types
  <2>9. /\ pageDir'["low"] = Absent /\ pageDir'["heap"] = Base + 1
    BY <1>i, <2>2, <2>6 DEF Types
  <2>10. HeapMap0' = HeapMap0 /\ SearchStart' = SearchStart /\ Base' = Base
    BY <1>b, <2>1 DEF HeapMap0
  <2>11. Layout'
    BY <1>b, <2>1, <2>2, <2>5, <2>6, <2>7, <2>9, <2>10 DEF Layout, Searchable, HeapMapped
  <2>12. Remembered'
    BY <1>i, <2>1, <2>7, <2>10 DEF Remembered
  <2> QED BY <1>i, <2>8, <2>11, <2>12 DEF MemInv
<1>4. ASSUME MapVga PROVE MemInv'
  <2> DEFINE v == <<"low", VgaPage>>
  <2>1. /\ pc = "mapVga" /\ pc' = "shell" /\ memMapPage(v, VgaPage)
        /\ UNCHANGED <<pageFrameMin, pageFrameMax, todo, tlb>>
    BY <1>4 DEF MapVga
  <2>2. /\ Searchable /\ HeapMapped /\ pageDir["low"] = Absent
        /\ mapped = {HeapMap0} /\ PMB[SearchStart] = {1}
    BY <1>i, <2>1 DEF Layout
  <2>3. v \in VPages /\ pageDir[v[1]] = Absent /\ VgaPage \in Nat /\ VgaPage \in LowPages
    BY <2>2, PagesKnown
  <2>4. pmmAllocPageFrame
    BY <2>1, <2>3 DEF memMapPage
  <2>5. frame' = Base
    BY <1>i, <2>1, <2>2, <2>4, AllocInTurns
  <2>6. /\ mapped' = {HeapMap0, <<v, VgaPage>>}
        /\ pageDir' = [pageDir EXCEPT !["low"] = Base]
        /\ DOMAIN table' = DOMAIN table \cup {Base}
        /\ \A f \in DOMAIN table \ {Base} : table'[f] = table[f]
        /\ table'[Base] \in Tables /\ table'[Base][VgaPage] = VgaPage
        /\ \A i \in PtIndex \ {VgaPage} : table'[Base][i] = Absent
    <3>1. frame' \in Nat
      BY <1>b, <2>5
    <3>2. /\ mapped' = mapped \cup {<<v, VgaPage>>}
          /\ pageDir' = [pageDir EXCEPT ![v[1]] = frame']
          /\ DOMAIN table' = DOMAIN table \cup {frame'}
          /\ \A f \in DOMAIN table \ {frame'} : table'[f] = table[f]
          /\ table'[frame'] \in Tables /\ table'[frame'][v[2]] = VgaPage
          /\ \A i \in PtIndex \ {v[2]} : table'[frame'][i] = Absent
      BY <1>i, <2>1, <2>3, <3>1, MapAnew
    <3> QED BY <2>2, <2>5, <3>2
  <2>7. Types'
    BY <1>i, <1>b, <2>1, <2>6 DEF Types
  <2>8. pageDir'["low"] = Base /\ pageDir'["heap"] = Base + 1
    BY <1>i, <2>2, <2>6 DEF Types, HeapMapped
  <2>9. HeapMap0' = HeapMap0 /\ SearchStart' = SearchStart /\ Base' = Base
    BY <1>b, <2>1 DEF HeapMap0
  <2>10. HeapMapped'
    <3>1. Base + 1 \in DOMAIN table \ {Base}
      BY <1>b, <2>2 DEF HeapMapped
    <3> QED BY <2>2, <2>6, <2>8, <2>9, <3>1 DEF HeapMapped
  <2>11. LowMapped'
    <3>1. \A i \in LowPages : table'[Base][i] \in {Absent, i}
      BY <2>6, PagesKnown
    <3>2. \A m \in mapped' \ {HeapMap0} : m = <<v, VgaPage>>
      BY <2>6
    <3> QED BY <2>3, <2>6, <2>8, <2>9, <3>1, <3>2 DEF LowMapped
  <2>12. Layout'
    BY <1>b, <2>1, <2>2, <2>9, <2>10, <2>11 DEF Layout, Searchable
  <2>13. Remembered'
    BY <1>i, <2>1, <2>9 DEF Remembered
  <2> QED BY <1>i, <2>7, <2>12, <2>13 DEF MemInv
<1>5. ASSUME ExecMap PROVE MemInv'
  <2> DEFINE n == LoadPage + todo[2]
             v == <<"low", n>>
  <2>1. /\ pc = "exec" /\ todo[2] < Pages[todo[1]] /\ memMapPage(v, n)
        /\ todo' = <<todo[1], todo[2] + 1>>
        /\ UNCHANGED <<pageFrameMin, pageFrameMax, pc, tlb>>
    BY <1>5 DEF ExecMap
  <2>2. /\ Searchable /\ HeapMapped /\ LowMapped
        /\ todo[1] \in Programs /\ todo[2] \in 0 .. Pages[todo[1]]
    BY <1>i, <2>1 DEF Layout
  <2>3. /\ n \in LowPages /\ n \in Nat /\ n \in PtIndex /\ v \in VPages
        /\ todo[2] + 1 \in 0 .. Pages[todo[1]]
    <3>1. Pages[todo[1]] \in Nat
      BY <2>2, PagesKnown
    <3>2. todo[2] \in 0 .. Pages[todo[1]] - 1 /\ todo[2] + 1 \in 0 .. Pages[todo[1]]
      BY <2>1, <2>2, <3>1
    <3>3. n \in LowPages
      BY <2>2, <3>2, PagesKnown
    <3> HIDE DEF n
    <3> QED BY <3>2, <3>3, PagesKnown
  <2>4. /\ Base \in DOMAIN table /\ pageDir[v[1]] = Base
        /\ table[Base][v[2]] \in {Absent, n}
    BY <2>2, <2>3 DEF LowMapped
  <2> HIDE DEF n
  <2>5. /\ UNCHANGED <<PMB, pageDir>> /\ mapped' = mapped \cup {<<v, n>>}
        /\ DOMAIN table' = DOMAIN table
        /\ \A g \in DOMAIN table \ {Base} : table'[g] = table[g]
        /\ table'[Base] \in Tables /\ table'[Base][n] = n
        /\ \A i \in PtIndex \ {n} : table'[Base][i] = table[Base][i]
    <3>1. /\ UNCHANGED <<PMB, pageDir>> /\ mapped' = mapped \cup {<<v, n>>}
          /\ DOMAIN table' = DOMAIN table
          /\ \A g \in DOMAIN table \ {Base} : table'[g] = table[g]
          /\ table'[Base] \in Tables /\ table'[Base][v[2]] = n
          /\ \A i \in PtIndex \ {v[2]} : table'[Base][i] = table[Base][i]
      BY <1>i, <2>1, <2>3, <2>4, MapInto
    <3> QED BY <3>1
  <2>6. Types'
    BY <1>i, <2>1, <2>5 DEF Types
  <2>7. HeapMap0' = HeapMap0 /\ SearchStart' = SearchStart /\ Base' = Base
    BY <1>b, <2>1 DEF HeapMap0
  <2>8. HeapMapped'
    <3>1. Base + 1 \in DOMAIN table \ {Base}
      BY <1>b, <2>2 DEF HeapMapped
    <3> QED BY <2>2, <2>5, <2>7, <3>1 DEF HeapMapped
  <2>9. LowMapped'
    <3>1. \A i \in LowPages : table'[Base][i] \in {Absent, i}
      BY <2>2, <2>5, PagesKnown DEF LowMapped
    <3>2. ASSUME NEW m \in mapped' \ {HeapMap0}
          PROVE  /\ m[1][1] = "low" /\ m[1][2] \in LowPages /\ m[1] \in VPages
                 /\ m[2] = m[1][2] /\ table'[Base][m[2]] = m[2]
      <4>1. CASE m = <<v, n>>
        BY <2>3, <2>5, <4>1
      <4>2. CASE m \in mapped \ {HeapMap0}
        <5>1. /\ m[1][1] = "low" /\ m[1][2] \in LowPages /\ m[1] \in VPages
              /\ m[2] = m[1][2] /\ table[Base][m[2]] = m[2] /\ m[2] \in PtIndex
          BY <2>2, <4>2, PagesKnown DEF LowMapped
        <5>2. table'[Base][m[2]] = m[2]
          <6>1. CASE m[2] = n
            BY <2>5, <6>1
          <6>2. CASE m[2] # n
            BY <2>5, <5>1, <6>2
          <6> QED BY <6>1, <6>2
        <5> QED BY <5>1, <5>2
      <4> QED BY <2>5, <3>2, <4>1, <4>2
    <3> QED BY <2>2, <2>5, <2>7, <3>1, <3>2 DEF LowMapped
  <2>10. Layout'
    BY <1>b, <2>1, <2>2, <2>3, <2>7, <2>8, <2>9 DEF Layout, Searchable
  <2>11. Remembered'
    BY <1>i, <2>1, <2>7 DEF Remembered
  <2> QED BY <1>i, <2>6, <2>10, <2>11 DEF MemInv
<1>6. ASSUME UNCHANGED <<pmmVars, pageDir, table, tlb, mapped>>,
             pc \in {"shell", "exec"}, pc' \in {"shell", "exec"},
             pc' = "exec" => todo'[1] \in Programs /\ todo'[2] \in 0 .. Pages[todo'[1]]
      PROVE  MemInv'
  <2>1. /\ UNCHANGED <<pageFrameMin, pageFrameMax, PMB>>
        /\ HeapMap0' = HeapMap0 /\ SearchStart' = SearchStart /\ Base' = Base
        /\ SearchEnd' = SearchEnd
    BY <1>6, <1>b DEF pmmVars, HeapMap0
  <2>2. Searchable' /\ HeapMapped' /\ LowMapped'
    BY <1>i, <1>6, <2>1 DEF Layout, Searchable, HeapMapped, LowMapped
  <2>3. Layout'
    BY <1>6, <2>2 DEF Layout
  <2>4. Types' /\ Remembered'
    BY <1>i, <1>6, <2>1 DEF Types, Remembered
  <2> QED BY <1>i, <2>3, <2>4 DEF MemInv
<1>7. ASSUME NEW file \in Programs, ExecRun(file) PROVE MemInv'
  <2>1. 0 \in 0 .. Pages[file]
    BY PagesKnown
  <2> QED BY <1>6, <1>7, <2>1 DEF ExecRun
<1>8. ASSUME ExecCall PROVE MemInv'
  BY <1>6, <1>8 DEF ExecCall
<1>9. ASSUME UNCHANGED <<pmmVars, pc, todo, pageDir, table, mapped>>, Remembered'
      PROVE  MemInv'
  <2>1. /\ UNCHANGED <<pageFrameMin, pageFrameMax, PMB>>
        /\ HeapMap0' = HeapMap0 /\ SearchStart' = SearchStart /\ Base' = Base
        /\ SearchEnd' = SearchEnd
    BY <1>9, <1>b DEF pmmVars, HeapMap0
  <2>2. Layout'
    BY <1>i, <1>9, <2>1 DEF Layout, Searchable, HeapMapped, LowMapped
  <2>3. Types'
    BY <1>i, <1>9 DEF Types
  <2> QED BY <1>i, <1>9, <2>2, <2>3 DEF MemInv
<1>10. ASSUME NEW v \in VPages, TlbFill(v) PROVE MemInv'
  <2>1. /\ Walk(v) \notin {Absent, Garbled} /\ tlb' = tlb \cup {<<v, Walk(v)>>}
        /\ UNCHANGED <<pmmVars, pc, todo, pageDir, table, mapped>>
    BY <1>10 DEF TlbFill
  <2>2. Base' = Base
    BY <1>b, <2>1 DEF pmmVars
  <2>3. \/ v[1] = "low" /\ Walk(v) = v[2]
        \/ v = <<"heap", 0>> /\ Walk(v) = Base /\ pc \in {"mapVga", "shell", "exec"}
    BY <1>i, <2>1, WalkInLayout
  <2>4. Remembered'
    BY <1>i, <2>1, <2>2, <2>3 DEF Remembered
  <2> QED BY <1>9, <2>1, <2>4
<1>11. ASSUME NEW t \in tlb, TlbDrop(t) PROVE MemInv'
  <2>1. /\ tlb' \subseteq tlb
        /\ UNCHANGED <<pmmVars, pc, todo, pageDir, table, mapped>>
    BY <1>11 DEF TlbDrop
  <2>2. Base' = Base
    BY <1>b, <2>1 DEF pmmVars
  <2>3. Remembered'
    BY <1>i, <2>1, <2>2 DEF Remembered
  <2> QED BY <1>9, <2>1, <2>3
<1>12. CASE UNCHANGED vars
  <2>1. Base' = Base /\ tlb' = tlb /\ pc' = pc
    BY <1>b, <1>12 DEF vars, pmmVars
  <2>2. Remembered'
    BY <1>i, <2>1 DEF Remembered
  <2> QED BY <1>9, <1>12, <2>2 DEF vars
<1> QED
  BY <1>1, <1>2, <1>3, <1>4, <1>5, <1>7, <1>8, <1>10, <1>11, <1>12 DEF Next

(* Every page of memory.c's tables, and every table, keeps its type; the   *)
(* page directory points to tables that memMapPage has made.               *)
THEOREM TablesStayTyped == Spec => []TypeOK
<1>1. ASSUME MemInv PROVE TypeOK
  <2>1. PmmInv /\ Types /\ Layout /\ Remembered
    BY <1>1 DEF MemInv
  <2>2. Base \in Nat
    BY <2>1, BaseType
  <2>3. \A r \in {"low", "heap"} : pageDir[r] >= 0 => pageDir[r] \in DOMAIN table
    BY <2>1, <2>2 DEF Types, Layout, HeapMapped, LowMapped, Absent, BigPage
  <2>4. ASSUME NEW m \in mapped PROVE m[1] \in VPages
    <3>1. CASE m = HeapMap0
      BY <3>1, PagesKnown DEF HeapMap0
    <3>2. CASE m # HeapMap0
      BY <2>1, <3>2 DEF Types, Layout, LowMapped
    <3> QED BY <3>1, <3>2
  <2>5. \A t \in tlb : t[1] \in VPages
    BY <2>1, PagesKnown DEF Remembered
  <2>6. {t[1] : t \in tlb} \cup {m[1] : m \in mapped} \subseteq VPages
    BY <2>4, <2>5
  <2> QED BY <2>1, <2>3, <2>6 DEF Types, Tables, TypeOK, PmmInv, PmmType
<1> QED BY <1>1, MemStart, MemStep, PTL DEF Spec

(* Every page that memMapPage was asked to map translates to the frame it  *)
(* was asked for, by the tables and by whatever the processor remembers,   *)
(* although the frame of the heap's page is handed out again for the table *)
(* of the first 4 MB and inval never invalidates the page mapped.          *)
THEOREM MappingsHold == Spec => []MappedPagesTranslate
<1>1. ASSUME MemInv PROVE MappedPagesTranslate
  <2>1. PmmInv /\ Types /\ Layout /\ Remembered
    BY <1>1 DEF MemInv
  <2>2. Base \in Nat /\ Base # Absent /\ Base # BigPage /\ Base + 1 # Absent
        /\ Base + 1 # BigPage
    BY <2>1, BaseType DEF Absent, BigPage
  <2>3. ASSUME NEW m \in mapped
        PROVE  Walk(m[1]) = m[2] /\ \A t \in tlb : t[1] = m[1] => t[2] = m[2]
    <3>1. CASE m = HeapMap0
      <4>1. m[1] = <<"heap", 0>> /\ m[2] = Base
        BY <3>1 DEF HeapMap0
      <4>2. HeapMapped
        BY <2>1 DEF Types, Layout
      <4>3. Walk(m[1]) = Base
        BY <2>2, <4>1, <4>2 DEF Walk, HeapMapped
      <4>4. ASSUME NEW t \in tlb, t[1] = m[1] PROVE t[2] = Base
        BY <2>1, <4>1, <4>4 DEF Remembered
      <4> QED BY <4>1, <4>3, <4>4
    <3>2. CASE m # HeapMap0
      <4>1. LowMapped
        BY <2>1, <3>2 DEF Types, Layout
      <4>2. /\ m[1][1] = "low" /\ m[2] = m[1][2] /\ table[Base][m[2]] = m[2]
            /\ pageDir["low"] = Base
        BY <3>2, <4>1 DEF LowMapped
      <4>3. Walk(m[1]) = m[2]
        BY <2>2, <4>2 DEF Walk
      <4>4. ASSUME NEW t \in tlb, t[1] = m[1] PROVE t[2] = m[2]
        <5>1. t[1][1] # "heap"
          BY <4>2, <4>4
        <5>2. t[1] # <<"heap", 0>>
          BY <5>1
        <5> QED BY <2>1, <4>2, <4>4, <5>2 DEF Remembered
      <4> QED BY <4>3, <4>4
    <3> QED BY <3>1, <3>2
  <2> QED BY <2>3 DEF MappedPagesTranslate
<1> QED BY <1>1, MemStart, MemStep, PTL DEF Spec

(* No page of the heap is the frame of the heap's own page table.          *)
THEOREM HeapApartFromItsTable == Spec => []HeapSparesItsTable
<1>1. ASSUME MemInv PROVE HeapSparesItsTable
  <2>1. PmmInv /\ Types /\ Layout
    BY <1>1 DEF MemInv
  <2>2. Base \in Nat
    BY <2>1, BaseType
  <2>3. ASSUME NEW m \in mapped, m[1][1] = "heap" PROVE m[2] # pageDir["heap"]
    <3>1. HeapMapped
      BY <2>1 DEF Types, Layout
    <3>2. m = HeapMap0
      BY <2>1, <2>3 DEF Types, Layout, LowMapped
    <3>3. m[2] = Base
      BY <3>2 DEF HeapMap0
    <3> QED BY <2>2, <3>1, <3>3 DEF HeapMapped
  <2> QED BY <2>3 DEF HeapSparesItsTable
<1> QED BY <1>1, MemStart, MemStep, PTL DEF Spec
=============================================================================
