----------------------------- MODULE PageFrames -----------------------------
(***************************************************************************)
(* The physical page frame allocator of memory.c: pmm_init and             *)
(* pmmAllocPageFrame.  A frame is its number, address / 0x1000; a byte of  *)
(* the bitmap PMB is the set of its bits that are 1.  Frames are never     *)
(* given back.                                                             *)
(***************************************************************************)
EXTENDS Integers

CONSTANTS BitmapLen   \* sizeof(PMB): 16384 in the code, one bit per frame

ASSUME BitmapLenAssumption == BitmapLen \in Nat \ {0}

PageSize == 4096
Bits     == 0 .. 7

CEIL_DIV(x, n) == (x + n - 1) \div n

VARIABLES pageFrameMin,  \* first frame of the managed memory
          pageFrameMax,  \* the frame behind its last one
          PMB,           \* the bitmap
          frame,         \* what pmmAllocPageFrame returned last; 0 is failure
          given          \* ghost: every frame handed out so far

pmmVars == <<pageFrameMin, pageFrameMax, PMB, frame, given>>

(* The bytes of the bitmap that the search looks at. *)
SearchStart == pageFrameMin \div 8 + IF pageFrameMin % 8 # 0 THEN 1 ELSE 0
SearchEnd   == pageFrameMax \div 8 - IF pageFrameMax % 8 # 0 THEN 1 ELSE 0

(* A byte behind the end of PMB is some other variable's; it counts as one *)
(* with a 0 bit, the value that lets the search stop there.                *)
ByteAt(b) == IF b < BitmapLen THEN PMB[b] ELSE {}
Open == {b \in SearchStart .. SearchEnd - 1 : ByteAt(b) # Bits}
Least(S) == CHOOSE x \in S : \A y \in S : x <= y
FreeByte == Least(Open)
FreeBit == Least(Bits \ ByteAt(FreeByte))

pmm_init(memLow, memHigh) ==
  /\ pageFrameMin' = CEIL_DIV(memLow, PageSize)
  /\ pageFrameMax' = memHigh \div PageSize
  /\ PMB' = [b \in 0 .. BitmapLen - 1 |-> {}]

pmmAllocPageFrame_keeping ==
  IF Open = {} THEN frame' = 0 /\ UNCHANGED <<PMB, given>>
  ELSE /\ UNCHANGED PMB
       /\ frame' = FreeByte * 8 + FreeBit
       /\ given' = given \cup {frame'}

pmmAllocPageFrame_shifted ==
  IF Open = {} THEN frame' = 0 /\ UNCHANGED <<PMB, given>>
  ELSE /\ PMB' = [PMB EXCEPT ![FreeByte] = {FreeBit}]
       /\ frame' = FreeByte + FreeBit
       /\ given' = given \cup {frame'}

(* The byte is overwritten with the one bit of the frame taken. *)
pmmAllocPageFrame ==
  IF Open = {} THEN frame' = 0 /\ UNCHANGED <<PMB, given>>
  ELSE /\ PMB' = [PMB EXCEPT ![FreeByte] = {FreeBit}]
       /\ frame' = FreeByte * 8 + FreeBit
       /\ given' = given \cup {frame'}

(* Every frame that was handed out lies wholly in the memory that kmain    *)
(* gave to initMemory, whatever its size and alignment.                    *)
FramesInRange == given \subseteq pageFrameMin .. pageFrameMax - 1
=============================================================================
