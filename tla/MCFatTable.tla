----------------------------- MODULE MCFatTable -----------------------------
(***************************************************************************)
(* Instances of FatTable.  Small: a 9-byte table (6 entries, clusters 2 to *)
(* 7 searched) whose clusters 2 and 3 may already be in use.               *)
(***************************************************************************)
EXTENDS FatTable

Fill(buf, used) ==
  [i \in Bytes |->
     IF i \in 0 .. 2 THEN buf[i]
     ELSE LET c2 == Offset(2) c3 == Offset(3)
          IN  CASE i = c2     -> IF 2 \in used THEN 255 ELSE 0
                [] i = c3     -> (IF 2 \in used THEN 15 ELSE 0)
                                   + (IF 3 \in used THEN 240 ELSE 0)
                [] i = c3 + 1 -> IF 3 \in used THEN 255 ELSE 0
                [] OTHER      -> 0]

Reserved == [i \in Bytes |-> IF i = 0 THEN 248 ELSE IF i \in {1, 2} THEN 255 ELSE 0]

MCSmallFats == {Fill(Reserved, used) : used \in SUBSET {2, 3}}

(* The table of the shipped disk.img: FAT16, clusters 3, 4 and 5 in use.   *)
MCShippedFats ==
  {[i \in Bytes |-> IF i = 0 THEN 248
                    ELSE IF i \in (1 .. 3) \cup (6 .. 11) THEN 255 ELSE 0]}
=============================================================================
