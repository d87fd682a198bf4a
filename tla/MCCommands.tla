---------------------------- MODULE MCCommands ----------------------------
(***************************************************************************)
(* A session on a volume of three clusters that holds a file of two.       *)
(***************************************************************************)
EXTENDS Commands

CONSTANTS fa, fb, da, ta, tb

MCSame == [n \in Names |-> n]

MCVolumes ==
  {[fat |-> [f \in 1 .. FatCount |-> [c \in Cluster |-> CASE c = 2 -> 3
                                                          [] c = 3 -> EOC
                                                          [] OTHER -> 0]],
    sector |-> [x \in Sectors |->
      CASE x = <<0, 0>> -> [Blank EXCEPT !.slots[1] = Entry("file", fa, 2, 2, ta)]
        [] x[1] \in {2, 3} -> [tag |-> ta, k |-> x[1] - 2]
        [] OTHER -> Blank]]}

(* The invariants say nothing once a release was cut off, so that such     *)
(* states need no successors.                                              *)
MCUncut == ~torn

(* Until then nothing reads a sector of a free cluster, nor of one that a  *)
(* fault in mkdir has marked and left, and no action reads leaky.  The     *)
(* comparison makes TLC evaluate the sectors.                              *)
MCFree == {c \in Cluster : fat[1][c] = 0 /\ job.buf[c] = 0 /\ c # job.first}
MCUsed == [x \in Sectors |-> IF x[1] \in MCFree THEN Blank ELSE sector[x]]
MCView == <<initialized, fat, MCUsed, sector = sector, cur, path, job, ret, faults,
            torn, mode, cmd>>
=============================================================================
