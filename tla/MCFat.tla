-------------------------------- MODULE MCFat --------------------------------
(***************************************************************************)
(* Instances of Fat: files on clusters of two sectors with two copies of   *)
(* the table, and a tree; one fault in each.                               *)
(***************************************************************************)
EXTENDS Fat, TLC

CONSTANTS fa, fb, da, ta, tb

MCSame == [n \in Names |-> n]

(* fb stands for a name of more than eight characters, which split_83 cuts *)
(* to the name fa.                                                         *)
MCCut == [n \in Names |-> IF n = fb THEN fa ELSE n]

(* File contents are interchangeable. *)
MCSymmetry == Permutations(Tags)

(* No action reads ret.  Of what finished operations returned, a view      *)
(* keeps what the invariants of its run read.                              *)
MCDisk  == <<initialized, fat, sector, cur, path, job, faults, torn, leaky>>
MCWrite == <<MCDisk, IF ret.op = "write" /\ ret.code = 0 THEN ret ELSE ret.code>>
=============================================================================
