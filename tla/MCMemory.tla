------------------------------ MODULE MCMemory ------------------------------
(***************************************************************************)
(* Instances of Memory with the addresses of the code, a bitmap cut down   *)
(* to 66 bytes (528 frames) and memory sizes around its end; programs of   *)
(* up to two pages.                                                        *)
(***************************************************************************)
EXTENDS Memory

MCMemUppers == {2080, 2112, 2140, 2144}   \* 520, 528, 535 and 536 frames
MCPages == [p \in Programs |-> CASE p = "empty" -> 0
                                 [] p = "small" -> 1
                                 [] p = "large" -> 2]
=============================================================================
