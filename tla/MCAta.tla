-------------------------------- MODULE MCAta --------------------------------
(***************************************************************************)
(* Instances of Ata: two sectors, two contents.                            *)
(***************************************************************************)
EXTENDS Ata

CONSTANTS l1, l2, v1, v2
=============================================================================
