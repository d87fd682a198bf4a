------------------------------ MODULE FatArray ------------------------------
(***************************************************************************)
(* What the driver needs from a file allocation table: an array with one   *)
(* entry per cluster, in which building a chain takes free entries only    *)
(* and releasing a chain clears exactly the entries it walks.  FatTable,   *)
(* the packed 12-bit table of fat.c, is shown to implement it.             *)
(***************************************************************************)
EXTENDS Integers

CONSTANTS Clusters,  \* the table's index set
          EOC        \* the end-of-chain mark

VARIABLES entry,     \* entry[c]: the successor of c, 0 (free) or an end mark
          mode,      \* "idle", or the loop that is running over the table
          cluster    \* that loop's cursor; 0 before a chain has a cluster

arrayVars == <<entry, mode, cluster>>

AInit == /\ entry \in [Clusters -> Nat]
         /\ mode = "idle"
         /\ cluster = 0

(* A loop starts or stops; the table is left alone. *)
ABegin == /\ mode = "idle"
          /\ \/ mode' = "write" /\ cluster' = 0
             \/ mode' = "delete" /\ cluster' \in Clusters
          /\ UNCHANGED entry

AEnd == /\ mode # "idle"
        /\ mode' = "idle" /\ cluster' = 0
        /\ UNCHANGED entry

(* The first cluster of a chain: a free entry becomes an end mark. *)
AFirst == /\ mode = "write" /\ cluster = 0
          /\ \E c \in Clusters :
               /\ entry[c] = 0
               /\ entry' = [entry EXCEPT ![c] = EOC]
               /\ cluster' = c
          /\ UNCHANGED mode

(* A further cluster: the old tail now links to it. *)
AExtend == /\ mode = "write" /\ cluster # 0
           /\ \E c \in Clusters \ {cluster} :
                /\ entry[c] = 0
                /\ entry' = [entry EXCEPT ![cluster] = c, ![c] = EOC]
                /\ cluster' = c
           /\ UNCHANGED mode

(* Releasing one cluster and moving to its successor. *)
ARelease == /\ mode = "delete" /\ cluster \in Clusters
            /\ entry' = [entry EXCEPT ![cluster] = 0]
            /\ cluster' = entry[cluster]
            /\ UNCHANGED mode

ANext == ABegin \/ AEnd \/ AFirst \/ AExtend \/ ARelease

ASpec == AInit /\ [][ANext]_arrayVars
=============================================================================
