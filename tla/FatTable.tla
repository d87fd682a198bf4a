------------------------------ MODULE FatTable ------------------------------
(***************************************************************************)
(* The packed file allocation table of fat.c: two 12-bit entries in three  *)
(* bytes, read by fat_next_cluster, written by fat_set_cluster, searched   *)
(* by fat_find_free_cluster, and the two loops that run over it: the one   *)
(* of fat_write that builds a chain and the one of fat_delete and          *)
(* fat_rmdir that releases a chain.                                        *)
(*                                                                         *)
(* C's shifts and masks are division and remainder by powers of two, and   *)
(* widths are kept: bytes are 0..255 and a stored value loses every bit    *)
(* above the twelfth.                                                      *)
(***************************************************************************)
EXTENDS Integers

CONSTANTS FatSecs,      \* fat_secs: sectors of the table that are loaded
          SectorSize,   \* 512
          InitialFats   \* the tables a run may start from

BufLen == FatSecs * SectorSize

(* total_clusters as fat_write and fat_mkdir compute it. *)
TotalClusters == (BufLen * 2) \div 3

Byte == 0 .. 255
EOC  == 4095   \* 0xFFF, stored for the last cluster of a chain
Last == 4079   \* 0xFEF, the largest value the loops take for a cluster

(***************************************************************************)
(* fat_buf and the bytes behind it.  The search goes up to cluster         *)
(* TotalClusters + 1, whose entry lies past the end of the array, so the   *)
(* up to three bytes that follow fat_buf in memory are part of the state.  *)
(***************************************************************************)
Bytes    == 0 .. (BufLen + 2)
Clusters == 0 .. (TotalClusters + 1)

Offset(c) == c + (c \div 2)

(* The entry in two neighbouring bytes x and y, for an odd and an even     *)
(* cluster, and the bytes that replace them when v is stored there: each   *)
(* keeps the nibble that belongs to the neighbouring entry.                *)
OddEntry(x, y)  == (x + 256 * y) \div 16
EvenEntry(x, y) == (x + 256 * y) % 4096
OddLow(x, v)    == (x % 16) + 16 * (v % 16)
OddHigh(v)      == (v \div 16) % 256
EvenLow(v)      == v % 256
EvenHigh(y, v)  == 16 * (y \div 16) + ((v \div 256) % 16)

fat_next_cluster_unmasked(buf, c) ==
  IF c % 2 = 1 THEN OddEntry(buf[Offset(c)], buf[Offset(c) + 1])
               ELSE buf[Offset(c)] + 256 * buf[Offset(c) + 1]

fat_next_cluster(buf, c) ==
  IF c % 2 = 1 THEN OddEntry(buf[Offset(c)], buf[Offset(c) + 1])
               ELSE EvenEntry(buf[Offset(c)], buf[Offset(c) + 1])

fat_set_cluster_no_merge(buf, c, v) ==
  IF c % 2 = 1
  THEN [buf EXCEPT ![Offset(c)] = OddLow(@, v), ![Offset(c) + 1] = OddHigh(v)]
  ELSE [buf EXCEPT ![Offset(c)] = EvenLow(v), ![Offset(c) + 1] = (v \div 256) % 16]

fat_set_cluster_unshifted(buf, c, v) ==
  IF c % 2 = 1
  THEN [buf EXCEPT ![Offset(c)] = OddLow(@, v), ![Offset(c) + 1] = v % 256]
  ELSE [buf EXCEPT ![Offset(c)] = EvenLow(v), ![Offset(c) + 1] = EvenHigh(@, v)]

fat_set_cluster(buf, c, v) ==
  IF c % 2 = 1
  THEN [buf EXCEPT ![Offset(c)] = OddLow(@, v), ![Offset(c) + 1] = OddHigh(v)]
  ELSE [buf EXCEPT ![Offset(c)] = EvenLow(v), ![Offset(c) + 1] = EvenHigh(@, v)]

FreeClusters(buf) ==
  {c \in 2 .. (TotalClusters + 1) : fat_next_cluster(buf, c) = 0}

(* The first free cluster, or 0 when there is none. *)
fat_find_free_cluster(buf) ==
  IF FreeClusters(buf) = {} THEN 0
  ELSE CHOOSE c \in FreeClusters(buf) : \A d \in FreeClusters(buf) : c <= d

(* A value a table may hold: free, a cluster of the table, or a mark. *)
LinkOK(v) == v = 0 \/ v \in 2 .. (TotalClusters + 1) \/ v > Last

(* Every cluster number fits an entry and stays below the marks. *)
TwelveBits == TotalClusters + 1 <= Last

ASSUME SizesAssumption == FatSecs \in Nat /\ SectorSize \in Nat

ASSUME InitialFatsAssumption ==
  \A buf \in InitialFats :
    /\ buf \in [Bytes -> Byte]
    /\ \A c \in Clusters : LinkOK(fat_next_cluster(buf, c))

-----------------------------------------------------------------------------
VARIABLES fat_buf,  \* the table in memory
          mode,     \* "idle", "write" (chain loop) or "delete" (release loop)
          cluster   \* prev_cluster of the first, cluster of the second

vars == <<fat_buf, mode, cluster>>

Init == /\ fat_buf \in InitialFats
        /\ mode = "idle"
        /\ cluster = 0

BeginWrite == /\ mode = "idle"
              /\ mode' = "write" /\ cluster' = 0
              /\ UNCHANGED fat_buf

(* One turn of fat_write's loop: find, link the predecessor, terminate. *)
AllocCluster ==
  LET c == fat_find_free_cluster(fat_buf)
      linked == IF cluster # 0 THEN fat_set_cluster(fat_buf, cluster, c)
                               ELSE fat_buf
  IN  /\ mode = "write"
      /\ c # 0
      /\ fat_buf' = fat_set_cluster(linked, c, EOC)
      /\ cluster' = c
      /\ UNCHANGED mode

(* fat_delete meets an entry whose first cluster is c. *)
BeginDelete(c) == /\ mode = "idle"
                  /\ mode' = "delete" /\ cluster' = c
                  /\ UNCHANGED fat_buf

FreeCluster_unmasked ==
  /\ mode = "delete"
  /\ cluster >= 2 /\ cluster <= Last
  /\ fat_buf' = fat_set_cluster(fat_buf, cluster, 0)
  /\ cluster' = fat_next_cluster_unmasked(fat_buf, cluster)
  /\ UNCHANGED mode

(* One turn of the release loop; the link is read before it is cleared. *)
FreeCluster == /\ mode = "delete"
               /\ cluster >= 2 /\ cluster <= Last
               /\ fat_buf' = fat_set_cluster(fat_buf, cluster, 0)
               /\ cluster' = fat_next_cluster(fat_buf, cluster)
               /\ UNCHANGED mode

(* The write loop stops when no byte is left or no cluster is free, the    *)
(* release loop when the cursor is no cluster.                             *)
EndLoop == /\ \/ mode = "write"
              \/ mode = "delete" /\ ~(cluster >= 2 /\ cluster <= Last)
           /\ mode' = "idle" /\ cluster' = 0
           /\ UNCHANGED fat_buf

Next == \/ BeginWrite
        \/ AllocCluster
        \/ \E c \in 2 .. (TotalClusters + 1) : BeginDelete(c)
        \/ FreeCluster
        \/ EndLoop

Spec == Init /\ [][Next]_vars

-----------------------------------------------------------------------------
(* The packed table has its type, and so has the cursor of the loop of     *)
(* fat_write or fat_delete that runs over it.                              *)
TypeOK == /\ fat_buf \in [Bytes -> Byte]
          /\ mode \in {"idle", "write", "delete"}
          /\ cluster \in 0 .. EOC
          /\ mode = "idle" => cluster = 0
          /\ mode = "write" => cluster = 0 \/ cluster \in 2 .. (TotalClusters + 1)
          /\ mode = "delete" => LinkOK(cluster)

(* Every link of the table stays in the table: this is what keeps the      *)
(* release loop of fat_delete inside fat_buf.                              *)
LinksInTable == \A c \in Clusters : LinkOK(fat_next_cluster(fat_buf, c))

(* The tail of the chain that fat_write is building carries the end mark,  *)
(* so the search that follows cannot return the tail itself.               *)
TailMarked ==
  mode = "write" /\ cluster # 0 => fat_next_cluster(fat_buf, cluster) = EOC

(* The table read entry by entry behaves as an array: a chain takes only   *)
(* free entries, and neither loop of fat_write or fat_delete disturbs an   *)
(* entry it does not name, although two entries share a byte.              *)
Array == INSTANCE FatArray
           WITH entry <- [c \in Clusters |-> fat_next_cluster(fat_buf, c)],
                mode <- mode, cluster <- cluster, EOC <- EOC
RefinesArray == Array!ASpec

(* The entry of cluster c in a FAT16 table, the format "make disk" writes. *)
Fat16Entry(buf, c) == buf[2 * c] + 256 * buf[2 * c + 1]

(* The loop of fat_write only takes a cluster that is free on a volume     *)
(* made by "make disk", which formats it as FAT16.                         *)
TakesFreeFat16Cluster ==
  [][mode = "write" /\ cluster' # 0 /\ cluster' # cluster
       => Fat16Entry(fat_buf, cluster') = 0]_vars
=============================================================================
