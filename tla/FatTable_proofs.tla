--------------------------- MODULE FatTable_proofs ---------------------------
(***************************************************************************)
(* The packed table of fat.c implements an array of entries, for every     *)
(* table whose cluster numbers fit the twelve bits of an entry.            *)
(***************************************************************************)
EXTENDS FatTable, WellFoundedInduction, TLAPS

(* BufLen and TotalClusters are natural numbers. *)
LEMMA Sizes == /\ BufLen \in Nat
               /\ TotalClusters \in Nat
               /\ 3 * TotalClusters <= 2 * BufLen
<1>1. BufLen \in Nat
  BY SizesAssumption DEF BufLen
<1>2. QED
  BY <1>1, SMT DEF TotalClusters

(* The two bytes of an entry lie among Bytes. *)
LEMMA OffsetInBytes ==
  ASSUME NEW c \in Clusters
  PROVE  /\ Offset(c) \in Bytes
         /\ Offset(c) + 1 \in Bytes
         /\ Offset(c) \in Nat
BY Sizes, SMT DEF Clusters, Bytes, Offset

(* Two different entries share at most one byte: the second byte of the    *)
(* even one is the first byte of the odd one that follows it.              *)
LEMMA OffsetsApart ==
  ASSUME NEW c \in Nat, NEW d \in Nat, c < d
  PROVE  /\ Offset(c) < Offset(d)
         /\ (c % 2 = 1 \/ d # c + 1) => Offset(c) + 1 < Offset(d)
         /\ (c % 2 = 0 /\ d = c + 1) => Offset(c) + 1 = Offset(d)
BY SMT DEF Offset

(***************************************************************************)
(* Arithmetic of two neighbouring bytes x and y: reading twelve bits out   *)
(* of them, and what writing a value v into one half leaves in the other.  *)
(***************************************************************************)
(* An entry read out of two bytes has twelve bits. *)
LEMMA EntryType ==
  ASSUME NEW x \in Byte, NEW y \in Byte
  PROVE  OddEntry(x, y) \in 0 .. EOC /\ EvenEntry(x, y) \in 0 .. EOC
BY SMT DEF Byte, OddEntry, EvenEntry, EOC

(* What fat_set_cluster stores are bytes. *)
LEMMA ByteType ==
  ASSUME NEW x \in Byte, NEW v \in Nat
  PROVE  /\ OddLow(x, v) \in Byte /\ OddHigh(v) \in Byte
         /\ EvenLow(v) \in Byte /\ EvenHigh(x, v) \in Byte
BY SMT DEF Byte, OddLow, OddHigh, EvenLow, EvenHigh

(* The twelve bits written are the twelve bits read. *)
LEMMA EntryWritten ==
  ASSUME NEW x \in Byte, NEW v \in 0 .. EOC
  PROVE  /\ OddEntry(OddLow(x, v), OddHigh(v)) = v
         /\ EvenEntry(EvenLow(v), EvenHigh(x, v)) = v
BY SMT DEF Byte, EOC, OddEntry, EvenEntry, OddLow, OddHigh, EvenLow, EvenHigh

(* Writing one entry keeps the half of the shared byte that is not its. *)
LEMMA EntryKept ==
  ASSUME NEW x \in Byte, NEW y \in Byte, NEW v \in Nat
  PROVE  /\ EvenEntry(x, OddLow(y, v)) = EvenEntry(x, y)
         /\ OddEntry(EvenHigh(x, v), y) = OddEntry(x, y)
BY SMT DEF Byte, OddEntry, EvenEntry, OddLow, EvenHigh

(* fat_next_cluster returns twelve bits. *)
LEMMA NextType ==
  ASSUME NEW buf \in [Bytes -> Byte], NEW c \in Clusters
  PROVE  fat_next_cluster(buf, c) \in 0 .. EOC
<1>1. buf[Offset(c)] \in Byte /\ buf[Offset(c) + 1] \in Byte
  BY OffsetInBytes
<1>2. QED
  BY <1>1, EntryType DEF fat_next_cluster

(* fat_set_cluster keeps bytes bytes. *)
LEMMA SetType ==
  ASSUME NEW buf \in [Bytes -> Byte], NEW c \in Clusters, NEW v \in Nat
  PROVE  fat_set_cluster(buf, c, v) \in [Bytes -> Byte]
<1>1. buf[Offset(c)] \in Byte /\ buf[Offset(c) + 1] \in Byte
  BY OffsetInBytes
<1>2. Offset(c) # Offset(c) + 1
  BY OffsetInBytes
<1>3. QED
  BY <1>1, <1>2, ByteType, OffsetInBytes DEF fat_set_cluster

(* The entry just written reads back. *)
LEMMA SetReadsBack ==
  ASSUME NEW buf \in [Bytes -> Byte], NEW c \in Clusters, NEW v \in 0 .. EOC
  PROVE  fat_next_cluster(fat_set_cluster(buf, c, v), c) = v
<1> DEFINE o == Offset(c)
           new == fat_set_cluster(buf, c, v)
<1>1. buf[o] \in Byte /\ buf[o + 1] \in Byte /\ o # o + 1
      /\ o \in DOMAIN buf /\ o + 1 \in DOMAIN buf
  BY OffsetInBytes
<1>2. CASE c % 2 = 1
  <2>1. new[o] = OddLow(buf[o], v) /\ new[o + 1] = OddHigh(v)
    BY <1>1, <1>2 DEF fat_set_cluster
  <2>2. QED
    BY <1>1, <1>2, <2>1, EntryWritten DEF fat_next_cluster
<1>3. CASE c % 2 # 1
  <2>1. new[o] = EvenLow(v) /\ new[o + 1] = EvenHigh(buf[o + 1], v)
    BY <1>1, <1>3 DEF fat_set_cluster
  <2>2. QED
    BY <1>1, <1>3, <2>1, EntryWritten DEF fat_next_cluster
<1>4. QED
  BY <1>2, <1>3

(* Every other entry keeps its value, the neighbour in the shared byte     *)
(* included.                                                               *)
LEMMA SetKeepsOthers ==
  ASSUME NEW buf \in [Bytes -> Byte], NEW c \in Clusters, NEW v \in Nat,
         NEW d \in Clusters, d # c
  PROVE  fat_next_cluster(fat_set_cluster(buf, c, v), d) = fat_next_cluster(buf, d)
<1> DEFINE o == Offset(c)
           p == Offset(d)
           new == fat_set_cluster(buf, c, v)
<1>0. /\ c \in Nat /\ d \in Nat /\ o \in Nat /\ p \in Nat
      /\ o \in DOMAIN buf /\ o + 1 \in DOMAIN buf
      /\ p \in DOMAIN buf /\ p + 1 \in DOMAIN buf
      /\ buf[o] \in Byte /\ buf[o + 1] \in Byte
      /\ buf[p] \in Byte /\ buf[p + 1] \in Byte
  BY OffsetInBytes, Sizes DEF Clusters
<1>1. \A i \in DOMAIN buf : i # o /\ i # o + 1 => new[i] = buf[i]
  BY <1>0 DEF fat_set_cluster
<1>2. CASE c % 2 = 1 /\ c = d + 1
  <2>1. p + 1 = o /\ p < o /\ d % 2 = 0
    BY <1>0, <1>2, OffsetsApart
  <2>2. new[p] = buf[p]
    BY <1>0, <1>1, <2>1
  <2>3. new[p + 1] = OddLow(buf[p + 1], v)
    BY <1>0, <1>2, <2>1 DEF fat_set_cluster
  <2>4. QED
    BY <1>0, <2>1, <2>2, <2>3, EntryKept DEF fat_next_cluster
<1>3. CASE c % 2 = 0 /\ d = c + 1
  <2>1. o + 1 = p /\ o < p /\ d % 2 = 1
    BY <1>0, <1>3, OffsetsApart
  <2>2. new[p + 1] = buf[p + 1]
    BY <1>0, <1>1, <2>1
  <2>3. new[p] = EvenHigh(buf[p], v)
    BY <1>0, <1>3, <2>1 DEF fat_set_cluster
  <2>4. QED
    BY <1>0, <2>1, <2>2, <2>3, EntryKept DEF fat_next_cluster
<1>4. CASE ~(c % 2 = 1 /\ c = d + 1) /\ ~(c % 2 = 0 /\ d = c + 1)
  <2>1. CASE c < d
    <3>1. c % 2 = 1 \/ d # c + 1
      BY <1>0, <1>4, SMT
    <3>2. o < p /\ o + 1 < p
      BY <1>0, <2>1, <3>1, OffsetsApart
    <3>3. new[p] = buf[p] /\ new[p + 1] = buf[p + 1]
      BY <1>0, <1>1, <3>2
    <3>4. QED
      BY <3>3 DEF fat_next_cluster
  <2>2. CASE d < c
    <3>1. d % 2 = 1 \/ c # d + 1
      BY <1>0, <1>4, SMT
    <3>2. p < o /\ p + 1 < o
      BY <1>0, <2>2, <3>1, OffsetsApart
    <3>3. new[p] = buf[p] /\ new[p + 1] = buf[p + 1]
      BY <1>0, <1>1, <3>2
    <3>4. QED
      BY <3>3 DEF fat_next_cluster
  <2>3. QED
    BY <1>0, <2>1, <2>2
<1>5. QED
  BY <1>2, <1>3, <1>4

(* A nonempty set of natural numbers has a least element. *)
LEMMA LeastElement ==
  ASSUME NEW S \in SUBSET Nat, S # {}
  PROVE  \E m \in S : \A k \in S : m <= k
<1>1. PICK R : R = OpToRel(<, Nat)
  OBVIOUS
<1>2. PICK m \in S : \A k \in S : <<k, m>> \notin R
  BY <1>1, NatLessThanWellFounded, WFMin
<1>3. \A k \in S : ~(k < m)
  BY <1>1, <1>2 DEF OpToRel
<1> QED BY <1>3

(* The search returns 0 or the number of a free cluster. *)
LEMMA FindFree ==
  ASSUME NEW buf
  PROVE  LET c == fat_find_free_cluster(buf)
         IN  c = 0 \/ (c \in 2 .. (TotalClusters + 1) /\ fat_next_cluster(buf, c) = 0)
<1>1. CASE FreeClusters(buf) = {}
  BY <1>1 DEF fat_find_free_cluster
<1>2. CASE FreeClusters(buf) # {}
  <2>1. FreeClusters(buf) \in SUBSET Nat
    BY Sizes DEF FreeClusters
  <2>2. \E m \in FreeClusters(buf) : \A k \in FreeClusters(buf) : m <= k
    BY <1>2, <2>1, LeastElement
  <2>3. fat_find_free_cluster(buf) \in FreeClusters(buf)
    BY <1>2, <2>2 DEF fat_find_free_cluster
  <2>4. QED
    BY <2>3 DEF FreeClusters
<1>3. QED
  BY <1>1, <1>2

(* The array of entries that a packed table holds. *)
Entries(buf) == [c \in Clusters |-> fat_next_cluster(buf, c)]

(* Storing a value in the packed table is storing it in the array. *)
LEMMA SetIsArrayUpdate ==
  ASSUME NEW buf \in [Bytes -> Byte], NEW c \in Clusters, NEW v \in 0 .. EOC
  PROVE  Entries(fat_set_cluster(buf, c, v)) = [Entries(buf) EXCEPT ![c] = v]
<1>1. v \in Nat
  BY DEF EOC
<1>2. \A d \in Clusters :
        fat_next_cluster(fat_set_cluster(buf, c, v), d)
          = IF d = c THEN v ELSE fat_next_cluster(buf, d)
  BY <1>1, SetReadsBack, SetKeepsOthers
<1>3. QED
  BY <1>2 DEF Entries

(* One turn of the chain loop, read entry by entry. *)
LEMMA AllocStep ==
  ASSUME TwelveBits, TypeOK, AllocCluster
  PROVE  /\ cluster' \in 2 .. (TotalClusters + 1)
         /\ Entries(fat_buf)[cluster'] = 0
         /\ fat_buf' \in [Bytes -> Byte]
         /\ IF cluster = 0
            THEN Entries(fat_buf)' = [Entries(fat_buf) EXCEPT ![cluster'] = EOC]
            ELSE Entries(fat_buf)' = [Entries(fat_buf) EXCEPT ![cluster] = cluster',
                                                              ![cluster'] = EOC]
<1> DEFINE c == fat_find_free_cluster(fat_buf)
           linked == IF cluster # 0 THEN fat_set_cluster(fat_buf, cluster, c)
                                    ELSE fat_buf
<1>1. /\ cluster' = c /\ mode = "write" /\ c # 0
      /\ fat_buf' = fat_set_cluster(linked, c, EOC)
  BY DEF AllocCluster
<1>2. c \in 2 .. (TotalClusters + 1) /\ fat_next_cluster(fat_buf, c) = 0
  BY <1>1, FindFree
<1>3. c \in Clusters /\ c \in 0 .. EOC /\ c \in Nat
  <2> HIDE DEF c, linked
  <2> QED BY <1>2, Sizes DEF Clusters, TwelveBits, Last, EOC
<1>4. cluster = 0 \/ cluster \in Clusters
  BY <1>1, Sizes DEF TypeOK, Clusters
<1>5. EOC \in 0 .. EOC /\ EOC \in Nat
  BY DEF EOC
<1>6. /\ linked \in [Bytes -> Byte]
      /\ Entries(linked) = IF cluster # 0
                           THEN [Entries(fat_buf) EXCEPT ![cluster] = c]
                           ELSE Entries(fat_buf)
  <2> HIDE DEF c
  <2> QED BY <1>3, <1>4, SetType, SetIsArrayUpdate DEF TypeOK
<1>7. /\ fat_buf' \in [Bytes -> Byte]
      /\ Entries(fat_buf') = [Entries(linked) EXCEPT ![c] = EOC]
  <2> HIDE DEF c, linked
  <2> QED BY <1>1, <1>3, <1>5, <1>6, SetType, SetIsArrayUpdate
<1>8. QED
  <2> HIDE DEF c, linked
  <2> QED BY <1>1, <1>2, <1>3, <1>6, <1>7 DEF Entries

(* One turn of the release loop, read entry by entry. *)
LEMMA ReleaseStep ==
  ASSUME TwelveBits, TypeOK, FreeCluster
  PROVE  /\ cluster \in Clusters
         /\ cluster' = Entries(fat_buf)[cluster]
         /\ fat_buf' \in [Bytes -> Byte]
         /\ Entries(fat_buf)' = [Entries(fat_buf) EXCEPT ![cluster] = 0]
<1>1. cluster \in Clusters
  BY Sizes DEF FreeCluster, TypeOK, LinkOK, Clusters, Last, EOC
<1>2. 0 \in 0 .. EOC /\ 0 \in Nat
  BY DEF EOC
<1>3. QED
  BY <1>1, <1>2, SetType, SetIsArrayUpdate DEF FreeCluster, TypeOK, Entries

(* The inductive invariant: LinksInTable keeps the release loop in the     *)
(* table, TailMarked keeps the search from returning the chain's own tail. *)
Inv == TypeOK /\ LinksInTable /\ TailMarked

(* A type-correct table in which every link stays in the table remains so. *)
LEMMA InvStep ==
  ASSUME TwelveBits, Inv, [Next]_vars
  PROVE  Inv'
<1> USE DEF Inv
<1>1. CASE BeginWrite
  BY <1>1 DEF BeginWrite, TypeOK, LinksInTable, TailMarked
<1>2. CASE AllocCluster
  <2>0. cluster' \in 2 .. (TotalClusters + 1) /\ fat_buf' \in [Bytes -> Byte]
    BY <1>2, AllocStep
  <2>1. TypeOK'
    <3>1. mode' = "write"
      BY <1>2 DEF AllocCluster, TypeOK
    <3>2. cluster' \in 0 .. EOC
      BY <2>0, Sizes DEF TwelveBits, Last, EOC
    <3>3. QED
      BY <2>0, <3>1, <3>2 DEF TypeOK
  <2>2. \A c \in Clusters : \/ Entries(fat_buf)'[c] = Entries(fat_buf)[c]
                              \/ Entries(fat_buf)'[c] = EOC
                              \/ Entries(fat_buf)'[c] = cluster'
    BY <1>2, AllocStep DEF Entries
  <2>3. LinkOK(EOC) /\ LinkOK(cluster')
    BY <1>2, AllocStep DEF LinkOK, EOC, Last
  <2>4. \A c \in Clusters : LinkOK(Entries(fat_buf)'[c])
    BY <2>2, <2>3 DEF LinksInTable, Entries
  <2>5. TailMarked'
    <3>1. cluster' \in Clusters
      BY <2>0, Sizes DEF Clusters
    <3>2. Entries(fat_buf)'[cluster'] = EOC
      BY <1>2, <3>1, AllocStep DEF Entries
    <3>3. QED
      BY <3>1, <3>2 DEF TailMarked, Entries
  <2>6. QED
    BY <2>1, <2>4, <2>5 DEF LinksInTable, Entries
<1>3. CASE \E c \in 2 .. (TotalClusters + 1) : BeginDelete(c)
  BY <1>3, Sizes DEF BeginDelete, TypeOK, LinksInTable, TailMarked,
                     LinkOK, TwelveBits, Last, EOC
<1>4. CASE FreeCluster
  <2>1. cluster' \in 0 .. EOC /\ LinkOK(cluster')
    BY <1>4, ReleaseStep, NextType DEF TypeOK, LinksInTable, Entries
  <2>2. TypeOK'
    BY <1>4, <2>1, ReleaseStep DEF TypeOK, FreeCluster
  <2>3. \A c \in Clusters : Entries(fat_buf)'[c] \in {0, Entries(fat_buf)[c]}
    BY <1>4, ReleaseStep DEF Entries
  <2>4. \A c \in Clusters : LinkOK(Entries(fat_buf)'[c])
    BY <2>3 DEF LinksInTable, Entries, LinkOK
  <2>5. QED
    BY <1>4, <2>2, <2>4 DEF FreeCluster, LinksInTable, TailMarked, Entries
<1>5. CASE EndLoop
  BY <1>5 DEF EndLoop, TypeOK, LinksInTable, TailMarked, EOC
<1>6. CASE UNCHANGED vars
  BY <1>6 DEF vars, TypeOK, LinksInTable, TailMarked
<1>7. QED
  BY <1>1, <1>2, <1>3, <1>4, <1>5, <1>6 DEF Next

(* The tables that load_fat reads satisfy the invariant. *)
LEMMA InvInit == Init => Inv
BY InitialFatsAssumption, SMT DEF Init, Inv, TypeOK, LinksInTable, TailMarked, EOC

(* Every run of fat_write's and fat_delete's loops over a table of at most *)
(* 4078 clusters keeps each link inside the table, so neither loop leaves  *)
(* fat_buf.                                                                *)
THEOREM LinksStayInTable ==
  ASSUME TwelveBits
  PROVE  Spec => [](TypeOK /\ LinksInTable)
<1>1. Inv /\ [Next]_vars => Inv'
  BY InvStep
<1>2. Inv => TypeOK /\ LinksInTable
  BY DEF Inv
<1>3. QED
  BY <1>1, <1>2, InvInit, PTL DEF Spec

(* The operation in progress is at a cluster of the table or at an end     *)
(* mark, and fat_buf holds bytes.                                          *)
THEOREM TableStaysTyped ==
  ASSUME TwelveBits
  PROVE  Spec => []TypeOK
<1>1. Inv /\ [Next]_vars => Inv'
  BY InvStep
<1>2. Inv => TypeOK
  BY DEF Inv
<1>3. QED
  BY <1>1, <1>2, InvInit, PTL DEF Spec

(* Such a table implements the array of FatArray: chains take free entries *)
(* only, and no store disturbs the entry that shares a byte with it.       *)
THEOREM TableRefinesArray ==
  ASSUME TwelveBits
  PROVE  Spec => RefinesArray
<1>1. Init => Array!AInit
  <2> SUFFICES ASSUME Init PROVE Array!AInit
    OBVIOUS
  <2>1. \A c \in Clusters : fat_next_cluster(fat_buf, c) \in Nat
    <3>1. fat_buf \in [Bytes -> Byte]
      BY InvInit DEF Inv, TypeOK
    <3>2. 0 .. EOC \subseteq Nat
      BY DEF EOC
    <3>3. QED
      BY <3>1, <3>2, NextType
  <2>2. QED
    BY <2>1 DEF Init, Array!AInit
<1>2. Inv /\ [Next]_vars => [Array!ANext]_(Array!arrayVars)
  <2> SUFFICES ASSUME Inv, [Next]_vars
               PROVE  Array!ANext \/ UNCHANGED Array!arrayVars
    OBVIOUS
  <2> USE DEF Inv
  <2>1. CASE BeginWrite
    BY <2>1 DEF BeginWrite, Array!ANext, Array!ABegin
  <2>2. CASE AllocCluster
    <3>1. cluster' \in Clusters /\ (cluster # 0 => cluster' # cluster)
      <4>1. /\ cluster' \in 2 .. (TotalClusters + 1)
            /\ Entries(fat_buf)[cluster'] = 0
        BY <2>2, AllocStep
      <4>2. cluster' \in Clusters
        BY <4>1, Sizes DEF Clusters
      <4>3. cluster # 0 => cluster \in Clusters /\ Entries(fat_buf)[cluster] = EOC
        BY <2>2, Sizes DEF AllocCluster, TypeOK, TailMarked, Entries, Clusters
      <4>4. QED
        BY <4>1, <4>2, <4>3 DEF EOC
    <3>2. CASE cluster = 0
      BY <2>2, <3>1, <3>2, AllocStep DEF AllocCluster, Entries, Array!ANext, Array!AFirst
    <3>3. CASE cluster # 0
      BY <2>2, <3>1, <3>3, AllocStep DEF AllocCluster, Entries, Array!ANext, Array!AExtend
    <3>4. QED
      BY <3>2, <3>3
  <2>3. CASE \E c \in 2 .. (TotalClusters + 1) : BeginDelete(c)
    BY <2>3, Sizes DEF BeginDelete, Clusters, Array!ANext, Array!ABegin
  <2>4. CASE FreeCluster
    BY <2>4, ReleaseStep DEF FreeCluster, Entries, Array!ANext, Array!ARelease
  <2>5. CASE EndLoop
    BY <2>5 DEF EndLoop, Array!ANext, Array!AEnd
  <2>6. CASE UNCHANGED vars
    BY <2>6 DEF vars, Array!arrayVars
  <2>7. QED
    BY <2>1, <2>2, <2>3, <2>4, <2>5, <2>6 DEF Next
<1>3. QED
  BY <1>1, <1>2, InvInit, InvStep, PTL DEF Spec, RefinesArray, Array!ASpec
=============================================================================
