----------------------------- MODULE Fat_proofs -----------------------------
(***************************************************************************)
(* Proofs about Fat for every geometry of the volume, any names and        *)
(* contents, and any number of crashes and failed accesses.                *)
(*                                                                         *)
(* Links only ever lead upwards: fat_write takes the least free cluster,   *)
(* so everything below the last cluster it took is taken, and the next one *)
(* lies above.  Any mixture of the sectors of two such tables, which is    *)
(* what a crash or a failed write leaves on the disk, still leads upwards, *)
(* and a chain that leads upwards ends.                                    *)
(*                                                                         *)
(* The second half is about the tree of directories: what Sound says of it *)
(* goes from a set D of directories to After(D) with every step, and from  *)
(* that follow who owns a cluster, what the files hold, where the path     *)
(* leads, that a write reads back and that no cluster is lost.             *)
(***************************************************************************)
EXTENDS FatTree, FiniteSetTheorems, WellFoundedInduction, TLAPS

-----------------------------------------------------------------------------
(* Facts about numbers and functions on them.                              *)

(* A nonempty set of natural numbers has a least element. *)
LEMMA LeastElement ==
  ASSUME NEW S \in SUBSET Nat, S # {}
  PROVE  \E m \in S : \A k \in S : m <= k
<1>1. PICK R : R = OpToRel(<, Nat)
  OBVIOUS
<1>2. PICK m \in S : \A k \in S : <<k, m>> \notin R
  BY <1>1, NatLessThanWellFounded, WFMin
<1>3. \A k \in S : ~(k < m)
  BY <1>1, <1>2 DEF OpToRel
<1> QED BY <1>3

(* What holds of 0, and of a number when it holds of the one before, holds *)
(* of every number: here a property is the set of the numbers that have it.*)
LEMMA SetInduction ==
  ASSUME NEW P, NEW n \in Nat, 0 \in P,
         \A i \in 1 .. n : i - 1 \in P => i \in P
  PROVE  \A i \in 0 .. n : i \in P
<1> SUFFICES ASSUME NEW S, S = {i \in 0 .. n : i \notin P}, S # {} PROVE FALSE
  OBVIOUS
<1>1. S \in SUBSET Nat
  OBVIOUS
<1>2. PICK m \in S : \A k \in S : m <= k
  BY <1>1, LeastElement
<1>3. m \in 1 .. n /\ m - 1 \in 0 .. n /\ m - 1 \notin S
  BY <1>2
<1> QED BY <1>2, <1>3

(* f starts with a and goes on as the functions F[1], F[2], ... say. *)
Recursive(f, n, a, F) == f = [i \in 0 .. n |-> IF i = 0 THEN a ELSE F[i][f[i - 1]]]

(* A function on 0 .. n may be defined by recursion. *)
LEMMA RecursionExists ==
  ASSUME NEW n \in Nat, NEW a, NEW F
  PROVE  \E f : Recursive(f, n, a, F)
<1> DEFINE P == {m \in 0 .. n : \E f : Recursive(f, m, a, F)}
<1>1. 0 \in P
  <2>1. Recursive([i \in 0 .. 0 |-> a], 0, a, F)
    BY DEF Recursive
  <2> QED BY <2>1
<1>2. ASSUME NEW m \in 1 .. n, m - 1 \in P PROVE m \in P
  <2>1. PICK g : Recursive(g, m - 1, a, F)
    BY <1>2
  <2> DEFINE f == [i \in 0 .. m |-> IF i < m THEN g[i] ELSE F[m][g[m - 1]]]
  <2>2. ASSUME NEW i \in 0 .. m
        PROVE  f[i] = IF i = 0 THEN a ELSE F[i][f[i - 1]]
    <3>1. CASE i = 0
      BY <2>1, <3>1 DEF Recursive
    <3>2. CASE i # 0 /\ i < m
      <4>1. i \in 0 .. m - 1 /\ i - 1 \in 0 .. m - 1 /\ i - 1 \in 0 .. m /\ i - 1 < m
        BY <3>2
      <4>2. f[i] = g[i] /\ f[i - 1] = g[i - 1]
        BY <3>2, <4>1
      <4>3. g[i] = F[i][g[i - 1]]
        BY <2>1, <3>2, <4>1 DEF Recursive
      <4> QED BY <3>2, <4>2, <4>3
    <3>3. CASE i = m
      <4>1. m # 0 /\ m - 1 \in 0 .. m /\ m - 1 < m
        OBVIOUS
      <4>2. f[m] = F[m][g[m - 1]] /\ f[m - 1] = g[m - 1]
        BY <4>1
      <4> QED BY <3>3, <4>1, <4>2
    <3> QED BY <3>1, <3>2, <3>3
  <2>3. f = [i \in 0 .. m |-> f[i]]
    OBVIOUS
  <2>4. Recursive(f, m, a, F)
    <3> HIDE DEF f
    <3> QED BY <2>2, <2>3, Zenon DEF Recursive
  <2> HIDE DEF f
  <2> QED BY <2>4
<1>3. n \in P
  <2> HIDE DEF P
  <2> QED BY <1>1, <1>2, SetInduction
<1> QED BY <1>3

-----------------------------------------------------------------------------

Jobs == [pc   : {"idle", "free", "erase", "load", "data", "putfat", "dots", "entry"},
         op   : {"", "delete", "rmdir", "write", "mkdir"},
         name : Names \cup {""}, tag : Tags \cup {""}, size : 0 .. MaxSize,
         buf  : Tables, w : 0 .. LastFatSector, at : Sectors, slot : 0 .. EPS,
         k    : 0 .. MaxSize, first : Cluster \cup {0}, prev : Cluster \cup {0}]

(* What the operation in progress knows at each of its steps. *)
Phases ==
  /\ job.pc \in {"load", "data"} => job.op = "write" /\ job.w = 0
  /\ job.pc = "load" => job.prev = 0 /\ job.k = 0
  /\ job.pc = "data" => job.k < job.size
  /\ job.pc \in {"putfat", "entry"} => job.op \in {"write", "mkdir"}
  /\ job.pc = "dots" => job.op = "mkdir"
  /\ job.op = "write" => job.name \in Names /\ job.tag \in Tags
  /\ job.op = "mkdir" => job.name \in Names /\ job.first \in Cluster

Types ==
  /\ initialized \in BOOLEAN /\ torn \in BOOLEAN /\ leaky \in BOOLEAN
  /\ fat \in [1 .. FatCount -> Tables]
  /\ sector \in [Sectors -> DataSectors \cup DirSectors]
  /\ cur \in Cluster \cup {0}
  /\ path \in Seq(Names) /\ Len(path) <= MaxDepth
  /\ ret.code \in {0, -1}
  /\ faults \in 0 .. MaxFaults
  /\ job \in Jobs

TInv == Types /\ Phases

(* Links lead upwards. *)
Upward(buf) == \A c \in Cluster : buf[c] \in {0, EOC} \/ buf[c] > c

Climbing ==
  /\ Upward(job.buf) /\ \A f \in 1 .. FatCount : Upward(fat[f])
  /\ job.pc = "data" => \A c \in Cluster : c <= job.prev => job.buf[c] # 0

(* The number of the write that brings entry c of copy f to the disk. *)
WriteOf(f, c) == (f - 1) * FatSecs + FatSectorOf(c)

(* As long as nothing failed, write_fat has brought the table in memory to *)
(* the disk as far as it came.                                             *)
Copying ==
  faults = 0 =>
    /\ job.pc \notin {"free", "putfat"} => \A f \in 1 .. FatCount : fat[f] = fat[1]
    /\ job.pc \in {"free", "putfat"} =>
         \A f \in 1 .. FatCount, c \in Cluster :
           WriteOf(f, c) < job.w => fat[f][c] = job.buf[c]


-----------------------------------------------------------------------------
(* Arithmetic of rows of m: the entries of a sector, the sectors of a      *)
(* cluster and of a copy of the table.                                     *)
LEMMA RowOf ==
  ASSUME NEW x \in Nat, NEW n \in Nat, NEW m \in Nat \ {0}, x < n * m
  PROVE  x \div m \in 0 .. n - 1 /\ x % m \in 0 .. m - 1
OBVIOUS

(* A number is told by its row and its place in the row. *)
LEMMA RowAndPlace ==
  ASSUME NEW q \in Nat, NEW m \in Nat \ {0}, NEW r \in 0 .. m - 1
  PROVE  (q * m + r) \div m = q /\ (q * m + r) % m = r
OBVIOUS

(* A product grows with its first factor. *)
LEMMA ProductMonotone ==
  ASSUME NEW a \in Nat, NEW b \in Nat, NEW n \in Nat, a <= b
  PROVE  a * n <= b * n
OBVIOUS

(* N things shared out evenly over F places stay within the places. *)
LEMMA EvenShare ==
  ASSUME NEW F \in Nat \ {0}, NEW N \in Nat \ {0}, NEW c \in 0 .. N - 1
  PROVE  (c * F) \div N \in 0 .. F - 1
OBVIOUS

(* The sizes of a volume, and that the end mark is no cluster. *)
LEMMA Geometry ==
  /\ NC \in Nat \ {0} /\ SPC \in Nat \ {0} /\ RootSecs \in Nat \ {0}
  /\ EPS \in Nat \ {0} /\ FatCount \in Nat \ {0} /\ FatSecs \in Nat \ {0}
  /\ MaxSize \in Nat /\ MaxDepth \in Nat /\ MaxFaults \in Nat
  /\ 1 \in 1 .. FatCount
  /\ 0 \notin Cluster /\ EOC \notin Cluster /\ 2 \in Cluster
BY GeometryAssumption DEF Cluster, EOC

(* The places of a sector are slots of a job. *)
LEMMA SlotNumbers == \A j \in 1 .. EPS : j \in 0 .. EPS
BY Geometry

(* Least picks the least element of a set of natural numbers. *)
LEMMA LeastIsLeast ==
  ASSUME NEW S \in SUBSET Nat, S # {}
  PROVE  Least(S) \in S /\ \A k \in S : Least(S) <= k
<1>1. \E m \in S : \A k \in S : m <= k
  BY LeastElement
<1> QED BY <1>1 DEF Least

(* fat_find_free_cluster gives 0, or the least free cluster. *)
LEMMA FreeCluster ==
  ASSUME NEW buf \in Tables, NEW c, c = fat_find_free_cluster(buf), c # 0
  PROVE  /\ c \in Cluster /\ buf[c] = 0
         /\ \A d \in Cluster : d < c => buf[d] # 0
<1> DEFINE free == {d \in Cluster : buf[d] = 0}
<1>1. free \in SUBSET Nat
  BY DEF Cluster
<1>2. free # {} /\ c = Least(free)
  BY DEF fat_find_free_cluster
<1>3. c \in free /\ \A k \in free : c <= k
  <2> HIDE DEF free
  <2> QED BY <1>1, <1>2, LeastIsLeast
<1>4. \A d \in Cluster : d < c => ~(c <= d)
  BY <1>3, GeometryAssumption DEF Cluster
<1> QED BY <1>3, <1>4

(* Following a chain: each position is the link of the one before, and a   *)
(* position that is no cluster repeats.                                    *)
LEMMA FollowRec ==
  ASSUME NEW buf \in Tables, NEW c \in Link
  PROVE  /\ Follow(buf, c) \in [0 .. NC -> Link]
         /\ Follow(buf, c)[0] = c
         /\ \A i \in 1 .. NC :
              Follow(buf, c)[i] = IF Follow(buf, c)[i - 1] \in Cluster
                                  THEN buf[Follow(buf, c)[i - 1]]
                                  ELSE Follow(buf, c)[i - 1]
<1> DEFINE next == [x \in Link |-> IF x \in Cluster THEN buf[x] ELSE x]
           F == [i \in 1 .. NC |-> next]
           Def(g) == g = [i \in 0 .. NC |-> IF i = 0 THEN c ELSE next[g[i - 1]]]
<1>n. NC \in Nat
  BY GeometryAssumption
<1>1. PICK g : Recursive(g, NC, c, F)
  <2> HIDE DEF F
  <2> QED BY <1>n, RecursionExists
<1>2. \A i \in 0 .. NC : g[i] = IF i = 0 THEN c ELSE next[g[i - 1]]
  <2>1. \A i \in 0 .. NC : g[i] = IF i = 0 THEN c ELSE F[i][g[i - 1]]
    <3> HIDE DEF F
    <3> QED BY <1>1, Zenon DEF Recursive
  <2>2. \A i \in 0 .. NC : i # 0 => F[i] = next
    <3> HIDE DEF next
    <3> QED BY <1>n
  <2> HIDE DEF F, next
  <2> QED BY <2>1, <2>2
<1>3. Def(g)
  <2>1. g = [i \in 0 .. NC |-> g[i]]
    BY <1>1 DEF Recursive
  <2> HIDE DEF next
  <2> QED BY <1>2, <2>1, Zenon
<1>4. Def(CHOOSE f : Def(f))
  <2> HIDE DEF Def
  <2> QED BY <1>3
<1> DEFINE f == Follow(buf, c)
<1>5. Def(f)
  BY <1>4 DEF Follow
<1>6. \A i \in 0 .. NC : f[i] = IF i = 0 THEN c ELSE next[f[i - 1]]
  <2> HIDE DEF next, f
  <2> QED BY <1>5, Zenon
<1>d. 0 \in 0 .. NC /\ f[0] = c
  <2> HIDE DEF next, f
  <2> QED BY <1>6, <1>n
<1>7. \A i \in 0 .. NC : f[i] \in Link
  <2> DEFINE P == {j \in 0 .. NC : f[j] \in Link}
  <2>1. next \in [Link -> Link]
    BY DEF Tables
  <2> HIDE DEF f
  <2>2. 0 \in P
    BY <1>d
  <2>3. ASSUME NEW i \in 1 .. NC, i - 1 \in P PROVE i \in P
    <3> HIDE DEF next
    <3> QED BY <1>6, <1>n, <2>1, <2>3
  <2>4. \A i \in 0 .. NC : i \in P
    <3> HIDE DEF P
    <3> QED BY <1>n, <2>2, <2>3, SetInduction
  <2> QED BY <2>4
<1>8. f = [i \in 0 .. NC |-> f[i]]
  <2> HIDE DEF next, f
  <2> QED BY <1>5
<1>9. f \in [0 .. NC -> Link]
  <2> HIDE DEF f
  <2> QED BY <1>7, <1>8
<1>10. \A i \in 1 .. NC : f[i] = IF f[i - 1] \in Cluster THEN buf[f[i - 1]] ELSE f[i - 1]
  <2> HIDE DEF f
  <2>1. \A i \in 1 .. NC : i # 0 /\ i \in 0 .. NC /\ i - 1 \in 0 .. NC
    BY <1>n
  <2>2. \A x \in Link : next[x] = IF x \in Cluster THEN buf[x] ELSE x
    OBVIOUS
  <2> HIDE DEF next
  <2> QED BY <1>6, <1>9, <2>1, <2>2
<1> HIDE DEF f
<1> QED BY <1>d, <1>9, <1>10 DEF f

(* A chain is a finite set of clusters. *)
LEMMA ChainSize ==
  ASSUME NEW buf, NEW c
  PROVE  /\ IsFiniteSet(ChainOf(buf, c))
         /\ Cardinality(ChainOf(buf, c)) \in Nat
<1>1. IsFiniteSet(2 .. NC + 1)
  BY Geometry, FS_Interval
<1>2. ChainOf(buf, c) \in SUBSET (2 .. NC + 1)
  BY DEF ChainOf, Cluster
<1>3. IsFiniteSet(ChainOf(buf, c))
  BY <1>1, <1>2, FS_Subset
<1> QED BY <1>3, FS_CardinalityType

(* The clusters of a chain come first: before its length is reached, the   *)
(* loop that follows it stands on a cluster.                               *)
LEMMA ChainPositions ==
  ASSUME NEW buf \in Tables, NEW c \in Link, NEW i \in Nat,
         i < Cardinality(ChainOf(buf, c))
  PROVE  i \in 0 .. NC /\ Follow(buf, c)[i] \in Cluster
<1> DEFINE f == Follow(buf, c)
           chain == ChainOf(buf, c)
<1>n. NC \in Nat
  BY Geometry
<1>f. /\ f \in [0 .. NC -> Link]
      /\ \A j \in 1 .. NC : f[j] = IF f[j - 1] \in Cluster THEN buf[f[j - 1]] ELSE f[j - 1]
  BY FollowRec
<1>c. \A x \in chain : x \in Cluster /\ \E j \in 0 .. NC : f[j] = x
  BY DEF ChainOf
<1> HIDE DEF f, chain
<1>1. ASSUME NEW m \in 0 .. NC + 1,
             \A x \in chain : \E j \in 1 .. m : f[j - 1] = x
      PROVE  Cardinality(chain) <= m
  <2> DEFINE T == {j \in 1 .. m : f[j - 1] \in chain}
             h == [j \in T |-> f[j - 1]]
  <2>1. IsFiniteSet(1 .. m) /\ Cardinality(1 .. m) = m
    BY <1>n, FS_Interval
  <2>2. T \in SUBSET (1 .. m)
    OBVIOUS
  <2>3. IsFiniteSet(T) /\ Cardinality(T) <= m
    <3> HIDE DEF T
    <3> QED BY <2>1, <2>2, FS_Subset
  <2>4. h \in Surjection(T, chain)
    BY <1>1 DEF Surjection
  <2>5. IsFiniteSet(chain) /\ Cardinality(chain) <= Cardinality(T)
    <3> HIDE DEF T, h
    <3> QED BY <2>3, <2>4, FS_Surjection
  <2>6. Cardinality(chain) \in Nat /\ Cardinality(T) \in Nat
    <3> HIDE DEF T
    <3> QED BY <2>3, <2>5, FS_CardinalityType
  <2> HIDE DEF T
  <2> QED BY <2>3, <2>5, <2>6
<1>2. Cardinality(chain) \in Nat /\ Cardinality(chain) <= NC + 1
  <2>1. \A x \in chain : \E j \in 1 .. NC + 1 : f[j - 1] = x
    <3> SUFFICES ASSUME NEW x \in chain PROVE \E j \in 1 .. NC + 1 : f[j - 1] = x
      OBVIOUS
    <3>1. PICK j \in 0 .. NC : f[j] = x
      BY <1>c
    <3>2. j + 1 \in 1 .. NC + 1 /\ (j + 1) - 1 = j
      BY <1>n
    <3> QED BY <3>1, <3>2
  <2>2. NC + 1 \in 0 .. NC + 1
    BY <1>n
  <2> QED BY <1>1, <2>1, <2>2, ChainSize DEF chain
<1>3. i \in 0 .. NC
  BY <1>2, <1>n DEF chain
<1>4. SUFFICES ASSUME f[i] \notin Cluster PROVE FALSE
  BY <1>3 DEF f
<1>5. \A j \in 0 .. NC : j >= i => f[j] \notin Cluster
  <2> DEFINE P == {j \in 0 .. NC : j >= i => f[j] \notin Cluster}
  <2>1. 0 \in P
    BY <1>n, <1>3, <1>4
  <2>2. ASSUME NEW j \in 1 .. NC, j - 1 \in P PROVE j \in P
    <3>1. j \in 0 .. NC /\ j - 1 \in 0 .. NC
      BY <1>n
    <3>2. CASE j - 1 >= i
      BY <1>f, <2>2, <3>1, <3>2
    <3>3. CASE ~(j - 1 >= i) /\ j >= i
      <4>1. j = i
        BY <1>3, <3>3
      <4> QED BY <1>4, <3>1, <4>1
    <3>4. CASE ~(j >= i)
      BY <3>1, <3>4
    <3> QED BY <3>2, <3>3, <3>4
  <2>3. \A j \in 0 .. NC : j \in P
    <3> HIDE DEF P
    <3> QED BY <1>n, <2>1, <2>2, SetInduction
  <2> QED BY <2>3
<1>6. \A x \in chain : \E j \in 1 .. i : f[j - 1] = x
  <2> SUFFICES ASSUME NEW x \in chain PROVE \E j \in 1 .. i : f[j - 1] = x
    OBVIOUS
  <2>1. PICK j \in 0 .. NC : f[j] = x
    BY <1>c
  <2>2. ~(j >= i)
    BY <1>c, <1>5, <2>1
  <2>3. j + 1 \in 1 .. i /\ (j + 1) - 1 = j
    BY <2>2, <1>n, <1>3
  <2> QED BY <2>1, <2>3
<1>7. i \in 0 .. NC + 1
  BY <1>3, <1>n
<1>8. Cardinality(chain) <= i
  BY <1>1, <1>6, <1>7
<1> QED BY <1>2, <1>3, <1>8 DEF chain

-----------------------------------------------------------------------------
(* The length of a directory counts its entries. *)
LEMMA DirLengthNat ==
  ASSUME NEW buf, NEW dir
  PROVE  DirLength(buf, dir) \in Nat
BY ChainSize, Geometry DEF DirLength

(* The sector of a position of a directory is a sector of the volume.      *)
LEMMA PositionOnDisk ==
  ASSUME NEW buf \in Tables, NEW dir \in Cluster \cup {0},
         NEW p \in Positions(buf, dir)
  PROVE  /\ DirSector(buf, dir, p \div EPS) \in Sectors
         /\ (p % EPS) + 1 \in 1 .. EPS
<1> DEFINE s == p \div EPS
<1>1. p \in Nat /\ p < DirLength(buf, dir) /\ (p % EPS) + 1 \in 1 .. EPS
  BY DirLengthNat, Geometry DEF Positions
<1>2. CASE dir = 0
  <2>1. p < RootSecs * EPS
    BY <1>1, <1>2, Geometry DEF DirLength
  <2>2. s \in 0 .. RootSecs - 1
    BY <1>1, <2>1, RowOf, Geometry
  <2> HIDE DEF s
  <2>3. <<0, s>> \in Sectors
    BY <2>2 DEF Sectors
  <2> QED BY <1>1, <1>2, <2>3 DEF DirSector, s
<1>3. CASE dir \in Cluster
  <2> DEFINE size == Cardinality(ChainOf(buf, dir))
             i == s \div SPC
             k == s % SPC
  <2>0. dir # 0 /\ dir \in Link
    BY <1>3, Geometry DEF Link
  <2>1. size \in Nat
    BY <2>0, ChainSize
  <2>2. p < EPS * (SPC * size)
    BY <1>1, <2>0 DEF DirLength
  <2> HIDE DEF size
  <2>3. SPC * size \in Nat /\ EPS * (SPC * size) = (SPC * size) * EPS
    BY <2>1, Geometry
  <2>4. s \in 0 .. (SPC * size) - 1
    <3> DEFINE n == SPC * size
    <3> HIDE DEF n
    <3> QED BY <1>1, <2>2, <2>3, RowOf, Geometry DEF n
  <2>5. s \in Nat /\ s < size * SPC
    <3> HIDE DEF s
    <3> QED BY <2>1, <2>4, Geometry
  <2>6. i \in 0 .. size - 1 /\ k \in 0 .. SPC - 1
    <3> HIDE DEF s
    <3> QED BY <2>1, <2>5, RowOf, Geometry
  <2> HIDE DEF i, k, s
  <2>7. Follow(buf, dir)[i] \in Cluster
    BY <2>0, <2>1, <2>6, ChainPositions DEF size
  <2>8. <<Follow(buf, dir)[i], k>> \in Sectors
    BY <2>6, <2>7 DEF Sectors
  <2> QED BY <1>1, <2>0, <2>8 DEF DirSector, i, k, s
<1> QED BY <1>2, <1>3

(* A sector read as a directory sector holds entries. *)
LEMMA SlotsOfSector ==
  ASSUME NEW x \in DataSectors \cup DirSectors
  PROVE  AsSlots(x) \in [1 .. EPS -> Slots]
<1>1. Inert \in Slots
  BY DEF Slots
<1>2. CASE x \in DirSectors
  <2>1. "slots" \in DOMAIN x /\ x.slots \in [1 .. EPS -> Slots]
    BY <1>2 DEF DirSectors
  <2> QED BY <2>1 DEF AsSlots
<1>3. CASE x \in DataSectors
  <2>1. "slots" \notin DOMAIN x
    BY <1>3 DEF DataSectors
  <2> QED BY <1>1, <2>1 DEF AsSlots
<1> QED BY <1>2, <1>3

(* Every position of a directory has an entry. *)
LEMMA SlotOfPosition ==
  ASSUME sector \in [Sectors -> DataSectors \cup DirSectors],
         NEW buf \in Tables, NEW dir \in Cluster \cup {0},
         NEW p \in Positions(buf, dir)
  PROVE  SlotAt(buf, dir, p) \in Slots
<1> DEFINE x == sector[DirSector(buf, dir, p \div EPS)]
           i == (p % EPS) + 1
<1>1. x \in DataSectors \cup DirSectors /\ i \in 1 .. EPS
  BY PositionOnDisk
<1> HIDE DEF x, i
<1>2. AsSlots(x)[i] \in Slots
  BY <1>1, SlotsOfSector
<1> QED BY <1>2 DEF SlotAt, x, i

(* A search finds positions of the directory. *)
LEMMA SearchStaysInside ==
  ASSUME NEW buf \in Tables, NEW dir \in Cluster \cup {0}
  PROVE  /\ Positions(buf, dir) \subseteq Nat
         /\ Visible(buf, dir) \subseteq Positions(buf, dir)
<1> DEFINE ends == {p \in Positions(buf, dir) : SlotAt(buf, dir, p) = EndSlot}
<1>1. Positions(buf, dir) \subseteq Nat
  BY DEF Positions
<1>2. CASE ends = {}
  BY <1>1, <1>2 DEF Visible
<1>3. CASE ends # {}
  <2>1. Least(ends) \in ends
    <3>1. ends \in SUBSET Nat
      BY <1>1
    <3> HIDE DEF ends
    <3> QED BY <1>3, <3>1, LeastIsLeast
  <2>2. Least(ends) \in Positions(buf, dir)
    BY <2>1
  <2>3. Visible(buf, dir) = 0 .. Least(ends) - 1
    BY <1>3 DEF Visible
  <2>4. DirLength(buf, dir) \in Int
    BY DirLengthNat
  <2> HIDE DEF ends
  <2>5. Visible(buf, dir) \subseteq Positions(buf, dir)
    BY <2>2, <2>3, <2>4 DEF Positions
  <2> QED BY <1>1, <2>5
<1> QED BY <1>2, <1>3

(* The first entry of a kind and a name that a search finds. *)
LEMMA FirstMatch ==
  ASSUME sector \in [Sectors -> DataSectors \cup DirSectors],
         NEW buf \in Tables, NEW dir \in Cluster \cup {0}, NEW kind, NEW name,
         Matches(buf, dir, kind, name) # {},
         NEW p, p = Least(Matches(buf, dir, kind, name))
  PROVE  /\ p \in Positions(buf, dir)
         /\ SlotAt(buf, dir, p) \in Slots
         /\ SlotAt(buf, dir, p).kind = kind /\ SlotAt(buf, dir, p).name = name
<1> DEFINE found == Matches(buf, dir, kind, name)
<1>1. found \in SUBSET Visible(buf, dir)
  BY DEF Matches
<1>2. found \in SUBSET Nat
  BY <1>1, SearchStaysInside
<1>3. p \in found
  <2> HIDE DEF found
  <2> QED BY <1>2, LeastIsLeast DEF found
<1>4. p \in Positions(buf, dir)
  BY <1>1, <1>3, SearchStaysInside
<1>5. SlotAt(buf, dir, p).kind = kind /\ SlotAt(buf, dir, p).name = name
  BY <1>3 DEF Matches
<1> QED BY <1>4, <1>5, SlotOfPosition

-----------------------------------------------------------------------------
(* Every access counts at most one fault, and a failed one counts one.     *)
LEMMA Faults ==
  ASSUME faults \in 0 .. MaxFaults, NEW o, o \in Outcomes \/ o \in Reads, Count(o)
  PROVE  /\ faults' \in 0 .. MaxFaults
         /\ faults' = 0 => faults = 0 /\ o = "ok"
BY Geometry DEF Outcomes, Reads, Count

(* A table with no entry in use, and no operation in progress. *)
LEMMA IdleJob ==
  /\ Empty \in Tables
  /\ Idle \in Jobs
  /\ <<0, 0>> \in Sectors
  /\ LastFatSector \in Nat /\ 0 \in 0 .. LastFatSector
<1>1. Empty \in Tables
  BY DEF Empty, Tables, Link
<1>2. <<0, 0>> \in Sectors
  BY Geometry DEF Sectors
<1>3. LastFatSector \in Nat /\ 0 \in 0 .. LastFatSector
  <2>1. FatCount * FatSecs \in Nat \ {0}
    BY Geometry
  <2>2. FatCount * FatSecs - 1 \in Nat
    BY <2>1
  <2> QED BY <2>2 DEF LastFatSector
<1>4. Idle \in Jobs
  BY <1>1, <1>2, <1>3, Geometry DEF Idle, Jobs
<1> QED BY <1>1, <1>2, <1>3, <1>4

(* A sector with one entry replaced is a directory sector. *)
LEMMA WithSlotType ==
  ASSUME sector \in [Sectors -> DataSectors \cup DirSectors],
         NEW x \in Sectors, NEW i, NEW new \in Slots
  PROVE  WithSlot(x, i, new) \in [Sectors -> DataSectors \cup DirSectors]
<1>1. AsSlots(sector[x]) \in [1 .. EPS -> Slots]
  BY SlotsOfSector
<1>2. [AsSlots(sector[x]) EXCEPT ![i] = new] \in [1 .. EPS -> Slots]
  BY <1>1
<1>3. [slots |-> [AsSlots(sector[x]) EXCEPT ![i] = new]] \in DirSectors
  BY <1>2 DEF DirSectors
<1> QED BY <1>3, Zenon DEF WithSlot

(* A table on the disk with one sector of another written over it. *)
LEMMA PutType ==
  ASSUME fat \in [1 .. FatCount -> Tables], NEW buf \in Tables, NEW w
  PROVE  /\ PutFatSector(w, buf) \in [1 .. FatCount -> Tables]
         /\ \A f \in 1 .. FatCount, c \in Cluster :
              PutFatSector(w, buf)[f][c] =
                IF f = (w \div FatSecs) + 1 /\ FatSectorOf(c) = w % FatSecs
                THEN buf[c] ELSE fat[f][c]
<1> DEFINE g == (w \div FatSecs) + 1
           mix(t) == [c \in Cluster |-> IF FatSectorOf(c) = w % FatSecs
                                        THEN buf[c] ELSE t[c]]
<1>1. PutFatSector(w, buf) = [fat EXCEPT ![g] = mix(fat[g])]
  BY DEF PutFatSector
<1>2. \A t \in Tables : mix(t) \in Tables
  BY DEF Tables
<1>3. \A t : \A c \in Cluster :
        mix(t)[c] = IF FatSectorOf(c) = w % FatSecs THEN buf[c] ELSE t[c]
  OBVIOUS
<1> HIDE DEF g, mix
<1>4. PutFatSector(w, buf) \in [1 .. FatCount -> Tables]
  BY <1>1, <1>2
<1>5. \A f \in 1 .. FatCount :
        PutFatSector(w, buf)[f] = IF f = g THEN mix(fat[f]) ELSE fat[f]
  BY <1>1
<1> QED BY <1>3, <1>4, <1>5 DEF g

(* Releasing a chain frees entries and changes nothing else. *)
LEMMA ReleaseType ==
  ASSUME NEW buf \in Tables, NEW c
  PROVE  /\ Release(buf, c) \in Tables
         /\ \A d \in Cluster : Release(buf, c)[d] \in {0, buf[d]}
BY DEF Release, Tables, Link

(* fat_delete, fat_rmdir or fat_write sets out to release a chain. *)
LEMMA Releasing ==
  ASSUME Types, NEW op \in {"delete", "rmdir", "write"},
         NEW name \in Names, NEW tag \in Tags \cup {""}, NEW size \in 0 .. MaxSize,
         NEW p \in Positions(fat[1], cur), StartRelease(op, name, tag, size, p)
  PROVE  /\ job' \in Jobs /\ ret' = ret
         /\ job'.pc = "free" /\ job'.op = op /\ job'.name = name /\ job'.tag = tag
         /\ job'.w = 0
         /\ \A c \in Cluster : job'.buf[c] \in {0, fat[1][c]}
<1> DEFINE x == DirSector(fat[1], cur, p \div EPS)
           i == (p % EPS) + 1
           b == Release(fat[1], SlotAt(fat[1], cur, p).first)
<1>1. fat[1] \in Tables /\ cur \in Cluster \cup {0}
  BY Geometry DEF Types
<1>2. x \in Sectors /\ i \in 0 .. EPS
  <2>1. x \in Sectors /\ i \in 1 .. EPS
    BY <1>1, PositionOnDisk
  <2>2. \A j \in 1 .. EPS : j \in 0 .. EPS
    BY SlotNumbers
  <2> HIDE DEF x, i
  <2> QED BY <2>1, <2>2, Zenon
<1>3. b \in Tables /\ \A c \in Cluster : b[c] \in {0, fat[1][c]}
  BY <1>1, ReleaseType
<1>4. /\ job' = [Idle EXCEPT !.pc = "free", !.op = op, !.name = name, !.tag = tag,
                             !.size = size, !.buf = b, !.at = x, !.slot = i]
      /\ ret' = ret
  BY DEF StartRelease
<1> HIDE DEF x, i, b
<1>5. job' \in Jobs
  BY <1>2, <1>3, <1>4, IdleJob DEF Jobs
<1>6. /\ job'.pc = "free" /\ job'.op = op /\ job'.name = name /\ job'.tag = tag
      /\ job'.w = 0 /\ job'.buf = b
  BY <1>4 DEF Idle
<1> QED BY <1>3, <1>4, <1>5, <1>6

(* The same for the first entry that a search has found. *)
LEMMA ReleasingFound ==
  ASSUME Types, NEW op \in {"delete", "rmdir", "write"}, NEW kind,
         NEW name \in Names, NEW tag \in Tags \cup {""}, NEW size \in 0 .. MaxSize,
         Matches(fat[1], cur, kind, name) # {},
         StartRelease(op, name, tag, size, Least(Matches(fat[1], cur, kind, name)))
  PROVE  /\ job' \in Jobs /\ ret' = ret
         /\ job'.pc = "free" /\ job'.op = op /\ job'.name = name /\ job'.tag = tag
         /\ job'.w = 0
         /\ \A c \in Cluster : job'.buf[c] \in {0, fat[1][c]}
<1>1. PICK p : p = Least(Matches(fat[1], cur, kind, name))
  OBVIOUS
<1>2. /\ fat[1] \in Tables /\ cur \in Cluster \cup {0}
      /\ sector \in [Sectors -> DataSectors \cup DirSectors]
  BY Geometry DEF Types
<1>3. p \in Positions(fat[1], cur)
  <2> DEFINE b == fat[1]
  <2>1. b \in Tables /\ Matches(b, cur, kind, name) # {}
        /\ p = Least(Matches(b, cur, kind, name))
    BY <1>1, <1>2
  <2> HIDE DEF b
  <2>2. p \in Positions(b, cur)
    BY <1>2, <2>1, FirstMatch
  <2> QED BY <2>2 DEF b
<1>4. StartRelease(op, name, tag, size, p)
  BY <1>1
<1> QED BY <1>3, <1>4, Releasing, Zenon

(* What the entries of files and of directories are made of. *)
LEMMA KindsOfSlots ==
  ASSUME NEW e \in Slots
  PROVE  /\ e.kind = "file" =>
              e \in [kind : {"file"}, name : Names, first : Cluster \cup {0},
                     size : 0 .. MaxSize, tag : Tags]
         /\ e.kind = "dir" =>
              e \in [kind : {"dir"}, name : Names, first : Cluster,
                     size : {0}, tag : {""}]
<1>1. \A d \in {EndSlot, DelSlot, Inert, DotSlot} : d.kind # "file" /\ d.kind # "dir"
  <2>1. EndSlot.kind = "end" /\ DelSlot.kind = "del"
    BY DEF EndSlot, DelSlot, Entry
  <2>2. Inert.kind = "label" /\ DotSlot.kind = "dot"
    BY DEF Inert, DotSlot, Entry
  <2> QED BY <2>1, <2>2
<1>2. \A d \in [kind : {"file"}, name : Names, first : Cluster \cup {0},
                size : 0 .. MaxSize, tag : Tags] : d.kind = "file"
  OBVIOUS
<1>3. \A d \in [kind : {"dir"}, name : Names, first : Cluster,
                size : {0}, tag : {""}] : d.kind = "dir"
  OBVIOUS
<1>4. "file" # "dir"
  OBVIOUS
<1> QED BY <1>1, <1>2, <1>3, <1>4, Zenon DEF Slots

(* What fat_write and fat_mkdir put into a directory are entries. *)
LEMMA NewSlots ==
  /\ \A n \in Names, c \in Cluster \cup {0}, z \in 0 .. MaxSize, t \in Tags :
       Entry("file", n, c, z, t) \in Slots
  /\ \A n \in Names, c \in Cluster : Entry("dir", n, c, 0, "") \in Slots
  /\ {EndSlot, DelSlot, Inert, DotSlot} \subseteq Slots
BY DEF Slots, Entry

(* fat_rename changes the name of an entry and leaves it an entry. *)
LEMMA Renamed ==
  ASSUME NEW e \in Slots, e.kind = "file", NEW m \in Names
  PROVE  [e EXCEPT !.name = split_83(m)] \in Slots
<1>1. split_83(m) \in Names
  BY Split83Assumption DEF split_83
<1>2. e \in [kind : {"file"}, name : Names, first : Cluster \cup {0},
             size : 0 .. MaxSize, tag : Tags]
  BY KindsOfSlots
<1>3. [e EXCEPT !.name = split_83(m)] \in
        [kind : {"file"}, name : Names, first : Cluster \cup {0},
         size : 0 .. MaxSize, tag : Tags]
  BY <1>1, <1>2
<1> QED BY <1>3 DEF Slots

(* fat_cd goes to a cluster. *)
LEMMA DirectoryCluster ==
  ASSUME NEW e \in Slots, e.kind = "dir"
  PROVE  e.first \in Cluster
BY KindsOfSlots

(* The current path is a sequence of names and no longer than it may be. *)
LEMMA Paths ==
  /\ <<>> \in Seq(Names) /\ Len(<<>>) <= MaxDepth
  /\ \A q \in Seq(Names), n \in Names :
       Len(q) < MaxDepth => Append(q, n) \in Seq(Names) /\ Len(Append(q, n)) <= MaxDepth
BY Geometry

(* fat_delete and fat_rmdir have nothing to write. *)
LEMMA NoContents == "" \in Tags \cup {""} /\ 0 \in 0 .. MaxSize
BY Geometry

(* An operation that returns leaves nothing in progress. *)
LEMMA Finished ==
  ASSUME NEW op, NEW name, NEW tag, NEW size, NEW code \in {0, -1},
         Finish(op, name, tag, size, code)
  PROVE  job' = Idle /\ job' \in Jobs /\ Phases' /\ ret'.code \in {0, -1}
<1>1. job' = Idle /\ ret'.code \in {0, -1}
  BY DEF Finish
<1>2. Phases'
  BY <1>1 DEF Phases, Idle
<1> QED BY <1>1, <1>2, IdleJob

(* The same of an operation that was in progress. *)
LEMMA Returned ==
  ASSUME NEW code \in {0, -1}, Return(code)
  PROVE  job' = Idle /\ job' \in Jobs /\ Phases' /\ ret'.code \in {0, -1}
BY Finished DEF Return

(* The initial state. *)
LEMMA TypesInit ==
  ASSUME Init
  PROVE  TInv
<1>1. Types
  <2>1. sector \in [Sectors -> DataSectors \cup DirSectors]
    <3>1. Blank \in DirSectors
      BY DEF Blank, DirSectors, Slots
    <3> QED BY <3>1 DEF Init
  <2>2. fat \in [1 .. FatCount -> Tables]
    BY IdleJob DEF Init
  <2>3. initialized \in BOOLEAN /\ torn \in BOOLEAN /\ leaky \in BOOLEAN
    BY DEF Init
  <2>4. cur \in Cluster \cup {0} /\ faults \in 0 .. MaxFaults
    BY Geometry DEF Init
  <2>5. path \in Seq(Names) /\ Len(path) <= MaxDepth
    BY Geometry DEF Init
  <2>6. job \in Jobs /\ ret.code \in {0, -1}
    BY IdleJob DEF Init, NoRet
  <2> QED BY <2>1, <2>2, <2>3, <2>4, <2>5, <2>6 DEF Types
<1>2. Phases
  BY DEF Init, Phases, Idle
<1> QED BY <1>1, <1>2 DEF TInv

(***************************************************************************)
(* The calls that start an operation or do it in one step keep the types.  *)
(***************************************************************************)
LEMMA TypesCall ==
  ASSUME TInv, Call
  PROVE  TInv'
<1> USE DEF disk
<1>t. Types /\ Phases
  BY DEF TInv
<1>f. /\ fat[1] \in Tables /\ cur \in Cluster \cup {0}
      /\ sector \in [Sectors -> DataSectors \cup DirSectors]
      /\ faults \in 0 .. MaxFaults
  BY <1>t, Geometry DEF Types
<1>n. FileNames \subseteq Names /\ DirNames \subseteq Names
  BY DEF Names
<1>1. ASSUME NEW r \in Reads, FatInit(r) PROVE TInv'
  <2>1. /\ UNCHANGED <<fat, sector, cur, path, job, ret, torn, leaky>>
        /\ initialized' \in BOOLEAN /\ Count(r)
    BY <1>1 DEF FatInit
  <2>2. faults' \in 0 .. MaxFaults
    BY <1>f, <2>1, Faults
  <2>3. Types'
    BY <1>t, <2>1, <2>2 DEF Types
  <2>4. Phases'
    BY <1>t, <2>1 DEF Phases
  <2> QED BY <2>3, <2>4 DEF TInv
<1>2. ASSUME NEW n \in FileNames, NEW r \in Reads, fat_delete(n, r) PROVE TInv'
  <2>1. /\ UNCHANGED <<initialized, fat, sector, cur, path, torn, leaky>> /\ Count(r)
        /\ \/ /\ Matches(fat[1], cur, "file", n) # {}
              /\ StartRelease("delete", n, "", 0, Least(Matches(fat[1], cur, "file", n)))
           \/ Finish("delete", n, "", 0, -1)
    BY <1>2 DEF fat_delete
  <2>2. faults' \in 0 .. MaxFaults
    BY <1>f, <2>1, Faults
  <2>3. job' \in Jobs /\ Phases' /\ ret'.code \in {0, -1}
    <3>1. CASE Finish("delete", n, "", 0, -1)
      BY <3>1, Finished
    <3>2. CASE /\ Matches(fat[1], cur, "file", n) # {}
               /\ StartRelease("delete", n, "", 0, Least(Matches(fat[1], cur, "file", n)))
      <4>1. job' \in Jobs /\ ret' = ret /\ job'.pc = "free" /\ job'.op = "delete"
        BY <1>t, <1>n, <3>2, ReleasingFound, NoContents, Zenon
      <4>2. Phases'
        BY <4>1 DEF Phases
      <4> QED BY <1>t, <4>1, <4>2 DEF Types
    <3> QED BY <2>1, <3>1, <3>2
  <2> QED BY <1>t, <2>1, <2>2, <2>3 DEF Types, TInv
<1>3. ASSUME NEW n \in DirNames, NEW r \in Reads, fat_rmdir(n, r) PROVE TInv'
  <2>1. /\ UNCHANGED <<initialized, fat, sector, cur, path, torn, leaky>> /\ Count(r)
        /\ \/ /\ Matches(fat[1], cur, "dir", n) # {}
              /\ StartRelease("rmdir", n, "", 0, Least(Matches(fat[1], cur, "dir", n)))
           \/ Finish("rmdir", n, "", 0, -1)
    BY <1>3 DEF fat_rmdir
  <2>2. faults' \in 0 .. MaxFaults
    BY <1>f, <2>1, Faults
  <2>3. job' \in Jobs /\ Phases' /\ ret'.code \in {0, -1}
    <3>1. CASE Finish("rmdir", n, "", 0, -1)
      BY <3>1, Finished
    <3>2. CASE /\ Matches(fat[1], cur, "dir", n) # {}
               /\ StartRelease("rmdir", n, "", 0, Least(Matches(fat[1], cur, "dir", n)))
      <4>1. job' \in Jobs /\ ret' = ret /\ job'.pc = "free" /\ job'.op = "rmdir"
        BY <1>t, <1>n, <3>2, ReleasingFound, NoContents, Zenon
      <4>2. Phases'
        BY <4>1 DEF Phases
      <4> QED BY <1>t, <4>1, <4>2 DEF Types
    <3> QED BY <2>1, <3>1, <3>2
  <2> QED BY <1>t, <2>1, <2>2, <2>3 DEF Types, TInv
<1>4. ASSUME NEW n \in FileNames, NEW t \in Tags, NEW z \in 0 .. MaxSize,
             NEW r \in Reads, fat_write(n, t, z, r)
      PROVE  TInv'
  <2> DEFINE new == [Idle EXCEPT !.pc = "load", !.op = "write",
                                 !.name = n, !.tag = t, !.size = z]
  <2>1. /\ UNCHANGED <<initialized, fat, sector, cur, path, torn, leaky>> /\ Count(r)
        /\ \/ /\ Matches(fat[1], cur, "file", n) # {}
              /\ StartRelease("write", n, t, z, Least(Matches(fat[1], cur, "file", n)))
           \/ job' = new /\ ret' = ret
    BY <1>4 DEF fat_write
  <2>2. faults' \in 0 .. MaxFaults
    BY <1>f, <2>1, Faults
  <2>3. job' \in Jobs /\ Phases' /\ ret' = ret
    <3>1. CASE job' = new /\ ret' = ret
      <4>1. new \in Jobs
        BY <1>n, IdleJob DEF Jobs
      <4>2. Phases'
        BY <1>n, <3>1 DEF Phases, Idle
      <4> QED BY <3>1, <4>1, <4>2
    <3>2. CASE /\ Matches(fat[1], cur, "file", n) # {}
               /\ StartRelease("write", n, t, z, Least(Matches(fat[1], cur, "file", n)))
      <4>1. /\ job' \in Jobs /\ ret' = ret /\ job'.pc = "free" /\ job'.op = "write"
            /\ job'.name = n /\ job'.tag = t
        <5>1. t \in Tags \cup {""} /\ n \in Names
          BY <1>n
        <5> QED BY <1>t, <3>2, <5>1, ReleasingFound, Zenon
      <4>2. Phases'
        BY <1>n, <4>1 DEF Phases
      <4> QED BY <4>1, <4>2
    <3> HIDE DEF new
    <3> QED BY <2>1, <3>1, <3>2
  <2> QED BY <1>t, <2>1, <2>2, <2>3 DEF Types, TInv
<1>5. ASSUME NEW n \in DirNames, NEW r \in Reads, fat_mkdir(n, r) PROVE TInv'
  <2> DEFINE c == fat_find_free_cluster(fat[1])
             b == [fat[1] EXCEPT ![c] = EOC]
             new == [Idle EXCEPT !.pc = "putfat", !.op = "mkdir",
                                 !.name = n, !.first = c, !.buf = b]
  <2>1. /\ UNCHANGED <<initialized, fat, sector, cur, path, torn, leaky>> /\ Count(r)
        /\ \/ c # 0 /\ job' = new /\ ret' = ret
           \/ Finish("mkdir", n, "", 0, -1)
    BY <1>5 DEF fat_mkdir
  <2>2. faults' \in 0 .. MaxFaults
    BY <1>f, <2>1, Faults
  <2>3. job' \in Jobs /\ Phases' /\ ret'.code \in {0, -1}
    <3>1. CASE c # 0 /\ job' = new /\ ret' = ret
      <4>1. c \in Cluster
        BY <1>f, <3>1, FreeCluster, Zenon
      <4> HIDE DEF c
      <4>2. b \in Tables
        BY <1>f DEF Tables, Link
      <4> HIDE DEF b
      <4>3. new \in Jobs
        BY <1>n, <4>1, <4>2, IdleJob DEF Jobs
      <4>4. Phases'
        BY <1>n, <3>1, <4>1 DEF Phases, Idle
      <4> QED BY <1>t, <3>1, <4>3, <4>4 DEF Types
    <3>2. CASE Finish("mkdir", n, "", 0, -1)
      BY <3>2, Finished
    <3> HIDE DEF new, c
    <3> QED BY <2>1, <3>1, <3>2
  <2> QED BY <1>t, <2>1, <2>2, <2>3 DEF Types, TInv
<1>6. ASSUME NEW n \in FileNames, NEW m \in FileNames, NEW o \in Outcomes,
             fat_rename(n, m, o)
      PROVE  TInv'
  <2> DEFINE found == Matches(fat[1], cur, "file", n)
             b == fat[1]
             p == Least(found)
             e == SlotAt(b, cur, p)
             new == [e EXCEPT !.name = split_83(m)]
             x == DirSector(b, cur, p \div EPS)
             i == (p % EPS) + 1
  <2>1. /\ UNCHANGED <<initialized, fat, cur, path, torn, leaky>> /\ Count(o)
        /\ \E code \in {0, -1} : Finish("rename", n, "", 0, code)
        /\ \/ sector' = sector
           \/ found # {} /\ sector' = WithSlot(x, i, new)
    BY <1>6 DEF fat_rename
  <2>2. faults' \in 0 .. MaxFaults
    BY <1>f, <2>1, Faults
  <2>3. job' \in Jobs /\ Phases' /\ ret'.code \in {0, -1}
    BY <2>1, Finished
  <2>4. sector' \in [Sectors -> DataSectors \cup DirSectors]
    <3>1. CASE sector' = sector
      BY <1>f, <3>1
    <3>2. CASE found # {} /\ sector' = WithSlot(x, i, new)
      <4>b. b \in Tables
        BY <1>f
      <4> HIDE DEF b
      <4>1. p \in Positions(b, cur) /\ e \in Slots /\ e.kind = "file"
        BY <1>f, <3>2, <4>b, FirstMatch DEF b
      <4>2. x \in Sectors
        <5> HIDE DEF p
        <5> QED BY <1>f, <4>1, <4>b, PositionOnDisk
      <4> HIDE DEF e, x, i
      <4>3. new \in Slots
        BY <1>n, <4>1, Renamed
      <4> HIDE DEF new
      <4> QED BY <1>f, <3>2, <4>2, <4>3, WithSlotType
    <3> HIDE DEF x, i, new, found
    <3> QED BY <2>1, <3>1, <3>2
  <2> QED BY <1>t, <2>1, <2>2, <2>3, <2>4 DEF Types, TInv
<1>7. ASSUME NEW n \in DirNames, NEW r \in Reads, fat_cd(n, r) PROVE TInv'
  <2> DEFINE b == fat[1]
             found == Matches(b, cur, "dir", n)
             e == SlotAt(b, cur, Least(found))
  <2>1. /\ UNCHANGED <<initialized, fat, sector, torn, leaky>> /\ Count(r)
        /\ \E code \in {0, -1} : Finish("cd", n, "", 0, code)
        /\ \/ UNCHANGED <<cur, path>>
           \/ found # {} /\ cur' = e.first /\ path' = Append(path, n)
        /\ Len(path) < MaxDepth
    BY <1>7 DEF fat_cd
  <2>2. faults' \in 0 .. MaxFaults
    BY <1>f, <2>1, Faults
  <2>3. job' \in Jobs /\ Phases' /\ ret'.code \in {0, -1}
    BY <2>1, Finished
  <2>4. cur' \in Cluster \cup {0} /\ path' \in Seq(Names) /\ Len(path') <= MaxDepth
    <3>1. CASE UNCHANGED <<cur, path>>
      BY <1>t, <3>1 DEF Types
    <3>2. CASE found # {} /\ cur' = e.first /\ path' = Append(path, n)
      <4>b. b \in Tables
        BY <1>f
      <4> HIDE DEF b
      <4>1. e \in Slots /\ e.kind = "dir"
        BY <1>f, <3>2, <4>b, FirstMatch
      <4> HIDE DEF e
      <4>2. e.first \in Cluster
        BY <4>1, DirectoryCluster
      <4>3. path' \in Seq(Names) /\ Len(path') <= MaxDepth
        <5>1. path \in Seq(Names) /\ n \in Names
          BY <1>t, <1>n DEF Types
        <5> QED BY <2>1, <3>2, <5>1, Paths
      <4> QED BY <3>2, <4>2, <4>3
    <3> HIDE DEF e, found
    <3> QED BY <2>1, <3>1, <3>2
  <2> QED BY <1>t, <2>1, <2>2, <2>3, <2>4 DEF Types, TInv
<1>8. ASSUME fat_cd_up PROVE TInv'
  <2>1. /\ UNCHANGED <<initialized, fat, sector, faults, torn, leaky>>
        /\ cur' = 0 /\ path' = <<>> /\ Finish("cd", "", "", 0, 0)
    BY <1>8 DEF fat_cd_up
  <2>2. job' \in Jobs /\ Phases' /\ ret'.code \in {0, -1}
    BY <2>1, Finished
  <2>3. path' \in Seq(Names) /\ Len(path') <= MaxDepth
    BY <2>1, Paths, Zenon
  <2> QED BY <1>t, <2>1, <2>2, <2>3 DEF Types, TInv
<1> QED BY <1>1, <1>2, <1>3, <1>4, <1>5, <1>6, <1>7, <1>8 DEF Call

(***************************************************************************)
(* So do the writes of the operation in progress.                          *)
(***************************************************************************)
LEMMA TypesStep ==
  ASSUME TInv, Step
  PROVE  TInv'
<1> USE DEF disk
<1>t. Types /\ Phases
  BY DEF TInv
<1>f. /\ fat \in [1 .. FatCount -> Tables] /\ fat[1] \in Tables
      /\ cur \in Cluster \cup {0}
      /\ sector \in [Sectors -> DataSectors \cup DirSectors]
      /\ faults \in 0 .. MaxFaults
  BY <1>t, Geometry DEF Types
<1>j. /\ job \in Jobs /\ job.buf \in Tables /\ job.w \in 0 .. LastFatSector
      /\ job.at \in Sectors /\ job.k \in 0 .. MaxSize /\ job.size \in 0 .. MaxSize
      /\ job.first \in Cluster \cup {0} /\ job.prev \in Cluster \cup {0}
      /\ ret.code \in {0, -1}
  BY <1>t DEF Types, Jobs
<1>w. LastFatSector \in Nat /\ \A w \in 0 .. LastFatSector :
         w # LastFatSector => w + 1 \in 0 .. LastFatSector
  BY IdleJob
<1>1. ASSUME NEW o \in Outcomes, FreeStep(o) PROVE TInv'
  <2>1. /\ UNCHANGED <<initialized, sector, cur, path, ret, torn, leaky>> /\ Count(o)
        /\ job.pc = "free"
        /\ fat' = fat \/ fat' = PutFatSector(job.w, job.buf)
        /\ \/ job' = [job EXCEPT !.pc = "erase"]
           \/ job.w # LastFatSector /\ job' = [job EXCEPT !.w = @ + 1]
    BY <1>1 DEF FreeStep
  <2>2. faults' \in 0 .. MaxFaults
    BY <1>f, <2>1, Faults
  <2>3. fat' \in [1 .. FatCount -> Tables]
    BY <1>f, <1>j, <2>1, PutType
  <2>4. job' \in Jobs /\ Phases'
    <3>1. CASE job' = [job EXCEPT !.pc = "erase"]
      BY <1>t, <1>j, <3>1 DEF Jobs, Phases
    <3>2. CASE job.w # LastFatSector /\ job' = [job EXCEPT !.w = @ + 1]
      <4>1. job.w + 1 \in 0 .. LastFatSector
        BY <1>j, <1>w, <3>2
      <4> QED BY <1>t, <1>j, <2>1, <3>2, <4>1 DEF Jobs, Phases
    <3> QED BY <2>1, <3>1, <3>2
  <2> QED BY <1>t, <2>1, <2>2, <2>3, <2>4 DEF Types, TInv
<1>2. ASSUME NEW o \in Outcomes, EraseStep(o) PROVE TInv'
  <2> DEFINE new == [Idle EXCEPT !.pc = "load", !.op = "write", !.name = job.name,
                                 !.tag = job.tag, !.size = job.size]
  <2>1. /\ UNCHANGED <<initialized, fat, cur, path>> /\ Count(o)
        /\ sector' = sector \/ sector' = WithSlot(job.at, job.slot, DelSlot)
        /\ \/ job.op = "write" /\ job' = new /\ ret' = ret
           \/ \E code \in {0, -1} : Return(code)
        /\ torn' \in BOOLEAN /\ leaky' \in BOOLEAN
    BY <1>2 DEF EraseStep
  <2>2. faults' \in 0 .. MaxFaults
    BY <1>f, <2>1, Faults
  <2>3. sector' \in [Sectors -> DataSectors \cup DirSectors]
    <3>1. DelSlot \in Slots
      BY NewSlots
    <3>2. WithSlot(job.at, job.slot, DelSlot) \in [Sectors -> DataSectors \cup DirSectors]
      BY <1>f, <1>j, <3>1, WithSlotType
    <3> QED BY <1>f, <2>1, <3>2
  <2>4. job' \in Jobs /\ Phases' /\ ret'.code \in {0, -1}
    <3>1. CASE job.op = "write" /\ job' = new /\ ret' = ret
      <4>1. job.name \in Names /\ job.tag \in Tags
        BY <1>t, <3>1 DEF Phases
      <4>2. new \in Jobs
        BY <1>j, <4>1, IdleJob DEF Jobs
      <4>3. Phases'
        BY <3>1, <4>1 DEF Phases, Idle
      <4> QED BY <1>j, <3>1, <4>2, <4>3
    <3>2. CASE \E code \in {0, -1} : Return(code)
      BY <3>2, Returned
    <3> HIDE DEF new
    <3> QED BY <2>1, <3>1, <3>2
  <2> QED BY <1>t, <2>1, <2>2, <2>3, <2>4 DEF Types, TInv
<1>3. ASSUME NEW r \in Reads, LoadStep(r) PROVE TInv'
  <2> DEFINE new == [job EXCEPT !.pc = IF job.size = 0 THEN "putfat" ELSE "data",
                                !.buf = fat[1]]
  <2>1. /\ UNCHANGED <<initialized, fat, sector, cur, path, torn, leaky>> /\ Count(r)
        /\ job.pc = "load"
        /\ \/ job' = new /\ ret' = ret
           \/ Return(-1)
    BY <1>3 DEF LoadStep
  <2>2. faults' \in 0 .. MaxFaults
    BY <1>f, <2>1, Faults
  <2>3. job' \in Jobs /\ Phases' /\ ret'.code \in {0, -1}
    <3>1. CASE job' = new /\ ret' = ret
      <4>1. new \in Jobs
        BY <1>f, <1>j DEF Jobs
      <4>2. /\ job.op = "write" /\ job.w = 0 /\ job.prev = 0 /\ job.k = 0
            /\ job.name \in Names /\ job.tag \in Tags
        BY <1>t, <2>1 DEF Phases
      <4>3. /\ job'.op = "write" /\ job'.w = 0 /\ job'.k = 0 /\ job'.size = job.size
            /\ job'.name = job.name /\ job'.tag = job.tag
            /\ job'.pc = IF job.size = 0 THEN "putfat" ELSE "data"
        BY <1>j, <3>1, <4>2 DEF Jobs
      <4>4. job.size # 0 => 0 < job.size
        BY <1>j
      <4>5. Phases'
        BY <4>2, <4>3, <4>4 DEF Phases
      <4> QED BY <1>j, <3>1, <4>1, <4>5
    <3>2. CASE Return(-1)
      BY <3>2, Returned
    <3> HIDE DEF new
    <3> QED BY <2>1, <3>1, <3>2
  <2> QED BY <1>t, <2>1, <2>2, <2>3 DEF Types, TInv
<1>4. ASSUME NEW o \in Outcomes, DataStep(o) PROVE TInv'
  <2> DEFINE fresh == job.k % SPC = 0
             c == IF fresh THEN fat_find_free_cluster(job.buf) ELSE job.prev
             linked == IF fresh /\ job.prev # 0
                       THEN [job.buf EXCEPT ![job.prev] = c] ELSE job.buf
             b == IF fresh THEN [linked EXCEPT ![c] = EOC] ELSE job.buf
             data == [tag |-> job.tag, k |-> job.k]
             x == <<c, job.k % SPC>>
             first == IF job.first = 0 THEN c ELSE job.first
             pc == IF job.k + 1 = job.size THEN "putfat" ELSE "data"
  <2>1. /\ UNCHANGED <<initialized, fat, cur, path, torn, leaky>> /\ Count(o)
        /\ job.pc = "data"
        /\ sector' = sector \/ (c # 0 /\ sector' = [sector EXCEPT ![x] = data])
        /\ \/ Return(-1)
           \/ /\ c # 0 /\ ret' = ret
              /\ job' = [job EXCEPT !.buf = b, !.first = first, !.prev = c,
                                    !.k = job.k + 1, !.pc = pc]
    BY <1>4 DEF DataStep
  <2>2. faults' \in 0 .. MaxFaults
    BY <1>f, <2>1, Faults
  <2>3. /\ job.op = "write" /\ job.w = 0 /\ job.k < job.size
        /\ job.name \in Names /\ job.tag \in Tags
    BY <1>t, <2>1 DEF Phases
  <2>4. c # 0 => c \in Cluster
    BY <1>j, FreeCluster
  <2>5. sector' \in [Sectors -> DataSectors \cup DirSectors]
    <3>1. data \in DataSectors
      BY <1>j, <2>3 DEF DataSectors
    <3> HIDE DEF x, data, c
    <3> QED BY <1>f, <2>1, <3>1
  <2>6. job' \in Jobs /\ Phases' /\ ret'.code \in {0, -1}
    <3>1. CASE Return(-1)
      BY <3>1, Returned
    <3>2. CASE /\ c # 0 /\ ret' = ret
               /\ job' = [job EXCEPT !.buf = b, !.first = first, !.prev = c,
                                     !.k = job.k + 1, !.pc = pc]
      <4> HIDE DEF c
      <4>0. c \in Cluster
        BY <2>4, <3>2
      <4>1. linked \in Tables
        BY <1>j, <4>0 DEF Tables, Link
      <4> HIDE DEF linked
      <4>2. b \in Tables
        BY <1>j, <4>1 DEF Tables, Link
      <4> HIDE DEF b
      <4>3. first \in Cluster \cup {0} /\ pc \in {"putfat", "data"}
        BY <1>j, <4>0
      <4>4. /\ job.k + 1 \in 0 .. MaxSize
            /\ pc = "data" => job.k + 1 < job.size
        BY <1>j, <2>3, Geometry
      <4> HIDE DEF first, pc
      <4>5. job' \in Jobs
        BY <1>j, <3>2, <4>0, <4>2, <4>3, <4>4 DEF Jobs
      <4>6. /\ job'.op = "write" /\ job'.w = 0 /\ job'.k = job.k + 1
            /\ job'.size = job.size /\ job'.pc = pc
            /\ job'.name = job.name /\ job'.tag = job.tag
        BY <1>j, <2>3, <3>2 DEF Jobs
      <4>7. Phases'
        BY <2>3, <4>3, <4>4, <4>6 DEF Phases
      <4> QED BY <1>j, <3>2, <4>5, <4>7
    <3> HIDE DEF c, b, first, pc
    <3> QED BY <2>1, <3>1, <3>2
  <2> QED BY <1>t, <2>1, <2>2, <2>5, <2>6 DEF Types, TInv
<1>5. ASSUME NEW o \in Outcomes, PutFatStep(o) PROVE TInv'
  <2> DEFINE pc == IF job.op = "mkdir" THEN "dots" ELSE "entry"
  <2>1. /\ UNCHANGED <<initialized, sector, cur, path, torn, leaky>> /\ Count(o)
        /\ job.pc = "putfat"
        /\ fat' = fat \/ fat' = PutFatSector(job.w, job.buf)
        /\ \/ Return(-1)
           \/ ret' = ret /\ job.w < LastFatSector /\ job' = [job EXCEPT !.w = @ + 1]
           \/ ret' = ret /\ job' = [job EXCEPT !.w = 0, !.pc = pc]
    BY <1>5 DEF PutFatStep
  <2>2. faults' \in 0 .. MaxFaults
    BY <1>f, <2>1, Faults
  <2>3. fat' \in [1 .. FatCount -> Tables]
    BY <1>f, <1>j, <2>1, PutType
  <2>4. job.op \in {"write", "mkdir"}
    BY <1>t, <2>1 DEF Phases
  <2>5. job' \in Jobs /\ Phases' /\ ret'.code \in {0, -1}
    <3>1. CASE Return(-1)
      BY <3>1, Returned
    <3>2. CASE ret' = ret /\ job.w < LastFatSector /\ job' = [job EXCEPT !.w = @ + 1]
      <4>1. job.w + 1 \in 0 .. LastFatSector
        BY <1>j, <1>w, <3>2
      <4> QED BY <1>t, <1>j, <2>1, <3>2, <4>1 DEF Jobs, Phases
    <3>3. CASE ret' = ret /\ job' = [job EXCEPT !.w = 0, !.pc = pc]
      <4>1. 0 \in 0 .. LastFatSector
        BY IdleJob
      <4> QED BY <1>t, <1>j, <2>4, <3>3, <4>1 DEF Jobs, Phases
    <3> HIDE DEF pc
    <3> QED BY <2>1, <3>1, <3>2, <3>3
  <2> QED BY <1>t, <2>1, <2>2, <2>3, <2>5 DEF Types, TInv
<1>6. ASSUME NEW o \in Outcomes, DotsStep(o) PROVE TInv'
  <2> DEFINE new == [Blank EXCEPT !.slots[1] = DotSlot, !.slots[2] = DotSlot]
             x == <<job.first, 0>>
  <2>1. /\ UNCHANGED <<initialized, fat, cur, path, torn, leaky>> /\ Count(o)
        /\ job.pc = "dots"
        /\ sector' = sector \/ sector' = [sector EXCEPT ![x] = new]
        /\ \/ Return(-1)
           \/ ret' = ret /\ job' = [job EXCEPT !.pc = "entry"]
    BY <1>6 DEF DotsStep
  <2>2. faults' \in 0 .. MaxFaults
    BY <1>f, <2>1, Faults
  <2>3. sector' \in [Sectors -> DataSectors \cup DirSectors]
    <3>1. EndSlot \in Slots /\ DotSlot \in Slots
      BY NewSlots
    <3>2. new \in DirSectors
      BY <3>1 DEF Blank, DirSectors
    <3> HIDE DEF x, new
    <3> QED BY <1>f, <2>1, <3>2
  <2>4. job' \in Jobs /\ Phases' /\ ret'.code \in {0, -1}
    <3>1. CASE Return(-1)
      BY <3>1, Returned
    <3>2. CASE ret' = ret /\ job' = [job EXCEPT !.pc = "entry"]
      BY <1>t, <1>j, <2>1, <3>2 DEF Jobs, Phases
    <3> QED BY <2>1, <3>1, <3>2
  <2> QED BY <1>t, <2>1, <2>2, <2>3, <2>4 DEF Types, TInv
<1>7. ASSUME NEW o \in Outcomes, EntryStep(o) PROVE TInv'
  <2> DEFINE b == job.buf
             free == FreeSlots(b, cur)
             p == Least(free)
             new == IF job.op = "mkdir"
                    THEN Entry("dir", split_83(job.name), job.first, 0, "")
                    ELSE Entry("file", split_83(job.name), job.first, job.size, job.tag)
             x == DirSector(b, cur, p \div EPS)
             i == (p % EPS) + 1
  <2>1. /\ UNCHANGED <<initialized, fat, cur, path, torn>> /\ Count(o)
        /\ job.pc = "entry" /\ leaky' \in BOOLEAN
        /\ sector' = sector \/ (free # {} /\ sector' = WithSlot(x, i, new))
        /\ \E code \in {0, -1} : Return(code)
    BY <1>7 DEF EntryStep
  <2>2. faults' \in 0 .. MaxFaults
    BY <1>f, <2>1, Faults
  <2>3. job' \in Jobs /\ Phases' /\ ret'.code \in {0, -1}
    BY <2>1, Returned
  <2>4. new \in Slots
    <3>1. CASE job.op = "mkdir"
      <4>1. split_83(job.name) \in Names /\ job.first \in Cluster
        BY <1>t, <3>1, Split83Assumption DEF Phases, split_83
      <4> QED BY <3>1, <4>1, NewSlots
    <3>2. CASE job.op = "write"
      <4>1. split_83(job.name) \in Names /\ job.tag \in Tags
        BY <1>t, <3>2, Split83Assumption DEF Phases, split_83
      <4> QED BY <1>j, <3>2, <4>1, NewSlots
    <3> QED BY <1>t, <2>1, <3>1, <3>2 DEF Phases
  <2>5. free # {} => p \in Positions(b, cur)
    <3>1. free \in SUBSET Positions(b, cur)
      BY DEF FreeSlots
    <3>2. Positions(b, cur) \in SUBSET Nat
      BY DEF Positions
    <3> HIDE DEF free
    <3> QED BY <3>1, <3>2, LeastIsLeast
  <2>6. free # {} => x \in Sectors
    <3>1. b \in Tables
      BY <1>j
    <3> HIDE DEF b, p, free
    <3> QED BY <1>f, <2>5, <3>1, PositionOnDisk
  <2>7. sector' \in [Sectors -> DataSectors \cup DirSectors]
    <3> HIDE DEF x, i, new, free
    <3>1. free # {} => WithSlot(x, i, new) \in [Sectors -> DataSectors \cup DirSectors]
      BY <1>f, <2>4, <2>6, WithSlotType
    <3> QED BY <1>f, <2>1, <3>1
  <2> QED BY <1>t, <2>1, <2>2, <2>3, <2>7 DEF Types, TInv
<1>8. ASSUME EntryReadError PROVE TInv'
  <2>1. /\ UNCHANGED <<initialized, fat, sector, cur, path, torn, leaky>>
        /\ Return(-1) /\ faults < MaxFaults /\ faults' = faults + 1
    BY <1>8 DEF EntryReadError
  <2>2. faults' \in 0 .. MaxFaults
    BY <1>f, <2>1, Geometry
  <2>3. job' \in Jobs /\ Phases' /\ ret'.code \in {0, -1}
    BY <2>1, Returned
  <2> QED BY <1>t, <2>1, <2>2, <2>3 DEF Types, TInv
<1> QED BY <1>1, <1>2, <1>3, <1>4, <1>5, <1>6, <1>7, <1>8 DEF Step

(* And so does a crash. *)
LEMMA TypesCrash ==
  ASSUME TInv, Crash
  PROVE  TInv'
<1>t. Types
  BY DEF TInv
<1>1. /\ initialized' = FALSE /\ UNCHANGED <<fat, sector, leaky>>
      /\ cur' = 0 /\ path' = <<>> /\ job' = Idle /\ ret' = NoRet
      /\ torn' \in BOOLEAN /\ faults < MaxFaults /\ faults' = faults + 1
  BY DEF Crash, disk
<1>2. faults' \in 0 .. MaxFaults
  BY <1>t, <1>1, Geometry DEF Types
<1>3. path' \in Seq(Names) /\ Len(path') <= MaxDepth
  BY <1>1, Paths, Zenon
<1>4. Phases' /\ job' \in Jobs /\ ret'.code \in {0, -1}
  BY <1>1, IdleJob DEF Phases, Idle, NoRet
<1>5. initialized' \in BOOLEAN
  BY <1>1
<1> QED BY <1>t, <1>1, <1>2, <1>3, <1>4, <1>5 DEF Types, TInv

(* Every step keeps the types of the disk and of the operation in progress.*)
LEMMA TypesNext ==
  ASSUME TInv, [Next]_vars
  PROVE  TInv'
<1>1. CASE UNCHANGED vars
  BY <1>1 DEF TInv, Types, Phases, vars
<1> QED BY <1>1, TypesCall, TypesStep, TypesCrash DEF Next

(* The disk holds tables, entries and file sectors of their types, and     *)
(* every operation of fat.c keeps the sector, the entry and the cluster it *)
(* works on within the volume, whatever is lost or fails.                  *)
THEOREM DiskStaysTyped == Spec => []TypeOK
<1>1. ASSUME TInv PROVE TypeOK
  <2>1. Types
    BY <1>1 DEF TInv
  <2>2. /\ DOMAIN sector = Sectors
        /\ \A x \in Sectors : sector[x] \in DataSectors \/ sector[x] \in DirSectors
    BY <2>1 DEF Types
  <2>3. Len(path) <= MaxDepth /\ \A i \in DOMAIN path : path[i] \in Names
    BY <2>1 DEF Types
  <2>4. /\ job.pc \in {"idle", "free", "erase", "load", "data", "putfat", "dots", "entry"}
        /\ job.buf \in Tables
        /\ {job.first, job.prev} \subseteq Cluster \cup {0}
        /\ job.k \in 0 .. MaxSize /\ job.w \in 0 .. LastFatSector
    BY <2>1 DEF Types, Jobs
  <2> QED BY <2>1, <2>2, <2>3, <2>4 DEF Types, TypeOK
<1>2. ASSUME TInv, [Next]_vars PROVE TInv'
  BY <1>2, TypesNext
<1> QED BY <1>1, <1>2, TypesInit, PTL DEF Spec

-----------------------------------------------------------------------------
(***************************************************************************)
(* What a call leaves of the table and of the operation it starts.         *)
(***************************************************************************)
LEMMA Calls ==
  ASSUME TInv, Call
  PROVE  /\ job.pc = "idle" /\ fat' = fat
         /\ faults' = 0 => faults = 0
         /\ \/ job' = job
            \/ job' = Idle
            \/ /\ job'.pc = "free" /\ job'.w = 0
               /\ \A c \in Cluster : job'.buf[c] \in {0, fat[1][c]}
            \/ job'.pc = "load" /\ job'.buf = Empty
            \/ /\ job'.pc = "putfat" /\ job'.w = 0
               /\ \A c \in Cluster : job'.buf[c] \in {EOC, fat[1][c]}
<1> USE DEF disk
<1> DEFINE Starts ==
      \/ job' = job
      \/ job' = Idle
      \/ /\ job'.pc = "free" /\ job'.w = 0
         /\ \A c \in Cluster : job'.buf[c] \in {0, fat[1][c]}
      \/ job'.pc = "load" /\ job'.buf = Empty
      \/ /\ job'.pc = "putfat" /\ job'.w = 0
         /\ \A c \in Cluster : job'.buf[c] \in {EOC, fat[1][c]}
<1>t. Types /\ fat[1] \in Tables /\ faults \in 0 .. MaxFaults
  BY Geometry DEF TInv, Types
<1>n. FileNames \subseteq Names /\ DirNames \subseteq Names
  BY DEF Names
<1>c. ASSUME NEW o, o \in Outcomes \/ o \in Reads, Count(o)
      PROVE  faults' = 0 => faults = 0
  BY <1>t, <1>c, Faults
<1>1. ASSUME NEW r \in Reads, FatInit(r)
      PROVE  job.pc = "idle" /\ fat' = fat /\ (faults' = 0 => faults = 0) /\ Starts
  <2>1. job.pc = "idle" /\ fat' = fat /\ job' = job /\ Count(r)
    BY <1>1 DEF FatInit
  <2> QED BY <1>c, <2>1
<1>2. ASSUME NEW n \in FileNames, NEW r \in Reads, fat_delete(n, r)
      PROVE  job.pc = "idle" /\ fat' = fat /\ (faults' = 0 => faults = 0) /\ Starts
  <2>1. /\ job.pc = "idle" /\ fat' = fat /\ Count(r)
        /\ \/ /\ Matches(fat[1], cur, "file", n) # {}
              /\ StartRelease("delete", n, "", 0, Least(Matches(fat[1], cur, "file", n)))
           \/ job' = Idle
    BY <1>2 DEF fat_delete, Finish
  <2>2. ASSUME /\ Matches(fat[1], cur, "file", n) # {}
               /\ StartRelease("delete", n, "", 0, Least(Matches(fat[1], cur, "file", n)))
        PROVE  /\ job'.pc = "free" /\ job'.w = 0
               /\ \A c \in Cluster : job'.buf[c] \in {0, fat[1][c]}
    BY <1>t, <1>n, <2>2, ReleasingFound, NoContents, Zenon
  <2>3. Starts
    BY <2>1, <2>2
  <2> QED BY <1>c, <2>1, <2>3
<1>3. ASSUME NEW n \in DirNames, NEW r \in Reads, fat_rmdir(n, r)
      PROVE  job.pc = "idle" /\ fat' = fat /\ (faults' = 0 => faults = 0) /\ Starts
  <2>1. /\ job.pc = "idle" /\ fat' = fat /\ Count(r)
        /\ \/ /\ Matches(fat[1], cur, "dir", n) # {}
              /\ StartRelease("rmdir", n, "", 0, Least(Matches(fat[1], cur, "dir", n)))
           \/ job' = Idle
    BY <1>3 DEF fat_rmdir, Finish
  <2>2. ASSUME /\ Matches(fat[1], cur, "dir", n) # {}
               /\ StartRelease("rmdir", n, "", 0, Least(Matches(fat[1], cur, "dir", n)))
        PROVE  /\ job'.pc = "free" /\ job'.w = 0
               /\ \A c \in Cluster : job'.buf[c] \in {0, fat[1][c]}
    BY <1>t, <1>n, <2>2, ReleasingFound, NoContents, Zenon
  <2>3. Starts
    BY <2>1, <2>2
  <2> QED BY <1>c, <2>1, <2>3
<1>4. ASSUME NEW n \in FileNames, NEW t \in Tags, NEW z \in 0 .. MaxSize,
             NEW r \in Reads, fat_write(n, t, z, r)
      PROVE  job.pc = "idle" /\ fat' = fat /\ (faults' = 0 => faults = 0) /\ Starts
  <2>1. /\ job.pc = "idle" /\ fat' = fat /\ Count(r)
        /\ \/ /\ Matches(fat[1], cur, "file", n) # {}
              /\ StartRelease("write", n, t, z, Least(Matches(fat[1], cur, "file", n)))
           \/ job' = [Idle EXCEPT !.pc = "load", !.op = "write",
                                  !.name = n, !.tag = t, !.size = z]
    BY <1>4 DEF fat_write
  <2>2. ASSUME /\ Matches(fat[1], cur, "file", n) # {}
               /\ StartRelease("write", n, t, z, Least(Matches(fat[1], cur, "file", n)))
        PROVE  /\ job'.pc = "free" /\ job'.w = 0
               /\ \A c \in Cluster : job'.buf[c] \in {0, fat[1][c]}
    <3>1. t \in Tags \cup {""} /\ n \in Names
      BY <1>n
    <3> QED BY <1>t, <2>2, <3>1, ReleasingFound, Zenon
  <2>3. Starts
    BY <2>1, <2>2 DEF Idle
  <2> QED BY <1>c, <2>1, <2>3
<1>5. ASSUME NEW n \in DirNames, NEW r \in Reads, fat_mkdir(n, r)
      PROVE  job.pc = "idle" /\ fat' = fat /\ (faults' = 0 => faults = 0) /\ Starts
  <2> DEFINE c == fat_find_free_cluster(fat[1])
             b == [fat[1] EXCEPT ![c] = EOC]
  <2>1. /\ job.pc = "idle" /\ fat' = fat /\ Count(r)
        /\ \/ job' = [Idle EXCEPT !.pc = "putfat", !.op = "mkdir",
                                  !.name = n, !.first = c, !.buf = b]
           \/ job' = Idle
    BY <1>5 DEF fat_mkdir, Finish
  <2>2. \A d \in Cluster : b[d] \in {EOC, fat[1][d]}
    BY <1>t DEF Tables
  <2> HIDE DEF b
  <2>3. Starts
    BY <2>1, <2>2 DEF Idle
  <2> QED BY <1>c, <2>1, <2>3
<1>6. ASSUME NEW n \in FileNames, NEW m \in FileNames, NEW o \in Outcomes,
             fat_rename(n, m, o)
      PROVE  job.pc = "idle" /\ fat' = fat /\ (faults' = 0 => faults = 0) /\ Starts
  <2>1. job.pc = "idle" /\ fat' = fat /\ job' = Idle /\ Count(o)
    BY <1>6 DEF fat_rename, Finish
  <2> QED BY <1>c, <2>1
<1>7. ASSUME NEW n \in DirNames, NEW r \in Reads, fat_cd(n, r)
      PROVE  job.pc = "idle" /\ fat' = fat /\ (faults' = 0 => faults = 0) /\ Starts
  <2>1. job.pc = "idle" /\ fat' = fat /\ job' = Idle /\ Count(r)
    BY <1>7 DEF fat_cd, Finish
  <2> QED BY <1>c, <2>1
<1>8. ASSUME fat_cd_up
      PROVE  job.pc = "idle" /\ fat' = fat /\ (faults' = 0 => faults = 0) /\ Starts
  BY <1>8 DEF fat_cd_up, Finish
<1> HIDE DEF Starts
<1>9. job.pc = "idle" /\ fat' = fat /\ (faults' = 0 => faults = 0) /\ Starts
  BY <1>1, <1>2, <1>3, <1>4, <1>5, <1>6, <1>7, <1>8 DEF Call
<1> QED BY <1>9 DEF Starts

(***************************************************************************)
(* What a write of an operation in progress does to them: WritesTable is a *)
(* write of write_fat, TakesCluster a turn of the loop of fat_write.       *)
(***************************************************************************)
WritesTable ==
  /\ job.pc \in {"free", "putfat"}
  /\ fat' = fat \/ fat' = PutFatSector(job.w, job.buf)
  /\ faults' = 0 => fat' = PutFatSector(job.w, job.buf)
  /\ \/ job' = Idle /\ faults' # 0
     \/ /\ job.w < LastFatSector /\ job'.w = job.w + 1
        /\ job'.pc = job.pc /\ job'.buf = job.buf
     \/ /\ job'.pc \in {"erase", "dots", "entry"} /\ job'.buf = job.buf
        /\ faults' = 0 => job.w = LastFatSector

TakesCluster ==
  /\ job.pc = "data" /\ fat' = fat /\ job'.pc \in {"data", "putfat"} /\ job'.w = 0
  /\ \/ job'.prev = job.prev /\ job'.buf = job.buf
     \/ LET c == fat_find_free_cluster(job.buf) IN
        /\ c # 0 /\ job'.prev = c
        /\ job'.buf[c] = EOC
        /\ \A d \in Cluster \ {c} :
             job'.buf[d] = IF d = job.prev THEN c ELSE job.buf[d]

LEMMA Steps ==
  ASSUME TInv, Step
  PROVE  /\ faults' = 0 => faults = 0
         /\ \/ WritesTable
            \/ TakesCluster
            \/ fat' = fat /\ job' = Idle /\ job.pc \notin {"free", "putfat"}
            \/ fat' = fat /\ job.pc = "erase" /\ job'.pc = "load" /\ job'.buf = Empty
            \/ /\ fat' = fat /\ job.pc = "load" /\ job'.pc \in {"data", "putfat"}
               /\ job'.buf = fat[1] /\ job'.prev = 0 /\ job'.w = 0
            \/ fat' = fat /\ job.pc = "dots" /\ job'.pc = "entry" /\ job'.buf = job.buf
<1> USE DEF disk
<1>t. /\ Types /\ Phases /\ faults \in 0 .. MaxFaults /\ job \in Jobs
      /\ job.buf \in Tables
  BY DEF TInv, Types, Jobs
<1>w. job.w # LastFatSector => job.w < LastFatSector
  <2>1. \A w \in 0 .. LastFatSector : w # LastFatSector => w < LastFatSector
    BY IdleJob
  <2>2. job.w \in 0 .. LastFatSector
    BY <1>t DEF Jobs
  <2> QED BY <2>1, <2>2, Zenon
<1>c. ASSUME NEW o, o \in Outcomes \/ o \in Reads, Count(o)
      PROVE  faults' = 0 => faults = 0 /\ o = "ok"
  BY <1>t, <1>c, Faults
<1>1. ASSUME NEW o \in Outcomes, FreeStep(o)
      PROVE  (faults' = 0 => faults = 0) /\ WritesTable
  <2>1. /\ job.pc = "free" /\ Count(o)
        /\ fat' = IF o = "lost" THEN fat ELSE PutFatSector(job.w, job.buf)
        /\ job' = IF o # "ok" \/ job.w = LastFatSector
                  THEN [job EXCEPT !.pc = "erase"] ELSE [job EXCEPT !.w = job.w + 1]
    BY <1>1 DEF FreeStep
  <2>2. faults' = 0 => faults = 0 /\ o = "ok"
    BY <1>c, <2>1
  <2>3. job.w # LastFatSector => job.w < LastFatSector
    BY <1>w, Zenon
  <2>4. \/ /\ job.w < LastFatSector /\ job'.w = job.w + 1
           /\ job'.pc = job.pc /\ job'.buf = job.buf
        \/ /\ job'.pc \in {"erase", "dots", "entry"} /\ job'.buf = job.buf
           /\ faults' = 0 => job.w = LastFatSector
    BY <1>t, <2>1, <2>2, <2>3 DEF Jobs
  <2>5. /\ fat' = fat \/ fat' = PutFatSector(job.w, job.buf)
        /\ faults' = 0 => fat' = PutFatSector(job.w, job.buf)
    BY <2>1, <2>2
  <2> QED BY <2>1, <2>2, <2>4, <2>5 DEF WritesTable
<1>2. ASSUME NEW o \in Outcomes, PutFatStep(o)
      PROVE  (faults' = 0 => faults = 0) /\ WritesTable
  <2> DEFINE pc == IF job.op = "mkdir" THEN "dots" ELSE "entry"
  <2>1. /\ job.pc = "putfat" /\ Count(o)
        /\ fat' = IF o = "lost" THEN fat ELSE PutFatSector(job.w, job.buf)
        /\ \/ o # "ok" /\ job' = Idle
           \/ job.w < LastFatSector /\ job' = [job EXCEPT !.w = job.w + 1]
           \/ ~(job.w < LastFatSector) /\ job' = [job EXCEPT !.w = 0, !.pc = pc]
    BY <1>2 DEF PutFatStep, Return, Finish
  <2>2. faults' = 0 => faults = 0 /\ o = "ok"
    BY <1>c, <2>1
  <2>3. job.w # LastFatSector => job.w < LastFatSector
    BY <1>w, Zenon
  <2>4. \/ job' = Idle /\ faults' # 0
        \/ /\ job.w < LastFatSector /\ job'.w = job.w + 1
           /\ job'.pc = job.pc /\ job'.buf = job.buf
        \/ /\ job'.pc \in {"erase", "dots", "entry"} /\ job'.buf = job.buf
           /\ faults' = 0 => job.w = LastFatSector
    BY <1>t, <2>1, <2>2, <2>3 DEF Jobs
  <2>5. /\ fat' = fat \/ fat' = PutFatSector(job.w, job.buf)
        /\ faults' = 0 => fat' = PutFatSector(job.w, job.buf)
    BY <2>1, <2>2
  <2> QED BY <2>1, <2>2, <2>4, <2>5 DEF WritesTable
<1>3. ASSUME NEW o \in Outcomes, DataStep(o)
      PROVE  /\ faults' = 0 => faults = 0
             /\ \/ TakesCluster
                \/ fat' = fat /\ job' = Idle /\ job.pc = "data"
  <2> DEFINE fresh == job.k % SPC = 0
             new == fat_find_free_cluster(job.buf)
             c == IF fresh THEN new ELSE job.prev
             linked == IF fresh /\ job.prev # 0
                       THEN [job.buf EXCEPT ![job.prev] = c] ELSE job.buf
             b == IF fresh THEN [linked EXCEPT ![c] = EOC] ELSE job.buf
             first == IF job.first = 0 THEN c ELSE job.first
             pc == IF job.k + 1 = job.size THEN "putfat" ELSE "data"
  <2>1. /\ job.pc = "data" /\ fat' = fat /\ Count(o)
        /\ \/ job' = Idle
           \/ /\ c # 0
              /\ job' = [job EXCEPT !.buf = b, !.first = first, !.prev = c,
                                    !.k = job.k + 1, !.pc = pc]
    BY <1>3 DEF DataStep, Return, Finish
  <2>2. faults' = 0 => faults = 0
    BY <1>c, <2>1
  <2>3. job.w = 0
    BY <1>t, <2>1 DEF Phases
  <2>4. CASE job' = Idle
    BY <2>1, <2>2, <2>4
  <2>5. CASE /\ c # 0
             /\ job' = [job EXCEPT !.buf = b, !.first = first, !.prev = c,
                                   !.k = job.k + 1, !.pc = pc]
    <3>1. pc \in {"data", "putfat"}
      OBVIOUS
    <3>2. \/ c = job.prev /\ b = job.buf
          \/ /\ new # 0 /\ c = new /\ b[new] = EOC
             /\ \A d \in Cluster \ {new} : b[d] = IF d = job.prev THEN new ELSE job.buf[d]
      <4>1. CASE ~fresh
        BY <4>1
      <4>2. CASE fresh
        <5>1. c = new /\ new # 0
          BY <2>5, <4>2
        <5>2. new \in Cluster
          BY <1>t, <5>1, FreeCluster
        <5> HIDE DEF new
        <5>3. job.prev # 0 => linked = [job.buf EXCEPT ![job.prev] = new]
          BY <4>2
        <5>4. job.prev = 0 => linked = job.buf
          OBVIOUS
        <5>5. b = [linked EXCEPT ![new] = EOC]
          BY <4>2
        <5>6. DOMAIN linked = Cluster /\ 0 \notin Cluster
          BY <1>t, Geometry DEF Tables
        <5> HIDE DEF linked, b, c, fresh
        <5>7. b[new] = EOC /\ \A d \in Cluster \ {new} : b[d] = linked[d]
          BY <5>2, <5>5, <5>6
        <5>8. \A d \in Cluster : linked[d] = IF d = job.prev THEN new ELSE job.buf[d]
          BY <1>t, <5>3, <5>4, <5>6 DEF Tables
        <5> QED BY <5>1, <5>7, <5>8
      <4> QED BY <4>1, <4>2
    <3> HIDE DEF new, c, b, first, pc
    <3>3. job'.prev = c /\ job'.buf = b /\ job'.pc = pc /\ job'.w = 0
      BY <1>t, <2>3, <2>5 DEF Jobs
    <3>4. \/ job'.prev = job.prev /\ job'.buf = job.buf
          \/ /\ new # 0 /\ job'.prev = new /\ job'.buf[new] = EOC
             /\ \A d \in Cluster \ {new} :
                  job'.buf[d] = IF d = job.prev THEN new ELSE job.buf[d]
      BY <3>2, <3>3
    <3>5. TakesCluster
      BY <2>1, <3>1, <3>3, <3>4 DEF TakesCluster, new
    <3> QED BY <2>2, <3>5
  <2> HIDE DEF c, b, first, pc
  <2> QED BY <2>1, <2>4, <2>5
<1>4. ASSUME NEW o \in Outcomes, EraseStep(o)
      PROVE  /\ faults' = 0 => faults = 0
             /\ fat' = fat /\ job.pc = "erase"
             /\ job' = Idle \/ (job'.pc = "load" /\ job'.buf = Empty)
  <2>1. /\ fat' = fat /\ job.pc = "erase" /\ Count(o)
        /\ \/ job' = Idle
           \/ job' = [Idle EXCEPT !.pc = "load", !.op = "write", !.name = job.name,
                                  !.tag = job.tag, !.size = job.size]
    BY <1>4 DEF EraseStep, Return, Finish
  <2> QED BY <1>c, <2>1 DEF Idle
<1>5. ASSUME NEW r \in Reads, LoadStep(r)
      PROVE  /\ faults' = 0 => faults = 0
             /\ fat' = fat /\ job.pc = "load"
             /\ \/ job' = Idle
                \/ /\ job'.pc \in {"data", "putfat"}
                   /\ job'.buf = fat[1] /\ job'.prev = 0 /\ job'.w = 0
  <2>1. /\ fat' = fat /\ job.pc = "load" /\ Count(r)
        /\ \/ job' = Idle
           \/ job' = [job EXCEPT !.pc = IF job.size = 0 THEN "putfat" ELSE "data",
                                 !.buf = fat[1]]
    BY <1>5 DEF LoadStep, Return, Finish
  <2>2. job.prev = 0 /\ job.w = 0
    BY <1>t, <2>1 DEF Phases
  <2> QED BY <1>t, <1>c, <2>1, <2>2 DEF Jobs
<1>6. ASSUME NEW o \in Outcomes, DotsStep(o)
      PROVE  /\ faults' = 0 => faults = 0
             /\ fat' = fat /\ job.pc = "dots"
             /\ job' = Idle \/ (job'.pc = "entry" /\ job'.buf = job.buf)
  <2>1. /\ fat' = fat /\ job.pc = "dots" /\ Count(o)
        /\ job' = Idle \/ job' = [job EXCEPT !.pc = "entry"]
    BY <1>6 DEF DotsStep, Return, Finish
  <2> QED BY <1>t, <1>c, <2>1 DEF Jobs
<1>7. ASSUME NEW o \in Outcomes, EntryStep(o)
      PROVE  (faults' = 0 => faults = 0) /\ fat' = fat /\ job.pc = "entry" /\ job' = Idle
  <2>1. fat' = fat /\ job.pc = "entry" /\ Count(o) /\ job' = Idle
    BY <1>7 DEF EntryStep, Return, Finish
  <2> QED BY <1>c, <2>1
<1>8. ASSUME EntryReadError
      PROVE  (faults' = 0 => faults = 0) /\ fat' = fat /\ job.pc = "entry" /\ job' = Idle
  <2>1. fat' = fat /\ job.pc = "entry" /\ job' = Idle /\ faults' = faults + 1
    BY <1>8 DEF EntryReadError, Return, Finish
  <2> QED BY <1>t, <2>1, Geometry
<1> QED BY <1>1, <1>2, <1>3, <1>4, <1>5, <1>6, <1>7, <1>8, Zenon DEF Step

-----------------------------------------------------------------------------
(* A table whose links lead upwards has no cycle: from the highest cluster *)
(* of a set of clusters no link leads back into the set.                   *)
LEMMA UpwardEnds ==
  ASSUME NEW buf \in Tables, Upward(buf)
  PROVE  Acyclic(buf)
<1> SUFFICES ASSUME NEW S \in SUBSET Cluster, S # {}
             PROVE  \E c \in S : buf[c] \notin S
  BY DEF Acyclic
<1> DEFINE D == {NC + 1 - c : c \in S}
<1>1. D \in SUBSET Nat /\ D # {}
  <2>1. \A c \in Cluster : NC + 1 - c \in Nat
    BY GeometryAssumption DEF Cluster
  <2>2. \A c \in S : NC + 1 - c \in Nat
    BY <2>1
  <2> QED BY <2>2
<1>2. PICK m \in D : \A k \in D : m <= k
  <2> HIDE DEF D
  <2> QED BY <1>1, LeastElement
<1>3. PICK c \in S : m = NC + 1 - c
  BY <1>2
<1>4. \A d \in S : m <= NC + 1 - d
  BY <1>2
<1>5. \A d \in S : ~(d > c)
  <2> SUFFICES ASSUME NEW d \in S PROVE ~(d > c)
    OBVIOUS
  <2>1. d \in Nat /\ c \in Nat /\ NC \in Nat
    BY GeometryAssumption DEF Cluster
  <2>2. NC + 1 - c <= NC + 1 - d
    BY <1>3, <1>4
  <2> QED BY <2>1, <2>2
<1>6. c \in Cluster /\ 0 \notin S /\ EOC \notin S
  BY Geometry
<1>7. buf[c] \notin S
  BY <1>5, <1>6 DEF Upward
<1> QED BY <1>7

(* Writing a sector of one such table over another keeps the links upward. *)
LEMMA UpwardMixture ==
  ASSUME fat \in [1 .. FatCount -> Tables], \A f \in 1 .. FatCount : Upward(fat[f]),
         NEW buf \in Tables, Upward(buf), NEW w
  PROVE  \A f \in 1 .. FatCount : Upward(PutFatSector(w, buf)[f])
<1> DEFINE new == PutFatSector(w, buf)
<1>1. \A f \in 1 .. FatCount, c \in Cluster : new[f][c] \in {buf[c], fat[f][c]}
  BY PutType
<1> HIDE DEF new
<1>2. \A f \in 1 .. FatCount : Upward(new[f])
  BY <1>1 DEF Upward
<1> QED BY <1>2 DEF new

(* Initially no cluster is taken. *)
LEMMA ClimbingInit ==
  ASSUME Init
  PROVE  Climbing
<1>1. Upward(Empty)
  BY DEF Upward, Empty
<1>2. job.pc # "data" /\ job.buf = Empty /\ \A f \in 1 .. FatCount : fat[f] = Empty
  BY DEF Init, Idle
<1> QED BY <1>1, <1>2, Zenon DEF Climbing

(* Every step keeps the links upward. *)
LEMMA ClimbingNext ==
  ASSUME TInv, Climbing, [Next]_vars
  PROVE  Climbing'
<1> DEFINE Disk == \A f \in 1 .. FatCount : Upward(fat[f])
           Disk2 == \A f \in 1 .. FatCount : Upward(fat'[f])
           Memory2 == /\ Upward(job'.buf)
                      /\ job'.pc = "data" =>
                           \A c \in Cluster : c <= job'.prev => job'.buf[c] # 0
<1>s. SUFFICES Disk2 /\ Memory2
  BY DEF Climbing, Upward
<1>t. /\ fat \in [1 .. FatCount -> Tables] /\ fat[1] \in Tables
      /\ job.buf \in Tables /\ job.prev \in Cluster \cup {0}
  BY Geometry DEF TInv, Types, Jobs
<1>c. Upward(job.buf) /\ Disk /\ Upward(fat[1])
  BY Geometry DEF Climbing
<1>i. job' = Idle => Memory2
  <2>1. Idle.buf = Empty /\ Idle.pc # "data" /\ Upward(Empty)
    BY DEF Idle, Empty, Upward
  <2> QED BY <2>1
<1>1. CASE UNCHANGED vars
  BY <1>1, <1>c DEF Climbing, vars
<1>2. CASE Call
  <2>1. fat' = fat /\ job.pc = "idle"
    BY <1>2, Calls
  <2>2. Memory2
    <3>1. CASE job' = job
      BY <1>c, <2>1, <3>1
    <3>2. CASE /\ job'.pc = "free" /\ job'.w = 0
               /\ \A c \in Cluster : job'.buf[c] \in {0, fat[1][c]}
      BY <1>c, <3>2 DEF Upward
    <3>3. CASE job'.pc = "load" /\ job'.buf = Empty
      BY <3>3 DEF Upward, Empty
    <3>4. CASE /\ job'.pc = "putfat" /\ job'.w = 0
               /\ \A c \in Cluster : job'.buf[c] \in {EOC, fat[1][c]}
      BY <1>c, <3>4 DEF Upward
    <3> HIDE DEF Memory2
    <3> QED BY <1>2, <1>i, <3>1, <3>2, <3>3, <3>4, Calls
  <2> QED BY <1>c, <2>1, <2>2
<1>3. CASE Step
  <2>1. CASE WritesTable
    <3>1. Disk2
      BY <1>t, <1>c, <2>1, UpwardMixture DEF WritesTable
    <3>2. CASE job' = Idle
      BY <1>i, <3>1, <3>2
    <3>3. CASE job'.buf = job.buf /\ job'.pc # "data"
      BY <1>c, <3>1, <3>3
    <3> QED BY <2>1, <3>2, <3>3 DEF WritesTable
  <2>2. CASE TakesCluster
    <3>0. fat' = fat /\ job.pc = "data"
      BY <2>2 DEF TakesCluster
    <3>1. CASE job'.prev = job.prev /\ job'.buf = job.buf
      BY <1>c, <3>0, <3>1 DEF Climbing
    <3>2. CASE LET c == fat_find_free_cluster(job.buf) IN
               /\ c # 0 /\ job'.prev = c
               /\ job'.buf[c] = EOC
               /\ \A d \in Cluster \ {c} :
                    job'.buf[d] = IF d = job.prev THEN c ELSE job.buf[d]
      <4> DEFINE c == fat_find_free_cluster(job.buf)
      <4>1. /\ c # 0 /\ job'.prev = c /\ job'.buf[c] = EOC
            /\ \A d \in Cluster \ {c} :
                 job'.buf[d] = IF d = job.prev THEN c ELSE job.buf[d]
        BY <3>2
      <4>2. /\ c \in Cluster /\ job.buf[c] = 0
            /\ \A d \in Cluster : d < c => job.buf[d] # 0
        BY <1>t, <4>1, FreeCluster
      <4> HIDE DEF c
      <4>3. job.prev < c
        <5>1. ~(c <= job.prev)
          BY <3>0, <4>2 DEF Climbing
        <5> QED BY <1>t, <4>2, <5>1, GeometryAssumption DEF Cluster
      <4>4. Upward(job'.buf)
        BY <1>c, <4>1, <4>3 DEF Upward
      <4>5. ASSUME NEW d \in Cluster, d <= c PROVE job'.buf[d] # 0
        <5>1. CASE d = c
          BY <4>1, <5>1 DEF EOC
        <5>2. CASE d # c
          <6>1. d < c
            BY <4>2, <4>5, <5>2, GeometryAssumption DEF Cluster
          <6>2. job'.buf[d] = IF d = job.prev THEN c ELSE job.buf[d]
            BY <4>1, <5>2
          <6> QED BY <4>1, <4>2, <6>1, <6>2
        <5> QED BY <5>1, <5>2
      <4> QED BY <1>c, <3>0, <4>1, <4>4, <4>5
    <3> QED BY <2>2, <3>1, <3>2 DEF TakesCluster
  <2>3. CASE fat' = fat /\ job' = Idle
    BY <1>c, <1>i, <2>3
  <2>4. CASE fat' = fat /\ job'.pc = "load" /\ job'.buf = Empty
    BY <1>c, <2>4 DEF Upward, Empty
  <2>5. CASE fat' = fat /\ job'.buf = fat[1] /\ job'.prev = 0
    <3>1. \A c \in Cluster : ~(c <= 0)
      BY GeometryAssumption DEF Cluster
    <3> QED BY <1>c, <2>5, <3>1
  <2>6. CASE fat' = fat /\ job'.pc = "entry" /\ job'.buf = job.buf
    BY <1>c, <2>6
  <2> HIDE DEF Disk2, Memory2
  <2> QED BY <1>3, <2>1, <2>2, <2>3, <2>4, <2>5, <2>6, Steps
<1>4. CASE Crash
  <2>1. fat' = fat /\ job' = Idle
    BY <1>4 DEF Crash, disk
  <2> QED BY <1>c, <1>i, <2>1
<1> QED BY <1>1, <1>2, <1>3, <1>4 DEF Next

(* The chain of every file and directory ends, in the table in memory and  *)
(* in every copy on the disk, whatever mixture of old and new sectors a    *)
(* crash or a failed write of write_fat left: the loops of fat_read,       *)
(* fat_delete and read_dir_sector end.                                     *)
THEOREM ChainsEnd == Spec => []NoCycles
<1>1. ASSUME TInv, Climbing PROVE NoCycles
  <2>1. job.buf \in Tables /\ \A f \in 1 .. FatCount : fat[f] \in Tables
    BY <1>1 DEF TInv, Types, Jobs
  <2> QED BY <1>1, <2>1, UpwardEnds DEF Climbing, NoCycles
<1>2. ASSUME TInv /\ Climbing, [Next]_vars PROVE TInv' /\ Climbing'
  <2>1. TInv'
    BY <1>2, TypesNext
  <2> QED BY <1>2, <2>1, ClimbingNext
<1>3. ASSUME Init PROVE TInv /\ Climbing
  BY <1>3, TypesInit, ClimbingInit
<1> QED BY <1>1, <1>2, <1>3, PTL DEF Spec

-----------------------------------------------------------------------------
(* A write of write_fat is told by the copy and the sector it goes to, and *)
(* every entry of every copy has its write among them.                     *)
LEMMA WritesApart ==
  ASSUME NEW f \in 1 .. FatCount, NEW c \in Cluster
  PROVE  /\ WriteOf(f, c) \in 0 .. LastFatSector
         /\ (WriteOf(f, c) \div FatSecs) + 1 = f
         /\ WriteOf(f, c) % FatSecs = FatSectorOf(c)
<1> DEFINE q == f - 1
           r == FatSectorOf(c)
<1>1. r \in 0 .. FatSecs - 1
  <2>1. c - 2 \in 0 .. NC - 1
    BY GeometryAssumption DEF Cluster
  <2> QED BY <2>1, EvenShare, Geometry DEF FatSectorOf
<1>2. q \in Nat /\ q + 1 = f /\ q + 1 <= FatCount
  BY Geometry
<1> HIDE DEF q, r
<1>3. (q * FatSecs + r) \div FatSecs = q /\ (q * FatSecs + r) % FatSecs = r
  BY <1>1, <1>2, RowAndPlace, Geometry
<1>4. q * FatSecs + r \in 0 .. LastFatSector
  <2>1. (q + 1) * FatSecs <= FatCount * FatSecs
    BY <1>2, ProductMonotone, Geometry
  <2>2. (q + 1) * FatSecs = q * FatSecs + FatSecs
    BY <1>2, Geometry
  <2>3. q * FatSecs \in Nat /\ FatCount * FatSecs \in Nat
    BY <1>2, Geometry
  <2> QED BY <1>1, <2>1, <2>2, <2>3, Geometry DEF LastFatSector
<1>5. WriteOf(f, c) = q * FatSecs + r
  BY DEF WriteOf, q, r
<1> QED BY <1>2, <1>3, <1>4, <1>5 DEF r

(* A table is told by its entries. *)
LEMMA TablesEqual ==
  ASSUME NEW a \in Tables, NEW b \in Tables, \A c \in Cluster : a[c] = b[c]
  PROVE  a = b
BY DEF Tables

(* Every step that meets no fault brings write_fat forward by one sector.  *)
LEMMA CopyingNext ==
  ASSUME TInv, Copying, [Next]_vars, TInv'
  PROVE  Copying'
<1> DEFINE Copied(w) == \A f \in 1 .. FatCount, c \in Cluster :
                          WriteOf(f, c) < w => fat'[f][c] = job'.buf[c]
           Equal == \A f \in 1 .. FatCount : fat'[f] = fat'[1]
<1>s. SUFFICES ASSUME faults' = 0
               PROVE  /\ job'.pc \notin {"free", "putfat"} => Equal
                      /\ job'.pc \in {"free", "putfat"} => Copied(job'.w)
  BY DEF Copying, WriteOf, FatSectorOf
<1>t. /\ fat \in [1 .. FatCount -> Tables] /\ faults \in 0 .. MaxFaults
      /\ job.buf \in Tables /\ job.w \in 0 .. LastFatSector
  BY DEF TInv, Types, Jobs
<1>t2. /\ fat' \in [1 .. FatCount -> Tables] /\ job'.buf \in Tables
       /\ job'.w \in 0 .. LastFatSector
  BY DEF TInv, Types, Jobs
<1>e. job.pc \notin {"free", "putfat"} /\ faults = 0 /\ fat' = fat => Equal
  BY Geometry DEF Copying
<1>0. job'.w = 0 => Copied(job'.w)
  BY WritesApart, IdleJob
<1>i. Idle.pc = "idle"
  BY DEF Idle
<1>1. CASE UNCHANGED vars
  BY <1>1, <1>s DEF Copying, vars
<1>2. CASE Call
  <2>1. fat' = fat /\ job.pc = "idle" /\ faults = 0
    BY <1>2, <1>s, Calls
  <2>2. Equal
    BY <1>e, <2>1
  <2>3. CASE job'.pc \in {"idle", "load"}
    BY <2>2, <2>3
  <2>4. CASE job'.w = 0
    BY <1>0, <2>2, <2>4
  <2> HIDE DEF Equal, Copied
  <2> QED BY <1>2, <1>i, <2>1, <2>3, <2>4, Calls
<1>3. CASE Step
  <2>0. faults = 0
    BY <1>3, <1>s, Steps
  <2>1. CASE WritesTable
    <3>1. /\ job.pc \in {"free", "putfat"} /\ job'.buf = job.buf
          /\ fat' = PutFatSector(job.w, job.buf)
          /\ \/ job'.pc = job.pc /\ job'.w = job.w + 1
             \/ job'.pc \in {"erase", "dots", "entry"} /\ job.w = LastFatSector
      BY <1>s, <2>1 DEF WritesTable
    <3>2. ASSUME NEW f \in 1 .. FatCount, NEW c \in Cluster,
                 WriteOf(f, c) < job.w + 1
          PROVE  fat'[f][c] = job'.buf[c]
      <4> DEFINE v == WriteOf(f, c)
      <4>1. /\ v \in 0 .. LastFatSector
            /\ (v \div FatSecs) + 1 = f /\ v % FatSecs = FatSectorOf(c)
        BY WritesApart
      <4>2. fat'[f][c] = IF f = (job.w \div FatSecs) + 1
                            /\ FatSectorOf(c) = job.w % FatSecs
                         THEN job.buf[c] ELSE fat[f][c]
        BY <1>t, <3>1, PutType, Zenon
      <4>3. v < job.w => fat[f][c] = job.buf[c]
        BY <2>0, <3>1 DEF Copying
      <4>4. v < job.w \/ v = job.w
        BY <1>t, <3>2, <4>1, IdleJob
      <4> HIDE DEF v
      <4>5. CASE v = job.w
        BY <3>1, <4>1, <4>2, <4>5
      <4>6. CASE v < job.w
        BY <3>1, <4>2, <4>3, <4>6
      <4> QED BY <4>4, <4>5, <4>6
    <3>3. CASE job'.pc = job.pc /\ job'.w = job.w + 1
      BY <3>1, <3>2, <3>3
    <3>4. CASE job'.pc \in {"erase", "dots", "entry"} /\ job.w = LastFatSector
      <4>1. ASSUME NEW f \in 1 .. FatCount PROVE fat'[f] = job'.buf
        <5>1. ASSUME NEW c \in Cluster PROVE fat'[f][c] = job'.buf[c]
          <6>1. WriteOf(f, c) \in 0 .. LastFatSector
            BY WritesApart
          <6>2. WriteOf(f, c) < job.w + 1
            BY <3>4, <6>1, IdleJob
          <6> QED BY <3>2, <6>2
        <5> QED BY <1>t2, <5>1, TablesEqual
      <4>2. Equal
        BY <4>1, Geometry
      <4> QED BY <3>4, <4>2
    <3> HIDE DEF Equal, Copied
    <3> QED BY <3>1, <3>3, <3>4
  <2>2. CASE TakesCluster
    <3>1. /\ job.pc = "data" /\ fat' = fat /\ job'.w = 0
          /\ job'.pc \in {"data", "putfat"}
      BY <2>2 DEF TakesCluster
    <3>2. Equal
      BY <1>e, <2>0, <3>1
    <3> QED BY <1>0, <3>1, <3>2
  <2>3. CASE fat' = fat /\ job' = Idle /\ job.pc \notin {"free", "putfat"}
    BY <1>e, <1>i, <2>0, <2>3
  <2>4. CASE fat' = fat /\ job.pc = "erase" /\ job'.pc = "load" /\ job'.buf = Empty
    BY <1>e, <2>0, <2>4
  <2>5. CASE /\ fat' = fat /\ job.pc = "load" /\ job'.pc \in {"data", "putfat"}
             /\ job'.buf = fat[1] /\ job'.prev = 0 /\ job'.w = 0
    BY <1>e, <1>0, <2>0, <2>5
  <2>6. CASE fat' = fat /\ job.pc = "dots" /\ job'.pc = "entry" /\ job'.buf = job.buf
    BY <1>e, <2>0, <2>6
  <2> HIDE DEF Equal, Copied
  <2> QED BY <1>3, <2>1, <2>2, <2>3, <2>4, <2>5, <2>6, Steps
<1>4. CASE Crash
  <2>1. faults' = faults + 1
    BY <1>4 DEF Crash
  <2>2. faults' # 0
    BY <1>t, <2>1, Geometry
  <2> QED BY <1>s, <2>2
<1> QED BY <1>1, <1>2, <1>3, <1>4 DEF Next

(* As long as no access failed and nothing crashed, the copies of the table*)
(* agree whenever no operation is in progress: write_fat of one operation  *)
(* always reaches the last sector of the last copy.                        *)
THEOREM CopiesStayEqual == Spec => []CopiesAgree
<1>1. ASSUME TInv, Copying PROVE CopiesAgree
  BY <1>1 DEF Copying, CopiesAgree
<1>2. ASSUME TInv /\ Copying, [Next]_vars PROVE TInv' /\ Copying'
  <2>1. TInv'
    BY <1>2, TypesNext
  <2> QED BY <1>2, <2>1, CopyingNext
<1>3. ASSUME Init PROVE TInv /\ Copying
  <2>1. job.pc = "idle" /\ \A f \in 1 .. FatCount : fat[f] = fat[1]
    BY <1>3, Geometry DEF Init, Idle
  <2> QED BY <1>3, <2>1, TypesInit DEF Copying
<1> QED BY <1>1, <1>2, <1>3, PTL DEF Spec


-----------------------------------------------------------------------------
(* Where a chain starts, and that 0 and the end mark start none. *)
LEMMA ChainStart ==
  ASSUME NEW buf \in Tables, NEW c \in Link
  PROVE  /\ c \in Cluster => c \in ChainOf(buf, c)
         /\ c \notin Cluster => ChainOf(buf, c) = {}
<1> DEFINE f == Follow(buf, c)
<1>f. /\ f[0] = c /\ NC \in Nat
      /\ \A i \in 1 .. NC : f[i] = IF f[i - 1] \in Cluster THEN buf[f[i - 1]] ELSE f[i - 1]
  BY FollowRec, Geometry
<1>c. ChainOf(buf, c) = {f[i] : i \in 0 .. NC} \cap Cluster
  BY DEF ChainOf
<1> HIDE DEF f
<1>1. c \in Cluster => c \in ChainOf(buf, c)
  <2>1. 0 \in 0 .. NC
    BY <1>f
  <2> QED BY <1>f, <1>c, <2>1
<1>2. ASSUME c \notin Cluster PROVE ChainOf(buf, c) = {}
  <2> DEFINE P == {i \in 0 .. NC : f[i] = c}
  <2>1. 0 \in P
    BY <1>f
  <2>2. ASSUME NEW i \in 1 .. NC, i - 1 \in P PROVE i \in P
    BY <1>f, <1>2, <2>2
  <2>3. \A i \in 0 .. NC : i \in P
    <3> HIDE DEF P
    <3> QED BY <1>f, <2>1, <2>2, SetInduction
  <2> QED BY <1>c, <1>2, <2>3
<1> QED BY <1>1, <1>2

(* A chain stays in a set that no link leaves. *)
LEMMA ChainStaysIn ==
  ASSUME NEW buf \in Tables, NEW c \in Link, NEW T,
         c \in Cluster => c \in T,
         \A x \in T : x \in Cluster /\ buf[x] \in Cluster => buf[x] \in T
  PROVE  ChainOf(buf, c) \subseteq T
<1> DEFINE f == Follow(buf, c)
           P == {i \in 0 .. NC : f[i] \in Cluster => f[i] \in T}
<1>f. /\ f[0] = c /\ NC \in Nat
      /\ \A i \in 1 .. NC : f[i] = IF f[i - 1] \in Cluster THEN buf[f[i - 1]] ELSE f[i - 1]
  BY FollowRec, Geometry
<1>c. ChainOf(buf, c) = {f[i] : i \in 0 .. NC} \cap Cluster
  BY DEF ChainOf
<1> HIDE DEF f
<1>1. 0 \in P
  BY <1>f
<1>2. ASSUME NEW i \in 1 .. NC, i - 1 \in P PROVE i \in P
  <2>1. i \in 0 .. NC
    BY <1>f
  <2>2. CASE f[i - 1] \in Cluster
    <3>1. f[i] = buf[f[i - 1]] /\ f[i - 1] \in T
      BY <1>f, <1>2, <2>2
    <3> QED BY <2>1, <2>2, <3>1
  <2>3. CASE f[i - 1] \notin Cluster
    BY <1>f, <2>1, <2>3
  <2> QED BY <2>2, <2>3
<1>3. \A i \in 0 .. NC : i \in P
  <2> HIDE DEF P
  <2> QED BY <1>f, <1>1, <1>2, SetInduction
<1> QED BY <1>c, <1>3

(* Tables that agree along a chain have the same chain. *)
LEMMA ChainsAgree ==
  ASSUME NEW a \in Tables, NEW b \in Tables, NEW c \in Link,
         \A x \in ChainOf(a, c) : b[x] = a[x]
  PROVE  Follow(b, c) = Follow(a, c) /\ ChainOf(b, c) = ChainOf(a, c)
<1> DEFINE f == Follow(a, c)
           g == Follow(b, c)
           P == {i \in 0 .. NC : g[i] = f[i]}
<1>n. NC \in Nat
  BY Geometry
<1>f. /\ f[0] = c /\ f \in [0 .. NC -> Link]
      /\ \A i \in 1 .. NC : f[i] = IF f[i - 1] \in Cluster THEN a[f[i - 1]] ELSE f[i - 1]
  BY FollowRec
<1>g. /\ g[0] = c /\ g \in [0 .. NC -> Link]
      /\ \A i \in 1 .. NC : g[i] = IF g[i - 1] \in Cluster THEN b[g[i - 1]] ELSE g[i - 1]
  BY FollowRec
<1>c. \A i \in 0 .. NC : f[i] \in Cluster => b[f[i]] = a[f[i]]
  BY DEF ChainOf
<1> HIDE DEF f, g
<1>1. 0 \in P
  BY <1>n, <1>f, <1>g
<1>2. ASSUME NEW i \in 1 .. NC, i - 1 \in P PROVE i \in P
  <2>1. i \in 0 .. NC /\ i - 1 \in 0 .. NC /\ g[i - 1] = f[i - 1]
    BY <1>n, <1>2
  <2>2. g[i] = f[i]
    BY <1>f, <1>g, <1>c, <2>1
  <2> QED BY <2>1, <2>2
<1>3. \A i \in 0 .. NC : i \in P
  <2> HIDE DEF P
  <2> QED BY <1>n, <1>1, <1>2, SetInduction
<1>4. \A i \in 0 .. NC : g[i] = f[i]
  BY <1>3
<1>5. f = [i \in 0 .. NC |-> f[i]] /\ g = [i \in 0 .. NC |-> g[i]]
  BY <1>f, <1>g
<1>6. g = f
  BY <1>4, <1>5, Zenon
<1> QED BY <1>6 DEF ChainOf, f, g

(* A table in which some entries were freed has no longer chains. *)
LEMMA ChainShrinks ==
  ASSUME NEW a \in Tables, NEW b \in Tables, NEW c \in Link,
         \A x \in Cluster : b[x] \in {0, a[x]}
  PROVE  ChainOf(b, c) \subseteq ChainOf(a, c)
<1> DEFINE f == Follow(a, c)
           g == Follow(b, c)
           P == {i \in 0 .. NC : g[i] = f[i] \/ g[i] \notin Cluster}
<1>f. /\ f[0] = c /\ NC \in Nat /\ 0 \notin Cluster
      /\ \A i \in 1 .. NC : f[i] = IF f[i - 1] \in Cluster THEN a[f[i - 1]] ELSE f[i - 1]
  BY FollowRec, Geometry
<1>g. /\ g[0] = c
      /\ \A i \in 1 .. NC : g[i] = IF g[i - 1] \in Cluster THEN b[g[i - 1]] ELSE g[i - 1]
  BY FollowRec
<1>c. /\ ChainOf(a, c) = {f[i] : i \in 0 .. NC} \cap Cluster
      /\ ChainOf(b, c) = {g[i] : i \in 0 .. NC} \cap Cluster
  BY DEF ChainOf
<1> HIDE DEF f, g
<1>1. 0 \in P
  BY <1>f, <1>g
<1>2. ASSUME NEW i \in 1 .. NC, i - 1 \in P PROVE i \in P
  <2>1. i \in 0 .. NC /\ (g[i - 1] = f[i - 1] \/ g[i - 1] \notin Cluster)
    BY <1>f, <1>2
  <2>2. g[i] = f[i] \/ g[i] \notin Cluster
    BY <1>f, <1>g, <2>1
  <2> QED BY <2>1, <2>2
<1>3. \A i \in 0 .. NC : i \in P
  <2> HIDE DEF P
  <2> QED BY <1>f, <1>1, <1>2, SetInduction
<1> QED BY <1>c, <1>3

(* A cluster whose link is free or the end mark is a chain of its own. *)
LEMMA ChainOfOne ==
  ASSUME NEW buf \in Tables, NEW c \in Cluster, buf[c] \in {0, EOC}
  PROVE  ChainOf(buf, c) = {c}
<1>1. c \in Link /\ buf[c] \notin Cluster
  BY Geometry DEF Link
<1>2. ChainOf(buf, c) \subseteq {c}
  BY <1>1, ChainStaysIn
<1> QED BY <1>1, <1>2, ChainStart

(* The links of a chain lead upwards. *)
Climbs(buf, c) == \A x \in ChainOf(buf, c) : buf[x] \in Cluster => buf[x] > x

(* A chain that climbs has come to cluster i + 2 at least at position i,   *)
(* and its clusters get larger.                                            *)
LEMMA ChainClimbs ==
  ASSUME NEW buf \in Tables, NEW c \in Link, Climbs(buf, c)
  PROVE  /\ \A i \in 0 .. NC : Follow(buf, c)[i] \in Cluster => i < NC
         /\ \A j \in 0 .. NC : \A i \in 0 .. j - 1 :
              Follow(buf, c)[j] \in Cluster =>
                Follow(buf, c)[i] \in Cluster /\ Follow(buf, c)[i] < Follow(buf, c)[j]
<1> DEFINE f == Follow(buf, c)
           P == {i \in 0 .. NC : f[i] \in Cluster => f[i] >= i + 2}
           Q == {j \in 0 .. NC : \A i \in 0 .. j - 1 :
                   f[j] \in Cluster => f[i] \in Cluster /\ f[i] < f[j]}
<1>n. NC \in Nat /\ \A x \in Cluster : x \in Int /\ 2 <= x /\ x <= NC + 1
  BY GeometryAssumption DEF Cluster
<1>f. /\ f[0] = c
      /\ \A i \in 1 .. NC : f[i] = IF f[i - 1] \in Cluster THEN buf[f[i - 1]] ELSE f[i - 1]
  BY FollowRec
<1>u. \A i \in 0 .. NC : f[i] \in Cluster /\ buf[f[i]] \in Cluster => buf[f[i]] > f[i]
  BY DEF Climbs, ChainOf
<1> HIDE DEF f
<1>s. ASSUME NEW i \in 1 .. NC, f[i] \in Cluster
      PROVE  f[i - 1] \in Cluster /\ f[i] > f[i - 1]
  <2>1. i - 1 \in 0 .. NC
    BY <1>n
  <2>2. f[i - 1] \in Cluster
    BY <1>f, <1>s
  <2>3. f[i] = buf[f[i - 1]]
    BY <1>f, <2>2
  <2> QED BY <1>u, <1>s, <2>1, <2>2, <2>3
<1>1. \A i \in 0 .. NC : i \in P
  <2>1. 0 \in P
    BY <1>n, <1>f
  <2>2. ASSUME NEW i \in 1 .. NC, i - 1 \in P PROVE i \in P
    <3>1. i \in 0 .. NC
      BY <1>n
    <3>2. ASSUME f[i] \in Cluster PROVE f[i] >= i + 2
      <4>1. f[i - 1] \in Cluster /\ f[i] > f[i - 1]
        BY <1>s, <3>2
      <4>2. f[i - 1] >= (i - 1) + 2
        BY <2>2, <4>1
      <4> QED BY <1>n, <3>2, <4>1, <4>2
    <3> QED BY <3>1, <3>2
  <2> HIDE DEF P
  <2> QED BY <1>n, <2>1, <2>2, SetInduction
<1>2. \A j \in 0 .. NC : j \in Q
  <2>1. 0 \in Q
    BY <1>n
  <2>2. ASSUME NEW j \in 1 .. NC, j - 1 \in Q PROVE j \in Q
    <3>1. j \in 0 .. NC
      BY <1>n
    <3>2. ASSUME NEW i \in 0 .. j - 1, f[j] \in Cluster
          PROVE  f[i] \in Cluster /\ f[i] < f[j]
      <4>1. f[j - 1] \in Cluster /\ f[j] > f[j - 1]
        BY <1>s, <3>2
      <4>2. CASE i = j - 1
        BY <1>n, <3>2, <4>1, <4>2
      <4>3. CASE i # j - 1
        <5>1. i \in 0 .. (j - 1) - 1
          BY <4>3
        <5>2. f[i] \in Cluster /\ f[i] < f[j - 1]
          BY <2>2, <4>1, <5>1
        <5> QED BY <1>n, <3>2, <4>1, <5>2
      <4> QED BY <4>2, <4>3
    <3> QED BY <3>1, <3>2
  <2> HIDE DEF Q
  <2> QED BY <1>n, <2>1, <2>2, SetInduction
<1>3. ASSUME NEW i \in 0 .. NC, f[i] \in Cluster PROVE i < NC
  <2>1. f[i] >= i + 2 /\ f[i] <= NC + 1
    BY <1>n, <1>1, <1>3
  <2> QED BY <1>n, <1>3, <2>1
<1> QED BY <1>2, <1>3 DEF f

(* In a table whose links lead upwards every chain climbs. *)
LEMMA UpwardClimbs == \A buf, c : Upward(buf) => Climbs(buf, c)
BY Geometry DEF Upward, Climbs, ChainOf

(* A chain contains what its clusters link to. *)
LEMMA ChainClosed ==
  ASSUME NEW buf \in Tables, NEW c \in Link, Climbs(buf, c),
         NEW x \in ChainOf(buf, c), buf[x] \in Cluster
  PROVE  buf[x] \in ChainOf(buf, c)
<1>1. PICK i \in 0 .. NC : Follow(buf, c)[i] = x
  BY DEF ChainOf
<1>2. x \in Cluster
  BY DEF ChainOf
<1>3. i < NC
  BY <1>1, <1>2, ChainClimbs
<1>4. i + 1 \in 1 .. NC /\ (i + 1) - 1 = i /\ i + 1 \in 0 .. NC
  BY <1>3, Geometry
<1>5. Follow(buf, c)[i + 1] = buf[x]
  BY <1>1, <1>2, <1>4, FollowRec
<1> QED BY <1>4, <1>5 DEF ChainOf

-----------------------------------------------------------------------------
(* Every place of a directory is an entry of a sector, and only its own.   *)
LEMMA Places ==
  ASSUME NEW d \in Cluster \cup {0}, NEW p \in Room(d)
  PROVE  /\ p \in Nat /\ Home(d, p) \in Sectors /\ (p % EPS) + 1 \in 1 .. EPS
         /\ \A e \in Cluster \cup {0} : \A q \in Room(e) :
              Home(e, q) = Home(d, p) /\ (q % EPS) + 1 = (p % EPS) + 1
                => e = d /\ q = p
<1>1. /\ EPS \in Nat \ {0} /\ RootSecs \in Nat \ {0} /\ SPC \in Nat \ {0}
      /\ \A e \in Cluster \cup {0} : e = 0 \/ e \in Cluster
      /\ 0 \notin Cluster
  BY Geometry
<1> DEFINE n(e) == IF e = 0 THEN RootSecs ELSE 1
<1>2. ASSUME NEW e \in Cluster \cup {0}, NEW q \in Room(e)
      PROVE  /\ q \in Nat /\ q \div EPS \in 0 .. n(e) - 1 /\ q % EPS \in 0 .. EPS - 1
             /\ Home(e, q) = <<e, q \div EPS>>
  <2>1. q \in Nat /\ q < n(e) * EPS /\ n(e) \in Nat
    BY <1>1 DEF Room
  <2>2. q \div EPS \in 0 .. n(e) - 1 /\ q % EPS \in 0 .. EPS - 1
    <3> HIDE DEF n
    <3> QED BY <1>1, <2>1, RowOf
  <2> QED BY <2>1, <2>2 DEF Home
<1>3. p \in Nat /\ p % EPS \in 0 .. EPS - 1 /\ Home(d, p) = <<d, p \div EPS>>
  BY <1>2
<1>4. Home(d, p) \in Sectors
  BY <1>1, <1>2 DEF Sectors
<1>5. ASSUME NEW e \in Cluster \cup {0}, NEW q \in Room(e),
             Home(e, q) = Home(d, p), (q % EPS) + 1 = (p % EPS) + 1
      PROVE  e = d /\ q = p
  <2>1. q \in Nat /\ q % EPS \in 0 .. EPS - 1 /\ Home(e, q) = <<e, q \div EPS>>
    BY <1>2
  <2>2. e = d /\ q \div EPS = p \div EPS
    BY <1>3, <1>5, <2>1
  <2>3. q % EPS = p % EPS
    BY <1>3, <1>5, <2>1
  <2> QED BY <1>1, <1>3, <2>1, <2>2, <2>3
<1>6. (p % EPS) + 1 \in 1 .. EPS
  BY <1>1, <1>3
<1> QED BY <1>3, <1>4, <1>5, <1>6

(* The places before a place of a directory are its places. *)
LEMMA PlacesBefore ==
  ASSUME NEW d, NEW p \in Room(d)
  PROVE  p \in Nat /\ \A q \in 0 .. p : q \in Room(d) /\ q \in Nat
<1> DEFINE n == (IF d = 0 THEN RootSecs ELSE 1) * EPS
<1>1. Room(d) = 0 .. n - 1 /\ n \in Nat
  BY Geometry DEF Room
<1> HIDE DEF n
<1> QED BY <1>1

(* The entries of a volume, and what the chains of files start with.       *)
LEMMA EntryTypes ==
  ASSUME NEW S \in Contents, NEW d \in Cluster \cup {0}, NEW p \in Room(d)
  PROVE  /\ Ent(S, d, p) \in Slots
         /\ p \in Used(S, d) => /\ Ent(S, d, p).first \in Cluster \cup {0}
                                /\ Ent(S, d, p).first \in Link
                                /\ Ent(S, d, p).size \in Nat
         /\ Ent(S, d, p).kind = "dir" => Ent(S, d, p).first \in Cluster
<1> DEFINE e == Ent(S, d, p)
<1>1. S[Home(d, p)] \in DataSectors \cup DirSectors /\ (p % EPS) + 1 \in 1 .. EPS
  BY Places DEF Contents
<1>2. e \in Slots
  BY <1>1, SlotsOfSector DEF Ent
<1> HIDE DEF e
<1>3. e.kind = "dir" => e.first \in Cluster /\ e.size = 0
  BY <1>2, KindsOfSlots
<1>4. e.kind = "file" => e.first \in Cluster \cup {0} /\ e.size \in Nat
  <2>1. e.kind = "file" => e.first \in Cluster \cup {0} /\ e.size \in 0 .. MaxSize
    BY <1>2, KindsOfSlots
  <2> QED BY <2>1, Geometry
<1> QED BY <1>2, <1>3, <1>4 DEF Used, Link, e

(* An entry replaced on the disk: the other entries stay, and so does what *)
(* is in the other sectors.                                                *)
LEMMA EntryReplaced ==
  ASSUME sector \in Contents, NEW d \in Cluster \cup {0}, NEW p \in Room(d), NEW new,
         NEW S, S = WithSlot(Home(d, p), (p % EPS) + 1, new)
  PROVE  /\ \A e \in Cluster \cup {0} : \A q \in Room(e) :
              Ent(S, e, q) = IF e = d /\ q = p THEN new ELSE Ent(sector, e, q)
         /\ \A x \in Sectors : x # Home(d, p) => S[x] = sector[x]
<1> DEFINE h == Home(d, p)
           i == (p % EPS) + 1
           row == [AsSlots(sector[h]) EXCEPT ![i] = new]
<1>1. h \in Sectors /\ i \in 1 .. EPS
  BY Places
<1>2. \A e \in Cluster \cup {0} : \A q \in Room(e) :
        Home(e, q) \in Sectors /\ (q % EPS) + 1 \in 1 .. EPS
  BY Places
<1>3. \A e \in Cluster \cup {0} : \A q \in Room(e) :
        Home(e, q) = h /\ (q % EPS) + 1 = i => e = d /\ q = p
  BY Places
<1>4. S = [sector EXCEPT ![h] = [slots |-> row]]
  BY DEF WithSlot
<1>5. AsSlots([slots |-> row]) = row
  BY DEF AsSlots
<1>6. \A j \in 1 .. EPS : row[j] = IF j = i THEN new ELSE AsSlots(sector[h])[j]
  <2>1. sector[h] \in DataSectors \cup DirSectors
    BY <1>1 DEF Contents
  <2>2. AsSlots(sector[h]) \in [1 .. EPS -> Slots]
    BY <2>1, SlotsOfSector
  <2> HIDE DEF i, h
  <2> QED BY <2>2
<1>7. S[h] = [slots |-> row] /\ \A x \in Sectors : x # h => S[x] = sector[x]
  <2> HIDE DEF h, row
  <2> QED BY <1>1, <1>4 DEF Contents
<1>8. ASSUME NEW e \in Cluster \cup {0}, NEW q \in Room(e)
      PROVE  Ent(S, e, q) = IF e = d /\ q = p THEN new ELSE Ent(sector, e, q)
  <2> DEFINE j == (q % EPS) + 1
  <2>1. Home(e, q) \in Sectors /\ j \in 1 .. EPS
    BY <1>2
  <2>2. CASE Home(e, q) = h
    <3>1. Ent(S, e, q) = row[j] /\ Ent(sector, e, q) = AsSlots(sector[h])[j]
      BY <1>5, <1>7, <2>2 DEF Ent
    <3>2. j = i <=> e = d /\ q = p
      BY <1>3, <2>2
    <3> HIDE DEF j, i, h, row
    <3> QED BY <1>6, <2>1, <3>1, <3>2
  <2>3. CASE Home(e, q) # h
    <3>1. S[Home(e, q)] = sector[Home(e, q)] /\ ~(e = d /\ q = p)
      BY <1>7, <2>1, <2>3
    <3> QED BY <3>1 DEF Ent
  <2> QED BY <2>2, <2>3
<1> QED BY <1>7, <1>8

(* In such a directory the positions of read_dir_sector are the places.    *)
LEMMA SingleDirectory ==
  ASSUME NEW T \in Tables, NEW d \in Cluster \cup {0}, Single(T, d)
  PROVE  /\ Positions(T, d) = Room(d)
         /\ \A p \in Room(d) : /\ DirSector(T, d, p \div EPS) = Home(d, p)
                               /\ SlotAt(T, d, p) = Ent(sector, d, p)
<1>1. Positions(T, d) = Room(d)
  <2>1. CASE d = 0
    <3>1. EPS * RootSecs = RootSecs * EPS
      BY Geometry
    <3> QED BY <2>1, <3>1 DEF Positions, DirLength, Room
  <2>2. CASE d # 0
    <3>1. d \in Cluster /\ SPC = 1 /\ T[d] \in {0, EOC}
      BY <2>2 DEF Single
    <3>2. ChainOf(T, d) = {d}
      BY <3>1, ChainOfOne
    <3>3. Cardinality(ChainOf(T, d)) = 1
      BY <3>2, FS_Singleton
    <3>4. DirLength(T, d) = EPS * (SPC * 1)
      BY <2>2, <3>3 DEF DirLength
    <3>5. DirLength(T, d) = 1 * EPS
      BY <3>1, <3>4, Geometry
    <3> QED BY <2>2, <3>5 DEF Positions, Room
  <2> QED BY <2>1, <2>2
<1>2. ASSUME NEW p \in Room(d) PROVE DirSector(T, d, p \div EPS) = Home(d, p)
  <2>1. CASE d = 0
    BY <2>1 DEF DirSector, Home
  <2>2. CASE d # 0
    <3>1. d \in Cluster /\ SPC = 1
      BY <2>2 DEF Single
    <3>2. p \in 0 .. EPS - 1
      BY <2>2, Geometry DEF Room
    <3>3. p \div EPS = 0
      BY <3>2, Geometry
    <3>4. 0 \div SPC = 0 /\ 0 % SPC = 0
      BY <3>1
    <3>5. Follow(T, d)[0] = d
      BY <3>1, FollowRec DEF Link
    <3> QED BY <2>2, <3>3, <3>4, <3>5 DEF DirSector, Home
  <2> QED BY <2>1, <2>2
<1> QED BY <1>1, <1>2 DEF SlotAt, Ent

(* The entry a search for a kind and a name finds is the first of them     *)
(* that no end mark hides.                                                 *)
Match(S, d, p, kind, name) ==
  Ent(S, d, p).kind = kind /\ Ent(S, d, p).name = name
First(S, d, kind, name, p) ==
  /\ p \in Room(d) /\ Match(S, d, p, kind, name)
  /\ \A q \in 0 .. p - 1 : Ent(S, d, q) # EndSlot /\ ~Match(S, d, q, kind, name)

(* What a search sees of a directory. *)
LEMMA Seen ==
  ASSUME NEW T \in Tables, NEW d \in Cluster \cup {0}, Single(T, d), NEW p
  PROVE  p \in Visible(T, d) <=>
           p \in Room(d) /\ \A q \in 0 .. p : Ent(sector, d, q) # EndSlot
<1> DEFINE ends == {q \in Room(d) : Ent(sector, d, q) = EndSlot}
           n == (IF d = 0 THEN RootSecs ELSE 1) * EPS
<1>1. /\ Visible(T, d) = IF ends = {} THEN Room(d) ELSE 0 .. Least(ends) - 1
  <2>1. ends = {q \in Positions(T, d) : SlotAt(T, d, q) = EndSlot}
    BY SingleDirectory
  <2> HIDE DEF ends
  <2> QED BY <2>1, SingleDirectory DEF Visible
<1>2. Room(d) = 0 .. n - 1 /\ n \in Nat
  BY Geometry DEF Room
<1>3. CASE ends = {}
  <2>1. \A q \in Room(d) : Ent(sector, d, q) # EndSlot
    BY <1>3
  <2> HIDE DEF n, ends
  <2>2. p \in Room(d) => \A q \in 0 .. p : q \in Room(d)
    BY <1>2
  <2> QED BY <1>1, <1>3, <2>1, <2>2
<1>4. CASE ends # {}
  <2> DEFINE m == Least(ends)
  <2>1. m \in ends /\ \A q \in ends : m <= q
    <3>1. ends \in SUBSET Nat
      BY <1>2
    <3> HIDE DEF ends
    <3> QED BY <1>4, <3>1, LeastIsLeast
  <2>2. m \in Room(d) /\ Ent(sector, d, m) = EndSlot
    BY <2>1
  <2>3. \A q \in Room(d) : Ent(sector, d, q) = EndSlot => m <= q
    BY <2>1
  <2> HIDE DEF m, ends, n
  <2>4. ASSUME p \in 0 .. m - 1
        PROVE  p \in Room(d) /\ \A q \in 0 .. p : Ent(sector, d, q) # EndSlot
    <3>1. p \in Room(d)
      BY <1>2, <2>2, <2>4
    <3>2. \A q \in 0 .. p : q \in Room(d) /\ ~(m <= q)
      BY <1>2, <2>2, <2>4
    <3> QED BY <2>3, <3>1, <3>2
  <2>5. ASSUME p \in Room(d), \A q \in 0 .. p : Ent(sector, d, q) # EndSlot
        PROVE  p \in 0 .. m - 1
    <3>1. m \notin 0 .. p
      BY <2>2, <2>5
    <3> QED BY <1>2, <2>2, <2>5, <3>1
  <2>6. Visible(T, d) = 0 .. m - 1
    BY <1>1, <1>4 DEF m
  <2> QED BY <2>4, <2>5, <2>6
<1> QED BY <1>3, <1>4

(* The search finds something exactly if there is such a first entry.      *)
LEMMA SearchFinds ==
  ASSUME NEW T \in Tables, NEW d \in Cluster \cup {0}, Single(T, d),
         NEW kind, NEW name
  PROVE  /\ Matches(T, d, kind, name) # {} =>
              First(sector, d, kind, name, Least(Matches(T, d, kind, name)))
         /\ \A p : First(sector, d, kind, name, p) /\ kind # "end" =>
              Matches(T, d, kind, name) # {} /\ Least(Matches(T, d, kind, name)) = p
<1> DEFINE found == Matches(T, d, kind, name)
<1>1. Room(d) \subseteq Nat
  BY DEF Room
<1>2. \A q : q \in found <=> q \in Visible(T, d) /\ Match(sector, d, q, kind, name)
  <2>1. \A q \in Visible(T, d) : q \in Room(d) /\ SlotAt(T, d, q) = Ent(sector, d, q)
    BY Seen, SingleDirectory
  <2> QED BY <2>1, Zenon DEF Matches, Match
<1>3. found \in SUBSET Nat
  BY <1>1, <1>2, Seen
<1> HIDE DEF found
<1>4. ASSUME found # {} PROVE First(sector, d, kind, name, Least(found))
  <2> DEFINE p == Least(found)
  <2>1. p \in found /\ \A q \in found : p <= q
    BY <1>3, <1>4, LeastIsLeast
  <2> HIDE DEF p
  <2>2. p \in Room(d) /\ p \in Nat /\ Match(sector, d, p, kind, name)
        /\ \A q \in 0 .. p : Ent(sector, d, q) # EndSlot
    BY <1>1, <1>2, <2>1, Seen
  <2>3. ASSUME NEW q \in 0 .. p - 1
        PROVE  Ent(sector, d, q) # EndSlot /\ ~Match(sector, d, q, kind, name)
    <3>1. q \in 0 .. p /\ ~(p <= q) /\ q \in Room(d)
      <4>1. q \in 0 .. p /\ ~(p <= q)
        BY <2>2
      <4> QED BY <2>2, <4>1, PlacesBefore
    <3>2. \A i \in 0 .. q : i \in 0 .. p
      BY <2>2
    <3>3. q \in Visible(T, d)
      BY <2>2, <3>1, <3>2, Seen
    <3> QED BY <1>2, <2>1, <2>2, <3>1, <3>3
  <2>4. First(sector, d, kind, name, p)
    BY <2>2, <2>3 DEF First
  <2> QED BY <2>4 DEF p
<1>5. ASSUME NEW p, First(sector, d, kind, name, p), kind # "end"
      PROVE  found # {} /\ Least(found) = p
  <2>1. /\ p \in Room(d) /\ p \in Nat /\ Match(sector, d, p, kind, name)
        /\ \A q \in 0 .. p - 1 : Ent(sector, d, q) # EndSlot
                                 /\ ~Match(sector, d, q, kind, name)
    BY <1>1, <1>5 DEF First
  <2>2. Ent(sector, d, p) # EndSlot
    <3>1. EndSlot.kind = "end"
      BY DEF EndSlot, Entry
    <3> QED BY <1>5, <2>1, <3>1 DEF Match
  <2>3. \A q \in 0 .. p : Ent(sector, d, q) # EndSlot
    <3>1. \A q \in 0 .. p : q = p \/ q \in 0 .. p - 1
      BY <2>1
    <3> QED BY <2>1, <2>2, <3>1
  <2>4. p \in found
    BY <1>2, <2>1, <2>3, Seen
  <2>5. Least(found) \in found /\ Least(found) <= p
    BY <1>3, <2>4, LeastIsLeast
  <2>6. Least(found) \in Nat /\ Match(sector, d, Least(found), kind, name)
    BY <1>2, <1>3, <2>5
  <2>7. ~(Least(found) \in 0 .. p - 1)
    BY <2>1, <2>6
  <2>8. Least(found) = p
    BY <2>1, <2>5, <2>6, <2>7
  <2> QED BY <2>4, <2>8
<1> QED BY <1>4, <1>5 DEF found

(* The contents of a file stay as long as its chain and its sectors do.    *)
LEMMA HoldsStill ==
  ASSUME NEW S, NEW S2, NEW T, NEW T2, NEW c, NEW tag, NEW size \in Nat,
         Holds(S, T, c, tag, size), Follow(T2, c) = Follow(T, c),
         \A x \in ChainOf(T, c), k \in 0 .. SPC - 1 : S2[<<x, k>>] = S[<<x, k>>]
  PROVE  Holds(S2, T2, c, tag, size)
<1> SUFFICES ASSUME NEW k \in 0 .. size - 1
             PROVE  /\ k \div SPC \in 0 .. NC /\ Follow(T, c)[k \div SPC] \in Cluster
                    /\ S2[<<Follow(T, c)[k \div SPC], k % SPC>>] = [tag |-> tag, k |-> k]
  BY DEF Holds
<1>1. /\ k \div SPC \in 0 .. NC /\ Follow(T, c)[k \div SPC] \in Cluster
      /\ S[<<Follow(T, c)[k \div SPC], k % SPC>>] = [tag |-> tag, k |-> k]
  BY DEF Holds
<1>2. Follow(T, c)[k \div SPC] \in ChainOf(T, c)
  BY <1>1 DEF ChainOf
<1>3. k % SPC \in 0 .. SPC - 1
  BY Geometry
<1> QED BY <1>1, <1>2, <1>3

(* Nothing changes about the tree when entries keep their kinds and their  *)
(* chains, as in fat_rename and in writes to other sectors.                *)
LEMMA TreeAlike ==
  ASSUME NEW S, NEW S2, NEW T, NEW D, Tree(S, T, D, {}),
         \A d \in D : \A p \in Room(d) : /\ Ent(S2, d, p).kind = Ent(S, d, p).kind
                                         /\ Ent(S2, d, p).first = Ent(S, d, p).first
  PROVE  /\ Tree(S2, T, D, {})
         /\ \A d \in D : Used(S2, d) = Used(S, d)
<1>1. \A d \in D : Used(S2, d) = Used(S, d)
  BY DEF Used
<1>2. \A d \in D : \A p \in Used(S, d) :
        /\ Ent(S2, d, p).kind = Ent(S, d, p).kind
        /\ Ent(S2, d, p).first = Ent(S, d, p).first
        /\ Chain(S2, T, d, p) = Chain(S, T, d, p)
  BY DEF Used, Chain
<1>3. Directories(S2, T, D, {})
  BY DEF Tree, Directories
<1>4. Entries(S2, T, D, {})
  BY <1>1, <1>2 DEF Tree, Entries
<1>5. Apart(S2, T, D)
  BY <1>1, <1>2 DEF Tree, Apart
<1> QED BY <1>1, <1>3, <1>4, <1>5 DEF Tree

(* Nor about the contents of the files, when their sectors stay. *)
LEMMA IntactAlike ==
  ASSUME NEW S \in Contents, NEW S2, NEW T, NEW D \in DirectorySets, Intact(S, T, D, {}),
         \A d \in D : \A p \in Room(d) : /\ Ent(S2, d, p).kind = Ent(S, d, p).kind
                                         /\ Ent(S2, d, p).first = Ent(S, d, p).first
                                         /\ Ent(S2, d, p).tag = Ent(S, d, p).tag
                                         /\ Ent(S2, d, p).size = Ent(S, d, p).size,
         \A d \in D : \A p \in Used(S, d) : Ent(S, d, p).kind = "file" =>
           \A c \in Chain(S, T, d, p), k \in 0 .. SPC - 1 : S2[<<c, k>>] = S[<<c, k>>]
  PROVE  Intact(S2, T, D, {})
<1> SUFFICES ASSUME NEW d \in D, NEW p \in Used(S2, d), Ent(S2, d, p).kind = "file"
             PROVE  Holds(S2, T, Ent(S2, d, p).first, Ent(S2, d, p).tag, Ent(S2, d, p).size)
  BY DEF Intact
<1> DEFINE e == Ent(S, d, p)
<1>1. p \in Room(d) /\ p \in Used(S, d) /\ e.kind = "file"
  BY DEF Used
<1>2. e.size \in Nat
  BY <1>1, EntryTypes DEF DirectorySets
<1>3. Holds(S, T, e.first, e.tag, e.size)
  BY <1>1 DEF Intact
<1>4. \A c \in ChainOf(T, e.first), k \in 0 .. SPC - 1 : S2[<<c, k>>] = S[<<c, k>>]
  BY <1>1 DEF Chain
<1>5. /\ Ent(S2, d, p).first = e.first
      /\ Ent(S2, d, p).tag = e.tag /\ Ent(S2, d, p).size = e.size
  BY <1>1
<1> HIDE DEF e
<1>6. Holds(S2, T, e.first, e.tag, e.size)
  BY <1>2, <1>3, <1>4, HoldsStill
<1> QED BY <1>5, <1>6

(* write_fat of fat_write and fat_mkdir only takes clusters that are free. *)
LEMMA TreeTakes ==
  ASSUME NEW S \in Contents, NEW T \in Tables, NEW T2 \in Tables,
         NEW D \in DirectorySets, Tree(S, T, D, {}),
         \A c \in Cluster : T[c] # 0 => T2[c] = T[c]
  PROVE  /\ Tree(S, T2, D, {})
         /\ Intact(S, T, D, {}) => Intact(S, T2, D, {})
         /\ \A d \in D : \A p \in Used(S, d) : Chain(S, T2, d, p) = Chain(S, T, d, p)
<1>1. \A d \in D : \A p \in Used(S, d) :
        /\ Follow(T2, Ent(S, d, p).first) = Follow(T, Ent(S, d, p).first)
        /\ Chain(S, T2, d, p) = Chain(S, T, d, p)
        /\ \A c \in Chain(S, T, d, p) : c \in Cluster /\ T2[c] = T[c] /\ T[c] # 0
  <2> SUFFICES ASSUME NEW d \in D, NEW p \in Used(S, d)
               PROVE  /\ Follow(T2, Ent(S, d, p).first) = Follow(T, Ent(S, d, p).first)
                      /\ Chain(S, T2, d, p) = Chain(S, T, d, p)
                      /\ \A c \in Chain(S, T, d, p) : c \in Cluster /\ T2[c] = T[c] /\ T[c] # 0
    OBVIOUS
  <2> DEFINE c == Ent(S, d, p).first
  <2>1. d \in Cluster \cup {0} /\ p \in Room(d)
    BY DEF DirectorySets, Used
  <2>2. c \in Link
    BY <2>1, EntryTypes
  <2>3. \A x \in ChainOf(T, c) : x \in Cluster /\ T[x] # 0
    BY DEF Tree, Entries, Chain, ChainOf
  <2>4. \A x \in ChainOf(T, c) : x \in Cluster /\ T[x] # 0 /\ T2[x] = T[x]
    BY <2>3
  <2> HIDE DEF c
  <2>5. Follow(T2, c) = Follow(T, c) /\ ChainOf(T2, c) = ChainOf(T, c)
    BY <2>2, <2>4, ChainsAgree
  <2> QED BY <2>4, <2>5 DEF Chain, c
<1>2. Directories(S, T2, D, {})
  <2>1. \A d \in D : d # 0 => d \in Cluster /\ SPC = 1 /\ T[d] = EOC
    BY DEF Tree, Directories, Single
  <2> QED BY <2>1 DEF Tree, Directories, Single, EOC
<1>3. Entries(S, T2, D, {})
  BY <1>1 DEF Tree, Entries
<1>4. Apart(S, T2, D)
  BY <1>1 DEF Tree, Apart
<1>5. Intact(S, T, D, {}) => Intact(S, T2, D, {})
  BY <1>1 DEF Intact, Holds
<1> QED BY <1>1, <1>2, <1>3, <1>4, <1>5 DEF Tree

(* write_fat of fat_delete and fat_rmdir frees clusters of one entry only, *)
(* and of a directory no more than the one that entry names.               *)
LEMMA TreeReleases ==
  ASSUME NEW S \in Contents, NEW T \in Tables, NEW T2 \in Tables,
         NEW D \in DirectorySets, NEW h \in D, NEW p \in Used(S, h),
         NEW X \in SUBSET {<<h, p>>}, Tree(S, T, D, X),
         \A c \in Cluster :
           \/ T2[c] = T[c]
           \/ /\ T2[c] = 0 /\ (c \in D => c = Ent(S, h, p).first)
              /\ \A d \in D : \A q \in Used(S, d) :
                   d # h \/ q # p => c \notin Chain(S, T, d, q)
  PROVE  /\ Tree(S, T2, D, {<<h, p>>})
         /\ Intact(S, T, D, X) => Intact(S, T2, D, {<<h, p>>})
         /\ \A d \in D : \A q \in Used(S, d) :
              d # h \/ q # p => Chain(S, T2, d, q) = Chain(S, T, d, q)
<1>1. \A d \in D : \A q \in Used(S, d) : d # h \/ q # p =>
        /\ Follow(T2, Ent(S, d, q).first) = Follow(T, Ent(S, d, q).first)
        /\ Chain(S, T2, d, q) = Chain(S, T, d, q)
        /\ \A c \in Chain(S, T, d, q) : T2[c] = T[c]
  <2> SUFFICES ASSUME NEW d \in D, NEW q \in Used(S, d), d # h \/ q # p
               PROVE  /\ Follow(T2, Ent(S, d, q).first) = Follow(T, Ent(S, d, q).first)
                      /\ Chain(S, T2, d, q) = Chain(S, T, d, q)
                      /\ \A c \in Chain(S, T, d, q) : T2[c] = T[c]
    OBVIOUS
  <2> DEFINE c == Ent(S, d, q).first
  <2>1. d \in Cluster \cup {0} /\ q \in Room(d)
    BY DEF DirectorySets, Used
  <2>2. c \in Link
    BY <2>1, EntryTypes
  <2>3. \A x \in Chain(S, T, d, q) : T2[x] = T[x]
    BY DEF Chain, ChainOf
  <2>4. \A x \in ChainOf(T, c) : T2[x] = T[x]
    BY <2>3 DEF Chain
  <2> HIDE DEF c
  <2>5. Follow(T2, c) = Follow(T, c) /\ ChainOf(T2, c) = ChainOf(T, c)
    BY <2>2, <2>4, ChainsAgree
  <2> QED BY <2>3, <2>5 DEF Chain, c
<1>2. Chain(S, T2, h, p) \subseteq Chain(S, T, h, p)
  <2> DEFINE c == Ent(S, h, p).first
  <2>1. h \in Cluster \cup {0} /\ p \in Room(h)
    BY DEF DirectorySets, Used
  <2>2. c \in Link
    BY <2>1, EntryTypes
  <2>3. \A x \in Cluster : T2[x] \in {0, T[x]}
    OBVIOUS
  <2> HIDE DEF c
  <2>4. ChainOf(T2, c) \subseteq ChainOf(T, c)
    BY <2>2, <2>3, ChainShrinks
  <2> QED BY <2>4 DEF Chain, c
<1>3. \A d \in D : \A q \in Used(S, d) : Chain(S, T2, d, q) \subseteq Chain(S, T, d, q)
  BY <1>1, <1>2
<1>4. Directories(S, T2, D, {<<h, p>>})
  <2> SUFFICES ASSUME NEW d \in D, d # 0
               PROVE  /\ d \in Cluster /\ SPC = 1 /\ T2[d] \in {0, EOC}
                      /\ T2[d] = 0 => Ent(S, h, p).first = d
    BY DEF Tree, Directories, Single
  <2>1. /\ d \in Cluster /\ SPC = 1 /\ T[d] \in {0, EOC}
        /\ T[d] = 0 => \E a \in X : Ent(S, a[1], a[2]).first = d
    BY DEF Tree, Directories, Single
  <2>2. T[d] = 0 => Ent(S, h, p).first = d
    BY <2>1
  <2>3. T2[d] = T[d] \/ (T2[d] = 0 /\ Ent(S, h, p).first = d)
    BY <2>1
  <2> QED BY <2>1, <2>2, <2>3
<1>5. Entries(S, T2, D, {<<h, p>>})
  <2> SUFFICES ASSUME NEW d \in D, NEW q \in Used(S, d)
               PROVE  /\ Ent(S, d, q).kind = "dir" => Ent(S, d, q).first \in D \ {0, d}
                      /\ Ent(S, d, q).kind = "file" => Chain(S, T2, d, q) \cap D = {}
                      /\ d # h \/ q # p => \A c \in Chain(S, T2, d, q) : T2[c] # 0
    BY DEF Entries
  <2>1. /\ Ent(S, d, q).kind = "dir" => Ent(S, d, q).first \in D \ {0, d}
        /\ Ent(S, d, q).kind = "file" => Chain(S, T, d, q) \cap D = {}
        /\ <<d, q>> \notin X => \A c \in Chain(S, T, d, q) : T[c] # 0
    BY DEF Tree, Entries
  <2>2. d # h \/ q # p => <<d, q>> \notin X
    OBVIOUS
  <2> QED BY <1>1, <1>3, <2>1, <2>2
<1>6. Apart(S, T2, D)
  BY <1>3 DEF Tree, Apart
<1>7. Intact(S, T, D, X) => Intact(S, T2, D, {<<h, p>>})
  <2> SUFFICES ASSUME Intact(S, T, D, X), NEW d \in D, NEW q \in Used(S, d),
                      Ent(S, d, q).kind = "file", d # h \/ q # p
               PROVE  Holds(S, T2, Ent(S, d, q).first, Ent(S, d, q).tag, Ent(S, d, q).size)
    BY DEF Intact
  <2>1. Holds(S, T, Ent(S, d, q).first, Ent(S, d, q).tag, Ent(S, d, q).size)
    BY DEF Intact
  <2> QED BY <1>1, <2>1 DEF Holds
<1> QED BY <1>1, <1>4, <1>5, <1>6, <1>7 DEF Tree

(* Erasing the entry ends a release: nothing is exempt any more, and a     *)
(* directory that was removed is no member of the tree.                    *)
LEMMA TreeErased ==
  ASSUME NEW S \in Contents, NEW S2, NEW T \in Tables,
         NEW D \in DirectorySets, NEW h \in D, NEW p \in Used(S, h),
         Tree(S, T, D, {<<h, p>>}),
         \A d \in D : \A q \in Room(d) :
           Ent(S2, d, q) = IF d = h /\ q = p THEN DelSlot ELSE Ent(S, d, q),
         \A x \in Sectors : x # Home(h, p) => S2[x] = S[x],
         NEW E, E = IF Ent(S, h, p).kind = "dir" THEN D \ {Ent(S, h, p).first} ELSE D
  PROVE  /\ E \in DirectorySets /\ h \in E /\ Tree(S2, T, E, {})
         /\ Intact(S, T, D, {<<h, p>>}) => Intact(S2, T, E, {})
<1> DEFINE f == Ent(S, h, p).first
<1>t. /\ Directories(S, T, D, {<<h, p>>}) /\ Entries(S, T, D, {<<h, p>>})
      /\ Apart(S, T, D)
  BY DEF Tree
<1>0. /\ Ent(S, h, p).kind = "dir" => f \in D \ {0, h}
      /\ Ent(S, h, p).kind = "file" => Chain(S, T, h, p) \cap D = {}
      /\ Ent(S, h, p).kind \in {"file", "dir"} /\ p \in Room(h) /\ f \in Link
  <2>1. h \in Cluster \cup {0} /\ p \in Room(h)
    BY DEF DirectorySets, Used
  <2> QED BY <1>t, <2>1, EntryTypes DEF Entries, Used
<1>1. E \in DirectorySets /\ h \in E /\ E \subseteq D
  BY <1>0 DEF DirectorySets
<1>2. \A d \in E : \A q \in Used(S2, d) :
        /\ q \in Used(S, d) /\ (d # h \/ q # p)
        /\ Ent(S2, d, q) = Ent(S, d, q)
        /\ Chain(S2, T, d, q) = Chain(S, T, d, q)
  <2> SUFFICES ASSUME NEW d \in E, NEW q \in Used(S2, d)
               PROVE  q \in Used(S, d) /\ (d # h \/ q # p) /\ Ent(S2, d, q) = Ent(S, d, q)
    BY DEF Chain
  <2>1. DelSlot.kind = "del"
    BY DEF DelSlot, Entry
  <2>2. q \in Room(d) /\ d \in D /\ Ent(S2, d, q).kind \in {"file", "dir"}
    BY <1>1 DEF Used
  <2>3. d # h \/ q # p
    BY <2>1, <2>2
  <2>4. Ent(S2, d, q) = Ent(S, d, q)
    BY <2>2, <2>3
  <2> QED BY <2>2, <2>3, <2>4 DEF Used
<1>3. \A d \in E : d # 0 => T[d] # 0
  <2> SUFFICES ASSUME NEW d \in E, d # 0, T[d] = 0 PROVE FALSE
    OBVIOUS
  <2>1. d \in D /\ d \in Cluster /\ f = d
    BY <1>t, <1>1 DEF Directories, Single
  <2>2. CASE Ent(S, h, p).kind = "dir"
    BY <2>1, <2>2
  <2>3. CASE Ent(S, h, p).kind = "file"
    <3>1. d \in Chain(S, T, h, p)
      BY <2>1, ChainStart DEF Chain, Link
    <3> QED BY <1>0, <2>1, <2>3, <3>1
  <2> QED BY <1>0, <2>2, <2>3
<1>4. Directories(S2, T, E, {})
  BY <1>t, <1>1, <1>3 DEF Directories, DirectorySets
<1>5. Entries(S2, T, E, {})
  <2> SUFFICES ASSUME NEW d \in E, NEW q \in Used(S2, d)
               PROVE  /\ Ent(S, d, q).kind = "dir" => Ent(S, d, q).first \in E \ {0, d}
                      /\ Ent(S, d, q).kind = "file" => Chain(S, T, d, q) \cap E = {}
                      /\ \A c \in Chain(S, T, d, q) : T[c] # 0
    BY <1>2 DEF Entries
  <2>1. d \in D /\ q \in Used(S, d) /\ (d # h \/ q # p)
    BY <1>1, <1>2
  <2>2. /\ Ent(S, d, q).kind = "dir" => Ent(S, d, q).first \in D \ {0, d}
        /\ Ent(S, d, q).kind = "file" => Chain(S, T, d, q) \cap D = {}
        /\ \A c \in Chain(S, T, d, q) : T[c] # 0
    BY <1>t, <2>1 DEF Entries
  <2>3. ASSUME Ent(S, d, q).kind = "dir", Ent(S, h, p).kind = "dir",
               Ent(S, d, q).first = f
        PROVE  FALSE
    <3>1. f \in Cluster
      BY <1>0, <2>3 DEF DirectorySets
    <3>2. f \in Chain(S, T, h, p) /\ f \in Chain(S, T, d, q)
      BY <1>0, <2>3, <3>1, ChainStart DEF Chain
    <3> QED BY <1>t, <2>1, <3>2 DEF Apart
  <2> QED BY <1>1, <2>2, <2>3
<1>6. Apart(S2, T, E)
  BY <1>t, <1>1, <1>2 DEF Apart
<1>7. ASSUME Intact(S, T, D, {<<h, p>>}) PROVE Intact(S2, T, E, {})
  <2> SUFFICES ASSUME NEW d \in E, NEW q \in Used(S2, d), Ent(S2, d, q).kind = "file"
               PROVE  Holds(S2, T, Ent(S2, d, q).first, Ent(S2, d, q).tag, Ent(S2, d, q).size)
    BY DEF Intact
  <2> DEFINE e == Ent(S, d, q)
  <2>1. /\ d \in D /\ q \in Used(S, d) /\ (d # h \/ q # p)
        /\ Ent(S2, d, q) = e /\ e.kind = "file"
    BY <1>1, <1>2
  <2>2. Holds(S, T, e.first, e.tag, e.size)
    BY <1>7, <2>1 DEF Intact
  <2>3. d \in Cluster \cup {0} /\ q \in Room(d)
    BY <2>1 DEF DirectorySets, Used
  <2>4. e.size \in Nat
    BY <2>1, <2>3, EntryTypes
  <2>5. \A c \in ChainOf(T, e.first) : c \in Cluster /\ c \notin D
    BY <1>t, <2>1 DEF Entries, Chain, ChainOf
  <2>6. \A c \in ChainOf(T, e.first), k \in 0 .. SPC - 1 : S2[<<c, k>>] = S[<<c, k>>]
    <3>1. \A c \in ChainOf(T, e.first), k \in 0 .. SPC - 1 :
            <<c, k>> \in Sectors /\ <<c, k>> # Home(h, p)
      BY <2>5 DEF Sectors, Home
    <3> QED BY <3>1
  <2> HIDE DEF e
  <2>7. Holds(S2, T, e.first, e.tag, e.size)
    BY <2>2, <2>4, <2>6, HoldsStill
  <2> QED BY <2>1, <2>7
<1> QED BY <1>1, <1>4, <1>5, <1>6, <1>7 DEF Tree

(* A new entry with a chain that nothing else shares joins the tree, and a *)
(* new directory becomes a member of it.                                   *)
LEMMA TreeAdded ==
  ASSUME NEW S \in Contents, NEW S2, NEW T \in Tables,
         NEW D \in DirectorySets, NEW h \in D, NEW p \in Room(h), p \notin Used(S, h),
         Tree(S, T, D, {}),
         NEW new \in Slots, new.kind \in {"file", "dir"},
         \A c \in ChainOf(T, new.first) :
           /\ T[c] # 0 /\ c \notin D
           /\ \A d \in D : \A q \in Used(S, d) : c \notin Chain(S, T, d, q),
         new.kind = "dir" =>
           /\ new.first \in Cluster /\ SPC = 1 /\ T[new.first] = EOC
           /\ Used(S, new.first) = {},
         \A d \in Cluster \cup {0} : \A q \in Room(d) :
           Ent(S2, d, q) = IF d = h /\ q = p THEN new ELSE Ent(S, d, q),
         \A x \in Sectors : x # Home(h, p) => S2[x] = S[x],
         NEW E, E = IF new.kind = "dir" THEN D \cup {new.first} ELSE D
  PROVE  /\ E \in DirectorySets /\ Tree(S2, T, E, {})
         /\ /\ Intact(S, T, D, {})
            /\ new.kind = "file" => Holds(S, T, new.first, new.tag, new.size)
            => Intact(S2, T, E, {})
<1> DEFINE f == new.first
           ch == ChainOf(T, f)
<1>t. /\ Directories(S, T, D, {}) /\ Entries(S, T, D, {}) /\ Apart(S, T, D)
  BY DEF Tree
<1>0. /\ f \in Cluster \cup {0} /\ f \in Link /\ (new.kind = "file" => new.size \in Nat)
      /\ new.kind = "dir" => f \in Cluster /\ f \in ch /\ f \notin D
  <2>1. new.kind = "file" => f \in Cluster \cup {0} /\ new.size \in 0 .. MaxSize
    BY KindsOfSlots
  <2>2. f \in Cluster \cup {0} /\ f \in Link
    BY <2>1 DEF Link
  <2>3. f \in Cluster => f \in ch
    BY <2>2, ChainStart
  <2> QED BY <2>1, <2>2, <2>3, Geometry
<1>1. E \in DirectorySets /\ h \in E /\ D \subseteq E
      /\ \A d \in E : d \in Cluster \cup {0} /\ (d \in D \/ (d = f /\ new.kind = "dir"))
  BY <1>0 DEF DirectorySets
<1>2. \A d \in E : \A q \in Used(S2, d) :
        \/ d = h /\ q = p /\ Ent(S2, d, q) = new /\ Chain(S2, T, d, q) = ch
        \/ /\ d \in D /\ q \in Used(S, d) /\ (d # h \/ q # p)
           /\ Ent(S2, d, q) = Ent(S, d, q) /\ Chain(S2, T, d, q) = Chain(S, T, d, q)
  <2> SUFFICES ASSUME NEW d \in E, NEW q \in Used(S2, d), d # h \/ q # p
               PROVE  d \in D /\ q \in Used(S, d) /\ Ent(S2, d, q) = Ent(S, d, q)
    <3>1. p \in Room(h) /\ h \in Cluster \cup {0}
      BY DEF DirectorySets
    <3>2. Ent(S2, h, p) = new
      BY <3>1
    <3> QED BY <3>2 DEF Chain
  <2>1. q \in Room(d) /\ Ent(S2, d, q) = Ent(S, d, q)
    BY <1>1 DEF Used
  <2>2. q \in Used(S, d)
    BY <2>1 DEF Used
  <2> QED BY <1>1, <2>1, <2>2
<1>4. Directories(S2, T, E, {})
  BY <1>t, <1>1 DEF Directories, Single, DirectorySets, EOC
<1>5. Entries(S2, T, E, {})
  <2> SUFFICES ASSUME NEW d \in E, NEW q \in Used(S2, d)
               PROVE  /\ Ent(S2, d, q).kind = "dir" => Ent(S2, d, q).first \in E \ {0, d}
                      /\ Ent(S2, d, q).kind = "file" => Chain(S2, T, d, q) \cap E = {}
                      /\ \A c \in Chain(S2, T, d, q) : T[c] # 0
    BY DEF Entries
  <2>1. CASE d = h /\ q = p /\ Ent(S2, d, q) = new /\ Chain(S2, T, d, q) = ch
    BY <1>0, <1>1, <2>1, Geometry
  <2>2. CASE /\ d \in D /\ q \in Used(S, d)
             /\ Ent(S2, d, q) = Ent(S, d, q) /\ Chain(S2, T, d, q) = Chain(S, T, d, q)
    <3>1. /\ Ent(S, d, q).kind = "dir" => Ent(S, d, q).first \in D \ {0, d}
          /\ Ent(S, d, q).kind = "file" => Chain(S, T, d, q) \cap D = {}
          /\ \A c \in Chain(S, T, d, q) : T[c] # 0
      BY <1>t, <2>2 DEF Entries
    <3>2. new.kind = "dir" => f \notin Chain(S, T, d, q)
      BY <1>0, <2>2
    <3> QED BY <1>1, <2>2, <3>1, <3>2
  <2> QED BY <1>2, <2>1, <2>2
<1>6. Apart(S2, T, E)
  <2> SUFFICES ASSUME NEW d \in E, NEW e \in E, NEW q \in Used(S2, d), NEW r \in Used(S2, e),
                      d # e \/ q # r
               PROVE  Chain(S2, T, d, q) \cap Chain(S2, T, e, r) = {}
    BY DEF Apart
  <2>1. CASE ~(d = h /\ q = p) /\ ~(e = h /\ r = p)
    <3>1. /\ d \in D /\ q \in Used(S, d) /\ Chain(S2, T, d, q) = Chain(S, T, d, q)
          /\ e \in D /\ r \in Used(S, e) /\ Chain(S2, T, e, r) = Chain(S, T, e, r)
      BY <1>2, <2>1
    <3> QED BY <1>t, <3>1 DEF Apart
  <2>2. CASE d = h /\ q = p
    <3>1. /\ Chain(S2, T, d, q) = ch
          /\ e \in D /\ r \in Used(S, e) /\ Chain(S2, T, e, r) = Chain(S, T, e, r)
      BY <1>2, <2>2
    <3> QED BY <3>1
  <2>3. CASE e = h /\ r = p
    <3>1. /\ Chain(S2, T, e, r) = ch
          /\ d \in D /\ q \in Used(S, d) /\ Chain(S2, T, d, q) = Chain(S, T, d, q)
      BY <1>2, <2>3
    <3> QED BY <3>1
  <2> QED BY <2>1, <2>2, <2>3
<1>7. ASSUME Intact(S, T, D, {}),
             new.kind = "file" => Holds(S, T, new.first, new.tag, new.size)
      PROVE  Intact(S2, T, E, {})
  <2> SUFFICES ASSUME NEW d \in E, NEW q \in Used(S2, d), Ent(S2, d, q).kind = "file"
               PROVE  Holds(S2, T, Ent(S2, d, q).first, Ent(S2, d, q).tag, Ent(S2, d, q).size)
    BY DEF Intact
  <2> DEFINE e == Ent(S2, d, q)
  <2>1. /\ Holds(S, T, e.first, e.tag, e.size) /\ e.size \in Nat
        /\ \A c \in ChainOf(T, e.first) : c \in Cluster /\ c \notin D
    <3>1. CASE d = h /\ q = p /\ Ent(S2, d, q) = new
      BY <1>0, <1>7, <3>1 DEF ChainOf
    <3>2. CASE d \in D /\ q \in Used(S, d) /\ Ent(S2, d, q) = Ent(S, d, q)
      <4>1. q \in Room(d) /\ d \in Cluster \cup {0}
        BY <3>2 DEF Used, DirectorySets
      <4>2. e = Ent(S, d, q) /\ e.kind = "file"
        BY <3>2
      <4>3. e.size \in Nat
        BY <3>2, <4>1, EntryTypes
      <4>4. Chain(S, T, d, q) = ChainOf(T, e.first)
        BY <4>2 DEF Chain
      <4>5. Chain(S, T, d, q) \cap D = {}
        BY <1>t, <3>2, <4>2 DEF Entries
      <4>6. Holds(S, T, e.first, e.tag, e.size)
        BY <1>7, <3>2, <4>2 DEF Intact
      <4> QED BY <4>3, <4>4, <4>5, <4>6 DEF ChainOf
    <3> QED BY <1>2, <3>1, <3>2
  <2>2. \A c \in ChainOf(T, e.first), k \in 0 .. SPC - 1 : S2[<<c, k>>] = S[<<c, k>>]
    <3>1. \A c \in ChainOf(T, e.first), k \in 0 .. SPC - 1 :
            <<c, k>> \in Sectors /\ <<c, k>> # Home(h, p)
      BY <2>1 DEF Sectors, Home
    <3> QED BY <3>1
  <2> HIDE DEF e
  <2>3. Holds(S2, T, e.first, e.tag, e.size)
    BY <2>1, <2>2, HoldsStill
  <2> QED BY <2>3 DEF e
<1> QED BY <1>1, <1>4, <1>5, <1>6, <1>7 DEF Tree

(* fat_write links a fresh cluster to the end of the chain it builds: the  *)
(* positions so far stay, and the next one is the new cluster.             *)
LEMMA ChainExtended ==
  ASSUME NEW a \in Tables, NEW c \in Link, Climbs(a, c), NEW n \in 0 .. NC,
         NEW last \in Cluster, Follow(a, c)[n] = last, a[last] = EOC,
         NEW new \in Cluster, a[new] = 0, \A x \in ChainOf(a, c) : a[x] # 0,
         NEW b \in Tables, b[last] = new,
         \A x \in Cluster : x # last /\ x # new => b[x] = a[x]
  PROVE  /\ n + 1 \in 0 .. NC
         /\ \A i \in 0 .. n : Follow(b, c)[i] = Follow(a, c)[i]
         /\ Follow(b, c)[n + 1] = new
<1> DEFINE f == Follow(a, c)
           g == Follow(b, c)
           P == {i \in 0 .. n : g[i] = f[i]}
<1>n. NC \in Nat
  BY Geometry
<1>f. /\ f \in [0 .. NC -> Link]
      /\ f[0] = c
      /\ \A i \in 1 .. NC : f[i] = IF f[i - 1] \in Cluster THEN a[f[i - 1]] ELSE f[i - 1]
  BY FollowRec
<1>g. /\ g \in [0 .. NC -> Link]
      /\ g[0] = c
      /\ \A i \in 1 .. NC : g[i] = IF g[i - 1] \in Cluster THEN b[g[i - 1]] ELSE g[i - 1]
  BY FollowRec
<1>c. /\ n < NC
      /\ \A i \in 0 .. n - 1 : f[i] \in Cluster /\ f[i] < last
  BY <1>n, ChainClimbs
<1>x. \A i \in 0 .. NC : f[i] \in Cluster => a[f[i]] # 0
  BY DEF ChainOf
<1>l. f[n] = last /\ last \in Int
  BY DEF Cluster
<1> HIDE DEF f, g
<1>1. 0 \in P
  BY <1>n, <1>f, <1>g
<1>2. ASSUME NEW i \in 1 .. n, i - 1 \in P PROVE i \in P
  <2>1. i \in 0 .. n /\ i \in 1 .. NC /\ i - 1 \in 0 .. n - 1 /\ i - 1 \in 0 .. NC
    BY <1>n, <1>c
  <2>2. f[i - 1] \in Cluster /\ f[i - 1] # last /\ g[i - 1] = f[i - 1]
    BY <1>2, <1>c, <1>l, <2>1
  <2>3. f[i - 1] # new
    BY <1>x, <2>1, <2>2
  <2>4. g[i] = b[f[i - 1]] /\ f[i] = a[f[i - 1]]
    BY <1>f, <1>g, <2>1, <2>2
  <2> QED BY <2>1, <2>2, <2>3, <2>4
<1>3. \A i \in 0 .. n : i \in P
  <2> HIDE DEF P
  <2> QED BY <1>n, <1>1, <1>2, SetInduction
<1>4. n + 1 \in 0 .. NC /\ n + 1 \in 1 .. NC /\ (n + 1) - 1 = n /\ n \in 0 .. n
  BY <1>n, <1>c
<1>5. g[n] = last
  BY <1>3, <1>4, <1>l
<1>6. g[n + 1] = new
  BY <1>g, <1>4, <1>5
<1> QED BY <1>3, <1>4, <1>6 DEF f, g

-----------------------------------------------------------------------------
(***************************************************************************)
(* The operation in progress and the tree.  A release has the entry it is  *)
(* about to erase, and frees clusters of that entry only.                  *)
(***************************************************************************)
Aims(p) == /\ job.pc \in {"free", "erase"} /\ p \in Used(sector, cur)
           /\ job.at = Home(cur, p) /\ job.slot = (p % EPS) + 1

Gone == IF job.pc = "erase" \/ (job.pc = "free" /\ job.w > 0)
        THEN {<<cur, p>> : p \in {q \in Room(cur) : Aims(q)}} ELSE {}

Releases(D) ==
  job.pc \in {"free", "erase"} =>
    \E p \in Used(sector, cur) :
      /\ Aims(p) /\ (job.op = "rmdir" <=> Ent(sector, cur, p).kind = "dir")
      /\ job.pc = "free" =>
           \A c \in Cluster :
             \/ job.buf[c] = fat[1][c]
             \/ /\ job.buf[c] = 0 /\ (c \in D => c = Ent(sector, cur, p).first)
                /\ \A d \in D : \A q \in Used(sector, d) :
                     d # cur \/ q # p => c \notin Chain(sector, fat[1], d, q)

(* The clusters that fat_write has taken in memory. *)
Fresh == {c \in Cluster : fat[1][c] = 0 /\ job.buf[c] # 0}

(* They lead upwards, and below the last one every cluster is taken. *)
Rising ==
  job.pc = "data" =>
    /\ \A c \in Fresh : job.buf[c] \in Cluster => job.buf[c] > c
    /\ \A c \in Cluster : c <= job.prev => job.buf[c] # 0

(* As on a volume whose links lead upwards. *)
LEMMA ClimbingRises == Climbing => Rising
BY Geometry DEF Climbing, Rising, Fresh, Upward

(* fat_write builds a chain of them, and prev is its last cluster. *)
Grows ==
  /\ job.pc = "load" => job.first = 0
  /\ job.pc = "data" =>
    /\ \A c \in Fresh : job.buf[c] = EOC \/ job.buf[c] \in Fresh
    /\ job.k = 0 => job.first = 0 /\ job.prev = 0
    /\ job.k # 0 => /\ job.first \in Fresh /\ job.prev \in Fresh
                    /\ job.buf[job.prev] = EOC
                    /\ (job.k - 1) \div SPC \in 0 .. NC
                    /\ Follow(job.buf, job.first)[(job.k - 1) \div SPC] = job.prev

(* So far that chain holds what fat_write was given. *)
Fills ==
  job.pc \in {"data", "putfat", "entry"} /\ job.op = "write" =>
    /\ Holds(sector, job.buf, job.first, job.tag, job.k)
    /\ job.pc # "data" => job.k = job.size

(* The first sector of a directory that fat_mkdir has made. *)
Dots == [Blank EXCEPT !.slots[1] = DotSlot, !.slots[2] = DotSlot]

(* The new chain shares nothing with the tree while it is brought to disk. *)
Adds(D) ==
  job.pc \in {"putfat", "dots", "entry"} =>
    /\ \A c \in ChainOf(job.buf, job.first) :
         /\ job.buf[c] # 0 /\ c \notin D
         /\ \A d \in D : \A q \in Used(sector, d) : c \notin Chain(sector, fat[1], d, q)
    /\ job.op = "mkdir" => SPC = 1 /\ job.buf[job.first] = EOC
    /\ job.pc = "putfat" => \A c \in Cluster : WriteOf(1, c) < job.w => fat[1][c] = job.buf[c]
    /\ job.pc # "putfat" => fat[1] = job.buf
    /\ job.pc = "entry" /\ job.op = "mkdir" => sector[<<job.first, 0>>] = Dots

(* The table in memory has every cluster that was taken before. *)
Kept ==
  job.pc \in {"data", "putfat"} =>
    \A c \in Cluster : fat[1][c] # 0 => job.buf[c] = fat[1][c]

Sound(D) ==
  /\ D \in DirectorySets /\ cur \in D
  /\ Tree(sector, fat[1], D, Gone) /\ Intact(sector, fat[1], D, Gone)
  /\ Releases(D) /\ Grows /\ Fills /\ Adds(D) /\ Kept

(* The entry that is being erased, as EraseStep reads it. *)
Erased == AsSlots(sector[job.at])[job.slot]

(* The directories of the tree after a step. *)
After(D) ==
  IF sector' # sector /\ job.pc = "erase" /\ job.op = "rmdir"
  THEN D \ {Erased.first}
  ELSE IF sector' # sector /\ job.pc = "entry" /\ job.op = "mkdir"
       THEN D \cup {job.first} ELSE D

(* A release has one target. *)
LEMMA OneTarget ==
  ASSUME Types, NEW p, Aims(p)
  PROVE  /\ p \in Room(cur) /\ p \in Used(sector, cur) /\ Erased = Ent(sector, cur, p)
         /\ Gone = IF job.pc = "erase" \/ (job.pc = "free" /\ job.w > 0)
                   THEN {<<cur, p>>} ELSE {}
<1>1. p \in Room(cur) /\ p \in Used(sector, cur) /\ cur \in Cluster \cup {0}
  BY DEF Aims, Used, Types
<1>2. \A q \in Room(cur) : Aims(q) => q = p
  BY <1>1, Places DEF Aims
<1>3. {q \in Room(cur) : Aims(q)} = {p}
  BY <1>1, <1>2
<1>4. {<<cur, q>> : q \in {r \in Room(cur) : Aims(r)}} = {<<cur, p>>}
  BY <1>3
<1>5. Erased = Ent(sector, cur, p)
  BY DEF Aims, Erased, Ent
<1> QED BY <1>1, <1>4, <1>5 DEF Gone

(* Between operations, and when fat_write starts over, only the tree       *)
(* matters.                                                                *)
LEMMA SoundAtRest ==
  ASSUME NEW D \in DirectorySets, cur' \in D, job'.pc \in {"idle", "load"},
         job'.pc = "load" => job'.first = 0,
         Tree(sector', fat'[1], D, {}), Intact(sector', fat'[1], D, {})
  PROVE  Sound(D)'
<1>1. Gone' = {}
  BY DEF Gone
<1>2. Releases(D)' /\ Grows' /\ Fills' /\ Adds(D)' /\ Kept'
  BY DEF Releases, Grows, Fills, Adds, Kept
<1> QED BY <1>1, <1>2 DEF Sound

(* Except during a release, no entry of the tree is exempt. *)
LEMMA SoundTree ==
  ASSUME NEW D, Sound(D), job.pc \notin {"free", "erase"}
  PROVE  Gone = {} /\ Tree(sector, fat[1], D, {}) /\ Intact(sector, fat[1], D, {})
<1>1. Gone = {}
  BY DEF Gone
<1> QED BY <1>1 DEF Sound

(* The directories of the tree are read without following the table. *)
LEMMA SoundSearch ==
  ASSUME Types, NEW D, Sound(D)
  PROVE  /\ D \in DirectorySets /\ cur \in D /\ cur \in Cluster \cup {0}
         /\ fat[1] \in Tables /\ sector \in Contents
         /\ \A d \in D : d \in Cluster \cup {0} /\ Single(fat[1], d)
BY Geometry DEF Types, Sound, Tree, Directories, DirectorySets, Contents

(* fat_delete, fat_rmdir and fat_write set out to release the chain of the *)
(* first entry they find.                                                  *)
LEMMA SoundRelease ==
  ASSUME Types, NEW D, Sound(D), job.pc = "idle", UNCHANGED <<fat, sector, cur>>,
         NEW op \in {"delete", "rmdir", "write"}, NEW kind \in {"file", "dir"},
         op = "rmdir" <=> kind = "dir", NEW name, NEW tag, NEW size,
         Matches(fat[1], cur, kind, name) # {},
         StartRelease(op, name, tag, size, Least(Matches(fat[1], cur, kind, name)))
  PROVE  /\ Sound(D)' /\ job'.pc = "free" /\ job'.op = op
         /\ job'.name = name /\ job'.tag = tag /\ job'.size = size
         /\ \E p : /\ First(sector, cur, kind, name, p) /\ Aims(p)'
                   /\ job'.buf = Release(fat[1], Ent(sector, cur, p).first)
<1> DEFINE T == fat[1]
<1>p. PICK p : p = Least(Matches(T, cur, kind, name))
  OBVIOUS
<1> DEFINE e == Ent(sector, cur, p)
           b == Release(T, e.first)
<1>t. /\ T \in Tables /\ sector \in Contents /\ cur \in Cluster \cup {0} /\ cur \in D
      /\ D \in DirectorySets /\ Single(T, cur)
      /\ \A d \in D : d \in Cluster \cup {0} /\ Single(T, d)
  BY SoundSearch
<1>s. Gone = {} /\ Tree(sector, T, D, {}) /\ Intact(sector, T, D, {})
  BY SoundTree
<1>1. First(sector, cur, kind, name, p)
  <2> HIDE DEF T
  <2> QED BY <1>t, <1>p, SearchFinds DEF T
<1> DEFINE j == [Idle EXCEPT !.pc = "free", !.op = op, !.name = name, !.tag = tag,
                             !.size = size, !.buf = b, !.at = Home(cur, p),
                             !.slot = (p % EPS) + 1]
<1>2. p \in Room(cur) /\ p \in Used(sector, cur) /\ e.kind = kind
  BY <1>1 DEF First, Match, Used
<1>3. /\ DirSector(T, cur, p \div EPS) = Home(cur, p)
      /\ SlotAt(T, cur, p) = e
  <2> HIDE DEF T
  <2> QED BY <1>t, <1>2, SingleDirectory
<1>4. job' = j
  BY <1>p, <1>3 DEF StartRelease
<1> HIDE DEF b
<1>5. /\ job'.pc = "free" /\ job'.op = op /\ job'.buf = b /\ job'.w = 0
      /\ job'.at = Home(cur, p) /\ job'.slot = (p % EPS) + 1
      /\ job'.name = name /\ job'.tag = tag /\ job'.size = size
  BY <1>4 DEF Idle
<1> HIDE DEF j
<1>6. Aims(p)'
  BY <1>2, <1>5 DEF Aims
<1>7. ASSUME NEW c \in Cluster
      PROVE  \/ b[c] = T[c]
             \/ /\ b[c] = 0 /\ (c \in D => c = e.first)
                /\ \A d \in D : \A q \in Used(sector, d) :
                     d # cur \/ q # p => c \notin Chain(sector, T, d, q)
  <2>1. CASE c \notin ChainOf(T, e.first)
    BY <2>1 DEF b, Release
  <2>2. CASE c \in ChainOf(T, e.first)
    <3>1. b[c] = 0 /\ c \in Chain(sector, T, cur, p)
      BY <2>2 DEF b, Release, Chain
    <3>2. \A d \in D : \A q \in Used(sector, d) :
            d # cur \/ q # p => c \notin Chain(sector, T, d, q)
      BY <1>t, <1>s, <1>2, <3>1 DEF Tree, Apart
    <3>3. ASSUME c \in D PROVE c = e.first
      <4>1. CASE kind = "file"
        BY <1>t, <1>s, <1>2, <3>1, <3>3, <4>1 DEF Tree, Entries
      <4>2. CASE kind = "dir"
        <5>1. e.first \in D \ {0}
          BY <1>t, <1>s, <1>2, <4>2 DEF Tree, Entries
        <5>2. e.first \in Cluster /\ T[e.first] \in {0, EOC}
          BY <1>t, <5>1 DEF Single
        <5> HIDE DEF e, T
        <5>3. ChainOf(T, e.first) = {e.first}
          BY <1>t, <5>2, ChainOfOne
        <5> QED BY <2>2, <5>3
      <4> QED BY <4>1, <4>2
    <3> QED BY <3>1, <3>2, <3>3
  <2> QED BY <2>1, <2>2
<1>8. Releases(D)'
  BY <1>2, <1>5, <1>6, <1>7 DEF Releases
<1>9. Gone' = {}
  BY <1>5 DEF Gone
<1>10. Grows' /\ Fills' /\ Adds(D)' /\ Kept'
  BY <1>5 DEF Grows, Fills, Adds, Kept
<1>11. Sound(D)'
  BY <1>t, <1>s, <1>8, <1>9, <1>10 DEF Sound
<1>12. job'.buf = Release(fat[1], Ent(sector, cur, p).first)
  BY <1>5 DEF b
<1> QED BY <1>1, <1>5, <1>6, <1>11, <1>12

(* fat_mkdir marks the first free cluster as the end of a chain. *)
LEMMA SoundMkdir ==
  ASSUME Types, NEW D, Sound(D), job.pc = "idle", UNCHANGED <<fat, sector, cur>>,
         SPC = 1, NEW name, NEW c, c = fat_find_free_cluster(fat[1]), c # 0,
         job' = [Idle EXCEPT !.pc = "putfat", !.op = "mkdir", !.name = name, !.first = c,
                             !.buf = [fat[1] EXCEPT ![c] = EOC]]
  PROVE  Sound(D)'
<1> DEFINE T == fat[1]
           b == [T EXCEPT ![c] = EOC]
<1>t. /\ T \in Tables /\ cur \in D /\ D \in DirectorySets
      /\ \A d \in D : d \in Cluster \cup {0} /\ Single(T, d)
  BY SoundSearch
<1>s. Gone = {} /\ Tree(sector, T, D, {}) /\ Intact(sector, T, D, {})
  BY SoundTree
<1>1. c \in Cluster /\ T[c] = 0
  <2> HIDE DEF T
  <2> QED BY <1>t, FreeCluster DEF T
<1>2. b \in Tables /\ b[c] = EOC /\ \A x \in Cluster : x # c => b[x] = T[x]
  BY <1>t, <1>1 DEF Tables, Link
<1>3. /\ job'.pc = "putfat" /\ job'.op = "mkdir" /\ job'.buf = b /\ job'.w = 0
      /\ job'.first = c
  BY DEF Idle
<1> HIDE DEF b
<1>4. ChainOf(b, c) = {c}
  BY <1>1, <1>2, ChainOfOne
<1>5. c \notin D
  <2> SUFFICES ASSUME c \in D PROVE FALSE
    OBVIOUS
  <2>1. c # 0 /\ T[c] = 0
    BY <1>1
  <2> QED BY <1>s, <2>1 DEF Tree, Directories
<1>6. \A d \in D : \A q \in Used(sector, d) : c \notin Chain(sector, T, d, q)
  BY <1>s, <1>1 DEF Tree, Entries
<1>7. \A x \in Cluster : ~(WriteOf(1, x) < 0)
  BY WritesApart, Geometry, IdleJob
<1>8. Adds(D)'
  <2>1. \A x \in ChainOf(job'.buf, job'.first) :
          /\ job'.buf[x] # 0 /\ x \notin D
          /\ \A d \in D : \A q \in Used(sector', d) : x \notin Chain(sector', fat'[1], d, q)
    <3>1. ChainOf(job'.buf, job'.first) = {c}
      BY <1>3, <1>4
    <3>2. job'.buf[c] # 0
      <4>1. EOC # 0
        BY DEF EOC
      <4> QED BY <1>2, <1>3, <4>1, Zenon
    <3>3. \A d \in D : \A q \in Used(sector', d) : c \notin Chain(sector', fat'[1], d, q)
      BY <1>6
    <3> QED BY <1>5, <3>1, <3>2, <3>3
  <2>2. \A x \in Cluster : WriteOf(1, x) < job'.w => fat'[1][x] = job'.buf[x]
    BY <1>3, <1>7
  <2>3. job'.buf[job'.first] = EOC
    BY <1>2, <1>3
  <2> QED BY <1>3, <2>1, <2>2, <2>3 DEF Adds
<1>9. Kept'
  BY <1>1, <1>2, <1>3 DEF Kept
<1>10. Gone' = {} /\ Releases(D)' /\ Grows' /\ Fills'
  BY <1>3 DEF Gone, Releases, Grows, Fills
<1> QED BY <1>t, <1>s, <1>8, <1>9, <1>10 DEF Sound

(* An entry of the current directory, and no other, is changed. *)
Changed(p, new) ==
  /\ p \in Room(cur)
  /\ \A d \in Cluster \cup {0} : \A q \in Room(d) :
       Ent(sector', d, q) = IF d = cur /\ q = p THEN new ELSE Ent(sector, d, q)

NameWritten(p, name) ==
  sector' = WithSlot(Home(cur, p), (p % EPS) + 1,
                     [Ent(sector, cur, p) EXCEPT !.name = name])

(* fat_rename gives the first file of the old name another name. *)
LEMMA SoundRename ==
  ASSUME Types, NEW D, Sound(D), job.pc = "idle", fat' = fat, cur' = cur, job' = Idle,
         NEW old, NEW new, NEW p, First(sector, cur, "file", old, p), NameWritten(p, new)
  PROVE  Sound(D)' /\ Changed(p, [Ent(sector, cur, p) EXCEPT !.name = new])
<1> DEFINE T == fat[1]
           e == Ent(sector, cur, p)
           S2 == WithSlot(Home(cur, p), (p % EPS) + 1, [e EXCEPT !.name = new])
<1>t. /\ T \in Tables /\ sector \in Contents /\ cur \in Cluster \cup {0} /\ cur \in D
      /\ D \in DirectorySets
      /\ \A d \in D : d \in Cluster \cup {0} /\ Single(T, d)
  BY SoundSearch
<1>s. Tree(sector, T, D, {}) /\ Intact(sector, T, D, {})
  BY SoundTree
<1>1. p \in Room(cur) /\ p \in Used(sector, cur) /\ e.kind = "file"
  BY DEF First, Match, Used
<1>2. /\ \A d \in Cluster \cup {0} : \A q \in Room(d) :
           Ent(S2, d, q) = IF d = cur /\ q = p THEN [e EXCEPT !.name = new]
                           ELSE Ent(sector, d, q)
      /\ \A x \in Sectors : x # Home(cur, p) => S2[x] = sector[x]
  <2> DEFINE n == [e EXCEPT !.name = new]
  <2> HIDE DEF n
  <2>1. S2 = WithSlot(Home(cur, p), (p % EPS) + 1, n)
    BY DEF n
  <2> HIDE DEF S2
  <2>2. /\ \A d \in Cluster \cup {0} : \A q \in Room(d) :
             Ent(S2, d, q) = IF d = cur /\ q = p THEN n ELSE Ent(sector, d, q)
        /\ \A x \in Sectors : x # Home(cur, p) => S2[x] = sector[x]
    BY <1>t, <1>1, <2>1, EntryReplaced
  <2> QED BY <2>2 DEF n
<1>3. /\ [e EXCEPT !.name = new].kind = e.kind /\ [e EXCEPT !.name = new].first = e.first
      /\ [e EXCEPT !.name = new].tag = e.tag /\ [e EXCEPT !.name = new].size = e.size
  <2>1. e \in [kind : {"file"}, name : Names, first : Cluster \cup {0},
               size : 0 .. MaxSize, tag : Tags]
    <3>1. e \in Slots
      BY <1>t, <1>1, EntryTypes
    <3> HIDE DEF e
    <3> QED BY <1>1, <3>1, KindsOfSlots
  <2> HIDE DEF e
  <2> QED BY <2>1
<1> HIDE DEF S2
<1>4. \A d \in D : \A q \in Room(d) :
        /\ Ent(S2, d, q).kind = Ent(sector, d, q).kind
        /\ Ent(S2, d, q).first = Ent(sector, d, q).first
        /\ Ent(S2, d, q).tag = Ent(sector, d, q).tag
        /\ Ent(S2, d, q).size = Ent(sector, d, q).size
  BY <1>t, <1>2, <1>3
<1>5. \A d \in D : \A q \in Used(sector, d) : Ent(sector, d, q).kind = "file" =>
        \A c \in Chain(sector, T, d, q), k \in 0 .. SPC - 1 : S2[<<c, k>>] = sector[<<c, k>>]
  <2>1. \A d \in D : \A q \in Used(sector, d) : Ent(sector, d, q).kind = "file" =>
          \A c \in Chain(sector, T, d, q) : c \in Cluster /\ c # cur
    BY <1>t, <1>s DEF Tree, Entries, Chain, ChainOf
  <2>2. \A c \in Cluster, k \in 0 .. SPC - 1 : <<c, k>> \in Sectors
    BY DEF Sectors
  <2>3. \A c \in Cluster, k \in 0 .. SPC - 1 : c # cur => <<c, k>> # Home(cur, p)
    BY DEF Home
  <2> QED BY <1>2, <2>1, <2>2, <2>3
<1>6. Tree(S2, T, D, {})
  BY <1>s, <1>4, TreeAlike
<1>7. Intact(S2, T, D, {})
  BY <1>t, <1>s, <1>4, <1>5, IntactAlike
<1>8. sector' = S2 /\ fat'[1] = T /\ job'.pc = "idle" /\ job'.first = 0
  BY DEF S2, Idle, NameWritten
<1>9. Sound(D)'
  BY <1>t, <1>6, <1>7, <1>8, SoundAtRest
<1> QED BY <1>1, <1>2, <1>8, <1>9 DEF Changed

(* What a job is made of. *)
LEMMA JobFields ==
  ASSUME Types
  PROVE  /\ job \in Jobs /\ job.buf \in Tables /\ job.w \in 0 .. LastFatSector
         /\ job.w \in Nat /\ job.k \in Nat /\ job.size \in 0 .. MaxSize
         /\ job.size \in Nat
         /\ job.first \in Cluster \cup {0} /\ job.prev \in Cluster \cup {0}
<1>1. job \in Jobs
  BY DEF Types
<1>2. /\ job.buf \in Tables /\ job.w \in 0 .. LastFatSector
      /\ job.k \in 0 .. MaxSize /\ job.size \in 0 .. MaxSize
      /\ job.first \in Cluster \cup {0} /\ job.prev \in Cluster \cup {0}
  BY <1>1 DEF Jobs
<1> QED BY <1>1, <1>2, IdleJob, Geometry

(* What a write of write_fat does to the first copy of the table. *)
LEMMA FirstCopy ==
  ASSUME Types, NEW buf \in Tables, NEW w \in 0 .. LastFatSector
  PROVE  \A c \in Cluster : PutFatSector(w, buf)[1][c] =
           IF WriteOf(1, c) = w THEN buf[c] ELSE fat[1][c]
<1> SUFFICES ASSUME NEW c \in Cluster
             PROVE  PutFatSector(w, buf)[1][c] =
                      IF WriteOf(1, c) = w THEN buf[c] ELSE fat[1][c]
  OBVIOUS
<1>0. /\ fat \in [1 .. FatCount -> Tables] /\ 1 \in 1 .. FatCount
      /\ FatSecs \in Nat \ {0} /\ w \in Nat
  BY Geometry, IdleJob DEF Types
<1>1. PutFatSector(w, buf)[1][c] = IF 1 = (w \div FatSecs) + 1 /\ FatSectorOf(c) = w % FatSecs
                                   THEN buf[c] ELSE fat[1][c]
  BY <1>0, PutType
<1>2. /\ WriteOf(1, c) \in Nat /\ (WriteOf(1, c) \div FatSecs) + 1 = 1
      /\ WriteOf(1, c) % FatSecs = FatSectorOf(c)
  BY <1>0, WritesApart, IdleJob
<1> DEFINE v == WriteOf(1, c)
           s == FatSectorOf(c)
<1> HIDE DEF v, s
<1>3. v \in Nat /\ (v \div FatSecs) + 1 = 1 /\ v % FatSecs = s
  BY <1>2 DEF v, s
<1>4. v = w <=> (1 = (w \div FatSecs) + 1 /\ s = w % FatSecs)
  BY <1>0, <1>3
<1> QED BY <1>1, <1>4 DEF v, s

(* The exempt place after a step. *)
LEMMA GoneNext ==
  ASSUME NEW p, Aims(p)', cur' \in Cluster \cup {0},
         job'.pc = "erase" \/ (job'.pc = "free" /\ job'.w > 0)
  PROVE  Gone' = {<<cur', p>>}
<1>1. p \in Room(cur') /\ p \in Used(sector', cur')
  BY DEF Aims, Used
<1>2. \A q \in Room(cur') : Aims(q)' => q = p
  <2> SUFFICES ASSUME NEW q \in Room(cur'), Aims(q)' PROVE q = p
    OBVIOUS
  <2>1. Home(cur', q) = Home(cur', p) /\ (q % EPS) + 1 = (p % EPS) + 1
    BY DEF Aims
  <2> QED BY <1>1, <2>1, Places
<1>3. {q \in Room(cur') : Aims(q)'} = {p}
  BY <1>1, <1>2
<1>4. {<<cur', q>> : q \in {r \in Room(cur') : Aims(r)'}} = {<<cur', p>>}
  BY <1>3
<1> QED BY <1>4 DEF Gone

(* write_fat during a release brings the freed clusters to the disk. *)
LEMMA SoundFree ==
  ASSUME TInv, TInv', NEW D, Sound(D), NEW o, FreeStep(o)
  PROVE  /\ Sound(D)' /\ UNCHANGED <<sector, cur, path, ret, leaky>>
         /\ job'.pc \in {"free", "erase"}
         /\ job'.op = job.op /\ job'.name = job.name /\ job'.tag = job.tag
         /\ job'.size = job.size /\ job'.at = job.at /\ job'.slot = job.slot
         /\ job'.buf = job.buf
         /\ \A c \in Cluster : fat'[1][c] \in {fat[1][c], job.buf[c]}
         /\ \E p : /\ Aims(p) /\ Aims(p)'
                   /\ \A d \in D : \A q \in Used(sector, d) : d # cur \/ q # p =>
                        Chain(sector, fat'[1], d, q) = Chain(sector, fat[1], d, q)
<1> DEFINE T == fat[1]
           T2 == fat'[1]
<1>y. Types /\ TInv
  BY DEF TInv
<1>t. /\ T \in Tables /\ sector \in Contents /\ cur \in Cluster \cup {0} /\ cur \in D
      /\ D \in DirectorySets
  BY <1>y, SoundSearch
<1>j. job \in Jobs /\ job.buf \in Tables /\ job.w \in Nat /\ job.w \in 0 .. LastFatSector
  BY <1>y, JobFields
<1>1. /\ UNCHANGED <<sector, cur, path, ret, leaky>> /\ job.pc = "free"
      /\ fat' = fat \/ fat' = PutFatSector(job.w, job.buf)
      /\ \/ job' = [job EXCEPT !.pc = "erase"]
         \/ job' = [job EXCEPT !.w = @ + 1]
  BY DEF FreeStep
<1>2. /\ job'.op = job.op /\ job'.buf = job.buf /\ job'.at = job.at
      /\ job'.slot = job.slot /\ job'.name = job.name /\ job'.tag = job.tag
      /\ job'.size = job.size
      /\ job'.pc = "erase" \/ (job'.pc = "free" /\ job'.w > 0)
  <2>1. CASE job' = [job EXCEPT !.pc = "erase"]
    BY <1>j, <2>1 DEF Jobs
  <2>2. CASE job' = [job EXCEPT !.w = @ + 1]
    <3>1. job.w + 1 > 0
      BY <1>j
    <3>2. job'.w = job.w + 1
      BY <1>j, <2>2 DEF Jobs
    <3> QED BY <1>j, <1>1, <2>2, <3>1, <3>2 DEF Jobs
  <2> QED BY <1>1, <2>1, <2>2
<1>3. T2 \in Tables
  BY Geometry DEF TInv, Types
<1>4. \A c \in Cluster : T2[c] \in {T[c], job.buf[c]}
  <2>1. CASE fat' = fat
    BY <2>1
  <2>2. CASE fat' = PutFatSector(job.w, job.buf)
    BY <1>y, <1>j, <2>2, FirstCopy
  <2> QED BY <1>1, <2>1, <2>2
<1>5. PICK p \in Used(sector, cur) :
        /\ Aims(p) /\ (job.op = "rmdir" <=> Ent(sector, cur, p).kind = "dir")
        /\ \A c \in Cluster :
             \/ job.buf[c] = T[c]
             \/ /\ job.buf[c] = 0 /\ (c \in D => c = Ent(sector, cur, p).first)
                /\ \A d \in D : \A q \in Used(sector, d) :
                     d # cur \/ q # p => c \notin Chain(sector, T, d, q)
  BY <1>1 DEF Sound, Releases
<1>6. Gone \in SUBSET {<<cur, p>>}
  BY <1>y, <1>5, OneTarget
<1>7. Tree(sector, T, D, Gone) /\ Intact(sector, T, D, Gone)
  BY DEF Sound
<1> HIDE DEF T, T2
<1>8. \A c \in Cluster :
        \/ T2[c] = T[c]
        \/ /\ T2[c] = 0 /\ (c \in D => c = Ent(sector, cur, p).first)
           /\ \A d \in D : \A q \in Used(sector, d) :
                d # cur \/ q # p => c \notin Chain(sector, T, d, q)
  BY <1>4, <1>5
<1> DEFINE X == Gone
<1> HIDE DEF X
<1>9. /\ Tree(sector, T2, D, {<<cur, p>>}) /\ Intact(sector, T2, D, {<<cur, p>>})
      /\ \A d \in D : \A q \in Used(sector, d) :
           d # cur \/ q # p => Chain(sector, T2, d, q) = Chain(sector, T, d, q)
  <2>1. X \in SUBSET {<<cur, p>>} /\ Tree(sector, T, D, X) /\ Intact(sector, T, D, X)
    BY <1>6, <1>7 DEF X
  <2> QED BY <1>t, <1>3, <1>8, <2>1, TreeReleases
<1>10. Aims(p)'
  BY <1>1, <1>2, <1>5 DEF Aims
<1>11. Gone' = {<<cur, p>>}
  BY <1>t, <1>1, <1>2, <1>10, GoneNext
<1>12. Releases(D)'
  <2>1. \A c \in Cluster :
          \/ job'.buf[c] = T2[c]
          \/ /\ job'.buf[c] = 0 /\ (c \in D => c = Ent(sector, cur, p).first)
             /\ \A d \in D : \A q \in Used(sector, d) :
                  d # cur \/ q # p => c \notin Chain(sector, T2, d, q)
    BY <1>2, <1>4, <1>5, <1>9
  <2> QED BY <1>1, <1>2, <1>5, <1>10, <2>1 DEF Releases, T2
<1>13. Grows' /\ Fills' /\ Adds(D)' /\ Kept'
  BY <1>2 DEF Grows, Fills, Adds, Kept
<1>14. Sound(D)'
  BY <1>t, <1>1, <1>9, <1>11, <1>12, <1>13 DEF Sound, T2
<1>15. /\ \A c \in Cluster : fat'[1][c] \in {fat[1][c], job.buf[c]}
       /\ \A d \in D : \A q \in Used(sector, d) : d # cur \/ q # p =>
            Chain(sector, fat'[1], d, q) = Chain(sector, fat[1], d, q)
  BY <1>4, <1>9 DEF T, T2
<1> QED BY <1>1, <1>2, <1>5, <1>10, <1>14, <1>15

(* The entry is marked as deleted. *)
LEMMA SoundErase ==
  ASSUME TInv, NEW D, Sound(D), NEW o, EraseStep(o), ~torn',
         NEW E, E = After(D)
  PROVE  /\ Sound(E)' /\ UNCHANGED <<fat, cur, path>> /\ job'.pc \in {"idle", "load"}
         /\ \E p \in Used(sector, cur) :
              /\ Aims(p) /\ (job.op = "rmdir" <=> Ent(sector, cur, p).kind = "dir")
              /\ E = IF Ent(sector, cur, p).kind = "dir"
                     THEN D \ {Ent(sector, cur, p).first} ELSE D
              /\ \A d \in Cluster \cup {0} : \A q \in Room(d) :
                   Ent(sector', d, q) = IF d = cur /\ q = p THEN DelSlot
                                        ELSE Ent(sector, d, q)
<1> DEFINE T == fat[1]
<1>y. Types
  BY DEF TInv
<1>t. /\ T \in Tables /\ sector \in Contents /\ cur \in Cluster \cup {0} /\ cur \in D
      /\ D \in DirectorySets
  BY <1>y, SoundSearch
<1>1. /\ UNCHANGED <<fat, cur, path>> /\ job.pc = "erase"
      /\ sector' = WithSlot(job.at, job.slot, DelSlot)
      /\ job'.pc \in {"idle", "load"} /\ job'.first = 0
  <2>1. o # "lost"
    BY Zenon DEF EraseStep
  <2>2. /\ UNCHANGED <<fat, cur, path>> /\ job.pc = "erase"
        /\ sector' = WithSlot(job.at, job.slot, DelSlot)
        /\ \/ job' = Idle
           \/ job' = [Idle EXCEPT !.pc = "load", !.op = "write", !.name = job.name,
                                  !.tag = job.tag, !.size = job.size]
    BY <2>1 DEF EraseStep, Return, Finish
  <2>3. job'.pc \in {"idle", "load"} /\ job'.first = 0
    <3>1. CASE job' = Idle
      BY <3>1 DEF Idle
    <3>2. CASE job' = [Idle EXCEPT !.pc = "load", !.op = "write", !.name = job.name,
                                   !.tag = job.tag, !.size = job.size]
      BY <3>2 DEF Idle
    <3> QED BY <2>2, <3>1, <3>2
  <2> QED BY <2>2, <2>3
<1>2. PICK p \in Used(sector, cur) :
        Aims(p) /\ (job.op = "rmdir" <=> Ent(sector, cur, p).kind = "dir")
  BY <1>1 DEF Sound, Releases
<1>3. /\ p \in Room(cur) /\ Erased = Ent(sector, cur, p) /\ Gone = {<<cur, p>>}
  BY <1>y, <1>1, <1>2, OneTarget
<1>4. Tree(sector, T, D, {<<cur, p>>}) /\ Intact(sector, T, D, {<<cur, p>>})
  BY <1>3 DEF Sound
<1>5. sector' = WithSlot(Home(cur, p), (p % EPS) + 1, DelSlot)
  BY <1>1, <1>2 DEF Aims
<1> DEFINE S2 == WithSlot(Home(cur, p), (p % EPS) + 1, DelSlot)
<1>6. /\ \A d \in Cluster \cup {0} : \A q \in Room(d) :
           Ent(S2, d, q) = IF d = cur /\ q = p THEN DelSlot ELSE Ent(sector, d, q)
      /\ \A x \in Sectors : x # Home(cur, p) => S2[x] = sector[x]
  <2>1. PICK s : s = S2
    OBVIOUS
  <2> HIDE DEF T
  <2>2. /\ \A d \in Cluster \cup {0} : \A q \in Room(d) :
             Ent(s, d, q) = IF d = cur /\ q = p THEN DelSlot ELSE Ent(sector, d, q)
        /\ \A x \in Sectors : x # Home(cur, p) => s[x] = sector[x]
    BY <1>t, <1>3, <2>1, EntryReplaced
  <2> QED BY <2>1, <2>2
<1> HIDE DEF S2
<1>7. sector' # sector
  <2>1. Ent(S2, cur, p) = DelSlot /\ DelSlot.kind = "del"
    BY <1>t, <1>3, <1>6 DEF DelSlot, Entry
  <2>2. Ent(sector, cur, p).kind \in {"file", "dir"}
    BY <1>2 DEF Used
  <2>3. S2 # sector
    BY <2>1, <2>2
  <2> QED BY <1>5, <2>3 DEF S2
<1>8. E = IF Ent(sector, cur, p).kind = "dir"
          THEN D \ {Ent(sector, cur, p).first} ELSE D
  BY <1>1, <1>2, <1>3, <1>7 DEF After
<1> HIDE DEF T
<1>9. E \in DirectorySets /\ cur \in E /\ Tree(S2, T, E, {}) /\ Intact(S2, T, E, {})
  <2>1. \A d \in D : \A q \in Room(d) :
          Ent(S2, d, q) = IF d = cur /\ q = p THEN DelSlot ELSE Ent(sector, d, q)
    BY <1>t, <1>6 DEF DirectorySets
  <2> QED BY <1>t, <1>2, <1>4, <1>6, <1>8, <2>1, TreeErased
<1>10. sector' = S2 /\ fat'[1] = T /\ cur' = cur
  BY <1>1, <1>5 DEF S2, T
<1>11. Sound(E)'
  BY <1>1, <1>9, <1>10, SoundAtRest
<1>12. \A d \in Cluster \cup {0} : \A q \in Room(d) :
         Ent(sector', d, q) = IF d = cur /\ q = p THEN DelSlot ELSE Ent(sector, d, q)
  BY <1>6, <1>10
<1> QED BY <1>1, <1>2, <1>8, <1>11, <1>12

(* fat_write loads the table and starts a chain that has no cluster yet. *)
LEMMA SoundLoad ==
  ASSUME TInv, NEW D, Sound(D), NEW r, LoadStep(r)
  PROVE  Sound(D)' /\ UNCHANGED <<fat, sector, cur, path>>
<1> DEFINE T == fat[1]
<1>y. Types /\ Phases
  BY DEF TInv
<1>t. /\ T \in Tables /\ cur \in D /\ D \in DirectorySets
  BY <1>y, SoundSearch
<1>1. /\ UNCHANGED <<fat, sector, cur, path>> /\ job.pc = "load"
      /\ \/ job' = Idle
         \/ job' = [job EXCEPT !.pc = IF job.size = 0 THEN "putfat" ELSE "data",
                               !.buf = T]
  BY DEF LoadStep, Return, Finish, disk
<1>s. Gone = {} /\ Tree(sector, T, D, {}) /\ Intact(sector, T, D, {})
  BY <1>1, SoundTree
<1>2. CASE job' = Idle
  <2>1. job'.pc = "idle" /\ job'.first = 0
    BY <1>2 DEF Idle
  <2>2. Sound(D)'
    BY <1>t, <1>1, <1>s, <2>1, SoundAtRest
  <2> QED BY <1>1, <2>2
<1>3. CASE job' = [job EXCEPT !.pc = IF job.size = 0 THEN "putfat" ELSE "data", !.buf = T]
  <2>1. job \in Jobs /\ job.size \in Nat
    BY <1>y, JobFields
  <2>2. job.op = "write" /\ job.w = 0 /\ job.prev = 0 /\ job.k = 0 /\ job.first = 0
    BY <1>y, <1>1 DEF Phases, Sound, Grows
  <2>3. /\ job'.pc = (IF job.size = 0 THEN "putfat" ELSE "data")
        /\ job'.buf = T /\ job'.op = "write" /\ job'.w = 0 /\ job'.prev = 0
        /\ job'.k = 0 /\ job'.first = 0 /\ job'.size = job.size
    BY <1>3, <2>1, <2>2 DEF Jobs
  <2>4. ChainOf(T, 0) = {}
    BY <1>t, ChainStart, Geometry DEF Link
  <2>5. \A c \in Cluster : ~(WriteOf(1, c) < 0)
    BY WritesApart, Geometry, IdleJob
  <2>6. Adds(D)'
    BY <2>3, <2>4, <2>5 DEF Adds
  <2>7. Grows'
    <3>1. {c \in Cluster : T[c] = 0 /\ T[c] # 0} = {}
      OBVIOUS
    <3>2. Fresh' = {}
      BY <1>1, <2>3, <3>1 DEF Fresh
    <3> QED BY <2>3, <3>2 DEF Grows
  <2>8. Fills'
    BY <2>1, <2>3 DEF Fills, Holds
  <2>9. Gone' = {} /\ Releases(D)' /\ Kept'
    BY <1>1, <2>3 DEF Gone, Releases, Kept
  <2>10. Sound(D)'
    BY <1>t, <1>1, <1>s, <2>6, <2>7, <2>8, <2>9 DEF Sound
  <2> QED BY <1>1, <2>10
<1> QED BY <1>1, <1>2, <1>3

(* write_fat of fat_write and fat_mkdir brings the new chain to the disk. *)
LEMMA SoundPutFat ==
  ASSUME TInv, TInv', NEW D, Sound(D), NEW o, PutFatStep(o)
  PROVE  /\ Sound(D)' /\ UNCHANGED <<sector, cur, path>>
         /\ \A c \in Cluster : fat'[1][c] \in {fat[1][c], job.buf[c]}
         /\ \A d \in D : \A q \in Used(sector, d) :
              Chain(sector, fat'[1], d, q) = Chain(sector, fat[1], d, q)
<1> DEFINE T == fat[1]
           T2 == fat'[1]
<1>y. Types /\ TInv
  BY DEF TInv
<1>t. /\ T \in Tables /\ sector \in Contents /\ cur \in D /\ D \in DirectorySets
  BY <1>y, SoundSearch
<1>j. job \in Jobs /\ job.buf \in Tables /\ job.w \in Nat /\ job.w \in 0 .. LastFatSector
  BY <1>y, JobFields
<1>1. /\ UNCHANGED <<sector, cur, path>> /\ job.pc = "putfat"
      /\ \/ o = "ok" /\ fat' = PutFatSector(job.w, job.buf)
         \/ fat' = fat /\ o # "ok"
         \/ fat' = PutFatSector(job.w, job.buf) /\ o # "ok"
      /\ o # "ok" => job' = Idle
      /\ o = "ok" => job' = IF job.w < LastFatSector THEN [job EXCEPT !.w = @ + 1]
                            ELSE [job EXCEPT !.w = 0,
                                    !.pc = IF job.op = "mkdir" THEN "dots" ELSE "entry"]
  BY DEF PutFatStep, Return, Finish
<1>s. Gone = {} /\ Tree(sector, T, D, {}) /\ Intact(sector, T, D, {})
  BY <1>1, SoundTree
<1>3. T2 \in Tables
  BY Geometry DEF TInv, Types
<1>4. \A c \in Cluster : T2[c] \in {T[c], job.buf[c]}
  <2>1. CASE fat' = fat
    BY <2>1
  <2>2. CASE fat' = PutFatSector(job.w, job.buf)
    BY <1>y, <1>j, <2>2, FirstCopy
  <2> QED BY <1>1, <2>1, <2>2
<1>5. \A c \in Cluster : T[c] # 0 => job.buf[c] = T[c]
  BY <1>1 DEF Sound, Kept
<1>6. \A c \in Cluster : T[c] # 0 => T2[c] = T[c]
  BY <1>4, <1>5
<1> HIDE DEF T, T2
<1>7. /\ Tree(sector, T2, D, {}) /\ Intact(sector, T2, D, {})
      /\ \A d \in D : \A q \in Used(sector, d) : Chain(sector, T2, d, q) = Chain(sector, T, d, q)
  BY <1>t, <1>s, <1>3, <1>6, TreeTakes
<1>10. \A d \in D : \A q \in Used(sector, d) :
         Chain(sector, fat'[1], d, q) = Chain(sector, fat[1], d, q)
  BY <1>7 DEF T, T2
<1>8. CASE o # "ok"
  <2>0. job' = Idle
    BY <1>1, <1>8
  <2>1. job'.pc = "idle" /\ job'.first = 0
    BY <2>0 DEF Idle
  <2>9. fat'[1] = T2
    BY DEF T2
  <2>2. Sound(D)'
    BY <1>t, <1>1, <1>7, <2>1, <2>9, SoundAtRest
  <2> QED BY <1>1, <1>4, <1>10, <2>2 DEF T, T2
<1>9. CASE o = "ok"
  <2>1. /\ \A c \in ChainOf(job.buf, job.first) :
             /\ job.buf[c] # 0 /\ c \notin D
             /\ \A d \in D : \A q \in Used(sector, d) : c \notin Chain(sector, T, d, q)
        /\ job.op = "mkdir" => SPC = 1 /\ job.buf[job.first] = EOC
        /\ \A c \in Cluster : WriteOf(1, c) < job.w => T[c] = job.buf[c]
    BY <1>1 DEF Sound, Adds, T
  <2>2. \A c \in Cluster : WriteOf(1, c) < job.w + 1 => T2[c] = job.buf[c]
    <3> SUFFICES ASSUME NEW c \in Cluster, WriteOf(1, c) < job.w + 1
                 PROVE  T2[c] = job.buf[c]
      OBVIOUS
    <3>1. T2[c] = IF WriteOf(1, c) = job.w THEN job.buf[c] ELSE T[c]
      BY <1>y, <1>j, <1>1, <1>9, FirstCopy DEF T, T2
    <3>2. WriteOf(1, c) \in Nat
      BY WritesApart, Geometry, IdleJob
    <3>3. WriteOf(1, c) = job.w \/ WriteOf(1, c) < job.w
      BY <1>j, <3>2
    <3> QED BY <2>1, <3>1, <3>3
  <2>3. /\ job.op = "write" => /\ Holds(sector, job.buf, job.first, job.tag, job.k)
                               /\ job.k = job.size
        /\ job.op \in {"write", "mkdir"}
    BY <1>1, <1>y DEF Sound, Fills, TInv, Phases
  <2>4. \A c \in ChainOf(job.buf, job.first) :
          /\ job.buf[c] # 0 /\ c \notin D
          /\ \A d \in D : \A q \in Used(sector, d) : c \notin Chain(sector, T2, d, q)
    BY <1>7, <2>1
  <2>5. CASE job.w < LastFatSector /\ job' = [job EXCEPT !.w = @ + 1]
    <3>1. /\ job'.pc = "putfat" /\ job'.op = job.op /\ job'.buf = job.buf
          /\ job'.first = job.first /\ job'.w = job.w + 1 /\ job'.k = job.k
          /\ job'.tag = job.tag /\ job'.size = job.size
      BY <1>j, <1>1, <2>5 DEF Jobs
    <3>2. Adds(D)'
      BY <1>1, <2>1, <2>2, <2>4, <3>1 DEF Adds, T2
    <3>3. Kept' /\ Fills'
      BY <1>1, <1>4, <1>5, <2>3, <3>1 DEF Kept, Fills, T2
    <3>4. Gone' = {} /\ Releases(D)' /\ Grows'
      BY <3>1 DEF Gone, Releases, Grows
    <3>5. Sound(D)'
      BY <1>t, <1>1, <1>7, <3>2, <3>3, <3>4 DEF Sound, T2
    <3> QED BY <1>1, <1>4, <1>10, <3>5 DEF T, T2
  <2>6. CASE /\ job.w = LastFatSector
             /\ job' = [job EXCEPT !.w = 0,
                          !.pc = IF job.op = "mkdir" THEN "dots" ELSE "entry"]
    <3>1. /\ job'.pc = (IF job.op = "mkdir" THEN "dots" ELSE "entry")
          /\ job'.op = job.op /\ job'.buf = job.buf
          /\ job'.first = job.first /\ job'.k = job.k
          /\ job'.tag = job.tag /\ job'.size = job.size
      BY <1>j, <2>6 DEF Jobs
    <3>2. T2 = job.buf
      <4>1. \A c \in Cluster : WriteOf(1, c) < job.w + 1
        BY <2>6, WritesApart, Geometry, IdleJob
      <4>2. \A c \in Cluster : T2[c] = job.buf[c]
        BY <2>2, <4>1
      <4> QED BY <1>3, <1>j, <4>2, TablesEqual
    <3>3. Adds(D)'
      BY <1>1, <2>1, <2>3, <2>4, <3>1, <3>2 DEF Adds, T2
    <3>4. Kept' /\ Fills'
      BY <1>1, <2>3, <3>1 DEF Kept, Fills
    <3>5. Gone' = {} /\ Releases(D)' /\ Grows'
      BY <3>1 DEF Gone, Releases, Grows
    <3>6. Sound(D)'
      BY <1>t, <1>1, <1>7, <3>3, <3>4, <3>5 DEF Sound, T2
    <3> QED BY <1>1, <1>4, <1>10, <3>6 DEF T, T2
  <2> QED BY <1>j, <1>1, <1>9, <2>5, <2>6, IdleJob
<1> QED BY <1>8, <1>9

(* A write to a cluster that no entry and no directory has. *)
LEMMA WrittenOutside ==
  ASSUME NEW S \in Contents, NEW T, NEW D \in DirectorySets,
         Tree(S, T, D, {}), Intact(S, T, D, {}),
         NEW c \in Cluster, c \notin D,
         \A d \in D : \A q \in Used(S, d) : c \notin Chain(S, T, d, q),
         NEW S2, \A x \in Sectors : x[1] # c => S2[x] = S[x]
  PROVE  /\ Tree(S2, T, D, {}) /\ Intact(S2, T, D, {})
         /\ \A d \in D : Used(S2, d) = Used(S, d)
         /\ \A d \in D : \A q \in Room(d) : Ent(S2, d, q) = Ent(S, d, q)
<1>3. \A d \in D : \A q \in Room(d) : Ent(S2, d, q) = Ent(S, d, q)
  <2>1. \A d \in D : \A q \in Room(d) : Home(d, q) \in Sectors
    BY Places DEF DirectorySets
  <2>2. \A d \in D : \A q \in Room(d) : Home(d, q)[1] # c
    BY DEF Home
  <2>3. \A d \in D : \A q \in Room(d) : S2[Home(d, q)] = S[Home(d, q)]
    BY <2>1, <2>2
  <2> QED BY <2>3 DEF Ent
<1>4. Tree(S2, T, D, {}) /\ \A d \in D : Used(S2, d) = Used(S, d)
  <2>1. \A d \in D : \A q \in Room(d) : /\ Ent(S2, d, q).kind = Ent(S, d, q).kind
                                        /\ Ent(S2, d, q).first = Ent(S, d, q).first
    BY <1>3
  <2>2. Tree(S2, T, D, {})
    BY <2>1, TreeAlike
  <2>3. \A d \in D : Used(S2, d) = Used(S, d)
    BY <2>1 DEF Used
  <2> QED BY <2>2, <2>3
<1>5. \A d \in D : \A q \in Used(S, d) : Ent(S, d, q).kind = "file" =>
        \A x \in Chain(S, T, d, q), i \in 0 .. SPC - 1 : S2[<<x, i>>] = S[<<x, i>>]
  <2> SUFFICES ASSUME NEW d \in D, NEW q \in Used(S, d), NEW x \in Chain(S, T, d, q),
                      NEW i \in 0 .. SPC - 1
               PROVE  S2[<<x, i>>] = S[<<x, i>>]
    OBVIOUS
  <2>1. x \in Cluster /\ x # c
    BY DEF Chain, ChainOf
  <2>2. <<x, i>> \in Sectors /\ <<x, i>>[1] # c
    BY <2>1 DEF Sectors
  <2> QED BY <2>2
<1>6. Intact(S2, T, D, {})
  BY <1>3, <1>5, IntactAlike
<1> QED BY <1>3, <1>4, <1>6

(* fat_mkdir writes the first sector of the new directory. *)
LEMMA SoundDots ==
  ASSUME TInv, NEW D, Sound(D), NEW o, DotsStep(o)
  PROVE  /\ Sound(D)' /\ UNCHANGED <<fat, cur, path>>
         /\ \A d \in D : \A q \in Room(d) : Ent(sector', d, q) = Ent(sector, d, q)
<1> DEFINE T == fat[1]
           c == job.first
<1>y. Types /\ Phases
  BY DEF TInv
<1>t. /\ T \in Tables /\ sector \in Contents /\ cur \in D /\ D \in DirectorySets
  BY <1>y, SoundSearch
<1>1. /\ UNCHANGED <<fat, cur, path>> /\ job.pc = "dots"
      /\ \/ job' = Idle /\ sector' = sector
         \/ job' = Idle /\ sector' = [sector EXCEPT ![<<c, 0>>] = Dots]
         \/ /\ job' = [job EXCEPT !.pc = "entry"]
            /\ sector' = [sector EXCEPT ![<<c, 0>>] = Dots]
  BY DEF DotsStep, Return, Finish, Dots
<1>s. Gone = {} /\ Tree(sector, T, D, {}) /\ Intact(sector, T, D, {})
  BY <1>1, SoundTree
<1>2. /\ job.op = "mkdir" /\ c \in Cluster /\ job \in Jobs /\ job.buf \in Tables
  BY <1>y, <1>1, JobFields DEF Phases
<1>3. /\ \A x \in ChainOf(job.buf, c) :
           /\ job.buf[x] # 0 /\ x \notin D
           /\ \A d \in D : \A q \in Used(sector, d) : x \notin Chain(sector, T, d, q)
      /\ SPC = 1 /\ job.buf[c] = EOC /\ T = job.buf
  BY <1>1, <1>2 DEF Sound, Adds
<1>4. c \in ChainOf(job.buf, c)
  BY <1>2, ChainStart DEF Link
<1> DEFINE S2 == [sector EXCEPT ![<<c, 0>>] = Dots]
<1>5. /\ Tree(S2, T, D, {}) /\ Intact(S2, T, D, {})
      /\ \A d \in D : Used(S2, d) = Used(sector, d)
      /\ \A d \in D : \A q \in Room(d) : Ent(S2, d, q) = Ent(sector, d, q)
  <2>1. PICK s : s = S2
    OBVIOUS
  <2>2. PICK x : x = c
    OBVIOUS
  <2>3. PICK t : t = T
    OBVIOUS
  <2>4. /\ x \in Cluster /\ x \notin D /\ s = [sector EXCEPT ![<<x, 0>>] = Dots]
        /\ \A d \in D : \A q \in Used(sector, d) : x \notin Chain(sector, t, d, q)
    BY <1>2, <1>3, <1>4, <2>1, <2>2, <2>3
  <2>6. Tree(sector, t, D, {}) /\ Intact(sector, t, D, {})
    BY <1>s, <2>3
  <2>9. \A y \in Sectors : y[1] # x => s[y] = sector[y]
    BY <1>t, <2>4 DEF Contents
  <2> HIDE DEF S2, c, T
  <2>10. /\ D \in DirectorySets /\ sector \in Contents /\ x \in Cluster /\ x \notin D
         /\ \A d \in D : \A q \in Used(sector, d) : x \notin Chain(sector, t, d, q)
    BY <1>t, <2>4
  <2>11. Tree(s, t, D, {}) /\ Intact(s, t, D, {})
    BY <2>6, <2>9, <2>10, WrittenOutside
  <2>12. \A d \in D : Used(s, d) = Used(sector, d)
    BY <2>6, <2>9, <2>10, WrittenOutside
  <2>13. \A d \in D : \A q \in Room(d) : Ent(s, d, q) = Ent(sector, d, q)
    BY <2>6, <2>9, <2>10, WrittenOutside
  <2>5. /\ Tree(s, t, D, {}) /\ Intact(s, t, D, {})
        /\ \A d \in D : Used(s, d) = Used(sector, d)
        /\ \A d \in D : \A q \in Room(d) : Ent(s, d, q) = Ent(sector, d, q)
    BY <2>11, <2>12, <2>13
  <2> QED BY <2>1, <2>3, <2>5
<1> HIDE DEF S2
<1>6. CASE job' = Idle
  <2>1. job'.pc = "idle" /\ job'.first = 0 /\ fat'[1] = T
    BY <1>1, <1>6 DEF Idle
  <2>2. Tree(sector', T, D, {}) /\ Intact(sector', T, D, {})
    BY <1>1, <1>s, <1>5 DEF S2
  <2>3. Sound(D)'
    BY <1>t, <1>1, <2>1, <2>2, SoundAtRest
  <2> QED BY <1>1, <1>5, <2>3 DEF S2
<1>7. CASE job' = [job EXCEPT !.pc = "entry"] /\ sector' = S2
  <2>1. /\ job'.pc = "entry" /\ job'.op = "mkdir" /\ job'.buf = job.buf /\ job'.first = c
    BY <1>2, <1>7 DEF Jobs
  <2>2. sector'[<<c, 0>>] = Dots
    <3>1. <<c, 0>> \in Sectors /\ DOMAIN sector = Sectors
      BY <1>t, <1>2, <1>3 DEF Sectors, Contents
    <3> QED BY <1>7, <3>1 DEF S2
  <2>3. \A d \in D : \A q \in Used(sector, d) : Chain(S2, T, d, q) = Chain(sector, T, d, q)
    BY <1>5 DEF Chain, Used
  <2>4. Adds(D)'
    <3>1. \A x \in ChainOf(job.buf, c) :
            /\ job.buf[x] # 0 /\ x \notin D
            /\ \A d \in D : \A q \in Used(S2, d) : x \notin Chain(S2, T, d, q)
      BY <1>3, <1>5, <2>3
    <3>2. sector' = S2 /\ fat'[1] = T
      BY <1>1, <1>7
    <3> QED BY <1>3, <2>1, <2>2, <3>1, <3>2 DEF Adds
  <2>5. Gone' = {} /\ Releases(D)' /\ Grows' /\ Fills' /\ Kept'
    BY <2>1 DEF Gone, Releases, Grows, Fills, Kept
  <2>6. Sound(D)'
    BY <1>t, <1>1, <1>5, <1>7, <2>4, <2>5 DEF Sound
  <2> QED BY <1>1, <1>5, <1>7, <2>6
<1> QED BY <1>1, <1>6, <1>7 DEF S2

(* The first sector of a new directory names nothing. *)
LEMMA DotsAreFree ==
  ASSUME NEW S, NEW c \in Cluster, S[<<c, 0>>] = Dots
  PROVE  /\ Used(S, c) = {}
         /\ \A q \in Room(c) : Ent(S, c, q) = IF q \in {0, 1} THEN DotSlot ELSE EndSlot
<1>1. /\ EPS \in Nat \ {0} /\ 0 \notin Cluster
  BY Geometry
<1>2. \A q \in Room(c) : /\ q \in 0 .. EPS - 1 /\ q \in Nat /\ q % EPS = q
                         /\ q + 1 \in 1 .. EPS /\ Home(c, q) = <<c, 0>>
  BY <1>1 DEF Room, Home
<1>3. \A i \in 1 .. EPS : Dots.slots[i] = IF i \in {1, 2} THEN DotSlot ELSE EndSlot
  <2>1. /\ Dots.slots = [[i \in 1 .. EPS |-> EndSlot] EXCEPT ![1] = DotSlot, ![2] = DotSlot]
    BY DEF Dots, Blank
  <2> QED BY <2>1
<1>4. AsSlots(Dots) = Dots.slots
  BY DEF Dots, Blank, AsSlots
<1>5. ASSUME NEW q \in Room(c)
      PROVE  Ent(S, c, q) = IF q \in {0, 1} THEN DotSlot ELSE EndSlot
  <2>1. Ent(S, c, q) = Dots.slots[q + 1]
    BY <1>2, <1>4 DEF Ent
  <2>2. q + 1 \in {1, 2} <=> q \in {0, 1}
    BY <1>2
  <2>3. q + 1 \in 1 .. EPS
    BY <1>2
  <2> QED BY <1>3, <2>1, <2>2, <2>3
<1>6. DotSlot.kind = "dot" /\ EndSlot.kind = "end"
  BY DEF DotSlot, EndSlot, Entry
<1>7. Used(S, c) = {}
  BY <1>5, <1>6 DEF Used
<1> QED BY <1>5, <1>7

(* The entry that fat_write and fat_mkdir put into the current directory,  *)
(* and the place it goes to.                                               *)
NewEntry == IF job.op = "mkdir"
            THEN Entry("dir", split_83(job.name), job.first, 0, "")
            ELSE Entry("file", split_83(job.name), job.first, job.size, job.tag)
FreePlace(S, d, p) ==
  /\ p \in Room(d) /\ Ent(S, d, p) \in {EndSlot, DelSlot}
  /\ \A q \in 0 .. p - 1 : Ent(S, d, q) \notin {EndSlot, DelSlot}

(* The place that EntryStep chooses.                                       *)
LEMMA FreePlaces ==
  ASSUME NEW T \in Tables, NEW d \in Cluster \cup {0}, Single(T, d), FreeSlots(T, d) # {},
         NEW p, p = Least(FreeSlots(T, d))
  PROVE  FreePlace(sector, d, p)
<1> DEFINE free == FreeSlots(T, d)
<1>1. \A q : q \in free <=> q \in Room(d) /\ Ent(sector, d, q) \in {EndSlot, DelSlot}
  BY SingleDirectory DEF FreeSlots
<1>2. free \in SUBSET Nat
  BY <1>1, PlacesBefore
<1> HIDE DEF free
<1>3. p \in free /\ \A q \in free : p <= q
  BY <1>2, LeastIsLeast DEF free
<1>4. p \in Room(d) /\ p \in Nat /\ \A q \in 0 .. p : q \in Room(d) /\ q \in Nat
  BY <1>1, <1>3, PlacesBefore
<1>5. \A q \in 0 .. p - 1 : q \in 0 .. p /\ ~(p <= q)
  BY <1>4
<1>6. \A q \in 0 .. p - 1 : q \notin free /\ q \in Room(d)
  BY <1>3, <1>4, <1>5
<1> QED BY <1>1, <1>3, <1>6 DEF FreePlace

(* The new entry makes the new chain a part of the tree. *)
LEMMA SoundEntry ==
  ASSUME TInv, NEW D, Sound(D), NEW o, EntryStep(o), NEW E, E = After(D)
  PROVE  /\ Sound(E)' /\ UNCHANGED <<fat, cur, path>>
         /\ job.pc = "entry" /\ job'.pc = "idle" /\ NewEntry \in Slots
         /\ \/ sector' = sector /\ E = D /\ (FreeSlots(fat[1], cur) = {} \/ o # "ok")
            \/ /\ E = IF job.op = "mkdir" THEN D \cup {job.first} ELSE D
               /\ E # D => job.first \in Cluster \ D
               /\ \E p : /\ FreePlace(sector, cur, p)
                         /\ \A d \in Cluster \cup {0} : \A q \in Room(d) :
                              Ent(sector', d, q) = IF d = cur /\ q = p THEN NewEntry
                                                   ELSE Ent(sector, d, q)
<1> DEFINE T == fat[1]
           c == job.first
<1>y. Types /\ Phases
  BY DEF TInv
<1>t. /\ T \in Tables /\ sector \in Contents /\ cur \in Cluster \cup {0} /\ cur \in D
      /\ D \in DirectorySets /\ Single(T, cur)
  BY <1>y, SoundSearch
<1>0. job.pc = "entry" /\ job.op \in {"write", "mkdir"}
  BY <1>y DEF EntryStep, Phases
<1>3. /\ \A x \in ChainOf(T, c) :
           /\ T[x] # 0 /\ x \notin D
           /\ \A d \in D : \A q \in Used(sector, d) : x \notin Chain(sector, T, d, q)
      /\ job.op = "mkdir" => SPC = 1 /\ T[c] = EOC /\ sector[<<c, 0>>] = Dots
      /\ T = job.buf
  BY <1>0 DEF Sound, Adds
<1>p. PICK p : p = Least(FreeSlots(T, cur))
  OBVIOUS
<1>1. /\ UNCHANGED <<fat, cur, path>> /\ job' = Idle
      /\ \/ sector' = sector /\ (FreeSlots(T, cur) = {} \/ o # "ok")
         \/ /\ FreeSlots(T, cur) # {}
            /\ sector' = WithSlot(DirSector(T, cur, p \div EPS), (p % EPS) + 1, NewEntry)
  BY <1>3, <1>p DEF EntryStep, Return, Finish, NewEntry
<1>s. Gone = {} /\ Tree(sector, T, D, {}) /\ Intact(sector, T, D, {})
  BY <1>0, SoundTree
<1>j. job'.pc = "idle" /\ job'.first = 0
  BY <1>1 DEF Idle
<1>f. fat'[1] = T
  BY <1>1
<1>n. NewEntry \in Slots
  <2>1. split_83(job.name) \in Names
    BY <1>y, <1>0, Split83Assumption DEF Phases, split_83
  <2>2. job.op = "mkdir" => c \in Cluster
    BY <1>y DEF Phases
  <2>3. c \in Cluster \cup {0} /\ job.size \in 0 .. MaxSize
    BY <1>y, JobFields
  <2>4. job.op = "write" => job.tag \in Tags
    BY <1>y DEF Phases
  <2> QED BY <1>0, <2>1, <2>2, <2>3, <2>4, NewSlots DEF NewEntry
<1>e. /\ NewEntry.first = c /\ NewEntry.kind = (IF job.op = "mkdir" THEN "dir" ELSE "file")
      /\ NewEntry.kind = "file" => NewEntry.size = job.size /\ NewEntry.tag = job.tag
  BY DEF NewEntry, Entry
<1>4. CASE sector' = sector /\ (FreeSlots(T, cur) = {} \/ o # "ok")
  <2>1. E = D
    BY <1>4 DEF After
  <2>2. Sound(D)'
    BY <1>t, <1>1, <1>s, <1>j, <1>f, <1>4, SoundAtRest
  <2> QED BY <1>0, <1>1, <1>j, <1>n, <1>4, <2>1, <2>2
<1>5. CASE /\ FreeSlots(T, cur) # {}
           /\ sector' = WithSlot(DirSector(T, cur, p \div EPS), (p % EPS) + 1, NewEntry)
  <2> HIDE DEF T
  <2>1. FreePlace(sector, cur, p)
    BY <1>t, <1>p, <1>5, FreePlaces
  <2>2. p \in Room(cur) /\ Ent(sector, cur, p) \in {EndSlot, DelSlot}
    BY <2>1 DEF FreePlace
  <2>3. sector' = WithSlot(Home(cur, p), (p % EPS) + 1, NewEntry)
    BY <1>t, <1>5, <2>2, SingleDirectory
  <2>4. PICK new : new = NewEntry
    OBVIOUS
  <2>5. PICK s : s = WithSlot(Home(cur, p), (p % EPS) + 1, new)
    OBVIOUS
  <2>6. /\ \A d \in Cluster \cup {0} : \A q \in Room(d) :
             Ent(s, d, q) = IF d = cur /\ q = p THEN new ELSE Ent(sector, d, q)
        /\ \A x \in Sectors : x # Home(cur, p) => s[x] = sector[x]
    BY <1>t, <2>2, <2>5, EntryReplaced
  <2>7. sector' = s
    BY <2>3, <2>4, <2>5
  <2>8. p \notin Used(sector, cur)
    <3>1. EndSlot.kind = "end" /\ DelSlot.kind = "del"
      BY DEF EndSlot, DelSlot, Entry
    <3> QED BY <2>2, <3>1 DEF Used
  <2>9. sector' # sector
    <3>1. Ent(s, cur, p) = new /\ new.kind \in {"file", "dir"}
      BY <1>t, <1>e, <2>2, <2>4, <2>6
    <3>2. Ent(sector, cur, p).kind \notin {"file", "dir"}
      BY <2>2, <2>8 DEF Used
    <3> QED BY <2>7, <3>1, <3>2
  <2>10. E = IF job.op = "mkdir" THEN D \cup {c} ELSE D
    BY <1>0, <2>9 DEF After
  <2>11. E = IF new.kind = "dir" THEN D \cup {new.first} ELSE D
    BY <1>0, <1>e, <2>4, <2>10
  <2>12. new.kind = "dir" =>
           /\ new.first \in Cluster /\ SPC = 1 /\ T[new.first] = EOC
           /\ Used(sector, new.first) = {}
    <3> SUFFICES ASSUME new.kind = "dir"
                 PROVE  /\ new.first \in Cluster /\ SPC = 1 /\ T[new.first] = EOC
                        /\ Used(sector, new.first) = {}
      OBVIOUS
    <3>1. job.op = "mkdir" /\ new.first = c
      BY <1>e, <2>4
    <3>2. c \in Cluster
      BY <1>y, <3>1 DEF Phases
    <3>3. SPC = 1 /\ T[c] = EOC /\ sector[<<c, 0>>] = Dots
      BY <1>3, <3>1
    <3>4. Used(sector, c) = {}
      BY <3>2, <3>3, DotsAreFree
    <3> QED BY <3>1, <3>2, <3>3, <3>4
  <2>13. \A x \in ChainOf(T, new.first) :
           /\ T[x] # 0 /\ x \notin D
           /\ \A d \in D : \A q \in Used(sector, d) : x \notin Chain(sector, T, d, q)
    BY <1>3, <1>e, <2>4
  <2>14. new.kind \in {"file", "dir"} /\ new \in Slots
    BY <1>e, <1>n, <2>4
  <2>15. new.kind = "file" => Holds(sector, T, new.first, new.tag, new.size)
    <3>1. job.op = "write" => Holds(sector, job.buf, c, job.tag, job.k) /\ job.k = job.size
      BY <1>0 DEF Sound, Fills
    <3> QED BY <1>0, <1>3, <1>e, <2>4, <3>1
  <2> HIDE DEF c
  <2>16. E \in DirectorySets /\ Tree(s, T, E, {}) /\ Intact(s, T, E, {})
    <3>1. PICK h : h = cur
      OBVIOUS
    <3>2. /\ h \in D /\ p \in Room(h) /\ p \notin Used(sector, h)
          /\ \A d \in Cluster \cup {0} : \A q \in Room(d) :
               Ent(s, d, q) = IF d = h /\ q = p THEN new ELSE Ent(sector, d, q)
          /\ \A x \in Sectors : x # Home(h, p) => s[x] = sector[x]
      BY <1>t, <2>2, <2>6, <2>8, <3>1
    <3>3. PICK v : v = sector
      OBVIOUS
    <3>4. /\ E \in DirectorySets /\ Tree(s, T, E, {})
          /\ /\ Intact(sector, T, D, {})
             /\ new.kind = "file" => Holds(sector, T, new.first, new.tag, new.size)
             => Intact(s, T, E, {})
      BY <1>t, <1>s, <2>11, <2>12, <2>13, <2>14, <3>2, TreeAdded
    <3> QED BY <1>s, <2>15, <3>4
  <2>17. cur' \in E
    BY <1>t, <1>1, <2>10
  <2>18. Sound(E)'
    BY <1>f, <1>j, <2>7, <2>16, <2>17, SoundAtRest
  <2>19. E # D => c \in Cluster \ D
    <3>1. c \in Cluster => c \in ChainOf(T, c)
      BY <1>t, ChainStart DEF Link
    <3>2. job.op = "mkdir" => c \in Cluster
      BY <1>y DEF Phases, c
    <3>3. new.first = c
      BY <1>e, <2>4 DEF c
    <3> QED BY <2>10, <2>13, <3>1, <3>2, <3>3 DEF c
  <2>20. \A d \in Cluster \cup {0} : \A q \in Room(d) :
           Ent(sector', d, q) = IF d = cur /\ q = p THEN NewEntry ELSE Ent(sector, d, q)
    BY <2>4, <2>6, <2>7
  <2> QED BY <1>0, <1>1, <1>j, <1>n, <2>1, <2>10, <2>18, <2>19, <2>20 DEF c
<1> QED BY <1>1, <1>4, <1>5

(* The sectors of a file one after the other, and the clusters they are in. *)
LEMMA NextSector ==
  ASSUME NEW k \in Nat \ {0}, NEW m \in Nat \ {0}
  PROVE  /\ k % m = 0 => k \div m = (k - 1) \div m + 1
         /\ k % m # 0 => k \div m = (k - 1) \div m
         /\ \A i \in 0 .. k - 1 : /\ i \div m \in 0 .. (k - 1) \div m
                                  /\ i % m \in 0 .. m - 1
                                  /\ i \div m = k \div m => i % m # k % m
         /\ 0 \div m = 0 /\ 0 % m = 0
<1> DEFINE q == (k - 1) \div m
           r == (k - 1) % m
<1>1. q \in Nat /\ r \in 0 .. m - 1 /\ k = q * m + r + 1
  OBVIOUS
<1> HIDE DEF q, r
<1>2. CASE r + 1 < m
  <2>1. k = q * m + (r + 1) /\ r + 1 \in 0 .. m - 1
    BY <1>1, <1>2
  <2>2. k \div m = q /\ k % m = r + 1
    BY <1>1, <2>1, RowAndPlace
  <2> QED BY <1>1, <2>2 DEF q
<1>3. CASE ~(r + 1 < m)
  <2>1. r + 1 = m
    BY <1>1, <1>3
  <2>2. q + 1 \in Nat /\ (q + 1) * m = q * m + m /\ 0 \in 0 .. m - 1
    BY <1>1
  <2>3. k = (q + 1) * m + 0
    BY <1>1, <2>1, <2>2
  <2>4. k \div m = q + 1 /\ k % m = 0
    BY <2>2, <2>3, RowAndPlace
  <2> QED BY <1>1, <2>4 DEF q
<1>4. (k % m = 0 => k \div m = q + 1) /\ (k % m # 0 => k \div m = q)
  BY <1>2, <1>3 DEF q
<1>5. ASSUME NEW i \in 0 .. k - 1
      PROVE  /\ i \div m \in 0 .. q /\ i % m \in 0 .. m - 1
             /\ i \div m = k \div m => i % m # k % m
  <2>1. i \in Nat /\ k - 1 \in Nat /\ i <= k - 1
    OBVIOUS
  <2>2. i \div m \in Nat /\ i % m \in 0 .. m - 1
    BY <2>1
  <2>3. i \div m <= (k - 1) \div m
    BY <2>1
  <2>4. i = (i \div m) * m + (i % m) /\ k = (k \div m) * m + (k % m)
    OBVIOUS
  <2>5. i \div m = k \div m => i % m # k % m
    BY <2>1, <2>4
  <2> QED BY <1>1, <2>2, <2>3, <2>5 DEF q
<1>6. 0 \div m = 0 /\ 0 % m = 0
  OBVIOUS
<1> QED BY <1>4, <1>5, <1>6 DEF q

(* A turn of the loop of fat_write: the file that is built in memory grows *)
(* by one sector, at the start of a fresh cluster or in the last one.      *)
Turn(a, b, F, k, first, prev, c, first2, S, S2, tag) ==
  /\ a \in Tables /\ b \in Tables /\ F \in SUBSET Cluster
  /\ \A x \in F : /\ a[x] # 0 /\ (a[x] = EOC \/ a[x] \in F)
                  /\ a[x] \in Cluster => a[x] > x
  /\ k \in Nat /\ c \in Cluster
  /\ k # 0 => /\ first \in F /\ prev \in F /\ a[prev] = EOC
              /\ (k - 1) \div SPC \in 0 .. NC
              /\ Follow(a, first)[(k - 1) \div SPC] = prev
  /\ k % SPC = 0 => /\ a[c] = 0 /\ b[c] = EOC
                    /\ k # 0 => b[prev] = c
                    /\ \A x \in Cluster : x # c /\ (k = 0 \/ x # prev) => b[x] = a[x]
  /\ k % SPC # 0 => c = prev /\ b = a
  /\ first2 = IF k = 0 THEN c ELSE first
  /\ Holds(S, a, first, tag, k)
  /\ S2[<<c, k % SPC>>] = [tag |-> tag, k |-> k]
  /\ \A x \in Cluster, i \in 0 .. SPC - 1 :
       <<x, i>> # <<c, k % SPC>> => S2[<<x, i>>] = S[<<x, i>>]

(* After a turn the chain holds one more sector, in its last cluster.      *)
LEMMA FileGrows ==
  ASSUME NEW a, NEW b, NEW F, NEW k, NEW first, NEW prev, NEW c, NEW first2,
         NEW S, NEW S2, NEW tag, Turn(a, b, F, k, first, prev, c, first2, S, S2, tag)
  PROVE  /\ first2 \in F \cup {c} /\ b[c] = EOC
         /\ \A x \in F \cup {c} : b[x] = EOC \/ b[x] \in F \cup {c}
         /\ k \div SPC \in 0 .. NC /\ Follow(b, first2)[k \div SPC] = c
         /\ Holds(S2, b, first2, tag, k + 1)
<1> USE DEF Turn
<1>n. NC \in Nat /\ SPC \in Nat \ {0}
  BY Geometry
<1>1. CASE k = 0
  <2>1. 0 \div SPC = 0 /\ 0 % SPC = 0 /\ 0 \in 0 .. NC
    BY <1>n
  <2>2. /\ first2 = c /\ b[c] = EOC
        /\ \A x \in Cluster : x # c => b[x] = a[x]
    BY <1>1, <2>1
  <2>3. Follow(b, first2)[0] = c
    BY <2>2, FollowRec DEF Link
  <2>4. Holds(S2, b, first2, tag, k + 1)
    <3>1. 0 .. (k + 1) - 1 = {0}
      BY <1>1
    <3>2. S2[<<c, 0>>] = [tag |-> tag, k |-> 0]
      BY <1>1, <2>1
    <3> QED BY <2>1, <2>3, <3>1, <3>2 DEF Holds
  <2> QED BY <1>1, <2>1, <2>2, <2>3, <2>4
<1>2. CASE k # 0
  <2> DEFINE n == (k - 1) \div SPC
  <2>1. /\ first \in F /\ prev \in F /\ a[prev] = EOC /\ n \in 0 .. NC
        /\ Follow(a, first)[n] = prev /\ first2 = first /\ first \in Link
    BY <1>2 DEF Link
  <2>2. ChainOf(a, first) \subseteq F
    <3>1. \A x \in F : x \in Cluster /\ a[x] \in Cluster => a[x] \in F
      BY Geometry
    <3> QED BY <2>1, <3>1, ChainStaysIn
  <2>c. Climbs(a, first)
    BY <2>2 DEF Climbs
  <2>3. /\ k % SPC = 0 => k \div SPC = n + 1
        /\ k % SPC # 0 => k \div SPC = n
        /\ \A i \in 0 .. k - 1 : /\ i \div SPC \in 0 .. n
                                 /\ i % SPC \in 0 .. SPC - 1
                                 /\ i \div SPC = k \div SPC => i % SPC # k % SPC
    BY <1>n, <1>2, NextSector
  <2>4. \A i \in 0 .. k - 1 :
          /\ i \div SPC \in 0 .. NC /\ Follow(a, first)[i \div SPC] \in Cluster
          /\ S[<<Follow(a, first)[i \div SPC], i % SPC>>] = [tag |-> tag, k |-> i]
    BY DEF Holds
  <2> HIDE DEF n
  <2>5. CASE k % SPC = 0
    <3>1. /\ a[c] = 0 /\ b[c] = EOC /\ b[prev] = c
          /\ \A x \in Cluster : x # prev /\ x # c => b[x] = a[x]
      BY <1>2, <2>5
    <3>2. \A x \in ChainOf(a, first) : a[x] # 0
      BY <2>2
    <3>3. /\ n + 1 \in 0 .. NC
          /\ \A i \in 0 .. n : Follow(b, first)[i] = Follow(a, first)[i]
          /\ Follow(b, first)[n + 1] = c
      BY <2>1, <2>c, <3>1, <3>2, ChainExtended
    <3>4. c \notin F
      BY <3>1
    <3>5. \A x \in F \cup {c} : b[x] = EOC \/ b[x] \in F \cup {c}
      BY <3>1, <3>4
    <3>6. ASSUME NEW i \in 0 .. (k + 1) - 1
          PROVE  /\ i \div SPC \in 0 .. NC /\ Follow(b, first)[i \div SPC] \in Cluster
                 /\ S2[<<Follow(b, first)[i \div SPC], i % SPC>>] = [tag |-> tag, k |-> i]
      <4>1. CASE i = k
        <5>1. i \div SPC = n + 1
          BY <2>3, <2>5, <4>1
        <5> QED BY <3>3, <4>1, <5>1
      <4>2. CASE i # k
        <5>1. i \in 0 .. k - 1
          BY <4>2
        <5> DEFINE y == Follow(a, first)[i \div SPC]
        <5>2. /\ y \in Cluster /\ y \in ChainOf(a, first)
              /\ S[<<y, i % SPC>>] = [tag |-> tag, k |-> i] /\ i \div SPC \in 0 .. NC
          BY <2>4, <5>1 DEF ChainOf
        <5>3. y # c
          BY <3>1, <3>2, <5>2
        <5>4. Follow(b, first)[i \div SPC] = y /\ i % SPC \in 0 .. SPC - 1
          BY <2>3, <3>3, <5>1
        <5> HIDE DEF y
        <5>5. S2[<<y, i % SPC>>] = S[<<y, i % SPC>>]
          BY <5>2, <5>3, <5>4
        <5> QED BY <5>2, <5>4, <5>5
      <4> QED BY <4>1, <4>2
    <3>7. Holds(S2, b, first2, tag, k + 1)
      BY <2>1, <3>6 DEF Holds
    <3>8. k \div SPC = n + 1
      BY <2>3, <2>5
    <3> QED BY <2>1, <3>1, <3>3, <3>5, <3>7, <3>8
  <2>6. CASE k % SPC # 0
    <3>1. c = prev /\ b = a /\ k \div SPC = n
      BY <2>3, <2>6
    <3>2. ASSUME NEW i \in 0 .. (k + 1) - 1
          PROVE  /\ i \div SPC \in 0 .. NC /\ Follow(a, first)[i \div SPC] \in Cluster
                 /\ S2[<<Follow(a, first)[i \div SPC], i % SPC>>] = [tag |-> tag, k |-> i]
      <4>1. CASE i = k
        BY <2>1, <3>1, <4>1
      <4>2. CASE i # k
        <5>1. i \in 0 .. k - 1
          BY <4>2
        <5> DEFINE y == Follow(a, first)[i \div SPC]
        <5>2. /\ y \in Cluster /\ i \div SPC \in 0 .. n /\ i % SPC \in 0 .. SPC - 1
              /\ S[<<y, i % SPC>>] = [tag |-> tag, k |-> i] /\ i \div SPC \in 0 .. NC
              /\ i \div SPC = n => i % SPC # k % SPC
          BY <2>3, <2>4, <3>1, <5>1
        <5>3. i \div SPC # n => y # c
          <6> SUFFICES ASSUME i \div SPC # n PROVE y # c
            OBVIOUS
          <6>1. i \div SPC \in 0 .. n - 1
            BY <2>1, <5>2
          <6>2. y < prev
            BY <2>1, <2>c, <6>1, ChainClimbs
          <6>3. prev \in Int
            BY <2>1 DEF Cluster
          <6> HIDE DEF y
          <6> QED BY <3>1, <6>2, <6>3
        <5> HIDE DEF y
        <5>4. <<y, i % SPC>> # <<c, k % SPC>>
          BY <5>2, <5>3
        <5>5. S2[<<y, i % SPC>>] = S[<<y, i % SPC>>]
          BY <5>2, <5>4
        <5> QED BY <5>2, <5>5 DEF y
      <4> QED BY <4>1, <4>2
    <3>3. Holds(S2, b, first2, tag, k + 1)
      BY <2>1, <3>1, <3>2 DEF Holds
    <3> QED BY <2>1, <3>1, <3>3
  <2> QED BY <2>5, <2>6
<1> QED BY <1>1, <1>2

(* The chain in memory stays as it is, or is longer by a free cluster.     *)
Longer ==
  /\ job'.pc \in {"data", "putfat"} /\ job'.prev \in Cluster
  /\ job'.first = IF job.k = 0 THEN job'.prev ELSE job.first
  /\ \/ job.k # 0 /\ job'.prev = job.prev /\ job'.buf = job.buf
     \/ /\ job.buf[job'.prev] = 0
        /\ job.k # 0 => job'.buf[job.prev] = job'.prev
        /\ \A x \in Cluster : x # job'.prev /\ (job.k = 0 \/ x # job.prev) =>
             job'.buf[x] = job.buf[x]

(* A turn of the loop of fat_write: the clusters it takes and the sector   *)
(* it writes are no part of the tree.                                      *)
LEMMA SoundData ==
  ASSUME TInv, TInv', Rising, NEW D, Sound(D), NEW o, DataStep(o)
  PROVE  /\ Sound(D)' /\ UNCHANGED <<fat, cur, path>>
         /\ job' = Idle \/ Longer
         /\ \A d \in D : \A q \in Room(d) : Ent(sector', d, q) = Ent(sector, d, q)
<1> DEFINE T == fat[1]
           fresh == job.k % SPC = 0
           c == IF fresh THEN fat_find_free_cluster(job.buf) ELSE job.prev
           b == job'.buf
<1>y. Types /\ Phases /\ Types'
  BY DEF TInv
<1>t. /\ T \in Tables /\ sector \in Contents /\ cur \in D /\ D \in DirectorySets
  BY <1>y, SoundSearch
<1>j. /\ job \in Jobs /\ job.buf \in Tables /\ job.k \in Nat /\ job.size \in Nat
      /\ job.first \in Cluster \cup {0}
  BY <1>y, JobFields
<1>b. b \in Tables
  BY <1>y DEF Types, Jobs
<1>e. EOC # 0 /\ EOC \in Link /\ NC \in Nat /\ SPC \in Nat \ {0} /\ 0 \notin Cluster
      /\ EOC \notin Cluster
  BY Geometry DEF EOC, Link
<1>0. /\ job.pc = "data" /\ job.op = "write" /\ job.w = 0 /\ job.k < job.size
  BY <1>y DEF DataStep, Phases
<1>s. Gone = {} /\ Tree(sector, T, D, {}) /\ Intact(sector, T, D, {})
  BY <1>0, SoundTree
<1>k. \A x \in Cluster : T[x] # 0 => job.buf[x] = T[x]
  BY <1>0 DEF Sound, Kept
<1>g. /\ \A x \in Fresh : job.buf[x] = EOC \/ job.buf[x] \in Fresh
      /\ job.k = 0 => job.first = 0 /\ job.prev = 0
      /\ job.k # 0 => /\ job.first \in Fresh /\ job.prev \in Fresh
                      /\ job.buf[job.prev] = EOC
                      /\ (job.k - 1) \div SPC \in 0 .. NC
                      /\ Follow(job.buf, job.first)[(job.k - 1) \div SPC] = job.prev
  BY <1>0 DEF Sound, Grows
<1>h. Holds(sector, job.buf, job.first, job.tag, job.k)
  BY <1>0 DEF Sound, Fills
<1>f. \A x \in Fresh : x \in Cluster /\ T[x] = 0 /\ job.buf[x] # 0
  BY DEF Fresh
<1>u. \A x \in Fresh : job.buf[x] \in Cluster => job.buf[x] > x
  BY <1>0 DEF Rising
<1>1. /\ UNCHANGED <<fat, cur, path>>
      /\ \/ job' = Idle /\ sector' = sector
         \/ /\ c # 0 /\ job' = Idle
            /\ sector' = [sector EXCEPT ![<<c, job.k % SPC>>] = [tag |-> job.tag, k |-> job.k]]
         \/ /\ c # 0
            /\ sector' = [sector EXCEPT ![<<c, job.k % SPC>>] = [tag |-> job.tag, k |-> job.k]]
            /\ job' = [job EXCEPT
                 !.buf = IF fresh THEN [(IF job.prev # 0 THEN [job.buf EXCEPT ![job.prev] = c]
                                         ELSE job.buf) EXCEPT ![c] = EOC] ELSE @,
                 !.first = IF @ = 0 THEN c ELSE @,
                 !.prev = c,
                 !.k = @ + 1,
                 !.pc = IF job.k + 1 = job.size THEN "putfat" ELSE "data"]
  BY Zenon DEF DataStep, Return, Finish
<1>2. CASE job' = Idle /\ sector' = sector
  <2>1. job'.pc = "idle" /\ job'.first = 0
    BY <1>2 DEF Idle
  <2>2. Sound(D)'
    BY <1>t, <1>1, <1>s, <1>2, <2>1, SoundAtRest
  <2> QED BY <1>1, <1>2, <2>2
<1>3. ASSUME c # 0,
             sector' = [sector EXCEPT ![<<c, job.k % SPC>>] = [tag |-> job.tag, k |-> job.k]]
      PROVE  /\ c \in Cluster /\ T[c] = 0 /\ (fresh => job.buf[c] = 0)
             /\ Tree(sector', T, D, {}) /\ Intact(sector', T, D, {})
             /\ \A d \in D : Used(sector', d) = Used(sector, d)
             /\ \A d \in D : \A q \in Room(d) : Ent(sector', d, q) = Ent(sector, d, q)
             /\ sector'[<<c, job.k % SPC>>] = [tag |-> job.tag, k |-> job.k]
             /\ \A x \in Cluster, i \in 0 .. SPC - 1 :
                  <<x, i>> # <<c, job.k % SPC>> => sector'[<<x, i>>] = sector[<<x, i>>]
  <2>1. c \in Cluster /\ T[c] = 0 /\ (fresh => job.buf[c] = 0)
    <3>1. CASE fresh
      <4>1. c \in Cluster /\ job.buf[c] = 0
        BY <1>3, <1>j, <3>1, FreeCluster
      <4> HIDE DEF c
      <4> QED BY <1>k, <4>1
    <3>2. CASE ~fresh
      <4>1. job.k # 0
        BY <1>e, <3>2
      <4> QED BY <1>f, <1>g, <3>2, <4>1
    <3> QED BY <3>1, <3>2
  <2>2. PICK s : s = sector'
    OBVIOUS
  <2>3. PICK x : x = c
    OBVIOUS
  <2>4. PICK t : t = T
    OBVIOUS
  <2>5. PICK v : v = [tag |-> job.tag, k |-> job.k]
    OBVIOUS
  <2>6. PICK j : j = job.k % SPC
    OBVIOUS
  <2>7. s = [sector EXCEPT ![<<x, j>>] = v] /\ x \in Cluster /\ t[x] = 0
    BY <1>3, <2>1, <2>2, <2>3, <2>4, <2>5, <2>6
  <2>8. <<x, j>> \in Sectors /\ DOMAIN sector = Sectors
    BY <1>t, <1>e, <1>j, <2>6, <2>7 DEF Sectors, Contents
  <2>9. s[<<x, j>>] = v /\ \A y \in Sectors : y # <<x, j>> => s[y] = sector[y]
    BY <2>7, <2>8
  <2>10. \A y \in Sectors : y[1] # x => s[y] = sector[y]
    BY <2>9
  <2>11. Tree(sector, t, D, {}) /\ Intact(sector, t, D, {})
    BY <1>s, <2>4
  <2>12. x \notin D
    BY <1>e, <2>7, <2>11 DEF Tree, Directories
  <2>13. \A d \in D : \A q \in Used(sector, d) : x \notin Chain(sector, t, d, q)
    BY <2>7, <2>11 DEF Tree, Entries
  <2>14. D \in DirectorySets /\ sector \in Contents /\ x \in Cluster
    BY <1>t, <2>7
  <2> HIDE DEF c, T, fresh
  <2>15. Tree(s, t, D, {}) /\ Intact(s, t, D, {})
    BY <2>10, <2>11, <2>12, <2>13, <2>14, WrittenOutside
  <2>16. \A d \in D : Used(s, d) = Used(sector, d)
    BY <2>10, <2>11, <2>12, <2>13, <2>14, WrittenOutside
  <2>17. \A d \in D : \A q \in Room(d) : Ent(s, d, q) = Ent(sector, d, q)
    BY <2>10, <2>11, <2>12, <2>13, <2>14, WrittenOutside
  <2>18. \A y \in Cluster, i \in 0 .. SPC - 1 :
           <<y, i>> # <<x, j>> => s[<<y, i>>] = sector[<<y, i>>]
    BY <2>9 DEF Sectors
  <2> QED BY <2>1, <2>2, <2>3, <2>4, <2>5, <2>6, <2>9, <2>15, <2>16, <2>17, <2>18
<1>4. CASE /\ c # 0 /\ job' = Idle
           /\ sector' = [sector EXCEPT ![<<c, job.k % SPC>>] = [tag |-> job.tag, k |-> job.k]]
  <2>1. job'.pc = "idle" /\ job'.first = 0
    BY <1>4 DEF Idle
  <2>2. /\ Tree(sector', T, D, {}) /\ Intact(sector', T, D, {})
        /\ \A d \in D : \A q \in Room(d) : Ent(sector', d, q) = Ent(sector, d, q)
    BY <1>3, <1>4
  <2>3. Sound(D)'
    BY <1>t, <1>1, <2>1, <2>2, SoundAtRest
  <2>4. job' = Idle /\ UNCHANGED <<fat, cur, path>>
    BY <1>1, <1>4
  <2> HIDE DEF c
  <2> QED BY <2>2, <2>3, <2>4
<1>5. CASE /\ c # 0
           /\ sector' = [sector EXCEPT ![<<c, job.k % SPC>>] = [tag |-> job.tag, k |-> job.k]]
           /\ job' = [job EXCEPT
                !.buf = IF fresh THEN [(IF job.prev # 0 THEN [job.buf EXCEPT ![job.prev] = c]
                                        ELSE job.buf) EXCEPT ![c] = EOC] ELSE @,
                !.first = IF @ = 0 THEN c ELSE @,
                !.prev = c,
                !.k = @ + 1,
                !.pc = IF job.k + 1 = job.size THEN "putfat" ELSE "data"]
  <2>1. /\ c \in Cluster /\ T[c] = 0 /\ (fresh => job.buf[c] = 0)
        /\ Tree(sector', T, D, {}) /\ Intact(sector', T, D, {})
        /\ \A d \in D : Used(sector', d) = Used(sector, d)
        /\ \A d \in D : \A q \in Room(d) : Ent(sector', d, q) = Ent(sector, d, q)
        /\ sector'[<<c, job.k % SPC>>] = [tag |-> job.tag, k |-> job.k]
        /\ \A x \in Cluster, i \in 0 .. SPC - 1 :
             <<x, i>> # <<c, job.k % SPC>> => sector'[<<x, i>>] = sector[<<x, i>>]
    BY <1>3, <1>5
  <2> HIDE DEF c
  <2>2. /\ b = (IF fresh THEN [(IF job.prev # 0 THEN [job.buf EXCEPT ![job.prev] = c]
                                ELSE job.buf) EXCEPT ![c] = EOC] ELSE job.buf)
        /\ job'.first = (IF job.first = 0 THEN c ELSE job.first)
        /\ job'.prev = c /\ job'.k = job.k + 1
        /\ job'.pc = (IF job.k + 1 = job.size THEN "putfat" ELSE "data")
        /\ job'.op = job.op /\ job'.tag = job.tag /\ job'.size = job.size
        /\ job'.w = job.w
    <3> DEFINE bb == IF fresh THEN [(IF job.prev # 0 THEN [job.buf EXCEPT ![job.prev] = c]
                                     ELSE job.buf) EXCEPT ![c] = EOC] ELSE job.buf
               pp == IF job.k + 1 = job.size THEN "putfat" ELSE "data"
    <3>1. job' = [job EXCEPT !.buf = bb, !.first = IF @ = 0 THEN c ELSE @,
                             !.prev = c, !.k = @ + 1, !.pc = pp]
      BY <1>5
    <3> HIDE DEF bb, pp, fresh
    <3>2. /\ b = bb /\ job'.first = (IF job.first = 0 THEN c ELSE job.first)
          /\ job'.prev = c /\ job'.k = job.k + 1 /\ job'.pc = pp
          /\ job'.op = job.op /\ job'.tag = job.tag /\ job'.size = job.size
          /\ job'.w = job.w
      BY <1>j, <3>1 DEF Jobs
    <3> QED BY <3>2 DEF bb, pp
  <2>3. job.prev # 0 <=> job.k # 0
    BY <1>e, <1>f, <1>g
  <2>4. job'.first = IF job.k = 0 THEN c ELSE job.first
    BY <1>e, <1>f, <1>g, <2>2
  <2>5. fresh => /\ b[c] = EOC /\ (job.k # 0 => b[job.prev] = c)
                 /\ \A x \in Cluster : x # c /\ (job.k = 0 \/ x # job.prev) =>
                      b[x] = job.buf[x]
    <3> SUFFICES ASSUME fresh
                 PROVE  /\ b[c] = EOC /\ (job.k # 0 => b[job.prev] = c)
                        /\ \A x \in Cluster : x # c /\ (job.k = 0 \/ x # job.prev) =>
                             b[x] = job.buf[x]
      OBVIOUS
    <3>1. CASE job.k = 0
      <4>1. b = [job.buf EXCEPT ![c] = EOC]
        BY <2>2, <2>3, <3>1
      <4> HIDE DEF b
      <4> QED BY <1>j, <2>1, <3>1, <4>1 DEF Tables
    <3>2. CASE job.k # 0
      <4>1. b = [[job.buf EXCEPT ![job.prev] = c] EXCEPT ![c] = EOC]
        BY <2>2, <2>3, <3>2
      <4>2. job.prev \in Cluster /\ job.prev # c
        BY <1>f, <1>g, <2>1, <3>2
      <4> HIDE DEF b
      <4> QED BY <1>j, <2>1, <3>2, <4>1, <4>2 DEF Tables
    <3> QED BY <3>1, <3>2
  <2>6. ~fresh => b = job.buf /\ c = job.prev /\ c \in Fresh /\ job.k # 0
    <3>1. ~fresh => c = job.prev /\ b = job.buf
      BY <2>2 DEF c
    <3>2. ~fresh => job.k # 0
      BY <1>e
    <3> QED BY <1>g, <3>1, <3>2
  <2>7. /\ job'.first \in Fresh \cup {c} /\ b[c] = EOC
        /\ \A x \in Fresh \cup {c} : b[x] = EOC \/ b[x] \in Fresh \cup {c}
        /\ job.k \div SPC \in 0 .. NC /\ Follow(b, job'.first)[job.k \div SPC] = c
        /\ Holds(sector', b, job'.first, job.tag, job.k + 1)
    <3>1. PICK bb : bb = b
      OBVIOUS
    <3>2. PICK ff : ff = job'.first
      OBVIOUS
    <3>3. PICK ss : ss = sector'
      OBVIOUS
    <3>4. PICK F : F = Fresh
      OBVIOUS
    <3>5. PICK a : a = job.buf
      OBVIOUS
    <3>6. PICK k : k = job.k
      OBVIOUS
    <3>7. PICK first : first = job.first
      OBVIOUS
    <3>8. PICK prev : prev = job.prev
      OBVIOUS
    <3>9. PICK tag : tag = job.tag
      OBVIOUS
    <3>10. PICK x : x = c
      OBVIOUS
    <3>11. /\ a \in Tables /\ bb \in Tables /\ F \in SUBSET Cluster
           /\ \A y \in F : /\ a[y] # 0 /\ (a[y] = EOC \/ a[y] \in F)
                           /\ a[y] \in Cluster => a[y] > y
           /\ k \in Nat /\ x \in Cluster
      BY <1>b, <1>f, <1>g, <1>j, <1>u, <2>1, <3>1, <3>4, <3>5, <3>6, <3>10
    <3>12. k # 0 => /\ first \in F /\ prev \in F /\ a[prev] = EOC
                    /\ (k - 1) \div SPC \in 0 .. NC
                    /\ Follow(a, first)[(k - 1) \div SPC] = prev
      BY <1>g, <3>4, <3>5, <3>6, <3>7, <3>8
    <3>13. k % SPC = 0 =>
             /\ a[x] = 0 /\ bb[x] = EOC
             /\ k # 0 => bb[prev] = x
             /\ \A y \in Cluster : y # x /\ (k = 0 \/ y # prev) => bb[y] = a[y]
      BY <2>1, <2>5, <3>1, <3>5, <3>6, <3>8, <3>10
    <3>14. k % SPC # 0 => x = prev /\ bb = a
      BY <2>6, <3>1, <3>5, <3>6, <3>8, <3>10
    <3>15. /\ ff = IF k = 0 THEN x ELSE first
           /\ Holds(sector, a, first, tag, k)
      BY <1>h, <2>4, <3>2, <3>5, <3>6, <3>7, <3>9, <3>10
    <3>16. /\ ss[<<x, k % SPC>>] = [tag |-> tag, k |-> k]
           /\ \A y \in Cluster, i \in 0 .. SPC - 1 :
                <<y, i>> # <<x, k % SPC>> => ss[<<y, i>>] = sector[<<y, i>>]
      BY <2>1, <3>3, <3>6, <3>9, <3>10
    <3>18. Turn(a, bb, F, k, first, prev, x, ff, sector, ss, tag)
      BY <3>11, <3>12, <3>13, <3>14, <3>15, <3>16 DEF Turn
    <3> HIDE DEF b, T
    <3>17. /\ ff \in F \cup {x} /\ bb[x] = EOC
           /\ \A y \in F \cup {x} : bb[y] = EOC \/ bb[y] \in F \cup {x}
           /\ k \div SPC \in 0 .. NC /\ Follow(bb, ff)[k \div SPC] = x
           /\ Holds(ss, bb, ff, tag, k + 1)
      BY <3>18, FileGrows
    <3> QED BY <3>1, <3>2, <3>3, <3>4, <3>6, <3>9, <3>10, <3>17
  <2>8. \A x \in Cluster :
          /\ T[x] # 0 => b[x] = T[x]
          /\ T[x] = 0 => (b[x] # 0 <=> x \in Fresh \cup {c})
    <3> SUFFICES ASSUME NEW x \in Cluster
                 PROVE  /\ T[x] # 0 => b[x] = T[x]
                        /\ T[x] = 0 => (b[x] # 0 <=> x \in Fresh \cup {c})
      OBVIOUS
    <3>1. CASE x = c
      BY <1>e, <2>1, <2>7, <3>1
    <3>2. CASE x # c /\ ~(job.k # 0 /\ x = job.prev)
      <4>1. b[x] = job.buf[x]
        BY <2>5, <2>6, <3>2
      <4>2. x \in Fresh <=> T[x] = 0 /\ job.buf[x] # 0
        BY DEF Fresh
      <4> HIDE DEF b
      <4> QED BY <1>k, <3>2, <4>1, <4>2
    <3>3. CASE x # c /\ job.k # 0 /\ x = job.prev
      <4>1. x \in Fresh /\ T[x] = 0
        BY <1>f, <1>g, <3>3
      <4>2. b[x] = c
        BY <2>5, <2>6, <3>3
      <4> QED BY <1>e, <2>1, <4>1, <4>2
    <3> QED BY <3>1, <3>2, <3>3
  <2>9. Fresh' = Fresh \cup {c}
    <3>1. Fresh' = {x \in Cluster : T[x] = 0 /\ b[x] # 0}
      BY <1>1 DEF Fresh
    <3> HIDE DEF b, T
    <3> QED BY <1>f, <2>1, <2>8, <3>1
  <2>10. Kept'
    BY <1>1, <2>8 DEF Kept
  <2>11. Grows'
    <3>1. job'.k # 0 /\ job'.k - 1 = job.k
      BY <1>j, <2>2
    <3>2. /\ \A x \in Fresh' : job'.buf[x] = EOC \/ job'.buf[x] \in Fresh'
          /\ job'.first \in Fresh' /\ job'.prev \in Fresh' /\ job'.buf[job'.prev] = EOC
          /\ (job'.k - 1) \div SPC \in 0 .. NC
          /\ Follow(job'.buf, job'.first)[(job'.k - 1) \div SPC] = job'.prev
      BY <2>2, <2>7, <2>9, <3>1
    <3>3. job'.pc # "load"
      BY <2>2
    <3> QED BY <3>1, <3>2, <3>3 DEF Grows
  <2>12. Fills'
    <3>1. Holds(sector', job'.buf, job'.first, job'.tag, job'.k)
      BY <2>2, <2>7
    <3>2. job'.pc # "data" => job'.k = job'.size
      BY <2>2
    <3> QED BY <3>1, <3>2 DEF Fills
  <2>13. \A x \in ChainOf(b, job'.first) :
           /\ b[x] # 0 /\ x \notin D
           /\ \A d \in D : \A q \in Used(sector', d) : x \notin Chain(sector', T, d, q)
    <3>1. ChainOf(b, job'.first) \subseteq Fresh \cup {c}
      <4>1. job'.first \in Fresh \cup {c} /\ job'.first \in Link
        BY <1>f, <2>1, <2>7 DEF Link
      <4>2. \A x \in Fresh \cup {c} : x \in Cluster /\ b[x] \in Cluster => b[x] \in Fresh \cup {c}
        BY <1>e, <2>7
      <4> HIDE DEF b
      <4> QED BY <1>b, <4>1, <4>2, ChainStaysIn
    <3>2. \A x \in Fresh \cup {c} : x \in Cluster /\ x # 0 /\ T[x] = 0 /\ b[x] # 0
      <4>1. \A x \in Fresh \cup {c} : x \in Cluster /\ x # 0 /\ T[x] = 0
        BY <1>e, <1>f, <2>1
      <4> QED BY <2>8, <4>1
    <3>3. \A x \in Cluster : x # 0 /\ T[x] = 0 => x \notin D
      BY <2>1 DEF Tree, Directories
    <3>4. \A x \in Cluster : T[x] = 0 =>
            \A d \in D : \A q \in Used(sector', d) : x \notin Chain(sector', T, d, q)
      BY <2>1 DEF Tree, Entries
    <3> QED BY <3>1, <3>2, <3>3, <3>4
  <2>14. Adds(D)'
    <3>1. \A x \in Cluster : ~(WriteOf(1, x) < 0)
      BY WritesApart, Geometry, IdleJob
    <3>2. job'.pc \in {"data", "putfat"} /\ job'.op # "mkdir" /\ job'.w = 0
      BY <1>0, <2>2
    <3>3. fat'[1] = T
      BY <1>1
    <3>4. \A x \in Cluster : WriteOf(1, x) < job'.w => fat'[1][x] = job'.buf[x]
      BY <3>1, <3>2
    <3> QED BY <2>13, <3>2, <3>3, <3>4 DEF Adds
  <2>15. Gone' = {} /\ Releases(D)'
    BY <2>2 DEF Gone, Releases
  <2>16. Sound(D)'
    BY <1>t, <1>1, <2>1, <2>10, <2>11, <2>12, <2>14, <2>15 DEF Sound
  <2>17. Longer
    <3>1. job'.pc \in {"data", "putfat"} /\ job'.prev \in Cluster /\ job'.prev = c
      BY <2>1, <2>2
    <3>2. job'.first = IF job.k = 0 THEN job'.prev ELSE job.first
      BY <2>4, <3>1
    <3>3. CASE fresh
      <4>1. /\ job.buf[job'.prev] = 0
            /\ job.k # 0 => job'.buf[job.prev] = job'.prev
            /\ \A x \in Cluster : x # job'.prev /\ (job.k = 0 \/ x # job.prev) =>
                 job'.buf[x] = job.buf[x]
        BY <2>1, <2>5, <3>1, <3>3
      <4> QED BY <3>1, <3>2, <4>1 DEF Longer
    <3>4. CASE ~fresh
      <4>1. job.k # 0 /\ job'.prev = job.prev /\ job'.buf = job.buf
        BY <2>6, <3>1, <3>4
      <4> QED BY <3>1, <3>2, <4>1 DEF Longer
    <3> QED BY <3>3, <3>4
  <2> QED BY <1>1, <2>1, <2>16, <2>17
<1> QED BY <1>1, <1>2, <1>4, <1>5

-----------------------------------------------------------------------------
(***************************************************************************)
(* What one step does to the tree: it leaves every entry alone, or changes *)
(* one entry of the current directory; and it stays in that directory,     *)
(* goes back to the root, or enters a directory it finds.                  *)
(***************************************************************************)
Same(D) == \A d \in D : \A q \in Room(d) : Ent(sector', d, q) = Ent(sector, d, q)

Renames(D, E) ==
  /\ E = D /\ job.pc = "idle" /\ job' = Idle
  /\ \E old \in FileNames, new \in Names : \E p :
       /\ First(sector, cur, "file", old, p)
       /\ Changed(p, [Ent(sector, cur, p) EXCEPT !.name = new])

Erases(D, E) ==
  /\ job.pc = "erase" /\ job'.pc \in {"idle", "load"}
  /\ \E p \in Used(sector, cur) :
       /\ Aims(p) /\ Changed(p, DelSlot)
       /\ job.op = "rmdir" <=> Ent(sector, cur, p).kind = "dir"
       /\ E = IF Ent(sector, cur, p).kind = "dir" THEN D \ {Ent(sector, cur, p).first} ELSE D

Enters(D, E) ==
  /\ job.pc = "entry" /\ job'.pc = "idle" /\ NewEntry \in Slots
  /\ E = IF job.op = "mkdir" THEN D \cup {job.first} ELSE D
  /\ E # D => job.first \in Cluster \ D
  /\ \E p : FreePlace(sector, cur, p) /\ Changed(p, NewEntry)

Descends ==
  \E n \in Names : \E p :
    /\ First(sector, cur, "dir", n, p)
    /\ cur' = Ent(sector, cur, p).first /\ path' = Append(path, n)

Effects(D, E) ==
  \/ /\ UNCHANGED <<cur, path>>
     /\ (E = D /\ Same(D)) \/ Renames(D, E) \/ Erases(D, E) \/ Enters(D, E)
  \/ /\ (cur' = 0 /\ path' = <<>>) \/ Descends
     /\ E = D /\ UNCHANGED sector

(* A call of an operation of fat.c. *)
LEMMA SoundCall ==
  ASSUME SPC = 1 \/ DirNames = {}, TInv, NEW D, Sound(D), Call
  PROVE  Sound(D)' /\ Effects(D, D)
<1> DEFINE T == fat[1]
<1>y. Types
  BY DEF TInv
<1>0. job.pc = "idle"
  BY DEF Call, FatInit, fat_delete, fat_rmdir, fat_write, fat_mkdir, fat_rename, fat_cd, fat_cd_up
<1>t. /\ T \in Tables /\ sector \in Contents /\ cur \in Cluster \cup {0} /\ cur \in D
      /\ D \in DirectorySets /\ 0 \in D /\ Single(T, cur)
  BY <1>y, SoundSearch DEF DirectorySets
<1>s. Tree(sector, T, D, {}) /\ Intact(sector, T, D, {})
  BY <1>0, SoundTree
<1>q. UNCHANGED <<sector, cur, path>> => Effects(D, D)
  BY DEF Effects, Same
<1>r. ASSUME UNCHANGED <<fat, sector>>, cur' \in D, job'.pc \in {"idle", "load"},
             job'.pc = "load" => job'.first = 0
      PROVE  Sound(D)'
  BY <1>t, <1>s, <1>r, SoundAtRest
<1>i. Idle.pc = "idle"
  BY DEF Idle
<1>1. ASSUME NEW r \in Reads, FatInit(r) PROVE Sound(D)' /\ Effects(D, D)
  <2>1. UNCHANGED <<fat, sector, cur, path, job>>
    BY <1>1 DEF FatInit, disk
  <2> QED BY <1>0, <1>q, <1>r, <1>t, <2>1
<1>2. ASSUME NEW n \in FileNames, NEW r \in Reads, fat_delete(n, r)
      PROVE  Sound(D)' /\ Effects(D, D)
  <2>1. /\ UNCHANGED <<fat, sector, cur, path>>
        /\ \/ job' = Idle
           \/ /\ Matches(T, cur, "file", n) # {}
              /\ StartRelease("delete", n, "", 0, Least(Matches(T, cur, "file", n)))
    BY <1>2 DEF fat_delete, disk, Finish
  <2>2. CASE job' = Idle
    BY <1>i, <1>q, <1>r, <1>t, <2>1, <2>2
  <2>3. CASE /\ Matches(T, cur, "file", n) # {}
             /\ StartRelease("delete", n, "", 0, Least(Matches(T, cur, "file", n)))
    <3>1. Sound(D)'
      BY <1>y, <1>0, <2>1, <2>3, SoundRelease
    <3> QED BY <1>q, <2>1, <3>1
  <2> QED BY <2>1, <2>2, <2>3
<1>3. ASSUME NEW n \in DirNames, NEW r \in Reads, fat_rmdir(n, r)
      PROVE  Sound(D)' /\ Effects(D, D)
  <2>1. /\ UNCHANGED <<fat, sector, cur, path>>
        /\ \/ job' = Idle
           \/ /\ Matches(T, cur, "dir", n) # {}
              /\ StartRelease("rmdir", n, "", 0, Least(Matches(T, cur, "dir", n)))
    BY <1>3 DEF fat_rmdir, disk, Finish
  <2>2. CASE job' = Idle
    BY <1>i, <1>q, <1>r, <1>t, <2>1, <2>2
  <2>3. CASE /\ Matches(T, cur, "dir", n) # {}
             /\ StartRelease("rmdir", n, "", 0, Least(Matches(T, cur, "dir", n)))
    <3>1. Sound(D)'
      BY <1>y, <1>0, <2>1, <2>3, SoundRelease
    <3> QED BY <1>q, <2>1, <3>1
  <2> QED BY <2>1, <2>2, <2>3
<1>4. ASSUME NEW n \in FileNames, NEW t \in Tags, NEW z \in 0 .. MaxSize, NEW r \in Reads,
             fat_write(n, t, z, r)
      PROVE  Sound(D)' /\ Effects(D, D)
  <2>1. /\ UNCHANGED <<fat, sector, cur, path>>
        /\ \/ job' = [Idle EXCEPT !.pc = "load", !.op = "write",
                                  !.name = n, !.tag = t, !.size = z]
           \/ /\ Matches(T, cur, "file", n) # {}
              /\ StartRelease("write", n, t, z, Least(Matches(T, cur, "file", n)))
    BY <1>4 DEF fat_write, disk
  <2>2. CASE job' = [Idle EXCEPT !.pc = "load", !.op = "write",
                                 !.name = n, !.tag = t, !.size = z]
    <3>1. job'.pc = "load" /\ job'.first = 0
      BY <2>2 DEF Idle
    <3> QED BY <1>q, <1>r, <1>t, <2>1, <3>1
  <2>3. CASE /\ Matches(T, cur, "file", n) # {}
             /\ StartRelease("write", n, t, z, Least(Matches(T, cur, "file", n)))
    <3>1. Sound(D)'
      BY <1>y, <1>0, <2>1, <2>3, SoundRelease
    <3> QED BY <1>q, <2>1, <3>1
  <2> QED BY <2>1, <2>2, <2>3
<1>5. ASSUME NEW n \in DirNames, NEW r \in Reads, fat_mkdir(n, r)
      PROVE  Sound(D)' /\ Effects(D, D)
  <2> DEFINE c == fat_find_free_cluster(T)
  <2>1. /\ UNCHANGED <<fat, sector, cur, path>>
        /\ \/ job' = Idle
           \/ /\ c # 0
              /\ job' = [Idle EXCEPT !.pc = "putfat", !.op = "mkdir", !.name = n,
                                     !.first = c, !.buf = [T EXCEPT ![c] = EOC]]
    BY <1>5 DEF fat_mkdir, disk, Finish
  <2>2. CASE job' = Idle
    BY <1>i, <1>q, <1>r, <1>t, <2>1, <2>2
  <2>3. CASE /\ c # 0
             /\ job' = [Idle EXCEPT !.pc = "putfat", !.op = "mkdir", !.name = n,
                                    !.first = c, !.buf = [T EXCEPT ![c] = EOC]]
    <3>0. SPC = 1
      BY <1>5
    <3>1. Sound(D)'
      BY <1>y, <1>0, <2>1, <2>3, <3>0, SoundMkdir
    <3> QED BY <1>q, <2>1, <3>1
  <2> QED BY <2>1, <2>2, <2>3
<1>6. ASSUME NEW old \in FileNames, NEW new \in FileNames, NEW o \in Outcomes,
             fat_rename(old, new, o)
      PROVE  Sound(D)' /\ Effects(D, D)
  <2>p. PICK p : p = Least(Matches(T, cur, "file", old))
    OBVIOUS
  <2>1. /\ UNCHANGED <<fat, cur, path>> /\ job' = Idle
        /\ \/ sector' = sector
           \/ /\ Matches(T, cur, "file", old) # {}
              /\ sector' = WithSlot(DirSector(T, cur, p \div EPS), (p % EPS) + 1,
                                    [SlotAt(T, cur, p) EXCEPT !.name = split_83(new)])
    BY <1>6, <2>p DEF fat_rename, disk, Finish
  <2>2. CASE sector' = sector
    BY <1>i, <1>q, <1>r, <1>t, <2>1, <2>2
  <2>3. CASE /\ Matches(T, cur, "file", old) # {}
             /\ sector' = WithSlot(DirSector(T, cur, p \div EPS), (p % EPS) + 1,
                                   [SlotAt(T, cur, p) EXCEPT !.name = split_83(new)])
    <3> HIDE DEF T
    <3>1. First(sector, cur, "file", old, p)
      BY <1>t, <2>p, <2>3, SearchFinds
    <3>2. p \in Room(cur)
      BY <3>1 DEF First
    <3>3. PICK m : m = split_83(new)
      OBVIOUS
    <3>4. sector' = WithSlot(Home(cur, p), (p % EPS) + 1,
                             [Ent(sector, cur, p) EXCEPT !.name = m])
      BY <1>t, <2>3, <3>2, <3>3, SingleDirectory
    <3>9. NameWritten(p, m)
      BY <3>4 DEF NameWritten
    <3>10. fat' = fat /\ cur' = cur /\ job' = Idle
      BY <2>1
    <3>5. Sound(D)' /\ Changed(p, [Ent(sector, cur, p) EXCEPT !.name = m])
      BY <1>y, <1>0, <3>1, <3>9, <3>10, SoundRename
    <3>6. m \in Names
      BY <3>3, Split83Assumption DEF split_83, Names
    <3>8. Renames(D, D)
      BY <1>0, <2>1, <3>1, <3>5, <3>6 DEF Renames
    <3> QED BY <2>1, <3>5, <3>8 DEF Effects
  <2> QED BY <2>1, <2>2, <2>3
<1>7. ASSUME NEW n \in DirNames, NEW r \in Reads, fat_cd(n, r)
      PROVE  Sound(D)' /\ Effects(D, D)
  <2>p. PICK p : p = Least(Matches(T, cur, "dir", n))
    OBVIOUS
  <2>1. /\ UNCHANGED <<fat, sector>> /\ job' = Idle
        /\ \/ UNCHANGED <<cur, path>>
           \/ /\ Matches(T, cur, "dir", n) # {}
              /\ cur' = SlotAt(T, cur, p).first /\ path' = Append(path, n)
    BY <1>7, <2>p DEF fat_cd, disk, Finish
  <2>2. CASE UNCHANGED <<cur, path>>
    BY <1>i, <1>q, <1>r, <1>t, <2>1, <2>2
  <2>3. CASE /\ Matches(T, cur, "dir", n) # {}
             /\ cur' = SlotAt(T, cur, p).first /\ path' = Append(path, n)
    <3> HIDE DEF T
    <3>1. First(sector, cur, "dir", n, p)
      BY <1>t, <2>p, <2>3, SearchFinds
    <3>2. p \in Room(cur) /\ p \in Used(sector, cur) /\ Ent(sector, cur, p).kind = "dir"
      BY <3>1 DEF First, Match, Used
    <3>3. cur' = Ent(sector, cur, p).first
      BY <1>t, <2>3, <3>2, SingleDirectory
    <3>4. cur' \in D
      BY <1>t, <1>s, <3>2, <3>3 DEF Tree, Entries
    <3>5. Descends
      BY <2>3, <3>1, <3>3 DEF Descends, Names
    <3>6. Effects(D, D)
      BY <2>1, <3>5 DEF Effects
    <3> QED BY <1>i, <1>r, <2>1, <3>4, <3>6
  <2> QED BY <2>1, <2>2, <2>3
<1>8. CASE fat_cd_up
  <2>1. UNCHANGED <<fat, sector>> /\ job' = Idle /\ cur' = 0 /\ path' = <<>>
    BY <1>8 DEF fat_cd_up, disk, Finish
  <2>2. Effects(D, D)
    BY <2>1 DEF Effects
  <2> QED BY <1>i, <1>r, <1>t, <2>1, <2>2
<1> QED BY <1>1, <1>2, <1>3, <1>4, <1>5, <1>6, <1>7, <1>8 DEF Call

(* Every step keeps the tree, unless it is the crash or the lost write     *)
(* that cuts off a release.                                                *)
LEMMA SoundNext ==
  ASSUME SPC = 1 \/ DirNames = {}, TInv, TInv', Rising, NEW D, Sound(D),
         [Next]_vars, ~torn', NEW E, E = After(D)
  PROVE  Sound(E)' /\ Effects(D, E)
<1> DEFINE T == fat[1]
<1>y. Types /\ Phases
  BY DEF TInv
<1>t. /\ sector \in Contents /\ cur \in Cluster \cup {0} /\ cur \in D
      /\ D \in DirectorySets /\ 0 \in D
  BY <1>y, SoundSearch DEF DirectorySets
<1>e. job.pc \notin {"erase", "entry"} \/ UNCHANGED sector => E = D
  BY DEF After
<1>q. UNCHANGED <<cur, path>> /\ E = D /\ Same(D) => Effects(D, E)
  BY DEF Effects
<1>r. UNCHANGED sector => Same(D)
  BY DEF Same
<1>1. CASE UNCHANGED vars
  <2>1. UNCHANGED <<fat, sector, cur, path, job>>
    BY <1>1 DEF vars
  <2>2. Gone' = Gone /\ (\A p : Aims(p)' <=> Aims(p))
    BY <2>1 DEF Gone, Aims
  <2>3. Releases(D)'
    BY <2>1, <2>2 DEF Sound, Releases
  <2>4. Grows' /\ Fills' /\ Adds(D)' /\ Kept'
    BY <2>1 DEF Sound, Grows, Fresh, Fills, Adds, Kept
  <2>5. Sound(D)'
    BY <2>1, <2>2, <2>3, <2>4 DEF Sound
  <2> QED BY <1>e, <1>q, <1>r, <2>1, <2>5
<1>2. CASE Call
  <2>1. job.pc = "idle"
    BY <1>2 DEF Call, FatInit, fat_delete, fat_rmdir, fat_write, fat_mkdir,
                fat_rename, fat_cd, fat_cd_up
  <2>2. Sound(D)' /\ Effects(D, D)
    BY <1>2, SoundCall
  <2> QED BY <1>e, <2>1, <2>2
<1>3. CASE Crash
  <2>1. /\ UNCHANGED <<fat, sector>> /\ cur' = 0 /\ path' = <<>> /\ job' = Idle
        /\ job.pc # "erase" /\ ~(job.pc = "free" /\ job.w > 0)
    BY <1>3 DEF Crash, disk
  <2>2. Gone = {}
    BY <2>1 DEF Gone
  <2>3. Tree(sector, T, D, {}) /\ Intact(sector, T, D, {})
    BY <2>2 DEF Sound
  <2>4. job'.pc = "idle" /\ cur' \in D
    BY <1>t, <2>1 DEF Idle
  <2>5. Sound(D)'
    BY <1>t, <2>1, <2>3, <2>4, SoundAtRest
  <2>6. Effects(D, D)
    BY <2>1 DEF Effects
  <2> QED BY <1>e, <2>1, <2>5, <2>6
<1>4. ASSUME NEW o \in Outcomes, FreeStep(o) PROVE Sound(E)' /\ Effects(D, E)
  <2>1. job.pc = "free"
    BY <1>4 DEF FreeStep
  <2>2. Sound(D)' /\ UNCHANGED <<sector, cur, path>>
    BY <1>4, SoundFree
  <2> QED BY <1>e, <1>q, <1>r, <2>1, <2>2
<1>5. ASSUME NEW o \in Outcomes, EraseStep(o) PROVE Sound(E)' /\ Effects(D, E)
  <2>1. job.pc = "erase"
    BY <1>5 DEF EraseStep
  <2>2. /\ Sound(E)' /\ UNCHANGED <<fat, cur, path>> /\ job'.pc \in {"idle", "load"}
        /\ \E p \in Used(sector, cur) :
             /\ Aims(p) /\ (job.op = "rmdir" <=> Ent(sector, cur, p).kind = "dir")
             /\ E = IF Ent(sector, cur, p).kind = "dir"
                    THEN D \ {Ent(sector, cur, p).first} ELSE D
             /\ \A d \in Cluster \cup {0} : \A q \in Room(d) :
                  Ent(sector', d, q) = IF d = cur /\ q = p THEN DelSlot
                                       ELSE Ent(sector, d, q)
    BY <1>5, SoundErase
  <2>3. Erases(D, E)
    <3>1. PICK p \in Used(sector, cur) :
             /\ Aims(p) /\ (job.op = "rmdir" <=> Ent(sector, cur, p).kind = "dir")
             /\ E = IF Ent(sector, cur, p).kind = "dir"
                    THEN D \ {Ent(sector, cur, p).first} ELSE D
             /\ \A d \in Cluster \cup {0} : \A q \in Room(d) :
                  Ent(sector', d, q) = IF d = cur /\ q = p THEN DelSlot
                                       ELSE Ent(sector, d, q)
      BY <2>2
    <3>2. p \in Room(cur)
      BY DEF Used
    <3>3. Changed(p, DelSlot)
      BY <3>1, <3>2 DEF Changed
    <3> QED BY <2>1, <2>2, <3>1, <3>3 DEF Erases
  <2> QED BY <2>2, <2>3 DEF Effects
<1>6. ASSUME NEW r \in Reads, LoadStep(r) PROVE Sound(E)' /\ Effects(D, E)
  <2>1. job.pc = "load"
    BY <1>6 DEF LoadStep
  <2>2. Sound(D)' /\ UNCHANGED <<fat, sector, cur, path>>
    BY <1>6, SoundLoad
  <2> QED BY <1>e, <1>q, <1>r, <2>1, <2>2
<1>7. ASSUME NEW o \in Outcomes, DataStep(o) PROVE Sound(E)' /\ Effects(D, E)
  <2>1. job.pc = "data"
    BY <1>7 DEF DataStep
  <2>2. /\ Sound(D)' /\ UNCHANGED <<fat, cur, path>>
        /\ \A d \in D : \A q \in Room(d) : Ent(sector', d, q) = Ent(sector, d, q)
    BY <1>7, SoundData
  <2> QED BY <1>e, <1>q, <2>1, <2>2 DEF Same
<1>8. ASSUME NEW o \in Outcomes, PutFatStep(o) PROVE Sound(E)' /\ Effects(D, E)
  <2>1. job.pc = "putfat"
    BY <1>8 DEF PutFatStep
  <2>2. Sound(D)' /\ UNCHANGED <<sector, cur, path>>
    BY <1>8, SoundPutFat
  <2> QED BY <1>e, <1>q, <1>r, <2>1, <2>2
<1>9. ASSUME NEW o \in Outcomes, DotsStep(o) PROVE Sound(E)' /\ Effects(D, E)
  <2>1. job.pc = "dots"
    BY <1>9 DEF DotsStep
  <2>2. /\ Sound(D)' /\ UNCHANGED <<fat, cur, path>>
        /\ \A d \in D : \A q \in Room(d) : Ent(sector', d, q) = Ent(sector, d, q)
    BY <1>9, SoundDots
  <2> QED BY <1>e, <1>q, <2>1, <2>2 DEF Same
<1>10. ASSUME NEW o \in Outcomes, EntryStep(o) PROVE Sound(E)' /\ Effects(D, E)
  <2>1. /\ Sound(E)' /\ UNCHANGED <<fat, cur, path>>
        /\ job.pc = "entry" /\ job'.pc = "idle" /\ NewEntry \in Slots
        /\ \/ sector' = sector /\ E = D /\ (FreeSlots(fat[1], cur) = {} \/ o # "ok")
           \/ /\ E = IF job.op = "mkdir" THEN D \cup {job.first} ELSE D
              /\ E # D => job.first \in Cluster \ D
              /\ \E p : /\ FreePlace(sector, cur, p)
                        /\ \A d \in Cluster \cup {0} : \A q \in Room(d) :
                             Ent(sector', d, q) = IF d = cur /\ q = p THEN NewEntry
                                                  ELSE Ent(sector, d, q)
    BY <1>10, SoundEntry
  <2>2. CASE sector' = sector /\ E = D
    BY <1>q, <1>r, <2>1, <2>2
  <2>3. CASE /\ E = IF job.op = "mkdir" THEN D \cup {job.first} ELSE D
             /\ E # D => job.first \in Cluster \ D
             /\ \E p : /\ FreePlace(sector, cur, p)
                       /\ \A d \in Cluster \cup {0} : \A q \in Room(d) :
                            Ent(sector', d, q) = IF d = cur /\ q = p THEN NewEntry
                                                 ELSE Ent(sector, d, q)
    <3>1. PICK p : /\ FreePlace(sector, cur, p)
                   /\ \A d \in Cluster \cup {0} : \A q \in Room(d) :
                        Ent(sector', d, q) = IF d = cur /\ q = p THEN NewEntry
                                             ELSE Ent(sector, d, q)
      BY <2>3
    <3>2. Changed(p, NewEntry)
      BY <3>1 DEF Changed, FreePlace
    <3>3. Enters(D, E)
      BY <2>1, <2>3, <3>1, <3>2 DEF Enters
    <3> QED BY <2>1, <3>3 DEF Effects
  <2> QED BY <2>1, <2>2, <2>3
<1>11. CASE EntryReadError
  <2>1. /\ UNCHANGED <<fat, sector, cur, path>> /\ job' = Idle /\ job.pc = "entry"
    BY <1>11 DEF EntryReadError, disk, Return, Finish
  <2>2. Tree(sector, T, D, {}) /\ Intact(sector, T, D, {}) /\ job'.pc = "idle"
    BY <2>1, SoundTree DEF Idle
  <2>3. Sound(D)'
    BY <1>t, <2>1, <2>2, SoundAtRest
  <2> QED BY <1>e, <1>q, <1>r, <2>1, <2>3
<1> QED BY <1>1, <1>2, <1>3, <1>4, <1>5, <1>6, <1>7, <1>8, <1>9, <1>10, <1>11
        DEF Next, Step

(* The new volume has a root directory that is empty. *)
LEMMA SoundInit ==
  ASSUME Init
  PROVE  Sound({0}) /\ \A d \in Cluster \cup {0} : \A p \in Room(d) : Ent(sector, d, p) = EndSlot
<1>1. /\ sector = [x \in Sectors |-> Blank] /\ cur = 0 /\ job = Idle
  BY DEF Init
<1>2. job.pc = "idle"
  BY <1>1 DEF Idle
<1>3. AsSlots(Blank) = [i \in 1 .. EPS |-> EndSlot]
  BY DEF AsSlots, Blank
<1>4. \A d \in Cluster \cup {0} : \A p \in Room(d) : Ent(sector, d, p) = EndSlot
  <2> SUFFICES ASSUME NEW d \in Cluster \cup {0}, NEW p \in Room(d)
               PROVE  Ent(sector, d, p) = EndSlot
    OBVIOUS
  <2>1. Home(d, p) \in Sectors /\ (p % EPS) + 1 \in 1 .. EPS
    BY Places
  <2>2. sector[Home(d, p)] = Blank
    BY <1>1, <2>1
  <2> QED BY <1>3, <2>1, <2>2 DEF Ent
<1>5. Used(sector, 0) = {}
  <2>1. EndSlot.kind = "end"
    BY DEF EndSlot, Entry
  <2> QED BY <1>4, <2>1 DEF Used
<1>6. Tree(sector, fat[1], {0}, {}) /\ Intact(sector, fat[1], {0}, {})
  BY <1>5 DEF Tree, Directories, Entries, Apart, Intact, Single
<1>7. Gone = {}
  BY <1>2 DEF Gone
<1>8. Releases({0}) /\ Grows /\ Fills /\ Adds({0}) /\ Kept
  BY <1>2 DEF Releases, Grows, Fills, Adds, Kept
<1>9. {0} \in DirectorySets /\ cur \in {0}
  BY <1>1 DEF DirectorySets
<1> QED BY <1>4, <1>6, <1>7, <1>8, <1>9 DEF Sound

-----------------------------------------------------------------------------
(***************************************************************************)
(* What users reach is a part of the tree.                                 *)
(***************************************************************************)

(* A recursion that stays in a set. *)
StaysIn(F, n, U) == \A i \in 1 .. n : F[i] \in [U -> U]

(* A function that Recursive defines stays in a set that every F[i] maps   *)
(* into itself.                                                            *)
LEMMA RecursionWithin ==
  ASSUME NEW n \in Nat, NEW U, NEW a \in U, NEW F, StaysIn(F, n, U)
  PROVE  \E f \in [0 .. n -> U] : f[0] = a /\ \A i \in 1 .. n : f[i] = F[i][f[i - 1]]
<1>1. PICK f : Recursive(f, n, a, F)
  BY RecursionExists
<1>2. /\ f = [i \in 0 .. n |-> f[i]] /\ f[0] = a
      /\ \A i \in 1 .. n : f[i] = F[i][f[i - 1]]
  <2>1. \A i \in 0 .. n : f[i] = IF i = 0 THEN a ELSE F[i][f[i - 1]]
    BY <1>1, Zenon DEF Recursive
  <2>2. f = [i \in 0 .. n |-> f[i]]
    BY <1>1 DEF Recursive
  <2>3. 0 \in 0 .. n /\ \A i \in 1 .. n : i \in 0 .. n /\ i # 0
    OBVIOUS
  <2>4. f[0] = a /\ \A i \in 1 .. n : f[i] = F[i][f[i - 1]]
    BY <2>1, <2>3, Zenon
  <2> QED BY <2>2, <2>4
<1>7. f[0] = a /\ \A i \in 1 .. n : f[i] = F[i][f[i - 1]]
  BY <1>2
<1> DEFINE P == {i \in 0 .. n : f[i] \in U}
<1>3. 0 \in P
  BY <1>7
<1>4. ASSUME NEW i \in 1 .. n, i - 1 \in P PROVE i \in P
  <2>1. f[i - 1] \in U /\ F[i] \in [U -> U] /\ f[i] = F[i][f[i - 1]] /\ i \in 0 .. n
    BY <1>4, <1>7 DEF StaysIn
  <2> QED BY <2>1
<1>5. \A i \in 0 .. n : i \in P
  <2> HIDE DEF P
  <2> QED BY <1>3, <1>4, SetInduction
<1>6. f \in [0 .. n -> U]
  <2>1. \A i \in 0 .. n : f[i] \in U
    BY <1>5
  <2>2. f = [i \in 0 .. n |-> f[i]]
    BY <1>2
  <2> QED BY <2>1, <2>2
<1> QED BY <1>2, <1>6

(* What users see of a directory is in use, and its subdirectories are     *)
(* directories of the tree.                                                *)
Kids(d) == {SlotAt(fat[1], d, p).first :
              p \in {q \in Visible(fat[1], d) : SlotAt(fat[1], d, q).kind = "dir"}}

(* The subdirectories that users see of a directory of the tree are in it. *)
LEMMA KidsInTree ==
  ASSUME Types, NEW D, Sound(D), NEW d \in D
  PROVE  /\ Kids(d) \subseteq D
         /\ \A p \in Listed(fat[1], d) : p \in Used(sector, d)
         /\ \A p \in Visible(fat[1], d) :
              p \in Room(d) /\ SlotAt(fat[1], d, p) = Ent(sector, d, p)
<1> DEFINE T == fat[1]
<1>1. T \in Tables /\ d \in Cluster \cup {0} /\ Single(T, d)
  BY SoundSearch
<1>2. Entries(sector, T, D, Gone)
  BY DEF Sound, Tree
<1> HIDE DEF T
<1>3. \A p \in Visible(T, d) : p \in Room(d) /\ SlotAt(T, d, p) = Ent(sector, d, p)
  BY <1>1, Seen, SingleDirectory
<1>4. \A p \in Listed(T, d) : p \in Used(sector, d)
  BY <1>3 DEF Listed, Used
<1>5. ASSUME NEW p \in Visible(T, d), SlotAt(T, d, p).kind = "dir"
      PROVE  SlotAt(T, d, p).first \in D
  <2>1. p \in Used(sector, d) /\ SlotAt(T, d, p) = Ent(sector, d, p)
    BY <1>3, <1>5 DEF Used
  <2> QED BY <1>2, <1>5, <2>1 DEF Entries
<1>6. Kids(d) \subseteq D
  BY <1>5 DEF Kids, T
<1> QED BY <1>3, <1>4, <1>6 DEF T

(* The levels of the tree that Dirs collects. *)
LEMMA DirsRec ==
  ASSUME Types, NEW D, Sound(D)
  PROVE  \E r \in [0 .. NC -> SUBSET D] :
           /\ r[0] = {0} /\ r[NC] = Dirs
           /\ \A i \in 1 .. NC : r[i] = r[i - 1] \cup UNION {Kids(d) : d \in r[i - 1]}
<1> DEFINE next == [X \in SUBSET D |-> X \cup UNION {Kids(d) : d \in X}]
           F == [i \in 1 .. NC |-> next]
           Def(g) == g = [i \in 0 .. NC |->
                            IF i = 0 THEN {0}
                            ELSE g[i - 1] \cup UNION {Kids(d) : d \in g[i - 1]}]
           Like(g) == /\ g \in [0 .. NC -> SUBSET D] /\ g[0] = {0}
                      /\ \A i \in 1 .. NC :
                           g[i] = g[i - 1] \cup UNION {Kids(d) : d \in g[i - 1]}
<1>n. NC \in Nat /\ 0 \in 0 .. NC /\ \A i \in 1 .. NC : i \in 0 .. NC /\ i - 1 \in 0 .. NC /\ i # 0
  BY Geometry
<1>k. /\ {0} \in SUBSET D
      /\ \A X \in SUBSET D : X \cup UNION {Kids(d) : d \in X} \in SUBSET D
  <2>1. 0 \in D
    BY SoundSearch DEF DirectorySets
  <2>2. \A d \in D : Kids(d) \subseteq D
    BY KidsInTree
  <2> QED BY <2>1, <2>2
<1>1. next \in [SUBSET D -> SUBSET D]
  BY <1>k
<1>2. \A i \in 1 .. NC : F[i] = next
  <2> HIDE DEF next
  <2> QED OBVIOUS
<1>3. PICK g \in [0 .. NC -> SUBSET D] : g[0] = {0} /\ \A i \in 1 .. NC : g[i] = F[i][g[i - 1]]
  <2>1. \A i \in 1 .. NC : F[i] \in [SUBSET D -> SUBSET D]
    BY <1>1, <1>2, Zenon
  <2> HIDE DEF F
  <2>2. PICK U : U = SUBSET D
    OBVIOUS
  <2>3. PICK a : a = {0}
    OBVIOUS
  <2>4. a \in U /\ StaysIn(F, NC, U)
    BY <1>k, <2>1, <2>2, <2>3 DEF StaysIn
  <2>5. \E g \in [0 .. NC -> U] : g[0] = a /\ \A i \in 1 .. NC : g[i] = F[i][g[i - 1]]
    BY <1>n, <2>4, RecursionWithin
  <2> QED BY <2>2, <2>3, <2>5
<1>4. Like(g)
  <2>1. \A i \in 1 .. NC : g[i] = next[g[i - 1]] /\ g[i - 1] \in SUBSET D
    <3> HIDE DEF next, F
    <3> QED BY <1>n, <1>2, <1>3
  <2>2. \A X \in SUBSET D : next[X] = X \cup UNION {Kids(d) : d \in X}
    OBVIOUS
  <2> HIDE DEF next
  <2> QED BY <1>3, <2>1, <2>2, Zenon
<1>5. Def(g)
  <2>1. g = [i \in 0 .. NC |-> g[i]]
    OBVIOUS
  <2>2. \A i \in 0 .. NC : g[i] = IF i = 0 THEN {0}
                                  ELSE g[i - 1] \cup UNION {Kids(d) : d \in g[i - 1]}
    <3>1. \A i \in 0 .. NC : i = 0 \/ i \in 1 .. NC
      BY <1>n
    <3> QED BY <1>4, <3>1
  <2> QED BY <2>1, <2>2, Zenon
<1> HIDE DEF next, F
<1>6. PICK r : r = CHOOSE x : Def(x)
  OBVIOUS
<1>7. Def(r)
  <2> HIDE DEF Def
  <2> QED BY <1>5, <1>6
<1>8. Dirs = r[NC]
  BY <1>6 DEF Dirs, Kids
<1>9. /\ r[0] = {0} /\ r = [i \in 0 .. NC |-> r[i]]
      /\ \A i \in 1 .. NC : r[i] = r[i - 1] \cup UNION {Kids(d) : d \in r[i - 1]}
  <2>1. \A i \in 0 .. NC : r[i] = IF i = 0 THEN {0}
                                  ELSE r[i - 1] \cup UNION {Kids(d) : d \in r[i - 1]}
    BY <1>7, Zenon
  <2>2. r = [i \in 0 .. NC |-> r[i]]
    BY <1>7
  <2> QED BY <1>n, <2>1, <2>2, Zenon
<1> HIDE DEF Def
<1> DEFINE P == {i \in 0 .. NC : r[i] \in SUBSET D}
<1>10. 0 \in P
  BY <1>n, <1>k, <1>9
<1>11. ASSUME NEW i \in 1 .. NC, i - 1 \in P PROVE i \in P
  <2>1. r[i - 1] \in SUBSET D
    BY <1>11
  <2> QED BY <1>n, <1>k, <1>9, <2>1
<1>12. \A i \in 0 .. NC : i \in P
  <2> HIDE DEF P
  <2> QED BY <1>n, <1>10, <1>11, SetInduction
<1>13. r \in [0 .. NC -> SUBSET D]
  <2>1. \A i \in 0 .. NC : r[i] \in SUBSET D
    BY <1>12
  <2> QED BY <1>9, <2>1, Zenon
<1> QED BY <1>8, <1>9, <1>13

(* The entries a user reaches are entries of the tree. *)
LEMMA LiveInTree ==
  ASSUME Types, NEW D, Sound(D), NEW a \in Live
  PROVE  /\ a[1] \in D /\ a[2] \in Used(sector, a[1]) /\ a = <<a[1], a[2]>>
         /\ At(a) = Ent(sector, a[1], a[2])
         /\ Owned(a) = Chain(sector, fat[1], a[1], a[2])
         /\ ~Dying(a) => a \notin Gone
<1>1. Dirs \subseteq D
  <2>1. PICK r \in [0 .. NC -> SUBSET D] : r[NC] = Dirs
    BY DirsRec
  <2>2. NC \in 0 .. NC
    BY Geometry
  <2> QED BY <2>1, <2>2
<1>2. PICK d \in Dirs : \E p \in Listed(fat[1], d) : a = <<d, p>>
  BY DEF Live
<1>8. PICK p \in Listed(fat[1], d) : a = <<d, p>>
  BY <1>2
<1>3. d \in D /\ p \in Used(sector, d) /\ p \in Visible(fat[1], d)
  BY <1>1, KidsInTree DEF Listed
<1>4. p \in Room(d) /\ SlotAt(fat[1], d, p) = Ent(sector, d, p)
  BY <1>3, KidsInTree
<1>5. At(a) = Ent(sector, d, p)
  BY <1>8, <1>4 DEF At
<1>6. DirSector(fat[1], d, p \div EPS) = Home(d, p)
  <2>1. d \in Cluster \cup {0} /\ Single(fat[1], d) /\ fat[1] \in Tables
    BY <1>3, SoundSearch
  <2> QED BY <1>4, <2>1, SingleDirectory
<1>7. ASSUME a \in Gone PROVE Dying(a)
  <2>1. PICK q \in Room(cur) : a = <<cur, q>> /\ Aims(q)
    BY <1>7 DEF Gone
  <2>2. q = p /\ d = cur
    BY <1>8, <2>1
  <2> QED BY <1>8, <1>6, <2>1, <2>2 DEF Aims, Dying
<1> QED BY <1>8, <1>3, <1>5, <1>7 DEF Owned, Chain

(* In a sound state the entries users reach share no cluster, and the      *)
(* clusters of an entry that is not being released are taken.              *)
LEMMA OwnedApart ==
  ASSUME Types, NEW D, Sound(D), NEW a \in Live
  PROVE  /\ \A b \in Live \ {a} : Owned(a) \cap Owned(b) = {}
         /\ Dying(a) \/ \A c \in Owned(a) : fat[1][c] # 0
<1>1. Entries(sector, fat[1], D, Gone) /\ Apart(sector, fat[1], D)
  BY DEF Sound, Tree
<1>2. /\ a[1] \in D /\ a[2] \in Used(sector, a[1]) /\ a = <<a[1], a[2]>>
      /\ Owned(a) = Chain(sector, fat[1], a[1], a[2])
      /\ ~Dying(a) => a \notin Gone
  BY LiveInTree
<1>3. ASSUME NEW b \in Live \ {a} PROVE Owned(a) \cap Owned(b) = {}
  <2>1. /\ b[1] \in D /\ b[2] \in Used(sector, b[1]) /\ b = <<b[1], b[2]>>
        /\ Owned(b) = Chain(sector, fat[1], b[1], b[2])
    BY LiveInTree
  <2>2. a[1] # b[1] \/ a[2] # b[2]
    BY <1>2, <2>1
  <2> QED BY <1>1, <1>2, <2>1, <2>2 DEF Apart
<1>4. ASSUME ~Dying(a) PROVE \A c \in Owned(a) : fat[1][c] # 0
  BY <1>1, <1>2, <1>4 DEF Entries
<1> QED BY <1>3, <1>4

(* And a file holds what was written to it. *)
LEMMA OwnedIntact ==
  ASSUME Types, NEW D, Sound(D), NEW a \in Live, At(a).kind = "file", ~Dying(a),
         NEW k \in 0 .. At(a).size - 1
  PROVE  LET c == Follow(fat[1], At(a).first)[k \div SPC]
         IN  c \in Cluster /\ sector[<<c, k % SPC>>] = [tag |-> At(a).tag, k |-> k]
<1>1. Intact(sector, fat[1], D, Gone)
  BY DEF Sound
<1>2. /\ a[1] \in D /\ a[2] \in Used(sector, a[1]) /\ a = <<a[1], a[2]>>
      /\ At(a) = Ent(sector, a[1], a[2]) /\ a \notin Gone
  BY LiveInTree
<1>3. Holds(sector, fat[1], At(a).first, At(a).tag, At(a).size)
  BY <1>1, <1>2 DEF Intact
<1> QED BY <1>3 DEF Holds

-----------------------------------------------------------------------------
(***************************************************************************)
(* The current path.  The directories along it are members of the tree and *)
(* differ, so a change of the current directory leaves the searches that   *)
(* lead to it alone, and a directory that is removed is none of them.      *)
(***************************************************************************)
Along(t, S, names, here) ==
  /\ t[0] = 0 /\ t[Len(names)] = here
  /\ \A i, j \in 0 .. Len(names) : t[i] = t[j] => i = j
  /\ \A i \in 1 .. Len(names) :
       \E p : First(S, t[i - 1], "dir", names[i], p) /\ Ent(S, t[i - 1], p).first = t[i]

Trail(D) == \E t \in [0 .. Len(path) -> D] : Along(t, sector, path, cur)

(* A search finds the same entry again in a directory that is the same. *)
LEMMA FirstKept ==
  ASSUME NEW S, NEW S2, NEW d, NEW kind, NEW name, NEW p, First(S, d, kind, name, p),
         \A q \in Room(d) : Ent(S2, d, q) = Ent(S, d, q)
  PROVE  First(S2, d, kind, name, p) /\ Ent(S2, d, p) = Ent(S, d, p)
<1>1. p \in Room(d) /\ \A q \in 0 .. p : q \in Room(d) /\ q \in Nat
  BY PlacesBefore DEF First
<1>2. p \in Nat /\ \A q \in 0 .. p - 1 : q \in 0 .. p
  BY <1>1, PlacesBefore
<1>3. \A q \in 0 .. p - 1 : Ent(S2, d, q) = Ent(S, d, q)
  BY <1>1, <1>2
<1> QED BY <1>1, <1>3 DEF First, Match

(* A subdirectory of the current directory is not on the way to it. *)
LEMMA NotOnTrail ==
  ASSUME Types, NEW D, Sound(D), NEW t \in [0 .. Len(path) -> D],
         Along(t, sector, path, cur),
         NEW p \in Used(sector, cur), Ent(sector, cur, p).kind = "dir"
  PROVE  /\ Ent(sector, cur, p).first \in D
         /\ \A i \in 0 .. Len(path) : t[i] # Ent(sector, cur, p).first
<1> DEFINE e == Ent(sector, cur, p).first
<1>1. Entries(sector, fat[1], D, Gone) /\ Apart(sector, fat[1], D) /\ cur \in D
  BY DEF Sound, Tree
<1>2. /\ e \in D \ {0, cur} /\ D \in DirectorySets /\ fat[1] \in Tables
      /\ sector \in Contents /\ Len(path) \in Nat
  BY <1>1, SoundSearch DEF Entries, Types
<1>3. e \in Cluster /\ e \in Chain(sector, fat[1], cur, p)
  <2>1. e \in Cluster /\ e \in Link
    BY <1>2 DEF DirectorySets, Link
  <2> QED BY <1>2, <2>1, ChainStart DEF Chain
<1> SUFFICES ASSUME NEW i \in 0 .. Len(path), t[i] = e PROVE FALSE
  BY <1>2
<1>4. i # 0
  BY <1>2 DEF Along
<1>5. i \in 1 .. Len(path) /\ i - 1 \in 0 .. Len(path) /\ Len(path) \in 0 .. Len(path)
      /\ i - 1 # Len(path)
  BY <1>2, <1>4
<1>6. t[i - 1] \in D /\ t[i - 1] # cur
  BY <1>5 DEF Along
<1>7. PICK q : First(sector, t[i - 1], "dir", path[i], q) /\ Ent(sector, t[i - 1], q).first = e
  BY <1>5 DEF Along
<1>8. q \in Used(sector, t[i - 1])
  BY <1>7 DEF First, Match, Used
<1>9. e \in Chain(sector, fat[1], t[i - 1], q)
  <2>1. e \in Link
    BY <1>3 DEF Link
  <2> QED BY <1>2, <1>3, <1>7, <2>1, ChainStart DEF Chain
<1> QED BY <1>1, <1>3, <1>6, <1>8, <1>9 DEF Apart

(* Every step keeps the trail, whichever of the effects it has.            *)
LEMMA TrailNext ==
  ASSUME Types, NEW D, Sound(D), Trail(D), NEW E, Effects(D, E)
  PROVE  Trail(E)'
<1>1. PICK t \in [0 .. Len(path) -> D] : Along(t, sector, path, cur)
  BY DEF Trail
<1>t. cur \in D /\ D \in DirectorySets /\ 0 \in D /\ Len(path) \in Nat /\ path \in Seq(Names)
  BY SoundSearch DEF Types, DirectorySets
<1>2. ASSUME UNCHANGED <<cur, path>>, \A i \in 0 .. Len(path) : t[i] \in E,
             \A d \in D : d # cur => \A q \in Room(d) : Ent(sector', d, q) = Ent(sector, d, q)
      PROVE  Trail(E)'
  <2>1. t \in [0 .. Len(path) -> E]
    BY <1>1, <1>2
  <2>2. ASSUME NEW i \in 1 .. Len(path)
        PROVE  \E p : /\ First(sector', t[i - 1], "dir", path[i], p)
                      /\ Ent(sector', t[i - 1], p).first = t[i]
    <3>1. i - 1 \in 0 .. Len(path) /\ Len(path) \in 0 .. Len(path) /\ i - 1 # Len(path)
      BY <1>t
    <3>2. t[i - 1] \in D /\ t[i - 1] # cur
      BY <1>1, <3>1 DEF Along
    <3>3. PICK p : /\ First(sector, t[i - 1], "dir", path[i], p)
                   /\ Ent(sector, t[i - 1], p).first = t[i]
      BY <1>1 DEF Along
    <3>4. \A q \in Room(t[i - 1]) : Ent(sector', t[i - 1], q) = Ent(sector, t[i - 1], q)
      BY <1>2, <3>2
    <3>5. First(sector', t[i - 1], "dir", path[i], p) /\ Ent(sector', t[i - 1], p) = Ent(sector, t[i - 1], p)
      BY <3>3, <3>4, FirstKept
    <3> QED BY <3>3, <3>5
  <2>3. Along(t, sector', path, cur)
    BY <1>1, <2>2 DEF Along
  <2> QED BY <1>2, <2>1, <2>3 DEF Trail
<1>3. ASSUME NEW p, NEW new, Changed(p, new)
      PROVE  \A d \in D : d # cur => \A q \in Room(d) : Ent(sector', d, q) = Ent(sector, d, q)
  BY <1>t, <1>3 DEF Changed, DirectorySets
<1>4. CASE UNCHANGED <<cur, path>> /\ E = D /\ Same(D)
  BY <1>1, <1>2, <1>4 DEF Same
<1>5. CASE UNCHANGED <<cur, path>> /\ Renames(D, E)
  <2>1. PICK p, new : Changed(p, new)
    BY <1>5 DEF Renames
  <2>2. E = D
    BY <1>5 DEF Renames
  <2> QED BY <1>1, <1>2, <1>3, <1>5, <2>1, <2>2
<1>6. CASE UNCHANGED <<cur, path>> /\ Erases(D, E)
  <2>1. PICK p \in Used(sector, cur) :
           /\ Changed(p, DelSlot)
           /\ E = IF Ent(sector, cur, p).kind = "dir"
                  THEN D \ {Ent(sector, cur, p).first} ELSE D
    BY <1>6 DEF Erases
  <2>2. \A i \in 0 .. Len(path) : t[i] \in E
    <3>1. CASE Ent(sector, cur, p).kind = "dir"
      <4>1. \A i \in 0 .. Len(path) : t[i] # Ent(sector, cur, p).first
        BY <1>1, <3>1, NotOnTrail
      <4> QED BY <1>1, <2>1, <3>1, <4>1
    <3>2. CASE Ent(sector, cur, p).kind # "dir"
      BY <1>1, <2>1, <3>2
    <3> QED BY <3>1, <3>2
  <2>3. \A d \in D : d # cur => \A q \in Room(d) : Ent(sector', d, q) = Ent(sector, d, q)
    BY <1>3, <2>1
  <2> QED BY <1>2, <1>6, <2>2, <2>3
<1>7. CASE UNCHANGED <<cur, path>> /\ Enters(D, E)
  <2>1. PICK p : Changed(p, NewEntry)
    BY <1>7 DEF Enters
  <2>2. D \subseteq E
    BY <1>7 DEF Enters
  <2>3. \A i \in 0 .. Len(path) : t[i] \in E
    BY <1>1, <2>2
  <2> QED BY <1>2, <1>3, <1>7, <2>1, <2>3
<1>8. CASE cur' = 0 /\ path' = <<>> /\ E = D
  <2> DEFINE s == [i \in 0 .. 0 |-> 0]
  <2>1. s \in [0 .. Len(<<>>) -> E]
    BY <1>t, <1>8
  <2>2. Along(s, sector', <<>>, 0)
    BY DEF Along
  <2> HIDE DEF s
  <2> QED BY <1>8, <2>1, <2>2 DEF Trail
<1>9. CASE Descends /\ E = D /\ UNCHANGED sector
  <2>0. PICK n \in Names : \E p :
          /\ First(sector, cur, "dir", n, p)
          /\ cur' = Ent(sector, cur, p).first /\ path' = Append(path, n)
    BY <1>9 DEF Descends
  <2>1. PICK p :
          /\ First(sector, cur, "dir", n, p)
          /\ cur' = Ent(sector, cur, p).first /\ path' = Append(path, n)
    BY <2>0
  <2>2. p \in Used(sector, cur) /\ Ent(sector, cur, p).kind = "dir"
    BY <2>1 DEF First, Match, Used
  <2>3. cur' \in D /\ \A i \in 0 .. Len(path) : t[i] # cur'
    BY <1>1, <2>1, <2>2, NotOnTrail
  <2> DEFINE m == Len(path) + 1
             s == [i \in 0 .. m |-> IF i = m THEN cur' ELSE t[i]]
  <2>4. /\ Len(path') = m /\ m \in Nat /\ path'[m] = n
        /\ \A i \in 1 .. Len(path) : path'[i] = path[i]
    BY <1>t, <2>1
  <2>5. \A i \in 0 .. m : i = m \/ (i \in 0 .. Len(path) /\ i # m)
    BY <1>t
  <2>6. s \in [0 .. m -> D]
    BY <1>1, <2>3, <2>5
  <2>7. s[m] = cur' /\ \A i \in 0 .. Len(path) : i \in 0 .. m /\ s[i] = t[i]
    BY <1>t
  <2> HIDE DEF s, m
  <2>8. s[0] = 0
    <3>1. 0 \in 0 .. Len(path)
      BY <1>t
    <3> QED BY <1>1, <2>7, <3>1 DEF Along
  <2>9. \A i, j \in 0 .. m : s[i] = s[j] => i = j
    BY <1>1, <2>3, <2>5, <2>7 DEF Along
  <2>10. ASSUME NEW i \in 1 .. m
         PROVE  \E q : /\ First(sector, s[i - 1], "dir", path'[i], q)
                       /\ Ent(sector, s[i - 1], q).first = s[i]
    <3>1. CASE i = m
      <4>1. i - 1 = Len(path) /\ Len(path) \in 0 .. Len(path)
        BY <1>t, <3>1 DEF m
      <4>2. s[i - 1] = cur
        BY <1>1, <2>7, <4>1 DEF Along
      <4> QED BY <2>1, <2>4, <2>7, <3>1, <4>2
    <3>2. CASE i # m
      <4>1. i \in 1 .. Len(path) /\ i \in 0 .. Len(path) /\ i - 1 \in 0 .. Len(path)
        BY <1>t, <3>2 DEF m
      <4>2. s[i] = t[i] /\ s[i - 1] = t[i - 1] /\ path'[i] = path[i]
        BY <2>4, <2>7, <4>1
      <4> QED BY <1>1, <4>1, <4>2 DEF Along
    <3> QED BY <3>1, <3>2
  <2>11. Along(s, sector', path', cur')
    BY <1>9, <2>4, <2>7, <2>8, <2>9, <2>10 DEF Along
  <2> QED BY <1>9, <2>4, <2>6, <2>11 DEF Trail
<1> QED BY <1>4, <1>5, <1>6, <1>7, <1>8, <1>9 DEF Effects

(* Along the trail the searches for the names of the path lead to the      *)
(* current directory.                                                      *)
LEMMA TrailResolves ==
  ASSUME Types, NEW D, Sound(D), Trail(D)
  PROVE  PathResolves
<1> DEFINE step(d, n) == LET found == Matches(fat[1], d, "dir", n)
                         IN  IF found = {} THEN -1 ELSE SlotAt(fat[1], d, Least(found)).first
           Def(g) == g = [i \in 0 .. Len(path) |->
                            IF i = 0 THEN 0
                            ELSE IF g[i - 1] = -1 THEN -1
                            ELSE step(g[i - 1], path[i])]
<1>1. PICK t \in [0 .. Len(path) -> D] : Along(t, sector, path, cur)
  BY DEF Trail
<1>n. Len(path) \in Nat /\ 0 \in 0 .. Len(path) /\ D \in DirectorySets
      /\ \A d \in D : d # -1
  BY SoundSearch DEF Types, DirectorySets, Cluster
<1>2. ASSUME NEW i \in 1 .. Len(path)
      PROVE  t[i - 1] # -1 /\ step(t[i - 1], path[i]) = t[i]
  <2>1. i - 1 \in 0 .. Len(path) /\ t[i - 1] \in D
    BY <1>1, <1>n
  <2>2. PICK d : d = t[i - 1]
    OBVIOUS
  <2>3. PICK p : First(sector, d, "dir", path[i], p) /\ Ent(sector, d, p).first = t[i]
    BY <1>1, <2>2 DEF Along
  <2>4. PICK T : T = fat[1]
    OBVIOUS
  <2>5. T \in Tables /\ d \in Cluster \cup {0} /\ Single(T, d)
    BY <2>1, <2>2, <2>4, SoundSearch
  <2>6. PICK n : n = path[i]
    OBVIOUS
  <2>7. First(sector, d, "dir", n, p) /\ "dir" # "end" /\ p \in Room(d)
    BY <2>3, <2>6 DEF First
  <2>8. Matches(T, d, "dir", n) # {} /\ Least(Matches(T, d, "dir", n)) = p
    BY <2>5, <2>7, SearchFinds
  <2>9. SlotAt(T, d, p) = Ent(sector, d, p)
    BY <2>5, <2>7, SingleDirectory
  <2> QED BY <1>n, <2>1, <2>2, <2>3, <2>4, <2>6, <2>8, <2>9
<1>3. Def(t)
  <2> HIDE DEF step
  <2>1. t = [i \in 0 .. Len(path) |-> t[i]]
    BY <1>1
  <2>2. \A i \in 0 .. Len(path) : t[i] = IF i = 0 THEN 0
                                         ELSE IF t[i - 1] = -1 THEN -1
                                         ELSE step(t[i - 1], path[i])
    <3>1. t[0] = 0
      BY <1>1 DEF Along
    <3>2. \A i \in 0 .. Len(path) : i = 0 \/ i \in 1 .. Len(path)
      BY <1>n
    <3> QED BY <1>2, <3>1, <3>2
  <2> QED BY <2>1, <2>2, Zenon
<1>4. PICK r : r = CHOOSE x : Def(x)
  OBVIOUS
<1>5. Def(r)
  <2> HIDE DEF Def
  <2> QED BY <1>3, <1>4
<1>6. /\ r[0] = 0
      /\ \A i \in 1 .. Len(path) :
           r[i] = IF r[i - 1] = -1 THEN -1 ELSE step(r[i - 1], path[i])
  <2> HIDE DEF step
  <2>1. \A i \in 0 .. Len(path) : r[i] = IF i = 0 THEN 0
                                         ELSE IF r[i - 1] = -1 THEN -1
                                         ELSE step(r[i - 1], path[i])
    BY <1>5, Zenon
  <2>2. \A i \in 1 .. Len(path) : i \in 0 .. Len(path) /\ i # 0
    BY <1>n
  <2> QED BY <1>n, <2>1, <2>2, Zenon
<1>7. r[Len(path)] = cur
  <2> DEFINE P == {i \in 0 .. Len(path) : r[i] = t[i]}
  <2> HIDE DEF step
  <2>1. 0 \in P
    BY <1>1, <1>n, <1>6 DEF Along
  <2>2. ASSUME NEW i \in 1 .. Len(path), i - 1 \in P PROVE i \in P
    <3>1. i \in 0 .. Len(path) /\ r[i - 1] = t[i - 1]
      BY <1>n, <2>2
    <3>2. r[i] = t[i]
      BY <1>2, <1>6, <3>1
    <3> QED BY <3>1, <3>2
  <2>3. \A i \in 0 .. Len(path) : i \in P
    <3> HIDE DEF P
    <3> QED BY <1>n, <2>1, <2>2, SetInduction
  <2>4. Len(path) \in 0 .. Len(path)
    BY <1>n
  <2> QED BY <1>1, <2>3, <2>4 DEF Along
<1> QED BY <1>4, <1>7 DEF PathResolves

(* A release that was cut off stays so. *)
LEMMA TornStays ==
  ASSUME Types, [Next]_vars, ~torn'
  PROVE  ~torn
<1>t. torn \in BOOLEAN
  BY DEF Types
<1>1. CASE UNCHANGED vars
  BY <1>1 DEF vars
<1>2. CASE Call
  BY <1>2 DEF Call, FatInit, fat_delete, fat_rmdir, fat_write, fat_mkdir,
              fat_rename, fat_cd, fat_cd_up
<1>3. CASE Step
  <2>1. ASSUME NEW o \in Outcomes, EraseStep(o) PROVE ~torn
    BY <2>1 DEF EraseStep
  <2>2. CASE UNCHANGED torn
    BY <2>2
  <2> QED BY <1>3, <2>1, <2>2 DEF Step, FreeStep, LoadStep, DataStep, PutFatStep, DotsStep,
                EntryStep, EntryReadError
<1>4. CASE Crash
  BY <1>4 DEF Crash
<1> QED BY <1>1, <1>2, <1>3, <1>4 DEF Next

-----------------------------------------------------------------------------
(***************************************************************************)
(* The end mark.  A new entry takes the first free place, so after the     *)
(* first end mark there are only end marks, and a search sees all that is  *)
(* in use.                                                                 *)
(***************************************************************************)
EndsLast(D) ==
  \A d \in D : \A p, q \in Room(d) :
    p < q /\ Ent(sector, d, p) = EndSlot => Ent(sector, d, q) = EndSlot

(* Whatever a step does to the tree, the end marks stay last.              *)
LEMMA EndsLastNext ==
  ASSUME Types, NEW D, Sound(D), EndsLast(D), NEW E, Effects(D, E)
  PROVE  EndsLast(E)'
<1>t. /\ cur \in D /\ D \in DirectorySets /\ sector \in Contents
      /\ cur \in Cluster \cup {0} /\ \A d \in D : d \in Cluster \cup {0}
  BY SoundSearch
<1>n. \A d \in Cluster \cup {0} : \A p \in Room(d) : p \in Nat
  BY Places
<1>k. /\ EndSlot.kind = "end" /\ DelSlot # EndSlot /\ DotSlot # EndSlot
      /\ DelSlot.kind = "del"
  <2>1. EndSlot.kind = "end" /\ DelSlot.kind = "del" /\ DotSlot.kind = "dot"
    BY DEF EndSlot, DelSlot, DotSlot, Entry
  <2> QED BY <2>1
<1>c. ASSUME NEW p, NEW new, Changed(p, new), new # EndSlot,
             \A r \in 0 .. p - 1 : Ent(sector, cur, r) # EndSlot,
             NEW d \in D, NEW x \in Room(d), NEW y \in Room(d), x < y,
             Ent(sector', d, x) = EndSlot
      PROVE  Ent(sector', d, y) = EndSlot
  <2>1. /\ Ent(sector', d, x) = IF d = cur /\ x = p THEN new ELSE Ent(sector, d, x)
        /\ Ent(sector', d, y) = IF d = cur /\ y = p THEN new ELSE Ent(sector, d, y)
    BY <1>c, <1>t DEF Changed
  <2>2. Ent(sector, d, x) = EndSlot
    BY <1>c, <2>1
  <2>3. Ent(sector, d, y) = EndSlot
    BY <1>c, <2>2 DEF EndsLast
  <2>4. ~(d = cur /\ y = p)
    <3> SUFFICES ASSUME d = cur, y = p PROVE FALSE
      OBVIOUS
    <3>1. x \in 0 .. p - 1
      BY <1>c, <1>n, <1>t
    <3> QED BY <1>c, <2>2, <3>1
  <2> QED BY <2>1, <2>3, <2>4
<1>b. ASSUME NEW p \in Used(sector, cur), NEW r \in 0 .. p - 1
      PROVE  Ent(sector, cur, r) # EndSlot
  <2>1. p \in Room(cur) /\ Ent(sector, cur, p) # EndSlot
    BY <1>k DEF Used
  <2>2. r \in Room(cur) /\ r < p
    BY <1>b, <2>1, PlacesBefore
  <2> QED BY <2>1, <2>2, <1>t DEF EndsLast
<1>1. CASE E = D /\ Same(D)
  BY <1>1 DEF EndsLast, Same
<1>2. CASE Renames(D, E)
  <2>0. PICK old \in FileNames, new \in Names : \E p :
           /\ First(sector, cur, "file", old, p)
           /\ Changed(p, [Ent(sector, cur, p) EXCEPT !.name = new])
    BY <1>2 DEF Renames
  <2>1. PICK p :
           /\ First(sector, cur, "file", old, p)
           /\ Changed(p, [Ent(sector, cur, p) EXCEPT !.name = new])
    BY <2>0
  <2> DEFINE ent == [Ent(sector, cur, p) EXCEPT !.name = new]
  <2>2. p \in Used(sector, cur) /\ p \in Room(cur) /\ Ent(sector, cur, p).kind = "file"
    BY <2>1 DEF First, Match, Used
  <2>3. Ent(sector, cur, p) \in Slots
    BY <1>t, <2>2, EntryTypes
  <2>4. ent.kind = "file"
    <3>1. Ent(sector, cur, p) \in [kind : {"file"}, name : Names, first : Cluster \cup {0},
                     size : 0 .. MaxSize, tag : Tags]
      BY <2>2, <2>3, KindsOfSlots
    <3> QED BY <2>2, <3>1
  <2>5. Changed(p, ent) /\ ent # EndSlot
    BY <1>k, <2>1, <2>4
  <2> HIDE DEF ent
  <2>6. E = D
    BY <1>2 DEF Renames
  <2> QED BY <1>b, <1>c, <2>2, <2>5, <2>6 DEF EndsLast
<1>3. CASE Erases(D, E)
  <2>1. PICK p \in Used(sector, cur) :
           /\ Changed(p, DelSlot)
           /\ E = IF Ent(sector, cur, p).kind = "dir"
                  THEN D \ {Ent(sector, cur, p).first} ELSE D
    BY <1>3 DEF Erases
  <2>2. E \subseteq D
    BY <2>1
  <2> QED BY <1>b, <1>c, <1>k, <2>1, <2>2 DEF EndsLast
<1>4. CASE Enters(D, E)
  <2>1. PICK p : FreePlace(sector, cur, p) /\ Changed(p, NewEntry)
    BY <1>4 DEF Enters
  <2>2. NewEntry # EndSlot
    <3>1. NewEntry.kind \in {"dir", "file"}
      BY DEF NewEntry, Entry
    <3> QED BY <1>k, <3>1
  <2>3. \A r \in 0 .. p - 1 : Ent(sector, cur, r) # EndSlot
    BY <2>1 DEF FreePlace
  <2>4. ASSUME NEW d \in E, d \notin D, NEW x \in Room(d), NEW y \in Room(d), x < y,
               Ent(sector', d, x) = EndSlot
        PROVE  Ent(sector', d, y) = EndSlot
    <3>1. job.pc = "entry" /\ job.op = "mkdir" /\ d = job.first /\ d \in Cluster
      BY <1>4, <2>4 DEF Enters
    <3>2. sector[<<d, 0>>] = Dots
      BY <3>1 DEF Sound, Adds
    <3>3. \A q \in Room(d) : Ent(sector, d, q) = IF q \in {0, 1} THEN DotSlot ELSE EndSlot
      BY <3>1, <3>2, DotsAreFree
    <3>4. \A q \in Room(d) : Ent(sector', d, q) = Ent(sector, d, q)
      BY <1>t, <2>1, <2>4, <3>1 DEF Changed
    <3>5. x \in Nat /\ y \in Nat /\ x \notin {0, 1}
      BY <1>k, <1>n, <2>4, <3>1, <3>3, <3>4
    <3>6. y \notin {0, 1}
      BY <2>4, <3>5
    <3> QED BY <3>3, <3>4, <3>6
  <2> QED BY <1>c, <2>1, <2>2, <2>3, <2>4 DEF EndsLast
<1>5. CASE E = D /\ UNCHANGED sector
  BY <1>5 DEF EndsLast
<1> QED BY <1>1, <1>2, <1>3, <1>4, <1>5 DEF Effects

(* Users see all that is in use. *)
LEMMA AllSeen ==
  ASSUME Types, NEW D, Sound(D), EndsLast(D), NEW d \in D
  PROVE  Listed(fat[1], d) = Used(sector, d)
<1> DEFINE T == fat[1]
<1>1. T \in Tables /\ d \in Cluster \cup {0} /\ Single(T, d)
  BY SoundSearch
<1>2. Listed(T, d) \subseteq Used(sector, d)
  BY KidsInTree
<1>3. ASSUME NEW p \in Used(sector, d) PROVE p \in Listed(T, d)
  <2>1. p \in Room(d) /\ Ent(sector, d, p) # EndSlot
    <3>1. EndSlot.kind = "end"
      BY DEF EndSlot, Entry
    <3> QED BY <3>1 DEF Used
  <2>2. \A q \in 0 .. p : Ent(sector, d, q) # EndSlot
    <3> SUFFICES ASSUME NEW q \in 0 .. p, Ent(sector, d, q) = EndSlot PROVE FALSE
      OBVIOUS
    <3>1. q \in Room(d) /\ p \in Nat /\ q \in Nat
      BY <2>1, PlacesBefore
    <3>2. q < p
      BY <2>1, <3>1
    <3> QED BY <2>1, <3>1, <3>2 DEF EndsLast
  <2> HIDE DEF T
  <2>3. p \in Visible(T, d)
    BY <1>1, <2>1, <2>2, Seen
  <2>4. SlotAt(T, d, p) = Ent(sector, d, p)
    BY <1>1, <2>1, SingleDirectory
  <2> QED BY <2>3, <2>4 DEF Listed, Used
<1> QED BY <1>2, <1>3

-----------------------------------------------------------------------------
(***************************************************************************)
(* The tree hangs together: a set of directories that has the root and     *)
(* with a directory its subdirectories has them all, unless fat_rmdir      *)
(* removed a directory in use.                                             *)
(***************************************************************************)
Closed(S) ==
  /\ 0 \in S
  /\ \A d \in S : \A p \in Used(sector, d) :
       Ent(sector, d, p).kind = "dir" => Ent(sector, d, p).first \in S

Rooted(D) == ~leaky => \A S \in SUBSET D : Closed(S) => S = D

(* What has been dropped stays dropped; a directory that fat_rmdir removes *)
(* without dropping anything was empty.                                    *)
LEMMA LeakyStays ==
  ASSUME Types, [Next]_vars, ~leaky', ~torn'
  PROVE  /\ ~leaky
         /\ job.pc = "erase" /\ job'.pc # "erase" /\ job.op = "rmdir" => ~InUse(Erased.first)
         /\ \A o : EntryStep(o) /\ FreeSlots(job.buf, cur) = {} => job.first = 0
<1>t. leaky \in BOOLEAN /\ torn \in BOOLEAN
  BY DEF Types
<1>0. ASSUME NEW o, EntryStep(o), FreeSlots(job.buf, cur) = {} PROVE job.first = 0
  BY <1>0 DEF EntryStep
<1>1. CASE UNCHANGED vars
  BY <1>0, <1>1 DEF vars
<1>2. CASE Call
  <2>1. job.pc = "idle"
    BY <1>2 DEF Call, FatInit, fat_delete, fat_rmdir, fat_write, fat_mkdir, fat_rename,
                fat_cd, fat_cd_up
  <2>2. ~leaky
    BY <1>2 DEF Call, FatInit, fat_delete, fat_rmdir, fat_write, fat_mkdir, fat_rename,
                fat_cd, fat_cd_up
  <2> QED BY <1>0, <2>1, <2>2
<1>3. CASE Step
  <2>1. ASSUME NEW o \in Outcomes, EraseStep(o)
        PROVE  ~leaky /\ (job.op = "rmdir" => ~InUse(Erased.first))
    BY <2>1, Zenon DEF EraseStep, Erased
  <2>2. CASE UNCHANGED leaky /\ job.pc # "erase"
    BY <1>0, <2>2
  <2>3. ASSUME NEW o \in Outcomes, EntryStep(o) PROVE ~leaky /\ job.pc # "erase"
    BY <2>3 DEF EntryStep
  <2> QED BY <1>0, <1>3, <2>1, <2>2, <2>3 DEF Step, FreeStep, LoadStep, DataStep, PutFatStep,
                DotsStep, EntryReadError
<1>4. CASE Crash
  <2>1. ~leaky /\ job.pc # "erase"
    BY <1>4 DEF Crash
  <2> QED BY <1>0, <2>1
<1> QED BY <1>1, <1>2, <1>3, <1>4 DEF Next

(* A free place is not in use. *)
LEMMA FreeKinds ==
  ASSUME NEW S, NEW d, NEW p, FreePlace(S, d, p)
  PROVE  p \in Room(d) /\ Ent(S, d, p).kind \in {"end", "del"}
<1>1. EndSlot.kind = "end" /\ DelSlot.kind = "del"
  BY DEF EndSlot, DelSlot, Entry
<1> QED BY <1>1 DEF FreePlace

(* As long as the subdirectories stay, so does what hangs together. *)
LEMMA RootedKept ==
  ASSUME NEW D, Rooted(D), ~leaky,
         \A d \in D : \A q \in Room(d) :
           /\ Ent(sector', d, q).kind = "dir" <=> Ent(sector, d, q).kind = "dir"
           /\ Ent(sector, d, q).kind = "dir" =>
                Ent(sector', d, q).first = Ent(sector, d, q).first
  PROVE  Rooted(D)'
<1> SUFFICES ASSUME NEW S \in SUBSET D, Closed(S)' PROVE S = D
  BY DEF Rooted
<1>1. ASSUME NEW d \in S, NEW p \in Used(sector, d), Ent(sector, d, p).kind = "dir"
      PROVE  Ent(sector, d, p).first \in S
  <2>1. p \in Room(d) /\ d \in D
    BY DEF Used
  <2>2. Ent(sector', d, p).kind = "dir" /\ Ent(sector', d, p).first = Ent(sector, d, p).first
    BY <1>1, <2>1
  <2>3. p \in Used(sector', d)
    BY <2>1, <2>2 DEF Used
  <2> QED BY <2>2, <2>3 DEF Closed
<1>2. Closed(S)
  BY <1>1 DEF Closed
<1> QED BY <1>2 DEF Rooted

(* The removal of an empty directory.                                      *)
LEMMA RootedErase ==
  ASSUME Types, NEW D, Sound(D), Rooted(D), ~leaky,
         NEW p \in Used(sector, cur), Ent(sector, cur, p).kind = "dir",
         NEW e, e = Ent(sector, cur, p).first, Used(sector, e) = {},
         Changed(p, DelSlot)
  PROVE  Rooted(D \ {e})'
<1>t. cur \in D /\ D \in DirectorySets /\ \A d \in D : d \in Cluster \cup {0}
  BY SoundSearch
<1>1. e \in D \ {0, cur}
  BY <1>t DEF Sound, Tree, Entries
<1> SUFFICES ASSUME NEW S \in SUBSET (D \ {e}), Closed(S)' PROVE S = D \ {e}
  BY DEF Rooted
<1>2. ASSUME NEW d \in S \cup {e}, NEW q \in Used(sector, d), Ent(sector, d, q).kind = "dir"
      PROVE  Ent(sector, d, q).first \in S \cup {e}
  <2>1. d # e /\ d \in S /\ d \in D /\ q \in Room(d)
    BY DEF Used
  <2>2. CASE d = cur /\ q = p
    BY <2>2
  <2>3. CASE ~(d = cur /\ q = p)
    <3>1. Ent(sector', d, q) = Ent(sector, d, q)
      BY <1>t, <2>1, <2>3 DEF Changed
    <3>2. q \in Used(sector', d)
      BY <2>1, <3>1 DEF Used
    <3> QED BY <1>2, <2>1, <3>1, <3>2 DEF Closed
  <2> QED BY <2>2, <2>3
<1>3. Closed(S \cup {e})
  <2>1. 0 \in S
    BY DEF Closed
  <2> QED BY <1>2, <2>1 DEF Closed
<1>4. S \cup {e} = D
  BY <1>1, <1>3 DEF Rooted
<1> QED BY <1>4

(* The entry of a new directory.                                           *)
LEMMA RootedEnter ==
  ASSUME Types, NEW D, Sound(D), Rooted(D), ~leaky,
         NEW p, FreePlace(sector, cur, p), NEW new, new.kind = "dir",
         NEW c \in Cluster \ D, new.first = c, Changed(p, new)
  PROVE  Rooted(D \cup {c})'
<1>t. cur \in D /\ D \in DirectorySets /\ \A d \in D : d \in Cluster \cup {0}
  BY SoundSearch
<1>p. p \in Room(cur) /\ Ent(sector, cur, p).kind \in {"end", "del"}
  BY FreeKinds
<1> SUFFICES ASSUME NEW S \in SUBSET (D \cup {c}), Closed(S)' PROVE S = D \cup {c}
  BY DEF Rooted
<1>1. ASSUME NEW d \in S \ {c}, NEW q \in Used(sector, d), Ent(sector, d, q).kind = "dir"
      PROVE  Ent(sector, d, q).first \in S \ {c}
  <2>1. d \in D /\ q \in Room(d)
    BY DEF Used
  <2>2. ~(d = cur /\ q = p)
    BY <1>1, <1>p
  <2>3. Ent(sector', d, q) = Ent(sector, d, q)
    BY <1>t, <2>1, <2>2 DEF Changed
  <2>4. q \in Used(sector', d)
    BY <2>1, <2>3 DEF Used
  <2>5. Ent(sector, d, q).first \in S
    BY <1>1, <2>3, <2>4 DEF Closed
  <2>6. Ent(sector, d, q).first \in D
    BY <1>1, <2>1 DEF Sound, Tree, Entries
  <2> QED BY <2>5, <2>6
<1>2. Closed(S \ {c})
  <2>1. 0 \in S /\ 0 # c
    BY Geometry DEF Closed
  <2> QED BY <1>1, <2>1 DEF Closed
<1>3. S \ {c} = D
  BY <1>2 DEF Rooted
<1>4. p \in Used(sector', cur) /\ Ent(sector', cur, p) = new
  BY <1>t, <1>p DEF Changed, Used
<1>5. c \in S
  BY <1>3, <1>4, <1>t DEF Closed
<1> QED BY <1>3, <1>5

(* Every step keeps the tree together.                                     *)
LEMMA RootedNext ==
  ASSUME TInv, [Next]_vars, ~torn', NEW D, Sound(D), EndsLast(D), Rooted(D),
         NEW E, Effects(D, E)
  PROVE  Rooted(E)'
<1> SUFFICES ASSUME ~leaky' PROVE Rooted(E)'
  BY DEF Rooted
<1>y. Types
  BY DEF TInv
<1>l. /\ ~leaky
      /\ job.pc = "erase" /\ job'.pc # "erase" /\ job.op = "rmdir" => ~InUse(Erased.first)
  BY <1>y, LeakyStays
<1>t. /\ cur \in D /\ D \in DirectorySets /\ sector \in Contents
      /\ cur \in Cluster \cup {0} /\ \A d \in D : d \in Cluster \cup {0}
  BY <1>y, SoundSearch
<1>1. CASE E = D /\ Same(D)
  BY <1>1, <1>l, RootedKept DEF Same
<1>c. ASSUME NEW p, NEW new, Changed(p, new), new.kind # "dir",
             Ent(sector, cur, p).kind # "dir"
      PROVE  Rooted(D)'
  <2>1. \A d \in D : \A q \in Room(d) :
           /\ Ent(sector', d, q).kind = "dir" <=> Ent(sector, d, q).kind = "dir"
           /\ Ent(sector, d, q).kind = "dir" =>
                Ent(sector', d, q).first = Ent(sector, d, q).first
    BY <1>c, <1>t DEF Changed
  <2> QED BY <1>l, <2>1, RootedKept
<1>2. CASE Renames(D, E)
  <2>0. PICK old \in FileNames, new \in Names : \E p :
           /\ First(sector, cur, "file", old, p)
           /\ Changed(p, [Ent(sector, cur, p) EXCEPT !.name = new])
    BY <1>2 DEF Renames
  <2>1. PICK p :
           /\ First(sector, cur, "file", old, p)
           /\ Changed(p, [Ent(sector, cur, p) EXCEPT !.name = new])
    BY <2>0
  <2>2. p \in Room(cur) /\ Ent(sector, cur, p).kind = "file"
    BY <2>1 DEF First, Match
  <2>3. Ent(sector, cur, p) \in Slots
    BY <1>t, <2>2, EntryTypes
  <2>4. [Ent(sector, cur, p) EXCEPT !.name = new].kind = "file"
    <3>1. Ent(sector, cur, p) \in [kind : {"file"}, name : Names, first : Cluster \cup {0},
                     size : 0 .. MaxSize, tag : Tags]
      BY <2>2, <2>3, KindsOfSlots
    <3> QED BY <2>2, <3>1
  <2>5. PICK ent : ent = [Ent(sector, cur, p) EXCEPT !.name = new]
    OBVIOUS
  <2>6. E = D
    BY <1>2 DEF Renames
  <2> QED BY <1>c, <2>1, <2>2, <2>4, <2>5, <2>6
<1>3. CASE Erases(D, E)
  <2>1. PICK p \in Used(sector, cur) :
           /\ Aims(p) /\ Changed(p, DelSlot)
           /\ job.op = "rmdir" <=> Ent(sector, cur, p).kind = "dir"
           /\ E = IF Ent(sector, cur, p).kind = "dir"
                  THEN D \ {Ent(sector, cur, p).first} ELSE D
    BY <1>3 DEF Erases
  <2>2. job.pc = "erase" /\ job'.pc # "erase"
    BY <1>3 DEF Erases
  <2>3. CASE Ent(sector, cur, p).kind = "dir"
    <3>1. PICK e : e = Ent(sector, cur, p).first
      OBVIOUS
    <3>2. ~InUse(e) /\ e \in D
      <4>1. Erased = Ent(sector, cur, p)
        BY <1>y, <2>1, OneTarget
      <4>2. e \in D
        BY <1>t, <2>1, <2>3, <3>1 DEF Sound, Tree, Entries
      <4> QED BY <1>l, <2>1, <2>2, <2>3, <3>1, <4>1, <4>2
    <3>3. Used(sector, e) = {}
      BY <3>2, <1>y, AllSeen DEF InUse
    <3>4. E = D \ {e}
      BY <2>1, <2>3, <3>1
    <3>5. Rooted(D \ {e})'
      BY <1>l, <2>1, <2>3, <3>1, <3>3, <1>y, RootedErase
    <3> QED BY <3>4, <3>5
  <2>4. CASE Ent(sector, cur, p).kind # "dir"
    <3>1. DelSlot.kind # "dir"
      BY DEF DelSlot, Entry
    <3>2. E = D
      BY <2>1, <2>4
    <3> QED BY <1>c, <2>1, <2>4, <3>1, <3>2
  <2> QED BY <2>3, <2>4
<1>4. CASE Enters(D, E)
  <2>1. PICK p : FreePlace(sector, cur, p) /\ Changed(p, NewEntry)
    BY <1>4 DEF Enters
  <2>2. Ent(sector, cur, p).kind \in {"end", "del"}
    BY <2>1, FreeKinds
  <2>3. CASE job.op = "mkdir" /\ E # D
    <3>1. PICK c : c = job.first
      OBVIOUS
    <3>2. E = D \cup {c} /\ c \in Cluster \ D
      BY <1>4, <2>3, <3>1 DEF Enters
    <3>3. PICK new : new = NewEntry
      OBVIOUS
    <3>4. new.kind = "dir" /\ new.first = c
      BY <2>3, <3>1, <3>3 DEF NewEntry, Entry
    <3>5. Rooted(D \cup {c})'
      BY <1>l, <2>1, <3>2, <3>3, <3>4, <1>y, RootedEnter
    <3> QED BY <3>2, <3>5
  <2>4. CASE job.op # "mkdir"
    <3>1. NewEntry.kind = "file" /\ E = D
      BY <1>4, <2>4 DEF NewEntry, Entry, Enters
    <3>2. PICK new : new = NewEntry
      OBVIOUS
    <3> QED BY <1>c, <2>1, <2>2, <3>1, <3>2
  <2>5. CASE job.op = "mkdir" /\ E = D
    <3>1. job.first \in D /\ job.pc = "entry"
      BY <1>4, <2>5 DEF Enters
    <3>2. job.first \in Cluster /\ job.first \in Link /\ job.buf \in Tables
      BY <1>y, <2>5, JobFields DEF TInv, Phases, Link
    <3>3. job.first \notin D
      BY <3>1, <3>2, ChainStart DEF Sound, Adds
    <3> QED BY <3>1, <3>3
  <2> QED BY <2>3, <2>4, <2>5
<1>5. CASE E = D /\ UNCHANGED sector
  <2>1. Same(D)
    BY <1>5 DEF Same
  <2> QED BY <1>1, <1>5, <2>1
<1> QED BY <1>1, <1>2, <1>3, <1>4, <1>5 DEF Effects

(* Then users reach every directory: Dirs collects levels until nothing is *)
(* new, and there are not more levels than clusters.                       *)
LEMMA AllReached ==
  ASSUME Types, NEW D, Sound(D), EndsLast(D), Rooted(D), ~leaky
  PROVE  Dirs = D
<1>1. PICK r \in [0 .. NC -> SUBSET D] :
         /\ r[0] = {0} /\ r[NC] = Dirs
         /\ \A i \in 1 .. NC : r[i] = r[i - 1] \cup UNION {Kids(d) : d \in r[i - 1]}
  BY DirsRec
<1>n. NC \in Nat /\ 0 \in 0 .. NC /\ NC \in 0 .. NC
      /\ \A i \in 1 .. NC : i \in 0 .. NC /\ i - 1 \in 0 .. NC
  BY Geometry
<1> DEFINE All == Cluster \cup {0}
<1>2. IsFiniteSet(All) /\ Cardinality(All) = NC + 1 /\ D \subseteq All
  <2>1. IsFiniteSet(2 .. NC + 1) /\ Cardinality(2 .. NC + 1) = NC
    BY <1>n, FS_Interval
  <2>2. 0 \notin 2 .. NC + 1
    OBVIOUS
  <2>3. IsFiniteSet(All) /\ Cardinality(All) = NC + 1
    BY <2>1, <2>2, FS_AddElement DEF Cluster
  <2> QED BY <2>3, SoundSearch DEF DirectorySets
<1>3. ASSUME NEW S \in SUBSET D, 0 \in S, \A d \in S : Kids(d) \subseteq S PROVE S = D
  <2>1. ASSUME NEW d \in S, NEW p \in Used(sector, d), Ent(sector, d, p).kind = "dir"
        PROVE  Ent(sector, d, p).first \in S
    <3>1. p \in Visible(fat[1], d)
      BY AllSeen DEF Listed
    <3>2. SlotAt(fat[1], d, p) = Ent(sector, d, p)
      BY <3>1, KidsInTree
    <3>3. Ent(sector, d, p).first \in Kids(d)
      BY <2>1, <3>1, <3>2 DEF Kids
    <3> QED BY <1>3, <3>3
  <2>2. Closed(S)
    BY <1>3, <2>1 DEF Closed
  <2> QED BY <2>2 DEF Rooted
<1> DEFINE P == {i \in 0 .. NC : 0 \in r[i] /\ (r[i] = D \/ Cardinality(r[i]) >= i + 1)}
<1>4. 0 \in P
  <2>1. Cardinality({0}) = 1
    BY FS_Singleton
  <2>2. PICK A : A = r[0]
    OBVIOUS
  <2>3. A = {0} /\ Cardinality(A) = 1
    BY <1>1, <2>1, <2>2
  <2>4. 0 \in r[0] /\ Cardinality(r[0]) >= 0 + 1
    BY <2>2, <2>3
  <2> QED BY <1>n, <2>4
<1>5. ASSUME NEW i \in 1 .. NC, i - 1 \in P PROVE i \in P
  <2>1. PICK A : A = r[i - 1]
    OBVIOUS
  <2>2. PICK B : B = r[i]
    OBVIOUS
  <2>3. /\ A \in SUBSET D /\ B \in SUBSET D /\ B = A \cup UNION {Kids(d) : d \in A}
        /\ 0 \in A /\ (A = D \/ Cardinality(A) >= i)
    BY <1>1, <1>5, <1>n, <2>1, <2>2
  <2>4. CASE A = D
    BY <1>n, <2>2, <2>3, <2>4
  <2>5. CASE A # D
    <3>1. A \subseteq B /\ A # B
      <4>1. PICK d \in A : ~(Kids(d) \subseteq A)
        BY <1>3, <2>3, <2>5
      <4> QED BY <2>3, <4>1
    <3>2. IsFiniteSet(B)
      BY <1>2, <2>3, FS_Subset
    <3>3. Cardinality(A) < Cardinality(B) /\ Cardinality(A) \in Nat /\ Cardinality(B) \in Nat
      <4>1. IsFiniteSet(A)
        BY <1>2, <2>3, FS_Subset
      <4>2. Cardinality(A) <= Cardinality(B) /\ (Cardinality(A) = Cardinality(B) => A = B)
        BY <3>1, <3>2, FS_Subset
      <4>3. Cardinality(A) \in Nat /\ Cardinality(B) \in Nat
        BY <3>2, <4>1, FS_CardinalityType
      <4> QED BY <3>1, <4>2, <4>3
    <3>4. Cardinality(B) >= i + 1
      BY <2>3, <2>5, <3>3
    <3> QED BY <1>n, <2>2, <2>3, <3>4
  <2> QED BY <2>4, <2>5
<1>6. NC \in P
  <2>1. \A i \in 0 .. NC : i \in P
    <3> HIDE DEF P
    <3> QED BY <1>n, <1>4, <1>5, SetInduction
  <2> QED BY <1>n, <2>1
<1>7. Dirs \in SUBSET D /\ (Dirs = D \/ Cardinality(Dirs) >= NC + 1)
  BY <1>1, <1>6, <1>n
<1>8. CASE Cardinality(Dirs) >= NC + 1
  <2> HIDE DEF All
  <2>1. Dirs \subseteq All
    BY <1>2, <1>7
  <2>2. Cardinality(Dirs) <= NC + 1 /\ (Cardinality(Dirs) = NC + 1 => Dirs = All)
    BY <1>2, <2>1, FS_Subset
  <2>3. Cardinality(Dirs) \in Nat
    BY <1>2, <2>1, FS_Subset, FS_CardinalityType
  <2>4. Dirs = All
    BY <1>8, <1>n, <2>2, <2>3
  <2> QED BY <1>2, <1>7, <2>4
<1> QED BY <1>7, <1>8

-----------------------------------------------------------------------------
(***************************************************************************)
(* What fat_write wrote is what fat_read finds.  fat_write erases the      *)
(* first file of the name, and whatever other file has the name comes      *)
(* after the place that frees, which is where the new entry goes or which  *)
(* a free place before it precedes.                                        *)
(***************************************************************************)
NameLeads ==
  job.op = "write" /\ job.pc # "idle" =>
    \A m \in Room(cur) : Match(sector, cur, m, "file", job.name) =>
      \/ Aims(m)
      \/ \E q \in 0 .. m - 1 : Aims(q) \/ Ent(sector, cur, q) \in {EndSlot, DelSlot}

ReadsNew ==
  /\ job.pc = "idle" /\ ret.op = "write" /\ ret.code = 0
  /\ split_83(ret.name) = ret.name
  => \E p : /\ First(sector, cur, "file", ret.name, p)
            /\ Ent(sector, cur, p).size = ret.size /\ Ent(sector, cur, p).tag = ret.tag

(* A call sets out to write with the name leading to the file to erase, or *)
(* to nothing.                                                             *)
LEMMA WriteCall ==
  ASSUME TInv, NEW D, Sound(D), ReadsNew, Call, faults' = faults
  PROVE  NameLeads' /\ ReadsNew'
<1> DEFINE T == fat[1]
<1>y. Types
  BY DEF TInv
<1>0. job.pc = "idle"
  BY DEF Call, FatInit, fat_delete, fat_rmdir, fat_write, fat_mkdir, fat_rename, fat_cd, fat_cd_up
<1>t. /\ T \in Tables /\ sector \in Contents /\ cur \in Cluster \cup {0} /\ Single(T, cur)
      /\ faults \in 0 .. MaxFaults
  BY <1>y, SoundSearch DEF Types
<1>i. Idle.pc = "idle" /\ Idle.op = ""
  BY DEF Idle
<1>f. ASSUME NEW op, op # "write", NEW name, NEW tag, NEW size, NEW code,
             Finish(op, name, tag, size, code)
      PROVE  NameLeads' /\ ReadsNew'
  BY <1>f, <1>i DEF Finish, NameLeads, ReadsNew
<1>s. ASSUME NEW op, op # "write", NEW name, NEW tag, NEW size, NEW p,
             StartRelease(op, name, tag, size, p)
      PROVE  NameLeads' /\ ReadsNew'
  <2>1. job'.pc = "free" /\ job'.op = op
    BY <1>s DEF StartRelease, Idle
  <2> QED BY <1>s, <2>1 DEF NameLeads, ReadsNew
<1>1. ASSUME NEW r \in Reads, FatInit(r) PROVE NameLeads' /\ ReadsNew'
  <2>1. UNCHANGED <<sector, cur, job, ret>>
    BY <1>1 DEF FatInit, disk
  <2> QED BY <1>0, <2>1 DEF NameLeads, ReadsNew, First, Match
<1>2. ASSUME NEW n \in FileNames, NEW r \in Reads, fat_delete(n, r)
      PROVE  NameLeads' /\ ReadsNew'
  BY <1>2, <1>f, <1>s DEF fat_delete
<1>3. ASSUME NEW n \in DirNames, NEW r \in Reads, fat_rmdir(n, r)
      PROVE  NameLeads' /\ ReadsNew'
  BY <1>3, <1>f, <1>s DEF fat_rmdir
<1>4. ASSUME NEW n \in FileNames, NEW t \in Tags, NEW z \in 0 .. MaxSize, NEW r \in Reads,
             fat_write(n, t, z, r)
      PROVE  NameLeads' /\ ReadsNew'
  <2>1. /\ UNCHANGED <<fat, sector, cur>>
        /\ \/ /\ ~(r = "ok" /\ Matches(T, cur, "file", n) # {})
              /\ job' = [Idle EXCEPT !.pc = "load", !.op = "write",
                                     !.name = n, !.tag = t, !.size = z]
           \/ /\ Matches(T, cur, "file", n) # {}
              /\ StartRelease("write", n, t, z, Least(Matches(T, cur, "file", n)))
    BY <1>4 DEF fat_write, disk
  <2>2. r = "ok"
    BY <1>4, <1>t, Geometry DEF fat_write, Count
  <2>3. CASE /\ Matches(T, cur, "file", n) = {}
             /\ job' = [Idle EXCEPT !.pc = "load", !.op = "write",
                                    !.name = n, !.tag = t, !.size = z]
    <3>1. job'.pc = "load" /\ job'.name = n
      BY <2>3 DEF Idle
    <3>2. ASSUME NEW m \in Room(cur), Match(sector, cur, m, "file", n)
          PROVE  \E q \in 0 .. m - 1 : Ent(sector, cur, q) = EndSlot
      <4> SUFFICES ASSUME \A q \in 0 .. m - 1 : Ent(sector, cur, q) # EndSlot PROVE FALSE
        OBVIOUS
      <4>1. Ent(sector, cur, m) # EndSlot
        <5>1. EndSlot.kind # "file"
          BY DEF EndSlot, Entry
        <5> QED BY <3>2, <5>1 DEF Match
      <4>2. \A q \in 0 .. m : Ent(sector, cur, q) # EndSlot
        <5>1. m \in Nat
          BY PlacesBefore
        <5>2. \A q \in 0 .. m : q = m \/ q \in 0 .. m - 1
          BY <5>1
        <5> QED BY <4>1, <5>2
      <4> HIDE DEF T
      <4>3. m \in Visible(T, cur)
        BY <1>t, <4>2, Seen
      <4>4. SlotAt(T, cur, m) = Ent(sector, cur, m)
        BY <1>t, SingleDirectory
      <4>5. m \in Matches(T, cur, "file", n)
        BY <3>2, <4>3, <4>4 DEF Matches, Match
      <4> QED BY <2>3, <4>5
    <3>3. NameLeads'
      BY <2>1, <3>1, <3>2 DEF NameLeads, Match
    <3> QED BY <3>1, <3>3 DEF ReadsNew
  <2>4. CASE /\ Matches(T, cur, "file", n) # {}
             /\ StartRelease("write", n, t, z, Least(Matches(T, cur, "file", n)))
    <3>1. /\ job'.pc = "free" /\ job'.name = n
          /\ \E p : First(sector, cur, "file", n, p) /\ Aims(p)'
      BY <1>y, <1>0, <2>1, <2>4, SoundRelease
    <3>2. PICK p : First(sector, cur, "file", n, p) /\ Aims(p)'
      BY <3>1
    <3>3. ASSUME NEW m \in Room(cur), Match(sector, cur, m, "file", n)
          PROVE  m = p \/ p \in 0 .. m - 1
      <4>1. p \in Nat /\ m \in Nat /\ m \notin 0 .. p - 1
        BY <3>2, <3>3, PlacesBefore DEF First
      <4> QED BY <4>1
    <3>4. NameLeads'
      BY <2>1, <3>1, <3>2, <3>3 DEF NameLeads, Match
    <3> QED BY <3>1, <3>4 DEF ReadsNew
  <2> QED BY <2>1, <2>2, <2>3, <2>4
<1>5. ASSUME NEW n \in DirNames, NEW r \in Reads, fat_mkdir(n, r)
      PROVE  NameLeads' /\ ReadsNew'
  <2>1. CASE Finish("mkdir", n, "", 0, -1)
    BY <1>f, <2>1
  <2>2. CASE job' = [Idle EXCEPT !.pc = "putfat", !.op = "mkdir", !.name = n,
                        !.first = fat_find_free_cluster(T),
                        !.buf = [T EXCEPT ![fat_find_free_cluster(T)] = EOC]]
    <3>1. job'.pc = "putfat" /\ job'.op = "mkdir"
      BY <2>2 DEF Idle
    <3> QED BY <3>1 DEF NameLeads, ReadsNew
  <2> QED BY <1>5, <2>1, <2>2 DEF fat_mkdir
<1>6. ASSUME NEW old \in FileNames, NEW new \in FileNames, NEW o \in Outcomes,
             fat_rename(old, new, o)
      PROVE  NameLeads' /\ ReadsNew'
  BY <1>6, <1>f DEF fat_rename
<1>7. ASSUME NEW n \in DirNames, NEW r \in Reads, fat_cd(n, r)
      PROVE  NameLeads' /\ ReadsNew'
  BY <1>7, <1>f DEF fat_cd
<1>8. CASE fat_cd_up
  BY <1>8, <1>f DEF fat_cd_up
<1> QED BY <1>1, <1>2, <1>3, <1>4, <1>5, <1>6, <1>7, <1>8 DEF Call

(* As long as the entries of the current directory stay, the name leads to *)
(* the place it led to.                                                    *)
LEMMA LeadsKept ==
  ASSUME NameLeads, job.pc # "idle", UNCHANGED cur,
         \A q \in Room(cur) : Ent(sector', cur, q) = Ent(sector, cur, q),
         job'.op = job.op, job'.name = job.name, \A q : Aims(q) => Aims(q)'
  PROVE  NameLeads'
<1> SUFFICES ASSUME job.op = "write", NEW m \in Room(cur),
                    Match(sector', cur, m, "file", job.name)
             PROVE  \/ Aims(m)'
                    \/ \E q \in 0 .. m - 1 :
                         Aims(q)' \/ Ent(sector', cur, q) \in {EndSlot, DelSlot}
  BY DEF NameLeads
<1>1. Match(sector, cur, m, "file", job.name)
  BY DEF Match
<1>2. CASE Aims(m)
  BY <1>2
<1>3. ASSUME NEW q \in 0 .. m - 1, Aims(q) \/ Ent(sector, cur, q) \in {EndSlot, DelSlot}
      PROVE  Aims(q)' \/ Ent(sector', cur, q) \in {EndSlot, DelSlot}
  <2>1. q \in Room(cur)
    <3>1. m \in Nat /\ \A x \in 0 .. m : x \in Room(cur)
      BY PlacesBefore
    <3>2. q \in 0 .. m
      BY <3>1
    <3> QED BY <3>1, <3>2
  <2> QED BY <1>3, <2>1
<1> QED BY <1>1, <1>2, <1>3 DEF NameLeads

(* The erase leaves a free place there. *)
LEMMA LeadsErased ==
  ASSUME Types, NameLeads, job.pc = "erase", job.op = "write", UNCHANGED cur,
         NEW p, Aims(p), Changed(p, DelSlot), job'.name = job.name
  PROVE  NameLeads'
<1>t. cur \in Cluster \cup {0} /\ DelSlot.kind = "del"
  BY DEF Types, DelSlot, Entry
<1> SUFFICES ASSUME NEW m \in Room(cur), Match(sector', cur, m, "file", job.name)
             PROVE  \E q \in 0 .. m - 1 : Ent(sector', cur, q) \in {EndSlot, DelSlot}
  BY DEF NameLeads
<1>1. m # p
  BY <1>t DEF Changed, Match
<1>2. Match(sector, cur, m, "file", job.name)
  BY <1>1, <1>t DEF Changed, Match
<1>3. \A q : Aims(q) => q = p
  <2>1. p \in Room(cur)
    BY DEF Changed
  <2> QED BY <1>t, <2>1, Places DEF Aims, Used
<1>4. PICK q \in 0 .. m - 1 : Aims(q) \/ Ent(sector, cur, q) \in {EndSlot, DelSlot}
  BY <1>1, <1>2, <1>3 DEF NameLeads
<1>5. q \in Room(cur)
  <2>1. m \in Nat /\ \A x \in 0 .. m : x \in Room(cur)
    BY PlacesBefore
  <2>2. q \in 0 .. m
    BY <2>1
  <2> QED BY <2>1, <2>2
<1>6. Ent(sector', cur, q) \in {EndSlot, DelSlot}
  BY <1>3, <1>4, <1>5, <1>t DEF Changed
<1> QED BY <1>6

(* The new entry is the first of its name. *)
LEMMA ReadsEntry ==
  ASSUME TInv, NameLeads, job.pc = "entry", job.op = "write",
         NEW p, FreePlace(sector, cur, p), Changed(p, NewEntry), cur' = cur,
         ret'.name = job.name, ret'.size = job.size, ret'.tag = job.tag
  PROVE  ReadsNew'
<1>t. cur \in Cluster \cup {0} /\ p \in Room(cur)
  BY DEF TInv, Types, Changed
<1> SUFFICES ASSUME split_83(job.name) = job.name
             PROVE  /\ First(sector', cur, "file", job.name, p)
                    /\ Ent(sector', cur, p).size = job.size
                    /\ Ent(sector', cur, p).tag = job.tag
  BY DEF ReadsNew
<1>1. Ent(sector', cur, p) = NewEntry
  BY <1>t DEF Changed
<1>2. /\ NewEntry.kind = "file" /\ NewEntry.name = job.name
      /\ NewEntry.size = job.size /\ NewEntry.tag = job.tag
  BY DEF NewEntry, Entry
<1>3. ASSUME NEW q \in 0 .. p - 1
      PROVE  Ent(sector', cur, q) # EndSlot /\ ~Match(sector', cur, q, "file", job.name)
  <2>0. p \in Nat /\ \A x \in 0 .. p : x \in Room(cur) /\ x \in Nat
    BY <1>t, PlacesBefore
  <2>1. q \in Room(cur) /\ q # p /\ q \in Nat
    BY <2>0
  <2>2. Ent(sector', cur, q) = Ent(sector, cur, q)
    BY <1>t, <2>1 DEF Changed
  <2>3. Ent(sector, cur, q) # EndSlot
    BY DEF FreePlace
  <2>4. ~Match(sector, cur, q, "file", job.name)
    <3> SUFFICES ASSUME Match(sector, cur, q, "file", job.name) PROVE FALSE
      OBVIOUS
    <3>1. \A x : ~Aims(x)
      BY DEF Aims
    <3>2. PICK x \in 0 .. q - 1 : Ent(sector, cur, x) \in {EndSlot, DelSlot}
      BY <2>1, <3>1 DEF NameLeads
    <3>3. x \in 0 .. p - 1
      BY <2>0, <2>1
    <3> QED BY <3>2, <3>3 DEF FreePlace
  <2> QED BY <2>2, <2>3, <2>4 DEF Match
<1> QED BY <1>1, <1>2, <1>3, <1>t DEF First, Match

(* A step of fat_write keeps the place, and the one that enters the name   *)
(* makes fat_read find it.                                                 *)
LEMMA WriteStep ==
  ASSUME TInv, TInv', Rising, NEW D, Sound(D), NameLeads, Step, faults' = faults, ~torn'
  PROVE  NameLeads' /\ ReadsNew'
<1>y. Types /\ Phases /\ faults \in 0 .. MaxFaults
  BY DEF TInv, Types
<1>t. cur \in D
  BY DEF Sound
<1>i. Idle.pc = "idle"
  BY DEF Idle
<1>o. ASSUME NEW o, Count(o) PROVE o = "ok"
  BY <1>o, <1>y, Geometry DEF Count
<1>r. ASSUME job' = Idle, ~(ret'.op = "write" /\ ret'.code = 0) PROVE NameLeads' /\ ReadsNew'
  BY <1>i, <1>r DEF NameLeads, ReadsNew
<1>n. job'.pc # "idle" => ReadsNew'
  BY DEF ReadsNew
<1>1. ASSUME NEW o \in Outcomes, FreeStep(o) PROVE NameLeads' /\ ReadsNew'
  <2>1. /\ UNCHANGED <<sector, cur>> /\ job.pc = "free" /\ job'.pc \in {"free", "erase"}
        /\ job'.op = job.op /\ job'.name = job.name
        /\ job'.at = job.at /\ job'.slot = job.slot
    BY <1>1, SoundFree DEF FreeStep
  <2>2. \A q : Aims(q) => Aims(q)'
    BY <2>1 DEF Aims
  <2> QED BY <1>n, <2>1, <2>2, LeadsKept
<1>2. ASSUME NEW o \in Outcomes, EraseStep(o) PROVE NameLeads' /\ ReadsNew'
  <2>1. o = "ok" /\ job.pc = "erase"
    BY <1>2, <1>o DEF EraseStep
  <2>2. CASE job.op # "write"
    <3>1. job' = Idle /\ ret'.op = job.op
      BY <1>2, <2>2 DEF EraseStep, Return, Finish
    <3> QED BY <1>r, <2>2, <3>1
  <2>3. CASE job.op = "write"
    <3>1. job'.pc = "load" /\ job'.name = job.name
      BY <1>2, <2>3 DEF EraseStep, Idle
    <3>2. PICK E : E = After(D)
      OBVIOUS
    <3>3. /\ UNCHANGED cur
          /\ \E p \in Used(sector, cur) :
              /\ Aims(p)
              /\ \A d \in Cluster \cup {0} : \A q \in Room(d) :
                   Ent(sector', d, q) = IF d = cur /\ q = p THEN DelSlot
                                        ELSE Ent(sector, d, q)
      BY <1>2, <3>2, SoundErase
    <3>4. PICK p \in Used(sector, cur) : Aims(p) /\ Changed(p, DelSlot)
      BY <3>3 DEF Changed, Used
    <3>5. NameLeads'
      BY <1>y, <2>1, <2>3, <3>1, <3>3, <3>4, LeadsErased
    <3> QED BY <1>n, <3>1, <3>5
  <2> QED BY <2>2, <2>3
<1>3. ASSUME NEW r \in Reads, LoadStep(r) PROVE NameLeads' /\ ReadsNew'
  <2>1. r = "ok" /\ job.pc = "load"
    BY <1>3, <1>o DEF LoadStep
  <2>2. /\ job'.pc # "idle" /\ job'.op = job.op /\ job'.name = job.name
    BY <1>3, <1>y, <2>1 DEF LoadStep, Types, Jobs
  <2>3. UNCHANGED <<sector, cur>> /\ \A q : ~Aims(q)
    BY <1>3, <2>1 DEF LoadStep, disk, Aims
  <2> QED BY <1>n, <2>1, <2>2, <2>3, LeadsKept
<1>4. ASSUME NEW o \in Outcomes, DataStep(o) PROVE NameLeads' /\ ReadsNew'
  <2>1. o = "ok" /\ job.pc = "data"
    BY <1>4, <1>o DEF DataStep
  <2>2. UNCHANGED cur /\ \A q \in Room(cur) : Ent(sector', cur, q) = Ent(sector, cur, q)
    BY <1>4, <1>t, SoundData
  <2>3. \A q : ~Aims(q)
    BY <2>1 DEF Aims
  <2>4. CASE Return(-1)
    BY <1>r, <2>4 DEF Return, Finish
  <2>5. CASE ~Return(-1)
    <3>1. job'.pc # "idle" /\ job'.op = job.op /\ job'.name = job.name
      BY <1>4, <1>y, <2>1, <2>5 DEF DataStep, Types, Jobs
    <3> QED BY <1>n, <2>1, <2>2, <2>3, <3>1, LeadsKept
  <2> QED BY <2>4, <2>5
<1>5. ASSUME NEW o \in Outcomes, PutFatStep(o) PROVE NameLeads' /\ ReadsNew'
  <2>1. o = "ok" /\ job.pc = "putfat"
    BY <1>5, <1>o DEF PutFatStep
  <2>2. job'.pc # "idle" /\ job'.op = job.op /\ job'.name = job.name
    BY <1>5, <1>y, <2>1 DEF PutFatStep, Types, Jobs
  <2>3. UNCHANGED <<sector, cur>> /\ \A q : ~Aims(q)
    BY <1>5, <2>1 DEF PutFatStep, Aims
  <2> QED BY <1>n, <2>1, <2>2, <2>3, LeadsKept
<1>6. ASSUME NEW o \in Outcomes, DotsStep(o) PROVE NameLeads' /\ ReadsNew'
  <2>1. o = "ok" /\ job.pc = "dots"
    BY <1>6, <1>o DEF DotsStep
  <2>2. job'.pc # "idle" /\ job'.op = job.op /\ job'.name = job.name
    BY <1>6, <1>y, <2>1 DEF DotsStep, Types, Jobs
  <2>3. \A q : ~Aims(q)
    BY <2>1 DEF Aims
  <2>4. UNCHANGED cur /\ \A q \in Room(cur) : Ent(sector', cur, q) = Ent(sector, cur, q)
    BY <1>6, <1>t, SoundDots
  <2> QED BY <1>n, <2>1, <2>2, <2>3, <2>4, LeadsKept
<1>7. ASSUME NEW o \in Outcomes, EntryStep(o) PROVE NameLeads' /\ ReadsNew'
  <2>1. o = "ok" /\ job.pc = "entry"
    BY <1>7, <1>o DEF EntryStep
  <2>r. (FreeSlots(job.buf, cur) = {} /\ Return(-1)) \/ (FreeSlots(job.buf, cur) # {} /\ Return(0))
    BY <1>7, <2>1 DEF EntryStep
  <2>2. CASE FreeSlots(job.buf, cur) = {} \/ job.op # "write"
    <3>1. job' = Idle /\ ret'.op = job.op /\ (FreeSlots(job.buf, cur) = {} => ret'.code = -1)
      BY <2>r DEF Return, Finish
    <3> QED BY <1>r, <2>2, <3>1
  <2>3. CASE FreeSlots(job.buf, cur) # {} /\ job.op = "write"
    <3>1. /\ job' = Idle /\ ret'.name = job.name /\ ret'.size = job.size
          /\ ret'.tag = job.tag
      BY <2>r DEF Return, Finish
    <3>2. PICK E : E = After(D)
      OBVIOUS
    <3>3. /\ UNCHANGED cur
          /\ \/ FreeSlots(fat[1], cur) = {} \/ o # "ok"
             \/ \E p : /\ FreePlace(sector, cur, p)
                       /\ \A d \in Cluster \cup {0} : \A q \in Room(d) :
                            Ent(sector', d, q) = IF d = cur /\ q = p THEN NewEntry
                                                 ELSE Ent(sector, d, q)
      BY <1>7, <3>2, SoundEntry
    <3>4. fat[1] = job.buf
      BY <2>1 DEF Sound, Adds
    <3>5. PICK p : /\ FreePlace(sector, cur, p)
                   /\ \A d \in Cluster \cup {0} : \A q \in Room(d) :
                        Ent(sector', d, q) = IF d = cur /\ q = p THEN NewEntry
                                             ELSE Ent(sector, d, q)
      BY <2>1, <2>3, <3>3, <3>4
    <3>6. Changed(p, NewEntry)
      BY <3>5 DEF Changed, FreePlace
    <3>7. ReadsNew'
      BY <2>1, <2>3, <3>1, <3>3, <3>5, <3>6, ReadsEntry
    <3>8. NameLeads'
      BY <1>i, <3>1 DEF NameLeads
    <3> QED BY <3>7, <3>8
  <2> QED BY <2>2, <2>3
<1>8. CASE EntryReadError
  <2>1. faults' = faults + 1
    BY <1>8 DEF EntryReadError
  <2> QED BY <1>y, <2>1, Geometry
<1> QED BY <1>1, <1>2, <1>3, <1>4, <1>5, <1>6, <1>7, <1>8 DEF Step

(* The contents of a file, as much of them as the buffer holds: all were   *)
(* written with one tag.                                                   *)
LEMMA EntryReads ==
  ASSUME Types, NEW D, Sound(D), job.pc \notin {"free", "erase"}, NEW buf_size \in Nat,
         NEW p \in Used(sector, cur), Ent(sector, cur, p).kind = "file"
  PROVE  LET e == Ent(sector, cur, p)
             n == IF e.size <= buf_size THEN e.size ELSE buf_size
         IN  /\ e.size \in 0 .. MaxSize /\ e.tag \in Tags
             /\ SlotAt(fat[1], cur, p) = e
             /\ ReadFile(e, buf_size) = Written(e.tag, n)
<1>2. PICK T : T = fat[1]
  OBVIOUS
<1>3. PICK e : e = Ent(sector, cur, p)
  OBVIOUS
<1>4. /\ T \in Tables /\ sector \in Contents /\ cur \in Cluster \cup {0} /\ Single(T, cur)
      /\ cur \in D
  BY <1>2, SoundSearch
<1>5. p \in Used(sector, cur) /\ p \in Room(cur) /\ e.kind = "file" /\ e \in Slots
  BY <1>3, <1>4, EntryTypes DEF Used
<1>6. e.size \in 0 .. MaxSize /\ e.tag \in Tags
  <2>1. e \in [kind : {"file"}, name : Names, first : Cluster \cup {0},
               size : 0 .. MaxSize, tag : Tags]
    BY <1>5, KindsOfSlots
  <2> QED BY <2>1
<1>m. PICK m : m = IF e.size <= buf_size THEN e.size ELSE buf_size
  OBVIOUS
<1>7. Holds(sector, T, e.first, e.tag, e.size)
  <2>1. Intact(sector, T, D, {})
    BY <1>2, SoundTree
  <2> QED BY <1>3, <1>4, <1>5, <2>1 DEF Intact
<1>9. SlotAt(T, cur, p) = e
  BY <1>3, <1>4, <1>5, SingleDirectory
<1> DEFINE chain == Follow(fat[1], e.first)
           short == {k \in 0 .. e.size - 1 : chain[k \div SPC] \notin Cluster}
           n     == Least({e.size, buf_size} \cup short)
<1>10. short = {}
  <2>1. \A k \in 0 .. e.size - 1 : chain[k \div SPC] \in Cluster
    BY <1>2, <1>7 DEF Holds
  <2> HIDE DEF chain
  <2> QED BY <2>1
<1>11. n = m
  <2>1. n = Least({e.size, buf_size})
    <3>1. {e.size, buf_size} \cup short = {e.size, buf_size}
      BY <1>10
    <3> QED BY <3>1
  <2>2. PICK S : S = {e.size, buf_size}
    OBVIOUS
  <2>3. S \in SUBSET Nat /\ S # {}
    BY <1>6, <2>2, Geometry
  <2>4. Least(S) \in S /\ \A k \in S : Least(S) <= k
    BY <2>3, LeastIsLeast
  <2> HIDE DEF n
  <2> QED BY <1>6, <1>m, <2>1, <2>2, <2>4, Geometry
<1>12. \A k \in 1 .. m : sector[<<chain[(k - 1) \div SPC], (k - 1) % SPC>>]
                            = [tag |-> e.tag, k |-> k - 1]
  <2> SUFFICES ASSUME NEW k \in 1 .. m
               PROVE  sector[<<chain[(k - 1) \div SPC], (k - 1) % SPC>>]
                        = [tag |-> e.tag, k |-> k - 1]
    OBVIOUS
  <2>1. PICK j : j = k - 1
    OBVIOUS
  <2>2. j \in 0 .. e.size - 1
    BY <1>6, <1>m, <2>1
  <2>3. sector[<<chain[j \div SPC], j % SPC>>] = [tag |-> e.tag, k |-> j]
    BY <1>2, <1>7, <2>2 DEF Holds
  <2> HIDE DEF chain
  <2> QED BY <2>1, <2>3
<1>13. ReadFile(e, buf_size)
         = [code |-> n,
            data |-> [k \in 1 .. n |-> sector[<<chain[(k - 1) \div SPC], (k - 1) % SPC>>]]]
  BY Zenon DEF ReadFile
<1> HIDE DEF n, chain
<1>14. [k \in 1 .. m |-> sector[<<chain[(k - 1) \div SPC], (k - 1) % SPC>>]]
         = [k \in 1 .. m |-> [tag |-> e.tag, k |-> k - 1]]
  BY <1>12
<1>15. ReadFile(e, buf_size) = Written(e.tag, m)
  BY <1>11, <1>13, <1>14 DEF Written
<1> QED BY <1>2, <1>3, <1>6, <1>9, <1>m, <1>15

(* fat_read reads the first file of the name. *)
LEMMA FileReads ==
  ASSUME Types, NEW D, Sound(D), job.pc \notin {"free", "erase"},
         NEW name, NEW buf_size \in Nat, NEW p, First(sector, cur, "file", name, p)
  PROVE  LET e == Ent(sector, cur, p)
             n == IF e.size <= buf_size THEN e.size ELSE buf_size
         IN  /\ e.size \in 0 .. MaxSize /\ e.tag \in Tags
             /\ fat_read(name, buf_size) = Written(e.tag, n)
<1>1. PICK T : T = fat[1]
  OBVIOUS
<1>2. PICK e : e = Ent(sector, cur, p)
  OBVIOUS
<1>m. PICK m : m = IF e.size <= buf_size THEN e.size ELSE buf_size
  OBVIOUS
<1>3. p \in Used(sector, cur) /\ e.kind = "file"
  BY <1>2 DEF First, Match, Used
<1>4. /\ e.size \in 0 .. MaxSize /\ e.tag \in Tags
      /\ SlotAt(T, cur, p) = e /\ ReadFile(e, buf_size) = Written(e.tag, m)
  BY <1>1, <1>2, <1>3, <1>m, EntryReads
<1>5. /\ Matches(T, cur, "file", name) # {}
      /\ Least(Matches(T, cur, "file", name)) = p
  <2>1. T \in Tables /\ sector \in Contents /\ cur \in Cluster \cup {0} /\ Single(T, cur)
    BY <1>1, SoundSearch
  <2>2. First(sector, cur, "file", name, p) /\ "file" # "end"
    OBVIOUS
  <2> QED BY <2>1, <2>2, SearchFinds
<1>6. fat_read(name, buf_size) = ReadFile(e, buf_size)
  <2>1. fat_read(name, buf_size) =
          IF Matches(fat[1], cur, "file", name) = {} THEN [code |-> -1, data |-> <<>>]
          ELSE ReadFile(SlotAt(fat[1], cur, Least(Matches(fat[1], cur, "file", name))), buf_size)
    BY Zenon DEF fat_read
  <2> QED BY <1>1, <1>4, <1>5, <2>1
<1> QED BY <1>2, <1>4, <1>6, <1>m

(* It reads the entry that fat_write has made, and all of its file. *)
LEMMA ReadsBack ==
  ASSUME Types, NEW D, Sound(D), job.pc = "idle", ret.op = "write", ret.code = 0,
         split_83(ret.name) = ret.name, ReadsNew
  PROVE  fat_read(ret.name, MaxSize) = Written(ret.tag, ret.size)
<1>1. PICK p : /\ First(sector, cur, "file", ret.name, p)
               /\ Ent(sector, cur, p).size = ret.size /\ Ent(sector, cur, p).tag = ret.tag
  BY DEF ReadsNew
<1>2. PICK name : name = ret.name
  OBVIOUS
<1>3. PICK e : e = Ent(sector, cur, p)
  OBVIOUS
<1>4. /\ e.size \in 0 .. MaxSize
      /\ fat_read(name, MaxSize)
           = Written(e.tag, IF e.size <= MaxSize THEN e.size ELSE MaxSize)
  BY <1>1, <1>2, <1>3, FileReads, Geometry
<1>5. e.size <= MaxSize
  BY <1>4, Geometry
<1> QED BY <1>1, <1>2, <1>3, <1>4, <1>5

-----------------------------------------------------------------------------
(***************************************************************************)
(* No cluster is lost.  As long as no access failed and nothing was        *)
(* dropped, a cluster that is taken, in memory if the operation has a      *)
(* table there, belongs to an entry that is not being released, is freed   *)
(* in memory by a release, or is in the chain that is being built.         *)
(***************************************************************************)
Busy   == job.pc \in {"data", "putfat", "dots", "entry"}
Memory == IF Busy THEN job.buf ELSE fat[1]

Belongs(D, c) ==
  \E d \in D : \E q \in Used(sector, d) :
    ~(d = cur /\ Aims(q)) /\ c \in Chain(sector, fat[1], d, q)

Accounted(D, c) ==
  \/ Belongs(D, c)
  \/ job.pc = "free" /\ job.buf[c] = 0
  \/ Busy /\ c \in ChainOf(job.buf, job.first)

Taken(D) == faults = 0 /\ ~leaky => \A c \in Cluster : Memory[c] # 0 => Accounted(D, c)

(* An entry with the cluster in its chain stays. *)
LEMMA StillBelongs ==
  ASSUME NEW D, NEW E, NEW c, Belongs(D, c),
         \A d \in D : \A q \in Used(sector, d) :
           ~(d = cur /\ Aims(q)) /\ c \in Chain(sector, fat[1], d, q) =>
             /\ d \in E /\ q \in Used(sector', d) /\ ~(d = cur' /\ Aims(q)')
             /\ c \in Chain(sector', fat'[1], d, q)
  PROVE  Belongs(E, c)'
<1>1. PICK d \in D : \E q \in Used(sector, d) :
        ~(d = cur /\ Aims(q)) /\ c \in Chain(sector, fat[1], d, q)
  BY DEF Belongs
<1>2. PICK q \in Used(sector, d) :
        ~(d = cur /\ Aims(q)) /\ c \in Chain(sector, fat[1], d, q)
  BY <1>1
<1>3. /\ d \in E /\ q \in Used(sector', d) /\ ~(d = cur' /\ Aims(q)')
      /\ c \in Chain(sector', fat'[1], d, q)
  BY <1>2
<1> QED BY <1>3 DEF Belongs

(* The entries in use stay in use with their chains. *)
LEMMA SameBelongs ==
  ASSUME NEW D, NEW c, Belongs(D, c), fat' = fat, Same(D),
         \A q : cur' \in D /\ Aims(q)' => cur' = cur /\ Aims(q)
  PROVE  Belongs(D, c)'
<1>1. ASSUME NEW d \in D, NEW q \in Used(sector, d),
             ~(d = cur /\ Aims(q)) /\ c \in Chain(sector, fat[1], d, q)
      PROVE  /\ q \in Used(sector', d) /\ ~(d = cur' /\ Aims(q)')
             /\ c \in Chain(sector', fat'[1], d, q)
  <2>1. q \in Room(d) /\ Ent(sector', d, q) = Ent(sector, d, q)
    BY DEF Same, Used
  <2> QED BY <1>1, <2>1 DEF Used, Chain
<1> QED BY <1>1, StillBelongs

(* Between operations every taken cluster belongs to an entry. *)
LEMMA AtRest ==
  ASSUME NEW D, Taken(D), faults = 0, ~leaky, job.pc \in {"idle", "load", "erase"},
         NEW c \in Cluster, fat[1][c] # 0
  PROVE  Belongs(D, c)
<1>1. ~Busy /\ job.pc # "free" /\ Memory = fat[1]
  BY DEF Busy, Memory
<1> QED BY <1>1 DEF Taken, Accounted

(* It is enough to show that for the state after a step.                   *)
LEMMA AtRestNext ==
  ASSUME NEW D, job'.pc \in {"idle", "load", "erase"},
         \A c \in Cluster : fat'[1][c] # 0 => Belongs(D, c)'
  PROVE  Taken(D)'
<1>1. ~Busy' /\ Memory' = fat'[1]
  BY DEF Busy, Memory
<1> QED BY <1>1 DEF Taken, Accounted

(* A call that changes nothing but a name. *)
LEMMA TakenIdle ==
  ASSUME Types, NEW D, Sound(D), Taken(D), faults = 0, ~leaky, job.pc = "idle",
         job'.pc \in {"idle", "load"}, fat' = fat, Effects(D, D)
  PROVE  Taken(D)'
<1>a. \A q : ~Aims(q)'
  BY DEF Aims
<1>t. cur \in D /\ sector \in Contents /\ \A d \in D : d \in Cluster \cup {0}
  BY SoundSearch
<1> SUFFICES ASSUME NEW c \in Cluster, fat'[1][c] # 0 PROVE Belongs(D, c)'
  BY AtRestNext
<1>1. Belongs(D, c)
  BY AtRest
<1>2. CASE Same(D)
  BY <1>1, <1>2, <1>a, SameBelongs
<1>3. CASE Renames(D, D)
  <2>0. PICK old \in FileNames, new \in Names : \E p :
           /\ First(sector, cur, "file", old, p)
           /\ Changed(p, [Ent(sector, cur, p) EXCEPT !.name = new])
    BY <1>3 DEF Renames
  <2>1. PICK p :
           /\ First(sector, cur, "file", old, p)
           /\ Changed(p, [Ent(sector, cur, p) EXCEPT !.name = new])
    BY <2>0
  <2>2. p \in Room(cur) /\ Ent(sector, cur, p).kind = "file"
    BY <2>1 DEF First, Match
  <2>3. PICK ent : ent = [Ent(sector, cur, p) EXCEPT !.name = new]
    OBVIOUS
  <2>4. ent.kind = "file" /\ ent.first = Ent(sector, cur, p).first
    <3>1. Ent(sector, cur, p) \in Slots
      BY <1>t, <2>2, EntryTypes
    <3>2. Ent(sector, cur, p) \in [kind : {"file"}, name : Names, first : Cluster \cup {0},
                     size : 0 .. MaxSize, tag : Tags]
      BY <2>2, <3>1, KindsOfSlots
    <3> QED BY <2>2, <2>3, <3>2
  <2>5. Changed(p, ent)
    BY <2>1, <2>3
  <2>6. \A d \in D : \A q \in Used(sector, d) :
          q \in Used(sector', d) /\ Ent(sector', d, q).first = Ent(sector, d, q).first
    BY <1>t, <2>2, <2>4, <2>5 DEF Changed, Used
  <2> QED BY <1>1, <1>a, <2>6, StillBelongs DEF Chain
<1>4. CASE UNCHANGED sector
  <2>1. Same(D)
    BY <1>4 DEF Same
  <2> QED BY <1>2, <2>1
<1>5. ~Erases(D, D) /\ ~Enters(D, D)
  BY DEF Erases, Enters
<1> QED BY <1>2, <1>3, <1>4, <1>5 DEF Effects

(* A release frees in memory the chain of the entry it found. *)
LEMMA TakenRelease ==
  ASSUME Types, NEW D, Sound(D), Taken(D), faults = 0, ~leaky, job.pc = "idle",
         UNCHANGED <<fat, sector, cur>>,
         NEW op \in {"delete", "rmdir", "write"}, NEW kind \in {"file", "dir"},
         op = "rmdir" <=> kind = "dir", NEW name, NEW tag, NEW size,
         Matches(fat[1], cur, kind, name) # {},
         StartRelease(op, name, tag, size, Least(Matches(fat[1], cur, kind, name)))
  PROVE  Taken(D)'
<1>1. /\ job'.pc = "free"
      /\ \E p : /\ First(sector, cur, kind, name, p) /\ Aims(p)'
                /\ job'.buf = Release(fat[1], Ent(sector, cur, p).first)
  BY SoundRelease
<1>2. PICK p : /\ First(sector, cur, kind, name, p) /\ Aims(p)'
               /\ job'.buf = Release(fat[1], Ent(sector, cur, p).first)
  BY <1>1
<1>t. cur \in D /\ \A d \in D : d \in Cluster \cup {0}
  BY SoundSearch
<1>3. \A q \in Room(cur) : Aims(q)' => q = p
  <2>1. p \in Room(cur)
    BY <1>2 DEF First
  <2> QED BY <1>2, <1>t, <2>1, Places DEF Aims
<1> SUFFICES ASSUME NEW c \in Cluster, fat[1][c] # 0
             PROVE  Belongs(D, c)' \/ job'.buf[c] = 0
  <2>1. ~Busy' /\ Memory' = fat[1]
    BY <1>1 DEF Busy, Memory
  <2> QED BY <1>1, <2>1 DEF Taken, Accounted
<1>4. Belongs(D, c)
  BY AtRest
<1>5. CASE c \in Chain(sector, fat[1], cur, p)
  <2>1. job'.buf[c] = 0
    BY <1>2, <1>5 DEF Release, Chain
  <2> QED BY <2>1
<1>6. CASE c \notin Chain(sector, fat[1], cur, p)
  <2>1. ASSUME NEW d \in D, NEW q \in Used(sector, d),
               ~(d = cur /\ Aims(q)) /\ c \in Chain(sector, fat[1], d, q)
        PROVE  ~(d = cur' /\ Aims(q)')
    <3>1. q \in Room(d)
      BY DEF Used
    <3> QED BY <1>3, <1>6, <2>1, <3>1
  <2>2. Belongs(D, c)'
    BY <1>4, <2>1, StillBelongs
  <2> QED BY <2>2
<1> QED BY <1>5, <1>6

(* fat_mkdir takes one cluster in memory. *)
LEMMA TakenMkdir ==
  ASSUME Types, NEW D, Sound(D), Taken(D), faults = 0, ~leaky, job.pc = "idle",
         UNCHANGED <<fat, sector, cur>>,
         NEW c, c = fat_find_free_cluster(fat[1]), c # 0,
         job'.pc = "putfat", job'.first = c, job'.buf = [fat[1] EXCEPT ![c] = EOC]
  PROVE  Taken(D)'
<1>t. fat[1] \in Tables /\ EOC \in Link
  BY SoundSearch DEF Link
<1>1. c \in Cluster /\ fat[1][c] = 0
  BY <1>t, FreeCluster
<1>2. job'.buf \in Tables /\ \A x \in Cluster : x # c => job'.buf[x] = fat[1][x]
  BY <1>t, <1>1 DEF Tables
<1>3. c \in ChainOf(job'.buf, c)
  <2>1. c \in Link
    BY <1>1 DEF Link
  <2> QED BY <1>1, <1>2, <2>1, ChainStart
<1> SUFFICES ASSUME NEW x \in Cluster, job'.buf[x] # 0
             PROVE  Belongs(D, x)' \/ x \in ChainOf(job'.buf, c)
  <2>1. Busy' /\ Memory' = job'.buf
    BY DEF Busy, Memory
  <2> QED BY <2>1 DEF Taken, Accounted
<1>4. CASE x # c
  <2>1. Belongs(D, x)
    BY <1>2, <1>4, AtRest
  <2>2. Same(D) /\ \A q : ~Aims(q)'
    BY DEF Same, Aims
  <2> QED BY <2>1, <2>2, SameBelongs
<1> QED BY <1>3, <1>4

(* A call that changes nothing, or sets out to change something.           *)
LEMMA TakenCall ==
  ASSUME TInv, NEW D, Sound(D), Taken(D), faults = 0, ~leaky, Effects(D, D), Call
  PROVE  Taken(D)'
<1> DEFINE T == fat[1]
<1>y. Types
  BY DEF TInv
<1>0. job.pc = "idle"
  BY DEF Call, FatInit, fat_delete, fat_rmdir, fat_write, fat_mkdir, fat_rename, fat_cd, fat_cd_up
<1>i. Idle.pc = "idle"
  BY DEF Idle
<1>r. ASSUME fat' = fat, job'.pc \in {"idle", "load"} PROVE Taken(D)'
  BY <1>0, <1>r, <1>y, TakenIdle
<1>1. ASSUME NEW r \in Reads, FatInit(r) PROVE Taken(D)'
  <2>1. UNCHANGED <<fat, job>>
    BY <1>1 DEF FatInit, disk
  <2> QED BY <1>0, <1>r, <2>1
<1>2. ASSUME NEW n \in FileNames, NEW r \in Reads, fat_delete(n, r) PROVE Taken(D)'
  <2>1. /\ UNCHANGED <<fat, sector, cur>>
        /\ \/ job' = Idle
           \/ /\ Matches(T, cur, "file", n) # {}
              /\ StartRelease("delete", n, "", 0, Least(Matches(T, cur, "file", n)))
    BY <1>2 DEF fat_delete, disk, Finish
  <2>2. CASE job' = Idle
    BY <1>i, <1>r, <2>1, <2>2
  <2>3. CASE /\ Matches(T, cur, "file", n) # {}
             /\ StartRelease("delete", n, "", 0, Least(Matches(T, cur, "file", n)))
    BY <1>y, <1>0, <2>1, <2>3, TakenRelease
  <2> QED BY <2>1, <2>2, <2>3
<1>3. ASSUME NEW n \in DirNames, NEW r \in Reads, fat_rmdir(n, r) PROVE Taken(D)'
  <2>1. /\ UNCHANGED <<fat, sector, cur>>
        /\ \/ job' = Idle
           \/ /\ Matches(T, cur, "dir", n) # {}
              /\ StartRelease("rmdir", n, "", 0, Least(Matches(T, cur, "dir", n)))
    BY <1>3 DEF fat_rmdir, disk, Finish
  <2>2. CASE job' = Idle
    BY <1>i, <1>r, <2>1, <2>2
  <2>3. CASE /\ Matches(T, cur, "dir", n) # {}
             /\ StartRelease("rmdir", n, "", 0, Least(Matches(T, cur, "dir", n)))
    BY <1>y, <1>0, <2>1, <2>3, TakenRelease
  <2> QED BY <2>1, <2>2, <2>3
<1>4. ASSUME NEW n \in FileNames, NEW t \in Tags, NEW z \in 0 .. MaxSize, NEW r \in Reads,
             fat_write(n, t, z, r)
      PROVE  Taken(D)'
  <2>1. /\ UNCHANGED <<fat, sector, cur>>
        /\ \/ job' = [Idle EXCEPT !.pc = "load", !.op = "write",
                                  !.name = n, !.tag = t, !.size = z]
           \/ /\ Matches(T, cur, "file", n) # {}
              /\ StartRelease("write", n, t, z, Least(Matches(T, cur, "file", n)))
    BY <1>4 DEF fat_write, disk
  <2>2. CASE job' = [Idle EXCEPT !.pc = "load", !.op = "write",
                                 !.name = n, !.tag = t, !.size = z]
    <3>1. job'.pc = "load"
      BY <2>2 DEF Idle
    <3> QED BY <1>r, <2>1, <3>1
  <2>3. CASE /\ Matches(T, cur, "file", n) # {}
             /\ StartRelease("write", n, t, z, Least(Matches(T, cur, "file", n)))
    BY <1>y, <1>0, <2>1, <2>3, TakenRelease
  <2> QED BY <2>1, <2>2, <2>3
<1>5. ASSUME NEW n \in DirNames, NEW r \in Reads, fat_mkdir(n, r) PROVE Taken(D)'
  <2>c. PICK c : c = fat_find_free_cluster(T)
    OBVIOUS
  <2>1. /\ UNCHANGED <<fat, sector, cur>>
        /\ \/ job' = Idle
           \/ /\ c # 0
              /\ job' = [Idle EXCEPT !.pc = "putfat", !.op = "mkdir", !.name = n,
                                     !.first = c, !.buf = [T EXCEPT ![c] = EOC]]
    BY <1>5, <2>c DEF fat_mkdir, disk, Finish
  <2>2. CASE job' = Idle
    BY <1>i, <1>r, <2>1, <2>2
  <2>3. CASE /\ c # 0
             /\ job' = [Idle EXCEPT !.pc = "putfat", !.op = "mkdir", !.name = n,
                                    !.first = c, !.buf = [T EXCEPT ![c] = EOC]]
    <3>1. /\ job'.pc = "putfat" /\ job'.first = c
          /\ job'.buf = [T EXCEPT ![c] = EOC]
      BY <2>3 DEF Idle
    <3> QED BY <1>y, <1>0, <2>1, <2>3, <2>c, <3>1, TakenMkdir
  <2> QED BY <2>1, <2>2, <2>3
<1>6. ASSUME NEW old \in FileNames, NEW new \in FileNames, NEW o \in Outcomes,
             fat_rename(old, new, o)
      PROVE  Taken(D)'
  <2>1. fat' = fat /\ job' = Idle
    BY <1>6 DEF fat_rename, Finish
  <2> QED BY <1>i, <1>r, <2>1
<1>7. ASSUME NEW n \in DirNames, NEW r \in Reads, fat_cd(n, r) PROVE Taken(D)'
  <2>1. fat' = fat /\ job' = Idle
    BY <1>7 DEF fat_cd, disk, Finish
  <2> QED BY <1>i, <1>r, <2>1
<1>8. CASE fat_cd_up
  <2>1. fat' = fat /\ job' = Idle
    BY <1>8 DEF fat_cd_up, disk, Finish
  <2> QED BY <1>i, <1>r, <2>1
<1> QED BY <1>1, <1>2, <1>3, <1>4, <1>5, <1>6, <1>7, <1>8 DEF Call

(* A write of write_fat during a release frees clusters of the released    *)
(* chain only, and the last one has freed them all.                        *)
LEMMA TakenFree ==
  ASSUME TInv, TInv', Copying, NEW D, Sound(D), Taken(D), faults = 0, ~leaky, FreeStep("ok")
  PROVE  Taken(D)'
<1>y. Types
  BY DEF TInv
<1>0. /\ job.pc = "free" /\ fat' = PutFatSector(job.w, job.buf)
      /\ job'.pc = "erase" => job.w = LastFatSector
  <2>1. /\ job.pc = "free" /\ fat' = PutFatSector(job.w, job.buf)
        /\ job.w # LastFatSector => job' = [job EXCEPT !.w = @ + 1]
    BY DEF FreeStep
  <2>2. job.w # LastFatSector => job'.pc = "free"
    BY <1>y, <2>1, JobFields DEF Jobs
  <2> QED BY <2>1, <2>2
<1>1. /\ UNCHANGED <<sector, cur>> /\ job'.pc \in {"free", "erase"}
      /\ job'.at = job.at /\ job'.slot = job.slot /\ job'.buf = job.buf
      /\ \A c \in Cluster : fat'[1][c] \in {fat[1][c], job.buf[c]}
      /\ \E p : /\ Aims(p) /\ Aims(p)'
                /\ \A d \in D : \A q \in Used(sector, d) : d # cur \/ q # p =>
                     Chain(sector, fat'[1], d, q) = Chain(sector, fat[1], d, q)
  BY SoundFree
<1>2. PICK p : /\ Aims(p)
               /\ \A d \in D : \A q \in Used(sector, d) : d # cur \/ q # p =>
                    Chain(sector, fat'[1], d, q) = Chain(sector, fat[1], d, q)
  BY <1>1
<1>3. \A q : Aims(q)' => Aims(q)
  BY <1>0, <1>1 DEF Aims
<1>4. ASSUME NEW c \in Cluster, Belongs(D, c) PROVE Belongs(D, c)'
  <2>1. ASSUME NEW d \in D, NEW q \in Used(sector, d),
               ~(d = cur /\ Aims(q)), c \in Chain(sector, fat[1], d, q)
        PROVE  /\ q \in Used(sector', d) /\ ~(d = cur' /\ Aims(q)')
               /\ c \in Chain(sector', fat'[1], d, q)
    <3>1. d # cur \/ q # p
      BY <1>2, <2>1
    <3>2. c \in Chain(sector, fat'[1], d, q)
      BY <1>2, <2>1, <3>1
    <3> QED BY <1>1, <1>3, <2>1, <3>2
  <2> QED BY <1>4, <2>1, StillBelongs
<1>5. ASSUME NEW c \in Cluster, fat'[1][c] # 0
      PROVE  Belongs(D, c)' \/ job.buf[c] = 0
  <2>1. job.buf[c] \in {0, fat[1][c]}
    BY <1>0 DEF Sound, Releases
  <2>2. fat[1][c] # 0
    BY <1>1, <1>5, <2>1
  <2>3. ~Busy /\ Memory = fat[1]
    BY <1>0 DEF Busy, Memory
  <2>4. Belongs(D, c) \/ job.buf[c] = 0
    BY <2>2, <2>3 DEF Taken, Accounted
  <2> QED BY <1>4, <2>4
<1>6. CASE job'.pc = "free"
  <2>1. ~Busy' /\ Memory' = fat'[1]
    BY <1>6 DEF Busy, Memory
  <2> QED BY <1>1, <1>5, <1>6, <2>1 DEF Taken, Accounted
<1>7. CASE job'.pc = "erase"
  <2>1. ASSUME NEW c \in Cluster PROVE fat'[1][c] = job.buf[c]
    <3>1. job.buf \in Tables /\ job.w \in 0 .. LastFatSector /\ LastFatSector \in Nat
      BY <1>y, JobFields, IdleJob
    <3>2. fat'[1][c] = IF WriteOf(1, c) = job.w THEN job.buf[c] ELSE fat[1][c]
      BY <1>0, <1>y, <3>1, FirstCopy
    <3>3. WriteOf(1, c) \in 0 .. LastFatSector /\ 1 \in 1 .. FatCount
      BY WritesApart, Geometry
    <3>4. WriteOf(1, c) < job.w => fat[1][c] = job.buf[c]
      BY <1>0, <3>3 DEF Copying
    <3> QED BY <1>0, <1>7, <3>1, <3>2, <3>3, <3>4
  <2>2. \A c \in Cluster : fat'[1][c] # 0 => Belongs(D, c)'
    BY <1>5, <2>1
  <2> QED BY <1>7, <2>2, AtRestNext
<1> QED BY <1>1, <1>6, <1>7

(* The entry that is erased owns nothing any more, nor does anything in a  *)
(* directory that goes with it, because it is empty.                       *)
LEMMA TakenErase ==
  ASSUME TInv, NEW D, Sound(D), EndsLast(D), Taken(D), faults = 0, ~leaky,
         EraseStep("ok"), ~torn', [Next]_vars, ~leaky', NEW E, E = After(D)
  PROVE  Taken(E)'
<1>y. Types
  BY DEF TInv
<1>t. cur \in D /\ cur \in Cluster \cup {0} /\ \A d \in D : d \in Cluster \cup {0}
  BY <1>y, SoundSearch
<1>0. job.pc = "erase"
  BY DEF EraseStep
<1>1. /\ fat' = fat /\ cur' = cur /\ job'.pc \in {"idle", "load"}
      /\ \E p \in Used(sector, cur) :
           /\ Aims(p) /\ (job.op = "rmdir" <=> Ent(sector, cur, p).kind = "dir")
           /\ E = IF Ent(sector, cur, p).kind = "dir"
                  THEN D \ {Ent(sector, cur, p).first} ELSE D
           /\ \A d \in Cluster \cup {0} : \A q \in Room(d) :
                Ent(sector', d, q) = IF d = cur /\ q = p THEN DelSlot
                                     ELSE Ent(sector, d, q)
  BY SoundErase
<1>2. PICK p \in Used(sector, cur) :
        /\ Aims(p) /\ (job.op = "rmdir" <=> Ent(sector, cur, p).kind = "dir")
        /\ E = IF Ent(sector, cur, p).kind = "dir"
               THEN D \ {Ent(sector, cur, p).first} ELSE D
        /\ \A d \in Cluster \cup {0} : \A q \in Room(d) :
             Ent(sector', d, q) = IF d = cur /\ q = p THEN DelSlot
                                  ELSE Ent(sector, d, q)
  BY <1>1
<1>3. ASSUME NEW d \in D, NEW q \in Used(sector, d) PROVE d \in E
  <2>1. CASE Ent(sector, cur, p).kind = "dir"
    <3>1. Ent(sector, cur, p).first \in D
      BY <1>t, <2>1 DEF Sound, Tree, Entries
    <3>2. Erased = Ent(sector, cur, p) /\ job.op = "rmdir"
      BY <1>2, <1>y, <2>1, OneTarget
    <3>3. Listed(fat[1], Ent(sector, cur, p).first) = {}
      BY <1>0, <1>1, <1>y, <3>2, LeakyStays DEF InUse
    <3>4. Used(sector, Ent(sector, cur, p).first) = {}
      BY <1>y, <3>1, <3>3, AllSeen
    <3> QED BY <1>2, <3>4
  <2>2. CASE Ent(sector, cur, p).kind # "dir"
    BY <1>2, <2>2
  <2> QED BY <2>1, <2>2
<1>4. ASSUME NEW d \in D, NEW q \in Used(sector, d), ~(d = cur /\ Aims(q))
      PROVE  q \in Used(sector', d) /\ Ent(sector', d, q) = Ent(sector, d, q)
  <2>1. q \in Room(d) /\ d \in Cluster \cup {0} /\ ~(d = cur /\ q = p)
    BY <1>2, <1>4, <1>t DEF Used
  <2>2. Ent(sector', d, q) = Ent(sector, d, q)
    BY <1>2, <2>1
  <2> QED BY <2>1, <2>2 DEF Used
<1>5. \A q : ~Aims(q)'
  BY <1>1 DEF Aims
<1>6. ASSUME NEW c \in Cluster, fat'[1][c] # 0 PROVE Belongs(E, c)'
  <2>1. Belongs(D, c)
    BY <1>0, <1>1, <1>6, AtRest
  <2>2. ASSUME NEW d \in D, NEW q \in Used(sector, d),
               ~(d = cur /\ Aims(q)) /\ c \in Chain(sector, fat[1], d, q)
        PROVE  /\ d \in E /\ q \in Used(sector', d) /\ ~(d = cur' /\ Aims(q)')
               /\ c \in Chain(sector', fat'[1], d, q)
    BY <1>1, <1>3, <1>4, <1>5, <2>2 DEF Chain
  <2> QED BY <2>1, <2>2, StillBelongs
<1> QED BY <1>1, <1>6, AtRestNext

(* What an operation that is building a chain does to the rest: nothing.   *)
LEMMA BelongsOn ==
  ASSUME NEW D, NEW c, Belongs(D, c), fat' = fat, Same(D), job'.pc \notin {"free", "erase"}
  PROVE  Belongs(D, c)'
<1>1. \A q : ~Aims(q)'
  BY DEF Aims
<1> QED BY <1>1, SameBelongs

(* fat_write takes the table from the disk, where nothing is lost.         *)
LEMMA TakenLoad ==
  ASSUME TInv, NEW D, Sound(D), Taken(D), faults = 0, ~leaky, LoadStep("ok")
  PROVE  Taken(D)'
<1>1. /\ UNCHANGED <<fat, sector>> /\ job.pc = "load"
      /\ job' = [job EXCEPT !.pc = IF job.size = 0 THEN "putfat" ELSE "data", !.buf = fat[1]]
  BY DEF LoadStep, disk
<1>2. job'.pc \in {"putfat", "data"} /\ job'.buf = fat[1]
  <2>1. job \in Jobs
    BY DEF TInv, Types
  <2> QED BY <1>1, <2>1 DEF Jobs
<1>3. Busy' /\ Memory' = fat[1]
  BY <1>2 DEF Busy, Memory
<1>4. Same(D)
  BY <1>1 DEF Same
<1>5. \A c \in Cluster : fat[1][c] # 0 => Belongs(D, c)'
  BY <1>1, <1>2, <1>4, AtRest, BelongsOn
<1> QED BY <1>3, <1>5 DEF Taken, Accounted

(* A write of write_fat changes no chain of an entry.                      *)
LEMMA TakenPutFat ==
  ASSUME TInv, TInv', NEW D, Sound(D), Taken(D), faults = 0, ~leaky, PutFatStep("ok")
  PROVE  Taken(D)'
<1>1. /\ job.pc = "putfat"
      /\ job' = IF job.w < LastFatSector THEN [job EXCEPT !.w = @ + 1]
                ELSE [job EXCEPT !.w = 0,
                        !.pc = IF job.op = "mkdir" THEN "dots" ELSE "entry"]
  BY DEF PutFatStep
<1>2. /\ job'.pc \in {"putfat", "dots", "entry"}
      /\ job'.buf = job.buf /\ job'.first = job.first
  <2>1. job \in Jobs
    BY DEF TInv, Types
  <2> QED BY <1>1, <2>1 DEF Jobs
<1>3. /\ UNCHANGED <<sector, cur>>
      /\ \A d \in D : \A q \in Used(sector, d) :
           Chain(sector, fat'[1], d, q) = Chain(sector, fat[1], d, q)
  BY SoundPutFat
<1>4. \A q : ~Aims(q)'
  BY <1>2 DEF Aims
<1>5. ASSUME NEW c \in Cluster, Belongs(D, c) PROVE Belongs(D, c)'
  BY <1>3, <1>4, <1>5, StillBelongs
<1>6. Busy /\ Memory = job.buf /\ Busy' /\ Memory' = job.buf /\ job.pc # "free"
  BY <1>1, <1>2 DEF Busy, Memory
<1> QED BY <1>2, <1>5, <1>6 DEF Taken, Accounted

(* The first sector of a new directory is in no chain of an entry.         *)
LEMMA TakenDots ==
  ASSUME TInv, NEW D, Sound(D), Taken(D), faults = 0, ~leaky, DotsStep("ok")
  PROVE  Taken(D)'
<1>1. job.pc = "dots" /\ job' = [job EXCEPT !.pc = "entry"]
  BY DEF DotsStep
<1>2. job'.pc = "entry" /\ job'.buf = job.buf /\ job'.first = job.first
  <2>1. job \in Jobs
    BY DEF TInv, Types
  <2> QED BY <1>1, <2>1 DEF Jobs
<1>3. fat' = fat /\ \A d \in D : \A q \in Room(d) : Ent(sector', d, q) = Ent(sector, d, q)
  BY SoundDots
<1>4. Same(D)
  BY <1>3 DEF Same
<1>5. Busy /\ Memory = job.buf /\ Busy' /\ Memory' = job.buf /\ job.pc # "free"
  BY <1>1, <1>2 DEF Busy, Memory
<1> QED BY <1>2, <1>3, <1>4, <1>5, BelongsOn DEF Taken, Accounted

(* The new entry takes over the chain that was built; only clusters taken  *)
(* for a name that finds no place are dropped.                             *)
LEMMA TakenEntry ==
  ASSUME TInv, NEW D, Sound(D), Taken(D), faults = 0, ~leaky,
         EntryStep("ok"), ~torn', [Next]_vars, ~leaky', NEW E, E = After(D)
  PROVE  Taken(E)'
<1>y. Types
  BY DEF TInv
<1>t. /\ cur \in D /\ cur \in Cluster \cup {0} /\ D \in DirectorySets /\ job.buf \in Tables
      /\ \A d \in D : d \in Cluster \cup {0}
  BY <1>y, SoundSearch, JobFields
<1>1. /\ fat' = fat /\ cur' = cur /\ job.pc = "entry" /\ job'.pc = "idle"
      /\ \/ sector' = sector /\ E = D /\ FreeSlots(fat[1], cur) = {}
         \/ /\ E = IF job.op = "mkdir" THEN D \cup {job.first} ELSE D
            /\ \E p : /\ FreePlace(sector, cur, p)
                      /\ \A d \in Cluster \cup {0} : \A q \in Room(d) :
                           Ent(sector', d, q) = IF d = cur /\ q = p THEN NewEntry
                                                ELSE Ent(sector, d, q)
  BY SoundEntry
<1>2. fat[1] = job.buf
  BY <1>1 DEF Sound, Adds
<1>3. Busy /\ Memory = job.buf /\ job.pc # "free"
  BY <1>1 DEF Busy, Memory
<1>4. \A q : ~Aims(q)'
  BY <1>1 DEF Aims
<1> SUFFICES ASSUME NEW c \in Cluster, fat'[1][c] # 0 PROVE Belongs(E, c)'
  BY <1>1, AtRestNext
<1>5. Belongs(D, c) \/ c \in ChainOf(job.buf, job.first)
  BY <1>1, <1>2, <1>3 DEF Taken, Accounted
<1>6. CASE sector' = sector /\ E = D /\ FreeSlots(fat[1], cur) = {}
  <2>1. job.first = 0
    BY <1>2, <1>6, <1>y, LeakyStays
  <2>2. ChainOf(job.buf, job.first) = {}
    <3>1. job.first \in Link /\ job.first \notin Cluster
      BY <2>1, Geometry DEF Link
    <3> QED BY <1>t, <3>1, ChainStart
  <2>3. Same(D) /\ job'.pc \notin {"free", "erase"}
    BY <1>1, <1>6 DEF Same
  <2> QED BY <1>1, <1>5, <1>6, <2>2, <2>3, BelongsOn
<1>7. CASE /\ E = IF job.op = "mkdir" THEN D \cup {job.first} ELSE D
           /\ \E p : /\ FreePlace(sector, cur, p)
                     /\ \A d \in Cluster \cup {0} : \A q \in Room(d) :
                          Ent(sector', d, q) = IF d = cur /\ q = p THEN NewEntry
                                               ELSE Ent(sector, d, q)
  <2>1. PICK p : /\ FreePlace(sector, cur, p)
                 /\ \A d \in Cluster \cup {0} : \A q \in Room(d) :
                      Ent(sector', d, q) = IF d = cur /\ q = p THEN NewEntry
                                           ELSE Ent(sector, d, q)
    BY <1>7
  <2>2. p \in Room(cur) /\ Ent(sector, cur, p).kind \in {"end", "del"}
    BY <2>1, FreeKinds
  <2>3. D \subseteq E
    BY <1>7
  <2>4. CASE Belongs(D, c)
    <3>1. ASSUME NEW d \in D, NEW q \in Used(sector, d)
          PROVE  q \in Used(sector', d) /\ Ent(sector', d, q) = Ent(sector, d, q)
      <4>1. q \in Room(d) /\ d \in Cluster \cup {0} /\ ~(d = cur /\ q = p)
        BY <1>t, <2>2 DEF Used
      <4>2. Ent(sector', d, q) = Ent(sector, d, q)
        BY <2>1, <4>1
      <4> QED BY <4>1, <4>2 DEF Used
    <3>2. ASSUME NEW d \in D, NEW q \in Used(sector, d),
                 ~(d = cur /\ Aims(q)) /\ c \in Chain(sector, fat[1], d, q)
          PROVE  /\ d \in E /\ q \in Used(sector', d) /\ ~(d = cur' /\ Aims(q)')
                 /\ c \in Chain(sector', fat'[1], d, q)
      BY <1>1, <1>4, <2>3, <3>1, <3>2 DEF Chain
    <3> QED BY <2>4, <3>2, StillBelongs
  <2>5. CASE c \in ChainOf(job.buf, job.first)
    <3>1. NewEntry.kind \in {"file", "dir"} /\ NewEntry.first = job.first
      BY DEF NewEntry, Entry
    <3>2. Ent(sector', cur, p) = NewEntry
      BY <1>t, <2>1, <2>2
    <3>3. p \in Used(sector', cur)
      BY <2>2, <3>1, <3>2 DEF Used
    <3>4. c \in Chain(sector', fat'[1], cur, p)
      BY <1>1, <1>2, <2>5, <3>1, <3>2 DEF Chain
    <3>5. cur \in E
      BY <1>t, <2>3
    <3> QED BY <1>4, <3>3, <3>4, <3>5 DEF Belongs
  <2> QED BY <1>5, <2>4, <2>5
<1> QED BY <1>1, <1>6, <1>7

(* A chain that a cluster is appended to has it, and all it had before.    *)
LEMMA ChainGrows ==
  ASSUME NEW a \in Tables, NEW b \in Tables, NEW first \in Link, Climbs(b, first),
         NEW c \in Cluster, a[c] = 0, NEW prev \in ChainOf(a, first), a[prev] = EOC,
         b[prev] = c, \A x \in Cluster : x # c /\ x # prev => b[x] = a[x]
  PROVE  ChainOf(a, first) \subseteq ChainOf(b, first) /\ c \in ChainOf(b, first)
<1>1. prev \in Cluster /\ EOC \notin Cluster /\ 0 \notin Cluster
  BY Geometry DEF ChainOf
<1>2. ASSUME NEW x \in ChainOf(b, first), x \in Cluster, a[x] \in Cluster
      PROVE  a[x] \in ChainOf(b, first)
  <2>1. x # c /\ x # prev
    BY <1>1, <1>2
  <2>2. b[x] = a[x]
    BY <1>2, <2>1
  <2> QED BY <1>2, <2>2, ChainClosed
<1>3. first \in Cluster => first \in ChainOf(b, first)
  BY ChainStart
<1>4. ChainOf(a, first) \subseteq ChainOf(b, first)
  BY <1>2, <1>3, ChainStaysIn
<1>5. prev \in ChainOf(b, first) /\ b[prev] \in Cluster
  BY <1>4
<1>6. b[prev] \in ChainOf(b, first)
  BY <1>5, ChainClosed
<1> QED BY <1>4, <1>6

(* The loop of fat_write takes a cluster for the chain it builds; on a     *)
(* full disk it gives up and the disk has not changed.                     *)
LEMMA TakenData ==
  ASSUME TInv, TInv', Climbing, Climbing', NEW D, Sound(D), Taken(D), faults = 0, ~leaky,
         DataStep("ok")
  PROVE  Taken(D)'
<1>y. Types /\ Types'
  BY DEF TInv
<1>t. /\ job.buf \in Tables /\ job.first \in Cluster \cup {0} /\ job.first \in Link
      /\ job'.buf \in Tables /\ job'.first \in Cluster \cup {0} /\ job'.first \in Link
      /\ 0 \notin Cluster /\ 0 \in Link
  <2>1. job.buf \in Tables /\ job.first \in Cluster \cup {0}
    BY <1>y, JobFields
  <2>2. job'.buf \in Tables /\ job'.first \in Cluster \cup {0}
    BY <1>y DEF Types, Jobs
  <2> QED BY <2>1, <2>2, Geometry DEF Link
<1>0. job.pc = "data"
  BY DEF DataStep
<1>1. /\ fat' = fat
      /\ job' = Idle \/ Longer
      /\ \A d \in D : \A q \in Room(d) : Ent(sector', d, q) = Ent(sector, d, q)
  BY ClimbingRises, SoundData
<1>2. Same(D)
  BY <1>1 DEF Same
<1>3. Busy /\ Memory = job.buf /\ job.pc # "free"
  BY <1>0 DEF Busy, Memory
<1>4. /\ job.k = 0 => job.first = 0
      /\ job.k # 0 => job.prev \in ChainOf(job.buf, job.first) /\ job.buf[job.prev] = EOC
      /\ ChainOf(job.buf, job.first) \subseteq Fresh
  <2>1. /\ \A c \in Fresh : job.buf[c] = EOC \/ job.buf[c] \in Fresh
        /\ job.k = 0 => job.first = 0
        /\ job.k # 0 => /\ job.first \in Fresh /\ job.prev \in Fresh
                        /\ job.buf[job.prev] = EOC
                        /\ (job.k - 1) \div SPC \in 0 .. NC
                        /\ Follow(job.buf, job.first)[(job.k - 1) \div SPC] = job.prev
    BY <1>0 DEF Sound, Grows
  <2>2. job.k # 0 => job.prev \in ChainOf(job.buf, job.first)
    BY <2>1 DEF ChainOf, Fresh
  <2>3. ChainOf(job.buf, job.first) \subseteq Fresh
    <3>1. job.first \in Cluster => job.first \in Fresh
      BY <1>t, <2>1
    <3>2. EOC \notin Cluster
      BY Geometry
    <3> QED BY <1>t, <2>1, <3>1, <3>2, ChainStaysIn
  <2> QED BY <2>1, <2>2, <2>3
<1>5. CASE job' = Idle
  <2>1. job'.pc = "idle"
    BY <1>5 DEF Idle
  <2>2. ASSUME NEW c \in Cluster, fat'[1][c] # 0 PROVE Belongs(D, c)'
    <3>1. job.buf[c] = fat[1][c] /\ c \notin Fresh
      BY <1>0, <1>1, <2>2 DEF Sound, Kept, Fresh
    <3>2. Belongs(D, c)
      BY <1>1, <1>3, <1>4, <2>2, <3>1 DEF Taken, Accounted
    <3> QED BY <1>1, <1>2, <2>1, <3>2, BelongsOn
  <2> QED BY <2>1, <2>2, AtRestNext
<1>6. CASE Longer
  <2>1. Busy' /\ Memory' = job'.buf /\ job'.pc \notin {"free", "erase"}
    BY <1>6 DEF Longer, Busy, Memory
  <2>2. \A c \in Cluster : job.buf[c] # 0 =>
          Belongs(D, c)' \/ c \in ChainOf(job.buf, job.first)
    BY <1>1, <1>2, <1>3, <2>1, BelongsOn DEF Taken, Accounted
  <2>3. ASSUME NEW c \in Cluster, job'.buf[c] # 0
        PROVE  Belongs(D, c)' \/ c \in ChainOf(job'.buf, job'.first)
    <3>1. CASE job.k # 0 /\ job'.prev = job.prev /\ job'.buf = job.buf
      <4>1. job'.first = job.first
        BY <1>6, <3>1 DEF Longer
      <4> QED BY <2>2, <2>3, <3>1, <4>1
    <3>2. CASE job.k = 0 /\ \A x \in Cluster : x # job'.prev => job'.buf[x] = job.buf[x]
      <4>1. job'.first = job'.prev /\ job'.prev \in Cluster
        BY <1>6, <3>2 DEF Longer
      <4>2. CASE c = job'.prev
        BY <1>t, <4>1, <4>2, ChainStart
      <4>3. CASE c # job'.prev
        <5>1. ChainOf(job.buf, job.first) = {}
          BY <1>t, <1>4, <3>2, ChainStart
        <5> QED BY <2>2, <2>3, <3>2, <4>3, <5>1
      <4> QED BY <4>2, <4>3
    <3>3. CASE /\ job.k # 0 /\ job.buf[job'.prev] = 0 /\ job'.buf[job.prev] = job'.prev
               /\ \A x \in Cluster : x # job'.prev /\ x # job.prev => job'.buf[x] = job.buf[x]
      <4>1. job'.first = job.first /\ job'.prev \in Cluster
        BY <1>6, <3>3 DEF Longer
      <4>2. Climbs(job'.buf, job.first)
        BY UpwardClimbs DEF Climbing
      <4>3. /\ ChainOf(job.buf, job.first) \subseteq ChainOf(job'.buf, job.first)
            /\ job'.prev \in ChainOf(job'.buf, job.first)
        BY <1>t, <1>4, <3>3, <4>1, <4>2, ChainGrows
      <4>4. CASE c = job'.prev
        BY <4>1, <4>3, <4>4
      <4>5. CASE c = job.prev
        BY <1>4, <3>3, <4>1, <4>3, <4>5
      <4>6. CASE c # job'.prev /\ c # job.prev
        BY <2>2, <2>3, <3>3, <4>1, <4>3, <4>6
      <4> QED BY <4>4, <4>5, <4>6
    <3> QED BY <1>6, <3>1, <3>2, <3>3 DEF Longer
  <2> QED BY <2>1, <2>3 DEF Taken, Accounted
<1> QED BY <1>1, <1>5, <1>6

(* Without a fault nothing is torn: only a crash and an erase that is lost *)
(* cut off a release.                                                      *)
LEMMA NoFault ==
  ASSUME Types, [Next]_vars, faults' = 0
  PROVE  /\ faults = 0 /\ ~Crash
         /\ ~torn => ~torn'
<1>t. torn \in BOOLEAN /\ faults \in 0 .. MaxFaults
  BY DEF Types
<1>o. ASSUME NEW o, o \in Outcomes \/ o \in Reads, Count(o) PROVE faults = 0 /\ o = "ok"
  BY <1>o, <1>t, Faults
<1>1. CASE UNCHANGED vars
  <2>1. faults = 0 /\ torn' = torn
    BY <1>1 DEF vars
  <2>2. ~Crash
    BY <1>t, <2>1, Geometry DEF Crash
  <2> QED BY <2>1, <2>2
<1>2. ASSUME faults = 0 PROVE ~Crash
  BY <1>2, <1>t, Geometry DEF Crash
<1>3. CASE Call
  <2>1. torn' = torn
    BY <1>3 DEF Call, FatInit, fat_delete, fat_rmdir, fat_write, fat_mkdir, fat_rename,
                fat_cd, fat_cd_up
  <2>2. \/ \E o : (o \in Outcomes \/ o \in Reads) /\ Count(o)
        \/ faults' = faults
    BY <1>3 DEF Call, FatInit, fat_delete, fat_rmdir, fat_write, fat_mkdir, fat_rename,
                fat_cd, fat_cd_up
  <2> QED BY <1>o, <1>2, <2>1, <2>2
<1>4. CASE Step
  <2>1. ASSUME NEW o \in Outcomes, EraseStep(o) PROVE faults = 0 /\ (~torn => ~torn')
    <3>1. Count(o) /\ torn' = (torn \/ o = "lost")
      BY <2>1 DEF EraseStep
    <3>2. faults = 0 /\ o = "ok"
      BY <1>o, <3>1
    <3>3. ~torn => ~torn'
      <4>1. o # "lost"
        BY <3>2
      <4> QED BY <3>1, <4>1, Zenon
    <3> QED BY <3>2, <3>3
  <2>2. CASE EntryReadError
    <3>1. faults' = faults + 1
      BY <2>2 DEF EntryReadError
    <3> QED BY <1>t, <3>1, Geometry
  <2>3. ASSUME NEW o, o \in Outcomes \/ o \in Reads,
               \/ FreeStep(o) \/ LoadStep(o) \/ DataStep(o)
               \/ PutFatStep(o) \/ DotsStep(o) \/ EntryStep(o)
        PROVE  faults = 0 /\ torn' = torn
    <3>1. Count(o) /\ torn' = torn
      BY <2>3 DEF FreeStep, LoadStep, DataStep, PutFatStep, DotsStep, EntryStep
    <3> QED BY <1>o, <2>3, <3>1
  <2>4. faults = 0 /\ (~torn => ~torn')
    BY <1>4, <2>1, <2>2, <2>3 DEF Step
  <2> QED BY <1>2, <2>4
<1>5. CASE Crash
  <2>1. faults' = faults + 1
    BY <1>5 DEF Crash
  <2> QED BY <1>t, <2>1, Geometry
<1> QED BY <1>1, <1>3, <1>4, <1>5 DEF Next

(* No step loses a cluster.                                                *)
LEMMA TakenNext ==
  ASSUME TInv, TInv', Copying, Climbing, Climbing', NEW D, Sound(D), EndsLast(D), Taken(D),
         [Next]_vars, ~torn', NEW E, E = After(D), Effects(D, E)
  PROVE  Taken(E)'
<1> SUFFICES ASSUME faults' = 0, ~leaky' PROVE Taken(E)'
  BY DEF Taken
<1>y. Types /\ faults \in 0 .. MaxFaults
  BY DEF TInv, Types
<1>f. faults = 0 /\ ~leaky /\ ~Crash
  BY <1>y, NoFault, LeakyStays
<1>o. ASSUME NEW o, o \in Outcomes \/ o \in Reads, Count(o) PROVE o = "ok"
  BY <1>o, <1>y, Faults
<1>e. job.pc \notin {"erase", "entry"} \/ UNCHANGED sector => E = D
  BY DEF After
<1>1. CASE UNCHANGED vars
  <2>1. UNCHANGED <<fat, sector, cur, job>>
    BY <1>1 DEF vars
  <2>2. Taken(D)'
    BY <1>f, <2>1 DEF Taken, Accounted, Memory, Busy, Belongs, Aims
  <2> QED BY <1>e, <2>1, <2>2
<1>2. CASE Call
  <2>1. job.pc = "idle"
    BY <1>2 DEF Call, FatInit, fat_delete, fat_rmdir, fat_write, fat_mkdir,
                fat_rename, fat_cd, fat_cd_up
  <2>2. E = D
    BY <1>e, <2>1
  <2> QED BY <1>2, <1>f, <2>2, TakenCall
<1>3. ASSUME NEW o \in Outcomes, FreeStep(o) PROVE Taken(E)'
  <2>1. job.pc = "free" /\ o = "ok"
    BY <1>3, <1>o DEF FreeStep
  <2>2. Taken(D)'
    BY <1>3, <1>f, <2>1, TakenFree
  <2> QED BY <1>e, <2>1, <2>2
<1>4. ASSUME NEW o \in Outcomes, EraseStep(o) PROVE Taken(E)'
  <2>1. o = "ok"
    BY <1>4, <1>o DEF EraseStep
  <2> QED BY <1>4, <1>f, <2>1, TakenErase
<1>5. ASSUME NEW r \in Reads, LoadStep(r) PROVE Taken(E)'
  <2>1. job.pc = "load" /\ r = "ok"
    BY <1>5, <1>o DEF LoadStep
  <2>2. Taken(D)'
    BY <1>5, <1>f, <2>1, TakenLoad
  <2> QED BY <1>e, <2>1, <2>2
<1>6. ASSUME NEW o \in Outcomes, DataStep(o) PROVE Taken(E)'
  <2>1. job.pc = "data" /\ o = "ok"
    BY <1>6, <1>o DEF DataStep
  <2>2. Taken(D)'
    BY <1>6, <1>f, <2>1, TakenData
  <2> QED BY <1>e, <2>1, <2>2
<1>7. ASSUME NEW o \in Outcomes, PutFatStep(o) PROVE Taken(E)'
  <2>1. job.pc = "putfat" /\ o = "ok"
    BY <1>7, <1>o DEF PutFatStep
  <2>2. Taken(D)'
    BY <1>7, <1>f, <2>1, TakenPutFat
  <2> QED BY <1>e, <2>1, <2>2
<1>8. ASSUME NEW o \in Outcomes, DotsStep(o) PROVE Taken(E)'
  <2>1. job.pc = "dots" /\ o = "ok"
    BY <1>8, <1>o DEF DotsStep
  <2>2. Taken(D)'
    BY <1>8, <1>f, <2>1, TakenDots
  <2> QED BY <1>e, <2>1, <2>2
<1>9. ASSUME NEW o \in Outcomes, EntryStep(o) PROVE Taken(E)'
  <2>1. o = "ok"
    BY <1>9, <1>o DEF EntryStep
  <2> QED BY <1>9, <1>f, <2>1, TakenEntry
<1>10. ~EntryReadError
  BY <1>f, <1>y DEF EntryReadError
<1> QED BY <1>1, <1>2, <1>3, <1>4, <1>5, <1>6, <1>7, <1>8, <1>9, <1>10, <1>f DEF Next, Step

-----------------------------------------------------------------------------
(***************************************************************************)
(* fat_mkdir clears one sector of a new directory.  With more sectors in a *)
(* cluster the others hold what some file left there, so the theorems are  *)
(* about volumes where a cluster is a sector, or no directory is made.     *)
(***************************************************************************)
DirectoriesCleared == SPC = 1 \/ DirNames = {}

(***************************************************************************)
(* All of it together: the invariant that says what the tree is, what is   *)
(* in use in it, and what fat_write has done.                              *)
(***************************************************************************)
Keeping ==
  /\ faults = 0 => ~torn
  /\ ~torn => \E D : /\ Sound(D) /\ Trail(D)
                     /\ EndsLast(D) /\ Rooted(D) /\ Taken(D)
                     /\ faults = 0 => NameLeads /\ ReadsNew

(* The new volume is empty. *)
LEMMA KeepingInit ==
  ASSUME Init
  PROVE  Keeping
<1> DEFINE R == {0}
<1>1. /\ Sound(R)
      /\ \A d \in Cluster \cup {0} : \A p \in Room(d) : Ent(sector, d, p) = EndSlot
  BY SoundInit
<1>2. /\ fat = [f \in 1 .. FatCount |-> Empty] /\ job = Idle /\ ret = NoRet
      /\ torn = FALSE
  BY DEF Init
<1>3. job.pc = "idle" /\ ret.op = ""
  BY <1>2 DEF Idle, NoRet
<1>4. EndsLast(R)
  BY <1>1 DEF EndsLast
<1>5. Rooted(R)
  BY DEF Rooted, Closed
<1>6. Taken(R)
  <2>1. Memory = Empty
    BY <1>2, <1>3, Geometry DEF Memory, Busy
  <2> QED BY <2>1 DEF Taken, Empty
<1>7. NameLeads /\ ReadsNew
  BY <1>3 DEF NameLeads, ReadsNew
<1>8. Trail(R)
  <2> DEFINE s == [i \in 0 .. 0 |-> 0]
  <2>1. s \in [0 .. Len(<<>>) -> R]
    OBVIOUS
  <2>2. Along(s, sector, <<>>, 0)
    BY DEF Along
  <2> HIDE DEF s, R
  <2> QED BY <2>1, <2>2 DEF Init, Trail
<1> HIDE DEF R
<1> QED BY <1>1, <1>2, <1>4, <1>5, <1>6, <1>7, <1>8 DEF Keeping

(* A name that fat_write has yet to enter, or has entered, after a step.   *)
LEMMA WriteNext ==
  ASSUME TInv, TInv', Rising, NEW D, Sound(D), NameLeads, ReadsNew, [Next]_vars,
         ~torn', faults' = faults
  PROVE  NameLeads' /\ ReadsNew'
<1>1. ~Crash
  BY Geometry DEF Crash, TInv, Types
<1>2. CASE UNCHANGED vars
  <2>1. UNCHANGED <<sector, cur, job, ret, faults>>
    BY <1>2 DEF vars
  <2> QED BY <2>1 DEF NameLeads, ReadsNew, Aims
<1>3. CASE Call
  BY <1>3, WriteCall
<1>4. CASE Step
  BY <1>4, WriteStep
<1> QED BY <1>1, <1>2, <1>3, <1>4 DEF Next

(* Every step keeps all of it.                                             *)
LEMMA KeepingNext ==
  ASSUME DirectoriesCleared, TInv, TInv', Copying, Climbing, Climbing', Keeping, [Next]_vars
  PROVE  Keeping'
<1>1. faults' = 0 => ~torn'
  BY NoFault DEF Keeping, TInv
<1>2. ASSUME ~torn'
      PROVE  \E E : /\ Sound(E)' /\ Trail(E)'
                    /\ EndsLast(E)' /\ Rooted(E)' /\ Taken(E)'
                    /\ faults' = 0 => NameLeads' /\ ReadsNew'
  <2>1. ~torn /\ Types
    BY <1>2, TornStays DEF TInv
  <2>2. PICK D : /\ Sound(D) /\ Trail(D)
                 /\ EndsLast(D) /\ Rooted(D) /\ Taken(D)
                 /\ faults = 0 => NameLeads /\ ReadsNew
    BY <2>1 DEF Keeping
  <2>3. PICK E : E = After(D)
    OBVIOUS
  <2>4. Sound(E)' /\ Effects(D, E)
    BY <1>2, <2>2, <2>3, ClimbingRises, SoundNext DEF DirectoriesCleared
  <2>5. EndsLast(E)'
    BY <2>1, <2>2, <2>4, EndsLastNext
  <2>6. Rooted(E)'
    BY <1>2, <2>2, <2>4, RootedNext
  <2>7. Taken(E)'
    BY <1>2, <2>2, <2>3, <2>4, TakenNext
  <2>8. ASSUME faults' = 0 PROVE NameLeads' /\ ReadsNew'
    <3>1. faults = 0
      BY <2>1, <2>8, NoFault
    <3> QED BY <1>2, <2>2, <2>8, <3>1, ClimbingRises, WriteNext
  <2>9. Trail(E)'
    BY <2>1, <2>2, <2>4, TrailNext
  <2> QED BY <2>4, <2>5, <2>6, <2>7, <2>8, <2>9
<1> QED BY <1>1, <1>2 DEF Keeping

(* Between operations every taken cluster belongs to an entry users reach. *)
LEMMA NothingLost ==
  ASSUME Types, NEW D, Sound(D), EndsLast(D), Rooted(D), Taken(D)
  PROVE  NoLostClusters
<1> SUFFICES ASSUME faults = 0, job.pc = "idle", ~leaky, NEW c \in Cluster, fat[1][c] # 0
             PROVE  \E a \in Live : c \in Owned(a)
  BY DEF NoLostClusters
<1>1. Belongs(D, c)
  BY AtRest
<1>2. PICK d \in D : \E q \in Used(sector, d) : c \in Chain(sector, fat[1], d, q)
  BY <1>1 DEF Belongs
<1>3. PICK q \in Used(sector, d) : c \in Chain(sector, fat[1], d, q)
  BY <1>2
<1>t. /\ fat[1] \in Tables /\ d \in Cluster \cup {0} /\ Single(fat[1], d)
  BY SoundSearch
<1>4. Dirs = D
  BY AllReached
<1>5. q \in Listed(fat[1], d)
  BY AllSeen
<1>6. <<d, q>> \in Live
  BY <1>4, <1>5 DEF Live
<1>7. SlotAt(fat[1], d, q) = Ent(sector, d, q)
  BY <1>t, SingleDirectory DEF Used
<1>8. c \in Owned(<<d, q>>)
  BY <1>3, <1>7 DEF Owned, At, Chain
<1> QED BY <1>6, <1>8

(* Initially, and after every step, the volume is kept, unless a release   *)
(* has been cut off.                                                       *)
THEOREM VolumeKept == ASSUME DirectoriesCleared PROVE Spec => [](TInv /\ Keeping)
<1>1. ASSUME TInv /\ Climbing /\ Copying /\ Keeping, [Next]_vars
      PROVE  TInv' /\ Climbing' /\ Copying' /\ Keeping'
  <2>1. TInv'
    BY <1>1, TypesNext
  <2>2. Climbing' /\ Copying'
    BY <1>1, <2>1, ClimbingNext, CopyingNext
  <2> QED BY <1>1, <2>1, <2>2, KeepingNext
<1>2. ASSUME Init PROVE TInv /\ Climbing /\ Copying /\ Keeping
  <2>1. Copying
    <3>1. job.pc = "idle" /\ \A f \in 1 .. FatCount : fat[f] = fat[1]
      BY <1>2, Geometry DEF Init, Idle
    <3> QED BY <3>1 DEF Copying
  <2> QED BY <1>2, <2>1, TypesInit, ClimbingInit, KeepingInit
<1> QED BY <1>1, <1>2, PTL DEF Spec

(* No cluster belongs to two files or directories that users can reach, and*)
(* every cluster of one is marked taken, so that fat_find_free_cluster     *)
(* never hands it out; in the middle of an operation, too, and after       *)
(* crashes and failed accesses, until one cuts off a release.              *)
THEOREM ClustersOwned == ASSUME DirectoriesCleared PROVE Spec => []ChainsOwned
<1>1. ASSUME TInv /\ Keeping PROVE ChainsOwned
  <2>1. SUFFICES ASSUME ~torn PROVE \A a \in Live :
              /\ \A b \in Live \ {a} : Owned(a) \cap Owned(b) = {}
              /\ Dying(a) \/ \A c \in Owned(a) : fat[1][c] # 0
    BY DEF ChainsOwned
  <2>2. PICK D : Sound(D)
    BY <1>1, <2>1 DEF Keeping
  <2> QED BY <1>1, <2>2, OwnedApart DEF TInv
<1> QED BY <1>1, VolumeKept, PTL

(* Every file that users can reach holds what was last written to it,      *)
(* whatever operations on other names did since, or are about to do.       *)
THEOREM FilesStayIntact == ASSUME DirectoriesCleared PROVE Spec => []FilesIntact
<1>1. ASSUME TInv /\ Keeping PROVE FilesIntact
  <2>1. SUFFICES ASSUME ~torn, NEW a \in Live, At(a).kind = "file", ~Dying(a),
                        NEW k \in 0 .. At(a).size - 1
                 PROVE  LET c == Follow(fat[1], At(a).first)[k \div SPC]
                        IN  c \in Cluster /\ sector[<<c, k % SPC>>] = [tag |-> At(a).tag, k |-> k]
    BY DEF FilesIntact
  <2>2. PICK D : Sound(D)
    BY <1>1, <2>1 DEF Keeping
  <2> QED BY <1>1, <2>1, <2>2, OwnedIntact DEF TInv
<1> QED BY <1>1, VolumeKept, PTL

(* The path that the prompt shows leads to the directory that the file     *)
(* operations work in.                                                     *)
THEOREM PathStaysResolved == ASSUME DirectoriesCleared PROVE Spec => []PathResolves
<1>1. ASSUME TInv /\ Keeping PROVE PathResolves
  <2>1. CASE ~torn
    BY <1>1, <2>1, TrailResolves DEF Keeping, TInv
  <2>2. CASE torn
    BY <2>2 DEF PathResolves
  <2> QED BY <2>1, <2>2
<1> QED BY <1>1, VolumeKept, PTL

(* fat_write has returned 0 for an 8.3 name: fat_read of that name gives   *)
(* what was written, although other files of the name may exist, because   *)
(* fat_write deletes the first of them and its entry takes a place that is *)
(* no later.                                                               *)
THEOREM WritesReadBack == ASSUME DirectoriesCleared PROVE Spec => []WriteReadsBack
<1>1. ASSUME TInv /\ Keeping PROVE WriteReadsBack
  <2> SUFFICES ASSUME faults = 0, job.pc = "idle", ret.op = "write", ret.code = 0,
                      split_83(ret.name) = ret.name
               PROVE  fat_read(ret.name, MaxSize) = Written(ret.tag, ret.size)
    BY DEF WriteReadsBack
  <2>1. ~torn
    BY <1>1 DEF Keeping
  <2>2. PICK D : Sound(D) /\ ReadsNew
    BY <1>1, <2>1 DEF Keeping
  <2> QED BY <1>1, <2>2, ReadsBack DEF TInv
<1> QED BY <1>1, VolumeKept, PTL

(* As long as no access failed and no operation dropped clusters, every    *)
(* cluster the table marks taken is in the chain of an entry that users    *)
(* reach from the root, between any two operations: what fat_write,        *)
(* fat_mkdir, fat_delete and fat_rmdir take and free adds up.              *)
THEOREM NoClusterLost == ASSUME DirectoriesCleared PROVE Spec => []NoLostClusters
<1>1. ASSUME TInv /\ Keeping PROVE NoLostClusters
  <2>1. CASE faults = 0
    <3>1. ~torn
      BY <1>1, <2>1 DEF Keeping
    <3> QED BY <1>1, <3>1, NothingLost DEF Keeping, TInv
  <2>2. CASE faults # 0
    BY <2>2 DEF NoLostClusters
  <2> QED BY <2>1, <2>2
<1> QED BY <1>1, VolumeKept, PTL
=============================================================================
