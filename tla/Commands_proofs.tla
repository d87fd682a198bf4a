-------------------------- MODULE Commands_proofs --------------------------
(***************************************************************************)
(* Proofs about Commands: that its messages are true, for every volume     *)
(* another system may have written, every buffer and any number of faults. *)
(*                                                                         *)
(* A session starts on any sound volume, so its links need not lead        *)
(* upwards; only those that fat_write makes do (Rising).  Between two      *)
(* commands, and in the middle of one, there is a tree (Sound).  What each *)
(* command has still to do is said for each verb; it holds as long as no   *)
(* access fails while the command runs (Calm).                             *)
(***************************************************************************)
EXTENDS Commands, Fat_proofs, SequenceTheorems

-----------------------------------------------------------------------------
(* The links that fat_write makes lead upwards, whatever the volume held.  *)
LEMMA RisingNext ==
  ASSUME TInv, Rising, [Next]_vars
  PROVE  Rising'
<1>t. /\ fat[1] \in Tables /\ job.buf \in Tables /\ job.prev \in Cluster \cup {0}
  BY Geometry DEF TInv, Types, Jobs
<1>i. job'.pc # "data" => Rising'
  BY DEF Rising
<1>d. Idle.pc # "data"
  BY DEF Idle
<1> SUFFICES ASSUME job'.pc = "data" PROVE Rising'
  BY <1>i
<1>1. CASE UNCHANGED vars
  BY <1>1 DEF Rising, Fresh, vars
<1>2. CASE Call
  BY <1>2, <1>d, Calls
<1>3. CASE Step
  <2>1. CASE WritesTable
    BY <1>d, <2>1 DEF WritesTable
  <2>2. CASE TakesCluster
    <3>0. fat' = fat /\ job.pc = "data"
      BY <2>2 DEF TakesCluster
    <3>1. CASE job'.prev = job.prev /\ job'.buf = job.buf
      BY <3>0, <3>1 DEF Rising, Fresh
    <3>2. CASE LET c == fat_find_free_cluster(job.buf) IN
               /\ c # 0 /\ job'.prev = c
               /\ job'.buf[c] = EOC
               /\ \A d \in Cluster \ {c} :
                    job'.buf[d] = IF d = job.prev THEN c ELSE job.buf[d]
      <4> DEFINE c == fat_find_free_cluster(job.buf)
      <4>1. /\ c # 0 /\ job'.prev = c /\ job'.buf[c] = EOC
            /\ \A d \in Cluster \ {c} :
                 job'.buf[d] = IF d = job.prev THEN c ELSE job.buf[d]
        BY <3>2
      <4>2. /\ c \in Cluster /\ job.buf[c] = 0
            /\ \A d \in Cluster : d < c => job.buf[d] # 0
        BY <1>t, <4>1, FreeCluster
      <4> HIDE DEF c
      <4>3. job.prev < c
        <5>1. ~(c <= job.prev)
          BY <3>0, <4>2 DEF Rising
        <5> QED BY <1>t, <4>2, <5>1, GeometryAssumption DEF Cluster
      <4>4. ASSUME NEW d \in Cluster, d <= c PROVE job'.buf[d] # 0
        <5>1. CASE d = c
          BY <4>1, <5>1 DEF EOC
        <5>2. CASE d # c
          <6>1. d < c
            BY <4>2, <4>4, <5>2, GeometryAssumption DEF Cluster
          <6>2. job'.buf[d] = IF d = job.prev THEN c ELSE job.buf[d]
            BY <4>1, <5>2
          <6> QED BY <4>1, <4>2, <6>1, <6>2
        <5> QED BY <5>1, <5>2
      <4>5. ASSUME NEW d \in Cluster, fat'[1][d] = 0, job'.buf[d] # 0, job'.buf[d] \in Cluster
            PROVE  job'.buf[d] > d
        <5>1. CASE d = c
          BY <4>1, <4>5, <5>1, Geometry
        <5>2. CASE d = job.prev /\ d # c
          BY <4>1, <4>3, <5>2, Geometry DEF Cluster
        <5>3. CASE d # job.prev /\ d # c
          <6>1. job'.buf[d] = job.buf[d]
            BY <4>1, <5>3
          <6> QED BY <3>0, <4>5, <6>1 DEF Rising, Fresh
        <5> QED BY <5>1, <5>2, <5>3
      <4>6. \A d \in Fresh' : job'.buf[d] \in Cluster => job'.buf[d] > d
        BY <4>5 DEF Fresh
      <4> QED BY <4>1, <4>4, <4>6 DEF Rising
    <3> QED BY <2>2, <3>1, <3>2 DEF TakesCluster
  <2>3. CASE fat' = fat /\ job.pc = "load" /\ job'.buf = fat[1] /\ job'.prev = 0
    <3>1. Fresh' = {}
      BY <2>3 DEF Fresh
    <3>2. \A c \in Cluster : ~(c <= job'.prev)
      BY <2>3, GeometryAssumption DEF Cluster
    <3> QED BY <3>1, <3>2 DEF Rising
  <2> QED BY <1>3, <1>d, <2>1, <2>2, <2>3, Steps
<1>4. CASE Crash
  BY <1>4, <1>d DEF Crash
<1> QED BY <1>1, <1>2, <1>3, <1>4 DEF Next

-----------------------------------------------------------------------------
(* A file has clusters for its contents: a chain that holds so many        *)
(* sectors, each marked with its number, has room for them.                *)
LEMMA HoldsSpace ==
  ASSUME NEW S, NEW T, NEW c, NEW tag, NEW size \in Nat, Holds(S, T, c, tag, size)
  PROVE  size <= SPC * Cardinality(ChainOf(T, c))
<1>s. SPC \in Nat \ {0}
  BY Geometry
<1>c. /\ IsFiniteSet(ChainOf(T, c)) /\ Cardinality(ChainOf(T, c)) \in Nat
  BY ChainSize
<1>1. CASE size = 0
  BY <1>1, <1>s, <1>c
<1>2. CASE size # 0
  <2>m. PICK m : m = (size - 1) \div SPC + 1
    OBVIOUS
  <2>1. m \in Nat /\ (m - 1) * SPC <= size - 1 /\ size <= m * SPC
    BY <1>2, <1>s, <2>m
  <2>2. ASSUME NEW r \in 0 .. m - 1
        PROVE  /\ Follow(T, c)[r] \in ChainOf(T, c)
               /\ S[<<Follow(T, c)[r], 0>>] = [tag |-> tag, k |-> r * SPC]
    <3>1. PICK k : k = r * SPC
      OBVIOUS
    <3>q. PICK q : q = (m - 1) * SPC
      OBVIOUS
    <3>0. k \in Nat /\ q \in Int /\ k <= q /\ q <= size - 1
      <4>1. r \in Nat /\ m - 1 \in Nat /\ r <= m - 1
        BY <2>1
      <4>2. k <= q
        BY <1>s, <3>1, <3>q, <4>1, ProductMonotone
      <4>3. k \in Nat /\ q \in Int
        BY <1>s, <3>1, <3>q, <4>1
      <4> QED BY <2>1, <3>q, <4>2, <4>3
    <3>3. k \in 0 .. size - 1
      BY <3>0
    <3>4. r \in Nat /\ 0 \in 0 .. SPC - 1
      BY <1>s
    <3>5. (r * SPC + 0) \div SPC = r /\ (r * SPC + 0) % SPC = 0
      BY <1>s, <3>4, RowAndPlace
    <3>6. k \div SPC = r /\ k % SPC = 0
      BY <3>1, <3>5
    <3>7. /\ r \in 0 .. NC /\ Follow(T, c)[r] \in Cluster
          /\ S[<<Follow(T, c)[r], 0>>] = [tag |-> tag, k |-> k]
      BY <3>3, <3>6 DEF Holds
    <3> QED BY <3>1, <3>7 DEF ChainOf
  <2> DEFINE f == [r \in 0 .. m - 1 |-> Follow(T, c)[r]]
  <2>3. f \in [0 .. m - 1 -> ChainOf(T, c)]
    BY <2>2
  <2>4. ASSUME NEW x \in 0 .. m - 1, NEW y \in 0 .. m - 1, f[x] = f[y] PROVE x = y
    <3>1. [tag |-> tag, k |-> x * SPC] = [tag |-> tag, k |-> y * SPC]
      BY <2>2, <2>4
    <3>2. x * SPC = y * SPC
      BY <3>1
    <3>3. x \in Nat /\ y \in Nat /\ 0 \in 0 .. SPC - 1
      BY <1>s
    <3>4. (x * SPC + 0) \div SPC = x /\ (y * SPC + 0) \div SPC = y
      BY <1>s, <3>3, RowAndPlace
    <3> QED BY <3>2, <3>4
  <2> HIDE DEF f
  <2>5. IsFiniteSet(0 .. m - 1) /\ Cardinality(0 .. m - 1) = m
    <3>1. 0 \in Int /\ m - 1 \in Int
      BY <2>1
    <3> QED BY <2>1, <3>1, FS_Interval
  <2>6. ~(Cardinality(ChainOf(T, c)) < m)
    <3> SUFFICES ASSUME Cardinality(ChainOf(T, c)) < m PROVE FALSE
      OBVIOUS
    <3>1. PICK rows : rows = 0 .. m - 1
      OBVIOUS
    <3>2. Cardinality(ChainOf(T, c)) < Cardinality(rows) /\ IsFiniteSet(rows)
      BY <2>5, <3>1
    <3>3. f \in [rows -> ChainOf(T, c)]
      BY <2>3, <3>1
    <3>4. \E x, y \in rows : x # y /\ f[x] = f[y]
      BY <1>c, <3>2, <3>3, FS_PigeonHole, Zenon
    <3> QED BY <2>4, <3>1, <3>4
  <2>7. m * SPC <= Cardinality(ChainOf(T, c)) * SPC
    BY <1>c, <1>s, <2>1, <2>6, ProductMonotone
  <2> QED BY <1>c, <1>s, <2>1, <2>7
<1> QED BY <1>1, <1>2
(* The size of an entry of the root fits in the chain it starts. *)
LEMMA SizeFits ==
  ASSUME Types, NEW D, Sound(D), job.pc = "idle", NEW p \in Room(0)
  PROVE  LET e == Ent(sector, 0, p)
         IN  /\ e.size \in Nat
             /\ p \notin Used(sector, 0) => e.size = 0
             /\ p \in Used(sector, 0) =>
                  e.size <= SPC * Cardinality(Chain(sector, fat[1], 0, p))
<1>e. PICK e : e = Ent(sector, 0, p)
  OBVIOUS
<1>t. /\ fat[1] \in Tables /\ sector \in Contents /\ 0 \in D /\ 0 \in Cluster \cup {0}
  BY SoundSearch DEF DirectorySets
<1>1. e \in Slots
  BY <1>e, <1>t, EntryTypes
<1>2. CASE e.kind = "file"
  <2>1. e \in [kind : {"file"}, name : Names, first : Cluster \cup {0},
               size : 0 .. MaxSize, tag : Tags]
    BY <1>1, <1>2, KindsOfSlots
  <2>2. e.size \in Nat
    BY <2>1, Geometry
  <2>3. p \in Used(sector, 0)
    BY <1>e, <1>2 DEF Used
  <2>4. Holds(sector, fat[1], e.first, e.tag, e.size)
    <3>1. Intact(sector, fat[1], D, {})
      BY SoundTree
    <3> QED BY <1>e, <1>t, <1>2, <2>3, <3>1 DEF Intact
  <2>5. e.size <= SPC * Cardinality(ChainOf(fat[1], e.first))
    BY <2>2, <2>4, HoldsSpace
  <2> QED BY <1>e, <2>2, <2>3, <2>5 DEF Chain
<1>3. CASE e.kind = "dir"
  <2>1. e.size = 0
    BY <1>1, <1>3, KindsOfSlots
  <2>2. Cardinality(ChainOf(fat[1], e.first)) \in Nat /\ SPC \in Nat
    BY ChainSize, Geometry
  <2>3. 0 <= SPC * Cardinality(ChainOf(fat[1], e.first))
    BY <2>2
  <2> QED BY <1>e, <2>1, <2>3 DEF Chain
<1>4. CASE e.kind \notin {"file", "dir"}
  <2>1. \A x \in [kind : {"file"}, name : Names, first : Cluster \cup {0},
                 size : 0 .. MaxSize, tag : Tags] : x.kind = "file"
    OBVIOUS
  <2>2. \A x \in [kind : {"dir"}, name : Names, first : Cluster,
                 size : {0}, tag : {""}] : x.kind = "dir"
    OBVIOUS
  <2>3. e \in {EndSlot, DelSlot, Inert, DotSlot}
    BY <1>1, <1>4, <2>1, <2>2 DEF Slots
  <2>4. e.size = 0
    <3>1. EndSlot.size = 0 /\ DelSlot.size = 0 /\ Inert.size = 0 /\ DotSlot.size = 0
      BY DEF EndSlot, DelSlot, Inert, DotSlot, Entry
    <3> QED BY <2>3, <3>1
  <2> QED BY <1>e, <1>4, <2>4 DEF Used
<1> QED BY <1>2, <1>3, <1>4

(* The recursion of fat_get_used_kb adds up the sizes. *)
Part(i) == IF i \in Visible(fat[1], 0) THEN SlotAt(fat[1], 0, i).size ELSE 0
Adding(f) == f = [p \in 0 .. EPS * RootSecs |-> IF p = 0 THEN 0 ELSE f[p - 1] + Part(p - 1)]

LEMMA UsedRec ==
  ASSUME \A i \in 0 .. EPS * RootSecs - 1 : Part(i) \in Nat
  PROVE  \E f : /\ fat_get_used_kb = f[EPS * RootSecs]
                /\ f[0] = 0
                /\ \A i \in 1 .. EPS * RootSecs : f[i] = f[i - 1] + Part(i - 1)
<1>n. PICK n \in Nat : n = EPS * RootSecs
  BY Geometry
<1> DEFINE F == [i \in 1 .. n |-> [x \in Nat |-> x + Part(i - 1)]]
<1>1. PICK g : Recursive(g, n, 0, F)
  <2> HIDE DEF F
  <2> QED BY <1>n, RecursionExists
<1>2. \A i \in 0 .. n : g[i] = IF i = 0 THEN 0 ELSE F[i][g[i - 1]]
  <2> HIDE DEF F
  <2> QED BY <1>1, Zenon DEF Recursive
<1>3. \A i \in 0 .. n : g[i] \in Nat
  <2> DEFINE P == {i \in 0 .. n : g[i] \in Nat}
  <2>1. 0 \in P
    <3>1. 0 \in 0 .. n /\ g[0] = 0
      <4> HIDE DEF F
      <4> QED BY <1>n, <1>2
    <3> QED BY <3>1
  <2>2. ASSUME NEW i \in 1 .. n, i - 1 \in P PROVE i \in P
    <3>1. g[i] = F[i][g[i - 1]] /\ i \in 0 .. n /\ g[i - 1] \in Nat /\ i - 1 \in 0 .. n - 1
      <4> HIDE DEF F
      <4> QED BY <1>n, <1>2, <2>2
    <3>2. F[i][g[i - 1]] = g[i - 1] + Part(i - 1)
      BY <3>1
    <3>3. Part(i - 1) \in Nat
      BY <1>n, <3>1
    <3> QED BY <3>1, <3>2, <3>3
  <2> HIDE DEF P
  <2>3. \A i \in 0 .. n : i \in P
    BY <1>n, <2>1, <2>2, SetInduction
  <2> QED BY <2>3 DEF P
<1>4. \A i \in 0 .. n : g[i] = IF i = 0 THEN 0 ELSE g[i - 1] + Part(i - 1)
  <2>1. \A i \in 1 .. n : i \in 0 .. n /\ i - 1 \in 0 .. n /\ i # 0
    BY <1>n
  <2>2. \A i \in 1 .. n : g[i] = g[i - 1] + Part(i - 1)
    BY <1>2, <1>3, <2>1
  <2>3. \A i \in 0 .. n : i = 0 \/ i \in 1 .. n
    BY <1>n
  <2> QED BY <1>2, <2>2, <2>3
<1>5. Adding(g)
  <2>1. g = [i \in 0 .. n |-> g[i]]
    BY <1>1 DEF Recursive
  <2>2. [i \in 0 .. n |-> g[i]]
          = [i \in 0 .. n |-> IF i = 0 THEN 0 ELSE g[i - 1] + Part(i - 1)]
    BY <1>4, Zenon
  <2> HIDE DEF F
  <2> QED BY <1>n, <2>1, <2>2, Zenon DEF Adding
<1>6. Adding(CHOOSE f : Adding(f))
  BY <1>5
<1> DEFINE h == CHOOSE f : Adding(f)
<1>7. fat_get_used_kb = h[EPS * RootSecs]
  BY Zenon DEF fat_get_used_kb, Adding, Part
<1> HIDE DEF h
<1>8. \A i \in 0 .. n : h[i] = IF i = 0 THEN 0 ELSE h[i - 1] + Part(i - 1)
  BY <1>6, <1>n, Zenon DEF Adding, h
<1>9. h[0] = 0
  BY <1>8, <1>n
<1>10. \A i \in 1 .. n : h[i] = h[i - 1] + Part(i - 1)
  <2>1. \A i \in 1 .. n : i \in 0 .. n /\ i # 0
    BY <1>n
  <2> QED BY <1>8, <2>1
<1> QED BY <1>7, <1>9, <1>10, <1>n

(* The chains of the entries of the root are apart and taken, so that      *)
(* their clusters count once.                                              *)
LEMMA UsedIsTaken ==
  ASSUME Types, NEW D, Sound(D), job.pc = "idle"
  PROVE  fat_get_used_kb <= SPC * Cardinality({c \in Cluster : fat[1][c] # 0})
<1>n. PICK n \in Nat : n = EPS * RootSecs
  BY Geometry
<1>T. PICK T : T = fat[1]
  OBVIOUS
<1>t. /\ T \in Tables /\ sector \in Contents /\ 0 \in D /\ Single(T, 0) /\ SPC \in Nat
  BY <1>T, SoundSearch, Geometry DEF DirectorySets
<1>s. Entries(sector, T, D, {}) /\ Apart(sector, T, D)
  BY <1>T, SoundTree DEF Tree
<1>r. Room(0) = 0 .. n - 1
  BY <1>n, Geometry DEF Room
<1> DEFINE Own(i) == IF i \in Used(sector, 0) THEN Chain(sector, T, 0, i) ELSE {}
           U(i) == UNION {Own(j) : j \in 0 .. i - 1}
<1>c. \A S : S \subseteq Cluster => IsFiniteSet(S) /\ Cardinality(S) \in Nat
  <2>1. IsFiniteSet(2 .. NC + 1)
    BY Geometry, FS_Interval
  <2> QED BY <2>1, FS_Subset, FS_CardinalityType DEF Cluster
<1>o. \A i \in 0 .. n - 1 : Own(i) \subseteq {c \in Cluster : T[c] # 0}
  <2>1. \A i \in Used(sector, 0) : \A c \in Chain(sector, T, 0, i) : T[c] # 0
    BY <1>s, <1>t DEF Entries
  <2>2. \A i : Chain(sector, T, 0, i) \subseteq Cluster
    BY DEF Chain, ChainOf
  <2> QED BY <2>1, <2>2
<1>p. \A i \in 0 .. n - 1 : Part(i) \in Nat /\ Part(i) <= SPC * Cardinality(Own(i))
  <2> SUFFICES ASSUME NEW i \in 0 .. n - 1
               PROVE  Part(i) \in Nat /\ Part(i) <= SPC * Cardinality(Own(i))
    OBVIOUS
  <2>1. i \in Room(0) /\ SlotAt(T, 0, i) = Ent(sector, 0, i)
    BY <1>r, <1>t, SingleDirectory
  <2>2. LET e == Ent(sector, 0, i)
        IN  /\ e.size \in Nat
            /\ i \notin Used(sector, 0) => e.size = 0
            /\ i \in Used(sector, 0) => e.size <= SPC * Cardinality(Chain(sector, T, 0, i))
    BY <1>T, <2>1, SizeFits
  <2>3. Cardinality(Own(i)) \in Nat
    BY <1>c, <1>o
  <2>4. 0 <= SPC * Cardinality(Own(i))
    BY <1>t, <2>3
  <2>5. Part(i) = 0 \/ Part(i) = Ent(sector, 0, i).size
    BY <1>T, <2>1 DEF Part
  <2> QED BY <2>2, <2>4, <2>5
<1>f. PICK f : /\ fat_get_used_kb = f[n] /\ f[0] = 0
               /\ \A i \in 1 .. n : f[i] = f[i - 1] + Part(i - 1)
  BY <1>n, <1>p, UsedRec
<1>u. \A i \in 0 .. n : U(i) \subseteq {c \in Cluster : T[c] # 0}
  <2> SUFFICES ASSUME NEW i \in 0 .. n, NEW j \in 0 .. i - 1
               PROVE  Own(j) \subseteq {c \in Cluster : T[c] # 0}
    OBVIOUS
  <2>1. j \in 0 .. n - 1
    OBVIOUS
  <2> HIDE DEF Own
  <2> QED BY <1>o, <2>1
<1> DEFINE P == {i \in 0 .. n : f[i] \in Nat /\ f[i] <= SPC * Cardinality(U(i))}
<1>1. 0 \in P
  <2>1. U(0) = {}
    OBVIOUS
  <2>2. Cardinality(U(0)) = 0
    BY <2>1, FS_EmptySet
  <2> QED BY <1>f, <1>t, <2>2
<1>2. ASSUME NEW i \in 1 .. n, i - 1 \in P PROVE i \in P
  <2>j. PICK j : j = i - 1
    OBVIOUS
  <2>0. j \in 0 .. n - 1 /\ j \in 0 .. n /\ i \in 0 .. n
    BY <2>j
  <2>1. U(i) = U(j) \cup Own(j)
    <3>1. \A k : k \in 0 .. i - 1 <=> k \in 0 .. j - 1 \/ k = j
      BY <2>j, <2>0
    <3> HIDE DEF Own
    <3> QED BY <3>1
  <2>2. U(j) \cap Own(j) = {}
    <3> SUFFICES ASSUME NEW k \in 0 .. j - 1, NEW c, c \in Own(k), c \in Own(j) PROVE FALSE
      OBVIOUS
    <3>1. k \in Used(sector, 0) /\ j \in Used(sector, 0) /\ k # j
      BY <2>0
    <3> QED BY <1>s, <1>t, <3>1 DEF Apart
  <2>3. /\ IsFiniteSet(U(j)) /\ Cardinality(U(j)) \in Nat
        /\ IsFiniteSet(Own(j)) /\ Cardinality(Own(j)) \in Nat
    <3> HIDE DEF U, Own
    <3>1. U(j) \subseteq Cluster /\ Own(j) \subseteq Cluster
      BY <1>u, <1>o, <2>0
    <3> QED BY <1>c, <3>1
  <2> HIDE DEF U, Own
  <2>4. Cardinality(U(i)) = Cardinality(U(j)) + Cardinality(Own(j))
    <3>1. Cardinality(U(j) \cup Own(j))
            = Cardinality(U(j)) + Cardinality(Own(j)) - Cardinality(U(j) \cap Own(j))
      BY <2>3, FS_Union
    <3>2. Cardinality(U(j) \cap Own(j)) = 0
      BY <2>2, FS_EmptySet
    <3> QED BY <2>1, <2>3, <3>1, <3>2
  <2>5. SPC * Cardinality(U(i)) = SPC * Cardinality(U(j)) + SPC * Cardinality(Own(j))
    BY <1>t, <2>3, <2>4
  <2>6. f[i] = f[j] + Part(j) /\ f[j] \in Nat /\ f[j] <= SPC * Cardinality(U(j))
    BY <1>2, <1>f, <2>j
  <2>7. Part(j) \in Nat /\ Part(j) <= SPC * Cardinality(Own(j))
    BY <1>p, <2>0
  <2>8. SPC * Cardinality(U(j)) \in Nat /\ SPC * Cardinality(Own(j)) \in Nat
    BY <1>t, <2>3
  <2>9. f[i] \in Nat /\ f[i] <= SPC * Cardinality(U(i))
    BY <2>5, <2>6, <2>7, <2>8
  <2> QED BY <2>0, <2>9
<1>3. n \in P
  <2> HIDE DEF P
  <2>1. \A i \in 0 .. n : i \in P
    BY <1>1, <1>2, SetInduction
  <2> QED BY <2>1
<1> DEFINE taken == {c \in Cluster : T[c] # 0}
<1>4. U(n) \subseteq taken /\ taken \subseteq Cluster
  <2>1. n \in 0 .. n
    OBVIOUS
  <2> HIDE DEF U
  <2> QED BY <1>u, <2>1
<1>5. f[n] \in Nat /\ f[n] <= SPC * Cardinality(U(n))
  BY <1>3
<1> HIDE DEF U, taken
<1>6. Cardinality(U(n)) <= Cardinality(taken) /\ Cardinality(U(n)) \in Nat
      /\ Cardinality(taken) \in Nat
  <2>1. U(n) \subseteq Cluster
    BY <1>4
  <2> QED BY <1>4, <1>c, <2>1, FS_Subset
<1>7. Cardinality(U(n)) * SPC <= Cardinality(taken) * SPC
  BY <1>6, <1>t, ProductMonotone
<1>8. f[n] <= SPC * Cardinality(taken)
  BY <1>5, <1>6, <1>7, <1>t
<1> QED BY <1>8, <1>f, <1>T DEF taken

-----------------------------------------------------------------------------
(***************************************************************************)
(* The session.  A step of it is one of Fat, or leaves the disk and finds  *)
(* and leaves no operation in progress.                                    *)
(***************************************************************************)
SInv ==
  /\ TInv /\ Rising
  /\ mode # "on" => cmd = NoCmd
  /\ cmd = NoCmd => job.pc = "idle" /\ ret = NoRet
  /\ cmd.faults \in Nat /\ cmd.faults <= faults
  /\ ~torn => \E D : Sound(D)

Quiet ==
  /\ job.pc = "idle" /\ UNCHANGED <<fat, sector, torn, leaky>> /\ job' \in {job, Idle}
  /\ UNCHANGED <<cur, path>> \/ (cur' = 0 /\ path' = <<>>)
  /\ initialized' \in BOOLEAN /\ ret'.code \in {0, -1}
  /\ faults' \in 0 .. MaxFaults /\ faults <= faults'

GoesOn    == UNCHANGED <<mode, cmd>> /\ (UNCHANGED vars \/ Step)
Ends      == cmd' = NoCmd /\ job'.pc = "idle" /\ ret' = NoRet
Begins    == mode' = "on" /\ cmd'.faults = faults /\ cmd'.verb # "none"

(* The command that is started. *)
LEMMA Started ==
  ASSUME NEW verb, NEW a, NEW b, Start(verb, a, b)
  PROVE  /\ mode = "on" /\ mode' = "on" /\ cmd = NoCmd
         /\ cmd'.verb = verb /\ cmd'.a = a /\ cmd'.b = b /\ cmd'.faults = faults
         /\ verb \in {"copy", "ren"} => cmd'.file = fat_read(a, MaxSize)
         /\ verb \in {"del", "rmdir"} => cmd'.count = Cardinality(Named(verb, a))
<1>1. \A f, c : LET k == Command(verb, a, b, f, c, faults)
                IN  k.verb = verb /\ k.a = a /\ k.b = b /\ k.faults = faults
                    /\ k.file = f /\ k.count = c
  BY DEF Command
<1>2. \E f, c : /\ cmd' = Command(verb, a, b, f, c, faults)
                /\ verb \in {"copy", "ren"} => f = fat_read(a, MaxSize)
                /\ verb \in {"del", "rmdir"} => c = Cardinality(Named(verb, a))
  BY DEF Start
<1>3. mode = "on" /\ mode' = "on" /\ cmd = NoCmd
  BY DEF Start, Ready
<1> QED BY <1>1, <1>2, <1>3

(* Faults are never forgotten. *)
LEMMA FaultsGrow ==
  ASSUME Types, [Next]_vars
  PROVE  faults <= faults'
<1>t. faults \in Nat
  BY Geometry DEF Types
<1>o. \A o : Count(o) => faults <= faults'
  BY <1>t DEF Count
<1>s. faults' = faults \/ faults' = faults + 1 => faults <= faults'
  BY <1>t
<1>1. CASE UNCHANGED vars
  BY <1>1, <1>s DEF vars
<1>2. CASE Call
  BY <1>2, <1>o, <1>s DEF Call, FatInit, fat_delete, fat_rmdir, fat_write, fat_mkdir,
     fat_rename, fat_cd, fat_cd_up
<1>3. CASE Step
  BY <1>3, <1>o, <1>s DEF Step, FreeStep, EraseStep, LoadStep, DataStep, PutFatStep, DotsStep,
     EntryStep, EntryReadError
<1>4. CASE Crash
  BY <1>4, <1>s DEF Crash
<1> QED BY <1>1, <1>2, <1>3, <1>4 DEF Next

(* An access counts at most one fault. *)
LEMMA OneFault ==
  ASSUME faults \in 0 .. MaxFaults, faults' = faults \/ \E r \in Reads : Count(r)
  PROVE  faults' \in 0 .. MaxFaults /\ faults <= faults'
<1>1. faults <= faults /\ faults <= faults + 1
  BY Geometry
<1>2. CASE faults' = faults
  BY <1>1, <1>2
<1>3. ASSUME NEW r \in Reads, Count(r) PROVE faults' \in 0 .. MaxFaults /\ faults <= faults'
  <2>1. faults' \in 0 .. MaxFaults
    BY <1>3, Faults
  <2>2. faults' = faults \/ faults' = faults + 1
    BY <1>3 DEF Count
  <2> QED BY <1>1, <2>1, <2>2
<1> QED BY <1>2, <1>3

(* A refused operation and a read leave everything but what they return.   *)
LEMMA QuietFinish ==
  ASSUME Types, job.pc = "idle", UNCHANGED <<fat, sector, cur, path, initialized, torn, leaky>>,
         NEW op, NEW name, NEW code \in {0, -1}, Finish(op, name, "", 0, code),
         faults' = faults \/ \E r \in Reads : Count(r)
  PROVE  Quiet
<1>1. job' = Idle /\ ret'.code = code
  BY DEF Finish
<1>2. faults \in 0 .. MaxFaults
  BY DEF Types
<1>3. faults' \in 0 .. MaxFaults /\ faults <= faults'
  BY <1>2, OneFault
<1>4. initialized \in BOOLEAN
  BY DEF Types
<1> QED BY <1>1, <1>3, <1>4 DEF Quiet

(* What fat_read returns fits in a file, also when the tree is broken.     *)
LEMMA ReadSize ==
  ASSUME Types, NEW name, NEW buf_size \in Nat, fat_read(name, buf_size).code # -1
  PROVE  fat_read(name, buf_size).code \in 0 .. MaxSize
<1> DEFINE Bound(e) == {e.size, buf_size} \cup
             {k \in 0 .. e.size - 1 : Follow(fat[1], e.first)[k \div SPC] \notin Cluster}
<1>T. PICK T : T = fat[1]
  OBVIOUS
<1>t. /\ T \in Tables /\ cur \in Cluster \cup {0}
      /\ sector \in [Sectors -> DataSectors \cup DirSectors]
  BY <1>T, Geometry DEF Types
<1> DEFINE found == Matches(T, cur, "file", name)
<1>p. PICK p : p = Least(found)
  OBVIOUS
<1>e. PICK e : e = SlotAt(T, cur, p)
  OBVIOUS
<1>1. /\ found = {} => fat_read(name, buf_size).code = -1
      /\ found # {} => fat_read(name, buf_size).code = Least(Bound(SlotAt(T, cur, Least(found))))
  BY <1>T DEF fat_read, ReadFile
<1>2. found # {}
  BY <1>1
<1>3. e \in Slots /\ e.kind = "file"
  BY <1>t, <1>p, <1>e, <1>2, FirstMatch
<1>4. e.size \in 0 .. MaxSize
  BY <1>3, KindsOfSlots
<1>5. Bound(e) \in SUBSET Nat /\ e.size \in Bound(e)
  BY <1>4, Geometry
<1>6. fat_read(name, buf_size).code = Least(Bound(e))
  BY <1>1, <1>2, <1>p, <1>e
<1> HIDE DEF Bound, found
<1>7. Least(Bound(e)) \in Bound(e) /\ Least(Bound(e)) <= e.size
  BY <1>5, LeastIsLeast
<1>8. Least(Bound(e)) \in Nat
  BY <1>5, <1>7
<1> QED BY <1>4, <1>6, <1>7, <1>8, Geometry

(* What a step of the session is for the volume, and for the command.      *)
LEMMA SessionSteps ==
  ASSUME SInv, [Session]_shellVars
  PROVE  /\ [Next]_vars \/ Quiet
         /\ GoesOn \/ Ends \/ Begins
<1>t. /\ Types /\ job \in Jobs /\ faults \in 0 .. MaxFaults
  BY DEF SInv, TInv, Types
<1>i. Idle.pc = "idle" /\ NoRet.code = 0
  BY DEF Idle, NoRet
<1>n. FileNames \subseteq Names /\ DirNames \subseteq Names
  BY DEF Names
<1>b. ASSUME NEW verb, verb # "none", NEW a, NEW b, Start(verb, a, b)
      PROVE  Begins /\ job.pc = "idle"
  BY <1>b, Started DEF Begins, SInv
<1>r. ASSUME NEW op, NEW a, Refused(op, a), job.pc = "idle" PROVE Quiet
  BY <1>r, <1>t, QuietFinish DEF Refused, disk
<1>o. ASSUME Off, job.pc = "idle" PROVE Quiet
  <2>1. /\ UNCHANGED <<fat, sector, torn, leaky, job, ret, faults>>
        /\ cur' = 0 /\ path' = <<>> /\ initialized' = FALSE
    BY <1>o DEF Off, disk
  <2>2. initialized' \in BOOLEAN
    BY <2>1
  <2>3. ret'.code \in {0, -1}
    BY <1>t, <2>1 DEF Types
  <2>4. faults' \in 0 .. MaxFaults /\ faults <= faults'
    BY <1>t, <2>1, Geometry
  <2> QED BY <1>o, <2>1, <2>2, <2>3, <2>4 DEF Quiet
<1>1. CASE UNCHANGED shellVars
  <2>1. UNCHANGED <<vars, mode, cmd>>
    BY <1>1 DEF shellVars
  <2> QED BY <2>1 DEF GoesOn
<1>2. CASE Boot
  <2>1. Next /\ cmd' = cmd /\ mode # "on"
    BY <1>2 DEF Boot, Next, Call
  <2>2. job' = job /\ ret' = ret
    BY <1>2 DEF Boot, FatInit
  <2> QED BY <2>1, <2>2 DEF SInv, Ends
<1>3. CASE Execute
  <2>1. ASSUME NEW a \in FileNames, cmd_del(a)
        PROVE  Begins /\ (Next \/ Quiet)
    BY <2>1, <1>b, <1>r DEF cmd_del, Next, Call
  <2>2. ASSUME NEW a \in FileNames, cmd_type(a)
        PROVE  Begins /\ (Next \/ Quiet)
    <3>1. Begins /\ job.pc = "idle"
      BY <2>2, <1>b DEF cmd_type
    <3>2. CASE ReadTo(a)
      BY <3>1, <3>2, <1>t, QuietFinish DEF ReadTo, disk
    <3>3. ASSUME NEW r \in Reads, ReadFails(a, r) PROVE Quiet
      BY <3>1, <3>3, <1>t, QuietFinish DEF ReadFails, disk
    <3> QED BY <2>2, <3>1, <3>2, <3>3 DEF cmd_type
  <2>3. ASSUME NEW a \in FileNames, NEW t \in Contexts, cmd_create(a, t)
        PROVE  Begins /\ (Next \/ Quiet)
    <3>1. Begins /\ job.pc = "idle"
      BY <2>3, <1>b DEF cmd_create
    <3>2. ASSUME NEW r \in Reads, fat_write(a, t, 1, r) PROVE Next
      <4>1. t \in Tags /\ 1 \in 0 .. MaxSize
        BY CommandsAssumption, Geometry
      <4> QED BY <3>2, <4>1 DEF Next, Call
    <3> QED BY <2>3, <1>r, <3>1, <3>2 DEF cmd_create
  <2>4. ASSUME NEW a \in FileNames, NEW b \in FileNames, cmd_ren(a, b)
        PROVE  Begins /\ (Next \/ Quiet)
    BY <2>4, <1>b, <1>r DEF cmd_ren, Next, Call
  <2>6. ASSUME NEW a \in DirNames, cmd_mkdir(a) PROVE Begins /\ (Next \/ Quiet)
    BY <2>6, <1>b, <1>r DEF cmd_mkdir, Next, Call
  <2>7. ASSUME NEW a \in DirNames, cmd_rmdir(a) PROVE Begins /\ (Next \/ Quiet)
    BY <2>7, <1>b, <1>r DEF cmd_rmdir, Next, Call
  <2>8. ASSUME NEW a \in DirNames, cmd_cd(a) PROVE Begins /\ (Next \/ Quiet)
    BY <2>8, <1>b, <1>r DEF cmd_cd, Next, Call
  <2>9. ASSUME cmd_cd_up PROVE Begins /\ (Next \/ Quiet)
    BY <2>9, <1>b, <1>r DEF cmd_cd_up, Next, Call
  <2>10. ASSUME CreateBare \/ cmd_halt PROVE Ends /\ UNCHANGED vars
    <3>1. UNCHANGED <<vars, cmd>> /\ cmd = NoCmd
      BY <2>10 DEF CreateBare, cmd_halt, Ready
    <3>2. job' = job /\ ret' = ret
      BY <3>1 DEF vars
    <3> QED BY <3>1, <3>2 DEF SInv, Ends
  <2>11. ASSUME cmd_reboot \/ cmd_shutdown PROVE Ends /\ Quiet
    <3>1. /\ Off /\ cmd = NoCmd /\ job' = job /\ ret' = ret /\ cmd' = cmd
          /\ job.pc = "idle" /\ ret = NoRet
      BY <2>11 DEF cmd_reboot, cmd_shutdown, Ready, Off, SInv
    <3> QED BY <1>o, <3>1 DEF Ends
  <2>5. ASSUME NEW a \in FileNames, NEW b \in FileNames, cmd_copy(a, b)
        PROVE  Begins /\ (Next \/ Quiet)
    <3>1. Begins /\ job.pc = "idle"
      BY <2>5, <1>b DEF cmd_copy
    <3>3. ASSUME NEW r \in Reads, ReadFails(a, r) PROVE Quiet
      BY <3>1, <3>3, <1>t, QuietFinish DEF ReadFails, disk
    <3>4. ASSUME NEW t \in Tags, NEW r \in Reads, fat_read(a, FileBuf).code >= 0,
                 fat_write(b, t, fat_read(a, FileBuf).code, r)
          PROVE  Next
      <4>1. fat_read(a, FileBuf).code # -1 /\ FileBuf \in Nat
        BY <3>4, CommandsAssumption
      <4>2. fat_read(a, FileBuf).code \in 0 .. MaxSize
        BY <1>t, <4>1, ReadSize
      <4> QED BY <3>4, <4>2 DEF Next, Call
    <3> QED BY <2>5, <3>1, <3>3, <3>4 DEF cmd_copy
  <2> QED BY <1>3, <2>1, <2>2, <2>3, <2>4, <2>5, <2>6, <2>7, <2>8, <2>9, <2>10, <2>11
          DEF Execute
<1>4. CASE Report
  <2>1. /\ UNCHANGED <<fat, sector, torn, leaky, job, cur, path, initialized, faults>>
        /\ job.pc = "idle" /\ ret' = NoRet /\ cmd' = NoCmd
    BY <1>4 DEF Report, disk
  <2>2. Quiet
    BY <1>t, <1>i, <2>1, Geometry DEF Quiet, Types
  <2> QED BY <2>1, <2>2 DEF Ends
<1>5. CASE SwitchOff
  <2>1. /\ Off /\ cmd = NoCmd /\ job' = job /\ ret' = ret /\ cmd' = cmd
        /\ job.pc = "idle" /\ ret = NoRet
    BY <1>5 DEF SwitchOff, Off, SInv
  <2> QED BY <1>o, <2>1 DEF Ends
<1>6. CASE PowerFails
  <2>1. Next /\ cmd' = NoCmd /\ job' = Idle /\ ret' = NoRet
    BY <1>6 DEF PowerFails, Next, Crash
  <2> QED BY <1>i, <2>1 DEF Ends
<1>7. CASE Step /\ UNCHANGED <<mode, cmd>>
  BY <1>7 DEF GoesOn, Next
<1> QED BY <1>1, <1>2, <1>3, <1>4, <1>5, <1>6, <1>7 DEF Session

(* What Quiet keeps of the volume. *)
LEMMA QuietKeeps ==
  ASSUME TInv, Rising, Quiet
  PROVE  /\ TInv' /\ Rising' /\ job'.pc = "idle" /\ torn' = torn /\ faults <= faults'
         /\ \A D : Sound(D) => Sound(D)'
<1>t. Types /\ Phases
  BY DEF TInv
<1>i. Idle.pc = "idle" /\ Idle \in Jobs /\ Idle.op = ""
  BY IdleJob DEF Idle
<1>q. /\ job.pc = "idle" /\ job' \in {job, Idle} /\ fat' = fat /\ sector' = sector
      /\ torn' = torn /\ leaky' = leaky /\ faults <= faults'
  BY DEF Quiet
<1>1. job' \in Jobs /\ job'.pc = "idle"
  BY <1>t, <1>i, <1>q DEF Types
<1>2. Phases'
  <2>1. CASE job' = job
    BY <1>t, <2>1 DEF Phases
  <2>2. CASE job' = Idle
    BY <1>i, <2>2 DEF Phases
  <2> QED BY <1>q, <2>1, <2>2
<1>3. /\ fat' \in [1 .. FatCount -> Tables]
      /\ sector' \in [Sectors -> DataSectors \cup DirSectors]
      /\ torn' \in BOOLEAN /\ leaky' \in BOOLEAN
  BY <1>t, <1>q DEF Types
<1>4. cur' \in Cluster \cup {0} /\ path' \in Seq(Names) /\ Len(path') <= MaxDepth
  <2>1. CASE UNCHANGED <<cur, path>>
    BY <1>t, <2>1 DEF Types
  <2>2. CASE cur' = 0 /\ path' = <<>>
    BY <2>2, Paths
  <2> QED BY <2>1, <2>2 DEF Quiet
<1>5. Types'
  BY <1>1, <1>3, <1>4 DEF Types, Quiet
<1>6. ASSUME NEW D, Sound(D) PROVE Sound(D)'
  <2>1. Tree(sector, fat[1], D, {}) /\ Intact(sector, fat[1], D, {})
    BY <1>q, <1>6, SoundTree
  <2>2. D \in DirectorySets /\ 0 \in D /\ cur \in D
    BY <1>6 DEF Sound, DirectorySets
  <2>3. cur' \in D
    BY <2>2 DEF Quiet
  <2> QED BY <1>1, <1>q, <2>1, <2>2, <2>3, SoundAtRest
<1>7. Rising'
  BY <1>1 DEF Rising
<1> QED BY <1>1, <1>2, <1>5, <1>6, <1>7, <1>q DEF TInv

(* The volume of the first boot. *)
LEMMA SInvInit ==
  ASSUME BootInit
  PROVE  SInv
<1>v. PICK v \in Volumes : fat = v.fat /\ sector = v.sector
  BY DEF BootInit
<1>d. PICK D \in DirectorySets : Tree(sector, fat[1], D, {}) /\ Intact(sector, fat[1], D, {})
  BY <1>v, VolumesAssumption
<1>1. /\ cur = 0 /\ path = <<>> /\ job = Idle /\ ret = NoRet
      /\ faults = 0 /\ cmd = NoCmd
  BY DEF BootInit
<1>2. Idle.pc = "idle" /\ Idle \in Jobs /\ Idle.op = "" /\ NoRet.code = 0
  BY IdleJob DEF Idle, NoRet
<1>3. fat \in [1 .. FatCount -> Tables] /\ sector \in [Sectors -> DataSectors \cup DirSectors]
  BY <1>v, VolumesAssumption DEF Contents
<1>4. initialized \in BOOLEAN /\ torn \in BOOLEAN /\ leaky \in BOOLEAN
  BY DEF BootInit
<1>5. cur \in Cluster \cup {0} /\ path \in Seq(Names) /\ Len(path) <= MaxDepth
  BY <1>1, Paths
<1>6. ret.code \in {0, -1} /\ faults \in 0 .. MaxFaults /\ job \in Jobs
  <2>1. 0 \in 0 .. MaxFaults
    BY Geometry
  <2>2. ret.code = 0 /\ 0 \in {0, -1}
    BY <1>1, <1>2
  <2> QED BY <1>1, <1>2, <2>1, <2>2
<1>7. TInv /\ Rising
  BY <1>1, <1>2, <1>3, <1>4, <1>5, <1>6 DEF TInv, Types, Phases, Rising
<1>8. Sound(D)
  <2>1. Gone = {} /\ Releases(D) /\ Grows /\ Fills /\ Adds(D) /\ Kept
    BY <1>1, <1>2 DEF Gone, Releases, Grows, Fills, Adds, Kept
  <2>2. cur \in D
    BY <1>1, <1>d DEF DirectorySets
  <2> QED BY <1>d, <2>1, <2>2 DEF Sound
<1>9. cmd.faults \in Nat /\ cmd.faults <= faults
  <2>1. cmd.faults = 0
    BY <1>1 DEF NoCmd, Command
  <2>2. 0 \in Nat /\ 0 <= 0
    OBVIOUS
  <2> QED BY <1>1, <2>1, <2>2
<1> QED BY <1>1, <1>2, <1>7, <1>8, <1>9 DEF SInv

(* Every step of the session keeps a volume, and counts the faults.        *)
LEMMA SInvNext ==
  ASSUME DirectoriesCleared, SInv, [Session]_shellVars
  PROVE  SInv'
<1>y. TInv /\ Rising /\ Types
  BY DEF SInv, TInv
<1>n. NoCmd.verb = "none" /\ NoCmd.faults = 0
  BY DEF NoCmd, Command
<1>1. /\ [Next]_vars \/ Quiet
      /\ GoesOn \/ Ends \/ Begins
  BY SessionSteps
<1>2. /\ TInv' /\ Rising' /\ faults <= faults'
      /\ ~torn' => \E D : Sound(D)'
  <2>1. CASE Quiet
    <3>1. TInv' /\ Rising' /\ faults <= faults' /\ torn' = torn /\ \A D : Sound(D) => Sound(D)'
      BY <1>y, <2>1, QuietKeeps
    <3> QED BY <3>1 DEF SInv
  <2>2. CASE [Next]_vars
    <3>1. TInv'
      BY <1>y, <2>2, TypesNext
    <3>2. Rising' /\ faults <= faults'
      BY <1>y, <2>2, RisingNext, FaultsGrow
    <3>3. ASSUME ~torn' PROVE \E D : Sound(D)'
      <4>1. ~torn
        BY <1>y, <2>2, <3>3, TornStays
      <4>2. PICK D : Sound(D)
        BY <4>1 DEF SInv
      <4>3. PICK E : E = After(D)
        OBVIOUS
      <4>4. Sound(E)'
        BY <1>y, <2>2, <3>1, <3>3, <4>2, <4>3, SoundNext DEF DirectoriesCleared
      <4> QED BY <4>4
    <3> QED BY <3>1, <3>2, <3>3
  <2> QED BY <1>1, <2>1, <2>2
<1>3. mode' # "on" => cmd' = NoCmd
  BY <1>1 DEF SInv, GoesOn, Ends, Begins
<1>4. cmd' = NoCmd => job'.pc = "idle" /\ ret' = NoRet
  <2>1. CASE GoesOn
    <3>1. Step => job.pc # "idle"
      BY DEF Step, FreeStep, EraseStep, LoadStep, DataStep, PutFatStep, DotsStep,
             EntryStep, EntryReadError
    <3>2. UNCHANGED vars => job' = job /\ ret' = ret
      BY DEF vars
    <3> QED BY <2>1, <3>1, <3>2 DEF SInv, GoesOn
  <2> QED BY <1>1, <1>n, <2>1 DEF Ends, Begins
<1>5. cmd'.faults \in Nat /\ cmd'.faults <= faults'
  <2>t. faults \in Nat /\ faults' \in Nat
    BY <1>y, <1>2, Geometry DEF TInv, Types
  <2>1. CASE GoesOn
    BY <1>2, <2>1, <2>t DEF SInv, GoesOn
  <2>2. CASE Ends
    BY <1>n, <2>2, <2>t DEF Ends
  <2>3. CASE Begins
    BY <1>2, <2>3, <2>t DEF Begins
  <2> QED BY <1>1, <2>1, <2>2, <2>3
<1>6. (~torn => \E D : Sound(D))'
  BY <1>2
<1> QED BY <1>2, <1>3, <1>4, <1>5, <1>6 DEF SInv

(* In a session of commands there is a volume, whatever another system     *)
(* wrote on the disk, until a release is cut off.                          *)
THEOREM SessionKeepsVolume == ASSUME DirectoriesCleared PROVE SessionSpec => []SInv
BY SInvInit, SInvNext, PTL DEF SessionSpec

(* mfetch adds up the sizes in the root directory; the table has a cluster *)
(* for each of them, so the space shown as used is not free.               *)
THEOREM UsedSpaceTaken == ASSUME DirectoriesCleared PROVE SessionSpec => []UsedSpaceIsTaken
<1>1. ASSUME SInv PROVE UsedSpaceIsTaken
  BY <1>1, UsedIsTaken DEF SInv, TInv, UsedSpaceIsTaken
<1> QED BY <1>1, SessionKeepsVolume, PTL

-----------------------------------------------------------------------------
(***************************************************************************)
(* What each command has done so far, and what it has found when it is     *)
(* about to tell.  All of it is read from the disk, the operation in       *)
(* progress and what it returned, and holds as long as no access fails     *)
(* while the command runs.                                                 *)
(***************************************************************************)
Calm == faults = cmd.faults /\ ~torn

(* The places of a directory where a search finds a name, and the vacant   *)
(* ones; the clusters that are free.                                       *)
Shown(S, d, kind, name) ==
  {p \in Room(d) : /\ Match(S, d, p, kind, name)
                   /\ \A q \in 0 .. p : Ent(S, d, q) # EndSlot}
Vacant(S, d) == {p \in Room(d) : Ent(S, d, p) \in {EndSlot, DelSlot}}
Zeros(T)     == {c \in Cluster : T[c] = 0}

Target == Shown(sector, cur, Kind(cmd.verb), cmd.a)

(* del and rmdir: the first of so many entries is the one that goes.       *)
Removing ==
  cmd.verb \in {"del", "rmdir"} =>
    /\ job.pc \in {"idle", "free", "erase"}
    /\ job.pc # "idle" =>
         /\ job.op # "write" /\ Cardinality(Target) = cmd.count
         /\ \E p \in Room(cur) : First(sector, cur, Kind(cmd.verb), cmd.a, p) /\ Aims(p)
    /\ job.pc = "idle" => /\ ret.code = 0 => Cardinality(Target) = cmd.count - 1
                          /\ initialized /\ ret.code = -1 => Target = {}

(* ren has left the file it found under the new name. *)
KeptFile == \E p \in Shown(sector, cur, "file", cmd.b) :
             /\ Ent(sector, cur, p).size = cmd.file.code
             /\ Written(Ent(sector, cur, p).tag, cmd.file.code) = cmd.file

(* ren, type and cd have nothing in progress. *)
Looking ==
  cmd.verb \in {"ren", "type", "cd"} =>
    /\ job.pc = "idle"
    /\ initialized /\ ret.code = -1 => Target = {}
    /\ cmd.verb = "type" /\ ret.code = 0 => Target # {}
    /\ cmd.verb = "ren" /\ ret.code = 0 /\ split_83(cmd.b) = cmd.b => KeptFile

(* The volume is full, or the current directory is. *)
Full(size) == Cardinality(Zeros(fat[1])) * SPC < size \/ Vacant(sector, cur) = {}

(* mkdir makes a directory that names nothing. *)
Making ==
  cmd.verb = "mkdir" =>
    /\ job.pc \in {"idle", "putfat", "dots", "entry"}
    /\ job.pc # "idle" => job.op = "mkdir" /\ job.name = cmd.a
    /\ job.pc = "idle" =>
         /\ ret.op = "mkdir"
         /\ ret.code = 0 /\ split_83(cmd.a) = cmd.a
              => \E p \in Target : Used(sector, Ent(sector, cur, p).first) = {}
         /\ initialized /\ ret.code = -1 => Full(SPC)

(* What copy writes: the source, up to the size of file_buf. *)
Carries(name, tag, size) ==
  /\ name = cmd.b /\ cmd.file.code \in 0 .. MaxSize
  /\ size = (IF cmd.file.code <= FileBuf THEN cmd.file.code ELSE FileBuf)
  /\ cmd.file = Written(tag, cmd.file.code)

(* The source is there. *)
Source == \E p \in Room(cur) :
            /\ First(sector, cur, "file", cmd.a, p)
            /\ Ent(sector, cur, p).size = cmd.file.code
            /\ Written(Ent(sector, cur, p).tag, cmd.file.code) = cmd.file

(* What copy keeps, except in the two cases CopyKeepsSource names. *)
Keepable == /\ cmd.file.code >= 0
            /\ split_83(cmd.b) = cmd.a => cmd.file.code <= FileBuf
            /\ cmd.a = cmd.b => split_83(cmd.b) = cmd.a

(* A file copied to itself is released first.  Its clusters suffice for    *)
(* the copy, and its place for the entry.                                  *)
Suffices(T) == cmd.file.code <= SPC * Cardinality(Zeros(T))
Itself ==
  /\ job.pc \in {"free", "erase"} => Suffices(job.buf)
  /\ job.pc = "free" => \A c \in Cluster : WriteOf(1, c) < job.w => fat[1][c] = job.buf[c]
  /\ job.pc = "erase" => fat[1] = job.buf
  /\ job.pc \in {"load", "data"} => Suffices(fat[1])
  /\ job.pc \in {"load", "data", "putfat", "entry"} => Vacant(sector, cur) # {}

Copies ==
  cmd.verb = "copy" =>
    /\ NameLeads /\ ReadsNew /\ job.pc # "dots"
    /\ job.pc # "idle" => job.op = "write" /\ Carries(job.name, job.tag, job.size)
    /\ job.pc \in {"free", "erase"} =>
         \E p \in Room(cur) : First(sector, cur, "file", cmd.b, p) /\ Aims(p)
    /\ job.pc = "data" => Cardinality(Fresh) * SPC < job.k + SPC
    /\ job.pc = "idle" =>
         /\ ret.op # "mkdir"
         /\ ret.code = 0 => ret.op = "write" /\ Carries(ret.name, ret.tag, ret.size)
         /\ initialized /\ ret.code = -1 =>
              IF ret.op = "write" THEN Full(ret.size) ELSE Target = {}
    /\ Keepable => IF job.pc # "idle" /\ cmd.a = cmd.b THEN Itself ELSE Source

Doing == Removing /\ Looking /\ Making /\ Copies

CInv == SInv /\ (Calm => Doing)

(* What a search shows. *)
LEMMA SeenIsShown ==
  ASSUME Types, NEW D, Sound(D), NEW kind, NEW name
  PROVE  Matches(fat[1], cur, kind, name) = Shown(sector, cur, kind, name)
<1>T. PICK T : T = fat[1]
  OBVIOUS
<1>t. /\ T \in Tables /\ cur \in Cluster \cup {0} /\ Single(T, cur)
  BY <1>T, SoundSearch
<1>1. \A p : p \in Visible(T, cur) <=>
             p \in Room(cur) /\ \A q \in 0 .. p : Ent(sector, cur, q) # EndSlot
  BY <1>t, Seen
<1>2. \A p \in Room(cur) : SlotAt(T, cur, p) = Ent(sector, cur, p)
  BY <1>t, SingleDirectory
<1>3. \A p : p \in Matches(T, cur, kind, name) <=>
             p \in Visible(T, cur) /\ SlotAt(T, cur, p).kind = kind
                                 /\ SlotAt(T, cur, p).name = name
  BY DEF Matches
<1>4. \A p : p \in Shown(sector, cur, kind, name) <=>
             /\ p \in Room(cur) /\ Match(sector, cur, p, kind, name)
             /\ \A q \in 0 .. p : Ent(sector, cur, q) # EndSlot
  BY DEF Shown
<1>5. \A p : p \in Matches(T, cur, kind, name) <=> p \in Shown(sector, cur, kind, name)
  BY <1>1, <1>2, <1>3, <1>4 DEF Match
<1> QED BY <1>T, <1>5

(* The first of them, if there is one. *)
LEMMA FirstShown ==
  ASSUME Types, NEW D, Sound(D), NEW kind \in {"file", "dir"}, NEW name
  PROVE  /\ Shown(sector, cur, kind, name) # {}
              => \E p \in Room(cur) : First(sector, cur, kind, name, p)
         /\ \A p : First(sector, cur, kind, name, p)
              => p \in Shown(sector, cur, kind, name) /\ p \in Room(cur)
<1>T. PICK T : T = fat[1]
  OBVIOUS
<1>t. /\ T \in Tables /\ cur \in Cluster \cup {0} /\ Single(T, cur) /\ kind # "end"
  BY <1>T, SoundSearch
<1>s. Matches(T, cur, kind, name) = Shown(sector, cur, kind, name)
  BY <1>T, SeenIsShown
<1>1. Shown(sector, cur, kind, name) # {}
        => First(sector, cur, kind, name, Least(Matches(T, cur, kind, name)))
  BY <1>s, <1>t, SearchFinds
<1>2. ASSUME NEW p, First(sector, cur, kind, name, p)
      PROVE  p \in Shown(sector, cur, kind, name) /\ p \in Room(cur)
  <2>1. /\ p \in Room(cur) /\ Match(sector, cur, p, kind, name)
        /\ \A q \in 0 .. p - 1 : Ent(sector, cur, q) # EndSlot
    BY <1>2 DEF First
  <2>2. Ent(sector, cur, p) # EndSlot
    <3>1. EndSlot.kind = "end"
      BY DEF EndSlot, Entry
    <3> QED BY <1>t, <2>1, <3>1 DEF Match
  <2>3. \A q \in 0 .. p : q = p \/ q \in 0 .. p - 1
    BY <2>1, PlacesBefore
  <2> QED BY <2>1, <2>2, <2>3 DEF Shown
<1> QED BY <1>1, <1>2 DEF First

(* Entries that stay show what they showed. *)
LEMMA ShownKept ==
  ASSUME NEW S, NEW S2, NEW d, \A q \in Room(d) : Ent(S2, d, q) = Ent(S, d, q)
  PROVE  /\ \A kind, name : Shown(S2, d, kind, name) = Shown(S, d, kind, name)
         /\ Vacant(S2, d) = Vacant(S, d)
<1>1. \A p \in Room(d) : \A q \in 0 .. p : Ent(S2, d, q) = Ent(S, d, q)
  BY PlacesBefore
<1>2. ASSUME NEW kind, NEW name
      PROVE  Shown(S2, d, kind, name) = Shown(S, d, kind, name)
  <2>1. ASSUME NEW p \in Room(d)
        PROVE  p \in Shown(S2, d, kind, name) <=> p \in Shown(S, d, kind, name)
    BY <1>1 DEF Shown, Match
  <2> QED BY <2>1 DEF Shown
<1> QED BY <1>2 DEF Vacant

(* The places of a directory that FailureIsTrue counts. *)
LEMMA PlacesVacant ==
  ASSUME Types, NEW D, Sound(D)
  PROVE  {p \in Positions(fat[1], cur) : SlotAt(fat[1], cur, p).kind \in {"end", "del"}}
           = Vacant(sector, cur)
<1>T. PICK T : T = fat[1]
  OBVIOUS
<1>t. /\ T \in Tables /\ cur \in Cluster \cup {0} /\ Single(T, cur) /\ sector \in Contents
  BY <1>T, SoundSearch
<1>1. Positions(T, cur) = Room(cur)
      /\ \A p \in Room(cur) : SlotAt(T, cur, p) = Ent(sector, cur, p)
  BY <1>t, SingleDirectory
<1>2. \A p \in Room(cur) : Ent(sector, cur, p) \in Slots
  BY <1>t, EntryTypes
<1>3. \A e \in Slots : e.kind \in {"end", "del"} <=> e \in {EndSlot, DelSlot}
  <2>1. EndSlot.kind = "end" /\ DelSlot.kind = "del" /\ Inert.kind = "label"
        /\ DotSlot.kind = "dot"
    BY DEF EndSlot, DelSlot, Inert, DotSlot, Entry
  <2>2. \A e \in Slots : \/ e \in {EndSlot, DelSlot, Inert, DotSlot}
                          \/ e.kind \in {"file", "dir"}
    BY DEF Slots
  <2> QED BY <2>1, <2>2
<1> QED BY <1>1, <1>2, <1>3, <1>T DEF Vacant

(* A directory has so many places. *)
LEMMA RoomFinite == \A d : IsFiniteSet(Room(d))
<1> SUFFICES ASSUME NEW d PROVE IsFiniteSet(Room(d))
  OBVIOUS
<1>1. PICK n : n = (IF d = 0 THEN RootSecs ELSE 1) * EPS - 1
  OBVIOUS
<1>2. Room(d) = 0 .. n /\ n \in Int
  BY <1>1, Geometry DEF Room
<1>3. 0 \in Int
  OBVIOUS
<1> QED BY <1>2, <1>3, FS_Interval

(* A release aims at one place. *)
LEMMA OneAim ==
  ASSUME Types, NEW p, NEW q, Aims(p), Aims(q)
  PROVE  p = q
<1>1. cur \in Cluster \cup {0} /\ p \in Room(cur) /\ q \in Room(cur)
  BY DEF Types, Aims, Used
<1> QED BY <1>1, Places DEF Aims

(* A step that meets no fault. *)
LEMMA CalmStep ==
  ASSUME faults \in 0 .. MaxFaults, Step, faults' = faults
  PROVE  \/ FreeStep("ok") \/ EraseStep("ok") \/ LoadStep("ok") \/ DataStep("ok")
         \/ PutFatStep("ok") \/ DotsStep("ok") \/ EntryStep("ok")
<1>1. \A o : Count(o) => o = "ok"
  BY Geometry DEF Count
<1>2. ~EntryReadError
  BY Geometry DEF EntryReadError
<1>3. /\ \A o : FreeStep(o) => Count(o)
      /\ \A o : EraseStep(o) => Count(o)
      /\ \A o : LoadStep(o) => Count(o)
      /\ \A o : DataStep(o) => Count(o)
      /\ \A o : PutFatStep(o) => Count(o)
      /\ \A o : DotsStep(o) => Count(o)
      /\ \A o : EntryStep(o) => Count(o)
  BY DEF FreeStep, EraseStep, LoadStep, DataStep, PutFatStep, DotsStep, EntryStep
<1> QED BY <1>1, <1>2, <1>3 DEF Step

-----------------------------------------------------------------------------
(* del and rmdir set out, or find nothing. *)
LEMMA RemovingStarts ==
  ASSUME Types, NEW D, Sound(D), job.pc = "idle", UNCHANGED <<fat, sector, cur>>,
         initialized' => initialized,
         NEW verb, NEW op, <<verb, op>> \in {<<"del", "delete">>, <<"rmdir", "rmdir">>},
         NEW a, NEW tag, NEW size, cmd'.verb = verb, cmd'.a = a, cmd'.count = Cardinality(Named(verb, a)),
         \/ /\ Named(verb, a) # {}
            /\ StartRelease(op, a, tag, size, Least(Named(verb, a)))
         \/ /\ ~initialized \/ Named(verb, a) = {}
            /\ Finish(op, a, tag, size, -1)
  PROVE  Removing'
<1>k. PICK kind : kind = Kind(verb)
  OBVIOUS
<1>1. kind \in {"file", "dir"} /\ (op = "rmdir" <=> kind = "dir") /\ op \in {"delete", "rmdir"}
  BY <1>k DEF Kind
<1>2. Named(verb, a) = Matches(fat[1], cur, kind, a)
  BY <1>k DEF Named
<1>3. Named(verb, a) = Shown(sector, cur, kind, a)
  BY <1>2, SeenIsShown
<1>4. Target' = Named(verb, a)
  BY <1>3, <1>k DEF Target
<1>5. CASE Finish(op, a, tag, size, -1) /\ (~initialized \/ Named(verb, a) = {})
  <2>1. job'.pc = "idle" /\ ret'.code = -1
    BY <1>5 DEF Finish, Idle
  <2>2. initialized' /\ ret'.code = -1 => Target' = {}
    BY <1>4, <1>5
  <2>3. ret'.code # 0
    BY <2>1
  <2> QED BY <2>1, <2>2, <2>3 DEF Removing
<1>6. CASE Named(verb, a) # {} /\ StartRelease(op, a, tag, size, Least(Named(verb, a)))
  <2>m. /\ Matches(fat[1], cur, kind, a) # {}
        /\ StartRelease(op, a, tag, size, Least(Matches(fat[1], cur, kind, a)))
        /\ op \in {"delete", "rmdir", "write"}
    BY <1>1, <1>2, <1>6
  <2>1. /\ job'.pc = "free" /\ job'.op = op
        /\ \E p : First(sector, cur, kind, a, p) /\ Aims(p)'
    BY <1>1, <2>m, SoundRelease
  <2>2. PICK p : First(sector, cur, kind, a, p) /\ Aims(p)'
    BY <2>1
  <2>3. First(sector', cur', Kind(cmd'.verb), cmd'.a, p) /\ p \in Room(cur')
    BY <1>k, <2>2 DEF First
  <2>4. Cardinality(Target') = cmd'.count /\ job'.op # "write"
    BY <1>1, <1>4, <2>1
  <2> QED BY <2>1, <2>2, <2>3, <2>4 DEF Removing
<1> QED BY <1>5, <1>6

(* The entry that is erased was one of those shown, and only it goes. *)
LEMMA ErasedShown ==
  ASSUME Types, NEW D, Sound(D), NEW kind \in {"file", "dir"}, NEW name, NEW p, cur' = cur,
         First(sector, cur, kind, name, p), Changed(p, DelSlot)
  PROVE  Cardinality(Shown(sector', cur', kind, name))
           = Cardinality(Shown(sector, cur, kind, name)) - 1
<1> DEFINE A == Shown(sector, cur, kind, name)
           B == Shown(sector', cur, kind, name)
<1>t. cur \in Cluster \cup {0} /\ p \in A /\ p \in Room(cur)
  BY FirstShown DEF Types
<1>d. DelSlot # EndSlot /\ DelSlot.kind = "del"
  BY DEF DelSlot, EndSlot, Entry
<1>1. /\ Ent(sector', cur, p) = DelSlot
      /\ \A q \in Room(cur) : q # p => Ent(sector', cur, q) = Ent(sector, cur, q)
  BY <1>t DEF Changed
<1>2. Ent(sector, cur, p) # EndSlot
  BY <1>t, PlacesBefore DEF Shown
<1>3. \A q \in Room(cur) : Ent(sector', cur, q) = EndSlot <=> Ent(sector, cur, q) = EndSlot
  BY <1>1, <1>2, <1>d
<1>4. \A q \in Room(cur) : Match(sector', cur, q, kind, name)
                             <=> q # p /\ Match(sector, cur, q, kind, name)
  BY <1>1, <1>d DEF Match
<1>5. \A q \in Room(cur) : \A i \in 0 .. q : i \in Room(cur)
  BY PlacesBefore
<1>6. \A q \in Room(cur) : q \in B <=> q \in A /\ q # p
  BY <1>3, <1>4, <1>5 DEF Shown
<1>7. A \subseteq Room(cur) /\ B \subseteq Room(cur)
  BY DEF Shown
<1>8. B = A \ {p}
  BY <1>6, <1>7
<1>9. IsFiniteSet(A)
  BY <1>7, RoomFinite, FS_Subset
<1> HIDE DEF A, B
<1>10. Cardinality(A \ {p}) = Cardinality(A) - 1
  BY <1>t, <1>9, FS_RemoveElement
<1> QED BY <1>8, <1>10 DEF A, B

(* They go on as far as the erase, which succeeds. *)
LEMMA RemovingStep ==
  ASSUME TInv, TInv', NEW D, Sound(D), Step, faults' = faults, ~torn',
         cmd' = cmd, Removing
  PROVE  Removing'
<1>y. Types /\ faults \in 0 .. MaxFaults
  BY DEF TInv, Types
<1>v. Kind(cmd.verb) \in {"file", "dir"}
  BY DEF Kind
<1> SUFFICES ASSUME cmd.verb \in {"del", "rmdir"} PROVE Removing'
  BY DEF Removing
<1>1. CASE FreeStep("ok")
  <2>1. /\ job.pc = "free" /\ UNCHANGED <<sector, cur, ret>> /\ job'.op = job.op
        /\ job'.pc \in {"free", "erase"}
        /\ job'.at = job.at /\ job'.slot = job.slot
    BY <1>1, SoundFree DEF FreeStep
  <2>2. \A p : Aims(p) => Aims(p)'
    BY <2>1 DEF Aims
  <2>3. Target' = Target
    BY <2>1 DEF Target
  <2> QED BY <2>1, <2>2, <2>3 DEF Removing
<1>2. CASE EraseStep("ok")
  <2>e. PICK E : E = After(D)
    OBVIOUS
  <2>0. job.pc = "erase"
    BY <1>2 DEF EraseStep
  <2>1. /\ UNCHANGED cur
        /\ \E p \in Used(sector, cur) :
             /\ Aims(p)
             /\ \A d \in Cluster \cup {0} : \A q \in Room(d) :
                  Ent(sector', d, q) = IF d = cur /\ q = p THEN DelSlot ELSE Ent(sector, d, q)
    BY <1>2, <2>e, SoundErase
  <2>2. PICK p \in Used(sector, cur) : Aims(p) /\ Changed(p, DelSlot)
    BY <2>1 DEF Changed, Used
  <2>3. PICK q \in Room(cur) : First(sector, cur, Kind(cmd.verb), cmd.a, q) /\ Aims(q)
    BY <2>0 DEF Removing
  <2>4. p = q
    BY <1>y, <2>2, <2>3, OneAim
  <2>5. Cardinality(Target') = Cardinality(Target) - 1
    BY <1>v, <1>y, <2>1, <2>2, <2>3, <2>4, ErasedShown DEF Target
  <2>6. Cardinality(Target) = cmd.count /\ job.op # "write"
    BY <2>0 DEF Removing
  <2>7. job' = Idle /\ ret'.code = 0
    BY <1>2, <2>6 DEF EraseStep, Return, Finish
  <2>8. job'.pc = "idle"
    BY <2>7 DEF Idle
  <2> QED BY <2>5, <2>6, <2>7, <2>8 DEF Removing
<1>3. job.pc \in {"free", "erase"}
  BY <1>y, CalmStep DEF Removing, FreeStep, EraseStep, LoadStep, DataStep, PutFatStep,
     DotsStep, EntryStep
<1>4. FreeStep("ok") \/ EraseStep("ok")
  BY <1>3, <1>y, CalmStep DEF LoadStep, DataStep, PutFatStep, DotsStep, EntryStep
<1> QED BY <1>1, <1>2, <1>4

-----------------------------------------------------------------------------
(* Reading gives -1 exactly if there is no such file, and else one file.   *)
LEMMA ReadsShown ==
  ASSUME Types, NEW D, Sound(D), job.pc = "idle", NEW name, NEW buf_size \in Nat
  PROVE  /\ Shown(sector, cur, "file", name) = {} => fat_read(name, buf_size).code = -1
         /\ Shown(sector, cur, "file", name) # {} =>
              fat_read(name, buf_size).code \in Nat /\ Whole(fat_read(name, buf_size).data)
<1>1. ASSUME Shown(sector, cur, "file", name) = {} PROVE fat_read(name, buf_size).code = -1
  <2>1. Matches(fat[1], cur, "file", name) = {}
    BY <1>1, SeenIsShown
  <2> QED BY <2>1 DEF fat_read
<1>2. ASSUME Shown(sector, cur, "file", name) # {}
      PROVE  fat_read(name, buf_size).code \in Nat /\ Whole(fat_read(name, buf_size).data)
  <2>1. PICK p \in Room(cur) : First(sector, cur, "file", name, p)
    BY <1>2, FirstShown
  <2>2. PICK e : e = Ent(sector, cur, p)
    OBVIOUS
  <2>3. PICK n : n = IF e.size <= buf_size THEN e.size ELSE buf_size
    OBVIOUS
  <2>4. /\ e.size \in 0 .. MaxSize /\ e.tag \in Tags
        /\ fat_read(name, buf_size) = Written(e.tag, n)
    BY <2>1, <2>2, <2>3, FileReads
  <2>5. n \in Nat
    BY <2>3, <2>4, Geometry
  <2>6. Len(Written(e.tag, n).data) = n /\ Written(e.tag, n).code = n
    BY <2>5 DEF Written
  <2>7. Whole(Written(e.tag, n).data)
    BY <2>4, <2>6, Zenon DEF Whole
  <2> QED BY <2>4, <2>5, <2>6, <2>7
<1> QED BY <1>1, <1>2

(* An operation that finds no fat_init to have succeeded. *)
LEMMA RefusedKeeps ==
  ASSUME NEW op, NEW a, Refused(op, a)
  PROVE  /\ UNCHANGED <<fat, sector, cur>> /\ job' = Idle /\ job'.pc = "idle"
         /\ ret'.code = -1 /\ ret'.op = op /\ ret'.code # 0 /\ ~initialized'
<1>1. Idle.pc = "idle"
  BY DEF Idle
<1>2. /\ UNCHANGED <<fat, sector, cur>> /\ job' = Idle /\ ret'.code = -1 /\ ret'.op = op
  BY DEF Refused, disk, Finish
<1>3. ~initialized'
  BY Zenon DEF Refused
<1> QED BY <1>1, <1>2, <1>3

(* What an operation tells when it has ended. *)
LEMMA FinishTells ==
  ASSUME NEW op, NEW name, NEW tag, NEW size, NEW code, Finish(op, name, tag, size, code)
  PROVE  /\ job' = Idle /\ job'.pc = "idle"
         /\ ret'.op = op /\ ret'.name = name /\ ret'.tag = tag /\ ret'.size = size
         /\ ret'.code = code
BY DEF Finish, Idle

LEMMA Codes == 0 # -1 /\ -1 # 0
OBVIOUS

(* ren has given the file the name, or found none. *)
LEMMA RenStarts ==
  ASSUME Types, NEW D, Sound(D), job.pc = "idle", NEW a, NEW b,
         cmd'.verb = "ren", cmd'.a = a, cmd'.b = b, cmd'.file = fat_read(a, MaxSize),
         fat_rename(a, b, "ok") \/ Refused("rename", a)
  PROVE  Looking'
<1>T. PICK T : T = fat[1]
  OBVIOUS
<1>t. /\ T \in Tables /\ cur \in Cluster \cup {0} /\ Single(T, cur)
  BY <1>T, SoundSearch
<1>k. Kind("ren") = "file"
  BY DEF Kind
<1>i. Idle.pc = "idle"
  BY DEF Idle
<1>1. CASE Refused("rename", a)
  BY <1>1, RefusedKeeps DEF Looking
<1>2. CASE fat_rename(a, b, "ok")
  <2>p. PICK p : p = Least(Matches(T, cur, "file", a))
    OBVIOUS
  <2>a. UNCHANGED <<initialized, fat, cur, path, torn, leaky>>
    BY <1>2 DEF fat_rename
  <2>b. \/ /\ Matches(T, cur, "file", a) = {} /\ sector' = sector
           /\ Finish("rename", a, "", 0, -1)
        \/ /\ Matches(T, cur, "file", a) # {} /\ Finish("rename", a, "", 0, 0)
           /\ sector' = WithSlot(DirSector(T, cur, p \div EPS), (p % EPS) + 1,
                                 [SlotAt(T, cur, p) EXCEPT !.name = split_83(b)])
    <3>1. "ok" # "lost"
      OBVIOUS
    <3> QED BY <1>2, <1>T, <2>p, <3>1, Zenon DEF fat_rename
  <2>1. /\ UNCHANGED <<fat, cur>> /\ job' = Idle
        /\ \/ Matches(T, cur, "file", a) = {} /\ sector' = sector /\ ret'.code = -1
           \/ /\ Matches(T, cur, "file", a) # {} /\ ret'.code = 0
              /\ sector' = WithSlot(DirSector(T, cur, p \div EPS), (p % EPS) + 1,
                                    [SlotAt(T, cur, p) EXCEPT !.name = split_83(b)])
    <3>1. fat' = fat /\ cur' = cur
      BY <2>a
    <3> QED BY <2>b, <3>1, FinishTells, Zenon
  <2>2. CASE Matches(T, cur, "file", a) = {} /\ sector' = sector /\ ret'.code = -1
    <3>1. Shown(sector, cur, "file", a) = {}
      BY <1>T, <2>2, SeenIsShown
    <3>2. Target' = {} /\ ret'.code # 0
      BY <1>k, <2>1, <2>2, <3>1 DEF Target
    <3> QED BY <1>i, <2>1, <3>2 DEF Looking
  <2>3. CASE /\ Matches(T, cur, "file", a) # {} /\ ret'.code = 0
             /\ sector' = WithSlot(DirSector(T, cur, p \div EPS), (p % EPS) + 1,
                                   [SlotAt(T, cur, p) EXCEPT !.name = split_83(b)])
    <3>1. First(sector, cur, "file", a, p)
      BY <1>t, <2>p, <2>3, SearchFinds
    <3>2. p \in Room(cur)
      BY <3>1 DEF First
    <3>3. PICK m : m = split_83(b)
      OBVIOUS
    <3>4. NameWritten(p, m)
      BY <1>t, <2>3, <3>2, <3>3, SingleDirectory DEF NameWritten
    <3>5. Changed(p, [Ent(sector, cur, p) EXCEPT !.name = m])
      BY <2>1, <3>1, <3>4, SoundRename
    <3>6. /\ p \in Shown(sector', cur, "file", m)
          /\ Ent(sector', cur, p).size = Ent(sector, cur, p).size
          /\ Ent(sector', cur, p).tag = Ent(sector, cur, p).tag
      <4>t. sector \in Contents /\ cur \in Cluster \cup {0}
        BY SoundSearch
      <4>1. Ent(sector, cur, p) \in Slots /\ Ent(sector, cur, p).kind = "file"
        BY <3>1, <3>2, <4>t, EntryTypes DEF First, Match
      <4>2. /\ Ent(sector', cur, p) = [Ent(sector, cur, p) EXCEPT !.name = m]
            /\ \A q \in Room(cur) : q # p => Ent(sector', cur, q) = Ent(sector, cur, q)
        BY <3>2, <3>5, <4>t DEF Changed
      <4>3. /\ Ent(sector', cur, p).kind = "file" /\ Ent(sector', cur, p).name = m
            /\ Ent(sector', cur, p).size = Ent(sector, cur, p).size
            /\ Ent(sector', cur, p).tag = Ent(sector, cur, p).tag
        <5>1. Ent(sector, cur, p) \in [kind : {"file"}, name : Names, first : Cluster \cup {0},
                                       size : 0 .. MaxSize, tag : Tags]
          BY <4>1, KindsOfSlots
        <5> QED BY <4>2, <5>1
      <4>4. EndSlot.kind # "file"
        BY DEF EndSlot, Entry
      <4>5. p \in Nat /\ \A q \in 0 .. p : q \in Room(cur) /\ (q = p \/ q \in 0 .. p - 1)
        BY <3>2, PlacesBefore
      <4>6. \A q \in 0 .. p : Ent(sector', cur, q) # EndSlot
        BY <3>1, <4>2, <4>3, <4>4, <4>5 DEF First
      <4> QED BY <3>2, <4>3, <4>6 DEF Shown, Match
    <3>7. ret'.code # -1
      BY <2>3
    <3>8. ASSUME split_83(cmd'.b) = cmd'.b PROVE KeptFile'
      <4>1. PICK e : e = Ent(sector, cur, p)
        OBVIOUS
      <4>2. PICK n : n = IF e.size <= MaxSize THEN e.size ELSE MaxSize
        OBVIOUS
      <4>3. MaxSize \in Nat
        BY Geometry
      <4>4. e.size \in 0 .. MaxSize /\ cmd'.file = Written(e.tag, n)
        BY <3>1, <4>1, <4>2, <4>3, FileReads
      <4>5. n = e.size /\ n \in Nat
        BY <4>2, <4>3, <4>4
      <4>6. cmd'.file.code = e.size
        BY <4>4, <4>5 DEF Written
      <4>7. p \in Shown(sector', cur', "file", cmd'.b)
        BY <2>1, <3>3, <3>6, <3>8
      <4>8. /\ Ent(sector', cur', p).size = cmd'.file.code
            /\ Written(Ent(sector', cur', p).tag, cmd'.file.code) = cmd'.file
        BY <2>1, <3>6, <4>1, <4>4, <4>5, <4>6
      <4> QED BY <4>7, <4>8 DEF KeptFile
    <3> QED BY <1>i, <2>1, <3>7, <3>8 DEF Looking
  <2> QED BY <2>1, <2>2, <2>3
<1> QED BY <1>1, <1>2

(* type has read a file, or there is none. *)
LEMMA TypeStarts ==
  ASSUME Types, NEW D, Sound(D), job.pc = "idle", NEW a,
         cmd'.verb = "type", cmd'.a = a, ReadTo(a) \/ ReadFails(a, "ok")
  PROVE  Looking'
<1>k. Kind("type") = "file" /\ FileBuf \in Nat
  BY CommandsAssumption DEF Kind
<1>i. Idle.pc = "idle"
  BY DEF Idle
<1>t. Target' = Shown(sector, cur, "file", a)
  BY <1>k DEF Target, ReadTo, ReadFails, disk
<1>1. CASE ReadTo(a)
  <2>0. Finish("read", a, "", 0, 0) /\ fat_read(a, FileBuf).code >= 0
    BY <1>1, Zenon DEF ReadTo
  <2>1. job' = Idle /\ ret'.code = 0 /\ ret'.code # -1 /\ fat_read(a, FileBuf).code >= 0
    BY <2>0, FinishTells, Codes, Zenon
  <2>2. Shown(sector, cur, "file", a) # {}
    BY <1>k, <2>1, ReadsShown
  <2> QED BY <1>i, <1>t, <2>1, <2>2 DEF Looking
<1>2. CASE ReadFails(a, "ok")
  <2>0. Finish("read", a, "", 0, -1)
    BY <1>2, Zenon DEF ReadFails
  <2>1. job' = Idle /\ ret'.code = -1 /\ ret'.code # 0
    BY <2>0, FinishTells, Codes, Zenon
  <2>2. initialized' => fat_read(a, FileBuf).code = -1
    BY <1>2, Zenon DEF ReadFails
  <2>3. initialized' => Shown(sector, cur, "file", a) = {}
    BY <1>k, <2>2, ReadsShown
  <2> QED BY <1>i, <1>t, <2>1, <2>3 DEF Looking
<1> QED BY <1>1, <1>2

(* cd has gone where it leads, or found nothing. *)
LEMMA CdStarts ==
  ASSUME Types, NEW D, Sound(D), job.pc = "idle", NEW a,
         cmd'.verb = "cd", cmd'.a = a, fat_cd(a, "ok") \/ Refused("cd", a)
  PROVE  Looking'
<1>k. Kind("cd") = "dir"
  BY DEF Kind
<1>i. Idle.pc = "idle"
  BY DEF Idle
<1>1. CASE Refused("cd", a)
  BY <1>1, RefusedKeeps DEF Looking
<1>2. CASE fat_cd(a, "ok")
  <2>a. UNCHANGED <<initialized, disk, torn, leaky>>
    BY <1>2 DEF fat_cd
  <2>b. \/ Finish("cd", a, "", 0, 0)
        \/ /\ Matches(fat[1], cur, "dir", a) = {} /\ UNCHANGED <<cur, path>>
           /\ Finish("cd", a, "", 0, -1)
    BY <1>2, Zenon DEF fat_cd
  <2>1. /\ job' = Idle /\ sector' = sector
        /\ \/ ret'.code = 0
           \/ ret'.code = -1 /\ cur' = cur /\ Matches(fat[1], cur, "dir", a) = {}
    <3>1. sector' = sector
      BY <2>a DEF disk
    <3>2. UNCHANGED <<cur, path>> => cur' = cur
      OBVIOUS
    <3> QED BY <2>b, <3>1, <3>2, FinishTells, Zenon
  <2>2. CASE ret'.code = 0
    <3>1. ret'.code # -1
      BY <2>2
    <3> QED BY <1>i, <2>1, <3>1 DEF Looking
  <2>3. CASE ret'.code = -1 /\ cur' = cur /\ Matches(fat[1], cur, "dir", a) = {}
    <3>1. Shown(sector, cur, "dir", a) = {}
      BY <2>3, SeenIsShown
    <3>2. Target' = {}
      BY <1>k, <2>1, <2>3, <3>1 DEF Target
    <3> QED BY <1>i, <2>1, <3>2 DEF Looking
  <2> QED BY <2>1, <2>2, <2>3
<1> QED BY <1>1, <1>2

-----------------------------------------------------------------------------
LEMMA NoFreeCluster ==
  ASSUME NEW buf, fat_find_free_cluster(buf) = 0
  PROVE  Zeros(buf) = {}
<1>1. Zeros(buf) \in SUBSET Nat
  BY GeometryAssumption DEF Cluster, Zeros
<1>2. Zeros(buf) # {} => Least(Zeros(buf)) \in Zeros(buf)
  BY <1>1, LeastIsLeast, Zenon
<1>3. Zeros(buf) # {} => Least(Zeros(buf)) = 0
  BY DEF fat_find_free_cluster, Zeros
<1>4. 0 \notin Zeros(buf)
  BY Geometry DEF Zeros
<1> QED BY <1>2, <1>3, <1>4

(* mkdir sets out, or finds no free cluster. *)
LEMMA MakingStarts ==
  ASSUME Types, NEW a, cmd'.verb = "mkdir", cmd'.a = a,
         fat_mkdir(a, "ok") \/ Refused("mkdir", a)
  PROVE  Making'
<1>1. CASE Refused("mkdir", a)
  BY <1>1, RefusedKeeps DEF Making
<1>2. CASE fat_mkdir(a, "ok")
  <2>c. PICK c : c = fat_find_free_cluster(fat[1])
    OBVIOUS
  <2>f. fat' = fat
    BY <1>2 DEF fat_mkdir, disk
  <2>1. \/ c = 0 /\ Finish("mkdir", a, "", 0, -1)
        \/ job' = [Idle EXCEPT !.pc = "putfat", !.op = "mkdir", !.name = a, !.first = c,
                               !.buf = [fat[1] EXCEPT ![c] = EOC]]
    <3>1. "ok" # "error"
      OBVIOUS
    <3> QED BY <1>2, <2>c, <3>1, Zenon DEF fat_mkdir
  <2>2. CASE c = 0 /\ Finish("mkdir", a, "", 0, -1)
    <3>1. job'.pc = "idle" /\ ret'.op = "mkdir" /\ ret'.code # 0
      BY <2>2, FinishTells, Codes, Zenon
    <3>2. Zeros(fat[1]) = {}
      BY <2>2, <2>c, NoFreeCluster
    <3>3. Cardinality(Zeros(fat'[1])) = 0
      BY <2>f, <3>2, FS_EmptySet
    <3>4. 0 * SPC < SPC
      BY Geometry
    <3>5. Full(SPC)'
      BY <3>3, <3>4 DEF Full
    <3> QED BY <3>1, <3>5 DEF Making
  <2>3. CASE job' = [Idle EXCEPT !.pc = "putfat", !.op = "mkdir", !.name = a, !.first = c,
                                 !.buf = [fat[1] EXCEPT ![c] = EOC]]
    <3>1. job'.pc = "putfat" /\ job'.op = "mkdir" /\ job'.name = a
      BY <2>3 DEF Idle
    <3> QED BY <3>1 DEF Making
  <2> QED BY <2>1, <2>2, <2>3
<1> QED BY <1>1, <1>2

(* It goes on as far as the entry, and fails only for want of a place. *)
LEMMA MakingStep ==
  ASSUME TInv, TInv', NEW D, Sound(D), Step, faults' = faults, cmd' = cmd, Making
  PROVE  Making'
<1>y. Types /\ faults \in 0 .. MaxFaults
  BY DEF TInv, Types
<1> SUFFICES ASSUME cmd.verb = "mkdir" PROVE Making'
  BY DEF Making
<1>k. Kind("mkdir") = "dir"
  BY DEF Kind
<1>1. CASE PutFatStep("ok")
  <2>1. /\ job.pc = "putfat"
        /\ job' = IF job.w < LastFatSector THEN [job EXCEPT !.w = @ + 1]
                  ELSE [job EXCEPT !.w = 0, !.pc = IF job.op = "mkdir" THEN "dots" ELSE "entry"]
    BY <1>1 DEF PutFatStep
  <2>2. job \in Jobs
    BY <1>y DEF Types
  <2>3. job'.op = job.op /\ job'.name = job.name /\ job'.pc \in {"putfat", "dots", "entry"}
    <3>1. CASE job' = [job EXCEPT !.w = @ + 1]
      BY <2>1, <2>2, <3>1 DEF Jobs
    <3>2. CASE job' = [job EXCEPT !.w = 0, !.pc = IF job.op = "mkdir" THEN "dots" ELSE "entry"]
      BY <2>1, <2>2, <3>2 DEF Jobs
    <3> QED BY <2>1, <3>1, <3>2
  <2>4. job'.pc \in {"idle", "putfat", "dots", "entry"} /\ job'.pc # "idle"
    BY <2>3
  <2> QED BY <2>1, <2>3, <2>4 DEF Making
<1>2. CASE DotsStep("ok")
  <2>1. job.pc = "dots" /\ job' = [job EXCEPT !.pc = "entry"]
    BY <1>2 DEF DotsStep
  <2>2. job \in Jobs
    BY <1>y DEF Types
  <2>3. job'.op = job.op /\ job'.name = job.name /\ job'.pc = "entry"
    BY <2>1, <2>2 DEF Jobs
  <2> QED BY <2>1, <2>3 DEF Making
<1>3. CASE EntryStep("ok")
  <2>0. job.pc = "entry" /\ job.op = "mkdir" /\ job.name = cmd.a
    BY <1>3 DEF EntryStep, Making
  <2>e. PICK E : E = After(D)
    OBVIOUS
  <2>1. /\ fat' = fat /\ cur' = cur /\ job'.pc = "idle"
        /\ \/ sector' = sector /\ E = D /\ FreeSlots(fat[1], cur) = {}
           \/ /\ E = D \cup {job.first} /\ (E # D => job.first \in Cluster \ D)
              /\ \E p : FreePlace(sector, cur, p) /\ Changed(p, NewEntry)
    <3>1. "ok" # "ok" => FALSE
      OBVIOUS
    <3>2. /\ Sound(E)' /\ UNCHANGED <<fat, cur, path>>
          /\ job.pc = "entry" /\ job'.pc = "idle" /\ NewEntry \in Slots
          /\ \/ sector' = sector /\ E = D /\ FreeSlots(fat[1], cur) = {}
             \/ /\ E = IF job.op = "mkdir" THEN D \cup {job.first} ELSE D
                /\ E # D => job.first \in Cluster \ D
                /\ \E p : /\ FreePlace(sector, cur, p)
                          /\ \A d \in Cluster \cup {0} : \A q \in Room(d) :
                               Ent(sector', d, q) = IF d = cur /\ q = p THEN NewEntry
                                                    ELSE Ent(sector, d, q)
      BY <1>3, <2>e, SoundEntry
    <3> QED BY <2>0, <3>2 DEF Changed, FreePlace
  <2>2. fat[1] = job.buf
    BY <2>0 DEF Sound, Adds
  <2>3. /\ ret'.op = "mkdir"
        /\ FreeSlots(fat[1], cur) # {} => ret'.code = 0
        /\ FreeSlots(fat[1], cur) = {} => ret'.code = -1
    <3>1. FreeSlots(fat[1], cur) # {} => Return(0)
      BY <1>3, <2>2 DEF EntryStep
    <3>2. FreeSlots(fat[1], cur) = {} => Return(-1)
      BY <1>3, <2>2 DEF EntryStep
    <3>3. \A code : Return(code) => ret'.op = job.op /\ ret'.code = code
      BY DEF Return, Finish
    <3> QED BY <2>0, <3>1, <3>2, <3>3
  <2>t. /\ cur \in Cluster \cup {0} /\ fat[1] \in Tables /\ Single(fat[1], cur)
        /\ sector \in Contents /\ cur \in D
    BY <1>y, SoundSearch
  <2>4. FreeSlots(fat[1], cur) = Vacant(sector, cur)
    <3>T. PICK T : T = fat[1]
      OBVIOUS
    <3>1. Positions(T, cur) = Room(cur)
          /\ \A p \in Room(cur) : SlotAt(T, cur, p) = Ent(sector, cur, p)
      BY <2>t, <3>T, SingleDirectory
    <3> QED BY <3>1, <3>T DEF FreeSlots, Vacant
  <2>5. CASE sector' = sector /\ FreeSlots(fat[1], cur) = {}
    <3>1. Vacant(sector', cur') = {} /\ ret'.code # 0
      BY <2>1, <2>3, <2>4, <2>5
    <3> QED BY <2>1, <2>3, <3>1 DEF Making, Full
  <2>6. CASE /\ E = D \cup {job.first} /\ (E # D => job.first \in Cluster \ D)
             /\ \E p : FreePlace(sector, cur, p) /\ Changed(p, NewEntry)
    <3>1. PICK p : FreePlace(sector, cur, p) /\ Changed(p, NewEntry)
      BY <2>6
    <3>2. p \in Room(cur) /\ p \in Vacant(sector, cur)
      BY <3>1 DEF FreePlace, Vacant
    <3>3. ret'.code = 0
      BY <2>3, <2>4, <3>2
    <3>4. /\ Ent(sector', cur, p) = Entry("dir", split_83(cmd.a), job.first, 0, "")
          /\ \A q \in Room(cur) : q # p => Ent(sector', cur, q) = Ent(sector, cur, q)
      <4>1. NewEntry = Entry("dir", split_83(cmd.a), job.first, 0, "")
        BY <2>0, Zenon DEF NewEntry
      <4>2. /\ Ent(sector', cur, p) = NewEntry
            /\ \A q \in Room(cur) : q # p => Ent(sector', cur, q) = Ent(sector, cur, q)
        BY <2>t, <3>1, <3>2 DEF Changed
      <4> QED BY <4>1, <4>2, Zenon
    <3>5. /\ Ent(sector', cur, p).kind = "dir" /\ Ent(sector', cur, p).name = split_83(cmd.a)
          /\ Ent(sector', cur, p).first = job.first
      <4>1. \A tag : LET e == Entry("dir", split_83(cmd.a), job.first, 0, tag)
                     IN  e.kind = "dir" /\ e.name = split_83(cmd.a) /\ e.first = job.first
        BY DEF Entry
      <4> QED BY <3>4, <4>1, Zenon
    <3>6. \A q \in 0 .. p : Ent(sector', cur, q) # EndSlot
      <4>1. p \in Nat /\ \A q \in 0 .. p : q \in Room(cur) /\ (q = p \/ q \in 0 .. p - 1)
        BY <3>2, PlacesBefore
      <4>2. EndSlot.kind # "dir"
        BY DEF EndSlot, Entry
      <4>3. \A q \in 0 .. p - 1 : Ent(sector, cur, q) # EndSlot
        BY <3>1 DEF FreePlace
      <4>4. ASSUME NEW q \in 0 .. p PROVE Ent(sector', cur, q) # EndSlot
        BY <3>4, <3>5, <4>1, <4>2, <4>3
      <4> QED BY <4>4
    <3>7. split_83(cmd.a) = cmd.a => p \in Shown(sector', cur, "dir", cmd.a)
      BY <3>2, <3>5, <3>6 DEF Shown, Match
    <3>8. Used(sector', job.first) = {}
      <4>1. /\ job.first \in Cluster /\ job.first \notin D
            /\ sector[<<job.first, 0>>] = Dots
        <5>1. job.first \in Cluster
          BY <2>0 DEF TInv, Phases
        <5>2. sector[<<job.first, 0>>] = Dots
          BY <2>0 DEF Sound, Adds
        <5>3. job.first \notin D
          <6>1. job.buf \in Tables /\ job.first \in Link
            BY <1>y, <5>1, JobFields DEF Link
          <6>2. job.first \in ChainOf(job.buf, job.first)
            BY <5>1, <6>1, ChainStart
          <6> QED BY <2>0, <6>2 DEF Sound, Adds
        <5> QED BY <5>1, <5>2, <5>3
      <4>2. Used(sector, job.first) = {}
        BY <4>1, DotsAreFree
      <4>3. \A q \in Room(job.first) : Ent(sector', job.first, q) = Ent(sector, job.first, q)
        BY <2>t, <3>1, <4>1 DEF Changed
      <4> QED BY <4>2, <4>3 DEF Used
    <3>9. split_83(cmd.a) = cmd.a
            => \E q \in Target' : Used(sector', Ent(sector', cur', q).first) = {}
      <4>1. Target' = Shown(sector', cur, "dir", cmd.a)
        BY <1>k, <2>1 DEF Target
      <4> QED BY <2>1, <3>5, <3>7, <3>8, <4>1
    <3>10. ret'.code # -1
      BY <3>3
    <3> QED BY <2>1, <2>3, <3>9, <3>10 DEF Making
  <2> QED BY <2>1, <2>5, <2>6
<1>4. job.pc \in {"putfat", "dots", "entry"}
  BY <1>y, CalmStep DEF Making, FreeStep, EraseStep, LoadStep, DataStep, PutFatStep,
     DotsStep, EntryStep
<1>5. PutFatStep("ok") \/ DotsStep("ok") \/ EntryStep("ok")
  BY <1>4, <1>y, CalmStep DEF FreeStep, EraseStep, LoadStep, DataStep
<1> QED BY <1>1, <1>2, <1>3, <1>5

-----------------------------------------------------------------------------
LEMMA WrittenTells ==
  ASSUME NEW tag, NEW n \in Nat
  PROVE  /\ Written(tag, n).code = n
         /\ n # 0 => Written(tag, n).data[1].tag = tag
         /\ n = 0 => \A t : Written(t, n) = Written(tag, n)
<1>1. n # 0 => 1 \in 1 .. n
  OBVIOUS
<1>2. n = 0 => 1 .. n = {}
  OBVIOUS
<1>3. ASSUME n = 0, NEW t PROVE Written(t, n) = Written(tag, n)
  <2>1. [k \in 1 .. n |-> [tag |-> t, k |-> k - 1]]
          = [k \in 1 .. n |-> [tag |-> tag, k |-> k - 1]]
    BY <1>2, <1>3
  <2> QED BY <2>1 DEF Written
<1>4. Written(tag, n).code = n
  BY DEF Written
<1>5. n # 0 => Written(tag, n).data[1].tag = tag
  BY <1>1 DEF Written
<1> QED BY <1>3, <1>4, <1>5

(* There is one first place. *)
LEMMA OneFirst ==
  ASSUME NEW S, NEW d, NEW kind, NEW name, NEW p, NEW q,
         First(S, d, kind, name, p), First(S, d, kind, name, q)
  PROVE  p = q
<1>1. p \in Room(d) /\ q \in Room(d) /\ p \in Nat /\ q \in Nat
  BY PlacesBefore DEF First
<1>2. ~(p < q) /\ ~(q < p)
  <2>1. p < q => p \in 0 .. q - 1
    BY <1>1
  <2>2. q < p => q \in 0 .. p - 1
    BY <1>1
  <2> QED BY <2>1, <2>2 DEF First
<1> QED BY <1>1, <1>2

(* What copy reads. *)
LEMMA CopyReads ==
  ASSUME Types, NEW D, Sound(D), job.pc = "idle", NEW a, fat_read(a, MaxSize).code >= 0
  PROVE  \E p \in Room(cur) :
           LET e == Ent(sector, cur, p)
               n == IF e.size <= FileBuf THEN e.size ELSE FileBuf
           IN  /\ First(sector, cur, "file", a, p)
               /\ e.size \in 0 .. MaxSize /\ e.tag \in Tags
               /\ fat_read(a, MaxSize) = Written(e.tag, e.size)
               /\ fat_read(a, MaxSize).code = e.size
               /\ fat_read(a, FileBuf) = Written(e.tag, n)
               /\ fat_read(a, FileBuf).code = n
<1>n. MaxSize \in Nat /\ FileBuf \in Nat
  BY Geometry, CommandsAssumption
<1>1. Shown(sector, cur, "file", a) # {}
  BY <1>n, ReadsShown
<1>2. PICK p \in Room(cur) : First(sector, cur, "file", a, p)
  BY <1>1, FirstShown
<1>3. PICK e : e = Ent(sector, cur, p)
  OBVIOUS
<1>4. PICK n : n = IF e.size <= FileBuf THEN e.size ELSE FileBuf
  OBVIOUS
<1>5. PICK m : m = IF e.size <= MaxSize THEN e.size ELSE MaxSize
  OBVIOUS
<1>6. /\ e.size \in 0 .. MaxSize /\ e.tag \in Tags
      /\ fat_read(a, MaxSize) = Written(e.tag, m)
  BY <1>2, <1>3, <1>5, <1>n, FileReads
<1>7. fat_read(a, FileBuf) = Written(e.tag, n)
  BY <1>2, <1>3, <1>4, <1>n, FileReads
<1>8. m = e.size /\ m \in Nat /\ n \in Nat
  BY <1>4, <1>5, <1>6, <1>n
<1>9. Written(e.tag, m).code = m /\ Written(e.tag, n).code = n
  BY <1>8, WrittenTells
<1>10. /\ fat_read(a, MaxSize).code = e.size /\ fat_read(a, FileBuf).code = n
  BY <1>6, <1>7, <1>8, <1>9
<1> QED BY <1>2, <1>3, <1>4, <1>6, <1>7, <1>8, <1>10

(* The source of a copy is there when the copy begins. *)
LEMMA SourceFound ==
  ASSUME Types, NEW D, Sound(D), job.pc = "idle", UNCHANGED <<sector, cur>>,
         cmd'.file = fat_read(cmd'.a, MaxSize)
  PROVE  cmd'.file.code >= 0 => Source'
<1> SUFFICES ASSUME cmd'.file.code >= 0 PROVE Source'
  OBVIOUS
<1>a. PICK a : a = cmd'.a
  OBVIOUS
<1>0. fat_read(a, MaxSize).code >= 0 /\ cmd'.file = fat_read(a, MaxSize)
  BY <1>a
<1>1. PICK p \in Room(cur) :
        /\ First(sector, cur, "file", a, p)
        /\ fat_read(a, MaxSize) = Written(Ent(sector, cur, p).tag, Ent(sector, cur, p).size)
        /\ fat_read(a, MaxSize).code = Ent(sector, cur, p).size
  BY <1>0, CopyReads
<1> QED BY <1>a, <1>0, <1>1 DEF Source

(* The clusters of a file suffice for its contents. *)
LEMMA ReleasedSuffices ==
  ASSUME Types, NEW D, Sound(D), job.pc = "idle", NEW a, NEW p,
         First(sector, cur, "file", a, p), NEW buf, buf = Release(fat[1], Ent(sector, cur, p).first)
  PROVE  Ent(sector, cur, p).size <= SPC * Cardinality(Zeros(buf))
<1>T. PICK T : T = fat[1]
  OBVIOUS
<1>e. PICK e : e = Ent(sector, cur, p)
  OBVIOUS
<1>t. /\ T \in Tables /\ cur \in Cluster \cup {0} /\ cur \in D /\ sector \in Contents
      /\ SPC \in Nat
  BY <1>T, SoundSearch, Geometry
<1>1. p \in Room(cur) /\ e.kind = "file" /\ p \in Used(sector, cur)
  BY <1>e DEF First, Match, Used
<1>2. e.size \in Nat
  BY <1>1, <1>e, <1>t, EntryTypes
<1>3. Holds(sector, T, e.first, e.tag, e.size)
  <2>1. Intact(sector, T, D, {})
    BY <1>T, SoundTree
  <2> QED BY <1>1, <1>e, <1>t, <2>1 DEF Intact
<1>4. e.size <= SPC * Cardinality(ChainOf(T, e.first))
  BY <1>2, <1>3, HoldsSpace
<1>5. ChainOf(T, e.first) \subseteq Zeros(buf)
  <2>1. \A d \in ChainOf(T, e.first) : d \in Cluster /\ buf[d] = 0
    BY <1>T, <1>e DEF Release, ChainOf
  <2> QED BY <2>1 DEF Zeros
<1>6. IsFiniteSet(Zeros(buf)) /\ Cardinality(Zeros(buf)) \in Nat
  <2>1. IsFiniteSet(2 .. NC + 1)
    BY Geometry, FS_Interval
  <2> QED BY <2>1, FS_Subset, FS_CardinalityType DEF Cluster, Zeros
<1>7. Cardinality(ChainOf(T, e.first)) <= Cardinality(Zeros(buf))
      /\ Cardinality(ChainOf(T, e.first)) \in Nat
  BY <1>5, <1>6, FS_Subset, ChainSize
<1>8. Cardinality(ChainOf(T, e.first)) * SPC <= Cardinality(Zeros(buf)) * SPC
  BY <1>6, <1>7, <1>t, ProductMonotone
<1> QED BY <1>2, <1>4, <1>6, <1>7, <1>8, <1>t, <1>e

(* copy reads its source and sets out to write it, or there is none. *)
LEMMA CopyStarts ==
  ASSUME TInv, NEW D, Sound(D), job.pc = "idle", ret = NoRet,
         NEW a \in FileNames, NEW b \in FileNames,
         cmd'.verb = "copy", cmd'.a = a, cmd'.b = b, cmd'.file = fat_read(a, MaxSize),
         \/ ReadFails(a, "ok")
         \/ /\ fat_read(a, FileBuf).code >= 0
            /\ \E t \in Tags : /\ fat_read(a, FileBuf).code > 0
                                     => t = fat_read(a, FileBuf).data[1].tag
                               /\ fat_write(b, t, fat_read(a, FileBuf).code, "ok")
  PROVE  Copies'
<1>y. Types /\ FileBuf \in Nat \ {0} /\ Idle.pc = "idle" /\ Idle.w = 0
  BY CommandsAssumption DEF TInv, Idle
<1>r. NoRet.op # "write"
  BY DEF NoRet
<1>k. Kind("copy") = "file"
  BY DEF Kind
<1>1. CASE ReadFails(a, "ok")
  <2>0. Finish("read", a, "", 0, -1)
    BY <1>1, Zenon DEF ReadFails
  <2>f. ~initialized \/ fat_read(a, FileBuf).code = -1
    <3>1. "ok" # "error"
      OBVIOUS
    <3> QED BY <1>1, <3>1, Zenon DEF ReadFails
  <2>1. job'.pc = "idle" /\ ret'.op = "read" /\ ret'.code # 0
    BY <2>0, FinishTells, Codes, Zenon
  <2>2. UNCHANGED <<sector, cur, initialized>>
    BY <1>1 DEF ReadFails, disk
  <2>3. initialized' => Target' = {}
    <3>1. initialized => fat_read(a, FileBuf).code = -1
      BY <2>f, Zenon
    <3>2. initialized => Shown(sector, cur, "file", a) = {}
      BY <1>y, <3>1, ReadsShown
    <3> QED BY <1>k, <2>2, <3>2 DEF Target
  <2>4. Keepable' => Source'
    BY <1>y, <2>2, SourceFound DEF Keepable
  <2>5. ret'.op # "write" /\ job'.pc \notin {"dots", "free", "erase", "data"}
    BY <2>1
  <2>6. NameLeads' /\ ReadsNew'
    BY <2>1, <2>5 DEF NameLeads, ReadsNew
  <2> QED BY <2>1, <2>3, <2>4, <2>5, <2>6 DEF Copies
<1>2. ASSUME NEW t \in Tags, NEW size, size = fat_read(a, FileBuf).code, size >= 0,
             size > 0 => t = fat_read(a, FileBuf).data[1].tag,
             fat_write(b, t, size, "ok")
      PROVE  Copies'
  <2>n. size \in 0 .. MaxSize
    <3>1. fat_read(a, FileBuf).code # -1
      BY <1>2
    <3> QED BY <1>y, <1>2, <3>1, ReadSize
  <2>u. UNCHANGED <<fat, sector, cur, initialized>> /\ faults' = faults
    BY <1>2 DEF fat_write, disk, Count
  <2>1. PICK p \in Room(cur) :
          LET e == Ent(sector, cur, p)
              n == IF e.size <= FileBuf THEN e.size ELSE FileBuf
          IN  /\ First(sector, cur, "file", a, p)
              /\ e.size \in 0 .. MaxSize /\ e.tag \in Tags
              /\ fat_read(a, MaxSize) = Written(e.tag, e.size)
              /\ fat_read(a, MaxSize).code = e.size
              /\ fat_read(a, FileBuf) = Written(e.tag, n)
              /\ fat_read(a, FileBuf).code = n
    <3>1. fat_read(a, MaxSize).code >= 0
      <4>1. Shown(sector, cur, "file", a) # {}
        BY <1>y, <1>2, ReadsShown
      <4>2. fat_read(a, MaxSize).code \in Nat
        BY <1>y, <4>1, ReadsShown, Geometry
      <4> QED BY <4>2
    <3> QED BY <1>y, <3>1, CopyReads
  <2>e. PICK e : e = Ent(sector, cur, p)
    OBVIOUS
  <2>2. /\ First(sector, cur, "file", a, p)
        /\ e.size \in 0 .. MaxSize /\ e.tag \in Tags
        /\ cmd'.file = Written(e.tag, e.size) /\ cmd'.file.code = e.size
        /\ size = IF e.size <= FileBuf THEN e.size ELSE FileBuf
        /\ fat_read(a, FileBuf) = Written(e.tag, size)
    BY <1>2, <2>1, <2>e
  <2>3. Written(t, e.size) = Written(e.tag, e.size)
    <3>1. e.size \in Nat /\ size \in Nat
      BY <2>2, <2>n, Geometry
    <3>2. CASE e.size = 0
      BY <3>1, <3>2, WrittenTells
    <3>3. CASE e.size # 0
      <4>1. size # 0 /\ size > 0
        BY <1>y, <2>2, <3>1, <3>3
      <4>2. t = e.tag
        BY <1>2, <2>2, <3>1, <4>1, WrittenTells
      <4> QED BY <4>2
    <3> QED BY <3>2, <3>3
  <2>4. Carries(b, t, size)'
    BY <2>2, <2>3 DEF Carries
  <2>5. NameLeads' /\ ReadsNew'
    <3>1. ReadsNew
      BY <1>r DEF ReadsNew
    <3>2. Call
      <4>1. "ok" \in Reads
        BY DEF Reads
      <4> QED BY <1>2, <2>n, <4>1 DEF Call
    <3> QED BY <2>u, <3>1, <3>2, WriteCall
  <2>6. Keepable' => Source'
    BY <1>y, <2>u, SourceFound DEF Keepable
  <2>7. \/ Matches(fat[1], cur, "file", b) = {} /\ job'.pc = "load" /\ job'.op = "write"
             /\ job'.name = b /\ job'.tag = t /\ job'.size = size
        \/ Matches(fat[1], cur, "file", b) # {}
             /\ StartRelease("write", b, t, size, Least(Matches(fat[1], cur, "file", b)))
    <3>1. \/ Matches(fat[1], cur, "file", b) = {}
               /\ job' = [Idle EXCEPT !.pc = "load", !.op = "write",
                             !.name = b, !.tag = t, !.size = size]
          \/ Matches(fat[1], cur, "file", b) # {}
               /\ StartRelease("write", b, t, size, Least(Matches(fat[1], cur, "file", b)))
      BY <1>2 DEF fat_write
    <3>2. job' = [Idle EXCEPT !.pc = "load", !.op = "write", !.name = b, !.tag = t, !.size = size]
            => /\ job'.pc = "load" /\ job'.op = "write"
               /\ job'.name = b /\ job'.tag = t /\ job'.size = size
      BY DEF Idle
    <3> QED BY <3>1, <3>2, Zenon
  <2>8. CASE Matches(fat[1], cur, "file", b) = {} /\ job'.pc = "load" /\ job'.op = "write"
               /\ job'.name = b /\ job'.tag = t /\ job'.size = size
    <3>1. a # b
      <4>1. Shown(sector, cur, "file", b) = {}
        BY <1>y, <2>8, SeenIsShown
      <4>2. Shown(sector, cur, "file", a) # {}
        BY <1>y, <2>2, FirstShown
      <4> QED BY <4>1, <4>2
    <3>2. job'.pc \notin {"idle", "dots", "free", "erase", "data"}
      BY <2>8
    <3> QED BY <2>4, <2>5, <2>6, <2>8, <3>1, <3>2 DEF Copies
  <2>9. CASE Matches(fat[1], cur, "file", b) # {}
               /\ StartRelease("write", b, t, size, Least(Matches(fat[1], cur, "file", b)))
    <3>1. /\ job'.pc = "free" /\ job'.op = "write"
          /\ job'.name = b /\ job'.tag = t /\ job'.size = size
          /\ \E q : /\ First(sector, cur, "file", b, q) /\ Aims(q)'
                    /\ job'.buf = Release(fat[1], Ent(sector, cur, q).first)
      BY <1>y, <2>9, <2>u, SoundRelease
    <3>2. PICK q : /\ First(sector, cur, "file", b, q) /\ Aims(q)'
                   /\ job'.buf = Release(fat[1], Ent(sector, cur, q).first)
      BY <3>1
    <3>3. q \in Room(cur)
      BY <3>2 DEF First
    <3>4. \E z \in Room(cur') : First(sector', cur', "file", cmd'.b, z) /\ Aims(z)'
      BY <2>u, <3>2, <3>3
    <3>5. a = b => Itself'
      <4> SUFFICES ASSUME a = b PROVE Itself'
        OBVIOUS
      <4>1. p = q
        BY <2>2, <3>2, OneFirst
      <4>2. Suffices(job.buf)'
        <5>1. PICK buf : buf = job'.buf
          OBVIOUS
        <5>2. e.size <= SPC * Cardinality(Zeros(buf))
          BY <1>y, <2>e, <2>2, <3>2, <4>1, <5>1, ReleasedSuffices
        <5> QED BY <2>2, <5>1, <5>2 DEF Suffices
      <4>3. job'.w = 0
        BY <2>9, <1>y DEF StartRelease, Idle
      <4>4. \A c \in Cluster : ~(WriteOf(1, c) < job'.w)
        BY <4>3, WritesApart, Geometry
      <4> QED BY <3>1, <4>2, <4>4 DEF Itself
    <3>6. job'.pc \notin {"idle", "dots", "data"}
      BY <3>1
    <3> QED BY <2>4, <2>5, <2>6, <3>1, <3>4, <3>5, <3>6 DEF Copies
  <2> QED BY <2>7, <2>8, <2>9
<1> QED BY <1>1, <1>2

(* The release of the old copy: what is written comes to be the table. *)
LEMMA CopyFree ==
  ASSUME TInv, TInv', NEW D, Sound(D), FreeStep("ok"), cmd' = cmd, cmd.verb = "copy",
         Copies, NameLeads', ReadsNew'
  PROVE  Copies'
<1>y. Types /\ job.buf \in Tables /\ job.w \in 0 .. LastFatSector
  BY JobFields DEF TInv
<1>1. /\ UNCHANGED <<sector, cur, ret>> /\ job.pc = "free" /\ job'.pc \in {"free", "erase"}
      /\ job'.op = job.op /\ job'.name = job.name /\ job'.tag = job.tag
      /\ job'.size = job.size /\ job'.at = job.at /\ job'.slot = job.slot
      /\ job'.buf = job.buf
  BY SoundFree DEF FreeStep
<1>2. \A p : Aims(p) => Aims(p)'
  BY <1>1 DEF Aims
<1>3. \E p \in Room(cur') : First(sector', cur', "file", cmd'.b, p) /\ Aims(p)'
  BY <1>1, <1>2 DEF Copies
<1>4. job'.op = "write" /\ Carries(job.name, job.tag, job.size)'
  BY <1>1 DEF Copies, Carries
<1>5. Keepable' => Keepable
  BY DEF Keepable
<1>6. Source => Source'
  BY <1>1 DEF Source
<1>7. Itself => Itself'
  <2> SUFFICES ASSUME Itself PROVE Itself'
    OBVIOUS
  <2>0. Suffices(job.buf)' /\ \A c \in Cluster : WriteOf(1, c) < job.w => fat[1][c] = job.buf[c]
    BY <1>1 DEF Itself, Suffices
  <2>w. fat' = PutFatSector(job.w, job.buf)
    BY DEF FreeStep
  <2>1. \A c \in Cluster : fat'[1][c] = IF WriteOf(1, c) = job.w THEN job.buf[c] ELSE fat[1][c]
    BY <1>y, <2>w, FirstCopy
  <2>2. \A c \in Cluster : WriteOf(1, c) <= job.w => fat'[1][c] = job.buf[c]
    <3>1. \A c \in Cluster : WriteOf(1, c) \in Nat
      BY WritesApart, Geometry, IdleJob
    <3> QED BY <1>y, <2>0, <2>1, <3>1, IdleJob
  <2>3. CASE job'.pc = "free"
    <3>1. job'.w = job.w + 1
      <4>1. job' = [job EXCEPT !.w = @ + 1] \/ job' = [job EXCEPT !.pc = "erase"]
        BY DEF FreeStep
      <4>2. job \in Jobs
        BY <1>y DEF Types
      <4>3. job' # [job EXCEPT !.pc = "erase"]
        BY <2>3, <4>2 DEF Jobs
      <4> QED BY <4>1, <4>2, <4>3 DEF Jobs
    <3>2. \A c \in Cluster : WriteOf(1, c) < job'.w => fat'[1][c] = job'.buf[c]
      <4>1. \A c \in Cluster : WriteOf(1, c) \in Nat
        BY WritesApart, Geometry, IdleJob
      <4> QED BY <1>y, <1>1, <2>2, <3>1, <4>1, IdleJob
    <3> QED BY <2>0, <2>3, <3>2 DEF Itself
  <2>4. CASE job'.pc = "erase"
    <3>1. job.w = LastFatSector
      <4>1. job.w # LastFatSector => job' = [job EXCEPT !.w = @ + 1]
        BY DEF FreeStep
      <4>2. job \in Jobs
        BY <1>y DEF Types
      <4>3. job' = [job EXCEPT !.w = @ + 1] => job'.pc = job.pc
        BY <4>2 DEF Jobs
      <4> QED BY <1>1, <2>4, <4>1, <4>3
    <3>2. \A c \in Cluster : WriteOf(1, c) <= job.w
      BY <1>y, <3>1, WritesApart, Geometry, IdleJob
    <3>3. fat'[1] \in Tables
      BY Geometry DEF TInv, Types
    <3>4. fat'[1] = job'.buf
      BY <1>y, <1>1, <2>2, <3>2, <3>3, TablesEqual
    <3> QED BY <2>0, <2>4, <3>4 DEF Itself
  <2> QED BY <1>1, <2>3, <2>4
<1>8. Keepable' => IF cmd'.a = cmd'.b THEN Itself' ELSE Source'
  BY <1>1, <1>5, <1>6, <1>7 DEF Copies
<1>9. job'.pc \notin {"idle", "dots", "data"}
  BY <1>1
<1> QED BY <1>3, <1>4, <1>8, <1>9 DEF Copies

(* The old entry is erased; its place is vacant. *)
LEMMA CopyErase ==
  ASSUME TInv, NEW D, Sound(D), EraseStep("ok"), ~torn', cmd' = cmd, cmd.verb = "copy",
         Copies, NameLeads', ReadsNew'
  PROVE  Copies'
<1>y. Types /\ cur \in Cluster \cup {0}
  BY DEF TInv, Types
<1>e. PICK E : E = After(D)
  OBVIOUS
<1>0. job.pc = "erase" /\ job.op = "write"
  BY DEF EraseStep, Copies
<1>1. /\ UNCHANGED <<fat, cur>>
      /\ \E p \in Used(sector, cur) :
           /\ Aims(p)
           /\ \A d \in Cluster \cup {0} : \A q \in Room(d) :
                Ent(sector', d, q) = IF d = cur /\ q = p THEN DelSlot ELSE Ent(sector, d, q)
  BY <1>e, SoundErase
<1>2. PICK p \in Used(sector, cur) :
        /\ Aims(p)
        /\ \A d \in Cluster \cup {0} : \A q \in Room(d) :
             Ent(sector', d, q) = IF d = cur /\ q = p THEN DelSlot ELSE Ent(sector, d, q)
  BY <1>1
<1>3. /\ p \in Room(cur) /\ Ent(sector', cur, p) = DelSlot
      /\ \A q \in Room(cur) : q # p => Ent(sector', cur, q) = Ent(sector, cur, q)
  BY <1>y, <1>2 DEF Used
<1>4. First(sector, cur, "file", cmd.b, p)
  <2>1. PICK q \in Room(cur) : First(sector, cur, "file", cmd.b, q) /\ Aims(q)
    BY <1>0 DEF Copies
  <2> QED BY <1>y, <1>2, <2>1, OneAim
<1>5. /\ job'.pc = "load" /\ job'.op = "write" /\ job'.name = job.name
      /\ job'.tag = job.tag /\ job'.size = job.size
  <2>1. job' = [Idle EXCEPT !.pc = "load", !.op = "write", !.name = job.name,
                            !.tag = job.tag, !.size = job.size]
    BY <1>0 DEF EraseStep
  <2> QED BY <2>1 DEF Idle
<1>6. Carries(job.name, job.tag, job.size)'
  BY <1>0, <1>5 DEF Copies, Carries
<1>7. Keepable' => Keepable
  BY DEF Keepable
<1>8. Source /\ cmd.a # cmd.b => Source'
  <2> SUFFICES ASSUME Source, cmd.a # cmd.b PROVE Source'
    OBVIOUS
  <2>1. PICK q \in Room(cur) : /\ First(sector, cur, "file", cmd.a, q)
                               /\ Ent(sector, cur, q).size = cmd.file.code
                               /\ Written(Ent(sector, cur, q).tag, cmd.file.code) = cmd.file
    BY DEF Source
  <2>2. q # p
    BY <1>4, <2>1 DEF First, Match
  <2>3. DelSlot # EndSlot /\ DelSlot.kind # "file"
    BY DEF DelSlot, EndSlot, Entry
  <2>4. \A i \in 0 .. q - 1 : i \in Room(cur)
    <3>1. q \in Nat /\ \A i \in 0 .. q : i \in Room(cur)
      BY PlacesBefore
    <3> QED BY <3>1
  <2>5. First(sector', cur, "file", cmd.a, q)
    BY <1>3, <2>1, <2>2, <2>3, <2>4 DEF First, Match
  <2>6. Ent(sector', cur, q) = Ent(sector, cur, q)
    BY <1>3, <2>2
  <2> QED BY <1>1, <2>1, <2>5, <2>6 DEF Source
<1>9. Itself => Itself'
  <2>1. Itself => Suffices(fat[1])'
    BY <1>0, <1>1 DEF Itself, Suffices
  <2>2. Vacant(sector', cur') # {}
    BY <1>1, <1>3 DEF Vacant
  <2>3. job'.pc \notin {"free", "erase"}
    BY <1>5
  <2> QED BY <2>1, <2>2, <2>3 DEF Itself
<1>10. Keepable' => IF cmd'.a = cmd'.b THEN Itself' ELSE Source'
  BY <1>0, <1>7, <1>8, <1>9 DEF Copies
<1>11. job'.pc \notin {"idle", "dots", "data", "free", "erase"}
  BY <1>5
<1> QED BY <1>5, <1>6, <1>10, <1>11 DEF Copies

(* While the entries stay, so does the source. *)
LEMMA SourceKept ==
  ASSUME cur' = cur, cmd' = cmd, \A q \in Room(cur) : Ent(sector', cur, q) = Ent(sector, cur, q)
  PROVE  /\ Source => Source'
         /\ Vacant(sector', cur') = Vacant(sector, cur)
         /\ Target' = Target
<1>1. /\ \A kind, name : Shown(sector', cur, kind, name) = Shown(sector, cur, kind, name)
      /\ Vacant(sector', cur) = Vacant(sector, cur)
  BY ShownKept
<1>2. ASSUME Source PROVE Source'
  <2>1. PICK q \in Room(cur) : /\ First(sector, cur, "file", cmd.a, q)
                               /\ Ent(sector, cur, q).size = cmd.file.code
                               /\ Written(Ent(sector, cur, q).tag, cmd.file.code) = cmd.file
    BY <1>2 DEF Source
  <2>2. First(sector', cur, "file", cmd.a, q) /\ Ent(sector', cur, q) = Ent(sector, cur, q)
    BY <2>1, FirstKept
  <2> QED BY <2>1, <2>2 DEF Source
<1>3. Target' = Target
  BY <1>1 DEF Target
<1> QED BY <1>1, <1>2, <1>3

(* The table is loaded anew; nothing of it is taken yet. *)
LEMMA CopyLoad ==
  ASSUME TInv, NEW D, Sound(D), LoadStep("ok"), cmd' = cmd, cmd.verb = "copy",
         Copies, NameLeads', ReadsNew'
  PROVE  Copies'
<1>y. job \in Jobs /\ SPC \in Nat \ {0}
  BY Geometry DEF TInv, Types
<1>0. job.pc = "load" /\ job.op = "write" /\ job.k = 0
  BY DEF LoadStep, TInv, Phases
<1>1. UNCHANGED <<fat, sector, cur>>
  BY SoundLoad
<1>2. /\ job'.pc \in {"data", "putfat"} /\ job'.op = job.op /\ job'.name = job.name
      /\ job'.tag = job.tag /\ job'.size = job.size /\ job'.k = 0 /\ job'.buf = fat[1]
  <2>1. job' = [job EXCEPT !.pc = IF job.size = 0 THEN "putfat" ELSE "data", !.buf = fat[1]]
    BY DEF LoadStep
  <2>2. \A pc : job' = [job EXCEPT !.pc = pc, !.buf = fat[1]] =>
          /\ job'.pc = pc /\ job'.op = job.op /\ job'.name = job.name
          /\ job'.tag = job.tag /\ job'.size = job.size /\ job'.k = job.k /\ job'.buf = fat[1]
    BY <1>y DEF Jobs
  <2>3. PICK pc \in {"data", "putfat"} : job' = [job EXCEPT !.pc = pc, !.buf = fat[1]]
    <3>1. CASE job.size = 0
      BY <2>1, <3>1
    <3>2. CASE job.size # 0
      BY <2>1, <3>2
    <3> QED BY <3>1, <3>2
  <2> QED BY <1>0, <2>2, <2>3
<1>3. Carries(job.name, job.tag, job.size)'
  BY <1>0, <1>2 DEF Copies, Carries
<1>4. Cardinality(Fresh') * SPC < job'.k + SPC
  <2>1. Fresh' = {}
    BY <1>1, <1>2 DEF Fresh
  <2>2. Cardinality(Fresh') = 0
    BY <2>1, FS_EmptySet
  <2>3. 0 * SPC < 0 + SPC
    BY <1>y
  <2> QED BY <1>2, <2>2, <2>3
<1>5. /\ Source => Source'
      /\ Vacant(sector', cur') = Vacant(sector, cur)
  BY <1>1, SourceKept
<1>6. Itself => Itself'
  <2>1. Itself => Suffices(fat[1])' /\ Vacant(sector', cur') # {}
    BY <1>0, <1>1, <1>5 DEF Itself, Suffices
  <2>2. job'.pc \notin {"free", "erase"}
    BY <1>2
  <2> QED BY <2>1, <2>2 DEF Itself
<1>7. Keepable' => Keepable
  BY DEF Keepable
<1>8. Keepable' => IF cmd'.a = cmd'.b THEN Itself' ELSE Source'
  BY <1>0, <1>5, <1>6, <1>7 DEF Copies
<1>9. job'.pc \notin {"idle", "dots", "free", "erase"}
  BY <1>2
<1> QED BY <1>0, <1>2, <1>3, <1>4, <1>8, <1>9 DEF Copies

(* The table with the file's clusters is written. *)
LEMMA CopyPutFat ==
  ASSUME TInv, TInv', NEW D, Sound(D), PutFatStep("ok"), cmd' = cmd, cmd.verb = "copy",
         Copies, NameLeads', ReadsNew'
  PROVE  Copies'
<1>y. job \in Jobs
  BY DEF TInv, Types
<1>0. job.pc = "putfat" /\ job.op = "write"
  BY DEF PutFatStep, Copies
<1>1. UNCHANGED <<sector, cur>>
  BY SoundPutFat
<1>2. /\ job'.pc \in {"putfat", "entry"} /\ job'.op = job.op /\ job'.name = job.name
      /\ job'.tag = job.tag /\ job'.size = job.size
  <2>1. job' = IF job.w < LastFatSector THEN [job EXCEPT !.w = @ + 1]
               ELSE [job EXCEPT !.w = 0, !.pc = IF job.op = "mkdir" THEN "dots" ELSE "entry"]
    BY DEF PutFatStep
  <2>2. job' = [job EXCEPT !.w = @ + 1] \/ job' = [job EXCEPT !.w = 0, !.pc = "entry"]
    BY <1>0, <2>1
  <2>3. CASE job' = [job EXCEPT !.w = @ + 1]
    BY <1>y, <1>0, <2>3 DEF Jobs
  <2>4. CASE job' = [job EXCEPT !.w = 0, !.pc = "entry"]
    BY <1>y, <1>0, <2>4 DEF Jobs
  <2> QED BY <2>2, <2>3, <2>4
<1>3. Carries(job.name, job.tag, job.size)'
  BY <1>0, <1>2 DEF Copies, Carries
<1>5. /\ Source => Source'
      /\ Vacant(sector', cur') = Vacant(sector, cur)
  BY <1>1, SourceKept
<1>6. Itself => Itself'
  <2>1. Itself => Vacant(sector', cur') # {}
    BY <1>0, <1>5 DEF Itself
  <2>2. job'.pc \notin {"free", "erase", "load", "data"}
    BY <1>2
  <2> QED BY <2>1, <2>2 DEF Itself
<1>7. Keepable' => Keepable
  BY DEF Keepable
<1>8. Keepable' => IF cmd'.a = cmd'.b THEN Itself' ELSE Source'
  BY <1>0, <1>5, <1>6, <1>7 DEF Copies
<1>9. job'.pc \notin {"idle", "dots", "free", "erase", "data"}
  BY <1>2
<1> QED BY <1>0, <1>2, <1>3, <1>8, <1>9 DEF Copies

LEMMA WholeRows ==
  ASSUME NEW k \in Nat, NEW m \in Nat \ {0}, k % m = 0, NEW n \in Nat, n * m < k + m
  PROVE  n * m <= k
<1>q. PICK q : q = k \div m
  OBVIOUS
<1>1. q \in Nat /\ k = q * m
  BY <1>q
<1>2. ~(q + 1 <= n)
  <2> SUFFICES ASSUME q + 1 <= n PROVE FALSE
    OBVIOUS
  <2>1. q + 1 \in Nat
    BY <1>1
  <2>2. (q + 1) * m <= n * m
    BY <1>1, <2>1, ProductMonotone
  <2>3. (q + 1) * m = k + m
    BY <1>1
  <2> QED BY <1>1, <2>2, <2>3
<1>3. n <= q
  BY <1>1, <1>2
<1>4. n * m <= q * m
  BY <1>1, <1>3, ProductMonotone
<1> QED BY <1>1, <1>4

LEMMA ClusterSets == \A S : S \subseteq Cluster => IsFiniteSet(S) /\ Cardinality(S) \in Nat
<1>1. IsFiniteSet(2 .. NC + 1)
  BY Geometry, FS_Interval
<1> QED BY <1>1, FS_Subset, FS_CardinalityType DEF Cluster

(* A sector is written; the volume may be full. *)
LEMMA CopyData ==
  ASSUME TInv, TInv', Rising, NEW D, Sound(D), DataStep("ok"), cmd' = cmd, cmd.verb = "copy",
         Copies, NameLeads', ReadsNew'
  PROVE  Copies'
<1>y. /\ Types /\ job \in Jobs /\ SPC \in Nat \ {0} /\ job.k \in Nat /\ job.size \in Nat
      /\ job.buf \in Tables
  BY Geometry, JobFields DEF TInv, Types
<1>0. job.pc = "data" /\ job.op = "write" /\ job.k < job.size
  BY DEF DataStep, TInv, Phases
<1>1. /\ UNCHANGED <<fat, cur>> /\ (job' = Idle \/ Longer)
      /\ \A q \in Room(cur) : Ent(sector', cur, q) = Ent(sector, cur, q)
  <2>1. cur \in D
    BY DEF Sound
  <2> QED BY <2>1, SoundData
<1>c. /\ IsFiniteSet(Fresh) /\ Cardinality(Fresh) \in Nat
      /\ IsFiniteSet(Fresh') /\ Cardinality(Fresh') \in Nat
      /\ IsFiniteSet(Zeros(fat[1])) /\ Cardinality(Zeros(fat[1])) \in Nat
  BY ClusterSets DEF Fresh, Zeros
<1>k. Cardinality(Fresh) * SPC < job.k + SPC
  BY <1>0 DEF Copies
<1>5. /\ Source => Source'
      /\ Vacant(sector', cur') = Vacant(sector, cur)
  BY <1>1, SourceKept
<1>7. Keepable' => Keepable
  BY DEF Keepable
<1> DEFINE c == IF job.k % SPC = 0 THEN fat_find_free_cluster(job.buf) ELSE job.prev
<1>2. CASE c = 0
  <2>1. Return(-1)
    BY <1>2 DEF DataStep
  <2>2. /\ job'.pc = "idle" /\ ret'.op = "write" /\ ret'.size = job.size /\ ret'.code # 0
    BY <1>0, <2>1, Codes DEF Return, Finish, Idle
  <2>3. job.k % SPC = 0 /\ fat_find_free_cluster(job.buf) = 0
    <3>1. job.k % SPC # 0 => job.k # 0
      BY <1>y
    <3>2. job.k # 0 => job.prev # 0
      BY <1>0, Geometry DEF Sound, Grows, Fresh
    <3> QED BY <1>2, <3>1, <3>2
  <2>4. Zeros(fat[1]) \subseteq Fresh
    <3>1. Zeros(job.buf) = {}
      BY <2>3, NoFreeCluster
    <3> QED BY <3>1 DEF Zeros, Fresh
  <2>5. Cardinality(Zeros(fat[1])) <= Cardinality(Fresh)
    BY <1>c, <2>4, FS_Subset
  <2>6. Cardinality(Zeros(fat[1])) * SPC <= Cardinality(Fresh) * SPC
    BY <1>c, <1>y, <2>5, ProductMonotone
  <2>7. Cardinality(Fresh) * SPC <= job.k
    BY <1>c, <1>y, <1>k, <2>3, WholeRows
  <2>8. Cardinality(Zeros(fat[1])) * SPC < job.size
    BY <1>c, <1>y, <1>0, <2>6, <2>7
  <2>9. Full(ret.size)'
    BY <1>1, <2>2, <2>8 DEF Full
  <2>10. Keepable => cmd.a # cmd.b
    <3> SUFFICES ASSUME Keepable, cmd.a = cmd.b PROVE FALSE
      OBVIOUS
    <3>1. cmd.file.code <= SPC * Cardinality(Zeros(fat[1]))
      BY <1>0 DEF Copies, Itself, Suffices
    <3>2. /\ cmd.file.code \in 0 .. MaxSize
          /\ job.size = (IF cmd.file.code <= FileBuf THEN cmd.file.code ELSE FileBuf)
      BY <1>0 DEF Copies, Carries
    <3>3. cmd.file.code \in Nat /\ job.size <= cmd.file.code
      BY <3>2, Geometry, CommandsAssumption
    <3> QED BY <1>c, <1>y, <2>8, <3>1, <3>3
  <2>11. Keepable' => Source'
    BY <1>0, <1>5, <1>7, <2>10 DEF Copies
  <2>12. job'.pc \notin {"dots", "free", "erase", "data"}
    BY <2>2
  <2> QED BY <2>2, <2>9, <2>11, <2>12 DEF Copies
<1>b. c # 0 =>
        job' = [job EXCEPT
                  !.buf = IF job.k % SPC = 0
                          THEN [(IF job.k % SPC = 0 /\ job.prev # 0
                                 THEN [job.buf EXCEPT ![job.prev] = c] ELSE job.buf) EXCEPT ![c] = EOC]
                          ELSE @,
                  !.first = IF @ = 0 THEN c ELSE @,
                  !.prev = c,
                  !.k = @ + 1,
                  !.pc = IF job.k + 1 = job.size THEN "putfat" ELSE "data"]
  BY Zenon DEF DataStep
<1> HIDE DEF c
<1>3. CASE c # 0
  <2>1. /\ job'.pc \in {"data", "putfat"} /\ job'.op = job.op /\ job'.name = job.name
        /\ job'.tag = job.tag /\ job'.size = job.size /\ job'.k = job.k + 1
    <3>1. job'.pc = IF job.k + 1 = job.size THEN "putfat" ELSE "data"
      BY <1>3, <1>b, <1>y DEF Jobs
    <3>2. /\ job'.op = job.op /\ job'.name = job.name
          /\ job'.tag = job.tag /\ job'.size = job.size /\ job'.k = job.k + 1
      BY <1>3, <1>b, <1>y DEF Jobs
    <3> QED BY <3>1, <3>2
  <2>2. Longer
    <3>1. Idle.pc = "idle"
      BY DEF Idle
    <3> QED BY <1>1, <2>1, <3>1
  <2>3. Cardinality(Fresh') * SPC < job'.k + SPC
    <3>1. CASE job'.buf = job.buf
      <4>1. Fresh' = Fresh
        BY <1>1, <3>1 DEF Fresh
      <4> QED BY <1>k, <1>y, <1>c, <2>1, <4>1
    <3>2. CASE job'.buf # job.buf
      <4>1. /\ job'.prev \in Cluster
            /\ \A x \in Cluster : x # job'.prev /\ (job.k = 0 \/ x # job.prev) =>
                 job'.buf[x] = job.buf[x]
        BY <2>2, <3>2 DEF Longer
      <4>2. job.k % SPC = 0
        <5>1. job.k % SPC # 0 => job'.buf = job.buf
          BY <1>3, <1>b, <1>y DEF Jobs
        <5> QED BY <3>2, <5>1
      <4>3. Fresh' \subseteq Fresh \cup {job'.prev}
        <5>1. job.k # 0 => job.prev \in Fresh
          BY <1>0 DEF Sound, Grows
        <5> QED BY <1>1, <4>1, <5>1 DEF Fresh
      <4>4. /\ IsFiniteSet(Fresh \cup {job'.prev})
            /\ Cardinality(Fresh \cup {job'.prev}) \in Nat
            /\ Cardinality(Fresh \cup {job'.prev}) <= Cardinality(Fresh) + 1
        <5>1. Fresh \cup {job'.prev} \subseteq Cluster
          BY <4>1 DEF Fresh
        <5>2. PICK F, x : F = Fresh /\ x = job'.prev
          OBVIOUS
        <5>3. Cardinality(F \cup {x}) = (IF x \in F THEN Cardinality(F) ELSE Cardinality(F) + 1)
          BY <1>c, <5>2, FS_AddElement
        <5>4. Cardinality(F) \in Nat
          BY <1>c, <5>2
        <5>5. Cardinality(F \cup {x}) <= Cardinality(F) + 1
          BY <5>3, <5>4
        <5> QED BY <5>1, <5>2, <5>5, ClusterSets
      <4>5. Cardinality(Fresh') <= Cardinality(Fresh) + 1
        <5>1. Cardinality(Fresh') <= Cardinality(Fresh \cup {job'.prev})
          BY <4>3, <4>4, FS_Subset
        <5> QED BY <1>c, <4>4, <5>1
      <4>6. Cardinality(Fresh) * SPC <= job.k
        BY <1>c, <1>y, <1>k, <4>2, WholeRows
      <4>7. Cardinality(Fresh') * SPC <= (Cardinality(Fresh) + 1) * SPC
        <5>1. Cardinality(Fresh) + 1 \in Nat
          BY <1>c
        <5> QED BY <1>c, <1>y, <4>5, <5>1, ProductMonotone
      <4>8. (Cardinality(Fresh) + 1) * SPC = Cardinality(Fresh) * SPC + SPC
        BY <1>c, <1>y
      <4> QED BY <1>c, <1>y, <2>1, <4>6, <4>7, <4>8
    <3> QED BY <3>1, <3>2
  <2>4. Carries(job.name, job.tag, job.size)'
    BY <1>0, <2>1 DEF Copies, Carries
  <2>5. Itself => Itself'
    <3>1. Itself => Suffices(fat[1])' /\ Vacant(sector', cur') # {}
      BY <1>0, <1>1, <1>5 DEF Itself, Suffices
    <3>2. job'.pc \notin {"free", "erase"}
      BY <2>1
    <3> QED BY <3>1, <3>2 DEF Itself
  <2>6. Keepable' => IF cmd'.a = cmd'.b THEN Itself' ELSE Source'
    BY <1>0, <1>5, <1>7, <2>5 DEF Copies
  <2>7. job'.pc \notin {"idle", "dots", "free", "erase"}
    BY <2>1
  <2> QED BY <1>0, <2>1, <2>3, <2>4, <2>6, <2>7 DEF Copies
<1> QED BY <1>2, <1>3

(* The entry is written, or there is no place for it.  The source stays,   *)
(* or the copy has taken its name and holds all of it.                     *)
LEMMA CopyEntry ==
  ASSUME TInv, NEW D, Sound(D), EntryStep("ok"), cmd' = cmd, cmd.verb = "copy",
         Copies, NameLeads', ReadsNew'
  PROVE  Copies'
<1>y. Types
  BY DEF TInv
<1>0. job.pc = "entry" /\ job.op = "write" /\ fat[1] = job.buf
  BY DEF EntryStep, Copies, Sound, Adds
<1>e. PICK E : E = After(D)
  OBVIOUS
<1>1. /\ UNCHANGED <<fat, cur>> /\ job'.pc = "idle"
      /\ \/ sector' = sector /\ FreeSlots(fat[1], cur) = {}
         \/ \E p : FreePlace(sector, cur, p) /\ Changed(p, NewEntry)
  <2>1. /\ UNCHANGED <<fat, cur, path>> /\ job'.pc = "idle"
        /\ \/ sector' = sector /\ (FreeSlots(fat[1], cur) = {} \/ "ok" # "ok")
           \/ \E p : /\ FreePlace(sector, cur, p)
                     /\ \A d \in Cluster \cup {0} : \A q \in Room(d) :
                          Ent(sector', d, q) = IF d = cur /\ q = p THEN NewEntry
                                               ELSE Ent(sector, d, q)
    BY <1>e, SoundEntry
  <2> QED BY <2>1 DEF Changed, FreePlace
<1>t. /\ cur \in Cluster \cup {0} /\ fat[1] \in Tables /\ Single(fat[1], cur)
  BY <1>y, SoundSearch
<1>2. FreeSlots(fat[1], cur) = Vacant(sector, cur)
  <2>T. PICK T : T = fat[1]
    OBVIOUS
  <2>1. Positions(T, cur) = Room(cur)
        /\ \A p \in Room(cur) : SlotAt(T, cur, p) = Ent(sector, cur, p)
    BY <1>t, <2>T, SingleDirectory
  <2> QED BY <2>1, <2>T DEF FreeSlots, Vacant
<1>3. /\ ret'.op = "write" /\ ret'.name = job.name /\ ret'.size = job.size
      /\ ret'.tag = job.tag
      /\ FreeSlots(fat[1], cur) # {} => ret'.code = 0
      /\ FreeSlots(fat[1], cur) = {} => ret'.code = -1
  <2>1. FreeSlots(fat[1], cur) # {} => Return(0)
    BY <1>0 DEF EntryStep
  <2>2. FreeSlots(fat[1], cur) = {} => Return(-1)
    BY <1>0 DEF EntryStep
  <2>3. \A code : Return(code) =>
          ret'.op = job.op /\ ret'.name = job.name /\ ret'.size = job.size
          /\ ret'.tag = job.tag /\ ret'.code = code
    BY DEF Return, Finish
  <2> QED BY <1>0, <2>1, <2>2, <2>3
<1>4. Keepable' => Keepable
  BY DEF Keepable
<1>5. job'.pc \notin {"dots", "free", "erase", "data"}
  BY <1>1
<1>c. /\ job.name = cmd.b /\ cmd.file.code \in 0 .. MaxSize
      /\ job.size = (IF cmd.file.code <= FileBuf THEN cmd.file.code ELSE FileBuf)
      /\ cmd.file = Written(job.tag, cmd.file.code)
  BY <1>0 DEF Copies, Carries
<1>6. CASE sector' = sector /\ FreeSlots(fat[1], cur) = {}
  <2>1. Full(ret.size)' /\ ret'.code # 0
    <3>1. Vacant(sector', cur') = {}
      BY <1>1, <1>2, <1>6
    <3>2. ret'.code # 0
      BY <1>3, <1>6, Codes
    <3> QED BY <3>1, <3>2 DEF Full
  <2>2. Keepable => cmd.a # cmd.b
    BY <1>0, <1>2, <1>6 DEF Copies, Itself
  <2>3. Source => Source'
    <3>1. cur' = cur /\ \A q \in Room(cur) : Ent(sector', cur, q) = Ent(sector, cur, q)
      BY <1>1, <1>6
    <3> QED BY <3>1, SourceKept
  <2>4. Keepable' => Source'
    BY <1>0, <1>4, <2>2, <2>3 DEF Copies
  <2> QED BY <1>1, <1>3, <1>5, <2>1, <2>4 DEF Copies
<1>7. ASSUME NEW p, FreePlace(sector, cur, p), Changed(p, NewEntry) PROVE Copies'
  <2>1. /\ p \in Room(cur) /\ Ent(sector, cur, p).kind \in {"end", "del"}
        /\ Ent(sector, cur, p) \in {EndSlot, DelSlot}
    BY <1>7, FreeKinds DEF FreePlace
  <2>2. ret'.code = 0 /\ ret'.code # -1
    <3>1. p \in Vacant(sector, cur)
      BY <2>1 DEF Vacant
    <3> QED BY <1>2, <1>3, <3>1, Codes
  <2>3. /\ Ent(sector', cur, p).kind = "file" /\ Ent(sector', cur, p).name = split_83(cmd.b)
        /\ Ent(sector', cur, p).size = job.size /\ Ent(sector', cur, p).tag = job.tag
        /\ \A q \in Room(cur) : q # p => Ent(sector', cur, q) = Ent(sector, cur, q)
    <3>1. NewEntry = Entry("file", split_83(cmd.b), job.first, job.size, job.tag)
      <4>1. job.op # "mkdir"
        BY <1>0
      <4> QED BY <1>c, <4>1, Zenon DEF NewEntry
    <3>2. /\ Ent(sector', cur, p) = NewEntry
          /\ \A q \in Room(cur) : q # p => Ent(sector', cur, q) = Ent(sector, cur, q)
      BY <1>7, <1>t, <2>1 DEF Changed
    <3> QED BY <3>1, <3>2 DEF Entry
  <2>4. Carries(ret.name, ret.tag, ret.size)'
    BY <1>c, <1>3 DEF Carries
  <2>5. Keepable => Source'
    <3> SUFFICES ASSUME Keepable PROVE Source'
      OBVIOUS
    <3>1. CASE cmd.a = cmd.b
      <4>1. split_83(cmd.b) = cmd.a /\ cmd.file.code <= FileBuf
        BY <3>1 DEF Keepable
      <4>2. split_83(ret'.name) = ret'.name /\ ret'.name = cmd.a
        BY <1>c, <1>3, <3>1, <4>1
      <4>3. job.size = cmd.file.code
        BY <1>c, <4>1
      <4>4. PICK q : /\ First(sector', cur', "file", ret'.name, q)
                     /\ Ent(sector', cur', q).size = ret'.size
                     /\ Ent(sector', cur', q).tag = ret'.tag
        BY <1>1, <1>3, <2>2, <4>2 DEF ReadsNew
      <4>5. q \in Room(cur')
        BY <4>4 DEF First
      <4> QED BY <1>c, <1>3, <4>2, <4>3, <4>4, <4>5 DEF Source
    <3>2. CASE cmd.a # cmd.b
      <4>1. Source
        BY <1>0, <3>2 DEF Copies
      <4>2. PICK q \in Room(cur) : /\ First(sector, cur, "file", cmd.a, q)
                                   /\ Ent(sector, cur, q).size = cmd.file.code
                                   /\ Written(Ent(sector, cur, q).tag, cmd.file.code) = cmd.file
        BY <4>1 DEF Source
      <4>3. q # p
        BY <2>1, <4>2 DEF First, Match
      <4>4. p \in Nat /\ q \in Nat /\ \A i \in 0 .. q : i \in Room(cur)
        BY <2>1, PlacesBefore
      <4>5. EndSlot.kind # "file"
        BY DEF EndSlot, Entry
      <4>6. CASE split_83(cmd.b) # cmd.a \/ ~(p < q)
        <5>1. \A i \in 0 .. q - 1 : i \in Room(cur)
          BY <4>4
        <5>2. ASSUME NEW i \in 0 .. q - 1
              PROVE  Ent(sector', cur, i) # EndSlot /\ ~Match(sector', cur, i, "file", cmd.a)
          <6>1. CASE i = p
            <7>1. p < q
              BY <4>4, <6>1
            <7> QED BY <2>3, <4>5, <4>6, <6>1, <7>1 DEF Match
          <6>2. CASE i # p
            BY <2>3, <4>2, <5>1, <6>2 DEF First, Match
          <6> QED BY <6>1, <6>2
        <5>3. Ent(sector', cur, q) = Ent(sector, cur, q)
          BY <2>3, <4>3
        <5>4. First(sector', cur, "file", cmd.a, q)
          BY <4>2, <5>2, <5>3 DEF First, Match
        <5> QED BY <1>1, <4>2, <5>3, <5>4 DEF Source
      <4>7. CASE split_83(cmd.b) = cmd.a /\ p < q
        <5>1. \A i \in 0 .. p - 1 : i \in Room(cur) /\ i \in 0 .. q - 1 /\ i # p
          BY <4>4, <4>7
        <5>2. \A i \in 0 .. p - 1 :
                Ent(sector', cur, i) # EndSlot /\ ~Match(sector', cur, i, "file", cmd.a)
          BY <2>3, <4>2, <5>1 DEF First, Match
        <5>3. First(sector', cur, "file", cmd.a, p)
          BY <2>1, <2>3, <4>7, <5>2 DEF First, Match
        <5>4. cmd.file.code <= FileBuf
          BY <4>7 DEF Keepable
        <5>5. job.size = cmd.file.code
          BY <1>c, <5>4
        <5> QED BY <1>1, <1>c, <2>1, <2>3, <5>3, <5>5 DEF Source
      <4> QED BY <4>6, <4>7
    <3> QED BY <3>1, <3>2
  <2>6. Keepable' => Source'
    BY <1>4, <2>5
  <2> QED BY <1>1, <1>3, <1>5, <2>2, <2>4, <2>6 DEF Copies
<1> QED BY <1>1, <1>6, <1>7

(* Each step of a copy that meets no fault. *)
LEMMA CopyStep ==
  ASSUME TInv, TInv', Rising, NEW D, Sound(D), Step, faults' = faults, ~torn',
         cmd' = cmd, Copies
  PROVE  Copies'
<1> SUFFICES ASSUME cmd.verb = "copy" PROVE Copies'
  BY DEF Copies
<1>1. NameLeads' /\ ReadsNew'
  <2>1. NameLeads
    BY DEF Copies
  <2> QED BY <2>1, WriteStep
<1>2. faults \in 0 .. MaxFaults
  BY DEF TInv, Types
<1>3. ~DotsStep("ok")
  BY DEF Copies, DotsStep
<1> QED BY <1>1, <1>2, <1>3, CalmStep, CopyFree, CopyErase, CopyLoad, CopyData, CopyPutFat,
          CopyEntry

-----------------------------------------------------------------------------
LEMMA OkOnly ==
  ASSUME faults \in 0 .. MaxFaults, faults' = faults, NEW o, Count(o)
  PROVE  o = "ok"
BY Geometry DEF Count

(* del and rmdir, as the shell calls them. *)
LEMMA DelStarts ==
  ASSUME Types, NEW D, Sound(D), job.pc = "idle", faults' = faults, NEW a,
         cmd'.verb = "del", cmd'.a = a, cmd'.count = Cardinality(Named("del", a)),
         (\E r \in Reads : fat_delete(a, r)) \/ Refused("delete", a)
  PROVE  Removing'
<1>k. Named("del", a) = Matches(fat[1], cur, "file", a)
  BY DEF Named, Kind
<1>f. faults \in 0 .. MaxFaults
  BY DEF Types
<1>p. <<"del", "delete">> \in {<<"del", "delete">>, <<"rmdir", "rmdir">>}
  OBVIOUS
<1>t. PICK tag, size : tag = "" /\ size = 0
  OBVIOUS
<1>1. CASE Refused("delete", a)
  <2>1. UNCHANGED <<fat, sector, cur>> /\ (initialized' => initialized)
    BY <1>1, RefusedKeeps
  <2>2. Finish("delete", a, tag, size, -1) /\ ~initialized
    BY <1>1, <1>t, Zenon DEF Refused
  <2> QED BY <1>p, <2>1, <2>2, RemovingStarts
<1>2. ASSUME NEW r \in Reads, fat_delete(a, r) PROVE Removing'
  <2>1. UNCHANGED <<fat, sector, cur, initialized>> /\ Count(r)
    BY <1>2 DEF fat_delete, disk
  <2>2. r = "ok"
    BY <1>f, <2>1, OkOnly
  <2>3. \/ /\ Named("del", a) # {}
           /\ StartRelease("delete", a, tag, size, Least(Named("del", a)))
        \/ /\ ~initialized \/ Named("del", a) = {}
           /\ Finish("delete", a, tag, size, -1)
    BY <1>2, <1>k, <1>t, <2>2, Zenon DEF fat_delete
  <2>4. initialized' => initialized
    BY <2>1
  <2> QED BY <1>p, <2>1, <2>3, <2>4, RemovingStarts
<1> QED BY <1>1, <1>2

LEMMA RmdirStarts ==
  ASSUME Types, NEW D, Sound(D), job.pc = "idle", faults' = faults, NEW a,
         cmd'.verb = "rmdir", cmd'.a = a, cmd'.count = Cardinality(Named("rmdir", a)),
         (\E r \in Reads : fat_rmdir(a, r)) \/ Refused("rmdir", a)
  PROVE  Removing'
<1>k. Named("rmdir", a) = Matches(fat[1], cur, "dir", a)
  BY DEF Named, Kind
<1>f. faults \in 0 .. MaxFaults
  BY DEF Types
<1>p. <<"rmdir", "rmdir">> \in {<<"del", "delete">>, <<"rmdir", "rmdir">>}
  OBVIOUS
<1>t. PICK tag, size : tag = "" /\ size = 0
  OBVIOUS
<1>1. CASE Refused("rmdir", a)
  <2>1. UNCHANGED <<fat, sector, cur>> /\ (initialized' => initialized)
    BY <1>1, RefusedKeeps
  <2>2. Finish("rmdir", a, tag, size, -1) /\ ~initialized
    BY <1>1, <1>t, Zenon DEF Refused
  <2> QED BY <1>p, <2>1, <2>2, RemovingStarts
<1>2. ASSUME NEW r \in Reads, fat_rmdir(a, r) PROVE Removing'
  <2>1. UNCHANGED <<fat, sector, cur, initialized>> /\ Count(r)
    BY <1>2 DEF fat_rmdir, disk
  <2>2. r = "ok"
    BY <1>f, <2>1, OkOnly
  <2>3. \/ /\ Named("rmdir", a) # {}
           /\ StartRelease("rmdir", a, tag, size, Least(Named("rmdir", a)))
        \/ /\ ~initialized \/ Named("rmdir", a) = {}
           /\ Finish("rmdir", a, tag, size, -1)
    BY <1>2, <1>k, <1>t, <2>2, Zenon DEF fat_rmdir
  <2>4. initialized' => initialized
    BY <2>1
  <2> QED BY <1>p, <2>1, <2>3, <2>4, RemovingStarts
<1> QED BY <1>1, <1>2

(* Each part of Doing is about its own verbs. *)
LEMMA OtherVerbs ==
  /\ cmd'.verb \notin {"del", "rmdir"} => Removing'
  /\ cmd'.verb \notin {"ren", "type", "cd"} => Looking'
  /\ cmd'.verb # "mkdir" => Making'
  /\ cmd'.verb # "copy" => Copies'
BY DEF Removing, Looking, Making, Copies

LEMMA DoingKept ==
  ASSUME Doing, UNCHANGED shellVars
  PROVE  Doing'
<1>1. /\ fat' = fat /\ sector' = sector /\ cur' = cur /\ initialized' = initialized
      /\ job' = job /\ ret' = ret /\ cmd' = cmd
  BY DEF shellVars, vars
<1>2. Target' = Target
  BY <1>1 DEF Target
<1>3. \A p : Aims(p)' <=> Aims(p)
  BY <1>1 DEF Aims
<1>4. Removing'
  BY <1>1, <1>2, <1>3 DEF Doing, Removing
<1>5. Looking'
  BY <1>1, <1>2 DEF Doing, Looking, KeptFile
<1>6. Making'
  BY <1>1, <1>2 DEF Doing, Making, Full
<1>7. Copies'
  <2>1. NameLeads => NameLeads'
    BY <1>1, <1>3 DEF NameLeads
  <2>2. ReadsNew => ReadsNew'
    BY <1>1 DEF ReadsNew
  <2>3. Fresh' = Fresh
    BY <1>1 DEF Fresh
  <2>4. (Itself => Itself') /\ (Source => Source') /\ (Keepable' => Keepable)
    BY <1>1 DEF Itself, Suffices, Source, Keepable
  <2> SUFFICES ASSUME cmd.verb = "copy" PROVE Copies'
    BY <1>1 DEF Copies
  <2>5. Copies
    BY DEF Doing
  <2>6. job.pc \in {"free", "erase"} =>
          \E p \in Room(cur') : First(sector', cur', "file", cmd'.b, p) /\ Aims(p)'
    BY <1>1, <1>3, <2>5 DEF Copies
  <2>7. /\ job'.pc # "idle" => job'.op = "write" /\ Carries(job.name, job.tag, job.size)'
        /\ job'.pc = "data" => Cardinality(Fresh') * SPC < job'.k + SPC
    BY <1>1, <2>3, <2>5 DEF Copies, Carries
  <2>8. job'.pc = "idle" =>
           /\ ret'.op # "mkdir"
           /\ ret'.code = 0 => ret'.op = "write" /\ Carries(ret.name, ret.tag, ret.size)'
           /\ initialized' /\ ret'.code = -1 =>
                IF ret'.op = "write" THEN Full(ret.size)' ELSE Target' = {}
    BY <1>1, <1>2, <2>5 DEF Copies, Carries, Full
  <2>9. Keepable' => IF job'.pc # "idle" /\ cmd'.a = cmd'.b THEN Itself' ELSE Source'
    BY <1>1, <2>4, <2>5 DEF Copies
  <2>10. NameLeads' /\ ReadsNew' /\ job'.pc # "dots"
    BY <1>1, <2>1, <2>2, <2>5 DEF Copies
  <2> QED BY <1>1, <2>6, <2>7, <2>8, <2>9, <2>10 DEF Copies
<1> QED BY <1>4, <1>5, <1>6, <1>7 DEF Doing

(* A command that meets no fault in its first step finds a volume. *)
LEMMA CalmStart ==
  ASSUME SInv, NEW verb, NEW a, NEW b, Start(verb, a, b),
         ~torn' => ~torn, faults' = cmd'.faults, ~torn'
  PROVE  /\ Types /\ faults \in 0 .. MaxFaults /\ faults' = faults
         /\ job.pc = "idle" /\ ret = NoRet /\ \E D : Sound(D)
         /\ cmd'.verb = verb /\ cmd'.a = a /\ cmd'.b = b
         /\ verb \in {"copy", "ren"} => cmd'.file = fat_read(a, MaxSize)
         /\ verb \in {"del", "rmdir"} => cmd'.count = Cardinality(Named(verb, a))
<1>1. /\ cmd = NoCmd /\ cmd'.faults = faults
      /\ cmd'.verb = verb /\ cmd'.a = a /\ cmd'.b = b
      /\ verb \in {"copy", "ren"} => cmd'.file = fat_read(a, MaxSize)
      /\ verb \in {"del", "rmdir"} => cmd'.count = Cardinality(Named(verb, a))
  BY Started
<1>2. Types /\ faults \in 0 .. MaxFaults
  BY DEF SInv, TInv, Types
<1> QED BY <1>1, <1>2 DEF SInv

LEMMA DoingStarts ==
  ASSUME SInv, Execute, ~torn' => ~torn, Calm'
  PROVE  Doing'
<1>c. faults' = cmd'.faults /\ ~torn'
  BY DEF Calm
<1>o. ASSUME cmd'.verb \in {"none", "create", "cd up"} PROVE Doing'
  <2>1. /\ cmd'.verb \notin {"del", "rmdir"} /\ cmd'.verb \notin {"ren", "type", "cd"}
        /\ cmd'.verb # "mkdir" /\ cmd'.verb # "copy"
    BY <1>o
  <2> QED BY <2>1, OtherVerbs DEF Doing
<1>n. NoCmd.verb = "none"
  BY DEF NoCmd, Command
<1>1. ASSUME NEW a \in FileNames, cmd_del(a) PROVE Doing'
  <2>0. PICK b : b = ""
    OBVIOUS
  <2>1. /\ Start("del", a, b)
        /\ (\E r \in Reads : fat_delete(a, r)) \/ Refused("delete", a)
    BY <1>1, <2>0, Zenon DEF cmd_del
  <2>2. /\ Types /\ faults' = faults /\ job.pc = "idle" /\ \E D : Sound(D)
        /\ cmd'.verb = "del" /\ cmd'.a = a /\ cmd'.count = Cardinality(Named("del", a))
    BY <1>c, <2>1, CalmStart
  <2>3. Removing'
    BY <2>1, <2>2, DelStarts
  <2> QED BY <2>2, <2>3, OtherVerbs DEF Doing
<1>2. ASSUME NEW a \in FileNames, cmd_type(a) PROVE Doing'
  <2>0. PICK b : b = ""
    OBVIOUS
  <2>1. /\ Start("type", a, b)
        /\ ReadTo(a) \/ \E r \in Reads : ReadFails(a, r)
    BY <1>2, <2>0, Zenon DEF cmd_type
  <2>2. /\ Types /\ faults' = faults /\ job.pc = "idle" /\ \E D : Sound(D)
        /\ cmd'.verb = "type" /\ cmd'.a = a /\ faults \in 0 .. MaxFaults
    BY <1>c, <2>1, CalmStart
  <2>3. ReadTo(a) \/ ReadFails(a, "ok")
    <3>1. ASSUME NEW r \in Reads, ReadFails(a, r) PROVE ReadFails(a, "ok")
      <4>1. Count(r)
        BY <3>1, Zenon DEF ReadFails
      <4>2. r = "ok"
        BY <2>2, <4>1, OkOnly
      <4> QED BY <3>1, <4>2, Zenon
    <3> QED BY <2>1, <3>1
  <2>4. Looking'
    BY <2>2, <2>3, TypeStarts
  <2> QED BY <2>2, <2>4, OtherVerbs DEF Doing
<1>3. ASSUME NEW a \in FileNames, NEW t \in Contexts, cmd_create(a, t) PROVE Doing'
  <2>0. PICK b : b = ""
    OBVIOUS
  <2>1. Start("create", a, b)
    BY <1>3, <2>0, Zenon DEF cmd_create
  <2>2. cmd'.verb = "create"
    BY <2>1, Started
  <2> QED BY <1>o, <2>2
<1>4. ASSUME NEW a \in FileNames, NEW b \in FileNames, cmd_ren(a, b) PROVE Doing'
  <2>1. /\ Start("ren", a, b)
        /\ (\E o \in Outcomes : fat_rename(a, b, o)) \/ Refused("rename", a)
    BY <1>4, Zenon DEF cmd_ren
  <2>2. /\ Types /\ faults' = faults /\ job.pc = "idle" /\ \E D : Sound(D)
        /\ cmd'.verb = "ren" /\ cmd'.a = a /\ cmd'.b = b /\ faults \in 0 .. MaxFaults
        /\ cmd'.file = fat_read(a, MaxSize)
    BY <1>c, <2>1, CalmStart
  <2>3. fat_rename(a, b, "ok") \/ Refused("rename", a)
    <3>1. ASSUME NEW o \in Outcomes, fat_rename(a, b, o) PROVE fat_rename(a, b, "ok")
      <4>1. Count(o)
        BY <3>1, Zenon DEF fat_rename
      <4>2. o = "ok"
        BY <2>2, <4>1, OkOnly
      <4> QED BY <3>1, <4>2, Zenon
    <3> QED BY <2>1, <3>1
  <2>4. Looking'
    BY <2>2, <2>3, RenStarts
  <2> QED BY <2>2, <2>4, OtherVerbs DEF Doing
<1>5. ASSUME NEW a \in FileNames, NEW b \in FileNames, cmd_copy(a, b) PROVE Doing'
  <2>1. /\ Start("copy", a, b)
        /\ \/ \E r \in Reads : ReadFails(a, r)
           \/ /\ fat_read(a, FileBuf).code >= 0
              /\ \E t \in Tags, r \in Reads :
                   /\ fat_read(a, FileBuf).code > 0 => t = fat_read(a, FileBuf).data[1].tag
                   /\ fat_write(b, t, fat_read(a, FileBuf).code, r)
    BY <1>5, Zenon DEF cmd_copy
  <2>2. /\ Types /\ faults' = faults /\ job.pc = "idle" /\ \E D : Sound(D)
        /\ cmd'.verb = "copy" /\ cmd'.a = a /\ cmd'.b = b /\ faults \in 0 .. MaxFaults
        /\ cmd'.file = fat_read(a, MaxSize) /\ ret = NoRet
    BY <1>c, <2>1, CalmStart
  <2>3. \/ ReadFails(a, "ok")
        \/ /\ fat_read(a, FileBuf).code >= 0
           /\ \E t \in Tags : /\ fat_read(a, FileBuf).code > 0
                                    => t = fat_read(a, FileBuf).data[1].tag
                              /\ fat_write(b, t, fat_read(a, FileBuf).code, "ok")
    <3>1. ASSUME NEW r \in Reads, ReadFails(a, r) PROVE ReadFails(a, "ok")
      <4>1. Count(r)
        BY <3>1, Zenon DEF ReadFails
      <4>2. r = "ok"
        BY <2>2, <4>1, OkOnly
      <4> QED BY <3>1, <4>2, Zenon
    <3>2. ASSUME NEW t \in Tags, NEW r \in Reads, NEW size, fat_write(b, t, size, r)
          PROVE  fat_write(b, t, size, "ok")
      <4>1. Count(r)
        BY <3>2, Zenon DEF fat_write
      <4>2. r = "ok"
        BY <2>2, <4>1, OkOnly
      <4> QED BY <3>2, <4>2, Zenon
    <3> QED BY <2>1, <3>1, <3>2, Zenon
  <2>4. TInv
    BY DEF SInv
  <2>5. Copies'
    BY <2>2, <2>3, <2>4, CopyStarts
  <2> QED BY <2>2, <2>5, OtherVerbs DEF Doing
<1>6. ASSUME NEW a \in DirNames, cmd_mkdir(a) PROVE Doing'
  <2>0. PICK b : b = ""
    OBVIOUS
  <2>1. /\ Start("mkdir", a, b)
        /\ (\E r \in Reads : fat_mkdir(a, r)) \/ Refused("mkdir", a)
    BY <1>6, <2>0, Zenon DEF cmd_mkdir
  <2>2. /\ Types /\ faults' = faults /\ job.pc = "idle"
        /\ cmd'.verb = "mkdir" /\ cmd'.a = a /\ faults \in 0 .. MaxFaults
    BY <1>c, <2>1, CalmStart
  <2>3. fat_mkdir(a, "ok") \/ Refused("mkdir", a)
    <3>1. ASSUME NEW r \in Reads, fat_mkdir(a, r) PROVE fat_mkdir(a, "ok")
      <4>1. Count(r)
        BY <3>1, Zenon DEF fat_mkdir
      <4>2. r = "ok"
        BY <2>2, <4>1, OkOnly
      <4> QED BY <3>1, <4>2, Zenon
    <3> QED BY <2>1, <3>1
  <2>4. Making'
    BY <2>2, <2>3, MakingStarts
  <2> QED BY <2>2, <2>4, OtherVerbs DEF Doing
<1>7. ASSUME NEW a \in DirNames, cmd_rmdir(a) PROVE Doing'
  <2>0. PICK b : b = ""
    OBVIOUS
  <2>1. /\ Start("rmdir", a, b)
        /\ (\E r \in Reads : fat_rmdir(a, r)) \/ Refused("rmdir", a)
    BY <1>7, <2>0, Zenon DEF cmd_rmdir
  <2>2. /\ Types /\ faults' = faults /\ job.pc = "idle" /\ \E D : Sound(D)
        /\ cmd'.verb = "rmdir" /\ cmd'.a = a /\ cmd'.count = Cardinality(Named("rmdir", a))
    BY <1>c, <2>1, CalmStart
  <2>3. Removing'
    BY <2>1, <2>2, RmdirStarts
  <2> QED BY <2>2, <2>3, OtherVerbs DEF Doing
<1>8. ASSUME NEW a \in DirNames, cmd_cd(a) PROVE Doing'
  <2>0. PICK b : b = ""
    OBVIOUS
  <2>1. /\ Start("cd", a, b)
        /\ (\E r \in Reads : fat_cd(a, r)) \/ Refused("cd", a)
    BY <1>8, <2>0, Zenon DEF cmd_cd
  <2>2. /\ Types /\ faults' = faults /\ job.pc = "idle" /\ \E D : Sound(D)
        /\ cmd'.verb = "cd" /\ cmd'.a = a /\ faults \in 0 .. MaxFaults
    BY <1>c, <2>1, CalmStart
  <2>3. fat_cd(a, "ok") \/ Refused("cd", a)
    <3>1. ASSUME NEW r \in Reads, fat_cd(a, r) PROVE fat_cd(a, "ok")
      <4>1. Count(r)
        BY <3>1, Zenon DEF fat_cd
      <4>2. r = "ok"
        BY <2>2, <4>1, OkOnly
      <4> QED BY <3>1, <4>2, Zenon
    <3> QED BY <2>1, <3>1
  <2>4. Looking'
    BY <2>2, <2>3, CdStarts
  <2> QED BY <2>2, <2>4, OtherVerbs DEF Doing
<1>9. ASSUME cmd_cd_up PROVE Doing'
  <2>0. PICK b : b = ""
    OBVIOUS
  <2>1. Start("cd up", b, b)
    BY <1>9, <2>0, Zenon DEF cmd_cd_up
  <2>2. cmd'.verb = "cd up"
    BY <2>1, Started
  <2> QED BY <1>o, <2>2
<1>10. ASSUME CreateBare \/ cmd_reboot \/ cmd_shutdown \/ cmd_halt PROVE Doing'
  <2>1. cmd' = NoCmd
    BY <1>10 DEF CreateBare, cmd_reboot, cmd_shutdown, cmd_halt, Off, Ready
  <2> QED BY <1>n, <1>o, <2>1
<1> QED BY <1>1, <1>2, <1>3, <1>4, <1>5, <1>6, <1>7, <1>8, <1>9, <1>10 DEF Execute

LEMMA DoingSteps ==
  ASSUME SInv, Calm => Doing, Step, UNCHANGED <<mode, cmd>>, SInv', Calm'
  PROVE  Doing'
<1>y. /\ TInv /\ Types /\ Rising /\ TInv' /\ cmd' = cmd /\ ~torn' /\ faults' = cmd.faults
  BY DEF SInv, TInv, Calm
<1>n. [Next]_vars
  BY DEF Next
<1>1. ~torn /\ faults' = faults
  <2>1. ~torn
    BY <1>n, <1>y, TornStays
  <2>2. faults <= faults' /\ cmd.faults <= faults /\ faults' \in Int /\ faults \in Int
    BY <1>n, <1>y, FaultsGrow DEF SInv, TInv, Types
  <2> QED BY <1>y, <2>1, <2>2
<1>2. Doing
  BY <1>y, <1>1 DEF Calm
<1>3. PICK D : Sound(D)
  BY <1>1 DEF SInv
<1>4. Removing'
  BY <1>2, <1>y, <1>1, <1>3, RemovingStep DEF Doing
<1>5. Looking'
  <2>1. job.pc # "idle"
    BY DEF Step, FreeStep, EraseStep, LoadStep, DataStep, PutFatStep, DotsStep,
       EntryStep, EntryReadError
  <2>2. cmd.verb \notin {"ren", "type", "cd"}
    BY <1>2, <2>1 DEF Doing, Looking
  <2> QED BY <1>y, <2>2, OtherVerbs
<1>6. Making'
  BY <1>2, <1>y, <1>1, <1>3, MakingStep DEF Doing
<1>7. Copies'
  BY <1>2, <1>y, <1>1, <1>3, CopyStep DEF Doing
<1> QED BY <1>4, <1>5, <1>6, <1>7 DEF Doing

LEMMA CInvInit ==
  ASSUME BootInit
  PROVE  CInv
<1>1. cmd = NoCmd /\ NoCmd.verb = "none"
  BY DEF BootInit, NoCmd, Command
<1>2. Doing
  BY <1>1 DEF Doing, Removing, Looking, Making, Copies
<1> QED BY <1>2, SInvInit DEF CInv

LEMMA CInvNext ==
  ASSUME DirectoriesCleared, CInv, [Session]_shellVars
  PROVE  CInv'
<1>s. SInv /\ SInv'
  BY SInvNext DEF CInv
<1> SUFFICES ASSUME Calm' PROVE Doing'
  BY <1>s DEF CInv
<1>t. ~torn' => ~torn
  <2>1. Types
    BY <1>s DEF SInv, TInv
  <2>2. Quiet => torn' = torn
    BY DEF Quiet
  <2>3. [Next]_vars \/ Quiet
    BY <1>s, SessionSteps
  <2> QED BY <2>1, <2>2, <2>3, TornStays
<1>n. ASSUME cmd' = NoCmd PROVE Doing'
  <2>1. NoCmd.verb = "none"
    BY DEF NoCmd, Command
  <2>2. /\ cmd'.verb \notin {"del", "rmdir"} /\ cmd'.verb \notin {"ren", "type", "cd"}
        /\ cmd'.verb # "mkdir" /\ cmd'.verb # "copy"
    BY <1>n, <2>1
  <2> QED BY <2>2, OtherVerbs DEF Doing
<1>1. CASE UNCHANGED shellVars
  <2>1. Calm
    BY <1>1 DEF Calm, shellVars, vars
  <2> QED BY <1>1, <2>1, DoingKept DEF CInv
<1>2. CASE Boot
  BY <1>2, <1>n, <1>s DEF Boot, SInv
<1>3. CASE Execute
  BY <1>3, <1>s, <1>t, DoingStarts
<1>4. CASE Report
  BY <1>4, <1>n DEF Report
<1>5. CASE SwitchOff
  BY <1>5, <1>n, <1>s DEF SwitchOff, Off, SInv
<1>6. CASE PowerFails
  BY <1>6, <1>n DEF PowerFails
<1>7. CASE Step /\ UNCHANGED <<mode, cmd>>
  BY <1>7, <1>s, DoingSteps DEF CInv
<1> QED BY <1>1, <1>2, <1>3, <1>4, <1>5, <1>6, <1>7 DEF Session

(* Each command does what it should as long as no access fails. *)
THEOREM CommandsProceed == ASSUME DirectoriesCleared PROVE SessionSpec => []CInv
BY CInvInit, CInvNext, PTL DEF SessionSpec

-----------------------------------------------------------------------------
(* What is told when a command has ended. *)
LEMMA FirstPart ==
  ASSUME NEW tag, NEW n \in Nat, NEW m \in 0 .. n
  PROVE  SubSeq(Written(tag, n).data, 1, m) = Written(tag, m).data
<1>s. PICK s : s = Written(tag, n).data
  OBVIOUS
<1>t. PICK t : t = SubSeq(s, 1, m)
  OBVIOUS
<1>1. s = [k \in 1 .. n |-> [tag |-> tag, k |-> k - 1]]
  BY <1>s DEF Written
<1>v. PICK S : S = {s[i] : i \in 1 .. n}
  OBVIOUS
<1>2. /\ t \in Seq(S) /\ Len(t) = m
      /\ \A i \in 1 .. m : t[i] = s[i]
  <2>1. \A i \in 1 .. m : i \in 1 .. n
    OBVIOUS
  <2>2. \A i \in 1 .. m : s[i] \in S
    BY <1>v, <2>1
  <2>3. /\ SubSeq(s, 1, m) \in Seq(S)
        /\ Len(SubSeq(s, 1, m)) = IF 1 <= m THEN m - 1 + 1 ELSE 0
        /\ \A i \in 1 .. m - 1 + 1 : SubSeq(s, 1, m)[i] = s[1 + i - 1]
    BY <2>2, SubSeqProperties
  <2>4. t \in Seq(S) /\ Len(t) = m
    BY <1>t, <2>3
  <2>5. ASSUME NEW i \in 1 .. m PROVE t[i] = s[i]
    <3>1. i \in 1 .. m - 1 + 1 /\ 1 + i - 1 = i
      OBVIOUS
    <3> QED BY <1>t, <2>3, <3>1
  <2> QED BY <2>4, <2>5
<1>3. t = [k \in 1 .. m |-> t[k]]
  BY <1>2
<1>4. ASSUME NEW i \in 1 .. m PROVE t[i] = [tag |-> tag, k |-> i - 1]
  <2>1. i \in 1 .. n
    OBVIOUS
  <2>2. s[i] = [tag |-> tag, k |-> i - 1]
    BY <1>1, <2>1, Zenon
  <2> QED BY <1>2, <2>2, Zenon
<1>5. t = [k \in 1 .. m |-> [tag |-> tag, k |-> k - 1]]
  BY <1>3, <1>4, Zenon
<1> QED BY <1>s, <1>t, <1>5 DEF Written

(* The command that is about to print. *)
LEMMA AboutToTell ==
  ASSUME CInv, NEW verbs, Telling(verbs)
  PROVE  /\ Doing /\ job.pc = "idle" /\ cmd.verb \in verbs /\ Types
         /\ \E D : Sound(D)
         /\ \A verb, a : Named(verb, a) = Shown(sector, cur, Kind(verb), a)
<1>1. /\ Doing /\ job.pc = "idle" /\ cmd.verb \in verbs /\ Types /\ ~torn
  BY DEF CInv, SInv, TInv, Telling, Calm
<1>2. PICK D : Sound(D)
  BY <1>1 DEF CInv, SInv
<1>3. \A verb, a : Named(verb, a) = Shown(sector, cur, Kind(verb), a)
  BY <1>1, <1>2, SeenIsShown DEF Named
<1> QED BY <1>1, <1>2, <1>3

LEMMA CopiedIsTrue ==
  ASSUME CInv, Telling({"copy"}), ret.code = 0, split_83(cmd.b) = cmd.b
  PROVE  /\ fat_read(cmd.b, MaxSize).data = SubSeq(cmd.file.data, 1, ret.size)
         /\ ret.size = Least({FileBuf, cmd.file.code})
<1>1. Doing /\ job.pc = "idle" /\ cmd.verb = "copy" /\ Types
  BY AboutToTell
<1>2. PICK D : Sound(D)
  BY AboutToTell
<1>3. /\ ret.op = "write" /\ ReadsNew /\ ret.name = cmd.b
      /\ cmd.file.code \in 0 .. MaxSize
      /\ ret.size = (IF cmd.file.code <= FileBuf THEN cmd.file.code ELSE FileBuf)
      /\ cmd.file = Written(ret.tag, cmd.file.code)
  BY <1>1 DEF Doing, Copies, Carries
<1>4. fat_read(cmd.b, MaxSize) = Written(ret.tag, ret.size)
  BY <1>1, <1>2, <1>3, ReadsBack
<1>5. /\ FileBuf \in Nat /\ cmd.file.code \in Nat /\ ret.size \in 0 .. cmd.file.code
  BY <1>3, CommandsAssumption, Geometry
<1>6. cmd.file.data = Written(ret.tag, cmd.file.code).data
  BY <1>3
<1>7. SubSeq(cmd.file.data, 1, ret.size) = Written(ret.tag, ret.size).data
  BY <1>5, <1>6, FirstPart
<1>8. ret.size = Least({FileBuf, cmd.file.code})
  <2>1. /\ Least({FileBuf, cmd.file.code}) \in {FileBuf, cmd.file.code}
        /\ \A k \in {FileBuf, cmd.file.code} : Least({FileBuf, cmd.file.code}) <= k
    BY <1>5, LeastIsLeast
  <2> QED BY <1>3, <1>5, <2>1
<1> QED BY <1>4, <1>7, <1>8

LEMMA MadeIsTrue ==
  ASSUME CInv, Telling({"mkdir"}), ret.code = 0, split_83(cmd.a) = cmd.a
  PROVE  \E p \in Named("mkdir", cmd.a) : ~InUse(SlotAt(fat[1], cur, p).first)
<1>1. Doing /\ job.pc = "idle" /\ cmd.verb = "mkdir" /\ Types
  BY AboutToTell
<1>2. PICK D : Sound(D)
  BY AboutToTell
<1>3. PICK p \in Target : Used(sector, Ent(sector, cur, p).first) = {}
  BY <1>1 DEF Doing, Making
<1>4. p \in Named("mkdir", cmd.a)
  BY <1>1, AboutToTell DEF Target
<1>5. /\ p \in Visible(fat[1], cur) /\ SlotAt(fat[1], cur, p).kind = "dir"
  BY <1>4 DEF Named, Matches, Kind
<1>6. cur \in D
  BY <1>2 DEF Sound
<1>7. SlotAt(fat[1], cur, p) = Ent(sector, cur, p) /\ SlotAt(fat[1], cur, p).first \in D
  BY <1>1, <1>2, <1>5, <1>6, KidsInTree DEF Kids
<1>8. Listed(fat[1], SlotAt(fat[1], cur, p).first) = {}
  <2>1. PICK e : e = SlotAt(fat[1], cur, p).first
    OBVIOUS
  <2>2. e \in D /\ Used(sector, e) = {}
    BY <1>3, <1>7, <2>1
  <2>3. \A q \in Listed(fat[1], e) : q \in Used(sector, e)
    BY <1>1, <1>2, <2>2, KidsInTree
  <2> QED BY <2>1, <2>2, <2>3
<1> QED BY <1>4, <1>8 DEF InUse

LEMMA RenamedIsTrue ==
  ASSUME CInv, Telling({"ren"}), ret.code = 0, split_83(cmd.b) = cmd.b
  PROVE  \E p \in Named("ren", cmd.b) :
           ReadFile(SlotAt(fat[1], cur, p), MaxSize) = cmd.file
<1>1. /\ Doing /\ job.pc = "idle" /\ cmd.verb = "ren" /\ Types
      /\ Named("ren", cmd.b) = Shown(sector, cur, Kind("ren"), cmd.b)
  BY AboutToTell
<1>2. PICK D : Sound(D)
  BY AboutToTell
<1>3. KeptFile
  BY <1>1 DEF Doing, Looking
<1>4. PICK p \in Shown(sector, cur, "file", cmd.b) :
        /\ Ent(sector, cur, p).size = cmd.file.code
        /\ Written(Ent(sector, cur, p).tag, cmd.file.code) = cmd.file
  BY <1>3 DEF KeptFile
<1>5. PICK e : e = Ent(sector, cur, p)
  OBVIOUS
<1>6. PICK n : n = IF e.size <= MaxSize THEN e.size ELSE MaxSize
  OBVIOUS
<1>7. p \in Used(sector, cur) /\ e.kind = "file"
  BY <1>5 DEF Shown, Match, Used
<1>8. MaxSize \in Nat
  BY Geometry
<1>9. /\ e.size \in 0 .. MaxSize /\ SlotAt(fat[1], cur, p) = e
      /\ ReadFile(e, MaxSize) = Written(e.tag, n)
  BY <1>1, <1>2, <1>5, <1>6, <1>7, <1>8, EntryReads
<1>10. n = e.size
  BY <1>6, <1>8, <1>9
<1>11. ReadFile(SlotAt(fat[1], cur, p), MaxSize) = cmd.file
  BY <1>4, <1>5, <1>9, <1>10
<1> QED BY <1>1, <1>4, <1>11 DEF Kind

LEMMA SuccessTold ==
  ASSUME CInv
  PROVE  SuccessIsTrue
<1>1. ASSUME Telling({"copy"}), ret.code = 0, split_83(cmd.b) = cmd.b
      PROVE  /\ fat_read(cmd.b, MaxSize).data = SubSeq(cmd.file.data, 1, ret.size)
             /\ ret.size = Least({FileBuf, cmd.file.code})
  BY <1>1, CopiedIsTrue
<1>2. ASSUME Telling({"del", "rmdir"}), ret.code = 0
      PROVE  Cardinality(Named(cmd.verb, cmd.a)) = cmd.count - 1
  <2>1. /\ Doing /\ job.pc = "idle" /\ cmd.verb \in {"del", "rmdir"}
        /\ Named(cmd.verb, cmd.a) = Shown(sector, cur, Kind(cmd.verb), cmd.a)
    BY <1>2, AboutToTell
  <2> QED BY <1>2, <2>1 DEF Doing, Removing, Target
<1>3. ASSUME Telling({"ren"}), ret.code = 0, split_83(cmd.b) = cmd.b
      PROVE  \E p \in Named("ren", cmd.b) :
               ReadFile(SlotAt(fat[1], cur, p), MaxSize) = cmd.file
  BY <1>3, RenamedIsTrue
<1>4. ASSUME Telling({"mkdir"}), ret.code = 0, split_83(cmd.a) = cmd.a
      PROVE  \E p \in Named("mkdir", cmd.a) : ~InUse(SlotAt(fat[1], cur, p).first)
  BY <1>4, MadeIsTrue
<1>5. ASSUME Telling({"type"}), ret.code = 0 PROVE Whole(fat_read(cmd.a, FileBuf).data)
  <2>1. /\ Doing /\ job.pc = "idle" /\ cmd.verb = "type" /\ Types /\ \E D : Sound(D)
    BY <1>5, AboutToTell
  <2>2. Shown(sector, cur, "file", cmd.a) # {}
    BY <1>5, <2>1 DEF Doing, Looking, Target, Kind
  <2>3. FileBuf \in Nat
    BY CommandsAssumption
  <2> QED BY <2>1, <2>2, <2>3, ReadsShown
<1> QED BY <1>1, <1>2, <1>3, <1>4, <1>5 DEF SuccessIsTrue

LEMMA FailureTold ==
  ASSUME CInv
  PROVE  FailureIsTrue
<1> SUFFICES ASSUME initialized, ret.code = -1
             PROVE  /\ Telling({"del", "ren", "type", "rmdir", "cd", "copy"}) /\ ret.op # "write"
                         => Named(cmd.verb, cmd.a) = {}
                    /\ ret.op \in {"write", "mkdir"} /\ Telling({"copy", "mkdir"})
                         => \/ Cardinality({c \in Cluster : fat[1][c] = 0}) * SPC
                                 < IF ret.op = "mkdir" THEN SPC ELSE ret.size
                            \/ {p \in Positions(fat[1], cur) :
                                  SlotAt(fat[1], cur, p).kind \in {"end", "del"}} = {}
  BY DEF FailureIsTrue
<1>1. ASSUME Telling({"del", "ren", "type", "rmdir", "cd", "copy"}), ret.op # "write"
      PROVE  Named(cmd.verb, cmd.a) = {}
  <2>1. /\ Doing /\ job.pc = "idle" /\ cmd.verb \in {"del", "ren", "type", "rmdir", "cd", "copy"}
        /\ Named(cmd.verb, cmd.a) = Target
    BY <1>1, AboutToTell DEF Target
  <2> QED BY <1>1, <2>1 DEF Doing, Removing, Looking, Copies
<1>2. ASSUME ret.op \in {"write", "mkdir"}, Telling({"copy", "mkdir"})
      PROVE  \/ Cardinality({c \in Cluster : fat[1][c] = 0}) * SPC
                  < IF ret.op = "mkdir" THEN SPC ELSE ret.size
             \/ {p \in Positions(fat[1], cur) :
                   SlotAt(fat[1], cur, p).kind \in {"end", "del"}} = {}
  <2>1. /\ Doing /\ job.pc = "idle" /\ cmd.verb \in {"copy", "mkdir"} /\ Types
        /\ \E D : Sound(D)
    BY <1>2, AboutToTell
  <2>2. {p \in Positions(fat[1], cur) : SlotAt(fat[1], cur, p).kind \in {"end", "del"}}
          = Vacant(sector, cur)
    BY <2>1, PlacesVacant
  <2>3. Full(IF ret.op = "mkdir" THEN SPC ELSE ret.size)
    BY <1>2, <2>1 DEF Doing, Making, Copies
  <2> QED BY <2>2, <2>3 DEF Full, Zeros
<1> QED BY <1>1, <1>2

LEMMA SourceTold ==
  ASSUME CInv
  PROVE  CopyKeepsSource
<1> SUFFICES ASSUME Telling({"copy"}), Keepable
             PROVE  fat_read(cmd.a, MaxSize) = cmd.file
  BY DEF CopyKeepsSource, Keepable
<1>1. Doing /\ job.pc = "idle" /\ cmd.verb = "copy" /\ Types
  BY AboutToTell
<1>2. PICK D : Sound(D)
  BY AboutToTell
<1>3. PICK p \in Room(cur) : /\ First(sector, cur, "file", cmd.a, p)
                             /\ Ent(sector, cur, p).size = cmd.file.code
                             /\ Written(Ent(sector, cur, p).tag, cmd.file.code) = cmd.file
  BY <1>1 DEF Doing, Copies, Source
<1>4. PICK e : e = Ent(sector, cur, p)
  OBVIOUS
<1>5. PICK n : n = IF e.size <= MaxSize THEN e.size ELSE MaxSize
  OBVIOUS
<1>6. e.size \in 0 .. MaxSize /\ fat_read(cmd.a, MaxSize) = Written(e.tag, n)
  BY <1>1, <1>2, <1>3, <1>4, <1>5, FileReads, Geometry
<1>7. n = e.size
  BY <1>5, <1>6, Geometry
<1> QED BY <1>3, <1>4, <1>6, <1>7

(* A message of success is true, whatever was on the volume and whatever   *)
(* failed before: "Copied", "Deleted", "Removed", "Renamed", "Created" and *)
(* the contents that type shows.                                           *)
THEOREM SuccessHolds == ASSUME DirectoriesCleared PROVE SessionSpec => []SuccessIsTrue
BY SuccessTold, CommandsProceed, PTL

(* So is a message of failure: there is no such entry, or there is no      *)
(* space on the volume or in the current directory.                        *)
THEOREM FailureHolds == ASSUME DirectoriesCleared PROVE SessionSpec => []FailureIsTrue
BY FailureTold, CommandsProceed, PTL

(* copy keeps its source: fat_write releases what it overwrites only when  *)
(* the clusters suffice for what is to be written, so a file copied to     *)
(* itself is never lost.                                                   *)
THEOREM SourceStays == ASSUME DirectoriesCleared PROVE SessionSpec => []CopyKeepsSource
BY SourceTold, CommandsProceed, PTL

=============================================================================
