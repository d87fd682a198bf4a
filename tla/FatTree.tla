------------------------------ MODULE FatTree ------------------------------
(***************************************************************************)
(* What a volume looks like between two operations of fat.c, read from the *)
(* disk alone: S is what its sectors hold and T is its first table.        *)
(***************************************************************************)
EXTENDS Fat

(***************************************************************************)
(* The tree of directories.  A directory other than the root is a single   *)
(* sector, so its entries have their places before any table is read.      *)
(***************************************************************************)
Home(d, p) == <<d, IF d = 0 THEN p \div EPS ELSE 0>>
Room(d)    == 0 .. (IF d = 0 THEN RootSecs ELSE 1) * EPS - 1

(* The entry at place p of directory d, and the chain it starts. *)
Ent(S, d, p)      == AsSlots(S[Home(d, p)])[(p % EPS) + 1]
Used(S, d)        == {p \in Room(d) : Ent(S, d, p).kind \in {"file", "dir"}}
Chain(S, T, d, p) == ChainOf(T, Ent(S, d, p).first)

(* A directory that no table has to be followed for. *)
Single(T, d) == d = 0 \/ (d \in Cluster /\ SPC = 1 /\ T[d] \in {0, EOC})

Contents == [Sectors -> DataSectors \cup DirSectors]

(***************************************************************************)
(* D is a set of directories that is closed: the entries of its members    *)
(* that name a directory name another one of them, no two entries share a  *)
(* cluster, and every cluster of an entry is taken, except of the entries  *)
(* in X, which are about to be erased.                                     *)
(***************************************************************************)
Directories(S, T, D, X) ==
  /\ 0 \in D
  /\ \A d \in D : /\ Single(T, d)
                  /\ d # 0 /\ T[d] = 0 => \E a \in X : Ent(S, a[1], a[2]).first = d

Entries(S, T, D, X) ==
  \A d \in D : \A p \in Used(S, d) :
    /\ Ent(S, d, p).kind = "dir" => Ent(S, d, p).first \in D \ {0, d}
    /\ Ent(S, d, p).kind = "file" => Chain(S, T, d, p) \cap D = {}
    /\ <<d, p>> \notin X => \A c \in Chain(S, T, d, p) : T[c] # 0

Apart(S, T, D) ==
  \A d, e \in D : \A p \in Used(S, d), q \in Used(S, e) :
    d # e \/ p # q => Chain(S, T, d, p) \cap Chain(S, T, e, q) = {}

Tree(S, T, D, X) ==
  Directories(S, T, D, X) /\ Entries(S, T, D, X) /\ Apart(S, T, D)

(* The chain of c holds so many sectors of the contents tag. *)
Holds(S, T, c, tag, size) ==
  \A k \in 0 .. size - 1 :
    /\ k \div SPC \in 0 .. NC /\ Follow(T, c)[k \div SPC] \in Cluster
    /\ S[<<Follow(T, c)[k \div SPC], k % SPC>>] = [tag |-> tag, k |-> k]

(* The files in these directories hold what was written to them. *)
Intact(S, T, D, X) ==
  \A d \in D : \A p \in Used(S, d) :
    Ent(S, d, p).kind = "file" /\ <<d, p>> \notin X =>
      Holds(S, T, Ent(S, d, p).first, Ent(S, d, p).tag, Ent(S, d, p).size)

DirectorySets == {D \in SUBSET (Cluster \cup {0}) : 0 \in D}
=============================================================================
