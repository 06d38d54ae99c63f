---------------------------- MODULE Fat32Proofs ----------------------------
(***************************************************************************)
(* Theorems about the file system driver: its types, what is true of its   *)
(* tables and chains between operations, and that it saves what it knows.  *)
(*                                                                         *)
(* The invariants the runs check speak of the states between operations.   *)
(* Healthy is what holds in the middle of one too, as long as nothing has  *)
(* gone wrong: it accounts for the clusters write has linked and delete    *)
(* has not yet given back.                                                 *)
(*                                                                         *)
(* Chain is recursive.  A proof can use its equation only where a function *)
(* with that equation exists; the first section shows that one does.       *)
(***************************************************************************)
EXTENDS Fat32, TLAPS, NaturalsInduction, WellFoundedInduction, FiniteSetTheorems

(* A set of natural numbers that is not empty has a least element. It      *)
(* stands for induction: the induction theorems of the library take the    *)
(* predicate as a parameter.                                               *)
LEMMA LeastNat ==
    ASSUME NEW T, T \subseteq Nat, T # {}
    PROVE  \E m \in T : \A n \in T : m <= n
<1> DEFINE R == {ss \in Nat \X Nat : ss[1] < ss[2]}
<1>1. IsWellFoundedOn(R, Nat)
  BY NatLessThanWellFounded, Zenon DEF OpToRel
<1>2. PICK x \in T : \A y \in T : ~(<< y, x >> \in R)
  <2> HIDE DEF R
  <2> QED BY <1>1, WFMin
<1>3. ASSUME NEW y \in T PROVE x <= y
  <2>1. << y, x >> \in Nat \X Nat /\ ~(<< y, x >> \in R)
    BY <1>2
  <2>2. ~(y < x)
    BY <2>1
  <2> QED BY <2>2
<1> QED BY <1>3

(* The recursive function in Chain, its equation, and the paths from which *)
(* at most m more clusters can be appended.                                *)
Follow(map, path) == map[path[Len(path)]]
GoesOn(map, path) == Len(path) < CLUSTER_MAP_SIZE /\ Follow(map, path) \in Clusters \ {0}
IsFrom(g, map) ==
    g = [path \in Seq(Clusters) |->
            IF GoesOn(map, path) THEN g[Append(path, Follow(map, path))] ELSE path]

(* CHOOSE finds a function with the equation of Chain once there is one.   *)
LEMMA ChainFrom ==
    ASSUME NEW map, NEW c, NEW h, IsFrom(h, map)
    PROVE  \E g : IsFrom(g, map) /\ Chain(map, c) = g[<< c >>]
<1> DEFINE f == CHOOSE g : g = [path \in Seq(Clusters) |->
            LET next == map[path[Len(path)]]
            IN  IF Len(path) < CLUSTER_MAP_SIZE /\ next \in Clusters \ {0}
                THEN g[Append(path, next)] ELSE path]
<1>1. Chain(map, c) = f[<< c >>]
  BY Zenon DEF Chain
<1>2. h = [path \in Seq(Clusters) |->
            LET next == map[path[Len(path)]]
            IN  IF Len(path) < CLUSTER_MAP_SIZE /\ next \in Clusters \ {0}
                THEN h[Append(path, next)] ELSE path]
  BY Zenon DEF IsFrom, GoesOn, Follow
<1>3. f = [path \in Seq(Clusters) |->
            LET next == map[path[Len(path)]]
            IN  IF Len(path) < CLUSTER_MAP_SIZE /\ next \in Clusters \ {0}
                THEN f[Append(path, next)] ELSE path]
  BY <1>2, Zenon
<1>4. IsFrom(f, map)
  BY <1>3, Zenon DEF IsFrom, GoesOn, Follow
<1> HIDE DEF f
<1> QED
  BY <1>1, <1>4

Long(m) == {path \in Seq(Clusters) : Len(path) >= CLUSTER_MAP_SIZE - m}
IsPart(h, map, m) ==
    h = [path \in Long(m) |->
            IF GoesOn(map, path) THEN h[Append(path, Follow(map, path))] ELSE path]

(* Functions with that equation, first on the paths that are full, then on *)
(* those that lack one cluster more, in the end on all.                    *)
LEMMA FromBegins == ASSUME NEW map PROVE \E h : IsPart(h, map, 0)
<1> DEFINE h == [path \in Long(0) |-> path]
<1>1. ASSUME NEW path \in Long(0)
      PROVE  ~GoesOn(map, path)
  BY ClustersAssumption DEF Long, GoesOn
<1>2. IsPart(h, map, 0)
  BY <1>1 DEF IsPart
<1> QED
  BY <1>2

LEMMA FromGrows ==
    ASSUME NEW map, NEW m \in Nat, NEW h, IsPart(h, map, m)
    PROVE  \E g : IsPart(g, map, m + 1)
<1> DEFINE g == [path \in Long(m + 1) |->
                    IF GoesOn(map, path) THEN h[Append(path, Follow(map, path))] ELSE path]
<1>1. Long(m) \subseteq Long(m + 1)
  BY ClustersAssumption DEF Long
<1>2. ASSUME NEW path \in Long(m)
      PROVE  g[path] = h[path]
  <2>1. h[path] = IF GoesOn(map, path) THEN h[Append(path, Follow(map, path))] ELSE path
    BY DEF IsPart
  <2> QED
    BY <1>1, <2>1
<1>3. ASSUME NEW path \in Long(m + 1), GoesOn(map, path)
      PROVE  Append(path, Follow(map, path)) \in Long(m)
  BY <1>3, ClustersAssumption DEF Long, GoesOn
<1>4. ASSUME NEW path \in Long(m + 1)
      PROVE  g[path] = IF GoesOn(map, path) THEN g[Append(path, Follow(map, path))] ELSE path
  BY <1>2, <1>3
<1>5. g = [path \in Long(m + 1) |-> g[path]]
  OBVIOUS
<1> HIDE DEF g
<1>6. IsPart(g, map, m + 1)
  BY <1>4, <1>5 DEF IsPart
<1> QED
  BY <1>6

LEMMA FromExists == ASSUME NEW map PROVE \E h : IsFrom(h, map)
<1> DEFINE S == {m \in Nat : ~ \E h : IsPart(h, map, m)}
<1>1. S = {}
  <2> SUFFICES ASSUME S # {} PROVE FALSE
    OBVIOUS
  <2>1. PICK m \in S : \A n \in S : m <= n
    BY LeastNat
  <2>2. m # 0
    BY FromBegins
  <2>3. m - 1 \in Nat /\ m - 1 \notin S
    BY <2>1, <2>2
  <2>4. \E h : IsPart(h, map, (m - 1) + 1)
    BY <2>3, FromGrows
  <2> QED
    BY <2>4
<1>2. \E h : IsPart(h, map, CLUSTER_MAP_SIZE)
  BY <1>1, ClustersAssumption
<1>3. Long(CLUSTER_MAP_SIZE) = Seq(Clusters)
  BY ClustersAssumption DEF Long
<1> QED
  BY <1>2, <1>3 DEF IsPart, IsFrom

(* The clusters for files and folders; and what a chain of n clusters is:  *)
(* it starts at c, is linked by the table, and ends in the end-of-file     *)
(* mark.                                                                   *)
Free == Clusters \ 0 .. ROOT_CLUSTER_NUMBER
IsChain(p, map, c, n) ==
    /\ p \in Seq(Free)
    /\ n \in 1 .. CLUSTER_MAP_SIZE /\ Len(p) = n
    /\ p[1] = c
    /\ \A k \in 1 .. n - 1 : map[p[k]] = p[k + 1]
    /\ map[p[n]] = FAT32_FAT_END_OF_FILE

(* The special values of the table are no clusters.                        *)
LEMMA SpecialValues ==
    /\ FAT32_FAT_END_OF_FILE \notin Clusters /\ FAT32_FAT_END_OF_FILE \in Int
    /\ CLUSTER_0_VALUE \notin Clusters /\ CLUSTER_1_VALUE \notin Clusters
    /\ NOT_FOUND \notin Clusters /\ FAT32_FAT_END_OF_FILE # FAT32_FAT_EMPTY_ENTRY
    /\ FAT32_FAT_EMPTY_ENTRY = 0
  BY SMT, ClustersAssumption, ValuesAssumption
     DEF Clusters, FAT32_FAT_END_OF_FILE, CLUSTER_0_VALUE, CLUSTER_1_VALUE, NOT_FOUND,
         FAT32_FAT_EMPTY_ENTRY

(* Chain follows the table: where p is linked and ends in the end-of-file  *)
(* mark, the result of Chain is p.                                         *)
LEMMA ChainIs ==
    ASSUME NEW map, NEW p, NEW c, NEW n, IsChain(p, map, c, n)
    PROVE  Chain(map, c) = p
<1> DEFINE pre(k) == SubSeq(p, 1, k)
<1>1. PICK g : IsFrom(g, map) /\ Chain(map, c) = g[<< c >>]
  BY FromExists, ChainFrom
<1>2. p \in Seq(Free) /\ n \in Nat /\ n >= 1 /\ n <= CLUSTER_MAP_SIZE /\ Len(p) = n
      /\ \A k \in 1 .. n : p[k] \in Free
  BY DEF IsChain
<1>3. ASSUME NEW k \in 1 .. n
      PROVE  /\ pre(k) \in Seq(Clusters)
             /\ Len(pre(k)) = k
             /\ \A j \in 1 .. k : pre(k)[j] = p[j]
  BY <1>2 DEF Free
<1>4. pre(n) = p
  BY <1>2, <1>3
<1>5. g[p] = p
  <2>1. ~GoesOn(map, p)
    BY <1>2, ClustersAssumption, SpecialValues DEF GoesOn, Follow, IsChain
  <2>2. p \in Seq(Clusters)
    BY <1>2, <1>3, <1>4
  <2> QED
    BY <1>1, <2>1, <2>2 DEF IsFrom
<1>6. ASSUME NEW k \in 1 .. n - 1
      PROVE  g[pre(k)] = g[pre(k + 1)]
  <2>1. k \in 1 .. n /\ k + 1 \in 1 .. n
    BY <1>2
  <2>2. Follow(map, pre(k)) = p[k + 1]
    BY <1>3, <2>1 DEF Follow, IsChain
  <2>3. GoesOn(map, pre(k))
    BY <1>2, <1>3, <2>1, <2>2, ClustersAssumption
       DEF GoesOn, Free, Clusters, ROOT_CLUSTER_NUMBER
  <2>4. Append(pre(k), p[k + 1]) = pre(k + 1)
    BY <1>2, <2>1
  <2>5. pre(k) \in Seq(Clusters) /\ Len(pre(k)) = k
    BY <1>3, <2>1
  <2> HIDE DEF pre
  <2>6. g[pre(k)] = g[Append(pre(k), Follow(map, pre(k)))]
    BY <1>1, <2>1, <2>3, <2>5 DEF IsFrom
  <2> QED
    BY <2>2, <2>4, <2>6
<1>7. \A j \in 0 .. n - 1 : g[pre(n - j)] = p
  <2> DEFINE T == {j \in 0 .. n - 1 : g[pre(n - j)] # p}
  <2> HIDE DEF pre
  <2> SUFFICES ASSUME T # {} PROVE FALSE
    OBVIOUS
  <2>0. T \subseteq Nat
    BY <1>2
  <2>1. PICK m \in T : \A j \in T : m <= j
    <3> HIDE DEF T
    <3> QED
      BY <2>0, LeastNat
  <2>2. m # 0
    BY <1>2, <1>4, <1>5
  <2>3. m - 1 \in 0 .. n - 1 /\ m - 1 \notin T
    BY <1>2, <2>1, <2>2
  <2>4. n - m \in 1 .. n - 1 /\ (n - m) + 1 = n - (m - 1)
    BY <1>2, <2>2
  <2> QED
    BY <1>6, <2>3, <2>4
<1>8. pre(1) = << c >>
  <2>1. pre(1) \in Seq(Clusters) /\ Len(pre(1)) = 1 /\ pre(1)[1] = c
    <3>1. p[1] = c
      BY DEF IsChain
    <3>2. 1 \in 1 .. n
      BY <1>2
    <3>3. pre(1) \in Seq(Clusters) /\ Len(pre(1)) = 1
      BY <1>3, <3>2
    <3>4. pre(1)[1] = p[1]
      BY <1>3, <3>2
    <3> HIDE DEF pre
    <3> QED
      BY <3>1, <3>3, <3>4
  <2> HIDE DEF pre
  <2> QED
    BY <2>1
<1> QED
  <2>1. n - 1 \in 0 .. n - 1 /\ n - (n - 1) = 1
    BY <1>2
  <2> QED
    BY <1>1, <1>7, <1>8, <2>1

-----------------------------------------------------------------------------
(* The slot the operation in progress is about. *)
OpSlot  == << op.parent, op.slot >>
OpEntry == disk[op.parent].entry[op.slot]

PathOf(e) == Chain(fat, EntryAt(e).cluster)

(* The clusters the operation has linked so far, or has still to unlink. *)
OpPath ==
    IF op \in WriteOp
    THEN IF op.pc = "flush" \/ op.i > 0 THEN Chain(fat, OpEntry.cluster) ELSE << >>
    ELSE IF op \in DeleteOp /\ op.pc = "free" THEN Chain(fat, op.idx) ELSE << >>

OpTables == IF op \in WriteOp /\ op.pc = "flush" /\ op.size = 0 THEN {op.idx} ELSE {}

VisibleFolders == {e \in VisibleSlots : EntryAt(e).folder}

SizeOf(e) == IF EntryAt(e).filesize = 0 THEN 1 ELSE EntryAt(e).filesize

(* Every entry in use has a name of its own in its table; the others have  *)
(* the empty name and cluster 0.                                           *)
NamesAreUnique ==
    \A t \in Tables :
        /\ \A s \in Entries :
              IF disk[t].entry[s].used
              THEN disk[t].entry[s].name \in Names \ {NoName}
              ELSE disk[t].entry[s].name = NoName /\ disk[t].entry[s].cluster = 0
        /\ \A r, s \in Entries :
              /\ disk[t].entry[r].used /\ disk[t].entry[s].used
              /\ disk[t].entry[r].name = disk[t].entry[s].name
              => r = s

(* The chain of a visible entry is as long as the entry says, in both      *)
(* tables, and a folder's cluster is a table that leads back.              *)
EntriesAreSound ==
    \A e \in VisibleSlots :
        /\ EntryAt(e).folder <=> EntryAt(e).filesize = 0
        /\ IsChain(PathOf(e), fat, EntryAt(e).cluster, SizeOf(e))
        /\ IsChain(PathOf(e), disk_fat, EntryAt(e).cluster, SizeOf(e))
        /\ EntryAt(e).folder => IsTable(EntryAt(e).cluster)
                                /\ disk[EntryAt(e).cluster].parent = e[1]

(* No cluster is on two chains or twice on one, the chain of the operation *)
(* in progress included.                                                   *)
PathsAreApart ==
    /\ \A d, e \in VisibleSlots : \A j \in DOMAIN PathOf(d), k \in DOMAIN PathOf(e) :
          PathOf(d)[j] = PathOf(e)[k] => d = e /\ j = k
    /\ \A e \in VisibleSlots : \A j \in DOMAIN OpPath, k \in DOMAIN PathOf(e) :
          OpPath[j] # PathOf(e)[k]
    /\ \A j, k \in DOMAIN OpPath : OpPath[j] = OpPath[k] => j = k

(* What is allocated is reserved or on a chain.                            *)
AllocatedIsOwned ==
    /\ \A c \in 0 .. ROOT_CLUSTER_NUMBER : fat[c] # FAT32_FAT_EMPTY_ENTRY
    /\ \A c \in Free : fat[c] # FAT32_FAT_EMPTY_ENTRY =>
          \/ \E k \in DOMAIN OpPath : c = OpPath[k]
          \/ \E e \in VisibleSlots : \E k \in DOMAIN PathOf(e) : c = PathOf(e)[k]

(* The clusters of the root and the visible folders.                       *)
FolderTables == {ROOT_CLUSTER_NUMBER} \cup {EntryAt(e).cluster : e \in VisibleFolders}

(* There are no other tables, but for the one write is making.             *)
TablesAreFolders == Tables = FolderTables \cup OpTables

(* In the middle of write: the entry is made, and the first i clusters     *)
(* hold the first i of the payload and are linked.                         *)
WriteIsSound ==
    op \in WriteOp =>
        /\ op.parent \in FolderTables
        /\ OpEntry.used /\ OpEntry.filesize = op.size
        /\ OpEntry.folder <=> op.size = 0
        /\ OpEntry.cluster \in Free
        /\ op.pc # "flush" /\ op.i = 0 => OpEntry.cluster \in FindEmptySpace(fat)
        /\ op.pc = "flush" \/ op.i > 0 =>
              IsChain(OpPath, fat, OpEntry.cluster, IF op.size = 0 THEN 1 ELSE op.i)
        /\ op.pc = "folder" => op.size = 0 /\ op.i = 0 /\ op.idx = OpEntry.cluster
        /\ op.pc = "data"   => op.idx = IF op.i = 0 THEN NOT_FOUND ELSE OpPath[op.i]
        /\ op.pc = "flush"  => op.i = op.size
        /\ op.size > 0 => \A k \in 1 .. op.i : disk[OpPath[k]] = Block(op.payload, k)
        /\ op.pc = "flush" /\ op.size = 0 =>
              op.idx = OpEntry.cluster /\ disk[op.idx] = NewTable(op.parent)

(* In the middle of delete: what is left of the chain can be followed, and *)
(* the table to write back lacks the entry and nothing else.               *)
DeleteIsSound ==
    op \in DeleteOp =>
        /\ op.parent \in FolderTables
        /\ op.pc \in {"free", "parent"} =>
              /\ OpEntry.used
              /\ op.table = [disk[op.parent] EXCEPT !.entry[op.slot] = DeleteEntry(@)]
        /\ op.pc = "free" => \E n \in 1 .. CLUSTER_MAP_SIZE : IsChain(OpPath, fat, op.idx, n)
        /\ op.pc = "flush" => ~OpEntry.used

(* All of it, as long as nothing went wrong.                               *)
Healthy ==
    /\ op \notin {Lost, NoTable, NoRoot}
    /\ disk[BOOT_SECTOR] = Boot
    /\ op = Idle => disk_fat = fat
    /\ NamesAreUnique
    /\ EntriesAreSound
    /\ PathsAreApart
    /\ AllocatedIsOwned
    /\ TablesAreFolders
    /\ WriteIsSound
    /\ DeleteIsSound

(* What the loops of write say about their counters.                       *)
LocalsAreBounded ==
    op \in WriteOp =>
        /\ op.pc = "data"   => op.i < op.size
        /\ op.pc = "folder" => op.idx \in Clusters

Fat32Inv == Fat32TypeOK /\ LocalsAreBounded /\ (defect = "none" => Healthy)

(* What pc says about the locals.                                          *)
LEMMA OpKinds ==
    ASSUME Fat32TypeOK
    PROVE  /\ op.pc \in {"folder", "data"} => op \in WriteOp
           /\ op.pc \in {"free", "parent"} => op \in DeleteOp
           /\ op.pc = "flush" => op \in WriteOp \cup DeleteOp
           /\ op \in WriteOp \cup DeleteOp =>
                 /\ op \notin {Idle, Lost, NoTable, NoRoot}
                 /\ op.parent \in Clusters /\ op.slot \in Entries
           /\ op \in WriteOp => op \notin DeleteOp
           /\ op \in {Idle, Lost, NoTable, NoRoot} =>
                 /\ op \notin WriteOp \cup DeleteOp
                 /\ op.pc \in {"idle", "lost", "no table", "no root"}
<1>1. ASSUME op \in WriteOp
      PROVE  /\ op.pc \in {"folder", "data", "flush"}
             /\ op.parent \in Clusters /\ op.slot \in Entries
             /\ op \notin DeleteOp
  <2>1. op.pc \in {"folder", "data", "flush"} /\ op.parent \in Clusters /\ op.slot \in Entries
    BY <1>1 DEF WriteOp
  <2>2. DOMAIN op = {"pc", "parent", "slot", "payload", "size", "i", "idx"}
    BY <1>1 DEF WriteOp
  <2>3. op \in DeleteOp => DOMAIN op = {"pc", "parent", "slot", "idx", "table"}
    BY DEF DeleteOp
  <2>4. "table" \notin {"pc", "parent", "slot", "payload", "size", "i", "idx"}
    OBVIOUS
  <2> QED
    BY <2>1, <2>2, <2>3, <2>4
<1>2. ASSUME op \in DeleteOp
      PROVE  /\ op.pc \in {"free", "parent", "flush"}
             /\ op.parent \in Clusters /\ op.slot \in Entries
  BY <1>2 DEF DeleteOp
<1>3. ASSUME op \in {Idle, Lost, NoTable, NoRoot}
      PROVE  op.pc \in {"idle", "lost", "no table", "no root"}
  <2>1. CASE op = Idle
    BY <2>1 DEF Idle
  <2>2. CASE op = Lost
    BY <2>2 DEF Lost
  <2>3. CASE op = NoTable
    BY <2>3 DEF NoTable
  <2>4. CASE op = NoRoot
    BY <2>4 DEF NoRoot
  <2> QED
    BY <1>3, <2>1, <2>2, <2>3, <2>4
<1>4. op \in {Idle, Lost, NoTable, NoRoot} \cup WriteOp \cup DeleteOp
  BY DEF Fat32TypeOK
<1> QED
  BY <1>1, <1>2, <1>3, <1>4

ContentsType == TableType \cup {Zero, Boot} \cup DataType

(* The kind of a cluster's contents tells tables from the rest.            *)
LEMMA KindOfTable ==
    ASSUME NEW x \in ContentsType
    PROVE  /\ x.kind = "table" => x \in TableType
           /\ x \in TableType => x.kind = "table"
           /\ x \in {Zero, Boot} \cup DataType => x.kind # "table"
<1>1. x \in TableType => x.kind = "table"
  BY DEF TableType
<1>2. x \in DataType => x.kind # "table"
  BY DEF DataType
<1>3. Zero.kind # "table" /\ Boot.kind # "table"
  BY DEF Zero, Boot
<1> QED
  BY <1>1, <1>2, <1>3 DEF ContentsType

(* The clusters with names, and the sets of them.                          *)
LEMMA SomeClusters ==
    /\ BOOT_SECTOR \in Clusters /\ ROOT_CLUSTER_NUMBER \in Clusters
    /\ Free \subseteq Clusters /\ Clusters \subseteq Nat /\ Clusters \subseteq FatValues
    /\ 0 \in Clusters /\ 1 \in Clusters
    /\ 0 .. ROOT_CLUSTER_NUMBER \subseteq Clusters
  BY ClustersAssumption DEF BOOT_SECTOR, ROOT_CLUSTER_NUMBER, Clusters, Free, FatValues

(* addEntry, deleteEntry and init_directory_table give entries and tables. *)
LEMMA EntryTypes ==
    /\ EmptyEntry \in EntryType
    /\ \A e \in EntryType, n \in Names, size \in 0 .. MaxSize, c \in Clusters :
          AddEntry(e, n, size, c) \in EntryType
    /\ \A e \in EntryType : DeleteEntry(e) \in EntryType
<1>1. EmptyEntry \in EntryType
  BY SomeClusters, SizesAssumption DEF EmptyEntry, EntryType
<1>2. ASSUME NEW e \in EntryType, NEW n \in Names, NEW size \in 0 .. MaxSize, NEW c \in Clusters
      PROVE  AddEntry(e, n, size, c) \in EntryType
  BY DEF EntryType, AddEntry
<1>3. ASSUME NEW e \in EntryType PROVE DeleteEntry(e) \in EntryType
  BY <1>1 DEF EntryType, DeleteEntry
<1> QED
  BY <1>1, <1>2, <1>3

LEMMA TableTypes ==
    /\ \A parent \in Clusters : NewTable(parent) \in TableType
    /\ \A t \in TableType, s \in Entries, e \in EntryType :
          [t EXCEPT !.entry[s] = e] \in TableType
<1>1. \A parent \in Clusters : NewTable(parent) \in TableType
  BY EntryTypes DEF NewTable, TableType
<1>2. ASSUME NEW t \in TableType, NEW s \in Entries, NEW e \in EntryType
      PROVE  [t EXCEPT !.entry[s] = e] \in TableType
  BY DEF TableType
<1> QED
  BY <1>1, <1>2

LEMMA NewFatType == NewFat \in [Clusters -> FatValues]
  BY SomeClusters DEF NewFat, FatValues, FAT32_FAT_EMPTY_ENTRY

(* Every table is one, with its entries.                                   *)
LEMMA TableAt ==
    ASSUME Fat32TypeOK, NEW t \in Tables
    PROVE  /\ t \in Clusters /\ disk[t] \in TableType
           /\ disk[t].entry \in [Entries -> EntryType]
           /\ \A s \in Entries : disk[t].entry[s] \in EntryType
<1>1. t \in Clusters /\ disk[t] \in ContentsType /\ disk[t].kind = "table"
  BY DEF Tables, IsTable, Fat32TypeOK, ContentsType
<1>2. disk[t] \in TableType
  BY <1>1, KindOfTable
<1> QED
  BY <1>1, <1>2 DEF TableType

TypeInv == Fat32TypeOK /\ LocalsAreBounded

LEMMA DefectType ==
    ASSUME Fat32TypeOK, NEW d \in {"interrupted", "mislabelled", "truncated", "misnamed", "misread"},
           Remember(d) \/ UNCHANGED defect
    PROVE  defect' \in {"none", "interrupted", "mislabelled", "truncated", "misnamed", "misread"}
  BY DEF Fat32TypeOK, Remember

(* write and delete leave their locals in the sets meant for them.         *)
LEMMA WriteTypes ==
    ASSUME TypeInv, NEW parent \in Tables, NEW n \in Names, NEW size \in 0 .. MaxSize,
           NEW p \in Payloads, Write(parent, n, size, p)
    PROVE  TypeInv' /\ op' \in WriteOp
<1>1. PICK s \in FindIdxEmptyEntry(disk[parent]), c \in FindEmptySpace(fat) :
          /\ disk' = [disk EXCEPT ![parent].entry[s] = AddEntry(@, n, size, c)]
          /\ op' = [pc |-> IF size = 0 THEN "folder" ELSE "data",
                    parent |-> parent, slot |-> s, payload |-> p, size |-> size,
                    i |-> 0, idx |-> IF size = 0 THEN c ELSE NOT_FOUND]
          /\ Remember("mislabelled") \/ UNCHANGED defect
  BY DEF Write
<1>2. s \in Entries /\ c \in Clusters /\ c \in FatValues
  BY SomeClusters DEF FindIdxEmptyEntry, FindEmptySpace
<1>3. parent \in Clusters /\ disk[parent] \in TableType /\ disk[parent].entry[s] \in EntryType
  BY <1>2, TableAt DEF TypeInv
<1>4. disk' = [disk EXCEPT ![parent] =
                  [@ EXCEPT !.entry[s] = AddEntry(disk[parent].entry[s], n, size, c)]]
  BY <1>1, <1>3 DEF TypeInv, Fat32TypeOK
<1>5. disk' \in [Clusters -> ContentsType]
  BY <1>2, <1>3, <1>4, EntryTypes, TableTypes DEF TypeInv, Fat32TypeOK, ContentsType
<1>6. op' \in WriteOp
  BY <1>1, <1>2, <1>3, SizesAssumption DEF WriteOp, IdxType
<1>7. LocalsAreBounded'
  BY <1>1, <1>2 DEF LocalsAreBounded
<1>8. defect' \in {"none", "interrupted", "mislabelled", "truncated", "misnamed", "misread"}
  BY <1>1, DefectType DEF TypeInv
<1> QED
  BY <1>5, <1>6, <1>7, <1>8 DEF TypeInv, Fat32TypeOK, ContentsType, Write

LEMMA DeleteTypes ==
    ASSUME TypeInv, NEW parent \in Tables, NEW n \in Names,
           DeleteFolder(parent, n) \/ DeleteFile(parent, n)
    PROVE  TypeInv' /\ op' \in DeleteOp
<1>1. PICK s \in FindEntry(disk[parent], n), pc \in {"free", "parent"} :
          /\ DeleteEntryAt(parent, s, pc)
          /\ \/ UNCHANGED << disk, fat >>
             \/ /\ disk' = [disk EXCEPT ![disk[parent].entry[s].cluster] = Zero]
                /\ fat' = [fat EXCEPT ![disk[parent].entry[s].cluster] = FAT32_FAT_EMPTY_ENTRY]
  BY DEF DeleteFolder, DeleteFile
<1>2. s \in Entries
  BY DEF FindEntry
<1>3. parent \in Clusters /\ disk[parent] \in TableType /\ disk[parent].entry[s] \in EntryType
  BY <1>2, TableAt DEF TypeInv
<1>4. disk[parent].entry[s].cluster \in Clusters
  BY <1>3 DEF EntryType
<1>5. disk' \in [Clusters -> ContentsType]
  BY <1>1, <1>4 DEF TypeInv, Fat32TypeOK, ContentsType
<1>6. fat' \in [Clusters -> FatValues]
  BY <1>1, <1>4, SomeClusters DEF TypeInv, Fat32TypeOK, FAT32_FAT_EMPTY_ENTRY
<1>7. [disk[parent] EXCEPT !.entry[s] = DeleteEntry(@)] \in TableType
  BY <1>2, <1>3, EntryTypes, TableTypes DEF TableType
<1>8. op' \in DeleteOp
  BY <1>1, <1>2, <1>3, <1>4, <1>7, SomeClusters DEF DeleteOp, IdxType, DeleteEntryAt
<1>9. LocalsAreBounded'
  BY <1>1 DEF LocalsAreBounded, DeleteEntryAt
<1>10. defect' \in {"none", "interrupted", "mislabelled", "truncated", "misnamed", "misread"}
  BY <1>1, DefectType DEF TypeInv, DeleteEntryAt
<1> QED
  BY <1>5, <1>6, <1>8, <1>9, <1>10
     DEF TypeInv, Fat32TypeOK, ContentsType, DeleteFolder, DeleteFile

(* Every step keeps the types.                                             *)
LEMMA TypeStep == TypeInv /\ [Next]_vars => TypeInv'
<1> SUFFICES ASSUME TypeInv, [Next]_vars PROVE TypeInv'
  OBVIOUS
<1> USE DEF ContentsType
<1>0. /\ disk \in [Clusters -> ContentsType] /\ disk_fat \in [Clusters -> FatValues]
      /\ fat \in [Clusters -> FatValues]
      /\ FAT32_FAT_EMPTY_ENTRY \in FatValues /\ FAT32_FAT_END_OF_FILE \in FatValues
      /\ Fat32TypeOK /\ LocalsAreBounded
  BY SomeClusters DEF TypeInv, Fat32TypeOK, FatValues, FAT32_FAT_EMPTY_ENTRY
<1>1. CASE \E parent \in Tables, n \in Names, size \in 0 .. MaxSize, p \in Payloads :
              Write(parent, n, size, p)
  BY <1>1, WriteTypes
<1>2. CASE \E parent \in Tables, n \in Names : DeleteFolder(parent, n) \/ DeleteFile(parent, n)
  BY <1>2, DeleteTypes
<1>3. CASE WriteFolder
  <2>1. op \in WriteOp /\ op.pc = "folder"
    BY <1>0, <1>3, OpKinds DEF WriteFolder
  <2>2. op.idx \in Clusters /\ op.parent \in Clusters
    BY <1>0, <2>1 DEF LocalsAreBounded, WriteOp
  <2>3. op' \in WriteOp /\ op'.pc = "flush"
    BY <1>3, <2>1 DEF WriteFolder, WriteOp
  <2> QED
    BY <1>0, <1>3, <2>2, <2>3, TableTypes DEF TypeInv, Fat32TypeOK, LocalsAreBounded, WriteFolder
<1>4. CASE WriteCluster
  <2>1. op \in WriteOp /\ op.pc = "data"
    BY <1>0, <1>4, OpKinds DEF WriteCluster
  <2>2. PICK c \in FindEmptySpace(fat) :
          /\ disk' = [disk EXCEPT ![c] = Block(op.payload, op.i + 1)]
          /\ fat' = [b \in Clusters |-> IF b = c THEN FAT32_FAT_END_OF_FILE
                                        ELSE IF b = op.idx THEN c ELSE fat[b]]
          /\ op' = [op EXCEPT !.idx = c, !.i = @ + 1,
                              !.pc = IF op.i + 1 = op.size THEN "flush" ELSE "data"]
    BY <1>4 DEF WriteCluster
  <2>3. c \in Clusters /\ c \in FatValues
    BY SomeClusters DEF FindEmptySpace
  <2>4. /\ op.i \in 0 .. MaxSize /\ op.size \in 0 .. MaxSize
        /\ op.i < op.size /\ op.payload \in Payloads
    BY <1>0, <2>1 DEF LocalsAreBounded, WriteOp
  <2>5. Block(op.payload, op.i + 1) \in DataType
    BY <2>4, SizesAssumption DEF Block, DataType
  <2>6. op' \in WriteOp
    <3>1. op.i + 1 \in 0 .. MaxSize /\ c \in IdxType
      BY <2>3, <2>4, SizesAssumption DEF IdxType
    <3> QED
      BY <2>1, <2>2, <3>1 DEF WriteOp
  <2>7. LocalsAreBounded'
    BY <2>1, <2>2, <2>4, <2>3, SizesAssumption DEF WriteOp, LocalsAreBounded
  <2>8. disk' \in [Clusters -> ContentsType] /\ fat' \in [Clusters -> FatValues]
    BY <1>0, <2>2, <2>3, <2>5
  <2> QED
    BY <1>0, <1>4, <2>6, <2>7, <2>8 DEF TypeInv, Fat32TypeOK, WriteCluster
<1>5. CASE RunOutOfSpace
  <2>1. op' \notin WriteOp
    BY <1>5 DEF RunOutOfSpace, Idle, WriteOp
  <2> QED
    BY <1>0, <1>5, <2>1, DefectType DEF TypeInv, Fat32TypeOK, RunOutOfSpace, LocalsAreBounded
<1>6. CASE Flush
  <2>1. op' \notin WriteOp
    BY <1>6 DEF Flush, Idle, WriteOp
  <2> QED
    BY <1>0, <1>6, <2>1 DEF TypeInv, Fat32TypeOK, Flush, LocalsAreBounded
<1>7. CASE FreeCluster \/ FreeLastCluster
  <2>1. op \in DeleteOp /\ op.pc = "free" /\ op.idx \in Clusters
    BY <1>0, <1>7, OpKinds DEF FreeCluster, FreeLastCluster
  <2>2. fat[op.idx] \in IdxType
    BY <1>0, <2>1 DEF IdxType
  <2>3. op' \in DeleteOp /\ op'.pc \in {"free", "parent"}
    BY <1>7, <2>1, <2>2 DEF FreeCluster, FreeLastCluster, DeleteOp
  <2>4. disk' \in [Clusters -> ContentsType] /\ fat' \in [Clusters -> FatValues]
    BY <1>0, <1>7, <2>1 DEF FreeCluster, FreeLastCluster
  <2>5. LocalsAreBounded'
    BY <2>3 DEF LocalsAreBounded
  <2> QED
    BY <1>0, <1>7, <2>3, <2>4, <2>5 DEF TypeInv, Fat32TypeOK, FreeCluster, FreeLastCluster
<1>8. CASE FreeOutside
  <2>1. op' \notin WriteOp
    BY <1>8 DEF FreeOutside, Lost, WriteOp
  <2> QED
    BY <1>0, <1>8, <2>1 DEF TypeInv, Fat32TypeOK, FreeOutside, LocalsAreBounded
<1>9. CASE WriteParent
  <2>1. op \in DeleteOp /\ op.pc = "parent"
    BY <1>0, <1>9, OpKinds DEF WriteParent
  <2>2. op.table \in TableType /\ op.parent \in Clusters
    BY <2>1 DEF DeleteOp
  <2>3. op' \in DeleteOp
    BY <1>9, <2>1 DEF WriteParent, DeleteOp
  <2>4. disk' \in [Clusters -> ContentsType]
    BY <1>0, <1>9, <2>2 DEF WriteParent
  <2>5. LocalsAreBounded'
    BY <1>9, <2>1 DEF LocalsAreBounded, WriteParent, DeleteOp
  <2> QED
    BY <1>0, <1>9, <2>3, <2>4, <2>5 DEF TypeInv, Fat32TypeOK, WriteParent
<1>10. CASE FormatTable
  <2>1. op' \notin WriteOp
    BY <1>10 DEF FormatTable, NoRoot, WriteOp
  <2> QED
    BY <1>0, <1>10, <2>1 DEF TypeInv, Fat32TypeOK, FormatTable, LocalsAreBounded
<1>11. CASE FormatRoot
  <2>1. op' \notin WriteOp
    BY <1>11 DEF FormatRoot, Idle, WriteOp
  <2> QED
    BY <1>0, <1>11, <2>1, SomeClusters, TableTypes
       DEF TypeInv, Fat32TypeOK, FormatRoot, LocalsAreBounded
<1>12. CASE Reboot
  <2>1. op' \in {Idle, NoTable} /\ op' \notin WriteOp
    BY <1>12 DEF Reboot, Idle, NoTable, WriteOp
  <2>2. disk' \in [Clusters -> ContentsType] /\ fat' \in [Clusters -> FatValues]
    BY <1>0, <1>12, SomeClusters, NewFatType DEF Reboot
  <2>3. defect' \in {"none", "interrupted", "mislabelled", "truncated", "misnamed", "misread"}
    BY <1>0, <1>12, DefectType DEF Reboot
  <2> QED
    BY <1>0, <1>12, <2>1, <2>2, <2>3 DEF TypeInv, Fat32TypeOK, Reboot, LocalsAreBounded
<1>13. CASE UNCHANGED vars
  BY <1>0, <1>13 DEF TypeInv, Fat32TypeOK, LocalsAreBounded, vars
<1>14. CASE \E parent \in Clusters \ Tables, n \in Names : MisreadParent(parent, n)
  <2>1. /\ op' = Lost /\ Remember("misread")
        /\ disk' = disk /\ disk_fat' = disk_fat /\ fat' = fat
    BY <1>14 DEF MisreadParent
  <2>2. op' \notin WriteOp
    BY <2>1 DEF Lost, WriteOp
  <2> QED
    BY <1>0, <2>1, <2>2, DefectType DEF TypeInv, Fat32TypeOK, LocalsAreBounded
<1> QED
  BY <1>1, <1>2, <1>3, <1>4, <1>5, <1>6, <1>7, <1>8, <1>9, <1>10, <1>11, <1>12, <1>13, <1>14
     DEF Next, DriverStep

LEMMA TypeInit == Init => TypeInv
<1> SUFFICES ASSUME Init PROVE TypeInv
  OBVIOUS
<1>1. disk \in [Clusters -> ContentsType]
  BY SomeClusters, TableTypes DEF Init, ContentsType
<1>2. op \notin WriteOp
  BY DEF Init, Idle, WriteOp
<1> QED
  BY <1>1, <1>2, NewFatType DEF Init, TypeInv, Fat32TypeOK, ContentsType, LocalsAreBounded

(* Type correctness of the driver, in every state it can reach, those      *)
(* after a defect included.                                                *)
THEOREM Fat32TypeCorrect == Spec => []Fat32TypeOK
<1>1. TypeInv => Fat32TypeOK
  BY DEF TypeInv
<1> QED
  BY <1>1, TypeInit, TypeStep, PTL DEF Spec

-----------------------------------------------------------------------------
(* A chain that leads to the end-of-file mark. *)
LEMMA ChainFacts ==
    ASSUME NEW map, NEW p, NEW c, NEW n, IsChain(p, map, c, n)
    PROVE  /\ p \in Seq(Free) /\ Len(p) = n /\ DOMAIN p = 1 .. n
           /\ n \in Nat /\ n >= 1 /\ n <= CLUSTER_MAP_SIZE /\ p # << >>
           /\ p[1] = c /\ c \in Free
           /\ \A k \in 1 .. n : /\ p[k] \in Free
                                /\ map[p[k]] # FAT32_FAT_EMPTY_ENTRY
           /\ map[p[n]] = FAT32_FAT_END_OF_FILE
           /\ \A k \in 1 .. n - 1 : map[p[k]] = p[k + 1]
           /\ Chain(map, c) = p
<1>1. p \in Seq(Free) /\ n \in Nat /\ n >= 1 /\ n <= CLUSTER_MAP_SIZE /\ Len(p) = n
      /\ DOMAIN p = 1 .. n /\ p # << >>
  BY ClustersAssumption DEF IsChain
<1>2. \A k \in 1 .. n : p[k] \in Free
  BY <1>1
<1>3. /\ p[1] = c /\ \A k \in 1 .. n - 1 : map[p[k]] = p[k + 1]
      /\ map[p[n]] = FAT32_FAT_END_OF_FILE
  BY DEF IsChain
<1>4. ASSUME NEW k \in 1 .. n PROVE map[p[k]] # FAT32_FAT_EMPTY_ENTRY
  <2>1. CASE k = n
    BY <1>3, <2>1, SpecialValues
  <2>2. CASE k # n
    <3>1. k \in 1 .. n - 1 /\ k + 1 \in 1 .. n
      BY <1>1, <2>2
    <3>2. map[p[k]] \in Free
      BY <1>2, <1>3, <3>1
    <3> QED
      BY <3>2, SpecialValues DEF Free, ROOT_CLUSTER_NUMBER
  <2> QED
    BY <2>1, <2>2
<1>5. c \in Free
  BY <1>1, <1>2, <1>3
<1> QED
  BY <1>1, <1>2, <1>3, <1>4, <1>5, ChainIs

(* A chain is the same in a table that is the same on it.                  *)
LEMMA ChainKept ==
    ASSUME NEW map, NEW next, NEW p, NEW c, NEW n, IsChain(p, map, c, n),
           \A k \in DOMAIN p : next[p[k]] = map[p[k]]
    PROVE  IsChain(p, next, c, n) /\ Chain(next, c) = p
<1>1. n \in Nat /\ n >= 1 /\ \A k \in 1 .. n : next[p[k]] = map[p[k]]
  BY ChainFacts
<1>2. \A k \in 1 .. n - 1 : next[p[k]] = map[p[k]]
  BY <1>1
<1>3. next[p[n]] = map[p[n]]
  BY <1>1
<1>4. IsChain(p, next, c, n)
  BY <1>2, <1>3 DEF IsChain
<1> QED
  BY <1>4, ChainIs

(* Another element is linked behind the last one. *)
LEMMA ChainExtended ==
    ASSUME NEW map, NEW next, NEW p, NEW c, NEW n, NEW d \in Free, IsChain(p, map, c, n),
           n < CLUSTER_MAP_SIZE,
           \A k \in 1 .. n - 1 : next[p[k]] = map[p[k]],
           next[p[n]] = d, next[d] = FAT32_FAT_END_OF_FILE
    PROVE  IsChain(Append(p, d), next, c, n + 1)
<1> DEFINE q == Append(p, d)
<1>1. q \in Seq(Free) /\ Len(q) = n + 1 /\ q[n + 1] = d /\ \A k \in 1 .. n : q[k] = p[k]
  BY ChainFacts
<1>2. \A k \in 1 .. n : next[q[k]] = q[k + 1]
  BY <1>1, ChainFacts
<1>3. q[1] = c /\ n + 1 \in 1 .. CLUSTER_MAP_SIZE
  BY <1>1, ChainFacts, ClustersAssumption
<1>4. n + 1 - 1 = n
  BY ChainFacts
<1> HIDE DEF q
<1> QED
  BY <1>1, <1>2, <1>3, <1>4 DEF IsChain, q

(* The first element is unlinked. *)
LEMMA ChainShortened ==
    ASSUME NEW map, NEW p, NEW c, NEW n, IsChain(p, map, c, n), n > 1
    PROVE  IsChain(Tail(p), map, p[2], n - 1) /\ map[c] = p[2]
<1> DEFINE q == Tail(p)
<1>1. q \in Seq(Free) /\ Len(q) = n - 1 /\ \A k \in 1 .. n - 1 : q[k] = p[k + 1]
  BY ChainFacts
<1>2. n - 1 \in 1 .. CLUSTER_MAP_SIZE
  BY ChainFacts, ClustersAssumption
<1>3. q[1] = p[2] /\ map[q[n - 1]] = FAT32_FAT_END_OF_FILE
  BY <1>1, ChainFacts
<1>4. \A k \in 1 .. (n - 1) - 1 : map[q[k]] = q[k + 1]
  BY <1>1, ChainFacts
<1>5. map[c] = p[2]
  BY ChainFacts
<1> HIDE DEF q
<1> QED
  BY <1>1, <1>2, <1>3, <1>4, <1>5 DEF IsChain, q

(* A cluster that is the end of its file is a chain.                       *)
LEMMA ChainOfOne ==
    ASSUME NEW map, NEW c \in Free, map[c] = FAT32_FAT_END_OF_FILE
    PROVE  IsChain(<< c >>, map, c, 1)
  BY ClustersAssumption DEF IsChain

(* A path without repetition is no longer than there are clusters. *)
LEMMA PathIsShort ==
    ASSUME NEW p \in Seq(Free), \A j, k \in DOMAIN p : p[j] = p[k] => j = k
    PROVE  Len(p) <= CLUSTER_MAP_SIZE - 3
<1>1. p \in [1 .. Len(p) -> Free] /\ Len(p) \in Nat
  OBVIOUS
<1>2. p \in Injection(1 .. Len(p), Free)
  BY <1>1 DEF Injection, IsInjective
<1>3. Free = 3 .. CLUSTER_MAP_SIZE - 1
  <2>1. CLUSTER_MAP_SIZE \in Nat /\ CLUSTER_MAP_SIZE > 3
    BY ClustersAssumption
  <2>2. Free \subseteq 3 .. CLUSTER_MAP_SIZE - 1
    BY <2>1 DEF Free, Clusters, ROOT_CLUSTER_NUMBER
  <2>3. 3 .. CLUSTER_MAP_SIZE - 1 \subseteq Free
    BY <2>1 DEF Free, Clusters, ROOT_CLUSTER_NUMBER
  <2> QED
    BY <2>2, <2>3, Zenon
<1>4. IsFiniteSet(Free) /\ Cardinality(Free) = CLUSTER_MAP_SIZE - 3
  <2>1. PICK n \in Nat : n = CLUSTER_MAP_SIZE - 1 /\ n >= 3
    BY ClustersAssumption
  <2>2. 3 \in Int /\ n \in Int
    OBVIOUS
  <2>3. IsFiniteSet(3 .. n) /\ Cardinality(3 .. n) = IF 3 > n THEN 0 ELSE n - 3 + 1
    BY <2>2, FS_Interval, Zenon
  <2>4. (IF 3 > n THEN 0 ELSE n - 3 + 1) = CLUSTER_MAP_SIZE - 3
    BY <2>1, ClustersAssumption
  <2> QED
    BY <1>3, <2>1, <2>3, <2>4, Zenon
<1>5. Cardinality(1 .. Len(p)) = Len(p)
  <2>0. Len(p) \in Nat
    BY <1>1
  <2>1. PICK n \in Nat : n = Len(p)
    BY <2>0, Zenon
  <2>2. 1 \in Int /\ n \in Int
    OBVIOUS
  <2>3. Cardinality(1 .. n) = IF 1 > n THEN 0 ELSE n - 1 + 1
    BY <2>2, FS_Interval, Zenon
  <2>4. (IF 1 > n THEN 0 ELSE n - 1 + 1) = n
    OBVIOUS
  <2> QED
    BY <2>1, <2>3, <2>4, Zenon
<1> QED
  BY <1>2, <1>4, <1>5, FS_Injection

-----------------------------------------------------------------------------
Sane == TypeInv /\ Healthy

LEMMA SaneParts ==
    ASSUME Sane
    PROVE  NamesAreUnique /\ PathsAreApart
  BY DEF Sane, Healthy

(* What a slot in use says, and where its chain runs. *)
LEMMA VisibleFacts ==
    ASSUME Sane, NEW e \in VisibleSlots
    PROVE  /\ e = << e[1], e[2] >> /\ e[1] \in Tables /\ e[1] \in Clusters /\ e[2] \in Entries
           /\ disk[e[1]] \in TableType
           /\ EntryAt(e) = disk[e[1]].entry[e[2]] /\ EntryAt(e) \in EntryType
           /\ EntryAt(e).used /\ EntryAt(e).name \in Names \ {NoName}
           /\ EntryAt(e).cluster \in Free
           /\ SizeOf(e) \in Nat /\ SizeOf(e) >= 1
           /\ IsChain(PathOf(e), fat, EntryAt(e).cluster, SizeOf(e))
           /\ IsChain(PathOf(e), disk_fat, EntryAt(e).cluster, SizeOf(e))
           /\ EntryAt(e).folder <=> EntryAt(e).filesize = 0
           /\ EntryAt(e).folder => /\ IsTable(EntryAt(e).cluster)
                                   /\ disk[EntryAt(e).cluster].parent = e[1]
           /\ DOMAIN PathOf(e) = 1 .. SizeOf(e)
           /\ PathOf(e)[1] = EntryAt(e).cluster
           /\ \A k \in DOMAIN PathOf(e) : /\ PathOf(e)[k] \in Free
                                          /\ fat[PathOf(e)[k]] # FAT32_FAT_EMPTY_ENTRY
<1>1. /\ e = << e[1], e[2] >> /\ e[1] \in Tables /\ e[2] \in Entries
      /\ disk[e[1]].entry[e[2]].used
  BY DEF VisibleSlots
<1>2. e[1] \in Clusters /\ disk[e[1]] \in TableType /\ disk[e[1]].entry[e[2]] \in EntryType
  BY <1>1, TableAt DEF Sane, TypeInv
<1>3. EntryAt(e).name \in Names \ {NoName}
  BY <1>1 DEF Sane, Healthy, NamesAreUnique, EntryAt
<1>4. /\ EntryAt(e).folder <=> EntryAt(e).filesize = 0
      /\ IsChain(PathOf(e), fat, EntryAt(e).cluster, SizeOf(e))
      /\ IsChain(PathOf(e), disk_fat, EntryAt(e).cluster, SizeOf(e))
      /\ EntryAt(e).folder => /\ IsTable(EntryAt(e).cluster)
                              /\ disk[EntryAt(e).cluster].parent = e[1]
  BY DEF Sane, Healthy, EntriesAreSound
<1>5. /\ EntryAt(e).cluster \in Free
      /\ SizeOf(e) \in Nat /\ SizeOf(e) >= 1
      /\ DOMAIN PathOf(e) = 1 .. SizeOf(e)
      /\ PathOf(e)[1] = EntryAt(e).cluster
      /\ \A k \in DOMAIN PathOf(e) : /\ PathOf(e)[k] \in Free
                                     /\ fat[PathOf(e)[k]] # FAT32_FAT_EMPTY_ENTRY
  BY <1>4, ChainFacts
<1>6. EntryAt(e) = disk[e[1]].entry[e[2]]
  BY DEF EntryAt
<1>7. EntryAt(e) \in EntryType /\ EntryAt(e).used
  BY <1>1, <1>2, <1>6
<1> QED
  BY <1>1, <1>2, <1>3, <1>4, <1>5, <1>6, <1>7, Zenon

(* A step leaves a slot and what its chain leads to alone. *)
IsKept(e) ==
    /\ e \in VisibleSlots /\ e \in VisibleSlots'
    /\ EntryAt(e)' = EntryAt(e)
    /\ \A k \in DOMAIN PathOf(e) :
          /\ fat'[PathOf(e)[k]] = fat[PathOf(e)[k]]
          /\ EntryAt(e).folder \/ disk'[PathOf(e)[k]] = disk[PathOf(e)[k]]

(* What such a slot stands for is what it stood for.                       *)
LEMMA KeptFacts ==
    ASSUME Sane, NEW e, IsKept(e)
    PROVE  /\ PathOf(e)' = PathOf(e) /\ SizeOf(e)' = SizeOf(e)
           /\ KeyOf(e)' = KeyOf(e) /\ ValueOf(e)' = ValueOf(e)
           /\ IsChain(PathOf(e), fat', EntryAt(e).cluster, SizeOf(e))
<1>1. e \in VisibleSlots /\ EntryAt(e)' = EntryAt(e)
  BY DEF IsKept
<1>2. IsChain(PathOf(e), fat, EntryAt(e).cluster, SizeOf(e))
  BY <1>1, VisibleFacts
<1>3. /\ IsChain(PathOf(e), fat', EntryAt(e).cluster, SizeOf(e))
      /\ Chain(fat', EntryAt(e).cluster) = PathOf(e)
  BY <1>2, ChainKept DEF IsKept
<1>4. PathOf(e)' = PathOf(e) /\ SizeOf(e)' = SizeOf(e) /\ KeyOf(e)' = KeyOf(e)
  BY <1>1, <1>3 DEF PathOf, SizeOf, KeyOf
<1>5. ValueOf(e)' = ValueOf(e)
  <2>1. CASE EntryAt(e).folder
    BY <1>1, <2>1 DEF ValueOf
  <2>2. CASE ~EntryAt(e).folder
    <3> DEFINE path == PathOf(e)
               old  == [k \in 1 .. Len(path) |-> disk[path[k]]]
               new  == [k \in 1 .. Len(path) |-> disk'[path[k]]]
    <3>1. Contents(e) = old
      BY DEF Contents, PathOf
    <3>2. Contents(e)' = new
      BY <1>4 DEF Contents, PathOf
    <3>3. DOMAIN path = 1 .. Len(path)
      BY <1>2, ChainFacts
    <3>4. \A k \in 1 .. Len(path) : disk'[path[k]] = disk[path[k]]
      BY <2>2, <3>3 DEF IsKept
    <3>5. old = new
      BY <3>4
    <3> QED
      BY <1>1, <2>2, <3>1, <3>2, <3>5 DEF ValueOf
  <2> QED
    BY <2>1, <2>2
<1> QED
  BY <1>3, <1>4, <1>5

(* Between names and slots of the tables in use. *)
LEMMA UniqueSlots ==
    ASSUME NamesAreUnique, NEW d \in VisibleSlots, NEW e \in VisibleSlots, KeyOf(d) = KeyOf(e)
    PROVE  d = e
<1>1. /\ d = << d[1], d[2] >> /\ d[1] \in Tables /\ d[2] \in Entries /\ EntryAt(d).used
      /\ e = << e[1], e[2] >> /\ e[1] \in Tables /\ e[2] \in Entries /\ EntryAt(e).used
  BY DEF VisibleSlots, EntryAt
<1>2. d[1] = e[1] /\ EntryAt(d).name = EntryAt(e).name
  BY DEF KeyOf
<1> QED
  BY <1>1, <1>2 DEF NamesAreUnique, EntryAt

(* A cluster the search for a free one finds is on no chain and no table. *)
LEMMA FreshCluster ==
    ASSUME Sane, NEW c \in FindEmptySpace(fat)
    PROVE  /\ c \in Free /\ fat[c] = FAT32_FAT_EMPTY_ENTRY
           /\ c \notin FolderTables
           /\ \A e \in VisibleSlots : \A k \in DOMAIN PathOf(e) : PathOf(e)[k] # c
<1>1. c \in Clusters /\ fat[c] = FAT32_FAT_EMPTY_ENTRY
  BY DEF FindEmptySpace
<1>2. c \in Free
  BY <1>1 DEF Sane, Healthy, AllocatedIsOwned, Free
<1>3. \A e \in VisibleSlots : \A k \in DOMAIN PathOf(e) : PathOf(e)[k] # c
  BY <1>1, VisibleFacts
<1>4. c # ROOT_CLUSTER_NUMBER
  BY <1>2 DEF Free, ROOT_CLUSTER_NUMBER
<1>5. ASSUME NEW e \in VisibleFolders, EntryAt(e).cluster = c PROVE FALSE
  <2>1. e \in VisibleSlots /\ 1 \in DOMAIN PathOf(e) /\ PathOf(e)[1] = c
    BY <1>5, VisibleFacts DEF VisibleFolders
  <2> QED
    BY <1>3, <2>1
<1> QED
  BY <1>1, <1>2, <1>3, <1>4, <1>5 DEF FolderTables

(* A table other than that of the operation is that of the root or of a    *)
(* folder in use: it is on no other chain.                                 *)
LEMMA FilesAreNoTables ==
    ASSUME Sane, NEW e \in VisibleSlots, ~EntryAt(e).folder, NEW k \in DOMAIN PathOf(e)
    PROVE  PathOf(e)[k] \notin FolderTables
<1>1. PathOf(e)[k] # ROOT_CLUSTER_NUMBER
  BY VisibleFacts DEF Free, ROOT_CLUSTER_NUMBER
<1>2. ASSUME NEW d \in VisibleFolders, EntryAt(d).cluster = PathOf(e)[k]
      PROVE  FALSE
  <2>1. d \in VisibleSlots /\ EntryAt(d).folder /\ 1 \in DOMAIN PathOf(d)
        /\ PathOf(d)[1] = EntryAt(d).cluster
    BY VisibleFacts DEF VisibleFolders
  <2>2. d = e
    BY <1>2, <2>1, SaneParts DEF PathsAreApart
  <2> QED
    BY <2>1, <2>2
<1> QED
  BY <1>1, <1>2 DEF FolderTables

(* The slot of the operation in progress is the one that is hidden.        *)
LEMMA OpVisible ==
    Fat32TypeOK =>
        /\ op \in WriteOp \cup DeleteOp => VisibleSlots = UsedSlots \ {OpSlot}
        /\ op \in {Idle, Lost, NoTable, NoRoot} => VisibleSlots = UsedSlots
  BY OpKinds DEF VisibleSlots, UsedSlots, EntryAt, OpSlot

LEMMA OpVisibleNext ==
    Fat32TypeOK' =>
        /\ op' \in WriteOp \cup DeleteOp => VisibleSlots' = UsedSlots' \ {OpSlot'}
        /\ op' \in {Idle, Lost, NoTable, NoRoot} => VisibleSlots' = UsedSlots'
<1>1. (Fat32TypeOK =>
        /\ op \in WriteOp \cup DeleteOp => VisibleSlots = UsedSlots \ {OpSlot}
        /\ op \in {Idle, Lost, NoTable, NoRoot} => VisibleSlots = UsedSlots)'
  BY OpVisible, PTL
<1> QED
  BY <1>1

(* The operation in progress in the next state.                            *)
LEMMA OpKindsNow ==
    Fat32TypeOK =>
        /\ op.pc \in {"folder", "data"} => op \in WriteOp
        /\ op.pc \in {"free", "parent"} => op \in DeleteOp
        /\ op.pc = "flush" => op \in WriteOp \cup DeleteOp
        /\ op \in WriteOp \cup DeleteOp => op \notin {Idle, Lost, NoTable, NoRoot}
        /\ op \in WriteOp => op \notin DeleteOp
        /\ op \in {Idle, Lost, NoTable, NoRoot} => op \notin WriteOp \cup DeleteOp
  BY OpKinds

LEMMA OpKindsNext ==
    Fat32TypeOK' =>
        /\ op'.pc \in {"folder", "data"} => op' \in WriteOp
        /\ op'.pc \in {"free", "parent"} => op' \in DeleteOp
        /\ op'.pc = "flush" => op' \in WriteOp \cup DeleteOp
        /\ op' \in WriteOp \cup DeleteOp => op' \notin {Idle, Lost, NoTable, NoRoot}
        /\ op' \in WriteOp => op' \notin DeleteOp
        /\ op' \in {Idle, Lost, NoTable, NoRoot} => op' \notin WriteOp \cup DeleteOp
<1>1. (Fat32TypeOK =>
        /\ op.pc \in {"folder", "data"} => op \in WriteOp
        /\ op.pc \in {"free", "parent"} => op \in DeleteOp
        /\ op.pc = "flush" => op \in WriteOp \cup DeleteOp
        /\ op \in WriteOp \cup DeleteOp => op \notin {Idle, Lost, NoTable, NoRoot}
        /\ op \in WriteOp => op \notin DeleteOp
        /\ op \in {Idle, Lost, NoTable, NoRoot} => op \notin WriteOp \cup DeleteOp)'
  BY OpKindsNow, PTL
<1> QED
  BY <1>1

(* What the entries say of the slots a step keeps stays true. *)
LEMMA KeptEntries ==
    ASSUME Sane, VisibleSlots' \subseteq VisibleSlots,
           \A e \in VisibleSlots' : IsKept(e),
           \A e \in VisibleSlots' : \A k \in DOMAIN PathOf(e) :
               disk_fat'[PathOf(e)[k]] = disk_fat[PathOf(e)[k]],
           \A e \in VisibleSlots' : EntryAt(e).folder =>
               /\ disk'[EntryAt(e).cluster].kind = "table"
               /\ disk'[EntryAt(e).cluster].parent = disk[EntryAt(e).cluster].parent
    PROVE  /\ EntriesAreSound'
           /\ \A e \in VisibleSlots' : PathOf(e)' = PathOf(e) /\ EntryAt(e)' = EntryAt(e)
           /\ (VisibleSlots' = VisibleSlots => FolderTables' = FolderTables)
<1>1. ASSUME NEW e \in VisibleSlots'
      PROVE  /\ e \in VisibleSlots
             /\ PathOf(e)' = PathOf(e) /\ EntryAt(e)' = EntryAt(e) /\ SizeOf(e)' = SizeOf(e)
             /\ IsChain(PathOf(e), fat', EntryAt(e).cluster, SizeOf(e))
             /\ IsChain(PathOf(e), disk_fat', EntryAt(e).cluster, SizeOf(e))
  <2>1. e \in VisibleSlots /\ IsKept(e)
    OBVIOUS
  <2>2. IsChain(PathOf(e), disk_fat, EntryAt(e).cluster, SizeOf(e))
    BY <2>1, VisibleFacts
  <2>3. IsChain(PathOf(e), disk_fat', EntryAt(e).cluster, SizeOf(e))
    BY <2>2, ChainKept
  <2> QED
    BY <2>1, <2>3, KeptFacts DEF IsKept
<1>2. ASSUME NEW e \in VisibleSlots'
      PROVE  (/\ EntryAt(e).folder <=> EntryAt(e).filesize = 0
              /\ IsChain(PathOf(e), fat, EntryAt(e).cluster, SizeOf(e))
              /\ IsChain(PathOf(e), disk_fat, EntryAt(e).cluster, SizeOf(e))
              /\ EntryAt(e).folder => IsTable(EntryAt(e).cluster)
                                      /\ disk[EntryAt(e).cluster].parent = e[1])'
  <2>1. EntryAt(e).folder => IsTable(EntryAt(e).cluster)'
    BY <1>1 DEF IsTable
  <2> QED
    BY <1>1, <2>1, VisibleFacts
<1>3. EntriesAreSound'
  BY <1>2 DEF EntriesAreSound
<1>4. ASSUME VisibleSlots' = VisibleSlots PROVE FolderTables' = FolderTables
  <2>1. \A e \in VisibleSlots : EntryAt(e)' = EntryAt(e)
    BY <1>1, <1>4
  <2>2. VisibleFolders' = VisibleFolders
    BY <1>4, <2>1 DEF VisibleFolders
  <2>3. \A e \in VisibleFolders : EntryAt(e)' = EntryAt(e)
    BY <2>1 DEF VisibleFolders
  <2> QED
    BY <2>2, <2>3 DEF FolderTables
<1> QED
  BY <1>1, <1>3, <1>4

(* The first write of write: it takes a slot and leaves the others alone.  *)
LEMMA WriteEffect ==
    ASSUME Sane, NEW parent \in Tables, NEW n \in Names, NEW size \in 0 .. MaxSize,
           NEW p \in Payloads, Write(parent, n, size, p)
    PROVE  \E s \in Entries, c \in FindEmptySpace(fat) :
              /\ ~disk[parent].entry[s].used
              /\ op' = [pc |-> IF size = 0 THEN "folder" ELSE "data",
                        parent |-> parent, slot |-> s, payload |-> p, size |-> size,
                        i |-> 0, idx |-> IF size = 0 THEN c ELSE NOT_FOUND]
              /\ disk'[parent].entry[s] = AddEntry(disk[parent].entry[s], n, size, c)
              /\ \A t \in Tables : disk'[t].parent = disk[t].parent
              /\ \A b \in Clusters \ {parent} : disk'[b] = disk[b]
              /\ Tables' = Tables /\ VisibleSlots' = VisibleSlots
              /\ \A e \in VisibleSlots : IsKept(e)
              /\ NamesAreUnique'
              /\ defect' = "none" /\ size # 0 =>
                    ~AddEntry(disk[parent].entry[s], n, size, c).folder
<1>1. PICK s \in FindIdxEmptyEntry(disk[parent]), c \in FindEmptySpace(fat) :
          /\ disk' = [disk EXCEPT ![parent].entry[s] = AddEntry(@, n, size, c)]
          /\ op' = [pc |-> IF size = 0 THEN "folder" ELSE "data",
                    parent |-> parent, slot |-> s, payload |-> p, size |-> size,
                    i |-> 0, idx |-> IF size = 0 THEN c ELSE NOT_FOUND]
          /\ IF size # 0 /\ AddEntry(disk[parent].entry[s], n, size, c).folder
             THEN Remember("mislabelled") ELSE UNCHANGED defect
  BY DEF Write
<1>2. s \in Entries /\ ~disk[parent].entry[s].used
  BY DEF FindIdxEmptyEntry
<1>3. /\ op = Idle /\ fat' = fat /\ parent \in Clusters /\ disk[parent] \in TableType
      /\ disk \in [Clusters -> ContentsType] /\ FindEntry(disk[parent], n) = {}
  BY TableAt DEF Write, Sane, TypeInv, Fat32TypeOK, ContentsType
<1> DEFINE new == AddEntry(disk[parent].entry[s], n, size, c)
<1>4. /\ disk' = [disk EXCEPT ![parent] = disk'[parent]]
      /\ disk'[parent] = [disk[parent] EXCEPT !.entry[s] = new]
  BY <1>1, <1>3
<1>5. /\ disk'[parent].kind = "table" /\ disk'[parent].parent = disk[parent].parent
      /\ disk'[parent].entry = [disk[parent].entry EXCEPT ![s] = new]
  BY <1>3, <1>4 DEF TableType
<1>6. Tables' = Tables
  BY <1>3, <1>4, <1>5 DEF Tables, IsTable
<1>7. \A b \in Clusters \ {parent} : disk'[b] = disk[b]
  BY <1>3, <1>4
<1>8. ASSUME NEW t \in Tables, NEW r \in Entries
      PROVE  disk'[t].entry[r] = IF t = parent /\ r = s THEN new ELSE disk[t].entry[r]
  <2>1. disk[t].entry \in [Entries -> EntryType] /\ t \in Clusters
    BY TableAt DEF Sane, TypeInv
  <2> QED
    BY <1>2, <1>5, <1>7, <2>1
<1>9. new.used /\ new.name = n
  BY DEF AddEntry
<1>10. UsedSlots = VisibleSlots
  BY <1>3, OpVisible DEF Sane, TypeInv
<1>11. UsedSlots' = UsedSlots \cup {<< parent, s >>}
  <2>1. \A e \in Tables \X Entries : EntryAt(e)'.used <=> EntryAt(e).used \/ e = << parent, s >>
    BY <1>2, <1>8, <1>9 DEF EntryAt
  <2> QED
    BY <1>2, <1>6, <2>1 DEF UsedSlots
<1>12. VisibleSlots' = VisibleSlots
  <2>1. Fat32TypeOK' /\ op' \in WriteOp
    BY WriteTypes DEF Sane, TypeInv
  <2>2. OpSlot' = << parent, s >>
    BY <1>1 DEF OpSlot
  <2>3. << parent, s >> \notin UsedSlots
    BY <1>2 DEF UsedSlots, EntryAt
  <2> QED
    BY <1>10, <1>11, <2>1, <2>2, <2>3, OpVisibleNext
<1>13. ASSUME NEW e \in VisibleSlots
       PROVE  IsKept(e)
  <2>1. e \in Tables \X Entries /\ e # << parent, s >>
    BY <1>2 DEF VisibleSlots
  <2>2. EntryAt(e)' = EntryAt(e)
    BY <1>8, <2>1 DEF EntryAt
  <2>3. ASSUME NEW k \in DOMAIN PathOf(e), ~EntryAt(e).folder
        PROVE  disk'[PathOf(e)[k]] = disk[PathOf(e)[k]]
    <3>1. PathOf(e)[k] \in Free /\ PathOf(e)[k] \notin FolderTables
      BY <2>3, VisibleFacts, FilesAreNoTables
    <3>2. parent \in FolderTables
      BY <1>3, OpKinds DEF Sane, TypeInv, Healthy, TablesAreFolders, OpTables
    <3> QED
      BY <1>7, <3>1, <3>2, SomeClusters
  <2> QED
    BY <1>3, <1>12, <2>2, <2>3 DEF IsKept
<1>14. NamesAreUnique'
  <2>1. \A r \in Entries : disk[parent].entry[r].name # n
    <3> DEFINE S == {r \in Entries : disk[parent].entry[r].name = n}
    <3> SUFFICES ASSUME S # {} PROVE FALSE
      OBVIOUS
    <3>1. S \subseteq Nat
      BY EntriesAssumption
    <3>2. PICK r \in S : \A q \in S : r <= q
      <4> HIDE DEF S
      <4> QED
        BY <3>1, LeastNat
    <3>3. r \in FindEntry(disk[parent], n)
      BY <3>1, <3>2 DEF FindEntry
    <3> QED
      BY <1>3, <3>3
  <2>2. n # NoName
    BY <1>2, <2>1, SaneParts DEF NamesAreUnique
  <2>3. ASSUME NEW t \in Tables, NEW r \in Entries
        PROVE  IF disk'[t].entry[r].used
               THEN disk'[t].entry[r].name \in Names \ {NoName}
               ELSE disk'[t].entry[r].name = NoName /\ disk'[t].entry[r].cluster = 0
    BY <1>8, <1>9, <2>2, SaneParts DEF NamesAreUnique
  <2>4. ASSUME NEW t \in Tables, NEW q \in Entries, NEW r \in Entries,
               disk'[t].entry[r].used, disk'[t].entry[q].used,
               disk'[t].entry[r].name = disk'[t].entry[q].name
        PROVE  r = q
    BY <1>8, <1>9, <2>1, <2>4, SaneParts DEF NamesAreUnique
  <2> QED
    BY <1>6, <2>3, <2>4 DEF NamesAreUnique
<1>15. \A t \in Tables : disk'[t].parent = disk[t].parent
  BY <1>5, <1>7, TableAt DEF Sane, TypeInv
<1>16. disk'[parent].entry[s] = new
  BY <1>2, <1>8
<1>17. defect' = "none" /\ size # 0 => ~new.folder
  BY <1>1 DEF Remember
<1> QED
  BY <1>1, <1>2, <1>6, <1>7, <1>12, <1>13, <1>14, <1>15, <1>16, <1>17

(* Nothing is allocated or freed, and the operation has nothing linked. *)
LEMMA KeptPaths ==
    ASSUME Sane, VisibleSlots' \subseteq VisibleSlots,
           \A e \in VisibleSlots' : PathOf(e)' = PathOf(e),
           \/ OpPath' = OpPath
           \/ OpPath' = << >>
    PROVE  PathsAreApart'
<1>1. /\ \A j, k \in DOMAIN OpPath' : OpPath'[j] = OpPath'[k] => j = k
      /\ \A e \in VisibleSlots' : \A j \in DOMAIN OpPath', k \in DOMAIN PathOf(e) :
             OpPath'[j] # PathOf(e)[k]
  <2>1. CASE OpPath' = OpPath
    BY <2>1, SaneParts DEF PathsAreApart
  <2>2. CASE OpPath' = << >>
    BY <2>2
  <2> QED
    BY <2>1, <2>2
<1>2. \A d, e \in VisibleSlots' : \A j \in DOMAIN PathOf(d), k \in DOMAIN PathOf(e) :
          PathOf(d)[j] = PathOf(e)[k] => d = e /\ j = k
  BY SaneParts DEF PathsAreApart
<1>3. (\A d, e \in VisibleSlots : \A j \in DOMAIN PathOf(d), k \in DOMAIN PathOf(e) :
          PathOf(d)[j] = PathOf(e)[k] => d = e /\ j = k)'
  BY <1>2
<1>4. (\A e \in VisibleSlots : \A j \in DOMAIN OpPath, k \in DOMAIN PathOf(e) :
          OpPath[j] # PathOf(e)[k])'
  BY <1>1
<1> QED
  BY <1>1, <1>3, <1>4 DEF PathsAreApart

(* It keeps the invariant, unless the file is taken for a folder.          *)
LEMMA WriteHealthy ==
    ASSUME Sane, NEW parent \in Tables, NEW n \in Names, NEW size \in 0 .. MaxSize,
           NEW p \in Payloads, Write(parent, n, size, p), defect' = "none"
    PROVE  Healthy'
<1>1. PICK s \in Entries, c \in FindEmptySpace(fat) :
              /\ ~disk[parent].entry[s].used
              /\ op' = [pc |-> IF size = 0 THEN "folder" ELSE "data",
                        parent |-> parent, slot |-> s, payload |-> p, size |-> size,
                        i |-> 0, idx |-> IF size = 0 THEN c ELSE NOT_FOUND]
              /\ disk'[parent].entry[s] = AddEntry(disk[parent].entry[s], n, size, c)
              /\ \A t \in Tables : disk'[t].parent = disk[t].parent
              /\ \A b \in Clusters \ {parent} : disk'[b] = disk[b]
              /\ Tables' = Tables /\ VisibleSlots' = VisibleSlots
              /\ \A e \in VisibleSlots : IsKept(e)
              /\ NamesAreUnique'
              /\ defect' = "none" /\ size # 0 =>
                    ~AddEntry(disk[parent].entry[s], n, size, c).folder
  BY WriteEffect
<1>2. /\ op = Idle /\ fat' = fat /\ disk_fat' = disk_fat /\ op \notin WriteOp \cup DeleteOp
      /\ parent \in Clusters
  BY OpKinds, TableAt DEF Write, Sane, TypeInv
<1>3. Fat32TypeOK' /\ op' \in WriteOp
  BY WriteTypes DEF Sane, TypeInv
<1>4. op' \notin DeleteOp /\ op' \notin {Idle, Lost, NoTable, NoRoot}
  BY <1>3, OpKindsNext
<1>5. OpPath = << >> /\ OpTables = {} /\ OpPath' = << >> /\ OpTables' = {}
  <2>1. OpPath = << >> /\ OpTables = {}
    BY <1>2 DEF OpPath, OpTables
  <2>2. OpPath' = << >>
    BY <1>1, <1>4 DEF OpPath
  <2>3. OpTables' = {}
    BY <1>1, <1>4 DEF OpTables
  <2> QED
    BY <2>1, <2>2, <2>3
<1>6. disk'[BOOT_SECTOR] = Boot
  <2>1. parent # BOOT_SECTOR
    BY TableAt DEF Sane, Healthy, TypeInv, Tables, IsTable, Boot
  <2> QED
    BY <1>1, <2>1, SomeClusters DEF Sane, Healthy
<1>7. /\ EntriesAreSound' /\ FolderTables' = FolderTables
      /\ \A e \in VisibleSlots' : PathOf(e)' = PathOf(e)
  <2>1. ASSUME NEW e \in VisibleSlots', EntryAt(e).folder
        PROVE  /\ disk'[EntryAt(e).cluster].kind = "table"
               /\ disk'[EntryAt(e).cluster].parent = disk[EntryAt(e).cluster].parent
    <3>1. EntryAt(e).cluster \in Tables
      BY <1>1, <2>1, VisibleFacts, SomeClusters DEF Tables
    <3> QED
      BY <1>1, <3>1 DEF Tables, IsTable
  <2> QED
    BY <1>1, <1>2, <2>1, KeptEntries
<1>8. PathsAreApart'
  BY <1>1, <1>5, <1>7, KeptPaths
<1>9. AllocatedIsOwned'
  <2>1. AllocatedIsOwned
    BY DEF Sane, Healthy
  <2> QED
    BY <1>1, <1>2, <1>5, <1>7, <2>1 DEF AllocatedIsOwned
<1>10. TablesAreFolders'
  BY <1>1, <1>5, <1>7 DEF Sane, Healthy, TablesAreFolders
<1>11. WriteIsSound'
  <2> DEFINE new == AddEntry(disk[parent].entry[s], n, size, c)
  <2>1. OpEntry' = new
    BY <1>1 DEF OpEntry
  <2>2. parent \in FolderTables
    BY <1>5 DEF Sane, Healthy, TablesAreFolders
  <2>5. /\ new.used /\ new.filesize = size /\ new.cluster = c
        /\ new.folder <=> size = 0
    BY <1>1 DEF AddEntry
  <2>4. c \in Free /\ c \in FindEmptySpace(fat)'
    BY <1>2, FreshCluster DEF FindEmptySpace
  <2>6. /\ op'.pc = IF size = 0 THEN "folder" ELSE "data"
        /\ op'.parent = parent /\ op'.slot = s /\ op'.size = size /\ op'.i = 0
        /\ op'.idx = IF size = 0 THEN c ELSE NOT_FOUND
    BY <1>1
  <2> HIDE DEF new
  <2>7. op' \in WriteOp =>
        /\ op'.parent \in FolderTables'
        /\ OpEntry'.used /\ OpEntry'.filesize = op'.size
        /\ OpEntry'.folder <=> op'.size = 0
        /\ OpEntry'.cluster \in Free
        /\ op'.pc # "flush" /\ op'.i = 0 => OpEntry'.cluster \in FindEmptySpace(fat)'
        /\ op'.pc = "flush" \/ op'.i > 0 =>
              IsChain(OpPath', fat', OpEntry'.cluster, IF op'.size = 0 THEN 1 ELSE op'.i)
        /\ op'.pc = "folder" => op'.size = 0 /\ op'.i = 0 /\ op'.idx = OpEntry'.cluster
        /\ op'.pc = "data"   => op'.idx = IF op'.i = 0 THEN NOT_FOUND ELSE OpPath'[op'.i]
        /\ op'.pc = "flush"  => op'.i = op'.size
        /\ op'.size > 0 => \A k \in 1 .. op'.i : disk'[OpPath'[k]] = Block(op'.payload, k)
        /\ op'.pc = "flush" /\ op'.size = 0 =>
              op'.idx = OpEntry'.cluster /\ disk'[op'.idx] = NewTable(op'.parent)
    BY <1>5, <1>7, <2>1, <2>2, <2>4, <2>5, <2>6
  <2> QED
    BY <2>7 DEF WriteIsSound
<1>12. DeleteIsSound'
  BY <1>4 DEF DeleteIsSound
<1> QED
  BY <1>1, <1>4, <1>6, <1>7, <1>8, <1>9, <1>10, <1>11, <1>12 DEF Healthy

-----------------------------------------------------------------------------

(* The slot the operation in progress is about.                            *)
LEMMA OpFacts ==
    ASSUME Sane, op \in WriteOp \cup DeleteOp
    PROVE  /\ op.parent \in FolderTables /\ op.parent \in Tables /\ op.parent \in Clusters
           /\ op.slot \in Entries
           /\ disk[op.parent] \in TableType /\ OpEntry \in EntryType
           /\ VisibleSlots = UsedSlots \ {OpSlot}
           /\ OpEntry = EntryAt(OpSlot)
<1>1. op.parent \in FolderTables
  BY DEF Sane, Healthy, WriteIsSound, DeleteIsSound
<1>2. op.parent \in Tables
  BY <1>1 DEF Sane, Healthy, TablesAreFolders
<1>3. op.parent \in Clusters /\ op.slot \in Entries
  BY OpKinds DEF Sane, TypeInv
<1>4. disk[op.parent] \in TableType /\ OpEntry \in EntryType
  BY <1>2, <1>3, TableAt DEF OpEntry, Sane, TypeInv
<1>5. VisibleSlots = UsedSlots \ {OpSlot}
  BY OpVisible DEF Sane, TypeInv
<1> QED
  BY <1>1, <1>2, <1>3, <1>4, <1>5 DEF OpEntry, EntryAt, OpSlot

(* The step of write that makes the table of a folder.                     *)
LEMMA WriteFolderStep ==
    ASSUME Sane, WriteFolder
    PROVE  /\ Healthy'
           /\ VisibleSlots' = VisibleSlots /\ \A e \in VisibleSlots : IsKept(e)
<1> DEFINE c == op.idx
<1>1. /\ op \in WriteOp /\ op.pc = "folder" /\ op \notin DeleteOp
      /\ disk' = [disk EXCEPT ![c] = NewTable(op.parent)]
      /\ fat' = [fat EXCEPT ![c] = FAT32_FAT_END_OF_FILE]
      /\ op' = [op EXCEPT !.pc = "flush"]
      /\ disk_fat' = disk_fat /\ defect' = defect
  BY OpKinds DEF WriteFolder, Sane, TypeInv
<1>2. TypeInv'
  <2>1. [Next]_vars
    BY DEF Next, DriverStep
  <2> QED
    BY <2>1, TypeStep DEF Sane
<1>3. /\ op' \in WriteOp /\ op'.pc = "flush" /\ op'.parent = op.parent /\ op'.slot = op.slot
      /\ op'.idx = c /\ op'.size = op.size /\ op'.i = op.i /\ op' \notin DeleteOp
      /\ op' \notin {Idle, Lost, NoTable, NoRoot}
  <2>1. /\ op' \in WriteOp /\ op'.pc = "flush" /\ op'.parent = op.parent /\ op'.slot = op.slot
        /\ op'.idx = c /\ op'.size = op.size /\ op'.i = op.i
    BY <1>1 DEF WriteOp
  <2> QED
    BY <1>2, <2>1, OpKindsNext DEF TypeInv
<1>4. OpPath = << >> /\ OpTables = {}
  <2>1. op.i = 0
    BY <1>1 DEF Sane, Healthy, WriteIsSound
  <2> QED
    BY <1>1, <2>1 DEF OpPath, OpTables
<1>5. /\ op.size = 0 /\ op.i = 0 /\ c = OpEntry.cluster /\ c \in FindEmptySpace(fat)
      /\ OpEntry.used /\ OpEntry.filesize = 0 /\ OpEntry.folder
  BY <1>1, <1>4 DEF Sane, Healthy, WriteIsSound
<1>6. /\ c \in Free /\ c \in Clusters /\ fat[c] = FAT32_FAT_EMPTY_ENTRY /\ c \notin FolderTables
      /\ \A e \in VisibleSlots : \A k \in DOMAIN PathOf(e) : PathOf(e)[k] # c
  BY <1>5, FreshCluster, SomeClusters
<1>7. c \notin Tables /\ op.parent # c /\ op.parent \in Clusters /\ op.parent \in FolderTables
  BY <1>1, <1>4, <1>6, OpFacts DEF Sane, Healthy, TablesAreFolders
<1>8. /\ disk'[c] = NewTable(op.parent) /\ \A b \in Clusters \ {c} : disk'[b] = disk[b]
      /\ fat'[c] = FAT32_FAT_END_OF_FILE /\ \A b \in Clusters \ {c} : fat'[b] = fat[b]
  BY <1>1, <1>6 DEF Sane, TypeInv, Fat32TypeOK
<1>9. Tables' = Tables \cup {c}
  <2>1. disk'[c].kind = "table"
    BY <1>8 DEF NewTable
  <2> QED
    BY <1>6, <1>8, <2>1 DEF Tables, IsTable
<1>10. \A s \in Entries : disk'[c].entry[s] = EmptyEntry
  BY <1>8 DEF NewTable
<1>11. OpEntry' = OpEntry /\ OpSlot' = OpSlot
  BY <1>3, <1>7, <1>8 DEF OpEntry, OpSlot
<1>12. UsedSlots' = UsedSlots
  <2>1. \A e \in Tables \X Entries : EntryAt(e)' = EntryAt(e)
    BY <1>7, <1>8 DEF EntryAt, Tables
  <2>2. ASSUME NEW e \in Tables' \X Entries, e \notin Tables \X Entries
        PROVE  ~EntryAt(e)'.used
    <3>1. e[1] = c /\ e[2] \in Entries
      BY <1>9, <2>2
    <3>2. EntryAt(e)' = EmptyEntry
      BY <1>10, <3>1 DEF EntryAt
    <3> QED
      BY <3>2 DEF EmptyEntry
  <2>3. Tables \X Entries \subseteq Tables' \X Entries
    BY <1>9
  <2> QED
    BY <2>1, <2>2, <2>3 DEF UsedSlots
<1>13. VisibleSlots' = VisibleSlots
  <2>1. VisibleSlots = UsedSlots \ {OpSlot}
    BY <1>1, OpFacts
  <2>2. Fat32TypeOK'
    BY <1>2 DEF TypeInv
  <2>3. VisibleSlots' = UsedSlots' \ {OpSlot'}
    BY <1>3, <2>2, OpVisibleNext
  <2> QED
    BY <1>11, <1>12, <2>1, <2>3
<1>14. ASSUME NEW e \in VisibleSlots
       PROVE  IsKept(e)
  <2>1. EntryAt(e)' = EntryAt(e)
    BY <1>7, <1>8, VisibleFacts DEF EntryAt
  <2>2. \A k \in DOMAIN PathOf(e) :
          fat'[PathOf(e)[k]] = fat[PathOf(e)[k]] /\ disk'[PathOf(e)[k]] = disk[PathOf(e)[k]]
    BY <1>6, <1>8, VisibleFacts, SomeClusters
  <2> QED
    BY <1>13, <2>1, <2>2 DEF IsKept
<1>15. /\ EntriesAreSound' /\ FolderTables' = FolderTables
       /\ \A e \in VisibleSlots' : PathOf(e)' = PathOf(e)
  <2>1. ASSUME NEW e \in VisibleSlots, EntryAt(e).folder
        PROVE  /\ disk'[EntryAt(e).cluster].kind = "table"
               /\ disk'[EntryAt(e).cluster].parent = disk[EntryAt(e).cluster].parent
    BY <1>7, <1>8, <2>1, VisibleFacts, SomeClusters DEF Tables, IsTable
  <2> QED
    BY <1>1, <1>13, <1>14, <2>1, KeptEntries
<1>16. OpPath' = << c >> /\ IsChain(<< c >>, fat', c, 1)
  <2>1. IsChain(<< c >>, fat', c, 1)
    BY <1>6, <1>8, ChainOfOne
  <2>2. OpPath' = Chain(fat', OpEntry'.cluster)
    BY <1>3 DEF OpPath
  <2> QED
    BY <1>5, <1>11, <2>1, <2>2, ChainFacts
<1>17. OpTables' = {c}
  BY <1>3, <1>5 DEF OpTables
<1>18. NamesAreUnique'
  <2>1. \A t \in Tables : disk'[t] = disk[t]
    BY <1>7, <1>8 DEF Tables
  <2> QED
    BY <1>9, <1>10, <2>1 DEF Sane, Healthy, NamesAreUnique, EmptyEntry
<1>19. PathsAreApart'
  <2>1. /\ \A j, k \in DOMAIN << c >> : << c >>[j] = << c >>[k] => j = k
        /\ \A e \in VisibleSlots : \A j \in DOMAIN << c >>, k \in DOMAIN PathOf(e) :
               << c >>[j] # PathOf(e)[k]
    BY <1>6
  <2>2. \A d, e \in VisibleSlots : \A j \in DOMAIN PathOf(d), k \in DOMAIN PathOf(e) :
          PathOf(d)[j] = PathOf(e)[k] => d = e /\ j = k
    BY SaneParts DEF PathsAreApart
  <2> QED
    BY <1>13, <1>15, <1>16, <2>1, <2>2 DEF PathsAreApart
<1>20. AllocatedIsOwned'
  <2>1. ASSUME NEW b \in 0 .. ROOT_CLUSTER_NUMBER PROVE fat'[b] # FAT32_FAT_EMPTY_ENTRY
    BY <1>6, <1>8, SomeClusters DEF Sane, Healthy, AllocatedIsOwned, Free
  <2>2. ASSUME NEW b \in Free, fat'[b] # FAT32_FAT_EMPTY_ENTRY
        PROVE  \/ \E k \in DOMAIN OpPath' : b = OpPath'[k]
               \/ \E e \in VisibleSlots' : \E k \in DOMAIN PathOf(e)' : b = PathOf(e)'[k]
    <3>1. CASE b = c
      BY <1>16, <3>1
    <3>2. CASE b # c
      <4>1. fat[b] # FAT32_FAT_EMPTY_ENTRY
        BY <1>8, <2>2, <3>2, SomeClusters
      <4>2. PICK e \in VisibleSlots : \E k \in DOMAIN PathOf(e) : b = PathOf(e)[k]
        BY <1>4, <4>1 DEF Sane, Healthy, AllocatedIsOwned
      <4> QED
        BY <1>13, <1>15, <4>2
    <3> QED
      BY <3>1, <3>2
  <2> QED
    BY <2>1, <2>2 DEF AllocatedIsOwned
<1>21. TablesAreFolders'
  BY <1>4, <1>9, <1>15, <1>13, <1>17 DEF Sane, Healthy, TablesAreFolders
<1>22. WriteIsSound'
  <2>1. op' \in WriteOp =>
        /\ op'.parent \in FolderTables'
        /\ OpEntry'.used /\ OpEntry'.filesize = op'.size
        /\ OpEntry'.folder <=> op'.size = 0
        /\ OpEntry'.cluster \in Free
        /\ op'.pc # "flush" /\ op'.i = 0 => OpEntry'.cluster \in FindEmptySpace(fat)'
        /\ op'.pc = "flush" \/ op'.i > 0 =>
              IsChain(OpPath', fat', OpEntry'.cluster, IF op'.size = 0 THEN 1 ELSE op'.i)
        /\ op'.pc = "folder" => op'.size = 0 /\ op'.i = 0 /\ op'.idx = OpEntry'.cluster
        /\ op'.pc = "data"   => op'.idx = IF op'.i = 0 THEN NOT_FOUND ELSE OpPath'[op'.i]
        /\ op'.pc = "flush"  => op'.i = op'.size
        /\ op'.size > 0 => \A k \in 1 .. op'.i : disk'[OpPath'[k]] = Block(op'.payload, k)
        /\ op'.pc = "flush" /\ op'.size = 0 =>
              op'.idx = OpEntry'.cluster /\ disk'[op'.idx] = NewTable(op'.parent)
    BY <1>3, <1>5, <1>6, <1>7, <1>8, <1>11, <1>13, <1>15, <1>16
  <2> QED
    BY <2>1 DEF WriteIsSound
<1>23. DeleteIsSound'
  BY <1>3 DEF DeleteIsSound
<1>24. disk'[BOOT_SECTOR] = Boot
  <2>1. BOOT_SECTOR # c
    BY <1>6 DEF Free, BOOT_SECTOR, ROOT_CLUSTER_NUMBER
  <2> QED
    BY <1>8, <2>1, SomeClusters DEF Sane, Healthy
<1> QED
  BY <1>3, <1>13, <1>14, <1>15, <1>18, <1>19, <1>20, <1>21, <1>22, <1>23, <1>24 DEF Healthy

(* The search for a free cluster has at most one result.                   *)
LEMMA FindIsUnique ==
    ASSUME NEW map, NEW c \in FindEmptySpace(map), NEW d \in FindEmptySpace(map)
    PROVE  c = d
<1>1. c \in Nat /\ d \in Nat
  BY SomeClusters DEF FindEmptySpace
<1>2. c < d => c \in 0 .. d - 1
  BY <1>1
<1>3. d < c => d \in 0 .. c - 1
  BY <1>1
<1> QED
  BY <1>1, <1>2, <1>3 DEF FindEmptySpace

(* The step of write that links one more cluster.                          *)
LEMMA WriteClusterStep ==
    ASSUME Sane, WriteCluster
    PROVE  /\ Healthy'
           /\ VisibleSlots' = VisibleSlots /\ \A e \in VisibleSlots : IsKept(e)
<1>1. PICK c \in FindEmptySpace(fat) :
          /\ disk' = [disk EXCEPT ![c] = Block(op.payload, op.i + 1)]
          /\ fat' = [b \in Clusters |-> IF b = c THEN FAT32_FAT_END_OF_FILE
                                        ELSE IF b = op.idx THEN c ELSE fat[b]]
          /\ op' = [op EXCEPT !.idx = c, !.i = @ + 1,
                              !.pc = IF op.i + 1 = op.size THEN "flush" ELSE "data"]
  BY DEF WriteCluster
<1>2. /\ op \in WriteOp /\ op.pc = "data" /\ op \notin DeleteOp
      /\ disk_fat' = disk_fat /\ defect' = defect
  BY OpKinds DEF WriteCluster, Sane, TypeInv
<1>3. /\ op.i \in Nat /\ op.size \in Nat /\ op.i < op.size
  BY <1>2 DEF Sane, TypeInv, LocalsAreBounded, WriteOp
<1>4. TypeInv'
  <2>1. [Next]_vars
    BY DEF Next, DriverStep
  <2> QED
    BY <2>1, TypeStep DEF Sane
<1>5. /\ op' \in WriteOp /\ op'.pc = (IF op.i + 1 = op.size THEN "flush" ELSE "data")
      /\ op'.parent = op.parent /\ op'.slot = op.slot /\ op'.payload = op.payload
      /\ op'.idx = c /\ op'.size = op.size /\ op'.i = op.i + 1 /\ op' \notin DeleteOp
      /\ op' \notin {Idle, Lost, NoTable, NoRoot}
  <2>1. /\ op'.pc = (IF op.i + 1 = op.size THEN "flush" ELSE "data")
        /\ op'.parent = op.parent /\ op'.slot = op.slot /\ op'.payload = op.payload
        /\ op'.idx = c /\ op'.size = op.size /\ op'.i = op.i + 1
    BY <1>1, <1>2 DEF WriteOp
  <2>2. op' \in WriteOp \cup DeleteOp
    BY <1>4, <2>1, OpKindsNext DEF TypeInv
  <2>3. DOMAIN op' = DOMAIN op
    BY <1>1
  <2>4. op' \notin DeleteOp
    <3>1. DOMAIN op = {"pc", "parent", "slot", "payload", "size", "i", "idx"}
      BY <1>2 DEF WriteOp
    <3>2. op' \in DeleteOp => DOMAIN op' = {"pc", "parent", "slot", "idx", "table"}
      BY DEF DeleteOp
    <3>3. "table" \notin {"pc", "parent", "slot", "payload", "size", "i", "idx"}
      OBVIOUS
    <3> QED
      BY <2>3, <3>1, <3>2, <3>3
  <2> QED
    BY <1>4, <2>1, <2>2, <2>4, OpKindsNext DEF TypeInv
<1>6. /\ OpEntry.used /\ OpEntry.filesize = op.size /\ ~OpEntry.folder
      /\ OpEntry.cluster \in Free
      /\ op.i = 0 => OpEntry.cluster \in FindEmptySpace(fat)
      /\ op.i > 0 => IsChain(OpPath, fat, OpEntry.cluster, op.i)
      /\ op.idx = IF op.i = 0 THEN NOT_FOUND ELSE OpPath[op.i]
      /\ \A k \in 1 .. op.i : disk[OpPath[k]] = Block(op.payload, k)
  BY <1>2, <1>3 DEF Sane, Healthy, WriteIsSound
<1>7. OpTables = {} /\ OpTables' = {}
  BY <1>2, <1>3, <1>5 DEF OpTables
<1>8. /\ c \in Free /\ c \in Clusters /\ fat[c] = FAT32_FAT_EMPTY_ENTRY /\ c \notin FolderTables
      /\ \A e \in VisibleSlots : \A k \in DOMAIN PathOf(e) : PathOf(e)[k] # c
  BY FreshCluster, SomeClusters
<1>9. c \notin Tables /\ op.parent # c /\ op.parent \in Clusters /\ op.parent \in FolderTables
  BY <1>2, <1>7, <1>8, OpFacts DEF Sane, Healthy, TablesAreFolders
<1>10. /\ disk'[c] = Block(op.payload, op.i + 1) /\ \A b \in Clusters \ {c} : disk'[b] = disk[b]
       /\ fat'[c] = FAT32_FAT_END_OF_FILE
       /\ \A b \in Clusters \ {c, op.idx} : fat'[b] = fat[b]
       /\ op.idx \in Clusters \ {c} => fat'[op.idx] = c
  BY <1>1, <1>8 DEF Sane, TypeInv, Fat32TypeOK
(* What the operation had linked before. *)
<1>11. /\ OpPath \in Seq(Free) /\ Len(OpPath) = op.i /\ DOMAIN OpPath = 1 .. op.i
       /\ \A k \in 1 .. op.i : OpPath[k] \in Free /\ OpPath[k] # c
       /\ op.i = 0 => OpPath = << >>
       /\ op.i > 0 => OpPath # << >>
  <2>1. CASE op.i = 0
    <3>1. OpPath = << >>
      BY <1>2, <2>1 DEF OpPath
    <3> QED
      BY <2>1, <3>1
  <2>2. CASE op.i > 0
    <3>1. IsChain(OpPath, fat, OpEntry.cluster, op.i)
      BY <1>6, <2>2
    <3> QED
      BY <1>3, <1>8, <2>2, <3>1, ChainFacts
  <2> QED
    BY <1>3, <2>1, <2>2
<1> DEFINE q == Append(OpPath, c)
<1>12. /\ q \in Seq(Free) /\ Len(q) = op.i + 1 /\ DOMAIN q = 1 .. op.i + 1
       /\ q[op.i + 1] = c /\ \A k \in 1 .. op.i : q[k] = OpPath[k]
  BY <1>3, <1>8, <1>11
<1> HIDE DEF q
(* The cluster that was the last one is that of the operation. *)
<1>13. \A e \in VisibleSlots : \A k \in DOMAIN PathOf(e) : PathOf(e)[k] # op.idx
  <2>1. CASE op.i = 0
    BY <1>6, <2>1, VisibleFacts, SomeClusters, SpecialValues
  <2>2. CASE op.i > 0
    <3>1. op.i \in DOMAIN OpPath /\ op.idx = OpPath[op.i]
      BY <1>3, <1>6, <1>11, <2>2
    <3> QED
      BY <3>1, SaneParts DEF PathsAreApart
  <2> QED
    BY <1>3, <2>1, <2>2
<1>14. IsChain(q, fat', OpEntry.cluster, op.i + 1)
  <2>1. CASE op.i = 0
    <3>1. OpEntry.cluster = c
      BY <1>6, <2>1, FindIsUnique
    <3>2. q = << c >>
      BY <1>11, <2>1 DEF q
    <3> QED
      BY <1>8, <1>10, <2>1, <3>1, <3>2, ChainOfOne
  <2>2. CASE op.i > 0
    <3>1. IsChain(OpPath, fat, OpEntry.cluster, op.i)
      BY <1>6, <2>2
    <3>2. op.i < CLUSTER_MAP_SIZE
      BY <1>3, <1>11, PathIsShort, ClustersAssumption, SaneParts DEF PathsAreApart
    <3>3. \A k \in 1 .. op.i - 1 : OpPath[k] # OpPath[op.i]
      <4>1. \A k \in 1 .. op.i - 1 : k \in DOMAIN OpPath /\ op.i \in DOMAIN OpPath /\ k # op.i
        BY <1>3, <1>11
      <4> QED
        BY <4>1, SaneParts DEF PathsAreApart
    <3>0. op.idx = OpPath[op.i] /\ op.idx \in Clusters \ {c}
      <4>1. op.i \in 1 .. op.i /\ op.idx = OpPath[op.i]
        BY <1>3, <1>6, <2>2
      <4> QED
        BY <1>11, <4>1, SomeClusters
    <3>4. ASSUME NEW k \in 1 .. op.i - 1 PROVE fat'[OpPath[k]] = fat[OpPath[k]]
      <4>1. k \in 1 .. op.i /\ OpPath[k] # op.idx
        BY <1>3, <3>0, <3>3
      <4>2. OpPath[k] \in Clusters \ {c, op.idx}
        BY <1>11, <4>1, SomeClusters
      <4> QED
        BY <1>10, <4>2
    <3>5. fat'[OpPath[op.i]] = c
      BY <1>10, <3>0
    <3> QED
      BY <1>8, <1>10, <3>1, <3>2, <3>4, <3>5, ChainExtended DEF q
  <2> QED
    BY <1>3, <2>1, <2>2
<1>15. OpEntry' = OpEntry /\ OpSlot' = OpSlot
  BY <1>5, <1>9, <1>10 DEF OpEntry, OpSlot
<1>16. OpPath' = q
  <2>1. OpPath' = Chain(fat', OpEntry'.cluster)
    BY <1>3, <1>5 DEF OpPath
  <2> QED
    BY <1>14, <1>15, <2>1, ChainFacts
<1>17. Tables' = Tables
  <2>1. disk'[c].kind # "table"
    BY <1>10 DEF Block
  <2> QED
    BY <1>9, <1>10, <2>1 DEF Tables, IsTable
<1>18. \A t \in Tables : disk'[t] = disk[t]
  BY <1>9, <1>10 DEF Tables
<1>19. UsedSlots' = UsedSlots
  BY <1>17, <1>18 DEF UsedSlots, EntryAt
<1>20. VisibleSlots' = VisibleSlots
  BY <1>2, <1>4, <1>5, <1>15, <1>19, OpFacts, OpVisibleNext DEF TypeInv
<1>21. ASSUME NEW e \in VisibleSlots
       PROVE  IsKept(e)
  <2>1. EntryAt(e)' = EntryAt(e)
    BY <1>18, VisibleFacts DEF EntryAt
  <2>2. \A k \in DOMAIN PathOf(e) :
          fat'[PathOf(e)[k]] = fat[PathOf(e)[k]] /\ disk'[PathOf(e)[k]] = disk[PathOf(e)[k]]
    BY <1>8, <1>10, <1>13, VisibleFacts, SomeClusters
  <2> QED
    BY <1>20, <2>1, <2>2 DEF IsKept
<1>22. /\ EntriesAreSound' /\ FolderTables' = FolderTables
       /\ \A e \in VisibleSlots' : PathOf(e)' = PathOf(e)
  <2>1. ASSUME NEW e \in VisibleSlots, EntryAt(e).folder
        PROVE  /\ disk'[EntryAt(e).cluster].kind = "table"
               /\ disk'[EntryAt(e).cluster].parent = disk[EntryAt(e).cluster].parent
    BY <1>18, <2>1, VisibleFacts, SomeClusters DEF Tables, IsTable
  <2> QED
    BY <1>2, <1>20, <1>21, <2>1, KeptEntries
<1>23. NamesAreUnique'
  BY <1>17, <1>18, SaneParts DEF NamesAreUnique
<1>24. PathsAreApart'
  <2>1. /\ \A j, k \in DOMAIN q : q[j] = q[k] => j = k
        /\ \A e \in VisibleSlots : \A j \in DOMAIN q, k \in DOMAIN PathOf(e) : q[j] # PathOf(e)[k]
    <3>1. \A j \in DOMAIN q : j \in DOMAIN OpPath \/ j = op.i + 1
      BY <1>3, <1>11, <1>12
    <3> QED
      BY <1>3, <1>8, <1>11, <1>12, <3>1, SaneParts DEF PathsAreApart
  <2>2. \A d, e \in VisibleSlots : \A j \in DOMAIN PathOf(d), k \in DOMAIN PathOf(e) :
          PathOf(d)[j] = PathOf(e)[k] => d = e /\ j = k
    BY SaneParts DEF PathsAreApart
  <2> QED
    BY <1>16, <1>20, <1>22, <2>1, <2>2 DEF PathsAreApart
<1>25. AllocatedIsOwned'
  <2>0. op.idx \in Clusters => op.i > 0 /\ op.idx = OpPath[op.i] /\ op.i \in DOMAIN OpPath
    BY <1>3, <1>6, <1>11, SpecialValues
  <2>1. ASSUME NEW b \in 0 .. ROOT_CLUSTER_NUMBER PROVE fat'[b] # FAT32_FAT_EMPTY_ENTRY
    <3>1. b # c /\ b # op.idx /\ b \in Clusters
      BY <1>3, <1>8, <1>11, <2>0, SomeClusters DEF Free
    <3> QED
      BY <1>10, <3>1 DEF Sane, Healthy, AllocatedIsOwned
  <2>2. ASSUME NEW b \in Free, fat'[b] # FAT32_FAT_EMPTY_ENTRY
        PROVE  \/ \E k \in DOMAIN OpPath' : b = OpPath'[k]
               \/ \E e \in VisibleSlots' : \E k \in DOMAIN PathOf(e)' : b = PathOf(e)'[k]
    <3>1. CASE b = c
      BY <1>3, <1>12, <1>16, <3>1
    <3>2. CASE b # c
      <4>1. (\E k \in DOMAIN OpPath : b = OpPath[k]) =>  \E k \in DOMAIN OpPath' : b = OpPath'[k]
        BY <1>3, <1>11, <1>12, <1>16
      <4>2. CASE b = op.idx
        BY <2>0, <4>1, <4>2, SomeClusters
      <4>3. CASE b # op.idx
        <5>1. fat[b] # FAT32_FAT_EMPTY_ENTRY
          BY <1>10, <2>2, <3>2, <4>3, SomeClusters
        <5> QED
          BY <1>20, <1>22, <4>1, <5>1 DEF Sane, Healthy, AllocatedIsOwned
      <4> QED
        BY <4>2, <4>3
    <3> QED
      BY <3>1, <3>2
  <2> QED
    BY <2>1, <2>2 DEF AllocatedIsOwned
<1>26. TablesAreFolders'
  BY <1>7, <1>17, <1>22, <1>20 DEF Sane, Healthy, TablesAreFolders
<1>27. WriteIsSound'
  <2>1. \A k \in 1 .. op'.i : disk'[OpPath'[k]] = Block(op'.payload, k)
    <3>1. \A k \in 1 .. op.i : disk'[OpPath[k]] = Block(op.payload, k)
      BY <1>6, <1>10, <1>11, SomeClusters
    <3> QED
      BY <1>3, <1>5, <1>10, <1>12, <1>16, <3>1
  <2>2. op'.pc = "data" => op'.idx = OpPath'[op'.i]
    BY <1>3, <1>5, <1>12, <1>16
  <2>3. op'.pc = "flush" => op'.i = op'.size
    BY <1>3, <1>5
  <2>4. op' \in WriteOp =>
        /\ op'.parent \in FolderTables'
        /\ OpEntry'.used /\ OpEntry'.filesize = op'.size
        /\ OpEntry'.folder <=> op'.size = 0
        /\ OpEntry'.cluster \in Free
        /\ op'.pc # "flush" /\ op'.i = 0 => OpEntry'.cluster \in FindEmptySpace(fat)'
        /\ op'.pc = "flush" \/ op'.i > 0 =>
              IsChain(OpPath', fat', OpEntry'.cluster, IF op'.size = 0 THEN 1 ELSE op'.i)
        /\ op'.pc = "folder" => op'.size = 0 /\ op'.i = 0 /\ op'.idx = OpEntry'.cluster
        /\ op'.pc = "data"   => op'.idx = IF op'.i = 0 THEN NOT_FOUND ELSE OpPath'[op'.i]
        /\ op'.pc = "flush"  => op'.i = op'.size
        /\ op'.size > 0 => \A k \in 1 .. op'.i : disk'[OpPath'[k]] = Block(op'.payload, k)
        /\ op'.pc = "flush" /\ op'.size = 0 =>
              op'.idx = OpEntry'.cluster /\ disk'[op'.idx] = NewTable(op'.parent)
    BY <1>3, <1>5, <1>6, <1>9, <1>14, <1>15, <1>16, <1>22, <2>1, <2>2, <2>3
  <2> QED
    BY <2>4 DEF WriteIsSound
<1>28. DeleteIsSound'
  BY <1>5 DEF DeleteIsSound
<1>29. disk'[BOOT_SECTOR] = Boot
  <2>1. BOOT_SECTOR # c
    BY <1>8 DEF Free, BOOT_SECTOR, ROOT_CLUSTER_NUMBER
  <2> QED
    BY <1>10, <2>1, SomeClusters DEF Sane, Healthy
<1> QED
  BY <1>5, <1>20, <1>21, <1>22, <1>23, <1>24, <1>25, <1>26, <1>27, <1>28, <1>29 DEF Healthy

-----------------------------------------------------------------------------
(* Where no name changes, names stay unique.                               *)
LEMMA NamesStay ==
    ASSUME NamesAreUnique, \A t \in Tables' : t \in Tables /\ disk'[t] = disk[t]
    PROVE  NamesAreUnique'
<1>1. ASSUME NEW t \in Tables', NEW s \in Entries
      PROVE  IF disk'[t].entry[s].used
             THEN disk'[t].entry[s].name \in Names \ {NoName}
             ELSE disk'[t].entry[s].name = NoName /\ disk'[t].entry[s].cluster = 0
  <2>1. t \in Tables /\ disk'[t] = disk[t]
    BY <1>1
  <2>2. IF disk[t].entry[s].used
        THEN disk[t].entry[s].name \in Names \ {NoName}
        ELSE disk[t].entry[s].name = NoName /\ disk[t].entry[s].cluster = 0
    BY <2>1, Zenon DEF NamesAreUnique
  <2> QED
    BY <2>1, <2>2, Zenon
<1>2. ASSUME NEW t \in Tables', NEW r \in Entries, NEW s \in Entries,
             disk'[t].entry[r].used, disk'[t].entry[s].used,
             disk'[t].entry[r].name = disk'[t].entry[s].name
      PROVE  r = s
  <2>1. t \in Tables /\ disk'[t] = disk[t]
    BY <1>2
  <2>2. /\ disk[t].entry[r].used /\ disk[t].entry[s].used
        /\ disk[t].entry[r].name = disk[t].entry[s].name
    BY <1>2, <2>1
  <2> QED
    BY <2>1, <2>2 DEF NamesAreUnique
<1> QED
  BY <1>1, <1>2, Zenon DEF NamesAreUnique

LEMMA EmptyHasNoEntry ==
    ASSUME NEW c \in Tables, LooksEmpty(c), NEW r \in Entries
    PROVE  ~disk[c].entry[r].used
BY DEF Tables, LooksEmpty

(* The first step of delete, for the entry and the cluster it has found.   *)
DeleteBegins(parent, s, pc, c) ==
    /\ c = disk[parent].entry[s].cluster
    /\ op = Idle /\ DeleteEntryAt(parent, s, pc) /\ disk_fat' = disk_fat
    /\ \/ /\ pc = "free"
          /\ ~disk[parent].entry[s].folder
          /\ UNCHANGED << disk, fat >>
       \/ /\ pc = "parent"
          /\ disk[parent].entry[s].folder
          /\ LooksEmpty(c)
          /\ disk' = [disk EXCEPT ![c] = Zero]
          /\ fat' = [fat EXCEPT ![c] = FAT32_FAT_EMPTY_ENTRY]

(* What it does, whatever entry the name has found.                         *)
LEMMA DeleteEffect ==
    ASSUME Sane, NEW parent \in Tables, NEW n \in Names, NEW s \in Entries,
           NEW pc \in {"free", "parent"}, NEW c,
           DeleteBegins(parent, s, pc, c), TypeInv', op' \in DeleteOp
    PROVE  /\ VisibleSlots = UsedSlots
           /\ VisibleSlots' = VisibleSlots \ {<< parent, s >>}
           /\ \A e \in VisibleSlots' : IsKept(e)
           /\ NamesAreUnique'
           /\ disk[parent].entry[s].used <=> << parent, s >> \in VisibleSlots
           /\ pc = "parent" => /\ \A t \in Tables : t # c => disk'[t] = disk[t]
                               /\ Tables' = Tables \ {c} /\ c # parent
                               /\ c \in Clusters
                               /\ disk[parent].entry[s].used =>
                                     \A e \in VisibleSlots : e[1] # c
                               /\ ~disk[parent].entry[s].used => c = 0
<1>0. /\ c = disk[parent].entry[s].cluster
      /\ op = Idle /\ DeleteEntryAt(parent, s, pc) /\ disk_fat' = disk_fat
      /\ pc = "free"   => /\ ~disk[parent].entry[s].folder
                          /\ UNCHANGED << disk, fat >>
      /\ pc = "parent" => /\ disk[parent].entry[s].folder
                          /\ LooksEmpty(c)
                          /\ disk' = [disk EXCEPT ![c] = Zero]
                          /\ fat' = [fat EXCEPT ![c] = FAT32_FAT_EMPTY_ENTRY]
  BY DEF DeleteBegins
<1>1. /\ parent \in Clusters /\ disk[parent] \in TableType
      /\ disk[parent].entry[s] \in EntryType /\ c \in Clusters
  BY <1>0, TableAt DEF Sane, TypeInv, EntryType
<1>2. VisibleSlots = UsedSlots
  BY <1>0, OpVisible DEF Sane, TypeInv
<1>3. disk[parent].entry[s].used <=> << parent, s >> \in VisibleSlots
  BY <1>2 DEF UsedSlots, EntryAt
<1>4. OpSlot' = << parent, s >>
  BY <1>0 DEF OpSlot, DeleteEntryAt
<1>5. VisibleSlots' = UsedSlots' \ {<< parent, s >>}
  BY <1>4, OpVisibleNext DEF TypeInv
<1>6. CASE pc = "free"
  <2>1. UsedSlots' = UsedSlots
    BY <1>0, <1>6 DEF UsedSlots, Tables, IsTable, EntryAt
  <2>2. VisibleSlots' = VisibleSlots \ {<< parent, s >>}
    BY <1>2, <1>5, <2>1
  <2>3. \A e \in VisibleSlots' : IsKept(e)
    BY <1>0, <1>6, <2>2 DEF IsKept, EntryAt
  <2>4. NamesAreUnique'
    <3>1. disk' = disk
      BY <1>0, <1>6
    <3>2. \A t \in Tables' : t \in Tables /\ disk'[t] = disk[t]
      BY <3>1 DEF Tables, IsTable
    <3> QED
      BY <3>2, NamesStay DEF Sane, Healthy
  <2> QED
    BY <1>2, <1>3, <1>6, <2>2, <2>3, <2>4
<1>7. CASE pc = "parent"
  <2>1. /\ disk' = [disk EXCEPT ![c] = Zero] /\ LooksEmpty(c)
        /\ fat' = [fat EXCEPT ![c] = FAT32_FAT_EMPTY_ENTRY]
        /\ disk[parent].entry[s].folder
    BY <1>0, <1>7
  <2>2. /\ disk'[c] = Zero /\ \A b \in Clusters \ {c} : disk'[b] = disk[b]
        /\ \A b \in Clusters \ {c} : fat'[b] = fat[b]
    BY <1>1, <2>1 DEF Sane, TypeInv, Fat32TypeOK
  <2>3. Tables' = Tables \ {c}
    <3>1. disk'[c].kind # "table"
      BY <2>2 DEF Zero
    <3> QED
      BY <2>2, <3>1 DEF Tables, IsTable
  <2>4. \A t \in Tables : t # c => disk'[t] = disk[t]
    BY <2>2 DEF Tables
  <2>5. \A e \in VisibleSlots : e[1] # c
    <3> SUFFICES ASSUME NEW e \in VisibleSlots, e[1] = c PROVE FALSE
      OBVIOUS
    <3>1. PICK r : r = e[2]
      OBVIOUS
    <3>2. e[1] \in Tables /\ r \in Entries /\ EntryAt(e) = disk[e[1]].entry[r]
          /\ EntryAt(e).used
      BY <3>1, VisibleFacts
    <3>3. c \in Tables /\ disk[c].entry[r].used
      BY <3>2
    <3> QED
      BY <2>1, <3>2, <3>3, EmptyHasNoEntry
  <2>6. ~disk[parent].entry[s].used => c = 0
    BY <1>0, SaneParts DEF NamesAreUnique
  <2>7. 0 \notin Tables
    BY DEF Sane, Healthy, Tables, IsTable, Boot, BOOT_SECTOR
  <2>8. c # parent
    BY <1>3, <2>5, <2>6, <2>7
  <2>9. UsedSlots' = UsedSlots
    <3>1. \A e \in Tables' \X Entries : EntryAt(e)' = EntryAt(e)
      BY <2>3, <2>4 DEF EntryAt
    <3>2. UsedSlots \subseteq Tables' \X Entries
      BY <1>2, <2>3, <2>5, VisibleFacts DEF UsedSlots
    <3> QED
      BY <2>3, <3>1, <3>2 DEF UsedSlots
  <2>10. VisibleSlots' = VisibleSlots \ {<< parent, s >>}
    BY <1>2, <1>5, <2>9
  <2>11. ASSUME NEW e \in VisibleSlots'
         PROVE  IsKept(e)
    <3>1. e \in VisibleSlots /\ e # << parent, s >>
      BY <2>10, Zenon
    <3>2. EntryAt(e)' = EntryAt(e)
      BY <2>4, <2>5, <3>1, VisibleFacts DEF EntryAt
    <3>3. \A k \in DOMAIN PathOf(e) : PathOf(e)[k] # c
      <4>1. CASE disk[parent].entry[s].used
        <5>1. /\ << parent, s >> \in VisibleSlots /\ PathOf(<< parent, s >>)[1] = c
              /\ 1 \in DOMAIN PathOf(<< parent, s >>)
          <6>1. << parent, s >> \in VisibleSlots
            BY <1>3, <4>1
          <6>2. EntryAt(<< parent, s >>).cluster = c
            BY <1>0 DEF EntryAt
          <6>3. PICK f : f = << parent, s >>
            OBVIOUS
          <6>4. /\ PathOf(f)[1] = EntryAt(f).cluster /\ DOMAIN PathOf(f) = 1 .. SizeOf(f)
                /\ SizeOf(f) \in Nat /\ SizeOf(f) >= 1
            BY <6>1, <6>3, VisibleFacts
          <6> QED
            BY <6>1, <6>2, <6>3, <6>4
        <5> QED
          BY <3>1, <5>1, SaneParts DEF PathsAreApart
      <4>2. CASE ~disk[parent].entry[s].used
        BY <2>6, <3>1, <4>2, VisibleFacts DEF Free, ROOT_CLUSTER_NUMBER
      <4> QED
        BY <4>1, <4>2
    <3>4. \A k \in DOMAIN PathOf(e) : PathOf(e)[k] \in Clusters \ {c}
      BY <3>1, <3>3, VisibleFacts, SomeClusters
    <3> QED
      BY <2>2, <2>10, <3>1, <3>2, <3>4 DEF IsKept
  <2>12. NamesAreUnique'
    <3>1. \A t \in Tables' : t \in Tables /\ disk'[t] = disk[t]
      BY <2>3, <2>4
    <3> QED
      BY <3>1, NamesStay DEF Sane, Healthy
  <2> QED
    BY <1>1, <1>2, <1>3, <2>3, <2>4, <2>5, <2>6, <2>8, <2>10, <2>11, <2>12
<1> QED
  BY <1>6, <1>7

(* The first step of delete keeps the invariant.                           *)
LEMMA DeletesUsed ==
    ASSUME NEW parent, NEW s, NEW pc, DeleteEntryAt(parent, s, pc),
           defect' = "none"
    PROVE  disk[parent].entry[s].used
<1>1. ~Remember("misnamed")
  BY DEF Remember
<1> QED
  BY <1>1 DEF DeleteEntryAt

LEMMA DeleteHealthy ==
    ASSUME Sane, NEW parent \in Tables, NEW n \in Names,
           DeleteFolder(parent, n) \/ DeleteFile(parent, n), defect' = "none"
    PROVE  Healthy'
<1>1. PICK s \in Entries, pc \in {"free", "parent"}, c \in Clusters :
           /\ c = disk[parent].entry[s].cluster
           /\ op = Idle /\ DeleteEntryAt(parent, s, pc) /\ disk_fat' = disk_fat
           /\ \/ /\ pc = "free"
                 /\ ~disk[parent].entry[s].folder
                 /\ UNCHANGED << disk, fat >>
              \/ /\ pc = "parent"
                 /\ disk[parent].entry[s].folder
                 /\ LooksEmpty(c)
                 /\ disk' = [disk EXCEPT ![c] = Zero]
                 /\ fat' = [fat EXCEPT ![c] = FAT32_FAT_EMPTY_ENTRY]
  <2>1. \A s \in Entries : disk[parent].entry[s].cluster \in Clusters
    BY TableAt DEF Sane, TypeInv, EntryType
  <2> QED
    BY <2>1 DEF DeleteFolder, DeleteFile, FindEntry
<1> DEFINE e == << parent, s >>
<1>2. TypeInv' /\ op' \in DeleteOp
  BY DeleteTypes DEF Sane
<1>3. /\ VisibleSlots = UsedSlots
      /\ VisibleSlots' = VisibleSlots \ {e}
      /\ \A f \in VisibleSlots' : IsKept(f)
      /\ NamesAreUnique'
      /\ disk[parent].entry[s].used <=> e \in VisibleSlots
      /\ pc = "parent" => /\ \A t \in Tables : t # c => disk'[t] = disk[t]
                          /\ Tables' = Tables \ {c} /\ c # parent
                          /\ c \in Clusters
                          /\ disk[parent].entry[s].used =>
                                \A f \in VisibleSlots : f[1] # c
                          /\ ~disk[parent].entry[s].used => c = 0
  <2>1. DeleteBegins(parent, s, pc, c)
    BY <1>1, Zenon DEF DeleteBegins
  <2> QED
    BY <1>2, <2>1, DeleteEffect
<1>4. disk[parent].entry[s].used /\ e \in VisibleSlots
  <2>1. DeleteEntryAt(parent, s, pc)
    BY <1>1
  <2>2. disk[parent].entry[s].used
    BY <2>1, DeletesUsed, Zenon
  <2> QED
    BY <1>3, <2>2, Zenon
<1>5. /\ EntryAt(e) = disk[parent].entry[s] /\ PathOf(e)[1] = c /\ c \in Free
      /\ IsChain(PathOf(e), fat, c, SizeOf(e)) /\ parent \in Clusters
      /\ DOMAIN PathOf(e) = 1 .. SizeOf(e)
      /\ EntryAt(e).folder => SizeOf(e) = 1
  BY <1>1, <1>4, VisibleFacts, Zenon DEF EntryAt, SizeOf
<1>other. \A f \in VisibleSlots : f # e => EntryAt(f).cluster # c
  <2> HIDE DEF e
  <2>1. ASSUME NEW f \in VisibleSlots, f # e, EntryAt(f).cluster = c PROVE FALSE
    <3>1. 1 \in DOMAIN PathOf(f) /\ 1 \in DOMAIN PathOf(e) /\ PathOf(f)[1] = c
      BY <1>4, <2>1, VisibleFacts
    <3> QED
      BY <1>4, <1>5, <2>1, <3>1, SaneParts DEF PathsAreApart
  <2> QED
    BY <2>1
<1>6. /\ op'.pc = pc /\ op'.parent = parent /\ op'.slot = s /\ op'.idx = c
      /\ op'.table = [disk[parent] EXCEPT !.entry[s] = DeleteEntry(@)]
      /\ op' \notin WriteOp /\ op' \notin {Idle, Lost, NoTable, NoRoot}
  <2>1. /\ op'.pc = pc /\ op'.parent = parent /\ op'.slot = s /\ op'.idx = c
        /\ op'.table = [disk[parent] EXCEPT !.entry[s] = DeleteEntry(@)]
    BY <1>1 DEF DeleteEntryAt
  <2> QED
    BY <1>2, <2>1, OpKindsNext DEF TypeInv
<1>7. OpTables = {} /\ OpTables' = {} /\ OpPath = << >> /\ parent \in FolderTables
  <2>1. op \notin WriteOp \cup DeleteOp
    BY <1>1, OpKinds DEF Sane, TypeInv
  <2>2. OpTables = {} /\ OpTables' = {} /\ OpPath = << >>
    BY <1>6, <2>1 DEF OpTables, OpPath
  <2> QED
    BY <2>2 DEF Sane, Healthy, TablesAreFolders
<1>8. /\ EntriesAreSound'
      /\ \A f \in VisibleSlots' : PathOf(f)' = PathOf(f) /\ EntryAt(f)' = EntryAt(f)
  <2>1. ASSUME NEW f \in VisibleSlots', EntryAt(f).folder
        PROVE  /\ disk'[EntryAt(f).cluster].kind = "table"
               /\ disk'[EntryAt(f).cluster].parent = disk[EntryAt(f).cluster].parent
    <3>1. f \in VisibleSlots /\ f # e
      BY <1>3
    <3>2. EntryAt(f).cluster \in Tables
      BY <2>1, <3>1, VisibleFacts, SomeClusters DEF Tables
    <3>3. EntryAt(f).cluster # c
      BY <1>other, <3>1
    <3>4. disk'[EntryAt(f).cluster] = disk[EntryAt(f).cluster]
      BY <1>1, <1>3, <3>2, <3>3
    <3> QED
      BY <3>2, <3>4 DEF Tables, IsTable
  <2> QED
    BY <1>1, <1>3, <2>1, KeptEntries
<1>9. OpPath' = IF pc = "free" THEN PathOf(e) ELSE << >>
  <2>1. OpPath' = IF pc = "free" THEN Chain(fat', c) ELSE << >>
    BY <1>2, <1>6 DEF OpPath
  <2> QED
    BY <1>1, <1>5, <2>1 DEF PathOf
<1>10. PathsAreApart'
  <2> HIDE DEF e
  <2>1. \A d, f \in VisibleSlots : \A j \in DOMAIN PathOf(d), k \in DOMAIN PathOf(f) :
          PathOf(d)[j] = PathOf(f)[k] => d = f /\ j = k
    BY SaneParts DEF PathsAreApart
  <2>2. /\ \A j, k \in DOMAIN OpPath' : OpPath'[j] = OpPath'[k] => j = k
        /\ \A f \in VisibleSlots' : \A j \in DOMAIN OpPath', k \in DOMAIN PathOf(f) :
               OpPath'[j] # PathOf(f)[k]
    <3>1. CASE pc = "free"
      BY <1>3, <1>4, <1>9, <2>1, <3>1
    <3>2. CASE pc = "parent"
      BY <1>9, <3>2
    <3> QED
      BY <3>1, <3>2
  <2> QED
    BY <1>3, <1>8, <2>1, <2>2 DEF PathsAreApart
<1>11. AllocatedIsOwned'
  <2>1. \A b \in Clusters : fat'[b] = IF pc = "parent" /\ b = c THEN FAT32_FAT_EMPTY_ENTRY ELSE fat[b]
    BY <1>1, <1>5, SomeClusters DEF Sane, TypeInv, Fat32TypeOK
  <2>2. ASSUME NEW b \in 0 .. ROOT_CLUSTER_NUMBER PROVE fat'[b] # FAT32_FAT_EMPTY_ENTRY
    BY <1>5, <2>1, SomeClusters DEF Sane, Healthy, AllocatedIsOwned, Free
  <2>3. ASSUME NEW b \in Free, fat'[b] # FAT32_FAT_EMPTY_ENTRY
        PROVE  \/ \E k \in DOMAIN OpPath' : b = OpPath'[k]
               \/ \E f \in VisibleSlots' : \E k \in DOMAIN PathOf(f)' : b = PathOf(f)'[k]
    <3>1. fat[b] # FAT32_FAT_EMPTY_ENTRY /\ (pc = "parent" => b # c)
      BY <2>1, <2>3, SomeClusters
    <3>2. PICK f \in VisibleSlots : \E k \in DOMAIN PathOf(f) : b = PathOf(f)[k]
      BY <1>7, <3>1 DEF Sane, Healthy, AllocatedIsOwned
    <3>3. CASE f = e
      <4>1. pc = "free"
        BY <1>1, <1>5, <3>1, <3>2, <3>3
      <4> QED
        BY <1>9, <3>2, <3>3, <4>1
    <3>4. CASE f # e
      BY <1>3, <1>8, <3>2, <3>4
    <3> QED
      BY <3>3, <3>4
  <2> QED
    BY <2>2, <2>3 DEF AllocatedIsOwned
<1>12. /\ TablesAreFolders' /\ parent \in FolderTables'
  <2>1. VisibleFolders' = VisibleFolders \ {e}
    BY <1>3, <1>8 DEF VisibleFolders
  <2>2. \A f \in VisibleFolders' : EntryAt(f)'.cluster = EntryAt(f).cluster
    BY <1>8 DEF VisibleFolders
  <2>3. FolderTables' = {ROOT_CLUSTER_NUMBER} \cup {EntryAt(f).cluster : f \in VisibleFolders \ {e}}
    BY <2>1, <2>2 DEF FolderTables
  <2>4. CASE pc = "free"
    <3>1. e \notin VisibleFolders
      BY <1>1, <1>5, <2>4 DEF VisibleFolders
    <3>2. FolderTables' = FolderTables
      BY <2>3, <3>1 DEF FolderTables
    <3>3. Tables' = Tables
      BY <1>1, <2>4 DEF Tables, IsTable
    <3> QED
      BY <1>7, <3>2, <3>3 DEF Sane, Healthy, TablesAreFolders
  <2>5. CASE pc = "parent"
    <3>1. \A f \in VisibleFolders \ {e} : EntryAt(f).cluster # c
      BY <1>other DEF VisibleFolders
    <3>2. e \in VisibleFolders /\ EntryAt(e).cluster = c /\ c # ROOT_CLUSTER_NUMBER
      <4>1. disk[parent].entry[s].folder
        BY <1>1, <2>5
      <4>2. e \in VisibleFolders
        BY <1>4, <1>5, <4>1 DEF VisibleFolders
      <4>3. EntryAt(e).cluster = c
        BY <1>1, <1>5
      <4>4. c # ROOT_CLUSTER_NUMBER
        BY <1>5 DEF Free, ROOT_CLUSTER_NUMBER
      <4> QED
        BY <4>2, <4>3, <4>4
    <3>3. FolderTables' = FolderTables \ {c}
      BY <2>3, <3>1, <3>2 DEF FolderTables
    <3> QED
      BY <1>3, <1>7, <2>5, <3>3 DEF Sane, Healthy, TablesAreFolders
  <2> QED
    BY <2>4, <2>5
<1>13. DeleteIsSound'
  <2>1. disk'[parent] = disk[parent] /\ OpEntry' = disk[parent].entry[s]
    BY <1>1, <1>3, <1>6 DEF OpEntry
  <2>2. pc = "free" => \E k \in 1 .. CLUSTER_MAP_SIZE : IsChain(OpPath', fat', c, k)
    <3>1. SizeOf(e) \in 1 .. CLUSTER_MAP_SIZE
      BY <1>5, ChainFacts, ClustersAssumption
    <3> QED
      BY <1>1, <1>5, <1>9, <3>1
  <2> QED
    BY <1>1, <1>4, <1>6, <1>12, <2>1, <2>2 DEF DeleteIsSound
<1>14. WriteIsSound'
  BY <1>6 DEF WriteIsSound
<1>15. disk'[BOOT_SECTOR] = Boot
  <2>1. c # BOOT_SECTOR
    BY <1>5 DEF Free, BOOT_SECTOR, ROOT_CLUSTER_NUMBER
  <2> QED
    BY <1>1, <2>1, SomeClusters DEF Sane, Healthy, TypeInv, Fat32TypeOK
<1> QED
  BY <1>3, <1>6, <1>8, <1>10, <1>11, <1>12, <1>13, <1>14, <1>15 DEF Healthy

(* The steps of delete that give a cluster back.                           *)
LEMMA FreeStep ==
    ASSUME Sane, FreeCluster \/ FreeLastCluster
    PROVE  /\ Healthy'
           /\ VisibleSlots' = VisibleSlots /\ \A e \in VisibleSlots : IsKept(e)
<1> DEFINE c == op.idx
           p == OpPath
           q == Tail(p)
<1>1. /\ op \in DeleteOp /\ op.pc = "free" /\ op \notin WriteOp /\ c \in Clusters
      /\ disk' = [disk EXCEPT ![c] = Zero]
      /\ fat' = [fat EXCEPT ![c] = FAT32_FAT_EMPTY_ENTRY]
      /\ disk_fat' = disk_fat /\ defect' = defect
      /\ \/ fat[c] # FAT32_FAT_END_OF_FILE /\ op' = [op EXCEPT !.idx = fat[c]]
         \/ fat[c] = FAT32_FAT_END_OF_FILE /\ op' = [op EXCEPT !.pc = "parent"]
  BY OpKinds DEF FreeCluster, FreeLastCluster, Sane, TypeInv
<1>2. TypeInv'
  <2>1. [Next]_vars
    BY DEF Next, DriverStep
  <2> QED
    BY <2>1, TypeStep DEF Sane
<1>3. /\ op'.pc = (IF fat[c] = FAT32_FAT_END_OF_FILE THEN "parent" ELSE "free")
      /\ op'.idx = (IF fat[c] = FAT32_FAT_END_OF_FILE THEN c ELSE fat[c])
      /\ op'.parent = op.parent /\ op'.slot = op.slot /\ op'.table = op.table
      /\ op' \in DeleteOp /\ op' \notin WriteOp
      /\ op' \notin {Idle, Lost, NoTable, NoRoot}
  <2>1. /\ op'.pc = (IF fat[c] = FAT32_FAT_END_OF_FILE THEN "parent" ELSE "free")
        /\ op'.idx = (IF fat[c] = FAT32_FAT_END_OF_FILE THEN c ELSE fat[c])
        /\ op'.parent = op.parent /\ op'.slot = op.slot /\ op'.table = op.table
    BY <1>1 DEF DeleteOp
  <2> QED
    BY <1>2, <2>1, OpKindsNext DEF TypeInv
<1>4. PICK n \in 1 .. CLUSTER_MAP_SIZE : IsChain(p, fat, c, n)
  BY <1>1 DEF Sane, Healthy, DeleteIsSound
<1>5. /\ OpEntry.used /\ op.parent \in FolderTables
      /\ op.table = [disk[op.parent] EXCEPT !.entry[op.slot] = DeleteEntry(@)]
  BY <1>1 DEF Sane, Healthy, DeleteIsSound
<1>6. OpTables = {} /\ OpTables' = {}
  BY <1>1, <1>3 DEF OpTables
<1>7. /\ p \in Seq(Free) /\ Len(p) = n /\ DOMAIN p = 1 .. n /\ n \in Nat /\ n >= 1
      /\ p[1] = c /\ c \in Free /\ p # << >>
      /\ \A k \in 1 .. n : p[k] \in Free
      /\ \A j, k \in 1 .. n : p[j] = p[k] => j = k
  BY <1>4, ChainFacts, SaneParts DEF PathsAreApart
<1>8. /\ q \in Seq(Free) /\ Len(q) = n - 1 /\ DOMAIN q = 1 .. n - 1
      /\ \A k \in 1 .. n - 1 : q[k] = p[k + 1]
  BY <1>7
<1>9. fat[c] = FAT32_FAT_END_OF_FILE <=> n = 1
  <2>1. CASE n = 1
    BY <1>4, <1>7, <2>1, ChainFacts
  <2>2. CASE n # 1
    <3>1. fat[c] = p[2] /\ 2 \in 1 .. n
      BY <1>4, <1>7, <2>2, ChainShortened
    <3> QED
      BY <1>7, <2>2, <3>1, SpecialValues, SomeClusters
  <2> QED
    BY <2>1, <2>2
<1>10. /\ disk'[c] = Zero /\ \A b \in Clusters \ {c} : disk'[b] = disk[b]
       /\ fat'[c] = FAT32_FAT_EMPTY_ENTRY /\ \A b \in Clusters \ {c} : fat'[b] = fat[b]
  BY <1>1 DEF Sane, TypeInv, Fat32TypeOK
<1> HIDE DEF p, q
<1>11. n > 1 => /\ IsChain(q, fat', fat[c], n - 1) /\ n - 1 \in 1 .. CLUSTER_MAP_SIZE
  <2> SUFFICES ASSUME n > 1
               PROVE IsChain(q, fat', fat[c], n - 1) /\ n - 1 \in 1 .. CLUSTER_MAP_SIZE
    OBVIOUS
  <2>1. IsChain(q, fat, fat[c], n - 1)
    BY <1>4, ChainShortened DEF q
  <2>2. ASSUME NEW k \in DOMAIN q PROVE fat'[q[k]] = fat[q[k]]
    <3>1. q[k] = p[k + 1] /\ k + 1 \in 1 .. n /\ 1 \in 1 .. n /\ k + 1 # 1
      BY <1>7, <1>8
    <3>2. q[k] \in Clusters \ {c}
      BY <1>7, <3>1, SomeClusters
    <3> QED
      BY <1>10, <3>2
  <2> QED
    BY <1>7, <2>1, <2>2, ChainKept, ClustersAssumption
<1>12. OpPath' = q
  <2>1. CASE n = 1
    <3>1. OpPath' = << >>
      BY <1>3, <1>9, <2>1 DEF OpPath
    <3>2. q = << >>
      BY <1>8, <2>1
    <3> QED
      BY <3>1, <3>2
  <2>2. CASE n # 1
    <3>1. OpPath' = Chain(fat', fat[c])
      BY <1>3, <1>9, <2>2 DEF OpPath
    <3> QED
      BY <1>7, <1>11, <2>2, <3>1, ChainFacts
  <2> QED
    BY <2>1, <2>2
<1>13. \A e \in VisibleSlots : \A k \in DOMAIN PathOf(e) : PathOf(e)[k] # c
  BY <1>7 DEF Sane, Healthy, PathsAreApart, p
<1>14. c \notin FolderTables /\ c \notin Tables
  <2>1. \A e \in VisibleFolders : EntryAt(e).cluster # c
    BY <1>13, VisibleFacts DEF VisibleFolders
  <2>2. c # ROOT_CLUSTER_NUMBER
    BY <1>7 DEF Free, ROOT_CLUSTER_NUMBER
  <2> QED
    BY <1>6, <2>1, <2>2 DEF FolderTables, Sane, Healthy, TablesAreFolders
<1>15. Tables' = Tables /\ \A t \in Tables : disk'[t] = disk[t]
  <2>1. disk'[c].kind # "table"
    BY <1>10 DEF Zero
  <2> QED
    BY <1>10, <1>14, <2>1 DEF Tables, IsTable
<1>16. OpEntry' = OpEntry /\ OpSlot' = OpSlot /\ disk'[op.parent] = disk[op.parent]
  BY <1>1, <1>3, <1>15, OpFacts DEF OpEntry, OpSlot
<1>17. UsedSlots' = UsedSlots
  BY <1>15 DEF UsedSlots, EntryAt
<1>18. VisibleSlots' = VisibleSlots
  <2>1. VisibleSlots = UsedSlots \ {OpSlot}
    BY <1>1, OpFacts
  <2>2. Fat32TypeOK'
    BY <1>2 DEF TypeInv
  <2>3. VisibleSlots' = UsedSlots' \ {OpSlot'}
    BY <1>3, <2>2, OpVisibleNext
  <2> QED
    BY <1>16, <1>17, <2>1, <2>3
<1>19. ASSUME NEW e \in VisibleSlots
       PROVE  IsKept(e)
  <2>1. EntryAt(e)' = EntryAt(e)
    BY <1>15, VisibleFacts DEF EntryAt
  <2>2. \A k \in DOMAIN PathOf(e) :
          fat'[PathOf(e)[k]] = fat[PathOf(e)[k]] /\ disk'[PathOf(e)[k]] = disk[PathOf(e)[k]]
    BY <1>10, <1>13, VisibleFacts, SomeClusters
  <2> QED
    BY <1>18, <2>1, <2>2 DEF IsKept
<1>20. /\ EntriesAreSound' /\ FolderTables' = FolderTables
       /\ \A e \in VisibleSlots' : PathOf(e)' = PathOf(e)
  <2>1. ASSUME NEW e \in VisibleSlots, EntryAt(e).folder
        PROVE  /\ disk'[EntryAt(e).cluster].kind = "table"
               /\ disk'[EntryAt(e).cluster].parent = disk[EntryAt(e).cluster].parent
    BY <1>15, <2>1, VisibleFacts, SomeClusters DEF Tables, IsTable
  <2> QED
    BY <1>1, <1>18, <1>19, <2>1, KeptEntries
<1>21. NamesAreUnique'
  BY <1>15, SaneParts DEF NamesAreUnique
<1>22. PathsAreApart'
  <2>1. \A j \in DOMAIN q : j + 1 \in DOMAIN p /\ q[j] = p[j + 1] /\ j \in Nat
    BY <1>7, <1>8
  <2>2. /\ \A j, k \in DOMAIN q : q[j] = q[k] => j = k
        /\ \A e \in VisibleSlots : \A j \in DOMAIN q, k \in DOMAIN PathOf(e) : q[j] # PathOf(e)[k]
    <3>1. ASSUME NEW j \in DOMAIN q, NEW k \in DOMAIN q, q[j] = q[k] PROVE j = k
      <4>1. j + 1 = k + 1
        BY <1>7, <2>1, <3>1
      <4> QED
        BY <2>1, <4>1
    <3>2. \A e \in VisibleSlots : \A j \in DOMAIN p, k \in DOMAIN PathOf(e) : p[j] # PathOf(e)[k]
      BY DEF Sane, Healthy, PathsAreApart, p
    <3> QED
      BY <2>1, <3>1, <3>2
  <2>3. \A d, e \in VisibleSlots : \A j \in DOMAIN PathOf(d), k \in DOMAIN PathOf(e) :
          PathOf(d)[j] = PathOf(e)[k] => d = e /\ j = k
    BY SaneParts DEF PathsAreApart
  <2> QED
    BY <1>12, <1>18, <1>20, <2>2, <2>3 DEF PathsAreApart
<1>23. AllocatedIsOwned'
  <2>1. ASSUME NEW b \in 0 .. ROOT_CLUSTER_NUMBER PROVE fat'[b] # FAT32_FAT_EMPTY_ENTRY
    BY <1>7, <1>10, SomeClusters DEF Sane, Healthy, AllocatedIsOwned, Free
  <2>2. ASSUME NEW b \in Free, fat'[b] # FAT32_FAT_EMPTY_ENTRY
        PROVE  \/ \E k \in DOMAIN OpPath' : b = OpPath'[k]
               \/ \E e \in VisibleSlots' : \E k \in DOMAIN PathOf(e)' : b = PathOf(e)'[k]
    <3>1. b # c /\ fat[b] # FAT32_FAT_EMPTY_ENTRY
      BY <1>10, <2>2, SomeClusters
    <3>2. CASE \E k \in DOMAIN p : b = p[k]
      <4>1. PICK k \in 1 .. n : b = p[k] /\ k # 1
        BY <1>7, <3>1, <3>2
      <4>2. k - 1 \in 1 .. n - 1 /\ q[k - 1] = p[k]
        BY <1>7, <1>8, <4>1
      <4> QED
        BY <1>8, <1>12, <4>1, <4>2
    <3>3. CASE ~ \E k \in DOMAIN p : b = p[k]
      BY <1>18, <1>20, <3>1, <3>3 DEF Sane, Healthy, AllocatedIsOwned, p
    <3> QED
      BY <3>2, <3>3
  <2> QED
    BY <2>1, <2>2 DEF AllocatedIsOwned
<1>24. TablesAreFolders'
  BY <1>6, <1>15, <1>20, <1>18 DEF Sane, Healthy, TablesAreFolders
<1>25. DeleteIsSound'
  <2>1. op'.pc = "free" => \E k \in 1 .. CLUSTER_MAP_SIZE : IsChain(OpPath', fat', op'.idx, k)
    BY <1>3, <1>7, <1>9, <1>11, <1>12
  <2> QED
    BY <1>3, <1>5, <1>16, <1>18, <1>20, <2>1 DEF DeleteIsSound
<1>26. WriteIsSound'
  BY <1>3 DEF WriteIsSound
<1>27. disk'[BOOT_SECTOR] = Boot
  <2>1. BOOT_SECTOR # c
    BY <1>7 DEF Free, BOOT_SECTOR, ROOT_CLUSTER_NUMBER
  <2> QED
    BY <1>10, <2>1, SomeClusters DEF Sane, Healthy
<1> QED
  BY <1>3, <1>18, <1>19, <1>20, <1>21, <1>22, <1>23, <1>24, <1>25, <1>26, <1>27 DEF Healthy

(* The step of delete that writes the table without the entry.             *)
LEMMA WriteParentStep ==
    ASSUME Sane, WriteParent
    PROVE  /\ Healthy'
           /\ VisibleSlots' = VisibleSlots /\ \A e \in VisibleSlots : IsKept(e)
<1> DEFINE t == op.parent
           s == op.slot
<1>1. /\ op \in DeleteOp /\ op.pc = "parent" /\ op \notin WriteOp
      /\ disk' = [disk EXCEPT ![t] = op.table] /\ op' = [op EXCEPT !.pc = "flush"]
      /\ disk_fat' = disk_fat /\ fat' = fat /\ defect' = defect
  BY OpKinds DEF WriteParent, Sane, TypeInv
<1>2. TypeInv'
  <2>1. [Next]_vars
    BY DEF Next, DriverStep
  <2> QED
    BY <2>1, TypeStep DEF Sane
<1>3. /\ op'.pc = "flush" /\ op'.parent = t /\ op'.slot = s /\ op' \in DeleteOp
      /\ op' \notin WriteOp /\ op' \notin {Idle, Lost, NoTable, NoRoot}
  <2>1. op'.pc = "flush" /\ op'.parent = t /\ op'.slot = s /\ op' \in DeleteOp
    BY <1>1 DEF DeleteOp
  <2> QED
    BY <1>2, <2>1, OpKindsNext DEF TypeInv
<1>4. /\ OpEntry.used /\ t \in FolderTables
      /\ op.table = [disk[t] EXCEPT !.entry[s] = DeleteEntry(@)]
  BY <1>1 DEF Sane, Healthy, DeleteIsSound
<1>5. OpTables = {} /\ OpTables' = {} /\ OpPath = << >> /\ OpPath' = << >>
  BY <1>1, <1>3 DEF OpTables, OpPath
<1>6. /\ t \in Tables /\ t \in Clusters /\ s \in Entries /\ disk[t] \in TableType
      /\ VisibleSlots = UsedSlots \ {OpSlot} /\ OpSlot = << t, s >>
  BY <1>1, OpFacts DEF OpSlot
<1>7. /\ disk'[t].kind = "table" /\ disk'[t].parent = disk[t].parent
      /\ disk'[t].entry = [disk[t].entry EXCEPT ![s] = DeleteEntry(disk[t].entry[s])]
      /\ \A b \in Clusters \ {t} : disk'[b] = disk[b]
  <2>1. disk'[t] = op.table /\ \A b \in Clusters \ {t} : disk'[b] = disk[b]
    BY <1>1, <1>6 DEF Sane, TypeInv, Fat32TypeOK
  <2> QED
    BY <1>4, <1>6, <2>1 DEF TableType
<1>8. Tables' = Tables
  BY <1>6, <1>7 DEF Tables, IsTable
<1> DEFINE gone == DeleteEntry(disk[t].entry[s])
<1>9. ASSUME NEW u \in Tables, NEW r \in Entries
      PROVE  disk'[u].entry[r] = IF u = t /\ r = s THEN gone ELSE disk[u].entry[r]
  <2>1. disk[u].entry \in [Entries -> EntryType] /\ u \in Clusters
    BY TableAt DEF Sane, TypeInv
  <2> QED
    BY <1>6, <1>7, <2>1
<1>10. ~gone.used /\ gone.name = NoName /\ gone.cluster = 0
  BY DEF DeleteEntry, EmptyEntry
<1>11. OpEntry' = gone /\ OpSlot' = OpSlot
  BY <1>3, <1>6, <1>9 DEF OpEntry, OpSlot
<1> HIDE DEF gone
<1>12. UsedSlots' = UsedSlots \ {<< t, s >>}
  <2>1. \A e \in Tables \X Entries : EntryAt(e)'.used <=> EntryAt(e).used /\ e # << t, s >>
    BY <1>6, <1>9, <1>10 DEF EntryAt
  <2> QED
    BY <1>8, <2>1 DEF UsedSlots
<1>13. VisibleSlots' = VisibleSlots
  BY <1>2, <1>3, <1>6, <1>11, <1>12, OpVisibleNext DEF TypeInv
<1>14. ASSUME NEW e \in VisibleSlots
       PROVE  IsKept(e)
  <2>1. e \in Tables \X Entries /\ e # << t, s >>
    BY <1>6 DEF VisibleSlots
  <2>2. EntryAt(e)' = EntryAt(e)
    BY <1>9, <2>1 DEF EntryAt
  <2>3. ASSUME NEW k \in DOMAIN PathOf(e), ~EntryAt(e).folder
        PROVE  disk'[PathOf(e)[k]] = disk[PathOf(e)[k]]
    BY <1>4, <1>7, <2>3, VisibleFacts, FilesAreNoTables, SomeClusters
  <2> QED
    BY <1>1, <1>13, <2>2, <2>3 DEF IsKept
<1>15. /\ EntriesAreSound' /\ FolderTables' = FolderTables
       /\ \A e \in VisibleSlots' : PathOf(e)' = PathOf(e)
  <2>1. ASSUME NEW e \in VisibleSlots, EntryAt(e).folder
        PROVE  /\ disk'[EntryAt(e).cluster].kind = "table"
               /\ disk'[EntryAt(e).cluster].parent = disk[EntryAt(e).cluster].parent
    BY <1>7, <2>1, VisibleFacts, SomeClusters DEF IsTable
  <2> QED
    BY <1>1, <1>13, <1>14, <2>1, KeptEntries
<1>16. NamesAreUnique'
  <2>1. ASSUME NEW u \in Tables, NEW r \in Entries
        PROVE  IF disk'[u].entry[r].used
               THEN disk'[u].entry[r].name \in Names \ {NoName}
               ELSE disk'[u].entry[r].name = NoName /\ disk'[u].entry[r].cluster = 0
    BY <1>9, <1>10, SaneParts DEF NamesAreUnique
  <2>2. ASSUME NEW u \in Tables, NEW q \in Entries, NEW r \in Entries,
               disk'[u].entry[r].used, disk'[u].entry[q].used,
               disk'[u].entry[r].name = disk'[u].entry[q].name
        PROVE  r = q
    BY <1>9, <1>10, <2>2, SaneParts DEF NamesAreUnique
  <2> QED
    BY <1>8, <2>1, <2>2 DEF NamesAreUnique
<1>17. PathsAreApart'
  BY <1>5, <1>13, <1>15, KeptPaths
<1>18. AllocatedIsOwned'
  <2>1. AllocatedIsOwned
    BY DEF Sane, Healthy
  <2> QED
    BY <1>1, <1>5, <1>13, <1>15, <2>1 DEF AllocatedIsOwned
<1>19. TablesAreFolders'
  BY <1>5, <1>8, <1>13, <1>15 DEF Sane, Healthy, TablesAreFolders
<1>20. DeleteIsSound'
  BY <1>3, <1>4, <1>10, <1>11, <1>13, <1>15 DEF DeleteIsSound
<1>21. WriteIsSound'
  BY <1>3 DEF WriteIsSound
<1>22. disk'[BOOT_SECTOR] = Boot
  <2>1. BOOT_SECTOR # t
    BY <1>6 DEF Sane, Healthy, Tables, IsTable, Boot
  <2> QED
    BY <1>7, <2>1, SomeClusters DEF Sane, Healthy
<1> QED
  BY <1>3, <1>13, <1>14, <1>15, <1>16, <1>17, <1>18, <1>19, <1>20, <1>21, <1>22 DEF Healthy

(* What the disk says of the clusters of a chain is what the driver has.   *)
LEMMA SavedPaths ==
    ASSUME Sane, NEW e \in VisibleSlots, NEW k \in DOMAIN PathOf(e)
    PROVE  disk_fat[PathOf(e)[k]] = fat[PathOf(e)[k]]
<1> DEFINE p == PathOf(e)
           n == SizeOf(e)
<1>1. /\ IsChain(p, fat, EntryAt(e).cluster, n) /\ IsChain(p, disk_fat, EntryAt(e).cluster, n)
      /\ n \in Nat /\ DOMAIN p = 1 .. n
  BY VisibleFacts
<1> HIDE DEF p, n
<1>2. \A j \in 1 .. n - 1 : fat[p[j]] = p[j + 1] /\ disk_fat[p[j]] = p[j + 1]
  BY <1>1 DEF IsChain
<1>3. fat[p[n]] = disk_fat[p[n]]
  BY <1>1 DEF IsChain
<1>4. k \in 1 .. n - 1 \/ k = n
  BY <1>1 DEF p
<1> QED
  BY <1>2, <1>3, <1>4 DEF p

(* Between operations there is no slot, no path and no table of an         *)
(* operation.                                                              *)
LEMMA IdleFacts ==
    Fat32TypeOK /\ op = Idle =>
        /\ OpPath = << >> /\ OpTables = {} /\ WriteIsSound /\ DeleteIsSound
        /\ op \notin {Lost, NoTable, NoRoot} /\ VisibleSlots = UsedSlots
<1> SUFFICES ASSUME Fat32TypeOK, op = Idle
             PROVE  /\ OpPath = << >> /\ OpTables = {} /\ WriteIsSound /\ DeleteIsSound
                    /\ op \notin {Lost, NoTable, NoRoot} /\ VisibleSlots = UsedSlots
  OBVIOUS
<1>1. op \notin WriteOp \cup DeleteOp
  BY OpKinds
<1>2. op \notin {Lost, NoTable, NoRoot}
  BY DEF Idle, Lost, NoTable, NoRoot
<1> QED
  BY <1>1, <1>2, OpVisible DEF OpPath, OpTables, WriteIsSound, DeleteIsSound

LEMMA IdleFactsNext ==
    Fat32TypeOK' /\ op' = Idle =>
        /\ OpPath' = << >> /\ OpTables' = {} /\ WriteIsSound' /\ DeleteIsSound'
        /\ op' \notin {Lost, NoTable, NoRoot} /\ VisibleSlots' = UsedSlots'
<1>1. (Fat32TypeOK /\ op = Idle =>
        /\ OpPath = << >> /\ OpTables = {} /\ WriteIsSound /\ DeleteIsSound
        /\ op \notin {Lost, NoTable, NoRoot} /\ VisibleSlots = UsedSlots)'
  BY IdleFacts, PTL
<1> QED
  BY <1>1

(* The last write of delete.                                               *)
LEMMA DeleteFlushStep ==
    ASSUME Sane, Flush, op \in DeleteOp
    PROVE  /\ Healthy'
           /\ VisibleSlots' = VisibleSlots /\ \A e \in VisibleSlots : IsKept(e)
<1>1. /\ op.pc = "flush" /\ op' = Idle /\ disk_fat' = fat /\ disk' = disk /\ fat' = fat
      /\ op \notin WriteOp
  BY OpKinds DEF Flush, Sane, TypeInv
<1>2. TypeInv'
  <2>1. [Next]_vars
    BY DEF Next, DriverStep
  <2> QED
    BY <2>1, TypeStep DEF Sane
<1>3. /\ OpPath' = << >> /\ OpTables' = {} /\ WriteIsSound' /\ DeleteIsSound'
      /\ op' \notin {Lost, NoTable, NoRoot} /\ VisibleSlots' = UsedSlots'
  BY <1>1, <1>2, IdleFactsNext DEF TypeInv
<1>4. OpPath = << >> /\ OpTables = {}
  BY <1>1 DEF OpPath, OpTables
<1>5. Tables' = Tables /\ UsedSlots' = UsedSlots
  BY <1>1 DEF UsedSlots, Tables, IsTable, EntryAt
<1>6. VisibleSlots' = VisibleSlots
  <2>1. ~OpEntry.used
    BY <1>1 DEF Sane, Healthy, DeleteIsSound
  <2>2. VisibleSlots = UsedSlots \ {OpSlot} /\ OpSlot \notin UsedSlots
    BY <2>1, OpFacts DEF UsedSlots
  <2> QED
    BY <1>3, <1>5, <2>2
<1>7. \A e \in VisibleSlots : IsKept(e)
  BY <1>1, <1>6 DEF IsKept, EntryAt
<1>8. /\ EntriesAreSound' /\ FolderTables' = FolderTables
      /\ \A e \in VisibleSlots' : PathOf(e)' = PathOf(e)
  <2>1. \A e \in VisibleSlots : \A k \in DOMAIN PathOf(e) :
            disk_fat'[PathOf(e)[k]] = disk_fat[PathOf(e)[k]]
    BY <1>1, SavedPaths
  <2>2. ASSUME NEW e \in VisibleSlots, EntryAt(e).folder
        PROVE  /\ disk'[EntryAt(e).cluster].kind = "table"
               /\ disk'[EntryAt(e).cluster].parent = disk[EntryAt(e).cluster].parent
    BY <1>1, <2>2, VisibleFacts DEF IsTable
  <2> QED
    BY <1>6, <1>7, <2>1, <2>2, KeptEntries
<1>9. NamesAreUnique'
  BY <1>1, <1>5, SaneParts DEF NamesAreUnique
<1>10. PathsAreApart'
  BY <1>3, <1>6, <1>8, KeptPaths
<1>11. AllocatedIsOwned'
  <2>1. AllocatedIsOwned
    BY DEF Sane, Healthy
  <2> QED
    BY <1>1, <1>3, <1>4, <1>6, <1>8, <2>1 DEF AllocatedIsOwned
<1>12. TablesAreFolders'
  BY <1>3, <1>4, <1>5, <1>6, <1>8 DEF Sane, Healthy, TablesAreFolders
<1>13. disk'[BOOT_SECTOR] = Boot
  BY <1>1 DEF Sane, Healthy
<1> QED
  BY <1>1, <1>3, <1>6, <1>7, <1>8, <1>9, <1>10, <1>11, <1>12, <1>13 DEF Healthy

(* The last write of write makes the entry visible. *)
LEMMA WriteFlushStep ==
    ASSUME Sane, Flush, op \in WriteOp
    PROVE  /\ Healthy'
           /\ VisibleSlots' = VisibleSlots \cup {OpSlot} /\ OpSlot \notin VisibleSlots
           /\ \A e \in VisibleSlots : IsKept(e)
           /\ \A e : e = OpSlot => PathOf(e)' = OpPath /\ EntryAt(e)' = OpEntry
<1> DEFINE o == OpSlot
           p == OpPath
<1>1. /\ op.pc = "flush" /\ op' = Idle /\ disk_fat' = fat /\ disk' = disk /\ fat' = fat
  BY DEF Flush
<1>2. TypeInv'
  <2>1. [Next]_vars
    BY DEF Next, DriverStep
  <2> QED
    BY <2>1, TypeStep DEF Sane
<1>3. /\ OpPath' = << >> /\ OpTables' = {} /\ WriteIsSound' /\ DeleteIsSound'
      /\ op' \notin {Lost, NoTable, NoRoot} /\ VisibleSlots' = UsedSlots'
  BY <1>1, <1>2, IdleFactsNext DEF TypeInv
<1>4. /\ op.parent \in FolderTables
      /\ OpEntry.used /\ OpEntry.filesize = op.size
      /\ OpEntry.folder <=> op.size = 0
      /\ IsChain(p, fat, OpEntry.cluster, IF op.size = 0 THEN 1 ELSE op.i)
      /\ op.i = op.size
      /\ op.size = 0 => op.idx = OpEntry.cluster /\ disk[op.idx] = NewTable(op.parent)
  BY <1>1 DEF Sane, Healthy, WriteIsSound
<1>5. OpTables = IF op.size = 0 THEN {OpEntry.cluster} ELSE {}
  BY <1>1, <1>4 DEF OpTables
<1>6. /\ VisibleSlots = UsedSlots \ {o} /\ o \in UsedSlots /\ o = << op.parent, op.slot >>
      /\ OpEntry = EntryAt(o)
  BY <1>4, OpFacts DEF UsedSlots, OpSlot
<1>7. Tables' = Tables /\ UsedSlots' = UsedSlots
  BY <1>1 DEF UsedSlots, Tables, IsTable, EntryAt
<1>8. VisibleSlots' = VisibleSlots \cup {o} /\ o \notin VisibleSlots
  BY <1>3, <1>6, <1>7
<1>9. /\ \A e \in VisibleSlots' : EntryAt(e)' = EntryAt(e) /\ PathOf(e)' = PathOf(e)
                                  /\ SizeOf(e)' = SizeOf(e)
      /\ p = PathOf(o)
  <2>1. \A e \in VisibleSlots' : EntryAt(e)' = EntryAt(e) /\ PathOf(e)' = PathOf(e)
                                 /\ SizeOf(e)' = SizeOf(e)
    BY <1>1 DEF EntryAt, PathOf, SizeOf
  <2>2. p = PathOf(o)
    BY <1>1, <1>6 DEF OpPath, PathOf
  <2> QED
    BY <2>1, <2>2
<1>10. \A e \in VisibleSlots : IsKept(e)
  BY <1>1, <1>8, <1>9 DEF IsKept
<1> HIDE DEF o, p
<1>11. EntriesAreSound'
  <2>1. ASSUME NEW e \in VisibleSlots'
        PROVE  /\ EntryAt(e).folder <=> EntryAt(e).filesize = 0
               /\ IsChain(PathOf(e), fat, EntryAt(e).cluster, SizeOf(e))
               /\ EntryAt(e).folder => IsTable(EntryAt(e).cluster)
                                       /\ disk[EntryAt(e).cluster].parent = e[1]
    <3>1. CASE e \in VisibleSlots
      BY <3>1, VisibleFacts
    <3>2. CASE e = o
      <4>1. IsChain(PathOf(o), fat, EntryAt(o).cluster, SizeOf(o))
        BY <1>4, <1>6, <1>9 DEF SizeOf
      <4>2. op.size = 0 => IsTable(EntryAt(o).cluster) /\ disk[EntryAt(o).cluster].parent = o[1]
        <5>1. op.size = 0 => disk[EntryAt(o).cluster] = NewTable(op.parent)
          BY <1>4, <1>6
        <5> QED
          BY <1>6, <5>1 DEF NewTable, IsTable
      <4> QED
        BY <1>4, <1>6, <3>2, <4>1, <4>2
    <3> QED
      BY <1>8, <3>1, <3>2
  <2>2. ASSUME NEW e \in VisibleSlots'
        PROVE  (/\ EntryAt(e).folder <=> EntryAt(e).filesize = 0
                /\ IsChain(PathOf(e), fat, EntryAt(e).cluster, SizeOf(e))
                /\ IsChain(PathOf(e), disk_fat, EntryAt(e).cluster, SizeOf(e))
                /\ EntryAt(e).folder => IsTable(EntryAt(e).cluster)
                                        /\ disk[EntryAt(e).cluster].parent = e[1])'
    <3>1. IsTable(EntryAt(e).cluster)' = IsTable(EntryAt(e).cluster)
      BY <1>1, <1>9 DEF IsTable
    <3> QED
      BY <1>1, <1>9, <2>1, <3>1
  <2> QED
    BY <2>2 DEF EntriesAreSound
<1>12. NamesAreUnique'
  BY <1>1, <1>7, SaneParts DEF NamesAreUnique
<1>13. PathsAreApart'
  <2>1. /\ \A d, e \in VisibleSlots : \A j \in DOMAIN PathOf(d), k \in DOMAIN PathOf(e) :
              PathOf(d)[j] = PathOf(e)[k] => d = e /\ j = k
        /\ \A e \in VisibleSlots : \A j \in DOMAIN PathOf(o), k \in DOMAIN PathOf(e) :
              PathOf(o)[j] # PathOf(e)[k]
        /\ \A j, k \in DOMAIN PathOf(o) : PathOf(o)[j] = PathOf(o)[k] => j = k
    BY <1>9 DEF Sane, Healthy, PathsAreApart, p
  <2>2. \A d, e \in VisibleSlots' : \A j \in DOMAIN PathOf(d), k \in DOMAIN PathOf(e) :
              PathOf(d)[j] = PathOf(e)[k] => d = e /\ j = k
    BY <1>8, <2>1
  <2> QED
    BY <1>3, <1>9, <2>2 DEF PathsAreApart
<1>14. AllocatedIsOwned'
  <2>1. ASSUME NEW b \in Free, fat[b] # FAT32_FAT_EMPTY_ENTRY
        PROVE  \E e \in VisibleSlots' : \E k \in DOMAIN PathOf(e) : b = PathOf(e)[k]
    BY <1>8, <1>9, <2>1 DEF Sane, Healthy, AllocatedIsOwned, p
  <2>2. \A b \in 0 .. ROOT_CLUSTER_NUMBER : fat[b] # FAT32_FAT_EMPTY_ENTRY
    BY DEF Sane, Healthy, AllocatedIsOwned
  <2> QED
    BY <1>1, <1>9, <2>1, <2>2 DEF AllocatedIsOwned
<1>15. TablesAreFolders'
  <2>1. VisibleFolders' = VisibleFolders \cup (IF op.size = 0 THEN {o} ELSE {})
    BY <1>4, <1>6, <1>8, <1>9 DEF VisibleFolders
  <2>2. \A e \in VisibleFolders' : EntryAt(e)'.cluster = EntryAt(e).cluster
    BY <1>9 DEF VisibleFolders
  <2>3. FolderTables' = FolderTables \cup OpTables
    BY <1>5, <1>6, <2>1, <2>2 DEF FolderTables
  <2> QED
    BY <1>3, <1>7, <2>3 DEF Sane, Healthy, TablesAreFolders
<1>16. disk'[BOOT_SECTOR] = Boot
  BY <1>1 DEF Sane, Healthy
<1>17. ASSUME NEW e, e = o
       PROVE  PathOf(e)' = p /\ EntryAt(e)' = OpEntry
  <2>1. e \in VisibleSlots'
    BY <1>8, <1>17
  <2>2. PathOf(e) = p /\ EntryAt(e) = OpEntry
    BY <1>6, <1>9, <1>17
  <2> QED
    BY <1>9, <2>1, <2>2
<1> QED
  BY <1>1, <1>3, <1>8, <1>10, <1>11, <1>12, <1>13, <1>14, <1>15, <1>16, <1>17 DEF Healthy, o, p

(* The steps that cannot be taken as long as nothing went wrong. *)
LEMMA NoOtherStep ==
    ASSUME Sane
    PROVE  ~FreeOutside /\ ~FormatTable /\ ~FormatRoot
<1>1. ~FormatTable /\ ~FormatRoot
  BY DEF Sane, Healthy, FormatTable, FormatRoot
<1>2. ASSUME FreeOutside PROVE FALSE
  <2>1. op \in DeleteOp /\ op.pc = "free"
    BY <1>2, OpKinds DEF FreeOutside, Sane, TypeInv
  <2>2. PICK n \in 1 .. CLUSTER_MAP_SIZE : IsChain(OpPath, fat, op.idx, n)
    BY <2>1 DEF Sane, Healthy, DeleteIsSound
  <2>3. op.idx \in Clusters
    BY <2>2, ChainFacts, SomeClusters
  <2> QED
    BY <1>2, <2>3 DEF FreeOutside
<1> QED
  BY <1>1, <1>2

(* A stutter keeps the invariant.                                          *)
LEMMA UnchangedHealthy == Healthy /\ UNCHANGED vars => Healthy'
<1> SUFFICES ASSUME Healthy, UNCHANGED vars PROVE Healthy'
  OBVIOUS
<1>1. disk' = disk /\ disk_fat' = disk_fat /\ fat' = fat /\ op' = op
  BY DEF vars
<1>2. Tables' = Tables /\ VisibleSlots' = VisibleSlots /\ OpPath' = OpPath
      /\ OpTables' = OpTables /\ VisibleFolders' = VisibleFolders /\ FolderTables' = FolderTables
      /\ OpEntry' = OpEntry
  BY <1>1 DEF Tables, IsTable, VisibleSlots, OpPath, OpTables, VisibleFolders, FolderTables,
              OpEntry, EntryAt, OpSlot
<1>3. \A e \in VisibleSlots : EntryAt(e)' = EntryAt(e) /\ PathOf(e)' = PathOf(e)
                               /\ SizeOf(e)' = SizeOf(e)
  BY <1>1 DEF EntryAt, PathOf, SizeOf
<1>4. NamesAreUnique'
  BY <1>1, <1>2 DEF Healthy, NamesAreUnique
<1>5. EntriesAreSound'
  <2>1. EntriesAreSound
    BY DEF Healthy
  <2> QED
    BY <1>1, <1>2, <1>3, <2>1 DEF EntriesAreSound, IsTable
<1>6. PathsAreApart'
  <2>1. PathsAreApart
    BY DEF Healthy
  <2> QED
    BY <1>2, <1>3, <2>1 DEF PathsAreApart
<1>7. AllocatedIsOwned'
  <2>1. AllocatedIsOwned
    BY DEF Healthy
  <2> QED
    BY <1>1, <1>2, <1>3, <2>1 DEF AllocatedIsOwned
<1>8. TablesAreFolders'
  BY <1>2 DEF Healthy, TablesAreFolders
<1>9. WriteIsSound' /\ DeleteIsSound'
  BY <1>1, <1>2 DEF Healthy, WriteIsSound, DeleteIsSound
<1> QED
  BY <1>1, <1>4, <1>5, <1>6, <1>7, <1>8, <1>9 DEF Healthy

(* A loss of power between operations changes nothing. *)
LEMMA IdleReboot ==
    ASSUME Sane, Reboot, op = Idle
    PROVE  UNCHANGED vars
<1>1. disk[BOOT_SECTOR] = Boot /\ disk_fat = fat
  BY DEF Sane, Healthy
<1> QED
  BY <1>1 DEF Reboot, vars

(* Every step keeps the invariant.                                         *)
LEMMA HealthyStep ==
    ASSUME Sane, [Next]_vars, defect' = "none"
    PROVE  Healthy'
<1>1. CASE \E parent \in Tables, n \in Names, size \in 0 .. MaxSize, p \in Payloads :
              Write(parent, n, size, p)
  BY <1>1, WriteHealthy
<1>2. CASE \E parent \in Tables, n \in Names : DeleteFolder(parent, n) \/ DeleteFile(parent, n)
  BY <1>2, DeleteHealthy
<1>3. CASE WriteFolder
  BY <1>3, WriteFolderStep
<1>4. CASE WriteCluster
  BY <1>4, WriteClusterStep
<1>5. CASE RunOutOfSpace
  BY <1>5 DEF RunOutOfSpace, Remember
<1>6. CASE Flush
  <2>1. op \in WriteOp \cup DeleteOp
    BY <1>6, OpKinds DEF Flush, Sane, TypeInv
  <2> QED
    BY <1>6, <2>1, WriteFlushStep, DeleteFlushStep
<1>7. CASE FreeCluster \/ FreeLastCluster
  BY <1>7, FreeStep
<1>8. CASE FreeOutside \/ FormatTable \/ FormatRoot
  BY <1>8, NoOtherStep
<1>9. CASE WriteParent
  BY <1>9, WriteParentStep
<1>10. CASE Reboot
  <2>1. op = Idle
    BY <1>10 DEF Reboot, Remember
  <2> QED
    BY <1>10, <2>1, IdleReboot, UnchangedHealthy DEF Sane
<1>11. CASE UNCHANGED vars
  BY <1>11, UnchangedHealthy DEF Sane
<1>12. CASE \E parent \in Clusters \ Tables, n \in Names : MisreadParent(parent, n)
  BY <1>12 DEF MisreadParent, Remember
<1> QED
  BY <1>1, <1>2, <1>3, <1>4, <1>5, <1>6, <1>7, <1>8, <1>9, <1>10, <1>11, <1>12
     DEF Next, DriverStep

(* It holds of the file system the inserter creates.                       *)
LEMMA HealthyInit == Init => Healthy
<1> SUFFICES ASSUME Init PROVE Healthy
  OBVIOUS
<1>1. /\ op = Idle /\ fat = NewFat /\ disk_fat = NewFat /\ Fat32TypeOK
      /\ disk = [c \in Clusters |->
                  CASE c = BOOT_SECTOR         -> Boot
                    [] c = ROOT_CLUSTER_NUMBER -> NewTable(ROOT_CLUSTER_NUMBER)
                    [] OTHER                   -> Zero]
  BY TypeInit DEF Init, TypeInv
<1>2. /\ OpPath = << >> /\ OpTables = {} /\ WriteIsSound /\ DeleteIsSound
      /\ op \notin {Lost, NoTable, NoRoot} /\ VisibleSlots = UsedSlots
  BY <1>1, IdleFacts
<1>3. disk[BOOT_SECTOR] = Boot /\ disk[ROOT_CLUSTER_NUMBER] = NewTable(ROOT_CLUSTER_NUMBER)
  BY <1>1, SomeClusters DEF BOOT_SECTOR, ROOT_CLUSTER_NUMBER
<1>4. Tables = {ROOT_CLUSTER_NUMBER}
  <2>1. Boot.kind # "table" /\ Zero.kind # "table" /\ NewTable(ROOT_CLUSTER_NUMBER).kind = "table"
    BY DEF Boot, Zero, NewTable
  <2> QED
    BY <1>1, <1>3, <2>1, SomeClusters DEF Tables, IsTable
<1>5. \A s \in Entries : disk[ROOT_CLUSTER_NUMBER].entry[s] = EmptyEntry
  BY <1>3 DEF NewTable
<1>6. ~EmptyEntry.used /\ EmptyEntry.name = NoName /\ EmptyEntry.cluster = 0
  BY DEF EmptyEntry
<1>7. UsedSlots = {}
  BY <1>4, <1>5, <1>6 DEF UsedSlots, EntryAt
<1>8. NamesAreUnique
  BY <1>4, <1>5, <1>6 DEF NamesAreUnique
<1>9. AllocatedIsOwned
  <2>1. \A c \in Clusters : c > 2 => NewFat[c] = FAT32_FAT_EMPTY_ENTRY
    BY SomeClusters DEF NewFat
  <2>2. \A c \in 0 .. 2 : NewFat[c] # FAT32_FAT_EMPTY_ENTRY
    <3>1. CLUSTER_0_VALUE # 0 /\ CLUSTER_1_VALUE # 0 /\ FAT32_FAT_END_OF_FILE # 0
      BY SpecialValues, SomeClusters
    <3>2. 0 \in Clusters /\ 1 \in Clusters /\ 2 \in Clusters
      BY SomeClusters DEF ROOT_CLUSTER_NUMBER
    <3> QED
      BY <3>1, <3>2, SpecialValues DEF NewFat
  <2> QED
    BY <1>1, <2>1, <2>2, SomeClusters DEF AllocatedIsOwned, Free, ROOT_CLUSTER_NUMBER
<1>10. EntriesAreSound /\ PathsAreApart
  BY <1>2, <1>7 DEF EntriesAreSound, PathsAreApart
<1>11. TablesAreFolders
  BY <1>2, <1>4, <1>7 DEF TablesAreFolders, FolderTables, VisibleFolders
<1> QED
  BY <1>1, <1>2, <1>3, <1>8, <1>9, <1>10, <1>11 DEF Healthy

(* What went wrong is never forgotten.                                     *)
LEMMA DefectStays ==
    ASSUME [Next]_vars, defect' = "none"
    PROVE  defect = "none"
<1>1. CASE \E parent \in Tables, n \in Names, size \in 0 .. MaxSize, p \in Payloads :
              Write(parent, n, size, p)
  BY <1>1 DEF Write, Remember
<1>2. CASE \E parent \in Tables, n \in Names : DeleteFolder(parent, n) \/ DeleteFile(parent, n)
  BY <1>2 DEF DeleteFolder, DeleteFile, DeleteEntryAt, Remember
<1>3. CASE DriverStep
  BY <1>3 DEF DriverStep, WriteFolder, WriteCluster, RunOutOfSpace, Flush, FreeCluster,
              FreeLastCluster, FreeOutside, WriteParent, FormatTable, FormatRoot, Remember
<1>4. CASE Reboot
  BY <1>4 DEF Reboot, Remember
<1>5. CASE UNCHANGED vars
  BY <1>5 DEF vars
<1>6. CASE \E parent \in Clusters \ Tables, n \in Names : MisreadParent(parent, n)
  BY <1>6 DEF MisreadParent, Remember
<1> QED
  BY <1>1, <1>2, <1>3, <1>4, <1>5, <1>6 DEF Next

-----------------------------------------------------------------------------
(* The inductive invariant: as long as nothing has gone wrong, the disk    *)
(* and the two allocation tables fit together, in the middle of an         *)
(* operation too.                                                          *)
LEMMA Fat32Invariant == Spec => []Fat32Inv
<1>1. Init => Fat32Inv
  BY TypeInit, HealthyInit DEF Fat32Inv, TypeInv
<1>2. Fat32Inv /\ [Next]_vars => Fat32Inv'
  <2> SUFFICES ASSUME Fat32Inv, [Next]_vars PROVE Fat32Inv'
    OBVIOUS
  <2>1. TypeInv /\ TypeInv'
    BY TypeStep DEF Fat32Inv, TypeInv
  <2>2. ASSUME defect' = "none" PROVE Healthy'
    <3>1. defect = "none"
      BY <2>2, DefectStays
    <3> QED
      BY <2>1, <2>2, <3>1, HealthyStep DEF Fat32Inv, Sane
  <2> QED
    BY <2>1, <2>2 DEF Fat32Inv, TypeInv
<1> QED
  BY <1>1, <1>2, PTL DEF Spec

(* Between operations the invariant speaks of every entry in use. *)
LEMMA SoundFacts ==
    ASSUME Fat32Inv, Sound
    PROVE  /\ Sane /\ VisibleSlots = UsedSlots /\ OpPath = << >> /\ OpTables = {}
           /\ \A e \in UsedSlots : ChainOf(e) = {PathOf(e)[k] : k \in DOMAIN PathOf(e)}
<1>1. Sane
  BY DEF Sound, Fat32Inv, Sane, TypeInv
<1>2. VisibleSlots = UsedSlots /\ OpPath = << >> /\ OpTables = {}
  BY <1>1, IdleFacts DEF Sound, Sane, TypeInv
<1>3. \A e \in UsedSlots : ChainOf(e) = {PathOf(e)[k] : k \in DOMAIN PathOf(e)}
  BY DEF ChainOf, PathOf
<1> QED
  BY <1>1, <1>2, <1>3

(* A chain without repetition has as many clusters as it is long. *)
LEMMA PathSize ==
    ASSUME NEW n \in Nat, NEW p, DOMAIN p = 1 .. n,
           \A j, k \in DOMAIN p : p[j] = p[k] => j = k,
           p = [k \in DOMAIN p |-> p[k]]
    PROVE  Cardinality({p[k] : k \in DOMAIN p}) = n
<1> DEFINE T == {p[k] : k \in DOMAIN p}
<1>1. p \in [1 .. n -> T]
  OBVIOUS
<1>2. p \in Bijection(1 .. n, T)
  <2>1. p \in Injection(1 .. n, T)
    BY <1>1 DEF Injection, IsInjective
  <2>2. p \in Surjection(1 .. n, T)
    BY <1>1 DEF Surjection
  <2> QED
    BY <2>1, <2>2 DEF Bijection
<1>3. ExistsBijection(1 .. n, T)
  BY <1>2 DEF ExistsBijection
<1> HIDE DEF T
<1>4. Cardinality(T) = n
  BY <1>3, FS_CountingElements
<1> QED
  BY <1>4 DEF T

(* What the invariant says between operations.                             *)
LEMMA SoundChains == Fat32Inv => ChainsAreSound
<1> SUFFICES ASSUME Fat32Inv, Sound, NEW e \in UsedSlots
             PROVE  /\ \E c \in ChainOf(e) : fat[c] = FAT32_FAT_END_OF_FILE
                    /\ Cardinality(ChainOf(e)) = IF EntryAt(e).filesize = 0 THEN 1
                                                                  ELSE EntryAt(e).filesize
                    /\ ChainOf(e) \cap 0 .. ROOT_CLUSTER_NUMBER = {}
                    /\ \A d \in UsedSlots \ {e} : ChainOf(e) \cap ChainOf(d) = {}
  BY DEF ChainsAreSound
<1> DEFINE p == PathOf(e)
<1>1. /\ Sane /\ e \in VisibleSlots
      /\ \A d \in UsedSlots : d \in VisibleSlots
                              /\ ChainOf(d) = {PathOf(d)[k] : k \in DOMAIN PathOf(d)}
  BY SoundFacts
<1>2. /\ SizeOf(e) \in Nat /\ SizeOf(e) >= 1 /\ DOMAIN p = 1 .. SizeOf(e)
      /\ \A k \in DOMAIN p : p[k] \in Free
      /\ fat[p[SizeOf(e)]] = FAT32_FAT_END_OF_FILE
      /\ p \in Seq(Free)
  BY <1>1, VisibleFacts, ChainFacts
<1>3. \A d \in VisibleSlots : \A j \in DOMAIN p, k \in DOMAIN PathOf(d) :
          p[j] = PathOf(d)[k] => d = e /\ j = k
  BY <1>1, SaneParts DEF PathsAreApart
<1> HIDE DEF p
<1>4. ChainOf(e) = {p[k] : k \in DOMAIN p}
  BY <1>1 DEF p
<1>5. \E c \in ChainOf(e) : fat[c] = FAT32_FAT_END_OF_FILE
  BY <1>2, <1>4
<1>6. Cardinality(ChainOf(e)) = SizeOf(e)
  <2>1. p = [k \in DOMAIN p |-> p[k]]
    BY <1>2
  <2>2. \A j, k \in DOMAIN p : p[j] = p[k] => j = k
    BY <1>1, <1>3 DEF p
  <2> QED
    BY <1>2, <1>4, <2>1, <2>2, PathSize
<1>7. ChainOf(e) \cap 0 .. ROOT_CLUSTER_NUMBER = {}
  BY <1>2, <1>4 DEF Free
<1>8. ASSUME NEW d \in UsedSlots \ {e} PROVE ChainOf(e) \cap ChainOf(d) = {}
  BY <1>1, <1>3, <1>4
<1> QED
  BY <1>5, <1>6, <1>7, <1>8 DEF SizeOf

(* In every reachable state, between operations and as long as none went   *)
(* wrong, the chain of every entry ends in an end-of-file mark, is as long *)
(* as the entry says, and meets no reserved cluster and no other chain.    *)
THEOREM ChainsAreAlwaysSound == Spec => []ChainsAreSound
  BY Fat32Invariant, SoundChains, PTL

LEMMA SoundOwners == Fat32Inv => NoClusterIsLost
<1> SUFFICES ASSUME Fat32Inv, Sound, NEW c \in Clusters, fat[c] # FAT32_FAT_EMPTY_ENTRY,
                    c \notin 0 .. ROOT_CLUSTER_NUMBER
             PROVE  \E e \in UsedSlots : c \in ChainOf(e)
  BY DEF NoClusterIsLost, AllocatedClusters
<1>1. c \in Free
  BY DEF Free
<1>2. PICK e \in VisibleSlots : \E k \in DOMAIN PathOf(e) : c = PathOf(e)[k]
  BY <1>1, SoundFacts DEF Sane, Healthy, AllocatedIsOwned
<1> QED
  BY <1>2, SoundFacts

(* In every reachable state, between operations and as long as none went   *)
(* wrong, every allocated cluster is on the chain of an entry in use.      *)
THEOREM NoClusterIsEverLost == Spec => []NoClusterIsLost
  BY Fat32Invariant, SoundOwners, PTL

LEMMA SoundTables == Fat32Inv => FoldersAreTables
<1> DEFINE folders == {e \in UsedSlots : EntryAt(e).folder}
<1> SUFFICES ASSUME Fat32Inv, Sound
             PROVE  /\ \A e \in folders : /\ IsTable(EntryAt(e).cluster)
                                          /\ disk[EntryAt(e).cluster].parent = e[1]
                    /\ Tables = {ROOT_CLUSTER_NUMBER} \cup {EntryAt(e).cluster : e \in folders}
  BY DEF FoldersAreTables
<1>1. Sane /\ VisibleSlots = UsedSlots /\ OpTables = {}
  BY SoundFacts
<1>2. \A e \in folders : IsTable(EntryAt(e).cluster) /\ disk[EntryAt(e).cluster].parent = e[1]
  BY <1>1, VisibleFacts
<1>3. Tables = {ROOT_CLUSTER_NUMBER} \cup {EntryAt(e).cluster : e \in folders}
  BY <1>1 DEF Sane, Healthy, TablesAreFolders, FolderTables, VisibleFolders
<1> QED
  BY <1>2, <1>3

(* In every reachable state, between operations and as long as none went   *)
(* wrong, every folder's cluster holds a table that leads back to the      *)
(* directory it is in, and there are no other tables but the root.         *)
THEOREM FoldersAreAlwaysTables == Spec => []FoldersAreTables
  BY Fat32Invariant, SoundTables, PTL

-----------------------------------------------------------------------------
(* Giving back a cluster that is allocated leaves one less of them.        *)
LEMMA OneAllocatedLess ==
    ASSUME Sane, FreeCluster \/ FreeLastCluster
    PROVE  /\ Cardinality(AllocatedClusters) \in Nat
           /\ Cardinality(AllocatedClusters) > 0
           /\ Cardinality(AllocatedClusters)' = Cardinality(AllocatedClusters) - 1
<1>1. op \in DeleteOp /\ op.pc = "free"
  BY OpKinds DEF FreeCluster, FreeLastCluster, Sane, TypeInv
<1>2. PICK n \in 1 .. CLUSTER_MAP_SIZE : IsChain(OpPath, fat, op.idx, n)
  BY <1>1 DEF Sane, Healthy, DeleteIsSound
<1>3. op.idx \in Clusters /\ fat[op.idx] # FAT32_FAT_EMPTY_ENTRY
  <2>1. OpPath[1] = op.idx /\ 1 \in 1 .. n /\ op.idx \in Free
    BY <1>2, ChainFacts
  <2> QED
    BY <1>2, <2>1, ChainFacts DEF Free
<1>4. fat' = [fat EXCEPT ![op.idx] = FAT32_FAT_EMPTY_ENTRY] /\ DOMAIN fat = Clusters
  BY DEF FreeCluster, FreeLastCluster, Sane, TypeInv, Fat32TypeOK
<1>5. AllocatedClusters' = AllocatedClusters \ {op.idx} /\ op.idx \in AllocatedClusters
  BY <1>3, <1>4 DEF AllocatedClusters
<1>6. IsFiniteSet(AllocatedClusters)
  <2>1. IsFiniteSet(Clusters)
    BY ClustersAssumption, FS_Interval DEF Clusters
  <2> QED
    BY <2>1, FS_Subset DEF AllocatedClusters
<1>7. Cardinality(AllocatedClusters) \in Nat
  BY <1>6, FS_CardinalityType
<1>8. Cardinality(AllocatedClusters \ {op.idx}) = Cardinality(AllocatedClusters) - 1
      /\ IsFiniteSet(AllocatedClusters \ {op.idx})
  BY <1>5, <1>6, FS_RemoveElement
<1>9. Cardinality(AllocatedClusters \ {op.idx}) \in Nat
  BY <1>8, FS_CardinalityType
<1>10. Cardinality(AllocatedClusters)' = Cardinality(AllocatedClusters \ {op.idx})
  BY <1>5
<1> QED
  BY <1>7, <1>8, <1>9, <1>10

(* One lemma for each kind of step of an operation.                        *)
LEMMA WritingGetsShorter ==
    ASSUME Sane, WriteFolder \/ WriteCluster
    PROVE  StepsLeft' < StepsLeft
<1>1. op \in WriteOp
  BY OpKinds DEF WriteFolder, WriteCluster, Sane, TypeInv
<1>2. CASE WriteFolder
  <2>1. op.pc = "folder" /\ op'.pc = "flush"
    BY <1>1, <1>2 DEF WriteFolder, WriteOp
  <2> QED
    BY <2>1 DEF StepsLeft
<1>3. CASE WriteCluster
  <2>1. op.pc = "data"
    BY <1>3 DEF WriteCluster
  <2>2. PICK c : op' = [op EXCEPT !.idx = c, !.i = @ + 1,
                                  !.pc = IF op.i + 1 = op.size THEN "flush" ELSE "data"]
    BY <1>3 DEF WriteCluster
  <2>3. /\ op'.i = op.i + 1 /\ op'.size = op.size
        /\ op'.pc = IF op.i + 1 = op.size THEN "flush" ELSE "data"
    BY <1>1, <2>2 DEF WriteOp
  <2>4. op.i \in Nat /\ op.size \in Nat /\ op.i < op.size
    BY <1>1, <2>1, SizesAssumption DEF WriteOp, Sane, TypeInv, LocalsAreBounded
  <2>5. StepsLeft = op.size - op.i + 1
    BY <2>1 DEF StepsLeft
  <2>6. StepsLeft' = IF op.i + 1 = op.size THEN 1 ELSE op.size - (op.i + 1) + 1
    BY <2>3 DEF StepsLeft
  <2> QED
    BY <2>4, <2>5, <2>6
<1> QED
  BY <1>2, <1>3

LEMMA DeletingGetsShorter ==
    ASSUME Sane, FreeCluster \/ FreeLastCluster \/ WriteParent
    PROVE  StepsLeft' < StepsLeft
<1>1. op \in DeleteOp
  BY OpKinds DEF FreeCluster, FreeLastCluster, WriteParent, Sane, TypeInv
<1>2. CASE FreeCluster
  <2>1. op.pc = "free" /\ op'.pc = "free"
    BY <1>1, <1>2 DEF FreeCluster, DeleteOp
  <2>2. StepsLeft = Cardinality(AllocatedClusters) + 2
        /\ StepsLeft' = Cardinality(AllocatedClusters)' + 2
    BY <2>1 DEF StepsLeft
  <2> QED
    BY <1>2, <2>2, OneAllocatedLess
<1>3. CASE FreeLastCluster
  <2>1. op.pc = "free" /\ op'.pc = "parent"
    BY <1>1, <1>3 DEF FreeLastCluster, DeleteOp
  <2>2. StepsLeft = Cardinality(AllocatedClusters) + 2 /\ StepsLeft' = 2
    BY <2>1 DEF StepsLeft
  <2> QED
    BY <1>3, <2>2, OneAllocatedLess
<1>4. CASE WriteParent
  <2>1. op.pc = "parent" /\ op'.pc = "flush"
    BY <1>1, <1>4 DEF WriteParent, DeleteOp
  <2> QED
    BY <2>1 DEF StepsLeft
<1> QED
  BY <1>2, <1>3, <1>4

LEMMA StepsGetShorter ==
    ASSUME Fat32Inv, Next, op # Idle, defect' = "none"
    PROVE  StepsLeft' < StepsLeft
<1>1. defect = "none"
  BY DefectStays
<1>2. Sane
  BY <1>1 DEF Fat32Inv, Sane, TypeInv
<1>3. CASE Flush
  <2>1. op.pc = "flush" /\ op'.pc = "idle"
    BY <1>3 DEF Flush, Idle
  <2> QED
    BY <2>1 DEF StepsLeft
<1>4. ~RunOutOfSpace /\ ~Reboot
  BY <1>1 DEF RunOutOfSpace, Reboot, Remember
<1>5. ~FreeOutside /\ ~FormatTable /\ ~FormatRoot
  BY <1>2, NoOtherStep
<1>6. DriverStep
  BY <1>4 DEF Next, Write, DeleteFolder, DeleteFile, MisreadParent
<1> QED
  BY <1>2, <1>3, <1>4, <1>5, <1>6, WritingGetsShorter, DeletingGetsShorter DEF DriverStep

(* Every step of an operation leaves it fewer steps, as long as nothing    *)
(* has gone wrong: the loops of write and delete cannot turn for ever, on  *)
(* a disk of any size and with whatever files are on it.                   *)
THEOREM OperationsAlwaysGetShorter == Spec => OperationsGetShorter
<1> DEFINE Shorter == op # Idle /\ defect' = "none" => StepsLeft' < StepsLeft
<1>1. Fat32Inv /\ [Next]_vars => [Shorter]_vars
  BY StepsGetShorter
<1> QED
  BY <1>1, Fat32Invariant, PTL DEF Spec, OperationsGetShorter

-----------------------------------------------------------------------------
(* Between operations, and when only the root is left to be formatted, the *)
(* driver's copy of the allocation table is the one on the disk.           *)
FatInv == FatIsSaved /\ (op = NoRoot => disk_fat = fat)

LEMMA FatInvStep == FatInv /\ [Next]_vars => FatInv'
<1> SUFFICES ASSUME FatInv, [Next]_vars, Sound' \/ (op = NoRoot)'
             PROVE  disk_fat' = fat'
  BY DEF FatInv, FatIsSaved
<1>0. op' \in {Idle, NoRoot} /\ op'.pc \in {"idle", "no root"}
  <2>1. op' \in {Idle, NoRoot}
    BY DEF Sound, Idle, NoRoot
  <2>2. CASE op' = Idle
    BY <2>1, <2>2 DEF Idle
  <2>3. CASE op' = NoRoot
    BY <2>1, <2>3 DEF NoRoot
  <2> QED
    BY <2>1, <2>2, <2>3
<1>1. ASSUME NEW parent \in Tables, NEW n \in Names, NEW size \in 0 .. MaxSize,
             NEW p \in Payloads, Write(parent, n, size, p)
      PROVE  FALSE
  <2>1. PICK s \in FindIdxEmptyEntry(disk[parent]), c \in FindEmptySpace(fat) :
            op' = [pc |-> IF size = 0 THEN "folder" ELSE "data",
                   parent |-> parent, slot |-> s, payload |-> p, size |-> size,
                   i |-> 0, idx |-> IF size = 0 THEN c ELSE NOT_FOUND]
    BY <1>1 DEF Write
  <2> QED
    BY <2>1, <1>0
<1>2. ASSUME NEW parent \in Tables, NEW n \in Names, DeleteFolder(parent, n)
      PROVE  FALSE
  <2>1. PICK s \in FindEntry(disk[parent], n) : DeleteEntryAt(parent, s, "parent")
    BY <1>2 DEF DeleteFolder
  <2> QED
    BY <2>1, <1>0 DEF DeleteEntryAt
<1>3. ASSUME NEW parent \in Tables, NEW n \in Names, DeleteFile(parent, n)
      PROVE  FALSE
  <2>1. PICK s \in FindEntry(disk[parent], n) : DeleteEntryAt(parent, s, "free")
    BY <1>3 DEF DeleteFile
  <2> QED
    BY <2>1, <1>0 DEF DeleteEntryAt
<1>4. CASE WriteFolder
  BY <1>0, <1>4 DEF WriteFolder, Idle, NoRoot
<1>5. CASE WriteCluster
  <2>1. PICK c \in FindEmptySpace(fat) :
            op' = [op EXCEPT !.idx = c, !.i = @ + 1,
                             !.pc = IF op.i + 1 = op.size THEN "flush" ELSE "data"]
    BY <1>5 DEF WriteCluster
  <2> QED
    BY <1>0, <1>5, <2>1 DEF WriteCluster, Idle, NoRoot
<1>6. CASE RunOutOfSpace
  <2>1. defect' # "none" /\ op' # NoRoot
    BY <1>6 DEF RunOutOfSpace, Remember, Idle, NoRoot
  <2> QED
    BY <2>1 DEF Sound
<1>7. CASE Flush
  BY <1>7 DEF Flush
<1>8. CASE FreeCluster
  BY <1>0, <1>8 DEF FreeCluster, Idle, NoRoot
<1>9. CASE FreeLastCluster
  BY <1>0, <1>9 DEF FreeLastCluster, Idle, NoRoot
<1>10. CASE FreeOutside
  BY <1>0, <1>10 DEF FreeOutside, Lost
<1>11. CASE WriteParent
  BY <1>0, <1>11 DEF WriteParent, Idle, NoRoot
<1>12. CASE FormatTable
  BY <1>12 DEF FormatTable
<1>13. CASE FormatRoot
  BY <1>13 DEF FormatRoot, FatInv
<1>14. CASE Reboot
  <2>1. CASE op' = Idle
    BY <1>14, <2>1 DEF Reboot, NoTable, Idle
  <2>2. CASE op' = NoTable
    BY <1>0, <2>2 DEF NoTable
  <2> QED
    BY <1>14, <2>1, <2>2 DEF Reboot
<1>15. CASE UNCHANGED vars
  BY <1>15 DEF vars, FatInv, FatIsSaved, Sound
<1>16. ASSUME NEW parent \in Clusters \ Tables, NEW n \in Names, MisreadParent(parent, n)
       PROVE  FALSE
  BY <1>0, <1>16 DEF MisreadParent, Lost
<1> QED
  BY <1>1, <1>2, <1>3, <1>4, <1>5, <1>6, <1>7, <1>8, <1>9, <1>10, <1>11,
     <1>12, <1>13, <1>14, <1>15, <1>16 DEF Next, DriverStep

(* Between operations the driver's copy of the allocation table is the one *)
(* on the disk: write and delete end with the write that saves it, and the *)
(* one way out that does not, a full table, counts as a defect.            *)
THEOREM FatIsAlwaysSaved == Spec => []FatIsSaved
<1>1. Init => FatInv
  BY DEF Init, FatInv, FatIsSaved, Idle, NoRoot
<1>2. FatInv => FatIsSaved
  BY DEF FatInv
<1> QED
  BY <1>1, <1>2, FatInvStep, PTL DEF Spec
=============================================================================
