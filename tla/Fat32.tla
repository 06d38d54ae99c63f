------------------------------- MODULE Fat32 -------------------------------
(***************************************************************************)
(* The file system driver (src/src/fat32.c).  The disk survives the loss   *)
(* of power; the driver's copy of the file allocation table does not.      *)
(*                                                                         *)
(* A system call runs with interrupts disabled, so the operations of the   *)
(* driver do not interleave.  Power can be lost between any two of their   *)
(* writes: each write of a cluster is a step.                              *)
(*                                                                         *)
(* The contents of a cluster are abstracted to what the driver takes it    *)
(* for: a directory table, the k-th cluster of what some payload was       *)
(* written from, zeros, or the boot sector.  Sizes are counted in          *)
(* clusters.  An operation that returns an error without having changed    *)
(* anything is a stutter.                                                  *)
(***************************************************************************)
EXTENDS Integers, Sequences, FiniteSets

CONSTANTS
    CLUSTER_MAP_SIZE,   \* clusters the allocation table describes
    Entries,            \* slots of a directory table for names, a range of integers
    Names,              \* names the callers use
    NoName,             \* eight zero bytes, the name of an empty entry
    Payloads,           \* what files are written from
    MaxSize             \* the largest file a caller writes, in clusters

ASSUME ClustersAssumption == CLUSTER_MAP_SIZE \in Nat /\ CLUSTER_MAP_SIZE > 3
ASSUME EntriesAssumption  == Entries \subseteq Nat /\ Entries # {} /\ IsFiniteSet(Entries)
ASSUME SizesAssumption    == MaxSize \in Nat

Clusters == 0 .. CLUSTER_MAP_SIZE - 1

BOOT_SECTOR         == 0    \* the cluster it is in
FAT_CLUSTER_NUMBER  == 1
ROOT_CLUSTER_NUMBER == 2

FAT32_FAT_EMPTY_ENTRY == 0
FAT32_FAT_END_OF_FILE == 268435455
CLUSTER_0_VALUE       == 268435440
CLUSTER_1_VALUE       == 268435455
NOT_FOUND             == -9999

(* No cluster has the number of a special value. *)
ASSUME ValuesAssumption == CLUSTER_MAP_SIZE < CLUSTER_0_VALUE

VARIABLES
    disk,       \* [Clusters -> contents]; cluster 1 is represented by disk_fat
    disk_fat,   \* the allocation table on the disk
    fat,        \* fat32_driver_state.fat_table
    op,         \* the operation in progress and its local variables
    defect      \* history: the first time an operation left the disk unsound

vars == << disk, disk_fat, fat, op, defect >>

Zero == [kind |-> "zero"]
Boot == [kind |-> "boot"]
Block(p, k) == [kind |-> "data", file |-> p, number |-> k]

EmptyEntry == [name |-> NoName, folder |-> FALSE, used |-> FALSE,
               cluster |-> 0, filesize |-> 0]

(* init_directory_table; the entry .. is the field parent. *)
NewTableOfRoot(parent) ==
    [kind |-> "table", parent |-> ROOT_CLUSTER_NUMBER,
     entry |-> [s \in Entries |-> EmptyEntry]]
NewTable(parent) ==
    [kind |-> "table", parent |-> parent, entry |-> [s \in Entries |-> EmptyEntry]]

(* The allocation table create_fat32 writes. *)
NewFat ==
    [c \in Clusters |->
        CASE c = 0 -> CLUSTER_0_VALUE
          [] c = 1 -> CLUSTER_1_VALUE
          [] c = 2 -> FAT32_FAT_END_OF_FILE
          [] OTHER -> FAT32_FAT_EMPTY_ENTRY]

Idle == [pc |-> "idle"]
Lost == [pc |-> "lost"]     \* the driver reads or writes outside its tables

(* create_fat32 after its first write and after its second. *)
NoTable == [pc |-> "no table"]
NoRoot  == [pc |-> "no root"]

(* The file system the external inserter creates. *)
Init ==
    /\ disk = [c \in Clusters |->
                  CASE c = BOOT_SECTOR         -> Boot
                    [] c = ROOT_CLUSTER_NUMBER -> NewTable(ROOT_CLUSTER_NUMBER)
                    [] OTHER                   -> Zero]
    /\ disk_fat = NewFat
    /\ fat = NewFat
    /\ op = Idle
    /\ defect = "none"

Remember(d) == defect' = IF defect = "none" THEN d ELSE defect

-----------------------------------------------------------------------------
IsTable(c) == disk[c].kind = "table"
Tables     == {c \in Clusters : IsTable(c)}

(* Each of these is the one result of a search, or empty. *)
FindEntry(table, n) ==
    {s \in Entries : table.entry[s].name = n
                     /\ \A r \in Entries : r < s => table.entry[r].name # n}
FindIdxEmptyEntry(table) ==
    {s \in Entries : ~table.entry[s].used
                     /\ \A r \in Entries : r < s => table.entry[r].used}
EmptySpaceOnDisk(map) ==
    {c \in Clusters : disk_fat[c] = FAT32_FAT_EMPTY_ENTRY
                      /\ \A b \in 0 .. c - 1 : disk_fat[b] # FAT32_FAT_EMPTY_ENTRY}
FindEmptySpace(map) ==
    {c \in Clusters : map[c] = FAT32_FAT_EMPTY_ENTRY
                      /\ \A b \in 0 .. c - 1 : map[b] # FAT32_FAT_EMPTY_ENTRY}

(* addEntry sets the attribute of a folder and never clears it. *)
AddEntry(e, n, size, c) ==
    [name |-> n, folder |-> size = 0 \/ e.folder, used |-> TRUE,
     cluster |-> c, filesize |-> size]

(* deleteEntry leaves the attribute alone. *)
DeleteEntry(e) == [EmptyEntry EXCEPT !.folder = e.folder]

(* The clusters the loop of read visits from c: as long as the table leads *)
(* on, and at most as many as there are.                                   *)
Chain(map, c) ==
    LET from[path \in Seq(Clusters)] ==
            LET next == map[path[Len(path)]]
            IN  IF Len(path) < CLUSTER_MAP_SIZE /\ next \in Clusters \ {0}
                THEN from[Append(path, next)] ELSE path
    IN  from[<< c >>]

-----------------------------------------------------------------------------
(* write: up to the write of the parent's table, which names the first     *)
(* cluster while the allocation table still has it free.                   *)
WriteOverExisting(parent, n, size, p) ==
    /\ op = Idle /\ IsTable(parent)
    /\ \E s \in FindIdxEmptyEntry(disk[parent]), c \in FindEmptySpace(fat) :
          /\ disk' = [disk EXCEPT ![parent].entry[s] = AddEntry(@, n, size, c)]
          /\ op' = [pc |-> IF size = 0 THEN "folder" ELSE "data",
                    parent |-> parent, slot |-> s, payload |-> p, size |-> size,
                    i |-> 0, idx |-> IF size = 0 THEN c ELSE NOT_FOUND]
    /\ UNCHANGED << disk_fat, fat, defect >>
Write(parent, n, size, p) ==
    /\ op = Idle /\ IsTable(parent)
    /\ FindEntry(disk[parent], n) = {}
    /\ \E s \in FindIdxEmptyEntry(disk[parent]), c \in FindEmptySpace(fat) :
          /\ disk' = [disk EXCEPT ![parent].entry[s] = AddEntry(@, n, size, c)]
          /\ op' = [pc |-> IF size = 0 THEN "folder" ELSE "data",
                    parent |-> parent, slot |-> s, payload |-> p, size |-> size,
                    i |-> 0, idx |-> IF size = 0 THEN c ELSE NOT_FOUND]
          /\ IF size # 0 /\ AddEntry(disk[parent].entry[s], n, size, c).folder
             THEN Remember("mislabelled") ELSE UNCHANGED defect
    /\ UNCHANGED << disk_fat, fat >>

WriteFolder ==
    /\ op.pc = "folder"
    /\ disk' = [disk EXCEPT ![op.idx] = NewTable(op.parent)]
    /\ fat' = [fat EXCEPT ![op.idx] = FAT32_FAT_END_OF_FILE]
    /\ op' = [op EXCEPT !.pc = "flush"]
    /\ UNCHANGED << disk_fat, defect >>

(* One iteration of the loop over the clusters of a file; op.idx is prev. *)
WriteCluster ==
    /\ op.pc = "data"
    /\ \E c \in FindEmptySpace(fat) :
          /\ disk' = [disk EXCEPT ![c] = Block(op.payload, op.i + 1)]
          /\ fat' = [b \in Clusters |-> IF b = c THEN FAT32_FAT_END_OF_FILE
                                        ELSE IF b = op.idx THEN c ELSE fat[b]]
          /\ op' = [op EXCEPT !.idx = c, !.i = @ + 1,
                              !.pc = IF op.i + 1 = op.size THEN "flush" ELSE "data"]
    /\ UNCHANGED << disk_fat, defect >>

(* The table is full: write returns -1 and neither saves the allocation    *)
(* table nor takes the entry back.                                         *)
LinksBeforeChecking ==
    /\ op.pc = "data"
    /\ FindEmptySpace(fat) = {}
    /\ fat' = [fat EXCEPT ![op.idx] = NOT_FOUND]
    /\ op' = Idle
    /\ Remember("truncated")
    /\ UNCHANGED << disk, disk_fat >>
RunOutOfSpace ==
    /\ op.pc = "data"
    /\ FindEmptySpace(fat) = {}
    /\ op' = Idle
    /\ Remember("truncated")
    /\ UNCHANGED << disk, disk_fat, fat >>

(* The last write of write and of delete. *)
Flush ==
    /\ op.pc = "flush"
    /\ disk_fat' = fat
    /\ op' = Idle
    /\ UNCHANGED << disk, fat, defect >>

-----------------------------------------------------------------------------
(* isEmptyDir on a cluster that is not a table reads what is in it: user   *)
(* data can look like anything, zeros and the boot sector look empty.      *)
LooksEmpty(c) ==
    IsTable(c) => \A s \in Entries : ~disk[c].entry[s].used

(* delete compares names without asking whether an entry is in use: the    *)
(* empty name finds an empty entry, whose cluster is 0.                    *)
DeleteEntryAt(parent, s, pc) ==
    /\ op' = [pc |-> pc, parent |-> parent, slot |-> s,
              idx |-> disk[parent].entry[s].cluster,
              table |-> [disk[parent] EXCEPT !.entry[s] = DeleteEntry(@)]]
    /\ IF disk[parent].entry[s].used THEN UNCHANGED defect ELSE Remember("misnamed")

(* delete of a folder, up to the write that clears its table. *)
DeleteFolder(parent, n) ==
    /\ op = Idle /\ IsTable(parent)
    /\ \E s \in FindEntry(disk[parent], n) :
          LET c == disk[parent].entry[s].cluster
          IN  /\ disk[parent].entry[s].folder
              /\ LooksEmpty(c)
              /\ disk' = [disk EXCEPT ![c] = Zero]
              /\ fat' = [fat EXCEPT ![c] = FAT32_FAT_EMPTY_ENTRY]
              /\ DeleteEntryAt(parent, s, "parent")
    /\ UNCHANGED disk_fat

(* delete of a file, up to the loop over its clusters. *)
DeleteFile(parent, n) ==
    /\ op = Idle /\ IsTable(parent)
    /\ \E s \in FindEntry(disk[parent], n) :
          /\ ~disk[parent].entry[s].folder
          /\ DeleteEntryAt(parent, s, "free")
    /\ UNCHANGED << disk, disk_fat, fat >>

(* write and delete read the parent from whatever cluster the caller says: *)
(* user data and the allocation table may look like a directory table, and *)
(* delete finds the empty name in zeros.  What they would write over is    *)
(* not followed.                                                           *)
MisreadParent(parent, n) ==
    /\ op = Idle /\ ~IsTable(parent)
    /\ disk[parent].kind = "data" \/ parent = FAT_CLUSTER_NUMBER \/ n = NoName
    /\ op' = Lost
    /\ Remember("misread")
    /\ UNCHANGED << disk, disk_fat, fat >>

(* One iteration of the loop of delete over the clusters of a file. *)
FreesBeforeReading ==
    /\ op.pc = "free"
    /\ op.idx \in Clusters /\ fat[op.idx] # FAT32_FAT_END_OF_FILE
    /\ fat' = [fat EXCEPT ![op.idx] = FAT32_FAT_EMPTY_ENTRY]
    /\ disk' = [disk EXCEPT ![op.idx] = Zero]
    /\ op' = [op EXCEPT !.idx = fat'[op.idx]]
    /\ UNCHANGED << disk_fat, defect >>
KeepsLinks ==
    /\ op.pc = "free"
    /\ op.idx \in Clusters /\ fat[op.idx] # FAT32_FAT_END_OF_FILE
    /\ disk' = [disk EXCEPT ![op.idx] = Zero]
    /\ op' = [op EXCEPT !.idx = fat[op.idx]]
    /\ UNCHANGED << disk_fat, fat, defect >>
FreeCluster ==
    /\ op.pc = "free"
    /\ op.idx \in Clusters /\ fat[op.idx] # FAT32_FAT_END_OF_FILE
    /\ fat' = [fat EXCEPT ![op.idx] = FAT32_FAT_EMPTY_ENTRY]
    /\ disk' = [disk EXCEPT ![op.idx] = Zero]
    /\ op' = [op EXCEPT !.idx = fat[op.idx]]
    /\ UNCHANGED << disk_fat, defect >>

KeepsLastCluster ==
    /\ op.pc = "free"
    /\ op.idx \in Clusters /\ fat[op.idx] = FAT32_FAT_END_OF_FILE
    /\ disk' = [disk EXCEPT ![op.idx] = Zero]
    /\ op' = [op EXCEPT !.pc = "parent"]
    /\ UNCHANGED << disk_fat, fat, defect >>
FreeLastCluster ==
    /\ op.pc = "free"
    /\ op.idx \in Clusters /\ fat[op.idx] = FAT32_FAT_END_OF_FILE
    /\ fat' = [fat EXCEPT ![op.idx] = FAT32_FAT_EMPTY_ENTRY]
    /\ disk' = [disk EXCEPT ![op.idx] = Zero]
    /\ op' = [op EXCEPT !.pc = "parent"]
    /\ UNCHANGED << disk_fat, defect >>

(* cluster_map is indexed with a value that is no cluster: memory outside  *)
(* the driver is read, and no one knows what it does next.                 *)
FreeOutside ==
    /\ op.pc = "free" /\ op.idx \notin Clusters
    /\ op' = Lost
    /\ UNCHANGED << disk, disk_fat, fat, defect >>

EndsWithParent ==
    /\ op.pc = "parent"
    /\ disk' = [disk EXCEPT ![op.parent] = op.table]
    /\ op' = Idle
    /\ UNCHANGED << disk_fat, fat, defect >>
WriteParent ==
    /\ op.pc = "parent"
    /\ disk' = [disk EXCEPT ![op.parent] = op.table]
    /\ op' = [op EXCEPT !.pc = "flush"]
    /\ UNCHANGED << disk_fat, fat, defect >>

-----------------------------------------------------------------------------
(* Power is lost and comes back: initialize_filesystem_fat32 loads the     *)
(* allocation table, or begins to format a disk without a signature.       *)
Reboot ==
    /\ \/ /\ disk[BOOT_SECTOR] = Boot
          /\ fat' = disk_fat
          /\ op' = Idle
          /\ UNCHANGED disk
       \/ /\ disk[BOOT_SECTOR] # Boot
          /\ disk' = [disk EXCEPT ![BOOT_SECTOR] = Boot]
          /\ fat' = NewFat
          /\ op' = NoTable
    /\ IF op = Idle THEN UNCHANGED defect ELSE Remember("interrupted")
    /\ UNCHANGED disk_fat

FormatTable ==
    /\ op = NoTable
    /\ disk_fat' = fat
    /\ op' = NoRoot
    /\ UNCHANGED << disk, fat, defect >>

FormatRoot ==
    /\ op = NoRoot
    /\ disk' = [disk EXCEPT ![ROOT_CLUSTER_NUMBER] = NewTable(ROOT_CLUSTER_NUMBER)]
    /\ op' = Idle
    /\ UNCHANGED << disk_fat, fat, defect >>

DriverStep ==
    \/ WriteFolder \/ WriteCluster \/ RunOutOfSpace \/ Flush
    \/ FreeCluster \/ FreeLastCluster \/ FreeOutside \/ WriteParent
    \/ FormatTable \/ FormatRoot

Next ==
    \/ \E parent \in Tables, n \in Names :
          \/ \E size \in 0 .. MaxSize, p \in Payloads : Write(parent, n, size, p)
          \/ DeleteFolder(parent, n)
          \/ DeleteFile(parent, n)
    \/ \E parent \in Clusters \ Tables, n \in Names : MisreadParent(parent, n)
    \/ DriverStep
    \/ Reboot

Spec == Init /\ [][Next]_vars

(* A system call is not preempted and the disk always answers. *)
FairSpec == Spec /\ WF_vars(DriverStep)

-----------------------------------------------------------------------------
(* What the callers can see: the entries in use, but for the one that the  *)
(* operation in progress is about.                                         *)
VisibleSlots ==
    {e \in Tables \X Entries :
        /\ disk[e[1]].entry[e[2]].used
        /\ op \notin {Idle, Lost, NoTable, NoRoot} => e # << op.parent, op.slot >>}
EntryAt(e) == disk[e[1]].entry[e[2]]

(* The data read copies for an entry. *)
Contents(e) ==
    LET chain == Chain(fat, EntryAt(e).cluster)
    IN  [k \in 1 .. Len(chain) |-> disk[chain[k]]]

ValueOf(e) ==
    IF EntryAt(e).folder
    THEN [kind |-> "folder", id |-> EntryAt(e).cluster]
    ELSE [kind |-> "file", data |-> Contents(e)]

KeyOf(e) == << e[1], EntryAt(e).name >>

View ==
    LET visible == VisibleSlots
    IN  [k \in {KeyOf(e) : e \in visible} |->
            ValueOf(CHOOSE e \in visible : KeyOf(e) = k)]

Store == INSTANCE FileStore WITH
            Folders <- Clusters \ {ROOT_CLUSTER_NUMBER}, Root <- ROOT_CLUSTER_NUMBER,
            store <- View, damaged <- (defect # "none")

(* The driver is a file store: every file reads back as it was written     *)
(* until it is deleted, through reboots and whatever happens to others; a  *)
(* loss of power in the middle of an operation, or one of the known errors *)
(* below, damages the entry it is about and no other.                      *)
IsFileStore == Store!StoreSpec

-----------------------------------------------------------------------------
FatValues == Clusters \cup {CLUSTER_0_VALUE, CLUSTER_1_VALUE, FAT32_FAT_END_OF_FILE}

EntryType == [name : Names \cup {NoName}, folder : BOOLEAN, used : BOOLEAN,
              cluster : Clusters, filesize : 0 .. MaxSize]
TableType == [kind : {"table"}, parent : Clusters, entry : [Entries -> EntryType]]

DataType  == [kind : {"data"}, file : Payloads, number : 1 .. MaxSize]

(* The locals of write and of delete. *)
IdxType  == FatValues \cup {NOT_FOUND}
WriteOp  == [pc : {"folder", "data", "flush"}, parent : Clusters, slot : Entries,
             payload : Payloads, size : 0 .. MaxSize, i : 0 .. MaxSize, idx : IdxType]
DeleteOp == [pc : {"free", "parent", "flush"}, parent : Clusters, slot : Entries,
             idx : IdxType, table : TableType]

(* Type invariant: what the disk, the two allocation tables and the locals *)
(* of write and delete range over.                                         *)
Fat32TypeOK ==
    /\ disk \in [Clusters -> TableType \cup {Zero, Boot} \cup DataType]
    /\ disk_fat \in [Clusters -> FatValues]
    /\ fat \in [Clusters -> FatValues]
    /\ op \in {Idle, Lost, NoTable, NoRoot} \cup WriteOp \cup DeleteOp
    /\ defect \in {"none", "interrupted", "mislabelled", "truncated", "misnamed", "misread"}

(* No operation is in progress and none has gone wrong. *)
Sound == op = Idle /\ defect = "none"

UsedSlots   == {e \in Tables \X Entries : EntryAt(e).used}
ChainOf(e)  == LET chain == Chain(fat, EntryAt(e).cluster)
               IN  {chain[k] : k \in DOMAIN chain}

(* Between operations the chain of every entry ends in the end-of-file     *)
(* mark, has a cluster for each cluster of the file and one for a folder,  *)
(* is outside the reserved clusters and meets no other chain: write links  *)
(* the clusters it finds one at a time, delete unlinks them.               *)
ChainsAreSound ==
    Sound => \A e \in UsedSlots :
        /\ \E c \in ChainOf(e) : fat[c] = FAT32_FAT_END_OF_FILE
        /\ Cardinality(ChainOf(e)) = IF EntryAt(e).filesize = 0 THEN 1
                                                       ELSE EntryAt(e).filesize
        /\ ChainOf(e) \cap 0 .. ROOT_CLUSTER_NUMBER = {}
        /\ \A d \in UsedSlots \ {e} : ChainOf(e) \cap ChainOf(d) = {}

AllocatedClusters == {c \in Clusters : fat[c] # FAT32_FAT_EMPTY_ENTRY}

(* Between operations every allocated cluster belongs to an entry: delete  *)
(* gives back all that write took.                                         *)
NoClusterIsLost ==
    Sound => AllocatedClusters
                \subseteq 0 .. ROOT_CLUSTER_NUMBER \cup UNION {ChainOf(e) : e \in UsedSlots}

(* Between operations a loss of power loses nothing: the driver's copy of  *)
(* the allocation table is the one on the disk.                            *)
FatIsSaved == Sound => disk_fat = fat

(* Between operations every folder is a directory table whose .. is the    *)
(* directory it is in; and every table but the root is a folder's.         *)
FoldersAreTables ==
    Sound =>
        LET folders == {e \in UsedSlots : EntryAt(e).folder}
        IN  /\ \A e \in folders : /\ IsTable(EntryAt(e).cluster)
                                   /\ disk[EntryAt(e).cluster].parent = e[1]
            /\ Tables = {ROOT_CLUSTER_NUMBER} \cup {EntryAt(e).cluster : e \in folders}

(* Every operation ends, unless it deletes the empty name or takes for a   *)
(* directory what is none: the clusters delete follows lead to an          *)
(* end-of-file mark.                                                       *)
OperationsEnd == op # Idle ~> op = Idle \/ defect \in {"misnamed", "misread"}

(* A bound on the steps the operation in progress has left: write goes     *)
(* through the clusters of the file, delete through those allocated, then  *)
(* the parent's table and the allocation table are saved.                  *)
StepsLeft ==
    CASE op.pc = "data"                -> op.size - op.i + 1
      [] op.pc \in {"folder", "parent"} -> 2
      [] op.pc = "flush"               -> 1
      [] op.pc = "free"                -> Cardinality(AllocatedClusters) + 2
      [] OTHER                         -> 0

(* Every step of an operation leaves it fewer steps, as long as nothing    *)
(* has gone wrong: neither loop of the driver counts its turns against the *)
(* table, and the one of delete ends only because every cluster it comes   *)
(* to is still allocated and given back at once (fat32.c:504).             *)
OperationsGetShorter ==
    [][op # Idle /\ defect' = "none" => StepsLeft' < StepsLeft]_vars

(* fat32.h, of an entry: if this is a directory, filesize is 0.            *)
FoldersHaveNoSize ==
    op = Idle => \A e \in UsedSlots : EntryAt(e).folder => EntryAt(e).filesize = 0

(* fat32.h, of delete: delete a file or an empty directory, or return that *)
(* it is not found.  Whatever is deleted, the disk keeps its signature.    *)
BootSectorIsKept == disk[BOOT_SECTOR] = Boot
=============================================================================
