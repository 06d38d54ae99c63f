------------------------- MODULE Fat32StoreProofs --------------------------
(***************************************************************************)
(* The file system driver implements the file store: every step of the     *)
(* driver is a step of the store on what the callers can see, or a         *)
(* stutter.  A file or folder appears with the last write of write, and    *)
(* goes with the first step of delete.                                     *)
(***************************************************************************)
EXTENDS Fat32Proofs

(* What the visible slots are known by. *)
Keys == {KeyOf(e) : e \in VisibleSlots}

(* Every visible slot is what its key stands for in the store. *)
LEMMA ViewAt ==
    NamesAreUnique =>
        /\ DOMAIN View = Keys
        /\ View = [k \in Keys |-> View[k]]
        /\ \A e \in VisibleSlots : View[KeyOf(e)] = ValueOf(e)
<1> SUFFICES ASSUME NamesAreUnique
             PROVE  /\ DOMAIN View = Keys
                    /\ View = [k \in Keys |-> View[k]]
                    /\ \A e \in VisibleSlots : View[KeyOf(e)] = ValueOf(e)
  OBVIOUS
<1>1. View = [k \in Keys |-> ValueOf(CHOOSE e \in VisibleSlots : KeyOf(e) = k)]
  BY DEF View, Keys
<1>2. DOMAIN View = Keys /\ View = [k \in Keys |-> View[k]]
  BY <1>1
<1>3. ASSUME NEW e \in VisibleSlots
      PROVE  View[KeyOf(e)] = ValueOf(e)
  <2> DEFINE d == CHOOSE x \in VisibleSlots : KeyOf(x) = KeyOf(e)
  <2>1. d \in VisibleSlots /\ KeyOf(d) = KeyOf(e)
    OBVIOUS
  <2>2. d = e
    <3> HIDE DEF d
    <3> QED
      BY <2>1, UniqueSlots
  <2>3. View[KeyOf(e)] = ValueOf(d)
    BY <1>1 DEF Keys
  <2> QED
    BY <2>2, <2>3
<1> QED
  BY <1>2, <1>3

(* And in the next state.                                                  *)
LEMMA ViewAtNext ==
    NamesAreUnique' =>
        /\ DOMAIN View' = Keys'
        /\ View' = [k \in Keys' |-> View'[k]]
        /\ \A e \in VisibleSlots' : View'[KeyOf(e)'] = ValueOf(e)'
<1>1. (NamesAreUnique =>
        /\ DOMAIN View = Keys
        /\ View = [k \in Keys |-> View[k]]
        /\ \A e \in VisibleSlots : View[KeyOf(e)] = ValueOf(e))'
  BY ViewAt, PTL
<1> QED
  BY <1>1

(* A key is the key of one slot, in this state and the next.               *)
LEMMA UniqueSlotsNow ==
    NamesAreUnique => \A d, e \in VisibleSlots : KeyOf(d) = KeyOf(e) => d = e
  BY UniqueSlots

LEMMA UniqueSlotsNext ==
    NamesAreUnique' => \A d, e \in VisibleSlots' : KeyOf(d)' = KeyOf(e)' => d = e
<1>1. (NamesAreUnique => \A d, e \in VisibleSlots : KeyOf(d) = KeyOf(e) => d = e)'
  BY UniqueSlotsNow, PTL
<1> QED
  BY <1>1

(* The store stays, or one key joins it, or leaves it.                     *)
LEMMA ViewKept ==
    ASSUME Sane, NamesAreUnique', VisibleSlots' = VisibleSlots,
           \A e \in VisibleSlots : IsKept(e)
    PROVE  View' = View
<1>1. NamesAreUnique
  BY DEF Sane, Healthy
<1>2. \A e \in VisibleSlots : KeyOf(e)' = KeyOf(e) /\ ValueOf(e)' = ValueOf(e)
  BY KeptFacts
<1>3. Keys' = Keys
  BY <1>2 DEF Keys
<1>4. ASSUME NEW k \in Keys PROVE View'[k] = View[k]
  <2>1. PICK e \in VisibleSlots : k = KeyOf(e)
    BY DEF Keys
  <2> QED
    BY <1>1, <1>2, <2>1, ViewAt, ViewAtNext
<1> QED
  BY <1>1, <1>3, <1>4, ViewAt, ViewAtNext

LEMMA ViewGrows ==
    ASSUME Sane, NamesAreUnique', NEW o, o \notin VisibleSlots,
           VisibleSlots' = VisibleSlots \cup {o},
           \A e \in VisibleSlots : IsKept(e),
           NEW k, NEW v, \A e : e = o => KeyOf(e)' = k /\ ValueOf(e)' = v
    PROVE  /\ k \notin DOMAIN View
           /\ View' = [j \in DOMAIN View \cup {k} |-> IF j = k THEN v ELSE View[j]]
<1>1. NamesAreUnique
  BY DEF Sane, Healthy
<1>2. \A e \in VisibleSlots : KeyOf(e)' = KeyOf(e) /\ ValueOf(e)' = ValueOf(e)
  BY KeptFacts
<1>3. o \in VisibleSlots' /\ KeyOf(o)' = k /\ ValueOf(o)' = v
  OBVIOUS
<1>4. Keys' = Keys \cup {k}
  <2>1. Keys' = {KeyOf(e)' : e \in VisibleSlots'}
    BY DEF Keys
  <2> QED
    BY <1>2, <1>3, <2>1 DEF Keys
<1>5. k \notin Keys
  <2> SUFFICES ASSUME NEW e \in VisibleSlots, k = KeyOf(e) PROVE FALSE
    BY DEF Keys
  <2>1. e \in VisibleSlots' /\ KeyOf(e)' = KeyOf(o)'
    BY <1>2, <1>3
  <2>2. \A d, c \in VisibleSlots' : KeyOf(d)' = KeyOf(c)' => d = c
    BY UniqueSlotsNext
  <2>3. e = o
    BY <1>3, <2>1, <2>2
  <2> QED
    BY <2>3
<1>6. View'[k] = v
  BY <1>3, ViewAtNext
<1>7. ASSUME NEW j \in Keys PROVE View'[j] = View[j]
  <2>1. PICK e \in VisibleSlots : j = KeyOf(e)
    BY DEF Keys
  <2> QED
    BY <1>1, <1>2, <2>1, ViewAt, ViewAtNext
<1> QED
  BY <1>1, <1>4, <1>5, <1>6, <1>7, ViewAt, ViewAtNext

LEMMA ViewShrinks ==
    ASSUME Sane, NamesAreUnique', NEW o \in VisibleSlots,
           VisibleSlots' = VisibleSlots \ {o},
           \A e \in VisibleSlots' : IsKept(e)
    PROVE  /\ KeyOf(o) \in DOMAIN View \ DOMAIN View'
           /\ View' = [j \in DOMAIN View \ {KeyOf(o)} |-> View[j]]
<1>1. NamesAreUnique
  BY DEF Sane, Healthy
<1>2. \A e \in VisibleSlots' : KeyOf(e)' = KeyOf(e) /\ ValueOf(e)' = ValueOf(e)
  BY KeptFacts
<1>3. Keys' = {KeyOf(e) : e \in VisibleSlots \ {o}}
  <2>1. Keys' = {KeyOf(e)' : e \in VisibleSlots'}
    BY DEF Keys
  <2> QED
    BY <1>2, <2>1
<1>4. Keys' = Keys \ {KeyOf(o)} /\ KeyOf(o) \in Keys
  BY <1>1, <1>3, UniqueSlots DEF Keys
<1>5. ASSUME NEW j \in Keys' PROVE View'[j] = View[j]
  <2>1. PICK e \in VisibleSlots \ {o} : j = KeyOf(e)
    BY <1>3
  <2>2. KeyOf(e)' = KeyOf(e) /\ ValueOf(e)' = ValueOf(e) /\ e \in VisibleSlots'
    BY <1>2, <2>1
  <2> QED
    BY <1>1, <2>1, <2>2, ViewAt, ViewAtNext
<1> QED
  BY <1>1, <1>4, <1>5, ViewAt, ViewAtNext

(* The folders of the store are the tables the entries lead to. *)
LEMMA DirectoriesAre ==
    ASSUME Sane
    PROVE  Store!Directories = FolderTables
<1>1. NamesAreUnique
  BY DEF Sane, Healthy
<1>2. \A e \in VisibleSlots :
          /\ (ValueOf(e).kind = "folder") = EntryAt(e).folder
          /\ EntryAt(e).folder => ValueOf(e).id = EntryAt(e).cluster
  <2>1. ASSUME NEW e \in VisibleSlots PROVE EntryAt(e).folder \in BOOLEAN
    <3>1. EntryAt(e) \in EntryType
      BY VisibleFacts
    <3> QED
      BY <3>1 DEF EntryType
  <2> QED
    BY <2>1 DEF ValueOf
<1>3. DOMAIN View = Keys /\ \A e \in VisibleSlots : View[KeyOf(e)] = ValueOf(e)
  BY <1>1, ViewAt
<1>4. Store!Range(View) = {ValueOf(e) : e \in VisibleSlots}
  BY <1>3 DEF Store!Range, Keys
<1>5. Store!FolderIds = {EntryAt(e).cluster : e \in VisibleFolders}
  <2> DEFINE values == {w \in Store!Range(View) : w.kind = "folder"}
  <2>1. values = {ValueOf(e) : e \in VisibleFolders}
    <3>1. ASSUME NEW w \in values PROVE \E e \in VisibleFolders : w = ValueOf(e)
      BY <1>2, <1>4 DEF VisibleFolders
    <3>2. ASSUME NEW e \in VisibleFolders PROVE ValueOf(e) \in values
      BY <1>2, <1>4 DEF VisibleFolders
    <3> QED
      BY <3>1, <3>2
  <2>2. Store!FolderIds = {w.id : w \in values}
    BY DEF Store!FolderIds
  <2>3. \A e \in VisibleFolders : ValueOf(e).id = EntryAt(e).cluster
    BY <1>2 DEF VisibleFolders
  <2> HIDE DEF values
  <2> QED
    BY <2>1, <2>2, <2>3
<1> QED
  BY <1>5 DEF Store!Directories, FolderTables

-----------------------------------------------------------------------------
LEMMA NothingSeen ==
    ASSUME Sane, NamesAreUnique', VisibleSlots' = VisibleSlots,
           \A e \in VisibleSlots : IsKept(e), UNCHANGED defect
    PROVE  UNCHANGED Store!storeVars
  BY ViewKept DEF Store!storeVars

(* A damage may change nothing, or the key of one slot.                    *)
LEMMA NothingDamaged ==
    ASSUME Sane, NamesAreUnique', VisibleSlots' = VisibleSlots,
           \A e \in VisibleSlots : IsKept(e), defect' # "none"
    PROVE  Store!Damage
  BY ViewKept DEF Store!Damage

LEMMA OneDamaged ==
    ASSUME Sane, NamesAreUnique', NEW o, o \notin VisibleSlots,
           VisibleSlots' = VisibleSlots \cup {o},
           \A e \in VisibleSlots : IsKept(e), defect' # "none"
    PROVE  Store!Damage
<1> DEFINE changed == {k \in DOMAIN View \cup DOMAIN View' :
                          k \in DOMAIN View \cap DOMAIN View' => View[k] # View'[k]}
<1>1. PICK k, v : \A e : e = o => KeyOf(e)' = k /\ ValueOf(e)' = v
  <2>1. \A e : e = o => KeyOf(e)' = KeyOf(o)' /\ ValueOf(e)' = ValueOf(o)'
    OBVIOUS
  <2> QED
    BY <2>1
<1>2. View' = [j \in DOMAIN View \cup {k} |-> IF j = k THEN v ELSE View[j]]
  BY <1>1, ViewGrows
<1>3. \A j \in changed : j = k
  BY <1>2
<1> HIDE DEF changed
<1>4. \A i, j \in changed : i = j
  BY <1>3
<1> QED
  BY <1>4 DEF Store!Damage, changed

(* Steps that leave the disk alone leave the slots in their places.        *)
LEMMA SamePlaces ==
    ASSUME Sane, disk' = disk
    PROVE  NamesAreUnique' /\ UsedSlots' = UsedSlots /\ Tables' = Tables
<1>1. Tables' = Tables
  BY DEF Tables, IsTable
<1> QED
  BY <1>1 DEF Sane, Healthy, NamesAreUnique, UsedSlots, EntryAt

(* An operation that ends early, for want of space or power, shows its     *)
(* slot or not: that is the one key it damages.                            *)
LEMMA DamagedStep ==
    ASSUME Sane, TypeInv', RunOutOfSpace \/ (Reboot /\ op # Idle)
    PROVE  Store!Damage
<1>1. /\ disk' = disk /\ op' = Idle /\ defect' # "none"
      /\ \/ RunOutOfSpace /\ fat' = fat
         \/ Reboot /\ fat' = disk_fat
  BY DEF RunOutOfSpace, Reboot, Remember, Sane, Healthy
<1>2. op \in WriteOp \cup DeleteOp
  <2>1. /\ op \in {Idle, Lost, NoTable, NoRoot} \cup WriteOp \cup DeleteOp
        /\ op \notin {Lost, NoTable, NoRoot}
    BY DEF Sane, Healthy, TypeInv, Fat32TypeOK
  <2>2. op # Idle
    BY DEF RunOutOfSpace, Idle
  <2> QED
    BY <2>1, <2>2
<1>3. /\ NamesAreUnique' /\ UsedSlots' = UsedSlots /\ Tables' = Tables
      /\ VisibleSlots' = UsedSlots' /\ VisibleSlots = UsedSlots \ {OpSlot}
  BY <1>1, <1>2, SamePlaces, IdleFactsNext, OpFacts DEF TypeInv
<1>4. ASSUME NEW e \in VisibleSlots PROVE IsKept(e)
  <2>1. \A k \in DOMAIN PathOf(e) : fat'[PathOf(e)[k]] = fat[PathOf(e)[k]]
    BY <1>1, SavedPaths
  <2> QED
    BY <1>1, <1>3, <2>1 DEF IsKept, EntryAt
<1>5. CASE OpSlot \in UsedSlots
  <2>1. VisibleSlots' = VisibleSlots \cup {OpSlot} /\ OpSlot \notin VisibleSlots
    BY <1>3, <1>5
  <2>2. PICK o : o = OpSlot
    OBVIOUS
  <2>3. VisibleSlots' = VisibleSlots \cup {o} /\ o \notin VisibleSlots
    BY <2>1, <2>2
  <2> QED
    BY <1>1, <1>3, <1>4, <2>3, OneDamaged
<1>6. CASE OpSlot \notin UsedSlots
  <2>1. VisibleSlots' = VisibleSlots
    BY <1>3, <1>6
  <2> QED
    BY <1>1, <1>3, <1>4, <2>1, NothingDamaged
<1> QED
  BY <1>5, <1>6

(* A directory that is none is taken for one: nothing is seen of it yet.   *)
LEMMA MisreadSeen ==
    ASSUME Sane, TypeInv', NEW parent \in Clusters \ Tables, NEW n \in Names,
           MisreadParent(parent, n)
    PROVE  Store!Damage
<1>1. /\ disk' = disk /\ fat' = fat /\ op = Idle /\ op' = Lost /\ defect' # "none"
  BY DEF MisreadParent, Remember
<1>2. NamesAreUnique' /\ UsedSlots' = UsedSlots /\ Tables' = Tables
  BY <1>1, SamePlaces
<1>3. VisibleSlots = UsedSlots
  BY <1>1, OpVisible DEF Sane, TypeInv
<1>4. VisibleSlots' = UsedSlots'
  BY <1>1, OpVisibleNext DEF TypeInv
<1>5. \A e \in VisibleSlots : IsKept(e)
  BY <1>1, <1>2, <1>3, <1>4 DEF IsKept, EntryAt
<1> QED
  BY <1>1, <1>2, <1>3, <1>4, <1>5, NothingDamaged

(* The start of write is not seen; that of delete is the whole deletion.   *)
LEMMA WriteSeen ==
    ASSUME Sane, NEW parent \in Tables, NEW n \in Names, NEW size \in 0 .. MaxSize,
           NEW p \in Payloads, Write(parent, n, size, p)
    PROVE  UNCHANGED Store!storeVars \/ Store!Damage
<1>1. VisibleSlots' = VisibleSlots /\ NamesAreUnique' /\ \A e \in VisibleSlots : IsKept(e)
  BY WriteEffect
<1>2. UNCHANGED defect \/ defect' # "none"
  BY DEF Write, Remember
<1> QED
  BY <1>1, <1>2, NothingSeen, NothingDamaged

LEMMA DeleteSeen ==
    ASSUME Sane, TypeInv', NEW parent \in Tables, NEW n \in Names,
           DeleteFolder(parent, n) \/ DeleteFile(parent, n)
    PROVE  Store!StoreNext
<1>1. PICK s \in Entries, pc \in {"free", "parent"}, c \in Clusters :
           /\ c = disk[parent].entry[s].cluster
           /\ op = Idle /\ DeleteEntryAt(parent, s, pc) /\ disk_fat' = disk_fat
           /\ \/ /\ pc = "free"
                 /\ ~disk[parent].entry[s].folder
                 /\ UNCHANGED << disk, fat >>
              \/ /\ pc = "parent"
                 /\ disk[parent].entry[s].folder
                 /\ LooksEmpty(c)
                 /\ disk' = [disk EXCEPT ![c] = Zero]
                 /\ fat' = [fat EXCEPT ![c] = FAT32_FAT_EMPTY_ENTRY]
  <2>1. \A s \in Entries : disk[parent].entry[s].cluster \in Clusters
    BY TableAt DEF Sane, TypeInv, EntryType
  <2> QED
    BY <2>1 DEF DeleteFolder, DeleteFile, FindEntry
<1> DEFINE o == << parent, s >>
<1>2. op' \in DeleteOp
  BY DeleteTypes DEF Sane
<1>3. /\ VisibleSlots' = VisibleSlots \ {o}
      /\ \A e \in VisibleSlots' : IsKept(e)
      /\ NamesAreUnique'
      /\ disk[parent].entry[s].used <=> o \in VisibleSlots
      /\ pc = "parent" /\ disk[parent].entry[s].used => \A e \in VisibleSlots : e[1] # c
  <2>1. DeleteBegins(parent, s, pc, c)
    BY <1>1, Zenon DEF DeleteBegins
  <2> QED
    BY <1>2, <2>1, DeleteEffect
<1>4. CASE ~disk[parent].entry[s].used
  <2>1. VisibleSlots' = VisibleSlots /\ \A e \in VisibleSlots : IsKept(e)
    BY <1>3, <1>4
  <2>2. defect' # "none"
    BY <1>1, <1>4 DEF DeleteEntryAt, Remember
  <2> QED
    BY <1>3, <2>1, <2>2, NothingDamaged DEF Store!StoreNext
<1>5. CASE disk[parent].entry[s].used
  <2> DEFINE k == KeyOf(o)
  <2>1. o \in VisibleSlots /\ EntryAt(o) = disk[parent].entry[s]
    BY <1>3, <1>5 DEF EntryAt
  <2>2. NamesAreUnique
    BY DEF Sane, Healthy
  <2>3. DOMAIN View = Keys /\ View[k] = ValueOf(o)
    BY <2>1, <2>2, ViewAt
  <2>4. k \in DOMAIN View \ DOMAIN View' /\ View' = [j \in DOMAIN View \ {k} |-> View[j]]
    BY <1>3, <2>1, ViewShrinks
  <2>5. UNCHANGED defect
    BY <1>1, <1>5 DEF DeleteEntryAt
  <2>6. ASSUME View[k].kind = "folder", NEW j \in DOMAIN View
        PROVE  j[1] # View[k].id
    <3>1. pc = "parent" /\ View[k].id = c
      <4>1. CASE EntryAt(o).folder
        BY <1>1, <2>1, <2>3, <4>1 DEF ValueOf
      <4>2. CASE ~EntryAt(o).folder
        BY <2>3, <2>6, <4>2 DEF ValueOf
      <4> QED
        BY <4>1, <4>2
    <3>2. PICK e \in VisibleSlots : j = KeyOf(e)
      BY <2>3 DEF Keys
    <3>3. j[1] = e[1]
      BY <3>2 DEF KeyOf
    <3> QED
      BY <1>3, <1>5, <3>1, <3>2, <3>3
  <2> HIDE DEF k
  <2>7. View' = Store!Restrict(View, DOMAIN View \ {k})
    BY <2>4 DEF Store!Restrict
  <2>8. Store!Delete(k)
    BY <2>5, <2>6, <2>7 DEF Store!Delete
  <2> QED
    BY <2>4, <2>8 DEF Store!StoreNext
<1> QED
  BY <1>4, <1>5

(* The last write of write is when its file or folder appears.             *)
LEMMA FlushSeen ==
    ASSUME Sane, Flush, op \in WriteOp, Healthy'
    PROVE  Store!StoreNext
<1>1. PICK o : o = OpSlot
  OBVIOUS
<1> DEFINE k == << op.parent, OpEntry.name >>
           v == IF op.size = 0 THEN Store!FolderOf(OpEntry.cluster)
                               ELSE Store!FileOf(op.payload, op.size)
<1>2. /\ VisibleSlots' = VisibleSlots \cup {o} /\ o \notin VisibleSlots
      /\ \A e \in VisibleSlots : IsKept(e)
      /\ \A e : e = o => PathOf(e)' = OpPath /\ EntryAt(e)' = OpEntry
  BY <1>1, WriteFlushStep
<1>3. /\ op.pc = "flush" /\ disk' = disk /\ fat' = fat /\ defect' = defect
      /\ op.parent \in FolderTables /\ op.parent \in Clusters
      /\ OpEntry.used /\ OpEntry.filesize = op.size
      /\ OpEntry.folder <=> op.size = 0
      /\ IsChain(OpPath, fat, OpEntry.cluster, IF op.size = 0 THEN 1 ELSE op.i)
      /\ op.i = op.size
      /\ op.size > 0 => \A j \in 1 .. op.i : disk[OpPath[j]] = Block(op.payload, j)
  BY OpFacts DEF Flush, Sane, Healthy, WriteIsSound
<1>4. /\ op.size \in 0 .. MaxSize /\ op.payload \in Payloads /\ o[1] = op.parent
      /\ OpEntry \in EntryType
  <2>1. OpEntry \in EntryType
    BY <1>1, OpFacts
  <2>2. op.size \in 0 .. MaxSize /\ op.payload \in Payloads
    BY Zenon DEF WriteOp
  <2> QED
    BY <1>1, <2>1, <2>2 DEF OpSlot
<1>5. OpEntry.name \in Names
  <2>1. OpEntry = disk[op.parent].entry[op.slot]
    BY DEF OpEntry
  <2>2. NamesAreUnique
    BY DEF Sane, Healthy
  <2>3. op.parent \in Tables /\ op.slot \in Entries
    BY OpFacts
  <2>4. OpEntry.used
    BY <1>3
  <2> QED
    BY <2>1, <2>2, <2>3, <2>4 DEF NamesAreUnique
<1>6. ASSUME NEW e, e = o
      PROVE  KeyOf(e)' = k /\ ValueOf(e)' = v
  <2>1. KeyOf(e)' = << e[1], EntryAt(e)'.name >>
    BY DEF KeyOf
  <2>2. CASE op.size = 0
    <3>1. ValueOf(e)' = [kind |-> "folder", id |-> OpEntry.cluster]
      BY <1>2, <1>3, <1>6, <2>2 DEF ValueOf
    <3> QED
      BY <1>2, <1>4, <1>6, <2>1, <2>2, <3>1 DEF Store!FolderOf
  <2>3. CASE op.size # 0
    <3>1. Chain(fat', EntryAt(e)'.cluster) = OpPath
      BY <1>2, <1>6 DEF PathOf
    <3>2. Contents(e)' = [j \in 1 .. Len(OpPath) |-> disk[OpPath[j]]]
      BY <1>3, <3>1 DEF Contents
    <3>3. Len(OpPath) = op.size /\ op.size > 0
      BY <1>3, <1>4, <2>3, ChainFacts
    <3>4. [j \in 1 .. Len(OpPath) |-> disk[OpPath[j]]]
             = [j \in 1 .. op.size |-> Block(op.payload, j)]
      BY <1>3, <3>3
    <3>5. ValueOf(e)' = [kind |-> "file", data |-> Contents(e)']
      BY <1>2, <1>3, <1>6, <2>3 DEF ValueOf
    <3>6. \A j : Block(op.payload, j) = Store!Block(op.payload, j)
      BY DEF Block, Store!Block
    <3>7. [j \in 1 .. op.size |-> Block(op.payload, j)]
             = [j \in 1 .. op.size |-> Store!Block(op.payload, j)]
      BY <3>6
    <3>8. Store!FileOf(op.payload, op.size)
             = [kind |-> "file", data |-> [j \in 1 .. op.size |-> Store!Block(op.payload, j)]]
      BY DEF Store!FileOf
    <3>9. ValueOf(e)' = Store!FileOf(op.payload, op.size)
      BY <3>2, <3>4, <3>5, <3>7, <3>8, Zenon
    <3> QED
      BY <1>2, <1>4, <1>6, <2>1, <2>3, <3>9
  <2> QED
    BY <2>2, <2>3
<1> HIDE DEF k, v
<1>7. NamesAreUnique'
  BY DEF Healthy
<1>8. /\ k \notin DOMAIN View
      /\ View' = [j \in DOMAIN View \cup {k} |-> IF j = k THEN v ELSE View[j]]
  BY <1>2, <1>6, <1>7, ViewGrows
<1>9. Store!Add(k, v)
  <2>1. k[1] \in Store!Directories
    BY <1>3, DirectoriesAre DEF k
  <2>2. k \in Store!Keys
    <3>1. Clusters = {ROOT_CLUSTER_NUMBER} \cup (Clusters \ {ROOT_CLUSTER_NUMBER})
      BY SomeClusters
    <3> QED
      BY <1>3, <1>5, <3>1 DEF k, Store!Keys
  <2> QED
    BY <1>3, <1>8, <2>1, <2>2 DEF Store!Add, Store!With
<1>10. k \in DOMAIN View' \ DOMAIN View
  BY <1>8
<1>11. CASE op.size = 0
  <2>1. OpEntry.cluster \in Clusters \ {ROOT_CLUSTER_NUMBER}
    BY <1>3, ChainFacts, SomeClusters DEF Free, ROOT_CLUSTER_NUMBER
  <2>2. OpEntry.cluster \notin FolderTables
    <3>1. 1 \in DOMAIN OpPath /\ OpPath[1] = OpEntry.cluster
      <4>1. \E n : IsChain(OpPath, fat, OpEntry.cluster, n)
        BY <1>3
      <4> QED
        BY <4>1, ChainFacts
    <3>2. ASSUME NEW e \in VisibleFolders PROVE EntryAt(e).cluster # OpEntry.cluster
      <4>1. e \in VisibleSlots /\ 1 \in DOMAIN PathOf(e) /\ PathOf(e)[1] = EntryAt(e).cluster
        BY VisibleFacts DEF VisibleFolders
      <4> QED
        BY <3>1, <4>1 DEF Sane, Healthy, PathsAreApart
    <3> QED
      BY <2>1, <3>2 DEF FolderTables
  <2>3. OpEntry.cluster \notin Store!FolderIds
    BY <2>2, DirectoriesAre DEF Store!Directories
  <2>4. Store!MakeFolder(k, OpEntry.cluster)
    BY <1>9, <1>11, <2>3 DEF Store!MakeFolder, v
  <2> QED
    BY <1>10, <2>1, <2>4 DEF Store!StoreNext
<1>12. CASE op.size # 0
  <2>1. op.size \in 1 .. MaxSize
    BY <1>4, <1>12
  <2>2. Store!WriteFile(k, op.payload, op.size)
    BY <1>9, <1>12 DEF Store!WriteFile, v
  <2> QED
    BY <1>4, <1>10, <2>1, <2>2 DEF Store!StoreNext
<1> QED
  BY <1>11, <1>12

(* All the steps, as long as nothing has gone wrong; afterwards the store  *)
(* promises nothing.                                                       *)
LEMMA SaneStepSeen ==
    ASSUME Sane, TypeInv', defect = "none", [Next]_vars, defect' = "none" => Healthy'
    PROVE  Store!StoreNext \/ UNCHANGED Store!storeVars
<1>1. CASE \E parent \in Tables, n \in Names, size \in 0 .. MaxSize, p \in Payloads :
              Write(parent, n, size, p)
  BY <1>1, WriteSeen DEF Store!StoreNext
<1>2. CASE \E parent \in Tables, n \in Names : DeleteFolder(parent, n) \/ DeleteFile(parent, n)
  BY <1>2, DeleteSeen
<1>3. CASE WriteFolder \/ WriteCluster \/ FreeCluster \/ FreeLastCluster \/ WriteParent
  <2>1. Healthy' /\ VisibleSlots' = VisibleSlots /\ \A e \in VisibleSlots : IsKept(e)
    BY <1>3, WriteFolderStep, WriteClusterStep, FreeStep, WriteParentStep
  <2>2. UNCHANGED defect
    BY <1>3 DEF WriteFolder, WriteCluster, FreeCluster, FreeLastCluster, WriteParent
  <2> QED
    BY <2>1, <2>2, NothingSeen DEF Healthy
<1>4. CASE Flush
  <2>1. op \in WriteOp \cup DeleteOp
    BY <1>4, OpKinds DEF Flush, Sane, TypeInv
  <2>2. UNCHANGED defect /\ Healthy'
    BY <1>4 DEF Flush
  <2>3. CASE op \in WriteOp
    BY <1>4, <2>2, <2>3, FlushSeen
  <2>4. CASE op \in DeleteOp
    <3>1. VisibleSlots' = VisibleSlots /\ \A e \in VisibleSlots : IsKept(e)
      BY <1>4, <2>4, DeleteFlushStep
    <3> QED
      BY <2>2, <3>1, NothingSeen DEF Healthy
  <2> QED
    BY <2>1, <2>3, <2>4
<1>5. CASE RunOutOfSpace \/ (Reboot /\ op # Idle)
  BY <1>5, DamagedStep DEF Store!StoreNext
<1>6. CASE FreeOutside \/ FormatTable \/ FormatRoot
  BY <1>6, NoOtherStep
<1>7. CASE UNCHANGED vars \/ (Reboot /\ op = Idle)
  <2>1. UNCHANGED vars
    BY <1>7, IdleReboot
  <2>2. /\ disk' = disk /\ fat' = fat /\ op' = op /\ defect' = defect
    BY <2>1 DEF vars
  <2>3. NamesAreUnique' /\ Tables' = Tables
    BY <2>2, SamePlaces
  <2>4. VisibleSlots' = VisibleSlots
    BY <2>2, <2>3 DEF VisibleSlots
  <2>5. \A e \in VisibleSlots : IsKept(e)
    BY <2>2, <2>4 DEF IsKept, EntryAt
  <2> QED
    BY <2>2, <2>3, <2>4, <2>5, NothingSeen
<1>8. CASE \E parent \in Clusters \ Tables, n \in Names : MisreadParent(parent, n)
  BY <1>8, MisreadSeen DEF Store!StoreNext
<1> QED
  BY <1>1, <1>2, <1>3, <1>4, <1>5, <1>6, <1>7, <1>8 DEF Next, DriverStep

LEMMA StoreStep ==
    Fat32Inv /\ Fat32Inv' /\ [Next]_vars => [Store!StoreNext]_(Store!storeVars)
<1> SUFFICES ASSUME Fat32Inv, Fat32Inv', [Next]_vars
             PROVE  Store!StoreNext \/ UNCHANGED Store!storeVars
  OBVIOUS
<1>1. CASE defect = "none"
  BY <1>1, SaneStepSeen DEF Fat32Inv, Sane, TypeInv
<1>2. CASE defect # "none"
  <2>1. defect' # "none"
    BY <1>2, DefectStays
  <2> QED
    BY <1>2, <2>1 DEF Store!StoreNext, Store!Undefined
<1> QED
  BY <1>1, <1>2

(* Nothing is visible on a new disk.                                       *)
LEMMA StoreStart == Init => Store!StoreInit
<1> SUFFICES ASSUME Init PROVE View = << >> /\ (defect # "none") = FALSE
  BY DEF Store!StoreInit
<1>1. defect = "none"
  BY DEF Init
<1>2. VisibleSlots = {}
  <2>1. /\ op = Idle /\ Fat32TypeOK
        /\ disk = [c \in Clusters |->
                    CASE c = BOOT_SECTOR         -> Boot
                      [] c = ROOT_CLUSTER_NUMBER -> NewTable(ROOT_CLUSTER_NUMBER)
                      [] OTHER                   -> Zero]
    BY TypeInit DEF Init, TypeInv
  <2>2. ASSUME NEW t \in Tables PROVE t = ROOT_CLUSTER_NUMBER
    <3>1. Boot.kind # "table" /\ Zero.kind # "table"
      BY DEF Boot, Zero
    <3> QED
      BY <2>1, <3>1 DEF Tables, IsTable
  <2>3. disk[ROOT_CLUSTER_NUMBER] = NewTable(ROOT_CLUSTER_NUMBER)
    BY <2>1, SomeClusters DEF BOOT_SECTOR, ROOT_CLUSTER_NUMBER
  <2>4. \A s \in Entries : ~disk[ROOT_CLUSTER_NUMBER].entry[s].used
    BY <2>3 DEF NewTable, EmptyEntry
  <2> QED
    BY <2>2, <2>4 DEF VisibleSlots
<1>3. View = [k \in {} |-> ValueOf(CHOOSE e \in VisibleSlots : KeyOf(e) = k)]
  BY <1>2 DEF View
<1>4. View = << >>
  BY <1>3
<1> QED
  BY <1>1, <1>4

(* Every behaviour of the driver, seen through the entries its callers can *)
(* see, is one of the file store: a file reads back as it was written      *)
(* until it is deleted, and what goes wrong damages one entry.             *)
THEOREM DriverIsFileStore == Spec => IsFileStore
<1>1. Fat32Inv /\ Fat32Inv' /\ [Next]_vars => [Store!StoreNext]_(Store!storeVars)
  BY StoreStep
<1> QED
  BY <1>1, StoreStart, Fat32Invariant, PTL DEF Spec, IsFileStore, Store!StoreSpec
=============================================================================
