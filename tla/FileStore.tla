----------------------------- MODULE FileStore -----------------------------
(***************************************************************************)
(* What the file system promises (src/src/header/filesystem/fat32.h):      *)
(* directories in which a name stands for a file, whose data reads back as *)
(* it was written, or for a folder.  Each operation happens at once and    *)
(* touches one name.                                                       *)
(*                                                                         *)
(* Only one thing may go wrong: an operation that is damaged leaves the    *)
(* name it works on in any state.  From then on nothing is promised.       *)
(***************************************************************************)
EXTENDS Integers, Functions

CONSTANTS
    Names, Payloads,
    MaxSize,            \* the largest file, in clusters
    Folders, Root       \* the identities folders can have; Root is none of them

VARIABLES
    store,      \* [subset of Directories \X Names -> file or folder]
    damaged     \* BOOLEAN

storeVars == << store, damaged >>

Keys == ({Root} \cup Folders) \X Names

FolderOf(id)  == [kind |-> "folder", id |-> id]
Block(p, k)   == [kind |-> "data", file |-> p, number |-> k]
FileOf(p, n)  == [kind |-> "file", data |-> [k \in 1 .. n |-> Block(p, k)]]

FolderIds   == {v.id : v \in {w \in Range(store) : w.kind = "folder"}}
Directories == {Root} \cup FolderIds

StoreInit == store = << >> /\ damaged = FALSE

With(k, v) == [j \in DOMAIN store \cup {k} |-> IF j = k THEN v ELSE store[j]]

(* The name of key k, which stood for nothing, stands for v. *)
Add(k, v) ==
    /\ k \in Keys /\ k[1] \in Directories
    /\ store' = With(k, v)
    /\ UNCHANGED damaged

WriteFile(k, p, n) == Add(k, FileOf(p, n))

MakeFolder(k, id) == id \notin FolderIds /\ Add(k, FolderOf(id))

(* A folder is deleted only when it is empty. *)
Delete(k) ==
    /\ store[k].kind = "folder" => \A j \in DOMAIN store : j[1] # store[k].id
    /\ store' = Restrict(store, DOMAIN store \ {k})
    /\ UNCHANGED damaged

(* Every name but one keeps what it stands for. *)
Damage ==
    LET old     == store
        new     == store'
        changed == {k \in DOMAIN old \cup DOMAIN new :
                       k \in DOMAIN old \cap DOMAIN new => old[k] # new[k]}
    IN  damaged' = TRUE /\ \A j, k \in changed : j = k

Undefined == damaged /\ damaged'

StoreNext ==
    \/ Undefined
    \/ \E k \in DOMAIN store' \ DOMAIN store :
          \/ \E p \in Payloads, n \in 1 .. MaxSize : WriteFile(k, p, n)
          \/ \E id \in Folders : MakeFolder(k, id)
    \/ \E k \in DOMAIN store \ DOMAIN store' : Delete(k)
    \/ Damage

StoreSpec == StoreInit /\ [][StoreNext]_storeVars
=============================================================================
