---------------------------- MODULE FileCommands ----------------------------
(***************************************************************************)
(* The file commands of the shell (command-shell.c) and the shell state    *)
(* that the kernel keeps for them (fat32.c), on a file system that does    *)
(* what FileStore says, for one shell that nothing disturbs but a reboot.  *)
(* A command is a sequence of system calls; calls that only read are part  *)
(* of the step of the next one that writes, since only a reboot comes in   *)
(* between.  cp and mv are copyPath and mvPath; the functions cp and mv of *)
(* the source are never called.                                            *)
(*                                                                         *)
(* A file is the payload it was created with and its length in clusters.   *)
(* A copy of a directory table is a function from the names in use to what *)
(* they stand for: where the order of its entries matters (copy looks for  *)
(* the last of several), any order is possible.  What follows when the     *)
(* code reads memory that it never wrote is left open: see Astray.         *)
(***************************************************************************)
EXTENDS FileStore, SequencesExt, FiniteSets

CONSTANTS
    InitialFiles,   \* [subset of Names -> 1 .. MaxSize], in the root at first
    Prefix,         \* [Names \cup {RootName} -> anything], what copy compares of a name
    Capacity,       \* the number of clusters the disk has for files and folders
    Paths,          \* bound: the paths the user types
    Garbage,        \* the payload of memory that was never written
    BootCluster, FileData, NOT_FOUND    \* clusters that are no directory

(* The component of a path that the user left out, as in "d/". *)
NoName == "no name"

(* What the root's table has for its own name, in an entry of a folder. *)
RootName == "Root"

ASSUME FileCommandsAssumption ==
    /\ DOMAIN InitialFiles \subseteq Names \cap Payloads /\ IsFiniteSet(DOMAIN InitialFiles)
    /\ \A n \in DOMAIN InitialFiles : InitialFiles[n] \in 1 .. MaxSize
    /\ Garbage \in Payloads \ Names
    /\ Root \notin Folders
    /\ {BootCluster, FileData, NOT_FOUND} \cap ({Root} \cup Folders) = {}
    /\ Cardinality({BootCluster, FileData, NOT_FOUND}) = 3
    /\ Paths \subseteq Seq(Names \cup {NoName}) \ {<< >>}
    /\ MaxSize \in Nat

VARIABLES
    cur_cluster, cur_dir, cwd_table,    \* shell_state and cwd_table of fat32.c
    job                                 \* the command in progress

shellState == << cur_cluster, cur_dir, cwd_table >>
commandVars == << storeVars, shellState, job >>

-----------------------------------------------------------------------------
(* What the driver answers; c is any cluster. *)
Exists(c, n)  == << c, n >> \in DOMAIN store
ClusterOf(v)  == IF v.kind = "folder" THEN v.id ELSE FileData

(* read_clusters of a directory, and of anything else, where the entries   *)
(* are taken to be unused.                                                 *)
Listing(c) ==
    [n \in {m \in Names : Exists(c, m)} |-> store[<< c, n >>]]

(* The directory that .. stands for. *)
ParentOf(c) ==
    IF c \in FolderIds THEN (CHOOSE k \in DOMAIN store : ClusterOf(store[k]) = c)[1] ELSE c

TableOf(c) == [entry |-> Listing(c), parent |-> ParentOf(c)]

(* findCluster: it does not ask whether it has found a folder, and the     *)
(* empty name finds an entry that is not in use, whose cluster is 0.       *)
FindCluster(c, n) ==
    IF n = NoName THEN BootCluster
    ELSE IF Exists(c, n) THEN ClusterOf(store[<< c, n >>]) ELSE NOT_FOUND

LastCluster(path) ==
    LET walk[i \in 0 .. Len(path)] ==
            IF i = 0 THEN cur_cluster ELSE FindCluster(walk[i - 1], path[i])
    IN  walk[Len(path)]

ClustersAt(k) == IF store[k].kind = "folder" THEN 1 ELSE Len(store[k].data)
Used          == MapThenSumSet(ClustersAt, DOMAIN store)

(* write begins in a directory that does not have the name, if there is a  *)
(* free cluster; delete succeeds on files and on empty folders.            *)
WriteSucceeds(c, n) == c \in Directories /\ ~Exists(c, n) /\ Used < Capacity

DeleteSucceeds(c, n) ==
    /\ Exists(c, n)
    /\ store[<< c, n >>].kind = "folder" => Listing(store[<< c, n >>].id) = << >>

(* remove deletes the name twice: the second time there is nothing left,   *)
(* or it is the same folder that was not empty the first time.             *)
RemoveTwice(c, n) == IF DeleteSucceeds(c, n) THEN Delete(<< c, n >>) ELSE UNCHANGED storeVars

(* write of no bytes makes a folder, in a cluster that no other has. *)
NewFolderAnywhere(k) == \E id \in Folders : Add(k, FolderOf(id))
NewFolder(k)         == \E id \in Folders \ FolderIds : MakeFolder(k, id)

-----------------------------------------------------------------------------
Idle    == [pc |-> "idle"]
Astray  == [pc |-> "astray"]
Refresh == [pc |-> "refresh"]

Boot ==
    /\ cur_cluster' = Root
    /\ cur_dir' = << >>
    /\ cwd_table' = TableOf(Root)
    /\ job' = Idle

CommandsInit ==
    /\ store = [k \in {Root} \X DOMAIN InitialFiles |-> FileOf(k[2], InitialFiles[k[2]])]
    /\ damaged = FALSE
    /\ cur_cluster = Root
    /\ cur_dir = << >>
    /\ cwd_table = TableOf(Root)
    /\ job = Idle

(* update_shell_dir, with the path as the sequence of its folders. *)
UpdateShellDir(c, dir) ==
    /\ cur_cluster' = c
    /\ cwd_table' = TableOf(c)
    /\ cur_dir' = dir

AddPath(dir, n) == IF n = NoName THEN dir ELSE Append(dir, n)
KeepPath(dir)   == dir
RemovePath(dir) == SubSeq(dir, 1, Len(dir) - 1)

(* A shell that stands in something that is no directory is not followed,  *)
(* nor is one whose file system promises nothing any more.                 *)
AtPrompt == job = Idle /\ cur_cluster \in Directories /\ ~damaged

(* mkdir *)
Mkdir(n) ==
    /\ AtPrompt
    /\ WriteSucceeds(cur_cluster, n)
    /\ NewFolder(<< cur_cluster, n >>)
    /\ job' = Refresh
    /\ UNCHANGED shellState

(* rm looks for the file in the root, wherever the shell is, and refuses   *)
(* folders, since -r would be a third word.                                *)
Rm(n) ==
    /\ AtPrompt
    /\ Exists(Root, n) /\ store[<< Root, n >>].kind = "file"
    /\ RemoveTwice(Root, n)
    /\ job' = Refresh
    /\ UNCHANGED shellState

(* cd .. goes by the cached table. *)
CdUp ==
    /\ AtPrompt /\ cur_cluster # Root
    /\ UpdateShellDir(cwd_table.parent, RemovePath(cur_dir))
    /\ job' = Refresh
    /\ UNCHANGED storeVars

(* cd path changes directory once per component that is found. *)
Cd(path) ==
    /\ AtPrompt
    /\ job' = [pc |-> "cd", at |-> cur_cluster, path |-> path]
    /\ UNCHANGED << storeVars, shellState >>

CdStepUnchecked ==
    /\ job.pc = "cd"
    /\ LET n == Head(job.path)
           c == FindCluster(job.at, n)
       IN  /\ UpdateShellDir(c, AddPath(cur_dir, n))
           /\ job' = IF Len(job.path) = 1 THEN Refresh
                     ELSE [job EXCEPT !.at = c, !.path = Tail(@)]
    /\ UNCHANGED storeVars
CdStep ==
    /\ job.pc = "cd"
    /\ LET n == Head(job.path)
           c == FindCluster(job.at, n)
       IN  /\ IF c = NOT_FOUND THEN UNCHANGED shellState
              ELSE UpdateShellDir(c, AddPath(cur_dir, n))
           /\ job' = IF Len(job.path) = 1 THEN Refresh
                     ELSE [job EXCEPT !.at = c, !.path = Tail(@)]
    /\ UNCHANGED storeVars

(* The end of the loop of main reads the table of the directory again. *)
EndWithoutRefresh ==
    /\ job.pc = "refresh"
    /\ job' = Idle
    /\ UNCHANGED << storeVars, shellState >>
EndCommand ==
    /\ job.pc = "refresh"
    /\ UpdateShellDir(cur_cluster, cur_dir)
    /\ job' = Idle
    /\ UNCHANGED storeVars

-----------------------------------------------------------------------------
(* cp and mv.  stack holds the directories of traverseFolder that are not  *)
(* finished: each with what is left of the table read when it was entered. *)
(* A plain file is a traversal of its directory with one entry.  said: an  *)
(* error message has been printed, after which the command goes on.        *)
Level(c, table) == [dir |-> c, left |-> table]

Transfer(n, path, move) ==
    LET dest  == LastCluster(path)
        found == n \in DOMAIN cwd_table.entry
        item  == cwd_table.entry[n]
    IN  /\ AtPrompt
        /\ job' = [pc |-> "next", move |-> move, dest |-> dest,
                   said |-> dest = NOT_FOUND \/ ~found,
                   stack |-> IF found /\ item.kind = "folder"
                             THEN << Level(item.id, Listing(item.id)) >>
                             ELSE << Level(cur_cluster, [m \in {n} |-> FileOf(Garbage, 1)]) >>]
        /\ UNCHANGED << storeVars, shellState >>

(* A name that is not found is taken for a file, or else for a folder: its *)
(* attribute is read 9999 entries in front of the table.                   *)
TransferGoesAstray(n) ==
    /\ AtPrompt /\ n \notin DOMAIN cwd_table.entry
    /\ job' = Astray
    /\ UNCHANGED << storeVars, shellState >>

Cp(n, path) == Transfer(n, path, FALSE)
Mv(n, path) == Transfer(n, path, TRUE)

Top  == job.stack[1]
Rest == Tail(job.stack)
LeftAsRead(n)  == Top.left
LeftWithout(n) == Restrict(Top.left, DOMAIN Top.left \ {n})

(* The next entry of the table: a folder is traversed, into the same       *)
(* destination, and a file is copied.                                      *)
EnterFolder(n) ==
    /\ job.pc = "next" /\ n \in DOMAIN Top.left /\ Top.left[n].kind = "folder"
    /\ job' = [job EXCEPT !.stack = << Level(Top.left[n].id, Listing(Top.left[n].id)),
                                       Level(Top.dir, LeftWithout(n)) >> \o Rest]
    /\ UNCHANGED << storeVars, shellState >>

LeaveFolder ==
    /\ job.pc = "next" /\ Top.left = << >>
    /\ job' = IF Rest = << >> THEN [job EXCEPT !.pc = "report"]
              ELSE [job EXCEPT !.stack = Rest]
    /\ UNCHANGED << storeVars, shellState >>

(* copy first removes the target, if there is one. *)
BeginCopy(n) ==
    /\ job.pc = "next" /\ n \in DOMAIN Top.left /\ Top.left[n].kind = "file"
    /\ RemoveTwice(job.dest, n)
    /\ job' = [pc |-> "write", move |-> job.move, dest |-> job.dest, said |-> job.said,
               file |-> n,
               stack |-> << Level(Top.dir, LeftWithout(n)) >> \o Rest]
    /\ UNCHANGED shellState

(* The entries that copy takes for the source when it looks for its size:  *)
(* it compares only the beginning of the names.  The table also has an     *)
(* entry with the name of the folder itself, be it the root.               *)
Candidates(n) ==
    {k \in DOMAIN store : Prefix[k[2]] = Prefix[n]
                            /\ (k[1] = Top.dir \/ ClusterOf(store[k]) = Top.dir)}

SourceIsFile ==
    /\ \A k \in Candidates(job.file) : store[k].kind = "file"
    /\ Top.dir = Root => Prefix[RootName] # Prefix[job.file]

CandidateSizes(n) ==
    IF Candidates(n) = {} THEN 0 .. MaxSize
    ELSE {Len(store[k].data) : k \in Candidates(n)}

(* What read leaves in a buffer of that many clusters. *)
BufferAfterRead(n, size) ==
    LET fits == Exists(Top.dir, n) /\ Len(store[<< Top.dir, n >>].data) <= size
    IN  [kind |-> "file",
         data |-> [i \in 1 .. size |->
                     IF fits /\ i <= Len(store[<< Top.dir, n >>].data)
                     THEN store[<< Top.dir, n >>].data[i] ELSE Block(Garbage, i)]]

AfterWrite == IF job.move THEN "remove" ELSE "next"

Copied(n) ==
    \E size \in CandidateSizes(n) :
        IF size = 0 THEN NewFolder(<< job.dest, n >>)
        ELSE Used + size <= Capacity /\ Add(<< job.dest, n >>, BufferAfterRead(n, size))

WriteCopy ==
    /\ job.pc = "write"
    /\ SourceIsFile
    /\ WriteSucceeds(job.dest, job.file)
    /\ Copied(job.file)
    /\ job' = [job EXCEPT !.pc = AfterWrite]
    /\ UNCHANGED shellState

(* The k-th cluster is the last one that is free, and the file has more:   *)
(* write answers -1, with the entry on the disk.                           *)
WriteIsCutShort ==
    /\ job.pc = "write"
    /\ SourceIsFile
    /\ WriteSucceeds(job.dest, job.file)
    /\ \E size \in CandidateSizes(job.file) : \E k \in 1 .. size - 1 :
          /\ Used + k = Capacity
          /\ store' = With(<< job.dest, job.file >>,
                            [BufferAfterRead(job.file, size) EXCEPT !.data = SubSeq(@, 1, k)])
    /\ damaged' = TRUE
    /\ job' = Astray
    /\ UNCHANGED shellState

WriteFailsSilently ==
    /\ job.pc = "write"
    /\ SourceIsFile
    /\ ~WriteSucceeds(job.dest, job.file)
    /\ job' = [job EXCEPT !.pc = AfterWrite]
    /\ UNCHANGED << storeVars, shellState >>
WriteFails ==
    /\ job.pc = "write"
    /\ SourceIsFile
    /\ ~WriteSucceeds(job.dest, job.file)
    /\ job' = [job EXCEPT !.pc = AfterWrite, !.said = TRUE]
    /\ UNCHANGED << storeVars, shellState >>

(* A folder is taken for the source, and copy goes through the entries of  *)
(* a table on the stack that it never read; or nothing is, and copy makes  *)
(* room on the stack for a file whose size it never set; or what a file    *)
(* has in it is taken for the table of the destination.                    *)
GoesAstray ==
    /\ job.pc = "write"
    /\ ~SourceIsFile \/ Candidates(job.file) = {} \/ job.dest = FileData
    /\ job' = Astray
    /\ UNCHANGED << storeVars, shellState >>

(* mv removes the source whatever became of the copy. *)
RemoveSource ==
    /\ job.pc = "remove"
    /\ RemoveTwice(Top.dir, job.file)
    /\ job' = [job EXCEPT !.pc = "next"]
    /\ UNCHANGED shellState

(* "Move successful." or "Copy successful.", always. *)
Report ==
    /\ job.pc = "report"
    /\ job' = Refresh
    /\ UNCHANGED << storeVars, shellState >>

-----------------------------------------------------------------------------
(* The power may fail between two system calls. *)
Reboot == Boot /\ UNCHANGED storeVars

CommandStep ==
    \/ CdStep \/ EndCommand
    \/ \E n \in Names : EnterFolder(n) \/ BeginCopy(n)
    \/ LeaveFolder \/ WriteCopy \/ WriteIsCutShort \/ WriteFails \/ GoesAstray
    \/ RemoveSource \/ Report

CommandsNext ==
    \/ \E n \in Names : Mkdir(n) \/ Rm(n) \/ TransferGoesAstray(n)
    \/ CdUp
    \/ \E path \in Paths : Cd(path)
    \/ \E n \in Names, path \in Paths : Cp(n, path) \/ Mv(n, path)
    \/ CommandStep
    \/ Reboot

CommandsSpec == CommandsInit /\ [][CommandsNext]_commandVars

(* The shell goes on with a command that it has begun. *)
FairCommandsSpec == CommandsSpec /\ WF_commandVars(CommandStep)

-----------------------------------------------------------------------------
(* The commands that only look: ls, cat of a file, find and the path that  *)
(* find prints.                                                            *)
Ls == cwd_table.entry

Cat(n) ==
    LET size == Len(cwd_table.entry[n].data)
    IN  IF Exists(cur_cluster, n) /\ Len(store[<< cur_cluster, n >>].data) <= size
        THEN store[<< cur_cluster, n >>].data ELSE << >>

(* The clusters of the folders of directory c, in the order of the table.  *)
FoldersIn(c) == SetToSeq({v.id : v \in {w \in Range(Listing(c)) : w.kind = "folder"}})

(* find: the directories that have the name, breadth first.                *)
FindForgetsSiblings(n) ==
    LET search[queue \in Seq(Directories)] ==
            IF queue = << >> THEN << >>
            ELSE (IF Exists(Head(queue), n) THEN << Head(queue) >> ELSE << >>)
                 \o search[FoldersIn(Head(queue))]
    IN  search[<< Root >>]
Find(n) ==
    LET search[queue \in Seq(Directories)] ==
            IF queue = << >> THEN << >>
            ELSE (IF Exists(Head(queue), n) THEN << Head(queue) >> ELSE << >>)
                 \o search[Tail(queue) \o FoldersIn(Head(queue))]
    IN  search[<< Root >>]

(* printDirPath prints the names of the tables on the way up to the        *)
(* directory that is its own parent, and a name for that one.              *)
NameOf(c) == (CHOOSE k \in DOMAIN store : ClusterOf(store[k]) = c)[2]

DirPath(c) ==
    LET climb[d \in Directories] ==
            IF ParentOf(d) = d THEN << RootName >>
            ELSE << NameOf(d) >> \o climb[ParentOf(d)]
    IN  climb[c]

-----------------------------------------------------------------------------
(* What findCluster and getLastCluster answer. *)
Answers == {Root, BootCluster, FileData, NOT_FOUND} \cup Folders

(* The state keeps its shape: every entry is in a directory that is there, *)
(* and so is the shell, or in what findCluster takes for one.  A folder on *)
(* the stack may have been removed since the table that names it was read. *)
CommandsTypeOK ==
    /\ \A k \in DOMAIN store :
          /\ k \in Keys /\ k[1] \in Directories
          /\ store[k] \in [kind : {"folder"}, id : Folders]
                 \/ /\ store[k].kind = "file"
                    /\ Len(store[k].data) \in 1 .. MaxSize
    /\ cur_cluster \in Directories \cup {BootCluster, FileData}
    /\ DOMAIN cwd_table.entry \subseteq Names
    /\ job.pc \in {"idle", "refresh", "astray", "cd", "next", "write", "remove", "report"}
    /\ job.pc \in {"next", "write", "remove"} =>
          /\ job.stack # << >>
          /\ \A i \in DOMAIN job.stack : job.stack[i].dir \in {Root} \cup Folders
          /\ job.dest \in Answers

(* The directories are a tree below the root: no folder has two entries,   *)
(* and in any set of folders there is one whose .. leads out of the set to *)
(* a directory that is there, whatever cp and mv take away or put in while *)
(* they go through it.  find and printDirPath come to an end only because  *)
(* of this: neither remembers where it has been (fat32.c:282).             *)
DirectoriesAreATree ==
    /\ \A k, l \in DOMAIN store : store[k].kind = "folder" /\ store[l] = store[k] => k = l
    /\ \A S \in SUBSET FolderIds : S # {} => \E c \in S : ParentOf(c) \in Directories \ S

(* A file that was there at first, still whole somewhere. *)
Present(p) == FileOf(p, InitialFiles[p]) \in Range(store)

(* The user loses a file only by rm, by a copy to a name that was taken,   *)
(* by mv after it has said that something was wrong, or by mv when copy    *)
(* may have taken another file for the source.  In particular, power that  *)
(* fails between two of its system calls costs no file.                    *)
NothingVanishes ==
    [][\A p \in DOMAIN InitialFiles : Present(p) /\ ~Present(p)' =>
          \/ \E n \in Names : Rm(n)
          \/ \E n \in Names : BeginCopy(n) /\ Exists(job.dest, n)
          \/ /\ job.pc = "remove"
             /\ job.said \/ Candidates(job.file) # {<< Top.dir, job.file >>}]_commandVars

(* The folders of the prompt, as printDirPath prints them. *)
LeafFirst(dir) == Append(Reverse(dir), RootName)

(* The prompt shows the path of the directory that the commands work in,   *)
(* also after a cd of which only the first part was found.                 *)
PathNamesCwd == cur_cluster \in Directories => DirPath(cur_cluster) = LeafFirst(cur_dir)

(* At the prompt the cached table, which ls and cat read, is that of the   *)
(* directory, and .. is its parent, whatever the last command changed.     *)
ListingIsCurrent ==
    AtPrompt =>
        /\ Ls = Listing(cur_cluster)
        /\ cwd_table.parent = ParentOf(cur_cluster)
        /\ \A n \in DOMAIN Ls : Ls[n].kind = "file" => Cat(n) = store[<< cur_cluster, n >>].data

(* find names every directory that has the name, and each one once.        *)
FindIsComplete ==
    \A n \in Names :
        /\ IsInjective(Find(n))
        /\ Range(Find(n)) = {c \in Directories : Exists(c, n)}

(* A command comes back to the prompt, or has left what the code defines.  *)
CommandsEnd == job # Idle ~> job \in {Idle, Astray}

(* The messages of mv: the source is removed only after a copy of it was   *)
(* made.                                                                   *)
CopyIsVerified ==
    job.pc = "remove" /\ Exists(Top.dir, job.file) => Exists(job.dest, job.file)
=============================================================================
