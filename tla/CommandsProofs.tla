--------------------------- MODULE CommandsProofs ---------------------------
(***************************************************************************)
(* Proofs about the file commands, for any names, files, folders and disk. *)
(***************************************************************************)
EXTENDS FileCommands, TLAPS, NaturalsInduction, WellFoundedInduction, FiniteSetTheorems,
        FunctionTheorems

(* The data of a file is a sequence, and not empty: a write of no bytes    *)
(* makes a folder.                                                         *)
IsFile(v) ==
    /\ v = [kind |-> "file", data |-> v.data]
    /\ Len(v.data) \in Nat \ {0}
    /\ v.data = [i \in 1 .. Len(v.data) |-> v.data[i]]

StoreInv == \A k \in DOMAIN store : store[k].kind = "folder" \/ IsFile(store[k])

JobShape ==
    /\ "pc" \in DOMAIN job
    /\ job.pc \in {"next", "write", "remove"} =>
          {"move", "dest", "said", "stack"} \subseteq DOMAIN job
    /\ job.pc \in {"write", "remove"} => "file" \in DOMAIN job /\ job.file \in Names

ListingInv == AtPrompt => cwd_table = TableOf(cur_cluster)

(* What mv is about to remove, and why it will not be missed: it is a      *)
(* folder, or what copy has just written there from a buffer that it never *)
(* filled, or the same data is elsewhere.                                  *)
Source == << Top.dir, job.file >>

NotMissed(v) ==
    \/ v.kind = "folder"
    \/ v.data[1].file = Garbage
    \/ \E k \in DOMAIN store : k # Source /\ store[k] = v

MoveInv ==
    job.pc = "remove" /\ ~job.said /\ Candidates(job.file) = {Source} =>
        NotMissed(store[Source])

CommandsInv == StoreInv /\ JobShape /\ ListingInv /\ MoveInv

-----------------------------------------------------------------------------
(* Data that is given cell by cell. *)
LEMMA FileOfCells ==
    ASSUME NEW n \in Nat \ {0}, NEW d, d = [i \in 1 .. n |-> d[i]]
    PROVE  Len(d) = n /\ IsFile([kind |-> "file", data |-> d])
<1>1. Len([i \in 1 .. n |-> d[i]]) = n
  OBVIOUS
<1>2. Len(d) = n
  BY <1>1
<1> HIDE DEF IsFile
<1> DEFINE v == [kind |-> "file", data |-> d]
<1>3. v.data = d
  OBVIOUS
<1>4. v = [kind |-> "file", data |-> v.data]
  OBVIOUS
<1> HIDE DEF v
<1>5. IsFile(v)
  BY <1>2, <1>3, <1>4 DEF IsFile
<1> QED BY <1>2, <1>5 DEF v

LEMMA WithAdds ==
    ASSUME NEW k, NEW v, k \notin DOMAIN store, store' = With(k, v)
    PROVE  /\ DOMAIN store' = DOMAIN store \cup {k}
           /\ store'[k] = v
           /\ \A j \in DOMAIN store : store'[j] = store[j]
BY DEF With

LEMMA AddAdds ==
    ASSUME NEW k, NEW v, k \notin DOMAIN store, Add(k, v)
    PROVE  /\ DOMAIN store' = DOMAIN store \cup {k}
           /\ store'[k] = v
           /\ \A j \in DOMAIN store : store'[j] = store[j]
BY WithAdds DEF Add

LEMMA DeleteDeletes ==
    ASSUME NEW k, Delete(k)
    PROVE  /\ DOMAIN store' = DOMAIN store \ {k}
           /\ \A j \in DOMAIN store \ {k} : store'[j] = store[j]
<1>1. store' = [j \in DOMAIN store \ {k} |-> store[j]]
  BY Zenon DEF Delete, Restrict
<1> QED
  BY <1>1

(* A write of a command: a new name for a folder or for a file. *)
LEMMA AddKeepsStore ==
    ASSUME StoreInv, NEW k, NEW v, k \notin DOMAIN store, store' = With(k, v),
           v.kind = "folder" \/ IsFile(v)
    PROVE  StoreInv'
<1>0. /\ DOMAIN store' = DOMAIN store \cup {k} /\ store'[k] = v
      /\ \A j \in DOMAIN store : store'[j] = store[j]
  BY WithAdds
<1>1. SUFFICES ASSUME NEW j \in DOMAIN store'
               PROVE  store'[j].kind = "folder" \/ IsFile(store'[j])
  BY DEF StoreInv, IsFile
<1>2. CASE j = k
  BY <1>0, <1>2
<1>3. CASE j # k
  <2>1. j \in DOMAIN store /\ store'[j] = store[j]
    BY <1>0, <1>3, Zenon
  <2> QED
    BY <2>1 DEF StoreInv
<1> QED
  BY <1>2, <1>3

LEMMA RemoveKeepsStore ==
    ASSUME StoreInv, NEW c, NEW n, RemoveTwice(c, n)
    PROVE  StoreInv'
<1>1. CASE Delete(<< c, n >>)
  <2>1. \A k \in DOMAIN store' : k \in DOMAIN store /\ store'[k] = store[k]
    BY <1>1, DeleteDeletes
  <2> QED
    BY <2>1 DEF StoreInv
<1>2. CASE store' = store
  BY <1>2 DEF StoreInv
<1> QED
  BY <1>1, <1>2 DEF RemoveTwice, storeVars

(* The copy, whatever was read into the buffer. *)
LEMMA BufferIsFile ==
    ASSUME StoreInv, SourceIsFile, NEW size \in CandidateSizes(job.file), size # 0
    PROVE  size \in Nat \ {0} /\ IsFile(BufferAfterRead(job.file, size))
<1>1. size \in Nat \ {0}
  <2>1. CASE Candidates(job.file) = {}
    BY <2>1, FileCommandsAssumption DEF CandidateSizes
  <2>2. CASE Candidates(job.file) # {}
    <3>1. PICK k \in Candidates(job.file) : size = Len(store[k].data)
      BY <2>2 DEF CandidateSizes
    <3>2. k \in DOMAIN store /\ store[k].kind = "file"
      BY <3>1 DEF Candidates, SourceIsFile
    <3>3. IsFile(store[k])
      BY <3>2 DEF StoreInv
    <3> QED BY <3>1, <3>3 DEF IsFile
  <2> QED BY <2>1, <2>2
<1> DEFINE b == BufferAfterRead(job.file, size)
<1>2. b = [kind |-> "file", data |-> b.data]
  BY DEF BufferAfterRead
<1>3. DOMAIN b.data = 1 .. size /\ b.data = [i \in DOMAIN b.data |-> b.data[i]]
  BY DEF BufferAfterRead
<1> HIDE DEF b
<1>4. b.data = [i \in 1 .. size |-> b.data[i]]
  BY <1>3
<1>5. IsFile([kind |-> "file", data |-> b.data])
  BY <1>1, <1>4, FileOfCells
<1>6. IsFile(b)
  BY <1>2, <1>5
<1> QED BY <1>1, <1>6 DEF b

LEMMA CopiedIsNew ==
    ASSUME StoreInv, SourceIsFile, WriteSucceeds(job.dest, job.file), Copied(job.file)
    PROVE  LET k == << job.dest, job.file >>
           IN  /\ k \notin DOMAIN store
               /\ \/ \E v : v.kind = "folder" /\ Add(k, v)
                  \/ \E size \in CandidateSizes(job.file) :
                        size # 0 /\ Add(k, BufferAfterRead(job.file, size))
<1>1. << job.dest, job.file >> \notin DOMAIN store
  BY DEF WriteSucceeds, Exists
<1>2. ASSUME NEW id, Add(<< job.dest, job.file >>, FolderOf(id))
      PROVE  \E v : v.kind = "folder" /\ Add(<< job.dest, job.file >>, v)
  <2>1. FolderOf(id).kind = "folder"
    BY DEF FolderOf
  <2> QED BY <1>2, <2>1
<1> QED BY <1>1, <1>2 DEF Copied, NewFolder, MakeFolder

(* The part of the copy that a full disk had room for. *)
LEMMA CutShortAddsFile ==
    ASSUME StoreInv, WriteIsCutShort
    PROVE  /\ << job.dest, job.file >> \notin DOMAIN store /\ job.dest \in Directories
           /\ \E v : /\ store' = With(<< job.dest, job.file >>, v)
                    /\ v.kind = "file" /\ IsFile(v)
                    /\ \E size \in CandidateSizes(job.file) : size # 0 /\ Len(v.data) \in 1 .. size
<1> DEFINE key == << job.dest, job.file >>
<1>1. key \notin DOMAIN store /\ job.dest \in Directories /\ SourceIsFile
  BY DEF WriteIsCutShort, WriteSucceeds, Exists
<1>2. PICK size \in CandidateSizes(job.file) : \E k \in 1 .. size - 1 :
         store' = With(key, [BufferAfterRead(job.file, size) EXCEPT !.data = SubSeq(@, 1, k)])
  BY DEF WriteIsCutShort
<1> DEFINE b == BufferAfterRead(job.file, size)
<1>3. PICK k \in 1 .. size - 1 : store' = With(key, [b EXCEPT !.data = SubSeq(@, 1, k)])
  BY <1>2
<1> DEFINE d == SubSeq(b.data, 1, k)
<1>4. size # 0
  BY <1>3
<1>5. size \in Nat \ {0} /\ IsFile(b)
  BY <1>1, <1>4, BufferIsFile
<1>6. k \in Nat \ {0} /\ k \in 1 .. size
  BY <1>5
<1>7. b = [kind |-> "file", data |-> b.data]
  BY <1>5 DEF IsFile
<1> HIDE DEF b
<1>8. [b EXCEPT !.data = SubSeq(@, 1, k)] = [kind |-> "file", data |-> d]
  <2>1. \A e, x : [[kind |-> "file", data |-> e] EXCEPT !.data = x]
                     = [kind |-> "file", data |-> x]
    OBVIOUS
  <2> QED BY <1>7, <2>1, Zenon
<1>9. d = [i \in 1 .. k |-> d[i]]
  BY <1>6
<1> HIDE DEF d
<1>10. Len(d) = k /\ IsFile([kind |-> "file", data |-> d])
  BY <1>6, <1>9, FileOfCells
<1> DEFINE v == [kind |-> "file", data |-> d]
<1>11. v.kind = "file" /\ v.data = d /\ store' = With(key, v)
  BY <1>3, <1>8
<1> HIDE DEF v
<1>12. IsFile(v) /\ Len(v.data) \in 1 .. size
  BY <1>6, <1>10, <1>11 DEF v
<1> QED BY <1>1, <1>4, <1>11, <1>12

-----------------------------------------------------------------------------
LEMMA StoreStep == StoreInv /\ [CommandsNext]_commandVars => StoreInv'
<1> SUFFICES ASSUME StoreInv, [CommandsNext]_commandVars PROVE StoreInv'
  OBVIOUS
<1>1. ASSUME UNCHANGED storeVars PROVE StoreInv'
  BY <1>1 DEF StoreInv, storeVars
<1>2. ASSUME NEW n \in Names, Mkdir(n) PROVE StoreInv'
  <2>1. << cur_cluster, n >> \notin DOMAIN store
    BY <1>2 DEF Mkdir, WriteSucceeds, Exists
  <2>2. PICK id : store' = With(<< cur_cluster, n >>, FolderOf(id))
    BY <1>2 DEF Mkdir, NewFolder, MakeFolder, Add
  <2>3. FolderOf(id).kind = "folder"
    BY DEF FolderOf
  <2> QED BY <2>1, <2>2, <2>3, AddKeepsStore
<1>3. ASSUME NEW n \in Names, Rm(n) PROVE StoreInv'
  BY <1>3, RemoveKeepsStore DEF Rm
<1>4. ASSUME NEW n \in Names, BeginCopy(n) PROVE StoreInv'
  BY <1>4, RemoveKeepsStore DEF BeginCopy
<1>5. CASE WriteCopy
  <2>1. SourceIsFile /\ WriteSucceeds(job.dest, job.file) /\ Copied(job.file)
    BY <1>5 DEF WriteCopy
  <2> QED BY <2>1, CopiedIsNew, BufferIsFile, AddKeepsStore DEF Add
<1>6. CASE RemoveSource
  BY <1>6, RemoveKeepsStore DEF RemoveSource
<1>7. CASE CdUp \/ CdStep \/ EndCommand \/ LeaveFolder \/ WriteFails \/ GoesAstray \/ Report
           \/ Reboot \/ UNCHANGED commandVars
  BY <1>1, <1>7 DEF CdUp, CdStep, EndCommand, LeaveFolder, WriteFails, GoesAstray, Report,
                    Reboot, commandVars
<1>8. ASSUME NEW path \in Paths, Cd(path) PROVE StoreInv'
  BY <1>1, <1>8 DEF Cd
<1>9. ASSUME NEW n \in Names, NEW path \in Paths, Cp(n, path) \/ Mv(n, path) PROVE StoreInv'
  BY <1>1, <1>9 DEF Cp, Mv, Transfer
<1>10. ASSUME NEW n \in Names, EnterFolder(n) PROVE StoreInv'
  BY <1>1, <1>10 DEF EnterFolder
<1>11. ASSUME NEW n \in Names, TransferGoesAstray(n) PROVE StoreInv'
  BY <1>1, <1>11 DEF TransferGoesAstray
<1>12. CASE WriteIsCutShort
  BY <1>12, CutShortAddsFile, AddKeepsStore
<1> QED BY <1>2, <1>3, <1>4, <1>5, <1>6, <1>7, <1>8, <1>9, <1>10, <1>11, <1>12
        DEF CommandsNext, CommandStep

LEMMA ShapeStep == JobShape /\ [CommandsNext]_commandVars => JobShape'
<1> SUFFICES ASSUME JobShape, [CommandsNext]_commandVars PROVE JobShape'
  OBVIOUS
<1>1. ASSUME NEW n \in Names, Mkdir(n) \/ Rm(n) PROVE JobShape'
  BY <1>1 DEF Mkdir, Rm, JobShape, Refresh
<1>2. CASE CdUp \/ EndCommand \/ GoesAstray \/ Report
  BY <1>2 DEF CdUp, EndCommand, GoesAstray, Report, JobShape, Refresh, Idle, Astray
<1>3. CASE CdStep
  <2>1. "pc" \in DOMAIN job'
    BY <1>3 DEF CdStep, JobShape, Refresh
  <2>2. job'.pc \in {"cd", "refresh"}
    BY <1>3 DEF CdStep, JobShape, Refresh
  <2> QED BY <2>1, <2>2 DEF JobShape
<1>4. CASE LeaveFolder \/ RemoveSource
  BY <1>4 DEF LeaveFolder, RemoveSource, JobShape
<1>5. CASE WriteCopy \/ WriteFails
  BY <1>5 DEF WriteCopy, WriteFails, AfterWrite, JobShape
<1>6. CASE Reboot
  BY <1>6 DEF Reboot, Boot, JobShape, Idle
<1>7. ASSUME NEW path \in Paths, Cd(path) PROVE JobShape'
  BY <1>7 DEF Cd, JobShape
<1>8. ASSUME NEW n \in Names, NEW path \in Paths, Cp(n, path) \/ Mv(n, path) PROVE JobShape'
  <2>1. PICK move, said, stack :
           job' = [pc |-> "next", move |-> move, dest |-> LastCluster(path), said |-> said,
                   stack |-> stack]
    BY <1>8 DEF Cp, Mv, Transfer
  <2> QED BY <2>1 DEF JobShape
<1>9. ASSUME NEW n \in Names, EnterFolder(n) PROVE JobShape'
  BY <1>9 DEF EnterFolder, JobShape
<1>10. ASSUME NEW n \in Names, BeginCopy(n) PROVE JobShape'
  BY <1>10 DEF BeginCopy, JobShape
<1>11. CASE UNCHANGED commandVars
  BY <1>11 DEF commandVars, JobShape
<1>12. CASE WriteIsCutShort \/ \E n \in Names : TransferGoesAstray(n)
  BY <1>12 DEF WriteIsCutShort, TransferGoesAstray, JobShape, Astray
<1> QED BY <1>1, <1>2, <1>3, <1>4, <1>5, <1>6, <1>7, <1>8, <1>9, <1>10, <1>11, <1>12
        DEF CommandsNext, CommandStep

(* Only the end of a command and a boot come back to the prompt. *)
LEMMA ListingStep == JobShape /\ ListingInv /\ [CommandsNext]_commandVars => ListingInv'
<1> SUFFICES ASSUME JobShape, ListingInv, [CommandsNext]_commandVars, (job = Idle)',
                    cur_cluster' \in Directories', ~damaged'
             PROVE  cwd_table' = TableOf(cur_cluster)'
  BY DEF ListingInv, AtPrompt
<1>0. job'.pc = "idle" /\ "pc" \in DOMAIN job
  BY DEF Idle, JobShape
<1>1. CASE EndCommand
  <2>1. cwd_table' = TableOf(cur_cluster) /\ cur_cluster' = cur_cluster /\ store' = store
    BY <1>1 DEF EndCommand, UpdateShellDir, storeVars
  <2> QED BY <2>1 DEF TableOf, Listing, ParentOf, Exists, FolderIds, ClusterOf
<1>2. CASE Reboot
  <2>1. cwd_table' = TableOf(Root) /\ cur_cluster' = Root /\ store' = store
    BY <1>2 DEF Reboot, Boot, storeVars
  <2> QED BY <2>1 DEF TableOf, Listing, ParentOf, Exists, FolderIds, ClusterOf
<1>3. CASE UNCHANGED commandVars
  <2>1. /\ cwd_table' = cwd_table /\ cur_cluster' = cur_cluster /\ store' = store /\ job' = job
        /\ damaged' = damaged
    BY <1>3 DEF commandVars, storeVars, shellState
  <2>2. AtPrompt
    BY <2>1 DEF AtPrompt, Directories, FolderIds
  <2> QED BY <2>1, <2>2 DEF ListingInv, TableOf, Listing, ParentOf, Exists, FolderIds, ClusterOf
<1>4. ASSUME NEW n \in Names, Mkdir(n) \/ Rm(n) PROVE FALSE
  BY <1>0, <1>4 DEF Mkdir, Rm, Refresh
<1>5. CASE CdUp \/ GoesAstray \/ Report
  BY <1>0, <1>5 DEF CdUp, GoesAstray, Report, Refresh, Astray
<1>6. CASE CdStep
  BY <1>0, <1>6 DEF CdStep, Refresh
<1>7. CASE LeaveFolder \/ RemoveSource
  BY <1>0, <1>7 DEF LeaveFolder, RemoveSource
<1>8. CASE WriteCopy \/ WriteFails
  BY <1>0, <1>8 DEF WriteCopy, WriteFails, AfterWrite, JobShape
<1>9. ASSUME NEW path \in Paths, Cd(path) PROVE FALSE
  BY <1>0, <1>9 DEF Cd
<1>10. ASSUME NEW n \in Names, NEW path \in Paths, Cp(n, path) \/ Mv(n, path) PROVE FALSE
  <2>1. job'.pc = "next"
    BY <1>10 DEF Cp, Mv, Transfer
  <2> QED BY <1>0, <2>1
<1>11. ASSUME NEW n \in Names, EnterFolder(n) PROVE FALSE
  BY <1>0, <1>11 DEF EnterFolder
<1>12. ASSUME NEW n \in Names, BeginCopy(n) PROVE FALSE
  BY <1>0, <1>12 DEF BeginCopy
<1>13. ASSUME WriteIsCutShort \/ \E n \in Names : TransferGoesAstray(n) PROVE FALSE
  BY <1>0, <1>13 DEF WriteIsCutShort, TransferGoesAstray, Astray
<1> QED BY <1>1, <1>2, <1>3, <1>4, <1>5, <1>6, <1>7, <1>8, <1>9, <1>10, <1>11, <1>12, <1>13
        DEF CommandsNext, CommandStep

-----------------------------------------------------------------------------
(* The copy of the one file that copy can have taken for the source: it is *)
(* the same data under another key, or the source was gone already and     *)
(* only what copy has written is under its name.                           *)
LEMMA CopyIsNotMissed ==
    ASSUME CommandsInv, WriteCopy, (job.pc = "remove")', ~job'.said,
           Candidates(job.file)' = {Source'}
    PROVE  NotMissed(store[Source])'
<1> DEFINE key == << job.dest, job.file >>
<1>1. /\ job.pc = "write" /\ SourceIsFile /\ WriteSucceeds(job.dest, job.file)
      /\ Copied(job.file) /\ job' = [job EXCEPT !.pc = AfterWrite]
  BY DEF WriteCopy
<1>2. job'.stack = job.stack /\ job'.file = job.file
  BY <1>1 DEF CommandsInv, JobShape
<1>3. Source' = Source /\ Top' = Top
  BY <1>2 DEF Source, Top
<1>4. key \notin DOMAIN store
  BY <1>1, CopiedIsNew DEF CommandsInv
<1>5. PICK v : Add(key, v)
  BY <1>1, CopiedIsNew DEF CommandsInv
<1>6. /\ DOMAIN store' = DOMAIN store \cup {key} /\ store'[key] = v
      /\ \A j \in DOMAIN store : store'[j] = store[j]
  BY <1>4, <1>5, AddAdds
<1>7. Candidates(job.file) \subseteq {Source}
  BY <1>2, <1>3, <1>6 DEF Candidates, ClusterOf
<1>8. Source \in DOMAIN store'
  BY <1>2, <1>3 DEF Candidates
<1>9. \/ v.kind = "folder"
      \/ \E size \in CandidateSizes(job.file) :
            size # 0 /\ v = BufferAfterRead(job.file, size)
  BY <1>1, <1>4, <1>6, CopiedIsNew, AddAdds DEF CommandsInv
<1>10. CASE Source \in DOMAIN store
  <2>1. Source \in Candidates(job.file)
    BY <1>10 DEF Candidates, Source
  <2>2. Candidates(job.file) = {Source}
    BY <1>7, <2>1
  <2>3. store[Source].kind = "file"
    BY <1>1, <2>2 DEF SourceIsFile
  <2>4. IsFile(store[Source])
    BY <1>10, <2>3 DEF CommandsInv, StoreInv
  <2>5. CandidateSizes(job.file) = {Len(store[Source].data)}
    BY <2>2 DEF CandidateSizes
  <2>6. Len(store[Source].data) # 0
    BY <2>4 DEF IsFile
  <2>7. Add(key, BufferAfterRead(job.file, Len(store[Source].data)))
    <3>1. \A size : size \in CandidateSizes(job.file) => size = Len(store[Source].data)
      BY <2>5
    <3> QED BY <1>1, <2>6, <3>1 DEF Copied
  <2>8. v = BufferAfterRead(job.file, Len(store[Source].data))
    BY <1>4, <1>6, <2>7, AddAdds
  <2>9. v = store[Source]
    <3> DEFINE d == store[Source].data
               w == BufferAfterRead(job.file, Len(d))
    <3>1. /\ Exists(Top.dir, job.file) /\ Len(d) \in Nat
          /\ d = [i \in 1 .. Len(d) |-> d[i]]
          /\ store[<< Top.dir, job.file >>].data = d
      BY <1>10, <2>4 DEF Exists, Source, IsFile
    <3>2. w.kind = "file" /\ w = [kind |-> "file", data |-> w.data]
      BY DEF BufferAfterRead
    <3>3. w.data = [i \in 1 .. Len(d) |-> d[i]]
      <4> HIDE DEF d
      <4>1. Len(d) =< Len(d) /\ \A i \in 1 .. Len(d) : i =< Len(d)
        BY <3>1
      <4> QED BY <3>1, <4>1 DEF BufferAfterRead
    <3>4. w.data = d
      BY <3>1, <3>3
    <3>5. store[Source] = [kind |-> "file", data |-> d]
      BY <2>4 DEF IsFile
    <3> HIDE DEF w
    <3>6. v = w
      BY <2>8 DEF w
    <3> QED BY <3>2, <3>4, <3>5, <3>6
  <2>10. key # Source /\ key \in DOMAIN store'
    BY <1>4, <1>6, <1>10
  <2>11. store'[key] = store'[Source]
    BY <1>6, <1>10, <2>9
  <2> QED BY <1>3, <2>10, <2>11 DEF NotMissed
<1>11. CASE Source \notin DOMAIN store
  <2>1. Source = key /\ store'[Source] = v
    BY <1>6, <1>8, <1>11
  <2>2. CASE v.kind = "folder"
    BY <1>3, <2>1, <2>2 DEF NotMissed
  <2>3. ASSUME NEW size \in CandidateSizes(job.file), size # 0,
               v = BufferAfterRead(job.file, size)
        PROVE  NotMissed(store[Source])'
    <3>1. size \in Nat \ {0}
      BY <1>1, <2>3, BufferIsFile DEF CommandsInv
    <3>2. ~Exists(Top.dir, job.file)
      BY <1>11 DEF Exists, Source
    <3>3. v.data[1] = Block(Garbage, 1)
      BY <2>3, <3>1, <3>2 DEF BufferAfterRead
    <3>4. store'[Source].data[1].file = Garbage
      BY <2>1, <3>3 DEF Block
    <3> QED BY <1>3, <3>4 DEF NotMissed
  <2> QED BY <1>9, <2>2, <2>3
<1> QED BY <1>10, <1>11

LEMMA MoveStep == CommandsInv /\ [CommandsNext]_commandVars => MoveInv'
<1> SUFFICES ASSUME CommandsInv, [CommandsNext]_commandVars, (job.pc = "remove")',
                    ~job'.said, Candidates(job.file)' = {Source'}
             PROVE  NotMissed(store[Source])'
  BY DEF MoveInv
<1>0. job'.pc = "remove" /\ JobShape
  BY DEF CommandsInv
<1>1. CASE WriteCopy
  BY <1>1, CopyIsNotMissed
<1>2. CASE WriteFails
  BY <1>0, <1>2 DEF WriteFails, JobShape
<1>3. CASE UNCHANGED commandVars
  <2>1. store' = store /\ job' = job
    BY <1>3 DEF commandVars, storeVars
  <2>2. Source' = Source /\ Candidates(job.file)' = Candidates(job.file)
    BY <2>1 DEF Source, Top, Candidates, ClusterOf
  <2>3. NotMissed(store[Source])
    BY <2>1, <2>2 DEF CommandsInv, MoveInv
  <2> QED BY <2>1, <2>2, <2>3 DEF NotMissed
<1>4. ASSUME NEW n \in Names, Mkdir(n) \/ Rm(n) PROVE FALSE
  BY <1>0, <1>4 DEF Mkdir, Rm, Refresh
<1>5. CASE CdUp \/ EndCommand \/ GoesAstray \/ Report \/ Reboot
  BY <1>0, <1>5 DEF CdUp, EndCommand, GoesAstray, Report, Reboot, Boot, Refresh, Idle, Astray
<1>6. CASE CdStep
  BY <1>0, <1>6 DEF CdStep, JobShape, Refresh
<1>7. CASE LeaveFolder \/ RemoveSource
  BY <1>0, <1>7 DEF LeaveFolder, RemoveSource, JobShape
<1>8. ASSUME NEW path \in Paths, Cd(path) PROVE FALSE
  BY <1>0, <1>8 DEF Cd
<1>9. ASSUME NEW n \in Names, NEW path \in Paths, Cp(n, path) \/ Mv(n, path) PROVE FALSE
  <2>1. job'.pc = "next"
    BY <1>9 DEF Cp, Mv, Transfer
  <2> QED BY <1>0, <2>1
<1>10. ASSUME NEW n \in Names, EnterFolder(n) PROVE FALSE
  BY <1>0, <1>10 DEF EnterFolder, JobShape
<1>11. ASSUME NEW n \in Names, BeginCopy(n) PROVE FALSE
  BY <1>0, <1>11 DEF BeginCopy
<1>12. ASSUME WriteIsCutShort \/ \E n \in Names : TransferGoesAstray(n) PROVE FALSE
  BY <1>0, <1>12 DEF WriteIsCutShort, TransferGoesAstray, Astray
<1> QED BY <1>1, <1>2, <1>3, <1>4, <1>5, <1>6, <1>7, <1>8, <1>9, <1>10, <1>11, <1>12
        DEF CommandsNext, CommandStep

LEMMA InitialFileIsFile ==
    ASSUME NEW p \in DOMAIN InitialFiles
    PROVE  LET v == FileOf(p, InitialFiles[p])
           IN  IsFile(v) /\ v.kind = "file" /\ v.data[1].file = p
<1> DEFINE d == [k \in 1 .. InitialFiles[p] |-> Block(p, k)]
<1>1. InitialFiles[p] \in Nat \ {0}
  BY FileCommandsAssumption
<1>2. d = [i \in 1 .. InitialFiles[p] |-> d[i]] /\ d[1] = Block(p, 1)
  BY <1>1
<1>3. FileOf(p, InitialFiles[p]) = [kind |-> "file", data |-> d]
  BY DEF FileOf
<1> HIDE DEF d
<1>4. IsFile([kind |-> "file", data |-> d])
  BY <1>1, <1>2, FileOfCells
<1>5. d[1].file = p
  BY <1>2 DEF Block
<1> QED BY <1>3, <1>4, <1>5

LEMMA CommandsInvInit == CommandsInit => CommandsInv
<1> SUFFICES ASSUME CommandsInit PROVE CommandsInv
  OBVIOUS
<1>1. StoreInv
  <2>1. ASSUME NEW k \in DOMAIN store PROVE IsFile(store[k])
    <3>1. k[2] \in DOMAIN InitialFiles /\ store[k] = FileOf(k[2], InitialFiles[k[2]])
      BY <2>1 DEF CommandsInit
    <3> QED BY <3>1, InitialFileIsFile
  <2> QED BY <2>1 DEF StoreInv
<1>2. JobShape /\ MoveInv
  BY DEF CommandsInit, Idle, JobShape, MoveInv
<1>3. ListingInv
  BY DEF CommandsInit, ListingInv
<1> QED BY <1>1, <1>2, <1>3 DEF CommandsInv

LEMMA CommandsInvStep == CommandsInv /\ [CommandsNext]_commandVars => CommandsInv'
BY StoreStep, ShapeStep, ListingStep, MoveStep DEF CommandsInv

-----------------------------------------------------------------------------
(* Whatever the commands before it did, at the prompt the table that ls    *)
(* and cat use is the one on the disk, and .. leads to the parent.         *)
THEOREM CachedListingIsCurrent == CommandsSpec => []ListingIsCurrent
<1>1. CommandsInv => ListingIsCurrent
  <2> SUFFICES ASSUME CommandsInv, AtPrompt PROVE ListingIsCurrent
    BY DEF ListingIsCurrent
  <2>1. Ls = Listing(cur_cluster) /\ cwd_table.parent = ParentOf(cur_cluster)
    BY DEF CommandsInv, ListingInv, TableOf, Ls
  <2>2. ASSUME NEW n \in DOMAIN Ls, Ls[n].kind = "file"
        PROVE  Cat(n) = store[<< cur_cluster, n >>].data
    <3>1. Exists(cur_cluster, n) /\ Ls[n] = store[<< cur_cluster, n >>]
      BY <2>1 DEF Listing
    <3>2. IsFile(Ls[n])
      BY <2>2, <3>1 DEF CommandsInv, StoreInv, Exists
    <3>3. Len(Ls[n].data) \in Nat
      BY <3>2 DEF IsFile
    <3> QED BY <3>1, <3>3 DEF Cat, Ls
  <2> QED BY <2>1, <2>2 DEF ListingIsCurrent
<1> QED BY <1>1, CommandsInvInit, CommandsInvStep, PTL DEF CommandsSpec

(* A file of any size survives any sequence of commands and reboots unless *)
(* the user removes it, copies something to its name, or moves it when     *)
(* something was wrong already or another name may have been taken for it. *)
THEOREM FilesDoNotVanish == CommandsSpec => NothingVanishes
<1>1. ASSUME CommandsInv, CommandsNext, NEW p \in DOMAIN InitialFiles, Present(p), ~Present(p)'
      PROVE  \/ \E n \in Names : Rm(n)
             \/ \E n \in Names : BeginCopy(n) /\ Exists(job.dest, n)
             \/ /\ job.pc = "remove"
                /\ job.said \/ Candidates(job.file) # {<< Top.dir, job.file >>}
  <2> DEFINE f == FileOf(p, InitialFiles[p])
  <2>1. PICK k \in DOMAIN store : store[k] = f
    BY <1>1 DEF Present, Range
  <2>2. ~(k \in DOMAIN store' /\ store'[k] = f)
    BY <1>1 DEF Present, Range
  <2>3. ~UNCHANGED storeVars
    BY <2>1, <2>2 DEF storeVars
  <2>4. ASSUME NEW j, NEW v, j \notin DOMAIN store, store' = With(j, v) PROVE FALSE
    BY <2>1, <2>2, <2>4, WithAdds
  <2>5. ASSUME NEW n \in Names, Mkdir(n) PROVE FALSE
    <3>1. << cur_cluster, n >> \notin DOMAIN store
      BY <2>5 DEF Mkdir, WriteSucceeds, Exists
    <3> QED BY <2>4, <2>5, <3>1 DEF Mkdir, NewFolder, MakeFolder, Add
  <2>6. CASE WriteCopy
    <3>1. SourceIsFile /\ WriteSucceeds(job.dest, job.file) /\ Copied(job.file)
      BY <2>6 DEF WriteCopy
    <3> QED BY <1>1, <2>4, <3>1, CopiedIsNew DEF CommandsInv, Add
  <2>7. ASSUME NEW n \in Names, BeginCopy(n), ~Exists(job.dest, n) PROVE FALSE
    BY <2>3, <2>7 DEF BeginCopy, RemoveTwice, DeleteSucceeds
  <2>8. ASSUME RemoveSource, ~job.said, Candidates(job.file) = {Source} PROVE FALSE
    <3>1. job.pc = "remove" /\ Delete(Source)
      BY <2>3, <2>8 DEF RemoveSource, RemoveTwice, Source
    <3>2. NotMissed(store[Source])
      BY <1>1, <2>8, <3>1 DEF CommandsInv, MoveInv
    <3>3. DOMAIN store' = DOMAIN store \ {Source}
          /\ \A j \in DOMAIN store \ {Source} : store'[j] = store[j]
      BY <3>1, DeleteDeletes
    <3>4. k = Source
      BY <2>1, <2>2, <3>3
    <3>5. f.kind = "file" /\ f.data[1].file # Garbage
      BY InitialFileIsFile, FileCommandsAssumption
    <3> HIDE DEF f
    <3>6. PICK j \in DOMAIN store : j # Source /\ store[j] = f
      BY <2>1, <3>2, <3>4, <3>5 DEF NotMissed
    <3>7. j \in DOMAIN store' /\ store'[j] = f
      BY <3>3, <3>6
    <3> QED BY <1>1, <3>7 DEF Present, Range, f
  <2>9. CASE CdUp \/ CdStep \/ EndCommand \/ LeaveFolder \/ WriteFails \/ GoesAstray \/ Report
             \/ Reboot
    BY <2>3, <2>9 DEF CdUp, CdStep, EndCommand, LeaveFolder, WriteFails, GoesAstray, Report,
                      Reboot
  <2>10. ASSUME NEW path \in Paths, Cd(path) PROVE FALSE
    BY <2>3, <2>10 DEF Cd
  <2>11. ASSUME NEW n \in Names, NEW path \in Paths, Cp(n, path) \/ Mv(n, path) PROVE FALSE
    BY <2>3, <2>11 DEF Cp, Mv, Transfer
  <2>12. ASSUME NEW n \in Names, EnterFolder(n) PROVE FALSE
    BY <2>3, <2>12 DEF EnterFolder
  <2>13. RemoveSource => job.pc = "remove"
    BY DEF RemoveSource
  <2>14. ASSUME NEW n \in Names, TransferGoesAstray(n) PROVE FALSE
    BY <2>3, <2>14 DEF TransferGoesAstray
  <2>15. CASE WriteIsCutShort
    BY <1>1, <2>4, <2>15, CutShortAddsFile DEF CommandsInv
  <2> HIDE DEF f
  <2> QED BY <1>1, <2>5, <2>6, <2>7, <2>8, <2>9, <2>10, <2>11, <2>12, <2>13, <2>14, <2>15
          DEF CommandsNext, CommandStep, Source
<1>2. CommandsInv /\ [CommandsNext]_commandVars =>
         [\A p \in DOMAIN InitialFiles : Present(p) /\ ~Present(p)' =>
            \/ \E n \in Names : Rm(n)
            \/ \E n \in Names : BeginCopy(n) /\ Exists(job.dest, n)
            \/ /\ job.pc = "remove"
               /\ job.said \/ Candidates(job.file) # {<< Top.dir, job.file >>}]_commandVars
  BY <1>1
<1> QED BY <1>2, CommandsInvInit, CommandsInvStep, PTL DEF CommandsSpec, NothingVanishes

-----------------------------------------------------------------------------
(* The directories are a tree, and the commands keep it so.                *)
(*                                                                         *)
(* A set of natural numbers that is not empty has a least element; this    *)
(* stands for induction.                                                   *)
LEMMA LeastNat ==
    ASSUME NEW T, T \subseteq Nat, T # {}
    PROVE  \E m \in T : \A n \in T : m <= n
<1> DEFINE R == {ss \in Nat \X Nat : ss[1] < ss[2]}
<1>1. IsWellFoundedOn(R, Nat)
  BY NatLessThanWellFounded, Zenon DEF OpToRel
<1>2. PICK x \in T : \A y \in T : ~(<< y, x >> \in R)
  <2> HIDE DEF R
  <2> QED BY <1>1, WFMin
<1>3. ASSUME NEW y \in T PROVE x <= y
  <2>1. << y, x >> \in Nat \X Nat /\ ~(<< y, x >> \in R)
    BY <1>2
  <2>2. ~(y < x)
    BY <2>1
  <2> QED BY <2>2
<1> QED BY <1>3

(* The names that stand for folders; and a rank that grows downwards: the  *)
(* folders of the store are a tree.                                        *)
FolderKeys == {k \in DOMAIN store : store[k].kind = "folder"}

IsRank(rank) ==
    /\ rank \in [Directories -> Nat]
    /\ \A k \in FolderKeys : rank[k[1]] < rank[store[k].id]

KeysAreSound ==
    /\ \A k \in DOMAIN store :
          /\ k \in Keys /\ k[1] \in Directories
          /\ store[k].kind = "folder" =>
                store[k] = FolderOf(store[k].id) /\ store[k].id \in Folders
          /\ store[k].kind = "file" => Len(store[k].data) \in 1 .. MaxSize
    /\ \A j, k \in FolderKeys : store[j].id = store[k].id => j = k

LEMMA DirectoriesAre ==
    /\ FolderIds = {store[k].id : k \in FolderKeys}
    /\ Directories = {Root} \cup {store[k].id : k \in FolderKeys}
<1>1. FolderIds = {store[k].id : k \in FolderKeys}
  <2> DEFINE V == {w \in Range(store) : w.kind = "folder"}
  <2>1. V = {store[k] : k \in FolderKeys}
    BY DEF Range, FolderKeys
  <2>2. FolderIds = {v.id : v \in V}
    BY DEF FolderIds
  <2> HIDE DEF V
  <2> QED
    BY <2>1, <2>2
<1> QED
  BY <1>1 DEF Directories

LEMMA DirectoriesAreNext ==
    /\ FolderIds' = {store'[k].id : k \in FolderKeys'}
    /\ Directories' = {Root} \cup {store'[k].id : k \in FolderKeys'}
<1>1. (/\ FolderIds = {store[k].id : k \in FolderKeys}
       /\ Directories = {Root} \cup {store[k].id : k \in FolderKeys})'
  BY DirectoriesAre, PTL
<1> QED
  BY <1>1

(* The parent and the name of a folder are those of its one key. *)
LEMMA ParentIs ==
    ASSUME KeysAreSound
    PROVE  /\ ParentOf(Root) = Root
           /\ \A k \in FolderKeys : ParentOf(store[k].id) = k[1] /\ NameOf(store[k].id) = k[2]
<1>1. ParentOf(Root) = Root
  BY DirectoriesAre, FileCommandsAssumption DEF KeysAreSound, FolderKeys, ParentOf
<1>2. ASSUME NEW k \in FolderKeys
      PROVE  ParentOf(store[k].id) = k[1] /\ NameOf(store[k].id) = k[2]
  <2> DEFINE c == store[k].id
             j == CHOOSE x \in DOMAIN store : ClusterOf(store[x]) = c
  <2>1. k \in DOMAIN store /\ ClusterOf(store[k]) = c /\ c \in Folders
    BY DEF FolderKeys, ClusterOf, KeysAreSound
  <2>2. j \in DOMAIN store /\ ClusterOf(store[j]) = c
    BY <2>1
  <2> HIDE DEF j
  <2>3. c # FileData
    BY <2>1, FileCommandsAssumption
  <2>4. j \in FolderKeys /\ store[j].id = c
    BY <2>2, <2>3 DEF ClusterOf, FolderKeys
  <2>5. j = k
    BY <2>4 DEF KeysAreSound
  <2>6. c \in FolderIds
    BY DirectoriesAre
  <2> QED
    BY <2>5, <2>6 DEF ParentOf, NameOf, j
<1> QED
  BY <1>1, <1>2

-----------------------------------------------------------------------------
(* The recursive function in DirPath and its equation, on the directories  *)
(* of at most some rank and then on all.                                   *)
IsClimb(g, S) ==
    g = [d \in S |->
            IF ParentOf(d) = d THEN << RootName >> ELSE << NameOf(d) >> \o g[ParentOf(d)]]

UpTo(rank, m) == {d \in Directories : rank[d] < m}

LEMMA ParentRank ==
    ASSUME KeysAreSound, NEW rank, IsRank(rank), NEW d \in Directories, ParentOf(d) # d
    PROVE  ParentOf(d) \in Directories /\ rank[ParentOf(d)] < rank[d]
<1>1. PICK k \in FolderKeys : d = store[k].id
  BY DirectoriesAre, ParentIs
<1> QED
  BY <1>1, ParentIs DEF IsRank, KeysAreSound, FolderKeys

LEMMA ClimbGrows ==
    ASSUME KeysAreSound, NEW rank, IsRank(rank), NEW m \in Nat, NEW h, IsClimb(h, UpTo(rank, m))
    PROVE  \E g : IsClimb(g, UpTo(rank, m + 1))
<1> DEFINE S == UpTo(rank, m)
           T == UpTo(rank, m + 1)
           g == [d \in T |->
                    IF ParentOf(d) = d THEN << RootName >> ELSE << NameOf(d) >> \o h[ParentOf(d)]]
<1>1. S \subseteq T
  BY DEF UpTo, IsRank
<1>2. ASSUME NEW d \in S PROVE g[d] = h[d]
  <2>1. h[d] = IF ParentOf(d) = d THEN << RootName >> ELSE << NameOf(d) >> \o h[ParentOf(d)]
    BY DEF IsClimb
  <2> QED
    BY <1>1, <2>1
<1>3. ASSUME NEW d \in T, ParentOf(d) # d PROVE ParentOf(d) \in S
  <2>1. d \in Directories /\ rank[d] < m + 1
    BY DEF UpTo
  <2>2. ParentOf(d) \in Directories /\ rank[ParentOf(d)] < rank[d]
    BY <1>3, <2>1, ParentRank
  <2> QED
    BY <2>1, <2>2 DEF UpTo, IsRank
<1>4. ASSUME NEW d \in T
      PROVE  g[d] = IF ParentOf(d) = d THEN << RootName >> ELSE << NameOf(d) >> \o g[ParentOf(d)]
  <2>1. CASE ParentOf(d) = d
    BY <2>1
  <2>2. CASE ParentOf(d) # d
    <3>1. g[ParentOf(d)] = h[ParentOf(d)]
      BY <1>2, <1>3, <2>2
    <3> QED
      BY <2>2, <3>1
  <2> QED
    BY <2>1, <2>2
<1>5. g = [d \in T |-> g[d]]
  OBVIOUS
<1> HIDE DEF g, T, S
<1>6. IsClimb(g, T)
  BY <1>4, <1>5 DEF IsClimb
<1> QED
  BY <1>6 DEF T

LEMMA ClimbUpTo ==
    ASSUME KeysAreSound, NEW rank, IsRank(rank), NEW m \in Nat
    PROVE  \E h : IsClimb(h, UpTo(rank, m))
<1> DEFINE S == {i \in Nat : ~ \E h : IsClimb(h, UpTo(rank, i))}
<1> SUFFICES ASSUME S # {} PROVE FALSE
  OBVIOUS
<1>0. S \subseteq Nat
  OBVIOUS
<1>1. PICK i \in S : \A j \in S : i <= j
  <2> HIDE DEF S
  <2> QED
    BY <1>0, LeastNat
<1>2. i # 0
  <2>1. UpTo(rank, 0) = {}
    BY DEF UpTo, IsRank
  <2>2. IsClimb([d \in {} |-> << >>], {})
    BY DEF IsClimb
  <2> QED
    BY <2>1, <2>2
<1>3. i - 1 \in Nat /\ i - 1 \notin S /\ (i - 1) + 1 = i
  BY <1>1, <1>2
<1> QED
  BY <1>1, <1>3, ClimbGrows

(* The functions on the sets up to m agree, so their union is one on all;  *)
(* it is the one CHOOSE finds in DirPath or another that is as good.       *)
LEMMA ClimbsAgree ==
    ASSUME KeysAreSound, NEW rank, IsRank(rank), NEW m \in Nat, NEW n \in Nat, m <= n,
           NEW g, IsClimb(g, UpTo(rank, m)), NEW h, IsClimb(h, UpTo(rank, n)),
           NEW d \in UpTo(rank, m)
    PROVE  g[d] = h[d]
<1> DEFINE S == {rank[c] : c \in {x \in UpTo(rank, m) : g[x] # h[x]}}
<1> SUFFICES ASSUME S # {} PROVE FALSE
  OBVIOUS
<1>0. S \subseteq Nat
  BY DEF UpTo, IsRank
<1>1. PICK i \in S : \A j \in S : i <= j
  <2> HIDE DEF S
  <2> QED
    BY <1>0, LeastNat
<1>2. PICK c \in UpTo(rank, m) : g[c] # h[c] /\ i = rank[c]
  BY <1>1
<1>3. c \in Directories /\ c \in UpTo(rank, n) /\ rank[c] < m
  BY DEF UpTo, IsRank
<1>4. /\ g[c] = IF ParentOf(c) = c THEN << RootName >> ELSE << NameOf(c) >> \o g[ParentOf(c)]
      /\ h[c] = IF ParentOf(c) = c THEN << RootName >> ELSE << NameOf(c) >> \o h[ParentOf(c)]
  BY <1>3 DEF IsClimb
<1>5. ParentOf(c) # c
  BY <1>2, <1>4
<1>6. ParentOf(c) \in Directories /\ rank[ParentOf(c)] < rank[c]
  BY <1>3, <1>5, ParentRank
<1>7. ParentOf(c) \in UpTo(rank, m) /\ rank[ParentOf(c)] \in Nat
  BY <1>3, <1>6 DEF UpTo, IsRank
<1>8. g[ParentOf(c)] = h[ParentOf(c)]
  <2>1. rank[ParentOf(c)] \notin S
    BY <1>0, <1>1, <1>2, <1>6, <1>7
  <2> QED
    BY <1>7, <2>1
<1> QED
  BY <1>2, <1>4, <1>5, <1>8

LEMMA ClimbExists ==
    ASSUME KeysAreSound, NEW rank, IsRank(rank)
    PROVE  \E g : IsClimb(g, Directories)
<1> DEFINE H(m) == CHOOSE h : IsClimb(h, UpTo(rank, m))
           g == [d \in Directories |-> H(rank[d] + 1)[d]]
<1>1. \A m \in Nat : IsClimb(H(m), UpTo(rank, m))
  BY ClimbUpTo
<1> HIDE DEF H
<1>2. \A d \in Directories : rank[d] \in Nat /\ rank[d] + 1 \in Nat /\ d \in UpTo(rank, rank[d] + 1)
  BY DEF UpTo, IsRank
<1>3. ASSUME NEW d \in Directories
      PROVE  g[d] = IF ParentOf(d) = d THEN << RootName >> ELSE << NameOf(d) >> \o g[ParentOf(d)]
  <2> DEFINE p == ParentOf(d)
             h == H(rank[d] + 1)
  <2>1. h[d] = IF p = d THEN << RootName >> ELSE << NameOf(d) >> \o h[p]
    BY <1>1, <1>2 DEF IsClimb
  <2>2. g[d] = h[d]
    OBVIOUS
  <2>3. CASE p = d
    BY <2>1, <2>2, <2>3
  <2>4. CASE p # d
    <3>1. p \in Directories /\ rank[p] < rank[d]
      BY <2>4, ParentRank
    <3>2. g[p] = H(rank[p] + 1)[p]
      BY <3>1
    <3>3. rank[p] + 1 <= rank[d] + 1
      BY <1>2, <3>1
    <3> HIDE DEF g, h, p
    <3>4. H(rank[p] + 1)[p] = h[p]
      BY <1>1, <1>2, <3>1, <3>3, ClimbsAgree DEF h
    <3> QED
      BY <2>1, <2>2, <2>4, <3>2, <3>4 DEF p
  <2> QED
    BY <2>3, <2>4
<1>4. g = [d \in Directories |-> g[d]]
  OBVIOUS
<1> HIDE DEF g
<1>5. IsClimb(g, Directories)
  BY <1>3, <1>4 DEF IsClimb
<1> QED
  BY <1>5

LEMMA DirPathIs ==
    ASSUME KeysAreSound, NEW rank, IsRank(rank)
    PROVE  \A d \in Directories :
              DirPath(d) = IF ParentOf(d) = d THEN << RootName >>
                           ELSE << NameOf(d) >> \o DirPath(ParentOf(d))
<1> DEFINE f == CHOOSE g : g = [d \in Directories |->
                    IF ParentOf(d) = d THEN << RootName >> ELSE << NameOf(d) >> \o g[ParentOf(d)]]
<1>1. \A c : DirPath(c) = f[c]
  BY Zenon DEF DirPath
<1>2. PICK h : IsClimb(h, Directories)
  BY ClimbExists
<1>3. h = [d \in Directories |->
             IF ParentOf(d) = d THEN << RootName >> ELSE << NameOf(d) >> \o h[ParentOf(d)]]
  BY <1>2, Zenon DEF IsClimb
<1>4. f = [d \in Directories |->
             IF ParentOf(d) = d THEN << RootName >> ELSE << NameOf(d) >> \o f[ParentOf(d)]]
  BY <1>3, Zenon
<1> HIDE DEF f
<1> QED
  BY <1>1, <1>4

(* printDirPath, along the keys: the root has no name, and a folder's path *)
(* is that of the directory it is in and its name.                         *)
TreeIsSound == KeysAreSound /\ \E rank : IsRank(rank)

LEMMA PathsAre ==
    TreeIsSound =>
        /\ DirPath(Root) = << RootName >>
        /\ \A k \in FolderKeys : DirPath(store[k].id) = << k[2] >> \o DirPath(k[1])
<1> SUFFICES ASSUME KeysAreSound, NEW rank, IsRank(rank)
             PROVE  /\ DirPath(Root) = << RootName >>
                    /\ \A k \in FolderKeys : DirPath(store[k].id) = << k[2] >> \o DirPath(k[1])
  BY DEF TreeIsSound
<1>1. DirPath(Root) = << RootName >>
  BY DirPathIs, DirectoriesAre, ParentIs
<1>2. ASSUME NEW k \in FolderKeys
      PROVE  DirPath(store[k].id) = << k[2] >> \o DirPath(k[1])
  <2>1. /\ store[k].id \in Directories /\ k[1] \in Directories
        /\ ParentOf(store[k].id) = k[1] /\ NameOf(store[k].id) = k[2]
    BY DirectoriesAre, ParentIs DEF KeysAreSound, FolderKeys
  <2>2. rank[k[1]] < rank[store[k].id] /\ rank[k[1]] \in Nat
    BY <2>1 DEF IsRank
  <2> QED
    BY <2>1, <2>2, DirPathIs
<1> QED
  BY <1>1, <1>2

LEMMA PathsAreNext ==
    TreeIsSound' =>
        /\ DirPath(Root)' = << RootName >>
        /\ \A k \in FolderKeys' : DirPath(store[k].id)' = << k[2] >> \o DirPath(k[1])'
<1>1. (TreeIsSound =>
        /\ DirPath(Root) = << RootName >>
        /\ \A k \in FolderKeys : DirPath(store[k].id) = << k[2] >> \o DirPath(k[1]))'
  BY PathsAre, PTL
<1> QED
  BY <1>1

-----------------------------------------------------------------------------
(* As long as the keys of a directory and of those above it stay, so does  *)
(* its path.                                                               *)
LEMMA PathKept ==
    ASSUME KeysAreSound, NEW rank, IsRank(rank), TreeIsSound', NEW m \in Nat,
           \A k \in FolderKeys : rank[store[k].id] <= m =>
               k \in FolderKeys' /\ store'[k] = store[k],
           NEW c \in Directories, rank[c] <= m
    PROVE  c \in Directories' /\ DirPath(c)' = DirPath(c)
<1> DEFINE Kept(d) == d \in Directories' /\ DirPath(d)' = DirPath(d)
           S == {rank[d] : d \in {x \in Directories : rank[x] <= m /\ ~Kept(x)}}
<1> SUFFICES ASSUME S # {} PROVE FALSE
  OBVIOUS
<1>0. S \subseteq Nat
  BY DEF IsRank
<1>1. PICK i \in S : \A j \in S : i <= j
  <2> HIDE DEF S
  <2> QED
    BY <1>0, LeastNat
<1>2. PICK d \in Directories : rank[d] <= m /\ ~Kept(d) /\ i = rank[d]
  BY <1>1
<1>3. DirPath(Root) = << RootName >> /\ DirPath(Root)' = << RootName >> /\ Root \in Directories'
  BY PathsAre, PathsAreNext, DirectoriesAreNext DEF TreeIsSound
<1>4. d # Root
  BY <1>2, <1>3
<1>5. PICK k \in FolderKeys : d = store[k].id
  BY <1>4, DirectoriesAre
<1>6. /\ k \in FolderKeys' /\ store'[k] = store[k]
      /\ k[1] \in Directories /\ rank[k[1]] < rank[d] /\ rank[k[1]] \in Nat /\ rank[d] \in Nat
  BY <1>2, <1>5 DEF IsRank, KeysAreSound, FolderKeys
<1>7. Kept(k[1])
  BY <1>1, <1>2, <1>6
<1>8. d \in Directories'
  BY <1>5, <1>6, DirectoriesAreNext
<1>9. DirPath(d) = << k[2] >> \o DirPath(k[1])
  BY <1>5, PathsAre DEF TreeIsSound
<1>10. DirPath(d)' = << k[2] >> \o DirPath(k[1])'
  BY <1>5, <1>6, PathsAreNext
<1> QED
  BY <1>2, <1>7, <1>8, <1>9, <1>10

-----------------------------------------------------------------------------
(* What a command writes or deletes in directory c. *)
Grown(c, rank) ==
    /\ KeysAreSound'
    /\ \A k \in FolderKeys : rank[store[k].id] <= rank[c] =>
          k \in FolderKeys' /\ store'[k] = store[k]
    /\ \E r : /\ IsRank(r)'
              /\ \A d \in Directories' :
                    IF d \in Directories THEN r[d] = rank[d] ELSE rank[c] <= r[d]

(* No folder comes or goes. *)
SameFolders ==
    /\ KeysAreSound'
    /\ FolderKeys' = FolderKeys
    /\ \A k \in FolderKeys : store'[k] = store[k]

LEMMA SameFoldersGrown ==
    ASSUME SameFolders, NEW rank, IsRank(rank), NEW c \in Directories
    PROVE  Directories' = Directories /\ IsRank(rank)' /\ Grown(c, rank)
<1>1. Directories' = Directories
  BY DirectoriesAre, DirectoriesAreNext DEF SameFolders
<1>2. IsRank(rank)'
  BY <1>1 DEF SameFolders, IsRank
<1> QED
  BY <1>1, <1>2 DEF Grown, SameFolders

LEMMA UnchangedFolders == KeysAreSound /\ store' = store => SameFolders
<1> SUFFICES ASSUME KeysAreSound, store' = store PROVE SameFolders
  OBVIOUS
<1>1. FolderKeys' = FolderKeys
  BY DEF FolderKeys
<1>2. Directories' = Directories
  BY DEF Directories, FolderIds
<1>3. KeysAreSound'
  BY <1>1, <1>2 DEF KeysAreSound
<1> QED
  BY <1>1, <1>3 DEF SameFolders

LEMMA FileAdded ==
    ASSUME KeysAreSound, NEW k \in Keys, NEW v, k \notin DOMAIN store,
           k[1] \in Directories, store' = With(k, v),
           v.kind = "file", Len(v.data) \in 1 .. MaxSize
    PROVE  SameFolders
<1>1. /\ DOMAIN store' = DOMAIN store \cup {k} /\ store'[k] = v
      /\ \A j \in DOMAIN store : store'[j] = store[j]
  BY WithAdds
<1>2. FolderKeys' = FolderKeys /\ \A j \in FolderKeys : store'[j] = store[j]
  BY <1>1 DEF FolderKeys
<1>3. Directories' = Directories
  BY <1>2, DirectoriesAre, DirectoriesAreNext
<1>4. KeysAreSound'
  BY <1>1, <1>2, <1>3 DEF KeysAreSound
<1> QED
  BY <1>2, <1>4 DEF SameFolders

LEMMA FileDeleted ==
    ASSUME KeysAreSound, NEW k, Delete(k), k \in DOMAIN store => store[k].kind # "folder"
    PROVE  SameFolders
<1>1. /\ DOMAIN store' = DOMAIN store \ {k}
      /\ \A j \in DOMAIN store \ {k} : store'[j] = store[j]
  BY DeleteDeletes
<1>2. FolderKeys' = FolderKeys /\ \A j \in FolderKeys : store'[j] = store[j]
  BY <1>1 DEF FolderKeys
<1>3. Directories' = Directories
  BY <1>2, DirectoriesAre, DirectoriesAreNext
<1>4. KeysAreSound'
  BY <1>1, <1>2, <1>3 DEF KeysAreSound
<1> QED
  BY <1>2, <1>4 DEF SameFolders

LEMMA FolderAdded ==
    ASSUME KeysAreSound, NEW rank, IsRank(rank), NEW k, NEW id \in Folders \ FolderIds,
           k \notin DOMAIN store, Add(k, FolderOf(id))
    PROVE  k[1] \in Directories /\ Grown(k[1], rank)
<1> DEFINE v == FolderOf(id)
<1>0. v.kind = "folder" /\ v.id = id /\ v = FolderOf(v.id)
  BY DEF FolderOf
<1> HIDE DEF v
<1>1. /\ DOMAIN store' = DOMAIN store \cup {k} /\ store'[k] = v
      /\ \A j \in DOMAIN store : store'[j] = store[j]
  BY AddAdds DEF v
<1>2. FolderKeys' = FolderKeys \cup {k} /\ \A j \in FolderKeys : store'[j] = store[j]
  BY <1>0, <1>1 DEF FolderKeys
<1>3. k \notin FolderKeys /\ k \in Keys /\ k[1] \in Directories
  BY DEF Add, FolderKeys
<1>4. Directories' = Directories \cup {id} /\ id \notin Directories
  <2>1. id \notin Directories
    BY FileCommandsAssumption DEF Directories
  <2>2. {store'[j].id : j \in FolderKeys'} = {store[j].id : j \in FolderKeys} \cup {id}
    BY <1>0, <1>1, <1>2
  <2> QED
    BY <2>1, <2>2, DirectoriesAre, DirectoriesAreNext
<1>5. KeysAreSound'
  <2>1. ASSUME NEW j \in DOMAIN store'
        PROVE  /\ j \in Keys /\ j[1] \in Directories'
               /\ store'[j].kind = "folder" =>
                     store'[j] = FolderOf(store'[j].id) /\ store'[j].id \in Folders
               /\ store'[j].kind = "file" => Len(store'[j].data) \in 1 .. MaxSize
    <3>1. CASE j = k
      BY <1>0, <1>1, <1>3, <1>4, <3>1
    <3>2. CASE j # k
      BY <1>1, <1>4, <3>2 DEF KeysAreSound
    <3> QED
      BY <3>1, <3>2
  <2>2. ASSUME NEW i \in FolderKeys', NEW j \in FolderKeys', store'[i].id = store'[j].id
        PROVE  i = j
    <3>1. \A x \in FolderKeys : store[x].id # id
      BY <1>4, DirectoriesAre
    <3> QED
      BY <1>0, <1>1, <1>2, <2>2, <3>1 DEF KeysAreSound
  <2> QED
    BY <2>1, <2>2 DEF KeysAreSound, Keys
<1>6. \A d \in Directories : rank[d] \in Nat
  BY DEF IsRank
<1>7. PICK r : r = [d \in Directories \cup {id} |->
                        IF d = id THEN rank[k[1]] + 1 ELSE rank[d]]
  OBVIOUS
<1>8. r \in [Directories' -> Nat]
  BY <1>3, <1>4, <1>6, <1>7
<1>9. /\ r[id] = rank[k[1]] + 1
      /\ \A d \in Directories : r[d] = rank[d]
  BY <1>4, <1>7
<1>10. ASSUME NEW j \in FolderKeys' PROVE r[j[1]] < r[store'[j].id]
  <2>1. CASE j = k
    BY <1>0, <1>1, <1>3, <1>6, <1>9, <2>1
  <2>2. CASE j # k
    <3>1. /\ j \in FolderKeys /\ j[1] \in Directories /\ store[j].id \in Directories
          /\ store'[j] = store[j]
      BY <1>2, <2>2, DirectoriesAre DEF KeysAreSound, FolderKeys
    <3> QED
      BY <1>9, <3>1 DEF IsRank
  <2> QED
    BY <2>1, <2>2
<1>11. IsRank(r)'
  BY <1>8, <1>10 DEF IsRank
<1>12. \A d \in Directories' : IF d \in Directories THEN r[d] = rank[d] ELSE rank[k[1]] <= r[d]
  BY <1>3, <1>4, <1>6, <1>9
<1> QED
  BY <1>2, <1>3, <1>5, <1>11, <1>12 DEF Grown

LEMMA FolderDeleted ==
    ASSUME KeysAreSound, NEW rank, IsRank(rank), NEW k \in FolderKeys, Delete(k)
    PROVE  k[1] \in Directories /\ Grown(k[1], rank)
<1> DEFINE id == store[k].id
<1>1. /\ DOMAIN store' = DOMAIN store \ {k}
      /\ \A j \in DOMAIN store \ {k} : store'[j] = store[j]
      /\ \A j \in DOMAIN store : j[1] # id
  BY DeleteDeletes DEF Delete, FolderKeys
<1>2. /\ FolderKeys' = FolderKeys \ {k}
      /\ \A j \in FolderKeys' : j \in FolderKeys /\ store'[j] = store[j]
  BY <1>1 DEF FolderKeys
<1>3. k[1] \in Directories /\ id \in Folders /\ id \in Directories
  BY DirectoriesAre DEF KeysAreSound, FolderKeys
<1>4. Directories' = Directories \ {id}
  <2>1. {store'[j].id : j \in FolderKeys'} = {store[j].id : j \in FolderKeys} \ {id}
    BY <1>2 DEF KeysAreSound
  <2>2. id # Root
    BY <1>3, FileCommandsAssumption
  <2> QED
    BY <2>1, <2>2, DirectoriesAre, DirectoriesAreNext
<1>5. KeysAreSound'
  <2>1. ASSUME NEW j \in DOMAIN store'
        PROVE  /\ j \in Keys /\ j[1] \in Directories'
               /\ store'[j].kind = "folder" =>
                     store'[j] = FolderOf(store'[j].id) /\ store'[j].id \in Folders
               /\ store'[j].kind = "file" => Len(store'[j].data) \in 1 .. MaxSize
    BY <1>1, <1>4 DEF KeysAreSound
  <2>2. \A i, j \in FolderKeys' : store'[i].id = store'[j].id => i = j
    BY <1>2 DEF KeysAreSound
  <2> QED
    BY <2>1, <2>2 DEF KeysAreSound, Keys
<1>6. PICK r : r = [d \in Directories \ {id} |-> rank[d]]
  OBVIOUS
<1>7. r \in [Directories' -> Nat] /\ \A d \in Directories' : d \in Directories /\ r[d] = rank[d]
  BY <1>4, <1>6 DEF IsRank
<1>8. ASSUME NEW j \in FolderKeys' PROVE r[j[1]] < r[store'[j].id]
  <2>1. j \in FolderKeys /\ store'[j] = store[j] /\ j[1] \in Directories'
    BY <1>2, <1>5 DEF KeysAreSound, FolderKeys
  <2>2. store'[j].id \in Directories'
    BY DirectoriesAreNext
  <2> QED
    BY <1>7, <2>1, <2>2 DEF IsRank
<1>9. IsRank(r)'
  BY <1>7, <1>8 DEF IsRank
<1>10. ASSUME NEW j \in FolderKeys, rank[store[j].id] <= rank[k[1]]
      PROVE  j \in FolderKeys' /\ store'[j] = store[j]
  <2>1. rank[k[1]] < rank[id] /\ rank[k[1]] \in Nat /\ rank[id] \in Nat
    BY <1>3 DEF IsRank
  <2>2. j # k
    BY <1>10, <2>1
  <2> QED
    BY <1>1, <1>2, <2>2
<1> QED
  BY <1>3, <1>5, <1>7, <1>9, <1>10 DEF Grown

LEMMA RemoveGrown ==
    ASSUME KeysAreSound, NEW rank, IsRank(rank), NEW c, NEW n, RemoveTwice(c, n)
    PROVE  SameFolders \/ (c \in Directories /\ Grown(c, rank))
<1> DEFINE k == << c, n >>
<1>1. CASE store' = store
  BY <1>1, UnchangedFolders
<1>2. CASE Delete(k) /\ k \in FolderKeys
  BY <1>2, FolderDeleted
<1>3. CASE Delete(k) /\ k \notin FolderKeys
  BY <1>3, FileDeleted DEF FolderKeys
<1> QED
  BY <1>1, <1>2, <1>3 DEF RemoveTwice, storeVars

LEMMA SizeBound ==
    ASSUME KeysAreSound, SourceIsFile, NEW size \in CandidateSizes(job.file), size # 0
    PROVE  size \in 1 .. MaxSize
<1>1. CASE Candidates(job.file) = {}
  BY <1>1, FileCommandsAssumption DEF CandidateSizes
<1>2. CASE Candidates(job.file) # {}
  <2>1. PICK j \in Candidates(job.file) : size = Len(store[j].data)
    BY <1>2 DEF CandidateSizes
  <2>2. j \in DOMAIN store /\ store[j].kind = "file"
    BY <2>1 DEF Candidates, SourceIsFile
  <2> QED
    BY <2>1, <2>2 DEF KeysAreSound
<1> QED
  BY <1>1, <1>2

LEMMA CopiedGrown ==
    ASSUME StoreInv, KeysAreSound, NEW rank, IsRank(rank),
           SourceIsFile, WriteSucceeds(job.dest, job.file), Copied(job.file)
    PROVE  SameFolders \/ (job.dest \in Directories /\ Grown(job.dest, rank))
<1> DEFINE k == << job.dest, job.file >>
<1>1. k \notin DOMAIN store
  BY DEF WriteSucceeds, Exists
<1>2. PICK size \in CandidateSizes(job.file) :
          IF size = 0 THEN NewFolder(k)
          ELSE Used + size <= Capacity /\ Add(k, BufferAfterRead(job.file, size))
  BY DEF Copied
<1>3. CASE size = 0
  <2>1. PICK id \in Folders \ FolderIds : Add(k, FolderOf(id))
    BY <1>2, <1>3 DEF NewFolder, MakeFolder
  <2> QED
    BY <1>1, <2>1, FolderAdded
<1>4. CASE size # 0
  <2> DEFINE v == BufferAfterRead(job.file, size)
  <2>1. size \in 1 .. MaxSize
    BY <1>4, SizeBound
  <2>2. v.kind = "file" /\ v.data = [i \in 1 .. size |-> v.data[i]]
    BY DEF BufferAfterRead
  <2> HIDE DEF v
  <2>3. Len(v.data) = size
    BY <2>1, <2>2, FileOfCells, FileCommandsAssumption
  <2>4. k \in Keys /\ k[1] \in Directories /\ store' = With(k, v)
    BY <1>2, <1>4 DEF v, Add
  <2> QED
    BY <1>1, <2>1, <2>2, <2>3, <2>4, FileAdded
<1> QED
  BY <1>3, <1>4

LEMMA CutShortGrown ==
    ASSUME StoreInv, JobShape, KeysAreSound, WriteIsCutShort PROVE SameFolders
<1> DEFINE k == << job.dest, job.file >>
<1>1. PICK v : /\ store' = With(k, v) /\ v.kind = "file"
               /\ \E size \in CandidateSizes(job.file) : size # 0 /\ Len(v.data) \in 1 .. size
  BY CutShortAddsFile
<1>2. k \notin DOMAIN store /\ job.dest \in Directories
  BY CutShortAddsFile
<1>3. SourceIsFile /\ job.file \in Names
  BY DEF WriteIsCutShort, JobShape
<1>4. Len(v.data) \in 1 .. MaxSize
  BY <1>1, <1>3, SizeBound, FileCommandsAssumption
<1>5. k \in Keys /\ k[1] \in Directories
  BY <1>2, <1>3, DirectoriesAre DEF KeysAreSound, FolderKeys, Keys
<1> QED
  BY <1>1, <1>2, <1>4, <1>5, FileAdded

-----------------------------------------------------------------------------
(* findCluster leads down, or to something that is no directory. *)
LEMMA FindGoesDown ==
    ASSUME KeysAreSound, NEW c, NEW n, FindCluster(c, n) \in Directories
    PROVE  /\ n # NoName /\ c \in Directories
           /\ << c, n >> \in FolderKeys /\ FindCluster(c, n) = store[<< c, n >>].id
<1>1. Directories \subseteq {Root} \cup Folders
  BY DirectoriesAre DEF KeysAreSound, FolderKeys
<1>2. {BootCluster, FileData, NOT_FOUND} \cap Directories = {}
  BY <1>1, FileCommandsAssumption
<1>3. n # NoName /\ Exists(c, n)
  BY <1>2 DEF FindCluster
<1>4. << c, n >> \in DOMAIN store /\ FindCluster(c, n) = ClusterOf(store[<< c, n >>])
  BY <1>3 DEF FindCluster, Exists
<1>5. << c, n >> \in FolderKeys /\ FindCluster(c, n) = store[<< c, n >>].id
  BY <1>2, <1>4 DEF ClusterOf, FolderKeys
<1>6. c \in Directories
  BY <1>4 DEF KeysAreSound
<1> QED
  BY <1>3, <1>5, <1>6

(* The recursive function in LastCluster and its equation. *)
IsWalk(h, path, m) ==
    h = [i \in 0 .. m |-> IF i = 0 THEN cur_cluster ELSE FindCluster(h[i - 1], path[i])]

LEMMA WalkGrows ==
    ASSUME NEW path, NEW m \in Nat, NEW h, IsWalk(h, path, m)
    PROVE  \E g : IsWalk(g, path, m + 1)
<1> DEFINE g == [i \in 0 .. m + 1 |-> IF i <= m THEN h[i] ELSE FindCluster(h[m], path[m + 1])]
<1>1. ASSUME NEW i \in 0 .. m + 1
      PROVE  g[i] = IF i = 0 THEN cur_cluster ELSE FindCluster(g[i - 1], path[i])
  <2>1. CASE i <= m
    <3>1. i \in 0 .. m
      BY <2>1
    <3>2. h[i] = IF i = 0 THEN cur_cluster ELSE FindCluster(h[i - 1], path[i])
      BY <3>1 DEF IsWalk
    <3>3. i # 0 => g[i - 1] = h[i - 1]
      BY <2>1
    <3> QED
      BY <2>1, <3>2, <3>3
  <2>2. CASE ~(i <= m)
    <3>1. i = m + 1 /\ i # 0 /\ i - 1 = m
      BY <2>2
    <3>2. g[m] = h[m]
      OBVIOUS
    <3> QED
      BY <2>2, <3>1, <3>2
  <2> QED
    BY <2>1, <2>2
<1>2. g = [i \in 0 .. m + 1 |-> g[i]]
  OBVIOUS
<1> HIDE DEF g
<1>3. IsWalk(g, path, m + 1)
  BY <1>1, <1>2 DEF IsWalk
<1> QED
  BY <1>3

LEMMA WalkExists == ASSUME NEW path, NEW m \in Nat PROVE \E h : IsWalk(h, path, m)
<1> DEFINE S == {i \in Nat : ~ \E h : IsWalk(h, path, i)}
<1> SUFFICES ASSUME S # {} PROVE FALSE
  OBVIOUS
<1>0. S \subseteq Nat
  OBVIOUS
<1>1. PICK i \in S : \A j \in S : i <= j
  <2> HIDE DEF S
  <2> QED
    BY <1>0, LeastNat
<1>2. i # 0
  <2> DEFINE h == [j \in 0 .. 0 |-> cur_cluster]
  <2>1. IsWalk(h, path, 0)
    BY DEF IsWalk
  <2> QED
    BY <2>1
<1>3. i - 1 \in Nat /\ i - 1 \notin S /\ (i - 1) + 1 = i
  BY <1>1, <1>2
<1> QED
  BY <1>1, <1>3, WalkGrows

LEMMA WalkIs ==
    ASSUME NEW path, Len(path) \in Nat
    PROVE  \E g : IsWalk(g, path, Len(path)) /\ LastCluster(path) = g[Len(path)]
<1> DEFINE f == CHOOSE g : g = [i \in 0 .. Len(path) |->
                    IF i = 0 THEN cur_cluster ELSE FindCluster(g[i - 1], path[i])]
<1>1. LastCluster(path) = f[Len(path)]
  BY Zenon DEF LastCluster
<1>2. PICK h : IsWalk(h, path, Len(path))
  BY WalkExists
<1>3. h = [i \in 0 .. Len(path) |->
             IF i = 0 THEN cur_cluster ELSE FindCluster(h[i - 1], path[i])]
  BY <1>2, Zenon DEF IsWalk
<1>4. f = [i \in 0 .. Len(path) |->
             IF i = 0 THEN cur_cluster ELSE FindCluster(f[i - 1], path[i])]
  BY <1>3, Zenon
<1> HIDE DEF f
<1>5. IsWalk(f, path, Len(path))
  BY <1>4, Zenon DEF IsWalk
<1> QED
  BY <1>1, <1>5

(* cp and mv work in the shell's directory and below. *)
LEMMA LastIsBelow ==
    ASSUME KeysAreSound, NEW rank, IsRank(rank), cur_cluster \in Directories,
           NEW path, Len(path) \in Nat, LastCluster(path) \in Directories
    PROVE  rank[cur_cluster] <= rank[LastCluster(path)]
<1>1. PICK g : IsWalk(g, path, Len(path)) /\ LastCluster(path) = g[Len(path)]
  BY WalkIs
<1> DEFINE Bad(i) == g[i] \in Directories /\ ~(rank[cur_cluster] <= rank[g[i]])
           S == {i \in 0 .. Len(path) : Bad(i)}
<1> SUFFICES ASSUME S # {} PROVE FALSE
  BY <1>1
<1>0. S \subseteq Nat
  OBVIOUS
<1>2. PICK i \in S : \A j \in S : i <= j
  <2> HIDE DEF S
  <2> QED
    BY <1>0, LeastNat
<1>3. g[i] = IF i = 0 THEN cur_cluster ELSE FindCluster(g[i - 1], path[i])
  BY <1>1 DEF IsWalk
<1>4. i # 0
  BY <1>3 DEF IsRank
<1>5. i - 1 \in 0 .. Len(path) /\ i - 1 \notin S /\ g[i] = FindCluster(g[i - 1], path[i])
  BY <1>2, <1>3, <1>4
<1> DEFINE k == << g[i - 1], path[i] >>
<1>6. g[i - 1] \in Directories /\ k \in FolderKeys /\ g[i] = store[k].id
  BY <1>5, FindGoesDown
<1>7. rank[k[1]] < rank[g[i]]
  BY <1>6 DEF IsRank
<1>8. rank[g[i - 1]] \in Nat /\ rank[g[i]] \in Nat /\ rank[cur_cluster] \in Nat
  BY <1>6 DEF IsRank
<1> QED
  BY <1>5, <1>6, <1>7, <1>8

LEMMA LastIsAnswer ==
    ASSUME KeysAreSound, cur_cluster \in Directories, NEW path, Len(path) \in Nat
    PROVE  LastCluster(path) \in Answers
<1>1. PICK g : IsWalk(g, path, Len(path)) /\ LastCluster(path) = g[Len(path)]
  BY WalkIs
<1>2. LastCluster(path) = cur_cluster \/ \E c, n : LastCluster(path) = FindCluster(c, n)
  BY <1>1 DEF IsWalk
<1>3. cur_cluster \in Answers
  BY DirectoriesAre DEF KeysAreSound, FolderKeys, Answers
<1>4. ASSUME NEW c, NEW n PROVE FindCluster(c, n) \in Answers
  BY DEF FindCluster, ClusterOf, Exists, KeysAreSound, Answers
<1> QED
  BY <1>2, <1>3, <1>4

-----------------------------------------------------------------------------
(* The directories cp and mv work in, or will: the destination, the ones   *)
(* on the stack, and the folders left in the tables there.                 *)
LevelFolders(l) ==
    {l.dir} \cup {l.left[n].id : n \in {m \in DOMAIN l.left : l.left[m].kind = "folder"}}
FoldersOn(stack) == UNION {LevelFolders(stack[i]) : i \in DOMAIN stack}

Stacked == job.pc \in {"next", "write", "remove"}

StackIsSound ==
    Stacked => /\ cur_cluster \in Directories
               /\ job.dest \in Answers
               /\ \E S : job.stack \in Seq(S) \ {<< >>}
               /\ FoldersOn(job.stack) \subseteq {Root} \cup Folders

JobFolders == {job.dest} \cup FoldersOn(job.stack)

(* They are the shell's directory and what is below it, if they are still  *)
(* there: no command removes a directory the shell is in.                  *)
WorksBelow(rank) ==
    Stacked => \A c \in JobFolders \cap Directories : rank[cur_cluster] <= rank[c]

CdIsSound ==
    job.pc = "cd" => /\ {"at", "path"} \subseteq DOMAIN job
                     /\ job.at \in Directories => cur_cluster = job.at

CwdIsSound ==
    /\ cur_cluster \in Directories \cup {BootCluster, FileData}
    /\ DOMAIN cwd_table.entry \subseteq Names
    /\ \E S : cur_dir \in Seq(S)
    /\ job.pc \in {"idle", "refresh", "astray", "cd", "next", "write", "remove", "report"}

(* The inductive invariant.  PathNamesCwd alone is not inductive: the path *)
(* of the shell's directory is the concern of every command that removes,  *)
(* and it stays because cp and mv remove only below that directory.        *)
TreeInv ==
    /\ KeysAreSound
    /\ \E rank : IsRank(rank) /\ WorksBelow(rank)
    /\ StackIsSound
    /\ CdIsSound
    /\ CwdIsSound
    /\ PathNamesCwd

LEMMA TreeIs == TreeInv => TreeIsSound
BY DEF TreeInv, TreeIsSound

(* What is on the stack after its top was replaced. *)
LEMMA PushOne ==
    ASSUME NEW S, NEW s \in Seq(S) \ {<< >>}, NEW a
    PROVE  /\ \E R : << a >> \o Tail(s) \in Seq(R) \ {<< >>}
           /\ \A i \in DOMAIN (<< a >> \o Tail(s)) :
                 (<< a >> \o Tail(s))[i] = a \/ \E j \in DOMAIN s : (<< a >> \o Tail(s))[i] = s[j]
<1> DEFINE t == << a >> \o Tail(s)
<1>1. << a >> \in Seq(S \cup {a}) /\ Tail(s) \in Seq(S \cup {a})
  OBVIOUS
<1>2. t \in Seq(S \cup {a}) /\ Len(t) = Len(s) /\ Len(s) \in Nat \ {0} /\ t # << >>
  BY <1>1
<1>3. ASSUME NEW i \in DOMAIN t PROVE t[i] = a \/ \E j \in DOMAIN s : t[i] = s[j]
  <2>1. i \in 1 .. Len(s)
    BY <1>2
  <2>2. CASE i = 1
    BY <1>1, <2>2
  <2>3. CASE i # 1
    <3>1. t[i] = s[i] /\ i \in DOMAIN s
      BY <1>1, <2>1, <2>3
    <3> QED
      BY <3>1
  <2> QED
    BY <2>2, <2>3
<1> QED
  BY <1>2, <1>3

LEMMA PushTwo ==
    ASSUME NEW S, NEW s \in Seq(S) \ {<< >>}, NEW a, NEW b
    PROVE  /\ \E R : << a, b >> \o Tail(s) \in Seq(R) \ {<< >>}
           /\ \A i \in DOMAIN (<< a, b >> \o Tail(s)) :
                 \/ (<< a, b >> \o Tail(s))[i] \in {a, b}
                 \/ \E j \in DOMAIN s : (<< a, b >> \o Tail(s))[i] = s[j]
<1> DEFINE t == << a, b >> \o Tail(s)
<1>1. << a, b >> \in Seq(S \cup {a, b}) /\ Tail(s) \in Seq(S \cup {a, b})
  OBVIOUS
<1>2. t \in Seq(S \cup {a, b}) /\ Len(t) = Len(s) + 1 /\ Len(s) \in Nat \ {0} /\ t # << >>
  BY <1>1
<1>3. ASSUME NEW i \in DOMAIN t PROVE t[i] \in {a, b} \/ \E j \in DOMAIN s : t[i] = s[j]
  <2>1. i \in 1 .. Len(s) + 1
    BY <1>2
  <2>2. CASE i \in {1, 2}
    BY <1>1, <2>2
  <2>3. CASE i \notin {1, 2}
    <3>1. t[i] = s[i - 1] /\ i - 1 \in DOMAIN s
      BY <1>1, <2>1, <2>3
    <3> QED
      BY <3>1
  <2> QED
    BY <2>2, <2>3
<1> QED
  BY <1>2, <1>3

LEMMA PopOne ==
    ASSUME NEW S, NEW s \in Seq(S) \ {<< >>}, Tail(s) # << >>
    PROVE  /\ Tail(s) \in Seq(S) \ {<< >>}
           /\ \A i \in DOMAIN Tail(s) : \E j \in DOMAIN s : Tail(s)[i] = s[j]
<1>1. Tail(s) \in Seq(S)
  OBVIOUS
<1>2. ASSUME NEW i \in DOMAIN Tail(s) PROVE \E j \in DOMAIN s : Tail(s)[i] = s[j]
  <2>1. Tail(s)[i] = s[i + 1] /\ i + 1 \in DOMAIN s
    OBVIOUS
  <2> QED
    BY <2>1
<1> QED
  BY <1>1, <1>2

(* The table of a folder has only folders below it. *)
LEMMA ListingFolders ==
    ASSUME KeysAreSound, NEW rank, IsRank(rank), NEW c, NEW d \in LevelFolders(Level(c, Listing(c)))
    PROVE  d = c \/ (d \in Folders /\ d \in Directories /\ c \in Directories /\ rank[c] < rank[d])
<1> SUFFICES ASSUME d # c
             PROVE  d \in Folders /\ d \in Directories /\ c \in Directories /\ rank[c] < rank[d]
  OBVIOUS
<1>1. Level(c, Listing(c)).dir = c /\ Level(c, Listing(c)).left = Listing(c)
  BY DEF Level
<1>2. PICK n \in DOMAIN Listing(c) : Listing(c)[n].kind = "folder" /\ d = Listing(c)[n].id
  BY <1>1 DEF LevelFolders
<1>3. << c, n >> \in FolderKeys /\ d = store[<< c, n >>].id
  BY <1>2 DEF Listing, Exists, FolderKeys
<1>4. d \in Folders /\ d \in Directories /\ c \in Directories
  BY <1>3, DirectoriesAre DEF KeysAreSound, FolderKeys
<1>5. rank[<< c, n >>[1]] < rank[store[<< c, n >>].id]
  BY <1>3 DEF IsRank
<1> QED
  BY <1>3, <1>4, <1>5

LEMMA WithoutFolders ==
    ASSUME NEW n
    PROVE  LevelFolders(Level(Top.dir, LeftWithout(n))) \subseteq LevelFolders(Top)
<1>1. /\ Level(Top.dir, LeftWithout(n)).dir = Top.dir
      /\ Level(Top.dir, LeftWithout(n)).left = LeftWithout(n)
  BY DEF Level
<1>2. /\ DOMAIN LeftWithout(n) \subseteq DOMAIN Top.left
      /\ \A m \in DOMAIN LeftWithout(n) : LeftWithout(n)[m] = Top.left[m]
  BY DEF LeftWithout, Restrict
<1> QED
  BY <1>1, <1>2 DEF LevelFolders

LEMMA TopFolders ==
    ASSUME NEW S, job.stack \in Seq(S) \ {<< >>}
    PROVE  LevelFolders(Top) \subseteq FoldersOn(job.stack)
<1>1. 1 \in DOMAIN job.stack
  OBVIOUS
<1> QED
  BY <1>1 DEF Top, FoldersOn

-----------------------------------------------------------------------------
LEMMA CwdPath == \A d : d = cur_cluster => DirPath(d) = DirPath(cur_cluster)
OBVIOUS

LEMMA CwdPathNext == \A d : d = cur_cluster' => DirPath(d)' = DirPath(cur_cluster)'
<1>1. (\A d : d = cur_cluster => DirPath(d) = DirPath(cur_cluster))'
  BY CwdPath, PTL
<1> QED
  BY <1>1

(* A change in c leaves the paths of the directories no deeper than c. *)
LEMMA GrownPaths ==
    ASSUME KeysAreSound, NEW rank, IsRank(rank), NEW c \in Directories, Grown(c, rank)
    PROVE  \A d \in Directories :
              rank[d] <= rank[c] => d \in Directories' /\ DirPath(d)' = DirPath(d)
<1>1. TreeIsSound' /\ rank[c] \in Nat
  BY DEF Grown, TreeIsSound, IsRank
<1>2. \A k \in FolderKeys : rank[store[k].id] <= rank[c] =>
          k \in FolderKeys' /\ store'[k] = store[k]
  BY DEF Grown
<1> QED
  BY <1>1, <1>2, PathKept

LEMMA SamePaths ==
    ASSUME KeysAreSound, NEW rank, IsRank(rank), SameFolders
    PROVE  /\ Directories' = Directories /\ IsRank(rank)'
           /\ \A d \in Directories : DirPath(d)' = DirPath(d)
<1>1. ASSUME NEW d \in Directories
      PROVE  Directories' = Directories /\ IsRank(rank)' /\ Grown(d, rank)
  BY SameFoldersGrown
<1>2. ASSUME NEW d \in Directories PROVE DirPath(d)' = DirPath(d)
  <2>1. rank[d] <= rank[d]
    BY DEF IsRank
  <2> QED
    BY <1>1, <2>1, GrownPaths
<1>3. Root \in Directories
  BY DEF Directories
<1> QED
  BY <1>1, <1>2, <1>3

(* A step of a command that writes or deletes in c, which is the shell's   *)
(* directory or deeper.                                                    *)
LEMMA WorkStep ==
    ASSUME TreeInv, NEW rank, IsRank(rank), WorksBelow(rank), UNCHANGED shellState,
           cur_cluster \in Directories, NEW c \in Directories, rank[cur_cluster] <= rank[c],
           Grown(c, rank), job'.pc \in {"refresh", "astray", "next", "write", "remove"},
           Stacked' => /\ Stacked /\ job'.dest = job.dest
                       /\ \E S : job'.stack \in Seq(S) \ {<< >>}
                       /\ FoldersOn(job'.stack) \subseteq FoldersOn(job.stack)
    PROVE  TreeInv'
<1>1. UNCHANGED << cur_cluster, cur_dir, cwd_table >>
  BY DEF shellState
<1>2. KeysAreSound
  BY DEF TreeInv
<1>3. cur_cluster \in Directories' /\ \A d : d = cur_cluster => DirPath(d)' = DirPath(d)
  BY <1>2, GrownPaths
<1>4. PathNamesCwd'
  <2>1. DirPath(cur_cluster) = LeafFirst(cur_dir)
    BY DEF TreeInv, PathNamesCwd
  <2>2. \A d : d = cur_cluster => DirPath(d) = LeafFirst(cur_dir)
    BY <2>1
  <2>3. DirPath(cur_cluster)' = LeafFirst(cur_dir')
    BY <1>1, <1>3, <2>2, CwdPathNext
  <2> QED
    BY <2>3 DEF PathNamesCwd
<1>5. StackIsSound'
  BY <1>1, <1>3 DEF TreeInv, StackIsSound
<1>6. PICK r : /\ IsRank(r)'
               /\ \A d \in Directories' :
                     IF d \in Directories THEN r[d] = rank[d] ELSE rank[c] <= r[d]
  BY DEF Grown
<1>7. ASSUME Stacked', NEW d \in JobFolders' \cap Directories'
      PROVE  r[cur_cluster] <= r[d]
  <2>1. JobFolders' \subseteq JobFolders /\ Stacked
    BY <1>7 DEF JobFolders
  <2>2. r[cur_cluster] = rank[cur_cluster] /\ rank[cur_cluster] \in Nat /\ rank[c] \in Nat
    BY <1>3, <1>6 DEF IsRank
  <2>3. CASE d \in Directories
    <3>1. rank[cur_cluster] <= rank[d]
      BY <2>1, <2>3, <1>7 DEF WorksBelow
    <3> QED
      BY <1>6, <2>2, <2>3, <3>1
  <2>4. CASE d \notin Directories
    <3>1. rank[c] <= r[d] /\ r[d] \in Nat
      BY <1>6, <2>4 DEF IsRank
    <3> QED
      BY <2>2, <3>1
  <2> QED
    BY <2>3, <2>4
<1>8. WorksBelow(r)'
  BY <1>1, <1>7 DEF WorksBelow
<1>9. CdIsSound' /\ CwdIsSound'
  BY <1>1, <1>3 DEF TreeInv, CdIsSound, CwdIsSound
<1>10. KeysAreSound'
  BY DEF Grown
<1> QED
  BY <1>4, <1>5, <1>6, <1>8, <1>9, <1>10 DEF TreeInv

(* A step that leaves the store alone, and no copy in progress. *)
LEMMA ShellStep ==
    ASSUME TreeInv, store' = store, ~Stacked', CdIsSound',
           job'.pc \in {"idle", "refresh", "astray", "cd", "report"},
           cur_cluster' \in Directories \cup {BootCluster, FileData},
           DOMAIN cwd_table'.entry \subseteq Names, \E S : cur_dir' \in Seq(S),
           \A d \in Directories : d = cur_cluster' => DirPath(d) = LeafFirst(cur_dir')
    PROVE  TreeInv'
<1>1. PICK rank : IsRank(rank)
  BY DEF TreeInv
<1>2. KeysAreSound /\ SameFolders
  BY UnchangedFolders DEF TreeInv
<1>3. /\ Directories' = Directories /\ IsRank(rank)' /\ KeysAreSound'
      /\ \A d \in Directories : DirPath(d)' = DirPath(d)
  BY <1>1, <1>2, SamePaths DEF SameFolders
<1>4. PathNamesCwd'
  <2>1. ASSUME cur_cluster' \in Directories PROVE DirPath(cur_cluster)' = LeafFirst(cur_dir')
    BY <1>3, <2>1, CwdPathNext
  <2> QED
    BY <1>3, <2>1 DEF PathNamesCwd
<1>5. StackIsSound' /\ WorksBelow(rank)'
  BY DEF StackIsSound, WorksBelow
<1>6. CwdIsSound'
  BY <1>3 DEF CwdIsSound
<1> QED
  BY <1>3, <1>4, <1>5, <1>6 DEF TreeInv

(* A step of a copy that leaves the store alone: what it will work in now  *)
(* is below what it worked in.                                             *)
LEMMA CopyStep ==
    ASSUME TreeInv, NEW rank, IsRank(rank), store' = store, UNCHANGED shellState,
           cur_cluster \in Directories, job'.pc \in {"next", "write", "remove"},
           job'.dest \in Answers, \E S : job'.stack \in Seq(S) \ {<< >>},
           FoldersOn(job'.stack) \subseteq {Root} \cup Folders,
           \A d \in ({job'.dest} \cup FoldersOn(job'.stack)) \cap Directories :
               rank[cur_cluster] <= rank[d]
    PROVE  TreeInv'
<1>1. UNCHANGED << cur_cluster, cur_dir, cwd_table >>
  BY DEF shellState
<1>2. KeysAreSound /\ SameFolders
  BY UnchangedFolders DEF TreeInv
<1>3. /\ Directories' = Directories /\ IsRank(rank)' /\ KeysAreSound'
      /\ \A d \in Directories : DirPath(d)' = DirPath(d)
  BY <1>2, SamePaths DEF SameFolders
<1>4. PathNamesCwd'
  <2>1. \A d : d = cur_cluster => DirPath(d) = LeafFirst(cur_dir)
    BY DEF TreeInv, PathNamesCwd
  <2>2. DirPath(cur_cluster)' = LeafFirst(cur_dir')
    BY <1>1, <1>3, <2>1, CwdPathNext
  <2> QED
    BY <2>2 DEF PathNamesCwd
<1>5. StackIsSound' /\ WorksBelow(rank)'
  BY <1>1, <1>3 DEF StackIsSound, WorksBelow, JobFolders
<1>6. CwdIsSound' /\ CdIsSound'
  BY <1>1, <1>3 DEF TreeInv, CwdIsSound, CdIsSound
<1> QED
  BY <1>3, <1>4, <1>5, <1>6 DEF TreeInv

-----------------------------------------------------------------------------
LEMMA PathType ==
    ASSUME TreeIsSound
    PROVE  \A d \in Directories : DirPath(d) \in Seq(Names \cup {RootName}) \ {<< >>}
<1>1. PICK rank : KeysAreSound /\ IsRank(rank)
  BY DEF TreeIsSound
<1> DEFINE P == Seq(Names \cup {RootName}) \ {<< >>}
           S == {rank[d] : d \in {x \in Directories : DirPath(x) \notin P}}
<1> SUFFICES ASSUME S # {} PROVE FALSE
  OBVIOUS
<1>0. S \subseteq Nat
  BY <1>1 DEF IsRank
<1>2. PICK i \in S : \A j \in S : i <= j
  <2> HIDE DEF S
  <2> QED
    BY <1>0, LeastNat
<1>3. PICK d \in Directories : DirPath(d) \notin P /\ i = rank[d]
  BY <1>2
<1>4. DirPath(Root) \in P
  <2>1. << RootName >> \in Seq(Names \cup {RootName}) /\ << RootName >> # << >>
    OBVIOUS
  <2>2. DirPath(Root) = << RootName >>
    BY PathsAre
  <2> QED
    BY <2>1, <2>2, Zenon
<1>5. PICK k \in FolderKeys : d = store[k].id
  BY <1>3, <1>4, DirectoriesAre
<1>6. k[1] \in Directories /\ k[2] \in Names
  BY <1>1 DEF KeysAreSound, FolderKeys, Keys
<1>7. rank[k[1]] < rank[d] /\ rank[k[1]] \in Nat /\ rank[d] \in Nat
  BY <1>1, <1>5, <1>6 DEF IsRank
<1>8. DirPath(k[1]) \in P
  <2>1. rank[k[1]] \notin S
    <3> HIDE DEF S
    <3> QED
      BY <1>0, <1>2, <1>3, <1>7
  <2> QED
    BY <1>6, <2>1
<1>9. DirPath(d) = << k[2] >> \o DirPath(k[1])
  BY <1>5, PathsAre
<1> QED
  BY <1>3, <1>6, <1>8, <1>9

(* The path of the prompt, one folder longer and one folder shorter. *)
LEMMA LeafFirstIs ==
    ASSUME NEW S, NEW s \in Seq(S)
    PROVE  /\ LeafFirst(s) \in Seq(S \cup {RootName}) /\ Len(LeafFirst(s)) = Len(s) + 1
           /\ \A i \in 1 .. Len(s) : LeafFirst(s)[i] = s[Len(s) + 1 - i]
           /\ LeafFirst(s)[Len(s) + 1] = RootName
<1> DEFINE r == Reverse(s)
<1>1. r = [i \in 1 .. Len(s) |-> s[Len(s) - i + 1]]
  BY DEF Reverse
<1>2. \A i \in 1 .. Len(s) : r[i] \in S /\ r[i] = s[Len(s) + 1 - i]
  BY <1>1
<1>3. r \in Seq(S \cup {RootName}) /\ Len(r) = Len(s)
  BY <1>1, <1>2
<1> HIDE DEF r
<1>4. LeafFirst(s) = Append(r, RootName)
  BY DEF LeafFirst, r
<1> QED
  BY <1>2, <1>3, <1>4

LEMMA LeafFirstOfNone == LeafFirst(<< >>) = << RootName >> /\ \E S : << >> \in Seq(S)
<1>1. << >> \in Seq({}) /\ Len(<< >>) = 0
  OBVIOUS
<1>2. PICK s : s = << >>
  OBVIOUS
<1>3. s \in Seq({}) /\ Len(s) = 0 /\ Len(s) + 1 = 1
  BY <1>1, <1>2
<1>4. /\ LeafFirst(s) \in Seq({} \cup {RootName}) /\ Len(LeafFirst(s)) = Len(s) + 1
      /\ LeafFirst(s)[Len(s) + 1] = RootName
  BY <1>3, LeafFirstIs
<1>5. LeafFirst(s) = << RootName >>
  BY <1>3, <1>4
<1> QED
  BY <1>1, <1>2, <1>5, Zenon

LEMMA LeafFirstLonger ==
    ASSUME NEW S, NEW s \in Seq(S), NEW x
    PROVE  /\ Append(s, x) \in Seq(S \cup {x})
           /\ LeafFirst(Append(s, x)) = << x >> \o LeafFirst(s)
<1> DEFINE t == Append(s, x)
           a == LeafFirst(t)
           b == LeafFirst(s)
           c == << x >> \o b
<1>1. /\ t \in Seq(S \cup {x}) /\ Len(t) = Len(s) + 1 /\ Len(s) \in Nat /\ t[Len(s) + 1] = x
      /\ \A i \in 1 .. Len(s) : t[i] = s[i]
  OBVIOUS
<1>2. /\ a \in Seq((S \cup {x}) \cup {RootName}) /\ Len(a) = Len(t) + 1
      /\ \A i \in 1 .. Len(t) : a[i] = t[Len(t) + 1 - i]
      /\ a[Len(t) + 1] = RootName
  BY <1>1, LeafFirstIs
<1>3. /\ b \in Seq(S \cup {RootName}) /\ Len(b) = Len(s) + 1
      /\ \A i \in 1 .. Len(s) : b[i] = s[Len(s) + 1 - i]
      /\ b[Len(s) + 1] = RootName
  BY LeafFirstIs
<1> HIDE DEF t, a, b
<1>4. /\ c \in Seq((S \cup {x}) \cup {RootName}) /\ Len(c) = Len(s) + 2 /\ c[1] = x
      /\ \A i \in 1 .. Len(s) + 1 : c[i + 1] = b[i]
  BY <1>1, <1>3
<1> HIDE DEF c
<1>5. ASSUME NEW i \in 1 .. Len(s) + 2 PROVE a[i] = c[i]
  <2>1. CASE i = 1
    BY <1>1, <1>2, <1>4, <2>1
  <2>2. CASE i # 1 /\ i # Len(s) + 2
    <3>1. PICK j : j = i - 1
      OBVIOUS
    <3>2. /\ i \in 1 .. Len(t) /\ j \in 1 .. Len(s) /\ j \in 1 .. Len(s) + 1 /\ j + 1 = i
          /\ Len(s) + 1 - j = Len(t) + 1 - i /\ Len(t) + 1 - i \in 1 .. Len(s)
      BY <1>1, <2>2, <3>1
    <3>3. a[i] = t[Len(t) + 1 - i] /\ t[Len(t) + 1 - i] = s[Len(t) + 1 - i]
      BY <1>1, <1>2, <3>2, Zenon
    <3>4. b[j] = s[Len(s) + 1 - j] /\ c[j + 1] = b[j]
      BY <1>3, <1>4, <3>2, Zenon
    <3> QED
      BY <3>2, <3>3, <3>4, Zenon
  <2>3. CASE i = Len(s) + 2
    <3>1. Len(t) + 1 = i /\ Len(s) + 1 \in 1 .. Len(s) + 1 /\ (Len(s) + 1) + 1 = i
      BY <1>1, <2>3
    <3>2. a[i] = RootName
      BY <1>2, <3>1, Zenon
    <3>3. c[(Len(s) + 1) + 1] = b[Len(s) + 1]
      BY <1>4, <3>1, Zenon
    <3> QED
      BY <1>3, <3>1, <3>2, <3>3, Zenon
  <2> QED
    BY <2>1, <2>2, <2>3
<1>6. Len(a) = Len(s) + 2
  BY <1>1, <1>2
<1>7. a = c
  BY <1>1, <1>2, <1>4, <1>5, <1>6
<1> QED
  BY <1>1, <1>7 DEF a, b, c, t

LEMMA TailOfCons == ASSUME NEW S, NEW s \in Seq(S), NEW x PROVE Tail(<< x >> \o s) = s
OBVIOUS

LEMMA LeafFirstShorter ==
    ASSUME NEW S, NEW s \in Seq(S), NEW P, NEW p \in Seq(P) \ {<< >>}, NEW x,
           LeafFirst(s) = << x >> \o p
    PROVE  RemovePath(s) \in Seq(S) /\ LeafFirst(RemovePath(s)) = p
<1> DEFINE r == RemovePath(s)
           y == s[Len(s)]
<1>1. Len(<< x >> \o p) = Len(p) + 1 /\ Len(p) \in Nat \ {0} /\ Len(s) \in Nat
  OBVIOUS
<1>2. Len(s) # 0
  <2>1. Len(LeafFirst(s)) = Len(s) + 1
    BY LeafFirstIs
  <2> QED
    BY <1>1, <2>1
<1>3. r \in Seq(S) /\ s = Append(r, y)
  BY <1>1, <1>2 DEF RemovePath
<1> HIDE DEF r, y
<1>4. LeafFirst(s) = << y >> \o LeafFirst(r)
  BY <1>3, LeafFirstLonger
<1>5. LeafFirst(r) \in Seq(S \cup {RootName})
  BY <1>3, LeafFirstIs
<1>6. Tail(<< y >> \o LeafFirst(r)) = LeafFirst(r) /\ Tail(<< x >> \o p) = p
  BY <1>5, TailOfCons
<1>7. LeafFirst(r) = p
  BY <1>4, <1>6, Zenon
<1> QED
  BY <1>3, <1>7 DEF r

LEMMA TableNames == \A c : DOMAIN TableOf(c).entry \subseteq Names
BY DEF TableOf, Listing

(* The steps of the shell outside of a copy. *)
LEMMA MkdirStep ==
    ASSUME TreeInv, NEW n \in Names, Mkdir(n) PROVE TreeInv'
<1>1. PICK rank : IsRank(rank) /\ WorksBelow(rank)
  BY DEF TreeInv
<1>2. cur_cluster \in Directories /\ << cur_cluster, n >> \notin DOMAIN store
  BY DEF Mkdir, AtPrompt, WriteSucceeds, Exists
<1>3. PICK id \in Folders \ FolderIds : Add(<< cur_cluster, n >>, FolderOf(id))
  BY DEF Mkdir, NewFolder, MakeFolder
<1>4. Grown(cur_cluster, rank)
  BY <1>1, <1>2, <1>3, FolderAdded DEF TreeInv
<1>5. job'.pc = "refresh" /\ UNCHANGED shellState
  BY DEF Mkdir, Refresh
<1>6. rank[cur_cluster] <= rank[cur_cluster]
  BY <1>1, <1>2 DEF IsRank
<1> QED
  BY <1>1, <1>2, <1>4, <1>5, <1>6, WorkStep DEF Stacked

LEMMA RmStep ==
    ASSUME TreeInv, NEW n \in Names, Rm(n) PROVE TreeInv'
<1>1. PICK rank : IsRank(rank) /\ WorksBelow(rank)
  BY DEF TreeInv
<1>2. cur_cluster \in Directories /\ rank[cur_cluster] <= rank[cur_cluster]
  BY <1>1 DEF Rm, AtPrompt, IsRank
<1>3. SameFolders
  <2>1. << Root, n >> \in DOMAIN store => store[<< Root, n >>].kind # "folder"
    BY DEF Rm
  <2>2. CASE store' = store
    BY <2>2, UnchangedFolders DEF TreeInv
  <2>3. CASE Delete(<< Root, n >>)
    BY <2>1, <2>3, FileDeleted DEF TreeInv
  <2> QED
    BY <2>2, <2>3 DEF Rm, RemoveTwice, storeVars
<1>4. Grown(cur_cluster, rank)
  BY <1>1, <1>2, <1>3, SameFoldersGrown
<1>5. job'.pc = "refresh" /\ UNCHANGED shellState
  BY DEF Rm, Refresh
<1> QED
  BY <1>1, <1>2, <1>4, <1>5, WorkStep DEF Stacked

(* .. removes the name that the path ends with. *)
LEMMA CdUpStep ==
    ASSUME ListingInv, TreeInv, CdUp PROVE TreeInv'
<1>1. /\ cur_cluster \in Directories /\ cur_cluster # Root /\ AtPrompt
      /\ cur_cluster' = cwd_table.parent /\ cwd_table' = TableOf(cwd_table.parent)
      /\ cur_dir' = RemovePath(cur_dir) /\ job'.pc = "refresh" /\ store' = store
  BY DEF CdUp, AtPrompt, UpdateShellDir, Refresh, storeVars
<1>2. PICK k \in FolderKeys : cur_cluster = store[k].id
  BY <1>1, DirectoriesAre
<1>3. cwd_table.parent = k[1] /\ k[1] \in Directories /\ k[2] \in Names
  BY <1>1, <1>2, ParentIs DEF ListingInv, TableOf, TreeInv, KeysAreSound, FolderKeys, Keys
<1>4. DirPath(cur_cluster) = << k[2] >> \o DirPath(k[1])
  BY <1>2, PathsAre, TreeIs
<1>5. DirPath(cur_cluster) = LeafFirst(cur_dir)
  BY <1>1 DEF TreeInv, PathNamesCwd
<1>6. DirPath(k[1]) \in Seq(Names \cup {RootName}) \ {<< >>}
  BY <1>3, PathType, TreeIs
<1>7. LeafFirst(RemovePath(cur_dir)) = DirPath(k[1]) /\ \E S : RemovePath(cur_dir) \in Seq(S)
  <2>1. PICK S : cur_dir \in Seq(S)
    BY DEF TreeInv, CwdIsSound
  <2>2. PICK p : p = DirPath(k[1])
    OBVIOUS
  <2>3. LeafFirst(cur_dir) = << k[2] >> \o p
    BY <1>4, <1>5, <2>2, Zenon
  <2>4. p \in Seq(Names \cup {RootName}) \ {<< >>}
    BY <1>6, <2>2, Zenon
  <2>5. RemovePath(cur_dir) \in Seq(S) /\ LeafFirst(RemovePath(cur_dir)) = p
    BY <2>1, <2>3, <2>4, LeafFirstShorter, Zenon
  <2> QED
    BY <2>2, <2>5, Zenon
<1>8. cur_cluster' = k[1] /\ DOMAIN cwd_table'.entry \subseteq Names
  BY <1>1, <1>3, TableNames
<1>9. /\ \A d \in Directories : d = cur_cluster' => DirPath(d) = LeafFirst(cur_dir')
      /\ \E S : cur_dir' \in Seq(S)
  BY <1>1, <1>7, <1>8
<1>10. CdIsSound' /\ ~Stacked'
  BY <1>1 DEF CdIsSound, Stacked
<1> QED
  BY <1>1, <1>3, <1>8, <1>9, <1>10, ShellStep

LEMMA CdStepKeeps ==
    ASSUME TreeInv, CdStep PROVE TreeInv'
<1> DEFINE n == Head(job.path)
           c == FindCluster(job.at, n)
<1>1. /\ job.pc = "cd" /\ store' = store
      /\ IF c = NOT_FOUND THEN UNCHANGED shellState ELSE UpdateShellDir(c, AddPath(cur_dir, n))
      /\ job' = IF Len(job.path) = 1 THEN Refresh
                ELSE [job EXCEPT !.at = c, !.path = Tail(@)]
  BY DEF CdStep, storeVars
<1>2. /\ {"at", "path"} \subseteq DOMAIN job
      /\ job.at \in Directories => cur_cluster = job.at
  BY <1>1 DEF TreeInv, CdIsSound
<1>3. c \in Directories =>
         /\ n # NoName /\ job.at \in Directories
         /\ << job.at, n >> \in FolderKeys /\ c = store[<< job.at, n >>].id
  BY FindGoesDown DEF TreeInv
<1>4. c = NOT_FOUND \/ c \in Directories \cup {BootCluster, FileData}
  BY DirectoriesAre DEF FindCluster, ClusterOf, Exists, FolderKeys, TreeInv, StoreInv
<1>5. NOT_FOUND \notin Directories
  BY DirectoriesAre, FileCommandsAssumption DEF TreeInv, KeysAreSound, FolderKeys
<1> HIDE DEF c, n
<1>6. job'.pc \in {"refresh", "cd"} /\ ~Stacked'
  BY <1>1 DEF Refresh, Stacked
<1>7. job'.pc = "cd" => {"at", "path"} \subseteq DOMAIN job' /\ job'.at = c
  BY <1>1, <1>2 DEF Refresh
<1>8. CASE c = NOT_FOUND
  <2>1. UNCHANGED << cur_cluster, cur_dir, cwd_table >>
    BY <1>1, <1>8 DEF shellState
  <2>2. CdIsSound'
    <3>1. Directories' = Directories
      BY <1>1 DEF Directories, FolderIds
    <3> QED
      BY <1>5, <1>7, <1>8, <3>1 DEF CdIsSound
  <2>3. \A d \in Directories : d = cur_cluster' => DirPath(d) = LeafFirst(cur_dir')
    BY <2>1 DEF TreeInv, PathNamesCwd
  <2> QED
    BY <1>1, <1>6, <2>1, <2>2, <2>3, ShellStep DEF TreeInv, CwdIsSound
<1>9. CASE c # NOT_FOUND
  <2>1. cur_cluster' = c /\ cwd_table' = TableOf(c) /\ cur_dir' = AddPath(cur_dir, n)
    BY <1>1, <1>9 DEF UpdateShellDir
  <2>2. CdIsSound'
    BY <1>7, <2>1 DEF CdIsSound
  <2>0. PICK S : cur_dir \in Seq(S)
    BY DEF TreeInv, CwdIsSound
  <2>3. ASSUME c \in Directories PROVE DirPath(c) = LeafFirst(cur_dir')
    <3> DEFINE k == << job.at, n >>
    <3>1. k \in FolderKeys /\ c = store[k].id /\ cur_cluster = job.at /\ n # NoName
          /\ k[1] = cur_cluster /\ k[2] = n /\ cur_cluster \in Directories
      BY <1>2, <1>3, <2>3
    <3> HIDE DEF k
    <3>2. DirPath(c) = << k[2] >> \o DirPath(k[1])
      BY <3>1, PathsAre, TreeIs
    <3>3. DirPath(cur_cluster) = LeafFirst(cur_dir)
      BY <3>1 DEF TreeInv, PathNamesCwd
    <3>4. LeafFirst(Append(cur_dir, n)) = << n >> \o LeafFirst(cur_dir)
      BY <2>0, LeafFirstLonger
    <3>5. cur_dir' = Append(cur_dir, n)
      BY <2>1, <3>1 DEF AddPath
    <3> QED
      BY <3>1, <3>2, <3>3, <3>4, <3>5
  <2>5. \E R : cur_dir' \in Seq(R)
    BY <2>0, <2>1, LeafFirstLonger DEF AddPath
  <2>4. DOMAIN cwd_table'.entry \subseteq Names
    BY <2>1, TableNames
  <2> QED
    BY <1>1, <1>4, <1>6, <1>9, <2>1, <2>2, <2>3, <2>4, <2>5, ShellStep
<1> QED
  BY <1>8, <1>9

-----------------------------------------------------------------------------
(* The steps of cp and mv. *)
LEMMA CopyStarts ==
    ASSUME ListingInv, TreeInv, NEW n \in Names, NEW path \in Paths,
           NEW move \in BOOLEAN, Transfer(n, path, move)
    PROVE  TreeInv'
<1>1. PICK rank : IsRank(rank) /\ WorksBelow(rank)
  BY DEF TreeInv
<1>2. /\ cur_cluster \in Directories /\ store' = store /\ UNCHANGED shellState
      /\ cwd_table = TableOf(cur_cluster)
  BY DEF Transfer, AtPrompt, ListingInv, storeVars
<1>3. KeysAreSound /\ rank[cur_cluster] \in Nat /\ Directories \subseteq {Root} \cup Folders
  BY <1>1, <1>2, DirectoriesAre DEF TreeInv, IsRank, KeysAreSound, FolderKeys
<1> DEFINE folder == n \in DOMAIN cwd_table.entry /\ cwd_table.entry[n].kind = "folder"
           item   == cwd_table.entry[n]
           l      == IF folder THEN Level(item.id, Listing(item.id))
                     ELSE Level(cur_cluster, [m \in {n} |-> FileOf(Garbage, 1)])
<1>4. job'.pc = "next" /\ job'.dest = LastCluster(path) /\ job'.stack = << l >>
  BY DEF Transfer
<1>5. LevelFolders(l) \subseteq {Root} \cup Folders
      /\ \A d \in LevelFolders(l) \cap Directories : rank[cur_cluster] <= rank[d]
  <2>1. CASE folder
    <3> DEFINE k == << cur_cluster, n >>
    <3>1. k \in FolderKeys /\ item = store[k]
      BY <1>2, <2>1 DEF TableOf, Listing, Exists, FolderKeys
    <3>2. rank[cur_cluster] < rank[item.id] /\ item.id \in Directories
      BY <1>1, <3>1, DirectoriesAre DEF IsRank
    <3>3. rank[item.id] \in Nat
      BY <1>1, <3>2 DEF IsRank
    <3> HIDE DEF k, item
    <3>4. l = Level(item.id, Listing(item.id))
      BY <2>1
    <3>5. ASSUME NEW d \in LevelFolders(l)
          PROVE  d \in {Root} \cup Folders /\ (d \in Directories => rank[cur_cluster] <= rank[d])
      <4>1. d = item.id \/ (d \in Folders /\ d \in Directories /\ rank[item.id] < rank[d])
        BY <1>1, <1>3, <3>4, ListingFolders
      <4>2. d \in Directories => rank[d] \in Nat
        BY <1>1 DEF IsRank
      <4> QED
        BY <1>3, <3>2, <3>3, <4>1, <4>2
    <3> QED
      BY <3>5
  <2>2. CASE ~folder
    <3>1. LevelFolders(Level(cur_cluster, [m \in {n} |-> FileOf(Garbage, 1)])) = {cur_cluster}
      BY DEF LevelFolders, Level, FileOf
    <3> QED
      BY <1>2, <1>3, <2>2, <3>1
  <2> QED
    BY <2>1, <2>2
<1> HIDE DEF l
<1>6. FoldersOn(job'.stack) = LevelFolders(l) /\ \E S : job'.stack \in Seq(S) \ {<< >>}
  <2>1. << l >> \in Seq({l}) \ {<< >>}
    OBVIOUS
  <2>2. FoldersOn(<< l >>) = LevelFolders(l)
    BY DEF FoldersOn
  <2> QED
    BY <1>4, <2>1, <2>2
<1>7. LastCluster(path) \in Directories => rank[cur_cluster] <= rank[LastCluster(path)]
  <2>1. Len(path) \in Nat
    BY FileCommandsAssumption
  <2> QED
    BY <1>1, <1>2, <1>3, <2>1, LastIsBelow
<1>8. LastCluster(path) \in Answers
  BY <1>2, <1>3, FileCommandsAssumption, LastIsAnswer
<1> QED
  BY <1>1, <1>2, <1>4, <1>5, <1>6, <1>7, <1>8, CopyStep

LEMMA EnterStep ==
    ASSUME JobShape, TreeInv, NEW n \in Names, EnterFolder(n) PROVE TreeInv'
<1>1. PICK rank : IsRank(rank) /\ WorksBelow(rank)
  BY DEF TreeInv
<1> DEFINE id == Top.left[n].id
           a  == Level(id, Listing(id))
           b  == Level(Top.dir, LeftWithout(n))
<1>2. /\ job.pc = "next" /\ store' = store /\ UNCHANGED shellState
      /\ n \in DOMAIN Top.left /\ Top.left[n].kind = "folder"
      /\ job' = [job EXCEPT !.stack = << a, b >> \o Tail(job.stack)]
  BY DEF EnterFolder, Rest, storeVars
<1>3. /\ cur_cluster \in Directories /\ FoldersOn(job.stack) \subseteq {Root} \cup Folders
      /\ job.dest \in Answers
      /\ \A c \in JobFolders \cap Directories : rank[cur_cluster] <= rank[c]
  BY <1>1, <1>2 DEF TreeInv, StackIsSound, Stacked, WorksBelow
<1>4. PICK S : job.stack \in Seq(S) \ {<< >>}
  BY <1>2 DEF TreeInv, StackIsSound, Stacked
<1>5. /\ LevelFolders(Top) \subseteq FoldersOn(job.stack)
      /\ LevelFolders(b) \subseteq LevelFolders(Top)
      /\ id \in LevelFolders(Top)
  BY <1>2, <1>4, TopFolders, WithoutFolders DEF LevelFolders
<1>6. \A d \in LevelFolders(a) :
         d = id \/ (d \in Folders /\ d \in Directories /\ id \in Directories /\ rank[id] < rank[d])
  BY <1>1, ListingFolders DEF TreeInv
<1> HIDE DEF a, b, id
<1>7. /\ job'.pc = "next" /\ job'.dest = job.dest
      /\ job'.stack = << a, b >> \o Tail(job.stack)
  BY <1>2 DEF JobShape
<1>8. /\ \E R : job'.stack \in Seq(R) \ {<< >>}
      /\ \A i \in DOMAIN job'.stack :
            job'.stack[i] \in {a, b} \/ \E j \in DOMAIN job.stack : job'.stack[i] = job.stack[j]
  BY <1>4, <1>7, PushTwo
<1>9. FoldersOn(job'.stack) \subseteq LevelFolders(a) \cup FoldersOn(job.stack)
  BY <1>5, <1>8 DEF FoldersOn
<1>10. LevelFolders(a) \subseteq {Root} \cup Folders
  BY <1>3, <1>5, <1>6
<1>11. ASSUME NEW d \in ({job'.dest} \cup FoldersOn(job'.stack)) \cap Directories
       PROVE  rank[cur_cluster] <= rank[d]
  <2>1. CASE d \in JobFolders
    BY <1>3, <2>1
  <2>2. CASE d \in LevelFolders(a) /\ d # id
    <3>1. id \in Directories /\ rank[id] < rank[d]
      BY <1>6, <2>2
    <3>2. rank[cur_cluster] <= rank[id]
      BY <1>3, <1>5, <3>1 DEF JobFolders
    <3>3. rank[id] \in Nat /\ rank[cur_cluster] \in Nat /\ rank[d] \in Nat
      BY <1>1, <1>3, <3>1 DEF IsRank
    <3> QED
      BY <3>1, <3>2, <3>3
  <2>3. id \in JobFolders
    BY <1>5 DEF JobFolders
  <2> QED
    BY <1>7, <1>9, <2>1, <2>2, <2>3 DEF JobFolders
<1> QED
  BY <1>1, <1>2, <1>3, <1>7, <1>8, <1>9, <1>10, <1>11, CopyStep

LEMMA LeaveStep ==
    ASSUME JobShape, TreeInv, LeaveFolder PROVE TreeInv'
<1>1. PICK rank : IsRank(rank) /\ WorksBelow(rank)
  BY DEF TreeInv
<1>2. /\ job.pc = "next" /\ store' = store /\ UNCHANGED shellState
      /\ job' = IF Tail(job.stack) = << >> THEN [job EXCEPT !.pc = "report"]
                ELSE [job EXCEPT !.stack = Tail(job.stack)]
  BY DEF LeaveFolder, Rest, storeVars
<1>3. /\ cur_cluster \in Directories /\ FoldersOn(job.stack) \subseteq {Root} \cup Folders
      /\ job.dest \in Answers
      /\ \A c \in JobFolders \cap Directories : rank[cur_cluster] <= rank[c]
  BY <1>1, <1>2 DEF TreeInv, StackIsSound, Stacked, WorksBelow
<1>4. CASE Tail(job.stack) = << >>
  <2>1. job'.pc = "report" /\ ~Stacked' /\ CdIsSound'
    BY <1>2, <1>4 DEF JobShape, Stacked, CdIsSound
  <2>2. UNCHANGED << cur_cluster, cur_dir, cwd_table >>
    BY <1>2 DEF shellState
  <2>3. \A d \in Directories : d = cur_cluster' => DirPath(d) = LeafFirst(cur_dir')
    BY <2>2 DEF TreeInv, PathNamesCwd
  <2> QED
    BY <1>2, <2>1, <2>2, <2>3, ShellStep DEF TreeInv, CwdIsSound
<1>5. CASE Tail(job.stack) # << >>
  <2>1. PICK S : job.stack \in Seq(S) \ {<< >>}
    BY <1>2 DEF TreeInv, StackIsSound, Stacked
  <2>2. job'.pc = "next" /\ job'.dest = job.dest /\ job'.stack = Tail(job.stack)
    BY <1>2, <1>5 DEF JobShape
  <2>3. /\ job'.stack \in Seq(S) \ {<< >>}
        /\ \A i \in DOMAIN job'.stack : \E j \in DOMAIN job.stack : job'.stack[i] = job.stack[j]
    BY <1>5, <2>1, <2>2, PopOne
  <2>4. FoldersOn(job'.stack) \subseteq FoldersOn(job.stack)
    BY <2>3 DEF FoldersOn
  <2> QED
    BY <1>1, <1>2, <1>3, <2>2, <2>3, <2>4, CopyStep DEF JobFolders
<1> QED
  BY <1>4, <1>5

(* A directory that a copy works in, or else no folder comes or goes. *)
LEMMA JobStep ==
    ASSUME TreeInv, Stacked, NEW rank, IsRank(rank), WorksBelow(rank), UNCHANGED shellState,
           NEW c \in JobFolders, SameFolders \/ (c \in Directories /\ Grown(c, rank)),
           job'.pc \in {"next", "write", "remove"}, job'.dest = job.dest,
           \E S : job'.stack \in Seq(S) \ {<< >>},
           FoldersOn(job'.stack) \subseteq FoldersOn(job.stack)
    PROVE  TreeInv'
<1>1. cur_cluster \in Directories /\ rank[cur_cluster] <= rank[cur_cluster]
  BY DEF TreeInv, StackIsSound, IsRank
<1>2. CASE SameFolders
  <2>1. Grown(cur_cluster, rank)
    BY <1>1, <1>2, SameFoldersGrown
  <2> QED
    BY <1>1, <2>1, WorkStep
<1>3. CASE c \in Directories /\ Grown(c, rank)
  <2>1. rank[cur_cluster] <= rank[c]
    BY <1>3 DEF WorksBelow
  <2> QED
    BY <1>1, <1>3, <2>1, WorkStep
<1> QED
  BY <1>2, <1>3

LEMMA BeginStep ==
    ASSUME JobShape, TreeInv, NEW n \in Names, BeginCopy(n) PROVE TreeInv'
<1>1. PICK rank : IsRank(rank) /\ WorksBelow(rank)
  BY DEF TreeInv
<1> DEFINE a == Level(Top.dir, LeftWithout(n))
<1>2. /\ Stacked /\ UNCHANGED shellState /\ RemoveTwice(job.dest, n)
      /\ job'.pc = "write" /\ job'.dest = job.dest /\ job'.stack = << a >> \o Tail(job.stack)
  BY DEF BeginCopy, Stacked, Rest
<1>3. PICK S : job.stack \in Seq(S) \ {<< >>}
  BY <1>2 DEF TreeInv, StackIsSound
<1>4. LevelFolders(a) \subseteq FoldersOn(job.stack)
  BY <1>3, TopFolders, WithoutFolders
<1> HIDE DEF a
<1>5. /\ \E R : job'.stack \in Seq(R) \ {<< >>}
      /\ \A i \in DOMAIN job'.stack :
            job'.stack[i] = a \/ \E j \in DOMAIN job.stack : job'.stack[i] = job.stack[j]
  BY <1>2, <1>3, PushOne
<1>6. FoldersOn(job'.stack) \subseteq FoldersOn(job.stack)
  BY <1>4, <1>5 DEF FoldersOn
<1>7. SameFolders \/ (job.dest \in Directories /\ Grown(job.dest, rank))
  BY <1>1, <1>2, RemoveGrown DEF TreeInv
<1>8. job.dest \in JobFolders
  BY DEF JobFolders
<1> QED
  BY <1>1, <1>2, <1>5, <1>6, <1>7, <1>8, JobStep

LEMMA WriteStep ==
    ASSUME StoreInv, JobShape, TreeInv, WriteCopy \/ WriteFails PROVE TreeInv'
<1>1. PICK rank : IsRank(rank) /\ WorksBelow(rank)
  BY DEF TreeInv
<1>2. Stacked /\ UNCHANGED shellState
  BY DEF WriteCopy, WriteFails, Stacked
<1>3. job'.pc \in {"next", "remove"} /\ job'.dest = job.dest /\ job'.stack = job.stack
  BY DEF WriteCopy, WriteFails, JobShape, AfterWrite
<1>4. SameFolders \/ (job.dest \in Directories /\ Grown(job.dest, rank))
  <2>1. CASE WriteCopy
    BY <1>1, <2>1, CopiedGrown DEF WriteCopy, TreeInv
  <2>2. CASE WriteFails
    BY <2>2, UnchangedFolders DEF WriteFails, storeVars, TreeInv
  <2> QED
    BY <2>1, <2>2
<1>5. \E S : job'.stack \in Seq(S) \ {<< >>}
  BY <1>2, <1>3 DEF TreeInv, StackIsSound
<1>6. job.dest \in JobFolders /\ FoldersOn(job'.stack) \subseteq FoldersOn(job.stack)
  BY <1>3 DEF JobFolders
<1> QED
  BY <1>1, <1>2, <1>3, <1>4, <1>5, <1>6, JobStep

LEMMA CutShortStep ==
    ASSUME StoreInv, JobShape, TreeInv, WriteIsCutShort PROVE TreeInv'
<1>1. PICK rank : IsRank(rank) /\ WorksBelow(rank)
  BY DEF TreeInv
<1>2. Stacked /\ UNCHANGED shellState /\ job'.pc = "astray"
  BY DEF WriteIsCutShort, Stacked, Astray
<1>3. cur_cluster \in Directories /\ rank[cur_cluster] <= rank[cur_cluster]
  BY <1>1, <1>2 DEF TreeInv, StackIsSound, IsRank
<1>4. Grown(cur_cluster, rank)
  BY <1>1, <1>3, CutShortGrown, SameFoldersGrown DEF TreeInv
<1> QED
  BY <1>1, <1>2, <1>3, <1>4, WorkStep DEF Stacked

LEMMA SourceStep ==
    ASSUME JobShape, TreeInv, RemoveSource PROVE TreeInv'
<1>1. PICK rank : IsRank(rank) /\ WorksBelow(rank)
  BY DEF TreeInv
<1>2. Stacked /\ UNCHANGED shellState /\ RemoveTwice(Top.dir, job.file)
  BY DEF RemoveSource, Stacked
<1>3. job'.pc = "next" /\ job'.dest = job.dest /\ job'.stack = job.stack
  BY DEF RemoveSource, JobShape
<1>4. PICK S : job.stack \in Seq(S) \ {<< >>}
  BY <1>2 DEF TreeInv, StackIsSound
<1>5. Top.dir \in JobFolders
  BY <1>4, TopFolders DEF LevelFolders, JobFolders
<1>6. SameFolders \/ (Top.dir \in Directories /\ Grown(Top.dir, rank))
  BY <1>1, <1>2, RemoveGrown DEF TreeInv
<1>7. FoldersOn(job'.stack) \subseteq FoldersOn(job.stack) /\ \E R : job'.stack \in Seq(R) \ {<< >>}
  BY <1>3, <1>4
<1> QED
  BY <1>1, <1>2, <1>3, <1>5, <1>6, <1>7, JobStep

-----------------------------------------------------------------------------
LEMMA TreeStep == CommandsInv /\ TreeInv /\ [CommandsNext]_commandVars => TreeInv'
<1> SUFFICES ASSUME StoreInv, JobShape, ListingInv, TreeInv, [CommandsNext]_commandVars
             PROVE  TreeInv'
  BY DEF CommandsInv
<1>1. ASSUME NEW n \in Names, Mkdir(n) \/ Rm(n) PROVE TreeInv'
  BY <1>1, MkdirStep, RmStep
<1>2. CASE CdUp
  BY <1>2, CdUpStep
<1>3. ASSUME NEW path \in Paths, Cd(path) PROVE TreeInv'
  <2>1. /\ store' = store /\ cur_cluster \in Directories
        /\ UNCHANGED << cur_cluster, cur_dir, cwd_table >>
        /\ job' = [pc |-> "cd", at |-> cur_cluster, path |-> path]
    BY <1>3 DEF Cd, AtPrompt, storeVars, shellState
  <2>2. job'.pc = "cd" /\ CdIsSound' /\ ~Stacked'
    BY <2>1 DEF CdIsSound, Stacked
  <2>3. \A d \in Directories : d = cur_cluster' => DirPath(d) = LeafFirst(cur_dir')
    BY <2>1 DEF TreeInv, PathNamesCwd
  <2> QED
    BY <2>1, <2>2, <2>3, ShellStep DEF TreeInv, CwdIsSound
<1>4. CASE CdStep
  BY <1>4, CdStepKeeps
<1>5. CASE EndCommand
  <2>1. /\ store' = store /\ UNCHANGED << cur_cluster, cur_dir >> /\ job'.pc = "idle"
        /\ DOMAIN cwd_table'.entry \subseteq Names
    BY <1>5, TableNames DEF EndCommand, UpdateShellDir, storeVars, Idle
  <2>2. CdIsSound' /\ ~Stacked'
    BY <2>1 DEF CdIsSound, Stacked
  <2>3. \A d \in Directories : d = cur_cluster' => DirPath(d) = LeafFirst(cur_dir')
    BY <2>1 DEF TreeInv, PathNamesCwd
  <2> QED
    BY <2>1, <2>2, <2>3, ShellStep DEF TreeInv, CwdIsSound
<1>6. CASE GoesAstray \/ Report \/ \E n \in Names : TransferGoesAstray(n)
  <2>1. /\ store' = store /\ UNCHANGED << cur_cluster, cur_dir, cwd_table >>
        /\ job'.pc \in {"astray", "refresh"}
    BY <1>6 DEF GoesAstray, Report, TransferGoesAstray, storeVars, shellState, Astray, Refresh
  <2>2. CdIsSound' /\ ~Stacked'
    BY <2>1 DEF CdIsSound, Stacked
  <2>3. \A d \in Directories : d = cur_cluster' => DirPath(d) = LeafFirst(cur_dir')
    BY <2>1 DEF TreeInv, PathNamesCwd
  <2> QED
    BY <2>1, <2>2, <2>3, ShellStep DEF TreeInv, CwdIsSound
<1>7. CASE Reboot
  <2>1. /\ store' = store /\ cur_cluster' = Root /\ cur_dir' = << >> /\ job'.pc = "idle"
        /\ DOMAIN cwd_table'.entry \subseteq Names
    BY <1>7, TableNames DEF Reboot, Boot, storeVars, Idle
  <2>2. CdIsSound' /\ ~Stacked' /\ Root \in Directories
    BY <2>1 DEF CdIsSound, Stacked, Directories
  <2>3. DirPath(Root) = LeafFirst(<< >>)
    BY PathsAre, TreeIs, LeafFirstOfNone
  <2> QED
    BY <2>1, <2>2, <2>3, LeafFirstOfNone, ShellStep
<1>8. ASSUME NEW n \in Names, NEW path \in Paths, Cp(n, path) \/ Mv(n, path) PROVE TreeInv'
  BY <1>8, CopyStarts DEF Cp, Mv
<1>9. ASSUME NEW n \in Names, EnterFolder(n) PROVE TreeInv'
  BY <1>9, EnterStep
<1>10. CASE LeaveFolder
  BY <1>10, LeaveStep
<1>11. ASSUME NEW n \in Names, BeginCopy(n) PROVE TreeInv'
  BY <1>11, BeginStep
<1>12. CASE WriteCopy \/ WriteFails
  BY <1>12, WriteStep
<1>13. CASE RemoveSource
  BY <1>13, SourceStep
<1>14. CASE UNCHANGED commandVars
  <2>1. /\ store' = store /\ UNCHANGED shellState /\ job' = job
        /\ UNCHANGED << cur_cluster, cur_dir, cwd_table >>
    BY <1>14 DEF commandVars, storeVars, shellState
  <2>2. CASE Stacked
    <3>1. PICK rank : IsRank(rank) /\ WorksBelow(rank)
      BY DEF TreeInv
    <3>2. /\ cur_cluster \in Directories /\ FoldersOn(job.stack) \subseteq {Root} \cup Folders
          /\ job.dest \in Answers /\ \E S : job.stack \in Seq(S) \ {<< >>}
          /\ \A c \in JobFolders \cap Directories : rank[cur_cluster] <= rank[c]
      BY <2>2, <3>1 DEF TreeInv, StackIsSound, WorksBelow
    <3> QED
      BY <2>1, <2>2, <3>1, <3>2, CopyStep DEF Stacked, JobFolders
  <2>3. CASE ~Stacked
    <3>1. job.pc \in {"idle", "refresh", "astray", "cd", "report"}
      BY <2>3 DEF TreeInv, CwdIsSound, Stacked
    <3>2. CdIsSound' /\ ~Stacked'
      <4>1. Directories' = Directories
        BY <2>1 DEF Directories, FolderIds
      <4> QED
        BY <2>1, <2>3, <4>1 DEF TreeInv, CdIsSound, Stacked
    <3>3. \A d \in Directories : d = cur_cluster' => DirPath(d) = LeafFirst(cur_dir')
      BY <2>1 DEF TreeInv, PathNamesCwd
    <3> QED
      BY <2>1, <3>1, <3>2, <3>3, ShellStep DEF TreeInv, CwdIsSound
  <2> QED
    BY <2>2, <2>3
<1>15. CASE WriteIsCutShort
  BY <1>15, CutShortStep
<1> QED
  BY <1>1, <1>2, <1>3, <1>4, <1>5, <1>6, <1>7, <1>8, <1>9, <1>10, <1>11, <1>12, <1>13, <1>14,
     <1>15
     DEF CommandsNext, CommandStep

LEMMA TreeInit == CommandsInit => TreeInv
<1> SUFFICES ASSUME CommandsInit PROVE TreeInv
  OBVIOUS
<1>1. ASSUME NEW k \in DOMAIN store
      PROVE  /\ k \in Keys /\ k[1] = Root /\ store[k].kind = "file"
             /\ Len(store[k].data) \in 1 .. MaxSize
  <2>1. k[1] = Root /\ k[2] \in DOMAIN InitialFiles /\ k \in {Root} \X DOMAIN InitialFiles
        /\ store[k] = FileOf(k[2], InitialFiles[k[2]])
    BY DEF CommandsInit
  <2>2. InitialFiles[k[2]] \in 1 .. MaxSize /\ k \in Keys
    BY <2>1, FileCommandsAssumption DEF Keys
  <2> DEFINE d == [i \in 1 .. InitialFiles[k[2]] |-> Block(k[2], i)]
  <2>3. store[k].kind = "file" /\ store[k].data = d
    BY <2>1 DEF FileOf
  <2>4. Len(d) = InitialFiles[k[2]]
    BY <2>2, FileCommandsAssumption
  <2> QED
    BY <2>1, <2>2, <2>3, <2>4
<1>2. FolderKeys = {}
  BY <1>1 DEF FolderKeys
<1>3. Directories = {Root}
  BY <1>2, DirectoriesAre
<1>4. KeysAreSound
  BY <1>1, <1>2, <1>3 DEF KeysAreSound
<1>5. IsRank([d \in {Root} |-> 0])
  BY <1>2, <1>3 DEF IsRank
<1>6. cur_cluster = Root /\ cur_dir = << >> /\ cwd_table = TableOf(Root) /\ job.pc = "idle"
  BY DEF CommandsInit, Idle
<1>7. PathNamesCwd
  <2>1. DirPath(Root) = LeafFirst(<< >>)
    BY <1>4, <1>5, PathsAre, LeafFirstOfNone DEF TreeIsSound
  <2> QED
    BY <1>6, <2>1 DEF PathNamesCwd
<1>8. WorksBelow([d \in {Root} |-> 0]) /\ StackIsSound /\ CdIsSound
  BY <1>6 DEF WorksBelow, StackIsSound, CdIsSound, Stacked
<1>9. CwdIsSound
  BY <1>3, <1>6, TableNames, LeafFirstOfNone DEF CwdIsSound
<1> QED
  BY <1>4, <1>5, <1>7, <1>8, <1>9 DEF TreeInv

LEMMA TypeFollows == CommandsInv /\ TreeInv => CommandsTypeOK
<1> SUFFICES ASSUME StoreInv, TreeInv PROVE CommandsTypeOK
  BY DEF CommandsInv
<1>1. ASSUME NEW k \in DOMAIN store
      PROVE  /\ k \in Keys /\ k[1] \in Directories
             /\ store[k] \in [kind : {"folder"}, id : Folders]
                   \/ /\ store[k].kind = "file"
                      /\ Len(store[k].data) \in 1 .. MaxSize
  <2>0. k \in Keys /\ k[1] \in Directories
    BY DEF TreeInv, KeysAreSound
  <2>1. CASE store[k].kind = "folder"
    <3>1. store[k] = [kind |-> "folder", id |-> store[k].id] /\ store[k].id \in Folders
      BY <2>1 DEF TreeInv, KeysAreSound, FolderOf
    <3>2. \A id \in Folders : [kind |-> "folder", id |-> id] \in [kind : {"folder"}, id : Folders]
      OBVIOUS
    <3>3. store[k] \in [kind : {"folder"}, id : Folders]
      BY <3>1, <3>2, Zenon
    <3> QED
      BY <2>0, <3>3, Zenon
  <2>2. CASE store[k].kind # "folder"
    <3>1. store[k].kind = "file"
      <4>1. store[k] = [kind |-> "file", data |-> store[k].data]
        BY <2>2 DEF StoreInv, IsFile
      <4>2. \A x, d : x = [kind |-> "file", data |-> d] => x.kind = "file"
        OBVIOUS
      <4> QED
        BY <4>1, <4>2, Zenon
    <3>2. Len(store[k].data) \in 1 .. MaxSize
      BY <3>1 DEF TreeInv, KeysAreSound
    <3> QED
      BY <2>0, <3>1, <3>2, Zenon
  <2> QED
    BY <2>1, <2>2
<1>2. ASSUME Stacked
      PROVE  /\ job.stack # << >>
             /\ \A i \in DOMAIN job.stack : job.stack[i].dir \in {Root} \cup Folders
             /\ job.dest \in Answers
  BY <1>2 DEF TreeInv, StackIsSound, FoldersOn, LevelFolders
<1> QED
  BY <1>1, <1>2 DEF TreeInv, CwdIsSound, Stacked, CommandsTypeOK

(* Every entry is in a directory that is there, and stands for a folder or *)
(* for a file of a length that can be written; the shell stands in a       *)
(* directory or in what findCluster takes for one; cp and mv have folders  *)
(* on their stack, and write to what findCluster has answered.             *)
THEOREM CommandsTypeCorrect == CommandsSpec => []CommandsTypeOK
BY TreeInit, TreeStep, TypeFollows, CommandsInvInit, CommandsInvStep, PTL DEF CommandsSpec

(* Whatever mkdir, rm, cp and mv do, and wherever they stop, the folders   *)
(* are a tree below the root: no folder has two entries, and every way up  *)
(* along .. leaves every set of folders.  Of the folders of a set, one of  *)
(* least rank has its parent outside.                                      *)
THEOREM DirectoriesStayATree == CommandsSpec => []DirectoriesAreATree
<1>1. TreeInv => DirectoriesAreATree
  <2> SUFFICES ASSUME TreeInv PROVE DirectoriesAreATree
    OBVIOUS
  <2>1. KeysAreSound
    BY DEF TreeInv
  <2>2. PICK rank : IsRank(rank)
    BY DEF TreeInv
  <2>3. ASSUME NEW k \in DOMAIN store, NEW l \in DOMAIN store,
               store[k].kind = "folder", store[l] = store[k]
        PROVE  k = l
    BY <2>1, <2>3 DEF KeysAreSound, FolderKeys
  <2>4. ASSUME NEW S \in SUBSET FolderIds, S # {}
        PROVE  \E c \in S : ParentOf(c) \in Directories \ S
    <3> DEFINE T == {rank[c] : c \in S}
    <3>1. \A c \in S : c \in Directories /\ \E k \in FolderKeys : c = store[k].id
      BY DirectoriesAre
    <3>2. T \subseteq Nat /\ T # {}
      BY <2>2, <2>4, <3>1 DEF IsRank
    <3>3. PICK m \in T : \A n \in T : m <= n
      <4> HIDE DEF T
      <4> QED
        BY <3>2, LeastNat
    <3>4. PICK c \in S : m = rank[c]
      BY <3>3
    <3>5. PICK k \in FolderKeys : c = store[k].id
      BY <3>1
    <3>6. ParentOf(c) = k[1] /\ k[1] \in Directories
      BY <2>1, <3>5, ParentIs DEF KeysAreSound, FolderKeys
    <3>7. rank[k[1]] < rank[c] /\ rank[k[1]] \in Nat /\ rank[c] \in Nat
      BY <2>2, <3>1, <3>5, <3>6 DEF IsRank
    <3>8. k[1] \notin S
      BY <3>3, <3>4, <3>7
    <3> QED
      BY <3>6, <3>8
  <2> QED
    BY <2>3, <2>4 DEF DirectoriesAreATree
<1> QED
  BY <1>1, TreeInit, TreeStep, CommandsInvInit, CommandsInvStep, PTL DEF CommandsSpec

(* The path in the prompt is the one that printDirPath would find for the  *)
(* directory the shell is in, whatever was made, removed, copied or moved, *)
(* and after a cd of which only the first part was found.                  *)
THEOREM PromptNamesCwd == CommandsSpec => []PathNamesCwd
<1>1. TreeInv => PathNamesCwd
  BY DEF TreeInv
<1> QED
  BY <1>1, TreeInit, TreeStep, CommandsInvInit, CommandsInvStep, PTL DEF CommandsSpec

-----------------------------------------------------------------------------
(* find goes through the tree with a queue.  It ends because what is still *)
(* to be seen shrinks, and sees each directory once because what one place *)
(* in the queue leads to, no other does.                                   *)
(*                                                                         *)
(* The folders of a directory.                                             *)
Children(c) == {store[k].id : k \in {j \in FolderKeys : j[1] = c}}

LEMMA SetToSeqIs ==
    ASSUME NEW S, IsFiniteSet(S)
    PROVE  /\ SetToSeq(S) \in Seq(S) /\ Len(SetToSeq(S)) = Cardinality(S)
           /\ IsInjective(SetToSeq(S)) /\ Range(SetToSeq(S)) = S
<1> DEFINE N == Cardinality(S)
           f == SetToSeq(S)
<1>1. N \in Nat /\ ExistsBijection(1 .. N, S)
  BY FS_CardinalityType
<1>2. PICK g : g \in Bijection(1 .. N, S)
  BY <1>1 DEF ExistsBijection
<1>3. g \in [1 .. N -> S] /\ IsInjective(g)
  BY <1>2 DEF Bijection, Injection
<1>4. f \in [1 .. N -> S] /\ IsInjective(f)
  BY <1>3, Zenon DEF SetToSeq
<1> HIDE DEF f
<1>5. f \in Injection(1 .. N, S)
  BY <1>4 DEF Injection
<1>6. Cardinality(1 .. N) = N
  BY <1>1, FS_Interval
<1> HIDE DEF N
<1>7. f \in Surjection(1 .. N, S)
  BY <1>5, <1>6, FS_Injection DEF N
<1>8. Range(f) = S
  BY <1>7, Fun_SurjectionProperties
<1>9. f \in Seq(S) /\ Len(f) = N
  BY <1>1, <1>4
<1> QED
  BY <1>4, <1>8, <1>9 DEF f, N

LEMMA DirectoriesFinite ==
    ASSUME IsFiniteSet(DOMAIN store)
    PROVE  IsFiniteSet(Directories)
<1> DEFINE ids == {store[k].id : k \in FolderKeys}
           f   == [k \in FolderKeys |-> store[k].id]
<1>1. IsFiniteSet(FolderKeys)
  <2>1. FolderKeys \in SUBSET DOMAIN store
    BY DEF FolderKeys
  <2> QED
    BY <2>1, FS_Subset
<1>2. f \in Surjection(FolderKeys, ids)
  BY Fun_IsSurj
<1> HIDE DEF f
<1>3. IsFiniteSet(ids)
  BY <1>1, <1>2, FS_Surjection
<1>4. IsFiniteSet(ids \cup {Root})
  BY <1>3, FS_AddElement
<1>5. Directories = ids \cup {Root}
  BY DirectoriesAre
<1> QED
  BY <1>4, <1>5

LEMMA FoldersInIs ==
    ASSUME KeysAreSound, IsFiniteSet(DOMAIN store), NEW c
    PROVE  /\ FoldersIn(c) \in Seq(Directories)
           /\ IsInjective(FoldersIn(c)) /\ Range(FoldersIn(c)) = Children(c)
<1> DEFINE V == {w \in Range(Listing(c)) : w.kind = "folder"}
<1>1. {v.id : v \in V} = Children(c)
  <2>1. ASSUME NEW k \in FolderKeys, k[1] = c
        PROVE  store[k] \in V
    <3>1. k = << c, k[2] >> /\ k[2] \in Names /\ k \in DOMAIN store
      BY <2>1 DEF KeysAreSound, FolderKeys, Keys
    <3>2. k[2] \in DOMAIN Listing(c) /\ Listing(c)[k[2]] = store[k]
      BY <3>1 DEF Listing, Exists
    <3>3. store[k] \in Range(Listing(c))
      BY <3>2 DEF Range
    <3> QED
      BY <3>3 DEF FolderKeys
  <2>2. ASSUME NEW v \in V
        PROVE  \E k \in FolderKeys : k[1] = c /\ store[k] = v
    <3>1. PICK m \in DOMAIN Listing(c) : Listing(c)[m] = v
      BY DEF Range
    <3>2. << c, m >> \in DOMAIN store /\ store[<< c, m >>] = v
      BY <3>1 DEF Listing, Exists
    <3> QED
      BY <3>2 DEF FolderKeys
  <2> HIDE DEF V
  <2> QED
    BY <2>1, <2>2 DEF Children
<1>2. FoldersIn(c) = SetToSeq(Children(c))
  BY <1>1 DEF FoldersIn
<1>3. Children(c) \subseteq Directories
  BY DirectoriesAre DEF Children
<1>4. IsFiniteSet(Children(c))
  BY <1>3, DirectoriesFinite, FS_Subset
<1>5. SetToSeq(Children(c)) \in Seq(Directories)
  BY <1>3, <1>4, SetToSeqIs
<1> QED
  BY <1>2, <1>4, <1>5, SetToSeqIs

-----------------------------------------------------------------------------
(* A directory and everything below it: the least set of directories that  *)
(* contains it and the folders of its members.                             *)
Closed(T) == \A k \in FolderKeys : k[1] \in T => store[k].id \in T

Below(c) == {e \in Directories : \A T \in SUBSET Directories : c \in T /\ Closed(T) => e \in T}

LEMMA BelowIs ==
    ASSUME NEW c \in Directories
    PROVE  /\ c \in Below(c) /\ Below(c) \subseteq Directories /\ Closed(Below(c))
           /\ \A T \in SUBSET Directories : c \in T /\ Closed(T) => Below(c) \subseteq T
<1>1. ASSUME NEW k \in FolderKeys, k[1] \in Below(c)
      PROVE  store[k].id \in Below(c)
  <2>1. store[k].id \in Directories
    BY DirectoriesAre
  <2> QED
    BY <1>1, <2>1 DEF Below, Closed
<1> QED
  BY <1>1 DEF Below, Closed

LEMMA BelowChild ==
    ASSUME NEW c \in Directories
    PROVE  /\ \A x \in Children(c) : x \in Directories /\ Below(x) \subseteq Below(c)
           /\ \A e \in Below(c) : e = c \/ \E x \in Children(c) : e \in Below(x)
<1>1. ASSUME NEW x \in Children(c)
      PROVE  x \in Directories /\ Below(x) \subseteq Below(c)
  <2>1. PICK k \in FolderKeys : k[1] = c /\ x = store[k].id
    BY DEF Children
  <2>2. x \in Directories /\ x \in Below(c)
    BY <2>1, DirectoriesAre, BelowIs DEF Closed
  <2> QED
    BY <2>2, BelowIs
<1> DEFINE T == {c} \cup UNION {Below(x) : x \in Children(c)}
<1>2. T \subseteq Directories
  BY <1>1, BelowIs
<1>3. Closed(T)
  <2> SUFFICES ASSUME NEW k \in FolderKeys, k[1] \in T
               PROVE  store[k].id \in T
    BY DEF Closed
  <2>1. CASE k[1] = c
    <3>1. store[k].id \in Children(c)
      BY <2>1 DEF Children
    <3>2. store[k].id \in Below(store[k].id)
      BY <1>1, <3>1, BelowIs
    <3> QED
      BY <3>1, <3>2
  <2>2. CASE k[1] # c
    <3>1. PICK x \in Children(c) : k[1] \in Below(x)
      BY <2>2
    <3>2. store[k].id \in Below(x)
      BY <1>1, <3>1, BelowIs DEF Closed
    <3> QED
      BY <3>2
  <2> QED
    BY <2>1, <2>2
<1>4. Below(c) \subseteq T
  <2> HIDE DEF T
  <2>1. c \in T
    BY DEF T
  <2> QED
    BY <1>2, <1>3, <2>1, BelowIs
<1> QED
  BY <1>1, <1>4

LEMMA BelowRank ==
    ASSUME NEW rank, IsRank(rank), KeysAreSound, NEW c \in Directories, NEW e \in Below(c)
    PROVE  e = c \/ rank[c] < rank[e]
<1> DEFINE T == {d \in Directories : d = c \/ rank[c] < rank[d]}
<1>1. Closed(T)
  <2> SUFFICES ASSUME NEW k \in FolderKeys, k[1] \in T
               PROVE  store[k].id \in T
    BY DEF Closed
  <2>1. store[k].id \in Directories /\ k[1] \in Directories /\ rank[k[1]] < rank[store[k].id]
    BY DirectoriesAre DEF IsRank
  <2>2. rank[c] \in Nat /\ rank[k[1]] \in Nat /\ rank[store[k].id] \in Nat
    BY <2>1 DEF IsRank
  <2> QED
    BY <2>1, <2>2
<1>2. e \in T
  <2>1. c \in T /\ T \in SUBSET Directories
    OBVIOUS
  <2> HIDE DEF T
  <2> QED
    BY <1>1, <2>1, BelowIs
<1> QED
  BY <1>2

LEMMA ParentBelow ==
    ASSUME KeysAreSound, NEW c \in Directories, NEW k \in FolderKeys,
           store[k].id \in Below(c), store[k].id # c
    PROVE  k[1] \in Below(c)
<1> SUFFICES ASSUME k[1] \notin Below(c) PROVE FALSE
  OBVIOUS
<1> DEFINE T == Below(c) \ {store[k].id}
<1>1. Closed(T)
  <2> SUFFICES ASSUME NEW j \in FolderKeys, j[1] \in T
               PROVE  store[j].id \in T
    BY DEF Closed
  <2>1. store[j].id \in Below(c)
    BY BelowIs DEF Closed
  <2>2. store[j].id # store[k].id
    BY DEF KeysAreSound
  <2> QED
    BY <2>1, <2>2
<1>2. c \in T /\ T \in SUBSET Directories
  BY BelowIs
<1> HIDE DEF T
<1>3. store[k].id \in T
  BY <1>1, <1>2, BelowIs
<1> QED
  BY <1>3 DEF T

(* Two folders of a directory have nothing below them in common. *)
LEMMA ChildrenApart ==
    ASSUME KeysAreSound, NEW rank, IsRank(rank), NEW c \in Directories,
           NEW x \in Children(c), NEW y \in Children(c), x # y
    PROVE  Below(x) \cap Below(y) = {}
<1> DEFINE S == {rank[e] : e \in Below(x) \cap Below(y)}
<1> SUFFICES ASSUME S # {} PROVE FALSE
  OBVIOUS
<1>0. x \in Directories /\ y \in Directories /\ Below(x) \subseteq Directories
  BY BelowChild, BelowIs
<1>1. S \subseteq Nat
  BY <1>0 DEF IsRank
<1>2. PICK i \in S : \A j \in S : i <= j
  <2> HIDE DEF S
  <2> QED
    BY <1>1, LeastNat
<1>3. PICK e \in Below(x) \cap Below(y) : i = rank[e]
  BY <1>2
<1>4. PICK jx \in FolderKeys : jx[1] = c /\ x = store[jx].id
  BY DEF Children
<1>5. PICK jy \in FolderKeys : jy[1] = c /\ y = store[jy].id
  BY DEF Children
<1>6. /\ rank[c] < rank[x] /\ rank[c] < rank[y]
      /\ rank[c] \in Nat /\ rank[x] \in Nat /\ rank[y] \in Nat
  BY <1>0, <1>4, <1>5 DEF IsRank
<1>7. c \notin Below(x) /\ c \notin Below(y)
  BY <1>0, <1>6, BelowRank
<1>8. e # x
  <2> SUFFICES ASSUME e = x PROVE FALSE
    OBVIOUS
  <2>1. jx[1] \in Below(y)
    BY <1>0, <1>3, <1>4, ParentBelow
  <2> QED
    BY <1>4, <1>7, <2>1
<1>9. e # y
  <2> SUFFICES ASSUME e = y PROVE FALSE
    OBVIOUS
  <2>1. jy[1] \in Below(x)
    BY <1>0, <1>3, <1>5, ParentBelow
  <2> QED
    BY <1>5, <1>7, <2>1
<1>10. e # Root
  <2> SUFFICES ASSUME e = Root PROVE FALSE
    OBVIOUS
  <2> DEFINE T == Directories \ {Root}
  <2>1. Closed(T) /\ x \in T
    BY <1>4, DirectoriesAre, FileCommandsAssumption DEF Closed, KeysAreSound, FolderKeys
  <2>2. T \in SUBSET Directories
    OBVIOUS
  <2> HIDE DEF T
  <2>3. e \in T
    BY <1>0, <1>3, <2>1, <2>2, BelowIs
  <2> QED
    BY <2>3 DEF T
<1>11. PICK k \in FolderKeys : e = store[k].id
  BY <1>0, <1>3, <1>10, DirectoriesAre
<1>12. k[1] \in Below(x) \cap Below(y)
  BY <1>0, <1>3, <1>8, <1>9, <1>11, ParentBelow
<1>13. rank[k[1]] < rank[e] /\ rank[k[1]] \in S /\ rank[k[1]] \in Nat /\ rank[e] \in Nat
  BY <1>0, <1>3, <1>11, <1>12 DEF IsRank
<1> QED
  BY <1>2, <1>3, <1>13

LEMMA AllBelowRoot ==
    ASSUME KeysAreSound, NEW rank, IsRank(rank)
    PROVE  Below(Root) = Directories
<1> DEFINE S == {rank[e] : e \in Directories \ Below(Root)}
<1>0. Root \in Directories
  BY DEF Directories
<1> SUFFICES ASSUME S # {} PROVE FALSE
  BY <1>0, BelowIs
<1>1. S \subseteq Nat
  BY DEF IsRank
<1>2. PICK i \in S : \A j \in S : i <= j
  <2> HIDE DEF S
  <2> QED
    BY <1>1, LeastNat
<1>3. PICK e \in Directories \ Below(Root) : i = rank[e]
  BY <1>2
<1>4. PICK k \in FolderKeys : e = store[k].id
  BY <1>0, <1>3, BelowIs, DirectoriesAre
<1>5. k[1] \in Directories /\ k[1] \notin Below(Root)
  BY <1>0, <1>3, <1>4, BelowIs DEF Closed, KeysAreSound, FolderKeys
<1>6. rank[k[1]] < rank[e] /\ rank[k[1]] \in S /\ rank[k[1]] \in Nat /\ rank[e] \in Nat
  BY <1>3, <1>4, <1>5 DEF IsRank
<1> QED
  BY <1>2, <1>3, <1>6

-----------------------------------------------------------------------------
(* A function that calls itself on something smaller exists; head is what  *)
(* a call adds in front of the result of the next.                         *)
IsSearch(g, P, next, stop, head) ==
    g = [q \in P |-> IF q \in stop THEN << >> ELSE head[q] \o g[next[q]]]

GetsLighter(Q, w, next, stop) ==
    \A q \in Q \ stop : next[q] \in Q /\ w[next[q]] < w[q]

Lighter(Q, w, m) == {q \in Q : w[q] < m}

LEMMA SearchGrows ==
    ASSUME NEW Q, NEW w \in [Q -> Nat], NEW next, NEW stop, NEW head,
           GetsLighter(Q, w, next, stop),
           NEW m \in Nat, NEW h, IsSearch(h, Lighter(Q, w, m), next, stop, head)
    PROVE  \E g : IsSearch(g, Lighter(Q, w, m + 1), next, stop, head)
<1> DEFINE S == Lighter(Q, w, m)
           T == Lighter(Q, w, m + 1)
           g == [q \in T |-> IF q \in stop THEN << >> ELSE head[q] \o h[next[q]]]
<1>1. S \subseteq T
  BY DEF Lighter
<1>2. ASSUME NEW q \in S PROVE g[q] = h[q]
  <2>1. h[q] = IF q \in stop THEN << >> ELSE head[q] \o h[next[q]]
    BY DEF IsSearch
  <2> QED
    BY <1>1, <2>1
<1>3. ASSUME NEW q \in T, q \notin stop PROVE next[q] \in S
  BY <1>3 DEF Lighter, GetsLighter
<1>4. ASSUME NEW q \in T
      PROVE  g[q] = IF q \in stop THEN << >> ELSE head[q] \o g[next[q]]
  <2>1. CASE q \in stop
    BY <2>1
  <2>2. CASE q \notin stop
    <3>1. g[next[q]] = h[next[q]]
      BY <1>2, <1>3, <2>2
    <3> QED
      BY <2>2, <3>1
  <2> QED
    BY <2>1, <2>2
<1>5. g = [q \in T |-> g[q]]
  OBVIOUS
<1> HIDE DEF g, T, S
<1>6. IsSearch(g, T, next, stop, head)
  BY <1>4, <1>5 DEF IsSearch
<1> QED
  BY <1>6 DEF T

LEMMA SearchUpTo ==
    ASSUME NEW Q, NEW w \in [Q -> Nat], NEW next, NEW stop, NEW head,
           GetsLighter(Q, w, next, stop),
           NEW m \in Nat
    PROVE  \E h : IsSearch(h, Lighter(Q, w, m), next, stop, head)
<1> DEFINE S == {i \in Nat : ~ \E h : IsSearch(h, Lighter(Q, w, i), next, stop, head)}
<1> SUFFICES ASSUME S # {} PROVE FALSE
  OBVIOUS
<1>0. S \subseteq Nat
  OBVIOUS
<1>1. PICK i \in S : \A j \in S : i <= j
  <2> HIDE DEF S
  <2> QED
    BY <1>0, LeastNat
<1>2. i # 0
  <2>1. Lighter(Q, w, 0) = {}
    BY DEF Lighter
  <2>2. IsSearch([q \in {} |-> << >>], {}, next, stop, head)
    BY DEF IsSearch
  <2> QED
    BY <2>1, <2>2
<1>3. i - 1 \in Nat /\ i - 1 \notin S /\ (i - 1) + 1 = i
  BY <1>1, <1>2
<1>4. \E h : IsSearch(h, Lighter(Q, w, i - 1), next, stop, head)
  BY <1>3
<1>5. \E h : IsSearch(h, Lighter(Q, w, (i - 1) + 1), next, stop, head)
  BY <1>3, <1>4, SearchGrows
<1> QED
  BY <1>1, <1>3, <1>5

LEMMA SearchesAgree ==
    ASSUME NEW Q, NEW w \in [Q -> Nat], NEW next, NEW stop, NEW head,
           GetsLighter(Q, w, next, stop),
           NEW m \in Nat, NEW n \in Nat, m <= n,
           NEW g, IsSearch(g, Lighter(Q, w, m), next, stop, head),
           NEW h, IsSearch(h, Lighter(Q, w, n), next, stop, head),
           NEW d \in Q, w[d] < m
    PROVE  g[d] = h[d]
<1> DEFINE S == {w[c] : c \in {x \in Q : w[x] < m /\ g[x] # h[x]}}
<1> SUFFICES ASSUME S # {} PROVE FALSE
  OBVIOUS
<1>0. S \subseteq Nat
  OBVIOUS
<1>1. PICK i \in S : \A j \in S : i <= j
  <2> HIDE DEF S
  <2> QED
    BY <1>0, LeastNat
<1>2. PICK c \in Q : w[c] < m /\ g[c] # h[c] /\ i = w[c]
  BY <1>1
<1>3. w[c] < n
  BY <1>2
<1>4. /\ g[c] = IF c \in stop THEN << >> ELSE head[c] \o g[next[c]]
      /\ h[c] = IF c \in stop THEN << >> ELSE head[c] \o h[next[c]]
  BY <1>2, <1>3 DEF IsSearch, Lighter
<1>5. c \notin stop
  BY <1>2, <1>4
<1>6. next[c] \in Q /\ w[next[c]] < w[c] /\ w[next[c]] \in Nat
  BY <1>5 DEF GetsLighter
<1>7. w[next[c]] < m
  BY <1>2, <1>6
<1>8. g[next[c]] = h[next[c]]
  <2>1. w[next[c]] \notin S
    BY <1>0, <1>1, <1>2, <1>6
  <2> QED
    BY <1>6, <1>7, <2>1
<1> QED
  BY <1>2, <1>4, <1>5, <1>8

LEMMA SearchExists ==
    ASSUME NEW Q, NEW w \in [Q -> Nat], NEW next, NEW stop, NEW head,
           GetsLighter(Q, w, next, stop)
    PROVE  \E g : IsSearch(g, Q, next, stop, head)
<1> DEFINE H(m) == CHOOSE h : IsSearch(h, Lighter(Q, w, m), next, stop, head)
           g == [q \in Q |-> H(w[q] + 1)[q]]
<1>1. \A m \in Nat : IsSearch(H(m), Lighter(Q, w, m), next, stop, head)
  BY SearchUpTo
<1> HIDE DEF H
<1>2. \A q \in Q : w[q] \in Nat /\ w[q] + 1 \in Nat /\ q \in Lighter(Q, w, w[q] + 1)
  BY DEF Lighter
<1>3. ASSUME NEW q \in Q
      PROVE  g[q] = IF q \in stop THEN << >> ELSE head[q] \o g[next[q]]
  <2> DEFINE p == next[q]
             h == H(w[q] + 1)
  <2>1. h[q] = IF q \in stop THEN << >> ELSE head[q] \o h[p]
    <3>1. PICK S : S = Lighter(Q, w, w[q] + 1)
      OBVIOUS
    <3>2. IsSearch(h, S, next, stop, head) /\ q \in S
      BY <1>1, <1>2, <3>1
    <3> HIDE DEF h
    <3> QED
      BY <3>2 DEF IsSearch
  <2>2. g[q] = h[q]
    OBVIOUS
  <2>3. CASE q \in stop
    BY <2>1, <2>2, <2>3
  <2>4. CASE q \notin stop
    <3>1. p \in Q /\ w[p] < w[q]
      BY <2>4 DEF GetsLighter
    <3>2. g[p] = H(w[p] + 1)[p]
      BY <3>1
    <3>3. w[p] + 1 <= w[q] + 1 /\ w[p] < w[p] + 1
      BY <1>2, <3>1
    <3> HIDE DEF g, h, p
    <3>4. H(w[p] + 1)[p] = h[p]
      BY <1>1, <1>2, <3>1, <3>3, SearchesAgree DEF h
    <3> QED
      BY <2>1, <2>2, <2>4, <3>2, <3>4 DEF p
  <2> QED
    BY <2>3, <2>4
<1>4. g = [q \in Q |-> g[q]]
  OBVIOUS
<1> HIDE DEF g
<1>5. IsSearch(g, Q, next, stop, head)
  BY <1>3, <1>4 DEF IsSearch
<1> QED
  BY <1>5

-----------------------------------------------------------------------------
(* The queue of find: the head gives way to its folders. *)
NextQueue(q) == Tail(q) \o FoldersIn(Head(q))

IsNext(r, q, N, M) ==
    /\ Len(q) = N + 1 /\ DOMAIN q = 1 .. N + 1
    /\ Head(q) = q[1] /\ q[1] \in Directories
    /\ r \in Seq(Directories) /\ DOMAIN r = 1 .. N + M
    /\ \A i \in 1 .. N : r[i] = q[i + 1]
    /\ \A i \in N + 1 .. N + M : r[i] \in Children(q[1])
    /\ \A i, j \in N + 1 .. N + M : r[i] = r[j] => i = j
    /\ \A x \in Children(q[1]) : \E i \in N + 1 .. N + M : r[i] = x

LEMMA NextQueueIs ==
    ASSUME KeysAreSound, IsFiniteSet(DOMAIN store), NEW q \in Seq(Directories), q # << >>
    PROVE  \E N, M \in Nat : IsNext(NextQueue(q), q, N, M)
<1>1. PICK N \in Nat : Len(q) = N + 1 /\ DOMAIN q = 1 .. N + 1
  <2>1. Len(q) \in Nat \ {0} /\ DOMAIN q = 1 .. Len(q)
    OBVIOUS
  <2>2. Len(q) - 1 \in Nat /\ Len(q) = (Len(q) - 1) + 1
    BY <2>1
  <2> QED
    BY <2>1, <2>2, Zenon
<1>2. Head(q) = q[1] /\ q[1] \in Directories
  OBVIOUS
<1>3. PICK f : f = FoldersIn(q[1])
  OBVIOUS
<1>4. f \in Seq(Directories) /\ IsInjective(f) /\ Range(f) = Children(q[1])
  BY <1>3, FoldersInIs
<1>5. PICK M \in Nat : Len(f) = M /\ DOMAIN f = 1 .. M
  BY <1>4
<1>6. PICK t : t = Tail(q)
  OBVIOUS
<1>7. t \in Seq(Directories) /\ Len(t) = N /\ \A i \in 1 .. N : t[i] = q[i + 1]
  BY <1>1, <1>6
<1>8. PICK r : r = t \o f
  OBVIOUS
<1>9. /\ r \in Seq(Directories) /\ DOMAIN r = 1 .. N + M
      /\ \A i \in 1 .. N : r[i] = t[i]
      /\ \A i \in N + 1 .. N + M : r[i] = f[i - N]
  <2>1. /\ f \in Seq(Directories) /\ t \in Seq(Directories)
        /\ Len(f) = M /\ Len(t) = N /\ M \in Nat /\ N \in Nat
    BY <1>4, <1>5, <1>7
  <2>2. t \o f \in Seq(Directories) /\ Len(t \o f) = N + M
    BY <2>1
  <2>3. DOMAIN (t \o f) = 1 .. N + M
    BY <2>1, <2>2
  <2>4. ASSUME NEW i \in 1 .. N PROVE (t \o f)[i] = t[i]
    BY <2>1
  <2>5. ASSUME NEW i \in N + 1 .. N + M PROVE (t \o f)[i] = f[i - N]
    BY <2>1
  <2> QED
    BY <1>8, <2>2, <2>3, <2>4, <2>5, Zenon
<1>10. \A i \in 1 .. N : r[i] = q[i + 1]
  BY <1>7, <1>9
<1>11. \A i \in N + 1 .. N + M : r[i] = f[i - N] /\ i - N \in DOMAIN f
  BY <1>5, <1>9
<1>12. \A i \in N + 1 .. N + M : r[i] \in Children(q[1])
  BY <1>4, <1>11 DEF Range
<1>13. ASSUME NEW i \in N + 1 .. N + M, NEW j \in N + 1 .. N + M, r[i] = r[j] PROVE i = j
  <2>1. i - N = j - N
    BY <1>4, <1>11, <1>13 DEF IsInjective
  <2> QED
    BY <2>1
<1>14. ASSUME NEW x \in Children(q[1]) PROVE \E i \in N + 1 .. N + M : r[i] = x
  <2>1. PICK j \in 1 .. M : f[j] = x
    BY <1>4, <1>5 DEF Range
  <2>2. N + j \in N + 1 .. N + M /\ (N + j) - N = j
    OBVIOUS
  <2> QED
    BY <1>11, <2>1, <2>2
<1>15. IsNext(r, q, N, M)
  BY <1>1, <1>2, <1>9, <1>10, <1>12, <1>13, <1>14 DEF IsNext
<1>16. r = NextQueue(q)
  BY <1>2, <1>3, <1>6, <1>8 DEF NextQueue
<1> QED
  BY <1>15, <1>16

(* What is still to be seen from a queue: it shrinks. *)
Spots(q) == {s \in (DOMAIN q) \X Directories : s[2] \in Below(q[s[1]])}

LEMMA SpotsFinite ==
    ASSUME IsFiniteSet(DOMAIN store), NEW q \in Seq(Directories)
    PROVE  IsFiniteSet(Spots(q)) /\ Cardinality(Spots(q)) \in Nat
<1>1. IsFiniteSet(DOMAIN q)
  <2>1. DOMAIN q = 1 .. Len(q) /\ Len(q) \in Nat
    OBVIOUS
  <2> QED
    BY <2>1, FS_Interval
<1>2. IsFiniteSet((DOMAIN q) \X Directories)
  BY <1>1, DirectoriesFinite, FS_Product
<1>3. Spots(q) \in SUBSET ((DOMAIN q) \X Directories)
  BY DEF Spots
<1>4. IsFiniteSet(Spots(q))
  BY <1>2, <1>3, FS_Subset
<1> QED
  BY <1>4, FS_CardinalityType

LEMMA QueueShrinks ==
    ASSUME KeysAreSound, NEW rank, IsRank(rank), IsFiniteSet(DOMAIN store),
           NEW q \in Seq(Directories), q # << >>
    PROVE  /\ NextQueue(q) \in Seq(Directories)
           /\ Cardinality(Spots(NextQueue(q))) < Cardinality(Spots(q))
<1>1. PICK r : r = NextQueue(q)
  OBVIOUS
<1>2. PICK N, M \in Nat : IsNext(r, q, N, M)
  BY <1>1, NextQueueIs
<1>20. /\ DOMAIN q = 1 .. N + 1 /\ q[1] \in Directories
       /\ r \in Seq(Directories) /\ DOMAIN r = 1 .. N + M
       /\ \A i \in 1 .. N : r[i] = q[i + 1]
       /\ \A i \in N + 1 .. N + M : r[i] \in Children(q[1])
       /\ \A i, j \in N + 1 .. N + M : r[i] = r[j] => i = j
  BY <1>2 DEF IsNext
<1> DEFINE c == q[1]
           A == Spots(r)
           B == Spots(q) \ {<< 1, c >>}
           f == [s \in A |-> << IF s[1] <= N THEN s[1] + 1 ELSE 1, s[2] >>]
<1>3. << 1, c >> \in Spots(q)
  BY <1>20, BelowIs DEF Spots
<1>4. ASSUME NEW s \in A
      PROVE  /\ s[1] \in 1 .. N + M /\ s[2] \in Directories /\ s[2] \in Below(r[s[1]])
             /\ s = << s[1], s[2] >>
  <2>1. s \in (1 .. N + M) \X Directories /\ s[2] \in Below(r[s[1]])
    BY <1>20 DEF Spots
  <2> HIDE DEF A
  <2> QED
    BY <2>1
<1>5. ASSUME NEW s \in A, ~(s[1] <= N)
      PROVE  s[1] \in N + 1 .. N + M /\ r[s[1]] \in Children(c)
             /\ s[2] \in Below(c) /\ s[2] # c
  <2>1. s[1] \in N + 1 .. N + M /\ r[s[1]] \in Children(c)
    BY <1>20, <1>4, <1>5
  <2>2. s[2] \in Below(c)
    BY <1>20, <1>4, <2>1, BelowChild
  <2>3. c \notin Below(r[s[1]])
    <3>1. PICK k \in FolderKeys : k[1] = c /\ r[s[1]] = store[k].id
      BY <2>1 DEF Children
    <3>2. rank[c] < rank[r[s[1]]] /\ r[s[1]] \in Directories
      BY <1>20, <3>1, DirectoriesAre DEF IsRank
    <3>3. rank[c] \in Nat /\ rank[r[s[1]]] \in Nat
      BY <1>20, <3>2 DEF IsRank
    <3>4. c # r[s[1]] /\ ~(rank[r[s[1]]] < rank[c])
      BY <3>2, <3>3
    <3> QED
      BY <1>20, <3>2, <3>4, BelowRank
  <2> QED
    BY <1>4, <2>1, <2>2, <2>3
<1>6. ASSUME NEW s \in A PROVE f[s] \in B
  <2>1. CASE s[1] <= N
    <3>1. s[1] \in 1 .. N /\ s[1] + 1 \in DOMAIN q /\ r[s[1]] = q[s[1] + 1] /\ s[1] + 1 # 1
      BY <1>20, <1>4, <2>1
    <3>2. f[s] = << s[1] + 1, s[2] >>
      BY <2>1
    <3>3. f[s] \in Spots(q)
      BY <1>4, <3>1, <3>2 DEF Spots
    <3> QED
      BY <3>1, <3>2, <3>3
  <2>2. CASE ~(s[1] <= N)
    <3>1. f[s] = << 1, s[2] >> /\ 1 \in DOMAIN q
      BY <1>20, <2>2
    <3>2. f[s] \in Spots(q)
      BY <1>4, <1>5, <2>2, <3>1 DEF Spots
    <3> QED
      BY <1>5, <2>2, <3>1, <3>2
  <2> QED
    BY <2>1, <2>2
<1>7. ASSUME NEW s \in A, NEW t \in A, f[s] = f[t] PROVE s = t
  <2>1. /\ f[s] = << IF s[1] <= N THEN s[1] + 1 ELSE 1, s[2] >>
        /\ f[t] = << IF t[1] <= N THEN t[1] + 1 ELSE 1, t[2] >>
    OBVIOUS
  <2> HIDE DEF f, A
  <2>2. s[1] \in 1 .. N + M /\ t[1] \in 1 .. N + M /\ s = << s[1], s[2] >> /\ t = << t[1], t[2] >>
    BY <1>4
  <2>3. s[2] = t[2] /\ (IF s[1] <= N THEN s[1] + 1 ELSE 1) = (IF t[1] <= N THEN t[1] + 1 ELSE 1)
    <3>1. \A a, b, x, y : << a, x >> = << b, y >> => a = b /\ x = y
      OBVIOUS
    <3>2. PICK a, b : /\ a = (IF s[1] <= N THEN s[1] + 1 ELSE 1)
                      /\ b = (IF t[1] <= N THEN t[1] + 1 ELSE 1)
      OBVIOUS
    <3>3. << a, s[2] >> = << b, t[2] >>
      BY <1>7, <2>1, <3>2, Zenon
    <3>4. a = b /\ s[2] = t[2]
      BY <3>1, <3>3, Zenon
    <3> QED
      BY <3>2, <3>4, Zenon
  <2>4. CASE s[1] <= N \/ t[1] <= N
    <3>1. s[1] = t[1]
      BY <2>2, <2>3, <2>4
    <3> QED
      BY <2>2, <2>3, <3>1
  <2>5. CASE ~(s[1] <= N) /\ ~(t[1] <= N)
    <3>1. /\ s[1] \in N + 1 .. N + M /\ r[s[1]] \in Children(c)
          /\ t[1] \in N + 1 .. N + M /\ r[t[1]] \in Children(c)
      BY <1>5, <2>5
    <3>2. s[2] \in Below(r[s[1]]) /\ s[2] \in Below(r[t[1]])
      BY <1>4, <2>3
    <3>3. r[s[1]] = r[t[1]]
      BY <1>20, <3>1, <3>2, ChildrenApart
    <3>4. s[1] = t[1]
      BY <1>20, <3>1, <3>3
    <3> QED
      BY <2>2, <2>3, <3>4
  <2> QED
    BY <2>4, <2>5
<1>8. f \in Injection(A, B)
  <2>1. f \in [A -> B]
    BY <1>6
  <2> HIDE DEF f
  <2> QED
    BY <1>7, <2>1, Fun_IsInj
<1> HIDE DEF A, B, f
<1>9. /\ IsFiniteSet(Spots(q)) /\ Cardinality(Spots(q)) \in Nat
      /\ IsFiniteSet(A) /\ Cardinality(A) \in Nat
  BY <1>20, SpotsFinite DEF A
<1>10. IsFiniteSet(B) /\ Cardinality(B) = Cardinality(Spots(q)) - 1
  BY <1>3, <1>9, FS_RemoveElement DEF B
<1>11. Cardinality(A) <= Cardinality(B)
  BY <1>8, <1>10, FS_Injection
<1>12. Cardinality(A) < Cardinality(Spots(q))
  BY <1>9, <1>10, <1>11
<1> QED
  BY <1>1, <1>20, <1>12 DEF A

-----------------------------------------------------------------------------
(* The recursive function in Find. *)
Here(q, n) == IF Exists(Head(q), n) THEN << Head(q) >> ELSE << >>

IsFind(g, n) ==
    g = [q \in Seq(Directories) |->
            IF q = << >> THEN << >> ELSE Here(q, n) \o g[NextQueue(q)]]

LEMMA FindIs ==
    ASSUME KeysAreSound, NEW rank, IsRank(rank), IsFiniteSet(DOMAIN store), NEW n
    PROVE  \E g : IsFind(g, n) /\ Find(n) = g[<< Root >>]
<1> DEFINE Q    == Seq(Directories)
           w    == [q \in Q |-> Cardinality(Spots(q))]
           next == [q \in Q |-> NextQueue(q)]
           head == [q \in Q |-> Here(q, n)]
           f    == CHOOSE g : g = [queue \in Seq(Directories) |->
                       IF queue = << >> THEN << >>
                       ELSE (IF Exists(Head(queue), n) THEN << Head(queue) >> ELSE << >>)
                            \o g[Tail(queue) \o FoldersIn(Head(queue))]]
<1>1. w \in [Q -> Nat]
  BY SpotsFinite
<1>2. GetsLighter(Q, w, next, {<< >>})
  BY QueueShrinks DEF GetsLighter
<1>3. PICK h : IsSearch(h, Q, next, {<< >>}, head)
  <2> HIDE DEF Q, w, next, head
  <2> QED
    BY <1>1, <1>2, SearchExists
<1>4. h = [q \in Seq(Directories) |->
              IF q = << >> THEN << >>
              ELSE (IF Exists(Head(q), n) THEN << Head(q) >> ELSE << >>)
                   \o h[Tail(q) \o FoldersIn(Head(q))]]
  <2>1. h = [q \in Q |-> IF q \in {<< >>} THEN << >> ELSE head[q] \o h[next[q]]]
    BY <1>3, Zenon DEF IsSearch
  <2>2. \A q \in Q : head[q] = Here(q, n) /\ next[q] = NextQueue(q)
    OBVIOUS
  <2> HIDE DEF head, next
  <2>3. h = [q \in Q |-> IF q = << >> THEN << >> ELSE Here(q, n) \o h[NextQueue(q)]]
    BY <2>1, <2>2
  <2> QED
    BY <2>3, Zenon DEF Here, NextQueue
<1>5. f = [queue \in Seq(Directories) |->
              IF queue = << >> THEN << >>
              ELSE (IF Exists(Head(queue), n) THEN << Head(queue) >> ELSE << >>)
                   \o f[Tail(queue) \o FoldersIn(Head(queue))]]
  BY <1>4, Zenon
<1>6. Find(n) = f[<< Root >>]
  BY Zenon DEF Find
<1> HIDE DEF f
<1>7. IsFind(f, n)
  BY <1>5, Zenon DEF IsFind, Here, NextQueue
<1> QED
  BY <1>6, <1>7

(* The directories still to be seen, when no queue position leads to what  *)
(* another leads to.                                                       *)
Area(q)  == UNION {Below(q[i]) : i \in DOMAIN q}
Apart(q) == \A i, j \in DOMAIN q : i # j => Below(q[i]) \cap Below(q[j]) = {}

LEMMA AreaShrinks ==
    ASSUME KeysAreSound, NEW rank, IsRank(rank), IsFiniteSet(DOMAIN store),
           NEW q \in Seq(Directories), q # << >>, Apart(q)
    PROVE  /\ Apart(NextQueue(q)) /\ Head(q) \in Directories
           /\ Head(q) \notin Area(NextQueue(q))
           /\ Area(q) = {Head(q)} \cup Area(NextQueue(q))
<1>1. PICK r : r = NextQueue(q)
  OBVIOUS
<1>2. PICK N, M \in Nat : IsNext(r, q, N, M)
  BY <1>1, NextQueueIs
<1>3. /\ DOMAIN q = 1 .. N + 1 /\ q[1] \in Directories /\ Head(q) = q[1]
      /\ r \in Seq(Directories) /\ DOMAIN r = 1 .. N + M
      /\ \A i \in 1 .. N : r[i] = q[i + 1]
      /\ \A i \in N + 1 .. N + M : r[i] \in Children(q[1])
      /\ \A i, j \in N + 1 .. N + M : r[i] = r[j] => i = j
      /\ \A x \in Children(q[1]) : \E i \in N + 1 .. N + M : r[i] = x
  BY <1>2 DEF IsNext
<1>4. PICK c : c = q[1]
  OBVIOUS
<1>5. \A i \in 1 .. N : i + 1 \in DOMAIN q /\ i + 1 # 1 /\ 1 \in DOMAIN q
  BY <1>3
<1>6. \A i \in 1 .. N : Below(r[i]) \cap Below(c) = {}
  <2> SUFFICES ASSUME NEW i \in 1 .. N PROVE Below(r[i]) \cap Below(c) = {}
    OBVIOUS
  <2>1. r[i] = q[i + 1] /\ c = q[1]
    BY <1>3, <1>4
  <2>2. Below(q[i + 1]) \cap Below(q[1]) = {}
    BY <1>5, Zenon DEF Apart
  <2> QED
    BY <2>1, <2>2, Zenon
<1>7. \A i \in N + 1 .. N + M : Below(r[i]) \subseteq Below(c) /\ c \notin Below(r[i])
  <2> SUFFICES ASSUME NEW i \in N + 1 .. N + M
               PROVE  Below(r[i]) \subseteq Below(c) /\ c \notin Below(r[i])
    OBVIOUS
  <2>1. PICK k \in FolderKeys : k[1] = c /\ r[i] = store[k].id
    BY <1>3, <1>4 DEF Children
  <2>2. rank[c] < rank[r[i]] /\ r[i] \in Directories /\ c \in Directories
    <3>1. rank[k[1]] < rank[store[k].id]
      BY <2>1 DEF IsRank
    <3>2. store[k].id \in Directories
      BY <2>1, DirectoriesAre
    <3> QED
      BY <1>3, <1>4, <2>1, <3>1, <3>2, Zenon
  <2>3. rank[c] \in Nat /\ rank[r[i]] \in Nat
    BY <2>2 DEF IsRank
  <2>4. c # r[i] /\ ~(rank[r[i]] < rank[c])
    BY <2>2, <2>3
  <2> QED
    BY <1>3, <1>4, <2>2, <2>4, BelowRank, BelowChild
<1>8. \A i \in DOMAIN r : i \in 1 .. N \/ i \in N + 1 .. N + M
  BY <1>3
<1>9. Apart(r)
  <2> SUFFICES ASSUME NEW i \in DOMAIN r, NEW j \in DOMAIN r, i # j
               PROVE  Below(r[i]) \cap Below(r[j]) = {}
    BY DEF Apart
  <2>1. CASE i \in 1 .. N /\ j \in 1 .. N
    <3>1. r[i] = q[i + 1] /\ r[j] = q[j + 1] /\ i + 1 # j + 1
      BY <1>3, <2>1
    <3> QED
      BY <1>5, <2>1, <3>1 DEF Apart
  <2>2. CASE i \in 1 .. N /\ j \in N + 1 .. N + M
    BY <1>6, <1>7, <2>2
  <2>3. CASE i \in N + 1 .. N + M /\ j \in 1 .. N
    BY <1>6, <1>7, <2>3
  <2>4. CASE i \in N + 1 .. N + M /\ j \in N + 1 .. N + M
    <3>1. r[i] \in Children(c) /\ r[j] \in Children(c) /\ r[i] # r[j] /\ c \in Directories
      BY <1>3, <1>4, <2>4
    <3> QED
      BY <3>1, ChildrenApart
  <2> QED
    BY <1>8, <2>1, <2>2, <2>3, <2>4
<1>10. c \in Below(c) /\ Below(c) \subseteq Area(q) /\ c \in Directories
  BY <1>3, <1>4, BelowIs DEF Area
<1>11. c \notin Area(r)
  BY <1>6, <1>7, <1>8, <1>10 DEF Area
<1>12. ASSUME NEW e \in Area(q) PROVE e = c \/ e \in Area(r)
  <2>1. PICK i \in 1 .. N + 1 : e \in Below(q[i])
    BY <1>3 DEF Area
  <2>2. CASE i = 1
    <3>1. e = c \/ \E x \in Children(c) : e \in Below(x)
      BY <1>4, <1>10, <2>1, <2>2, BelowChild
    <3> QED
      BY <1>3, <1>4, <1>8, <3>1 DEF Area
  <2>3. CASE i # 1
    <3>1. PICK j : j = i - 1
      OBVIOUS
    <3>2. j \in 1 .. N /\ j + 1 = i
      BY <2>3, <3>1
    <3>3. j \in DOMAIN r /\ r[j] = q[i]
      BY <1>3, <3>2
    <3> QED
      BY <2>1, <3>3 DEF Area
  <2> QED
    BY <2>2, <2>3
<1>13. ASSUME NEW e \in Area(r) PROVE e \in Area(q)
  <2>1. PICK i \in DOMAIN r : e \in Below(r[i])
    BY DEF Area
  <2>2. CASE i \in 1 .. N
    <3>1. r[i] = q[i + 1] /\ i + 1 \in DOMAIN q
      BY <1>3, <1>5, <2>2
    <3> QED
      BY <2>1, <3>1 DEF Area
  <2>3. CASE i \in N + 1 .. N + M
    BY <1>7, <1>10, <2>1, <2>3
  <2> QED
    BY <1>8, <2>2, <2>3
<1>14. Area(q) = {c} \cup Area(r)
  BY <1>10, <1>12, <1>13
<1> QED
  BY <1>1, <1>3, <1>4, <1>9, <1>10, <1>11, <1>14

LEMMA ConsIs ==
    ASSUME NEW S, NEW x \in S, NEW u \in Seq(S), IsInjective(u), x \notin Range(u)
    PROVE  /\ << x >> \o u \in Seq(S) /\ IsInjective(<< x >> \o u)
           /\ Range(<< x >> \o u) = {x} \cup Range(u)
<1>1. PICK v : v = << x >> \o u
  OBVIOUS
<1>2. PICK N \in Nat : Len(u) = N /\ DOMAIN u = 1 .. N
  OBVIOUS
<1>3. v \in Seq(S) /\ Len(v) = N + 1 /\ DOMAIN v = 1 .. N + 1
  BY <1>1, <1>2
<1>4. v[1] = x
  BY <1>1
<1>5. ASSUME NEW i \in 1 .. N + 1, i # 1 PROVE v[i] = u[i - 1] /\ i - 1 \in DOMAIN u
  BY <1>1, <1>2, <1>5
<1>6. ASSUME NEW i \in 1 .. N PROVE v[i + 1] = u[i] /\ i + 1 \in DOMAIN v
  BY <1>1, <1>2, <1>3
<1>7. ASSUME NEW i \in DOMAIN v, NEW j \in DOMAIN v, v[i] = v[j] PROVE i = j
  <2>1. CASE i = 1 /\ j = 1
    BY <2>1
  <2>2. CASE i = 1 /\ j # 1
    BY <1>3, <1>4, <1>5, <1>7, <2>2 DEF Range
  <2>3. CASE i # 1 /\ j = 1
    BY <1>3, <1>4, <1>5, <1>7, <2>3 DEF Range
  <2>4. CASE i # 1 /\ j # 1
    <3>1. u[i - 1] = u[j - 1] /\ i - 1 \in DOMAIN u /\ j - 1 \in DOMAIN u
      BY <1>3, <1>5, <1>7, <2>4
    <3>2. i - 1 = j - 1
      BY <3>1 DEF IsInjective
    <3> QED
      BY <1>3, <3>2
  <2> QED
    BY <2>1, <2>2, <2>3, <2>4
<1>8. Range(v) = {x} \cup Range(u)
  <2>1. ASSUME NEW i \in DOMAIN v PROVE v[i] = x \/ v[i] \in Range(u)
    BY <1>3, <1>4, <1>5 DEF Range
  <2>2. ASSUME NEW i \in DOMAIN u PROVE u[i] \in Range(v)
    BY <1>2, <1>6 DEF Range
  <2>3. x \in Range(v)
    BY <1>3, <1>4 DEF Range
  <2> QED
    BY <2>1, <2>2, <2>3 DEF Range
<1>9. IsInjective(v)
  BY <1>7 DEF IsInjective
<1> QED
  BY <1>1, <1>3, <1>8, <1>9

FindsAll(g, q, n) ==
    /\ g[q] \in Seq(Directories) /\ IsInjective(g[q])
    /\ Range(g[q]) = {c \in Area(q) : Exists(c, n)}

LEMMA FindSees ==
    ASSUME KeysAreSound, NEW rank, IsRank(rank), IsFiniteSet(DOMAIN store), NEW n,
           NEW g, IsFind(g, n), NEW q0 \in Seq(Directories), Apart(q0)
    PROVE  FindsAll(g, q0, n)
<1> DEFINE w(q) == Cardinality(Spots(q))
           S == {w(q) : q \in {p \in Seq(Directories) : Apart(p) /\ ~FindsAll(g, p, n)}}
<1> SUFFICES ASSUME S # {} PROVE FALSE
  OBVIOUS
<1>0. S \subseteq Nat
  BY SpotsFinite
<1>1. PICK i \in S : \A j \in S : i <= j
  <2> HIDE DEF S
  <2> QED
    BY <1>0, LeastNat
<1>2. PICK q \in Seq(Directories) : Apart(q) /\ ~FindsAll(g, q, n) /\ i = w(q)
  BY <1>1
<1>3. g[q] = IF q = << >> THEN << >> ELSE Here(q, n) \o g[NextQueue(q)]
  BY DEF IsFind
<1>4. q # << >>
  <2> SUFFICES ASSUME q = << >> PROVE FALSE
    OBVIOUS
  <2>1. g[q] = << >> /\ Area(q) = {}
    BY <1>3 DEF Area
  <2>2. << >> \in Seq(Directories) /\ IsInjective(<< >>) /\ Range(<< >>) = {}
    BY DEF IsInjective, Range
  <2>3. FindsAll(g, q, n)
    BY <2>1, <2>2 DEF FindsAll
  <2> QED
    BY <1>2, <2>3
<1>5. PICK r : r = NextQueue(q)
  OBVIOUS
<1>6. /\ r \in Seq(Directories) /\ w(r) < w(q) /\ Apart(r)
      /\ Head(q) \in Directories /\ Head(q) \notin Area(r)
      /\ Area(q) = {Head(q)} \cup Area(r)
  BY <1>2, <1>4, <1>5, QueueShrinks, AreaShrinks
<1>7. FindsAll(g, r, n)
  <2>1. w(q) \in Nat /\ w(r) \in Nat
    BY <1>6, SpotsFinite
  <2>2. w(r) \notin S
    <3> HIDE DEF S, w
    <3> QED
      BY <1>1, <1>2, <1>6, <2>1
  <2> QED
    BY <1>6, <2>2
<1>8. /\ g[r] \in Seq(Directories) /\ IsInjective(g[r])
      /\ Range(g[r]) = {c \in Area(r) : Exists(c, n)}
  BY <1>7 DEF FindsAll
<1>9. CASE Exists(Head(q), n)
  <2>1. g[q] = << Head(q) >> \o g[r]
    BY <1>3, <1>4, <1>5, <1>9 DEF Here
  <2>2. Head(q) \notin Range(g[r])
    BY <1>6, <1>8
  <2>3. /\ g[q] \in Seq(Directories) /\ IsInjective(g[q])
        /\ Range(g[q]) = {Head(q)} \cup Range(g[r])
    BY <1>6, <1>8, <2>1, <2>2, ConsIs
  <2>4. FindsAll(g, q, n)
    BY <1>6, <1>8, <1>9, <2>3 DEF FindsAll
  <2> QED
    BY <1>2, <2>4
<1>10. CASE ~Exists(Head(q), n)
  <2>1. g[q] = << >> \o g[r]
    BY <1>3, <1>4, <1>5, <1>10 DEF Here
  <2>2. g[q] = g[r]
    BY <1>8, <2>1
  <2>3. FindsAll(g, q, n)
    BY <1>6, <1>8, <1>10, <2>2 DEF FindsAll
  <2> QED
    BY <1>2, <2>3
<1> QED
  BY <1>9, <1>10

(* What find answers. *)
LEMMA FindFollows == TreeInv /\ IsFiniteSet(DOMAIN store) => FindIsComplete
<1> SUFFICES ASSUME TreeInv, IsFiniteSet(DOMAIN store), NEW n \in Names
             PROVE  /\ IsInjective(Find(n))
                    /\ Range(Find(n)) = {c \in Directories : Exists(c, n)}
  BY DEF FindIsComplete
<1>1. KeysAreSound
  BY DEF TreeInv
<1>2. PICK rank : IsRank(rank)
  BY DEF TreeInv
<1>3. PICK g : IsFind(g, n) /\ Find(n) = g[<< Root >>]
  BY <1>1, <1>2, FindIs
<1>4. Root \in Directories
  BY DEF Directories
<1>5. << Root >> \in Seq(Directories) /\ DOMAIN << Root >> = {1} /\ << Root >>[1] = Root
  BY <1>4
<1>6. Apart(<< Root >>) /\ Area(<< Root >>) = Directories
  BY <1>1, <1>2, <1>5, AllBelowRoot DEF Apart, Area
<1>7. FindsAll(g, << Root >>, n)
  BY <1>1, <1>2, <1>3, <1>5, <1>6, FindSees
<1> QED
  BY <1>3, <1>6, <1>7 DEF FindsAll

LEMMA FiniteInit == CommandsInit => IsFiniteSet(DOMAIN store)
<1> SUFFICES ASSUME CommandsInit PROVE IsFiniteSet(DOMAIN store)
  OBVIOUS
<1>1. DOMAIN store = {Root} \X DOMAIN InitialFiles
  BY DEF CommandsInit
<1> QED
  <2>1. IsFiniteSet({Root}) /\ IsFiniteSet(DOMAIN InitialFiles)
    BY FileCommandsAssumption, FS_Singleton
  <2>2. IsFiniteSet({Root} \X DOMAIN InitialFiles)
    BY <2>1, FS_Product
  <2> QED
    BY <1>1, <2>2

LEMMA FiniteStep ==
    IsFiniteSet(DOMAIN store) /\ [CommandsNext]_commandVars => IsFiniteSet(DOMAIN store')
<1> SUFFICES ASSUME IsFiniteSet(DOMAIN store), [CommandsNext]_commandVars
             PROVE  IsFiniteSet(DOMAIN store')
  OBVIOUS
<1>1. ASSUME UNCHANGED storeVars PROVE IsFiniteSet(DOMAIN store')
  BY <1>1 DEF storeVars
<1>2. ASSUME NEW k, NEW v, store' = With(k, v) PROVE IsFiniteSet(DOMAIN store')
  <2>1. DOMAIN store' = DOMAIN store \cup {k}
    BY <1>2 DEF With
  <2> QED
    BY <2>1, FS_AddElement
<1>3. ASSUME NEW c, NEW n, RemoveTwice(c, n) PROVE IsFiniteSet(DOMAIN store')
  <2>1. DOMAIN store' = DOMAIN store \ {<< c, n >>} \/ UNCHANGED storeVars
    BY <1>3, DeleteDeletes DEF RemoveTwice
  <2> QED
    BY <1>1, <2>1, FS_RemoveElement
<1>4. ASSUME NEW n \in Names, Mkdir(n) PROVE IsFiniteSet(DOMAIN store')
  BY <1>2, <1>4 DEF Mkdir, NewFolder, MakeFolder, Add
<1>5. ASSUME NEW n \in Names, Rm(n) \/ BeginCopy(n) PROVE IsFiniteSet(DOMAIN store')
  BY <1>3, <1>5 DEF Rm, BeginCopy
<1>6. CASE WriteCopy
  BY <1>2, <1>6 DEF WriteCopy, Copied, NewFolder, MakeFolder, Add
<1>7. CASE RemoveSource
  BY <1>3, <1>7 DEF RemoveSource
<1>8. CASE CdUp \/ CdStep \/ EndCommand \/ LeaveFolder \/ WriteFails \/ GoesAstray \/ Report
           \/ Reboot \/ UNCHANGED commandVars
  BY <1>1, <1>8 DEF CdUp, CdStep, EndCommand, LeaveFolder, WriteFails, GoesAstray, Report,
                    Reboot, commandVars
<1>9. ASSUME NEW path \in Paths, Cd(path) PROVE IsFiniteSet(DOMAIN store')
  BY <1>1, <1>9 DEF Cd
<1>10. ASSUME NEW n \in Names, NEW path \in Paths, Cp(n, path) \/ Mv(n, path)
       PROVE  IsFiniteSet(DOMAIN store')
  BY <1>1, <1>10 DEF Cp, Mv, Transfer
<1>11. ASSUME NEW n \in Names, EnterFolder(n) PROVE IsFiniteSet(DOMAIN store')
  BY <1>1, <1>11 DEF EnterFolder
<1>12. ASSUME NEW n \in Names, TransferGoesAstray(n) PROVE IsFiniteSet(DOMAIN store')
  BY <1>1, <1>12 DEF TransferGoesAstray
<1>13. CASE WriteIsCutShort
  BY <1>2, <1>13 DEF WriteIsCutShort
<1> QED
  BY <1>4, <1>5, <1>6, <1>7, <1>8, <1>9, <1>10, <1>11, <1>12, <1>13 DEF CommandsNext, CommandStep

(* find names every directory that has the name, and each one once, in any *)
(* tree of folders that the commands can make.                             *)
THEOREM FindFindsAll == CommandsSpec => []FindIsComplete
<1>1. CommandsInv /\ TreeInv /\ IsFiniteSet(DOMAIN store) /\ [CommandsNext]_commandVars
        => (CommandsInv /\ TreeInv /\ IsFiniteSet(DOMAIN store))'
  BY CommandsInvStep, TreeStep, FiniteStep
<1> QED
  BY <1>1, FindFollows, CommandsInvInit, TreeInit, FiniteInit, PTL DEF CommandsSpec
=============================================================================
