---------------------------- MODULE PagingProofs ----------------------------
(***************************************************************************)
(* Proofs about the memory manager, for any number of frames, page         *)
(* directories and pages.                                                  *)
(*                                                                         *)
(* PagingInv is inductive.  The counter free_page_frame_count stays in     *)
(* range only because it is tied to the number of entries that are present *)
(* (FrameConservation); the scan for an unused directory succeeds only     *)
(* because page_dir_free is at most the number of unused directories.      *)
(***************************************************************************)
EXTENDS Paging, FiniteSetTheorems, TLAPS

FramesType ==
    /\ page_frame_map \in [Frames -> BOOLEAN]
    /\ free_page_frame_count \in Nat
    /\ next_free_frame \in Frames \ {0}

DirectoriesType ==
    /\ page_directory_used \in [Dirs -> BOOLEAN]
    /\ page_dir_free \in Nat
    /\ page_table \in [Dirs -> [Pages -> (Frames \ {0}) \cup {NotPresent}]]

Unused == {d \in Dirs : ~page_directory_used[d]}

PagingInv ==
    /\ FramesType
    /\ DirectoriesType
    /\ NothingFreeBelowNext
    /\ FrameConservation
    /\ NoFrameLost
    /\ UnusedDirectoryIsEmpty
    /\ page_dir_free <= Cardinality(Unused)

-----------------------------------------------------------------------------
(* Finite sets the counters are compared with. *)
LEMMA DirsFinite ==
    IsFiniteSet(Dirs) /\ Cardinality(Dirs) = PAGING_DIRECTORY_TABLE_MAX_COUNT
BY FS_Interval, DirsAssumption DEF Dirs

LEMMA EntriesFinite ==
    /\ IsFiniteSet(PresentEntries)
    /\ \A d : IsFiniteSet(EntriesOf(d))
    /\ Cardinality(PresentEntries) \in Nat
<1>1. IsFiniteSet(Dirs \X Pages)
  <2>1. IsFiniteSet(Pages)
    BY FS_Interval, PagesAssumption DEF Pages
  <2> QED BY <2>1, DirsFinite, FS_Product
<1>2. IsFiniteSet(PresentEntries)
  BY <1>1, FS_Subset DEF PresentEntries
<1>3. ASSUME NEW d PROVE IsFiniteSet(EntriesOf(d))
  BY <1>2, FS_Subset DEF EntriesOf
<1> QED BY <1>2, <1>3, FS_CardinalityType

LEMMA UnusedFinite ==
    IsFiniteSet(Unused) /\ Cardinality(Unused) \in Nat
BY DirsFinite, FS_Subset, FS_CardinalityType DEF Unused

(* An entry that is not present is the only one an allocation adds.        *)
LEMMA PresentAfterMapping ==
    ASSUME DirectoriesType, NEW d \in Dirs, NEW v \in Pages, NEW f \in Frames \ {0},
           page_table[d][v] = NotPresent,
           page_table' = [page_table EXCEPT ![d][v] = f]
    PROVE  /\ PresentEntries' = PresentEntries \cup {<< d, v >>}
           /\ << d, v >> \notin PresentEntries
<1>1. f # NotPresent
  BY FramesAssumption DEF Frames, NotPresent
<1>2. ASSUME NEW e \in Dirs \X Pages
      PROVE  page_table'[e[1]][e[2]] = IF e = << d, v >> THEN f ELSE page_table[e[1]][e[2]]
  BY DEF DirectoriesType
<1> QED BY <1>1, <1>2 DEF PresentEntries

LEMMA PresentAfterUnmapping ==
    ASSUME DirectoriesType, NEW d \in Dirs, NEW v \in Pages,
           page_table[d][v] # NotPresent,
           page_table' = [page_table EXCEPT ![d][v] = NotPresent]
    PROVE  /\ PresentEntries' = PresentEntries \ {<< d, v >>}
           /\ << d, v >> \in PresentEntries
<1>1. ASSUME NEW e \in Dirs \X Pages
      PROVE  page_table'[e[1]][e[2]]
                = IF e = << d, v >> THEN NotPresent ELSE page_table[e[1]][e[2]]
  BY DEF DirectoriesType
<1> QED BY <1>1 DEF PresentEntries

LEMMA PresentAfterClearing ==
    ASSUME DirectoriesType, NEW d \in Dirs,
           page_table' = [page_table EXCEPT ![d] = [v \in Pages |-> NotPresent]]
    PROVE  PresentEntries' = PresentEntries \ EntriesOf(d)
<1>1. ASSUME NEW e \in Dirs \X Pages
      PROVE  page_table'[e[1]][e[2]]
                = IF e[1] = d THEN NotPresent ELSE page_table[e[1]][e[2]]
  BY DEF DirectoriesType
<1> QED BY <1>1 DEF PresentEntries, EntriesOf

(* Removing a directory's entries removes as many as it has.               *)
LEMMA CardinalityAfterClearing ==
    ASSUME NEW d \in Dirs
    PROVE  /\ Cardinality(PresentEntries \ EntriesOf(d))
                = Cardinality(PresentEntries) - Cardinality(EntriesOf(d))
           /\ Cardinality(EntriesOf(d)) \in Nat
<1>1. PresentEntries \cap EntriesOf(d) = EntriesOf(d)
  BY DEF EntriesOf
<1>2. IsFiniteSet(PresentEntries) /\ IsFiniteSet(EntriesOf(d))
  BY EntriesFinite
<1>3. Cardinality(EntriesOf(d)) \in Nat
  BY <1>2, FS_CardinalityType, Zenon
<1>4. Cardinality(PresentEntries \ EntriesOf(d))
        = Cardinality(PresentEntries) - Cardinality(PresentEntries \cap EntriesOf(d))
  BY <1>2, FS_Difference, Zenon
<1> QED BY <1>1, <1>3, <1>4

-----------------------------------------------------------------------------
(* Each procedure preserves the invariant.                                 *)
LEMMA InitEstablishes == PagingInit => PagingInv
<1> SUFFICES ASSUME PagingInit PROVE PagingInv
  OBVIOUS
<1>1. FramesType /\ DirectoriesType
  BY FramesAssumption, DirsAssumption
  DEF PagingInit, FramesType, DirectoriesType, Frames, NotPresent
<1>2. PresentEntries = {}
  BY DEF PagingInit, PresentEntries
<1>3. NothingFreeBelowNext
  <2> SUFFICES ASSUME NEW f \in Frames, f < 1 PROVE page_frame_map[f]
    BY DEF PagingInit, NothingFreeBelowNext
  <2>1. f = 0
    BY FramesAssumption DEF Frames
  <2> QED BY <2>1 DEF PagingInit
<1>4. NoFrameLost
  BY DEF PagingInit, NoFrameLost
<1>5. FrameConservation
  BY <1>2, FS_EmptySet, FramesAssumption DEF PagingInit, FrameConservation
<1>6. UnusedDirectoryIsEmpty
  BY <1>2 DEF UnusedDirectoryIsEmpty, EntriesOf
<1>7. page_dir_free <= Cardinality(Unused)
  <2>1. Unused = Dirs
    BY DEF PagingInit, Unused
  <2> QED BY <2>1, DirsFinite, DirsAssumption DEF PagingInit
<1> QED BY <1>1, <1>3, <1>4, <1>5, <1>6, <1>7 DEF PagingInv

LEMMA CreatePreserves ==
    ASSUME PagingInv, NEW d \in Dirs, CreateNewPageDirectory(d)
    PROVE  PagingInv'
<1> USE DEF PagingInv, CreateNewPageDirectory, FirstUnusedDirectory
<1>1. FramesType' /\ DirectoriesType'
  BY DEF FramesType, DirectoriesType, frameVars
<1>2. PresentEntries' = PresentEntries
  BY DEF PresentEntries
<1>3. NothingFreeBelowNext' /\ FrameConservation' /\ NoFrameLost'
  BY <1>2 DEF NothingFreeBelowNext, FrameConservation, NoFrameLost, frameVars
<1>4. UnusedDirectoryIsEmpty'
  BY <1>2 DEF UnusedDirectoryIsEmpty, DirectoriesType, EntriesOf
<1>5. (page_dir_free <= Cardinality(Unused))'
  <2>1. Unused' = Unused \ {d} /\ d \in Unused
    BY DEF Unused, DirectoriesType
  <2>2. Cardinality(Unused') = Cardinality(Unused) - 1
    BY <2>1, UnusedFinite, FS_RemoveElement
  <2> QED BY <2>2, UnusedFinite DEF DirectoriesType
<1> QED BY <1>1, <1>3, <1>4, <1>5

(* The search ends above the frame that was taken, or not at all. *)
LEMMA AllocatePreserves ==
    ASSUME PagingInv, NEW d \in Dirs, NEW v \in Pages,
           page_directory_used[d], page_table[d][v] = NotPresent,
           AllocateUserPageFrame(d, v)
    PROVE  PagingInv'
<1> DEFINE phy == next_free_frame
<1>0. CASE free_page_frame_count = 0
  BY <1>0
  DEF AllocateUserPageFrame, pagingVars, PagingInv, FramesType, DirectoriesType,
      NothingFreeBelowNext, FrameConservation, NoFrameLost, UnusedDirectoryIsEmpty,
      PresentEntries, EntriesOf, Unused
<1>1. CASE free_page_frame_count # 0
  <2> USE DEF PagingInv
  <2>1. /\ free_page_frame_count' = free_page_frame_count - 1
        /\ page_frame_map' = [page_frame_map EXCEPT ![phy] = TRUE]
        /\ AdvanceNextFree(phy)
        /\ page_table' = [page_table EXCEPT ![d][v] = phy]
        /\ UNCHANGED << page_directory_used, page_dir_free >>
    BY <1>1 DEF AllocateUserPageFrame
  <2>2. phy \in Frames \ {0}
    BY DEF FramesType
  <2>3. /\ PresentEntries' = PresentEntries \cup {<< d, v >>}
        /\ << d, v >> \notin PresentEntries
    BY <2>1, <2>2, PresentAfterMapping
  <2>4. FramesType'
    BY <1>1, <2>1, <2>2 DEF FramesType, AdvanceNextFree, FirstFreeAbove, Frames
  <2>5. DirectoriesType'
    BY <2>1, <2>2 DEF DirectoriesType
  <2>6. NothingFreeBelowNext'
    BY <2>1, <2>2
    DEF NothingFreeBelowNext, FramesType, AdvanceNextFree, FirstFreeAbove, Frames
  <2>7. FrameConservation'
    <3>1. Cardinality(PresentEntries') = Cardinality(PresentEntries) + 1
      BY <2>3, EntriesFinite, FS_AddElement
    <3> QED BY <2>1, <3>1, EntriesFinite, FramesAssumption DEF FrameConservation, FramesType
  <2>8. NoFrameLost'
    <3> SUFFICES ASSUME NEW f \in Frames \ {0}, page_frame_map'[f]
                 PROVE  \E e \in PresentEntries' : page_table'[e[1]][e[2]] = f
      BY DEF NoFrameLost
    <3>1. CASE f = phy
      BY <2>1, <2>3, <3>1 DEF DirectoriesType
    <3>2. CASE f # phy
      <4>1. PICK e \in PresentEntries : page_table[e[1]][e[2]] = f
        BY <2>1, <3>2 DEF NoFrameLost, FramesType
      <4>2. page_table'[e[1]][e[2]] = f
        BY <2>1, <2>3, <4>1 DEF DirectoriesType, PresentEntries
      <4> QED BY <2>3, <4>2
    <3> QED BY <3>1, <3>2
  <2>9. UnusedDirectoryIsEmpty'
    BY <2>1, <2>3 DEF UnusedDirectoryIsEmpty, EntriesOf
  <2>10. (page_dir_free <= Cardinality(Unused))'
    BY <2>1 DEF Unused
  <2> QED BY <2>4, <2>5, <2>6, <2>7, <2>8, <2>9, <2>10
<1> QED BY <1>0, <1>1

LEMMA FreePagePreserves ==
    ASSUME PagingInv, NEW d \in Dirs, NEW v \in Pages, FreeUserPageFrame(d, v)
    PROVE  PagingInv'
<1> DEFINE phy == page_table[d][v]
<1>0. CASE phy = NotPresent
  BY <1>0
  DEF FreeUserPageFrame, pagingVars, PagingInv, FramesType, DirectoriesType,
      NothingFreeBelowNext, FrameConservation, NoFrameLost, UnusedDirectoryIsEmpty,
      PresentEntries, EntriesOf, Unused
<1>1. CASE phy # NotPresent
  <2> USE DEF PagingInv
  <2>1. /\ free_page_frame_count' = free_page_frame_count + 1
        /\ page_frame_map' = [page_frame_map EXCEPT ![phy] = FALSE]
        /\ next_free_frame' = IF next_free_frame > phy THEN phy ELSE next_free_frame
        /\ page_table' = [page_table EXCEPT ![d][v] = NotPresent]
        /\ UNCHANGED << page_directory_used, page_dir_free >>
    BY <1>1 DEF FreeUserPageFrame, LowerNextFree
  <2>2. phy \in Frames \ {0}
    BY <1>1 DEF DirectoriesType
  <2>3. PresentEntries' = PresentEntries \ {<< d, v >>} /\ << d, v >> \in PresentEntries
    BY <1>1, <2>1, PresentAfterUnmapping
  <2>4. FramesType'
    BY <2>1, <2>2 DEF FramesType
  <2>5. DirectoriesType'
    BY <2>1 DEF DirectoriesType
  <2>6. NothingFreeBelowNext'
    BY <2>1, <2>2 DEF NothingFreeBelowNext, FramesType, Frames
  <2>7. FrameConservation'
    <3>1. Cardinality(PresentEntries') = Cardinality(PresentEntries) - 1
      BY <2>3, EntriesFinite, FS_RemoveElement
    <3> QED BY <2>1, <3>1, EntriesFinite, FramesAssumption DEF FrameConservation, FramesType
  <2>8. NoFrameLost'
    <3> SUFFICES ASSUME NEW f \in Frames \ {0}, page_frame_map'[f]
                 PROVE  \E e \in PresentEntries' : page_table'[e[1]][e[2]] = f
      BY DEF NoFrameLost
    <3>1. f # phy /\ page_frame_map[f]
      BY <2>1, <2>2 DEF FramesType
    <3>2. PICK e \in PresentEntries : page_table[e[1]][e[2]] = f
      BY <3>1 DEF NoFrameLost
    <3>3. e # << d, v >>
      BY <3>1, <3>2
    <3>4. page_table'[e[1]][e[2]] = f
      BY <2>1, <3>2, <3>3 DEF DirectoriesType, PresentEntries
    <3> QED BY <2>3, <3>3, <3>4
  <2>9. UnusedDirectoryIsEmpty'
    BY <2>1, <2>3 DEF UnusedDirectoryIsEmpty, EntriesOf
  <2>10. (page_dir_free <= Cardinality(Unused))'
    BY <2>1 DEF Unused
  <2> QED BY <2>4, <2>5, <2>6, <2>7, <2>8, <2>9, <2>10
<1> QED BY <1>0, <1>1

LEMMA FreeDirectoryPreserves ==
    ASSUME PagingInv, NEW d \in Dirs, FreePageDirectory(d)
    PROVE  PagingInv'
<1> USE DEF PagingInv
<1>1. /\ page_directory_used' = [page_directory_used EXCEPT ![d] = FALSE]
      /\ free_page_frame_count' = free_page_frame_count + Cardinality(EntriesOf(d))
      /\ page_frame_map' = [f \in Frames |-> page_frame_map[f] /\ f \notin FramesOf(d)]
      /\ next_free_frame' \in FramesOf(d) \cup {next_free_frame}
      /\ \A f \in FramesOf(d) \cup {next_free_frame} : next_free_frame' <= f
      /\ page_table' = [page_table EXCEPT ![d] = [v \in Pages |-> NotPresent]]
      /\ page_dir_free' = page_dir_free
  BY DEF FreePageDirectory
<1>2. FramesOf(d) \subseteq Frames \ {0}
  BY DEF FramesOf, DirectoriesType
<1>3. PresentEntries' = PresentEntries \ EntriesOf(d)
  BY <1>1, PresentAfterClearing
<1>4. FramesType'
  <2>1. page_frame_map' \in [Frames -> BOOLEAN]
    BY <1>1 DEF FramesType
  <2>2. free_page_frame_count' \in Nat
    <3>1. free_page_frame_count' = free_page_frame_count + Cardinality(EntriesOf(d))
      BY <1>1
    <3>2. Cardinality(EntriesOf(d)) \in Nat
      BY CardinalityAfterClearing
    <3> QED BY <3>1, <3>2 DEF FramesType
  <2>3. next_free_frame' \in Frames \ {0}
    BY <1>1, <1>2 DEF FramesType
  <2> QED BY <2>1, <2>2, <2>3 DEF FramesType
<1>5. DirectoriesType'
  BY <1>1 DEF DirectoriesType
<1>6. NothingFreeBelowNext'
  <2> SUFFICES ASSUME NEW f \in Frames, f < next_free_frame'
               PROVE  page_frame_map'[f]
    BY DEF NothingFreeBelowNext
  <2>1. next_free_frame' <= next_free_frame /\ f \notin FramesOf(d)
    BY <1>1, <1>2, <1>4 DEF FramesType, Frames
  <2>2. page_frame_map[f]
    BY <1>4, <2>1 DEF NothingFreeBelowNext, FramesType, Frames
  <2> QED BY <1>1, <2>1, <2>2
<1>7. FrameConservation'
  BY <1>1, <1>3, EntriesFinite, CardinalityAfterClearing, FramesAssumption
  DEF FrameConservation, FramesType
<1>8. NoFrameLost'
  <2> SUFFICES ASSUME NEW f \in Frames \ {0}, page_frame_map'[f]
               PROVE  \E e \in PresentEntries' : page_table'[e[1]][e[2]] = f
    BY DEF NoFrameLost
  <2>1. page_frame_map[f] /\ f \notin FramesOf(d)
    BY <1>1
  <2>2. PICK e \in PresentEntries : page_table[e[1]][e[2]] = f
    BY <2>1 DEF NoFrameLost
  <2>3. e[1] # d
    BY <2>1, <2>2 DEF FramesOf, PresentEntries
  <2>4. page_table'[e[1]][e[2]] = f
    BY <1>1, <2>2, <2>3 DEF DirectoriesType, PresentEntries
  <2> QED BY <1>3, <2>2, <2>3, <2>4 DEF EntriesOf
<1>9. UnusedDirectoryIsEmpty'
  BY <1>1, <1>3 DEF UnusedDirectoryIsEmpty, EntriesOf, DirectoriesType
<1>10. (page_dir_free <= Cardinality(Unused))'
  <2>1. Unused' = Unused \cup {d}
    BY <1>1 DEF Unused, DirectoriesType
  <2>2. Cardinality(Unused) <= Cardinality(Unused')
    <3>1. Cardinality(Unused \cup {d}) = IF d \in Unused THEN Cardinality(Unused)
                                         ELSE Cardinality(Unused) + 1
      BY UnusedFinite, FS_AddElement, Zenon
    <3>2. Cardinality(Unused) \in Nat
      BY UnusedFinite, Zenon
    <3> QED BY <2>1, <3>1, <3>2
  <2>3. Cardinality(Unused') \in Nat
    BY <2>1, UnusedFinite, FS_AddElement, FS_CardinalityType
  <2> QED BY <1>1, <2>2, <2>3, UnusedFinite DEF DirectoriesType
<1> QED BY <1>4, <1>5, <1>6, <1>7, <1>8, <1>9, <1>10

-----------------------------------------------------------------------------
LEMMA StepPreserves == PagingInv /\ [PagingNext]_pagingVars => PagingInv'
<1> SUFFICES ASSUME PagingInv, [PagingNext]_pagingVars PROVE PagingInv'
  OBVIOUS
<1>1. ASSUME NEW d \in Dirs, CreateNewPageDirectory(d) PROVE PagingInv'
  BY <1>1, CreatePreserves
<1>2. ASSUME NEW d \in Dirs, NEW v \in Pages, page_directory_used[d],
             page_table[d][v] = NotPresent, AllocateUserPageFrame(d, v)
      PROVE  PagingInv'
  BY <1>2, AllocatePreserves
<1>3. ASSUME NEW d \in Dirs, NEW v \in Pages, FreeUserPageFrame(d, v) PROVE PagingInv'
  BY <1>3, FreePagePreserves
<1>4. ASSUME NEW d \in Dirs, FreePageDirectory(d) PROVE PagingInv'
  BY <1>4, FreeDirectoryPreserves
<1>5. CASE UNCHANGED pagingVars
  BY <1>5
  DEF pagingVars, PagingInv, FramesType, DirectoriesType,
      NothingFreeBelowNext, FrameConservation, NoFrameLost, UnusedDirectoryIsEmpty,
      PresentEntries, EntriesOf, Unused
<1> QED BY <1>1, <1>2, <1>3, <1>4, <1>5 DEF PagingNext

(* PagingInv holds of every behaviour of the memory manager.               *)
THEOREM PagingInvariance == PagingSpec => []PagingInv
BY InitEstablishes, StepPreserves, PTL DEF PagingSpec

LEMMA InvImpliesType == PagingInv => PagingTypeOK
<1> SUFFICES ASSUME PagingInv PROVE PagingTypeOK
  OBVIOUS
<1>1. free_page_frame_count \in 0 .. PAGE_FRAME_MAX_COUNT - 1
  BY EntriesFinite, FramesAssumption DEF PagingInv, FramesType, FrameConservation
<1>2. page_dir_free \in 0 .. PAGING_DIRECTORY_TABLE_MAX_COUNT
  <2>1. Cardinality(Unused) <= PAGING_DIRECTORY_TABLE_MAX_COUNT
    BY DirsFinite, FS_Subset DEF Unused
  <2> QED BY <2>1, UnusedFinite, DirsAssumption DEF PagingInv, DirectoriesType
<1> QED BY <1>1, <1>2 DEF PagingInv, FramesType, DirectoriesType, PagingTypeOK

(* The counters and tables of paging.c keep their types: in particular     *)
(* free_page_frame_count never passes the size of memory nor wraps below 0 *)
(* and frame 0, the kernel's, is never mapped.                             *)
THEOREM TypeCorrect == PagingSpec => []PagingTypeOK
BY PagingInvariance, InvImpliesType, PTL

(* Each frame is counted free or backs one entry, and a frame marked in    *)
(* use can still be released: no sequence of calls leaks memory.           *)
THEOREM FramesAreConserved == PagingSpec => [](FrameConservation /\ NoFrameLost)
<1>1. PagingInv => FrameConservation /\ NoFrameLost
  BY DEF PagingInv
<1> QED BY <1>1, PagingInvariance, PTL

(* The upward search of an allocation never passes over a free frame.      *)
THEOREM SearchStartsLow == PagingSpec => []NothingFreeBelowNext
<1>1. PagingInv => NothingFreeBelowNext
  BY DEF PagingInv
<1> QED BY <1>1, PagingInvariance, PTL

(* A directory that is handed out is empty, and there is one to hand out   *)
(* whenever page_dir_free says so.                                         *)
THEOREM DirectoriesAreClean ==
    PagingSpec => [](UnusedDirectoryIsEmpty /\ SearchFindsDirectory)
<1>1. PagingInv => UnusedDirectoryIsEmpty /\ SearchFindsDirectory
  <2> SUFFICES ASSUME PagingInv, page_dir_free > 0 PROVE Unused # {}
    BY DEF PagingInv, SearchFindsDirectory, Unused
  <2>1. Cardinality(Unused) > 0
    BY UnusedFinite DEF PagingInv, DirectoriesType
  <2> QED BY <2>1, FS_EmptySet
<1> QED BY <1>1, PagingInvariance, PTL

-----------------------------------------------------------------------------
(* When no frame is shared.  The search of an allocation that takes the    *)
(* last frame leaves next_free_frame on it (finding shared_frame); as long *)
(* as an allocation leaves some frame free, next_free_frame is free.       *)
MarksInv ==
    /\ NoFrameIsShared
    /\ \A e \in PresentEntries : page_frame_map[page_table[e[1]][e[2]]]

DistinctInv == MarksInv /\ ~page_frame_map[next_free_frame]

(* Memory in which every frame is marked is memory that is counted full.   *)
AllMarked == \A f \in Frames : page_frame_map[f]

LEMMA AllMarkedIsFull == PagingInv /\ AllMarked => free_page_frame_count = 0
<1> SUFFICES ASSUME PagingInv, AllMarked PROVE free_page_frame_count = 0
  OBVIOUS
<1> DEFINE F == [e \in PresentEntries |-> page_table[e[1]][e[2]]]
           T == 1 .. PAGE_FRAME_MAX_COUNT - 1
<1>1. T = Frames \ {0}
  BY FramesAssumption DEF Frames
<1>2. ASSUME NEW e \in PresentEntries PROVE F[e] \in T
  BY <1>1 DEF PagingInv, DirectoriesType, PresentEntries
<1>3. ASSUME NEW f \in T PROVE \E e \in PresentEntries : F[e] = f
  BY <1>1 DEF PagingInv, NoFrameLost, AllMarked
<1>4. F \in [PresentEntries -> T]
  BY <1>2
<1> HIDE DEF T, F
<1>5. F \in Surjection(PresentEntries, T)
  BY <1>3, <1>4 DEF Surjection
<1>6. Cardinality(T) <= Cardinality(PresentEntries)
  BY <1>5, EntriesFinite, FS_Surjection
<1>7. Cardinality(T) = PAGE_FRAME_MAX_COUNT - 1
  BY FS_Interval, FramesAssumption DEF T
<1> QED BY <1>6, <1>7, EntriesFinite, FramesAssumption
        DEF PagingInv, FrameConservation, FramesType

LEMMA AllocateKeepsDistinct ==
    ASSUME PagingInv, PagingInv', DistinctInv, NEW d \in Dirs, NEW v \in Pages,
           page_table[d][v] = NotPresent,
           AllocateUserPageFrame(d, v), free_page_frame_count' # 0
    PROVE  DistinctInv'
<1> DEFINE phy == next_free_frame
<1>1. CASE free_page_frame_count = 0
  BY <1>1 DEF AllocateUserPageFrame, pagingVars
<1>2. CASE free_page_frame_count # 0
  <2>1. /\ page_frame_map' = [page_frame_map EXCEPT ![phy] = TRUE]
        /\ AdvanceNextFree(phy)
        /\ page_table' = [page_table EXCEPT ![d][v] = phy]
    BY <1>2 DEF AllocateUserPageFrame
  <2>2. /\ phy \in Frames \ {0} /\ DirectoriesType
        /\ page_frame_map \in [Frames -> BOOLEAN]
    BY DEF PagingInv, FramesType
  <2>3. PresentEntries' = PresentEntries \cup {<< d, v >>}
    BY <2>1, <2>2, PresentAfterMapping
  <2>4. ASSUME NEW e \in PresentEntries', e # << d, v >>
        PROVE  /\ e \in PresentEntries
               /\ page_table'[e[1]][e[2]] = page_table[e[1]][e[2]]
               /\ page_table[e[1]][e[2]] \in Frames
    BY <2>1, <2>2, <2>3, <2>4 DEF DirectoriesType, PresentEntries
  <2>5. page_table'[d][v] = phy
    BY <2>1, <2>2 DEF DirectoriesType
  <2>6. ASSUME NEW e \in PresentEntries', e # << d, v >>
        PROVE  /\ page_table'[e[1]][e[2]] # phy
               /\ page_frame_map'[page_table'[e[1]][e[2]]]
    BY <2>1, <2>2, <2>4, <2>6 DEF DistinctInv, MarksInv
  <2>7. NoFrameIsShared'
    BY <2>3, <2>4, <2>5, <2>6 DEF DistinctInv, MarksInv, NoFrameIsShared
  <2>8. \A e \in PresentEntries' : page_frame_map'[page_table'[e[1]][e[2]]]
    BY <2>1, <2>2, <2>5, <2>6
  <2>9. ~page_frame_map'[next_free_frame']
    <3>1. CASE \E f \in Frames : FirstFreeAbove(phy, f) /\ next_free_frame' = f
      BY <2>1, <2>2, <3>1 DEF FirstFreeAbove, Frames
    <3>2. CASE \A f \in Frames : f > phy => page_frame_map[f]
      <4>1. \A f \in Frames : page_frame_map'[f]
        BY <2>1, <2>2, <3>2 DEF PagingInv, NothingFreeBelowNext, Frames
      <4>2. (PagingInv /\ AllMarked => free_page_frame_count = 0)'
        BY AllMarkedIsFull, PTL
      <4> QED BY <4>1, <4>2 DEF AllMarked
    <3> QED BY <2>1, <3>1, <3>2 DEF AdvanceNextFree
  <2> QED BY <2>7, <2>8, <2>9 DEF DistinctInv, MarksInv
<1> QED BY <1>1, <1>2

LEMMA FreePageKeepsDistinct ==
    ASSUME PagingInv, DistinctInv, NEW d \in Dirs, NEW v \in Pages,
           FreeUserPageFrame(d, v)
    PROVE  DistinctInv'
<1> DEFINE phy == page_table[d][v]
<1>1. CASE phy = NotPresent
  BY <1>1 DEF FreeUserPageFrame, pagingVars, DistinctInv, MarksInv, NoFrameIsShared,
              PresentEntries
<1>2. CASE phy # NotPresent
  <2>1. /\ page_frame_map' = [page_frame_map EXCEPT ![phy] = FALSE]
        /\ next_free_frame' = LowerNextFree(phy)
        /\ page_table' = [page_table EXCEPT ![d][v] = NotPresent]
    BY <1>2 DEF FreeUserPageFrame
  <2>2. /\ phy \in Frames /\ next_free_frame \in Frames /\ DirectoriesType
        /\ page_frame_map \in [Frames -> BOOLEAN]
    BY <1>2 DEF PagingInv, FramesType, DirectoriesType
  <2>3. PresentEntries' = PresentEntries \ {<< d, v >>} /\ << d, v >> \in PresentEntries
    BY <1>2, <2>1, <2>2, PresentAfterUnmapping
  <2>4. ASSUME NEW e \in PresentEntries'
        PROVE  /\ e \in PresentEntries /\ e # << d, v >>
               /\ page_table'[e[1]][e[2]] = page_table[e[1]][e[2]]
    BY <2>1, <2>2, <2>3 DEF DirectoriesType, PresentEntries
  <2>5. NoFrameIsShared'
    BY <2>4 DEF DistinctInv, MarksInv, NoFrameIsShared
  <2>6. ASSUME NEW e \in PresentEntries'
        PROVE  page_frame_map'[page_table'[e[1]][e[2]]]
    <3>1. page_table[e[1]][e[2]] # phy /\ page_table[e[1]][e[2]] \in Frames
      BY <2>2, <2>3, <2>4 DEF DistinctInv, MarksInv, NoFrameIsShared, DirectoriesType,
                              PresentEntries
    <3> QED BY <2>1, <2>2, <2>4, <3>1 DEF DistinctInv, MarksInv
  <2>7. ~page_frame_map'[next_free_frame']
    BY <2>1, <2>2 DEF LowerNextFree, DistinctInv
  <2> QED BY <2>5, <2>6, <2>7 DEF DistinctInv, MarksInv
<1> QED BY <1>1, <1>2

LEMMA FreeDirectoryKeepsDistinct ==
    ASSUME PagingInv, DistinctInv, NEW d \in Dirs, FreePageDirectory(d)
    PROVE  DistinctInv'
<1>1. /\ page_frame_map' = [f \in Frames |-> page_frame_map[f] /\ f \notin FramesOf(d)]
      /\ next_free_frame' \in FramesOf(d) \cup {next_free_frame}
      /\ page_table' = [page_table EXCEPT ![d] = [v \in Pages |-> NotPresent]]
  BY DEF FreePageDirectory
<1>2. /\ FramesOf(d) \subseteq Frames /\ next_free_frame \in Frames /\ DirectoriesType
      /\ page_frame_map \in [Frames -> BOOLEAN]
  BY DEF FramesOf, PagingInv, DirectoriesType, FramesType
<1>3. PresentEntries' = PresentEntries \ EntriesOf(d)
  BY <1>1, <1>2, PresentAfterClearing
<1>4. ASSUME NEW e \in PresentEntries'
      PROVE  /\ e \in PresentEntries /\ e[1] # d
             /\ page_table'[e[1]][e[2]] = page_table[e[1]][e[2]]
             /\ page_table[e[1]][e[2]] \in Frames
  BY <1>1, <1>2, <1>3 DEF DirectoriesType, PresentEntries, EntriesOf
<1>5. NoFrameIsShared'
  BY <1>4 DEF DistinctInv, MarksInv, NoFrameIsShared
<1>6. ASSUME NEW e \in PresentEntries'
      PROVE  page_frame_map'[page_table'[e[1]][e[2]]]
  <2>1. page_table[e[1]][e[2]] \notin FramesOf(d)
    <3> SUFFICES ASSUME NEW w \in Pages, page_table[d][w] # NotPresent,
                        page_table[e[1]][e[2]] = page_table[d][w]
                 PROVE  FALSE
      BY DEF FramesOf
    <3>1. << d, w >> \in PresentEntries /\ << d, w >> # e
      BY <1>4 DEF PresentEntries
    <3> QED BY <1>4, <3>1 DEF DistinctInv, MarksInv, NoFrameIsShared
  <2> QED BY <1>1, <1>4, <2>1 DEF DistinctInv, MarksInv
<1>7. ~page_frame_map'[next_free_frame']
  BY <1>1, <1>2 DEF DistinctInv
<1> QED BY <1>5, <1>6, <1>7 DEF DistinctInv, MarksInv

LEMMA DistinctStep ==
    PagingInv /\ DistinctInv /\ [PagingNext]_pagingVars /\ (free_page_frame_count > 0)'
        => DistinctInv'
<1> SUFFICES ASSUME PagingInv, DistinctInv, [PagingNext]_pagingVars,
                    (free_page_frame_count > 0)'
             PROVE  DistinctInv'
  OBVIOUS
<1>1. ASSUME NEW d \in Dirs, CreateNewPageDirectory(d) PROVE DistinctInv'
  BY <1>1 DEF CreateNewPageDirectory, frameVars, DistinctInv, MarksInv, NoFrameIsShared,
              PresentEntries
<1>2. ASSUME NEW d \in Dirs, NEW v \in Pages, page_directory_used[d],
             page_table[d][v] = NotPresent, AllocateUserPageFrame(d, v)
      PROVE  DistinctInv'
  BY <1>2, AllocateKeepsDistinct, StepPreserves
<1>3. ASSUME NEW d \in Dirs, NEW v \in Pages, FreeUserPageFrame(d, v) PROVE DistinctInv'
  BY <1>3, FreePageKeepsDistinct
<1>4. ASSUME NEW d \in Dirs, FreePageDirectory(d) PROVE DistinctInv'
  BY <1>4, FreeDirectoryKeepsDistinct
<1>5. CASE UNCHANGED pagingVars
  BY <1>5 DEF pagingVars, DistinctInv, MarksInv, NoFrameIsShared, PresentEntries
<1> QED BY <1>1, <1>2, <1>3, <1>4, <1>5 DEF PagingNext

(* As long as memory is never exhausted no frame backs two entries: the    *)
(* one way to share a frame is an allocation that takes the last one       *)
(* (paging.c:93-98).                                                       *)
THEOREM FramesAreNotShared ==
    PagingSpec /\ [](free_page_frame_count > 0) => []NoFrameIsShared
<1>1. ASSUME PagingInit PROVE DistinctInv
  <2>1. ASSUME NEW e \in Dirs \X Pages PROVE page_table[e[1]][e[2]] = NotPresent
    BY <1>1 DEF PagingInit
  <2>2. PresentEntries = {}
    BY <2>1 DEF PresentEntries
  <2>3. ~page_frame_map[next_free_frame]
    <3>1. 1 \in Frames /\ 1 # 0
      BY FramesAssumption DEF Frames
    <3>2. page_frame_map[1] = (1 = 0) /\ next_free_frame = 1
      BY <1>1, <3>1, Zenon DEF PagingInit
    <3> QED BY <3>1, <3>2, Zenon
  <2> QED BY <2>2, <2>3 DEF DistinctInv, MarksInv, NoFrameIsShared
<1>2. DistinctInv => NoFrameIsShared
  BY DEF DistinctInv, MarksInv
<1> QED BY <1>1, <1>2, DistinctStep, PagingInvariance, PTL DEF PagingSpec
=============================================================================
