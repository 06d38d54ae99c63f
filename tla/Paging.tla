------------------------------- MODULE Paging -------------------------------
(***************************************************************************)
(* The physical memory manager of the kernel (src/src/paging.c): the       *)
(* allocator of 4 MiB page frames and the pool of page directories.        *)
(*                                                                         *)
(* A page directory entry is abstracted to the frame it maps, or           *)
(* NotPresent when its present bit is 0; the flags and the kernel's own    *)
(* entry 0x300, which every directory shares, are left out.  Only the      *)
(* entries a process can own, Pages, are represented.                      *)
(*                                                                         *)
(* A definition whose name says it differs from the one right below it     *)
(* (AllocateCheckRoundsDown, KeepsNext ...) is a plausible bug in that     *)
(* code; no definition uses it.                                            *)
(*                                                                         *)
(* PagingSpec is the allocator under any caller that maps a page only      *)
(* where none is present; Process.tla shows the kernel is such a caller.   *)
(***************************************************************************)
EXTENDS Integers, FiniteSets

CONSTANTS
    PAGE_FRAME_MAX_COUNT,             \* frames of physical memory; 0 is the kernel's
    PAGING_DIRECTORY_TABLE_MAX_COUNT, \* directories in page_directory_list
    PROCESS_PAGE_FRAME_COUNT_MAX      \* pages a process can own

ASSUME FramesAssumption == PAGE_FRAME_MAX_COUNT \in Nat /\ PAGE_FRAME_MAX_COUNT >= 2
ASSUME DirsAssumption   == PAGING_DIRECTORY_TABLE_MAX_COUNT \in Nat \ {0}
ASSUME PagesAssumption  == PROCESS_PAGE_FRAME_COUNT_MAX \in Nat \ {0}

Frames == 0 .. PAGE_FRAME_MAX_COUNT - 1
Dirs   == 0 .. PAGING_DIRECTORY_TABLE_MAX_COUNT - 1
Pages  == 0 .. PROCESS_PAGE_FRAME_COUNT_MAX - 1

NotPresent == -1
PAGE_FRAME_SIZE == 4194304

VARIABLES
    page_frame_map,         \* [Frames -> BOOLEAN], TRUE: the frame is marked in use
    free_page_frame_count,  \* page_manager_state.free_page_frame_count
    next_free_frame,        \* where the next allocation is made
    page_directory_used,    \* [Dirs -> BOOLEAN]
    page_dir_free,          \* page_directory_manager.page_dir_free
    page_table              \* [Dirs -> [Pages -> frame or NotPresent]], page_directory_list

pagingVars == << page_frame_map, free_page_frame_count, next_free_frame,
                 page_directory_used, page_dir_free, page_table >>

frameVars == << page_frame_map, free_page_frame_count, next_free_frame >>

PagingInit ==
    /\ page_frame_map = [f \in Frames |-> f = 0]
    /\ free_page_frame_count = PAGE_FRAME_MAX_COUNT - 1
    /\ next_free_frame = 1
    /\ page_directory_used = [d \in Dirs |-> FALSE]
    /\ page_dir_free = PAGING_DIRECTORY_TABLE_MAX_COUNT
    /\ page_table = [d \in Dirs |-> [v \in Pages |-> NotPresent]]

-----------------------------------------------------------------------------
(* paging_allocate_check: amount is in bytes. *)
AllocateCheckRoundsDown(amount) == amount \div PAGE_FRAME_SIZE <= free_page_frame_count
AllocateCheck(amount) ==
    LET rounding == IF amount % PAGE_FRAME_SIZE # 0 THEN 1 ELSE 0
    IN  (amount \div PAGE_FRAME_SIZE) + rounding <= free_page_frame_count

(* The frame the search of paging_allocate_user_page_frame stops at. *)
FirstFreeAbove(phy, f) ==
    /\ f > phy /\ ~page_frame_map[f]
    /\ \A g \in phy + 1 .. f - 1 : page_frame_map[g]

(* The search leaves next_free_frame alone when it finds nothing. *)
AdvanceByOne(phy) == next_free_frame' = phy + 1
AdvanceNextFree(phy) ==
    \/ \E f \in Frames : FirstFreeAbove(phy, f) /\ next_free_frame' = f
    \/ /\ \A f \in Frames : f > phy => page_frame_map[f]
       /\ next_free_frame' = next_free_frame

AllocateUserPageFrame(d, v) ==
    \/ /\ free_page_frame_count = 0
       /\ UNCHANGED pagingVars
    \/ /\ free_page_frame_count # 0
       /\ free_page_frame_count' = free_page_frame_count - 1
       /\ page_frame_map' = [page_frame_map EXCEPT ![next_free_frame] = TRUE]
       /\ AdvanceNextFree(next_free_frame)
       /\ page_table' = [page_table EXCEPT ![d][v] = next_free_frame]
       /\ UNCHANGED << page_directory_used, page_dir_free >>

(* next_free_frame after the release of a frame. *)
KeepsNext(phy_mapped) == next_free_frame
LowerNextFree(phy_mapped) ==
    IF next_free_frame > phy_mapped THEN phy_mapped ELSE next_free_frame

FreeWithoutCheck(d, v) ==
    /\ free_page_frame_count' = free_page_frame_count + 1
    /\ page_table' = [page_table EXCEPT ![d][v] = NotPresent]
    /\ page_frame_map' = [f \in Frames |-> page_frame_map[f] /\ f # page_table[d][v]]
    /\ UNCHANGED << next_free_frame, page_directory_used, page_dir_free >>
FreeKeepsMark(d, v) ==
    \/ page_table[d][v] = NotPresent /\ UNCHANGED pagingVars
    \/ /\ page_table[d][v] # NotPresent
       /\ free_page_frame_count' = free_page_frame_count + 1
       /\ page_table' = [page_table EXCEPT ![d][v] = NotPresent]
       /\ UNCHANGED << page_frame_map, next_free_frame, page_directory_used, page_dir_free >>
FreeUserPageFrame(d, v) ==
    \/ /\ page_table[d][v] = NotPresent
       /\ UNCHANGED pagingVars
    \/ LET phy_mapped == page_table[d][v]
       IN  /\ phy_mapped # NotPresent
           /\ free_page_frame_count' = free_page_frame_count + 1
           /\ page_frame_map' = [page_frame_map EXCEPT ![phy_mapped] = FALSE]
           /\ next_free_frame' = LowerNextFree(phy_mapped)
           /\ page_table' = [page_table EXCEPT ![d][v] = NotPresent]
           /\ UNCHANGED << page_directory_used, page_dir_free >>

(* The directory paging_create_new_page_directory finds. *)
FirstUnusedDirectory(d) ==
    /\ ~page_directory_used[d]
    /\ \A e \in Dirs : e < d => page_directory_used[e]

(* With page_dir_free = 0 the procedure returns NULL and does nothing. *)
CreateWithoutMarking(d) ==
    page_dir_free # 0 /\ FirstUnusedDirectory(d) /\ page_dir_free' = page_dir_free - 1
    /\ UNCHANGED << frameVars, page_table, page_directory_used >>
CreateNewPageDirectory(d) ==
    /\ page_dir_free # 0
    /\ FirstUnusedDirectory(d)
    /\ page_directory_used' = [page_directory_used EXCEPT ![d] = TRUE]
    /\ page_dir_free' = page_dir_free - 1
    /\ UNCHANGED << frameVars, page_table >>

(* The pairs <<directory, page>> whose entry is present. *)
PresentEntries == {e \in Dirs \X Pages : page_table[e[1]][e[2]] # NotPresent}
EntriesOf(d)   == {e \in PresentEntries : e[1] = d}
FramesOf(d)    == {page_table[d][v] : v \in {w \in Pages : page_table[d][w] # NotPresent}}

(* Every entry still present is released by a call of                      *)
(* paging_free_user_page_frame; page_dir_free keeps its value.             *)
FreePageDirectory(d) ==
    /\ page_directory_used' = [page_directory_used EXCEPT ![d] = FALSE]
    /\ free_page_frame_count' = free_page_frame_count + Cardinality(EntriesOf(d))
    /\ page_frame_map' = [f \in Frames |-> page_frame_map[f] /\ f \notin FramesOf(d)]
    /\ \E n \in FramesOf(d) \cup {next_free_frame} :
          /\ \A f \in FramesOf(d) \cup {next_free_frame} : n <= f
          /\ next_free_frame' = n
    /\ page_table' = [page_table EXCEPT ![d] = [v \in Pages |-> NotPresent]]
    /\ UNCHANGED page_dir_free

-----------------------------------------------------------------------------
(* An unused directory is never written: it is handed out first. *)
PagingNext ==
    \/ \E d \in Dirs : CreateNewPageDirectory(d)
    \/ \E d \in Dirs, v \in Pages :
          /\ page_directory_used[d]
          /\ page_table[d][v] = NotPresent
          /\ AllocateUserPageFrame(d, v)
    \/ \E d \in Dirs, v \in Pages : FreeUserPageFrame(d, v)
    \/ \E d \in Dirs : FreePageDirectory(d)

PagingSpec == PagingInit /\ [][PagingNext]_pagingVars

-----------------------------------------------------------------------------
PagingTypeOK ==
    /\ page_frame_map \in [Frames -> BOOLEAN]
    /\ free_page_frame_count \in 0 .. PAGE_FRAME_MAX_COUNT - 1
    /\ next_free_frame \in Frames \ {0}
    /\ page_directory_used \in [Dirs -> BOOLEAN]
    /\ page_dir_free \in 0 .. PAGING_DIRECTORY_TABLE_MAX_COUNT
    /\ page_table \in [Dirs -> [Pages -> (Frames \ {0}) \cup {NotPresent}]]

(* The upward search of an allocation cannot pass over a free frame: every *)
(* frame below next_free_frame is marked, through any sequence of          *)
(* allocations and releases (paging.c:93-98 and 129-131 agree).            *)
NothingFreeBelowNext == \A f \in Frames : f < next_free_frame => page_frame_map[f]

(* The counter and the page tables agree: each frame is counted free or    *)
(* backs exactly one entry, so free_page_frame_count neither drifts nor    *)
(* passes the size of memory, even when a release happens twice.           *)
FrameConservation ==
    free_page_frame_count + Cardinality(PresentEntries) = PAGE_FRAME_MAX_COUNT - 1

(* No frame is lost: one that is marked in use is still reachable through  *)
(* some page directory, which can release it.                              *)
NoFrameLost ==
    \A f \in Frames \ {0} :
        page_frame_map[f] => \E e \in PresentEntries : page_table[e[1]][e[2]] = f

(* No physical frame backs two page table entries, so no process can write *)
(* into the memory of another.                                             *)
NoFrameIsShared ==
    \A e1, e2 \in PresentEntries :
        e1 # e2 => page_table[e1[1]][e1[2]] # page_table[e2[1]][e2[2]]

(* A directory that is not in use maps nothing: one that is handed out is  *)
(* empty although paging_create_new_page_directory does not clear it.      *)
UnusedDirectoryIsEmpty == \A d \in Dirs : ~page_directory_used[d] => EntriesOf(d) = {}

(* The search for an unused directory always succeeds, so the local idx of *)
(* paging_create_new_page_directory is never read uninitialised            *)
(* (paging.c:164-171).                                                     *)
SearchFindsDirectory == page_dir_free > 0 => \E d \in Dirs : ~page_directory_used[d]
=============================================================================
