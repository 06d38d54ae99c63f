---------------------------- MODULE ProcessProofs ----------------------------
(***************************************************************************)
(* Proofs about the process manager, for any number of slots, frames and   *)
(* directories, any programs and any callers of the process system calls.  *)
(*                                                                         *)
(* The kernel is a legitimate client of the memory manager: Spec implies   *)
(* PagingSpec, so that every theorem of PagingProofs holds of the whole    *)
(* kernel.  The invariant needed is that the directory of the process      *)
(* being created is marked in use and empty from page i on, which in turn  *)
(* needs the memory manager's own invariant.                               *)
(***************************************************************************)
EXTENDS Process, PagingProofs

(* What the slots and counters satisfy at every point of the kernel. *)
SlotsInv ==
    /\ \A s \in Slots : pid[s] <= total_pid
    /\ \A s \in Slots : active[s] => pid[s] # 0
    /\ kpc # "crashed" => \A s \in Slots : pid[s] # 0 => page_directory[s] \in Dirs

(* What holds while a process is being created. *)
CreatingInv ==
    kpc = "allocate" =>
        /\ page_directory[p_index] \in Dirs
        /\ page_directory_used[page_directory[p_index]]
        /\ \A v \in Pages : v >= i => page_table[page_directory[p_index]][v] = NotPresent
        /\ PagesOf[request] <= PROCESS_PAGE_FRAME_COUNT_MAX
        /\ i <= PagesOf[request]
        /\ i = 0 => free_page_frame_count # 0
        /\ i > 0 => page_table[page_directory[p_index]][0] # NotPresent
        /\ ~active[p_index]
        /\ active_process_count < PROCESS_COUNT_MAX
        /\ cur_idx # -1 => cur_active \in Dirs /\ active_process_count > 0

ReleasingInv ==
    kpc = "release" => pid[p_index] # 0 /\ i <= page_frame_used_count[p_index]

(* Where the CPU is decides which process there is to run. *)
RunningInv ==
    /\ kpc = "boot" => /\ cur_idx = -1 /\ active_process_count = 0
                       /\ cr3 = KERNEL_DIRECTORY
                       /\ \A s \in Slots : ~active[s]
    /\ kpc \in {"user", "release"} =>
          cur_idx # -1 /\ cr3 \in Dirs /\ active_process_count > 0
    /\ kpc = "switch" => active_process_count > 0

ProcessInv ==
    /\ PagingInv
    /\ KernelTypeOK
    /\ SlotsInv
    /\ CreatingInv
    /\ ReleasingInv
    /\ RunningInv

(* A step of the memory manager, or none, and the invariant again. *)
Good == [PagingNext]_pagingVars /\ ProcessInv'

-----------------------------------------------------------------------------
LEMMA ConstantsFit ==
    /\ 0 \in Slots /\ 0 \in Pages
    /\ \A n \in 0 .. PROCESS_PAGE_FRAME_COUNT_MAX, k \in Nat : k < n => k \in Pages
    /\ \A d \in Dirs : d # KERNEL_DIRECTORY /\ d # NULL_DIRECTORY
    /\ NotPresent \notin Frames
    /\ NULL_DIRECTORY # KERNEL_DIRECTORY /\ KERNEL_DIRECTORY = -1
BY SlotsAssumption, PagesAssumption
DEF Slots, Pages, Dirs, Frames, NotPresent, KERNEL_DIRECTORY, NULL_DIRECTORY

(* The memory check always asks for at least one frame.                    *)
LEMMA CheckFindsAFrame ==
    ASSUME free_page_frame_count \in Nat, NEW p \in Programs, AllocateCheck(PagesOf[p])
    PROVE  free_page_frame_count # 0
<1> DEFINE n == PagesOf[p]
<1>1. n \in Nat \ {0}
  BY ProgramsAssumption
<1> HIDE DEF n
<1>2. n \div PAGE_FRAME_SIZE > 0 \/ n % PAGE_FRAME_SIZE # 0
  BY <1>1 DEF PAGE_FRAME_SIZE
<1>3. n \div PAGE_FRAME_SIZE \in Nat /\ n % PAGE_FRAME_SIZE \in Nat
  BY <1>1 DEF PAGE_FRAME_SIZE
<1> QED BY <1>2, <1>3 DEF AllocateCheck, n

(* The slot found for a new process is inactive.                           *)
LEMMA InactiveIndexIsInactive ==
    ASSUME RunningInv, kpc \in {"boot", "user"}, NEW n \in Slots, InactiveIndex(n)
    PROVE  ~active[n]
BY DEF RunningInv, InactiveIndex

LEMMA InitProcessInv == Init => ProcessInv
<1> SUFFICES ASSUME Init PROVE ProcessInv
  OBVIOUS
<1>1. PagingInv
  BY InitEstablishes DEF Init
<1>2. KernelTypeOK
  BY ConstantsFit, ProgramsAssumption, SlotsAssumption, PagesAssumption
  DEF Init, KernelTypeOK, KernelSteps
<1>3. SlotsInv /\ CreatingInv /\ ReleasingInv /\ RunningInv
  BY DEF Init, SlotsInv, CreatingInv, ReleasingInv, RunningInv
<1> QED BY <1>1, <1>2, <1>3 DEF ProcessInv

-----------------------------------------------------------------------------
LEMMA BeginCreateStep ==
    ASSUME ProcessInv, kpc \in {"boot", "user"}, NEW p \in Programs, BeginCreate(p)
    PROVE  Good
<1> USE DEF ProcessInv
<1>1. PICK n \in Slots, d \in Dirs :
        /\ InactiveIndex(n)
        /\ CreateNewPageDirectory(d)
        /\ name' = [name EXCEPT ![n] = p]
        /\ page_directory' = [page_directory EXCEPT ![n] = d]
        /\ cr3' = d
        /\ p_index' = n
  BY DEF BeginCreate
<1>2. /\ kpc' = "allocate" /\ i' = 0 /\ request' = p
      /\ cur_active' = cr3 /\ retcode' = "NONE"
      /\ UNCHANGED << pid, active, cur_state, page_frame_used_count, managerVars >>
  BY DEF BeginCreate
<1>3. PagingNext /\ PagingInv'
  BY <1>1, StepPreserves DEF PagingNext
<1>4. cr3 \in Dirs \cup {KERNEL_DIRECTORY} /\ (cur_idx # -1 => cr3 \in Dirs)
  BY DEF RunningInv
<1>5. KernelTypeOK'
  BY <1>1, <1>2, <1>4, PagesAssumption DEF KernelTypeOK, KernelSteps, managerVars
<1>6. SlotsInv'
  BY <1>1, <1>2 DEF SlotsInv, KernelTypeOK, managerVars
<1>7. CreatingInv'
  <2>1. page_directory'[n] = d
    BY <1>1 DEF KernelTypeOK
  <2>2. page_directory_used'[d]
    <3>1. page_directory_used' = [page_directory_used EXCEPT ![d] = TRUE]
      BY <1>1 DEF CreateNewPageDirectory
    <3> QED BY <3>1 DEF PagingInv, DirectoriesType
  <2>3. \A v \in Pages : page_table'[d][v] = NotPresent
    <3>1. ~page_directory_used[d] /\ page_table' = page_table
      BY <1>1 DEF CreateNewPageDirectory, FirstUnusedDirectory
    <3>2. EntriesOf(d) = {}
      BY <3>1 DEF PagingInv, UnusedDirectoryIsEmpty
    <3>3. ASSUME NEW v \in Pages PROVE page_table[d][v] = NotPresent
      <4>1. << d, v >> \notin EntriesOf(d)
        BY <3>2
      <4> QED BY <4>1 DEF EntriesOf, PresentEntries
    <3> QED BY <3>1, <3>3
  <2>4. PagesOf[p] \in Nat \ {0} /\ PagesOf[p] <= PROCESS_PAGE_FRAME_COUNT_MAX
    BY ProgramsAssumption, PagesAssumption DEF BeginCreate, CreateRejected
  <2>5. free_page_frame_count' # 0
    <3>1. AllocateCheck(PagesOf[p])
      BY DEF BeginCreate, CreateRejected
    <3>2. free_page_frame_count # 0
      BY <3>1, CheckFindsAFrame DEF PagingInv, FramesType
    <3> QED BY <1>1, <3>2 DEF CreateNewPageDirectory, frameVars
  <2>6. ~active'[n]
    BY <1>1, <1>2, InactiveIndexIsInactive
  <2>7. active_process_count' < PROCESS_COUNT_MAX
    BY <1>2, SlotsAssumption DEF BeginCreate, CreateRejected, managerVars, KernelTypeOK
  <2>8. cur_idx' # -1 => cur_active' \in Dirs /\ active_process_count' > 0
    BY <1>2, <1>4 DEF RunningInv, managerVars
  <2> QED BY <1>1, <1>2, <2>1, <2>2, <2>3, <2>4, <2>5, <2>6, <2>7, <2>8 DEF CreatingInv
<1>8. ReleasingInv' /\ RunningInv'
  BY <1>2 DEF ReleasingInv, RunningInv
<1> QED BY <1>3, <1>5, <1>6, <1>7, <1>8 DEF Good

LEMMA CrashCreateStep ==
    ASSUME ProcessInv, kpc \in {"boot", "user"}, NEW p \in Programs, CrashCreate(p)
    PROVE  Good
<1> USE DEF ProcessInv
<1>1. PICK n \in Slots :
        /\ name' = [name EXCEPT ![n] = p]
        /\ page_directory' = [page_directory EXCEPT ![n] = NULL_DIRECTORY]
  BY DEF CrashCreate
<1>2. /\ cr3' = NULL_DIRECTORY /\ kpc' = "crashed"
      /\ UNCHANGED << pagingVars, pid, active, cur_state, page_frame_used_count,
                      managerVars, localVars, retcode >>
  BY DEF CrashCreate
<1>3. PagingInv'
  BY <1>2, StepPreserves
<1>4. KernelTypeOK'
  BY <1>1, <1>2 DEF KernelTypeOK, Stops, managerVars, localVars
<1>5. SlotsInv' /\ CreatingInv' /\ ReleasingInv' /\ RunningInv'
  BY <1>2 DEF SlotsInv, CreatingInv, ReleasingInv, RunningInv, managerVars
<1> QED BY <1>2, <1>3, <1>4, <1>5 DEF Good

LEMMA RejectCreateStep ==
    ASSUME ProcessInv, NEW p \in Programs, RejectCreate(p)
    PROVE  Good
<1> USE DEF ProcessInv, RejectCreate
<1>1. PagingInv'
  BY StepPreserves
<1>2. KernelTypeOK'
  BY DEF KernelTypeOK, pcbVars, managerVars, localVars
<1>3. SlotsInv' /\ CreatingInv' /\ ReleasingInv' /\ RunningInv'
  BY DEF SlotsInv, CreatingInv, ReleasingInv, RunningInv, pagingVars, pcbVars,
         managerVars, localVars
<1> QED BY <1>1, <1>2, <1>3 DEF Good

-----------------------------------------------------------------------------
LEMMA AllocatePageStep ==
    ASSUME ProcessInv, AllocatePage
    PROVE  Good
<1> DEFINE d == page_directory[p_index]
<1> USE DEF ProcessInv
<1>1. /\ kpc = "allocate" /\ i < PagesOf[request]
      /\ AllocateUserPageFrame(d, i)
      /\ i' = i + 1
      /\ UNCHANGED << pcbVars, managerVars, p_index, request, cur_active, cr3, kpc, retcode >>
  BY DEF AllocatePage, PageOf
<1>2. /\ d \in Dirs /\ i \in Pages /\ page_directory_used[d]
      /\ page_table[d][i] = NotPresent
      /\ i \in Nat /\ PagesOf[request] \in 0 .. PROCESS_PAGE_FRAME_COUNT_MAX
  BY <1>1, ConstantsFit, ProgramsAssumption, PagesAssumption DEF CreatingInv, KernelTypeOK, Pages
<1>3. PagingNext /\ PagingInv'
  BY <1>1, <1>2, StepPreserves DEF PagingNext
<1>4. KernelTypeOK'
  BY <1>1, <1>2, PagesAssumption DEF KernelTypeOK, pcbVars, managerVars
<1>5. SlotsInv' /\ ReleasingInv' /\ RunningInv'
  BY <1>1 DEF SlotsInv, ReleasingInv, RunningInv, pcbVars, managerVars
<1>6. CreatingInv'
  <2>1. d' = d
    BY <1>1 DEF pcbVars
  <2>2. page_directory_used'[d]
    BY <1>1, <1>2 DEF AllocateUserPageFrame, pagingVars
  <2>3. \A v \in Pages : v # i => page_table'[d][v] = page_table[d][v]
    BY <1>1, <1>2 DEF AllocateUserPageFrame, pagingVars, PagingInv, DirectoriesType
  <2>4. i = 0 => page_table'[d][0] # NotPresent
    <3> SUFFICES ASSUME i = 0 PROVE page_table'[d][0] # NotPresent
      OBVIOUS
    <3>1. page_table' = [page_table EXCEPT ![d][0] = next_free_frame]
      BY <1>1 DEF AllocateUserPageFrame, CreatingInv
    <3>2. next_free_frame # NotPresent
      BY ConstantsFit DEF PagingInv, FramesType
    <3> QED BY <1>2, <3>1, <3>2 DEF PagingInv, DirectoriesType
  <2>5. page_table'[d][0] # NotPresent
    BY <1>1, <1>2, <2>3, <2>4, ConstantsFit DEF CreatingInv
  <2>6. \A v \in Pages : v >= i + 1 => page_table'[d][v] = NotPresent
    BY <1>1, <1>2, <2>3 DEF CreatingInv, Pages
  <2>7. i' # 0 /\ i' <= PagesOf[request]
    BY <1>1, <1>2
  <2> QED BY <1>1, <1>2, <2>1, <2>2, <2>5, <2>6, <2>7 DEF CreatingInv, pcbVars, managerVars
<1> QED BY <1>3, <1>4, <1>5, <1>6 DEF Good

LEMMA EndCreateStep ==
    ASSUME ProcessInv, EndCreate
    PROVE  Good
<1> USE DEF ProcessInv, EndCreate, NewPid, RestoreDirectory, LocalsDie
<1>1. PagingInv' /\ UNCHANGED pagingVars
  BY StepPreserves
<1>2. PagesOf[request] \in 0 .. PROCESS_PAGE_FRAME_COUNT_MAX
  BY ProgramsAssumption, PagesAssumption DEF CreatingInv, KernelTypeOK
<1>3. active_process_count + 1 \in 0 .. PROCESS_COUNT_MAX
  BY SlotsAssumption DEF CreatingInv, KernelTypeOK
<1>4. KernelTypeOK'
  BY <1>2, <1>3, ConstantsFit, ProgramsAssumption, PagesAssumption
  DEF KernelTypeOK, KernelSteps
<1>5. SlotsInv'
  BY DEF SlotsInv, CreatingInv, KernelTypeOK
<1>6. CreatingInv' /\ ReleasingInv'
  BY DEF CreatingInv, ReleasingInv
<1>7. RunningInv'
  BY DEF RunningInv, CreatingInv, KernelTypeOK
<1> QED BY <1>1, <1>4, <1>5, <1>6, <1>7 DEF Good

LEMMA BeginDestroyStep ==
    ASSUME ProcessInv, kpc = "user", NEW n, n # 0, BeginDestroy(n)
    PROVE  Good
<1> USE DEF ProcessInv, BeginDestroy
<1>1. PagingInv' /\ UNCHANGED pagingVars
  BY StepPreserves
<1>2. PICK s \in Slots : pid[s] = n /\ p_index' = s
  BY DEF FirstSlotWithPid
<1>3. KernelTypeOK'
  BY <1>2, PagesAssumption DEF KernelTypeOK, KernelSteps, pcbVars, managerVars
<1>4. SlotsInv' /\ CreatingInv' /\ RunningInv'
  BY DEF SlotsInv, CreatingInv, RunningInv, pcbVars, managerVars
<1>5. ReleasingInv'
  BY <1>2 DEF ReleasingInv, KernelTypeOK, pcbVars
<1> QED BY <1>1, <1>3, <1>4, <1>5 DEF Good

LEMMA ReleasePageStep ==
    ASSUME ProcessInv, ReleasePage
    PROVE  Good
<1> USE DEF ProcessInv, ReleasePage, ReleasedDirectory
<1>1. page_directory[p_index] \in Dirs
  BY DEF SlotsInv, ReleasingInv, KernelTypeOK
<1>2. /\ page_frame_used_count[p_index] \in 0 .. PROCESS_PAGE_FRAME_COUNT_MAX
      /\ i \in Pages /\ i \in Nat
  BY ConstantsFit DEF KernelTypeOK
<1>3. PagingNext /\ PagingInv'
  BY <1>1, <1>2, StepPreserves DEF PagingNext
<1>4. KernelTypeOK'
  BY <1>2, PagesAssumption DEF KernelTypeOK, pcbVars, managerVars
<1>5. SlotsInv' /\ CreatingInv' /\ RunningInv'
  BY DEF SlotsInv, CreatingInv, RunningInv, pcbVars, managerVars
<1>6. ReleasingInv'
  BY <1>2 DEF ReleasingInv, pcbVars
<1> QED BY <1>3, <1>4, <1>5, <1>6 DEF Good

LEMMA EndDestroyStep ==
    ASSUME ProcessInv, EndDestroy
    PROVE  Good
<1> USE DEF ProcessInv, EndDestroy, ReleasedDirectory, LocalsDie
<1>1. page_directory[p_index] \in Dirs
  BY DEF SlotsInv, ReleasingInv, KernelTypeOK
<1>2. PagingNext /\ PagingInv'
  BY <1>1, StepPreserves DEF PagingNext
<1>3. active_process_count > 0
  BY DEF RunningInv
<1>4. KernelTypeOK'
  <2>1. /\ active' \in [Slots -> BOOLEAN]
        /\ active_process_count' \in 0 .. PROCESS_COUNT_MAX
        /\ kpc' \in {"off", "user"}
    <3>1. CASE active_process_count = 1
      BY <3>1 DEF KernelTypeOK
    <3>2. CASE active_process_count # 1
      <4>1. active_process_count - 1 \in 0 .. PROCESS_COUNT_MAX
        BY <1>3, SlotsAssumption DEF KernelTypeOK
      <4> QED BY <3>2, <4>1 DEF KernelTypeOK
    <3> QED BY <3>1, <3>2
  <2>2. page_frame_used_count' \in [Slots -> 0 .. PROCESS_PAGE_FRAME_COUNT_MAX]
    BY PagesAssumption DEF KernelTypeOK
  <2>3. /\ UNCHANGED << pid, cur_state, page_directory, name, cur_idx, total_pid, cr3, retcode >>
        /\ p_index' \in Slots /\ i' \in 0 .. PROCESS_PAGE_FRAME_COUNT_MAX
        /\ request' \in Programs /\ cur_active' \in Dirs \cup {KERNEL_DIRECTORY}
    BY ConstantsFit, ProgramsAssumption, PagesAssumption
  <2> QED BY <2>1, <2>2, <2>3 DEF KernelTypeOK, Stops
<1>5. SlotsInv'
  BY DEF SlotsInv, KernelTypeOK
<1>6. CreatingInv' /\ ReleasingInv'
  BY DEF CreatingInv, ReleasingInv
<1>7. RunningInv'
  BY <1>3 DEF RunningInv, KernelTypeOK
<1> QED BY <1>2, <1>4, <1>5, <1>6, <1>7 DEF Good

LEMMA SwitchStep ==
    ASSUME ProcessInv, SwitchToNextProcess, active_process_count > 0, kpc # "crashed"
    PROVE  Good
<1> USE DEF ProcessInv, SwitchToNextProcess
<1>1. PagingInv' /\ UNCHANGED pagingVars
  BY StepPreserves
<1>2. PICK n \in Slots :
        /\ active[n]
        /\ cur_state' = [s \in Slots |-> IF s = n THEN "RUNNING"
                                         ELSE IF s = cur_idx THEN "READY" ELSE cur_state[s]]
        /\ cr3' = page_directory[n]
        /\ cur_idx' = n
  BY DEF NextActive
<1>3. page_directory[n] \in Dirs
  BY <1>2 DEF SlotsInv
<1>4. KernelTypeOK'
  BY <1>2, <1>3 DEF KernelTypeOK, localVars
<1>5. SlotsInv' /\ CreatingInv' /\ ReleasingInv'
  BY DEF SlotsInv, CreatingInv, ReleasingInv
<1>6. RunningInv'
  BY <1>2, <1>3, SlotsAssumption DEF RunningInv, Slots
<1> QED BY <1>1, <1>4, <1>5, <1>6 DEF Good

LEMMA OtherSteps ==
    ASSUME ProcessInv, PageFault \/ Stopped \/ UNCHANGED vars
    PROVE  Good
<1> USE DEF ProcessInv
<1>1. CASE PageFault
  <2> USE <1>1 DEF PageFault
  <2>1. PagingInv' /\ UNCHANGED pagingVars
    BY StepPreserves
  <2>2. KernelTypeOK'
    BY DEF KernelTypeOK, Stops, pcbVars, managerVars, localVars
  <2>3. SlotsInv' /\ CreatingInv' /\ ReleasingInv' /\ RunningInv'
    BY DEF SlotsInv, CreatingInv, ReleasingInv, RunningInv, pcbVars, managerVars, localVars
  <2> QED BY <2>1, <2>2, <2>3 DEF Good
<1>2. CASE UNCHANGED vars
  <2>1. PagingInv' /\ UNCHANGED pagingVars
    BY <1>2, StepPreserves DEF vars
  <2>2. KernelTypeOK'
    BY <1>2 DEF vars, KernelTypeOK, pcbVars, managerVars, localVars
  <2>3. SlotsInv' /\ CreatingInv' /\ ReleasingInv' /\ RunningInv'
    BY <1>2 DEF vars, SlotsInv, CreatingInv, ReleasingInv, RunningInv, pagingVars, pcbVars,
                managerVars, localVars
  <2> QED BY <2>1, <2>2, <2>3 DEF Good
<1> QED BY <1>1, <1>2 DEF Stopped

-----------------------------------------------------------------------------
(* The steps of the kernel when kill may be asked for any pid, also one    *)
(* that is not active any more, as the shell's kill does.                  *)
AnyKillNext == Next \/ \E n \in Nat \ {0} : KillCall(n)

LEMMA EveryStepIsGood == ProcessInv /\ [AnyKillNext]_vars => Good
<1> SUFFICES ASSUME ProcessInv, [AnyKillNext]_vars PROVE Good
  OBVIOUS
<1>1. CASE Boot
  BY <1>1, BeginCreateStep, ProgramsAssumption DEF Boot
<1>2. CASE AllocatePage
  BY <1>2, AllocatePageStep
<1>3. CASE EndCreate
  BY <1>3, EndCreateStep
<1>4. CASE ReleasePage
  BY <1>4, ReleasePageStep
<1>5. CASE EndDestroy
  BY <1>5, EndDestroyStep
<1>6. CASE BootSwitch
  BY <1>6, SwitchStep DEF BootSwitch, ProcessInv, RunningInv
<1>7. ASSUME NEW p \in Executables, ExecCall(p) PROVE Good
  <2>1. p \in Programs
    BY ProgramsAssumption
  <2> QED BY <1>7, <2>1, BeginCreateStep, CrashCreateStep, RejectCreateStep
          DEF ExecCall, ShellRuns
<1>8. ASSUME NEW n, n # 0, KillCall(n) PROVE Good
  BY <1>8, BeginDestroyStep DEF KillCall, ShellRuns
<1>9. CASE ExitCall
  BY <1>9, BeginDestroyStep DEF ExitCall, ShellRuns
<1>10. CASE TimerInterrupt
  BY <1>10, SwitchStep DEF TimerInterrupt, ProcessInv, RunningInv
<1>11. CASE PageFault \/ Stopped \/ UNCHANGED vars
  BY <1>11, OtherSteps
<1> QED BY <1>1, <1>2, <1>3, <1>4, <1>5, <1>6, <1>7, <1>8, <1>9, <1>10, <1>11
        DEF AnyKillNext, Next, KernelStep, ActivePids, ActiveSlots, ProcessInv, SlotsInv

LEMMA NextIsAnyKillNext == [Next]_vars => [AnyKillNext]_vars
BY DEF AnyKillNext

THEOREM ProcessInvariance == Spec => []ProcessInv
<1>1. ProcessInv /\ [Next]_vars => ProcessInv'
  BY EveryStepIsGood, NextIsAnyKillNext DEF Good
<1> QED BY <1>1, InitProcessInv, PTL DEF Spec

(* The kernel's tables and local variables keep their types: no counter    *)
(* leaves its range and no loop leaves a process's array of pages.         *)
THEOREM KernelTypeCorrect == Spec => []ProcessTypeOK
<1>1. ProcessInv => ProcessTypeOK
  BY InvImpliesType DEF ProcessInv, ProcessTypeOK
<1> QED BY <1>1, ProcessInvariance, PTL

(* Every step of the kernel is a step of the memory manager or leaves it   *)
(* alone: an entry is only written over when it is not present and only in *)
(* a directory that is in use, whatever programs do.                       *)
THEOREM KernelUsesPagingCorrectly == Spec => PagingSpec
<1>1. Init => PagingInit
  BY DEF Init
<1>2. ProcessInv /\ [Next]_vars => [PagingNext]_pagingVars
  BY EveryStepIsGood, NextIsAnyKillNext DEF Good
<1> QED BY <1>1, <1>2, ProcessInvariance, PTL DEF Spec, PagingSpec

(* Creating and destroying processes never makes two of them share a frame *)
(* unless memory runs out.                                                 *)
THEOREM ProcessesAreSeparate ==
    Spec /\ [](free_page_frame_count > 0) => []NoFrameIsShared
BY KernelUsesPagingCorrectly, FramesAreNotShared, PTL

(* The kernel reads an executable into a page that is mapped: it cannot    *)
(* page-fault, although it ignores allocations that fail.                  *)
THEOREM ExecutableIsReadIntoMappedPage == Spec => []ReadTargetIsMapped
<1>1. ProcessInv => ReadTargetIsMapped
  BY DEF ProcessInv, CreatingInv, ReadTargetIsMapped
<1> QED BY <1>1, ProcessInvariance, PTL

(* A process identifier is never given out twice and never changes while   *)
(* its process is active.                                                  *)
THEOREM PidsNeverRepeat == Spec => PidsAreFresh
<1> DEFINE Fresh == \A s \in Slots : active'[s] =>
                       IF active[s] THEN pid'[s] = pid[s]
                       ELSE \A t \in Slots : pid[t] < pid'[s]
<1>1. ASSUME ProcessInv, Next PROVE Fresh
  <2>1. CASE EndCreate
    BY <1>1, <2>1 DEF EndCreate, NewPid, ProcessInv, SlotsInv, CreatingInv, KernelTypeOK
  <2>2. CASE EndDestroy
    BY <1>1, <2>2 DEF EndDestroy, ProcessInv, KernelTypeOK
  <2>3. CASE ~EndCreate /\ ~EndDestroy
    <3>1. UNCHANGED << pid, active >>
      BY <1>1, <2>3
      DEF Next, Boot, KernelStep, BootSwitch, ExecCall, KillCall, ExitCall, TimerInterrupt,
          PageFault, Stopped, BeginCreate, CrashCreate, RejectCreate, AllocatePage,
          BeginDestroy, ReleasePage, SwitchToNextProcess, vars, pcbVars
    <3> QED BY <3>1
  <2> QED BY <2>1, <2>2, <2>3
<1>2. ASSUME ProcessInv, UNCHANGED vars PROVE UNCHANGED vars \/ Fresh
  BY <1>2
<1>3. ProcessInv /\ [Next]_vars => [Fresh]_vars
  BY <1>1, <1>2
<1> QED BY <1>3, ProcessInvariance, PTL DEF Spec, PidsAreFresh

-----------------------------------------------------------------------------
(* Dividing what is less than twice the divisor.                           *)
LEMMA RemainderOfLessThanTwice ==
    ASSUME NEW m \in Nat \ {0}, NEW k \in 0 .. 2 * m - 1
    PROVE  k % m = IF k < m THEN k ELSE k - m
OBVIOUS

LEMMA SlotsAround ==
    ASSUME NEW c \in Slots \cup {-1}, NEW s \in Slots
    PROVE  (s - c - 1 + PROCESS_COUNT_MAX) % PROCESS_COUNT_MAX
              = IF s > c THEN s - c - 1 ELSE s - c - 1 + PROCESS_COUNT_MAX
<1> DEFINE k == s - c - 1 + PROCESS_COUNT_MAX
<1>1. /\ k \in 0 .. 2 * PROCESS_COUNT_MAX - 1
      /\ s \in Int /\ c \in Int /\ PROCESS_COUNT_MAX \in Nat \ {0}
      /\ s > c <=> k >= PROCESS_COUNT_MAX
  BY SlotsAssumption DEF Slots
<1>2. k = s - c - 1 + PROCESS_COUNT_MAX
  OBVIOUS
<1> HIDE DEF k
<1>3. k % PROCESS_COUNT_MAX = IF k < PROCESS_COUNT_MAX THEN k ELSE k - PROCESS_COUNT_MAX
  BY <1>1, RemainderOfLessThanTwice
<1>4. k % PROCESS_COUNT_MAX = IF s > c THEN s - c - 1 ELSE s - c - 1 + PROCESS_COUNT_MAX
  BY <1>1, <1>2, <1>3
<1> QED BY <1>4 DEF k

LEMMA WaitsLess ==
    ASSUME NEW m \in Nat, NEW c \in -1 .. m - 1, NEW n \in 0 .. m - 1, NEW s \in 0 .. m - 1,
           s # n,
           (IF n > c THEN n - c - 1 ELSE n - c - 1 + m)
              <= (IF s > c THEN s - c - 1 ELSE s - c - 1 + m)
    PROVE  (IF s > n THEN s - n - 1 ELSE s - n - 1 + m)
              < (IF s > c THEN s - c - 1 ELSE s - c - 1 + m)
<1>1. CASE s > c
  <2>1. n > c /\ n < s
    BY <1>1
  <2> QED BY <1>1, <2>1
<1>2. CASE s <= c
  <2>1. s > n => n <= c
    BY <1>2
  <2> QED BY <1>2, <2>1
<1> QED BY <1>1, <1>2

(* The active slot behind the running process whose turn is next gets the  *)
(* CPU, and every other active slot has waited one slot less.              *)
LEMMA SwitchBringsCloser ==
    ASSUME KernelTypeOK, SwitchToNextProcess, NEW s \in ActiveSlots
    PROVE  s = cur_idx' \/ Turn(s)' < Turn(s)
<1> USE DEF ActiveSlots
<1>1. cur_idx \in Slots \cup {-1} /\ s \in Slots
  BY DEF KernelTypeOK
<1>2. cur_idx' \in Slots /\ Turn(cur_idx') <= Turn(s)
  <2>1. PICK n \in Slots : NextActive(n) /\ cur_idx' = n
    BY DEF SwitchToNextProcess
  <2> QED BY <2>1 DEF NextActive
<1>3. Turn(cur_idx') = IF cur_idx' > cur_idx THEN cur_idx' - cur_idx - 1
                       ELSE cur_idx' - cur_idx - 1 + PROCESS_COUNT_MAX
  BY <1>1, <1>2, SlotsAround DEF Turn
<1>4. Turn(s) = IF s > cur_idx THEN s - cur_idx - 1
                ELSE s - cur_idx - 1 + PROCESS_COUNT_MAX
  BY <1>1, SlotsAround DEF Turn
<1>5. Turn(s)' = IF s > cur_idx' THEN s - cur_idx' - 1
                 ELSE s - cur_idx' - 1 + PROCESS_COUNT_MAX
  BY <1>1, <1>2, SlotsAround DEF Turn
<1>6. CASE s # cur_idx'
  <2>1. /\ PROCESS_COUNT_MAX \in Nat /\ cur_idx \in -1 .. PROCESS_COUNT_MAX - 1
        /\ cur_idx' \in 0 .. PROCESS_COUNT_MAX - 1 /\ s \in 0 .. PROCESS_COUNT_MAX - 1
    BY <1>1, <1>2, SlotsAssumption DEF Slots
  <2>2. (IF cur_idx' > cur_idx THEN cur_idx' - cur_idx - 1
         ELSE cur_idx' - cur_idx - 1 + PROCESS_COUNT_MAX)
           <= (IF s > cur_idx THEN s - cur_idx - 1 ELSE s - cur_idx - 1 + PROCESS_COUNT_MAX)
    <3> HIDE DEF ActiveSlots
    <3>1. Turn(cur_idx') <= Turn(s)
      BY <1>2
    <3> QED BY <3>1, <1>3, <1>4, Zenon
  <2>3. (IF s > cur_idx' THEN s - cur_idx' - 1 ELSE s - cur_idx' - 1 + PROCESS_COUNT_MAX)
           < (IF s > cur_idx THEN s - cur_idx - 1 ELSE s - cur_idx - 1 + PROCESS_COUNT_MAX)
    BY <1>6, <2>1, <2>2, WaitsLess
  <2> QED BY <1>4, <1>5, <2>3, Zenon
<1> QED BY <1>6

(* Nobody jumps the queue: whenever the scheduler gives the CPU to another *)
(* process, the turn of every other active slot has come nearer; so a      *)
(* process waits for at most as many switches as there are slots.          *)
THEOREM TurnsComeCloser == Spec => TurnComesCloser
<1> DEFINE Closer == cur_idx' # cur_idx =>
                        \A s \in ActiveSlots : s = cur_idx' \/ Turn(s)' < Turn(s)
<1>1. ASSUME ProcessInv, Next PROVE Closer
  <2>1. CASE SwitchToNextProcess
    BY <1>1, <2>1, SwitchBringsCloser DEF ProcessInv
  <2>2. CASE ~SwitchToNextProcess
    <3>1. cur_idx' = cur_idx
      BY <1>1, <2>2
      DEF Next, Boot, KernelStep, BootSwitch, ExecCall, KillCall, ExitCall, TimerInterrupt,
          PageFault, Stopped, BeginCreate, CrashCreate, RejectCreate, AllocatePage, EndCreate,
          BeginDestroy, ReleasePage, EndDestroy, vars, managerVars
    <3> QED BY <3>1
  <2> QED BY <2>1, <2>2
<1>2. ProcessInv /\ [Next]_vars => [Closer]_vars
  BY <1>1
<1> QED BY <1>2, ProcessInvariance, PTL DEF Spec, TurnComesCloser

-----------------------------------------------------------------------------
(* Why user code runs under its own directory: while the kernel works on   *)
(* another directory it remembers the caller's, and a caller that has just *)
(* destroyed itself has no code left to make another system call with, so  *)
(* that its slot keeps its directory until the next tick.                  *)
CallerInv ==
    /\ kpc \in {"user", "release"} => cr3 = page_directory[cur_idx]
    /\ kpc = "user" /\ CodeMapped => active[cur_idx]
    /\ kpc = "release" => active[cur_idx]
    /\ kpc = "allocate" /\ cur_idx # -1 =>
          active[cur_idx] /\ cur_active = page_directory[cur_idx]
    /\ \A s \in Slots : active[s] => (cur_state[s] = "RUNNING" <=> s = cur_idx)

LEMMA CallerAfterCreate ==
    ASSUME ProcessInv, CallerInv, AllocatePage \/ EndCreate
    PROVE  CallerInv'
<1> USE DEF ProcessInv, KernelTypeOK
<1>1. CASE AllocatePage
  BY <1>1 DEF AllocatePage, CallerInv, pcbVars, managerVars
<1>2. CASE EndCreate
  <2>1. ~active[p_index] /\ -1 \notin Slots
    BY <1>2 DEF EndCreate, CreatingInv, Slots
  <2>2. \A s \in Slots : active'[s] => (cur_state'[s] = "RUNNING" <=> s = cur_idx')
    BY <1>2, <2>1 DEF EndCreate, CallerInv
  <2>3. CASE cur_idx = -1
    BY <1>2, <2>2, <2>3 DEF EndCreate, CallerInv
  <2>4. CASE cur_idx # -1
    <3>1. active'[cur_idx] /\ cr3' = page_directory'[cur_idx]
      BY <1>2, <2>4 DEF EndCreate, RestoreDirectory, CallerInv
    <3> QED BY <1>2, <2>2, <2>4, <3>1 DEF EndCreate, CallerInv
  <2> QED BY <2>3, <2>4
<1> QED BY <1>1, <1>2

LEMMA CallerAfterCall ==
    ASSUME ProcessInv, CallerInv, kpc \in {"boot", "user"}, NEW p,
           kpc = "user" => CodeMapped,
           \/ BeginCreate(p) \/ CrashCreate(p) \/ RejectCreate(p)
           \/ kpc = "user" /\ BeginDestroy(p)
    PROVE  CallerInv'
<1> USE DEF ProcessInv, KernelTypeOK
<1>1. CASE BeginCreate(p)
  <2>1. PICK n \in Slots, d \in Dirs :
          ~active[n] /\ page_directory' = [page_directory EXCEPT ![n] = d]
    BY <1>1, InactiveIndexIsInactive DEF BeginCreate
  <2>2. /\ kpc' = "allocate" /\ cur_active' = cr3
        /\ UNCHANGED << active, cur_state, cur_idx >>
    BY <1>1 DEF BeginCreate, managerVars
  <2>3. kpc = "boot" => cur_idx = -1
    BY DEF RunningInv
  <2>4. kpc = "user" => active[cur_idx] /\ cr3 = page_directory'[cur_idx]
    BY <2>1 DEF CallerInv
  <2> QED BY <2>1, <2>2, <2>3, <2>4 DEF CallerInv
<1>2. CASE CrashCreate(p)
  BY <1>2 DEF CrashCreate, CallerInv, managerVars
<1>3. CASE RejectCreate(p)
  BY <1>3 DEF RejectCreate, CallerInv, pcbVars, managerVars, localVars
<1>4. CASE kpc = "user" /\ BeginDestroy(p)
  BY <1>4 DEF BeginDestroy, CallerInv, RunningInv, pcbVars, managerVars
<1> QED BY <1>1, <1>2, <1>3, <1>4

LEMMA CallerAfterDestroy ==
    ASSUME ProcessInv, CallerInv, ReleasePage \/ EndDestroy
    PROVE  CallerInv'
<1> USE DEF ProcessInv, KernelTypeOK
<1>1. CASE ReleasePage
  BY <1>1 DEF ReleasePage, CallerInv, pcbVars, managerVars
<1>2. CASE EndDestroy
  <2>1. UNCHANGED << cur_state, page_directory, cur_idx, cr3 >> /\ kpc' \in {"off", "user"}
    BY <1>2 DEF EndDestroy
  <2>2. cr3 = page_directory[cur_idx] /\ active[cur_idx]
    BY <1>2 DEF EndDestroy, CallerInv
  <2>3. \A s \in Slots : active'[s] => active[s] /\ (active[s] /\ s # p_index => active'[s])
    BY <1>2 DEF EndDestroy
  <2>4. kpc' = "user" /\ CodeMapped' => active'[cur_idx]
    <3>1. CASE p_index = cur_idx
      <4>1. page_table' = [page_table EXCEPT ![cr3] = [v \in Pages |-> NotPresent]]
        BY <1>2, <2>2, <3>1 DEF EndDestroy, ReleasedDirectory, FreePageDirectory
      <4>2. cr3 \in Dirs
        BY <1>2 DEF EndDestroy, RunningInv
      <4>3. page_table'[cr3][0] = NotPresent
        BY <4>1, <4>2, ConstantsFit DEF PagingInv, DirectoriesType
      <4> QED BY <2>1, <4>3 DEF CodeMapped
    <3>2. CASE p_index # cur_idx
      <4>1. cur_idx \in Slots
        BY <1>2 DEF EndDestroy, RunningInv
      <4> QED BY <1>2, <2>2, <3>2, <4>1 DEF EndDestroy
    <3> QED BY <3>1, <3>2
  <2> QED BY <2>1, <2>2, <2>3, <2>4 DEF CallerInv
<1> QED BY <1>1, <1>2

LEMMA CallerAfterSwitch ==
    ASSUME ProcessInv, CallerInv, SwitchToNextProcess
    PROVE  CallerInv'
<1> USE DEF ProcessInv, KernelTypeOK
<1>1. PICK n \in Slots :
        /\ active[n]
        /\ cur_state' = [s \in Slots |-> IF s = n THEN "RUNNING"
                                         ELSE IF s = cur_idx THEN "READY" ELSE cur_state[s]]
        /\ cr3' = page_directory[n] /\ cur_idx' = n
  BY DEF SwitchToNextProcess, NextActive
<1>2. kpc' = "user" /\ UNCHANGED << active, page_directory >>
  BY DEF SwitchToNextProcess
<1>3. \A s \in Slots : active'[s] => (cur_state'[s] = "RUNNING" <=> s = cur_idx')
  BY <1>1, <1>2 DEF CallerInv
<1> QED BY <1>1, <1>2, <1>3 DEF CallerInv

LEMMA CallerStep == ProcessInv /\ CallerInv /\ [AnyKillNext]_vars => CallerInv'
<1> SUFFICES ASSUME ProcessInv, CallerInv, [AnyKillNext]_vars PROVE CallerInv'
  OBVIOUS
<1>1. CASE Boot
  BY <1>1, CallerAfterCall DEF Boot
<1>2. CASE KernelStep
  BY <1>2, CallerAfterCreate, CallerAfterDestroy, CallerAfterSwitch
  DEF KernelStep, BootSwitch
<1>3. ASSUME NEW p, ExecCall(p) \/ KillCall(p) PROVE CallerInv'
  BY <1>3, CallerAfterCall DEF ExecCall, KillCall, ShellRuns
<1>4. CASE ExitCall
  BY <1>4, CallerAfterCall DEF ExitCall, ShellRuns
<1>5. CASE TimerInterrupt
  BY <1>5, CallerAfterSwitch DEF TimerInterrupt
<1>6. CASE PageFault
  BY <1>6 DEF PageFault, CallerInv, pcbVars, managerVars, localVars
<1>7. CASE UNCHANGED vars
  BY <1>7 DEF vars, CallerInv, CodeMapped, pagingVars, pcbVars, managerVars, localVars
<1> QED BY <1>1, <1>2, <1>3, <1>4, <1>5, <1>6, <1>7 DEF AnyKillNext, Next, Stopped

LEMMA InitCallerInv == Init => CallerInv
BY DEF Init, CallerInv, Slots

(* User code always runs under the directory of the process the scheduler  *)
(* believes is running, which alone is marked RUNNING, whatever shells     *)
(* create and destroy.                                                     *)
THEOREM OwnAddressSpace == Spec => []RunsInOwnAddressSpace
<1>1. ProcessInv /\ CallerInv /\ [Next]_vars => CallerInv'
  BY CallerStep, NextIsAnyKillNext
<1>2. CallerInv => RunsInOwnAddressSpace
  BY DEF CallerInv, RunsInOwnAddressSpace, InUser, ActiveSlots
<1> QED BY <1>1, <1>2, InitCallerInv, ProcessInvariance, PTL DEF Spec
=============================================================================
