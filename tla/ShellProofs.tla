----------------------------- MODULE ShellProofs -----------------------------
(***************************************************************************)
(* Proofs about the shells' kill, exec and exit, for any number of shells, *)
(* slots, frames and directories.                                          *)
(*                                                                         *)
(* A shell may ask the kernel to destroy a pid that is not active any more *)
(* (finding stale_kill), which Process's Next does not have; AnyKillNext   *)
(* of ProcessProofs does.  So the kernel's invariants hold all the same,   *)
(* and with them everything that is proved about the memory manager.       *)
(***************************************************************************)
EXTENDS Shell, ProcessProofs, WellFoundedInduction

(* A set of numbers that is not empty has a least element. *)
LEMMA LeastNat ==
    ASSUME NEW T, T \subseteq Nat, T # {}
    PROVE  \E m \in T : \A n \in T : m <= n
<1> DEFINE R == {ss \in Nat \X Nat : ss[1] < ss[2]}
<1>1. IsWellFoundedOn(R, Nat)
  BY NatLessThanWellFounded, Zenon DEF OpToRel
<1>2. PICK x \in T : \A y \in T : ~(<< y, x >> \in R)
  <2> HIDE DEF R
  <2> QED BY <1>1, WFMin
<1>3. ASSUME NEW y \in T PROVE x <= y
  <2>1. << y, x >> \in Nat \X Nat /\ ~(<< y, x >> \in R)
    BY <1>2
  <2>2. ~(y < x)
    BY <2>1
  <2> QED BY <2>2
<1> QED BY <1>3

(* The k-th element of a finite set of numbers. *)
Below(S, n) == {t \in S : t < n}

LEMMA BelowNext ==
    ASSUME NEW S \in SUBSET Nat, NEW n \in Nat
    PROVE  Below(S, n + 1) = IF n \in S THEN Below(S, n) \cup {n} ELSE Below(S, n)
<1>1. ASSUME NEW t \in S PROVE t < n + 1 <=> t < n \/ t = n
  OBVIOUS
<1> QED BY <1>1 DEF Below

LEMMA KthElement ==
    ASSUME NEW N \in Nat, NEW S \in SUBSET (0 .. N - 1), NEW k \in Nat, k < Cardinality(S)
    PROVE  \E s \in S : Cardinality(Below(S, s)) = k
<1>1. IsFiniteSet(S) /\ S \in SUBSET Nat
  <2>1. IsFiniteSet(0 .. N - 1)
    BY FS_Interval
  <2>2. IsFiniteSet(S)
    BY <2>1, FS_Subset
  <2>3. 0 .. N - 1 \subseteq Nat
    OBVIOUS
  <2> QED BY <2>2, <2>3
<1>2. ASSUME NEW n PROVE IsFiniteSet(Below(S, n)) /\ Cardinality(Below(S, n)) \in Nat
  <2>1. Below(S, n) \in SUBSET S
    BY DEF Below
  <2> QED BY <1>1, <2>1, FS_Subset, FS_CardinalityType
<1> DEFINE T == {n \in Nat : k < Cardinality(Below(S, n))}
<1>3. N \in T
  <2>1. \A t \in S : t < N
    OBVIOUS
  <2>2. Below(S, N) = S
    BY <2>1 DEF Below
  <2> QED BY <2>2
<1>4. PICK m \in T : \A n \in T : m <= n
  <2>1. T \subseteq Nat /\ T # {}
    BY <1>3
  <2> HIDE DEF T
  <2> QED BY <2>1, LeastNat
<1>5. m # 0
  <2>1. \A t \in S : ~(t < 0)
    BY <1>1
  <2>2. Below(S, 0) = {}
    BY <2>1 DEF Below
  <2>3. Cardinality(Below(S, 0)) = 0
    BY <2>2, FS_EmptySet
  <2> QED BY <2>3
<1>6. PICK s \in Nat : m = s + 1 /\ s \notin T
  <2>1. m - 1 \in Nat /\ m = (m - 1) + 1 /\ ~(m <= m - 1)
    BY <1>5
  <2>2. m - 1 \notin T
    BY <2>1, <1>4
  <2> QED BY <2>1, <2>2
<1>7. Below(S, m) = IF s \in S THEN Below(S, s) \cup {s} ELSE Below(S, s)
  BY <1>1, <1>6, BelowNext
<1>8. Cardinality(Below(S, s)) <= k /\ Cardinality(Below(S, m)) > k
  <2>1. ~(k < Cardinality(Below(S, s)))
    BY <1>6
  <2> QED BY <2>1, <1>2
<1>9. s \in S
  BY <1>7, <1>8, <1>2
<1>10. Cardinality(Below(S, m)) <= Cardinality(Below(S, s)) + 1
  <2>1. IsFiniteSet(Below(S, s)) /\ Cardinality(Below(S, s)) \in Nat
    BY <1>2
  <2>2. Cardinality(Below(S, s) \cup {s}) <= Cardinality(Below(S, s)) + 1
    BY <2>1, FS_AddElement
  <2> QED BY <2>2, <1>7, <1>9
<1>11. Cardinality(Below(S, s)) = k
  BY <1>2, <1>8, <1>10
<1> QED BY <1>9, <1>11

-----------------------------------------------------------------------------
(* What getActivePCB leaves in the caller's array. *)
LEMMA SnapshotType ==
    ASSUME KernelTypeOK, SlotsInv, NEW ptr \in [Slots -> 0 .. total_pid]
    PROVE  Snapshot(ptr) \in [Slots -> 0 .. total_pid]
<1>1. ASSUME NEW n \in ActivePids PROVE n \in 0 .. total_pid
  BY DEF ActivePids, ActiveSlots, SlotsInv, KernelTypeOK
<1>2. ASSUME NEW k \in Slots, k < Cardinality(ActiveSlots)
      PROVE  \E n \in ActivePids : \E s \in ActiveSlots :
                 pid[s] = n /\ Cardinality({t \in ActiveSlots : t < s}) = k
  <2>1. ActiveSlots \in SUBSET (0 .. PROCESS_COUNT_MAX - 1) /\ k \in Nat
    BY SlotsAssumption DEF ActiveSlots, Slots
  <2>2. PICK s \in ActiveSlots : Cardinality(Below(ActiveSlots, s)) = k
    BY <1>2, <2>1, SlotsAssumption, KthElement
  <2> QED BY <2>2 DEF Below, ActivePids
<1>3. ASSUME NEW k \in Slots PROVE Snapshot(ptr)[k] \in 0 .. total_pid
  <2>1. CASE k < Cardinality(ActiveSlots)
    <3> DEFINE P(n) == \E s \in ActiveSlots :
                          pid[s] = n /\ Cardinality({t \in ActiveSlots : t < s}) = k
    <3>1. \E n \in ActivePids : P(n)
      BY <1>2, <2>1
    <3>2. Snapshot(ptr)[k] = CHOOSE n \in ActivePids : P(n)
      BY <2>1 DEF Snapshot
    <3> HIDE DEF P
    <3>3. Snapshot(ptr)[k] \in ActivePids
      BY <3>1, <3>2
    <3> QED BY <1>1, <3>3
  <2>2. CASE ~(k < Cardinality(ActiveSlots))
    <3>1. Snapshot(ptr)[k] = ptr[k]
      BY <2>2 DEF Snapshot
    <3> QED BY <3>1
  <2> QED BY <2>1, <2>2
<1>4. Snapshot(ptr) = [k \in Slots |-> Snapshot(ptr)[k]]
  BY DEF Snapshot
<1> QED BY <1>3, <1>4

ListsType ==
    /\ list_pcb \in [Slots -> [Slots -> 0 .. total_pid]]
    /\ kill_pid \in [Slots -> 0 .. total_pid]

ShellInv == ProcessInv /\ ListsType

(* Every step of a shell is one of the kernel's, or none. *)
LEMMA ShellStepIsKernelStep == ShellInv /\ [ShellNext]_allVars => [AnyKillNext]_vars
<1> SUFFICES ASSUME ShellInv, [ShellNext]_allVars PROVE [AnyKillNext]_vars
  OBVIOUS
<1>1. CASE KernelOrHardware
  BY <1>1 DEF KernelOrHardware, AnyKillNext, Next
<1>2. ASSUME NEW p \in Executables, Exec(p) PROVE AnyKillNext
  BY <1>2 DEF Exec, AnyKillNext, Next
<1>3. CASE KillFound
  <2>1. cur_idx \in Slots
    BY <1>3 DEF KillFound, ShellRuns, ShellInv, ProcessInv, RunningInv, KernelTypeOK
  <2>2. kill_pid[cur_idx] \in Nat \ {0}
    BY <1>3, <2>1 DEF KillFound, ShellInv, ListsType
  <2> QED BY <1>3, <2>2 DEF KillFound, AnyKillNext
<1>4. CASE Exit
  BY <1>4 DEF Exit, AnyKillNext, Next
<1>5. ASSUME NEW n, KillList(n) \/ KillNotFound \/ OtherCommand PROVE UNCHANGED vars
  BY <1>5 DEF KillList, KillNotFound, OtherCommand
<1> QED BY <1>1, <1>2, <1>3, <1>4, <1>5 DEF ShellNext, allVars

(* Pids are never taken back. *)
LEMMA TotalPidGrows ==
    ASSUME KernelTypeOK, [AnyKillNext]_vars
    PROVE  total_pid' \in Nat /\ total_pid <= total_pid'
<1>1. total_pid \in Nat
  BY DEF KernelTypeOK
<1>2. total_pid' = total_pid \/ total_pid' = total_pid + 1
  <2>1. CASE EndCreate
    BY <2>1 DEF EndCreate
  <2>2. CASE ~EndCreate
    BY <2>2 DEF AnyKillNext, Next, Boot, KernelStep, BootSwitch, ExecCall, KillCall, ExitCall,
       TimerInterrupt, PageFault, Stopped, BeginCreate, CrashCreate, RejectCreate,
       AllocatePage, BeginDestroy, ReleasePage, EndDestroy, SwitchToNextProcess, vars,
       managerVars
  <2> QED BY <2>1, <2>2
<1> QED BY <1>1, <1>2

LEMMA ListsGrow ==
    ASSUME ListsType, total_pid \in Nat, total_pid' \in Nat, total_pid <= total_pid'
    PROVE  /\ list_pcb \in [Slots -> [Slots -> 0 .. total_pid']]
           /\ kill_pid \in [Slots -> 0 .. total_pid']
           /\ NoList \in [Slots -> 0 .. total_pid']
<1>1. 0 .. total_pid \subseteq 0 .. total_pid'
  OBVIOUS
<1>2. ASSUME NEW s \in Slots PROVE list_pcb[s] \in [Slots -> 0 .. total_pid']
  BY <1>1 DEF ListsType
<1>3. list_pcb \in [Slots -> [Slots -> 0 .. total_pid']]
  BY <1>2 DEF ListsType
<1> QED BY <1>1, <1>3 DEF ListsType, NoList

LEMMA ListsStep == ShellInv /\ ProcessInv' /\ [ShellNext]_allVars => ListsType'
<1> SUFFICES ASSUME ShellInv, ProcessInv', [ShellNext]_allVars PROVE ListsType'
  OBVIOUS
<1> DEFINE Pids == 0 .. total_pid'
<1>1. /\ total_pid \in Nat /\ total_pid' \in Nat /\ total_pid <= total_pid'
      /\ KernelTypeOK /\ SlotsInv /\ ListsType
  BY ShellStepIsKernelStep, TotalPidGrows DEF ShellInv, ProcessInv, KernelTypeOK
<1>2. /\ list_pcb \in [Slots -> [Slots -> Pids]] /\ kill_pid \in [Slots -> Pids]
      /\ NoList \in [Slots -> Pids] /\ 0 \in Pids
  BY <1>1, ListsGrow
<1>3. SUFFICES list_pcb' \in [Slots -> [Slots -> Pids]] /\ kill_pid' \in [Slots -> Pids]
  BY DEF ListsType
<1> HIDE DEF Pids
<1>4. CASE UNCHANGED shellVars
  BY <1>2, <1>4 DEF shellVars
<1>5. ASSUME NEW p \in Executables, Exec(p), ~UNCHANGED shellVars
      PROVE  list_pcb' \in [Slots -> [Slots -> Pids]] /\ kill_pid' \in [Slots -> Pids]
  <2>1. /\ list_pcb' = [list_pcb EXCEPT ![p_index'] = NoList]
        /\ kill_pid' = [kill_pid EXCEPT ![p_index'] = 0]
    BY <1>5 DEF Exec
  <2> QED BY <1>2, <2>1
<1>6. ASSUME NEW n \in 1 .. total_pid, KillList(n)
      PROVE  list_pcb' \in [Slots -> [Slots -> Pids]] /\ kill_pid' \in [Slots -> Pids]
  <2>1. cur_idx \in Slots
    BY <1>6 DEF KillList, ShellRuns, ShellInv, ProcessInv, RunningInv, KernelTypeOK
  <2>2. UNCHANGED total_pid
    BY <1>6 DEF KillList, vars, managerVars
  <2>3. Snapshot(list_pcb[cur_idx]) \in [Slots -> Pids]
    BY <1>1, <2>1, <2>2, SnapshotType DEF ListsType, Pids
  <2>4. n \in Pids
    BY <1>1, <2>2 DEF Pids
  <2>5. /\ list_pcb' = [list_pcb EXCEPT ![cur_idx] = Snapshot(list_pcb[cur_idx])]
        /\ kill_pid' = [kill_pid EXCEPT ![cur_idx] = n]
    BY <1>6 DEF KillList
  <2> QED BY <1>2, <2>3, <2>4, <2>5
<1>7. CASE KillFound \/ KillNotFound
  <2>1. UNCHANGED list_pcb /\ kill_pid' = [kill_pid EXCEPT ![cur_idx] = 0]
    BY <1>7 DEF KillFound, KillNotFound
  <2> QED BY <1>2, <2>1
<1>8. CASE OtherCommand
  <2>1. list_pcb' = [list_pcb EXCEPT ![cur_idx] = NoList] /\ UNCHANGED kill_pid
    BY <1>8 DEF OtherCommand
  <2> QED BY <1>2, <2>1
<1> QED BY <1>4, <1>5, <1>6, <1>7, <1>8
        DEF ShellNext, KernelOrHardware, Exit, allVars

LEMMA ShellInvStep == ShellInv /\ [ShellNext]_allVars => ShellInv'
<1> SUFFICES ASSUME ShellInv, [ShellNext]_allVars PROVE ShellInv'
  OBVIOUS
<1>1. ProcessInv'
  BY ShellStepIsKernelStep, EveryStepIsGood DEF ShellInv, Good
<1> QED BY <1>1, ListsStep DEF ShellInv

LEMMA InitShellInv == ShellInit => ShellInv
<1> SUFFICES ASSUME ShellInit PROVE ShellInv
  OBVIOUS
<1>1. ProcessInv
  BY InitProcessInv DEF ShellInit
<1>2. total_pid = 0
  BY DEF ShellInit, Init
<1>3. ListsType
  BY <1>2 DEF ShellInit, ListsType, NoList
<1> QED BY <1>1, <1>3 DEF ShellInv

THEOREM ShellInvariance == ShellSpec => []ShellInv
BY InitShellInv, ShellInvStep, PTL DEF ShellSpec

(* The snapshots of kill hold pids that were given out, whatever the array *)
(* on the stack held before, and the kernel's tables keep their types when *)
(* kill destroys a process that is gone (command-shell.c:887).             *)
THEOREM ShellTypeCorrect == ShellSpec => []ShellTypeOK
<1>1. ShellInv => ShellTypeOK
  BY InvImpliesType
  DEF ShellInv, ListsType, ShellTypeOK, ProcessInv, ProcessTypeOK
<1> QED BY <1>1, ShellInvariance, PTL

(* Whatever the shells do, also when they destroy a process twice, the     *)
(* memory manager takes only steps it was made for: its theorems hold.     *)
THEOREM ShellUsesPagingCorrectly == ShellSpec => PagingSpec
<1>1. ShellInit => PagingInit
  BY DEF ShellInit, Init
<1>2. ShellInv /\ [ShellNext]_allVars => [PagingNext]_pagingVars
  BY ShellStepIsKernelStep, EveryStepIsGood DEF ShellInv, Good
<1> QED BY <1>1, <1>2, ShellInvariance, PTL DEF ShellSpec, PagingSpec

(* No frame is lost and none is counted twice, although pages are released *)
(* by release_memory, by paging_free_page_directory and again by a second  *)
(* kill of the same pid (process.c:61 and paging.c:195).                   *)
THEOREM ShellsLoseNoFrame == ShellSpec => [](FrameConservation /\ NoFrameLost)
BY ShellUsesPagingCorrectly, FramesAreConserved, PTL

(* A second kill of the same pid, which releases pages that may by now be  *)
(* another process's, still makes no two processes share a frame.          *)
THEOREM ShellsShareNoFrame ==
    ShellSpec /\ [](free_page_frame_count > 0) => []NoFrameIsShared
BY ShellUsesPagingCorrectly, FramesAreNotShared, PTL

(* User code runs under its own directory also when kill destroys what is  *)
(* gone or the shell itself.                                               *)
THEOREM ShellsOwnAddressSpace == ShellSpec => []RunsInOwnAddressSpace
<1>1. ShellInit => CallerInv
  BY InitCallerInv DEF ShellInit
<1>2. ShellInv /\ CallerInv /\ [ShellNext]_allVars => CallerInv'
  BY ShellStepIsKernelStep, CallerStep DEF ShellInv
<1>3. CallerInv => RunsInOwnAddressSpace
  BY DEF CallerInv, RunsInOwnAddressSpace, InUser, ActiveSlots
<1> QED BY <1>1, <1>2, <1>3, ShellInvariance, PTL DEF ShellSpec
=============================================================================
