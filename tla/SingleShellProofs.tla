-------------------------- MODULE SingleShellProofs --------------------------
(***************************************************************************)
(* The kernel with a single shell, which is how it is built: exec is only  *)
(* asked for programs that make no process system calls.  What the run     *)
(* two_shells violates holds then, although kill may still destroy what is *)
(* gone.                                                                   *)
(*                                                                         *)
(* The reason is an accident of two searches.  With the caller in slot 0   *)
(* the one for an inactive slot goes down from the last slot, the one for  *)
(* an unused directory goes up from the first: each slot gets the same     *)
(* directory every time, so that the stale pointer in the slot of a        *)
(* process that is gone never names the directory of another one.          *)
(***************************************************************************)
EXTENDS ShellProofs

SingleShell == Executables \cap Shells = {}

DirOf(s) == IF s = 0 THEN 0 ELSE PROCESS_COUNT_MAX - s

(* The slots whose directory is marked in use. *)
Holds(s) == active[s] \/ (kpc = "allocate" /\ p_index = s)

SlotsKeepPlaces ==
    \A s \in Slots : page_directory[s] # NULL_DIRECTORY =>
        page_directory[s] = DirOf(s) /\ (s # 0 => name[s] \notin Shells)

UsedIsHeld ==
    \A d \in Dirs : page_directory_used[d] <=> \E s \in Slots : d = DirOf(s) /\ Holds(s)

ActiveHaveCode ==
    \A s \in Slots : active[s] /\ ~(kpc = "release" /\ p_index = s) =>
        page_table[page_directory[s]][0] # NotPresent

PlacesInv ==
    /\ \A s \in Slots : active[s] => page_directory[s] = DirOf(s)
    /\ kpc \notin Stops => SlotsKeepPlaces /\ UsedIsHeld /\ ActiveHaveCode
    /\ kpc = "halted" => ~active[cur_idx]

KernelInv == ProcessInv /\ CallerInv /\ PlacesInv

-----------------------------------------------------------------------------
LEMMA DirOfIsInjective ==
    ASSUME NEW s \in Slots, NEW t \in Slots, DirOf(s) = DirOf(t)
    PROVE  s = t
BY SlotsAssumption DEF Slots, DirOf

LEMMA DirsAreNumbers ==
    /\ Dirs \subseteq Nat /\ NULL_DIRECTORY \notin Dirs /\ 0 \in Pages
    /\ \A d \in Dirs, e \in Nat : e < d => e \in Dirs
BY DirsAssumption, PagesAssumption DEF Dirs, NULL_DIRECTORY, Pages

(* The shell is the process in slot 0. *)
LEMMA CallerIsSlotZero ==
    ASSUME KernelInv, ShellRuns
    PROVE  cur_idx = 0 /\ active[0] /\ kpc = "user" /\ kpc \notin Stops
<1>1. kpc = "user" /\ CodeMapped /\ name[cur_idx] \in Shells /\ kpc \notin Stops
  BY DEF ShellRuns, Stops
<1>2. cur_idx \in Slots /\ cr3 \in Dirs /\ cr3 = page_directory[cur_idx] /\ active[cur_idx]
  BY <1>1 DEF KernelInv, ProcessInv, RunningInv, KernelTypeOK, CallerInv
<1>3. page_directory[cur_idx] # NULL_DIRECTORY
  BY <1>2, DirsAreNumbers
<1> QED BY <1>1, <1>2, <1>3 DEF KernelInv, PlacesInv, SlotsKeepPlaces

(* Both searches end at the same number, counted from opposite ends. *)
LEMMA SearchesAgree ==
    ASSUME KernelInv, kpc \in {"boot", "user"},
           kpc = "user" => cur_idx = 0 /\ active[0],
           NEW n \in Slots, InactiveIndex(n), NEW d \in Dirs, FirstUnusedDirectory(d)
    PROVE  d = DirOf(n) /\ (kpc = "boot" => n = 0)
<1>1. UsedIsHeld /\ kpc # "allocate"
  BY DEF KernelInv, PlacesInv, Stops
<1>2. ASSUME NEW s \in Slots, ~active[s], DirOf(s) \in Dirs
      PROVE  ~page_directory_used[DirOf(s)]
  BY <1>1, <1>2, DirOfIsInjective DEF UsedIsHeld, Holds
<1>3. \A e \in Dirs : e < d => \E s \in Slots : e = DirOf(s) /\ active[s]
  BY <1>1 DEF FirstUnusedDirectory, UsedIsHeld, Holds
<1>4. CASE kpc = "boot"
  <2>1. n = 0 /\ \A s \in Slots : ~active[s]
    BY <1>4 DEF KernelInv, ProcessInv, RunningInv, InactiveIndex
  <2>2. d = 0
    BY <1>3, <2>1, DirsAreNumbers
  <2> QED BY <2>1, <2>2 DEF DirOf
<1>5. CASE kpc = "user"
  <2>1. cur_idx = 0 /\ active[0] /\ active_process_count # 0
    BY <1>5 DEF KernelInv, ProcessInv, RunningInv
  <2>2. ~active[n] /\ n # 0
    BY <2>1 DEF InactiveIndex
  <2>3. ASSUME NEW s \in Slots, n < s PROVE active[s]
    <3> DEFINE distance(t) == (cur_idx - 1 - t + PROCESS_COUNT_MAX) % PROCESS_COUNT_MAX
    <3>1. distance(s) < distance(n)
      <4>1. /\ cur_idx - 1 - s + PROCESS_COUNT_MAX = PROCESS_COUNT_MAX - 1 - s
            /\ cur_idx - 1 - n + PROCESS_COUNT_MAX = PROCESS_COUNT_MAX - 1 - n
        BY <2>1, SlotsAssumption DEF Slots
      <4>2. ASSUME NEW k \in 0 .. PROCESS_COUNT_MAX - 1 PROVE k % PROCESS_COUNT_MAX = k
        BY SlotsAssumption
      <4>3. /\ PROCESS_COUNT_MAX - 1 - s \in 0 .. PROCESS_COUNT_MAX - 1
            /\ PROCESS_COUNT_MAX - 1 - n \in 0 .. PROCESS_COUNT_MAX - 1
        BY SlotsAssumption DEF Slots
      <4>4. distance(s) = PROCESS_COUNT_MAX - 1 - s /\ distance(n) = PROCESS_COUNT_MAX - 1 - n
        BY <4>1, <4>2, <4>3
      <4> QED BY <2>3, <4>4, SlotsAssumption DEF Slots
    <3>2. ~active[s] => distance(n) <= distance(s)
      BY <2>1 DEF InactiveIndex
    <3>3. distance(s) \in Int /\ distance(n) \in Int
      BY <2>1, SlotsAssumption DEF Slots
    <3> HIDE DEF distance
    <3> QED BY <3>1, <3>2, <3>3
  <2>4. ~(DirOf(n) < d)
    <3>1. DirOf(n) < d => DirOf(n) \in Dirs
      BY DirsAreNumbers, SlotsAssumption DEF DirOf, Slots
    <3> QED BY <1>3, <2>2, <3>1, DirOfIsInjective
  <2>5. ~(d < DirOf(n))
    <3> SUFFICES ASSUME d < DirOf(n) PROVE FALSE
      OBVIOUS
    <3>1. CASE d = 0
      BY <1>1, <2>1, <3>1, SlotsAssumption DEF FirstUnusedDirectory, UsedIsHeld, Holds, DirOf, Slots
    <3>2. CASE d # 0
      <4>1. PROCESS_COUNT_MAX - d \in Slots /\ n < PROCESS_COUNT_MAX - d
            /\ PROCESS_COUNT_MAX - d # 0
        BY <2>2, <3>2, DirsAreNumbers, SlotsAssumption DEF Slots, DirOf
      <4>2. DirOf(PROCESS_COUNT_MAX - d) = d
        BY <4>1, DirsAreNumbers, SlotsAssumption DEF DirOf
      <4> QED BY <1>1, <2>3, <4>1, <4>2 DEF FirstUnusedDirectory, UsedIsHeld, Holds
    <3> QED BY <3>1, <3>2
  <2> QED BY <1>5, <2>4, <2>5, DirsAreNumbers, SlotsAssumption DEF DirOf, Slots
<1> QED BY <1>4, <1>5

-----------------------------------------------------------------------------
(* What OthersUntouched says of a step. *)
Untouched ==
    \A s \in ActiveSlots :
        \/ kpc = "release" /\ p_index = s
        \/ /\ page_table'[page_directory[s]] = page_table[page_directory[s]]
           /\ page_directory'[s] = page_directory[s] /\ name'[s] = name[s]
           /\ active'[s]

LEMMA PlacesAfterBeginCreate ==
    ASSUME KernelInv, kpc \in {"boot", "user"}, kpc = "user" => cur_idx = 0 /\ active[0],
           NEW p \in Programs, kpc = "user" => p \notin Shells, BeginCreate(p)
    PROVE  PlacesInv' /\ Untouched
<1> USE DEF KernelInv, ProcessInv, KernelTypeOK
<1>1. PICK n \in Slots, d \in Dirs :
        /\ InactiveIndex(n) /\ CreateNewPageDirectory(d)
        /\ name' = [name EXCEPT ![n] = p]
        /\ page_directory' = [page_directory EXCEPT ![n] = d]
        /\ p_index' = n
  BY DEF BeginCreate
<1>2. /\ kpc' = "allocate" /\ active' = active /\ kpc' \notin Stops /\ kpc \notin Stops
      /\ kpc # "release" /\ kpc # "allocate"
  BY DEF BeginCreate, Stops
<1>3. /\ FirstUnusedDirectory(d) /\ page_table' = page_table
      /\ page_directory_used' = [page_directory_used EXCEPT ![d] = TRUE]
  BY <1>1 DEF CreateNewPageDirectory
<1>4. d = DirOf(n) /\ (kpc = "boot" => n = 0)
  BY <1>1, <1>3, SearchesAgree
<1>5. ~active[n]
  BY <1>1, InactiveIndexIsInactive
<1>6. SlotsKeepPlaces /\ UsedIsHeld /\ ActiveHaveCode
  BY <1>2 DEF PlacesInv
<1>7. \A s \in Slots : active'[s] => page_directory'[s] = DirOf(s)
  BY <1>1, <1>2, <1>5 DEF PlacesInv
<1>8. SlotsKeepPlaces'
  BY <1>1, <1>4, <1>6 DEF SlotsKeepPlaces
<1>9. UsedIsHeld'
  <2>1. ASSUME NEW e \in Dirs
        PROVE  page_directory_used'[e] <=> page_directory_used[e] \/ e = d
    BY <1>3 DEF PagingInv, DirectoriesType
  <2>2. ASSUME NEW s \in Slots PROVE Holds(s)' <=> Holds(s) \/ s = n
    BY <1>1, <1>2 DEF Holds
  <2> QED BY <1>4, <1>6, <2>1, <2>2, <1>1 DEF UsedIsHeld
<1>10. ActiveHaveCode'
  BY <1>1, <1>2, <1>3, <1>5, <1>6 DEF ActiveHaveCode
<1>11. Untouched
  BY <1>1, <1>2, <1>3, <1>5 DEF Untouched, ActiveSlots
<1> QED BY <1>2, <1>7, <1>8, <1>9, <1>10, <1>11 DEF PlacesInv

LEMMA PlacesAfterCrash ==
    ASSUME KernelInv, kpc = "user", NEW p \in Programs, CrashCreate(p)
    PROVE  PlacesInv' /\ Untouched
<1> USE DEF KernelInv, ProcessInv, KernelTypeOK
<1>1. PICK n \in Slots :
        /\ InactiveIndex(n)
        /\ name' = [name EXCEPT ![n] = p]
        /\ page_directory' = [page_directory EXCEPT ![n] = NULL_DIRECTORY]
  BY DEF CrashCreate
<1>2. kpc' = "crashed" /\ active' = active /\ page_table' = page_table
  BY DEF CrashCreate, pagingVars, frameVars
<1>3. ~active[n]
  BY <1>1, InactiveIndexIsInactive
<1>4. kpc' \in Stops /\ kpc' # "halted"
  BY <1>2 DEF Stops
<1>5. \A s \in Slots : active'[s] => page_directory'[s] = DirOf(s)
  BY <1>1, <1>2, <1>3 DEF PlacesInv
<1>6. Untouched
  BY <1>1, <1>2, <1>3 DEF Untouched, ActiveSlots
<1> QED BY <1>4, <1>5, <1>6 DEF PlacesInv

(* Calls that only set out to do something, and the scheduler. *)
LEMMA PlacesAfterOthers ==
    ASSUME KernelInv,
           /\ UNCHANGED << page_table, page_directory, page_directory_used, name, active >>
           /\ kpc' \notin Stops /\ kpc \notin Stops /\ kpc # "allocate" /\ kpc' # "allocate"
           /\ kpc # "release"
    PROVE  PlacesInv' /\ Untouched
<1>1. SlotsKeepPlaces' /\ UsedIsHeld' /\ ActiveHaveCode'
  BY DEF KernelInv, PlacesInv, SlotsKeepPlaces, UsedIsHeld, Holds, ActiveHaveCode
<1>2. kpc' # "halted" /\ \A s \in Slots : active'[s] => page_directory'[s] = DirOf(s)
  BY DEF KernelInv, PlacesInv, Stops
<1> QED BY <1>1, <1>2 DEF PlacesInv, Untouched, ActiveSlots

LEMMA PlacesAfterFault ==
    ASSUME KernelInv, PageFault
    PROVE  PlacesInv' /\ Untouched
<1>1. /\ kpc = "user" /\ kpc' = "halted" /\ page_table[cr3][0] = NotPresent
      /\ UNCHANGED << page_table, page_directory, name, active, cur_idx >>
  BY DEF PageFault, CodeMapped, pagingVars, pcbVars, managerVars
<1>2. cur_idx \in Slots /\ cr3 = page_directory[cur_idx] /\ kpc \notin Stops
  BY <1>1 DEF KernelInv, ProcessInv, RunningInv, KernelTypeOK, CallerInv, Stops
<1>3. ~active[cur_idx]
  BY <1>1, <1>2 DEF KernelInv, PlacesInv, ActiveHaveCode
<1>4. kpc' \in Stops
  BY <1>1 DEF Stops
<1> QED BY <1>1, <1>3, <1>4 DEF KernelInv, PlacesInv, Untouched, ActiveSlots

(* The slot the kernel works on has its own directory. *)
LEMMA PlaceOfSlot ==
    ASSUME KernelInv, kpc \in {"allocate", "release"}
    PROVE  /\ p_index \in Slots /\ page_directory[p_index] \in Dirs
           /\ page_directory[p_index] = DirOf(p_index)
           /\ SlotsKeepPlaces /\ UsedIsHeld /\ ActiveHaveCode /\ kpc \notin Stops
           /\ \A s \in Slots : active[s] => page_directory[s] = DirOf(s)
           /\ \A s \in Slots : active[s] /\ s # p_index =>
                  page_directory[s] \in Dirs /\ page_directory[s] # page_directory[p_index]
<1> USE DEF KernelInv, ProcessInv, KernelTypeOK
<1>1. kpc \notin Stops /\ SlotsKeepPlaces /\ UsedIsHeld /\ ActiveHaveCode /\ kpc # "crashed"
  BY DEF PlacesInv, Stops
<1>2. \A s \in Slots : active[s] => page_directory[s] = DirOf(s) /\ page_directory[s] \in Dirs
  BY <1>1 DEF PlacesInv, SlotsInv
<1>3. p_index \in Slots /\ page_directory[p_index] \in Dirs
  BY <1>1 DEF CreatingInv, ReleasingInv, SlotsInv
<1>4. page_directory[p_index] = DirOf(p_index)
  BY <1>1, <1>3, DirsAreNumbers DEF SlotsKeepPlaces
<1> QED BY <1>1, <1>2, <1>3, <1>4, DirOfIsInjective

LEMMA PlacesAfterPage ==
    ASSUME KernelInv, AllocatePage \/ ReleasePage
    PROVE  PlacesInv' /\ Untouched
<1> USE DEF KernelInv, ProcessInv, KernelTypeOK
<1> DEFINE d == page_directory[p_index]
<1>1. /\ kpc \in {"allocate", "release"} /\ kpc' = kpc
      /\ UNCHANGED << page_directory, name, active, p_index, page_directory_used >>
  BY DEF AllocatePage, ReleasePage, AllocateUserPageFrame, FreeUserPageFrame, pcbVars,
     pagingVars
<1>2. \A e \in Dirs : e # d => page_table'[e] = page_table[e]
  BY DEF AllocatePage, ReleasePage, AllocateUserPageFrame, FreeUserPageFrame,
     ReleasedDirectory, pagingVars, PagingInv, DirectoriesType
<1> HIDE DEF d
<1>3. /\ p_index \in Slots /\ d = DirOf(p_index) /\ kpc \notin Stops
      /\ SlotsKeepPlaces /\ UsedIsHeld /\ ActiveHaveCode
      /\ \A s \in Slots : active[s] => page_directory[s] = DirOf(s)
      /\ \A s \in Slots : active[s] /\ s # p_index =>
             page_directory[s] \in Dirs /\ page_directory[s] # d
  BY <1>1, PlaceOfSlot DEF d
<1>4. kpc = "allocate" => ~active[p_index]
  BY DEF CreatingInv
<1>5. SlotsKeepPlaces' /\ UsedIsHeld'
  BY <1>1, <1>3 DEF SlotsKeepPlaces, UsedIsHeld, Holds
<1>6. ActiveHaveCode'
  BY <1>1, <1>2, <1>3, <1>4 DEF ActiveHaveCode
<1>7. Untouched
  BY <1>1, <1>2, <1>3, <1>4 DEF Untouched, ActiveSlots
<1> QED BY <1>1, <1>3, <1>5, <1>6, <1>7 DEF PlacesInv, Stops

LEMMA PlacesAfterEndCreate ==
    ASSUME KernelInv, EndCreate
    PROVE  PlacesInv' /\ Untouched
<1> USE DEF KernelInv, ProcessInv, KernelTypeOK
<1>1. /\ kpc = "allocate" /\ kpc' \in {"switch", "user"}
      /\ UNCHANGED << page_directory, name, page_directory_used, page_table >>
      /\ active' = [active EXCEPT ![p_index] = TRUE]
  BY DEF EndCreate, pagingVars
<1>2. /\ p_index \in Slots /\ page_directory[p_index] = DirOf(p_index)
      /\ SlotsKeepPlaces /\ UsedIsHeld /\ ActiveHaveCode
      /\ \A s \in Slots : active[s] => page_directory[s] = DirOf(s)
  BY <1>1, PlaceOfSlot
<1>3. page_table[page_directory[p_index]][0] # NotPresent
  <2>1. i = PagesOf[request] /\ PagesOf[request] \in Nat \ {0}
    BY ProgramsAssumption DEF EndCreate
  <2> QED BY <1>1, <2>1 DEF CreatingInv
<1>4. \A s \in Slots : active'[s] <=> active[s] \/ s = p_index
  BY <1>1, <1>2
<1>5. \A s \in Slots : Holds(s)' <=> Holds(s)
  BY <1>1, <1>4 DEF Holds
<1>6. SlotsKeepPlaces' /\ UsedIsHeld'
  BY <1>1, <1>2, <1>5 DEF SlotsKeepPlaces, UsedIsHeld
<1>7. ActiveHaveCode'
  BY <1>1, <1>2, <1>3, <1>4 DEF ActiveHaveCode
<1>8. Untouched
  BY <1>1, <1>4 DEF Untouched, ActiveSlots
<1>9. \A s \in Slots : active'[s] => page_directory'[s] = DirOf(s)
  BY <1>1, <1>2, <1>4
<1> QED BY <1>1, <1>6, <1>7, <1>8, <1>9 DEF PlacesInv, Stops

LEMMA PlacesAfterBeginDestroy ==
    ASSUME KernelInv, kpc = "user", NEW n, BeginDestroy(n)
    PROVE  PlacesInv' /\ Untouched
<1>1. /\ UNCHANGED << page_table, page_directory, page_directory_used, name, active >>
      /\ kpc' = "release"
  BY DEF BeginDestroy, pagingVars, pcbVars
<1>2. SlotsKeepPlaces /\ UsedIsHeld /\ ActiveHaveCode
  BY DEF KernelInv, PlacesInv, Stops
<1>3. SlotsKeepPlaces' /\ UsedIsHeld' /\ ActiveHaveCode'
  BY <1>1, <1>2 DEF SlotsKeepPlaces, UsedIsHeld, Holds, ActiveHaveCode
<1> QED BY <1>1, <1>3 DEF KernelInv, PlacesInv, Stops, Untouched, ActiveSlots

LEMMA PlacesAfterEndDestroy ==
    ASSUME KernelInv, EndDestroy
    PROVE  PlacesInv' /\ Untouched
<1> USE DEF KernelInv, ProcessInv, KernelTypeOK
<1> DEFINE d == page_directory[p_index]
<1>1. /\ kpc = "release" /\ UNCHANGED << page_directory, name >>
      /\ page_directory_used' = [page_directory_used EXCEPT ![d] = FALSE]
      /\ page_table' = [page_table EXCEPT ![d] = [v \in Pages |-> NotPresent]]
      /\ \/ kpc' = "off" /\ UNCHANGED active
         \/ kpc' = "user" /\ active' = [active EXCEPT ![p_index] = FALSE]
  BY DEF EndDestroy, FreePageDirectory, ReleasedDirectory
<1>2. /\ p_index \in Slots /\ d \in Dirs /\ d = DirOf(p_index)
      /\ SlotsKeepPlaces /\ UsedIsHeld /\ ActiveHaveCode
      /\ \A s \in Slots : active[s] => page_directory[s] = DirOf(s)
      /\ \A s \in Slots : active[s] /\ s # p_index =>
             page_directory[s] \in Dirs /\ page_directory[s] # d
  BY <1>1, PlaceOfSlot
<1>3. /\ \A e \in Dirs : e # d => page_table'[e] = page_table[e]
      /\ \A e \in Dirs : page_directory_used'[e] <=> page_directory_used[e] /\ e # d
  BY <1>1 DEF PagingInv, DirectoriesType
<1> HIDE DEF d
<1>4. \A s \in Slots : active'[s] => active[s]
  BY <1>1, <1>2
<1>5. Untouched
  BY <1>1, <1>2, <1>3 DEF Untouched, ActiveSlots
<1>6. \A s \in Slots : active'[s] => page_directory'[s] = DirOf(s)
  BY <1>1, <1>2, <1>4
<1>7. CASE kpc' = "off"
  BY <1>5, <1>6, <1>7 DEF PlacesInv, Stops
<1>8. CASE kpc' = "user"
  <2>1. \A s \in Slots : active'[s] <=> active[s] /\ s # p_index
    BY <1>1, <1>2, <1>8
  <2>2. \A s \in Slots : Holds(s)' <=> Holds(s) /\ s # p_index
    BY <1>1, <1>8, <2>1 DEF Holds
  <2>3. UsedIsHeld'
    BY <1>2, <1>3, <2>2, DirOfIsInjective DEF UsedIsHeld
  <2>4. SlotsKeepPlaces' /\ ActiveHaveCode'
    BY <1>1, <1>2, <1>3, <1>8, <2>1 DEF SlotsKeepPlaces, ActiveHaveCode
  <2> QED BY <1>5, <1>6, <1>8, <2>3, <2>4 DEF PlacesInv, Stops
<1> QED BY <1>1, <1>7, <1>8

LEMMA PlacesStep ==
    ASSUME SingleShell, KernelInv, AnyKillNext
    PROVE  PlacesInv' /\ (Untouched \/ UNCHANGED vars)
<1>1. CASE Boot
  <2>1. kpc = "boot" /\ InitProgram \in Programs
    BY <1>1, ProgramsAssumption DEF Boot
  <2> QED BY <1>1, <2>1, PlacesAfterBeginCreate DEF Boot
<1>2. CASE AllocatePage \/ ReleasePage
  BY <1>2, PlacesAfterPage
<1>3. CASE EndCreate
  BY <1>3, PlacesAfterEndCreate
<1>4. CASE EndDestroy
  BY <1>4, PlacesAfterEndDestroy
<1>5. CASE BootSwitch \/ TimerInterrupt
  <2>1. kpc \in {"switch", "user"} /\ kpc' = "user"
        /\ UNCHANGED << page_table, page_directory, page_directory_used, name, active >>
    BY <1>5 DEF BootSwitch, TimerInterrupt, SwitchToNextProcess, pagingVars
  <2> QED BY <2>1, PlacesAfterOthers DEF Stops
<1>6. ASSUME NEW p \in Executables, ExecCall(p) PROVE PlacesInv' /\ Untouched
  <2>1. kpc = "user" /\ cur_idx = 0 /\ active[0]
    BY <1>6, CallerIsSlotZero DEF ExecCall
  <2>2. p \in Programs /\ p \notin Shells
    BY ProgramsAssumption DEF SingleShell
  <2>3. CASE BeginCreate(p)
    BY <2>1, <2>2, <2>3, PlacesAfterBeginCreate
  <2>4. CASE CrashCreate(p)
    BY <2>1, <2>2, <2>4, PlacesAfterCrash
  <2>5. CASE RejectCreate(p)
    BY <2>1, <2>5, PlacesAfterOthers DEF RejectCreate, pagingVars, pcbVars, Stops
  <2> QED BY <1>6, <2>3, <2>4, <2>5 DEF ExecCall
<1>7. ASSUME NEW n, KillCall(n) \/ ExitCall PROVE PlacesInv' /\ Untouched
  BY <1>7, PlacesAfterBeginDestroy DEF KillCall, ExitCall, ShellRuns
<1>8. CASE PageFault
  BY <1>8, PlacesAfterFault
<1>9. CASE Stopped
  <2>1. UNCHANGED vars
    BY <1>9 DEF Stopped
  <2>2. UNCHANGED << page_table, page_directory, page_directory_used, name, active, kpc,
                     p_index, cur_idx >>
    BY <2>1 DEF vars, pagingVars, pcbVars, managerVars, localVars
  <2>3. PlacesInv'
    BY <2>2 DEF KernelInv, PlacesInv, SlotsKeepPlaces, UsedIsHeld, Holds, ActiveHaveCode
  <2> QED BY <2>1, <2>3
<1> QED BY <1>1, <1>2, <1>3, <1>4, <1>5, <1>6, <1>7, <1>8, <1>9
        DEF AnyKillNext, Next, KernelStep

LEMMA KernelStepKeeps ==
    ASSUME SingleShell, ShellInv, KernelInv, [ShellNext]_allVars
    PROVE  KernelInv' /\ [Untouched]_vars
<1>1. [AnyKillNext]_vars
  BY ShellStepIsKernelStep
<1>2. ProcessInv' /\ CallerInv'
  BY <1>1, EveryStepIsGood, CallerStep DEF KernelInv, Good
<1>3. CASE AnyKillNext
  BY <1>2, <1>3, PlacesStep DEF KernelInv
<1>4. CASE UNCHANGED vars
  <2>1. PlacesInv'
    BY <1>4 DEF vars, pagingVars, pcbVars, managerVars, localVars,
       KernelInv, PlacesInv, SlotsKeepPlaces, UsedIsHeld, Holds, ActiveHaveCode
  <2> QED BY <1>2, <1>4, <2>1 DEF KernelInv
<1> QED BY <1>1, <1>3, <1>4

LEMMA InitKernelInv == ShellInit => KernelInv
<1> SUFFICES ASSUME ShellInit PROVE KernelInv
  OBVIOUS
<1>1. ProcessInv /\ CallerInv
  BY InitProcessInv, InitCallerInv DEF ShellInit
<1>2. PlacesInv
  BY DEF ShellInit, Init, PagingInit, PlacesInv, SlotsKeepPlaces, UsedIsHeld, Holds,
     ActiveHaveCode
<1> QED BY <1>1, <1>2 DEF KernelInv

LEMMA KernelInvariance == ASSUME SingleShell PROVE ShellSpec => []KernelInv
<1>1. ShellInv /\ KernelInv /\ [ShellNext]_allVars => KernelInv'
  BY KernelStepKeeps
<1> QED BY <1>1, InitKernelInv, ShellInvariance, PTL DEF ShellSpec

-----------------------------------------------------------------------------
(* With one shell the directories marked in use are those of the active    *)
(* processes, one each, whatever pids kill is given (process.c:24, and     *)
(* paging.c:164).                                                          *)
THEOREM OneDirectoryEach == ASSUME SingleShell PROVE ShellSpec => []DirectoryPerProcess
<1>1. ASSUME KernelInv PROVE DirectoryPerProcess
  <2> USE DEF KernelInv, ActiveSlots
  <2>1. \A s \in Slots : active[s] => page_directory[s] = DirOf(s)
    BY <1>1 DEF PlacesInv
  <2>2. \A s, t \in ActiveSlots : s # t => page_directory[s] # page_directory[t]
    BY <2>1, DirOfIsInjective
  <2>3. ASSUME InUser
        PROVE  {d \in Dirs : page_directory_used[d]} = {page_directory[s] : s \in ActiveSlots}
    <3>1. UsedIsHeld /\ kpc # "allocate" /\ kpc # "crashed"
      BY <1>1, <2>3 DEF PlacesInv, InUser, Stops
    <3>2. \A s \in Slots : active[s] => page_directory[s] \in Dirs
      BY <1>1, <3>1 DEF ProcessInv, SlotsInv
    <3> QED BY <2>1, <3>1, <3>2 DEF UsedIsHeld, Holds
  <2> QED BY <2>2, <2>3 DEF DirectoryPerProcess
<1>2. KernelInv => DirectoryPerProcess
  BY <1>1
<1> QED BY <1>2, KernelInvariance, PTL

(* With one shell no frame outlives its process: every entry that is       *)
(* present while programs run belongs to an active one (process.c:60).     *)
THEOREM NoFrameOutlivesItsProcess ==
    ASSUME SingleShell PROVE ShellSpec => []FramesBelongToActive
<1>1. ASSUME KernelInv, InUser, NEW e \in PresentEntries
      PROVE  \E s \in ActiveSlots : page_directory[s] = e[1]
  <2>1. e[1] \in Dirs /\ e \in EntriesOf(e[1])
    BY DEF PresentEntries, EntriesOf
  <2>2. page_directory_used[e[1]]
    BY <1>1, <2>1 DEF KernelInv, ProcessInv, PagingInv, UnusedDirectoryIsEmpty
  <2>3. UsedIsHeld /\ kpc # "allocate"
    BY <1>1 DEF KernelInv, PlacesInv, InUser, Stops
  <2>4. PICK s \in Slots : e[1] = DirOf(s) /\ active[s]
    BY <2>1, <2>2, <2>3 DEF UsedIsHeld, Holds
  <2> QED BY <1>1, <2>4 DEF KernelInv, PlacesInv, ActiveSlots
<1>2. KernelInv => FramesBelongToActive
  BY <1>1 DEF FramesBelongToActive
<1> QED BY <1>2, KernelInvariance, PTL

(* With one shell a page fault halts the machine only on behalf of a       *)
(* process that destroyed itself: a process that is active always has its  *)
(* code mapped (process.c:110 and interrupt.c:284).                        *)
THEOREM LiveProcessesDoNotFault ==
    ASSUME SingleShell PROVE ShellSpec => []OnlyTheDestroyedFault
<1>1. KernelInv => OnlyTheDestroyedFault
  BY DEF KernelInv, PlacesInv, ActiveHaveCode, OnlyTheDestroyedFault, InUser, ActiveSlots,
     Stops
<1> QED BY <1>1, KernelInvariance, PTL

(* With one shell no step of the kernel touches the mapping, the program   *)
(* or the directory of an active process other than the one it destroys,   *)
(* also when kill is asked for a process that is gone (process.c:145).     *)
THEOREM StepsLeaveOthersAlone == ASSUME SingleShell PROVE ShellSpec => OthersUntouched
<1>1. ShellInv /\ KernelInv /\ [ShellNext]_allVars => [Untouched]_vars
  BY KernelStepKeeps
<1> QED BY <1>1, KernelInvariance, ShellInvariance, PTL
        DEF ShellSpec, OthersUntouched, Untouched

-----------------------------------------------------------------------------
(* Why the count of processes is exact when kill is asked for active pids  *)
(* only: the shell, in slot 0, has pid 1, which is what exit destroys.     *)
PidsInv ==
    /\ \A s, t \in Slots : s # t /\ pid[s] # 0 => pid[s] # pid[t]
    /\ pid[0] \in {0, 1}
    /\ kpc = "boot" => total_pid = 0
    /\ kpc = "allocate" => \/ cur_idx = -1 /\ p_index = 0 /\ total_pid = 0
                           \/ cur_idx = 0
    /\ kpc = "release" => active[p_index]

CountInv == PidsInv /\ CountIsActiveSlots

LEMMA ActiveFinite == IsFiniteSet(ActiveSlots) /\ Cardinality(ActiveSlots) \in Nat
<1>1. IsFiniteSet(Slots)
  BY FS_Interval, SlotsAssumption DEF Slots
<1> QED BY <1>1, FS_Subset, FS_CardinalityType DEF ActiveSlots

LEMMA CountAfterEndCreate ==
    ASSUME KernelInv, CountInv, EndCreate
    PROVE  CountInv'
<1> USE DEF KernelInv, ProcessInv, KernelTypeOK, CountInv
<1>1. /\ kpc = "allocate" /\ kpc' \in {"switch", "user"} /\ p_index \in Slots
      /\ pid' = [pid EXCEPT ![p_index] = total_pid + 1] /\ total_pid' = total_pid + 1
      /\ active' = [active EXCEPT ![p_index] = TRUE]
      /\ active_process_count' = active_process_count + 1
  BY DEF EndCreate, NewPid
<1>2. ~active[p_index] /\ (cur_idx # -1 => active[cur_idx])
  BY <1>1 DEF CreatingInv, CallerInv
<1>3. p_index = 0 => total_pid = 0
  BY <1>1, <1>2 DEF PidsInv
<1>4. PidsInv'
  <2>1. \A s, t \in Slots : s # t /\ pid'[s] # 0 => pid'[s] # pid'[t]
    BY <1>1 DEF PidsInv, SlotsInv
  <2>2. pid'[0] \in {0, 1}
    BY <1>1, <1>3, ConstantsFit DEF PidsInv
  <2> QED BY <1>1, <2>1, <2>2 DEF PidsInv
<1>5. CountIsActiveSlots'
  <2>1. ActiveSlots' = ActiveSlots \cup {p_index} /\ p_index \notin ActiveSlots
    BY <1>1, <1>2 DEF ActiveSlots
  <2>2. Cardinality(ActiveSlots \cup {p_index}) = Cardinality(ActiveSlots) + 1
    BY <2>1, ActiveFinite, FS_AddElement
  <2> QED BY <1>1, <2>1, <2>2 DEF CountIsActiveSlots
<1> QED BY <1>4, <1>5

LEMMA CountAfterEndDestroy ==
    ASSUME KernelInv, CountInv, EndDestroy
    PROVE  CountInv'
<1> USE DEF KernelInv, ProcessInv, KernelTypeOK, CountInv
<1>1. /\ kpc = "release" /\ kpc' \in {"off", "user"} /\ UNCHANGED pid /\ p_index \in Slots
      /\ \/ UNCHANGED << active, active_process_count >>
         \/ /\ active' = [active EXCEPT ![p_index] = FALSE]
            /\ active_process_count' = active_process_count - 1
  BY DEF EndDestroy
<1>2. PidsInv'
  BY <1>1 DEF PidsInv
<1>3. CASE UNCHANGED << active, active_process_count >>
  BY <1>2, <1>3 DEF CountIsActiveSlots, ActiveSlots
<1>4. CASE /\ active' = [active EXCEPT ![p_index] = FALSE]
           /\ active_process_count' = active_process_count - 1
  <2>1. ActiveSlots' = ActiveSlots \ {p_index} /\ p_index \in ActiveSlots
    BY <1>1, <1>4 DEF PidsInv, ActiveSlots
  <2>2. Cardinality(ActiveSlots \ {p_index}) = Cardinality(ActiveSlots) - 1
    BY <2>1, ActiveFinite, FS_RemoveElement
  <2> QED BY <1>2, <1>4, <2>1, <2>2 DEF CountIsActiveSlots
<1> QED BY <1>1, <1>3, <1>4

LEMMA CountAfterBeginCreate ==
    ASSUME KernelInv, CountInv, kpc \in {"boot", "user"},
           kpc = "user" => cur_idx = 0, NEW p, BeginCreate(p)
    PROVE  CountInv'
<1>1. /\ kpc' = "allocate" /\ UNCHANGED << pid, active, total_pid, cur_idx >>
      /\ active_process_count' = active_process_count
  BY DEF BeginCreate, managerVars
<1>2. kpc = "boot" => cur_idx = -1 /\ total_pid = 0 /\ p_index' = 0
  <2>1. kpc = "boot" => cur_idx = -1 /\ total_pid = 0 /\ active_process_count = 0
    BY DEF KernelInv, ProcessInv, RunningInv, CountInv, PidsInv
  <2> QED BY <2>1 DEF BeginCreate, InactiveIndex
<1>3. PidsInv'
  BY <1>1, <1>2 DEF CountInv, PidsInv
<1> QED BY <1>1, <1>3 DEF CountInv, CountIsActiveSlots, ActiveSlots

LEMMA CountAfterBeginDestroy ==
    ASSUME KernelInv, CountInv, kpc = "user", NEW t \in Slots, active[t],
           BeginDestroy(pid[t])
    PROVE  CountInv'
<1>1. PICK s \in Slots : pid[s] = pid[t] /\ p_index' = s
  BY DEF BeginDestroy, FirstSlotWithPid
<1>2. pid[t] # 0
  BY DEF KernelInv, ProcessInv, SlotsInv
<1>3. s = t
  BY <1>1, <1>2 DEF CountInv, PidsInv
<1>4. kpc' = "release" /\ UNCHANGED << pid, active, active_process_count >>
  BY DEF BeginDestroy, pcbVars, managerVars
<1>5. PidsInv'
  BY <1>1, <1>3, <1>4 DEF CountInv, PidsInv
<1> QED BY <1>4, <1>5 DEF CountInv, CountIsActiveSlots, ActiveSlots

(* Steps that leave the table of processes and the manager's counts alone. *)
LEMMA CountAfterOthers ==
    ASSUME CountInv, UNCHANGED << pid, active, active_process_count >>,
           \/ kpc' \notin {"boot", "allocate", "release"}
           \/ UNCHANGED << kpc, p_index, cur_idx, total_pid >>
    PROVE  CountInv'
BY DEF CountInv, PidsInv, CountIsActiveSlots, ActiveSlots

LEMMA CountStep ==
    ASSUME SingleShell, KernelInv, CountInv, [Next]_vars
    PROVE  CountInv'
<1>1. CASE Boot
  BY <1>1, CountAfterBeginCreate DEF Boot
<1>2. CASE AllocatePage \/ ReleasePage
  <2>1. UNCHANGED << pid, active, active_process_count, kpc, p_index, cur_idx, total_pid >>
    BY <1>2 DEF AllocatePage, ReleasePage, pcbVars, managerVars
  <2> QED BY <2>1, CountAfterOthers
<1>3. CASE EndCreate
  BY <1>3, CountAfterEndCreate
<1>4. CASE EndDestroy
  BY <1>4, CountAfterEndDestroy
<1>5. CASE BootSwitch \/ TimerInterrupt
  <2>1. kpc' = "user" /\ UNCHANGED << pid, active, active_process_count >>
    BY <1>5 DEF BootSwitch, TimerInterrupt, SwitchToNextProcess
  <2> QED BY <2>1, CountAfterOthers
<1>6. ASSUME NEW p \in Executables, ExecCall(p) PROVE CountInv'
  <2>1. kpc = "user" /\ cur_idx = 0
    BY <1>6, CallerIsSlotZero DEF ExecCall
  <2>2. CASE BeginCreate(p)
    BY <2>1, <2>2, CountAfterBeginCreate
  <2>3. CASE CrashCreate(p)
    <3>1. kpc' = "crashed" /\ UNCHANGED << pid, active, active_process_count >>
      BY <2>3 DEF CrashCreate, managerVars
    <3> QED BY <3>1, CountAfterOthers
  <2>4. CASE RejectCreate(p)
    <3>1. kpc' = kpc /\ UNCHANGED << pid, active, active_process_count >>
      BY <2>4 DEF RejectCreate, pcbVars, managerVars
    <3> QED BY <2>1, <3>1, CountAfterOthers
  <2> QED BY <1>6, <2>2, <2>3, <2>4 DEF ExecCall
<1>7. ASSUME NEW n \in ActivePids, KillCall(n) PROVE CountInv'
  <2>1. PICK t \in Slots : active[t] /\ pid[t] = n
    BY DEF ActivePids, ActiveSlots
  <2> QED BY <1>7, <2>1, CountAfterBeginDestroy DEF KillCall, ShellRuns
<1>8. CASE ExitCall
  <2>1. kpc = "user" /\ active[0] /\ 0 \in Slots
    BY <1>8, CallerIsSlotZero, ConstantsFit DEF ExitCall
  <2>2. pid[0] = 1
    BY <2>1 DEF KernelInv, ProcessInv, SlotsInv, CountInv, PidsInv
  <2> QED BY <1>8, <2>1, <2>2, CountAfterBeginDestroy DEF ExitCall
<1>9. CASE PageFault
  <2>1. kpc' = "halted" /\ UNCHANGED << pid, active, active_process_count >>
    BY <1>9 DEF PageFault, pcbVars, managerVars
  <2> QED BY <2>1, CountAfterOthers
<1>10. CASE Stopped \/ UNCHANGED vars
  <2>1. UNCHANGED vars
    BY <1>10 DEF Stopped
  <2>2. UNCHANGED << pid, active, active_process_count, kpc, p_index, cur_idx, total_pid >>
    BY <2>1 DEF vars, pcbVars, managerVars, localVars
  <2> QED BY <2>2, CountAfterOthers
<1> QED BY <1>1, <1>2, <1>3, <1>4, <1>5, <1>6, <1>7, <1>8, <1>9, <1>10
        DEF Next, KernelStep

(* With one shell that kills only what is active, the counter by which the *)
(* timer schedules and the machine powers off is the number of active      *)
(* slots: exit, which destroys pid 1, always finds its caller              *)
(* (process.c:155 and interrupt.c:290).                                    *)
THEOREM CountIsExact == ASSUME SingleShell PROVE Spec => []CountIsActiveSlots
<1>1. Init => ProcessInv /\ CallerInv
  BY InitProcessInv, InitCallerInv
<1>2. ASSUME Init PROVE PlacesInv /\ CountInv
  <2>1. PlacesInv /\ PidsInv
    BY <1>2, ConstantsFit DEF Init, PagingInit, PlacesInv, SlotsKeepPlaces, UsedIsHeld,
       Holds, ActiveHaveCode, PidsInv
  <2>2. ActiveSlots = {} /\ active_process_count = 0
    BY <1>2 DEF Init, ActiveSlots
  <2> QED BY <2>1, <2>2, FS_EmptySet DEF CountInv, CountIsActiveSlots
<1>3. ASSUME KernelInv, CountInv, [Next]_vars PROVE KernelInv' /\ CountInv'
  <2>1. ProcessInv' /\ CallerInv'
    BY <1>3, NextIsAnyKillNext, EveryStepIsGood, CallerStep DEF KernelInv, Good
  <2>2. CASE Next
    <3>1. PlacesInv'
      BY <1>3, <2>2, PlacesStep DEF AnyKillNext
    <3> QED BY <1>3, <2>1, <3>1, CountStep DEF KernelInv
  <2>3. CASE UNCHANGED vars
    <3>1. PlacesInv'
      BY <1>3, <2>3 DEF vars, pagingVars, pcbVars, managerVars, localVars,
         KernelInv, PlacesInv, SlotsKeepPlaces, UsedIsHeld, Holds, ActiveHaveCode
    <3> QED BY <1>3, <2>1, <3>1, CountStep DEF KernelInv
  <2> QED BY <1>3, <2>2, <2>3
<1>4. Init => KernelInv /\ CountInv
  BY <1>1, <1>2 DEF KernelInv
<1>5. KernelInv /\ CountInv /\ [Next]_vars => KernelInv' /\ CountInv'
  BY <1>3
<1>6. CountInv => CountIsActiveSlots
  BY DEF CountInv
<1> QED BY <1>4, <1>5, <1>6, PTL DEF Spec

-----------------------------------------------------------------------------
(* No allocation of a creation finds memory exhausted (process.c:107).     *)
NoAllocationFails ==
    kpc = "allocate" /\ i < PagesOf[request] => free_page_frame_count # 0

HasPages(s) ==
    \A v \in Pages : v < page_frame_used_count[s] => page_table[page_directory[s]][v] # NotPresent

PagesInv ==
    /\ kpc \notin Stops =>
          \A s \in Slots : active[s] /\ ~(kpc = "release" /\ p_index = s) => HasPages(s)
    /\ kpc = "allocate" =>
          \A v \in Pages : v < i => page_table[page_directory[p_index]][v] # NotPresent

LEMMA PagesAfterAllocate ==
    ASSUME KernelInv, PagesInv, Untouched, AllocatePage, NoAllocationFails
    PROVE  PagesInv'
<1> USE DEF KernelInv, ProcessInv, KernelTypeOK
<1> DEFINE d == page_directory[p_index]
<1>1. /\ kpc = "allocate" /\ kpc' = "allocate" /\ i' = i + 1
      /\ UNCHANGED << page_directory, active, page_frame_used_count, p_index >>
      /\ page_table' = [page_table EXCEPT ![d][i] = next_free_frame]
  BY DEF AllocatePage, AllocateUserPageFrame, NoAllocationFails, pcbVars, PageOf
<1>2. d \in Dirs /\ next_free_frame # NotPresent
  BY <1>1, ConstantsFit DEF CreatingInv, PagingInv, FramesType
<1>3. \A v \in Pages : page_table'[d][v] = IF v = i THEN next_free_frame ELSE page_table[d][v]
  BY <1>1, <1>2 DEF PagingInv, DirectoriesType
<1> HIDE DEF d
<1>4. \A v \in Pages : v < i' => page_table'[d][v] # NotPresent
  BY <1>1, <1>2, <1>3 DEF PagesInv, d, Pages
<1>5. ASSUME NEW s \in Slots, active'[s] PROVE HasPages(s)'
  BY <1>1, <1>5 DEF PagesInv, Untouched, ActiveSlots, HasPages, Stops
<1> QED BY <1>1, <1>4, <1>5 DEF PagesInv, d

LEMMA PagesAfterEndCreate ==
    ASSUME KernelInv, PagesInv, Untouched, EndCreate
    PROVE  PagesInv'
<1> USE DEF KernelInv, ProcessInv, KernelTypeOK
<1>1. /\ kpc = "allocate" /\ kpc' \in {"switch", "user"} /\ i = PagesOf[request]
      /\ UNCHANGED << page_directory, page_table >>
      /\ active' = [active EXCEPT ![p_index] = TRUE]
      /\ page_frame_used_count' = [page_frame_used_count EXCEPT ![p_index] = PagesOf[request]]
  BY DEF EndCreate, pagingVars
<1>2. ASSUME NEW s \in Slots, active'[s] PROVE HasPages(s)'
  BY <1>1, <1>2 DEF PagesInv, HasPages, Stops
<1> QED BY <1>1, <1>2 DEF PagesInv

LEMMA PagesAfterOthers ==
    ASSUME KernelInv, PagesInv, Untouched, AnyKillNext, ~AllocatePage, ~EndCreate
    PROVE  PagesInv'
<1> USE DEF KernelInv, ProcessInv, KernelTypeOK
<1>1. CASE EndDestroy
  <2>1. /\ kpc = "release" /\ kpc' \in {"off", "user"}
        /\ page_frame_used_count' = [page_frame_used_count EXCEPT ![p_index] = 0]
        /\ kpc' = "user" => active' = [active EXCEPT ![p_index] = FALSE]
    BY <1>1 DEF EndDestroy
  <2>2. ASSUME NEW s \in Slots, active'[s], kpc' = "user" PROVE HasPages(s)'
    <3>1. active[s] /\ s # p_index /\ page_frame_used_count'[s] = page_frame_used_count[s]
      BY <2>1, <2>2
    <3> QED BY <2>1, <3>1 DEF PagesInv, Untouched, ActiveSlots, HasPages, Stops
  <2> QED BY <2>1, <2>2 DEF PagesInv, Stops
<1>2. CASE ~EndDestroy
  <2>1. /\ UNCHANGED << active, page_frame_used_count >>
        /\ kpc = "release" => \/ kpc' = "release" /\ p_index' = p_index
        /\ kpc' = "allocate" => i' = 0
        /\ kpc \in Stops => kpc' \in Stops
    BY <1>2 DEF AnyKillNext, Next, Boot, KernelStep, BootSwitch, ExecCall, KillCall,
       ExitCall, TimerInterrupt, PageFault, Stopped, BeginCreate, CrashCreate, RejectCreate,
       BeginDestroy, ReleasePage, SwitchToNextProcess, vars, pcbVars, localVars,
       ShellRuns, Stops
  <2>2. ASSUME NEW s \in Slots, active'[s], kpc' \notin Stops,
               ~(kpc' = "release" /\ p_index' = s)
        PROVE  HasPages(s)'
    BY <2>1, <2>2 DEF PagesInv, Untouched, ActiveSlots, HasPages
  <2>3. kpc' = "allocate" => \A v \in Pages : ~(v < i')
    BY <2>1 DEF Pages
  <2> QED BY <2>2, <2>3 DEF PagesInv
<1> QED BY <1>1, <1>2

LEMMA PagesStep ==
    ASSUME KernelInv, PagesInv, NoAllocationFails, [AnyKillNext]_vars, [Untouched]_vars
    PROVE  PagesInv'
<1>1. CASE UNCHANGED vars
  BY <1>1 DEF vars, pagingVars, pcbVars, managerVars, localVars, PagesInv, HasPages
<1>2. CASE AnyKillNext /\ Untouched
  BY <1>2, PagesAfterAllocate, PagesAfterEndCreate, PagesAfterOthers
<1> QED BY <1>1, <1>2

(* With one shell, and kills of pids that may be gone, a process can lack  *)
(* a page it asked for in one way only, an allocation that failed when it  *)
(* was created (process.c:107): no later creation, release, exit or second *)
(* release of the same pages takes one from it.                            *)
THEOREM ProcessesKeepTheirPages ==
    ASSUME SingleShell
    PROVE  ShellSpec /\ []NoAllocationFails => []CreatedProcessHasItsPages
<1>1. ShellInit => PagesInv
  BY DEF ShellInit, Init, PagesInv
<1>2. ASSUME ShellInv, KernelInv, PagesInv, NoAllocationFails, [ShellNext]_allVars
      PROVE  PagesInv'
  <2>1. [Untouched]_vars /\ [AnyKillNext]_vars
    BY <1>2, KernelStepKeeps, ShellStepIsKernelStep
  <2> QED BY <1>2, <2>1, PagesStep
<1>3. ShellInv /\ KernelInv /\ PagesInv /\ NoAllocationFails /\ [ShellNext]_allVars => PagesInv'
  BY <1>2
<1>4. PagesInv => CreatedProcessHasItsPages
  BY DEF PagesInv, HasPages, CreatedProcessHasItsPages, InUser, ActiveSlots, Stops
<1> QED BY <1>1, <1>3, <1>4, KernelInvariance, ShellInvariance, PTL DEF ShellSpec
=============================================================================
