------------------------------ MODULE Process ------------------------------
(***************************************************************************)
(* The process manager and the round robin scheduler of the kernel         *)
(* (src/src/process.c, scheduler.c and the timer, page fault and process   *)
(* system calls of interrupt.c), on top of the memory manager of Paging.   *)
(*                                                                         *)
(* Every gate of the IDT is an interrupt gate, so the kernel runs with     *)
(* interrupts disabled: a system call is a run of steps, one per iteration *)
(* of its loops, that nothing interleaves.  kpc says where the CPU is.     *)
(* In "user" the running process takes a step or is preempted, in any      *)
(* order; a tick that the PIC latched during a system call is the case in  *)
(* which the preemption comes first.                                       *)
(*                                                                         *)
(* A definition whose name says it differs from the one right below it     *)
(* (InactiveIndexUnchecked, PageOfNoStride ...) is a plausible bug in that *)
(* code; no definition uses it.                                            *)
(*                                                                         *)
(* Registers are left out: a process is the program it was loaded with,    *)
(* and it can go on exactly while the page of its code is mapped.          *)
(***************************************************************************)
EXTENDS Paging

CONSTANTS
    PROCESS_COUNT_MAX,
    Programs,       \* files that can be loaded
    Shells,         \* the programs that make the process system calls
    Executables,    \* the programs exec is asked for
    InitProgram,    \* what the kernel loads at boot
    PagesOf         \* [Programs -> Nat], page_frame_count_needed

ASSUME SlotsAssumption == PROCESS_COUNT_MAX \in Nat \ {0}
ASSUME ProgramsAssumption ==
    /\ Shells \subseteq Programs
    /\ Executables \subseteq Programs
    /\ InitProgram \in Shells
    /\ PagesOf \in [Programs -> Nat \ {0}]

Slots == 0 .. PROCESS_COUNT_MAX - 1

KERNEL_DIRECTORY == -1      \* _paging_kernel_page_directory
NULL_DIRECTORY   == -2      \* what paging_create_new_page_directory fails with

KernelSteps == {"boot", "allocate", "switch", "release"}
Stops       == {"halted", "crashed", "off"}

VARIABLES
    \* _process_list
    pid, active, cur_state, page_directory, page_frame_used_count, name,
    \* process_manager_state
    active_process_count, cur_idx, total_pid,
    \* the CPU, and the local variables of the system call it is in
    cr3, kpc, p_index, i, request, cur_active, retcode

pcbVars     == << pid, active, cur_state, page_directory, page_frame_used_count, name >>
managerVars == << active_process_count, cur_idx, total_pid >>
localVars   == << p_index, i, request, cur_active >>
vars        == << pagingVars, pcbVars, managerVars, localVars, cr3, kpc, retcode >>

Init ==
    /\ PagingInit
    /\ pid = [s \in Slots |-> 0]
    /\ active = [s \in Slots |-> FALSE]
    /\ cur_state = [s \in Slots |-> "READY"]
    /\ page_directory = [s \in Slots |-> NULL_DIRECTORY]
    /\ page_frame_used_count = [s \in Slots |-> 0]
    /\ name = [s \in Slots |-> InitProgram]
    /\ active_process_count = 0 /\ cur_idx = -1 /\ total_pid = 0
    /\ cr3 = KERNEL_DIRECTORY /\ kpc = "boot" /\ retcode = "NONE"
    /\ p_index = 0 /\ i = 0 /\ request = InitProgram /\ cur_active = KERNEL_DIRECTORY

LocalsDie ==
    /\ p_index' = 0 /\ i' = 0
    /\ request' = InitProgram /\ cur_active' = KERNEL_DIRECTORY

-----------------------------------------------------------------------------
(* The slot process_list_get_inactive_index returns: the first inactive    *)
(* one going down and around from the slot below the running process.      *)
(* There may be none; then its loop, and so the action, never ends.        *)
InactiveIndexUnchecked(n) == n = (cur_idx - 1 + PROCESS_COUNT_MAX) % PROCESS_COUNT_MAX
InactiveIndex(n) ==
    LET distance(s) == (cur_idx - 1 - s + PROCESS_COUNT_MAX) % PROCESS_COUNT_MAX
    IN  \/ active_process_count = 0 /\ n = 0
        \/ /\ active_process_count # 0
           /\ ~active[n]
           /\ \A s \in Slots : ~active[s] => distance(n) <= distance(s)

(* The checks of process_create_user_process; buf is 0, never the kernel's. *)
CreateRejectedAnySize(p) ==
    active_process_count >= PROCESS_COUNT_MAX \/ ~AllocateCheck(PagesOf[p])
CreateRejected(p) ==
    \/ active_process_count >= PROCESS_COUNT_MAX
    \/ ~AllocateCheck(PagesOf[p])
    \/ PagesOf[p] > PROCESS_PAGE_FRAME_COUNT_MAX

RejectCreate(p) ==
    /\ CreateRejected(p)
    /\ retcode' = IF active_process_count >= PROCESS_COUNT_MAX
                  THEN "MAX_PROCESS_EXCEEDED" ELSE "NOT_ENOUGH_MEMORY"
    /\ UNCHANGED << pagingVars, pcbVars, managerVars, localVars, cr3, kpc >>

(* process_create_user_process up to its loop. *)
BeginCreate(p) ==
    /\ ~CreateRejected(p)
    /\ \E n \in Slots, d \in Dirs :
          /\ InactiveIndex(n)
          /\ CreateNewPageDirectory(d)
          /\ name' = [name EXCEPT ![n] = p]
          /\ page_directory' = [page_directory EXCEPT ![n] = d]
          /\ cr3' = d
          /\ p_index' = n
    /\ kpc' = "allocate"
    /\ i' = 0 /\ request' = p /\ cur_active' = cr3 /\ retcode' = "NONE"
    /\ UNCHANGED << pid, active, cur_state, page_frame_used_count, managerVars >>

(* The directory is NULL and is loaded into cr3 all the same: the kernel   *)
(* goes on under whatever the bytes at physical address 0 map.             *)
CrashCreate(p) ==
    /\ ~CreateRejected(p)
    /\ page_dir_free = 0
    /\ \E n \in Slots :
          /\ InactiveIndex(n)
          /\ name' = [name EXCEPT ![n] = p]
          /\ page_directory' = [page_directory EXCEPT ![n] = NULL_DIRECTORY]
    /\ cr3' = NULL_DIRECTORY
    /\ kpc' = "crashed"
    /\ UNCHANGED << pagingVars, pid, active, cur_state, page_frame_used_count,
                    managerVars, localVars, retcode >>

(* The page of the address request.buf + k * PAGE_FRAME_SIZE; buf is 0. *)
PageOfNoStride(k) == 0
PageOf(k) == k

(* One iteration; the result of the allocation is not looked at. *)
AllocatePage ==
    /\ kpc = "allocate" /\ i < PagesOf[request]
    /\ AllocateUserPageFrame(page_directory[p_index], PageOf(i))
    /\ i' = i + 1
    /\ UNCHANGED << pcbVars, managerVars, p_index, request, cur_active, cr3, kpc, retcode >>

(* process_generate_new_pid. *)
NewPidFromCount == active_process_count + 1
NewPid == total_pid + 1

(* paging_use_page_directory(cur_active). *)
KeepDirectory == cr3' = cr3
RestoreDirectory == cr3' = cur_active

(* The rest of process_create_user_process; the executable is read into    *)
(* page 0.  At boot the scheduler is started next.                         *)
EndCreate ==
    /\ kpc = "allocate" /\ i = PagesOf[request]
    /\ page_frame_used_count' = [page_frame_used_count EXCEPT ![p_index] = PagesOf[request]]
    /\ RestoreDirectory
    /\ total_pid' = total_pid + 1
    /\ pid' = [pid EXCEPT ![p_index] = NewPid]
    /\ active' = [active EXCEPT ![p_index] = TRUE]
    /\ cur_state' = [cur_state EXCEPT ![p_index] = "READY"]
    /\ active_process_count' = active_process_count + 1
    /\ kpc' = IF cur_idx = -1 THEN "switch" ELSE "user"
    /\ retcode' = "SUCCESS"
    /\ LocalsDie
    /\ UNCHANGED << pagingVars, page_directory, name, cur_idx >>

-----------------------------------------------------------------------------
(* process_destroy looks for the pid in every slot, active or not.  When   *)
(* no slot has it, it returns false and nothing changes: a stutter.        *)
FirstSlotWithPid(n, s) == pid[s] = n /\ \A t \in Slots : t < s => pid[t] # n

BeginDestroy(n) ==
    /\ \E s \in Slots : FirstSlotWithPid(n, s) /\ p_index' = s
    /\ i' = 0
    /\ kpc' = "release"
    /\ UNCHANGED << pagingVars, pcbVars, managerVars, request, cur_active, cr3, retcode >>

(* The directory release_memory works on. *)
DirectoryOfCaller == cr3
ReleasedDirectory == page_directory[p_index]

(* One iteration of the loop of release_memory. *)
ReleasePage ==
    /\ kpc = "release" /\ i < page_frame_used_count[p_index]
    /\ FreeUserPageFrame(ReleasedDirectory, i)
    /\ i' = i + 1
    /\ UNCHANGED << pcbVars, managerVars, p_index, request, cur_active, cr3, kpc, retcode >>

(* The rest of release_memory, which leaves cr3 as it was, and of          *)
(* process_destroy.  cur_idx stays, even if this was the running process.  *)
EndDestroy ==
    /\ kpc = "release" /\ i = page_frame_used_count[p_index]
    /\ FreePageDirectory(ReleasedDirectory)
    /\ page_frame_used_count' = [page_frame_used_count EXCEPT ![p_index] = 0]
    /\ \/ /\ active_process_count = 1
          /\ kpc' = "off"
          /\ UNCHANGED << active, active_process_count >>
       \/ /\ active_process_count # 1
          /\ kpc' = "user"
          /\ active' = [active EXCEPT ![p_index] = FALSE]
          /\ active_process_count' = active_process_count - 1
    /\ LocalsDie
    /\ UNCHANGED << pid, cur_state, page_directory, name, cur_idx, total_pid, cr3, retcode >>

-----------------------------------------------------------------------------
(* scheduler_switch_to_next_process: the next active slot going up and     *)
(* around from cur_idx.  At boot cur_idx is -1, so the code writes READY   *)
(* in front of _process_list; no slot changes.  Turn is the number of      *)
(* slots that the search passes before it comes to s.                      *)
NextActiveFromStart(n) == active[n] /\ \A s \in Slots : active[s] => n <= s
Turn(s) == (s - cur_idx - 1 + PROCESS_COUNT_MAX) % PROCESS_COUNT_MAX
NextActiveButOne(n) ==
    LET distance(s) == (s - cur_idx - 2 + PROCESS_COUNT_MAX) % PROCESS_COUNT_MAX
    IN  active[n] /\ \A s \in Slots : active[s] => distance(n) <= distance(s)
NextActive(n) == active[n] /\ \A s \in Slots : active[s] => Turn(n) <= Turn(s)

SwitchToNextProcess ==
    /\ \E n \in Slots :
          /\ NextActive(n)
          /\ cur_state' = [s \in Slots |-> IF s = n THEN "RUNNING"
                                           ELSE IF s = cur_idx THEN "READY" ELSE cur_state[s]]
          /\ cr3' = page_directory[n]
          /\ cur_idx' = n
    /\ kpc' = "user"
    /\ UNCHANGED << pagingVars, pid, active, page_directory, page_frame_used_count, name,
                    active_process_count, total_pid, localVars, retcode >>

-----------------------------------------------------------------------------
(* The running process can fetch its next instruction. *)
CodeMapped == page_table[cr3][0] # NotPresent

ShellRuns   == kpc = "user" /\ CodeMapped /\ name[cur_idx] \in Shells
ActiveSlots == {s \in Slots : active[s]}
ActivePids  == {pid[s] : s \in ActiveSlots}

Boot == kpc = "boot" /\ BeginCreate(InitProgram)

BootSwitch == kpc = "switch" /\ SwitchToNextProcess

(* System call 13. *)
ExecCall(p) == ShellRuns /\ (RejectCreate(p) \/ BeginCreate(p) \/ CrashCreate(p))

(* System call 14; the shell asks for a pid it has seen to be active. *)
KillCall(n) == ShellRuns /\ BeginDestroy(n)

(* System call 10: crt0.s makes it after main; it always destroys pid 1. *)
ExitCall == ShellRuns /\ BeginDestroy(1)

(* With one process left the interrupt returns to it at once. *)
TimerInterrupt == kpc = "user" /\ active_process_count > 1 /\ SwitchToNextProcess

(* The handler executes hlt with interrupts disabled. *)
PageFault ==
    /\ kpc = "user" /\ ~CodeMapped
    /\ kpc' = "halted"
    /\ UNCHANGED << pagingVars, pcbVars, managerVars, localVars, cr3, retcode >>

Stopped == kpc \in Stops /\ UNCHANGED vars

KernelStep == AllocatePage \/ EndCreate \/ ReleasePage \/ EndDestroy \/ BootSwitch

Next ==
    \/ Boot
    \/ KernelStep
    \/ \E p \in Executables : ExecCall(p)
    \/ \E n \in ActivePids : KillCall(n)
    \/ ExitCall
    \/ TimerInterrupt
    \/ PageFault
    \/ Stopped

Spec == Init /\ [][Next]_vars

(* The CPU goes on with what it is executing.  The timer is periodic and   *)
(* its request stays latched in the PIC while interrupts are disabled, so  *)
(* it cannot be put off for ever by system calls: strong fairness.         *)
Fairness == WF_vars(Boot \/ KernelStep) /\ WF_vars(PageFault) /\ SF_vars(TimerInterrupt)

FairSpec == Spec /\ Fairness

-----------------------------------------------------------------------------
InUser == kpc = "user"

KernelTypeOK ==
    /\ pid \in [Slots -> Nat] /\ active \in [Slots -> BOOLEAN]
    /\ cur_state \in [Slots -> {"READY", "RUNNING"}]
    /\ page_directory \in [Slots -> Dirs \cup {NULL_DIRECTORY}]
    /\ page_frame_used_count \in [Slots -> 0 .. PROCESS_PAGE_FRAME_COUNT_MAX]
    /\ name \in [Slots -> Programs]
    /\ active_process_count \in 0 .. PROCESS_COUNT_MAX
    /\ cur_idx \in Slots \cup {-1} /\ total_pid \in Nat
    /\ cr3 \in Dirs \cup {KERNEL_DIRECTORY, NULL_DIRECTORY}
    /\ kpc \in KernelSteps \cup Stops \cup {"user"}
    /\ p_index \in Slots /\ i \in 0 .. PROCESS_PAGE_FRAME_COUNT_MAX
    /\ request \in Programs /\ cur_active \in Dirs \cup {KERNEL_DIRECTORY}
    /\ retcode \in {"NONE", "SUCCESS", "MAX_PROCESS_EXCEEDED", "NOT_ENOUGH_MEMORY"}

(* Types; among them that active_process_count stays within the table and  *)
(* that a loop over the pages of a process stays within virtual_addr_used. *)
ProcessTypeOK == PagingTypeOK /\ KernelTypeOK

(* The counter that decides whether the timer schedules, whether a process *)
(* may be created and whether the machine powers off is the number of      *)
(* active slots (scheduler, process.c:79 and :155 and interrupt.c:290).    *)
CountIsActiveSlots == active_process_count = Cardinality(ActiveSlots)

(* Page directories and processes correspond one to one: outside a system  *)
(* call the used directories are exactly those of the active slots, and no *)
(* two active slots share one.                                             *)
DirectoryPerProcess ==
    /\ InUser => {d \in Dirs : page_directory_used[d]} = {page_directory[s] : s \in ActiveSlots}
    /\ \A s, t \in ActiveSlots : s # t => page_directory[s] # page_directory[t]

(* No frame outlives its process: outside a system call every entry that   *)
(* is present belongs to the directory of an active slot.                  *)
FramesBelongToActive ==
    InUser => \A e \in PresentEntries : \E s \in ActiveSlots : page_directory[s] = e[1]

(* User code always runs under the page directory of the process that the  *)
(* scheduler believes is running, and that slot alone is marked RUNNING.   *)
RunsInOwnAddressSpace ==
    InUser => /\ cr3 = page_directory[cur_idx]
              /\ \A s \in ActiveSlots : cur_state[s] = "RUNNING" <=> s = cur_idx

(* The page the executable is read into is mapped when the kernel reads    *)
(* it, although the memory check asks for a single frame and failed        *)
(* allocations are ignored (process.c:92, 107 and 110): the kernel itself  *)
(* cannot page-fault.                                                      *)
ReadTargetIsMapped ==
    kpc = "allocate" /\ i > 0 => page_table[page_directory[p_index]][0] # NotPresent

(* The machine is halted by a page fault only on behalf of a process that  *)
(* has been destroyed while it was running: a live process never faults.   *)
OnlyTheDestroyedFault ==
    /\ kpc = "halted" => ~active[cur_idx]
    /\ InUser => \A s \in ActiveSlots : page_table[page_directory[s]][0] # NotPresent

(* A process that was created has every page it asked for (process.c:90,   *)
(* "memory is enough for the executable and additional frame").            *)
CreatedProcessHasItsPages ==
    InUser => \A s \in ActiveSlots, v \in Pages :
                  v < page_frame_used_count[s] => page_table[page_directory[s]][v] # NotPresent

(* The directories run out only when each one is in use, so that a process *)
(* can be created whenever memory and the process limit allow it           *)
(* (paging.c:151 and 187).                                                 *)
DirectoriesRunOutOnlyInUse ==
    page_dir_free = 0 => \A d \in Dirs : page_directory_used[d]

(* A step changes the page table of no active process but the one being    *)
(* destroyed, and leaves its program and directory alone: creating,        *)
(* destroying or scheduling one process never touches another's mapping.   *)
OthersUntouched ==
    [][\A s \in ActiveSlots :
          \/ kpc = "release" /\ p_index = s
          \/ /\ page_table'[page_directory[s]] = page_table[page_directory[s]]
             /\ page_directory'[s] = page_directory[s] /\ name'[s] = name[s]
             /\ active'[s]]_vars

(* A process identifier is never given out twice and never changes while   *)
(* its process is active.                                                  *)
PidsAreFresh ==
    [][\A s \in Slots : active'[s] =>
          IF active[s] THEN pid'[s] = pid[s]
          ELSE \A t \in Slots : pid[t] < pid'[s]]_vars

(* Nobody jumps the queue: a step that gives the CPU to another process    *)
(* brings the turn of every other active slot nearer (scheduler.c:29, the  *)
(* search starts right behind the running process), so that a process is   *)
(* passed over at most once by each of the others.                         *)
TurnComesCloser ==
    [][cur_idx' # cur_idx =>
          \A s \in ActiveSlots : s = cur_idx' \/ Turn(s)' < Turn(s)]_vars

(* Every active process gets the CPU again, unless it is destroyed or the  *)
(* machine stops: the round robin search starves nobody, even while a      *)
(* shell keeps making system calls.                                        *)
NobodyStarves ==
    \A s \in Slots : active[s] ~> ((InUser /\ cur_idx = s) \/ ~active[s] \/ kpc \in Stops)
=============================================================================
