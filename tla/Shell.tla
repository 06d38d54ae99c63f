------------------------------- MODULE Shell -------------------------------
(***************************************************************************)
(* The kill and exec commands of the shell (src/src/command-shell.c) and   *)
(* the exit of user-shell.c, run by any number of shells on the kernel of  *)
(* Process.  kill takes a snapshot of the active processes (system call    *)
(* 15), looks the pid up in it and only then destroys the process (system  *)
(* call 14): two system calls, between which other shells may run.         *)
(*                                                                         *)
(* The snapshot goes to list_pcb, an array on the stack that kill neither  *)
(* initialises nor bounds by the count it gets back: the entries behind    *)
(* the snapshot are what earlier commands left there.  An entry is         *)
(* abstracted to the pid of an active process, or 0 for anything else.     *)
(***************************************************************************)
EXTENDS Process

VARIABLES
    list_pcb,   \* [Slots -> [Slots -> pid or 0]], by the slot of the shell
    kill_pid    \* [Slots -> pid], the kill that waits for system call 14, or 0

shellVars == << list_pcb, kill_pid >>
allVars   == << vars, shellVars >>

NoList == [k \in Slots |-> 0]

ShellInit ==
    /\ Init
    /\ list_pcb = [s \in Slots |-> NoList]
    /\ kill_pid = [s \in Slots |-> 0]

(* getActivePCB packs the active slots, in order, into the front of ptr. *)
Snapshot(ptr) ==
    [k \in Slots |->
        IF k < Cardinality(ActiveSlots)
        THEN CHOOSE n \in ActivePids :
                \E s \in ActiveSlots :
                    /\ pid[s] = n
                    /\ Cardinality({t \in ActiveSlots : t < s}) = k
        ELSE ptr[k]]

(* The first half of kill, for any pid the user types. *)
KillList(n) ==
    /\ ShellRuns /\ kill_pid[cur_idx] = 0
    /\ list_pcb' = [list_pcb EXCEPT ![cur_idx] = Snapshot(@)]
    /\ kill_pid' = [kill_pid EXCEPT ![cur_idx] = n]
    /\ UNCHANGED vars

(* The second half: the whole array is searched. *)
KillFound ==
    /\ ShellRuns /\ kill_pid[cur_idx] # 0
    /\ \E k \in Slots : list_pcb[cur_idx][k] = kill_pid[cur_idx]
    /\ KillCall(kill_pid[cur_idx])
    /\ kill_pid' = [kill_pid EXCEPT ![cur_idx] = 0]
    /\ UNCHANGED list_pcb

KillNotFound ==
    /\ ShellRuns /\ kill_pid[cur_idx] # 0
    /\ \A k \in Slots : list_pcb[cur_idx][k] # kill_pid[cur_idx]
    /\ kill_pid' = [kill_pid EXCEPT ![cur_idx] = 0]
    /\ UNCHANGED << vars, list_pcb >>

(* Any other command uses the stack in between and may overwrite the list. *)
OtherCommand ==
    /\ ShellRuns /\ kill_pid[cur_idx] = 0
    /\ list_pcb' = [list_pcb EXCEPT ![cur_idx] = NoList]
    /\ UNCHANGED << vars, kill_pid >>

(* exec; a shell that is loaded starts with an empty stack. *)
Exec(p) ==
    /\ ShellRuns /\ kill_pid[cur_idx] = 0
    /\ ExecCall(p)
    /\ IF kpc' = "allocate"
       THEN /\ list_pcb' = [list_pcb EXCEPT ![p_index'] = NoList]
            /\ kill_pid' = [kill_pid EXCEPT ![p_index'] = 0]
       ELSE UNCHANGED shellVars

Exit == ShellRuns /\ kill_pid[cur_idx] = 0 /\ ExitCall /\ UNCHANGED shellVars

KernelOrHardware ==
    /\ Boot \/ KernelStep \/ TimerInterrupt \/ PageFault \/ Stopped
    /\ UNCHANGED shellVars

ShellNext ==
    \/ KernelOrHardware
    \/ \E p \in Executables : Exec(p)
    \/ \E n \in 1 .. total_pid : KillList(n)
    \/ KillFound
    \/ KillNotFound
    \/ OtherCommand
    \/ Exit

ShellSpec == ShellInit /\ [][ShellNext]_allVars

-----------------------------------------------------------------------------
ShellTypeOK ==
    /\ ProcessTypeOK
    /\ list_pcb \in [Slots -> [Slots -> 0 .. total_pid]]
    /\ kill_pid \in [Slots -> 0 .. total_pid]

(* kill destroys active processes only; for any other pid it reports       *)
(* "No such Process with Match PID" (command-shell.c:890-899).             *)
KillsActiveOnly == kpc = "release" => active[p_index]
=============================================================================
