# A TLA+ model of sOSis

sOSis (`src/`) is a 32-bit x86 teaching operating system: a kernel with paging,
a process manager and a round robin scheduler, a FAT32-like file system on an
ATA disk, keyboard and text screen drivers, and a shell that runs as a user
process. This directory holds TLA+ modules of its core, TLC configurations that
check them, and proofs that TLAPS checks. Paths below are relative to `src/src`.

## Inventory

| component | state | operations | what makes it correct |
|---|---|---|---|
| physical memory manager, `paging.c` | frame map, free count, next free frame; directories, which are used, how many are free | check, allocate and free a frame; create and free a directory | no frame has two owners or none; counters match the tables; a directory is handed out empty |
| process manager, `process.c` | 16 PCBs, active count, current index, last pid | create (many allocations), destroy, list | one directory per process; memory goes with its process and with no other; pids are unique |
| scheduler, `scheduler.c`, timer in `interrupt.c` | current index, cr3 | save, switch | user code runs in its own directory; every process runs again |
| system calls, `interrupt.c` | none of its own | dispatch of eax 0-23 | the caller's address space is back before it returns |
| process commands, `command-shell.c`, `crt0.s` | a list of PCBs on the stack | exec, kill, ps, exit | a command acts on the process it names |
| file system, `fat32.c` | FAT and directory buffer in memory; FAT, directories, data on disk | read, read_directory, write, delete, find; load or create at boot | chains are disjoint; disk and memory agree; a file reads back as written; a crash loses at most the operation it hits |
| file commands, `command-shell.c` | shared current directory and path | cd, ls, mkdir, cat, cp, mv, rm, find | a copied or moved file is the same file; the cached directory is current |
| keyboard, `keyboard.c` | one character, modifiers, one command line | interrupt, poll, add, delete, clear | no key lost or given twice; a line stays in its buffer |
| framebuffer, `framebuffer.c` | cursor, 25 x 80 cells | write, newline, scroll, clear | the cursor and the writes stay on the screen |
| disk, `disk.c`, `portio.c` | the device | read and write blocks by polling | a block is transferred whole |
| boot and CPU tables, `kernel.c`, `gdt.c`, `idt.c`, `*.s` | descriptor tables | set up once | gates are interrupt gates |
| clock, `clock.c`; string helpers; the host's `external-inserter.c` | none of interest | | |

Interactions. User processes enter the kernel by `int 0x30`; the timer (IRQ 0)
preempts them; the keyboard (IRQ 1) fills a buffer they poll. All gates are
interrupt gates, so the kernel itself is not preempted. The process manager
calls the memory manager and the file system; the scheduler reads the process
table; shells share one keyboard buffer, one command line and one current
directory.

What is hard. Preemption between two system calls of one command; several
shells; memory, directories, slots, clusters and buffers at their limits;
a creation that fails midway; a process that destroys itself; stale PCBs; power
loss between two disk writes. `PROJECT.json` lists each hazard at its line.

## Modules

| module | what it is |
|---|---|
| `Paging` | the memory manager. State: the fields of `page_manager_state`, `page_directory_manager` and, per directory and page, the frame mapped or `NotPresent`. One operator per procedure; `PagingSpec` lets any caller use them in any order, except to map a page that is already mapped. |
| `Process` | extends `Paging` with the process table, the scheduler, cr3 and the position of the CPU. |
| `Shell` | extends `Process` with the shells' `kill` (two system calls and a list on the stack), `exec` and exit. |
| `Fat32` | the file system driver: the clusters on the disk, the allocation table there and in memory, and the operation in progress. One step for each write of a cluster. |
| `FileStore` | what the driver promises: a map from directory and name to a file's data or a folder, changed by one operation at a time. |
| `FileCommands` | extends `FileStore` with the shell's current directory, path and cached table, and the file commands as sequences of system calls. |
| `Screen` | the text screen: framebuffer.c and `putchar`, as functions on the record of cells and cursor. |
| `Keyboard` | extends `Screen` with the keyboard's interrupt handler, its one-character buffer, and the command line in the kernel. |
| `Words` | how a line is split into words, against what the words of a line are. |
| `Terminal` | extends `Keyboard` with the shells that poll, echo, print and clear, the keys and the clock. |
| `MCProcess`, `MCShell`, `MCFat32`, `MCCommands`, `MCTerminal` | the instances TLC checks. |
| `PagingProofs`, `ProcessProofs`, `ShellProofs`, `SingleShellProofs`, `Fat32Proofs`, `Fat32StoreProofs`, `CommandsProofs`, `TerminalProofs` | the theorems. |

The modules form three groups. `Paging`, `Process` and `Shell` extend
one another from the memory manager up to the shell's process commands.
`FileStore` is implemented by `Fat32` below it and used by `FileCommands` above
it, so that the commands are checked on any file system that keeps the driver's
promise. `Screen`, `Keyboard` and `Terminal` are the third; `Words` is a
function that `Terminal` applies to the lines its users type.

In `Process`, `kpc` is where the CPU is. `user` is user code; there the running
process may make a system call or be preempted. A system call is a run of steps,
one for each iteration of its loop (`AllocatePage`, `ReleasePage`) with a step
before (`BeginCreate`, `BeginDestroy`) and after it (`EndCreate`, `EndDestroy`),
and `p_index`, `i`, `request` and `cur_active` are its local variables. They
take their initial values again when it returns, so that they add no states.
Nothing interleaves with a system call, but the steps let invariants speak of
the states in between, where the kernel reads the executable, for example.
`BootSwitch` is the first switch of `kernel_setup`. `CrashCreate` is what follows
when no directory is left: NULL goes into cr3, and nothing is said of the
machine afterwards. `PageFault` is the handler's `hlt` with interrupts disabled:
the machine stops for good. `off` is the QEMU power off port.

The data that is left out: registers (a process is known by the program in its
slot), page flags, file contents, and the time a program takes. A page address
is its index, because `request.buf` is 0 in every caller. A file's size enters
as `PagesOf`, the number of pages `process_create_user_process` asks for.

`Fat32` follows `fat32.c`. `Write` is the part of `write` up to the write of the
parent's table, which comes first; then `WriteFolder`, or `WriteCluster` for each
cluster, and `Flush`, which saves the allocation table. `DeleteFile` and
`DeleteFolder` are the part of `delete` up to its first write, followed by
`FreeCluster` and `FreeLastCluster`, `WriteParent` and `Flush`; `op` holds the
local variables. `read` and `read_directory` change nothing and are the operators
`Contents` and `ValueOf`. `Reboot` may come between any two steps: the memory is
lost, and `initialize_filesystem_fat32` loads the allocation table, or formats a
disk whose boot sector has no signature (`FormatTable`, `FormatRoot`). A
cluster's contents are abstracted to
what the driver takes them for: a table, the k-th cluster of some payload, zeros,
or the boot sector; sizes are counted in clusters, and a name stands for a name
with its extension. `FreeOutside` is `delete` indexing `cluster_map` with a value
that is no cluster; nothing is said of the machine afterwards.

The history variable `defect` records the first time the disk was left unsound:
`interrupted` (power lost in the middle of an operation), `truncated` (no cluster
left in the middle of a file: `write` returns -1 without undoing anything),
`mislabelled` and `misnamed` (findings `stale_attribute` and `empty_name`), and
`misread` (`MisreadParent`: `write` and `delete` never ask whether the cluster they
are given as the parent is a directory; what they write over is not followed).
`FileStore` has a flag,
`damaged`, for it: the step that meets a defect may damage the one name it works
on, and afterwards nothing is promised. This is what the code allows: an entry
that was written before the power failed names a cluster that is still free in
the table, and the next `write` hands that cluster out again.

In `FileCommands` a command is the record `job`: `pc` says which system call comes
next, `stack` holds the folders `traverseFolder` is in with what is left of the
table it read for each, `dest` and `file` what is copied where, and `said` whether
a message said that something was wrong. A step is one system call that writes
(`WriteCopy`, `RemoveSource`, ...) with the reads in front of it, since only a
reboot can come in between. `Cp` and `Mv` are `copyPath` and `mvPath`; the
functions `cp` and `mv` of the source are never called. A name is what the code
compares of it: `Prefix` is the four characters that `copy` looks at when it
searches for the size of its source, so that it may take the size of another file
(`Candidates`, `BufferAfterRead`), or the entry that every table has for itself.
A file takes as many clusters as it is long and a folder one, of `Capacity`; a
write that finds no free cluster fails, and one that runs out of them half way
leaves a file cut short (`WriteIsCutShort`), which is a damage in the sense of
`FileStore` and is not followed further. Where the code reads memory it never
wrote the job goes to `Astray`, of which nothing is said: a name that is not found
may be taken for a folder (`TransferGoesAstray`), a file's data for the table of the
destination (`FileData`), a folder or nothing for the source (`GoesAstray`). `ls`,
`cat`, `find` and the path that `find` prints, which begins with the directory and
ends with the root, change nothing and are operators (`Ls`, `Cat`, `Find`,
`DirPath`).

In `Screen` every procedure is an operator from a screen to a screen, in which
the cursor may stand one place outside, as in the middle of a call. In `Terminal`
a shell is at one of the places of `main`'s loop: it prints (one call of `puts`
at a time), polls, has taken a character that it will echo, or has taken the
newline and will clear the line. `printing` is the rest of what the current system
call prints; only when it is empty may a key, the clock or another shell come
in. What commands print is a constant, because `Shell` and `FileCommands` model
what they do. `disturbed` is a history variable: it is set by what the code
makes no attempt to keep right on the screen (an arrow key, a tab, the clock, the
corner of the screen, a second shell's characters), and reset by a new prompt.

A definition with the parameters of the one right below it, which nothing uses,
is a plausible bug that the code does not have: it was put in the place of its
neighbour to see that a property notices.

## Runs

| run | instance | what it shows |
|---|---|---|
| `kernel` | 4 slots of 2 pages, 9 usable frames, 8 directories; a program too large to load | with memory for every slot: no frame is shared, every process has its pages, the active count is exact, pids are fresh, a switch brings every waiting process nearer to its turn and every process is scheduled again, and the kernel uses the allocator as `PagingSpec` says |
| `shell` | 3 slots, programs of 2 and 3 pages, one too large, 5 usable frames, 6 directories; `kill` finds stale entries | with about the ratio the system ships with (31 usable frames for 16 processes of 2 pages, 32 directories): the allocator's count, map and tables agree in whatever order the kernel calls it, also when memory is exhausted and when a page is released twice; address spaces are kept apart, user code runs in its own directory, the executable is read into mapped memory, only a destroyed process faults |
| `shared_frame` | as `shell`, without stale lists | violation: after exhaustion a frame in use is handed out |
| `directories` | enough memory, 4 directories | violation: creation fails with directories unused |
| `stale_kill` | enough memory | violation: `kill` destroys a destroyed process |
| `two_shells` | a shell that loads shells | violation: an exit takes the memory of another process |
| `files` | a disk of 6 clusters, 3 to allocate; 2 names in a directory; files of 1 to 3 clusters; callers that may pass the empty name | the driver implements `FileStore`, across reboots at any point; between operations chains are disjoint and as long as the file, no cluster is lost, disk and memory agree, folders are tables that lead back; every step of an operation leaves it fewer, and every operation ends |
| `stale_attribute` | the same disk, files of 1 cluster | violation: a file in a slot that held a folder is marked as a folder |
| `empty_name` | the same disk, files of 1 cluster | violation: a deletion erases the boot sector |
| `commands` | two files of 1 and 2 clusters whose names begin alike, two folders, room for 7 clusters; the paths `d`, `d/d`, `d/` and `f` | the directories stay a tree, the prompt names the one that commands work in, the cached table is current, `find` misses nothing, a file is lost only in the ways `NothingVanishes` lists, also by a reboot between two system calls, and commands end |
| `lost_file` | the same | violation: `mv` to a path that is no folder deletes the file |
| `terminal` | a screen of 3 x 3, two shells, 3 keys out of 12 scancodes | the cursor stays on the screen, what is in front of it is the line that will be executed, printing and scrolling keep the lines above, the line is split into its words, and every key is taken by some shell |

Bounds. Creations are bounded by the code itself: `page_dir_free` never grows,
so a run of the machine has at most as many creations as directories. 6 and 8
directories let every slot be used, freed and used again, which is what the
stale state needs. Two pages is what the two programs of the disk image need.
The instances differ in the number of frames because the allocator's behaviour
does: with at least two free frames at each allocation it is correct, and this
is what `kernel` checks; the shipped constants allow exhaustion with sixteen
processes, which is `shared_frame`. `shell` then checks what survives it.
Deadlock is checked except in the runs with stale lists or several shells, where
a count that is too low lets the search for an inactive slot run for ever.

Three clusters and two entries per directory are enough for a folder in a
folder, a chain with a middle, a chain over clusters that two others gave back,
a full directory and a full disk with and without a file half written. The
constraint `UntilDefect` follows the operation that met a defect to its end or
to the reboot and begins no other; the specification promises nothing from then
on. Deadlock is not checked there, because those states have no successors.

`commands` has what the commands distinguish: a name that is taken at the
destination and one that is free, a folder in a folder, a path through a file, a
full disk, with and without a copy cut short, a destination inside the source, a
source whose size is taken for another's. `terminal` has lines that wrap, a screen that scrolls, both cases of a
letter, and every branch of the interrupt handler; three keys are enough to type,
erase and finish a line while a second shell polls too.

Fairness. The kernel and a faulting process go on with what they are executing:
weak fairness of the steps of a system call and of `PageFault`. The timer is
periodic and its request stays latched in the PIC while interrupts are
disabled, so that an endless sequence of system calls cannot hold it off:
strong fairness of `TimerInterrupt`. Nothing is assumed of user programs. In
`Fat32`, weak fairness of the steps of an operation: it is not preempted, and
the disk's status port, which `disk.c` polls, answers. In `FileCommands`, weak
fairness of the steps of a command: no other program waits for it, and power
does not fail for ever. In `Terminal`, weak fairness of each shell, which is what
`NobodyStarves` of `Process` shows of the scheduler, and of a system call that
prints, which nothing preempts.

## Findings

1. `shared_frame`: `paging.c:93`. When an allocation takes the last frame above
   `next_free_frame`, the search finds nothing and `next_free_frame` stays on
   the frame just taken. If a frame above it is released later, the next
   allocation marks and maps the taken frame again: two processes share it.
2. `directories`: `paging.c:195`. Nothing increments `page_dir_free`. After 32
   creations the pool refuses for ever, and `process.c:103` loads NULL into cr3.
3. `stale_kill`: `command-shell.c:890`. `kill` searches the whole array of 16
   PCBs, of which the system call filled the first `countActive`.
4. `two_shells`: `interrupt.c:218`. Exit destroys pid 1, whoever makes it and
   whether or not pid 1 is active. Destroying an inactive slot releases the
   directory its stale pointer names, which another process may own by then.
5. `stale_attribute`: `fat32.c:377`. `addEntry` sets the folder attribute and
   nothing clears it: a file written to the slot of a deleted folder cannot be
   read, and deleting it treats its data as a directory.
6. `empty_name`: `fat32.c:241`. `findEntry` compares the names of unused entries
   too. The empty name finds one with cluster 0; `delete` erases the boot sector
   and leaves the table, and the next boot formats the disk.
7. `lost_file`: `command-shell.c:618`. When the destination of `mv` is no folder,
   `mvPath` prints that it is not and goes on; the write fails, `copy` tests the
   constant true (line 165), and the source is removed. "Move failed: unable to
   verify copy." (line 639) is never printed.

## Proofs

`PagingProofs` proves, for any number of frames (at least two), directories and
pages, that `PagingInv` is an invariant of `PagingSpec`. `NothingFreeBelowNext`
and `FrameConservation` are not inductive alone: that no frame below
`next_free_frame` is free survives a release only because `next_free_frame` is
lowered, and an allocation only because the upward search passes marked frames;
the count stays above zero exactly while the sum of free and present entries is
the number of frames; that unused directories are empty keeps the number of
present entries unchanged when one is handed out. `PagingInv` is the conjunction
of these with the types and with "at least `page_dir_free` directories are
unused". Cardinalities after a step come from lemmas about the set of present
entries.

`ProcessProofs` extends this to the kernel with `ProcessInv`: the allocator's
invariant, that a slot's directory is a directory or NULL, and for each value
of `kpc` what the local variables satisfy (during a creation the pages from `i`
upwards are not mapped yet, and page 0 is as soon as `i > 0`). It gives
`ProcessTypeOK`, `ReadTargetIsMapped`, `PidsAreFresh`, and `PagingSpec`: every
step of the kernel is a step of the allocator or leaves it alone. It also gives
`TurnComesCloser`, the part of `NobodyStarves` that needs no fairness: `Turn(s)`, the
number of slots the search passes before it comes to `s`, gets smaller with every
switch until it is the turn of `s`. What is left to TLC is that switches go on. The
assumptions are those in the modules: at least one slot, directory and page, two
frames, and that every program needs at least one page.

`Fat32Proofs` proves, for a disk of any size, tables of any number of entries and
files of any length, with power failing anywhere, what `files` checks of a disk of
six clusters. `FatIsSaved` has an invariant of its own (`FatInv`): `Flush` is the one
step that ends a write or a delete without a defect, and a reboot between operations
loads what is in memory already; formatting ends with the root's table, so that
the allocation table is saved also when only the root is missing. `ChainsAreSound`,
`NoClusterIsLost` and `FoldersAreTables` speak of the states between operations, and
say too little of them to be inductive. `Fat32Inv` is the types, bounds on the
counters of `write`, and, as long as no defect was met, `Healthy`, which holds in the
middle of an operation too. It names the one chain that is not an entry's yet or any
more (`OpPath`: what `write` has linked so far, what `delete` has still to give back)
and the one table that no folder names yet (`OpTables`). With these, chains are
disjoint (`PathsAreApart`), what is allocated is on a chain (`AllocatedIsOwned`) and
tables are the folders' (`TablesAreFolders`); names are unique in a table, which is
what makes `findEntry` find the entry meant; and `WriteIsSound` and `DeleteIsSound`
say what the local variables have to do with the disk. A chain is a recursive
function of the table; that a function with its equation exists is proved in the
first section, by taking the least place at which it could fail, and from there on
`IsChain` says of a sequence that it is the chain. `OperationsGetShorter` follows from
`Healthy`: delete comes only to clusters that are still allocated, and gives each back
before it goes on, so that the number of allocated clusters bounds the turns of its
loop. It is the part of `OperationsEnd` that needs no fairness.

`Fat32StoreProofs` proves the refinement: every step of the driver is a step of
`FileStore` on what its callers can see (`View`), or leaves that alone. A file or
folder appears with the last write of `write`, and goes with the first step of
`delete`, whose last writes nobody can tell from its first; the step that meets a
defect changes one name at most.

`PagingProofs` also proves that no frame backs two entries as long as memory is
never exhausted. The condition is needed (finding `shared_frame`): an allocation that takes
the last frame leaves `next_free_frame` on a frame in use. As long as that does
not happen `next_free_frame` is free and each entry's frame is marked, so that an
allocation maps a frame that no entry has.

`ShellProofs` takes this to shells that kill pids which are gone, any number of
them. `kill` is not a step of `Process`, whose callers kill active pids only, so
`ProcessProofs` proves its invariants for `AnyKillNext`, which has a kill of any
pid but 0. That a snapshot holds only pids that were given out needs that the k-th
active slot exists for k below their number (`KthElement`, from the least number
up to which there are more than k). Address spaces stay apart because of
`CallerInv`: a process in user code with its code mapped is active, and one that
has destroyed itself has no code left to make another call with.

`SingleShellProofs` has what needs the single shell that the system starts, and
what `two_shells` violates without it. The reason is not to be seen in any one
procedure. The slot for a new process is searched downwards from the caller,
which is slot 0, and a directory upwards from the first: by induction slot `s`
always gets directory `DirOf(s)`, the same as the last time (`PlacesInv`). So the
stale pointer of a slot whose process is gone names a directory that is unused or
its own, and destroying it a second time harms nobody. With `SingleShell` as its
only assumption besides those of the modules this gives `DirectoryPerProcess`,
`FramesBelongToActive`, `OnlyTheDestroyedFault` and `OthersUntouched` for
`ShellSpec`. For `Spec`, in which `kill` is given active pids only,
`CountIsActiveSlots` follows too: the shell has pid 1, so that exit destroys its
caller and not an inactive slot. `ProcessesKeepTheirPages` is about shells that kill
whatever they find, with any amount of memory: as long as no allocation of a
creation has met an empty pool (`NoAllocationFails`), every active process has all
of its pages, whoever is created and destroyed in between. With a pool that empties
half way that is false, because `process.c:107` does not notice. Nothing is assumed of the
constants: the shipped ones allow both.

`CommandsProofs` proves the safety properties of `commands` for any names, files,
folders and paths and a disk of any size. For `ListingIsCurrent` and
`NothingVanishes`, `CommandsInv` says that every file has at least one cluster, since
a write of no bytes makes a folder; that the table is current at the prompt; and,
when `mv` is about to remove its source (`MoveInv`), that unless a message was
printed or the size may be another file's, the source is a folder, or garbage that
`copy` has just written over itself, or there is the same data under another name.

`PathNamesCwd` and `CommandsTypeOK` need that the directories are a tree and that the
shell's own directory stays in it (`TreeInv`). The tree is a rank: a number for each
directory, greater for a folder than for the directory it is in. `rm` looks in the
root and deletes from the root, wherever the shell is, and only files, so that it
removes no directory; `cp` and `mv` go through
folders that they read of earlier, some of which may be gone, and `WorksBelow` says
that those which are still there do not have a smaller rank than the shell's
directory. So none of them removes a folder on the shell's path. A copy, whole or
cut short, puts in a file or a folder that nothing is in yet. `DirectoriesStayATree`
follows: in any set of folders, one of least rank has its parent outside. `printDirPath`
climbs from the leaf, while the path in the prompt grows from the root; each step
of `cd` puts a name at the end of the one and in front of the other (`LeafFirst`).

`FindIsComplete` is about a search whose recursion ends only because there is no
cycle. `Below(c)` is what can be reached from `c`; the parts of the tree below the
directories in the queue are apart from one another (`Apart`), each step takes one
directory out of their union (`Area`), and the number of directories there is what
the induction goes by. That the recursive functions `Find` and `DirPath` exist is
proved on the way, from that number and from the rank.

`TerminalProofs` proves `TerminalTypeOK` and `LinesAboveAreKept` for a screen of
any size above one row and column, any key maps, texts and shells. The types
`Near`, `Beside` and `Inside` say how far outside the cursor may be when a
procedure is called and when it returns; `Scroll` is called with the cursor behind
the last row and, by `putchar`, with it behind the last column too, where it
scrolls twice (`AutoDownMoves`). The lemmas named ...`Moves` say for each
procedure which row of the old screen a row of the new one is.

`ScreenShowsCommand` speaks of the states in which no character is on its way. The
invariant `ShowingInv` is about all of them: what the screen shows before the cursor
and what is still to be printed together make the prompt and the command line,
where the rest may also be in a shell that took a character and has not echoed it,
or be the backspace that will erase the one character shown too many. Cells are
numbered along the rows (`Place`), so that a line that wraps is one run of cells;
where nothing scrolls, a printed character changes no cell before the cursor but its
own.

`LinesAreSplit` is about every line, of any length: what `getWord` finds is the words
of the line in their order, but for the two cases that `SplitsIntoWords` names.
`getWord` counts the beginnings of words that it meets, the definition it is compared
with enumerates them; the lemmas on `Ordered` say that a finite set of numbers has
one increasing enumeration, and that a number's place in it is how many there are
up to it.

The assumptions are those in the modules: at least one slot, directory and page,
two frames, every program at least one page; a finite number of entries in a table,
and more values in an allocation table entry than clusters, so that its markers are
no cluster numbers (`fat32.h`); two rows and two columns, and a prompt that ends in a
text without line breaks (`user-shell.c:20`); finitely many files at first, each
within the largest size, clusters that are no directory not called folders, and paths
with at least one name, empty or not, as `getLastCluster` takes them apart.

Every invariant, safety action property and refinement of the passing runs is stated
by a theorem. What is only model-checked is liveness: `NobodyStarves`,
`OperationsEnd`, `CommandsEnd` and `KeysAreTaken`, which rest on fairness, and that is
beyond the prover; of the first two the measure that gets smaller with every step is
proved. The violations under Findings are behaviours of one instance each,
which TLC shows. That the search for an unused directory succeeds
(`SearchFindsDirectory`) is proved, and is in no run.

## Not modelled

- The ATA protocol, the descriptor tables and the assembly stubs: port
  input and output, or set up once. Saved registers, page flags and the TLB.
- Formatting, copying and comparing of strings, colours, the picture of
  `init_terminal` (erased before the first process runs), reading the CMOS
  clock and the list that `ps` prints.
- `cp` and `mv` of `command-shell.c`, which nothing calls.
- The disk image tool of the host.

Behaviours that the modules have and the properties allow, because the code goes
wrong there:

- A creation that meets an empty pool half way. The check before it passes a number
  of frames to `paging_allocate_check`, which takes bytes (`process.c:92`), so that
  one free frame is enough; the allocation that fails is not noticed
  (`process.c:107`), and the process runs without the page. `shell` has this, and
  checks that page 0 is there and that the frames are accounted for;
  `CreatedProcessHasItsPages` is left to `kernel`.
- A copy that takes the size of another file whose name begins like the source's
  (`command-shell.c:90`): what it writes is not the source, which `mv` then removes.
- A copy to a name that is taken (`command-shell.c:77`): the target is removed before
  the source is read, also when it is the source. `NothingVanishes` has both among
  the ways in which a file is lost, and says that there are no others.
- A power failure or a full disk in the middle of an operation, and what a later
  write does to the clusters then (`fat32.c:414`, `fat32.c:437`): `FileStore` promises
  nothing after the damage.
- A key that is overwritten before a shell polls it (`keyboard.c:198`), and a command
  line that two shells build together (`keyboard.c:94`), which `ScreenShowsCommand`
  excuses (`disturbed`).

Hazards that the modules do not reach, each with its place:

- The ends of arrays. `keyboard.c:95` writes behind the 100 characters of
  `command`; `fat32.c:282` fills a queue of 100 without a check. The arrays are
  sequences without an end; what lies behind them is the linker's choice.
- Writes in front of or through nothing. `scheduler.c:33` writes READY in front of
  `_process_list` when `cur_idx` is -1 at boot; `user-shell.c:14` and `:37` use null
  pointers, and the program is linked at address 0, so that a command
  overwrites code of `crt0`.
- `process.c:32` searches for an inactive slot without a bound. `Process` has no
  step then, which is why `shell` does not check for deadlock.
- `process.c:110` ignores the result of `read`, so that `exec` of a folder makes
  a process of whatever the frame held. `Process` does not say what a page holds.
- `fat32.c:196`: `create_fat32` writes the boot sector before the table; the steps
  are in `Fat32`, which reaches them only after finding `empty_name`.
- Two shells that give file commands: a second one sets the shared directory to
  the root and leaves the path (`user-shell.c:7`), and two `cd ..` at once run off
  the front of the path (`fat32.c:104`). `FileCommands` has one shell.
- `rm .` asks the driver to delete the empty name: finding `empty_name` is what
  follows. In `FileCommands` the commands are only given names.

## What is left

Two shells in `FileCommands`, with the steps between its reads, and a composition of
`FileCommands` with `Terminal`, where the text a command prints depends on what it
did. A copy whose size was taken from another file (`Candidates`) is no file that
`FileStore` lets a caller write, since its data are of two payloads; so the commands
use the store's operations, and are not a special case of `StoreSpec`.
