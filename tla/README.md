# A TLA+ model of the xv6 kernels of OS-Lab-projects

The repository holds three copies of the x86 teaching kernel xv6, one for each
lab: `OS-Lab-1` (console history, string programs), `OS-Lab-4` (priority lock,
system call counters) and `OS-Lab-5` (shared memory, user spin lock). The
kernels agree except for what the labs added and a few lines noted below.
Unless a text says otherwise, file names refer to `src/OS-Lab-4`.

This directory models the parts of the kernel whose correctness depends on
interleavings, crashes and exact limits, checks them with TLC on small
instances, and proves the most important facts with TLAPS for every instance.

## 1. Inventory

| Part | State | Operations | Interacts with | Correct means |
|---|---|---|---|---|
| Redo log, `log.c` | `log.lh`, `outstanding`, `committing`, the on-disk header and log blocks | `begin_op`, `log_write`, `end_op`, `commit`, `recover_from_log` | sleeps and wakes through `proc.c`; pins buffers of `bio.c` with `B_DIRTY` | calls become permanent together; a crash leaves a commit; the log never overflows; no sleeper is forgotten |
| Buffer cache, `bio.c` | 30 buffers, reference counts, an LRU list | `bread`, `bwrite`, `brelse`, `bget` | sleep locks; the disk driver | one buffer for a block; a pinned buffer stays |
| Disk driver, `ide.c` | a request queue | `iderw`, `ideintr` | interrupt against callers | each request starts once, each caller is woken |
| Inodes and blocks, `fs.c` | inode cache, bitmap, inodes on disk | `iget`, `iput`, `ilock`, `bmap`, `itrunc`, `readi`, `writei` | log, cache | an inode is freed when nobody uses it, and only then |
| Directories, `fs.c`, `sysfile.c` | directory entries, `nlink` | `link`, `unlink`, `create`, `open`, `namex` | inodes, log | link counts match the entries after every crash |
| Open files, `file.c` | `ftable`, reference counts, offsets | `filealloc`, `filedup`, `fileclose`, `fileread`, `filewrite` | inodes, log, pipes | the last close and only the last releases; shared offsets |
| Pipes, `pipe.c` | ring buffer, two counters, two open flags | `pipealloc`, `pipewrite`, `piperead`, `pipeclose` | sleep and wakeup, `kill`, `kalloc` | a byte stream; nobody asleep without reason; freed once |
| Processes, `proc.c`, `trap.c`, `sysproc.c` | `ptable`, `cpu[].proc`, `nextpid`, `ticks` | `fork`, `exit`, `wait`, `kill`, `sleep`, `wakeup`, `scheduler`, `yield`, the timer | everything that sleeps | one CPU for a process; no missed exit; no orphan; the killed die |
| Sleep locks, `sleeplock.c` | `locked`, `pid`, a spin lock | `acquiresleep`, `releasesleep`, `holdingsleep` | `sleep`, `wakeup` | mutual exclusion, no lost wakeup |
| Spin locks, `spinlock.c` | `locked`, `ncli`, `intena` | `acquire`, `release`, `pushcli`, `popcli` | interrupts | they exclude, no test of theirs panics; interrupts are on where they should be |
| Priority lock, `prioritylock.c` (Lab 4) | `locked`, `pid`, a linked queue | `acquire_prioritylock`, `release_prioritylock` | `sleep`, `wakeup`, `kalloc` | mutual exclusion; the waiters are served |
| Counters, `trap.c`, `proc.c` (Lab 4) | one global, one for each CPU | each system call, `count_called_syscalls` | migration between CPUs | the sum agrees |
| Shared memory, `shm.c`, `uspinlock.c` (Lab 5) | a table of 64 segments, a flag | `shminit`, `shm_open`, `shm_close` | `vm.c`, `kalloc.c`, `exit` | one page for an id; freed when nobody maps it |
| Console, `console.c` (Lab 1: with history and cursor) | the input ring, the indices r, w, e, history | `consoleintr`, `consoleread` | interrupt against readers | the reader gets the edited line |
| Memory, `vm.c`, `kalloc.c`, `exec.c` | page tables, the free list | `allocuvm`, `copyuvm`, `freevm`, `exec` | `fork`, `exit` | a page has one owner |
| User allocator, `umalloc.c` | a circular free list | `malloc`, `free` | `sbrk` | blocks never overlap, neighbours are joined |
| Shell, `sh.c` | the tree of a line; in each process its node and its descriptors | `parsecmd`, `runcmd` | `fork`, `wait`, `pipe`, `dup`, `close`, `exec` | the tree is what the grammar says; each program has its ends of the pipes and no other; the line runs in order, to its end |
| `strdiff`, other programs | none that lasts | parsing, printing | system calls | sequential |
| Devices, boot, tools | registers, images | `mp.c`, `lapic.c`, `uart.c`, boot code, `mkfs.c` | hardware | outside a state model |

What is hard: five kinds of interleaving (CPUs, preemption by the timer,
interrupts against system calls, `kill` against everything that sleeps, and
sleeping in the middle of a call); power failure between two disk writes; and
limits that several callers use up together (log, process table, pipe, table of
buffers). The list in `PROJECT.json` under `hazards` names them at their lines.

## 2. Modules

| Module | Models | Composes |
|---|---|---|
| `AtomicDisk` | what `log.c` promises in its header comment | |
| `Log` | `log.c` with the pinning and recycling of `bio.c` | `AtomicDisk` by refinement |
| `LogProof` | theorems about `Log`, with its refinement of `AtomicDisk` | `Log` |
| `Proc` | `proc.c` with the checks of `trap.c`, `sys_sleep`, `init.c` | |
| `ProcProof` | theorems about both views of the processors | `Processors` |
| `SpinLock` | `spinlock.c`, `sched` and `swtch`, the timer interrupt, the counters of Lab 4 | |
| `Processors` | the processors as critical sections and as steps of locks, one of the two at a time | `Proc`, `SpinLock` |
| `Mutex` | what a lock promises | |
| `SleepLock` | `sleeplock.c` with the grain of `sleep` and `wakeup` | `Mutex` by refinement |
| `SleepLockProof` | theorems about `SleepLock` | `SleepLock` |
| `PriorityLock` | `prioritylock.c` | |
| `ByteStream` | what a pipe promises | |
| `Pipe` | `pipe.c` | `ByteStream` by refinement |
| `FileWrite` | `filewrite`, `writei`, `bmap` against the space of the log | |
| `FileWriteProof` | theorems about `FileWrite` | `FileWrite` |
| `Disk` | `bio.c` over `ide.c`: references, order of use, request queue, interrupt | |
| `DiskProof` | theorems about `Disk` | `Disk` |
| `Files` | inode cache, paths, the calls on names, open files, crashes | the log as `AtomicDisk` describes it |
| `FilesProof` | theorems about `Files` | `Files` |
| `Console` | `consoleintr` and `consoleread` of Labs 4 and 1 | |
| `Memory` | the owners of pages: `kalloc.c`, `vm.c`, `fork`, `exec`, `exit`; `shm.c` of Lab 5 | |
| `RingProof` | theorems about the two ring buffers, with the refinement of `ByteStream` | `Pipe`, `Console` |
| `OwnersProof` | theorems about three tables of owners | `PriorityLock`, `Memory`, `Umalloc` |
| `Umalloc` | `malloc` and `free` of the user library | |
| `Shell` | `sh.c`: the parser over tokens and `runcmd` | |
| `Units` | one of seven units that share nothing, run alone | `Console`, `PriorityLock`, `Memory`, `Umalloc`, `Pipe`, `FileWrite`, `Shell` |
| `MC...` | symmetry sets and functions for TLC | the module of the same name |

A definition called `X_Something` in front of a definition `X` is a faulty
variant of `X`, the way a slip in the C code would look. Replacing `X` by it
must violate a property; nothing else uses it.

### 2.1 Log

A step is one critical section under `log.lock`, with two refinements that the
code makes necessary. `log_write` tests `log.lh.n` and `log.outstanding` before
it takes the lock, so `LogWriteCheck` and `LogWriteAppend` are two steps. And
each `bwrite` is a step, since power can fail between two: `WriteLog` (a block
of the transaction to the log area), `WriteHead` (the commit point), `Install`
(a block to its home), `EraseHead`, and the same in recovery (`ReadHead`,
`RecoverInstall`, `RecoverErase`). `Crash` clears memory at any point.

`pc[p]` is where process p stands: outside (`idle`), asleep or woken in
`begin_op`, inside an operation (`inop`, `check`, `append`), or running the
commit. `Modify` is the caller of `log_write`, that reads a buffer, holds its
lock, and changes it. Its guard is the contract of the callers: an operation
adds at most `OpBlocks` blocks to the log. `KillWakeup` is `kill` on a process
asleep in `begin_op`. `cache`, `dirty` and `disk` are the buffer cache, its
`B_DIRTY` flags and the home blocks. `Evict` is `bget` recycling a buffer.

The refinement maps the abstract stable contents to "the committed log laid over
the home blocks" (`Stable`), what a reader sees to "the valid buffer or else the
disk" (`Current`) and the writers to the processes inside an operation. The
abstract `Commit`, allowed only without writers, is the step `WriteHead`; every
other step of commit and recovery is invisible.

### 2.2 Proc

A step is a critical section under `ptable.lock` or a stretch of kernel code
between two. `fork` has three: `ForkAlloc` claims the slot, `ForkCopy` or
`ForkNoMemory` works on it without the lock, `ForkRun` publishes it. `sleep`
takes `ptable.lock` before it gives up the lock of its condition, hence falling
asleep is one step here; that this order is right is what `SleepLock` shows.
`SleepCheck` and `SleepTicks` are two steps because `kill` does not take
`tickslock`. `Yield` may take the CPU away between any two steps, which is more
than the code allows (interrupts are off while a spin lock is held) only inside
the steps, which are indivisible anyway. `init.c` is modelled exactly, because
of its `exit` when `fork` fails: it forks a shell, waits for it, and forks the
next; `exit` in init panics and the machine stops (`Panic`). Other processes do
anything a program can do with `fork`, `exit`, `wait`, `kill` and `sleep`.

### 2.3 SleepLock, PriorityLock

`SleepLock` names every point between two lock operations. `lk` and `ptlock`
are the owners of `lk->lk` and `ptable.lock`. The path of a sleeper is
`test, sleep1, sleep2, sleep3, asleep, runnable, tidy, acq, test`, that of the
releaser `rel, clear, wake, wakeall, done`. `Kill` makes a sleeper runnable.

`PriorityLock` has one step for each critical section under `lk->lk`.
`add_to_pq` and `pop_from_pq` get the queue by value: an assignment to their
parameter stays local. So the first node is lost, the queue stays empty, and
`release_prioritylock` wakes nobody: a waiter sleeps for ever unless it is killed.
Each waiter costs a page that nothing refers to (`leaked`), and when `kalloc` has no
more `add_to_pq` panics (`AcquirePanic`). `LockedWhileHeld` holds up to the first
`kill`. The system calls of Lab 4 that should use the lock return 1 without
calling it (`sysproc.c:102-112`), so no text of the repository promises a waiter
anything; the module models the lock as its functions are meant to be called.

### 2.4 Pipe

All of `pipe.c` runs under `p->lock`, and a step is what happens between taking
the lock and giving it up or going to sleep, except that `kill` can come between
the test of `p->killed` and `sleep`: the states `wgap` and `rgap`. A process
killed there stays asleep until the other end moves; in `sys_sleep` the same gap
is harmless, since the next tick wakes the process (`KilledDies`). The counters
count modulo `Wrap` in place of 2^32 and the buffer has `PIPESIZE` bytes; what
matters of 512 and 2^32 is assumed, that one divides the other. The refinement
maps the bytes between the counters to the stream under way.

### 2.5 FileWrite

The sizes are the real ones. A step is one turn of the loop of `writei`; the
set of blocks it logs is `BlocksFor`: the data block, for a new block the
bitmap (one block holds the bitmap of this file system), beyond `NDIRECT` the
indirect block. The inode is logged at the end. Files are only appended to, so
`off` is also the size. The log is seen from outside: its contents, who is
inside, and a commit that empties it. `ChunkBlocks` is what the chunk size is
computed from: `MAXOPBLOCKS` in Labs 1 and 4, `LOGSIZE` in Lab 5 (`file.c:133`).

### 2.6 Disk

`bufs` is the array of `struct buf` with the two flags, the reference count and
the data (one of two contents), `lru` the list `bcache.head`, `holder` the
owners of the sleep locks, `idequeue` and `drive` the queue and the command the
drive executes. A client goes `idle, lock, (sleep, woken), hold, put`: `Bget`
runs under `bcache.lock`, `Bread` takes the sleep lock and, for an invalid
buffer, goes through `iderw` to its sleep; `Bwrite` is the same with `B_DIRTY`
set; `LogWrite` only sets the flag; `ReleaseBuf` and `PutBuf` are the two halves
of `brelse`. `Ideintr` completes the head of the queue and starts the next.
`kill` may wake a client in `iderw`, which looks at the flags again. `newest`
remembers what was last put into each block, whichever buffer holds it.

A drive that reports an error is believed anyway: `ideintr` skips the `insl` and
sets `B_VALID` (`ide.c:118-122`), so the buffer shows what it held before, for
another block perhaps. The ghost `bad` lists such blocks, and the properties
about contents leave them out.

### 2.7 Files

An inode on disk is a type, a link count and a map from names to inodes; the
entry `..` is one of the names, `.` is left out. `icache` has an entry for every
inode with `ref`, `valid`, the owner of the sleep lock, `type` and `nlink`.
`dino` is the disk as the running transactions see it, `stable` what a crash
leaves, that is, `dino` at the last commit; `tx` are the processes inside
transactions. This is `AtomicDisk`, which `Log` implements.

A step goes from one wait for a sleep lock to the next. `iput` is three steps,
as it looks at `ref` in one critical section and lowers it in another
(`IputLook`, `IputFree`, `IputDrop`). `Walk` is one turn of the loop of `namex`.
`create` takes any free inode, since `ialloc` reads one block after another while
others free inodes in blocks it has passed. The test of `ilock` for a type is made
where the code makes it, when an inode is read from the disk (`LoadPanics`).
The calls are `open` with and without `O_CREATE`, `mkdir`, `unlink`, `link`,
`chdir`, `close`, `fork`, `exit`; `r[p]` has the local variables of the call and
the references `iput` is still to drop. Each process has one descriptor, so
`fdalloc` fails when it is in use and `filealloc` when the table is full.
`CreateEntry` and `UnlinkEntry` put the directory while the inode is locked, as
the code does.

Where the code panics (`ilock: no type`, `unlink: nlink < 1`, `ialloc: no inodes`)
the model has no step; `NoPanic` says that the first two are not reached. A
directory that somebody works in can be removed. Then `..` in it may name an
inode that was freed in the meantime, and `namex` panics in `ilock`; and a file
created in it survives with a link count and no name anybody can reach. Both
are what the code does, nothing in it says otherwise, and the ghost `strayed`
marks the first such use, after which the properties claim nothing. Inodes with
no links that were open at a crash stay allocated, for xv6 never looks for them
(ghost `crashed`).

### 2.8 Console

Both drivers run under `cons.lock`; a step is one key, or `consoleread` up to
its return or its sleep. The kernel is chosen at the start: that of Lab 4 runs
without a bound, that of Lab 1 up to `MaxKeys` keys, since its history never
repeats a state. The rows of `prevcmd` are one array as in memory, because Lab
1 reads and writes past the end of a row; an access outside the array ends the
behaviour (`wild`). `LinesIntact` compares the buffer with the line as a user
edits it (`line`) and with what was finished (`due`). In Lab 1 it holds until
the first Backspace (which moves `w` too) or the first arrow (which recalls rows
without their length), or until something is typed when the cursor has been
moved off the line: the three ghosts `erased`, `recalled`, `strayed`.

### 2.9 Memory

Pages have numbers, and the model follows each: free, kernel stack, page
directory, page of an image. `fork` and `exec` take one page at a time
(`AddPage`), so that others allocate in between and each `kalloc` can fail; a
failure gives everything back (`Abandon`). In Lab 5 a `mappages` that fails in
`copyuvm` drops one page (`vm.c:331-337` of that lab), counted in `lost`.
`shm.c` is there with its unlocked test of `isSharedMemInitilized`
(`ShmTest` to `ShmReady`), the lookup at slot `id` but creation at the first empty
slot, and `shm_close`, which frees a page that is still mapped. `shmlock` names the
owner of `shm_table.lock`, and a step is what a call does between two points at
which another processor can interfere with it: it takes the lock (`ShmEnter`), claims
a slot and a page (`ShmClaim`), maps what the slot then holds and releases
(`ShmMap`). That matters because `shminit` begins with `initlock`
(`ShmInitLock`): when two processes find the flag zero, the second resets the lock,
perhaps while the first holds it. Such a call is `Doomed`: `holding` fails in its
`release`, which panics, and the table may be cleared under it, its new page
forgotten. `PagesAccounted` holds up to these two moments, a
lock lost and a mapped page freed (`closed`). Until then it also says that no two
processes ever share a page, which is what the segments were for.
An instruction of `acquire` is not a step here: a call whose exchange is done and
whose `lk->cpu` is not yet written, when the lock is reset, loses it as if it had
come before.

### 2.10 SpinLock, Processors

`SpinLock` goes below the critical sections of `Proc`, to the single stores of
`acquire` and `release`, since another processor sees them: the exchange that
takes the lock (`Xchg`), the record of the holder (`Own`), its removal
(`Disown`), the store that frees the lock with `popcli` (`Unlock`). `todo[t]` is
what a thread has still to execute, a thread being a process or the scheduler of
a processor; a call puts the steps of the function in front, an interrupt those
of its handler. So a thread takes along, from one processor to another, that it
is in the middle of `sched` with a lock to release and an `intena` to restore,
while `ncli`, `intena` and `FL_IF` stay with the processor. `Pick` and `Sched`
are the two directions of `swtch`, which hands `ptable.lock` over. System calls
(`TrapSyscall`: an empty one, or `sleep(1)`) come through a trap gate with
interrupts on and end with the two increments of Lab 4, each a load and a store;
the timer (`TrapTimer`) comes wherever interrupts are on.

`LocksExclude` says what depends on all of this: no panic of `acquire`,
`release`, `popcli`, `sched` or `mycpu` is reached, each system call is counted
once on both sides, and whoever spins has a processor that works toward the
release. `IntenaFollowsThread` is the comment of `proc.c:363` made precise.
There is one exception in it: `forkret` gives a new process whatever `intena`
the processor had, so interrupts may be off on its way to user mode.

`Processors` holds both views of the same code. Side by side they would only
multiply, so a behaviour is one or the other. `Proc` is extended, with its
properties, which are true of its initial states too; those of `SpinLock` name
their view.

### 2.11 Shell

A line is a sequence of tokens; the parser of `sh.c` becomes one operator for
each function, with 0 as position for a panic. `ParsesAsGrammar` compares it with
a definition that splits the line at its operators, weakest first. `runcmd` is one
action for each system call that others can see, in every process that runs a
part of the tree: `proc[p]` has the path of the node, the descriptors and the
parent. Programs either read their input to its end or write until nobody reads
(`mode`), the two ways in which a forgotten end of a pipe makes somebody wait for
ever. `fork` and `pipe` may fail up to `MaxFails` times; `exec` and `open` may
fail at any time. `Plumbing` says that a program starts with the
descriptors the line gives it and with no other; `RunsToTheEnd` that `;` and the
prompt wait for all of a pipeline and that nobody hangs.

### 2.12 Umalloc, Units

`Umalloc` keeps the circular list as pointers, with `freep` where the code
leaves it. `Units` runs one of seven modules that share no state: side by side
they would only multiply, so a behaviour chooses one and leaves the others in an
initial state. `Pipe`, `FileWrite`, `PriorityLock`, `Memory`, `Umalloc` and `Console`
are extended, so their properties, which their initial states satisfy, appear under
their own names; `Shell` is instantiated, and each of its properties in `Units` is
the one of the module.

## 3. Runs

| Run | Checks | Instance, and why it is enough |
|---|---|---|
| `log_crash` | types, pinning, refinement of the atomic disk | 2 processes, 2 blocks, 2 values, room for two reservations, crashes without bound. Two blocks let one transaction be half written, half installed; two values tell old from new. |
| `log_full` | space of the header and the log area, no panic | 3 processes, 4 blocks, reservations of 2 in a log of 5 (header block included, as `mkfs` makes it), each operation one block short of its reservation. One logged block and one operation inside leave room for exactly one more reservation; with that the log comes to 3 blocks, the last length at which `log_write` still accepts a write (`log.c:218`), while another process is past the same test; a third operation waits. A `begin_op` that forgets the caller's own share overflows it. |
| `log_live` | nobody stranded, sleepers are woken | 3 processes, room for two reservations: a third waits while one stays inside. Two blocks test absorption; the space of the log is the question of `log_full`, for all sizes the theorem `LogNeverOverflows`, for real sizes the files of `units`. |
| `proc` | one CPU, no missed exit, no orphan; locks exclude, interrupts follow the thread | 4 slots: init, a parent, a child that dies first and a slot more; 2 CPUs; kills of init, the shell and its child. With 3 slots the second wakeup in `exit` is never the only one. In the other view 2 processors, one of which keeps the time, 2 processes, 2 system calls, a clock modulo 2: a process can sleep on one processor and wake on the other while the second call is in its counters. |
| `proc_live` | zombies reaped, the killed die | 3 slots, 1 CPU, which makes waiting for the CPU as long as possible. |
| `sleeplock` | holder, no lost wakeup, mutex, sleepers woken | 4 processes, 2 kills: a holder, two sleepers and one that overtakes. |
| `units` | the properties of the seven units | see below |
| `disk` | latest contents, one buffer for a block, no lost request, clean is on disk, `bget` panics only when the pool is full | 3 uses of a buffer, 4 blocks, 2 buffers, 1 of them pinned at a time, 1 failed read: buffers are recycled all the time, several uses queue, and the panic is reached with one buffer pinned or with none. |
| `files` | link counts after a crash, reference counts, nothing in use is freed, no panic | 2 processes, 4 inodes (root, a file, an empty directory, one free), 2 names, 3 calls with paths of up to two elements, absolute, relative and `..`; a crash takes the place of a call. `fork`, `close` and `exit` are not bounded. |
| `files_leak` | *violated:* an inode without links and references is freed | the same |
| `files_deadlock` | *violated:* no circular wait for inode locks | the same |
| `filewrite_lab5` | *violated:* no panic | three files and the chunk size of Lab 5 |

The units: the console with one reader, 4 bytes of buffer, indices modulo 16, 3
rows of history, 5 keys in Lab 1 (a line that fills the buffer, and every arrow
over a full ring; the end of the array of rows needs more keys and is left to the
theorem `ConsoleHistoryInRange`); the priority lock with 4 processes, pages for 5
nodes, 4 kills; the memory of two processes and 9 pages, two segments, and images that
`sbrk` and `exec` make 2 pages long (that of init starts with 3): one
process leaves less than a second image, two leave one page at most, so every
allocation fails somewhere, the one whose page is dropped included, and two
processes allocate and initialise the table at once; a third process would need
more pages than the run affords; the allocator with requests of up to 3 units
in a heap of 10, above gaps of up to 1 (`MaxGap`); the pipe with 2 readers, 2 writers, 2 bytes of buffer,
requests of up to 3 bytes, counters modulo 4, so that requests larger than the
buffer and wrapped counters occur all the time; file writes of 3 processes, 2 on
one file, with the sizes of `param.h` and `fs.h`, 6656 bytes each (5 chunks,
through the indirect block), from a start inside a block; the shell with every
line of up to four of the tokens `a | ; & < > ( )` and eight longer ones (two
pipelines in a list, a block in a pipeline, the background), 6 processes, 6
descriptors, one more than a pipe takes up, up to 2 words in a command.

Bounds on counters: `MaxPid` (forks), `MaxKills`, `MaxLeaked`, `MaxCount`
(length of a pipe request), `MaxSize` (largest file, below the real one so that
`WriteTooLarge` happens), `MaxKeys`, `MaxUnder` (closes of a segment nobody
has), `MaxHeap`, `MaxPinned`, `MaxErrs`, `MaxCalls` (calls on paths in `Files`,
system calls in `SpinLock`), `TickWrap` (the clock), `MaxFails` (failing `fork`
and `pipe` of the shell). Past `MaxPid` init waits
instead of forking. Deadlock is not checked in `units`, `disk` and `files`:
the machine may really stop there, in a panic, out of memory, in the deadlock of
`files_deadlock`. Symmetry is used for processes, blocks, values and CPUs where
the specification treats them alike, never in a run with a liveness property.

### What the violated runs show

* `filewrite_lab5`: 13 data blocks in one transaction (14 when it starts inside a
  block), with 10 reserved; two writers together exceed the log, and `log_write`
  panics.
* `files_leak`: two processes drop the last two references to an unlinked file.
  Each finds `ref` to be 2 in `iput`, each lowers it afterwards, neither frees
  the inode. The comment above `iput` says the last one does.
* `files_deadlock`: `create` has linked a new inode and still holds its lock when
  it puts the directory; `iput` waits for the directory's lock, which an
  `unlink` of the new name has taken, and that waits for the inode.
  `usertests.c:855` looks for this deadlock with two processes.

More deviations were met and are stated as the exact boundary of a property
that holds. A killed writer returns from a full pipe without waking the readers
(`pipe.c:86-88`), so `SleepersHaveCause` speaks, for readers, of pipes with no killed
writer. A waiter of the priority lock woken by `kill` takes the lock without a
second look (`prioritylock.c:87`), so `LockedWhileHeld` ends at the first kill.
Nothing promises that `bget` finds a buffer: the log may pin 30, which is all there
are (`param.h:11-12`), and each call uses one or two beside; so `PanicsOnlyWhenFull`
says that the panic at `bio.c:92` has no other cause.
And `log.size` counts the header while `LOGSIZE` does not (`mkfs.c:25`): calls
that used all of their reservation would reach the panic of `log_write`. The
condition of the theorems in 5 says what keeps them from it. Three concern the
segments of Lab 5. `shm_open` runs `shminit` again although `main.c:30` has, which
can free the lock of the table under a call (`shm.c:24`); that call's `release`
panics. `shm_close` frees a page that is still mapped (`shm.c:126`), where
`shm_cnt.c:46` expects the page to stay. `PagesAccounted` ends at either. And a segment is
stored at the first empty slot but looked up at its id (`shm.c:78`), so two
processes with id 1 get a page each, where `shm_cnt.c:20` expects one: no page has
two owners then, and the property does not see it. TLC reaches all three in the
instance of `units`. Sections 2.6 to
2.9 name those of the modules described there.

## 4. Fairness

* `Log`: a process that is not asleep keeps running (weak fairness of
  `log_write`, commit and recovery); operations issue finitely many writes, thus
  `end_op` gets strong fairness, as the model lets a process rewrite logged
  blocks for ever. Nothing is assumed of `begin_op` or of `kill`.
* `Proc`: `scheduler` goes round the table, so a process that is runnable again
  and again is picked (strong fairness of `Schedule`); a time slice is long
  enough for a step (strong fairness of `Step`); the timer interrupt comes (weak
  fairness of `Yield` and `Tick`).
* `SleepLock`: weak fairness of the steps of a started call, and a holder
  releases. Spin locks are not fair, hence no more than being woken is claimed;
  a sleeper can be overtaken for ever.

## 5. Proofs

`LogProof` proves, for every number of processes and blocks and all sizes under
`CapacityCondition`, that `TypeOK` (`LogTypeCorrect`), `LogFits`, which includes that
no panic is reached (`LogNeverOverflows`), and `NoStrandedSleeper` (`LogNoStrandedSleeper`) always
hold. The condition says that an operation adds fewer blocks than its
reservation, a reservation is no larger than the log, and the on-disk log has
the room the header has, up to the slack the reservations leave.

`LogFits` is not inductive. What is preserved is an account: the blocks logged,
plus what each running operation may still add, stay within the log. A running
operation holds as many tokens as its reservation exceeds what it has used;
`begin_op` issues them, `log_write` spends one for a new block, `end_op` gives
the rest back. `LogWriteAppend` needs more: a process that passed the unlocked
test still has a token of its own, and tokens cannot be spent by others. The
rest of the invariant ties `pc` to `outstanding` and `committing`: the number
inside is `outstanding`, at most one process commits and then nobody is inside,
`tail` stays within `lh`, the header on the disk fits the log. The panics are
excluded because the last free entry is never used up by an operation that
still has a token. The same invariant was checked by TLC before it was proved.

`SleepLockProof` proves, without any condition, that the two spin locks are held
exactly where the code says and `locked` with `pid` name the holder
(`SleepLockExclusive`), that no wakeup is lost (`SleepLockNoLostWakeup`), and
that the sleep lock implements the mutex (`SleepLockIsMutex`). The invariant for
the wakeup follows a sleeper through `sleep`: until it has `ptable.lock` it
holds `lk->lk`, so the lock cannot be cleared; afterwards the releaser may have
cleared the lock but cannot finish `wakeup` before the sleeper is asleep.

From the account `LogProof` goes on, under the same condition, to what the log
is for. A second invariant says at each point of commit and recovery which copy of a block is the
right one: what the header names is what the log area holds (`HeaderInv`,
`CopyInv`), a block logged or committed and not yet installed has its buffer
pinned, and an unpinned buffer agrees with its home block (`DirtyInv`,
`BufferInv`). From there `LogPinsBuffers` is immediate, and every step maps to
one of `AtomicDisk` or to a stutter (`LogIsAtomicDisk`): `WriteHead` is the
commit, because the copies are complete when the header is written; `Install`
and `RecoverInstall` change nothing, because they write what `Stable` showed
already; a crash falls back to `Stable`.

`ProcProof` has `OneCpu`, `WaitMissesNothing` and `NobodyOrphaned`. One
invariant carries all three: a process is on a processor exactly when its state
says so; what `fork` works on belongs to nobody else, is embryonic, and has the
forking process for a parent; every process but init has a parent that is not
free. The heart of `NoMissedExit` is that `wait` goes to sleep only after
a look over the whole table, and that `exit` wakes the parent when it becomes a
zombie and init for the zombies it hands over.

Its second part is about `SpinLock`, under `SpinLockConstants`: the processors are
finite in number, and the names of processors, of processes and of the common
counter are different things; nothing bounds how many there are.
`IntenaBelongsToThread` and `SpinLocksExclude` need to know of every step that a
thread has yet to execute. So the invariant is a proof outline. A `Point` says what
is known of a thread between two steps: the locks it has, the lock it waits for or
is about to record or store, its depth in `pushcli`, whether a handler is on its
stack, and whether the processor's `intena` (outside the locks, `FL_IF`) is known to
agree with that, as it is not just after `swtch`. `Takes(x, a, b)` gives the rule of
each step; `Leads(s, a, b)` says that an outline takes a thread through all of `s`.
Each function has a lemma of this form (`YieldLeads`, `SleepLeads`, `SyscallLeads`,
`TimerLeads`), and outlines are joined where a function is called (`LeadsOn`) and
consumed where a step is done (`LeadsTail`). `SpinInv` is then: for every
processor there is a point that fits its `ncli`, `intena`, `FL_IF` and the holders
in memory (`Fits`) and from which its thread leads to rest; the threads off the
processors wait in `swtch` (`Waiting`); no lock is at two points. A panic would be a step
that no rule allows. `SpinsEnd` comes from the order of the locks that `Legal` states:
only `ptable.lock` is waited for under another lock.

For the counters `CountInv` counts: the calls made are those in the counter and those
that are `Due`, of which each thread has at most one to enter. What a thread is
about to store is one more than what is there, because the lock that guards the
counter is at its point and so at nobody else's (`StoreAlone`). The sum over the
processors changes as it should (`TotalGrows`), which is shown on a least set
that would contradict it, since induction itself is out of the prover's reach.

`DiskProof`, under `DiskConstants`: the client that waits for a buffer has its
sleep lock, so it is the only one to have that buffer in the queue and the queue
holds no buffer twice; the head is the one the drive works on
(`RequestsServed`). References are counted by the clients that use a buffer, so
`bget` never recycles one in use, and a block has one buffer (`CacheIsCoherent`). A buffer that
is not dirty and valid agrees with the disk (`CleanBuffersAreOnDisk`), hence the
next holder sees the last contents, recycling in between or not
(`HoldersSeeLatest`). `PoolIsNotLost` counts: when `bget` finds nothing to recycle,
each buffer is referenced or dirty, a reference has a use and a dirty mark that is not
queued is a pin, so uses and pins fill the pool. A client of `Disk` is one use of a
buffer, from `bread` to `brelse`; a process that holds two, as `write_log` and
`bmap` do, is two clients, and that its uses take turns is not needed.

`RingProof` has the two ring buffers, which share the arithmetic of counters that
wrap: a distance modulo `Wrap` names a place in a buffer whose size divides `Wrap`.

For the pipe, under `PipeConstants`: the distance of the two counters is the
length of the stream and at most `PIPESIZE` (`PipeInvariant`); the bytes between
them are those written and not yet read, which gives the refinement
(`PipeIsByteStream`); a process asleep has a reason (`PipeSleepersHaveCause`); the
page is freed once and last (`PipeFreedWhenClosed`).

For the console, under `ConsoleConstants` (sizes that are not zero, and a buffer
smaller than the range of the indices, which it divides): readers get each line
as it was typed and edited (`ConsoleKeepsLines`), no reader sleeps while there is
something to read, and a full buffer has something (`ConsoleServesReaders`), and
the arrows keep to the history (`ConsoleHistoryInRange`). The invariant has four
parts. `IndexInv`: as long as nothing was recalled or erased, r, w and e follow
each other within `INPUT_BUF`, and a full buffer has been handed over. `TextInv`:
the buffer from r on is the finished text and then the line, which has no end of
line in it; each key changes it in the right place (`Edited`). `RowsInv`: the rows
in use follow each other round the ring of rows. `ReadersInv`: the sleepers. A key typed
inside the line needs the most, since `addCharAtIndex` shifts part of the buffer.
This proof corrected the model: the ghost `OnLine`, which says when the cursor
stands on the line, accepted lines that begin before the wrap of the indices and
end after it, where the shift goes wrong. With 4-byte buffers and indices modulo
16, 5 keys do not get that far; with 2 bytes, indices modulo 4 and 9 keys TLC
showed it.

`OwnersProof` has the priority lock, the pages and the heap. `PriorityLockExclusive`: without
`kill` the lock is exclusive, for any set of processes. The reason is the flaw of
the queue: it is always empty (`PriorityLockInv`), so nobody is ever woken into the
`if` that does not look again. `EveryPageAccounted`, under `MemoryCondition` (a
first process, and pages enough for it): each page is free, or belongs to one
process as its stack, directory, image or the image under construction, or is one of
the `lost`, up to the `shm_close` that frees a page in use or the `shminit` that takes
a lock in use. `MemoryInv` is a ledger: the
pages of two processes have nothing in common with each other or with the free
list, none serves twice in one process, and the pages in nobody's hands are exactly as many as
`copyuvm` dropped. A page that `shm_open` has taken and not yet mapped is in its
hands as long as it has the lock of the table; the claim ends when a second `shminit`
takes the lock away from a call that is inside, since the page can be forgotten then. `PagesMove` says of every step which pages move between the
free list and one or two processes; each action is an instance of it.

`HeapStaysIntact`: what the run checks of `malloc` and `free` (`HeapIntact`) holds for
requests and gaps of every size, without a condition. The
invariant `HeapWhole` says point by point which units are free, handed out or from
`sbrk`; `Ordered` says that every header leads to the next one above it and the last
to `base`. The code walks from `freep`, which may stand anywhere, so what the proof needs is that a
round reaches every header: a header's rank is the number of headers below it, a
link adds one to the rank modulo their number (`RankIs`, `RoundIs`), and so the loop of
`free` ends at the one place where the block belongs and that of `malloc` sees every
block. From there it is local: linking a block in, with or without a join on
either side, and unlinking or shrinking one keep the list `Ordered`. A block that
`morecore` brings in goes through `free` first and leaves a header large
enough for the request. What would be an induction along the list is done here with a least
counterexample.

`FileWriteProof`: appends to a file take turns (`AppendsDoNotOverlap`), for all
sizes; and the chunks of `filewrite` keep to their reservation and to the log
(`ChunksFitLog`) under `ReservationCondition`, which relates the number that the
chunk is computed from with `MAXOPBLOCKS`. It is met where that number is
`MAXOPBLOCKS` itself, as in Labs 1 and 4 (`OwnReservation`), and not by
the 30 and 10 of Lab 5, where the run `filewrite_lab5` shows the panic. The
invariant bounds the blocks that one transaction has touched by the bytes it has
written: a start inside a block costs one more, the bitmap and the indirect block
are counted once, the inode comes last.

`FilesProof`, under `FilesCondition` (finitely many processes, well-typed trees at
boot, a slash only in front of a path, which is how `skipelem` delivers it): `ip->ref`
and `f->ref` count the pointers, on every way through the calls and after every
crash (`RefsCountPointers`). The equality is not inductive without the shape of
the local variables, `ShapeInv`: at each point, and at the point to which `iput`
will return, which of `ip` and `tgt` are in use, how much of the path is left, and
which calls get there; a process without a directory has no file and is either
not yet forked or at the end of `exit`; a slot of the file table is free exactly when it
refers to nothing. A step is then an account of one process (`Sound`): what its
locals, its directory and one struct file gain or lose is what `ref` gains or
loses (`SoundStep`). Each action has a lemma that says so; `Fork` is the one whose
account is another process's, the child's. Pointers are counted in sequences
(`OccAppend`, `OccTail`) and over the processes (`CountChange`, `AtChange`).

Its other three theorems add `TreeCondition`: inodes and names are finite in
number, and the trees found at boot are file systems. This is what `mkfs` writes;
the tree of four inodes that the run `files` starts from meets the condition, as TLC confirmed. `CrashLeavesATree` says that
the link counts on the disk are those of a tree wherever a crash falls, `InUseStaysAllocated` that
no inode in use is freed, `IlockNeverPanics` that the two panics of `NoPanic` are
not reached. None is inductive alone, since the
panic is excluded by the links, the links are changed through the locked cache entry, and the
entry is there because of its references. `TreeInv` has them together:

* `TreeShape`, of the running and of the committed disk: only directories have
  entries, only those in the tree have names in them, the one entry of a directory
  stands in the parent that its `..` names.
* `Counted`: links are the entries, the `..` of subdirectories, the root's own, and
  what is `Owed`. Between its two halves `unlink` has erased a name and not
  yet lowered `nlink`, `link` has raised `nlink` and not yet written the name; both
  owe one. A commit happens only with nobody in a transaction, so nothing is owed in
  what it writes, and the tree a crash falls back to is exact.
* `CacheFits`: a valid cache entry agrees with the disk, a locked one is valid.
* `CallHolds`: what each process relies on at its place in a call, `iput` included. What it
  refers to is allocated and not one that `create` has just taken (`Fresh`);
  where the code holds a lock over several steps, the lock is its own; a
  directory it looked at is one still.

`iput` frees an inode only when it holds the last reference and no link is left; by
`RefsCountPointers` nobody else then refers to it, and by `Counted` no entry names it.
That the first use of a removed directory (ghost `strayed`, section 2.7) ends the claim is needed,
not convenient: after it, `..` names a freed inode. The ghost never goes back
(`StrayedStays`), so the invariant proved is `FilesInv /\ (~strayed => TreeInv)`.

Each of these invariants was checked by TLC before it was proved, except the
two about `SpinLock`, which speak of outlines that TLC cannot enumerate; what
they imply was checked. The constants' assumptions are those the modules state; none
fixes a size.

Only model-checked:

* Liveness, and what is stated with it: the prover does neither `ENABLED` nor
  fairness.
* `Shell`: its parser is recursive over trees.

The panics of `Proc` are not claimed to be unreachable: init does panic when it
finds no slot or no memory.

## 6. Not modelled

* Two of the three copies of most files: where the labs agree, the definitions
  are translated from `OS-Lab-4`. They differ in Lab 5, apart from what section 2
  names, in `holdingsleep`, which does not compare the pid there
  (`sleeplock.c:50`), and in `holding`, which does not push and pop. `usertests.c`, the
  longest file of each lab, is a list of test calls.
* Devices, boot code, assembly, page-table and segment encodings: registers and
  bits outside a state model. Host tools run elsewhere.
* Sequential user programs and `strdiff`: no state that outlives a command, and
  a reference definition would be the program again.
* The dispatch of system calls: a table and tests of arguments; a property of it
  would restate the code.
* The `xchg` loop of `uspinlock.c`, which is that of `SpinLock` without the rest.
* In `Shell`: `cd`, the splitting of a line into tokens, the bytes that
  `nulterminate` writes, input after the first line. In `SpinLock`: interrupts
  other than the timer, kernel calls other than `sleep`, `kill`.
* `memide.c`, which the build without a disk uses in place of `ide.c`: it copies
  at once and queues nothing.
* In `Proc`: the hand-over of `ptable.lock` through `swtch` (it is in
  `SpinLock`), `procdump`, the closing of files in `exit` (it is in `Files`). In `Log`: operations that only
  read. In `FileWrite`: overwriting and devices. In `Pipe`: failures of
  `pipealloc`, which leave no pipe, and descriptors duplicated later on.
* In `Files`: contents of files, `mknod` (`mkdir` without the links), `dup` (the
  `filedup` of `fork`), the 50 slots of the inode cache, names cut to 14 bytes.
  In `Memory`: encodings of page tables, the order of the free list. In
  `Console`: the screen.

## 7. Plan

Done: `Log` first, since every file-system property rests on it, then the
processes and locks that it sleeps with, then pipes and `filewrite`, then the
units of the labs (console, memory with the segments, the allocator), the buffer
cache with its driver, the file system above the log, the spin locks under the
scheduler, and the shell above the system calls.

Proved: what section 5 lists. Left to TLC: what the end of section 5 lists.
