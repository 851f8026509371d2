# A TLA+ model of the xv6-spec kernels

The repository holds two xv6 kernels generated from the specifications under
`spec/`: the base kernel (`kernel/`, one hart, cooperative switching with
interrupts masked in the kernel) and the VisionFive 2 kernel
(`platform/visionfive2/kernel/`, several harts, preemptive, SD card and GPT), with
their user programs, `mkfs` and test tooling. This directory models them at two
grains. Five components whose correctness depends on the order of single steps are
modelled step by step and proved: the redo log and its recovery, the buffer cache,
pipes, the process table and the disk driver. Above them, all system calls of the
VisionFive 2 kernel are modelled as functions on the kernel's state, and the
repository's own test programs run on that model, in every order of their traps and
with power failures.

## 1. Inventory

### Base kernel

| part | source | state | operations | talks to |
|---|---|---|---|---|
| redo log | `kernel/log.c` | in-memory header `lh`, `outstanding`, `committing`; log region and header on disk | `begin_op`, `log_write`, `end_op`, `commit`, `initlog`/recovery | buffer cache, scheduler (`sleep`/`wakeup`) |
| buffer cache | `kernel/bio.c` | LRU list, `refcnt`, `valid`, `pinned`, sleep lock per buffer | `bread`, `bwrite`, `brelse`, `bpin`, `bunpin` | virtio driver, log |
| virtio disk | `kernel/virtio_disk.c` | descriptor free list, avail/used rings, in-flight table | `virtio_disk_rw`, `virtio_disk_intr` | device, buffer cache, interrupts |
| processes | `kernel/proc.c` | process table, `state`, `chan`, `parent`, `killed`, `xstate` | `fork`, `exit`, `wait`, `kill`, `sleep`, `wakeup`, `yield`, `scheduler` | everything that blocks |
| spinlocks | `kernel/spinlock.c` | `locked`, global `noff`, saved interrupt state | `acquire`, `release`, `push_off`, `pop_off` | trap handling |
| pipes | `kernel/pipe.c` | ring with `nread`/`nwrite`, `readopen`, `writeopen` | `pipealloc`, `pipewrite`, `piperead`, `pipeclose` | scheduler, file table, allocator |
| file table | `kernel/file.c`, `kernel/sysfile.c` | global table with reference counts and offsets, descriptor tables | `filealloc`, `filedup`, `fileclose`, `fileread`, `filewrite`, the file system calls | inodes, pipes, log |
| inodes and directories | `kernel/fs.c` | inode cache, on-disk inodes, bitmap, directory entries | `iget`, `ilock`, `iput`, `balloc_alloc`, `bmap`, `itrunc`, `readi`, `writei`, `dirlink`, `unlink_helper`, path lookup | log, buffer cache |
| memory | `kernel/kalloc.c`, `kernel/vm.c`, `kernel/exec.c` | free list, page tables | `kalloc`, `kfree`, `mappages`, `uvmalloc`, `uvmcopy`, `exec`, `copyin`/`copyout` | processes |
| traps and system calls | `kernel/trap.c`, `kernel/syscall.c`, `kernel/sysproc.c`, `kernel/plic.c` | `sepc`, `sstatus`, ticks | `usertrap`, `kerneltrap`, `devintr`, `syscall` | scheduler, drivers |
| console, boot | `kernel/console.c`, `kernel/main.c`, `kernel/entry.S`, `kernel/start.c` | serial port, initialisation order | | |

### VisionFive 2 kernel

The same parts with a different concurrency structure: a lock per process
(`platform/visionfive2/kernel/proc.c`), preemption by timer interrupts, sleep
locks in their own file, and new parts: the SD-card driver (`sd.c`), the block
device switch (`blockdev.c`), the GPT parser (`gpt.c`), the device-tree platform
discovery (`platform.c`), the interrupt-driven UART and console ring (`uart.c`,
`console.c`) and multi-hart boot (`start.c`, `main.c`).

### Behaviours that are hard to get right

* A crash between any two disk writes of `commit` or of recovery, with block
  writes that reach only one of their two sectors.
* Steps of processes that interleave at every lock release and every sleep:
  admission to the log, a commit while others wait, readers and writers of a
  pipe, two processes that look up the same block or inode, `exit` and `wait`.
* Lost wakeups: a condition checked, then a sleep, with the wakeup in between.
* Limits: a full log, a full cache with every buffer pinned, a full ring, a full
  process table, three free descriptors.
* Two locks taken in opposite orders (an inode lock and log admission).
* The wraparound of the virtio ring indices and of the pipe positions.

## 2. Modules

Every component has an abstract specification of what it promises (where that is
more than an invariant), the detailed module translated from the source, an `MC`
module with the configurations for TLC, and a module of proofs.

| component | promise | model | TLC | proofs |
|---|---|---|---|---|
| redo log, `kernel/log.c` | `AtomicDisk` | `RedoLog` | `MCRedoLog` | `RedoLogSteps`, `RedoLogProofs` |
| buffer cache, `kernel/bio.c` | `BlockStore` | `BufferCache` | `MCBufferCache` | `BufferCacheProofs` |
| pipes, `kernel/pipe.c` | `ByteStream` | `Pipe` | `MCPipe` | `RingArithmetic`, `PipeProofs` |
| processes, `platform/visionfive2/kernel/proc.c` | | `ProcessTable` | `MCProcessTable` | `ProcessTableProofs` |
| disk driver, `platform/visionfive2/kernel/virtio_disk.c` | `DiskService` | `VirtioDisk` | `MCVirtioDisk` | `RingArithmetic`, `VirtioDiskSteps`, `VirtioDiskProofs` |

How they fit together: `RedoLog` uses buffers that keep their content while pinned
or locked, which is what `BufferCache` shows of `bio.c`. `BufferCache` reads and
writes blocks in one step, which is what `VirtioDisk` shows of the driver
(`DiskService`). All of them use `sleep` and `wakeup` as steps that lose no wakeup,
which for the VisionFive 2 kernel is the subject of `ProcessTable`.

Conventions. Definitions keep the names of the functions they come from;
`PROJECT.json` maps each to its lines. A `panic` is recorded in `panicked` and
stops the machine. An operator called `X_something` that stands before `X` and is
introduced as a mutant of it is a deliberately wrong variant of `X`: it is not used
by the specification, and exists to show that the property it is paired with in
`PROJECT.json` can fail.

Grain of atomicity. A step is a critical section, or the part of one between two
points where somebody else can act. Processes interleave wherever a lock is
released. In the base kernel, where one hart runs and the kernel is not preempted,
fewer interleavings exist than the models have, so what holds of the models holds
of it; the violations listed in section 5 need no interleaving that the kernel in
question does not have.

The system calls of the VisionFive 2 kernel are one specification in layers. Each
layer extends the one above it in the table.

| module | source (under `platform/visionfive2/`) | what it holds |
|---|---|---|
| `Memory` | `kernel/kalloc.c`, `kernel/vm.c` | pages, page tables, copies to and from user memory, lazy page faults |
| `Inodes` | `kernel/fs.c`, the reservation side of `kernel/log.c` | bitmap, inodes, inode table, file content, directories, path lookup, `ireclaim` |
| `SysFile` | `kernel/file.c`, `kernel/pipe.c`, `kernel/sysfile.c` | open files, pipes at the grain of calls, the file system calls |
| `Kernel` | `kernel/proc.c`, `kernel/exec.c`, `kernel/sysproc.c`, `kernel/syscall.c`, `kernel/trap.c` | `fork`, `exit`, `wait`, `kill`, `sbrk`, `exec`, the dispatch, and a process's user program |
| `SystemCalls` | `kernel/proc.c` (`userinit`, `forkret`) | boot, one step per trap, power failure, reboot; the properties |
| `UserPrograms` | `user/user.h` | the instructions that user programs are written with |
| `FileTests`, `MemoryTests`, `ProcessTests` | `user/usertests.c` | the tests, with the expectations they check |
| `StressPrograms` | `user/grind.c`, `stressfs.c`, `logstress.c`, `forphan.c`, `dorphan.c`, `zombie.c`, `echo.c` | the other programs that load the kernel |
| `UserTests` | `user/usertests.c`, `user/init.c` | the table of all of them, `init` and `run` |
| `MCSystemCalls` | `mkfs/mkfs.c` for the layout | the instance for TLC, with the initial disk |

### RedoLog

State: the disk (`home`, `slot`, `hdr`), what survives only until a crash
(`cache`, `pinned`, `lh`, `outstanding`, `committing`), and where each process
and the boot sequence are (`pc`, `boot`, `tail`). One action is one critical
section of `log.lock` or one block written: `begin_wait`/`begin_admit`
(`begin_op`), `Modify` (a buffer changed under its sleep lock), `log_write`,
`end_op`, `write_log`, `write_head`, `install_trans`, `clear_head`,
`commit_done`, `read_head`, `recover_install`, `recover_clear`. `Evict` is
`bget` recycling a buffer that is neither locked nor pinned. `Crash` may fall
anywhere and may leave any subset of the sectors of the block being written; the
header occupies the first 124 bytes of its block and so fits one sector.

`AtomicDisk` has no log: a group of operations takes effect at once, or not at
all. The refinement maps the committed header to the moment of effect.

### BufferCache

State: identity, `valid`, `data`, `refcnt`, `pinned`, sleep-lock `owner` of each
buffer, the ring of `next`/`prev` links (`list`), the disk, and where each user
is. A user is one `bread` ... `brelse` span. `bget` is three actions (hit, recycle,
panic), `acquiresleep` two (wait, take), `bread` of an invalid buffer one, then
`Modify`, `bwrite`, `bpin`, `bunpin`, and `brelse` in two steps, because the sleep
lock is released before the reference is dropped. Clients follow the log's
discipline: what they change they write or pin before they release it, and they
unpin what was pinned and written. The ownership panics of `bwrite`, `brelse` and
`bunpin` are therefore not reachable and not modelled; the panic of `bget` is.

`BlockStore` is one lockable copy of every block.

### Pipe

State: the ring with free-running `nread` and `nwrite` (modulo `MODULUS`, 2^32 in
the code), the two open flags, the references that file descriptors hold on each
end, and for each process its call, how much it has transferred and whether it
sleeps on `nread` or `nwrite`. One action is one turn of the loop of `pipewrite` or
`piperead`, with bad user addresses as a choice at every byte; `pipeclose`, and
`fork`/`dup` of an end. `ByteStream` is a bounded queue of bytes.

### ProcessTable

State: `state`, `parent`, `killed`, `chan` and the lock holder of each slot,
`wait_lock`, what each hart runs, where the kernel stack of each process is in use
(`ctx`), and where each process is in the kernel. A step is what a hart does
between two acquisitions of locks that another hart can hold; a slot's lock
travels through `swtch`. `kfork` is three critical sections, `kexit` four, `kwait`
a scan that may reap, return, or sleep in three steps (`killed(p)`, taking
`p->lock`, `sched`). Two loops are merged: the scan of the table, whose order is not
observable under `wait_lock`, and `reparent`, which wakes `init` once for all
children. Pids are not modelled: they are never reused.

### VirtioDisk

State: descriptors, free set, `info`, both rings with indices modulo `MODULUS`
(2^16), `used_idx`, `vdisk_lock`, per process the buffer, its `disk` flag and the
request, and the device: how far it has read, the chains it is serving, whether it
was notified, whether it interrupts. A step is what the device may see at once:
filling in a chain and its ring entry, the index, the notification. The device is
external; it is modelled as the driver expects it (takes in order, serves in any
order, interrupts after each, always succeeds). A ring entry that has been read
holds `NoDesc`, so that reading it again is seen. `DiskService` is a set of
requests, each carried out once at some moment between call and return.

### SystemCalls

State: one variable, `kernel`, a record with the freelist and the content of each
page, page tables, the process, file and inode tables, pipes, and the disk (bitmap,
blocks, on-disk inodes). An operator such as `uvmcopy`, `writei` or `kfork` takes this
record and returns the next one and the C return value, so a definition reads like
the function it comes from, with every early return and what it has changed by
then. A step is one trap: a system call from its arguments to its return value, a
page fault, or an exit of a killed process. A call that sleeps returns `Asleep` and is
taken up again when what it waits for has happened; a `pipewrite` keeps how far it
has got. A process that is killed exits at its next trap, or, if it is inside a `wait` or
a `read` or `write` (`InCall`), goes through the call once more first: it may reap a child
or take what is in the pipe, and gets -1 instead of going back to sleep.

The data are units, not bytes. A page holds 8 of them, a block 4, a directory entry
is one, and an ELF header three. A path is the sequence of its elements; one element
may be longer than `DIRSIZ`. User memory has real addresses and protection bits, so
that bad, unaligned, wrapping and kernel addresses are told apart as the code tells
them apart.

A program is a table of labelled instruction sequences; each system call says which
results the C program accepts, and a result outside of these makes it exit with status 1,
as in the test. Tests that fill a page, a file, a directory, the disk or a table
fill the model's, and loops that repeat a body run it `N` times (that of `reparent2`
once).

Transactions: `begin_op` opens one, the outermost `end_op` commits, and the disk after
each commit of a trap is recorded in `commits`. A step either returns from the trap
(`Returns`) or loses power after any of the trap's commits (`PowerFails`): the machine
is then one that has just been reset with that disk. That a commit is atomic is what
`AtomicCommit` shows of the log. `Reboot` is `fsinit` with `ireclaim`, and may be cut
off by a power failure again.

What a trap does and the machine that `init` leaves are the constants `Trap` and
`Machine`; the instance gives them the values `usertrap` and `Booted`, and
`MachineAssumption` holds the second one to its definition.

## 3. Runs

| run | instance | shows |
|---|---|---|
| `log_crash` | 2 processes, 2 blocks of 2 sectors | the log implements `AtomicDisk` (`AtomicCommit`) with crashes anywhere, also during recovery; no panic; reservations hold; no dirty buffer can be recycled; after the last `end_op` of a group the update survives (`QuietIsDurable`); home blocks are written only under a committed header (`RedoOrdering`) |
| `log_live` | 3 processes, room for 2 | nobody sleeps in `begin_op` for ever; recovery ends |
| `log_capacity` | 3 operations of 2 blocks, 6 log blocks | violation, section 5 |
| `cache_store` | 2 users, 4 blocks, 3 buffers | the cache implements `BlockStore` (`Coherent`); unique identities; exact counts; links intact; no forgotten sleeper; nothing in use is evicted |
| `cache_lru` | 2 buffers | violation, section 5 |
| `pipe_stream` | 3 processes, ring of 2, positions modulo 4 | the pipe implements `ByteStream` (`FifoOrder`) across wraparound; no lost wakeup, and nobody asleep once the other end is closed, never a reader and a writer asleep together (`NoLostWakeup`); freed once and never used after; ends open exactly while referenced |
| `pipe_live` | 3 processes, ring of 1 | closing an end releases the other side; a sleeping reader is served |
| `proc_tree` | init and 2 other slots, 3 harts | no shared kernel stack; reaping only off the stack; `sched`'s conditions; live parents; whoever sleeps in `kwait` has a running child and no ZOMBIE (`NoLostWait`); every child reaped once; no deadlock |
| `proc_live` | init and 2 slots, 1 hart, kills | `kwait` returns |
| `proc_kill_race` | init and 1 slot, 2 harts | violation, section 5 |
| `virtio_rings` | 3 processes, 7 descriptors, indices modulo 14 | the driver implements `DiskService` (`Serves`); no panic; no descriptor leaked or shared; what the device may read is complete, and no request is forgotten between the rings (`OfferedIntact`); no lost completion, wakeup or notification; no deadlock |
| `syscalls` | 70 tests and 7 other programs; 90 pages, 19 data blocks, 15 inodes, 7 processes, 8 open files, 6 inode-table entries | every test gets the results it checks for in every order of its processes' traps (`TestsPass`); no panic, double free or self-deadlock, and no operation logs more than `MAXOPBLOCKS` (`NoPanic`); references, pages and pipe ends add up (`ResourcesAccounted`); bitmap, link counts, inodes without a name and the inode table agree (`FileSystemSound`); recovery leaves a consistent disk without lost inodes, but for files created in a removed directory (`RecoveredClean`, see below); every program ends (`Completes`) |

Why the bounds are enough for the cases of interest:

* Log: two processes give groups of two operations, a commit while the other
  waits, and absorption of a block logged twice; two blocks give partial installs,
  two sectors torn writes. Contents are two words per sector, so old, new and
  mixed blocks are told apart. Three processes with room for two reservations are
  the smallest case in which somebody sleeps for space.
* Cache: more blocks than buffers and more buffers than users, so hits, recycling
  and waiting for a sleep lock all happen; with two users and pins the panic of
  `bget` is reachable, which is why the run does not check for deadlock.
* Pipe: a ring of two has the states empty, partly full and full, and positions
  modulo 4 wrap around twice within a behaviour. All processes may stop calling,
  so deadlock is not checked.
* Processes: two slots besides init give a grandchild that is orphaned while its
  parent's parent waits, and slots that are reaped and taken again; with three harts
  all processes run at once. Every process but init may be killed.
* Virtio: seven descriptors fit two requests and leave one, so allocation fails
  with something to give back; three processes make two wait for descriptors at
  once; indices modulo 14 and ring positions modulo 7 wrap around at different
  points.

* System calls: a file has two direct blocks and four behind the indirect one, so
  every test that needs the indirect block reaches it; the inode table, the file
  table, the process table, the pages and the blocks are small enough that the tests
  which exhaust them do, and each of these runs takes the failure paths of `create`,
  `filewrite`, `fork`, `exec` and `sbrk`. Loops run twice (`N`), which is enough for the
  second turn to meet what the first one left. A pipe holds three units, fewer than the
  writes of the tests. Programs that never stop in the code (`forphan`, `dorphan`) are
  killed, as the shell's user would. All programs may have ended, so deadlock is
  covered by `Completes` instead. The power may fail during every program.

A limit of recovery that the run meets: case 20 of `grind` creates a file in its current
directory after that has been removed. If the power fails at that moment, `ireclaim`
frees the directory, which has no links, but not the file, whose link count is 1 and
whose only name goes with the directory; its inode and blocks are lost. `PowerFails`
therefore notes in `kernel.stranded` the names that the disk has outside of the tree
below the root. `LinkCounts` and `RecoveredClean` hold with these names counted: every
other inode in use has a path from the root. Without them both fail.

Symmetry is used for processes, blocks, slots, harts and values, which the
specifications treat alike, and never in runs with liveness properties.

## 4. Fairness

* `RedoLog`: weak fairness of recovery, of a woken process in `begin_op`, of
  `log_write` and of the commit in progress; strong fairness of `end_op`, which needs
  the log lock that others take as well. The scheduler runs every runnable process,
  an operation is a bounded number of calls, and the disk answers.
* `Pipe`: strong fairness of each process's own steps inside a call: the lock is
  taken by others in between, and the round-robin scheduler returns to every
  runnable process. Nobody is assumed to make a call.
* `ProcessTable`: weak fairness of a hart inside the scheduler and of the second
  half of a switch; strong fairness of preemption (the timer), of the scheduler's
  choice of each runnable slot (it goes round the table) and of each process's
  kernel steps, which wait for locks.
* `BufferCache` and `VirtioDisk` have no liveness property: neither the sleep lock
  nor the descriptor allocator is fair, and a process can be overtaken for ever.

* `SystemCalls`: the machine does not stop while some process can take a step. Nothing
  is assumed about which process runs, so `Completes` holds for every scheduler; it
  would fail if processes could trap for ever or all wait for one another.

## 5. Where the code and its documents differ

* `log_capacity`: `begin_op` admits by `LOGSIZE`, `log_write` panics at one block
  fewer, because the header takes a block of the region that `mkfs` builds. A group
  of operations within their reservations can end in "too big a transaction".
* `cache_lru`: `brelse` puts a buffer where `bget` looks first, so the buffer released
  last is recycled first; the comments say it is evicted last.
* `proc_kill_race`: a kill between `killed(p)` and `sleep` in `kwait` is not seen by
  the sleeper, which the comments on `kkill` say it wakes.

One comment is merely old and has no run: `platform/visionfive2/user/usertests.c`, lines
2346-2347, says above the unused test `fsfull` that `balloc` panics when the disk is full.
`balloc` returns 0 then (`fs.c`, lines 66 and 88-89), the callers undo what they have done,
and the test `diskfull` expects that; so does `NoPanic`.

## 6. Theorems

All proofs are for any number of processes, blocks, buffers, slots, harts,
descriptors and any size of the log, the ring and the index width, from the
assumptions named in each module (`LogAssumption`, `CacheAssumption`,
`PipeAssumption`, `ProcessAssumption`, `VirtioAssumption`): distinct null values,
positive sizes, finite sets where the code counts, and `MODULUS` a multiple of the
ring size. Each component has an inductive invariant `IInv`, checked by TLC first;
for every action a lemma shows that it preserves each part of `IInv`. Every safety
property that a passing run checks of these five components, refinements and action
properties included, is a theorem.

* Redo log. The parts of `IInv` say, for each phase of a commit, which slots and
  home blocks already have the content of the cache. `AtomicCommit` alone is not
  inductive, because it does not say why the home blocks may be overwritten: the
  slots named by a committed header have the content the group is to have, and
  pinned buffers agree with them. Proved: `IInv`, types, absence of the protocol
  panics, `RecyclableIsClean`, `QuietIsDurable`, the order of the writes
  (`RedoOrdering`), and the refinement of `AtomicDisk` with crashes and recovery.
  The room in the log rests on a second invariant, `RoomInv`: `IInv`, that what an
  operation has written is in the header and at most `OpBlocks` blocks (`UsageInv`),
  and `ReservationHonoured` itself. An operation's written blocks are counted by an
  injection into `Active \X 1 .. OpBlocks`. `ReservationHonoured` is proved when an
  operation logs no more than it reserves (`OpBlocks <= MAXOPBLOCKS`). `NoPanic` needs
  the stronger `Sized`, for two reasons: admission counts to `LOGSIZE` while the region
  has `NLOG - 1` blocks for data (the run `log_capacity`), and `log_write` checks for
  room before it looks whether the block is in the header already.
  Of the two liveness properties of the log the safety half is proved. A sleeper in
  `begin_op` has a reason to sleep (`SleepInv`, which is inductive with `IInv`: every end
  of a reason wakes the sleepers), and somebody is left to wake it (`WakerLeft`): without
  an open operation or a commit nothing is reserved and the header is empty (`QuietLog`),
  so the condition of `begin_op` would be false. The number of steps that
  recovery has left is bounded by the size of the log (`RecoveryBounded`) and decreases
  with every step but a crash (`RecoveryProgress`).
* Buffer cache. `IInv` counts references by the users that are between `bget` and
  `brelse`, ties the sleep-lock owner to one of them, and says that an unreferenced,
  unpinned buffer agrees with the disk. Proved: types, unique identities, exact counts,
  nothing in use is evicted, no forgotten sleeper, and the refinement of
  `BlockStore`. `RingIntact` says that some order of the buffers agrees with all links
  in both directions, head included, so no induction along the links is needed:
  the proof gives the order after a buffer has moved (`TailKeepsRing`).
* Pipe. `IInv` relates the references to the open flags and the sleepers to the state
  of the ring. Proved: types (positions keep their width), no lost wakeup, nobody
  asleep once the other end is closed, no use after free, open exactly while referenced.
  That a reader and a writer never sleep at once (`OneSideAsleep`) is inductive with `IInv`: a reader sleeps on an empty ring, outside
  of any other reader's loop, where by `IInv` no writer is asleep, and a writer wakes the
  readers before it sleeps. The refinement of `ByteStream` (`FifoOrder`) adds
  that the positions are at most `PIPESIZE` apart (`RingInv`): then the position that
  `pipewrite` fills is none of the buffered ones, because fewer than `PIPESIZE` steps
  lead to different remainders (`Apart`), and a position that wraps around at `MODULUS`
  names the same byte, because `PIPESIZE` divides `MODULUS` (`Whole`, `Twice`).
* Processes. `IInv` says who holds each slot's lock in each phase of a switch, and
  which processes may have no parent yet. Proved: types, unshared stacks, reaping off the
  stack, `sched`'s conditions, live parents, no lost `kwait` wakeup, reaping once. That
  a process asleep in `kwait` has a running child, whose exit will wake it, needs one
  more layer (`Childhood`, inductive with `IInv`): a slot has a parent only from its fork
  to its reaping, only the parent itself takes a child away from a live process, and a
  child still under construction means that its parent is in `kfork`, not asleep. From
  `IInv` follows that spinning for `wait_lock` and `p->lock` never ends in a
  deadlock (`NoDeadlock`): who has a `p->lock` is on its way through `swtch` and takes no
  other lock, who has `wait_lock` spins at most for a `p->lock`.
* Virtio. `IInv` describes the chain of every request in flight (`ChainInv`), that
  chains are disjoint and with the free set are all descriptors (`ShareInv`), and that
  the device knows a request at most once, and only until it is served (`OfferInv`):
  without the last, nothing would say that a chain the device serves still belongs to
  its process. `AvailRing` and `UsedRing` say which positions of the rings hold entries:
  those between the two indices (`Holds`), each a different chain (`UsedInv` for the
  served ones). So a ring has no more entries than chains, fewer than `NUM`, and the
  entry after the last one is free. Proved: types; no panic (`NeverPanics`); that what
  is offered to the device is complete and not overwritten (`OfferedKept`), and that a
  request is in one of the rings or with the device until the handler has seen it done
  (`RequestsTracked`, inductive with `IInv` because the entry after the last one of a ring
  is free and so never overwrites a request); no lost
  completion (`CompletionSeen`), wakeup (`WakeupKept`) or notification (`NotifyKept`);
  that every descriptor is free or belongs to one request (`NoneLeaked`, by
  `ChainMembers`, which says what a chain consists of); private chains and no double
  free; and the refinement of `DiskService`. `NeverStuck` puts these together: while a
  call is under way, a process, the handler or the device can go on. A process that
  sleeps for descriptors waits for the chains that have them, a process that sleeps for
  its buffer has a tracked request, and a tracked request is one the device was notified
  of, one it has taken, or one whose interrupt is raised (`PendingMoves`).

`RingArithmetic` has what pipes and the virtio rings share: remainders by the size of a
ring of indices that wrap around at a multiple of it.

The type invariants are proved and therefore not repeated in the runs. `NeverStuck`,
`NoDeadlock`, `SleepersHaveWaker`, `RecoveryInBounds` and `RecoveryAdvances` are stated
for the proofs; TLC finds them true on the instances of section 3.

A module of proofs leaves its steps to Zenon (`USE ZenonT(30)` at its head) and names SMT
at the steps that need arithmetic, or functions and records that are updated. Zenon takes
a step as it stands, while its translation for the SMT solver takes `tlapm` longer the
more steps it has translated before and is given up after five seconds, whatever the
limit of the solver.

Checked by TLC only: all liveness properties (the prover has no fairness and no `ENABLED`,
so `NeverStuck` and `NoDeadlock` spell the guards out), and
everything about system calls (the operators are recursive, as the loops they translate
are, and the prover has no induction over data). The three violations are
counterexamples that TLC finds.

## 7. Not modelled

`PROJECT.json` lists every part with its status and the reason. The larger ones:

* Concurrency inside a system call of the VisionFive 2 kernel. A call is one step of
  `SystemCalls`, so two calls do not meet in the middle at inode or buffer locks. The
  log, the cache, pipes, the process table and the driver are the subject of the
  detailed modules; the order of inode locks is not.
* The base kernel's files, inodes, traps, memory, process table and driver. Its
  file system calls differ from the modelled ones mostly in the order of inode locks and log
  admission, which shows only with several calls in progress. Two hazards of it are
  listed in `PROJECT.json` without a property for this reason.
* The SD card driver polls a controller of which the repository has only comments. The GPT
  parser and the reading of the device tree are checks on input without state. The
  console's input ring, boot on several harts, `mkfs`, the libraries, the shell and the
  text tools, lab 1 and the host tools are not modelled either.
* Of `usertests`: `fsfull`, the comparison of free pages before and after all tests
  (`ResourcesAccounted` says it of every step), and of `grind` the two cases with pipes,
  19 and 22, whose orders are too many beside the others. A child in `grind` draws one
  case instead of going round for ever.

Simplifications a reader of `SystemCalls` should know: a read of the console waits for
ever; the clock is not modelled, so a pause takes any time, and no program calls `uptime`;
executable files are laid out as the linker does it, so `exec`'s checks of the sizes and
addresses in a program header pass; a directory has no holes, so no read of an entry is
short; offsets wrap around at 2^30 instead of 2^32; a page that is freed twice
stops the model, where `kfree` would link it twice; which free page, block or
slot is taken is the lowest, as in the code, but for pages, where it is not observable;
`kill(0)` marks an unused slot, as the code does.
