----------------------------- MODULE SystemCalls ----------------------------
(***************************************************************************)
(* The VisionFive 2 kernel running user programs.  The state is the record *)
(* that modules Memory, Inodes, SysFile and Kernel compute with; a step is *)
(* one trap of one process, so the programs interleave at system calls.    *)
(* (What interleaves inside a system call is the subject of the modules on *)
(* the log, the buffer cache, pipes and the process table.)  The power may *)
(* fail inside any step, after any of the transactions it commits.         *)
(***************************************************************************)
EXTENDS Kernel

CONSTANTS Trap(_, _, _), \* what a trap does: usertrap of module Kernel
          Machine,      \* the machine once it is up: Booted, below
          Image,        \* the disk as mkfs writes it
          Runs          \* the programs under test, names of Code

VARIABLE kernel

DRIVER == 2             \* the process that runs the program under test

-----------------------------------------------------------------------------
(* The machine after a reset, with some disk.  stranded is history: the    *)
(* names that the power failure finds without a path from the root, see    *)
(* Stranded.                                                               *)
Reset(disk, stranded) ==
    [free |-> Pages, mem |-> [pa \in Pages |-> Junk], pt |-> <<>>, pipe |-> <<>>,
     file |-> [f \in 1 .. NFILE |-> NoFile], proc |-> [p \in 1 .. NPROC |-> Nobody],
     itable |-> [s \in 1 .. NINODE |->
                    [inum |-> 0, ref |-> 0, valid |-> FALSE, locked |-> FALSE] @@ FreeDinode],
     nextpid |-> 1, disk |-> disk, op |-> [depth |-> 0, logged |-> {}],
     commits |-> <<>>, widest |-> 0, panic |-> "", mode |-> "off",
     stranded |-> stranded]

(* fsinit(): the log is recovered already, because disk is a committed     *)
(* image.                                                                  *)
fsinit(k) == ireclaim(k)

(* The first process, with an empty address space, in the root directory.  *)
userinit(k) ==
    LET p == allocproc(k)
        root == iget(p.k, ROOTINO)
    IN [root.k EXCEPT !.proc[p.r].cwd = root.r, !.proc[p.r].state = "RUNNABLE"]

(* Its first time in forkret(): the file system, then exec("/init").       *)
forkret(k) ==
    LET run == kexec(fsinit(k), INIT, <<"/", "init">>, <<"/init">>, 2)
    IN IF run.r = -1 THEN Panic(run.k, "exec") ELSE run.k

RECURSIVE RunTo(_, _, _)
RunTo(k, p, label) ==
    IF k.proc[p].user.prog = label THEN k ELSE RunTo(usertrap(k, p, ""), p, label)

RECURSIVE RunSteps(_, _, _)
RunSteps(k, p, n) == IF n = 0 THEN k ELSE RunSteps(usertrap(k, p, ""), p, n - 1)

(* init opens the console, forks and waits; its child execs usertests.     *)
Booted ==
    LET up == forkret(userinit(Reset(Image, {})))
        inited == RunSteps(up, INIT, Len(Library["init"].main) - 1)
        driver == RunTo(inited, DRIVER, "usertests")
    IN [driver EXCEPT !.mode = "booted", !.commits = <<>>]

ASSUME MachineAssumption == Machine = Booted

Init == kernel = Machine

-----------------------------------------------------------------------------
(* The names on a disk: <<d, u, i>> if entry u of directory d names inode  *)
(* i.  Neither "." counts nor the ".." of a directory that was removed.    *)

Inums == 1 .. ninodes - 1

Unit(disk, i, off) ==
    LET d == disk.dinode[i]
        bn == off \div BSIZE
        b == IF bn < NDIRECT THEN d.addrs[bn]
             ELSE disk.block[d.addrs[NDIRECT]][bn - NDIRECT][1]
    IN disk.block[b][off % BSIZE]

Links(disk) ==
    LET dirs == {d \in Inums : disk.dinode[d].type = "DIR"}
        entries == UNION {{<<d, u, Unit(disk, d, u)[1]>> : u \in 0 .. disk.dinode[d].size - 1} :
                          d \in dirs}
    IN {e \in entries : LET name == Unit(disk, e[1], e[2])[2]
                        IN /\ e[3] # 0 /\ name # "."
                           /\ name = ".." => disk.dinode[e[1]].nlink > 0}

(* The inodes with a path from the root.                                   *)
RECURSIVE Below(_, _)
Below(links, found) ==
    LET more == found \cup {e[3] : e \in {l \in links : l[1] \in found}}
    IN IF more = found THEN found ELSE Below(links, more)

Reachable(disk) == Below(Links(disk), {ROOTINO})

(* The names without such a path: in a directory that was removed while a  *)
(* process is in it, where it may go on to create files.  If the power     *)
(* fails now, ireclaim() frees that directory and does not look into it.   *)
Stranded(disk) ==
    LET reached == Reachable(disk) IN {e \in Links(disk) : e[1] \notin reached}

-----------------------------------------------------------------------------
Alive(k) == {p \in 1 .. NPROC : k.proc[p].state = "RUNNABLE"}

Picks(k, p) ==
    IF AtEnd(k, p) THEN {""}
    ELSE IF Instr(k, p).op = "choose" THEN Instr(k, p).labels
    ELSE IF k.proc[p].killed /\ Instr(k, p).op \in {"wait", "read", "write"}
         THEN {"", InCall}
    ELSE {""}

(* main() of usertests with the name of one test.                          *)
Begin ==
    /\ kernel.mode = "booted"
    /\ \E t \in Runs : kernel' = [kernel EXCEPT !.mode = "up",
                                     !.proc[DRIVER].user.prog = t,
                                     !.proc[DRIVER].user.label = "run"]

(* The trap leaves the kernel in state next; a process that is asleep and  *)
(* stays so takes no step.                                                 *)
Returns(next) ==
    LET after == [next EXCEPT !.commits = <<>>]
    IN after # kernel /\ kernel' = after

(* The power fails during it, after n of its commits.                      *)
PowerFails(next) ==
    \E n \in DOMAIN next.commits :
        kernel' = Reset(next.commits[n], Stranded(next.commits[n]))

Step(p) ==
    /\ kernel.mode = "up" /\ kernel.panic = ""
    /\ p \in Alive(kernel)
    /\ \E pick \in Picks(kernel, p) :
          LET next == Trap(kernel, p, pick)
          IN Returns(next) \/ PowerFails(next)

(* It comes back: forkret() runs fsinit(), during which it may fail again. *)
Reboot ==
    /\ kernel.mode = "off"
    /\ LET next == fsinit(kernel)
       IN \/ kernel' = [next EXCEPT !.mode = "recovered", !.commits = <<>>]
          \/ \E n \in DOMAIN next.commits : kernel' = Reset(next.commits[n], kernel.stranded)

Finished == \/ kernel.mode = "recovered"
            \/ kernel.mode = "up" /\ Instr(kernel, DRIVER).op = "spin"

Next == \/ Begin
        \/ \E p \in 1 .. NPROC : Step(p)
        \/ Reboot

(* Some process has a step to take, or there is no process yet.            *)
CanStep ==
    \/ kernel.mode \in {"booted", "off"}
    \/ /\ kernel.mode = "up" /\ kernel.panic = ""
       /\ \E p \in Alive(kernel) : \E pick \in Picks(kernel, p) :
             [Trap(kernel, p, pick) EXCEPT !.commits = <<>>] # kernel

(* The machine does not stop while a step is possible: WF_kernel(Next),    *)
(* with what enables Next spelled out.  Nothing is assumed about which     *)
(* process runs.                                                           *)
Fairness == []<>~CanStep \/ []<><<TRUE>>_kernel

Spec == Init /\ [][Next]_kernel /\ Fairness

-----------------------------------------------------------------------------
(* run() of usertests sees every test exit with status 0: the kernel does  *)
(* what its tests say, in every order in which their processes trap.       *)
TestsPass == kernel.mode = "up" => kernel.proc[DRIVER].state = "RUNNABLE"

(* No operation logs more blocks than begin_op() reserved for it.          *)
OpFits == kernel.widest <= MAXOPBLOCKS

(* No system call reaches a panic(), frees a page twice, waits for a lock  *)
(* that its own process holds, or logs more than its share of the log,     *)
(* which log_write() would meet with a panic() when the log is full.       *)
NoPanic == kernel.panic = "" /\ OpFits

(* Between system calls f->ref counts the descriptors of all processes     *)
(* that lead to the file, and ip->ref the open files and current           *)
(* directories that lead to the inode: fork(), dup(), close(), exit() and  *)
(* every failing open() or pipe() give back exactly what they took.        *)
RefCounts ==
    /\ \A f \in 1 .. NFILE :
          kernel.file[f].ref = Cardinality({d \in (1 .. NPROC) \X (0 .. NOFILE - 1) :
                                              kernel.proc[d[1]].ofile[d[2]] = f})
    /\ \A s \in 1 .. NINODE :
          kernel.itable[s].ref = Cardinality({f \in 1 .. NFILE : kernel.file[f].ip = s})
                                 + Cardinality({p \in 1 .. NPROC : kernel.proc[p].cwd = s})

(* A page is on the freelist or has one owner: a trapframe, a pipe, a page *)
(* table or a user mapping.  No failing fork(), exec(), sbrk() or page     *)
(* fault leaks a page or maps one that somebody else has.                  *)
UserPtes(pt) == DOMAIN pt.pte \ {VPage(TRAMPOLINE), VPage(TRAPFRAME)}

PagesAccounted ==
    LET tables == Range(kernel.pt)
        frames == {p \in 1 .. NPROC : kernel.proc[p].trapframe # 0}
        owned == {kernel.proc[p].trapframe : p \in frames} \cup DOMAIN kernel.pipe
                 \cup DOMAIN kernel.pt
                 \cup UNION {Range(pt.tab) \cup {pt.pte[v].pa : v \in UserPtes(pt)} :
                             pt \in tables}
        owners == Cardinality(frames) + Cardinality(DOMAIN kernel.pipe)
                  + MapThenSumSet(LAMBDA r : 1 + Cardinality(DOMAIN kernel.pt[r].tab)
                                             + Cardinality(UserPtes(kernel.pt[r])),
                                  DOMAIN kernel.pt)
    IN /\ owned = Pages \ kernel.free
       /\ owners = Cardinality(owned)

(* An end of a pipe is open just while a file leads to it.                 *)
PipeEnds ==
    \A pi \in DOMAIN kernel.pipe :
        LET ends == {f \in 1 .. NFILE : kernel.file[f].pipe = pi}
        IN /\ kernel.pipe[pi].readopen <=> \E f \in ends : kernel.file[f].readable
           /\ kernel.pipe[pi].writeopen <=> \E f \in ends : kernel.file[f].writable

(* References, pages and pipe ends add up across all processes after every *)
(* system call, the failing ones included: nothing leaks, and nothing that *)
(* is still in use is given back.                                          *)
ResourcesAccounted == RefCounts /\ PagesAccounted /\ PipeEnds

-----------------------------------------------------------------------------
(* The file system on the disk *)

(* A block is marked in the bitmap just if one inode has it, in one place. *)
BlocksAccountedOn(disk) ==
    LET used == {i \in Inums : disk.dinode[i].type # ""}
    IN /\ disk.bitmap = UNION {Range(BlocksOf(disk, disk.dinode[i])) : i \in used}
       /\ Cardinality(disk.bitmap) =
             MapThenSumSet(LAMBDA i : Len(BlocksOf(disk, disk.dinode[i])), used)

(* The link count of an inode is the number of directory entries that name *)
(* it, the ones a power failure took away included; a free inode has none. *)
LinkCountsWith(disk, stranded) ==
    \A i \in Inums :
        disk.dinode[i].nlink = Cardinality({e \in Links(disk) \cup stranded : e[3] = i})

Orphans(disk) == {i \in Inums : disk.dinode[i].type # "" /\ disk.dinode[i].nlink = 0}

(* The bitmap and the link counts agree with the tree after every system   *)
(* call, the failing ones included.                                        *)
BlocksAccounted == BlocksAccountedOn(kernel.disk)
LinkCounts == LinkCountsWith(kernel.disk, kernel.stranded)

(* An inode without a name is held by an open file or a current directory: *)
(* the last close frees it, and nothing else may.                          *)
OrphansHeld ==
    kernel.mode \in {"booted", "up"} =>
        \A i \in Orphans(kernel.disk) :
            \E s \in 1 .. NINODE : kernel.itable[s].inum = i /\ kernel.itable[s].ref > 0

(* Between system calls no inode is locked, no inode is in the table       *)
(* twice, and a valid entry is what the disk has: every change of an inode *)
(* was followed by its iupdate().                                          *)
InodesCoherent ==
    \A s \in 1 .. NINODE :
        LET ip == kernel.itable[s]
        IN ip.ref > 0 =>
            /\ ~ip.locked
            /\ \A t \in 1 .. NINODE : kernel.itable[t].ref > 0 /\ kernel.itable[t].inum = ip.inum
                                      => t = s
            /\ ip.valid => kernel.disk.dinode[ip.inum] =
                               [type |-> ip.type, major |-> ip.major, nlink |-> ip.nlink,
                                size |-> ip.size, addrs |-> ip.addrs]

(* The file system on the disk, and the inode table that caches it, are    *)
(* consistent after every system call of every process, also of one that   *)
(* failed half way because blocks, inodes or names ran out.                *)
FileSystemSound ==
    BlocksAccounted /\ LinkCounts /\ OrphansHeld /\ InodesCoherent

(* After a crash anywhere, between two transactions of one system call or  *)
(* in recovery, the file system that fsinit() hands over is consistent and *)
(* every inode in use has a path from the root, with one exception, which  *)
(* stranded describes exactly: a file that was created in a directory      *)
(* after that had been removed keeps its inode, its blocks and its link    *)
(* count, but has lost its name.                                           *)
RecoveredClean ==
    kernel.mode = "recovered" =>
        /\ BlocksAccountedOn(kernel.disk)
        /\ LinkCountsWith(kernel.disk, kernel.stranded)
        /\ {i \in Inums : kernel.disk.dinode[i].type # ""} \subseteq
               Reachable(kernel.disk) \cup {e[3] : e \in kernel.stranded}

(* Every program ends: its processes never all wait for one another, nor   *)
(* trap for ever, whatever the order of their traps.                       *)
Completes == <>Finished
=============================================================================
