---------------------------- MODULE ProcessTable ----------------------------
(***************************************************************************)
(* The process table of the VisionFive 2 kernel,                           *)
(* platform/visionfive2/kernel/proc.c: several harts that run the          *)
(* scheduler, with a lock in every slot and the global wait_lock.          *)
(*                                                                         *)
(* A step is what a hart does between two acquisitions of locks that       *)
(* another hart can hold.  The lock of a slot is held across swtch: it     *)
(* goes from the process to the scheduler of its hart and back.            *)
(*                                                                         *)
(* A pid is not modelled: freeproc sets it to 0 and allocproc to a number  *)
(* not used before, so that kkill(pid) finds the slot that the pid was     *)
(* given to, and kkill(0) one that is UNUSED.                              *)
(***************************************************************************)
EXTENDS Integers, FiniteSets

CONSTANTS
  Slot, NoSlot,      \* proc[NPROC]
  InitProc,          \* initproc
  Hart, NoHart,
  Victim             \* the slots whose pids are passed to kkill

ASSUME ProcessAssumption ==
  /\ InitProc \in Slot /\ NoSlot \notin Slot
  /\ NoHart \notin Hart
  /\ Victim \subseteq Slot

Wait == "wait"       \* the channel of kwait: the address of the sleeper's slot
Other == "other"     \* any other channel

VARIABLES
  state, parent, killed, chan,   \* struct proc
  plock,      \* the hart that has p->lock
  wlock,      \* the hart that has wait_lock
  cpu,        \* c->proc
  ctx,        \* "out": saved by swtch; "in": back in sched(); "run": running
  pc,         \* where the process is in the kernel
  child,      \* np of a kfork under way
  panicked    \* 1 after "init exiting"

vars == <<state, parent, killed, chan, plock, wlock, cpu, ctx, pc, child, panicked>>

State == {"UNUSED", "USED", "SLEEPING", "RUNNABLE", "RUNNING", "ZOMBIE"}
PC == {"user", "kernel", "exit",
       "f_parent", "f_run",
       "x_reparent", "x_wake_init", "x_wake_parent", "x_zombie", "dead",
       "w_lock", "w_scan", "w_go", "w_sleep"}

\* Where a process has no spin lock and so takes interrupts.
Preemptible == {"user", "kernel", "exit", "f_parent", "f_run", "w_lock"}

\* Process p runs on hart h.
On(p, h) == cpu[h] = p /\ ctx[p] = "run" /\ panicked = 0

\* acquire(&p->lock) and acquire(&wait_lock) go on when nobody has the lock.
Unlocked(p) == plock[p] = NoHart

-----------------------------------------------------------------------------
\* userinit has made the first process.
Init ==
  /\ state = [p \in Slot |-> IF p = InitProc THEN "RUNNABLE" ELSE "UNUSED"]
  /\ parent = [p \in Slot |-> NoSlot]
  /\ killed = [p \in Slot |-> 0]
  /\ chan = [p \in Slot |-> NoSlot]
  /\ plock = [p \in Slot |-> NoHart]
  /\ wlock = NoHart
  /\ cpu = [h \in Hart |-> NoSlot]
  /\ ctx = [p \in Slot |-> "out"]
  /\ pc = [p \in Slot |-> IF p = InitProc THEN "user" ELSE "dead"]
  /\ child = [p \in Slot |-> NoSlot]
  /\ panicked = 0

(* scheduler, sched and yield.                                             *)

\* The scheduler found p RUNNABLE and switches to it, with p->lock held.
scheduler(h, p) ==
  /\ cpu[h] = NoSlot /\ panicked = 0
  /\ Unlocked(p) /\ state[p] = "RUNNABLE"
  /\ plock' = [plock EXCEPT ![p] = h]
  /\ state' = [state EXCEPT ![p] = "RUNNING"]
  /\ cpu' = [cpu EXCEPT ![h] = p]
  /\ ctx' = [ctx EXCEPT ![p] = "in"]
  /\ UNCHANGED <<parent, killed, chan, wlock, pc, child, panicked>>

\* The process is back in sched(), from where yield, sleep and forkret go on:
\* they release p->lock, sleep after clearing p->chan.
resume(h, p) ==
  /\ cpu[h] = p /\ ctx[p] = "in" /\ panicked = 0
  /\ chan' = [chan EXCEPT ![p] = NoSlot]
  /\ plock' = [plock EXCEPT ![p] = NoHart]
  /\ ctx' = [ctx EXCEPT ![p] = "run"]
  /\ UNCHANGED <<state, parent, killed, wlock, cpu, pc, child, panicked>>

\* Back in the scheduler: c->proc = 0, release(&p->lock).
switched(h, p) ==
  /\ cpu[h] = p /\ ctx[p] = "out" /\ panicked = 0
  /\ cpu' = [cpu EXCEPT ![h] = NoSlot]
  /\ plock' = [plock EXCEPT ![p] = NoHart]
  /\ UNCHANGED <<state, parent, killed, chan, wlock, ctx, pc, child, panicked>>

\* Mutant of yield: p->lock is not held across swtch.
yield_unlocked(h, p) ==
  /\ On(p, h) /\ pc[p] \in Preemptible
  /\ Unlocked(p)
  /\ state' = [state EXCEPT ![p] = "RUNNABLE"]
  /\ ctx' = [ctx EXCEPT ![p] = "out"]
  /\ UNCHANGED <<parent, killed, chan, plock, wlock, cpu, pc, child, panicked>>

\* A timer interrupt, in user space or in the kernel.
yield(h, p) ==
  /\ On(p, h) /\ pc[p] \in Preemptible
  /\ Unlocked(p)
  /\ plock' = [plock EXCEPT ![p] = h]
  /\ state' = [state EXCEPT ![p] = "RUNNABLE"]
  /\ ctx' = [ctx EXCEPT ![p] = "out"]
  /\ UNCHANGED <<parent, killed, chan, wlock, cpu, pc, child, panicked>>

-----------------------------------------------------------------------------
(* usertrap.  killed(p) is checked when a system call is entered and at    *)
(* the end of every trap; as nothing lies between the end of one trap and  *)
(* the start of the next but user code, the two checks are one here.       *)

\* kexit(-1) or kexit(status): init may not, the others close their files.
GoExit(p) ==
  /\ IF p = InitProc THEN panicked' = 1 /\ UNCHANGED pc
     ELSE pc' = [pc EXCEPT ![p] = "exit"] /\ UNCHANGED panicked
  /\ UNCHANGED <<state, parent, chan, plock, wlock, cpu, ctx, child>>

syscall(h, p) ==
  /\ On(p, h) /\ pc[p] = "user" /\ killed[p] = 0
  /\ pc' = [pc EXCEPT ![p] = "kernel"]
  /\ UNCHANGED <<state, parent, killed, chan, plock, wlock, cpu, ctx, child, panicked>>

\* A call that does nothing here, or that has done its work.
syscall_done(h, p) ==
  /\ On(p, h) /\ pc[p] = "kernel"
  /\ pc' = [pc EXCEPT ![p] = "user"]
  /\ UNCHANGED <<state, parent, killed, chan, plock, wlock, cpu, ctx, child, panicked>>

\* killed(p) holds.
killed_exit(h, p) ==
  /\ On(p, h) /\ pc[p] = "user" /\ killed[p] = 1
  /\ GoExit(p)
  /\ UNCHANGED killed

\* sys_exit.
sys_exit(h, p) ==
  /\ On(p, h) /\ pc[p] = "kernel"
  /\ GoExit(p)
  /\ UNCHANGED killed

\* An unexpected exception: setkilled(p), and killed(p) finds it.
fault(h, p) ==
  /\ On(p, h) /\ pc[p] = "user"
  /\ killed' = [killed EXCEPT ![p] = 1]
  /\ GoExit(p)

-----------------------------------------------------------------------------
(* sleep and wakeup on channels other than kwait's, and kkill.             *)

\* In a system call, or in the fileclose and begin_op of kexit.
sleep(h, p) ==
  /\ On(p, h) /\ pc[p] \in {"kernel", "exit"}
  /\ Unlocked(p)
  /\ plock' = [plock EXCEPT ![p] = h]
  /\ chan' = [chan EXCEPT ![p] = Other]
  /\ state' = [state EXCEPT ![p] = "SLEEPING"]
  /\ ctx' = [ctx EXCEPT ![p] = "out"]
  /\ UNCHANGED <<parent, killed, wlock, cpu, pc, child, panicked>>

\* By another process or by an interrupt.
wakeup(p) ==
  /\ Unlocked(p) /\ state[p] = "SLEEPING" /\ chan[p] = Other /\ panicked = 0
  /\ state' = [state EXCEPT ![p] = "RUNNABLE"]
  /\ UNCHANGED <<parent, killed, chan, plock, wlock, cpu, ctx, pc, child, panicked>>

\* Mutant of kkill: a sleeper is not woken.
kkill_asleep(h, p, q) ==
  /\ On(p, h) /\ pc[p] = "kernel"
  /\ Unlocked(q)
  /\ killed' = [killed EXCEPT ![q] = 1]
  /\ pc' = [pc EXCEPT ![p] = "user"]
  /\ UNCHANGED <<state, parent, chan, plock, wlock, cpu, ctx, child, panicked>>

\* kkill(pid) by p, where q is the slot with that pid.
kkill(h, p, q) ==
  /\ On(p, h) /\ pc[p] = "kernel"
  /\ Unlocked(q)
  /\ killed' = [killed EXCEPT ![q] = 1]
  /\ state' = [state EXCEPT ![q] = IF @ = "SLEEPING" THEN "RUNNABLE" ELSE @]
  /\ pc' = [pc EXCEPT ![p] = "user"]
  /\ UNCHANGED <<parent, chan, plock, wlock, cpu, ctx, child, panicked>>

-----------------------------------------------------------------------------
(* kfork.                                                                  *)

\* allocproc and the copies, up to release(&np->lock).  allocproc leaves
\* p->killed as it is: a kkill(0), which finds a free slot, kills the next child.
kfork(h, p, np) ==
  /\ On(p, h) /\ pc[p] = "kernel"
  /\ Unlocked(np) /\ state[np] = "UNUSED"
  /\ state' = [state EXCEPT ![np] = "USED"]
  /\ pc' = [pc EXCEPT ![p] = "f_parent", ![np] = "user"]
  /\ child' = [child EXCEPT ![p] = np]
  /\ UNCHANGED <<parent, killed, chan, plock, wlock, cpu, ctx, panicked>>

\* allocproc or uvmcopy runs out of memory: freeproc(np), -1.
kfork_fail(h, p, np) ==
  /\ On(p, h) /\ pc[p] = "kernel"
  /\ Unlocked(np) /\ state[np] = "UNUSED"
  /\ killed' = [killed EXCEPT ![np] = 0]
  /\ pc' = [pc EXCEPT ![p] = "user"]
  /\ UNCHANGED <<state, parent, chan, plock, wlock, cpu, ctx, child, panicked>>

\* acquire(&wait_lock); np->parent = p; release(&wait_lock);
fork_parent(h, p) ==
  /\ On(p, h) /\ pc[p] = "f_parent"
  /\ wlock = NoHart
  /\ parent' = [parent EXCEPT ![child[p]] = p]
  /\ pc' = [pc EXCEPT ![p] = "f_run"]
  /\ UNCHANGED <<state, killed, chan, plock, wlock, cpu, ctx, child, panicked>>

\* np->state = RUNNABLE, under its lock.
fork_run(h, p) ==
  /\ On(p, h) /\ pc[p] = "f_run"
  /\ Unlocked(child[p])
  /\ state' = [state EXCEPT ![child[p]] = "RUNNABLE"]
  /\ pc' = [pc EXCEPT ![p] = "user"]
  /\ child' = [child EXCEPT ![p] = NoSlot]
  /\ UNCHANGED <<parent, killed, chan, plock, wlock, cpu, ctx, panicked>>

-----------------------------------------------------------------------------
(* kexit, once the files and the directory are closed.                     *)

exit_lock(h, p) ==
  /\ On(p, h) /\ pc[p] = "exit"
  /\ wlock = NoHart
  /\ wlock' = h
  /\ pc' = [pc EXCEPT ![p] = "x_reparent"]
  /\ UNCHANGED <<state, parent, killed, chan, plock, cpu, ctx, child, panicked>>

Children(p) == {c \in Slot : parent[c] = p}

\* Mutant of reparent: a child that is a ZOMBIE already is left behind.
reparent_live(h, p) ==
  /\ On(p, h) /\ pc[p] = "x_reparent"
  /\ parent' = [c \in Slot |-> IF parent[c] = p /\ state[c] # "ZOMBIE" THEN InitProc ELSE parent[c]]
  /\ pc' = [pc EXCEPT ![p] = IF Children(p) = {} THEN "x_wake_parent" ELSE "x_wake_init"]
  /\ UNCHANGED <<state, killed, chan, plock, wlock, cpu, ctx, child, panicked>>

\* Mutant of reparent: init is not woken.
reparent_silent(h, p) ==
  /\ On(p, h) /\ pc[p] = "x_reparent"
  /\ parent' = [c \in Slot |-> IF parent[c] = p THEN InitProc ELSE parent[c]]
  /\ pc' = [pc EXCEPT ![p] = "x_wake_parent"]
  /\ UNCHANGED <<state, killed, chan, plock, wlock, cpu, ctx, child, panicked>>

\* Every child goes to init; init is woken if there is one.  The loop of
\* reparent alternates the two, but parent is read only under wait_lock and
\* init cannot sleep in kwait without it.
reparent(h, p) ==
  /\ On(p, h) /\ pc[p] = "x_reparent"
  /\ parent' = [c \in Slot |-> IF parent[c] = p THEN InitProc ELSE parent[c]]
  /\ pc' = [pc EXCEPT ![p] = IF Children(p) = {} THEN "x_wake_parent" ELSE "x_wake_init"]
  /\ UNCHANGED <<state, killed, chan, plock, wlock, cpu, ctx, child, panicked>>

\* wakeup(q) of a process that may sleep in kwait, under its lock.
WakeWaiter(q) ==
  /\ Unlocked(q)
  /\ state' = [state EXCEPT ![q] = IF @ = "SLEEPING" /\ chan[q] = Wait THEN "RUNNABLE" ELSE @]

exit_wake_init(h, p) ==
  /\ On(p, h) /\ pc[p] = "x_wake_init"
  /\ WakeWaiter(InitProc)
  /\ pc' = [pc EXCEPT ![p] = "x_wake_parent"]
  /\ UNCHANGED <<parent, killed, chan, plock, wlock, cpu, ctx, child, panicked>>

exit_wake_parent(h, p) ==
  /\ On(p, h) /\ pc[p] = "x_wake_parent"
  /\ WakeWaiter(parent[p])
  /\ pc' = [pc EXCEPT ![p] = "x_zombie"]
  /\ UNCHANGED <<parent, killed, chan, plock, wlock, cpu, ctx, child, panicked>>

\* Mutant of exit_zombie: wait_lock is kept across swtch.
exit_zombie_locked(h, p) ==
  /\ On(p, h) /\ pc[p] = "x_zombie"
  /\ Unlocked(p)
  /\ plock' = [plock EXCEPT ![p] = h]
  /\ state' = [state EXCEPT ![p] = "ZOMBIE"]
  /\ ctx' = [ctx EXCEPT ![p] = "out"]
  /\ pc' = [pc EXCEPT ![p] = "dead"]
  /\ UNCHANGED <<parent, killed, chan, wlock, cpu, child, panicked>>

\* ZOMBIE, under p->lock, which the scheduler releases after swtch.
exit_zombie(h, p) ==
  /\ On(p, h) /\ pc[p] = "x_zombie"
  /\ Unlocked(p)
  /\ plock' = [plock EXCEPT ![p] = h]
  /\ state' = [state EXCEPT ![p] = "ZOMBIE"]
  /\ wlock' = NoHart
  /\ ctx' = [ctx EXCEPT ![p] = "out"]
  /\ pc' = [pc EXCEPT ![p] = "dead"]
  /\ UNCHANGED <<parent, killed, chan, cpu, child, panicked>>

-----------------------------------------------------------------------------
(* kwait.                                                                  *)

\* acquire(&wait_lock), at the start of kwait ...
kwait(h, p) ==
  /\ On(p, h) /\ pc[p] = "kernel"
  /\ pc' = [pc EXCEPT ![p] = "w_lock"]
  /\ UNCHANGED <<state, parent, killed, chan, plock, wlock, cpu, ctx, child, panicked>>

\* ... and at the end of its sleep.
wait_lock(h, p) ==
  /\ On(p, h) /\ pc[p] = "w_lock"
  /\ wlock = NoHart
  /\ wlock' = h
  /\ pc' = [pc EXCEPT ![p] = "w_scan"]
  /\ UNCHANGED <<state, parent, killed, chan, plock, cpu, ctx, child, panicked>>

\* release(&wait_lock); return
WaitReturn(p) ==
  /\ wlock' = NoHart
  /\ pc' = [pc EXCEPT ![p] = "user"]
  /\ UNCHANGED <<plock, cpu, ctx, child, panicked>>

freeproc(c) ==
  /\ state' = [state EXCEPT ![c] = "UNUSED"]
  /\ parent' = [parent EXCEPT ![c] = NoSlot]
  /\ killed' = [killed EXCEPT ![c] = 0]
  /\ chan' = [chan EXCEPT ![c] = NoSlot]

\* Mutant of wait_reap: the child's lock is not acquired.
wait_reap_unlocked(h, p, c) ==
  /\ On(p, h) /\ pc[p] = "w_scan"
  /\ parent[c] = p /\ state[c] = "ZOMBIE"
  /\ freeproc(c)
  /\ WaitReturn(p)

\* Mutant of wait_reap: any child that is not running is taken for a ZOMBIE.
wait_reap_early(h, p, c) ==
  /\ On(p, h) /\ pc[p] = "w_scan"
  /\ parent[c] = p /\ Unlocked(c) /\ state[c] # "RUNNING"
  /\ freeproc(c)
  /\ WaitReturn(p)

\* A ZOMBIE child, with its lock: it is not "still in exit() or swtch()".
wait_reap(h, p, c) ==
  /\ On(p, h) /\ pc[p] = "w_scan"
  /\ parent[c] = p /\ Unlocked(c) /\ state[c] = "ZOMBIE"
  /\ freeproc(c)
  /\ WaitReturn(p)

\* copyout of the status fails and the child stays a ZOMBIE (init passes 0).
wait_bad_address(h, p, c) ==
  /\ On(p, h) /\ pc[p] = "w_scan" /\ p # InitProc
  /\ parent[c] = p /\ Unlocked(c) /\ state[c] = "ZOMBIE"
  /\ WaitReturn(p)
  /\ UNCHANGED <<state, parent, killed, chan>>

\* The scan takes the lock of each child, and so waits for one in swtch(); a
\* child becomes a ZOMBIE only under wait_lock.
NoZombie(p) == \A c \in Children(p) : state[c] # "ZOMBIE"

\* No children, or killed: -1.
wait_none(h, p) ==
  /\ On(p, h) /\ pc[p] = "w_scan"
  /\ NoZombie(p) /\ (Children(p) = {} \/ killed[p] = 1)
  /\ WaitReturn(p)
  /\ UNCHANGED <<state, parent, killed, chan>>

\* killed(p) is 0; p->lock is released again.
wait_go(h, p) ==
  /\ On(p, h) /\ pc[p] = "w_scan"
  /\ NoZombie(p) /\ Children(p) # {} /\ killed[p] = 0
  /\ pc' = [pc EXCEPT ![p] = "w_go"]
  /\ UNCHANGED <<state, parent, killed, chan, plock, wlock, cpu, ctx, child, panicked>>

\* Mutant of wait_sleep: wait_lock is released before p->lock is acquired.
wait_sleep_unlocked(h, p) ==
  /\ On(p, h) /\ pc[p] = "w_go"
  /\ wlock' = NoHart
  /\ pc' = [pc EXCEPT ![p] = "w_sleep"]
  /\ UNCHANGED <<state, parent, killed, chan, plock, cpu, ctx, child, panicked>>

\* sleep(p, &wait_lock): acquire(&p->lock); release(&wait_lock);
wait_sleep(h, p) ==
  /\ On(p, h) /\ pc[p] = "w_go"
  /\ Unlocked(p)
  /\ plock' = [plock EXCEPT ![p] = h]
  /\ wlock' = NoHart
  /\ pc' = [pc EXCEPT ![p] = "w_sleep"]
  /\ UNCHANGED <<state, parent, killed, chan, cpu, ctx, child, panicked>>

\* p->chan = p; p->state = SLEEPING; sched();
wait_sched(h, p) ==
  /\ On(p, h) /\ pc[p] = "w_sleep"
  /\ chan' = [chan EXCEPT ![p] = Wait]
  /\ state' = [state EXCEPT ![p] = "SLEEPING"]
  /\ ctx' = [ctx EXCEPT ![p] = "out"]
  /\ pc' = [pc EXCEPT ![p] = "w_lock"]
  /\ UNCHANGED <<parent, killed, plock, wlock, cpu, child, panicked>>

-----------------------------------------------------------------------------
HartStep(h, p) ==
  \/ scheduler(h, p) \/ resume(h, p) \/ switched(h, p) \/ yield(h, p)
  \/ syscall(h, p) \/ syscall_done(h, p)
  \/ killed_exit(h, p) \/ sys_exit(h, p) \/ fault(h, p) \/ sleep(h, p)
  \/ fork_parent(h, p) \/ fork_run(h, p)
  \/ exit_lock(h, p) \/ reparent(h, p) \/ exit_wake_init(h, p) \/ exit_wake_parent(h, p)
  \/ exit_zombie(h, p)
  \/ kwait(h, p) \/ wait_lock(h, p) \/ wait_none(h, p) \/ wait_go(h, p)
  \/ wait_sleep(h, p) \/ wait_sched(h, p)
  \/ \E q \in Victim : kkill(h, p, q)
  \/ \E q \in Slot : \/ kfork(h, p, q) \/ kfork_fail(h, p, q)
                     \/ wait_reap(h, p, q) \/ wait_bad_address(h, p, q)

\* panic does not return.
Halted == panicked = 1 /\ UNCHANGED vars

Next ==
  \/ \E h \in Hart, p \in Slot : HartStep(h, p)
  \/ \E p \in Slot : wakeup(p)
  \/ Halted

Spec == Init /\ [][Next]_vars

\* The steps that a process takes in fork, exit and wait without a choice.
KernelStep(h, p) ==
  \/ fork_parent(h, p) \/ fork_run(h, p)
  \/ exit_lock(h, p) \/ reparent(h, p) \/ exit_wake_init(h, p) \/ exit_wake_parent(h, p)
  \/ exit_zombie(h, p)
  \/ wait_lock(h, p) \/ wait_none(h, p) \/ wait_go(h, p) \/ wait_sleep(h, p) \/ wait_sched(h, p)
  \/ \E c \in Slot : wait_reap(h, p, c) \/ wait_bad_address(h, p, c)

\* The scan of scheduler comes to every slot again; a timer interrupt that is
\* pending is taken when interrupts are on; and it comes once in a tick, so
\* that a process takes steps between two of them.
Fairness ==
  \A h \in Hart :
    /\ WF_vars(\E p \in Slot : resume(h, p) \/ switched(h, p))
    /\ SF_vars(\E p \in Slot : yield(h, p))
    /\ \A p \in Slot : SF_vars(scheduler(h, p)) /\ SF_vars(KernelStep(h, p))

FairSpec == Spec /\ Fairness

-----------------------------------------------------------------------------
(* Properties.                                                             *)

TypeOK ==
  /\ state \in [Slot -> State]
  /\ parent \in [Slot -> Slot \cup {NoSlot}]
  /\ killed \in [Slot -> {0, 1}]
  /\ chan \in [Slot -> {NoSlot, Wait, Other}]
  /\ plock \in [Slot -> Hart \cup {NoHart}]
  /\ wlock \in Hart \cup {NoHart}
  /\ cpu \in [Hart -> Slot \cup {NoSlot}]
  /\ ctx \in [Slot -> {"out", "in", "run"}]
  /\ pc \in [Slot -> PC]
  /\ child \in [Slot -> Slot \cup {NoSlot}]
  /\ panicked \in {0, 1}

\* No two harts run on the kernel stack of one process, a hart that is
\* switching away from it included (the lock kept across swtch in scheduler).
OneStack == \A g, h \in Hart : cpu[g] # NoSlot /\ cpu[g] = cpu[h] => g = h

\* The slot that kwait frees, with the page table and trap frame of the child,
\* is not in use by the hart on which the child exited.
ReapedOffStack == \A h \in Hart : cpu[h] # NoSlot => state[cpu[h]] \notin {"UNUSED", "USED"}

\* sched does not panic: a hart that switches away from a process has the
\* lock of the process and no other.
SchedLocks ==
  \A h \in Hart, p \in Slot :
    cpu[h] = p /\ ctx[p] = "out" =>
      /\ plock[p] = h /\ wlock # h /\ state[p] # "RUNNING"
      /\ \A q \in Slot \ {p} : plock[q] # h

\* Every process that can still run or has exited, other than init, has a
\* parent, and the parent can still call kwait: nobody stays a ZOMBIE for want
\* of one (reparent runs before the exiting parent is a ZOMBIE itself).
ParentAlive ==
  \A c \in Slot \ {InitProc} :
    state[c] \notin {"UNUSED", "USED"} =>
      /\ parent[c] \in Slot
      /\ state[parent[c]] \notin {"UNUSED", "USED", "ZOMBIE"}

\* A process asleep in kwait has a child that is still running, whose exit will
\* wake it, and no ZOMBIE child, unless it is init and the exit that gave it the
\* child is about to wake it: no wakeup is lost, and none is waited for in vain.
NoLostWait ==
  \A p \in Slot :
    state[p] = "SLEEPING" /\ chan[p] = Wait =>
      \/ /\ NoZombie(p)
         /\ \E c \in Children(p) : state[c] \in {"RUNNABLE", "RUNNING", "SLEEPING"}
      \/ p = InitProc /\ \E q \in Slot : pc[q] = "x_wake_init"

\* A ZOMBIE stays one until its parent reaps it in kwait, and only a ZOMBIE
\* is reaped: each child is reported once, after it has exited.
ReapOnce ==
  [][\A c \in Slot :
       /\ state[c] = "ZOMBIE" /\ state'[c] # "ZOMBIE" =>
            state'[c] = "UNUSED" /\ pc[parent[c]] = "w_scan" /\ pc'[parent[c]] = "user"
       /\ state[c] \in {"RUNNABLE", "RUNNING", "SLEEPING"} => state'[c] \notin {"UNUSED", "USED"}]_vars

\* Hart h has a process, and the next step of that process, or of the scheduler
\* behind it, needs no lock that somebody has.
GoesOn(h) ==
  LET p == cpu[h] IN
  /\ p \in Slot
  /\ \/ ctx[p] # "run"
     \/ pc[p] \in {"user", "kernel", "x_reparent", "w_sleep"}
     \/ pc[p] \in {"exit", "f_parent", "w_lock"} /\ wlock = NoHart
     \/ pc[p] = "f_run" /\ Unlocked(child[p])
     \/ pc[p] = "x_wake_init" /\ Unlocked(InitProc)
     \/ pc[p] = "x_wake_parent" /\ Unlocked(parent[p])
     \/ pc[p] \in {"x_zombie", "w_go"} /\ Unlocked(p)
     \/ pc[p] = "w_scan" /\ \A c \in Children(p) : Unlocked(c)

\* The order of the locks, wait_lock before any p->lock, leaves no deadlock: a
\* hart that has a p->lock waits for no lock, one that has wait_lock waits only
\* for harts that have a p->lock, and so some hart goes on unless all are idle.
NoDeadlock ==
  /\ \A p \in Slot : plock[p] # NoHart => GoesOn(plock[p])
  /\ wlock # NoHart /\ ~ GoesOn(wlock) =>
       \E p \in Slot : plock[p] \notin {NoHart, wlock}
  /\ (\E h \in Hart : cpu[h] # NoSlot) => \E h \in Hart : GoesOn(h)

-----------------------------------------------------------------------------
(* The inductive invariant.                                                *)

\* A hart and the process it has: p->lock passes between the two.
OnCpu ==
  \A h \in Hart, p \in Slot :
    cpu[h] = p =>
      /\ ctx[p] = "out" => plock[p] = h /\ state[p] \in {"RUNNABLE", "SLEEPING", "ZOMBIE"}
      /\ ctx[p] = "in" => plock[p] = h /\ state[p] = "RUNNING"
      /\ ctx[p] = "run" => /\ state[p] = "RUNNING"
                           /\ plock[p] = IF pc[p] = "w_sleep" THEN h ELSE NoHart

\* A process that no hart has.
OffCpu ==
  \A p \in Slot :
    (\A h \in Hart : cpu[h] # p) => ctx[p] = "out" /\ plock[p] = NoHart /\ state[p] # "RUNNING"

\* In exit or wait, between acquire and release of wait_lock.
HasWaitLock(p) ==
  pc[p] \in {"x_reparent", "x_wake_init", "x_wake_parent", "x_zombie", "w_scan", "w_go"}

WaitLock ==
  /\ \A p \in Slot : HasWaitLock(p) => wlock \in Hart /\ cpu[wlock] = p /\ ctx[p] = "run"
  /\ wlock # NoHart => cpu[wlock] \in Slot /\ HasWaitLock(cpu[wlock])

Alive(p) == state[p] \notin {"UNUSED", "USED", "ZOMBIE"}

\* Where a process is, and what its slot says of it.
Lives ==
  \A p \in Slot :
    /\ pc[p] = "dead" <=> state[p] \in {"UNUSED", "ZOMBIE"}
    /\ state[p] = "USED" => pc[p] = "user"
    /\ pc[p] = "w_sleep" => ctx[p] = "run"

\* A child under construction belongs to one fork.
Forking ==
  \A p \in Slot :
    pc[p] \in {"f_parent", "f_run"} =>
      /\ child[p] \in Slot /\ state[child[p]] = "USED"
      /\ pc[p] = "f_run" => parent[child[p]] = p
      /\ \A q \in Slot \ {p} : pc[q] \in {"f_parent", "f_run"} => child[q] # child[p]

Exiting(p) == pc[p] \in {"exit", "x_reparent", "x_wake_init", "x_wake_parent", "x_zombie"}

\* Init lives on, parents are alive, and an exiting process that has given its
\* children away gets no other.
Family ==
  /\ Alive(InitProc) /\ ~ Exiting(InitProc)
  /\ \A c \in Slot : parent[c] # NoSlot => Alive(parent[c])
  /\ \A c \in Slot \ {InitProc} : state[c] \notin {"UNUSED", "USED"} => parent[c] # NoSlot
  /\ \A c \in Slot : parent[c] # NoSlot =>
       pc[parent[c]] \notin {"x_wake_init", "x_wake_parent", "x_zombie"}

Asleep(p) == state[p] = "SLEEPING" /\ chan[p] = Wait

\* From the scan of kwait until it is woken a process has no ZOMBIE child, or
\* is about to be woken; and a child about to be one has woken its parent.
Waits ==
  /\ \A p, c \in Slot : pc[p] = "w_go" /\ parent[c] = p => state[c] # "ZOMBIE"
  /\ \A p, c \in Slot :
       (pc[p] = "w_sleep" \/ Asleep(p)) /\ parent[c] = p /\ state[c] = "ZOMBIE" =>
         p = InitProc /\ \E q \in Slot : pc[q] = "x_wake_init"
  /\ \A q \in Slot : pc[q] = "x_zombie" => ~ Asleep(parent[q]) /\ pc[parent[q]] # "w_sleep"

IInv ==
  /\ TypeOK /\ OneStack /\ OnCpu /\ OffCpu /\ WaitLock /\ Lives
  /\ Forking /\ Family /\ Waits

\* A slot has a parent from the fork that made it until it is reaped, and from
\* the scan of kwait until it is woken a process keeps a child.
Childhood ==
  /\ \A c \in Slot : state[c] = "UNUSED" => parent[c] = NoSlot
  /\ \A p \in Slot : pc[p] = "f_parent" => parent[child[p]] = NoSlot
  /\ \A c \in Slot : state[c] = "USED" /\ parent[c] # NoSlot =>
       pc[parent[c]] = "f_run" /\ child[parent[c]] = c
  /\ \A p \in Slot :
       pc[p] \in {"w_go", "w_sleep"} \/ Asleep(p) => \E c \in Slot : parent[c] = p
  /\ \A p \in Slot : Asleep(p) => pc[p] = "w_lock"

-----------------------------------------------------------------------------
(* Liveness.                                                               *)

\* Init and one of the others, which are alike.
Watched == {InitProc, CHOOSE p \in Slot \ {InitProc} : TRUE}

\* In kwait.
Waiting(p) == pc[p] \in {"w_lock", "w_scan", "w_go", "w_sleep"}

\* kwait returns once a child has exited, and once the caller is killed (which
\* on one hart cannot fall between killed(p) and sleep).
WaitReturns ==
  \A p \in Watched :
    Waiting(p) /\ (~ NoZombie(p) \/ killed[p] = 1) ~> ~ Waiting(p) \/ panicked = 1

\* A process that is killed in kwait leaves kwait ("Wake process from sleep()"
\* in kkill), whatever its children do.
KilledWaiterReturns ==
  \A p \in Watched : Waiting(p) /\ killed[p] = 1 ~> ~ Waiting(p) \/ panicked = 1

=============================================================================
