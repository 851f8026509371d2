------------------------ MODULE ProcessTableProofs ------------------------
(***************************************************************************)
(* Proofs about ProcessTable for any number of slots and harts: kernel     *)
(* stacks are not shared, sched finds the locks it demands, parents are    *)
(* alive, no wakeup of kwait is lost, and every child is reaped once.      *)
(*                                                                         *)
(* IInv is inductive: there is one lemma for each action, or for actions   *)
(* that differ only in the place they go to, and in it one step for each   *)
(* part of IInv.                                                           *)
(***************************************************************************)
EXTENDS ProcessTable, TLAPS

\* A step is left to Zenon unless it names SMT; each may take 30 seconds.
USE ZenonT(30)

\* The places of a process and the states of a slot.
LEMMA Names ==
  /\ {"user", "kernel", "exit", "f_parent", "f_run"} \subseteq PC
  /\ {"w_lock", "w_scan", "w_go", "w_sleep", "dead"} \subseteq PC
  /\ {"x_reparent", "x_wake_init", "x_wake_parent", "x_zombie"} \subseteq PC
  /\ {"UNUSED", "USED", "SLEEPING", "RUNNABLE", "RUNNING", "ZOMBIE"} \subseteq State
BY DEF PC, State

USE ProcessAssumption DEF IInv, TypeOK, On, Unlocked

\* The invariant holds when the first process has been made.
LEMMA Initially == Init => IInv
<1> SUFFICES ASSUME Init PROVE IInv
  OBVIOUS
<1>1. TypeOK
  BY Names DEF Init
<1>2. OneStack /\ OnCpu /\ OffCpu /\ WaitLock
  BY DEF Init, OneStack, OnCpu, OffCpu, WaitLock, HasWaitLock
<1>3. Lives /\ Forking /\ Family
  BY DEF Init, Lives, Forking, Family, Alive, Exiting
<1>4. Waits
  BY DEF Init, Waits, Asleep
<1> QED
  BY <1>1, <1>2, <1>3, <1>4

-----------------------------------------------------------------------------
(* The scheduler.                                                          *)

\* A hart takes a RUNNABLE process, with its lock.
LEMMA Scheduled ==
  ASSUME IInv, NEW h \in Hart, NEW p \in Slot,
         scheduler(h, p)
  PROVE  IInv'
<1>1. TypeOK'
  BY Names DEF scheduler
<1>2. OneStack' /\ OnCpu' /\ OffCpu'
  BY SMTT(30) DEF scheduler, OneStack, OnCpu, OffCpu
<1>3. WaitLock'
  BY SMTT(30) DEF scheduler, WaitLock, HasWaitLock, OneStack, OnCpu, OffCpu
<1>4. Lives'
  BY SMTT(30) DEF scheduler, Lives, OnCpu, OffCpu
<1>5. Forking'
  BY SMTT(30) DEF scheduler, Forking, Lives, OnCpu
<1>6. Family'
  BY SMTT(30) DEF scheduler, Family, Alive, Exiting, Lives, OnCpu
<1>7. Waits'
  BY SMTT(30) DEF scheduler, Waits, Asleep, Family, Alive, OnCpu, Lives
<1> QED
  BY <1>1, <1>2, <1>3, <1>4, <1>5, <1>6, <1>7

\* The process releases its own lock.
LEMMA Resumed ==
  ASSUME IInv, NEW h \in Hart, NEW p \in Slot,
         resume(h, p)
  PROVE  IInv'
<1>1. TypeOK'
  BY Names DEF resume
<1>2. OneStack' /\ OnCpu' /\ OffCpu'
  BY SMTT(30) DEF resume, OneStack, OnCpu, OffCpu, Lives
<1>3. WaitLock'
  BY SMTT(30) DEF resume, WaitLock, HasWaitLock, OneStack, OnCpu, OffCpu
<1>4. Lives'
  BY SMTT(30) DEF resume, Lives, OnCpu, OffCpu
<1>5. Forking'
  BY SMTT(30) DEF resume, Forking, Lives, OnCpu
<1>6. Family'
  BY DEF resume, Family, Alive, Exiting, Lives, OnCpu
<1>7. Waits'
  BY SMTT(30) DEF resume, Waits, Asleep, Family, Alive, OnCpu, Lives, WaitLock, HasWaitLock
<1> QED
  BY <1>1, <1>2, <1>3, <1>4, <1>5, <1>6, <1>7

\* The scheduler releases the lock of the process it had.
LEMMA SwitchedBack ==
  ASSUME IInv, NEW h \in Hart, NEW p \in Slot,
         switched(h, p)
  PROVE  IInv'
<1>1. TypeOK'
  BY Names DEF switched
<1>2. OneStack' /\ OnCpu' /\ OffCpu'
  BY SMTT(30) DEF switched, OneStack, OnCpu, OffCpu
<1>3. WaitLock'
  BY SMTT(30) DEF switched, WaitLock, HasWaitLock, OneStack, OnCpu, OffCpu
<1>4. Lives'
  BY DEF switched, Lives, OnCpu, OffCpu
<1>5. Forking'
  BY SMTT(30) DEF switched, Forking, Lives, OnCpu
<1>6. Family'
  BY DEF switched, Family, Alive, Exiting, Lives, OnCpu
<1>7. Waits'
  BY SMTT(30) DEF switched, Waits, Asleep, Family, Alive, OnCpu, Lives
<1> QED
  BY <1>1, <1>2, <1>3, <1>4, <1>5, <1>6, <1>7

\* The process keeps its lock until the scheduler has it.
LEMMA Yields ==
  ASSUME IInv, NEW h \in Hart, NEW p \in Slot,
         yield(h, p)
  PROVE  IInv'
<1>1. TypeOK'
  BY Names DEF yield, Preemptible
<1>2. OneStack' /\ OnCpu' /\ OffCpu'
  BY SMTT(30) DEF yield, Preemptible, OneStack, OnCpu, OffCpu
<1>3. WaitLock'
  BY SMTT(30) DEF yield, Preemptible, WaitLock, HasWaitLock, OneStack, OnCpu, OffCpu
<1>4. Lives'
  BY SMTT(30) DEF yield, Preemptible, Lives, OnCpu, OffCpu, WaitLock, HasWaitLock
<1>5. Forking'
  BY SMTT(30) DEF yield, Preemptible, Forking, Lives, OnCpu
<1>6. Family'
  BY SMTT(30) DEF yield, Preemptible, Family, Alive, Exiting, Lives, OnCpu
<1>7. Waits'
  BY SMTT(30) DEF yield, Preemptible, Waits, Asleep, Family, Alive, OnCpu, Lives
<1> QED
  BY <1>1, <1>2, <1>3, <1>4, <1>5, <1>6, <1>7

-----------------------------------------------------------------------------
(* Traps, sleep, wakeup and kill.                                          *)

\* Steps that only take a process from one place without locks to another.
LEMMA Moves ==
  ASSUME IInv, NEW h \in Hart, NEW p \in Slot,
         NEW l \in {"user", "kernel", "w_lock", "exit"},
         On(p, h), pc[p] \in {"user", "kernel"},
         l = "exit" => p # InitProc,
         pc' = [pc EXCEPT ![p] = l],
         killed' \in [Slot -> {0, 1}], panicked' \in {0, 1},
         UNCHANGED <<state, parent, chan, plock, wlock, cpu, ctx, child>>
  PROVE  IInv'
<1>1. TypeOK'
  BY Names
<1>2. OneStack' /\ OnCpu' /\ OffCpu'
  BY SMTT(30) DEF OneStack, OnCpu, OffCpu
<1>3. WaitLock'
  BY SMTT(30) DEF WaitLock, HasWaitLock, OneStack, OnCpu, OffCpu
<1>4. Lives'
  BY SMTT(30) DEF Lives, OnCpu, OffCpu
<1>5. Forking'
  BY SMTT(30) DEF Forking, Lives, OnCpu
<1>6. Family'
  BY SMTT(30) DEF Family, Alive, Exiting, Lives, OnCpu
<1>7. Waits'
  BY SMTT(30) DEF Waits, Asleep, Family, Alive, OnCpu, Lives
<1> QED
  BY <1>1, <1>2, <1>3, <1>4, <1>5, <1>6, <1>7

\* A panic leaves everything else as it is.
LEMMA Panics ==
  ASSUME IInv, NEW h \in Hart,
         killed' \in [Slot -> {0, 1}], panicked' \in {0, 1},
         UNCHANGED <<state, parent, chan, plock, wlock, cpu, ctx, child, pc>>
  PROVE  IInv'
<1>1. TypeOK'
  BY Names
<1>2. OneStack' /\ OnCpu' /\ OffCpu'
  BY SMTT(30) DEF OneStack, OnCpu, OffCpu
<1>3. WaitLock'
  BY DEF WaitLock, HasWaitLock, OneStack, OnCpu, OffCpu
<1>4. Lives'
  BY DEF Lives, OnCpu, OffCpu
<1>5. Forking'
  BY SMTT(30) DEF Forking, Lives, OnCpu
<1>6. Family'
  BY DEF Family, Alive, Exiting, Lives, OnCpu
<1>7. Waits'
  BY SMTT(30) DEF Waits, Asleep, Family, Alive, OnCpu, Lives, WaitLock, HasWaitLock
<1> QED
  BY <1>1, <1>2, <1>3, <1>4, <1>5, <1>6, <1>7

\* A sleep on a channel other than that of kwait.
LEMMA Sleeps ==
  ASSUME IInv, NEW h \in Hart, NEW p \in Slot,
         sleep(h, p)
  PROVE  IInv'
<1>1. TypeOK'
  BY Names DEF sleep, Wait, Other
<1>2. OneStack' /\ OnCpu' /\ OffCpu'
  BY SMTT(30) DEF sleep, Wait, Other, OneStack, OnCpu, OffCpu
<1>3. WaitLock'
  BY SMTT(30) DEF sleep, Wait, Other, WaitLock, HasWaitLock, OneStack, OnCpu, OffCpu
<1>4. Lives'
  BY SMTT(30) DEF sleep, Wait, Other, Lives, OnCpu, OffCpu, WaitLock, HasWaitLock
<1>5. Forking'
  BY SMTT(30) DEF sleep, Wait, Other, Forking, Lives, OnCpu
<1>6. Family'
  BY SMTT(30) DEF sleep, Wait, Other, Family, Alive, Exiting, Lives, OnCpu
<1>7. Waits'
  BY SMTT(30) DEF sleep, Wait, Other, Waits, Asleep, Family, Alive, OnCpu, Lives, WaitLock, HasWaitLock
<1> QED
  BY <1>1, <1>2, <1>3, <1>4, <1>5, <1>6, <1>7

\* A wakeup on such a channel.
LEMMA Wakes ==
  ASSUME IInv, NEW p \in Slot,
         wakeup(p)
  PROVE  IInv'
<1>1. TypeOK'
  BY Names DEF wakeup
<1>2. OneStack' /\ OnCpu' /\ OffCpu'
  BY SMTT(30) DEF wakeup, OneStack, OnCpu, OffCpu
<1>3. WaitLock'
  BY DEF wakeup, WaitLock, HasWaitLock, OneStack, OnCpu, OffCpu
<1>4. Lives'
  BY SMTT(30) DEF wakeup, Lives, OnCpu, OffCpu
<1>5. Forking'
  BY SMTT(30) DEF wakeup, Forking, Lives, OnCpu
<1>6. Family'
  BY SMTT(30) DEF wakeup, Family, Alive, Exiting, Lives, OnCpu
<1>7. Waits'
  BY SMTT(30) DEF wakeup, Waits, Asleep, Family, Alive, OnCpu, Lives
<1> QED
  BY <1>1, <1>2, <1>3, <1>4, <1>5, <1>6, <1>7

\* A kill wakes its victim and changes nothing else that matters here.
LEMMA Kills ==
  ASSUME IInv, NEW h \in Hart, NEW p \in Slot, NEW q \in Slot,
         kkill(h, p, q)
  PROVE  IInv'
<1>1. TypeOK'
  BY Names DEF kkill
<1>2. OneStack' /\ OnCpu' /\ OffCpu'
  BY SMTT(30) DEF kkill, OneStack, OnCpu, OffCpu
<1>3. WaitLock'
  BY SMTT(30) DEF kkill, WaitLock, HasWaitLock, OneStack, OnCpu, OffCpu
<1>4. Lives'
  BY SMTT(30) DEF kkill, Lives, OnCpu, OffCpu
<1>5. Forking'
  BY SMTT(30) DEF kkill, Forking, Lives, OnCpu
<1>6. Family'
  BY SMTT(30) DEF kkill, Family, Alive, Exiting, Lives, OnCpu
<1>7. Waits'
  BY SMTT(30) DEF kkill, Waits, Asleep, Family, Alive, OnCpu, Lives, WaitLock, HasWaitLock
<1> QED
  BY <1>1, <1>2, <1>3, <1>4, <1>5, <1>6, <1>7

-----------------------------------------------------------------------------
(* kfork.                                                                  *)

\* A free slot is taken: no hart and no other fork has it.
LEMMA Allocates ==
  ASSUME IInv, NEW h \in Hart, NEW p \in Slot, NEW q \in Slot,
         kfork(h, p, q)
  PROVE  IInv'
<1>1. TypeOK'
  BY Names DEF kfork
<1>2. OneStack' /\ OnCpu' /\ OffCpu'
  BY SMTT(30) DEF kfork, OneStack, OnCpu, OffCpu
<1>3. WaitLock'
  BY SMTT(30) DEF kfork, WaitLock, HasWaitLock, OneStack, OnCpu, OffCpu
<1>4. Lives'
  BY SMTT(30) DEF kfork, Lives, OnCpu, OffCpu
<1>5. Forking'
  BY SMTT(30) DEF kfork, Forking, Lives, OnCpu
<1>6. Family'
  BY SMTT(30) DEF kfork, Family, Alive, Exiting, Lives, OnCpu
<1>7. Waits'
  BY SMTT(30) DEF kfork, Waits, Asleep, Family, Alive, OnCpu, Lives, Exiting
<1> QED
  BY <1>1, <1>2, <1>3, <1>4, <1>5, <1>6, <1>7

\* A fork that fails leaves the slot free.
LEMMA AllocFails ==
  ASSUME IInv, NEW h \in Hart, NEW p \in Slot, NEW q \in Slot,
         kfork_fail(h, p, q)
  PROVE  IInv'
<1>1. TypeOK'
  BY Names DEF kfork_fail
<1>2. OneStack' /\ OnCpu' /\ OffCpu'
  BY SMTT(30) DEF kfork_fail, OneStack, OnCpu, OffCpu
<1>3. WaitLock'
  BY SMTT(30) DEF kfork_fail, WaitLock, HasWaitLock, OneStack, OnCpu, OffCpu
<1>4. Lives'
  BY SMTT(30) DEF kfork_fail, Lives, OnCpu, OffCpu
<1>5. Forking'
  BY SMTT(30) DEF kfork_fail, Forking, Lives, OnCpu
<1>6. Family'
  BY SMTT(30) DEF kfork_fail, Family, Alive, Exiting, Lives, OnCpu
<1>7. Waits'
  BY SMTT(30) DEF kfork_fail, Waits, Asleep, Family, Alive, OnCpu, Lives
<1> QED
  BY <1>1, <1>2, <1>3, <1>4, <1>5, <1>6, <1>7

\* The child gets its parent, which is alive.
LEMMA GetsParent ==
  ASSUME IInv, NEW h \in Hart, NEW p \in Slot,
         fork_parent(h, p)
  PROVE  IInv'
<1>1. TypeOK'
  BY Names DEF fork_parent
<1>2. OneStack' /\ OnCpu' /\ OffCpu'
  BY SMTT(30) DEF fork_parent, OneStack, OnCpu, OffCpu
<1>3. WaitLock'
  BY SMTT(30) DEF fork_parent, WaitLock, HasWaitLock, OneStack, OnCpu, OffCpu
<1>4. Lives'
  BY SMTT(30) DEF fork_parent, Lives, OnCpu, OffCpu
<1>5. Forking'
  BY SMTT(30) DEF fork_parent, Forking, Lives, OnCpu
<1>6. Family'
  BY SMTT(30) DEF fork_parent, Family, Alive, Exiting, Lives, OnCpu, Forking, WaitLock, HasWaitLock
<1>7. Waits'
  BY SMTT(30) DEF fork_parent, Waits, Asleep, Family, Alive, OnCpu, Lives, Forking
<1> QED
  BY <1>1, <1>2, <1>3, <1>4, <1>5, <1>6, <1>7

\* The child becomes RUNNABLE.
LEMMA Published ==
  ASSUME IInv, NEW h \in Hart, NEW p \in Slot,
         fork_run(h, p)
  PROVE  IInv'
<1>1. TypeOK'
  BY Names DEF fork_run
<1>2. OneStack' /\ OnCpu' /\ OffCpu'
  BY SMTT(30) DEF fork_run, OneStack, OnCpu, OffCpu, Forking, Lives
<1>3. WaitLock'
  BY SMTT(30) DEF fork_run, WaitLock, HasWaitLock, OneStack, OnCpu, OffCpu
<1>4. Lives'
  BY SMTT(30) DEF fork_run, Lives, OnCpu, OffCpu, Forking
<1>5. Forking'
  BY SMTT(30) DEF fork_run, Forking, Lives, OnCpu
<1>6. Family'
  BY SMTT(30) DEF fork_run, Family, Alive, Exiting, Lives, OnCpu, Forking
<1>7. Waits'
  BY SMTT(30) DEF fork_run, Waits, Asleep, Family, Alive, OnCpu, Lives, Forking
<1> QED
  BY <1>1, <1>2, <1>3, <1>4, <1>5, <1>6, <1>7

-----------------------------------------------------------------------------
(* kexit.                                                                  *)

\* kexit takes wait_lock.
LEMMA ExitLocks ==
  ASSUME IInv, NEW h \in Hart, NEW p \in Slot,
         exit_lock(h, p)
  PROVE  IInv'
<1>1. TypeOK'
  BY Names DEF exit_lock
<1>2. OneStack' /\ OnCpu' /\ OffCpu'
  BY SMTT(30) DEF exit_lock, OneStack, OnCpu, OffCpu
<1>3. WaitLock'
  BY SMTT(30) DEF exit_lock, WaitLock, HasWaitLock, OneStack, OnCpu, OffCpu
<1>4. Lives'
  BY SMTT(30) DEF exit_lock, Lives, OnCpu, OffCpu
<1>5. Forking'
  BY SMTT(30) DEF exit_lock, Forking, Lives, OnCpu
<1>6. Family'
  BY SMTT(30) DEF exit_lock, Family, Alive, Exiting, Lives, OnCpu
<1>7. Waits'
  BY SMTT(30) DEF exit_lock, Waits, Asleep, Family, Alive, OnCpu, Lives
<1> QED
  BY <1>1, <1>2, <1>3, <1>4, <1>5, <1>6, <1>7

\* The children go to init, which is about to be woken.
LEMMA Reparents ==
  ASSUME IInv, NEW h \in Hart, NEW p \in Slot,
         reparent(h, p)
  PROVE  IInv'
<1>1. TypeOK'
  BY Names DEF reparent, Children
<1>2. OneStack' /\ OnCpu' /\ OffCpu'
  BY SMTT(30) DEF reparent, Children, OneStack, OnCpu, OffCpu
<1>3. WaitLock'
  BY SMTT(30) DEF reparent, Children, WaitLock, HasWaitLock, OneStack, OnCpu, OffCpu
<1>4. Lives'
  BY SMTT(30) DEF reparent, Children, Lives, OnCpu, OffCpu
<1>5. Forking'
  BY SMTT(30) DEF reparent, Children, Forking, Lives, OnCpu
<1>6. Family'
  BY SMTT(30) DEF reparent, Children, Family, Alive, Exiting, Lives, OnCpu, WaitLock, HasWaitLock
<1>7. Waits'
  BY SMTT(30) DEF reparent, Children, Waits, Asleep, Family, Alive, OnCpu, Lives, WaitLock, HasWaitLock, Exiting
<1> QED
  BY <1>1, <1>2, <1>3, <1>4, <1>5, <1>6, <1>7

\* Init is woken: it cannot be between its scan and its sleep.
LEMMA WakesInit ==
  ASSUME IInv, NEW h \in Hart, NEW p \in Slot,
         exit_wake_init(h, p)
  PROVE  IInv'
<1>1. TypeOK'
  BY Names DEF exit_wake_init, WakeWaiter
<1>2. OneStack' /\ OnCpu' /\ OffCpu'
  BY SMTT(30) DEF exit_wake_init, WakeWaiter, OneStack, OnCpu, OffCpu
<1>3. WaitLock'
  BY SMTT(30) DEF exit_wake_init, WakeWaiter, WaitLock, HasWaitLock, OneStack, OnCpu, OffCpu
<1>4. Lives'
  BY SMTT(30) DEF exit_wake_init, WakeWaiter, Lives, OnCpu, OffCpu
<1>5. Forking'
  BY SMTT(30) DEF exit_wake_init, WakeWaiter, Forking, Lives, OnCpu
<1>6. Family'
  BY SMTT(30) DEF exit_wake_init, WakeWaiter, Family, Alive, Exiting, Lives, OnCpu, WaitLock, HasWaitLock
<1>7. Waits'
  BY SMTT(30) DEF exit_wake_init, WakeWaiter, Waits, Asleep, Family, Alive, OnCpu, Lives, WaitLock, HasWaitLock, OffCpu, OneStack
<1> QED
  BY <1>1, <1>2, <1>3, <1>4, <1>5, <1>6, <1>7

\* The parent is woken: it cannot be between its scan and its sleep.
LEMMA WakesParent ==
  ASSUME IInv, NEW h \in Hart, NEW p \in Slot,
         exit_wake_parent(h, p)
  PROVE  IInv'
<1>1. TypeOK'
  BY Names DEF exit_wake_parent, WakeWaiter
<1>2. OneStack' /\ OnCpu' /\ OffCpu'
  BY SMTT(30) DEF exit_wake_parent, WakeWaiter, OneStack, OnCpu, OffCpu
<1>3. WaitLock'
  BY SMTT(30) DEF exit_wake_parent, WakeWaiter, WaitLock, HasWaitLock, OneStack, OnCpu, OffCpu
<1>4. Lives'
  BY SMTT(30) DEF exit_wake_parent, WakeWaiter, Lives, OnCpu, OffCpu
<1>5. Forking'
  BY SMTT(30) DEF exit_wake_parent, WakeWaiter, Forking, Lives, OnCpu
<1>6. Family'
  BY SMTT(30) DEF exit_wake_parent, WakeWaiter, Family, Alive, Exiting, Lives, OnCpu, WaitLock, HasWaitLock
<1>7. Waits'
  BY SMTT(30) DEF exit_wake_parent, WakeWaiter, Waits, Asleep, Family, Alive, OnCpu, Lives, Exiting, WaitLock, HasWaitLock, OffCpu, OneStack
<1> QED
  BY <1>1, <1>2, <1>3, <1>4, <1>5, <1>6, <1>7

\* The process is a ZOMBIE only after it has woken its parent.
LEMMA BecomesZombie ==
  ASSUME IInv, NEW h \in Hart, NEW p \in Slot,
         exit_zombie(h, p)
  PROVE  IInv'
<1>1. TypeOK'
  BY Names DEF exit_zombie
<1>2. OneStack' /\ OnCpu' /\ OffCpu'
  BY SMTT(30) DEF exit_zombie, OneStack, OnCpu, OffCpu
<1>3. WaitLock'
  BY SMTT(30) DEF exit_zombie, WaitLock, HasWaitLock, OneStack, OnCpu, OffCpu
<1>4. Lives'
  BY SMTT(30) DEF exit_zombie, Lives, OnCpu, OffCpu
<1>5. Forking'
  BY SMTT(30) DEF exit_zombie, Forking, Lives, OnCpu
<1>6. Family'
  BY SMTT(30) DEF exit_zombie, Family, Alive, Exiting, Lives, OnCpu, WaitLock, HasWaitLock
<1>7. Waits'
  BY SMTT(30) DEF exit_zombie, Waits, Asleep, Family, Alive, OnCpu, Lives, WaitLock, HasWaitLock, OneStack
<1> QED
  BY <1>1, <1>2, <1>3, <1>4, <1>5, <1>6, <1>7

-----------------------------------------------------------------------------
(* kwait.                                                                  *)

\* kwait takes wait_lock.
LEMMA WaitLocks ==
  ASSUME IInv, NEW h \in Hart, NEW p \in Slot,
         wait_lock(h, p)
  PROVE  IInv'
<1>1. TypeOK'
  BY Names DEF wait_lock
<1>2. OneStack' /\ OnCpu' /\ OffCpu'
  BY SMTT(30) DEF wait_lock, OneStack, OnCpu, OffCpu
<1>3. WaitLock'
  BY SMTT(30) DEF wait_lock, WaitLock, HasWaitLock, OneStack, OnCpu, OffCpu
<1>4. Lives'
  BY SMTT(30) DEF wait_lock, Lives, OnCpu, OffCpu
<1>5. Forking'
  BY SMTT(30) DEF wait_lock, Forking, Lives, OnCpu
<1>6. Family'
  BY SMTT(30) DEF wait_lock, Family, Alive, Exiting, Lives, OnCpu
<1>7. Waits'
  BY SMTT(30) DEF wait_lock, Waits, Asleep, Family, Alive, OnCpu, Lives, WaitLock, HasWaitLock
<1> QED
  BY <1>1, <1>2, <1>3, <1>4, <1>5, <1>6, <1>7

\* A ZOMBIE that no hart has is freed.
LEMMA Reaps ==
  ASSUME IInv, NEW h \in Hart, NEW p \in Slot, NEW q \in Slot,
         wait_reap(h, p, q)
  PROVE  IInv'
<1>1. TypeOK'
  BY Names DEF wait_reap, freeproc, WaitReturn
<1>2. OneStack' /\ OnCpu' /\ OffCpu'
  BY SMTT(30) DEF wait_reap, freeproc, WaitReturn, OneStack, OnCpu, OffCpu
<1>3. WaitLock'
  BY SMTT(30) DEF wait_reap, freeproc, WaitReturn, WaitLock, HasWaitLock, OneStack, OnCpu, OffCpu
<1>4. Lives'
  BY SMTT(30) DEF wait_reap, freeproc, WaitReturn, Lives, OnCpu, OffCpu
<1>5. Forking'
  BY SMTT(30) DEF wait_reap, freeproc, WaitReturn, Forking, Lives, OnCpu
<1>6. Family'
  BY SMTT(30) DEF wait_reap, freeproc, WaitReturn, Family, Alive, Exiting, Lives, OnCpu, WaitLock, HasWaitLock
<1>7. Waits'
  BY SMTT(30) DEF wait_reap, freeproc, WaitReturn, Waits, Asleep, Family, Alive, OnCpu, Lives, WaitLock, HasWaitLock
<1> QED
  BY <1>1, <1>2, <1>3, <1>4, <1>5, <1>6, <1>7

\* kwait returns -1.
LEMMA WaitLeaves ==
  ASSUME IInv, NEW h \in Hart, NEW p \in Slot,
         On(p, h), pc[p] = "w_scan", WaitReturn(p),
         UNCHANGED <<state, parent, killed, chan>>
  PROVE  IInv'
<1>1. TypeOK'
  BY Names DEF WaitReturn
<1>2. OneStack' /\ OnCpu' /\ OffCpu'
  BY SMTT(30) DEF WaitReturn, OneStack, OnCpu, OffCpu
<1>3. WaitLock'
  BY SMTT(30) DEF WaitReturn, WaitLock, HasWaitLock, OneStack, OnCpu, OffCpu
<1>4. Lives'
  BY SMTT(30) DEF WaitReturn, Lives, OnCpu, OffCpu
<1>5. Forking'
  BY SMTT(30) DEF WaitReturn, Forking, Lives, OnCpu
<1>6. Family'
  BY SMTT(30) DEF WaitReturn, Family, Alive, Exiting, Lives, OnCpu
<1>7. Waits'
  BY SMTT(30) DEF WaitReturn, Waits, Asleep, Family, Alive, OnCpu, Lives, WaitLock, HasWaitLock
<1> QED
  BY <1>1, <1>2, <1>3, <1>4, <1>5, <1>6, <1>7

\* The scan has found no ZOMBIE.
LEMMA WaitChecked ==
  ASSUME IInv, NEW h \in Hart, NEW p \in Slot,
         wait_go(h, p)
  PROVE  IInv'
<1>1. TypeOK'
  BY Names DEF wait_go, NoZombie, Children
<1>2. OneStack' /\ OnCpu' /\ OffCpu'
  BY SMTT(30) DEF wait_go, NoZombie, Children, OneStack, OnCpu, OffCpu
<1>3. WaitLock'
  BY SMTT(30) DEF wait_go, NoZombie, Children, WaitLock, HasWaitLock, OneStack, OnCpu, OffCpu
<1>4. Lives'
  BY SMTT(30) DEF wait_go, NoZombie, Children, Lives, OnCpu, OffCpu
<1>5. Forking'
  BY SMTT(30) DEF wait_go, NoZombie, Children, Forking, Lives, OnCpu
<1>6. Family'
  BY SMTT(30) DEF wait_go, NoZombie, Children, Family, Alive, Exiting, Lives, OnCpu
<1>7. Waits'
  BY SMTT(30) DEF wait_go, NoZombie, Children, Waits, Asleep, Family, Alive, OnCpu, Lives, WaitLock, HasWaitLock
<1> QED
  BY <1>1, <1>2, <1>3, <1>4, <1>5, <1>6, <1>7

\* p->lock is held when wait_lock is released.
LEMMA WaitReleases ==
  ASSUME IInv, NEW h \in Hart, NEW p \in Slot,
         wait_sleep(h, p)
  PROVE  IInv'
<1>1. TypeOK'
  BY Names DEF wait_sleep
<1>2. OneStack' /\ OnCpu' /\ OffCpu'
  BY SMTT(30) DEF wait_sleep, OneStack, OnCpu, OffCpu, WaitLock, HasWaitLock
<1>3. WaitLock'
  BY SMTT(30) DEF wait_sleep, WaitLock, HasWaitLock, OneStack, OnCpu, OffCpu
<1>4. Lives'
  BY SMTT(30) DEF wait_sleep, Lives, OnCpu, OffCpu, WaitLock, HasWaitLock
<1>5. Forking'
  BY SMTT(30) DEF wait_sleep, Forking, Lives, OnCpu
<1>6. Family'
  BY SMTT(30) DEF wait_sleep, Family, Alive, Exiting, Lives, OnCpu
<1>7. Waits'
  BY SMTT(30) DEF wait_sleep, Waits, Asleep, Family, Alive, OnCpu, Lives, WaitLock, HasWaitLock
<1> QED
  BY <1>1, <1>2, <1>3, <1>4, <1>5, <1>6, <1>7

\* The process is SLEEPING when its lock is released.
LEMMA WaitSleeps ==
  ASSUME IInv, NEW h \in Hart, NEW p \in Slot,
         wait_sched(h, p)
  PROVE  IInv'
<1>1. TypeOK'
  BY Names DEF wait_sched
<1>2. OneStack' /\ OnCpu' /\ OffCpu'
  BY SMTT(30) DEF wait_sched, OneStack, OnCpu, OffCpu
<1>3. WaitLock'
  BY SMTT(30) DEF wait_sched, WaitLock, HasWaitLock, OneStack, OnCpu, OffCpu
<1>4. Lives'
  BY SMTT(30) DEF wait_sched, Lives, OnCpu, OffCpu
<1>5. Forking'
  BY SMTT(30) DEF wait_sched, Forking, Lives, OnCpu
<1>6. Family'
  BY SMTT(30) DEF wait_sched, Family, Alive, Exiting, Lives, OnCpu
<1>7. Waits'
  BY SMTT(30) DEF wait_sched, Waits, Asleep, Family, Alive, OnCpu, Lives, WaitLock, HasWaitLock
<1> QED
  BY <1>1, <1>2, <1>3, <1>4, <1>5, <1>6, <1>7

-----------------------------------------------------------------------------
(* The theorems.                                                           *)

\* Every step of a hart keeps the invariant.
LEMMA HartSteps ==
  ASSUME IInv, NEW h \in Hart, NEW p \in Slot, HartStep(h, p)
  PROVE  IInv'
<1> HIDE DEF IInv, On
<1>1. CASE scheduler(h, p) \/ resume(h, p) \/ switched(h, p) \/ yield(h, p)
  BY <1>1, Scheduled, Resumed, SwitchedBack, Yields
<1>2. CASE syscall(h, p) \/ syscall_done(h, p) \/ kwait(h, p)
  <2>1. /\ On(p, h) /\ pc[p] \in {"user", "kernel"}
        /\ killed' \in [Slot -> {0, 1}] /\ panicked' \in {0, 1}
        /\ UNCHANGED <<state, parent, chan, plock, wlock, cpu, ctx, child>>
    BY <1>2 DEF syscall, syscall_done, kwait, IInv
  <2>2. CASE pc' = [pc EXCEPT ![p] = "kernel"]
    BY <2>1, <2>2, Moves
  <2>3. CASE pc' = [pc EXCEPT ![p] = "user"]
    BY <2>1, <2>3, Moves
  <2>4. CASE pc' = [pc EXCEPT ![p] = "w_lock"]
    BY <2>1, <2>4, Moves
  <2> QED
    BY <1>2, <2>2, <2>3, <2>4 DEF syscall, syscall_done, kwait
<1>3. CASE killed_exit(h, p) \/ sys_exit(h, p) \/ fault(h, p)
  <2>1. /\ On(p, h) /\ pc[p] \in {"user", "kernel"} /\ GoExit(p)
        /\ killed' \in [Slot -> {0, 1}]
    BY <1>3 DEF killed_exit, sys_exit, fault, IInv
  <2>2. UNCHANGED <<state, parent, chan, plock, wlock, cpu, ctx, child>> /\ panicked' \in {0, 1}
    BY <2>1 DEF GoExit, IInv
  <2>3. CASE p = InitProc
    BY <2>1, <2>2, <2>3, Panics DEF GoExit
  <2>4. CASE p # InitProc
    BY <2>1, <2>2, <2>4, Moves DEF GoExit
  <2> QED
    BY <2>3, <2>4
<1>4. CASE sleep(h, p) \/ fork_parent(h, p) \/ fork_run(h, p)
  BY <1>4, Sleeps, GetsParent, Published
<1>5. CASE \E q \in Victim : kkill(h, p, q)
  BY <1>5, Kills
<1>6. CASE \E q \in Slot : kfork(h, p, q) \/ kfork_fail(h, p, q) \/ wait_reap(h, p, q)
  BY <1>6, Allocates, AllocFails, Reaps
<1>7. CASE exit_lock(h, p) \/ reparent(h, p) \/ exit_wake_init(h, p) \/ exit_wake_parent(h, p)
           \/ exit_zombie(h, p)
  BY <1>7, ExitLocks, Reparents, WakesInit, WakesParent, BecomesZombie
<1>8. CASE wait_none(h, p) \/ \E c \in Slot : wait_bad_address(h, p, c)
  BY <1>8, WaitLeaves DEF wait_none, wait_bad_address
<1>9. CASE wait_lock(h, p) \/ wait_go(h, p) \/ wait_sleep(h, p) \/ wait_sched(h, p)
  BY <1>9, WaitLocks, WaitChecked, WaitReleases, WaitSleeps
<1> QED
  BY <1>1, <1>2, <1>3, <1>4, <1>5, <1>6, <1>7, <1>8, <1>9 DEF HartStep

\* A step that changes nothing keeps the invariant.
LEMMA Stutters ==
  ASSUME IInv, UNCHANGED vars
  PROVE  IInv'
<1> USE DEF vars
<1>1. TypeOK' /\ OneStack' /\ OnCpu' /\ OffCpu'
  BY SMTT(30) DEF OneStack, OnCpu, OffCpu
<1>2. WaitLock' /\ Lives' /\ Forking'
  BY SMTT(30) DEF WaitLock, HasWaitLock, Lives, Forking
<1>3. Family' /\ Waits'
  BY SMTT(30) DEF Family, Alive, Exiting, Waits, Asleep
<1> QED
  BY <1>1, <1>2, <1>3

\* The process table keeps IInv.
THEOREM InvariantHolds == Spec => []IInv
<1>1. IInv /\ [Next]_vars => IInv'
  BY HartSteps, Wakes, Stutters DEF Next, Halted
<1> QED
  BY Initially, <1>1, PTL DEF Spec

\* The state of the process table has its type.
THEOREM TypeCorrect == Spec => []TypeOK
<1>1. IInv => TypeOK
  OBVIOUS
<1> QED
  BY <1>1, InvariantHolds, PTL

\* No two harts are on one kernel stack, a hart in swtch included.
THEOREM StacksNotShared == Spec => []OneStack
<1>1. IInv => OneStack
  OBVIOUS
<1> QED
  BY <1>1, InvariantHolds, PTL

\* A slot is freed only when no hart is on its stack.
THEOREM FreedOffStack == Spec => []ReapedOffStack
<1>1. IInv => ReapedOffStack
  BY SMTT(30) DEF ReapedOffStack, OnCpu
<1> QED
  BY <1>1, InvariantHolds, PTL

\* sched is called with the lock of the process and no other.
THEOREM SchedNeverPanics == Spec => []SchedLocks
<1>1. ASSUME IInv, NEW h \in Hart, NEW p \in Slot, cpu[h] = p, ctx[p] = "out"
      PROVE  /\ plock[p] = h /\ wlock # h /\ state[p] # "RUNNING"
             /\ \A q \in Slot \ {p} : plock[q] # h
  <2>1. plock[p] = h /\ state[p] # "RUNNING"
    BY <1>1 DEF OnCpu
  <2>2. wlock # h
    BY <1>1 DEF WaitLock
  <2>3. ASSUME NEW q \in Slot \ {p} PROVE plock[q] # h
    BY <1>1, <2>3, SMTT(30) DEF OnCpu, OffCpu
  <2> QED
    BY <2>1, <2>2, <2>3
<1>2. IInv => SchedLocks
  BY <1>1 DEF SchedLocks
<1> QED
  BY <1>2, InvariantHolds, PTL

\* Every process but init has a parent that can reap it.
THEOREM ParentsAlive == Spec => []ParentAlive
<1>1. IInv => ParentAlive
  BY DEF ParentAlive, Family, Alive
<1> QED
  BY <1>1, InvariantHolds, PTL

\* A step of a hart leaves the children of a process that sleeps in kwait, or is
\* about to, and gives a slot a parent only in the fork that made it.
LEMMA KeepsChild ==
  ASSUME IInv, Childhood, NEW h \in Hart, NEW p \in Slot, HartStep(h, p)
  PROVE  Childhood'
<1> USE DEF Childhood, Asleep, OnCpu
<1>1. CASE scheduler(h, p) \/ resume(h, p) \/ switched(h, p) \/ yield(h, p)
  BY <1>1, SMTT(30) DEF scheduler, resume, switched, yield
<1>2. CASE syscall(h, p) \/ syscall_done(h, p) \/ kwait(h, p)
  BY <1>2, SMTT(30) DEF syscall, syscall_done, kwait
<1>3. CASE killed_exit(h, p) \/ sys_exit(h, p) \/ fault(h, p)
  BY <1>3, SMTT(30) DEF killed_exit, sys_exit, fault, GoExit
<1>4. CASE sleep(h, p) \/ \E q \in Victim : kkill(h, p, q)
  <2>1. CASE sleep(h, p)
    BY <2>1, SMTT(30) DEF sleep, Wait, Other
  <2>2. ASSUME NEW q \in Slot, kkill(h, p, q) PROVE Childhood'
    BY <2>2, SMTT(30) DEF kkill
  <2> QED
    BY <1>4, <2>1, <2>2
<1>5. CASE \E q \in Slot : kfork(h, p, q) \/ kfork_fail(h, p, q)
  <2>1. PICK q \in Slot : kfork(h, p, q) \/ kfork_fail(h, p, q)
    BY <1>5
  <2>2. CASE kfork(h, p, q)
    BY <2>2, SMTT(30) DEF kfork, Forking, Lives
  <2>3. CASE kfork_fail(h, p, q)
    BY <2>3, SMTT(30) DEF kfork_fail
  <2> QED
    BY <2>1, <2>2, <2>3
<1>6. CASE fork_parent(h, p)
  BY <1>6, SMTT(30) DEF fork_parent, Forking
<1>7. CASE fork_run(h, p)
  BY <1>7, SMTT(30) DEF fork_run, Forking
<1>8. CASE exit_lock(h, p) \/ exit_wake_init(h, p) \/ exit_wake_parent(h, p)
  BY <1>8, SMTT(30) DEF exit_lock, exit_wake_init, exit_wake_parent, WakeWaiter
<1>9. CASE reparent(h, p)
  <2>1. /\ state[p] = "RUNNING" /\ pc[p] = "x_reparent"
        /\ pc'[p] \in {"x_wake_parent", "x_wake_init"}
        /\ \A q \in Slot \ {p} : pc'[q] = pc[q]
        /\ UNCHANGED <<state, chan, child>>
    BY <1>9, SMTT(30) DEF reparent
  <2>2. \A c \in Slot : parent'[c] = IF parent[c] = p THEN InitProc ELSE parent[c]
    BY <1>9 DEF reparent
  <2>3. ASSUME NEW c \in Slot
        PROVE  /\ state'[c] = "UNUSED" => parent'[c] = NoSlot
               /\ state'[c] = "USED" /\ parent'[c] # NoSlot =>
                    pc'[parent'[c]] = "f_run" /\ child'[parent'[c]] = c
    BY <2>1, <2>2, SMTT(30)
  <2>4. ASSUME NEW q \in Slot, pc'[q] = "f_parent" PROVE parent'[child'[q]] = NoSlot
    BY <2>1, <2>2, <2>4, SMTT(30) DEF Forking
  <2>5. ASSUME NEW q \in Slot, pc'[q] \in {"w_go", "w_sleep"} \/ Asleep(q)'
        PROVE  \E c \in Slot : parent'[c] = q
    <3>1. q # p /\ (pc[q] \in {"w_go", "w_sleep"} \/ Asleep(q))
      BY <2>1, <2>5, SMTT(30)
    <3>2. PICK c \in Slot : parent[c] = q
      BY <3>1
    <3> QED
      BY <2>2, <3>1, <3>2
  <2>6. ASSUME NEW q \in Slot, Asleep(q)' PROVE pc'[q] = "w_lock"
    BY <2>1, <2>6, SMTT(30)
  <2> QED
    BY <2>3, <2>4, <2>5, <2>6
<1>10. CASE exit_zombie(h, p)
  BY <1>10, SMTT(30) DEF exit_zombie
<1>11. CASE \E c \in Slot : wait_reap(h, p, c) \/ wait_bad_address(h, p, c)
  <2>1. PICK c \in Slot : wait_reap(h, p, c) \/ wait_bad_address(h, p, c)
    BY <1>11
  <2>2. CASE wait_reap(h, p, c)
    BY <2>2, SMTT(30) DEF wait_reap, freeproc, WaitReturn, Forking
  <2>3. CASE wait_bad_address(h, p, c)
    BY <2>3, SMTT(30) DEF wait_bad_address, WaitReturn
  <2> QED
    BY <2>1, <2>2, <2>3
<1>12. CASE wait_lock(h, p) \/ wait_none(h, p)
  BY <1>12, SMTT(30) DEF wait_lock, wait_none, WaitReturn
<1>13. CASE wait_go(h, p)
  BY <1>13, SMTT(30) DEF wait_go, Children
<1>14. CASE wait_sleep(h, p) \/ wait_sched(h, p)
  BY <1>14, SMTT(30) DEF wait_sleep, wait_sched
<1> QED
  BY <1>1, <1>2, <1>3, <1>4, <1>5, <1>6, <1>7, <1>8, <1>9, <1>10, <1>11, <1>12, <1>13, <1>14
     DEF HartStep

\* A process asleep in kwait has a child whose exit will wake it, and no ZOMBIE,
\* but for init about to be woken.
THEOREM WakeupsNotLost == Spec => []NoLostWait
<1>1. ASSUME IInv, Childhood PROVE NoLostWait
  <2> SUFFICES ASSUME NEW p \in Slot, Asleep(p),
                      ~(p = InitProc /\ \E q \in Slot : pc[q] = "x_wake_init")
               PROVE  /\ NoZombie(p)
                      /\ \E c \in Children(p) : state[c] \in {"RUNNABLE", "RUNNING", "SLEEPING"}
    BY DEF NoLostWait, Asleep
  <2>1. \A c \in Children(p) : state[c] # "ZOMBIE"
    BY <1>1 DEF Waits, Children
  <2>2. PICK c \in Slot : parent[c] = p
    BY <1>1 DEF Childhood
  <2>3. pc[p] = "w_lock"
    BY <1>1 DEF Childhood
  <2>4. state[c] # "UNUSED" /\ state[c] # "USED"
    BY <1>1, <2>2, <2>3, SMTT(30) DEF Childhood
  <2>5. c \in Children(p) /\ state[c] \in {"RUNNABLE", "RUNNING", "SLEEPING"}
    BY <1>1, <2>1, <2>2, <2>4 DEF Children, State
  <2> QED
    BY <2>1, <2>5 DEF NoZombie
<1>2. IInv /\ Childhood => NoLostWait
  BY <1>1
<1>3. Init => Childhood
  BY DEF Init, Childhood, Asleep
<1>4. ASSUME IInv, Childhood, NEW p \in Slot, wakeup(p) PROVE Childhood'
  BY <1>4, SMTT(30) DEF wakeup, Childhood, Asleep
<1>5. ASSUME Childhood, UNCHANGED vars PROVE Childhood'
  BY <1>5, SMTT(30) DEF vars, Childhood, Asleep
<1>6. IInv /\ Childhood /\ [Next]_vars => Childhood'
  BY KeepsChild, <1>4, <1>5 DEF Next, Halted
<1> QED
  BY <1>2, <1>3, <1>6, InvariantHolds, PTL DEF Spec

\* A ZOMBIE leaves the table through the kwait of its parent, once, and nothing
\* else does.
THEOREM ReapedOnce == Spec => ReapOnce
<1> DEFINE A ==
      \A c \in Slot :
        /\ state[c] = "ZOMBIE" /\ state'[c] # "ZOMBIE" =>
             state'[c] = "UNUSED" /\ pc[parent[c]] = "w_scan" /\ pc'[parent[c]] = "user"
        /\ state[c] \in {"RUNNABLE", "RUNNING", "SLEEPING"} => state'[c] \notin {"UNUSED", "USED"}
<1>1. ASSUME IInv, NEW h \in Hart, NEW p \in Slot, HartStep(h, p) PROVE A
  <2>1. CASE state' = state
    BY <2>1
  <2>2. CASE \/ scheduler(h, p) \/ yield(h, p) \/ sleep(h, p) \/ exit_zombie(h, p)
             \/ wait_sched(h, p)
    <3>1. CASE scheduler(h, p) \/ yield(h, p)
      BY <1>1, <3>1, SMTT(30) DEF scheduler, yield, OnCpu
    <3>2. CASE sleep(h, p) \/ wait_sched(h, p)
      BY <1>1, <3>2, SMTT(30) DEF sleep, wait_sched, OnCpu
    <3>3. CASE exit_zombie(h, p)
      BY <1>1, <3>3, SMTT(30) DEF exit_zombie, OnCpu
    <3> QED
      BY <2>2, <3>1, <3>2, <3>3
  <2>3. CASE exit_wake_init(h, p) \/ exit_wake_parent(h, p) \/ \E q \in Victim : kkill(h, p, q)
    BY <1>1, <2>3, SMTT(30) DEF exit_wake_init, exit_wake_parent, WakeWaiter, kkill
  <2>4. CASE fork_run(h, p) \/ \E q \in Slot : kfork(h, p, q)
    BY <1>1, <2>4, SMTT(30) DEF fork_run, kfork, Forking
  <2>5. CASE \E c \in Slot : wait_reap(h, p, c)
    BY <1>1, <2>5, SMTT(30) DEF wait_reap, freeproc, WaitReturn
  <2>6. \/ state' = state
        \/ scheduler(h, p) \/ yield(h, p) \/ sleep(h, p) \/ exit_zombie(h, p) \/ wait_sched(h, p)
        \/ exit_wake_init(h, p) \/ exit_wake_parent(h, p) \/ \E q \in Victim : kkill(h, p, q)
        \/ fork_run(h, p) \/ \E q \in Slot : kfork(h, p, q)
        \/ \E c \in Slot : wait_reap(h, p, c)
    BY <1>1 DEF HartStep, resume, switched, syscall, syscall_done, killed_exit, sys_exit, fault,
       GoExit, kfork_fail, fork_parent, exit_lock, reparent, kwait, wait_lock, wait_bad_address,
       wait_none, wait_go, wait_sleep
  <2> QED
    BY <2>1, <2>2, <2>3, <2>4, <2>5, <2>6
<1>2. ASSUME IInv, NEW p \in Slot, wakeup(p) PROVE A
  BY <1>2 DEF wakeup
<1>3. IInv /\ [Next]_vars => [A]_vars
  BY <1>1, <1>2 DEF Next, Halted, vars
<1> QED
  BY <1>3, InvariantHolds, PTL DEF Spec, ReapOnce


-----------------------------------------------------------------------------
(* No deadlock.                                                            *)

\* Who has the lock of a slot is the hart that has its process, on the way
\* into or out of swtch.
LEMMA SlotHolder ==
  ASSUME IInv, NEW p \in Slot, plock[p] # NoHart
  PROVE  plock[p] \in Hart /\ cpu[plock[p]] = p /\ GoesOn(plock[p])
<1>1. PICK h \in Hart : cpu[h] = p
  BY DEF IInv, OffCpu
<1>2. /\ ctx[p] = "out" => plock[p] = h
      /\ ctx[p] = "in" => plock[p] = h
      /\ ctx[p] = "run" => plock[p] = IF pc[p] = "w_sleep" THEN h ELSE NoHart
      /\ ctx[p] \in {"out", "in", "run"}
  BY <1>1 DEF IInv, OnCpu, TypeOK
<1>3. plock[p] = h /\ (ctx[p] # "run" \/ pc[p] = "w_sleep")
  BY <1>2
<1> QED
  BY <1>1, <1>3 DEF GoesOn

\* A hart that does not go on waits for wait_lock or for the lock of a slot.
LEMMA StuckOn ==
  ASSUME IInv, NEW h \in Hart, cpu[h] \in Slot, ~ GoesOn(h)
  PROVE  \/ pc[cpu[h]] \in {"exit", "f_parent", "w_lock"} /\ wlock # NoHart
         \/ \E q \in Slot : plock[q] # NoHart
<1> DEFINE p == cpu[h]
<1>1. p \in Slot /\ ctx[p] = "run"
  BY DEF GoesOn
<1>2. state[p] = "RUNNING"
  BY <1>1 DEF IInv, OnCpu
<1>3. pc[p] \in PC /\ pc[p] # "dead"
  BY <1>1, <1>2 DEF IInv, Lives, TypeOK
<1> HIDE DEF p
<1>4. CASE pc[p] \in {"exit", "f_parent", "w_lock"}
  BY <1>1, <1>4 DEF GoesOn, p
<1>5. CASE pc[p] = "f_run"
  <2>1. child[p] \in Slot
    BY <1>1, <1>5 DEF IInv, Forking
  <2> QED
    BY <1>1, <1>5, <2>1 DEF GoesOn, Unlocked, p
<1>6. CASE pc[p] = "x_wake_init"
  BY <1>1, <1>6, ProcessAssumption DEF GoesOn, Unlocked, p
<1>7. CASE pc[p] = "x_wake_parent"
  <2>1. p # InitProc
    BY <1>7 DEF IInv, Family, Exiting
  <2>2. parent[p] # NoSlot
    BY <1>1, <1>2, <2>1 DEF IInv, Family
  <2>3. parent[p] \in Slot
    BY <1>1, <2>2 DEF IInv, TypeOK
  <2> QED
    BY <1>1, <1>7, <2>3 DEF GoesOn, Unlocked, p
<1>8. CASE pc[p] \in {"x_zombie", "w_go"}
  BY <1>1, <1>8 DEF GoesOn, Unlocked, p
<1>9. CASE pc[p] = "w_scan"
  BY <1>1, <1>9 DEF GoesOn, Unlocked, Children, p
<1>10. pc[p] \notin {"user", "kernel", "x_reparent", "w_sleep"}
  BY <1>1 DEF GoesOn, p
<1> QED
  BY <1>3, <1>4, <1>5, <1>6, <1>7, <1>8, <1>9, <1>10 DEF PC, p

\* The hart that has wait_lock waits at most for the lock of a slot, which
\* another hart has.
LEMMA WaitHolder ==
  ASSUME IInv, wlock # NoHart, ~ GoesOn(wlock)
  PROVE  \E q \in Slot : plock[q] \notin {NoHart, wlock}
<1>1. wlock \in Hart /\ cpu[wlock] \in Slot /\ HasWaitLock(cpu[wlock])
  BY DEF IInv, TypeOK, WaitLock
<1>2. pc[cpu[wlock]] \notin {"exit", "f_parent", "w_lock"}
  BY <1>1 DEF HasWaitLock
<1>3. PICK q \in Slot : plock[q] # NoHart
  BY <1>1, <1>2, StuckOn
<1>4. plock[q] # wlock
  BY <1>3, SlotHolder
<1> QED
  BY <1>3, <1>4

\* wait_lock is always taken before a p->lock and no hart takes one p->lock
\* while it has another, so that the harts never all spin: for any number of
\* slots and harts.
THEOREM DeadlockFree == Spec => []NoDeadlock
<1>1. ASSUME IInv PROVE NoDeadlock
  <2>1. \A p \in Slot : plock[p] # NoHart => GoesOn(plock[p])
    BY <1>1, SlotHolder
  <2>2. wlock # NoHart /\ ~ GoesOn(wlock) =>
          \E p \in Slot : plock[p] \notin {NoHart, wlock}
    BY <1>1, WaitHolder
  <2>3. ASSUME NEW h \in Hart, cpu[h] # NoSlot
        PROVE  \E g \in Hart : GoesOn(g)
    <3>1. cpu[h] \in Slot /\ wlock \in Hart \cup {NoHart}
      BY <1>1, <2>3 DEF IInv, TypeOK
    <3>2. CASE \E q \in Slot : plock[q] # NoHart
      BY <1>1, <3>2, SlotHolder
    <3>3. CASE wlock # NoHart /\ ~ \E q \in Slot : plock[q] # NoHart
      BY <3>1, <3>3, <2>2
    <3>4. CASE wlock = NoHart /\ ~ \E q \in Slot : plock[q] # NoHart
      BY <1>1, <3>1, <3>4, StuckOn
    <3> QED
      BY <3>2, <3>3, <3>4
  <2> QED
    BY <2>1, <2>2, <2>3 DEF NoDeadlock
<1>2. IInv => NoDeadlock
  BY <1>1
<1> QED
  BY <1>2, InvariantHolds, PTL
=============================================================================
