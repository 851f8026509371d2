-------------------------------- MODULE Pipe --------------------------------
(***************************************************************************)
(* An anonymous pipe, kernel/pipe.c, with the file references that keep    *)
(* its ends open (filedup and fileclose of kernel/file.c) and sleep,       *)
(* wakeup and kill of kernel/proc.c.                                       *)
(*                                                                         *)
(* A step is one iteration of the loops of pipewrite and piperead, under   *)
(* pi->lock; processes interleave wherever the lock is free.  sleep hands  *)
(* the lock over atomically.  kill only wakes the sleeper: the loops do    *)
(* not look at p->killed.  nread and nwrite are unsigned integers that     *)
(* wrap around at MODULUS (2^32 in the code).                              *)
(***************************************************************************)
EXTENDS Integers, Sequences, FiniteSets

CONSTANTS
  Proc, NoProc,      \* processes, and the holder of a free lock
  Creator,           \* the process that called pipe()
  Byte,
  PIPESIZE,          \* capacity of the ring
  MODULUS,           \* where the positions wrap around
  MaxCount           \* largest n of a read or write system call

ASSUME PipeAssumption ==
  /\ NoProc \notin Proc /\ Creator \in Proc
  /\ Byte # {}
  /\ PIPESIZE \in Nat \ {0} /\ MODULUS \in Nat /\ MODULUS > PIPESIZE
  /\ MODULUS % PIPESIZE = 0
  /\ MaxCount \in Nat

VARIABLES
  data, nread, nwrite, readopen, writeopen,  \* struct pipe
  lock,    \* the holder of pi->lock
  freed,   \* 1 once kfree got the page back
  refs,    \* the ends each process has a descriptor for
  pc,      \* where each process is
  n, i     \* the locals of pipewrite and piperead, 0 outside them

pipe == <<data, nread, nwrite, readopen, writeopen>>
vars == <<data, nread, nwrite, readopen, writeopen, lock, freed, refs, pc, n, i>>

End == {"read", "write"}
Writing == {"w_loop", "w_asleep", "w_woken"}
Reading == {"r_wait", "r_asleep", "r_woken", "r_loop"}
Closing == {"close_read", "close_write", "kfree"}
PC == {"idle"} \cup Writing \cup Reading \cup Closing

Locked == {"w_loop", "r_wait", "r_loop"}   \* inside the critical section

\* Mutant of Full: one byte too many fits.
Full_off_by_one == nwrite = (nread + PIPESIZE + 1) % MODULUS

Empty == nread = nwrite
Full == nwrite = (nread + PIPESIZE) % MODULUS

-----------------------------------------------------------------------------
\* pipealloc has succeeded: an empty pipe and a descriptor for each end.
Init ==
  /\ data \in [0 .. PIPESIZE - 1 -> Byte]
  /\ nread = 0 /\ nwrite = 0
  /\ readopen = 1 /\ writeopen = 1
  /\ lock = NoProc
  /\ freed = 0
  /\ refs = [p \in Proc |-> IF p = Creator THEN End ELSE {}]
  /\ pc = [p \in Proc |-> "idle"]
  /\ n = [p \in Proc |-> 0]
  /\ i = [p \in Proc |-> 0]

\* Mutants: the wakeup is forgotten.
WakeReaders_missing(p, next) == [pc EXCEPT ![p] = next]
WakeAll_missing(p, next) == [pc EXCEPT ![p] = next]

\* wakeup(&pi->nread), wakeup(&pi->nwrite) and both, by p, which goes on at
\* `next'.
WakeReaders(p, next) ==
  [q \in Proc |-> IF q = p THEN next
                  ELSE IF pc[q] = "r_asleep" THEN "r_woken" ELSE pc[q]]
WakeWriters(p, next) ==
  [q \in Proc |-> IF q = p THEN next
                  ELSE IF pc[q] = "w_asleep" THEN "w_woken" ELSE pc[q]]
WakeAll(p, next) ==
  [q \in Proc |-> IF q = p THEN next
                  ELSE IF pc[q] = "r_asleep" THEN "r_woken"
                  ELSE IF pc[q] = "w_asleep" THEN "w_woken" ELSE pc[q]]

\* acquire(&pi->lock) and release(&pi->lock).
Acquire(p) == lock = NoProc /\ lock' = p
Release(p) == lock = p /\ lock' = NoProc

-----------------------------------------------------------------------------
(* pipewrite.                                                              *)

pipewrite(p, k) ==
  /\ pc[p] = "idle" /\ "write" \in refs[p]
  /\ Acquire(p)
  /\ pc' = [pc EXCEPT ![p] = "w_loop"]
  /\ n' = [n EXCEPT ![p] = k]
  /\ i' = [i EXCEPT ![p] = 0]
  /\ UNCHANGED <<pipe, freed, refs>>

\* The read end is closed: -1, whatever was accepted before.
write_broken(p) ==
  /\ pc[p] = "w_loop" /\ i[p] < n[p]
  /\ readopen = 0
  /\ Release(p)
  /\ pc' = [pc EXCEPT ![p] = "idle"]
  /\ n' = [n EXCEPT ![p] = 0]
  /\ i' = [i EXCEPT ![p] = 0]
  /\ UNCHANGED <<pipe, freed, refs>>

\* The ring is full: wake the readers, then sleep on nwrite.
write_full(p) ==
  /\ pc[p] = "w_loop" /\ i[p] < n[p]
  /\ readopen = 1 /\ Full
  /\ Release(p)
  /\ pc' = WakeReaders(p, "w_asleep")
  /\ UNCHANGED <<pipe, freed, refs, n, i>>

write_byte(p, ch) ==
  /\ pc[p] = "w_loop" /\ i[p] < n[p]
  /\ readopen = 1 /\ ~Full
  /\ data' = [data EXCEPT ![nwrite % PIPESIZE] = ch]
  /\ nwrite' = (nwrite + 1) % MODULUS
  /\ i' = [i EXCEPT ![p] = @ + 1]
  /\ UNCHANGED <<nread, readopen, writeopen, lock, freed, refs, pc, n>>

\* copyin fails before the first byte: -1, and nothing to announce.
write_bad_buffer(p) ==
  /\ pc[p] = "w_loop" /\ i[p] < n[p] /\ i[p] = 0
  /\ readopen = 1 /\ ~Full
  /\ Release(p)
  /\ pc' = [pc EXCEPT ![p] = "idle"]
  /\ n' = [n EXCEPT ![p] = 0]
  /\ i' = [i EXCEPT ![p] = 0]
  /\ UNCHANGED <<pipe, freed, refs>>

\* The loop ends, because all n bytes are in or copyin fails on a later one.
write_done(p) ==
  /\ pc[p] = "w_loop"
  /\ \/ i[p] >= n[p]
     \/ i[p] > 0 /\ readopen = 1 /\ ~Full
  /\ Release(p)
  /\ pc' = WakeReaders(p, "idle")
  /\ n' = [n EXCEPT ![p] = 0]
  /\ i' = [i EXCEPT ![p] = 0]
  /\ UNCHANGED <<pipe, freed, refs>>

\* Scheduled again: sleep reacquires the lock.
write_resume(p) ==
  /\ pc[p] = "w_woken"
  /\ Acquire(p)
  /\ pc' = [pc EXCEPT ![p] = "w_loop"]
  /\ UNCHANGED <<pipe, freed, refs, n, i>>

-----------------------------------------------------------------------------
(* piperead.                                                               *)

piperead(p, k) ==
  /\ pc[p] = "idle" /\ "read" \in refs[p]
  /\ Acquire(p)
  /\ pc' = [pc EXCEPT ![p] = "r_wait"]
  /\ n' = [n EXCEPT ![p] = k]
  /\ i' = [i EXCEPT ![p] = 0]
  /\ UNCHANGED <<pipe, freed, refs>>

read_sleep(p) ==
  /\ pc[p] = "r_wait"
  /\ Empty /\ writeopen = 1
  /\ Release(p)
  /\ pc' = [pc EXCEPT ![p] = "r_asleep"]
  /\ UNCHANGED <<pipe, freed, refs, n, i>>

read_resume(p) ==
  /\ pc[p] = "r_woken"
  /\ Acquire(p)
  /\ pc' = [pc EXCEPT ![p] = "r_wait"]
  /\ UNCHANGED <<pipe, freed, refs, n, i>>

\* Bytes, or the end of the stream.
read_start(p) ==
  /\ pc[p] = "r_wait"
  /\ ~(Empty /\ writeopen = 1)
  /\ pc' = [pc EXCEPT ![p] = "r_loop"]
  /\ UNCHANGED <<pipe, lock, freed, refs, n, i>>

read_byte(p) ==
  /\ pc[p] = "r_loop" /\ i[p] < n[p]
  /\ ~Empty
  /\ nread' = (nread + 1) % MODULUS
  /\ i' = [i EXCEPT ![p] = @ + 1]
  /\ UNCHANGED <<data, nwrite, readopen, writeopen, lock, freed, refs, pc, n>>

\* copyout fails before the first byte: -1, and nothing to announce.
read_bad_buffer(p) ==
  /\ pc[p] = "r_loop" /\ i[p] < n[p] /\ i[p] = 0
  /\ ~Empty
  /\ Release(p)
  /\ pc' = [pc EXCEPT ![p] = "idle"]
  /\ n' = [n EXCEPT ![p] = 0]
  /\ i' = [i EXCEPT ![p] = 0]
  /\ UNCHANGED <<pipe, freed, refs>>

\* n bytes, a drained ring, or copyout fails on a later byte.
read_done(p) ==
  /\ pc[p] = "r_loop"
  /\ i[p] >= n[p] \/ Empty \/ i[p] > 0
  /\ Release(p)
  /\ pc' = WakeWriters(p, "idle")
  /\ n' = [n EXCEPT ![p] = 0]
  /\ i' = [i EXCEPT ![p] = 0]
  /\ UNCHANGED <<pipe, freed, refs>>

-----------------------------------------------------------------------------
(* References: fork and exit, dup and close.                               *)

\* fork: the child gets a reference to every open file (filedup).
fork(p, q) ==
  /\ pc[p] = "idle" /\ pc[q] = "idle" /\ refs[q] = {}
  /\ refs' = [refs EXCEPT ![q] = refs[p]]
  /\ UNCHANGED <<pipe, lock, freed, pc, n, i>>

\* Mutant of Last: every close is taken for the last one.
Last_always(p, e) == TRUE

\* fileclose: only the last reference goes on to pipeclose.
Last(p, e) == \A q \in Proc \ {p} : e \notin refs[q]

fileclose(p, e) ==
  /\ pc[p] = "idle" /\ e \in refs[p]
  /\ refs' = [refs EXCEPT ![p] = @ \ {e}]
  /\ pc' = IF ~Last(p, e) THEN pc
           ELSE [pc EXCEPT ![p] = IF e = "read" THEN "close_read"
                                                ELSE "close_write"]
  /\ UNCHANGED <<pipe, lock, freed, n, i>>

\* Mutant of pipeclose_read: the pipe is freed with the write end open.
pipeclose_read_frees(p) ==
  /\ pc[p] = "close_read" /\ lock = NoProc
  /\ readopen' = 0
  /\ pc' = WakeAll(p, "kfree")
  /\ UNCHANGED <<data, nread, nwrite, writeopen, lock, freed, refs, n, i>>

\* pipeclose up to its release of the lock: it closes one end and wakes the
\* sleepers of both, and frees the pipe when the other end is closed.
pipeclose_read(p) ==
  /\ pc[p] = "close_read" /\ lock = NoProc
  /\ readopen' = 0
  /\ pc' = WakeAll(p, IF writeopen = 0 THEN "kfree" ELSE "idle")
  /\ UNCHANGED <<data, nread, nwrite, writeopen, lock, freed, refs, n, i>>

pipeclose_write(p) ==
  /\ pc[p] = "close_write" /\ lock = NoProc
  /\ writeopen' = 0
  /\ pc' = WakeAll(p, IF readopen = 0 THEN "kfree" ELSE "idle")
  /\ UNCHANGED <<data, nread, nwrite, readopen, lock, freed, refs, n, i>>

kfree(p) ==
  /\ pc[p] = "kfree"
  /\ freed' = freed + 1
  /\ pc' = [pc EXCEPT ![p] = "idle"]
  /\ UNCHANGED <<pipe, lock, refs, n, i>>

\* kill makes a sleeper runnable, whatever it waits for.
kill(q) ==
  /\ pc[q] \in {"w_asleep", "r_asleep"}
  /\ pc' = [pc EXCEPT ![q] = IF @ = "w_asleep" THEN "w_woken" ELSE "r_woken"]
  /\ UNCHANGED <<pipe, lock, freed, refs, n, i>>

-----------------------------------------------------------------------------
WriteStep(p) ==
  \/ write_broken(p) \/ write_full(p) \/ write_bad_buffer(p)
  \/ write_done(p) \/ write_resume(p)
  \/ \E ch \in Byte : write_byte(p, ch)
ReadStep(p) ==
  \/ read_sleep(p) \/ read_resume(p) \/ read_start(p) \/ read_byte(p)
  \/ read_bad_buffer(p) \/ read_done(p)
CloseStep(p) == pipeclose_read(p) \/ pipeclose_write(p) \/ kfree(p)
Run(p) == WriteStep(p) \/ ReadStep(p) \/ CloseStep(p)
Call(p) ==
  \/ \E k \in 0 .. MaxCount : pipewrite(p, k) \/ piperead(p, k)
  \/ \E e \in End : fileclose(p, e)
  \/ \E q \in Proc \ {p} : fork(p, q)

Next == \E p \in Proc : Run(p) \/ Call(p) \/ kill(p)

Spec == Init /\ [][Next]_vars

\* A process inside the pipe code runs on (round-robin scheduler), and gets
\* the lock in its turn; nothing makes it call read, write, close or fork.
Fairness == \A p \in Proc : SF_vars(Run(p))

FairSpec == Spec /\ Fairness

-----------------------------------------------------------------------------
(* Properties.                                                             *)

TypeOK ==
  /\ data \in [0 .. PIPESIZE - 1 -> Byte]
  /\ nread \in 0 .. MODULUS - 1 /\ nwrite \in 0 .. MODULUS - 1
  /\ readopen \in {0, 1} /\ writeopen \in {0, 1}
  /\ lock \in Proc \cup {NoProc}
  /\ freed \in Nat
  /\ refs \in [Proc -> SUBSET End]
  /\ pc \in [Proc -> PC]
  /\ n \in [Proc -> Nat] /\ i \in [Proc -> Nat]

\* The bytes in the ring, oldest first.
Buffered == (nwrite - nread) % MODULUS
Queue == [k \in 1 .. Buffered |-> data[(nread + k - 1) % PIPESIZE]]

Stream == INSTANCE ByteStream
            WITH Capacity <- PIPESIZE, queue <- Queue,
                 readable <- readopen, writable <- writeopen

\* pipewrite and piperead move every accepted byte through the ring once and
\* in order, never more than PIPESIZE at a time, across the wraparound of the
\* ring and of both positions, and nothing is accepted once an end is closed.
FifoOrder == Stream!Spec

\* Readers and writers never sleep at the same time: one of the two sides can
\* always go on, whoever has the lock.
OneSideAsleep ==
  \A p, q \in Proc : ~(pc[p] = "r_asleep" /\ pc[q] = "w_asleep")

\* No lost wakeup: when nobody is in the critical section, a reader sleeps
\* only on an empty ring and a writer only on a full one; whoever has the lock,
\* nobody sleeps once the other end is closed, and the two sides never wait for
\* each other.
NoLostWakeup ==
  /\ lock = NoProc =>
       \A p \in Proc : (pc[p] = "r_asleep" => Empty) /\ (pc[p] = "w_asleep" => Full)
  /\ \A p \in Proc :
       (pc[p] = "r_asleep" => writeopen = 1) /\ (pc[p] = "w_asleep" => readopen = 1)
  /\ OneSideAsleep

\* The page goes back to the allocator at most once, and then no process is
\* in the pipe's code, waits for its lock or has a descriptor for it.
FreedOnce ==
  /\ freed <= 1
  /\ freed = 1 =>
       \A p \in Proc : refs[p] = {} /\ pc[p] = "idle" /\ lock = NoProc

\* An end stays open as long as a descriptor for it exists, and is closed by
\* whoever drops the last one.
EndpointReferences ==
  /\ readopen = 1 <=> \E p \in Proc : "read" \in refs[p] \/ pc[p] = "close_read"
  /\ writeopen = 1 <=> \E p \in Proc : "write" \in refs[p] \/ pc[p] = "close_write"

\* Closing the last descriptor of an end releases everybody blocked on the
\* other end.
PeerCloseReleases ==
  \A p \in Proc :
    /\ (pc[p] \in Reading /\ writeopen = 0) ~> pc[p] = "idle"
    /\ (pc[p] \in Writing /\ readopen = 0) ~> pc[p] = "idle"

\* A reader that found the ring empty gets to run whenever bytes arrive.
ReaderServed ==
  \A p \in Proc : (pc[p] = "r_asleep" /\ ~Empty) ~> pc[p] # "r_asleep"

-----------------------------------------------------------------------------
(* The inductive invariant behind the safety properties.                   *)

\* The lock's holder is the process inside a critical section.
LockInv == \A p \in Proc : lock = p <=> pc[p] \in Locked

\* A process in pipewrite or piperead has a descriptor, which its own close
\* cannot drop meanwhile.
RefInv ==
  \A p \in Proc :
    /\ pc[p] \in Writing => "write" \in refs[p]
    /\ pc[p] \in Reading => "read" \in refs[p]

\* The last close of an end is on its way once, when no descriptor is left.
CloseInv ==
  \A p, q \in Proc :
    /\ pc[p] = "close_read" =>
         "read" \notin refs[q] /\ (pc[q] = "close_read" => p = q)
    /\ pc[p] = "close_write" =>
         "write" \notin refs[q] /\ (pc[q] = "close_write" => p = q)

\* The page is freed once, after both ends are closed.
FreeInv ==
  /\ freed \in {0, 1}
  /\ freed = 1 => readopen = 0 /\ writeopen = 0
  /\ \A p \in Proc : pc[p] = "kfree" =>
       /\ freed = 0 /\ readopen = 0 /\ writeopen = 0
       /\ \A q \in Proc : pc[q] = "kfree" => p = q

\* A sleeper's condition holds, or the process in the critical section has
\* made it false and will wake the sleepers before it leaves.
SleepInv ==
  \A p \in Proc :
    /\ pc[p] = "r_asleep" =>
         /\ writeopen = 1
         /\ Empty \/ \E q \in Proc : pc[q] = "w_loop" /\ i[q] > 0
    /\ pc[p] = "w_asleep" =>
         /\ readopen = 1
         /\ Full \/ \E q \in Proc : pc[q] = "r_loop" /\ i[q] > 0

IInv ==
  /\ TypeOK
  /\ LockInv
  /\ RefInv
  /\ EndpointReferences
  /\ CloseInv
  /\ FreeInv
  /\ SleepInv
=============================================================================
