----------------------------- MODULE PipeProofs -----------------------------
(***************************************************************************)
(* Proofs about Pipe for any number of processes, any ring size and any    *)
(* width of the positions: no lost wakeup, no use after free, no double    *)
(* free, ends that stay open exactly as long as they are referenced, and   *)
(* that the ring implements the bounded queue of ByteStream.               *)
(***************************************************************************)
EXTENDS Pipe, RingArithmetic

\* A step is left to Zenon unless it names SMT; each may take 30 seconds.
USE ZenonT(30)

-----------------------------------------------------------------------------
(* Helpers.                                                                *)

\* The places a process can be are program counters.
LEMMA Names ==
  /\ "idle" \in PC /\ "w_loop" \in PC /\ "w_asleep" \in PC /\ "w_woken" \in PC
  /\ "r_wait" \in PC /\ "r_asleep" \in PC /\ "r_woken" \in PC
  /\ "r_loop" \in PC /\ "close_read" \in PC /\ "close_write" \in PC
  /\ "kfree" \in PC
BY DEF PC, Writing, Reading, Closing

\* A position stays below MODULUS.
LEMMA PositionType ==
  ASSUME NEW k \in Nat
  PROVE  k % MODULUS \in 0 .. MODULUS - 1
<1>1. MODULUS \in Nat \ {0}
  BY PipeAssumption, SMTT(30)
<1> QED
  BY <1>1, SMTT(30)

\* A wakeup moves its caller to `next', sleepers to the woken state and
\* nobody else.
LEMMA WakeStep ==
  ASSUME pc \in [Proc -> PC], NEW p \in Proc, NEW next \in PC,
         \/ pc' = WakeReaders(p, next)
         \/ pc' = WakeWriters(p, next)
         \/ pc' = WakeAll(p, next)
  PROVE  /\ pc' \in [Proc -> PC]
         /\ pc'[p] = next
         /\ \A q \in Proc \ {p} :
              \/ pc'[q] = pc[q]
              \/ pc[q] = "r_asleep" /\ pc'[q] = "r_woken"
              \/ pc[q] = "w_asleep" /\ pc'[q] = "w_woken"
BY Names DEF WakeReaders, WakeWriters, WakeAll

\* Steps of pipewrite and piperead: the lock, the references and the sleepers
\* are all they can disturb.
LEMMA InPipe ==
  ASSUME IInv, TypeOK', LockInv', SleepInv', NEW p \in Proc,
         UNCHANGED <<readopen, writeopen, freed, refs>>,
         \A q \in Proc \ {p} :
              \/ pc'[q] = pc[q]
              \/ pc[q] = "r_asleep" /\ pc'[q] = "r_woken"
              \/ pc[q] = "w_asleep" /\ pc'[q] = "w_woken",
         pc[p] \notin Closing, pc'[p] \notin Closing,
         pc'[p] \in Writing => "write" \in refs[p],
         pc'[p] \in Reading => "read" \in refs[p]
  PROVE  IInv'
<1>1. RefInv'
  BY DEF IInv, RefInv, Writing, Reading
<1>2. \A q \in Proc : \A c \in Closing : pc'[q] = c <=> pc[q] = c
  BY DEF Closing
<1>3. \A q \in Proc : /\ pc'[q] = "close_read" <=> pc[q] = "close_read"
                      /\ pc'[q] = "close_write" <=> pc[q] = "close_write"
                      /\ pc'[q] = "kfree" <=> pc[q] = "kfree"
  BY <1>2 DEF Closing
<1>4. EndpointReferences'
  BY <1>3 DEF IInv, EndpointReferences
<1>5. CloseInv'
  BY <1>3 DEF IInv, CloseInv
<1>6. FreeInv'
  BY <1>3 DEF IInv, FreeInv
<1> QED
  BY <1>1, <1>4, <1>5, <1>6 DEF IInv

\* The process in the critical section is alone there.
LEMMA Alone ==
  ASSUME IInv, NEW p \in Proc, pc[p] \in Locked
  PROVE  /\ lock = p
         /\ \A q \in Proc \ {p} : pc[q] \notin Locked
BY DEF IInv, LockInv

\* Nobody is in the critical section while the lock is free.
LEMMA Nobody ==
  ASSUME IInv, lock = NoProc
  PROVE  \A q \in Proc : pc[q] \notin Locked
BY PipeAssumption DEF IInv, LockInv

-----------------------------------------------------------------------------
(* pipewrite.                                                              *)

\* Entering pipewrite.
LEMMA WriteEnter ==
  ASSUME IInv, NEW p \in Proc, NEW k \in 0 .. MaxCount, pipewrite(p, k)
  PROVE  IInv'
<1>1. /\ pc' = [pc EXCEPT ![p] = "w_loop"] /\ pc[p] = "idle"
      /\ lock = NoProc /\ lock' = p /\ "write" \in refs[p]
      /\ i' = [i EXCEPT ![p] = 0] /\ n' = [n EXCEPT ![p] = k]
      /\ UNCHANGED <<data, nread, nwrite, readopen, writeopen, freed, refs>>
  BY DEF pipewrite, Acquire, pipe
<1>2. TypeOK'
  BY <1>1, Names, PipeAssumption, SMTT(30) DEF IInv, TypeOK
<1>3. pc'[p] = "w_loop" /\ \A q \in Proc \ {p} : pc'[q] = pc[q]
  BY <1>1 DEF IInv, TypeOK
<1>4. \A q \in Proc : pc[q] \notin Locked
  BY <1>1, Nobody
<1>5. LockInv'
  BY <1>1, <1>3, <1>4 DEF LockInv, Locked
<1>6. SleepInv'
  BY <1>1, <1>3, <1>4 DEF IInv, SleepInv, Empty, Full, Locked
<1> QED
  BY <1>1, <1>2, <1>3, <1>5, <1>6, InPipe DEF Closing, Writing, Reading

\* Leaving pipewrite because the read end is closed: no reader is left that
\* could be asleep.
LEMMA WriteBroken ==
  ASSUME IInv, NEW p \in Proc, write_broken(p)
  PROVE  IInv'
<1>1. /\ pc' = [pc EXCEPT ![p] = "idle"] /\ pc[p] = "w_loop"
      /\ lock' = NoProc /\ readopen = 0
      /\ i' = [i EXCEPT ![p] = 0] /\ n' = [n EXCEPT ![p] = 0]
      /\ UNCHANGED <<data, nread, nwrite, readopen, writeopen, freed, refs>>
  BY DEF write_broken, Release, pipe
<1>2. TypeOK'
  BY <1>1, Names DEF IInv, TypeOK
<1>3. pc'[p] = "idle" /\ \A q \in Proc \ {p} : pc'[q] = pc[q]
  BY <1>1 DEF IInv, TypeOK
<1>4. \A q \in Proc \ {p} : pc[q] \notin Locked
  BY <1>1, Alone DEF Locked
<1>5. LockInv'
  BY <1>1, <1>3, <1>4, PipeAssumption DEF LockInv, Locked
<1>6. SleepInv'
  <2>1. \A q \in Proc : pc[q] # "r_asleep"
    BY <1>1, SMTT(30) DEF IInv, RefInv, EndpointReferences, Reading
  <2> QED
    BY <1>1, <1>3, <1>4, <2>1 DEF IInv, SleepInv, Full, Locked
<1> QED
  BY <1>1, <1>2, <1>3, <1>5, <1>6, InPipe DEF Closing, Writing, Reading

\* Going to sleep on a full ring, after waking the readers.
LEMMA WriteFull ==
  ASSUME IInv, NEW p \in Proc, write_full(p)
  PROVE  IInv'
<1>1. /\ pc' = WakeReaders(p, "w_asleep") /\ pc[p] = "w_loop"
      /\ lock' = NoProc /\ Full /\ readopen = 1
      /\ UNCHANGED <<data, nread, nwrite, readopen, writeopen, freed, refs, n, i>>
  BY DEF write_full, Release, pipe
<1>2. /\ pc' \in [Proc -> PC] /\ pc'[p] = "w_asleep"
      /\ \A q \in Proc \ {p} :
              \/ pc'[q] = pc[q]
              \/ pc[q] = "r_asleep" /\ pc'[q] = "r_woken"
              \/ pc[q] = "w_asleep" /\ pc'[q] = "w_woken"
  BY <1>1, Names, WakeStep DEF IInv, TypeOK
<1>3. TypeOK'
  BY <1>1, <1>2 DEF IInv, TypeOK
<1>4. \A q \in Proc \ {p} : pc[q] \notin Locked
  BY <1>1, Alone DEF Locked
<1>5. LockInv'
  BY <1>1, <1>2, <1>4, PipeAssumption DEF LockInv, Locked
<1>6. SleepInv'
  <2>1. \A q \in Proc : pc'[q] # "r_asleep"
    BY <1>1 DEF WakeReaders
  <2> QED
    BY <1>1, <2>1 DEF SleepInv, Full
<1> QED
  BY <1>1, <1>2, <1>3, <1>5, <1>6, InPipe DEF IInv, RefInv, Closing, Writing, Reading

\* Accepting a byte: no writer is asleep, since the ring is not full.
LEMMA WriteByte ==
  ASSUME IInv, NEW p \in Proc, NEW ch \in Byte, write_byte(p, ch)
  PROVE  IInv'
<1>1. /\ pc' = pc /\ pc[p] = "w_loop" /\ ~Full /\ nwrite' = (nwrite + 1) % MODULUS
      /\ i' = [i EXCEPT ![p] = @ + 1]
      /\ UNCHANGED <<nread, readopen, writeopen, freed, refs, n, lock>>
  BY DEF write_byte
<1>2. TypeOK'
  <2>1. nwrite' \in 0 .. MODULUS - 1
    BY <1>1, PositionType, SMTT(30) DEF IInv, TypeOK
  <2>2. data' \in [0 .. PIPESIZE - 1 -> Byte]
    BY DEF write_byte, IInv, TypeOK
  <2>3. i' \in [Proc -> Nat]
    BY <1>1, SMTT(30) DEF IInv, TypeOK
  <2> QED
    BY <1>1, <2>1, <2>2, <2>3 DEF IInv, TypeOK
<1>3. i'[p] > 0
  BY <1>1, SMTT(30) DEF IInv, TypeOK
<1>4. \A q \in Proc \ {p} : pc[q] \notin Locked
  BY <1>1, Alone DEF Locked
<1>5. LockInv'
  BY <1>1 DEF IInv, LockInv
<1>6. SleepInv'
  <2>1. \A q \in Proc : pc[q] # "w_asleep"
    BY <1>1, <1>4 DEF IInv, SleepInv, Locked
  <2>2. \A q \in Proc : pc[q] = "r_asleep" => writeopen = 1
    BY DEF IInv, SleepInv
  <2> QED
    BY <1>1, <1>3, <2>1, <2>2 DEF SleepInv
<1> QED
  BY <1>1, <1>2, <1>5, <1>6, InPipe DEF IInv, RefInv, Closing, Writing, Reading

\* A bad buffer at the first byte: the ring is as it was.
LEMMA WriteBadBuffer ==
  ASSUME IInv, NEW p \in Proc, write_bad_buffer(p)
  PROVE  IInv'
<1>1. /\ pc' = [pc EXCEPT ![p] = "idle"] /\ pc[p] = "w_loop"
      /\ lock' = NoProc /\ i[p] = 0
      /\ i' = [i EXCEPT ![p] = 0] /\ n' = [n EXCEPT ![p] = 0]
      /\ UNCHANGED <<data, nread, nwrite, readopen, writeopen, freed, refs>>
  BY DEF write_bad_buffer, Release, pipe
<1>2. TypeOK'
  BY <1>1, Names DEF IInv, TypeOK
<1>3. pc'[p] = "idle" /\ \A q \in Proc \ {p} : pc'[q] = pc[q]
  BY <1>1 DEF IInv, TypeOK
<1>4. \A q \in Proc \ {p} : pc[q] \notin Locked
  BY <1>1, Alone DEF Locked
<1>5. LockInv'
  BY <1>1, <1>3, <1>4, PipeAssumption DEF LockInv, Locked
<1>6. SleepInv'
  BY <1>1, <1>3, <1>4, SMTT(30) DEF IInv, SleepInv, Empty, Full, Locked
<1> QED
  BY <1>1, <1>2, <1>3, <1>5, <1>6, InPipe DEF Closing, Writing, Reading

\* Leaving pipewrite after waking the readers.
LEMMA WriteDone ==
  ASSUME IInv, NEW p \in Proc, write_done(p)
  PROVE  IInv'
<1>1. /\ pc' = WakeReaders(p, "idle") /\ pc[p] = "w_loop"
      /\ lock' = NoProc
      /\ i' = [i EXCEPT ![p] = 0] /\ n' = [n EXCEPT ![p] = 0]
      /\ UNCHANGED <<data, nread, nwrite, readopen, writeopen, freed, refs>>
  BY DEF write_done, Release, pipe
<1>2. /\ pc' \in [Proc -> PC] /\ pc'[p] = "idle"
      /\ \A q \in Proc \ {p} :
              \/ pc'[q] = pc[q]
              \/ pc[q] = "r_asleep" /\ pc'[q] = "r_woken"
              \/ pc[q] = "w_asleep" /\ pc'[q] = "w_woken"
  BY <1>1, Names, WakeStep DEF IInv, TypeOK
<1>3. TypeOK'
  BY <1>1, <1>2 DEF IInv, TypeOK
<1>4. \A q \in Proc \ {p} : pc[q] \notin Locked
  BY <1>1, Alone DEF Locked
<1>5. LockInv'
  BY <1>1, <1>2, <1>4, PipeAssumption DEF LockInv, Locked
<1>6. SleepInv'
  <2>1. \A q \in Proc : pc'[q] # "r_asleep"
    BY <1>1 DEF WakeReaders
  <2> QED
    BY <1>1, <1>2, <1>4, <2>1 DEF IInv, SleepInv, Full, Locked
<1> QED
  BY <1>1, <1>2, <1>3, <1>5, <1>6, InPipe DEF Closing, Writing, Reading

\* A woken writer gets the lock back.
LEMMA WriteResume ==
  ASSUME IInv, NEW p \in Proc, write_resume(p)
  PROVE  IInv'
<1>1. /\ pc' = [pc EXCEPT ![p] = "w_loop"] /\ pc[p] = "w_woken"
      /\ lock = NoProc /\ lock' = p
      /\ UNCHANGED <<data, nread, nwrite, readopen, writeopen, freed, refs, n, i>>
  BY DEF write_resume, Acquire, pipe
<1>2. TypeOK'
  BY <1>1, Names DEF IInv, TypeOK
<1>3. pc'[p] = "w_loop" /\ \A q \in Proc \ {p} : pc'[q] = pc[q]
  BY <1>1 DEF IInv, TypeOK
<1>4. \A q \in Proc : pc[q] \notin Locked
  BY <1>1, Nobody
<1>5. LockInv'
  BY <1>1, <1>3, <1>4 DEF LockInv, Locked
<1>6. SleepInv'
  BY <1>1, <1>3, <1>4 DEF IInv, SleepInv, Empty, Full, Locked
<1> QED
  BY <1>1, <1>2, <1>3, <1>5, <1>6, InPipe DEF IInv, RefInv, Closing, Writing, Reading

-----------------------------------------------------------------------------
(* piperead.                                                               *)

\* Entering piperead.
LEMMA ReadEnter ==
  ASSUME IInv, NEW p \in Proc, NEW k \in 0 .. MaxCount, piperead(p, k)
  PROVE  IInv'
<1>1. /\ pc' = [pc EXCEPT ![p] = "r_wait"] /\ pc[p] = "idle"
      /\ lock = NoProc /\ lock' = p /\ "read" \in refs[p]
      /\ i' = [i EXCEPT ![p] = 0] /\ n' = [n EXCEPT ![p] = k]
      /\ UNCHANGED <<data, nread, nwrite, readopen, writeopen, freed, refs>>
  BY DEF piperead, Acquire, pipe
<1>2. TypeOK'
  BY <1>1, Names, PipeAssumption, SMTT(30) DEF IInv, TypeOK
<1>3. pc'[p] = "r_wait" /\ \A q \in Proc \ {p} : pc'[q] = pc[q]
  BY <1>1 DEF IInv, TypeOK
<1>4. \A q \in Proc : pc[q] \notin Locked
  BY <1>1, Nobody
<1>5. LockInv'
  BY <1>1, <1>3, <1>4 DEF LockInv, Locked
<1>6. SleepInv'
  BY <1>1, <1>3, <1>4 DEF IInv, SleepInv, Empty, Full, Locked
<1> QED
  BY <1>1, <1>2, <1>3, <1>5, <1>6, InPipe DEF IInv, RefInv, Closing, Writing, Reading

\* Going to sleep on an empty ring.
LEMMA ReadSleep ==
  ASSUME IInv, NEW p \in Proc, read_sleep(p)
  PROVE  IInv'
<1>1. /\ pc' = [pc EXCEPT ![p] = "r_asleep"] /\ pc[p] = "r_wait"
      /\ lock' = NoProc /\ Empty /\ writeopen = 1
      /\ UNCHANGED <<data, nread, nwrite, readopen, writeopen, freed, refs, n, i>>
  BY DEF read_sleep, Release, pipe
<1>2. TypeOK'
  BY <1>1, Names, PipeAssumption DEF IInv, TypeOK
<1>3. pc'[p] = "r_asleep" /\ \A q \in Proc \ {p} : pc'[q] = pc[q]
  BY <1>1 DEF IInv, TypeOK
<1>4. \A q \in Proc \ {p} : pc[q] \notin Locked
  BY <1>1, Alone DEF Locked
<1>5. LockInv'
  BY <1>1, <1>3, <1>4, PipeAssumption DEF LockInv, Locked
<1>6. SleepInv'
  BY <1>1, <1>3, <1>4 DEF IInv, SleepInv, Empty, Full, Locked
<1> QED
  BY <1>1, <1>2, <1>3, <1>5, <1>6, InPipe DEF IInv, RefInv, Closing, Writing, Reading

\* A woken reader gets the lock back.
LEMMA ReadResume ==
  ASSUME IInv, NEW p \in Proc, read_resume(p)
  PROVE  IInv'
<1>1. /\ pc' = [pc EXCEPT ![p] = "r_wait"] /\ pc[p] = "r_woken"
      /\ lock = NoProc /\ lock' = p
      /\ UNCHANGED <<data, nread, nwrite, readopen, writeopen, freed, refs, n, i>>
  BY DEF read_resume, Acquire, pipe
<1>2. TypeOK'
  BY <1>1, Names DEF IInv, TypeOK
<1>3. pc'[p] = "r_wait" /\ \A q \in Proc \ {p} : pc'[q] = pc[q]
  BY <1>1 DEF IInv, TypeOK
<1>4. \A q \in Proc : pc[q] \notin Locked
  BY <1>1, Nobody
<1>5. LockInv'
  BY <1>1, <1>3, <1>4 DEF LockInv, Locked
<1>6. SleepInv'
  BY <1>1, <1>3, <1>4 DEF IInv, SleepInv, Empty, Full, Locked
<1> QED
  BY <1>1, <1>2, <1>3, <1>5, <1>6, InPipe DEF IInv, RefInv, Closing, Writing, Reading

\* The wait is over.
LEMMA ReadStart ==
  ASSUME IInv, NEW p \in Proc, read_start(p)
  PROVE  IInv'
<1>1. /\ pc' = [pc EXCEPT ![p] = "r_loop"] /\ pc[p] = "r_wait"
      /\ lock' = lock
      /\ UNCHANGED <<data, nread, nwrite, readopen, writeopen, freed, refs, n, i>>
  BY DEF read_start, pipe
<1>2. TypeOK'
  BY <1>1, Names DEF IInv, TypeOK
<1>3. pc'[p] = "r_loop" /\ \A q \in Proc \ {p} : pc'[q] = pc[q]
  BY <1>1 DEF IInv, TypeOK
<1>4. \A q \in Proc \ {p} : pc[q] \notin Locked
  BY <1>1, Alone DEF Locked
<1>5. LockInv'
  BY <1>1, <1>3 DEF IInv, LockInv, Locked
<1>6. SleepInv'
  BY <1>1, <1>3, <1>4 DEF IInv, SleepInv, Empty, Full, Locked
<1> QED
  BY <1>1, <1>2, <1>3, <1>5, <1>6, InPipe DEF IInv, RefInv, Closing, Writing, Reading

\* Delivering a byte: no reader is asleep, since the ring is not empty.
LEMMA ReadByte ==
  ASSUME IInv, NEW p \in Proc, read_byte(p)
  PROVE  IInv'
<1>1. /\ pc' = pc /\ pc[p] = "r_loop" /\ ~Empty /\ nread' = (nread + 1) % MODULUS
      /\ i' = [i EXCEPT ![p] = @ + 1]
      /\ UNCHANGED <<data, nwrite, readopen, writeopen, freed, refs, n, lock>>
  BY DEF read_byte
<1>2. TypeOK'
  <2>1. nread' \in 0 .. MODULUS - 1
    BY <1>1, PositionType, SMTT(30) DEF IInv, TypeOK
  <2>2. i' \in [Proc -> Nat]
    BY <1>1, SMTT(30) DEF IInv, TypeOK
  <2> QED
    BY <1>1, <2>1, <2>2 DEF IInv, TypeOK
<1>3. i'[p] > 0
  BY <1>1, SMTT(30) DEF IInv, TypeOK
<1>4. \A q \in Proc \ {p} : pc[q] \notin Locked
  BY <1>1, Alone DEF Locked
<1>5. LockInv'
  BY <1>1 DEF IInv, LockInv
<1>6. SleepInv'
  <2>1. \A q \in Proc : pc[q] # "r_asleep"
    BY <1>1, <1>4 DEF IInv, SleepInv, Locked
  <2>2. \A q \in Proc : pc[q] = "w_asleep" => readopen = 1
    BY DEF IInv, SleepInv
  <2> QED
    BY <1>1, <1>3, <2>1, <2>2 DEF SleepInv
<1> QED
  BY <1>1, <1>2, <1>5, <1>6, InPipe DEF IInv, RefInv, Closing, Writing, Reading

\* A bad buffer at the first byte: the ring is as it was.
LEMMA ReadBadBuffer ==
  ASSUME IInv, NEW p \in Proc, read_bad_buffer(p)
  PROVE  IInv'
<1>1. /\ pc' = [pc EXCEPT ![p] = "idle"] /\ pc[p] = "r_loop"
      /\ lock' = NoProc /\ i[p] = 0
      /\ i' = [i EXCEPT ![p] = 0] /\ n' = [n EXCEPT ![p] = 0]
      /\ UNCHANGED <<data, nread, nwrite, readopen, writeopen, freed, refs>>
  BY DEF read_bad_buffer, Release, pipe
<1>2. TypeOK'
  BY <1>1, Names, PipeAssumption DEF IInv, TypeOK
<1>3. pc'[p] = "idle" /\ \A q \in Proc \ {p} : pc'[q] = pc[q]
  BY <1>1 DEF IInv, TypeOK
<1>4. \A q \in Proc \ {p} : pc[q] \notin Locked
  BY <1>1, Alone DEF Locked
<1>5. LockInv'
  BY <1>1, <1>3, <1>4, PipeAssumption DEF LockInv, Locked
<1>6. SleepInv'
  BY <1>1, <1>3, <1>4, SMTT(30) DEF IInv, SleepInv, Empty, Full, Locked
<1> QED
  BY <1>1, <1>2, <1>3, <1>5, <1>6, InPipe DEF IInv, RefInv, Closing, Writing, Reading

\* Leaving piperead after waking the writers.
LEMMA ReadDone ==
  ASSUME IInv, NEW p \in Proc, read_done(p)
  PROVE  IInv'
<1>1. /\ pc' = WakeWriters(p, "idle") /\ pc[p] = "r_loop"
      /\ lock' = NoProc
      /\ i' = [i EXCEPT ![p] = 0] /\ n' = [n EXCEPT ![p] = 0]
      /\ UNCHANGED <<data, nread, nwrite, readopen, writeopen, freed, refs>>
  BY DEF read_done, Release, pipe
<1>2. /\ pc' \in [Proc -> PC] /\ pc'[p] = "idle"
      /\ \A q \in Proc \ {p} :
              \/ pc'[q] = pc[q]
              \/ pc[q] = "r_asleep" /\ pc'[q] = "r_woken"
              \/ pc[q] = "w_asleep" /\ pc'[q] = "w_woken"
  BY <1>1, Names, WakeStep DEF IInv, TypeOK
<1>3. TypeOK'
  BY <1>1, <1>2 DEF IInv, TypeOK
<1>4. \A q \in Proc \ {p} : pc[q] \notin Locked
  BY <1>1, Alone DEF Locked
<1>5. LockInv'
  BY <1>1, <1>2, <1>4, PipeAssumption DEF LockInv, Locked
<1>6. SleepInv'
  <2>1. \A q \in Proc : pc'[q] # "w_asleep"
    BY <1>1 DEF WakeWriters
  <2> QED
    BY <1>1, <1>2, <1>4, <2>1 DEF IInv, SleepInv, Empty, Locked
<1> QED
  BY <1>1, <1>2, <1>3, <1>5, <1>6, InPipe DEF Closing, Writing, Reading

\* kill makes a sleeper runnable and touches nothing else.
LEMMA Kill ==
  ASSUME IInv, NEW p \in Proc, kill(p)
  PROVE  IInv'
<1>1. /\ pc[p] \in {"w_asleep", "r_asleep"}
      /\ pc' = [pc EXCEPT ![p] = IF @ = "w_asleep" THEN "w_woken" ELSE "r_woken"]
      /\ UNCHANGED <<data, nread, nwrite, readopen, writeopen, lock, freed, refs,
                     n, i>>
  BY DEF kill, pipe
<1>2. TypeOK'
  <2>1. pc' \in [Proc -> PC]
    BY <1>1, Names DEF IInv, TypeOK
  <2> QED
    BY <1>1, <2>1 DEF IInv, TypeOK
<1>3. /\ \/ pc[p] = "r_asleep" /\ pc'[p] = "r_woken"
         \/ pc[p] = "w_asleep" /\ pc'[p] = "w_woken"
      /\ \A q \in Proc \ {p} : pc'[q] = pc[q]
  <2>1. pc \in [Proc -> PC]
    BY DEF IInv, TypeOK
  <2>2. CASE pc[p] = "r_asleep"
    BY <1>1, <2>1, <2>2
  <2>3. CASE pc[p] = "w_asleep"
    BY <1>1, <2>1, <2>3
  <2> QED
    BY <1>1, <2>2, <2>3
<1>4. LockInv'
  BY <1>1, <1>3 DEF IInv, LockInv, Locked
<1>5. SleepInv'
  <2>1. \A q \in Proc :
          /\ pc'[q] = "r_asleep" => pc[q] = "r_asleep"
          /\ pc'[q] = "w_asleep" => pc[q] = "w_asleep"
          /\ pc[q] = "w_loop" => pc'[q] = "w_loop"
          /\ pc[q] = "r_loop" => pc'[q] = "r_loop"
    BY <1>3
  <2> QED
    BY <1>1, <2>1 DEF IInv, SleepInv, Empty, Full
<1> QED
  BY <1>1, <1>2, <1>3, <1>4, <1>5, InPipe DEF IInv, RefInv, Closing, Writing, Reading

-----------------------------------------------------------------------------
(* References.                                                             *)

\* fork adds descriptors for ends that are open.
LEMMA Fork ==
  ASSUME IInv, NEW p \in Proc, NEW q \in Proc \ {p}, fork(p, q)
  PROVE  IInv'
<1>1. /\ pc[p] = "idle" /\ pc[q] = "idle" /\ refs[q] = {}
      /\ refs' = [refs EXCEPT ![q] = refs[p]]
      /\ UNCHANGED <<data, nread, nwrite, readopen, writeopen, lock, freed, pc,
                     n, i>>
  BY DEF fork, pipe
<1>2. TypeOK'
  BY <1>1 DEF IInv, TypeOK
<1>3. /\ refs'[q] = refs[p]
      /\ \A r \in Proc \ {q} : refs'[r] = refs[r]
  BY <1>1 DEF IInv, TypeOK
<1>4. RefInv'
  BY <1>1, <1>3 DEF IInv, RefInv, Writing, Reading
<1>5. EndpointReferences'
  <2>1. \A e : (\E r \in Proc : e \in refs'[r]) <=> (\E r \in Proc : e \in refs[r])
    BY <1>1, <1>3
  <2> QED
    BY <1>1, <2>1 DEF IInv, EndpointReferences
<1>6. CloseInv'
  BY <1>1, <1>3 DEF IInv, CloseInv
<1>7. LockInv' /\ FreeInv' /\ SleepInv'
  BY <1>1 DEF IInv, LockInv, FreeInv, SleepInv, Empty, Full
<1> QED
  BY <1>2, <1>4, <1>5, <1>6, <1>7 DEF IInv

\* fileclose: a reference that is not the last one.
LEMMA CloseShared ==
  ASSUME IInv, NEW p \in Proc, NEW e \in End, fileclose(p, e), ~Last(p, e)
  PROVE  IInv'
<1>1. /\ pc[p] = "idle" /\ e \in refs[p]
      /\ refs' = [refs EXCEPT ![p] = @ \ {e}]
      /\ UNCHANGED <<data, nread, nwrite, readopen, writeopen, lock, freed, pc,
                     n, i>>
  BY DEF fileclose, pipe
<1>2. TypeOK'
  BY <1>1 DEF IInv, TypeOK
<1>3. /\ refs'[p] = refs[p] \ {e}
      /\ \A r \in Proc \ {p} : refs'[r] = refs[r]
  BY <1>1 DEF IInv, TypeOK
<1>4. RefInv'
  BY <1>1, <1>3 DEF IInv, RefInv, Writing, Reading
<1>5. PICK r \in Proc \ {p} : e \in refs[r]
  BY DEF Last
<1>6. EndpointReferences'
  <2>1. \A d : (\E q \in Proc : d \in refs'[q]) <=> (\E q \in Proc : d \in refs[q])
    BY <1>3, <1>5
  <2> QED
    BY <1>1, <2>1 DEF IInv, EndpointReferences
<1>7. CloseInv'
  BY <1>1, <1>3 DEF IInv, CloseInv
<1>8. LockInv' /\ FreeInv' /\ SleepInv'
  BY <1>1 DEF IInv, LockInv, FreeInv, SleepInv, Empty, Full
<1> QED
  BY <1>2, <1>4, <1>6, <1>7, <1>8 DEF IInv

\* fileclose: the last reference to an end.
LEMMA CloseLast ==
  ASSUME IInv, NEW p \in Proc, NEW e \in End, fileclose(p, e), Last(p, e)
  PROVE  IInv'
<1> DEFINE next == IF e = "read" THEN "close_read" ELSE "close_write"
<1>1. /\ pc[p] = "idle" /\ e \in refs[p]
      /\ refs' = [refs EXCEPT ![p] = @ \ {e}]
      /\ pc' = [pc EXCEPT ![p] = next]
      /\ UNCHANGED <<data, nread, nwrite, readopen, writeopen, lock, freed,
                     n, i>>
  BY DEF fileclose, pipe
<1>2. TypeOK'
  <2>1. pc' \in [Proc -> PC]
    BY <1>1, Names DEF IInv, TypeOK
  <2> QED
    BY <1>1, <2>1 DEF IInv, TypeOK
<1>3. /\ refs'[p] = refs[p] \ {e} /\ pc'[p] = next
      /\ \A r \in Proc \ {p} : refs'[r] = refs[r] /\ pc'[r] = pc[r]
      /\ \A r \in Proc : e \notin refs'[r]
  BY <1>1 DEF IInv, TypeOK, Last
<1>4. RefInv'
  BY <1>1, <1>3, SMTT(30) DEF IInv, RefInv, Writing, Reading
<1>5. /\ e = "read" => next = "close_read"
      /\ e # "read" => e = "write" /\ next = "close_write"
  BY DEF End
<1> HIDE DEF next
<1>6. EndpointReferences'
  BY <1>1, <1>3, <1>5 DEF IInv, EndpointReferences
<1>7. CloseInv'
  BY <1>1, <1>3, <1>5, SMTT(30) DEF IInv, CloseInv
<1>8. LockInv'
  BY <1>1, <1>3, <1>5 DEF IInv, LockInv, Locked
<1>9. FreeInv'
  BY <1>1, <1>3, <1>5 DEF IInv, FreeInv
<1>10. SleepInv'
  BY <1>1, <1>3, <1>5, SMTT(30) DEF IInv, SleepInv, Empty, Full
<1> QED
  BY <1>2, <1>4, <1>6, <1>7, <1>8, <1>9, <1>10 DEF IInv

\* pipeclose of the read end.
LEMMA PipecloseRead ==
  ASSUME IInv, NEW p \in Proc, pipeclose_read(p)
  PROVE  IInv'
<1> DEFINE next == IF writeopen = 0 THEN "kfree" ELSE "idle"
<1>1. /\ pc[p] = "close_read" /\ lock = NoProc
      /\ readopen' = 0 /\ pc' = WakeAll(p, next)
      /\ UNCHANGED <<data, nread, nwrite, writeopen, lock, freed, refs, n, i>>
  BY DEF pipeclose_read
<1>2. /\ pc' \in [Proc -> PC] /\ pc'[p] = next
      /\ \A q \in Proc \ {p} :
              \/ pc'[q] = pc[q]
              \/ pc[q] = "r_asleep" /\ pc'[q] = "r_woken"
              \/ pc[q] = "w_asleep" /\ pc'[q] = "w_woken"
  BY <1>1, Names, WakeStep DEF IInv, TypeOK
<1>3. TypeOK'
  BY <1>1, <1>2 DEF IInv, TypeOK
<1>4. \A q \in Proc : pc'[q] # "r_asleep" /\ pc'[q] # "w_asleep"
  BY <1>1 DEF WakeAll
<1>5. /\ writeopen = 0 => pc'[p] = "kfree"
      /\ writeopen # 0 => pc'[p] = "idle"
  BY <1>2
<1> HIDE DEF next
<1>6. /\ readopen = 1
      /\ \A q \in Proc : "read" \notin refs[q]
      /\ \A q \in Proc : pc[q] = "close_read" => q = p
  BY <1>1 DEF IInv, EndpointReferences, CloseInv
<1>7. freed = 0 /\ \A q \in Proc : pc[q] # "kfree"
  BY <1>6, SMTT(30) DEF IInv, FreeInv
<1>8. LockInv'
  BY <1>1, <1>2, <1>5 DEF IInv, LockInv, Locked
<1>9. RefInv'
  BY <1>1, <1>2, <1>5 DEF IInv, RefInv, Writing, Reading
<1>10. EndpointReferences'
  BY <1>1, <1>2, <1>5, <1>6, SMTT(30) DEF IInv, EndpointReferences
<1>11. CloseInv'
  BY <1>1, <1>2, <1>5 DEF IInv, CloseInv
<1>12. FreeInv'
  BY <1>1, <1>2, <1>5, <1>7 DEF IInv, TypeOK, FreeInv
<1>13. SleepInv'
  BY <1>4 DEF SleepInv
<1> QED
  BY <1>3, <1>8, <1>9, <1>10, <1>11, <1>12, <1>13 DEF IInv

\* pipeclose of the write end.
LEMMA PipecloseWrite ==
  ASSUME IInv, NEW p \in Proc, pipeclose_write(p)
  PROVE  IInv'
<1> DEFINE next == IF readopen = 0 THEN "kfree" ELSE "idle"
<1>1. /\ pc[p] = "close_write" /\ lock = NoProc
      /\ writeopen' = 0 /\ pc' = WakeAll(p, next)
      /\ UNCHANGED <<data, nread, nwrite, readopen, lock, freed, refs, n, i>>
  BY DEF pipeclose_write
<1>2. /\ pc' \in [Proc -> PC] /\ pc'[p] = next
      /\ \A q \in Proc \ {p} :
              \/ pc'[q] = pc[q]
              \/ pc[q] = "r_asleep" /\ pc'[q] = "r_woken"
              \/ pc[q] = "w_asleep" /\ pc'[q] = "w_woken"
  BY <1>1, Names, WakeStep DEF IInv, TypeOK
<1>3. TypeOK'
  BY <1>1, <1>2 DEF IInv, TypeOK
<1>4. \A q \in Proc : pc'[q] # "r_asleep" /\ pc'[q] # "w_asleep"
  BY <1>1 DEF WakeAll
<1>5. /\ readopen = 0 => pc'[p] = "kfree"
      /\ readopen # 0 => pc'[p] = "idle"
  BY <1>2
<1> HIDE DEF next
<1>6. /\ writeopen = 1
      /\ \A q \in Proc : "write" \notin refs[q]
      /\ \A q \in Proc : pc[q] = "close_write" => q = p
  BY <1>1 DEF IInv, EndpointReferences, CloseInv
<1>7. freed = 0 /\ \A q \in Proc : pc[q] # "kfree"
  BY <1>6, SMTT(30) DEF IInv, FreeInv
<1>8. LockInv'
  BY <1>1, <1>2, <1>5 DEF IInv, LockInv, Locked
<1>9. RefInv'
  BY <1>1, <1>2, <1>5 DEF IInv, RefInv, Writing, Reading
<1>10. EndpointReferences'
  BY <1>1, <1>2, <1>5, <1>6, SMTT(30) DEF IInv, EndpointReferences
<1>11. CloseInv'
  BY <1>1, <1>2, <1>5 DEF IInv, CloseInv
<1>12. FreeInv'
  BY <1>1, <1>2, <1>5, <1>7 DEF IInv, TypeOK, FreeInv
<1>13. SleepInv'
  BY <1>4 DEF SleepInv
<1> QED
  BY <1>3, <1>8, <1>9, <1>10, <1>11, <1>12, <1>13 DEF IInv

\* kfree: nobody refers to the pipe any more.
LEMMA Kfree ==
  ASSUME IInv, NEW p \in Proc, kfree(p)
  PROVE  IInv'
<1>1. /\ pc[p] = "kfree" /\ freed' = freed + 1
      /\ pc' = [pc EXCEPT ![p] = "idle"]
      /\ UNCHANGED <<data, nread, nwrite, readopen, writeopen, lock, refs, n, i>>
  BY DEF kfree, pipe
<1>2. /\ freed = 0 /\ readopen = 0 /\ writeopen = 0
      /\ \A q \in Proc : pc[q] = "kfree" => q = p
  BY <1>1 DEF IInv, FreeInv
<1>3. TypeOK'
  BY <1>1, <1>2, Names, SMTT(30) DEF IInv, TypeOK
<1>4. pc'[p] = "idle" /\ \A q \in Proc \ {p} : pc'[q] = pc[q]
  BY <1>1 DEF IInv, TypeOK
<1>5. LockInv' /\ RefInv'
  BY <1>1, <1>4 DEF IInv, LockInv, RefInv, Locked, Writing, Reading
<1>6. EndpointReferences' /\ CloseInv'
  BY <1>1, <1>4, SMTT(30) DEF IInv, EndpointReferences, CloseInv
<1>7. FreeInv'
  BY <1>1, <1>2, <1>4, SMTT(30) DEF FreeInv
<1>8. SleepInv'
  BY <1>1, <1>4 DEF IInv, SleepInv, Empty, Full
<1> QED
  BY <1>3, <1>5, <1>6, <1>7, <1>8 DEF IInv

-----------------------------------------------------------------------------
(* The theorems.                                                           *)

\* A fresh pipe satisfies the invariant.
LEMMA InitIInv == Init => IInv
<1> SUFFICES ASSUME Init PROVE IInv
  OBVIOUS
<1>1. TypeOK
  BY Names, PipeAssumption, SMTT(30) DEF Init, TypeOK
<1>2. LockInv /\ RefInv
  BY PipeAssumption DEF Init, LockInv, RefInv, Locked, Writing, Reading
<1>3. EndpointReferences
  BY PipeAssumption DEF Init, EndpointReferences, End
<1>4. CloseInv /\ FreeInv /\ SleepInv
  BY DEF Init, CloseInv, FreeInv, SleepInv
<1> QED
  BY <1>1, <1>2, <1>3, <1>4 DEF IInv

\* Every step preserves the invariant.
LEMMA NextIInv == IInv /\ [Next]_vars => IInv'
<1> SUFFICES ASSUME IInv, [Next]_vars PROVE IInv'
  OBVIOUS
<1>1. CASE UNCHANGED vars
  BY <1>1 DEF vars, IInv, TypeOK, LockInv, RefInv, EndpointReferences, CloseInv,
     FreeInv, SleepInv, Empty, Full
<1>2. ASSUME NEW p \in Proc, WriteStep(p) PROVE IInv'
  BY <1>2, WriteBroken, WriteFull, WriteByte, WriteBadBuffer, WriteDone,
     WriteResume DEF WriteStep
<1>3. ASSUME NEW p \in Proc, ReadStep(p) PROVE IInv'
  BY <1>3, ReadSleep, ReadResume, ReadStart, ReadByte, ReadBadBuffer, ReadDone
  DEF ReadStep
<1>4. ASSUME NEW p \in Proc, CloseStep(p) PROVE IInv'
  BY <1>4, PipecloseRead, PipecloseWrite, Kfree DEF CloseStep
<1>5. ASSUME NEW p \in Proc, Call(p) PROVE IInv'
  BY <1>5, WriteEnter, ReadEnter, CloseShared, CloseLast, Fork DEF Call
<1> QED
  BY <1>1, <1>2, <1>3, <1>4, <1>5, Kill DEF Next, Run

\* The invariant holds for every instance of the constants.
THEOREM InvariantHolds == Spec => []IInv
<1> QED
  BY InitIInv, NextIInv, PTL DEF Spec

\* Type correctness.
THEOREM TypeCorrect == Spec => []TypeOK
<1>1. IInv => TypeOK
  BY DEF IInv
<1> QED
  BY <1>1, InvariantHolds, PTL

\* The pipe is freed at most once, and after that nothing can reach it.
THEOREM NoUseAfterFree == Spec => []FreedOnce
<1>1. IInv => FreedOnce
  <2> SUFFICES ASSUME IInv PROVE FreedOnce
    OBVIOUS
  <2>1. freed <= 1
    BY SMTT(30) DEF IInv, FreeInv
  <2>2. ASSUME freed = 1
        PROVE  \A p \in Proc : refs[p] = {} /\ pc[p] = "idle" /\ lock = NoProc
    <3>1. readopen = 0 /\ writeopen = 0 /\ \A p \in Proc : pc[p] # "kfree"
      BY <2>2, SMTT(30) DEF IInv, FreeInv
    <3>2. \A p \in Proc : /\ "read" \notin refs[p] /\ "write" \notin refs[p]
                          /\ pc[p] # "close_read" /\ pc[p] # "close_write"
      BY <3>1, SMTT(30) DEF IInv, EndpointReferences
    <3>3. \A p \in Proc : pc[p] \notin Writing /\ pc[p] \notin Reading
      BY <3>2 DEF IInv, RefInv
    <3>4. \A p \in Proc : refs[p] = {}
      BY <3>2 DEF IInv, TypeOK, End
    <3>5. \A p \in Proc : pc[p] = "idle"
      BY <3>1, <3>2, <3>3 DEF IInv, TypeOK, PC, Closing
    <3>6. lock = NoProc
      BY <3>5 DEF IInv, TypeOK, LockInv, Locked
    <3> QED
      BY <3>4, <3>5, <3>6
  <2> QED
    BY <2>1, <2>2 DEF FreedOnce
<1> QED
  BY <1>1, InvariantHolds, PTL

\* An end is open exactly as long as somebody has, or is dropping, a
\* reference to it.
THEOREM EndpointsReferenced == Spec => []EndpointReferences
<1>1. IInv => EndpointReferences
  BY DEF IInv
<1> QED
  BY <1>1, InvariantHolds, PTL

-----------------------------------------------------------------------------
(* The ring implements a queue.                                            *)

\* The positions are never more than PIPESIZE apart.
RingInv == Buffered <= PIPESIZE

\* The constants as the arithmetic needs them.
LEMMA Sizes ==
  /\ PIPESIZE \in Nat \ {0} /\ MODULUS \in Nat \ {0, 1} /\ MODULUS \in Nat \ {0}
  /\ MODULUS > PIPESIZE /\ MODULUS % PIPESIZE = 0
BY PipeAssumption, SMTT(30)

\* The number of buffered bytes, the tests of the loops in terms of it, and
\* how a written and a read byte change it.
LEMMA Count ==
  ASSUME TypeOK
  PROVE  /\ Buffered \in 0 .. MODULUS - 1
         /\ Empty <=> Buffered = 0
         /\ Full <=> Buffered = PIPESIZE
         /\ Buffered < MODULUS - 1 =>
              (((nwrite + 1) % MODULUS) - nread) % MODULUS = Buffered + 1
         /\ ~Empty =>
              (nwrite - ((nread + 1) % MODULUS)) % MODULUS = Buffered - 1
<1>1. nread \in 0 .. MODULUS - 1 /\ nwrite \in 0 .. MODULUS - 1 /\ nread \in Int
  BY Sizes, SMTT(30) DEF TypeOK
<1>2. /\ Buffered \in 0 .. MODULUS - 1
      /\ Buffered = 0 <=> nwrite = nread
      /\ Buffered < MODULUS - 1 =>
           (((nwrite + 1) % MODULUS) - nread) % MODULUS = Buffered + 1
      /\ nwrite # nread =>
           (nwrite - ((nread + 1) % MODULUS)) % MODULUS = Buffered - 1
  <2>1. MODULUS \in Nat \ {0, 1}
    BY Sizes
  <2> QED
    BY ONLY <1>1, <2>1, Between, ZenonT(30) DEF Buffered
<1>3. ASSUME Full PROVE Buffered = PIPESIZE
  <2>1. PIPESIZE \in 0 .. MODULUS - 1
    BY Sizes, SMTT(30)
  <2>2. (((nread + PIPESIZE) % MODULUS) - nread) % MODULUS = PIPESIZE
    BY <1>1, <2>1, Sizes, After
  <2> QED
    BY <1>3, <2>2 DEF Full, Buffered
<1>4. ASSUME Buffered = PIPESIZE PROVE Full
  <2>1. (nread + ((nwrite - nread) % MODULUS)) % MODULUS = nwrite
    BY <1>1, Sizes, Reach
  <2> QED
    BY <1>4, <2>1 DEF Full, Buffered
<1> QED
  BY <1>2, <1>3, <1>4 DEF Empty

\* The byte at nwrite comes right after the buffered ones.
LEMMA WritePosition ==
  ASSUME TypeOK
  PROVE  nwrite % PIPESIZE = (nread + Buffered) % PIPESIZE
<1>1. nread \in Int /\ nwrite \in 0 .. MODULUS - 1
  BY Sizes, SMTT(30) DEF TypeOK
<1>2. (nread + Buffered) % MODULUS = nwrite
  BY <1>1, Sizes, Reach DEF Buffered
<1>3. nread + Buffered \in Int
  BY <1>1, Count, SMTT(30)
<1>4. ((nread + Buffered) % MODULUS) % PIPESIZE = (nread + Buffered) % PIPESIZE
  BY <1>3, Sizes, Twice
<1> QED
  BY <1>2, <1>4

\* Once nread has moved on, byte k of the queue is the former byte k + 1.
LEMMA ReadPosition ==
  ASSUME TypeOK, NEW k \in Int
  PROVE  (((nread + 1) % MODULUS) + k - 1) % PIPESIZE = (nread + k) % PIPESIZE
<1> DEFINE t == (nread + 1) % MODULUS
           x == t + k - 1
<1>1. nread \in 0 .. MODULUS - 1 /\ nread \in Int /\ nread + 1 \in Int
  BY Sizes, SMTT(30) DEF TypeOK
<1>2. CASE nread + 1 < MODULUS
  <2>1. t = nread + 1
    BY <1>1, <1>2, Sizes, Small, SMTT(30)
  <2> HIDE DEF t
  <2>2. t + k - 1 = nread + k
    BY <1>1, <2>1, SMTT(30)
  <2> QED
    BY <2>2 DEF t
<1>3. CASE nread + 1 = MODULUS
  <2>1. t = 0
    BY <1>1, <1>3, Sizes, Small, SMTT(30)
  <2>2. PICK c \in Int : MODULUS = PIPESIZE * c
    BY Sizes, Whole
  <2> HIDE DEF t
  <2>3. x \in Int /\ nread + k = x + PIPESIZE * c
    BY <1>1, <1>3, <2>1, <2>2, Sizes, SMTT(30)
  <2> HIDE DEF x
  <2>4. (x + PIPESIZE * c) % PIPESIZE = x % PIPESIZE
    BY <2>3, Sizes, Congruent
  <2>5. (nread + k) % PIPESIZE = x % PIPESIZE
    BY <2>3, <2>4
  <2> QED
    BY <2>5 DEF x, t
<1> QED
  BY <1>1, <1>2, <1>3, Sizes, SMTT(30)

\* The buffered bytes form a sequence.
QueueForm ==
  /\ Queue \in Seq(Byte) /\ Len(Queue) = Buffered
  /\ \A k \in 1 .. Buffered : Queue[k] = data[(nread + k - 1) % PIPESIZE]

\* A typed ring and positions give that sequence.
LEMMA QueueType == TypeOK => QueueForm
<1> SUFFICES ASSUME TypeOK PROVE QueueForm
  OBVIOUS
<1>1. Buffered \in Nat
  BY Count, Sizes, SMTT(30)
<1>2. ASSUME NEW k \in 1 .. Buffered
      PROVE  data[(nread + k - 1) % PIPESIZE] \in Byte
  <2>1. nread + k - 1 \in Int
    BY <1>1, Sizes, SMTT(30) DEF TypeOK
  <2>2. (nread + k - 1) % PIPESIZE \in 0 .. PIPESIZE - 1
    BY <2>1, Sizes, Division
  <2> QED
    BY <2>2 DEF TypeOK
<1>3. Queue \in [1 .. Buffered -> Byte]
  BY <1>2 DEF Queue
<1>4. Queue \in Seq(Byte) /\ Len(Queue) = Buffered
  BY <1>1, <1>3, SMTT(30)
<1> QED
  BY <1>4 DEF Queue, QueueForm

\* Two sequences are the same when they agree everywhere.
LEMMA SameQueue ==
  ASSUME NEW s \in Seq(Byte), NEW t \in Seq(Byte), Len(s) = Len(t),
         \A k \in 1 .. Len(s) : s[k] = t[k]
  PROVE  s = t
BY SMTT(30)

\* pipewrite appends: the byte goes into a free position of the ring, behind
\* the buffered ones.
LEMMA Appended ==
  ASSUME IInv, IInv', RingInv, NEW p \in Proc, NEW ch \in Byte, write_byte(p, ch)
  PROVE  /\ Queue' = Append(Queue, ch)
         /\ Len(Queue) < PIPESIZE
         /\ RingInv'
<1> DEFINE b == Buffered
           w == nwrite % PIPESIZE
<1>0. TypeOK /\ TypeOK' /\ nread \in Int
  <2>1. TypeOK
    BY DEF IInv
  <2>2. TypeOK'
    BY DEF IInv
  <2>3. nread \in Int
    BY <2>1, Sizes, SMTT(30) DEF TypeOK
  <2> QED
    BY <2>1, <2>2, <2>3
<1>1. /\ b \in Nat /\ b < PIPESIZE /\ b < MODULUS - 1
      /\ nread' = nread /\ nwrite' = (nwrite + 1) % MODULUS
      /\ data' = [data EXCEPT ![w] = ch]
  BY <1>0, Count, Sizes, SMTT(30) DEF RingInv, write_byte
<1>2. Buffered' = b + 1
  BY <1>0, <1>1, Count DEF Buffered
<1>3. w = (nread + b) % PIPESIZE /\ w \in DOMAIN data
  <2>1. nread + b \in Int
    BY <1>0, <1>1, SMTT(30)
  <2> QED
    BY <1>0, <2>1, WritePosition, Sizes, Division DEF TypeOK
<1>4. /\ Queue \in Seq(Byte) /\ Len(Queue) = b
      /\ \A k \in 1 .. b : Queue[k] = data[(nread + k - 1) % PIPESIZE]
  BY <1>0, QueueType DEF QueueForm
<1>5. /\ Queue' \in Seq(Byte) /\ Len(Queue') = b + 1
      /\ \A k \in 1 .. b + 1 : Queue'[k] = data'[(nread + k - 1) % PIPESIZE]
  <2>1. /\ Queue' \in Seq(Byte) /\ Len(Queue') = Buffered'
        /\ \A k \in 1 .. Buffered' :
             Queue'[k] = data'[(nread' + k - 1) % PIPESIZE]
    <3>1. QueueForm'
      BY <1>0, QueueType, PTL
    <3> QED
      BY <3>1 DEF QueueForm
  <2> QED
    BY <1>1, <1>2, <2>1
<1> HIDE DEF b, w
<1>6. ASSUME NEW k \in 1 .. b PROVE Queue'[k] = Queue[k]
  <2> DEFINE j == k - 1
  <2>1. j \in 0 .. PIPESIZE - 1 /\ b \in 0 .. PIPESIZE - 1 /\ j # b
    BY <1>1, Sizes, SMTT(30)
  <2>2. nread + j = nread + k - 1
    BY <1>0
  <2> HIDE DEF j
  <2>3. (nread + j) % PIPESIZE # (nread + b) % PIPESIZE
    BY <1>0, <2>1, Sizes, Apart
  <2>4. nread + j \in Int
    BY <1>0, <2>1, SMTT(30)
  <2>5. (nread + j) % PIPESIZE \in 0 .. PIPESIZE - 1
    BY <2>4, Sizes, Division
  <2>6. data'[(nread + j) % PIPESIZE] = data[(nread + j) % PIPESIZE]
    BY <1>0, <1>1, <1>3, <2>3, <2>5 DEF TypeOK
  <2>7. k \in 1 .. b + 1
    BY <1>1, SMTT(30)
  <2> QED
    BY <1>4, <1>5, <2>2, <2>6, <2>7
<1>7. Queue'[b + 1] = ch
  <2>1. nread + (b + 1) - 1 = nread + b /\ b + 1 \in 1 .. b + 1
    BY <1>0, <1>1, SMTT(30)
  <2>2. data'[w] = ch
    BY <1>1, <1>3
  <2> QED
    BY <1>3, <1>5, <2>1, <2>2
<1>8. Queue' = Append(Queue, ch)
  <2> DEFINE s == Queue
             t == Queue'
  <2>1. s \in Seq(Byte) /\ Len(s) = b /\ t \in Seq(Byte) /\ Len(t) = b + 1
    BY <1>4, <1>5
  <2>2. (\A k \in 1 .. b : t[k] = s[k]) /\ t[b + 1] = ch
    BY <1>6, <1>7
  <2> HIDE DEF s, t
  <2>3. /\ Append(s, ch) \in Seq(Byte) /\ Len(Append(s, ch)) = b + 1
        /\ \A k \in 1 .. b : Append(s, ch)[k] = s[k]
        /\ Append(s, ch)[b + 1] = ch
    BY <1>1, <2>1, SMTT(30)
  <2>4. \A k \in 1 .. b + 1 : t[k] = Append(s, ch)[k]
    BY <1>1, <2>2, <2>3, SMTT(30)
  <2>5. t = Append(s, ch)
    BY <2>1, <2>3, <2>4, SameQueue
  <2> QED
    BY <2>5 DEF s, t
<1>9. RingInv'
  BY <1>1, <1>2, Sizes, SMTT(30) DEF RingInv
<1> QED
  BY <1>1, <1>4, <1>8, <1>9

\* piperead takes the oldest byte.
LEMMA Taken ==
  ASSUME IInv, IInv', RingInv, NEW p \in Proc, read_byte(p)
  PROVE  /\ Queue # <<>>
         /\ Queue' = Tail(Queue)
         /\ RingInv'
<1> DEFINE b == Buffered
<1>0. TypeOK /\ TypeOK' /\ nread \in Int
  <2>1. TypeOK
    BY DEF IInv
  <2>2. TypeOK'
    BY DEF IInv
  <2>3. nread \in Int
    BY <2>1, Sizes, SMTT(30) DEF TypeOK
  <2> QED
    BY <2>1, <2>2, <2>3
<1>1. /\ b \in Nat \ {0} /\ b <= PIPESIZE
      /\ nwrite' = nwrite /\ nread' = (nread + 1) % MODULUS /\ data' = data
  BY <1>0, Count, Sizes, SMTT(30) DEF RingInv, read_byte
<1>2. Buffered' = b - 1
  BY <1>0, <1>1, Count DEF Buffered, read_byte
<1>3. /\ Queue \in Seq(Byte) /\ Len(Queue) = b
      /\ \A k \in 1 .. b : Queue[k] = data[(nread + k - 1) % PIPESIZE]
  BY <1>0, QueueType DEF QueueForm
<1>4. /\ Queue' \in Seq(Byte) /\ Len(Queue') = b - 1
      /\ \A k \in 1 .. b - 1 : Queue'[k] = data[(((nread + 1) % MODULUS) + k - 1) % PIPESIZE]
  <2>1. /\ Queue' \in Seq(Byte) /\ Len(Queue') = Buffered'
        /\ \A k \in 1 .. Buffered' :
             Queue'[k] = data'[(nread' + k - 1) % PIPESIZE]
    <3>1. QueueForm'
      BY <1>0, QueueType, PTL
    <3> QED
      BY <3>1 DEF QueueForm
  <2> QED
    BY <1>1, <1>2, <2>1
<1> HIDE DEF b
<1>5. ASSUME NEW k \in 1 .. b - 1 PROVE Queue'[k] = Queue[k + 1]
  <2>1. (((nread + 1) % MODULUS) + k - 1) % PIPESIZE = (nread + k) % PIPESIZE
    BY <1>0, ReadPosition, SMTT(30)
  <2>2. nread + (k + 1) - 1 = nread + k /\ k + 1 \in 1 .. b
    BY <1>0, <1>1, SMTT(30)
  <2> QED
    BY <1>3, <1>4, <2>1, <2>2, SMTT(30)
<1>6. Queue # <<>> /\ Queue' = Tail(Queue)
  <2> DEFINE s == Queue
             t == Queue'
  <2>1. s \in Seq(Byte) /\ Len(s) = b /\ t \in Seq(Byte) /\ Len(t) = b - 1
    BY <1>3, <1>4
  <2>2. \A k \in 1 .. b - 1 : t[k] = s[k + 1]
    BY <1>5
  <2> HIDE DEF s, t
  <2>3. s # <<>>
    BY <1>1, <2>1
  <2>4. /\ Tail(s) \in Seq(Byte) /\ Len(Tail(s)) = b - 1
        /\ \A k \in 1 .. b - 1 : Tail(s)[k] = s[k + 1]
    BY <1>1, <2>1, <2>3, SMTT(30)
  <2>5. t = Tail(s)
    BY <2>1, <2>2, <2>4, SameQueue
  <2> QED
    BY <2>3, <2>5 DEF s, t
<1>7. RingInv'
  BY <1>1, <1>2, Sizes, SMTT(30) DEF RingInv
<1> QED
  BY <1>6, <1>7

\* Steps that leave the ring alone leave the queue alone.
LEMMA Untouched ==
  ASSUME RingInv, data' = data, nread' = nread, nwrite' = nwrite
  PROVE  Queue' = Queue /\ RingInv'
BY DEF Queue, Buffered, RingInv

\* The initial pipe is the empty queue.
LEMMA InitStream == Init => Stream!Init /\ RingInv
<1> SUFFICES ASSUME Init PROVE Stream!Init /\ RingInv
  OBVIOUS
<1>1. TypeOK
  BY InitIInv DEF IInv
<1>2. Buffered = 0
  BY <1>1, Count DEF Init, Empty
<1>3. Queue = <<>>
  BY <1>1, <1>2, QueueType, SMTT(30) DEF QueueForm
<1> QED
  BY <1>2, <1>3, Sizes, SMTT(30) DEF Init, Stream!Init, RingInv

\* Every step of the pipe is a step of the stream or leaves it alone.
LEMMA NextStream ==
  ASSUME IInv, IInv', RingInv, [Next]_vars
  PROVE  [Stream!Next]_(Stream!vars) /\ RingInv'
<1> DEFINE Goal == [Stream!Next]_(Stream!vars) /\ RingInv'
<1>1. ASSUME UNCHANGED pipe PROVE Goal
  BY <1>1, Untouched DEF pipe, Stream!vars
<1>2. ASSUME NEW p \in Proc, NEW ch \in Byte, write_byte(p, ch) PROVE Goal
  <2>1. readopen = 1 /\ readopen' = readopen /\ writeopen' = writeopen
    BY <1>2 DEF write_byte
  <2>2. writeopen = 1
    BY <1>2 DEF write_byte, IInv, RefInv, EndpointReferences, Writing
  <2>3. Stream!Put(ch)
    BY <1>2, <2>1, <2>2, Appended DEF Stream!Put
  <2> QED
    BY <1>2, <2>3, Appended DEF Stream!Next
<1>3. ASSUME NEW p \in Proc, read_byte(p) PROVE Goal
  <2>1. readopen' = readopen /\ writeopen' = writeopen
    BY <1>3 DEF read_byte
  <2>2. readopen = 1
    BY <1>3 DEF read_byte, IInv, RefInv, EndpointReferences, Reading
  <2>3. Stream!Get
    BY <1>3, <2>1, <2>2, Taken DEF Stream!Get
  <2> QED
    BY <1>3, <2>3, Taken DEF Stream!Next
<1>4. ASSUME NEW p \in Proc, pipeclose_read(p) PROVE Goal
  <2>1. /\ readopen' = 0 /\ writeopen' = writeopen
        /\ data' = data /\ nread' = nread /\ nwrite' = nwrite
    BY <1>4 DEF pipeclose_read
  <2>2. readopen = 1
    BY <1>4 DEF pipeclose_read, IInv, EndpointReferences
  <2>3. Queue' = Queue /\ RingInv'
    BY <2>1, Untouched
  <2>4. Stream!CloseRead
    BY <2>1, <2>2, <2>3 DEF Stream!CloseRead
  <2> QED
    BY <2>3, <2>4 DEF Stream!Next
<1>5. ASSUME NEW p \in Proc, pipeclose_write(p) PROVE Goal
  <2>1. /\ writeopen' = 0 /\ readopen' = readopen
        /\ data' = data /\ nread' = nread /\ nwrite' = nwrite
    BY <1>5 DEF pipeclose_write
  <2>2. writeopen = 1
    BY <1>5 DEF pipeclose_write, IInv, EndpointReferences
  <2>3. Queue' = Queue /\ RingInv'
    BY <2>1, Untouched
  <2>4. Stream!CloseWrite
    BY <2>1, <2>2, <2>3 DEF Stream!CloseWrite
  <2> QED
    BY <2>3, <2>4 DEF Stream!Next
<1>6. ASSUME NEW p \in Proc, WriteStep(p),
             ~ \E ch \in Byte : write_byte(p, ch)
      PROVE  UNCHANGED pipe
  BY <1>6 DEF WriteStep, write_broken, write_full, write_bad_buffer,
     write_done, write_resume
<1>7. ASSUME NEW p \in Proc, ReadStep(p), ~read_byte(p) PROVE UNCHANGED pipe
  BY <1>7 DEF ReadStep, read_sleep, read_resume, read_start, read_bad_buffer,
     read_done
<1>8. ASSUME NEW p \in Proc, Call(p) \/ kill(p) \/ kfree(p) PROVE UNCHANGED pipe
  BY <1>8 DEF Call, pipewrite, piperead, fileclose, fork, kill, kfree
<1>9. ASSUME UNCHANGED vars PROVE Goal
  BY <1>1, <1>9 DEF vars, pipe
<1> HIDE DEF Goal
<1>10. ASSUME NEW p \in Proc, Run(p) \/ Call(p) \/ kill(p) PROVE Goal
  <2>1. CASE WriteStep(p)
    BY <1>1, <1>2, <1>6, <2>1
  <2>2. CASE ReadStep(p)
    BY <1>1, <1>3, <1>7, <2>2
  <2>3. CASE CloseStep(p)
    BY <1>1, <1>4, <1>5, <1>8, <2>3 DEF CloseStep
  <2>4. CASE Call(p) \/ kill(p)
    BY <1>1, <1>8, <2>4
  <2> QED
    BY <1>10, <2>1, <2>2, <2>3, <2>4 DEF Run
<1>11. ASSUME Next PROVE Goal
  BY <1>10, <1>11 DEF Next
<1>12. Goal
  BY <1>9, <1>11
<1> QED
  BY <1>12 DEF Goal

\* A pipe is a bounded queue of bytes: pipewrite and piperead move every
\* accepted byte once and in order, for every size of the ring and every
\* width of the positions that it divides.
THEOREM FifoKept == Spec => FifoOrder
<1>1. Spec => [](IInv /\ RingInv)
  <2>1. IInv /\ IInv' /\ RingInv /\ [Next]_vars => RingInv'
    BY NextStream
  <2> QED
    BY <2>1, InitStream, InvariantHolds, PTL DEF Spec
<1>2. /\ IInv /\ RingInv /\ IInv' /\ [Next]_vars => [Stream!Next]_(Stream!vars)
  BY NextStream
<1> QED
  BY <1>1, <1>2, InitStream, PTL DEF Spec, FifoOrder, Stream!Spec

-----------------------------------------------------------------------------
(* Sleepers.                                                               *)

\* Only a reader that finds the ring empty and a writer that finds it full
\* fall asleep.
LEMMA FallsAsleep ==
  ASSUME IInv, [Next]_vars, NEW p \in Proc,
         pc'[p] \in {"r_asleep", "w_asleep"}, pc[p] # pc'[p]
  PROVE  read_sleep(p) \/ write_full(p)
<1>1. pc \in [Proc -> PC]
  BY DEF IInv, TypeOK
<1>2. PICK q \in Proc : Run(q) \/ Call(q) \/ kill(q)
  BY DEF Next, vars
<1>3. CASE WriteStep(q)
  BY <1>1, <1>3 DEF WriteStep, write_broken, write_full, write_byte,
     write_bad_buffer, write_done, write_resume, WakeReaders
<1>4. CASE ReadStep(q)
  BY <1>1, <1>4 DEF ReadStep, read_sleep, read_resume, read_start, read_byte,
     read_bad_buffer, read_done, WakeWriters
<1>5. CASE CloseStep(q)
  BY <1>1, <1>5 DEF CloseStep, pipeclose_read, pipeclose_write, kfree, WakeAll
<1>6. CASE Call(q)
  BY <1>1, <1>6 DEF Call, pipewrite, piperead, fileclose, fork
<1>7. CASE kill(q)
  BY <1>1, <1>7 DEF kill
<1> QED
  BY <1>2, <1>3, <1>4, <1>5, <1>6, <1>7 DEF Run

\* A reader that falls asleep leaves no writer asleep, since the ring is empty
\* and nobody has taken a byte without a wakeup; a writer wakes the readers
\* before it falls asleep.
LEMMA NextOneSide == IInv /\ OneSideAsleep /\ [Next]_vars => OneSideAsleep'
<1> SUFFICES ASSUME IInv, OneSideAsleep, [Next]_vars, NEW p \in Proc, NEW q \in Proc,
                    pc'[p] = "r_asleep", pc'[q] = "w_asleep"
             PROVE  FALSE
  BY DEF OneSideAsleep
<1>1. pc \in [Proc -> PC] /\ p # q
  BY DEF IInv, TypeOK
<1>2. ASSUME read_sleep(p) PROVE FALSE
  <2>1. pc[p] = "r_wait" /\ Empty /\ pc[q] = "w_asleep"
    BY <1>1, <1>2 DEF read_sleep
  <2>2. \A r \in Proc : pc[r] # "r_loop"
    BY <2>1, Alone DEF Locked
  <2>3. Full
    BY <2>1, <2>2 DEF IInv, SleepInv
  <2> QED
    BY <2>1, <2>3, Count, Sizes DEF IInv
<1>3. ASSUME write_full(q) PROVE FALSE
  BY <1>1, <1>3 DEF write_full, WakeReaders
<1>4. ~ write_full(p) /\ ~ read_sleep(q)
  BY <1>1 DEF write_full, read_sleep, WakeReaders
<1>5. pc[p] = "r_asleep" /\ pc[q] = "w_asleep"
  BY <1>2, <1>3, <1>4, FallsAsleep
<1> QED
  BY <1>5 DEF OneSideAsleep

\* sleep and wakeup in pipewrite, piperead and pipeclose never lose a wakeup,
\* leave nobody asleep on a pipe whose other end is closed, and never leave a
\* reader and a writer asleep together.
THEOREM WakeupsArrive == Spec => []NoLostWakeup
<1>1. ASSUME IInv, OneSideAsleep PROVE NoLostWakeup
  <2>1. ASSUME lock = NoProc, NEW p \in Proc
        PROVE  (pc[p] = "r_asleep" => Empty) /\ (pc[p] = "w_asleep" => Full)
    <3>1. \A q \in Proc : pc[q] # "w_loop" /\ pc[q] # "r_loop"
      BY <1>1, <2>1, Nobody DEF Locked
    <3> QED
      BY <1>1, <3>1 DEF IInv, SleepInv
  <2>2. ASSUME NEW p \in Proc
        PROVE  (pc[p] = "r_asleep" => writeopen = 1) /\ (pc[p] = "w_asleep" => readopen = 1)
    BY <1>1 DEF IInv, SleepInv
  <2> QED
    BY <1>1, <2>1, <2>2 DEF NoLostWakeup
<1>2. IInv /\ OneSideAsleep => NoLostWakeup
  BY <1>1
<1>3. Init => OneSideAsleep
  BY DEF Init, OneSideAsleep
<1> QED
  BY <1>2, <1>3, NextOneSide, InvariantHolds, PTL DEF Spec
=============================================================================
