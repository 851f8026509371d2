----------------------------- MODULE VirtioDisk -----------------------------
(***************************************************************************)
(* The virtio block driver, platform/visionfive2/kernel/virtio_disk.c:     *)
(* virtio_disk_rw for any number of processes, virtio_disk_intr, and the   *)
(* device on the other side of the rings.                                  *)
(*                                                                         *)
(* The driver's steps run under vdisk_lock, but the device shares its      *)
(* memory without a lock: a step is what the device may see at once.       *)
(* Filling in descriptors and a ring entry that nothing published refers   *)
(* to is one step, the ring index and the notification are two more. sleep *)
(* hands the lock over atomically and kkill may end it early. A caller has *)
(* the sleep lock of its buffer, so a buffer is named by its process. That *)
(* the buffer cache gives a block to one process at a time is not assumed. *)
(* Ring indices wrap around at MODULUS (2^16 in the code).                 *)
(***************************************************************************)
EXTENDS Integers, FiniteSets

CONSTANTS
  Proc, NoProc,            \* processes, and the null buffer
  Intr,                    \* virtio_disk_intr, as a holder of the lock
  Block, Value, NoValue,   \* a buffer outside a call, or about to be read into
  NoReq,                   \* no call in progress
  NUM,                     \* descriptors, and entries of each ring
  MODULUS                  \* where the ring indices wrap around

ASSUME VirtioAssumption ==
  /\ NoProc \notin Proc /\ Intr \notin Proc /\ Intr # NoProc
  /\ Value # {} /\ NoValue \notin Value
  /\ NoReq \notin [write : BOOLEAN, block : Block]
  /\ NUM \in Nat /\ NUM >= 3
  /\ MODULUS \in Nat /\ MODULUS > NUM /\ MODULUS % NUM = 0

VARIABLES
  desc, free, info,       \* struct disk, with ops[i] inside desc[i]
  avail, used, used_idx,  \* the rings, and how far the handler has read
  lock,                   \* the holder of vdisk_lock
  disk,                   \* b->disk
  data,                   \* b->data
  req,                    \* the arguments of virtio_disk_rw
  pc, head,               \* where each process is, and its idx[0]
  intr,                   \* where virtio_disk_intr is
  store,                  \* the medium
  seen, taken,            \* device: position in avail, chains being served
  kick, irq,              \* notified; interrupting
  panicked

queue == <<desc, free, info>>
proc == <<disk, req, pc, head>>
device == <<seen, taken, kick>>
vars == <<desc, free, info, avail, used, used_idx, lock, disk, data, req, pc, head,
          intr, store, seen, taken, kick, irq, panicked>>

Desc == 0 .. NUM - 1
NoDesc == NUM          \* nothing in a ring entry
Request == [write : BOOLEAN, block : Block]

Null == <<"null", 0>>

\* What a descriptor may point to, and the descriptor free_desc leaves.
Addr == {Null} \cup ({"ops"} \X Request) \cup ({"data"} \X Proc) \cup ({"status"} \X Desc)
Unused == [addr |-> Null, more |-> FALSE, next |-> 0]

PC == {"idle", "call", "index", "notify", "asleep_free", "woken_free",
       "asleep_buf", "woken_buf"}
Running == panicked = "no"
Owns(p) == lock = p /\ Running
Acquire(x) == lock = NoProc /\ Running /\ lock' = x
Goto(p, l) == pc' = [pc EXCEPT ![p] = l]

\* virtio_disk_init.  A ring entry whose reader has passed it holds NoDesc, so
\* that reading it again is not mistaken for a request.
Init ==
  /\ desc = [d \in Desc |-> Unused]
  /\ free = Desc
  /\ info = [d \in Desc |-> [b |-> NoProc, status |-> 0]]
  /\ avail = [ring |-> [d \in Desc |-> NoDesc], idx |-> 0]
  /\ used = [ring |-> [d \in Desc |-> NoDesc], idx |-> 0]
  /\ used_idx = 0
  /\ lock = NoProc
  /\ disk = [p \in Proc |-> 0]
  /\ data = [p \in Proc |-> NoValue]
  /\ req = [p \in Proc |-> NoReq]
  /\ pc = [p \in Proc |-> "idle"]
  /\ head = [p \in Proc |-> NoDesc]
  /\ intr = "idle"
  /\ store \in [Block -> Value]
  /\ seen = 0 /\ taken = {} /\ kick = 0 /\ irq = 0
  /\ panicked = "no"

-----------------------------------------------------------------------------
\* virtio_disk_rw

\* Mutant of WakeFree: free_desc without wakeup.
WakeFree_missing(p, l) == [pc EXCEPT ![p] = l]

\* wakeup(&disk.free[0]) by p, which goes on at l.
WakeFree(p, l) ==
  [q \in Proc |-> IF q = p THEN l
                  ELSE IF pc[q] = "asleep_free" THEN "woken_free" ELSE pc[q]]

virtio_disk_rw(p, r, v) ==
  /\ pc[p] = "idle" /\ Running
  /\ req' = [req EXCEPT ![p] = r]
  /\ IF r.write THEN v \in Value ELSE v = NoValue
  /\ data' = [data EXCEPT ![p] = v]
  /\ Goto(p, "call")
  /\ UNCHANGED <<queue, avail, used, used_idx, lock, disk, head, intr, store, device, irq,
                 panicked>>

\* The three lowest free descriptors, which is what alloc_desc finds in turn.
Lowest3(a, b, c) ==
  /\ {a, b, c} \subseteq free
  /\ a < b /\ b < c
  /\ \A d \in free : d < c => d \in {a, b}

\* alloc3_desc succeeds; the three descriptors, info and the next entry of the
\* available ring are filled in.
alloc3_desc(p) ==
  /\ pc[p] \in {"call", "woken_free"}
  /\ Acquire(p)
  /\ \E a, b, c \in free :
       /\ Lowest3(a, b, c)
       /\ free' = free \ {a, b, c}
       /\ head' = [head EXCEPT ![p] = a]
       /\ desc' = [desc EXCEPT
                     ![a] = [addr |-> <<"ops", req[p]>>, more |-> TRUE, next |-> b],
                     ![b] = [addr |-> <<"data", p>>, more |-> TRUE, next |-> c],
                     ![c] = [addr |-> <<"status", a>>, more |-> FALSE, next |-> 0]]
       /\ info' = [info EXCEPT ![a] = [b |-> p, status |-> 255]]
       /\ avail' = [avail EXCEPT !.ring[avail.idx % NUM] = a]
  /\ disk' = [disk EXCEPT ![p] = 1]
  /\ Goto(p, "index")
  /\ UNCHANGED <<used, used_idx, data, req, intr, store, device, irq, panicked>>

\* alloc3_desc fails and gives back what it took, waking the other sleepers if
\* that was something; the process sleeps.
alloc3_fail(p) ==
  /\ pc[p] \in {"call", "woken_free"}
  /\ Cardinality(free) < 3
  /\ lock = NoProc /\ Running
  /\ desc' = [d \in Desc |-> IF d \in free THEN Unused ELSE desc[d]]
  /\ pc' = IF free # {} THEN WakeFree(p, "asleep_free") ELSE [pc EXCEPT ![p] = "asleep_free"]
  /\ UNCHANGED <<free, info, avail, used, used_idx, lock, disk, data, req, head, intr, store,
                 device, irq, panicked>>

\* Mutant of put_index: the published index is kept below NUM.
put_index_mod_NUM(p) ==
  /\ pc[p] = "index" /\ Owns(p)
  /\ avail' = [avail EXCEPT !.idx = (@ + 1) % NUM]
  /\ Goto(p, "notify")
  /\ UNCHANGED <<queue, used, used_idx, lock, disk, data, req, head, intr, store, device, irq,
                 panicked>>

\* avail->idx += 1
put_index(p) ==
  /\ pc[p] = "index" /\ Owns(p)
  /\ avail' = [avail EXCEPT !.idx = (@ + 1) % MODULUS]
  /\ Goto(p, "notify")
  /\ UNCHANGED <<queue, used, used_idx, lock, disk, data, req, head, intr, store, device, irq,
                 panicked>>

\* Mutant of Notified: no notification while the device is busy.
Notified_if_idle == IF taken = {} THEN 1 ELSE kick

\* QUEUE_NOTIFY
Notified == 1

\* The notification and the first sleep(b, &vdisk_lock): b->disk is still 1, for
\* virtio_disk_intr clears it under the lock.
notify(p) ==
  /\ pc[p] = "notify" /\ Owns(p)
  /\ kick' = Notified
  /\ Goto(p, "asleep_buf")
  /\ lock' = NoProc
  /\ UNCHANGED <<queue, avail, used, used_idx, disk, data, req, head, intr, store, seen, taken,
                 irq, panicked>>

\* Mutant of Finished: "if" where the code has "while".
Finished_woken(p) == TRUE

\* The loop over b->disk ends.
Finished(p) == disk[p] = 0

\* while (b->disk == 1) sleep(b, &vdisk_lock): woken, and not finished.
wait_again(p) ==
  /\ pc[p] = "woken_buf" /\ lock = NoProc /\ Running
  /\ ~ Finished(p)
  /\ Goto(p, "asleep_buf")
  /\ UNCHANGED <<queue, avail, used, used_idx, lock, disk, data, req, head, intr, store, device,
                 irq, panicked>>

\* Mutant of free_chain: the chain is taken to end one descriptor early.
free_chain_short(h) ==
  {h} \cup IF desc[h].more THEN {desc[h].next} ELSE {}

\* The descriptors free_chain goes through from h on.
free_chain(h) ==
  LET d == desc[h].next
      s == desc[d].next
  IN  {h} \cup IF ~ desc[h].more THEN {} ELSE {d} \cup IF ~ desc[d].more THEN {} ELSE {s}

\* The request is finished: info[idx[0]].b = 0, free_chain, which panics at a
\* free descriptor and wakes the processes that wait for one, and return.
wait_done(p) ==
  LET h == head[p] IN
  /\ pc[p] = "woken_buf" /\ lock = NoProc /\ Running
  /\ Finished(p)
  /\ panicked' = IF free_chain(h) \cap free # {} THEN "free_desc" ELSE "no"
  /\ info' = [info EXCEPT ![h].b = NoProc]
  /\ desc' = [d \in Desc |-> IF d \in free_chain(h) THEN Unused ELSE desc[d]]
  /\ free' = free \cup free_chain(h)
  /\ head' = [head EXCEPT ![p] = NoDesc]
  /\ req' = [req EXCEPT ![p] = NoReq]
  /\ data' = [data EXCEPT ![p] = NoValue]
  /\ pc' = WakeFree(p, "idle")
  /\ UNCHANGED <<avail, used, used_idx, lock, disk, intr, store, device, irq>>

\* kkill makes a sleeping process RUNNABLE whatever it sleeps on.
kkill(p) ==
  /\ Running
  /\ \/ pc[p] = "asleep_free" /\ Goto(p, "woken_free")
     \/ pc[p] = "asleep_buf" /\ Goto(p, "woken_buf")
  /\ UNCHANGED <<queue, avail, used, used_idx, lock, disk, data, req, head, intr, store, device,
                 irq, panicked>>

-----------------------------------------------------------------------------
\* virtio_disk_intr

\* The lock and INTERRUPT_ACK; an interrupt the device raises from now on is a
\* new one.
intr_start ==
  /\ intr = "idle" /\ irq = 1
  /\ Acquire(Intr)
  /\ irq' = 0
  /\ intr' = "loop"
  /\ UNCHANGED <<queue, avail, used, used_idx, proc, data, store, device, panicked>>

\* The process whose request a used entry completes; none if the status is not
\* success or the entry names no request.
Completed(id) == IF id \in Desc /\ info[id].status = 0 THEN info[id].b ELSE NoProc

\* Mutant of intr_entry: used_idx is kept below NUM.
intr_entry_mod_NUM ==
  LET b == Completed(used.ring[used_idx % NUM]) IN
  /\ intr = "loop" /\ Owns(Intr)
  /\ used_idx # used.idx
  /\ panicked' = IF b = NoProc THEN "virtio_disk_intr" ELSE "no"
  /\ disk' = [p \in Proc |-> IF p = b THEN 0 ELSE disk[p]]
  /\ pc' = [p \in Proc |-> IF p = b /\ pc[p] = "asleep_buf" THEN "woken_buf" ELSE pc[p]]
  /\ used_idx' = (used_idx + 1) % NUM
  /\ used' = [used EXCEPT !.ring[used_idx % NUM] = NoDesc]
  /\ UNCHANGED <<queue, avail, lock, data, req, head, intr, store, device, irq>>

\* One turn of the loop: the entry at used_idx.
intr_entry ==
  LET b == Completed(used.ring[used_idx % NUM]) IN
  /\ intr = "loop" /\ Owns(Intr)
  /\ used_idx # used.idx
  /\ panicked' = IF b = NoProc THEN "virtio_disk_intr" ELSE "no"
  /\ disk' = [p \in Proc |-> IF p = b THEN 0 ELSE disk[p]]
  /\ pc' = [p \in Proc |-> IF p = b /\ pc[p] = "asleep_buf" THEN "woken_buf" ELSE pc[p]]
  /\ used_idx' = (used_idx + 1) % MODULUS
  /\ used' = [used EXCEPT !.ring[used_idx % NUM] = NoDesc]
  /\ UNCHANGED <<queue, avail, lock, data, req, head, intr, store, device, irq>>

\* The loop has caught up with used->idx.
intr_end ==
  /\ intr = "loop" /\ Owns(Intr)
  /\ used_idx = used.idx
  /\ intr' = "end"
  /\ UNCHANGED <<queue, avail, used, used_idx, lock, proc, data, store, device, irq, panicked>>

\* Mutant of intr_release: the interrupt is acknowledged after the loop.
intr_release_ack ==
  /\ intr = "end" /\ Owns(Intr)
  /\ intr' = "idle"
  /\ irq' = 0
  /\ lock' = NoProc
  /\ UNCHANGED <<queue, avail, used, used_idx, proc, data, store, device, panicked>>

intr_release ==
  /\ intr = "end" /\ Owns(Intr)
  /\ intr' = "idle"
  /\ lock' = NoProc
  /\ UNCHANGED <<queue, avail, used, used_idx, proc, data, store, device, irq, panicked>>

-----------------------------------------------------------------------------
\* The device, as the driver expects it: once notified it takes the published
\* chains in order, serves them in any order, and interrupts after each.

\* Three linked descriptors: a header, a buffer, and where the status goes.
Wellformed(h) ==
  LET d == desc[h].next
      s == desc[d].next
  IN  /\ desc[h].more /\ desc[h].addr \in {"ops"} \X Request
      /\ desc[d].more /\ desc[d].addr \in {"data"} \X Proc
      /\ ~ desc[s].more /\ desc[s].addr = <<"status", h>>

dev_take ==
  /\ kick = 1 /\ seen # avail.idx /\ Running
  /\ avail.ring[seen % NUM] \in Desc
  /\ taken' = taken \cup {avail.ring[seen % NUM]}
  /\ avail' = [avail EXCEPT !.ring[seen % NUM] = NoDesc]
  /\ seen' = (seen + 1) % MODULUS
  /\ UNCHANGED <<queue, used, used_idx, lock, proc, data, intr, store, kick, irq,
                 panicked>>

dev_idle ==
  /\ kick = 1 /\ seen = avail.idx /\ Running
  /\ kick' = 0
  /\ UNCHANGED <<queue, avail, used, used_idx, lock, proc, data, intr, store, seen, taken,
                 irq, panicked>>

dev_serve(h) ==
  LET r == desc[h].addr[2]
      p == desc[desc[h].next].addr[2]
  IN  /\ h \in taken /\ Running
      /\ Wellformed(h)
      /\ \/ /\ r.write
            /\ store' = [store EXCEPT ![r.block] = data[p]]
            /\ UNCHANGED data
         \/ /\ ~ r.write
            /\ data' = [data EXCEPT ![p] = store[r.block]]
            /\ UNCHANGED store
      /\ info' = [info EXCEPT ![h].status = 0]
      /\ used' = [ring |-> [used.ring EXCEPT ![used.idx % NUM] = h],
                  idx |-> (used.idx + 1) % MODULUS]
      /\ taken' = taken \ {h}
      /\ irq' = 1
      /\ UNCHANGED <<desc, free, avail, used_idx, lock, proc, intr, seen, kick, panicked>>

-----------------------------------------------------------------------------
ProcStep(p) ==
  \/ alloc3_desc(p) \/ alloc3_fail(p) \/ put_index(p) \/ notify(p)
  \/ wait_again(p) \/ wait_done(p)
IntrStep == intr_start \/ intr_entry \/ intr_end \/ intr_release
DeviceStep == dev_take \/ dev_idle \/ \E h \in Desc : dev_serve(h)
Call(p) == \E r \in Request, v \in Value \cup {NoValue} : virtio_disk_rw(p, r, v)

Next ==
  \/ \E p \in Proc : ProcStep(p) \/ Call(p) \/ kkill(p)
  \/ IntrStep
  \/ DeviceStep

Spec == Init /\ [][Next]_vars

-----------------------------------------------------------------------------
\* The types of the driver's and the device's state; ring indices keep their
\* width.
TypeOK ==
  /\ desc \in [Desc -> [addr : Addr, more : BOOLEAN, next : Desc]]
  /\ free \subseteq Desc
  /\ info \in [Desc -> [b : Proc \cup {NoProc}, status : {0, 255}]]
  /\ avail \in [ring : [Desc -> Desc \cup {NoDesc}], idx : 0 .. MODULUS - 1]
  /\ used \in [ring : [Desc -> Desc \cup {NoDesc}], idx : 0 .. MODULUS - 1]
  /\ used_idx \in 0 .. MODULUS - 1 /\ seen \in 0 .. MODULUS - 1
  /\ lock \in Proc \cup {NoProc, Intr}
  /\ disk \in [Proc -> {0, 1}]
  /\ data \in [Proc -> Value \cup {NoValue}] /\ store \in [Block -> Value]
  /\ req \in [Proc -> Request \cup {NoReq}]
  /\ pc \in [Proc -> PC]
  /\ head \in [Proc -> Desc \cup {NoDesc}]
  /\ intr \in {"idle", "loop", "end"}
  /\ taken \subseteq Desc
  /\ kick \in {0, 1} /\ irq \in {0, 1}
  /\ panicked \in {"no", "free_desc", "virtio_disk_intr"}

Formatted == {"index", "notify", "asleep_buf", "woken_buf"}
Phase(p) ==
  IF pc[p] = "idle" THEN "idle"
  ELSE IF pc[p] \in Formatted /\ info[head[p]].status = 0 THEN "done"
  ELSE "pending"

Service == INSTANCE DiskService WITH phase <- [p \in Proc |-> Phase(p)]

\* The driver implements the disk service: a call returns only after its own
\* request was carried out, once, on the block and with the buffer it named,
\* however the requests of others and the device's answers interleave.
Serves == Service!Spec

\* Neither the free_desc panics nor the status panic of virtio_disk_intr is
\* reached, and the handler never meets an entry without a buffer.
NoPanic == panicked = "no"

\* A descriptor is free or in the chain of exactly one request: alloc3_desc and
\* free_chain neither leak a descriptor nor share one.
DescriptorsOwned ==
  \A d \in Desc : Cardinality({p \in Proc : head[p] # NoDesc /\ d \in free_chain(head[p])})
                    = IF d \in free THEN 0 ELSE 1

\* The chains the device has been offered and has not served.
Offered ==
  taken \cup {avail.ring[(seen + i) % NUM] : i \in 0 .. ((avail.idx - seen) % MODULUS) - 1}

\* h is in the available ring, with the device, or in the used ring.
Tracked(h) ==
  h \in taken \/ \E i \in Desc : avail.ring[i] = h \/ used.ring[i] = h

\* No request is forgotten: until virtio_disk_intr has cleared b->disk, its head
\* is in a ring or with the device.
NoRequestLost ==
  \A p \in Proc : pc[p] \in Formatted /\ disk[p] = 1 => Tracked(head[p])

\* Whatever the device may look at is a complete chain of a process that waits
\* for it, also after the indices have wrapped around: no entry of the available
\* ring is overwritten before it is taken, and no chain is freed before it is
\* served.  And no request is forgotten on the way from virtio_disk_rw through
\* the device to virtio_disk_intr.
OfferedIntact ==
  /\ \A h \in Offered :
       h \in Desc /\ Wellformed(h) /\ \E p \in Proc : head[p] = h /\ disk[p] = 1
  /\ NoRequestLost

\* A used entry the handler has not read is always announced: an interrupt is
\* raised, or the handler is yet to look.  This is the race of INTERRUPT_ACK with
\* new entries.
NoLostCompletion ==
  used_idx # used.idx => irq = 1 \/ intr = "loop"

\* Nobody sleeps on free[0] while three descriptors are free, nor on a buffer
\* whose request the handler has seen completed.
NoLostWakeup ==
  \A p \in Proc :
    /\ pc[p] = "asleep_free" => Cardinality(free) < 3
    /\ pc[p] = "asleep_buf" => disk[p] = 1

\* A published chain the device has not taken is always announced, although the
\* device stops looking when it has caught up.
NoLostNotify ==
  seen # avail.idx => kick = 1 \/ \E p \in Proc : pc[p] = "notify"

\* Who can go on: a process in its critical section, or one that finds
\* vdisk_lock free when it wants it; the handler, likewise; the device with a
\* chain to take or to serve.  These are the guards of ProcStep, IntrStep and
\* DeviceStep, but for dev_idle's.
ProcReady(p) ==
  \/ lock = p /\ pc[p] \in {"index", "notify"}
  \/ lock = NoProc /\ pc[p] \in {"call", "woken_free", "woken_buf"}
IntrReady ==
  \/ lock = Intr /\ intr \in {"loop", "end"}
  \/ lock = NoProc /\ intr = "idle" /\ irq = 1
DeviceReady ==
  \/ kick = 1 /\ seen # avail.idx /\ avail.ring[seen % NUM] \in Desc
  \/ \E h \in taken : Wellformed(h)

\* Processes, handler and device never all wait for each other: while a call of
\* virtio_disk_rw is under way one of them can go on.
NeverStuck ==
  (\E p \in Proc : pc[p] # "idle") =>
    Running /\ ((\E p \in Proc : ProcReady(p)) \/ IntrReady \/ DeviceReady)

-----------------------------------------------------------------------------
\* The inductive invariant behind the theorems of VirtioDiskProofs.

\* Who is inside the critical section.
LockInv ==
  /\ \A p \in Proc : lock = p <=> pc[p] \in {"index", "notify"}
  /\ lock = Intr <=> intr # "idle"

CallInv ==
  \A p \in Proc :
    /\ req[p] = NoReq <=> pc[p] = "idle"
    /\ head[p] = NoDesc <=> pc[p] \notin Formatted
    /\ pc[p] \in {"index", "notify"} => disk[p] = 1

\* A buffer to be written holds data.
DataInv == \A p \in Proc : pc[p] # "idle" /\ req[p].write => data[p] \in Value

Second(p) == desc[head[p]].next
Third(p) == desc[Second(p)].next
Members(p) == {head[p], Second(p), Third(p)}

\* The chain of a request is as virtio_disk_rw filled it in.
ChainInv ==
  \A p \in Proc : pc[p] \in Formatted =>
    /\ head[p] # Second(p) /\ head[p] # Third(p) /\ Second(p) # Third(p)
    /\ Members(p) \cap free = {}
    /\ desc[head[p]].more /\ desc[head[p]].addr = <<"ops", req[p]>>
    /\ desc[Second(p)].more /\ desc[Second(p)].addr = <<"data", p>>
    /\ ~ desc[Third(p)].more /\ desc[Third(p)].addr = <<"status", head[p]>>
    /\ info[head[p]].b = p

\* Chains share no descriptor, and with the free ones they are all there is.
ShareInv ==
  /\ \A p, q \in Proc : p # q /\ pc[p] \in Formatted /\ pc[q] \in Formatted =>
       Members(p) \cap Members(q) = {}
  /\ \A d \in Desc \ free : \E p \in Proc : pc[p] \in Formatted /\ d \in Members(p)

\* h is the head of a request the device has yet to carry out.
Unserved(h) == \E p \in Proc : pc[p] \in Formatted /\ head[p] = h /\ info[h].status = 255

\* A request is known to the device at most once.
OfferInv ==
  /\ \A h \in taken : Unserved(h)
  /\ \A i \in Desc : avail.ring[i] # NoDesc =>
       /\ Unserved(avail.ring[i]) /\ avail.ring[i] \notin taken
       /\ \A j \in Desc : avail.ring[j] = avail.ring[i] => j = i

\* h is the head of a request that is carried out, which its process has yet to
\* be told.
Untold(h) ==
  \E p \in Proc : pc[p] \in Formatted /\ head[p] = h /\ info[h].status = 0 /\ disk[p] = 1

\* A request is in the used ring at most once.
UsedInv ==
  \A i \in Desc : used.ring[i] # NoDesc =>
    /\ Untold(used.ring[i])
    /\ \A j \in Desc : used.ring[j] = used.ring[i] => j = i

\* The entries of a ring that hold something are the n entries from index s on.
Holds(ring, s, n) ==
  n <= NUM /\ \A j \in Desc : ring[j] # NoDesc <=> (j - s) % NUM < n

\* An entry of the available ring is filled in, and not published yet.
Filled == IF \E p \in Proc : pc[p] = "index" THEN 1 ELSE 0

AvailRing == Holds(avail.ring, seen, ((avail.idx - seen) % MODULUS) + Filled)
UsedRing == Holds(used.ring, used_idx, (used.idx - used_idx) % MODULUS)

DoneInv == \A p \in Proc : pc[p] \in Formatted /\ disk[p] = 0 => info[head[p]].status = 0

IInv ==
  /\ TypeOK /\ LockInv /\ CallInv /\ DataInv /\ ChainInv /\ ShareInv
  /\ OfferInv /\ UsedInv /\ DoneInv /\ AvailRing /\ UsedRing
  /\ NoPanic /\ NoLostCompletion /\ NoLostWakeup /\ NoLostNotify
=============================================================================
