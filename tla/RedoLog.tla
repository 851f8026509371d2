------------------------------ MODULE RedoLog ------------------------------
(***************************************************************************)
(* The physical redo log of kernel/log.c, with the parts of the buffer     *)
(* cache and of the disk it relies on, crashes and recovery.               *)
(*                                                                         *)
(* A step is one critical section of log.lock or one block written to the  *)
(* disk.  A process may be interrupted between any two of them, so the     *)
(* interleavings include those of the one-hart cooperative kernel.  A      *)
(* block is two sectors; a crash during a write leaves any subset of them  *)
(* on the disk.  The header lies in the first sector of its block (124     *)
(* bytes), so its write is atomic.                                         *)
(***************************************************************************)
EXTENDS Integers, Sequences, FiniteSets

CONSTANTS
  Proc,          \* processes that run file-system operations
  Block,         \* home blocks
  NoBlock,       \* not a block: no buffer is held
  Sector, Word,  \* a block's content is a word per sector
  MAXOPBLOCKS,   \* blocks reserved for an operation (param.h)
  LOGSIZE,       \* capacity used for admission (param.h)
  NLOG,          \* blocks of the log region, header included (mkfs)
  OpBlocks       \* distinct blocks an operation really logs

ASSUME LogAssumption ==
  /\ MAXOPBLOCKS \in Nat /\ LOGSIZE \in Nat /\ OpBlocks \in Nat
  /\ NLOG \in Nat /\ NLOG > 0
  /\ IsFiniteSet(Proc)
  /\ NoBlock \notin Block
  /\ Word # {}

Content == [Sector -> Word]
Zero == [s \in Sector |-> CHOOSE w \in Word : TRUE]

VARIABLES
  \* on the disk
  home,         \* the home blocks
  slot,         \* the data blocks of the log region
  hdr,          \* the header: home block numbers block[0..n-1]
  \* in memory
  cache,        \* what bread returns for a home block
  pinned,       \* buf.pinned of a home block's buffer
  lh,           \* log.lh: the first n entries of block[]
  outstanding,  \* log.outstanding
  committing,   \* log.committing
  tail,         \* the loop counter of write_log and install_trans
  boot,         \* progress of initlog; "up" when it has returned
  pc,           \* where each process is
  hold,         \* the buffer whose sleep lock an operation holds
  wrote,        \* the blocks an operation has logged
  panicked      \* the message of the panic that stopped the machine

diskVars == <<home, slot, hdr>>
memVars == <<cache, pinned, lh>>
opVars == <<hold, wrote>>
vars == <<home, slot, hdr, cache, pinned, lh, outstanding, committing, tail,
          boot, pc, hold, wrote, panicked>>

CommitPC == {"write_log", "write_head", "install", "clear_head", "commit_done"}
PC == {"idle", "asleep", "woken", "op"} \cup CommitPC
Boot == {"read_head", "install", "clear_head", "up"}
Panic == {"none", "too big a transaction", "outside of transaction",
          "committing during end_op", "invalid header count",
          "impossible block number"}

Active == {p \in Proc : pc[p] = "op"}
Running == boot = "up" /\ panicked = "none"

-----------------------------------------------------------------------------
(* Initial state: the image mkfs writes, about to be mounted.              *)

Init ==
  /\ home \in [Block -> Content]
  /\ slot = [i \in 1 .. NLOG - 1 |-> Zero]
  /\ hdr = <<>>
  /\ cache = home
  /\ pinned = [b \in Block |-> 0]
  /\ lh = <<>>
  /\ outstanding = 0
  /\ committing = 0
  /\ tail = 0
  /\ boot = "read_head"
  /\ pc = [p \in Proc |-> "idle"]
  /\ hold = [p \in Proc |-> NoBlock]
  /\ wrote = [p \in Proc |-> {}]
  /\ panicked = "none"

-----------------------------------------------------------------------------
(* Helpers.                                                                *)

\* Mutant of MustWait: begin_op does not look at log.committing.
MustWait_ignores_commit ==
  Len(lh) + (outstanding + 1) * MAXOPBLOCKS > LOGSIZE

\* Mutant of MustWait: the open operations' reservations are not counted.
MustWait_own_only ==
  committing = 1 \/ Len(lh) + MAXOPBLOCKS > LOGSIZE

\* begin_op's two reasons to sleep.
MustWait ==
  \/ committing = 1
  \/ Len(lh) + (outstanding + 1) * MAXOPBLOCKS > LOGSIZE

\* log_write's capacity check.
LogFull == Len(lh) >= LOGSIZE \/ Len(lh) >= NLOG - 1

Logged(b) == \E i \in 1 .. Len(lh) : lh[i] = b

\* Mutant of Pin: log_write does not pin.
Pin_missing(b) == pinned

\* bpin and bunpin.
Pin(b) == [pinned EXCEPT ![b] = @ + 1]
Unpin(b) == [pinned EXCEPT ![b] = @ - 1]

\* Mutant of WakeupLog: the wakeup is forgotten.
WakeupLog_missing(p, next) == [pc EXCEPT ![p] = next]

\* wakeup(&log) by p, which itself goes on at `next'.
WakeupLog(p, next) ==
  [q \in Proc |-> IF q = p THEN next
                  ELSE IF pc[q] = "asleep" THEN "woken" ELSE pc[q]]

\* panic(): the machine stops.
Panics(msg) ==
  /\ panicked' = msg
  /\ UNCHANGED <<diskVars, memVars, opVars, outstanding, committing, tail, boot,
                 pc>>

\* Mutants of CommitStart: the header is written without the data; a
\* transaction of one block is not committed.
CommitStart_head_first == IF Len(lh) > 0 THEN "write_head" ELSE "commit_done"
CommitStart_off_by_one == IF Len(lh) > 1 THEN "write_log" ELSE "commit_done"

\* What end_op's caller does next when it is the last operation.
CommitStart == IF Len(lh) > 0 THEN "write_log" ELSE "commit_done"

-----------------------------------------------------------------------------
(* Operations: begin_op, updates of buffers, log_write, end_op.            *)

begin_wait(p) ==
  /\ Running
  /\ pc[p] \in {"idle", "woken"}
  /\ MustWait
  /\ pc' = [pc EXCEPT ![p] = "asleep"]
  /\ UNCHANGED <<diskVars, memVars, opVars, outstanding, committing, tail, boot,
                 panicked>>

begin_admit(p) ==
  /\ Running
  /\ pc[p] \in {"idle", "woken"}
  /\ ~MustWait
  /\ pc' = [pc EXCEPT ![p] = "op"]
  /\ outstanding' = outstanding + 1
  /\ UNCHANGED <<diskVars, memVars, opVars, committing, tail, boot, panicked>>

begin_op(p) == begin_wait(p) \/ begin_admit(p)

\* The operation breads b and changes its data under the buffer's sleep lock.
\* It logs at most OpBlocks distinct blocks.
Modify(p, b, c) ==
  /\ Running
  /\ pc[p] = "op" /\ hold[p] = NoBlock
  /\ \A q \in Proc : hold[q] # b
  /\ Cardinality(wrote[p] \cup {b}) <= OpBlocks
  /\ cache' = [cache EXCEPT ![b] = c]
  /\ hold' = [hold EXCEPT ![p] = b]
  /\ UNCHANGED <<diskVars, pinned, lh, outstanding, committing, tail, boot,
                 pc, wrote, panicked>>

\* The block is in the header already: no new slot and no second pin.
log_absorb(p) ==
  /\ wrote' = [wrote EXCEPT ![p] = @ \cup {hold[p]}]
  /\ hold' = [hold EXCEPT ![p] = NoBlock]
  /\ UNCHANGED <<diskVars, memVars, outstanding, committing, tail, boot, pc,
                 panicked>>

\* A new entry, and bpin.
log_append(p) ==
  /\ lh' = Append(lh, hold[p])
  /\ pinned' = Pin(hold[p])
  /\ wrote' = [wrote EXCEPT ![p] = @ \cup {hold[p]}]
  /\ hold' = [hold EXCEPT ![p] = NoBlock]
  /\ UNCHANGED <<diskVars, cache, outstanding, committing, tail, boot, pc,
                 panicked>>

\* log_write of the held buffer, then brelse.  The capacity check comes
\* before the search for an entry that already names the block.
log_write(p) ==
  /\ Running
  /\ hold[p] # NoBlock
  /\ IF LogFull THEN Panics("too big a transaction")
     ELSE IF outstanding < 1 THEN Panics("outside of transaction")
     ELSE IF Logged(hold[p]) THEN log_absorb(p)
     ELSE log_append(p)

\* The last operation becomes the committer.
end_last(p) ==
  /\ outstanding' = outstanding - 1
  /\ committing' = 1
  /\ tail' = 0
  /\ pc' = [pc EXCEPT ![p] = CommitStart]
  /\ wrote' = [wrote EXCEPT ![p] = {}]
  /\ UNCHANGED <<diskVars, memVars, hold, boot, panicked>>

\* Any other operation wakes the processes waiting for admission.
end_other(p) ==
  /\ outstanding' = outstanding - 1
  /\ pc' = WakeupLog(p, "idle")
  /\ wrote' = [wrote EXCEPT ![p] = {}]
  /\ UNCHANGED <<diskVars, memVars, hold, committing, tail, boot, panicked>>

\* end_op up to the release of log.lock.
end_op(p) ==
  /\ Running
  /\ pc[p] = "op" /\ hold[p] = NoBlock
  /\ IF committing = 1 THEN Panics("committing during end_op")
     ELSE IF outstanding - 1 = 0 THEN end_last(p)
     ELSE end_other(p)

-----------------------------------------------------------------------------
(* commit, one disk write at a time, with log.lock released.               *)

write_log(p) ==
  /\ Running
  /\ pc[p] = "write_log"
  /\ slot' = [slot EXCEPT ![tail + 1] = cache[lh[tail + 1]]]
  /\ tail' = tail + 1
  /\ pc' = [pc EXCEPT ![p] = IF tail + 1 < Len(lh) THEN "write_log"
                                                   ELSE "write_head"]
  /\ UNCHANGED <<home, hdr, memVars, opVars, outstanding, committing, boot,
                 panicked>>

\* The commit point.
write_head(p) ==
  /\ Running
  /\ pc[p] = "write_head"
  /\ hdr' = lh
  /\ tail' = 0
  /\ pc' = [pc EXCEPT ![p] = "install"]
  /\ UNCHANGED <<home, slot, memVars, opVars, outstanding, committing, boot,
                 panicked>>

\* One iteration of install_trans(0).
install_trans(p) ==
  /\ Running
  /\ pc[p] = "install"
  /\ LET b == lh[tail + 1] IN
       /\ cache' = [cache EXCEPT ![b] = slot[tail + 1]]
       /\ home' = [home EXCEPT ![b] = slot[tail + 1]]
       /\ pinned' = Unpin(b)
  /\ tail' = tail + 1
  /\ pc' = [pc EXCEPT ![p] = IF tail + 1 < Len(lh) THEN "install"
                                                   ELSE "clear_head"]
  /\ UNCHANGED <<slot, hdr, lh, opVars, outstanding, committing, boot,
                 panicked>>

\* log.lh.n = 0 and the second write_head.
clear_head(p) ==
  /\ Running
  /\ pc[p] = "clear_head"
  /\ lh' = <<>>
  /\ hdr' = <<>>
  /\ tail' = 0
  /\ pc' = [pc EXCEPT ![p] = "commit_done"]
  /\ UNCHANGED <<home, slot, cache, pinned, opVars, outstanding, committing,
                 boot, panicked>>

\* end_op's second critical section.
commit_done(p) ==
  /\ Running
  /\ pc[p] = "commit_done"
  /\ committing' = 0
  /\ pc' = WakeupLog(p, "idle")
  /\ UNCHANGED <<diskVars, memVars, opVars, outstanding, tail, boot, panicked>>

-----------------------------------------------------------------------------
(* The buffer cache may recycle a buffer that is neither locked nor pinned *)
(* (bget); a later bread reads the home block again.                       *)

Evict(b) ==
  /\ Running
  /\ pinned[b] = 0
  /\ \A p \in Proc : hold[p] # b
  /\ cache' = [cache EXCEPT ![b] = home[b]]
  /\ UNCHANGED <<diskVars, pinned, lh, opVars, outstanding, committing, tail,
                 boot, pc, panicked>>

-----------------------------------------------------------------------------
(* Crash and recovery.                                                     *)

\* What a crash in the middle of writing `new' over `old' may leave.
Torn(old, new) ==
  {[s \in Sector |-> IF s \in S THEN new[s] ELSE old[s]] :
      S \in SUBSET Sector}

\* The log slot, respectively the home block, whose write is in progress.
SlotInFlight(i) ==
  /\ boot = "up" /\ i = tail + 1
  /\ \E p \in Proc : pc[p] = "write_log"
HomeInFlight(b) ==
  /\ tail < Len(lh) /\ b = lh[tail + 1]
  /\ \/ boot = "install"
     \/ boot = "up" /\ \E p \in Proc : pc[p] = "install"

\* Memory is lost; the cache is empty, so bread returns what the disk holds.
Restart ==
  /\ cache' = home'
  /\ pinned' = [b \in Block |-> 0]
  /\ lh' = <<>>
  /\ outstanding' = 0
  /\ committing' = 0
  /\ tail' = 0
  /\ boot' = "read_head"
  /\ pc' = [p \in Proc |-> "idle"]
  /\ hold' = [p \in Proc |-> NoBlock]
  /\ wrote' = [p \in Proc |-> {}]
  /\ panicked' = "none"

Crash ==
  /\ \/ UNCHANGED <<home, slot>>
     \/ \E i \in DOMAIN slot :
          /\ SlotInFlight(i)
          /\ \E c \in Torn(slot[i], cache[lh[i]]) :
               slot' = [slot EXCEPT ![i] = c]
          /\ UNCHANGED home
     \/ \E b \in Block :
          /\ HomeInFlight(b)
          /\ \E c \in Torn(home[b], slot[tail + 1]) :
               home' = [home EXCEPT ![b] = c]
          /\ UNCHANGED slot
  /\ UNCHANGED hdr
  /\ Restart

\* Mutant of read_head_ok: recovery clears the header without replaying it.
read_head_no_replay ==
  /\ lh' = hdr
  /\ tail' = 0
  /\ boot' = "clear_head"
  /\ UNCHANGED <<diskVars, cache, pinned, opVars, outstanding, committing, pc,
                 panicked>>

\* initlog resets the log's memory; read_head validates the header before
\* anything is replayed.
read_head_ok ==
  /\ lh' = hdr
  /\ tail' = 0
  /\ boot' = IF Len(hdr) > 0 THEN "install" ELSE "clear_head"
  /\ UNCHANGED <<diskVars, cache, pinned, opVars, outstanding, committing, pc,
                 panicked>>

read_head ==
  /\ panicked = "none"
  /\ boot = "read_head"
  /\ IF Len(hdr) >= NLOG THEN Panics("invalid header count")
     ELSE IF \E n \in DOMAIN hdr : hdr[n] \notin Block
          THEN Panics("impossible block number")
     ELSE read_head_ok

\* Mutant of recover_install: the loop counter is not advanced.
recover_install_stuck ==
  /\ panicked = "none"
  /\ boot = "install"
  /\ LET b == lh[tail + 1] IN
       /\ cache' = [cache EXCEPT ![b] = slot[tail + 1]]
       /\ home' = [home EXCEPT ![b] = slot[tail + 1]]
  /\ boot' = IF tail + 1 < Len(lh) THEN "install" ELSE "clear_head"
  /\ UNCHANGED <<slot, hdr, pinned, lh, opVars, outstanding, committing, tail,
                 pc, panicked>>

\* One iteration of install_trans(1).
recover_install ==
  /\ panicked = "none"
  /\ boot = "install"
  /\ LET b == lh[tail + 1] IN
       /\ cache' = [cache EXCEPT ![b] = slot[tail + 1]]
       /\ home' = [home EXCEPT ![b] = slot[tail + 1]]
  /\ tail' = tail + 1
  /\ boot' = IF tail + 1 < Len(lh) THEN "install" ELSE "clear_head"
  /\ UNCHANGED <<slot, hdr, pinned, lh, opVars, outstanding, committing, pc,
                 panicked>>

recover_clear ==
  /\ panicked = "none"
  /\ boot = "clear_head"
  /\ lh' = <<>>
  /\ hdr' = <<>>
  /\ tail' = 0
  /\ boot' = "up"
  /\ UNCHANGED <<home, slot, cache, pinned, opVars, outstanding, committing,
                 pc, panicked>>

-----------------------------------------------------------------------------
Operation(p) == begin_op(p) \/ log_write(p) \/ end_op(p)
CommitStep(p) == write_log(p) \/ write_head(p) \/ install_trans(p)
                   \/ clear_head(p) \/ commit_done(p)
Recover == read_head \/ recover_install \/ recover_clear

Next ==
  \/ \E p \in Proc : Operation(p) \/ CommitStep(p)
  \/ \E p \in Proc, b \in Block, c \in Content : Modify(p, b, c)
  \/ \E b \in Block : Evict(b)
  \/ Recover
  \/ Crash

Spec == Init /\ [][Next]_vars

\* A process that can run does run (round-robin scheduler, disk interrupts),
\* recovery runs at boot, and an operation does not go on for ever.  Nothing
\* makes a process start an operation, and nothing makes the machine crash.
Fairness ==
  /\ WF_vars(Recover)
  /\ \A p \in Proc :
       /\ WF_vars(pc[p] = "woken" /\ begin_op(p))
       /\ WF_vars(log_write(p))
       /\ WF_vars(CommitStep(p))
       /\ SF_vars(end_op(p))

FairSpec == Spec /\ Fairness

-----------------------------------------------------------------------------
(* Properties.                                                             *)

DataTypeOK ==
  /\ home \in [Block -> Content]
  /\ slot \in [1 .. NLOG - 1 -> Content]
  /\ hdr \in Seq(Block)
  /\ cache \in [Block -> Content]
  /\ pinned \in [Block -> Nat]
  /\ lh \in Seq(Block)

ControlTypeOK ==
  /\ outstanding \in Nat
  /\ committing \in {0, 1}
  /\ tail \in Nat
  /\ boot \in Boot
  /\ pc \in [Proc -> PC]
  /\ hold \in [Proc -> Block \cup {NoBlock}]
  /\ wrote \in [Proc -> SUBSET Block]
  /\ panicked \in Panic

TypeOK == DataTypeOK /\ ControlTypeOK

\* Home blocks h with the slots s of the blocks named by header d written
\* over them.
Replay(h, s, d) ==
  [b \in Block |->
     IF \E i \in 1 .. Len(d) : d[i] = b
       THEN s[CHOOSE i \in 1 .. Len(d) : d[i] = b]
       ELSE h[b]]

\* What recovery would make of the disk as it is now.
Durable == Replay(home, slot, hdr)

\* What the kernel reads, or will read once recovery is done.
Current == IF boot = "up" THEN cache ELSE Durable

AD == INSTANCE AtomicDisk
        WITH durable <- Durable, current <- Current, active <- Active

\* commit, install_trans and recover_from_log together implement the atomic
\* disk: whatever the interleaving and wherever a crash falls, torn block
\* writes and crashes during recovery included, a restart finds all updates
\* of a group of finished operations or none of them.
AtomicCommit == AD!Spec

\* No panic of log.c is reachable: admission in begin_op leaves room for
\* every log_write, a commit never meets an open operation in end_op, and
\* read_head accepts every header that commit wrote.
NoPanic == panicked = "none"

\* What begin_op's comment promises: an admitted operation that stays within
\* its reservation of MAXOPBLOCKS blocks never overflows the log.
AdmissionSuffices == panicked # "too big a transaction"

\* The part of NoPanic that does not depend on the sizes: log_write runs
\* inside a transaction, end_op never finds a commit in progress and read_head
\* never rejects the header.
NoProtocolPanic ==
  panicked \in {"none", "too big a transaction"}

\* Which open operation has logged which block.
Written == {w \in Proc \X Block : w[2] \in wrote[w[1]]}

\* begin_op's reservation: the log has room for the blocks already in it
\* and for those every open operation may still add, which is MAXOPBLOCKS
\* each less what they have logged.
ReservationHonoured ==
  Len(lh) + outstanding * MAXOPBLOCKS - Cardinality(Written) <= LOGSIZE

\* bpin keeps an updated buffer in the cache until its home block is
\* written: a buffer bget may recycle has the content of its home block.
RecyclableIsClean ==
  boot = "up" =>
    \A b \in Block :
      pinned[b] = 0 /\ (\A p \in Proc : hold[p] # b) => cache[b] = home[b]

\* end_op does not return to the last operation of a group before the group
\* is durable: with no operation open and no commit in progress, a restart
\* would find exactly what the kernel reads.
QuietIsDurable ==
  boot = "up" /\ committing = 0 /\ Active = {} => Durable = Current

\* The write order of commit: a home block is only overwritten while the
\* durable header names it, and a header that names blocks only reaches the
\* disk after the data of each of them.
RedoOrdering ==
  [][ /\ \A b \in Block :
           home'[b] # home[b] => \E i \in 1 .. Len(hdr) : hdr[i] = b
      /\ hdr' # hdr =>
           \A i \in 1 .. Len(hdr') : slot[i] = cache[hdr'[i]] ]_vars

\* Who sleeps in begin_op still has a reason to, and, unless a reservation is
\* larger than the log, somebody is left who will call wakeup(&log): an open
\* operation or the committer.
SleepersHaveWaker ==
  \A p \in Proc : pc[p] = "asleep" =>
    /\ MustWait
    /\ MAXOPBLOCKS <= LOGSIZE =>
         \E q \in Proc : pc[q] = "op" \/ pc[q] \in CommitPC

\* The steps of initlog that are still to come.
Left ==
  IF boot = "up" THEN 0
  ELSE IF boot = "clear_head" THEN 1
  ELSE IF boot = "install" THEN 1 + Len(lh) - tail
  ELSE 2 + Len(hdr)

\* Recovery does not panic, and has at most as many steps left as the log has
\* blocks, and one.
RecoveryInBounds == boot # "up" => panicked = "none" /\ Left \in 1 .. NLOG + 1

\* Every step brings recovery closer to its end, unless the machine crashes.
RecoveryAdvances == [][boot # "up" => Crash \/ Left' < Left]_vars

\* No lost wakeup on &log: a process asleep in begin_op is woken by an
\* end_op or by the end of the commit it waits for.
SleeperWoken ==
  \A p \in Proc : pc[p] = "asleep" ~> pc[p] # "asleep"

\* Unless crashes never stop, recovery finishes and the log comes up.
RecoveryCompletes == []<>(boot = "up") \/ []<><<Crash>>_vars

-----------------------------------------------------------------------------
(* The inductive invariant behind AtomicCommit and NoProtocolPanic.        *)

Distinct(s) == \A i, j \in 1 .. Len(s) : s[i] = s[j] => i = j

\* Entry i of lh has been installed by the commit in progress.
Installed(i) ==
  \E p \in Proc : \/ pc[p] = "install" /\ i <= tail
                  \/ pc[p] = "clear_head"

\* Operations: buffers are held inside operations and by one process each.
OpInv ==
  /\ \A p \in Proc : hold[p] # NoBlock => pc[p] = "op"
  /\ \A p, q \in Proc : hold[p] # NoBlock /\ hold[p] = hold[q] => p = q
  /\ outstanding = Cardinality(Active)

\* One committer, and only while no operation is open.
CommitInv ==
  /\ committing = 1 <=> \E p \in Proc : pc[p] \in CommitPC
  /\ \A p, q \in Proc : pc[p] \in CommitPC /\ pc[q] \in CommitPC => p = q
  /\ committing = 1 => Active = {}

\* The headers in memory and on disk name distinct blocks and fit.
HeaderInv ==
  /\ Distinct(lh) /\ Len(lh) < NLOG
  /\ Distinct(hdr) /\ Len(hdr) < NLOG
  /\ boot = "read_head" => lh = <<>>
  /\ boot \in {"install", "clear_head"} => lh = hdr
  /\ boot = "up" =>
       IF \E p \in Proc : pc[p] \in {"install", "clear_head"}
         THEN hdr = lh ELSE hdr = <<>>

\* How far the commit in progress has come.
StageInv ==
  boot = "up" =>
    \A p \in Proc :
      /\ pc[p] = "write_log" =>
           tail < Len(lh) /\ \A i \in 1 .. tail : slot[i] = cache[lh[i]]
      /\ pc[p] \in {"write_head", "install", "clear_head"} =>
           \A i \in 1 .. Len(lh) : slot[i] = cache[lh[i]]
      /\ pc[p] = "write_head" => Len(lh) > 0
      /\ pc[p] = "install" =>
           tail < Len(lh) /\ \A i \in 1 .. tail : home[lh[i]] = slot[i]
      /\ pc[p] = "clear_head" =>
           \A i \in 1 .. Len(lh) : home[lh[i]] = slot[i]
      /\ pc[p] = "commit_done" => lh = <<>>

\* A buffer is pinned once from its first log_write to its installation.
PinInv ==
  boot = "up" =>
    \A b \in Block :
      pinned[b] = IF \E i \in 1 .. Len(lh) : lh[i] = b /\ ~Installed(i)
                    THEN 1 ELSE 0

\* Recovery runs alone, on an empty cache.
RecoveryInv ==
  boot # "up" =>
    /\ cache = home
    /\ pinned = [b \in Block |-> 0]
    /\ pc = [p \in Proc |-> "idle"]
    /\ boot = "install" =>
         tail < Len(lh) /\ \A i \in 1 .. tail : home[lh[i]] = slot[i]
    /\ boot = "clear_head" =>
         \A i \in 1 .. Len(lh) : home[lh[i]] = slot[i]

\* The log is empty while nobody uses it.
QuietLog ==
  boot = "up" /\ committing = 0 /\ Active = {} => lh = <<>>

\* An operation logs at most OpBlocks blocks, and they stay in the header as
\* long as it is open.
UsageInv ==
  /\ \A p \in Proc :
       /\ wrote[p] # {} => pc[p] = "op"
       /\ \A b \in wrote[p] : Logged(b)
       /\ Cardinality(wrote[p]) <= OpBlocks
       /\ hold[p] # NoBlock => Cardinality(wrote[p] \cup {hold[p]}) <= OpBlocks
  /\ Len(hdr) <= LOGSIZE

\* An operation logs fewer blocks than it reserves, by more than the log
\* region is short of LOGSIZE.
Sized ==
  OpBlocks < MAXOPBLOCKS /\ OpBlocks + LOGSIZE < MAXOPBLOCKS + NLOG - 1

IInv ==
  /\ TypeOK
  /\ OpInv
  /\ CommitInv
  /\ HeaderInv
  /\ StageInv
  /\ PinInv
  /\ RecyclableIsClean
  /\ RecoveryInv
  /\ NoProtocolPanic
=============================================================================
