---------------------------- MODULE BufferCache ----------------------------
(***************************************************************************)
(* The buffer cache, kernel/bio.c, with its sleep locks.                   *)
(*                                                                         *)
(* A user is one bread ... brelse span of a process: a process that has    *)
(* several buffers, as install_trans of kernel/log.c, is several users.    *)
(* A step is one critical section of bcache.lock or of a sleep lock's own  *)
(* spinlock, or one transfer of the disk.  Users change a buffer only      *)
(* while they have it locked and, as the log makes them, write it back or  *)
(* pin it before they release it.                                          *)
(*                                                                         *)
(* The LRU list is the ring of next and prev links that the code keeps.    *)
(* A buffer whose identity is still (0, 0), as bss leaves it, has block    *)
(* NoBlock: dev 0 is no device (ROOTDEV is 1).                             *)
(***************************************************************************)
EXTENDS Integers, FiniteSets

CONSTANTS
  User, NoUser,     \* spans, and the owner of a free sleep lock
  NBUF,             \* number of buffers
  Block, NoBlock,
  Value,            \* contents of a block
  MaxPin            \* bound on the pins of one buffer

ASSUME CacheAssumption ==
  /\ NBUF \in Nat \ {0}
  /\ NoUser \notin User /\ NoBlock \notin Block
  /\ IsFiniteSet(User)
  /\ MaxPin \in Nat

Buf == 1 .. NBUF
Head == 0           \* bcache.head, the anchor of the list

VARIABLES
  block, valid, data, refcnt, pinned,  \* struct buf
  owner,       \* lock.pid while lock.locked, else NoUser
  next, prev,  \* the list, Head included
  disk,        \* the blocks on the device
  pc,          \* where each user is
  buf,         \* the buffer bget gave it
  panicked     \* 1 after "bget: no buffers"

entries == <<block, valid, data, refcnt, pinned>>
list == <<next, prev>>
vars == <<block, valid, data, refcnt, pinned, owner, next, prev, disk, pc, buf, panicked>>

PC == {"idle", "locking", "asleep", "reading", "holding", "unlocked"}

\* The buffers from Head along the next links.
Walk[i \in Nat] == IF i = 0 THEN Head ELSE next[Walk[i - 1]]
Place(b) == CHOOSE i \in Buf : Walk[i] = b

-----------------------------------------------------------------------------
\* binit: every buffer is put right behind the head, so that the list runs
\* from buf[NBUF-1] down to buf[0].
Init ==
  /\ next = [b \in {Head} \cup Buf |-> IF b = Head THEN NBUF ELSE b - 1]
  /\ prev = [b \in {Head} \cup Buf |-> IF b = NBUF THEN Head ELSE b + 1]
  /\ block = [b \in Buf |-> NoBlock]
  /\ valid = [b \in Buf |-> 0]
  /\ data \in [Buf -> Value]
  /\ refcnt = [b \in Buf |-> 0]
  /\ pinned = [b \in Buf |-> 0]
  /\ owner = [b \in Buf |-> NoUser]
  /\ disk \in [Block -> Value]
  /\ pc = [u \in User |-> "idle"]
  /\ buf = [u \in User |-> Head]
  /\ panicked = 0

(* bget.                                                                   *)

\* Mutant of Cached: only buffers somebody has a reference to are found.
Cached_referenced(k) == \E b \in Buf : block[b] = k /\ refcnt[b] > 0

Cached(k) == \E b \in Buf : block[b] = k

\* Mutant of Free: eviction does not look at the pins.
Free_pinned(b) == refcnt[b] = 0

\* May the buffer be given to another block?
Free(b) == refcnt[b] = 0 /\ pinned[b] = 0

\* The buffer bget finds from the tail along the prev links.
Victim(b) == Free(b) /\ \A c \in Buf : Free(c) => Place(c) <= Place(b)

\* Mutant of bget_hit: the reference is taken by setting the count.
bget_hit_sets(u, k) ==
  /\ pc[u] = "idle" /\ panicked = 0
  /\ \E b \in Buf :
       /\ block[b] = k
       /\ refcnt' = [refcnt EXCEPT ![b] = 1]
       /\ buf' = [buf EXCEPT ![u] = b]
  /\ pc' = [pc EXCEPT ![u] = "locking"]
  /\ UNCHANGED <<block, valid, data, pinned, owner, list, disk, panicked>>

bget_hit(u, k) ==
  /\ pc[u] = "idle" /\ panicked = 0
  /\ \E b \in Buf :
       /\ block[b] = k
       /\ refcnt' = [refcnt EXCEPT ![b] = @ + 1]
       /\ buf' = [buf EXCEPT ![u] = b]
  /\ pc' = [pc EXCEPT ![u] = "locking"]
  /\ UNCHANGED <<block, valid, data, pinned, owner, list, disk, panicked>>

\* Mutant of bget_recycle: the contents of the old block stay valid.
bget_recycle_valid(u, k) ==
  /\ pc[u] = "idle" /\ panicked = 0
  /\ ~Cached(k)
  /\ \E b \in Buf :
       /\ Victim(b)
       /\ block' = [block EXCEPT ![b] = k]
       /\ refcnt' = [refcnt EXCEPT ![b] = 1]
       /\ buf' = [buf EXCEPT ![u] = b]
  /\ pc' = [pc EXCEPT ![u] = "locking"]
  /\ UNCHANGED <<valid, data, pinned, owner, list, disk, panicked>>

bget_recycle(u, k) ==
  /\ pc[u] = "idle" /\ panicked = 0
  /\ ~Cached(k)
  /\ \E b \in Buf :
       /\ Victim(b)
       /\ block' = [block EXCEPT ![b] = k]
       /\ valid' = [valid EXCEPT ![b] = 0]
       /\ refcnt' = [refcnt EXCEPT ![b] = 1]
       /\ buf' = [buf EXCEPT ![u] = b]
  /\ pc' = [pc EXCEPT ![u] = "locking"]
  /\ UNCHANGED <<data, pinned, owner, list, disk, panicked>>

\* panic("bget: no buffers")
bget_panic(u, k) ==
  /\ pc[u] = "idle" /\ panicked = 0
  /\ ~Cached(k) /\ \A b \in Buf : ~Free(b)
  /\ panicked' = 1
  /\ UNCHANGED <<entries, owner, list, disk, pc, buf>>

-----------------------------------------------------------------------------
(* acquiresleep, and the rest of bread.                                    *)

lock_wait(u) ==
  /\ pc[u] = "locking" /\ panicked = 0
  /\ owner[buf[u]] # NoUser
  /\ pc' = [pc EXCEPT ![u] = "asleep"]
  /\ UNCHANGED <<entries, owner, list, disk, buf, panicked>>

lock_take(u) ==
  /\ pc[u] = "locking" /\ panicked = 0
  /\ owner[buf[u]] = NoUser
  /\ owner' = [owner EXCEPT ![buf[u]] = u]
  /\ pc' = [pc EXCEPT ![u] = IF valid[buf[u]] = 1 THEN "holding" ELSE "reading"]
  /\ UNCHANGED <<entries, list, disk, buf, panicked>>

\* virtio_disk_rw(b->blockno, b->data, 0)
disk_read(u) ==
  /\ pc[u] = "reading" /\ panicked = 0
  /\ data' = [data EXCEPT ![buf[u]] = disk[block[buf[u]]]]
  /\ valid' = [valid EXCEPT ![buf[u]] = 1]
  /\ pc' = [pc EXCEPT ![u] = "holding"]
  /\ UNCHANGED <<block, refcnt, pinned, owner, list, disk, buf, panicked>>

\* kill(): the sleeper runs, and finds the lock taken still.
kill(u) ==
  /\ pc[u] = "asleep" /\ panicked = 0
  /\ pc' = [pc EXCEPT ![u] = "locking"]
  /\ UNCHANGED <<entries, owner, list, disk, buf, panicked>>

-----------------------------------------------------------------------------
(* What the holder of a buffer does.                                       *)

Modify(u, v) ==
  /\ pc[u] = "holding" /\ panicked = 0
  /\ data' = [data EXCEPT ![buf[u]] = v]
  /\ UNCHANGED <<block, valid, refcnt, pinned, owner, list, disk, pc, buf, panicked>>

\* virtio_disk_rw(b->blockno, b->data, 1)
bwrite(u) ==
  /\ pc[u] = "holding" /\ panicked = 0
  /\ disk' = [disk EXCEPT ![block[buf[u]]] = data[buf[u]]]
  /\ UNCHANGED <<entries, owner, list, pc, buf, panicked>>

bpin(u) ==
  /\ pc[u] = "holding" /\ panicked = 0
  /\ pinned[buf[u]] < MaxPin
  /\ pinned' = [pinned EXCEPT ![buf[u]] = @ + 1]
  /\ UNCHANGED <<block, valid, data, refcnt, owner, list, disk, pc, buf, panicked>>

\* install_trans unpins after bwrite, and only what log_write pinned.
bunpin(u) ==
  /\ pc[u] = "holding" /\ panicked = 0
  /\ pinned[buf[u]] > 0 /\ data[buf[u]] = disk[block[buf[u]]]
  /\ pinned' = [pinned EXCEPT ![buf[u]] = @ - 1]
  /\ UNCHANGED <<block, valid, data, refcnt, owner, list, disk, pc, buf, panicked>>

-----------------------------------------------------------------------------
(* brelse.                                                                 *)

\* Mutant of Wake: releasesleep forgets the wakeup.
Wake_missing(u, after) == [pc EXCEPT ![u] = after]

\* wakeup(lk), by u, which goes on at `after'.
Wake(u, after) ==
  [w \in User |-> IF w = u THEN after
                  ELSE IF pc[w] = "asleep" /\ buf[w] = buf[u] THEN "locking" ELSE pc[w]]

\* releasesleep(&b->lock)
brelse_unlock(u) ==
  /\ pc[u] = "holding" /\ panicked = 0
  /\ pinned[buf[u]] > 0 \/ data[buf[u]] = disk[block[buf[u]]]
  /\ owner' = [owner EXCEPT ![buf[u]] = NoUser]
  /\ pc' = Wake(u, "unlocked")
  /\ UNCHANGED <<entries, list, disk, buf, panicked>>

\* Mutant of ToTail: the old tail is read before b is unlinked.
ToTail_stale(b) ==
  LET n1 == [next EXCEPT ![prev[b]] = next[b]]
      p1 == [prev EXCEPT ![next[b]] = prev[b]]
      p2 == [p1 EXCEPT ![b] = prev[Head]]
      n2 == [n1 EXCEPT ![p2[Head]] = b]
  IN /\ next' = [n2 EXCEPT ![b] = Head]
     /\ prev' = [p2 EXCEPT ![Head] = b]

\* Unlink b, and link it in before the head; nothing if it is there already.
ToTail(b) ==
  IF next[b] = Head THEN UNCHANGED list
  ELSE LET n1 == [next EXCEPT ![prev[b]] = next[b]]
           p1 == [prev EXCEPT ![next[b]] = prev[b]]
           p2 == [p1 EXCEPT ![b] = p1[Head]]
           n2 == [n1 EXCEPT ![p2[Head]] = b]
       IN /\ next' = [n2 EXCEPT ![b] = Head]
          /\ prev' = [p2 EXCEPT ![Head] = b]

\* b->refcnt--, and the move to the tail when it was the last reference.
brelse_drop(u) ==
  /\ pc[u] = "unlocked" /\ panicked = 0
  /\ refcnt' = [refcnt EXCEPT ![buf[u]] = @ - 1]
  /\ IF refcnt[buf[u]] = 1 THEN ToTail(buf[u]) ELSE UNCHANGED list
  /\ pc' = [pc EXCEPT ![u] = "idle"]
  /\ buf' = [buf EXCEPT ![u] = Head]
  /\ UNCHANGED <<block, valid, data, pinned, owner, disk, panicked>>

Step(u) ==
  \/ \E k \in Block : bget_hit(u, k) \/ bget_recycle(u, k) \/ bget_panic(u, k)
  \/ lock_wait(u) \/ lock_take(u) \/ disk_read(u) \/ kill(u)
  \/ \E v \in Value : Modify(u, v)
  \/ bwrite(u) \/ bpin(u) \/ bunpin(u)
  \/ brelse_unlock(u) \/ brelse_drop(u)

Next == \E u \in User : Step(u)

Spec == Init /\ [][Next]_vars

-----------------------------------------------------------------------------
(* Properties.                                                             *)

TypeOK ==
  /\ block \in [Buf -> Block \cup {NoBlock}]
  /\ valid \in [Buf -> {0, 1}]
  /\ data \in [Buf -> Value]
  /\ refcnt \in [Buf -> Nat]
  /\ pinned \in [Buf -> 0 .. MaxPin]
  /\ owner \in [Buf -> User \cup {NoUser}]
  /\ disk \in [Block -> Value]
  /\ pc \in [User -> PC]
  /\ buf \in [User -> Buf \cup {Head}]
  /\ panicked \in {0, 1}
  /\ \A u \in User : pc[u] = "idle" <=> buf[u] = Head

\* The contents of a block: those of its buffer, once read, else the disk's.
Contents(k) ==
  IF \E b \in Buf : block[b] = k /\ valid[b] = 1
  THEN data[CHOOSE b \in Buf : block[b] = k /\ valid[b] = 1]
  ELSE disk[k]

\* Who has the block locked.
Holder(k) ==
  IF \E b \in Buf : block[b] = k /\ owner[b] # NoUser
  THEN owner[CHOOSE b \in Buf : block[b] = k /\ owner[b] # NoUser]
  ELSE NoUser

Store == INSTANCE BlockStore
  WITH value <- [k \in Block |-> Contents(k)], holder <- [k \in Block |-> Holder(k)]

\* bread, bwrite and brelse behave as one copy of every block with a lock of
\* its own: no eviction loses an update, none brings back an old value, and
\* two users never have the same block locked (bread returns exactly one
\* locked valid identity).
Coherent == Store!Spec

\* cache-identity-unique: no two buffers stand for the same block.
OneBufferPerBlock ==
  \A b, c \in Buf : block[b] = block[c] /\ block[b] # NoBlock => b = c

\* The users that have a reference to a buffer.
Users(b) == {u \in User : buf[u] = b}

\* refcnt counts the bread calls whose brelse is to come, so that it reaches
\* 0, and bget may recycle the buffer, exactly when nobody can touch it.
ReferencesCounted == \A b \in Buf : refcnt[b] = Cardinality(Users(b))

\* active-buffer-not-evicted: a buffer that somebody has a reference to, or
\* that the log has pinned, is not given to another block.
ActiveNotEvicted ==
  [][\A b \in Buf : block'[b] # block[b] => Users(b) = {} /\ pinned[b] = 0]_vars

\* No wakeup of a sleep lock is lost: who sleeps in acquiresleep waits for a
\* user that still has the lock and will call releasesleep.
SleepersHaveOwner ==
  \A u \in User : pc[u] = "asleep" =>
    /\ owner[buf[u]] \in User
    /\ pc[owner[buf[u]]] \in {"reading", "holding"}
    /\ buf[owner[buf[u]]] = buf[u]

\* The inductive invariant.  A buffer in use, or with valid contents, stands
\* for a block.
Identified ==
  /\ \A u \in User : buf[u] \in Buf => block[buf[u]] \in Block
  /\ \A b \in Buf : valid[b] = 1 => block[b] \in Block

\* The owner of a sleep lock is the user between acquiresleep and
\* releasesleep, and it has the contents once bread has returned.
Owners ==
  /\ \A b \in Buf : owner[b] # NoUser =>
       buf[owner[b]] = b /\ pc[owner[b]] \in {"reading", "holding"}
  /\ \A u \in User : pc[u] \in {"reading", "holding"} => owner[buf[u]] = u
  /\ \A u \in User : pc[u] = "holding" => valid[buf[u]] = 1
  /\ \A u \in User : pc[u] = "reading" => valid[buf[u]] = 0
  /\ \A u \in User : pc[u] = "asleep" => owner[buf[u]] # NoUser

\* What nobody has locked or pinned is on the disk: it may be evicted.
Clean ==
  \A b \in Buf :
    valid[b] = 1 /\ owner[b] = NoUser /\ pinned[b] = 0 => data[b] = disk[block[b]]

IInv ==
  /\ TypeOK /\ OneBufferPerBlock /\ ReferencesCounted
  /\ Identified /\ Owners /\ Clean

\* Position i of the list in the order s; the head is at both ends.
At(s, i) == IF i \in Buf THEN s[i] ELSE Head

\* The links of the LRU list always form one ring through the head and every
\* buffer, the same in both directions: bget's two scans visit every buffer.
RingIntact ==
  \E s \in [Buf -> Buf] :
    /\ \A i, j \in Buf : s[i] = s[j] => i = j
    /\ \A b \in Buf : \E i \in Buf : s[i] = b
    /\ \A i \in 0 .. NBUF :
         next[At(s, i)] = At(s, i + 1) /\ prev[At(s, i + 1)] = At(s, i)

\* The comment on brelse, "it is evicted last among free entries": bget does
\* not recycle a buffer that was in use while another one is free that was
\* released earlier, or not at all.  The list is in the order of the last
\* releases, the latest at the tail.
EvictedLast ==
  [][\A b, c \in Buf :
       block'[b] # block[b] /\ block[b] # NoBlock /\ Free(c) => Place(b) <= Place(c)]_vars
=============================================================================
