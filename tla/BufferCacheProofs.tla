------------------------- MODULE BufferCacheProofs -------------------------
(***************************************************************************)
(* Proofs about BufferCache for any number of users, buffers and blocks:   *)
(* identities are unique, references are counted, no active buffer is      *)
(* evicted, no sleeper is forgotten, the LRU list stays one ring, and the  *)
(* cache implements BlockStore.                                            *)
(***************************************************************************)
EXTENDS BufferCache, FiniteSetTheorems, TLAPS

\* A step is left to Zenon unless it names SMT; each may take 30 seconds.
USE ZenonT(30)

-----------------------------------------------------------------------------
(* Helpers.                                                                *)

\* The places a user can be are program counters.
LEMMA Names ==
  /\ "idle" \in PC /\ "locking" \in PC /\ "asleep" \in PC
  /\ "reading" \in PC /\ "holding" \in PC /\ "unlocked" \in PC
BY DEF PC

\* The anchor of the list is no buffer.
LEMMA HeadIsNoBuffer == Head \notin Buf
BY CacheAssumption, SMTT(30) DEF Head, Buf

\* The users of a buffer are finitely many.
LEMMA UsersFinite == \A b : IsFiniteSet(Users(b))
BY CacheAssumption, FS_Subset DEF Users

\* A buffer that is not referenced has no users.
LEMMA FreeHasNoUsers ==
  ASSUME IInv, NEW b \in Buf, refcnt[b] = 0
  PROVE  \A u \in User : buf[u] # b
<1>1. Cardinality(Users(b)) = 0
  BY DEF IInv, ReferencesCounted
<1>2. Users(b) = {}
  BY <1>1, UsersFinite, FS_EmptySet
<1> QED
  BY <1>2 DEF Users

\* A user past bget has a buffer.
LEMMA Busy ==
  ASSUME IInv, NEW u \in User, pc[u] # "idle"
  PROVE  buf[u] \in Buf /\ block[buf[u]] \in Block
<1>1. buf[u] \in Buf
  BY DEF IInv, TypeOK
<1> QED
  BY <1>1 DEF IInv, Identified

\* Steps that leave the identities and the references alone.
LEMMA SameReferences ==
  ASSUME IInv, UNCHANGED <<block, refcnt, buf>>
  PROVE  OneBufferPerBlock' /\ ReferencesCounted'
BY DEF IInv, OneBufferPerBlock, ReferencesCounted, Users

-----------------------------------------------------------------------------
(* bget.                                                                   *)

\* A new reference adds one user.
LEMMA NewUser ==
  ASSUME IInv, NEW u \in User, buf[u] = Head, NEW b \in Buf,
         buf' = [buf EXCEPT ![u] = b],
         refcnt' = [refcnt EXCEPT ![b] = refcnt[b] + 1]
  PROVE  ReferencesCounted'
<1>1. buf \in [User -> Buf \cup {Head}] /\ refcnt \in [Buf -> Nat]
  BY DEF IInv, TypeOK
<1>2. Users(b)' = Users(b) \cup {u} /\ u \notin Users(b)
  BY <1>1, HeadIsNoBuffer DEF Users
<1>3. \A c \in Buf \ {b} : Users(c)' = Users(c)
  BY <1>1, HeadIsNoBuffer DEF Users
<1>4. Cardinality(Users(b)') = Cardinality(Users(b)) + 1
  BY <1>2, UsersFinite, FS_AddElement
<1>5. refcnt'[b] = refcnt[b] + 1 /\ \A c \in Buf \ {b} : refcnt'[c] = refcnt[c]
  BY <1>1
<1>6. \A c \in Buf : refcnt[c] = Cardinality(Users(c))
  BY DEF IInv, ReferencesCounted
<1>7. \A c \in Buf : refcnt'[c] = Cardinality(Users(c)')
  BY <1>3, <1>4, <1>5, <1>6
<1> QED
  BY <1>7 DEF ReferencesCounted

\* A hit takes a reference to the buffer of the block.
LEMMA Hit ==
  ASSUME IInv, NEW u \in User, NEW k \in Block, bget_hit(u, k)
  PROVE  IInv'
<1>1. PICK b \in Buf :
        /\ block[b] = k
        /\ refcnt' = [refcnt EXCEPT ![b] = refcnt[b] + 1]
        /\ buf' = [buf EXCEPT ![u] = b]
  BY DEF bget_hit
<1>2. /\ pc[u] = "idle" /\ pc' = [pc EXCEPT ![u] = "locking"]
      /\ UNCHANGED <<block, valid, data, pinned, owner, disk, panicked>>
  BY DEF bget_hit
<1>3. buf[u] = Head
  BY <1>2 DEF IInv, TypeOK
<1>4. /\ pc'[u] = "locking" /\ buf'[u] = b
      /\ \A w \in User \ {u} : pc'[w] = pc[w] /\ buf'[w] = buf[w]
  BY <1>1, <1>2 DEF IInv, TypeOK
<1>5. TypeOK'
  <2>1. \A w \in User : pc'[w] = "idle" <=> buf'[w] = Head
    BY <1>4, HeadIsNoBuffer DEF IInv, TypeOK
  <2> QED
    BY <1>1, <1>2, <2>1, Names, SMTT(30) DEF IInv, TypeOK
<1>6. OneBufferPerBlock'
  BY <1>2 DEF IInv, OneBufferPerBlock
<1>7. ReferencesCounted'
  BY <1>1, <1>3, NewUser
<1>8. Identified'
  BY <1>1, <1>2, <1>4 DEF IInv, Identified
<1>9. Owners'
  <2>1. \A c \in Buf : owner[c] # NoUser => owner[c] \in User \ {u}
    BY <1>2, SMTT(30) DEF IInv, TypeOK, Owners
  <2> QED
    BY <1>2, <1>4, <2>1, SMTT(30) DEF IInv, Owners
<1>10. Clean'
  BY <1>2 DEF IInv, Clean
<1> QED
  BY <1>5, <1>6, <1>7, <1>8, <1>9, <1>10 DEF IInv

\* Recycling gives a buffer that nobody has to a block that no buffer has.
LEMMA Recycle ==
  ASSUME IInv, NEW u \in User, NEW k \in Block, bget_recycle(u, k)
  PROVE  IInv'
<1>1. PICK b \in Buf :
        /\ refcnt[b] = 0 /\ pinned[b] = 0
        /\ block' = [block EXCEPT ![b] = k]
        /\ valid' = [valid EXCEPT ![b] = 0]
        /\ refcnt' = [refcnt EXCEPT ![b] = 1]
        /\ buf' = [buf EXCEPT ![u] = b]
  BY DEF bget_recycle, Victim, Free
<1>2. /\ pc[u] = "idle" /\ pc' = [pc EXCEPT ![u] = "locking"]
      /\ \A c \in Buf : block[c] # k
      /\ UNCHANGED <<data, pinned, owner, disk, panicked>>
  BY DEF bget_recycle, Cached
<1>3. buf[u] = Head
  BY <1>2 DEF IInv, TypeOK
<1>4. /\ pc'[u] = "locking" /\ buf'[u] = b
      /\ \A w \in User \ {u} : pc'[w] = pc[w] /\ buf'[w] = buf[w]
      /\ block'[b] = k /\ valid'[b] = 0
      /\ \A c \in Buf \ {b} : block'[c] = block[c] /\ valid'[c] = valid[c]
  BY <1>1, <1>2 DEF IInv, TypeOK
<1>5. \A w \in User : buf[w] # b
  BY <1>1, FreeHasNoUsers
<1>6. TypeOK'
  <2>1. \A w \in User : pc'[w] = "idle" <=> buf'[w] = Head
    BY <1>4, HeadIsNoBuffer, SMTT(30) DEF IInv, TypeOK
  <2> QED
    BY <1>1, <1>2, <2>1, Names DEF IInv, TypeOK
<1>7. OneBufferPerBlock'
  BY <1>2, <1>4, SMTT(30) DEF IInv, OneBufferPerBlock
<1>8. ReferencesCounted'
  <2>1. refcnt' = [refcnt EXCEPT ![b] = refcnt[b] + 1]
    BY <1>1, SMTT(30)
  <2> QED
    BY <1>1, <1>3, <2>1, NewUser
<1>9. Identified'
  BY <1>4, <1>5, SMTT(30) DEF IInv, Identified
<1>10. Owners'
  <2>1. \A c \in Buf : owner[c] # NoUser => owner[c] \in User \ {u} /\ c # b
    BY <1>2, <1>5, SMTT(30) DEF IInv, TypeOK, Owners
  <2>2. \A w \in User \ {u} : pc[w] # "idle" => buf[w] \in Buf \ {b}
    BY <1>5, Busy
  <2> QED
    BY <1>2, <1>4, <2>1, <2>2, SMTT(30) DEF IInv, Owners
<1>11. Clean'
  BY <1>2, <1>4, SMTT(30) DEF IInv, Clean
<1> QED
  BY <1>6, <1>7, <1>8, <1>9, <1>10, <1>11 DEF IInv

\* The panic changes nothing else.
LEMMA Exhausted ==
  ASSUME IInv, NEW u \in User, NEW k \in Block, bget_panic(u, k)
  PROVE  IInv'
<1>1. /\ panicked' = 1
      /\ UNCHANGED <<block, valid, data, refcnt, pinned, owner, disk, pc, buf>>
  BY DEF bget_panic, entries
<1> QED
  BY <1>1, SameReferences DEF IInv, TypeOK, Identified, Owners, Clean

-----------------------------------------------------------------------------
(* acquiresleep and the rest of bread.                                     *)

\* Going to sleep: somebody has the lock.
LEMMA LockWait ==
  ASSUME IInv, NEW u \in User, lock_wait(u)
  PROVE  IInv'
<1>1. /\ pc[u] = "locking" /\ pc' = [pc EXCEPT ![u] = "asleep"]
      /\ owner[buf[u]] # NoUser
      /\ UNCHANGED <<block, valid, data, refcnt, pinned, owner, disk, buf, panicked>>
  BY DEF lock_wait, entries
<1>2. pc'[u] = "asleep" /\ \A w \in User \ {u} : pc'[w] = pc[w]
  BY <1>1 DEF IInv, TypeOK
<1>3. TypeOK'
  <2>1. \A w \in User : pc'[w] = "idle" <=> buf'[w] = Head
    BY <1>1, <1>2 DEF IInv, TypeOK
  <2> QED
    BY <1>1, <2>1, Names DEF IInv, TypeOK
<1>4. Identified' /\ Clean'
  BY <1>1 DEF IInv, Identified, Clean
<1>5. Owners'
  BY <1>1, <1>2, SMTT(30) DEF IInv, TypeOK, Owners
<1> QED
  BY <1>1, <1>3, <1>4, <1>5, SameReferences DEF IInv

\* Taking the lock, which nobody has.
LEMMA LockTake ==
  ASSUME IInv, NEW u \in User, lock_take(u)
  PROVE  IInv'
<1> DEFINE b == buf[u]
<1>1. /\ pc[u] = "locking" /\ owner[b] = NoUser
      /\ pc' = [pc EXCEPT ![u] = IF valid[b] = 1 THEN "holding" ELSE "reading"]
      /\ owner' = [owner EXCEPT ![b] = u]
      /\ UNCHANGED <<block, valid, data, refcnt, pinned, disk, buf, panicked>>
  BY DEF lock_take, entries
<1>2. b \in Buf /\ valid[b] \in {0, 1}
  BY <1>1, Busy DEF IInv, TypeOK
<1>3. /\ pc'[u] \in {"reading", "holding"}
      /\ pc'[u] = "holding" => valid[b] = 1
      /\ pc'[u] = "reading" => valid[b] = 0
      /\ \A w \in User \ {u} : pc'[w] = pc[w]
  BY <1>1, <1>2 DEF IInv, TypeOK
<1>4. owner'[b] = u /\ \A c \in Buf \ {b} : owner'[c] = owner[c]
  BY <1>1, <1>2 DEF IInv, TypeOK
<1>5. TypeOK'
  <2>1. \A w \in User : pc'[w] = "idle" <=> buf'[w] = Head
    BY <1>1, <1>3 DEF IInv, TypeOK
  <2> QED
    BY <1>1, <1>2, <2>1, Names DEF IInv, TypeOK
<1>6. Identified'
  BY <1>1 DEF IInv, Identified
<1>7. Clean'
  BY <1>1, <1>4, CacheAssumption DEF IInv, Clean
<1>8. Owners'
  <2>1. \A w \in User \ {u} : pc[w] # "idle" => buf[w] \in Buf
    BY Busy
  <2>2. \A w \in User \ {u} : pc[w] \in {"reading", "holding"} => buf[w] # b
    BY <1>1, CacheAssumption, SMTT(30) DEF IInv, Owners
  <2>3. \A c \in Buf \ {b} : owner[c] # NoUser => owner[c] \in User \ {u}
    BY <1>1, SMTT(30) DEF IInv, Owners, TypeOK
  <2> HIDE DEF b
  <2>4. buf' = buf /\ valid' = valid /\ buf[u] = b
    BY <1>1 DEF b
  <2> QED
    BY <1>2, <1>3, <1>4, <2>1, <2>2, <2>3, <2>4, CacheAssumption, SMTT(30) DEF IInv, Owners
<1> QED
  BY <1>1, <1>5, <1>6, <1>7, <1>8, SameReferences DEF IInv

\* Reading the block in.
LEMMA DiskRead ==
  ASSUME IInv, NEW u \in User, disk_read(u)
  PROVE  IInv'
<1> DEFINE b == buf[u]
<1>1. /\ pc[u] = "reading" /\ pc' = [pc EXCEPT ![u] = "holding"]
      /\ data' = [data EXCEPT ![b] = disk[block[b]]]
      /\ valid' = [valid EXCEPT ![b] = 1]
      /\ UNCHANGED <<block, refcnt, pinned, owner, disk, buf, panicked>>
  BY DEF disk_read
<1>2. b \in Buf /\ block[b] \in Block
  BY <1>1, Busy
<1>3. pc'[u] = "holding" /\ \A w \in User \ {u} : pc'[w] = pc[w]
  BY <1>1 DEF IInv, TypeOK
<1>4. /\ valid'[b] = 1 /\ data'[b] = disk[block[b]]
      /\ \A c \in Buf \ {b} : valid'[c] = valid[c] /\ data'[c] = data[c]
  BY <1>1, <1>2 DEF IInv, TypeOK
<1>5. TypeOK'
  <2>1. \A w \in User : pc'[w] = "idle" <=> buf'[w] = Head
    BY <1>1, <1>3 DEF IInv, TypeOK
  <2> QED
    BY <1>1, <1>2, <2>1, Names DEF IInv, TypeOK
<1>6. Identified' /\ Clean'
  BY <1>1, <1>2, <1>4 DEF IInv, Identified, Clean
<1>7. Owners'
  <2>1. \A w \in User \ {u} : pc[w] # "idle" => buf[w] \in Buf
    BY Busy
  <2>2. \A w \in User \ {u} : pc[w] \in {"reading", "holding"} => buf[w] # b
    BY <1>1, SMTT(30) DEF IInv, Owners
  <2> HIDE DEF b
  <2>3. buf' = buf /\ owner' = owner /\ buf[u] = b /\ owner[b] = u
    BY <1>1 DEF b, IInv, Owners
  <2>4. \A c \in Buf : owner[c] # NoUser => owner[c] \in User
    BY DEF IInv, TypeOK
  <2>5. \A c \in Buf : owner'[c] # NoUser =>
          buf'[owner'[c]] = c /\ pc'[owner'[c]] \in {"reading", "holding"}
    BY <1>2, <1>3, <1>4, <2>1, <2>2, <2>3, <2>4, SMTT(30) DEF IInv, Owners
  <2>6. \A w \in User : pc'[w] \in {"reading", "holding"} => owner'[buf'[w]] = w
    BY <1>2, <1>3, <1>4, <2>1, <2>2, <2>3, <2>4, SMTT(30) DEF IInv, Owners
  <2>7. \A w \in User : pc'[w] = "holding" => valid'[buf'[w]] = 1
    BY <1>2, <1>3, <1>4, <2>1, <2>2, <2>3, <2>4, SMTT(30) DEF IInv, Owners
  <2>8. \A w \in User : pc'[w] = "reading" => valid'[buf'[w]] = 0
    BY <1>2, <1>3, <1>4, <2>1, <2>2, <2>3, <2>4, SMTT(30) DEF IInv, Owners
  <2>9. \A w \in User : pc'[w] = "asleep" => owner'[buf'[w]] # NoUser
    BY <1>2, <1>3, <1>4, <2>1, <2>2, <2>3, <2>4, SMTT(30) DEF IInv, Owners
  <2> QED
    BY ONLY <2>5, <2>6, <2>7, <2>8, <2>9 DEF Owners
<1> QED
  BY <1>1, <1>5, <1>6, <1>7, SameReferences DEF IInv

\* A killed sleeper looks at the lock again.
LEMMA Kill ==
  ASSUME IInv, NEW u \in User, kill(u)
  PROVE  IInv'
<1>1. /\ pc[u] = "asleep" /\ pc' = [pc EXCEPT ![u] = "locking"]
      /\ UNCHANGED <<block, valid, data, refcnt, pinned, owner, disk, buf, panicked>>
  BY DEF kill, entries
<1>2. pc'[u] = "locking" /\ \A w \in User \ {u} : pc'[w] = pc[w]
  BY <1>1 DEF IInv, TypeOK
<1>3. TypeOK'
  <2>1. \A w \in User : pc'[w] = "idle" <=> buf'[w] = Head
    BY <1>1, <1>2 DEF IInv, TypeOK
  <2> QED
    BY <1>1, <2>1, Names DEF IInv, TypeOK
<1>4. Identified' /\ Clean'
  BY <1>1 DEF IInv, Identified, Clean
<1>5. Owners'
  BY <1>1, <1>2, SMTT(30) DEF IInv, TypeOK, Owners
<1> QED
  BY <1>1, <1>3, <1>4, <1>5, SameReferences DEF IInv

-----------------------------------------------------------------------------
(* What the holder of a buffer does.                                       *)

\* The holder's buffer is its own.
LEMMA Held ==
  ASSUME IInv, NEW u \in User, pc[u] = "holding"
  PROVE  /\ buf[u] \in Buf /\ block[buf[u]] \in Block
         /\ owner[buf[u]] = u /\ u # NoUser
         /\ valid[buf[u]] = 1
BY Busy, CacheAssumption DEF IInv, Owners

\* Changes to the contents, the pins and the disk by the holder of a buffer.
LEMMA HolderStep ==
  ASSUME IInv, NEW u \in User, pc[u] = "holding", TypeOK',
         UNCHANGED <<block, valid, refcnt, owner, pc, buf>>,
         \A c \in Buf \ {buf[u]} : data'[c] = data[c] /\ pinned'[c] = pinned[c],
         \A k \in Block \ {block[buf[u]]} : disk'[k] = disk[k]
  PROVE  IInv'
<1>1. /\ buf[u] \in Buf /\ block[buf[u]] \in Block
      /\ owner[buf[u]] = u /\ u # NoUser
  BY Held
<1>2. \A c \in Buf \ {buf[u]} : block[c] # block[buf[u]] \/ block[c] = NoBlock
  BY <1>1 DEF IInv, OneBufferPerBlock
<1>3. \A c \in Buf : valid[c] = 1 => block[c] \in Block /\ block[c] # NoBlock
  BY CacheAssumption DEF IInv, Identified
<1>4. Clean'
  BY <1>1, <1>2, <1>3 DEF IInv, Clean
<1>5. Identified' /\ Owners'
  BY DEF IInv, Identified, Owners
<1> QED
  BY <1>4, <1>5, SameReferences DEF IInv

\* An update.
LEMMA ModifyStep ==
  ASSUME IInv, NEW u \in User, NEW v \in Value, Modify(u, v)
  PROVE  IInv'
<1>1. /\ pc[u] = "holding" /\ data' = [data EXCEPT ![buf[u]] = v]
      /\ UNCHANGED <<block, valid, refcnt, pinned, owner, disk, pc, buf, panicked>>
  BY DEF Modify
<1>2. TypeOK'
  BY <1>1, Held DEF IInv, TypeOK
<1>3. \A c \in Buf \ {buf[u]} : data'[c] = data[c]
  BY <1>1 DEF IInv, TypeOK
<1> QED
  BY <1>1, <1>2, <1>3, HolderStep

\* Writing back.
LEMMA WriteBack ==
  ASSUME IInv, NEW u \in User, bwrite(u)
  PROVE  IInv'
<1>1. /\ pc[u] = "holding"
      /\ disk' = [disk EXCEPT ![block[buf[u]]] = data[buf[u]]]
      /\ UNCHANGED <<block, valid, data, refcnt, pinned, owner, pc, buf, panicked>>
  BY DEF bwrite, entries
<1>2. TypeOK'
  BY <1>1, Held DEF IInv, TypeOK
<1>3. \A k \in Block \ {block[buf[u]]} : disk'[k] = disk[k]
  BY <1>1 DEF IInv, TypeOK
<1> QED
  BY <1>1, <1>2, <1>3, HolderStep

\* Pinning and unpinning.
LEMMA PinStep ==
  ASSUME IInv, NEW u \in User, bpin(u) \/ bunpin(u)
  PROVE  IInv'
<1>1. /\ pc[u] = "holding"
      /\ \/ pinned[buf[u]] < MaxPin /\ pinned' = [pinned EXCEPT ![buf[u]] = pinned[buf[u]] + 1]
         \/ pinned[buf[u]] > 0 /\ pinned' = [pinned EXCEPT ![buf[u]] = pinned[buf[u]] - 1]
      /\ UNCHANGED <<block, valid, data, refcnt, owner, disk, pc, buf, panicked>>
  BY DEF bpin, bunpin
<1>2. pinned[buf[u]] \in 0 .. MaxPin /\ MaxPin \in Nat
  BY <1>1, Held, CacheAssumption DEF IInv, TypeOK
<1>3. pinned' \in [Buf -> 0 .. MaxPin]
  BY <1>1, <1>2, SMTT(30) DEF IInv, TypeOK
<1>4. TypeOK'
  BY <1>1, <1>3 DEF IInv, TypeOK
<1>5. \A c \in Buf \ {buf[u]} : pinned'[c] = pinned[c]
  BY <1>1 DEF IInv, TypeOK
<1> QED
  BY <1>1, <1>4, <1>5, HolderStep

-----------------------------------------------------------------------------
(* brelse.                                                                 *)

\* Unlocking: the contents are on the disk or pinned, and every sleeper on
\* the lock is woken.
LEMMA Unlock ==
  ASSUME IInv, NEW u \in User, brelse_unlock(u)
  PROVE  IInv'
<1> DEFINE b == buf[u]
<1>1. /\ pc[u] = "holding"
      /\ pinned[b] > 0 \/ data[b] = disk[block[b]]
      /\ owner' = [owner EXCEPT ![b] = NoUser]
      /\ pc' = [w \in User |-> IF w = u THEN "unlocked"
                  ELSE IF pc[w] = "asleep" /\ buf[w] = b THEN "locking" ELSE pc[w]]
      /\ UNCHANGED <<block, valid, data, refcnt, pinned, disk, buf, panicked>>
  BY DEF brelse_unlock, Wake, entries
<1>2. b \in Buf /\ owner[b] = u
  BY <1>1, Held
<1>3. pc'[u] = "unlocked" /\ \A w \in User \ {u} :
        \/ pc'[w] = pc[w] /\ ~(pc[w] = "asleep" /\ buf[w] = b)
        \/ pc[w] = "asleep" /\ buf[w] = b /\ pc'[w] = "locking"
  BY <1>1
<1>4. owner'[b] = NoUser /\ \A c \in Buf \ {b} : owner'[c] = owner[c]
  BY <1>1, <1>2 DEF IInv, TypeOK
<1>5. TypeOK'
  <2>1. \A w \in User : pc'[w] = "idle" <=> buf'[w] = Head
    BY <1>1, <1>3 DEF IInv, TypeOK
  <2>2. pc' \in [User -> PC]
    BY <1>1, Names DEF IInv, TypeOK
  <2> QED
    BY <1>1, <1>2, <2>1, <2>2 DEF IInv, TypeOK
<1>6. Identified'
  BY <1>1 DEF IInv, Identified
<1>7. Clean'
  <2>1. pinned[b] # 0 \/ data[b] = disk[block[b]]
    BY <1>1, <1>2, SMTT(30) DEF IInv, TypeOK
  <2> QED
    BY <1>1, <1>4, <2>1 DEF IInv, Clean
<1>8. Owners'
  <2>1. \A w \in User \ {u} : pc[w] # "idle" => buf[w] \in Buf
    BY Busy
  <2>2. \A w \in User \ {u} : pc[w] \in {"reading", "holding"} => buf[w] # b
    BY <1>2 DEF IInv, Owners
  <2>3. \A c \in Buf \ {b} : owner[c] # NoUser => owner[c] \in User \ {u}
    BY <1>1, SMTT(30) DEF IInv, TypeOK, Owners
  <2> HIDE DEF b
  <2>4. buf' = buf /\ valid' = valid
    BY <1>1
  <2>5. \A c \in Buf : owner'[c] # NoUser =>
          buf'[owner'[c]] = c /\ pc'[owner'[c]] \in {"reading", "holding"}
    BY <1>2, <1>3, <1>4, <2>1, <2>2, <2>3, <2>4, SMTT(30) DEF IInv, Owners
  <2>6. \A w \in User : pc'[w] \in {"reading", "holding"} => owner'[buf'[w]] = w
    BY <1>2, <1>3, <1>4, <2>1, <2>2, <2>3, <2>4, SMTT(30) DEF IInv, Owners
  <2>7. \A w \in User : pc'[w] = "holding" => valid'[buf'[w]] = 1
    BY <1>2, <1>3, <1>4, <2>1, <2>2, <2>3, <2>4, SMTT(30) DEF IInv, Owners
  <2>8. \A w \in User : pc'[w] = "reading" => valid'[buf'[w]] = 0
    BY <1>2, <1>3, <1>4, <2>1, <2>2, <2>3, <2>4, SMTT(30) DEF IInv, Owners
  <2>9. \A w \in User : pc'[w] = "asleep" => owner'[buf'[w]] # NoUser
    BY <1>2, <1>3, <1>4, <2>1, <2>2, <2>3, <2>4, SMTT(30) DEF IInv, Owners
  <2> QED
    BY ONLY <2>5, <2>6, <2>7, <2>8, <2>9 DEF Owners
<1> QED
  BY <1>1, <1>5, <1>6, <1>7, <1>8, SameReferences DEF IInv

\* A dropped reference removes one user.
LEMMA LostUser ==
  ASSUME IInv, NEW u \in User, NEW b \in Buf, buf[u] = b,
         buf' = [buf EXCEPT ![u] = Head],
         refcnt' = [refcnt EXCEPT ![b] = refcnt[b] - 1]
  PROVE  refcnt[b] \in Nat \ {0} /\ ReferencesCounted'
<1>1. buf \in [User -> Buf \cup {Head}] /\ refcnt \in [Buf -> Nat]
  BY DEF IInv, TypeOK
<1>2. Users(b)' = Users(b) \ {u} /\ u \in Users(b)
  BY <1>1, HeadIsNoBuffer DEF Users
<1>3. \A c \in Buf \ {b} : Users(c)' = Users(c)
  BY <1>1, HeadIsNoBuffer DEF Users
<1>4. Cardinality(Users(b)') = Cardinality(Users(b)) - 1
  BY <1>2, UsersFinite, FS_RemoveElement
<1>5. refcnt'[b] = refcnt[b] - 1 /\ \A c \in Buf \ {b} : refcnt'[c] = refcnt[c]
  BY <1>1
<1>6. \A c \in Buf : refcnt[c] = Cardinality(Users(c))
  BY DEF IInv, ReferencesCounted
<1>7. \A c \in Buf : refcnt'[c] = Cardinality(Users(c)')
  BY <1>3, <1>4, <1>5, <1>6
<1>8. Cardinality(Users(b)) # 0
  BY <1>2, UsersFinite, FS_EmptySet
<1> QED
  BY <1>1, <1>6, <1>7, <1>8 DEF ReferencesCounted

\* Dropping a reference.
LEMMA Drop ==
  ASSUME IInv, NEW u \in User, brelse_drop(u)
  PROVE  IInv'
<1> DEFINE b == buf[u]
<1>1. /\ pc[u] = "unlocked" /\ pc' = [pc EXCEPT ![u] = "idle"]
      /\ buf' = [buf EXCEPT ![u] = Head]
      /\ refcnt' = [refcnt EXCEPT ![b] = refcnt[b] - 1]
      /\ UNCHANGED <<block, valid, data, pinned, owner, disk, panicked>>
  BY DEF brelse_drop
<1>2. b \in Buf
  BY <1>1, Busy
<1>3. /\ pc'[u] = "idle" /\ buf'[u] = Head
      /\ \A w \in User \ {u} : pc'[w] = pc[w] /\ buf'[w] = buf[w]
  BY <1>1 DEF IInv, TypeOK
<1>5. /\ refcnt[b] \in Nat \ {0}
      /\ ReferencesCounted'
  BY <1>1, <1>2, LostUser
<1>6. TypeOK'
  <2>1. \A w \in User : pc'[w] = "idle" <=> buf'[w] = Head
    BY <1>3 DEF IInv, TypeOK
  <2>2. refcnt' \in [Buf -> Nat]
    BY <1>1, <1>2, <1>5, SMTT(30) DEF IInv, TypeOK
  <2> QED
    BY <1>1, <2>1, <2>2, Names DEF IInv, TypeOK
<1>7. OneBufferPerBlock' /\ Clean'
  BY <1>1 DEF IInv, OneBufferPerBlock, Clean
<1>8. Identified'
  BY <1>1, <1>3, HeadIsNoBuffer, SMTT(30) DEF IInv, Identified
<1>9. Owners'
  <2>1. \A c \in Buf : owner[c] # NoUser => owner[c] \in User \ {u}
    BY <1>1, SMTT(30) DEF IInv, TypeOK, Owners
  <2> QED
    BY <1>1, <1>3, <2>1, SMTT(30) DEF IInv, Owners
<1> QED
  BY <1>5, <1>6, <1>7, <1>8, <1>9 DEF IInv

-----------------------------------------------------------------------------
(* The theorems.                                                           *)

\* binit establishes the invariant.
LEMMA Initially == Init => IInv
<1> SUFFICES ASSUME Init PROVE IInv
  OBVIOUS
<1>1. \A u \in User : buf[u] = Head /\ pc[u] = "idle"
  BY DEF Init
<1>2. \A b \in Buf : Users(b) = {}
  BY <1>1, HeadIsNoBuffer DEF Users
<1>3. ReferencesCounted
  BY <1>2, FS_EmptySet DEF ReferencesCounted, Init
<1>4. TypeOK
  BY CacheAssumption, Names, SMTT(30) DEF Init, TypeOK
<1>5. OneBufferPerBlock /\ Identified /\ Clean
  BY <1>1, HeadIsNoBuffer, SMTT(30) DEF Init, OneBufferPerBlock, Identified, Clean
<1>6. Owners
  BY <1>1 DEF Init, Owners
<1> QED
  BY <1>3, <1>4, <1>5, <1>6 DEF IInv

\* Every step of the cache preserves it.
LEMMA Inductive == IInv /\ [Next]_vars => IInv'
<1> SUFFICES ASSUME IInv, [Next]_vars PROVE IInv'
  OBVIOUS
<1>1. CASE UNCHANGED vars
  BY <1>1, SameReferences DEF vars, IInv, TypeOK, Identified, Owners, Clean
<1>2. CASE Next
  <2>1. PICK u \in User : Step(u)
    BY <1>2 DEF Next
  <2> QED
    BY <2>1, Hit, Recycle, Exhausted, LockWait, LockTake, DiskRead, Kill, ModifyStep,
       WriteBack, PinStep, Unlock, Drop DEF Step
<1> QED
  BY <1>1, <1>2

\* Every reachable state of the cache satisfies the inductive invariant.
THEOREM InvariantHolds == Spec => []IInv
BY Initially, Inductive, PTL DEF Spec

\* kernel/bio.c keeps every variable in its type.
THEOREM TypeCorrect == Spec => []TypeOK
<1>1. IInv => TypeOK
  BY DEF IInv
<1> QED
  BY <1>1, InvariantHolds, PTL

\* bget never lets two buffers stand for one block.
THEOREM UniqueIdentities == Spec => []OneBufferPerBlock
<1>1. IInv => OneBufferPerBlock
  BY DEF IInv
<1> QED
  BY <1>1, InvariantHolds, PTL

\* refcnt is the number of bread calls whose brelse is to come.
THEOREM CountsAreExact == Spec => []ReferencesCounted
<1>1. IInv => ReferencesCounted
  BY DEF IInv
<1> QED
  BY <1>1, InvariantHolds, PTL

\* Nobody sleeps in acquiresleep on a lock that nobody has.
THEOREM NoForgottenSleeper == Spec => []SleepersHaveOwner
<1>1. IInv => SleepersHaveOwner
  <2> SUFFICES ASSUME IInv, NEW u \in User, pc[u] = "asleep"
               PROVE  /\ owner[buf[u]] \in User
                      /\ pc[owner[buf[u]]] \in {"reading", "holding"}
                      /\ buf[owner[buf[u]]] = buf[u]
    BY DEF SleepersHaveOwner
  <2>1. buf[u] \in Buf /\ owner[buf[u]] # NoUser
    BY Busy DEF IInv, Owners
  <2> QED
    BY <2>1, SMTT(30) DEF IInv, TypeOK, Owners
<1> QED
  BY <1>1, InvariantHolds, PTL

\* bget never gives a referenced or pinned buffer to another block.
THEOREM ActiveStays == Spec => ActiveNotEvicted
<1> DEFINE A == \A b \in Buf : block'[b] # block[b] => Users(b) = {} /\ pinned[b] = 0
<1>1. IInv /\ [Next]_vars => [A]_vars
  <2> SUFFICES ASSUME IInv, Next PROVE A
    BY DEF vars
  <2>1. PICK u \in User : Step(u)
    BY DEF Next
  <2>2. CASE block' = block
    BY <2>2
  <2>3. ASSUME NEW k \in Block, bget_recycle(u, k) PROVE A
    <3>1. PICK b \in Buf : /\ refcnt[b] = 0 /\ pinned[b] = 0
                           /\ block' = [block EXCEPT ![b] = k]
      BY <2>3 DEF bget_recycle, Victim, Free
    <3>2. Users(b) = {}
      BY <3>1, FreeHasNoUsers DEF Users
    <3>3. \A c \in Buf \ {b} : block'[c] = block[c]
      BY <3>1 DEF IInv, TypeOK
    <3> QED
      BY <3>1, <3>2, <3>3
  <2>4. block' = block \/ \E k \in Block : bget_recycle(u, k)
    BY <2>1 DEF Step, bget_hit, bget_panic, lock_wait, lock_take, disk_read, kill,
       Modify, bwrite, bpin, bunpin, brelse_unlock, brelse_drop, entries
  <2> QED
    BY <2>2, <2>3, <2>4
<1> QED
  BY <1>1, InvariantHolds, PTL DEF Spec, ActiveNotEvicted

-----------------------------------------------------------------------------
(* The LRU list.                                                           *)

\* The nodes of the list.
Node == {Head} \cup Buf

\* The order s of the buffers is the one the links nx and pv give.
Linked(s, nx, pv) ==
  /\ s \in [Buf -> Buf]
  /\ \A i, j \in Buf : s[i] = s[j] => i = j
  /\ \A b \in Buf : \E i \in Buf : s[i] = b
  /\ \A i \in 0 .. NBUF : nx[At(s, i)] = At(s, i + 1) /\ pv[At(s, i + 1)] = At(s, i)

LinkInv ==
  /\ next \in [Node -> Node] /\ prev \in [Node -> Node]
  /\ \E s : Linked(s, next, prev)

\* LinkInv says what RingIntact says.
LEMMA LinksForm == LinkInv => RingIntact
BY DEF LinkInv, Linked, RingIntact

\* The list binit builds runs from the last buffer down to the first.
LEMMA InitLinked == Init => LinkInv
<1> SUFFICES ASSUME Init PROVE LinkInv
  OBVIOUS
<1> USE CacheAssumption DEF Buf, Head
<1>u. /\ next = [b \in Node |-> IF b = Head THEN NBUF ELSE b - 1]
      /\ prev = [b \in Node |-> IF b = NBUF THEN Head ELSE b + 1]
  BY DEF Init, Node
<1>1. next \in [Node -> Node] /\ prev \in [Node -> Node]
  BY <1>u, SMTT(30) DEF Node
<1> DEFINE s == [i \in Buf |-> NBUF + 1 - i]
<1>2. s \in [Buf -> Buf] /\ \A i, j \in Buf : s[i] = s[j] => i = j
  BY SMTT(30)
<1>3. ASSUME NEW b \in Buf PROVE \E i \in Buf : s[i] = b
  <2>1. NBUF + 1 - b \in Buf /\ s[NBUF + 1 - b] = b
    BY SMTT(30)
  <2> QED
    BY <2>1
<1>4. \A i \in 0 .. NBUF + 1 :
        At(s, i) = IF i \in 1 .. NBUF THEN NBUF + 1 - i ELSE 0
  BY DEF At
<1> HIDE DEF s
<1>5. ASSUME NEW i \in 0 .. NBUF
      PROVE  next[At(s, i)] = At(s, i + 1) /\ prev[At(s, i + 1)] = At(s, i)
  <2>1. i \in 0 .. NBUF + 1 /\ i + 1 \in 0 .. NBUF + 1
    BY SMTT(30)
  <2>2. CASE i = 0 /\ NBUF = 1
    BY <1>u, <1>4, <2>1, <2>2, SMTT(30) DEF Node
  <2>3. CASE i = 0 /\ NBUF # 1
    BY <1>u, <1>4, <2>1, <2>3, SMTT(30) DEF Node
  <2>4. CASE i # 0 /\ i = NBUF
    BY <1>u, <1>4, <2>1, <2>4, SMTT(30) DEF Node
  <2>5. CASE i # 0 /\ i # NBUF
    BY <1>u, <1>4, <2>1, <2>5, SMTT(30) DEF Node
  <2> QED
    BY <2>2, <2>3, <2>4, <2>5
<1> QED
  BY <1>1, <1>2, <1>3, <1>5 DEF LinkInv, Linked

\* Positions and buffers correspond, the head included.
LEMMA AtFacts ==
  ASSUME NEW s, NEW nx, NEW pv, Linked(s, nx, pv)
  PROVE  /\ \A i \in 0 .. NBUF + 1 : At(s, i) \in Node
         /\ \A i \in 1 .. NBUF : At(s, i) = s[i] /\ At(s, i) # Head
         /\ At(s, 0) = Head /\ At(s, NBUF + 1) = Head
         /\ \A i, j \in 0 .. NBUF : At(s, i) = At(s, j) => i = j
<1> USE CacheAssumption
<1>1. \A i \in 1 .. NBUF : At(s, i) = s[i] /\ s[i] \in 1 .. NBUF
  BY DEF Linked, At, Buf
<1>2. At(s, 0) = 0 /\ At(s, NBUF + 1) = 0
  BY SMTT(30) DEF At, Buf, Head
<1>3. \A i \in 0 .. NBUF + 1 : i \in 1 .. NBUF \/ i = 0 \/ i = NBUF + 1
  BY SMTT(30)
<1>4. \A i \in 0 .. NBUF + 1 : At(s, i) \in Node
  BY <1>1, <1>2, <1>3 DEF Node, Buf, Head
<1>5. ASSUME NEW i \in 0 .. NBUF, NEW j \in 0 .. NBUF, At(s, i) = At(s, j)
      PROVE  i = j
  <2>1. CASE i = 0
    BY <1>1, <1>2, <1>5, <2>1, SMTT(30)
  <2>2. CASE j = 0
    BY <1>1, <1>2, <1>5, <2>2, SMTT(30)
  <2>3. CASE i # 0 /\ j # 0
    BY <1>1, <1>5, <2>3, SMTT(30) DEF Linked, Buf
  <2> QED
    BY <2>1, <2>2, <2>3
<1> QED
  BY <1>1, <1>2, <1>4, <1>5, SMTT(30) DEF Head

\* What the move of b to the tail does to each link.
LEMMA TailLinks ==
  ASSUME next \in [Node -> Node], prev \in [Node -> Node],
         NEW b \in Buf, next[b] # Head, ToTail(b)
  PROVE  /\ next' \in [Node -> Node] /\ prev' \in [Node -> Node]
         /\ \A x \in Node :
              /\ next'[x] = IF x = b THEN Head ELSE IF x = prev[Head] THEN b
                            ELSE IF x = prev[b] THEN next[b] ELSE next[x]
              /\ prev'[x] = IF x = Head THEN b ELSE IF x = b THEN prev[Head]
                            ELSE IF x = next[b] THEN prev[b] ELSE prev[x]
<1>t. /\ b \in Node /\ Head \in Node /\ b # Head
      /\ next[b] \in Node /\ prev[b] \in Node /\ prev[Head] \in Node
  BY CacheAssumption, SMTT(30) DEF Node, Buf, Head
<1> DEFINE n1 == [next EXCEPT ![prev[b]] = next[b]]
           p1 == [prev EXCEPT ![next[b]] = prev[b]]
           p2 == [p1 EXCEPT ![b] = p1[Head]]
           n2 == [n1 EXCEPT ![p2[Head]] = b]
<1>u. next' = [n2 EXCEPT ![b] = Head] /\ prev' = [p2 EXCEPT ![Head] = b]
  BY DEF ToTail
<1>1. p1 \in [Node -> Node] /\ p1[Head] = prev[Head]
  BY <1>t
<1>2. n1 \in [Node -> Node]
  BY <1>t
<1>3. \A x \in Node : /\ p1[x] = IF x = next[b] THEN prev[b] ELSE prev[x]
                      /\ n1[x] = IF x = prev[b] THEN next[b] ELSE next[x]
  BY <1>t
<1> HIDE DEF p1, n1
<1>4. p2 \in [Node -> Node] /\ p2[Head] = prev[Head]
  BY <1>t, <1>1
<1>5. \A x \in Node : p2[x] = IF x = b THEN prev[Head] ELSE p1[x]
  BY <1>t, <1>1
<1> HIDE DEF p2
<1>6. n2 \in [Node -> Node]
  BY <1>t, <1>2, <1>4
<1>7. \A x \in Node : n2[x] = IF x = prev[Head] THEN b ELSE n1[x]
  BY <1>t, <1>2, <1>4
<1> HIDE DEF n2
<1>8. next' \in [Node -> Node] /\ prev' \in [Node -> Node]
  BY <1>t, <1>u, <1>4, <1>6
<1>9. \A x \in Node : /\ next'[x] = IF x = b THEN Head ELSE n2[x]
                      /\ prev'[x] = IF x = Head THEN b ELSE p2[x]
  BY <1>t, <1>u, <1>4, <1>6
<1>10. ASSUME NEW x \in Node
       PROVE  /\ next'[x] = IF x = b THEN Head ELSE IF x = prev[Head] THEN b
                            ELSE IF x = prev[b] THEN next[b] ELSE next[x]
              /\ prev'[x] = IF x = Head THEN b ELSE IF x = b THEN prev[Head]
                            ELSE IF x = next[b] THEN prev[b] ELSE prev[x]
  BY <1>3, <1>5, <1>7, <1>9, SMTT(30)
<1> QED
  BY <1>8, <1>10

\* Moving a buffer to the tail keeps the ring: the buffers behind it move up
\* by one place.
LEMMA TailKeepsRing ==
  ASSUME LinkInv, NEW b \in Buf, ToTail(b)
  PROVE  LinkInv'
<1>1. CASE next[b] = Head
  BY <1>1 DEF ToTail, list, LinkInv
<1>2. CASE next[b] # Head
  <2> USE CacheAssumption
  <2>t. next \in [Node -> Node] /\ prev \in [Node -> Node]
    BY DEF LinkInv
  <2>1. PICK s : Linked(s, next, prev)
    BY DEF LinkInv
  <2>2. /\ \A i \in 0 .. NBUF + 1 : At(s, i) \in Node
        /\ \A i \in 1 .. NBUF : At(s, i) = s[i] /\ At(s, i) # Head
        /\ At(s, 0) = Head /\ At(s, NBUF + 1) = Head
        /\ \A i, j \in 0 .. NBUF : At(s, i) = At(s, j) => i = j
    BY <2>1, AtFacts
  <2>3. \A i \in 0 .. NBUF : /\ next[At(s, i)] = At(s, i + 1)
                             /\ prev[At(s, i + 1)] = At(s, i)
    BY <2>1 DEF Linked
  <2>4. PICK k \in 1 .. NBUF : At(s, k) = b
    BY <2>1, <2>2, SMTT(30) DEF Linked, Buf
  <2>5. k \in 1 .. NBUF - 1
    BY <1>2, <2>2, <2>3, <2>4, SMTT(30)
  <2>6. /\ next[b] = At(s, k + 1) /\ prev[b] = At(s, k - 1)
        /\ prev[Head] = At(s, NBUF)
    <3>1. prev[At(s, (k - 1) + 1)] = At(s, k - 1) /\ (k - 1) + 1 = k
      BY <2>3, SMTT(30)
    <3>2. prev[At(s, NBUF + 1)] = At(s, NBUF)
      BY <2>3, SMTT(30)
    <3> QED
      BY <2>2, <2>3, <2>4, <3>1, <3>2, SMTT(30)
  <2>7. /\ next' \in [Node -> Node] /\ prev' \in [Node -> Node]
        /\ \A x \in Node :
             /\ next'[x] = IF x = b THEN Head ELSE IF x = At(s, NBUF) THEN b
                           ELSE IF x = At(s, k - 1) THEN At(s, k + 1) ELSE next[x]
             /\ prev'[x] = IF x = Head THEN b ELSE IF x = b THEN At(s, NBUF)
                           ELSE IF x = At(s, k + 1) THEN At(s, k - 1) ELSE prev[x]
    BY <1>2, <2>t, <2>6, TailLinks, SMTT(30)
  <2> DEFINE from(i) == IF i < k THEN i ELSE IF i < NBUF THEN i + 1 ELSE k
             r == [i \in Buf |-> s[from(i)]]
  <2>8. \A i \in 1 .. NBUF : from(i) \in 1 .. NBUF /\ r[i] = s[from(i)]
    BY <2>5, SMTT(30) DEF Buf
  <2>9. r \in [Buf -> Buf]
    BY <2>1, <2>8 DEF Linked, Buf
  <2>10. \A i, j \in Buf : r[i] = r[j] => i = j
    <3>1. ASSUME NEW i \in Buf, NEW j \in Buf, r[i] = r[j] PROVE i = j
      <4>1. from(i) = from(j)
        BY <2>1, <2>8, <3>1 DEF Linked, Buf
      <4> QED
        BY <4>1, <2>5, SMTT(30) DEF Buf
    <3> QED
      BY <3>1
  <2>11. \A c \in Buf : \E i \in Buf : r[i] = c
    <3>1. ASSUME NEW c \in Buf PROVE \E i \in Buf : r[i] = c
      <4>1. PICK j \in Buf : s[j] = c
        BY <2>1 DEF Linked
      <4> DEFINE i == IF j < k THEN j ELSE IF j = k THEN NBUF ELSE j - 1
      <4>2. i \in 1 .. NBUF /\ from(i) = j
        BY <2>5, SMTT(30) DEF Buf
      <4> HIDE DEF i
      <4>3. r[i] = c /\ i \in Buf
        BY <2>8, <4>1, <4>2 DEF Buf
      <4> QED
        BY <4>3
    <3> QED
      BY <3>1
  <2>12. /\ \A i \in 0 .. k - 1 : At(r, i) = At(s, i)
         /\ \A i \in k .. NBUF - 1 : At(r, i) = At(s, i + 1)
         /\ At(r, NBUF) = b /\ At(r, NBUF + 1) = Head
    <3>1. \A i \in 1 .. NBUF : At(r, i) = s[from(i)]
      BY <2>8 DEF At, Buf
    <3>2. At(r, 0) = Head /\ At(r, NBUF + 1) = Head
      BY SMTT(30) DEF At, Buf
    <3> HIDE DEF r
    <3>3. ASSUME NEW i \in 0 .. k - 1 PROVE At(r, i) = At(s, i)
      BY <2>2, <2>5, <3>1, <3>2, SMTT(30)
    <3>4. ASSUME NEW i \in k .. NBUF - 1 PROVE At(r, i) = At(s, i + 1)
      BY <2>2, <2>5, <3>1, SMTT(30)
    <3>5. At(r, NBUF) = b
      BY <2>2, <2>4, <2>5, <3>1, SMTT(30)
    <3> QED
      BY <3>2, <3>3, <3>4, <3>5
  <2> HIDE DEF r, from
  <2>13. ASSUME NEW i \in 0 .. NBUF
         PROVE  /\ next'[At(r, i)] = At(r, i + 1)
                /\ prev'[At(r, i + 1)] = At(r, i)
    <3>1. CASE i < k - 1
      <4>1. i \in 0 .. k - 1 /\ i + 1 \in 0 .. k - 1
        BY <2>5, <3>1, SMTT(30)
      <4>2. At(r, i) = At(s, i) /\ At(r, i + 1) = At(s, i + 1)
        BY <2>12, <4>1
      <4>3. /\ At(s, i) # At(s, k) /\ At(s, i) # At(s, NBUF) /\ At(s, i) # At(s, k - 1)
            /\ At(s, i + 1) # At(s, 0) /\ At(s, i + 1) # At(s, k) /\ At(s, i + 1) # At(s, k + 1)
        BY <2>2, <2>5, <3>1, SMTT(30)
      <4>4. At(s, i) \in Node /\ At(s, i + 1) \in Node
        BY <2>2, SMTT(30)
      <4> QED
        BY <2>2, <2>3, <2>4, <2>7, <4>2, <4>3, <4>4, SMTT(30)
    <3>2. CASE i = k - 1
      <4>1. At(r, i) = At(s, k - 1) /\ At(r, i + 1) = At(s, k + 1)
        BY <2>5, <2>12, <3>2, SMTT(30)
      <4>2. /\ At(s, k - 1) # At(s, k) /\ At(s, k - 1) # At(s, NBUF)
            /\ At(s, k + 1) # At(s, 0) /\ At(s, k + 1) # At(s, k)
        BY <2>2, <2>5, SMTT(30)
      <4>3. At(s, k - 1) \in Node /\ At(s, k + 1) \in Node
        BY <2>2, <2>5, SMTT(30)
      <4> QED
        BY <2>2, <2>4, <2>7, <4>1, <4>2, <4>3
    <3>3. CASE k <= i /\ i < NBUF - 1
      <4>1. i \in k .. NBUF - 1 /\ i + 1 \in k .. NBUF - 1
        BY <2>5, <3>3, SMTT(30)
      <4> DEFINE j == i + 1
      <4>2. At(r, i) = At(s, j) /\ At(r, i + 1) = At(s, j + 1)
        BY <2>12, <4>1
      <4>3. j \in 0 .. NBUF - 1 /\ k < j
        BY <2>5, <3>3, SMTT(30)
      <4> HIDE DEF j
      <4>4. /\ At(s, j) # At(s, k) /\ At(s, j) # At(s, NBUF) /\ At(s, j) # At(s, k - 1)
            /\ At(s, j + 1) # At(s, 0) /\ At(s, j + 1) # At(s, k) /\ At(s, j + 1) # At(s, k + 1)
        BY <2>2, <2>5, <4>3, SMTT(30)
      <4>5. At(s, j) \in Node /\ At(s, j + 1) \in Node
        BY <2>2, <4>3, SMTT(30)
      <4>6. next[At(s, j)] = At(s, j + 1) /\ prev[At(s, j + 1)] = At(s, j)
        BY <2>3, <4>3, SMTT(30)
      <4> QED
        BY <2>2, <2>4, <2>7, <4>2, <4>4, <4>5, <4>6
    <3>4. CASE i = NBUF - 1
      <4>1. At(r, i) = At(s, NBUF) /\ At(r, i + 1) = b
        BY <2>5, <2>12, <3>4, SMTT(30)
      <4>2. At(s, NBUF) # At(s, k) /\ b # Head /\ b \in Node /\ At(s, NBUF) \in Node
        BY <2>2, <2>4, <2>5, SMTT(30)
      <4> QED
        BY <2>4, <2>7, <4>1, <4>2
    <3>5. CASE i = NBUF
      <4>1. At(r, i) = b /\ At(r, i + 1) = Head
        BY <2>12, <3>5
      <4>2. b \in Node /\ Head \in Node
        BY DEF Node
      <4> QED
        BY <2>7, <4>1, <4>2
    <3> QED
      BY <2>5, <3>1, <3>2, <3>3, <3>4, <3>5, SMTT(30)
  <2>14. Linked(r, next', prev')
    BY <2>9, <2>10, <2>11, <2>13 DEF Linked
  <2> QED
    BY <2>7, <2>14 DEF LinkInv
<1> QED
  BY <1>1, <1>2

\* Every step keeps the ring; only brelse touches it.
LEMMA NextLinked ==
  ASSUME IInv, LinkInv, [Next]_vars
  PROVE  LinkInv'
<1>1. CASE UNCHANGED list
  BY <1>1 DEF list, LinkInv
<1>2. ASSUME NEW u \in User, brelse_drop(u) PROVE LinkInv'
  <2>1. buf[u] \in Buf
    BY <1>2 DEF brelse_drop, IInv, TypeOK
  <2> QED
    BY <1>1, <1>2, <2>1, TailKeepsRing DEF brelse_drop
<1>3. UNCHANGED list \/ \E u \in User : brelse_drop(u)
  BY DEF Next, Step, bget_hit, bget_recycle, bget_panic, lock_wait, lock_take,
     disk_read, kill, Modify, bwrite, bpin, bunpin, brelse_unlock, vars, list
<1> QED
  BY <1>1, <1>2, <1>3

\* brelse never breaks the LRU list: its links form one ring through the head
\* and all the buffers, the same in both directions.
THEOREM RingKept == Spec => []RingIntact
<1>1. Init => LinkInv
  BY InitLinked
<1>2. IInv /\ LinkInv /\ [Next]_vars => LinkInv'
  BY NextLinked
<1>3. LinkInv => RingIntact
  BY LinksForm
<1> QED
  BY <1>1, <1>2, <1>3, InvariantHolds, PTL DEF Spec

-----------------------------------------------------------------------------
(* The buffer cache implements BlockStore.                                 *)

\* What the refinement mapping says of a block, read off its buffer.
ContentsMap ==
  \A k \in Block :
    /\ \A b \in Buf : block[b] = k /\ valid[b] = 1 => Contents(k) = data[b]
    /\ (\A b \in Buf : ~(block[b] = k /\ valid[b] = 1)) => Contents(k) = disk[k]

\* The contents of a block are those of the only buffer that has it.
LEMMA ContentsIs == IInv => ContentsMap
<1> SUFFICES ASSUME IInv, NEW k \in Block
             PROVE  /\ \A b \in Buf : block[b] = k /\ valid[b] = 1 => Contents(k) = data[b]
                    /\ (\A b \in Buf : ~(block[b] = k /\ valid[b] = 1)) => Contents(k) = disk[k]
  BY DEF ContentsMap
<1>1. k # NoBlock /\ OneBufferPerBlock
  BY CacheAssumption DEF IInv
<1>2. ASSUME NEW b \in Buf, block[b] = k, valid[b] = 1 PROVE Contents(k) = data[b]
  <2>1. (CHOOSE c \in Buf : block[c] = k /\ valid[c] = 1) = b
    BY <1>1, <1>2 DEF OneBufferPerBlock
  <2> QED
    BY <1>2, <2>1 DEF Contents
<1> QED
  BY <1>2 DEF Contents

\* And of its lock.
HolderMap ==
  \A k \in Block :
    /\ \A b \in Buf : block[b] = k => Holder(k) = owner[b]
    /\ (\A b \in Buf : block[b] # k) => Holder(k) = NoUser

\* The holder of a block owns the lock of the only buffer that has it.
LEMMA HolderIs == IInv => HolderMap
<1> SUFFICES ASSUME IInv, NEW k \in Block
             PROVE  /\ \A b \in Buf : block[b] = k => Holder(k) = owner[b]
                    /\ (\A b \in Buf : block[b] # k) => Holder(k) = NoUser
  BY DEF HolderMap
<1>1. k # NoBlock /\ OneBufferPerBlock
  BY CacheAssumption DEF IInv
<1>2. ASSUME NEW b \in Buf, block[b] = k PROVE Holder(k) = owner[b]
  <2>1. CASE owner[b] = NoUser
    <3>1. \A c \in Buf : ~(block[c] = k /\ owner[c] # NoUser)
      BY <1>1, <1>2, <2>1 DEF OneBufferPerBlock
    <3> QED
      BY <2>1, <3>1 DEF Holder
  <2>2. CASE owner[b] # NoUser
    <3>1. (CHOOSE c \in Buf : block[c] = k /\ owner[c] # NoUser) = b
      BY <1>1, <1>2, <2>2 DEF OneBufferPerBlock
    <3> QED
      BY <1>2, <2>2, <3>1 DEF Holder
  <2> QED
    BY <2>1, <2>2
<1> QED
  BY <1>2 DEF Holder

\* Both hold after a step as they do before it.
LEMMA MapBothSides == (IInv => ContentsMap /\ HolderMap) /\ (IInv' => ContentsMap' /\ HolderMap')
BY ContentsIs, HolderIs, PTL

\* Steps that leave every block and every lock as they are do not show.
LEMMA Silent ==
  ASSUME \A k \in Block : Contents(k)' = Contents(k) /\ Holder(k)' = Holder(k)
  PROVE  UNCHANGED Store!vars
BY DEF Store!vars

\* Steps that do not touch identities, contents, locks or the disk.
LEMMA Untouched ==
  ASSUME UNCHANGED <<block, valid, data, owner, disk>>
  PROVE  UNCHANGED Store!vars
<1>1. \A k \in Block : Contents(k)' = Contents(k) /\ Holder(k)' = Holder(k)
  BY DEF Contents, Holder
<1> QED
  BY <1>1, Silent

\* Recycling a buffer loses nothing: what it held is on the disk.
LEMMA RecycleSilent ==
  ASSUME IInv, IInv', NEW u \in User, NEW k \in Block, bget_recycle(u, k)
  PROVE  UNCHANGED Store!vars
<1>1. PICK b \in Buf :
        /\ refcnt[b] = 0 /\ pinned[b] = 0
        /\ block' = [block EXCEPT ![b] = k]
        /\ valid' = [valid EXCEPT ![b] = 0]
  BY DEF bget_recycle, Victim, Free
<1>2. /\ \A c \in Buf : block[c] # k
      /\ data' = data /\ owner' = owner /\ disk' = disk
  BY DEF bget_recycle, Cached
<1>t. TypeOK /\ Owners /\ Clean
  BY DEF IInv
<1>m. ContentsMap /\ ContentsMap' /\ HolderMap /\ HolderMap'
  BY MapBothSides
<1>3. /\ block'[b] = k /\ valid'[b] = 0
      /\ \A c \in Buf \ {b} : block'[c] = block[c] /\ valid'[c] = valid[c]
  BY ONLY <1>t, <1>1 DEF TypeOK
<1>4. owner[b] = NoUser
  <2>1. \A q \in User : buf[q] # b
    BY <1>1, FreeHasNoUsers
  <2>2. owner[b] \in User \cup {NoUser}
    BY ONLY <1>t, <1>1 DEF TypeOK
  <2>3. owner[b] # NoUser => buf[owner[b]] = b
    BY ONLY <1>t, <1>1 DEF Owners
  <2> QED
    BY ONLY <2>1, <2>2, <2>3
<1>5. valid[b] = 1 => data[b] = disk[block[b]]
  BY ONLY <1>t, <1>1, <1>4 DEF Clean
<1>6. \A j \in Block : Contents(j)' = Contents(j)
  <2> SUFFICES ASSUME NEW j \in Block PROVE Contents(j)' = Contents(j)
    OBVIOUS
  <2>1. CASE \E c \in Buf \ {b} : block[c] = j /\ valid[c] = 1
    <3>1. PICK c \in Buf \ {b} : block[c] = j /\ valid[c] = 1
      BY ONLY <2>1
    <3>2. Contents(j) = data[c]
      BY ONLY <1>m, <3>1, j \in Block DEF ContentsMap
    <3>3. block'[c] = j /\ valid'[c] = 1 /\ data'[c] = data[c]
      BY ONLY <1>2, <1>3, <3>1
    <3>4. Contents(j)' = data'[c]
      BY ONLY <1>m, <3>3, j \in Block DEF ContentsMap
    <3> QED
      BY ONLY <3>2, <3>3, <3>4
  <2>2. CASE \A c \in Buf \ {b} : ~(block[c] = j /\ valid[c] = 1)
    <3>1. Contents(j)' = disk[j]
      <4>1. \A c \in Buf : ~(block'[c] = j /\ valid'[c] = 1)
        BY ONLY <1>3, <2>2
      <4>2. Contents(j)' = disk'[j]
        BY ONLY <1>m, <4>1, j \in Block DEF ContentsMap
      <4> QED
        BY ONLY <1>2, <4>2
    <3>2. Contents(j) = disk[j]
      <4>1. CASE block[b] = j /\ valid[b] = 1
        BY ONLY <1>m, <1>1, <1>5, <4>1, j \in Block DEF ContentsMap
      <4>2. CASE ~(block[b] = j /\ valid[b] = 1)
        <5>1. \A c \in Buf : ~(block[c] = j /\ valid[c] = 1)
          BY ONLY <2>2, <4>2
        <5> QED
          BY ONLY <1>m, <5>1, j \in Block DEF ContentsMap
      <4> QED
        BY <4>1, <4>2
    <3> QED
      BY <3>1, <3>2
  <2> QED
    BY <2>1, <2>2
<1>7. \A j \in Block : Holder(j)' = Holder(j)
  <2> SUFFICES ASSUME NEW j \in Block PROVE Holder(j)' = Holder(j)
    OBVIOUS
  <2>1. CASE \E c \in Buf \ {b} : block[c] = j
    BY ONLY <1>m, <1>2, <1>3, <2>1, j \in Block DEF HolderMap
  <2>2. CASE \A c \in Buf \ {b} : block[c] # j
    BY ONLY <1>m, <1>1, <1>2, <1>3, <1>4, <2>2, j \in Block DEF HolderMap
  <2> QED
    BY <2>1, <2>2
<1> QED
  BY <1>6, <1>7, Silent

\* Reading a block in does not change its contents, nor does writing it back.
LEMMA TransferSilent ==
  ASSUME IInv, IInv', NEW u \in User, disk_read(u) \/ bwrite(u)
  PROVE  UNCHANGED Store!vars
<1> DEFINE b == buf[u]
<1>1. b \in Buf /\ block[b] \in Block /\ block' = block /\ owner' = owner
  BY Busy DEF disk_read, bwrite, entries
<1>2. \A c \in Buf \ {b} : block[c] # block[b]
  BY <1>1, CacheAssumption DEF IInv, OneBufferPerBlock
<1>t. valid \in [Buf -> {0, 1}] /\ data \in [Buf -> Value] /\ disk \in [Block -> Value]
  BY DEF IInv, TypeOK
<1>m. ContentsMap /\ ContentsMap'
  BY MapBothSides
<1>3. ASSUME NEW j \in Block PROVE Contents(j)' = Contents(j)
  <2>1. CASE disk_read(u)
    <3>1. /\ valid' = [valid EXCEPT ![b] = 1] /\ disk' = disk
          /\ data' = [data EXCEPT ![b] = disk[block[b]]]
      BY <2>1 DEF disk_read
    <3>2. valid[b] = 0
      BY <2>1 DEF disk_read, IInv, Owners
    <3> HIDE DEF b
    <3>3. /\ valid'[b] = 1 /\ data'[b] = disk[block[b]]
          /\ \A c \in Buf \ {b} : valid'[c] = valid[c] /\ data'[c] = data[c]
      BY <1>t, <1>1, <3>1
    <3>4. CASE j = block[b]
      <4>1. Contents(j)' = disk[j]
        BY <1>1, <1>m, <3>3, <3>4 DEF ContentsMap
      <4>2. \A c \in Buf : ~(block[c] = j /\ valid[c] = 1)
        BY <1>2, <3>2, <3>4, SMTT(30)
      <4>3. Contents(j) = disk[j]
        BY <1>m, <4>2 DEF ContentsMap
      <4> QED
        BY <4>1, <4>3
    <3>5. CASE j # block[b]
      <4>1. CASE \E c \in Buf \ {b} : block[c] = j /\ valid[c] = 1
        BY <1>1, <1>m, <3>3, <4>1, SMTT(30) DEF ContentsMap
      <4>2. CASE \A c \in Buf \ {b} : ~(block[c] = j /\ valid[c] = 1)
        <5>1. /\ \A c \in Buf : ~(block[c] = j /\ valid[c] = 1)
              /\ \A c \in Buf : ~(block'[c] = j /\ valid'[c] = 1)
          BY <1>1, <3>3, <3>5, <4>2
        <5>2. Contents(j) = disk[j] /\ Contents(j)' = disk'[j]
          BY <1>m, <5>1 DEF ContentsMap
        <5> QED
          BY <3>1, <5>2
      <4> QED
        BY <4>1, <4>2
    <3> QED
      BY <3>4, <3>5
  <2>2. CASE bwrite(u)
    <3>1. /\ valid' = valid /\ data' = data
          /\ disk' = [disk EXCEPT ![block[b]] = data[b]]
      BY <2>2 DEF bwrite, entries
    <3>2. valid[b] = 1
      BY <2>2, Held DEF bwrite
    <3> HIDE DEF b
    <3>3. CASE j = block[b]
      BY <1>1, <1>m, <3>1, <3>2, <3>3, SMTT(30) DEF ContentsMap
    <3>4. CASE j # block[b]
      <4>1. disk'[j] = disk[j]
        BY <1>t, <3>1, <3>4
      <4>2. CASE \E c \in Buf : block[c] = j /\ valid[c] = 1
        BY <1>1, <1>m, <3>1, <4>2, SMTT(30) DEF ContentsMap
      <4>3. CASE \A c \in Buf : ~(block[c] = j /\ valid[c] = 1)
        BY <1>1, <1>m, <3>1, <4>1, <4>3, SMTT(30) DEF ContentsMap
      <4> QED
        BY <4>2, <4>3
    <3> QED
      BY <3>3, <3>4
  <2> QED
    BY <2>1, <2>2
<1>4. \A j \in Block : Holder(j)' = Holder(j)
  BY <1>1 DEF Holder
<1> QED
  BY <1>3, <1>4, Silent

\* Taking and giving back the sleep lock of a buffer locks and unlocks its
\* block.
LEMMA LockShows ==
  ASSUME IInv, IInv', NEW u \in User, lock_take(u) \/ brelse_unlock(u)
  PROVE  Store!Next
<1>1. PICK b \in Buf, k \in Block : b = buf[u] /\ k = block[b]
  BY Busy DEF lock_take, brelse_unlock
<1>2. /\ \/ owner[b] = NoUser /\ owner' = [owner EXCEPT ![b] = u]
         \/ owner[b] = u /\ owner' = [owner EXCEPT ![b] = NoUser]
      /\ UNCHANGED <<block, valid, data, disk>>
  BY <1>1, Held DEF lock_take, brelse_unlock, entries
<1>t. TypeOK /\ OneBufferPerBlock /\ k # NoBlock
  BY CacheAssumption DEF IInv
<1>m. HolderMap /\ HolderMap'
  BY MapBothSides
<1>3. \A c \in Buf \ {b} : block[c] # k /\ owner'[c] = owner[c]
  BY ONLY <1>t, <1>1, <1>2 DEF OneBufferPerBlock, TypeOK
<1>4. \A j \in Block : Contents(j)' = Contents(j)
  BY <1>2 DEF Contents
<1>5. ASSUME NEW j \in Block \ {k} PROVE Holder(j)' = Holder(j)
  <2>1. CASE \E c \in Buf : block[c] = j
    BY ONLY <1>m, <1>1, <1>2, <1>3, <2>1, j \in Block \ {k} DEF HolderMap
  <2>2. CASE \A c \in Buf : block[c] # j
    BY ONLY <1>m, <1>2, <2>2, j \in Block \ {k} DEF HolderMap
  <2> QED
    BY <2>1, <2>2
<1>6. Holder(k) = owner[b] /\ Holder(k)' = owner'[b]
  BY ONLY <1>m, <1>1, <1>2 DEF HolderMap
<1>7. owner \in [Buf -> User \cup {NoUser}]
  BY <1>t DEF TypeOK
<1>8. CASE owner[b] = NoUser /\ owner' = [owner EXCEPT ![b] = u]
  <2>1. Holder(k) = NoUser /\ Holder(k)' = u
    BY <1>6, <1>7, <1>8
  <2>2. Store!Lock(u, k)
    BY <1>4, <1>5, <2>1 DEF Store!Lock
  <2> QED
    BY <2>2 DEF Store!Next
<1>9. CASE owner[b] = u /\ owner' = [owner EXCEPT ![b] = NoUser]
  <2>1. Holder(k) = u /\ Holder(k)' = NoUser
    BY <1>6, <1>7, <1>9
  <2>2. Store!Unlock(u, k)
    BY <1>4, <1>5, <2>1 DEF Store!Unlock
  <2> QED
    BY <2>2 DEF Store!Next
<1> QED
  BY <1>2, <1>8, <1>9

\* An update of a buffer updates its block, which the user has locked.
LEMMA ModifyShows ==
  ASSUME IInv, IInv', NEW u \in User, NEW v \in Value, Modify(u, v)
  PROVE  Store!Next
<1>1. PICK b \in Buf, k \in Block : b = buf[u] /\ k = block[b]
  BY Busy DEF Modify
<1>2. /\ owner[b] = u /\ valid[b] = 1 /\ data' = [data EXCEPT ![b] = v]
      /\ UNCHANGED <<block, valid, owner, disk>>
  BY <1>1, Held DEF Modify
<1>t. TypeOK /\ OneBufferPerBlock /\ k # NoBlock
  BY CacheAssumption DEF IInv
<1>m. ContentsMap /\ ContentsMap' /\ HolderMap
  BY MapBothSides
<1>3. data'[b] = v /\ \A c \in Buf \ {b} : block[c] # k /\ data'[c] = data[c]
  BY ONLY <1>t, <1>1, <1>2 DEF OneBufferPerBlock, TypeOK
<1>4. ASSUME NEW j \in Block \ {k} PROVE Contents(j)' = Contents(j)
  <2>1. CASE \E c \in Buf : block[c] = j /\ valid[c] = 1
    BY ONLY <1>m, <1>1, <1>2, <1>3, <2>1, j \in Block \ {k} DEF ContentsMap
  <2>2. CASE \A c \in Buf : ~(block[c] = j /\ valid[c] = 1)
    BY ONLY <1>m, <1>2, <2>2, j \in Block \ {k} DEF ContentsMap
  <2> QED
    BY <2>1, <2>2
<1>5. Contents(k)' = v
  BY ONLY <1>m, <1>1, <1>2, <1>3 DEF ContentsMap
<1>6. Holder(k) = u /\ \A j \in Block : Holder(j)' = Holder(j)
  <2>1. Holder(k) = u
    BY ONLY <1>m, <1>1, <1>2 DEF HolderMap
  <2>2. \A j \in Block : Holder(j)' = Holder(j)
    BY <1>2 DEF Holder
  <2> QED
    BY <2>1, <2>2
<1>7. Store!Update(u, k, v)
  BY <1>4, <1>5, <1>6 DEF Store!Update
<1> QED
  BY <1>7 DEF Store!Next

\* kernel/bio.c implements one lockable copy of every block.
THEOREM Implements == Spec => Coherent
<1>1. Init => Store!Init
  <2> SUFFICES ASSUME Init PROVE Store!Init
    OBVIOUS
  <2>1. IInv /\ \A b \in Buf : valid[b] = 0 /\ owner[b] = NoUser
    BY Initially DEF Init
  <2>2. \A k \in Block : Contents(k) = disk[k] /\ Holder(k) = NoUser
    BY <2>1, SMTT(30) DEF Contents, Holder
  <2>3. disk \in [Block -> Value]
    BY DEF Init
  <2> QED
    BY <2>2, <2>3 DEF Store!Init
<1>2. IInv /\ IInv' /\ [Next]_vars => [Store!Next]_Store!vars
  <2> SUFFICES ASSUME IInv, IInv', [Next]_vars PROVE [Store!Next]_Store!vars
    OBVIOUS
  <2>1. CASE UNCHANGED vars
    BY <2>1, Untouched DEF vars
  <2>2. CASE Next
    <3>1. PICK u \in User : Step(u)
      BY <2>2 DEF Next
    <3>2. \/ \E k \in Block : bget_recycle(u, k)
          \/ lock_take(u) \/ brelse_unlock(u)
          \/ disk_read(u) \/ bwrite(u)
          \/ \E v \in Value : Modify(u, v)
          \/ UNCHANGED <<block, valid, data, owner, disk>>
      BY <3>1 DEF Step, bget_hit, bget_panic, lock_wait, kill, bpin, bunpin, brelse_drop,
         entries
    <3> QED
      BY <3>2, RecycleSilent, LockShows, TransferSilent, ModifyShows, Untouched
  <2> QED
    BY <2>1, <2>2
<1> QED
  BY <1>1, <1>2, InvariantHolds, PTL DEF Spec, Coherent, Store!Spec
=============================================================================
