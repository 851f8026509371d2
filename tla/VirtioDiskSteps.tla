-------------------------- MODULE VirtioDiskSteps ---------------------------
(***************************************************************************)
(* The inductive invariant of VirtioDisk, for any number of processes,     *)
(* blocks and descriptors and any width of the ring indices: the           *)
(* arithmetic of the indices, the contents of a ring, and the steps of the *)
(* processes, the interrupt handler and the device that neither take       *)
(* descriptors nor give them back.  VirtioDiskProofs has those two and     *)
(* the theorems.                                                           *)
(***************************************************************************)
EXTENDS VirtioDisk, RingArithmetic, FiniteSetTheorems

\* A step is left to Zenon unless it names SMT; each may take 30 seconds.
USE ZenonT(30)

-----------------------------------------------------------------------------
(* Ring indices.                                                           *)

\* The distance of a ring position j from an index s that moves on.
LEMMA Passed ==
  ASSUME NEW s \in 0 .. MODULUS - 1, NEW j \in Desc
  PROVE  (j - ((s + 1) % MODULUS)) % NUM =
           IF (j - s) % NUM = 0 THEN NUM - 1 ELSE ((j - s) % NUM) - 1
<1>0. NUM \in Nat \ {0} /\ MODULUS \in Nat \ {0} /\ j \in Int /\ s \in Int
  BY VirtioAssumption, SMTT(30) DEF Desc
<1> DEFINE x == j - s
           t == (s + 1) % MODULUS
           q == (s + 1) \div MODULUS
           y == j - t
<1>1. x \in Int
  BY <1>0, SMTT(30)
<1>2. t \in Int /\ q \in Int /\ s + 1 = MODULUS * q + t
  <2>1. s + 1 \in Int
    BY <1>0, SMTT(30)
  <2> QED
    BY <1>0, <2>1, Division, SMTT(30)
<1> HIDE DEF t, q
<1>3. PICK c \in Int : MODULUS = NUM * c
  BY <1>0, Whole, VirtioAssumption
<1> DEFINE k == c * q
<1>4. k \in Int /\ j - t = (x - 1) + NUM * k /\ x - 1 \in Int
  BY <1>0, <1>2, <1>3, SMTT(30)
<1> HIDE DEF k, x
<1>5. (x - 1) % NUM = IF x % NUM = 0 THEN NUM - 1 ELSE (x % NUM) - 1
  BY <1>0, <1>1, Before
<1> DEFINE z == x - 1
<1>6. z \in Int
  BY <1>1, SMTT(30)
<1> HIDE DEF z
<1>7. (z + NUM * k) % NUM = z % NUM
  BY <1>0, <1>4, <1>6, Congruent
<1>8. (j - t) % NUM = z % NUM
  BY <1>4, <1>7 DEF z
<1> QED
  BY <1>5, <1>8 DEF z, x, t

\* The distance of the position of index a from index s, in entries.
LEMMA Distance ==
  ASSUME NEW s \in 0 .. MODULUS - 1, NEW a \in 0 .. MODULUS - 1
  PROVE  ((a % NUM) - s) % NUM = ((a - s) % MODULUS) % NUM
<1>0. NUM \in Nat \ {0} /\ MODULUS \in Nat \ {0} /\ a \in Int /\ s \in Int
  BY VirtioAssumption, SMTT(30)
<1> DEFINE q == a \div NUM
           r == a % NUM
           x == a - s
           y == r - s
<1>1. q \in Int /\ r \in Int /\ a = NUM * q + r
  BY <1>0, Division, SMTT(30)
<1> HIDE DEF q, r
<1>2. x \in Int /\ y \in Int /\ x = y + NUM * q
  BY <1>0, <1>1, SMTT(30)
<1> HIDE DEF x, y
<1>3. (y + NUM * q) % NUM = y % NUM
  BY <1>0, <1>1, <1>2, Congruent
<1>4. (x % MODULUS) % NUM = x % NUM
  BY <1>0, <1>2, Twice, VirtioAssumption
<1> QED
  BY <1>2, <1>3, <1>4 DEF x, y, r

\* The number of entries between two indices when one moves on.
LEMMA Gaps ==
  ASSUME NEW s \in 0 .. MODULUS - 1, NEW a \in 0 .. MODULUS - 1
  PROVE  /\ (a - s) % MODULUS \in 0 .. MODULUS - 1
         /\ (a - s) % MODULUS = 0 <=> a = s
         /\ (a - s) % MODULUS < MODULUS - 1 =>
              (((a + 1) % MODULUS) - s) % MODULUS = ((a - s) % MODULUS) + 1
         /\ a # s => (a - ((s + 1) % MODULUS)) % MODULUS = ((a - s) % MODULUS) - 1
<1>1. MODULUS \in Nat \ {0, 1}
  BY VirtioAssumption, SMTT(30)
<1> QED
  BY ONLY <1>1, Between, ZenonT(30)

\* Ring positions and ring indices stay in range.
LEMMA Wraps ==
  ASSUME NEW n \in 0 .. MODULUS - 1
  PROVE  /\ n % NUM \in Desc
         /\ (n + 1) % MODULUS \in 0 .. MODULUS - 1
BY VirtioAssumption, SMTT(30) DEF Desc

-----------------------------------------------------------------------------
(* The contents of a ring.                                                 *)

Ring == [Desc -> Desc \cup {NoDesc}]

\* The entry at index a is empty, and filling it in makes one entry more.
LEMMA PutEntry ==
  ASSUME NEW ring \in Ring, NEW d \in Desc,
         NEW s \in 0 .. MODULUS - 1, NEW a \in 0 .. MODULUS - 1,
         (a - s) % MODULUS < NUM, Holds(ring, s, (a - s) % MODULUS)
  PROVE  /\ ring[a % NUM] = NoDesc
         /\ Holds([ring EXCEPT ![a % NUM] = d], s, ((a - s) % MODULUS) + 1)
<1> DEFINE n == (a - s) % MODULUS
           k == a % NUM
           D(j) == (j - s) % NUM
<1>0. NUM \in Nat \ {0} /\ s \in Int /\ d # NoDesc
  BY VirtioAssumption, SMTT(30) DEF Desc, NoDesc
<1>1. n \in Nat /\ n < NUM /\ k \in Desc
  BY Gaps, Wraps, SMTT(30)
<1>2. D(k) = n
  <2>1. D(k) = n % NUM
    BY Distance
  <2> HIDE DEF n
  <2>2. n % NUM = n
    BY <1>0, <1>1, SMTT(30)
  <2> QED
    BY <2>1, <2>2
<1>3. ASSUME NEW j \in Desc PROVE D(j) \in Nat /\ (D(j) = D(k) => j = k)
  <2>1. (s + D(j)) % NUM = j /\ (s + D(k)) % NUM = k
    BY <1>0, <1>1, Reach DEF Desc
  <2>2. D(j) \in Nat
    <3> DEFINE x == j - s
    <3>1. x \in Int
      BY <1>0, SMTT(30) DEF Desc
    <3> HIDE DEF x
    <3>2. x % NUM \in 0 .. NUM - 1
      BY <1>0, <3>1, Division
    <3> QED
      BY <1>0, <3>2, SMTT(30) DEF x
  <2> HIDE DEF D, k
  <2> QED
    BY <2>1, <2>2
<1>4. \A j \in Desc : ring[j] # NoDesc <=> D(j) < n
  BY DEF Holds
<1> HIDE DEF n, k, D
<1>5. ring[k] = NoDesc
  BY <1>1, <1>2, <1>4, SMTT(30)
<1>6. ASSUME NEW j \in Desc
      PROVE  [ring EXCEPT ![k] = d][j] # NoDesc <=> D(j) < n + 1
  <2>1. CASE j = k
    BY <1>0, <1>1, <1>2, <2>1, SMTT(30) DEF Ring
  <2>2. CASE j # k
    BY <1>1, <1>2, <1>3, <1>4, <2>2, SMTT(30) DEF Ring
  <2> QED
    BY <2>1, <2>2
<1>7. n + 1 <= NUM
  BY <1>0, <1>1, SMTT(30)
<1> QED
  BY <1>5, <1>6, <1>7 DEF Holds, n, k, D

\* The entry at index s holds something, and clearing it leaves one less.
LEMMA GetEntry ==
  ASSUME NEW ring \in Ring, NEW s \in 0 .. MODULUS - 1, NEW n \in Nat \ {0},
         Holds(ring, s, n)
  PROVE  /\ ring[s % NUM] \in Desc
         /\ Holds([ring EXCEPT ![s % NUM] = NoDesc], (s + 1) % MODULUS, n - 1)
<1> DEFINE k == s % NUM
           D(j) == (j - s) % NUM
           E(j) == (j - ((s + 1) % MODULUS)) % NUM
<1>0. NUM \in Nat \ {0} /\ s \in Int
  BY VirtioAssumption, SMTT(30)
<1>1. k \in Desc /\ n <= NUM /\ \A j \in Desc : ring[j] # NoDesc <=> D(j) < n
  BY Wraps DEF Holds
<1>2. D(k) = 0
  <2>1. D(k) = ((s - s) % MODULUS) % NUM
    BY Distance
  <2>2. (s - s) % MODULUS = 0
    BY Gaps
  <2>3. 0 % NUM = 0
    BY <1>0, SMTT(30)
  <2> QED
    BY <2>1, <2>2, <2>3
<1>3. ASSUME NEW j \in Desc
      PROVE  /\ D(j) \in 0 .. NUM - 1 /\ (D(j) = 0 => j = k)
             /\ E(j) = IF D(j) = 0 THEN NUM - 1 ELSE D(j) - 1
  <2>1. (s + D(j)) % NUM = j
    BY <1>0, Reach DEF Desc
  <2>2. D(j) \in 0 .. NUM - 1
    <3> DEFINE x == j - s
    <3>1. x \in Int
      BY <1>0, SMTT(30) DEF Desc
    <3> HIDE DEF x
    <3>2. x % NUM \in 0 .. NUM - 1
      BY <1>0, <3>1, Division
    <3> QED
      BY <3>2 DEF x
  <2>3. E(j) = IF D(j) = 0 THEN NUM - 1 ELSE D(j) - 1
    BY Passed
  <2> HIDE DEF D, E
  <2>4. D(j) = 0 => j = k
    BY <1>0, <2>1, SMTT(30)
  <2> QED
    BY <2>2, <2>3, <2>4
<1> HIDE DEF k, D, E
<1>4. ring[k] \in Desc
  BY <1>1, <1>2, SMTT(30) DEF Ring
<1>5. ASSUME NEW j \in Desc
      PROVE  [ring EXCEPT ![k] = NoDesc][j] # NoDesc <=> E(j) < n - 1
  <2>1. CASE j = k
    BY <1>0, <1>1, <1>2, <1>3, <2>1, SMTT(30) DEF Ring
  <2>2. CASE j # k
    BY <1>1, <1>3, <2>2, SMTT(30) DEF Ring
  <2> QED
    BY <2>1, <2>2
<1>6. n - 1 <= NUM
  BY <1>0, <1>1, SMTT(30)
<1> QED
  BY <1>4, <1>5, <1>6 DEF Holds, k, E

\* A ring with room for NUM entries is not full while there is a descriptor it
\* does not name: its entries are different.
LEMMA NotFull ==
  ASSUME NEW ring \in Ring, NEW d \in Desc, NEW s \in 0 .. MODULUS - 1, NEW n \in Nat,
         Holds(ring, s, n),
         \A i \in Desc : ring[i] # NoDesc =>
           ring[i] # d /\ \A j \in Desc : ring[j] = ring[i] => j = i
  PROVE  n < NUM
<1>0. NUM \in Nat \ {0} /\ s \in Int
  BY VirtioAssumption, SMTT(30)
<1> SUFFICES ASSUME n = NUM PROVE FALSE
  BY <1>0, SMTT(30) DEF Holds
<1>1. ASSUME NEW j \in Desc PROVE ring[j] # NoDesc
  <2> DEFINE x == j - s
  <2>1. x \in Int
    BY <1>0, SMTT(30) DEF Desc
  <2> HIDE DEF x
  <2>2. x % NUM \in 0 .. NUM - 1
    BY <1>0, <2>1, Division
  <2>3. x % NUM < n
    BY <1>0, <2>2, SMTT(30)
  <2> QED
    BY <2>3 DEF Holds, x
<1>2. ring \in [Desc -> Desc \ {d}]
  BY <1>1 DEF Ring
<1>3. IsFiniteSet(Desc) /\ Cardinality(Desc) = NUM
  BY <1>0, FS_Interval, SMTT(30) DEF Desc
<1>4. IsFiniteSet(Desc \ {d}) /\ Cardinality(Desc \ {d}) < Cardinality(Desc)
  BY <1>0, <1>3, FS_RemoveElement, SMTT(30)
<1>5. \E i, j \in Desc : i # j /\ ring[i] = ring[j]
  BY <1>2, <1>3, <1>4, FS_PigeonHole
<1> QED
  BY <1>1, <1>5

-----------------------------------------------------------------------------
(* What a step leaves alone.                                               *)

\* The places of a process.
LEMMA Names ==
  /\ Formatted \subseteq PC /\ {"idle", "call", "asleep_free", "woken_free"} \subseteq PC
  /\ {"idle", "call", "asleep_free", "woken_free"} \cap Formatted = {}
  /\ {"index", "notify", "asleep_buf", "woken_buf"} = Formatted
BY DEF PC, Formatted

\* The markers are none of the values they mark the absence of.
LEMMA Markers ==
  /\ NoProc \notin Proc /\ Intr \notin Proc /\ Intr # NoProc
  /\ NoValue \notin Value /\ NoReq \notin Request
  /\ NoDesc \notin Desc
BY VirtioAssumption, SMTT(30) DEF Request, Desc, NoDesc

\* A descriptor that free_desc has cleared.
LEMMA UnusedTyped ==
  0 \in Desc /\ Unused \in [addr : Addr, more : BOOLEAN, next : Desc]
BY VirtioAssumption, SMTT(30) DEF Unused, Addr, Null, Desc

\* A process moves.
LEMMA Moved ==
  ASSUME pc \in [Proc -> PC], NEW p \in Proc, NEW l \in PC, pc' = [pc EXCEPT ![p] = l]
  PROVE  /\ pc' \in [Proc -> PC]
         /\ pc'[p] = l /\ \A q \in Proc \ {p} : pc'[q] = pc[q]
OBVIOUS

\* A process moves and wakes those that wait for descriptors.
LEMMA MovedWaking ==
  ASSUME pc \in [Proc -> PC], NEW p \in Proc, NEW l \in PC, pc' = WakeFree(p, l)
  PROVE  /\ pc' \in [Proc -> PC] /\ pc'[p] = l
         /\ \A q \in Proc \ {p} : pc'[q] # "asleep_free"
         /\ \A q \in Proc \ {p} : \/ pc'[q] = pc[q]
                                  \/ pc[q] = "asleep_free" /\ pc'[q] = "woken_free"
BY Names DEF WakeFree

\* No process begins or ends a call, or gets or gives back descriptors.
Steady ==
  \A q \in Proc : /\ pc'[q] \in Formatted <=> pc[q] \in Formatted
                  /\ pc'[q] = "idle" <=> pc[q] = "idle"

\* The descriptors of a request are descriptors.
LEMMA ChainTyped ==
  ASSUME IInv, NEW p \in Proc, pc[p] \in Formatted
  PROVE  /\ head[p] \in Desc /\ Second(p) \in Desc /\ Third(p) \in Desc
         /\ req[p] \in Request
<1>1. /\ desc \in [Desc -> [addr : Addr, more : BOOLEAN, next : Desc]]
      /\ head \in [Proc -> Desc \cup {NoDesc}] /\ req \in [Proc -> Request \cup {NoReq}]
  BY DEF IInv, TypeOK
<1>2. head[p] # NoDesc /\ req[p] # NoReq
  BY Names DEF IInv, CallInv
<1>3. head[p] \in Desc /\ req[p] \in Request
  BY <1>1, <1>2
<1>4. Second(p) \in Desc
  BY <1>1, <1>3 DEF Second
<1>5. Third(p) \in Desc
  BY <1>1, <1>4 DEF Third
<1> QED
  BY <1>3, <1>4, <1>5

\* A step that leaves the chains of all requests alone.
LEMMA ChainsKept ==
  ASSUME IInv, free' = free,
         \A d \in Desc \ free : desc'[d] = desc[d],
         \A d \in Desc : info'[d].b = info[d].b,
         \A q \in Proc : pc'[q] \in Formatted <=> pc[q] \in Formatted,
         \A q \in Proc : pc[q] \in Formatted => req'[q] = req[q] /\ head'[q] = head[q]
  PROVE  ChainInv' /\ ShareInv'
<1>0. ChainInv /\ ShareInv
  BY DEF IInv
<1>1. ASSUME NEW q \in Proc, pc[q] \in Formatted
      PROVE  /\ {head[q], Second(q), Third(q)} \subseteq Desc \ free
             /\ head'[q] = head[q] /\ Second(q)' = Second(q) /\ Third(q)' = Third(q)
             /\ Members(q)' = Members(q)
  <2>1. {head[q], Second(q), Third(q)} \subseteq Desc \ free
    BY <1>0, <1>1, ChainTyped, SMTT(30) DEF ChainInv, Members
  <2>2. Second(q)' = Second(q)
    BY <1>1, <2>1 DEF Second
  <2>3. Third(q)' = Third(q)
    BY <2>1, <2>2 DEF Third
  <2> QED
    BY <1>1, <2>1, <2>2, <2>3 DEF Members
<1>2. ChainInv'
  <2> SUFFICES ASSUME NEW q \in Proc, pc[q] \in Formatted
               PROVE  /\ head'[q] # Second(q)' /\ head'[q] # Third(q)'
                      /\ Second(q)' # Third(q)'
                      /\ Members(q)' \cap free' = {}
                      /\ desc'[head'[q]].more
                      /\ desc'[head'[q]].addr = <<"ops", req'[q]>>
                      /\ desc'[Second(q)'].more
                      /\ desc'[Second(q)'].addr = <<"data", q>>
                      /\ ~ desc'[Third(q)'].more
                      /\ desc'[Third(q)'].addr = <<"status", head'[q]>>
                      /\ info'[head'[q]].b = q
    BY DEF ChainInv
  <2>1. /\ head[q] # Second(q) /\ head[q] # Third(q) /\ Second(q) # Third(q)
        /\ Members(q) \cap free = {}
        /\ desc[head[q]].more /\ desc[head[q]].addr = <<"ops", req[q]>>
        /\ desc[Second(q)].more /\ desc[Second(q)].addr = <<"data", q>>
        /\ ~ desc[Third(q)].more /\ desc[Third(q)].addr = <<"status", head[q]>>
        /\ info[head[q]].b = q
    BY <1>0 DEF ChainInv
  <2>2. /\ {head[q], Second(q), Third(q)} \subseteq Desc \ free
        /\ head'[q] = head[q] /\ Second(q)' = Second(q) /\ Third(q)' = Third(q)
        /\ Members(q)' = Members(q)
    BY <1>1
  <2>3. /\ desc'[head[q]] = desc[head[q]] /\ desc'[Second(q)] = desc[Second(q)]
        /\ desc'[Third(q)] = desc[Third(q)] /\ info'[head[q]].b = info[head[q]].b
        /\ req'[q] = req[q]
    BY <2>2
  <2> QED
    BY <2>1, <2>2, <2>3
<1>3. ShareInv'
  BY <1>0, <1>1, SMTT(30) DEF ShareInv
<1> QED
  BY <1>2, <1>3

\* A step that leaves the requests alone.
LEMMA RequestsKept ==
  ASSUME IInv, Steady,
         \A q \in Proc : pc'[q] \in {"index", "notify"} => pc[q] \in {"index", "notify"},
         free' = free, \A d \in Desc \ free : desc'[d] = desc[d],
         info' = info, head' = head, req' = req, data' = data, disk' = disk
  PROVE  CallInv' /\ DataInv' /\ ChainInv' /\ ShareInv' /\ DoneInv'
<1>1. CallInv'
  BY DEF IInv, CallInv, Steady
<1>2. DataInv'
  BY DEF IInv, DataInv, Steady
<1>3. ChainInv' /\ ShareInv'
  BY ChainsKept DEF Steady
<1>4. DoneInv'
  BY DEF IInv, DoneInv, Steady
<1> QED
  BY <1>1, <1>2, <1>3, <1>4

\* A step that leaves what the device is offered alone.
LEMMA OffersKept ==
  ASSUME OfferInv, Steady, taken' = taken, avail'.ring = avail.ring, info' = info, head' = head
  PROVE  OfferInv'
<1>1. \A h : Unserved(h)' <=> Unserved(h)
  BY DEF Unserved, Steady
<1> QED
  BY <1>1 DEF OfferInv

\* A step that leaves the used ring alone.
LEMMA UsedKept ==
  ASSUME UsedInv, UsedRing, Steady, used' = used, used_idx' = used_idx, disk' = disk,
         info' = info, head' = head
  PROVE  UsedInv' /\ UsedRing'
<1>1. \A h : Untold(h)' <=> Untold(h)
  BY DEF Untold, Steady
<1>2. UsedInv'
  BY <1>1 DEF UsedInv
<1>3. UsedRing'
  BY DEF UsedRing
<1> QED
  BY <1>2, <1>3

\* A step that leaves the available ring alone.
LEMMA AvailKept ==
  ASSUME AvailRing, avail' = avail, seen' = seen,
         \A q \in Proc : pc'[q] = "index" <=> pc[q] = "index"
  PROVE  AvailRing'
<1>1. Filled' = Filled
  BY DEF Filled
<1> QED
  BY <1>1 DEF AvailRing

\* The invariant holds after virtio_disk_init.
LEMMA Initially == Init => IInv
<1> SUFFICES ASSUME Init PROVE IInv
  OBVIOUS
<1> USE DEF Init
<1>1. TypeOK
  <2>1. 0 \in 0 .. MODULUS - 1
    BY VirtioAssumption, SMTT(30)
  <2>2. /\ desc \in [Desc -> [addr : Addr, more : BOOLEAN, next : Desc]] /\ free \subseteq Desc
        /\ info \in [Desc -> [b : Proc \cup {NoProc}, status : {0, 255}]]
    BY UnusedTyped
  <2>3. /\ avail \in [ring : [Desc -> Desc \cup {NoDesc}], idx : 0 .. MODULUS - 1]
        /\ used \in [ring : [Desc -> Desc \cup {NoDesc}], idx : 0 .. MODULUS - 1]
    BY <2>1
  <2>4. pc \in [Proc -> PC]
    BY Names
  <2> QED
    BY <2>1, <2>2, <2>3, <2>4 DEF TypeOK
<1>2. LockInv /\ CallInv /\ DataInv /\ NoPanic
  BY Names, Markers DEF DataInv, LockInv, CallInv, NoPanic
<1>3. ChainInv /\ ShareInv /\ OfferInv /\ UsedInv /\ DoneInv
  BY Names DEF ChainInv, ShareInv, OfferInv, UsedInv, DoneInv
<1>4. AvailRing /\ UsedRing
  <2>1. Filled = 0
    BY Names DEF Filled
  <2>2. (0 - 0) % MODULUS = 0
    BY VirtioAssumption, SMTT(30)
  <2>3. \A j \in Desc : ~ ((j - 0) % NUM < 0)
    BY VirtioAssumption, SMTT(30) DEF Desc
  <2>4. Holds([d \in Desc |-> NoDesc], 0, 0)
    BY <2>3, VirtioAssumption, SMTT(30) DEF Holds
  <2> QED
    BY <2>1, <2>2, <2>4, SMTT(30) DEF AvailRing, UsedRing
<1>5. NoLostCompletion /\ NoLostWakeup /\ NoLostNotify
  BY DEF NoLostCompletion, NoLostWakeup, NoLostNotify
<1> QED
  BY <1>1, <1>2, <1>3, <1>4, <1>5 DEF IInv

-----------------------------------------------------------------------------
(* The calling processes.                                                  *)

\* A process calls.
LEMMA Called ==
  ASSUME IInv, NEW p \in Proc, NEW r \in Request, NEW v \in Value \cup {NoValue},
         virtio_disk_rw(p, r, v)
  PROVE  IInv'
<1>u. /\ pc[p] = "idle" /\ pc' = [pc EXCEPT ![p] = "call"]
      /\ req' = [req EXCEPT ![p] = r] /\ data' = [data EXCEPT ![p] = v]
      /\ IF r.write THEN v \in Value ELSE v = NoValue
      /\ desc' = desc /\ free' = free /\ info' = info /\ avail' = avail /\ used' = used
      /\ used_idx' = used_idx /\ lock' = lock /\ disk' = disk /\ head' = head
      /\ intr' = intr /\ store' = store /\ seen' = seen /\ taken' = taken /\ kick' = kick
      /\ irq' = irq /\ panicked' = panicked
  BY DEF virtio_disk_rw, Goto, queue, device
<1>t. /\ pc \in [Proc -> PC] /\ req \in [Proc -> Request \cup {NoReq}]
      /\ data \in [Proc -> Value \cup {NoValue}]
  BY DEF IInv, TypeOK
<1>p. /\ pc' \in [Proc -> PC]
      /\ pc'[p] = "call" /\ \A q \in Proc \ {p} : pc'[q] = pc[q]
  BY <1>u, <1>t, Names, Moved
<1>q. \A q \in Proc : /\ pc'[q] \in Formatted <=> pc[q] \in Formatted
                      /\ pc'[q] = "index" <=> pc[q] = "index"
                      /\ pc'[q] = "notify" <=> pc[q] = "notify"
                      /\ pc'[q] = "asleep_free" <=> pc[q] = "asleep_free"
                      /\ pc'[q] = "asleep_buf" <=> pc[q] = "asleep_buf"
  BY <1>u, <1>p, Names
<1>r. /\ req'[p] = r /\ data'[p] = v
      /\ \A q \in Proc \ {p} : req'[q] = req[q] /\ data'[q] = data[q]
  BY <1>u, <1>t
<1>1. TypeOK'
  <2>1. req' \in [Proc -> Request \cup {NoReq}] /\ data' \in [Proc -> Value \cup {NoValue}]
    BY <1>u, <1>t
  <2> QED
    BY <1>u, <1>p, <2>1 DEF IInv, TypeOK
<1>2. LockInv'
  BY <1>u, <1>q DEF IInv, LockInv
<1>3. CallInv'
  <2> SUFFICES ASSUME NEW q \in Proc
               PROVE  /\ req'[q] = NoReq <=> pc'[q] = "idle"
                      /\ head'[q] = NoDesc <=> pc'[q] \notin Formatted
                      /\ pc'[q] \in {"index", "notify"} => disk'[q] = 1
    BY DEF CallInv
  <2>1. /\ req[q] = NoReq <=> pc[q] = "idle"
        /\ head[q] = NoDesc <=> pc[q] \notin Formatted
        /\ pc[q] \in {"index", "notify"} => disk[q] = 1
    BY DEF IInv, CallInv
  <2> QED
    BY <1>u, <1>p, <1>q, <1>r, <2>1, Markers, SMTT(30)
<1>4. DataInv'
  BY <1>u, <1>p, <1>r, SMTT(30) DEF IInv, DataInv
<1>5. ChainInv' /\ ShareInv'
  BY <1>u, <1>q, <1>r, Names, ChainsKept
<1>6. OfferInv'
  <2>1. \A h : Unserved(h)' <=> Unserved(h)
    <3>1. info' = info /\ head' = head
      BY <1>u
    <3> QED
      BY <1>q, <3>1, SMTT(30) DEF Unserved
  <2> QED
    BY <1>u, <2>1 DEF IInv, OfferInv
<1>7. UsedInv' /\ UsedRing'
  <2>1. \A h : Untold(h)' <=> Untold(h)
    BY <1>u, <1>q DEF Untold
  <2>2. UsedInv'
    BY <1>u, <2>1 DEF IInv, UsedInv
  <2> QED
    BY <1>u, <2>2 DEF IInv, UsedRing
<1>8. DoneInv'
  BY <1>u, <1>q DEF IInv, DoneInv
<1>9. AvailRing'
  BY <1>u, <1>q, AvailKept DEF IInv
<1>10. NoPanic' /\ NoLostCompletion' /\ NoLostNotify'
  BY <1>u, <1>q DEF IInv, NoPanic, NoLostCompletion, NoLostNotify
<1>11. NoLostWakeup'
  BY <1>u, <1>q DEF IInv, NoLostWakeup
<1> QED
  BY <1>1, <1>2, <1>3, <1>4, <1>5, <1>6, <1>7, <1>8, <1>9, <1>10, <1>11 DEF IInv

\* A process finds too few descriptors.
LEMMA Failed ==
  ASSUME IInv, NEW p \in Proc, alloc3_fail(p)
  PROVE  IInv'
<1>u. /\ pc[p] \in {"call", "woken_free"} /\ Cardinality(free) < 3 /\ lock = NoProc
      /\ desc' = [d \in Desc |-> IF d \in free THEN Unused ELSE desc[d]]
      /\ pc' = WakeFree(p, "asleep_free") \/ pc' = [pc EXCEPT ![p] = "asleep_free"]
      /\ free' = free /\ info' = info /\ avail' = avail /\ used' = used
      /\ used_idx' = used_idx /\ lock' = lock /\ disk' = disk /\ data' = data /\ req' = req
      /\ head' = head /\ intr' = intr /\ store' = store /\ seen' = seen /\ taken' = taken
      /\ kick' = kick /\ irq' = irq /\ panicked' = panicked
  BY DEF alloc3_fail, device
<1>t. /\ pc \in [Proc -> PC] /\ desc \in [Desc -> [addr : Addr, more : BOOLEAN, next : Desc]]
      /\ free \subseteq Desc
  BY DEF IInv, TypeOK
<1>p. /\ pc' \in [Proc -> PC] /\ pc'[p] = "asleep_free"
      /\ \A q \in Proc \ {p} : \/ pc'[q] = pc[q]
                               \/ pc[q] = "asleep_free" /\ pc'[q] = "woken_free"
  BY <1>u, <1>t, Names, Moved, MovedWaking
<1>q. /\ Steady
      /\ \A q \in Proc : /\ pc'[q] = "index" <=> pc[q] = "index"
                         /\ pc'[q] = "notify" <=> pc[q] = "notify"
                         /\ pc'[q] = "asleep_buf" <=> pc[q] = "asleep_buf"
  BY <1>u, <1>p, Names DEF Steady
<1>1. TypeOK'
  <2>1. desc' \in [Desc -> [addr : Addr, more : BOOLEAN, next : Desc]]
    BY <1>u, <1>t, UnusedTyped
  <2> QED
    BY <1>u, <1>p, <2>1 DEF IInv, TypeOK
<1>2. LockInv'
  BY <1>u, <1>q DEF IInv, LockInv
<1>3. \A d \in Desc \ free : desc'[d] = desc[d]
  BY <1>u
<1>4. CallInv' /\ DataInv' /\ ChainInv' /\ ShareInv' /\ DoneInv'
  BY <1>u, <1>q, <1>3, RequestsKept
<1>5. OfferInv' /\ UsedInv' /\ UsedRing'
  BY <1>u, <1>q, OffersKept, UsedKept DEF IInv
<1>6. AvailRing'
  BY <1>u, <1>q, AvailKept DEF IInv
<1>7. NoPanic' /\ NoLostCompletion' /\ NoLostNotify'
  BY <1>u, <1>q DEF IInv, NoPanic, NoLostCompletion, NoLostNotify
<1>8. NoLostWakeup'
  BY <1>u, <1>q DEF IInv, NoLostWakeup
<1> QED
  BY <1>1, <1>2, <1>4, <1>5, <1>6, <1>7, <1>8 DEF IInv

\* A process publishes its request.
LEMMA Published ==
  ASSUME IInv, NEW p \in Proc, put_index(p)
  PROVE  IInv'
<1>u. /\ pc[p] = "index" /\ lock = p /\ avail' = [avail EXCEPT !.idx = (@ + 1) % MODULUS]
      /\ pc' = [pc EXCEPT ![p] = "notify"]
      /\ desc' = desc /\ free' = free /\ info' = info /\ used' = used
      /\ used_idx' = used_idx /\ lock' = lock /\ disk' = disk /\ data' = data /\ req' = req
      /\ head' = head /\ intr' = intr /\ store' = store /\ seen' = seen /\ taken' = taken
      /\ kick' = kick /\ irq' = irq /\ panicked' = panicked
  BY DEF put_index, Owns, Goto, queue, device
<1>t. /\ pc \in [Proc -> PC] /\ seen \in 0 .. MODULUS - 1
      /\ avail \in [ring : [Desc -> Desc \cup {NoDesc}], idx : 0 .. MODULUS - 1]
  BY DEF IInv, TypeOK
<1>p. /\ pc' \in [Proc -> PC]
      /\ pc'[p] = "notify" /\ \A q \in Proc \ {p} : pc'[q] = pc[q]
  BY <1>u, <1>t, Names, Moved
<1>q. /\ Steady
      /\ \A q \in Proc : /\ pc'[q] \in {"index", "notify"} <=> pc[q] \in {"index", "notify"}
                         /\ pc'[q] = "asleep_free" <=> pc[q] = "asleep_free"
                         /\ pc'[q] = "asleep_buf" <=> pc[q] = "asleep_buf"
  BY <1>u, <1>p, Names DEF Steady
<1>a. /\ avail'.ring = avail.ring /\ avail'.idx = (avail.idx + 1) % MODULUS
      /\ avail.idx \in 0 .. MODULUS - 1
      /\ avail' \in [ring : [Desc -> Desc \cup {NoDesc}], idx : 0 .. MODULUS - 1]
  BY <1>u, <1>t, Wraps
<1>1. TypeOK'
  BY <1>u, <1>p, <1>a DEF IInv, TypeOK
<1>2. LockInv'
  BY <1>u, <1>q DEF IInv, LockInv
<1>3. CallInv' /\ DataInv' /\ ChainInv' /\ ShareInv' /\ DoneInv'
  BY <1>u, <1>q, RequestsKept
<1>4. OfferInv' /\ UsedInv' /\ UsedRing'
  BY <1>u, <1>q, <1>a, OffersKept, UsedKept DEF IInv
<1>5. AvailRing'
  <2> DEFINE n == (avail.idx - seen) % MODULUS
             m == (avail'.idx - seen) % MODULUS
  <2>1. Filled = 1
    BY <1>u DEF Filled
  <2>2. Filled' = 0
    <3>1. \A q \in Proc \ {p} : pc[q] # "index"
      BY <1>u DEF IInv, LockInv
    <3> QED
      BY <1>p, <3>1 DEF Filled
  <2>3. n \in Nat /\ n + 1 <= NUM /\ Holds(avail.ring, seen, n + 1)
    BY <1>t, <1>a, <2>1, Gaps, SMTT(30) DEF IInv, AvailRing, Holds
  <2>4. n < MODULUS - 1
    BY <2>3, VirtioAssumption, SMTT(30)
  <2>5. m = n + 1
    BY <1>t, <1>a, <2>4, Gaps, SMTT(30)
  <2> HIDE DEF n
  <2>6. m + Filled' = n + 1
    BY <2>2, <2>3, <2>5, SMTT(30)
  <2> QED
    BY <1>u, <1>a, <2>3, <2>6 DEF AvailRing
<1>6. NoPanic' /\ NoLostCompletion'
  BY <1>u DEF IInv, NoPanic, NoLostCompletion
<1>7. NoLostWakeup'
  BY <1>u, <1>q DEF IInv, NoLostWakeup
<1>8. NoLostNotify'
  BY <1>p DEF NoLostNotify
<1> QED
  BY <1>1, <1>2, <1>3, <1>4, <1>5, <1>6, <1>7, <1>8 DEF IInv

\* A process notifies the device and sleeps.
LEMMA NotifiedOnce ==
  ASSUME IInv, NEW p \in Proc, notify(p)
  PROVE  IInv'
<1>u. /\ pc[p] = "notify" /\ lock = p /\ kick' = 1 /\ lock' = NoProc
      /\ pc' = [pc EXCEPT ![p] = "asleep_buf"]
      /\ desc' = desc /\ free' = free /\ info' = info /\ avail' = avail /\ used' = used
      /\ used_idx' = used_idx /\ disk' = disk /\ data' = data /\ req' = req /\ head' = head
      /\ intr' = intr /\ store' = store /\ seen' = seen /\ taken' = taken /\ irq' = irq
      /\ panicked' = panicked
  BY DEF notify, Notified, Owns, Goto, queue
<1>t. pc \in [Proc -> PC]
  BY DEF IInv, TypeOK
<1>p. /\ pc' \in [Proc -> PC]
      /\ pc'[p] = "asleep_buf" /\ \A q \in Proc \ {p} : pc'[q] = pc[q]
  BY <1>u, <1>t, Names, Moved
<1>q. /\ Steady
      /\ \A q \in Proc : /\ pc'[q] = "index" <=> pc[q] = "index"
                         /\ pc'[q] = "notify" => pc[q] = "notify"
                         /\ pc'[q] = "asleep_free" <=> pc[q] = "asleep_free"
  BY <1>u, <1>p, Names DEF Steady
<1>1. TypeOK'
  BY <1>u, <1>p DEF IInv, TypeOK
<1>2. LockInv'
  <2>1. \A q \in Proc : pc'[q] \notin {"index", "notify"}
    BY <1>u, <1>p DEF IInv, LockInv
  <2>2. intr = "idle"
    BY <1>u, Markers DEF IInv, LockInv
  <2> QED
    BY <1>u, <2>1, <2>2, Markers DEF LockInv
<1>3. CallInv' /\ DataInv' /\ ChainInv' /\ ShareInv' /\ DoneInv'
  BY <1>u, <1>q, RequestsKept
<1>4. OfferInv' /\ UsedInv' /\ UsedRing'
  BY <1>u, <1>q, OffersKept, UsedKept DEF IInv
<1>5. AvailRing'
  BY <1>u, <1>q, AvailKept DEF IInv
<1>6. NoPanic' /\ NoLostCompletion' /\ NoLostNotify'
  BY <1>u DEF IInv, NoPanic, NoLostCompletion, NoLostNotify
<1>7. NoLostWakeup'
  <2>1. disk[p] = 1
    BY <1>u DEF IInv, CallInv
  <2> QED
    BY <1>u, <1>p, <2>1 DEF IInv, NoLostWakeup
<1> QED
  BY <1>1, <1>2, <1>3, <1>4, <1>5, <1>6, <1>7 DEF IInv

\* A process is woken too early and sleeps again.
LEMMA Again ==
  ASSUME IInv, NEW p \in Proc, wait_again(p)
  PROVE  IInv'
<1>u. /\ pc[p] = "woken_buf" /\ disk[p] # 0 /\ pc' = [pc EXCEPT ![p] = "asleep_buf"]
      /\ desc' = desc /\ free' = free /\ info' = info /\ avail' = avail /\ used' = used
      /\ used_idx' = used_idx /\ lock' = lock /\ disk' = disk /\ data' = data /\ req' = req
      /\ head' = head /\ intr' = intr /\ store' = store /\ seen' = seen /\ taken' = taken
      /\ kick' = kick /\ irq' = irq /\ panicked' = panicked
  BY DEF wait_again, Finished, Goto, queue, device
<1>t. pc \in [Proc -> PC] /\ disk \in [Proc -> {0, 1}]
  BY DEF IInv, TypeOK
<1>p. /\ pc' \in [Proc -> PC]
      /\ pc'[p] = "asleep_buf" /\ \A q \in Proc \ {p} : pc'[q] = pc[q]
  BY <1>u, <1>t, Names, Moved
<1>q. /\ Steady
      /\ \A q \in Proc : /\ pc'[q] = "index" <=> pc[q] = "index"
                         /\ pc'[q] = "notify" <=> pc[q] = "notify"
  BY <1>u, <1>p, Names DEF Steady
<1>1. TypeOK'
  BY <1>u, <1>p DEF IInv, TypeOK
<1>2. LockInv'
  BY <1>u, <1>q DEF IInv, LockInv
<1>3. CallInv' /\ DataInv' /\ ChainInv' /\ ShareInv' /\ DoneInv'
  BY <1>u, <1>q, RequestsKept
<1>4. OfferInv' /\ UsedInv' /\ UsedRing'
  BY <1>u, <1>q, OffersKept, UsedKept DEF IInv
<1>5. AvailRing'
  BY <1>u, <1>q, AvailKept DEF IInv
<1>6. NoPanic' /\ NoLostCompletion' /\ NoLostNotify'
  BY <1>u, <1>q DEF IInv, NoPanic, NoLostCompletion, NoLostNotify
<1>7. NoLostWakeup'
  <2>1. disk[p] = 1
    BY <1>u, <1>t
  <2> QED
    BY <1>u, <1>p, <2>1 DEF IInv, NoLostWakeup
<1> QED
  BY <1>1, <1>2, <1>3, <1>4, <1>5, <1>6, <1>7 DEF IInv

\* A sleeping process is killed.
LEMMA Killed ==
  ASSUME IInv, NEW p \in Proc, kkill(p)
  PROVE  IInv'
<1>u. /\ \/ pc[p] = "asleep_free" /\ pc' = [pc EXCEPT ![p] = "woken_free"]
         \/ pc[p] = "asleep_buf" /\ pc' = [pc EXCEPT ![p] = "woken_buf"]
      /\ desc' = desc /\ free' = free /\ info' = info /\ avail' = avail /\ used' = used
      /\ used_idx' = used_idx /\ lock' = lock /\ disk' = disk /\ data' = data /\ req' = req
      /\ head' = head /\ intr' = intr /\ store' = store /\ seen' = seen /\ taken' = taken
      /\ kick' = kick /\ irq' = irq /\ panicked' = panicked
  BY DEF kkill, Goto, queue, device
<1>t. pc \in [Proc -> PC]
  BY DEF IInv, TypeOK
<1>p. /\ pc' \in [Proc -> PC] /\ \A q \in Proc \ {p} : pc'[q] = pc[q]
      /\ \/ pc[p] = "asleep_free" /\ pc'[p] = "woken_free"
         \/ pc[p] = "asleep_buf" /\ pc'[p] = "woken_buf"
  BY <1>u, <1>t, Names, Moved
<1>q. /\ Steady
      /\ \A q \in Proc : /\ pc'[q] = "index" <=> pc[q] = "index"
                         /\ pc'[q] = "notify" <=> pc[q] = "notify"
                         /\ pc'[q] = "asleep_free" => pc[q] = "asleep_free"
                         /\ pc'[q] = "asleep_buf" => pc[q] = "asleep_buf"
  BY <1>p, Names DEF Steady
<1>1. TypeOK'
  BY <1>u, <1>p DEF IInv, TypeOK
<1>2. LockInv'
  BY <1>u, <1>q DEF IInv, LockInv
<1>3. CallInv' /\ DataInv' /\ ChainInv' /\ ShareInv' /\ DoneInv'
  BY <1>u, <1>q, RequestsKept
<1>4. OfferInv' /\ UsedInv' /\ UsedRing'
  BY <1>u, <1>q, OffersKept, UsedKept DEF IInv
<1>5. AvailRing'
  BY <1>u, <1>q, AvailKept DEF IInv
<1>6. NoPanic' /\ NoLostCompletion' /\ NoLostNotify'
  BY <1>u, <1>q DEF IInv, NoPanic, NoLostCompletion, NoLostNotify
<1>7. NoLostWakeup'
  BY <1>u, <1>q DEF IInv, NoLostWakeup
<1> QED
  BY <1>1, <1>2, <1>3, <1>4, <1>5, <1>6, <1>7 DEF IInv

-----------------------------------------------------------------------------
(* The interrupt handler and the device.                                   *)

\* Steps of the handler and of the device that leave the requests and the rings
\* alone, and the steps of other parts of the system.
LEMMA Aside ==
  ASSUME IInv, TypeOK', LockInv', NoLostCompletion', NoLostNotify',
         pc' = pc, desc' = desc, free' = free, info' = info, head' = head, req' = req,
         data' = data, disk' = disk, taken' = taken, avail' = avail, used' = used,
         used_idx' = used_idx, seen' = seen, panicked' = panicked
  PROVE  IInv'
<1>1. Steady
  BY DEF Steady
<1>2. CallInv' /\ DataInv' /\ ChainInv' /\ ShareInv' /\ DoneInv'
  BY <1>1, RequestsKept
<1>3. OfferInv' /\ UsedInv' /\ UsedRing' /\ AvailRing'
  BY <1>1, OffersKept, UsedKept, AvailKept DEF IInv
<1>4. NoPanic' /\ NoLostWakeup'
  BY DEF IInv, NoPanic, NoLostWakeup
<1> QED
  BY <1>2, <1>3, <1>4 DEF IInv

\* The handler starts.
LEMMA Started ==
  ASSUME IInv, intr_start
  PROVE  IInv'
<1>u. /\ intr = "idle" /\ lock = NoProc /\ lock' = Intr /\ irq' = 0 /\ intr' = "loop"
      /\ desc' = desc /\ free' = free /\ info' = info /\ avail' = avail /\ used' = used
      /\ used_idx' = used_idx /\ disk' = disk /\ data' = data /\ req' = req /\ pc' = pc
      /\ head' = head /\ store' = store /\ seen' = seen /\ taken' = taken /\ kick' = kick
      /\ panicked' = panicked
  BY DEF intr_start, Acquire, queue, proc, device
<1>1. TypeOK'
  BY <1>u DEF IInv, TypeOK
<1>2. LockInv'
  BY <1>u, Markers DEF IInv, LockInv
<1>3. NoLostCompletion' /\ NoLostNotify'
  BY <1>u DEF IInv, NoLostCompletion, NoLostNotify
<1> QED
  BY <1>u, <1>1, <1>2, <1>3, Aside

\* The handler has read all entries.
LEMMA Ended ==
  ASSUME IInv, intr_end
  PROVE  IInv'
<1>u. /\ intr = "loop" /\ used_idx = used.idx /\ intr' = "end"
      /\ desc' = desc /\ free' = free /\ info' = info /\ avail' = avail /\ used' = used
      /\ used_idx' = used_idx /\ lock' = lock /\ disk' = disk /\ data' = data /\ req' = req
      /\ pc' = pc /\ head' = head /\ store' = store /\ seen' = seen /\ taken' = taken
      /\ kick' = kick /\ irq' = irq /\ panicked' = panicked
  BY DEF intr_end, queue, proc, device
<1>1. TypeOK'
  BY <1>u DEF IInv, TypeOK
<1>2. LockInv'
  BY <1>u DEF IInv, LockInv
<1>3. NoLostCompletion' /\ NoLostNotify'
  BY <1>u DEF IInv, NoLostCompletion, NoLostNotify
<1> QED
  BY <1>u, <1>1, <1>2, <1>3, Aside

\* The handler returns.
LEMMA Released ==
  ASSUME IInv, intr_release
  PROVE  IInv'
<1>u. /\ intr = "end" /\ lock = Intr /\ intr' = "idle" /\ lock' = NoProc
      /\ desc' = desc /\ free' = free /\ info' = info /\ avail' = avail /\ used' = used
      /\ used_idx' = used_idx /\ disk' = disk /\ data' = data /\ req' = req /\ pc' = pc
      /\ head' = head /\ store' = store /\ seen' = seen /\ taken' = taken /\ kick' = kick
      /\ irq' = irq /\ panicked' = panicked
  BY DEF intr_release, Owns, queue, proc, device
<1>1. TypeOK'
  BY <1>u DEF IInv, TypeOK
<1>2. LockInv'
  BY <1>u, Markers DEF IInv, LockInv
<1>3. NoLostCompletion' /\ NoLostNotify'
  BY <1>u DEF IInv, NoLostCompletion, NoLostNotify
<1> QED
  BY <1>u, <1>1, <1>2, <1>3, Aside

\* The device has caught up.
LEMMA Idle ==
  ASSUME IInv, dev_idle
  PROVE  IInv'
<1>u. /\ seen = avail.idx /\ kick' = 0
      /\ desc' = desc /\ free' = free /\ info' = info /\ avail' = avail /\ used' = used
      /\ used_idx' = used_idx /\ lock' = lock /\ disk' = disk /\ data' = data /\ req' = req
      /\ pc' = pc /\ head' = head /\ intr' = intr /\ store' = store /\ seen' = seen
      /\ taken' = taken /\ irq' = irq /\ panicked' = panicked
  BY DEF dev_idle, queue, proc
<1>1. TypeOK'
  BY <1>u DEF IInv, TypeOK
<1>2. LockInv'
  BY <1>u DEF IInv, LockInv
<1>3. NoLostCompletion' /\ NoLostNotify'
  BY <1>u DEF IInv, NoLostCompletion, NoLostNotify
<1> QED
  BY <1>u, <1>1, <1>2, <1>3, Aside

\* The handler reads an entry: it is the head of a request that is carried out,
\* and it does not panic.
LEMMA Entry ==
  ASSUME IInv, intr_entry
  PROVE  IInv'
<1> DEFINE i == used_idx % NUM
           e == used.ring[i]
           n == (used.idx - used_idx) % MODULUS
<1>u. /\ intr = "loop" /\ lock = Intr /\ used_idx # used.idx
      /\ panicked' = IF Completed(e) = NoProc THEN "virtio_disk_intr" ELSE "no"
      /\ disk' = [p \in Proc |-> IF p = Completed(e) THEN 0 ELSE disk[p]]
      /\ pc' = [p \in Proc |-> IF p = Completed(e) /\ pc[p] = "asleep_buf"
                               THEN "woken_buf" ELSE pc[p]]
      /\ used_idx' = (used_idx + 1) % MODULUS
      /\ used' = [used EXCEPT !.ring[i] = NoDesc]
      /\ desc' = desc /\ free' = free /\ info' = info /\ avail' = avail /\ lock' = lock
      /\ data' = data /\ req' = req /\ head' = head /\ intr' = intr /\ store' = store
      /\ seen' = seen /\ taken' = taken /\ kick' = kick /\ irq' = irq
  BY DEF intr_entry, Owns, queue, device
<1>t. /\ pc \in [Proc -> PC] /\ disk \in [Proc -> {0, 1}]
      /\ used_idx \in 0 .. MODULUS - 1 /\ used.idx \in 0 .. MODULUS - 1
      /\ used.ring \in Ring /\ used \in [ring : Ring, idx : 0 .. MODULUS - 1]
  BY DEF IInv, TypeOK, Ring
<1>i. i \in Desc /\ used_idx' \in 0 .. MODULUS - 1
  BY <1>u, <1>t, Wraps
<1>n. n \in Nat \ {0} /\ Holds(used.ring, used_idx, n)
  BY <1>u, <1>t, Gaps, SMTT(30) DEF IInv, UsedRing
<1>e. /\ e \in Desc /\ e # NoDesc
      /\ Holds([used.ring EXCEPT ![i] = NoDesc], (used_idx + 1) % MODULUS, n - 1)
  <2> HIDE DEF n
  <2> QED
    BY <1>t, <1>n, GetEntry, Markers
<1>r. /\ used'.ring = [used.ring EXCEPT ![i] = NoDesc] /\ used'.idx = used.idx
      /\ used' \in [ring : Ring, idx : 0 .. MODULUS - 1]
  BY <1>u, <1>t, <1>i DEF Ring
<1> HIDE DEF i, n
<1>b. PICK b \in Proc : /\ pc[b] \in Formatted /\ head[b] = e /\ info[e].status = 0
                        /\ disk[b] = 1
  BY <1>i, <1>e DEF IInv, UsedInv, Untold, e
<1>c. Completed(e) = b /\ b # NoProc
  <2>0. info[head[b]].b = b
    BY <1>b DEF IInv, ChainInv
  <2> HIDE DEF e
  <2>1. info[e].b = b
    BY <1>b, <2>0
  <2>2. e \in Desc /\ info[e].status = 0 /\ b # NoProc
    BY <1>b, <1>e, Markers
  <2> QED
    BY <2>1, <2>2 DEF Completed
<1>d. /\ panicked' = "no"
      /\ disk' = [p \in Proc |-> IF p = b THEN 0 ELSE disk[p]]
      /\ pc' = [p \in Proc |-> IF p = b /\ pc[p] = "asleep_buf" THEN "woken_buf" ELSE pc[p]]
  BY <1>u, <1>c
<1>p. /\ pc' \in [Proc -> PC] /\ \A q \in Proc \ {b} : pc'[q] = pc[q]
      /\ pc'[b] = pc[b] \/ (pc[b] = "asleep_buf" /\ pc'[b] = "woken_buf")
      /\ pc'[b] # "asleep_buf"
  BY <1>d, <1>t, Names
<1>q. /\ Steady
      /\ \A q \in Proc : /\ pc'[q] = "index" <=> pc[q] = "index"
                         /\ pc'[q] = "notify" <=> pc[q] = "notify"
                         /\ pc'[q] = "asleep_free" <=> pc[q] = "asleep_free"
  BY <1>p, Names DEF Steady
<1>k. disk'[b] = 0 /\ \A q \in Proc \ {b} : disk'[q] = disk[q]
  BY <1>d
<1>1. TypeOK'
  <2>1. disk' \in [Proc -> {0, 1}]
    BY <1>d, <1>t
  <2> QED
    BY <1>u, <1>i, <1>r, <1>d, <1>p, <2>1 DEF IInv, TypeOK, Ring
<1>2. LockInv'
  BY <1>u, <1>q DEF IInv, LockInv
<1>3. CallInv'
  <2>1. \A q \in Proc : pc[q] \notin {"index", "notify"}
    BY <1>u, Markers DEF IInv, LockInv
  <2> QED
    BY <1>u, <1>q, <2>1 DEF IInv, CallInv, Steady
<1>4. DataInv'
  BY <1>u, <1>q DEF IInv, DataInv, Steady
<1>5. ChainInv' /\ ShareInv'
  BY <1>u, <1>q, ChainsKept DEF Steady
<1>6. OfferInv'
  BY <1>u, <1>q, OffersKept DEF IInv
<1>7. UsedInv'
  <2>1. \A k \in Desc : used'.ring[k] = IF k = i THEN NoDesc ELSE used.ring[k]
    BY <1>r, <1>t, <1>i DEF Ring
  <2>2. ASSUME NEW h, h # e, Untold(h) PROVE Untold(h)'
    <3>1. PICK q \in Proc : /\ pc[q] \in Formatted /\ head[q] = h /\ info[h].status = 0
                            /\ disk[q] = 1
      BY <2>2 DEF Untold
    <3>2. q # b
      BY <1>b, <2>2, <3>1
    <3>3. /\ pc'[q] \in Formatted /\ head'[q] = h /\ info'[h].status = 0 /\ disk'[q] = 1
      BY <1>u, <1>q, <1>k, <3>1, <3>2 DEF Steady
    <3> QED
      BY <3>3 DEF Untold
  <2>3. \A k \in Desc : used.ring[k] = e => k = i
    BY <1>i, <1>e DEF IInv, UsedInv, e
  <2>4. \A j \in Desc : used.ring[j] # NoDesc =>
          Untold(used.ring[j]) /\ \A k \in Desc : used.ring[k] = used.ring[j] => k = j
    BY DEF IInv, UsedInv
  <2> QED
    BY <2>1, <2>2, <2>3, <2>4 DEF UsedInv
<1>8. UsedRing'
  <2>1. (used'.idx - used_idx') % MODULUS = n - 1
    BY <1>u, <1>t, <1>r, Gaps DEF n
  <2> QED
    BY <1>u, <1>e, <1>r, <2>1 DEF UsedRing
<1>9. DoneInv'
  BY <1>u, <1>b, <1>q, <1>k DEF IInv, DoneInv, Steady
<1>10. AvailRing'
  BY <1>u, <1>q, AvailKept DEF IInv
<1>11. NoPanic' /\ NoLostCompletion' /\ NoLostNotify'
  BY <1>u, <1>d, <1>q DEF IInv, NoPanic, NoLostCompletion, NoLostNotify
<1>12. NoLostWakeup'
  BY <1>u, <1>p, <1>q, <1>k DEF IInv, NoLostWakeup
<1> QED
  BY <1>1, <1>2, <1>3, <1>4, <1>5, <1>6, <1>7, <1>8, <1>9, <1>10, <1>11, <1>12 DEF IInv

\* The device takes a chain.
LEMMA Take ==
  ASSUME IInv, dev_take
  PROVE  IInv'
<1> DEFINE i == seen % NUM
           t == avail.ring[i]
           n == (avail.idx - seen) % MODULUS
<1>u. /\ kick = 1 /\ seen # avail.idx /\ t \in Desc
      /\ taken' = taken \cup {t} /\ avail' = [avail EXCEPT !.ring[i] = NoDesc]
      /\ seen' = (seen + 1) % MODULUS
      /\ desc' = desc /\ free' = free /\ info' = info /\ used' = used
      /\ used_idx' = used_idx /\ lock' = lock /\ disk' = disk /\ data' = data /\ req' = req
      /\ pc' = pc /\ head' = head /\ intr' = intr /\ store' = store /\ kick' = kick
      /\ irq' = irq /\ panicked' = panicked
  BY DEF dev_take, queue, proc
<1>t. /\ seen \in 0 .. MODULUS - 1 /\ avail.idx \in 0 .. MODULUS - 1
      /\ avail.ring \in Ring /\ avail \in [ring : Ring, idx : 0 .. MODULUS - 1]
      /\ taken \subseteq Desc
  BY DEF IInv, TypeOK, Ring
<1>i. i \in Desc /\ seen' \in 0 .. MODULUS - 1
  BY <1>u, <1>t, Wraps
<1>r. /\ avail'.ring = [avail.ring EXCEPT ![i] = NoDesc] /\ avail'.idx = avail.idx
      /\ avail' \in [ring : Ring, idx : 0 .. MODULUS - 1]
  BY <1>u, <1>t, <1>i DEF Ring
<1>s. Steady
  BY <1>u DEF Steady
<1>1. TypeOK'
  BY <1>u, <1>t, <1>i, <1>r DEF IInv, TypeOK, Ring
<1>2. LockInv'
  BY <1>u DEF IInv, LockInv
<1>3. CallInv' /\ DataInv' /\ ChainInv' /\ ShareInv' /\ DoneInv'
  BY <1>u, <1>s, RequestsKept
<1>4. UsedInv' /\ UsedRing'
  BY <1>u, <1>s, UsedKept DEF IInv
<1>5. OfferInv'
  <2>0. \A h : Unserved(h)' <=> Unserved(h)
    BY <1>u DEF Unserved
  <2>1. \A k \in Desc : avail'.ring[k] = IF k = i THEN NoDesc ELSE avail.ring[k]
    BY <1>r, <1>t, <1>i DEF Ring
  <2>2. Unserved(t) /\ t \notin taken /\ \A j \in Desc : avail.ring[j] = t => j = i
    BY <1>u, <1>i, Markers DEF IInv, OfferInv
  <2> HIDE DEF i, t
  <2>3. \A j \in Desc : avail.ring[j] # NoDesc =>
          /\ Unserved(avail.ring[j]) /\ avail.ring[j] \notin taken
          /\ \A k \in Desc : avail.ring[k] = avail.ring[j] => k = j
    BY DEF IInv, OfferInv
  <2>4. \A h \in taken' : Unserved(h)'
    BY <1>u, <2>0, <2>2 DEF IInv, OfferInv
  <2>5. taken' = taken \cup {t}
    BY <1>u
  <2> QED
    BY <2>0, <2>1, <2>2, <2>3, <2>4, <2>5 DEF OfferInv
<1>6. AvailRing'
  <2>1. Filled' = Filled /\ Filled \in {0, 1}
    BY <1>u DEF Filled
  <2>2. n \in Nat \ {0}
    BY <1>u, <1>t, Gaps, SMTT(30)
  <2>3. (avail'.idx - seen') % MODULUS = n - 1
    BY <1>u, <1>t, <1>r, Gaps
  <2> DEFINE m == n + Filled
  <2>4. m \in Nat \ {0} /\ Holds(avail.ring, seen, m)
    BY <2>1, <2>2, SMTT(30) DEF IInv, AvailRing
  <2>5. ((avail'.idx - seen') % MODULUS) + Filled' = m - 1
    BY <2>1, <2>2, <2>3, SMTT(30)
  <2> HIDE DEF m
  <2>6. Holds([avail.ring EXCEPT ![i] = NoDesc], (seen + 1) % MODULUS, m - 1)
    BY <1>t, <2>4, GetEntry
  <2> HIDE DEF i, n
  <2> QED
    BY <1>u, <1>r, <2>5, <2>6 DEF AvailRing
<1>7. NoPanic' /\ NoLostCompletion' /\ NoLostWakeup'
  BY <1>u DEF IInv, NoPanic, NoLostCompletion, NoLostWakeup
<1>8. NoLostNotify'
  BY <1>u DEF NoLostNotify
<1> QED
  BY <1>1, <1>2, <1>3, <1>4, <1>5, <1>6, <1>7, <1>8 DEF IInv

\* The device serves a chain, and there is room for it in the used ring.
LEMMA Serve ==
  ASSUME IInv, NEW h \in Desc, dev_serve(h)
  PROVE  IInv' /\ used.ring[used.idx % NUM] = NoDesc
<1> DEFINE n == (used.idx - used_idx) % MODULUS
<1>t. /\ info \in [Desc -> [b : Proc \cup {NoProc}, status : {0, 255}]]
      /\ data \in [Proc -> Value \cup {NoValue}] /\ store \in [Block -> Value]
      /\ used_idx \in 0 .. MODULUS - 1 /\ used.idx \in 0 .. MODULUS - 1
      /\ used.ring \in Ring /\ disk \in [Proc -> {0, 1}] /\ taken \subseteq Desc
  BY DEF IInv, TypeOK, Ring
<1>a. PICK p \in Proc : pc[p] \in Formatted /\ head[p] = h /\ info[h].status = 255
  BY DEF dev_serve, IInv, OfferInv, Unserved
<1>b. /\ desc[h].addr[2] = req[p] /\ desc[desc[h].next].addr[2] = p
      /\ req[p] \in Request
  <2>1. desc[head[p]].addr = <<"ops", req[p]>> /\ desc[desc[head[p]].next].addr = <<"data", p>>
    BY <1>a DEF IInv, ChainInv, Second
  <2>2. req[p] \in Request
    BY <1>a, ChainTyped
  <2> QED
    BY <1>a, <2>1, <2>2, SMTT(30)
<1>c. /\ h \in taken /\ taken' = taken \ {h}
      /\ used' = [ring |-> [used.ring EXCEPT ![used.idx % NUM] = h],
                  idx |-> (used.idx + 1) % MODULUS]
      /\ info' = [info EXCEPT ![h].status = 0]
      /\ irq' = 1
      /\ desc' = desc /\ free' = free /\ avail' = avail /\ used_idx' = used_idx
      /\ lock' = lock /\ disk' = disk /\ req' = req /\ pc' = pc /\ head' = head
      /\ intr' = intr /\ seen' = seen /\ kick' = kick /\ panicked' = panicked
  BY DEF dev_serve, proc
<1>d. /\ info' \in [Desc -> [b : Proc \cup {NoProc}, status : {0, 255}]]
      /\ \A d \in Desc : info'[d].b = info[d].b
      /\ \A d \in Desc \ {h} : info'[d] = info[d]
      /\ info'[h].status = 0
  BY <1>c, <1>t, SMTT(30)
<1>e. \/ /\ req[p].write /\ data' = data
         /\ store' = [store EXCEPT ![req[p].block] = data[p]]
      \/ /\ ~ req[p].write /\ store' = store
         /\ data' = [data EXCEPT ![p] = store[req[p].block]]
  BY <1>b DEF dev_serve
<1>f. disk[p] = 1
  <2>1. disk[p] # 0
    BY <1>a, SMTT(30) DEF IInv, DoneInv
  <2> QED
    BY <1>t, <2>1
<1>r. /\ used.idx % NUM \in Desc /\ used'.idx = (used.idx + 1) % MODULUS
      /\ used'.idx \in 0 .. MODULUS - 1
      /\ used'.ring = [used.ring EXCEPT ![used.idx % NUM] = h] /\ used'.ring \in Ring
  <2>1. used.idx % NUM \in Desc /\ (used.idx + 1) % MODULUS \in 0 .. MODULUS - 1
    BY <1>t, Wraps
  <2>2. used'.idx = (used.idx + 1) % MODULUS
        /\ used'.ring = [used.ring EXCEPT ![used.idx % NUM] = h]
    BY <1>c
  <2>3. \A k \in Desc : [used.ring EXCEPT ![k] = h] \in Ring
    BY <1>t DEF Ring
  <2> QED
    BY <2>1, <2>2, <2>3
\* The used ring does not name h.
<1>h. /\ \A j \in Desc : used.ring[j] # NoDesc =>
           used.ring[j] # h /\ \A k \in Desc : used.ring[k] = used.ring[j] => k = j
      /\ \A j \in Desc : used.ring[j] # NoDesc => Untold(used.ring[j])
  <2>1. ~ Untold(h)
    <3>1. info[h].status = 255
      BY <1>a
    <3> QED
      BY <3>1, SMTT(30) DEF Untold
  <2> QED
    BY <2>1 DEF IInv, UsedInv
<1>n. n \in Nat /\ n < NUM /\ Holds(used.ring, used_idx, n)
  <2>1. Holds(used.ring, used_idx, n)
    BY DEF IInv, UsedRing
  <2>2. n \in 0 .. MODULUS - 1
    BY <1>t, Gaps
  <2> HIDE DEF n
  <2>3. n \in Nat
    BY <2>2, VirtioAssumption, SMTT(30)
  <2>4. n < NUM
    BY <1>t, <1>h, <2>1, <2>3, NotFull
  <2> QED
    BY <2>1, <2>3, <2>4
<1>v. used.ring[used.idx % NUM] = NoDesc
  BY <1>t, <1>n, PutEntry
<1>1. TypeOK'
  <2>1. req[p].block \in Block /\ (req[p].write => data[p] \in Value)
    BY <1>a, <1>b, Names DEF IInv, DataInv, Request
  <2>2. data' \in [Proc -> Value \cup {NoValue}] /\ store' \in [Block -> Value]
    <3>1. CASE req[p].write /\ data' = data /\ store' = [store EXCEPT ![req[p].block] = data[p]]
      BY <1>t, <2>1, <3>1
    <3>2. CASE /\ ~ req[p].write /\ store' = store
               /\ data' = [data EXCEPT ![p] = store[req[p].block]]
      BY <1>t, <2>1, <3>2
    <3> QED
      BY <1>e, <3>1, <3>2
  <2>3. used' \in [ring : [Desc -> Desc \cup {NoDesc}], idx : 0 .. MODULUS - 1]
    BY <1>c, <1>r DEF Ring
  <2>4. taken' \subseteq Desc
    BY <1>c, <1>t
  <2> QED
    BY <1>c, <1>d, <2>2, <2>3, <2>4 DEF IInv, TypeOK
<1>2. LockInv' /\ CallInv'
  BY <1>c DEF IInv, LockInv, CallInv
<1>3. DataInv'
  <2>1. CASE data' = data
    BY <1>c, <2>1 DEF IInv, DataInv
  <2>2. CASE ~ req[p].write /\ data' = [data EXCEPT ![p] = store[req[p].block]]
    BY <1>c, <1>t, <2>2 DEF IInv, DataInv
  <2> QED
    BY <1>e, <2>1, <2>2
<1>4. ChainInv' /\ ShareInv'
  BY <1>c, <1>d, ChainsKept
<1>5. OfferInv'
  <2>1. \A g \in Desc \ {h} : Unserved(g) => Unserved(g)'
    BY <1>c, <1>d DEF Unserved
  <2>2. \A i \in Desc : avail.ring[i] # NoDesc => avail.ring[i] \in Desc \ {h}
    BY <1>c, SMTT(30) DEF IInv, OfferInv, TypeOK
  <2>3. taken' \subseteq Desc \ {h}
    BY <1>c, <1>t
  <2> QED
    BY <1>c, <2>1, <2>2, <2>3 DEF IInv, OfferInv
<1>6. UsedInv'
  <2> DEFINE i == used.idx % NUM
  <2>1. \A k \in Desc : used'.ring[k] = IF k = i THEN h ELSE used.ring[k]
    BY <1>r, <1>t DEF Ring
  <2>2. \A g \in Desc \ {h} : Untold(g) => Untold(g)'
    BY <1>c, <1>d DEF Untold
  <2>3. Untold(h)'
    BY <1>a, <1>c, <1>d, <1>f DEF Untold
  <2> HIDE DEF i
  <2>4. \A j \in Desc : used'.ring[j] # NoDesc =>
          Untold(used.ring[j])' /\ \A k \in Desc : used'.ring[k] = used'.ring[j] => k = j
    BY <1>t, <1>h, <2>1, <2>2, <2>3 DEF Ring
  <2> QED
    BY <2>4 DEF UsedInv
<1>7. UsedRing'
  <2>1. n < MODULUS - 1
    BY <1>n, VirtioAssumption, SMTT(30)
  <2>2. (((used.idx + 1) % MODULUS) - used_idx) % MODULUS = n + 1
    BY <1>t, <2>1, Gaps
  <2>3. Holds([used.ring EXCEPT ![used.idx % NUM] = h], used_idx, n + 1)
    BY <1>t, <1>n, PutEntry
  <2> HIDE DEF n
  <2> QED
    BY <1>c, <1>r, <2>2, <2>3 DEF UsedRing
<1>8. DoneInv'
  <2> SUFFICES ASSUME NEW q \in Proc, pc[q] \in Formatted, disk[q] = 0
               PROVE  info'[head[q]].status = 0
    BY <1>c DEF DoneInv
  <2>1. head[q] \in Desc /\ info[head[q]].status = 0
    BY ChainTyped DEF IInv, DoneInv
  <2> QED
    BY <1>d, <2>1
<1>9. AvailRing'
  BY <1>c, AvailKept DEF IInv
<1>10. NoPanic' /\ NoLostCompletion' /\ NoLostWakeup' /\ NoLostNotify'
  BY <1>c DEF IInv, NoPanic, NoLostCompletion, NoLostWakeup, NoLostNotify
<1> QED
  BY <1>1, <1>2, <1>3, <1>4, <1>5, <1>6, <1>7, <1>8, <1>9, <1>10, <1>v DEF IInv
=============================================================================
