-------------------------- MODULE VirtioDiskProofs --------------------------
(***************************************************************************)
(* Proofs about VirtioDisk for any number of processes, blocks and         *)
(* descriptors, and any width of the ring indices: the driver implements   *)
(* the disk service, no ring entry is overwritten before it is read and no *)
(* panic is reached, descriptors are neither leaked nor shared, and no     *)
(* notification, completion or wakeup is lost.                             *)
(***************************************************************************)
EXTENDS VirtioDiskSteps

\* A step is left to Zenon unless it names SMT; each may take 30 seconds.
USE ZenonT(30)

-----------------------------------------------------------------------------
(* Descriptors are taken and given back.                                   *)

\* What ChainInv says of one process.
Laid(p) ==
  /\ head[p] # Second(p) /\ head[p] # Third(p) /\ Second(p) # Third(p)
  /\ Members(p) \cap free = {}
  /\ desc[head[p]].more /\ desc[head[p]].addr = <<"ops", req[p]>>
  /\ desc[Second(p)].more /\ desc[Second(p)].addr = <<"data", p>>
  /\ ~ desc[Third(p)].more /\ desc[Third(p)].addr = <<"status", head[p]>>
  /\ info[head[p]].b = p

\* ChainInv says that the chain of every formatted request is laid.
LEMMA ChainsLaid == ChainInv <=> \A p \in Proc : pc[p] \in Formatted => Laid(p)
BY DEF ChainInv, Laid

\* A step that leaves the chain of one request alone.
LEMMA ChainKept ==
  ASSUME NEW q \in Proc, head'[q] = head[q], \A e \in Members(q) : desc'[e] = desc[e]
  PROVE  /\ Second(q)' = Second(q) /\ Third(q)' = Third(q) /\ Members(q)' = Members(q)
         /\ (/\ Laid(q) /\ req'[q] = req[q] /\ info'[head[q]] = info[head[q]]
             /\ Members(q) \cap free' = {}) => Laid(q)'
<1>1. head[q] \in Members(q) /\ Second(q) \in Members(q) /\ Third(q) \in Members(q)
  BY DEF Members
<1>2. /\ desc'[head[q]] = desc[head[q]] /\ desc'[Second(q)] = desc[Second(q)]
      /\ desc'[Third(q)] = desc[Third(q)]
  BY <1>1
<1>3. Second(q)' = Second(q)
  BY <1>2 DEF Second
<1>4. Third(q)' = Third(q)
  BY <1>2, <1>3 DEF Third
<1>5. Members(q)' = Members(q)
  BY <1>3, <1>4 DEF Members
<1>6. ASSUME Laid(q), req'[q] = req[q], info'[head[q]] = info[head[q]],
             Members(q) \cap free' = {}
      PROVE  Laid(q)'
  BY <1>2, <1>3, <1>4, <1>5, <1>6 DEF Laid
<1> QED
  BY <1>3, <1>4, <1>5, <1>6

\* The counts that alloc3_desc goes by.
LEMMA Fewer ==
  ASSUME NEW S \in SUBSET Desc, NEW T \in SUBSET S, Cardinality(S) < 3
  PROVE  Cardinality(T) < 3
<1>1. IsFiniteSet(Desc)
  BY FS_Interval, VirtioAssumption, SMTT(30) DEF Desc
<1>2. IsFiniteSet(S) /\ IsFiniteSet(T) /\ Cardinality(T) <= Cardinality(S)
  BY <1>1, FS_Subset
<1>3. Cardinality(S) \in Nat /\ Cardinality(T) \in Nat
  BY <1>2, FS_CardinalityType
<1> QED
  BY <1>2, <1>3, SMTT(30)

\* A process takes three descriptors and formats its request.
LEMMA Taken ==
  ASSUME IInv, NEW p \in Proc, alloc3_desc(p)
  PROVE  IInv' /\ avail.ring[avail.idx % NUM] = NoDesc
<1> DEFINE k == avail.idx % NUM
           n == (avail.idx - seen) % MODULUS
<1>t. /\ desc \in [Desc -> [addr : Addr, more : BOOLEAN, next : Desc]] /\ free \subseteq Desc
      /\ info \in [Desc -> [b : Proc \cup {NoProc}, status : {0, 255}]]
      /\ avail = [ring |-> avail.ring, idx |-> avail.idx]
      /\ avail.ring \in Ring /\ avail.idx \in 0 .. MODULUS - 1 /\ seen \in 0 .. MODULUS - 1
      /\ used.ring \in Ring
      /\ disk \in [Proc -> {0, 1}] /\ pc \in [Proc -> PC] /\ head \in [Proc -> Desc \cup {NoDesc}]
      /\ req \in [Proc -> Request \cup {NoReq}] /\ taken \subseteq Desc
  BY DEF IInv, TypeOK, Ring
<1>w. PICK a \in free, b \in free, c \in free :
        /\ Lowest3(a, b, c)
        /\ free' = free \ {a, b, c}
        /\ head' = [head EXCEPT ![p] = a]
        /\ desc' = [desc EXCEPT
                      ![a] = [addr |-> <<"ops", req[p]>>, more |-> TRUE, next |-> b],
                      ![b] = [addr |-> <<"data", p>>, more |-> TRUE, next |-> c],
                      ![c] = [addr |-> <<"status", a>>, more |-> FALSE, next |-> 0]]
        /\ info' = [info EXCEPT ![a] = [b |-> p, status |-> 255]]
        /\ avail' = [avail EXCEPT !.ring[avail.idx % NUM] = a]
  BY DEF alloc3_desc
<1>u. /\ pc[p] \in {"call", "woken_free"} /\ lock = NoProc /\ lock' = p
      /\ pc' = [pc EXCEPT ![p] = "index"] /\ disk' = [disk EXCEPT ![p] = 1]
      /\ used' = used /\ used_idx' = used_idx /\ data' = data /\ req' = req /\ intr' = intr
      /\ store' = store /\ seen' = seen /\ taken' = taken /\ kick' = kick /\ irq' = irq
      /\ panicked' = panicked
  BY DEF alloc3_desc, Goto, Acquire, device
<1>x. /\ a \in Desc /\ b \in Desc /\ c \in Desc /\ a # b /\ a # c /\ b # c /\ a # NoDesc
  <2>1. a \in Desc /\ b \in Desc /\ c \in Desc
    BY <1>t
  <2>2. a \in Int /\ b \in Int /\ c \in Int /\ a # NoDesc
    BY <2>1, Markers, SMTT(30) DEF Desc
  <2>3. a < b /\ b < c
    BY <1>w DEF Lowest3
  <2> QED
    BY <2>1, <2>2, <2>3, SMTT(30)
<1>p. /\ pc' \in [Proc -> PC] /\ pc'[p] = "index" /\ \A q \in Proc \ {p} : pc'[q] = pc[q]
      /\ pc[p] \notin Formatted
  BY <1>u, <1>t, Names, Moved
<1>q. /\ head'[p] = a /\ disk'[p] = 1 /\ head[p] = NoDesc /\ req[p] \in Request
      /\ \A q \in Proc \ {p} : head'[q] = head[q] /\ disk'[q] = disk[q]
  <2>1. head[p] = NoDesc /\ req[p] # NoReq
    BY <1>u, <1>p, Names DEF IInv, CallInv
  <2> QED
    BY <1>u, <1>w, <1>t, <2>1, SMTT(30)
<1>r. /\ desc'[a] = [addr |-> <<"ops", req[p]>>, more |-> TRUE, next |-> b]
      /\ desc'[b] = [addr |-> <<"data", p>>, more |-> TRUE, next |-> c]
      /\ desc'[c] = [addr |-> <<"status", a>>, more |-> FALSE, next |-> 0]
      /\ \A e \in Desc \ {a, b, c} : desc'[e] = desc[e]
  <2> DEFINE x == [addr |-> <<"ops", req[p]>>, more |-> TRUE, next |-> b]
             y == [addr |-> <<"data", p>>, more |-> TRUE, next |-> c]
             z == [addr |-> <<"status", a>>, more |-> FALSE, next |-> 0]
  <2>1. desc' = [desc EXCEPT ![a] = x, ![b] = y, ![c] = z]
    BY <1>w
  <2> HIDE DEF x, y, z
  <2>2. /\ desc'[a] = x /\ desc'[b] = y /\ desc'[c] = z
        /\ \A e \in Desc \ {a, b, c} : desc'[e] = desc[e]
    BY <1>t, <1>x, <2>1
  <2> QED
    BY <2>2 DEF x, y, z
<1>i. /\ info' \in [Desc -> [b : Proc \cup {NoProc}, status : {0, 255}]]
      /\ info'[a].b = p /\ info'[a].status = 255
      /\ \A e \in Desc \ {a} : info'[e] = info[e]
  BY <1>w, <1>t, <1>x
<1>v. /\ k \in Desc /\ avail'.idx = avail.idx /\ avail'.ring \in Ring
      /\ avail' = [ring |-> avail'.ring, idx |-> avail'.idx]
      /\ avail'.ring = [avail.ring EXCEPT ![k] = a]
      /\ avail'.ring[k] = a /\ \A j \in Desc \ {k} : avail'.ring[j] = avail.ring[j]
  <2>1. k \in Desc
    BY <1>t, Wraps
  <2>2. avail' = [avail EXCEPT !.ring[k] = a]
    BY <1>w
  <2> HIDE DEF k
  <2>3. avail' = [ring |-> [avail.ring EXCEPT ![k] = a], idx |-> avail.idx]
    BY <1>t, <2>2
  <2> QED
    BY <1>t, <1>x, <2>1, <2>3 DEF Ring
<1>c. /\ Second(p)' = b /\ Third(p)' = c /\ Members(p)' = {a, b, c}
  <2>1. Second(p)' = b
    BY <1>q, <1>r, SMTT(30) DEF Second
  <2>2. Third(p)' = c
    BY <1>r, <2>1, SMTT(30) DEF Third
  <2> QED
    BY <1>q, <2>1, <2>2 DEF Members
<1>d. ASSUME NEW q \in Proc, pc[q] \in Formatted
      PROVE  /\ q # p /\ pc'[q] \in Formatted /\ head'[q] = head[q]
             /\ Members(q) \subseteq Desc \ free /\ head[q] \in Members(q)
             /\ Members(q)' = Members(q) /\ Laid(q)'
             /\ \A e \in Members(q) : info'[e] = info[e]
  <2>1. q # p /\ pc'[q] \in Formatted /\ head'[q] = head[q] /\ req'[q] = req[q]
    BY <1>d, <1>p, <1>q, <1>u
  <2>2. head[q] \in Desc /\ Second(q) \in Desc /\ Third(q) \in Desc
    BY <1>d, ChainTyped
  <2>3. Laid(q)
    BY <1>d, ChainsLaid DEF IInv
  <2>4. Members(q) \subseteq Desc \ free /\ head[q] \in Members(q)
    BY <2>2, <2>3 DEF Laid, Members
  <2>5. \A e \in Members(q) : e \in Desc /\ e \notin {a, b, c}
    BY <2>4
  <2>6. \A e \in Members(q) : desc'[e] = desc[e] /\ info'[e] = info[e]
    BY <1>r, <1>i, <2>5
  <2>7. Members(q) \cap free' = {}
    BY <1>w, <2>4
  <2>8. Members(q)' = Members(q) /\ Laid(q)'
    BY <2>1, <2>3, <2>4, <2>6, <2>7, ChainKept
  <2> QED
    BY <2>1, <2>4, <2>6, <2>8
<1>e. \A q \in Proc : pc'[q] \in Formatted => q = p \/ pc[q] \in Formatted
  BY <1>p
<1>1. TypeOK'
  <2>1. desc' \in [Desc -> [addr : Addr, more : BOOLEAN, next : Desc]]
    <3> DEFINE D == [addr : Addr, more : BOOLEAN, next : Desc]
    <3>1. <<"ops", req[p]>> \in Addr /\ <<"data", p>> \in Addr /\ <<"status", a>> \in Addr
      BY <1>q, <1>x DEF Addr
    <3>2. 0 \in Desc
      BY UnusedTyped
    <3>3. desc'[a] \in D /\ desc'[b] \in D /\ desc'[c] \in D
      BY <1>r, <1>x, <3>1, <3>2, SMTT(30)
    <3>4. \A e \in Desc : desc'[e] \in D
      BY <1>r, <1>t, <3>3
    <3>5. desc' = [e \in Desc |-> desc'[e]]
      BY <1>w, <1>t
    <3> QED
      BY <3>4, <3>5
  <2>2. avail' \in [ring : [Desc -> Desc \cup {NoDesc}], idx : 0 .. MODULUS - 1]
    BY <1>v, <1>t DEF Ring
  <2>3. /\ free' \subseteq Desc /\ disk' \in [Proc -> {0, 1}]
        /\ head' \in [Proc -> Desc \cup {NoDesc}] /\ lock' \in Proc \cup {NoProc, Intr}
    BY <1>w, <1>u, <1>t, <1>x
  <2> QED
    BY <1>u, <1>p, <1>i, <2>1, <2>2, <2>3 DEF IInv, TypeOK
<1>2. LockInv'
  BY <1>u, <1>p, Names, Markers DEF IInv, LockInv
<1>3. CallInv'
  BY <1>u, <1>p, <1>q, <1>x, Names, SMTT(30) DEF IInv, CallInv
<1>4. DataInv'
  BY <1>u, <1>p, Names DEF IInv, DataInv
<1>5. ChainInv'
  <2>1. Laid(p)'
    <3>1. head'[p] = a /\ Second(p)' = b /\ Third(p)' = c /\ req'[p] = req[p]
      BY <1>q, <1>c, <1>u
    <3>2. Members(p)' \cap free' = {}
      BY <1>c, <1>w
    <3> QED
      BY <1>x, <1>r, <1>i, <3>1, <3>2, SMTT(30) DEF Laid
  <2>2. \A q \in Proc : pc'[q] \in Formatted => Laid(q)'
    BY <1>d, <1>e, <2>1
  <2> QED
    BY <2>2 DEF ChainInv, Laid
<1>6. ShareInv'
  <2>1. ASSUME NEW q \in Proc, NEW r \in Proc, q # r,
               pc'[q] \in Formatted, pc'[r] \in Formatted
        PROVE  Members(q)' \cap Members(r)' = {}
    <3>1. CASE pc[q] \in Formatted /\ pc[r] \in Formatted
      BY <1>d, <2>1, <3>1 DEF IInv, ShareInv
    <3>2. CASE q = p
      BY <1>c, <1>d, <1>e, <2>1, <3>2
    <3>3. CASE r = p
      BY <1>c, <1>d, <1>e, <2>1, <3>3
    <3> QED
      BY <1>e, <2>1, <3>1, <3>2, <3>3
  <2>2. ASSUME NEW d \in Desc \ free'
        PROVE  \E q \in Proc : pc'[q] \in Formatted /\ d \in Members(q)'
    <3>1. CASE d \in {a, b, c}
      BY <1>p, <1>c, <3>1, Names
    <3>2. CASE d \notin free
      <4>1. PICK q \in Proc : pc[q] \in Formatted /\ d \in Members(q)
        BY <2>2, <3>2 DEF IInv, ShareInv
      <4> QED
        BY <1>d, <4>1
    <3> QED
      BY <1>w, <2>2, <3>1, <3>2
  <2> QED
    BY <2>1, <2>2 DEF ShareInv
\* No request in progress has the descriptor a.
<1>f. \A g \in Desc : /\ Unserved(g) => g # a /\ Unserved(g)'
                      /\ Untold(g) => g # a /\ Untold(g)'
  <2>1. ASSUME NEW g \in Desc, NEW q \in Proc, pc[q] \in Formatted, head[q] = g
        PROVE  /\ g # a /\ pc'[q] \in Formatted /\ head'[q] = g /\ info'[g] = info[g]
               /\ disk'[q] = disk[q]
    BY <1>d, <1>q, <2>1
  <2>2. \A g \in Desc : Unserved(g) => g # a /\ Unserved(g)'
    BY <2>1, SMTT(30) DEF Unserved
  <2>3. \A g \in Desc : Untold(g) => g # a /\ Untold(g)'
    BY <2>1 DEF Untold
  <2> QED
    BY <2>2, <2>3
<1>g. /\ \A i \in Desc : avail.ring[i] # NoDesc =>
           /\ avail.ring[i] # a /\ Unserved(avail.ring[i]) /\ avail.ring[i] \notin taken
           /\ \A j \in Desc : avail.ring[j] = avail.ring[i] => j = i
      /\ \A h \in taken : h # a /\ Unserved(h)
  BY <1>t, <1>f DEF IInv, OfferInv, Ring
\* There is room for it in the available ring.
<1>n. n \in Nat /\ n < NUM /\ Holds(avail.ring, seen, n) /\ avail.ring[k] = NoDesc
  <2>1. Filled = 0
    BY <1>u, Names, Markers DEF IInv, LockInv, Filled
  <2>2. n \in 0 .. MODULUS - 1
    BY <1>t, Gaps
  <2>3. Holds(avail.ring, seen, n + Filled)
    BY DEF IInv, AvailRing
  <2> HIDE DEF n
  <2>4. n \in Nat
    BY <2>2, VirtioAssumption, SMTT(30)
  <2>5. Holds(avail.ring, seen, n)
    <3>1. n + Filled = n
      BY <2>1, <2>4, SMTT(30)
    <3> QED
      BY <2>3, <3>1
  <2>6. n < NUM
    BY <1>t, <1>x, <1>g, <2>4, <2>5, NotFull
  <2>7. avail.ring[k] = NoDesc
    BY <1>t, <1>x, <2>5, <2>6, PutEntry DEF n
  <2> QED
    BY <2>4, <2>5, <2>6, <2>7
<1>7. OfferInv'
  <2>1. Unserved(a)'
    BY <1>p, <1>q, <1>i, Names DEF Unserved
  <2> HIDE DEF k, n
  <2>2. \A h \in taken' : Unserved(h)'
    BY <1>u, <1>t, <1>g, <1>f
  <2>3. \A i \in Desc : avail'.ring[i] # NoDesc =>
          /\ Unserved(avail.ring[i])' /\ avail'.ring[i] \notin taken'
          /\ \A j \in Desc : avail'.ring[j] = avail'.ring[i] => j = i
    <3> SUFFICES ASSUME NEW i \in Desc, avail'.ring[i] # NoDesc
                 PROVE  /\ Unserved(avail.ring[i])' /\ avail'.ring[i] \notin taken'
                        /\ \A j \in Desc : avail'.ring[j] = avail'.ring[i] => j = i
      OBVIOUS
    <3>1. CASE i = k
      BY <1>u, <1>v, <1>g, <1>x, <2>1, <3>1, SMTT(30)
    <3>2. CASE i # k
      <4>1. /\ avail'.ring[i] = avail.ring[i] /\ avail.ring[i] # NoDesc
            /\ avail.ring[i] \in Desc
        BY <1>v, <1>t, <3>2 DEF Ring
      <4>2. Unserved(avail.ring[i])'
        BY <1>f, <1>g, <4>1
      <4> QED
        BY <1>u, <1>v, <1>g, <4>1, <4>2, SMTT(30)
    <3> QED
      BY <3>1, <3>2
  <2> QED
    BY <2>2, <2>3 DEF OfferInv
<1>8. UsedInv' /\ UsedRing'
  <2>1. UsedInv'
    BY <1>u, <1>t, <1>f DEF IInv, UsedInv, Ring
  <2> QED
    BY <1>u, <2>1 DEF IInv, UsedRing
<1>9. DoneInv'
  <2> SUFFICES ASSUME NEW q \in Proc, pc'[q] \in Formatted, disk'[q] = 0
               PROVE  info'[head'[q]].status = 0
    BY DEF DoneInv
  <2>1. q # p /\ pc[q] \in Formatted /\ disk[q] = 0
    BY <1>q, <1>e, SMTT(30)
  <2>2. head'[q] = head[q] /\ info'[head[q]] = info[head[q]]
    BY <1>d, <2>1
  <2> QED
    BY <2>1, <2>2 DEF IInv, DoneInv
<1>10. AvailRing'
  <2>1. Filled' = 1
    BY <1>p DEF Filled
  <2>2. Holds([avail.ring EXCEPT ![k] = a], seen, n + 1)
    BY <1>t, <1>x, <1>n, PutEntry
  <2>3. (avail'.idx - seen') % MODULUS = n
    BY <1>v, <1>u
  <2> HIDE DEF n
  <2> QED
    BY <1>u, <1>v, <2>1, <2>2, <2>3 DEF AvailRing
<1>11. NoPanic' /\ NoLostCompletion'
  BY <1>u DEF IInv, NoPanic, NoLostCompletion
<1>12. NoLostWakeup'
  <2>1. Cardinality(free) < 3 => Cardinality(free') < 3
    <3>1. free' \in SUBSET free /\ free \in SUBSET Desc
      BY <1>w, <1>t
    <3> QED
      BY <3>1, Fewer
  <2> QED
    BY <1>p, <1>q, <2>1 DEF IInv, NoLostWakeup
<1>13. NoLostNotify'
  <2>1. \A q \in Proc : pc[q] = "notify" => pc'[q] = "notify"
    BY <1>p, Names
  <2> QED
    BY <1>u, <1>v, <2>1 DEF IInv, NoLostNotify
<1> QED
  BY <1>1, <1>2, <1>3, <1>4, <1>5, <1>6, <1>7, <1>8, <1>9, <1>10, <1>11, <1>12, <1>13, <1>n DEF IInv

\* A process is done and gives its descriptors back.
LEMMA Done ==
  ASSUME IInv, NEW p \in Proc, wait_done(p)
  PROVE  IInv'
<1> DEFINE h == head[p]
<1>t. /\ desc \in [Desc -> [addr : Addr, more : BOOLEAN, next : Desc]] /\ free \subseteq Desc
      /\ info \in [Desc -> [b : Proc \cup {NoProc}, status : {0, 255}]]
      /\ avail.ring \in Ring /\ used.ring \in Ring /\ taken \subseteq Desc
      /\ pc \in [Proc -> PC] /\ head \in [Proc -> Desc \cup {NoDesc}]
      /\ req \in [Proc -> Request \cup {NoReq}] /\ data \in [Proc -> Value \cup {NoValue}]
  BY DEF IInv, TypeOK, Ring
<1>u. /\ pc[p] = "woken_buf" /\ lock = NoProc /\ disk[p] = 0
      /\ panicked' = IF free_chain(h) \cap free # {} THEN "free_desc" ELSE "no"
      /\ info' = [info EXCEPT ![h].b = NoProc]
      /\ desc' = [d \in Desc |-> IF d \in free_chain(h) THEN Unused ELSE desc[d]]
      /\ free' = free \cup free_chain(h)
      /\ head' = [head EXCEPT ![p] = NoDesc]
      /\ req' = [req EXCEPT ![p] = NoReq]
      /\ data' = [data EXCEPT ![p] = NoValue]
      /\ pc' = WakeFree(p, "idle")
      /\ avail' = avail /\ used' = used /\ used_idx' = used_idx /\ lock' = lock
      /\ disk' = disk /\ intr' = intr /\ store' = store /\ seen' = seen /\ taken' = taken
      /\ kick' = kick /\ irq' = irq
  BY DEF wait_done, Finished, device
<1>a. pc[p] \in Formatted /\ Laid(p) /\ info[h].status = 0
  <2>1. pc[p] \in Formatted
    BY <1>u, Names
  <2> QED
    BY <1>u, <2>1, ChainsLaid DEF IInv, DoneInv
<1>b. /\ h \in Desc /\ h \in Members(p) /\ Members(p) \subseteq Desc
      /\ Members(p) \cap free = {}
  BY <1>a, ChainTyped DEF Laid, Members
<1>c. free_chain(h) = Members(p)
  BY <1>a DEF Laid, free_chain, Members, Second, Third
<1>d. /\ panicked' = "no" /\ free' = free \cup Members(p)
      /\ \A e \in Desc : desc'[e] = IF e \in Members(p) THEN Unused ELSE desc[e]
      /\ desc' = [e \in Desc |-> desc'[e]]
  <2> HIDE DEF h
  <2> QED
    BY <1>u, <1>b, <1>c
<1>i. /\ info' \in [Desc -> [b : Proc \cup {NoProc}, status : {0, 255}]]
      /\ \A e \in Desc : info'[e].status = info[e].status
      /\ \A e \in Desc \ {h} : info'[e] = info[e]
  <2> HIDE DEF h
  <2> QED
    BY <1>u, <1>b, <1>t, SMTT(30)
<1>p. /\ pc' \in [Proc -> PC] /\ pc'[p] = "idle"
      /\ \A q \in Proc : pc'[q] # "asleep_free"
      /\ \A q \in Proc \ {p} : \/ pc'[q] = pc[q]
                               \/ pc[q] = "asleep_free" /\ pc'[q] = "woken_free"
  BY <1>u, <1>t, Names, MovedWaking, SMTT(30)
<1>q. \A q \in Proc : /\ pc'[q] \in Formatted <=> q # p /\ pc[q] \in Formatted
                      /\ pc'[q] = "idle" <=> q = p \/ pc[q] = "idle"
                      /\ pc'[q] = "index" <=> pc[q] = "index"
                      /\ pc'[q] = "notify" <=> pc[q] = "notify"
                      /\ pc'[q] = "asleep_buf" => pc[q] = "asleep_buf"
  BY <1>u, <1>p, Names
<1>r. /\ req'[p] = NoReq /\ head'[p] = NoDesc
      /\ \A q \in Proc \ {p} : head'[q] = head[q] /\ req'[q] = req[q] /\ data'[q] = data[q]
  BY <1>u, <1>t, SMTT(30)
<1>h. ASSUME NEW q \in Proc, q # p, pc[q] \in Formatted
      PROVE  /\ head[q] \in Desc /\ head'[q] = head[q] /\ head[q] # h
             /\ Members(q)' = Members(q) /\ Laid(q)'
  <2>1. head[q] \in Desc /\ Second(q) \in Desc /\ Third(q) \in Desc /\ Laid(q)
    BY <1>h, ChainTyped, ChainsLaid DEF IInv
  <2>2. Members(q) \cap Members(p) = {}
    BY <1>a, <1>h DEF IInv, ShareInv
  <2>3. head[q] \in Members(q) /\ Members(q) \subseteq Desc /\ Members(q) \cap free = {}
    BY <2>1 DEF Members, Laid
  <2>4. head[q] # h
    BY <1>b, <2>2, <2>3
  <2>5. \A e \in Members(q) : desc'[e] = desc[e]
    BY <1>d, <2>2, <2>3
  <2>6. Members(q) \cap free' = {}
    BY <1>d, <2>2, <2>3
  <2>7. head'[q] = head[q] /\ req'[q] = req[q] /\ info'[head[q]] = info[head[q]]
    BY <1>h, <1>i, <1>r, <2>1, <2>4
  <2>8. Members(q)' = Members(q) /\ Laid(q)'
    BY <2>1, <2>5, <2>6, <2>7, ChainKept
  <2> QED
    BY <2>1, <2>4, <2>7, <2>8
<1> HIDE DEF h
<1>1. TypeOK'
  <2>1. desc' \in [Desc -> [addr : Addr, more : BOOLEAN, next : Desc]]
    BY <1>d, <1>t, UnusedTyped, SMTT(30)
  <2>2. /\ free' \subseteq Desc /\ head' \in [Proc -> Desc \cup {NoDesc}]
        /\ req' \in [Proc -> Request \cup {NoReq}] /\ data' \in [Proc -> Value \cup {NoValue}]
    BY <1>u, <1>b, <1>d, <1>t
  <2> QED
    BY <1>u, <1>d, <1>i, <1>p, <2>1, <2>2 DEF IInv, TypeOK
<1>2. LockInv'
  BY <1>u, <1>q DEF IInv, LockInv
<1>3. CallInv'
  <2> SUFFICES ASSUME NEW q \in Proc
               PROVE  /\ req'[q] = NoReq <=> pc'[q] = "idle"
                      /\ head'[q] = NoDesc <=> pc'[q] \notin Formatted
                      /\ pc'[q] \in {"index", "notify"} => disk'[q] = 1
    BY DEF CallInv
  <2>1. /\ req[q] = NoReq <=> pc[q] = "idle"
        /\ head[q] = NoDesc <=> pc[q] \notin Formatted
        /\ pc[q] \in {"index", "notify"} => disk[q] = 1
    BY DEF IInv, CallInv
  <2> QED
    BY <1>u, <1>q, <1>r, <2>1
<1>4. DataInv'
  BY <1>q, <1>r DEF IInv, DataInv
<1>5. ChainInv'
  <2>1. \A q \in Proc : pc'[q] \in Formatted => Laid(q)'
    BY <1>h, <1>q
  <2> QED
    BY <2>1 DEF ChainInv, Laid
<1>6. ShareInv'
  <2>1. ASSUME NEW q \in Proc, NEW r \in Proc, q # r,
               pc'[q] \in Formatted, pc'[r] \in Formatted
        PROVE  Members(q)' \cap Members(r)' = {}
    BY <1>h, <1>q, <2>1 DEF IInv, ShareInv
  <2>2. ASSUME NEW d \in Desc \ free'
        PROVE  \E q \in Proc : pc'[q] \in Formatted /\ d \in Members(q)'
    <3>1. d \notin free /\ d \notin Members(p)
      BY <1>d, <2>2
    <3>2. PICK q \in Proc : pc[q] \in Formatted /\ d \in Members(q)
      BY <2>2, <3>1 DEF IInv, ShareInv
    <3> QED
      BY <1>h, <1>q, <3>1, <3>2
  <2> QED
    BY <2>1, <2>2 DEF ShareInv
\* The request of p is neither unserved nor untold.
<1>f. \A g \in Desc : (Unserved(g) => Unserved(g)') /\ (Untold(g) => Untold(g)')
  <2>1. ASSUME NEW g \in Desc, NEW q \in Proc, pc[q] \in Formatted, head[q] = g, q # p
        PROVE  /\ pc'[q] \in Formatted /\ head'[q] = g /\ info'[g].status = info[g].status
               /\ disk'[q] = disk[q]
    BY <1>q, <1>r, <1>i, <1>u, <2>1
  <2>2. \A g \in Desc : Unserved(g) => Unserved(g)'
    BY <1>a, <2>1, SMTT(30) DEF Unserved, h
  <2>3. \A g \in Desc : Untold(g) => Untold(g)'
    BY <1>u, <2>1, SMTT(30) DEF Untold
  <2> QED
    BY <2>2, <2>3
<1>7. OfferInv'
  BY <1>u, <1>t, <1>f, SMTT(30) DEF IInv, OfferInv, Ring
<1>8. UsedInv' /\ UsedRing'
  <2>1. UsedInv'
    BY <1>u, <1>t, <1>f, SMTT(30) DEF IInv, UsedInv, Ring
  <2> QED
    BY <1>u, <2>1 DEF IInv, UsedRing
<1>9. DoneInv'
  <2> SUFFICES ASSUME NEW q \in Proc, pc'[q] \in Formatted, disk[q] = 0
               PROVE  info'[head'[q]].status = 0
    BY <1>u DEF DoneInv
  <2>1. head'[q] = head[q] /\ head[q] \in Desc /\ pc[q] \in Formatted
    BY <1>h, <1>q
  <2> QED
    BY <1>i, <2>1, SMTT(30) DEF IInv, DoneInv
<1>10. AvailRing'
  BY <1>u, <1>q, AvailKept DEF IInv
<1>11. NoPanic' /\ NoLostCompletion'
  BY <1>u, <1>d DEF IInv, NoPanic, NoLostCompletion
<1>12. NoLostWakeup'
  BY <1>u, <1>p, <1>q DEF IInv, NoLostWakeup
<1>13. NoLostNotify'
  BY <1>u, <1>q DEF IInv, NoLostNotify
<1> QED
  BY <1>1, <1>2, <1>3, <1>4, <1>5, <1>6, <1>7, <1>8, <1>9, <1>10, <1>11, <1>12, <1>13 DEF IInv

-----------------------------------------------------------------------------
(* The invariant and what it says of the state.                            *)

\* Every step preserves the invariant.
LEMMA Inductive == IInv /\ [Next]_vars => IInv'
<1> SUFFICES ASSUME IInv, [Next]_vars PROVE IInv'
  OBVIOUS
<1>1. ASSUME NEW p \in Proc, ProcStep(p) PROVE IInv'
  BY <1>1, Taken, Failed, Published, NotifiedOnce, Again, Done DEF ProcStep
<1>2. ASSUME NEW p \in Proc, Call(p) PROVE IInv'
  BY <1>2, Called DEF Call
<1>3. ASSUME NEW p \in Proc, kkill(p) PROVE IInv'
  BY <1>3, Killed
<1>4. ASSUME IntrStep PROVE IInv'
  BY <1>4, Started, Entry, Ended, Released DEF IntrStep
<1>5. ASSUME DeviceStep PROVE IInv'
  BY <1>5, Take, Idle, Serve DEF DeviceStep
<1>6. ASSUME UNCHANGED vars PROVE IInv'
  <2>u. /\ desc' = desc /\ free' = free /\ info' = info /\ avail' = avail /\ used' = used
      /\ used_idx' = used_idx /\ lock' = lock /\ disk' = disk /\ data' = data /\ req' = req
      /\ pc' = pc /\ head' = head /\ intr' = intr /\ store' = store /\ seen' = seen
      /\ taken' = taken /\ kick' = kick /\ irq' = irq /\ panicked' = panicked
    BY <1>6 DEF vars, queue, proc, device
  <2>1. TypeOK' /\ LockInv' /\ NoPanic'
    BY <2>u DEF IInv, TypeOK, LockInv, NoPanic
  <2>2. Steady
    BY <2>u DEF Steady
  <2>3. CallInv' /\ DataInv' /\ ChainInv' /\ ShareInv' /\ DoneInv'
    BY <2>u, <2>2, RequestsKept
  <2>4. OfferInv'
    BY <2>u, <2>2, OffersKept DEF IInv
  <2>5. UsedInv' /\ UsedRing' /\ AvailRing'
    BY <2>u, <2>2, UsedKept, AvailKept DEF IInv
  <2>6. NoLostCompletion' /\ NoLostWakeup' /\ NoLostNotify'
    BY <2>u DEF IInv, NoLostCompletion, NoLostWakeup, NoLostNotify
  <2> QED
    BY <2>1, <2>3, <2>4, <2>5, <2>6 DEF IInv
<1> QED
  BY <1>1, <1>2, <1>3, <1>4, <1>5, <1>6 DEF Next

\* The inductive invariant holds throughout.
THEOREM InvariantHolds == Spec => []IInv
<1>1. Init => IInv
  BY Initially
<1>2. IInv /\ [Next]_vars => IInv'
  BY Inductive
<1> QED
  BY <1>1, <1>2, PTL DEF Spec

\* The rings' and the device's state keeps its type.
THEOREM TypeCorrect == Spec => []TypeOK
<1>1. IInv => TypeOK
  BY DEF IInv
<1> QED
  BY <1>1, InvariantHolds, PTL

\* free_desc never meets a free descriptor, and virtio_disk_intr never a used
\* entry that is no completed request, for any number of processes and
\* descriptors and wherever the ring indices wrap around.
THEOREM NeverPanics == Spec => []NoPanic
<1>1. IInv => NoPanic
  BY DEF IInv
<1> QED
  BY <1>1, InvariantHolds, PTL

\* A used entry that virtio_disk_intr has not read is announced by an interrupt
\* or is about to be read, for any number of processes and descriptors.
THEOREM CompletionSeen == Spec => []NoLostCompletion
<1>1. IInv => NoLostCompletion
  BY DEF IInv
<1> QED
  BY <1>1, InvariantHolds, PTL

\* virtio_disk_rw sleeps neither for descriptors that are free nor for a request
\* that virtio_disk_intr has seen completed.
THEOREM WakeupKept == Spec => []NoLostWakeup
<1>1. IInv => NoLostWakeup
  BY DEF IInv
<1> QED
  BY <1>1, InvariantHolds, PTL

\* The device has been notified, or is about to be, of every request in the
\* available ring that it has not taken.
THEOREM NotifyKept == Spec => []NoLostNotify
<1>1. IInv => NoLostNotify
  BY DEF IInv
<1> QED
  BY <1>1, InvariantHolds, PTL

\* The steps of a process that neither take descriptors nor give them back.
LEMMA ProcSteady ==
  ASSUME IInv, NEW p \in Proc,
         alloc3_fail(p) \/ put_index(p) \/ notify(p) \/ wait_again(p) \/ kkill(p)
  PROVE  Steady /\ head' = head /\ info' = info
<1>t. pc \in [Proc -> PC]
  BY DEF IInv, TypeOK
<1>1. info' = info /\ head' = head
  BY DEF alloc3_fail, put_index, notify, wait_again, kkill, queue
<1>2. \/ pc[p] \in {"call", "woken_free"} /\ (\/ pc' = WakeFree(p, "asleep_free")
                                              \/ pc' = [pc EXCEPT ![p] = "asleep_free"])
      \/ pc[p] = "index" /\ pc' = [pc EXCEPT ![p] = "notify"]
      \/ pc[p] = "notify" /\ pc' = [pc EXCEPT ![p] = "asleep_buf"]
      \/ pc[p] = "woken_buf" /\ pc' = [pc EXCEPT ![p] = "asleep_buf"]
      \/ pc[p] = "asleep_free" /\ pc' = [pc EXCEPT ![p] = "woken_free"]
      \/ pc[p] = "asleep_buf" /\ pc' = [pc EXCEPT ![p] = "woken_buf"]
  BY DEF alloc3_fail, put_index, notify, wait_again, kkill, Goto
<1>3. Steady
  <2>1. CASE pc[p] \in {"call", "woken_free"} /\ pc' = WakeFree(p, "asleep_free")
    BY <1>t, <2>1, Names, MovedWaking DEF Steady
  <2>2. ASSUME NEW l \in PC, pc' = [pc EXCEPT ![p] = l],
               l \in Formatted <=> pc[p] \in Formatted, l # "idle", pc[p] # "idle"
        PROVE  Steady
    BY <1>t, <2>2, Moved DEF Steady
  <2> QED
    BY <1>2, <2>1, <2>2, Names
<1> QED
  BY <1>1, <1>3

-----------------------------------------------------------------------------
(* No request is lost, and nobody waits for nothing.                       *)

\* A step after which the requests that are waited for are still tracked.
LEMMA StillTracked ==
  ASSUME NoRequestLost,
         \A q \in Proc : pc'[q] \in Formatted /\ disk'[q] = 1 =>
           /\ pc[q] \in Formatted /\ disk[q] = 1 /\ head'[q] = head[q]
           /\ \A h : h = head[q] /\ Tracked(h) => Tracked(h)'
  PROVE  NoRequestLost'
<1> SUFFICES ASSUME NEW q \in Proc, pc'[q] \in Formatted, disk'[q] = 1
             PROVE  \/ head'[q] \in taken'
                    \/ \E i \in Desc : avail'.ring[i] = head'[q] \/ used'.ring[i] = head'[q]
  BY DEF NoRequestLost, Tracked
<1>1. /\ pc[q] \in Formatted /\ disk[q] = 1 /\ head'[q] = head[q]
      /\ \A h : h = head[q] /\ Tracked(h) => Tracked(h)'
  OBVIOUS
<1>2. Tracked(head[q])
  BY <1>1 DEF NoRequestLost
<1>3. ASSUME NEW h, h = head[q] PROVE Tracked(h)'
  BY <1>1, <1>2, <1>3
<1> QED
  BY <1>1, <1>3 DEF Tracked

\* A step that leaves the rings and the requests alone.
LEMMA RingsKept ==
  ASSUME NoRequestLost, taken' = taken, avail'.ring = avail.ring, used' = used,
         disk' = disk, head' = head,
         \A q \in Proc : pc'[q] \in Formatted => pc[q] \in Formatted
  PROVE  NoRequestLost'
BY DEF NoRequestLost, Tracked

\* alloc3_desc enters its request in the available ring, over no other.
LEMMA TakenTracked ==
  ASSUME IInv, NoRequestLost, NEW p \in Proc, alloc3_desc(p)
  PROVE  NoRequestLost'
<1>t. /\ avail = [ring |-> avail.ring, idx |-> avail.idx] /\ avail.ring \in Ring
      /\ avail.idx \in 0 .. MODULUS - 1 /\ free \subseteq Desc
      /\ disk \in [Proc -> {0, 1}] /\ pc \in [Proc -> PC]
      /\ head \in [Proc -> Desc \cup {NoDesc}]
  BY DEF IInv, TypeOK, Ring
<1>w. PICK a \in free : /\ head' = [head EXCEPT ![p] = a]
                        /\ avail' = [avail EXCEPT !.ring[avail.idx % NUM] = a]
  BY DEF alloc3_desc
<1>u. /\ pc' = [pc EXCEPT ![p] = "index"] /\ disk' = [disk EXCEPT ![p] = 1]
      /\ used' = used /\ taken' = taken
  BY DEF alloc3_desc, Goto, device
<1>e. avail.ring[avail.idx % NUM] = NoDesc
  BY Taken
<1> DEFINE k == avail.idx % NUM
<1>k. k \in Desc
  BY <1>t, Wraps
<1> HIDE DEF k
<1>r. avail'.ring[k] = a /\ \A j \in Desc : avail.ring[j] # NoDesc => avail'.ring[j] = avail.ring[j]
  <2>1. avail' = [ring |-> [avail.ring EXCEPT ![k] = a], idx |-> avail.idx]
    BY <1>t, <1>w DEF k
  <2> QED
    BY <1>t, <1>e, <1>k, <2>1 DEF Ring, k
<1> SUFFICES ASSUME NEW q \in Proc, pc'[q] \in Formatted, disk'[q] = 1
             PROVE  \/ head'[q] \in taken'
                    \/ \E i \in Desc : avail'.ring[i] = head'[q] \/ used'.ring[i] = head'[q]
  BY DEF NoRequestLost, Tracked
<1>1. CASE q = p
  BY <1>1, <1>t, <1>w, <1>k, <1>r
<1>2. CASE q # p
  <2>1. pc[q] \in Formatted /\ disk[q] = 1 /\ head'[q] = head[q]
    BY <1>2, <1>t, <1>w, <1>u
  <2>2. head[q] \in Desc /\ head[q] # NoDesc
    BY <2>1, ChainTyped, Markers
  <2>3. \/ head[q] \in taken
        \/ \E i \in Desc : avail.ring[i] = head[q] \/ used.ring[i] = head[q]
    BY <2>1 DEF NoRequestLost, Tracked
  <2> QED
    BY <1>u, <1>r, <2>1, <2>2, <2>3
<1> QED
  BY <1>1, <1>2

\* A request leaves the used ring when the handler clears its b->disk.
LEMMA EntryTracked ==
  ASSUME IInv, NoRequestLost, intr_entry
  PROVE  NoRequestLost'
<1> DEFINE i == used_idx % NUM
           e == used.ring[i]
<1>u. /\ used_idx # used.idx
      /\ disk' = [p \in Proc |-> IF p = Completed(e) THEN 0 ELSE disk[p]]
      /\ used' = [used EXCEPT !.ring[i] = NoDesc]
      /\ avail' = avail /\ head' = head /\ taken' = taken
  BY DEF intr_entry, device
<1>t. /\ used_idx \in 0 .. MODULUS - 1 /\ used.idx \in 0 .. MODULUS - 1
      /\ used.ring \in Ring /\ used \in [ring : Ring, idx : 0 .. MODULUS - 1]
      /\ disk \in [Proc -> {0, 1}]
  BY DEF IInv, TypeOK, Ring
<1>s. \A q \in Proc : pc'[q] \in Formatted <=> pc[q] \in Formatted
  <2>1. PICK b : pc' = [q \in Proc |-> IF q = b /\ pc[q] = "asleep_buf"
                                        THEN "woken_buf" ELSE pc[q]]
    BY DEF intr_entry
  <2> QED
    BY <2>1, Names
<1>i. i \in Desc
  BY <1>t, Wraps
<1>e. e \in Desc /\ e # NoDesc
  <2> DEFINE n == (used.idx - used_idx) % MODULUS
  <2>1. n \in Nat \ {0} /\ Holds(used.ring, used_idx, n)
    BY <1>u, <1>t, Gaps, SMTT(30) DEF IInv, UsedRing
  <2> HIDE DEF n
  <2> QED
    BY <1>t, <2>1, GetEntry, Markers
<1>b. PICK b \in Proc : pc[b] \in Formatted /\ head[b] = e /\ info[e].status = 0
  BY <1>i, <1>e DEF IInv, UsedInv, Untold
<1>c. Completed(e) = b
  <2>1. info[head[b]].b = b
    BY <1>b DEF IInv, ChainInv
  <2> HIDE DEF e
  <2> QED
    BY <1>b, <1>e, <2>1 DEF Completed
<1>r. \A j \in Desc : used.ring[j] # e => used'.ring[j] = used.ring[j]
  <2> HIDE DEF i
  <2>1. used'.ring = [used.ring EXCEPT ![i] = NoDesc]
    BY <1>u, <1>t
  <2> QED
    BY <1>t, <2>1 DEF Ring
<1> HIDE DEF i, e
<1>1. ASSUME NEW q \in Proc, pc'[q] \in Formatted, disk'[q] = 1
      PROVE  /\ pc[q] \in Formatted /\ disk[q] = 1 /\ head'[q] = head[q]
             /\ \A h : h = head[q] /\ Tracked(h) => Tracked(h)'
  <2>1. q # b /\ disk[q] = 1 /\ pc[q] \in Formatted
    BY <1>u, <1>c, <1>s, <1>t, <1>1, SMTT(30)
  <2>2. head[q] # e
    <3>1. Members(q) \cap Members(b) = {}
      BY <1>b, <2>1 DEF IInv, ShareInv
    <3> QED
      BY <1>b, <3>1 DEF Members
  <2>3. ASSUME NEW h, h = head[q], Tracked(h) PROVE Tracked(h)'
    BY <1>u, <1>r, <2>2, <2>3 DEF Tracked
  <2> QED
    BY <1>u, <2>1, <2>3
<1> QED
  BY <1>1, StillTracked

\* The device moves a request from the available ring to those it serves.
LEMMA TakeTracked ==
  ASSUME IInv, NoRequestLost, dev_take
  PROVE  NoRequestLost'
<1> DEFINE i == seen % NUM
           t == avail.ring[i]
<1>u. /\ taken' = taken \cup {t} /\ avail' = [avail EXCEPT !.ring[i] = NoDesc]
      /\ used' = used /\ disk' = disk /\ pc' = pc /\ head' = head
  BY DEF dev_take, proc
<1>t. /\ avail.ring \in Ring /\ avail \in [ring : Ring, idx : 0 .. MODULUS - 1]
  BY DEF IInv, TypeOK, Ring
<1>r. \A j \in Desc : avail.ring[j] # t => avail'.ring[j] = avail.ring[j]
  <2> HIDE DEF i
  <2>1. avail'.ring = [avail.ring EXCEPT ![i] = NoDesc]
    BY <1>u, <1>t
  <2> QED
    BY <1>t, <2>1 DEF Ring
<1> HIDE DEF i, t
<1>1. ASSUME NEW h, Tracked(h) PROVE Tracked(h)'
  <2>1. CASE h = t
    BY <1>u, <2>1 DEF Tracked
  <2>2. CASE h # t
    BY <1>u, <1>r, <1>1, <2>2 DEF Tracked
  <2> QED
    BY <2>1, <2>2
<1> QED
  BY <1>u, <1>1, StillTracked

\* And from there to the used ring, over no other.
LEMMA ServeTracked ==
  ASSUME IInv, NoRequestLost, NEW h \in Desc, dev_serve(h)
  PROVE  NoRequestLost'
<1>u. /\ taken' = taken \ {h} /\ avail' = avail
      /\ used' = [ring |-> [used.ring EXCEPT ![used.idx % NUM] = h],
                  idx |-> (used.idx + 1) % MODULUS]
      /\ disk' = disk /\ pc' = pc /\ head' = head
  BY DEF dev_serve, proc
<1>t. used.ring \in Ring /\ used.idx \in 0 .. MODULUS - 1
  BY DEF IInv, TypeOK, Ring
<1> DEFINE k == used.idx % NUM
<1>e. k \in Desc /\ used.ring[k] = NoDesc
  BY <1>t, Wraps, Serve
<1>r. used'.ring = [used.ring EXCEPT ![k] = h]
  BY <1>u
<1> HIDE DEF k
<1>s. used'.ring[k] = h /\ \A j \in Desc : used.ring[j] # NoDesc => used'.ring[j] = used.ring[j]
  BY <1>t, <1>e, <1>r DEF Ring
<1>1. ASSUME NEW q \in Proc, pc'[q] \in Formatted, disk'[q] = 1
      PROVE  /\ pc[q] \in Formatted /\ disk[q] = 1 /\ head'[q] = head[q]
             /\ \A g : g = head[q] /\ Tracked(g) => Tracked(g)'
  <2>1. pc[q] \in Formatted /\ disk[q] = 1 /\ head'[q] = head[q]
    BY <1>u, <1>1
  <2>2. head[q] # NoDesc
    BY <2>1, ChainTyped, Markers
  <2>3. ASSUME NEW g, g = head[q], Tracked(g) PROVE Tracked(g)'
    <3>1. CASE g = h
      BY <1>e, <1>s, <3>1 DEF Tracked
    <3>2. CASE g # h
      BY <1>u, <1>s, <2>2, <2>3, <3>2 DEF Tracked
    <3> QED
      BY <3>1, <3>2
  <2> QED
    BY <2>1, <2>3
<1> QED
  BY <1>1, StillTracked

\* No step loses a request.
LEMMA NextTracked ==
  ASSUME IInv, NoRequestLost, [Next]_vars
  PROVE  NoRequestLost'
<1>t. /\ pc \in [Proc -> PC] /\ head \in [Proc -> Desc \cup {NoDesc}]
      /\ avail \in [ring : Ring, idx : 0 .. MODULUS - 1]
  BY DEF IInv, TypeOK, Ring
<1>1. ASSUME NEW p \in Proc, Call(p) PROVE NoRequestLost'
  <2>1. /\ pc' = [pc EXCEPT ![p] = "call"] /\ head' = head /\ disk' = disk
        /\ taken' = taken /\ avail' = avail /\ used' = used
    BY <1>1 DEF Call, virtio_disk_rw, Goto, device
  <2>2. \A q \in Proc : pc'[q] \in Formatted => pc[q] \in Formatted
    BY <1>t, <2>1, Names
  <2> QED
    BY <2>1, <2>2, RingsKept
<1>2. ASSUME NEW p \in Proc,
             alloc3_fail(p) \/ put_index(p) \/ notify(p) \/ wait_again(p) \/ kkill(p)
      PROVE  NoRequestLost'
  <2>1. Steady /\ head' = head
    BY <1>2, ProcSteady
  <2>2. /\ disk' = disk /\ taken' = taken /\ used' = used
        /\ avail' = avail \/ avail' = [avail EXCEPT !.idx = (@ + 1) % MODULUS]
    BY <1>2 DEF alloc3_fail, put_index, notify, wait_again, kkill, device
  <2>3. avail'.ring = avail.ring
    BY <1>t, <2>2
  <2> QED
    BY <2>1, <2>2, <2>3, RingsKept DEF Steady
<1>3. ASSUME NEW p \in Proc, wait_done(p) PROVE NoRequestLost'
  <2>1. /\ head' = [head EXCEPT ![p] = NoDesc] /\ pc' = WakeFree(p, "idle")
        /\ disk' = disk /\ taken' = taken /\ used' = used /\ avail' = avail
    BY <1>3 DEF wait_done, device
  <2>2. \A q \in Proc : pc'[q] \in Formatted =>
          q # p /\ pc[q] \in Formatted /\ head'[q] = head[q]
    BY <1>t, <2>1, Names, MovedWaking, SMTT(30)
  <2>3. ASSUME NEW h, Tracked(h) PROVE Tracked(h)'
    BY <2>1, <2>3 DEF Tracked
  <2> QED
    BY <2>1, <2>2, <2>3, StillTracked
<1>4. CASE intr_start \/ intr_end \/ intr_release \/ dev_idle \/ UNCHANGED vars
  <2>1. /\ head' = head /\ disk' = disk /\ pc' = pc /\ taken' = taken
        /\ avail' = avail /\ used' = used
    BY <1>4 DEF intr_start, intr_end, intr_release, dev_idle, vars, proc, device
  <2> QED
    BY <2>1, RingsKept
<1>5. ASSUME NEW p \in Proc, alloc3_desc(p) PROVE NoRequestLost'
  BY <1>5, TakenTracked
<1>6. CASE intr_entry
  BY <1>6, EntryTracked
<1>7. CASE dev_take
  BY <1>7, TakeTracked
<1>8. ASSUME NEW h \in Desc, dev_serve(h) PROVE NoRequestLost'
  BY <1>8, ServeTracked
<1> QED
  BY <1>1, <1>2, <1>3, <1>4, <1>5, <1>6, <1>7, <1>8
  DEF Next, ProcStep, IntrStep, DeviceStep

\* From virtio_disk_rw through the device to virtio_disk_intr no request is
\* lost, for any number of processes and descriptors.
THEOREM RequestsTracked == Spec => []NoRequestLost
<1>1. Init => NoRequestLost
  BY Names DEF Init, NoRequestLost
<1>2. IInv /\ NoRequestLost /\ [Next]_vars => NoRequestLost'
  BY NextTracked
<1> QED
  BY <1>1, <1>2, InvariantHolds, PTL DEF Spec

\* An entry between the device's index and the published one holds a request.
LEMMA PublishedEntry ==
  ASSUME IInv, NEW i \in 0 .. ((avail.idx - seen) % MODULUS) - 1
  PROVE  (seen + i) % NUM \in Desc /\ avail.ring[(seen + i) % NUM] # NoDesc
<1> DEFINE n == (avail.idx - seen) % MODULUS
           j == (seen + i) % NUM
<1>1. seen \in 0 .. MODULUS - 1 /\ avail.idx \in 0 .. MODULUS - 1
  BY DEF IInv, TypeOK
<1>2. n \in 0 .. MODULUS - 1 /\ Filled \in {0, 1}
  BY <1>1, Gaps DEF Filled
<1>3. Holds(avail.ring, seen, n + Filled)
  BY DEF IInv, AvailRing
<1>4. NUM \in Nat \ {0} /\ MODULUS \in Nat \ {0} /\ seen \in Int
  BY <1>1, VirtioAssumption, SMTT(30)
<1>5. i \in 0 .. n - 1
  OBVIOUS
<1> HIDE DEF n
<1>6. n \in Nat /\ i \in Int /\ i < n /\ i < n + Filled /\ n + Filled <= NUM
  BY <1>2, <1>3, <1>4, <1>5, SMTT(30) DEF Holds
<1>7. i \in 0 .. NUM - 1
  BY <1>2, <1>4, <1>5, <1>6, SMTT(30)
<1>8. j \in Desc
  <2> DEFINE x == seen + i
  <2>1. x \in Int
    BY <1>4, <1>6, SMTT(30)
  <2> HIDE DEF x
  <2>2. x % NUM \in 0 .. NUM - 1
    BY <1>4, <2>1, SMTT(30)
  <2> QED
    BY <2>2 DEF x, Desc
<1>9. (j - seen) % NUM = i
  BY <1>4, <1>7, After
<1> HIDE DEF j
<1>10. avail.ring[j] # NoDesc
  BY <1>3, <1>6, <1>8, <1>9 DEF Holds
<1> QED
  BY <1>8, <1>10 DEF j

\* What the device may look at is the head of a complete chain whose process
\* waits for it.
LEMMA OfferedWhole ==
  ASSUME IInv, NEW h \in Offered
  PROVE  h \in Desc /\ Wellformed(h) /\ \E p \in Proc : head[p] = h /\ disk[p] = 1
<1>1. Unserved(h)
  <2>1. CASE h \in taken
    BY <2>1 DEF IInv, OfferInv
  <2>2. CASE h \notin taken
    <3>1. PICK i \in 0 .. ((avail.idx - seen) % MODULUS) - 1 :
            h = avail.ring[(seen + i) % NUM]
      BY <2>2 DEF Offered
    <3>2. (seen + i) % NUM \in Desc /\ avail.ring[(seen + i) % NUM] # NoDesc
      BY <3>1, PublishedEntry
    <3> QED
      BY <3>1, <3>2 DEF IInv, OfferInv
  <2> QED
    BY <2>1, <2>2
<1>2. PICK p \in Proc : pc[p] \in Formatted /\ head[p] = h /\ info[h].status = 255
  BY <1>1 DEF Unserved
<1>3. h \in Desc /\ req[p] \in Request
  BY <1>2, ChainTyped
<1>4. disk[p] = 1
  <2>1. disk \in [Proc -> {0, 1}]
    BY DEF IInv, TypeOK
  <2>2. disk[p] # 0
    BY <1>2, SMTT(30) DEF IInv, DoneInv
  <2> QED
    BY <2>1, <2>2
<1>5. Laid(p)
  BY <1>2, ChainsLaid DEF IInv
<1>6. Wellformed(h)
  <2>1. /\ desc[h].more /\ desc[h].addr = <<"ops", req[p]>>
        /\ desc[desc[h].next].more /\ desc[desc[h].next].addr = <<"data", p>>
        /\ ~ desc[desc[desc[h].next].next].more
        /\ desc[desc[desc[h].next].next].addr = <<"status", h>>
    BY <1>2, <1>5 DEF Laid, Second, Third
  <2>2. <<"ops", req[p]>> \in {"ops"} \X Request /\ <<"data", p>> \in {"data"} \X Proc
    BY <1>3
  <2> QED
    BY <2>1, <2>2 DEF Wellformed
<1> QED
  BY <1>2, <1>3, <1>4, <1>6

\* Whatever the device may look at is a complete chain whose process waits for
\* it, for any number of processes and descriptors: no entry of the available
\* ring is overwritten before the device takes it, no chain is given back
\* before it is served, and no request is forgotten before its process is told.
THEOREM OfferedKept == Spec => []OfferedIntact
<1>1. IInv /\ NoRequestLost => OfferedIntact
  BY OfferedWhole DEF OfferedIntact
<1> QED
  BY <1>1, InvariantHolds, RequestsTracked, PTL

\* With vdisk_lock free and nobody about to take it, a request that is waited
\* for gives the handler or the device something to do.
LEMMA PendingMoves ==
  ASSUME IInv, NoRequestLost, lock = NoProc, NEW p \in Proc, pc[p] = "asleep_buf"
  PROVE  IntrReady \/ DeviceReady
<1>1. \A q \in Proc : pc[q] \notin {"index", "notify"}
  BY Markers DEF IInv, LockInv
<1>2. intr = "idle"
  BY Markers DEF IInv, LockInv
<1>3. head[p] \in Desc /\ disk[p] = 1
  BY ChainTyped, Names DEF IInv, NoLostWakeup
<1>t. /\ avail.ring \in Ring /\ used.ring \in Ring
      /\ avail.idx \in 0 .. MODULUS - 1 /\ seen \in 0 .. MODULUS - 1
      /\ used.idx \in 0 .. MODULUS - 1 /\ used_idx \in 0 .. MODULUS - 1
  BY DEF IInv, TypeOK, Ring
<1>4. CASE head[p] \in taken
  <2>1. Wellformed(head[p])
    BY <1>4, OfferedWhole DEF Offered
  <2> QED
    BY <1>4, <2>1 DEF DeviceReady
<1>5. ASSUME NEW i \in Desc, avail.ring[i] = head[p] PROVE DeviceReady
  <2> DEFINE n == (avail.idx - seen) % MODULUS
  <2>1. Filled = 0
    BY <1>1 DEF Filled
  <2>2. n \in Nat
    BY <1>t, Gaps, VirtioAssumption, SMTT(30)
  <2>3. Holds(avail.ring, seen, n)
    <3>1. Holds(avail.ring, seen, n + Filled)
      BY DEF IInv, AvailRing
    <3> HIDE DEF n
    <3> QED
      BY <2>1, <2>2, <3>1, SMTT(30)
  <2>4. n # 0
    <3>1. (i - seen) % NUM < n
      <4> HIDE DEF n
      <4> QED
        BY <1>3, <1>5, <2>3, Markers DEF Holds
    <3>2. (i - seen) % NUM \in 0 .. NUM - 1
      <4> DEFINE x == i - seen
      <4>1. x \in Int /\ NUM \in Nat \ {0}
        BY <1>t, VirtioAssumption, SMTT(30) DEF Desc
      <4> HIDE DEF x
      <4>2. x % NUM \in 0 .. NUM - 1
        BY <4>1, Division
      <4> QED
        BY <4>2 DEF x
    <3> HIDE DEF n
    <3> QED
      BY <2>2, <3>1, <3>2, SMTT(30)
  <2>5. seen # avail.idx
    <3>1. ASSUME seen = avail.idx PROVE n = 0
      BY <1>t, <3>1, Gaps
    <3> QED
      BY <2>4, <3>1
  <2>6. kick = 1
    BY <1>1, <2>5 DEF IInv, NoLostNotify
  <2> HIDE DEF n
  <2>7. avail.ring[seen % NUM] \in Desc
    BY <1>t, <2>2, <2>3, <2>4, GetEntry
  <2> QED
    BY <2>5, <2>6, <2>7 DEF DeviceReady
<1>6. ASSUME NEW i \in Desc, used.ring[i] = head[p] PROVE IntrReady
  <2>1. used_idx # used.idx
    <3> DEFINE n == (used.idx - used_idx) % MODULUS
               x == i - used_idx
    <3>1. Holds(used.ring, used_idx, n)
      BY DEF IInv, UsedRing
    <3>2. ASSUME used_idx = used.idx PROVE n = 0
      BY <1>t, <3>2, Gaps
    <3>3. x \in Int /\ NUM \in Nat \ {0}
      BY <1>t, VirtioAssumption, SMTT(30) DEF Desc
    <3> HIDE DEF n
    <3>4. x % NUM < n
      BY <1>3, <1>6, <3>1, Markers DEF Holds
    <3> HIDE DEF x
    <3>5. x % NUM \in 0 .. NUM - 1
      BY <3>3, Division
    <3> QED
      BY <3>2, <3>4, <3>5, SMTT(30)
  <2> QED
    BY <1>2, <2>1 DEF IInv, NoLostCompletion, TypeOK, IntrReady
<1> QED
  BY <1>3, <1>4, <1>5, <1>6, Names DEF NoRequestLost, Tracked

\* Whoever sleeps for descriptors sleeps because requests hold them.
LEMMA DescriptorsHeld ==
  ASSUME IInv, NEW p \in Proc, pc[p] = "asleep_free"
  PROVE  \E q \in Proc : pc[q] \in Formatted
<1>1. Cardinality(free) < 3
  BY DEF IInv, NoLostWakeup
<1>2. free # Desc
  <2>1. Cardinality(Desc) = NUM /\ NUM >= 3
    BY FS_Interval, VirtioAssumption, SMTT(30) DEF Desc
  <2> QED
    BY <1>1, <2>1, VirtioAssumption, SMTT(30)
<1>3. free \subseteq Desc
  BY DEF IInv, TypeOK
<1> QED
  BY <1>2, <1>3 DEF IInv, ShareInv

\* Processes, virtio_disk_intr and the device never all wait for each other,
\* for any number of processes and descriptors: while a call of virtio_disk_rw
\* is under way, one of them can go on.
THEOREM SomebodyMoves == Spec => []NeverStuck
<1>1. ASSUME IInv, NoRequestLost PROVE NeverStuck
  <2> SUFFICES ASSUME NEW p \in Proc, pc[p] # "idle",
                      \A q \in Proc : ~ ProcReady(q), ~ IntrReady
               PROVE  DeviceReady
    BY <1>1 DEF IInv, NoPanic, Running, NeverStuck
  <2>1. lock \in Proc \cup {NoProc, Intr} /\ pc \in [Proc -> PC]
        /\ intr \in {"idle", "loop", "end"}
    BY <1>1 DEF IInv, TypeOK
  <2>2. lock \notin Proc
    BY <1>1 DEF IInv, LockInv, ProcReady
  <2>3. lock # Intr
    BY <1>1, <2>1 DEF IInv, LockInv, IntrReady
  <2>4. lock = NoProc
    BY <2>1, <2>2, <2>3
  <2>5. \A q \in Proc : pc[q] \in {"idle", "asleep_free", "asleep_buf"}
    <3>1. \A q \in Proc : pc[q] \notin {"index", "notify"}
      BY <1>1, <2>2 DEF IInv, LockInv
    <3> QED
      BY <2>1, <2>4, <3>1 DEF PC, ProcReady
  <2>6. PICK q \in Proc : pc[q] = "asleep_buf"
    <3>1. CASE pc[p] = "asleep_buf"
      BY <3>1
    <3>2. CASE pc[p] = "asleep_free"
      BY <1>1, <2>5, <3>2, DescriptorsHeld, Names
    <3> QED
      BY <2>5, <3>1, <3>2
  <2> QED
    BY <1>1, <2>4, <2>6, PendingMoves
<1>2. IInv /\ NoRequestLost => NeverStuck
  BY <1>1
<1> QED
  BY <1>2, InvariantHolds, RequestsTracked, PTL

\* What free_chain goes through is the chain of its request.
LEMMA ChainMembers ==
  ASSUME IInv, NEW p \in Proc, pc[p] \in Formatted
  PROVE  free_chain(head[p]) = Members(p)
<1>1. Laid(p)
  BY ChainsLaid DEF IInv
<1> QED
  BY <1>1 DEF Laid, free_chain, Members, Second, Third

\* alloc3_desc and free_chain neither leak a descriptor nor share one, for any
\* number of processes and descriptors.
THEOREM NoneLeaked == Spec => []DescriptorsOwned
<1>1. IInv => DescriptorsOwned
  <2> SUFFICES ASSUME IInv, NEW d \in Desc
               PROVE  Cardinality({p \in Proc : head[p] # NoDesc /\ d \in free_chain(head[p])})
                        = IF d \in free THEN 0 ELSE 1
    BY DEF DescriptorsOwned
  <2> DEFINE users == {p \in Proc : head[p] # NoDesc /\ d \in free_chain(head[p])}
  <2>1. \A p \in Proc : p \in users <=> pc[p] \in Formatted /\ d \in Members(p)
    BY ChainMembers DEF IInv, CallInv
  <2>2. CASE d \in free
    <3>1. users = {}
      BY <2>1, <2>2 DEF IInv, ChainInv
    <3> QED
      BY <2>2, <3>1, FS_EmptySet
  <2>3. CASE d \notin free
    <3>1. PICK p \in Proc : pc[p] \in Formatted /\ d \in Members(p)
      BY <2>3 DEF IInv, ShareInv
    <3>2. \A q \in Proc : q # p => q \notin users
      BY <2>1, <3>1 DEF IInv, ShareInv
    <3>3. users = {p}
      BY <2>1, <3>1, <3>2
    <3>4. Cardinality({p}) = 1
      BY FS_Singleton
    <3> QED
      BY <2>3, <3>3, <3>4
  <2> QED
    BY <2>2, <2>3
<1> QED
  BY <1>1, InvariantHolds, PTL

\* Every request's chain stays as virtio_disk_rw filled it in until its own
\* call gives it back, and no two requests have a descriptor in common.
THEOREM ChainsPrivate == Spec => [](ChainInv /\ ShareInv)
<1>1. IInv => ChainInv /\ ShareInv
  BY DEF IInv
<1> QED
  BY <1>1, InvariantHolds, PTL

-----------------------------------------------------------------------------
(* The driver implements the disk service.                                 *)

\* A request and the process it is of stay as they are.
LEMMA PhaseSame ==
  ASSUME NEW q \in Proc, pc'[q] \in Formatted <=> pc[q] \in Formatted,
         pc'[q] = "idle" <=> pc[q] = "idle",
         pc[q] \in Formatted => info'[head'[q]].status = info[head[q]].status
  PROVE  Phase(q)' = Phase(q)
BY DEF Phase

\* A step that moves no request on is a stuttering step of the service.
LEMMA PhaseKept ==
  ASSUME store' = store, data' = data, req' = req, \A q \in Proc : Phase(q)' = Phase(q)
  PROVE  UNCHANGED Service!vars
<1>1. [q \in Proc |-> Phase(q)]' = [q \in Proc |-> Phase(q)]
  OBVIOUS
<1> QED
  BY <1>1 DEF Service!vars

\* So is one that changes neither requests, data nor control points that count.
LEMMA PhaseSteady ==
  ASSUME store' = store, data' = data, req' = req, info' = info, head' = head, Steady
  PROVE  UNCHANGED Service!vars
<1>1. \A q \in Proc : Phase(q)' = Phase(q)
  BY PhaseSame DEF Steady
<1> QED
  BY <1>1, PhaseKept

\* A step that moves the request of one process on.
LEMMA PhaseMoved ==
  ASSUME NEW p \in Proc, NEW from, NEW to, Phase(p) = from, Phase(p)' = to,
         \A q \in Proc \ {p} : Phase(q)' = Phase(q)
  PROVE  Service!Advance(p, from, to)
<1> DEFINE phase == [q \in Proc |-> Phase(q)]
<1>1. phase[p] = from /\ phase'[p] = to /\ phase' = [phase EXCEPT ![p] = to]
  OBVIOUS
<1> QED
  BY <1>1 DEF Service!Advance

\* Calling virtio_disk_rw submits a request to the service.
LEMMA Submitted ==
  ASSUME IInv, NEW p \in Proc, NEW r \in Request, NEW v \in Value \cup {NoValue},
         virtio_disk_rw(p, r, v)
  PROVE  Service!Submit(p)
<1>u. /\ pc[p] = "idle" /\ pc' = [pc EXCEPT ![p] = "call"] /\ info' = info /\ head' = head
      /\ req' = [req EXCEPT ![p] = r] /\ data' = [data EXCEPT ![p] = v] /\ store' = store
      /\ IF r.write THEN v \in Value ELSE v = NoValue
  BY DEF virtio_disk_rw, Goto, queue
<1>t. pc \in [Proc -> PC]
  BY DEF IInv, TypeOK
<1>p. pc'[p] = "call" /\ \A q \in Proc \ {p} : pc'[q] = pc[q]
  BY <1>u, <1>t, Names, Moved
<1>1. Phase(p) = "idle" /\ Phase(p)' = "pending"
  BY <1>u, <1>p, Names DEF Phase
<1>2. \A q \in Proc \ {p} : Phase(q)' = Phase(q)
  BY <1>u, <1>p DEF Phase
<1>3. Service!Advance(p, "idle", "pending")
  BY <1>1, <1>2, PhaseMoved
<1> QED
  BY <1>u, <1>3 DEF Service!Submit, Service!Request, Request

\* Taking and filling three descriptors leaves the request pending.
LEMMA TakenStutters ==
  ASSUME IInv, NEW p \in Proc, alloc3_desc(p)
  PROVE  UNCHANGED Service!vars
<1>u. /\ pc[p] \in {"call", "woken_free"} /\ pc' = [pc EXCEPT ![p] = "index"]
      /\ store' = store /\ data' = data /\ req' = req
  BY DEF alloc3_desc, Goto
<1>w. PICK a \in free : /\ head' = [head EXCEPT ![p] = a]
                        /\ info' = [info EXCEPT ![a] = [b |-> p, status |-> 255]]
  BY DEF alloc3_desc
<1>t. /\ pc \in [Proc -> PC] /\ head \in [Proc -> Desc \cup {NoDesc}] /\ free \subseteq Desc
      /\ info \in [Desc -> [b : Proc \cup {NoProc}, status : {0, 255}]]
  BY DEF IInv, TypeOK
<1>p. pc'[p] = "index" /\ \A q \in Proc \ {p} : pc'[q] = pc[q]
  BY <1>u, <1>t, Names, Moved
<1>r. /\ head'[p] = a /\ info'[a].status = 255
      /\ \A q \in Proc \ {p} : head'[q] = head[q]
      /\ \A d \in Desc \ free : info'[d] = info[d]
  BY <1>w, <1>t, SMTT(30)
<1>1. Phase(p) = "pending" /\ Phase(p)' = "pending"
  BY <1>u, <1>p, <1>r, Names, SMTT(30) DEF Phase
<1>2. ASSUME NEW q \in Proc \ {p} PROVE Phase(q)' = Phase(q)
  <2>1. ASSUME pc[q] \in Formatted PROVE head[q] \in Desc \ free
    BY <2>1, ChainTyped DEF IInv, ChainInv, Members
  <2> QED
    BY <1>p, <1>r, <2>1, PhaseSame, SMTT(30)
<1>3. \A q \in Proc : Phase(q)' = Phase(q)
  BY <1>1, <1>2
<1> QED
  BY <1>u, <1>3, PhaseKept

\* The device serving a chain performs the request of the process it belongs to.
LEMMA Performed ==
  ASSUME IInv, NEW h \in Desc, dev_serve(h)
  PROVE  \E p \in Proc : Service!Perform(p)
<1>a. PICK p \in Proc : pc[p] \in Formatted /\ head[p] = h /\ info[h].status = 255
  BY DEF dev_serve, IInv, OfferInv, Unserved
<1>b. desc[h].addr[2] = req[p] /\ desc[desc[h].next].addr[2] = p
  <2>1. desc[head[p]].addr = <<"ops", req[p]>> /\ desc[desc[head[p]].next].addr = <<"data", p>>
    BY <1>a DEF IInv, ChainInv, Second
  <2> QED
    BY <1>a, <2>1, SMTT(30)
<1>c. req' = req /\ pc' = pc /\ head' = head /\ info' = [info EXCEPT ![h].status = 0]
  BY DEF dev_serve, proc
<1>d. \/ /\ req[p].write /\ data' = data
         /\ store' = [store EXCEPT ![req[p].block] = data[p]]
      \/ /\ ~ req[p].write /\ store' = store
         /\ data' = [data EXCEPT ![p] = store[req[p].block]]
  BY <1>b DEF dev_serve
<1>i. info'[h].status = 0 /\ \A d \in Desc \ {h} : info'[d] = info[d]
  <2>1. info \in [Desc -> [b : Proc \cup {NoProc}, status : {0, 255}]]
    BY DEF IInv, TypeOK
  <2> QED
    BY <1>c, <2>1, SMTT(30)
<1>1. Phase(p) = "pending" /\ Phase(p)' = "done"
  BY <1>a, <1>c, <1>i, Names, SMTT(30) DEF Phase
<1>2. ASSUME NEW q \in Proc \ {p} PROVE Phase(q)' = Phase(q)
  <2>1. ASSUME pc[q] \in Formatted PROVE head[q] \in Desc \ {h}
    <3>1. Members(p) \cap Members(q) = {}
      BY <1>a, <1>2, <2>1 DEF IInv, ShareInv
    <3>2. h \in Members(p) /\ head[q] \in Members(q)
      BY <1>a DEF Members
    <3> QED
      BY <2>1, <3>1, <3>2, ChainTyped
  <2> QED
    BY <1>c, <1>i, <2>1, PhaseSame
<1>3. Service!Advance(p, "pending", "done")
  BY <1>1, <1>2, PhaseMoved
<1>4. Service!Perform(p)
  BY <1>c, <1>d, <1>3 DEF Service!Perform
<1> QED
  BY <1>4

\* virtio_disk_rw returns only from a request that was performed.
LEMMA Returned ==
  ASSUME IInv, NEW p \in Proc, wait_done(p)
  PROVE  Service!Return(p)
<1>u. /\ pc[p] = "woken_buf" /\ disk[p] = 0 /\ store' = store
      /\ info' = [info EXCEPT ![head[p]].b = NoProc]
      /\ head' = [head EXCEPT ![p] = NoDesc] /\ req' = [req EXCEPT ![p] = NoReq]
      /\ data' = [data EXCEPT ![p] = NoValue] /\ pc' = WakeFree(p, "idle")
  BY DEF wait_done, Finished
<1>t. /\ pc \in [Proc -> PC] /\ head \in [Proc -> Desc \cup {NoDesc}]
      /\ info \in [Desc -> [b : Proc \cup {NoProc}, status : {0, 255}]]
  BY DEF IInv, TypeOK
<1>p. /\ pc'[p] = "idle"
      /\ \A q \in Proc \ {p} : \/ pc'[q] = pc[q]
                               \/ pc[q] = "asleep_free" /\ pc'[q] = "woken_free"
  BY <1>u, <1>t, Names, MovedWaking
<1>i. /\ \A d \in Desc : info'[d].status = info[d].status
      /\ \A q \in Proc \ {p} : head'[q] = head[q]
  BY <1>u, <1>t, SMTT(30)
<1>1. Phase(p) = "done" /\ Phase(p)' = "idle"
  BY <1>u, <1>p, Names DEF Phase, IInv, DoneInv
<1>2. ASSUME NEW q \in Proc \ {p} PROVE Phase(q)' = Phase(q)
  <2>1. pc[q] \in Formatted => head[q] \in Desc
    BY ChainTyped
  <2>2. /\ pc'[q] \in Formatted <=> pc[q] \in Formatted
        /\ pc'[q] = "idle" <=> pc[q] = "idle"
    BY <1>p, Names
  <2> QED
    BY <1>i, <2>1, <2>2, PhaseSame
<1>3. Service!Advance(p, "done", "idle")
  BY <1>1, <1>2, PhaseMoved
<1> QED
  BY <1>u, <1>3 DEF Service!Return

\* To the service these steps are invisible.
LEMMA ProcStutters ==
  ASSUME IInv, NEW p \in Proc,
         alloc3_fail(p) \/ put_index(p) \/ notify(p) \/ wait_again(p) \/ kkill(p)
  PROVE  UNCHANGED Service!vars
<1>1. store' = store /\ data' = data /\ req' = req
  BY DEF alloc3_fail, put_index, notify, wait_again, kkill, queue
<1> QED
  BY <1>1, ProcSteady, PhaseSteady

\* And so are those of the handler, and the device's before it serves a chain.
LEMMA OthersStutter ==
  ASSUME IInv, IntrStep \/ dev_take \/ dev_idle \/ UNCHANGED vars
  PROVE  UNCHANGED Service!vars
<1>1. store' = store /\ data' = data /\ req' = req /\ info' = info /\ head' = head
  BY DEF IntrStep, intr_start, intr_entry, intr_end, intr_release, dev_take, dev_idle,
               vars, queue, proc
<1>2. Steady
  <2>1. CASE intr_entry
    <3>1. PICK b : pc' = [q \in Proc |-> IF q = b /\ pc[q] = "asleep_buf"
                                          THEN "woken_buf" ELSE pc[q]]
      BY <2>1 DEF intr_entry
    <3> QED
      BY <3>1, Names DEF Steady
  <2>2. CASE ~ intr_entry
    <3>1. pc' = pc
      BY <2>2 DEF IntrStep, intr_start, intr_end, intr_release, dev_take, dev_idle,
                         vars, proc
    <3> QED
      BY <3>1 DEF Steady
  <2> QED
    BY <2>1, <2>2
<1> QED
  BY <1>1, <1>2, PhaseSteady

\* Every step of the driver or the device is a step of the service or none.
LEMMA StepRefined == IInv /\ [Next]_vars => [Service!Next]_(Service!vars)
<1> SUFFICES ASSUME IInv, [Next]_vars
             PROVE  Service!Next \/ UNCHANGED Service!vars
  OBVIOUS
<1>1. ASSUME NEW p \in Proc, ProcStep(p) \/ kkill(p)
      PROVE  Service!Next \/ UNCHANGED Service!vars
  <2>1. CASE alloc3_desc(p)
    BY <2>1, TakenStutters
  <2>2. CASE wait_done(p)
    BY <2>2, Returned DEF Service!Next
  <2>3. CASE alloc3_fail(p) \/ put_index(p) \/ notify(p) \/ wait_again(p) \/ kkill(p)
    BY <2>3, ProcStutters
  <2> QED
    BY <1>1, <2>1, <2>2, <2>3 DEF ProcStep
<1>2. ASSUME NEW p \in Proc, Call(p) PROVE Service!Next
  BY <1>2, Submitted DEF Call, Service!Next
<1>3. ASSUME IntrStep \/ DeviceStep \/ UNCHANGED vars
      PROVE  Service!Next \/ UNCHANGED Service!vars
  <2>1. CASE \E h \in Desc : dev_serve(h)
    BY <2>1, Performed DEF Service!Next
  <2>2. CASE IntrStep \/ dev_take \/ dev_idle \/ UNCHANGED vars
    BY <2>2, OthersStutter
  <2> QED
    BY <1>3, <2>1, <2>2 DEF DeviceStep
<1> QED
  BY <1>1, <1>2, <1>3 DEF Next

\* The driver implements the disk service, for any number of processes, blocks
\* and descriptors: a call of virtio_disk_rw returns only when its own request
\* was carried out, once.
THEOREM Implements == Spec => Serves
<1>1. Init => Service!Init
  BY DEF Init, Service!Init, Phase
<1>2. IInv /\ [Next]_vars => [Service!Next]_(Service!vars)
  BY StepRefined
<1> QED
  BY <1>1, <1>2, InvariantHolds, PTL DEF Spec, Serves, Service!Spec
=============================================================================
