--------------------------- MODULE RedoLogProofs ---------------------------
(***************************************************************************)
(* Crashes and recovery preserve the inductive invariant of RedoLog too, so*)
(* it holds in every reachable state: no protocol panic of log.c is        *)
(* reachable and no unwritten buffer is recycled.  Then the room in the    *)
(* log: admission keeps its promise, and no panic at all is reachable when *)
(* the sizes fit.  Then the order of the writes, and that the log          *)
(* implements AtomicDisk, for any number of processes, blocks and sectors  *)
(* and any log size.                                                       *)
(***************************************************************************)
EXTENDS RedoLogSteps

USE LogAssumption

\* A step is left to Zenon unless it names SMT; each may take 30 seconds.
USE ZenonT(30)

-----------------------------------------------------------------------------
(* Crash and recovery.                                                     *)

\* A torn block is a block.
LEMMA TornType ==
  ASSUME NEW old \in Content, NEW new \in Content, NEW c \in Torn(old, new)
  PROVE  c \in Content
BY DEF Torn, Content

\* A crash leaves the header alone and disturbs at most one log slot, while
\* the header is empty, or one home block, which the header names.
LEMMA CrashDisk ==
  ASSUME IInv, Crash
  PROVE  /\ hdr' = hdr
         /\ \/ home' = home /\ slot' = slot
            \/ /\ home' = home /\ slot' \in [1 .. NLOG - 1 -> Content]
               /\ hdr = <<>>
            \/ \E b \in Block, c \in Content :
                 /\ home' = [home EXCEPT ![b] = c] /\ slot' = slot
                 /\ \E i \in 1 .. Len(hdr) : hdr[i] = b
<1> USE DEF IInv, TypeOK
<1>1. hdr' = hdr
  BY DEF Crash
<1>2. CASE UNCHANGED <<home, slot>>
  BY <1>1, <1>2
<1>3. ASSUME NEW i \in DOMAIN slot, SlotInFlight(i),
             NEW c \in Torn(slot[i], cache[lh[i]]),
             slot' = [slot EXCEPT ![i] = c], UNCHANGED home
      PROVE  slot' \in [1 .. NLOG - 1 -> Content] /\ hdr = <<>>
  <2>1. PICK p \in Proc : pc[p] = "write_log"
    BY <1>3 DEF SlotInFlight
  <2>2. boot = "up" /\ i = tail + 1
    BY <1>3 DEF SlotInFlight
  <2>3. lh[i] \in Block
    BY <2>1, <2>2, SMTT(30) DEF StageInv, DataTypeOK, ControlTypeOK
  <2>4. c \in Content
    BY <1>3, <2>3, TornType DEF DataTypeOK
  <2>5. \A q \in Proc : q # p => pc[q] \notin CommitPC
    BY <2>1, CommitterAlone DEF CommitPC
  <2>6. hdr = <<>>
    BY <2>1, <2>2, <2>5 DEF HeaderInv, CommitPC
  <2> QED
    BY <1>3, <2>4, <2>6 DEF DataTypeOK
<1>4. ASSUME NEW b \in Block, HomeInFlight(b),
             NEW c \in Torn(home[b], slot[tail + 1]),
             home' = [home EXCEPT ![b] = c], UNCHANGED slot
      PROVE  c \in Content /\ \E i \in 1 .. Len(hdr) : hdr[i] = b
  <2>1. tail + 1 \in 1 .. Len(lh) /\ lh[tail + 1] = b
    BY <1>4, SMTT(30) DEF HomeInFlight, ControlTypeOK
  <2>2. hdr = lh
    BY <1>4 DEF HomeInFlight, HeaderInv
  <2>3. tail + 1 \in 1 .. NLOG - 1
    BY <2>1, SMTT(30) DEF HeaderInv
  <2>4. c \in Content
    BY <1>4, <2>3, TornType DEF DataTypeOK
  <2> QED
    BY <2>1, <2>2, <2>4
<1> QED
  BY <1>1, <1>2, <1>3, <1>4 DEF Crash

\* A crash preserves the invariant.
LEMMA CrashStep ==
  ASSUME IInv, Crash
  PROVE  IInv'
<1> USE DEF IInv, TypeOK
<1>1. DataTypeOK'
  <2>1. home' \in [Block -> Content] /\ slot' \in [1 .. NLOG - 1 -> Content]
    BY CrashDisk DEF DataTypeOK
  <2> QED
    BY <2>1, SMTT(30) DEF DataTypeOK, Crash, Restart
<1>2. ControlTypeOK'
  BY Names DEF ControlTypeOK, Crash, Restart
<1>3. Active' = {}
  BY DEF Active, Crash, Restart
<1>4. OpInv'
  BY <1>3, FS_EmptySet DEF OpInv, Crash, Restart
<1>5. CommitInv'
  BY SMTT(30) DEF CommitInv, CommitPC, Crash, Restart
<1>6. HeaderInv'
  <2>1. hdr' = hdr /\ lh' = <<>> /\ boot' = "read_head"
    BY DEF Crash, Restart
  <2> QED
    BY <2>1, SMTT(30) DEF HeaderInv, Distinct
<1>7. StageInv' /\ PinInv' /\ RecyclableIsClean'
  BY DEF StageInv, PinInv, RecyclableIsClean, Crash, Restart
<1>8. RecoveryInv' /\ NoProtocolPanic'
  BY DEF RecoveryInv, NoProtocolPanic, Crash, Restart
<1> QED
  BY <1>1, <1>2, <1>4, <1>5, <1>6, <1>7, <1>8

\* read_head of an accepted header preserves the invariant.
LEMMA ReadHeadStep ==
  ASSUME IInv, boot = "read_head", read_head_ok
  PROVE  IInv'
<1> USE DEF IInv, TypeOK, read_head_ok,
            diskVars, memVars, opVars
<1>1. DataTypeOK'
  BY DEF DataTypeOK
<1>2. ControlTypeOK'
  BY Names DEF ControlTypeOK
<1>3. Active' = Active
  BY DEF Active
<1>4. OpInv' /\ CommitInv'
  BY <1>3 DEF OpInv, CommitInv, ControlTypeOK
<1>5. boot' \in {"install", "clear_head"}
  OBVIOUS
<1>6. HeaderInv'
  BY <1>5 DEF HeaderInv
<1>7. StageInv' /\ PinInv' /\ RecyclableIsClean'
  BY <1>5 DEF StageInv, PinInv, RecyclableIsClean
<1>8. RecoveryInv' /\ NoProtocolPanic'
  <2>1. /\ tail' = 0 /\ lh' = hdr /\ Len(hdr) \in Nat
        /\ boot' = "install" => Len(hdr) > 0
        /\ boot' = "clear_head" => ~(Len(hdr) > 0)
    BY SMTT(30)
  <2>2. /\ boot' = "install" => 
             tail' < Len(lh') /\ \A i \in 1 .. tail' : home'[lh'[i]] = slot'[i]
        /\ boot' = "clear_head" =>
             \A i \in 1 .. Len(lh') : home'[lh'[i]] = slot'[i]
    BY <2>1, SMTT(30)
  <2> QED
    BY <1>5, <2>2 DEF RecoveryInv, NoProtocolPanic, ControlTypeOK
<1> QED
  BY <1>1, <1>2, <1>4, <1>6, <1>7, <1>8

\* One iteration of install_trans(1) preserves the invariant.
LEMMA RecoverInstallStep ==
  ASSUME IInv, recover_install
  PROVE  IInv'
<1> USE DEF IInv, TypeOK, recover_install,
            diskVars, memVars, opVars
<1> DEFINE b == lh[tail + 1]
<1>1. /\ tail + 1 \in 1 .. Len(lh) /\ tail + 1 \in 1 .. NLOG - 1
      /\ Len(lh) \in Nat /\ b \in Block
  BY SMTT(30) DEF RecoveryInv, HeaderInv, DataTypeOK, ControlTypeOK
<1>2. DataTypeOK'
  BY <1>1 DEF DataTypeOK
<1>3. ControlTypeOK'
  <2>1. boot' \in Boot
    BY Names
  <2> QED
    BY <2>1, SMTT(30) DEF ControlTypeOK
<1>4. Active' = Active
  BY DEF Active
<1>5. OpInv' /\ CommitInv'
  BY <1>4 DEF OpInv, CommitInv, ControlTypeOK
<1>6. boot' \in {"install", "clear_head"}
  OBVIOUS
<1>7. HeaderInv'
  BY <1>6 DEF HeaderInv
<1>8. StageInv' /\ PinInv' /\ RecyclableIsClean'
  BY <1>6 DEF StageInv, PinInv, RecyclableIsClean
<1>9. RecoveryInv'
  <2>1. \A i \in 1 .. Len(lh) : lh[i] = b => i = tail + 1
    BY <1>1 DEF HeaderInv, Distinct
  <2>2. \A i \in 1 .. tail + 1 : home'[lh[i]] = slot[i]
    <3>1. ASSUME NEW i \in 1 .. tail + 1
          PROVE  home'[lh[i]] = slot[i]
      <4>1. i \in 1 .. Len(lh) /\ lh[i] \in Block
        BY <1>1, SMTT(30) DEF DataTypeOK
      <4>2. home' = [home EXCEPT ![b] = slot[tail + 1]]
        OBVIOUS
      <4>3. CASE i = tail + 1
        BY <4>1, <4>2, <4>3 DEF DataTypeOK
      <4>4. CASE i # tail + 1
        <5>1. lh[i] # b /\ home[lh[i]] = slot[i]
          BY <2>1, <4>1, <4>4, SMTT(30) DEF RecoveryInv, ControlTypeOK
        <5> QED
          BY <4>1, <4>2, <5>1, SMTT(30)
      <4> QED
        BY <4>3, <4>4
    <3> QED
      BY <3>1
  <2>3. /\ boot' = "install" => tail + 1 < Len(lh)
        /\ boot' = "clear_head" => tail + 1 = Len(lh)
    BY <1>1, SMTT(30)
  <2>4. cache' = home'
    BY DEF RecoveryInv, ControlTypeOK
  <2> QED
    BY <1>1, <2>2, <2>3, <2>4 DEF RecoveryInv
<1>10. NoProtocolPanic'
  BY DEF NoProtocolPanic
<1> QED
  BY <1>2, <1>3, <1>5, <1>7, <1>8, <1>9, <1>10

\* The write_head that ends recovery preserves the invariant.
LEMMA RecoverClearStep ==
  ASSUME IInv, recover_clear
  PROVE  IInv'
<1> USE DEF IInv, TypeOK, recover_clear,
            diskVars, memVars, opVars
<1>1. DataTypeOK'
  BY SMTT(30) DEF DataTypeOK
<1>2. ControlTypeOK'
  BY Names DEF ControlTypeOK
<1>3. Active' = Active
  BY DEF Active
<1>4. OpInv' /\ CommitInv'
  BY <1>3 DEF OpInv, CommitInv, DataTypeOK, ControlTypeOK
<1>5. \A p \in Proc : pc[p] = "idle"
  BY DEF RecoveryInv, DataTypeOK
<1>6. HeaderInv'
  BY <1>5, SMTT(30) DEF HeaderInv, Distinct, DataTypeOK
<1>7. StageInv'
  BY <1>5 DEF StageInv, DataTypeOK
<1>8. PinInv' /\ RecyclableIsClean'
  BY SMTT(30) DEF PinInv, RecyclableIsClean, RecoveryInv
<1>9. RecoveryInv' /\ NoProtocolPanic'
  BY DEF RecoveryInv, NoProtocolPanic, DataTypeOK
<1> QED
  BY <1>1, <1>2, <1>4, <1>6, <1>7, <1>8, <1>9

-----------------------------------------------------------------------------
(* The invariant theorem.                                                  *)

\* log_write: three of its four outcomes are possible.
LEMMA LogWriteStep ==
  ASSUME IInv, NEW p \in Proc, log_write(p)
  PROVE  IInv' /\ (Panics("too big a transaction") \/ log_absorb(p) \/ log_append(p))
<1>1. Running /\ hold[p] # NoBlock /\ pc[p] = "op"
  BY DEF log_write, IInv, OpInv
<1>2. ~(outstanding < 1)
  BY <1>1, NoCommitter, SMTT(30) DEF IInv, TypeOK, ControlTypeOK
<1>3. CASE LogFull
  BY <1>3, PanicStep DEF log_write
<1>4. CASE ~LogFull /\ Logged(hold[p])
  BY <1>1, <1>2, <1>4, LogAbsorb DEF log_write
<1>5. CASE ~LogFull /\ ~Logged(hold[p])
  BY <1>1, <1>2, <1>5, LogAppend DEF log_write
<1> QED
  BY <1>3, <1>4, <1>5

\* end_op never meets a commit in progress.
LEMMA EndOpStep ==
  ASSUME IInv, NEW p \in Proc, end_op(p)
  PROVE  IInv' /\ (end_last(p) \/ end_other(p))
<1>1. Running /\ pc[p] = "op" /\ hold[p] = NoBlock
  BY DEF end_op
<1>2. committing # 1
  BY <1>1, NoCommitter DEF IInv, CommitInv
<1>3. CASE outstanding - 1 = 0
  BY <1>1, <1>2, <1>3, EndLast DEF end_op
<1>4. CASE outstanding - 1 # 0
  BY <1>1, <1>2, <1>4, EndOther DEF end_op
<1> QED
  BY <1>3, <1>4

\* read_head never rejects a header.
LEMMA ReadHeadAccepts ==
  ASSUME IInv, read_head
  PROVE  IInv' /\ read_head_ok
<1>1. ~(Len(hdr) >= NLOG)
  BY SMTT(30) DEF IInv, HeaderInv, TypeOK, DataTypeOK
<1>2. ~(\E n \in DOMAIN hdr : hdr[n] \notin Block)
  BY SMTT(30) DEF IInv, TypeOK, DataTypeOK
<1> QED
  BY <1>1, <1>2, ReadHeadStep DEF read_head

\* A step that changes nothing.
LEMMA StutterStep ==
  ASSUME IInv, UNCHANGED vars
  PROVE  IInv'
<1> USE DEF vars
<1>1. TypeOK'
  BY DEF IInv, TypeOK, DataTypeOK, ControlTypeOK
<1>2. Active' = Active
  BY DEF Active
<1>3. OpInv' /\ CommitInv'
  BY <1>2 DEF IInv, OpInv, CommitInv
<1>4. HeaderInv' /\ StageInv'
  BY DEF IInv, HeaderInv, StageInv
<1>5. PinInv'
  BY DEF IInv, PinInv, Installed
<1>6. RecyclableIsClean' /\ RecoveryInv' /\ NoProtocolPanic'
  BY DEF IInv, RecyclableIsClean, RecoveryInv, NoProtocolPanic
<1> QED
  BY <1>1, <1>3, <1>4, <1>5, <1>6 DEF IInv

\* Every step preserves the invariant.
LEMMA NextIInv == IInv /\ [Next]_vars => IInv'
<1> SUFFICES ASSUME IInv, [Next]_vars PROVE IInv'
  OBVIOUS
<1>1. CASE UNCHANGED vars
  BY <1>1, StutterStep
<1>2. ASSUME NEW p \in Proc, Operation(p) PROVE IInv'
  BY <1>2, BeginWait, BeginAdmit, LogWriteStep, EndOpStep DEF Operation, begin_op
<1>3. ASSUME NEW p \in Proc, CommitStep(p) PROVE IInv'
  BY <1>3, WriteLogStep, WriteHeadStep, InstallStep, ClearHeadStep,
     CommitDoneStep DEF CommitStep
<1>4. ASSUME NEW p \in Proc, NEW b \in Block, NEW c \in Content,
             Modify(p, b, c)
      PROVE  IInv'
  BY <1>4, ModifyStep
<1>5. ASSUME NEW b \in Block, Evict(b) PROVE IInv'
  BY <1>5, EvictStep
<1>6. CASE Recover
  BY <1>6, ReadHeadAccepts, RecoverInstallStep, RecoverClearStep DEF Recover
<1>7. CASE Crash
  BY <1>7, CrashStep
<1> QED
  BY <1>1, <1>2, <1>3, <1>4, <1>5, <1>6, <1>7 DEF Next

\* IInv is an invariant of the log for every instance of the constants.
THEOREM InvariantHolds == Spec => []IInv
<1>1. Init => IInv
  BY InitIInv
<1>2. IInv /\ [Next]_vars => IInv'
  BY NextIInv
<1> QED
  BY <1>1, <1>2, PTL DEF Spec

\* Type correctness.
THEOREM TypeCorrect == Spec => []TypeOK
<1>1. IInv => TypeOK
  BY DEF IInv
<1> QED
  BY <1>1, InvariantHolds, PTL

\* log_write is only reached inside a transaction, end_op never finds a
\* commit in progress and read_head never rejects the header commit wrote,
\* whatever the sizes of the log.
THEOREM ProtocolPanicFree == Spec => []NoProtocolPanic
<1>1. IInv => NoProtocolPanic
  BY DEF IInv
<1> QED
  BY <1>1, InvariantHolds, PTL

\* bget never recycles a buffer whose update has not reached its home block.
THEOREM RecyclableClean == Spec => []RecyclableIsClean
<1>1. IInv => RecyclableIsClean
  BY DEF IInv
<1> QED
  BY <1>1, InvariantHolds, PTL

-----------------------------------------------------------------------------
(* Room in the log: what the admission in begin_op guarantees.             *)

\* The log blocks that are in use: how many, and what the open operations
\* have contributed.
RoomInv == IInv /\ UsageInv /\ ReservationHonoured

\* A set of blocks that are all in the header is finite.
LEMMA LoggedFinite ==
  ASSUME lh \in Seq(Block), NEW S, \A b \in S : Logged(b)
  PROVE  IsFiniteSet(S) /\ Cardinality(S) \in Nat
<1> DEFINE R == {lh[i] : i \in 1 .. Len(lh)}
<1>1. Len(lh) \in Nat /\ lh \in [1 .. Len(lh) -> R]
  BY SMTT(30)
<1>2. lh \in Surjection(1 .. Len(lh), R)
  BY <1>1 DEF Surjection
<1>3. S \subseteq R
  BY DEF Logged
<1> HIDE DEF R
<1>4. IsFiniteSet(1 .. Len(lh))
  BY <1>1, FS_Interval, SMTT(30)
<1>5. IsFiniteSet(R)
  BY <1>2, <1>4, FS_Surjection
<1> QED
  BY <1>3, <1>5, FS_Subset, FS_CardinalityType

\* The blocks logged by one operation and by all of them are finite sets.
LEMMA UsageFinite ==
  ASSUME TypeOK, UsageInv
  PROVE  /\ \A p \in Proc :
              IsFiniteSet(wrote[p]) /\ Cardinality(wrote[p]) \in Nat
         /\ IsFiniteSet(Written) /\ Cardinality(Written) \in Nat
<1>1. lh \in Seq(Block)
  BY DEF TypeOK, DataTypeOK
<1>2. ASSUME NEW p \in Proc
      PROVE  IsFiniteSet(wrote[p]) /\ Cardinality(wrote[p]) \in Nat
  <2>1. \A b \in wrote[p] : Logged(b)
    BY DEF UsageInv
  <2> QED
    BY <1>1, <2>1, LoggedFinite
<1> DEFINE R == {b \in Block : Logged(b)}
<1>3. IsFiniteSet(R)
  BY <1>1, LoggedFinite
<1>4. IsFiniteSet(Proc \X R)
  BY <1>3, FS_Product
<1>5. Written \subseteq Proc \X R
  BY DEF Written, UsageInv
<1> HIDE DEF R
<1>6. IsFiniteSet(Written)
  BY <1>4, <1>5, FS_Subset
<1> QED
  BY <1>2, <1>6, FS_CardinalityType

\* Together the open operations have logged at most OpBlocks blocks each.
LEMMA WrittenBound ==
  ASSUME IInv, UsageInv
  PROVE  Cardinality(Written) <= outstanding * OpBlocks
<1>t. TypeOK /\ outstanding = Cardinality(Active)
  BY DEF IInv, OpInv
<1>1. ASSUME NEW p \in Proc
      PROVE  Injection(wrote[p], 1 .. OpBlocks) # {}
  <2> DEFINE n == Cardinality(wrote[p])
  <2>1. n \in Nat /\ n <= OpBlocks /\ ExistsBijection(1 .. n, wrote[p])
    BY <1>t, UsageFinite, FS_CardinalityType DEF UsageInv
  <2> HIDE DEF n
  <2>2. PICK f : f \in Bijection(1 .. n, wrote[p])
    BY <2>1 DEF ExistsBijection
  <2>3. /\ f \in [1 .. n -> wrote[p]]
        /\ \A t \in wrote[p] : \E s \in 1 .. n : f[s] = t
    BY <2>2 DEF Bijection, Injection, Surjection
  <2> DEFINE g == [t \in wrote[p] |-> CHOOSE s \in 1 .. n : f[s] = t]
  <2>4. \A t \in wrote[p] : g[t] \in 1 .. n /\ f[g[t]] = t
    BY <2>3
  <2>5. g \in [wrote[p] -> 1 .. OpBlocks]
    <3>1. 1 .. n \subseteq 1 .. OpBlocks
      BY <2>1, SMTT(30)
    <3>2. \A t \in wrote[p] : g[t] \in 1 .. OpBlocks
      BY <2>4, <3>1
    <3>3. g = [t \in wrote[p] |-> g[t]]
      BY SMTT(30)
    <3> HIDE DEF g
    <3> QED
      BY <3>2, <3>3
  <2>6. \A s, t \in wrote[p] : g[s] = g[t] => s = t
    BY <2>4
  <2>7. DOMAIN g = wrote[p]
    OBVIOUS
  <2> HIDE DEF g
  <2>8. g \in Injection(wrote[p], 1 .. OpBlocks)
    BY <2>5, <2>6, <2>7 DEF Injection, IsInjective
  <2> QED
    BY <2>8
<1> DEFINE inj == [p \in Proc |->
                     CHOOSE f : f \in Injection(wrote[p], 1 .. OpBlocks)]
           T == Active \X (1 .. OpBlocks)
           h == [w \in Written |-> <<w[1], inj[w[1]][w[2]]>>]
<1>2. ASSUME NEW p \in Proc
      PROVE  /\ inj[p] \in [wrote[p] -> 1 .. OpBlocks]
             /\ \A s, t \in wrote[p] : inj[p][s] = inj[p][t] => s = t
  <2>1. inj[p] \in Injection(wrote[p], 1 .. OpBlocks)
    BY <1>1
  <2> HIDE DEF inj
  <2>2. inj[p] \in [wrote[p] -> 1 .. OpBlocks] /\ IsInjective(inj[p])
    BY <2>1 DEF Injection
  <2>3. DOMAIN inj[p] = wrote[p]
    BY <2>2
  <2> QED
    BY <2>2, <2>3 DEF IsInjective
<1> HIDE DEF inj
<1>3. \A w \in Written : /\ w[1] \in Active /\ w[2] \in wrote[w[1]]
                         /\ w = <<w[1], w[2]>> /\ w[1] \in Proc
  <2>1. ASSUME NEW w \in Written
        PROVE  /\ w[2] \in wrote[w[1]] /\ w = <<w[1], w[2]>> /\ w[1] \in Proc
    BY SMTT(30) DEF Written
  <2>2. \A p \in Proc : wrote[p] # {} => p \in Active
    BY DEF UsageInv, Active
  <2> QED
    BY <2>1, <2>2
<1>4. h \in [Written -> T]
  <2>1. ASSUME NEW w \in Written
        PROVE  <<w[1], inj[w[1]][w[2]]>> \in T
    <3>1. inj[w[1]][w[2]] \in 1 .. OpBlocks
      BY <1>2, <1>3, SMTT(30)
    <3> QED
      BY <1>3, <3>1
  <2> QED
    BY <2>1
<1>5. \A v, w \in Written : h[v] = h[w] => v = w
  <2>1. ASSUME NEW v \in Written, NEW w \in Written, h[v] = h[w]
        PROVE  v = w
    <3>1. v[1] = w[1] /\ inj[v[1]][v[2]] = inj[w[1]][w[2]]
      BY <2>1
    <3>2. v[2] = w[2]
      BY <3>1, <1>2, <1>3, SMTT(30)
    <3> QED
      BY <1>3, <3>1, <3>2
  <2> QED
    BY <2>1
<1>6. DOMAIN h = Written
  OBVIOUS
<1> HIDE DEF h
<1>7. h \in Injection(Written, T)
  BY <1>4, <1>5, <1>6 DEF Injection, IsInjective
<1>8. IsFiniteSet(1 .. OpBlocks) /\ Cardinality(1 .. OpBlocks) = OpBlocks
  BY FS_Interval, SMTT(30)
<1>9. IsFiniteSet(T) /\ Cardinality(T) = Cardinality(Active) * OpBlocks
  BY <1>8, ActiveFinite, FS_Product
<1> HIDE DEF T
<1>10. Cardinality(Written) <= Cardinality(T)
  BY <1>7, <1>9, FS_Injection
<1> QED
  BY <1>9, <1>10, <1>t

\* One operation more or less changes the reservations by one of them.
LEMMA OneMore ==
  ASSUME NEW n \in Nat, NEW m \in Nat
  PROVE  (n + 1) * m = n * m + m /\ n * m \in Nat
BY SMTT(30)

\* A step that neither logs a block nor opens or closes an operation.
LEMMA RoomKept ==
  ASSUME RoomInv, lh' = lh, hdr' = hdr, outstanding' = outstanding,
         wrote' = wrote, hold' = hold,
         \A p \in Proc : pc[p] = "op" => pc'[p] = "op"
  PROVE  UsageInv' /\ ReservationHonoured'
<1>1. UsageInv'
  BY DEF RoomInv, UsageInv, Logged
<1>2. Written' = Written
  BY DEF Written
<1> QED
  BY <1>1, <1>2 DEF RoomInv, ReservationHonoured

\* A state with no open operation and headers that fit.
LEMMA RoomEmpty ==
  ASSUME lh' \in Seq(Block), Len(lh') <= LOGSIZE, Len(hdr') <= LOGSIZE,
         outstanding' = 0, wrote' = [p \in Proc |-> {}],
         hold' = [p \in Proc |-> NoBlock]
  PROVE  UsageInv' /\ ReservationHonoured'
<1>1. Cardinality({}) = 0
  BY FS_EmptySet
<1>2. UsageInv'
  BY <1>1, SMTT(30) DEF UsageInv
<1>3. Written' = {}
  BY DEF Written
<1>4. Len(lh') \in Nat
  BY SMTT(30)
<1>5. Len(lh') + 0 * MAXOPBLOCKS - 0 <= LOGSIZE
  BY <1>4, SMTT(30)
<1> QED
  BY <1>1, <1>2, <1>3, <1>5 DEF ReservationHonoured

\* With no operation open nothing is reserved or in use but the header.
LEMMA NoneOpen ==
  ASSUME RoomInv, Active = {}
  PROVE  /\ wrote = [p \in Proc |-> {}] /\ hold = [p \in Proc |-> NoBlock]
         /\ outstanding = 0 /\ Len(lh) <= LOGSIZE
<1>t. /\ wrote \in [Proc -> SUBSET Block] /\ lh \in Seq(Block)
      /\ hold \in [Proc -> Block \cup {NoBlock}]
  BY DEF RoomInv, IInv, TypeOK, DataTypeOK, ControlTypeOK
<1>1. \A p \in Proc : pc[p] # "op"
  BY DEF Active
<1>2. \A p \in Proc : wrote[p] = {} /\ hold[p] = NoBlock
  BY <1>1 DEF RoomInv, UsageInv, IInv, OpInv
<1>3. outstanding = 0
  BY FS_EmptySet DEF RoomInv, IInv, OpInv
<1>4. Written = {}
  BY <1>2 DEF Written
<1>5. Cardinality(Written) = 0
  BY <1>4, FS_EmptySet
<1>6. Len(lh) + 0 * MAXOPBLOCKS - 0 <= LOGSIZE /\ Len(lh) \in Nat
  BY <1>3, <1>5, <1>t, SMTT(30) DEF RoomInv, ReservationHonoured
<1> QED
  BY <1>t, <1>2, <1>3, <1>6, SMTT(30)

\* An admission reserves what MustWait has checked for.
LEMMA AdmitRoom ==
  ASSUME RoomInv, NEW p \in Proc, begin_admit(p)
  PROVE  UsageInv' /\ ReservationHonoured'
<1>u. /\ lh' = lh /\ hdr' = hdr /\ wrote' = wrote /\ hold' = hold
      /\ outstanding' = outstanding + 1 /\ pc' = [pc EXCEPT ![p] = "op"]
      /\ ~MustWait
  BY DEF begin_admit, diskVars, memVars, opVars
<1>t. TypeOK /\ UsageInv /\ lh \in Seq(Block) /\ pc \in [Proc -> PC]
  BY DEF RoomInv, IInv, TypeOK, DataTypeOK, ControlTypeOK
<1>1. UsageInv'
  BY <1>u, <1>t DEF UsageInv, Logged
<1>2. Written' = Written
  BY <1>u DEF Written
<1>3. Cardinality(Written) \in Nat
  BY <1>t, UsageFinite
<1> DEFINE r == (outstanding + 1) * MAXOPBLOCKS
<1>4. r \in Nat
  BY <1>t, SMTT(30) DEF TypeOK, ControlTypeOK
<1>5. ~(Len(lh) + r > LOGSIZE)
  BY <1>u DEF MustWait
<1> HIDE DEF r
<1>6. Len(lh) + r - Cardinality(Written) <= LOGSIZE
  BY <1>3, <1>4, <1>5, <1>t, SMTT(30)
<1> QED
  BY <1>1, <1>2, <1>6, <1>u DEF ReservationHonoured, r

\* Taking a buffer to change it leaves the log alone.
LEMMA ModifyRoom ==
  ASSUME RoomInv, NEW p \in Proc, NEW b \in Block, NEW c \in Content,
         Modify(p, b, c)
  PROVE  UsageInv' /\ ReservationHonoured'
<1>u. /\ lh' = lh /\ hdr' = hdr /\ wrote' = wrote /\ pc' = pc
      /\ outstanding' = outstanding /\ hold' = [hold EXCEPT ![p] = b]
      /\ Cardinality(wrote[p] \cup {b}) <= OpBlocks
  BY DEF Modify, diskVars
<1>t. hold \in [Proc -> Block \cup {NoBlock}]
  BY DEF RoomInv, IInv, TypeOK, ControlTypeOK
<1>1. UsageInv'
  BY <1>u, <1>t DEF RoomInv, UsageInv, Logged
<1>2. Written' = Written
  BY <1>u DEF Written
<1> QED
  BY <1>1, <1>2, <1>u DEF RoomInv, ReservationHonoured

\* What log_write does to the contribution of its operation.
LEMMA WroteMore ==
  ASSUME RoomInv, NEW p \in Proc, hold[p] # NoBlock, pc' = pc, hdr' = hdr,
         wrote' = [wrote EXCEPT ![p] = @ \cup {hold[p]}],
         hold' = [hold EXCEPT ![p] = NoBlock],
         \A b \in Block : Logged(b) \/ b = hold[p] => Logged(b)'
  PROVE  UsageInv' /\ Written' = Written \cup {<<p, hold[p]>>}
<1>t. /\ hold \in [Proc -> Block \cup {NoBlock}] /\ hold[p] \in Block
      /\ wrote \in [Proc -> SUBSET Block] /\ pc[p] = "op"
  BY DEF RoomInv, IInv, OpInv, TypeOK, ControlTypeOK
<1>1. ASSUME NEW q \in Proc
      PROVE  /\ wrote'[q] # {} => pc'[q] = "op"
             /\ \A b \in wrote'[q] : Logged(b)'
             /\ Cardinality(wrote'[q]) <= OpBlocks
             /\ hold'[q] # NoBlock =>
                  Cardinality(wrote'[q] \cup {hold'[q]}) <= OpBlocks
  <2>1. CASE q = p
    <3>1. wrote'[p] = wrote[p] \cup {hold[p]} /\ hold'[p] = NoBlock
      BY <1>t
    <3>2. Cardinality(wrote[p] \cup {hold[p]}) <= OpBlocks
      BY DEF RoomInv, UsageInv
    <3>3. \A b \in wrote[p] : Logged(b)'
      BY <1>t DEF RoomInv, UsageInv
    <3>4. \A b \in wrote'[p] : Logged(b)'
      BY <3>1, <3>3, <1>t
    <3> QED
      BY <2>1, <3>1, <3>2, <3>4, <1>t
  <2>2. CASE q # p
    <3>1. wrote'[q] = wrote[q] /\ hold'[q] = hold[q]
      BY <2>2, <1>t
    <3>2. \A b \in wrote[q] : Logged(b)'
      BY <1>t DEF RoomInv, UsageInv
    <3> QED
      BY <3>1, <3>2 DEF RoomInv, UsageInv
  <2> QED
    BY <2>1, <2>2
<1>2. UsageInv'
  BY <1>1 DEF RoomInv, UsageInv
<1>3. Written' = Written \cup {<<p, hold[p]>>}
  BY <1>t, SMTT(30) DEF Written
<1> QED
  BY <1>2, <1>3

\* Absorption: the header does not grow, the operation's share may.
LEMMA AbsorbRoom ==
  ASSUME RoomInv, NEW p \in Proc, hold[p] # NoBlock, Logged(hold[p]),
         log_absorb(p)
  PROVE  UsageInv' /\ ReservationHonoured'
<1>u. /\ lh' = lh /\ hdr' = hdr /\ pc' = pc /\ outstanding' = outstanding
      /\ wrote' = [wrote EXCEPT ![p] = @ \cup {hold[p]}]
      /\ hold' = [hold EXCEPT ![p] = NoBlock]
  BY DEF log_absorb, diskVars, memVars
<1>t. TypeOK /\ UsageInv /\ lh \in Seq(Block) /\ outstanding \in Nat
  BY DEF RoomInv, IInv, TypeOK, DataTypeOK, ControlTypeOK
<1>1. \A b \in Block : Logged(b) \/ b = hold[p] => Logged(b)'
  BY <1>u DEF Logged
<1>2. UsageInv' /\ Written' = Written \cup {<<p, hold[p]>>}
  BY <1>u, <1>1, WroteMore
<1>3. /\ Cardinality(Written) \in Nat /\ Cardinality(Written') \in Nat
      /\ Cardinality(Written) <= Cardinality(Written')
  <2>1. IsFiniteSet(Written) /\ Cardinality(Written) \in Nat
    BY <1>t, UsageFinite
  <2> DEFINE e == <<p, hold[p]>>
  <2>3. Written' = Written \cup {e}
    BY <1>2
  <2> HIDE DEF e
  <2>2. Cardinality(Written \cup {e}) =
          IF e \in Written THEN Cardinality(Written) ELSE Cardinality(Written) + 1
    BY <2>1, FS_AddElement
  <2> QED
    BY <2>1, <2>2, <2>3, SMTT(30)
<1> DEFINE r == outstanding * MAXOPBLOCKS
<1>4. r \in Nat
  BY <1>t, SMTT(30)
<1>5. Len(lh) + r - Cardinality(Written) <= LOGSIZE
  BY DEF RoomInv, ReservationHonoured
<1> HIDE DEF r
<1>6. Len(lh) + r - Cardinality(Written') <= LOGSIZE
  BY <1>3, <1>4, <1>5, <1>t, SMTT(30)
<1> QED
  BY <1>2, <1>6, <1>u DEF ReservationHonoured, r

\* A new entry: the header and the operation's share grow by one block.
LEMMA AppendRoom ==
  ASSUME RoomInv, NEW p \in Proc, hold[p] # NoBlock, ~Logged(hold[p]),
         log_append(p)
  PROVE  UsageInv' /\ ReservationHonoured'
<1>u. /\ lh' = Append(lh, hold[p]) /\ hdr' = hdr /\ pc' = pc
      /\ outstanding' = outstanding
      /\ wrote' = [wrote EXCEPT ![p] = @ \cup {hold[p]}]
      /\ hold' = [hold EXCEPT ![p] = NoBlock]
  BY DEF log_append, diskVars
<1>t. /\ TypeOK /\ UsageInv /\ lh \in Seq(Block) /\ outstanding \in Nat
      /\ hold[p] \in Block
  BY DEF RoomInv, IInv, TypeOK, DataTypeOK, ControlTypeOK
<1>0. /\ Len(lh') = Len(lh) + 1 /\ lh'[Len(lh) + 1] = hold[p]
      /\ \A i \in 1 .. Len(lh) : lh'[i] = lh[i]
      /\ Len(lh) \in Nat
  BY <1>u, <1>t, SMTT(30)
<1>1. \A b \in Block : Logged(b) \/ b = hold[p] => Logged(b)'
  <2>1. ASSUME NEW b \in Block, Logged(b) PROVE Logged(b)'
    BY <2>1, <1>0, SMTT(30) DEF Logged
  <2>2. \E i \in 1 .. Len(lh') : lh'[i] = hold[p]
    BY <1>0, SMTT(30)
  <2>3. ASSUME NEW b \in Block, b = hold[p] PROVE Logged(b)'
    BY <2>2, <2>3 DEF Logged
  <2> QED
    BY <2>1, <2>3
<1>2. UsageInv' /\ Written' = Written \cup {<<p, hold[p]>>}
  BY <1>u, <1>1, WroteMore
<1>3. <<p, hold[p]>> \notin Written
  BY <1>t DEF UsageInv, Written
<1>4. /\ Cardinality(Written) \in Nat
      /\ Cardinality(Written') = Cardinality(Written) + 1
  BY <1>2, <1>3, <1>t, UsageFinite, FS_AddElement
<1> DEFINE r == outstanding * MAXOPBLOCKS
<1>5. r \in Nat
  BY <1>t, SMTT(30)
<1>6. Len(lh) + r - Cardinality(Written) <= LOGSIZE
  BY DEF RoomInv, ReservationHonoured
<1> HIDE DEF r
<1>7. Len(lh') + r - Cardinality(Written') <= LOGSIZE
  BY <1>0, <1>4, <1>5, <1>6, SMTT(30)
<1> QED
  BY <1>2, <1>7, <1>u DEF ReservationHonoured, r

\* end_op gives up a reservation that covers what the operation has logged.
LEMMA EndRoom ==
  ASSUME OpBlocks <= MAXOPBLOCKS, RoomInv, NEW p \in Proc, pc[p] = "op",
         hold[p] = NoBlock, end_last(p) \/ end_other(p)
  PROVE  UsageInv' /\ ReservationHonoured'
<1>u. /\ lh' = lh /\ hdr' = hdr /\ hold' = hold
      /\ outstanding' = outstanding - 1
      /\ wrote' = [wrote EXCEPT ![p] = {}]
  BY DEF end_last, end_other, diskVars, memVars
<1>t. /\ TypeOK /\ UsageInv /\ lh \in Seq(Block) /\ outstanding \in Nat
      /\ wrote \in [Proc -> SUBSET Block] /\ pc \in [Proc -> PC]
  BY DEF RoomInv, IInv, TypeOK, DataTypeOK, ControlTypeOK
<1>0. \A q \in Proc : q # p /\ pc[q] = "op" => pc'[q] = "op"
  BY <1>t DEF end_last, end_other, WakeupLog
<1>1. UsageInv'
  <2>1. ASSUME NEW q \in Proc
        PROVE  /\ wrote'[q] # {} => pc'[q] = "op"
               /\ \A b \in wrote'[q] : Logged(b)'
               /\ Cardinality(wrote'[q]) <= OpBlocks
               /\ hold'[q] # NoBlock =>
                    Cardinality(wrote'[q] \cup {hold'[q]}) <= OpBlocks
    <3>1. CASE q = p
      <4>1. wrote'[p] = {}
        BY <1>u, <1>t
      <4>2. Cardinality({}) = 0 /\ 0 <= OpBlocks
        BY FS_EmptySet, SMTT(30)
      <4> QED
        BY <3>1, <4>1, <4>2, <1>u
    <3>2. CASE q # p
      <4>1. wrote'[q] = wrote[q]
        BY <1>u, <1>t, <3>2
      <4>2. wrote[q] # {} => pc'[q] = "op"
        BY <1>0, <1>t, <3>2 DEF UsageInv
      <4>3. \A b : Logged(b)' <=> Logged(b)
        BY <1>u DEF Logged
      <4> QED
        BY <4>1, <4>2, <4>3, <1>u, <1>t DEF UsageInv
    <3> QED
      BY <3>1, <3>2
  <2> QED
    BY <2>1, <1>u, <1>t DEF UsageInv
<1> DEFINE R == {p} \X wrote[p]
<1>2. Written' = Written \ R /\ R \subseteq Written
  BY <1>u, <1>t DEF Written
<1>3. IsFiniteSet(wrote[p]) /\ Cardinality(wrote[p]) \in Nat
  BY <1>t, UsageFinite
<1>4. Cardinality(R) = 1 * Cardinality(wrote[p])
  <2>1. IsFiniteSet({p}) /\ Cardinality({p}) = 1
    BY FS_Singleton
  <2>2. Cardinality(R) = Cardinality({p}) * Cardinality(wrote[p])
    BY <2>1, <1>3, FS_Product
  <2> QED
    BY <2>1, <2>2
<1> HIDE DEF R
<1>5. Written \cap R = R
  BY <1>2
<1>6. IsFiniteSet(Written) /\ Cardinality(Written) \in Nat
  BY <1>t, UsageFinite
<1>7. Cardinality(Written') = Cardinality(Written) - Cardinality(R)
  <2>1. Cardinality(Written \ R) =
          Cardinality(Written) - Cardinality(Written \cap R)
    BY <1>6, FS_Difference
  <2> QED
    BY <2>1, <1>2, <1>5
<1>8. Cardinality(R) \in Nat /\ Cardinality(R) <= MAXOPBLOCKS
  <2>1. Cardinality(wrote[p]) <= OpBlocks
    BY <1>t DEF UsageInv
  <2> QED
    BY <1>3, <1>4, <2>1, SMTT(30)
<1> DEFINE n == outstanding - 1
           r == n * MAXOPBLOCKS
<1>9. n \in Nat /\ outstanding = n + 1
  BY <1>t, NoCommitter, SMTT(30) DEF RoomInv
<1> HIDE DEF n
<1>10. r \in Nat /\ outstanding * MAXOPBLOCKS = r + MAXOPBLOCKS
  BY <1>9, OneMore
<1> HIDE DEF r
<1>11. Len(lh) + (r + MAXOPBLOCKS) - Cardinality(Written) <= LOGSIZE
  BY <1>10 DEF RoomInv, ReservationHonoured
<1>12. Len(lh) + r - Cardinality(Written') <= LOGSIZE
  BY <1>6, <1>7, <1>8, <1>10, <1>11, <1>t, SMTT(30)
<1> QED
  BY <1>1, <1>12, <1>u DEF ReservationHonoured, r, n

\* commit runs with no operation open.
LEMMA CommitRoom ==
  ASSUME RoomInv, NEW p \in Proc, CommitStep(p)
  PROVE  UsageInv' /\ ReservationHonoured'
<1>c. pc[p] \in CommitPC
  BY DEF CommitStep, write_log, write_head, install_trans, clear_head,
         commit_done, CommitPC
<1>a. Active = {}
  BY <1>c, CommitterAlone DEF RoomInv
<1>e. /\ wrote = [q \in Proc |-> {}] /\ hold = [q \in Proc |-> NoBlock]
      /\ outstanding = 0 /\ Len(lh) <= LOGSIZE
  BY <1>a, NoneOpen
<1>t. lh \in Seq(Block) /\ Len(hdr) <= LOGSIZE
  BY DEF RoomInv, IInv, UsageInv, TypeOK, DataTypeOK
<1>u. wrote' = wrote /\ hold' = hold /\ outstanding' = outstanding
  BY DEF CommitStep, write_log, write_head, install_trans, clear_head,
               commit_done, opVars
<1>h. (lh' = lh \/ lh' = <<>>) /\ (hdr' = hdr \/ hdr' = lh \/ hdr' = <<>>)
  BY DEF CommitStep, write_log, write_head, install_trans, clear_head,
               commit_done, diskVars, memVars
<1>1. lh' \in Seq(Block) /\ Len(lh') <= LOGSIZE /\ Len(hdr') <= LOGSIZE
  <2>1. <<>> \in Seq(Block) /\ Len(<<>>) = 0 /\ 0 <= LOGSIZE
    BY SMTT(30)
  <2> QED
    BY <2>1, <1>e, <1>t, <1>h
<1> QED
  BY <1>1, <1>e, <1>u, RoomEmpty

\* Recovery runs with no operation open, on a header that fits.
LEMMA RecoverRoom ==
  ASSUME RoomInv, Recover
  PROVE  UsageInv' /\ ReservationHonoured'
<1>b. boot # "up"
  BY DEF Recover, read_head, recover_install, recover_clear
<1>a. Active = {}
  BY <1>b DEF RoomInv, IInv, RecoveryInv, Active
<1>e. /\ wrote = [q \in Proc |-> {}] /\ hold = [q \in Proc |-> NoBlock]
      /\ outstanding = 0 /\ Len(lh) <= LOGSIZE
  BY <1>a, NoneOpen
<1>t. lh \in Seq(Block) /\ hdr \in Seq(Block) /\ Len(hdr) <= LOGSIZE
  BY DEF RoomInv, IInv, UsageInv, TypeOK, DataTypeOK
<1>u. wrote' = wrote /\ hold' = hold /\ outstanding' = outstanding
  BY DEF Recover, read_head, read_head_ok, recover_install,
               recover_clear, Panics, opVars
<1>h. (lh' = lh \/ lh' = hdr \/ lh' = <<>>) /\ (hdr' = hdr \/ hdr' = <<>>)
  BY DEF Recover, read_head, read_head_ok, recover_install,
               recover_clear, Panics, diskVars, memVars
<1>1. lh' \in Seq(Block) /\ Len(lh') <= LOGSIZE /\ Len(hdr') <= LOGSIZE
  <2>1. <<>> \in Seq(Block) /\ Len(<<>>) = 0 /\ 0 <= LOGSIZE
    BY SMTT(30)
  <2> QED
    BY <2>1, <1>e, <1>t, <1>h
<1> QED
  BY <1>1, <1>e, <1>u, RoomEmpty

\* A crash closes every operation and leaves a header that fits.
LEMMA CrashRoom ==
  ASSUME RoomInv, Crash
  PROVE  UsageInv' /\ ReservationHonoured'
<1>u. /\ lh' = <<>> /\ hdr' = hdr /\ outstanding' = 0
      /\ wrote' = [p \in Proc |-> {}] /\ hold' = [p \in Proc |-> NoBlock]
  BY DEF Crash, Restart
<1>1. Len(hdr) <= LOGSIZE
  BY DEF RoomInv, UsageInv
<1>2. lh' \in Seq(Block) /\ Len(lh') <= LOGSIZE
  BY <1>u, SMTT(30)
<1> QED
  BY <1>u, <1>1, <1>2, RoomEmpty

\* Every step keeps the reservations, if no operation logs more blocks than
\* it reserves.
LEMMA NextRoom ==
  ASSUME OpBlocks <= MAXOPBLOCKS, RoomInv, [Next]_vars
  PROVE  RoomInv'
<1>0. IInv'
  BY NextIInv DEF RoomInv
<1>1. CASE UNCHANGED vars
  <2>1. /\ lh' = lh /\ hdr' = hdr /\ outstanding' = outstanding
        /\ wrote' = wrote /\ hold' = hold /\ pc' = pc
    BY <1>1 DEF vars
  <2> QED
    BY <2>1, <1>0, RoomKept DEF RoomInv
<1>2. ASSUME NEW p \in Proc, Operation(p) PROVE UsageInv' /\ ReservationHonoured'
  <2>i. IInv /\ pc \in [Proc -> PC]
    BY DEF RoomInv, IInv, TypeOK, ControlTypeOK
  <2>1. CASE begin_wait(p)
    <3>1. /\ lh' = lh /\ hdr' = hdr /\ outstanding' = outstanding
          /\ wrote' = wrote /\ hold' = hold
      BY <2>1 DEF begin_wait, diskVars, memVars, opVars
    <3>2. \A q \in Proc : pc[q] = "op" => pc'[q] = "op"
      BY <2>1, <2>i DEF begin_wait
    <3> QED
      BY <3>1, <3>2, RoomKept
  <2>2. CASE begin_admit(p)
    BY <2>2, AdmitRoom
  <2>3. CASE log_write(p)
    <3>1. hold[p] # NoBlock
      BY <2>3 DEF log_write
    <3>2. CASE \E msg \in Panic : Panics(msg)
      <4>1. /\ lh' = lh /\ hdr' = hdr /\ outstanding' = outstanding
            /\ wrote' = wrote /\ hold' = hold /\ pc' = pc
        BY <3>2 DEF Panics, diskVars, memVars, opVars
      <4> QED
        BY <4>1, RoomKept
    <3>3. CASE Logged(hold[p]) /\ log_absorb(p)
      BY <3>1, <3>3, AbsorbRoom
    <3>4. CASE ~Logged(hold[p]) /\ log_append(p)
      BY <3>1, <3>4, AppendRoom
    <3> QED
      BY <2>3, <3>2, <3>3, <3>4 DEF log_write, Panic
  <2>4. CASE end_op(p)
    <3>1. pc[p] = "op" /\ hold[p] = NoBlock
      BY <2>4 DEF end_op
    <3>2. end_last(p) \/ end_other(p)
      BY <2>4, <2>i, EndOpStep
    <3> QED
      BY <3>1, <3>2, EndRoom
  <2> QED
    BY <1>2, <2>1, <2>2, <2>3, <2>4 DEF Operation, begin_op
<1>3. ASSUME NEW p \in Proc, CommitStep(p) PROVE UsageInv' /\ ReservationHonoured'
  BY <1>3, CommitRoom
<1>4. ASSUME NEW p \in Proc, NEW b \in Block, NEW c \in Content,
             Modify(p, b, c)
      PROVE  UsageInv' /\ ReservationHonoured'
  BY <1>4, ModifyRoom
<1>5. ASSUME NEW b \in Block, Evict(b) PROVE UsageInv' /\ ReservationHonoured'
  <2>1. /\ lh' = lh /\ hdr' = hdr /\ outstanding' = outstanding
        /\ wrote' = wrote /\ hold' = hold /\ pc' = pc
    BY <1>5 DEF Evict, diskVars, opVars
  <2> QED
    BY <2>1, RoomKept
<1>6. CASE Recover
  BY <1>0, <1>6, RecoverRoom DEF RoomInv
<1>7. CASE Crash
  BY <1>0, <1>7, CrashRoom DEF RoomInv
<1> QED
  BY <1>0, <1>1, <1>2, <1>3, <1>4, <1>5, <1>6, <1>7 DEF Next, RoomInv

\* A fresh image has nothing reserved.
LEMMA InitRoom == Init => RoomInv
<1> SUFFICES ASSUME Init PROVE RoomInv
  OBVIOUS
<1>0. IInv
  BY InitIInv
<1>u. /\ lh = <<>> /\ hdr = <<>> /\ outstanding = 0
      /\ wrote = [p \in Proc |-> {}] /\ hold = [p \in Proc |-> NoBlock]
  BY DEF Init
<1>1. Cardinality({}) = 0
  BY FS_EmptySet
<1>2. UsageInv
  BY <1>u, <1>1, SMTT(30) DEF UsageInv
<1>3. Written = {}
  BY <1>u DEF Written
<1>4. 0 + 0 * MAXOPBLOCKS - 0 <= LOGSIZE
  BY SMTT(30)
<1>5. ReservationHonoured
  BY <1>u, <1>1, <1>3, <1>4 DEF ReservationHonoured
<1> QED
  BY <1>0, <1>2, <1>5 DEF RoomInv

\* If the sizes fit, log_write never finds the log full.
LEMMA LogWriteFits ==
  ASSUME Sized, RoomInv, NEW p \in Proc, pc[p] = "op"
  PROVE  ~LogFull
<1>t. /\ IInv /\ TypeOK /\ UsageInv /\ lh \in Seq(Block) /\ outstanding \in Nat
  BY DEF RoomInv, IInv, TypeOK, DataTypeOK, ControlTypeOK
<1>1. outstanding >= 1
  BY <1>t, NoCommitter
<1> DEFINE n == outstanding - 1
           a == n * MAXOPBLOCKS
           w == n * OpBlocks
           d == n * (MAXOPBLOCKS - OpBlocks)
<1>2. n \in Nat /\ outstanding = n + 1
  BY <1>1, <1>t, SMTT(30)
<1> HIDE DEF n
<1>3. /\ a \in Nat /\ outstanding * MAXOPBLOCKS = a + MAXOPBLOCKS
      /\ w \in Nat /\ outstanding * OpBlocks = w + OpBlocks
  BY <1>2, OneMore
<1>4. MAXOPBLOCKS - OpBlocks \in Nat
  BY SMTT(30) DEF Sized
<1>5. d \in Nat /\ a - w = d
  BY <1>2, <1>4, SMTT(30)
<1> HIDE DEF a, w, d
<1>6. Cardinality(Written) \in Nat /\ Cardinality(Written) <= w + OpBlocks
  BY <1>3, <1>t, UsageFinite, WrittenBound
<1>7. Len(lh) + (a + MAXOPBLOCKS) - Cardinality(Written) <= LOGSIZE
  BY <1>3 DEF RoomInv, ReservationHonoured
<1>8. Len(lh) + MAXOPBLOCKS - OpBlocks <= LOGSIZE
  BY <1>3, <1>5, <1>6, <1>7, <1>t, SMTT(30)
<1>9. Len(lh) < LOGSIZE /\ Len(lh) < NLOG - 1
  BY <1>8, <1>t, SMTT(30) DEF Sized
<1> QED
  BY <1>9, <1>t, SMTT(30) DEF LogFull

\* If the sizes fit, no step panics.
LEMMA NextPanicFree ==
  ASSUME Sized, RoomInv, NoPanic, [Next]_vars
  PROVE  NoPanic'
<1>i. IInv
  BY DEF RoomInv
<1>1. CASE UNCHANGED vars
  BY <1>1 DEF vars, NoPanic
<1>2. ASSUME NEW p \in Proc, log_write(p) PROVE NoPanic'
  <2>1. pc[p] = "op"
    BY <1>2, <1>i DEF log_write, IInv, OpInv
  <2>2. ~LogFull
    BY <2>1, LogWriteFits
  <2>3. ~(outstanding < 1)
    BY <2>1, <1>i, NoCommitter, SMTT(30) DEF IInv, TypeOK, ControlTypeOK
  <2>4. log_absorb(p) \/ log_append(p)
    BY <1>2, <2>2, <2>3 DEF log_write
  <2> QED
    BY <2>4 DEF log_absorb, log_append, NoPanic
<1>3. ASSUME NEW p \in Proc, end_op(p) PROVE NoPanic'
  <2>1. end_last(p) \/ end_other(p)
    BY <1>3, <1>i, EndOpStep
  <2> QED
    BY <2>1 DEF end_last, end_other, NoPanic
<1>4. ASSUME NEW p \in Proc, begin_op(p) \/ CommitStep(p) PROVE NoPanic'
  BY <1>4 DEF begin_op, begin_wait, begin_admit, CommitStep, write_log,
       write_head, install_trans, clear_head, commit_done, NoPanic
<1>5. ASSUME NEW p \in Proc, NEW b \in Block, NEW c \in Content,
             Modify(p, b, c)
      PROVE  NoPanic'
  BY <1>5 DEF Modify, NoPanic
<1>6. ASSUME NEW b \in Block, Evict(b) PROVE NoPanic'
  BY <1>6 DEF Evict, NoPanic
<1>7. CASE Recover
  <2>1. read_head => read_head_ok
    BY <1>i, ReadHeadAccepts
  <2> QED
    BY <1>7, <2>1 DEF Recover, read_head_ok, recover_install, recover_clear,
         NoPanic
<1>8. CASE Crash
  BY <1>8 DEF Crash, Restart, NoPanic
<1> QED
  BY <1>1, <1>2, <1>3, <1>4, <1>5, <1>6, <1>7, <1>8 DEF Next, Operation

\* begin_op's admission keeps room in the log for everything the open
\* operations may still add, as long as no operation logs more blocks than
\* it reserves.
THEOREM ReservationKept ==
  ASSUME OpBlocks <= MAXOPBLOCKS
  PROVE  Spec => []ReservationHonoured
<1>1. Init => RoomInv
  BY InitRoom
<1>2. RoomInv /\ [Next]_vars => RoomInv'
  BY NextRoom
<1>3. RoomInv => ReservationHonoured
  BY DEF RoomInv
<1> QED
  BY <1>1, <1>2, <1>3, PTL DEF Spec

\* No panic of log.c is reachable if an operation logs fewer blocks than it
\* reserves, by more than the log region is short of LOGSIZE.
THEOREM NeverPanics ==
  ASSUME Sized
  PROVE  Spec => []NoPanic
<1>0. OpBlocks <= MAXOPBLOCKS
  BY SMTT(30) DEF Sized
<1>1. Init => RoomInv /\ NoPanic
  BY InitRoom DEF Init, NoPanic
<1>2. RoomInv /\ NoPanic /\ [Next]_vars => (RoomInv /\ NoPanic)'
  BY <1>0, NextRoom, NextPanicFree
<1> QED
  BY <1>1, <1>2, PTL DEF Spec

-----------------------------------------------------------------------------
(* The order of the writes.                                                *)

\* Home blocks change where the header names them, and a header follows the
\* data of its blocks.
Ordered ==
  /\ \A b \in Block : home'[b] # home[b] => \E i \in 1 .. Len(hdr) : hdr[i] = b
  /\ hdr' # hdr => \A i \in 1 .. Len(hdr') : slot[i] = cache[hdr'[i]]

\* Installing entry tail + 1 writes a block that the durable header names.
LEMMA InstallOrdered ==
  ASSUME IInv, tail + 1 \in 1 .. Len(lh), hdr = lh, hdr' = hdr,
         home' = [home EXCEPT ![lh[tail + 1]] = slot[tail + 1]]
  PROVE  Ordered
<1>t. home \in [Block -> Content]
  BY DEF IInv, TypeOK, DataTypeOK
<1>1. ASSUME NEW b \in Block, home'[b] # home[b]
      PROVE  \E i \in 1 .. Len(hdr) : hdr[i] = b
  <2>1. b = lh[tail + 1]
    BY <1>1, <1>t
  <2> QED
    BY <2>1
<1> QED
  BY <1>1 DEF Ordered

\* Every step of the log keeps the order.
LEMMA StepOrdered ==
  ASSUME IInv, [Next]_vars
  PROVE  Ordered
<1>1. CASE home' = home /\ hdr' = hdr
  BY <1>1 DEF Ordered
<1>2. ASSUME home' = home, hdr' = <<>> PROVE Ordered
  BY <1>2, SMTT(30) DEF Ordered
<1>3. ASSUME NEW p \in Proc, write_head(p) PROVE Ordered
  <2>1. home' = home /\ hdr' = lh /\ pc[p] = "write_head" /\ boot = "up"
    BY <1>3 DEF write_head, Running
  <2>2. \A i \in 1 .. Len(lh) : slot[i] = cache[lh[i]]
    BY <2>1 DEF IInv, StageInv
  <2> QED
    BY <2>1, <2>2 DEF Ordered
<1>4. ASSUME NEW p \in Proc, install_trans(p) PROVE Ordered
  <2>1. /\ hdr' = hdr /\ pc[p] = "install" /\ boot = "up"
        /\ home' = [home EXCEPT ![lh[tail + 1]] = slot[tail + 1]]
    BY <1>4 DEF install_trans, Running
  <2>2. tail + 1 \in 1 .. Len(lh)
    BY <2>1, SMTT(30) DEF IInv, StageInv, TypeOK, DataTypeOK, ControlTypeOK
  <2>3. hdr = lh
    BY <2>1 DEF IInv, HeaderInv
  <2> QED
    BY <2>1, <2>2, <2>3, InstallOrdered
<1>5. CASE recover_install
  <2>1. /\ hdr' = hdr /\ boot = "install"
        /\ home' = [home EXCEPT ![lh[tail + 1]] = slot[tail + 1]]
    BY <1>5 DEF recover_install
  <2>2. tail + 1 \in 1 .. Len(lh)
    BY <2>1, SMTT(30) DEF IInv, RecoveryInv, TypeOK, DataTypeOK, ControlTypeOK
  <2>3. hdr = lh
    BY <2>1 DEF IInv, HeaderInv
  <2> QED
    BY <2>1, <2>2, <2>3, InstallOrdered
<1>6. CASE Crash
  <2>1. /\ hdr' = hdr
        /\ home' = home \/ \E b \in Block, c \in Content :
             /\ home' = [home EXCEPT ![b] = c]
             /\ \E i \in 1 .. Len(hdr) : hdr[i] = b
    BY <1>6, CrashDisk
  <2>2. CASE home' = home
    BY <1>1, <2>1, <2>2
  <2>3. ASSUME NEW b \in Block, NEW c \in Content,
               home' = [home EXCEPT ![b] = c],
               \E i \in 1 .. Len(hdr) : hdr[i] = b
        PROVE  Ordered
    <3>1. \A d \in Block : home'[d] # home[d] => d = b
      BY <2>3 DEF IInv, TypeOK, DataTypeOK
    <3> QED
      BY <2>1, <2>3, <3>1 DEF Ordered
  <2> QED
    BY <2>1, <2>2, <2>3
<1>7. \/ home' = home /\ hdr' = hdr
      \/ home' = home /\ hdr' = <<>>
      \/ \E p \in Proc : write_head(p) \/ install_trans(p)
      \/ recover_install
      \/ Crash
  <2>1. ASSUME NEW p \in Proc, Operation(p) PROVE home' = home /\ hdr' = hdr
    BY <2>1 DEF Operation, begin_op, begin_wait, begin_admit, log_write,
       log_absorb, log_append, end_op, end_last, end_other, Panics, diskVars
  <2>2. ASSUME NEW p \in Proc, write_log(p) \/ commit_done(p)
        PROVE  home' = home /\ hdr' = hdr
    BY <2>2 DEF write_log, commit_done, diskVars
  <2>3. ASSUME NEW p \in Proc, clear_head(p) PROVE home' = home /\ hdr' = <<>>
    BY <2>3 DEF clear_head
  <2>4. CASE UNCHANGED vars
    BY <2>4 DEF vars
  <2>5. ASSUME NEW p \in Proc, NEW b \in Block, NEW c \in Content, Modify(p, b, c)
        PROVE  home' = home /\ hdr' = hdr
    BY <2>5 DEF Modify, diskVars
  <2>6. ASSUME NEW b \in Block, Evict(b) PROVE home' = home /\ hdr' = hdr
    BY <2>6 DEF Evict, diskVars
  <2>7. CASE read_head
    BY <2>7 DEF read_head, read_head_ok, Panics, diskVars
  <2>8. CASE recover_clear
    BY <2>8 DEF recover_clear
  <2> QED
    BY <2>1, <2>2, <2>3, <2>4, <2>5, <2>6, <2>7, <2>8
       DEF Next, CommitStep, Recover
<1> QED
  BY <1>1, <1>2, <1>3, <1>4, <1>5, <1>6, <1>7

\* The write order of commit and recovery: a home block is only overwritten
\* while the durable header names it, and a header that names blocks only
\* reaches the disk after the data of each of them, crashes included.
THEOREM WritesOrdered == Spec => RedoOrdering
<1>1. IInv /\ [Next]_vars => [Ordered]_vars
  BY StepOrdered
<1> QED
  BY <1>1, InvariantHolds, PTL DEF Spec, RedoOrdering, Ordered

-----------------------------------------------------------------------------
(* The log implements the atomic disk.                                     *)

\* The two cases of Replay.
LEMMA ReplayNamed ==
  ASSUME NEW h, NEW s, NEW d, Distinct(d),
         NEW i \in 1 .. Len(d), d[i] \in Block
  PROVE  Replay(h, s, d)[d[i]] = s[i]
<1>1. (CHOOSE j \in 1 .. Len(d) : d[j] = d[i]) = i
  BY DEF Distinct
<1> QED
  BY <1>1 DEF Replay

\* A block the header does not name keeps its content.
LEMMA ReplayOther ==
  ASSUME NEW h, NEW s, NEW d, NEW b \in Block,
         \A i \in 1 .. Len(d) : d[i] # b
  PROVE  Replay(h, s, d)[b] = h[b]
BY DEF Replay

\* An empty header replays nothing.
LEMMA ReplayEmpty ==
  ASSUME NEW h \in [Block -> Content], NEW s
  PROVE  Replay(h, s, <<>>) = h
BY SMTT(30) DEF Replay

\* Replaying what has been installed already changes nothing.
LEMMA ReplayInstalled ==
  ASSUME NEW h \in [Block -> Content], NEW s, NEW d \in Seq(Block), Distinct(d),
         \A i \in 1 .. Len(d) : h[d[i]] = s[i]
  PROVE  Replay(h, s, d) = h
<1>1. ASSUME NEW b \in Block PROVE Replay(h, s, d)[b] = h[b]
  <2>1. CASE \A i \in 1 .. Len(d) : d[i] # b
    BY <2>1, ReplayOther, SMTT(30)
  <2>2. CASE \E i \in 1 .. Len(d) : d[i] = b
    <3>1. PICK i \in 1 .. Len(d) : d[i] = b
      BY <2>2
    <3> QED
      BY <3>1, ReplayNamed, SMTT(30)
  <2> QED
    BY <2>1, <2>2
<1> QED
  BY <1>1 DEF Replay

\* Home blocks named by the header do not matter.
LEMMA ReplayCovers ==
  ASSUME NEW g, NEW h, NEW s, NEW d,
         \A b \in Block : (\E i \in 1 .. Len(d) : d[i] = b) \/ g[b] = h[b]
  PROVE  Replay(g, s, d) = Replay(h, s, d)
BY DEF Replay

\* The initial states of the log are initial states of the atomic disk.
LEMMA InitAD == Init => AD!Init
<1> SUFFICES ASSUME Init PROVE AD!Init
  OBVIOUS
<1>1. home \in [Block -> Content] /\ hdr = <<>> /\ boot = "read_head"
  BY DEF Init
<1>2. Durable = home
  BY <1>1, ReplayEmpty DEF Durable
<1>3. Active = {}
  BY DEF Init, Active
<1> QED
  BY <1>1, <1>2, <1>3 DEF AD!Init, Current

\* Begin, update and end of an operation.
LEMMA OperationAD ==
  ASSUME IInv, NEW p \in Proc, Operation(p)
  PROVE  [AD!Next]_(AD!vars)
<1> USE DEF diskVars, memVars, opVars
<1>1. Durable' = Durable /\ Current' = Current
  <2>1. UNCHANGED <<home, slot, hdr, cache, boot>>
    <3>1. CASE begin_op(p)
      BY <3>1 DEF begin_op, begin_wait, begin_admit
    <3>2. CASE log_write(p)
      BY <3>2, LogWriteStep DEF Panics, log_absorb, log_append
    <3>3. CASE end_op(p)
      BY <3>3, EndOpStep DEF end_last, end_other
    <3> QED
      BY <3>1, <3>2, <3>3 DEF Operation
  <2> QED
    BY <2>1 DEF Durable, Current
<1>2. Active' \in {Active, Active \cup {p}, Active \ {p}}
  <2>1. pc \in [Proc -> PC]
    BY DEF IInv, TypeOK, ControlTypeOK
  <2>2. CASE begin_op(p)
    BY <2>1, <2>2 DEF begin_op, begin_wait, begin_admit, Active
  <2>3. CASE log_write(p)
    BY <2>3, LogWriteStep DEF Panics, log_absorb, log_append, Active
  <2>4. CASE end_last(p)
    BY <2>1, <2>4 DEF end_last, CommitStart, Active
  <2>5. CASE end_other(p)
    BY <2>1, <2>5, WakeupKeeps DEF end_other, Active
  <2> QED
    BY <2>2, <2>3, <2>4, <2>5, EndOpStep DEF Operation
<1>3. CASE Active' = Active
  BY <1>1, <1>3 DEF AD!vars
<1>4. CASE Active' = Active \cup {p}
  BY <1>1, <1>4 DEF AD!Next, AD!Begin
<1>5. CASE Active' = Active \ {p}
  BY <1>1, <1>5 DEF AD!Next, AD!End
<1> QED
  BY <1>2, <1>3, <1>4, <1>5

\* An update of a buffer is a Write of the atomic disk.
LEMMA ModifyAD ==
  ASSUME IInv, NEW p \in Proc, NEW b \in Block, NEW c \in Content,
         Modify(p, b, c)
  PROVE  [AD!Next]_(AD!vars)
<1>1. /\ Durable' = Durable /\ Active' = Active /\ p \in Active
      /\ Current' = [Current EXCEPT ![b] = c]
  BY DEF Modify, Running, Durable, Current, Active, diskVars
<1>2. AD!Write(p, b, c)
  BY <1>1 DEF AD!Write
<1> QED
  BY <1>2 DEF AD!Next

\* write_log changes slots that no durable header names.
LEMMA WriteLogAD ==
  ASSUME IInv, NEW p \in Proc, write_log(p)
  PROVE  UNCHANGED AD!vars
<1>1. pc[p] \in CommitPC /\ pc \in [Proc -> PC] /\ home \in [Block -> Content]
  BY DEF write_log, CommitPC, IInv, TypeOK, DataTypeOK, ControlTypeOK
<1>2. \A q \in Proc : q # p => pc[q] \notin CommitPC
  BY <1>1, CommitterAlone
<1>3. hdr = <<>>
  BY <1>1, <1>2 DEF write_log, Running, IInv, HeaderInv, CommitPC
<1>4. Durable' = home /\ Durable = home
  BY <1>1, <1>3, ReplayEmpty DEF write_log, Durable
<1>5. Current' = Current
  BY <1>4 DEF write_log, Current, memVars, Running
<1>6. Active' = Active
  BY <1>1 DEF write_log, Active
<1> QED
  BY <1>4, <1>5, <1>6 DEF AD!vars

\* write_head is the commit point: from here on recovery yields the cache.
LEMMA WriteHeadAD ==
  ASSUME IInv, NEW p \in Proc, write_head(p)
  PROVE  AD!Commit
<1> USE DEF write_head, Running, memVars
<1>1. pc[p] \in CommitPC /\ pc \in [Proc -> PC]
  BY DEF CommitPC, IInv, TypeOK, ControlTypeOK
<1>2. /\ \A q \in Proc : pc[q] # "op" /\ hold[q] = NoBlock
      /\ \A q \in Proc : q # p => pc[q] \notin CommitPC
      /\ Active = {}
  BY <1>1, CommitterAlone
<1>3. Active' = {}
  BY <1>1, <1>2 DEF Active
<1>4. /\ lh \in Seq(Block) /\ Distinct(lh)
      /\ cache \in [Block -> Content] /\ home \in [Block -> Content]
  BY DEF IInv, TypeOK, DataTypeOK, HeaderInv
<1>5. ASSUME NEW b \in Block PROVE Replay(home, slot, lh)[b] = cache[b]
  <2>1. CASE \E i \in 1 .. Len(lh) : lh[i] = b
    <3>1. PICK i \in 1 .. Len(lh) : lh[i] = b
      BY <2>1
    <3>2. slot[i] = cache[b]
      BY <3>1 DEF IInv, StageInv
    <3> QED
      BY <1>4, <3>1, <3>2, ReplayNamed, SMTT(30)
  <2>2. CASE \A i \in 1 .. Len(lh) : lh[i] # b
    <3>1. pinned[b] = 0
      BY <2>2 DEF IInv, PinInv
    <3>2. cache[b] = home[b]
      BY <1>2, <3>1, LogAssumption DEF IInv, RecyclableIsClean
    <3> QED
      BY <2>2, <3>2, ReplayOther, SMTT(30)
  <2> QED
    BY <2>1, <2>2
<1>6. Replay(home, slot, lh) = cache
  BY <1>4, <1>5 DEF Replay
<1>7. Durable' = Current /\ Current' = Current
  BY <1>6 DEF Durable, Current
<1> QED
  BY <1>2, <1>3, <1>7 DEF AD!Commit

\* Installation overwrites home blocks that the durable header names.
LEMMA InstallAD ==
  ASSUME IInv, NEW p \in Proc, install_trans(p)
  PROVE  UNCHANGED AD!vars
<1> USE DEF install_trans, Running
<1>1. pc \in [Proc -> PC] /\ home \in [Block -> Content] /\ lh \in Seq(Block)
      /\ cache \in [Block -> Content] /\ tail \in Nat
  BY DEF IInv, TypeOK, DataTypeOK, ControlTypeOK
<1> DEFINE b == lh[tail + 1]
<1>2. tail + 1 \in 1 .. Len(lh) /\ b \in Block /\ hdr = lh
      /\ cache[b] = slot[tail + 1]
  BY <1>1, SMTT(30) DEF IInv, StageInv, HeaderInv
<1>3. cache' = cache
  BY <1>1, <1>2
<1>4. Durable' = Durable
  <2>1. \A d \in Block : (\E i \in 1 .. Len(hdr) : hdr[i] = d) \/ home'[d] = home[d]
    BY <1>1, <1>2
  <2>2. slot' = slot /\ hdr' = hdr
    OBVIOUS
  <2> HIDE DEF install_trans
  <2>3. Replay(home', slot, hdr) = Replay(home, slot, hdr)
    BY <2>1, ReplayCovers, SMTT(30)
  <2> QED
    BY <2>2, <2>3 DEF Durable
<1>5. Active' = Active
  BY <1>1 DEF Active
<1> QED
  BY <1>3, <1>4, <1>5 DEF AD!vars, Current

\* Clearing the header after installation loses nothing.
LEMMA ClearHeadAD ==
  ASSUME IInv, NEW p \in Proc, clear_head(p)
  PROVE  UNCHANGED AD!vars
<1> USE DEF clear_head, Running
<1>1. /\ pc \in [Proc -> PC] /\ home \in [Block -> Content]
      /\ hdr \in Seq(Block) /\ Distinct(hdr) /\ hdr = lh
  BY DEF IInv, TypeOK, DataTypeOK, ControlTypeOK, HeaderInv
<1>2. \A i \in 1 .. Len(hdr) : home[hdr[i]] = slot[i]
  BY <1>1 DEF IInv, StageInv
<1>3. Durable = home
  BY <1>1, <1>2, ReplayInstalled, SMTT(30) DEF Durable
<1>4. Durable' = home
  BY <1>1, ReplayEmpty DEF Durable
<1>5. Active' = Active
  BY <1>1 DEF Active
<1> QED
  BY <1>3, <1>4, <1>5 DEF AD!vars, Current

\* The end of a commit is invisible in the atomic disk.
LEMMA CommitDoneAD ==
  ASSUME IInv, NEW p \in Proc, commit_done(p)
  PROVE  UNCHANGED AD!vars
<1>1. pc \in [Proc -> PC]
  BY DEF IInv, TypeOK, ControlTypeOK
<1>2. Active' = Active
  BY <1>1, WakeupKeeps DEF commit_done, Active
<1> QED
  BY <1>2 DEF commit_done, AD!vars, Durable, Current, diskVars, memVars

\* Recycling a clean buffer is invisible in the atomic disk.
LEMMA EvictAD ==
  ASSUME IInv, NEW b \in Block, Evict(b)
  PROVE  UNCHANGED AD!vars
<1>1. cache' = cache
  BY EvictStep
<1> QED
  BY <1>1 DEF Evict, AD!vars, Durable, Current, Active, diskVars

\* Recovery does not change what is durable.
LEMMA RecoverAD ==
  ASSUME IInv, Recover
  PROVE  UNCHANGED AD!vars
<1>1. /\ home \in [Block -> Content] /\ hdr \in Seq(Block) /\ Distinct(hdr)
      /\ tail \in Nat
  BY DEF IInv, TypeOK, DataTypeOK, ControlTypeOK, HeaderInv
<1>2. CASE read_head
  <2>1. read_head_ok /\ boot = "read_head"
    BY <1>2, ReadHeadAccepts DEF read_head
  <2> QED
    BY <2>1 DEF read_head_ok, AD!vars, Durable, Current, Active, diskVars
<1>3. CASE recover_install
  <2>1. boot = "install" /\ lh = hdr /\ tail < Len(lh) /\ boot' # "up"
    BY <1>3 DEF recover_install, IInv, HeaderInv, RecoveryInv
  <2>2. tail + 1 \in 1 .. Len(hdr) /\ hdr[tail + 1] \in Block
    BY <1>1, <2>1, SMTT(30)
  <2>3. Durable' = Durable
    <3>1. \A d \in Block : (\E i \in 1 .. Len(hdr) : hdr[i] = d) \/ home'[d] = home[d]
      BY <1>1, <1>3, <2>1, <2>2 DEF recover_install
    <3>2. Replay(home', slot, hdr) = Replay(home, slot, hdr)
      BY <3>1, ReplayCovers, SMTT(30)
    <3> QED
      BY <1>3, <3>2 DEF recover_install, Durable
  <2> QED
    BY <1>3, <2>1, <2>3 DEF recover_install, AD!vars, Current, Active
<1>4. CASE recover_clear
  <2>1. /\ boot = "clear_head" /\ lh = hdr /\ cache = home /\ boot' = "up"
        /\ \A i \in 1 .. Len(hdr) : home[hdr[i]] = slot[i]
    BY <1>4 DEF recover_clear, IInv, HeaderInv, RecoveryInv
  <2>2. Durable = home
    BY <1>1, <2>1, ReplayInstalled, SMTT(30) DEF Durable
  <2>3. Durable' = home
    BY <1>1, <1>4, ReplayEmpty DEF recover_clear, Durable
  <2> QED
    BY <1>4, <2>1, <2>2, <2>3 DEF recover_clear, AD!vars, Current, Active
<1> QED
  BY <1>2, <1>3, <1>4 DEF Recover

\* A crash, wherever it falls, leaves the durable state alone.
LEMMA CrashAD ==
  ASSUME IInv, Crash
  PROVE  AD!Crash
<1>1. home \in [Block -> Content]
  BY DEF IInv, TypeOK, DataTypeOK
<1>2. Durable' = Durable
  <2>1. CASE home' = home /\ slot' = slot
    BY <2>1, CrashDisk DEF Durable
  <2>2. CASE home' = home /\ hdr = <<>>
    BY <1>1, <2>2, CrashDisk, ReplayEmpty DEF Durable
  <2>3. ASSUME NEW b \in Block, NEW c \in Content,
               home' = [home EXCEPT ![b] = c], slot' = slot,
               \E i \in 1 .. Len(hdr) : hdr[i] = b
        PROVE  Durable' = Durable
    <3>1. \A d \in Block : (\E i \in 1 .. Len(hdr) : hdr[i] = d) \/ home'[d] = home[d]
      BY <1>1, <2>3
    <3>2. Replay(home', slot, hdr) = Replay(home, slot, hdr)
      BY <3>1, ReplayCovers, SMTT(30)
    <3>3. hdr' = hdr
      BY CrashDisk
    <3> QED
      BY <2>3, <3>2, <3>3 DEF Durable
  <2> QED
    BY <2>1, <2>2, <2>3, CrashDisk
<1>3. Active' = {} /\ Current' = Durable'
  BY DEF Crash, Restart, Active, Current
<1> QED
  BY <1>2, <1>3 DEF AD!Crash

\* Every step of the log is a step of the atomic disk or a stutter.
LEMMA NextAD == IInv /\ [Next]_vars => [AD!Next]_(AD!vars)
<1> SUFFICES ASSUME IInv, [Next]_vars PROVE [AD!Next]_(AD!vars)
  OBVIOUS
<1>1. CASE UNCHANGED vars
  BY <1>1 DEF vars, AD!vars, Durable, Current, Active
<1>2. ASSUME NEW p \in Proc, Operation(p) PROVE [AD!Next]_(AD!vars)
  BY <1>2, OperationAD
<1>3. ASSUME NEW p \in Proc, CommitStep(p) PROVE [AD!Next]_(AD!vars)
  <2>1. CASE write_head(p)
    BY <2>1, WriteHeadAD DEF AD!Next
  <2> QED
    BY <1>3, <2>1, WriteLogAD, InstallAD, ClearHeadAD, CommitDoneAD DEF CommitStep
<1>4. ASSUME NEW p \in Proc, NEW b \in Block, NEW c \in Content,
             Modify(p, b, c)
      PROVE  [AD!Next]_(AD!vars)
  BY <1>4, ModifyAD
<1>5. ASSUME NEW b \in Block, Evict(b) PROVE [AD!Next]_(AD!vars)
  BY <1>5, EvictAD
<1>6. CASE Recover
  BY <1>6, RecoverAD
<1>7. CASE Crash
  BY <1>7, CrashAD DEF AD!Next
<1> QED
  BY <1>1, <1>2, <1>3, <1>4, <1>5, <1>6, <1>7 DEF Next

\* The log implements the atomic disk: whatever the interleaving of
\* operations, the position of crashes (torn writes included) and the sizes,
\* a restart finds all the updates of a group of finished operations or none.
THEOREM Implements == Spec => AtomicCommit
<1>1. Init => AD!Init
  BY InitAD
<1>2. IInv /\ [Next]_vars => [AD!Next]_(AD!vars)
  BY NextAD
<1> QED
  BY <1>1, <1>2, InvariantHolds, PTL DEF Spec, AtomicCommit, AD!Spec

-----------------------------------------------------------------------------
(* A finished group is durable.                                            *)

\* No step leaves entries in the header of a log that nobody uses.
LEMMA NextQuietLog ==
  ASSUME IInv, QuietLog, [Next]_vars
  PROVE  QuietLog'
<1> USE DEF diskVars, memVars, opVars
<1>t. pc \in [Proc -> PC]
  BY DEF IInv, TypeOK, ControlTypeOK
<1>1. CASE UNCHANGED vars
  BY <1>1 DEF vars, QuietLog, Active
<1>2. ASSUME NEW p \in Proc, begin_op(p) PROVE QuietLog'
  <2>1. CASE begin_wait(p)
    <3>1. Active' = Active
      BY <1>t, <2>1 DEF begin_wait, Active
    <3> QED
      BY <2>1, <3>1 DEF begin_wait, QuietLog
  <2>2. CASE begin_admit(p)
    <3>1. p \in Active'
      BY <1>t, <2>2 DEF begin_admit, Active
    <3> QED
      BY <3>1 DEF QuietLog
  <2> QED
    BY <1>2, <2>1, <2>2 DEF begin_op
<1>3. ASSUME NEW p \in Proc, log_write(p) PROVE QuietLog'
  <2>1. pc[p] = "op"
    BY <1>3 DEF log_write, IInv, OpInv
  <2>2. pc' = pc
    BY <1>3, LogWriteStep DEF Panics, log_absorb, log_append
  <2>3. p \in Active'
    BY <2>1, <2>2 DEF Active
  <2> QED
    BY <2>3 DEF QuietLog
<1>4. ASSUME NEW p \in Proc, end_op(p) PROVE QuietLog'
  <2>1. CASE outstanding - 1 = 0
    <3>1. committing # 1
      BY <1>4, NoCommitter DEF end_op, IInv, CommitInv
    <3>2. end_last(p)
      BY <1>4, <2>1, <3>1 DEF end_op
    <3>3. committing' = 1
      BY ONLY <3>2 DEF end_last
    <3> QED
      BY ONLY <3>3 DEF QuietLog
  <2>2. CASE outstanding - 1 # 0
    <3>1. end_other(p) /\ pc[p] = "op"
      BY <1>4, <2>2, NoCommitter DEF end_op, IInv, CommitInv
    <3>2. Active' = Active \ {p}
      BY <1>t, <3>1, WakeupKeeps DEF end_other, Active
    <3>3. Cardinality(Active') # 0
      BY <2>2, <3>1, <3>2, ActiveRemove DEF IInv, OpInv
    <3>4. Active' # {}
      BY <3>3, FS_EmptySet
    <3> QED
      BY <3>4 DEF QuietLog
  <2> QED
    BY <2>1, <2>2
<1>5. ASSUME NEW p \in Proc, CommitStep(p) PROVE QuietLog'
  <2>1. CASE commit_done(p)
    BY <2>1 DEF commit_done, Running, QuietLog, IInv, StageInv
  <2>2. CASE ~commit_done(p)
    <3>1. pc[p] \in CommitPC
      BY <1>5, <2>2 DEF CommitStep, CommitPC, write_log, write_head,
         install_trans, clear_head
    <3>2. committing = 1
      BY <3>1, CommitterAlone
    <3>3. committing' = committing
      BY <1>5, <2>2 DEF CommitStep, write_log, write_head, install_trans,
         clear_head
    <3> QED
      BY <3>2, <3>3, SMTT(30) DEF QuietLog
  <2> QED
    BY <2>1, <2>2
<1>6. ASSUME NEW p \in Proc, NEW b \in Block, NEW c \in Content,
             Modify(p, b, c)
      PROVE  QuietLog'
  BY <1>6 DEF Modify, QuietLog, Active
<1>7. ASSUME NEW b \in Block, Evict(b) PROVE QuietLog'
  BY <1>7 DEF Evict, QuietLog, Active
<1>8. CASE Recover
  <2>1. CASE read_head
    BY <2>1, ReadHeadAccepts DEF read_head_ok, QuietLog
  <2>2. CASE recover_install
    BY <2>2 DEF recover_install, QuietLog
  <2>3. CASE recover_clear
    BY <2>3 DEF recover_clear, QuietLog
  <2> QED
    BY <1>8, <2>1, <2>2, <2>3 DEF Recover
<1>9. CASE Crash
  BY <1>9 DEF Crash, Restart, QuietLog
<1> QED
  BY <1>1, <1>2, <1>3, <1>4, <1>5, <1>6, <1>7, <1>8, <1>9
  DEF Next, Operation

\* An empty log means that the cache, the home blocks and the durable state
\* agree.
LEMMA QuietDurable ==
  ASSUME IInv, QuietLog
  PROVE  QuietIsDurable
<1> SUFFICES ASSUME boot = "up", committing = 0, Active = {}
             PROVE  Durable = Current
  BY DEF QuietIsDurable
<1>1. lh = <<>>
  BY DEF QuietLog
<1>2. \A p \in Proc : pc[p] \notin CommitPC /\ hold[p] = NoBlock
  BY SMTT(30) DEF IInv, CommitInv, OpInv, Active
<1>3. hdr = <<>>
  BY <1>2 DEF IInv, HeaderInv, CommitPC
<1>4. home \in [Block -> Content] /\ cache \in [Block -> Content]
  BY DEF IInv, TypeOK, DataTypeOK
<1>5. \A b \in Block : cache[b] = home[b]
  <2>1. \A b \in Block : pinned[b] = 0
    BY <1>1, SMTT(30) DEF IInv, PinInv
  <2> QED
    BY <1>2, <2>1 DEF IInv, RecyclableIsClean
<1>6. cache = home
  BY <1>4, <1>5, SMTT(30)
<1>7. Durable = home
  BY <1>3, <1>4, ReplayEmpty DEF Durable
<1> QED
  BY <1>6, <1>7 DEF Current

\* When the last end_op of a group has returned, the updates of the whole
\* group survive any crash.
THEOREM Durability == Spec => []QuietIsDurable
<1>1. Init => QuietLog
  BY DEF Init, QuietLog
<1>2. IInv /\ QuietLog /\ [Next]_vars => QuietLog'
  BY NextQuietLog
<1>3. IInv /\ QuietLog => QuietIsDurable
  BY QuietDurable
<1> QED
  BY <1>1, <1>2, <1>3, InvariantHolds, PTL DEF Spec
-----------------------------------------------------------------------------
(* Nobody sleeps in begin_op without a reason and without a waker.         *)

\* A reason to wait stays one while the header and the number of open
\* operations do not shrink.
LEMMA StillMustWait ==
  ASSUME IInv, MustWait, committing' = committing,
         Len(lh') \in Nat, Len(lh) <= Len(lh'),
         outstanding' = outstanding \/ outstanding' = outstanding + 1
  PROVE  MustWait'
<1>t. outstanding \in Nat /\ Len(lh) \in Nat
  BY SMTT(30) DEF IInv, TypeOK, DataTypeOK, ControlTypeOK
<1>1. CASE committing = 1
  BY <1>1 DEF MustWait
<1>2. CASE committing # 1
  <2> DEFINE r == (outstanding + 1) * MAXOPBLOCKS
             n == (outstanding' + 1) * MAXOPBLOCKS
  <2>1. r \in Nat /\ n \in Nat /\ r <= n
    <3>1. r \in Nat /\ ((outstanding + 1) + 1) * MAXOPBLOCKS = r + MAXOPBLOCKS
      BY <1>t, OneMore, SMTT(30)
    <3> QED
      BY <3>1, SMTT(30)
  <2>2. Len(lh) + r > LOGSIZE
    BY <1>2 DEF MustWait
  <2> HIDE DEF r, n
  <2>3. Len(lh') + n > LOGSIZE
    BY <1>t, <2>1, <2>2, SMTT(30)
  <2> QED
    BY <2>3 DEF MustWait, n
<1> QED
  BY <1>1, <1>2

\* Who is asleep has a reason: the part of SleepersHaveWaker that is inductive.
SleepInv == \A p \in Proc : pc[p] = "asleep" => MustWait

\* Every end of a reason to sleep wakes the sleepers.
LEMMA NextSleep ==
  ASSUME IInv, SleepInv, [Next]_vars
  PROVE  SleepInv'
<1> USE DEF diskVars, memVars, opVars
<1>t. /\ pc \in [Proc -> PC] /\ lh \in Seq(Block) /\ Len(lh) \in Nat
      /\ hold \in [Proc -> Block \cup {NoBlock}]
  BY SMTT(30) DEF IInv, TypeOK, DataTypeOK, ControlTypeOK
<1>0. ASSUME \A q \in Proc : pc'[q] = "asleep" => pc[q] = "asleep",
             lh' = lh, committing' = committing, outstanding' = outstanding
      PROVE  SleepInv'
  BY <1>0 DEF SleepInv, MustWait
<1>1. CASE UNCHANGED vars
  BY <1>0, <1>1 DEF vars
<1>2. ASSUME NEW p \in Proc, begin_wait(p) PROVE SleepInv'
  <2>1. MustWait'
    BY <1>2 DEF begin_wait, MustWait
  <2> QED
    BY <2>1 DEF SleepInv
<1>3. ASSUME NEW p \in Proc, begin_admit(p) PROVE SleepInv'
  <2>1. /\ lh' = lh /\ committing' = committing
        /\ outstanding' = outstanding + 1 /\ pc' = [pc EXCEPT ![p] = "op"]
    BY <1>3 DEF begin_admit
  <2>2. ASSUME NEW q \in Proc, pc'[q] = "asleep" PROVE MustWait'
    <3>1. MustWait
      BY <1>t, <2>1, <2>2 DEF SleepInv
    <3> QED
      BY <1>t, <2>1, <3>1, StillMustWait, SMTT(30)
  <2> QED
    BY <2>2 DEF SleepInv
<1>4. ASSUME NEW p \in Proc, log_write(p) PROVE SleepInv'
  <2>1. CASE log_append(p)
    <3>1. /\ lh' = Append(lh, hold[p]) /\ committing' = committing
          /\ outstanding' = outstanding /\ pc' = pc
      BY <2>1 DEF log_append
    <3>2. hold[p] \in Block
      BY <1>t, <1>4 DEF log_write
    <3>3. Len(lh') = Len(lh) + 1
      BY <1>t, <3>1, <3>2, SMTT(30)
    <3>4. MustWait => MustWait'
      BY <1>t, <3>1, <3>3, StillMustWait, SMTT(30)
    <3> QED
      BY <3>1, <3>4 DEF SleepInv
  <2>2. CASE Panics("too big a transaction") \/ log_absorb(p)
    BY <1>0, <2>2 DEF Panics, log_absorb
  <2> QED
    BY <1>4, <2>1, <2>2, LogWriteStep
<1>5. ASSUME NEW p \in Proc, end_op(p) PROVE SleepInv'
  <2>1. CASE end_last(p)
    BY <2>1 DEF end_last, SleepInv, MustWait
  <2>2. CASE end_other(p)
    BY <2>2 DEF end_other, WakeupLog, SleepInv
  <2> QED
    BY <1>5, <2>1, <2>2, EndOpStep
<1>6. ASSUME NEW p \in Proc, CommitStep(p) PROVE SleepInv'
  <2>1. CASE commit_done(p)
    BY <2>1 DEF commit_done, WakeupLog, SleepInv
  <2>2. CASE ~commit_done(p)
    <3>1. pc[p] \in CommitPC
      BY <1>6, <2>2 DEF CommitStep, CommitPC, write_log, write_head,
         install_trans, clear_head
    <3>2. committing = 1
      BY <3>1, CommitterAlone
    <3>3. committing' = committing
      BY <1>6, <2>2 DEF CommitStep, write_log, write_head, install_trans,
         clear_head
    <3> QED
      BY <3>2, <3>3 DEF SleepInv, MustWait
  <2> QED
    BY <2>1, <2>2
<1>7. ASSUME NEW p \in Proc, NEW b \in Block, NEW c \in Content,
             Modify(p, b, c)
      PROVE  SleepInv'
  BY <1>0, <1>7 DEF Modify
<1>8. ASSUME NEW b \in Block, Evict(b) PROVE SleepInv'
  BY <1>0, <1>8 DEF Evict
<1>9. CASE Recover
  <2>1. boot # "up" /\ pc' = pc
    BY <1>9, ReadHeadAccepts DEF Recover, read_head, read_head_ok,
       recover_install, recover_clear
  <2>2. \A q \in Proc : pc[q] = "idle"
    BY <2>1 DEF IInv, RecoveryInv
  <2> QED
    BY <2>1, <2>2 DEF SleepInv
<1>10. CASE Crash
  BY <1>10 DEF Crash, Restart, SleepInv
<1> QED
  BY <1>1, <1>2, <1>3, <1>4, <1>5, <1>6, <1>7, <1>8, <1>9, <1>10
  DEF Next, Operation, begin_op

\* A log that nobody uses is empty, and admits an operation.
LEMMA WakerExists ==
  ASSUME IInv, QuietLog, SleepInv
  PROVE  SleepersHaveWaker
<1> SUFFICES ASSUME NEW p \in Proc, pc[p] = "asleep", MAXOPBLOCKS <= LOGSIZE,
                    \A q \in Proc : pc[q] # "op" /\ pc[q] \notin CommitPC
             PROVE  FALSE
  BY DEF SleepersHaveWaker, SleepInv
<1>1. boot = "up"
  BY DEF IInv, RecoveryInv
<1>2. committing = 0
  BY DEF IInv, CommitInv, TypeOK, ControlTypeOK
<1>3. Active = {} /\ outstanding = 0
  BY FS_EmptySet DEF Active, IInv, OpInv
<1>4. Len(lh) = 0
  BY <1>1, <1>2, <1>3, SMTT(30) DEF QuietLog
<1>5. MustWait
  BY DEF SleepInv
<1> QED
  BY <1>2, <1>3, <1>4, <1>5, SMTT(30) DEF MustWait

\* No wakeup of &log is lost: begin_op's condition still holds for whoever
\* sleeps in it, and an operation is open or a commit in progress, which ends
\* with wakeup(&log).
THEOREM WakerLeft == Spec => []SleepersHaveWaker
<1>1. Init => QuietLog /\ SleepInv
  BY DEF Init, QuietLog, SleepInv
<1>2. IInv /\ QuietLog /\ [Next]_vars => QuietLog'
  BY NextQuietLog
<1>3. IInv /\ SleepInv /\ [Next]_vars => SleepInv'
  BY NextSleep
<1>4. IInv /\ QuietLog /\ SleepInv => SleepersHaveWaker
  BY WakerExists
<1> QED
  BY <1>1, <1>2, <1>3, <1>4, InvariantHolds, PTL DEF Spec

-----------------------------------------------------------------------------
(* Recovery ends after a bounded number of steps.                          *)

\* The steps of a machine that is booting.
LEMMA BootSteps ==
  ASSUME IInv, boot # "up", Next
  PROVE  \/ read_head_ok /\ boot = "read_head"
         \/ recover_install \/ recover_clear \/ Crash
<1>1. ~Running
  BY DEF Running
<1>2. \A p \in Proc : ~Operation(p) /\ ~CommitStep(p)
  BY <1>1 DEF Operation, begin_op, begin_wait, begin_admit, log_write, end_op,
     CommitStep, write_log, write_head, install_trans, clear_head, commit_done
<1>3. ~\E b \in Block : Evict(b) \/ \E p \in Proc, c \in Content : Modify(p, b, c)
  BY <1>1 DEF Evict, Modify
<1>4. CASE read_head
  BY <1>4, ReadHeadAccepts DEF read_head
<1> QED
  BY <1>2, <1>3, <1>4 DEF Next, Recover

\* A booting machine has not panicked.
BootAlive == boot # "up" => panicked = "none"

\* Only a machine that is up panics.
LEMMA NextBootAlive ==
  ASSUME IInv, BootAlive, [Next]_vars
  PROVE  BootAlive'
<1>1. CASE UNCHANGED vars
  BY <1>1 DEF vars, BootAlive
<1>2. CASE Next /\ boot # "up"
  BY <1>2, BootSteps DEF BootAlive, read_head_ok, recover_install,
     recover_clear, Crash, Restart
<1>3. CASE Next /\ boot = "up"
  <2>1. CASE Crash
    BY <2>1 DEF Crash, Restart, BootAlive
  <2>2. CASE ~Crash
    <3>1. boot' = boot
      <4>1. ~Recover
        BY <1>3 DEF Recover, read_head, recover_install, recover_clear
      <4>2. ASSUME NEW p \in Proc, Operation(p) PROVE boot' = boot
        <5>1. CASE begin_op(p)
          BY <5>1 DEF begin_op, begin_wait, begin_admit
        <5>2. CASE log_write(p)
          BY <5>2, LogWriteStep DEF Panics, log_absorb, log_append
        <5>3. CASE end_op(p)
          BY <5>3, EndOpStep DEF end_last, end_other
        <5> QED
          BY <4>2, <5>1, <5>2, <5>3 DEF Operation
      <4>3. ASSUME NEW p \in Proc, CommitStep(p) PROVE boot' = boot
        BY <4>3 DEF CommitStep, write_log, write_head, install_trans,
           clear_head, commit_done
      <4>4. ASSUME NEW p \in Proc, NEW b \in Block, NEW c \in Content,
                   Modify(p, b, c)
            PROVE  boot' = boot
        BY <4>4 DEF Modify
      <4>5. ASSUME NEW b \in Block, Evict(b) PROVE boot' = boot
        BY <4>5 DEF Evict
      <4> QED
        BY <1>3, <2>2, <4>1, <4>2, <4>3, <4>4, <4>5 DEF Next
    <3> QED
      BY <1>3, <3>1 DEF BootAlive
  <2> QED
    BY <2>1, <2>2
<1> QED
  BY <1>1, <1>2, <1>3

\* The steps left are counted by what the invariant says of the loop counter.
LEMMA LeftBounds ==
  ASSUME IInv, boot # "up"
  PROVE  Left \in 1 .. NLOG + 1
<1>1. /\ Len(lh) \in Nat /\ Len(lh) < NLOG /\ Len(hdr) \in Nat
      /\ Len(hdr) < NLOG /\ tail \in Nat
      /\ boot \in {"read_head", "install", "clear_head"}
      /\ boot = "install" => tail < Len(lh)
  BY SMTT(30) DEF IInv, TypeOK, DataTypeOK, ControlTypeOK, Boot, HeaderInv, RecoveryInv
<1> QED
  BY <1>1, SMTT(30) DEF Left

\* A crash apart, each step of recovery leaves fewer to come.
LEMMA LeftDecreases ==
  ASSUME IInv, boot # "up", Next, ~Crash
  PROVE  Left' < Left
<1>1. /\ Len(lh) \in Nat /\ Len(hdr) \in Nat /\ tail \in Nat
      /\ boot = "install" => tail < Len(lh)
  BY SMTT(30) DEF IInv, TypeOK, DataTypeOK, ControlTypeOK, RecoveryInv
<1>2. CASE read_head_ok /\ boot = "read_head"
  <2>1. /\ lh' = hdr /\ tail' = 0
        /\ boot' = IF Len(hdr) > 0 THEN "install" ELSE "clear_head"
    BY <1>2 DEF read_head_ok
  <2> QED
    BY <1>1, <1>2, <2>1, SMTT(30) DEF Left
<1>3. CASE recover_install
  <2>1. /\ lh' = lh /\ tail' = tail + 1 /\ boot = "install"
        /\ boot' = IF tail + 1 < Len(lh) THEN "install" ELSE "clear_head"
    BY <1>3 DEF recover_install
  <2> QED
    BY <1>1, <2>1, SMTT(30) DEF Left
<1>4. CASE recover_clear
  BY <1>4, SMTT(30) DEF recover_clear, Left
<1> QED
  BY <1>2, <1>3, <1>4, BootSteps

\* While initlog runs it does not panic, and has at most NLOG + 1 steps to go.
THEOREM RecoveryBounded == Spec => []RecoveryInBounds
<1>1. Init => BootAlive
  BY DEF Init, BootAlive
<1>2. IInv /\ BootAlive /\ [Next]_vars => BootAlive'
  BY NextBootAlive
<1>3. IInv /\ BootAlive => RecoveryInBounds
  BY LeftBounds DEF BootAlive, RecoveryInBounds
<1> QED
  BY <1>1, <1>2, <1>3, InvariantHolds, PTL DEF Spec

\* Every step of the booting machine but a crash brings initlog closer to its
\* end; with RecoveryBounded, a machine that does not crash again is up after
\* at most NLOG + 1 steps.
THEOREM RecoveryProgress == Spec => RecoveryAdvances
<1>1. IInv /\ [Next]_vars => [boot # "up" => Crash \/ Left' < Left]_vars
  BY LeftDecreases
<1> QED
  BY <1>1, InvariantHolds, PTL DEF Spec, RecoveryAdvances
=============================================================================
