--------------------------- MODULE RedoLogSteps ----------------------------
(***************************************************************************)
(* Every step of an operation, of a commit and of the buffer cache in      *)
(* RedoLog preserves the inductive invariant IInv, for any number of       *)
(* processes, blocks and sectors and any log size.                         *)
(***************************************************************************)
EXTENDS RedoLog, FiniteSetTheorems, TLAPS

USE LogAssumption

\* A step is left to Zenon unless it names SMT; each may take 30 seconds.
USE ZenonT(30)

-----------------------------------------------------------------------------
(* Counting the open operations.                                           *)

\* Active is finite, being a set of processes.
LEMMA ActiveFinite == IsFiniteSet(Active)
BY FS_Subset DEF Active

\* Entering an operation adds one to the count of open operations.
LEMMA ActiveAdd ==
  ASSUME NEW p \in Proc, pc[p] # "op", Active' = Active \cup {p}
  PROVE  Cardinality(Active') = Cardinality(Active) + 1
BY ActiveFinite, FS_AddElement DEF Active

\* Leaving an operation takes one off.
LEMMA ActiveRemove ==
  ASSUME NEW p \in Proc, pc[p] = "op", Active' = Active \ {p}
  PROVE  /\ Cardinality(Active') = Cardinality(Active) - 1
         /\ Cardinality(Active) - 1 \in Nat
         /\ Cardinality(Active) - 1 = 0 => Active' = {}
<1>1. p \in Active
  BY DEF Active
<1>2. /\ IsFiniteSet(Active \ {p})
      /\ Cardinality(Active \ {p}) = Cardinality(Active) - 1
  BY <1>1, ActiveFinite, FS_RemoveElement
<1>3. Cardinality(Active \ {p}) \in Nat
  BY <1>2, FS_CardinalityType
<1>4. Cardinality(Active \ {p}) = 0 => Active \ {p} = {}
  BY <1>2, FS_EmptySet
<1> QED
  BY <1>2, <1>3, <1>4

-----------------------------------------------------------------------------
(* Headers.                                                                *)

\* A header stays free of duplicates when a new block number is added.
LEMMA AppendDistinct ==
  ASSUME NEW S, NEW s \in Seq(S), NEW e \in S, Distinct(s),
         \A i \in 1 .. Len(s) : s[i] # e
  PROVE  Distinct(Append(s, e))
<1> DEFINE t == Append(s, e)
<1>1. /\ Len(t) = Len(s) + 1 /\ t[Len(s) + 1] = e
      /\ \A i \in 1 .. Len(s) : t[i] = s[i]
  BY SMTT(30)
<1>2. Len(s) \in Nat
  BY SMTT(30)
<1> HIDE DEF t
<1>3. ASSUME NEW i \in 1 .. Len(t), NEW j \in 1 .. Len(t), t[i] = t[j]
      PROVE  i = j
  <2>1. CASE i = Len(s) + 1 /\ j = Len(s) + 1
    BY <2>1
  <2>2. CASE i # Len(s) + 1 /\ j # Len(s) + 1
    BY <1>1, <1>2, <1>3, <2>2, SMTT(30) DEF Distinct
  <2>3. CASE i = Len(s) + 1 /\ j # Len(s) + 1
    BY <1>1, <1>2, <1>3, <2>3, SMTT(30)
  <2>4. CASE i # Len(s) + 1 /\ j = Len(s) + 1
    BY <1>1, <1>2, <1>3, <2>4, SMTT(30)
  <2> QED
    BY <2>1, <2>2, <2>3, <2>4
<1> QED
  BY <1>3 DEF Distinct, t

-----------------------------------------------------------------------------
(* The initial states.                                                     *)

\* The content of a fresh log slot is a block content.
LEMMA ZeroType == Zero \in Content
BY DEF Zero, Content

\* The image mkfs writes satisfies the inductive invariant.
LEMMA InitIInv == Init => IInv
<1> SUFFICES ASSUME Init PROVE IInv
  OBVIOUS
<1>0. DataTypeOK
  BY ZeroType, SMTT(30) DEF Init, DataTypeOK
<1>1. ControlTypeOK
  BY DEF Init, ControlTypeOK, Boot, PC, Panic
<1>2. OpInv
  <2>1. Active = {}
    BY DEF Init, Active
  <2> QED
    BY <2>1, FS_EmptySet DEF Init, OpInv
<1>3. CommitInv
  BY SMTT(30) DEF Init, CommitInv, CommitPC
<1>4. HeaderInv
  BY SMTT(30) DEF Init, HeaderInv, Distinct
<1>5. StageInv /\ PinInv /\ RecyclableIsClean /\ RecoveryInv /\ NoProtocolPanic
  BY DEF Init, StageInv, PinInv, RecyclableIsClean, RecoveryInv, NoProtocolPanic
<1> QED
  BY <1>0, <1>1, <1>2, <1>3, <1>4, <1>5 DEF IInv, TypeOK

-----------------------------------------------------------------------------
(* One lemma per action: it preserves the inductive invariant.             *)

\* The values the control variables take are in their types.
LEMMA Names ==
  /\ "idle" \in PC /\ "asleep" \in PC /\ "woken" \in PC /\ "op" \in PC
  /\ "write_log" \in PC /\ "write_head" \in PC /\ "install" \in PC
  /\ "clear_head" \in PC /\ "commit_done" \in PC
  /\ "read_head" \in Boot /\ "install" \in Boot /\ "clear_head" \in Boot
  /\ "up" \in Boot
  /\ "none" \in Panic /\ "too big a transaction" \in Panic
BY DEF PC, CommitPC, Boot, Panic

\* begin_op's sleep on &log preserves the invariant.
LEMMA BeginWait ==
  ASSUME IInv, NEW p \in Proc, begin_wait(p)
  PROVE  IInv'
<1> USE DEF IInv, TypeOK, begin_wait, Running,
            diskVars, memVars, opVars
<1>1. DataTypeOK'
  BY DEF DataTypeOK
<1>2. ControlTypeOK'
  BY Names DEF ControlTypeOK
<1>3. Active' = Active
  BY SMTT(30) DEF Active
<1>4. OpInv'
  BY <1>3, SMTT(30) DEF OpInv
<1>5. CommitInv'
  BY <1>3, SMTT(30) DEF CommitInv, CommitPC
<1>6. HeaderInv'
  BY SMTT(30) DEF HeaderInv, Distinct
<1>7. StageInv'
  BY SMTT(30) DEF StageInv
<1>8. PinInv'
  BY SMTT(30) DEF PinInv, Installed
<1>9. RecyclableIsClean' /\ RecoveryInv' /\ NoProtocolPanic'
  BY DEF RecyclableIsClean, RecoveryInv, NoProtocolPanic
<1> QED
  BY <1>1, <1>2, <1>4, <1>5, <1>6, <1>7, <1>8, <1>9

\* begin_op's admission preserves the invariant: no commit is in progress.
LEMMA BeginAdmit ==
  ASSUME IInv, NEW p \in Proc, begin_admit(p)
  PROVE  IInv'
<1> USE DEF IInv, TypeOK, begin_admit, Running,
            diskVars, memVars, opVars
<1>1. DataTypeOK'
  BY DEF DataTypeOK
<1>2. ControlTypeOK'
  <2>1. outstanding' \in Nat
    BY SMTT(30) DEF ControlTypeOK
  <2>2. pc' \in [Proc -> PC]
    BY Names DEF ControlTypeOK
  <2> QED
    BY <2>1, <2>2 DEF ControlTypeOK
<1>3. Active' = Active \cup {p}
  BY DEF Active, ControlTypeOK
<1>4. OpInv'
  BY <1>3, ActiveAdd, SMTT(30) DEF OpInv
<1>5. CommitInv'
  BY SMTT(30) DEF CommitInv, CommitPC, MustWait
<1>6. HeaderInv'
  BY SMTT(30) DEF HeaderInv, Distinct
<1>7. StageInv'
  BY SMTT(30) DEF StageInv
<1>8. PinInv'
  BY SMTT(30) DEF PinInv, Installed
<1>9. RecyclableIsClean' /\ RecoveryInv' /\ NoProtocolPanic'
  BY DEF RecyclableIsClean, RecoveryInv, NoProtocolPanic
<1> QED
  BY <1>1, <1>2, <1>4, <1>5, <1>6, <1>7, <1>8, <1>9

\* Changing a buffer inside an operation preserves the invariant.
LEMMA ModifyStep ==
  ASSUME IInv, NEW p \in Proc, NEW b \in Block, NEW c \in Content,
         Modify(p, b, c)
  PROVE  IInv'
<1> USE DEF IInv, TypeOK, Modify, Running,
            diskVars, memVars, opVars
<1>1. DataTypeOK' /\ ControlTypeOK'
  BY DEF DataTypeOK, ControlTypeOK
<1>2. Active' = Active
  BY DEF Active, ControlTypeOK
<1>3. OpInv'
  BY <1>2, SMTT(30) DEF OpInv
<1>4. CommitInv'
  BY <1>2 DEF CommitInv, ControlTypeOK
<1>5. HeaderInv'
  BY SMTT(30) DEF HeaderInv, Distinct
<1>6. StageInv'
  <2>1. Active # {}
    BY DEF Active
  <2>2. \A q \in Proc : pc[q] \notin CommitPC
    BY <2>1 DEF CommitInv
  <2> QED
    BY <2>2 DEF StageInv, CommitPC
<1>7. PinInv'
  BY DEF PinInv, Installed
<1>8. RecyclableIsClean' /\ RecoveryInv' /\ NoProtocolPanic'
  BY SMTT(30) DEF RecyclableIsClean, RecoveryInv, NoProtocolPanic, ControlTypeOK
<1> QED
  BY <1>1, <1>3, <1>4, <1>5, <1>6, <1>7, <1>8

\* No committer is at work while an operation is open.
LEMMA NoCommitter ==
  ASSUME IInv, NEW p \in Proc, pc[p] = "op"
  PROVE  /\ \A q \in Proc : pc[q] \notin CommitPC
         /\ outstanding >= 1
<1>1. p \in Active
  BY DEF Active
<1>2. outstanding = Cardinality(Active) /\ outstanding \in Nat
  BY DEF IInv, OpInv, TypeOK, ControlTypeOK
<1>3. outstanding # 0
  BY <1>1, <1>2, ActiveFinite, FS_EmptySet
<1> QED
  BY <1>1, <1>2, <1>3, SMTT(30) DEF IInv, CommitInv

\* log_write of a block already in the header preserves the invariant.
LEMMA LogAbsorb ==
  ASSUME IInv, NEW p \in Proc, Running, hold[p] # NoBlock, Logged(hold[p]),
         log_absorb(p)
  PROVE  IInv'
<1> USE DEF IInv, TypeOK, log_absorb, Running,
            diskVars, memVars, opVars
<1>1. DataTypeOK' /\ ControlTypeOK'
  BY DEF DataTypeOK, ControlTypeOK
<1>2. Active' = Active
  BY DEF Active, ControlTypeOK
<1>3. OpInv'
  BY <1>2 DEF OpInv, ControlTypeOK
<1>4. CommitInv'
  BY <1>2 DEF CommitInv
<1>5. HeaderInv'
  BY SMTT(30) DEF HeaderInv, Distinct
<1>6. StageInv'
  BY DEF StageInv
<1>7. PinInv'
  BY DEF PinInv, Installed
<1>8. RecyclableIsClean'
  <2>1. \A i : ~Installed(i)
    BY NoCommitter DEF Installed, OpInv, CommitPC, ControlTypeOK
  <2>2. hold[p] \in Block
    BY DEF ControlTypeOK
  <2>3. pinned[hold[p]] = 1
    BY <2>1, <2>2 DEF PinInv, Logged
  <2> QED
    BY <2>3, SMTT(30) DEF RecyclableIsClean
<1>9. RecoveryInv' /\ NoProtocolPanic'
  BY DEF RecoveryInv, NoProtocolPanic
<1> QED
  BY <1>1, <1>3, <1>4, <1>5, <1>6, <1>7, <1>8, <1>9

\* log_write of a new block preserves the invariant: it is not pinned yet
\* and the log region has room.
LEMMA LogAppend ==
  ASSUME IInv, NEW p \in Proc, Running, hold[p] # NoBlock, ~LogFull,
         ~Logged(hold[p]), log_append(p)
  PROVE  IInv'
<1> USE DEF IInv, TypeOK, log_append, Running,
            diskVars, memVars, opVars
<1> DEFINE b == hold[p]
<1>0. b \in Block /\ pc[p] = "op"
  BY DEF OpInv, ControlTypeOK
<1>1. DataTypeOK'
  BY <1>0, SMTT(30) DEF Pin, DataTypeOK, ControlTypeOK
<1>2. ControlTypeOK'
  BY <1>0 DEF ControlTypeOK
<1>3. Active' = Active
  BY DEF Active
<1>4. OpInv'
  BY <1>3, SMTT(30) DEF OpInv
<1>5. CommitInv'
  BY <1>3 DEF CommitInv
<1>6. \A q \in Proc : pc[q] \notin CommitPC
  BY <1>0, NoCommitter DEF ControlTypeOK
<1>7. /\ Len(lh') = Len(lh) + 1 /\ lh'[Len(lh) + 1] = b
      /\ \A i \in 1 .. Len(lh) : lh'[i] = lh[i]
  BY <1>0, SMTT(30) DEF ControlTypeOK
<1>8. HeaderInv'
  <2>1. Distinct(lh')
    BY <1>0, AppendDistinct DEF HeaderInv, Logged, DataTypeOK
  <2>2. Len(lh') < NLOG
    BY <1>7, SMTT(30) DEF LogFull
  <2> QED
    BY <1>6, <2>1, <2>2, SMTT(30) DEF HeaderInv, CommitPC, Distinct
<1>9. StageInv'
  BY <1>6 DEF StageInv, CommitPC
<1>10. PinInv'
  <2>1. \A i : ~Installed(i) /\ ~Installed(i)'
    BY <1>6 DEF Installed, CommitPC, ControlTypeOK
  <2>2. pinned[b] = 0
    BY <1>0, <2>1 DEF PinInv, Logged
  <2>3. pinned' = [pinned EXCEPT ![b] = 1]
    BY <1>0, <2>2, SMTT(30) DEF Pin, ControlTypeOK
  <2>4. \A d \in Block : (\E i \in 1 .. Len(lh') : lh'[i] = d)
                            <=> (d = b \/ \E i \in 1 .. Len(lh) : lh[i] = d)
    BY <1>0, <1>7, SMTT(30) DEF ControlTypeOK
  <2>5. ASSUME NEW d \in Block
        PROVE  pinned'[d] = IF \E i \in 1 .. Len(lh') : lh'[i] = d /\ ~Installed(i)'
                              THEN 1 ELSE 0
    <3>1. (\E i \in 1 .. Len(lh') : lh'[i] = d /\ ~Installed(i)')
             <=> (\E i \in 1 .. Len(lh') : lh'[i] = d)
      BY <2>1
    <3>2. pinned[d] = IF \E i \in 1 .. Len(lh) : lh[i] = d THEN 1 ELSE 0
      BY <2>1 DEF PinInv
    <3> QED
      BY <1>0, <2>3, <2>4, <3>1, <3>2 DEF DataTypeOK
  <2> QED
    BY <2>5 DEF PinInv
<1>11. RecyclableIsClean'
  BY <1>0, SMTT(30) DEF RecyclableIsClean, Pin, DataTypeOK, ControlTypeOK
<1>12. RecoveryInv' /\ NoProtocolPanic'
  BY DEF RecoveryInv, NoProtocolPanic
<1> QED
  BY <1>1, <1>2, <1>4, <1>5, <1>8, <1>9, <1>10, <1>11, <1>12

\* The last end_op preserves the invariant and starts the commit.
LEMMA EndLast ==
  ASSUME IInv, NEW p \in Proc, Running, pc[p] = "op", hold[p] = NoBlock,
         committing # 1, outstanding - 1 = 0, end_last(p)
  PROVE  IInv'
<1> USE DEF IInv, TypeOK, end_last, Running,
            diskVars, memVars, opVars
<1>1. DataTypeOK'
  BY DEF DataTypeOK, ControlTypeOK
<1>2. pc' \in [Proc -> PC]
  BY Names DEF CommitStart, ControlTypeOK
<1>3. ControlTypeOK'
  BY <1>2, SMTT(30) DEF ControlTypeOK
<1>4. Active' = Active \ {p}
  BY DEF Active, CommitStart, ControlTypeOK
<1>5. Active' = {} /\ Cardinality(Active') = 0
  BY <1>4, ActiveRemove DEF OpInv
<1>6. OpInv'
  <2>1. \A q \in Proc : hold[q] = NoBlock
    BY <1>5, SMTT(30) DEF OpInv, Active
  <2> QED
    BY <1>5, <2>1 DEF OpInv
<1>7. \A q \in Proc : pc[q] \notin CommitPC
  BY NoCommitter DEF ControlTypeOK
<1>8. CommitInv'
  BY <1>5, <1>7 DEF CommitInv, CommitPC, CommitStart, ControlTypeOK
<1>9. HeaderInv'
  BY <1>7, SMTT(30) DEF HeaderInv, Distinct, CommitPC, CommitStart, ControlTypeOK
<1>10. StageInv'
  BY <1>7, SMTT(30) DEF StageInv, CommitPC, CommitStart
<1>11. PinInv'
  BY <1>7, SMTT(30) DEF PinInv, Installed, CommitPC, CommitStart
<1>12. RecyclableIsClean' /\ RecoveryInv' /\ NoProtocolPanic'
  BY DEF RecyclableIsClean, RecoveryInv, NoProtocolPanic
<1> QED
  BY <1>1, <1>3, <1>6, <1>8, <1>9, <1>10, <1>11, <1>12 DEF ControlTypeOK

\* wakeup(&log) leaves the processes that are not asleep where they are.
LEMMA WakeupKeeps ==
  ASSUME NEW p \in Proc, pc' = WakeupLog(p, "idle"), pc \in [Proc -> PC]
  PROVE  /\ pc' \in [Proc -> PC]
         /\ pc'[p] = "idle"
         /\ \A q \in Proc \ {p} :
              pc'[q] \notin {"asleep", "woken"} \/ pc[q] \notin {"asleep", "woken"}
                => pc'[q] = pc[q]
BY Names DEF WakeupLog

\* Any other end_op preserves the invariant.
LEMMA EndOther ==
  ASSUME IInv, NEW p \in Proc, Running, pc[p] = "op", hold[p] = NoBlock,
         end_other(p)
  PROVE  IInv'
<1> USE DEF IInv, TypeOK, end_other, Running,
            diskVars, memVars, opVars
<1>1. DataTypeOK'
  BY DEF DataTypeOK, ControlTypeOK
<1>2. Active' = Active \ {p}
  BY WakeupKeeps DEF Active, ControlTypeOK
<1>3. outstanding' = Cardinality(Active') /\ outstanding' \in Nat
  BY <1>2, ActiveRemove DEF OpInv, ControlTypeOK
<1>4. ControlTypeOK'
  BY <1>3, WakeupKeeps DEF ControlTypeOK
<1>5. OpInv'
  BY <1>3, WakeupKeeps DEF OpInv, ControlTypeOK
<1>6. \A q \in Proc : pc[q] \notin CommitPC
  BY NoCommitter DEF ControlTypeOK
<1>7. \A q \in Proc : pc'[q] \notin CommitPC
  BY <1>6, WakeupKeeps DEF CommitPC, ControlTypeOK
<1>8. CommitInv'
  BY <1>6, <1>7 DEF CommitInv, ControlTypeOK
<1>9. HeaderInv'
  BY <1>6, <1>7, SMTT(30) DEF HeaderInv, Distinct, CommitPC, ControlTypeOK
<1>10. StageInv'
  BY <1>7 DEF StageInv, CommitPC
<1>11. PinInv'
  <2>1. \A i : ~Installed(i) /\ ~Installed(i)'
    BY <1>6, <1>7 DEF Installed, CommitPC, ControlTypeOK
  <2> QED
    BY <2>1 DEF PinInv
<1>12. RecyclableIsClean' /\ RecoveryInv' /\ NoProtocolPanic'
  BY DEF RecyclableIsClean, RecoveryInv, NoProtocolPanic, ControlTypeOK
<1> QED
  BY <1>1, <1>4, <1>5, <1>8, <1>9, <1>10, <1>11, <1>12 DEF ControlTypeOK

\* A committer is alone: no other committer, no open operation, no buffer
\* held.
LEMMA CommitterAlone ==
  ASSUME IInv, NEW p \in Proc, pc[p] \in CommitPC
  PROVE  /\ \A q \in Proc : q # p => pc[q] \notin CommitPC
         /\ \A q \in Proc : pc[q] # "op" /\ hold[q] = NoBlock
         /\ committing = 1 /\ Active = {}
BY DEF IInv, CommitInv, OpInv, Active

\* One iteration of write_log preserves the invariant.
LEMMA WriteLogStep ==
  ASSUME IInv, NEW p \in Proc, write_log(p)
  PROVE  IInv'
<1> USE DEF IInv, TypeOK, write_log, Running,
            diskVars, memVars, opVars
<1>0. pc[p] \in CommitPC
  BY DEF CommitPC, DataTypeOK
<1>1. /\ \A q \in Proc : q # p => pc[q] \notin CommitPC
      /\ \A q \in Proc : pc[q] # "op" /\ hold[q] = NoBlock
      /\ committing = 1 /\ Active = {}
  BY <1>0, CommitterAlone
<1>2. /\ tail + 1 \in 1 .. Len(lh) /\ tail + 1 \in 1 .. NLOG - 1
      /\ Len(lh) \in Nat
  BY SMTT(30) DEF StageInv, HeaderInv, ControlTypeOK
<1>3. lh[tail + 1] \in Block
  BY <1>2, SMTT(30) DEF DataTypeOK
<1>4. DataTypeOK'
  BY <1>2, <1>3 DEF DataTypeOK
<1>5. pc' \in [Proc -> PC]
  BY Names DEF ControlTypeOK
<1>6. ControlTypeOK'
  BY <1>5, SMTT(30) DEF ControlTypeOK
<1>7. /\ pc'[p] \in {"write_log", "write_head"}
      /\ \A q \in Proc : q # p => pc'[q] = pc[q]
  BY SMTT(30)
<1>8. Active' = {}
  BY <1>1, <1>7 DEF Active
<1>9. OpInv'
  BY <1>1, <1>7, <1>8 DEF OpInv, DataTypeOK
<1>10. CommitInv'
  BY <1>1, <1>7, <1>8 DEF CommitInv, CommitPC
<1>11. HeaderInv'
  BY <1>1, <1>7, SMTT(30) DEF HeaderInv, Distinct, CommitPC
<1>12. StageInv'
  <2>1. \A i \in 1 .. tail + 1 : slot'[i] = cache[lh[i]]
    BY <1>2, SMTT(30) DEF StageInv, DataTypeOK, ControlTypeOK
  <2>2. CASE tail + 1 < Len(lh)
    BY <1>1, <1>7, <2>1, <2>2, SMTT(30) DEF StageInv, CommitPC
  <2>3. CASE ~(tail + 1 < Len(lh))
    <3>1. tail + 1 = Len(lh) /\ pc'[p] = "write_head"
      BY <1>2, <2>3, SMTT(30) DEF ControlTypeOK
    <3> QED
      BY <1>1, <1>2, <1>7, <2>1, <3>1, SMTT(30) DEF StageInv, CommitPC
  <2> QED
    BY <2>2, <2>3 DEF DataTypeOK
<1>13. PinInv'
  <2>1. \A i : ~Installed(i) /\ ~Installed(i)'
    BY <1>1, <1>7 DEF Installed, CommitPC
  <2> QED
    BY <2>1 DEF PinInv
<1>14. RecyclableIsClean' /\ RecoveryInv' /\ NoProtocolPanic'
  BY DEF RecyclableIsClean, RecoveryInv, NoProtocolPanic
<1> QED
  BY <1>4, <1>6, <1>9, <1>10, <1>11, <1>12, <1>13, <1>14 DEF ControlTypeOK

\* commit's first write_head preserves the invariant.
LEMMA WriteHeadStep ==
  ASSUME IInv, NEW p \in Proc, write_head(p)
  PROVE  IInv'
<1> USE DEF IInv, TypeOK, write_head, Running,
            diskVars, memVars, opVars
<1>0. pc[p] \in CommitPC
  BY DEF CommitPC
<1>1. /\ \A q \in Proc : q # p => pc[q] \notin CommitPC
      /\ \A q \in Proc : pc[q] # "op" /\ hold[q] = NoBlock
      /\ committing = 1 /\ Active = {}
  BY <1>0, CommitterAlone DEF ControlTypeOK
<1>2. DataTypeOK'
  BY DEF DataTypeOK
<1>3. pc' \in [Proc -> PC]
  BY Names DEF ControlTypeOK
<1>4. ControlTypeOK'
  BY <1>3 DEF ControlTypeOK
<1>5. pc'[p] = "install" /\ \A q \in Proc : q # p => pc'[q] = pc[q]
  BY DEF ControlTypeOK
<1>6. Active' = {}
  BY <1>1, <1>5 DEF Active
<1>7. OpInv'
  BY <1>1, <1>5, <1>6 DEF OpInv
<1>8. CommitInv'
  BY <1>1, <1>5, <1>6 DEF CommitInv, CommitPC
<1>9. HeaderInv'
  BY <1>1, <1>5, SMTT(30) DEF HeaderInv, Distinct, CommitPC
<1>10. StageInv'
  BY <1>1, <1>5, SMTT(30) DEF StageInv, CommitPC
<1>11. PinInv'
  <2>1. \A i \in 1 .. Len(lh) : ~Installed(i) /\ ~Installed(i)'
    BY <1>1, <1>5, SMTT(30) DEF Installed, CommitPC, ControlTypeOK
  <2> QED
    BY <2>1 DEF PinInv, DataTypeOK
<1>12. RecyclableIsClean' /\ RecoveryInv' /\ NoProtocolPanic'
  BY DEF RecyclableIsClean, RecoveryInv, NoProtocolPanic, DataTypeOK
<1> QED
  BY <1>2, <1>4, <1>7, <1>8, <1>9, <1>10, <1>11, <1>12

\* One iteration of install_trans(0) preserves the invariant: the home block
\* gets the content its pinned buffer has.
LEMMA InstallStep ==
  ASSUME IInv, NEW p \in Proc, install_trans(p)
  PROVE  IInv'
<1> USE DEF IInv, TypeOK, install_trans, Running,
            diskVars, memVars, opVars
<1>0. pc[p] \in CommitPC
  BY DEF CommitPC
<1>1. /\ \A q \in Proc : q # p => pc[q] \notin CommitPC
      /\ \A q \in Proc : pc[q] # "op" /\ hold[q] = NoBlock
      /\ committing = 1 /\ Active = {}
  BY <1>0, CommitterAlone
<1> DEFINE b == lh[tail + 1]
<1>2. /\ tail + 1 \in 1 .. Len(lh) /\ tail + 1 \in 1 .. NLOG - 1
      /\ Len(lh) \in Nat /\ b \in Block
  BY SMTT(30) DEF StageInv, HeaderInv, DataTypeOK, ControlTypeOK
<1>3. /\ pc'[p] \in {"install", "clear_head"}
      /\ tail + 1 < Len(lh) => pc'[p] = "install"
      /\ ~(tail + 1 < Len(lh)) => pc'[p] = "clear_head" /\ tail + 1 = Len(lh)
      /\ \A q \in Proc : q # p => pc'[q] = pc[q]
  BY <1>2, SMTT(30) DEF ControlTypeOK
<1>u. /\ pc[p] = "install" /\ tail' = tail + 1 /\ tail \in Nat
      /\ lh' = lh /\ slot' = slot
  BY DEF ControlTypeOK
<1>4. \A i \in 1 .. Len(lh) : /\ Installed(i) <=> i <= tail
                              /\ Installed(i)' <=> i <= tail + 1
  <2>1. \A q \in Proc : q # p => /\ pc[q] \notin {"install", "clear_head"}
                                 /\ pc'[q] \notin {"install", "clear_head"}
    BY ONLY <1>1, <1>3 DEF CommitPC
  <2>2. ASSUME NEW i \in 1 .. Len(lh) PROVE Installed(i) <=> i <= tail
    BY ONLY p \in Proc, <1>u, <2>1 DEF Installed
  <2>3. ASSUME NEW i \in 1 .. Len(lh) PROVE Installed(i)' <=> i <= tail + 1
    BY ONLY p \in Proc, <1>u, <1>2, <1>3, <2>1 DEF Installed
  <2> QED
    BY <2>2, <2>3
<1>5. \A i \in 1 .. Len(lh) : lh[i] = b => i = tail + 1
  BY <1>2 DEF HeaderInv, Distinct
<1>6. pinned[b] = 1 /\ cache[b] = slot[tail + 1]
  BY <1>2, <1>4, SMTT(30) DEF PinInv, StageInv, DataTypeOK, ControlTypeOK
<1>7. /\ pinned' = [pinned EXCEPT ![b] = 0]
      /\ cache' = cache
      /\ home' = [home EXCEPT ![b] = slot[tail + 1]]
  BY <1>2, <1>6, SMTT(30) DEF Unpin, DataTypeOK
<1>8. DataTypeOK'
  BY <1>2, <1>7, SMTT(30) DEF DataTypeOK
<1>9. pc' \in [Proc -> PC]
  <2>1. /\ pc \in [Proc -> PC]
        /\ pc' = [pc EXCEPT ![p] = IF tail + 1 < Len(lh) THEN "install"
                                                        ELSE "clear_head"]
    BY DEF ControlTypeOK
  <2>2. "install" \in PC /\ "clear_head" \in PC
    BY ONLY Names, Zenon
  <2> QED
    BY ONLY <2>1, <2>2
<1>10. ControlTypeOK'
  BY <1>9, SMTT(30) DEF ControlTypeOK
<1>11. Active' = {}
  BY <1>1, <1>3 DEF Active, ControlTypeOK
<1>12. OpInv'
  BY <1>1, <1>3, <1>11 DEF OpInv, ControlTypeOK
<1>13. CommitInv'
  BY <1>1, <1>3, <1>11 DEF CommitInv, CommitPC, ControlTypeOK
<1>14. HeaderInv'
  BY <1>3, SMTT(30) DEF HeaderInv, Distinct, DataTypeOK
<1>15. StageInv'
  <2>1. \A i \in 1 .. tail + 1 : home'[lh[i]] = slot[i]
    <3>1. ASSUME NEW i \in 1 .. tail + 1
          PROVE  home'[lh[i]] = slot[i]
      <4>1. i \in 1 .. Len(lh) /\ lh[i] \in Block
        BY <1>2, <1>u, SMTT(30) DEF DataTypeOK
      <4>2. CASE i = tail + 1
        BY <1>2, <1>7, <4>1, <4>2 DEF DataTypeOK
      <4>3. CASE i # tail + 1
        <5>1. lh[i] # b /\ home[lh[i]] = slot[i]
          BY <1>5, <1>u, <4>1, <4>3, SMTT(30) DEF StageInv
        <5> QED
          BY <1>7, <4>1, <5>1 DEF DataTypeOK
      <4> QED
        BY <4>2, <4>3
    <3> QED
      BY <3>1
  <2>2. \A i \in 1 .. Len(lh) : slot[i] = cache[lh[i]]
    BY DEF StageInv
  <2>3. \A q \in Proc : q # p => pc'[q] \notin CommitPC
    BY <1>1, <1>3
  <2>4. /\ pc'[p] = "install" =>
             tail' < Len(lh') /\ \A i \in 1 .. tail' : home'[lh'[i]] = slot'[i]
        /\ pc'[p] = "clear_head" =>
             \A i \in 1 .. Len(lh') : home'[lh'[i]] = slot'[i]
        /\ \A i \in 1 .. Len(lh') : slot'[i] = cache'[lh'[i]]
    BY ONLY <1>2, <1>3, <1>7, <1>u, <2>1, <2>2
  <2> QED
    BY ONLY <1>3, <2>3, <2>4 DEF StageInv, CommitPC
<1>16. PinInv'
  <2>1. ASSUME NEW d \in Block
        PROVE  pinned'[d] = IF \E i \in 1 .. Len(lh) : lh[i] = d /\ ~Installed(i)'
                              THEN 1 ELSE 0
    <3>1. CASE d = b
      BY <1>2, <1>4, <1>5, <1>7, <3>1, SMTT(30) DEF DataTypeOK
    <3>2. CASE d # b
      <4>1. (\E i \in 1 .. Len(lh) : lh[i] = d /\ ~Installed(i)')
               <=> (\E i \in 1 .. Len(lh) : lh[i] = d /\ ~Installed(i))
        <5>1. \A i \in 1 .. Len(lh) : lh[i] = d => i # tail + 1
          BY <3>2
        <5>2. ASSUME NEW i \in 1 .. Len(lh), i # tail + 1
              PROVE  Installed(i)' <=> Installed(i)
          <6>1. i <= tail <=> i <= tail + 1
            BY ONLY <1>2, <1>u, <5>2
          <6>2. Installed(i) <=> i <= tail
            BY ONLY <1>4, <5>2
          <6>3. Installed(i)' <=> i <= tail + 1
            BY ONLY <1>4, <5>2
          <6> QED
            BY ONLY <6>1, <6>2, <6>3, Zenon
        <5> QED
          BY <5>1, <5>2
      <4> QED
        BY <1>7, <3>2, <4>1 DEF PinInv, DataTypeOK
    <3> QED
      BY <3>1, <3>2 DEF ControlTypeOK
  <2> QED
    BY <2>1 DEF PinInv
<1>17. RecyclableIsClean'
  BY <1>1, <1>2, <1>6, <1>7 DEF RecyclableIsClean, DataTypeOK
<1>18. RecoveryInv' /\ NoProtocolPanic'
  BY DEF RecoveryInv, NoProtocolPanic
<1> QED
  BY <1>8, <1>10, <1>12, <1>13, <1>14, <1>15, <1>16, <1>17, <1>18

\* commit's second write_head preserves the invariant.
LEMMA ClearHeadStep ==
  ASSUME IInv, NEW p \in Proc, clear_head(p)
  PROVE  IInv'
<1> USE DEF IInv, TypeOK, clear_head, Running,
            diskVars, memVars, opVars
<1>0. pc[p] \in CommitPC
  BY DEF CommitPC
<1>1. /\ \A q \in Proc : q # p => pc[q] \notin CommitPC
      /\ \A q \in Proc : pc[q] # "op" /\ hold[q] = NoBlock
      /\ committing = 1 /\ Active = {}
  BY <1>0, CommitterAlone DEF ControlTypeOK
<1>2. DataTypeOK'
  BY SMTT(30) DEF DataTypeOK
<1>3. pc' \in [Proc -> PC]
  BY Names DEF ControlTypeOK
<1>4. ControlTypeOK'
  BY <1>3 DEF ControlTypeOK
<1>5. pc'[p] = "commit_done" /\ \A q \in Proc : q # p => pc'[q] = pc[q]
  BY DEF ControlTypeOK
<1>6. Active' = {}
  BY <1>1, <1>5 DEF Active
<1>7. OpInv'
  BY <1>1, <1>5, <1>6 DEF OpInv
<1>8. CommitInv'
  BY <1>1, <1>5, <1>6 DEF CommitInv, CommitPC
<1>9. HeaderInv'
  BY <1>1, <1>5, SMTT(30) DEF HeaderInv, Distinct, CommitPC
<1>10. StageInv'
  BY <1>1, <1>5, SMTT(30) DEF StageInv, CommitPC
<1>11. PinInv'
  <2>1. \A i \in 1 .. Len(lh) : Installed(i)
    BY DEF Installed
  <2> QED
    BY <2>1, SMTT(30) DEF PinInv
<1>12. RecyclableIsClean' /\ RecoveryInv' /\ NoProtocolPanic'
  BY DEF RecyclableIsClean, RecoveryInv, NoProtocolPanic
<1> QED
  BY <1>2, <1>4, <1>7, <1>8, <1>9, <1>10, <1>11, <1>12

\* end_op's last critical section preserves the invariant.
LEMMA CommitDoneStep ==
  ASSUME IInv, NEW p \in Proc, commit_done(p)
  PROVE  IInv'
<1> USE DEF IInv, TypeOK, commit_done, Running,
            diskVars, memVars, opVars
<1>0. pc[p] \in CommitPC
  BY DEF CommitPC
<1>1. /\ \A q \in Proc : q # p => pc[q] \notin CommitPC
      /\ \A q \in Proc : pc[q] # "op" /\ hold[q] = NoBlock
      /\ committing = 1 /\ Active = {}
  BY <1>0, CommitterAlone DEF ControlTypeOK
<1>2. DataTypeOK'
  BY DEF DataTypeOK
<1>3. ControlTypeOK'
  BY WakeupKeeps DEF ControlTypeOK
<1>4. \A q \in Proc : pc'[q] \notin CommitPC /\ pc'[q] # "op"
  BY <1>1, WakeupKeeps DEF CommitPC, ControlTypeOK
<1>5. Active' = {}
  BY <1>4 DEF Active, ControlTypeOK
<1>6. OpInv'
  BY <1>1, <1>5 DEF OpInv, ControlTypeOK
<1>7. CommitInv'
  BY <1>4, <1>5, SMTT(30) DEF CommitInv, ControlTypeOK
<1>8. lh = <<>> /\ hdr = <<>>
  BY <1>1 DEF StageInv, HeaderInv, CommitPC
<1>9. HeaderInv'
  <2>1. ~\E q \in Proc : pc'[q] \in {"install", "clear_head"}
    BY <1>4 DEF CommitPC
  <2> QED
    BY <1>8, <2>1 DEF HeaderInv
<1>10. StageInv'
  BY <1>4 DEF StageInv, CommitPC
<1>11. PinInv'
  BY <1>8, SMTT(30) DEF PinInv
<1>12. RecyclableIsClean' /\ RecoveryInv' /\ NoProtocolPanic'
  BY DEF RecyclableIsClean, RecoveryInv, NoProtocolPanic, ControlTypeOK
<1> QED
  BY <1>2, <1>3, <1>6, <1>7, <1>9, <1>10, <1>11, <1>12

\* Recycling a buffer preserves the invariant and loses nothing.
LEMMA EvictStep ==
  ASSUME IInv, NEW b \in Block, Evict(b)
  PROVE  IInv' /\ cache' = cache
<1> USE DEF IInv, TypeOK, Evict, Running,
            diskVars, memVars, opVars
<1>1. cache' = cache
  BY DEF RecyclableIsClean, DataTypeOK, ControlTypeOK
<1>2. DataTypeOK' /\ ControlTypeOK'
  BY <1>1 DEF DataTypeOK, ControlTypeOK
<1>3. Active' = Active
  BY DEF Active
<1>4. OpInv' /\ CommitInv'
  BY <1>3 DEF OpInv, CommitInv
<1>5. HeaderInv'
  BY DEF HeaderInv
<1>6. StageInv'
  BY <1>1, SMTT(30) DEF StageInv
<1>7. PinInv'
  BY SMTT(30) DEF PinInv, Installed
<1>8. RecyclableIsClean' /\ RecoveryInv' /\ NoProtocolPanic'
  BY <1>1 DEF RecyclableIsClean, RecoveryInv, NoProtocolPanic
<1> QED
  BY <1>1, <1>2, <1>4, <1>5, <1>6, <1>7, <1>8

\* The only panic the invariant leaves possible is log_write's.
LEMMA PanicStep ==
  ASSUME IInv, Panics("too big a transaction")
  PROVE  IInv'
<1> USE DEF IInv, TypeOK, Panics,
            diskVars, memVars, opVars
<1>1. DataTypeOK'
  BY DEF DataTypeOK
<1>2. ControlTypeOK'
  BY Names DEF ControlTypeOK
<1>3. Active' = Active
  BY DEF Active
<1>4. OpInv' /\ CommitInv'
  BY <1>3 DEF OpInv, CommitInv
<1>5. HeaderInv'
  BY DEF HeaderInv
<1>6. StageInv'
  BY DEF StageInv
<1>7. PinInv'
  BY DEF PinInv, Installed
<1>8. RecyclableIsClean' /\ RecoveryInv' /\ NoProtocolPanic'
  BY DEF RecyclableIsClean, RecoveryInv, NoProtocolPanic
<1> QED
  BY <1>1, <1>2, <1>4, <1>5, <1>6, <1>7, <1>8
=============================================================================
