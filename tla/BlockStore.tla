----------------------------- MODULE BlockStore -----------------------------
(***************************************************************************)
(* What the buffer cache promises its callers: one copy of every block,    *)
(* which at most one of them has locked at a time, and which only the one  *)
(* that has it locked changes.  Which blocks are in memory, which buffer   *)
(* has them, and when they are read and written back, does not show.       *)
(***************************************************************************)
CONSTANTS User, NoUser, Block, Value

VARIABLES
  value,    \* the contents of every block
  holder    \* who has it locked, NoUser if nobody has

vars == <<value, holder>>

Init ==
  /\ value \in [Block -> Value]
  /\ holder = [k \in Block |-> NoUser]

Lock(u, k) ==
  /\ holder[k] = NoUser
  /\ holder' = [holder EXCEPT ![k] = u]
  /\ UNCHANGED value

Update(u, k, v) ==
  /\ holder[k] = u
  /\ value' = [value EXCEPT ![k] = v]
  /\ UNCHANGED holder

Unlock(u, k) ==
  /\ holder[k] = u
  /\ holder' = [holder EXCEPT ![k] = NoUser]
  /\ UNCHANGED value

Next ==
  \E u \in User, k \in Block :
    \/ Lock(u, k)
    \/ \E v \in Value : Update(u, k, v)
    \/ Unlock(u, k)

Spec == Init /\ [][Next]_vars
=============================================================================
