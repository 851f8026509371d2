----------------------------- MODULE AtomicDisk -----------------------------
(***************************************************************************)
(* What the redo log promises its callers: a disk on which the updates of  *)
(* every file-system operation reach stable storage together or not at     *)
(* all.  Nothing here mentions a log, a header or a cache.                 *)
(*   durable  what the disk holds after a restart                          *)
(*   current  what the running kernel reads                                *)
(*   active   the operations between begin_op and end_op                   *)
(* RedoLog implements this specification (RedoLog!AtomicCommit).           *)
(***************************************************************************)
CONSTANTS Proc, Block, Content

VARIABLES durable, current, active

vars == <<durable, current, active>>

Init ==
  /\ durable \in [Block -> Content]
  /\ current = durable
  /\ active = {}

Begin(p) ==
  /\ active' = active \cup {p}
  /\ UNCHANGED <<durable, current>>

Write(p, b, c) ==
  /\ p \in active
  /\ current' = [current EXCEPT ![b] = c]
  /\ UNCHANGED <<durable, active>>

End(p) ==
  /\ active' = active \ {p}
  /\ UNCHANGED <<durable, current>>

\* Group commit: every block at once, and only when no operation is half done.
Commit ==
  /\ active = {}
  /\ durable' = current
  /\ UNCHANGED <<current, active>>

Crash ==
  /\ active' = {}
  /\ current' = durable
  /\ UNCHANGED durable

Next ==
  \/ \E p \in Proc : Begin(p) \/ End(p)
  \/ \E p \in Proc, b \in Block, c \in Content : Write(p, b, c)
  \/ Commit
  \/ Crash

Spec == Init /\ [][Next]_vars
=============================================================================
