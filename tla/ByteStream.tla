----------------------------- MODULE ByteStream -----------------------------
(***************************************************************************)
(* What a pipe promises: a bounded queue of bytes with two ends, each of   *)
(* which is closed once.  Nothing here mentions a ring, positions, locks   *)
(* or sleeping processes.  Pipe implements this specification              *)
(* (Pipe!FifoOrder).                                                       *)
(***************************************************************************)
EXTENDS Naturals, Sequences

CONSTANTS Byte, Capacity

VARIABLES queue, readable, writable

vars == <<queue, readable, writable>>

Init ==
  /\ queue = <<>>
  /\ readable = 1
  /\ writable = 1

\* Bytes are accepted while both ends are open and there is room.
Put(b) ==
  /\ readable = 1 /\ writable = 1
  /\ Len(queue) < Capacity
  /\ queue' = Append(queue, b)
  /\ UNCHANGED <<readable, writable>>

\* What was accepted can be read, after the write end is closed too.
Get ==
  /\ readable = 1
  /\ queue # <<>>
  /\ queue' = Tail(queue)
  /\ UNCHANGED <<readable, writable>>

CloseRead ==
  /\ readable = 1 /\ readable' = 0
  /\ UNCHANGED <<queue, writable>>

CloseWrite ==
  /\ writable = 1 /\ writable' = 0
  /\ UNCHANGED <<queue, readable>>

Next == (\E b \in Byte : Put(b)) \/ Get \/ CloseRead \/ CloseWrite

Spec == Init /\ [][Next]_vars
=============================================================================
