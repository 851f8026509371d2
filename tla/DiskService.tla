---------------------------- MODULE DiskService ----------------------------
(***************************************************************************)
(* What virtio_disk_rw promises its callers: a request is carried out      *)
(* once, as a whole, at some moment between the call and its return.       *)
(* Requests of several processes may be carried out in any order.          *)
(***************************************************************************)
CONSTANTS Proc, Block, Value, NoReq, NoValue

VARIABLES
  store,   \* the content of the disk
  data,    \* the buffer of each process during its call
  req,     \* the request of each process, NoReq outside a call
  phase    \* how far it is

vars == <<store, data, req, phase>>

Request == [write : BOOLEAN, block : Block]

Init ==
  /\ store \in [Block -> Value]
  /\ data = [p \in Proc |-> NoValue]
  /\ req = [p \in Proc |-> NoReq]
  /\ phase = [p \in Proc |-> "idle"]

Advance(p, from, to) ==
  /\ phase[p] = from /\ phase'[p] = to
  /\ phase' = [phase EXCEPT ![p] = to]

\* A process calls with the content to write, or with a buffer to read into.
Submit(p) ==
  /\ Advance(p, "idle", "pending")
  /\ \E r \in Request, v \in Value \cup {NoValue} :
       /\ IF r.write THEN v \in Value ELSE v = NoValue
       /\ req' = [req EXCEPT ![p] = r]
       /\ data' = [data EXCEPT ![p] = v]
  /\ UNCHANGED store

Perform(p) ==
  /\ Advance(p, "pending", "done")
  /\ \/ /\ req[p].write
        /\ store' = [store EXCEPT ![req[p].block] = data[p]]
        /\ UNCHANGED data
     \/ /\ ~ req[p].write
        /\ data' = [data EXCEPT ![p] = store[req[p].block]]
        /\ UNCHANGED store
  /\ UNCHANGED req

\* The caller has the result.
Return(p) ==
  /\ Advance(p, "done", "idle")
  /\ req' = [req EXCEPT ![p] = NoReq]
  /\ data' = [data EXCEPT ![p] = NoValue]
  /\ UNCHANGED store

Next == \E p \in Proc : Submit(p) \/ Perform(p) \/ Return(p)

Spec == Init /\ [][Next]_vars
=============================================================================
