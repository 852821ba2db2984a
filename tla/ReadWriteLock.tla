--------------------------- MODULE ReadWriteLock ---------------------------
(***************************************************************************)
(* What a ReadWriteLocker promises for one resource identifier: any number *)
(* of read operations or a single write operation run at a time.  This is  *)
(* the abstract specification that the lockers are shown to implement; it  *)
(* says nothing of queues, counters or the order in which requests are     *)
(* served.                                                                 *)
(***************************************************************************)
CONSTANT Requests    \* the withReadLock / withWriteLock calls

VARIABLE phase       \* how far each call has come

Phases == {"idle", "waitRead", "waitWrite", "reading", "writing"}

Active(r) == phase[r] \in {"reading", "writing"}

Init == phase = [r \in Requests |-> "idle"]

\* withReadLock or withWriteLock is called but the lock is not granted yet.
Request(r) ==
  /\ phase[r] = "idle"
  /\ \E p \in {"waitRead", "waitWrite"} : phase' = [phase EXCEPT ![r] = p]

\* whileLocked is started for a read operation.
StartRead(r) ==
  /\ phase[r] \in {"idle", "waitRead"}
  /\ \A s \in Requests : phase[s] # "writing"
  /\ phase' = [phase EXCEPT ![r] = "reading"]

\* whileLocked is started for a write operation.
StartWrite(r) ==
  /\ phase[r] \in {"idle", "waitWrite"}
  /\ \A s \in Requests : ~Active(s)
  /\ phase' = [phase EXCEPT ![r] = "writing"]

\* whileLocked has settled.
Finish(r) ==
  /\ Active(r)
  /\ phase' = [phase EXCEPT ![r] = "idle"]

Next == \E r \in Requests :
          Request(r) \/ StartRead(r) \/ StartWrite(r) \/ Finish(r)

Spec == Init /\ [][Next]_phase
=============================================================================
