----------------------- MODULE GreedyReadWriteLocker -----------------------
(***************************************************************************)
(* GreedyReadWriteLocker over a SingleThreadedResourceLocker, for one      *)
(* resource identifier.  The two lock keys and the count key are derived   *)
(* from the identifier, so that the calls on distinct identifiers share    *)
(* nothing.                                                                *)
(*                                                                         *)
(* The program is single-threaded: a step is what runs between two awaits. *)
(* A Requests element is one caller of withReadLock or withWriteLock; when *)
(* its call has returned it may call again.                                *)
(***************************************************************************)
EXTENDS Naturals, Integers, Sequences, FiniteSets

CONSTANT Requests

ASSUME RequestsAssumption == IsFiniteSet(Requests)

VARIABLES
  pc,       \* where each call is
  mod,      \* +1 in preReadSetup, -1 in postReadCleanup
  number,   \* the local variable of incrementCount
  count,    \* the stored count; 0 when the storage has no entry
  locked,   \* per lock key, is an unlock callback stored for it?
  queue     \* per lock key, the pending acquire calls in arrival order

vars == <<pc, mod, number, count, locked, queue>>

Keys == {"read", "write"}

\* "waitRead" .. "release" is withInternalReadLock: waiting for the lock on
\* the count, in incrementCount (before get, before set), after it, waiting
\* for the write lock, and before the release of the internal lock.
Section == {"get", "set", "guard", "waitWrite", "release"}

Pcs == {"idle", "waitRead", "reading", "waitWriter", "writing", "written"}
         \cup Section

Init ==
  /\ pc = [r \in Requests |-> "idle"]
  /\ mod = [r \in Requests |-> 1]
  /\ number = [r \in Requests |-> 0]
  /\ count = 0
  /\ locked = [k \in Keys |-> FALSE]
  /\ queue = [k \in Keys |-> <<>>]

-----------------------------------------------------------------------------
(* The SingleThreadedResourceLocker.  A pending acquire is granted by the  *)
(* release that precedes it, in the same step.                             *)

\* Where a waiting call continues once it is granted the lock.
Granted(p) ==
  CASE p = "waitRead"   -> "get"
    [] p = "waitWrite"  -> "release"
    [] p = "waitWriter" -> "writing"

\* acquire, not exclusive.
acquireAlways(key, r, waiting) ==
  /\ locked' = [locked EXCEPT ![key] = TRUE]
  /\ pc' = [pc EXCEPT ![r] = Granted(waiting)]
  /\ UNCHANGED queue

\* acquire, the last to come is the first to be served.
acquireLifo(key, r, waiting) ==
  \/ /\ ~locked[key]
     /\ locked' = [locked EXCEPT ![key] = TRUE]
     /\ pc' = [pc EXCEPT ![r] = Granted(waiting)]
     /\ UNCHANGED queue
  \/ /\ locked[key]
     /\ queue' = [queue EXCEPT ![key] = <<r>> \o @]
     /\ pc' = [pc EXCEPT ![r] = waiting]
     /\ UNCHANGED locked

acquire(key, r, waiting) ==
  \/ /\ ~locked[key]
     /\ locked' = [locked EXCEPT ![key] = TRUE]
     /\ pc' = [pc EXCEPT ![r] = Granted(waiting)]
     /\ UNCHANGED queue
  \/ /\ locked[key]
     /\ queue' = [queue EXCEPT ![key] = Append(@, r)]
     /\ pc' = [pc EXCEPT ![r] = waiting]
     /\ UNCHANGED locked

\* release, wakes nobody.
releaseSilently(key, r, next) ==
  /\ locked' = [locked EXCEPT ![key] = FALSE]
  /\ pc' = [pc EXCEPT ![r] = next]
  /\ UNCHANGED queue

\* release, drops the callback that the next holder has just stored.
releaseDropsNext(key, r, next) ==
  /\ locked' = [locked EXCEPT ![key] = FALSE]
  /\ \/ /\ queue[key] = <<>>
        /\ pc' = [pc EXCEPT ![r] = next]
        /\ UNCHANGED queue
     \/ /\ queue[key] # <<>>
        /\ LET head == Head(queue[key])
           IN  pc' = [pc EXCEPT ![r] = next, ![head] = Granted(pc[head])]
        /\ queue' = [queue EXCEPT ![key] = Tail(@)]

release(key, r, next) ==
  \/ /\ queue[key] = <<>>
     /\ locked' = [locked EXCEPT ![key] = FALSE]
     /\ pc' = [pc EXCEPT ![r] = next]
     /\ UNCHANGED queue
  \/ /\ queue[key] # <<>>
     /\ LET head == Head(queue[key])
        IN  pc' = [pc EXCEPT ![r] = next, ![head] = Granted(pc[head])]
     /\ queue' = [queue EXCEPT ![key] = Tail(@)]
     /\ UNCHANGED locked

-----------------------------------------------------------------------------
(* Read operations.                                                        *)

\* withReadLock is called: preReadSetup asks for the internal read lock.
withReadLock(r) ==
  /\ pc[r] = "idle"
  /\ mod' = [mod EXCEPT ![r] = 1]
  /\ acquire("read", r, "waitRead")
  /\ UNCHANGED <<number, count>>

\* incrementCount reads the count from the storage ...
getCount(r) ==
  /\ pc[r] = "get"
  /\ number' = [number EXCEPT ![r] = count + mod[r]]
  /\ pc' = [pc EXCEPT ![r] = "set"]
  /\ UNCHANGED <<mod, count, locked, queue>>

\* ... and writes it back (deletes it when it is 0).  That the count would
\* become negative, the failsafe of the code, is excluded by CountIsExact.
setCount(r) ==
  /\ pc[r] = "set"
  /\ count' = number[r]
  /\ pc' = [pc EXCEPT ![r] = "guard"]
  /\ UNCHANGED <<mod, number, locked, queue>>

\* preReadSetup, the count compared with 0.
preReadSetupAtZero(r) ==
  /\ pc[r] = "guard" /\ mod[r] = 1
  /\ \/ number[r] = 0 /\ acquire("write", r, "waitWrite")
     \/ /\ number[r] # 0
        /\ pc' = [pc EXCEPT ![r] = "release"]
        /\ UNCHANGED <<locked, queue>>
  /\ UNCHANGED <<mod, number, count>>

\* preReadSetup, every reader asks for the write lock.
preReadSetupForEach(r) ==
  /\ pc[r] = "guard" /\ mod[r] = 1
  /\ acquire("write", r, "waitWrite")
  /\ UNCHANGED <<mod, number, count>>

\* The first reader takes the write lock for all of them.
preReadSetup(r) ==
  /\ pc[r] = "guard" /\ mod[r] = 1
  /\ \/ /\ number[r] = 1
        /\ acquire("write", r, "waitWrite")
     \/ /\ number[r] # 1
        /\ pc' = [pc EXCEPT ![r] = "release"]
        /\ UNCHANGED <<locked, queue>>
  /\ UNCHANGED <<mod, number, count>>

\* postReadCleanup, the count compared with 1.
postReadCleanupAtOne(r) ==
  /\ pc[r] = "guard" /\ mod[r] = -1
  /\ \/ number[r] = 1 /\ release("write", r, "release")
     \/ /\ number[r] # 1
        /\ pc' = [pc EXCEPT ![r] = "release"]
        /\ UNCHANGED <<locked, queue>>
  /\ UNCHANGED <<mod, number, count>>

\* postReadCleanup, the write lock forgotten.
postReadCleanupForgets(r) ==
  /\ pc[r] = "guard" /\ mod[r] = -1
  /\ pc' = [pc EXCEPT ![r] = "release"]
  /\ UNCHANGED <<mod, number, count, locked, queue>>

\* The last reader gives it back.
postReadCleanup(r) ==
  /\ pc[r] = "guard" /\ mod[r] = -1
  /\ \/ /\ number[r] = 0
        /\ release("write", r, "release")
     \/ /\ number[r] # 0
        /\ pc' = [pc EXCEPT ![r] = "release"]
        /\ UNCHANGED <<locked, queue>>
  /\ UNCHANGED <<mod, number, count>>

\* The finally of withInternalReadLock.  After the setup whileLocked is
\* called, after the cleanup withReadLock returns.
releaseInternal(r) ==
  /\ pc[r] = "release"
  /\ release("read", r, IF mod[r] = 1 THEN "reading" ELSE "idle")
  /\ UNCHANGED <<mod, number, count>>

\* whileLocked has settled: postReadCleanup asks for the internal read lock.
finishRead(r) ==
  /\ pc[r] = "reading"
  /\ mod' = [mod EXCEPT ![r] = -1]
  /\ acquire("read", r, "waitRead")
  /\ UNCHANGED <<number, count>>

-----------------------------------------------------------------------------
(* Write operations.                                                       *)

\* withWriteLock, under the key of the read lock.
withWriteLockOnReadKey(r) ==
  /\ pc[r] = "idle"
  /\ acquire("read", r, "waitWriter")
  /\ UNCHANGED <<mod, number, count>>

\* An identifier that ends in the suffix of the counts is refused before any
\* lock is taken (ForbiddenHttpError); this one does not.
withWriteLock(r) ==
  /\ pc[r] = "idle"
  /\ acquire("write", r, "waitWriter")
  /\ UNCHANGED <<mod, number, count>>

\* whileLocked has settled ...
finishWrite(r) ==
  /\ pc[r] = "writing"
  /\ pc' = [pc EXCEPT ![r] = "written"]
  /\ UNCHANGED <<mod, number, count, locked, queue>>

\* ... and the finally of withWriteLock runs.
releaseWriter(r) ==
  /\ pc[r] = "written"
  /\ release("write", r, "idle")
  /\ UNCHANGED <<mod, number, count>>

-----------------------------------------------------------------------------
\* The steps a call that was made goes on to take.
Step(r) ==
  \/ getCount(r) \/ setCount(r) \/ preReadSetup(r) \/ postReadCleanup(r)
  \/ releaseInternal(r) \/ finishRead(r) \/ finishWrite(r) \/ releaseWriter(r)

Next == \E r \in Requests : withReadLock(r) \/ withWriteLock(r) \/ Step(r)

Spec == Init /\ [][Next]_vars

\* Every await is settled and every whileLocked ends (an expiring locker
\* between the store and this one sees to that); nobody is obliged to call.
FairSpec == Spec /\ \A r \in Requests : WF_vars(Step(r))

-----------------------------------------------------------------------------
(* Properties.                                                             *)

TypeOK ==
  /\ pc \in [Requests -> Pcs]
  /\ mod \in [Requests -> {1, -1}]
  /\ number \in [Requests -> Int]
  /\ count \in Nat
  /\ locked \in [Keys -> BOOLEAN]
  /\ queue \in [Keys -> Seq(Requests)]

InSection(r) == pc[r] \in Section
Writer(r) == pc[r] \in {"writing", "written"}

\* The readers the count stands for: from the store of the incremented
\* count to the store of the decremented one.
Counted(r) ==
  \/ mod[r] = 1 /\ pc[r] \in {"guard", "waitWrite", "release"}
  \/ pc[r] = "reading"
  \/ mod[r] = -1 /\ pc[r] \in {"waitRead", "get", "set"}

\* The first reader, on its way to the write lock.
Acquiring(r) == /\ pc[r] \in {"guard", "waitWrite"}
                /\ mod[r] = 1 /\ number[r] = 1

\* The last reader, on its way to giving the write lock back.
Releasing(r) == pc[r] = "guard" /\ mod[r] = -1 /\ number[r] = 0

\* The readers together own the write lock.
ReadersOwnWriteLock ==
  \/ count # 0 /\ \A r \in Requests : ~Acquiring(r)
  \/ \E r \in Requests : Releasing(r)

\* Readers may overlap each other; a write operation overlaps nothing
\* ("Write operations will be blocked as long as read operations are not
\* finished").
MutualExclusion ==
  \A r, s \in Requests :
    pc[r] = "writing" /\ r # s => pc[s] \notin {"reading", "writing"}

\* The stored count is the number of readers it should count at every step,
\* although it is read, changed and written back in separate steps by calls
\* that overlap, and it never gets negative (the failsafe in incrementCount
\* is never reached).
CountIsExact ==
  /\ count = Cardinality({r \in Requests : Counted(r)})
  /\ \A r \in Requests : pc[r] = "set" => number[r] >= 0

\* A lock is held exactly as long as some call is going to release it: no
\* release finds its lock already free (SingleThreadedResourceLocker would
\* throw), and no lock stays behind when nobody uses it.
LocksHaveOwners ==
  /\ locked["read"] <=> \E r \in Requests : InSection(r)
  /\ locked["write"] <=> \/ ReadersOwnWriteLock
                         \/ \E r \in Requests : Writer(r)

\* A lock has one owner: one call at a time is in the section guarded by the
\* internal lock, and works there on the current count; the write lock is
\* owned by one writer or by the readers, never by both.
OwnersAreExclusive ==
  /\ \A r, s \in Requests : InSection(r) /\ InSection(s) => r = s
  /\ \A r, s \in Requests : Writer(r) /\ Writer(s) => r = s
  /\ \A r \in Requests : Writer(r) => ~ReadersOwnWriteLock
  /\ \A r \in Requests :
       /\ pc[r] = "set" => number[r] = count + mod[r]
       /\ pc[r] \in {"guard", "waitWrite"} => number[r] = count
       /\ pc[r] = "waitWrite" => mod[r] = 1 /\ number[r] = 1

\* The first reader waits for the write lock while it holds the internal
\* lock that readers need to leave.  It never does so while there is a
\* reader left to leave: that would be a deadlock.
NoReaderIsTrapped ==
  \A r, s \in Requests :
    pc[r] = "waitWrite" /\ r # s => ~Counted(s)

\* Where a call waits for the lock of key k.
WaitPcs(k) == IF k = "read" THEN {"waitRead"} ELSE {"waitWrite", "waitWriter"}

\* No wakeup is lost: the queue of a lock holds exactly the calls that wait
\* for it, each once, and only as long as there is a holder to wake them.
QueuesHoldTheWaiting ==
  \A k \in Keys :
    /\ \A i \in 1 .. Len(queue[k]) : pc[queue[k][i]] \in WaitPcs(k)
    /\ \A r \in Requests :
         pc[r] \in WaitPcs(k) => \E i \in 1 .. Len(queue[k]) : queue[k][i] = r
    /\ \A i, j \in 1 .. Len(queue[k]) : queue[k][i] = queue[k][j] => i = j
    /\ queue[k] # <<>> => locked[k]

\* The inductive invariant behind MutualExclusion.
IInv == /\ TypeOK
        /\ CountIsExact
        /\ LocksHaveOwners
        /\ OwnersAreExclusive
        /\ QueuesHoldTheWaiting

\* Every read request is served, however many writers and readers compete
\* with it, since both locks are granted in the order of arrival; and every
\* read operation that has ended returns.
ReadersAreServed ==
  \A r \in Requests :
    /\ (pc[r] = "waitRead" /\ mod[r] = 1) ~> (pc[r] = "reading")
    /\ (pc[r] = "waitRead" /\ mod[r] = -1) ~> (pc[r] = "idle")

\* A write request may wait as long as readers keep overlapping, but it is
\* served if the readers are all gone again and again.
WritersAreServed ==
  []<>(count = 0) =>
    \A r \in Requests : (pc[r] = "waitWriter") ~> (pc[r] = "writing")

\* What the calls of this locker look like to the caller.
Phase(r) ==
  CASE pc[r] = "reading" -> "reading"
    [] pc[r] = "writing" -> "writing"
    [] pc[r] = "waitWriter" -> "waitWrite"
    [] mod[r] = 1 /\ (pc[r] = "waitRead" \/ InSection(r)) -> "waitRead"
    [] OTHER -> "idle"

Abstract == INSTANCE ReadWriteLock WITH
              phase <- [r \in Requests |-> Phase(r)]

\* The locker implements the abstract read-write lock.
ImplementsReadWriteLock == Abstract!Spec
=============================================================================
