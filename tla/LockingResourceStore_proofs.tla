--------------------- MODULE LockingResourceStore_proofs ---------------------
(***************************************************************************)
(* Proofs about LockingResourceStore for any finite set of calls on any    *)
(* resources: what has the lock is at work under a timer, so operations    *)
(* that conflict only overlap when a lock has expired, streams are read    *)
(* under the lock, and answers are final.                                  *)
(***************************************************************************)
EXTENDS LockingResourceStore, TLAPS

Held(c) == lock[c] \in {"reading", "writing"}

\* A call that waits for its lock has done nothing.
Untouched(c) ==
  /\ ~expired[c] /\ ~timer[c]
  /\ stream[c] = "none" /\ outcome[c] = "none" /\ reply[c] = "none"

\* How far one call is: in the lock, in the wrapped store, in the race against
\* its timer and with its answer.
CallIsConsistent(c) ==
  /\ lock[c] \in {"waitRead", "waitWrite"} => work[c] = "none"
  /\ lock[c] \in {"waitRead", "reading"} => c.kind # "write"
  /\ lock[c] \in {"waitWrite", "writing"} => c.kind = "write"
  /\ work[c] = "none" => Untouched(c)
  /\ work[c] \in {"source", "stream"} => expired[c] \/ timer[c]
  /\ work[c] = "source" => stream[c] = "none" /\ reply[c] # "result"
  /\ work[c] = "stream" => stream[c] # "none" /\ reply[c] # "none" /\ c.kind = "get"
  /\ stream[c] = "open" => work[c] = "stream"
  /\ outcome[c] # "none" => expired[c] \/ work[c] = "done"
  /\ expired[c] => outcome[c] # "result"
  /\ expired[c] /\ outcome[c] = "none" =>
       reply[c] # "none" /\ (stream[c] = "open" => reply[c] = "error")

\* The lock of an identifier is held by any number of readers or one writer.
LocksAreExclusive ==
  \A c, d \in Calls :
    /\ c # d /\ getLockIdentifier(c.resource) = getLockIdentifier(d.resource)
    /\ lock[c] = "writing"
    => ~Held(d)

IInv ==
  /\ TypeOK
  /\ HeldLocksCanExpire
  /\ LocksAreExclusive
  /\ \A c \in Calls : CallIsConsistent(c)

-----------------------------------------------------------------------------
(* What a step does to the locks.                                          *)

\* A lock that is granted keeps the locks exclusive (expiringPromise).
LEMMA GrantKeepsExclusive ==
  ASSUME TypeOK, LocksAreExclusive, NEW c \in Calls, expiringPromise(c)
  PROVE  /\ LocksAreExclusive'
         /\ lock[c] \in {"waitRead", "waitWrite"}
         /\ lock' = [lock EXCEPT ![c] = IF lock[c] = "waitRead" THEN "reading" ELSE "writing"]
<1>1. CASE lock[c] = "waitRead"
  <2>1. /\ lock' = [lock EXCEPT ![c] = "reading"]
        /\ \A d \in Calls : getLockIdentifier(d.resource) = getLockIdentifier(c.resource)
             => lock[d] # "writing"
    BY <1>1 DEF expiringPromise, Lock!StartRead
  <2>2. QED
    BY <1>1, <2>1 DEF LocksAreExclusive, Held, TypeOK
<1>2. CASE lock[c] = "waitWrite"
  <2>1. /\ lock' = [lock EXCEPT ![c] = "writing"]
        /\ \A d \in Calls : getLockIdentifier(d.resource) = getLockIdentifier(c.resource)
             => ~Held(d)
    BY <1>2 DEF expiringPromise, Lock!StartWrite, Lock!Active, Held
  <2>2. QED
    BY <1>2, <2>1 DEF LocksAreExclusive, Held, TypeOK
<1>3. QED
  BY <1>1, <1>2 DEF expiringPromise

\* A lock that is left, or waited for, keeps them exclusive too.
LEMMA OthersKeepExclusive ==
  ASSUME TypeOK, LocksAreExclusive, NEW c \in Calls,
         NEW p \in {"idle", "waitRead", "waitWrite"}, lock' = [lock EXCEPT ![c] = p]
  PROVE  LocksAreExclusive'
  BY DEF LocksAreExclusive, Held, TypeOK

\* While a call is in the lock its race is not over, and the other way around.
LEMMA FinishReleases ==
  ASSUME TypeOK, LocksAreExclusive, NEW c \in Calls,
         Lock(getLockIdentifier(c.resource))!Finish(c)
  PROVE  lock' = [lock EXCEPT ![c] = "idle"] /\ Held(c) /\ LocksAreExclusive'
<1>1. lock' = [lock EXCEPT ![c] = "idle"] /\ Held(c)
  BY DEF Lock!Finish, Lock!Active, Held
<1>2. QED
  BY <1>1, OthersKeepExclusive

-----------------------------------------------------------------------------
(* The invariant is inductive: one lemma per action, or a few alike.       *)

Unmoved(c) ==
  /\ lock'[c] = lock[c] /\ work'[c] = work[c] /\ expired'[c] = expired[c]
  /\ timer'[c] = timer[c] /\ stream'[c] = stream[c]
  /\ outcome'[c] = outcome[c] /\ reply'[c] = reply[c]

\* The invariant holds at the start.
LEMMA InitIInv == Init => IInv
  BY CallsAssumption DEF Init, IInv, TypeOK, HeldLocksCanExpire, LocksAreExclusive,
     CallIsConsistent, Untouched

\* A step of one call only has to be looked at for that call.
LEMMA OneCall ==
  ASSUME IInv, NEW c \in Calls, TypeOK', LocksAreExclusive',
         \A d \in Calls \ {c} : Unmoved(d),
         Held(c)' <=> (work[c] \in {"source", "stream"} /\ ~expired[c] /\ timer[c])',
         CallIsConsistent(c)'
  PROVE  IInv'
<1>1. \A d \in Calls \ {c} : CallIsConsistent(d)'
  BY DEF IInv, Unmoved, CallIsConsistent, Untouched
<1>2. HeldLocksCanExpire'
  BY DEF IInv, HeldLocksCanExpire, Held, Unmoved
<1>3. QED
  BY <1>1, <1>2 DEF IInv

\* Asking for the lock.
LEMMA CallKeeps ==
  ASSUME IInv, NEW c \in Calls, Call(c)
  PROVE  IInv'
<1>1. TypeOK'
  BY DEF IInv, TypeOK, Call
<1>2. LocksAreExclusive'
  BY OthersKeepExclusive DEF IInv, Call
<1>3. Held(c)' <=> (work[c] \in {"source", "stream"} /\ ~expired[c] /\ timer[c])'
  BY DEF IInv, TypeOK, Held, Call
<1>4. CallIsConsistent(c)'
  BY CallsAssumption DEF IInv, TypeOK, Kinds, CallIsConsistent, Untouched, Call
<1>5. \A d \in Calls \ {c} : Unmoved(d)
  BY DEF IInv, TypeOK, Unmoved, Call
<1>6. QED
  BY <1>1, <1>2, <1>3, <1>4, <1>5, OneCall

\* The grant of the lock.
LEMMA GrantKeeps ==
  ASSUME IInv, NEW c \in Calls, expiringPromise(c)
  PROVE  IInv'
<1>1. /\ LocksAreExclusive'
      /\ lock[c] \in {"waitRead", "waitWrite"}
      /\ lock' = [lock EXCEPT ![c] = IF lock[c] = "waitRead" THEN "reading" ELSE "writing"]
  BY GrantKeepsExclusive DEF IInv
<1>2. TypeOK'
  BY <1>1 DEF IInv, TypeOK, expiringPromise
<1>3. CallIsConsistent(c) /\ work[c] = "none" /\ Untouched(c)
  BY <1>1 DEF IInv, CallIsConsistent
<1>4. Held(c)' <=> (work[c] \in {"source", "stream"} /\ ~expired[c] /\ timer[c])'
  BY <1>1, <1>3 DEF IInv, TypeOK, Held, expiringPromise, Untouched
<1>5. CallIsConsistent(c)'
  BY <1>1, <1>3 DEF IInv, TypeOK, CallIsConsistent, Untouched, expiringPromise
<1>6. \A d \in Calls \ {c} : Unmoved(d)
  BY <1>1 DEF IInv, TypeOK, Unmoved, expiringPromise
<1>7. QED
  BY <1>1, <1>2, <1>4, <1>5, <1>6, OneCall

\* The end of whileLocked, well or not, in the race or after it.
LEMMA SettleKeeps ==
  ASSUME IInv, NEW c \in Calls, NEW result \in {"result", "error"}, Settle(c, result),
         work[c] \in {"source", "stream"}, stream[c] # "open",
         UNCHANGED <<expired, stream, left, reply>>
  PROVE  IInv'
<1>1. /\ work' = [work EXCEPT ![c] = "done"] /\ timer' = [timer EXCEPT ![c] = FALSE]
  BY DEF Settle
<1>2. CASE expired[c]
  <2>1. UNCHANGED <<lock, outcome>>
    BY <1>2 DEF Settle
  <2>2. TypeOK' /\ LocksAreExclusive'
    BY <1>1, <2>1 DEF IInv, TypeOK, LocksAreExclusive, Held
  <2>3. CallIsConsistent(c)' /\ (Held(c)' <=> (work[c] \in {"source", "stream"} /\ ~expired[c] /\ timer[c])')
    BY <1>1, <1>2, <2>1 DEF IInv, TypeOK, Held, HeldLocksCanExpire, CallIsConsistent, Untouched
  <2>4. \A d \in Calls \ {c} : Unmoved(d)
    BY <1>1, <2>1 DEF IInv, TypeOK, Unmoved
  <2>5. QED
    BY <2>2, <2>3, <2>4, OneCall
<1>3. CASE ~expired[c]
  <2>1. /\ Lock(getLockIdentifier(c.resource))!Finish(c)
        /\ outcome' = [outcome EXCEPT ![c] = result]
    BY <1>3 DEF Settle
  <2>2. lock' = [lock EXCEPT ![c] = "idle"] /\ LocksAreExclusive'
    BY <2>1, FinishReleases DEF IInv
  <2>3. TypeOK'
    BY <1>1, <2>1, <2>2 DEF IInv, TypeOK
  <2>4. CallIsConsistent(c)' /\ (Held(c)' <=> (work[c] \in {"source", "stream"} /\ ~expired[c] /\ timer[c])')
    BY <1>1, <1>3, <2>1, <2>2 DEF IInv, TypeOK, Held, HeldLocksCanExpire, CallIsConsistent, Untouched
  <2>5. \A d \in Calls \ {c} : Unmoved(d)
    BY <1>1, <2>1, <2>2 DEF IInv, TypeOK, Unmoved
  <2>6. QED
    BY <2>2, <2>3, <2>4, <2>5, OneCall
<1>4. QED
  BY <1>2, <1>3 DEF IInv, TypeOK

\* The timer fires during the race.
LEMMA ExpireKeeps ==
  ASSUME IInv, NEW c \in Calls, expire(c)
  PROVE  IInv'
<1>1. lock' = [lock EXCEPT ![c] = "idle"] /\ LocksAreExclusive'
  BY FinishReleases DEF IInv, expire
<1>2. TypeOK'
  BY <1>1 DEF IInv, TypeOK, expire
<1>3. CallIsConsistent(c)' /\ (Held(c)' <=> (work[c] \in {"source", "stream"} /\ ~expired[c] /\ timer[c])')
  BY <1>1 DEF IInv, TypeOK, Held, CallIsConsistent, Untouched, expire
<1>4. \A d \in Calls \ {c} : Unmoved(d)
  BY <1>1 DEF IInv, TypeOK, Unmoved, expire
<1>5. QED
  BY <1>1, <1>2, <1>3, <1>4, OneCall

\* The steps of the caller and its stream, which leave all locks alone.
LEMMA StreamKeeps ==
  ASSUME IInv, NEW c \in Calls,
         \/ lockedRepresentationRun(c) \/ read(c) \/ streamFails(c)
         \/ return(c) \/ expireLate(c)
  PROVE  IInv'
<1>1. lock' = lock /\ expired' = expired
  BY DEF lockedRepresentationRun, read, streamFails, return, expireLate
<1>2. LocksAreExclusive'
  BY <1>1 DEF IInv, LocksAreExclusive, Held
<1>3. CallIsConsistent(c) /\ (Held(c) <=> work[c] \in {"source", "stream"} /\ ~expired[c] /\ timer[c])
  BY DEF IInv, HeldLocksCanExpire, Held
<1>4. ASSUME TypeOK', CallIsConsistent(c)', \A d \in Calls \ {c} : Unmoved(d),
             (work[c] \in {"source", "stream"} /\ ~expired[c] /\ timer[c])
               <=> (work[c] \in {"source", "stream"} /\ ~expired[c] /\ timer[c])'
      PROVE  IInv'
  BY <1>1, <1>2, <1>3, <1>4, OneCall DEF Held
<1>5. CASE lockedRepresentationRun(c)
  <2>1. TypeOK'
    BY <1>5 DEF IInv, TypeOK, lockedRepresentationRun
  <2>2. CallIsConsistent(c)'
    BY <1>3, <1>5 DEF IInv, TypeOK, CallIsConsistent, Untouched, lockedRepresentationRun
  <2>3. \A d \in Calls \ {c} : Unmoved(d)
    BY <1>5 DEF IInv, TypeOK, Unmoved, lockedRepresentationRun
  <2>4. (work[c] \in {"source", "stream"} /\ ~expired[c] /\ timer[c])
          <=> (work[c] \in {"source", "stream"} /\ ~expired[c] /\ timer[c])'
    BY <1>3, <1>5 DEF IInv, TypeOK, CallIsConsistent, lockedRepresentationRun
  <2>5. QED
    BY <1>4, <2>1, <2>2, <2>3, <2>4
<1>6. CASE read(c)
  <2>1. TypeOK'
    BY <1>6, CallsAssumption DEF IInv, TypeOK, read
  <2>2. CallIsConsistent(c)'
    BY <1>3, <1>6 DEF IInv, TypeOK, CallIsConsistent, Untouched, read
  <2>3. \A d \in Calls \ {c} : Unmoved(d)
    BY <1>6 DEF IInv, TypeOK, Unmoved, read
  <2>4. (work[c] \in {"source", "stream"} /\ ~expired[c] /\ timer[c])
          <=> (work[c] \in {"source", "stream"} /\ ~expired[c] /\ timer[c])'
    BY <1>3, <1>6 DEF IInv, TypeOK, CallIsConsistent, read
  <2>5. QED
    BY <1>4, <2>1, <2>2, <2>3, <2>4
<1>7. CASE streamFails(c)
  <2>1. TypeOK'
    BY <1>7 DEF IInv, TypeOK, streamFails
  <2>2. CallIsConsistent(c)'
    BY <1>3, <1>7 DEF IInv, TypeOK, CallIsConsistent, Untouched, streamFails
  <2>3. \A d \in Calls \ {c} : Unmoved(d)
    BY <1>7 DEF IInv, TypeOK, Unmoved, streamFails
  <2>4. (work[c] \in {"source", "stream"} /\ ~expired[c] /\ timer[c])
          <=> (work[c] \in {"source", "stream"} /\ ~expired[c] /\ timer[c])'
    BY <1>3, <1>7 DEF IInv, TypeOK, CallIsConsistent, streamFails
  <2>5. QED
    BY <1>4, <2>1, <2>2, <2>3, <2>4
<1>8. CASE return(c)
  <2>1. TypeOK'
    BY <1>8 DEF IInv, TypeOK, return
  <2>2. CallIsConsistent(c)'
    BY <1>3, <1>8 DEF IInv, TypeOK, CallIsConsistent, Untouched, return
  <2>3. \A d \in Calls \ {c} : Unmoved(d)
    BY <1>8 DEF IInv, TypeOK, Unmoved, return
  <2>4. (work[c] \in {"source", "stream"} /\ ~expired[c] /\ timer[c])
          <=> (work[c] \in {"source", "stream"} /\ ~expired[c] /\ timer[c])'
    BY <1>3, <1>8 DEF IInv, TypeOK, CallIsConsistent, return
  <2>5. QED
    BY <1>4, <2>1, <2>2, <2>3, <2>4
<1>9. CASE expireLate(c)
  <2>1. TypeOK'
    BY <1>9 DEF IInv, TypeOK, expireLate
  <2>2. CallIsConsistent(c)'
    BY <1>3, <1>9 DEF IInv, TypeOK, CallIsConsistent, Untouched, expireLate
  <2>3. \A d \in Calls \ {c} : Unmoved(d)
    BY <1>9 DEF IInv, TypeOK, Unmoved, expireLate
  <2>4. (work[c] \in {"source", "stream"} /\ ~expired[c] /\ timer[c])
          <=> (work[c] \in {"source", "stream"} /\ ~expired[c] /\ timer[c])'
    BY <1>3, <1>9 DEF IInv, TypeOK, CallIsConsistent, expireLate
  <2>5. QED
    BY <1>4, <2>1, <2>2, <2>3, <2>4
<1>10. QED
  BY <1>5, <1>6, <1>7, <1>8, <1>9

-----------------------------------------------------------------------------
(* The theorems.                                                           *)

\* Every step keeps the invariant.
LEMMA NextKeeps == IInv /\ [Next]_vars => IInv'
<1> SUFFICES ASSUME IInv, [Next]_vars PROVE IInv'
  OBVIOUS
<1>1. CASE UNCHANGED vars
  BY <1>1 DEF IInv, TypeOK, HeldLocksCanExpire, LocksAreExclusive, Held,
     CallIsConsistent, Untouched, vars
<1>2. ASSUME NEW c \in Calls,
             \/ Call(c) \/ expiringPromise(c)
             \/ sourceReturns(c) \/ sourceThrows(c) \/ lockedRepresentationRun(c)
             \/ read(c) \/ streamFails(c) \/ waitForStreamToEnd(c)
             \/ expire(c) \/ return(c) \/ expireLate(c)
      PROVE  IInv'
  <2>1. work[c] = "source" => stream[c] # "open"
    BY DEF IInv, CallIsConsistent
  <2>2. CASE sourceReturns(c)
    BY <2>1, <2>2, SettleKeeps DEF sourceReturns
  <2>3. CASE sourceThrows(c)
    BY <2>1, <2>3, SettleKeeps DEF sourceThrows
  <2>4. CASE waitForStreamToEnd(c)
    BY <2>4, SettleKeeps DEF waitForStreamToEnd
  <2>5. QED
    BY <1>2, <2>2, <2>3, <2>4, CallKeeps, GrantKeeps, StreamKeeps, ExpireKeeps
<1>3. QED
  BY <1>1, <1>2 DEF Next

\* The invariant holds in every state of every run of the store.
THEOREM IInvHolds == Spec => []IInv
<1>1. QED
  BY InitIInv, NextKeeps, PTL DEF Spec

\* Type correctness.
THEOREM TypeOKHolds == Spec => []TypeOK
<1>1. IInv => TypeOK
  BY DEF IInv
<1>2. QED
  BY <1>1, IInvHolds, PTL

\* A call holds a lock exactly while it is at work under a running timer: no
\* lock is held that could not time out (WrappedExpiringReadWriteLocker).
THEOREM HeldLocksCanExpireHolds == Spec => []HeldLocksCanExpire
<1>1. IInv => HeldLocksCanExpire
  BY DEF IInv
<1>2. QED
  BY <1>1, IInvHolds, PTL

\* A call that is at work, and has not timed out, has the lock of its kind.
LEMMA WorkIsLocked ==
  ASSUME IInv, NEW c \in Calls, AtWork(c), ~expired[c]
  PROVE  Held(c) /\ (c.kind = "write" => lock[c] = "writing")
<1>1. CallIsConsistent(c)
  BY DEF IInv
<1>2. work[c] \in {"source", "stream"} /\ timer[c]
  BY <1>1 DEF AtWork, CallIsConsistent
<1>3. Held(c)
  BY <1>2 DEF IInv, HeldLocksCanExpire, Held
<1>4. QED
  BY <1>1, <1>3 DEF CallIsConsistent, Held

\* Operations on the same resource, or on its auxiliary resources, of which
\* one writes only overlap after the lock of one has timed out, however many
\* there are (LockingResourceStore over the expiring locker).
THEOREM OverlapOnlyAfterExpiryHolds == Spec => []OverlapOnlyAfterExpiry
<1>1. IInv => OverlapOnlyAfterExpiry
  <2> SUFFICES ASSUME IInv, NEW c \in Calls, NEW d \in Calls,
                      Conflict(c, d), AtWork(c), AtWork(d), ~expired[c], ~expired[d]
               PROVE  FALSE
    BY DEF OverlapOnlyAfterExpiry
  <2>1. lock[c] = "writing" /\ Held(d)
    BY WorkIsLocked DEF Conflict
  <2>2. c # d /\ getLockIdentifier(c.resource) = getLockIdentifier(d.resource)
    BY DEF Conflict, getLockIdentifier
  <2>3. QED
    BY <2>1, <2>2 DEF IInv, LocksAreExclusive
<1>2. QED
  BY <1>1, IInvHolds, PTL

\* A caller reads from an open stream under the read lock, or in the moment
\* between the timeout and the destruction of the stream.
THEOREM ReadableStreamsAreLockedHolds == Spec => []ReadableStreamsAreLocked
<1>1. IInv => ReadableStreamsAreLocked
  <2> SUFFICES ASSUME IInv, NEW c \in Calls, stream[c] = "open", reply[c] = "result"
               PROVE  lock[c] = "reading" \/ (expired[c] /\ outcome[c] = "error")
    BY DEF ReadableStreamsAreLocked
  <2>1. CallIsConsistent(c)
    BY DEF IInv
  <2>2. CASE expired[c]
    BY <2>1, <2>2 DEF CallIsConsistent, IInv, TypeOK
  <2>3. CASE ~expired[c]
    <3>1. Held(c)
      BY <2>3, WorkIsLocked DEF AtWork
    <3>2. QED
      BY <2>1, <3>1 DEF CallIsConsistent, Held
  <2>4. QED
    BY <2>2, <2>3
<1>2. QED
  BY <1>1, IInvHolds, PTL

\* When the timer of expiringPromise has won the race, the only result that is
\* still handed out is a representation whose stream is about to be closed.
THEOREM ExpiredCallsFailHolds == Spec => ExpiredCallsFail
<1> DEFINE Step(c) ==
      reply[c] = "none" /\ reply'[c] = "result" /\ expired[c] =>
        c.kind = "get" /\ outcome[c] = "error"
<1>1. ASSUME IInv, Next PROVE \A c \in Calls : Step(c)
  <2>1. PICK d \in Calls :
             \/ UNCHANGED reply
             \/ lockedRepresentationRun(d)
             \/ return(d)
    BY <1>1 DEF Next, Call, expiringPromise, sourceReturns, sourceThrows, read,
       streamFails, waitForStreamToEnd, expire, expireLate
  <2> SUFFICES ASSUME NEW c \in Calls PROVE Step(c)
    OBVIOUS
  <2>2. TypeOK /\ CallIsConsistent(c)
    BY <1>1 DEF IInv
  <2>3. CASE UNCHANGED reply
    BY <2>3
  <2>4. CASE lockedRepresentationRun(d)
    BY <2>2, <2>4 DEF TypeOK, CallIsConsistent, lockedRepresentationRun
  <2>5. CASE return(d)
    BY <2>2, <2>5 DEF TypeOK, CallIsConsistent, return
  <2>6. QED
    BY <2>1, <2>3, <2>4, <2>5
<1>2. IInv /\ [Next]_vars => [\A c \in Calls : Step(c)]_vars
  BY <1>1
<1>3. QED
  BY <1>2, IInvHolds, PTL DEF Spec, ExpiredCallsFail
=============================================================================
