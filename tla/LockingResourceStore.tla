------------------------ MODULE LockingResourceStore ------------------------
(***************************************************************************)
(* LockingResourceStore over a WrappedExpiringReadWriteLocker.  Each       *)
(* element of Calls is one call of a store method, made at any time.  It   *)
(* waits for the lock of its resource, then races the wrapped store        *)
(* against a timer; when the timer wins, the lock is released and then the *)
(* caller gets an error, but what the wrapped store does goes on.  A       *)
(* representation is only read after the call has returned: its lock is    *)
(* held until its stream has ended.                                        *)
(*                                                                         *)
(* The lock of an identifier is the abstract ReadWriteLock.  A timer may   *)
(* fire at any step at which it is armed; the number of milliseconds is    *)
(* not modelled.                                                           *)
(***************************************************************************)
EXTENDS Naturals, FiniteSets

CONSTANTS
  Resources,
  Auxiliaries,   \* the auxiliary resources among them
  Associated,    \* the resource each auxiliary resource belongs to
  Calls,         \* the calls: records of the kind of method and the resource
  MaxCalls,      \* bound: how many of them are made
  Chunks         \* bound: how often the stream of a representation is read

\* resourceExists, getRepresentation; and for addResource, setRepresentation,
\* deleteResource and modifyResource, which are locked alike, "write".
Kinds == {"exists", "get", "write"}

ASSUME CallsAssumption ==
  /\ Auxiliaries \subseteq Resources
  /\ Associated \in [Auxiliaries -> Resources \ Auxiliaries]
  /\ \A c \in Calls : c.kind \in Kinds /\ c.resource \in Resources
  /\ IsFiniteSet(Calls) /\ MaxCalls \in Nat /\ Chunks \in Nat

VARIABLES
  lock,      \* the call's phase in the ReadWriteLock
  work,      \* whileLocked: "none", "source" (in the wrapped store),
             \* "stream" (in waitForStreamToEnd), "done"
  expired,   \* the timer promise has won the race
  timer,     \* is a timeout pending?
  stream,    \* the source stream: "none", "open", "ended", "destroyed"
  left,      \* chunks the client has not read yet
  outcome,   \* how the race ended, until the locker has passed it on
  reply      \* what the caller got: "none", "result", "error"

vars == <<lock, work, expired, timer, stream, left, outcome, reply>>

Init ==
  /\ lock = [c \in Calls |-> "idle"]
  /\ work = [c \in Calls |-> "none"]
  /\ expired = [c \in Calls |-> FALSE]
  /\ timer = [c \in Calls |-> FALSE]
  /\ stream = [c \in Calls |-> "none"]
  /\ left = [c \in Calls |-> Chunks]
  /\ outcome = [c \in Calls |-> "none"]
  /\ reply = [c \in Calls |-> "none"]

\* getLockIdentifier, auxiliary resources locked on their own.
getOwnLockIdentifier(r) == r

\* Auxiliary resources are locked with the resource they belong to.
getLockIdentifier(r) == IF r \in Auxiliaries THEN Associated[r] ELSE r

\* The lock of one identifier, shared by the calls that need it.
Lock(id) == INSTANCE ReadWriteLock WITH
              Requests <- {c \in Calls : getLockIdentifier(c.resource) = id},
              phase <- lock

-----------------------------------------------------------------------------
(* The calls.                                                              *)

\* A method is called and asks for its lock.
Call(c) ==
  /\ lock[c] = "idle" /\ work[c] = "none"
  /\ Cardinality({d \in Calls : lock[d] # "idle" \/ work[d] # "none"}) < MaxCalls
  /\ lock' = [lock EXCEPT ![c] = IF c.kind = "write" THEN "waitWrite"
                                                    ELSE "waitRead"]
  /\ UNCHANGED <<work, expired, timer, stream, left, outcome, reply>>

\* expiringPromise, the timer is only started by renewTimer.
promiseWithoutTimer(c) ==
  /\ \/ /\ lock[c] = "waitRead"
        /\ Lock(getLockIdentifier(c.resource))!StartRead(c)
     \/ /\ lock[c] = "waitWrite"
        /\ Lock(getLockIdentifier(c.resource))!StartWrite(c)
  /\ work' = [work EXCEPT ![c] = "source"]
  /\ UNCHANGED <<timer, expired, stream, left, outcome, reply>>

\* The lock is granted: the timer and the wrapped store are started.
expiringPromise(c) ==
  /\ \/ /\ lock[c] = "waitRead"
        /\ Lock(getLockIdentifier(c.resource))!StartRead(c)
     \/ /\ lock[c] = "waitWrite"
        /\ Lock(getLockIdentifier(c.resource))!StartWrite(c)
  /\ timer' = [timer EXCEPT ![c] = TRUE]
  /\ work' = [work EXCEPT ![c] = "source"]
  /\ UNCHANGED <<expired, stream, left, outcome, reply>>

\* Settle, what whileLocked returns counts although the timer had won.
SettleLate(c, result) ==
  /\ work' = [work EXCEPT ![c] = "done"]
  /\ timer' = [timer EXCEPT ![c] = FALSE]
  /\ outcome' = [outcome EXCEPT ![c] = result]
  /\ IF expired[c] THEN UNCHANGED lock ELSE Lock(getLockIdentifier(c.resource))!Finish(c)

\* whileLocked has settled: the timer is cleared.  Unless that had won the
\* race, the lock is released.
Settle(c, result) ==
  /\ work' = [work EXCEPT ![c] = "done"]
  /\ timer' = [timer EXCEPT ![c] = FALSE]
  /\ IF expired[c]
     THEN UNCHANGED <<lock, outcome>>
     ELSE /\ Lock(getLockIdentifier(c.resource))!Finish(c)
          /\ outcome' = [outcome EXCEPT ![c] = result]

\* The wrapped store returns something other than a representation.
sourceReturns(c) ==
  /\ work[c] = "source" /\ c.kind # "get"
  /\ Settle(c, "result")
  /\ UNCHANGED <<expired, stream, left, reply>>

\* The wrapped store throws.
sourceThrows(c) ==
  /\ work[c] = "source"
  /\ Settle(c, "error")
  /\ UNCHANGED <<expired, stream, left, reply>>

\* The wrapped store returns a representation: it is passed on to the caller
\* (who has his error if the timer fired before) and its end is awaited.
lockedRepresentationRun(c) ==
  /\ work[c] = "source" /\ c.kind = "get"
  /\ stream' = [stream EXCEPT ![c] = "open"]
  /\ work' = [work EXCEPT ![c] = "stream"]
  /\ reply' = [reply EXCEPT ![c] = IF @ = "none" THEN "result" ELSE @]
  /\ UNCHANGED <<lock, expired, timer, left, outcome>>

\* read, the old timeout is cleared and no new one is set.
readWithoutTimer(c) ==
  /\ reply[c] = "result" /\ c.kind = "get" /\ left[c] > 0
  /\ timer' = [timer EXCEPT ![c] = FALSE]
  /\ left' = [left EXCEPT ![c] = @ - 1]
  /\ stream' = [stream EXCEPT ![c] = IF @ = "open" /\ left[c] = 1 THEN "ended"
                                                                  ELSE @]
  /\ UNCHANGED <<lock, work, expired, outcome, reply>>

\* read, beyond the end of the stream.
readBeyondEnd(c) ==
  /\ reply[c] = "result" /\ c.kind = "get"
  /\ timer' = [timer EXCEPT ![c] = TRUE]
  /\ left' = [left EXCEPT ![c] = @ - 1]
  /\ UNCHANGED <<lock, work, expired, stream, outcome, reply>>

\* The caller reads from the expiring representation, which restarts the
\* timer; with the last chunk the stream ends.
read(c) ==
  /\ reply[c] = "result" /\ c.kind = "get" /\ left[c] > 0
  /\ timer' = [timer EXCEPT ![c] = TRUE]
  /\ left' = [left EXCEPT ![c] = @ - 1]
  /\ stream' = [stream EXCEPT ![c] = IF @ = "open" /\ left[c] = 1 THEN "ended"
                                                                  ELSE @]
  /\ UNCHANGED <<lock, work, expired, outcome, reply>>

\* The source stream fails or is closed by its reader.
streamFails(c) ==
  /\ stream[c] = "open" /\ reply[c] = "result"
  /\ stream' = [stream EXCEPT ![c] = "destroyed"]
  /\ UNCHANGED <<lock, work, expired, timer, left, outcome, reply>>

\* The end of the stream, good or bad, is noticed.
waitForStreamToEnd(c) ==
  /\ work[c] = "stream" /\ stream[c] \in {"ended", "destroyed"}
  /\ Settle(c, "result")
  /\ UNCHANGED <<expired, stream, left, reply>>

\* The timer fires during the race: the lock is released.
expire(c) ==
  /\ timer[c] /\ ~expired[c] /\ work[c] \in {"source", "stream"}
  /\ timer' = [timer EXCEPT ![c] = FALSE]
  /\ expired' = [expired EXCEPT ![c] = TRUE]
  /\ Lock(getLockIdentifier(c.resource))!Finish(c)
  /\ outcome' = [outcome EXCEPT ![c] = "error"]
  /\ UNCHANGED <<work, stream, left, reply>>

\* return, the stream is left open.
returnKeepsStream(c) ==
  /\ outcome[c] # "none"
  /\ outcome' = [outcome EXCEPT ![c] = "none"]
  /\ reply' = [reply EXCEPT ![c] = IF @ = "none" THEN outcome[c] ELSE @]
  /\ UNCHANGED <<lock, work, expired, timer, stream, left>>

\* The locker has cleaned up and passes the outcome on.  In case of an error
\* the stream of the representation is destroyed, if there is one yet.  The
\* caller gets his answer, unless he has his Representation.
return(c) ==
  /\ outcome[c] # "none"
  /\ outcome' = [outcome EXCEPT ![c] = "none"]
  /\ reply' = [reply EXCEPT ![c] = IF @ = "none" THEN outcome[c] ELSE @]
  /\ stream' = [stream EXCEPT ![c] =
       IF @ = "open" /\ outcome[c] = "error" THEN "destroyed" ELSE @]
  /\ UNCHANGED <<lock, work, expired, timer, left>>

\* A timer that was restarted by a late read fires when the race is over:
\* only a message is logged.
expireLate(c) ==
  /\ timer[c] /\ (expired[c] \/ work[c] = "done")
  /\ timer' = [timer EXCEPT ![c] = FALSE]
  /\ UNCHANGED <<lock, work, expired, stream, left, outcome, reply>>

Next == \E c \in Calls :
  \/ Call(c) \/ expiringPromise(c)
  \/ sourceReturns(c) \/ sourceThrows(c) \/ lockedRepresentationRun(c)
  \/ read(c) \/ streamFails(c) \/ waitForStreamToEnd(c)
  \/ expire(c) \/ return(c) \/ expireLate(c)

Spec == Init /\ [][Next]_vars

\* The runtime delivers timeouts and stream events, the locker grants a free
\* lock and cleans up.  The wrapped store may hang and the caller may stop reading.
FairSpec ==
  /\ Spec
  /\ \A c \in Calls : /\ WF_vars(expiringPromise(c))
                      /\ WF_vars(waitForStreamToEnd(c))
                      /\ WF_vars(expire(c))
                      /\ WF_vars(return(c))

-----------------------------------------------------------------------------
(* Properties.                                                             *)

TypeOK ==
  /\ lock \in [Calls -> {"idle", "waitRead", "waitWrite", "reading", "writing"}]
  /\ work \in [Calls -> {"none", "source", "stream", "done"}]
  /\ expired \in [Calls -> BOOLEAN]
  /\ timer \in [Calls -> BOOLEAN]
  /\ stream \in [Calls -> {"none", "open", "ended", "destroyed"}]
  /\ left \in [Calls -> 0 .. Chunks]
  /\ outcome \in [Calls -> {"none", "result", "error"}]
  /\ reply \in [Calls -> {"none", "result", "error"}]

\* The call is at work on the data: in the wrapped store, or on a stream
\* that it has opened there.
AtWork(c) == work[c] = "source" \/ stream[c] = "open"

\* Two calls concern the same resource, or auxiliaries of it, and one writes.
Conflict(c, d) ==
  LET Subject(r) == IF r \in Auxiliaries THEN Associated[r] ELSE r
  IN  /\ c # d /\ c.kind = "write"
      /\ Subject(c.resource) = Subject(d.resource)

\* Operations that conflict do not overlap, not even if one of them is on an
\* auxiliary resource, and a representation stays what it was until it has
\* been read, unless the lock of one of them has expired.
OverlapOnlyAfterExpiry ==
  \A c, d \in Calls :
    Conflict(c, d) /\ AtWork(c) /\ AtWork(d) => expired[c] \/ expired[d]

\* A lock is held exactly while its call is at work and may still expire:
\* nothing that holds a lock is without a timer, and a call whose timer has
\* fired, or is restarted by a late read, holds no lock to release.
HeldLocksCanExpire ==
  \A c \in Calls :
    lock[c] \in {"reading", "writing"} <=>
      work[c] \in {"source", "stream"} /\ ~expired[c] /\ timer[c]

\* A caller that was given a Representation finds an open stream only under
\* the lock, or in the moment between the timeout and its destruction.
ReadableStreamsAreLocked ==
  \A c \in Calls :
    stream[c] = "open" /\ reply[c] = "result" =>
      \/ lock[c] = "reading"
      \/ expired[c] /\ outcome[c] = "error"

\* What was not finished under the lock is not reported as a success, however
\* late the wrapped store returns it, but for a Representation that arrives in
\* the moment before the timeout is passed on.
ExpiredCallsFail ==
  [][\A c \in Calls :
       reply[c] = "none" /\ reply'[c] = "result" /\ expired[c] =>
         c.kind = "get" /\ outcome[c] = "error"]_vars

\* The resource times out to ensure that the lock is always released
\* eventually, although the wrapped store hangs or the client stalls; and so
\* every call is answered.
LocksAreReleased ==
  \A c \in Calls : lock[c] # "idle" ~> lock[c] = "idle" /\ reply[c] # "none"

-----------------------------------------------------------------------------
(* What the documentation says and the code does not keep.                 *)

\* "A ResourceStore of which all operations are atomic" (AtomicResourceStore).
OperationsAreAtomic ==
  \A c, d \in Calls : Conflict(c, d) => ~(AtWork(c) /\ AtWork(d))

\* "Destroy the source stream in case the lock times out"
\* (lockedRepresentationRun).
TimedOutStreamsAreDestroyed ==
  \A c \in Calls : expired[c] /\ outcome[c] = "none" => stream[c] # "open"
=============================================================================
