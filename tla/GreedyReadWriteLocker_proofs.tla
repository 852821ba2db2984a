-------------------- MODULE GreedyReadWriteLocker_proofs --------------------
(***************************************************************************)
(* Proofs about GreedyReadWriteLocker for any finite set of calls: the     *)
(* invariant IInv is inductive, so writers are exclusive, the count is     *)
(* exact and no release fails; and the locker implements ReadWriteLock.    *)
(***************************************************************************)
EXTENDS GreedyReadWriteLocker, FiniteSetTheorems, TLAPS

Waits == {"waitRead", "waitWrite", "waitWriter"}

\* An acquire, granted or not, keeps the queues in order: the call asks for
\* one lock only, so that it is not in a queue already.
LEMMA AcquireKeepsQueues ==
  ASSUME TypeOK, QueuesHoldTheWaiting,
         NEW k \in Keys, NEW r \in Requests, NEW w \in Waits,
         k = "read" <=> w = "waitRead",
         pc[r] \notin Waits,
         acquire(k, r, w)
  PROVE  /\ pc' \in [Requests -> Pcs]
         /\ locked' \in [Keys -> BOOLEAN]
         /\ queue' \in [Keys -> Seq(Requests)]
         /\ QueuesHoldTheWaiting'
<1>1. pc' \in [Requests -> Pcs] /\ locked' \in [Keys -> BOOLEAN]
  BY DEF acquire, TypeOK, Pcs, Section, Granted, Waits
<1>2. queue' \in [Keys -> Seq(Requests)]
  <2>1. queue[k] \in Seq(Requests) /\ Append(queue[k], r) \in Seq(Requests)
    BY DEF TypeOK
  <2>2. QED
    BY <2>1 DEF acquire, TypeOK
<1>3. CASE ~locked[k]
  <2>1. /\ queue' = queue
        /\ locked' = [locked EXCEPT ![k] = TRUE]
        /\ pc' = [pc EXCEPT ![r] = Granted(w)]
    BY <1>3 DEF acquire
  <2>2. Granted(w) \in Pcs \ Waits
    BY DEF Granted, Waits, Pcs, Section
  <2>3. \A s \in Requests, l \in Keys : pc'[s] \in WaitPcs(l) <=> pc[s] \in WaitPcs(l)
    BY <2>1, <2>2 DEF WaitPcs, Waits, TypeOK, Keys
  <2>4. \A l \in Keys : \A i \in 1 .. Len(queue[l]) : queue[l][i] \in Requests
    BY DEF TypeOK
  <2>5. \A l \in Keys : locked[l] => locked'[l]
    BY <2>1 DEF TypeOK
  <2>6. QED
    BY <1>1, <1>2, <2>1, <2>3, <2>4, <2>5 DEF QueuesHoldTheWaiting
<1>4. CASE locked[k]
  <2>1. /\ queue' = [queue EXCEPT ![k] = Append(@, r)]
        /\ pc' = [pc EXCEPT ![r] = w]
        /\ locked' = locked
    BY <1>4 DEF acquire
  <2>2. queue[k] \in Seq(Requests) /\ \A l \in Keys : Len(queue[l]) \in Nat
    BY DEF TypeOK
  <2>3. /\ Len(queue'[k]) = Len(queue[k]) + 1
        /\ \A i \in 1 .. Len(queue[k]) : queue'[k][i] = queue[k][i]
        /\ queue'[k][Len(queue[k]) + 1] = r
        /\ \A l \in Keys \ {k} : queue'[l] = queue[l]
    BY <2>1, <2>2 DEF TypeOK
  <2>4. \A i \in 1 .. Len(queue'[k]) : i \in 1 .. Len(queue[k]) \/ i = Len(queue[k]) + 1
    BY <2>2, <2>3
  <2>5. \A l \in Keys : \A i \in 1 .. Len(queue[l]) :
          queue[l][i] \in Requests /\ queue[l][i] # r
    BY DEF QueuesHoldTheWaiting, WaitPcs, Waits, Keys, TypeOK
  <2>6. \A s \in Requests, l \in Keys :
          pc'[s] \in WaitPcs(l) <=> pc[s] \in WaitPcs(l) \/ (s = r /\ l = k)
    BY <2>1 DEF WaitPcs, Waits, TypeOK, Keys
  <2>7. \A l \in Keys : \A i \in 1 .. Len(queue'[l]) : pc'[queue'[l][i]] \in WaitPcs(l)
    <3> SUFFICES ASSUME NEW l \in Keys, NEW i \in 1 .. Len(queue'[l])
                 PROVE  pc'[queue'[l][i]] \in WaitPcs(l)
      OBVIOUS
    <3>1. CASE l = k /\ i = Len(queue[k]) + 1
      BY <2>3, <2>6, <3>1
    <3>2. CASE l # k \/ i # Len(queue[k]) + 1
      <4>1. i \in 1 .. Len(queue[l]) /\ queue'[l][i] = queue[l][i]
        BY <2>3, <2>4, <3>2
      <4>2. queue[l][i] \in Requests /\ pc[queue[l][i]] \in WaitPcs(l)
        BY <2>5, <4>1 DEF QueuesHoldTheWaiting
      <4>3. QED
        BY <2>6, <4>1, <4>2
    <3>3. QED
      BY <3>1, <3>2
  <2>8. ASSUME NEW l \in Keys, NEW s \in Requests, pc'[s] \in WaitPcs(l)
        PROVE  \E i \in 1 .. Len(queue'[l]) : queue'[l][i] = s
    <3>1. CASE s = r /\ l = k
      BY <2>2, <2>3, <3>1
    <3>2. CASE pc[s] \in WaitPcs(l)
      <4>1. PICK i \in 1 .. Len(queue[l]) : queue[l][i] = s
        BY <3>2 DEF QueuesHoldTheWaiting
      <4>2. QED
        BY <2>2, <2>3, <4>1
    <3>3. QED
      BY <2>6, <2>8, <3>1, <3>2
  <2>9. \A l \in Keys : \A i, j \in 1 .. Len(queue'[l]) :
          queue'[l][i] = queue'[l][j] => i = j
    <3> SUFFICES ASSUME NEW l \in Keys, NEW i \in 1 .. Len(queue'[l]),
                        NEW j \in 1 .. Len(queue'[l]),
                        queue'[l][i] = queue'[l][j]
                 PROVE  i = j
      OBVIOUS
    <3>1. CASE l = k
      <4>1. \A m \in 1 .. Len(queue[k]) :
              queue'[k][m] = queue[k][m] /\ queue'[k][m] # r
        BY <2>3, <2>5
      <4>2. CASE i \in 1 .. Len(queue[k]) /\ j \in 1 .. Len(queue[k])
        BY <3>1, <4>1, <4>2 DEF QueuesHoldTheWaiting
      <4>3. CASE i \notin 1 .. Len(queue[k]) \/ j \notin 1 .. Len(queue[k])
        BY <2>3, <2>4, <3>1, <4>1, <4>3
      <4>4. QED
        BY <4>2, <4>3
    <3>2. CASE l # k
      BY <2>3, <3>2 DEF QueuesHoldTheWaiting
    <3>3. QED
      BY <3>1, <3>2
  <2>10. \A l \in Keys : queue'[l] # <<>> => locked'[l]
    BY <1>4, <2>1, <2>3 DEF QueuesHoldTheWaiting
  <2>11. QED
    BY <1>1, <1>2, <2>7, <2>8, <2>9, <2>10 DEF QueuesHoldTheWaiting
<1>5. QED
  BY <1>3, <1>4 DEF TypeOK

\* A release keeps the queues in order: it drops the oldest waiter and lets
\* that call, and no other, go on.
LEMMA ReleaseKeepsQueues ==
  ASSUME TypeOK, QueuesHoldTheWaiting,
         NEW k \in Keys, NEW r \in Requests, NEW n \in Pcs \ Waits,
         pc[r] \notin Waits,
         release(k, r, n)
  PROVE  /\ pc' \in [Requests -> Pcs]
         /\ locked' \in [Keys -> BOOLEAN]
         /\ queue' \in [Keys -> Seq(Requests)]
         /\ QueuesHoldTheWaiting'
<1>1. CASE queue[k] = <<>>
  <2>1. /\ queue' = queue
        /\ locked' = [locked EXCEPT ![k] = FALSE]
        /\ pc' = [pc EXCEPT ![r] = n]
    BY <1>1 DEF release
  <2>2. \A s \in Requests, l \in Keys : pc'[s] \in WaitPcs(l) <=> pc[s] \in WaitPcs(l)
    BY <2>1 DEF WaitPcs, Waits, TypeOK, Keys
  <2>3. \A l \in Keys : \A i \in 1 .. Len(queue[l]) : queue[l][i] \in Requests
    BY DEF TypeOK
  <2>4. \A l \in Keys : queue[l] # <<>> /\ locked[l] => locked'[l]
    BY <1>1, <2>1 DEF TypeOK
  <2>5. QED
    BY <2>1, <2>2, <2>3, <2>4 DEF QueuesHoldTheWaiting, TypeOK
<1>2. CASE queue[k] # <<>>
  <2> DEFINE h == Head(queue[k])
  <2>1. /\ queue' = [queue EXCEPT ![k] = Tail(@)]
        /\ pc' = [pc EXCEPT ![r] = n, ![h] = Granted(pc[h])]
        /\ locked' = locked
    BY <1>2 DEF release
  <2>2. queue[k] \in Seq(Requests) /\ \A l \in Keys : Len(queue[l]) \in Nat
    BY DEF TypeOK
  <2>3. /\ Len(queue[k]) >= 1
        /\ h = queue[k][1] /\ h \in Requests
        /\ Tail(queue[k]) \in Seq(Requests)
        /\ Len(Tail(queue[k])) = Len(queue[k]) - 1
        /\ \A i \in 1 .. Len(queue[k]) - 1 : Tail(queue[k])[i] = queue[k][i + 1]
    BY <1>2, <2>2
  <2>4. pc[h] \in WaitPcs(k) /\ h # r
    BY <2>2, <2>3 DEF QueuesHoldTheWaiting, WaitPcs, Waits, Keys
  <2>5. Granted(pc[h]) \in Pcs \ Waits
    BY <2>4 DEF WaitPcs, Granted, Pcs, Section, Waits, Keys
  <2>6. pc' \in [Requests -> Pcs]
    BY <2>1, <2>3, <2>5 DEF TypeOK
  <2>7. queue' \in [Keys -> Seq(Requests)]
    BY <2>1, <2>3 DEF TypeOK
  <2>8. /\ Len(queue'[k]) = Len(queue[k]) - 1
        /\ \A i \in 1 .. Len(queue'[k]) :
             i + 1 \in 2 .. Len(queue[k]) /\ queue'[k][i] = queue[k][i + 1]
        /\ \A l \in Keys \ {k} : queue'[l] = queue[l]
    BY <2>1, <2>2, <2>3 DEF TypeOK
  <2>9. \A s \in Requests, l \in Keys :
          pc'[s] \in WaitPcs(l) <=> pc[s] \in WaitPcs(l) /\ s # h
    BY <2>1, <2>3, <2>4, <2>5 DEF WaitPcs, Waits, TypeOK, Keys
  <2>10. \A l \in Keys : \A i \in 1 .. Len(queue[l]) :
           queue[l][i] \in Requests /\ (queue[l][i] = h => l = k /\ i = 1)
    <3> SUFFICES ASSUME NEW l \in Keys, NEW i \in 1 .. Len(queue[l])
                 PROVE  /\ queue[l][i] \in Requests
                        /\ queue[l][i] = h => l = k /\ i = 1
      OBVIOUS
    <3>1. queue[l][i] \in Requests
      BY DEF TypeOK
    <3>2. pc[queue[l][i]] \in WaitPcs(l)
      BY DEF QueuesHoldTheWaiting
    <3>3. ASSUME queue[l][i] = h PROVE l = k
      BY <2>4, <3>2, <3>3 DEF WaitPcs, Keys
    <3>4. ASSUME queue[l][i] = h, l = k PROVE i = 1
      <4>1. 1 \in 1 .. Len(queue[k])
        BY <2>2, <2>3
      <4>2. QED
        BY <2>3, <3>4, <4>1 DEF QueuesHoldTheWaiting
    <3>5. QED
      BY <3>1, <3>3, <3>4
  <2>11. \A l \in Keys : \A i \in 1 .. Len(queue'[l]) : pc'[queue'[l][i]] \in WaitPcs(l)
    <3> SUFFICES ASSUME NEW l \in Keys, NEW i \in 1 .. Len(queue'[l])
                 PROVE  pc'[queue'[l][i]] \in WaitPcs(l)
      OBVIOUS
    <3>1. CASE l = k
      <4>1. i + 1 \in 1 .. Len(queue[k]) /\ i + 1 # 1
        BY <2>2, <2>8, <3>1
      <4>2. /\ queue'[k][i] = queue[k][i + 1]
            /\ queue[k][i + 1] \in Requests /\ queue[k][i + 1] # h
            /\ pc[queue[k][i + 1]] \in WaitPcs(k)
        BY <2>8, <2>10, <3>1, <4>1 DEF QueuesHoldTheWaiting
      <4>3. QED
        BY <2>9, <3>1, <4>2
    <3>2. CASE l # k
      <4>1. /\ queue'[l] = queue[l]
            /\ queue[l][i] \in Requests /\ queue[l][i] # h
            /\ pc[queue[l][i]] \in WaitPcs(l)
        BY <2>8, <2>10, <3>2 DEF QueuesHoldTheWaiting
      <4>2. QED
        BY <2>9, <4>1
    <3>3. QED
      BY <3>1, <3>2
  <2>12. ASSUME NEW l \in Keys, NEW s \in Requests, pc'[s] \in WaitPcs(l)
         PROVE  \E i \in 1 .. Len(queue'[l]) : queue'[l][i] = s
    <3>1. PICK i \in 1 .. Len(queue[l]) : queue[l][i] = s
      BY <2>9, <2>12 DEF QueuesHoldTheWaiting
    <3>2. s # h
      BY <2>9, <2>12
    <3>3. CASE l = k
      <4>1. i - 1 \in 1 .. Len(queue'[k]) /\ (i - 1) + 1 = i
        BY <2>2, <2>3, <2>8, <3>1, <3>2, <3>3
      <4>2. queue'[k][i - 1] = s
        BY <2>8, <3>1, <3>3, <4>1
      <4>3. QED
        BY <3>3, <4>1, <4>2
    <3>4. CASE l # k
      BY <2>8, <3>1, <3>4
    <3>5. QED
      BY <3>3, <3>4
  <2>13. \A l \in Keys : \A i, j \in 1 .. Len(queue'[l]) :
           queue'[l][i] = queue'[l][j] => i = j
    <3> SUFFICES ASSUME NEW l \in Keys, NEW i \in 1 .. Len(queue'[l]),
                        NEW j \in 1 .. Len(queue'[l]),
                        queue'[l][i] = queue'[l][j]
                 PROVE  i = j
      OBVIOUS
    <3>1. CASE l = k
      <4>1. i + 1 \in 1 .. Len(queue[k]) /\ j + 1 \in 1 .. Len(queue[k])
        BY <2>2, <2>8, <3>1
      <4>2. queue[k][i + 1] = queue[k][j + 1]
        BY <2>8, <3>1
      <4>3. i + 1 = j + 1
        BY <4>1, <4>2 DEF QueuesHoldTheWaiting
      <4>4. QED
        BY <2>2, <2>8, <3>1, <4>3
    <3>2. CASE l # k
      BY <2>8, <3>2 DEF QueuesHoldTheWaiting
    <3>3. QED
      BY <3>1, <3>2
  <2>14. \A l \in Keys : queue'[l] # <<>> => locked'[l]
    BY <1>2, <2>1, <2>8 DEF QueuesHoldTheWaiting
  <2>15. QED
    BY <2>1, <2>6, <2>7, <2>11, <2>12, <2>13, <2>14
       DEF QueuesHoldTheWaiting, TypeOK
<1>3. QED
  BY <1>1, <1>2

-----------------------------------------------------------------------------
(* The effect of each action on the program counters: of the calling r and *)
(* of a call h that is granted a lock, if there is one.                    *)

\* What a release does to the program counters and to the lock.
LEMMA ReleaseEffect ==
  ASSUME TypeOK, QueuesHoldTheWaiting,
         NEW k \in Keys, NEW r \in Requests, NEW n \in Pcs \ Waits,
         pc[r] \notin Waits,
         release(k, r, n)
  PROVE  /\ \A l \in Keys \ {k} : locked'[l] = locked[l]
         /\ \/ /\ \A s \in Requests : pc[s] \notin WaitPcs(k)
               /\ ~locked'[k]
               /\ pc' = [pc EXCEPT ![r] = n]
            \/ \E h \in Requests :
                 /\ h # r /\ pc[h] \in WaitPcs(k) /\ locked[k] /\ locked'[k]
                 /\ pc' = [pc EXCEPT ![r] = n, ![h] = Granted(pc[h])]
<1>1. CASE queue[k] = <<>>
  <2>1. /\ locked' = [locked EXCEPT ![k] = FALSE]
        /\ pc' = [pc EXCEPT ![r] = n]
    BY <1>1 DEF release
  <2>2. \A s \in Requests : pc[s] \notin WaitPcs(k)
    BY <1>1 DEF QueuesHoldTheWaiting
  <2>3. QED
    BY <2>1, <2>2 DEF TypeOK
<1>2. CASE queue[k] # <<>>
  <2> DEFINE h == Head(queue[k])
  <2>1. /\ pc' = [pc EXCEPT ![r] = n, ![h] = Granted(pc[h])]
        /\ locked' = locked
    BY <1>2 DEF release
  <2>2. queue[k] \in Seq(Requests)
    BY DEF TypeOK
  <2>3. /\ 1 \in 1 .. Len(queue[k])
        /\ h = queue[k][1] /\ h \in Requests
    BY <1>2, <2>2
  <2>4. pc[h] \in WaitPcs(k) /\ h # r /\ locked[k]
    BY <1>2, <2>3 DEF QueuesHoldTheWaiting, WaitPcs, Waits, Keys
  <2> HIDE DEF h
  <2>5. QED
    BY <2>1, <2>3, <2>4
<1>3. QED
  BY <1>1, <1>2

\* What an acquire does to the program counters and to the lock.
LEMMA AcquireEffect ==
  ASSUME TypeOK, NEW k \in Keys, NEW r \in Requests, NEW w \in Waits,
         acquire(k, r, w)
  PROVE  /\ locked'[k] /\ \A l \in Keys \ {k} : locked'[l] = locked[l]
         /\ \/ ~locked[k] /\ pc' = [pc EXCEPT ![r] = Granted(w)]
            \/ locked[k] /\ pc' = [pc EXCEPT ![r] = w]
BY DEF acquire, TypeOK

-----------------------------------------------------------------------------
(* What the count says about the readers.                                  *)

\* What the count says of the readers: whoever is counted makes it positive.
LEMMA CountFacts ==
  ASSUME CountIsExact
  PROVE  /\ count \in Nat
         /\ count = 0 <=> \A r \in Requests : ~Counted(r)
         /\ \A r, s \in Requests :
              count = 1 /\ Counted(r) /\ Counted(s) => r = s
<1> DEFINE C == {r \in Requests : Counted(r)}
<1>1. IsFiniteSet(C)
  <2>1. C \subseteq Requests
    OBVIOUS
  <2>2. QED
    BY <2>1, RequestsAssumption, FS_Subset
<1>2. count = Cardinality(C)
  BY DEF CountIsExact
<1>3. count \in Nat
  BY <1>1, <1>2, FS_CardinalityType
<1>4. count = 0 <=> C = {}
  BY <1>1, <1>2, FS_EmptySet
<1>5. count = 1 <=> \E x : C = {x}
  BY <1>1, <1>2, FS_Singleton
<1>6. \A r \in Requests : Counted(r) <=> r \in C
  OBVIOUS
<1> HIDE DEF C
<1>7. C = {} <=> \A r \in Requests : ~Counted(r)
  <2>1. C \subseteq Requests
    BY DEF C
  <2>2. QED
    BY <1>6, <2>1
<1>8. QED
  BY <1>3, <1>4, <1>5, <1>6, <1>7

\* A step that changes neither the count nor who is counted.
LEMMA CountKept ==
  ASSUME count = Cardinality({r \in Requests : Counted(r)}), count' = count,
         \A r \in Requests : Counted(r)' <=> Counted(r)
  PROVE  count' = Cardinality({r \in Requests : Counted(r)'})
<1>1. {r \in Requests : Counted(r)'} = {r \in Requests : Counted(r)}
  OBVIOUS
<1>2. QED
  BY <1>1

\* A step that counts one reader more.
LEMMA CountRaised ==
  ASSUME count = Cardinality({s \in Requests : Counted(s)}), count' = count + 1,
         NEW r \in Requests, ~Counted(r),
         \A s \in Requests : Counted(s)' <=> Counted(s) \/ s = r
  PROVE  count' = Cardinality({s \in Requests : Counted(s)'})
<1> DEFINE C == {s \in Requests : Counted(s)}
<1>1. IsFiniteSet(C)
  <2>1. C \subseteq Requests
    OBVIOUS
  <2>2. QED
    BY <2>1, RequestsAssumption, FS_Subset
<1>2. {s \in Requests : Counted(s)'} = C \cup {r}
  OBVIOUS
<1>3. r \notin C
  OBVIOUS
<1> HIDE DEF C
<1>4. Cardinality(C \cup {r}) = Cardinality(C) + 1
  BY <1>1, <1>3, FS_AddElement
<1>5. count = Cardinality(C)
  BY DEF C
<1>6. QED
  BY <1>2, <1>4, <1>5

\* A step that counts one reader less.
LEMMA CountLowered ==
  ASSUME count = Cardinality({s \in Requests : Counted(s)}), count' = count - 1,
         NEW r \in Requests, Counted(r),
         \A s \in Requests : Counted(s)' <=> Counted(s) /\ s # r
  PROVE  count' = Cardinality({s \in Requests : Counted(s)'})
<1> DEFINE C == {s \in Requests : Counted(s)}
<1>1. IsFiniteSet(C)
  <2>1. C \subseteq Requests
    OBVIOUS
  <2>2. QED
    BY <2>1, RequestsAssumption, FS_Subset
<1>2. {s \in Requests : Counted(s)'} = C \ {r}
  OBVIOUS
<1>3. r \in C
  OBVIOUS
<1> HIDE DEF C
<1>4. Cardinality(C \ {r}) = Cardinality(C) - 1
  BY <1>1, <1>3, FS_RemoveElement
<1>5. count = Cardinality(C)
  BY DEF C
<1>6. QED
  BY <1>2, <1>4, <1>5

\* A step that leaves the count and its first and last readers alone.
LEMMA ReadersOwnKept ==
  ASSUME count' = count,
         \A s \in Requests : /\ Acquiring(s)' <=> Acquiring(s)
                             /\ Releasing(s)' <=> Releasing(s)
  PROVE  ReadersOwnWriteLock' <=> ReadersOwnWriteLock
BY DEF ReadersOwnWriteLock

-----------------------------------------------------------------------------
(* Every action preserves the invariant.                                   *)

\* A read request keeps the invariant.
LEMMA withReadLockKeepsIInv ==
  ASSUME IInv, NEW r \in Requests, withReadLock(r)
  PROVE  IInv'
<1>0. TypeOK /\ CountIsExact /\ LocksHaveOwners /\ OwnersAreExclusive
        /\ QueuesHoldTheWaiting
  BY DEF IInv
<1>1. /\ pc[r] = "idle" /\ acquire("read", r, "waitRead")
      /\ mod' = [mod EXCEPT ![r] = 1]
      /\ number' = number /\ count' = count
  BY DEF withReadLock
<1>2. TypeOK' /\ QueuesHoldTheWaiting'
  BY <1>0, <1>1, AcquireKeepsQueues DEF TypeOK, Keys, Waits
<1>3. /\ locked'["read"] /\ locked'["write"] = locked["write"]
      /\ \/ ~locked["read"] /\ pc' = [pc EXCEPT ![r] = "get"]
         \/ locked["read"] /\ pc' = [pc EXCEPT ![r] = "waitRead"]
  BY <1>0, <1>1, AcquireEffect DEF Keys, Waits, Granted
<1>4. \A s \in Requests : Counted(s)' <=> Counted(s)
  BY <1>0, <1>1, <1>3 DEF Counted, TypeOK
<1>5. CountIsExact'
  BY <1>0, <1>1, <1>3, <1>4, CountKept DEF CountIsExact, TypeOK
<1>6. \A s \in Requests : /\ Writer(s)' <=> Writer(s)
                          /\ Acquiring(s)' <=> Acquiring(s)
                          /\ Releasing(s)' <=> Releasing(s)
                          /\ s # r => (InSection(s)' <=> InSection(s))
  BY <1>0, <1>1, <1>3 DEF Writer, Acquiring, Releasing, InSection, Section, TypeOK
<1>7. ReadersOwnWriteLock' <=> ReadersOwnWriteLock
  BY <1>0, <1>1, <1>6, ReadersOwnKept
<1>8. ~InSection(r) /\ (InSection(r)' <=> pc'[r] = "get")
  BY <1>0, <1>1, <1>3 DEF InSection, Section, TypeOK
<1>9. LocksHaveOwners'
  BY <1>0, <1>3, <1>6, <1>7, <1>8 DEF LocksHaveOwners, TypeOK
<1>10. OwnersAreExclusive'
  BY <1>0, <1>1, <1>3, <1>6, <1>7, <1>8 DEF OwnersAreExclusive, LocksHaveOwners, TypeOK
<1>11. QED
  BY <1>2, <1>5, <1>9, <1>10 DEF IInv

\* A write request keeps the invariant.
LEMMA withWriteLockKeepsIInv ==
  ASSUME IInv, NEW r \in Requests, withWriteLock(r)
  PROVE  IInv'
<1>0. TypeOK /\ CountIsExact /\ LocksHaveOwners /\ OwnersAreExclusive
        /\ QueuesHoldTheWaiting
  BY DEF IInv
<1>1. /\ pc[r] = "idle" /\ acquire("write", r, "waitWriter")
      /\ mod' = mod /\ number' = number /\ count' = count
  BY DEF withWriteLock
<1>2. TypeOK' /\ QueuesHoldTheWaiting'
  BY <1>0, <1>1, AcquireKeepsQueues DEF TypeOK, Keys, Waits
<1>3. /\ locked'["write"] /\ locked'["read"] = locked["read"]
      /\ \/ ~locked["write"] /\ pc' = [pc EXCEPT ![r] = "writing"]
         \/ locked["write"] /\ pc' = [pc EXCEPT ![r] = "waitWriter"]
  BY <1>0, <1>1, AcquireEffect DEF Keys, Waits, Granted
<1>4. \A s \in Requests : Counted(s)' <=> Counted(s)
  BY <1>0, <1>1, <1>3 DEF Counted, TypeOK
<1>5. CountIsExact'
  BY <1>0, <1>1, <1>3, <1>4, CountKept DEF CountIsExact, TypeOK
<1>6. \A s \in Requests : /\ InSection(s)' <=> InSection(s)
                          /\ Acquiring(s)' <=> Acquiring(s)
                          /\ Releasing(s)' <=> Releasing(s)
                          /\ s # r => (Writer(s)' <=> Writer(s))
  BY <1>0, <1>1, <1>3 DEF Writer, Acquiring, Releasing, InSection, Section, TypeOK
<1>7. ReadersOwnWriteLock' <=> ReadersOwnWriteLock
  BY <1>0, <1>1, <1>6, ReadersOwnKept
<1>8. ~Writer(r) /\ (Writer(r)' <=> pc'[r] = "writing")
  BY <1>0, <1>1, <1>3 DEF Writer, TypeOK
<1>9. LocksHaveOwners'
  BY <1>0, <1>3, <1>6, <1>7, <1>8 DEF LocksHaveOwners, TypeOK
<1>10. OwnersAreExclusive'
  BY <1>0, <1>1, <1>3, <1>6, <1>7, <1>8 DEF OwnersAreExclusive, LocksHaveOwners, TypeOK
<1>11. QED
  BY <1>2, <1>5, <1>9, <1>10 DEF IInv

\* incrementCount reads the count that it is going to change.
LEMMA getCountKeepsIInv ==
  ASSUME IInv, NEW r \in Requests, getCount(r)
  PROVE  IInv'
<1>0. TypeOK /\ CountIsExact /\ LocksHaveOwners /\ OwnersAreExclusive
        /\ QueuesHoldTheWaiting
  BY DEF IInv
<1>1. /\ pc[r] = "get" /\ pc' = [pc EXCEPT ![r] = "set"]
      /\ number' = [number EXCEPT ![r] = count + mod[r]]
      /\ mod' = mod /\ count' = count /\ locked' = locked /\ queue' = queue
  BY DEF getCount
<1>2. TypeOK'
  <2>1. count + mod[r] \in Int
    <3>1. count \in Int /\ mod[r] \in {1, -1}
      BY <1>0 DEF TypeOK
    <3>2. QED
      BY <3>1
  <2>2. QED
    BY <1>0, <1>1, <2>1 DEF TypeOK, Pcs, Section
<1>3. QueuesHoldTheWaiting'
  <2>1. \A s \in Requests, k \in Keys : pc'[s] \in WaitPcs(k) <=> pc[s] \in WaitPcs(k)
    BY <1>0, <1>1 DEF WaitPcs, Keys, TypeOK
  <2>2. \A k \in Keys : \A i \in 1 .. Len(queue[k]) : queue[k][i] \in Requests
    BY <1>0 DEF TypeOK
  <2>3. QED
    BY <1>0, <1>1, <2>1, <2>2 DEF QueuesHoldTheWaiting
<1>4. \A s \in Requests : Counted(s)' <=> Counted(s)
  BY <1>0, <1>1 DEF Counted, TypeOK
<1>5. CountIsExact'
  <2>1. mod[r] = -1 => Counted(r)
    BY <1>0, <1>1 DEF Counted
  <2>2. mod[r] = -1 => count >= 1
    BY <1>0, <2>1, CountFacts
  <2>3. number'[r] >= 0
    BY <1>0, <1>1, <2>2 DEF TypeOK
  <2>4. \A s \in Requests : pc'[s] = "set" => number'[s] >= 0
    BY <1>0, <1>1, <2>3 DEF CountIsExact, TypeOK
  <2>5. QED
    BY <1>0, <1>1, <1>4, <2>4, CountKept DEF CountIsExact
<1>6. \A s \in Requests : /\ InSection(s)' <=> InSection(s)
                          /\ Acquiring(s)' <=> Acquiring(s)
                          /\ Releasing(s)' <=> Releasing(s)
                          /\ Writer(s)' <=> Writer(s)
  BY <1>0, <1>1 DEF Writer, Acquiring, Releasing, InSection, Section, TypeOK
<1>7. ReadersOwnWriteLock' <=> ReadersOwnWriteLock
  BY <1>0, <1>1, <1>6, ReadersOwnKept
<1>8. LocksHaveOwners'
  BY <1>0, <1>1, <1>6, <1>7 DEF LocksHaveOwners
<1>9. OwnersAreExclusive'
  BY <1>0, <1>1, <1>6, <1>7 DEF OwnersAreExclusive, TypeOK
<1>10. QED
  BY <1>2, <1>3, <1>5, <1>8, <1>9 DEF IInv

\* incrementCount writes the count, which it never makes negative.
LEMMA setCountKeepsIInv ==
  ASSUME IInv, NEW r \in Requests, setCount(r)
  PROVE  IInv'
<1>0. TypeOK /\ CountIsExact /\ LocksHaveOwners /\ OwnersAreExclusive
        /\ QueuesHoldTheWaiting
  BY DEF IInv
<1>1. /\ pc[r] = "set" /\ pc' = [pc EXCEPT ![r] = "guard"]
      /\ count' = number[r]
      /\ mod' = mod /\ number' = number /\ locked' = locked /\ queue' = queue
  BY DEF setCount
<1>2. number[r] = count + mod[r] /\ number[r] >= 0 /\ count \in Nat
  BY <1>0, <1>1 DEF OwnersAreExclusive, CountIsExact, TypeOK
<1>3. TypeOK'
  BY <1>0, <1>1, <1>2 DEF TypeOK, Pcs, Section
<1>4. QueuesHoldTheWaiting'
  <2>1. \A s \in Requests, k \in Keys : pc'[s] \in WaitPcs(k) <=> pc[s] \in WaitPcs(k)
    BY <1>0, <1>1 DEF WaitPcs, Keys, TypeOK
  <2>2. \A k \in Keys : \A i \in 1 .. Len(queue[k]) : queue[k][i] \in Requests
    BY <1>0 DEF TypeOK
  <2>3. QED
    BY <1>0, <1>1, <2>1, <2>2 DEF QueuesHoldTheWaiting
<1>5. \A s \in Requests : InSection(s) <=> s = r
  BY <1>0, <1>1 DEF OwnersAreExclusive, InSection, Section
<1>6. CountIsExact'
  <2>1. CASE mod[r] = 1
    <3>1. ~Counted(r) /\ \A s \in Requests : Counted(s)' <=> Counted(s) \/ s = r
      BY <1>0, <1>1, <2>1 DEF Counted, TypeOK
    <3>2. QED
      BY <1>0, <1>1, <1>2, <2>1, <3>1, CountRaised DEF CountIsExact, TypeOK
  <2>2. CASE mod[r] = -1
    <3>1. Counted(r) /\ \A s \in Requests : Counted(s)' <=> Counted(s) /\ s # r
      BY <1>0, <1>1, <2>2 DEF Counted, TypeOK
    <3>2. count' = count - 1
      BY <1>0, <1>1, <1>2, <2>2
    <3>3. QED
      BY <1>0, <1>1, <3>1, <3>2, CountLowered DEF CountIsExact, TypeOK
  <2>3. QED
    BY <1>0, <2>1, <2>2 DEF TypeOK
<1>7. \A s \in Requests : /\ InSection(s)' <=> InSection(s)
                          /\ Writer(s)' <=> Writer(s)
                          /\ ~Acquiring(s) /\ ~Releasing(s)
                          /\ Acquiring(s)' <=> s = r /\ mod[r] = 1 /\ number[r] = 1
                          /\ Releasing(s)' <=> s = r /\ mod[r] = -1 /\ number[r] = 0
  BY <1>0, <1>1, <1>5 DEF Writer, Acquiring, Releasing, InSection, Section, TypeOK
<1>8. ReadersOwnWriteLock' <=> ReadersOwnWriteLock
  <2>1. ReadersOwnWriteLock <=> count # 0
    BY <1>0, <1>7 DEF ReadersOwnWriteLock
  <2>2. mod[r] = -1 => count >= 1
    <3>1. mod[r] = -1 => Counted(r)
      BY <1>0, <1>1 DEF Counted
    <3>2. QED
      BY <1>0, <3>1, CountFacts
  <2>3. CASE mod[r] = 1
    BY <1>0, <1>1, <1>2, <1>7, <2>1, <2>3 DEF ReadersOwnWriteLock
  <2>4. CASE mod[r] = -1
    BY <1>0, <1>1, <1>2, <1>7, <2>1, <2>2, <2>4 DEF ReadersOwnWriteLock
  <2>5. QED
    BY <1>0, <2>3, <2>4 DEF TypeOK
<1>9. LocksHaveOwners'
  BY <1>0, <1>1, <1>7, <1>8 DEF LocksHaveOwners
<1>10. OwnersAreExclusive'
  <2>1. \A s \in Requests : pc'[s] \in {"get", "set", "guard", "waitWrite"} => s = r
    BY <1>0, <1>1, <1>5 DEF InSection, Section, TypeOK
  <2>2. QED
    BY <1>0, <1>1, <1>7, <1>8, <2>1 DEF OwnersAreExclusive, TypeOK
<1>11. QED
  BY <1>3, <1>4, <1>6, <1>9, <1>10 DEF IInv

\* The reader that is neither the first nor the last passes the write lock by.
LEMMA LeaveKeepsIInv ==
  ASSUME IInv, NEW r \in Requests,
         pc[r] = "guard", number[r] # (IF mod[r] = 1 THEN 1 ELSE 0),
         pc' = [pc EXCEPT ![r] = "release"],
         UNCHANGED <<mod, number, count, locked, queue>>
  PROVE  IInv'
<1>0. TypeOK /\ CountIsExact /\ LocksHaveOwners /\ OwnersAreExclusive
        /\ QueuesHoldTheWaiting
  BY DEF IInv
<1>1. TypeOK'
  BY <1>0 DEF TypeOK, Pcs, Section
<1>2. QueuesHoldTheWaiting'
  <2>1. \A s \in Requests, k \in Keys : pc'[s] \in WaitPcs(k) <=> pc[s] \in WaitPcs(k)
    BY <1>0 DEF WaitPcs, Keys, TypeOK
  <2>2. \A k \in Keys : \A i \in 1 .. Len(queue[k]) : queue[k][i] \in Requests
    BY <1>0 DEF TypeOK
  <2>3. QED
    BY <1>0, <2>1, <2>2 DEF QueuesHoldTheWaiting
<1>3. \A s \in Requests : Counted(s)' <=> Counted(s)
  BY <1>0 DEF Counted, TypeOK
<1>4. CountIsExact'
  BY <1>0, <1>3, CountKept DEF CountIsExact, TypeOK
<1>5. \A s \in Requests : /\ InSection(s)' <=> InSection(s)
                          /\ Writer(s)' <=> Writer(s)
                          /\ Acquiring(s)' <=> Acquiring(s)
                          /\ Releasing(s)' <=> Releasing(s)
  BY <1>0 DEF Writer, Acquiring, Releasing, InSection, Section, TypeOK
<1>6. ReadersOwnWriteLock' <=> ReadersOwnWriteLock
  BY <1>5, ReadersOwnKept
<1>7. LocksHaveOwners'
  BY <1>0, <1>5, <1>6 DEF LocksHaveOwners
<1>8. OwnersAreExclusive'
  BY <1>0, <1>5, <1>6 DEF OwnersAreExclusive, TypeOK
<1>9. QED
  BY <1>1, <1>2, <1>4, <1>7, <1>8 DEF IInv

\* The first reader asks for the write lock, which the readers do not have yet.
LEMMA preReadSetupKeepsIInv ==
  ASSUME IInv, NEW r \in Requests, preReadSetup(r)
  PROVE  IInv'
<1>0. TypeOK /\ CountIsExact /\ LocksHaveOwners /\ OwnersAreExclusive
        /\ QueuesHoldTheWaiting
  BY DEF IInv
<1>1. /\ pc[r] = "guard" /\ mod[r] = 1 /\ number[r] = count
      /\ mod' = mod /\ number' = number /\ count' = count
  BY <1>0 DEF preReadSetup, OwnersAreExclusive
<1>2. \A s \in Requests : InSection(s) <=> s = r
  BY <1>0, <1>1 DEF OwnersAreExclusive, InSection, Section
<1>3. CASE number[r] = 1
  <2>1. acquire("write", r, "waitWrite")
    BY <1>3 DEF preReadSetup
  <2>2. TypeOK' /\ QueuesHoldTheWaiting'
    BY <1>0, <1>1, <2>1, AcquireKeepsQueues DEF TypeOK, Keys, Waits
  <2>3. /\ locked'["write"] /\ locked'["read"] = locked["read"]
        /\ \/ ~locked["write"] /\ pc' = [pc EXCEPT ![r] = "release"]
           \/ locked["write"] /\ pc' = [pc EXCEPT ![r] = "waitWrite"]
    BY <1>0, <2>1, AcquireEffect DEF Keys, Waits, Granted
  <2>4. \A s \in Requests : Counted(s)' <=> Counted(s)
    BY <1>0, <1>1, <2>3 DEF Counted, TypeOK
  <2>5. CountIsExact'
    BY <1>0, <1>1, <2>3, <2>4, CountKept DEF CountIsExact, TypeOK
  <2>6. \A s \in Requests : InSection(s)' <=> InSection(s)
    BY <1>0, <1>1, <2>3 DEF InSection, Section, TypeOK
  <2>7. \A s \in Requests : Writer(s)' <=> Writer(s)
    BY <1>0, <1>1, <2>3 DEF Writer, TypeOK
  <2>8. Acquiring(r) /\ \A s \in Requests : ~Releasing(s) /\ ~Releasing(s)'
    BY <1>0, <1>1, <1>2, <1>3, <2>3
       DEF Acquiring, Releasing, InSection, Section, TypeOK
  <2>9. \A s \in Requests : Acquiring(s)' <=> s = r /\ pc'[r] = "waitWrite"
    BY <1>0, <1>1, <1>2, <1>3, <2>3 DEF Acquiring, InSection, Section, TypeOK
  <2>10. ~ReadersOwnWriteLock /\ (ReadersOwnWriteLock' <=> pc'[r] = "release")
    BY <1>0, <1>1, <1>3, <2>3, <2>8, <2>9 DEF ReadersOwnWriteLock, TypeOK
  <2>11. LocksHaveOwners'
    BY <1>0, <2>3, <2>6, <2>7, <2>10 DEF LocksHaveOwners, TypeOK
  <2>12. OwnersAreExclusive'
    BY <1>0, <1>1, <1>3, <2>3, <2>6, <2>7, <2>10
       DEF OwnersAreExclusive, LocksHaveOwners, TypeOK
  <2>13. QED
    BY <2>2, <2>5, <2>11, <2>12 DEF IInv
<1>4. CASE number[r] # 1
  <2>1. /\ pc' = [pc EXCEPT ![r] = "release"]
        /\ locked' = locked /\ queue' = queue
    BY <1>4 DEF preReadSetup
  <2>2. QED
    BY <1>0, <1>1, <1>4, <2>1, LeaveKeepsIInv DEF IInv
<1>5. QED
  BY <1>3, <1>4

\* The last reader gives back the write lock, which the readers have.
LEMMA postReadCleanupKeepsIInv ==
  ASSUME IInv, NEW r \in Requests, postReadCleanup(r)
  PROVE  IInv'
<1>0. TypeOK /\ CountIsExact /\ LocksHaveOwners /\ OwnersAreExclusive
        /\ QueuesHoldTheWaiting
  BY DEF IInv
<1>1. /\ pc[r] = "guard" /\ mod[r] = -1 /\ number[r] = count
      /\ mod' = mod /\ number' = number /\ count' = count
  BY <1>0 DEF postReadCleanup, OwnersAreExclusive
<1>2. \A s \in Requests : InSection(s) <=> s = r
  BY <1>0, <1>1 DEF OwnersAreExclusive, InSection, Section
<1>3. CASE number[r] = 0
  <2>1. release("write", r, "release")
    BY <1>3 DEF postReadCleanup
  <2>2. TypeOK' /\ QueuesHoldTheWaiting'
    BY <1>0, <1>1, <2>1, ReleaseKeepsQueues DEF TypeOK, Keys, Waits, Pcs, Section
  <2>3. /\ locked'["read"] = locked["read"]
        /\ \/ ~locked'["write"] /\ pc' = [pc EXCEPT ![r] = "release"]
           \/ \E h \in Requests :
                /\ h # r /\ pc[h] \in WaitPcs("write") /\ locked'["write"]
                /\ pc' = [pc EXCEPT ![r] = "release", ![h] = Granted(pc[h])]
    BY <1>0, <1>1, <2>1, ReleaseEffect DEF Keys, Waits, Pcs, Section
  <2>4. \A h \in Requests \ {r} : pc[h] # "waitWrite"
    BY <1>2 DEF InSection, Section
  <2>5. /\ locked'["read"] = locked["read"]
        /\ \/ ~locked'["write"] /\ pc' = [pc EXCEPT ![r] = "release"]
           \/ \E h \in Requests :
                /\ h # r /\ pc[h] = "waitWriter" /\ locked'["write"]
                /\ pc' = [pc EXCEPT ![r] = "release", ![h] = "writing"]
    BY <2>3, <2>4 DEF WaitPcs, Granted
  <2>6. Releasing(r) /\ ReadersOwnWriteLock /\ \A s \in Requests : ~Writer(s)
    BY <1>0, <1>1, <1>3 DEF Releasing, ReadersOwnWriteLock, OwnersAreExclusive
  <2>7. \A s \in Requests : ~Acquiring(s)' /\ ~Releasing(s)'
    BY <1>0, <1>1, <1>2, <2>5 DEF Acquiring, Releasing, InSection, Section, TypeOK
  <2>8. ~ReadersOwnWriteLock'
    BY <1>1, <1>3, <2>7 DEF ReadersOwnWriteLock
  <2>9. \A s \in Requests : InSection(s)' <=> InSection(s)
    BY <1>0, <1>1, <2>5 DEF InSection, Section, TypeOK
  <2>10. \A s \in Requests : Counted(s)' <=> Counted(s)
    BY <1>0, <1>1, <2>5 DEF Counted, TypeOK
  <2>11. CountIsExact'
    BY <1>0, <1>1, <2>5, <2>10, CountKept DEF CountIsExact, TypeOK
  <2>12. \/ ~locked'["write"] /\ \A s \in Requests : ~Writer(s)'
         \/ \E h \in Requests : /\ locked'["write"]
                                /\ \A s \in Requests : Writer(s)' <=> s = h
    BY <1>0, <1>1, <2>5, <2>6 DEF Writer, TypeOK
  <2>13. LocksHaveOwners'
    <3>1. locked'["read"] <=> \E s \in Requests : InSection(s)'
      BY <1>0, <2>5, <2>9 DEF LocksHaveOwners
    <3>2. locked'["write"] <=> \E s \in Requests : Writer(s)'
      BY <2>2, <2>12 DEF TypeOK, Keys
    <3>3. QED
      BY <2>8, <3>1, <3>2 DEF LocksHaveOwners
  <2>14. OwnersAreExclusive'
    <3>1. \A s, t \in Requests : InSection(s)' /\ InSection(t)' => s = t
      BY <1>0, <2>9 DEF OwnersAreExclusive
    <3>2. \A s, t \in Requests : Writer(s)' /\ Writer(t)' => s = t
      BY <2>12
    <3>3. \A s \in Requests : Writer(s)' => ~ReadersOwnWriteLock'
      BY <2>8
    <3>4. \A s \in Requests :
            /\ pc'[s] = "set" => number'[s] = count' + mod'[s]
            /\ pc'[s] \in {"guard", "waitWrite"} => number'[s] = count'
            /\ pc'[s] = "waitWrite" => mod'[s] = 1 /\ number'[s] = 1
      BY <1>0, <1>1, <2>5 DEF OwnersAreExclusive, TypeOK
    <3>5. QED
      BY <3>1, <3>2, <3>3, <3>4 DEF OwnersAreExclusive
  <2>15. QED
    BY <2>2, <2>11, <2>13, <2>14 DEF IInv
<1>4. CASE number[r] # 0
  <2>1. /\ pc' = [pc EXCEPT ![r] = "release"]
        /\ locked' = locked /\ queue' = queue
    BY <1>4 DEF postReadCleanup
  <2>2. (IF mod[r] = 1 THEN 1 ELSE 0) = 0
    BY <1>1
  <2>3. QED
    BY <1>0, <1>1, <1>4, <2>1, <2>2, LeaveKeepsIInv DEF IInv
<1>5. QED
  BY <1>3, <1>4

\* The release of the internal lock hands it to one waiting call at most.
LEMMA releaseInternalKeepsIInv ==
  ASSUME IInv, NEW r \in Requests, releaseInternal(r)
  PROVE  IInv'
<1>0. TypeOK /\ CountIsExact /\ LocksHaveOwners /\ OwnersAreExclusive
        /\ QueuesHoldTheWaiting
  BY DEF IInv
<1> DEFINE n == IF mod[r] = 1 THEN "reading" ELSE "idle"
<1>1. /\ pc[r] = "release" /\ release("read", r, n)
      /\ mod' = mod /\ number' = number /\ count' = count
  BY DEF releaseInternal
<1>2. \A s \in Requests : InSection(s) <=> s = r
  BY <1>0, <1>1 DEF OwnersAreExclusive, InSection, Section
<1>3. n \in {"reading", "idle"} /\ (n = "reading" <=> mod[r] = 1)
  OBVIOUS
<1> HIDE DEF n
<1>4. TypeOK' /\ QueuesHoldTheWaiting'
  BY <1>0, <1>1, <1>3, ReleaseKeepsQueues DEF TypeOK, Keys, Waits, Pcs, Section
<1>5. /\ locked'["write"] = locked["write"]
      /\ \/ ~locked'["read"] /\ pc' = [pc EXCEPT ![r] = n]
         \/ \E h \in Requests :
              /\ h # r /\ pc[h] = "waitRead" /\ locked'["read"]
              /\ pc' = [pc EXCEPT ![r] = n, ![h] = "get"]
  BY <1>0, <1>1, <1>3, ReleaseEffect
     DEF Keys, Waits, Pcs, Section, WaitPcs, Granted
<1>6. \A s \in Requests : Counted(s)' <=> Counted(s)
  BY <1>0, <1>1, <1>3, <1>5 DEF Counted, TypeOK
<1>7. CountIsExact'
  BY <1>0, <1>1, <1>3, <1>5, <1>6, CountKept DEF CountIsExact, TypeOK
<1>8. \A s \in Requests : /\ Writer(s)' <=> Writer(s)
                          /\ Acquiring(s)' <=> Acquiring(s)
                          /\ Releasing(s)' <=> Releasing(s)
  BY <1>0, <1>1, <1>3, <1>5 DEF Writer, Acquiring, Releasing, TypeOK
<1>9. ReadersOwnWriteLock' <=> ReadersOwnWriteLock
  BY <1>1, <1>8, ReadersOwnKept
<1>10. \/ ~locked'["read"] /\ \A s \in Requests : ~InSection(s)'
       \/ \E h \in Requests : /\ locked'["read"]
                              /\ \A s \in Requests : InSection(s)' <=> s = h
  <2>1. CASE ~locked'["read"] /\ pc' = [pc EXCEPT ![r] = n]
    <3>1. \A s \in Requests : ~InSection(s)'
      BY <1>0, <1>2, <1>3, <2>1 DEF InSection, Section, TypeOK
    <3>2. QED
      BY <2>1, <3>1
  <2>2. ASSUME NEW h \in Requests,
               h # r, pc[h] = "waitRead", locked'["read"],
               pc' = [pc EXCEPT ![r] = n, ![h] = "get"]
        PROVE  \A s \in Requests : InSection(s)' <=> s = h
    BY <1>0, <1>2, <1>3, <2>2 DEF InSection, Section, TypeOK
  <2>3. QED
    BY <1>5, <2>1, <2>2
<1>11. LocksHaveOwners'
  <2>1. locked'["read"] <=> \E s \in Requests : InSection(s)'
    BY <1>4, <1>10 DEF TypeOK, Keys
  <2>2. QED
    BY <1>0, <1>5, <1>8, <1>9, <2>1 DEF LocksHaveOwners
<1>12. OwnersAreExclusive'
  <2>1. \A s \in Requests : pc'[s] \notin {"set", "guard", "waitWrite"}
    BY <1>0, <1>1, <1>2, <1>3, <1>5 DEF InSection, Section, TypeOK
  <2>2. QED
    BY <1>0, <1>8, <1>9, <1>10, <2>1 DEF OwnersAreExclusive
<1>13. QED
  BY <1>4, <1>7, <1>11, <1>12 DEF IInv

\* The end of a read operation keeps the invariant.
LEMMA finishReadKeepsIInv ==
  ASSUME IInv, NEW r \in Requests, finishRead(r)
  PROVE  IInv'
<1>0. TypeOK /\ CountIsExact /\ LocksHaveOwners /\ OwnersAreExclusive
        /\ QueuesHoldTheWaiting
  BY DEF IInv
<1>1. /\ pc[r] = "reading" /\ acquire("read", r, "waitRead")
      /\ mod' = [mod EXCEPT ![r] = -1]
      /\ number' = number /\ count' = count
  BY DEF finishRead
<1>2. TypeOK' /\ QueuesHoldTheWaiting'
  BY <1>0, <1>1, AcquireKeepsQueues DEF TypeOK, Keys, Waits
<1>3. /\ locked'["read"] /\ locked'["write"] = locked["write"]
      /\ \/ ~locked["read"] /\ pc' = [pc EXCEPT ![r] = "get"]
         \/ locked["read"] /\ pc' = [pc EXCEPT ![r] = "waitRead"]
  BY <1>0, <1>1, AcquireEffect DEF Keys, Waits, Granted
<1>4. \A s \in Requests : Counted(s)' <=> Counted(s)
  BY <1>0, <1>1, <1>3 DEF Counted, TypeOK
<1>5. CountIsExact'
  BY <1>0, <1>1, <1>3, <1>4, CountKept DEF CountIsExact, TypeOK
<1>6. \A s \in Requests : /\ Writer(s)' <=> Writer(s)
                          /\ Acquiring(s)' <=> Acquiring(s)
                          /\ Releasing(s)' <=> Releasing(s)
                          /\ s # r => (InSection(s)' <=> InSection(s))
  BY <1>0, <1>1, <1>3 DEF Writer, Acquiring, Releasing, InSection, Section, TypeOK
<1>7. ReadersOwnWriteLock' <=> ReadersOwnWriteLock
  BY <1>0, <1>1, <1>6, ReadersOwnKept
<1>8. ~InSection(r) /\ (InSection(r)' <=> pc'[r] = "get")
  BY <1>0, <1>1, <1>3 DEF InSection, Section, TypeOK
<1>9. LocksHaveOwners'
  BY <1>0, <1>3, <1>6, <1>7, <1>8 DEF LocksHaveOwners, TypeOK
<1>10. OwnersAreExclusive'
  BY <1>0, <1>1, <1>3, <1>6, <1>7, <1>8 DEF OwnersAreExclusive, LocksHaveOwners, TypeOK
<1>11. QED
  BY <1>2, <1>5, <1>9, <1>10 DEF IInv

\* The end of a write operation keeps the invariant.
LEMMA finishWriteKeepsIInv ==
  ASSUME IInv, NEW r \in Requests, finishWrite(r)
  PROVE  IInv'
<1>0. TypeOK /\ CountIsExact /\ LocksHaveOwners /\ OwnersAreExclusive
        /\ QueuesHoldTheWaiting
  BY DEF IInv
<1>1. /\ pc[r] = "writing" /\ pc' = [pc EXCEPT ![r] = "written"]
      /\ mod' = mod /\ number' = number /\ count' = count
      /\ locked' = locked /\ queue' = queue
  BY DEF finishWrite
<1>2. TypeOK'
  BY <1>0, <1>1 DEF TypeOK, Pcs, Section
<1>3. QueuesHoldTheWaiting'
  <2>1. \A s \in Requests, k \in Keys : pc'[s] \in WaitPcs(k) <=> pc[s] \in WaitPcs(k)
    BY <1>0, <1>1 DEF WaitPcs, Keys, TypeOK
  <2>2. \A k \in Keys : \A i \in 1 .. Len(queue[k]) : queue[k][i] \in Requests
    BY <1>0 DEF TypeOK
  <2>3. QED
    BY <1>0, <1>1, <2>1, <2>2 DEF QueuesHoldTheWaiting
<1>4. \A s \in Requests : Counted(s)' <=> Counted(s)
  BY <1>0, <1>1 DEF Counted, TypeOK
<1>5. CountIsExact'
  BY <1>0, <1>1, <1>4, CountKept DEF CountIsExact, TypeOK
<1>6. \A s \in Requests : /\ InSection(s)' <=> InSection(s)
                          /\ Acquiring(s)' <=> Acquiring(s)
                          /\ Releasing(s)' <=> Releasing(s)
                          /\ Writer(s)' <=> Writer(s)
  BY <1>0, <1>1 DEF Writer, Acquiring, Releasing, InSection, Section, TypeOK
<1>7. ReadersOwnWriteLock' <=> ReadersOwnWriteLock
  BY <1>1, <1>6, ReadersOwnKept
<1>8. LocksHaveOwners'
  BY <1>0, <1>1, <1>6, <1>7 DEF LocksHaveOwners
<1>9. OwnersAreExclusive'
  BY <1>0, <1>1, <1>6, <1>7 DEF OwnersAreExclusive, TypeOK
<1>10. QED
  BY <1>2, <1>3, <1>5, <1>8, <1>9 DEF IInv

\* A writer gives its lock to one waiting call at most.
LEMMA releaseWriterKeepsIInv ==
  ASSUME IInv, NEW r \in Requests, releaseWriter(r)
  PROVE  IInv'
<1>0. TypeOK /\ CountIsExact /\ LocksHaveOwners /\ OwnersAreExclusive
        /\ QueuesHoldTheWaiting
  BY DEF IInv
<1>1. /\ pc[r] = "written" /\ release("write", r, "idle")
      /\ mod' = mod /\ number' = number /\ count' = count
  BY DEF releaseWriter
<1>2. /\ ~ReadersOwnWriteLock
      /\ \A s \in Requests : Writer(s) <=> s = r
  BY <1>0, <1>1 DEF OwnersAreExclusive, Writer
<1>3. TypeOK' /\ QueuesHoldTheWaiting'
  BY <1>0, <1>1, ReleaseKeepsQueues DEF TypeOK, Keys, Waits, Pcs, Section
<1>4. /\ locked'["read"] = locked["read"]
      /\ \/ /\ ~locked'["write"] /\ pc' = [pc EXCEPT ![r] = "idle"]
            /\ \A s \in Requests : pc[s] \notin {"waitWrite", "waitWriter"}
         \/ \E h \in Requests :
              /\ h # r /\ pc[h] = "waitWriter" /\ locked'["write"]
              /\ pc' = [pc EXCEPT ![r] = "idle", ![h] = "writing"]
         \/ \E h \in Requests :
              /\ h # r /\ pc[h] = "waitWrite" /\ locked'["write"]
              /\ pc' = [pc EXCEPT ![r] = "idle", ![h] = "release"]
  BY <1>0, <1>1, ReleaseEffect
     DEF Keys, Waits, Pcs, Section, WaitPcs, Granted
<1>5. /\ \A s \in Requests : InSection(s)' <=> InSection(s)
      /\ \A s \in Requests : Releasing(s)' <=> Releasing(s)
  BY <1>0, <1>1, <1>4 DEF InSection, Section, Releasing, TypeOK
<1>6. \A s \in Requests : Counted(s)' <=> Counted(s)
  BY <1>0, <1>1, <1>4 DEF Counted, TypeOK, OwnersAreExclusive
<1>7. CountIsExact'
  BY <1>0, <1>1, <1>4, <1>6, CountKept DEF CountIsExact, TypeOK
<1>8. CASE /\ ~locked'["write"] /\ pc' = [pc EXCEPT ![r] = "idle"]
  <2>1. \A s \in Requests : ~Writer(s)' /\ (Acquiring(s)' <=> Acquiring(s))
    BY <1>0, <1>1, <1>2, <1>8 DEF Writer, Acquiring, TypeOK
  <2>2. ~ReadersOwnWriteLock'
    BY <1>1, <1>2, <1>5, <2>1, ReadersOwnKept
  <2>3. LocksHaveOwners'
    BY <1>0, <1>4, <1>5, <1>8, <2>1, <2>2 DEF LocksHaveOwners
  <2>4. OwnersAreExclusive'
    BY <1>0, <1>1, <1>5, <1>8, <2>1, <2>2 DEF OwnersAreExclusive, TypeOK
  <2>5. QED
    BY <1>3, <1>7, <2>3, <2>4 DEF IInv
<1>9. ASSUME NEW h \in Requests,
             h # r, pc[h] = "waitWriter", locked'["write"],
             pc' = [pc EXCEPT ![r] = "idle", ![h] = "writing"]
      PROVE  IInv'
  <2>1. \A s \in Requests : /\ Writer(s)' <=> s = h
                            /\ Acquiring(s)' <=> Acquiring(s)
    BY <1>0, <1>1, <1>2, <1>9 DEF Writer, Acquiring, TypeOK
  <2>2. ~ReadersOwnWriteLock'
    BY <1>1, <1>2, <1>5, <2>1, ReadersOwnKept
  <2>3. LocksHaveOwners'
    BY <1>0, <1>4, <1>5, <1>9, <2>1, <2>2 DEF LocksHaveOwners
  <2>4. OwnersAreExclusive'
    BY <1>0, <1>1, <1>5, <1>9, <2>1, <2>2 DEF OwnersAreExclusive, TypeOK
  <2>5. QED
    BY <1>3, <1>7, <2>3, <2>4 DEF IInv
<1>10. ASSUME NEW h \in Requests,
              h # r, pc[h] = "waitWrite", locked'["write"],
              pc' = [pc EXCEPT ![r] = "idle", ![h] = "release"]
       PROVE  IInv'
  <2>1. Acquiring(h) /\ count = 1 /\ \A s \in Requests : InSection(s) <=> s = h
    BY <1>0, <1>10 DEF OwnersAreExclusive, Acquiring, InSection, Section
  <2>2. \A s \in Requests : ~Writer(s)' /\ ~Acquiring(s)'
    BY <1>0, <1>1, <1>2, <1>10, <2>1
       DEF Writer, Acquiring, InSection, Section, TypeOK
  <2>3. ReadersOwnWriteLock'
    BY <1>1, <2>1, <2>2 DEF ReadersOwnWriteLock
  <2>4. LocksHaveOwners'
    BY <1>0, <1>4, <1>5, <1>10, <2>2, <2>3 DEF LocksHaveOwners
  <2>5. OwnersAreExclusive'
    BY <1>0, <1>1, <1>5, <1>10, <2>2, <2>3 DEF OwnersAreExclusive, TypeOK
  <2>6. QED
    BY <1>3, <1>7, <2>4, <2>5 DEF IInv
<1>11. QED
  BY <1>4, <1>8, <1>9, <1>10

-----------------------------------------------------------------------------
(* The theorems.                                                           *)

\* The invariant holds in the initial state: nobody calls, nothing is held.
LEMMA InitIInv == Init => IInv
<1> SUFFICES ASSUME Init PROVE IInv
  OBVIOUS
<1>1. TypeOK
  BY DEF Init, TypeOK, Pcs
<1>2. CountIsExact
  <2>1. {r \in Requests : Counted(r)} = {}
    BY DEF Init, Counted
  <2>2. QED
    BY <2>1, FS_EmptySet DEF Init, CountIsExact
<1>3. LocksHaveOwners
  BY DEF Init, LocksHaveOwners, ReadersOwnWriteLock, Releasing, InSection,
         Section, Writer, Keys
<1>4. OwnersAreExclusive
  BY DEF Init, OwnersAreExclusive, InSection, Section, Writer
<1>5. QueuesHoldTheWaiting
  BY DEF Init, QueuesHoldTheWaiting, WaitPcs, Keys
<1>6. QED
  BY <1>1, <1>2, <1>3, <1>4, <1>5 DEF IInv

\* Every step preserves the invariant.
LEMMA NextKeepsIInv == IInv /\ [Next]_vars => IInv'
<1> SUFFICES ASSUME IInv, [Next]_vars PROVE IInv'
  OBVIOUS
<1>1. ASSUME NEW r \in Requests,
             withReadLock(r) \/ withWriteLock(r) \/ Step(r)
      PROVE  IInv'
  <2>1. CASE withReadLock(r)
    BY <2>1, withReadLockKeepsIInv
  <2>2. CASE withWriteLock(r)
    BY <2>2, withWriteLockKeepsIInv
  <2>3. CASE getCount(r)
    BY <2>3, getCountKeepsIInv
  <2>4. CASE setCount(r)
    BY <2>4, setCountKeepsIInv
  <2>5. CASE preReadSetup(r)
    BY <2>5, preReadSetupKeepsIInv
  <2>6. CASE postReadCleanup(r)
    BY <2>6, postReadCleanupKeepsIInv
  <2>7. CASE releaseInternal(r)
    BY <2>7, releaseInternalKeepsIInv
  <2>8. CASE finishRead(r)
    BY <2>8, finishReadKeepsIInv
  <2>9. CASE finishWrite(r)
    BY <2>9, finishWriteKeepsIInv
  <2>10. CASE releaseWriter(r)
    BY <2>10, releaseWriterKeepsIInv
  <2>11. QED
    BY <1>1, <2>1, <2>2, <2>3, <2>4, <2>5,
       <2>6, <2>7, <2>8, <2>9, <2>10 DEF Step
<1>2. CASE UNCHANGED vars
  <2>1. /\ pc' = pc /\ mod' = mod /\ number' = number
        /\ count' = count /\ locked' = locked /\ queue' = queue
    BY <1>2 DEF vars
  <2>2. TypeOK' /\ QueuesHoldTheWaiting'
    BY <2>1 DEF IInv, TypeOK, QueuesHoldTheWaiting
  <2>3. CountIsExact'
    <3>1. \A r \in Requests : Counted(r)' <=> Counted(r)
      BY <2>1 DEF Counted
    <3>2. QED
      BY <2>1, <3>1, CountKept DEF IInv, CountIsExact
  <2>4. /\ \A s \in Requests : Acquiring(s)' <=> Acquiring(s)
        /\ \A s \in Requests : Releasing(s)' <=> Releasing(s)
        /\ \A s \in Requests : InSection(s)' <=> InSection(s)
        /\ \A s \in Requests : Writer(s)' <=> Writer(s)
    BY <2>1 DEF Acquiring, Releasing, InSection, Writer
  <2>5. ReadersOwnWriteLock' <=> ReadersOwnWriteLock
    BY <2>1, <2>4, ReadersOwnKept
  <2>6. LocksHaveOwners' /\ OwnersAreExclusive'
    BY <2>1, <2>4, <2>5 DEF IInv, LocksHaveOwners, OwnersAreExclusive
  <2>7. QED
    BY <2>2, <2>3, <2>6 DEF IInv
<1>3. QED
  BY <1>1, <1>2 DEF Next

\* The state of the locker is consistent at every step: the count is exact,
\* each lock has one owner that will release it, the queues hold exactly the
\* waiting calls (preReadSetup, postReadCleanup, incrementCount and the
\* releases in the finally blocks).
THEOREM IInvHolds == Spec => []IInv
<1>1. QED
  BY InitIInv, NextKeepsIInv, PTL DEF Spec

\* Type correctness.
THEOREM TypeOKHolds == Spec => []TypeOK
BY IInvHolds, PTL DEF IInv

\* The stored count is the number of readers at every step, although calls
\* that overlap read and write it in separate steps, and the failsafe of
\* incrementCount is never reached.
THEOREM CountIsExactHolds == Spec => []CountIsExact
BY IInvHolds, PTL DEF IInv

\* A lock is held exactly as long as some call is going to release it, so
\* that SingleThreadedResourceLocker.release never throws and no lock stays.
THEOREM LocksHaveOwnersHolds == Spec => []LocksHaveOwners
BY IInvHolds, PTL DEF IInv

\* The internal lock and the write lock have one owner each at a time.
THEOREM OwnersAreExclusiveHolds == Spec => []OwnersAreExclusive
BY IInvHolds, PTL DEF IInv

\* No wakeup is lost: exactly the waiting calls are queued, and only while
\* there is a holder to release them.
THEOREM QueuesHoldTheWaitingHolds == Spec => []QueuesHoldTheWaiting
BY IInvHolds, PTL DEF IInv

\* A reader that may read shares in the ownership of the write lock.
LEMMA ReadingOwnsWriteLock ==
  ASSUME IInv, NEW r \in Requests, pc[r] = "reading"
  PROVE  ReadersOwnWriteLock
<1>1. Counted(r) /\ count # 0
  BY CountFacts DEF IInv, Counted
<1>2. ASSUME NEW s \in Requests, Acquiring(s)
      PROVE  FALSE
  <2>1. count = 1 /\ Counted(s) /\ s # r
    BY <1>2 DEF IInv, OwnersAreExclusive, Acquiring, Counted
  <2>2. QED
    BY <1>1, <2>1, CountFacts DEF IInv
<1>3. QED
  BY <1>1, <1>2 DEF ReadersOwnWriteLock

\* The owners of the write lock exclude each other.
LEMMA IInvExcludes == IInv => MutualExclusion
<1> SUFFICES ASSUME IInv, NEW r \in Requests, NEW s \in Requests,
                    pc[r] = "writing", r # s
             PROVE  pc[s] \notin {"reading", "writing"}
  BY DEF MutualExclusion
<1>1. Writer(r) /\ ~ReadersOwnWriteLock
  BY DEF IInv, OwnersAreExclusive, Writer
<1>2. pc[s] # "writing"
  BY <1>1 DEF IInv, OwnersAreExclusive, Writer
<1>3. pc[s] # "reading"
  BY <1>1, ReadingOwnsWriteLock
<1>4. QED
  BY <1>2, <1>3

\* Write operations are blocked as long as read operations are not finished,
\* and only one of them runs at a time (the class comment of the locker).
THEOREM MutualExclusionHolds == Spec => []MutualExclusion
BY IInvHolds, IInvExcludes, PTL

\* The first reader never waits for the write lock, with the internal lock
\* in its hands, while another reader has yet to pass the internal lock to
\* leave: that is what keeps preReadSetup free of deadlock.
THEOREM NoReaderIsTrappedHolds == Spec => []NoReaderIsTrapped
<1>1. ASSUME IInv PROVE NoReaderIsTrapped
  <2> SUFFICES ASSUME NEW r \in Requests, NEW s \in Requests,
                      pc[r] = "waitWrite", r # s, Counted(s)
               PROVE  FALSE
    BY DEF NoReaderIsTrapped
  <2>1. count = 1 /\ Counted(r)
    BY <1>1 DEF IInv, OwnersAreExclusive, Counted
  <2>2. QED
    BY <1>1, <2>1, CountFacts DEF IInv
<1>2. QED
  BY <1>1, IInvHolds, PTL

-----------------------------------------------------------------------------
(* The locker implements the abstract read-write lock.                     *)

\* The phases that the steps of the locker show to its callers.
PhaseFn == [r \in Requests |-> Phase(r)]

\* The initial state is one of the abstract lock.
LEMMA InitRefines == Init => Abstract!Init
<1> SUFFICES ASSUME Init PROVE Abstract!Init
  OBVIOUS
<1>1. \A r \in Requests : Phase(r) = "idle"
  BY DEF Init, Phase, InSection, Section
<1>2. QED
  BY <1>1 DEF Abstract!Init

\* A step in which a waiting writer is granted the write lock.
LEMMA GrantRefines ==
  ASSUME IInv, MutualExclusion', NEW h \in Requests,
         Phase(h) \in {"idle", "waitWrite"}, pc'[h] = "writing",
         \A s \in Requests \ {h} : Phase(s)' = Phase(s)
  PROVE  Abstract!StartWrite(h)
<1>1. Phase(h)' = "writing"
  BY DEF Phase, InSection, Section
<1>2. \A s \in Requests \ {h} : Phase(s)' \notin {"reading", "writing"}
  BY DEF MutualExclusion, Phase, InSection, Section
<1>3. \A s \in Requests : Phase(s) \notin {"reading", "writing"}
  BY <1>2
<1>4. PhaseFn' = [PhaseFn EXCEPT ![h] = "writing"]
  BY <1>1 DEF PhaseFn
<1>5. QED
  BY <1>3, <1>4 DEF PhaseFn, Abstract!StartWrite, Abstract!Active

\* Every step of the locker is a step of the abstract lock, or is not seen
\* by its callers.
LEMMA NextRefines ==
  ASSUME IInv, IInv', [Next]_vars
  PROVE  [Abstract!Next]_PhaseFn
<1>1. /\ TypeOK /\ QueuesHoldTheWaiting /\ OwnersAreExclusive
      /\ MutualExclusion'
  <2>1. MutualExclusion'
    BY IInvExcludes, PTL
  <2>2. QED
    BY <2>1 DEF IInv
<1>2. ASSUME NEW r \in Requests,
             withReadLock(r) \/ withWriteLock(r) \/ Step(r)
      PROVE  Abstract!Next \/ PhaseFn' = PhaseFn
  <2>1. CASE withReadLock(r)
    <3>1. pc[r] = "idle" /\ acquire("read", r, "waitRead") /\ mod' = [mod EXCEPT ![r] = 1]
      BY <2>1 DEF withReadLock
    <3>2. pc' = [pc EXCEPT ![r] = "get"] \/ pc' = [pc EXCEPT ![r] = "waitRead"]
      BY <1>1, <3>1, AcquireEffect DEF Keys, Waits, Granted
    <3>3. Phase(r) = "idle" /\ Phase(r)' = "waitRead"
      BY <1>1, <3>1, <3>2 DEF Phase, InSection, Section, TypeOK
    <3>4. \A s \in Requests \ {r} : Phase(s)' = Phase(s)
      BY <1>1, <3>1, <3>2 DEF Phase, InSection, Section, TypeOK
    <3>5. PhaseFn' = [PhaseFn EXCEPT ![r] = "waitRead"]
      BY <3>3, <3>4 DEF PhaseFn
    <3>6. Abstract!Request(r)
      BY <3>3, <3>5 DEF PhaseFn, Abstract!Request
    <3>7. QED
      BY <3>6 DEF Abstract!Next
  <2>2. CASE withWriteLock(r)
    <3>1. pc[r] = "idle" /\ acquire("write", r, "waitWriter") /\ mod' = mod
      BY <2>2 DEF withWriteLock
    <3>2. pc' = [pc EXCEPT ![r] = "writing"] \/ pc' = [pc EXCEPT ![r] = "waitWriter"]
      BY <1>1, <3>1, AcquireEffect DEF Keys, Waits, Granted
    <3>3. Phase(r) = "idle"
      BY <3>1 DEF Phase, InSection, Section
    <3>4. \A s \in Requests \ {r} : Phase(s)' = Phase(s)
      BY <1>1, <3>1, <3>2 DEF Phase, InSection, Section, TypeOK
    <3>5. CASE pc' = [pc EXCEPT ![r] = "writing"]
      <4>1. pc'[r] = "writing"
        BY <1>1, <3>5 DEF TypeOK
      <4>2. Abstract!StartWrite(r)
        BY <1>1, <3>3, <3>4, <4>1, GrantRefines
      <4>3. QED
        BY <4>2 DEF Abstract!Next
    <3>6. CASE pc' = [pc EXCEPT ![r] = "waitWriter"]
      <4>1. Phase(r)' = "waitWrite"
        BY <1>1, <3>6 DEF Phase, InSection, Section, TypeOK
      <4>2. PhaseFn' = [PhaseFn EXCEPT ![r] = "waitWrite"]
        BY <3>4, <4>1 DEF PhaseFn
      <4>3. Abstract!Request(r)
        BY <3>3, <4>2 DEF PhaseFn, Abstract!Request
      <4>4. QED
        BY <4>3 DEF Abstract!Next
    <3>7. QED
      BY <3>2, <3>5, <3>6
  <2>3. CASE getCount(r)
    <3>1. \A s \in Requests : Phase(s)' = Phase(s)
      BY <1>1, <2>3 DEF getCount, Phase, InSection, Section, TypeOK
    <3>2. QED
      BY <3>1 DEF PhaseFn
  <2>4. CASE setCount(r)
    <3>1. \A s \in Requests : Phase(s)' = Phase(s)
      BY <1>1, <2>4 DEF setCount, Phase, InSection, Section, TypeOK
    <3>2. QED
      BY <3>1 DEF PhaseFn
  <2>5. CASE preReadSetup(r)
    <3>1. /\ pc[r] = "guard" /\ mod[r] = 1 /\ mod' = mod
          /\ \/ pc' = [pc EXCEPT ![r] = "release"]
             \/ pc' = [pc EXCEPT ![r] = "waitWrite"]
      BY <1>1, <2>5, AcquireEffect DEF preReadSetup, Keys, Waits, Granted
    <3>2. \A s \in Requests : Phase(s)' = Phase(s)
      BY <1>1, <3>1 DEF Phase, InSection, Section, TypeOK
    <3>3. QED
      BY <3>2 DEF PhaseFn
  <2>6. CASE postReadCleanup(r)
    <3>1. pc[r] = "guard" /\ mod[r] = -1 /\ mod' = mod
      BY <2>6 DEF postReadCleanup
    <3>2. CASE pc' = [pc EXCEPT ![r] = "release"]
      <4>1. \A s \in Requests : Phase(s)' = Phase(s)
        BY <1>1, <3>1, <3>2 DEF Phase, InSection, Section, TypeOK
      <4>2. QED
        BY <4>1 DEF PhaseFn
    <3>3. ASSUME NEW h \in Requests, h # r, pc[h] = "waitWriter",
                 pc' = [pc EXCEPT ![r] = "release", ![h] = "writing"]
          PROVE  \E s \in Requests : Abstract!StartWrite(s)
      <4>1. \A s \in Requests \ {h} : Phase(s)' = Phase(s)
        BY <1>1, <3>1, <3>3 DEF Phase, InSection, Section, TypeOK
      <4>2. Phase(h) = "waitWrite" /\ pc'[h] = "writing"
        BY <1>1, <3>3 DEF Phase, InSection, Section, TypeOK
      <4>3. QED
        BY <1>1, <4>1, <4>2, GrantRefines
    <3>4. \A h \in Requests \ {r} : pc[h] # "waitWrite"
      BY <1>1, <3>1 DEF OwnersAreExclusive, InSection, Section
    <3>5. CASE number[r] = 0
      <4>1. release("write", r, "release")
        BY <2>6, <3>5 DEF postReadCleanup
      <4>2. \/ pc' = [pc EXCEPT ![r] = "release"]
            \/ \E h \in Requests :
                 /\ h # r /\ pc[h] \in WaitPcs("write")
                 /\ pc' = [pc EXCEPT ![r] = "release", ![h] = Granted(pc[h])]
        BY <1>1, <3>1, <4>1, ReleaseEffect DEF Keys, Waits, Pcs, Section
      <4>3. \/ pc' = [pc EXCEPT ![r] = "release"]
            \/ \E h \in Requests :
                 /\ h # r /\ pc[h] = "waitWriter"
                 /\ pc' = [pc EXCEPT ![r] = "release", ![h] = "writing"]
        BY <3>4, <4>2 DEF WaitPcs, Granted
      <4>4. QED
        BY <3>2, <3>3, <4>3 DEF Abstract!Next
    <3>6. CASE number[r] # 0
      BY <2>6, <3>2, <3>6 DEF postReadCleanup
    <3>7. QED
      BY <3>5, <3>6
  <2>7. CASE releaseInternal(r)
    <3> DEFINE n == IF mod[r] = 1 THEN "reading" ELSE "idle"
    <3>1. pc[r] = "release" /\ release("read", r, n) /\ mod' = mod
      BY <2>7 DEF releaseInternal
    <3>2. n \in {"reading", "idle"} /\ (n = "reading" <=> mod[r] = 1)
      OBVIOUS
    <3> HIDE DEF n
    <3>3. \/ pc' = [pc EXCEPT ![r] = n]
          \/ \E h \in Requests :
               /\ h # r /\ pc[h] = "waitRead"
               /\ pc' = [pc EXCEPT ![r] = n, ![h] = "get"]
      BY <1>1, <3>1, <3>2, ReleaseEffect
         DEF Keys, Waits, Pcs, Section, WaitPcs, Granted
    <3>4. \A s \in Requests \ {r} : Phase(s)' = Phase(s)
      BY <1>1, <3>1, <3>3 DEF Phase, InSection, Section, TypeOK
    <3>5. pc'[r] = n
      BY <1>1, <3>1, <3>3 DEF TypeOK
    <3>6. CASE mod[r] = 1
      <4>1. Phase(r) = "waitRead" /\ Phase(r)' = "reading"
        BY <3>1, <3>2, <3>5, <3>6 DEF Phase, InSection, Section
      <4>2. \A s \in Requests : pc'[s] # "writing"
        BY <1>1, <3>2, <3>5, <3>6 DEF MutualExclusion
      <4>3. \A s \in Requests : Phase(s)' # "writing"
        BY <4>2 DEF Phase, InSection, Section
      <4>4. \A s \in Requests : Phase(s) # "writing"
        BY <3>4, <4>1, <4>3
      <4>5. PhaseFn' = [PhaseFn EXCEPT ![r] = "reading"]
        BY <3>4, <4>1 DEF PhaseFn
      <4>6. Abstract!StartRead(r)
        BY <4>1, <4>4, <4>5 DEF PhaseFn, Abstract!StartRead
      <4>7. QED
        BY <4>6 DEF Abstract!Next
    <3>7. CASE mod[r] # 1
      <4>1. Phase(r)' = Phase(r)
        BY <3>1, <3>2, <3>5, <3>7 DEF Phase, InSection, Section
      <4>2. QED
        BY <3>4, <4>1 DEF PhaseFn
    <3>8. QED
      BY <3>6, <3>7
  <2>8. CASE finishRead(r)
    <3>1. pc[r] = "reading" /\ acquire("read", r, "waitRead") /\ mod' = [mod EXCEPT ![r] = -1]
      BY <2>8 DEF finishRead
    <3>2. pc' = [pc EXCEPT ![r] = "get"] \/ pc' = [pc EXCEPT ![r] = "waitRead"]
      BY <1>1, <3>1, AcquireEffect DEF Keys, Waits, Granted
    <3>3. /\ \A s \in Requests \ {r} : Phase(s)' = Phase(s)
          /\ Phase(r) \in {"reading", "writing"} /\ Phase(r)' = "idle"
      BY <1>1, <3>1, <3>2 DEF Phase, InSection, Section, TypeOK
    <3>4. PhaseFn' = [PhaseFn EXCEPT ![r] = "idle"]
      BY <3>3 DEF PhaseFn
    <3>5. Abstract!Finish(r)
      BY <3>3, <3>4 DEF PhaseFn, Abstract!Finish, Abstract!Active
    <3>6. QED
      BY <3>5 DEF Abstract!Next
  <2>9. CASE finishWrite(r)
    <3>1. pc[r] = "writing" /\ mod' = mod
      BY <2>9 DEF finishWrite
    <3>2. pc' = [pc EXCEPT ![r] = "written"]
      BY <2>9 DEF finishWrite
    <3>3. /\ \A s \in Requests \ {r} : Phase(s)' = Phase(s)
          /\ Phase(r) \in {"reading", "writing"} /\ Phase(r)' = "idle"
      BY <1>1, <3>1, <3>2 DEF Phase, InSection, Section, TypeOK
    <3>4. PhaseFn' = [PhaseFn EXCEPT ![r] = "idle"]
      BY <3>3 DEF PhaseFn
    <3>5. Abstract!Finish(r)
      BY <3>3, <3>4 DEF PhaseFn, Abstract!Finish, Abstract!Active
    <3>6. QED
      BY <3>5 DEF Abstract!Next
  <2>10. CASE releaseWriter(r)
    <3>1. pc[r] = "written" /\ release("write", r, "idle") /\ mod' = mod
      BY <2>10 DEF releaseWriter
    <3>2. \/ pc' = [pc EXCEPT ![r] = "idle"]
          \/ \E h \in Requests :
               /\ h # r /\ pc[h] = "waitWriter"
               /\ pc' = [pc EXCEPT ![r] = "idle", ![h] = "writing"]
          \/ \E h \in Requests :
               /\ h # r /\ pc[h] = "waitWrite"
               /\ pc' = [pc EXCEPT ![r] = "idle", ![h] = "release"]
      BY <1>1, <3>1, ReleaseEffect
         DEF Keys, Waits, Pcs, Section, WaitPcs, Granted
    <3>3. CASE pc' = [pc EXCEPT ![r] = "idle"]
      <4>1. \A s \in Requests : Phase(s)' = Phase(s)
        BY <1>1, <3>1, <3>3 DEF Phase, InSection, Section, TypeOK
      <4>2. QED
        BY <4>1 DEF PhaseFn
    <3>4. ASSUME NEW h \in Requests, h # r, pc[h] = "waitWriter",
                 pc' = [pc EXCEPT ![r] = "idle", ![h] = "writing"]
          PROVE  \E s \in Requests : Abstract!StartWrite(s)
      <4>1. \A s \in Requests \ {h} : Phase(s)' = Phase(s)
        BY <1>1, <3>1, <3>4 DEF Phase, InSection, Section, TypeOK
      <4>2. Phase(h) = "waitWrite" /\ pc'[h] = "writing"
        BY <1>1, <3>4 DEF Phase, InSection, Section, TypeOK
      <4>3. QED
        BY <1>1, <4>1, <4>2, GrantRefines
    <3>5. ASSUME NEW h \in Requests, h # r, pc[h] = "waitWrite",
                 pc' = [pc EXCEPT ![r] = "idle", ![h] = "release"]
          PROVE  PhaseFn' = PhaseFn
      <4>1. \A s \in Requests : Phase(s)' = Phase(s)
        BY <1>1, <3>1, <3>5 DEF Phase, InSection, Section, TypeOK
      <4>2. QED
        BY <4>1 DEF PhaseFn
    <3>6. QED
      BY <3>2, <3>3, <3>4, <3>5 DEF Abstract!Next
  <2>11. QED
    BY <1>2, <2>1, <2>2, <2>3, <2>4, <2>5, <2>6, <2>7, <2>8, <2>9, <2>10
       DEF Step
<1>3. CASE UNCHANGED vars
  <2>1. \A s \in Requests : Phase(s)' = Phase(s)
    BY <1>3 DEF vars, Phase, InSection
  <2>2. QED
    BY <2>1 DEF PhaseFn
<1>4. QED
  BY <1>2, <1>3 DEF Next

\* The greedy locker implements the read-write lock the stores rely on: to
\* its callers every run looks like one of the abstract lock.
THEOREM Refinement == Spec => ImplementsReadWriteLock
<1>1. [Abstract!Next]_PhaseFn <=> [Abstract!Next]_[r \in Requests |-> Phase(r)]
  BY DEF PhaseFn
<1>2. IInv /\ IInv' /\ [Next]_vars => [Abstract!Next]_[r \in Requests |-> Phase(r)]
  BY <1>1, NextRefines
<1>3. QED
  BY <1>2, InitRefines, IInvHolds, PTL DEF Spec, Abstract!Spec, ImplementsReadWriteLock
=============================================================================
