-------------------- MODULE DataAccessorBasedStore_proofs --------------------
(***************************************************************************)
(* Proofs about DataAccessorBasedStore for any tree of resources and any   *)
(* number of calls that overlap.  The invariant says, for each call, what  *)
(* it knows at the step it is at: what it has looked for and not found did *)
(* not exist throughout the call, whatever the others have done since.     *)
(***************************************************************************)
EXTENDS DataAccessorBasedStore, TLAPS

\* The containers above the new resource that the climb has left behind.
Passed(c) == {j \in Ancestors[dest[c]] : at[c] \in Ancestors[j]}

\* Neither i nor its twin existed throughout the call.
New(c, i) == i \notin stable[c] /\ (i \in DOMAIN Twin => Twin[i] \notin stable[c])

\* Which call can be at which step, and for what resource.
StepIsRight(c) ==
  /\ IF c.kind = "post" /\ pc[c] # "idle" THEN dest[c] \in {c.slug, c.uuid}
                                          ELSE dest[c] = c.target
  /\ pc[c] = "data" => c.kind = "get"
  /\ pc[c] = "findTwin" => c.kind \in {"put", "post"} /\ c.target # Root
  /\ pc[c] \in {"withSlash", "withoutSlash"} => c.kind = "post"
  /\ c.kind = "post" /\ pc[c] \in {"find", "findTwin", "withSlash", "withoutSlash"} =>
       dest[c] = c.slug
  /\ pc[c] \in {"climb", "climbTwin", "create"} =>
       c.kind = "put" /\ c.target # Root /\ at[c] \in Ancestors[c.target]
  /\ pc[c] \in {"climbTwin", "create"} => at[c] # Root
  /\ pc[c] \in {"write", "drain"} => c.kind \in {"put", "post"}
  /\ pc[c] = "drain" => dest[c] \notin Containers
  /\ pc[c] \in {"associated", "children", "auxiliaries", "remove"} =>
       c.kind = "delete" /\ c.target # Root
  /\ pc[c] = "associated" => c.target \in Auxiliaries
  /\ pc[c] = "children" => c.target \in Containers

\* setRepresentation: the twin of the target and the containers on the way.
PutIsNew(c) ==
  /\ /\ pc[c] \in {"climb", "climbTwin", "create", "write", "drain"}
     /\ c.kind = "put" /\ c.target \in DOMAIN Twin
     => Twin[c.target] \notin stable[c] \/ Exists(c.target)
  /\ pc[c] \in {"climb", "climbTwin", "create"} => \A j \in Passed(c) : New(c, j)
  /\ pc[c] = "climbTwin" => at[c] \notin stable[c]
  /\ pc[c] = "create" => New(c, at[c])

\* addResource: the container and the free URI.
PostIsNew(c) ==
  /\ pc[c] = "findTwin" => c.target \notin stable[c]
  /\ c.kind = "post" /\ pc[c] \in {"withSlash", "withoutSlash", "write", "drain"} =>
       c.target \in Containers \/ c.target \notin stable[c]
  /\ pc[c] = "withoutSlash" =>
       \A i \in {c.slug, Twin[c.slug]} \cap Containers : i \notin stable[c]
  /\ c.kind = "post" /\ pc[c] \in {"write", "drain"} => New(c, dest[c])
  /\ c.kind = "post" /\ pc[c] \notin Outcomes => ~Exists(c.uuid) /\ ~TwinExists(c.uuid)

\* writeDocument: the parent entry it has is the one in the tree or is gone.
EntryIsKnown(c) ==
  /\ attached[c] => pc[c] = "drain" /\ Exists(Parent[dest[c]])
  /\ pc[c] = "drain" /\ ~attached[c] => Parent[dest[c]] \notin stable[c]

\* Below its target there is nothing but auxiliary resources.
HasNoChildren(c) ==
  \A j \in stable[c] : c.target \in Ancestors[j] =>
    /\ j \in Auxiliaries /\ Parent[j] = c.target
    /\ Associated[j] = c.target \/ Associated[j] \notin stable[c]

\* deleteResource: the container is empty and the auxiliaries are gone.
DeleteIsSafe(c) ==
  /\ pc[c] \in {"auxiliaries", "remove"} => HasNoChildren(c)
  /\ pc[c] = "remove" => DOMAIN store \cap AuxiliariesOf(c.target) = {}

CallIsRight(c) ==
  StepIsRight(c) /\ PutIsNew(c) /\ PostIsNew(c) /\ EntryIsKnown(c) /\ DeleteIsSafe(c)

\* Calls for the same resource only run together if they are all reads.
LocksAreKept ==
  \A c, d \in Calls :
    /\ c # d /\ Running(c) /\ Running(d)
    /\ getLockIdentifier(c.target) = getLockIdentifier(d.target)
    => c.kind = "get" /\ d.kind = "get"

\* The history of a call starts with what exists.
HistoryStarts == \A c \in Calls : pc[c] = "idle" => stable[c] = DOMAIN store

IInv ==
  /\ TypeOK
  /\ TreeIsClosed
  /\ LocksAreKept
  /\ HistoryStarts
  /\ \A c \in Calls : CallIsRight(c)

-----------------------------------------------------------------------------
(* Paths.                                                                  *)

\* A container is above everything that is below a resource in it.
LEMMA AncestorsFacts ==
  ASSUME NEW i \in Identifiers
  PROVE  /\ Ancestors[i] \subseteq Containers /\ i \notin Ancestors[i]
         /\ Ancestors[i] \subseteq Identifiers /\ Ancestors[i] \cap Auxiliaries = {}
         /\ i # Root => Parent[i] \in Ancestors[i] /\ Parent[i] \in Identifiers
         /\ \A a \in Ancestors[i] : Ancestors[a] \subseteq Ancestors[i] /\ i # Root
  BY TreeAssumption, ChainAssumption

\* Twins are in the same container.
LEMMA TwinFacts ==
  ASSUME NEW i \in DOMAIN Twin
  PROVE  /\ i \in Identifiers \ {Root} /\ Twin[i] \in Identifiers \ {Root}
         /\ Twin[i] \in DOMAIN Twin /\ Twin[Twin[i]] = i
         /\ i # Twin[i] /\ (i \in Containers <=> Twin[i] \notin Containers)
         /\ Ancestors[Twin[i]] = Ancestors[i]
         /\ i \notin Auxiliaries
<1>1. /\ i \in Identifiers \ {Root} /\ Twin[i] \in DOMAIN Twin /\ Twin[Twin[i]] = i
      /\ (i \in Containers <=> Twin[i] \notin Containers)
      /\ Parent[Twin[i]] = Parent[i]
  BY TreeAssumption
<1>2. Twin[i] \in Identifiers \ {Root}
  BY <1>1, TreeAssumption
<1>3. Ancestors[i] = {Parent[i]} \cup Ancestors[Parent[i]]
      /\ Ancestors[Twin[i]] = {Parent[Twin[i]]} \cup Ancestors[Parent[Twin[i]]]
  BY <1>1, <1>2, TreeAssumption
<1>4. i \notin Auxiliaries
  BY TreeAssumption
<1>5. QED
  BY <1>1, <1>2, <1>3, <1>4

\* The container below k on the way to i is the only one.
LEMMA NextBelow ==
  ASSUME NEW i \in Identifiers, NEW k \in Ancestors[i], k # Parent[i],
         NEW n, n = CHOOSE j \in Ancestors[i] \ {Root} : Parent[j] = k
  PROVE  n \in Ancestors[i] \ {Root} /\ Parent[n] = k /\ k \in Ancestors[n]
<1>1. n \in Ancestors[i] \ {Root} /\ Parent[n] = k
  BY ChainAssumption
<1>2. QED
  BY <1>1, AncestorsFacts

\* On the way up from a container the one above it comes next.
LEMMA NextAbove ==
  ASSUME NEW i \in Identifiers, NEW k \in Ancestors[i], k # Root
  PROVE  /\ Parent[k] \in Ancestors[i]
         /\ \A j \in Ancestors[i] : Parent[k] \in Ancestors[j] => j = k \/ k \in Ancestors[j]
<1>1. k \in Identifiers /\ Parent[k] \in Ancestors[k] /\ Ancestors[k] \subseteq Ancestors[i]
  BY AncestorsFacts
<1>2. ASSUME NEW j \in Ancestors[i], Parent[k] \in Ancestors[j]
      PROVE  j = k \/ k \in Ancestors[j]
  <2>1. j \in Identifiers /\ (j = k \/ k \in Ancestors[j] \/ j \in Ancestors[k])
    BY ChainAssumption, AncestorsFacts
  <2>2. CASE j \in Ancestors[k]
    <3>1. j = Parent[k] \/ j \in Ancestors[Parent[k]]
      BY <1>1, <2>2, TreeAssumption
    <3>2. j \notin Ancestors[j] /\ (j \in Ancestors[Parent[k]] => Ancestors[j] \subseteq Ancestors[Parent[k]])
      BY <1>1, <2>1, AncestorsFacts
    <3>3. Parent[k] \notin Ancestors[Parent[k]]
      BY <1>1, AncestorsFacts
    <3>4. QED
      BY <1>2, <3>1, <3>2, <3>3
  <2>3. QED
    BY <2>1, <2>2
<1>3. QED
  BY <1>1, <1>2

-----------------------------------------------------------------------------
(* A step of one call and what the others know.                            *)

\* Only the call c goes on.
OthersWait(c) ==
  \A d \in Calls \ {c} : pc'[d] = pc[d] /\ dest'[d] = dest[d] /\ at'[d] = at[d]

\* What the step does to the tree does not concern the call d.
Spared(d) ==
  /\ attached'[d] <=> attached[d] /\ Parent[dest[d]] \in DOMAIN store'
  /\ /\ Running(d) /\ d.kind = "put" /\ d.target \in DOMAIN Twin
     /\ Exists(d.target) /\ ~Exists(d.target)'
     => ~Exists(Twin[d.target])'
  /\ pc[d] = "remove" => DOMAIN store' \cap AuxiliariesOf(d.target) = {}
  /\ d.kind = "post" /\ pc[d] \notin Outcomes => ~Exists(d.uuid)' /\ ~TwinExists(d.uuid)'

\* The history of a running call keeps what still exists.
LEMMA History ==
  ASSUME TypeOK, Remember, pc' \in [Calls -> Pcs], DOMAIN store' \subseteq Identifiers
  PROVE  /\ stable' \in [Calls -> SUBSET Identifiers]
         /\ \A c \in Calls :
              /\ stable'[c] \subseteq DOMAIN store'
              /\ pc'[c] = "idle" => stable'[c] = DOMAIN store'
              /\ pc'[c] # "idle" => stable'[c] \subseteq stable[c]
              /\ Running(c)' => stable'[c] = stable[c] \cap DOMAIN store'
  <1>1. \A c \in Calls : stable'[c] = IF pc'[c] = "idle" THEN DOMAIN store'
                                      ELSE IF pc'[c] \in Outcomes THEN {}
                                      ELSE stable[c] \cap DOMAIN store'
    BY DEF Remember, Outcomes
  <1>2. stable' = [c \in Calls |-> stable'[c]]
    BY DEF Remember
  <1>3. QED
    BY <1>1, <1>2 DEF TypeOK, Running

\* What a call that waits knows stays true.
LEMMA WaitingIsRight ==
  ASSUME IInv, NEW c \in Calls, OthersWait(c), Remember, TypeOK',
         NEW d \in Calls \ {c}, Spared(d)
  PROVE  CallIsRight(d)'
<1>1. pc'[d] = pc[d] /\ dest'[d] = dest[d] /\ at'[d] = at[d]
  BY DEF OthersWait
<1>2. CallIsRight(d) /\ TypeOK
  BY DEF IInv
<1>3. /\ pc[d] # "idle" => stable'[d] \subseteq stable[d]
      /\ stable'[d] \subseteq DOMAIN store'
  BY <1>1, <1>2, History DEF TypeOK
<1>4. StepIsRight(d)'
  BY <1>1, <1>2 DEF CallIsRight, StepIsRight
<1>5. Passed(d)' = Passed(d)
  BY <1>1 DEF Passed
<1>6. \A i : pc[d] # "idle" /\ New(d, i) =>
             i \notin stable'[d] /\ (i \in DOMAIN Twin => Twin[i] \notin stable'[d])
  BY <1>3 DEF New
<1>7. PutIsNew(d)'
  <2>1. \A j \in Passed(d) : pc[d] \in {"climb", "climbTwin", "create"} => New(d, j)'
    BY <1>2, <1>6 DEF CallIsRight, PutIsNew, New
  <2>2. pc[d] = "create" => New(d, at[d])'
    BY <1>1, <1>2, <1>6 DEF CallIsRight, PutIsNew, New
  <2>3. pc[d] \in {"climb", "climbTwin", "create", "write", "drain"} => Running(d)
    BY DEF Running, Outcomes
  <2>4. QED
    BY <1>1, <1>2, <1>3, <1>5, <2>1, <2>2, <2>3 DEF CallIsRight, PutIsNew, Spared, Exists, New
<1>8. PostIsNew(d)'
  <2>1. d.kind = "post" /\ pc[d] \in {"write", "drain"} => New(d, dest[d])'
    BY <1>1, <1>2, <1>6 DEF CallIsRight, PostIsNew, New
  <2>2. QED
    BY <1>1, <1>2, <1>3, <2>1 DEF CallIsRight, PostIsNew, Spared, New
<1>9. EntryIsKnown(d)'
  <2>1. pc[d] = "drain" /\ attached[d] /\ ~attached'[d] => Parent[dest[d]] \notin stable'[d]
    BY <1>3 DEF Spared
  <2>2. QED
    BY <1>1, <1>2, <1>3, <2>1 DEF CallIsRight, EntryIsKnown, Spared, Exists, TypeOK
<1>10. DeleteIsSafe(d)'
  BY <1>1, <1>2, <1>3 DEF CallIsRight, DeleteIsSafe, HasNoChildren, Spared
<1>11. QED
  BY <1>4, <1>7, <1>8, <1>9, <1>10 DEF CallIsRight

\* So only the call that makes the step has to be looked at.
LEMMA OneCall ==
  ASSUME IInv, NEW c \in Calls, OthersWait(c), Remember, TypeOK', TreeIsClosed',
         \A d \in Calls \ {c} : Spared(d), CallIsRight(c)', LocksAreKept'
  PROVE  IInv'
<1>1. \A d \in Calls : CallIsRight(d)'
  BY WaitingIsRight
<1>2. HistoryStarts'
  BY History DEF HistoryStarts, TypeOK, IInv
<1>3. QED
  BY <1>1, <1>2 DEF IInv

\* No call is started.
LEMMA LocksStay ==
  ASSUME IInv, NEW c \in Calls, OthersWait(c), Running(c)
  PROVE  LocksAreKept'
  BY DEF IInv, LocksAreKept, Running, OthersWait

\* A step that only looks.
LEMMA LookingSpares ==
  ASSUME IInv, NEW d \in Calls, store' = store, attached'[d] = attached[d]
  PROVE  Spared(d)
  BY DEF IInv, CallIsRight, EntryIsKnown, PostIsNew, DeleteIsSafe, Spared, Exists,
     TwinExists, TypeOK
-----------------------------------------------------------------------------
(* What a step does to the tree.                                           *)

\* A resource that is added under an existing container.
LEMMA Adding ==
  ASSUME IInv, NEW i \in Identifiers, NEW data, Put(i, data), ParentExists(i)
  PROVE  /\ DOMAIN store' = DOMAIN store \cup {i} /\ store'[i] = data
         /\ \A j \in DOMAIN store : j # i => store'[j] = store[j]
         /\ TreeIsClosed'
<1>1. /\ DOMAIN store' = DOMAIN store \cup {i} /\ store'[i] = data
      /\ \A j \in DOMAIN store : j # i => store'[j] = store[j]
  BY DEF Put
<1>2. Ancestors[i] \subseteq DOMAIN store
  <2>1. CASE i = Root
    BY <2>1, TreeAssumption
  <2>2. CASE i # Root
    BY <2>2, TreeAssumption DEF ParentExists, Exists, IInv, TreeIsClosed
  <2>3. QED
    BY <2>1, <2>2
<1>3. QED
  BY <1>1, <1>2 DEF IInv, TreeIsClosed

\* It is none that another call relies on not being there: access control is
\* written under the lock of its resource, and UUIDs are new.
LEMMA AddingSpares ==
  ASSUME IInv, NEW c \in Calls, NEW d \in Calls \ {c}, NEW i,
         \/ pc[c] \in {"write", "drain"} /\ i = dest[c]
         \/ pc[c] = "create" /\ i = at[c],
         DOMAIN store' = DOMAIN store \cup {i}, attached'[d] = attached[d]
  PROVE  Spared(d)
<1>1. CallIsRight(c) /\ CallIsRight(d) /\ TypeOK /\ Running(c)
  BY DEF IInv, Running, Outcomes
<1>2. \/ c.kind = "put" /\ i = c.target
      \/ c.kind = "post" /\ i \in {c.slug, c.uuid}
      \/ c.kind = "put" /\ i \in Ancestors[c.target]
  BY <1>1 DEF CallIsRight, StepIsRight
<1>3. ASSUME pc[d] = "remove" PROVE i \notin AuxiliariesOf(d.target)
  <2> SUFFICES ASSUME i \in Auxiliaries, Associated[i] = d.target PROVE FALSE
    BY DEF AuxiliariesOf
  <2>1. c.kind = "put" /\ i = c.target
    BY <1>2, AncestorsFacts, CallsAssumption, TwinFacts
  <2>2. d.target \notin Auxiliaries
    BY TreeAssumption
  <2>3. getLockIdentifier(c.target) = getLockIdentifier(d.target)
    BY <2>1, <2>2 DEF getLockIdentifier
  <2>4. Running(d)
    BY <1>3 DEF Running, Outcomes
  <2>5. QED
    BY <1>1, <2>1, <2>3, <2>4 DEF IInv, LocksAreKept
<1>4. ASSUME d.kind = "post", pc[d] \notin Outcomes PROVE i # d.uuid /\ i # Twin[d.uuid]
  <2>1. \A j \in {c.target, c.slug, c.uuid} :
          d.uuid \notin {j} \cup Ancestors[j] /\ Twin[d.uuid] \notin {j} \cup Ancestors[j]
    BY <1>4, UuidAssumption
  <2>2. QED
    BY <1>2, <2>1
<1>5. attached'[d] <=> attached[d] /\ Parent[dest[d]] \in DOMAIN store'
  BY <1>1 DEF CallIsRight, EntryIsKnown, Exists, TypeOK
<1>6. QED
  BY <1>1, <1>3, <1>4, <1>5 DEF Spared, Exists, TwinExists, CallIsRight, DeleteIsSafe, PostIsNew

Gone(I) == I \cup {j \in DOMAIN store : Ancestors[j] \cap I # {}}

\* What is removed leaves nothing below it.
LEMMA Removing ==
  ASSUME IInv, NEW I, Root \notin I, Remove(I)
  PROVE  /\ DOMAIN store' = DOMAIN store \ Gone(I)
         /\ \A j \in DOMAIN store' : store'[j] = store[j]
         /\ \A c \in Calls : attached'[c] = (attached[c] /\ Parent[dest[c]] \notin Gone(I))
         /\ TreeIsClosed'
<1>1. /\ DOMAIN store' = DOMAIN store \ Gone(I)
      /\ \A j \in DOMAIN store' : store'[j] = store[j]
      /\ \A c \in Calls : attached'[c] = (attached[c] /\ Parent[dest[c]] \notin Gone(I))
  BY DEF Remove, Gone
<1>2. Root \in DOMAIN store'
  BY <1>1, TreeAssumption DEF Gone, IInv, TreeIsClosed
<1>3. ASSUME NEW j \in DOMAIN store', NEW a \in Ancestors[j] PROVE a \in DOMAIN store'
  <2>1. j \in DOMAIN store /\ j \in Identifiers /\ a \in DOMAIN store
    BY <1>1, <1>3 DEF IInv, TypeOK, TreeIsClosed
  <2>2. Ancestors[a] \subseteq Ancestors[j]
    BY <1>3, <2>1, AncestorsFacts
  <2>3. QED
    BY <1>1, <1>3, <2>1, <2>2 DEF Gone
<1>4. QED
  BY <1>1, <1>2, <1>3 DEF TreeIsClosed

\* The target of a running setRepresentation goes with the container that its
\* twin is in too, as its lock keeps it from being deleted itself.
LEMMA RemovingSpares ==
  ASSUME IInv, NEW c \in Calls, NEW d \in Calls \ {c}, Running(c), c.kind = "delete",
         NEW I, I \subseteq {c.target} \cup AuxiliariesOf(c.target), Root \notin I, Remove(I)
  PROVE  Spared(d)
<1>1. CallIsRight(d) /\ TypeOK
  BY DEF IInv
<1>2. /\ DOMAIN store' = DOMAIN store \ Gone(I)
      /\ attached'[d] = (attached[d] /\ Parent[dest[d]] \notin Gone(I))
  BY Removing
<1>3. ASSUME Running(d), d.kind = "put", d.target \in DOMAIN Twin,
             Exists(d.target), ~Exists(d.target)'
      PROVE  ~Exists(Twin[d.target])'
  <2>1. d.target \notin I
    <3>1. c.target # d.target
      BY <1>3 DEF IInv, LocksAreKept
    <3>2. d.target \notin Auxiliaries
      BY <1>3, TwinFacts
    <3>3. QED
      BY <3>1, <3>2 DEF AuxiliariesOf
  <2>2. Ancestors[d.target] \cap I # {}
    BY <1>2, <1>3, <2>1 DEF Gone, Exists
  <2>3. Ancestors[Twin[d.target]] = Ancestors[d.target]
    BY <1>3, TwinFacts
  <2>4. QED
    BY <1>2, <2>2, <2>3 DEF Gone, Exists
<1>4. attached'[d] <=> attached[d] /\ Parent[dest[d]] \in DOMAIN store'
  BY <1>1, <1>2 DEF CallIsRight, EntryIsKnown, Exists
<1>5. QED
  BY <1>1, <1>2, <1>3, <1>4 DEF Spared, Exists, TwinExists, CallIsRight, DeleteIsSafe, PostIsNew
-----------------------------------------------------------------------------
(* The actions, one by one.                                                *)

\* A call that has its outcome knows nothing any more.
LEMMA EndIsRight ==
  ASSUME IInv, NEW c \in Calls, pc[c] # "idle", pc'[c] \in Outcomes,
         dest'[c] = dest[c], ~attached'[c]
  PROVE  CallIsRight(c)'
<1>1. StepIsRight(c)
  BY DEF IInv, CallIsRight
<1>2. QED
  BY <1>1 DEF CallIsRight, StepIsRight, PutIsNew, PostIsNew, EntryIsKnown, DeleteIsSafe,
     Outcomes

\* A step that looks at the tree and goes on, or ends.
LEMMA LookingKeeps ==
  ASSUME IInv, NEW c \in Calls, Running(c), OthersWait(c), Remember, TypeOK',
         store' = store, \A d \in Calls \ {c} : attached'[d] = attached[d],
         CallIsRight(c)'
  PROVE  IInv'
<1>1. TreeIsClosed'
  BY DEF IInv, TreeIsClosed
<1>2. \A d \in Calls \ {c} : Spared(d)
  BY LookingSpares
<1>3. QED
  BY <1>1, <1>2, OneCall, LocksStay

\* Type correctness of a step that changes pc and at.
LEMMA LookingTypes ==
  ASSUME IInv, NEW c \in Calls, Remember, store' = store,
         NEW p \in Pcs, pc' = [pc EXCEPT ![c] = p], dest' \in [Calls -> Identifiers],
         at' \in [Calls -> Identifiers], attached' \in [Calls -> BOOLEAN]
  PROVE  TypeOK'
<1>1. pc' \in [Calls -> Pcs]
  BY DEF IInv, TypeOK
<1>2. QED
  BY <1>1, History DEF IInv, TypeOK

\* The lock is granted.
LEMMA beginKeeps ==
  ASSUME IInv, NEW c \in Calls, begin(c), Remember
  PROVE  IInv'
<1>1. CallIsRight(c) /\ TypeOK
  BY DEF IInv
<1>2. pc' = [pc EXCEPT ![c] = "find"] /\ OthersWait(c) /\ store' = store /\ attached' = attached
  BY <1>1 DEF begin, OthersWait, TypeOK
<1>3. TypeOK'
  <2>1. dest' \in [Calls -> Identifiers] /\ at' \in [Calls -> Identifiers]
    BY CallsAssumption DEF begin, IInv, TypeOK
  <2>2. QED
    BY <1>1, <1>2, <2>1, LookingTypes DEF Pcs, TypeOK
<1>4. CallIsRight(c)'
  <2>1. pc[c] = "idle" /\ dest'[c] = IF c.kind = "post" THEN c.slug ELSE dest[c]
    BY <1>1 DEF begin, TypeOK
  <2>2. ~attached'[c] /\ pc'[c] = "find"
    BY <1>1, <1>2, <2>1 DEF CallIsRight, EntryIsKnown, TypeOK
  <2>3. StepIsRight(c)'
    BY <1>1, <2>1, <2>2 DEF CallIsRight, StepIsRight
  <2>4. c.kind = "post" => ~Exists(c.uuid)' /\ ~TwinExists(c.uuid)'
    BY <1>1, <1>2, <2>1 DEF CallIsRight, PostIsNew, Exists, TwinExists, Outcomes
  <2>5. QED
    BY <2>2, <2>3, <2>4 DEF CallIsRight, PutIsNew, PostIsNew, EntryIsKnown, DeleteIsSafe
<1>5. LocksAreKept'
  BY <1>1, <1>2 DEF begin, IInv, LocksAreKept, Running, OthersWait, TypeOK
<1>6. TreeIsClosed' /\ \A d \in Calls \ {c} : Spared(d)
  BY <1>2, LookingSpares DEF IInv, TreeIsClosed
<1>7. QED
  BY <1>2, <1>3, <1>4, <1>5, <1>6, OneCall

\* The steps after which a call has its outcome, or reads on.
LEMMA ReadingKeeps ==
  ASSUME IInv, NEW c \in Calls, Remember,
         getMetadata(c) \/ getData(c) \/ reject(c) \/ dataFails(c)
  PROVE  IInv'
<1>1. CallIsRight(c) /\ TypeOK
  BY DEF IInv
<1>2. PICK p \in Outcomes \cup {"data"} :
        /\ pc' = [pc EXCEPT ![c] = p] /\ store' = store /\ dest' = dest /\ at' = at
        /\ p = "data" => pc[c] = "find" /\ c.kind = "get"
        /\ pc[c] \in {"find", "data", "climb", "write", "drain"}
        /\ \/ attached' = attached /\ pc[c] # "drain"
           \/ attached' = [attached EXCEPT ![c] = FALSE]
  BY DEF getMetadata, getData, reject, dataFails, Outcomes
<1>3. TypeOK'
  BY <1>1, <1>2, LookingTypes DEF TypeOK, Pcs
<1>4. OthersWait(c) /\ Running(c) /\ ~attached'[c] /\ \A d \in Calls \ {c} : attached'[d] = attached[d]
  BY <1>1, <1>2 DEF OthersWait, TypeOK, Running, Outcomes, CallIsRight, EntryIsKnown
<1>5. CallIsRight(c)'
  <2>1. CASE p \in Outcomes
    BY <1>1, <1>2, <1>4, <2>1, EndIsRight DEF TypeOK
  <2>2. CASE p = "data"
    <3>1. pc'[c] = "data" /\ dest'[c] = dest[c] /\ ~attached'[c] /\ c.kind = "get" /\ pc[c] = "find"
      BY <1>1, <1>2, <1>4, <2>2 DEF TypeOK
    <3>2. QED
      BY <1>1, <3>1 DEF CallIsRight, StepIsRight, PutIsNew, PostIsNew, EntryIsKnown, DeleteIsSafe
  <2>3. QED
    BY <2>1, <2>2
<1>6. QED
  BY <1>2, <1>3, <1>4, <1>5, LookingKeeps
\* What a step that neither writes nor has the entry of a parent leaves alone.
LEMMA LookingOn ==
  ASSUME IInv, NEW c \in Calls, Remember, Running(c), pc[c] # "drain",
         UNCHANGED <<store, attached>>,
         NEW p \in Pcs \ {"idle", "drain"}, pc' = [pc EXCEPT ![c] = p],
         NEW n \in Identifiers, dest' = [dest EXCEPT ![c] = n],
         NEW k \in Identifiers, at' = [at EXCEPT ![c] = k],
         StepIsRight(c)', PutIsNew(c)', PostIsNew(c)', DeleteIsSafe(c)'
  PROVE  IInv'
<1>1. CallIsRight(c) /\ TypeOK
  BY DEF IInv
<1>2. pc'[c] = p /\ ~attached'[c] /\ OthersWait(c)
  BY <1>1 DEF OthersWait, TypeOK, CallIsRight, EntryIsKnown
<1>3. EntryIsKnown(c)'
  BY <1>2 DEF EntryIsKnown
<1>4. TypeOK'
  <2>1. dest' \in [Calls -> Identifiers] /\ at' \in [Calls -> Identifiers]
    BY <1>1 DEF TypeOK
  <2>2. QED
    BY <1>1, <2>1, LookingTypes DEF TypeOK
<1>5. QED
  BY <1>2, <1>3, <1>4, LookingKeeps DEF CallIsRight

\* Nothing that is not there now was there throughout the call.
LEMMA Missing ==
  ASSUME IInv, NEW c \in Calls, Remember, Running(c), pc' \in [Calls -> Pcs],
         pc'[c] # "idle", store' = store
  PROVE  \A i : ~Exists(i) => i \notin stable'[c]
  BY History DEF IInv, TypeOK, Exists

\* setRepresentation and addResource find their target, or do not.
LEMMA getNormalizedMetadataKeeps ==
  ASSUME IInv, NEW c \in Calls, Remember, getNormalizedMetadata(c)
  PROVE  IInv'
<1>1. CallIsRight(c) /\ TypeOK /\ TreeIsClosed
  BY DEF IInv
<1>2. /\ pc[c] = "find" /\ c.kind \in {"put", "post"} /\ Running(c)
      /\ UNCHANGED <<store, dest, at, attached>>
  BY DEF getNormalizedMetadata, Running, Outcomes
<1>3. PICK p \in {"findTwin", "write", "withSlash", "refused"} :
        /\ pc' = [pc EXCEPT ![c] = p]
        /\ p = "findTwin" <=> ~Exists(c.target)
        /\ p = "write" => c.kind = "put"
        /\ p = "withSlash" => c.kind = "post" /\ c.target \in Containers
  BY <1>2 DEF getNormalizedMetadata
<1>4. pc'[c] = p /\ pc' \in [Calls -> Pcs] /\ dest' = [dest EXCEPT ![c] = dest[c]]
      /\ at' = [at EXCEPT ![c] = at[c]]
  BY <1>1, <1>2, <1>3 DEF TypeOK, Pcs, Outcomes
<1>5. p = "findTwin" => c.target # Root /\ c.target \notin stable'[c]
  BY <1>1, <1>2, <1>3, <1>4, Missing DEF TreeIsClosed, Exists
<1>6. StepIsRight(c)'
  BY <1>1, <1>2, <1>3, <1>4, <1>5 DEF CallIsRight, StepIsRight
<1>7. PutIsNew(c)'
  BY <1>2, <1>3, <1>4 DEF PutIsNew, Exists
<1>8. PostIsNew(c)'
  BY <1>1, <1>2, <1>3, <1>4, <1>5 DEF CallIsRight, PostIsNew, Exists, TwinExists, Outcomes
<1>9. DeleteIsSafe(c)'
  BY <1>3, <1>4 DEF DeleteIsSafe
<1>10. p \in Pcs \ {"idle", "drain"}
  BY DEF Pcs, Outcomes
<1>11. QED
  BY <1>1, <1>2, <1>3, <1>4, <1>6, <1>7, <1>8, <1>9, <1>10, LookingOn DEF TypeOK
\* What they find under the name with a differing slash.
LEMMA getTwinMetadataKeeps ==
  ASSUME IInv, NEW c \in Calls, Remember, getTwinMetadata(c)
  PROVE  IInv'
<1>1. CallIsRight(c) /\ TypeOK
  BY DEF IInv
<1>2. /\ pc[c] = "findTwin" /\ c.kind \in {"put", "post"} /\ c.target # Root /\ Running(c)
      /\ c.target \notin stable[c] /\ UNCHANGED <<store, dest, attached>>
  BY <1>1 DEF getTwinMetadata, Running, Outcomes, CallIsRight, StepIsRight, PostIsNew
<1>3. /\ c.target \in Identifiers /\ Parent[c.target] \in Ancestors[c.target]
      /\ Parent[c.target] \in Identifiers
  BY <1>2, CallsAssumption, AncestorsFacts
<1>4. PICK p \in {"climb", "withSlash", "notFound", "refused"}, k \in Identifiers :
        /\ pc' = [pc EXCEPT ![c] = p] /\ at' = [at EXCEPT ![c] = k]
        /\ p = "climb" => c.kind = "put" /\ ~TwinExists(c.target) /\ k = Parent[c.target]
        /\ p = "withSlash" => c.kind = "post"
  <2>1. at = [at EXCEPT ![c] = at[c]] /\ at[c] \in Identifiers
    BY <1>1 DEF TypeOK
  <2>2. CASE c.kind = "put" /\ ~TwinExists(c.target)
    BY <1>3, <2>2 DEF getTwinMetadata
  <2>3. CASE c.kind = "put" /\ TwinExists(c.target)
    BY <2>1, <2>3 DEF getTwinMetadata
  <2>4. CASE c.kind = "post"
    <3>1. PICK p \in {"withSlash", "notFound", "refused"} : pc' = [pc EXCEPT ![c] = p]
      BY <2>4 DEF getTwinMetadata
    <3>2. at' = at
      BY <2>4 DEF getTwinMetadata
    <3>3. QED
      BY <2>1, <2>4, <3>1, <3>2
  <2>5. QED
    BY <1>2, <2>2, <2>3, <2>4
<1>5. /\ pc'[c] = p /\ at'[c] = k /\ pc' \in [Calls -> Pcs]
      /\ dest' = [dest EXCEPT ![c] = dest[c]]
  BY <1>1, <1>2, <1>4 DEF TypeOK, Pcs, Outcomes
<1>6. /\ c.target \notin stable'[c]
      /\ p = "climb" /\ c.target \in DOMAIN Twin => Twin[c.target] \notin stable'[c]
  <2>1. stable'[c] \subseteq stable[c] /\ \A i : ~Exists(i) => i \notin stable'[c]
    BY <1>1, <1>2, <1>4, <1>5, Missing, History DEF TypeOK
  <2>2. QED
    BY <1>2, <1>4, <2>1 DEF TwinExists
<1>7. StepIsRight(c)'
  BY <1>1, <1>2, <1>3, <1>4, <1>5 DEF CallIsRight, StepIsRight
<1>8. PutIsNew(c)'
  <2>1. p = "climb" => Passed(c)' = {}
    <3> SUFFICES ASSUME p = "climb", NEW j \in Ancestors[c.target],
                        Parent[c.target] \in Ancestors[j]
                 PROVE  FALSE
      BY <1>1, <1>2, <1>4, <1>5 DEF Passed, CallIsRight, StepIsRight
    <3>1. j = Parent[c.target] \/ j \in Ancestors[Parent[c.target]]
      BY <1>2, <1>3, TreeAssumption
    <3>2. QED
      BY <1>3, <3>1, AncestorsFacts
  <2>2. QED
    BY <1>4, <1>5, <1>6, <2>1 DEF PutIsNew
<1>9. PostIsNew(c)'
  BY <1>1, <1>2, <1>4, <1>5, <1>6 DEF CallIsRight, PostIsNew, Exists, TwinExists, Outcomes
<1>10. DeleteIsSafe(c)'
  BY <1>4, <1>5 DEF DeleteIsSafe
<1>11. p \in Pcs \ {"idle", "drain"}
  BY DEF Pcs, Outcomes
<1>12. QED
  BY <1>1, <1>2, <1>4, <1>5, <1>7, <1>8, <1>9, <1>10, <1>11, LookingOn DEF TypeOK

\* The URI for a new child: free throughout the call, or made from a UUID.
LEMMA createSafeUriKeeps ==
  ASSUME IInv, NEW c \in Calls, Remember, createSafeUri(c)
  PROVE  IInv'
<1>1. CallIsRight(c) /\ TypeOK
  BY DEF IInv
<1>2. /\ pc[c] \in {"withSlash", "withoutSlash"} /\ c.kind = "post" /\ Running(c)
      /\ dest[c] = c.slug /\ UNCHANGED <<store, at, attached>>
  BY <1>1 DEF createSafeUri, Running, Outcomes, CallIsRight, StepIsRight
<1>3. /\ {c.slug, c.uuid} \subseteq DOMAIN Twin
      /\ \A i \in {c.slug, c.uuid} : i \in Identifiers /\ (i \in Containers <=> Twin[i] \notin Containers)
  BY <1>2, CallsAssumption, TwinFacts
<1> DEFINE taken == \E i \in {c.slug, Twin[c.slug]} :
                      Exists(i) /\ (i \in Containers <=> pc[c] = "withSlash")
<1>4. PICK p \in {"withoutSlash", "write"}, n \in {c.slug, c.uuid} :
        /\ pc' = [pc EXCEPT ![c] = p] /\ dest' = [dest EXCEPT ![c] = n]
        /\ p = "withoutSlash" => ~taken /\ pc[c] = "withSlash" /\ n = c.slug
        /\ p = "write" => \/ taken /\ n = c.uuid
                          \/ ~taken /\ pc[c] = "withoutSlash" /\ n = c.slug
  <2>1. /\ dest' = [dest EXCEPT ![c] = IF taken THEN c.uuid ELSE dest[c]]
        /\ pc' = [pc EXCEPT ![c] = IF ~taken /\ pc[c] = "withSlash" THEN "withoutSlash"
                                                                    ELSE "write"]
    BY DEF createSafeUri
  <2> HIDE DEF taken
  <2>2. CASE taken
    <3>1. dest' = [dest EXCEPT ![c] = c.uuid] /\ pc' = [pc EXCEPT ![c] = "write"]
      BY <2>1, <2>2
    <3>2. QED
      BY <2>2, <3>1
  <2>3. CASE ~taken /\ pc[c] = "withSlash"
    BY <1>2, <2>1, <2>3
  <2>4. CASE ~taken /\ pc[c] = "withoutSlash"
    BY <1>2, <2>1, <2>4
  <2>5. QED
    BY <1>2, <2>2, <2>3, <2>4
<1>5. /\ pc'[c] = p /\ dest'[c] = n /\ pc' \in [Calls -> Pcs]
      /\ at' = [at EXCEPT ![c] = at[c]]
  BY <1>1, <1>2, <1>4 DEF TypeOK, Pcs, Outcomes
<1>6. stable'[c] \subseteq stable[c] /\ \A i : ~Exists(i) => i \notin stable'[c]
  BY <1>1, <1>2, <1>4, <1>5, Missing, History DEF TypeOK
<1>7. p = "withoutSlash" => \A i \in {c.slug, Twin[c.slug]} \cap Containers : i \notin stable'[c]
  BY <1>4, <1>6
<1>8. p = "write" => New(c, n)'
  <2>1. CASE n = c.uuid
    BY <1>1, <1>2, <1>3, <1>6, <2>1 DEF CallIsRight, PostIsNew, TwinExists, New, Outcomes
  <2>2. CASE ~taken /\ pc[c] = "withoutSlash" /\ n = c.slug
    <3>1. \A i \in {c.slug, Twin[c.slug]} : i \notin stable'[c]
      BY <1>1, <1>6, <2>2 DEF CallIsRight, PostIsNew
    <3>2. QED
      BY <2>2, <3>1 DEF New
  <2>3. QED
    BY <1>4, <2>1, <2>2
<1>9. StepIsRight(c)'
  BY <1>1, <1>2, <1>4, <1>5 DEF CallIsRight, StepIsRight
<1>10. PutIsNew(c)'
  BY <1>2, <1>4, <1>5 DEF PutIsNew
<1>11. PostIsNew(c)'
  <2>1. p = "write" => New(c, dest[c])'
    BY <1>5, <1>8 DEF New
  <2>2. QED
    BY <1>1, <1>2, <1>4, <1>5, <1>6, <1>7, <2>1
       DEF CallIsRight, PostIsNew, Exists, TwinExists, Outcomes
<1>12. DeleteIsSafe(c)'
  BY <1>4, <1>5 DEF DeleteIsSafe
<1>13. p \in Pcs \ {"idle", "drain"} /\ n \in Identifiers
  BY <1>3 DEF Pcs, Outcomes
<1>14. QED
  BY <1>1, <1>2, <1>4, <1>5, <1>9, <1>10, <1>11, <1>12, <1>13, LookingOn DEF TypeOK
\* From a container that exists to the next one on the way to the target,
\* which, as those after it, is one that the climb has passed.
LEMMA Descending ==
  ASSUME IInv, NEW c \in Calls, c.kind = "put", c.target # Root, dest[c] = c.target,
         NEW k \in Ancestors[c.target], Descend(c, k)
  PROVE  \E p \in {"write", "create"}, n \in Ancestors[c.target] :
           /\ pc' = [pc EXCEPT ![c] = p] /\ at' = [at EXCEPT ![c] = n]
           /\ p = "create" =>
                /\ n # Root /\ k \in Ancestors[n]
                /\ \A j \in Ancestors[c.target] : n \in Ancestors[j] => k \in Ancestors[j]
<1>1. c.target \in Identifiers
  BY CallsAssumption
<1>2. CASE k = Parent[c.target]
  <2>1. pc' = [pc EXCEPT ![c] = "write"] /\ at' = [at EXCEPT ![c] = k]
    BY <1>2 DEF Descend
  <2>2. QED
    BY <2>1
<1>3. CASE k # Parent[c.target]
  <2> DEFINE n == CHOOSE j \in Ancestors[c.target] \ {Root} : Parent[j] = k
  <2>1. pc' = [pc EXCEPT ![c] = "create"] /\ at' = [at EXCEPT ![c] = n]
    BY <1>3 DEF Descend
  <2>2. n \in Ancestors[c.target] \ {Root} /\ k \in Ancestors[n]
    BY <1>1, <1>3, NextBelow
  <2>3. ASSUME NEW j \in Ancestors[c.target], n \in Ancestors[j] PROVE k \in Ancestors[j]
    <3>1. j \in Identifiers
      BY <1>1, AncestorsFacts
    <3>2. QED
      BY <2>2, <2>3, <3>1, AncestorsFacts
  <2> HIDE DEF n
  <2>4. QED
    BY <2>1, <2>2, <2>3
<1>4. QED
  BY <1>2, <1>3

\* The climb has found a container.
LEMMA findContainerKeeps ==
  ASSUME IInv, NEW c \in Calls, Remember, findContainer(c)
  PROVE  IInv'
<1>1. CallIsRight(c) /\ TypeOK
  BY DEF IInv
<1>2. /\ pc[c] = "climb" /\ Running(c) /\ c.kind = "put" /\ c.target # Root
      /\ dest[c] = c.target /\ at[c] \in Ancestors[c.target]
      /\ UNCHANGED <<store, dest, attached>>
  BY <1>1 DEF findContainer, Running, Outcomes, CallIsRight, StepIsRight
<1>3. c.target \in Identifiers /\ Ancestors[c.target] \subseteq Identifiers
  BY CallsAssumption, AncestorsFacts
<1>4. PICK p \in {"write", "create", "climbTwin"}, n \in Ancestors[c.target] :
        /\ pc' = [pc EXCEPT ![c] = p] /\ at' = [at EXCEPT ![c] = n]
        /\ p = "create" =>
             /\ n # Root /\ at[c] \in Ancestors[n]
             /\ \A j \in Ancestors[c.target] : n \in Ancestors[j] => at[c] \in Ancestors[j]
        /\ p = "climbTwin" => ~Exists(n) /\ n = at[c]
  <2>1. CASE Exists(at[c])
    <3>1. Descend(c, at[c])
      BY <2>1 DEF findContainer
    <3>2. QED
      BY <1>2, <3>1, Descending
  <2>2. CASE ~Exists(at[c])
    <3>1. pc' = [pc EXCEPT ![c] = "climbTwin"] /\ at' = [at EXCEPT ![c] = at[c]]
      BY <1>1, <2>2 DEF findContainer, TypeOK
    <3>2. QED
      BY <1>2, <2>2, <3>1
  <2>3. QED
    BY <2>1, <2>2
<1>5. /\ pc'[c] = p /\ at'[c] = n /\ pc' \in [Calls -> Pcs]
      /\ dest' = [dest EXCEPT ![c] = dest[c]] /\ dest[c] \in Identifiers
  BY <1>1, <1>2, <1>4 DEF TypeOK, Pcs, Outcomes
<1>6. stable'[c] \subseteq stable[c] /\ \A i : ~Exists(i) => i \notin stable'[c]
  BY <1>1, <1>2, <1>4, <1>5, Missing, History DEF TypeOK
<1>8. StepIsRight(c)'
  <2>1. p = "climbTwin" => n # Root
    BY <1>4 DEF IInv, TreeIsClosed, Exists
  <2>2. QED
    BY <1>1, <1>2, <1>4, <1>5, <2>1 DEF CallIsRight, StepIsRight
<1>9. PutIsNew(c)'
  <2>1. c.target \in DOMAIN Twin => Twin[c.target] \notin stable'[c] \/ Exists(c.target)'
    BY <1>1, <1>2, <1>6 DEF CallIsRight, PutIsNew, Exists
  <2>2. ASSUME p \in {"climbTwin", "create"}, NEW j \in Passed(c)' PROVE New(c, j)'
    <3>1. j \in Passed(c)
      BY <1>2, <1>4, <1>5, <2>2 DEF Passed
    <3>2. New(c, j)
      BY <1>1, <1>2, <3>1 DEF CallIsRight, PutIsNew
    <3>3. QED
      BY <3>2, <1>6 DEF New
  <2>3. ASSUME p = "create" PROVE New(c, at[c])'
    <3>1. n \in Passed(c)
      BY <1>2, <1>4, <2>3 DEF Passed
    <3>2. New(c, n)
      BY <1>1, <1>2, <3>1 DEF CallIsRight, PutIsNew
    <3>3. QED
      BY <1>5, <1>6, <3>2 DEF New
  <2>4. p = "climbTwin" => at'[c] \notin stable'[c]
    BY <1>4, <1>5, <1>6
  <2>5. QED
    BY <1>4, <1>5, <2>1, <2>2, <2>3, <2>4 DEF PutIsNew
<1>10. PostIsNew(c)' /\ DeleteIsSafe(c)'
  BY <1>2, <1>4, <1>5 DEF PostIsNew, DeleteIsSafe
<1>11. p \in Pcs \ {"idle", "drain"}
  BY DEF Pcs, Outcomes
<1>12. QED
  BY <1>1, <1>2, <1>3, <1>4, <1>5, <1>8, <1>9, <1>10, <1>11, LookingOn DEF TypeOK
\* There is none of that name: the climb goes on with the one above it.
LEMMA findContainerTwinKeeps ==
  ASSUME IInv, NEW c \in Calls, Remember, findContainerTwin(c)
  PROVE  IInv'
<1>1. CallIsRight(c) /\ TypeOK
  BY DEF IInv
<1>2. /\ pc[c] = "climbTwin" /\ Running(c) /\ c.kind = "put" /\ c.target # Root
      /\ dest[c] = c.target /\ at[c] \in Ancestors[c.target] /\ at[c] # Root
      /\ UNCHANGED <<store, dest, attached>>
  BY <1>1 DEF findContainerTwin, Running, Outcomes, CallIsRight, StepIsRight
<1>3. c.target \in Identifiers /\ Ancestors[c.target] \subseteq Identifiers
  BY CallsAssumption, AncestorsFacts
<1>4. PICK p \in {"climb", "refused"}, n \in Ancestors[c.target] :
        /\ pc' = [pc EXCEPT ![c] = p] /\ at' = [at EXCEPT ![c] = n]
        /\ p = "climb" => n = Parent[at[c]] /\ ~TwinExists(at[c])
  <2>1. CASE TwinExists(at[c])
    <3>1. pc' = [pc EXCEPT ![c] = "refused"] /\ at' = [at EXCEPT ![c] = at[c]]
      BY <1>1, <2>1 DEF findContainerTwin, TypeOK
    <3>2. QED
      BY <1>2, <3>1
  <2>2. CASE ~TwinExists(at[c])
    <3>1. pc' = [pc EXCEPT ![c] = "climb"] /\ at' = [at EXCEPT ![c] = Parent[at[c]]]
      BY <2>2 DEF findContainerTwin
    <3>2. Parent[at[c]] \in Ancestors[c.target]
      BY <1>2, <1>3, NextAbove
    <3>3. QED
      BY <2>2, <3>1, <3>2
  <2>3. QED
    BY <2>1, <2>2
<1>5. /\ pc'[c] = p /\ at'[c] = n /\ pc' \in [Calls -> Pcs]
      /\ dest' = [dest EXCEPT ![c] = dest[c]] /\ dest[c] \in Identifiers
  BY <1>1, <1>2, <1>4 DEF TypeOK, Pcs, Outcomes
<1>6. stable'[c] \subseteq stable[c] /\ \A i : ~Exists(i) => i \notin stable'[c]
  BY <1>1, <1>2, <1>4, <1>5, Missing, History DEF TypeOK
<1>7. StepIsRight(c)'
  BY <1>1, <1>2, <1>4, <1>5 DEF CallIsRight, StepIsRight
<1>8. PutIsNew(c)'
  <2>1. c.target \in DOMAIN Twin => Twin[c.target] \notin stable'[c] \/ Exists(c.target)'
    BY <1>1, <1>2, <1>6 DEF CallIsRight, PutIsNew, Exists
  <2>2. ASSUME p = "climb", NEW j \in Passed(c)' PROVE New(c, j)'
    <3>1. j = at[c] \/ j \in Passed(c)
      BY <1>2, <1>3, <1>4, <1>5, <2>2, NextAbove DEF Passed
    <3>2. CASE j = at[c]
      BY <1>1, <1>2, <1>4, <1>6, <2>2, <3>2 DEF CallIsRight, PutIsNew, TwinExists, New
    <3>3. CASE j \in Passed(c)
      <4>1. New(c, j)
        BY <1>1, <1>2, <3>3 DEF CallIsRight, PutIsNew
      <4>2. QED
        BY <1>6, <4>1 DEF New
    <3>4. QED
      BY <3>1, <3>2, <3>3
  <2>3. QED
    BY <1>4, <1>5, <2>1, <2>2 DEF PutIsNew, Outcomes
<1>9. PostIsNew(c)' /\ DeleteIsSafe(c)'
  BY <1>2, <1>4, <1>5 DEF PostIsNew, DeleteIsSafe
<1>10. p \in Pcs \ {"idle", "drain"}
  BY DEF Pcs, Outcomes
<1>11. QED
  BY <1>1, <1>2, <1>3, <1>4, <1>5, <1>7, <1>8, <1>9, <1>10, LookingOn DEF TypeOK

\* What a step that adds a resource has to keep.
LEMMA AddingKeeps ==
  ASSUME IInv, NEW c \in Calls, Remember, NEW i \in Identifiers,
         \/ pc[c] \in {"write", "drain"} /\ i = dest[c]
         \/ pc[c] = "create" /\ i = at[c],
         NEW data \in {"generated", c.id}, Put(i, data), ParentExists(i),
         NEW p \in Pcs, pc' = [pc EXCEPT ![c] = p],
         NEW k \in Identifiers, at' = [at EXCEPT ![c] = k], dest' = dest,
         attached' = [attached EXCEPT ![c] = FALSE], CallIsRight(c)'
  PROVE  IInv'
<1>1. TypeOK
  BY DEF IInv
<1>2. /\ DOMAIN store' = DOMAIN store \cup {i} /\ store'[i] = data
      /\ \A j \in DOMAIN store : j # i => store'[j] = store[j]
      /\ TreeIsClosed'
  BY Adding
<1>3. OthersWait(c) /\ Running(c) /\ \A d \in Calls \ {c} : attached'[d] = attached[d]
  BY <1>1 DEF OthersWait, TypeOK, Running, Outcomes
<1>4. TypeOK'
  <2>1. /\ pc' \in [Calls -> Pcs] /\ at' \in [Calls -> Identifiers]
        /\ dest' \in [Calls -> Identifiers] /\ attached' \in [Calls -> BOOLEAN]
    BY <1>1 DEF TypeOK
  <2>2. /\ DOMAIN store' \subseteq Identifiers
        /\ \A j \in DOMAIN store' :
             store'[j] \in {"initial", "generated"} \cup {d.id : d \in Calls}
    BY <1>1, <1>2 DEF TypeOK
  <2>3. QED
    BY <1>1, <2>1, <2>2, History DEF TypeOK
<1>5. \A d \in Calls \ {c} : Spared(d)
  BY <1>2, <1>3, AddingSpares
<1>6. QED
  BY <1>2, <1>3, <1>4, <1>5, OneCall, LocksStay
\* A parent container is made, and the climb goes down to the next one.
LEMMA createContainerKeeps ==
  ASSUME IInv, NEW c \in Calls, Remember, createContainer(c)
  PROVE  IInv'
<1>1. CallIsRight(c) /\ TypeOK
  BY DEF IInv
<1>2. /\ pc[c] = "create" /\ Running(c) /\ c.kind = "put" /\ c.target # Root
      /\ dest[c] = c.target /\ at[c] \in Ancestors[c.target]
      /\ UNCHANGED <<dest, attached>> /\ ~attached[c]
  BY <1>1 DEF createContainer, Running, Outcomes, CallIsRight, StepIsRight, EntryIsKnown
<1>3. /\ c.target \in Identifiers /\ Ancestors[c.target] \subseteq Identifiers
      /\ dest = [dest EXCEPT ![c] = dest[c]] /\ attached = [attached EXCEPT ![c] = FALSE]
  BY <1>1, <1>2, CallsAssumption, AncestorsFacts DEF TypeOK
<1>4. CASE ~ParentExists(at[c])
  <2>1. /\ pc' = [pc EXCEPT ![c] = "notFound"] /\ store' = store
        /\ at' = [at EXCEPT ![c] = at[c]]
    BY <1>1, <1>4 DEF createContainer, TypeOK
  <2>2. TypeOK'
    BY <1>1, <1>2, <2>1, LookingTypes DEF TypeOK, Pcs, Outcomes
  <2>3. CallIsRight(c)' /\ OthersWait(c)
    BY <1>1, <1>2, <2>1, EndIsRight DEF TypeOK, Outcomes, OthersWait
  <2>4. QED
    BY <1>2, <2>1, <2>2, <2>3, LookingKeeps
<1>5. CASE ParentExists(at[c])
  <2>1. Put(at[c], "generated") /\ Descend(c, at[c])
    BY <1>5 DEF createContainer
  <2>2. PICK p \in {"write", "create"}, n \in Ancestors[c.target] :
          /\ pc' = [pc EXCEPT ![c] = p] /\ at' = [at EXCEPT ![c] = n]
          /\ p = "create" =>
               /\ n # Root /\ at[c] \in Ancestors[n]
               /\ \A j \in Ancestors[c.target] : n \in Ancestors[j] => at[c] \in Ancestors[j]
    BY <1>2, <2>1, Descending
  <2>3. pc'[c] = p /\ at'[c] = n /\ pc' \in [Calls -> Pcs]
    BY <1>1, <2>2 DEF TypeOK, Pcs
  <2>4. DOMAIN store' = DOMAIN store \cup {at[c]}
    BY <2>1 DEF Put
  <2>5. stable'[c] \subseteq stable[c]
    BY <1>1, <1>2, <1>3, <2>2, <2>3, <2>4, History DEF TypeOK
  <2>6. StepIsRight(c)'
    BY <1>1, <1>2, <2>2, <2>3 DEF CallIsRight, StepIsRight
  <2>7. PutIsNew(c)'
    <3>1. c.target \in DOMAIN Twin => Twin[c.target] \notin stable'[c] \/ Exists(c.target)'
      BY <1>1, <1>2, <2>4, <2>5 DEF CallIsRight, PutIsNew, Exists
    <3>2. ASSUME p = "create", NEW j \in {n} \cup Passed(c)' PROVE New(c, j)'
      <4>1. j \in Passed(c)
        BY <1>2, <2>2, <2>3, <3>2 DEF Passed
      <4>2. New(c, j)
        BY <1>1, <1>2, <4>1 DEF CallIsRight, PutIsNew
      <4>3. QED
        BY <2>5, <4>2 DEF New
    <3>3. p = "create" => New(c, at[c])'
      BY <2>3, <3>2 DEF New
    <3>4. QED
      BY <2>2, <2>3, <3>1, <3>2, <3>3 DEF PutIsNew
  <2>8. PostIsNew(c)' /\ DeleteIsSafe(c)' /\ EntryIsKnown(c)'
    BY <1>2, <2>2, <2>3 DEF PostIsNew, DeleteIsSafe, EntryIsKnown
  <2>9. QED
    BY <1>2, <1>3, <1>5, <2>1, <2>2, <2>6, <2>7, <2>8, AddingKeeps DEF CallIsRight, Pcs
<1>6. QED
  BY <1>4, <1>5

\* The accessor has no parent for the resource, or waits for its data.
LEMMA writeKeeps ==
  ASSUME IInv, NEW c \in Calls, Remember, writeContainer(c) \/ writeDocument(c)
  PROVE  IInv'
<1>1. CallIsRight(c) /\ TypeOK
  BY DEF IInv
<1>2. /\ pc[c] = "write" /\ Running(c) /\ ~attached[c] /\ UNCHANGED <<dest, at>>
  BY <1>1 DEF writeContainer, writeDocument, Running, Outcomes, CallIsRight, EntryIsKnown
<1>3. /\ dest[c] \in Identifiers /\ at[c] \in Identifiers
      /\ at = [at EXCEPT ![c] = at[c]] /\ attached = [attached EXCEPT ![c] = FALSE]
  BY <1>1, <1>2 DEF TypeOK
<1>4. CASE ~ParentExists(dest[c])
  <2>1. /\ pc' = [pc EXCEPT ![c] = "notFound"] /\ store' = store /\ attached' = attached
    BY <1>4 DEF writeContainer, writeDocument
  <2>2. TypeOK'
    BY <1>1, <1>2, <2>1, LookingTypes DEF TypeOK, Pcs, Outcomes
  <2>3. CallIsRight(c)' /\ OthersWait(c)
    BY <1>1, <1>2, <2>1, EndIsRight DEF TypeOK, Outcomes, OthersWait
  <2>4. QED
    BY <1>2, <2>1, <2>2, <2>3, LookingKeeps
<1>5. CASE ParentExists(dest[c]) /\ writeContainer(c)
  <2>1. Put(dest[c], c.id) /\ pc' = [pc EXCEPT ![c] = "done"] /\ attached' = attached
    BY <1>5 DEF writeContainer
  <2>2. CallIsRight(c)'
    BY <1>1, <1>2, <2>1, EndIsRight DEF TypeOK, Outcomes
  <2>3. QED
    BY <1>2, <1>3, <1>5, <2>1, <2>2, AddingKeeps DEF Pcs, Outcomes
<1>6. CASE ParentExists(dest[c]) /\ writeDocument(c)
  <2>1. /\ pc' = [pc EXCEPT ![c] = "drain"] /\ attached' = [attached EXCEPT ![c] = TRUE]
        /\ store' = store /\ dest[c] \notin Containers
    BY <1>6 DEF writeDocument
  <2>2. pc'[c] = "drain" /\ attached'[c] /\ OthersWait(c)
    BY <1>1, <1>2, <2>1 DEF TypeOK, OthersWait
  <2>3. TypeOK'
    BY <1>1, <1>2, <2>1, LookingTypes DEF TypeOK, Pcs
  <2>4. stable'[c] \subseteq stable[c]
    BY <1>1, <2>2, <2>3, History DEF TypeOK
  <2>5. StepIsRight(c)'
    BY <1>1, <1>2, <2>1, <2>2 DEF CallIsRight, StepIsRight
  <2>6. PutIsNew(c)'
    BY <1>1, <1>2, <2>1, <2>2, <2>4 DEF CallIsRight, PutIsNew, Exists
  <2>7. PostIsNew(c)'
    <3>1. c.kind = "post" => New(c, dest[c])'
      BY <1>1, <1>2, <2>4 DEF CallIsRight, PostIsNew, New
    <3>2. QED
      BY <1>1, <1>2, <2>1, <2>2, <2>4, <3>1
         DEF CallIsRight, PostIsNew, Exists, TwinExists, Outcomes
  <2>8. EntryIsKnown(c)' /\ DeleteIsSafe(c)'
    <3>1. dest[c] # Root
      BY <2>1, TreeAssumption
    <3>2. QED
      BY <1>2, <1>6, <2>1, <2>2, <3>1 DEF EntryIsKnown, DeleteIsSafe, ParentExists, Exists
  <2>9. \A d \in Calls \ {c} : attached'[d] = attached[d]
    BY <1>1, <2>1 DEF TypeOK
  <2>10. QED
    BY <1>2, <2>1, <2>2, <2>3, <2>5, <2>6, <2>7, <2>8, <2>9, LookingKeeps DEF CallIsRight
<1>7. QED
  BY <1>4, <1>5, <1>6

\* The data is there: the document is added, or to an entry that is gone.
LEMMA documentWrittenKeeps ==
  ASSUME IInv, NEW c \in Calls, Remember, documentWritten(c)
  PROVE  IInv'
<1>1. CallIsRight(c) /\ TypeOK
  BY DEF IInv
<1>2. /\ pc[c] = "drain" /\ Running(c) /\ UNCHANGED <<dest, at>>
      /\ pc' = [pc EXCEPT ![c] = "done"] /\ attached' = [attached EXCEPT ![c] = FALSE]
  BY DEF documentWritten, Running, Outcomes
<1>3. CallIsRight(c)' /\ OthersWait(c)
  BY <1>1, <1>2, EndIsRight DEF TypeOK, Outcomes, OthersWait
<1>4. CASE attached[c]
  <2>1. Put(dest[c], c.id) /\ ParentExists(dest[c])
    BY <1>1, <1>4 DEF documentWritten, CallIsRight, EntryIsKnown, ParentExists
  <2>2. dest[c] \in Identifiers /\ at[c] \in Identifiers /\ at' = [at EXCEPT ![c] = at[c]]
    BY <1>1, <1>2 DEF TypeOK
  <2>3. QED
    BY <1>2, <1>3, <2>1, <2>2, AddingKeeps DEF Pcs, Outcomes
<1>5. CASE ~attached[c]
  <2>1. store' = store
    BY <1>5 DEF documentWritten
  <2>2. TypeOK' /\ \A d \in Calls \ {c} : attached'[d] = attached[d]
    BY <1>1, <1>2, <2>1, LookingTypes DEF TypeOK, Pcs, Outcomes
  <2>3. QED
    BY <1>2, <1>3, <2>1, <2>2, LookingKeeps
<1>6. QED
  BY <1>4, <1>5
\* deleteResource looks for its target and what it belongs to.
LEMMA findTargetKeeps ==
  ASSUME IInv, NEW c \in Calls, Remember, findTarget(c) \/ findAssociated(c)
  PROVE  IInv'
<1>1. CallIsRight(c) /\ TypeOK
  BY DEF IInv
<1>2. /\ pc[c] \in {"find", "associated"} /\ c.kind = "delete" /\ Running(c) /\ dest[c] = c.target
      /\ UNCHANGED <<store, dest, at, attached>>
  BY <1>1 DEF findTarget, findAssociated, Running, Outcomes, CallIsRight, StepIsRight
<1>3. PICK p \in {"notFound", "refused", "associated", "children", "auxiliaries", "remove"} :
        /\ pc' = [pc EXCEPT ![c] = p]
        /\ p \in {"associated", "remove"} => c.target \in Auxiliaries /\ c.target # Root
        /\ p = "children" => c.target \in Containers \ {Root}
        /\ p = "auxiliaries" => c.target \notin Containers
  <2>1. CASE findTarget(c)
    <3>1. /\ ~Exists(c.target) => pc' = [pc EXCEPT ![c] = "notFound"]
          /\ Exists(c.target) /\ c.target = Root => pc' = [pc EXCEPT ![c] = "refused"]
          /\ Exists(c.target) /\ c.target \in Auxiliaries =>
               pc' = [pc EXCEPT ![c] = "associated"]
          /\ Exists(c.target) /\ c.target \in Containers \ {Root} =>
               pc' = [pc EXCEPT ![c] = "children"]
          /\ Exists(c.target) /\ c.target \notin Containers \cup Auxiliaries =>
               pc' = [pc EXCEPT ![c] = "auxiliaries"]
      BY <2>1, TreeAssumption DEF findTarget
    <3>2. c.target \in Auxiliaries => c.target # Root
      BY TreeAssumption
    <3>3. QED
      BY <3>1, <3>2
  <2>2. CASE findAssociated(c)
    <3>1. Associated[c.target] = Root => Exists(Associated[c.target])
      BY DEF IInv, TreeIsClosed, Exists
    <3>2. \/ pc' = [pc EXCEPT ![c] = "notFound"]
          \/ pc' = [pc EXCEPT ![c] = "refused"]
          \/ pc' = [pc EXCEPT ![c] = "remove"]
      BY <2>2, <3>1 DEF findAssociated
    <3>3. c.target \in Auxiliaries /\ c.target # Root
      BY <1>1, <2>2 DEF findAssociated, CallIsRight, StepIsRight
    <3>4. QED
      BY <3>2, <3>3
  <2>3. QED
    BY <2>1, <2>2
<1>4. /\ pc'[c] = p /\ pc' \in [Calls -> Pcs] /\ dest' = [dest EXCEPT ![c] = dest[c]]
      /\ at' = [at EXCEPT ![c] = at[c]] /\ dest[c] \in Identifiers /\ at[c] \in Identifiers
  BY <1>1, <1>2, <1>3 DEF TypeOK, Pcs, Outcomes
<1>5. StepIsRight(c)'
  BY <1>1, <1>2, <1>3, <1>4, TreeAssumption DEF CallIsRight, StepIsRight
<1>6. PutIsNew(c)' /\ PostIsNew(c)'
  BY <1>2, <1>3, <1>4 DEF PutIsNew, PostIsNew
<1>7. DeleteIsSafe(c)'
  <2>1. ASSUME p \in {"auxiliaries", "remove"} PROVE HasNoChildren(c)'
    <3>1. c.target \notin Containers
      BY <1>3, <2>1, TreeAssumption
    <3>2. stable'[c] \subseteq Identifiers
      BY <1>1, <1>2, <1>4, History DEF TypeOK
    <3>3. QED
      BY <3>1, <3>2, AncestorsFacts DEF HasNoChildren
  <2>2. p = "remove" => AuxiliariesOf(c.target) = {}
    BY <1>3, TreeAssumption DEF AuxiliariesOf
  <2>3. QED
    BY <1>3, <1>4, <2>1, <2>2 DEF DeleteIsSafe
<1>8. p \in Pcs \ {"idle", "drain"}
  BY DEF Pcs, Outcomes
<1>9. QED
  BY <1>1, <1>2, <1>3, <1>4, <1>5, <1>6, <1>7, <1>8, LookingOn DEF TypeOK

\* A container without children but auxiliary ones has nothing else below it:
\* what is below a child is only there if the child is.
LEMMA hasProperChildrenKeeps ==
  ASSUME IInv, NEW c \in Calls, Remember, hasProperChildren(c)
  PROVE  IInv'
<1>1. CallIsRight(c) /\ TypeOK
  BY DEF IInv
<1>2. /\ pc[c] = "children" /\ c.kind = "delete" /\ Running(c) /\ dest[c] = c.target
      /\ c.target # Root /\ c.target \in Containers /\ UNCHANGED <<store, dest, at, attached>>
  BY <1>1 DEF hasProperChildren, Running, Outcomes, CallIsRight, StepIsRight
<1>3. PICK p \in {"notFound", "refused", "auxiliaries"} :
        /\ pc' = [pc EXCEPT ![c] = p]
        /\ p = "auxiliaries" =>
             \A i \in DOMAIN store \ ({Root} \cup Auxiliaries) : Parent[i] # c.target
  <2> DEFINE proper == \E i \in DOMAIN store \ ({Root} \cup Auxiliaries) : Parent[i] = c.target
  <2>1. proper => Exists(c.target)
    BY <1>1, AncestorsFacts DEF IInv, TypeOK, TreeIsClosed, Exists
  <2>2. pc' = [pc EXCEPT ![c] = CASE ~Exists(c.target) -> "notFound"
                                  [] proper -> "refused"
                                  [] OTHER -> "auxiliaries"]
    BY DEF hasProperChildren
  <2> HIDE DEF proper
  <2>3. /\ ~Exists(c.target) => pc' = [pc EXCEPT ![c] = "notFound"]
        /\ proper => pc' = [pc EXCEPT ![c] = "refused"]
        /\ Exists(c.target) /\ ~proper => pc' = [pc EXCEPT ![c] = "auxiliaries"]
    BY <2>1, <2>2
  <2>4. QED
    BY <2>3 DEF proper
<1>4. /\ pc'[c] = p /\ pc' \in [Calls -> Pcs] /\ dest' = [dest EXCEPT ![c] = dest[c]]
      /\ at' = [at EXCEPT ![c] = at[c]] /\ dest[c] \in Identifiers /\ at[c] \in Identifiers
  BY <1>1, <1>2, <1>3 DEF TypeOK, Pcs, Outcomes
<1>5. StepIsRight(c)'
  BY <1>1, <1>2, <1>3, <1>4 DEF CallIsRight, StepIsRight
<1>6. PutIsNew(c)' /\ PostIsNew(c)'
  BY <1>2, <1>3, <1>4 DEF PutIsNew, PostIsNew
<1>7. DeleteIsSafe(c)'
  <2>1. ASSUME p = "auxiliaries", NEW j \in stable'[c], c.target \in Ancestors[j]
        PROVE  /\ j \in Auxiliaries /\ Parent[j] = c.target
               /\ Associated[j] = c.target \/ Associated[j] \notin stable'[c]
    <3>1. stable'[c] \subseteq DOMAIN store /\ DOMAIN store \subseteq Identifiers
      BY <1>1, <1>2, <1>4, History DEF TypeOK
    <3>2. j \in Identifiers /\ j # Root /\ Ancestors[j] \subseteq DOMAIN store
      BY <2>1, <3>1, AncestorsFacts DEF IInv, TreeIsClosed
    <3>3. PICK k \in {j} \cup Ancestors[j] : k # Root /\ Parent[k] = c.target
      BY <2>1, <3>2, ChainAssumption
    <3>4. k \in DOMAIN store
      BY <2>1, <3>1, <3>2
    <3>5. k \in Auxiliaries
      BY <1>3, <2>1, <3>3, <3>4
    <3>6. k = j
      BY <3>2, <3>3, <3>5, AncestorsFacts
    <3>7. Associated[j] = c.target \/ Associated[j] \notin stable'[c]
      <4> SUFFICES ASSUME Associated[j] # c.target, Associated[j] \in stable'[c] PROVE FALSE
        OBVIOUS
      <4>1. Associated[j] \notin Containers /\ Parent[Associated[j]] = c.target
        BY <3>3, <3>5, <3>6, TreeAssumption
      <4>2. Associated[j] \in DOMAIN store \ ({Root} \cup Auxiliaries)
        BY <3>1, <3>5, <3>6, <4>1, TreeAssumption
      <4>3. QED
        BY <1>3, <2>1, <4>1, <4>2
    <3>8. QED
      BY <3>3, <3>5, <3>6, <3>7
  <2>2. QED
    BY <1>3, <1>4, <2>1 DEF DeleteIsSafe, HasNoChildren
<1>8. p \in Pcs \ {"idle", "drain"}
  BY DEF Pcs, Outcomes
<1>9. QED
  BY <1>1, <1>2, <1>3, <1>4, <1>5, <1>6, <1>7, <1>8, LookingOn DEF TypeOK

\* What a step that removes resources has to keep.
LEMMA RemovingKeeps ==
  ASSUME IInv, NEW c \in Calls, Remember, c.kind = "delete", Running(c), pc[c] # "drain",
         NEW I, I \subseteq {c.target} \cup AuxiliariesOf(c.target), Root \notin I, Remove(I),
         NEW p \in {"remove", "done"}, pc' = [pc EXCEPT ![c] = p], UNCHANGED <<dest, at>>,
         p = "remove" => /\ pc[c] = "auxiliaries" /\ AuxiliariesOf(c.target) \subseteq I
  PROVE  IInv'
<1>1. CallIsRight(c) /\ TypeOK
  BY DEF IInv
<1>2. /\ DOMAIN store' = DOMAIN store \ Gone(I)
      /\ \A j \in DOMAIN store' : store'[j] = store[j]
      /\ \A d \in Calls : attached'[d] = (attached[d] /\ Parent[dest[d]] \notin Gone(I))
      /\ TreeIsClosed'
  BY Removing
<1>3. OthersWait(c) /\ pc'[c] = p /\ ~attached'[c]
  BY <1>1, <1>2 DEF OthersWait, TypeOK, CallIsRight, EntryIsKnown
<1>4. TypeOK'
  <2>1. pc' \in [Calls -> Pcs] /\ DOMAIN store' \subseteq Identifiers
    BY <1>1, <1>2 DEF TypeOK, Pcs, Outcomes
  <2>2. attached' \in [Calls -> BOOLEAN]
    BY <1>1 DEF Remove, TypeOK
  <2>3. QED
    BY <1>1, <1>2, <2>1, <2>2, History DEF TypeOK
<1>5. CallIsRight(c)'
  <2>1. CASE p = "done"
    BY <1>3, <2>1, EndIsRight DEF Running, Outcomes
  <2>2. CASE p = "remove"
    <3>1. StepIsRight(c)'
      BY <1>1, <1>3, <2>2 DEF CallIsRight, StepIsRight
    <3>2. PutIsNew(c)' /\ PostIsNew(c)' /\ EntryIsKnown(c)'
      BY <1>3, <2>2 DEF PutIsNew, PostIsNew, EntryIsKnown
    <3>3. stable'[c] \subseteq stable[c]
      BY <1>1, <1>3, <1>4, <2>2, History DEF TypeOK
    <3>4. HasNoChildren(c)'
      BY <1>1, <2>2, <3>3 DEF CallIsRight, DeleteIsSafe, HasNoChildren
    <3>5. DOMAIN store' \cap AuxiliariesOf(c.target) = {}
      BY <1>2, <2>2 DEF Gone
    <3>6. QED
      BY <1>3, <2>2, <3>1, <3>2, <3>4, <3>5 DEF CallIsRight, DeleteIsSafe, AuxiliariesOf
  <2>3. QED
    BY <2>1, <2>2
<1>6. \A d \in Calls \ {c} : Spared(d)
  BY RemovingSpares
<1>7. QED
  BY <1>2, <1>3, <1>4, <1>5, <1>6, OneCall, LocksStay

\* The auxiliary resources are removed, whichever there are.
LEMMA safelyDeleteKeeps ==
  ASSUME IInv, NEW c \in Calls, Remember, safelyDeleteAuxiliaryResources(c)
  PROVE  IInv'
<1>1. pc[c] = "auxiliaries" /\ c.kind = "delete" /\ Running(c)
  BY DEF safelyDeleteAuxiliaryResources, Running, Outcomes, IInv, CallIsRight, StepIsRight
<1>2. Root \notin AuxiliariesOf(c.target)
  BY TreeAssumption DEF AuxiliariesOf
<1>3. QED
  BY <1>1, <1>2, RemovingKeeps DEF safelyDeleteAuxiliaryResources

\* The target itself is removed.
LEMMA removeTargetKeeps ==
  ASSUME IInv, NEW c \in Calls, Remember, removeTarget(c)
  PROVE  IInv'
<1>1. CallIsRight(c) /\ TypeOK
  BY DEF IInv
<1>2. /\ pc[c] = "remove" /\ c.kind = "delete" /\ c.target # Root /\ Running(c)
      /\ UNCHANGED <<dest, at>>
  BY <1>1 DEF removeTarget, Running, Outcomes, CallIsRight, StepIsRight
<1>3. CASE Exists(c.target)
  <2>1. Remove({c.target}) /\ pc' = [pc EXCEPT ![c] = "done"]
    BY <1>3 DEF removeTarget
  <2>2. QED
    BY <1>2, <2>1, RemovingKeeps
<1>4. CASE ~Exists(c.target)
  <2>1. /\ pc' = [pc EXCEPT ![c] = "notFound"] /\ UNCHANGED <<store, attached>>
    BY <1>4 DEF removeTarget
  <2>2. TypeOK'
    BY <1>1, <1>2, <2>1, LookingTypes DEF TypeOK, Pcs, Outcomes
  <2>3. CallIsRight(c)' /\ OthersWait(c)
    BY <1>1, <1>2, <2>1, EndIsRight DEF TypeOK, Outcomes, OthersWait, CallIsRight, EntryIsKnown
  <2>4. QED
    BY <1>2, <2>1, <2>2, <2>3, LookingKeeps
<1>5. QED
  BY <1>3, <1>4
-----------------------------------------------------------------------------
(* The invariant.                                                          *)

\* The invariant holds at the start.
LEMMA InitIInv == Init => IInv
<1> SUFFICES ASSUME Init PROVE IInv
  OBVIOUS
<1>1. PICK I \in Initial : store = [i \in I |-> "initial"]
  BY DEF Init
<1>2. Root \in I /\ I \subseteq Identifiers /\ \A i \in I : Ancestors[i] \subseteq I
  BY CallsAssumption
<1>3. TypeOK
  BY <1>1, <1>2, CallsAssumption DEF Init, TypeOK, Pcs
<1>4. TreeIsClosed
  BY <1>1, <1>2 DEF TreeIsClosed
<1>5. LocksAreKept /\ HistoryStarts
  BY DEF Init, LocksAreKept, HistoryStarts, Running
<1>6. ASSUME NEW c \in Calls PROVE CallIsRight(c)
  <2>1. pc[c] = "idle" /\ dest[c] = c.target /\ ~attached[c]
    BY DEF Init
  <2>2. c.kind = "post" => ~Exists(c.uuid) /\ ~TwinExists(c.uuid)
    BY <1>1, UuidAssumption DEF Exists, TwinExists
  <2>3. QED
    BY <2>1, <2>2 DEF CallIsRight, StepIsRight, PutIsNew, PostIsNew, EntryIsKnown, DeleteIsSafe
<1>7. QED
  BY <1>3, <1>4, <1>5, <1>6 DEF IInv

\* Every step keeps the invariant.
LEMMA NextKeeps == IInv /\ [Next]_vars => IInv'
<1> SUFFICES ASSUME IInv, [Next]_vars PROVE IInv'
  OBVIOUS
<1>1. CASE UNCHANGED vars
  BY <1>1 DEF vars, IInv, TypeOK, TreeIsClosed, LocksAreKept, HistoryStarts, Running,
     CallIsRight, StepIsRight, PutIsNew, PostIsNew, EntryIsKnown, DeleteIsSafe,
     HasNoChildren, Passed, New, Exists, TwinExists
<1>2. CASE Next
  <2>1. PICK c \in Calls : begin(c) \/ reject(c) \/ dataFails(c) \/ Step(c)
    BY <1>2 DEF Next
  <2>2. Remember
    BY <1>2 DEF Next
  <2>3. QED
    BY <2>1, <2>2, beginKeeps, ReadingKeeps, getNormalizedMetadataKeeps, getTwinMetadataKeeps,
       createSafeUriKeeps, findContainerKeeps, findContainerTwinKeeps, createContainerKeeps,
       writeKeeps, documentWrittenKeeps, findTargetKeeps, hasProperChildrenKeeps,
       safelyDeleteKeeps, removeTargetKeeps DEF Step
<1>3. QED
  BY <1>1, <1>2

\* The invariant holds in every state of every run of the store.
THEOREM IInvHolds == Spec => []IInv
<1>1. QED
  BY InitIInv, NextKeeps, PTL DEF Spec

\* Type correctness.
THEOREM TypeOKHolds == Spec => []TypeOK
<1>1. IInv => TypeOK
  BY DEF IInv
<1>2. QED
  BY <1>1, IInvHolds, PTL

\* The tree stays a tree: the containers above a resource exist, although
\* writes and deletes of different resources only lock their own target.
THEOREM TreeIsClosedHolds == Spec => []TreeIsClosed
<1>1. IInv => TreeIsClosed
  BY DEF IInv
<1>2. QED
  BY <1>1, IInvHolds, PTL

\* A resource is only deleted when its auxiliary resources are gone, and the
\* lock they share keeps them from being written anew (deleteResource).
THEOREM AuxiliariesGoFirstHolds == Spec => []AuxiliariesGoFirst
<1>1. IInv => AuxiliariesGoFirst
  <2> SUFFICES ASSUME IInv, NEW c \in Calls, pc[c] = "remove"
               PROVE  /\ DOMAIN store \cap AuxiliariesOf(c.target) = {}
                      /\ \A d \in Calls \ {c} :
                           pc[d] = "drain" => dest[d] \notin AuxiliariesOf(c.target)
    BY DEF AuxiliariesGoFirst
  <2>1. CallIsRight(c) /\ Running(c) /\ c.kind = "delete"
    BY DEF IInv, CallIsRight, StepIsRight, Running, Outcomes
  <2>2. ASSUME NEW d \in Calls \ {c}, pc[d] = "drain", dest[d] \in AuxiliariesOf(c.target)
        PROVE  FALSE
    <3>1. CallIsRight(d) /\ Running(d) /\ d.kind \in {"put", "post"}
      BY <2>2 DEF IInv, CallIsRight, StepIsRight, Running, Outcomes
    <3>2. d.kind = "put" /\ dest[d] = d.target
      BY <2>2, <3>1, CallsAssumption, TwinFacts DEF CallIsRight, StepIsRight, AuxiliariesOf
    <3>3. getLockIdentifier(d.target) = getLockIdentifier(c.target)
      BY <2>2, <3>2, TreeAssumption DEF getLockIdentifier, AuxiliariesOf
    <3>4. QED
      BY <2>1, <3>1, <3>2, <3>3 DEF IInv, LocksAreKept
  <2>3. QED
    BY <2>1, <2>2 DEF CallIsRight, DeleteIsSafe
<1>2. QED
  BY <1>1, IInvHolds, PTL

-----------------------------------------------------------------------------
(* The steps.                                                              *)

\* The call that made the step took one of its actions.
LEMMA Actor ==
  ASSUME IInv, Next, NEW c \in Calls, Did(c)
  PROVE  Remember /\ (begin(c) \/ reject(c) \/ dataFails(c) \/ Step(c))
<1>1. PICK d \in Calls : begin(d) \/ reject(d) \/ dataFails(d) \/ Step(d)
  BY DEF Next
<1>2. /\ pc \in [Calls -> Pcs] /\ at \in [Calls -> Identifiers]
  BY DEF IInv, TypeOK
<1>3. c # d => pc'[c] = pc[c] /\ at'[c] = at[c]
  BY <1>1, <1>2 DEF begin, reject, dataFails, Step, getMetadata, getData,
     getNormalizedMetadata, getTwinMetadata, createSafeUri, findContainer, findContainerTwin,
     createContainer, Descend, writeContainer, writeDocument, documentWritten, findTarget,
     findAssociated, hasProperChildren, safelyDeleteAuxiliaryResources, removeTarget
<1>4. QED
  BY <1>1, <1>3 DEF Did, Next

\* What a step did to the tree: nothing, or it added a resource, or removed some.
LEMMA Effects ==
  ASSUME IInv, NEW c \in Calls, begin(c) \/ reject(c) \/ dataFails(c) \/ Step(c)
  PROVE  \/ store' = store
         \/ /\ createContainer(c) /\ pc[c] = "create"
            /\ Put(at[c], "generated") /\ ParentExists(at[c])
         \/ /\ writeContainer(c) \/ documentWritten(c)
            /\ pc[c] \in {"write", "drain"}
            /\ Put(dest[c], c.id)
         \/ /\ pc[c] = "auxiliaries" /\ Remove(AuxiliariesOf(c.target))
         \/ /\ pc[c] = "remove" /\ Remove({c.target})
  BY DEF begin, reject, dataFails, Step, getMetadata, getData,
     getNormalizedMetadata, getTwinMetadata, createSafeUri, findContainer, findContainerTwin,
     createContainer, writeContainer, writeDocument, documentWritten, findTarget,
     findAssociated, hasProperChildren, safelyDeleteAuxiliaryResources, removeTarget
\* What setRepresentation and addResource write did not exist throughout the
\* call, nor did its twin, but for the target of setRepresentation.
LEMMA WritesAreNew ==
  ASSUME IInv, NEW c \in Calls, NEW i,
         \/ pc[c] \in {"write", "drain"} /\ i = dest[c]
         \/ pc[c] = "create" /\ i = at[c]
  PROVE  \/ New(c, i)
         \/ /\ c.kind = "put" /\ i = c.target
            /\ i \in DOMAIN Twin => Twin[i] \notin stable[c] \/ Exists(i)
<1>1. CallIsRight(c)
  BY DEF IInv
<1>2. CASE pc[c] = "create" /\ i = at[c]
  BY <1>1, <1>2 DEF CallIsRight, PutIsNew
<1>3. CASE pc[c] \in {"write", "drain"} /\ i = dest[c]
  <2>1. CASE c.kind = "post"
    BY <1>1, <1>3, <2>1 DEF CallIsRight, PostIsNew
  <2>2. CASE c.kind = "put"
    BY <1>1, <1>3, <2>2 DEF CallIsRight, StepIsRight, PutIsNew
  <2>3. QED
    BY <1>1, <1>3, <2>1, <2>2 DEF CallIsRight, StepIsRight
<1>4. QED
  BY <1>2, <1>3

\* A new resource does not differ in the trailing slash only from one that
\* existed throughout the call that makes it (setRepresentation, addResource).
THEOREM SlashesAreRespectedHolds == Spec => SlashesAreRespected
<1>1. ASSUME IInv, Next
      PROVE  \A c \in Calls : Did(c) =>
               \A i \in DOMAIN store' \ DOMAIN store :
                 i \in DOMAIN Twin => Twin[i] \notin Untouched(c)
  <2> SUFFICES ASSUME NEW c \in Calls, Did(c), NEW i \in DOMAIN store' \ DOMAIN store,
                      i \in DOMAIN Twin
               PROVE  Twin[i] \notin Untouched(c)
    OBVIOUS
  <2>1. begin(c) \/ reject(c) \/ dataFails(c) \/ Step(c)
    BY <1>1, Actor
  <2>2. \/ pc[c] = "create" /\ i = at[c]
        \/ pc[c] \in {"write", "drain"} /\ i = dest[c]
    BY <1>1, <2>1, Effects DEF Put, Remove
  <2>3. Twin[i] \notin stable[c]
    BY <1>1, <2>2, WritesAreNew DEF New, Exists
  <2>4. QED
    BY <2>3 DEF Untouched
<1>2. QED
  BY <1>1, IInvHolds, PTL DEF Spec, SlashesAreRespected

\* A PUT changes no resource that existed throughout the call but its target,
\* and a POST none at all.
THEOREM WritesSpareOthersHolds == Spec => WritesSpareOthers
<1>1. ASSUME IInv, Next
      PROVE  \A c \in Calls : Did(c) /\ c.kind \in {"put", "post"} =>
               \A i \in Untouched(c) :
                 \/ i \in DOMAIN store' /\ store'[i] = store[i]
                 \/ i = c.target /\ c.kind = "put"
  <2> SUFFICES ASSUME NEW c \in Calls, Did(c), c.kind \in {"put", "post"},
                      NEW i \in Untouched(c)
               PROVE  \/ i \in DOMAIN store' /\ store'[i] = store[i]
                      \/ i = c.target /\ c.kind = "put"
    OBVIOUS
  <2>1. begin(c) \/ reject(c) \/ dataFails(c) \/ Step(c)
    BY <1>1, Actor
  <2>2. pc[c] \notin {"auxiliaries", "remove"}
    BY <1>1 DEF IInv, CallIsRight, StepIsRight
  <2>3. i \in DOMAIN store /\ i \in stable[c]
    BY DEF Untouched
  <2>4. \/ store' = store
        \/ pc[c] = "create" /\ Put(at[c], "generated")
        \/ pc[c] \in {"write", "drain"} /\ Put(dest[c], c.id)
    BY <1>1, <2>1, <2>2, Effects
  <2>5. CASE store' = store
    BY <2>3, <2>5
  <2>6. CASE pc[c] = "create" /\ Put(at[c], "generated")
    BY <1>1, <2>3, <2>6, WritesAreNew DEF Put, New
  <2>7. CASE pc[c] \in {"write", "drain"} /\ Put(dest[c], c.id)
    BY <1>1, <2>3, <2>7, WritesAreNew DEF Put, New
  <2>8. QED
    BY <2>4, <2>5, <2>6, <2>7
<1>2. QED
  BY <1>1, IInvHolds, PTL DEF Spec, WritesSpareOthers

\* A DELETE takes with it nothing that existed throughout the call but the
\* target, its auxiliary resources and those of resources that are not there.
THEOREM DeletesSpareOthersHolds == Spec => DeletesSpareOthers
<1>1. ASSUME IInv, Next
      PROVE  \A c \in Calls : Did(c) /\ c.kind = "delete" =>
               Untouched(c) \ DOMAIN store'
                 \subseteq {c.target} \cup AuxiliariesOf(c.target)
                   \cup {a \in Auxiliaries : /\ Parent[a] = c.target
                                            /\ Associated[a] \notin Untouched(c)}
  <2> SUFFICES ASSUME NEW c \in Calls, Did(c), c.kind = "delete",
                      NEW i \in Untouched(c), i \notin DOMAIN store'
               PROVE  i \in {c.target} \cup AuxiliariesOf(c.target)
                             \cup {a \in Auxiliaries : /\ Parent[a] = c.target
                                                      /\ Associated[a] \notin Untouched(c)}
    OBVIOUS
  <2>1. begin(c) \/ reject(c) \/ dataFails(c) \/ Step(c)
    BY <1>1, Actor
  <2>2. CallIsRight(c) /\ i \in DOMAIN store /\ i \in stable[c] /\ i \in Identifiers
    BY <1>1 DEF Untouched, IInv, TypeOK
  <2>3. \/ pc[c] = "auxiliaries" /\ Remove(AuxiliariesOf(c.target))
        \/ pc[c] = "remove" /\ Remove({c.target})
    BY <1>1, <2>1, <2>2, Effects DEF Put, CallIsRight, StepIsRight
  <2>4. CASE pc[c] = "auxiliaries" /\ Remove(AuxiliariesOf(c.target))
    BY <2>2, <2>4, AncestorsFacts DEF Remove, AuxiliariesOf
  <2>5. CASE pc[c] = "remove" /\ Remove({c.target})
    <3>1. i = c.target \/ c.target \in Ancestors[i]
      BY <2>2, <2>5 DEF Remove
    <3>2. HasNoChildren(c)
      BY <2>2, <2>5 DEF CallIsRight, DeleteIsSafe
    <3>3. QED
      BY <2>2, <3>1, <3>2 DEF HasNoChildren, AuxiliariesOf, Untouched
  <2>6. QED
    BY <2>3, <2>4, <2>5
<1>2. QED
  BY <1>1, IInvHolds, PTL DEF Spec, DeletesSpareOthers

\* What is not found did not exist throughout the call: a 404 can be believed.
THEOREM NotFoundIsTrueHolds == Spec => NotFoundIsTrue
<1>1. ASSUME IInv, Next
      PROVE  \A c \in Calls : Did(c) /\ pc'[c] = "notFound" =>
               IF c.kind = "put" THEN Ancestors[c.target] \ Untouched(c) # {}
               ELSE {c.target, getLockIdentifier(c.target)} \ Untouched(c) # {}
  <2> SUFFICES ASSUME NEW c \in Calls, Did(c), pc'[c] = "notFound"
               PROVE  IF c.kind = "put" THEN Ancestors[c.target] \ Untouched(c) # {}
                      ELSE {c.target, getLockIdentifier(c.target)} \ Untouched(c) # {}
    OBVIOUS
  <2>1. begin(c) \/ reject(c) \/ dataFails(c) \/ Step(c)
    BY <1>1, Actor
  <2>2. CallIsRight(c) /\ TypeOK /\ c.kind \in Kinds
    BY <1>1, CallsAssumption DEF IInv
  <2>3. \/ c.kind # "put" /\ ~Exists(c.target)
        \/ c.kind # "put" /\ c.target \in Auxiliaries /\ ~Exists(Associated[c.target])
        \/ pc[c] = "findTwin" /\ c.kind = "post"
        \/ pc[c] = "create" /\ ~ParentExists(at[c])
        \/ pc[c] = "write" /\ ~ParentExists(dest[c])
    <3> USE DEF TypeOK, Outcomes
    <3>1. CASE getMetadata(c) \/ getData(c)
      BY <2>2, <3>1 DEF getMetadata, getData, CallIsRight, StepIsRight
    <3>2. CASE getTwinMetadata(c)
      BY <2>2, <3>2 DEF getTwinMetadata
    <3>3. CASE createContainer(c)
      BY <2>2, <3>3 DEF createContainer, Descend
    <3>4. CASE writeContainer(c) \/ writeDocument(c)
      BY <2>2, <3>4 DEF writeContainer, writeDocument
    <3>5. CASE findTarget(c)
      BY <2>2, <3>5 DEF findTarget
    <3>6. CASE findAssociated(c)
      BY <2>2, <3>6 DEF findAssociated, CallIsRight, StepIsRight
    <3>7. CASE hasProperChildren(c)
      BY <2>2, <3>7 DEF hasProperChildren, CallIsRight, StepIsRight
    <3>8. CASE removeTarget(c)
      BY <2>2, <3>8 DEF removeTarget, CallIsRight, StepIsRight
    <3>9. QED
      BY <2>1, <2>2, <3>1, <3>2, <3>3, <3>4, <3>5, <3>6, <3>7, <3>8
         DEF Step, begin, reject, dataFails, getNormalizedMetadata, createSafeUri,
             findContainer, Descend, findContainerTwin, documentWritten,
             safelyDeleteAuxiliaryResources
  <2>4. CASE c.kind # "put" /\ ~Exists(c.target)
    BY <2>4 DEF Untouched, Exists
  <2>5. CASE c.kind # "put" /\ c.target \in Auxiliaries /\ ~Exists(Associated[c.target])
    BY <2>5 DEF Untouched, Exists, getLockIdentifier
  <2>6. CASE pc[c] = "findTwin" /\ c.kind = "post"
    BY <2>2, <2>6 DEF CallIsRight, PostIsNew, Untouched
  <2>7. CASE pc[c] = "create" /\ ~ParentExists(at[c])
    <3>1. /\ c.kind = "put" /\ at[c] \in Ancestors[c.target]
          /\ at[c] # Root /\ ~Exists(Parent[at[c]])
      BY <2>2, <2>7 DEF CallIsRight, StepIsRight, ParentExists
    <3>2. Parent[at[c]] \in Ancestors[c.target]
      BY <3>1, CallsAssumption, NextAbove
    <3>3. QED
      BY <3>1, <3>2 DEF Untouched, Exists
  <2>8. CASE pc[c] = "write" /\ ~ParentExists(dest[c])
    <3>1. dest[c] # Root /\ dest[c] \in Identifiers /\ ~Exists(Parent[dest[c]])
      BY <2>2, <2>8 DEF TypeOK, ParentExists
    <3>2. Parent[dest[c]] \in Ancestors[dest[c]]
      BY <3>1, AncestorsFacts
    <3>3. CASE c.kind = "put"
      BY <2>2, <3>1, <3>2, <3>3 DEF CallIsRight, StepIsRight, Untouched, Exists
    <3>4. CASE c.kind = "post"
      <4>1. c.target \in Containers => Parent[dest[c]] = c.target
        BY <2>2, <2>8, <3>4, CallsAssumption DEF CallIsRight, StepIsRight
      <4>2. c.target \in Containers \/ c.target \notin stable[c]
        BY <2>2, <2>8, <3>4 DEF CallIsRight, PostIsNew
      <4>3. QED
        BY <3>1, <3>4, <4>1, <4>2 DEF Untouched, Exists
    <3>5. QED
      BY <2>2, <2>8, <3>3, <3>4 DEF CallIsRight, StepIsRight
  <2>9. QED
    BY <2>3, <2>4, <2>5, <2>6, <2>7, <2>8
<1>2. QED
  BY <1>1, IInvHolds, PTL DEF Spec, NotFoundIsTrue

\* A document is there when its call is done, with the data of the call, or a
\* container above it was deleted, or made, in the meantime.
THEOREM WritesAreKeptHolds == Spec => WritesAreKept
<1>1. ASSUME IInv, Next
      PROVE  \A c \in Calls : Did(c) /\ pc[c] = "drain" /\ pc'[c] = "done" =>
               \/ dest[c] \in DOMAIN store' /\ store'[dest[c]] = c.id
               \/ Ancestors[dest[c]] \ Untouched(c) # {}
  <2> SUFFICES ASSUME NEW c \in Calls, Did(c), pc[c] = "drain", pc'[c] = "done"
               PROVE  \/ dest[c] \in DOMAIN store' /\ store'[dest[c]] = c.id
                      \/ Ancestors[dest[c]] \ Untouched(c) # {}
    OBVIOUS
  <2>1. CallIsRight(c) /\ TypeOK
    BY <1>1 DEF IInv
  <2>2. documentWritten(c)
    <3>1. begin(c) \/ reject(c) \/ dataFails(c) \/ Step(c)
      BY <1>1, Actor
    <3>2. QED
      BY <2>1, <3>1 DEF TypeOK, begin, reject, dataFails, Step, getMetadata, getData,
         getNormalizedMetadata, getTwinMetadata, createSafeUri, findContainer,
         findContainerTwin, createContainer, writeContainer, writeDocument, findTarget,
         findAssociated, hasProperChildren, safelyDeleteAuxiliaryResources, removeTarget
  <2>3. CASE attached[c]
    BY <2>2, <2>3 DEF documentWritten, Put
  <2>4. CASE ~attached[c]
    <3>1. Parent[dest[c]] \notin stable[c]
      BY <2>1, <2>4 DEF CallIsRight, EntryIsKnown
    <3>2. Parent[dest[c]] \in Ancestors[dest[c]]
      <4>1. dest[c] \in Identifiers /\ dest[c] # Root
        BY <2>1, TreeAssumption DEF TypeOK, CallIsRight, StepIsRight
      <4>2. QED
        BY <4>1, AncestorsFacts
    <3>3. QED
      BY <3>1, <3>2 DEF Untouched
  <2>5. QED
    BY <2>3, <2>4
<1>2. QED
  BY <1>1, IInvHolds, PTL DEF Spec, WritesAreKept

=============================================================================
