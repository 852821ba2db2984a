----------------------- MODULE DataAccessorBasedStore -----------------------
(***************************************************************************)
(* DataAccessorBasedStore over an InMemoryDataAccessor, behind the locks   *)
(* of LockingResourceStore.  A call holds the lock of its target only, but *)
(* looks at and changes other resources too: the resource with a differing *)
(* trailing slash, the parent containers, the new child of a container,    *)
(* the auxiliary resources.                                                *)
(*                                                                         *)
(* Every method of the in-memory accessor but writeDocument runs without   *)
(* an await, so a step is one accessor call; writeDocument looks up the    *)
(* parent entry, waits for the data and then adds to the entry it had.     *)
(* An identifier is a model of a path: Parent, Twin and Associated say     *)
(* what the identifier and auxiliary strategies derive from it.            *)
(***************************************************************************)
EXTENDS Naturals, FiniteSets

CONSTANTS
  Identifiers,
  Containers,   \* the identifiers that end in a slash
  Root,         \* the storage root; it exists (set up by the initializer)
  Parent,       \* the parent container of every other identifier
  Ancestors,    \* all containers above an identifier
  Twin,         \* the identifier with a differing trailing slash
  Auxiliaries,  \* the identifiers of access control resources
  Associated,   \* the resource each of them belongs to
  Calls,        \* records [id, kind, target, slug, uuid]
  MaxCalls,     \* bound: how many of them are made
  Initial       \* the sets of resources that there may be at the start

\* "get" is getRepresentation, "put" setRepresentation, "post" addResource,
\* whose slug and uuid are the URIs that createURI makes from them.
Kinds == {"get", "put", "post", "delete"}

ASSUME TreeAssumption ==
  /\ Root \in Containers /\ Containers \subseteq Identifiers
  /\ Parent \in [Identifiers \ {Root} -> Containers]
  /\ Ancestors \in [Identifiers -> SUBSET Containers]
  /\ Ancestors[Root] = {}
  /\ \A i \in Identifiers \ {Root} :
       /\ Ancestors[i] = {Parent[i]} \cup Ancestors[Parent[i]]
       /\ i \notin Ancestors[i]
  /\ \A i \in DOMAIN Twin :
       /\ i \in Identifiers \ {Root} /\ Twin[i] \in DOMAIN Twin /\ Twin[Twin[i]] = i
       /\ i \in Containers <=> Twin[i] \notin Containers
       /\ Parent[Twin[i]] = Parent[i]
  /\ Auxiliaries \subseteq Identifiers \ (Containers \cup DOMAIN Twin)
  /\ Associated \in [Auxiliaries -> Identifiers \ Auxiliaries]
  /\ \A a \in Auxiliaries :
       Parent[a] = IF Associated[a] \in Containers THEN Associated[a]
                                                  ELSE Parent[Associated[a]]

\* The containers above an identifier form a chain: what the definition of
\* Ancestors comes to, by induction on the length of a path.
ASSUME ChainAssumption ==
  \A i \in Identifiers : \A a \in Ancestors[i] :
    /\ Ancestors[a] \subseteq Ancestors[i]
    /\ \A b \in Ancestors[i] : a = b \/ a \in Ancestors[b] \/ b \in Ancestors[a]
    /\ a # Parent[i] => \E j \in Ancestors[i] \ {Root} : Parent[j] = a

ASSUME CallsAssumption ==
  /\ IsFiniteSet(Calls) /\ MaxCalls \in Nat
  /\ \A c \in Calls :
       /\ c.kind \in Kinds
       /\ {c.target, c.slug, c.uuid} \subseteq Identifiers
       /\ c.kind = "post" =>
            /\ {c.slug, c.uuid} \subseteq DOMAIN Twin
            /\ c.target \in Containers =>
                 Parent[c.slug] = c.target /\ Parent[c.uuid] = c.target
  /\ \A I \in Initial :
       /\ Root \in I /\ I \subseteq Identifiers
       /\ \A i \in I : Ancestors[i] \subseteq I

\* A UUID is new: createURI does not look whether it is.
ASSUME UuidAssumption ==
  \A c \in Calls : c.kind = "post" =>
    \A i \in {c.uuid, Twin[c.uuid]} :
      /\ \A I \in Initial : i \notin I
      /\ \A d \in Calls \ {c} : \A j \in {d.target, d.slug, d.uuid} :
           i \notin {j} \cup Ancestors[j]

VARIABLES
  store,      \* the entries: for each resource, whose data or metadata it has
  pc,         \* the next step of a call, or its outcome
  dest,       \* the resource that a call writes
  at,         \* createRecursiveContainers: the container it is at
  attached,   \* writeDocument: is the parent entry it has still in the tree?
  stable      \* history: the resources that existed ever since a call began

vars == <<store, pc, dest, at, attached, stable>>

Outcomes == {"done", "notFound", "refused", "failed"}

Pcs == {"idle", "find", "findTwin", "data", "withSlash", "withoutSlash",
        "climb", "climbTwin", "create", "write", "drain", "associated",
        "children", "auxiliaries", "remove"} \cup Outcomes

Init ==
  /\ \E I \in Initial : store = [i \in I |-> "initial"]
  /\ pc = [c \in Calls |-> "idle"]
  /\ dest = [c \in Calls |-> c.target]
  /\ at = [c \in Calls |-> c.target]
  /\ attached = [c \in Calls |-> FALSE]
  /\ stable = [c \in Calls |-> DOMAIN store]

Running(c) == pc[c] \notin {"idle"} \cup Outcomes

-----------------------------------------------------------------------------
(* The InMemoryDataAccessor.                                               *)

Exists(i) == i \in DOMAIN store

TwinExists(i) == i \in DOMAIN Twin /\ Exists(Twin[i])

\* The entry of i is added to its parent, or replaced.
Put(i, data) ==
  store' = [j \in DOMAIN store \cup {i} |-> IF j = i THEN data ELSE store[j]]

\* getParentEntry throws a 404 if there is no parent.
ParentExists(i) == i = Root \/ Exists(Parent[i])

\* Remove, by giving the parent a new entry without the child.
RemoveByCopy(I) ==
  LET gone == I \cup {j \in DOMAIN store : Ancestors[j] \cap I # {}}
      copied == {Parent[i] : i \in I \ {Root}}
  IN  /\ store' = [j \in DOMAIN store \ gone |-> store[j]]
      /\ attached' = [c \in Calls |->
                        attached[c] /\ Parent[dest[c]] \notin gone \cup copied]

\* The entries of I are removed from their parents and all below with them.
Remove(I) ==
  LET gone == I \cup {j \in DOMAIN store : Ancestors[j] \cap I # {}}
  IN  /\ store' = [j \in DOMAIN store \ gone |-> store[j]]
      /\ attached' = [c \in Calls |->
                        attached[c] /\ Parent[dest[c]] \notin gone]

-----------------------------------------------------------------------------
(* The start of a call.                                                    *)

\* getLockIdentifier, auxiliary resources locked on their own.
getOwnLockIdentifier(i) == i

getLockIdentifier(i) == IF i \in Auxiliaries THEN Associated[i] ELSE i

\* The lock is granted and the store is called.
begin(c) ==
  /\ pc[c] = "idle" /\ Cardinality({d \in Calls : pc[d] # "idle"}) < MaxCalls
  /\ \A d \in Calls :
       Running(d) /\ getLockIdentifier(d.target) = getLockIdentifier(c.target)
         => c.kind = "get" /\ d.kind = "get"
  /\ pc' = [pc EXCEPT ![c] = "find"]
  /\ dest' = [dest EXCEPT ![c] = IF c.kind = "post" THEN c.slug ELSE @]
  /\ UNCHANGED <<store, at, attached>>

-----------------------------------------------------------------------------
(* getRepresentation: the metadata, then the data or the children.         *)

getMetadata(c) ==
  /\ pc[c] = "find" /\ c.kind = "get"
  /\ pc' = [pc EXCEPT ![c] = IF Exists(c.target) THEN "data" ELSE "notFound"]
  /\ UNCHANGED <<store, dest, at, attached>>

getData(c) ==
  /\ pc[c] = "data"
  /\ pc' = [pc EXCEPT ![c] = IF Exists(c.target) THEN "done" ELSE "notFound"]
  /\ UNCHANGED <<store, dest, at, attached>>

-----------------------------------------------------------------------------
(* setRepresentation and addResource: what is there?                       *)

\* The target exists: it is overwritten, or a container to add to.
getNormalizedMetadata(c) ==
  /\ pc[c] = "find" /\ c.kind \in {"put", "post"}
  /\ pc' = [pc EXCEPT ![c] =
       CASE ~Exists(c.target) -> "findTwin"
         [] Exists(c.target) /\ c.kind = "put" -> "write"
         [] Exists(c.target) /\ c.kind = "post" ->
              IF c.target \in Containers THEN "withSlash" ELSE "refused"]
  /\ UNCHANGED <<store, dest, at, attached>>

\* getTwinMetadata, the conflict of setRepresentation overlooked.
getTwinMetadataUnused(c) ==
  /\ pc[c] = "findTwin"
  /\ IF c.kind = "put"
     THEN /\ pc' = [pc EXCEPT ![c] = "climb"]
          /\ at' = [at EXCEPT ![c] = Parent[c.target]]
     ELSE pc' = [pc EXCEPT ![c] = "notFound"] /\ UNCHANGED at
  /\ UNCHANGED <<store, dest, attached>>

\* It does not.  A resource that differs in the trailing slash is a conflict
\* for setRepresentation (403); for addResource it has to be the container.
getTwinMetadata(c) ==
  /\ pc[c] = "findTwin"
  /\ \/ /\ c.kind = "put"
        /\ IF TwinExists(c.target)
           THEN pc' = [pc EXCEPT ![c] = "refused"] /\ UNCHANGED at
           ELSE /\ pc' = [pc EXCEPT ![c] = "climb"]
                /\ at' = [at EXCEPT ![c] = Parent[c.target]]
     \/ /\ c.kind = "post"
        /\ pc' = [pc EXCEPT ![c] =
             CASE ~TwinExists(c.target) -> "notFound"
               [] TwinExists(c.target) /\ c.target \notin Containers -> "withSlash"
               [] TwinExists(c.target) /\ c.target \in Containers -> "refused"]
        /\ UNCHANGED at
  /\ UNCHANGED <<store, dest, attached>>

\* createSafeUri, the slug is taken although it is in use.
createUnsafeUri(c) ==
  /\ pc[c] \in {"withSlash", "withoutSlash"}
  /\ pc' = [pc EXCEPT ![c] = IF pc[c] = "withSlash" THEN "withoutSlash" ELSE "write"]
  /\ UNCHANGED <<store, dest, at, attached>>

\* createSafeUri takes the slug if there is no resource of that name, with
\* or without a slash at the end.
createSafeUri(c) ==
  /\ pc[c] \in {"withSlash", "withoutSlash"}
  /\ LET taken == \E i \in {c.slug, Twin[c.slug]} :
                    Exists(i) /\ (i \in Containers <=> pc[c] = "withSlash")
     IN  /\ dest' = [dest EXCEPT ![c] = IF taken THEN c.uuid ELSE @]
         /\ pc' = [pc EXCEPT ![c] =
              IF ~taken /\ pc[c] = "withSlash" THEN "withoutSlash" ELSE "write"]
  /\ UNCHANGED <<store, at, attached>>

\* The input is not acceptable: a container type without a slash, a container
\* that is not RDF or has containment triples, an invalid ACL document.  All
\* of this is seen before anything is written.
reject(c) ==
  /\ \/ pc[c] = "climb" /\ at[c] = Parent[c.target]
     \/ pc[c] = "write" /\ at[c] = c.target
  /\ pc' = [pc EXCEPT ![c] = "refused"]
  /\ UNCHANGED <<store, dest, at, attached>>

-----------------------------------------------------------------------------
(* createRecursiveContainers looks for the nearest container that exists   *)
(* and then makes the ones below it, down to the parent.                   *)

\* Having k, go on to the container below it on the way to dest, or to dest.
Descend(c, k) ==
  IF k = Parent[dest[c]]
  THEN pc' = [pc EXCEPT ![c] = "write"] /\ at' = [at EXCEPT ![c] = k]
  ELSE /\ pc' = [pc EXCEPT ![c] = "create"]
       /\ at' = [at EXCEPT ![c] =
            CHOOSE j \in Ancestors[dest[c]] \ {Root} : Parent[j] = k]

findContainer(c) ==
  /\ pc[c] = "climb"
  /\ IF Exists(at[c])
     THEN Descend(c, at[c])
     ELSE pc' = [pc EXCEPT ![c] = "climbTwin"] /\ UNCHANGED at
  /\ UNCHANGED <<store, dest, attached>>

\* findContainerTwin, the same container is looked for again.
findContainerAgain(c) ==
  /\ pc[c] = "climbTwin"
  /\ pc' = [pc EXCEPT ![c] = IF TwinExists(at[c]) THEN "refused" ELSE "climb"]
  /\ UNCHANGED <<store, dest, at, attached>>

\* A document in the place of the container is a conflict (403).
findContainerTwin(c) ==
  /\ pc[c] = "climbTwin"
  /\ IF TwinExists(at[c])
     THEN pc' = [pc EXCEPT ![c] = "refused"] /\ UNCHANGED at
     ELSE /\ pc' = [pc EXCEPT ![c] = "climb"]
          /\ at' = [at EXCEPT ![c] = Parent[@]]
  /\ UNCHANGED <<store, dest, attached>>

\* writeContainer, which only replaces the metadata of an existing entry.
createContainer(c) ==
  /\ pc[c] = "create"
  /\ IF ParentExists(at[c])
     THEN Put(at[c], "generated") /\ Descend(c, at[c])
     ELSE pc' = [pc EXCEPT ![c] = "notFound"] /\ UNCHANGED <<store, at>>
  /\ UNCHANGED <<dest, attached>>

-----------------------------------------------------------------------------
(* The accessor call that writes the resource.                             *)

writeContainer(c) ==
  /\ pc[c] = "write" /\ dest[c] \in Containers
  /\ IF ParentExists(dest[c])
     THEN Put(dest[c], c.id) /\ pc' = [pc EXCEPT ![c] = "done"]
     ELSE pc' = [pc EXCEPT ![c] = "notFound"] /\ UNCHANGED store
  /\ UNCHANGED <<dest, at, attached>>

\* writeDocument looks up the parent entry and waits for the data.
writeDocument(c) ==
  /\ pc[c] = "write" /\ dest[c] \notin Containers
  /\ IF ParentExists(dest[c])
     THEN /\ pc' = [pc EXCEPT ![c] = "drain"]
          /\ attached' = [attached EXCEPT ![c] = TRUE]
     ELSE pc' = [pc EXCEPT ![c] = "notFound"] /\ UNCHANGED attached
  /\ UNCHANGED <<store, dest, at>>

\* documentWritten, under the path instead of in the parent entry.
documentWrittenByPath(c) ==
  /\ pc[c] = "drain"
  /\ Put(dest[c], c.id)
  /\ pc' = [pc EXCEPT ![c] = "done"]
  /\ attached' = [attached EXCEPT ![c] = FALSE]
  /\ UNCHANGED <<dest, at>>

\* documentWritten, the identifier stored in place of the data.
identifierWritten(c) ==
  /\ pc[c] = "drain"
  /\ IF attached[c] THEN Put(dest[c], dest[c]) ELSE UNCHANGED store
  /\ pc' = [pc EXCEPT ![c] = "done"]
  /\ attached' = [attached EXCEPT ![c] = FALSE]
  /\ UNCHANGED <<dest, at>>

\* The data is complete.  If the parent was deleted in the meantime, the
\* document is added to an entry that is no longer part of the tree.
documentWritten(c) ==
  /\ pc[c] = "drain"
  /\ IF attached[c] THEN Put(dest[c], c.id) ELSE UNCHANGED store
  /\ pc' = [pc EXCEPT ![c] = "done"]
  /\ attached' = [attached EXCEPT ![c] = FALSE]
  /\ UNCHANGED <<dest, at>>

\* The data stream fails.
dataFails(c) ==
  /\ pc[c] = "drain"
  /\ pc' = [pc EXCEPT ![c] = "failed"]
  /\ attached' = [attached EXCEPT ![c] = FALSE]
  /\ UNCHANGED <<store, dest, at>>

-----------------------------------------------------------------------------
(* deleteResource.                                                         *)

\* The metadata of the target: 404 if it does not exist, 405 for the storage.
findTarget(c) ==
  /\ pc[c] = "find" /\ c.kind = "delete"
  /\ pc' = [pc EXCEPT ![c] =
       CASE ~Exists(c.target) -> "notFound"
         [] Exists(c.target) /\ c.target = Root -> "refused"
         [] Exists(c.target) /\ c.target \in Auxiliaries -> "associated"
         [] Exists(c.target) /\ c.target \in Containers \ {Root} -> "children"
         [] OTHER -> "auxiliaries"]
  /\ UNCHANGED <<store, dest, at, attached>>

\* The access control of the storage is kept too.
findAssociated(c) ==
  /\ pc[c] = "associated"
  /\ pc' = [pc EXCEPT ![c] =
       CASE ~Exists(Associated[c.target]) -> "notFound"
         [] Associated[c.target] = Root -> "refused"
         [] OTHER -> "remove"]
  /\ UNCHANGED <<store, dest, at, attached>>

\* hasProperChildren, the result ignored.
childrenIgnored(c) ==
  /\ pc[c] = "children"
  /\ pc' = [pc EXCEPT ![c] = IF Exists(c.target) THEN "auxiliaries" ELSE "notFound"]
  /\ UNCHANGED <<store, dest, at, attached>>

\* Only empty containers are deleted (409 otherwise).
hasProperChildren(c) ==
  /\ pc[c] = "children"
  /\ pc' = [pc EXCEPT ![c] =
       CASE ~Exists(c.target) -> "notFound"
         [] \E i \in DOMAIN store \ ({Root} \cup Auxiliaries) :
              Parent[i] = c.target -> "refused"
         [] OTHER -> "auxiliaries"]
  /\ UNCHANGED <<store, dest, at, attached>>

AuxiliariesOf(i) == {a \in Auxiliaries : Associated[a] = i}

\* safelyDeleteAuxiliaryResources, a 404 is thrown.
deleteAuxiliaryResources(c) ==
  /\ pc[c] = "auxiliaries"
  /\ Remove(AuxiliariesOf(c.target))
  /\ pc' = [pc EXCEPT ![c] = IF AuxiliariesOf(c.target) \subseteq DOMAIN store
                             THEN "remove" ELSE "notFound"]
  /\ UNCHANGED <<dest, at>>

\* The ones that do not exist are passed over.
safelyDeleteAuxiliaryResources(c) ==
  /\ pc[c] = "auxiliaries"
  /\ Remove(AuxiliariesOf(c.target))
  /\ pc' = [pc EXCEPT ![c] = "remove"]
  /\ UNCHANGED <<dest, at>>

removeTarget(c) ==
  /\ pc[c] = "remove"
  /\ IF Exists(c.target)
     THEN Remove({c.target}) /\ pc' = [pc EXCEPT ![c] = "done"]
     ELSE pc' = [pc EXCEPT ![c] = "notFound"] /\ UNCHANGED <<store, attached>>
  /\ UNCHANGED <<dest, at>>

-----------------------------------------------------------------------------
\* The steps that a call goes on to take by itself.
Step(c) ==
  \/ getMetadata(c) \/ getData(c)
  \/ getNormalizedMetadata(c) \/ getTwinMetadata(c) \/ createSafeUri(c)
  \/ findContainer(c) \/ findContainerTwin(c) \/ createContainer(c)
  \/ writeContainer(c) \/ writeDocument(c) \/ documentWritten(c)
  \/ findTarget(c) \/ findAssociated(c) \/ hasProperChildren(c)
  \/ safelyDeleteAuxiliaryResources(c) \/ removeTarget(c)

\* The history goes on until the call has its outcome.
Remember ==
  stable' = [c \in Calls |->
               CASE pc'[c] = "idle" -> DOMAIN store'
                 [] pc'[c] \in Outcomes -> {}
                 [] OTHER -> stable[c] \cap DOMAIN store']

Next == /\ \E c \in Calls : begin(c) \/ reject(c) \/ dataFails(c) \/ Step(c)
        /\ Remember

Spec == Init /\ [][Next]_vars

\* The event loop goes on, with whatever call, as long as one of them can;
\* the data of a document ends or fails.
FairSpec == Spec /\ WF_vars((\E c \in Calls : Step(c)) /\ Remember)

-----------------------------------------------------------------------------
(* Properties.                                                             *)

TypeOK ==
  /\ DOMAIN store \subseteq Identifiers
  /\ \A i \in DOMAIN store :
       store[i] \in {"initial", "generated"} \cup {c.id : c \in Calls}
  /\ pc \in [Calls -> Pcs]
  /\ dest \in [Calls -> Identifiers]
  /\ at \in [Calls -> Identifiers]
  /\ attached \in [Calls -> BOOLEAN]
  /\ stable \in [Calls -> SUBSET Identifiers]

\* The call made the step.
Did(c) == pc'[c] # pc[c] \/ at'[c] # at[c]

\* What was there throughout the call and still is.
Untouched(c) == stable[c] \cap DOMAIN store

\* Whatever is written, deleted and created at the same time, a resource
\* that exists can be reached: all containers above it exist, and so does
\* the storage.
TreeIsClosed ==
  /\ Root \in DOMAIN store
  /\ \A i \in DOMAIN store : Ancestors[i] \subseteq DOMAIN store

\* A resource is never created next to one that differs in the trailing
\* slash only and that existed throughout the call.
SlashesAreRespected ==
  [][\A c \in Calls : Did(c) =>
       \A i \in DOMAIN store' \ DOMAIN store :
         i \in DOMAIN Twin => Twin[i] \notin Untouched(c)]_vars

\* setRepresentation changes no resource that existed throughout the call
\* but its target, and addResource changes none at all: neither the URI made
\* from a slug nor a parent container is one that already exists.
WritesSpareOthers ==
  [][\A c \in Calls : Did(c) /\ c.kind \in {"put", "post"} =>
       \A i \in Untouched(c) :
         \/ i \in DOMAIN store' /\ store'[i] = store[i]
         \/ i = c.target /\ c.kind = "put"]_vars

\* deleteResource deletes nothing that existed throughout the call but its
\* target, the auxiliary resources of its target and, in a container, those of
\* resources that are not there.
DeletesSpareOthers ==
  [][\A c \in Calls : Did(c) /\ c.kind = "delete" =>
       Untouched(c) \ DOMAIN store'
         \subseteq {c.target} \cup AuxiliariesOf(c.target)
                  \cup {a \in Auxiliaries : /\ Parent[a] = c.target
                                           /\ Associated[a] \notin Untouched(c)}]_vars

\* A 404 is the truth: the target, or for setRepresentation the parent it
\* found or made, did not exist throughout the call.
NotFoundIsTrue ==
  [][\A c \in Calls : Did(c) /\ pc'[c] = "notFound" =>
       IF c.kind = "put" THEN Ancestors[c.target] \ Untouched(c) # {}
       ELSE {c.target, getLockIdentifier(c.target)} \ Untouched(c) # {}]_vars

\* A document that was written successfully is there, with its data, unless
\* a container above it was deleted or first made during the call.
WritesAreKept ==
  [][\A c \in Calls : Did(c) /\ pc[c] = "drain" /\ pc'[c] = "done" =>
       \/ dest[c] \in DOMAIN store' /\ store'[dest[c]] = c.id
       \/ Ancestors[dest[c]] \ Untouched(c) # {}]_vars

\* When a resource is about to be deleted, its access control is gone and
\* nobody is making it anew: the lock they share sees to that.
AuxiliariesGoFirst ==
  \A c \in Calls : pc[c] = "remove" =>
    /\ DOMAIN store \cap AuxiliariesOf(c.target) = {}
    /\ \A d \in Calls \ {c} :
         pc[d] = "drain" => dest[d] \notin AuxiliariesOf(c.target)

\* Every call of the store comes to an end: the climb to the nearest
\* container stops although containers come and go.
CallsReturn == []<>(\A c \in Calls : ~Running(c))

-----------------------------------------------------------------------------
(* What comments promise and the code keeps only for a call that runs      *)
(* alone.                                                                  *)

\* "If two URIs differ only in the trailing slash, and the server has
\* associated a resource with one of them, then the other URI MUST NOT
\* correspond to another resource" (getNormalizedMetadata).
SlashesAreUnique ==
  \A i \in DOMAIN store : ~TwinExists(i)

\* The URI of addResource "is guaranteed to not exist yet" (createSafeUri).
NewUrisAreNew ==
  [][\A c \in Calls : c.kind = "post" /\ pc[c] \in {"write", "drain"} /\ Did(c)
       => \A i \in DOMAIN store : store'[i] = store[i]]_vars

\* "If the container contains resources, the server MUST respond with the
\* 409 status code" (deleteResource).
DeletedContainersAreEmpty ==
  [][\A c \in Calls : c.kind = "delete" /\ pc'[c] = "done" /\ Did(c)
       => \A i \in DOMAIN store \ ({c.target} \cup Auxiliaries) :
            i \in DOMAIN store']_vars
=============================================================================
