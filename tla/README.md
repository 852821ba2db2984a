# A verification of the Community Solid Server

TLA+ models of the server in `src/`, model-checked with TLC, with theorems
checked by TLAPS. `PROJECT.json` holds the list of runs, the map from every
definition to the lines it models, the mutants that show each property can
fail, the hazards of the code and the theorems.

## 1. The system

The server runs in one Node.js thread: what runs between two `await`s runs
alone, everything else may be interleaved with other requests. A request goes
through `AuthenticatedLdpHandler` (credentials, permissions, authorization,
operation) to a stack of resource stores; by default

    MonitoringStore -> LockingResourceStore -> PatchingStore
      -> RepresentationConvertingStore -> DataAccessorBasedStore -> a DataAccessor

| Component | State | Operations | Interacts with | Hard, and what makes it correct |
|---|---|---|---|---|
| `GreedyReadWriteLocker`, `SingleThreadedResourceLocker` | per identifier: a stored count of readers, two locks with their waiting calls | `withReadLock`, `withWriteLock` | the count storage, `async-lock` | the count is changed across awaits, the write lock changes hands between readers: mutual exclusion, exact count, no deadlock, everybody served |
| `WrappedExpiringReadWriteLocker`, `LockingResourceStore` | per call: timer, race, source stream | the methods of a store | the locker, the wrapped store, the client that reads the stream | a timeout races the operation, which cannot be stopped; streams outlive the call: overlap only after expiry, every lock is given back, streams are read under the lock |
| `DataAccessorBasedStore`, `InMemoryDataAccessor` | a tree of containers, documents and their metadata | get, set, add, delete | accessor, identifier and auxiliary strategies | only the target is locked, but parents, children, twins and auxiliary resources are looked at and changed, one accessor call at a time |
| `FileDataAccessor`, `ExtensionBasedMapper` | files, directories, `.meta` files | the accessor's methods | file system | several file operations per call, each may fail or be the last before a crash: what was acknowledged stays, deletes leave nothing behind, readers and listings get what was there |
| `RedisResourceLocker` | a map of locks with their extension timers | acquire, release, the timer | Redis | an extension races the release; a lock may be lost |
| `MonitoringStore`, `UnsecureWebSocketsProtocol` | subscriptions per socket | subscribe, changed, close | stores, sockets | subscribing and leaving race the changes: who was subscribed is told |
| `WrappedExpiringStorage`, `JsonFileStorage`, `JsonResourceStorage` | entries with expiry dates | get, set, delete, clean-up | the wrapped storage, a locker | expired entries are deleted after an await; a file is rewritten in place |
| `ExpiringAdapterFactory`, `IdentityProviderFactory` | OIDC payloads, lists of keys per grant, the provider and its keys | upsert, find, consume, destroy, revoke; getProvider | expiring storage | read-change-write of the list: a revoked grant is gone; one set of keys |
| `BaseAccountStore`, `RegistrationHandler`, `ResetPasswordHandler`, `TokenOwnershipValidator` | accounts, reset records, ownership tokens | register, login, forgot, reset | pods, storages | check, await, then store; clean-up after a failure: accounts that can be used are complete, secrets work once |
| `GeneratedPodManager`, `ConfigPodManager`, `ConfigPodInitializer` | pods, their configurations, the routes to their stores | create, initialize, route | stores | check, then create in many steps; restarts: an acknowledged pod is found again |
| `WebAclAuthorizer`, credentials and permissions extractors | none | the walk up to the applicable ACL | the store | the ACLs change during the walk: rights were in force at one moment |
| `ChainedConverter` and the waterfall it is in | cached chains | canHandle, handle | all requests, by the cache | searches overlap: an acceptable type, the best chain |
| `AuthenticatedLdpHandler`, parsers, writers, error handlers | none | handle | all of the above | the order of steps and the way of an error |
| `GuardedStream`, server, logging, start-up | stored errors | - | - | I/O and wiring |

`PROJECT.json` lists every component with its status, and the hazards at the
line where they bite.

## 2. The modules

| Module | Models | Uses |
|---|---|---|
| `ReadWriteLock` | what a `ReadWriteLocker` promises for one identifier: readers together or one writer | - |
| `GreedyReadWriteLocker` | the default locker over the in-memory resource locker, one step per stretch between awaits | `ReadWriteLock` (implements it) |
| `GreedyReadWriteLocker_proofs` | the theorems about it | `GreedyReadWriteLocker` |
| `LockingResourceStore` | the store calls, the expiring promise and the streams | one `ReadWriteLock` per identifier |
| `LockingResourceStore_proofs` | the theorems about it | `LockingResourceStore` |
| `DataAccessorBasedStore` | the store's methods, one accessor call per step, behind the locks, over the in-memory accessor | - |
| `DataAccessorBasedStore_proofs` | the theorems about it | `DataAccessorBasedStore` |
| `FileDataAccessor` | the accessor's methods, one operation of the file system per step, with failing writes and crashes | - |
| `FileDataAccessor_proofs` | the theorems about it | `FileDataAccessor` |
| `Interaction` | calls that are interleaved at awaits, restarts, key-value storages | - |
| `Pods` | the pod managers, the pod configurations, the start of the server | `Interaction` |
| `Accounts` | registration, login, forgotten passwords, ownership tokens | `Pods` |
| `ProviderStorage` | expiring storage, OIDC adapter, the provider and its keys | `Interaction` |
| `Identity` | `Accounts`, `Pods` and `ProviderStorage` in one server that crashes and restarts; the history and the properties | both |
| `Identity_proofs`, `Accounts_proofs` | the theorems about it: steps, overlaps, keys, secrets and revocation; accounts and pods, which rest on these | `Identity` |
| `Negotiation` | Accept headers to preferences, types against preferences | - |
| `Conversion` | the waterfall of converters, the search for a chain and its cache | `Negotiation` |
| `Conversion_proofs` | lemmas about what conversions compute: folds, the search for a chain, replacements, the cache | `Conversion` |
| `Authorization` | credentials, required modes, the walk to the list that counts | `Conversion` |
| `Notifications` | WebSocket subscriptions and messages | `Authorization` |
| `Requests` | requests from parsing to answer, composing the four above with a store; the history and the properties | `Notifications` |
| `Requests_proofs` | the theorems about it: rights, subscribers, types of answers, refusals, locks and patches | `Requests`, `Conversion_proofs` |
| `MC...` | the small instances | |

**From the locker to the locking store.** `GreedyReadWriteLocker` is shown (by
TLC and by proof) to implement `ReadWriteLock`, under the mapping `Phase`.
`LockingResourceStore` is built on `ReadWriteLock`, so what holds for it holds
over any locker that implements the promise. `DataAccessorBasedStore` takes
from the locking store that calls with the same lock identifier do not overlap
unless both read (the guard of `begin`), that is, it describes the time in
which no lock expires; `LockingResourceStore` describes what expiry does to
that assumption.

### GreedyReadWriteLocker

`pc[r]` is the await at which the call `r` is. `count` is the stored entry (0
when there is none), `number` and `mod` are the local variables of
`incrementCount`. `locked[k]` says whether `unlockCallbacks` has an entry for
the key `k`; `queue[k]` is the queue of async-lock, whose `done` runs the
completion callback (which deletes the entry) and then starts the next waiting
acquire (which stores its own): one step, `release`. The two keys are
different for different identifiers, so one identifier is modelled.
async-lock is not part of the repository: its first-in-first-out order is taken
as what the code relies on. Its limit on pending calls is not modelled, nor is the
`ForbiddenHttpError` for identifiers that end in the suffix of the counts, which comes
before any lock is taken.

### LockingResourceStore

A call goes `waitRead`/`waitWrite` -> `reading`/`writing` -> `idle` in the lock;
`work` says where `whileLocked` is, which may go on after the lock was lost;
`outcome` is how the race of the timer and `whileLocked` ended, between the
release of the lock and the moment the locker's promise settles (`return`);
there the stream of a timed-out representation is destroyed. `reply` is what
the caller was told. In that gap the stream is still open though the lock is
free, which is why `ReadableStreamsAreLocked` and `ExpiredCallsFail` have an
exception for it. The kinds of calls are those that differ in this layer:
`exists` and `get` (read lock, without and with a stream) and `write`.

### DataAccessorBasedStore

`store` maps the resources that exist to who wrote them. The accessor's methods
have no awaits except `writeDocument`, which holds the parent's entry while it
reads the data; `attached` says whether that entry is still in the tree.
`dest` is the resource a call writes, `at` the container at which
`createRecursiveContainers` is, first on the way up and then on the way down.
Rejections of bad input have one action, `reject`, as they happen before
anything is written. An auxiliary resource that cannot be deleted is one that is missing,
the only reason there is in this accessor. `stable` is a history variable: the resources that have
existed ever since the call began. With it the promises of the code can be
stated for overlapping requests: what was there all along is respected,
whatever else goes on.

### FileDataAccessor

`fs` maps the paths in use to nodes: a directory, or a file with the calls whose
bytes are in it (`by`) and whether it is complete (`whole`). A path is a name
and a form: `plain`, `meta`, `dirMeta` or an extension, which is what the mapper
makes of an identifier and a content type; characters are left out. The
identifiers that end in `.meta` are those of `MetaPath`, which says which file each one is:
`writeDocument` refuses them (`refuseMetadata`), but the other methods take the metadata file
of `x` for a document, or a container, `x.meta` (`statFile`, `deleteFile`, `readFile`,
`makeContainer`), under a lock that is not that of `x`. What is stored in such a container, and
its own metadata, is left out. An `lstat` below a file fails (`Missing`: `ENOTDIR` is no
404). The entries of a directory are read as one snapshot with their kinds, where the code
iterates, so that what comes or goes during the iteration itself is not told apart from what came or
went before it. `pc` is the operation of the
file system that a call does next. Opening a file for writing empties it and
closing completes it, so that a crash or a reader may come in between; two calls
may have one file open. `Lock` and the guard of `begin` are the write lock of
the store: `POST` writes a new resource under the lock of the container and
`createRecursiveContainers` makes containers under the lock of a descendant, so
files of one name are changed under different locks. `Above` is how far a
recursive `mkdir` goes up. The history: `acked` (who
wrote what is acknowledged and has not been touched since), `overlapped` (names
that two calls under different locks used together, one of them to change a
document; the deletion of a container of the same name counts as such a use), `torn` (names of which
a change was cut off, and at which step), `stripped` (names of which a request for the
metadata file itself changed it, until the next write is past its metadata), `always`/`ever` (children there
throughout/at some moment of a listing). The exceptions in the properties are
in terms of these, so that each says exactly when the promise is off.

### Identity

A workload is a set of calls that are made together, each a program whose `pc`
is the await it is at; a crash ends all of them and clears what is only in
memory (routes, the provider, folders being generated), and `readConfig`,
`initialize`, `listen` start the server again. In `Pods`, `contents` has the
resources of a pod with the call that made them, `config` the JSON file and
`torn` whether it is half written (the server then does not start: phase
`down`); the generator takes the folders of a template apart as `parseFolder`
does, in the order of a stack. In `Accounts`, hashing is the await between
`create` and `created`; a token is named after the call that it was made for.
In `ProviderStorage` a value is a set of names and the time of expiry is the
upsert that set it: all that one upsert stores expires in one step (`expire`). `left`
holds the operations that a `Promise.all` has started. findByUserCode is
findByUid on another key and is not repeated. A value that has expired is refused by
`WrappedExpiringStorage.set`, so an upsert of which the time has come ends
in a failure (`Upserted`). `overlapping` is the history of
the addresses, pods and grants about which two calls were under way together:
the code reads and stores these without a lock, so the properties except them,
and hold for everything else, through every crash.

### Requests

A scenario is a setting of the server (converters, cache size, extractors,
replacements, constant converter) with a store, requests and WebSocket clients.
Headers are sequences of lexemes, so that what a malformed header leads to is
modelled without characters; weights are multiples of 1/4096, exact for the
weights used, with products rounded up, as none of the code's is zero, and `Tolerance` stands for the 0.01 of `removeBadPaths`.
`ChainedConverter` looks for a path twice per conversion (`canHandle`, then
`handle`), three times when an error is converted, as the waterfall asks once
more; `search` is a separate step, as it awaits the converters' types while others change
the cache. The walk reads one list per step. A call of the store is one step
(`DataAccessorBasedStore` has the steps inside of it), but a PATCH takes its lock,
converts to quads, patches, converts back and writes in steps of its own. The
answer is given after the changes were announced (`emit`).

Abstractions of this module, beside those named at the definitions: the read
lock of a GET is not held during its conversion (the representation is in
memory by then); a list is read as the authorizations in it, its conversion to
quads is not a step of the walk, and errors of it or of the read other than a 404, which the
walk passes on, are left out; of URLs, the parser knows whether the path can be decoded and
whether host and protocol make a URL (`ValidUrl`): if not, that is no HTTP error and answered with 500, unless the check of the
host that comes first refused it; of two reasons for a 400 the order does not
matter, as both are answered alike; that the data of a patched resource cannot be parsed, or the query on it fails, is left out; a range that is repeated in Accept keeps
one weight; identifiers that differ in a trailing slash are in
`DataAccessorBasedStore` only; all resources outside of the server are one,
`elsewhere`; the algebra of an update is a sequence of the kinds of its parts.
What the code announces is kept as it is: the container is not among the
changed resources of a DELETE, nor the container of the topmost container that
is made on the way to a new resource, nor the lists of missing resources that
go with a deleted container, as they do in memory (over the file system
such a container cannot be deleted). An update without effect needs no rights,
as in the code, and is refused inside of a sequence of updates.

## 3. The runs

| Run | Instance | Shows |
|---|---|---|
| `greedy_locker` | 3 callers, each reads or writes again and again; 11,508 states | the type invariant, the parts of the inductive invariant, mutual exclusion, no trapped reader, service of readers and writers, the implementation of `ReadWriteLock` |
| `locking_store` | any 3 of 5 calls on a document and its ACL, 2 chunks per stream; 133,250 states | overlap only after expiry, no lock without a timer, streams under the lock, no success after expiry, release of every lock |
| `data_accessor_store` | any 3 of 11 requests on the tree below `/a/`, with and without `/a/` at the start; 93,589 states | the tree is closed, existing resources are respected, 404s are true, writes are kept, ACLs go first, calls return |
| `file_accessor` | any 3 of 16 calls on `/`, `a`, `a/x` and `a/x.meta`, from 3 file systems, 1 crash; 362,142 states | acknowledged documents are kept, deletes and failed data leave no metadata behind, readers get one write, listings are true |
| `identity` | 13 workloads of 3 or 4 calls, 2 pods, 3 WebIDs, 1 restart; 567,499 states | accounts that can be used are complete, secrets work once, pods are found again, revocation is complete, keys are kept |
| `requests` | 30 scenarios of 1 to 4 requests and up to 3 sockets; 115,527 states | rights were in force, answers are of acceptable types, subscribers are told |
| `operations_are_atomic` | as `locking_store` | a violation: after expiry operations overlap |
| `timed_out_streams` | as `locking_store` | a violation: a stream that arrives after the timeout stays open |
| `slashes_are_unique` | as `data_accessor_store` | a violation: `/a` and `/a/` both exist |
| `new_uris_are_new` | as `data_accessor_store` | a violation: a POST overwrites |
| `deleted_containers_are_empty` | as `data_accessor_store` | a violation: a container goes with a new child |
| `chains_are_best` | one scenario with two converters to JSON; 193 states until then | a violation: the worse of two paths is taken |

**Why the bounds are enough.** Three callers give the locker a holder, a waiting
reader and a waiting writer, or a first, a middle and a last reader; the
theorems cover any finite number. In the locking store three calls give a
holder whose lock expires, the next holder, and a third one that waits or
reads; two chunks make a read that is not the last. In the data store three
calls are enough for a check, an interference and a repair (delete a container,
make it again, finish writing to it); the tree has a container that is two
levels deep, so that containers are created one after the other, documents in
the place of containers and an ACL at both levels. `MaxCalls` bounds the calls that
are made (each at most once), `Chunks` the reads of a stream.

The file accessor has three calls and a crash because every exception takes a
cut-off change, a change after it and a reader or a container's deletion; a name
in a container, with a container or a document above it, has all forms of path.
The workloads of `identity` are the sets of calls that share something: an
address, a pod name, a WebID, a link, a grant, the provider; each has two calls
that may interfere and one that sees the result, and one restart separates what
came before from what is kept. The folder inside of the template makes the
generator stack two folders. The scenarios of `requests` have, per feature, one
that is accepted and one that fails in each way the code distinguishes; the
shared cache has room for none, one or two paths, so that every search
may evict the path of another; lists are at three levels above and at the
resource, and change during the walk; there are chains of one and of more converters.

`CHECK_DEADLOCK FALSE` is set in these three and in the two stores, where all calls have returned
in the end; the locker's callers come back, so there deadlock is checked.

**Fairness.** `GreedyReadWriteLocker`: weak fairness of every step of a call that
was made: awaits are settled, and `whileLocked` ends because the expiring
locker around it ends it; nobody is obliged to call, so weak fairness on
`withReadLock` and `withWriteLock` is not assumed. `LockingResourceStore`: the
lock is granted when it is free, the timer fires when nothing else ends the
race, the end of a stream is noticed, the locker passes its outcome on; the
wrapped store may hang and the client may stop reading. That a free lock is
granted is weaker than what the locker does only for a writer among readers
that keep coming: with finitely many calls there are none.
`DataAccessorBasedStore`: the event loop goes on as long as some call can take
a step. The three later runs state safety only: whether a request of theirs is
answered depends on clients, mails, the OIDC library and the disk, of which
nothing can be assumed, and they need no fairness.

## 4. The theorems

`GreedyReadWriteLocker_proofs` proves, for every finite set `Requests`
(`RequestsAssumption`, without which a cardinality means nothing):

* `IInvHolds`: `IInv` is an invariant. Mutual exclusion alone is not
  inductive: it depends on who owns the write lock, which depends on the count,
  which depends on the internal lock having one owner. `IInv` says all of this:
  types, the count as a cardinality (`CountIsExact`), locks as owned
  (`LocksHaveOwners`), owners as exclusive (`OwnersAreExclusive`), and
  the queues holding just the waiting calls (`QueuesHoldTheWaiting`), which is
  needed to know where a call goes on when a release wakes it.
* Each part of `IInv` that a run checks, `MutualExclusionHolds` and
  `NoReaderIsTrappedHolds` follow.
* `Refinement`: `Spec => ImplementsReadWriteLock`. Each step of the locker maps
  to the step of the abstract lock in which the caller's phase changes, or to a
  stutter; a release that wakes a writer maps to the start of the writer, which
  needs `IInv` to know that nobody else is active.

The argument goes by the effect of an acquire and a release on program
counters, locks and queues (`AcquireEffect`, `ReleaseEffect`,
`AcquireKeepsQueues`, `ReleaseKeepsQueues`), by what a step does to the
cardinality (`CountKept`, `CountRaised`, `CountLowered`), then by one lemma per
action.

`LockingResourceStore_proofs` proves, for any finite set of calls on any
resources, `TypeOK`, `HeldLocksCanExpire`, `OverlapOnlyAfterExpiry`,
`ReadableStreamsAreLocked` and the action property `ExpiredCallsFail`. The
invariant `IInv` says of one call how its lock, its work, its timer, its stream
and its answer go together (`CallIsConsistent`), and of two calls that a writer
is alone (`LocksAreExclusive`): that operations overlap only after expiry is not
inductive, since it does not say who has the lock. The proof goes by what a
grant, a release and a read of the stream do to these.

`DataAccessorBasedStore_proofs` proves, for any tree of identifiers and any
finite set of requests, `TypeOK`, `TreeIsClosed`, `AuxiliariesGoFirst` and the five
action properties `SlashesAreRespected`, `WritesSpareOthers`,
`DeletesSpareOthers`, `NotFoundIsTrue` and `WritesAreKept`. `IInv` says at each
step of a request what it knows: the resources it has looked for and not found
were not there throughout the call (`PutIsNew`, `PostIsNew`, `DeleteIsSafe`),
whatever others have done since, and the parent entry that `writeDocument` keeps
is the one in the tree or was deleted meanwhile (`EntryIsKnown`). The
assumptions describe the identifiers: `TreeAssumption` and `ChainAssumption`
that containers form a tree, that a slash twin has the same parent and that auxiliary
resources are beside or in what they belong to; `CallsAssumption` that a URI
made from a slug lies in the container, and that the initial tree is closed;
`UuidAssumption` that nobody else uses a random name.

`Identity_proofs` proves, for any calls, workloads, templates and numbers of
restarts, `KeysAreKept` and `SecretsWorkOnce`. `IInv` holds which call can be at which step
(`StepsAreRight`), that what two running calls both change is in the history
(`OverlapsAreKnown`), what a call for the provider has read of the keys
(`KeysInv`), and where links and tokens can still be (`SecretsInv`): a token
that was used is stored nowhere, a link whose record is gone is known to nobody
who began later. `CallsAssumption` keeps calls apart from the names for no
call.

From there it goes on to `RevocationIsComplete`. For a grant that
is neither in `overlapping` nor in `lapsed`, `RevocationInv` says what each of
its calls knows (`UpsertKnows`, `ConsumeKnows`, `RevokeKnows`) and that its list
has all of its payloads unless it is being revoked (`ListIsComplete`). Calls of
other grants, clean-ups, crashes and the clock leave that as it is
(`GrantWaits`, `OthersKeepGrant`), and a call of the grant itself runs alone
(`Alone`). `GrantsAssumption` says that a revocation names a grant and that the payload of
an id has one grant, as the OIDC library makes both up together.

`Accounts_proofs` proves the other three invariants of `Identity`: `TypeOK`,
`PodsAreFound` and `UsableAccountsAreComplete`, for any template, any calls and any number of restarts.
`AInv`, which TLC also found to hold on the run's instance, has four parts.

* `PodsInv`. Of a pod that is being made, each resource of the template is made,
  or one of the folders down to it (`Path`) is still to be made in a folder that is open
  (`PodIsRight`). `ParseFolderEffect` shows what one step of the traversal does to the stack
  of open folders; when the stack is empty nothing is left to be made, so that the pod
  is whole. `ServerIsRight` says that the routes have every acknowledged
  pod once the server is up: while it starts, every stored configuration is
  in the routes or still to be initialized. What runs at the same time does not
  matter here, as each call for a pod stores the resources of the same template.
* `PodsAreOwn`. Of a pod that is not in the history of overlaps, all resources are
  of the one call that makes it, and there were none when it began.
* `AccountsInv`. `AddressIsRight(e)` says of an address that is not in that history what the
  call about it that is running knows of its account (`RegisterKnows`, `ResetKnows`), and that
  an account that can be logged in to is of a registration that made its pod
  (`AccountIsOf`). Calls about other addresses leave that as it is
  (`AddressWaits`), a call about the address itself is alone (`AddressChanges`).
* `StorageTypes`, the types of the storage of the provider.

The assumptions: `TemplateAssumption` says that the folders of the template form a tree
and that what describes a folder lies inside of it, as in any file system;
`InputsAssumption` that a pod name and the WebID of a registration have an identifier, and that the
configurations stored at the start are stored under their own URL, as
`addToRouting` stores them.

`FileDataAccessor_proofs` proves all five properties of the run `file_accessor`
(`TypeOK`, `AcknowledgedIsKept`, `OnlyWritesLeaveOrphans` and the action properties
`ReadsAreOfOneWrite` and `ListingsAreTrue`), for any tree of names, any calls
with any locks, any number of crashes and any consistent file systems at the
start. The calls include those for `x.meta` and `x.meta/`, at any time; what they can do is in `stripped`, and is
the exception that the first and the fourth property make for metadata, not for data. Beside types and directories, `IInv` has three parts. `OverlapsAreSeen`:
two calls that use a document together are in the history, so that for a name outside of
it a call that changes the document runs alone. `Document(n)`, for such a name: it has one file
(`OneFile`), metadata without data belongs to a write that is under way or was
cut off (`OrphanIsOfWrite`), data and metadata are of one write while no
change is under way and the metadata is not `stripped` (`QuietIsConsistent`), what was acknowledged is there
(`AckedIsThere`), and each running call knows the right file and what it has
done to it (`WriteKnows`, `DeleteKnows`, `GetKnows`). `ListingKnows`, for any name: the entries that a listing has
still to look at are there or went away since (`EntryIsRight`).
The proof first reduces each action to its effect on calls, files and
history (`CallSteps`, `FileEffect`, `HistoryIs`); a step leaves the files of
other documents as they are (`OthersKeepFiles`, `OthersKeepKnowledge`), which leaves one lemma per
action for the document it is about (`OwnUnlinkOld` ... `OwnRemove`).
`TreeAssumption` says that going up from a name ends at the root,
`InitialAssumption` that a document of the start has one file, with metadata,
in a directory.

`Requests_proofs` proves the four invariants of the run `requests`,
`GrantsWereEffective`, `SubscribersHearOfChanges`, `TypeOK` and
`AnswersAreAcceptable`, for any settings of the
server, any tree of paths, any resources and lists in it, and any requests and
sockets. For the first two, `RInv`, which TLC also found to hold on the run's instance, has four parts.

* `Shapes`: the records have their fields, a conversion goes on with a step that waits
  for one, and a request that was granted its rights is about a resource of the server.
* `StoreIsTree`: every resource, and every list, is below containers that exist. Without it a
  container could be made, or a list be found, where the proof does not look.
* `GrantsInv`. What a walk will find from where it is, `RightsFrom`, is already among the
  rights that were in force (`WalkKnows`), though the lists it has passed may be others
  by now. The argument is the one the code needs: until lists change the walk has
  passed none (`RightsAbove`). When one is changed, either it is one that was
  passed, and the walk goes on to what was in force before; or it is one ahead, or lists
  were only removed, and the walk goes on to what is in force now
  (`WalkGoesOn`, `ListsChangeOnce`). A second change may do both, which is why the property stops there.
* `TellingInv`: what subscribers have still to hear of is among the changes that the request is about to
  announce (`Announces`), and they stay subscribed until they go
  (`ListenersGrow`).

The proof first reduces the steps to their effect: those after the walk change
nothing of what was granted (`Later`), those that write keep the tree, announce
what they alter and change one list or remove some (`WriteDataEffect`,
`AddEffect`, `DeleteEffect`). `PathsAssumption` says that the containers form a
tree: a path is not above itself, and of paths on the way up from one path one is
the lowest, as paths are finite. `ScenariosAssumption` says
that at the start every resource is in a container, that requests are about
paths, and that what is stored and sent is of types that are pairs.

The types rest on `TypesInv`, which TLC checked as an invariant of the same
instance: what is stored and converted is of a type that the settings, the
requests or the resources know (`Types`), what a request converts for is what
its headers ask for (`Wanted`), the result of a conversion suits that, or there is
none (`JobIsRight`), and every path in the cache is one that the search may have
found: not empty, without a converter twice, with outputs that are known
(`ChainPaths`). That the cache is shared matters here: a request that finds a path of
another one matches it anew against its own preferences
(`MatchedPathFacts`), so that no step of another request has to be ruled out.
`SuitsIsAcceptable` then connects what the code compares, the weights of three
ranges in a map, with what the property says, the most specific of the
ranges of the header (`MostSpecific`). When several ranges are the same the least of their
weights counts (`PreferenceFacts`).

That refusals are right, the second half of `AnswersAreAcceptable`, rests on
`RefusalsInv`, checked by TLC as well: a request looks for converters only
for a type that does not suit it; when its conversion ends without one, no
chain of converters leads to a type that suits (`Misses`); an error is what is
converted for an answer that tells of one; and what was refused stays
refused. The argument is in `SearchIsComplete`. The search is a loop over
paths that never use a converter twice, while `Reachable` adds, as often
as there are converters, the types that any converter makes of those that are there. By
the round in which a converter first takes one of the types that are there
the search has a path that ends with it: that of the converter that made the
type, which came one round before, and so is not on its own path yet. As long
as nothing was found no path is dropped (`RemoveFacts`), so that all of these paths are looked at, and
nothing that they make suits. A converter that takes a type passes it on with a weight
above zero (`PositiveTimes`), which is where weights matter at all. A request that finds
nothing in the cache makes this search on its own, whatever others have cached.

What conversions compute comes out of folds (the best preference, the longer
paths of a search, the paths that are dropped, the map of replacements). The
lemmas about them, in `Conversion_proofs`, take no induction theorem: a set of
numbers that is not empty has a least one (`LeastNumber`), by which a fold has a
value (`FoldExists`), and what its first value has and each step keeps, its last
value has (`FoldKeeps`). `WeightsAssumption` says that weights are natural numbers of which
`One` is not zero, `SetupsAssumption` that what is configured, converters, their
outputs and replacements, comes in sequences, of types that exist, and that a converter lists
a type with a weight above zero, as all of those in `src` do.

The locks rest on `LocksInv`: each lock that is held is that of one patch
between its first and its last step, and each such patch has the lock of its
target. A step takes one, gives one back or keeps all of them as they are (`LockTaken`,
`LockGiven`, `LockKept`). `PatchesAreAloneHolds` is the action property that
this is for: from its first read to its write nobody else writes or deletes the
resource of a patch or its list, and neither does the patch itself before. The
case that needs an argument is the lists that go with a container: the container
of a resource that exists is not empty, so that it is not deleted. It is checked by no run of
its own; TLC found it to hold on the instance of `requests`, and to be violated when a
patch takes no lock or a delete does not wait for one.

What the proofs found. `DeletesSpareOthers` was first stated without the
auxiliary resources that have lost their resource; deleting a container deletes
those, too (`DataAccessorBasedStore.ts:228`). `RevocationIsComplete` was first
stated with fewer exceptions; TLC confirmed, on workloads that were added for that, that the
clean-up deletes a new list along with the expired one, that a payload that is
consumed comes back without an expiry, and that a revocation cut off by a crash
between the list and the payloads cannot be made up for. `AcknowledgedIsKept`
was first stated without the exception of a container of the same name: a write
finds the directory in the place of its old path, the file that another extension hides stays, and when
the directory has gone there are two files. `ListingsAreTrue` may fail for a
child of which a file was removed while another one stayed, which takes four
calls, more than the run makes. All properties of `FileDataAccessor` were first stated for a model that refused every call on `x.meta`,
where the code refuses only documents that are written: hence `stripped`. And the first attempt to prove the action properties
of `FileDataAccessor` failed since its `vars` lacked `seen`. `StoreIsTree` failed
on a list of a missing resource, which `deleteResource` of `Requests` left behind when
its container went; now it goes with it, as in the code. `GrantsWereEffective` was
first stated as if a refusal always were for lack of a mode; a request that needs no
rights is refused as well when there is no list at all (`WebAclAuthorizer.ts:229`). Both are
scenarios of the run now. `AnswersAreAcceptable` said that a request for another host is
answered in plain text; that is so when it cannot be parsed (`BasicRequestParser`), while one
that is parsed and refused later is told so in a type that it accepts, which is
what the property says now (`CanParse`). In `TypeOK` the types of the resources at
the start, and those that the server writes itself, were missing. Products of
weights were rounded down, so that the product of two small ones was zero and a chain of
converters that the code finds would be none in the model; `Times` rounds up now. When a
range is repeated in a header `Acceptable` took any of them where the code takes the lowest
weight. And two arms of the `CASE` in `removeBadPaths` could be true
at once, which TLC takes in their order but the logic does not.

Only model-checked: the liveness properties (`ReadersAreServed`,
`WritersAreServed`, `LocksAreReleased`, `CallsReturn`), which need fairness and
`ENABLED`, out of the prover's reach, and the six violations, which are about
instances. Every invariant and every other action property of a passing run is a theorem.

## 5. What the code does not keep

Six comments of the code are contradicted by its behaviour (see "findings" in
`PROJECT.json`). Two come from expiring locks: an operation that lost its lock
is not stopped, and a representation that comes after the timeout was handled
is never destroyed. Three come from locking the target only while promising
something about other resources: the uniqueness of URIs up to a trailing slash,
the freshness of a URI made from a slug, and the emptiness of a deleted
container. The passing runs beside them show what remains true: all
of these hold towards everything that existed for the whole duration of the
call. The sixth is sequential: `ChainedConverter.findBest` compares the weight of an
output type alone with a weight that counts the input type, and may so take the
worse of two paths; that the type is acceptable holds all the same
(`AnswersAreAcceptable`).

What the exceptions in the passing runs say of the code is as much a result as
what they leave:

* `FileDataAccessor`: a document may lose its file only
  where requests under different locks overlap, or where a change was cut off by
  a failure or a crash; orphaned metadata comes from crashes and from metadata
  that could not be written, never from deletes.
* The metadata of a document may be lost in one more way, without any overlap or failure: only
  `writeDocument` refuses identifiers that end in `.meta` (`FileDataAccessor.ts:83`), so that a
  `DELETE` of `x.meta` is served and removes the metadata of `x`, whose write was
  acknowledged; a reader then gets the data without it. A `PUT` of `x.meta/` makes a
  directory where there is no metadata; after that reads, writes and deletes of `x` fail with
  `EISDIR` until it is deleted.
* Accounts, pods and grants are read and stored without a lock: two
  registrations of one address can both succeed, two pods of one name
  can mix, a token can be missing from the list of its grant, and the first two
  requests can each make keys. All of this needs an overlap, and no property says that it
  does not happen: the hazards at these lines have a note in `PROJECT.json` instead.
* A grant's list expires with the payload stored last, so that older payloads
  that live longer are not revoked; a clean-up that has seen the expired list
  also deletes one that was stored since; and when a crash cuts off a revocation the list may
  have gone before the payloads, so that revoking again finds nothing
  (`lapsed`, `RevocationIsComplete`).
* A crash while `JsonFileStorage` writes leaves a file that keeps the server
  from starting.
* The rights that a request is granted were in force at one moment if lists
  changed at most once during the walk; with two changes they may never have been.

## 6. Not modelled

* `RedisResourceLocker`: what becomes of a lock that expires, is extended too
  late or is taken by another process is decided in the redlock library and the
  Redis server. What goes wrong above it when a lock is lost is modelled in
  `LockingResourceStore`. The limit of async-lock needs a thousand calls.
* `SparqlDataAccessor`: queries for an endpoint that runs each in a transaction.
* `GuardedStream` and `StreamUtil`: the order in which Node.js emits the events
  of a stream; here a stream that fails is one outcome of the step that reads it.
* The initializers of the root container and its list: the root is complete and
  a storage from the start.
* Characters: URLs, paths and extensions as strings, RDF and templates, dates,
  hashes; verification of tokens and the routes of the OIDC library; logging,
  dependency injection and command line.

## 7. Plan

What is left: a refinement of the one-step store of
`Requests` by `DataAccessorBasedStore`, for which both would need to speak of the same
containers and lists; and `SparqlDataAccessor`, once what its
endpoint promises is written down.
