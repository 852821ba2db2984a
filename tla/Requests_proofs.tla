---------------------------- MODULE Requests_proofs ----------------------------
(***************************************************************************)
(* Proofs about requests, for any settings of the server, any tree of      *)
(* paths and any requests and sockets: that the walk up to the list that   *)
(* counts finds rights that were in force, that subscribers are told, that *)
(* requests are answered in types that they accept, and that patches have  *)
(* what they change to themselves.                                         *)
(***************************************************************************)
EXTENDS Requests, Conversion_proofs, FiniteSetTheorems, TLAPS

-----------------------------------------------------------------------------
(* Shapes.                                                                 *)

IsWalk(w) == DOMAIN w = {"agent", "modes", "at", "recurse", "user", "everyone"}
IsCall(k) == DOMAIN k = {"target", "preferences", "status", "type", "changed"}
IsJob(j) == DOMAIN j = {"from", "preferences", "container", "lookups", "match", "generated",
                        "result", "then"}
IsListener(l) == DOMAIN l = {"state", "subscribedPaths", "sent"}

\* Where a request is: on its way to the store, converting, or after that.
Early == {"new", "authenticate", "getAcl"}
Converting == {"convert", "findPath", "search"}
Patching == {"toQuads", "patch", "writePatched"}
Pcs == Early \cup {"operate"} \cup Converting \cup Patching
         \cup {"respond", "respondError", "emit", "answered"}

\* A request that was granted its rights is about a resource of the server.
Admitted(c) ==
  \/ pc[c] \in {"operate"} \cup Patching
  \/ pc[c] \in Converting /\ job[c].then \in Patching

RequestIsRight(c) ==
  /\ IsWalk(walk[c]) /\ IsCall(call[c]) /\ IsJob(job[c]) /\ pc[c] \in Pcs
  /\ pc[c] \in Converting => job[c].then \in Patching \cup {"respond", "respondError"}
  /\ call[c].target \in {"subject", "acl"} \X (Paths \cup {Elsewhere})
  /\ Admitted(c) => call[c].target[2] \in Paths

Shapes ==
  /\ scenario \in Scenarios /\ Workload = DOMAIN Requests
  /\ DOMAIN walk = Workload /\ DOMAIN call = Workload /\ DOMAIN job = Workload
  /\ \A c \in Workload : RequestIsRight(c)

\* Every resource is below containers that exist.
StoreIsTree ==
  /\ DOMAIN store \subseteq {"subject", "acl"} \X Paths
  /\ \A r \in DOMAIN store : \A p \in Above[r[2]] \ {r[2]} : Exists(Subject(p))

-----------------------------------------------------------------------------
(* Rights.                                                                 *)

\* The rights that a walk for a path finds when it goes on from one above it.
Listed(s, at) == {p \in Above[at] : Acl(p) \in DOMAIN s}
Nearest(listed) == CHOOSE p \in listed : \A q \in listed : q \in Above[p]

ListGives(list, path, nearest, who) ==
  LET gives(auth, mode) ==
        /\ (IF nearest = path THEN <<"accessTo", path>> ELSE <<"default", nearest>>) \in auth.about
        /\ auth.modes \cap (IF mode = "append" THEN {"append", "write"} ELSE {mode}) # {}
        /\ auth.agents \cap (IF who = Anonymous THEN {"everyone"}
                             ELSE {"everyone", "authenticated", who}) # {}
  IN  {m \in Modes : \E auth \in list : gives(auth, m)}

RightsFrom(s, agent, path, at) ==
  LET listed == Listed(s, at)
      modes(who) == IF listed = {} THEN {}
                    ELSE ListGives(s[Acl(Nearest(listed))].list, path, Nearest(listed), who)
  IN  [user |-> modes(agent), everyone |-> modes(Anonymous)]

\* The walk knows that the rights it is about to find were in force, unless
\* lists have changed twice; before they change none was passed.
WalkKnows(c) ==
  LET path == call[c].target[2]
      at == walk[c].at
  IN  /\ at \in Above[path] /\ walk[c].recurse = (at # path)
      /\ listChanges[c] = 0 => \A p \in Above[path] \ Above[at] : Acl(p) \notin DOMAIN store
      /\ listChanges[c] <= 1 => RightsFrom(store, walk[c].agent, path, at) \in effective[c]

GrantWasEffective(c) ==
  /\ walk[c].user # {} => [user |-> walk[c].user, everyone |-> walk[c].everyone] \in effective[c]
  /\ pc[c] = "operate" => \E e \in effective[c] : walk[c].modes \subseteq e.user
  /\ call[c].status \in {401, 403} => \E e \in effective[c] : e.user = {} \/ ~(walk[c].modes \subseteq e.user)

GrantIsRight(c) ==
  /\ listChanges[c] \in Nat
  /\ pc[c] \in Early => walk[c].user = {} /\ call[c].status \notin {401, 403}
  /\ pc[c] = "getAcl" => IF call[c].target[2] = Elsewhere THEN walk[c].at = Elsewhere ELSE WalkKnows(c)
  /\ listChanges[c] <= 1 => GrantWasEffective(c)

GrantsInv ==
  /\ DOMAIN effective = Workload /\ DOMAIN listChanges = Workload
  /\ \A c \in Workload : GrantIsRight(c)

-----------------------------------------------------------------------------
(* Subscriptions.                                                          *)

\* What a request has still to tell its subscribers.
TellingIsRight(c) ==
  /\ pc[c] \notin {"emit", "answered"} => expected[c] = {}
  /\ \A e \in expected[c] : e[1] \in Sockets
  /\ pc[c] = "emit" => \A e \in expected[c] :
       /\ e[2] \in call[c].changed
       /\ listeners[e[1]].state = "closed" \/ e[2] \in listeners[e[1]].subscribedPaths
  /\ pc[c] = "answered" => \A e \in expected[c] :
       listeners[e[1]].state = "closed" \/ <<"pub", <<e[2], c>>>> \in listeners[e[1]].sent

TellingInv ==
  /\ DOMAIN expected = Workload
  /\ \A s \in Sockets : IsListener(listeners[s])
  /\ \A c \in Workload : TellingIsRight(c)

RInv == Shapes /\ StoreIsTree /\ GrantsInv /\ TellingInv

-----------------------------------------------------------------------------
(* What the steps of a request do to what is known of requests.            *)

\* Other requests are left alone.
OthersWait(c) ==
  /\ scenario' = scenario /\ Workload' = Workload
  /\ DOMAIN walk' = Workload /\ DOMAIN call' = Workload /\ DOMAIN job' = Workload
  /\ \A d \in Workload \ {c} : /\ pc'[d] = pc[d] /\ walk'[d] = walk[d]
                               /\ call'[d] = call[d] /\ job'[d] = job[d]

\* A step that converts, or goes on with the request after its walk.
GoesOn(c) ==
  /\ pc[c] \notin Early /\ pc'[c] \notin Early \cup {"operate"}
  /\ walk' = walk /\ call'[c].target = call[c].target
  /\ call'[c].status = call[c].status \/ call'[c].status \notin {401, 403}

\* A conversion, and the step after it.
Converts(c, then) ==
  /\ DOMAIN job' = Workload /\ Workload' = Workload
  /\ \A d \in Workload \ {c} : pc'[d] = pc[d] /\ job'[d] = job[d]
  /\ pc'[c] = "convert" /\ IsJob(job'[c]) /\ job'[c].then = then

\* A conversion of an error, which is then the answer.
Fails(c, status) ==
  /\ DOMAIN call' = Workload /\ \A d \in Workload \ {c} : call'[d] = call[d]
  /\ call'[c].status = status /\ call'[c].target = call[c].target /\ IsCall(call'[c])
  /\ Converts(c, "respondError")

LEMMA FailEffect ==
  ASSUME Shapes, NEW c \in Workload, NEW status, NEW preferences, fail(c, status, preferences)
  PROVE  Fails(c, status)
<1>1. /\ call'[c] = [call[c] EXCEPT !.status = status, !.preferences = preferences]
      /\ DOMAIN call' = Workload /\ \A d \in Workload \ {c} : call'[d] = call[d]
  BY DEF fail, Shapes
<1>2. IsCall(call[c])
  BY DEF Shapes, RequestIsRight
<1>3. call'[c].status = status /\ call'[c].target = call[c].target /\ IsCall(call'[c])
  BY <1>1, <1>2 DEF IsCall
<1>4. Converts(c, "respondError")
  BY DEF fail, Begin, Shapes, Converts, IsJob, NoJob, Go, Workload
<1> QED
  BY <1>1, <1>3, <1>4 DEF Fails

\* A step after the walk.
Later(c) ==
  /\ OthersWait(c) /\ GoesOn(c) /\ IsCall(call'[c]) /\ IsJob(job'[c]) /\ pc'[c] \in Pcs
  /\ pc'[c] \in Converting => job'[c].then \in Patching \cup {"respond", "respondError"}
  /\ Admitted(c)' => Admitted(c)

LEMMA LaterFails ==
  ASSUME Shapes, scenario' = scenario, walk' = walk, NEW c \in Workload, pc[c] \notin Early,
         NEW status, status \notin {401, 403}, Fails(c, status)
  PROVE  Later(c)
BY DEF Later, Fails, Converts, OthersWait, GoesOn, Shapes, Early, Converting, Patching, Pcs, Admitted

LEMMA LaterConverts ==
  ASSUME Shapes, scenario' = scenario, walk' = walk, NEW c \in Workload,
         pc[c] \in {"operate"} \cup Patching, DOMAIN call' = Workload,
         \A d \in Workload \ {c} : call'[d] = call[d],
         IsCall(call'[c]), call'[c].target = call[c].target, call'[c].status = call[c].status,
         NEW then \in Patching \cup {"respond", "respondError"}, Converts(c, then)
  PROVE  Later(c)
BY DEF Later, Converts, OthersWait, GoesOn, Shapes, Early, Converting, Patching, Pcs, Admitted

LEMMA LaterGoes ==
  ASSUME Shapes, scenario' = scenario, walk' = walk, job' = job, NEW c \in Workload,
         pc[c] \notin Early, NEW to \in {"emit", "answered"}, Go(c, to), DOMAIN call' = Workload,
         \A d \in Workload \ {c} : call'[d] = call[d],
         IsCall(call'[c]), call'[c].target = call[c].target,
         call'[c].status = call[c].status \/ call'[c].status \notin {401, 403}
  PROVE  Later(c)
<1>1. IsJob(job[c]) /\ DOMAIN pc' = Workload /\ pc'[c] = to /\ \A d \in Workload \ {c} : pc'[d] = pc[d]
  BY DEF Shapes, RequestIsRight, Go, Workload
<1> QED
  BY <1>1 DEF Later, OthersWait, GoesOn, Shapes, Early, Converting, Patching, Pcs, Admitted, Workload

\* A conversion goes on until the step it is for.
GoesOnConverting(c) ==
  /\ DOMAIN job' = Workload /\ \A d \in Workload \ {c} : job'[d] = job[d]
  /\ job'[c].then = job[c].then /\ IsJob(job'[c])
  /\ \E to \in Converting \cup {job[c].then} : Go(c, to)

LEMMA JobEffect ==
  ASSUME Shapes, NEW c \in Workload
  PROVE  /\ \A type : Finish(c, type) => GoesOnConverting(c)
         /\ \A match, generated : Found(c, match, generated) => GoesOnConverting(c)
         /\ \A to \in Converting : Go(c, to) /\ job' = job => GoesOnConverting(c)
<1>1. DOMAIN job = Workload /\ IsJob(job[c])
  BY DEF Shapes, RequestIsRight
<1>2. ASSUME NEW type, Finish(c, type)
      PROVE  GoesOnConverting(c)
  BY <1>1, <1>2 DEF Finish, IsJob, GoesOnConverting
<1>3. ASSUME NEW match, NEW generated, Found(c, match, generated)
      PROVE  GoesOnConverting(c)
  <2> DEFINE found == [job[c] EXCEPT !.match = match, !.generated = generated, !.lookups = @ - 1]
  <2>1. IsJob(found) /\ found.then = job[c].then
    BY <1>1 DEF IsJob
  <2>2. /\ IsJob([found EXCEPT !.result = match.outType])
        /\ [found EXCEPT !.result = match.outType].then = found.then
    BY <2>1 DEF IsJob
  <2> HIDE DEF found
  <2>3. \/ job' = [job EXCEPT ![c] = found] /\ Go(c, "findPath")
        \/ job' = [job EXCEPT ![c] = [found EXCEPT !.result = match.outType]] /\ Go(c, job[c].then)
    BY <1>3 DEF Found, found
  <2> QED
    BY <1>1, <2>1, <2>2, <2>3 DEF GoesOnConverting, Converting
<1>4. ASSUME NEW to \in Converting, Go(c, to), job' = job
      PROVE  GoesOnConverting(c)
  BY <1>1, <1>4 DEF GoesOnConverting
<1> QED
  BY <1>2, <1>3, <1>4

LEMMA ConversionEffect ==
  ASSUME Shapes, scenario' = scenario, walk' = walk, call' = call, NEW c \in Workload, ConversionStep(c)
  PROVE  Later(c)
<1>1. /\ pc[c] \in Converting /\ DOMAIN job = Workload /\ IsJob(job[c])
      /\ job[c].then \in Patching \cup {"respond", "respondError"} /\ IsCall(call[c])
  BY DEF Shapes, RequestIsRight, ConversionStep, convert, findPath, search, Converting
<1>2. GoesOnConverting(c)
  <2>1. CASE convert(c)
    BY <2>1, JobEffect DEF convert, Converting
  <2>2. CASE findPath(c)
    BY <2>2, JobEffect DEF findPath, Converting, conversionVars
  <2>3. CASE search(c)
    BY <2>3, JobEffect DEF search
  <2> QED
    BY <2>1, <2>2, <2>3 DEF ConversionStep
<1>3. PICK to \in Converting \cup {job[c].then} : Go(c, to)
  BY <1>2 DEF GoesOnConverting
<1> QED
  BY <1>1, <1>2, <1>3 DEF GoesOnConverting, Later, OthersWait, GoesOn, Shapes, Early, Converting,
     Patching, Pcs, Admitted, Workload, Go

\* Steps that leave resources and sockets as they are.
Quiet(c) ==
  \/ getRepresentation(c) \/ modifyResource(c) \/ toIntermediate(c) \/ patch(c) \/ abandon(c)
  \/ respond(c) \/ respondError(c)
  \/ ConversionStep(c) /\ UNCHANGED <<authorizationVars, socketVars, requestVars>>

LEMMA QuietIsLater ==
  ASSUME Shapes, scenario' = scenario, NEW c \in Workload, Quiet(c)
  PROVE  /\ Later(c) /\ store' = store /\ listeners' = listeners
         /\ pc[c] \notin {"emit", "answered"}
<1>1. DOMAIN call = Workload /\ IsCall(call[c])
  BY DEF Shapes, RequestIsRight
<1>2. walk' = walk /\ store' = store /\ listeners' = listeners
  BY DEF Quiet, getRepresentation, modifyResource, toIntermediate, patch, abandon, respond,
     respondError, authorizationVars, socketVars
<1>3. /\ pc[c] \in {"operate", "respond", "respondError"} \cup Converting \cup Patching
      /\ pc[c] \notin Early \cup {"emit", "answered"}
  BY DEF Quiet, getRepresentation, modifyResource, toIntermediate, patch, abandon, respond,
     respondError, ConversionStep, convert, findPath, search, Operates, Converting, Patching, Early
<1> SUFFICES Later(c)
  BY <1>2, <1>3
<1>4. ASSUME NEW status \in {400, 404, 501}, failNow(c, status)
      PROVE  Later(c)
  BY <1>2, <1>3, <1>4, FailEffect, LaterFails DEF failNow
<1>5. CASE getRepresentation(c)
  <2>1. CASE Exists(Target(c))
    <3>1. call' = call /\ pc[c] = "operate"
      BY <1>5, <2>1 DEF getRepresentation, Operates
    <3>2. Begin(c, store[Target(c)].type, call[c].preferences, IsContainer(Target(c)), 2, "respond")
      BY <1>5, <2>1 DEF getRepresentation
    <3>3. Converts(c, "respond")
      BY <3>2 DEF Begin, Converts, Shapes, IsJob, NoJob, Go, Workload
    <3> QED
      BY <1>1, <1>2, <3>1, <3>3, LaterConverts
  <2> QED
    BY <1>4, <1>5, <2>1 DEF getRepresentation
<1>6. CASE modifyResource(c)
  <2>1. pc[c] = "operate"
    BY <1>6 DEF modifyResource, Operates
  <2>2. CASE Changed(c, 205, {})
    <3>1. /\ job' = job /\ Go(c, "emit") /\ DOMAIN call' = Workload
          /\ call'[c] = [call[c] EXCEPT !.status = 205, !.changed = {}]
          /\ \A d \in Workload \ {c} : call'[d] = call[d]
      BY <1>1, <2>2 DEF Changed
    <3>2. IsCall(call'[c]) /\ call'[c].target = call[c].target /\ call'[c].status = 205
      BY <1>1, <3>1 DEF IsCall
    <3>3. call'[c].status \notin {401, 403}
      BY <3>2
    <3> QED
      BY <1>2, <1>3, <3>1, <3>2, <3>3, LaterGoes
  <2>3. CASE call' = call /\ Converts(c, "toQuads")
    BY <1>1, <1>2, <2>1, <2>3, LaterConverts DEF Patching
  <2>4. CASE call' = [call EXCEPT ![c].type = Turtle] /\ Converts(c, "writePatched")
    <3>1. /\ call'[c] = [call[c] EXCEPT !.type = Turtle] /\ DOMAIN call' = Workload
          /\ \A d \in Workload \ {c} : call'[d] = call[d]
      BY <1>1, <2>4
    <3>2. IsCall(call'[c]) /\ call'[c].target = call[c].target /\ call'[c].status = call[c].status
      BY <1>1, <3>1 DEF IsCall
    <3> QED
      BY <1>2, <2>1, <2>4, <3>1, <3>2, LaterConverts DEF Patching
  <2>5. CASE \/ failNow(c, 400) \/ failNow(c, 501)
    BY <1>4, <2>5
  <2>6. CASE /\ Begin(c, store[Target(c)].type, Nothing, IsContainer(Target(c)), 2, "toQuads")
             /\ UNCHANGED call
    <3>1. Converts(c, "toQuads")
      BY <2>6 DEF Begin, Converts, Shapes, IsJob, NoJob, Go, Workload
    <3> QED
      BY <2>3, <2>6, <3>1
  <2>7. CASE /\ Begin(c, Quads, Only(Turtle), FALSE, 2, "writePatched")
             /\ call' = [call EXCEPT ![c].type = Turtle]
    <3>1. Converts(c, "writePatched")
      BY <2>7 DEF Begin, Converts, Shapes, IsJob, NoJob, Go, Workload
    <3> QED
      BY <2>4, <2>7, <3>1
  <2> QED
    BY <1>6, <2>2, <2>5, <2>6, <2>7, ZenonT(30) DEF modifyResource
<1>7. CASE toIntermediate(c)
  <2>1. /\ pc[c] = "toQuads" /\ call'[c] = [call[c] EXCEPT !.type = job[c].result]
        /\ DOMAIN call' = Workload /\ \A d \in Workload \ {c} : call'[d] = call[d]
    BY <1>1, <1>7 DEF toIntermediate
  <2>2. IsCall(call'[c]) /\ call'[c].target = call[c].target /\ call'[c].status = call[c].status
    BY <1>1, <2>1 DEF IsCall
  <2>3. Converts(c, "patch")
    BY <1>7 DEF toIntermediate, Begin, Converts, Shapes, IsJob, NoJob, Go, Workload
  <2> QED
    BY <1>2, <2>1, <2>2, <2>3, LaterConverts DEF Patching
<1>8. CASE patch(c)
  <2>1. pc[c] = "patch" /\ call' = call
    BY <1>8 DEF patch, requestVars
  <2>2. Converts(c, "writePatched")
    BY <1>8 DEF patch, Begin, Converts, Shapes, IsJob, NoJob, Go, Workload
  <2> QED
    BY <1>1, <1>2, <2>1, <2>2, LaterConverts DEF Patching
<1>9. CASE abandon(c)
  BY <1>4, <1>9 DEF abandon
<1>10. CASE respond(c)
  <2>1. CASE job[c].result = NoType
    <3>1. /\ call'[c] = [call[c] EXCEPT !.status = 501, !.type = job[c].from]
          /\ DOMAIN call' = Workload /\ \A d \in Workload \ {c} : call'[d] = call[d]
      BY <1>1, <1>10, <2>1 DEF respond
    <3>2. IsCall(call'[c]) /\ call'[c].target = call[c].target /\ call'[c].status = 501
      BY <1>1, <3>1 DEF IsCall
    <3>3. Converts(c, "respondError")
      <4>1. Begin(c, Error, call[c].preferences, FALSE, 3, "respondError")
        BY <1>10, <2>1 DEF respond
      <4> QED
        BY <4>1 DEF Begin, Converts, Shapes, IsJob, NoJob, Go, Workload
    <3>4. Fails(c, 501)
      BY <3>1, <3>2, <3>3 DEF Fails
    <3> QED
      BY <1>2, <1>3, <3>4, LaterFails
  <2>2. CASE job[c].result # NoType
    <3>1. job' = job /\ call' = call /\ Go(c, "answered")
      BY <1>10, <2>2 DEF respond, write
    <3> QED
      BY <1>1, <1>2, <1>3, <3>1, LaterGoes
  <2> QED
    BY <2>1, <2>2
<1>11. CASE respondError(c)
  <2>1. job' = job /\ call' = call /\ Go(c, "answered")
    BY <1>11 DEF respondError, write, conversionVars
  <2> QED
    BY <1>1, <1>2, <1>3, <2>1, LaterGoes
<1>12. CASE ConversionStep(c) /\ UNCHANGED <<authorizationVars, socketVars, requestVars>>
  BY <1>2, <1>12, ConversionEffect DEF requestVars
<1> QED
  BY <1>5, <1>6, <1>7, <1>8, <1>9, <1>10, <1>11, <1>12 DEF Quiet

-----------------------------------------------------------------------------
(* Paths.                                                                  *)

LEMMA AboveFacts ==
  /\ \A p \in Paths : p \in Above[p] /\ Above[p] \subseteq Paths
  /\ \A p \in DOMAIN Parent : /\ p # Root /\ p \in Paths /\ Parent[p] \in Containers /\ Parent[p] \in Paths
                              /\ Above[p] = {p} \cup Above[Parent[p]] /\ p \notin Above[Parent[p]]
  /\ \A p \in Paths : p # Root => p \in DOMAIN Parent
  /\ \A p \in Paths : \A q \in Above[p] : Above[q] \subseteq Above[p]
<1>1. /\ Root \in Paths /\ Above[Root] = {Root} /\ \A p \in Paths : Above[p] \subseteq Paths
      /\ \A p \in Paths : p # Root => p \in DOMAIN Parent
  BY PathsAssumption DEF Paths
<1>2. ASSUME NEW p \in DOMAIN Parent
      PROVE  /\ p # Root /\ p \in Paths /\ Parent[p] \in Containers /\ Parent[p] \in Paths
             /\ Above[p] = {p} \cup Above[Parent[p]] /\ p \notin Above[Parent[p]]
  BY PathsAssumption DEF Paths
<1>3. \A p \in Paths : p \in Above[p]
  BY <1>1, <1>2
<1>4. \A p \in Paths : \A q \in Above[p] : Above[q] \subseteq Above[p]
  BY PathsAssumption
<1> QED
  BY <1>1, <1>2, <1>3, <1>4

\* Of two paths that are above each other none is above the other.
LEMMA AboveIsOrder ==
  ASSUME NEW p \in Paths, NEW q \in Above[p], p \in Above[q]
  PROVE  p = q
<1>1. CASE p = Root
  BY <1>1, PathsAssumption
<1>2. CASE p # Root
  <2>1. p \in DOMAIN Parent /\ q \in Paths
    BY <1>2, AboveFacts
  <2>2. SUFFICES ASSUME q # p PROVE FALSE
    OBVIOUS
  <2>3. q \in Above[Parent[p]] /\ Parent[p] \in Paths
    BY <2>1, <2>2, AboveFacts
  <2> QED
    BY <2>1, <2>3, AboveFacts
<1> QED
  BY <1>1, <1>2

\* What is above a container is a container.
LEMMA AboveContainers ==
  ASSUME NEW p \in Containers
  PROVE  Above[p] \subseteq Containers
<1>1. p \in Paths
  BY PathsAssumption
<1> SUFFICES ASSUME NEW q \in Above[p], q # p PROVE q \in Containers
  OBVIOUS
<1>2. PICK r \in Above[p] \ {Root} : Parent[r] = q
  BY <1>1, PathsAssumption
<1>3. r \in DOMAIN Parent
  BY <1>1, <1>2, AboveFacts
<1> QED
  BY <1>2, <1>3, AboveFacts

-----------------------------------------------------------------------------
(* What is written.                                                        *)

SameList(p) ==
  /\ Exists(Acl(p))' <=> Exists(Acl(p))
  /\ Exists(Acl(p)) => store'[Acl(p)].list = store[Acl(p)].list

\* A step changes one list, or removes some.
ListsChangeOnce ==
  \/ \E p : \A q \in Paths : q # p => SameList(q)
  \/ \A q \in Paths : Exists(Acl(q))' => Exists(Acl(q))

\* What a request changes it is about to announce.
Announces(c) == store' = store \/ (pc'[c] = "emit" /\ Altered(c) \subseteq call'[c].changed)

LEMMA ChangedEffect ==
  ASSUME Shapes, NEW c \in Workload, NEW status, NEW changed, Changed(c, status, changed),
         status \notin {401, 403}, scenario' = scenario, walk' = walk, pc[c] \notin Early
  PROVE  Later(c) /\ pc'[c] = "emit" /\ call'[c].changed = changed
<1>1. DOMAIN call = Workload /\ IsCall(call[c]) /\ Workload = DOMAIN pc
  BY DEF Shapes, RequestIsRight, Workload
<1>2. /\ job' = job /\ Go(c, "emit") /\ DOMAIN call' = Workload
      /\ call'[c] = [call[c] EXCEPT !.status = status, !.changed = changed]
      /\ \A d \in Workload \ {c} : call'[d] = call[d]
  BY <1>1 DEF Changed
<1>3. /\ IsCall(call'[c]) /\ call'[c].target = call[c].target /\ call'[c].status = status
      /\ call'[c].changed = changed
  BY <1>1, <1>2 DEF IsCall
<1> QED
  BY <1>1, <1>2, <1>3, LaterGoes DEF Go

LEMMA WriteDataEffect ==
  ASSUME Shapes, StoreIsTree, NEW c \in Workload, NEW entry, Target(c)[2] \in Paths,
         writeData(c, Target(c), entry), scenario' = scenario, walk' = walk, pc[c] \notin Early
  PROVE  Later(c) /\ StoreIsTree' /\ Announces(c) /\ ListsChangeOnce
<1> DEFINE r == Target(c)
           made == IF r = Subject(Root) \/ Exists(r) THEN {}
                   ELSE {Subject(p) : p \in createRecursiveContainers(r)}
           above == IF r = Subject(Root) THEN {}
                    ELSE IF made = {} THEN {Subject(ContainerOf(r))} ELSE made
           container == [type |-> Quads, by |-> c, list |-> {}]
<1>1. /\ store' = [q \in DOMAIN store \cup made \cup {r} |->
                     IF q = r THEN entry ELSE IF q \in made THEN container ELSE store[q]]
      /\ Changed(c, 205, above \cup {r})
  BY DEF writeData
<1>2. r = <<r[1], r[2]>> /\ r[1] \in {"subject", "acl"} /\ r[2] \in Paths
  BY DEF Shapes, RequestIsRight, Target
<1> HIDE DEF made, above, container
<1>3. Later(c) /\ pc'[c] = "emit" /\ call'[c].changed = above \cup {r}
  <2>1. 205 \notin {401, 403}
    OBVIOUS
  <2> QED
    BY <1>1, <2>1, ChangedEffect
<1>4. ASSUME r # Subject(Root)
      PROVE  /\ ContainerOf(r) \in Containers /\ ContainerOf(r) \in Paths
             /\ ~IsAcl(r) => r[2] \in DOMAIN Parent /\ ContainerOf(r) = Parent[r[2]]
             /\ Above[r[2]] \ {r[2]} \subseteq Above[ContainerOf(r)]
  <2>1. CASE IsAcl(r) /\ r[2] \in Containers
    BY <1>2, <2>1, AboveFacts, PathsAssumption DEF ContainerOf
  <2>2. CASE ~(IsAcl(r) /\ r[2] \in Containers)
    <3>1. r[2] \in DOMAIN Parent
      BY <1>2, <1>4, <2>2, AboveFacts, PathsAssumption DEF IsAcl, Subject
    <3> QED
      BY <2>2, <3>1, AboveFacts DEF ContainerOf
  <2> QED
    BY <2>1, <2>2
<1>5. /\ made = {} => r = Subject(Root) \/ Exists(r) \/ \A p \in Above[ContainerOf(r)] : Exists(Subject(p))
      /\ made # {} => /\ above = made /\ ~Exists(r) /\ r # Subject(Root)
                      /\ made = {Subject(p) : p \in createRecursiveContainers(r)}
      /\ made = {} /\ r # Subject(Root) => above = {Subject(ContainerOf(r))}
  BY DEF made, above, createRecursiveContainers
<1>6. ASSUME NEW m \in made
      PROVE  \E p \in Above[ContainerOf(r)] : m = Subject(p) /\ ~Exists(m) /\ p \in Containers /\ p \in Paths
  <2>1. PICK p \in Above[ContainerOf(r)] : m = Subject(p) /\ ~Exists(Subject(p))
    BY <1>5 DEF createRecursiveContainers
  <2> QED
    BY <1>4, <1>5, <2>1, AboveContainers, PathsAssumption
<1>7. ASSUME NEW p \in Above[ContainerOf(r)], r # Subject(Root), ~Exists(r)
      PROVE  Subject(p) \in DOMAIN store \cup made
  BY <1>5, <1>7 DEF Exists, createRecursiveContainers
<1>8. /\ DOMAIN store' = DOMAIN store \cup made \cup {r}
      /\ \A q \in DOMAIN store \ {r} : store'[q] = store[q]
  BY <1>1, <1>6 DEF Exists
<1>9. StoreIsTree'
  <2>1. DOMAIN store' \subseteq {"subject", "acl"} \X Paths
    BY <1>2, <1>6, <1>8 DEF StoreIsTree, Subject
  <2>2. ASSUME NEW q \in DOMAIN store', NEW p \in Above[q[2]] \ {q[2]}
        PROVE  Subject(p) \in DOMAIN store'
    <3>1. CASE q \in DOMAIN store
      BY <1>8, <3>1 DEF StoreIsTree, Exists
    <3>2. CASE q \in made
      <4>1. PICK b \in Above[ContainerOf(r)] : q = Subject(b)
        BY <1>6, <3>2
      <4>2. r # Subject(Root) /\ ~Exists(r) /\ ContainerOf(r) \in Paths
        BY <1>4, <1>5, <3>2
      <4>3. p \in Above[ContainerOf(r)]
        BY <4>1, <4>2, AboveFacts DEF Subject
      <4> QED
        BY <1>7, <1>8, <4>2, <4>3
    <3>3. CASE q = r /\ ~Exists(r)
      <4>1. r # Subject(Root)
        BY <3>3, PathsAssumption DEF Subject
      <4> QED
        BY <1>4, <1>7, <1>8, <3>3, <4>1
    <3> QED
      BY <1>8, <3>1, <3>2, <3>3 DEF Exists
  <2> QED
    BY <2>1, <2>2 DEF StoreIsTree, Exists
<1>10. ListsChangeOnce
  <2>1. ASSUME NEW q \in Paths, q # r[2]
        PROVE  SameList(q)
    <3>1. Acl(q) # r /\ Acl(q) \notin made
      BY <1>6, <2>1 DEF Acl, Subject
    <3> QED
      BY <1>8, <3>1 DEF SameList, Exists
  <2> QED
    BY <2>1 DEF ListsChangeOnce
<1>11. Altered(c) \subseteq above \cup {r}
  <2>1. ASSUME NEW q \in DOMAIN store', q \notin DOMAIN store \/ store'[q] # store[q]
        PROVE  q \in above \cup {r}
    BY <1>5, <1>8, <2>1
  <2>2. ASSUME NEW q \in Containers, NEW k \in Children(store', q) \ Children(store, q),
               Subject(k) = r \/ k \in NewPaths
        PROVE  Subject(q) \in above
    <3>1. /\ k \in DOMAIN Parent /\ Parent[k] = q /\ Subject(k) \notin DOMAIN store
          /\ Subject(k) \in made \cup {r}
      BY <1>8 DEF Children
    <3>2. Subject(k) = r
      BY <1>6, <2>2, <3>1, PathsAssumption DEF Subject
    <3>3. r # Subject(Root) /\ ~IsAcl(r) /\ ~Exists(r) /\ r[2] = k
      BY <3>1, <3>2, AboveFacts DEF Subject, IsAcl, Exists
    <3>4. ContainerOf(r) = q /\ q \in Paths /\ q \in Above[q]
      BY <1>4, <3>1, <3>3, AboveFacts
    <3>5. CASE made = {}
      BY <1>5, <3>3, <3>4, <3>5
    <3>6. CASE made # {}
      <4>1. PICK p \in Above[q] : ~Exists(Subject(p))
        BY <1>6, <3>4, <3>6
      <4>2. ~Exists(Subject(q))
        BY <3>4, <4>1 DEF StoreIsTree, Exists, Subject
      <4> QED
        BY <1>5, <1>7, <3>3, <3>4, <4>2 DEF Exists
    <3> QED
      BY <3>5, <3>6
  <2> QED
    BY <1>8, <2>1, <2>2 DEF Altered, Target
<1> QED
  BY <1>3, <1>9, <1>10, <1>11 DEF Announces

\* The steps that change resources.
Writes(c) == setRepresentation(c) \/ addResource(c) \/ deleteResource(c) \/ writePatched(c)

\* What a step that may change resources does.
Written(c) ==
  /\ Later(c) /\ StoreIsTree' /\ Announces(c) /\ ListsChangeOnce /\ listeners' = listeners
  /\ pc[c] \notin {"emit", "answered"}

LEMMA UnchangedStore ==
  ASSUME StoreIsTree, NEW c, store' = store
  PROVE  StoreIsTree' /\ Announces(c) /\ ListsChangeOnce
BY DEF StoreIsTree, Announces, ListsChangeOnce, Exists

LEMMA AddEffect ==
  ASSUME Shapes, StoreIsTree, NEW c \in Workload, Target(c)[2] \in Paths,
         scenario' = scenario, walk' = walk, pc[c] \notin Early,
         Exists(Target(c)), IsContainer(Target(c)), NEW entry,
         NEW path \in NewPaths, Parent[path] = Target(c)[2], ~Exists(Subject(path)),
         store' = [q \in DOMAIN store \cup {Subject(path)} |->
                     IF q = Subject(path) THEN entry ELSE store[q]],
         Changed(c, 201, {Target(c), Subject(path)})
  PROVE  Later(c) /\ StoreIsTree' /\ Announces(c) /\ ListsChangeOnce
<1>1. Target(c) = Subject(Target(c)[2])
  BY DEF Shapes, RequestIsRight, Target, IsContainer, IsAcl, Subject
<1>2. Later(c) /\ pc'[c] = "emit" /\ call'[c].changed = {Target(c), Subject(path)}
  <2>1. 201 \notin {401, 403}
    OBVIOUS
  <2> QED
    BY <2>1, ChangedEffect
<1>3. /\ DOMAIN store' = DOMAIN store \cup {Subject(path)}
      /\ \A q \in DOMAIN store : store'[q] = store[q]
  BY DEF Exists
<1>4. path \in DOMAIN Parent /\ path \in Paths /\ Above[path] \ {path} \subseteq Above[Target(c)[2]]
  BY AboveFacts, PathsAssumption
<1>5. StoreIsTree'
  <2>1. DOMAIN store' \subseteq {"subject", "acl"} \X Paths
    BY <1>3, <1>4 DEF StoreIsTree, Subject
  <2>2. ASSUME NEW q \in DOMAIN store', NEW p \in Above[q[2]] \ {q[2]}
        PROVE  Subject(p) \in DOMAIN store'
    <3>1. CASE q \in DOMAIN store
      BY <1>3, <3>1 DEF StoreIsTree, Exists
    <3>2. CASE q = Subject(path)
      <4>1. p \in Above[Target(c)[2]]
        BY <1>4, <3>2 DEF Subject
      <4>2. Subject(p) \in DOMAIN store
        BY <1>1, <4>1 DEF StoreIsTree, Exists
      <4> QED
        BY <1>3, <4>2
    <3> QED
      BY <1>3, <3>1, <3>2
  <2> QED
    BY <2>1, <2>2 DEF StoreIsTree, Exists
<1>6. ListsChangeOnce
  <2>1. ASSUME NEW q \in Paths
        PROVE  SameList(q)
    <3>1. Acl(q) # Subject(path)
      BY DEF Acl, Subject
    <3> QED
      BY <1>3, <3>1 DEF SameList, Exists
  <2> QED
    BY <2>1 DEF ListsChangeOnce
<1>7. Altered(c) \subseteq {Target(c), Subject(path)}
  <2>1. ASSUME NEW q \in Containers, NEW k \in Children(store', q) \ Children(store, q)
        PROVE  Subject(q) = Target(c)
    <3>1. k = path
      BY <1>3, <2>1 DEF Children, Subject
    <3> QED
      BY <1>1, <2>1, <3>1 DEF Children
  <2> QED
    BY <1>3, <2>1 DEF Altered
<1> QED
  BY <1>2, <1>5, <1>6, <1>7 DEF Announces

LEMMA DeleteEffect ==
  ASSUME Shapes, StoreIsTree, NEW c \in Workload, Target(c)[2] \in Paths,
         scenario' = scenario, walk' = walk, pc[c] \notin Early,
         ~IsAcl(Target(c)) => Children(store, Target(c)[2]) = {}, NEW lists, NEW orphans,
         lists = IF IsAcl(Target(c)) THEN {} ELSE {Acl(Target(c)[2])} \cap DOMAIN store,
         orphans = IF IsAcl(Target(c)) THEN {}
                   ELSE {Acl(p) : p \in {q \in DOMAIN Parent : Parent[q] = Target(c)[2]}},
         store' = [q \in DOMAIN store \ ({Target(c)} \cup lists \cup orphans) |-> store[q]],
         Changed(c, 205, {Target(c)} \cup lists)
  PROVE  Later(c) /\ StoreIsTree' /\ Announces(c) /\ ListsChangeOnce
<1> DEFINE r == Target(c)
<1>1. r = <<r[1], r[2]>> /\ r[1] \in {"subject", "acl"} /\ r[2] \in Paths
  BY DEF Shapes, RequestIsRight, Target
<1>2. Later(c) /\ pc'[c] = "emit" /\ call'[c].changed = {r} \cup lists
  <2>1. 205 \notin {401, 403}
    OBVIOUS
  <2> QED
    BY <2>1, ChangedEffect
<1>3. /\ DOMAIN store' = DOMAIN store \ ({r} \cup lists \cup orphans)
      /\ \A q \in DOMAIN store' : store'[q] = store[q]
  OBVIOUS
<1>4. StoreIsTree'
  <2>1. DOMAIN store' \subseteq {"subject", "acl"} \X Paths
    BY <1>3 DEF StoreIsTree
  <2>2. ASSUME NEW q \in DOMAIN store', NEW p \in Above[q[2]] \ {q[2]}
        PROVE  Subject(p) \in DOMAIN store'
    <3>1. q \in DOMAIN store /\ q[2] \in Paths /\ q = <<q[1], q[2]>> /\ q[1] \in {"subject", "acl"}
      BY <1>3 DEF StoreIsTree
    <3>2. \A x \in Above[q[2]] \ {q[2]} : Subject(x) \in DOMAIN store
      BY <3>1 DEF StoreIsTree, Exists
    <3>3. Subject(p) \notin lists \cup orphans
      BY DEF Subject, Acl
    <3>4. ASSUME Subject(p) = r
          PROVE  FALSE
      <4>1. p = r[2] /\ ~IsAcl(r)
        BY <3>4 DEF Subject, IsAcl
      <4>2. PICK x \in Above[q[2]] \ {Root} : Parent[x] = p
        BY <3>1, PathsAssumption
      <4>3. x \in DOMAIN Parent
        BY <3>1, <4>2, AboveFacts
      <4>4. Subject(x) \notin DOMAIN store
        BY <4>1, <4>2, <4>3 DEF Children
      <4>5. x = q[2]
        BY <3>2, <4>2, <4>4
      <4>6. q = Acl(x)
        BY <3>1, <4>4, <4>5 DEF Subject, Acl
      <4>7. q \in orphans
        BY <4>1, <4>2, <4>3, <4>6
      <4> QED
        BY <1>3, <4>7
    <3> QED
      BY <1>3, <3>2, <3>3, <3>4
  <2> QED
    BY <2>1, <2>2 DEF StoreIsTree, Exists
<1>5. ListsChangeOnce
  BY <1>3 DEF ListsChangeOnce, Exists
<1>6. Altered(c) \subseteq {r} \cup lists
  <2>1. ASSUME NEW q, Children(store', q) \ Children(store, q) # {}
        PROVE  FALSE
    BY <1>3, <2>1 DEF Children
  <2>2. ASSUME NEW q \in orphans \cap DOMAIN store
        PROVE  IsAcl(q) /\ ~Exists(Subject(q[2])) /\ q # r
    <3>1. PICK p \in DOMAIN Parent : q = Acl(p) /\ Parent[p] = r[2] /\ ~IsAcl(r)
      BY <2>2
    <3>2. ~Exists(Subject(p))
      BY <3>1 DEF Children, Exists
    <3> QED
      BY <3>1, <3>2 DEF IsAcl, Acl
  <2> QED
    BY <1>3, <2>1, <2>2 DEF Altered
<1> QED
  BY <1>2, <1>4, <1>5, <1>6 DEF Announces

LEMMA WritesEffect ==
  ASSUME Shapes, StoreIsTree, NEW c \in Workload, scenario' = scenario, Writes(c)
  PROVE  Written(c)
<1>1. /\ pc[c] \in {"operate", "writePatched"} /\ walk' = walk /\ listeners' = listeners
      /\ pc[c] \notin Early \cup {"emit", "answered"}
  BY DEF Writes, setRepresentation, addResource, deleteResource, writePatched, Operates, socketVars, Early
<1>2. Target(c)[2] \in Paths
  BY <1>1 DEF Shapes, RequestIsRight, Admitted, Patching, Target
<1>3. ASSUME NEW status \in {400, 404, 405, 409, 501}, failNow(c, status), store' = store
      PROVE  Written(c)
  <2>1. status \notin {401, 403}
    OBVIOUS
  <2>2. Later(c)
    BY <1>1, <1>3, <2>1, FailEffect, LaterFails DEF failNow
  <2> QED
    BY <1>1, <1>3, <2>2, UnchangedStore DEF Written
<1>4. ASSUME NEW entry, writeData(c, Target(c), entry)
      PROVE  Written(c)
  BY <1>1, <1>2, <1>4, WriteDataEffect DEF Written
<1>5. CASE setRepresentation(c)
  <2>1. ContainerError(Target(c), bodyType(Requests[c])) + ListError(Target(c), bodyType(Requests[c]))
          \in {0, 400, 501}
    BY DEF ContainerError, ListError, IsContainer
  <2>2. CASE failNow(c, 400) /\ UNCHANGED store
    BY <1>3, <2>2
  <2>3. CASE \E status \in {0, 400, 501} : status > 0 /\ failNow(c, status) /\ UNCHANGED store
    BY <1>3, <2>3
  <2>4. CASE \E entry : writeData(c, Target(c), entry)
    BY <1>4, <2>4
  <2> QED
    BY <1>5, <2>1, <2>2, <2>3, <2>4 DEF setRepresentation
<1>6. CASE addResource(c)
  <2> DEFINE entry == [type |-> bodyType(Requests[c]), by |-> c, list |-> {}]
             refused == bodyType(Requests[c]) = NoType \/ ~Exists(Target(c)) \/ ~IsContainer(Target(c))
  <2>1. CASE refused
    BY <1>3, <1>6, <2>1 DEF addResource
  <2>2. CASE ~refused
    <3>1. PICK path \in {p \in NewPaths : Parent[p] = Target(c)[2] /\ ~Exists(Subject(p))} :
            /\ store' = [q \in DOMAIN store \cup {Subject(path)} |->
                           IF q = Subject(path) THEN entry ELSE store[q]]
            /\ Changed(c, 201, {Target(c), Subject(path)})
      BY <1>6, <2>2, Zenon DEF addResource
    <3> HIDE DEF entry
    <3> QED
      BY <1>1, <1>2, <2>2, <3>1, AddEffect DEF Written
  <2> QED
    BY <2>1, <2>2
<1>7. CASE deleteResource(c)
  <2> DEFINE lists == IF IsAcl(Target(c)) THEN {} ELSE {Acl(Target(c)[2])} \cap DOMAIN store
             orphans == IF IsAcl(Target(c)) THEN {}
                        ELSE {Acl(p) : p \in {q \in DOMAIN Parent : Parent[q] = Target(c)[2]}}
  <2>1. CASE \E status \in {404, 405, 409} : failNow(c, status) /\ UNCHANGED store
    BY <1>3, <2>1
  <2>2. CASE /\ ~IsAcl(Target(c)) => Children(store, Target(c)[2]) = {}
             /\ store' = [q \in DOMAIN store \ ({Target(c)} \cup lists \cup orphans) |-> store[q]]
             /\ Changed(c, 205, {Target(c)} \cup lists)
    BY <1>1, <1>2, <2>2, DeleteEffect DEF Written
  <2> QED
    BY <1>7, <2>1, <2>2 DEF deleteResource
<1>8. CASE writePatched(c)
  BY <1>3, <1>4, <1>8 DEF writePatched
<1> QED
  BY <1>5, <1>6, <1>7, <1>8 DEF Writes

-----------------------------------------------------------------------------
(* The steps up to the store, and the last one.                            *)

LEMMA ShapesKept ==
  ASSUME Shapes, NEW c \in Workload, OthersWait(c), RequestIsRight(c)'
  PROVE  Shapes'
<1>1. scenario' \in Scenarios /\ Workload' = (DOMAIN Requests)'
  BY DEF Shapes, OthersWait, Requests
<1>2. ASSUME NEW d \in Workload \ {c}
      PROVE  RequestIsRight(d)'
  BY <1>2 DEF Shapes, OthersWait, RequestIsRight, Admitted
<1> QED
  BY <1>1, <1>2 DEF Shapes, OthersWait

LEMMA LaterKeepsShapes ==
  ASSUME Shapes, NEW c \in Workload, Later(c)
  PROVE  Shapes'
<1>1. RequestIsRight(c)
  BY DEF Shapes
<1>2. RequestIsRight(c)'
  BY <1>1 DEF Later, GoesOn, OthersWait, RequestIsRight
<1> QED
  BY <1>2, ShapesKept DEF Later

\* A request that fails before it was granted anything.
FailsEarly(c) ==
  /\ OthersWait(c) /\ walk' = walk /\ pc'[c] = "convert" /\ RequestIsRight(c)'

LEMMA FailsEarlyEffect ==
  ASSUME Shapes, scenario' = scenario, walk' = walk, NEW c \in Workload, NEW status, Fails(c, status)
  PROVE  FailsEarly(c) /\ call'[c].status = status /\ call'[c].target = call[c].target
<1>1. RequestIsRight(c)
  BY DEF Shapes
<1>2. RequestIsRight(c)'
  BY <1>1 DEF Fails, Converts, RequestIsRight, Admitted, Pcs, Early, Converting, Patching
<1>3. OthersWait(c)
  BY DEF Fails, Converts, OthersWait, Shapes
<1> QED
  BY <1>2, <1>3 DEF FailsEarly, Fails, Converts

LEMMA EmitEffect ==
  ASSUME Shapes, scenario' = scenario, NEW c \in Workload, emit(c)
  PROVE  /\ Later(c) /\ store' = store /\ pc[c] = "emit" /\ pc'[c] = "answered"
         /\ listeners' = [s \in Sockets |-> onResourceChanged(listeners[s], call[c].changed, c)]
<1>1. /\ job' = job /\ call' = call /\ walk' = walk /\ store' = store /\ pc[c] = "emit" /\ pc[c] \notin Early
      /\ Go(c, "answered")
  BY DEF emit, write, conversionVars, authorizationVars, Early
<1>2. DOMAIN call = Workload /\ IsCall(call[c])
  BY DEF Shapes, RequestIsRight
<1>3. Later(c)
  BY <1>1, <1>2, LaterGoes
<1>4. pc'[c] = "answered"
  BY <1>1 DEF Go, Workload
<1> QED
  BY <1>1, <1>3, <1>4 DEF emit, emitChanged

LEMMA ParseEffect ==
  ASSUME Shapes, scenario' = scenario, NEW c \in Workload, parse(c)
  PROVE  /\ Shapes' /\ OthersWait(c) /\ walk' = walk /\ store' = store /\ listeners' = listeners
         /\ pc[c] = "new" /\ pc'[c] \in {"authenticate", "convert"}
         /\ call'[c].status = call[c].status \/ call'[c].status \in {400, 500}
<1>1. DOMAIN call = Workload /\ IsCall(call[c]) /\ RequestIsRight(c)
  BY DEF Shapes, RequestIsRight
<1>2. walk' = walk /\ store' = store /\ listeners' = listeners /\ pc[c] = "new"
  BY DEF parse, authorizationVars, socketVars
<1>3. ASSUME NEW status \in {400, 500}, fail(c, status, Only(TextPlain))
      PROVE  /\ Shapes' /\ OthersWait(c) /\ pc'[c] = "convert" /\ call'[c].status = status
  <2>1. Fails(c, status)
    BY <1>3, FailEffect
  <2>2. FailsEarly(c) /\ call'[c].status = status
    BY <1>2, <2>1, FailsEarlyEffect
  <2> QED
    BY <1>2, <2>2, ShapesKept DEF FailsEarly
<1>4. CASE /\ call' = [call EXCEPT ![c] = [@ EXCEPT
                !.target = targetOf(Requests[c]), !.preferences = Preferences(Requests[c].headers)]]
           /\ Go(c, "authenticate") /\ UNCHANGED job
  <2>1. /\ call'[c] = [call[c] EXCEPT !.target = targetOf(Requests[c]),
                                      !.preferences = Preferences(Requests[c].headers)]
        /\ DOMAIN call' = Workload /\ \A d \in Workload \ {c} : call'[d] = call[d]
    BY <1>1, <1>4
  <2>2. IsCall(call'[c]) /\ call'[c].target = targetOf(Requests[c]) /\ call'[c].status = call[c].status
    BY <1>1, <2>1 DEF IsCall
  <2>3. DOMAIN pc' = Workload /\ pc'[c] = "authenticate" /\ \A d \in Workload \ {c} : pc'[d] = pc[d]
    BY <1>4 DEF Go, Workload
  <2>4. targetOf(Requests[c]) \in {"subject", "acl"} \X (Paths \cup {Elsewhere})
    BY ScenariosAssumption DEF targetOf, Subject, Shapes, Requests
  <2>5. OthersWait(c)
    BY <1>2, <1>4, <2>1, <2>3 DEF OthersWait, Shapes, Workload
  <2>6. RequestIsRight(c)'
    BY <1>1, <1>2, <1>4, <2>2, <2>3, <2>4
       DEF RequestIsRight, Admitted, Pcs, Early, Converting, Patching
  <2> QED
    BY <1>2, <2>2, <2>3, <2>5, <2>6, ShapesKept
<1>5. parseError(Requests[c]) \in {400, 500}
  BY DEF parseError
<1> QED
  BY <1>2, <1>3, <1>4, <1>5 DEF parse

\* A request goes on to its walk.
Walks(c) ==
  /\ OthersWait(c) /\ call' = call /\ job' = job /\ IsWalk(walk'[c])

LEMMA AuthenticateEffect ==
  ASSUME Shapes, scenario' = scenario, NEW c \in Workload, authenticate(c)
  PROVE  /\ Shapes' /\ OthersWait(c) /\ store' = store /\ listeners' = listeners
         /\ pc[c] = "authenticate" /\ call'[c].target = call[c].target
         /\ \/ pc'[c] = "convert" /\ walk' = walk /\ call'[c].status \notin {401, 403}
            \/ /\ pc'[c] = "getAcl" /\ call'[c].status = call[c].status
               /\ walk'[c].at = call[c].target[2] /\ walk'[c].recurse = FALSE /\ walk'[c].user = {}
<1>1. RequestIsRight(c) /\ DOMAIN walk = Workload
  BY DEF Shapes
<1>2. store' = store /\ listeners' = listeners /\ pc[c] = "authenticate"
  BY DEF authenticate, socketVars
<1>3. ASSUME NEW status \in {400, 501}, failNow(c, status), walk' = walk
      PROVE  Shapes' /\ FailsEarly(c) /\ call'[c].status \notin {401, 403} /\ call'[c].target = call[c].target
  <2>1. Fails(c, status)
    BY <1>3, FailEffect DEF failNow
  <2> QED
    BY <1>3, <2>1, FailsEarlyEffect, ShapesKept DEF FailsEarly
<1>4. CASE beginWalk(c, call[c].target) /\ Go(c, "getAcl") /\ UNCHANGED <<job, call>>
  <2> DEFINE w == walk'[c]
  <2>1. /\ w = [NoWalk EXCEPT !.agent = agentOf(Requests[c]), !.at = call[c].target[2],
                              !.modes = permissionsOf(Requests[c], call[c].target)]
        /\ DOMAIN walk' = Workload /\ \A d \in Workload \ {c} : walk'[d] = walk[d]
    BY <1>1, <1>4 DEF beginWalk
  <2>2. IsWalk(w) /\ w.at = call[c].target[2] /\ w.user = {} /\ w.recurse = FALSE
    BY <2>1 DEF IsWalk, NoWalk
  <2> HIDE DEF w
  <2>3. DOMAIN pc' = Workload /\ pc'[c] = "getAcl" /\ \A d \in Workload \ {c} : pc'[d] = pc[d]
    BY <1>4 DEF Go, Workload
  <2>4. OthersWait(c)
    BY <1>4, <2>1, <2>3 DEF OthersWait, Shapes, Workload
  <2>5. RequestIsRight(c)'
    BY <1>1, <1>4, <2>2, <2>3 DEF RequestIsRight, Admitted, Pcs, Early, Converting, Patching, w
  <2> QED
    BY <1>2, <1>4, <2>2, <2>3, <2>4, <2>5, ShapesKept DEF w
<1>5. CASE credentialsError(Requests[c]) # 0
  <2>1. credentialsError(Requests[c]) \in {0, 400, 501}
    BY DEF credentialsError
  <2> QED
    BY <1>2, <1>3, <1>5, <2>1 DEF authenticate, FailsEarly
<1>6. CASE failNow(c, 501) /\ UNCHANGED walk
  BY <1>2, <1>3, <1>6 DEF FailsEarly
<1>7. \/ credentialsError(Requests[c]) # 0
      \/ failNow(c, 501) /\ UNCHANGED walk
      \/ beginWalk(c, call[c].target) /\ Go(c, "getAcl") /\ UNCHANGED <<job, call>>
  BY Zenon DEF authenticate
<1> QED
  BY <1>4, <1>5, <1>6, <1>7

-----------------------------------------------------------------------------
(* What a walk finds.                                                      *)

LEMMA NearestFact ==
  ASSUME NEW at \in Paths, NEW s, Listed(s, at) # {}
  PROVE  /\ Nearest(Listed(s, at)) \in Listed(s, at)
         /\ \A q \in Listed(s, at) : q \in Above[Nearest(Listed(s, at))]
<1>1. Listed(s, at) \in SUBSET Above[at]
  BY DEF Listed
<1>2. PICK p \in Listed(s, at) : \A q \in Listed(s, at) : q \in Above[p]
  BY <1>1, PathsAssumption
<1> QED
  BY <1>2 DEF Nearest

LEMMA RightsAtStart ==
  ASSUME NEW s, NEW agent, NEW path
  PROVE  RightsIn(s, agent, path) = RightsFrom(s, agent, path, path)
BY DEF RightsIn, RightsFrom, Listed, Nearest, ListGives

\* The same lists give the same rights.
LEMMA SameRights ==
  ASSUME NEW agent, NEW path, NEW at \in Paths, \A p \in Above[at] : SameList(p)
  PROVE  RightsFrom(store', agent, path, at) = RightsFrom(store, agent, path, at)
<1>1. Listed(store', at) = Listed(store, at)
  BY DEF SameList, Listed, Exists
<1>2. CASE Listed(store, at) = {}
  BY <1>1, <1>2 DEF RightsFrom
<1>3. CASE Listed(store, at) # {}
  <2>1. Nearest(Listed(store, at)) \in Listed(store, at)
    BY <1>3, NearestFact
  <2>2. store'[Acl(Nearest(Listed(store, at)))].list = store[Acl(Nearest(Listed(store, at)))].list
    BY <2>1 DEF SameList, Listed, Exists
  <2> QED
    BY <1>1, <2>2 DEF RightsFrom
<1> QED
  BY <1>2, <1>3

\* Where there are no lists there are no rights either.
LEMMA RightsAbove ==
  ASSUME NEW s, NEW agent, NEW path, NEW from \in Paths, NEW at \in Above[from],
         \A p \in Above[from] \ Above[at] : Acl(p) \notin DOMAIN s
  PROVE  RightsFrom(s, agent, path, from) = RightsFrom(s, agent, path, at)
<1>1. Above[at] \subseteq Above[from]
  BY AboveFacts
<1>2. Listed(s, from) = Listed(s, at)
  BY <1>1 DEF Listed
<1> QED
  BY <1>2 DEF RightsFrom

LEMMA RightsHere ==
  ASSUME NEW s, NEW agent, NEW path, NEW at \in Paths, Acl(at) \in DOMAIN s
  PROVE  RightsFrom(s, agent, path, at) =
           [user |-> ListGives(s[Acl(at)].list, path, at, agent),
            everyone |-> ListGives(s[Acl(at)].list, path, at, Anonymous)]
<1>1. at \in Listed(s, at)
  BY AboveFacts DEF Listed
<1>2. Nearest(Listed(s, at)) \in Above[at] /\ at \in Above[Nearest(Listed(s, at))]
  BY <1>1, NearestFact DEF Listed
<1>3. Nearest(Listed(s, at)) = at
  BY <1>2, AboveIsOrder
<1> QED
  BY <1>1, <1>3 DEF RightsFrom

\* The authorizer reads a list as it is meant.
LEMMA ListIsRead ==
  ASSUME NEW list, NEW path, NEW at, NEW agent, NEW predicate,
         predicate = IF at # path THEN "default" ELSE "accessTo"
  PROVE  determinePermissions(agent, filterData(list, predicate, at)) = ListGives(list, path, at, agent)
<1> DEFINE wanted(m) == IF m = "append" THEN {"append", "write"} ELSE {m}
           known == IF agent = Anonymous THEN {"everyone"} ELSE {"everyone", "authenticated", agent}
<1>1. \A auth : hasAccess(agent, auth) <=> auth.agents \cap known # {}
  BY DEF hasAccess
<1>2. \A auth, m : (m \in auth.modes \/ (m = "append" /\ "write" \in auth.modes)) <=> auth.modes \cap wanted(m) # {}
  OBVIOUS
<1>3. <<predicate, at>> = IF at = path THEN <<"accessTo", path>> ELSE <<"default", at>>
  OBVIOUS
<1> QED
  BY <1>1, <1>2, <1>3 DEF determinePermissions, hasPermission, filterData, ListGives

LEMMA AuthorizationIsRight ==
  ASSUME Shapes, NEW c \in Workload, walk[c].at \in Paths, ListFound(c), NEW path,
         walk[c].recurse = (walk[c].at # path)
  PROVE  LET w == createAuthorization(c) IN
         /\ IsWalk(w) /\ w.at = walk[c].at /\ w.recurse = walk[c].recurse
         /\ w.agent = walk[c].agent /\ w.modes = walk[c].modes
         /\ [user |-> w.user, everyone |-> w.everyone] = RightsFrom(store, walk[c].agent, path, walk[c].at)
<1> DEFINE predicate == IF walk[c].recurse THEN "default" ELSE "accessTo"
           acl == filterData(store[Acl(walk[c].at)].list, predicate, walk[c].at)
           w == createAuthorization(c)
<1>1. IsWalk(walk[c])
  BY DEF Shapes, RequestIsRight
<1>2. w = [walk[c] EXCEPT !.user = determinePermissions(walk[c].agent, acl),
                          !.everyone = determinePermissions(Anonymous, acl)]
  BY DEF createAuthorization
<1> HIDE DEF w
<1>3. /\ IsWalk(w) /\ w.at = walk[c].at /\ w.recurse = walk[c].recurse
      /\ w.agent = walk[c].agent /\ w.modes = walk[c].modes
      /\ w.user = determinePermissions(walk[c].agent, acl)
      /\ w.everyone = determinePermissions(Anonymous, acl)
  BY <1>1, <1>2 DEF IsWalk
<1>4. /\ determinePermissions(walk[c].agent, acl)
           = ListGives(store[Acl(walk[c].at)].list, path, walk[c].at, walk[c].agent)
      /\ determinePermissions(Anonymous, acl)
           = ListGives(store[Acl(walk[c].at)].list, path, walk[c].at, Anonymous)
  <2>1. predicate = IF walk[c].at # path THEN "default" ELSE "accessTo"
    OBVIOUS
  <2> HIDE DEF predicate
  <2> QED
    BY <2>1, ListIsRead
<1>5. RightsFrom(store, walk[c].agent, path, walk[c].at) =
           [user |-> ListGives(store[Acl(walk[c].at)].list, path, walk[c].at, walk[c].agent),
            everyone |-> ListGives(store[Acl(walk[c].at)].list, path, walk[c].at, Anonymous)]
  BY RightsHere DEF ListFound
<1> QED
  BY <1>3, <1>4, <1>5 DEF w

-----------------------------------------------------------------------------
(* The steps of a walk.                                                    *)

LEMMA ClimbEffect ==
  ASSUME Shapes, scenario' = scenario, NEW c \in Workload, climb(c),
         UNCHANGED <<store, locked, conversionVars, socketVars, requestVars>>
  PROVE  /\ Shapes' /\ OthersWait(c) /\ store' = store /\ listeners' = listeners
         /\ pc' = pc /\ call' = call /\ pc[c] = "getAcl"
         /\ walk[c].at \in DOMAIN Parent /\ Acl(walk[c].at) \notin DOMAIN store
         /\ walk'[c].at = Parent[walk[c].at] /\ walk'[c].recurse = TRUE
         /\ walk'[c].user = walk[c].user /\ walk'[c].agent = walk[c].agent
<1>1. IsWalk(walk[c]) /\ DOMAIN walk = Workload /\ RequestIsRight(c)
  BY DEF Shapes, RequestIsRight
<1>2. /\ store' = store /\ listeners' = listeners /\ pc' = pc /\ call' = call /\ job' = job
      /\ pc[c] = "getAcl" /\ walk[c].at \in DOMAIN Parent /\ Acl(walk[c].at) \notin DOMAIN store
  BY DEF climb, ListRead, ListFound, conversionVars, socketVars, requestVars
<1>3. /\ walk'[c] = [walk[c] EXCEPT !.at = Parent[walk[c].at], !.recurse = TRUE]
      /\ DOMAIN walk' = Workload /\ \A d \in Workload \ {c} : walk'[d] = walk[d]
  BY <1>1 DEF climb
<1>4. /\ IsWalk(walk'[c]) /\ walk'[c].at = Parent[walk[c].at] /\ walk'[c].recurse = TRUE
      /\ walk'[c].user = walk[c].user /\ walk'[c].agent = walk[c].agent
  BY <1>1, <1>3 DEF IsWalk
<1>5. OthersWait(c)
  BY <1>2, <1>3 DEF OthersWait, Shapes, Workload
<1>6. RequestIsRight(c)'
  BY <1>1, <1>2, <1>4 DEF RequestIsRight, Admitted
<1> QED
  BY <1>2, <1>4, <1>5, <1>6, ShapesKept

LEMMA AuthorizeEffect ==
  ASSUME Shapes, StoreIsTree, GrantsInv, scenario' = scenario, NEW c \in Workload, authorize(c),
         UNCHANGED <<store, locked, conversionVars, socketVars, requestVars>>
  PROVE  /\ Shapes' /\ OthersWait(c) /\ store' = store /\ listeners' = listeners
         /\ call' = call /\ pc[c] = "getAcl" /\ pc'[c] = "operate" /\ call[c].target[2] # Elsewhere
         /\ walk'[c].modes \subseteq walk'[c].user
         /\ [user |-> walk'[c].user, everyone |-> walk'[c].everyone]
              = RightsFrom(store, walk[c].agent, call[c].target[2], walk[c].at)
<1>1. DOMAIN walk = Workload /\ RequestIsRight(c) /\ GrantIsRight(c)
  BY DEF Shapes, GrantsInv
<1>2. /\ store' = store /\ listeners' = listeners /\ call' = call /\ job' = job
      /\ pc[c] = "getAcl" /\ ListFound(c) /\ walk[c].modes \subseteq createAuthorization(c).user
      /\ walk'[c] = createAuthorization(c)
      /\ DOMAIN walk' = Workload /\ \A d \in Workload \ {c} : walk'[d] = walk[d]
  BY <1>1 DEF authorize, ListRead, conversionVars, socketVars, requestVars
<1>3. DOMAIN pc' = Workload /\ pc'[c] = "operate" /\ \A d \in Workload \ {c} : pc'[d] = pc[d]
  BY DEF authorize, Go, Workload
<1>4. walk[c].at \in Paths
  BY <1>2 DEF ListFound, StoreIsTree, Acl
<1>5. call[c].target[2] # Elsewhere /\ call[c].target[2] \in Paths
  BY <1>1, <1>2, <1>4, PathsAssumption DEF GrantIsRight, RequestIsRight
<1>6. walk[c].recurse = (walk[c].at # call[c].target[2])
  BY <1>1, <1>2, <1>5 DEF GrantIsRight, WalkKnows
<1>7. /\ IsWalk(walk'[c]) /\ walk'[c].modes = walk[c].modes
      /\ [user |-> walk'[c].user, everyone |-> walk'[c].everyone]
           = RightsFrom(store, walk[c].agent, call[c].target[2], walk[c].at)
  BY <1>2, <1>4, <1>6, AuthorizationIsRight
<1>8. OthersWait(c)
  BY <1>2, <1>3 DEF OthersWait, Shapes, Workload
<1>9. RequestIsRight(c)'
  BY <1>1, <1>2, <1>3, <1>5, <1>7 DEF RequestIsRight, Admitted, Pcs, Early, Converting, Patching
<1> QED
  BY <1>2, <1>3, <1>5, <1>7, <1>8, <1>9, ShapesKept

LEMMA DenyEffect ==
  ASSUME Shapes, StoreIsTree, GrantsInv, scenario' = scenario, NEW c \in Workload, deny(c)
  PROVE  /\ Shapes' /\ OthersWait(c) /\ walk' = walk /\ store' = store /\ listeners' = listeners
         /\ pc[c] = "getAcl" /\ pc'[c] = "convert"
         /\ call'[c].status \in {401, 403} =>
              LET e == RightsFrom(store, walk[c].agent, call[c].target[2], walk[c].at) IN
              call[c].target[2] # Elsewhere /\ (e.user = {} \/ ~(walk[c].modes \subseteq e.user))
<1>1. RequestIsRight(c) /\ GrantIsRight(c)
  BY DEF Shapes, GrantsInv
<1>2. walk' = walk /\ store' = store /\ listeners' = listeners /\ pc[c] = "getAcl"
  BY DEF deny, ListRead, authorizationVars, socketVars
<1>3. ASSUME NEW status, failNow(c, status)
      PROVE  Shapes' /\ OthersWait(c) /\ pc'[c] = "convert" /\ call'[c].status = status
  <2>1. Fails(c, status)
    BY <1>3, FailEffect DEF failNow
  <2>2. FailsEarly(c) /\ call'[c].status = status
    BY <1>2, <2>1, FailsEarlyEffect
  <2> QED
    BY <2>2, ShapesKept DEF FailsEarly
<1> DEFINE e == RightsFrom(store, walk[c].agent, call[c].target[2], walk[c].at)
<1>4. CASE ListFound(c)
  <2>1. ~(walk[c].modes \subseteq createAuthorization(c).user) /\ failNow(c, refusal(c))
    BY <1>4 DEF deny
  <2>2. walk[c].at \in Paths
    BY <1>4 DEF ListFound, StoreIsTree, Acl
  <2>3. call[c].target[2] # Elsewhere
    BY <1>1, <1>2, <2>2, PathsAssumption DEF GrantIsRight
  <2>4. walk[c].recurse = (walk[c].at # call[c].target[2])
    BY <1>1, <1>2, <2>3 DEF GrantIsRight, WalkKnows
  <2>5. [user |-> createAuthorization(c).user, everyone |-> createAuthorization(c).everyone] = e
    BY <1>4, <2>2, <2>4, AuthorizationIsRight
  <2> HIDE DEF e
  <2>6. e.user = createAuthorization(c).user
    BY <2>5
  <2> QED
    BY <1>2, <1>3, <2>1, <2>3, <2>6 DEF e
<1>5. CASE ~ListFound(c)
  <2>1. walk[c].at \notin DOMAIN Parent /\ failNow(c, walkError(c))
    BY <1>5 DEF deny
  <2>2. CASE walk[c].at # Root
    BY <1>2, <1>3, <2>1, <2>2 DEF walkError
  <2>3. CASE walk[c].at = Root
    <3>1. call[c].target[2] # Elsewhere
      BY <1>1, <1>2, <2>3, PathsAssumption DEF GrantIsRight
    <3>2. Listed(store, walk[c].at) = {}
      BY <1>5, <2>3, PathsAssumption DEF Listed, ListFound
    <3>3. e.user = {}
      BY <3>2 DEF RightsFrom
    <3> HIDE DEF e
    <3> QED
      BY <1>2, <1>3, <2>1, <3>1, <3>3 DEF e
  <2> QED
    BY <2>2, <2>3
<1> QED
  BY <1>4, <1>5

-----------------------------------------------------------------------------
(* Grants.                                                                 *)

\* How the rights at the moment are remembered.
Remembered(d) ==
  /\ effective'[d] = IF pc'[d] = "getAcl" /\ call[d].target[2] # Elsewhere
                     THEN effective[d] \cup {RightsFrom(store', walk'[d].agent, call[d].target[2], call[d].target[2])}
                     ELSE effective[d]
  /\ \/ listChanges'[d] = listChanges[d] /\ (pc[d] = "getAcl" => \A p \in Paths : SameList(p))
     \/ listChanges'[d] = listChanges[d] + 1 /\ pc[d] = "getAcl"

LEMMA SameLists ==
  ASSUME Lists(store) = Lists(store'), NEW p
  PROVE  SameList(p)
<1>1. \A s : Acl(p) \in DOMAIN Lists(s) <=> Acl(p) \in DOMAIN s
  BY DEF Lists, Acl, IsAcl
<1>2. \A s : Acl(p) \in DOMAIN s => Lists(s)[Acl(p)] = s[Acl(p)].list
  BY DEF Lists, Acl, IsAcl
<1> QED
  BY <1>1, <1>2 DEF SameList, Exists

LEMMA RememberEffect ==
  ASSUME Shapes, NEW c \in Workload, Remember(c)
  PROVE  /\ DOMAIN effective' = Workload /\ DOMAIN listChanges' = Workload
         /\ \A d \in Workload : Remembered(d)
<1>1. ASSUME NEW d \in Workload
      PROVE  Remembered(d)
  <2>1. effective'[d] = IF pc'[d] = "getAcl" /\ call[d].target[2] # Elsewhere
                        THEN effective[d] \cup {RightsIn(store', walk'[d].agent, call[d].target[2])}
                        ELSE effective[d]
    BY DEF Remember
  <2>2. listChanges'[d] = IF pc[d] = "getAcl" /\ Lists(store) # Lists(store')
                          THEN listChanges[d] + 1 ELSE listChanges[d]
    BY DEF Remember
  <2>3. Lists(store) = Lists(store') => \A p \in Paths : SameList(p)
    BY SameLists
  <2> QED
    BY <2>1, <2>2, <2>3, RightsAtStart DEF Remembered
<1> QED
  BY <1>1 DEF Remember

\* While a request looks for its list others change lists.
LEMMA WalkGoesOn ==
  ASSUME Shapes, ListsChangeOnce, NEW d \in Workload, GrantIsRight(d), Remembered(d),
         pc[d] = "getAcl", pc'[d] = "getAcl", walk'[d] = walk[d], call'[d] = call[d],
         call[d].target[2] # Elsewhere
  PROVE  WalkKnows(d)'
<1> DEFINE path == call[d].target[2]
           at == walk[d].at
           agent == walk[d].agent
<1>1. WalkKnows(d) /\ listChanges[d] \in Nat
  BY DEF GrantIsRight
<1>2. path \in Paths /\ at \in Paths /\ at \in Above[path] /\ Above[at] \subseteq Above[path]
  BY <1>1, AboveFacts DEF WalkKnows, Shapes, RequestIsRight
<1>3. effective'[d] = effective[d] \cup {RightsFrom(store', agent, path, path)}
  BY DEF Remembered
<1>4. listChanges'[d] = 0 => \A p \in Above[path] \ Above[at] : Acl(p) \notin DOMAIN store'
  <2> SUFFICES ASSUME listChanges'[d] = 0, NEW p \in Above[path] \ Above[at]
               PROVE  Acl(p) \notin DOMAIN store'
    OBVIOUS
  <2>1. listChanges[d] = 0 /\ \A q \in Paths : SameList(q)
    BY <1>1 DEF Remembered
  <2>2. p \in Paths /\ Acl(p) \notin DOMAIN store
    BY <1>1, <1>2, <2>1, AboveFacts DEF WalkKnows
  <2> QED
    BY <2>1, <2>2 DEF SameList, Exists
<1>5. listChanges'[d] <= 1 => RightsFrom(store', agent, path, at) \in effective'[d]
  <2> SUFFICES ASSUME listChanges'[d] <= 1
               PROVE  RightsFrom(store', agent, path, at) \in effective'[d]
    OBVIOUS
  <2>1. listChanges[d] <= 1 /\ RightsFrom(store, agent, path, at) \in effective[d]
    BY <1>1 DEF Remembered, WalkKnows
  <2>2. ASSUME \A p \in Above[at] : SameList(p)
        PROVE  RightsFrom(store', agent, path, at) \in effective'[d]
    BY <1>2, <1>3, <2>1, <2>2, SameRights
  <2>3. CASE listChanges'[d] = listChanges[d]
    BY <1>1, <1>2, <2>2, <2>3, AboveFacts DEF Remembered
  <2>4. CASE listChanges'[d] # listChanges[d]
    <3>1. \A p \in Above[path] \ Above[at] : Acl(p) \notin DOMAIN store
      BY <1>1, <2>4 DEF Remembered, WalkKnows
    <3>2. ASSUME \A p \in Above[path] \ Above[at] : Acl(p) \notin DOMAIN store'
          PROVE  RightsFrom(store', agent, path, at) \in effective'[d]
      BY <1>2, <1>3, <3>2, RightsAbove
    <3>3. Above[path] \subseteq Paths
      BY <1>2, AboveFacts
    <3>4. CASE \E p : \A q \in Paths : q # p => SameList(q)
      <4>1. PICK p : \A q \in Paths : q # p => SameList(q)
        BY <3>4
      <4>2. CASE p \in Above[at]
        BY <3>1, <3>2, <3>3, <4>1, <4>2 DEF SameList, Exists
      <4>3. CASE p \notin Above[at]
        BY <1>2, <2>2, <3>3, <4>1, <4>3
      <4> QED
        BY <4>2, <4>3
    <3>5. CASE \A q \in Paths : Exists(Acl(q))' => Exists(Acl(q))
      BY <3>1, <3>2, <3>3, <3>5 DEF Exists
    <3> QED
      BY <3>4, <3>5 DEF ListsChangeOnce
  <2> QED
    BY <2>3, <2>4
<1> QED
  BY <1>1, <1>4, <1>5 DEF WalkKnows

\* What the other requests were granted stays as it is.
LEMMA OthersKeepGrants ==
  ASSUME Shapes, ListsChangeOnce, NEW c \in Workload, OthersWait(c), NEW d \in Workload \ {c},
         GrantIsRight(d), Remembered(d)
  PROVE  GrantIsRight(d)'
<1>1. pc'[d] = pc[d] /\ walk'[d] = walk[d] /\ call'[d] = call[d]
  BY DEF OthersWait
<1>2. listChanges'[d] \in Nat
  BY DEF Remembered, GrantIsRight
<1>3. CASE pc[d] = "getAcl"
  <2>1. call[d].target[2] # Elsewhere => WalkKnows(d)'
    BY <1>1, <1>3, WalkGoesOn
  <2>2. walk[d].user = {} /\ call[d].status \notin {401, 403}
    BY <1>3 DEF GrantIsRight, Early
  <2>3. GrantWasEffective(d)'
    BY <1>1, <1>3, <2>2 DEF GrantWasEffective
  <2> QED
    BY <1>1, <1>2, <1>3, <2>1, <2>2, <2>3 DEF GrantIsRight
<1>4. CASE pc[d] # "getAcl"
  <2>1. effective'[d] = effective[d] /\ listChanges'[d] = listChanges[d]
    BY <1>1, <1>4 DEF Remembered
  <2> QED
    BY <1>1, <1>4, <2>1 DEF GrantIsRight, GrantWasEffective
<1> QED
  BY <1>3, <1>4

LEMMA LaterKeepsGrant ==
  ASSUME NEW c \in Workload, Later(c), GrantIsRight(c), Remembered(c)
  PROVE  GrantIsRight(c)'
<1>1. /\ pc[c] \notin Early /\ pc'[c] \notin Early \cup {"operate"} /\ walk' = walk
      /\ call'[c].status = call[c].status \/ call'[c].status \notin {401, 403}
  BY DEF Later, GoesOn
<1>2. effective'[c] = effective[c] /\ listChanges'[c] = listChanges[c]
  BY <1>1 DEF Remembered, Early
<1> QED
  BY <1>1, <1>2 DEF GrantIsRight, GrantWasEffective, Early

\* The steps that lead to a grant.
LEMMA ParseKeepsGrant ==
  ASSUME Shapes, scenario' = scenario, NEW c \in Workload, parse(c), GrantIsRight(c), Remembered(c)
  PROVE  GrantIsRight(c)'
<1>1. /\ walk' = walk /\ pc[c] = "new" /\ pc'[c] \in {"authenticate", "convert"}
      /\ call'[c].status = call[c].status \/ call'[c].status \in {400, 500}
  BY ParseEffect
<1>2. walk[c].user = {} /\ call'[c].status \notin {401, 403}
  BY <1>1 DEF GrantIsRight, Early
<1> QED
  BY <1>1, <1>2 DEF GrantIsRight, GrantWasEffective, Remembered

LEMMA AuthenticateKeepsGrant ==
  ASSUME Shapes, scenario' = scenario, NEW c \in Workload, authenticate(c), GrantIsRight(c), Remembered(c)
  PROVE  GrantIsRight(c)'
<1> DEFINE path == call[c].target[2]
<1>1. /\ pc[c] = "authenticate" /\ call'[c].target[2] = path
      /\ \/ pc'[c] = "convert" /\ walk' = walk /\ call'[c].status \notin {401, 403}
         \/ /\ pc'[c] = "getAcl" /\ call'[c].status = call[c].status
            /\ walk'[c].at = path /\ walk'[c].recurse = FALSE /\ walk'[c].user = {}
  BY AuthenticateEffect
<1>2. walk[c].user = {} /\ call[c].status \notin {401, 403}
  BY <1>1 DEF GrantIsRight, Early
<1>3. listChanges'[c] = listChanges[c] /\ listChanges[c] \in Nat
  BY <1>1 DEF GrantIsRight, Remembered
<1>4. CASE pc'[c] = "convert"
  BY <1>1, <1>2, <1>3, <1>4 DEF GrantIsRight, GrantWasEffective
<1>5. CASE pc'[c] = "getAcl"
  <2>1. path # Elsewhere => WalkKnows(c)'
    <3> SUFFICES ASSUME path # Elsewhere PROVE WalkKnows(c)'
      OBVIOUS
    <3>1. path \in Paths /\ path \in Above[path]
      BY AboveFacts DEF Shapes, RequestIsRight
    <3>2. RightsFrom(store', walk'[c].agent, path, path) \in effective'[c]
      BY <1>5 DEF Remembered
    <3> QED
      BY <1>1, <1>5, <3>1, <3>2 DEF WalkKnows
  <2> QED
    BY <1>1, <1>2, <1>3, <1>5, <2>1 DEF GrantIsRight, GrantWasEffective
<1> QED
  BY <1>1, <1>4, <1>5

LEMMA ClimbKeepsGrant ==
  ASSUME Shapes, scenario' = scenario, NEW c \in Workload, climb(c), GrantIsRight(c), Remembered(c),
         UNCHANGED <<store, locked, conversionVars, socketVars, requestVars>>
  PROVE  GrantIsRight(c)'
<1> DEFINE path == call[c].target[2]
           at == walk[c].at
<1>1. /\ store' = store /\ pc' = pc /\ call' = call /\ pc[c] = "getAcl"
      /\ at \in DOMAIN Parent /\ Acl(at) \notin DOMAIN store
      /\ walk'[c].at = Parent[at] /\ walk'[c].recurse = TRUE
      /\ walk'[c].user = walk[c].user /\ walk'[c].agent = walk[c].agent
  BY ClimbEffect
<1>2. walk[c].user = {} /\ call[c].status \notin {401, 403} /\ listChanges'[c] \in Nat
  BY <1>1 DEF GrantIsRight, Remembered, Early
<1>3. path # Elsewhere
  BY <1>1, PathsAssumption DEF GrantIsRight, Paths
<1>4. WalkKnows(c) /\ path \in Paths /\ at \in Paths /\ at \in Above[path]
  BY <1>1, <1>3, AboveFacts DEF GrantIsRight, WalkKnows, Shapes, RequestIsRight
<1>5. /\ Above[at] = {at} \cup Above[Parent[at]] /\ at \notin Above[Parent[at]]
      /\ Parent[at] \in Paths /\ Parent[at] \in Above[Parent[at]] /\ Above[at] \subseteq Above[path]
  BY <1>1, <1>4, AboveFacts
<1>6. Parent[at] # path
  <2> SUFFICES ASSUME Parent[at] = path PROVE FALSE
    OBVIOUS
  <2> QED
    BY <1>4, <1>5
<1>7. listChanges'[c] = 0 => \A p \in Above[path] \ Above[Parent[at]] : Acl(p) \notin DOMAIN store
  BY <1>1, <1>4, <1>5 DEF Remembered, WalkKnows, GrantIsRight
<1>8. RightsFrom(store, walk[c].agent, path, at) = RightsFrom(store, walk[c].agent, path, Parent[at])
  BY <1>1, <1>4, <1>5, RightsAbove
<1>9. listChanges'[c] <= 1 => RightsFrom(store, walk[c].agent, path, Parent[at]) \in effective'[c]
  BY <1>4, <1>8 DEF Remembered, WalkKnows, GrantIsRight
<1>10. WalkKnows(c)'
  BY <1>1, <1>5, <1>6, <1>7, <1>9 DEF WalkKnows
<1> QED
  BY <1>1, <1>2, <1>3, <1>10 DEF GrantIsRight, GrantWasEffective

LEMMA AuthorizeKeepsGrant ==
  ASSUME Shapes, StoreIsTree, GrantsInv, scenario' = scenario, NEW c \in Workload, authorize(c),
         Remembered(c), UNCHANGED <<store, locked, conversionVars, socketVars, requestVars>>
  PROVE  GrantIsRight(c)'
<1> DEFINE e == RightsFrom(store, walk[c].agent, call[c].target[2], walk[c].at)
<1>1. /\ call' = call /\ store' = store /\ pc[c] = "getAcl" /\ pc'[c] = "operate"
      /\ call[c].target[2] # Elsewhere /\ walk'[c].modes \subseteq walk'[c].user
      /\ [user |-> walk'[c].user, everyone |-> walk'[c].everyone] = e
  BY AuthorizeEffect
<1>2. GrantIsRight(c)
  BY DEF GrantsInv
<1>3. effective'[c] = effective[c] /\ call[c].status \notin {401, 403} /\ listChanges[c] \in Nat
  BY <1>1, <1>2 DEF Remembered, GrantIsRight, Early
<1>4. listChanges'[c] \in Nat /\ (listChanges'[c] <= 1 => e \in effective[c])
  BY <1>1, <1>2, <1>3 DEF Remembered, GrantIsRight, WalkKnows
<1> HIDE DEF e
<1>5. e.user = walk'[c].user
  BY <1>1
<1> QED
  BY <1>1, <1>3, <1>4, <1>5 DEF GrantIsRight, GrantWasEffective, Early

LEMMA DenyKeepsGrant ==
  ASSUME Shapes, StoreIsTree, GrantsInv, scenario' = scenario, NEW c \in Workload, deny(c), Remembered(c)
  PROVE  GrantIsRight(c)'
<1> DEFINE e == RightsFrom(store, walk[c].agent, call[c].target[2], walk[c].at)
<1>1. /\ walk' = walk /\ pc[c] = "getAcl" /\ pc'[c] = "convert"
      /\ call'[c].status \in {401, 403} =>
           call[c].target[2] # Elsewhere /\ (e.user = {} \/ ~(walk[c].modes \subseteq e.user))
  BY DenyEffect
<1>2. GrantIsRight(c)
  BY DEF GrantsInv
<1>3. effective'[c] = effective[c] /\ walk[c].user = {} /\ listChanges[c] \in Nat
  BY <1>1, <1>2 DEF Remembered, GrantIsRight, Early
<1>4. /\ listChanges'[c] \in Nat
      /\ listChanges'[c] <= 1 /\ call[c].target[2] # Elsewhere => e \in effective[c]
  BY <1>1, <1>2, <1>3 DEF Remembered, GrantIsRight, WalkKnows
<1> HIDE DEF e
<1> QED
  BY <1>1, <1>3, <1>4 DEF GrantIsRight, GrantWasEffective, Early

-----------------------------------------------------------------------------
(* Subscribers.                                                            *)

\* What a client was told stays told, and it stays subscribed until it goes.
Grows(l, k) ==
  /\ IsListener(k)
  /\ l.state = "closed" => k.state = "closed"
  /\ k.state = "closed" \/ l.subscribedPaths \subseteq k.subscribedPaths
  /\ l.sent \subseteq k.sent

ListenersGrow ==
  DOMAIN listeners' = Sockets /\ \A s \in Sockets : Grows(listeners[s], listeners'[s])

LEMMA MessageEffect ==
  ASSUME NEW l, IsListener(l), NEW type, NEW value
  PROVE  /\ Grows(l, sendMessage(l, type, value))
         /\ sendMessage(l, type, value).state = l.state
         /\ sendMessage(l, type, value).subscribedPaths = l.subscribedPaths
BY DEF IsListener, Grows, sendMessage

LEMMA StopEffect ==
  ASSUME NEW l, IsListener(l)
  PROVE  IsListener(stop(l)) /\ stop(l).state = "closed" /\ stop(l).sent = l.sent
BY DEF IsListener, stop

LEMMA SocketsEffect ==
  ASSUME \A s \in Sockets : IsListener(listeners[s]), NotificationsStep
  PROVE  ListenersGrow
<1>1. PICK s \in Sockets : start(s) \/ onMessage(s) \/ close(s)
  BY DEF NotificationsStep
<1> DEFINE l == listeners[s]
<1>2. IsListener(l)
  OBVIOUS
<1> SUFFICES ASSUME NEW k, listeners' = [listeners EXCEPT ![s] = k] => Grows(l, k),
                    listeners' = [listeners EXCEPT ![s] = k]
             PROVE  ListenersGrow
  <2>1. \E k : listeners' = [listeners EXCEPT ![s] = k]
    BY <1>1 DEF start, onMessage, close
  <2>2. ASSUME NEW k, listeners' = [listeners EXCEPT ![s] = k]
        PROVE  Grows(l, k)
    <3> HIDE DEF l
    <3>1. listeners'[s] = k
      BY <2>2 DEF Sockets
    <3>2. CASE start(s)
      <4> DEFINE opened == [l EXCEPT !.state = "open"]
      <4>1. IsListener(opened) /\ l.state = "new" /\ opened.state = "open"
            /\ opened.subscribedPaths = l.subscribedPaths /\ opened.sent = l.sent
        BY <1>2, <3>2 DEF start, IsListener, l
      <4> HIDE DEF opened
      <4> DEFINE greeted == sendMessage(opened, "protocol", "solid-0.1")
      <4>2. IsListener(greeted) /\ greeted.state = "open" /\ Grows(opened, greeted)
            /\ greeted.subscribedPaths = l.subscribedPaths
        BY <4>1, MessageEffect DEF Grows
      <4>3. \/ k = sendMessage(greeted, "warning", "protocol")
            \/ k = greeted
            \/ k = stop(sendMessage(greeted, "error", "protocol"))
        BY <3>1, <3>2 DEF start, opened, l, Sockets
      <4> HIDE DEF greeted
      <4>4. CASE k = sendMessage(greeted, "warning", "protocol")
        BY <4>1, <4>2, <4>4, MessageEffect DEF Grows
      <4>5. CASE k = greeted
        BY <4>1, <4>2, <4>5 DEF Grows
      <4>6. CASE k = stop(sendMessage(greeted, "error", "protocol"))
        BY <4>1, <4>2, <4>6, MessageEffect, StopEffect DEF Grows
      <4> QED
        BY <4>3, <4>4, <4>5, <4>6
    <3>3. CASE onMessage(s)
      <4> DEFINE line == Head(script[s])
                 more == [l EXCEPT !.subscribedPaths = @ \cup {line.resource}]
      <4>1. IsListener(more) /\ more.state = l.state /\ more.sent = l.sent
            /\ l.subscribedPaths \subseteq more.subscribedPaths
        BY <1>2 DEF IsListener
      <4>2. \/ k = sendMessage(l, "error", line.resource)
            \/ k = sendMessage(more, "ack", line.resource)
            \/ k = sendMessage(l, "warning", line.type)
        BY <3>1, <3>3 DEF onMessage, subscribe, l, Sockets
      <4> HIDE DEF line, more
      <4>3. CASE k = sendMessage(more, "ack", line.resource)
        BY <4>1, <4>3, MessageEffect DEF Grows
      <4> QED
        BY <1>2, <4>2, <4>3, MessageEffect
    <3>4. CASE close(s)
      <4>1. k = stop(l)
        BY <3>1, <3>4 DEF close, l, Sockets
      <4> QED
        BY <1>2, <4>1, StopEffect DEF Grows
    <3> QED
      BY <1>1, <3>2, <3>3, <3>4
  <2> QED
    BY <2>1, <2>2
<1>3. \A t \in Sockets : Grows(listeners[t], listeners[t])
  BY DEF Grows
<1> QED
  BY <1>3 DEF ListenersGrow, Sockets

LEMMA AnnouncementEffect ==
  ASSUME NEW l, IsListener(l), NEW changed, NEW c
  PROVE  LET k == onResourceChanged(l, changed, c) IN
         /\ Grows(l, k) /\ k.state = l.state
         /\ \A r \in changed \cap l.subscribedPaths : <<"pub", <<r, c>>>> \in k.sent
BY DEF IsListener, Grows, onResourceChanged

\* A request tells what it has told, whatever the sockets do.
LEMMA TellingGoesOn ==
  ASSUME NEW d \in Workload, TellingIsRight(d), ListenersGrow, pc'[d] = pc[d],
         call'[d] = call[d], expected'[d] = expected[d]
  PROVE  TellingIsRight(d)'
BY DEF TellingIsRight, ListenersGrow, Grows, Sockets

LEMMA RequestsTell ==
  ASSUME Shapes, TellingInv, NEW c \in Workload, OthersWait(c), Remember(c),
         \/ Announces(c) /\ listeners' = listeners /\ pc[c] \notin {"emit", "answered"}
         \/ /\ store' = store /\ pc[c] = "emit" /\ pc'[c] = "answered"
            /\ listeners' = [s \in Sockets |-> onResourceChanged(listeners[s], call[c].changed, c)]
  PROVE  TellingInv'
<1> DEFINE told == {e \in Sockets \X Altered(c) : e[2] \in listeners[e[1]].subscribedPaths}
<1>1. /\ DOMAIN expected' = Workload /\ \A d \in Workload \ {c} : expected'[d] = expected[d]
      /\ store' = store => expected'[c] = expected[c]
      /\ store' # store => expected'[c] = told
  BY DEF Remember, TellingInv
<1>2. ListenersGrow
  <2>1. CASE listeners' = listeners
    BY <2>1 DEF TellingInv, ListenersGrow, Grows, Sockets
  <2>2. CASE listeners' = [s \in Sockets |-> onResourceChanged(listeners[s], call[c].changed, c)]
    BY <2>2, AnnouncementEffect DEF TellingInv, ListenersGrow
  <2> QED
    BY <2>1, <2>2
<1>3. ASSUME NEW d \in Workload \ {c}
      PROVE  TellingIsRight(d)'
  BY <1>1, <1>2, TellingGoesOn DEF TellingInv, OthersWait
<1>4. TellingIsRight(c)'
  <2>1. TellingIsRight(c)
    BY DEF TellingInv
  <2>2. CASE Announces(c) /\ listeners' = listeners /\ pc[c] \notin {"emit", "answered"}
    <3>1. CASE store' = store
      BY <1>1, <2>1, <2>2, <3>1 DEF TellingIsRight
    <3>2. CASE store' # store
      <4>1. pc'[c] = "emit" /\ Altered(c) \subseteq call'[c].changed
        BY <2>2, <3>2 DEF Announces
      <4>2. \A e \in told : /\ e[1] \in Sockets /\ e[2] \in Altered(c)
                            /\ e[2] \in listeners[e[1]].subscribedPaths
        OBVIOUS
      <4>3. expected'[c] = told /\ Sockets' = Sockets
        BY <1>1, <2>2, <3>2 DEF Sockets
      <4> HIDE DEF told
      <4> QED
        BY <2>2, <4>1, <4>2, <4>3 DEF TellingIsRight
    <3> QED
      BY <3>1, <3>2
  <2>3. CASE /\ store' = store /\ pc[c] = "emit" /\ pc'[c] = "answered"
             /\ listeners' = [s \in Sockets |-> onResourceChanged(listeners[s], call[c].changed, c)]
    <3>1. ASSUME NEW e \in expected[c]
          PROVE  /\ e[1] \in Sockets
                 /\ listeners'[e[1]].state = "closed" \/ <<"pub", <<e[2], c>>>> \in listeners'[e[1]].sent
      <4>1. /\ e[1] \in Sockets /\ e[2] \in call[c].changed
            /\ listeners[e[1]].state = "closed" \/ e[2] \in listeners[e[1]].subscribedPaths
        BY <2>1, <2>3 DEF TellingIsRight
      <4>2. IsListener(listeners[e[1]]) /\ listeners'[e[1]] = onResourceChanged(listeners[e[1]], call[c].changed, c)
        BY <2>3, <4>1 DEF TellingInv
      <4> QED
        BY <4>1, <4>2, AnnouncementEffect
    <3>2. expected'[c] = expected[c] /\ Sockets' = Sockets
      BY <1>1, <1>2, <2>3 DEF ListenersGrow, Sockets
    <3> QED
      BY <2>3, <3>1, <3>2 DEF TellingIsRight
  <2> QED
    BY <2>2, <2>3
<1>5. Workload' = Workload /\ \A s \in Sockets' : IsListener(listeners[s])'
  BY <1>2 DEF OthersWait, ListenersGrow, Grows, Sockets
<1> QED
  BY <1>1, <1>3, <1>4, <1>5 DEF TellingInv

-----------------------------------------------------------------------------
(* The invariant.                                                          *)

\* What every step of a request does.
Keeps(c) ==
  /\ Shapes' /\ StoreIsTree' /\ OthersWait(c) /\ ListsChangeOnce /\ GrantIsRight(c)'
  /\ \/ Announces(c) /\ listeners' = listeners /\ pc[c] \notin {"emit", "answered"}
     \/ /\ store' = store /\ pc[c] = "emit" /\ pc'[c] = "answered"
        /\ listeners' = [s \in Sockets |-> onResourceChanged(listeners[s], call[c].changed, c)]

LEMMA RequestKeeps ==
  ASSUME RInv, scenario' = scenario, NEW c \in Workload, RequestStep(c), Remember(c)
  PROVE  Keeps(c)
<1> USE DEF RInv
<1>1. GrantIsRight(c) /\ Remembered(c)
  BY RememberEffect DEF GrantsInv
<1>2. CASE parse(c)
  BY <1>1, <1>2, ParseEffect, ParseKeepsGrant, UnchangedStore DEF Keeps
<1>3. CASE authenticate(c)
  BY <1>1, <1>3, AuthenticateEffect, AuthenticateKeepsGrant, UnchangedStore DEF Keeps
<1>4. CASE getAclRecursive(c)
  <2>1. CASE climb(c) /\ UNCHANGED <<store, locked, conversionVars, socketVars, requestVars>>
    BY <1>1, <2>1, ClimbEffect, ClimbKeepsGrant, UnchangedStore DEF Keeps
  <2>2. CASE authorize(c) /\ UNCHANGED <<store, locked, conversionVars, socketVars, requestVars>>
    BY <1>1, <2>2, AuthorizeEffect, AuthorizeKeepsGrant, UnchangedStore DEF Keeps
  <2>3. CASE deny(c)
    BY <1>1, <2>3, DenyEffect, DenyKeepsGrant, UnchangedStore DEF Keeps
  <2> QED
    BY <1>4, <2>1, <2>2, <2>3 DEF getAclRecursive
<1>5. CASE Writes(c)
  <2>1. Written(c)
    BY <1>5, WritesEffect
  <2> QED
    BY <1>1, <2>1, LaterKeepsShapes, LaterKeepsGrant DEF Keeps, Written, Later
<1>6. CASE Quiet(c)
  <2>1. Later(c) /\ store' = store /\ listeners' = listeners /\ pc[c] \notin {"emit", "answered"}
    BY <1>6, QuietIsLater
  <2> QED
    BY <1>1, <2>1, LaterKeepsShapes, LaterKeepsGrant, UnchangedStore DEF Keeps, Later
<1>7. CASE emit(c)
  <2>1. /\ Later(c) /\ store' = store /\ pc[c] = "emit" /\ pc'[c] = "answered"
        /\ listeners' = [s \in Sockets |-> onResourceChanged(listeners[s], call[c].changed, c)]
    BY <1>7, EmitEffect
  <2> QED
    BY <1>1, <2>1, LaterKeepsShapes, LaterKeepsGrant, UnchangedStore DEF Keeps, Later
<1>8. parse(c) \/ authenticate(c) \/ getAclRecursive(c) \/ Writes(c) \/ Quiet(c) \/ emit(c)
  BY Zenon DEF RequestStep, Writes, Quiet
<1> QED
  BY <1>2, <1>3, <1>4, <1>5, <1>6, <1>7, <1>8

LEMMA RInvInit ==
  Init => RInv
<1> SUFFICES ASSUME Init PROVE RInv
  OBVIOUS
<1>1. /\ scenario \in Scenarios /\ Workload = DOMAIN Requests /\ store = scenario.store
      /\ \A c \in Workload : /\ pc[c] = "new" /\ walk[c] = NoWalk /\ call[c] = NoCall /\ job[c] = NoJob
                             /\ effective[c] = {} /\ listChanges[c] = 0 /\ expected[c] = {}
      /\ DOMAIN walk = Workload /\ DOMAIN call = Workload /\ DOMAIN job = Workload
      /\ DOMAIN effective = Workload /\ DOMAIN listChanges = Workload /\ DOMAIN expected = Workload
      /\ \A s \in Sockets : listeners[s] = NewListener
  BY DEF Init, ConversionInit, NotificationsInit, Workload, Sockets
<1>2. IsWalk(NoWalk) /\ IsCall(NoCall) /\ IsJob(NoJob) /\ IsListener(NewListener)
  BY DEF IsWalk, NoWalk, IsCall, NoCall, IsJob, NoJob, IsListener, NewListener
<1>3. /\ NoCall.target \in {"subject", "acl"} \X (Paths \cup {Elsewhere}) /\ NoCall.status = 0
      /\ NoWalk.user = {}
  BY DEF NoCall, NoWalk, Subject
<1>4. Shapes
  BY <1>1, <1>2, <1>3 DEF Shapes, RequestIsRight, Admitted, Pcs, Early, Converting, Patching
<1>5. StoreIsTree
  BY <1>1, ScenariosAssumption DEF StoreIsTree, Exists
<1>6. GrantsInv
  BY <1>1, <1>3 DEF GrantsInv, GrantIsRight, GrantWasEffective, Early
<1>7. TellingInv
  BY <1>1, <1>2 DEF TellingInv, TellingIsRight
<1> QED
  BY <1>4, <1>5, <1>6, <1>7 DEF RInv

LEMMA RInvStep ==
  RInv /\ [Next]_vars => RInv'
<1> SUFFICES ASSUME RInv, [Next]_vars PROVE RInv'
  OBVIOUS
<1>1. ASSUME scenario' = scenario, NEW c \in Workload, RequestStep(c), Remember(c)
      PROVE  RInv'
  <2>1. Keeps(c)
    BY <1>1, RequestKeeps
  <2>2. /\ DOMAIN effective' = Workload /\ DOMAIN listChanges' = Workload
        /\ \A d \in Workload : Remembered(d)
    BY <1>1, RememberEffect DEF RInv
  <2>3. ASSUME NEW d \in Workload \ {c}
        PROVE  GrantIsRight(d)'
    BY <2>1, <2>2, OthersKeepGrants DEF RInv, GrantsInv, Keeps
  <2>4. GrantsInv'
    BY <2>1, <2>2, <2>3 DEF GrantsInv, Keeps, OthersWait
  <2>5. TellingInv'
    BY <1>1, <2>1, RequestsTell DEF RInv, Keeps
  <2> QED
    BY <2>1, <2>4, <2>5 DEF RInv, Keeps
<1>2. ASSUME UNCHANGED <<scenario, pc, conversionVars, authorizationVars, requestVars, history>>
      PROVE  Shapes' /\ StoreIsTree' /\ GrantsInv'
  <2>1. /\ scenario' = scenario /\ pc' = pc /\ job' = job /\ store' = store /\ walk' = walk /\ call' = call
        /\ effective' = effective /\ listChanges' = listChanges
    BY <1>2 DEF conversionVars, authorizationVars, requestVars, history
  <2>2. Shapes'
    BY <2>1 DEF RInv, Shapes, Workload, Requests, RequestIsRight, Admitted
  <2>3. StoreIsTree'
    BY <2>1 DEF RInv, StoreIsTree, Exists
  <2>4. GrantsInv'
    BY <2>1 DEF RInv, GrantsInv, GrantIsRight, WalkKnows, GrantWasEffective, Workload
  <2> QED
    BY <2>2, <2>3, <2>4
<1>3. ASSUME UNCHANGED scenario, NotificationsStep,
             UNCHANGED <<pc, conversionVars, authorizationVars, requestVars, history>>
      PROVE  RInv'
  <2>1. Shapes' /\ StoreIsTree' /\ GrantsInv'
    BY <1>2, <1>3
  <2>2. ListenersGrow
    BY <1>3, SocketsEffect DEF RInv, TellingInv
  <2>3. pc' = pc /\ call' = call /\ expected' = expected /\ Workload' = Workload
    BY <1>3 DEF requestVars, history, Workload
  <2>4. \A d \in Workload : TellingIsRight(d)'
    BY <2>2, <2>3, TellingGoesOn DEF RInv, TellingInv
  <2>5. \A s \in Sockets' : IsListener(listeners[s])'
    BY <2>2 DEF ListenersGrow, Grows, Sockets
  <2>6. TellingInv'
    BY <2>3, <2>4, <2>5 DEF RInv, TellingInv
  <2> QED
    BY <2>1, <2>6 DEF RInv
<1>4. CASE UNCHANGED vars
  <2>1. Shapes' /\ StoreIsTree' /\ GrantsInv'
    BY <1>2, <1>4 DEF vars
  <2>2. pc' = pc /\ call' = call /\ expected' = expected /\ listeners' = listeners
    BY <1>4 DEF vars, requestVars, history, socketVars
  <2>3. TellingInv'
    BY <2>2 DEF RInv, TellingInv, TellingIsRight, Sockets, Workload
  <2> QED
    BY <2>1, <2>3 DEF RInv
<1> QED
  BY <1>1, <1>3, <1>4 DEF Next

\* Requests, resources, rights and subscriptions are as the steps expect them,
\* whatever requests and sockets do at the same time.
THEOREM RInvHolds ==
  Spec => []RInv
BY RInvInit, RInvStep, PTL DEF Spec

\* Whatever lists say and wherever one of them is changed during a walk from
\* container to container (WebAclAuthorizer), a request is granted rights that
\* its agent had, and is refused only when they were not enough, at one moment
\* of the walk.
THEOREM GrantsWereEffectiveHolds ==
  Spec => []GrantsWereEffective
<1>1. RInv => GrantsWereEffective
  BY DEF RInv, GrantsInv, GrantIsRight, GrantWasEffective, GrantsWereEffective
<1> QED
  BY <1>1, RInvHolds, PTL

\* Whoever was subscribed when a request changed a resource, and still listens,
\* has been told when the request is answered (MonitoringStore.emitChanged).
THEOREM SubscribersHearOfChangesHolds ==
  Spec => []SubscribersHearOfChanges
<1>1. RInv => SubscribersHearOfChanges
  BY DEF RInv, TellingInv, TellingIsRight, SubscribersHearOfChanges
<1> QED
  BY <1>1, RInvHolds, PTL

-----------------------------------------------------------------------------
(* Types, statuses and locks.                                              *)

Refusals == {400, 401, 403, 404, 405, 409, 500, 501}
Statuses == {0, 200, 201, 205} \cup Refusals

\* A type that preferences are content with.
Suits(type, preferences) == getTypeWeight(type, cleanPreferences(preferences)) > 0

WalkIsRight(w) == w.modes \cup w.user \cup w.everyone \subseteq Modes /\ w.at \in Paths \cup {Elsewhere}

CallIsRight(k) == k.type \in Types /\ k.status \in Statuses /\ IsWeighing(k.preferences)

JobIsRight(j) ==
  /\ j.from \in Types /\ IsWeighing(j.preferences)
  /\ j.result = NoType \/ (j.result \in Types /\ Suits(j.result, j.preferences))

AnswerIsRight(a) == a.type \in Types /\ a.status \in Statuses

\* What a request wants to be told in, and converts for.
Wanted(c) ==
  IF CanParse(Requests[c]) THEN Preferences(Requests[c].headers) ELSE Only(TextPlain)

ConvertsFor(c, then) == pc[c] = then \/ (pc[c] \in Converting /\ job[c].then = then)

NegotiationIsRight(c) ==
  /\ pc[c] # "new" => call[c].preferences = Wanted(c)
  /\ ~CanParse(Requests[c]) => \/ pc[c] \in {"new", "answered"}
                               \/ ConvertsFor(c, "respondError") /\ call[c].status \in {400, 500}
  /\ ConvertsFor(c, "respondError") => call[c].status \in Refusals
  /\ ConvertsFor(c, "respond") \/ ConvertsFor(c, "respondError") => job[c].preferences = Wanted(c)
  /\ pc[c] = "emit" => call[c].status \in {201, 205}
  /\ pc[c] = "answered" => AnswerIsAccepted(c)

RequestIsTyped(c) ==
  /\ WalkIsRight(walk[c]) /\ CallIsRight(call[c]) /\ JobIsRight(job[c]) /\ AnswerIsRight(answer[c])
  /\ NegotiationIsRight(c)

\* The types that something can be converted to.
Known == Types \ {NoType}

CacheIsRight == cache \in Seq(ChainPaths(Known)) /\ Len(cache) <= setup.cacheSize

StoreIsTyped == \A r \in DOMAIN store : store[r].type \in Types

TypesInv ==
  /\ CacheIsRight /\ StoreIsTyped /\ DOMAIN answer = Workload
  /\ \A c \in Workload : RequestIsTyped(c)

\* A patch holds the lock of what it is about, until it is written or given up.
HoldsLock(c) == pc[c] \in Patching \/ (pc[c] \in Converting /\ job[c].then \in Patching)

LocksInv ==
  /\ \A path \in locked : \E c \in Workload : HoldsLock(c) /\ Target(c)[2] = path
  /\ \A c \in Workload : HoldsLock(c) => Target(c)[2] \in locked
  /\ \A c, d \in Workload : HoldsLock(c) /\ HoldsLock(d) /\ Target(c)[2] = Target(d)[2] => c = d

-----------------------------------------------------------------------------
(* Preferences, and the types that suit them.                              *)

\* The types that are known are those of the settings, requests and resources.
LEMMA SetupFacts ==
  ASSUME Shapes
  PROVE  /\ scenario \in Scenarios /\ setup.cacheSize \in Nat
         /\ OutputsAreIn(Known) /\ ReplacementsAreIn(Known)
         /\ \A c \in Workload : Requests[c].body.type \in Types
         /\ setup.constant.type \in Known
         /\ {TextPlain, Turtle, Quads, Error, NoType} \subseteq Types
<1>1. scenario \in Scenarios
  BY DEF Shapes
<1>2. setup.cacheSize \in Nat
  BY <1>1, SetupsAssumption, Zenon DEF setup
<1> DEFINE Outputs(i) == {t.value : t \in ToSet(converters[i].output)}
           Replacing(i) == ToSet(setup.replacements[i].to)
<1>3. OutputsAreIn(Known)
  <2>1. \A i \in DOMAIN converters : Outputs(i) \subseteq Types
    BY DEF Types
  <2>2. \A i \in DOMAIN converters : Outputs(i) \subseteq KnownTypes
    <3>1. \A converter \in ToSet(converters) : \A t \in ToSet(converter.output) : t.value \in KnownTypes
      BY <1>1, SetupsAssumption, Zenon DEF setup, converters
    <3>2. \A i \in DOMAIN converters : converters[i] \in ToSet(converters)
      BY DEF ToSet
    <3> QED
      BY <3>1, <3>2
  <2>3. \A i \in DOMAIN converters : Outputs(i) \subseteq Known
    BY <2>1, <2>2 DEF Known, KnownTypes
  <2> QED
    BY <2>3 DEF OutputsAreIn
<1>4. ReplacementsAreIn(Known)
  <2>1. \A i \in DOMAIN setup.replacements : Replacing(i) \subseteq Types
    BY DEF Types
  <2>2. \A i \in DOMAIN setup.replacements : Replacing(i) \subseteq KnownTypes
    <3>1. \A replacement \in ToSet(setup.replacements) : ToSet(replacement.to) \subseteq KnownTypes
      BY <1>1, SetupsAssumption, Zenon DEF setup
    <3>2. \A i \in DOMAIN setup.replacements : setup.replacements[i] \in ToSet(setup.replacements)
      BY DEF ToSet
    <3> QED
      BY <3>1, <3>2
  <2> QED
    BY <2>1, <2>2 DEF ReplacementsAreIn, Known, KnownTypes
<1>6. setup.constant.type \in Known
  <2>1. setup.constant.type \in KnownTypes
    BY <1>1, SetupsAssumption, Zenon DEF setup
  <2>2. setup.constant.type \in Types
    BY DEF Types
  <2> QED
    BY <2>1, <2>2 DEF Known, KnownTypes
<1>5. /\ \A c \in Workload : Requests[c].body.type \in Types
      /\ {TextPlain, Turtle, Quads, Error, NoType} \subseteq Types
  BY DEF Types
<1> QED
  BY <1>1, <1>2, <1>3, <1>4, <1>5, <1>6

\* They are pairs.
LEMMA TypesArePairs ==
  ASSUME Shapes, NEW type \in Types
  PROVE  type = <<type[1], type[2]>>
<1>1. scenario \in Scenarios
  BY DEF Shapes
<1>2. \A t \in Types : t = <<t[1], t[2]>>
  <2>1. \A i \in DOMAIN converters : \A t \in ToSet(converters[i].output) : t.value \in MediaTypes
    <3>1. \A converter \in ToSet(converters) : \A t \in ToSet(converter.output) : t.value \in KnownTypes
      BY <1>1, SetupsAssumption, Zenon DEF setup, converters
    <3>2. \A i \in DOMAIN converters : converters[i] \in ToSet(converters)
      BY DEF ToSet
    <3> QED
      BY <3>1, <3>2 DEF KnownTypes
  <2>2. \A i \in DOMAIN setup.replacements : ToSet(setup.replacements[i].to) \subseteq MediaTypes
    <3>1. \A replacement \in ToSet(setup.replacements) : ToSet(replacement.to) \subseteq KnownTypes
      BY <1>1, SetupsAssumption, Zenon DEF setup
    <3>2. \A i \in DOMAIN setup.replacements : setup.replacements[i] \in ToSet(setup.replacements)
      BY DEF ToSet
    <3> QED
      BY <3>1, <3>2 DEF KnownTypes
  <2>3. setup.constant.type \in MediaTypes
    <3>1. setup.constant.type \in KnownTypes
      BY <1>1, SetupsAssumption, Zenon DEF setup
    <3> QED
      BY <3>1 DEF KnownTypes
  <2>4. \A r \in DOMAIN scenario.store : scenario.store[r].type \in MediaTypes
    BY <1>1, ScenariosAssumption, Zenon
  <2>5. \A c \in Workload : Requests[c].body.type \in MediaTypes
    <3>1. DOMAIN Requests = Workload
      BY DEF Shapes
    <3> QED
      BY <1>1, <3>1, ScenariosAssumption DEF Requests
  <2>6. \A t \in {TextPlain, Turtle, Quads, Error, NoType} : t = <<t[1], t[2]>>
    BY DEF TextPlain, Turtle, Quads, Error, NoType
  <2>7. \A t \in MediaTypes : t = <<t[1], t[2]>>
    BY DEF MediaTypes
  <2> HIDE DEF MediaTypes
  <2>8. \A t \in Types : t \in MediaTypes \/ t \in {TextPlain, Turtle, Quads, Error, NoType}
    BY <2>1, <2>2, <2>3, <2>4, <2>5 DEF Types
  <2> QED
    BY <2>6, <2>7, <2>8
<1> QED
  BY <1>2

\* Of several weights of a range the least is one of them.
LEMMA LeastWeight ==
  ASSUME NEW S \in SUBSET Nat, S # {}
  PROVE  Least(S) \in S /\ \A x \in S : Least(S) <= x
<1>1. \E x \in S : \A y \in S : x <= y
  BY LeastNumber
<1> QED
  BY <1>1, Zenon DEF Least

\* Each part of an Accept header has a weight,
LEMMA AcceptWeight ==
  ASSUME NEW part
  PROVE  parseAcceptPart(part).weight \in Nat
<1> DEFINE groups == Split(part, ";")
           parameters == [i \in 1 .. Len(groups) - 1 |-> parseParameter(groups[i + 1])]
           qs == {i \in DOMAIN parameters : Text(parameters[i].name) = "q"}
           q == Text(parameters[Greatest(qs)].value)
<1>1. parseAcceptPart(part).weight =
        IF qs = {} THEN One ELSE IF q \in DOMAIN QValue THEN QValue[q] ELSE 0
  BY Zenon DEF parseAcceptPart
<1> HIDE DEF qs, q
<1> QED
  BY <1>1, WeightsAssumption

\* and the preferences are made of these parts.
LEMMA PreferenceFacts ==
  ASSUME NEW headers
  PROVE  LET parts == parseAccept(headers.accept)
             preferences == Preferences(headers)
         IN  /\ DOMAIN preferences = {p.range : p \in parts}
             /\ IsWeighing(preferences)
             /\ \A r \in DOMAIN preferences :
                  \E p \in parts : p.range = r /\ p.weight = preferences[r]
             /\ \A p \in parts : p.weight \in Nat /\ preferences[p.range] <= p.weight
<1> DEFINE parts == parseAccept(headers.accept)
           weights(r) == {p.weight : p \in {q \in parts : q.range = r}}
<1>1. \A p \in parts : p.weight \in Nat
  BY AcceptWeight DEF parseAccept
<1>2. Preferences(headers) = [r \in {p.range : p \in parts} |-> Least(weights(r))]
  BY DEF Preferences
<1> HIDE DEF parts
<1>3. ASSUME NEW r \in {p.range : p \in parts}
      PROVE  /\ Least(weights(r)) \in weights(r) /\ weights(r) \in SUBSET Nat
             /\ \A w \in weights(r) : Least(weights(r)) <= w
  <2>1. weights(r) \in SUBSET Nat /\ weights(r) # {}
    BY <1>1
  <2> HIDE DEF weights
  <2> QED
    BY <2>1, LeastWeight
<1>4. ASSUME NEW p \in parts
      PROVE  Preferences(headers)[p.range] <= p.weight
  <2>1. p.range \in {q.range : q \in parts} /\ p.weight \in weights(p.range)
    OBVIOUS
  <2> HIDE DEF weights
  <2> QED
    BY <1>2, <1>3, <2>1
<1>5. DOMAIN Preferences(headers) = {p.range : p \in parts}
  BY <1>2
<1>6. ASSUME NEW r \in DOMAIN Preferences(headers)
      PROVE  /\ Preferences(headers)[r] \in Nat
             /\ \E p \in parts : p.range = r /\ p.weight = Preferences(headers)[r]
  <2>1. Preferences(headers)[r] \in weights(r) /\ weights(r) \in SUBSET Nat
    <3> HIDE DEF weights
    <3> QED
      BY <1>2, <1>3, <1>5
  <2> QED
    BY <2>1
<1> QED
  BY <1>1, <1>4, <1>5, <1>6 DEF IsWeighing, parts

LEMMA WantedIsWeighing ==
  ASSUME NEW c
  PROVE  IsWeighing(Wanted(c)) /\ IsWeighing(Only(TextPlain))
<1>1. IsWeighing(Only(TextPlain))
  BY WeightsAssumption DEF IsWeighing, Only
<1> QED
  BY <1>1, PreferenceFacts DEF Wanted

\* Only plain text suits those who want nothing else.
LEMMA PlainSuits ==
  ASSUME NEW type, Suits(type, Only(TextPlain))
  PROVE  type = TextPlain
<1> DEFINE clean == cleanPreferences(Only(TextPlain))
<1>1. /\ DOMAIN clean = {TextPlain, InternalAll} /\ clean[InternalAll] = 0
  BY DEF cleanPreferences, Only, Nothing, TextPlain, InternalAll
<1> HIDE DEF clean
<1>2. All \notin DOMAIN clean /\ \A x : <<x, "*">> # TextPlain
  BY <1>1 DEF All, TextPlain, InternalAll
<1>3. getTypeWeight(type, clean) > 0
  BY DEF Suits, clean
<1>4. \/ getTypeWeight(type, clean) = 0
      \/ type \in DOMAIN clean /\ getTypeWeight(type, clean) = clean[type]
      \/ /\ <<type[1], "*">> \in DOMAIN clean
         /\ getTypeWeight(type, clean) = clean[<<type[1], "*">>]
      \/ All \in DOMAIN clean
  BY TypeWeightFacts, Zenon
<1> QED
  BY <1>1, <1>2, <1>3, <1>4

\* The wider a range, the less specific it is.
LEMMA SpecificityFacts ==
  ASSUME NEW a, NEW b
  PROVE  /\ Specificity(<<a, b>>) \in Nat /\ Specificity(<<a, "*">>) \in Nat /\ Specificity(All) \in Nat
         /\ <<a, b>> # <<a, "*">> => Specificity(<<a, "*">>) < Specificity(<<a, b>>)
         /\ <<a, "*">> # All => Specificity(All) < Specificity(<<a, "*">>)
<1> DEFINE fixed(r) == {i \in 1 .. 2 : r[i] # "*"}
<1>1. \A r : IsFiniteSet(fixed(r)) /\ Cardinality(fixed(r)) \in Nat
  BY FS_Interval, FS_Subset, FS_CardinalityType
<1>2. ASSUME NEW r, NEW s, fixed(r) \subseteq fixed(s), fixed(r) # fixed(s)
      PROVE  Cardinality(fixed(r)) < Cardinality(fixed(s))
  <2> HIDE DEF fixed
  <2>1. Cardinality(fixed(r)) <= Cardinality(fixed(s)) /\ Cardinality(fixed(r)) # Cardinality(fixed(s))
    BY <1>1, <1>2, FS_Subset
  <2> QED
    BY <1>1, <2>1
<1>3. fixed(All) \subseteq fixed(<<a, "*">>) /\ fixed(<<a, "*">>) \subseteq fixed(<<a, b>>)
  BY DEF All
<1>4. <<a, b>> # <<a, "*">> => 2 \in fixed(<<a, b>>) /\ 2 \notin fixed(<<a, "*">>)
  OBVIOUS
<1>5. <<a, "*">> # All => 1 \in fixed(<<a, "*">>) /\ 1 \notin fixed(All)
  BY DEF All
<1> HIDE DEF fixed
<1> QED
  BY <1>1, <1>2, <1>3, <1>4, <1>5 DEF Specificity, fixed

\* Of some ranges that cover a type, the one that getTypeWeight takes is the most
\* specific one.
LEMMA MostSpecific ==
  ASSUME NEW type, type = <<type[1], type[2]>>, NEW ranges, \A q \in ranges : Covers(q, type),
         NEW r \in ranges, type \in ranges => r = type,
         type \notin ranges /\ <<type[1], "*">> \in ranges => r = <<type[1], "*">>,
         NEW q \in ranges
  PROVE  (\A s \in ranges : Specificity(s) <= Specificity(q)) <=> q = r
<1> DEFINE wide == <<type[1], "*">>
           own == Specificity(type)
           ofWide == Specificity(wide)
           ofAll == Specificity(All)
<1>1. /\ own \in Nat /\ ofWide \in Nat /\ ofAll \in Nat
      /\ type # wide => ofWide < own
      /\ wide # All => ofAll < ofWide
  BY SpecificityFacts
<1>2. ranges \subseteq {type, wide, All}
  BY DEF Covers
<1> HIDE DEF wide, own, ofWide, ofAll
<1>3. \A s \in ranges : \/ s = type /\ Specificity(s) = own
                        \/ s = wide /\ Specificity(s) = ofWide
                        \/ s = All /\ Specificity(s) = ofAll
  BY <1>2 DEF own, ofWide, ofAll
<1>4. \A s \in ranges : s # r => Specificity(s) < Specificity(r)
  <2> TAKE s \in ranges
  <2>1. CASE type \in ranges
    BY <1>1, <1>2, <2>1 DEF own, ofWide, ofAll, wide
  <2>2. CASE type \notin ranges /\ wide \in ranges
    BY <1>1, <1>2, <2>2 DEF own, ofWide, ofAll, wide
  <2>3. CASE type \notin ranges /\ wide \notin ranges
    BY <1>2, <2>3
  <2> QED
    BY <2>1, <2>2, <2>3
<1>5. \A s \in ranges : Specificity(s) \in Nat
  BY <1>1, <1>2 DEF own, ofWide, ofAll
<1> QED
  BY <1>4, <1>5

\* What suits the preferences of a request is what it accepts.
LEMMA SuitsIsAcceptable ==
  ASSUME NEW c \in Workload, NEW type, type = <<type[1], type[2]>>
  PROVE  Suits(type, Preferences(Requests[c].headers)) <=> Acceptable(type, c)
<1> DEFINE parts == parseAccept(Requests[c].headers.accept)
           preferences == Preferences(Requests[c].headers)
           clean == cleanPreferences(preferences)
           weight == getTypeWeight(type, clean)
           wide == <<type[1], "*">>
           accepted == {p \in parts : Covers(p.range, type) /\ (type[1] = "internal" => p.range[1] = "internal")}
           ranges == {p.range : p \in accepted}
<1>1. /\ DOMAIN preferences = {p.range : p \in parts} /\ IsWeighing(preferences)
      /\ \A r \in DOMAIN preferences : \E p \in parts : p.range = r /\ p.weight = preferences[r]
      /\ \A p \in parts : p.weight \in Nat /\ preferences[p.range] <= p.weight
  BY PreferenceFacts
<1>2. \/ type \notin DOMAIN clean /\ wide \notin DOMAIN clean /\ All \notin DOMAIN clean /\ weight = 0
      \/ type \in DOMAIN clean /\ weight = clean[type]
      \/ type \notin DOMAIN clean /\ wide \in DOMAIN clean /\ weight = clean[wide]
      \/ /\ type \notin DOMAIN clean /\ wide \notin DOMAIN clean
         /\ All \in DOMAIN clean /\ weight = clean[All]
  BY TypeWeightFacts, Zenon
<1>3. /\ Suits(type, preferences) <=> weight > 0
      /\ Acceptable(type, c) <=>
           \/ parts = {} /\ type[1] # "internal"
           \/ /\ accepted # {}
              /\ \A p \in accepted :
                   (\A q \in accepted : Specificity(q.range) <= Specificity(p.range)) => p.weight > 0
  BY DEF Suits, Acceptable
<1>4. (type[1] = "internal" <=> wide = InternalAll) /\ InternalAll[1] = "internal" /\ All[1] # "internal"
  BY DEF InternalAll, All
<1> HIDE DEF weight
<1>5. CASE parts = {}
  <2>1. DOMAIN preferences = {} /\ preferences = Nothing
    BY <1>1, <1>5 DEF Nothing, Preferences
  <2>2. clean = [r \in {All, InternalAll} |-> IF r = All THEN One ELSE 0] /\ All # InternalAll
    BY <2>1 DEF cleanPreferences, All, InternalAll
  <2>3. One > 0
    BY WeightsAssumption
  <2> HIDE DEF clean, preferences
  <2>4. accepted = {}
    BY <1>5
  <2>5. CASE type[1] = "internal"
    <3>1. type # All /\ wide = InternalAll
      BY <1>4, <2>5 DEF All
    <3>2. weight = 0
      BY <1>2, <2>2, <3>1
    <3> QED
      BY <1>3, <2>4, <2>5, <3>2 DEF preferences
  <2>6. CASE type[1] # "internal"
    <3>1. type # InternalAll /\ wide # InternalAll
      BY <1>4, <2>6
    <3>2. weight = One
      BY <1>2, <2>2, <3>1
    <3> QED
      BY <1>3, <1>5, <2>3, <2>6, <3>2 DEF preferences
  <2> QED
    BY <2>5, <2>6
<1>6. CASE parts # {}
  <2>1. preferences # Nothing
    BY <1>1, <1>6 DEF Nothing
  <2>2. clean = [r \in DOMAIN preferences \cup {InternalAll} |->
                   IF r \in DOMAIN preferences THEN preferences[r] ELSE 0]
    BY <2>1 DEF cleanPreferences
  <2>3. \A r : r \in ranges <=> /\ r \in DOMAIN preferences /\ Covers(r, type)
                                /\ type[1] = "internal" => r[1] = "internal"
    BY <1>1
  <2>4. Covers(type, type) /\ Covers(wide, type) /\ Covers(All, type) /\ wide[1] = type[1]
    BY DEF Covers
  <2>5. ranges \subseteq {type, wide, All}
    BY DEF Covers
  <2>6. accepted = {} <=> ranges = {}
    OBVIOUS
  <2> HIDE DEF preferences, clean, wide
  <2>7. CASE ranges = {}
    <3>1. type \notin DOMAIN preferences /\ wide \notin DOMAIN preferences
      BY <2>3, <2>4, <2>7
    <3>2. type[1] # "internal" => All \notin DOMAIN preferences
      BY <2>3, <2>4, <2>7
    <3> HIDE DEF ranges, accepted, parts
    <3>3. weight = 0
      BY <1>2, <1>4, <2>2, <3>1, <3>2
    <3> QED
      BY <1>3, <1>6, <2>6, <2>7, <3>3 DEF preferences
  <2>8. CASE ranges # {}
    <3>1. PICK r \in ranges : /\ type \in ranges => r = type
                              /\ type \notin ranges /\ wide \in ranges => r = wide
      BY <2>8
    <3>2. weight = preferences[r]
      <4>1. r \in DOMAIN preferences /\ r \in {type, wide, All} /\ (type[1] = "internal" => r[1] = "internal")
        BY <2>3, <2>5, <3>1
      <4>2. (type \in DOMAIN preferences => type \in ranges) /\ (wide \in DOMAIN preferences => wide \in ranges)
        BY <2>3, <2>4
      <4> HIDE DEF ranges
      <4>3. CASE r = type
        BY <1>2, <2>2, <4>1, <4>3
      <4>4. CASE r # type /\ r = wide
        <5>1. type \notin DOMAIN preferences
          BY <3>1, <4>2, <4>4
        <5>2. type # InternalAll
          BY <1>4, <4>4 DEF InternalAll, wide
        <5> QED
          BY <1>2, <2>2, <4>1, <4>4, <5>1, <5>2
      <4>5. CASE r # type /\ r # wide /\ r = All
        <5>1. type \notin DOMAIN preferences /\ wide \notin DOMAIN preferences
          BY <3>1, <4>2, <4>5
        <5>2. type[1] # "internal" /\ type # InternalAll /\ wide # InternalAll
          BY <1>4, <4>1, <4>5
        <5> QED
          BY <1>2, <2>2, <4>1, <4>5, <5>1, <5>2
      <4> QED
        BY <4>1, <4>3, <4>4, <4>5
    <3>3. \A q \in ranges : (\A s \in ranges : Specificity(s) <= Specificity(q)) <=> q = r
      <4>1. \A q \in ranges : Covers(q, type)
        BY <2>3
      <4> HIDE DEF ranges
      <4>2. <<type[1], "*">> = wide
        BY DEF wide
      <4> QED
        BY <3>1, <4>1, <4>2, MostSpecific
    <3>4. \A p \in accepted :
            (\A q \in accepted : Specificity(q.range) <= Specificity(p.range)) <=> p.range = r
      BY <3>3
    <3>5. r \in DOMAIN preferences /\ \A p \in parts : p.range = r => p \in accepted
      BY <2>3, <3>1
    <3>6. preferences[r] > 0 <=> \A p \in accepted : p.range = r => p.weight > 0
      <4>1. preferences[r] \in Nat
        BY <1>1, <3>5 DEF IsWeighing
      <4>2. PICK p \in accepted : p.range = r /\ p.weight = preferences[r]
        BY <1>1, <3>5
      <4>3. \A q \in accepted : q.range = r => q.weight \in Nat /\ preferences[r] <= q.weight
        BY <1>1
      <4> HIDE DEF accepted, ranges
      <4> QED
        BY <4>1, <4>2, <4>3
    <3> HIDE DEF accepted, ranges
    <3> QED
      BY <1>3, <1>6, <2>6, <2>8, <3>2, <3>4, <3>6 DEF preferences
  <2> QED
    BY <2>7, <2>8
<1> QED
  BY <1>5, <1>6

-----------------------------------------------------------------------------
(* Steps that keep types.                                                  *)

LEMMA SameSetup ==
  ASSUME scenario' = scenario, Workload' = Workload
  PROVE  /\ Types' = Types /\ setup' = setup /\ converters' = converters /\ Requests' = Requests
         /\ \A c : /\ Wanted(c)' = Wanted(c)
                   /\ CanParse(Requests[c])' = CanParse(Requests[c])
<1>1. setup' = setup /\ Requests' = Requests
  BY DEF setup, Requests
<1>2. converters' = converters
  BY <1>1 DEF converters
<1>3. Types' = Types
  BY <1>1, <1>2 DEF Types
<1>4. ASSUME NEW c
      PROVE  CanParse(Requests[c])' = CanParse(Requests[c])
  BY <1>1 DEF CanParse, ValidHost, ValidUrl, originalUrl, parseForwarded, ValidBody, HasBody
<1>5. ASSUME NEW c
      PROVE  Wanted(c)' = Wanted(c)
  BY <1>1, <1>4 DEF Wanted
<1> QED
  BY <1>1, <1>2, <1>3, <1>4, <1>5

\* An answer that does not change is as good as it was.
LEMMA SameAnswer ==
  ASSUME scenario' = scenario, Workload' = Workload, NEW c, answer'[c] = answer[c], AnswerIsAccepted(c)
  PROVE  AnswerIsAccepted(c)'
<1>1. Requests' = Requests
  BY SameSetup
<1>2. \A type : Acceptable(type, c)' = Acceptable(type, c)
  BY <1>1 DEF Acceptable
<1>3. CanParse(Requests[c])' = CanParse(Requests[c])
  BY SameSetup
<1> QED
  BY <1>2, <1>3 DEF AnswerIsAccepted

\* What a request knows is not changed by the steps of others.
LEMMA OthersKeepTypes ==
  ASSUME NEW c \in Workload, OthersWait(c), NEW d \in Workload \ {c}, answer'[d] = answer[d],
         RequestIsTyped(d)
  PROVE  RequestIsTyped(d)'
<1>1. /\ scenario' = scenario /\ Workload' = Workload
      /\ pc'[d] = pc[d] /\ walk'[d] = walk[d] /\ call'[d] = call[d] /\ job'[d] = job[d]
  BY DEF OthersWait
<1>2. /\ Types' = Types /\ Wanted(d)' = Wanted(d) /\ CanParse(Requests[d])' = CanParse(Requests[d])
  BY <1>1, SameSetup
<1>3. CallIsRight(call[d])' /\ JobIsRight(job[d])' /\ AnswerIsRight(answer[d])' /\ WalkIsRight(walk[d])'
  BY <1>1, <1>2 DEF RequestIsTyped, CallIsRight, JobIsRight, AnswerIsRight, WalkIsRight
<1>4. AnswerIsAccepted(d) => AnswerIsAccepted(d)'
  BY <1>1, SameAnswer
<1>5. NegotiationIsRight(d)'
  BY <1>1, <1>2, <1>4 DEF RequestIsTyped, NegotiationIsRight, ConvertsFor
<1> QED
  BY <1>3, <1>5 DEF RequestIsTyped

Begins(c, from, preferences, then) ==
  \E container, lookups : Begin(c, from, preferences, container, lookups, then)

\* What a conversion begins with.
LEMMA BeginFacts ==
  ASSUME Shapes, NEW c \in Workload, NEW from \in Types, NEW preferences, IsWeighing(preferences),
         NEW then, Begins(c, from, preferences, then)
  PROVE  /\ JobIsRight(job'[c]) /\ job'[c].preferences = preferences /\ job'[c].then = then
         /\ pc'[c] = "convert"
<1>1. PICK container, lookups : Begin(c, from, preferences, container, lookups, then)
  BY DEF Begins
<1>2. /\ job'[c] = [NoJob EXCEPT !.from = from, !.preferences = preferences,
                      !.container = container, !.lookups = lookups, !.then = then]
      /\ pc'[c] = "convert"
  BY <1>1 DEF Begin, Go, Shapes, Workload
<1>3. /\ job'[c].from = from /\ job'[c].preferences = preferences /\ job'[c].then = then
      /\ job'[c].result = NoType
  BY <1>2 DEF NoJob
<1> QED
  BY <1>2, <1>3 DEF JobIsRight

\* A conversion is begun for the answer in the types that the request wants.
LEMMA ConvertingIsTyped ==
  ASSUME Shapes, NEW c \in Workload, OthersWait(c), NEW then \in Patching \cup {"respond", "respondError"},
         WalkIsRight(walk'[c]), CallIsRight(call'[c]), JobIsRight(job'[c]), AnswerIsRight(answer'[c]),
         pc'[c] = "convert", job'[c].then = then, call'[c].preferences = Wanted(c),
         then \in {"respond", "respondError"} => job'[c].preferences = Wanted(c),
         then = "respondError" => call'[c].status \in Refusals,
         CanParse(Requests[c]) \/ (then = "respondError" /\ call'[c].status \in {400, 500})
  PROVE  RequestIsTyped(c)'
<1>1. /\ Types' = Types /\ Wanted(c)' = Wanted(c) /\ CanParse(Requests[c])' = CanParse(Requests[c])
  BY SameSetup DEF OthersWait
<1>2. CallIsRight(call[c])' /\ JobIsRight(job[c])' /\ AnswerIsRight(answer[c])' /\ WalkIsRight(walk[c])'
  BY <1>1 DEF CallIsRight, JobIsRight, AnswerIsRight, WalkIsRight
<1>3. NegotiationIsRight(c)'
  BY <1>1 DEF NegotiationIsRight, ConvertsFor, Converting, Patching
<1> QED
  BY <1>2, <1>3 DEF RequestIsTyped

\* A request that can be parsed may fail later.
LEMMA FailIsTyped ==
  ASSUME Shapes, NEW c \in Workload, OthersWait(c), RequestIsTyped(c), walk' = walk, answer' = answer,
         pc[c] \notin {"new", "answered"}, ~ConvertsFor(c, "respondError"),
         NEW status \in Refusals, failNow(c, status)
  PROVE  RequestIsTyped(c)'
<1>1. CanParse(Requests[c]) /\ call[c].preferences = Wanted(c)
  BY DEF RequestIsTyped, NegotiationIsRight
<1>2. /\ DOMAIN call = Workload /\ IsCall(call[c]) /\ CallIsRight(call[c]) /\ Error \in Types
      /\ WalkIsRight(walk[c]) /\ AnswerIsRight(answer[c])
  BY SetupFacts DEF RequestIsTyped, Shapes, RequestIsRight
<1>3. call'[c] = [call[c] EXCEPT !.status = status, !.preferences = call[c].preferences]
  BY <1>2 DEF failNow, fail
<1>4. call'[c].status = status /\ call'[c].preferences = Wanted(c) /\ call'[c].type = call[c].type
  BY <1>1, <1>2, <1>3 DEF IsCall
<1>5. CallIsRight(call'[c])
  BY <1>2, <1>4, <1>1 DEF CallIsRight, Statuses
<1>6. Begins(c, Error, call[c].preferences, "respondError") /\ IsWeighing(call[c].preferences)
  BY <1>2 DEF failNow, fail, CallIsRight, Begins
<1>7. /\ JobIsRight(job'[c]) /\ job'[c].preferences = call[c].preferences
      /\ job'[c].then = "respondError" /\ pc'[c] = "convert"
  BY <1>2, <1>6, BeginFacts
<1> QED
  BY <1>1, <1>2, <1>4, <1>5, <1>7, ConvertingIsTyped

-----------------------------------------------------------------------------
(* Conversions.                                                            *)

\* A constant is only used if a range of its own, not a full wildcard, asks for it.
LEMMA ConstantSuits ==
  ASSUME NEW j, ConstantApplies(j)
  PROVE  Suits(setup.constant.type, j.preferences)
<1> DEFINE type == setup.constant.type
           preferences == j.preferences
           specific == [r \in DOMAIN preferences \cup {All} |-> IF r = All THEN 0 ELSE preferences[r]]
           s == cleanPreferences(specific)
           p == cleanPreferences(preferences)
           wide == <<type[1], "*">>
<1>1. preferences # Nothing /\ getTypeWeight(type, s) > 0
  BY DEF ConstantApplies
<1>2. p = [r \in DOMAIN preferences \cup {InternalAll} |->
             IF r \in DOMAIN preferences THEN preferences[r] ELSE 0]
  BY <1>1 DEF cleanPreferences
<1>3. s = [r \in DOMAIN specific \cup {InternalAll} |->
             IF r \in DOMAIN specific THEN specific[r] ELSE 0]
  <2>1. All \in DOMAIN specific
    OBVIOUS
  <2>2. specific # Nothing
    BY <2>1 DEF Nothing
  <2> HIDE DEF specific
  <2> QED
    BY <2>2 DEF cleanPreferences
<1>4. /\ DOMAIN s = DOMAIN p \cup {All} /\ s[All] = 0
      /\ \A r \in DOMAIN s \ {All} : s[r] = p[r]
  BY <1>2, <1>3
<1> HIDE DEF specific, s, p
<1>5. \/ getTypeWeight(type, s) = 0
      \/ type \in DOMAIN s /\ getTypeWeight(type, s) = s[type]
      \/ /\ type \notin DOMAIN s /\ wide \in DOMAIN s
         /\ getTypeWeight(type, s) = s[wide]
      \/ All \in DOMAIN s /\ getTypeWeight(type, s) = s[All]
  BY TypeWeightFacts, Zenon
<1>6. /\ type \in DOMAIN p => getTypeWeight(type, p) = p[type]
      /\ type \notin DOMAIN p /\ wide \in DOMAIN p => getTypeWeight(type, p) = p[wide]
  <2>1. \/ {type, wide, All} \cap DOMAIN p = {} /\ getTypeWeight(type, p) = 0
        \/ type \in DOMAIN p /\ getTypeWeight(type, p) = p[type]
        \/ /\ type \notin DOMAIN p /\ wide \in DOMAIN p
           /\ getTypeWeight(type, p) = p[wide]
        \/ type \notin DOMAIN p /\ wide \notin DOMAIN p
    BY TypeWeightFacts, Zenon
  <2> HIDE DEF type, wide
  <2> QED
    BY <2>1
<1> HIDE DEF wide, type
<1>7. \/ type \in DOMAIN p /\ p[type] > 0
      \/ type \notin DOMAIN p /\ wide \in DOMAIN p /\ p[wide] > 0
  BY <1>1, <1>4, <1>5
<1>8. getTypeWeight(type, p) > 0
  BY <1>6, <1>7
<1> QED
  BY <1>8 DEF Suits, p, type

\* What a conversion goes on with.
JobGoesOn(c) ==
  /\ JobIsRight(job'[c]) /\ job'[c].preferences = job[c].preferences /\ job'[c].then = job[c].then
  /\ pc'[c] \in Converting \cup {job[c].then}

\* A conversion ends with a type that is wanted, or none,
LEMMA FinishTypes ==
  ASSUME Shapes, NEW c \in Workload, JobIsRight(job[c]), NEW type, Finish(c, type),
         type = NoType \/ (type \in Types /\ Suits(type, job[c].preferences))
  PROVE  JobGoesOn(c)
<1>1. DOMAIN job = Workload /\ DOMAIN pc = Workload /\ IsJob(job[c])
  BY DEF Shapes, RequestIsRight, Workload
<1>2. job'[c] = [job[c] EXCEPT !.result = type] /\ pc'[c] = job[c].then
  BY <1>1 DEF Finish, Go
<1>3. /\ job'[c].result = type /\ job'[c].from = job[c].from
      /\ job'[c].preferences = job[c].preferences /\ job'[c].then = job[c].then
  BY <1>1, <1>2 DEF IsJob
<1>4. JobIsRight(job'[c])
  BY <1>3 DEF JobIsRight
<1> QED
  BY <1>2, <1>3, <1>4 DEF JobGoesOn

LEMMA FoundTypes ==
  ASSUME Shapes, NEW c \in Workload, JobIsRight(job[c]), NEW match, NEW generated,
         match \in Matches(Known, cleanPreferences(job[c].preferences)), Found(c, match, generated)
  PROVE  JobGoesOn(c)
<1> DEFINE found == [job[c] EXCEPT !.match = match, !.generated = generated, !.lookups = @ - 1]
           done == [found EXCEPT !.result = match.outType]
           out == match.outType
<1>1. DOMAIN job = Workload /\ DOMAIN pc = Workload /\ IsJob(job[c])
  BY DEF Shapes, RequestIsRight, Workload
<1>2. /\ found.from = job[c].from /\ found.preferences = job[c].preferences
      /\ found.result = job[c].result /\ found.then = job[c].then /\ IsJob(found)
  BY <1>1 DEF IsJob
<1>3. out = NoType \/ (out \in Types /\ Suits(out, job[c].preferences))
  BY DEF Matches, Unmatched, Suits, Known
<1> HIDE DEF found, out
<1>4. /\ done.from = job[c].from /\ done.preferences = job[c].preferences
      /\ done.result = out /\ done.then = job[c].then
  BY <1>2 DEF IsJob, out
<1> HIDE DEF done
<1>5. JobIsRight(found) /\ JobIsRight(done)
  BY <1>2, <1>3, <1>4 DEF JobIsRight
<1>6. \/ job' = [job EXCEPT ![c] = found] /\ Go(c, "findPath")
      \/ job' = [job EXCEPT ![c] = done] /\ Go(c, job[c].then)
  BY DEF Found, found, done
<1>7. \/ job'[c] = found /\ pc'[c] = "findPath"
      \/ job'[c] = done /\ pc'[c] = job[c].then
  BY <1>1, <1>6 DEF Go
<1> QED
  BY <1>2, <1>4, <1>5, <1>7 DEF JobGoesOn, Converting

\* The step of a conversion that does not end it.
LEMMA WaitTypes ==
  ASSUME Shapes, NEW c \in Workload, JobIsRight(job[c]), NEW to \in Converting, Go(c, to), job' = job
  PROVE  JobGoesOn(c)
BY DEF Shapes, Workload, JobGoesOn, Go

LEMMA ConvertTypes ==
  ASSUME Shapes, NEW c \in Workload, JobIsRight(job[c]), convert(c)
  PROVE  JobGoesOn(c)
<1> DEFINE j == job[c]
           replacement == getReplacementType(j)
<1>1. IsWeighing(j.preferences) /\ j.from \in Types
  BY DEF JobIsRight
<1>2. CASE ConstantApplies(j) /\ Finish(c, setup.constant.type)
  <2>1. Suits(setup.constant.type, j.preferences)
    BY <1>2, ConstantSuits
  <2>2. setup.constant.type \in Types
    BY SetupFacts DEF Known
  <2> QED
    BY <1>2, <2>1, <2>2, FinishTypes
<1>3. CASE matchesMediaPreferences(j.from, j.preferences) /\ Finish(c, j.from)
  <2>1. Suits(j.from, j.preferences)
    BY <1>3 DEF matchesMediaPreferences, Suits
  <2> QED
    BY <1>1, <1>3, <2>1, FinishTypes
<1>4. CASE replacement # NoMatch /\ Finish(c, replacement.value)
  <2> DEFINE type == replacement.value
  <2>1. \/ replacement = NoMatch
        \/ type \in Known /\ getTypeWeight(type, cleanPreferences(j.preferences)) > 0
    <3> HIDE DEF j
    <3>1. scenario \in Scenarios /\ ReplacementsAreIn(Known)
      BY SetupFacts
    <3> QED
      BY <1>1, <3>1, ReplacementTypeFacts
  <2>2. type \in Types /\ Suits(type, j.preferences)
    BY <1>4, <2>1 DEF Suits, Known
  <2>3. Finish(c, type)
    BY <1>4
  <2> HIDE DEF type
  <2> QED
    BY <2>2, <2>3, FinishTypes
<1>5. CASE Go(c, "findPath") /\ UNCHANGED job
  BY <1>5, WaitTypes DEF Converting
<1> QED
  BY <1>2, <1>3, <1>4, <1>5, Zenon DEF convert

LEMMA FindTypes ==
  ASSUME Shapes, NEW c \in Workload, CacheIsRight, JobIsRight(job[c]), findPath(c)
  PROVE  /\ JobGoesOn(c)
         /\ cache' \in Seq(ChainPaths(Known)) /\ Len(cache') <= setup.cacheSize
<1> DEFINE preferences == cleanPreferences(job[c].preferences)
           i == find(job[c].from, preferences)
           match == getMatchedPath(job[c].from, preferences, cache[i])
           used == Append(RemoveAt(cache, i), cache[i])
<1>1. /\ scenario \in Scenarios /\ OutputsAreIn(Known) /\ setup.cacheSize \in Nat
      /\ IsWeighing(preferences)
      /\ cache \in Seq(ChainPaths(Known)) /\ Len(cache) <= setup.cacheSize
  BY SetupFacts, CleanIsWeighing DEF JobIsRight, CacheIsRight
<1>2. \/ i = 0 /\ Go(c, "search") /\ UNCHANGED conversionVars
      \/ i # 0 /\ cache' = used /\ Found(c, match, FALSE)
  BY Zenon DEF findPath
<1>3. CASE Go(c, "search") /\ UNCHANGED conversionVars
  BY <1>1, <1>3, WaitTypes DEF Converting, conversionVars
<1>4. CASE i # 0 /\ cache' = used /\ Found(c, match, FALSE)
  <2> HIDE DEF preferences
  <2>1. i \in 1 .. Len(cache)
    BY <1>1, <1>4, FindFacts
  <2> HIDE DEF i
  <2>2. used \in Seq(ChainPaths(Known)) /\ Len(used) = Len(cache)
    BY <1>1, <2>1, UsedFacts
  <2>3. cache[i] \in ChainPaths(Known)
    BY <1>1, <2>1
  <2>4. match \in Matches(Known, preferences)
    BY <1>1, <2>3, MatchedPathFacts
  <2> HIDE DEF match, used
  <2>5. JobGoesOn(c)
    BY <1>4, <2>4, FoundTypes DEF preferences
  <2> QED
    BY <1>1, <1>4, <2>2, <2>5
<1> QED
  BY <1>2, <1>3, <1>4

LEMMA SearchTypes ==
  ASSUME Shapes, NEW c \in Workload, CacheIsRight, JobIsRight(job[c]), search(c)
  PROVE  /\ JobGoesOn(c)
         /\ cache' \in Seq(ChainPaths(Known)) /\ Len(cache') <= setup.cacheSize
<1> DEFINE preferences == cleanPreferences(job[c].preferences)
           best == generatePath(job[c].from, preferences)
<1>1. /\ scenario \in Scenarios /\ OutputsAreIn(Known) /\ setup.cacheSize \in Nat
      /\ IsWeighing(preferences)
      /\ cache \in Seq(ChainPaths(Known)) /\ Len(cache) <= setup.cacheSize
  BY SetupFacts, CleanIsWeighing DEF JobIsRight, CacheIsRight
<1>2. best \in Matches(Known, preferences)
  <2> HIDE DEF preferences
  <2> QED
    BY <1>1, GenerateFacts
<1>3. \/ Finish(c, NoType) /\ UNCHANGED cache
      \/ best # Unmatched /\ cache' = add(best.path) /\ Found(c, best, TRUE)
  BY Zenon DEF search
<1> HIDE DEF best
<1>4. CASE Finish(c, NoType) /\ UNCHANGED cache
  BY <1>1, <1>4, FinishTypes
<1>5. CASE best # Unmatched /\ cache' = add(best.path) /\ Found(c, best, TRUE)
  <2>1. best.path \in ChainPaths(Known)
    BY <1>2, <1>5 DEF Matches
  <2>2. add(best.path) \in Seq(ChainPaths(Known)) /\ Len(add(best.path)) <= setup.cacheSize
    BY <1>1, <2>1, AddFacts
  <2>3. JobGoesOn(c)
    BY <1>2, <1>5, FoundTypes
  <2> QED
    BY <1>5, <2>2, <2>3
<1> QED
  BY <1>3, <1>4, <1>5

\* and until then nothing else changes for its request.
LEMMA ConversionTypes ==
  ASSUME Shapes, NEW c \in Workload, OthersWait(c), CacheIsRight, RequestIsTyped(c), ConversionStep(c),
         UNCHANGED <<authorizationVars, socketVars, requestVars>>
  PROVE  RequestIsTyped(c)' /\ CacheIsRight' /\ (HoldsLock(c)' <=> HoldsLock(c))
<1>1. /\ pc[c] \in Converting /\ job[c].then \in Patching \cup {"respond", "respondError"}
      /\ JobIsRight(job[c])
  BY DEF Shapes, RequestIsRight, ConversionStep, convert, findPath, search, Converting, RequestIsTyped
<1>2. /\ JobGoesOn(c)
      /\ cache' \in Seq(ChainPaths(Known)) /\ Len(cache') <= setup.cacheSize
  <2>1. CASE convert(c)
    BY <1>1, <2>1, ConvertTypes DEF convert, CacheIsRight
  <2>2. CASE findPath(c) \/ search(c)
    BY <1>1, <2>2, FindTypes, SearchTypes
  <2> QED
    BY <2>1, <2>2 DEF ConversionStep
<1>3. /\ Types' = Types /\ Wanted(c)' = Wanted(c) /\ CanParse(Requests[c])' = CanParse(Requests[c])
      /\ converters' = converters /\ setup' = setup
  BY SameSetup DEF OthersWait
<1>4. walk' = walk /\ call' = call /\ answer' = answer
  BY DEF authorizationVars, requestVars
<1>5. CallIsRight(call[c])' /\ JobIsRight(job[c])' /\ AnswerIsRight(answer[c])' /\ WalkIsRight(walk[c])'
  BY <1>2, <1>3, <1>4 DEF RequestIsTyped, CallIsRight, JobIsRight, AnswerIsRight, WalkIsRight, JobGoesOn
<1>6. \A then \in Patching \cup {"respond", "respondError"} : ConvertsFor(c, then)' = ConvertsFor(c, then)
  BY <1>1, <1>2 DEF ConvertsFor, JobGoesOn, Converting, Patching
<1>7. NegotiationIsRight(c)'
  <2>1. /\ pc[c] \notin {"new", "emit", "answered"} /\ pc'[c] \notin {"new", "emit", "answered"}
        /\ job'[c].preferences = job[c].preferences
    BY <1>1, <1>2 DEF JobGoesOn, Converting, Patching
  <2>2. NegotiationIsRight(c)
    BY DEF RequestIsTyped
  <2> QED
    BY <1>3, <1>4, <1>6, <2>1, <2>2 DEF NegotiationIsRight
<1>8. CacheIsRight'
  BY <1>2, <1>3 DEF CacheIsRight, ChainPaths, Known
<1>9. HoldsLock(c)' <=> HoldsLock(c)
  BY <1>1, <1>2 DEF HoldsLock, JobGoesOn, Converting, Patching
<1> QED
  BY <1>5, <1>7, <1>8, <1>9 DEF RequestIsTyped

-----------------------------------------------------------------------------
(* Answers.                                                                *)

LEMMA WriteIsTyped ==
  ASSUME Shapes, NEW c \in Workload, OthersWait(c), DOMAIN answer = Workload, RequestIsTyped(c),
         walk' = walk, call' = call, job' = job, pc[c] # "new",
         NEW status \in Statuses \ {0}, NEW type \in Types, NEW user, NEW everyone,
         write(c, status, type, user, everyone),
         status = 200 => CanParse(Requests[c]) /\ Suits(type, Wanted(c)),
         status >= 400 => type = TextPlain \/ Suits(type, Wanted(c)),
         CanParse(Requests[c]) \/ status \in {400, 500}
  PROVE  RequestIsTyped(c)'
<1> DEFINE a == answer'[c]
<1>1. /\ Types' = Types /\ Wanted(c)' = Wanted(c) /\ CanParse(Requests[c])' = CanParse(Requests[c])
      /\ Requests' = Requests
  BY SameSetup DEF OthersWait
<1>2. TextPlain \in Types
  BY SetupFacts
<1>3. a = IF isInternalContentType(type) THEN serverError
          ELSE [status |-> status, type |-> type, user |-> user, everyone |-> everyone]
  BY DEF write
<1>4. pc'[c] = "answered"
  BY DEF write, Go, Shapes, Workload
<1>5. \/ a.status = 500 /\ a.type = TextPlain /\ isInternalContentType(type)
      \/ a.status = status /\ a.type = type /\ type[1] # "internal"
  BY <1>3 DEF serverError, NoAnswer, isInternalContentType, matchesMediaType, InternalAll, TextPlain
<1>6. ~CanParse(Requests[c]) => status \in {400, 500} /\ type = TextPlain
  BY PlainSuits DEF Wanted
<1>7. ~CanParse(Requests[c]) => ~isInternalContentType(type)
  BY <1>6 DEF isInternalContentType, matchesMediaType, InternalAll, TextPlain
<1>8. TextPlain[1] # "internal"
  BY DEF TextPlain
<1>9. ASSUME CanParse(Requests[c]), Suits(type, Wanted(c))
      PROVE  Acceptable(type, c)
  BY <1>9, TypesArePairs, SuitsIsAcceptable DEF Wanted
<1> HIDE DEF a
<1>10. AnswerIsAccepted(c)'
  <2>1. /\ a.type[1] # "internal"
        /\ a.status = 200 => Acceptable(a.type, c)
        /\ a.status >= 400 => Acceptable(a.type, c) \/ a.type = TextPlain
        /\ ~CanParse(Requests[c]) => a.type = TextPlain
    BY <1>5, <1>6, <1>7, <1>8, <1>9
  <2>2. \A t : Acceptable(t, c)' = Acceptable(t, c)
    BY <1>1 DEF Acceptable
  <2> QED
    BY <1>1, <2>1, <2>2 DEF AnswerIsAccepted, a
<1>11. a.type \in Types /\ a.status \in Statuses
  BY <1>2, <1>5 DEF Statuses, Refusals
<1>12. CallIsRight(call[c])' /\ JobIsRight(job[c])' /\ AnswerIsRight(answer[c])' /\ WalkIsRight(walk[c])'
  BY <1>1, <1>11 DEF RequestIsTyped, CallIsRight, JobIsRight, AnswerIsRight, WalkIsRight, a
<1>13. call[c].preferences = Wanted(c)
  BY DEF RequestIsTyped, NegotiationIsRight
<1>14. NegotiationIsRight(c)'
  BY <1>1, <1>4, <1>10, <1>13 DEF NegotiationIsRight, ConvertsFor, Converting
<1> QED
  BY <1>12, <1>14 DEF RequestIsTyped

-----------------------------------------------------------------------------
(* The steps of a request.                                                 *)

TypesKept(c) ==
  /\ RequestIsTyped(c)' /\ StoreIsTyped' /\ CacheIsRight' /\ DOMAIN answer' = Workload
  /\ \A d \in Workload \ {c} : answer'[d] = answer[d]

LEMMA SameTypes ==
  ASSUME TypesInv, NEW c \in Workload, OthersWait(c)
  PROVE  /\ store' = store => StoreIsTyped'
         /\ cache' = cache => CacheIsRight'
         /\ answer' = answer => DOMAIN answer' = Workload /\ \A d \in Workload \ {c} : answer'[d] = answer[d]
<1>1. Types' = Types /\ setup' = setup /\ converters' = converters
  BY SameSetup DEF OthersWait
<1>2. store' = store => StoreIsTyped'
  BY <1>1 DEF TypesInv, StoreIsTyped
<1>3. cache' = cache => CacheIsRight'
  BY <1>1 DEF TypesInv, CacheIsRight, ChainPaths, Known
<1> QED
  BY <1>2, <1>3 DEF TypesInv

\* A step that begins a conversion, for something that is not an error.
LEMMA BeginIsTyped ==
  ASSUME Shapes, NEW c \in Workload, OthersWait(c), RequestIsTyped(c), CanParse(Requests[c]),
         walk' = walk, answer' = answer, CallIsRight(call'[c]), call'[c].preferences = Wanted(c),
         NEW from \in Types, NEW preferences, IsWeighing(preferences),
         NEW then \in Patching \cup {"respond"}, Begins(c, from, preferences, then),
         then = "respond" => preferences = Wanted(c)
  PROVE  RequestIsTyped(c)'
<1>1. /\ JobIsRight(job'[c]) /\ job'[c].preferences = preferences /\ job'[c].then = then
      /\ pc'[c] = "convert"
  BY BeginFacts
<1>2. WalkIsRight(walk[c]) /\ AnswerIsRight(answer[c])
  BY DEF RequestIsTyped
<1> QED
  BY <1>1, <1>2, ConvertingIsTyped DEF Patching

LEMMA ChangedIsTyped ==
  ASSUME Shapes, NEW c \in Workload, OthersWait(c), RequestIsTyped(c), CanParse(Requests[c]),
         call[c].preferences = Wanted(c), walk' = walk, answer' = answer,
         NEW status \in {201, 205}, NEW changed, Changed(c, status, changed)
  PROVE  RequestIsTyped(c)'
<1>1. DOMAIN call = Workload /\ IsCall(call[c]) /\ DOMAIN pc = Workload
  BY DEF Shapes, RequestIsRight, Workload
<1>2. /\ job' = job /\ pc'[c] = "emit"
      /\ call'[c] = [call[c] EXCEPT !.status = status, !.changed = changed]
  BY <1>1 DEF Changed, Go
<1>3. call'[c].status = status /\ call'[c].type = call[c].type /\ call'[c].preferences = call[c].preferences
  BY <1>1, <1>2 DEF IsCall
<1>4. /\ Types' = Types /\ Wanted(c)' = Wanted(c) /\ CanParse(Requests[c])' = CanParse(Requests[c])
  BY SameSetup DEF OthersWait
<1>5. CallIsRight(call[c])' /\ JobIsRight(job[c])' /\ AnswerIsRight(answer[c])' /\ WalkIsRight(walk[c])'
  BY <1>2, <1>3, <1>4 DEF RequestIsTyped, CallIsRight, JobIsRight, AnswerIsRight, WalkIsRight, Statuses
<1>6. NegotiationIsRight(c)'
  BY <1>2, <1>3, <1>4 DEF NegotiationIsRight, ConvertsFor, Converting
<1> QED
  BY <1>5, <1>6 DEF RequestIsTyped

LEMMA GetTypes ==
  ASSUME Shapes, TypesInv, NEW c \in Workload, OthersWait(c), getRepresentation(c)
  PROVE  TypesKept(c)
<1>1. /\ pc[c] = "operate" /\ walk' = walk /\ store' = store /\ cache' = cache /\ answer' = answer
      /\ RequestIsTyped(c)
  BY DEF getRepresentation, Operates, authorizationVars, TypesInv
<1>2. CanParse(Requests[c]) /\ call[c].preferences = Wanted(c) /\ CallIsRight(call[c])
  BY <1>1 DEF RequestIsTyped, NegotiationIsRight, ConvertsFor, Converting
<1>3. RequestIsTyped(c)'
  <2>1. CASE Exists(Target(c))
    <3> DEFINE from == store[Target(c)].type
    <3>1. Begins(c, from, call[c].preferences, "respond") /\ call' = call
      BY <2>1 DEF getRepresentation, Begins
    <3>2. from \in Types /\ IsWeighing(call[c].preferences)
      BY <1>2, <2>1 DEF TypesInv, StoreIsTyped, Exists, CallIsRight
    <3> HIDE DEF from
    <3> QED
      BY <1>1, <1>2, <3>1, <3>2, BeginIsTyped
  <2>2. CASE ~Exists(Target(c))
    <3>1. failNow(c, 404) /\ 404 \in Refusals
      BY <2>2 DEF getRepresentation, Refusals
    <3> QED
      BY <1>1, <3>1, FailIsTyped DEF ConvertsFor, Converting
  <2> QED
    BY <2>1, <2>2
<1> QED
  BY <1>1, <1>3, SameTypes DEF TypesKept

LEMMA RespondTypes ==
  ASSUME Shapes, TypesInv, NEW c \in Workload, OthersWait(c), respond(c)
  PROVE  TypesKept(c)
<1>1. /\ pc[c] = "respond" /\ walk' = walk /\ store' = store /\ cache' = cache
      /\ RequestIsTyped(c)
  BY DEF respond, authorizationVars, TypesInv
<1>2. /\ CanParse(Requests[c]) /\ call[c].preferences = Wanted(c) /\ CallIsRight(call[c])
      /\ job[c].preferences = Wanted(c) /\ JobIsRight(job[c])
      /\ WalkIsRight(walk[c]) /\ AnswerIsRight(answer[c])
  BY <1>1 DEF RequestIsTyped, NegotiationIsRight, ConvertsFor, Converting
<1>3. CASE job[c].result = NoType
  <2>1. /\ call' = [call EXCEPT ![c] = [@ EXCEPT !.status = 501, !.type = job[c].from]]
        /\ Begins(c, Error, call[c].preferences, "respondError") /\ answer' = answer
    BY <1>3 DEF respond, Begins
  <2>2. DOMAIN call = Workload /\ IsCall(call[c]) /\ Error \in Types
    BY SetupFacts DEF Shapes, RequestIsRight
  <2>3. call'[c] = [call[c] EXCEPT !.status = 501, !.type = job[c].from]
    BY <2>1, <2>2
  <2>4. /\ call'[c].status = 501 /\ call'[c].type = job[c].from
        /\ call'[c].preferences = call[c].preferences
    BY <2>2, <2>3 DEF IsCall
  <2>5. CallIsRight(call'[c])
    BY <1>2, <2>4 DEF CallIsRight, JobIsRight, Statuses, Refusals
  <2>6. /\ JobIsRight(job'[c]) /\ job'[c].preferences = call[c].preferences
        /\ job'[c].then = "respondError" /\ pc'[c] = "convert"
    BY <1>2, <2>1, <2>2, BeginFacts DEF CallIsRight
  <2>7. 501 \in Refusals
    BY DEF Refusals
  <2>8. /\ WalkIsRight(walk'[c]) /\ AnswerIsRight(answer'[c]) /\ call'[c].preferences = Wanted(c)
        /\ job'[c].preferences = Wanted(c) /\ call'[c].status \in Refusals
    BY <1>1, <1>2, <2>1, <2>4, <2>6, <2>7
  <2>9. RequestIsTyped(c)'
    BY <1>2, <2>5, <2>6, <2>8, ConvertingIsTyped
  <2> QED
    BY <1>1, <2>1, <2>9, SameTypes DEF TypesKept
<1>4. CASE job[c].result # NoType
  <2>1. /\ write(c, 200, job[c].result, walk[c].user, walk[c].everyone)
        /\ call' = call /\ job' = job
    BY <1>4 DEF respond
  <2>2. job[c].result \in Types /\ Suits(job[c].result, Wanted(c))
    BY <1>2, <1>4 DEF JobIsRight
  <2>3. 200 \in Statuses \ {0} /\ ~(200 >= 400)
    BY DEF Statuses
  <2>4. DOMAIN answer = Workload
    BY DEF TypesInv
  <2>5. RequestIsTyped(c)'
    BY <1>1, <1>2, <2>1, <2>2, <2>3, <2>4, WriteIsTyped
  <2>6. DOMAIN answer' = Workload /\ \A d \in Workload \ {c} : answer'[d] = answer[d]
    BY <2>1, <2>4 DEF write
  <2> QED
    BY <1>1, <2>5, <2>6, SameTypes DEF TypesKept
<1> QED
  BY <1>3, <1>4

LEMMA RespondErrorTypes ==
  ASSUME Shapes, TypesInv, NEW c \in Workload, OthersWait(c), respondError(c)
  PROVE  TypesKept(c)
<1> DEFINE type == IF job[c].result = NoType THEN TextPlain ELSE job[c].result
           status == call[c].status
<1>1. /\ pc[c] = "respondError" /\ walk' = walk /\ store' = store /\ cache' = cache
      /\ RequestIsTyped(c) /\ DOMAIN answer = Workload /\ call' = call /\ job' = job
      /\ write(c, status, type, {}, {})
  BY DEF respondError, authorizationVars, conversionVars, TypesInv
<1>2. /\ job[c].preferences = Wanted(c) /\ JobIsRight(job[c]) /\ status \in Refusals
      /\ CanParse(Requests[c]) \/ status \in {400, 500}
  BY <1>1 DEF RequestIsTyped, NegotiationIsRight, ConvertsFor
<1>3. type \in Types /\ (type = TextPlain \/ Suits(type, Wanted(c)))
  BY <1>2, SetupFacts DEF JobIsRight
<1>4. status \in Statuses \ {0} /\ status # 200
  BY <1>2 DEF Refusals, Statuses
<1> HIDE DEF type, status
<1>5. RequestIsTyped(c)'
  BY <1>1, <1>2, <1>3, <1>4, WriteIsTyped
<1>6. DOMAIN answer' = Workload /\ \A d \in Workload \ {c} : answer'[d] = answer[d]
  BY <1>1 DEF write
<1> QED
  BY <1>1, <1>5, <1>6, SameTypes DEF TypesKept

LEMMA EmitTypes ==
  ASSUME Shapes, TypesInv, NEW c \in Workload, OthersWait(c), emit(c)
  PROVE  TypesKept(c)
<1>1. /\ pc[c] = "emit" /\ walk' = walk /\ store' = store /\ cache' = cache
      /\ RequestIsTyped(c) /\ DOMAIN answer = Workload /\ call' = call /\ job' = job
      /\ write(c, call[c].status, NoType, {}, {})
  BY DEF emit, authorizationVars, conversionVars, TypesInv
<1>2. CanParse(Requests[c]) /\ call[c].status \in {201, 205}
  BY <1>1 DEF RequestIsTyped, NegotiationIsRight, ConvertsFor, Converting
<1>3. NoType \in Types /\ call[c].status \in Statuses \ {0} /\ call[c].status # 200 /\ ~(call[c].status >= 400)
  BY <1>2, SetupFacts DEF Statuses
<1>4. RequestIsTyped(c)'
  BY <1>1, <1>2, <1>3, WriteIsTyped
<1>5. DOMAIN answer' = Workload /\ \A d \in Workload \ {c} : answer'[d] = answer[d]
  BY <1>1 DEF write
<1> QED
  BY <1>1, <1>4, <1>5, SameTypes DEF TypesKept

\* A request that is at the store can be parsed, and did not fail yet.
LEMMA OperatingFacts ==
  ASSUME Shapes, TypesInv, NEW c \in Workload,
         pc[c] \in {"authenticate", "getAcl", "operate"} \cup Patching
  PROVE  /\ RequestIsTyped(c) /\ CanParse(Requests[c]) /\ call[c].preferences = Wanted(c)
         /\ CallIsRight(call[c]) /\ JobIsRight(job[c]) /\ WalkIsRight(walk[c]) /\ AnswerIsRight(answer[c])
         /\ IsWeighing(call[c].preferences) /\ DOMAIN call = Workload /\ IsCall(call[c])
         /\ pc[c] \notin {"new", "answered"} /\ ~ConvertsFor(c, "respondError")
<1>1. RequestIsTyped(c) /\ DOMAIN call = Workload /\ IsCall(call[c])
  BY DEF TypesInv, Shapes, RequestIsRight
<1>2. pc[c] \notin {"new", "answered"} /\ ~ConvertsFor(c, "respondError")
  BY DEF ConvertsFor, Converting, Patching
<1> QED
  BY <1>1, <1>2 DEF RequestIsTyped, NegotiationIsRight, CallIsRight

LEMMA WriteDataTypes ==
  ASSUME Shapes, TypesInv, NEW c \in Workload, OthersWait(c),
         pc[c] \in {"operate"} \cup Patching, walk' = walk, answer' = answer, cache' = cache,
         NEW entry, entry.type \in Types, writeData(c, Target(c), entry)
  PROVE  TypesKept(c)
<1> DEFINE r == Target(c)
           made == IF r = Subject(Root) \/ Exists(r) THEN {}
                   ELSE {Subject(p) : p \in createRecursiveContainers(r)}
           above == IF r = Subject(Root) THEN {}
                    ELSE IF made = {} THEN {Subject(ContainerOf(r))} ELSE made
           container == [type |-> Quads, by |-> c, list |-> {}]
<1>1. /\ store' = [q \in DOMAIN store \cup made \cup {r} |->
                     IF q = r THEN entry ELSE IF q \in made THEN container ELSE store[q]]
      /\ Changed(c, 205, above \cup {r})
  BY DEF writeData
<1>2. Quads \in Types /\ container.type = Quads
  BY SetupFacts
<1>3. \A q \in DOMAIN store : store[q].type \in Types
  BY DEF TypesInv, StoreIsTyped
<1> HIDE DEF made, above, container, r
<1>4. \A q \in DOMAIN store' : store'[q].type \in Types
  BY <1>1, <1>2, <1>3
<1>5. Types' = Types
  BY SameSetup DEF OthersWait
<1>6. StoreIsTyped'
  BY <1>4, <1>5 DEF StoreIsTyped
<1>7. RequestIsTyped(c)'
  BY <1>1, OperatingFacts, ChangedIsTyped
<1> QED
  BY <1>6, <1>7, SameTypes DEF TypesKept

\* A request that fails at the store leaves it alone.
LEMMA RefusalTypes ==
  ASSUME Shapes, TypesInv, NEW c \in Workload, OthersWait(c),
         pc[c] \in {"authenticate", "getAcl", "operate"} \cup Patching,
         walk' = walk, answer' = answer, cache' = cache, store' = store,
         NEW status \in Refusals, failNow(c, status)
  PROVE  TypesKept(c)
<1>1. RequestIsTyped(c)'
  BY OperatingFacts, FailIsTyped
<1> QED
  BY <1>1, SameTypes DEF TypesKept

LEMMA SetTypes ==
  ASSUME Shapes, TypesInv, NEW c \in Workload, OthersWait(c), setRepresentation(c)
  PROVE  TypesKept(c)
<1> DEFINE r == Target(c)
           type == bodyType(Requests[c])
           list == IF IsAcl(r) THEN Requests[c].body.list ELSE {}
           error == ContainerError(r, type) + ListError(r, type)
           entry == [type |-> IF IsContainer(r) THEN Quads ELSE type, by |-> c, list |-> list]
<1>1. pc[c] = "operate" /\ walk' = walk /\ answer' = answer /\ cache' = cache
  BY DEF setRepresentation, Operates
<1>2. \/ failNow(c, 400) /\ UNCHANGED store
      \/ error > 0 /\ failNow(c, error) /\ UNCHANGED store
      \/ writeData(c, Target(c), entry)
  BY Zenon DEF setRepresentation
<1>3. type \in Types /\ Quads \in Types
  BY SetupFacts DEF bodyType
<1>4. error > 0 => error \in Refusals
  <2>1. ContainerError(r, type) = 0 \/ ListError(r, type) = 0
    BY DEF ContainerError, ListError, IsContainer
  <2>2. ContainerError(r, type) \in {0, 400} /\ ListError(r, type) \in {0, 501}
    BY DEF ContainerError, ListError
  <2> QED
    BY <2>1, <2>2 DEF Refusals
<1>5. entry.type \in Types
  BY <1>3
<1> HIDE DEF entry, error
<1>6. 400 \in Refusals
  BY DEF Refusals
<1>7. CASE writeData(c, Target(c), entry)
  BY <1>1, <1>5, <1>7, WriteDataTypes
<1>8. ASSUME NEW status \in Refusals, failNow(c, status), store' = store
      PROVE  TypesKept(c)
  BY <1>1, <1>8, RefusalTypes
<1> QED
  BY <1>2, <1>4, <1>6, <1>7, <1>8

LEMMA AddTypes ==
  ASSUME Shapes, TypesInv, NEW c \in Workload, OthersWait(c), addResource(c)
  PROVE  TypesKept(c)
<1> DEFINE type == bodyType(Requests[c])
           new == [type |-> type, by |-> c, list |-> {}]
           Made(path) == /\ store' = [q \in DOMAIN store \cup {Subject(path)} |->
                                        IF q = Subject(path) THEN new ELSE store[q]]
                         /\ Changed(c, 201, {Target(c), Subject(path)})
<1>1. pc[c] = "operate" /\ walk' = walk /\ answer' = answer /\ cache' = cache
  BY DEF addResource, Operates
<1>2. type \in Types
  BY SetupFacts DEF bodyType
<1>3. ASSUME NEW status \in {400, 404, 405}, failNow(c, status), store' = store
      PROVE  TypesKept(c)
  BY <1>1, <1>3, RefusalTypes DEF Refusals
<1>4. ASSUME NEW path, Made(path)
      PROVE  TypesKept(c)
  <2>1. new.type \in Types
    BY <1>2
  <2>2. Types' = Types
    BY SameSetup DEF OthersWait
  <2> HIDE DEF new
  <2>3. StoreIsTyped'
    BY <1>4, <2>1, <2>2 DEF TypesInv, StoreIsTyped
  <2>4. RequestIsTyped(c)'
    BY <1>1, <1>4, OperatingFacts, ChangedIsTyped
  <2> QED
    BY <1>1, <2>3, <2>4, SameTypes DEF TypesKept
<1>5. \/ failNow(c, 400) /\ UNCHANGED store
      \/ failNow(c, 404) /\ UNCHANGED store
      \/ failNow(c, 405) /\ UNCHANGED store
      \/ \E path \in {p \in NewPaths : Parent[p] = Target(c)[2] /\ ~Exists(Subject(p))} : Made(path)
  BY Zenon DEF addResource
<1> HIDE DEF Made
<1> QED
  BY <1>3, <1>4, <1>5

LEMMA DeleteTypes ==
  ASSUME Shapes, TypesInv, NEW c \in Workload, OthersWait(c), deleteResource(c)
  PROVE  TypesKept(c)
<1>1. pc[c] = "operate" /\ walk' = walk /\ answer' = answer /\ cache' = cache
  BY DEF deleteResource, Operates
<1>2. ASSUME NEW status \in {404, 405, 409}, failNow(c, status), store' = store
      PROVE  TypesKept(c)
  BY <1>1, <1>2, RefusalTypes DEF Refusals
<1>3. ASSUME NEW gone, NEW changed, store' = [q \in DOMAIN store \ gone |-> store[q]], Changed(c, 205, changed)
      PROVE  TypesKept(c)
  <2>1. Types' = Types
    BY SameSetup DEF OthersWait
  <2>2. StoreIsTyped'
    BY <1>3, <2>1 DEF TypesInv, StoreIsTyped
  <2>3. RequestIsTyped(c)'
    BY <1>1, <1>3, OperatingFacts, ChangedIsTyped
  <2> QED
    BY <1>1, <2>2, <2>3, SameTypes DEF TypesKept
<1> DEFINE r == Target(c)
           lists == IF IsAcl(r) THEN {} ELSE {Acl(r[2])} \cap DOMAIN store
           orphans == IF IsAcl(r) THEN {} ELSE {Acl(p) : p \in {q \in DOMAIN Parent : Parent[q] = r[2]}}
           gone == {r} \cup lists \cup orphans
<1>4. \/ failNow(c, 404) /\ UNCHANGED store
      \/ failNow(c, 405) /\ UNCHANGED store
      \/ failNow(c, 409) /\ UNCHANGED store
      \/ store' = [q \in DOMAIN store \ gone |-> store[q]] /\ Changed(c, 205, {r} \cup lists)
  BY Zenon DEF deleteResource
<1> HIDE DEF gone, lists, r
<1> QED
  BY <1>2, <1>3, <1>4

\* A conversion for a patch.
LEMMA PatchConverts ==
  ASSUME Shapes, TypesInv, NEW c \in Workload, OthersWait(c),
         pc[c] \in {"operate"} \cup Patching,
         walk' = walk, answer' = answer, cache' = cache, store' = store,
         NEW type \in Types, call' = call \/ call' = [call EXCEPT ![c].type = type],
         NEW from \in Types, NEW preferences, IsWeighing(preferences),
         NEW then \in Patching, Begins(c, from, preferences, then)
  PROVE  TypesKept(c)
<1>1. /\ RequestIsTyped(c) /\ CanParse(Requests[c]) /\ call[c].preferences = Wanted(c)
      /\ CallIsRight(call[c]) /\ DOMAIN call = Workload /\ IsCall(call[c])
  BY OperatingFacts
<1>2. call'[c] = call[c] \/ call'[c] = [call[c] EXCEPT !.type = type]
  BY <1>1
<1>3. /\ call'[c].type \in Types /\ call'[c].status = call[c].status
      /\ call'[c].preferences = call[c].preferences
  BY <1>1, <1>2 DEF IsCall, CallIsRight
<1>4. CallIsRight(call'[c]) /\ call'[c].preferences = Wanted(c)
  BY <1>1, <1>3 DEF CallIsRight
<1>5. RequestIsTyped(c)'
  BY <1>1, <1>4, BeginIsTyped DEF Patching
<1> QED
  BY <1>5, SameTypes DEF TypesKept

LEMMA ModifyTypes ==
  ASSUME Shapes, TypesInv, NEW c \in Workload, OthersWait(c), modifyResource(c)
  PROVE  TypesKept(c)
<1> DEFINE r == Target(c)
           from == store[r].type
<1>1. pc[c] = "operate" /\ walk' = walk /\ answer' = answer /\ cache' = cache /\ store' = store
  BY DEF modifyResource, Operates
<1>2. /\ RequestIsTyped(c) /\ CanParse(Requests[c]) /\ call[c].preferences = Wanted(c)
  BY <1>1, OperatingFacts
<1>3. \/ failNow(c, 400) \/ failNow(c, 501)
      \/ Changed(c, 205, {})
      \/ Exists(r) /\ Begin(c, from, Nothing, IsContainer(r), 2, "toQuads") /\ UNCHANGED call
      \/ Begin(c, Quads, Only(Turtle), FALSE, 2, "writePatched") /\ call' = [call EXCEPT ![c].type = Turtle]
  BY Zenon DEF modifyResource
<1>4. ASSUME NEW status \in {400, 501}, failNow(c, status)
      PROVE  TypesKept(c)
  BY <1>1, <1>4, RefusalTypes DEF Refusals
<1>5. CASE Changed(c, 205, {})
  BY <1>1, <1>2, <1>5, ChangedIsTyped, SameTypes DEF TypesKept
<1>6. IsWeighing(Nothing) /\ IsWeighing(Only(Turtle)) /\ Quads \in Types /\ Turtle \in Types
  BY WeightsAssumption, SetupFacts DEF IsWeighing, Nothing, Only
<1>7. CASE Exists(r) /\ Begin(c, from, Nothing, IsContainer(r), 2, "toQuads") /\ UNCHANGED call
  <2>1. from \in Types
    BY <1>7 DEF TypesInv, StoreIsTyped, Exists
  <2>2. Begins(c, from, Nothing, "toQuads") /\ "toQuads" \in Patching
    BY <1>7 DEF Begins, Patching
  <2> HIDE DEF from
  <2> QED
    BY <1>1, <1>6, <1>7, <2>1, <2>2, PatchConverts
<1>8. CASE Begin(c, Quads, Only(Turtle), FALSE, 2, "writePatched") /\ call' = [call EXCEPT ![c].type = Turtle]
  <2>1. Begins(c, Quads, Only(Turtle), "writePatched") /\ "writePatched" \in Patching
    BY <1>8 DEF Begins, Patching
  <2> QED
    BY <1>1, <1>6, <1>8, <2>1, PatchConverts
<1>9. CASE failNow(c, 400) \/ failNow(c, 501)
  BY <1>4, <1>9
<1> QED
  BY <1>3, <1>5, <1>7, <1>8, <1>9, Zenon

LEMMA IntermediateTypes ==
  ASSUME Shapes, TypesInv, NEW c \in Workload, OthersWait(c), toIntermediate(c)
  PROVE  TypesKept(c)
<1> DEFINE type == job[c].result
<1>1. /\ pc[c] \in {"operate"} \cup Patching
      /\ walk' = walk /\ answer' = answer /\ cache' = cache /\ store' = store
      /\ call' = [call EXCEPT ![c].type = type] /\ Begins(c, type, Only(Quads), "patch")
      /\ type # NoType
  BY DEF toIntermediate, authorizationVars, Begins, Patching
<1>2. type \in Types /\ IsWeighing(Only(Quads)) /\ "patch" \in Patching
  BY <1>1, OperatingFacts, WeightsAssumption DEF JobIsRight, IsWeighing, Only, Patching
<1> HIDE DEF type
<1> QED
  BY <1>1, <1>2, PatchConverts

LEMMA PatchTypes ==
  ASSUME Shapes, TypesInv, NEW c \in Workload, OthersWait(c), patch(c)
  PROVE  TypesKept(c)
<1> DEFINE preferences == Only(call[c].type)
<1>1. /\ pc[c] \in {"operate"} \cup Patching
      /\ walk' = walk /\ answer' = answer /\ cache' = cache /\ store' = store /\ call' = call
      /\ Begins(c, Quads, preferences, "writePatched")
  BY DEF patch, authorizationVars, requestVars, Begins, Patching
<1>2. Quads \in Types /\ IsWeighing(preferences) /\ "writePatched" \in Patching
  BY SetupFacts, WeightsAssumption DEF IsWeighing, Only, Patching
<1> HIDE DEF preferences
<1> QED
  BY <1>1, <1>2, PatchConverts

LEMMA AbandonTypes ==
  ASSUME Shapes, TypesInv, NEW c \in Workload, OthersWait(c), abandon(c)
  PROVE  TypesKept(c)
<1>1. /\ pc[c] \in {"authenticate", "getAcl", "operate"} \cup Patching
      /\ walk' = walk /\ answer' = answer /\ cache' = cache /\ store' = store /\ failNow(c, 501)
  BY DEF abandon, Patching
<1>2. 501 \in Refusals
  BY DEF Refusals
<1> QED
  BY <1>1, <1>2, RefusalTypes

LEMMA WritePatchedTypes ==
  ASSUME Shapes, TypesInv, NEW c \in Workload, OthersWait(c), writePatched(c)
  PROVE  TypesKept(c)
<1> DEFINE r == Target(c)
           body == Requests[c].body
           old == IF Exists(r) THEN store[r].list ELSE {}
           entry == [type |-> IF IsContainer(r) THEN Quads ELSE call[c].type, by |-> c,
                     list |-> IF IsAcl(r) THEN (old \ body.deleted) \cup body.list ELSE {}]
<1>1. pc[c] = "writePatched" /\ walk' = walk /\ answer' = answer /\ cache' = cache
  BY DEF writePatched
<1>2. \/ failNow(c, 409) /\ UNCHANGED store
      \/ writeData(c, Target(c), entry)
  BY Zenon DEF writePatched
<1>3. entry.type \in Types
  BY <1>1, OperatingFacts, SetupFacts DEF CallIsRight, Patching
<1> HIDE DEF entry
<1>4. pc[c] \in Patching /\ 409 \in Refusals
  BY <1>1 DEF Patching, Refusals
<1>5. CASE writeData(c, Target(c), entry)
  BY <1>1, <1>3, <1>4, <1>5, WriteDataTypes
<1>6. CASE failNow(c, 409) /\ UNCHANGED store
  BY <1>1, <1>4, <1>6, RefusalTypes
<1> QED
  BY <1>2, <1>5, <1>6

\* What cannot be parsed is refused in plain text.
LEMMA ParseTypes ==
  ASSUME Shapes, TypesInv, NEW c \in Workload, OthersWait(c), parse(c)
  PROVE  TypesKept(c)
<1> DEFINE request == Requests[c]
<1>1. /\ pc[c] = "new" /\ walk' = walk /\ store' = store /\ cache' = cache /\ answer' = answer
      /\ RequestIsTyped(c)
  BY DEF parse, authorizationVars, TypesInv
<1>2. DOMAIN call = Workload /\ DOMAIN pc = Workload /\ IsCall(call[c])
  BY DEF Shapes, RequestIsRight, Workload
<1>3. /\ Types' = Types /\ Wanted(c)' = Wanted(c) /\ CanParse(Requests[c])' = CanParse(Requests[c])
  BY SameSetup DEF OthersWait
<1>4. CallIsRight(call[c]) /\ JobIsRight(job[c]) /\ WalkIsRight(walk[c]) /\ AnswerIsRight(answer[c])
  BY <1>1 DEF RequestIsTyped
<1>5. IsWeighing(Wanted(c))
  BY WantedIsWeighing
<1>6. CASE CanParse(request)
  <2>1. /\ call' = [call EXCEPT ![c] = [@ EXCEPT !.target = targetOf(request),
                                           !.preferences = Preferences(request.headers)]]
        /\ Go(c, "authenticate") /\ job' = job
    BY <1>6 DEF parse
  <2>2. call'[c] = [call[c] EXCEPT !.target = targetOf(request), !.preferences = Wanted(c)]
    BY <1>2, <1>6, <2>1 DEF Wanted
  <2>3. /\ call'[c].preferences = Wanted(c) /\ call'[c].type = call[c].type
        /\ call'[c].status = call[c].status
    BY <1>2, <2>2 DEF IsCall
  <2>4. CallIsRight(call[c])' /\ JobIsRight(job[c])' /\ AnswerIsRight(answer[c])' /\ WalkIsRight(walk[c])'
    BY <1>1, <1>3, <1>4, <1>5, <2>1, <2>3 DEF CallIsRight, JobIsRight, AnswerIsRight, WalkIsRight
  <2>5. pc'[c] = "authenticate"
    BY <1>2, <2>1 DEF Go
  <2>6. NegotiationIsRight(c)'
    BY <1>3, <1>6, <2>3, <2>5 DEF NegotiationIsRight, ConvertsFor, Converting
  <2>7. RequestIsTyped(c)'
    BY <2>4, <2>6 DEF RequestIsTyped
  <2> QED
    BY <1>1, <2>7, SameTypes DEF TypesKept
<1>7. CASE ~CanParse(request)
  <2> DEFINE plain == Only(TextPlain)
             status == parseError(request)
  <2>0. status \in {400, 500}
    BY DEF parseError
  <2>1. fail(c, status, plain) /\ Wanted(c) = plain
    BY <1>7 DEF parse, Wanted
  <2> HIDE DEF plain, status
  <2>2. /\ call' = [call EXCEPT ![c] = [@ EXCEPT !.status = status, !.preferences = plain]]
        /\ Begins(c, Error, plain, "respondError")
    BY <2>1 DEF fail, Begins
  <2>3. call'[c] = [call[c] EXCEPT !.status = status, !.preferences = plain]
    BY <1>2, <2>2
  <2>4. call'[c].preferences = plain /\ call'[c].type = call[c].type /\ call'[c].status = status
    BY <1>2, <2>3 DEF IsCall
  <2>5. CallIsRight(call'[c]) /\ status \in Refusals /\ Error \in Types
    BY <1>4, <1>5, <2>0, <2>1, <2>4, SetupFacts DEF CallIsRight, Statuses, Refusals
  <2>6. /\ JobIsRight(job'[c]) /\ job'[c].preferences = plain
        /\ job'[c].then = "respondError" /\ pc'[c] = "convert"
    BY <1>5, <2>1, <2>2, <2>5, BeginFacts
  <2>7. RequestIsTyped(c)'
    BY <1>1, <1>4, <2>0, <2>1, <2>4, <2>5, <2>6, ConvertingIsTyped
  <2> QED
    BY <1>1, <2>7, SameTypes DEF TypesKept
<1> QED
  BY <1>6, <1>7

\* A step of the walk, which is right again.
LEMMA WalkIsTyped ==
  ASSUME Shapes, TypesInv, NEW c \in Workload, OthersWait(c),
         pc[c] \in {"authenticate", "getAcl"}, pc'[c] \in {"getAcl", "operate"},
         answer' = answer, cache' = cache, store' = store, call' = call, job' = job,
         WalkIsRight(walk'[c])
  PROVE  TypesKept(c)
<1>1. /\ CanParse(Requests[c]) /\ call[c].preferences = Wanted(c)
      /\ CallIsRight(call[c]) /\ JobIsRight(job[c]) /\ AnswerIsRight(answer[c])
  BY OperatingFacts
<1>2. /\ Types' = Types /\ Wanted(c)' = Wanted(c) /\ CanParse(Requests[c])' = CanParse(Requests[c])
  BY SameSetup DEF OthersWait
<1>3. CallIsRight(call[c])' /\ JobIsRight(job[c])' /\ AnswerIsRight(answer[c])' /\ WalkIsRight(walk[c])'
  BY <1>1, <1>2 DEF CallIsRight, JobIsRight, AnswerIsRight, WalkIsRight
<1>4. NegotiationIsRight(c)'
  BY <1>1, <1>2 DEF NegotiationIsRight, ConvertsFor, Converting
<1>5. RequestIsTyped(c)'
  BY <1>3, <1>4 DEF RequestIsTyped
<1> QED
  BY <1>5, SameTypes DEF TypesKept

LEMMA PermissionsAreModes ==
  ASSUME NEW request, NEW target, CanDetermine(request, target)
  PROVE  permissionsOf(request, target) \subseteq Modes
<1>1. CASE IsAcl(target)
  BY <1>1 DEF permissionsOf, Modes
<1>2. CASE ~IsAcl(target) /\ request.method = "PATCH"
  BY <1>2 DEF permissionsOf, patchPermissions, Modes
<1>3. CASE ~IsAcl(target) /\ request.method # "PATCH"
  <2>1. request.method \in {"GET", "HEAD", "PUT", "DELETE", "POST"}
    BY <1>3 DEF CanDetermine, IsPatch
  <2>2. methodPermissions(request.method) \subseteq Modes
    BY <2>1 DEF methodPermissions, Modes
  <2> QED
    BY <1>3, <2>2 DEF permissionsOf
<1> QED
  BY <1>1, <1>2, <1>3

LEMMA AuthenticateTypes ==
  ASSUME Shapes, TypesInv, NEW c \in Workload, OthersWait(c), authenticate(c)
  PROVE  TypesKept(c)
<1> DEFINE request == Requests[c]
           status == credentialsError(request)
           target == call[c].target
<1>1. pc[c] = "authenticate" /\ answer' = answer /\ cache' = cache /\ store' = store
  BY DEF authenticate
<1>2. \/ status # 0 /\ failNow(c, status) /\ walk' = walk
      \/ failNow(c, 501) /\ walk' = walk
      \/ /\ CanDetermine(request, target) /\ beginWalk(c, target) /\ Go(c, "getAcl")
         /\ UNCHANGED <<job, call>>
  BY Zenon DEF authenticate
<1>3. status \in {0, 400, 501}
  BY DEF credentialsError
<1> HIDE DEF status
<1>4. ASSUME NEW e \in {400, 501}, failNow(c, e), walk' = walk
      PROVE  TypesKept(c)
  BY <1>1, <1>4, RefusalTypes DEF Refusals
<1>5. CASE CanDetermine(request, target) /\ beginWalk(c, target) /\ Go(c, "getAcl") /\ UNCHANGED <<job, call>>
  <2>1. /\ DOMAIN walk = Workload /\ DOMAIN pc = Workload
        /\ target[2] \in Paths \cup {Elsewhere}
    BY DEF Shapes, RequestIsRight, Workload
  <2>2. walk'[c] = [NoWalk EXCEPT !.agent = agentOf(Requests[c]), !.at = target[2],
                      !.modes = permissionsOf(Requests[c], target)]
    BY <1>5, <2>1 DEF beginWalk
  <2>3. permissionsOf(request, target) \subseteq Modes
    BY <1>5, PermissionsAreModes
  <2>4. /\ walk'[c].at = target[2] /\ walk'[c].modes = permissionsOf(request, target)
        /\ walk'[c].user = {} /\ walk'[c].everyone = {}
    BY <2>2 DEF NoWalk
  <2>5. WalkIsRight(walk'[c])
    BY <2>1, <2>3, <2>4 DEF WalkIsRight
  <2>6. pc'[c] = "getAcl" /\ job' = job /\ call' = call
    BY <1>5, <2>1 DEF Go
  <2> QED
    BY <1>1, <2>5, <2>6, WalkIsTyped
<1>6. CASE status # 0 /\ failNow(c, status) /\ walk' = walk
  BY <1>3, <1>4, <1>6
<1>7. CASE failNow(c, 501) /\ walk' = walk
  BY <1>4, <1>7
<1> QED
  BY <1>2, <1>5, <1>6, <1>7, Zenon

LEMMA WalkTypes ==
  ASSUME Shapes, TypesInv, NEW c \in Workload, OthersWait(c), getAclRecursive(c)
  PROVE  TypesKept(c)
<1>1. pc[c] = "getAcl" /\ DOMAIN walk = Workload /\ DOMAIN pc = Workload /\ IsWalk(walk[c])
  BY DEF getAclRecursive, climb, authorize, deny, ListRead, Shapes, RequestIsRight, Workload
<1>2. WalkIsRight(walk[c])
  BY <1>1, OperatingFacts
<1>3. CASE climb(c) /\ UNCHANGED <<store, locked, conversionVars, socketVars, requestVars>>
  <2>1. walk'[c] = [walk[c] EXCEPT !.at = Parent[walk[c].at], !.recurse = TRUE]
    BY <1>1, <1>3 DEF climb
  <2>2. /\ walk'[c].at = Parent[walk[c].at] /\ walk'[c].modes = walk[c].modes
        /\ walk'[c].user = walk[c].user /\ walk'[c].everyone = walk[c].everyone
    BY <1>1, <2>1 DEF IsWalk
  <2>3. Parent[walk[c].at] \in Paths /\ pc' = pc
    BY <1>3, AboveFacts DEF climb
  <2>4. WalkIsRight(walk'[c])
    BY <1>2, <2>2, <2>3 DEF WalkIsRight
  <2>5. answer' = answer /\ cache' = cache /\ store' = store /\ call' = call /\ job' = job
    BY <1>3 DEF conversionVars, requestVars
  <2> QED
    BY <1>1, <2>3, <2>4, <2>5, WalkIsTyped
<1>4. CASE authorize(c) /\ UNCHANGED <<store, locked, conversionVars, socketVars, requestVars>>
  <2> DEFINE user == determinePermissions(walk[c].agent,
                       filterData(store[Acl(walk[c].at)].list,
                                  IF walk[c].recurse THEN "default" ELSE "accessTo", walk[c].at))
             everyone == determinePermissions(Anonymous,
                           filterData(store[Acl(walk[c].at)].list,
                                      IF walk[c].recurse THEN "default" ELSE "accessTo", walk[c].at))
  <2>1. walk'[c] = [walk[c] EXCEPT !.user = user, !.everyone = everyone]
    BY <1>1, <1>4 DEF authorize, createAuthorization
  <2>2. user \subseteq Modes /\ everyone \subseteq Modes
    BY DEF determinePermissions
  <2> HIDE DEF user, everyone
  <2>3. /\ walk'[c].at = walk[c].at /\ walk'[c].modes = walk[c].modes
        /\ walk'[c].user = user /\ walk'[c].everyone = everyone
    BY <1>1, <2>1 DEF IsWalk
  <2>4. WalkIsRight(walk'[c])
    BY <1>2, <2>2, <2>3 DEF WalkIsRight
  <2>5. /\ answer' = answer /\ cache' = cache /\ store' = store /\ call' = call /\ job' = job
        /\ pc'[c] = "operate"
    BY <1>1, <1>4 DEF conversionVars, requestVars, authorize, Go
  <2> QED
    BY <1>1, <2>4, <2>5, WalkIsTyped
<1>5. CASE deny(c)
  <2>1. walk' = walk /\ store' = store /\ answer' = answer /\ cache' = cache
    BY <1>5 DEF deny, authorizationVars
  <2>2. failNow(c, refusal(c)) \/ failNow(c, walkError(c))
    BY <1>5, Zenon DEF deny
  <2>3. refusal(c) \in Refusals /\ walkError(c) \in Refusals
    BY DEF refusal, walkError, Refusals
  <2> QED
    BY <1>1, <2>1, <2>2, <2>3, RefusalTypes
<1> QED
  BY <1>3, <1>4, <1>5, Zenon DEF getAclRecursive

\* No step of a request breaks the types.
LEMMA StepTypes ==
  ASSUME RInv, TypesInv, scenario' = scenario, NEW c \in Workload, RequestStep(c), Remember(c)
  PROVE  TypesInv'
<1>1. Shapes /\ OthersWait(c) /\ RequestIsTyped(c)
  BY RequestKeeps DEF RInv, Keeps, TypesInv
<1>2. TypesKept(c)
  <2>1. CASE ConversionStep(c) /\ UNCHANGED <<authorizationVars, socketVars, requestVars>>
    <3>1. RequestIsTyped(c)' /\ CacheIsRight'
      BY <1>1, <2>1, ConversionTypes DEF TypesInv
    <3>2. store' = store /\ answer' = answer
      BY <2>1 DEF authorizationVars, requestVars
    <3> QED
      BY <1>1, <3>1, <3>2, SameTypes DEF TypesKept
  <2>2. CASE \/ parse(c) \/ authenticate(c) \/ getAclRecursive(c) \/ getRepresentation(c)
             \/ setRepresentation(c) \/ addResource(c) \/ deleteResource(c)
    BY <1>1, <2>2, ParseTypes, AuthenticateTypes, WalkTypes, GetTypes, SetTypes, AddTypes, DeleteTypes
  <2>3. CASE \/ modifyResource(c) \/ toIntermediate(c) \/ patch(c) \/ writePatched(c) \/ abandon(c)
             \/ respond(c) \/ respondError(c) \/ emit(c)
    BY <1>1, <2>3, ModifyTypes, IntermediateTypes, PatchTypes, WritePatchedTypes, AbandonTypes,
       RespondTypes, RespondErrorTypes, EmitTypes
  <2> QED
    BY <2>1, <2>2, <2>3, Zenon DEF RequestStep
<1>3. ASSUME NEW d \in Workload \ {c}
      PROVE  RequestIsTyped(d)'
  BY <1>1, <1>2, OthersKeepTypes DEF TypesKept, TypesInv
<1> QED
  BY <1>1, <1>2, <1>3 DEF TypesInv, TypesKept, OthersWait

LEMMA TypesInvStep ==
  RInv /\ TypesInv /\ [Next]_vars => TypesInv'
<1> SUFFICES ASSUME RInv, TypesInv, [Next]_vars PROVE TypesInv'
  OBVIOUS
<1>1. ASSUME scenario' = scenario, NEW c \in Workload, RequestStep(c), Remember(c)
      PROVE  TypesInv'
  BY <1>1, StepTypes
<1>2. ASSUME UNCHANGED <<scenario, pc, conversionVars, authorizationVars, requestVars>>
      PROVE  TypesInv'
  <2>1. /\ scenario' = scenario /\ pc' = pc /\ Workload' = Workload /\ job' = job /\ cache' = cache
        /\ store' = store /\ walk' = walk /\ call' = call /\ answer' = answer
    BY <1>2 DEF conversionVars, authorizationVars, requestVars, Workload
  <2>2. Types' = Types /\ setup' = setup /\ converters' = converters
    BY <2>1, SameSetup
  <2>3. CacheIsRight' /\ StoreIsTyped'
    BY <2>1, <2>2 DEF TypesInv, CacheIsRight, ChainPaths, StoreIsTyped, Known
  <2>4. ASSUME NEW d \in Workload
        PROVE  RequestIsTyped(d)'
    <3>1. RequestIsTyped(d)
      BY DEF TypesInv
    <3>2. /\ Wanted(d)' = Wanted(d) /\ CanParse(Requests[d])' = CanParse(Requests[d])
      BY <2>1, SameSetup
    <3>3. CallIsRight(call[d])' /\ JobIsRight(job[d])' /\ AnswerIsRight(answer[d])' /\ WalkIsRight(walk[d])'
      BY <2>1, <2>2, <3>1 DEF RequestIsTyped, CallIsRight, JobIsRight, AnswerIsRight, WalkIsRight
    <3>4. AnswerIsAccepted(d) => AnswerIsAccepted(d)'
      BY <2>1, SameAnswer
    <3>5. NegotiationIsRight(d)'
      BY <2>1, <3>1, <3>2, <3>4 DEF RequestIsTyped, NegotiationIsRight, ConvertsFor
    <3> QED
      BY <3>3, <3>5 DEF RequestIsTyped
  <2> QED
    BY <2>1, <2>3, <2>4 DEF TypesInv
<1>3. CASE UNCHANGED vars
  BY <1>2, <1>3 DEF vars
<1> QED
  BY <1>1, <1>2, <1>3 DEF Next

LEMMA TypesInvInit ==
  Init => TypesInv
<1> SUFFICES ASSUME Init PROVE TypesInv
  OBVIOUS
<1>1. /\ store = scenario.store /\ cache = <<>>
      /\ \A c \in Workload : /\ pc[c] = "new" /\ walk[c] = NoWalk /\ call[c] = NoCall /\ job[c] = NoJob
                             /\ answer[c] = NoAnswer
      /\ DOMAIN answer = Workload
  BY DEF Init, ConversionInit, Workload
<1>2. Shapes
  BY RInvInit DEF RInv
<1>3. setup.cacheSize \in Nat /\ {TextPlain, NoType} \subseteq Types
  BY <1>2, SetupFacts
<1>4. CacheIsRight
  <2>1. <<>> \in Seq(ChainPaths(Known)) /\ Len(<<>>) = 0
    BY EmptySeq
  <2> QED
    BY <1>1, <1>3, <2>1 DEF CacheIsRight
<1>5. StoreIsTyped
  BY <1>1 DEF StoreIsTyped, Types
<1>6. IsWeighing(Nothing) /\ IsWeighing(Only(TextPlain))
  BY WeightsAssumption DEF IsWeighing, Nothing, Only
<1>7. WalkIsRight(NoWalk) /\ CallIsRight(NoCall) /\ JobIsRight(NoJob) /\ AnswerIsRight(NoAnswer)
  BY <1>3, <1>6 DEF WalkIsRight, NoWalk, CallIsRight, NoCall, JobIsRight, NoJob, AnswerIsRight, NoAnswer, Statuses
<1>8. ASSUME NEW c \in Workload
      PROVE  RequestIsTyped(c)
  <2>1. NegotiationIsRight(c)
    BY <1>1 DEF NegotiationIsRight, ConvertsFor, Converting
  <2> QED
    BY <1>1, <1>7, <2>1 DEF RequestIsTyped
<1> QED
  BY <1>1, <1>4, <1>5, <1>8 DEF TypesInv

-----------------------------------------------------------------------------
(* Locks.                                                                  *)

\* What a step of a request does with its lock.
LockKept(c) ==
  /\ locked' = locked /\ (HoldsLock(c)' <=> HoldsLock(c))
  /\ HoldsLock(c) => call'[c].target = call[c].target

LockTaken(c) ==
  /\ ~HoldsLock(c) /\ Target(c)[2] \notin locked /\ HoldsLock(c)'
  /\ call'[c].target = call[c].target /\ locked' = locked \cup {Target(c)[2]}

LockGiven(c) == HoldsLock(c) /\ ~HoldsLock(c)' /\ locked' = locked \ {Target(c)[2]}

\* No request takes or gives the lock of another.
LEMMA OthersHold ==
  ASSUME NEW c \in Workload, OthersWait(c), NEW d \in Workload \ {c}
  PROVE  (HoldsLock(d)' <=> HoldsLock(d)) /\ Target(d)' = Target(d)
BY DEF OthersWait, HoldsLock, Target

\* Locks stay those of patches when one request takes or gives its own.
LEMMA LocksKept ==
  ASSUME LocksInv, NEW c \in Workload, OthersWait(c), LockKept(c) \/ LockTaken(c) \/ LockGiven(c)
  PROVE  LocksInv'
<1> DEFINE path(d) == Target(d)[2]
<1>1. Workload' = Workload
  BY DEF OthersWait
<1>2. \A d \in Workload \ {c} : (HoldsLock(d)' <=> HoldsLock(d)) /\ Target(d)' = Target(d)
  BY OthersHold
<1>3. \/ /\ HoldsLock(c)' <=> HoldsLock(c)
         /\ HoldsLock(c) => Target(c)' = Target(c)
         /\ locked' = locked
      \/ /\ ~HoldsLock(c) /\ Target(c)[2] \notin locked /\ HoldsLock(c)'
         /\ Target(c)' = Target(c)
         /\ locked' = locked \cup {Target(c)[2]}
      \/ /\ HoldsLock(c) /\ ~HoldsLock(c)'
         /\ locked' = locked \ {Target(c)[2]}
  BY DEF LockKept, LockTaken, LockGiven, Target
<1>4. ASSUME NEW p \in locked'
      PROVE  \E d \in Workload : HoldsLock(d)' /\ Target(d)'[2] = p
  BY <1>2, <1>3, <1>4 DEF LocksInv
<1>5. ASSUME NEW d \in Workload, HoldsLock(d)'
      PROVE  Target(d)'[2] \in locked'
  BY <1>2, <1>3, <1>5 DEF LocksInv
<1>6. ASSUME NEW d \in Workload, NEW e \in Workload, HoldsLock(d)', HoldsLock(e)',
             Target(d)'[2] = Target(e)'[2]
      PROVE  d = e
  BY <1>2, <1>3, <1>6 DEF LocksInv
<1> QED
  BY <1>1, <1>4, <1>5, <1>6 DEF LocksInv

LEMMA BeginLocks ==
  ASSUME Shapes, NEW c \in Workload, NEW from, NEW preferences, NEW then,
         Begins(c, from, preferences, then)
  PROVE  HoldsLock(c)' <=> then \in Patching
<1>1. PICK container, lookups : Begin(c, from, preferences, container, lookups, then)
  BY DEF Begins
<1>2. job'[c].then = then /\ pc'[c] = "convert"
  BY <1>1 DEF Begin, Go, Shapes, Workload, NoJob
<1> QED
  BY <1>2 DEF HoldsLock, Converting, Patching

LEMMA FailLocks ==
  ASSUME Shapes, NEW c \in Workload, NEW status, NEW preferences, fail(c, status, preferences)
  PROVE  ~HoldsLock(c)' /\ call'[c].target = call[c].target
<1>1. Fails(c, status)
  BY FailEffect
<1> QED
  BY <1>1 DEF Fails, Converts, HoldsLock, Converting, Patching

LEMMA GoLocks ==
  ASSUME Shapes, NEW c \in Workload, NEW to, to \notin Converting \cup Patching, Go(c, to)
  PROVE  ~HoldsLock(c)'
BY DEF Shapes, Go, Workload, HoldsLock

\* Only patches hold locks.
LEMMA NoLock ==
  ASSUME NEW c, pc[c] \notin Converting \cup Patching
  PROVE  ~HoldsLock(c)
BY DEF HoldsLock

LEMMA WriteDataLocks ==
  ASSUME Shapes, NEW c \in Workload, NEW r, NEW entry, writeData(c, r, entry)
  PROVE  ~HoldsLock(c)'
<1>1. Go(c, "emit")
  BY DEF writeData, Changed
<1> QED
  BY <1>1, GoLocks DEF Converting, Patching

\* The steps that neither take a lock nor hold one.
LEMMA UnlockedSteps ==
  ASSUME Shapes, NEW c \in Workload,
         \/ parse(c) \/ authenticate(c) \/ getAclRecursive(c) \/ getRepresentation(c)
         \/ setRepresentation(c) \/ addResource(c) \/ deleteResource(c)
         \/ respond(c) \/ respondError(c) \/ emit(c)
  PROVE  LockKept(c)
<1>1. /\ locked' = locked
      /\ pc[c] \notin Converting \cup Patching
  BY DEF parse, authenticate, getAclRecursive, climb, authorize, deny, ListRead, getRepresentation,
     setRepresentation, addResource, deleteResource, respond, respondError, emit, Operates,
     authorizationVars, Converting, Patching
<1>2. ~HoldsLock(c)
  BY <1>1, NoLock
<1>3. ASSUME NEW status, failNow(c, status)
      PROVE  ~HoldsLock(c)'
  BY <1>3, FailLocks DEF failNow
<1>4. ASSUME NEW to \in {"authenticate", "getAcl", "operate", "emit", "answered"}, Go(c, to)
      PROVE  ~HoldsLock(c)'
  BY <1>4, GoLocks DEF Converting, Patching
<1>5. ~HoldsLock(c)'
  <2>1. CASE parse(c)
    BY <1>4, <2>1, FailLocks DEF parse
  <2>2. CASE authenticate(c)
    BY <1>3, <1>4, <2>2 DEF authenticate
  <2>3. CASE getAclRecursive(c)
    <3>1. CASE climb(c) /\ UNCHANGED conversionVars
      BY <1>2, <3>1 DEF climb, conversionVars, HoldsLock
    <3>2. CASE authorize(c)
      BY <1>4, <3>2 DEF authorize
    <3>3. CASE deny(c)
      BY <1>3, <3>3 DEF deny
    <3> QED
      BY <2>3, <3>1, <3>2, <3>3 DEF getAclRecursive
  <2>4. CASE getRepresentation(c)
    <3>1. CASE Exists(Target(c))
      <4>1. Begins(c, store[Target(c)].type, call[c].preferences, "respond")
        BY <2>4, <3>1 DEF getRepresentation, Begins
      <4> QED
        BY <4>1, BeginLocks DEF Patching
    <3> QED
      BY <1>3, <2>4, <3>1 DEF getRepresentation
  <2>5. CASE setRepresentation(c)
    BY <1>3, <2>5, WriteDataLocks DEF setRepresentation
  <2>6. CASE addResource(c)
    <3> DEFINE Made(path) == Changed(c, 201, {Target(c), Subject(path)})
    <3>1. \/ failNow(c, 400) \/ failNow(c, 404) \/ failNow(c, 405)
          \/ \E path \in NewPaths : Made(path)
      BY Zenon, <2>6 DEF addResource
    <3>2. ASSUME NEW path, Made(path)
          PROVE  ~HoldsLock(c)'
      BY <1>4, <3>2 DEF Changed
    <3> HIDE DEF Made
    <3> QED
      BY <1>3, <3>1, <3>2
  <2>7. CASE deleteResource(c)
    BY <1>3, <1>4, <2>7 DEF deleteResource, Changed
  <2>8. CASE respond(c)
    <3>1. CASE job[c].result = NoType
      <4>1. Begins(c, Error, call[c].preferences, "respondError")
        BY <2>8, <3>1 DEF respond, Begins
      <4> QED
        BY <4>1, BeginLocks DEF Patching
    <3>2. CASE job[c].result # NoType
      BY <1>4, <2>8, <3>2 DEF respond, write
    <3> QED
      BY <3>1, <3>2
  <2>9. CASE respondError(c) \/ emit(c)
    BY <1>4, <2>9 DEF respondError, emit, write
  <2> QED
    BY <2>1, <2>2, <2>3, <2>4, <2>5, <2>6, <2>7, <2>8, <2>9
<1> QED
  BY <1>1, <1>2, <1>5 DEF LockKept

LEMMA ModifyLocks ==
  ASSUME Shapes, NEW c \in Workload, modifyResource(c)
  PROVE  LockKept(c) \/ LockTaken(c)
<1> DEFINE r == Target(c)
<1>1. pc[c] = "operate" /\ r[2] \notin locked
  BY DEF modifyResource, Operates, Free
<1>2. ~HoldsLock(c)
  BY <1>1, NoLock DEF Converting, Patching
<1>3. \/ failNow(c, 400) /\ UNCHANGED locked
      \/ failNow(c, 501) /\ UNCHANGED locked
      \/ Changed(c, 205, {}) /\ UNCHANGED locked
      \/ /\ locked' = locked \cup {r[2]}
         /\ \/ /\ Begin(c, store[r].type, Nothing, IsContainer(r), 2, "toQuads")
               /\ UNCHANGED call
            \/ /\ Begin(c, Quads, Only(Turtle), FALSE, 2, "writePatched")
               /\ call' = [call EXCEPT ![c].type = Turtle]
  BY Zenon DEF modifyResource
<1>4. ASSUME NEW status, failNow(c, status), UNCHANGED locked
      PROVE  LockKept(c)
  BY <1>2, <1>4, FailLocks DEF failNow, LockKept
<1>5. CASE Changed(c, 205, {}) /\ UNCHANGED locked
  <2>1. ~HoldsLock(c)'
    BY <1>5, GoLocks DEF Changed, Converting, Patching
  <2> QED
    BY <1>2, <1>5, <2>1 DEF LockKept
<1>6. ASSUME NEW from, NEW preferences, NEW then \in Patching, Begins(c, from, preferences, then),
             call' = call \/ call' = [call EXCEPT ![c].type = Turtle], locked' = locked \cup {r[2]}
      PROVE  LockTaken(c)
  <2>1. HoldsLock(c)'
    BY <1>6, BeginLocks
  <2>2. call'[c].target = call[c].target
    BY <1>6 DEF Shapes, RequestIsRight, IsCall
  <2> QED
    BY <1>1, <1>2, <1>6, <2>1, <2>2 DEF LockTaken
<1>7. CASE /\ locked' = locked \cup {r[2]}
           /\ Begin(c, store[r].type, Nothing, IsContainer(r), 2, "toQuads") /\ UNCHANGED call
  <2>1. Begins(c, store[r].type, Nothing, "toQuads") /\ "toQuads" \in Patching
    BY <1>7 DEF Begins, Patching
  <2> QED
    BY <1>6, <1>7, <2>1
<1>8. CASE /\ locked' = locked \cup {r[2]}
           /\ Begin(c, Quads, Only(Turtle), FALSE, 2, "writePatched")
           /\ call' = [call EXCEPT ![c].type = Turtle]
  <2>1. Begins(c, Quads, Only(Turtle), "writePatched") /\ "writePatched" \in Patching
    BY <1>8 DEF Begins, Patching
  <2> QED
    BY <1>6, <1>8, <2>1
<1> QED
  BY <1>3, <1>4, <1>5, <1>7, <1>8

LEMMA PatchLocks ==
  ASSUME Shapes, NEW c \in Workload, toIntermediate(c) \/ patch(c)
  PROVE  LockKept(c)
<1>1. HoldsLock(c) /\ locked' = locked
  BY DEF toIntermediate, patch, authorizationVars, HoldsLock, Patching
<1>2. HoldsLock(c)'
  <2>1. CASE toIntermediate(c)
    <3>1. Begins(c, job[c].result, Only(Quads), "patch")
      BY <2>1 DEF toIntermediate, Begins
    <3> QED
      BY <3>1, BeginLocks DEF Patching
  <2>2. CASE patch(c)
    <3>1. Begins(c, Quads, Only(call[c].type), "writePatched")
      BY <2>2 DEF patch, Begins
    <3> QED
      BY <3>1, BeginLocks DEF Patching
  <2> QED
    BY <2>1, <2>2
<1>3. call'[c].target = call[c].target
  BY DEF toIntermediate, patch, requestVars, Shapes, RequestIsRight, IsCall
<1> QED
  BY <1>1, <1>2, <1>3 DEF LockKept

LEMMA ReleaseLocks ==
  ASSUME Shapes, NEW c \in Workload, writePatched(c) \/ abandon(c)
  PROVE  LockGiven(c)
<1>1. HoldsLock(c) /\ locked' = locked \ {Target(c)[2]}
  BY DEF writePatched, abandon, HoldsLock, Patching
<1>2. ~HoldsLock(c)'
  <2>1. CASE abandon(c)
    BY <2>1, FailLocks DEF abandon, failNow
  <2>2. CASE writePatched(c)
    BY <2>2, FailLocks, WriteDataLocks DEF writePatched, failNow
  <2> QED
    BY <2>1, <2>2
<1> QED
  BY <1>1, <1>2 DEF LockGiven

\* These are all the steps.
LEMMA LockSteps ==
  ASSUME Shapes, TypesInv, NEW c \in Workload, OthersWait(c), RequestStep(c)
  PROVE  LockKept(c) \/ LockTaken(c) \/ LockGiven(c)
<1>1. CASE ConversionStep(c) /\ UNCHANGED <<authorizationVars, socketVars, requestVars>>
  <2>1. HoldsLock(c)' <=> HoldsLock(c)
    BY <1>1, ConversionTypes DEF TypesInv
  <2>2. locked' = locked /\ call' = call
    BY <1>1 DEF authorizationVars, requestVars
  <2> QED
    BY <2>1, <2>2 DEF LockKept
<1>2. CASE \/ parse(c) \/ authenticate(c) \/ getAclRecursive(c) \/ getRepresentation(c)
           \/ setRepresentation(c) \/ addResource(c) \/ deleteResource(c)
           \/ respond(c) \/ respondError(c) \/ emit(c)
  BY <1>2, UnlockedSteps
<1>3. CASE modifyResource(c)
  BY <1>3, ModifyLocks
<1>4. CASE toIntermediate(c) \/ patch(c)
  BY <1>4, PatchLocks
<1>5. CASE writePatched(c) \/ abandon(c)
  BY <1>5, ReleaseLocks
<1> QED
  BY <1>1, <1>2, <1>3, <1>4, <1>5, Zenon DEF RequestStep

LEMMA LocksInvInit ==
  Init => LocksInv
<1> SUFFICES ASSUME Init PROVE LocksInv
  OBVIOUS
<1>1. locked = {} /\ \A c \in Workload : pc[c] = "new"
  BY DEF Init, Workload
<1>2. \A c \in Workload : ~HoldsLock(c)
  BY <1>1 DEF HoldsLock, Converting, Patching
<1> QED
  BY <1>1, <1>2 DEF LocksInv

LEMMA LocksInvStep ==
  RInv /\ TypesInv /\ LocksInv /\ [Next]_vars => LocksInv'
<1> SUFFICES ASSUME RInv, TypesInv, LocksInv, [Next]_vars PROVE LocksInv'
  OBVIOUS
<1>1. ASSUME scenario' = scenario, NEW c \in Workload, RequestStep(c), Remember(c)
      PROVE  LocksInv'
  <2>1. Shapes /\ OthersWait(c)
    BY <1>1, RequestKeeps DEF RInv, Keeps
  <2> QED
    BY <1>1, <2>1, LockSteps, LocksKept
<1>2. ASSUME UNCHANGED <<scenario, pc, conversionVars, authorizationVars, requestVars>>
      PROVE  LocksInv'
  <2>1. pc' = pc /\ Workload' = Workload /\ job' = job /\ call' = call /\ locked' = locked
    BY <1>2 DEF conversionVars, authorizationVars, requestVars, Workload
  <2>2. ASSUME NEW d
        PROVE  (HoldsLock(d)' <=> HoldsLock(d)) /\ Target(d)' = Target(d)
    BY <2>1 DEF HoldsLock, Target
  <2> QED
    BY <2>1, <2>2 DEF LocksInv
<1>3. CASE UNCHANGED vars
  BY <1>2, <1>3 DEF vars
<1> QED
  BY <1>1, <1>2, <1>3 DEF Next

\* Preferences, types, statuses and cached paths are what the next step expects
\* of them, whatever requests convert at the same time: a request is converted
\* for what its headers ask for, or for plain text when they cannot be parsed
\* (BasicRequestParser, ConvertingErrorHandler), and no path that the cache
\* keeps (ChainedConverter) uses a converter twice.
THEOREM TypesInvHolds ==
  Spec => []TypesInv
<1>1. Init => RInv /\ TypesInv
  BY RInvInit, TypesInvInit
<1>2. RInv /\ TypesInv /\ [Next]_vars => (RInv /\ TypesInv)'
  BY RInvStep, TypesInvStep
<1> QED
  BY <1>1, <1>2, PTL DEF Spec

\* A lock is held for each patch between its first and its last step, by that
\* patch only, and for nothing else (LockingResourceStore.modifyResource).
THEOREM LocksInvHolds ==
  Spec => []LocksInv
<1>1. Init => RInv /\ TypesInv /\ LocksInv
  BY RInvInit, TypesInvInit, LocksInvInit
<1>2. RInv /\ TypesInv /\ LocksInv /\ [Next]_vars => (RInv /\ TypesInv /\ LocksInv)'
  BY RInvStep, TypesInvStep, LocksInvStep
<1> QED
  BY <1>1, <1>2, PTL DEF Spec

\* Requests only ever store resources in containers that exist, of types that
\* are known, and answer them with the statuses that errors have
\* (DataAccessorBasedStore, ConvertingErrorHandler).
THEOREM TypesHold ==
  Spec => []TypeOK
<1>1. ASSUME RInv, TypesInv, LocksInv
      PROVE  TypeOK
  <2>1. /\ DOMAIN store \subseteq {"subject", "acl"} \X Paths
        /\ \A r \in DOMAIN store : \A p \in Above[r[2]] \ {r[2]} : Exists(Subject(p))
    BY <1>1 DEF RInv, StoreIsTree
  <2>2. ASSUME NEW r \in DOMAIN store, r[2] # Root
        PROVE  Exists(Subject(Parent[r[2]]))
    <3>1. r[2] \in Paths
      BY <2>1
    <3>2. r[2] \in DOMAIN Parent
      BY <2>2, <3>1, AboveFacts
    <3>3. Parent[r[2]] \in Above[r[2]] \ {r[2]}
      BY <3>2, AboveFacts
    <3> QED
      BY <2>1, <3>3
  <2>3. \A r \in DOMAIN store : store[r].type \in Types
    BY <1>1 DEF TypesInv, StoreIsTyped
  <2>4. Len(cache) <= setup.cacheSize /\ \A i \in DOMAIN cache : IsInjective(cache[i].converters)
    <3>1. cache \in Seq(ChainPaths(Known)) /\ Len(cache) <= setup.cacheSize
      BY <1>1 DEF TypesInv, CacheIsRight
    <3>2. \A i \in DOMAIN cache : cache[i] \in ChainPaths(Known)
      BY <3>1, ElementOfSeq
    <3> QED
      BY <3>1, <3>2 DEF ChainPaths
  <2>5. locked \subseteq {Target(c)[2] : c \in Workload}
    BY <1>1 DEF LocksInv
  <2>6. ASSUME NEW c \in Workload
        PROVE  /\ walk[c].modes \cup walk[c].user \cup walk[c].everyone \subseteq Modes
               /\ walk[c].at \in Paths \cup {Elsewhere}
               /\ job[c].result \in Types /\ answer[c].type \in Types
               /\ answer[c].status \in {0, 200, 201, 205, 400, 401, 403, 404, 405, 409, 500, 501}
    <3>1. NoType \in Types
      BY <1>1, SetupFacts DEF RInv
    <3>2. RequestIsTyped(c)
      BY <1>1 DEF TypesInv
    <3> QED
      BY <3>1, <3>2 DEF RequestIsTyped, WalkIsRight, JobIsRight, AnswerIsRight, Statuses, Refusals
  <2> QED
    BY <2>1, <2>2, <2>3, <2>4, <2>5, <2>6 DEF TypeOK
<1> QED
  BY <1>1, RInvHolds, TypesInvHolds, LocksInvHolds, PTL

-----------------------------------------------------------------------------
(* Patches.                                                                *)

\* What is kept for a path.
At(path) == {Subject(path), Acl(path)}

\* A step leaves alone what is kept for a path.
Keeping(path) ==
  \A r \in At(path) : Exists(r) => Exists(r)' /\ store'[r] = store[r]

\* Data is written where its request is about, and where nothing was.
LEMMA WriteDataKeeps ==
  ASSUME Shapes, NEW c \in Workload, NEW entry, writeData(c, Target(c), entry),
         NEW path, path # Target(c)[2]
  PROVE  Keeping(path)
<1> DEFINE r == Target(c)
           made == IF r = Subject(Root) \/ Exists(r) THEN {}
                   ELSE {Subject(p) : p \in createRecursiveContainers(r)}
           container == [type |-> Quads, by |-> c, list |-> {}]
<1>1. store' = [q \in DOMAIN store \cup made \cup {r} |->
                  IF q = r THEN entry ELSE IF q \in made THEN container ELSE store[q]]
  BY DEF writeData
<1>2. \A q \in made : ~Exists(q)
  BY DEF createRecursiveContainers
<1>3. r \notin At(path)
  BY DEF At, Subject, Acl
<1> HIDE DEF made, container, r
<1> QED
  BY <1>1, <1>2, <1>3 DEF Keeping, Exists

LEMMA SameStoreKeeps ==
  ASSUME NEW path, store' = store
  PROVE  Keeping(path)
BY DEF Keeping, Exists

\* What a step writes, adds and deletes is for the path of its request, and for
\* paths that nothing was kept for.
LEMMA StepKeeps ==
  ASSUME Shapes, NEW c \in Workload, RequestStep(c),
         NEW path, path # Target(c)[2], path \in Paths, Exists(Subject(path))
  PROVE  Keeping(path)
<1>1. CASE setRepresentation(c) \/ writePatched(c)
  <2>1. store' = store \/ \E entry : writeData(c, Target(c), entry)
    BY <1>1 DEF setRepresentation, writePatched
  <2> QED
    BY <2>1, WriteDataKeeps, SameStoreKeeps
<1>2. CASE addResource(c)
  <2> DEFINE entry == [type |-> bodyType(Requests[c]), by |-> c, list |-> {}]
             Made(p) == store' = [q \in DOMAIN store \cup {Subject(p)} |->
                                    IF q = Subject(p) THEN entry ELSE store[q]]
  <2>1. store' = store \/ \E p : ~Exists(Subject(p)) /\ Made(p)
    BY Zenon, <1>2 DEF addResource
  <2>2. ASSUME NEW p, ~Exists(Subject(p)), Made(p)
        PROVE  Keeping(path)
    <3> HIDE DEF entry
    <3> QED
      BY <2>2 DEF Keeping, Exists
  <2> HIDE DEF Made
  <2> QED
    BY <2>1, <2>2, SameStoreKeeps
<1>3. CASE deleteResource(c)
  <2> DEFINE r == Target(c)
             lists == IF IsAcl(r) THEN {} ELSE {Acl(r[2])} \cap DOMAIN store
             orphans == IF IsAcl(r) THEN {}
                        ELSE {Acl(p) : p \in {q \in DOMAIN Parent : Parent[q] = r[2]}}
  <2>1. \/ store' = store
        \/ /\ IsAcl(r) \/ Children(store, r[2]) = {}
           /\ store' = [q \in DOMAIN store \ ({r} \cup lists \cup orphans) |-> store[q]]
    BY <1>3, Zenon DEF deleteResource
  <2>2. r \notin At(path) /\ lists \cap At(path) = {}
    BY DEF At, Subject, Acl
  <2>3. ASSUME IsAcl(r) \/ Children(store, r[2]) = {}
        PROVE  orphans \cap At(path) = {}
    BY <2>3 DEF At, Subject, Acl, Children, Exists
  <2>4. CASE store' = store
    BY <2>4, SameStoreKeeps
  <2>5. CASE /\ IsAcl(r) \/ Children(store, r[2]) = {}
             /\ store' = [q \in DOMAIN store \ ({r} \cup lists \cup orphans) |-> store[q]]
    <3>1. orphans \cap At(path) = {}
      BY <2>3, <2>5
    <3> HIDE DEF r, lists, orphans
    <3> QED
      BY <2>2, <2>5, <3>1 DEF Keeping, Exists
  <2> QED
    BY <2>1, <2>4, <2>5
<1>4. CASE ~(setRepresentation(c) \/ writePatched(c) \/ addResource(c) \/ deleteResource(c))
  <2>1. store' = store
    BY <1>4, Zenon DEF RequestStep, parse, authenticate, getAclRecursive, deny, authorizationVars,
       getRepresentation, modifyResource, toIntermediate, patch, abandon, respond, respondError, emit
  <2> QED
    BY <2>1, SameStoreKeeps
<1> QED
  BY <1>1, <1>2, <1>3, <1>4

\* Nobody touches the path of a patch before it is written.
LEMMA PatchIsAlone ==
  ASSUME RInv, TypesInv, LocksInv, scenario' = scenario, NEW d \in Workload, RequestStep(d), Remember(d),
         NEW c \in Workload, HoldsLock(c), HoldsLock(c)', Exists(Subject(Target(c)[2]))
  PROVE  Keeping(Target(c)[2])
<1>1. Shapes /\ OthersWait(d)
  BY RequestKeeps DEF RInv, Keeps
<1>2. Target(c)[2] \in Paths /\ Target(c)[2] \in locked
  BY <1>1 DEF Shapes, RequestIsRight, Admitted, HoldsLock, Target, LocksInv
<1>3. CASE Target(d)[2] # Target(c)[2]
  BY <1>1, <1>2, <1>3, StepKeeps
<1>4. CASE Target(d)[2] = Target(c)[2]
  <2>1. ~(setRepresentation(d) \/ addResource(d) \/ deleteResource(d))
    BY <1>2, <1>4 DEF setRepresentation, addResource, deleteResource, Free
  <2>2. ~writePatched(d)
    <3>1. SUFFICES ASSUME writePatched(d) PROVE FALSE
      OBVIOUS
    <3>2. LockGiven(d)
      BY <1>1, <3>1, ReleaseLocks
    <3>3. c = d
      BY <1>4, <3>2 DEF LocksInv, LockGiven
    <3> QED
      BY <3>2, <3>3 DEF LockGiven
  <2>3. store' = store
    BY <2>1, <2>2, Zenon DEF RequestStep, parse, authenticate, getAclRecursive, deny, authorizationVars,
       getRepresentation, modifyResource, toIntermediate, patch, abandon, respond, respondError, emit
  <2> QED
    BY <2>3, SameStoreKeeps
<1> QED
  BY <1>3, <1>4

\* What a patch has read is still there when it is written: while it converts a
\* resource, or its list, to quads and back no other request writes or deletes
\* them, not even by deleting the container they are in, and what the patch was
\* asked to change is changed in its last step only
\* (LockingResourceStore.modifyResource, ConvertingPatchHandler).
PatchesAreAlone ==
  \A c \in Workload : HoldsLock(c) /\ HoldsLock(c)' /\ Exists(Subject(Target(c)[2]))
    => Keeping(Target(c)[2])

\* Requests that are served at the same time leave what is being patched alone.
THEOREM PatchesAreAloneHolds ==
  Spec => [][PatchesAreAlone]_vars
<1>1. ASSUME RInv, TypesInv, LocksInv, [Next]_vars
      PROVE  [PatchesAreAlone]_vars
  <2>1. ASSUME scenario' = scenario, NEW d \in Workload, RequestStep(d), Remember(d)
        PROVE  PatchesAreAlone
    BY <1>1, <2>1, PatchIsAlone DEF PatchesAreAlone
  <2>2. CASE UNCHANGED authorizationVars
    BY <2>2, SameStoreKeeps DEF PatchesAreAlone, authorizationVars
  <2>3. CASE UNCHANGED vars
    BY <2>3
  <2> QED
    BY <1>1, <2>1, <2>2, <2>3 DEF Next
<1> QED
  BY <1>1, RInvHolds, TypesInvHolds, LocksInvHolds, PTL DEF Spec
-----------------------------------------------------------------------------
(* What is refused for its type.                                           *)

\* A converter takes a type if any range that it lists covers it.
LEMMA CoveringIsTaking ==
  ASSUME Shapes, NEW i \in DOMAIN converters, NEW t
  PROVE  (\E range \in DOMAIN converters[i].input : Covers(range, t))
            <=> getTypeWeight(t, converters[i].input) > 0
<1> DEFINE input == converters[i].input
           weight == getTypeWeight(t, input)
<1>1. \A range \in DOMAIN input : input[range] \in Nat \ {0}
  BY SetupFacts, ConverterFacts DEF ListsTypes
<1>2. \/ {t, <<t[1], "*">>, All} \cap DOMAIN input = {} /\ weight = 0
      \/ \E range \in DOMAIN input : Covers(range, t) /\ weight = input[range]
  BY TypeWeightFacts, Zenon DEF Covers
<1>3. \A range \in DOMAIN input : Covers(range, t) => {t, <<t[1], "*">>, All} \cap DOMAIN input # {}
  BY DEF Covers
<1> HIDE DEF input, weight
<1>4. (\E range \in DOMAIN input : Covers(range, t)) <=> weight > 0
  <2>1. CASE {t, <<t[1], "*">>, All} \cap DOMAIN input = {} /\ weight = 0
    BY <1>3, <2>1
  <2>2. CASE \E range \in DOMAIN input : Covers(range, t) /\ weight = input[range]
    BY <1>1, <2>2
  <2> QED
    BY <1>2, <2>1, <2>2
<1> QED
  BY <1>4 DEF input, weight

\* The types that can be reached are found in as many rounds as there are
\* converters.
LEMMA ReachableRounds ==
  ASSUME Shapes, NEW type \in Types
  PROVE  \E reach : /\ reach[0] = {type}
                    /\ \A k \in 1 .. Len(converters) : reach[k] = More(reach[k - 1])
                    /\ reach[Len(converters)] = Reachable(type)
                    /\ Reachable(type) \subseteq Types
<1> DEFINE n == Len(converters)
           rounds == [i \in DOMAIN converters |-> i]
           V == SUBSET Types
           more(types, round) == types \cup UNION {
             {t.value : t \in ToSet(converters[i].output)} : i \in {j \in DOMAIN converters :
                \E t \in types : \E range \in DOMAIN converters[j].input : Covers(range, t)}}
           base == {type}
           F == [x \in V \X (1 .. n) |-> more(x[1], rounds[x[2]])]
           IsFold(g) == g = [s \in SUBSET (DOMAIN rounds) |-> IF s = {} THEN base
                               ELSE LET x == Max(s) IN more(g[s \ {x}], rounds[x])]
           fold == CHOOSE g : IsFold(g)
<1>1. n \in Nat /\ DOMAIN rounds = 1 .. n
  BY SetupFacts, ConverterFacts
<1>2. base \in V
  OBVIOUS
<1>3. ASSUME NEW types, NEW round
      PROVE  more(types, round) = More(types)
  BY CoveringIsTaking DEF More, MadeBy, Takes
<1>4. ASSUME NEW types \in V, NEW round
      PROVE  more(types, round) \in V
  <2>1. \A i \in DOMAIN converters : \A t \in ToSet(converters[i].output) : t.value \in Types
    BY SetupFacts DEF OutputsAreIn, Known
  <2> QED
    BY <2>1
<1>5. Reachable(type) = fold[DOMAIN rounds]
  BY Zenon DEF Reachable, FoldLeft, MapThenFoldSet, more, base, rounds
<1> HIDE DEF base, rounds
<1> HIDE DEF V, more
<1>6. F \in [V \X (1 .. n) -> V]
  BY <1>1, <1>4
<1>7. PICK g \in [SUBSET (1 .. n) -> V] : FoldsTo(g, F, base, n)
  BY <1>1, <1>2, <1>6, FoldExists
<1>8. IsFold(g)
  <2>1. ASSUME NEW s \in SUBSET (1 .. n), s # {}
        PROVE  F[<<g[s \ {Max(s)}], Max(s)>>] = more(g[s \ {Max(s)}], rounds[Max(s)])
    <3>1. Max(s) \in 1 .. n /\ s \ {Max(s)} \in SUBSET (1 .. n)
      BY <1>1, <2>1, MaxOfNumbers
    <3> QED
      BY <3>1
  <2> HIDE DEF F
  <2> QED
    BY <1>1, <1>7, <2>1 DEF FoldsTo
<1>9. IsFold(fold)
  BY <1>8, Zenon
<1>10. \A k \in 0 .. n : fold[1 .. k] \in V
  <2>1. fold[{}] \in V
    BY <1>2, <1>9
  <2>2. ASSUME NEW s \in SUBSET (1 .. n), s # {}, fold[s \ {Max(s)}] \in V
        PROVE  fold[s] \in V
    <3>1. Max(s) \in 1 .. n
      BY <1>1, <2>2, MaxOfNumbers
    <3>2. fold[s] = more(fold[s \ {Max(s)}], rounds[Max(s)])
      BY <1>1, <1>9, <2>2
    <3> QED
      BY <1>1, <1>4, <2>2, <3>1, <3>2
  <2> HIDE DEF fold
  <2> QED
    BY <1>1, <2>1, <2>2, FoldStays
<1>11. fold[1 .. 0] = base
  <2>1. 1 .. 0 = {}
    OBVIOUS
  <2> QED
    BY <1>9, <2>1
<1>12. ASSUME NEW k \in 1 .. n
       PROVE  fold[1 .. k] = More(fold[1 .. k - 1])
  <2>1. /\ 1 .. k \in SUBSET (1 .. n) /\ 1 .. k # {} /\ Max(1 .. k) = k
        /\ (1 .. k) \ {k} = 1 .. k - 1
    BY <1>1, Segments
  <2> HIDE DEF fold
  <2>2. fold[1 .. k] = more(fold[1 .. k - 1], rounds[k])
    BY <1>1, <1>9, <2>1
  <2> QED
    BY <1>3, <2>2
<1> HIDE DEF fold
<1> DEFINE reach == [k \in 0 .. n |-> fold[1 .. k]]
<1>13. \A k \in 1 .. n : k \in 0 .. n /\ k - 1 \in 0 .. n
  BY <1>1
<1>14. reach[0] = base /\ \A k \in 1 .. n : reach[k] = More(reach[k - 1])
  BY <1>1, <1>11, <1>12, <1>13
<1>15. reach[n] = Reachable(type) /\ Reachable(type) \in V
  BY <1>1, <1>5, <1>10
<1> HIDE DEF reach
<1> WITNESS reach
<1> QED
  BY <1>14, <1>15 DEF base, V

\* No chain of converters makes what suits the preferences of a type.
Misses(from, preferences) == \A t \in Reachable(from) : ~Suits(t, preferences)

\* A search that finds nothing, of a type that does not suit itself, misses.
LEMMA SearchMisses ==
  ASSUME Shapes, NEW from \in Types, NEW preferences, IsWeighing(preferences),
         ~Suits(from, preferences), generatePath(from, cleanPreferences(preferences)) = Unmatched
  PROVE  Misses(from, preferences)
<1> DEFINE clean == cleanPreferences(preferences)
<1>1. IsWeighing(clean)
  BY CleanIsWeighing
<1>2. scenario \in Scenarios /\ OutputsAreIn(Known)
  BY SetupFacts
<1>3. PICK reach : /\ reach[0] = {from}
                   /\ \A k \in 1 .. Len(converters) : reach[k] = More(reach[k - 1])
                   /\ reach[Len(converters)] = Reachable(from)
  BY ReachableRounds
<1>4. ~(getTypeWeight(from, clean) > 0)
  BY DEF Suits
<1>5. generatePath(from, clean) = Unmatched
  OBVIOUS
<1> HIDE DEF clean
<1>6. \A t \in reach[Len(converters)] : ~(getTypeWeight(t, clean) > 0)
  BY <1>1, <1>2, <1>3, <1>4, <1>5, SearchIsComplete
<1> QED
  BY <1>3, <1>6 DEF Misses, Suits, clean

\* What a request knows of the types that its answer cannot have.
RefusalIsKnown(c) ==
  /\ HoldsLock(c) => Requests[c].method = "PATCH"
  /\ pc[c] \in {"findPath", "search"} => ~Suits(job[c].from, job[c].preferences)
  /\ pc[c] \in {"respond", "respondError"} /\ job[c].result = NoType
       => job[c].from = NoType \/ Misses(job[c].from, job[c].preferences)
  /\ ConvertsFor(c, "respondError") => job[c].from = Error
  /\ Requests[c].method # "PATCH" /\ call[c].type # NoType
       => CanParse(Requests[c]) /\ Misses(call[c].type, Wanted(c))
  /\ pc[c] = "answered" => RefusalIsRight(c)

RefusalsInv == \A c \in Workload : RefusalIsKnown(c)

\* The types that can be reached, and are accepted, stay the same.
LEMMA SameReach ==
  ASSUME scenario' = scenario, Workload' = Workload
  PROVE  /\ \A from : Reachable(from)' = Reachable(from)
         /\ \A from, preferences : Misses(from, preferences)' = Misses(from, preferences)
         /\ \A c, type : Acceptable(type, c)' = Acceptable(type, c)
<1>1. converters' = converters /\ Requests' = Requests
  BY SameSetup
<1>2. ASSUME NEW from
      PROVE  Reachable(from)' = Reachable(from)
  <2> DEFINE Step(all, types, round) == types \cup UNION {
               {t.value : t \in ToSet(all[i].output)} : i \in {j \in DOMAIN all :
                  \E t \in types : \E range \in DOMAIN all[j].input : Covers(range, t)}}
             From(all) == FoldLeft(LAMBDA types, round : Step(all, types, round), {from}, [i \in DOMAIN all |-> i])
  <2>1. Reachable(from) = From(converters)
    BY Zenon DEF Reachable
  <2>2. Reachable(from)' = From(converters')
    BY Zenon DEF Reachable, FoldLeft, MapThenFoldSet
  <2> HIDE DEF From
  <2> QED
    BY <1>1, <2>1, <2>2
<1>3. ASSUME NEW from, NEW preferences
      PROVE  Misses(from, preferences)' = Misses(from, preferences)
  BY <1>2 DEF Misses
<1>4. ASSUME NEW c, NEW type
      PROVE  Acceptable(type, c)' = Acceptable(type, c)
  BY <1>1 DEF Acceptable
<1> QED
  BY <1>2, <1>3, <1>4

\* What a request knows of its refusal is not changed by the steps of others,
LEMMA OthersKeepRefusals ==
  ASSUME NEW c \in Workload, OthersWait(c), NEW d \in Workload \ {c}, answer'[d] = answer[d],
         RefusalIsKnown(d)
  PROVE  RefusalIsKnown(d)'
<1>1. /\ scenario' = scenario /\ Workload' = Workload
      /\ pc'[d] = pc[d] /\ call'[d] = call[d] /\ job'[d] = job[d]
  BY DEF OthersWait
<1>2. /\ Wanted(d)' = Wanted(d) /\ CanParse(Requests[d])' = CanParse(Requests[d]) /\ Requests' = Requests
      /\ \A from : Reachable(from)' = Reachable(from)
      /\ \A from, preferences : Misses(from, preferences)' = Misses(from, preferences)
      /\ \A type : Acceptable(type, d)' = Acceptable(type, d)
  BY <1>1, SameSetup, SameReach
<1>3. RefusalIsRight(d) => RefusalIsRight(d)'
  BY <1>1, <1>2 DEF RefusalIsRight
<1> QED
  BY <1>1, <1>2, <1>3 DEF RefusalIsKnown, HoldsLock, ConvertsFor

\* nor by those of its own that neither end a search nor answer it.
LEMMA GoingOn ==
  ASSUME NEW c \in Workload, OthersWait(c), RefusalIsKnown(c),
         pc'[c] \notin {"findPath", "search", "respond", "respondError", "answered"},
         HoldsLock(c)' => Requests[c].method = "PATCH",
         ConvertsFor(c, "respondError")' => job'[c].from = Error,
         call'[c].type = call[c].type \/ Requests[c].method = "PATCH"
  PROVE  RefusalIsKnown(c)'
<1>1. /\ Wanted(c)' = Wanted(c) /\ CanParse(Requests[c])' = CanParse(Requests[c]) /\ Requests' = Requests
      /\ \A from, preferences : Misses(from, preferences)' = Misses(from, preferences)
  BY SameSetup, SameReach DEF OthersWait
<1>2. /\ (HoldsLock(c) => Requests[c].method = "PATCH")'
      /\ (Requests[c].method # "PATCH" /\ call[c].type # NoType
            => CanParse(Requests[c]) /\ Misses(call[c].type, Wanted(c)))'
  BY <1>1 DEF RefusalIsKnown
<1> QED
  BY <1>2 DEF RefusalIsKnown

\* A request fails with an error, and goes on with others.
LEMMA FailGoesOn ==
  ASSUME Shapes, NEW c \in Workload, OthersWait(c), RefusalIsKnown(c),
         NEW status, NEW preferences, fail(c, status, preferences)
  PROVE  RefusalIsKnown(c)'
<1>1. /\ DOMAIN call = Workload /\ DOMAIN job = Workload /\ DOMAIN pc = Workload /\ IsCall(call[c])
  BY DEF Shapes, RequestIsRight, Workload
<1>2. call'[c] = [call[c] EXCEPT !.status = status, !.preferences = preferences]
  BY <1>1 DEF fail
<1>3. call'[c].type = call[c].type
  BY <1>1, <1>2 DEF IsCall
<1>4. job'[c].from = Error /\ job'[c].then = "respondError" /\ pc'[c] = "convert"
  BY <1>1 DEF fail, Begin, Go, NoJob
<1>5. ~HoldsLock(c)'
  BY <1>4 DEF HoldsLock, Patching
<1> QED
  BY <1>3, <1>4, <1>5, GoingOn

LEMMA GoGoesOn ==
  ASSUME Shapes, NEW c \in Workload, OthersWait(c), RefusalIsKnown(c),
         NEW to \in {"authenticate", "getAcl", "operate", "emit"}, Go(c, to),
         call'[c].type = call[c].type
  PROVE  RefusalIsKnown(c)'
<1>1. pc'[c] = to
  BY DEF Go, Shapes, Workload
<1>2. ~HoldsLock(c)' /\ ~ConvertsFor(c, "respondError")'
  BY <1>1 DEF HoldsLock, ConvertsFor, Patching, Converting
<1> QED
  BY <1>1, <1>2, GoingOn

LEMMA ChangedGoesOn ==
  ASSUME Shapes, NEW c \in Workload, OthersWait(c), RefusalIsKnown(c),
         NEW status, NEW changed, Changed(c, status, changed)
  PROVE  RefusalIsKnown(c)'
<1>1. DOMAIN call = Workload /\ IsCall(call[c])
  BY DEF Shapes, RequestIsRight
<1>2. call'[c] = [call[c] EXCEPT !.status = status, !.changed = changed] /\ Go(c, "emit")
  BY <1>1 DEF Changed
<1>3. call'[c].type = call[c].type
  BY <1>1, <1>2 DEF IsCall
<1> QED
  BY <1>2, <1>3, GoGoesOn

\* A conversion begins.
LEMMA BeginGoesOn ==
  ASSUME Shapes, NEW c \in Workload, OthersWait(c), RefusalIsKnown(c),
         NEW from, NEW preferences, NEW then, Begins(c, from, preferences, then),
         then \in Patching => Requests[c].method = "PATCH",
         then = "respondError" => from = Error,
         call'[c].type = call[c].type \/ Requests[c].method = "PATCH"
  PROVE  RefusalIsKnown(c)'
<1>1. PICK container, lookups : Begin(c, from, preferences, container, lookups, then)
  BY DEF Begins
<1>2. job'[c].from = from /\ job'[c].then = then /\ pc'[c] = "convert"
  BY <1>1 DEF Begin, Go, NoJob, Shapes, Workload
<1>3. /\ HoldsLock(c)' => Requests[c].method = "PATCH"
      /\ ConvertsFor(c, "respondError")' => job'[c].from = Error
  BY <1>2 DEF HoldsLock, ConvertsFor, Patching
<1> QED
  BY <1>2, <1>3, GoingOn


\* How a conversion goes on, for a request that has none to refuse: it looks for
\* converters only if it has to, and ends without a type if there are none.
Searching(c) ==
  /\ job'[c].from = job[c].from /\ job'[c].preferences = job[c].preferences
  /\ job'[c].then = job[c].then
  /\ \/ pc'[c] \in {"findPath", "search"} /\ ~Suits(job[c].from, job[c].preferences)
     \/ /\ pc'[c] = job[c].then
        /\ \/ job'[c].result # NoType
           \/ job[c].from = NoType
           \/ Misses(job[c].from, job[c].preferences)

LEMMA FinishSearching ==
  ASSUME Shapes, NEW c \in Workload, NEW type, Finish(c, type),
         type # NoType \/ job[c].from = NoType \/ Misses(job[c].from, job[c].preferences)
  PROVE  Searching(c)
<1>1. DOMAIN job = Workload /\ DOMAIN pc = Workload /\ IsJob(job[c])
  BY DEF Shapes, RequestIsRight, Workload
<1>2. job'[c] = [job[c] EXCEPT !.result = type] /\ pc'[c] = job[c].then
  BY <1>1 DEF Finish, Go
<1>3. /\ job'[c].result = type /\ job'[c].from = job[c].from
      /\ job'[c].preferences = job[c].preferences /\ job'[c].then = job[c].then
  BY <1>1, <1>2 DEF IsJob
<1> QED
  BY <1>2, <1>3 DEF Searching

LEMMA FoundSearching ==
  ASSUME Shapes, NEW c \in Workload, ~Suits(job[c].from, job[c].preferences),
         NEW match, NEW generated, match.outType # NoType, Found(c, match, generated)
  PROVE  Searching(c)
<1> DEFINE found == [job[c] EXCEPT !.match = match, !.generated = generated, !.lookups = @ - 1]
           done == [found EXCEPT !.result = match.outType]
           out == match.outType
<1>1. DOMAIN job = Workload /\ DOMAIN pc = Workload /\ IsJob(job[c])
  BY DEF Shapes, RequestIsRight, Workload
<1>2. /\ found.from = job[c].from /\ found.preferences = job[c].preferences
      /\ found.then = job[c].then /\ IsJob(found)
  BY <1>1 DEF IsJob
<1> HIDE DEF found, out
<1>3. /\ done.from = job[c].from /\ done.preferences = job[c].preferences
      /\ done.result = out /\ done.then = job[c].then
  BY <1>2 DEF IsJob, out
<1> HIDE DEF done
<1>4. \/ job' = [job EXCEPT ![c] = found] /\ Go(c, "findPath")
      \/ job' = [job EXCEPT ![c] = done] /\ Go(c, job[c].then)
  BY DEF Found, found, done
<1>5. \/ job'[c] = found /\ pc'[c] = "findPath"
      \/ job'[c] = done /\ pc'[c] = job[c].then
  BY <1>1, <1>4 DEF Go
<1> QED
  BY <1>2, <1>3, <1>5 DEF Searching, out

\* A representation is only left as it is, or without a type, if that suits.
LEMMA ConvertSearching ==
  ASSUME Shapes, NEW c \in Workload, JobIsRight(job[c]), convert(c)
  PROVE  Searching(c)
<1> DEFINE j == job[c]
           replacement == getReplacementType(j)
<1>1. IsWeighing(j.preferences) /\ j.from \in Types
  BY DEF JobIsRight
<1>2. CASE ConstantApplies(j) /\ Finish(c, setup.constant.type)
  <2>1. setup.constant.type # NoType
    BY SetupFacts DEF Known
  <2> QED
    BY <1>2, <2>1, FinishSearching
<1>3. CASE matchesMediaPreferences(j.from, j.preferences) /\ Finish(c, j.from)
  BY <1>3, FinishSearching
<1>4. CASE replacement # NoMatch /\ Finish(c, replacement.value)
  <2> DEFINE type == replacement.value
  <2>1. replacement = NoMatch \/ type \in Known
    <3> HIDE DEF j
    <3>1. scenario \in Scenarios /\ ReplacementsAreIn(Known)
      BY SetupFacts
    <3> QED
      BY <1>1, <3>1, ReplacementTypeFacts
  <2>2. type # NoType /\ Finish(c, type)
    BY <1>4, <2>1 DEF Known
  <2> HIDE DEF type
  <2> QED
    BY <2>2, FinishSearching
<1>5. CASE ~matchesMediaPreferences(j.from, j.preferences) /\ Go(c, "findPath") /\ UNCHANGED job
  <2>1. ~Suits(j.from, j.preferences)
    BY <1>5 DEF matchesMediaPreferences, Suits
  <2>2. pc'[c] = "findPath"
    BY <1>5 DEF Go, Shapes, Workload
  <2> QED
    BY <1>5, <2>1, <2>2 DEF Searching
<1> QED
  BY <1>2, <1>3, <1>4, <1>5, Zenon DEF convert

LEMMA FindSearching ==
  ASSUME Shapes, NEW c \in Workload, CacheIsRight, JobIsRight(job[c]),
         ~Suits(job[c].from, job[c].preferences), findPath(c)
  PROVE  Searching(c)
<1> DEFINE preferences == cleanPreferences(job[c].preferences)
           i == find(job[c].from, preferences)
           match == getMatchedPath(job[c].from, preferences, cache[i])
<1>1. /\ scenario \in Scenarios /\ OutputsAreIn(Known) /\ IsWeighing(preferences)
      /\ cache \in Seq(ChainPaths(Known))
  BY SetupFacts, CleanIsWeighing DEF JobIsRight, CacheIsRight
<1>2. \/ Go(c, "search") /\ UNCHANGED conversionVars
      \/ i # 0 /\ Found(c, match, FALSE)
  BY Zenon DEF findPath
<1>3. CASE Go(c, "search") /\ UNCHANGED conversionVars
  BY <1>3 DEF Searching, Go, Shapes, Workload, conversionVars
<1>4. CASE i # 0 /\ Found(c, match, FALSE)
  <2> HIDE DEF preferences
  <2>1. i \in 1 .. Len(cache) /\ match # Unmatched
    BY <1>1, <1>4, FindFacts
  <2> HIDE DEF i
  <2>2. cache[i] \in ChainPaths(Known)
    BY <1>1, <2>1
  <2>3. match \in Matches(Known, preferences)
    BY <1>1, <2>2, MatchedPathFacts
  <2> HIDE DEF match
  <2>4. match.outType # NoType
    BY <2>1, <2>3 DEF Matches, Known
  <2> QED
    BY <1>4, <2>4, FoundSearching
<1> QED
  BY <1>2, <1>3, <1>4

LEMMA SearchSearching ==
  ASSUME Shapes, NEW c \in Workload, JobIsRight(job[c]),
         ~Suits(job[c].from, job[c].preferences), search(c)
  PROVE  Searching(c)
<1> DEFINE preferences == cleanPreferences(job[c].preferences)
           best == generatePath(job[c].from, preferences)
<1>1. /\ scenario \in Scenarios /\ OutputsAreIn(Known) /\ IsWeighing(preferences)
      /\ job[c].from \in Types /\ IsWeighing(job[c].preferences)
  BY SetupFacts, CleanIsWeighing DEF JobIsRight
<1>2. best \in Matches(Known, preferences)
  <2> HIDE DEF preferences
  <2> QED
    BY <1>1, GenerateFacts
<1>3. \/ best = Unmatched /\ Finish(c, NoType)
      \/ best # Unmatched /\ Found(c, best, TRUE)
  BY Zenon DEF search
<1>4. CASE best = Unmatched /\ Finish(c, NoType)
  <2>1. Misses(job[c].from, job[c].preferences)
    BY <1>1, <1>4, SearchMisses
  <2> QED
    BY <1>4, <2>1, FinishSearching
<1> HIDE DEF best
<1>5. CASE best # Unmatched /\ Found(c, best, TRUE)
  <2>1. best.outType # NoType
    BY <1>2, <1>5 DEF Matches, Known
  <2> QED
    BY <1>5, <2>1, FoundSearching
<1> QED
  BY <1>3, <1>4, <1>5

LEMMA ConversionGoesOn ==
  ASSUME Shapes, NEW c \in Workload, OthersWait(c), CacheIsRight, JobIsRight(job[c]),
         RefusalIsKnown(c), ConversionStep(c), call' = call
  PROVE  RefusalIsKnown(c)'
<1>1. pc[c] \in Converting /\ job[c].then \in Patching \cup {"respond", "respondError"}
  BY DEF Shapes, RequestIsRight, ConversionStep, convert, findPath, search, Converting
<1>2. Searching(c)
  <2>1. CASE convert(c)
    BY <2>1, ConvertSearching
  <2>2. CASE findPath(c)
    BY <2>2, FindSearching DEF findPath, RefusalIsKnown
  <2>3. CASE search(c)
    BY <2>3, SearchSearching DEF search, RefusalIsKnown
  <2> QED
    BY <2>1, <2>2, <2>3 DEF ConversionStep
<1>3. /\ Wanted(c)' = Wanted(c) /\ CanParse(Requests[c])' = CanParse(Requests[c]) /\ Requests' = Requests
      /\ \A from, preferences : Misses(from, preferences)' = Misses(from, preferences)
  BY SameSetup, SameReach DEF OthersWait
<1>4. /\ (HoldsLock(c) => Requests[c].method = "PATCH")'
      /\ (ConvertsFor(c, "respondError") => job[c].from = Error)'
  BY <1>1, <1>2, <1>3 DEF RefusalIsKnown, Searching, HoldsLock, ConvertsFor, Converting, Patching
<1>5. /\ (pc[c] \in {"findPath", "search"} => ~Suits(job[c].from, job[c].preferences))'
      /\ (pc[c] \in {"respond", "respondError"} /\ job[c].result = NoType
            => job[c].from = NoType \/ Misses(job[c].from, job[c].preferences))'
  BY <1>1, <1>2, <1>3 DEF Searching, Patching
<1>6. pc'[c] # "answered"
  BY <1>1, <1>2 DEF Searching, Patching
<1> QED
  BY <1>3, <1>4, <1>5, <1>6 DEF RefusalIsKnown


\* The steps up to the store, and those of the store that only it makes.
LEMMA EarlyRefusals ==
  ASSUME Shapes, NEW c \in Workload, OthersWait(c), RefusalIsKnown(c),
         parse(c) \/ authenticate(c) \/ getAclRecursive(c) \/ getRepresentation(c)
  PROVE  RefusalIsKnown(c)'
<1>1. ASSUME NEW status, failNow(c, status)
      PROVE  RefusalIsKnown(c)'
  BY <1>1, FailGoesOn DEF failNow
<1>2. DOMAIN call = Workload /\ IsCall(call[c])
  BY DEF Shapes, RequestIsRight
<1>3. CASE parse(c)
  <2> DEFINE request == Requests[c]
  <2>1. CASE CanParse(request)
    <3>1. /\ call'[c] = [call[c] EXCEPT !.target = targetOf(request), !.preferences = Preferences(request.headers)]
          /\ Go(c, "authenticate")
      BY <1>2, <1>3, <2>1 DEF parse
    <3>2. call'[c].type = call[c].type
      BY <1>2, <3>1 DEF IsCall
    <3> QED
      BY <3>1, <3>2, GoGoesOn
  <2>2. CASE ~CanParse(request)
    <3>1. fail(c, parseError(request), Only(TextPlain))
      BY <1>3, <2>2 DEF parse
    <3> QED
      BY <3>1, FailGoesOn
  <2> QED
    BY <2>1, <2>2
<1>4. CASE authenticate(c)
  <2>1. \/ \E status : failNow(c, status)
        \/ Go(c, "getAcl") /\ call' = call
    BY <1>4 DEF authenticate
  <2> QED
    BY <1>1, <2>1, GoGoesOn
<1>5. CASE getAclRecursive(c)
  <2>1. CASE climb(c) /\ UNCHANGED <<conversionVars, requestVars>>
    <3>1. pc' = pc /\ job' = job /\ call' = call /\ pc[c] = "getAcl"
      BY <2>1 DEF climb, ListRead, conversionVars, requestVars
    <3>2. ~HoldsLock(c)' /\ ~ConvertsFor(c, "respondError")'
      BY <3>1 DEF HoldsLock, ConvertsFor, Patching, Converting
    <3> QED
      BY <3>1, <3>2, GoingOn
  <2>2. CASE authorize(c) /\ UNCHANGED requestVars
    <3>1. Go(c, "operate") /\ call' = call
      BY <2>2 DEF authorize, requestVars
    <3> QED
      BY <3>1, GoGoesOn
  <2>3. CASE deny(c)
    BY <1>1, <2>3 DEF deny
  <2> QED
    BY <1>5, <2>1, <2>2, <2>3 DEF getAclRecursive
<1>6. CASE getRepresentation(c)
  <2>1. CASE Exists(Target(c))
    <3>1. Begins(c, store[Target(c)].type, call[c].preferences, "respond") /\ call' = call
      BY <1>6, <2>1 DEF getRepresentation, Begins
    <3> QED
      BY <3>1, BeginGoesOn DEF Patching
  <2>2. CASE ~Exists(Target(c))
    BY <1>1, <1>6, <2>2 DEF getRepresentation
  <2> QED
    BY <2>1, <2>2
<1> QED
  BY <1>3, <1>4, <1>5, <1>6

LEMMA StoreRefusals ==
  ASSUME Shapes, NEW c \in Workload, OthersWait(c), RefusalIsKnown(c),
         \/ setRepresentation(c) \/ addResource(c) \/ deleteResource(c)
         \/ writePatched(c) \/ abandon(c)
  PROVE  RefusalIsKnown(c)'
<1>1. ASSUME NEW status, failNow(c, status)
      PROVE  RefusalIsKnown(c)'
  BY <1>1, FailGoesOn DEF failNow
<1>2. ASSUME NEW r, NEW entry, writeData(c, r, entry)
      PROVE  RefusalIsKnown(c)'
  BY <1>2, ChangedGoesOn DEF writeData
<1>3. CASE setRepresentation(c)
  BY <1>1, <1>2, <1>3 DEF setRepresentation
<1>4. CASE addResource(c)
  <2>1. \/ \E status : failNow(c, status)
        \/ \E path \in NewPaths : Changed(c, 201, {Target(c), Subject(path)})
    BY <1>4 DEF addResource
  <2> QED
    BY <1>1, <2>1, ChangedGoesOn
<1>5. CASE deleteResource(c)
  BY <1>1, <1>5, ChangedGoesOn DEF deleteResource
<1>6. CASE writePatched(c)
  BY <1>1, <1>2, <1>6 DEF writePatched
<1>7. CASE abandon(c)
  BY <1>1, <1>7 DEF abandon
<1> QED
  BY <1>3, <1>4, <1>5, <1>6, <1>7

\* A patch may keep another type in mind, as its own types are converted too.
LEMMA PatchRefusals ==
  ASSUME Shapes, NEW c \in Workload, OthersWait(c), RefusalIsKnown(c),
         modifyResource(c) \/ toIntermediate(c) \/ patch(c)
  PROVE  RefusalIsKnown(c)'
<1> DEFINE r == Target(c)
<1>1. ASSUME NEW from, NEW preferences, NEW then \in Patching, Begins(c, from, preferences, then),
             Requests[c].method = "PATCH"
      PROVE  RefusalIsKnown(c)'
  BY <1>1, BeginGoesOn DEF Patching
<1>2. CASE modifyResource(c)
  <2>1. Requests[c].method = "PATCH"
    BY <1>2 DEF modifyResource, Operates
  <2>2. \/ \E status : failNow(c, status)
        \/ Changed(c, 205, {})
        \/ Begin(c, store[r].type, Nothing, IsContainer(r), 2, "toQuads")
        \/ Begin(c, Quads, Only(Turtle), FALSE, 2, "writePatched")
    BY Zenon, <1>2 DEF modifyResource
  <2>3. \/ \E status : failNow(c, status)
        \/ Changed(c, 205, {})
        \/ \E from, preferences : \E then \in Patching : Begins(c, from, preferences, then)
    BY <2>2 DEF Begins, Patching
  <2> QED
    BY <1>1, <2>1, <2>3, FailGoesOn, ChangedGoesOn DEF failNow
<1>3. CASE toIntermediate(c) \/ patch(c)
  <2>1. Requests[c].method = "PATCH"
    BY <1>3 DEF toIntermediate, patch, RefusalIsKnown, HoldsLock, Patching
  <2>2. \/ Begins(c, job[c].result, Only(Quads), "patch")
        \/ Begins(c, Quads, Only(call[c].type), "writePatched")
    BY <1>3 DEF toIntermediate, patch, Begins
  <2> QED
    BY <1>1, <2>1, <2>2 DEF Patching
<1> QED
  BY <1>2, <1>3

\* An answer that is a refusal, for its type or in plain text, is right to be one.
LEMMA WriteRefusals ==
  ASSUME Shapes, TypesInv, NEW c \in Workload, OthersWait(c), RefusalIsKnown(c), call' = call,
         NEW status, NEW type \in Types, NEW user, NEW everyone,
         write(c, status, type, user, everyone),
         status >= 400 /\ CanParse(Requests[c]) =>
           Suits(type, Wanted(c)) \/ Misses(Error, Wanted(c)),
         status \in Statuses
  PROVE  RefusalIsKnown(c)'
<1> DEFINE a == answer'[c]
<1>1. DOMAIN answer = Workload /\ DOMAIN pc = Workload
  BY DEF TypesInv, Shapes, Workload
<1>2. a = IF isInternalContentType(type) THEN serverError
          ELSE [status |-> status, type |-> type, user |-> user, everyone |-> everyone]
  BY <1>1 DEF write
<1>3. pc'[c] = "answered"
  BY <1>1 DEF write, Go
<1>4. a.status = 500 \/ (a.status = status /\ a.type = type)
  BY <1>2 DEF serverError, NoAnswer
<1>5. ASSUME NEW from \in Types, CanParse(Requests[c]), Misses(from, Wanted(c)),
             NEW t \in Reachable(from)
      PROVE  ~Acceptable(t, c)
  <2>1. t \in Types
    BY <1>5, ReachableRounds
  <2>2. ~Suits(t, Preferences(Requests[c].headers))
    BY <1>5 DEF Misses, Wanted
  <2> QED
    BY <2>1, <2>2, TypesArePairs, SuitsIsAcceptable
<1>6. CanParse(Requests[c]) /\ Suits(type, Wanted(c)) => Acceptable(type, c)
  BY TypesArePairs, SuitsIsAcceptable DEF Wanted
<1>7. call[c].type \in Types /\ Error \in Types
  BY SetupFacts DEF TypesInv, RequestIsTyped, CallIsRight
<1>8. /\ Requests' = Requests /\ CanParse(Requests[c])' = CanParse(Requests[c])
      /\ Wanted(c)' = Wanted(c)
      /\ \A from : Reachable(from)' = Reachable(from)
      /\ \A from, preferences : Misses(from, preferences)' = Misses(from, preferences)
      /\ \A t : Acceptable(t, c)' = Acceptable(t, c)
  BY SameSetup, SameReach DEF OthersWait
<1> HIDE DEF a
<1>9. RefusalIsRight(c)'
  <2>1. Requests[c].method # "PATCH" /\ call[c].type # NoType
          => \A t \in Reachable(call[c].type) : ~Acceptable(t, c)
    BY <1>5, <1>7 DEF RefusalIsKnown
  <2>2. a.status >= 400 /\ a.status # 500 /\ CanParse(Requests[c])
          => Acceptable(a.type, c) \/ \A t \in Reachable(Error) : ~Acceptable(t, c)
    BY <1>4, <1>5, <1>6, <1>7
  <2> QED
    BY <1>8, <2>1, <2>2 DEF RefusalIsRight, a
<1>10. ~HoldsLock(c)' /\ ~ConvertsFor(c, "respondError")'
  BY <1>3 DEF HoldsLock, ConvertsFor, Patching, Converting
<1> QED
  BY <1>3, <1>8, <1>9, <1>10 DEF RefusalIsKnown


\* Only its own steps answer a request.
LEMMA AnswersStay ==
  ASSUME TypesInv, NEW c \in Workload, RequestStep(c), NEW d \in Workload \ {c}
  PROVE  answer'[d] = answer[d]
<1>1. ASSUME NEW status, NEW type, NEW user, NEW everyone, write(c, status, type, user, everyone)
      PROVE  answer'[d] = answer[d]
  BY <1>1 DEF write, TypesInv
<1>2. CASE respond(c) \/ respondError(c) \/ emit(c)
  BY <1>1, <1>2 DEF respond, respondError, emit
<1>3. CASE ~(respond(c) \/ respondError(c) \/ emit(c))
  <2>1. answer' = answer
    BY <1>3, Zenon DEF RequestStep, parse, authenticate, getAclRecursive, deny, getRepresentation, setRepresentation,
       addResource, deleteResource, modifyResource, toIntermediate, patch, writePatched, abandon, requestVars
  <2> QED
    BY <2>1
<1> QED
  BY <1>2, <1>3

\* What cannot be converted for a request is remembered as such.
LEMMA RespondRefusals ==
  ASSUME Shapes, TypesInv, NEW c \in Workload, OthersWait(c), RefusalIsKnown(c), respond(c)
  PROVE  RefusalIsKnown(c)'
<1>1. pc[c] = "respond" /\ RequestIsTyped(c)
  BY DEF respond, TypesInv
<1>2. CanParse(Requests[c]) /\ job[c].preferences = Wanted(c) /\ JobIsRight(job[c])
  BY <1>1 DEF RequestIsTyped, NegotiationIsRight, ConvertsFor, Converting
<1>3. CASE job[c].result = NoType
  <2>1. DOMAIN call = Workload /\ IsCall(call[c]) /\ DOMAIN job = Workload /\ DOMAIN pc = Workload
    BY DEF Shapes, RequestIsRight, Workload
  <2>2. /\ call' = [call EXCEPT ![c] = [@ EXCEPT !.status = 501, !.type = job[c].from]]
        /\ Begin(c, Error, call[c].preferences, FALSE, 3, "respondError")
    BY <1>3 DEF respond
  <2>3. call'[c].type = job[c].from
    <3>1. call'[c] = [call[c] EXCEPT !.status = 501, !.type = job[c].from]
      BY <2>1, <2>2
    <3> QED
      BY <2>1, <3>1 DEF IsCall
  <2>4. job'[c].from = Error /\ job'[c].then = "respondError" /\ pc'[c] = "convert"
    BY <2>1, <2>2 DEF Begin, Go, NoJob
  <2>5. job[c].from = NoType \/ Misses(job[c].from, Wanted(c))
    BY <1>1, <1>2, <1>3 DEF RefusalIsKnown
  <2>6. /\ Requests' = Requests /\ CanParse(Requests[c])' = CanParse(Requests[c]) /\ Wanted(c)' = Wanted(c)
        /\ \A from, preferences : Misses(from, preferences)' = Misses(from, preferences)
    BY SameSetup, SameReach DEF OthersWait
  <2>7. ~HoldsLock(c)'
    BY <2>4 DEF HoldsLock, Patching
  <2> QED
    BY <1>2, <2>3, <2>4, <2>5, <2>6, <2>7 DEF RefusalIsKnown
<1>4. CASE job[c].result # NoType
  <2>1. write(c, 200, job[c].result, walk[c].user, walk[c].everyone) /\ call' = call
    BY <1>4 DEF respond
  <2>2. job[c].result \in Types /\ 200 \in Statuses /\ ~(200 >= 400)
    BY <1>2, <1>4 DEF JobIsRight, Statuses
  <2> QED
    BY <2>1, <2>2, WriteRefusals
<1> QED
  BY <1>3, <1>4

LEMMA RespondErrorRefusals ==
  ASSUME Shapes, TypesInv, NEW c \in Workload, OthersWait(c), RefusalIsKnown(c), respondError(c)
  PROVE  RefusalIsKnown(c)'
<1> DEFINE type == IF job[c].result = NoType THEN TextPlain ELSE job[c].result
           status == call[c].status
<1>1. /\ pc[c] = "respondError" /\ RequestIsTyped(c) /\ call' = call
      /\ write(c, status, type, {}, {})
  BY DEF respondError, TypesInv
<1>2. job[c].preferences = Wanted(c) /\ JobIsRight(job[c]) /\ status \in Statuses
  BY <1>1 DEF RequestIsTyped, NegotiationIsRight, ConvertsFor, CallIsRight
<1>3. job[c].from = Error /\ Error # NoType
  BY <1>1 DEF RefusalIsKnown, ConvertsFor, Error, NoType
<1>4. type \in Types
  BY <1>2, SetupFacts DEF JobIsRight
<1>5. Suits(type, Wanted(c)) \/ Misses(Error, Wanted(c))
  BY <1>1, <1>2, <1>3 DEF JobIsRight, RefusalIsKnown
<1> HIDE DEF type, status
<1> QED
  BY <1>1, <1>2, <1>4, <1>5, WriteRefusals

LEMMA EmitRefusals ==
  ASSUME Shapes, TypesInv, NEW c \in Workload, OthersWait(c), RefusalIsKnown(c), emit(c)
  PROVE  RefusalIsKnown(c)'
<1>1. pc[c] = "emit" /\ RequestIsTyped(c) /\ call' = call /\ write(c, call[c].status, NoType, {}, {})
  BY DEF emit, TypesInv
<1>2. call[c].status \in Statuses /\ ~(call[c].status >= 400)
  BY <1>1 DEF RequestIsTyped, NegotiationIsRight, Statuses
<1>3. NoType \in Types
  BY SetupFacts
<1> QED
  BY <1>1, <1>2, <1>3, WriteRefusals

LEMMA RefusalsInvStep ==
  RInv /\ TypesInv /\ RefusalsInv /\ [Next]_vars => RefusalsInv'
<1> SUFFICES ASSUME RInv, TypesInv, RefusalsInv, [Next]_vars PROVE RefusalsInv'
  OBVIOUS
<1>1. ASSUME scenario' = scenario, NEW c \in Workload, RequestStep(c), Remember(c)
      PROVE  RefusalsInv'
  <2>1. Shapes /\ OthersWait(c) /\ RefusalIsKnown(c)
    BY <1>1, RequestKeeps DEF RInv, Keeps, RefusalsInv
  <2>2. RefusalIsKnown(c)'
    <3>1. CASE ConversionStep(c) /\ UNCHANGED <<authorizationVars, socketVars, requestVars>>
      <4>1. CacheIsRight /\ JobIsRight(job[c]) /\ call' = call
        BY <3>1 DEF TypesInv, RequestIsTyped, requestVars
      <4> QED
        BY <2>1, <3>1, <4>1, ConversionGoesOn
    <3>2. CASE \/ parse(c) \/ authenticate(c) \/ getAclRecursive(c) \/ getRepresentation(c)
               \/ setRepresentation(c) \/ addResource(c) \/ deleteResource(c)
      BY <2>1, <3>2, EarlyRefusals, StoreRefusals
    <3>3. CASE \/ modifyResource(c) \/ toIntermediate(c) \/ patch(c) \/ writePatched(c) \/ abandon(c)
               \/ respond(c) \/ respondError(c) \/ emit(c)
      BY <2>1, <3>3, PatchRefusals, StoreRefusals, RespondRefusals, RespondErrorRefusals, EmitRefusals
    <3> QED
      BY <1>1, <3>1, <3>2, <3>3, Zenon DEF RequestStep
  <2>3. ASSUME NEW d \in Workload \ {c}
        PROVE  RefusalIsKnown(d)'
    <3>1. answer'[d] = answer[d]
      BY <1>1, <2>1, AnswersStay
    <3> QED
      BY <2>1, <3>1, OthersKeepRefusals DEF RefusalsInv
  <2> QED
    BY <2>1, <2>2, <2>3 DEF RefusalsInv, OthersWait
<1>2. ASSUME UNCHANGED <<scenario, pc, conversionVars, authorizationVars, requestVars>>
      PROVE  RefusalsInv'
  <2>1. /\ scenario' = scenario /\ pc' = pc /\ Workload' = Workload /\ job' = job
        /\ call' = call /\ answer' = answer
    BY <1>2 DEF conversionVars, requestVars, Workload
  <2>2. ASSUME NEW d \in Workload
        PROVE  RefusalIsKnown(d)'
    <3>1. /\ Wanted(d)' = Wanted(d) /\ CanParse(Requests[d])' = CanParse(Requests[d]) /\ Requests' = Requests
          /\ \A from : Reachable(from)' = Reachable(from)
          /\ \A from, preferences : Misses(from, preferences)' = Misses(from, preferences)
          /\ \A type : Acceptable(type, d)' = Acceptable(type, d)
      BY <2>1, SameSetup, SameReach
    <3>2. RefusalIsRight(d) => RefusalIsRight(d)'
      BY <2>1, <3>1 DEF RefusalIsRight
    <3> QED
      BY <2>1, <3>1, <3>2 DEF RefusalsInv, RefusalIsKnown, HoldsLock, ConvertsFor
  <2> QED
    BY <2>1, <2>2 DEF RefusalsInv
<1>3. CASE UNCHANGED vars
  BY <1>2, <1>3 DEF vars
<1> QED
  BY <1>1, <1>2, <1>3 DEF Next

LEMMA RefusalsInvInit ==
  Init => RefusalsInv
<1> SUFFICES ASSUME Init PROVE RefusalsInv
  OBVIOUS
<1>1. \A c \in Workload : pc[c] = "new" /\ call[c].type = NoType
  BY DEF Init, Workload, NoCall
<1> QED
  BY <1>1 DEF RefusalsInv, RefusalIsKnown, HoldsLock, ConvertsFor, Patching, Converting

\* What is refused cannot be converted, from the search that finds nothing to
\* the answer that says so: whatever is in the cache of ChainedConverter, and
\* whoever uses it meanwhile, a search goes through every converter that takes
\* anything that the others make.
THEOREM RefusalsInvHolds ==
  Spec => []RefusalsInv
<1>1. Init => RInv /\ TypesInv /\ RefusalsInv
  BY RInvInit, TypesInvInit, RefusalsInvInit
<1>2. RInv /\ TypesInv /\ RefusalsInv /\ [Next]_vars => (RInv /\ TypesInv /\ RefusalsInv)'
  BY RInvStep, TypesInvStep, RefusalsInvStep
<1> QED
  BY <1>1, <1>2, PTL DEF Spec

\* A request is answered with a type that it accepts, or told of an error in
\* plain text, and is refused for its type only when no chain of converters
\* leads from what is stored to any type that it accepts (getTypeWeight and
\* cleanPreferences, against the precedence of ranges in RFC 7231).
THEOREM AnswersAreAcceptableHolds ==
  Spec => []AnswersAreAcceptable
<1>1. TypesInv /\ RefusalsInv => AnswersAreAcceptable
  BY DEF TypesInv, RequestIsTyped, NegotiationIsRight, RefusalsInv, RefusalIsKnown, AnswersAreAcceptable
<1> QED
  BY <1>1, TypesInvHolds, RefusalsInvHolds, PTL

=============================================================================
