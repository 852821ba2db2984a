------------------------------- MODULE Requests -------------------------------
(***************************************************************************)
(* HTTP requests, from their headers to their answer: they are parsed      *)
(* (BasicRequestParser), authorized, handled by the store, which converts, *)
(* patches and tells about changes, and answered (AuthenticatedLdpHandler, *)
(* the error handlers and BasicResponseWriter).  What the store does is    *)
(* one step here, but for a patch: DataAccessorBasedStore has the others.  *)
(***************************************************************************)
EXTENDS Notifications

CONSTANTS
  NewPaths       \* names that are made up for resources without one

VARIABLES
  call,          \* what is known of each request
  answer,        \* and the status, type and modes that it was answered with
  effective,     \* history: rights of its agent while they were looked up,
  listChanges,   \* how often lists changed meanwhile,
  expected       \* and who should hear of which resource that it changed

requestVars == <<call, answer>>
history == <<effective, listChanges, expected>>
vars == <<scenario, pc, conversionVars, authorizationVars, socketVars, requestVars, history>>

TextPlain == <<"text", "plain">>
Turtle == <<"text", "turtle">>
SparqlUpdate == <<"application", "sparql-update">>

NoCall == [target |-> Subject(Elsewhere), preferences |-> Only(TextPlain),
           status |-> 0, type |-> NoType, changed |-> {}]
NoAnswer == [status |-> 0, type |-> NoType, user |-> {}, everyone |-> {}]

Init ==
  /\ scenario \in Scenarios
  /\ pc = [c \in DOMAIN Requests |-> "new"]
  /\ store = scenario.store /\ locked = {}
  /\ walk = [c \in Workload |-> NoWalk]
  /\ ConversionInit /\ NotificationsInit
  /\ call = [c \in Workload |-> NoCall] /\ answer = [c \in Workload |-> NoAnswer]
  /\ effective = [c \in Workload |-> {}] /\ listChanges = [c \in Workload |-> 0]
  /\ expected = [c \in Workload |-> {}]

-----------------------------------------------------------------------------
(* Errors and answers.                                                     *)

\* ConvertingErrorHandler; the waterfall it is in asks canHandle first.
fail(c, status, preferences) ==
  /\ call' = [call EXCEPT ![c] = [@ EXCEPT !.status = status, !.preferences = preferences]]
  /\ Begin(c, Error, preferences, FALSE, 3, "respondError")

failNow(c, status) == fail(c, status, call[c].preferences)

\* BaseHttpServerFactory answers when nothing else does.
serverError == [NoAnswer EXCEPT !.status = 500, !.type = TextPlain]

\* BasicResponseWriter refuses internal types.
write(c, status, type, user, everyone) ==
  /\ answer' = [answer EXCEPT ![c] =
       IF isInternalContentType(type) THEN serverError
       ELSE [status |-> status, type |-> type, user |-> user, everyone |-> everyone]]
  /\ Go(c, "answered")

\* The error was converted; TextErrorHandler answers when it cannot be.
respondError(c) ==
  /\ pc[c] = "respondError"
  /\ write(c, call[c].status, IF job[c].result = NoType THEN TextPlain ELSE job[c].result, {}, {})
  /\ UNCHANGED <<conversionVars, authorizationVars, socketVars, call>>

-----------------------------------------------------------------------------
(* Parsing.                                                                *)

HasBody(body) ==
  body.chunked \/ (body.length # "none" /\ ~(body.length = "0" /\ body.type = NoType))

bodyType(request) ==
  IF request.body.type = SparqlUpdate \/ HasBody(request.body) THEN request.body.type ELSE NoType

\* SparqlUpdateBodyParser, RawBodyParser
ValidBody(body) ==
  IF body.type = SparqlUpdate THEN ~body.malformed ELSE HasBody(body) => body.type # NoType

originalUrl(headers) ==
  LET forwarded == parseForwarded(headers) IN
  [host |-> IF forwarded.host # "none" THEN forwarded.host ELSE headers.host,
   proto |-> IF forwarded.proto # "none" THEN forwarded.proto
             ELSE IF headers.secure THEN "https" ELSE "http"]

\* Outside of the server there is only one resource here.
targetOf(request) ==
  IF originalUrl(request.headers) = setup.baseUrl THEN request.target ELSE Subject(Elsewhere)

\* There is a host, without slashes and asterisks.
ValidHost(request) == originalUrl(request.headers).host \notin {"none", "malformed"}

\* decodeURIComponent and URL do not throw: the path can be decoded, and the
\* protocol and the host, with its port, are those of a URL.
ValidUrl(request) ==
  LET url == originalUrl(request.headers) IN
  request.decodable /\ "invalid" \notin {url.host, url.proto}

CanParse(request) ==
  /\ ValidHost(request) /\ ValidUrl(request)
  /\ ValidPreferences(request.headers)
  /\ request.headers.slugs <= 1
  /\ ValidBody(request.body)

\* What URL throws is no HttpError.  (Nor is a request without a URL or a method,
\* which the server of Node never passes on.)
parseError(request) == IF ValidHost(request) /\ ~ValidUrl(request) THEN 500 ELSE 400

\* BasicRequestParser.  The preferences may not be known yet when it fails, so
\* any failure is told in plain text.
parse(c) ==
  /\ pc[c] = "new"
  /\ LET request == Requests[c] IN
     IF CanParse(request)
     THEN /\ call' = [call EXCEPT ![c] = [@ EXCEPT
               !.target = targetOf(request), !.preferences = Preferences(request.headers)]]
          /\ Go(c, "authenticate") /\ UNCHANGED job
     ELSE fail(c, parseError(request), Only(TextPlain))
  /\ UNCHANGED <<cache, authorizationVars, socketVars, answer>>

-----------------------------------------------------------------------------
(* Authorization.                                                          *)

\* handleOperation, up to the first list that is read.
authenticate(c) ==
  /\ pc[c] = "authenticate"
  /\ LET request == Requests[c]
         status == credentialsError(request)
     IN  IF status # 0 THEN failNow(c, status) /\ UNCHANGED walk
         ELSE IF ~CanDetermine(request, call[c].target)
              THEN failNow(c, 501) /\ UNCHANGED walk
              ELSE beginWalk(c, call[c].target) /\ Go(c, "getAcl") /\ UNCHANGED <<job, call>>
  /\ UNCHANGED <<cache, store, locked, socketVars, answer>>

\* The list that counts does not give the modes, or there is no list.
deny(c) ==
  /\ ListRead(c)
  /\ IF ListFound(c)
     THEN ~(walk[c].modes \subseteq createAuthorization(c).user) /\ failNow(c, refusal(c))
     ELSE walk[c].at \notin DOMAIN Parent /\ failNow(c, walkError(c))
  /\ UNCHANGED <<cache, authorizationVars, socketVars, answer>>

getAclRecursive(c) ==
  \/ /\ climb(c) \/ authorize(c)
     /\ UNCHANGED <<store, locked, conversionVars, socketVars, requestVars>>
  \/ deny(c)

-----------------------------------------------------------------------------
(* The store.  Locks are on the resource that a list is about; only a      *)
(* patch holds one for more than a step.                                   *)

Operates(c, methods) == pc[c] = "operate" /\ Requests[c].method \in methods
Target(c) == call[c].target
Free(c) == Target(c)[2] \notin locked

Exists(r) == r \in DOMAIN store

Paths == DOMAIN Parent \cup {Root}
Above[path \in Paths] ==
  IF path = Root THEN {Root} ELSE {path} \cup Above[Parent[path]]

\* The containers form a tree, so that Above is defined.
ASSUME PathsAssumption ==
  /\ Root \in Containers /\ Root \notin DOMAIN Parent /\ Containers \subseteq Paths
  /\ Parent \in [DOMAIN Parent -> Containers]
  /\ NewPaths \subseteq DOMAIN Parent \ Containers /\ Elsewhere \notin Paths
  /\ Above \in [Paths -> SUBSET Paths] /\ Above[Root] = {Root}
  /\ \A p \in DOMAIN Parent : /\ Above[p] = {p} \cup Above[Parent[p]]
                              /\ p \notin Above[Parent[p]]
  /\ \A p \in Paths : \A q \in Above[p] :
       Above[q] \subseteq Above[p] /\ (q # p => \E r \in Above[p] \ {Root} : Parent[r] = q)
  /\ \A p \in Paths : \A s \in SUBSET Above[p] : s # {} => \E q \in s : s \subseteq Above[q]

\* At the start every resource is in a container, and requests are about paths.
ASSUME ScenariosAssumption ==
  \A s \in Scenarios :
    /\ DOMAIN s.store \subseteq {"subject", "acl"} \X Paths
    /\ \A r \in DOMAIN s.store : s.store[r].type \in MediaTypes
    /\ \A r \in DOMAIN s.store : \A p \in Above[r[2]] \ {r[2]} : Subject(p) \in DOMAIN s.store
    /\ \A c \in DOMAIN s.requests : s.requests[c].target \in {"subject", "acl"} \X Paths
    /\ \A c \in DOMAIN s.requests : s.requests[c].body.type \in MediaTypes

IsContainer(r) == r[2] \in Containers /\ ~IsAcl(r)
ContainerOf(r) == IF IsAcl(r) /\ r[2] \in Containers THEN r[2] ELSE Parent[r[2]]
Children(s, path) == {p \in DOMAIN Parent : Parent[p] = path /\ Subject(p) \in DOMAIN s}

\* Containers above a resource that are made with it.
createRecursiveContainers(r) == {p \in Above[ContainerOf(r)] : ~Exists(Subject(p))}

\* What was changed, as it is reported, and the answer that follows.
Changed(c, status, changed) ==
  /\ call' = [call EXCEPT ![c] = [@ EXCEPT !.status = status, !.changed = changed]]
  /\ Go(c, "emit") /\ UNCHANGED job

\* setRepresentation reports the container of the resource, or, instead of it,
\* those that had to be made.
writeData(c, r, entry) ==
  LET made == IF r = Subject(Root) \/ Exists(r) THEN {}
              ELSE {Subject(p) : p \in createRecursiveContainers(r)}
      container == [type |-> Quads, by |-> c, list |-> {}]
      above == IF r = Subject(Root) THEN {}
               ELSE IF made = {} THEN {Subject(ContainerOf(r))} ELSE made
  IN  /\ store' = [q \in DOMAIN store \cup made \cup {r} |->
                     IF q = r THEN entry ELSE IF q \in made THEN container ELSE store[q]]
      /\ Changed(c, 205, above \cup {r})

\* GetOperationHandler, HeadOperationHandler, RepresentationConvertingStore
getRepresentation(c) ==
  /\ Operates(c, {"GET", "HEAD"}) /\ Free(c)
  /\ IF Exists(Target(c))
     THEN /\ Begin(c, store[Target(c)].type, call[c].preferences, IsContainer(Target(c)), 2, "respond")
          /\ UNCHANGED call
     ELSE failNow(c, 404)
  /\ UNCHANGED <<cache, authorizationVars, socketVars, answer>>

\* A type that cannot be converted is a 501, and kept for the history.
respond(c) ==
  /\ pc[c] = "respond"
  /\ IF job[c].result = NoType
     THEN /\ call' = [call EXCEPT ![c] = [@ EXCEPT !.status = 501, !.type = job[c].from]]
          /\ Begin(c, Error, call[c].preferences, FALSE, 3, "respondError")
          /\ UNCHANGED answer
     ELSE /\ write(c, 200, job[c].result, walk[c].user, walk[c].everyone)
          /\ UNCHANGED <<call, job>>
  /\ UNCHANGED <<cache, authorizationVars, socketVars>>

\* The status with which data is refused, or 0: handleContainerData,
ContainerError(r, type) ==
  IF IsContainer(r) /\ type \notin RdfTypes THEN 400 ELSE 0

\* and RdfValidator, for lists: they cannot be converted to quads.
ListError(r, type) == IF IsAcl(r) /\ type \notin RdfTypes THEN 501 ELSE 0

\* PutOperationHandler.
setRepresentation(c) ==
  /\ Operates(c, {"PUT"}) /\ Free(c)
  /\ LET type == bodyType(Requests[c])
         list == IF IsAcl(Target(c)) THEN Requests[c].body.list ELSE {}
     IN  IF type = NoType THEN failNow(c, 400) /\ UNCHANGED store
         ELSE IF ContainerError(Target(c), type) + ListError(Target(c), type) > 0
              THEN /\ failNow(c, ContainerError(Target(c), type) + ListError(Target(c), type))
                   /\ UNCHANGED store
         ELSE writeData(c, Target(c), [type |-> IF IsContainer(Target(c)) THEN Quads ELSE type,
                                       by |-> c, list |-> list])
  /\ UNCHANGED <<cache, locked, walk, socketVars, answer>>

\* PostOperationHandler, MonitoringStore.addResource
addResource(c) ==
  /\ Operates(c, {"POST"}) /\ Free(c)
  /\ LET type == bodyType(Requests[c]) IN
     IF type = NoType THEN failNow(c, 400) /\ UNCHANGED store
     ELSE IF ~Exists(Target(c)) THEN failNow(c, 404) /\ UNCHANGED store
     ELSE IF ~IsContainer(Target(c)) THEN failNow(c, 405) /\ UNCHANGED store
     ELSE \E path \in {p \in NewPaths : Parent[p] = Target(c)[2] /\ ~Exists(Subject(p))} :
            /\ store' = [q \in DOMAIN store \cup {Subject(path)} |->
                 IF q = Subject(path) THEN [type |-> type, by |-> c, list |-> {}] ELSE store[q]]
            /\ Changed(c, 201, {Target(c), Subject(path)})
  /\ UNCHANGED <<cache, locked, walk, socketVars, answer>>

\* DeleteOperationHandler: the list of a resource goes with it, and is announced.
\* The lists of missing resources go with the container that they are in, as
\* InMemoryDataAccessor keeps them in it, and are not announced.
deleteResource(c) ==
  /\ Operates(c, {"DELETE"}) /\ Free(c)
  /\ LET r == Target(c)
         lists == IF IsAcl(r) THEN {} ELSE {Acl(r[2])} \cap DOMAIN store
         orphans == IF IsAcl(r) THEN {} ELSE {Acl(p) : p \in {q \in DOMAIN Parent : Parent[q] = r[2]}}
     IN  IF ~Exists(r) THEN failNow(c, 404) /\ UNCHANGED store
         ELSE IF r[2] = Root THEN failNow(c, 405) /\ UNCHANGED store
         ELSE IF ~IsAcl(r) /\ Children(store, r[2]) # {} THEN failNow(c, 409) /\ UNCHANGED store
         ELSE /\ store' = [q \in DOMAIN store \ ({r} \cup lists \cup orphans) |-> store[q]]
              /\ Changed(c, 205, {r} \cup lists)
  /\ UNCHANGED <<cache, locked, walk, socketVars, answer>>

\* MonitoringStore.emitChanged, and the answer.
emit(c) ==
  /\ pc[c] = "emit"
  /\ emitChanged(call[c].changed, c)
  /\ write(c, call[c].status, NoType, {}, {})
  /\ UNCHANGED <<conversionVars, authorizationVars, call, script>>

-----------------------------------------------------------------------------
(* Patches.                                                                *)

\* SparqlUpdatePatchHandler.validateUpdate; nothing to do is not an update
\* when it is one of several.
ValidUpdate(algebra) ==
  \A i \in DOMAIN algebra : algebra[i] \in {"insert", "delete", "deleteInsert"}

\* PatchOperationHandler, PatchingStore and ConvertingPatchHandler, up to the
\* conversion of the resource to a type it can be kept in.
modifyResource(c) ==
  /\ Operates(c, {"PATCH"}) /\ Free(c)
  /\ LET request == Requests[c]
         r == Target(c)
     IN  IF bodyType(request) = NoType THEN failNow(c, 400) /\ UNCHANGED locked
         ELSE IF request.body.algebra = <<"nop">>
              THEN Changed(c, 205, {}) /\ UNCHANGED locked
         ELSE IF ~IsPatch(request) \/ ~ValidUpdate(request.body.algebra)
              THEN failNow(c, 501) /\ UNCHANGED locked
         ELSE /\ locked' = locked \cup {r[2]}
              /\ IF Exists(r)
                 THEN Begin(c, store[r].type, Nothing, IsContainer(r), 2, "toQuads")
                      /\ UNCHANGED call
                 ELSE Begin(c, Quads, Only(Turtle), FALSE, 2, "writePatched")
                      /\ call' = [call EXCEPT ![c].type = Turtle]
  /\ UNCHANGED <<cache, store, walk, socketVars, answer>>

\* A conversion failed: the lock is released.
abandon(c) ==
  /\ pc[c] \in {"toQuads", "patch", "writePatched"} /\ job[c].result = NoType
  /\ failNow(c, 501)
  /\ locked' = locked \ {Target(c)[2]}
  /\ UNCHANGED <<cache, store, walk, socketVars, answer>>

toIntermediate(c) ==
  /\ pc[c] = "toQuads" /\ job[c].result # NoType
  /\ call' = [call EXCEPT ![c].type = job[c].result]
  /\ Begin(c, job[c].result, Only(Quads), job[c].container, 2, "patch")
  /\ UNCHANGED <<cache, authorizationVars, socketVars, answer>>

\* The query is run on the quads, which get the type of the resource again.  That
\* data cannot be parsed or that the query fails is left out.
patch(c) ==
  /\ pc[c] = "patch" /\ job[c].result # NoType
  /\ Begin(c, Quads, Only(call[c].type), job[c].container, 2, "writePatched")
  /\ UNCHANGED <<cache, authorizationVars, socketVars, requestVars>>

\* The containment triples of a container come back with the patched
\* representation, and are refused.
writePatched(c) ==
  /\ pc[c] = "writePatched" /\ job[c].result # NoType
  /\ LET r == Target(c)
         body == Requests[c].body
         old == IF Exists(r) THEN store[r].list ELSE {}
     IN  IF IsContainer(r) /\ Children(store, r[2]) # {}
         THEN failNow(c, 409) /\ UNCHANGED store
         ELSE writeData(c, r, [type |-> IF IsContainer(r) THEN Quads ELSE call[c].type, by |-> c,
                               list |-> IF IsAcl(r) THEN (old \ body.deleted) \cup body.list ELSE {}])
  /\ locked' = locked \ {Target(c)[2]}
  /\ UNCHANGED <<cache, walk, socketVars, answer>>

-----------------------------------------------------------------------------
(* The history.                                                            *)

\* The rights that the lists give an agent: the list of the resource or, by
\* its defaults, that of the nearest container with one.
RightsIn(s, agent, path) ==
  LET listed == {p \in Above[path] : Acl(p) \in DOMAIN s}
      nearest == CHOOSE p \in listed : \A q \in listed : q \in Above[p]
      gives(auth, who, mode) ==
        /\ (IF nearest = path THEN <<"accessTo", path>> ELSE <<"default", nearest>>) \in auth.about
        /\ auth.modes \cap (IF mode = "append" THEN {"append", "write"} ELSE {mode}) # {}
        /\ auth.agents \cap (IF who = Anonymous THEN {"everyone"}
                             ELSE {"everyone", "authenticated", who}) # {}
      modes(who) == IF listed = {} THEN {}
                    ELSE {m \in Modes : \E auth \in s[Acl(nearest)].list : gives(auth, who, m)}
  IN  [user |-> modes(agent), everyone |-> modes(Anonymous)]

Lists(s) == [r \in {q \in DOMAIN s : IsAcl(q)} |-> s[r].list]

\* What a step made different: resources that were written, made or deleted,
\* and the listing of the container that a resource was put in.  Not the
\* listing of a container that something was deleted from, or in which only a
\* container was made on the way, nor the lists of missing resources.
Altered(c) ==
  LET orphans == {r \in DOMAIN store : IsAcl(r) /\ ~Exists(Subject(r[2])) /\ r # Target(c)}
      written == {r \in DOMAIN store \cap DOMAIN store' : store[r] # store'[r]}
                   \cup (DOMAIN store \ (DOMAIN store' \cup orphans)) \cup (DOMAIN store' \ DOMAIN store)
      joined == {Subject(p) : p \in {q \in Containers :
                   \E k \in Children(store', q) \ Children(store, q) :
                     Subject(k) = Target(c) \/ k \in NewPaths}}
  IN  written \cup joined

Remember(c) ==
  LET now(d) == RightsIn(store', walk'[d].agent, call[d].target[2])
      looking(d) == pc'[d] = "getAcl" /\ call[d].target[2] # Elsewhere
  IN  /\ effective' = [d \in Workload |->
           IF looking(d) THEN effective[d] \cup {now(d)} ELSE effective[d]]
      /\ listChanges' = [d \in Workload |->
           IF pc[d] = "getAcl" /\ Lists(store) # Lists(store')
           THEN listChanges[d] + 1 ELSE listChanges[d]]
      /\ expected' = [expected EXCEPT ![c] =
           IF store' = store THEN @
           ELSE {e \in Sockets \X Altered(c) : e[2] \in listeners[e[1]].subscribedPaths}]

-----------------------------------------------------------------------------

RequestStep(c) ==
  \/ parse(c) \/ authenticate(c) \/ getAclRecursive(c)
  \/ getRepresentation(c) \/ setRepresentation(c) \/ addResource(c) \/ deleteResource(c)
  \/ modifyResource(c) \/ toIntermediate(c) \/ patch(c) \/ writePatched(c) \/ abandon(c)
  \/ respond(c) \/ respondError(c) \/ emit(c)
  \/ ConversionStep(c) /\ UNCHANGED <<authorizationVars, socketVars, requestVars>>

Next ==
  /\ UNCHANGED scenario
  /\ \/ \E c \in Workload : RequestStep(c) /\ Remember(c)
     \/ /\ NotificationsStep
        /\ UNCHANGED <<pc, conversionVars, authorizationVars, requestVars, history>>

Spec == Init /\ [][Next]_vars

-----------------------------------------------------------------------------
(* Properties.                                                             *)

Types ==
  (UNION {{t.value : t \in ToSet(converters[i].output)} : i \in DOMAIN converters})
    \cup {Requests[c].body.type : c \in Workload}
    \cup {scenario.store[r].type : r \in DOMAIN scenario.store}
    \cup (UNION {ToSet(setup.replacements[i].to) : i \in DOMAIN setup.replacements})
    \cup {setup.constant.type, TextPlain, Turtle, Quads, Error, NoType}

\* What is stored, cached and answered has the shape that the code gives it:
\* the cache does not outgrow its size, a path in it uses no converter twice,
\* and every resource is in a container.
TypeOK ==
  /\ DOMAIN store \subseteq {"subject", "acl"} \X Paths
  /\ \A r \in DOMAIN store : /\ r[2] # Root => Exists(Subject(Parent[r[2]]))
                              /\ store[r].type \in Types
  /\ Len(cache) <= setup.cacheSize
  /\ \A i \in DOMAIN cache : IsInjective(cache[i].converters)
  /\ locked \subseteq {Target(c)[2] : c \in Workload}
  /\ \A c \in Workload :
       /\ walk[c].modes \cup walk[c].user \cup walk[c].everyone \subseteq Modes
       /\ walk[c].at \in Paths \cup {Elsewhere}
       /\ job[c].result \in Types /\ answer[c].type \in Types
       /\ answer[c].status \in {0, 200, 201, 205, 400, 401, 403, 404, 405, 409, 500, 501}

\* A request is granted the rights that the lists gave its agent, and the
\* public, at one moment since they were looked up (they are also what
\* WAC-Allow tells), and is refused only if they were not enough, or none, at
\* one moment (without any list even a request that needs no rights is refused).
\* The walk from list to list is no snapshot (WebAclAuthorizer): it still holds
\* when lists are changed once meanwhile, wherever they are.
GrantsWereEffective ==
  \A c \in Workload : listChanges[c] <= 1 =>
    /\ walk[c].user # {} => [user |-> walk[c].user, everyone |-> walk[c].everyone] \in effective[c]
    /\ pc[c] = "operate" => \E e \in effective[c] : walk[c].modes \subseteq e.user
    /\ call[c].status \in {401, 403} => \E e \in effective[c] : e.user = {} \/ ~(walk[c].modes \subseteq e.user)

Covers(range, type) == range \in {All, <<type[1], "*">>, type}
Specificity(range) == Cardinality({i \in 1 .. 2 : range[i] # "*"})

\* RFC 7231: the most specific of the ranges counts, and of several that are the
\* same the lowest.  Internal types have to be asked for as such.
Acceptable(type, c) ==
  LET accepted == parseAccept(Requests[c].headers.accept)
      ranges == {p \in accepted :
                   Covers(p.range, type) /\ (type[1] = "internal" => p.range[1] = "internal")}
  IN  \/ accepted = {} /\ type[1] # "internal"
      \/ /\ ranges # {}
         /\ \A p \in ranges :
              (\A q \in ranges : Specificity(q.range) <= Specificity(p.range)) => p.weight > 0

\* The types that some converters, one after the other, make of a type.
Reachable(type) ==
  LET more(types, round) == types \cup UNION {
        {t.value : t \in ToSet(converters[i].output)} : i \in {j \in DOMAIN converters :
           \E t \in types : \E range \in DOMAIN converters[j].input : Covers(range, t)}}
  IN  FoldLeft(more, {type}, [i \in DOMAIN converters |-> i])

\* What is answered is of a type that the request accepts, or an error in plain
\* text, which it always is when the request could not be parsed, and never of an
\* internal type.
AnswerIsAccepted(c) ==
  LET type == answer[c].type IN
  /\ type[1] # "internal"
  /\ answer[c].status = 200 => Acceptable(type, c)
  /\ answer[c].status >= 400 => Acceptable(type, c) \/ type = TextPlain
  /\ ~CanParse(Requests[c]) => type = TextPlain

\* A request is refused for its type only if no chain of converters leads to one
\* that it accepts, and an error is told in plain text only if there is no better.
RefusalIsRight(c) ==
  LET Possible(from) == \E t \in Reachable(from) : Acceptable(t, c)
      type == answer[c].type
  IN  /\ answer[c].status = 501 /\ call[c].type # NoType /\ Requests[c].method # "PATCH"
           => ~Possible(call[c].type)
      /\ answer[c].status >= 400 /\ answer[c].status # 500 /\ CanParse(Requests[c])
           => Acceptable(type, c) \/ ~Possible(Error)

\* Both, whatever the conversions at the same time do to the cache.
AnswersAreAcceptable ==
  \A c \in Workload : pc[c] = "answered" => AnswerIsAccepted(c) /\ RefusalIsRight(c)

\* Once a request is answered, every client that was subscribed to a resource
\* when the request changed it, and still is, was told.
SubscribersHearOfChanges ==
  \A c \in Workload : pc[c] = "answered" =>
    \A e \in expected[c] :
      \/ listeners[e[1]].state = "closed"
      \/ <<"pub", <<e[2], c>>>> \in listeners[e[1]].sent

\* The weight of the best chain of converters that uses none twice, from the
\* definition: every converter in turn takes the type that suits it best.
ChainWeight(chain, from, preferences) ==
  LET step(types, i) ==
        LET best == getBestPreference(types, converters[i].input) IN
        [o \in DOMAIN converters[i].output |->
           [converters[i].output[o] EXCEPT !.weight = Times(best.weight, @)]]
  IN  getBestPreference(FoldLeft(step, <<[value |-> from, weight |-> One]>>, chain), preferences).weight

\* ChainedConverter.findBest: "If there are multiple matches the one with the
\* highest result weight gets chosen", so no other chain is better than the
\* one that a search finds (but for rounding, 0.01).
ChainsAreBest ==
  \A c \in Workload : job[c].generated =>
    LET preferences == cleanPreferences(job[c].preferences)
        chains == {s \in UNION {[1 .. n -> DOMAIN converters] : n \in DOMAIN converters} :
                     IsInjective(s)}
    IN  \A s \in chains :
          ChainWeight(s, job[c].from, preferences) <= job[c].match.weight + Tolerance
=============================================================================
