---------------------------- MODULE Authorization ----------------------------
(***************************************************************************)
(* Who makes a request, what it needs, and whether the access control      *)
(* lists allow it: the credentials extractors, the permissions extractors, *)
(* AuxiliaryAuthorizer and WebAclAuthorizer.  The authorizer reads the     *)
(* list of the resource, and while there is none that of the container     *)
(* above; each is a read of its own, and lists may change between them.    *)
(*                                                                         *)
(* A resource is <<kind, path>>, with kind "subject" or "acl".  A list is  *)
(* a set of authorizations: the modes that they give to some agents, and   *)
(* the resources, each with a predicate, that they are about.              *)
(***************************************************************************)
EXTENDS Conversion

CONSTANTS
  Root,          \* the path of the root container
  Containers,    \* the paths that end in a slash
  Parent         \* of every path but the root the container above

VARIABLES
  store,         \* the resources there are: their type, last writer and list
  locked,        \* resources (with their lists) that a patch has locked
  walk           \* how far the authorization of each request is

authorizationVars == <<store, locked, walk>>

Requests == scenario.requests

Modes == {"read", "write", "append", "control"}
Anonymous == "anonymous"

Subject(path) == <<"subject", path>>
Acl(path) == <<"acl", path>>
IsAcl(r) == r[1] = "acl"
Elsewhere == "elsewhere"

NoWalk == [agent |-> Anonymous, modes |-> {}, at |-> Elsewhere, recurse |-> FALSE,
           user |-> {}, everyone |-> {}]

-----------------------------------------------------------------------------
(* Credentials.                                                            *)

CanExtract(extractor, authorization) ==
  CASE extractor = "constant" -> TRUE
    [] extractor = "Empty" -> authorization.scheme = "none"
    [] OTHER -> authorization.scheme = extractor

\* Tokens are verified by a library.
DPoPWebId(authorization) == authorization.proof /\ authorization.valid
BearerWebId(authorization) == authorization.valid

\* The status of a request without usable credentials, or 0.
credentialsError(request) ==
  LET authorization == request.authorization
      able == {i \in DOMAIN setup.extractors :
                 CanExtract(setup.extractors[i], authorization)}
  IN  IF able = {} THEN 501
      ELSE CASE setup.extractors[Least(able)] = "DPoP" ->
                  IF DPoPWebId(authorization) THEN 0 ELSE 400
             [] setup.extractors[Least(able)] = "Bearer" ->
                  IF BearerWebId(authorization) THEN 0 ELSE 400
             [] OTHER -> 0

agentOf(request) ==
  LET able == {i \in DOMAIN setup.extractors :
                 CanExtract(setup.extractors[i], request.authorization)}
  IN  CASE setup.extractors[Least(able)] = "constant" -> setup.agent
        [] setup.extractors[Least(able)] = "Empty" -> Anonymous
        [] OTHER -> request.authorization.webId

-----------------------------------------------------------------------------
(* The modes that a request needs.  A patch is a sequence of updates.      *)

IsPatch(request) == request.method = "PATCH" /\ request.body.algebra # <<>>

Deletes(algebra) == \E i \in DOMAIN algebra : algebra[i] \in {"delete", "deleteInsert"}
Inserts(algebra) == \E i \in DOMAIN algebra :
                      algebra[i] \in {"insert", "deleteInsert", "insertGraph"}

patchPermissions(algebra) ==
  (IF Deletes(algebra) THEN {"write", "append"} ELSE {})
    \cup (IF Inserts(algebra) THEN {"append"} ELSE {})

methodPermissions(method) ==
  CASE method \in {"GET", "HEAD"} -> {"read"}
    [] method \in {"PUT", "DELETE"} -> {"write", "append"}
    [] method = "POST" -> {"append"}

\* A list needs control, whatever is done with it.
CanDetermine(request, target) ==
  \/ IsAcl(target)
  \/ request.method \in {"GET", "HEAD", "PUT", "DELETE", "POST"}
  \/ IsPatch(request) /\ \A i \in DOMAIN request.body.algebra : request.body.algebra[i] # "load"

permissionsOf(request, target) ==
  IF IsAcl(target) THEN {"control"}
  ELSE IF request.method = "PATCH" THEN patchPermissions(request.body.algebra)
  ELSE methodPermissions(request.method)

-----------------------------------------------------------------------------
(* The lists.                                                              *)

\* WebAclAuthorizer.filterData: the authorizations that are about a resource.
filterData(list, predicate, path) == {auth \in list : <<predicate, path>> \in auth.about}

hasAccess(agent, auth) ==
  \/ "everyone" \in auth.agents
  \/ agent # Anonymous /\ ("authenticated" \in auth.agents \/ agent \in auth.agents)

hasPermission(agent, acl, mode) ==
  \E auth \in acl :
    /\ mode \in auth.modes \/ (mode = "append" /\ "write" \in auth.modes)
    /\ hasAccess(agent, auth)

determinePermissions(agent, acl) == {mode \in Modes : hasPermission(agent, acl, mode)}

-----------------------------------------------------------------------------
(* The authorization of a request.                                         *)

\* AuxiliaryAuthorizer: the list of a resource is as accessible as the resource.
beginWalk(c, target) ==
  walk' = [walk EXCEPT ![c] = [NoWalk EXCEPT
    !.agent = agentOf(Requests[c]), !.at = target[2],
    !.modes = permissionsOf(Requests[c], target)]]

\* The status of a refusal: those who did not log in may do so.
refusal(c) == IF walk[c].agent = Anonymous THEN 401 ELSE 403

\* The next list was read, in this state: it is the one that counts, or there
\* is none and the container above is next.  The read waits for a patch.  The
\* list's conversion to quads is no step, and other errors, which end the
\* request, are left out.
ListRead(c) == pc[c] = "getAcl" /\ walk[c].at \notin locked

ListFound(c) == Acl(walk[c].at) \in DOMAIN store

createAuthorization(c) ==
  LET w == walk[c]
      acl == filterData(store[Acl(w.at)].list, IF w.recurse THEN "default" ELSE "accessTo", w.at)
  IN  [w EXCEPT !.user = determinePermissions(w.agent, acl),
                !.everyone = determinePermissions(Anonymous, acl)]

\* No list for the root, or no container above, outside of the server.
walkError(c) == IF walk[c].at = Root THEN 403 ELSE 500

\* A mistake for climb: the list that is found is read as that of the resource.
climbAsOwn(c) ==
  /\ ListRead(c) /\ ~ListFound(c) /\ walk[c].at \in DOMAIN Parent
  /\ walk' = [walk EXCEPT ![c].at = Parent[@]]
  /\ UNCHANGED pc

climb(c) ==
  /\ ListRead(c) /\ ~ListFound(c) /\ walk[c].at \in DOMAIN Parent
  /\ walk' = [walk EXCEPT ![c] = [@ EXCEPT !.at = Parent[walk[c].at], !.recurse = TRUE]]
  /\ UNCHANGED pc

authorize(c) ==
  /\ ListRead(c) /\ ListFound(c)
  /\ walk[c].modes \subseteq createAuthorization(c).user
  /\ walk' = [walk EXCEPT ![c] = createAuthorization(c)]
  /\ Go(c, "operate")
=============================================================================
