--------------------------------- MODULE Pods ---------------------------------
(***************************************************************************)
(* The two pod managers.  GeneratedPodManager fills a container of the     *)
(* one store; ConfigPodManager makes a store for every pod, whose          *)
(* configuration is kept in a JSON file so that ConfigPodInitializer can   *)
(* make it again when the server starts, and which is found through the    *)
(* routing storage, which is in memory.                                    *)
(***************************************************************************)
EXTENDS Interaction, Sequences

CONSTANTS
  PodOf,       \* the identifier generated for a pod name
  Within,      \* the pods whose identifier is a prefix of a resource's
  Template     \* the files of the folders of the template: which resource
               \* each belongs to, and whether it is its metadata

VARIABLES
  contents,    \* the resources in each pod, with the call that made them
  config,      \* the JSON file: the variables of each pod
  torn,        \* whether the file is being written, or was when the server crashed
  routing,     \* the routing storage
  todo,        \* generate: what is left of the folders that were opened
  initLeft     \* ConfigPodInitializer: the entries still to be done

podVars == <<contents, config, torn, routing, todo, initLeft>>

\* SuffixIdentifierGenerator: different names can have the same identifier.
generate(name) == PodOf[name]
PodFor(c) == generate(Input[c].podName)

PodInit(pods, stored) ==
  /\ contents = [p \in pods |-> {}]
  /\ config = stored /\ torn = FALSE
  /\ routing = Empty
  /\ todo = [c \in Workload |-> <<>>]
  /\ initLeft = {}

-----------------------------------------------------------------------------
(* TemplatedResourcesGenerator.                                            *)

\* The files of a folder grouped with their metadata, its own metadata apart.
groupLinks(folder) == {f.resource : f \in Template[folder]} \ {folder}

\* Metadata without a resource: the link that is used is undefined.
HasLink(folder, r) == [resource |-> r, meta |-> FALSE] \in Template[folder]

\* generateResource, the metadata left out.
generateData(folder, r) == <<r, FALSE>>

\* The resource, and whether the metadata of its meta file was added.
generateResource(folder, r) ==
  <<r, [resource |-> r, meta |-> TRUE] \in Template[folder]>>

Folders == DOMAIN Template
TemplateRoot == CHOOSE f \in Folders : \A g \in Folders : f \notin groupLinks(g)

\* parseFolder: the folders that are open, the innermost first, each with the
\* resources that are left of it.  Finished ones are dropped.
Opened(stack) ==
  LET left == {i \in DOMAIN stack : stack[i].left # {}}
  IN  IF left = {} THEN <<>>
      ELSE SubSeq(stack, CHOOSE i \in left : \A j \in left : i <= j, Len(stack))

parseFolder(stack, r) ==
  LET here == [Head(stack) EXCEPT !.left = @ \ {r}]
      open == IF r \in Folders THEN <<[folder |-> r, left |-> groupLinks(r)], here>> ELSE <<here>>
  IN  Opened(open \o Tail(stack))

\* The metadata of a folder is a file inside of it.
Generated(folder, r) == generateResource(IF r \in Folders THEN r ELSE folder, r)

\* All that there is in the template, whatever the order it is read in.
Files == UNION {Template[f] : f \in Folders}
Resources == {TemplateRoot} \cup {f.resource : f \in Files}

WholeTemplate ==
  {<<r, [resource |-> r, meta |-> TRUE] \in Files>> : r \in Resources}

\* The folders down to a resource, and it.
Path[r \in Resources] ==
  {r} \cup UNION {Path[f] : f \in {g \in Folders : r \in groupLinks(g)}}

\* Folders form a tree, and what describes a folder lies inside of it.
ASSUME TemplateAssumption ==
  /\ TemplateRoot \in Folders /\ Folders \subseteq Resources
  /\ \A f, g \in Folders :
       /\ f = g \/ groupLinks(f) \cap groupLinks(g) = {}
       /\ [resource |-> g, meta |-> TRUE] \in Template[f] => f = g
  /\ \A r \in Resources : /\ TemplateRoot \in Path[r]
                           /\ \A f \in Path[r] \ {r} : f \in Folders /\ groupLinks(f) \cap Path[r] # {}

\* addGeneratedResources: every resource is stored before the next is made.
addGeneratedResources(c, pod) ==
  LET top == Head(todo[c]) IN
  \E r \in top.left :
    \/ /\ HasLink(top.folder, r) \/ r = TemplateRoot
       /\ contents' = [contents EXCEPT ![pod] =
            {x \in @ : x[1][1] # r} \cup {<<Generated(top.folder, r), c>>}]
       /\ todo' = [todo EXCEPT ![c] = parseFolder(@, r)]
       /\ Go(c, IF todo'[c] = <<>> THEN "added" ELSE "adding")
    \* No template, no link, or the store does not take it.
    \/ todo' = [todo EXCEPT ![c] = <<>>] /\ Go(c, "podFailed") /\ UNCHANGED contents

StartGenerating(c) ==
  todo' = [todo EXCEPT ![c] = <<[folder |-> TemplateRoot, left |-> {TemplateRoot}]>>]

-----------------------------------------------------------------------------
(* GeneratedPodManager, called by a registration.                          *)

createPod(c) ==
  /\ pc[c] = "createPod" /\ Is(c, "register")
  /\ \/ contents[PodFor(c)] = {} /\ StartGenerating(c) /\ Go(c, "adding")
     \/ contents[PodFor(c)] # {} /\ Go(c, "podFailed") /\ UNCHANGED todo
  /\ UNCHANGED <<contents, config, torn, routing, initLeft>>

addToPod(c) ==
  /\ pc[c] = "adding" /\ addGeneratedResources(c, PodFor(c))
  /\ UNCHANGED <<config, torn, routing, initLeft>>

-----------------------------------------------------------------------------
(* ConfigPodManager.                                                       *)

\* Nobody has the write lock of the JSON file.
Unlocked == \A c \in Workload : pc[c] # "writing"

\* TemplatedPodGenerator.generate: there has to be a template (400), and no
\* pod with the identifier yet (409).
generateStore(c) ==
  /\ At(c, "dynamicPod") /\ Unlocked
  /\ Go(c, IF Input[c].template = "none" \/ PodFor(c) \in DOMAIN config
           THEN "failed" ELSE "variables")
  /\ UNCHANGED podVars

\* RootFilePathHandler: no folder of that name may exist (409); then the name
\* of the template is checked (400), and Components.js makes the store.
instantiate(c) ==
  /\ pc[c] = "variables"
  /\ Go(c, IF contents[PodFor(c)] # {} \/ Input[c].template = "unsafe"
           THEN "failed" ELSE "store")
  /\ UNCHANGED podVars

\* The variables that are kept: what the pod's base URL is, and its template.
Variables(c) == [baseUrl |-> PodFor(c), templateConfig |-> Input[c].template]

\* JsonFileStorage.set: read the file, then write all of it, under a lock.
updateJsonSafely(c) ==
  /\ pc[c] = "store" /\ Unlocked /\ ~torn
  /\ torn' = TRUE /\ Go(c, "writing")
  /\ UNCHANGED <<contents, config, routing, todo, initLeft>>

\* storedConfig, the variables not kept.
forgetConfig(c) ==
  /\ pc[c] = "writing"
  /\ torn' = FALSE /\ StartGenerating(c) /\ Go(c, "adding")
  /\ UNCHANGED <<contents, config, routing, initLeft>>

storedConfig(c) ==
  /\ pc[c] = "writing"
  /\ config' = Set(config, PodFor(c), Variables(c))
  /\ torn' = FALSE /\ StartGenerating(c) /\ Go(c, "adding")
  /\ UNCHANGED <<contents, routing, initLeft>>

addToRouting(c) ==
  /\ pc[c] = "added" /\ Is(c, "dynamicPod")
  /\ routing' = Set(routing, PodFor(c), PodFor(c)) /\ Go(c, "done")
  /\ UNCHANGED <<contents, config, torn, todo, initLeft>>

failedPod(c) ==
  /\ pc[c] = "podFailed" /\ Is(c, "dynamicPod") /\ Go(c, "failed")
  /\ UNCHANGED podVars

-----------------------------------------------------------------------------
(* ConfigPodInitializer and BaseUrlRouterRule.                             *)

\* A file that cannot be parsed ends the start of the server.
readConfig ==
  /\ phase = "off" /\ phase' = IF torn THEN "down" ELSE "starting"
  /\ initLeft' = IF torn THEN {} ELSE DOMAIN config
  /\ UNCHANGED <<pc, restarts, contents, config, torn, routing, todo>>

initialize(pod) ==
  /\ phase = "starting" /\ pod \in initLeft
  /\ routing' = Set(routing, pod, config[pod].baseUrl)
  /\ initLeft' = initLeft \ {pod}
  /\ UNCHANGED <<callVars, contents, config, torn, todo>>

listen ==
  /\ phase = "starting" /\ initLeft = {} /\ phase' = "up"
  /\ UNCHANGED <<pc, restarts, podVars>>

\* The first key that the identifier starts with, in whatever order they are
\* stored; without one, and no base store, 404.
findStore(r) == {routing[p] : p \in Within[r] \cap DOMAIN routing}

route(c) ==
  /\ At(c, "route")
  /\ \/ findStore(Input[c].resource) = {} /\ Go(c, "none")
     \/ findStore(Input[c].resource) # {} /\ Go(c, "done")
  /\ UNCHANGED podVars

PodStep(c) ==
  \/ addToPod(c) \/ createPod(c)
  \/ generateStore(c) \/ instantiate(c) \/ updateJsonSafely(c) \/ storedConfig(c)
  \/ addToRouting(c) \/ failedPod(c) \/ route(c)

PodCrash == routing' = Empty /\ todo' = [c \in Workload |-> <<>>] /\ initLeft' = {}
            /\ UNCHANGED <<contents, config, torn>>
=============================================================================
