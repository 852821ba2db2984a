---------------------------- MODULE Accounts_proofs ----------------------------
(***************************************************************************)
(* Proofs about accounts and pods, for any template and any calls: types,  *)
(* that the pods of a configuration are found again, and that an account   *)
(* that can be used is complete.                                           *)
(***************************************************************************)
EXTENDS Identity_proofs, SequenceTheorems, WellFoundedInduction

-----------------------------------------------------------------------------
(* Pods.                                                                   *)

\* A resource that is in a pod, and what is still to be made of it.
IsMade(pod, r) == \E x \in contents[pod] : x[1][1] = r
Pending(stack) == UNION {stack[i].left : i \in DOMAIN stack}

AllMade(pod) == \A r \in Resources : IsMade(pod, r)

\* The folders that are open, with resources of their own.
StackIsRight(stack) ==
  /\ stack \in Seq([folder : Folders, left : SUBSET Resources])
  /\ \A i \in DOMAIN stack : \/ stack[i].left \subseteq groupLinks(stack[i].folder)
                             \/ stack[i].left = {TemplateRoot}

\* Forms are valid, and pods are made where they are asked for.
FormIsRight(c) ==
  /\ Is(c, "register") /\ pc[c] \notin {"idle", "failed", "crashed"} => validateInput(Input[c])
  /\ Is(c, "register") /\ pc[c] \in {"createPod", "adding", "added", "podFailed"} => Input[c].createPod
  /\ pc[c] \in {"create", "hash", "verify", "verified"} => Input[c].register

\* The call has finished the pod.
HasPod(c) ==
  \/ pc[c] = "added"
  \/ Is(c, "dynamicPod") /\ pc[c] = "done"
  \/ Is(c, "register") /\ Input[c].createPod /\ pc[c] \in {"verify", "verified", "done"}

\* What is not made is in a folder that is open.
PodIsRight(c) ==
  /\ pc[c] = "adding" <=> todo[c] # <<>>
  /\ pc[c] = "adding" =>
       /\ StackIsRight(todo[c])
       /\ \A r \in Resources : IsMade(PodFor(c), r) \/ Path[r] \cap Pending(todo[c]) # {}
  /\ HasPod(c) => AllMade(PodFor(c))
  /\ Is(c, "dynamicPod") /\ pc[c] \in {"adding", "added", "done"} => PodFor(c) \in DOMAIN config

PodTypes ==
  /\ DOMAIN todo = Workload /\ DOMAIN contents = PodIds
  /\ \A p \in PodIds : contents[p] \subseteq WholeTemplate \X Workload
  /\ DOMAIN config \subseteq PodIds /\ \A p \in DOMAIN config : config[p].baseUrl = p
  /\ DOMAIN routing \subseteq PodIds /\ \A p \in DOMAIN routing : routing[p] = p
  /\ initLeft \subseteq DOMAIN config /\ torn \in BOOLEAN

\* Calls run while the server is up; then the routing has all acknowledged pods.
ServerIsRight ==
  /\ phase \in {"off", "starting", "up", "down"} /\ restarts \in 0 .. MaxRestarts
  /\ \A c \in Workload : Running(c) => phase = "up"
  /\ phase = "starting" => DOMAIN config \subseteq initLeft \cup DOMAIN routing
  /\ phase = "up" =>
       \A c \in Workload : Is(c, "dynamicPod") /\ pc[c] = "done" => PodFor(c) \in DOMAIN routing

PodsInv ==
  /\ PodTypes /\ ServerIsRight
  /\ \A c \in Workload : FormIsRight(c) /\ PodIsRight(c)

\* The resources in a pod are of the one call that makes it, or made it.
MakesPod(c) == Is(c, "dynamicPod") \/ (Is(c, "register") /\ Input[c].podName # "none")

OwnPod(c) ==
  /\ pc[c] \in {"store", "writing"} => contents[PodFor(c)] = {}
  /\ pc[c] = "adding" \/ HasPod(c) => \A x \in contents[PodFor(c)] : x[2] = c

PodsAreOwn ==
  \A c \in Workload : MakesPod(c) /\ PodFor(c) \notin overlapping => OwnPod(c)

-----------------------------------------------------------------------------
(* Accounts.                                                               *)

Passwords == {Input[c].password : c \in {d \in Calls : Kind[d] \in {"register", "reset"}}}
AccountSet == [webId : WebIds, password : Passwords, verified : BOOLEAN]

\* What a call has read, whatever others do.
ReadsAreRight(c) ==
  /\ pc[c] \in {"hash", "verified", "deleteRecord", "changePassword", "setPassword"} =>
       address[c] = EmailOf(c)
  /\ pc[c] \in {"verified", "setPassword"} => account[c] \in AccountSet
  /\ pc[c] \in {"owner", "expired", "setToken", "fetch", "deleteToken"} => ~Input[c].createWebId

Emails == {EmailOf(c) : c \in {d \in Calls : Kind[d] \in {"register", "reset"}}}

AccountTypes ==
  /\ DOMAIN accounts \cup DOMAIN acked \subseteq Emails
  /\ DOMAIN address = Workload /\ DOMAIN account = Workload
  /\ \A e \in DOMAIN accounts : accounts[e] \in AccountSet
  /\ DOMAIN records \subseteq Calls /\ \A l \in DOMAIN records : records[l] = Input[l].email
  /\ \A c \in Workload : ReadsAreRight(c)
  /\ DOMAIN tokens \subseteq WebIds

\* What the only call about an address knows of its account.
RegisterKnows(c, e) ==
  /\ pc[c] = "hash" => e \notin DOMAIN accounts \cup DOMAIN acked
  /\ pc[c] \in {"createPod", "adding", "added", "podFailed", "verify", "verified"} =>
       e \in DOMAIN accounts \ DOMAIN acked /\ accounts[e] = NewAccount(c)
  /\ pc[c] = "verified" => account[c] = NewAccount(c)

ResetKnows(c, e) ==
  pc[c] = "setPassword" => e \in DOMAIN accounts /\ account[c] = accounts[e]

\* The registration that an account which can be used is of.
AccountIsOf(c, e) ==
  Registers(c) /\ EmailOf(c) = e /\ pc[c] = "done" /\ accounts[e].webId = webIdFor(c)

AddressIsRight(e) ==
  /\ e \in DOMAIN acked =>
       /\ e \in DOMAIN accounts /\ accounts[e].password = Input[acked[e]].password
       /\ Registers(acked[e]) => accounts[e].verified
  /\ e \in DOMAIN accounts /\ accounts[e].verified => \E c \in Workload : AccountIsOf(c, e)
  /\ \A c \in Workload : /\ Registers(c) /\ EmailOf(c) = e => RegisterKnows(c, e)
                         /\ Is(c, "reset") /\ EmailOf(c) = e => ResetKnows(c, e)

AccountsInv ==
  /\ AccountTypes
  /\ \A e \in Emails \ overlapping : AddressIsRight(e)

\* What the library has stored.
EntryTypes ==
  \A key \in DOMAIN entries :
    entries[key].expires \in {"never"} \cup Calls /\ entries[key].value # {}

StorageTypes ==
  /\ EntryTypes
  /\ \A c \in Workload : pc[c] = "consume" => found[c] # {}
  /\ passed \subseteq Made /\ DOMAIN found = Workload

-----------------------------------------------------------------------------
(* The template and the stack of open folders.                             *)

\* A set of indices has a least one.
LEMMA LeastIndex ==
  ASSUME NEW T, T \subseteq Nat, T # {}
  PROVE  \E i \in T : \A j \in T : i <= j
<1> DEFINE R == {p \in Nat \X Nat : p[1] < p[2]}
<1>1. IsWellFoundedOn(R, Nat)
  BY NatLessThanWellFounded DEF OpToRel
<1>2. \A i, j \in Nat : <<j, i>> \in R \/ i <= j
  OBVIOUS
<1> HIDE DEF R
<1>3. PICK i \in T : \A j \in T : ~(<<j, i>> \in R)
  BY <1>1, WFMin
<1>4. QED
  BY <1>2, <1>3

\* Dropping finished folders keeps what is to be done.
LEMMA OpenedEffect ==
  ASSUME NEW S, NEW stack \in Seq(S)
  PROVE  /\ Opened(stack) \in Seq(S) /\ Pending(Opened(stack)) = Pending(stack)
         /\ \A i \in DOMAIN Opened(stack) : \E j \in DOMAIN stack : Opened(stack)[i] = stack[j]
<1> DEFINE unfinished == {i \in DOMAIN stack : stack[i].left # {}}
<1>1. CASE unfinished = {}
  <2>1. Opened(stack) = <<>>
    BY <1>1 DEF Opened
  <2>2. Pending(stack) = {} 
    BY <1>1 DEF Pending
  <2>3. Pending(<<>>) = {} 
    BY DEF Pending
  <2>. QED
    BY <2>1, <2>2, <2>3
<1>2. CASE unfinished # {}
  <2> DEFINE m == CHOOSE i \in unfinished : \A j \in unfinished : i <= j
  <2>1. unfinished \subseteq Nat
    OBVIOUS
  <2>2. m \in unfinished /\ \A j \in unfinished : m <= j
    BY <1>2, <2>1, LeastIndex
  <2>3. Opened(stack) = SubSeq(stack, m, Len(stack))
    BY <1>2 DEF Opened
  <2>4. m \in 1 .. Len(stack) /\ \A j \in 1 .. Len(stack) : stack[j].left # {} => m <= j
    BY <2>2
  <2> HIDE DEF m, unfinished
  <2>5. /\ SubSeq(stack, m, Len(stack)) \in Seq(S)
        /\ Len(SubSeq(stack, m, Len(stack))) = Len(stack) - m + 1
        /\ \A i \in 1 .. (Len(stack) - m + 1) : SubSeq(stack, m, Len(stack))[i] = stack[m + i - 1]
    BY <2>4
  <2>6. Pending(Opened(stack)) = Pending(stack)
    <3>1. ASSUME NEW j \in 1 .. Len(stack), stack[j].left # {}
          PROVE  j - m + 1 \in DOMAIN Opened(stack) /\ Opened(stack)[j - m + 1] = stack[j]
      BY <2>3, <2>4, <2>5, <3>1
    <3>2. \A i \in DOMAIN Opened(stack) : m + i - 1 \in DOMAIN stack /\ Opened(stack)[i] = stack[m + i - 1]
      BY <2>3, <2>4, <2>5
    <3>3. QED
      BY <3>1, <3>2 DEF Pending
  <2>7. QED
    BY <2>3, <2>4, <2>5, <2>6
<1>3. QED
  BY <1>1, <1>2

\* What is in a folder is a resource of the template.
LEMMA LinksAreResources ==
  ASSUME NEW f \in Folders
  PROVE  groupLinks(f) \subseteq Resources
  BY DEF groupLinks, Resources, Files

\* A resource is made with the metadata that the template has for it.
LEMMA GeneratedIsWhole ==
  ASSUME NEW f \in Folders, NEW r \in Resources, r \in groupLinks(f) \/ r = TemplateRoot
  PROVE  Generated(f, r) \in WholeTemplate /\ Generated(f, r)[1] = r
<1> DEFINE meta == [resource |-> r, meta |-> TRUE]
           g == IF r \in Folders THEN r ELSE f
<1>1. ASSUME meta \in Files
      PROVE  meta \in Template[g]
  <2>1. PICK h \in Folders : meta \in Template[h]
    BY <1>1 DEF Files
  <2>2. CASE r \in Folders
    BY <2>1, <2>2, TemplateAssumption
  <2>3. CASE r \notin Folders
    <3>1. r # h /\ r \in groupLinks(h)
      BY <2>1, <2>3 DEF groupLinks
    <3>2. h = f
      BY <2>1, <2>3, <3>1, TemplateAssumption
    <3> QED
      BY <2>1, <2>3, <3>2
  <2> QED
    BY <2>2, <2>3
<1>2. meta \in Template[g] => meta \in Files
  BY TemplateAssumption DEF Files
<1>3. Generated(f, r) = <<r, meta \in Template[g]>>
  BY Zenon DEF Generated, generateResource
<1>4. (meta \in Template[g]) = (meta \in Files)
  BY <1>1, <1>2
<1>5. Generated(f, r) = <<r, meta \in Files>>
  BY <1>3, <1>4, Zenon
<1>6. Generated(f, r) \in WholeTemplate
  BY <1>5, Zenon DEF WholeTemplate
<1>7. \A b : <<r, b>>[1] = r
  OBVIOUS
<1>8. Generated(f, r)[1] = r
  BY <1>5, <1>7, Zenon
<1> QED
  BY <1>6, <1>8

\* When a resource is made, what else was to be made still is, and what is in it.
LEMMA ParseFolderEffect ==
  ASSUME NEW stack, StackIsRight(stack), stack # <<>>, NEW r \in Head(stack).left
  PROVE  /\ r \in Resources /\ Head(stack).folder \in Folders
         /\ r \in groupLinks(Head(stack).folder) \/ r = TemplateRoot
         /\ StackIsRight(parseFolder(stack, r))
         /\ Pending(stack) \subseteq {r} \cup Pending(parseFolder(stack, r))
         /\ r \in Folders => groupLinks(r) \subseteq Pending(parseFolder(stack, r))
<1> DEFINE S == [folder : Folders, left : SUBSET Resources]
           here == [Head(stack) EXCEPT !.left = @ \ {r}]
<1> HIDE DEF S
<1>0. stack \in Seq(S)
  BY DEF StackIsRight, S
<1>1. stack \in Seq(S) /\ Head(stack) \in S /\ Head(stack) = stack[1] /\ 1 \in DOMAIN stack
  BY <1>0
<1>2. /\ r \in Resources /\ Head(stack).folder \in Folders
      /\ r \in groupLinks(Head(stack).folder) \/ r = TemplateRoot
  BY <1>1 DEF StackIsRight, S
<1>3. here \in S /\ here.folder = Head(stack).folder /\ here.left = Head(stack).left \ {r}
  BY <1>1 DEF S
<1> HIDE DEF here
<1> DEFINE opened == [folder |-> r, left |-> groupLinks(r)]
           front == IF r \in Folders THEN <<opened, here>> ELSE <<here>>
           new == front \o Tail(stack)
<1>4. r \in Folders => opened \in S /\ opened.folder = r /\ opened.left = groupLinks(r)
  BY LinksAreResources DEF S
<1> HIDE DEF opened
<1>5. /\ new \in Seq(S)
      /\ \A i \in DOMAIN new : \/ r \in Folders /\ new[i] = opened
                               \/ new[i] = here \/ \E j \in DOMAIN stack : new[i] = stack[j]
      /\ \A j \in DOMAIN stack : j # 1 => \E i \in DOMAIN new : new[i] = stack[j]
      /\ \E i \in DOMAIN new : new[i] = here
      /\ r \in Folders => \E i \in DOMAIN new : new[i] = opened
  <2>1. Tail(stack) \in Seq(S) /\ Len(Tail(stack)) = Len(stack) - 1
        /\ \A j \in 1 .. Len(stack) - 1 : Tail(stack)[j] = stack[j + 1]
    BY <1>1
  <2>2. /\ front \in Seq(S) /\ Len(front) \in {1, 2} /\ front[Len(front)] = here
        /\ r \in Folders => front[1] = opened
        /\ \A i \in 1 .. Len(front) : front[i] = here \/ (r \in Folders /\ front[i] = opened)
    <3>1. CASE r \in Folders
      BY <1>3, <1>4, <3>1
    <3>2. CASE r \notin Folders
      BY <1>3, <3>2
    <3> QED
      BY <3>1, <3>2
  <2> HIDE DEF front
  <2>3. /\ new \in Seq(S) /\ Len(new) = Len(front) + Len(stack) - 1
        /\ \A i \in 1 .. Len(new) :
             new[i] = IF i <= Len(front) THEN front[i] ELSE Tail(stack)[i - Len(front)]
    BY <1>1, <2>1, <2>2, ConcatProperties
  <2> HIDE DEF new
  <2>4. ASSUME NEW i \in DOMAIN new, i \notin 1 .. Len(front)
        PROVE  \E j \in DOMAIN stack : new[i] = stack[j]
    <3>1. i - Len(front) \in 1 .. Len(stack) - 1 /\ i - Len(front) + 1 \in DOMAIN stack
      BY <1>1, <2>2, <2>3, <2>4
    <3>2. new[i] = Tail(stack)[i - Len(front)]
      BY <2>2, <2>3, <2>4
    <3> QED
      BY <2>1, <3>1, <3>2
  <2>5. ASSUME NEW j \in DOMAIN stack, j # 1
        PROVE  \E i \in DOMAIN new : new[i] = stack[j]
    <3>0. j - 1 \in 1 .. Len(stack) - 1 /\ j = (j - 1) + 1
      BY <1>1, <2>5
    <3>1. PICK k \in 1 .. Len(stack) - 1 : j = k + 1
      BY <3>0
    <3>2. Tail(stack)[k] = stack[j]
      BY <2>1, <3>1
    <3>3. k \in Int /\ Len(front) \in Int /\ Len(stack) \in Int
      BY <1>1, <2>2
    <3>4. k + Len(front) \in 1 .. Len(new) /\ ~(k + Len(front) <= Len(front))
          /\ (k + Len(front)) - Len(front) = k
      BY <2>2, <2>3, <3>1, <3>3
    <3>5. new[k + Len(front)] = Tail(stack)[k]
      BY <2>3, <3>4
    <3> QED
      BY <2>3, <3>2, <3>4, <3>5
  <2>6. \A i \in 1 .. Len(front) : i \in DOMAIN new /\ new[i] = front[i]
    BY <1>1, <2>2, <2>3
  <2> QED
    BY <2>2, <2>3, <2>4, <2>5, <2>6
<1>6. parseFolder(stack, r) = Opened(new)
  BY DEF parseFolder, here, opened
<1> HIDE DEF front, new
<1>7. /\ Opened(new) \in Seq(S) /\ Pending(Opened(new)) = Pending(new)
      /\ \A i \in DOMAIN Opened(new) : \E j \in DOMAIN new : Opened(new)[i] = new[j]
  BY <1>5, OpenedEffect
<1>8. ASSUME NEW i \in DOMAIN new
      PROVE  new[i].left \subseteq groupLinks(new[i].folder) \/ new[i].left = {TemplateRoot}
  <2>1. CASE r \in Folders /\ new[i] = opened
    BY <1>4, <2>1
  <2>2. CASE new[i] = here
    BY <1>1, <1>3, <2>2 DEF StackIsRight
  <2>3. CASE \E j \in DOMAIN stack : new[i] = stack[j]
    BY <2>3 DEF StackIsRight
  <2> QED
    BY <1>5, <2>1, <2>2, <2>3
<1>9. StackIsRight(Opened(new))
  BY <1>7, <1>8 DEF StackIsRight, S
<1>10. Pending(stack) \subseteq {r} \cup Pending(new)
  <2>1. ASSUME NEW j \in DOMAIN stack, NEW x \in stack[j].left, x # r
        PROVE  \E i \in DOMAIN new : x \in new[i].left
    <3>1. CASE j = 1
      BY <1>1, <1>3, <1>5, <2>1, <3>1
    <3>2. CASE j # 1
      BY <1>5, <2>1, <3>2
    <3> QED
      BY <3>1, <3>2
  <2> QED
    BY <2>1 DEF Pending
<1>11. r \in Folders => groupLinks(r) \subseteq Pending(new)
  BY <1>4, <1>5 DEF Pending
<1>12. QED
  BY <1>2, <1>6, <1>7, <1>9, <1>10, <1>11

-----------------------------------------------------------------------------
(* The pods stay right.                                                    *)

\* Nothing that was made is lost.
KeepsMade == \A pod, r : IsMade(pod, r) => IsMade(pod, r)'

\* A call that waits, or has ended, keeps its pod.
LEMMA PodStaysRight ==
  ASSUME NEW d, PodIsRight(d), KeepsMade, DOMAIN config \subseteq DOMAIN config',
         pc'[d] = pc[d], todo'[d] = todo[d]
  PROVE  PodIsRight(d)'
<1>1. PodFor(d)' = PodFor(d) /\ (HasPod(d)' <=> HasPod(d))
  BY DEF PodFor, generate, HasPod, Is
<1>2. AllMade(PodFor(d)) => AllMade(PodFor(d))'
  BY DEF AllMade, KeepsMade, PodFor, generate
<1>3. pc[d] = "adding" =>
        \A r \in Resources : IsMade(PodFor(d), r)' \/ Path[r] \cap Pending(todo[d]) # {}
  BY DEF PodIsRight, KeepsMade, PodFor, generate
<1> QED
  BY <1>1, <1>2, <1>3 DEF PodIsRight, Is

\* A call goes on while the others wait.
LEMMA PodsGoOn ==
  ASSUME PodsInv, NEW c \in Active, GoesOn(c), UNCHANGED <<phase, restarts>>, phase = "up",
         \A d \in Workload \ {c} : todo'[d] = todo[d],
         KeepsMade, PodTypes', FormIsRight(c)', PodIsRight(c)',
         DOMAIN config \subseteq DOMAIN config', DOMAIN routing \subseteq DOMAIN routing',
         Is(c, "dynamicPod") /\ pc'[c] = "done" => PodFor(c) \in DOMAIN routing'
  PROVE  PodsInv'
<1>1. Workload' = Workload /\ \A d \in Workload \ {c} : pc'[d] = pc[d]
  BY DEF GoesOn
<1>2. \A d \in Workload \ {c} : FormIsRight(d)' /\ PodIsRight(d)'
  BY <1>1, PodStaysRight DEF PodsInv, FormIsRight, Is
<1>3. ServerIsRight'
  BY <1>1 DEF PodsInv, ServerIsRight, PodFor, generate, Is
<1> QED
  BY <1>1, <1>2, <1>3 DEF PodsInv

\* A call that has nothing to do with the pods goes on.
LEMMA PodsWait ==
  ASSUME PodsInv, NEW c \in Active, GoesOn(c), UNCHANGED <<phase, restarts, podVars>>, phase = "up",
         pc[c] # "adding", pc'[c] # "adding", HasPod(c)' => HasPod(c), FormIsRight(c)',
         Is(c, "dynamicPod") => pc'[c] \notin {"added", "done"}
  PROVE  PodsInv'
<1>1. /\ UNCHANGED <<contents, config, torn, routing, todo, initLeft>>
      /\ Workload' = Workload /\ c \in Workload
  BY DEF podVars, GoesOn, Active
<1>2. KeepsMade
  BY <1>1 DEF KeepsMade, IsMade
<1>3. PodTypes'
  BY <1>1 DEF PodsInv, PodTypes
<1>4. AllMade(PodFor(c)) => AllMade(PodFor(c))'
  BY <1>2 DEF AllMade, KeepsMade, PodFor, generate
<1>5. PodIsRight(c)'
  BY <1>1, <1>4 DEF PodsInv, PodIsRight, PodFor, generate, Is
<1> QED
  BY <1>1, <1>2, <1>3, <1>5, PodsGoOn

\* Calls go on in a server that is up; a call knows its pod.
LEMMA PodIsKnown ==
  ASSUME PodsInv, StepsAreRight, NEW c \in Active
  PROVE  /\ c \in Workload /\ c \in Calls /\ (pc[c] # "idle" => phase = "up")
         /\ Is(c, "dynamicPod") \/ pc[c] \in {"createPod", "adding", "added", "podFailed"}
              => PodFor(c) \in PodIds
<1>1. c \in Workload /\ c \in Calls /\ StepIsRight(c)
  BY DEF StepsAreRight, Active
<1>2. pc[c] # "idle" => Running(c)
  BY DEF Active, Running
<1>3. pc[c] \in {"createPod", "adding", "added", "podFailed"} =>
        Is(c, "dynamicPod") \/ (Is(c, "register") /\ validateInput(Input[c]) /\ Input[c].createPod)
  BY <1>1 DEF PodsInv, FormIsRight, StepIsRight
<1> QED
  BY <1>1, <1>2, <1>3, InputsAssumption DEF PodsInv, ServerIsRight, Is

\* A resource is made, or the making has failed.
LEMMA AddingKeepsPods ==
  ASSUME PodsInv, StepsAreRight, NEW c \in Active, addToPod(c)
  PROVE  PodsInv'
<1> DEFINE pod == PodFor(c)
           stack == todo[c]
<1>1. /\ c \in Workload /\ pod \in PodIds /\ phase = "up" /\ pc[c] = "adding" /\ GoesOn(c)
      /\ StepIsRight(c) /\ UNCHANGED <<phase, restarts, config, torn, routing, initLeft>>
  <2>1. pc[c] = "adding" /\ StepIsRight(c)
    BY DEF addToPod, StepsAreRight, Active
  <2>2. GoesOn(c)
    BY <2>1, PodStepIsRight DEF PodStep
  <2> QED
    BY <2>1, <2>2, PodIsKnown DEF addToPod, addGeneratedResources, Go
<1>2. /\ StackIsRight(stack) /\ stack # <<>> /\ DOMAIN todo = Workload /\ DOMAIN contents = PodIds
      /\ \A r \in Resources : IsMade(pod, r) \/ Path[r] \cap Pending(stack) # {}
  BY <1>1 DEF PodsInv, PodTypes, PodIsRight
<1>3. ASSUME todo' = [todo EXCEPT ![c] = <<>>], pc' = [pc EXCEPT ![c] = "podFailed"], UNCHANGED contents
      PROVE  PodsInv'
  <2>1. /\ todo'[c] = <<>> /\ pc'[c] = "podFailed" /\ DOMAIN todo' = Workload /\ Workload' = Workload
        /\ \A d \in Workload \ {c} : todo'[d] = todo[d]
    BY <1>1, <1>2, <1>3 DEF Workload
  <2>2. KeepsMade
    BY <1>3 DEF KeepsMade, IsMade
  <2>3. PodTypes'
    BY <1>1, <1>3, <2>1 DEF PodsInv, PodTypes
  <2>4. FormIsRight(c)' /\ PodIsRight(c)'
    BY <1>1, <2>1 DEF PodsInv, FormIsRight, PodIsRight, HasPod, Is
  <2> QED
    BY <1>1, <2>1, <2>2, <2>3, <2>4, PodsGoOn
<1>4. ASSUME NEW r \in Head(stack).left,
             contents' = [contents EXCEPT ![pod] =
               {x \in @ : x[1][1] # r} \cup {<<Generated(Head(stack).folder, r), c>>}],
             todo' = [todo EXCEPT ![c] = parseFolder(@, r)],
             pc' = [pc EXCEPT ![c] = IF todo'[c] = <<>> THEN "added" ELSE "adding"]
      PROVE  PodsInv'
  <2> DEFINE rest == parseFolder(stack, r)
             one == <<Generated(Head(stack).folder, r), c>>
  <2>1. /\ r \in Resources /\ Head(stack).folder \in Folders
        /\ r \in groupLinks(Head(stack).folder) \/ r = TemplateRoot
        /\ StackIsRight(rest) /\ Pending(stack) \subseteq {r} \cup Pending(rest)
        /\ r \in Folders => groupLinks(r) \subseteq Pending(rest)
    BY <1>2, ParseFolderEffect
  <2>2. /\ todo'[c] = rest /\ pc'[c] = IF rest = <<>> THEN "added" ELSE "adding"
        /\ DOMAIN todo' = Workload /\ Workload' = Workload
        /\ \A d \in Workload \ {c} : todo'[d] = todo[d]
    BY <1>1, <1>2, <1>4 DEF Workload
  <2>3. one[1] \in WholeTemplate /\ one[1][1] = r /\ one[2] = c
    BY <2>1, GeneratedIsWhole
  <2>4. one \in WholeTemplate \X Workload
    BY <1>1, <2>3, GeneratedIsWhole, <2>1
  <2> HIDE DEF one, rest
  <2>5. /\ DOMAIN contents' = PodIds /\ contents'[pod] = {x \in contents[pod] : x[1][1] # r} \cup {one}
        /\ \A p \in PodIds \ {pod} : contents'[p] = contents[p]
    BY <1>1, <1>2, <1>4 DEF one
  <2>6. \A q : IsMade(pod, q)' <=> IsMade(pod, q) \/ q = r
    BY <2>3, <2>5 DEF IsMade, PodFor, generate
  <2>7. KeepsMade
    <3>1. ASSUME NEW p, NEW q, IsMade(p, q), p # pod
          PROVE  IsMade(p, q)'
      BY <1>4, <1>2, <3>1 DEF IsMade
    <3> QED
      BY <2>6, <3>1 DEF KeepsMade
  <2>8. PodTypes'
    BY <1>1, <2>2, <2>4, <2>5 DEF PodsInv, PodTypes
  <2>9. ASSUME NEW q \in Resources
        PROVE  IsMade(pod, q)' \/ Path[q] \cap Pending(rest) # {}
    <3>1. CASE IsMade(pod, q) \/ q = r
      BY <2>6, <3>1
    <3>2. CASE ~IsMade(pod, q) /\ q # r
      <4>1. PICK f \in Path[q] : f \in Pending(stack)
        BY <1>2, <3>2
      <4>2. CASE f = r
        BY <2>1, <3>2, <4>1, <4>2, TemplateAssumption
      <4> QED
        BY <2>1, <4>1, <4>2
    <3> QED
      BY <3>1, <3>2
  <2>10. rest = <<>> => \A q \in Resources : IsMade(pod, q)'
    <3>1. Pending(<<>>) = {}
      BY DEF Pending
    <3> QED
      BY <2>9, <3>1
  <2>11. FormIsRight(c)'
    BY <1>1, <2>2 DEF PodsInv, FormIsRight, Is
  <2>12. PodFor(c)' = pod /\ (Is(c, "dynamicPod") => pod \in DOMAIN config')
    BY <1>1 DEF PodFor, generate, PodsInv, PodIsRight, Is
  <2>13. PodIsRight(c)'
    BY <1>1, <2>1, <2>2, <2>9, <2>10, <2>12 DEF PodIsRight, HasPod, AllMade, Is
  <2> QED
    BY <1>1, <2>2, <2>7, <2>8, <2>11, <2>13, PodsGoOn
<1>5. QED
  BY <1>1, <1>3, <1>4 DEF addToPod, addGeneratedResources, Go

\* The making of a pod begins with all of the template to be made.
LEMMA StartKeepsPods ==
  ASSUME PodsInv, StepsAreRight, NEW c \in Active, GoesOn(c), StartGenerating(c),
         pc'[c] = "adding", UNCHANGED <<phase, restarts>>, phase = "up", pc[c] # "idle",
         UNCHANGED <<contents, routing, initLeft>>,
         PodTypes', DOMAIN config \subseteq DOMAIN config',
         Is(c, "register") => Input[c].createPod,
         Is(c, "dynamicPod") => PodFor(c) \in DOMAIN config'
  PROVE  PodsInv'
<1> DEFINE first == <<[folder |-> TemplateRoot, left |-> {TemplateRoot}]>>
<1>1. /\ Workload' = Workload /\ c \in Workload /\ pc[c] \notin Outcomes
      /\ todo'[c] = first /\ \A d \in Workload \ {c} : todo'[d] = todo[d]
  BY DEF GoesOn, Active, PodsInv, PodTypes, StartGenerating
<1>2. first \in Seq([folder : Folders, left : SUBSET Resources])
  <2>1. [folder |-> TemplateRoot, left |-> {TemplateRoot}] \in [folder : Folders, left : SUBSET Resources]
    BY TemplateAssumption
  <2> QED
    BY <2>1
<1>3. first # <<>> /\ DOMAIN first = {1} /\ first[1].left = {TemplateRoot}
  OBVIOUS
<1>4. TemplateRoot \in Pending(first)
  BY <1>3 DEF Pending
<1>5. StackIsRight(first)
  BY <1>2, <1>3 DEF StackIsRight
<1> HIDE DEF first
<1>6. KeepsMade
  BY DEF KeepsMade, IsMade
<1>7. FormIsRight(c)'
  BY <1>1 DEF PodsInv, FormIsRight, Is, Outcomes
<1>8. PodIsRight(c)'
  <2>1. \A r \in Resources : TemplateRoot \in Path[r] \cap Pending(first)
    BY <1>4, TemplateAssumption
  <2> QED
    BY <1>1, <1>3, <1>5, <2>1 DEF PodIsRight, HasPod, Is, PodFor, generate
<1> QED
  BY <1>1, <1>6, <1>7, <1>8, PodsGoOn

\* The steps of the pod managers.
LEMMA PodStepKeepsPods ==
  ASSUME PodsInv, StepsAreRight, NEW c \in Active, PodStep(c)
  PROVE  PodsInv'
<1>1. /\ GoesOn(c) /\ StepIsRight(c) /\ StepIsRight(c)' /\ c \in Workload /\ pc[c] \notin Outcomes
      /\ FormIsRight(c) /\ PodIsRight(c) /\ PodTypes
  BY PodStepIsRight DEF StepsAreRight, Active, PodsInv
<1>2. phase = "up" /\ UNCHANGED <<phase, restarts>>
  <2>1. UNCHANGED <<phase, restarts>> /\ (pc[c] = "idle" => phase = "up")
    BY DEF PodStep, addToPod, addGeneratedResources, createPod, generateStore, instantiate,
       updateJsonSafely, storedConfig, addToRouting, failedPod, route, At, Go
  <2> QED
    BY <2>1, PodIsKnown
<1>3. CASE createPod(c)
  <2>1. /\ pc[c] = "createPod" /\ Is(c, "register") /\ Input[c].createPod
        /\ UNCHANGED <<contents, config, torn, routing, initLeft>>
    BY <1>1, <1>3 DEF createPod, FormIsRight
  <2>2. CASE StartGenerating(c) /\ Go(c, "adding")
    <3>1. PodTypes' /\ pc'[c] = "adding"
      BY <1>1, <2>1, <2>2 DEF PodTypes, StartGenerating, GoesOn, Go, Workload
    <3> QED
      BY <1>1, <1>2, <2>1, <2>2, <3>1, StartKeepsPods DEF Is
  <2>3. CASE Go(c, "podFailed") /\ UNCHANGED todo
    BY <1>1, <1>2, <2>1, <2>3, PodsWait DEF podVars, Go, Workload, HasPod, FormIsRight, Is
  <2> QED
    BY <1>3, <2>2, <2>3 DEF createPod
<1>4. CASE addToPod(c)
  BY <1>4, AddingKeepsPods
<1>5. CASE generateStore(c) \/ instantiate(c) \/ failedPod(c) \/ route(c)
  <2>1. /\ UNCHANGED podVars /\ pc[c] # "adding"
        /\ \/ Is(c, "dynamicPod") /\ pc'[c] \in {"failed", "variables", "store"}
           \/ Is(c, "route") /\ pc'[c] \in {"none", "done"}
    BY <1>1, <1>5 DEF generateStore, instantiate, failedPod, route, At, Go, StepIsRight, Workload
  <2> QED
    BY <1>1, <1>2, <2>1, PodsWait DEF HasPod, FormIsRight, Is
<1>6. CASE updateJsonSafely(c)
  <2>1. /\ UNCHANGED <<contents, config, routing, todo, initLeft>> /\ torn' \in BOOLEAN
        /\ pc[c] = "store" /\ pc'[c] = "writing" /\ Is(c, "dynamicPod")
    BY <1>1, <1>6 DEF updateJsonSafely, Go, StepIsRight, Workload
  <2>2. PodTypes' /\ KeepsMade
    BY <1>1, <2>1 DEF PodTypes, GoesOn, KeepsMade, IsMade
  <2>3. FormIsRight(c)' /\ PodIsRight(c)'
    BY <1>1, <2>1 DEF FormIsRight, PodIsRight, HasPod, Is
  <2> QED
    BY <1>1, <1>2, <2>1, <2>2, <2>3, PodsGoOn
<1>7. CASE storedConfig(c)
  <2>1. /\ StartGenerating(c) /\ Go(c, "adding") /\ UNCHANGED <<contents, routing, initLeft>>
        /\ torn' = FALSE /\ config' = Set(config, PodFor(c), Variables(c))
        /\ pc[c] = "writing" /\ pc'[c] = "adding" /\ Is(c, "dynamicPod")
    BY <1>1, <1>7 DEF storedConfig, Go, StepIsRight, Workload
  <2>2. /\ DOMAIN config' = DOMAIN config \cup {PodFor(c)} /\ PodFor(c) \in PodIds
        /\ \A p \in DOMAIN config' : config'[p] = IF p = PodFor(c) THEN Variables(c) ELSE config[p]
    BY <2>1, PodIsKnown DEF Set
  <2>3. DOMAIN todo' = Workload /\ Workload' = Workload
    BY <1>1, <2>1 DEF StartGenerating, GoesOn, PodTypes
  <2>4. Variables(c).baseUrl = PodFor(c)
    BY DEF Variables
  <2>5. PodTypes'
    BY <1>1, <2>1, <2>2, <2>3, <2>4 DEF PodTypes
  <2> QED
    BY <1>1, <1>2, <2>1, <2>2, <2>5, StartKeepsPods DEF Is
<1>8. CASE addToRouting(c)
  <2>1. /\ routing' = Set(routing, PodFor(c), PodFor(c)) /\ pc[c] = "added" /\ pc'[c] = "done"
        /\ Is(c, "dynamicPod") /\ UNCHANGED <<contents, config, torn, todo, initLeft>>
        /\ PodFor(c) \in PodIds
    BY <1>1, <1>8, PodIsKnown DEF addToRouting, Go, Workload
  <2>2. /\ DOMAIN routing' = DOMAIN routing \cup {PodFor(c)}
        /\ \A p \in DOMAIN routing' : routing'[p] = IF p = PodFor(c) THEN PodFor(c) ELSE routing[p]
    BY <2>1 DEF Set
  <2>3. PodTypes' /\ KeepsMade
    BY <1>1, <2>1, <2>2 DEF PodTypes, GoesOn, KeepsMade, IsMade
  <2>4. AllMade(PodFor(c)) => AllMade(PodFor(c))'
    BY <2>3 DEF AllMade, KeepsMade, PodFor, generate
  <2>5. FormIsRight(c)' /\ PodIsRight(c)'
    BY <1>1, <2>1, <2>4 DEF FormIsRight, PodIsRight, HasPod, Is, PodFor, generate
  <2> QED
    BY <1>1, <1>2, <2>1, <2>2, <2>3, <2>5, PodsGoOn
<1>9. QED
  BY <1>3, <1>4, <1>5, <1>6, <1>7, <1>8 DEF PodStep

\* The handlers of forms make pods only where valid forms ask for them.
LEMMA FormsStayRight ==
  ASSUME NEW c \in Active, StepIsRight(c), FormIsRight(c), AccountStep(c)
  PROVE  /\ FormIsRight(c)' /\ (HasPod(c)' => HasPod(c))
         /\ pc[c] # "adding" /\ pc'[c] # "adding" /\ ~Is(c, "dynamicPod")
         /\ UNCHANGED <<phase, restarts>> /\ (pc[c] = "idle" => phase = "up")
<1>1. c \in Workload /\ pc[c] \notin Outcomes
  BY DEF Active
<1> USE DEF Go, At, Is, FormIsRight, StepIsRight, HasPod, Workload, Outcomes
<1>2. CASE parseInput(c)
  BY <1>1, <1>2 DEF parseInput, AfterOwnership, validateInput
<1>3. CASE getToken(c) \/ deleteExpired(c) \/ setToken(c) \/ fetchDataset(c)
  BY <1>1, <1>3 DEF getToken, deleteExpired, setToken, fetchDataset
<1>4. CASE deleteToken(c)
  BY <1>1, <1>4 DEF deleteToken, AfterOwnership, validateInput
<1>5. CASE create(c) \/ created(c) \/ deleteAccount(c)
  BY <1>1, <1>5 DEF create, created, deleteAccount, Reads, Stores
<1>6. CASE podAdded(c) \/ verify(c) \/ verified(c)
  BY <1>1, <1>6 DEF podAdded, verify, verified, Reads, Stores
<1>7. CASE login(c) \/ compare(c) \/ forgot(c) \/ generateForgotPasswordRecord(c) \/ sendResetMail(c)
  BY <1>1, <1>7 DEF login, compare, forgot, generateForgotPasswordRecord, sendResetMail, Reads
<1>8. CASE reset(c) \/ deleteForgotPasswordRecord(c) \/ changePassword(c) \/ changedPassword(c)
  BY <1>1, <1>8 DEF reset, deleteForgotPasswordRecord, changePassword, changedPassword, Reads, Stores
<1> QED
  BY <1>2, <1>3, <1>4, <1>5, <1>6, <1>7, <1>8 DEF AccountStep

\* What the OIDC library does has nothing to do with pods.
LEMMA ProviderStepKeepsPods ==
  ASSUME PodsInv, StepsAreRight, NEW c \in Active, ProviderStep(c), UNCHANGED podVars
  PROVE  PodsInv'
<1>1. /\ GoesOn(c) /\ StepIsRight(c) /\ StepIsRight(c)' /\ Kind[c] \in ForProvider
  BY ProviderStepIsRight DEF StepsAreRight, Active
<1>2. UNCHANGED <<phase, restarts>> /\ (pc[c] = "idle" => phase = "up")
  <2>1. CASE removeExpiredEntries(c) \/ visit(c) \/ deleteOne(c)
    BY <2>1 DEF removeExpiredEntries, visit, deleteOne, Continue, Go, At
  <2>2. CASE upsert(c) \/ setPayload(c) \/ getGrants(c) \/ dropGrants(c) \/ setGrants(c) \/ setUid(c)
    BY <2>2 DEF upsert, setPayload, getGrants, dropGrants, setGrants, setUid, Upserting,
                Upserted, Continue, Go, At
  <2>3. CASE findByUid(c) \/ find(c) \/ consume(c) \/ destroy(c) \/ revokeByGrantId(c)
    BY <2>3 DEF findByUid, find, consume, destroy, revokeByGrantId, Continue, Go, At
  <2>4. CASE getProvider(c) \/ getJwks(c) \/ setJwks(c) \/ getCookieKeys(c)
             \/ setCookieKeys(c) \/ createProvider(c)
    BY <2>4 DEF getProvider, getJwks, setJwks, getCookieKeys, setCookieKeys, createProvider, Go, At
  <2> QED
    BY <2>1, <2>2, <2>3, <2>4 DEF ProviderStep
<1>3. phase = "up"
  BY <1>2, PodIsKnown
<1>4. ~Is(c, "dynamicPod") /\ ~Is(c, "register")
  BY <1>1 DEF ForProvider, Is
<1>5. pc[c] # "adding" /\ pc'[c] # "adding" /\ ~HasPod(c)' /\ FormIsRight(c)'
  BY <1>1, <1>4 DEF StepIsRight, FormIsRight, HasPod, Is
<1> QED
  BY <1>1, <1>2, <1>3, <1>4, <1>5, PodsWait

\* Where no call goes on, no pod changes.
LEMMA PodsRest ==
  ASSUME PodsInv, Workload' = Workload, contents' = contents, config' = config, torn' = torn,
         \A c \in Workload : pc'[c] = pc[c] \/ (Running(c) /\ pc'[c] = "crashed"),
         \A c \in Workload : todo'[c] = IF pc'[c] = pc[c] THEN todo[c] ELSE <<>>,
         DOMAIN todo' = Workload, DOMAIN routing' \subseteq PodIds,
         \A p \in DOMAIN routing' : routing'[p] = p,
         initLeft' \subseteq DOMAIN config, ServerIsRight'
  PROVE  PodsInv'
<1>1. PodTypes' /\ KeepsMade
  BY DEF PodsInv, PodTypes, KeepsMade, IsMade
<1>2. ASSUME NEW c \in Workload, pc'[c] = pc[c]
      PROVE  FormIsRight(c)' /\ PodIsRight(c)'
  BY <1>1, <1>2, PodStaysRight DEF PodsInv, FormIsRight, Is
<1>3. ASSUME NEW c \in Workload, pc'[c] = "crashed", pc'[c] # pc[c]
      PROVE  FormIsRight(c)' /\ PodIsRight(c)'
  BY <1>3 DEF PodsInv, FormIsRight, PodIsRight, HasPod, Is
<1> QED
  BY <1>1, <1>2, <1>3 DEF PodsInv

\* The server starts.
LEMMA StartsKeepPods ==
  ASSUME PodsInv, readConfig \/ (\E p \in PodIds : initialize(p)) \/ listen
  PROVE  PodsInv'
<1>1. /\ UNCHANGED <<pc, restarts, contents, config, torn, todo>> /\ Workload' = Workload
      /\ \A c \in Workload : pc'[c] = pc[c] /\ ~(Running(c)' /\ phase # "up")
  BY DEF readConfig, initialize, listen, callVars, podVars, Workload, PodsInv, ServerIsRight, Running
<1>2. CASE readConfig
  <2>1. /\ routing' = routing /\ phase = "off" /\ initLeft' \subseteq DOMAIN config
        /\ \/ phase' = "starting" /\ initLeft' = DOMAIN config
           \/ phase' = "down"
    BY <1>2 DEF readConfig
  <2>2. ServerIsRight'
    BY <1>1, <2>1 DEF PodsInv, ServerIsRight, Running
  <2> QED
    BY <1>1, <2>1, <2>2, PodsRest DEF PodsInv, PodTypes
<1>3. ASSUME NEW p \in PodIds, initialize(p)
      PROVE  PodsInv'
  <2>1. /\ phase = "starting" /\ phase' = phase /\ p \in initLeft /\ initLeft' = initLeft \ {p}
        /\ routing' = Set(routing, p, config[p].baseUrl) /\ config[p].baseUrl = p
    BY <1>3 DEF initialize, callVars, PodsInv, PodTypes
  <2>2. /\ DOMAIN routing' = DOMAIN routing \cup {p}
        /\ \A q \in DOMAIN routing' : routing'[q] = IF q = p THEN p ELSE routing[q]
    BY <2>1 DEF Set
  <2>3. ServerIsRight'
    BY <1>1, <2>1, <2>2 DEF PodsInv, ServerIsRight, Running
  <2> QED
    BY <1>1, <2>1, <2>2, <2>3, PodsRest DEF PodsInv, PodTypes
<1>4. CASE listen
  <2>1. phase = "starting" /\ initLeft = {} /\ phase' = "up" /\ UNCHANGED <<routing, initLeft>>
    BY <1>4 DEF listen, podVars
  <2>2. ServerIsRight'
    BY <1>1, <2>1 DEF PodsInv, ServerIsRight, PodIsRight, PodFor, generate, Is
  <2> QED
    BY <1>1, <2>1, <2>2, PodsRest DEF PodsInv, PodTypes
<1> QED
  BY <1>2, <1>3, <1>4

\* The server crashes.
LEMMA CrashKeepsPods ==
  ASSUME PodsInv, crash
  PROVE  PodsInv'
<1>1. /\ phase' = "off" /\ restarts' = restarts + 1 /\ restarts < MaxRestarts
      /\ pc' = [c \in Workload |-> IF Running(c) THEN "crashed" ELSE pc[c]]
      /\ routing' = Empty /\ todo' = [c \in Workload |-> <<>>] /\ initLeft' = {}
      /\ UNCHANGED <<contents, config, torn>>
  BY DEF crash, PodCrash
<1>2. Workload' = Workload /\ DOMAIN routing' = {} /\ DOMAIN todo' = Workload
  BY <1>1 DEF Workload, Empty
<1>3. \A c \in Workload : /\ ~Running(c)' /\ todo'[c] = <<>>
                          /\ pc'[c] = IF Running(c) THEN "crashed" ELSE pc[c]
  BY <1>1 DEF Workload, Running, Outcomes
<1>4. \A c \in Workload : pc'[c] = pc[c] => todo[c] = <<>>
  BY <1>3 DEF PodsInv, PodIsRight, Running, Outcomes
<1>5. ServerIsRight'
  BY <1>1, <1>2, <1>3, CallsAssumption DEF PodsInv, ServerIsRight
<1> QED
  BY <1>1, <1>2, <1>3, <1>4, <1>5, PodsRest

\* PodsInv is inductive.
LEMMA PodsStayRight ==
  ASSUME PodsInv, StepsAreRight, Step
  PROVE  PodsInv'
<1>1. ASSUME NEW c \in Active, AccountStep(c), UNCHANGED podVars
      PROVE  PodsInv'
  <2>1. GoesOn(c) /\ StepIsRight(c) /\ FormIsRight(c) /\ (pc[c] # "idle" => phase = "up")
    BY <1>1, AccountStepIsRight, PodIsKnown DEF StepsAreRight, PodsInv, Active
  <2> QED
    BY <1>1, <2>1, FormsStayRight, PodsWait
<1>2. ASSUME UNCHANGED podVars, UNCHANGED callVars
      PROVE  PodsInv'
  <2>1. UNCHANGED <<pc, phase, restarts, contents, config, torn, routing, todo, initLeft>>
        /\ Workload' = Workload
    BY <1>2 DEF podVars, callVars, Workload
  <2>2. ServerIsRight'
    BY <2>1 DEF PodsInv, ServerIsRight, Running
  <2> QED
    BY <2>1, <2>2, PodsRest DEF PodsInv, PodTypes
<1>3. \A c : expire(c) => UNCHANGED callVars
  BY DEF expire
<1> QED
  BY <1>1, <1>2, <1>3, PodStepKeepsPods, ProviderStepKeepsPods, StartsKeepPods, CrashKeepsPods DEF Step

-----------------------------------------------------------------------------
(* A pod is of the call that makes it.                                     *)

\* What a call makes a pod of is what it changes.
LEMMA PodIsChanged ==
  ASSUME NEW c, MakesPod(c)
  PROVE  PodFor(c) \in Changes(c)
BY DEF MakesPod, Changes, Is

\* A call that makes a pod was asked to.
LEMMA MakersMakePods ==
  ASSUME PodsInv, StepsAreRight, NEW c \in Active, PodStep(c), ~Is(c, "route")
  PROVE  MakesPod(c)
<1>1. StepIsRight(c) /\ FormIsRight(c) /\ (Is(c, "register") \/ Is(c, "dynamicPod"))
  BY PodStepIsRight DEF StepsAreRight, PodsInv, Active, ForPods, Is
<1>2. Is(c, "register") => pc[c] \in {"createPod", "adding"}
  BY <1>1 DEF PodStep, addToPod, createPod, generateStore, instantiate, updateJsonSafely,
     storedConfig, addToRouting, failedPod, route, StepIsRight, At, Is
<1> QED
  BY <1>1, <1>2 DEF MakesPod, FormIsRight, validateInput

\* Calls that make the same pod, and are not known to overlap, do not run together.
LEMMA MakersDoNotMeet ==
  ASSUME OverlapsAreKnown, NEW c \in Workload, NEW d \in Workload, c # d,
         MakesPod(c), MakesPod(d), PodFor(c) = PodFor(d), PodFor(c) \notin overlapping
  PROVE  ~(Running(c) /\ Running(d))
BY PodIsChanged DEF OverlapsAreKnown

\* A resource is made in a pod of one's own, and in no other that is in use.
LEMMA AddingKeepsPodsOwn ==
  ASSUME PodsInv, StepsAreRight, OverlapsAreKnown, PodsAreOwn, NEW d \in Active, addToPod(d),
         NEW c \in Workload, MakesPod(c), PodFor(c) \notin overlapping
  PROVE  OwnPod(c)'
<1>1. /\ d \in Workload /\ MakesPod(d) /\ pc[d] = "adding" /\ Running(d) /\ GoesOn(d)
      /\ Workload' = Workload /\ pc'[d] \in {"adding", "added", "podFailed"}
  <2>1. pc[d] = "adding" /\ StepIsRight(d) /\ d \in Workload /\ Running(d)
        /\ pc'[d] \in {"adding", "added", "podFailed"}
    BY DEF addToPod, addGeneratedResources, StepsAreRight, Active, Running, Outcomes, Go, Workload
  <2>2. MakesPod(d)
    BY <2>1, MakersMakePods DEF PodStep, StepIsRight, Is
  <2>3. GoesOn(d)
    BY <2>1, PodStepIsRight DEF PodStep
  <2> QED
    BY <2>1, <2>2, <2>3 DEF GoesOn
<1>2. /\ \A p : p # PodFor(d) => contents'[p] = contents[p]
      /\ \A x \in contents'[PodFor(d)] : x \in contents[PodFor(d)] \/ x[2] = d
  <2>1. DOMAIN contents = PodIds /\ PodFor(d) \in PodIds
    BY <1>1, PodIsKnown DEF PodsInv, PodTypes
  <2>2. ASSUME NEW r, contents' = [contents EXCEPT ![PodFor(d)] =
               {x \in @ : x[1][1] # r} \cup {<<Generated(Head(todo[d]).folder, r), d>>}]
        PROVE  /\ \A p : p # PodFor(d) => contents'[p] = contents[p]
               /\ \A x \in contents'[PodFor(d)] : x \in contents[PodFor(d)] \/ x[2] = d
    BY <2>1, <2>2
  <2> QED
    BY <2>2 DEF addToPod, addGeneratedResources
<1>3. PodFor(c)' = PodFor(c)
  BY DEF PodFor, generate
<1>4. CASE c = d
  <2>1. \A x \in contents[PodFor(c)] : x[2] = c
    BY <1>1, <1>4 DEF PodsAreOwn, OwnPod
  <2>2. \A x \in contents'[PodFor(c)] : x[2] = c
    BY <1>2, <1>4, <2>1
  <2> QED
    BY <1>1, <1>3, <1>4, <2>2 DEF OwnPod
<1>5. CASE c # d /\ PodFor(c) # PodFor(d)
  BY <1>1, <1>2, <1>3, <1>5 DEF PodsAreOwn, OwnPod, GoesOn, HasPod, Is
<1>6. CASE c # d /\ PodFor(c) = PodFor(d)
  <2>1. ~Running(c)
    BY <1>1, <1>6, MakersDoNotMeet
  <2>2. ~HasPod(c)
    <3>1. SUFFICES ASSUME HasPod(c) PROVE FALSE
      OBVIOUS
    <3>2. IsMade(PodFor(c), TemplateRoot)
      BY <3>1, TemplateAssumption DEF PodsInv, PodIsRight, AllMade
    <3>3. PICK x \in contents[PodFor(c)] : TRUE
      BY <3>2 DEF IsMade
    <3>4. x[2] = c /\ x[2] = d
      BY <1>1, <1>6, <3>1, <3>3 DEF PodsAreOwn, OwnPod
    <3> QED
      BY <1>6, <3>4
  <2>3. pc'[c] = pc[c] /\ pc[c] \in {"idle"} \cup Outcomes
    BY <1>1, <1>6, <2>1 DEF GoesOn, Running
  <2> QED
    BY <2>2, <2>3 DEF OwnPod, HasPod, Outcomes, Is
<1> QED
  BY <1>4, <1>5, <1>6

\* PodsAreOwn is inductive.
LEMMA PodsStayOwn ==
  ASSUME PodsInv, StepsAreRight, OverlapsAreKnown, PodsAreOwn, Step, Remember
  PROVE  PodsAreOwn'
<1>1. overlapping \subseteq overlapping' /\ Workload' = Workload
  BY StepsStayRight, CallsGoOn, OverlapsGrow
<1>2. ASSUME NEW c \in Workload, OwnPod(c), pc'[c] = pc[c], contents' = contents
      PROVE  OwnPod(c)'
  BY <1>2 DEF OwnPod, HasPod, Is, PodFor, generate
<1>3. SUFFICES ASSUME NEW c \in Workload, MakesPod(c), PodFor(c) \notin overlapping, OwnPod(c)
               PROVE  OwnPod(c)'
  BY <1>1 DEF PodsAreOwn, MakesPod, Is, PodFor, generate
<1>4. CASE crash
  <2>1. contents' = contents /\ pc'[c] \in {pc[c], "crashed"}
    BY <1>4 DEF crash, PodCrash, Workload
  <2>2. pc'[c] = "crashed" => OwnPod(c)'
    BY DEF OwnPod, HasPod
  <2> QED
    BY <1>2, <1>3, <2>1, <2>2
<1>5. ASSUME NEW d \in Active, AccountStep(d), UNCHANGED podVars
      PROVE  OwnPod(c)'
  <2>1. /\ GoesOn(d) /\ StepIsRight(d) /\ StepIsRight(d)' /\ FormIsRight(d) /\ contents' = contents
    BY <1>5, AccountStepIsRight DEF StepsAreRight, PodsInv, Active, podVars
  <2>2. (HasPod(d)' => HasPod(d)) /\ pc'[d] # "adding" /\ ~Is(d, "dynamicPod")
    BY <1>5, <2>1, FormsStayRight
  <2>3. OwnPod(d) => OwnPod(d)'
    BY <2>1, <2>2 DEF OwnPod, StepIsRight, Is, PodFor, generate
  <2> QED
    BY <1>2, <1>3, <2>1, <2>3 DEF GoesOn
<1>6. ASSUME NEW d \in Active, ProviderStep(d), UNCHANGED podVars
      PROVE  OwnPod(c)'
  <2>1. GoesOn(d) /\ d # c /\ contents' = contents
    BY <1>3, <1>6, ProviderStepIsRight DEF StepsAreRight, Active, podVars, ForProvider, MakesPod, Is
  <2> QED
    BY <1>2, <1>3, <2>1 DEF GoesOn
<1>7. ASSUME NEW d \in Active, PodStep(d), ~addToPod(d)
      PROVE  OwnPod(c)'
  <2>1. GoesOn(d) /\ StepIsRight(d) /\ StepIsRight(d)' /\ contents' = contents
    BY <1>7, PodStepIsRight DEF StepsAreRight, Active, PodStep, createPod, generateStore,
       instantiate, updateJsonSafely, storedConfig, addToRouting, failedPod, route, podVars
  <2>2. CASE d # c
    BY <1>2, <1>3, <2>1, <2>2 DEF GoesOn
  <2>3. CASE d = c
    <3> USE <1>3, <2>1, <2>3 DEF OwnPod, HasPod, Is, PodFor, generate, Go, Workload
    <3>1. CASE createPod(c) \/ updateJsonSafely(c) \/ storedConfig(c)
      BY <3>1 DEF createPod, updateJsonSafely, storedConfig
    <3>2. CASE generateStore(c) \/ instantiate(c) \/ addToRouting(c) \/ failedPod(c) \/ route(c)
      BY <3>2 DEF generateStore, instantiate, addToRouting, failedPod, route, At, MakesPod
    <3> QED
      BY <1>7, <3>1, <3>2 DEF PodStep
  <2> QED
    BY <2>2, <2>3
<1>8. ASSUME NEW d \in Active, addToPod(d)
      PROVE  OwnPod(c)'
  BY <1>3, <1>8, AddingKeepsPodsOwn
<1>9. ASSUME pc' = pc, contents' = contents
      PROVE  OwnPod(c)'
  BY <1>2, <1>3, <1>9
<1> QED
  BY <1>4, <1>5, <1>6, <1>7, <1>8, <1>9
     DEF Step, readConfig, initialize, listen, expire, callVars, podVars

-----------------------------------------------------------------------------
(* The accounts.                                                           *)

SameAcked == DOMAIN acked' = DOMAIN acked /\ \A e \in DOMAIN acked : acked'[e] = acked[e]

\* What has been acknowledged changes with a call that sets a password.
LEMMA AckedIsRemembered ==
  ASSUME NEW c \in Active, GoesOn(c), Remember
  PROVE  IF pc'[c] = "done" /\ SetsPassword(c)
         THEN /\ DOMAIN acked' = DOMAIN acked \cup {EmailOf(c)} /\ acked'[EmailOf(c)] = c
              /\ \A e \in DOMAIN acked : e = EmailOf(c) \/ acked'[e] = acked[e]
         ELSE SameAcked
<1> DEFINE changed == {d \in Done : SetsPassword(d)}
<1>1. changed = IF pc'[c] = "done" /\ SetsPassword(c) THEN {c} ELSE {}
  BY DEF Done, Active, GoesOn, Outcomes
<1>2. acked' = [e \in DOMAIN acked \cup {EmailOf(d) : d \in changed} |->
        IF \E d \in changed : EmailOf(d) = e THEN CHOOSE d \in changed : TRUE ELSE acked[e]]
  BY Zenon DEF Remember
<1> HIDE DEF changed
<1>3. CASE pc'[c] = "done" /\ SetsPassword(c)
  <2>1. changed = {c}
    BY <1>1, <1>3
  <2>2. {EmailOf(d) : d \in changed} = {EmailOf(c)} /\ (CHOOSE d \in changed : TRUE) = c
    BY <2>1
  <2>3. \A e : (\E d \in changed : EmailOf(d) = e) <=> e = EmailOf(c)
    BY <2>1
  <2> QED
    BY <1>2, <1>3, <2>2, <2>3
<1>4. CASE ~(pc'[c] = "done" /\ SetsPassword(c))
  <2>1. changed = {}
    BY <1>1, <1>4
  <2>2. {EmailOf(d) : d \in changed} = {} /\ \A e : ~(\E d \in changed : EmailOf(d) = e)
    BY <2>1
  <2> QED
    BY <1>2, <1>4, <2>2 DEF SameAcked
<1> QED
  BY <1>3, <1>4

\* Nothing is acknowledged where no call goes on.
LEMMA NothingIsAcknowledged ==
  ASSUME \A c \in Active : pc'[c] # "done", Remember
  PROVE  SameAcked
<1>1. {c \in Done : SetsPassword(c)} = {}
  BY DEF Done
<1>2. acked' = [e \in DOMAIN acked |-> acked[e]]
  BY <1>1 DEF Remember
<1> QED
  BY <1>2 DEF SameAcked

\* The types are kept by a call that goes on.
LEMMA AccountTypesGoOn ==
  ASSUME AccountTypes, StepsAreRight, NEW c \in Active, GoesOn(c), Remember,
         DOMAIN accounts' \subseteq Emails, \A e \in DOMAIN accounts' : accounts'[e] \in AccountSet,
         DOMAIN address' = Workload, DOMAIN account' = Workload,
         \A d \in Workload \ {c} : address'[d] = address[d] /\ account'[d] = account[d],
         DOMAIN records' \subseteq Calls, \A l \in DOMAIN records' : records'[l] = Input[l].email,
         DOMAIN tokens' \subseteq WebIds, ReadsAreRight(c)'
  PROVE  AccountTypes'
<1>1. Workload' = Workload /\ \A d \in Workload \ {c} : pc'[d] = pc[d]
  BY DEF GoesOn
<1>2. \A d \in Workload : ReadsAreRight(d)'
  BY <1>1 DEF AccountTypes, ReadsAreRight, EmailOf, Is
<1>3. c \in Calls /\ (SetsPassword(c) => EmailOf(c) \in Emails)
  <2>1. c \in Calls
    BY DEF StepsAreRight, Active
  <2> QED
    BY <2>1 DEF Emails, SetsPassword, Registers, Is
<1>4. DOMAIN acked' \subseteq Emails
  <2>1. DOMAIN acked \subseteq Emails
    BY DEF AccountTypes
  <2>2. DOMAIN acked' = DOMAIN acked \/ (SetsPassword(c) /\ DOMAIN acked' = DOMAIN acked \cup {EmailOf(c)})
    BY AckedIsRemembered DEF SameAcked
  <2> QED
    BY <1>3, <2>1, <2>2
<1> QED
  BY <1>1, <1>2, <1>4 DEF AccountTypes, Emails, EmailOf, Is, AccountSet, Passwords

\* A new account, and one with a new password, are accounts.
LEMMA AccountsAreAccounts ==
  ASSUME PodsInv, AccountTypes, StepsAreRight, NEW c \in Active
  PROVE  /\ c \in Calls /\ (SetsPassword(c) => EmailOf(c) \in Emails)
         /\ pc[c] = "hash" => NewAccount(c) \in AccountSet
         /\ pc[c] = "verified" => [account[c] EXCEPT !.verified = TRUE] \in AccountSet
         /\ pc[c] = "setPassword" => [account[c] EXCEPT !.password = Input[c].password] \in AccountSet
         /\ pc[c] = "setToken" => Input[c].webId \in WebIds
<1>1. c \in Calls /\ StepIsRight(c) /\ FormIsRight(c) /\ ReadsAreRight(c) /\ pc[c] \notin Outcomes
  BY DEF StepsAreRight, PodsInv, AccountTypes, Active
<1>2. SetsPassword(c) => EmailOf(c) \in Emails /\ Input[c].password \in Passwords
  BY <1>1 DEF SetsPassword, Registers, Is, Emails, Passwords
<1>3. pc[c] \in {"hash", "setToken"} => Is(c, "register") /\ webIdFor(c) \in WebIds
  BY <1>1, InputsAssumption DEF StepIsRight, FormIsRight, Is
<1>4. pc[c] = "setToken" => Input[c].webId \in WebIds
  BY <1>1, <1>3 DEF ReadsAreRight, webIdFor
<1>5. pc[c] = "hash" => NewAccount(c) \in AccountSet
  BY <1>1, <1>2, <1>3 DEF SetsPassword, Registers, FormIsRight, NewAccount, AccountSet
<1>6. pc[c] \in {"verified", "setPassword"} => account[c] \in AccountSet
  BY <1>1 DEF ReadsAreRight
<1>7. pc[c] = "setPassword" => Input[c].password \in Passwords
  BY <1>1, <1>2 DEF StepIsRight, SetsPassword
<1> QED
  BY <1>1, <1>2, <1>4, <1>5, <1>6, <1>7 DEF AccountSet

\* The handlers of forms keep the types.
LEMMA AccountStepKeepsTypes ==
  ASSUME PodsInv, AccountTypes, StepsAreRight, NEW c \in Active, AccountStep(c), Remember
  PROVE  AccountTypes'
<1>1. /\ GoesOn(c) /\ StepIsRight(c) /\ StepIsRight(c)' /\ c \in Workload /\ c \in Calls
      /\ FormIsRight(c) /\ ReadsAreRight(c) /\ pc[c] \notin Outcomes
  BY AccountStepIsRight DEF StepsAreRight, PodsInv, AccountTypes, Active
<1>2. /\ DOMAIN accounts \subseteq Emails /\ \A e \in DOMAIN accounts : accounts[e] \in AccountSet
      /\ DOMAIN address = Workload /\ DOMAIN account = Workload /\ DOMAIN tokens \subseteq WebIds
      /\ DOMAIN records \subseteq Calls /\ \A l \in DOMAIN records : records[l] = Input[l].email
  BY DEF AccountTypes
<1>3. ASSUME UNCHANGED <<accounts, records, tokens, account, address>>,
             pc'[c] \notin {"hash", "verified", "deleteRecord", "setPassword"},
             pc'[c] = "changePassword" => pc[c] = "deleteRecord",
             pc'[c] \in {"owner", "expired", "setToken", "fetch", "deleteToken"} => ~Input[c].createWebId
      PROVE  AccountTypes'
  <2>1. ReadsAreRight(c)'
    BY <1>1, <1>3 DEF ReadsAreRight, EmailOf, Is
  <2> QED
    BY <1>1, <1>2, <1>3, <2>1, AccountTypesGoOn
<1> USE DEF Go, At, Workload
<1>4. CASE parseInput(c) \/ fetchDataset(c) \/ podAdded(c) \/ compare(c)
  BY <1>1, <1>3, <1>4 DEF parseInput, AfterOwnership, fetchDataset, podAdded, compare,
     accountVars, ReadsAreRight
<1>5. CASE getToken(c) \/ deleteExpired(c) \/ setToken(c) \/ deleteToken(c)
  <2>1. /\ UNCHANGED <<accounts, records, account, address>>
        /\ pc[c] \in {"owner", "expired", "setToken", "deleteToken"}
        /\ pc'[c] \in {"expired", "setToken", "fetch", "told", "create", "createPod"}
    BY <1>1, <1>5 DEF getToken, deleteExpired, setToken, deleteToken, AfterOwnership
  <2>2. DOMAIN tokens' \subseteq WebIds
    <3>1. \A S : DOMAIN Delete(tokens, S) \subseteq DOMAIN tokens
      BY DEF Delete
    <3>2. \A a, b : DOMAIN Set(tokens, a, b) = DOMAIN tokens \cup {a}
      BY DEF Set
    <3>3. CASE getToken(c) \/ deleteExpired(c) \/ deleteToken(c)
      BY <1>2, <3>1, <3>3 DEF getToken, deleteExpired, deleteToken
    <3>4. CASE setToken(c)
      <4>1. Input[c].webId \in WebIds
        BY <3>4, AccountsAreAccounts DEF setToken
      <4>2. DOMAIN tokens' = DOMAIN tokens \cup {Input[c].webId}
        BY <3>2, <3>4, Zenon DEF setToken
      <4> QED
        BY <1>2, <4>1, <4>2
    <3> QED
      BY <1>5, <3>3, <3>4
  <2>3. ReadsAreRight(c)'
    BY <1>1, <2>1 DEF ReadsAreRight, EmailOf, Is
  <2> QED
    BY <1>1, <1>2, <2>1, <2>2, <2>3, AccountTypesGoOn
<1>6. CASE create(c) \/ verify(c)
  <2>1. /\ UNCHANGED <<accounts, records, tokens>> /\ address' = [address EXCEPT ![c] = Input[c].email]
        /\ account' = [account EXCEPT ![c] = Get(accounts, address'[c], NoAccount)]
        /\ \/ pc[c] = "create" /\ pc'[c] \in {"hash", "failed"}
           \/ pc[c] = "verify" /\ pc'[c] \in {"verified", "failed"}
        /\ pc'[c] = "verified" => address'[c] \in DOMAIN accounts
    BY <1>1, <1>6 DEF create, verify, ForEmail, Reads
  <2>2. address'[c] = EmailOf(c) /\ (pc'[c] = "verified" => account'[c] \in AccountSet)
    BY <1>1, <1>2, <2>1 DEF EmailOf, StepIsRight, Is, Get
  <2>3. ReadsAreRight(c)'
    BY <1>1, <2>1, <2>2 DEF ReadsAreRight, EmailOf, Is, AccountSet, Passwords
  <2> QED
    BY <1>1, <1>2, <2>1, <2>3, AccountTypesGoOn
<1>7. CASE created(c) \/ verified(c) \/ changedPassword(c)
  <2>1. /\ UNCHANGED <<records, tokens, account, address>>
        /\ \/ pc[c] = "hash" /\ accounts' = Set(accounts, address[c], NewAccount(c))
           \/ pc[c] = "verified"
              /\ accounts' = Set(accounts, address[c], [account[c] EXCEPT !.verified = TRUE])
           \/ pc[c] = "setPassword"
              /\ accounts' = Set(accounts, address[c], [account[c] EXCEPT !.password = Input[c].password])
        /\ pc'[c] \in {"createPod", "verify", "done"}
    BY <1>1, <1>7 DEF created, verified, changedPassword, Stores
  <2>2. PICK a \in AccountSet : accounts' = Set(accounts, EmailOf(c), a)
    BY <1>1, <2>1, AccountsAreAccounts DEF ReadsAreRight
  <2>3. SetsPassword(c)
    BY <1>1, <2>1 DEF SetsPassword, Registers, StepIsRight, FormIsRight, Is
  <2>4. DOMAIN accounts' \subseteq Emails /\ \A e \in DOMAIN accounts' : accounts'[e] \in AccountSet
    BY <1>2, <2>2, <2>3, AccountsAreAccounts DEF Set
  <2>5. ReadsAreRight(c)'
    BY <2>1 DEF ReadsAreRight
  <2> QED
    BY <1>1, <1>2, <2>1, <2>4, <2>5, AccountTypesGoOn
<1>8. CASE deleteAccount(c)
  <2>1. /\ UNCHANGED <<records, tokens, account, address>> /\ pc'[c] = "failed"
        /\ DOMAIN accounts' \subseteq DOMAIN accounts
        /\ \A e \in DOMAIN accounts' : accounts'[e] = accounts[e]
    BY <1>1, <1>8 DEF deleteAccount, Delete
  <2>2. ReadsAreRight(c)'
    BY <2>1 DEF ReadsAreRight
  <2> QED
    BY <1>1, <1>2, <2>1, <2>2, AccountTypesGoOn
<1>9. CASE login(c) \/ forgot(c)
  <2>1. /\ UNCHANGED <<accounts, records, tokens>> /\ address' = [address EXCEPT ![c] = Input[c].email]
        /\ DOMAIN account' = Workload /\ \A d \in Workload \ {c} : account'[d] = account[d]
        /\ pc'[c] \in {"compare", "failed", "record", "done"}
    BY <1>1, <1>2, <1>9 DEF login, forgot, ForEmail, Reads
  <2>2. ReadsAreRight(c)'
    BY <2>1 DEF ReadsAreRight
  <2> QED
    BY <1>1, <1>2, <2>1, <2>2, AccountTypesGoOn
<1>10. CASE generateForgotPasswordRecord(c) \/ sendResetMail(c) \/ deleteForgotPasswordRecord(c)
  <2>1. /\ UNCHANGED <<accounts, tokens, account, address>>
        /\ pc'[c] \in {"mail", "done", "failed"} \/ (pc[c] = "deleteRecord" /\ pc'[c] = "changePassword")
    BY <1>1, <1>10 DEF generateForgotPasswordRecord, sendResetMail, deleteForgotPasswordRecord
  <2>2. DOMAIN records' \subseteq Calls /\ \A l \in DOMAIN records' : records'[l] = Input[l].email
    BY <1>1, <1>2, <1>10 DEF generateForgotPasswordRecord, sendResetMail, deleteForgotPasswordRecord,
       Set, Delete
  <2>3. ReadsAreRight(c)'
    BY <1>1, <2>1 DEF ReadsAreRight, EmailOf, Is
  <2> QED
    BY <1>1, <1>2, <2>1, <2>2, <2>3, AccountTypesGoOn
<1>11. CASE reset(c)
  <2>1. /\ UNCHANGED <<accounts, records, tokens, account>> /\ Is(c, "reset")
        /\ address' = [address EXCEPT ![c] = Get(records, Input[c].link, "none")]
        /\ pc'[c] = "failed" \/ (pc'[c] = "deleteRecord" /\ address'[c] # "none")
    BY <1>1, <1>11 DEF reset
  <2>2. pc'[c] = "deleteRecord" => address'[c] = EmailOf(c)
    BY <1>1, <1>2, <2>1 DEF Get, EmailOf, Is
  <2>3. ReadsAreRight(c)'
    BY <1>1, <2>1, <2>2 DEF ReadsAreRight, EmailOf, Is
  <2> QED
    BY <1>1, <1>2, <2>1, <2>3, AccountTypesGoOn
<1>12. CASE changePassword(c)
  <2>1. /\ UNCHANGED <<accounts, records, tokens, address>> /\ pc[c] = "changePassword"
        /\ account' = [account EXCEPT ![c] = Get(accounts, address[c], NoAccount)]
        /\ pc'[c] = "failed" \/ (pc'[c] = "setPassword" /\ address[c] \in DOMAIN accounts)
    BY <1>1, <1>12 DEF changePassword, Reads
  <2>2. pc'[c] = "setPassword" => account'[c] \in AccountSet
    BY <1>1, <1>2, <2>1 DEF Get
  <2>3. ReadsAreRight(c)'
    BY <1>1, <2>1, <2>2 DEF ReadsAreRight, EmailOf, Is, AccountSet, Passwords
  <2> QED
    BY <1>1, <1>2, <2>1, <2>3, AccountTypesGoOn
<1> QED
  BY <1>4, <1>5, <1>6, <1>7, <1>8, <1>9, <1>10, <1>11, <1>12 DEF AccountStep

\* The steps of pods and of the OIDC library are not about accounts.
LEMMA OtherStepsAreApart ==
  ASSUME StepsAreRight, NEW c \in Active, PodStep(c) \/ ProviderStep(c)
  PROVE  /\ GoesOn(c) /\ c \in Workload /\ pc[c] \notin Outcomes
         /\ \/ Kind[c] \in ForProvider
            \/ Is(c, "dynamicPod") \/ Is(c, "route")
            \/ /\ Is(c, "register") /\ pc[c] \in {"createPod", "adding"}
               /\ pc'[c] \in {"adding", "added", "podFailed"}
         /\ ~(SetsPassword(c) /\ pc'[c] = "done") /\ StepIsRight(c)'
<1>1. GoesOn(c) /\ c \in Workload /\ pc[c] \notin Outcomes /\ StepIsRight(c)
      /\ StepIsRight(c)' /\ Kind[c] \in ForPods \cup ForProvider
  BY PodStepIsRight, ProviderStepIsRight DEF StepsAreRight, Active
<1>2. PodStep(c) /\ Is(c, "register") =>
        pc[c] \in {"createPod", "adding"} /\ pc'[c] \in {"adding", "added", "podFailed"}
  BY <1>1 DEF PodStep, addToPod, addGeneratedResources, createPod, generateStore, instantiate,
     updateJsonSafely, storedConfig, addToRouting, failedPod, route, Go, At, Is, StepIsRight, Workload
<1>3. ProviderStep(c) => Kind[c] \in ForProvider
  BY <1>1, ProviderStepIsRight
<1> QED
  BY <1>1, <1>2, <1>3 DEF ForPods, ForProvider, Is, SetsPassword, Registers

\* AccountTypes is inductive.
LEMMA AccountTypesStay ==
  ASSUME PodsInv, AccountTypes, StepsAreRight, Step, Remember
  PROVE  AccountTypes'
<1>1. /\ DOMAIN accounts \subseteq Emails /\ \A e \in DOMAIN accounts : accounts[e] \in AccountSet
      /\ DOMAIN address = Workload /\ DOMAIN account = Workload /\ DOMAIN tokens \subseteq WebIds
      /\ DOMAIN records \subseteq Calls /\ \A l \in DOMAIN records : records[l] = Input[l].email
  BY DEF AccountTypes
<1>2. ASSUME NEW c \in Active, PodStep(c) \/ ProviderStep(c), UNCHANGED accountVars
      PROVE  AccountTypes'
  <2>1. /\ GoesOn(c) /\ UNCHANGED <<accounts, records, tokens, account, address>>
        /\ ReadsAreRight(c)'
    BY <1>2, OtherStepsAreApart DEF accountVars, ReadsAreRight, StepIsRight, ForProvider, Is
  <2> QED
    BY <1>1, <1>2, <2>1, AccountTypesGoOn
<1>3. ASSUME UNCHANGED <<accounts, records, account, address>>, DOMAIN tokens' = DOMAIN tokens,
             \A c \in Workload : pc'[c] \in {pc[c], "crashed"}, Workload' = Workload
      PROVE  AccountTypes'
  <2>1. SameAcked
    BY <1>3, NothingIsAcknowledged DEF Active, Outcomes
  <2>2. \A c \in Workload : ReadsAreRight(c)'
    BY <1>3 DEF AccountTypes, ReadsAreRight, EmailOf, Is, AccountSet, Passwords
  <2> QED
    BY <1>1, <1>3, <2>1, <2>2 DEF AccountTypes, SameAcked, Emails, EmailOf, Is, AccountSet, Passwords
<1>4. CASE crash
  BY <1>3, <1>4 DEF crash, accountVars, Workload
<1>5. ASSUME UNCHANGED accountVars, pc' = pc
      PROVE  AccountTypes'
  BY <1>3, <1>5 DEF accountVars, Workload
<1>6. ASSUME NEW c, publish(c), pc' = pc
      PROVE  AccountTypes'
  BY <1>3, <1>6 DEF publish, Workload
<1>7. ASSUME NEW w, expireToken(w), pc' = pc
      PROVE  AccountTypes'
  <2>1. DOMAIN tokens' = DOMAIN tokens /\ UNCHANGED <<accounts, records, account, address>>
    BY <1>7 DEF expireToken
  <2> QED
    BY <1>3, <1>7, <2>1 DEF Workload
<1> QED
  BY <1>2, <1>4, <1>5, <1>6, <1>7, AccountStepKeepsTypes
     DEF Step, readConfig, initialize, listen, expire, callVars

\* What is stored about an address, and acknowledged, is as it was.
SameAddress(e) ==
  /\ e \in DOMAIN accounts' <=> e \in DOMAIN accounts
  /\ e \in DOMAIN accounts => accounts'[e] = accounts[e]
  /\ e \in DOMAIN acked' <=> e \in DOMAIN acked
  /\ e \in DOMAIN acked => acked'[e] = acked[e]

Knows(c, e) == (Registers(c) => RegisterKnows(c, e)) /\ (Is(c, "reset") => ResetKnows(c, e))

\* The account of an address stays as it is.
LEMMA AddressWaits ==
  ASSUME NEW e, AddressIsRight(e), NEW c \in Active, GoesOn(c), SameAddress(e),
         \A d \in Workload \ {c} : account'[d] = account[d],
         EmailOf(c) = e => Knows(c, e)'
  PROVE  AddressIsRight(e)'
<1>1. /\ Workload' = Workload /\ \A d \in Workload \ {c} : pc'[d] = pc[d] /\ account'[d] = account[d]
      /\ \A d \in Workload : pc[d] = "done" => pc'[d] = "done"
  BY DEF GoesOn, Active, Outcomes
<1>2. e \in DOMAIN acked' =>
        /\ e \in DOMAIN accounts' /\ accounts'[e].password = Input[acked'[e]].password
        /\ Registers(acked'[e]) => accounts'[e].verified
  BY DEF SameAddress, AddressIsRight
<1>3. e \in DOMAIN accounts' /\ accounts'[e].verified => \E d \in Workload : AccountIsOf(d, e)'
  BY <1>1 DEF SameAddress, AddressIsRight, AccountIsOf, Registers, EmailOf, webIdFor, PodFor, generate, Is
<1>4. ASSUME NEW d \in Workload, EmailOf(d) = e, d # c
      PROVE  Knows(d, e)'
  BY <1>1, <1>4 DEF SameAddress, AddressIsRight, Knows, RegisterKnows, ResetKnows, NewAccount, Registers,
     Is, webIdFor, PodFor, generate
<1>5. \A d \in Workload : EmailOf(d) = e => Knows(d, e)'
  BY <1>4
<1> QED
  BY <1>1, <1>2, <1>3, <1>5 DEF AddressIsRight, Knows, Registers, EmailOf, Is

\* The only call about an address changes its account.
LEMMA AddressChanges ==
  ASSUME OverlapsAreKnown, NEW c \in Active, GoesOn(c), Running(c), SetsPassword(c),
         NEW e, EmailOf(c) = e, e \notin overlapping,
         e \in DOMAIN acked' =>
           /\ e \in DOMAIN accounts' /\ accounts'[e].password = Input[acked'[e]].password
           /\ Registers(acked'[e]) => accounts'[e].verified,
         e \in DOMAIN accounts' /\ accounts'[e].verified => \E d \in Workload : AccountIsOf(d, e)',
         Knows(c, e)'
  PROVE  AddressIsRight(e)'
<1>1. Workload' = Workload /\ c \in Workload /\ \A d \in Workload \ {c} : pc'[d] = pc[d]
  BY DEF GoesOn, Active
<1>2. \A d \in Workload : SetsPassword(d) => EmailOf(d) \in Changes(d)
  BY DEF SetsPassword, Registers, Changes, Is
<1>3. ASSUME NEW d \in Workload, d # c, SetsPassword(d), EmailOf(d) = e
      PROVE  pc'[d] \in {"idle"} \cup Outcomes
  BY <1>1, <1>2, <1>3 DEF OverlapsAreKnown, Running
<1>4. ASSUME NEW d \in Workload, SetsPassword(d), EmailOf(d) = e
      PROVE  Knows(d, e)'
  <2>1. CASE d = c
    BY <2>1
  <2>2. CASE d # c
    BY <1>3, <1>4, <2>2 DEF Knows, RegisterKnows, ResetKnows, Outcomes
  <2> QED
    BY <2>1, <2>2
<1> QED
  BY <1>1, <1>4 DEF AddressIsRight, Knows, SetsPassword, Registers, EmailOf, Is

\* A step that stores no account, of a call that knows nothing of one.
LEMMA AddressRests ==
  ASSUME NEW e, AddressIsRight(e), NEW c \in Active, GoesOn(c), Remember, accounts' = accounts,
         \A d \in Workload \ {c} : account'[d] = account[d],
         \/ ~SetsPassword(c)
         \/ pc'[c] \in {"failed", "told", "owner", "expired", "setToken", "fetch", "deleteToken",
                        "create", "deleteRecord", "changePassword"}
  PROVE  AddressIsRight(e)'
<1>1. SameAcked
  BY AckedIsRemembered
<1>2. SameAddress(e)
  BY <1>1 DEF SameAddress, SameAcked
<1>3. Knows(c, e)'
  BY DEF Knows, RegisterKnows, ResetKnows, SetsPassword, Registers, Is
<1> QED
  BY <1>2, <1>3, AddressWaits

\* The handlers of forms keep what is known of an address.
LEMMA AccountStepKeepsAddresses ==
  ASSUME PodsInv, AccountTypes, StepsAreRight, OverlapsAreKnown, Remember,
         NEW c \in Active, AccountStep(c),
         NEW e, e \notin overlapping, AddressIsRight(e)
  PROVE  AddressIsRight(e)'
<1>1. /\ GoesOn(c) /\ StepIsRight(c) /\ StepIsRight(c)' /\ c \in Workload /\ pc[c] \notin Outcomes
      /\ FormIsRight(c) /\ FormIsRight(c)' /\ ReadsAreRight(c)
      /\ DOMAIN address = Workload /\ DOMAIN account = Workload
      /\ (pc[c] # "idle" => Running(c))
  BY AccountStepIsRight, FormsStayRight DEF StepsAreRight, PodsInv, AccountTypes, Active, Running
<1>2. /\ e \in DOMAIN acked => /\ e \in DOMAIN accounts
                               /\ accounts[e].password = Input[acked[e]].password
                               /\ Registers(acked[e]) => accounts[e].verified
      /\ EmailOf(c) = e => Knows(c, e)
  BY <1>1 DEF AddressIsRight, Knows
<1> USE DEF Go, At, Workload
<1>3. CASE parseInput(c) \/ getToken(c) \/ deleteExpired(c) \/ setToken(c) \/ fetchDataset(c)
           \/ deleteToken(c)
  <2>1. accounts' = accounts /\ account' = account
    BY <1>3 DEF parseInput, getToken, deleteExpired, setToken, fetchDataset, deleteToken, accountVars
  <2>2. Is(c, "register")
    BY <1>1, <1>3 DEF parseInput, getToken, deleteExpired, setToken, fetchDataset, deleteToken, StepIsRight
  <2>3. pc'[c] = "createPod" => ~Input[c].register
    BY <1>1, <1>3 DEF parseInput, getToken, deleteExpired, setToken, fetchDataset, deleteToken, AfterOwnership
  <2>4. \/ pc'[c] = "createPod"
        \/ pc'[c] \in {"failed", "told", "owner", "expired", "setToken", "fetch", "deleteToken", "create"}
    BY <1>1, <1>3 DEF parseInput, getToken, deleteExpired, setToken, fetchDataset, deleteToken, AfterOwnership
  <2> QED
    BY <1>1, <2>1, <2>2, <2>3, <2>4, AddressRests DEF SetsPassword, Registers, Is
<1>4. CASE login(c) \/ compare(c) \/ forgot(c) \/ generateForgotPasswordRecord(c) \/ sendResetMail(c)
  <2>1. accounts' = accounts /\ \A d \in Workload \ {c} : account'[d] = account[d]
    BY <1>1, <1>4 DEF login, compare, forgot, generateForgotPasswordRecord, sendResetMail, accountVars, Reads
  <2>2. ~SetsPassword(c)
    BY <1>1, <1>4 DEF login, compare, forgot, generateForgotPasswordRecord, sendResetMail, StepIsRight,
       SetsPassword, Registers, Is
  <2> QED
    BY <1>1, <2>1, <2>2, AddressRests
<1>5. CASE reset(c) \/ deleteForgotPasswordRecord(c)
  <2>1. accounts' = accounts /\ account' = account /\ pc'[c] \in {"deleteRecord", "failed", "changePassword"}
    BY <1>1, <1>5 DEF reset, deleteForgotPasswordRecord
  <2> QED
    BY <1>1, <2>1, AddressRests
<1>6. ASSUME accounts' = accounts, \A d \in Workload \ {c} : account'[d] = account[d],
             pc'[c] # "done" \/ ~SetsPassword(c), EmailOf(c) = e => Knows(c, e)'
      PROVE  AddressIsRight(e)'
  <2>1. SameAcked
    BY <1>1, <1>6, AckedIsRemembered
  <2>2. SameAddress(e)
    BY <1>6, <2>1 DEF SameAcked, SameAddress
  <2> QED
    BY <1>1, <1>6, <2>2, AddressWaits
<1>7. CASE create(c) \/ verify(c) \/ changePassword(c)
  <2>1. /\ accounts' = accounts /\ address'[c] = EmailOf(c)
        /\ account' = [account EXCEPT ![c] = Get(accounts, address'[c], NoAccount)]
        /\ \/ pc[c] = "create" /\ pc'[c] = "hash" /\ address'[c] \notin DOMAIN accounts /\ Is(c, "register")
           \/ pc[c] = "verify" /\ pc'[c] = "verified" /\ address'[c] \in DOMAIN accounts /\ Is(c, "register")
           \/ pc[c] = "changePassword" /\ pc'[c] = "setPassword" /\ address'[c] \in DOMAIN accounts
              /\ Is(c, "reset")
           \/ pc'[c] = "failed"
    BY <1>1, <1>7 DEF create, verify, changePassword, ForEmail, Reads, ReadsAreRight, EmailOf, Is, StepIsRight
  <2>2. \A d \in Workload \ {c} : account'[d] = account[d]
    BY <1>1, <2>1
  <2>3. address'[c] \in DOMAIN accounts => account'[c] = accounts[address'[c]]
    BY <1>1, <2>1 DEF Get
  <2>4. ASSUME EmailOf(c) = e PROVE Knows(c, e)'
    BY <1>1, <1>2, <2>1, <2>3, <2>4, AckedIsRemembered
       DEF Knows, RegisterKnows, ResetKnows, Registers, Is, SameAcked, NewAccount, webIdFor, PodFor, generate
  <2> QED
    BY <1>6, <2>1, <2>2, <2>4
<1>8. CASE podAdded(c)
  <2>1. /\ accounts' = accounts /\ account' = account /\ pc[c] = "added" /\ Is(c, "register")
        /\ \/ pc'[c] = "verify"
           \/ pc'[c] = "done" /\ ~Input[c].register
    BY <1>1, <1>8 DEF podAdded, accountVars
  <2>2. ASSUME EmailOf(c) = e PROVE Knows(c, e)'
    BY <1>1, <1>2, <2>1, <2>2, AckedIsRemembered
       DEF Knows, RegisterKnows, ResetKnows, Registers, Is, SameAcked, NewAccount, webIdFor, PodFor, generate
  <2> QED
    BY <1>6, <2>1, <2>2 DEF SetsPassword, Registers, Is
<1>9. CASE deleteAccount(c) /\ ~Input[c].register
  BY <1>1, <1>9, AddressRests DEF deleteAccount, SetsPassword, Registers, Is
<1>10. CASE created(c) \/ verified(c) \/ changedPassword(c) \/ (deleteAccount(c) /\ Input[c].register)
  <2>1. /\ account' = account /\ SetsPassword(c) /\ Running(c)
        /\ \A x : x # EmailOf(c) =>
             (x \in DOMAIN accounts' <=> x \in DOMAIN accounts)
             /\ (x \in DOMAIN accounts => accounts'[x] = accounts[x])
    BY <1>1, <1>10 DEF created, verified, changedPassword, deleteAccount, Stores, Set, Delete,
       ReadsAreRight, StepIsRight, FormIsRight, SetsPassword, Registers, EmailOf, Is
  <2>2. CASE e # EmailOf(c)
    <3>1. SameAddress(e)
      BY <1>1, <2>1, <2>2, AckedIsRemembered DEF SameAddress, SameAcked
    <3> QED
      BY <1>1, <2>1, <2>2, <3>1, AddressWaits
  <2>3. CASE e = EmailOf(c)
    <3>1. Knows(c, e)
      BY <1>2, <2>3
    <3>2. CASE created(c)
      <4>1. /\ pc[c] = "hash" /\ pc'[c] \in {"createPod", "verify"} /\ Registers(c)
            /\ accounts' = Set(accounts, e, NewAccount(c))
        BY <1>1, <2>3, <3>2 DEF created, Stores, ReadsAreRight, StepIsRight, FormIsRight, Registers, Is
      <4>2. SameAcked /\ e \notin DOMAIN acked'
        BY <1>1, <3>1, <4>1, AckedIsRemembered DEF SameAcked, Knows, RegisterKnows
      <4>3. e \in DOMAIN accounts' /\ accounts'[e] = NewAccount(c) /\ ~accounts'[e].verified
        BY <4>1 DEF Set, NewAccount
      <4>4. Knows(c, e)'
        BY <4>1, <4>2, <4>3 DEF Knows, RegisterKnows, ResetKnows, Registers, Is, NewAccount, webIdFor,
           PodFor, generate
      <4> QED
        BY <1>1, <2>1, <2>3, <4>2, <4>3, <4>4, AddressChanges
    <3>3. CASE verified(c)
      <4>1. /\ pc[c] = "verified" /\ pc'[c] = "done" /\ Registers(c)
            /\ accounts' = Set(accounts, e, [account[c] EXCEPT !.verified = TRUE])
            /\ account[c] = NewAccount(c)
        BY <1>1, <2>3, <3>1, <3>3 DEF verified, Stores, ReadsAreRight, StepIsRight, FormIsRight,
           Registers, Is, Knows, RegisterKnows
      <4>2. acked'[e] = c
        BY <1>1, <2>1, <2>3, <4>1, AckedIsRemembered
      <4>3. /\ e \in DOMAIN accounts' /\ accounts'[e].verified = TRUE
            /\ accounts'[e].password = Input[c].password /\ accounts'[e].webId = webIdFor(c)
        BY <4>1 DEF Set, NewAccount
      <4>4. Knows(c, e)'
        BY <4>1 DEF Knows, RegisterKnows, ResetKnows, Registers, Is
      <4>5. AccountIsOf(c, e)'
        BY <2>3, <4>1, <4>3 DEF AccountIsOf, Registers, Is, EmailOf, webIdFor, PodFor, generate
      <4> QED
        BY <1>1, <2>1, <2>3, <4>2, <4>3, <4>4, <4>5, AddressChanges
    <3>4. CASE changedPassword(c)
      <4>1. /\ pc[c] = "setPassword" /\ pc'[c] = "done" /\ Is(c, "reset") /\ e \in DOMAIN accounts
            /\ accounts' = Set(accounts, e, [accounts[e] EXCEPT !.password = Input[c].password])
        BY <1>1, <2>3, <3>1, <3>4 DEF changedPassword, Stores, ReadsAreRight, StepIsRight, Knows, ResetKnows
      <4>2. acked'[e] = c /\ ~Registers(c)
        BY <1>1, <2>1, <2>3, <4>1, AckedIsRemembered DEF Registers, Is
      <4>3. accounts[e] \in AccountSet
        BY <4>1 DEF AccountTypes
      <4>4. /\ e \in DOMAIN accounts' /\ accounts'[e].verified = accounts[e].verified
            /\ accounts'[e].password = Input[c].password /\ accounts'[e].webId = accounts[e].webId
        BY <4>1, <4>3 DEF Set, AccountSet
      <4>5. Knows(c, e)'
        BY <4>1 DEF Knows, RegisterKnows, ResetKnows, Registers, Is
      <4>6. accounts'[e].verified => \E d \in Workload : AccountIsOf(d, e)'
        BY <1>1, <4>1, <4>4 DEF AddressIsRight, AccountIsOf, Registers, Is, EmailOf, webIdFor, PodFor,
           generate, GoesOn
      <4> QED
        BY <1>1, <2>1, <2>3, <4>2, <4>4, <4>5, <4>6, AddressChanges
    <3>5. CASE deleteAccount(c) /\ Input[c].register
      <4>1. /\ pc[c] = "podFailed" /\ pc'[c] = "failed" /\ Registers(c)
            /\ accounts' = Delete(accounts, {e})
        BY <1>1, <2>3, <3>5 DEF deleteAccount, Registers, EmailOf, Is
      <4>2. e \notin DOMAIN accounts' /\ SameAcked /\ e \notin DOMAIN acked'
        BY <1>1, <3>1, <4>1, AckedIsRemembered DEF SameAcked, Knows, RegisterKnows, Delete
      <4>3. Knows(c, e)'
        BY <4>1 DEF Knows, RegisterKnows, ResetKnows, Registers, Is
      <4> QED
        BY <1>1, <2>1, <2>3, <4>2, <4>3, AddressChanges
    <3> QED
      BY <1>10, <3>2, <3>3, <3>4, <3>5
  <2> QED
    BY <2>2, <2>3
<1> QED
  BY <1>3, <1>4, <1>5, <1>7, <1>8, <1>9, <1>10 DEF AccountStep

\* What is known of an address stays right.
LEMMA AddressesStayRight ==
  ASSUME PodsInv, AccountTypes, StepsAreRight, OverlapsAreKnown, Step, Remember,
         NEW e, e \notin overlapping, AddressIsRight(e)
  PROVE  AddressIsRight(e)'
<1>1. ASSUME NEW c \in Active, PodStep(c) \/ ProviderStep(c), UNCHANGED accountVars
      PROVE  AddressIsRight(e)'
  <2>1. /\ GoesOn(c) /\ c \in Workload /\ UNCHANGED <<accounts, account>>
        /\ ~(SetsPassword(c) /\ pc'[c] = "done")
    BY <1>1, OtherStepsAreApart DEF accountVars
  <2>2. CASE ~SetsPassword(c)
    BY <2>1, <2>2, AddressRests
  <2>3. CASE SetsPassword(c)
    <3>1. /\ Is(c, "register") /\ pc[c] \in {"createPod", "adding"}
          /\ pc'[c] \in {"adding", "added", "podFailed"}
      BY <1>1, <2>3, OtherStepsAreApart DEF SetsPassword, Registers, ForProvider, Is
    <3>2. SameAddress(e)
      BY <2>1, AckedIsRemembered DEF SameAddress, SameAcked
    <3>3. EmailOf(c) = e => Knows(c, e)'
      BY <2>1, <3>1, <3>2 DEF AddressIsRight, SameAddress, Knows, RegisterKnows, ResetKnows, Registers, Is,
         NewAccount, webIdFor, PodFor, generate
    <3> QED
      BY <2>1, <3>2, <3>3, AddressWaits
  <2> QED
    BY <2>2, <2>3
<1>2. ASSUME UNCHANGED <<accounts, account>>, Workload' = Workload,
             \A c \in Workload : pc'[c] = pc[c] \/ (Running(c) /\ pc'[c] = "crashed")
      PROVE  AddressIsRight(e)'
  <2>1. SameAcked
    BY <1>2, NothingIsAcknowledged DEF Active, Outcomes
  <2>2. \A c \in Workload : EmailOf(c) = e => (Knows(c, e) => Knows(c, e)')
    BY <1>2, <2>1 DEF SameAcked, Knows, RegisterKnows, ResetKnows, Registers, Is,
       NewAccount, webIdFor, PodFor, generate
  <2>3. \A c \in Workload : AccountIsOf(c, e) => AccountIsOf(c, e)'
    BY <1>2 DEF AccountIsOf, Running, Outcomes, Registers, EmailOf, webIdFor, PodFor, generate, Is
  <2> QED
    BY <1>2, <2>1, <2>2, <2>3 DEF AddressIsRight, SameAcked, Knows, Registers, EmailOf, Is
<1>3. CASE crash
  BY <1>2, <1>3 DEF crash, accountVars, Workload
<1>4. ASSUME UNCHANGED <<accounts, account>>, pc' = pc
      PROVE  AddressIsRight(e)'
  BY <1>2, <1>4 DEF Workload
<1> QED
  BY <1>1, <1>3, <1>4, AccountStepKeepsAddresses
     DEF Step, readConfig, initialize, listen, expire, callVars, accountVars, publish, expireToken

\* AccountsInv is inductive.
LEMMA AccountsStayRight ==
  ASSUME PodsInv, AccountsInv, StepsAreRight, OverlapsAreKnown, Step, Remember
  PROVE  AccountsInv'
<1>1. AccountTypes' /\ overlapping \subseteq overlapping'
  BY AccountTypesStay, OverlapsGrow DEF AccountsInv
<1>2. \A e \in Emails \ overlapping : AddressIsRight(e)'
  BY AddressesStayRight DEF AccountsInv
<1> QED
  BY <1>1, <1>2 DEF AccountsInv, Emails, EmailOf, Is

-----------------------------------------------------------------------------
(* The storage of the OIDC library.                                        *)

\* What is stored and deleted keeps the types.
LEMMA EntriesStayTyped ==
  ASSUME EntryTypes
  PROVE  /\ \A key, value, expires :
              value # {} /\ expires \in {"never"} \cup Calls /\ SetEntry(key, value, expires)
                => EntryTypes'
         /\ \A S : entries' = Delete(entries, S) => EntryTypes'
         /\ entries' = entries => EntryTypes'
<1>1. ASSUME NEW key, NEW value, NEW expires, SetEntry(key, value, expires),
             value # {}, expires \in {"never"} \cup Calls
      PROVE  EntryTypes'
  BY <1>1 DEF EntryTypes, SetEntry, Set, Entry
<1>2. ASSUME NEW S, entries' = Delete(entries, S)
      PROVE  EntryTypes'
  BY <1>2 DEF EntryTypes, Delete
<1>3. entries' = entries => EntryTypes'
  BY DEF EntryTypes
<1> QED
  BY <1>1, <1>2, <1>3

\* The steps of the OIDC library keep the types of its storage.
LEMMA ProviderStepKeepsTypes ==
  ASSUME StorageTypes, StepsAreRight, NEW c \in Active, ProviderStep(c)
  PROVE  /\ EntryTypes' /\ DOMAIN found' = Workload
         /\ \A d \in Workload \ {c} : found'[d] = found[d]
         /\ pc'[c] = "consume" => found'[c] # {}
<1>1. /\ GoesOn(c) /\ c \in Workload /\ c \in Calls /\ DOMAIN found = Workload /\ EntryTypes
      /\ pc[c] = "consume" => found[c] # {}
      /\ Expires(c) \in {"never"} \cup Calls
  BY ProviderStepIsRight DEF StepsAreRight, StorageTypes, Active, Expires
<1> USE DEF Go, At, Workload, Continue
<1>2. CASE removeExpiredEntries(c) \/ upsert(c) \/ revokeByGrantId(c)
  BY <1>1, <1>2, EntriesStayTyped DEF removeExpiredEntries, upsert, revokeByGrantId
<1>3. CASE visit(c)
  BY <1>1, <1>3, EntriesStayTyped DEF visit
<1>4. CASE deleteOne(c)
  BY <1>1, <1>4, EntriesStayTyped DEF deleteOne
<1>5. CASE setPayload(c) \/ dropGrants(c) \/ setGrants(c) \/ setUid(c)
  BY <1>1, <1>5, EntriesStayTyped DEF setPayload, dropGrants, setGrants, setUid, Upserting, Upserted
<1>6. CASE getGrants(c)
  BY <1>1, <1>6, EntriesStayTyped DEF getGrants, Upserting, Upserted
<1>7. CASE findByUid(c)
  BY <1>1, <1>7, EntriesStayTyped DEF findByUid
<1>8. CASE find(c)
  BY <1>1, <1>8, EntriesStayTyped DEF find
<1>9. CASE consume(c)
  BY <1>1, <1>9, EntriesStayTyped DEF consume
<1>10. CASE destroy(c)
  BY <1>1, <1>10, EntriesStayTyped DEF destroy
<1>11. CASE getProvider(c) \/ getJwks(c) \/ setJwks(c) \/ getCookieKeys(c) \/ setCookieKeys(c)
            \/ createProvider(c)
  BY <1>1, <1>11, EntriesStayTyped DEF getProvider, getJwks, setJwks, getCookieKeys, setCookieKeys,
     createProvider
<1> QED
  BY <1>2, <1>3, <1>4, <1>5, <1>6, <1>7, <1>8, <1>9, <1>10, <1>11 DEF ProviderStep

\* StorageTypes is inductive.
LEMMA StorageTypesStay ==
  ASSUME StorageTypes, StepsAreRight, Step
  PROVE  StorageTypes'
<1>1. StepsAreRight' /\ Workload' = Workload /\ Made \subseteq Made'
  <2>1. Moves /\ StepsAreRight'
    BY StepsStayRight
  <2> QED
    BY <2>1, CallsGoOn DEF Made
<1>2. ASSUME NEW c \in Active, ProviderStep(c)
      PROVE  StorageTypes'
  <2>1. /\ GoesOn(c) /\ EntryTypes' /\ DOMAIN found' = Workload
        /\ \A d \in Workload \ {c} : found'[d] = found[d]
        /\ pc'[c] = "consume" => found'[c] # {}
    BY <1>2, ProviderStepKeepsTypes, ProviderStepIsRight DEF StepsAreRight, Active
  <2>2. passed' = passed
    BY <1>2 DEF ProviderStep, removeExpiredEntries, visit, deleteOne, upsert, setPayload, getGrants,
       dropGrants, setGrants, setUid, findByUid, find, consume, destroy, revokeByGrantId,
       getProvider, getJwks, setJwks, getCookieKeys, setCookieKeys, createProvider
  <2> QED
    BY <1>1, <2>1, <2>2 DEF StorageTypes, GoesOn
<1>3. ASSUME UNCHANGED <<entries, found>>, passed' \subseteq passed \cup Made,
             \A c \in Workload : pc'[c] = "consume" => pc[c] = "consume"
      PROVE  StorageTypes'
  BY <1>1, <1>3, EntriesStayTyped DEF StorageTypes
<1>4. ASSUME NEW c \in Active, PodStep(c) \/ AccountStep(c), UNCHANGED providerVars
      PROVE  StorageTypes'
  <2>1. GoesOn(c) /\ StepIsRight(c)' /\ Kind[c] \in ForPods \cup ForAccounts
    BY <1>4, PodStepIsRight, AccountStepIsRight DEF StepsAreRight, Active
  <2>2. pc'[c] # "consume"
    BY <2>1 DEF StepIsRight, ForPods, ForAccounts, Is
  <2> QED
    BY <1>3, <1>4, <2>1, <2>2 DEF providerVars, GoesOn
<1>5. ASSUME NEW c \in Made, expire(c)
      PROVE  StorageTypes'
  BY <1>3, <1>5 DEF expire, callVars
<1>6. CASE crash
  BY <1>3, <1>6 DEF crash, ProviderCrash, Workload
<1>7. ASSUME UNCHANGED providerVars, pc' = pc
      PROVE  StorageTypes'
  BY <1>3, <1>7 DEF providerVars
<1> QED
  BY <1>2, <1>4, <1>5, <1>6, <1>7 DEF Step, readConfig, initialize, listen, callVars

-----------------------------------------------------------------------------
(* The theorems.                                                           *)

AInv == PodsInv /\ PodsAreOwn /\ AccountsInv /\ StorageTypes

\* The invariant holds at the start.
LEMMA AccountsStartRight == Init => AInv
<1>1. SUFFICES ASSUME Init PROVE AInv
  OBVIOUS
<1>2. \A c \in Workload : pc[c] = "idle"
  <2>1. PICK W \in Workloads : pc = [c \in W |-> "idle"]
    BY <1>1, Zenon DEF Init
  <2> QED
    BY <2>1 DEF Workload
<1>3. phase = "off" /\ restarts = 0 /\ acked = Empty /\ overlapping = {}
  BY <1>1 DEF Init
<1>4. PICK s \in Stored : PodInit(PodIds, s)
  BY <1>1 DEF Init
<1>5. /\ contents = [p \in PodIds |-> {}] /\ config = s /\ torn = FALSE /\ DOMAIN routing = {}
      /\ todo = [c \in Workload |-> <<>>] /\ initLeft = {}
      /\ DOMAIN s \subseteq PodIds /\ \A p \in DOMAIN s : s[p].baseUrl = p
  BY <1>4, InputsAssumption DEF PodInit, Empty
<1>6. PodsInv
  <2>1. PodTypes
    BY <1>5 DEF PodTypes
  <2>2. ServerIsRight
    BY <1>2, <1>3, CallsAssumption DEF ServerIsRight, Running
  <2>3. \A c \in Workload : FormIsRight(c) /\ PodIsRight(c)
    BY <1>2, <1>5 DEF FormIsRight, PodIsRight, HasPod
  <2> QED
    BY <2>1, <2>2, <2>3 DEF PodsInv
<1>7. PodsAreOwn
  BY <1>2 DEF PodsAreOwn, OwnPod, HasPod
<1>8. AccountsInv
  <2>1. /\ DOMAIN accounts = {} /\ DOMAIN records = {} /\ DOMAIN tokens = {} /\ DOMAIN acked = {}
        /\ account = [c \in Workload |-> NoAccount] /\ address = [c \in Workload |-> "none"]
    BY <1>1, <1>3 DEF Init, AccountInit, Empty
  <2>2. AccountTypes
    BY <1>2, <2>1 DEF AccountTypes, ReadsAreRight
  <2>3. \A e : AddressIsRight(e)
    BY <1>2, <2>1 DEF AddressIsRight, RegisterKnows, ResetKnows
  <2> QED
    BY <2>2, <2>3 DEF AccountsInv
<1>9. StorageTypes
  <2>1. DOMAIN entries = {} /\ passed = {} /\ found = [c \in Workload |-> {}]
    BY <1>1 DEF Init, ProviderInit, Empty
  <2> QED
    BY <1>2, <2>1 DEF StorageTypes, EntryTypes
<1> QED
  BY <1>6, <1>7, <1>8, <1>9 DEF AInv

\* Nothing that the invariant is about has changed.
LEMMA AccountsStutter ==
  ASSUME AInv, UNCHANGED vars
  PROVE  AInv'
<1>1. /\ UNCHANGED <<pc, phase, restarts, contents, config, torn, routing, todo, initLeft>>
      /\ UNCHANGED <<accounts, records, tokens, account, address, entries, passed, found>>
      /\ UNCHANGED <<overlapping, acked>> /\ Workload' = Workload
  BY DEF vars, callVars, podVars, accountVars, providerVars, history, Workload
<1>2. PodsInv'
  <2>1. ServerIsRight'
    BY <1>1 DEF AInv, PodsInv, ServerIsRight, Running
  <2> QED
    BY <1>1, <2>1, PodsRest DEF AInv, PodsInv, PodTypes
<1>3. PodsAreOwn'
  BY <1>1 DEF AInv, PodsAreOwn, OwnPod, HasPod
<1>4. AccountsInv'
  BY <1>1 DEF AInv, AccountsInv, AccountTypes, ReadsAreRight, AddressIsRight, RegisterKnows, ResetKnows,
     AccountIsOf
<1>5. StorageTypes'
  BY <1>1 DEF AInv, StorageTypes, EntryTypes, Made
<1> QED
  BY <1>2, <1>3, <1>4, <1>5 DEF AInv

\* The invariant behind the theorems is inductive.
THEOREM AInvHolds == Spec => []AInv
<1>1. IInv /\ AInv /\ [Next]_vars => AInv'
  <2>1. ASSUME IInv, AInv, Step, Remember PROVE AInv'
    BY <2>1, PodsStayRight, PodsStayOwn, AccountsStayRight, StorageTypesStay DEF IInv, AInv
  <2> QED
    BY <2>1, AccountsStutter DEF Next
<1> QED
  BY IInvHolds, AccountsStartRight, <1>1, PTL DEF Spec

\* The variables have the values that they are meant for: an open template
\* folder only where a pod is being filled, resources of the template only in
\* pods, a WebID that exists in every account, and no entry without a value.
THEOREM TypeOKHolds == Spec => []TypeOK
<1>1. AInv => TypeOK
  <2>1. SUFFICES ASSUME AInv PROVE TypeOK
    OBVIOUS
  <2>2. /\ DOMAIN contents = PodIds /\ DOMAIN config \subseteq PodIds /\ torn \in BOOLEAN
        /\ DOMAIN routing \subseteq PodIds /\ initLeft \subseteq DOMAIN config
        /\ \A p \in PodIds : \A x \in contents[p] : x[1] \in WholeTemplate
    BY <2>1 DEF AInv, PodsInv, PodTypes
  <2>3. phase \in {"off", "starting", "up", "down"} /\ restarts \in 0 .. MaxRestarts
    BY <2>1 DEF AInv, PodsInv, ServerIsRight
  <2>4. \A c \in Made : todo[c] # <<>> <=> pc[c] = "adding"
    BY <2>1 DEF AInv, PodsInv, PodIsRight, Made
  <2>5. /\ \A e \in DOMAIN accounts : accounts[e].verified \in BOOLEAN /\ accounts[e].webId \in WebIds
        /\ DOMAIN records \subseteq Calls /\ DOMAIN tokens \subseteq WebIds
    BY <2>1 DEF AInv, AccountsInv, AccountTypes, AccountSet
  <2> QED
    BY <2>1, <2>2, <2>3, <2>4, <2>5 DEF TypeOK, AInv, StorageTypes, EntryTypes
<1> QED
  BY AInvHolds, <1>1, PTL

\* A pod that has all of its resources has the template's, and nothing else.
LEMMA PodIsWhole ==
  ASSUME PodTypes, NEW p \in PodIds, AllMade(p)
  PROVE  /\ {x[1] : x \in contents[p]} = WholeTemplate
         /\ \A c : (\A x \in contents[p] : x[2] = c) => contents[p] = {<<w, c>> : w \in WholeTemplate}
<1>1. contents[p] \subseteq WholeTemplate \X Workload
  BY DEF PodTypes
<1> DEFINE whole(r) == <<r, [resource |-> r, meta |-> TRUE] \in Files>>
<1>2. \A w \in WholeTemplate : \E r \in Resources : w = whole(r)
  BY Zenon DEF WholeTemplate
<1>3. \A r : whole(r)[1] = r
  OBVIOUS
<1> HIDE DEF whole
<1>4. \A w \in WholeTemplate : w = whole(w[1]) /\ w[1] \in Resources
  <2>1. TAKE w \in WholeTemplate
  <2>2. PICK r \in Resources : w = whole(r)
    BY <1>2
  <2>3. w[1] = r
    BY <1>3, <2>2
  <2> QED
    BY <2>2, <2>3
<1>5. ASSUME NEW v \in WholeTemplate, NEW w \in WholeTemplate, v[1] = w[1]
      PROVE  v = w
  <2>1. v = whole(v[1]) /\ w = whole(w[1])
    BY <1>4
  <2> QED
    BY <1>5, <2>1, Zenon
<1>6. ASSUME NEW w \in WholeTemplate
      PROVE  \E x \in contents[p] : x[1] = w
  <2>1. w[1] \in Resources
    BY <1>4
  <2>2. PICK x \in contents[p] : x[1][1] = w[1]
    BY <2>1 DEF AllMade, IsMade
  <2> QED
    BY <1>1, <1>5, <2>2
<1>7. ASSUME NEW c, \A x \in contents[p] : x[2] = c
      PROVE  contents[p] = {<<w, c>> : w \in WholeTemplate}
  <2>1. \A x \in contents[p] : x = <<x[1], c>> /\ x[1] \in WholeTemplate
    BY <1>1, <1>7
  <2> QED
    BY <1>6, <2>1
<1> QED
  BY <1>1, <1>6, <1>7

\* Once the server is up, every pod that was acknowledged is routed to its own
\* store, with all resources of the template.
THEOREM PodsAreFoundHolds == Spec => []PodsAreFound
<1>1. AInv => PodsAreFound
  <2>1. SUFFICES ASSUME AInv, phase = "up", NEW c \in Made, Is(c, "dynamicPod"), pc[c] = "done"
                 PROVE  /\ {x[1] : x \in contents[PodFor(c)]} = WholeTemplate
                        /\ \A r \in DOMAIN Within :
                             Within[r] = {PodFor(c)} => findStore(r) = {PodFor(c)}
    BY DEF PodsAreFound
  <2>2. /\ PodTypes /\ AllMade(PodFor(c)) /\ PodFor(c) \in DOMAIN config /\ DOMAIN config \subseteq PodIds
        /\ PodFor(c) \in DOMAIN routing /\ routing[PodFor(c)] = PodFor(c)
    BY <2>1 DEF AInv, PodsInv, PodTypes, ServerIsRight, PodIsRight, HasPod, Made
  <2>3. {x[1] : x \in contents[PodFor(c)]} = WholeTemplate
    BY <2>2, PodIsWhole
  <2>4. ASSUME NEW r, Within[r] = {PodFor(c)}
        PROVE  findStore(r) = {PodFor(c)}
    BY <2>2, <2>4 DEF findStore
  <2> QED
    BY <2>3, <2>4
<1> QED
  BY AInvHolds, <1>1, PTL

\* An account that can be logged in to is complete, and one that was
\* acknowledged can be logged in to with the last password acknowledged.
THEOREM UsableAccountsAreCompleteHolds == Spec => []UsableAccountsAreComplete
<1>1. IInv /\ AInv => UsableAccountsAreComplete
  <2>1. SUFFICES ASSUME IInv, AInv, NEW e \in (DOMAIN accounts \cup DOMAIN acked) \ overlapping
                 PROVE  /\ e \in DOMAIN acked =>
                             e \in DOMAIN accounts /\ accounts[e].password = Input[acked[e]].password
                        /\ e \in DOMAIN acked /\ Registers(acked[e]) => accounts[e].verified
                        /\ accounts[e].verified => \E c \in Made :
                             /\ Registers(c) /\ EmailOf(c) = e
                             /\ Changes(c) \cap overlapping # {} \/ AsRegistered(c)
    BY DEF UsableAccountsAreComplete
  <2>2. AddressIsRight(e)
    BY <2>1 DEF AInv, AccountsInv, AccountTypes
  <2>3. e \in DOMAIN accounts
    BY <2>1, <2>2 DEF AddressIsRight
  <2>4. ASSUME accounts[e].verified
        PROVE  \E c \in Made : /\ Registers(c) /\ EmailOf(c) = e
                               /\ Changes(c) \cap overlapping # {} \/ AsRegistered(c)
    <3>1. PICK c \in Workload : AccountIsOf(c, e)
      BY <2>2, <2>3, <2>4 DEF AddressIsRight
    <3>2. /\ c \in Made /\ Registers(c) /\ EmailOf(c) = e /\ pc[c] = "done" /\ Is(c, "register")
          /\ accounts[EmailOf(c)].webId = webIdFor(c) /\ c \in Calls
          /\ validateInput(Input[c])
      BY <2>1, <3>1 DEF AccountIsOf, Made, Registers, IInv, StepsAreRight, AInv, PodsInv, FormIsRight
    <3>3. ASSUME Input[c].createPod, Changes(c) \cap overlapping = {}
          PROVE  CompletePod(c)
      <4>1. MakesPod(c) /\ PodFor(c) \notin overlapping
        BY <3>2, <3>3, PodIsChanged DEF MakesPod, validateInput
      <4>2. HasPod(c) /\ PodFor(c) \in PodIds
        BY <3>2, <3>3, InputsAssumption DEF HasPod, Is
      <4>3. PodTypes /\ AllMade(PodFor(c)) /\ \A x \in contents[PodFor(c)] : x[2] = c
        BY <2>1, <4>1, <4>2, <3>1 DEF AInv, PodsInv, PodIsRight, PodsAreOwn, OwnPod
      <4> QED
        BY <4>2, <4>3, PodIsWhole DEF CompletePod
    <3> QED
      BY <3>2, <3>3 DEF AsRegistered
  <2> QED
    BY <2>2, <2>4 DEF AddressIsRight
<1> QED
  BY IInvHolds, AInvHolds, <1>1, PTL
=============================================================================
