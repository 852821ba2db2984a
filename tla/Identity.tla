------------------------------- MODULE Identity -------------------------------
(***************************************************************************)
(* The identity provider and the pods together, in one server that may     *)
(* crash between any two steps and is started again, and what a user or    *)
(* the OIDC library may rely on.                                           *)
(***************************************************************************)
EXTENDS Accounts, ProviderStorage

CONSTANTS PodIds, WebIds,
          Stored         \* the pods that may be in the configuration at first

\* A name has an identifier, and what is stored of a pod is that of its own.
ASSUME InputsAssumption ==
  /\ \A c \in Calls :
       /\ Kind[c] = "dynamicPod" => PodFor(c) \in PodIds
       /\ Kind[c] = "register" /\ validateInput(Input[c]) =>
            webIdFor(c) \in WebIds /\ (Input[c].createPod => PodFor(c) \in PodIds)
  /\ \A s \in Stored : DOMAIN s \subseteq PodIds /\ \A p \in DOMAIN s : s[p].baseUrl = p

VARIABLES
  overlapping,   \* history: addresses, pods and grants with simultaneous calls
  acked,         \* history: the last acknowledged call about each address
  spent,         \* history: links and tokens that a request has used,
  spentBefore,   \* and those that were used when a call began
  stored,        \* history: acknowledged upserts that no other has followed,
  revoked,       \* the payloads of them there were when a revocation began,
  lapsed         \* and grants whose list expired, or whose revocation crashed

history == <<overlapping, acked, spent, spentBefore, stored, revoked, lapsed>>
vars == <<callVars, podVars, accountVars, providerVars, history>>

Init ==
  /\ \E W \in Workloads : pc = [c \in W |-> "idle"]
  /\ phase = "off" /\ restarts = 0
  /\ \E s \in Stored : PodInit(PodIds, s)
  /\ AccountInit(WebIds) /\ ProviderInit
  /\ overlapping = {} /\ acked = Empty /\ spent = {} /\ lapsed = {}
  /\ spentBefore = [c \in Workload |-> {}]
  /\ stored = {} /\ revoked = [c \in Workload |-> {}]

\* The process ends, with what is only in memory.
crash ==
  /\ phase \in {"starting", "up"} /\ restarts < MaxRestarts
  /\ phase' = "off" /\ restarts' = restarts + 1
  /\ pc' = [c \in Workload |-> IF Running(c) THEN "crashed" ELSE pc[c]]
  /\ PodCrash /\ ProviderCrash /\ UNCHANGED accountVars

Step ==
  \/ /\ \/ \E c \in Active : PodStep(c)
        \/ readConfig \/ \E p \in PodIds : initialize(p)
        \/ listen
     /\ UNCHANGED <<accountVars, providerVars>>
  \/ /\ \/ \E c \in Active : AccountStep(c)
        \/ \E c \in Made : publish(c) /\ UNCHANGED callVars
        \/ \E w \in WebIds : expireToken(w) /\ UNCHANGED callVars
     /\ UNCHANGED <<podVars, providerVars>>
  \/ /\ \/ \E c \in Active : ProviderStep(c)
        \/ \E c \in Made : expire(c)
     /\ UNCHANGED <<podVars, accountVars>>
  \/ crash

-----------------------------------------------------------------------------
(* The history.                                                            *)

Ends(c) == pc[c] \notin Outcomes /\ pc'[c] \in Outcomes
Begun == {c \in Active : pc[c] = "idle" /\ pc'[c] # "idle"}
Done == {c \in Active : pc'[c] = "done"}

EmailOf(c) == IF Is(c, "reset") THEN Input[Input[c].link].email ELSE Input[c].email

\* What a call changes, and others should not at the same time.
Changes(c) ==
  CASE Is(c, "register") -> {EmailOf(c)} \cup
         (IF Input[c].podName = "none" THEN {} ELSE {PodFor(c)})
    [] Is(c, "reset") -> {EmailOf(c)}
    [] Is(c, "dynamicPod") -> {PodFor(c)}
    [] Is(c, "upsert") \/ Is(c, "consume") \/ Is(c, "revoke") -> {Input[c].grant}
    [] Is(c, "provider") -> {"keys"}
    [] OTHER -> {}

ChangedBy(S) == UNION {Changes(c) : c \in S}

Registers(c) == Is(c, "register") /\ Input[c].register

\* The link or the token that the success of a call rests on.
Secret(c) == CASE Is(c, "reset") -> Input[c].link
               [] Is(c, "register") -> token'[c].by
               [] OTHER -> "none"

\* The payloads of a grant that are stored and not expired.
Alive(g) == {k \in DOMAIN entries :
               k[1] = "payload" /\ g \in entries[k].value /\ ~isExpired(k)}

\* Calls that change an account: their e-mail address has a password since.
SetsPassword(c) == Registers(c) \/ Is(c, "reset")

\* What the last of these and the calls before it were.
Remember ==
  LET changed == {c \in Done : SetsPassword(c)}
      again == {keyFor(c) : c \in {d \in Begun : Is(d, "upsert")}}
      crashed == {c \in Active : Is(c, "revoke") /\ pc'[c] = "crashed"}
  IN  /\ overlapping' = overlapping \cup
           (ChangedBy(Begun) \cap ChangedBy({c \in Active : Running(c)}))
      /\ acked' = [e \in DOMAIN acked \cup {EmailOf(c) : c \in changed} |->
           IF \E c \in changed : EmailOf(c) = e THEN CHOOSE c \in changed : TRUE ELSE acked[e]]
      /\ spent' = spent \cup ({Secret(c) : c \in Done} \ {"none"})
      /\ spentBefore' = [c \in Workload |-> IF c \in Begun THEN spent ELSE spentBefore[c]]
      /\ stored' = {d \in stored : keyFor(d) \notin again} \cup {c \in Done : Is(c, "upsert")}
      /\ revoked' = [c \in Workload |-> IF c \in Begun /\ Is(c, "revoke")
           THEN {keyFor(d) : d \in {e \in stored : Input[e].grant = Input[c].grant}}
           ELSE revoked[c] \ again]
      /\ lapsed' = lapsed \cup {Input[c].grant : c \in crashed}
           \cup {k[2] : k \in {j \in DOMAIN entries : j[1] = "grant" /\ isExpired(j)}}

Next == Step /\ Remember

Spec == Init /\ [][Next]_vars

-----------------------------------------------------------------------------
(* Properties.                                                             *)

TypeOK ==
  /\ phase \in {"off", "starting", "up", "down"} /\ restarts \in 0 .. MaxRestarts
  /\ DOMAIN contents = PodIds /\ DOMAIN config \subseteq PodIds /\ torn \in BOOLEAN
  /\ DOMAIN routing \subseteq DOMAIN config \cup PodIds /\ initLeft \subseteq DOMAIN config
  /\ \A c \in Made : todo[c] # <<>> <=> pc[c] = "adding"
  /\ \A p \in PodIds : \A x \in contents[p] : x[1] \in WholeTemplate
  /\ \A e \in DOMAIN accounts : accounts[e].verified \in BOOLEAN /\ accounts[e].webId \in WebIds
  /\ DOMAIN records \subseteq Calls /\ DOMAIN tokens \subseteq WebIds
  /\ \A key \in DOMAIN entries :
       entries[key].expires \in {"never"} \cup Calls /\ entries[key].value # {}
  /\ passed \subseteq Made

\* The pod that a call makes has all resources, and they are its own.
CompletePod(c) == contents[PodFor(c)] = {<<x, c>> : x \in WholeTemplate}

AsRegistered(c) == /\ accounts[EmailOf(c)].webId = webIdFor(c)
           /\ Input[c].createPod => CompletePod(c)

\* An account can be logged in to only when the pod that was asked for with it
\* is finished ("This prevents there being a small timeframe where the account
\* can be used before the pod creation is finished"); and a registration that
\* was acknowledged can be used from then on, with its own WebID, with the
\* password that was acknowledged last, and with its own pod, whatever others
\* register and wherever the server crashes.  Excepted are addresses and pods
\* about which two calls overlapped: the code reads and stores accounts
\* without a lock.
UsableAccountsAreComplete ==
  \A e \in (DOMAIN accounts \cup DOMAIN acked) \ overlapping :
    /\ e \in DOMAIN acked =>
         e \in DOMAIN accounts /\ accounts[e].password = Input[acked[e]].password
    /\ e \in DOMAIN acked /\ Registers(acked[e]) => accounts[e].verified
    /\ accounts[e].verified => \E c \in Made :
         Registers(c) /\ EmailOf(c) = e /\ (Changes(c) \cap overlapping # {} \/ AsRegistered(c))

\* A link to reset a password, and a token that shows who owns a WebID, that a
\* request has succeeded with is of no use to requests that are made later.
SecretsWorkOnce ==
  [][\A c \in Active : Ends(c) /\ pc'[c] = "done" => Secret(c) \notin spentBefore[c]]_vars

\* Once the server accepts requests, every pod of ConfigPodManager that was
\* acknowledged is found again, with its own store and its resources.
PodsAreFound ==
  phase = "up" => \A c \in Made : Is(c, "dynamicPod") /\ pc[c] = "done" =>
    /\ {x[1] : x \in contents[PodFor(c)]} = WholeTemplate
    /\ \A r \in DOMAIN Within : Within[r] = {PodFor(c)} => findStore(r) = {PodFor(c)}

\* After a grant is revoked none of its payloads is left that was stored when
\* the revocation began, unless it was stored again.  Excepted are grants with
\* overlapping calls, whose list may have lost a payload; those whose list has
\* expired, which it does when the payload stored last does, be there others
\* or not: a clean-up may also delete a new list with it, and a call that
\* consumes a payload bring it back; and those of which a crash has cut off a
\* revocation, since the list may have gone before the payloads.
RevocationIsComplete ==
  \A c \in Made : Is(c, "revoke") /\ pc[c] = "done" =>
    \/ Input[c].grant \in overlapping \cup lapsed
    \/ revoked[c] \cap Alive(Input[c].grant) = {}

\* All requests, before and after restarts, are served with the same keys
\* ("The JWKS will be cached so subsequent calls return the same key"), unless
\* two of them asked for the provider before there was one.
KeysAreKept ==
  \A c, d \in Made : /\ Is(c, "provider") /\ pc[c] = "done"
                      /\ Is(d, "provider") /\ pc[d] = "done"
    => keys[c] = keys[d] \/ "keys" \in overlapping
=============================================================================
