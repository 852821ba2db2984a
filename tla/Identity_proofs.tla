---------------------------- MODULE Identity_proofs ----------------------------
(***************************************************************************)
(* Proofs about Identity for any calls, made in any number and order: what *)
(* each call does next, that calls which change the same overlap in the    *)
(* history, that secrets work once, that the keys are kept, and that       *)
(* revocation is complete.                                                 *)
(***************************************************************************)
EXTENDS Identity, TLAPS

\* Which call can be at which step.
StepIsRight(c) ==
  /\ pc[c] \in {"owner", "expired", "setToken", "fetch", "deleteToken",
                "create", "hash", "createPod", "verify", "verified"} => Is(c, "register")
  /\ pc[c] \in {"adding", "added", "podFailed"} => Is(c, "register") \/ Is(c, "dynamicPod")
  /\ pc[c] \in {"variables", "store", "writing"} => Is(c, "dynamicPod")
  /\ pc[c] = "compare" => Is(c, "login")
  /\ pc[c] \in {"record", "mail"} => Is(c, "forgot")
  /\ pc[c] \in {"deleteRecord", "changePassword", "setPassword"} => Is(c, "reset")
  /\ pc[c] = "upserting" => Is(c, "upsert")
  /\ pc[c] = "find" => Is(c, "findByUid")
  /\ pc[c] = "consume" => Is(c, "consume")
  /\ pc[c] = "sweeping" => Is(c, "sweep")
  /\ pc[c] = "deleting" => Kind[c] \in {"findByUid", "consume", "revoke", "sweep"}
  /\ pc[c] \in {"jwks", "setJwks", "cookies", "setCookies", "provide"} => Is(c, "provider")

StepsAreRight == Workload \subseteq Calls /\ \A c \in Workload : StepIsRight(c)

\* Only the call c goes on, and it does not start anew.
GoesOn(c) ==
  /\ Workload' = Workload /\ pc'[c] # "idle"
  /\ \A d \in Workload \ {c} : pc'[d] = pc[d]

\* Which part of the server a call is about.
ForPods == {"register", "dynamicPod", "route"}
ForAccounts == {"register", "login", "forgot", "reset"}
ForProvider == {"upsert", "findByUid", "consume", "destroy", "revoke", "sweep", "provider"}

-----------------------------------------------------------------------------
(* What each call does next.                                               *)

\* The steps of the pod managers.
LEMMA PodStepIsRight ==
  ASSUME NEW c \in Active, StepIsRight(c), PodStep(c)
  PROVE  GoesOn(c) /\ StepIsRight(c)' /\ Kind[c] \in ForPods
<1> USE DEF Go, At, Is, StepIsRight, GoesOn, ForPods, Workload, Active
<1>1. CASE addToPod(c)
  BY <1>1 DEF addToPod, addGeneratedResources
<1>2. CASE createPod(c) \/ generateStore(c) \/ instantiate(c)
  BY <1>2 DEF createPod, generateStore, instantiate
<1>3. CASE updateJsonSafely(c) \/ storedConfig(c) \/ addToRouting(c) \/ failedPod(c) \/ route(c)
  BY <1>3 DEF updateJsonSafely, storedConfig, addToRouting, failedPod, route
<1>4. QED
  BY <1>1, <1>2, <1>3 DEF PodStep

\* The steps of the handlers of forms.
LEMMA AccountStepIsRight ==
  ASSUME NEW c \in Active, StepIsRight(c), AccountStep(c)
  PROVE  GoesOn(c) /\ StepIsRight(c)' /\ Kind[c] \in ForAccounts
<1> USE DEF Go, At, Is, StepIsRight, GoesOn, ForAccounts, Workload, Active
<1>1. CASE parseInput(c) \/ getToken(c) \/ deleteExpired(c) \/ setToken(c)
           \/ fetchDataset(c) \/ deleteToken(c)
  BY <1>1 DEF parseInput, AfterOwnership, getToken, deleteExpired, setToken,
              fetchDataset, deleteToken
<1>2. CASE create(c) \/ created(c) \/ deleteAccount(c) \/ podAdded(c) \/ verify(c) \/ verified(c)
  BY <1>2 DEF create, created, deleteAccount, podAdded, verify, verified, Reads, Stores
<1>3. CASE login(c) \/ compare(c) \/ forgot(c) \/ generateForgotPasswordRecord(c) \/ sendResetMail(c)
  BY <1>3 DEF login, compare, forgot, generateForgotPasswordRecord, sendResetMail, Reads
<1>4. CASE reset(c) \/ deleteForgotPasswordRecord(c) \/ changePassword(c) \/ changedPassword(c)
  BY <1>4 DEF reset, deleteForgotPasswordRecord, changePassword, changedPassword, Reads, Stores
<1>5. QED
  BY <1>1, <1>2, <1>3, <1>4 DEF AccountStep

\* The steps of what the OIDC library is given.
LEMMA ProviderStepIsRight ==
  ASSUME NEW c \in Active, StepIsRight(c), ProviderStep(c)
  PROVE  GoesOn(c) /\ StepIsRight(c)' /\ Kind[c] \in ForProvider
<1> USE DEF Go, At, Is, StepIsRight, GoesOn, ForProvider, Workload, Active
<1>1. CASE removeExpiredEntries(c) \/ visit(c) \/ deleteOne(c)
  BY <1>1 DEF removeExpiredEntries, visit, deleteOne, Continue
<1>2. CASE upsert(c) \/ setPayload(c) \/ getGrants(c) \/ dropGrants(c) \/ setGrants(c) \/ setUid(c)
  BY <1>2 DEF upsert, setPayload, getGrants, dropGrants, setGrants, setUid, Upserting,
              Upserted, Continue
<1>3. CASE findByUid(c) \/ find(c) \/ consume(c) \/ destroy(c) \/ revokeByGrantId(c)
  BY <1>3 DEF findByUid, find, consume, destroy, revokeByGrantId, Continue
<1>4. CASE getProvider(c) \/ getJwks(c) \/ setJwks(c) \/ getCookieKeys(c)
           \/ setCookieKeys(c) \/ createProvider(c)
  BY <1>4 DEF getProvider, getJwks, setJwks, getCookieKeys, setCookieKeys, createProvider
<1>5. QED
  BY <1>1, <1>2, <1>3, <1>4 DEF ProviderStep

\* One call goes on, or none, or the server crashes with those that are running.
Moves ==
  \/ pc' = pc
  \/ \E c \in Active : GoesOn(c)
  \/ pc' = [c \in Workload |-> IF Running(c) THEN "crashed" ELSE pc[c]]

\* Every call stays at steps of its own.
LEMMA StepsStayRight ==
  ASSUME StepsAreRight, Step
  PROVE  StepsAreRight' /\ Moves
<1>1. ASSUME NEW c \in Active, GoesOn(c), StepIsRight(c)'
      PROVE  StepsAreRight' /\ Moves
  BY <1>1 DEF GoesOn, StepsAreRight, StepIsRight, Moves, Workload
<1>2. ASSUME pc' = pc
      PROVE  StepsAreRight' /\ Moves
  BY <1>2 DEF StepsAreRight, StepIsRight, Moves, Workload
<1>3. CASE crash
  BY <1>3 DEF crash, StepsAreRight, StepIsRight, Moves, Workload
<1>4. \A c \in Active : StepIsRight(c)
  BY DEF StepsAreRight, Active
<1>5. ASSUME ~crash, pc' # pc
      PROVE  \E c \in Active : PodStep(c) \/ AccountStep(c) \/ ProviderStep(c)
  BY <1>5 DEF Step, readConfig, initialize, listen, callVars, expire
<1>6. QED
  BY <1>1, <1>2, <1>3, <1>4, <1>5, PodStepIsRight, AccountStepIsRight, ProviderStepIsRight

\* A call that was made stays made, and one that has ended stays so; the step
\* that starts a call is the step of no other.
LEMMA CallsGoOn ==
  ASSUME Moves
  PROVE  /\ Workload' = Workload
         /\ \A c \in Workload :
              /\ pc[c] \in Outcomes => pc'[c] = pc[c]
              /\ pc'[c] = "idle" => pc[c] = "idle"
              /\ Running(c)' => Running(c) \/ (pc[c] = "idle" /\ pc'[c] # "idle")
              /\ \A d \in Workload : pc'[c] # pc[c] /\ pc[c] = "idle" /\ Running(d)' /\ c # d
                                     => Running(d)
<1>1. CASE pc' = pc
  BY <1>1 DEF Workload, Running
<1>2. ASSUME NEW c \in Active, GoesOn(c)
      PROVE  /\ Workload' = Workload
             /\ \A d \in Workload : pc[d] \in Outcomes => pc'[d] = pc[d]
             /\ \A d \in Workload : pc'[d] = "idle" => pc[d] = "idle"
             /\ \A d \in Workload : Running(d)' => Running(d) \/ (pc[d] = "idle" /\ pc'[d] # "idle")
             /\ \A d \in Workload : d # c => pc'[d] = pc[d]
  <2>1. c \in Workload /\ pc[c] \notin Outcomes
    BY DEF Active
  <2>2. QED
    BY <1>2, <2>1 DEF GoesOn, Running
<1>3. CASE pc' = [c \in Workload |-> IF Running(c) THEN "crashed" ELSE pc[c]]
  BY <1>3 DEF Workload, Running, Outcomes
<1>4. QED
  BY <1>1, <1>2, <1>3 DEF Moves, Running

\* StepsAreRight is an invariant of the calls.
LEMMA StepsStartRight == Init => StepsAreRight
<1>1. SUFFICES ASSUME Init PROVE StepsAreRight
  OBVIOUS
<1>2. PICK W \in Workloads : pc = [c \in W |-> "idle"]
  BY <1>1, Zenon DEF Init
<1>3. Workload \subseteq Calls /\ \A c \in Workload : pc[c] = "idle"
  BY <1>2, CallsAssumption DEF Workload
<1>4. QED
  BY <1>3 DEF StepsAreRight, StepIsRight

-----------------------------------------------------------------------------
(* Overlapping calls.                                                      *)

\* Of two calls that are running, what both change is in the history.
OverlapsAreKnown ==
  \A c, d \in Workload : c # d /\ Running(c) /\ Running(d)
    => Changes(c) \cap Changes(d) \subseteq overlapping

\* The history grows, by what a call that starts has in common with others.
LEMMA OverlapsGrow ==
  ASSUME Remember
  PROVE  /\ overlapping \subseteq overlapping'
         /\ \A c, d \in Workload : pc[c] = "idle" /\ pc'[c] # "idle" /\ Running(d)
              => Changes(c) \cap Changes(d) \subseteq overlapping'
<1>1. overlapping' = overlapping \cup
        (ChangedBy(Begun) \cap ChangedBy({c \in Active : Running(c)}))
  BY DEF Remember
<1>2. \A S : \A c \in S : Changes(c) \subseteq ChangedBy(S)
  BY DEF ChangedBy
<1>3. ASSUME NEW c \in Workload, NEW d \in Workload,
             pc[c] = "idle" /\ pc'[c] # "idle" /\ Running(d)
      PROVE  c \in Begun /\ d \in {e \in Active : Running(e)}
  BY <1>3 DEF Active, Running, Outcomes, Begun
<1>4. QED
  BY <1>1, <1>2, <1>3

\* OverlapsAreKnown is inductive.
LEMMA OverlapsStayKnown ==
  ASSUME OverlapsAreKnown, Moves, Remember
  PROVE  OverlapsAreKnown'
<1>1. SUFFICES ASSUME NEW c \in Workload, NEW d \in Workload, c # d, Running(c)', Running(d)'
               PROVE  Changes(c) \cap Changes(d) \subseteq overlapping'
  BY CallsGoOn DEF OverlapsAreKnown, Changes, Is, EmailOf, PodFor, generate
<1>2. CASE Running(c) /\ Running(d)
  BY <1>1, <1>2, OverlapsGrow DEF OverlapsAreKnown
<1>3. CASE Running(c) /\ ~Running(d)
  BY <1>1, <1>3, CallsGoOn, OverlapsGrow DEF Running
<1>4. CASE ~Running(c) /\ Running(d)
  BY <1>1, <1>4, CallsGoOn, OverlapsGrow DEF Running
<1>5. CASE ~Running(c) /\ ~Running(d)
  BY <1>1, <1>5, CallsGoOn
<1>6. QED
  BY <1>2, <1>3, <1>4, <1>5
-----------------------------------------------------------------------------
(* The keys of the provider.                                               *)

StoredKeys == [jwks |-> jwks, cookies |-> cookies]
KeyNames == Calls \cup {"none"}
Keys == [jwks : KeyNames, cookies : KeyNames]

\* What a call for the provider has is what is stored, or what it will store
\* where nothing is stored.
KeysAreKnown(c) ==
  /\ pc[c] = "setJwks" => jwks = "none" /\ keys[c].jwks = c
  /\ pc[c] \in {"cookies", "setCookies", "provide"} => jwks # "none" /\ keys[c].jwks = jwks
  /\ pc[c] = "setCookies" => cookies = "none" /\ keys[c].cookies = c
  /\ pc[c] = "provide" => cookies # "none" /\ keys[c].cookies = cookies
  /\ pc[c] = "done" => jwks # "none" /\ cookies # "none" /\ keys[c] = StoredKeys

KeysAreStored ==
  /\ \A c \in Workload : Is(c, "provider") => KeysAreKnown(c)
  /\ provider # NoKeys => jwks # "none" /\ cookies # "none" /\ provider = StoredKeys

KeysInv ==
  /\ jwks \in KeyNames /\ cookies \in KeyNames /\ provider \in Keys
  /\ keys \in [Workload -> Keys]
  /\ "keys" \notin overlapping => KeysAreStored

\* A call that does not ask for the provider has nothing to do with the keys.
LEMMA KeysWait ==
  ASSUME KeysInv, Workload' = Workload, overlapping \subseteq overlapping',
         UNCHANGED <<jwks, cookies, keys>>, provider' \in {provider, NoKeys},
         \A c \in Workload : Is(c, "provider") => pc'[c] \in {pc[c], "crashed"}
  PROVE  KeysInv'
<1>1. NoKeys \in Keys
  BY DEF NoKeys, Keys, KeyNames
<1>2. KeysAreStored => KeysAreStored'
  BY DEF KeysAreStored, KeysAreKnown, StoredKeys, Is
<1>3. QED
  BY <1>1, <1>2 DEF KeysInv

\* The only call for the provider that is running finds what is stored.
LEMMA KeysStayRight ==
  ASSUME KeysInv, StepsAreRight, OverlapsAreKnown, Moves, Step, Remember
  PROVE  KeysInv'
<1>1. Workload' = Workload /\ overlapping \subseteq overlapping'
  BY CallsGoOn, OverlapsGrow
<1>2. CASE crash
  <2>1. \A c \in Workload : pc'[c] \in {pc[c], "crashed"}
    BY <1>2 DEF crash
  <2>2. QED
    BY <1>1, <1>2, <2>1, KeysWait DEF crash, ProviderCrash
<1>3. ASSUME NEW c \in Active, GoesOn(c), ~Is(c, "provider"), UNCHANGED <<jwks, cookies, keys, provider>>
      PROVE  KeysInv'
  BY <1>1, <1>3, KeysWait DEF GoesOn
<1>4. ASSUME UNCHANGED <<pc, jwks, cookies, keys, provider>>
      PROVE  KeysInv'
  BY <1>1, <1>4, KeysWait
<1>5. ASSUME NEW c \in Active, PodStep(c) \/ AccountStep(c), UNCHANGED providerVars
      PROVE  KeysInv'
  <2>1. GoesOn(c) /\ Kind[c] \in ForPods \cup ForAccounts
    BY <1>5, PodStepIsRight, AccountStepIsRight DEF StepsAreRight, Active
  <2>2. QED
    BY <1>3, <1>5, <2>1 DEF Is, ForPods, ForAccounts, providerVars
<1>6. ASSUME NEW c \in Active, ProviderStep(c)
      PROVE  KeysInv'
  <2>1. GoesOn(c) /\ StepIsRight(c) /\ c \in Workload /\ c \in Calls
    BY <1>6, ProviderStepIsRight DEF StepsAreRight, Active
  <2>a. ASSUME Is(c, "provider"), Running(c), "keys" \notin overlapping
        PROVE  \A d \in Workload \ {c} : Is(d, "provider") => ~Running(d)
    <3>1. \A d \in Workload : Is(d, "provider") => "keys" \in Changes(d)
      BY DEF Changes, Is
    <3>2. QED
      BY <2>1, <2>a, <3>1 DEF OverlapsAreKnown
  <2> USE DEF Go, Workload
  <2>2. CASE getProvider(c)
    <3>1. keys' \in [Workload -> Keys] /\ provider' \in Keys /\ jwks' \in KeyNames /\ cookies' \in KeyNames
      BY <2>1, <2>2 DEF getProvider, UseKeys, KeysInv, Keys, KeyNames
    <3>2. "keys" \notin overlapping /\ KeysAreStored => KeysAreStored'
      BY <2>1, <2>a, <2>2 DEF getProvider, UseKeys, KeysAreStored, KeysAreKnown, StoredKeys, Is, GoesOn,
         Running, Outcomes, StepIsRight, KeysInv, Keys, KeyNames, NoKeys
    <3>3. QED
      BY <1>1, <3>1, <3>2 DEF KeysInv
  <2>3. CASE getJwks(c)
    <3>1. keys' \in [Workload -> Keys] /\ provider' \in Keys /\ jwks' \in KeyNames /\ cookies' \in KeyNames
      BY <2>1, <2>3 DEF getJwks, UseKeys, KeysInv, Keys, KeyNames
    <3>2. "keys" \notin overlapping /\ KeysAreStored => KeysAreStored'
      BY <2>1, <2>a, <2>3 DEF getJwks, UseKeys, KeysAreStored, KeysAreKnown, StoredKeys, Is, GoesOn,
         Running, Outcomes, StepIsRight, KeysInv, Keys, KeyNames, NoKeys
    <3>3. QED
      BY <1>1, <3>1, <3>2 DEF KeysInv
  <2>4. CASE setJwks(c)
    <3>1. keys' \in [Workload -> Keys] /\ provider' \in Keys /\ jwks' \in KeyNames /\ cookies' \in KeyNames
      BY <2>1, <2>4 DEF setJwks, UseKeys, KeysInv, Keys, KeyNames
    <3>2. "keys" \notin overlapping /\ KeysAreStored => KeysAreStored'
      BY <2>1, <2>a, <2>4, CallsAssumption DEF setJwks, UseKeys, KeysAreStored, KeysAreKnown, StoredKeys, Is, GoesOn,
         Running, Outcomes, StepIsRight, KeysInv, Keys, KeyNames, NoKeys
    <3>3. QED
      BY <1>1, <3>1, <3>2 DEF KeysInv
  <2>5. CASE getCookieKeys(c)
    <3>1. keys' \in [Workload -> Keys] /\ provider' \in Keys /\ jwks' \in KeyNames /\ cookies' \in KeyNames
      BY <2>1, <2>5 DEF getCookieKeys, UseKeys, KeysInv, Keys, KeyNames
    <3>2. "keys" \notin overlapping /\ KeysAreStored => KeysAreStored'
      BY <2>1, <2>a, <2>5 DEF getCookieKeys, UseKeys, KeysAreStored, KeysAreKnown, StoredKeys, Is, GoesOn,
         Running, Outcomes, StepIsRight, KeysInv, Keys, KeyNames, NoKeys
    <3>3. QED
      BY <1>1, <3>1, <3>2 DEF KeysInv
  <2>6. CASE setCookieKeys(c)
    <3>1. keys' \in [Workload -> Keys] /\ provider' \in Keys /\ jwks' \in KeyNames /\ cookies' \in KeyNames
      BY <2>1, <2>6 DEF setCookieKeys, UseKeys, KeysInv, Keys, KeyNames
    <3>2. "keys" \notin overlapping /\ KeysAreStored => KeysAreStored'
      BY <2>1, <2>a, <2>6, CallsAssumption DEF setCookieKeys, UseKeys, KeysAreStored, KeysAreKnown, StoredKeys, Is, GoesOn,
         Running, Outcomes, StepIsRight, KeysInv, Keys, KeyNames, NoKeys
    <3>3. QED
      BY <1>1, <3>1, <3>2 DEF KeysInv
  <2>7. CASE createProvider(c)
    <3>1. keys' \in [Workload -> Keys] /\ provider' \in Keys /\ jwks' \in KeyNames /\ cookies' \in KeyNames
      BY <2>1, <2>7 DEF createProvider, UseKeys, KeysInv, Keys, KeyNames
    <3>2. "keys" \notin overlapping /\ KeysAreStored => KeysAreStored'
      BY <2>1, <2>a, <2>7 DEF createProvider, UseKeys, KeysAreStored, KeysAreKnown, StoredKeys, Is, GoesOn,
         Running, Outcomes, StepIsRight, KeysInv, Keys, KeyNames, NoKeys
    <3>3. QED
      BY <1>1, <3>1, <3>2 DEF KeysInv
  <2>8. CASE removeExpiredEntries(c) \/ visit(c) \/ deleteOne(c)
             \/ upsert(c) \/ setPayload(c) \/ getGrants(c) \/ dropGrants(c) \/ setGrants(c)
             \/ setUid(c) \/ findByUid(c) \/ find(c) \/ consume(c) \/ destroy(c)
             \/ revokeByGrantId(c)
    <3>1. ~Is(c, "provider")
      BY <2>1, <2>8 DEF removeExpiredEntries, visit, deleteOne, upsert, setPayload, getGrants,
           dropGrants, setGrants, setUid, findByUid, find, consume, destroy, revokeByGrantId,
           Upserting, At, Is, StepIsRight
    <3>2. UNCHANGED <<jwks, cookies, keys, provider>>
      BY <2>8 DEF removeExpiredEntries, visit, deleteOne, upsert, setPayload, getGrants,
           dropGrants, setGrants, setUid, findByUid, find, consume, destroy, revokeByGrantId
    <3>3. QED
      BY <1>3, <2>1, <3>1, <3>2
  <2>9. QED
    BY <1>6, <2>2, <2>3, <2>4, <2>5, <2>6, <2>7, <2>8 DEF ProviderStep
<1>7. QED
  BY <1>2, <1>4, <1>5, <1>6 DEF Step, readConfig, initialize, listen, providerVars, callVars, expire
-----------------------------------------------------------------------------
(* Links and tokens.                                                       *)

\* A token is of a registration that was told about it, for the same WebID.
IsTokenFor(x, w) ==
  x \in Workload /\ Is(x, "register") /\ pc[x] = "told" /\ Input[x].webId = w

\* The steps of a registration that comes after the question who owns the WebID.
Owned == {"create", "hash", "createPod", "adding", "added", "podFailed", "verify", "verified"}

\* A link that was used has no record, nor has one that is being used.
LinksAreRight ==
  /\ DOMAIN address = Workload
  /\ mailed \subseteq {x \in Workload : Is(x, "forgot") /\ pc[x] = "done"}
  /\ DOMAIN records \subseteq {x \in Workload : Is(x, "forgot")}
  /\ DOMAIN records \cap spent = {}
  /\ \A c \in Workload :
       /\ pc[c] \in {"deleteRecord", "changePassword", "setPassword"} =>
            Input[c].link \in mailed /\ Input[c].link \notin spentBefore[c]
       /\ pc[c] \in {"changePassword", "setPassword"} => Input[c].link \notin DOMAIN records

\* What a registration knows of the token of its WebID.
TokenIsRight(c) ==
  /\ pc[c] \in {"idle", "owner"} => token[c].by = "none"
  /\ /\ pc[c] \in {"expired", "fetch", "deleteToken"} \cup Owned
     /\ token[c].by # "none"
     => IsTokenFor(token[c].by, Input[c].webId) /\ token[c].by \notin spentBefore[c]
  /\ pc[c] \in Owned => \A w \in DOMAIN tokens : tokens[w].by # token[c].by

\* A token that was used is not stored.
StoredIsRight(w) ==
  /\ tokens[w] \in [by : Calls, expired : BOOLEAN]
  /\ IsTokenFor(tokens[w].by, w) /\ tokens[w].by \notin spent

TokensAreRight ==
  /\ \A w \in DOMAIN tokens : StoredIsRight(w)
  /\ DOMAIN token = Workload
  /\ \A c \in Workload : Is(c, "register") => TokenIsRight(c)

SpentIsRight ==
  /\ spent \subseteq mailed \cup {x \in Workload : Is(x, "register") /\ pc[x] = "told"}
  /\ \A c \in Workload : spentBefore[c] \subseteq spent

SecretsInv == LinksAreRight /\ TokensAreRight /\ SpentIsRight

\* What the history keeps of the secrets when a call goes on.
LEMMA SecretsAreRemembered ==
  ASSUME NEW c \in Active, GoesOn(c), Remember
  PROVE  /\ spent' = spent \cup (IF pc'[c] = "done" THEN {Secret(c)} \ {"none"} ELSE {})
         /\ \A d \in Workload : spentBefore'[d] =
              IF d = c /\ pc[c] = "idle" THEN spent ELSE spentBefore[d]
<1>1. Done = (IF pc'[c] = "done" THEN {c} ELSE {}) /\ Begun = (IF pc[c] = "idle" THEN {c} ELSE {})
  BY DEF GoesOn, Active, Outcomes, Done, Begun
<1>2. spent' = spent \cup ({Secret(d) : d \in Done} \ {"none"})
  BY DEF Remember
<1>3. spentBefore' = [d \in Workload |-> IF d \in Begun THEN spent ELSE spentBefore[d]]
  BY DEF Remember
<1>4. QED
  BY <1>1, <1>2, <1>3

\* And when none does.
LEMMA NothingIsSpent ==
  ASSUME \A c \in Active : pc'[c] = pc[c] \/ (pc[c] # "idle" /\ pc'[c] = "crashed"), Remember
  PROVE  spent' = spent /\ \A d \in Workload : spentBefore'[d] = spentBefore[d]
<1>1. Done = {} /\ Begun = {}
  BY DEF Active, Outcomes, Done, Begun
<1>2. spent' = spent \cup ({Secret(d) : d \in Done} \ {"none"})
  BY DEF Remember
<1>3. spentBefore' = [d \in Workload |-> IF d \in Begun THEN spent ELSE spentBefore[d]]
  BY DEF Remember
<1>4. QED
  BY <1>1, <1>2, <1>3

\* A call waits for the token of nobody.
LEMMA TokensWait ==
  ASSUME SecretsInv, Workload' = Workload, NEW c \in Workload, Is(c, "register"),
         \A d \in Workload : pc[d] = "told" => pc'[d] = "told",
         \/ pc'[c] = pc[c]
         \/ pc'[c] \in Outcomes
         \/ pc[c] \in Owned /\ pc'[c] \in Owned
         \/ pc[c] = "fetch" /\ pc'[c] = "deleteToken",
         token'[c] = token[c], spentBefore'[c] = spentBefore[c],
         \A w \in DOMAIN tokens' : w \in DOMAIN tokens /\ tokens'[w].by = tokens[w].by
  PROVE  TokenIsRight(c)'
  BY DEF SecretsInv, TokensAreRight, StoredIsRight, TokenIsRight, IsTokenFor, Outcomes, Owned
\* A step of one call leaves the others with the tokens that they know.
LEMMA OwnStepKeepsTokens ==
  ASSUME SecretsInv, NEW c \in Workload, GoesOn(c), pc[c] \notin Outcomes,
         spent' = spent, DOMAIN token' = Workload,
         \A d \in Workload : spentBefore'[d] = IF d = c /\ pc[c] = "idle" THEN spent ELSE spentBefore[d],
         \A d \in Workload \ {c} : token'[d] = token[d],
         Is(c, "register") => TokenIsRight(c)',
         \A w \in DOMAIN tokens' : w \in DOMAIN tokens /\ tokens'[w] = tokens[w]
  PROVE  TokensAreRight'
<1>1. /\ Workload' = Workload /\ \A d \in Workload \ {c} : pc'[d] = pc[d]
      /\ \A d \in Workload : pc[d] = "told" => pc'[d] = "told"
  BY DEF GoesOn, Outcomes
<1>2. \A d \in Workload \ {c} : Is(d, "register") => TokenIsRight(d)'
  BY <1>1, TokensWait
<1>3. QED
  BY <1>1, <1>2 DEF SecretsInv, TokensAreRight, StoredIsRight, IsTokenFor, Is

\* A step of one call leaves the others with the links that they know.
LEMMA OwnStepKeepsLinks ==
  ASSUME SecretsInv, NEW c \in Workload, GoesOn(c), pc[c] \notin Outcomes,
         spent' = spent, UNCHANGED <<records, mailed>>, DOMAIN address' = DOMAIN address,
         \A d \in Workload : spentBefore'[d] = IF d = c /\ pc[c] = "idle" THEN spent ELSE spentBefore[d],
         pc'[c] \notin {"deleteRecord", "changePassword", "setPassword"}
  PROVE  LinksAreRight' /\ SpentIsRight'
<1>1. /\ Workload' = Workload /\ \A d \in Workload \ {c} : pc'[d] = pc[d]
      /\ \A d \in Workload : pc[d] \in {"told", "done"} => pc'[d] = pc[d]
  BY DEF GoesOn, Outcomes
<1>2. SpentIsRight'
  BY <1>1 DEF SecretsInv, SpentIsRight
<1>3. LinksAreRight'
  BY <1>1 DEF SecretsInv, LinksAreRight, SpentIsRight
<1>4. QED
  BY <1>2, <1>3

\* A step that has to do with neither links nor tokens.
LEMMA SecretsWait ==
  ASSUME SecretsInv, NEW c \in Active, GoesOn(c), Remember,
         UNCHANGED <<records, mailed, tokens, token>>, DOMAIN address' = DOMAIN address,
         Is(c, "register") =>
           \/ pc'[c] \in Outcomes
           \/ pc[c] \in Owned /\ pc'[c] \in Owned
           \/ pc[c] = "fetch" /\ pc'[c] = "deleteToken",
         Is(c, "reset") => pc'[c] \in Outcomes,
         Is(c, "register") \/ Is(c, "reset") => pc'[c] # "done",
         StepIsRight(c)'
  PROVE  SecretsInv'
<1>1. /\ Workload' = Workload /\ c \in Workload /\ pc[c] \notin Outcomes
      /\ \A d \in Workload \ {c} : pc'[d] = pc[d]
  BY DEF GoesOn, Active
<1>2. pc'[c] = "done" => Secret(c) = "none"
  BY DEF Secret, Is
<1>3. spent' = spent
  BY <1>2, SecretsAreRemembered
<1>4. \A d \in Workload : spentBefore'[d] = IF d = c /\ pc[c] = "idle" THEN spent ELSE spentBefore[d]
  BY SecretsAreRemembered
<1>5. pc'[c] \notin {"deleteRecord", "changePassword", "setPassword"}
  BY DEF StepIsRight, Is, Outcomes
<1>6. LinksAreRight' /\ SpentIsRight'
  BY <1>1, <1>3, <1>4, <1>5, OwnStepKeepsLinks
<1>7. TokensAreRight'
  <2>1. \A d \in Workload : pc[d] = "told" => pc'[d] = "told"
    BY <1>1 DEF Outcomes
  <2>2. \A d \in Workload \ {c} : Is(d, "register") => TokenIsRight(d)'
    BY <1>1, <1>4, <2>1, TokensWait
  <2>3. Is(c, "register") => TokenIsRight(c)'
    BY <1>1, <1>4, <2>1, TokensWait DEF Outcomes, TokenIsRight, Owned, GoesOn
  <2>4. QED
    BY <1>1, <1>3, <2>1, <2>2, <2>3 DEF SecretsInv, TokensAreRight, StoredIsRight, IsTokenFor, Is
<1>8. QED
  BY <1>6, <1>7 DEF SecretsInv

\* Nor has a step of the clock, or of the server.
LEMMA SecretsRest ==
  ASSUME SecretsInv, Moves, Remember, UNCHANGED <<records, mailed, token, address>>,
         \A c \in Active : pc'[c] = pc[c] \/ (pc[c] # "idle" /\ pc'[c] = "crashed"),
         DOMAIN tokens' = DOMAIN tokens,
         \A w \in DOMAIN tokens : tokens'[w] \in [by : Calls, expired : BOOLEAN]
                                  /\ tokens'[w].by = tokens[w].by
  PROVE  SecretsInv'
<1>1. /\ Workload' = Workload
      /\ \A d \in Workload : pc[d] \in Outcomes => pc'[d] = pc[d]
      /\ \A d \in Workload : pc'[d] = pc[d] \/ pc'[d] = "crashed"
  BY CallsGoOn DEF Active
<1>2. spent' = spent /\ \A d \in Workload : spentBefore'[d] = spentBefore[d]
  BY NothingIsSpent
<1>3. SpentIsRight'
  BY <1>1, <1>2 DEF SecretsInv, SpentIsRight, Outcomes
<1>4. LinksAreRight'
  BY <1>1, <1>2 DEF SecretsInv, LinksAreRight, Outcomes
<1>5. \A d \in Workload : pc[d] = "told" => pc'[d] = "told"
  BY <1>1 DEF Outcomes
<1>6. \A d \in Workload : Is(d, "register") => TokenIsRight(d)'
  <2>1. \A d \in Workload : pc'[d] = pc[d] \/ pc'[d] \in Outcomes
    BY <1>1 DEF Outcomes
  <2>2. QED
    BY <1>1, <1>2, <1>5, <2>1, TokensWait
<1>7. TokensAreRight'
  BY <1>1, <1>2, <1>5, <1>6 DEF SecretsInv, TokensAreRight, StoredIsRight, IsTokenFor, Is
<1>8. QED
  BY <1>3, <1>4, <1>7 DEF SecretsInv
\* The steps of the handlers of forms.
LEMMA AccountStepKeepsSecrets ==
  ASSUME SecretsInv, StepsAreRight, NEW c \in Active, AccountStep(c), Remember
  PROVE  SecretsInv'
<1>1. /\ GoesOn(c) /\ StepIsRight(c)' /\ StepIsRight(c) /\ c \in Workload /\ c \in Calls
      /\ Workload' = Workload
  BY AccountStepIsRight DEF StepsAreRight, Active, GoesOn
<1>2. pc[c] \notin Outcomes
  BY DEF Active
<1>3. \A d \in Workload \ {c} : pc'[d] = pc[d]
  BY <1>1 DEF GoesOn
<1>4. \A d \in Workload : spentBefore'[d] = IF d = c /\ pc[c] = "idle" THEN spent ELSE spentBefore[d]
  BY <1>1, SecretsAreRemembered
<1>5. pc'[c] # "done" => spent' = spent
  BY <1>1, SecretsAreRemembered
<1>6. \A x \in Workload : pc[x] \in Outcomes => pc'[x] = pc[x]
  BY <1>2, <1>3
<1> USE DEF Go
<1>11. CASE fetchDataset(c) \/ create(c) \/ created(c) \/ deleteAccount(c) \/ verify(c)
           \/ login(c) \/ compare(c) \/ forgot(c)
  <2>1. UNCHANGED <<records, mailed, tokens, token>> /\ DOMAIN address' = DOMAIN address
    BY <1>11 DEF ForEmail, fetchDataset, create, created, deleteAccount, verify, login, compare, forgot,
         Reads, Stores, accountVars
  <2>2. Is(c, "register") =>
           /\ pc'[c] # "done"
           /\ \/ pc'[c] \in Outcomes
              \/ pc[c] \in Owned /\ pc'[c] \in Owned
              \/ pc[c] = "fetch" /\ pc'[c] = "deleteToken"
    BY <1>1, <1>11 DEF fetchDataset, create, created, deleteAccount, verify, login, compare, forgot,
         Reads, Stores, StepIsRight, Is, At, Outcomes, Owned, Workload
  <2>3. ~Is(c, "reset")
    BY <1>1, <1>11 DEF fetchDataset, create, created, deleteAccount, verify, login, compare, forgot,
         StepIsRight, Is, At
  <2>4. QED
    BY <1>1, <2>1, <2>2, <2>3, SecretsWait
<1>12. CASE parseInput(c)
  <2>1. /\ UNCHANGED <<records, mailed, tokens, token, address>> /\ spent' = spent /\ Is(c, "register")
        /\ pc[c] = "idle" /\ pc'[c] \in {"failed", "create", "createPod", "owner"}
    BY <1>1, <1>5, <1>12 DEF parseInput, AfterOwnership, At, accountVars, Workload
  <2>2. token'[c].by = "none"
    BY <1>1, <2>1 DEF SecretsInv, TokensAreRight, StoredIsRight, TokenIsRight
  <2>3. \A w \in DOMAIN tokens : tokens[w].by # "none"
    BY CallsAssumption DEF SecretsInv, TokensAreRight, StoredIsRight
  <2>4. TokenIsRight(c)'
    BY <2>1, <2>2, <2>3 DEF TokenIsRight
  <2>5. QED
    BY <1>1, <1>2, <1>4, <2>1, <2>4, OwnStepKeepsTokens, OwnStepKeepsLinks DEF SecretsInv, TokensAreRight, StoredIsRight
<1>13. CASE getToken(c)
  <2>1. /\ UNCHANGED <<records, mailed, tokens, address>> /\ spent' = spent /\ Is(c, "register")
        /\ pc[c] = "owner" /\ pc'[c] \in {"expired", "setToken", "fetch"}
        /\ token'[c] = Get(tokens, Input[c].webId, NoToken) /\ DOMAIN token' = Workload'
        /\ \A d \in Workload \ {c} : token'[d] = token[d]
    BY <1>1, <1>5, <1>13 DEF getToken, StepIsRight, SecretsInv, TokensAreRight, Workload
  <2>2. ASSUME token'[c].by # "none"
        PROVE  IsTokenFor(token'[c].by, Input[c].webId) /\ token'[c].by \notin spent
    BY <2>1, <2>2 DEF Get, NoToken, SecretsInv, TokensAreRight, StoredIsRight
  <2>3. TokenIsRight(c)'
    BY <1>1, <1>4, <1>6, <2>1, <2>2 DEF TokenIsRight, Owned, IsTokenFor, Outcomes, SecretsInv, SpentIsRight, Is
  <2>4. QED
    BY <1>1, <1>2, <1>4, <2>1, <2>3, OwnStepKeepsTokens, OwnStepKeepsLinks DEF SecretsInv
<1>14. CASE deleteExpired(c)
  <2>1. /\ UNCHANGED <<records, mailed, token, address>> /\ spent' = spent
        /\ pc[c] = "expired" /\ pc'[c] = "setToken"
        /\ tokens' = Delete(tokens, {Input[c].webId})
    BY <1>1, <1>5, <1>14 DEF deleteExpired, Workload
  <2>2. TokenIsRight(c)'
    BY <2>1 DEF TokenIsRight, Owned
  <2>3. \A w \in DOMAIN tokens' : w \in DOMAIN tokens /\ tokens'[w] = tokens[w]
    BY <2>1 DEF Delete
  <2>4. QED
    BY <1>1, <1>2, <1>4, <2>1, <2>2, <2>3, OwnStepKeepsTokens, OwnStepKeepsLinks
       DEF SecretsInv, TokensAreRight, StoredIsRight
<1>15. CASE setToken(c)
  <2>1. /\ UNCHANGED <<records, mailed, address>> /\ spent' = spent
        /\ pc[c] = "setToken" /\ pc'[c] = "told" /\ Is(c, "register")
        /\ token'[c] = [by |-> c, expired |-> FALSE] /\ DOMAIN token' = Workload'
        /\ \A d \in Workload \ {c} : token'[d] = token[d]
        /\ tokens' = Set(tokens, Input[c].webId, [by |-> c, expired |-> FALSE])
    BY <1>1, <1>5, <1>15 DEF setToken, StepIsRight, SecretsInv, TokensAreRight, Workload
  <2>2. LinksAreRight' /\ SpentIsRight'
    BY <1>1, <1>2, <1>4, <2>1, OwnStepKeepsLinks DEF SecretsInv
  <2>3. c \notin spent /\ c # "none"
    BY <1>1, <2>1, CallsAssumption DEF SecretsInv, SpentIsRight, LinksAreRight
  <2>4. \A w \in DOMAIN tokens' :
          tokens'[w] = IF w = Input[c].webId THEN [by |-> c, expired |-> FALSE] ELSE tokens[w]
    BY <2>1 DEF Set
  <2>5. \A w \in DOMAIN tokens' : w # Input[c].webId => w \in DOMAIN tokens
    BY <2>1 DEF Set
  <2>6. \A w : \A x \in Workload : IsTokenFor(x, w) => IsTokenFor(x, w)'
    BY <1>1, <1>6 DEF IsTokenFor, Outcomes, Is
  <2>7. IsTokenFor(c, Input[c].webId)' /\ ~IsTokenFor(c, Input[c].webId)
    BY <1>1, <2>1 DEF IsTokenFor, Is
  <2>8. ASSUME NEW d \in Workload \ {c}, Is(d, "register")
        PROVE  TokenIsRight(d)'
    <3>1. pc'[d] = pc[d] /\ token'[d] = token[d] /\ spentBefore'[d] = spentBefore[d] /\ TokenIsRight(d)
      BY <1>3, <1>4, <2>1, <2>8 DEF SecretsInv, TokensAreRight, StoredIsRight
    <3>2. pc[d] \in Owned => token[d].by # c
      BY <2>1, <2>3, <3>1 DEF TokenIsRight, IsTokenFor
    <3>3. QED
      BY <2>4, <2>5, <2>6, <3>1, <3>2 DEF TokenIsRight, IsTokenFor
  <2>9. TokenIsRight(c)'
    BY <2>1 DEF TokenIsRight, Owned
  <2>10. TokensAreRight'
    <3>1. ASSUME NEW w \in DOMAIN tokens'
          PROVE  StoredIsRight(w)'
      <4>1. CASE w = Input[c].webId
        <5>1. tokens'[w] = [by |-> c, expired |-> FALSE]
          BY <2>4, <4>1
        <5>2. tokens'[w].by = c /\ tokens'[w] \in [by : Calls, expired : BOOLEAN]
          BY <1>1, <5>1
        <5>3. c \in Workload' /\ pc'[c] = "told" /\ Input[c].webId = w /\ c \notin spent'
          BY <1>1, <2>1, <2>3, <4>1
        <5>4. QED
          BY <2>1, <5>2, <5>3 DEF StoredIsRight, IsTokenFor, Is
      <4>2. CASE w # Input[c].webId
        <5>1. tokens'[w] = tokens[w] /\ w \in DOMAIN tokens
          BY <2>4, <2>5, <4>2
        <5>2. StoredIsRight(w)
          BY <5>1 DEF SecretsInv, TokensAreRight, StoredIsRight
        <5>3. QED
          BY <1>1, <1>6, <2>1, <5>1, <5>2 DEF StoredIsRight, IsTokenFor, Outcomes, Is
      <4>3. QED
        BY <4>1, <4>2
    <3>2. QED
      BY <1>1, <2>1, <2>8, <2>9, <3>1 DEF TokensAreRight
  <2>11. QED
    BY <2>2, <2>10 DEF SecretsInv
<1>16. CASE deleteToken(c)
  <2>1. /\ UNCHANGED <<records, mailed, token, address>> /\ spent' = spent
        /\ pc[c] = "deleteToken" /\ pc'[c] \in {"create", "createPod"} /\ Is(c, "register")
        /\ tokens' = Delete(tokens, {Input[c].webId})
    BY <1>1, <1>5, <1>16 DEF deleteToken, AfterOwnership, StepIsRight, Workload
  <2>2. \A w \in DOMAIN tokens' : w \in DOMAIN tokens /\ w # Input[c].webId /\ tokens'[w] = tokens[w]
    BY <2>1 DEF Delete
  <2>3. TokenIsRight(c)
    BY <1>1, <2>1 DEF SecretsInv, TokensAreRight, StoredIsRight
  <2>4. ASSUME NEW w \in DOMAIN tokens'
        PROVE  tokens'[w].by # token'[c].by
    <3>1. tokens[w].by # "none" /\ IsTokenFor(tokens[w].by, w) /\ w # Input[c].webId
      BY <2>2, CallsAssumption DEF SecretsInv, TokensAreRight, StoredIsRight
    <3>2. token[c].by # "none" => IsTokenFor(token[c].by, Input[c].webId)
      BY <2>1, <2>3 DEF TokenIsRight
    <3>3. QED
      BY <2>1, <2>2, <3>1, <3>2 DEF IsTokenFor
  <2>5. TokenIsRight(c)'
    BY <1>1, <1>4, <1>6, <2>1, <2>3, <2>4 DEF TokenIsRight, IsTokenFor, Owned, Outcomes, Is
  <2>6. QED
    BY <1>1, <1>2, <1>4, <2>1, <2>2, <2>5, OwnStepKeepsTokens, OwnStepKeepsLinks
       DEF SecretsInv, TokensAreRight, StoredIsRight
<1>17. CASE podAdded(c) \/ verified(c)
  <2>1. /\ UNCHANGED <<records, mailed, tokens, token, address>> /\ pc[c] \in Owned /\ pc[c] # "idle"
        /\ pc'[c] \in {"verify", "done"} /\ Is(c, "register")
    BY <1>1, <1>17 DEF podAdded, verified, Stores, StepIsRight, accountVars, Owned, Workload
  <2>2. pc'[c] = "done" => spent' = spent \cup ({token[c].by} \ {"none"})
    BY <1>1, <2>1, SecretsAreRemembered DEF Secret, Is
  <2>3. TokenIsRight(c)
    BY <1>1, <2>1 DEF SecretsInv, TokensAreRight, StoredIsRight
  <2>4. CASE pc'[c] = "verify"
    BY <1>1, <2>1, <2>4, SecretsWait DEF Is, Owned
  <2>5. CASE pc'[c] = "done"
    <3>1. token[c].by # "none" => IsTokenFor(token[c].by, Input[c].webId)
                                  /\ \A w \in DOMAIN tokens : tokens[w].by # token[c].by
      BY <2>1, <2>3 DEF TokenIsRight
    <3>2. SpentIsRight'
      BY <1>1, <1>4, <1>6, <2>1, <2>2, <2>5, <3>1 DEF SecretsInv, SpentIsRight, IsTokenFor, Outcomes
    <3>3. LinksAreRight'
      BY <1>1, <1>3, <1>4, <1>6, <2>1, <2>2, <2>5, <3>1
         DEF SecretsInv, LinksAreRight, IsTokenFor, Outcomes, Is
    <3>4. \A d \in Workload : Is(d, "register") => TokenIsRight(d)'
      BY <1>1, <1>3, <1>4, <1>6, <2>1, <2>5, TokensWait DEF Outcomes
    <3>5. TokensAreRight'
      BY <1>1, <1>6, <2>1, <2>2, <2>5, <3>1, <3>4 DEF SecretsInv, TokensAreRight, StoredIsRight, IsTokenFor, Outcomes, Is
    <3>6. QED
      BY <3>2, <3>3, <3>5 DEF SecretsInv
  <2>6. QED
    BY <2>1, <2>4, <2>5
<1>18. CASE generateForgotPasswordRecord(c)
  <2>1. /\ UNCHANGED <<mailed, tokens, token, address>> /\ spent' = spent
        /\ pc[c] = "record" /\ pc'[c] = "mail" /\ Is(c, "forgot")
        /\ records' = Set(records, c, Input[c].email)
    BY <1>1, <1>5, <1>18 DEF generateForgotPasswordRecord, StepIsRight, Workload
  <2>2. DOMAIN records' = DOMAIN records \cup {c} /\ c \notin spent /\ c \notin mailed
    BY <2>1 DEF Set, SecretsInv, SpentIsRight, LinksAreRight, Is
  <2>3. LinksAreRight'
    BY <1>1, <1>3, <1>4, <1>6, <2>1, <2>2 DEF SecretsInv, LinksAreRight, Outcomes, Is
  <2>4. SpentIsRight'
    BY <1>1, <1>4, <1>6, <2>1 DEF SecretsInv, SpentIsRight, Outcomes
  <2>5. TokensAreRight'
    BY <1>1, <1>2, <1>4, <2>1, OwnStepKeepsTokens DEF SecretsInv, TokensAreRight, Is
  <2>6. QED
    BY <2>3, <2>4, <2>5 DEF SecretsInv
<1>19. CASE sendResetMail(c)
  <2>1. /\ UNCHANGED <<records, tokens, token, address>> /\ spent' = spent
        /\ pc[c] = "mail" /\ Is(c, "forgot")
        /\ \/ pc'[c] = "done" /\ mailed' = mailed \cup {c}
           \/ pc'[c] = "failed" /\ mailed' = mailed
    <3>1. Is(c, "forgot") /\ pc[c] = "mail"
      BY <1>1, <1>19 DEF sendResetMail, StepIsRight
    <3>2. spent' = spent
      BY <1>1, <3>1, SecretsAreRemembered DEF Secret, Is
    <3>3. QED
      BY <1>1, <1>19, <3>1, <3>2 DEF sendResetMail, Workload
  <2>2. LinksAreRight'
    BY <1>1, <1>3, <1>4, <1>6, <2>1 DEF SecretsInv, LinksAreRight, Outcomes, Is
  <2>3. SpentIsRight'
    BY <1>1, <1>4, <1>6, <2>1 DEF SecretsInv, SpentIsRight, Outcomes
  <2>4. TokensAreRight'
    BY <1>1, <1>2, <1>4, <2>1, OwnStepKeepsTokens DEF SecretsInv, TokensAreRight, Is
  <2>5. QED
    BY <2>2, <2>3, <2>4 DEF SecretsInv
<1>20. CASE reset(c)
  <2>1. /\ UNCHANGED <<records, mailed, tokens, token>> /\ DOMAIN address' = DOMAIN address
        /\ spent' = spent /\ pc[c] = "idle" /\ Is(c, "reset") /\ Input[c].link \in mailed
        /\ pc'[c] \in {"deleteRecord", "failed"}
        /\ pc'[c] = "deleteRecord" => Input[c].link \in DOMAIN records
    BY <1>1, <1>5, <1>20 DEF reset, At, Get, SecretsInv, LinksAreRight, Workload
  <2>2. LinksAreRight'
    BY <1>1, <1>3, <1>4, <1>6, <2>1 DEF SecretsInv, LinksAreRight, Outcomes, Is
  <2>3. SpentIsRight'
    BY <1>1, <1>4, <1>6, <2>1 DEF SecretsInv, SpentIsRight, Outcomes
  <2>4. TokensAreRight'
    BY <1>1, <1>2, <1>4, <2>1, OwnStepKeepsTokens DEF SecretsInv, TokensAreRight, Is
  <2>5. QED
    BY <2>2, <2>3, <2>4 DEF SecretsInv
<1>21. CASE deleteForgotPasswordRecord(c) \/ changePassword(c)
  <2>1. /\ UNCHANGED <<mailed, tokens, token, address>> /\ spent' = spent /\ Is(c, "reset")
        /\ \/ pc[c] = "deleteRecord" /\ pc'[c] = "changePassword"
              /\ records' = Delete(records, {Input[c].link})
           \/ pc[c] = "changePassword" /\ pc'[c] \in {"setPassword", "failed"} /\ records' = records
    BY <1>1, <1>5, <1>21 DEF deleteForgotPasswordRecord, changePassword, Reads, StepIsRight, Workload
  <2>2. DOMAIN records' \subseteq DOMAIN records
        /\ (pc'[c] \in {"changePassword", "setPassword"} => Input[c].link \notin DOMAIN records')
    BY <1>1, <2>1 DEF Delete, SecretsInv, LinksAreRight
  <2>3. LinksAreRight'
    BY <1>1, <1>3, <1>4, <1>6, <2>1, <2>2 DEF SecretsInv, LinksAreRight, Outcomes, Is
  <2>4. SpentIsRight'
    BY <1>1, <1>4, <1>6, <2>1 DEF SecretsInv, SpentIsRight, Outcomes
  <2>5. TokensAreRight'
    BY <1>1, <1>2, <1>4, <2>1, OwnStepKeepsTokens DEF SecretsInv, TokensAreRight, Is
  <2>6. QED
    BY <2>3, <2>4, <2>5 DEF SecretsInv
<1>22. CASE changedPassword(c)
  <2>1. /\ UNCHANGED <<records, mailed, tokens, token, address>>
        /\ pc[c] = "setPassword" /\ pc'[c] = "done" /\ Is(c, "reset")
    BY <1>1, <1>22 DEF changedPassword, Stores, StepIsRight, Workload
  <2>2. spent' = spent \cup ({Input[c].link} \ {"none"})
    BY <1>1, <2>1, SecretsAreRemembered DEF Secret, Is
  <2>3. Input[c].link \in mailed /\ Input[c].link \notin DOMAIN records
    BY <1>1, <2>1 DEF SecretsInv, LinksAreRight
  <2>4. LinksAreRight'
    BY <1>1, <1>3, <1>4, <1>6, <2>1, <2>2, <2>3 DEF SecretsInv, LinksAreRight, Outcomes, Is
  <2>5. SpentIsRight'
    BY <1>1, <1>4, <1>6, <2>1, <2>2, <2>3 DEF SecretsInv, SpentIsRight, Outcomes
  <2>6. \A d \in Workload : Is(d, "register") => TokenIsRight(d)'
    BY <1>1, <1>3, <1>4, <1>6, <2>1, TokensWait DEF Is, Outcomes
  <2>7. \A w \in DOMAIN tokens : StoredIsRight(w)'
    BY <1>1, <1>6, <2>1, <2>2, <2>3
       DEF SecretsInv, TokensAreRight, LinksAreRight, StoredIsRight, IsTokenFor, Outcomes, Is
  <2>8. QED
    BY <1>1, <2>1, <2>4, <2>5, <2>6, <2>7 DEF SecretsInv, TokensAreRight
<1>23. QED
  BY <1>11, <1>12, <1>13, <1>14, <1>15, <1>16, <1>17, <1>18, <1>19, <1>20, <1>21, <1>22
     DEF AccountStep

\* The steps of the server and of the clock, and of other calls.
LEMMA SecretsStayRight ==
  ASSUME SecretsInv, StepsAreRight, Moves, Step, Remember
  PROVE  SecretsInv'
<1>1. CASE \E c \in Active : AccountStep(c)
  BY <1>1, AccountStepKeepsSecrets
<1>2. ASSUME NEW c \in Active, PodStep(c), UNCHANGED accountVars
      PROVE  SecretsInv'
  <2>1. GoesOn(c) /\ StepIsRight(c)' /\ Kind[c] \in ForPods /\ c \in Workload /\ StepIsRight(c)
    BY <1>2, PodStepIsRight DEF StepsAreRight, Active
  <2>2. Is(c, "register") => pc[c] \in Owned /\ pc'[c] \in Owned /\ pc'[c] # "done"
    BY <1>2, <2>1 DEF PodStep, addToPod, addGeneratedResources, createPod, generateStore, instantiate,
       updateJsonSafely, storedConfig, addToRouting, failedPod, route, Owned, Go, At, Is,
       StepIsRight, Workload
  <2>3. QED
    BY <1>2, <2>1, <2>2, SecretsWait DEF accountVars, ForPods, Is
<1>3. ASSUME NEW c \in Active, ProviderStep(c), UNCHANGED accountVars
      PROVE  SecretsInv'
  <2>1. GoesOn(c) /\ StepIsRight(c)' /\ Kind[c] \in ForProvider
    BY <1>3, ProviderStepIsRight DEF StepsAreRight, Active
  <2>2. QED
    BY <1>3, <2>1, SecretsWait DEF accountVars, ForProvider, Is
<1>4. ASSUME UNCHANGED <<records, mailed, token, address>>, tokens' = tokens,
             \A c \in Active : pc'[c] = pc[c] \/ (pc[c] # "idle" /\ pc'[c] = "crashed")
      PROVE  SecretsInv'
  <2>1. \A w \in DOMAIN tokens : tokens[w] \in [by : Calls, expired : BOOLEAN]
    BY DEF SecretsInv, TokensAreRight, StoredIsRight
  <2>2. QED
    BY <1>4, <2>1, SecretsRest
<1>5. ASSUME NEW w \in WebIds, expireToken(w), UNCHANGED callVars
      PROVE  SecretsInv'
  <2>1. /\ UNCHANGED <<records, mailed, token, address, pc>> /\ w \in DOMAIN tokens
        /\ tokens' = [tokens EXCEPT ![w].expired = TRUE]
    BY <1>5 DEF expireToken, callVars
  <2>2. \A v \in DOMAIN tokens : tokens[v] \in [by : Calls, expired : BOOLEAN]
    BY DEF SecretsInv, TokensAreRight, StoredIsRight
  <2>3. DOMAIN tokens' = DOMAIN tokens
        /\ \A v \in DOMAIN tokens : tokens'[v] \in [by : Calls, expired : BOOLEAN]
                                   /\ tokens'[v].by = tokens[v].by
    BY <2>1, <2>2
  <2>4. QED
    BY <2>1, <2>3, SecretsRest
<1>6. ASSUME NEW c \in Made, publish(c), UNCHANGED callVars
      PROVE  SecretsInv'
  BY <1>4, <1>6 DEF publish, callVars
<1>7. CASE crash
  BY <1>4, <1>7 DEF crash, accountVars, Running, Active, Workload
<1>8. ASSUME UNCHANGED accountVars, pc' = pc
      PROVE  SecretsInv'
  BY <1>4, <1>8 DEF accountVars
<1>9. QED
  BY <1>1, <1>2, <1>3, <1>5, <1>6, <1>7, <1>8
     DEF Step, readConfig, initialize, listen, expire, callVars

-----------------------------------------------------------------------------
(* The theorems.                                                           *)

IInv == StepsAreRight /\ OverlapsAreKnown /\ KeysInv /\ SecretsInv

\* The invariant holds at the start.
LEMMA InitHolds == Init => IInv
<1>1. SUFFICES ASSUME Init PROVE IInv
  OBVIOUS
<1>2. StepsAreRight /\ \A c \in Workload : pc[c] = "idle"
  <2>1. PICK W \in Workloads : pc = [c \in W |-> "idle"]
    BY <1>1, Zenon DEF Init
  <2>2. QED
    BY <1>1, <2>1, StepsStartRight DEF Workload
<1>3. OverlapsAreKnown
  BY <1>2 DEF OverlapsAreKnown, Running
<1>4. KeysInv
  <2>1. jwks = "none" /\ cookies = "none" /\ provider = NoKeys /\ keys = [c \in Workload |-> NoKeys]
    BY <1>1 DEF Init, ProviderInit
  <2>2. NoKeys \in Keys
    BY DEF NoKeys, Keys, KeyNames
  <2>3. QED
    BY <1>2, <2>1, <2>2 DEF KeysInv, KeysAreStored, KeysAreKnown, KeyNames
<1>5. SecretsInv
  <2>1. /\ records = Empty /\ mailed = {} /\ tokens = Empty /\ spent = {}
        /\ token = [c \in Workload |-> NoToken] /\ address = [c \in Workload |-> "none"]
        /\ spentBefore = [c \in Workload |-> {}]
    BY <1>1 DEF Init, AccountInit
  <2>2. DOMAIN records = {} /\ DOMAIN tokens = {}
    BY <2>1 DEF Empty
  <2>3. QED
    BY <1>2, <2>1, <2>2 DEF SecretsInv, LinksAreRight, TokensAreRight, SpentIsRight, TokenIsRight,
       NoToken, Owned
<1>6. QED
  BY <1>2, <1>3, <1>4, <1>5 DEF IInv

\* Nothing that the invariant is about has changed.
LEMMA StutterHolds ==
  ASSUME IInv, UNCHANGED vars
  PROVE  IInv'
<1>1. /\ UNCHANGED <<pc, records, mailed, tokens, token, address, jwks, cookies, provider, keys>>
      /\ UNCHANGED <<overlapping, spent, spentBefore>>
  BY DEF vars, callVars, accountVars, providerVars, history
<1>2. StepsAreRight' /\ OverlapsAreKnown'
  BY <1>1 DEF IInv, StepsAreRight, StepIsRight, OverlapsAreKnown, Running, Workload
<1>3. KeysInv'
  BY <1>1 DEF IInv, KeysInv, KeysAreStored, KeysAreKnown, StoredKeys, Workload
<1>4. SecretsInv'
  BY <1>1 DEF IInv, SecretsInv, LinksAreRight, TokensAreRight, SpentIsRight, TokenIsRight,
     StoredIsRight, IsTokenFor, Workload
<1>5. QED
  BY <1>2, <1>3, <1>4 DEF IInv

\* The invariant behind the theorems is inductive.
THEOREM IInvHolds == Spec => []IInv
<1>1. IInv /\ [Next]_vars => IInv'
  <2>1. ASSUME IInv, Step, Remember PROVE IInv'
    BY <2>1, StepsStayRight, OverlapsStayKnown, KeysStayRight, SecretsStayRight DEF IInv
  <2>2. QED
    BY <2>1, StutterHolds DEF Next
<1>2. QED
  BY InitHolds, <1>1, PTL DEF Spec

\* All requests are served with the same keys, before and after restarts,
\* unless two of them asked for a provider at once when there was none.
THEOREM KeysAreKeptHolds == Spec => []KeysAreKept
<1>1. IInv => KeysAreKept
  BY DEF IInv, KeysInv, KeysAreStored, KeysAreKnown, KeysAreKept, Made
<1>2. QED
  BY IInvHolds, <1>1, PTL

\* A call that succeeds has held its link or token since before it was used up.
LEMMA SecretsAreFresh ==
  ASSUME IInv, Step, Remember, NEW c \in Active, Ends(c), pc'[c] = "done"
  PROVE  Secret(c) \notin spentBefore[c]
<1>1. /\ c \in Workload /\ pc[c] \notin Outcomes /\ pc'[c] = "done" /\ pc'[c] # pc[c]
      /\ StepIsRight(c) /\ (Is(c, "register") => TokenIsRight(c)) /\ spentBefore[c] \subseteq Calls
  BY DEF Ends, Active, Outcomes, IInv, StepsAreRight, SecretsInv, TokensAreRight, SpentIsRight,
     LinksAreRight
<1>2. ~crash /\ pc' # pc
  BY <1>1 DEF crash, Running, Outcomes, Workload
<1>3. ASSUME NEW d \in Active, GoesOn(d) PROVE d = c
  BY <1>1, <1>3 DEF GoesOn
<1>4. \A d \in Active : PodStep(d) \/ AccountStep(d) \/ ProviderStep(d) => GoesOn(d)
  BY PodStepIsRight, AccountStepIsRight, ProviderStepIsRight DEF IInv, StepsAreRight, Active
<1>5. \/ PodStep(c) /\ UNCHANGED accountVars
      \/ AccountStep(c)
      \/ ProviderStep(c) /\ UNCHANGED accountVars
  BY <1>2, <1>3, <1>4 DEF Step, readConfig, initialize, listen, callVars, expire
<1>6. ASSUME Is(c, "register") \/ Is(c, "reset")
      PROVE  \/ Is(c, "reset") /\ pc[c] = "setPassword"
             \/ Is(c, "register") /\ pc[c] \in Owned /\ token'[c] = token[c]
  <2>1. CASE AccountStep(c)
    <3> USE DEF Go, At, Is, Workload
    <3>1. CASE parseInput(c) \/ getToken(c) \/ deleteExpired(c) \/ setToken(c) \/ fetchDataset(c)
               \/ deleteToken(c) \/ create(c) \/ created(c) \/ deleteAccount(c) \/ verify(c)
      BY <1>1, <3>1 DEF parseInput, AfterOwnership, getToken, deleteExpired, setToken, fetchDataset,
         deleteToken, create, created, deleteAccount, verify, Reads, Stores
    <3>2. CASE podAdded(c) \/ verified(c) \/ changedPassword(c)
      BY <1>1, <3>2 DEF podAdded, verified, changedPassword, Stores, accountVars, StepIsRight, Owned
    <3>3. CASE login(c) \/ compare(c) \/ forgot(c) \/ generateForgotPasswordRecord(c)
               \/ sendResetMail(c) \/ reset(c) \/ deleteForgotPasswordRecord(c) \/ changePassword(c)
      BY <1>1, <1>6, <3>3 DEF login, compare, forgot, generateForgotPasswordRecord, sendResetMail, reset,
         deleteForgotPasswordRecord, changePassword, Reads, StepIsRight
    <3>4. QED
      BY <2>1, <3>1, <3>2, <3>3 DEF AccountStep
  <2>2. CASE PodStep(c)
    BY <1>1, <1>6, <2>2 DEF PodStep, addToPod, addGeneratedResources, createPod, generateStore,
       instantiate, updateJsonSafely, storedConfig, addToRouting, failedPod, route, Go, At, Is,
       Workload
  <2>3. CASE ProviderStep(c)
    BY <1>1, <1>6, <2>3, ProviderStepIsRight DEF ForProvider, Is
  <2>4. QED
    BY <1>5, <2>1, <2>2, <2>3
<1>7. CASE Is(c, "reset")
  BY <1>1, <1>6, <1>7 DEF Secret, Is, IInv, SecretsInv, LinksAreRight
<1>8. CASE Is(c, "register")
  BY <1>1, <1>6, <1>8, CallsAssumption DEF Secret, Is, TokenIsRight
<1>9. CASE ~Is(c, "reset") /\ ~Is(c, "register")
  BY <1>1, <1>9, CallsAssumption DEF Secret
<1>10. QED
  BY <1>7, <1>8, <1>9

\* No request succeeds with a link or a token that another one had succeeded
\* with before it was made.
THEOREM SecretsWorkOnceHolds == Spec => SecretsWorkOnce
<1>1. IInv /\ [Next]_vars =>
        [\A c \in Active : Ends(c) /\ pc'[c] = "done" => Secret(c) \notin spentBefore[c]]_vars
  BY SecretsAreFresh DEF Next
<1>2. QED
  BY IInvHolds, <1>1, PTL DEF Spec, SecretsWorkOnce

-----------------------------------------------------------------------------
(* Revocation: what each call of the OIDC library knows of the list of a  *)
(* grant while no other one of the grant runs and the list has not expired. *)

Grants == {Input[c].grant : c \in {d \in Calls : Kind[d] \in {"upsert", "consume", "revoke"}}}
             \ {"none"}

\* The keys that are in the list of a grant.
GrantList(g) == <<"grant", g>>
ListOf(g) == IF GrantList(g) \in DOMAIN entries THEN entries[GrantList(g)].value ELSE {}

\* Calls of the grant that read and write its list or its payloads.
IsOf(c, g) == Kind[c] \in {"upsert", "consume", "revoke"} /\ Input[c].grant = g

IsPayload(k) == k[1] = "payload"
HasLapsed(k) == k[1] = "grant" => k[2] \in lapsed

-----------------------------------------------------------------------------
(* What is stored, read and deleted by each call, whatever runs with it.   *)

EntryIsRight(k) ==
  /\ k[1] = "grant" => \A x \in entries[k].value : IsPayload(x)
  /\ \A c \in Workload : Is(c, "consume") /\ keyFor(c) = k
       => entries[k].value \subseteq {Input[c].grant}

CallIsRight(c) ==
  /\ pc[c] = "upserting" /\ ("setGrants" \in left[c] \/ "dropGrants" \in left[c])
       => \A x \in found[c] : IsPayload(x)
  /\ pc[c] = "consume" => \A d \in Workload : Is(d, "consume") /\ keyFor(d) = keyFor(c)
                            => found[c] \subseteq {Input[d].grant}
  /\ Is(c, "sweep") /\ pc[c] = "idle" => found[c] = {}
  /\ pc[c] = "sweeping" => \A k \in found[c] : HasLapsed(k)
  /\ Is(c, "sweep") /\ pc[c] = "deleting" => \A k \in left[c] : HasLapsed(k)
  /\ Kind[c] \in {"findByUid", "consume"} /\ pc[c] = "deleting" => \A k \in left[c] : IsPayload(k)
  /\ Is(c, "revoke") /\ pc[c] = "deleting" =>
       \A k \in left[c] : IsPayload(k) \/ k = grantKeyFor(c)

StorageIsRight ==
  /\ DOMAIN left = Workload /\ DOMAIN found = Workload /\ DOMAIN revoked = Workload
  /\ stored \subseteq {d \in Workload : Is(d, "upsert")}
  /\ \A k \in DOMAIN entries : EntryIsRight(k)
  /\ \A c \in Workload : CallIsRight(c)

-----------------------------------------------------------------------------
(* What the calls of a grant know that never overlap and whose list has    *)
(* not expired.                                                            *)

\* The call has read the list, or is in it, or has expired; its payload was
\* neither stored nor revoked by others.
UpsertKnows(c, g) ==
  /\ "dropGrants" \notin left[c]
  /\ "setGrants" \in left[c] => ListOf(g) \subseteq found[c]
  /\ left[c] \cap {"getGrants", "setGrants"} = {} => keyFor(c) \in ListOf(g) \/ Expires(c) \in passed
  /\ \A r \in Workload : IsOf(r, g) /\ Is(r, "revoke") /\ pc[r] = "done" => keyFor(c) \notin revoked[r]
  /\ \A d \in stored : Input[d].grant = g => keyFor(d) # keyFor(c)

ConsumeKnows(c, g) ==
  /\ \A r \in Workload : IsOf(r, g) /\ Is(r, "revoke") /\ pc[r] = "done" => keyFor(c) \notin revoked[r]
  /\ \A d \in stored : Input[d].grant = g /\ keyFor(d) = keyFor(c) => keyFor(d) \in ListOf(g)

\* What there is to be revoked is what is left to be deleted.
RevokeKnows(r, g) ==
  /\ revoked[r] \cap Alive(g) \subseteq left[r]
  /\ \A d \in stored : Input[d].grant = g /\ keyFor(d) \in Alive(g) => keyFor(d) \in left[r]

\* Unless it is being revoked, the grant's list has all of its payloads.
ListIsComplete(g) ==
  \/ \E r \in Workload : IsOf(r, g) /\ Is(r, "revoke") /\ Running(r)
  \/ \A d \in stored : Input[d].grant = g /\ keyFor(d) \in Alive(g) => keyFor(d) \in ListOf(g)

CallKnows(c, g) ==
  /\ pc[c] = "upserting" => UpsertKnows(c, g)
  /\ pc[c] = "consume" => ConsumeKnows(c, g)
  /\ Is(c, "revoke") /\ pc[c] = "deleting" => RevokeKnows(c, g)
  /\ Is(c, "revoke") /\ pc[c] = "done" => revoked[c] \cap Alive(g) = {}

GrantIsRight(g) ==
  /\ \A c \in Workload : IsOf(c, g) => CallKnows(c, g)
  /\ ListIsComplete(g)

RevocationInv ==
  /\ StorageIsRight
  /\ \A g \in Grants : g \notin overlapping \cup lapsed => GrantIsRight(g)

-----------------------------------------------------------------------------
(* The history.                                                            *)

\* The upserts that are remembered, and the payloads that are to be revoked.
LEMMA GrantsAreRemembered ==
  ASSUME NEW c \in Active, GoesOn(c), Remember
  PROVE  /\ stored' = {d \in stored : ~(pc[c] = "idle" /\ Is(c, "upsert") /\ keyFor(d) = keyFor(c))}
                       \cup (IF pc'[c] = "done" /\ Is(c, "upsert") THEN {c} ELSE {})
         /\ DOMAIN revoked' = Workload
         /\ \A d \in Workload : revoked'[d] =
              IF d = c /\ pc[c] = "idle" /\ Is(c, "revoke")
              THEN {keyFor(e) : e \in {e \in stored : Input[e].grant = Input[c].grant}}
              ELSE revoked[d] \ (IF pc[c] = "idle" /\ Is(c, "upsert") THEN {keyFor(c)} ELSE {})
<1>1. Done = (IF pc'[c] = "done" THEN {c} ELSE {}) /\ Begun = (IF pc[c] = "idle" THEN {c} ELSE {})
  BY DEF GoesOn, Active, Outcomes, Done, Begun
<1> DEFINE again == {keyFor(e) : e \in {d \in Begun : Is(d, "upsert")}}
<1>2. stored' = {d \in stored : keyFor(d) \notin again} \cup {d \in Done : Is(d, "upsert")}
  BY DEF Remember
<1>3. revoked' = [d \in Workload |-> IF d \in Begun /\ Is(d, "revoke")
           THEN {keyFor(e) : e \in {e \in stored : Input[e].grant = Input[d].grant}}
           ELSE revoked[d] \ again]
  BY DEF Remember
<1>4. again = IF pc[c] = "idle" /\ Is(c, "upsert") THEN {keyFor(c)} ELSE {}
  BY <1>1
<1> HIDE DEF again
<1>5. QED
  BY <1>1, <1>2, <1>3, <1>4

\* No upsert begins or ends when no call goes on.
LEMMA NothingIsStored ==
  ASSUME \A c \in Active : pc'[c] = pc[c] \/ (pc[c] # "idle" /\ pc'[c] = "crashed"), Remember
  PROVE  stored' = stored /\ DOMAIN revoked' = Workload /\ \A d \in Workload : revoked'[d] = revoked[d]
<1>1. Done = {} /\ Begun = {}
  BY DEF Active, Outcomes, Done, Begun
<1> DEFINE again == {keyFor(e) : e \in {d \in Begun : Is(d, "upsert")}}
<1>2. stored' = {d \in stored : keyFor(d) \notin again} \cup {d \in Done : Is(d, "upsert")}
  BY DEF Remember
<1>3. revoked' = [d \in Workload |-> IF d \in Begun /\ Is(d, "revoke")
           THEN {keyFor(e) : e \in {e \in stored : Input[e].grant = Input[d].grant}}
           ELSE revoked[d] \ again]
  BY DEF Remember
<1>4. again = {}
  BY <1>1
<1> HIDE DEF again
<1>5. QED
  BY <1>1, <1>2, <1>3, <1>4

\* A list that has expired is remembered, and a revocation that crashes.
LEMMA LapsesAreRemembered ==
  ASSUME Remember
  PROVE  /\ lapsed \subseteq lapsed'
         /\ \A k \in DOMAIN entries : k[1] = "grant" /\ isExpired(k) => k[2] \in lapsed'
         /\ \A c \in Active : Is(c, "revoke") /\ pc'[c] = "crashed" => Input[c].grant \in lapsed'
<1> DEFINE gone == {k[2] : k \in {j \in DOMAIN entries : j[1] = "grant" /\ isExpired(j)}}
           cut == {Input[c].grant : c \in {d \in Active : Is(d, "revoke") /\ pc'[d] = "crashed"}}
<1>1. lapsed' = lapsed \cup cut \cup gone
  BY DEF Remember
<1>2. \A k \in DOMAIN entries : k[1] = "grant" /\ isExpired(k) => k[2] \in gone
  OBVIOUS
<1>3. \A c \in Active : Is(c, "revoke") /\ pc'[c] = "crashed" => Input[c].grant \in cut
  OBVIOUS
<1> HIDE DEF gone, cut
<1>4. QED
  BY <1>1, <1>2, <1>3

-----------------------------------------------------------------------------
(* StorageIsRight is inductive.                                            *)

\* A call that waits, or has ended.
LEMMA CallWaits ==
  ASSUME NEW d \in Workload, CallIsRight(d), Workload' = Workload, lapsed \subseteq lapsed',
         found'[d] = found[d],
         (pc'[d] = pc[d] /\ left'[d] = left[d]) \/ (pc'[d] \in Outcomes /\ pc'[d] # "idle")
  PROVE  CallIsRight(d)'
  BY DEF CallIsRight, HasLapsed, IsPayload, Outcomes, Is, keyFor, grantKeyFor

\* Only the call c has done something.
LEMMA OneCallStores ==
  ASSUME StorageIsRight, NEW c \in Active, GoesOn(c), Remember, CallIsRight(c)',
         DOMAIN left' = Workload, DOMAIN found' = Workload,
         \A d \in Workload \ {c} : left'[d] = left[d] /\ found'[d] = found[d],
         \A k \in DOMAIN entries' : EntryIsRight(k)'
  PROVE  StorageIsRight'
<1>1. /\ Workload' = Workload /\ lapsed \subseteq lapsed' /\ c \in Workload
      /\ \A d \in Workload \ {c} : pc'[d] = pc[d]
  BY LapsesAreRemembered DEF GoesOn, Active
<1>2. \A d \in Workload \ {c} : CallIsRight(d)'
  BY <1>1, CallWaits DEF StorageIsRight
<1>3. stored' \subseteq {d \in Workload' : Is(d, "upsert")} /\ DOMAIN revoked' = Workload'
  BY <1>1, GrantsAreRemembered DEF StorageIsRight
<1>4. QED
  BY <1>1, <1>2, <1>3 DEF StorageIsRight

\* A step of the pods, the accounts or the keys.
LEMMA StorageWaits ==
  ASSUME StorageIsRight, NEW c \in Active, GoesOn(c), StepIsRight(c)', Remember,
         UNCHANGED <<entries, left, found>>, Kind[c] \in ForPods \cup ForAccounts \cup {"provider"}
  PROVE  StorageIsRight'
<1>1. Workload' = Workload
  BY DEF GoesOn
<1>2. CallIsRight(c)'
  BY DEF CallIsRight, StepIsRight, Is, ForPods, ForAccounts
<1>3. \A k \in DOMAIN entries' : EntryIsRight(k)'
  BY <1>1 DEF StorageIsRight, EntryIsRight, IsPayload, Is, keyFor
<1>4. QED
  BY <1>2, <1>3, OneCallStores DEF StorageIsRight

\* Nor does a crash, or the clock, change what is stored.
LEMMA StorageRests ==
  ASSUME StorageIsRight, Moves, Remember, UNCHANGED <<entries, found>>,
         DOMAIN left' = Workload,
         \A c \in Workload : (pc'[c] = pc[c] /\ (left'[c] = left[c] \/ ~Running(c)))
                             \/ (Running(c) /\ pc'[c] = "crashed")
  PROVE  StorageIsRight'
<1>1. Workload' = Workload /\ lapsed \subseteq lapsed'
  BY CallsGoOn, LapsesAreRemembered
<1>2. /\ stored' = stored /\ DOMAIN revoked' = Workload
  BY NothingIsStored DEF Running, Active
<1>3. \A c \in Workload : ~Running(c) /\ CallIsRight(c) /\ pc'[c] = pc[c] => CallIsRight(c)'
  BY <1>1 DEF CallIsRight, HasLapsed, IsPayload, Running, Outcomes, Is
<1>4. \A c \in Workload : CallIsRight(c)'
  BY <1>1, <1>3, CallWaits DEF StorageIsRight, Outcomes
<1>5. \A k \in DOMAIN entries' : EntryIsRight(k)'
  BY <1>1 DEF StorageIsRight, EntryIsRight, IsPayload, Is, keyFor
<1>6. QED
  BY <1>1, <1>2, <1>4, <1>5 DEF StorageIsRight

\* A value that is set is of the kind that its key is for.
LEMMA SetIsRight ==
  ASSUME StorageIsRight, Workload' = Workload,
         NEW key, NEW value, NEW expires, SetEntry(key, value, expires),
         key[1] = "grant" => \A x \in value : IsPayload(x),
         \A c \in Workload : Is(c, "consume") /\ keyFor(c) = key => value \subseteq {Input[c].grant}
  PROVE  \A k \in DOMAIN entries' : EntryIsRight(k)'
<1>1. \/ entries' = entries
      \/ /\ DOMAIN entries' = DOMAIN entries \cup {key} /\ entries'[key].value = value
         /\ \A j \in DOMAIN entries : j # key => entries'[j] = entries[j]
  <2>1. CASE expires \in passed
    BY <2>1 DEF SetEntry
  <2>2. CASE expires \notin passed
    BY <2>2 DEF SetEntry, Set, Entry
  <2>3. QED
    BY <2>1, <2>2
<1>2. ASSUME NEW k \in DOMAIN entries', k \in DOMAIN entries, entries'[k] = entries[k]
      PROVE  EntryIsRight(k)'
  BY <1>2 DEF StorageIsRight, EntryIsRight, IsPayload, Is, keyFor
<1>3. ASSUME key \in DOMAIN entries', entries'[key].value = value
      PROVE  EntryIsRight(key)'
  BY <1>3 DEF EntryIsRight, IsPayload, Is, keyFor
<1>4. QED
  BY <1>1, <1>2, <1>3

\* What is left when an entry is deleted is as it was.
LEMMA DeleteIsRight ==
  ASSUME StorageIsRight, Workload' = Workload, NEW key, entries' = Delete(entries, {key})
  PROVE  \A k \in DOMAIN entries' : EntryIsRight(k)'
<1>1. \A k \in DOMAIN entries' : k \in DOMAIN entries /\ entries'[k] = entries[k]
  BY DEF Delete
<1>2. QED
  BY <1>1 DEF StorageIsRight, EntryIsRight, IsPayload, Is, keyFor

\* The steps of the clean-up and of ExpiringAdapter.
LEMMA ProviderStepStores ==
  ASSUME StorageIsRight, StepsAreRight, NEW c \in Active, ProviderStep(c), Remember
  PROVE  StorageIsRight'
<1>1. /\ GoesOn(c) /\ StepIsRight(c)' /\ StepIsRight(c) /\ c \in Workload /\ c \in Calls
      /\ Workload' = Workload /\ pc[c] \notin Outcomes
      /\ CallIsRight(c) /\ DOMAIN left = Workload /\ DOMAIN found = Workload /\ DOMAIN pc = Workload
      /\ \A k \in DOMAIN entries : EntryIsRight(k)
      /\ Workload \subseteq Calls
  BY ProviderStepIsRight DEF StepsAreRight, Active, GoesOn, StorageIsRight, Workload
<1>2. lapsed \subseteq lapsed' /\ \A k \in DOMAIN entries : k[1] = "grant" /\ isExpired(k) => k[2] \in lapsed'
  BY LapsesAreRemembered
<1> USE DEF Go
<1>3. ASSUME entries' = entries
      PROVE  \A k \in DOMAIN entries' : EntryIsRight(k)'
  BY <1>1, <1>3 DEF EntryIsRight, IsPayload, Is, keyFor
<1>4. CASE removeExpiredEntries(c)
  <2>1. /\ entries' = entries /\ found' = found /\ left' = [left EXCEPT ![c] = DOMAIN entries]
        /\ pc[c] = "idle" /\ pc'[c] \in {"done", "sweeping"} /\ Is(c, "sweep")
    BY <1>1, <1>4 DEF removeExpiredEntries, Continue, At
  <2>2. CallIsRight(c)'
    BY <1>1, <2>1 DEF CallIsRight, Is
  <2>3. QED
    BY <1>1, <1>3, <2>1, <2>2, OneCallStores
<1>5. CASE visit(c)
  <2>1. entries' = entries /\ pc[c] = "sweeping" /\ Is(c, "sweep")
    BY <1>1, <1>5 DEF visit, StepIsRight
  <2>2. PICK key \in left[c] :
          \/ pc'[c] = "failed" /\ left' = left /\ found' = found
          \/ /\ key \in DOMAIN entries
             /\ found' = [found EXCEPT ![c] = @ \cup (IF isExpired(key) THEN {key} ELSE {})]
             /\ \E rest : left' = [left EXCEPT ![c] = rest]
             /\ \/ pc'[c] = "sweeping"
                \/ pc'[c] \in {"deleting", "done"} /\ left'[c] = found'[c]
    BY <1>1, <1>5 DEF visit, Continue
  <2>3. /\ DOMAIN left' = Workload /\ DOMAIN found' = Workload
        /\ \A d \in Workload \ {c} : left'[d] = left[d] /\ found'[d] = found[d]
    BY <1>1, <2>2
  <2>4. pc'[c] # "failed" => \A k \in found'[c] : HasLapsed(k)'
    BY <1>1, <1>2, <2>1, <2>2 DEF CallIsRight, HasLapsed
  <2>5. CallIsRight(c)'
    BY <1>1, <2>1, <2>2, <2>4 DEF CallIsRight, Is, HasLapsed
  <2>6. QED
    BY <1>1, <1>3, <2>1, <2>3, <2>5, OneCallStores
<1>6. CASE deleteOne(c)
  <2>1. PICK key \in left[c] :
          /\ entries' = Delete(entries, {key}) /\ found' = found
          /\ left' = [left EXCEPT ![c] = @ \ {key}] /\ pc[c] = "deleting"
          /\ pc'[c] \in {"done", "deleting"}
    BY <1>1, <1>6 DEF deleteOne, Continue
  <2>2. CallIsRight(c)'
    BY <1>1, <1>2, <2>1 DEF CallIsRight, Is, HasLapsed, IsPayload, grantKeyFor, StepIsRight
  <2>3. QED
    BY <1>1, <2>1, <2>2, DeleteIsRight, OneCallStores
<1>7. CASE upsert(c)
  <2>1. /\ entries' = entries /\ found' = found /\ pc'[c] \in {"done", "upserting"} /\ Is(c, "upsert")
        /\ \E ops \in SUBSET {"payload", "getGrants", "uid"} : left' = [left EXCEPT ![c] = ops]
    BY <1>1, <1>7 DEF upsert, Continue, At
  <2>2. CallIsRight(c)'
    BY <1>1, <2>1 DEF CallIsRight, Is
  <2>3. QED
    BY <1>1, <1>3, <2>1, <2>2, OneCallStores
<1>8. ASSUME Is(c, "upsert"), pc[c] = "upserting", found' = found, pc'[c] \in {"upserting", "failed", "done"},
             NEW more \in SUBSET {"setGrants"}, NEW what,
             left' = [left EXCEPT ![c] = (@ \ {what}) \cup more],
             more # {} => what = "dropGrants" /\ what \in left[c],
             \A k \in DOMAIN entries' : EntryIsRight(k)'
      PROVE  StorageIsRight'
  <2>1. CallIsRight(c)'
    BY <1>1, <1>8 DEF CallIsRight, Is
  <2>2. QED
    BY <1>1, <1>8, <2>1, OneCallStores
<1>9. CASE setPayload(c)
  <2>1. /\ SetEntry(keyFor(c), {Input[c].grant}, Expires(c)) /\ found' = found /\ Is(c, "upsert")
        /\ pc[c] = "upserting" /\ pc'[c] \in {"upserting", "failed", "done"}
        /\ left' = [left EXCEPT ![c] = (@ \ {"payload"}) \cup {}]
    BY <1>1, <1>9 DEF setPayload, Upserting, Upserted, StepIsRight
  <2>2. /\ keyFor(c)[1] # "grant"
        /\ \A d \in Workload : Is(d, "consume") /\ keyFor(d) = keyFor(c)
                               => {Input[c].grant} \subseteq {Input[d].grant}
    BY <1>1, <2>1, GrantsAssumption DEF keyFor, Is
  <2>3. \A k \in DOMAIN entries' : EntryIsRight(k)'
    BY <1>1, <2>1, <2>2, SetIsRight
  <2>4. QED
    BY <2>1, <2>3, <1>8
<1>10. CASE getGrants(c)
  <2>1. /\ entries' = entries /\ found' = [found EXCEPT ![c] = Unexpired(grantKeyFor(c))]
        /\ Is(c, "upsert") /\ pc'[c] \in {"upserting", "failed", "done"}
        /\ \E ops : left' = [left EXCEPT ![c] = ops]
    BY <1>1, <1>10 DEF getGrants, Upserting, Upserted, StepIsRight
  <2>2. \A x \in found'[c] : IsPayload(x)
    BY <1>1, <2>1 DEF Unexpired, EntryIsRight, grantKeyFor
  <2>3. CallIsRight(c)'
    BY <1>1, <2>1, <2>2 DEF CallIsRight, Is
  <2>4. QED
    BY <1>1, <1>3, <2>1, <2>3, OneCallStores
<1>11. CASE dropGrants(c)
  <2>1. /\ entries' = Delete(entries, {grantKeyFor(c)}) /\ found' = found /\ Is(c, "upsert")
        /\ pc[c] = "upserting" /\ pc'[c] \in {"upserting", "failed", "done"} /\ "dropGrants" \in left[c]
        /\ left' = [left EXCEPT ![c] = (@ \ {"dropGrants"}) \cup {"setGrants"}]
    BY <1>1, <1>11 DEF dropGrants, Upserting, Upserted, StepIsRight
  <2>2. \A k \in DOMAIN entries' : EntryIsRight(k)'
    BY <1>1, <2>1, DeleteIsRight
  <2>3. QED
    BY <2>1, <2>2, <1>8
<1>12. CASE setGrants(c)
  <2>1. /\ SetEntry(grantKeyFor(c), found[c] \cup {keyFor(c)}, Expires(c)) /\ found' = found
        /\ Is(c, "upsert") /\ pc[c] = "upserting" /\ pc'[c] \in {"upserting", "failed", "done"}
        /\ left' = [left EXCEPT ![c] = (@ \ {"setGrants"}) \cup {}] /\ "setGrants" \in left[c]
    BY <1>1, <1>12 DEF setGrants, Upserting, Upserted, StepIsRight
  <2>2. /\ \A x \in found[c] \cup {keyFor(c)} : IsPayload(x)
        /\ \A d \in Workload : keyFor(d) # grantKeyFor(c)
    BY <1>1, <2>1 DEF keyFor, grantKeyFor, IsPayload, CallIsRight
  <2>3. \A k \in DOMAIN entries' : EntryIsRight(k)'
    BY <1>1, <2>1, <2>2, SetIsRight
  <2>4. QED
    BY <2>1, <2>3, <1>8
<1>13. CASE setUid(c)
  <2>1. /\ SetEntry(uidKeyFor(c), {Input[c].id}, Expires(c)) /\ found' = found
        /\ Is(c, "upsert") /\ pc[c] = "upserting" /\ pc'[c] \in {"upserting", "failed", "done"}
        /\ left' = [left EXCEPT ![c] = (@ \ {"uid"}) \cup {}]
    BY <1>1, <1>13 DEF setUid, Upserting, Upserted, StepIsRight
  <2>2. uidKeyFor(c)[1] # "grant" /\ \A d \in Workload : keyFor(d) # uidKeyFor(c)
    BY DEF keyFor, uidKeyFor
  <2>3. \A k \in DOMAIN entries' : EntryIsRight(k)'
    BY <1>1, <2>1, <2>2, SetIsRight
  <2>4. QED
    BY <2>1, <2>3, <1>8
<1>14. CASE findByUid(c)
  <2>1. /\ entries' = entries /\ left' = left /\ \E value : found' = [found EXCEPT ![c] = value]
        /\ Is(c, "findByUid") /\ pc'[c] \in {"none", "find"}
    BY <1>1, <1>14 DEF findByUid, At
  <2>2. CallIsRight(c)'
    BY <1>1, <2>1 DEF CallIsRight, Is
  <2>3. QED
    BY <1>1, <1>3, <2>1, <2>2, OneCallStores
<1>15. CASE find(c)
  <2> DEFINE key == IF pc[c] = "find" THEN <<"payload", CHOOSE id \in found[c] : TRUE>> ELSE keyFor(c)
  <2>1. /\ found' = [found EXCEPT ![c] = Unexpired(key)]
        /\ left' = [left EXCEPT ![c] = IF isExpired(key) THEN {key} ELSE {}]
        /\ Go(c, IF isExpired(key) THEN "deleting" ELSE IF Unexpired(key) = {} THEN "none"
                 ELSE IF Is(c, "consume") THEN "consume" ELSE "done")
        /\ entries' = entries
    BY <1>15, Zenon DEF find
  <2>2. /\ IsPayload(key) /\ (Is(c, "findByUid") \/ Is(c, "consume"))
        /\ Is(c, "consume") => key = keyFor(c)
    BY <1>1, <1>15 DEF find, At, StepIsRight, IsPayload, keyFor, Is
  <2> HIDE DEF key
  <2>3. \A d \in Workload : pc'[c] = "consume" /\ Is(d, "consume") /\ keyFor(d) = keyFor(c)
                            => found'[c] \subseteq {Input[d].grant}
    BY <1>1, <2>1, <2>2 DEF Unexpired, EntryIsRight, Is
  <2>4. CallIsRight(c)'
    BY <1>1, <2>1, <2>2, <2>3 DEF CallIsRight, Is, IsPayload, keyFor
  <2>5. QED
    BY <1>1, <1>3, <2>1, <2>2, <2>4, OneCallStores
<1>16. CASE consume(c)
  <2>1. /\ SetEntry(keyFor(c), found[c], "never") /\ left' = left /\ found' = found
        /\ pc[c] = "consume" /\ pc'[c] = "done" /\ keyFor(c)[1] # "grant"
    BY <1>1, <1>16 DEF consume, keyFor
  <2>2. \A d \in Workload : Is(d, "consume") /\ keyFor(d) = keyFor(c) => found[c] \subseteq {Input[d].grant}
    BY <1>1, <2>1 DEF CallIsRight
  <2>3. \A k \in DOMAIN entries' : EntryIsRight(k)'
    BY <1>1, <2>1, <2>2, SetIsRight
  <2>4. CallIsRight(c)'
    BY <1>1, <2>1 DEF CallIsRight
  <2>5. QED
    BY <1>1, <2>1, <2>3, <2>4, OneCallStores
<1>17. CASE destroy(c)
  <2>1. /\ entries' = Delete(entries, {keyFor(c)}) /\ left' = left /\ found' = found /\ pc'[c] = "done"
    BY <1>1, <1>17 DEF destroy
  <2>2. CallIsRight(c)'
    BY <1>1, <2>1 DEF CallIsRight
  <2>3. QED
    BY <1>1, <2>1, <2>2, DeleteIsRight, OneCallStores
<1>18. CASE revokeByGrantId(c)
  <2>1. /\ entries' = entries /\ found' = found /\ Is(c, "revoke") /\ pc'[c] \in {"done", "deleting"}
        /\ \E ops \in SUBSET (Unexpired(grantKeyFor(c)) \cup {grantKeyFor(c)}) :
             left' = [left EXCEPT ![c] = ops]
    BY <1>1, <1>18 DEF revokeByGrantId, Continue, At
  <2>2. \A k \in Unexpired(grantKeyFor(c)) : IsPayload(k)
    BY <1>1 DEF Unexpired, EntryIsRight, grantKeyFor
  <2>3. CallIsRight(c)'
    BY <1>1, <2>1, <2>2 DEF CallIsRight, Is, IsPayload, grantKeyFor
  <2>4. QED
    BY <1>1, <1>3, <2>1, <2>3, OneCallStores
<1>19. CASE getProvider(c) \/ getJwks(c) \/ setJwks(c) \/ getCookieKeys(c) \/ setCookieKeys(c)
            \/ createProvider(c)
  <2>1. UNCHANGED <<entries, left, found>> /\ Kind[c] = "provider"
    BY <1>1, <1>19 DEF getProvider, getJwks, setJwks, getCookieKeys, setCookieKeys, createProvider,
                       At, Is, StepIsRight
  <2>2. QED
    BY <1>1, <2>1, StorageWaits
<1>20. QED
  BY <1>4, <1>5, <1>6, <1>7, <1>9, <1>10, <1>11, <1>12, <1>13, <1>14, <1>15, <1>16, <1>17, <1>18, <1>19
     DEF ProviderStep

\* StorageIsRight is inductive.
LEMMA StorageStaysRight ==
  ASSUME StorageIsRight, StepsAreRight, Step, Remember
  PROVE  StorageIsRight'
<1>1. Moves /\ Workload \subseteq Calls /\ DOMAIN left = Workload
  BY StepsStayRight DEF StepsAreRight, StorageIsRight
<1>2. ASSUME NEW c \in Active
      PROVE  StepIsRight(c) /\ c \in Workload
  BY <1>2 DEF StepsAreRight, Active
<1>3. ASSUME NEW c \in Active, PodStep(c) \/ AccountStep(c), UNCHANGED providerVars
      PROVE  StorageIsRight'
  <2>1. GoesOn(c) /\ StepIsRight(c)' /\ Kind[c] \in ForPods \cup ForAccounts
    BY <1>2, <1>3, PodStepIsRight, AccountStepIsRight
  <2>2. UNCHANGED <<entries, left, found>>
    BY <1>3 DEF providerVars
  <2>3. QED
    BY <2>1, <2>2, StorageWaits
<1>4. ASSUME pc' = pc, UNCHANGED <<entries, found, left>>
      PROVE  StorageIsRight'
  BY <1>1, <1>4, StorageRests
<1>5. CASE crash
  BY <1>1, <1>5, StorageRests DEF crash, ProviderCrash
<1>6. QED
  BY <1>3, <1>4, <1>5, ProviderStepStores
     DEF Step, readConfig, initialize, listen, callVars, expire, providerVars

-----------------------------------------------------------------------------
(* What others change of a grant.                                          *)

\* The keys of payloads, grants and uids differ.
LEMMA KeysDiffer ==
  ASSUME NEW c, NEW g
  PROVE  /\ keyFor(c) # GrantList(g) /\ uidKeyFor(c) # GrantList(g)
         /\ IsPayload(keyFor(c)) /\ ~IsPayload(uidKeyFor(c)) /\ ~IsPayload(GrantList(g))
         /\ Input[c].grant = g => grantKeyFor(c) = GrantList(g)
  BY DEF keyFor, uidKeyFor, grantKeyFor, GrantList, IsPayload

\* A value that is set, or deleted, is of one grant at most.
LEMMA OneEntryIsSet ==
  ASSUME NEW g, NEW key, NEW value, NEW expires, SetEntry(key, value, expires), passed' = passed
  PROVE  /\ key # GrantList(g) => ListOf(g)' = ListOf(g)
         /\ \A k \in Alive(g)' : k \in Alive(g) \/ (k = key /\ IsPayload(key) /\ g \in value)
<1>1. \/ entries' = entries
      \/ /\ DOMAIN entries' = DOMAIN entries \cup {key} /\ entries'[key].value = value
         /\ \A j \in DOMAIN entries : j # key => entries'[j] = entries[j]
  <2>1. CASE expires \in passed
    BY <2>1 DEF SetEntry
  <2>2. CASE expires \notin passed
    BY <2>2 DEF SetEntry, Set, Entry
  <2>3. QED
    BY <2>1, <2>2
<1>2. key # GrantList(g) => ListOf(g)' = ListOf(g)
  BY <1>1 DEF ListOf, GrantList
<1>3. ASSUME NEW k \in Alive(g)', k # key
      PROVE  k \in Alive(g)
  BY <1>1, <1>3 DEF Alive, isExpired
<1>4. ASSUME key \in Alive(g)', key \notin Alive(g)
      PROVE  IsPayload(key) /\ g \in value
  BY <1>1, <1>4 DEF Alive, isExpired, IsPayload
<1>5. QED
  BY <1>2, <1>3, <1>4

\* An entry that is deleted is taken from the payloads of its grant.
LEMMA OneEntryIsDeleted ==
  ASSUME NEW g, NEW key, entries' = Delete(entries, {key}), passed' = passed
  PROVE  /\ key # GrantList(g) => ListOf(g)' = ListOf(g)
         /\ Alive(g)' \subseteq Alive(g) \ {key}
<1>1. /\ DOMAIN entries' = DOMAIN entries \ {key}
      /\ \A k \in DOMAIN entries' : entries'[k] = entries[k]
  BY DEF Delete
<1>2. key # GrantList(g) => ListOf(g)' = ListOf(g)
  BY <1>1 DEF ListOf, GrantList
<1>3. Alive(g)' \subseteq Alive(g) \ {key}
  BY <1>1 DEF Alive, isExpired
<1>4. QED
  BY <1>2, <1>3

\* The calls of a grant wait, have ended or crash, and its list is kept.
LEMMA GrantWaits ==
  ASSUME NEW g, GrantIsRight(g), Workload' = Workload,
         \A d \in Workload : IsOf(d, g) =>
           \/ pc'[d] = pc[d] /\ left'[d] = left[d] /\ found'[d] = found[d]
           \/ pc'[d] = pc[d] /\ ~Running(d)
           \/ pc'[d] = "crashed" /\ ~Is(d, "revoke"),
         ListOf(g)' = ListOf(g), Alive(g)' \subseteq Alive(g), passed \subseteq passed',
         \A d \in stored' : Input[d].grant = g => d \in stored,
         \A d \in Workload : IsOf(d, g) => revoked'[d] \subseteq revoked[d]
  PROVE  GrantIsRight(g)'
<1>1. ASSUME NEW d \in Workload, IsOf(d, g),
             pc'[d] = pc[d] /\ left'[d] = left[d] /\ found'[d] = found[d]
      PROVE  CallKnows(d, g)'
  <2>1. CallKnows(d, g)
    BY <1>1 DEF GrantIsRight
  <2>2. ASSUME NEW r \in Workload, IsOf(r, g), Is(r, "revoke"), pc'[r] = "done"
        PROVE  pc[r] = "done" /\ revoked'[r] \subseteq revoked[r]
    BY <2>2 DEF Running, Outcomes
  <2>3. UpsertKnows(d, g) => UpsertKnows(d, g)'
    BY <1>1, <2>2 DEF UpsertKnows, IsOf, Is, keyFor, Expires
  <2>4. ConsumeKnows(d, g) => ConsumeKnows(d, g)'
    BY <1>1, <2>2 DEF ConsumeKnows, IsOf, Is, keyFor
  <2>5. RevokeKnows(d, g) => RevokeKnows(d, g)'
    BY <1>1 DEF RevokeKnows, keyFor
  <2>6. QED
    BY <1>1, <2>1, <2>3, <2>4, <2>5 DEF CallKnows, Is
<1>2. ASSUME NEW d \in Workload, IsOf(d, g), pc'[d] = pc[d] /\ ~Running(d)
      PROVE  CallKnows(d, g)'
  BY <1>2 DEF GrantIsRight, CallKnows, Running, Outcomes, Is
<1>3. \A d \in Workload : IsOf(d, g) => CallKnows(d, g)'
  BY <1>1, <1>2 DEF CallKnows
<1>4. ListIsComplete(g)'
  <2>1. ASSUME NEW r \in Workload, IsOf(r, g), Is(r, "revoke"), Running(r)
        PROVE  Running(r)'
    BY <2>1 DEF Running
  <2>2. QED
    BY <2>1 DEF GrantIsRight, ListIsComplete, IsOf, Is, keyFor
<1>5. QED
  BY <1>3, <1>4 DEF GrantIsRight, IsOf
-----------------------------------------------------------------------------
(* What the calls of a grant do themselves.                                *)

\* A grant without overlapping calls whose list has not expired, and the step
\* of one of its calls.
Alone(c, g) ==
  /\ g \in Grants /\ GrantIsRight(g) /\ StorageIsRight
  /\ GoesOn(c) /\ IsOf(c, g) /\ ~isExpired(GrantList(g))
  /\ \A d \in Workload \ {c} : IsOf(d, g) => ~Running(d) /\ pc'[d] = pc[d]
  /\ passed' = passed

\* Its step, what it knows, and that its keys are not the others'.
LEMMA CallIsAlone ==
  ASSUME NEW c \in Active, NEW g, Alone(c, g)
  PROVE  /\ c \in Workload /\ pc[c] \notin Outcomes /\ GoesOn(c) /\ Workload' = Workload
         /\ CallKnows(c, g) /\ Input[c].grant = g /\ g # "none" /\ passed' = passed
         /\ grantKeyFor(c) = GrantList(g) /\ keyFor(c) # GrantList(g) /\ ~isExpired(GrantList(g))
         /\ uidKeyFor(c) # GrantList(g) /\ ~IsPayload(uidKeyFor(c)) /\ ~IsPayload(GrantList(g))
         /\ \A d \in Workload \ {c} : IsOf(d, g) => CallKnows(d, g)
         /\ DOMAIN left = Workload /\ DOMAIN found = Workload /\ DOMAIN pc = Workload
<1>1. c \in Workload /\ Workload' = Workload /\ GoesOn(c)
  BY DEF Alone, GoesOn, Active
<1>2. pc[c] \notin Outcomes /\ DOMAIN left = Workload /\ DOMAIN found = Workload /\ DOMAIN pc = Workload
  BY DEF Alone, Active, StorageIsRight, Workload
<1>3. IsOf(c, g) /\ Input[c].grant = g /\ g # "none" /\ passed' = passed /\ ~isExpired(GrantList(g))
  BY DEF Alone, IsOf, Grants
<1>4. CallKnows(c, g) /\ \A d \in Workload \ {c} : IsOf(d, g) => CallKnows(d, g)
  BY <1>1, <1>3 DEF Alone, GrantIsRight
<1>5. QED
  BY <1>1, <1>2, <1>3, <1>4, KeysDiffer

\* It is all that changes what is known of the grant.
LEMMA OneCallOfGrant ==
  ASSUME NEW c \in Active, NEW g, Alone(c, g), CallKnows(c, g)', ListIsComplete(g)',
         \A d \in Workload \ {c} : IsOf(d, g) /\ Is(d, "revoke") /\ pc[d] = "done"
                                   => revoked'[d] \cap Alive(g)' = {}
  PROVE  GrantIsRight(g)'
<1>1. ASSUME NEW d \in Workload \ {c}, IsOf(d, g)
      PROVE  CallKnows(d, g)'
  BY <1>1 DEF Alone, CallKnows, Running, Outcomes, Is
<1>2. QED
  BY <1>1 DEF GrantIsRight, Alone, GoesOn, IsOf

\* No revocation runs beside another call of the grant.
LEMMA NoneIsRevoking ==
  ASSUME NEW c \in Active, NEW g, Alone(c, g), ~Is(c, "revoke") \/ ~Running(c)
  PROVE  \A d \in stored : Input[d].grant = g /\ keyFor(d) \in Alive(g) => keyFor(d) \in ListOf(g)
  BY DEF Alone, GrantIsRight, ListIsComplete, Is, Running
\* An upsert reads the list before it stores it, and is in it when it is done.
LEMMA UpsertKeepsGrant ==
  ASSUME NEW c \in Active, NEW g, Alone(c, g), Is(c, "upsert"), ProviderStep(c), StepIsRight(c),
         Remember
  PROVE  GrantIsRight(g)'
<1>1. /\ c \in Workload /\ pc[c] \notin Outcomes /\ GoesOn(c) /\ Workload' = Workload
      /\ CallKnows(c, g) /\ Input[c].grant = g /\ g # "none" /\ passed' = passed
      /\ grantKeyFor(c) = GrantList(g) /\ keyFor(c) # GrantList(g) /\ ~isExpired(GrantList(g))
      /\ uidKeyFor(c) # GrantList(g) /\ ~IsPayload(uidKeyFor(c)) /\ ~IsPayload(GrantList(g))
      /\ \A d \in Workload \ {c} : IsOf(d, g) => CallKnows(d, g)
      /\ DOMAIN left = Workload /\ DOMAIN found = Workload /\ DOMAIN pc = Workload
  BY CallIsAlone
<1>2. /\ stored' = {d \in stored : ~(pc[c] = "idle" /\ keyFor(d) = keyFor(c))}
                     \cup (IF pc'[c] = "done" THEN {c} ELSE {})
      /\ \A d \in Workload : revoked'[d] = revoked[d] \ (IF pc[c] = "idle" THEN {keyFor(c)} ELSE {})
  <2>1. ~Is(c, "revoke")
    BY DEF Is
  <2>2. QED
    BY <1>1, <2>1, GrantsAreRemembered
<1>3. \A d \in stored : Input[d].grant = g /\ keyFor(d) \in Alive(g) => keyFor(d) \in ListOf(g)
  BY NoneIsRevoking DEF Is
<1>4. ASSUME pc[c] = "upserting",
             pc'[c] = (IF left'[c] # {} THEN "upserting"
                       ELSE IF Expires(c) \in passed THEN "failed" ELSE "done"),
             \A k \in Alive(g)' : k \in Alive(g) \cup {keyFor(c)}, ListOf(g) \subseteq ListOf(g)',
             "dropGrants" \notin left'[c],
             "setGrants" \in left'[c] => ListOf(g)' \subseteq found'[c],
             left'[c] \cap {"getGrants", "setGrants"} = {}
               => keyFor(c) \in ListOf(g)' \/ Expires(c) \in passed
      PROVE  GrantIsRight(g)'
  <2>1. UpsertKnows(c, g)
    BY <1>1, <1>4 DEF CallKnows
  <2>2. \A d \in Workload \ {c} : IsOf(d, g) /\ Is(d, "revoke") /\ pc[d] = "done"
                                  => revoked'[d] \cap Alive(g)' = {}
    BY <1>1, <1>2, <1>4, <2>1 DEF CallKnows, UpsertKnows
  <2>3. ASSUME NEW d \in stored', Input[d].grant = g, keyFor(d) \in Alive(g)'
        PROVE  keyFor(d) \in ListOf(g)'
    <3>1. CASE d \in stored
      BY <1>3, <1>4, <2>1, <2>3, <3>1 DEF UpsertKnows
    <3>2. CASE d = c /\ pc'[c] = "done"
      BY <1>4, <3>2
    <3>3. QED
      BY <1>2, <3>1, <3>2
  <2>4. ListIsComplete(g)'
    BY <2>3 DEF ListIsComplete, keyFor
  <2>5. pc'[c] = "upserting" => UpsertKnows(c, g)'
    <3>1. SUFFICES ASSUME pc'[c] = "upserting" PROVE UpsertKnows(c, g)'
      OBVIOUS
    <3>2. stored' = stored /\ \A d \in Workload : revoked'[d] = revoked[d]
      BY <1>1, <1>2, <1>4, <3>1
    <3>3. \A r \in Workload : IsOf(r, g) /\ Is(r, "revoke") /\ pc'[r] = "done" => pc[r] = "done"
      BY <1>1, <3>1 DEF GoesOn
    <3>4. QED
      BY <1>1, <1>4, <2>1, <3>2, <3>3 DEF UpsertKnows, IsOf, Is, keyFor, Expires
  <2>6. CallKnows(c, g)'
    BY <1>4, <2>5 DEF CallKnows, Is
  <2>7. QED
    BY <2>2, <2>4, <2>6, OneCallOfGrant
<1>5. ASSUME pc[c] = "upserting", UNCHANGED found, NEW what, what \notin {"getGrants", "setGrants"},
             what \in left[c], Upserted(c, left[c] \ {what}), ListOf(g)' = ListOf(g),
             \A k \in Alive(g)' : k \in Alive(g) \cup {keyFor(c)}
      PROVE  GrantIsRight(g)'
  <2>1. UpsertKnows(c, g)
    BY <1>1, <1>5 DEF CallKnows
  <2>2. /\ left'[c] = left[c] \ {what}
        /\ pc'[c] = (IF left'[c] # {} THEN "upserting"
                     ELSE IF Expires(c) \in passed THEN "failed" ELSE "done")
    BY <1>1, <1>5 DEF Upserted, Go
  <2>3. QED
    BY <1>4, <1>5, <2>1, <2>2 DEF UpsertKnows
<1>6. CASE upsert(c)
  <2>1. /\ pc[c] = "idle" /\ pc'[c] = "upserting" /\ UNCHANGED <<passed, entries>>
        /\ "getGrants" \in left'[c] /\ "setGrants" \notin left'[c] /\ "dropGrants" \notin left'[c]
    BY <1>1, <1>6 DEF upsert, Continue, At, Go
  <2>2. Alive(g)' = Alive(g) /\ ListOf(g)' = ListOf(g)
    BY <2>1 DEF Alive, ListOf, isExpired
  <2>3. ListIsComplete(g)'
    BY <1>2, <1>3, <2>1, <2>2 DEF ListIsComplete, keyFor
  <2>4. UpsertKnows(c, g)'
    BY <1>1, <1>2, <2>1 DEF UpsertKnows, IsOf, Is, keyFor
  <2>5. CallKnows(c, g)'
    BY <2>1, <2>4 DEF CallKnows
  <2>6. QED
    BY <1>1, <1>2, <2>2, <2>3, <2>5, OneCallOfGrant DEF CallKnows
<1>7. CASE setPayload(c)
  <2>1. SetEntry(keyFor(c), {Input[c].grant}, Expires(c))
    BY <1>7 DEF setPayload
  <2>2. ListOf(g)' = ListOf(g) /\ \A k \in Alive(g)' : k \in Alive(g) \cup {keyFor(c)}
    BY <1>1, <2>1, OneEntryIsSet
  <2>3. QED
    BY <1>5, <1>7, <2>2 DEF setPayload, Upserting
<1>8. CASE getGrants(c)
  <2>1. /\ UNCHANGED <<passed, entries>> /\ pc[c] = "upserting" /\ pc'[c] = "upserting"
        /\ left'[c] = (left[c] \ {"getGrants"}) \cup {"setGrants"}
        /\ found'[c] = Unexpired(GrantList(g))
    BY <1>1, <1>8 DEF getGrants, Upserting, Upserted, Go
  <2>2. Alive(g)' = Alive(g) /\ ListOf(g)' = ListOf(g) /\ Unexpired(GrantList(g)) = ListOf(g)
    BY <1>1, <2>1 DEF Alive, ListOf, isExpired, Unexpired
  <2>3. "dropGrants" \notin left[c]
    BY <1>1, <2>1 DEF CallKnows, UpsertKnows
  <2>4. QED
    BY <1>4, <2>1, <2>2, <2>3
<1>9. CASE dropGrants(c)
  BY <1>1, <1>9 DEF dropGrants, Upserting, CallKnows, UpsertKnows
<1>10. CASE setGrants(c)
  <2>1. /\ SetEntry(GrantList(g), found[c] \cup {keyFor(c)}, Expires(c)) /\ pc[c] = "upserting"
        /\ "setGrants" \in left[c] /\ left'[c] = left[c] \ {"setGrants"} /\ UNCHANGED found
        /\ pc'[c] = (IF left'[c] # {} THEN "upserting"
                     ELSE IF Expires(c) \in passed THEN "failed" ELSE "done")
    BY <1>1, <1>10 DEF setGrants, Upserting, Upserted, Go
  <2>2. "dropGrants" \notin left[c] /\ ListOf(g) \subseteq found[c]
    BY <1>1, <2>1 DEF CallKnows, UpsertKnows
  <2>3. \A k \in Alive(g)' : k \in Alive(g) \cup {keyFor(c)}
    <3> DEFINE list == found[c] \cup {keyFor(c)}
    <3>1. SetEntry(GrantList(g), list, Expires(c))
      BY <2>1
    <3> HIDE DEF list
    <3>2. QED
      BY <1>1, <3>1, OneEntryIsSet
  <2>4. Expires(c) \in passed => ListOf(g)' = ListOf(g)
    BY <2>1 DEF SetEntry, ListOf
  <2>5. Expires(c) \notin passed => ListOf(g)' = found[c] \cup {keyFor(c)}
    BY <2>1 DEF SetEntry, Set, Entry, ListOf
  <2>6. QED
    BY <1>4, <2>1, <2>2, <2>3, <2>4, <2>5
<1>11. CASE setUid(c)
  <2>1. SetEntry(uidKeyFor(c), {Input[c].id}, Expires(c))
    BY <1>11 DEF setUid
  <2>2. ListOf(g)' = ListOf(g) /\ \A k \in Alive(g)' : k \in Alive(g) \cup {keyFor(c)}
    BY <1>1, <2>1, OneEntryIsSet
  <2>3. QED
    BY <1>5, <1>11, <2>2 DEF setUid, Upserting
<1>12. QED
  <2>1. upsert(c) \/ setPayload(c) \/ getGrants(c) \/ dropGrants(c) \/ setGrants(c) \/ setUid(c)
    BY DEF ProviderStep, StepIsRight, Is, At, removeExpiredEntries, visit, deleteOne, findByUid,
           find, consume, destroy, revokeByGrantId, getProvider, getJwks, setJwks, getCookieKeys,
           setCookieKeys, createProvider
  <2>2. QED
    BY <1>6, <1>7, <1>8, <1>9, <1>10, <1>11, <2>1
\* A call that consumes a payload stores again what was in the list.
LEMMA ConsumeKeepsGrant ==
  ASSUME NEW c \in Active, NEW g, Alone(c, g), Is(c, "consume"), ProviderStep(c), StepIsRight(c),
         Remember
  PROVE  GrantIsRight(g)'
<1>1. /\ c \in Workload /\ GoesOn(c) /\ Workload' = Workload
      /\ CallKnows(c, g) /\ Input[c].grant = g /\ passed' = passed
      /\ keyFor(c) # GrantList(g) /\ IsPayload(keyFor(c)) /\ ~IsPayload(GrantList(g))
      /\ \A d \in Workload \ {c} : IsOf(d, g) => CallKnows(d, g)
      /\ DOMAIN left = Workload /\ DOMAIN found = Workload /\ DOMAIN pc = Workload
  BY CallIsAlone, KeysDiffer
<1>2. stored' = stored /\ \A d \in Workload : revoked'[d] = revoked[d]
  BY <1>1, GrantsAreRemembered DEF Is
<1>3. \A d \in stored : Input[d].grant = g /\ keyFor(d) \in Alive(g) => keyFor(d) \in ListOf(g)
  BY NoneIsRevoking DEF Is
<1>4. ASSUME pc'[c] # "upserting", pc'[c] = "consume" => ConsumeKnows(c, g)',
             ListOf(g)' = ListOf(g), \A k \in Alive(g)' : k \in Alive(g) \/
               (k = keyFor(c) /\ ConsumeKnows(c, g))
      PROVE  GrantIsRight(g)'
  <2>1. CallKnows(c, g)'
    BY <1>4 DEF CallKnows, Is
  <2>2. \A d \in Workload \ {c} : IsOf(d, g) /\ Is(d, "revoke") /\ pc[d] = "done"
                                  => revoked'[d] \cap Alive(g)' = {}
    BY <1>1, <1>2, <1>4 DEF CallKnows, ConsumeKnows
  <2>3. \A d \in stored' : Input[d].grant = g /\ keyFor(d) \in Alive(g)' => keyFor(d) \in ListOf(g)'
    BY <1>2, <1>3, <1>4 DEF ConsumeKnows
  <2>4. ListIsComplete(g)'
    BY <2>3 DEF ListIsComplete, keyFor
  <2>5. QED
    BY <2>1, <2>2, <2>4, OneCallOfGrant
<1>5. CASE find(c)
  <2>1. pc[c] = "idle"
    BY <1>5 DEF find, At, StepIsRight, Is
  <2>2. /\ pc'[c] \in {"deleting", "none", "consume", "done"} /\ UNCHANGED entries
        /\ pc'[c] = "consume" => ~isExpired(keyFor(c)) /\ Unexpired(keyFor(c)) # {}
    BY <1>1, <1>5, <2>1 DEF find, Go
  <2>3. ListOf(g)' = ListOf(g) /\ Alive(g)' = Alive(g)
    BY <1>1, <2>2 DEF ListOf, Alive, isExpired
  <2>4. ASSUME pc'[c] = "consume" PROVE keyFor(c) \in Alive(g)
    <3>1. keyFor(c) \in DOMAIN entries /\ ~isExpired(keyFor(c)) /\ entries[keyFor(c)].value # {}
      BY <2>2, <2>4 DEF Unexpired
    <3>2. entries[keyFor(c)].value \subseteq {g}
      BY <1>1, <3>1 DEF Alone, StorageIsRight, EntryIsRight
    <3>3. QED
      BY <1>1, <3>1, <3>2 DEF Alive, IsPayload
  <2>5. ASSUME pc'[c] = "consume" PROVE ConsumeKnows(c, g)'
    <3>1. ASSUME NEW r \in Workload, IsOf(r, g), Is(r, "revoke"), pc'[r] = "done"
          PROVE  keyFor(c) \notin revoked[r]
      <4>1. r # c /\ pc[r] = "done"
        BY <1>1, <2>5, <3>1 DEF GoesOn
      <4>2. QED
        BY <1>1, <2>4, <2>5, <3>1, <4>1 DEF CallKnows
    <3>2. QED
      BY <1>1, <1>2, <1>3, <2>3, <2>4, <2>5, <3>1 DEF ConsumeKnows, IsOf, Is, keyFor
  <2>6. QED
    BY <1>4, <2>2, <2>3, <2>5
<1>6. CASE deleteOne(c)
  <2>1. PICK key \in left[c] : entries' = Delete(entries, {key})
    BY <1>6 DEF deleteOne
  <2>2. pc[c] = "deleting" /\ pc'[c] \in {"deleting", "done"}
    BY <1>1, <1>6 DEF deleteOne, Continue, Go
  <2>3. IsPayload(key)
    BY <1>1, <2>2 DEF Alone, StorageIsRight, CallIsRight, Is
  <2>4. ListOf(g)' = ListOf(g) /\ Alive(g)' \subseteq Alive(g)
    BY <1>1, <2>1, <2>3, OneEntryIsDeleted
  <2>5. QED
    BY <1>4, <2>2, <2>4
<1>7. CASE consume(c)
  <2>1. /\ SetEntry(keyFor(c), found[c], "never") /\ pc[c] = "consume" /\ pc'[c] = "done"
    BY <1>1, <1>7 DEF consume, Go
  <2>2. ConsumeKnows(c, g)
    BY <1>1, <2>1 DEF CallKnows
  <2>3. ListOf(g)' = ListOf(g) /\ \A k \in Alive(g)' : k \in Alive(g) \/ k = keyFor(c)
    <3> DEFINE key == keyFor(c)
               value == found[c]
               expires == "never"
    <3>1. SetEntry(key, value, expires) /\ key # GrantList(g)
      BY <1>1, <2>1
    <3> HIDE DEF key, value, expires
    <3>2. ListOf(g)' = ListOf(g) /\ \A k \in Alive(g)' : k \in Alive(g) \/ k = key
      BY <1>1, <3>1, OneEntryIsSet
    <3>3. QED
      BY <3>2 DEF key
  <2>4. QED
    BY <1>4, <2>1, <2>2, <2>3
<1>8. find(c) \/ deleteOne(c) \/ consume(c)
  BY DEF ProviderStep, StepIsRight, Is, At, removeExpiredEntries, visit, upsert, setPayload,
         getGrants, dropGrants, setGrants, setUid, Upserting, findByUid, destroy, revokeByGrantId,
         getProvider, getJwks, setJwks, getCookieKeys, setCookieKeys, createProvider
<1>9. QED
  BY <1>5, <1>6, <1>7, <1>8

\* A revocation deletes what was in the list when it began.
LEMMA RevokeKeepsGrant ==
  ASSUME NEW c \in Active, NEW g, Alone(c, g), Is(c, "revoke"), ProviderStep(c), StepIsRight(c),
         Remember
  PROVE  GrantIsRight(g)'
<1>1. /\ c \in Workload /\ GoesOn(c) /\ Workload' = Workload
      /\ CallKnows(c, g) /\ Input[c].grant = g /\ passed' = passed
      /\ grantKeyFor(c) = GrantList(g) /\ ~isExpired(GrantList(g))
      /\ \A d \in Workload \ {c} : IsOf(d, g) => CallKnows(d, g)
      /\ DOMAIN left = Workload /\ DOMAIN pc = Workload
  BY CallIsAlone
<1>2. /\ stored' = stored
      /\ \A d \in Workload : revoked'[d] =
           IF d = c /\ pc[c] = "idle" THEN {keyFor(e) : e \in {e \in stored : Input[e].grant = g}}
           ELSE revoked[d]
  BY <1>1, GrantsAreRemembered DEF Is
<1>3. CASE revokeByGrantId(c)
  <2>1. pc[c] = "idle" /\ UNCHANGED entries
    BY <1>3 DEF revokeByGrantId, At
  <2>2. ListOf(g)' = ListOf(g) /\ Alive(g)' = Alive(g) /\ Unexpired(GrantList(g)) = ListOf(g)
    BY <1>1, <2>1 DEF ListOf, Alive, isExpired, Unexpired
  <2>3. \/ pc'[c] = "deleting" /\ ListOf(g) \subseteq left'[c]
        \/ pc'[c] = "done" /\ ListOf(g) = {}
    BY <1>1, <1>3, <2>2 DEF revokeByGrantId, Continue, Go
  <2>4. \A d \in stored : Input[d].grant = g /\ keyFor(d) \in Alive(g) => keyFor(d) \in ListOf(g)
    BY <2>1, NoneIsRevoking DEF Running
  <2>5. \A k \in revoked'[c] : k \in Alive(g) => k \in ListOf(g)
    <3>1. revoked'[c] = {keyFor(e) : e \in {e \in stored : Input[e].grant = g}}
      BY <1>1, <1>2, <2>1
    <3>2. QED
      BY <2>4, <3>1
  <2>6. ListIsComplete(g)'
    BY <1>2, <2>2, <2>4 DEF ListIsComplete, keyFor
  <2>7. CallKnows(c, g)'
    BY <1>1, <1>2, <2>2, <2>3, <2>4, <2>5 DEF CallKnows, RevokeKnows, keyFor
  <2>8. QED
    BY <1>1, <1>2, <2>2, <2>6, <2>7, OneCallOfGrant DEF CallKnows
<1>4. CASE deleteOne(c)
  <2>1. PICK key \in left[c] : entries' = Delete(entries, {key}) /\ Continue(c, left[c] \ {key}, "deleting")
    BY <1>4 DEF deleteOne
  <2>2. /\ pc[c] = "deleting" /\ left'[c] = left[c] \ {key}
        /\ \/ pc'[c] = "deleting"
           \/ pc'[c] = "done" /\ left'[c] = {}
    BY <1>1, <1>4, <2>1 DEF deleteOne, Continue, Go
  <2>3. Alive(g)' \subseteq Alive(g) \ {key}
    BY <1>1, <2>1, OneEntryIsDeleted
  <2>4. RevokeKnows(c, g)
    BY <1>1, <2>2 DEF CallKnows
  <2>5. /\ revoked'[c] \cap Alive(g)' \subseteq left'[c]
        /\ \A d \in stored' : Input[d].grant = g /\ keyFor(d) \in Alive(g)' => keyFor(d) \in left'[c]
    BY <1>1, <1>2, <2>2, <2>3, <2>4 DEF RevokeKnows
  <2>6. CallKnows(c, g)'
    BY <2>2, <2>5 DEF CallKnows, RevokeKnows, keyFor
  <2>7. ListIsComplete(g)'
    <3>1. CASE pc'[c] = "deleting"
      <4>1. Running(c)' /\ IsOf(c, g)
        BY <3>1 DEF Running, Outcomes, Alone
      <4>2. QED
        BY <1>1, <4>1 DEF ListIsComplete, IsOf, Is
    <3>2. CASE pc'[c] = "done" /\ left'[c] = {}
      BY <2>5, <3>2 DEF ListIsComplete, keyFor
    <3>3. QED
      BY <2>2, <3>1, <3>2
  <2>8. QED
    BY <1>1, <1>2, <2>3, <2>6, <2>7, OneCallOfGrant DEF CallKnows
<1>5. revokeByGrantId(c) \/ deleteOne(c)
  BY DEF ProviderStep, StepIsRight, Is, At, removeExpiredEntries, visit, upsert, setPayload,
         getGrants, dropGrants, setGrants, setUid, Upserting, findByUid, find, consume, destroy,
         getProvider, getJwks, setJwks, getCookieKeys, setCookieKeys, createProvider
<1>6. QED
  BY <1>3, <1>4, <1>5
\* A call of another grant, or of none, neither changes the list of a grant that
\* has not expired nor adds to its payloads.
LEMMA OthersKeepGrant ==
  ASSUME NEW c \in Active, NEW g, GrantIsRight(g), StorageIsRight, ~IsOf(c, g), g \notin lapsed,
         ProviderStep(c), StepIsRight(c), Remember
  PROVE  GrantIsRight(g)'
<1>1. /\ c \in Workload /\ Workload' = Workload /\ pc'[c] # "idle"
      /\ \A d \in Workload \ {c} : pc'[d] = pc[d]
      /\ DOMAIN left = Workload /\ DOMAIN found = Workload
      /\ Kind[c] \in {"upsert", "consume", "revoke"} => Input[c].grant # g
      /\ keyFor(c) # GrantList(g) /\ uidKeyFor(c) # GrantList(g)
      /\ ~IsPayload(uidKeyFor(c)) /\ ~IsPayload(grantKeyFor(c)) /\ ~IsPayload(GrantList(g))
      /\ CallIsRight(c)
  <2>1. ~IsPayload(grantKeyFor(c))
    BY DEF IsPayload, grantKeyFor
  <2>2. GoesOn(c) /\ c \in Workload
    BY ProviderStepIsRight DEF Active
  <2>3. QED
    BY <2>1, <2>2, KeysDiffer DEF GoesOn, StorageIsRight, IsOf
<1>2. /\ \A d \in stored' : Input[d].grant = g => d \in stored
      /\ \A d \in Workload : IsOf(d, g) => revoked'[d] \subseteq revoked[d]
  <2>1. GoesOn(c)
    BY ProviderStepIsRight
  <2>2. \A d \in stored' : d \in stored \/ (d = c /\ Is(c, "upsert"))
    <3>1. stored' = {d \in stored : ~(pc[c] = "idle" /\ Is(c, "upsert") /\ keyFor(d) = keyFor(c))}
                      \cup (IF pc'[c] = "done" /\ Is(c, "upsert") THEN {c} ELSE {})
      BY <2>1, GrantsAreRemembered
    <3>2. QED
      BY <3>1
  <2>3. \A d \in Workload \ {c} : revoked'[d] \subseteq revoked[d]
    <3>1. \A d \in Workload \ {c} : revoked'[d] =
             revoked[d] \ (IF pc[c] = "idle" /\ Is(c, "upsert") THEN {keyFor(c)} ELSE {})
      BY <2>1, GrantsAreRemembered
    <3>2. QED
      BY <3>1
  <2>4. QED
    BY <1>1, <2>2, <2>3 DEF Is
<1>3. ASSUME ListOf(g)' = ListOf(g), \A k \in Alive(g)' : k \in Alive(g), passed' = passed,
             \A d \in Workload \ {c} : left'[d] = left[d] /\ found'[d] = found[d]
      PROVE  GrantIsRight(g)'
  BY <1>1, <1>2, <1>3, GrantWaits
<1>4. ASSUME entries' = entries, passed' = passed,
             \A d \in Workload \ {c} : left'[d] = left[d] /\ found'[d] = found[d]
      PROVE  GrantIsRight(g)'
  BY <1>3, <1>4 DEF ListOf, Alive, isExpired
<1>5. ASSUME NEW key, entries' = Delete(entries, {key}), key # GrantList(g), passed' = passed,
             \A d \in Workload \ {c} : left'[d] = left[d] /\ found'[d] = found[d]
      PROVE  GrantIsRight(g)'
  BY <1>3, <1>5, OneEntryIsDeleted
<1>6. ASSUME NEW key, NEW value, NEW expires, SetEntry(key, value, expires), key # GrantList(g),
             IsPayload(key) => g \notin value, passed' = passed,
             \A d \in Workload \ {c} : left'[d] = left[d] /\ found'[d] = found[d]
      PROVE  GrantIsRight(g)'
  BY <1>3, <1>6, OneEntryIsSet
<1>7. CASE removeExpiredEntries(c) \/ visit(c)
  BY <1>1, <1>4, <1>7 DEF removeExpiredEntries, visit, Continue
<1>8. CASE upsert(c) \/ getGrants(c)
  BY <1>1, <1>4, <1>8 DEF upsert, getGrants, Continue, Upserted
<1>9. CASE findByUid(c) \/ find(c) \/ revokeByGrantId(c)
  BY <1>1, <1>4, <1>9 DEF findByUid, find, revokeByGrantId, Continue
<1>10. CASE getProvider(c) \/ getJwks(c) \/ setJwks(c) \/ getCookieKeys(c) \/ setCookieKeys(c)
            \/ createProvider(c)
  BY <1>1, <1>4, <1>10 DEF getProvider, getJwks, setJwks, getCookieKeys, setCookieKeys, createProvider
<1>11. CASE deleteOne(c)
  <2>1. PICK key \in left[c] : entries' = Delete(entries, {key}) /\ Continue(c, left[c] \ {key}, "deleting")
    BY <1>11 DEF deleteOne
  <2>2. /\ pc[c] = "deleting" /\ passed' = passed
        /\ \A d \in Workload \ {c} : left'[d] = left[d] /\ found'[d] = found[d]
    BY <1>1, <1>11, <2>1 DEF deleteOne, Continue
  <2>3. key # GrantList(g)
    <3>1. CASE Kind[c] \in {"findByUid", "consume"}
      BY <1>1, <2>2, <3>1 DEF CallIsRight
    <3>2. CASE Is(c, "revoke")
      BY <1>1, <2>2, <3>2 DEF CallIsRight, Is, grantKeyFor, GrantList
    <3>3. CASE Is(c, "sweep")
      BY <1>1, <2>2, <3>3 DEF CallIsRight, HasLapsed, GrantList
    <3>4. QED
      BY <2>2, <3>1, <3>2, <3>3 DEF StepIsRight, Is
  <2>4. QED
    BY <1>5, <2>1, <2>2, <2>3
<1>12. CASE dropGrants(c)
  <2>1. /\ entries' = Delete(entries, {grantKeyFor(c)}) /\ passed' = passed /\ Is(c, "upsert")
        /\ \A d \in Workload \ {c} : left'[d] = left[d] /\ found'[d] = found[d]
    BY <1>1, <1>12 DEF dropGrants, Upserted, Upserting, StepIsRight
  <2>2. grantKeyFor(c) # GrantList(g)
    BY <1>1, <2>1 DEF grantKeyFor, GrantList, Is
  <2>3. QED
    BY <1>5, <2>1, <2>2
<1>13. CASE destroy(c)
  BY <1>1, <1>5, <1>13 DEF destroy
<1>14. CASE setPayload(c)
  <2>1. /\ SetEntry(keyFor(c), {Input[c].grant}, Expires(c)) /\ passed' = passed /\ Is(c, "upsert")
        /\ \A d \in Workload \ {c} : left'[d] = left[d] /\ found'[d] = found[d]
    BY <1>1, <1>14 DEF setPayload, Upserted, Upserting, StepIsRight
  <2> DEFINE value == {Input[c].grant}
  <2>2. g \notin value /\ SetEntry(keyFor(c), value, Expires(c))
    BY <1>1, <2>1 DEF Is
  <2> HIDE DEF value
  <2>3. QED
    BY <1>1, <1>6, <2>1, <2>2
<1>15. CASE setGrants(c)
  <2>1. /\ SetEntry(grantKeyFor(c), found[c] \cup {keyFor(c)}, Expires(c)) /\ passed' = passed
        /\ Is(c, "upsert") /\ \A d \in Workload \ {c} : left'[d] = left[d] /\ found'[d] = found[d]
    BY <1>1, <1>15 DEF setGrants, Upserted, Upserting, StepIsRight
  <2> DEFINE value == found[c] \cup {keyFor(c)}
  <2>2. grantKeyFor(c) # GrantList(g) /\ SetEntry(grantKeyFor(c), value, Expires(c))
    BY <1>1, <2>1 DEF grantKeyFor, GrantList, Is
  <2> HIDE DEF value
  <2>3. QED
    BY <1>1, <1>6, <2>1, <2>2
<1>16. CASE setUid(c)
  <2>1. /\ SetEntry(uidKeyFor(c), {Input[c].id}, Expires(c)) /\ passed' = passed
        /\ \A d \in Workload \ {c} : left'[d] = left[d] /\ found'[d] = found[d]
    BY <1>1, <1>16 DEF setUid, Upserted, Upserting
  <2> DEFINE value == {Input[c].id}
  <2>2. SetEntry(uidKeyFor(c), value, Expires(c))
    BY <2>1
  <2> HIDE DEF value
  <2>3. QED
    BY <1>1, <1>6, <2>1, <2>2
<1>17. CASE consume(c)
  <2>1. /\ SetEntry(keyFor(c), found[c], "never") /\ passed' = passed /\ pc[c] = "consume"
        /\ \A d \in Workload \ {c} : left'[d] = left[d] /\ found'[d] = found[d]
    BY <1>1, <1>17 DEF consume
  <2>2. g \notin found[c]
    BY <1>1, <2>1 DEF CallIsRight, StepIsRight, Is
  <2> DEFINE key == keyFor(c)
             value == found[c]
             expires == "never"
  <2>3. SetEntry(key, value, expires) /\ g \notin value /\ key # GrantList(g)
    BY <1>1, <2>1, <2>2
  <2> HIDE DEF key, value, expires
  <2>4. QED
    BY <1>6, <2>1, <2>3
<1>18. QED
  BY <1>7, <1>8, <1>9, <1>10, <1>11, <1>12, <1>13, <1>14, <1>15, <1>16, <1>17 DEF ProviderStep

-----------------------------------------------------------------------------
(* The theorem.                                                            *)

\* RevocationInv is inductive.
LEMMA RevocationStaysRight ==
  ASSUME IInv, RevocationInv, Step, Remember
  PROVE  RevocationInv'
<1>1. /\ StepsAreRight /\ OverlapsAreKnown /\ StorageIsRight /\ StorageIsRight' /\ Moves
      /\ Workload' = Workload
  BY StorageStaysRight, StepsStayRight, CallsGoOn DEF IInv, RevocationInv
<1>2. SUFFICES ASSUME NEW g \in Grants, g \notin overlapping' \cup lapsed'
               PROVE  GrantIsRight(g)'
  BY <1>1 DEF RevocationInv
<1>3. GrantIsRight(g) /\ g \notin overlapping \cup lapsed
  BY <1>2, OverlapsGrow, LapsesAreRemembered DEF RevocationInv
<1>4. ~isExpired(GrantList(g))
  BY <1>2, LapsesAreRemembered DEF isExpired, GrantList
<1>5. ASSUME NEW c \in Active, GoesOn(c), UNCHANGED <<entries, passed, left, found>>,
             Kind[c] \in ForPods \cup ForAccounts
      PROVE  GrantIsRight(g)'
  <2>1. ~IsOf(c, g) /\ ~Is(c, "upsert") /\ ~Is(c, "revoke")
    BY <1>5 DEF IsOf, Is, ForPods, ForAccounts
  <2>2. stored' = stored /\ \A d \in Workload : revoked'[d] = revoked[d]
    BY <1>5, <2>1, GrantsAreRemembered
  <2>3. Alive(g)' = Alive(g) /\ ListOf(g)' = ListOf(g)
    BY <1>5 DEF Alive, ListOf, isExpired
  <2>4. QED
    BY <1>1, <1>3, <1>5, <2>1, <2>2, <2>3, GrantWaits DEF GoesOn
<1>6. ASSUME UNCHANGED <<entries, found>>, passed \subseteq passed',
             \A c \in Workload : (pc'[c] = pc[c] /\ (left'[c] = left[c] \/ ~Running(c)))
                                 \/ (Running(c) /\ pc'[c] = "crashed")
      PROVE  GrantIsRight(g)'
  <2>1. stored' = stored /\ \A d \in Workload : revoked'[d] = revoked[d]
    BY <1>6, NothingIsStored DEF Running, Active
  <2>2. Alive(g)' \subseteq Alive(g) /\ ListOf(g)' = ListOf(g)
    BY <1>6 DEF Alive, ListOf, isExpired
  <2>3. ASSUME NEW c \in Workload, IsOf(c, g), Running(c), pc'[c] = "crashed" PROVE ~Is(c, "revoke")
    BY <1>2, <2>3, LapsesAreRemembered DEF IsOf, Active, Running
  <2>4. QED
    BY <1>1, <1>3, <1>6, <2>1, <2>2, <2>3, GrantWaits
<1>7. ASSUME NEW c \in Active, ProviderStep(c), UNCHANGED passed
      PROVE  GrantIsRight(g)'
  <2>1. GoesOn(c) /\ StepIsRight(c) /\ c \in Workload
    BY <1>1, <1>7, ProviderStepIsRight DEF StepsAreRight, Active
  <2>2. CASE ~IsOf(c, g)
    BY <1>1, <1>3, <1>7, <2>1, <2>2, OthersKeepGrant
  <2>3. CASE IsOf(c, g)
    <3>1. ASSUME NEW d \in Workload \ {c}, IsOf(d, g)
          PROVE  ~Running(d) /\ pc'[d] = pc[d]
      <4>1. g \in Changes(c) \cap Changes(d)
        BY <2>3, <3>1 DEF IsOf, Changes, Is
      <4>2. pc[c] = "idle" \/ Running(c)
        BY DEF Active, Running
      <4>3. Running(d) => g \in overlapping'
        BY <1>1, <2>1, <4>1, <4>2, OverlapsGrow DEF OverlapsAreKnown, GoesOn
      <4>4. QED
        BY <1>2, <2>1, <4>3 DEF GoesOn
    <3>2. Alone(c, g)
      BY <1>1, <1>2, <1>3, <1>4, <1>7, <2>1, <2>3, <3>1 DEF Alone
    <3>3. QED
      BY <1>7, <2>1, <2>3, <3>2, UpsertKeepsGrant, ConsumeKeepsGrant, RevokeKeepsGrant DEF IsOf, Is
  <2>4. QED
    BY <2>2, <2>3
<1>8. ASSUME NEW c \in Active, PodStep(c) \/ AccountStep(c), UNCHANGED providerVars
      PROVE  GrantIsRight(g)'
  <2>1. GoesOn(c) /\ Kind[c] \in ForPods \cup ForAccounts
    BY <1>1, <1>8, PodStepIsRight, AccountStepIsRight DEF StepsAreRight, Active
  <2>2. QED
    BY <1>5, <1>8, <2>1 DEF providerVars
<1>9. ASSUME pc' = pc, UNCHANGED <<entries, found, left>>, passed \subseteq passed'
      PROVE  GrantIsRight(g)'
  BY <1>6, <1>9
<1>10. CASE crash
  BY <1>6, <1>10 DEF crash, ProviderCrash
<1>11. ASSUME NEW c \in Active, ProviderStep(c) PROVE UNCHANGED passed
  BY <1>11 DEF ProviderStep, removeExpiredEntries, visit, deleteOne, upsert, setPayload, getGrants,
               dropGrants, setGrants, setUid, findByUid, find, consume, destroy, revokeByGrantId,
               getProvider, getJwks, setJwks, getCookieKeys, setCookieKeys, createProvider
<1>12. QED
  BY <1>7, <1>8, <1>9, <1>10, <1>11
     DEF Step, readConfig, initialize, listen, callVars, expire, providerVars

\* Before the first call nothing is stored.
LEMMA RevocationStartsRight == Init => RevocationInv
<1>1. SUFFICES ASSUME Init PROVE RevocationInv
  OBVIOUS
<1>2. PICK W \in Workloads : pc = [c \in W |-> "idle"]
  BY <1>1, Zenon DEF Init
<1>3. \A c \in Workload : pc[c] = "idle"
  BY <1>2 DEF Workload
<1>4. /\ entries = Empty /\ left = [c \in Workload |-> {}] /\ found = [c \in Workload |-> {}]
      /\ stored = {} /\ revoked = [c \in Workload |-> {}]
  BY <1>1 DEF Init, ProviderInit
<1>5. StorageIsRight
  BY <1>3, <1>4 DEF StorageIsRight, CallIsRight, Empty
<1>6. \A g \in Grants : GrantIsRight(g)
  BY <1>3, <1>4 DEF GrantIsRight, CallKnows, ListIsComplete
<1>7. QED
  BY <1>5, <1>6 DEF RevocationInv

\* A step that leaves all variables alone keeps it.
LEMMA RevocationIsKept ==
  ASSUME RevocationInv, UNCHANGED vars
  PROVE  RevocationInv'
<1>1. /\ UNCHANGED <<pc, entries, passed, left, found, stored, revoked, lapsed, overlapping>>
      /\ Workload' = Workload
  BY DEF vars, history, callVars, providerVars, Workload
<1>2. StorageIsRight'
  BY <1>1 DEF RevocationInv, StorageIsRight, EntryIsRight, CallIsRight, HasLapsed, IsPayload, Is,
              keyFor, grantKeyFor
<1>3. ASSUME NEW g \in Grants, GrantIsRight(g)
      PROVE  GrantIsRight(g)'
  <2>1. Alive(g)' = Alive(g) /\ ListOf(g)' = ListOf(g)
    BY <1>1 DEF Alive, ListOf, isExpired
  <2>2. QED
    BY <1>1, <1>3, <2>1, GrantWaits
<1>4. QED
  BY <1>1, <1>2, <1>3 DEF RevocationInv

\* Once a grant is revoked, none of its payloads is left that was stored before
\* the revocation began, unless it was stored again, however calls interleave
\* and wherever the server crashes; grants with overlapping calls, and those
\* whose list has expired or whose revocation a crash has cut off, are excepted.
THEOREM RevocationIsCompleteHolds == Spec => []RevocationIsComplete
<1>1. RevocationInv /\ IInv /\ [Next]_vars => RevocationInv'
  BY RevocationStaysRight, RevocationIsKept DEF Next
<1>2. IInv /\ RevocationInv => RevocationIsComplete
  <2>1. SUFFICES ASSUME IInv, RevocationInv, NEW c \in Made, Is(c, "revoke"), pc[c] = "done",
                        Input[c].grant \notin overlapping \cup lapsed
                 PROVE  revoked[c] \cap Alive(Input[c].grant) = {}
    BY DEF RevocationIsComplete
  <2>2. c \in Workload /\ c \in Calls /\ IsOf(c, Input[c].grant)
    BY <2>1 DEF Made, IInv, StepsAreRight, IsOf, Is
  <2>3. Input[c].grant \in Grants
    BY <2>1, <2>2, GrantsAssumption DEF Grants, IsOf, Is
  <2>4. QED
    BY <2>1, <2>2, <2>3 DEF RevocationInv, GrantIsRight, CallKnows
<1>3. QED
  BY IInvHolds, RevocationStartsRight, <1>1, <1>2, PTL DEF Spec
=============================================================================
