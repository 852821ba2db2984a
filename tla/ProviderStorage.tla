---------------------------- MODULE ProviderStorage ----------------------------
(***************************************************************************)
(* What the OIDC library is given: ExpiringAdapter, its storage of         *)
(* payloads, which are revoked by the grant that they belong to, over      *)
(* WrappedExpiringStorage over JsonResourceStorage; and                    *)
(* IdentityProviderFactory, which makes the provider and keeps its keys.   *)
(*                                                                         *)
(* The value under a key is a set of names: for a payload its grant, for a *)
(* grant the keys of its payloads, for a uid the id of the payload.        *)
(***************************************************************************)
EXTENDS Interaction

\* Payloads without a grant are not revoked; and a call that consumes a payload
\* is listed with the grant that the payload has, which is of the id alone.
ASSUME GrantsAssumption ==
  /\ \A c \in Calls : Kind[c] = "revoke" => Input[c].grant # "none"
  /\ \A c, d \in Calls :
       Kind[c] = "consume" /\ Kind[d] = "upsert" /\ Input[c].id = Input[d].id
       => Input[c].grant = Input[d].grant

VARIABLES
  entries,      \* the storage: a value under each key, and when it expires
  passed,       \* the upserts of which the time of expiry has passed
  left,         \* the operations that a call has started or is to start
  found,        \* what a call has read
  jwks,         \* the keys that are stored, named after the call that made
  cookies,      \*   them
  provider,     \* the cached provider: the keys it has
  keys          \* and those of the one that a call makes or uses

providerVars == <<entries, passed, left, found, jwks, cookies, provider, keys>>

NoKeys == [jwks |-> "none", cookies |-> "none"]
Entry(value, expires) == [value |-> value, expires |-> expires]

ProviderInit ==
  /\ entries = Empty /\ passed = {}
  /\ left = [c \in Workload |-> {}] /\ found = [c \in Workload |-> {}]
  /\ jwks = "none" /\ cookies = "none" /\ provider = NoKeys
  /\ keys = [c \in Workload |-> NoKeys]

keyFor(c) == <<"payload", Input[c].id>>
grantKeyFor(c) == <<"grant", Input[c].grant>>
uidKeyFor(c) == <<"uid", Input[c].uid>>

-----------------------------------------------------------------------------
(* WrappedExpiringStorage.                                                 *)

isExpired(key) == key \in DOMAIN entries /\ entries[key].expires \in passed

\* The value, if it is not expired; an expired entry is deleted in a step of
\* its own, which deletes whatever is there by then.
Unexpired(key) ==
  IF key \in DOMAIN entries /\ ~isExpired(key) THEN entries[key].value ELSE {}

\* A value that has expired already is refused.
SetEntry(key, value, expires) ==
  entries' = IF expires \in passed THEN entries ELSE Set(entries, key, Entry(value, expires))

\* Time passes.  All that one upsert stores expires together.
expire(c) ==
  /\ Is(c, "upsert") /\ Input[c].expires /\ pc[c] # "idle" /\ c \notin passed
  /\ passed' = passed \cup {c}
  /\ UNCHANGED <<callVars, entries, left, found, jwks, cookies, provider, keys>>

\* The call goes on until nothing is left to be done.
Continue(c, todo, at) ==
  left' = [left EXCEPT ![c] = todo] /\ Go(c, IF todo = {} THEN "done" ELSE at)

\* removeExpiredEntries: the entries there are,
removeExpiredEntries(c) ==
  /\ At(c, "sweep") /\ Continue(c, DOMAIN entries, "sweeping")
  /\ UNCHANGED <<passed, entries, found, jwks, cookies, provider, keys>>

\* each read in turn, which fails if it is gone by then; the expired ones are
\* collected
visit(c) ==
  /\ pc[c] = "sweeping"
  /\ \E key \in left[c] :
       LET expired == found[c] \cup (IF isExpired(key) THEN {key} ELSE {})
           rest == left[c] \ {key}
       IN  IF key \notin DOMAIN entries THEN Go(c, "failed") /\ UNCHANGED <<passed, left, found>>
           ELSE /\ found' = [found EXCEPT ![c] = expired]
                /\ IF rest = {} THEN Continue(c, expired, "deleting")
                   ELSE Continue(c, rest, "sweeping")
  /\ UNCHANGED <<passed, entries, jwks, cookies, provider, keys>>

\* and deleted at the end, all at once.
deleteOne(c) ==
  /\ pc[c] = "deleting"
  /\ \E key \in left[c] :
       /\ entries' = Delete(entries, {key})
       /\ Continue(c, left[c] \ {key}, "deleting")
  /\ UNCHANGED <<passed, found, jwks, cookies, provider, keys>>

-----------------------------------------------------------------------------
(* ExpiringAdapter.                                                        *)

Expires(c) == IF Input[c].expires THEN c ELSE "never"

upsert(c) ==
  /\ At(c, "upsert")
  /\ Continue(c, {"payload"} \cup (IF Input[c].grant = "none" THEN {} ELSE {"getGrants"})
                   \cup (IF Input[c].uid = "none" THEN {} ELSE {"uid"}), "upserting")
  /\ UNCHANGED <<passed, entries, found, jwks, cookies, provider, keys>>

\* When a value is refused the upsert fails, and goes on with the rest.
Upserted(c, todo) ==
  /\ left' = [left EXCEPT ![c] = todo]
  /\ Go(c, IF todo # {} THEN "upserting" ELSE IF Expires(c) \in passed THEN "failed" ELSE "done")

Upserting(c, what) == pc[c] = "upserting" /\ what \in left[c]

setPayload(c) ==
  /\ Upserting(c, "payload") /\ SetEntry(keyFor(c), {Input[c].grant}, Expires(c))
  /\ Upserted(c, left[c] \ {"payload"})
  /\ UNCHANGED <<passed, found, jwks, cookies, provider, keys>>

getGrants(c) ==
  /\ Upserting(c, "getGrants")
  /\ found' = [found EXCEPT ![c] = Unexpired(grantKeyFor(c))]
  /\ Upserted(c, (left[c] \ {"getGrants"}) \cup
       {IF isExpired(grantKeyFor(c)) THEN "dropGrants" ELSE "setGrants"})
  /\ UNCHANGED <<passed, entries, jwks, cookies, provider, keys>>

dropGrants(c) ==
  /\ Upserting(c, "dropGrants") /\ entries' = Delete(entries, {grantKeyFor(c)})
  /\ Upserted(c, (left[c] \ {"dropGrants"}) \cup {"setGrants"})
  /\ UNCHANGED <<passed, found, jwks, cookies, provider, keys>>

\* setGrants, the list made anew.
setOnlyGrant(c) ==
  /\ Upserting(c, "setGrants") /\ SetEntry(grantKeyFor(c), {keyFor(c)}, Expires(c))
  /\ Upserted(c, left[c] \ {"setGrants"})
  /\ UNCHANGED <<passed, found, jwks, cookies, provider, keys>>

\* The list has the time of expiry of the last payload, whatever that of the others.
setGrants(c) ==
  /\ Upserting(c, "setGrants")
  /\ SetEntry(grantKeyFor(c), found[c] \cup {keyFor(c)}, Expires(c))
  /\ Upserted(c, left[c] \ {"setGrants"})
  /\ UNCHANGED <<passed, found, jwks, cookies, provider, keys>>

setUid(c) ==
  /\ Upserting(c, "uid") /\ SetEntry(uidKeyFor(c), {Input[c].id}, Expires(c))
  /\ Upserted(c, left[c] \ {"uid"})
  /\ UNCHANGED <<passed, found, jwks, cookies, provider, keys>>

\* findByUid, and find for the id there is.
findByUid(c) ==
  /\ At(c, "findByUid")
  /\ found' = [found EXCEPT ![c] = Unexpired(uidKeyFor(c))]
  /\ Go(c, IF found'[c] = {} THEN "none" ELSE "find")
  /\ UNCHANGED <<passed, entries, left, jwks, cookies, provider, keys>>

find(c) ==
  /\ \/ pc[c] = "find"
     \/ At(c, "consume")
  /\ LET key == IF pc[c] = "find" THEN <<"payload", CHOOSE id \in found[c] : TRUE>> ELSE keyFor(c) IN
     /\ found' = [found EXCEPT ![c] = Unexpired(key)]
     /\ left' = [left EXCEPT ![c] = IF isExpired(key) THEN {key} ELSE {}]
     /\ Go(c, IF isExpired(key) THEN "deleting" ELSE IF Unexpired(key) = {} THEN "none"
              ELSE IF Is(c, "consume") THEN "consume" ELSE "done")
  /\ UNCHANGED <<passed, entries, jwks, cookies, provider, keys>>

\* The payload is stored again, without a time of expiry.
consume(c) ==
  /\ pc[c] = "consume" /\ Go(c, "done")
  /\ SetEntry(keyFor(c), found[c], "never")
  /\ UNCHANGED <<passed, left, found, jwks, cookies, provider, keys>>

destroy(c) ==
  /\ At(c, "destroy") /\ Go(c, "done") /\ entries' = Delete(entries, {keyFor(c)})
  /\ UNCHANGED <<passed, left, found, jwks, cookies, provider, keys>>

\* The payloads and the list itself, in any order.
revokeByGrantId(c) ==
  /\ At(c, "revoke")
  /\ LET list == Unexpired(grantKeyFor(c)) IN
     Continue(c, IF list # {} \/ isExpired(grantKeyFor(c))
                 THEN list \cup {grantKeyFor(c)} ELSE {}, "deleting")
  /\ UNCHANGED <<passed, entries, found, jwks, cookies, provider, keys>>

-----------------------------------------------------------------------------
(* IdentityProviderFactory.                                                *)

UseKeys(c, field, value) == keys' = [keys EXCEPT ![c][field] = value]

\* Every request to the identity provider asks for the provider.
getProvider(c) ==
  /\ At(c, "provider")
  /\ \/ provider # NoKeys /\ keys' = [keys EXCEPT ![c] = provider] /\ Go(c, "done")
     \/ provider = NoKeys /\ Go(c, "jwks") /\ UNCHANGED keys
  /\ UNCHANGED <<passed, entries, left, found, jwks, cookies, provider>>

\* The keys that are stored, or new ones that are to be stored.
getJwks(c) ==
  /\ pc[c] = "jwks"
  /\ UseKeys(c, "jwks", IF jwks = "none" THEN c ELSE jwks)
  /\ Go(c, IF jwks = "none" THEN "setJwks" ELSE "cookies")
  /\ UNCHANGED <<passed, entries, left, found, jwks, cookies, provider>>

\* setJwks, nothing stored.
useJwks(c) ==
  /\ pc[c] = "setJwks" /\ Go(c, "cookies")
  /\ UNCHANGED providerVars

setJwks(c) ==
  /\ pc[c] = "setJwks" /\ jwks' = c /\ Go(c, "cookies")
  /\ UNCHANGED <<passed, entries, left, found, cookies, provider, keys>>

getCookieKeys(c) ==
  /\ pc[c] = "cookies"
  /\ UseKeys(c, "cookies", IF cookies = "none" THEN c ELSE cookies)
  /\ Go(c, IF cookies = "none" THEN "setCookies" ELSE "provide")
  /\ UNCHANGED <<passed, entries, left, found, jwks, cookies, provider>>

setCookieKeys(c) ==
  /\ pc[c] = "setCookies" /\ cookies' = c /\ Go(c, "provide")
  /\ UNCHANGED <<passed, entries, left, found, jwks, provider, keys>>

createProvider(c) ==
  /\ pc[c] = "provide" /\ provider' = keys[c] /\ Go(c, "done")
  /\ UNCHANGED <<passed, entries, left, found, jwks, cookies, keys>>

ProviderStep(c) ==
  \/ removeExpiredEntries(c) \/ visit(c) \/ deleteOne(c)
  \/ upsert(c) \/ setPayload(c) \/ getGrants(c) \/ dropGrants(c) \/ setGrants(c)
  \/ setUid(c) \/ findByUid(c) \/ find(c) \/ consume(c) \/ destroy(c)
  \/ revokeByGrantId(c) \/ getProvider(c) \/ getJwks(c) \/ setJwks(c)
  \/ getCookieKeys(c) \/ setCookieKeys(c) \/ createProvider(c)

ProviderCrash ==
  /\ provider' = NoKeys /\ left' = [c \in Workload |-> {}]
  /\ UNCHANGED <<passed, entries, found, jwks, cookies, keys>>
=============================================================================
