------------------------------- MODULE Accounts -------------------------------
(***************************************************************************)
(* RegistrationHandler, the login and password handlers, BaseAccountStore  *)
(* and TokenOwnershipValidator, over a key-value storage.  The store has   *)
(* no lock around reading an account and storing it again.                 *)
(***************************************************************************)
EXTENDS Pods

CONSTANTS
  WebIdOf        \* the WebID made for each pod

VARIABLES
  accounts,      \* the account of each e-mail address
  records,       \* forgotten passwords: the address that a link is for
  mailed,        \* the links that were mailed
  tokens,        \* the ownership token of each WebID
  documents,     \* the tokens that are in the document of each WebID
  account,       \* what a call has read: an account,
  token,         \* a token,
  address        \* and the address of a reset link

accountVars == <<accounts, records, mailed, tokens, documents, account, token, address>>

NoAccount == [webId |-> "none", password |-> "none", verified |-> FALSE]
NoToken == [by |-> "none", expired |-> FALSE]

AccountInit(webIds) ==
  /\ accounts = Empty /\ records = Empty /\ mailed = {} /\ tokens = Empty
  /\ documents = [w \in webIds |-> {}]
  /\ account = [c \in Workload |-> NoAccount]
  /\ token = [c \in Workload |-> NoToken]
  /\ address = [c \in Workload |-> "none"]

-----------------------------------------------------------------------------
(* The forms.                                                              *)

\* assertPassword.
GoodPassword(i) == i.password # "none" /\ i.confirm = i.password

validateInput(i) ==
  /\ i.email # "none"
  /\ i.createWebId <=> i.webId = "none"
  /\ IF i.register THEN GoodPassword(i) ELSE i.password = "none"
  /\ (i.createWebId \/ i.createPod) <=> i.podName # "none"
  /\ i.createWebId => i.register /\ i.createPod
  /\ i.createWebId \/ i.register \/ i.createPod

AfterOwnership(c) == IF Input[c].register THEN "create" ELSE "createPod"

parseInput(c) ==
  /\ At(c, "register")
  /\ Go(c, IF ~validateInput(Input[c]) THEN "failed"
           ELSE IF Input[c].createWebId THEN AfterOwnership(c) ELSE "owner")
  /\ UNCHANGED accountVars

webIdFor(c) == IF Input[c].createWebId THEN WebIdOf[PodFor(c)] ELSE Input[c].webId

-----------------------------------------------------------------------------
(* TokenOwnershipValidator.  A token is named after the call it is for.    *)

getToken(c) ==
  /\ pc[c] = "owner"
  /\ LET t == Get(tokens, Input[c].webId, NoToken) IN
     /\ token' = [token EXCEPT ![c] = t]
     /\ Go(c, IF t.expired THEN "expired" ELSE IF t = NoToken THEN "setToken" ELSE "fetch")
  /\ UNCHANGED <<accounts, records, mailed, tokens, documents, account, address>>

\* WrappedExpiringStorage deletes what is there by now under the key.
deleteExpired(c) ==
  /\ pc[c] = "expired" /\ Go(c, "setToken")
  /\ tokens' = Delete(tokens, {Input[c].webId})
  /\ UNCHANGED <<accounts, records, mailed, documents, account, token, address>>

\* The error tells which token has to be added to the WebID.
setToken(c) ==
  /\ pc[c] = "setToken" /\ Go(c, "told")
  /\ token' = [token EXCEPT ![c] = [by |-> c, expired |-> FALSE]]
  /\ tokens' = Set(tokens, Input[c].webId, token'[c])
  /\ UNCHANGED <<accounts, records, mailed, documents, account, address>>

\* The document may also not be there at all.
fetchDataset(c) ==
  /\ pc[c] = "fetch"
  /\ \/ Go(c, IF token[c].by \in documents[Input[c].webId] THEN "deleteToken" ELSE "told")
     \/ Go(c, "failed")
  /\ UNCHANGED accountVars

deleteToken(c) ==
  /\ pc[c] = "deleteToken" /\ Go(c, AfterOwnership(c))
  /\ tokens' = Delete(tokens, {Input[c].webId})
  /\ UNCHANGED <<accounts, records, mailed, documents, account, token, address>>

\* The owner adds a token; time passes.
publish(c) ==
  /\ pc[c] = "told" /\ token[c].by \notin documents[Input[c].webId]
  /\ documents' = [documents EXCEPT ![Input[c].webId] = @ \cup {token[c].by}]
  /\ UNCHANGED <<accounts, records, mailed, tokens, account, token, address>>

expireToken(w) ==
  /\ w \in DOMAIN tokens /\ ~tokens[w].expired
  /\ tokens' = [tokens EXCEPT ![w].expired = TRUE]
  /\ UNCHANGED <<accounts, records, mailed, documents, account, token, address>>

-----------------------------------------------------------------------------
(* BaseAccountStore, as the registration uses it.                          *)

\* The account as a call reads it, an error if it does or does not exist.
Reads(c, wanted, to) ==
  /\ account' = [account EXCEPT ![c] = Get(accounts, address'[c], NoAccount)]
  /\ Go(c, IF (address'[c] \in DOMAIN accounts) = wanted THEN to ELSE "failed")
  /\ UNCHANGED <<accounts, records, mailed, tokens, documents, token>>

ForEmail(c) == address' = [address EXCEPT ![c] = Input[c].email]

Stores(c, a, to) ==
  /\ accounts' = Set(accounts, address[c], a) /\ Go(c, to)
  /\ UNCHANGED <<records, mailed, tokens, documents, account, token, address>>

create(c) == pc[c] = "create" /\ ForEmail(c) /\ Reads(c, FALSE, "hash")

NewAccount(c) ==
  [webId |-> webIdFor(c), password |-> Input[c].password, verified |-> FALSE]

\* created, already verified.
createdVerified(c) ==
  /\ pc[c] = "hash"
  /\ Stores(c, [NewAccount(c) EXCEPT !.verified = TRUE],
            IF Input[c].createPod THEN "createPod" ELSE "verify")

\* The password has been hashed.
created(c) ==
  /\ pc[c] = "hash"
  /\ Stores(c, NewAccount(c), IF Input[c].createPod THEN "createPod" ELSE "verify")

\* Without a pod the account is not to be kept.
deleteAccount(c) ==
  /\ pc[c] = "podFailed" /\ Is(c, "register") /\ Go(c, "failed")
  /\ accounts' = IF Input[c].register THEN Delete(accounts, {Input[c].email}) ELSE accounts
  /\ UNCHANGED <<records, mailed, tokens, documents, account, token, address>>

podAdded(c) ==
  /\ pc[c] = "added" /\ Is(c, "register")
  /\ Go(c, IF Input[c].register THEN "verify" ELSE "done")
  /\ UNCHANGED accountVars

verify(c) == pc[c] = "verify" /\ ForEmail(c) /\ Reads(c, TRUE, "verified")

verified(c) ==
  pc[c] = "verified" /\ Stores(c, [account[c] EXCEPT !.verified = TRUE], "done")

-----------------------------------------------------------------------------
(* LoginHandler, ForgotPasswordHandler, ResetPasswordHandler.              *)

login(c) ==
  /\ At(c, "login") /\ ForEmail(c)
  /\ IF Input[c].email # "none" /\ Input[c].password # "none"
     THEN Reads(c, TRUE, "compare")
     ELSE Go(c, "failed") /\ UNCHANGED <<accounts, records, mailed, tokens, documents, account, token>>

\* Of the account that was read; then the interaction is completed.
compare(c) ==
  /\ pc[c] = "compare"
  /\ Go(c, IF account[c].verified /\ account[c].password = Input[c].password
           THEN "done" ELSE "failed")
  /\ UNCHANGED accountVars

\* An address without an account is no error.
forgot(c) ==
  /\ At(c, "forgot") /\ ForEmail(c)
  /\ Go(c, IF Input[c].email = "none" THEN "failed"
           ELSE IF Input[c].email \in DOMAIN accounts THEN "record" ELSE "done")
  /\ UNCHANGED <<accounts, records, mailed, tokens, documents, account, token>>

generateForgotPasswordRecord(c) ==
  /\ pc[c] = "record" /\ Go(c, "mail")
  /\ records' = Set(records, c, Input[c].email)
  /\ UNCHANGED <<accounts, mailed, tokens, documents, account, token, address>>

sendResetMail(c) ==
  /\ pc[c] = "mail"
  /\ \/ mailed' = mailed \cup {c} /\ Go(c, "done")
     \/ Go(c, "failed") /\ UNCHANGED mailed
  /\ UNCHANGED <<accounts, records, tokens, documents, account, token, address>>

\* Links are only known from the mail.
reset(c) ==
  /\ At(c, "reset") /\ Input[c].link \in mailed
  /\ address' = [address EXCEPT ![c] = Get(records, Input[c].link, "none")]
  /\ Go(c, IF GoodPassword(Input[c]) /\ address'[c] # "none" THEN "deleteRecord" ELSE "failed")
  /\ UNCHANGED <<accounts, records, mailed, tokens, documents, account, token>>

\* deleteForgotPasswordRecord, the record left there.
keepRecord(c) ==
  /\ pc[c] = "deleteRecord" /\ Go(c, "changePassword")
  /\ UNCHANGED accountVars

deleteForgotPasswordRecord(c) ==
  /\ pc[c] = "deleteRecord" /\ Go(c, "changePassword")
  /\ records' = Delete(records, {Input[c].link})
  /\ UNCHANGED <<accounts, mailed, tokens, documents, account, token, address>>

changePassword(c) ==
  pc[c] = "changePassword" /\ UNCHANGED address /\ Reads(c, TRUE, "setPassword")

changedPassword(c) ==
  pc[c] = "setPassword" /\ Stores(c, [account[c] EXCEPT !.password = Input[c].password], "done")

AccountStep(c) ==
  \/ parseInput(c) \/ getToken(c) \/ deleteExpired(c) \/ setToken(c) \/ fetchDataset(c)
  \/ deleteToken(c) \/ create(c) \/ created(c) \/ deleteAccount(c) \/ podAdded(c)
  \/ verify(c) \/ verified(c) \/ login(c) \/ compare(c) \/ forgot(c)
  \/ generateForgotPasswordRecord(c) \/ sendResetMail(c) \/ reset(c)
  \/ deleteForgotPasswordRecord(c) \/ changePassword(c) \/ changedPassword(c)
=============================================================================
