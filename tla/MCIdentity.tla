------------------------------- MODULE MCIdentity -------------------------------
EXTENDS Identity, TLC

MCPodIds == {"p", "q"}
MCPodOf == "p p" :> "p" @@ "p-p" :> "p" @@ "q" :> "q"
MCWebIdOf == "p" :> "p/me" @@ "q" :> "q/me"
MCWebIds == {"p/me", "q/me", "mine"}
MCWithin == "p/card" :> {"p"} @@ "q/card" :> {"q"} @@ "card" :> {}

\* A folder with metadata, and a document with metadata in one inside of it.
File(r) == [resource |-> r, meta |-> FALSE]
Meta(r) == [resource |-> r, meta |-> TRUE]
MCTemplate == "/" :> {Meta("/"), File("profile/")}
           @@ "profile/" :> {File("card"), Meta("card")}

MCStored == {Empty, "q" :> [baseUrl |-> "q", templateConfig |-> "good"]}

\* A registration: address, new WebID or one's own, whether to register and to
\* make a pod, the name of the pod, and the password twice.
Register(email, webId, register, podName, password, confirm) ==
  [email |-> email, webId |-> webId, createWebId |-> webId = "none",
   register |-> register, createPod |-> podName # "none", podName |-> podName,
   password |-> password, confirm |-> confirm]

With(email, password) == [email |-> email, password |-> password]
Reset(link, password) ==
  [link |-> link, password |-> password, confirm |-> password]
Pod(name, template) == [podName |-> name, template |-> template]
Adapter(id, grant, uid, expires) ==
  [id |-> id, grant |-> grant, uid |-> uid, expires |-> expires]

MCKind == [
  new |-> "register", sameEmail |-> "register", samePod |-> "register",
  own1 |-> "register", own2 |-> "register", own3 |-> "register",
  typo |-> "register", login |-> "login", noLogin |-> "login",
  forgot |-> "forgot", reset |-> "reset", resetAgain |-> "reset",
  dynamic |-> "dynamicPod", dynamic2 |-> "dynamicPod", unsafe |-> "dynamicPod",
  route |-> "route", code |-> "upsert", access |-> "upsert", refresh |-> "upsert",
  session |-> "upsert", byUid |-> "findByUid", consume |-> "consume",
  destroy |-> "destroy", revoke |-> "revoke", revokeAgain |-> "revoke",
  sweep |-> "sweep",
  first |-> "provider", second |-> "provider", third |-> "provider"]

MCInput == [
  new        |-> Register("a", "none", TRUE, "p p", "1", "1"),
  sameEmail  |-> Register("a", "none", TRUE, "q", "2", "2"),
  samePod    |-> Register("b", "none", TRUE, "p-p", "2", "2"),
  own1       |-> Register("a", "mine", TRUE, "none", "1", "1"),
  own2       |-> Register("b", "mine", TRUE, "none", "2", "2"),
  own3       |-> Register("b", "mine", FALSE, "q", "none", "none"),
  typo       |-> Register("a", "mine", TRUE, "none", "1", "2"),
  login      |-> With("a", "1"),
  noLogin    |-> With("none", "1"),
  forgot     |-> With("a", "none"),
  reset      |-> Reset("forgot", "3"),
  resetAgain |-> Reset("forgot", "4"),
  dynamic    |-> Pod("p p", "good"),
  dynamic2   |-> Pod("p-p", "good"),
  unsafe     |-> Pod("q", "unsafe"),
  route      |-> [resource |-> "p/card"],
  code       |-> Adapter("code", "g", "u", TRUE),
  access     |-> Adapter("access", "g", "none", TRUE),
  refresh    |-> Adapter("refresh", "g", "none", FALSE),
  session    |-> Adapter("session", "none", "none", TRUE),
  byUid      |-> Adapter("none", "none", "u", FALSE),
  consume    |-> Adapter("code", "g", "none", FALSE),
  destroy    |-> Adapter("session", "none", "none", FALSE),
  revoke     |-> Adapter("none", "g", "none", FALSE),
  revokeAgain|-> Adapter("none", "g", "none", FALSE),
  sweep      |-> <<>>,
  first      |-> <<>>,
  second     |-> <<>>,
  third      |-> <<>>]

MCCalls == DOMAIN MCInput

MCWorkloads ==
  {{"new", "sameEmail", "login"}, {"new", "samePod", "login"}, {"new", "typo", "noLogin"},
   {"new", "forgot", "reset", "resetAgain"}, {"own1", "own2", "own3"},
   {"dynamic", "dynamic2", "route"}, {"dynamic", "unsafe", "new"},
   {"code", "refresh", "revoke", "byUid"}, {"code", "consume", "revoke"},
   {"access", "refresh", "sweep", "revoke"}, {"access", "revoke", "revokeAgain"},
   {"session", "code", "sweep", "destroy"}, {"first", "second", "third"}}
=============================================================================
