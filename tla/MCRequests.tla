------------------------------ MODULE MCRequests ------------------------------
EXTENDS Requests

MCOne == 4096
MCQValue == [zero |-> 0, half |-> 2048, one |-> 4096]
MCContainers == {"/", "/c/", "/c/s/"}
MCParent == "/c/" :> "/" @@ "/c/s/" :> "/c/" @@ "/c/s/d" :> "/c/s/" @@ "/c/d" :> "/c/"
         @@ "/e" :> "/" @@ "/n" :> "/" @@ "/c/n" :> "/c/"

Json == <<"application", "json">>
LdJson == <<"application", "ld+json">>
MCRdfWeights == Turtle :> 4096 @@ LdJson :> 2048
Octets == <<"application", "octet-stream">>

\* Lexemes.
T(text) == <<"token", text>>
M(text) == <<"mark", text>>
MediaRange(type) == <<T(type[1]), M("/"), T(type[2])>>
Weighted(type, q) == MediaRange(type) \o <<M(";"), T("q"), M("="), T(q)>>

\* The server.
Full == 4096
Half == 2048

NoConstant == [enabled |-> FALSE, type |-> Html, container |-> FALSE,
               document |-> FALSE, minQuality |-> 0]
Index == [NoConstant EXCEPT !.enabled = TRUE, !.container = TRUE, !.minQuality = Full]

Here == [host |-> "here", proto |-> "http"]
DefaultSetup ==
  [converters |-> <<RdfToQuad, QuadToRdf, ErrorToQuad, ErrorToTemplate, MarkdownToHtml>>,
   replacements |-> <<[from |-> LdJson, to |-> <<Json>>],
                      [from |-> Json, to |-> <<Octets>>]>>,
   constant |-> NoConstant, cacheSize |-> 1, baseUrl |-> Here,
   extractors |-> <<"DPoP", "Bearer", "Empty">>, agent |-> "bob"]

\* What is stored.
Entry(type) == [type |-> type, by |-> "init", list |-> {}]
List(auths) == [type |-> Turtle, by |-> "init", list |-> auths]
Auth(modes, agents, about) == [modes |-> modes, agents |-> agents, about |-> about]
Owner(path) == Auth(Modes, {"alice"}, {<<"accessTo", path>>, <<"default", path>>})
Public(modes, about) == Auth(modes, {"everyone"}, about)
Open == {Owner("/"), Public({"read", "write"}, {<<"accessTo", "/">>, <<"default", "/">>})}

Tree == Subject("/") :> Entry(Quads) @@ Acl("/") :> List(Open)
     @@ Subject("/c/") :> Entry(Quads) @@ Subject("/c/d") :> Entry(Turtle)

\* Requests.
Plain == [accept |-> <<>>, charset |-> <<>>, encoding |-> <<>>, language |-> <<>>,
          datetime |-> <<>>, slugs |-> 0, host |-> "here", secure |-> FALSE,
          forwarded |-> <<>>, xForwarded |-> [host |-> "none", proto |-> "none"]]
Login(scheme, agent) == [scheme |-> scheme, webId |-> agent, proof |-> TRUE, valid |-> TRUE]
Nobody == Login("none", Anonymous)
Alice == Login("DPoP", "alice")
Bob == Login("Bearer", "bob")
NoBody == [length |-> "none", chunked |-> FALSE, type |-> NoType, malformed |-> FALSE,
           algebra |-> <<>>, list |-> {}, deleted |-> {}]
Body(type) == [NoBody EXCEPT !.length = "some", !.type = type]
Update(algebra) == [Body(SparqlUpdate) EXCEPT !.algebra = algebra]
ListBody(auths) == [Body(Turtle) EXCEPT !.list = auths]

Request(method, target, authorization, headers, body) ==
  [method |-> method, target |-> target, decodable |-> TRUE, authorization |-> authorization,
   headers |-> headers, body |-> body]
Accept(lexemes) == [Plain EXCEPT !.accept = lexemes]
Get(path, lexemes) == Request("GET", Subject(path), Nobody, Accept(lexemes), NoBody)

Socket(lines) == [lines |-> lines, headers |-> Plain, protocols |-> {"solid-0.1"}]
Sub(path) == [type |-> "sub", resource |-> Subject(path), host |-> "here", proto |-> "http"]
Close == [Sub("/") EXCEPT !.type = "close"]

Scenario(server, tree, requests, sockets) ==
  [setup |-> server, store |-> tree, requests |-> requests, sockets |-> sockets]
NoSockets == [s \in {} |-> <<>>]
Serving(requests) == Scenario(DefaultSetup, Tree, requests, NoSockets)

By(method, path, who, body) == Request(method, Subject(path), who, Plain, body)
OfList(method, path, who, body) == Request(method, Acl(path), who, Plain, body)
With(field, value) ==
  Request("GET", Subject("/e"), Nobody, [Plain EXCEPT ![field] = value], NoBody)

\* Two ways to HTML, and one that is long.
Ways == [DefaultSetup EXCEPT !.cacheSize = 2, !.converters = <<
  Converter(Turtle :> Half, <<To(Html, Half)>>),
  Converter(<<"text", "*">> :> Full, <<To(Markdown, Full), To(Json, Half)>>),
  Converter(Only(Json), <<To(Octets, Full)>>),
  Converter(Only(Markdown), <<To(Html, Full)>>)>>]
\* Of the ways to JSON, the second is found after the first and weighs less.
Worse == [DefaultSetup EXCEPT !.converters = <<
  Converter(Turtle :> Half, <<To(Json, Full)>>),
  Converter(Turtle :> 1024, <<To(Json, 3072)>>)>>]
Serverwide == [DefaultSetup EXCEPT !.constant = Index, !.cacheSize = 0]
ReadOnly == [DefaultSetup EXCEPT !.converters = <<RdfToQuad, ErrorToQuad>>]
As(extractors) == [DefaultSetup EXCEPT !.extractors = extractors]

Mixed == Tree @@ Subject("/e") :> Entry(LdJson)
Deep == Tree @@ Subject("/c/s/") :> Entry(Quads) @@ Subject("/c/s/d") :> Entry(Turtle)
Reads(who, path, predicate) == Auth({"read"}, {who}, {<<predicate, path>>})

\* Bob reads by the list of /c/, and the owner is about to change that.
Private == [Deep EXCEPT ![Acl("/")] = List({Owner("/")})]
Shared == Private @@ Acl("/c/") :> List({Owner("/c/"), Reads("bob", "/c/", "default")})
Written == Private @@ Acl("/c/s/d") :> List({Owner("/c/s/d"),
             Auth({"append"}, {"authenticated"}, {<<"accessTo", "/c/s/d">>}),
             Reads("everyone", "/c/s/d", "accessTo")})
Unlisted == [r \in DOMAIN Deep \ {Acl("/")} |-> Deep[r]]

Hears(lines) == [s1 |-> Socket(lines)]
Other == Login("Bearer", "carol")

MCScenarios == {
  Serving([c1 |-> Get("/c/d", MediaRange(LdJson)), c2 |-> Get("/c/", MediaRange(Turtle)),
                     c3 |-> Get("/c/d", Weighted(LdJson, "half") \o <<M(",")>> \o Weighted(All, "zero"))]),
  Serving([c1 |-> Get("/c/d", MediaRange(Html)), c2 |-> Get("/n", MediaRange(Turtle)),
                      c3 |-> Get("/n", <<>>)]),
  Scenario(DefaultSetup, Mixed,
     [c1 |-> Get("/e", MediaRange(Octets)), c2 |-> Get("/e", MediaRange(Quads)),
      c3 |-> Request("HEAD", Subject("/e"), Nobody, Accept(MediaRange(<<"application", "*">>)), NoBody)], NoSockets),
  Scenario(Ways, Tree,
     [c1 |-> Get("/c/d", MediaRange(Html)),
      c2 |-> Get("/c/d", Weighted(Octets, "half") \o <<M(",")>> \o Weighted(Html, "half")),
      c3 |-> Get("/c/d", MediaRange(Json))], NoSockets),
  Scenario(Serverwide, Tree,
     [c1 |-> Get("/c/", MediaRange(Html)), c2 |-> Get("/c/", Weighted(Html, "half")),
      c3 |-> Get("/c/d", MediaRange(Html))], NoSockets),
  Serving([c1 |-> With("accept", <<T("text"), M("/")>>),
     c2 |-> With("accept", MediaRange(Turtle) \o <<M(";"), T("q"), M("="), T("2")>>),
     c3 |-> With("accept", Weighted(Turtle, "half") \o <<M(";"), T("x"), M(",")>> \o MediaRange(Html))]),
  Serving([c1 |-> With("charset", <<T("utf"), M(";"), T("q"), M("="), T("half")>>),
     c2 |-> With("language", <<T("xx1")>>),
     c3 |-> With("accept", MediaRange(Turtle) \o <<M(";"), T("x"), M("="), <<"string", "y">>>>)]),
  Serving([c1 |-> With("encoding", <<T("gzip"), M("="), T("x"), M("/")>>),
     c2 |-> With("language", <<T("en"), M(","), T("*"), M(";"), T("q"), M("="), T("one")>>),
     c3 |-> With("datetime", <<T("now")>>)]),
  Serving([c1 |-> With("forwarded", <<<<"for", "x">>, <<"host", "there">>>>),
     c2 |-> With("xForwarded", [host |-> "here", proto |-> "https"]),
     c3 |-> With("host", "none")]),
  Serving([c1 |-> With("slugs", 2), c2 |-> With("host", "malformed"),
     c3 |-> With("accept", <<<<"bad", "?">>>>), c4 |-> By("DELETE", "/e", Alice, NoBody)]),
  Serving([c1 |-> With("host", "invalid"), c2 |-> With("xForwarded", [host |-> "here", proto |-> "invalid"]),
     c3 |-> [With("accept", MediaRange(Html)) EXCEPT !.decodable = FALSE]]),
  Serving([c1 |-> By("PUT", "/e", Alice, NoBody),
     c2 |-> By("POST", "/", Alice, [NoBody EXCEPT !.length = "0"]),
     c3 |-> By("PATCH", "/e", Alice, [Body(NoType) EXCEPT !.chunked = TRUE])]),
  Serving([c1 |-> By("PATCH", "/e", Alice, [Update(<<>>) EXCEPT !.malformed = TRUE]),
     c2 |-> By("PATCH", "/e", Alice, Body(Turtle)), c3 |-> By("PUT", "/c/s/", Alice, Body(Json))]),
  Scenario(DefaultSetup, Written,
     [c1 |-> By("GET", "/c/d", Nobody, NoBody),
      c2 |-> By("GET", "/c/s/d", [Bob EXCEPT !.valid = FALSE], NoBody),
      c3 |-> By("DELETE", "/c/s/d", Other, NoBody)], NoSockets),
  Scenario(DefaultSetup, Written,
     [c1 |-> By("GET", "/c/s/d", [Alice EXCEPT !.proof = FALSE], NoBody),
      c2 |-> By("GET", "/c/s/d", Login("Basic", "alice"), NoBody),
      c3 |-> By("PATCH", "/c/s/d", Other, Update(<<"insert">>))], NoSockets),
  Scenario(As(<<"WebID", "constant">>), Written,
     [c1 |-> By("GET", "/c/s/d", Login("WebID", "alice"), NoBody),
      c2 |-> By("POST", "/c/s/d", Nobody, Body(Turtle)),
      c3 |-> OfList("DELETE", "/c/s/d", Login("WebID", "alice"), NoBody)], NoSockets),
  Scenario(DefaultSetup, Unlisted,
     [c1 |-> By("GET", "/c/d", Alice, NoBody), c2 |-> By("OPTIONS", "/c/d", Alice, NoBody),
      c3 |-> OfList("GET", "/e", Nobody, NoBody),
      c4 |-> By("PATCH", "/c/d", Alice, Update(<<"nop">>))], NoSockets),
  Scenario(DefaultSetup, Shared,
     [c1 |-> By("GET", "/c/s/d", Bob, NoBody), c2 |-> OfList("DELETE", "/c/", Alice, NoBody),
      c3 |-> OfList("PUT", "/c/s/", Alice, ListBody({Reads("bob", "/c/s/", "default")}))], NoSockets),
  Scenario(DefaultSetup, Shared,
     [c1 |-> By("GET", "/c/s/d", Bob, NoBody),
      c2 |-> OfList("PUT", "/c/s/d", Alice, ListBody({Owner("/c/s/d")})),
      c3 |-> OfList("PUT", "/", Alice, ListBody(Open))], NoSockets),
  Scenario(DefaultSetup, Shared,
     [c1 |-> By("DELETE", "/c/s/d", Alice, NoBody),
      c2 |-> OfList("PATCH", "/c/", Alice, [Update(<<"deleteInsert">>) EXCEPT
               !.deleted = {Owner("/c/")}, !.list = {Reads("alice", "/c/", "default")}])], NoSockets),
  Scenario(DefaultSetup, Tree,
     [c1 |-> By("PUT", "/c/s/d", Alice, Body(Turtle)), c2 |-> By("DELETE", "/c/", Alice, NoBody)],
     Hears(<<Sub("/c/"), Sub("/c/s/d")>>)),
  Scenario(DefaultSetup, Tree,
     [c1 |-> OfList("PUT", "/c/s/d", Alice, ListBody({Owner("/c/s/d")})),
      c2 |-> By("DELETE", "/c/s/", Alice, NoBody)],
     Hears(<<[Sub("/") EXCEPT !.resource = Acl("/c/s/d")]>>)),
  Scenario(DefaultSetup, Tree,
     [c1 |-> By("POST", "/c/", Alice, Body(Json)), c2 |-> By("POST", "/c/", Alice, Body(Turtle)),
      c3 |-> By("POST", "/c/s/", Alice, Body(Turtle))], Hears(<<Sub("/c/"), Sub("/c/n")>>)),
  Scenario(DefaultSetup, Tree,
     [c1 |-> By("POST", "/c/d", Alice, Body(Json)), c2 |-> By("PUT", "/c/s/", Alice, Body(Turtle)),
      c3 |-> OfList("PUT", "/c/s/d", Alice, Body(Json))],
     [s1 |-> Socket(<<Sub("/c/"), Close>>), s2 |-> Socket(<<Sub("/c/s/")>>)]),
  Scenario(DefaultSetup, Written,
     [c1 |-> By("DELETE", "/c/s/d", Alice, NoBody), c2 |-> By("DELETE", "/", Alice, NoBody),
      c3 |-> OfList("DELETE", "/", Alice, NoBody)],
     Hears(<<[Sub("/") EXCEPT !.resource = Acl("/c/s/d")], Sub("/c/s/d")>>)),
  Scenario(DefaultSetup, Tree,
     [c1 |-> By("PUT", "/c/d", Alice, Body(Turtle))],
     [s1 |-> [Socket(<<Sub("/c/d")>>) EXCEPT !.protocols = {"other"}],
      s2 |-> [Socket(<<[Sub("/c/d") EXCEPT !.type = "unsub"], Sub("/c/d"),
                       [Sub("/e") EXCEPT !.host = "there"]>>) EXCEPT !.protocols = {}],
      s3 |-> [Socket(<<[Sub("/c/d") EXCEPT !.proto = "https"]>>) EXCEPT
                !.headers.xForwarded = [host |-> "none", proto |-> "https"], !.headers.host = "here"]]),
  Scenario(DefaultSetup, Mixed,
     [c1 |-> By("PATCH", "/e", Alice, Update(<<"insert", "delete">>)),
      c2 |-> By("DELETE", "/e", Alice, NoBody), c3 |-> By("PATCH", "/e", Nobody, Update(<<"nop">>))],
     Hears(<<Sub("/e")>>)),
  Scenario(DefaultSetup, Tree,
     [c1 |-> By("PATCH", "/e", Alice, Update(<<"insert">>)),
      c2 |-> By("PATCH", "/c/", Alice, Update(<<"insert">>)),
      c3 |-> By("PATCH", "/e", Alice, Update(<<"insert", "nop">>))], NoSockets),
  Scenario(DefaultSetup, Tree @@ Subject("/e") :> Entry(Json),
     [c1 |-> By("PATCH", "/e", Alice, Update(<<"delete">>)),
      c2 |-> By("PATCH", "/c/d", Alice, Update(<<"insertGraph">>)),
      c3 |-> By("PATCH", "/c/d", Alice, Update(<<"load">>))], NoSockets),
  Scenario(ReadOnly, Tree,
     [c1 |-> By("PATCH", "/c/d", Alice, Update(<<"delete">>)),
      c2 |-> By("PATCH", "/c/", Alice, Update(<<"insert">>))], NoSockets)}

\* For the run that looks at one search only.
MCWorse == {Scenario(Worse, Tree,
     [c1 |-> Get("/c/d", MediaRange(Json)), c2 |-> Get("/c/d", MediaRange(Octets)),
      c3 |-> Get("/c/", MediaRange(Json))], NoSockets)}
=============================================================================
