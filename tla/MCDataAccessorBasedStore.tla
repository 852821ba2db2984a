---------------------- MODULE MCDataAccessorBasedStore ----------------------
EXTENDS DataAccessorBasedStore, Sequences, TLC

\* A container /a/ with room for a document or a container b, which may be
\* documents instead, and access control resources.
MCContainers == {"/", "/a/", "/a/b/", "/a/u/"}

MCParent == "/a"       :> "/"   @@ "/a/"    :> "/"     @@ "/.acl"  :> "/" @@
            "/a/b"   :> "/a/"   @@ "/a/b/"   :> "/a/" @@
            "/a/u"     :> "/a/" @@ "/a/u/"  :> "/a/"   @@ "/a/.acl" :> "/a/" @@
            "/a/b/x"   :> "/a/b/" @@ "/a/b.acl" :> "/a/"

MCIdentifiers == {"/"} \cup DOMAIN MCParent

MCAncestors ==
  [i \in MCIdentifiers |->
     CASE i = "/" -> {}
       [] i = "/a/b/x" -> {"/", "/a/", "/a/b/"}
       [] i \in DOMAIN MCParent \ {"/a/b/x"} -> {"/", MCParent[i]}]

MCTwin == "/a"   :> "/a/"   @@ "/a/"   :> "/a" @@
          "/a/b" :> "/a/b/" @@ "/a/b/" :> "/a/b" @@
          "/a/u" :> "/a/u/" @@ "/a/u/" :> "/a/u"

MCAuxiliaries == {"/.acl", "/a/.acl", "/a/b.acl"}

MCAssociated == "/.acl" :> "/" @@ "/a/.acl" :> "/a/" @@ "/a/b.acl" :> "/a/b"

Request(kind, target) ==
  [id |-> kind \o " " \o target, kind |-> kind, target |-> target,
   slug |-> target, uuid |-> target]

Post(slug) ==
  [id |-> "post " \o slug, kind |-> "post", target |-> "/a/",
   slug |-> slug, uuid |-> "/a/u"]

\* Any three of these are made, in any order or at the same time.
MCCalls ==
  {Request("put", "/a/b/x"), Request("put", "/a/b"), Request("put", "/a"),
   Request("put", "/a/.acl"), Post("/a/b"), Request("get", "/a/b"),
   Request("delete", "/a/"), Request("delete", "/a/.acl"),
   Request("put", "/a/"), Request("delete", "/.acl"),
   Request("delete", "/")}

MCInitial == {{"/", "/.acl"}, {"/", "/.acl", "/a/", "/a/.acl", "/a/b.acl"}}
=============================================================================
