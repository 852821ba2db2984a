------------------------- MODULE MCFileDataAccessor -------------------------
EXTENDS FileDataAccessor, TLC

\* A container a, which may be a document instead, with a document a/x.
MCNames == {"/", "a", "a/x"}
MCParent == "a" :> "/" @@ "a/x" :> "a"

\* a/x has no extension of its own, so that Turtle is stored as a/x$.ttl.
MCTypes == {"octet-stream", "turtle", "unknown"}
MCNameType == [n \in MCNames |-> "octet-stream"]
MCExtension == "octet-stream" :> "bin" @@ "turtle" :> "ttl"

\* An identifier that ends in a dollar sign and an extension, and that of the
\* metadata file of a/x.
MCRefused == "a/x$.ttl" :> "refused"
MCMetaPath == "a/x.meta" :> <<"a/x", "meta">>

\* "post" has the lock of the container it adds to; "parents" is a step of a
\* PUT to a/x/y, which makes the containers above it.
MCRequests ==
  "put"      :> <<"write", "a/x", "turtle", TRUE, "a/x">> @@
  "post"     :> <<"write", "a/x", "octet-stream", FALSE, "a/">> @@
  "putOther" :> <<"write", "a/x", "unknown", TRUE, "a/x">> @@
  "putTwin"  :> <<"write", "a", "octet-stream", TRUE, "a">> @@
  "delete"   :> <<"delete", "a/x", "turtle", FALSE, "a/x">> @@
  "get"      :> <<"get", "a/x", "turtle", FALSE, "a/x">> @@
  "parents"  :> <<"mkdir", "a/x", "turtle", FALSE, "a/x/y">> @@
  "mkdir"    :> <<"mkdir", "a", "turtle", TRUE, "a/">> @@
  "rmdir"    :> <<"rmdir", "a", "turtle", FALSE, "a/">> @@
  "list"     :> <<"list", "a", "turtle", FALSE, "a/">> @@
  "rmdirx"   :> <<"rmdir", "a/x", "turtle", FALSE, "a/x/">> @@
  "putDollar" :> <<"write", "a/x$.ttl", "turtle", FALSE, "a/x$.ttl">> @@
  "putMeta"    :> <<"write", "a/x.meta", "turtle", FALSE, "a/x.meta">> @@
  "getMeta"    :> <<"get", "a/x.meta", "turtle", FALSE, "a/x.meta">> @@
  "deleteMeta" :> <<"delete", "a/x.meta", "turtle", FALSE, "a/x.meta">> @@
  "mkdirMeta"  :> <<"mkdir", "a/x.meta", "turtle", FALSE, "a/x.meta/">>

MCCalls == DOMAIN MCRequests
MCKind == [c \in MCCalls |-> MCRequests[c][1]]
MCTarget == [c \in MCCalls |-> MCRequests[c][2]]
MCType == [c \in MCCalls |-> MCRequests[c][3]]
MCHasMetadata == [c \in MCCalls |-> MCRequests[c][4]]
MCLock == [c \in MCCalls |-> MCRequests[c][5]]

InitialFile == [by |-> {"initial"}, dir |-> FALSE, whole |-> TRUE]

MCInitial ==
  LET root == <<"/", "plain">> :> Directory
  IN  {root, root @@ <<"a", "plain">> :> Directory,
       root @@ <<"a", "plain">> :> Directory @@ <<"a/x", "ttl">> :> InitialFile
            @@ <<"a/x", "meta">> :> InitialFile}
=============================================================================
