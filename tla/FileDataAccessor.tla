--------------------------- MODULE FileDataAccessor ---------------------------
(***************************************************************************)
(* FileDataAccessor with an ExtensionBasedMapper: documents are files,     *)
(* containers are directories, metadata is a file of its own.  A step is   *)
(* one operation of the file system.  Between two of them other requests   *)
(* may use the same files, the server may crash, and every write may fail. *)
(*                                                                         *)
(* A name is an identifier without its trailing slash; a path is a name    *)
(* and a form: "plain" for name itself (a file or a directory), "meta" for *)
(* name.meta, "dirMeta" for name/.meta, or an extension e for name$.e.     *)
(***************************************************************************)
EXTENDS Naturals, FiniteSets

CONSTANTS
  Names,
  Root,          \* the name of the storage root, whose directory exists
  Parent,        \* the name of the container of every other name
  Types,         \* the content types of the documents
  NameType,      \* the content type that the extension of a name stands for
  Extension,     \* the extension of a content type, for those that have one
  Refused,       \* targets that are not mapped to a file, and the answer
  MetaPath,      \* the identifiers that end in .meta, and the metadata file each is
  Calls,         \* requests, each with
  Kind,          \*   the method of the accessor that it calls,
  Target,        \*   the name of the resource,
  Type,          \*   the content type that is written,
  HasMetadata,   \*   whether there is metadata to be stored, and
  Lock,          \*   the lock that the store has
  MaxCalls,      \* bound: how many of them are made
  MaxCrashes,    \* bound: how often the server crashes
  Initial        \* the file systems that there may be at the start

Kinds == {"write", "mkdir", "delete", "rmdir", "get", "list"}

Reading(c) == Kind[c] \in {"get", "list"}

Extensions == {Extension[t] : t \in DOMAIN Extension}

ASSUME NamesAssumption ==
  /\ Root \in Names /\ Parent \in [Names \ {Root} -> Names]
  /\ NameType \in [Names -> Types] /\ DOMAIN Extension \subseteq Types
  /\ Extensions \cap {"plain", "meta", "dirMeta"} = {}

\* The containers above the resource with a name, and the name itself.
Above[n \in Names] == IF n = Root THEN {} ELSE {n} \cup Above[Parent[n]]

\* The names form a tree, so that Above is defined.
ASSUME TreeAssumption ==
  /\ Above \in [Names -> SUBSET (Names \ {Root})] /\ Above[Root] = {}
  /\ \A n \in Names \ {Root} : /\ Above[n] = {n} \cup Above[Parent[n]]
                               /\ n \notin Above[Parent[n]]
                               /\ \A m \in Above[n] : Above[m] \subseteq Above[n]

\* Targets that are no names of resources.
Unnamed == (DOMAIN Refused) \cup (DOMAIN MetaPath)

\* The root is a container, its metadata is in it.  The identifiers that are
\* refused, and those of metadata files, have no name.
ASSUME CallsAssumption ==
  /\ IsFiniteSet(Calls) /\ MaxCalls \in Nat /\ MaxCrashes \in Nat
  /\ Kind \in [Calls -> Kinds] /\ Type \in [Calls -> Types] /\ "initial" \notin Calls
  /\ Target \in [Calls -> Names \cup Unnamed]
  /\ \A c \in Calls : Kind[c] \in {"write", "delete", "get"} => Target[c] # Root
  /\ Refused \in [DOMAIN Refused -> {"notFound", "refused"}] /\ Names \cap Unnamed = {}
  /\ MetaPath \in [DOMAIN MetaPath -> (Names \X {"meta", "dirMeta"}) \ {<<Root, "meta">>}]
  /\ DOMAIN MetaPath \cap DOMAIN Refused = {}
  /\ \A c \in Calls : Kind[c] = "list" => Target[c] \notin DOMAIN MetaPath
  /\ HasMetadata \in [Calls -> BOOLEAN] /\ Calls \subseteq DOMAIN Lock

VARIABLES
  fs,          \* what is at the paths that are in use
  pc,          \* the next operation of a call, or its outcome
  link,        \* the path of the document that a call is about
  old,         \* verifyExistingExtension: the path in use so far
  entries,     \* getChildMetadata: the directory entries still to be looked at
  children,    \* and the identifiers found so far
  seen,        \* what a reader has got as metadata and as data
  crashes,
  acked,       \* history: who wrote the documents that nobody touched since
  overlapped,  \* history: names that two calls changed at the same time
  torn,        \* history: names of which a change was cut off, and at which step
  stripped,    \* history: names whose metadata file was changed as a resource itself
  always,      \* history: what was in the container all the time of a listing
  ever         \* history: and what was at some time of it

history == <<acked, overlapped, torn, stripped, always, ever>>
files == <<fs, link, old, entries, children, seen>>
vars == <<files, pc, crashes, history>>

Outcomes == {"done", "notFound", "refused", "failed", "crashed"}

Pcs == {"idle", "start", "unlinkOld", "writeMetadata", "metadata", "openData",
        "data", "cleanUp", "stat", "unlinkMetadata", "unlinkOnly", "remove",
        "readMetadata", "readData", "readdir", "lstat", "found"} \cup Outcomes

Paths == Names \X ({"plain", "meta", "dirMeta"} \cup Extensions)

Running(c) == pc[c] \notin {"idle"} \cup Outcomes

Go(c, to) == pc' = [pc EXCEPT ![c] = to]

-----------------------------------------------------------------------------
(* The file system.                                                        *)

Nothing == [by |-> {}, dir |-> FALSE, whole |-> TRUE]
Directory == [by |-> {}, dir |-> TRUE, whole |-> TRUE]

Used(p) == p \in DOMAIN fs
IsDirectory(n) == n = Root \/ (Used(<<n, "plain">>) /\ fs[<<n, "plain">>].dir)
IsFile(p) == Used(p) /\ ~fs[p].dir

\* The directory that a path is in.
Folder(p) == IF p[2] = "dirMeta" THEN p[1] ELSE Parent[p[1]]

Put(p, node) == fs' = [q \in DOMAIN fs \cup {p} |-> IF q = p THEN node ELSE fs[q]]
Unlink(p) == fs' = [q \in DOMAIN fs \ {p} |-> fs[q]]

\* unlink throws if there is a directory (EISDIR), or a file in the place of the
\* directory it is in (ENOTDIR).  That there is nothing is mostly no error.
InFile(p) == IsFile(<<Folder(p), "plain">>)
CanUnlink(p) == (Used(p) => IsFile(p)) /\ ~InFile(p)

\* mkdir makes the directories that there are not yet.
NewDirectories(P) == P \ DOMAIN fs
Make(P) ==
  fs' = [p \in DOMAIN fs \cup NewDirectories(P) |->
           IF p \in NewDirectories(P) THEN Directory ELSE fs[p]]

\* The answer of getStats if there is nothing at a path.
Missing(p) == IF InFile(p) THEN "failed" ELSE "notFound"

Contents(n) == {p \in DOMAIN fs : p # <<Root, "plain">> /\ Folder(p) = n}

\* The metadata file of the resource of a call.
Meta(c) == <<Target[c], IF Kind[c] \in {"mkdir", "rmdir"} THEN "dirMeta" ELSE "meta">>

\* Those that have the file open and whose bytes end up in it.
Writers(p) == {c \in Calls : IsFile(p) /\ c \in fs[p].by
                 /\ \/ pc[c] = "metadata" /\ p = Meta(c)
                    \/ pc[c] = "data" /\ p = link[c]}

\* createWriteStream empties a file that exists.
CanOpen(p) == IsDirectory(Folder(p)) /\ (Used(p) => IsFile(p))
Open(c, p) ==
  Put(p, [by |-> {c} \cup Writers(p), dir |-> FALSE, whole |-> FALSE])

\* The stream has finished; the file may have been removed in the meantime.
Close(c, p) ==
  IF c \in Writers(p) THEN Put(p, [fs[p] EXCEPT !.whole = Writers(p) = {c}])
  ELSE UNCHANGED fs

-----------------------------------------------------------------------------
(* The mapper.                                                             *)

\* NewPath, the content type itself added.
TypedPath(n, type) ==
  <<n, IF type = NameType[n] THEN "plain" ELSE type>>

\* mapUrlToDocumentPath with a content type that has an extension.
NewPath(n, type) ==
  <<n, IF type = NameType[n] THEN "plain" ELSE Extension[type]>>

\* mapUrlToDocumentPath without one: a file or directory with this name, with
\* or without an added extension, in the order that readdir has them.
ExistingPaths(n) ==
  LET found == {p \in DOMAIN fs : p[1] = n /\ p[2] \in {"plain"} \cup Extensions}
  IN  IF found = {} THEN {<<n, "plain">>} ELSE found

\* mapFilePathToUrl: the added extension is no part of the identifier, which
\* has a slash if there is a directory.
mapFilePathToUrl(f, p) == <<p[1], f[p].dir>>

-----------------------------------------------------------------------------

\* The file systems at the start: every path is in a directory, every document
\* is one file, and there is metadata for the documents that there are.
DocumentFiles(f, n) == {p \in DOMAIN f : /\ p[1] = n /\ ~f[p].dir
                                         /\ p[2] \in {"plain"} \cup Extensions}

ASSUME InitialAssumption ==
  \A f \in Initial :
    /\ DOMAIN f \subseteq Paths
    /\ \A p \in DOMAIN f :
         /\ f[p] \in {Directory, [by |-> {"initial"}, dir |-> FALSE, whole |-> TRUE]}
         /\ f[p] = Directory => p[2] = "plain"
         /\ p[1] = Root => p[2] = "dirMeta" \/ (p[2] = "plain" /\ f[p] = Directory)
         /\ \/ p = <<Root, "plain">> \/ Folder(p) = Root
            \/ <<Folder(p), "plain">> \in DOMAIN f /\ f[<<Folder(p), "plain">>].dir
    /\ \A n \in Names :
         /\ \A p, q \in DocumentFiles(f, n) : p = q
         /\ <<n, "meta">> \in DOMAIN f <=> DocumentFiles(f, n) # {}

Init ==
  /\ fs \in Initial
  /\ pc = [c \in Calls |-> "idle"]
  /\ link = [c \in Calls |-> <<Target[c], "plain">>]
  /\ old = link
  /\ entries = [c \in Calls |-> {}]
  /\ children = [c \in Calls |-> {}]
  /\ crashes = 0
  /\ seen = [c \in Calls |-> [meta |-> Nothing, data |-> Nothing]]
  /\ acked = [n \in {} |-> Nothing] /\ overlapped = {} /\ torn = {} /\ stripped = {}
  /\ always = [c \in Calls |-> {}]
  /\ ever = [c \in Calls |-> {}]

\* The store has its lock and calls the accessor.
begin(c) ==
  /\ pc[c] = "idle" /\ Cardinality({d \in Calls : pc[d] # "idle"}) < MaxCalls
  /\ \A d \in Calls : Running(d) /\ Lock[d] = Lock[c] => Reading(c) /\ Reading(d)
  /\ Go(c, "start")
  /\ UNCHANGED <<files, crashes>>

\* The identifier is outside of the storage (404), has a segment that is not
\* allowed (400), or is of a document and ends in a dollar sign and an extension (501).
refuse(c) ==
  /\ pc[c] = "start" /\ Target[c] \in DOMAIN Refused
  /\ Go(c, Refused[Target[c]])
  /\ UNCHANGED <<files, crashes>>

Starts(c) == pc[c] = "start" /\ Target[c] \in Names

\* Types for which the mapper has a path.
Mapped(n) == (DOMAIN Extension) \cup {NameType[n]}

-----------------------------------------------------------------------------
(* writeDocument.                                                          *)

\* There is no extension for the content type (501).
refuseType(c) ==
  /\ Starts(c) /\ Kind[c] = "write" /\ Type[c] \notin Mapped(Target[c])
  /\ Go(c, "refused")
  /\ UNCHANGED <<files, crashes>>

\* verifyExistingExtension, a file with another extension left alone.
verifyNothing(c) ==
  /\ Starts(c) /\ Kind[c] = "write"
  /\ Type[c] \in Mapped(Target[c])
  /\ link' = [link EXCEPT ![c] = NewPath(Target[c], Type[c])]
  /\ Go(c, "writeMetadata")
  /\ UNCHANGED <<fs, old, entries, children, seen, crashes>>

verifyExistingExtension(c) ==
  /\ Starts(c) /\ Kind[c] = "write"
  /\ Type[c] \in Mapped(Target[c])
  /\ link' = [link EXCEPT ![c] = NewPath(Target[c], Type[c])]
  /\ \E p \in ExistingPaths(Target[c]) :
       /\ old' = [old EXCEPT ![c] = p]
       /\ Go(c, IF p = link'[c] THEN "writeMetadata" ELSE "unlinkOld")
  /\ UNCHANGED <<fs, entries, children, seen, crashes>>

\* A file that does not exist is fine, a directory is an error.
unlinkOld(c) ==
  /\ pc[c] = "unlinkOld"
  /\ \/ ~Used(old[c]) /\ Go(c, "writeMetadata") /\ UNCHANGED fs
     \/ IsFile(old[c]) /\ Go(c, "writeMetadata") /\ Unlink(old[c])
     \/ Used(old[c]) /\ ~IsFile(old[c]) /\ Go(c, "failed") /\ UNCHANGED fs
  /\ UNCHANGED <<link, old, entries, children, seen, crashes>>

AfterMetadata(c) == IF Kind[c] = "write" THEN "openData" ELSE "done"

\* writeMetadata writes the quads that are left, if there are any.
openMetadata(c) ==
  /\ pc[c] = "writeMetadata" /\ HasMetadata[c]
  /\ \/ CanOpen(Meta(c)) /\ Open(c, Meta(c)) /\ Go(c, "metadata")
     \/ ~CanOpen(Meta(c)) /\ Go(c, "failed") /\ UNCHANGED fs
  /\ UNCHANGED <<link, old, entries, children, seen, crashes>>

metadataWritten(c) ==
  /\ pc[c] = "metadata"
  /\ Close(c, Meta(c)) /\ Go(c, AfterMetadata(c))
  /\ UNCHANGED <<link, old, entries, children, seen, crashes>>

\* removeMetadata, the file of an earlier write left there.
leaveMetadata(c) ==
  /\ pc[c] = "writeMetadata" /\ ~HasMetadata[c]
  /\ Go(c, AfterMetadata(c))
  /\ UNCHANGED <<files, crashes>>

\* Otherwise an old metadata file is removed.
removeMetadata(c) ==
  /\ pc[c] = "writeMetadata" /\ ~HasMetadata[c]
  /\ \/ CanUnlink(Meta(c)) /\ Unlink(Meta(c)) /\ Go(c, AfterMetadata(c))
     \/ ~CanUnlink(Meta(c)) /\ Go(c, "failed") /\ UNCHANGED fs
  /\ UNCHANGED <<link, old, entries, children, seen, crashes>>

openData(c) ==
  /\ pc[c] = "openData"
  /\ \/ CanOpen(link[c]) /\ Open(c, link[c]) /\ Go(c, "data")
     \/ ~CanOpen(link[c]) /\ Go(c, "cleanUp") /\ UNCHANGED fs
  /\ UNCHANGED <<link, old, entries, children, seen, crashes>>

dataWritten(c) ==
  /\ pc[c] = "data"
  /\ Close(c, link[c]) /\ Go(c, "done")
  /\ UNCHANGED <<link, old, entries, children, seen, crashes>>

\* The data or the file has an error.  What was written of it stays.
writeFails(c) ==
  /\ pc[c] \in {"metadata", "data"}
  /\ Go(c, IF pc[c] = "data" THEN "cleanUp" ELSE "failed")
  /\ UNCHANGED <<files, crashes>>

\* The metadata goes if the data could not be written.
cleanUp(c) ==
  /\ pc[c] = "cleanUp"
  /\ IF HasMetadata[c] /\ CanUnlink(Meta(c)) THEN Unlink(Meta(c)) ELSE UNCHANGED fs
  /\ Go(c, "failed")
  /\ UNCHANGED <<link, old, entries, children, seen, crashes>>

-----------------------------------------------------------------------------
(* writeContainer: a recursive mkdir, which throws EEXIST only if there is *)
(* a file with the name; the error is caught all the same.                 *)

mkdir(c) ==
  /\ Starts(c) /\ Kind[c] = "mkdir"
  /\ IF \E m \in Above[Target[c]] \ {Target[c]} : IsFile(<<m, "plain">>)
     THEN Go(c, "failed") /\ UNCHANGED fs
     ELSE Go(c, "writeMetadata") /\ Make({<<m, "plain">> : m \in Above[Target[c]]})
  /\ UNCHANGED <<link, old, entries, children, seen, crashes>>

-----------------------------------------------------------------------------
(* deleteResource.                                                         *)

\* The path: for a document, that of the file there is.
mapUrlToFilePath(c) ==
  /\ Starts(c) /\ Kind[c] \in {"delete", "rmdir", "get"}
  /\ \E p \in IF Kind[c] = "rmdir" THEN {<<Target[c], "plain">>} ELSE ExistingPaths(Target[c]) :
       link' = [link EXCEPT ![c] = p]
  /\ Go(c, "stat")
  /\ UNCHANGED <<fs, old, entries, children, seen, crashes>>

\* The stats of it: 404 if there is nothing, an error for a file with a slash
\* at the end of its path.  A document that is a directory is a 404 later.
getStats(c) ==
  /\ pc[c] = "stat" /\ Kind[c] \in {"delete", "rmdir"}
  /\ Go(c, IF ~Used(link[c]) THEN Missing(link[c])
           ELSE IF Kind[c] = "rmdir" /\ IsFile(link[c]) THEN "failed"
           ELSE IF Kind[c] = "delete" /\ ~IsFile(link[c]) THEN "unlinkOnly"
           ELSE "unlinkMetadata")
  /\ UNCHANGED <<files, crashes>>

\* unlinkMetadata, the metadata file left alone.
keepMetadata(c) ==
  /\ pc[c] \in {"unlinkMetadata", "unlinkOnly"}
  /\ Go(c, IF pc[c] = "unlinkOnly" THEN "notFound" ELSE "remove")
  /\ UNCHANGED <<files, crashes>>

unlinkMetadata(c) ==
  /\ pc[c] \in {"unlinkMetadata", "unlinkOnly"}
  /\ \/ /\ CanUnlink(Meta(c)) /\ Unlink(Meta(c))
        /\ Go(c, IF pc[c] = "unlinkOnly" THEN "notFound" ELSE "remove")
     \/ ~CanUnlink(Meta(c)) /\ Go(c, "failed") /\ UNCHANGED fs
  /\ UNCHANGED <<link, old, entries, children, seen, crashes>>

\* unlink of a file, or rmdir of a directory, which has to be empty.
remove(c) ==
  /\ pc[c] = "remove"
  /\ \/ /\ \/ Kind[c] = "delete" /\ IsFile(link[c])
           \/ Kind[c] = "rmdir" /\ IsDirectory(Target[c]) /\ Contents(Target[c]) = {}
        /\ Unlink(link[c]) /\ Go(c, "done")
     \/ /\ \/ Kind[c] = "delete" /\ ~IsFile(link[c])
           \/ Kind[c] = "rmdir" /\ ~(IsDirectory(Target[c]) /\ Contents(Target[c]) = {})
        /\ Go(c, "failed") /\ UNCHANGED fs
  /\ UNCHANGED <<link, old, entries, children, seen, crashes>>

-----------------------------------------------------------------------------
(* getMetadata and getData of a document.                                  *)

getMetadata(c) ==
  /\ pc[c] = "stat" /\ Kind[c] = "get"
  /\ Go(c, IF IsFile(link[c]) THEN "readMetadata" ELSE Missing(link[c]))
  /\ UNCHANGED <<files, crashes>>

\* No metadata file is no metadata; one that is cut off may not be readable, and
\* a directory is not.
getRawMetadata(c) ==
  /\ pc[c] = "readMetadata"
  /\ LET m == IF Used(Meta(c)) THEN fs[Meta(c)] ELSE Nothing
         CanRead == ~m.dir /\ ~InFile(Meta(c))
     IN  \/ CanRead /\ Go(c, "readData") /\ seen' = [seen EXCEPT ![c].meta = m]
         \/ (~CanRead \/ ~m.whole) /\ Go(c, "failed") /\ UNCHANGED seen
  /\ UNCHANGED <<fs, link, old, entries, children, crashes>>

\* The path is looked up again.
getData(c) ==
  /\ pc[c] = "readData"
  /\ \E p \in ExistingPaths(Target[c]) :
       \/ IsFile(p) /\ Go(c, "done") /\ seen' = [seen EXCEPT ![c].data = fs[p]]
       \/ ~IsFile(p) /\ Go(c, Missing(p)) /\ UNCHANGED seen
  /\ UNCHANGED <<fs, link, old, entries, children, crashes>>

-----------------------------------------------------------------------------
(* getChildren: the entries of the directory, then the stats of each.      *)

\* Visible, nothing hidden.
AllOf(P) == P

\* Metadata files are hidden.
Visible(P) == {p \in P : p[2] \notin {"meta", "dirMeta"}}

opendir(c) ==
  /\ Starts(c) /\ Kind[c] = "list"
  /\ Go(c, IF IsDirectory(Target[c]) THEN "readdir" ELSE "failed")
  /\ UNCHANGED <<files, crashes>>

\* The entries, metadata files hidden, and their kind, which says which
\* identifiers they stand for.  Taken as one snapshot; the iteration that the
\* code does may miss or find what comes or goes meanwhile.
readdir(c) ==
  /\ pc[c] = "readdir" /\ Go(c, "lstat")
  /\ entries' = [entries EXCEPT ![c] =
       {<<p, mapFilePathToUrl(fs, p)>> : p \in Visible(Contents(Target[c]))}]
  /\ UNCHANGED <<fs, link, old, children, seen, crashes>>

\* lstat throws if the entry is gone, whether deleted or stored under another
\* extension.
getChildMetadata(c) ==
  /\ pc[c] = "lstat"
  /\ \/ entries[c] = {} /\ Go(c, "done") /\ UNCHANGED <<entries, children>>
     \/ \E e \in entries[c] :
          /\ entries' = [entries EXCEPT ![c] = @ \ {e}]
          /\ \/ /\ Used(e[1]) /\ UNCHANGED pc
                /\ children' = [children EXCEPT ![c] = @ \cup {e[2]}]
             \/ ~Used(e[1]) /\ Go(c, "failed") /\ UNCHANGED children
  /\ UNCHANGED <<fs, link, old, seen, crashes>>

-----------------------------------------------------------------------------
(* Identifiers that end in .meta.  Only writeDocument refuses them.  To    *)
(* the other methods the metadata file of a resource is a document as any  *)
(* other, with a lock of its own, and its name may be that of a container. *)
(* What is in such a container is left out.                                *)

OnMetadata(c) == Target[c] \in DOMAIN MetaPath
File(c) == MetaPath[Target[c]]

\* There is what the identifier says: a directory if it ends in a slash.
Suits(c) == Used(File(c)) /\ fs[File(c)].dir = (Kind[c] = "rmdir")

\* "Not allowed to create files with the metadata extension" (409).
refuseMetadata(c) ==
  /\ pc[c] = "start" /\ OnMetadata(c) /\ Kind[c] = "write"
  /\ Go(c, "refused")
  /\ UNCHANGED <<files, crashes>>

statFile(c) ==
  /\ pc[c] = "start" /\ OnMetadata(c) /\ Kind[c] \in {"get", "delete", "rmdir"}
  /\ Go(c, IF Suits(c) THEN "found"
           ELSE IF Kind[c] = "rmdir" /\ Used(File(c)) THEN "failed" ELSE Missing(File(c)))
  /\ UNCHANGED <<files, crashes>>

deleteFile(c) ==
  /\ pc[c] = "found" /\ Kind[c] \in {"delete", "rmdir"}
  /\ \/ Suits(c) /\ Unlink(File(c)) /\ Go(c, "done")
     \/ ~Suits(c) /\ Go(c, "failed") /\ UNCHANGED fs
  /\ UNCHANGED <<link, old, entries, children, seen, crashes>>

readFile(c) ==
  /\ pc[c] = "found" /\ Kind[c] = "get"
  /\ \/ Suits(c) /\ Go(c, "done") /\ seen' = [seen EXCEPT ![c].data = fs[File(c)]]
     \/ ~Suits(c) /\ Go(c, Missing(File(c))) /\ UNCHANGED seen
  /\ UNCHANGED <<fs, link, old, entries, children, crashes>>

\* As with mkdir; if there is a file, that is found out with the metadata.
makeContainer(c) ==
  /\ pc[c] = "start" /\ OnMetadata(c) /\ Kind[c] = "mkdir"
  /\ IF \E m \in Above[Folder(File(c))] : IsFile(<<m, "plain">>)
     THEN Go(c, "failed") /\ UNCHANGED fs
     ELSE /\ Make({File(c)} \cup {<<m, "plain">> : m \in Above[Folder(File(c))]})
          /\ Go(c, IF IsFile(File(c)) THEN "failed" ELSE "done")
  /\ UNCHANGED <<link, old, entries, children, seen, crashes>>

-----------------------------------------------------------------------------
\* The process ends; the files stay as they are.
crash ==
  /\ crashes < MaxCrashes /\ \E c \in Calls : Running(c)
  /\ crashes' = crashes + 1
  /\ pc' = [c \in Calls |-> IF Running(c) THEN "crashed" ELSE pc[c]]
  /\ UNCHANGED files

Step(c) ==
  \/ begin(c) \/ refuse(c) \/ refuseType(c) \/ verifyExistingExtension(c) \/ unlinkOld(c)
  \/ openMetadata(c) \/ metadataWritten(c) \/ removeMetadata(c) \/ openData(c)
  \/ dataWritten(c) \/ writeFails(c) \/ cleanUp(c) \/ mkdir(c)
  \/ mapUrlToFilePath(c) \/ getStats(c) \/ unlinkMetadata(c) \/ remove(c)
  \/ getMetadata(c) \/ getRawMetadata(c) \/ getData(c)
  \/ opendir(c) \/ readdir(c) \/ getChildMetadata(c)
  \/ refuseMetadata(c) \/ statFile(c) \/ deleteFile(c) \/ readFile(c) \/ makeContainer(c)

-----------------------------------------------------------------------------
(* The history.                                                            *)

Changes(c) == Kind[c] \in {"write", "delete"}
Touches(c) == Kind[c] \in {"write", "delete", "get", "rmdir"}

Begins(c) == pc[c] = "idle" /\ pc'[c] # "idle"
Ends(c) == Running(c) /\ pc'[c] \in Outcomes

\* The resources that are in a container.
Members(f, n) ==
  {mapFilePathToUrl(f, p) : p \in {q \in DOMAIN f : /\ q # <<Root, "plain">>
                                                    /\ q[2] \notin {"meta", "dirMeta"}
                                                    /\ Parent[q[1]] = n}}

RememberWrites ==
  LET begun == {Target[c] : c \in {d \in Calls : Begins(d) /\ Changes(d)}}
      done == {c \in Calls : Ends(c) /\ Kind[c] = "write" /\ pc'[c] = "done"}
      cut == {c \in Calls : Ends(c) /\ Changes(c)
                              /\ pc'[c] # "done" /\ pc[c] \notin {"start", "stat"}}
  IN  /\ acked' = [n \in (DOMAIN acked \ begun) \cup {Target[c] : c \in done} |->
                     IF \E c \in done : Target[c] = n
                     THEN CHOOSE c \in done : Target[c] = n ELSE acked[n]]
      /\ overlapped' = overlapped \cup
           {Target[c] : c \in {d \in Calls : Begins(d) /\ Touches(d) /\
              \E e \in Calls \ {d} : /\ Running(e) /\ Target[e] = Target[d] /\ Touches(e)
                                     /\ Changes(d) \/ Changes(e)}}
      /\ torn' = {t \in torn : \A c \in done : Target[c] # t[1]}
           \cup {<<Target[c], IF pc'[c] = "crashed" THEN "crashed" ELSE pc[c]>> : c \in cut}

\* A write that gets past its metadata has put it right again.
RememberMetadata ==
  LET rewritten == {c \in Calls : /\ Kind[c] = "write" /\ pc[c] = "writeMetadata"
                                  /\ pc'[c] \in {"metadata", "openData"}}
      changed == {c \in Calls : /\ OnMetadata(c) /\ File(c)[2] = "meta"
                                /\ pc'[c] # pc[c] /\ fs' # fs}
  IN  stripped' = (stripped \ {Target[c] : c \in rewritten}) \cup {File(c)[1] : c \in changed}

RememberListings ==
  /\ always' = [c \in Calls |->
       IF Kind[c] # "list" \/ pc'[c] \in {"idle"} \cup Outcomes THEN {}
       ELSE IF Begins(c) THEN Members(fs', Target[c])
       ELSE always[c] \cap Members(fs', Target[c])]
  /\ ever' = [c \in Calls |->
       IF Kind[c] # "list" \/ pc'[c] \in {"idle"} \cup Outcomes THEN {}
       ELSE ever[c] \cup Members(fs', Target[c])]

Next == /\ crash \/ \E c \in Calls : Step(c)
        /\ RememberWrites /\ RememberMetadata /\ RememberListings

Spec == Init /\ [][Next]_vars

-----------------------------------------------------------------------------
(* Properties.                                                             *)

Nodes == [by : SUBSET (Calls \cup {"initial"}), dir : BOOLEAN, whole : BOOLEAN]

TypeOK ==
  /\ DOMAIN fs \subseteq Paths /\ \A p \in DOMAIN fs : fs[p] \in Nodes
  /\ pc \in [Calls -> Pcs]
  /\ \A c \in Calls : /\ link[c] \in Paths \cup (Unnamed \X {"plain"})
                      /\ old[c] \in Paths \cup (Unnamed \X {"plain"})
                      /\ seen[c].meta \in Nodes /\ seen[c].data \in Nodes
  /\ \A c \in Calls :
       /\ entries[c] \subseteq Paths \X (Names \X BOOLEAN)
       /\ children[c] \cup always[c] \cup ever[c] \subseteq Names \X BOOLEAN
  /\ crashes \in 0 .. MaxCrashes
  /\ DOMAIN acked \subseteq Names /\ \A n \in DOMAIN acked : acked[n] \in Calls
  /\ overlapped \subseteq Names \cup Unnamed /\ stripped \subseteq Names
  /\ torn \subseteq (Names \cup Unnamed) \X Pcs

\* The files of a document, and the ones that a call has written.
DataFiles(n) == DocumentFiles(fs, n)

WrittenBy(node, c) == node.by = {c} /\ node.whole

\* A document whose write was acknowledged stays what it is until the next
\* request that changes it: one file, complete, and the metadata of the same
\* write, whatever containers are deleted, whatever was written, cut off or
\* left behind before, and wherever the server crashes.  Excepted are
\* documents of which two requests, under different locks, overlapped, or one
\* with the deletion of a container of the same name: an old file that
\* another extension hides is then taken for gone.  And only the data is kept
\* for sure: a DELETE of x.meta, or a PUT of x.meta/, which are not refused,
\* may take the metadata of x at any time.
AcknowledgedIsKept ==
  \A n \in DOMAIN acked \ overlapped :
    LET c == acked[n] IN
    /\ \E p \in DataFiles(n) : DataFiles(n) = {p} /\ WrittenBy(fs[p], c)
    /\ \/ n \in stripped
       \/ IF HasMetadata[c] THEN Used(Meta(c)) /\ WrittenBy(fs[Meta(c)], c) ELSE ~Used(Meta(c))

\* Metadata without data is never left by a delete, nor by a write of which
\* the data failed ("will be deleted if something goes wrong writing the
\* actual data"); only by one that crashed or could not write its metadata.
OnlyWritesLeaveOrphans ==
  \A n \in Names \ overlapped :
    /\ IsFile(<<n, "meta">>) /\ DataFiles(n) = {}
    /\ \A c \in Calls : Running(c) => Target[c] # n
    => \E t \in torn : t[1] = n /\ t[2] \in {"crashed", "metadata"}

\* A reader gets the complete data of a write, and the metadata of the same
\* one.  Excepted are documents with an overlap, or with a change that was cut
\* off before, and the metadata that a request for x.meta has changed.
ReadsAreOfOneWrite ==
  [][\A c \in Calls : Kind[c] = "get" /\ Ends(c) /\ pc'[c] = "done" /\ Target[c] \in Names =>
       \/ Target[c] \in overlapped \/ \E t \in torn : t[1] = Target[c]
       \/ \E w \in Calls \cup {"initial"} :
            /\ WrittenBy(seen'[c].data, w)
            /\ \/ Target[c] \in stripped
               \/ IF w = "initial" \/ HasMetadata[w] THEN WrittenBy(seen'[c].meta, w)
                  ELSE seen'[c].meta = Nothing]_vars

\* A listing has every child that was there all the time and none that was
\* not there at any time; it fails only if something in it went away, or a file
\* of a child of which two requests overlapped.
ListingsAreTrue ==
  [][\A c \in Calls : Kind[c] = "list" /\ Ends(c) /\ Target[c] \notin DOMAIN Refused =>
       CASE pc'[c] = "done" -> always[c] \subseteq children'[c] /\ children'[c] \subseteq ever[c]
         [] pc'[c] = "failed" -> \/ always[c] # ever[c] \/ ~IsDirectory(Target[c])
                                 \/ \E n \in overlapped \cap Names : Parent[n] = Target[c]
         [] OTHER -> TRUE]_vars
=============================================================================
