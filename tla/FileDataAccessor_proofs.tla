------------------------ MODULE FileDataAccessor_proofs ------------------------
(***************************************************************************)
(* Proofs that the file accessor keeps the documents of which the write    *)
(* was acknowledged, that a failed request leaves no metadata on its own,  *)
(* that a reader gets the data and the metadata of one write, and that     *)
(* listings are true.                                                      *)
(***************************************************************************)
EXTENDS FileDataAccessor, TLAPS

DataForms == {"plain"} \cup Extensions
Forms == {"plain", "meta", "dirMeta"} \cup Extensions
Places == Paths \cup (Unnamed \X {"plain"})
Ids == Names \X BOOLEAN

-----------------------------------------------------------------------------
(* The inductive invariant.                                                *)

\* The values of the variables.
FilesTyped == DOMAIN fs \subseteq Paths /\ \A p \in DOMAIN fs : fs[p] \in Nodes

CallsTyped ==
  /\ pc \in [Calls -> Pcs]
  /\ link \in [Calls -> Places] /\ old \in [Calls -> Places]
  /\ seen \in [Calls -> [meta : Nodes, data : Nodes]]
  /\ entries \in [Calls -> SUBSET (Paths \X Ids)]
  /\ children \in [Calls -> SUBSET Ids]

HistoryTyped ==
  /\ DOMAIN acked \subseteq Names /\ \A n \in DOMAIN acked : acked[n] \in Calls
  /\ overlapped \subseteq Names \cup Unnamed /\ stripped \subseteq Names
  /\ torn \subseteq (Names \cup Unnamed) \X Pcs
  /\ always \in [Calls -> SUBSET Ids] /\ ever \in [Calls -> SUBSET Ids]

TypeInv == FilesTyped /\ CallsTyped /\ crashes \in 0 .. MaxCrashes /\ HistoryTyped

\* A call that has looked at its target, which then has a name.
Working(c) == pc[c] \notin {"idle", "start", "found"} \cup Outcomes

\* The operations that a call of a kind comes to, and the path it works on.
StepIsRight(c) ==
  /\ pc[c] \in {"unlinkOld", "openData", "data", "cleanUp"} => Kind[c] = "write"
  /\ pc[c] \in {"writeMetadata", "metadata"} => Kind[c] \in {"write", "mkdir"}
  /\ pc[c] \in {"unlinkMetadata", "remove"} => Kind[c] \in {"delete", "rmdir"}
  /\ pc[c] = "unlinkOnly" => Kind[c] = "delete"
  /\ pc[c] = "stat" => Kind[c] \in {"delete", "rmdir", "get"}
  /\ pc[c] \in {"readMetadata", "readData"} => Kind[c] = "get"
  /\ pc[c] \in {"readdir", "lstat"} => Kind[c] = "list"
  /\ pc[c] = "found" => Kind[c] \in {"get", "delete", "rmdir"} /\ OnMetadata(c)
  /\ Working(c) =>
       /\ Target[c] \in Names
       /\ Touches(c) => link[c] \in {Target[c]} \X DataForms
       /\ Kind[c] = "rmdir" => link[c] = <<Target[c], "plain">>
       /\ pc[c] = "unlinkOld" => old[c] \in {Target[c]} \X DataForms

StepsAreRight == \A c \in Calls : StepIsRight(c)

\* Directories have no extension, all there is is in one, and the root has no
\* files but its metadata.
FilesAreInDirectories ==
  \A p \in DOMAIN fs :
    /\ fs[p].dir /\ p[2] \in DataForms => p[2] = "plain"
    /\ p[1] = Root => p[2] = "dirMeta" \/ (p[2] = "plain" /\ fs[p].dir)
    /\ p = <<Root, "plain">> \/ IsDirectory(Folder(p))

\* Two that use a resource at the same time, one of them to change it.
OverlapsAreSeen ==
  \A c, d \in Calls :
    c # d /\ Running(c) /\ Running(d) /\ Target[c] = Target[d]
          /\ Touches(c) /\ Touches(d) /\ (Changes(c) \/ Changes(d))
    => Target[c] \in overlapped

\* The data and metadata of a document are those of a write, or of the start,
\* unless a request for the metadata file itself has changed that.
IsOf(n, w) ==
  /\ \A p \in DataFiles(n) : WrittenBy(fs[p], w)
  /\ \/ n \in stripped
     \/ IF w = "initial" \/ HasMetadata[w]
        THEN Used(<<n, "meta">>) /\ WrittenBy(fs[<<n, "meta">>], w)
        ELSE ~Used(<<n, "meta">>)

\* No request is changing the files of a document.
Quiet(n) ==
  \A c \in Calls : Running(c) /\ Changes(c) /\ Target[c] = n => pc[c] \in {"start", "stat"}

\* A document has one file.
OneFile(n) == \A p, q \in DataFiles(n) : p = q

\* Metadata without data: a write is under way, or was cut off.
OrphanIsOfWrite(n) ==
  IsFile(<<n, "meta">>) /\ DataFiles(n) = {} =>
    \/ \E c \in Calls : /\ Kind[c] = "write" /\ Target[c] = n
                        /\ pc[c] \in {"writeMetadata", "metadata", "openData", "cleanUp"}
    \/ \E t \in torn : t[1] = n /\ t[2] \in {"crashed", "metadata"}

\* Between two changes that were not cut off, data and metadata are one.
QuietIsConsistent(n) ==
  Quiet(n) /\ (\A t \in torn : t[1] # n) /\ DataFiles(n) # {} =>
    \E w \in Calls \cup {"initial"} : IsOf(n, w)

\* What was acknowledged is there, and nobody has begun to change it.
AckedIsThere(n) ==
  n \in DOMAIN acked =>
    /\ Kind[acked[n]] = "write" /\ Target[acked[n]] = n
    /\ \A c \in Calls : Running(c) /\ Changes(c) => Target[c] # n
    /\ DataFiles(n) # {} /\ IsOf(n, acked[n])

\* What a running request knows of its document.
Has(n, p) == DataFiles(n) \subseteq {p} \/ (Used(p) /\ fs[p].dir)

MetadataIsWritten(c) ==
  IF HasMetadata[c] THEN Used(Meta(c)) /\ WrittenBy(fs[Meta(c)], c) ELSE ~Used(Meta(c))

WriteKnows(c) ==
  /\ pc[c] = "unlinkOld" => Has(Target[c], old[c])
  /\ pc[c] \in {"writeMetadata", "metadata", "openData", "data", "cleanUp"} =>
       Has(Target[c], link[c])
  /\ pc[c] = "metadata" =>
       /\ HasMetadata[c]
       /\ Target[c] \in stripped \/ (IsFile(Meta(c)) /\ fs[Meta(c)].by = {c})
  /\ pc[c] \in {"openData", "data"} => Target[c] \in stripped \/ MetadataIsWritten(c)
  /\ pc[c] = "data" => IsFile(link[c]) /\ fs[link[c]].by = {c}
  /\ pc[c] \in {"openData", "data", "cleanUp"} => HasMetadata[c] \/ ~IsFile(Meta(c))

DeleteKnows(c) ==
  /\ pc[c] \in {"unlinkMetadata", "remove"} => IsFile(link[c])
  /\ pc[c] = "remove" => ~IsFile(Meta(c))

GetKnows(c) ==
  pc[c] = "readData" =>
    \/ Target[c] \in stripped
    \/ seen[c].meta = IF Used(Meta(c)) THEN fs[Meta(c)] ELSE Nothing

CallKnows(c) ==
  /\ Kind[c] = "write" => WriteKnows(c)
  /\ Kind[c] = "delete" => DeleteKnows(c)
  /\ Kind[c] = "get" => GetKnows(c)

Document(n) ==
  /\ OneFile(n) /\ OrphanIsOfWrite(n) /\ QuietIsConsistent(n) /\ AckedIsThere(n)
  /\ \A c \in Calls : Running(c) /\ Target[c] = n => CallKnows(c)

DocumentsAreRight == \A n \in Names \ overlapped : Document(n)

\* An entry that a listing has still to look at is there, or went away since.
EntryIsRight(c, e) ==
  /\ e[1][1] = e[2][1] /\ Parent[e[2][1]] = Target[c] /\ e[2][1] # Root
  /\ e[1][2] \in DataForms /\ (e[2][2] => e[1][2] = "plain")
  /\ \/ Used(e[1]) /\ fs[e[1]].dir = e[2][2]
     \/ e[2] \notin always[c] \/ e[2][1] \in overlapped

ListingKnows(c) ==
  /\ always[c] \subseteq Members(fs, Target[c]) /\ Members(fs, Target[c]) \subseteq ever[c]
  /\ pc[c] = "readdir" => children[c] = {}
  /\ pc[c] = "lstat" =>
       /\ always[c] \subseteq children[c] \cup {e[2] : e \in entries[c]}
       /\ children[c] \subseteq ever[c]
       /\ \A e \in entries[c] : e[2] \in ever[c] /\ EntryIsRight(c, e)

ListingsAreRight ==
  \A c \in Calls :
    /\ Kind[c] = "list" /\ pc[c] = "idle" => children[c] = {}
    /\ Kind[c] = "list" /\ pc[c] = "start" => children[c] = {}
    /\ Kind[c] = "list" /\ Running(c) => ListingKnows(c)

IInv == /\ TypeInv /\ StepsAreRight /\ FilesAreInDirectories /\ OverlapsAreSeen
        /\ DocumentsAreRight /\ ListingsAreRight
-----------------------------------------------------------------------------
(* Paths and forms.                                                        *)

\* A path is a name and a form.
LEMMA PathShape ==
  ASSUME NEW p \in Paths
  PROVE  p = <<p[1], p[2]>> /\ p[1] \in Names /\ p[2] \in Forms
BY DEF Paths, Forms

\* The forms of data are not those of metadata.
LEMMA FormsDiffer ==
  /\ "meta" \notin DataForms /\ "dirMeta" \notin DataForms /\ "plain" \in DataForms
  /\ \A n \in Names, f \in Forms : <<n, f>> \in Paths
  /\ DataForms \subseteq Forms
BY NamesAssumption DEF DataForms, Forms, Paths

\* The path of data of a name.
LEMMA DataPath ==
  ASSUME NEW n \in Names, NEW p \in {n} \X DataForms
  PROVE  /\ p \in Paths /\ p[1] = n /\ p[2] \in DataForms /\ p = <<n, p[2]>>
         /\ p \in Places
BY FormsDiffer DEF Places

\* mapUrlToDocumentPath with a content type that has an extension.
LEMMA NewPathIsData ==
  ASSUME NEW n \in Names, NEW t \in Mapped(n)
  PROVE  NewPath(n, t) \in {n} \X DataForms
BY DEF NewPath, Mapped, DataForms, Extensions

\* mapUrlToDocumentPath without one.
LEMMA ExistingPathIsData ==
  ASSUME FilesTyped, NEW n \in Names, NEW p \in ExistingPaths(n)
  PROVE  p \in {n} \X DataForms
<1>1. CASE p \in DOMAIN fs /\ p[1] = n /\ p[2] \in DataForms
  BY <1>1, PathShape DEF FilesTyped
<1>2. CASE p = <<n, "plain">>
  BY <1>2 DEF DataForms
<1> QED
  BY <1>1, <1>2 DEF ExistingPaths, DataForms

\* The metadata file of a resource.
LEMMA MetaPathIs ==
  ASSUME NEW c \in Calls, Target[c] \in Names
  PROVE  /\ Meta(c) \in Paths /\ Meta(c)[1] = Target[c]
         /\ Meta(c)[2] \in {"meta", "dirMeta"} /\ Meta(c)[2] \notin DataForms
         /\ Kind[c] \notin {"mkdir", "rmdir"} => Meta(c) = <<Target[c], "meta">>
         /\ Kind[c] \in {"mkdir", "rmdir"} => Meta(c)[2] = "dirMeta"
BY FormsDiffer DEF Meta, Forms

\* The nodes that there may be.
LEMMA NodesAre ==
  /\ Nothing \in Nodes /\ Directory \in Nodes
  /\ ~Nothing.dir /\ Directory.dir /\ Nothing.whole
  /\ \A x \in Nodes : x.dir \in BOOLEAN /\ x.whole \in BOOLEAN
                      /\ x.by \subseteq Calls \cup {"initial"}
BY DEF Nodes, Nothing, Directory

\* The metadata file that an identifier ending in .meta stands for.
LEMMA MetadataCall ==
  ASSUME NEW c \in Calls, OnMetadata(c)
  PROVE  /\ Target[c] \notin Names /\ Target[c] \notin DOMAIN Refused /\ Kind[c] # "list"
         /\ File(c) \in Paths /\ File(c)[1] \in Names /\ File(c)[2] \in {"meta", "dirMeta"}
         /\ File(c) = <<File(c)[1], File(c)[2]>> /\ File(c)[2] \notin DataForms
         /\ File(c)[1] = Root => File(c)[2] = "dirMeta"
         /\ Folder(File(c)) \in Names
<1>1. /\ Target[c] \in DOMAIN MetaPath /\ Target[c] \notin Names
      /\ Target[c] \notin DOMAIN Refused /\ Kind[c] # "list"
      /\ MetaPath \in [DOMAIN MetaPath -> (Names \X {"meta", "dirMeta"}) \ {<<Root, "meta">>}]
  BY CallsAssumption DEF OnMetadata, Unnamed
<1>2. PICK n \in Names, g \in {"meta", "dirMeta"} : File(c) = <<n, g>> /\ <<n, g>> # <<Root, "meta">>
  BY <1>1 DEF File
<1>3. n = Root => g = "dirMeta"
  BY <1>2
<1>4. <<n, g>> \in Paths /\ g \notin DataForms
  BY FormsDiffer DEF Forms
<1>5. Folder(<<n, g>>) \in Names
  BY <1>3, NamesAssumption DEF Folder
<1> QED
  BY <1>1, <1>2, <1>3, <1>4, <1>5
-----------------------------------------------------------------------------
(* What a step changes of the calls.                                       *)

\* The state of a call.
SameCall(c) ==
  /\ pc'[c] = pc[c] /\ link'[c] = link[c] /\ old'[c] = old[c] /\ seen'[c] = seen[c]
  /\ entries'[c] = entries[c] /\ children'[c] = children[c]

\* A step of a call leaves the others alone, and keeps to its kind.
CallSteps(c) ==
  /\ CallsTyped' /\ StepIsRight(c)' /\ crashes' = crashes
  /\ \A d \in Calls \ {c} : SameCall(d)
  /\ pc[c] \notin Outcomes /\ pc'[c] # "idle"
  /\ pc'[c] = "start" => pc[c] = "idle"
  /\ pc[c] = "idle" => pc'[c] = "start"

\* verifyExistingExtension chooses the path for the content type.
LEMMA VerifyCallSteps ==
  ASSUME FilesTyped, CallsTyped, NEW c \in Calls, StepIsRight(c), verifyExistingExtension(c)
  PROVE  CallSteps(c)
<1>1. Target[c] \in Names /\ Type[c] \in Mapped(Target[c])
  BY CallsAssumption DEF verifyExistingExtension, Starts
<1>2. PICK p \in ExistingPaths(Target[c]) :
        /\ old' = [old EXCEPT ![c] = p]
        /\ Go(c, IF p = link'[c] THEN "writeMetadata" ELSE "unlinkOld")
  BY DEF verifyExistingExtension
<1> DEFINE new == NewPath(Target[c], Type[c])
<1>3. link' = [link EXCEPT ![c] = new] /\ Kind[c] = "write" /\ pc[c] = "start"
      /\ UNCHANGED <<fs, entries, children, seen, crashes>>
  BY DEF verifyExistingExtension, Starts
<1>4. new \in {Target[c]} \X DataForms /\ p \in {Target[c]} \X DataForms
  BY <1>1, NewPathIsData, ExistingPathIsData
<1>5. new \in Places /\ p \in Places
  BY <1>1, <1>4, DataPath
<1> HIDE DEF new
<1> QED
  BY <1>1, <1>2, <1>3, <1>4, <1>5
  DEF CallSteps, SameCall, CallsTyped, StepIsRight, Working, Outcomes, Pcs, Go, Touches

\* mapUrlToFilePath chooses the path of a file there is.
LEMMA MapCallSteps ==
  ASSUME FilesTyped, CallsTyped, NEW c \in Calls, StepIsRight(c), mapUrlToFilePath(c)
  PROVE  CallSteps(c)
<1>1. Target[c] \in Names
  BY CallsAssumption DEF mapUrlToFilePath, Starts
<1>2. PICK p : /\ link' = [link EXCEPT ![c] = p]
               /\ p \in IF Kind[c] = "rmdir" THEN {<<Target[c], "plain">>}
                        ELSE ExistingPaths(Target[c])
  BY DEF mapUrlToFilePath
<1>3. Kind[c] \in {"delete", "rmdir", "get"} /\ pc[c] = "start" /\ Go(c, "stat")
      /\ UNCHANGED <<fs, old, entries, children, seen, crashes>>
  BY DEF mapUrlToFilePath, Starts
<1>4. p \in {Target[c]} \X DataForms /\ (Kind[c] = "rmdir" => p = <<Target[c], "plain">>)
  BY <1>1, <1>2, ExistingPathIsData, FormsDiffer
<1>5. p \in Places
  BY <1>1, <1>4, DataPath
<1> QED
  BY <1>1, <1>2, <1>3, <1>4, <1>5
  DEF CallSteps, SameCall, CallsTyped, StepIsRight, Working, Outcomes, Pcs, Go, Touches

\* A step that changes nothing of a call but how far it is.
LEMMA GoCallSteps ==
  ASSUME CallsTyped, NEW c \in Calls, StepIsRight(c), NEW to, Go(c, to),
         UNCHANGED <<link, old, entries, children, seen, crashes>>,
         to \in Pcs \ {"idle"}, pc[c] \notin Outcomes,
         to = "start" <=> pc[c] = "idle",
         to \in {"unlinkOld", "openData", "data", "cleanUp"} => Kind[c] = "write",
         to \in {"writeMetadata", "metadata"} => Kind[c] \in {"write", "mkdir"},
         to \in {"unlinkMetadata", "remove"} => Kind[c] \in {"delete", "rmdir"},
         to = "unlinkOnly" => Kind[c] = "delete",
         to = "stat" => Kind[c] \in {"delete", "rmdir", "get"},
         to \in {"readMetadata", "readData"} => Kind[c] = "get",
         to \in {"readdir", "lstat"} => Kind[c] = "list",
         to = "found" => Kind[c] \in {"get", "delete", "rmdir"} /\ OnMetadata(c),
         to \notin {"idle", "start", "unlinkOld", "found"} \cup Outcomes =>
           \/ Working(c)
           \/ Kind[c] \in {"mkdir", "list"} /\ Target[c] \in Names,
         to # "unlinkOld"
  PROVE  CallSteps(c)
<1>1. pc' = [pc EXCEPT ![c] = to] /\ pc'[c] = to /\ pc' \in [Calls -> Pcs]
  BY DEF Go, CallsTyped
<1>2. CallsTyped' /\ (\A d \in Calls \ {c} : SameCall(d))
  BY <1>1 DEF CallsTyped, SameCall
<1>3. Working(c)' => /\ Target[c] \in Names
                     /\ Touches(c) => link[c] \in {Target[c]} \X DataForms
                     /\ Kind[c] = "rmdir" => link[c] = <<Target[c], "plain">>
  BY <1>1 DEF Working, StepIsRight, Touches
<1>4. StepIsRight(c)'
  BY <1>1, <1>3 DEF StepIsRight, Touches, OnMetadata
<1> QED
  BY <1>1, <1>2, <1>4 DEF CallSteps

\* getChildMetadata looks at one entry.
LEMMA ListCallSteps ==
  ASSUME FilesTyped, CallsTyped, NEW c \in Calls, StepIsRight(c), Target[c] \in Names,
         readdir(c) \/ getChildMetadata(c)
  PROVE  CallSteps(c)
<1>1. CASE readdir(c)
  <2>1. \A p \in DOMAIN fs : mapFilePathToUrl(fs, p) \in Ids /\ p \in Paths
    BY PathShape, NodesAre DEF FilesTyped, mapFilePathToUrl, Ids
  <2>2. entries'[c] \in SUBSET (Paths \X Ids) /\ entries' = [entries EXCEPT ![c] = entries'[c]]
    BY <1>1, <2>1 DEF readdir, CallsTyped, Visible, Contents
  <2> QED
    BY <1>1, <2>2
    DEF readdir, CallSteps, SameCall, CallsTyped, StepIsRight, Working, Outcomes, Pcs, Go, Touches
<1>2. CASE getChildMetadata(c)
  <2>1. pc[c] = "lstat" /\ UNCHANGED <<fs, link, old, seen, crashes>>
    BY <1>2 DEF getChildMetadata
  <2>2. CASE entries[c] = {} /\ Go(c, "done") /\ UNCHANGED <<entries, children>>
    BY <2>1, <2>2 DEF CallSteps, SameCall, CallsTyped, StepIsRight, Working, Outcomes, Pcs, Go
  <2>3. ASSUME NEW e \in entries[c], entries' = [entries EXCEPT ![c] = @ \ {e}],
               \/ UNCHANGED pc /\ children' = [children EXCEPT ![c] = @ \cup {e[2]}]
               \/ Go(c, "failed") /\ UNCHANGED children
        PROVE  CallSteps(c)
    <3>1. e[2] \in Ids
      BY <2>3 DEF CallsTyped
    <3>2. entries' \in [Calls -> SUBSET (Paths \X Ids)] /\ children' \in [Calls -> SUBSET Ids]
      BY <2>3, <3>1 DEF CallsTyped
    <3>3. pc'[c] \in {"lstat", "failed"} /\ pc' \in [Calls -> Pcs]
          /\ (\A d \in Calls \ {c} : pc'[d] = pc[d])
      BY <2>1, <2>3 DEF CallsTyped, Go, Pcs, Outcomes
    <3> QED
      BY <2>1, <2>3, <3>2, <3>3
      DEF CallSteps, SameCall, CallsTyped, StepIsRight, Working, Outcomes, Touches
  <2> QED
    BY <1>2, <2>2, <2>3 DEF getChildMetadata
<1> QED
  BY <1>1, <1>2

\* Every step of a call.
LEMMA StepCallSteps ==
  ASSUME FilesTyped, CallsTyped, NEW c \in Calls, StepIsRight(c), Step(c)
  PROVE  CallSteps(c)
<1> USE DEF files
<1>0. Starts(c) => Target[c] \in Names
  BY DEF Starts
<1>1. CASE begin(c)
  BY <1>1, GoCallSteps DEF begin, Pcs, Outcomes, Working
<1>2. CASE refuse(c)
  <2>1. Refused[Target[c]] \in {"notFound", "refused"}
    BY <1>2, CallsAssumption DEF refuse
  <2> DEFINE x == Refused[Target[c]]
  <2>2. Go(c, x) /\ pc[c] = "start" /\ UNCHANGED <<link, old, entries, children, seen, crashes>>
    BY <1>2 DEF refuse
  <2> HIDE DEF x
  <2> QED
    BY <2>1, <2>2, GoCallSteps DEF Pcs, Outcomes, Working, x
<1>3. CASE refuseType(c)
  BY <1>3, GoCallSteps DEF refuseType, Starts, Pcs, Outcomes, Working
<1>4. CASE verifyExistingExtension(c)
  BY <1>4, VerifyCallSteps
<1>5. CASE unlinkOld(c)
  <2>1. PICK x \in {"writeMetadata", "failed"} :
          Go(c, x) /\ pc[c] = "unlinkOld" /\ UNCHANGED <<link, old, entries, children, seen, crashes>>
    BY <1>5 DEF unlinkOld
  <2> QED
    BY <2>1, GoCallSteps DEF StepIsRight, Pcs, Outcomes, Working
<1>6. CASE openMetadata(c)
  <2>1. PICK x \in {"metadata", "failed"} :
          Go(c, x) /\ pc[c] = "writeMetadata" /\ UNCHANGED <<link, old, entries, children, seen, crashes>>
    BY <1>6 DEF openMetadata
  <2> QED
    BY <2>1, GoCallSteps DEF StepIsRight, Pcs, Outcomes, Working
<1>7. CASE metadataWritten(c) \/ removeMetadata(c)
  <2>1. PICK x \in {"openData", "done", "failed"} :
          /\ Go(c, x) /\ pc[c] \in {"metadata", "writeMetadata"}
          /\ x = "openData" => Kind[c] = "write"
          /\ UNCHANGED <<link, old, entries, children, seen, crashes>>
    BY <1>7 DEF metadataWritten, removeMetadata, AfterMetadata
  <2> QED
    BY <2>1, GoCallSteps DEF StepIsRight, Pcs, Outcomes, Working
<1>8. CASE openData(c)
  <2>1. PICK x \in {"data", "cleanUp"} :
          Go(c, x) /\ pc[c] = "openData" /\ UNCHANGED <<link, old, entries, children, seen, crashes>>
    BY <1>8 DEF openData
  <2> QED
    BY <2>1, GoCallSteps DEF StepIsRight, Pcs, Outcomes, Working
<1>9. CASE dataWritten(c) \/ cleanUp(c)
  <2>1. PICK x \in {"done", "failed"} :
          Go(c, x) /\ pc[c] \in {"data", "cleanUp"} /\ UNCHANGED <<link, old, entries, children, seen, crashes>>
    BY <1>9 DEF dataWritten, cleanUp
  <2> QED
    BY <2>1, GoCallSteps DEF StepIsRight, Pcs, Outcomes, Working
<1>10. CASE writeFails(c)
  <2>1. PICK x \in {"cleanUp", "failed"} :
          /\ Go(c, x) /\ pc[c] \in {"data", "metadata"} /\ (x = "cleanUp" => pc[c] = "data")
          /\ UNCHANGED <<link, old, entries, children, seen, crashes>>
    BY <1>10 DEF writeFails
  <2> QED
    BY <2>1, GoCallSteps DEF StepIsRight, Pcs, Outcomes, Working
<1>11. CASE mkdir(c)
  <2>1. PICK x \in {"writeMetadata", "failed"} :
          /\ Go(c, x) /\ Starts(c) /\ Kind[c] = "mkdir"
          /\ UNCHANGED <<link, old, entries, children, seen, crashes>>
    BY <1>11 DEF mkdir
  <2> QED
    BY <1>0, <2>1, GoCallSteps DEF Starts, Pcs, Outcomes, Working
<1>12. CASE mapUrlToFilePath(c)
  BY <1>12, MapCallSteps
<1>13. CASE getStats(c)
  <2>1. PICK x \in {"notFound", "failed", "unlinkOnly", "unlinkMetadata"} :
          /\ Go(c, x) /\ pc[c] = "stat" /\ Kind[c] \in {"delete", "rmdir"}
          /\ x = "unlinkOnly" => Kind[c] = "delete"
          /\ UNCHANGED <<link, old, entries, children, seen, crashes>>
    BY <1>13 DEF getStats, Missing
  <2> QED
    BY <2>1, GoCallSteps DEF StepIsRight, Pcs, Outcomes, Working
<1>14. CASE unlinkMetadata(c)
  <2>1. PICK x \in {"failed", "notFound", "remove"} :
          /\ Go(c, x) /\ pc[c] \in {"unlinkMetadata", "unlinkOnly"}
          /\ x = "remove" => pc[c] = "unlinkMetadata"
          /\ UNCHANGED <<link, old, entries, children, seen, crashes>>
    BY <1>14 DEF unlinkMetadata
  <2> QED
    BY <2>1, GoCallSteps DEF StepIsRight, Pcs, Outcomes, Working
<1>15. CASE remove(c)
  <2>1. PICK x \in {"failed", "done"} :
          /\ Go(c, x) /\ pc[c] = "remove"
          /\ UNCHANGED <<link, old, entries, children, seen, crashes>>
    BY <1>15 DEF remove
  <2> QED
    BY <2>1, GoCallSteps DEF StepIsRight, Pcs, Outcomes, Working
<1>16. CASE getMetadata(c)
  <2>1. PICK x \in {"readMetadata", "notFound", "failed"} :
          /\ Go(c, x) /\ pc[c] = "stat" /\ Kind[c] = "get"
          /\ UNCHANGED <<link, old, entries, children, seen, crashes>>
    BY <1>16 DEF getMetadata, Missing
  <2> QED
    BY <2>1, GoCallSteps DEF StepIsRight, Pcs, Outcomes, Working
<1>17. CASE getRawMetadata(c)
  <2> DEFINE m == IF Used(Meta(c)) THEN fs[Meta(c)] ELSE Nothing
  <2>1. m \in Nodes
    BY NodesAre DEF FilesTyped, Used
  <2>2. pc[c] = "readMetadata" /\ UNCHANGED <<fs, link, old, entries, children, crashes>>
        /\ \/ Go(c, "readData") /\ seen' = [seen EXCEPT ![c].meta = m]
           \/ Go(c, "failed") /\ UNCHANGED seen
    BY <1>17 DEF getRawMetadata
  <2> HIDE DEF m
  <2>3. seen' \in [Calls -> [meta : Nodes, data : Nodes]] /\ \A d \in Calls \ {c} : seen'[d] = seen[d]
    BY <2>1, <2>2 DEF CallsTyped
  <2> QED
    BY <2>2, <2>3 DEF CallSteps, SameCall, CallsTyped, StepIsRight, Working, Outcomes, Pcs, Go, Touches
<1>18. CASE getData(c)
  <2>1. PICK p \in ExistingPaths(Target[c]) :
          \/ IsFile(p) /\ Go(c, "done") /\ seen' = [seen EXCEPT ![c].data = fs[p]]
          \/ (Go(c, "notFound") \/ Go(c, "failed")) /\ UNCHANGED seen
    BY <1>18 DEF getData, Missing
  <2>2. pc[c] = "readData" /\ UNCHANGED <<fs, link, old, entries, children, crashes>>
    BY <1>18 DEF getData
  <2>3. seen' \in [Calls -> [meta : Nodes, data : Nodes]] /\ \A d \in Calls \ {c} : seen'[d] = seen[d]
    BY <2>1 DEF CallsTyped, IsFile, Used, FilesTyped
  <2> QED
    BY <2>1, <2>2, <2>3 DEF CallSteps, SameCall, CallsTyped, StepIsRight, Working, Outcomes, Pcs, Go, Touches
<1>19. CASE opendir(c)
  <2>1. PICK x \in {"readdir", "failed"} :
          /\ Go(c, x) /\ Starts(c) /\ Kind[c] = "list"
          /\ UNCHANGED <<link, old, entries, children, seen, crashes>>
    BY <1>19 DEF opendir
  <2> QED
    BY <1>0, <2>1, GoCallSteps DEF Starts, Pcs, Outcomes, Working
<1>20. CASE readdir(c) \/ getChildMetadata(c)
  <2>1. Target[c] \in Names
    BY <1>20 DEF readdir, getChildMetadata, StepIsRight, Working, Outcomes
  <2> QED
    BY <1>20, <2>1, ListCallSteps
<1>21. CASE refuseMetadata(c) \/ statFile(c) \/ deleteFile(c) \/ makeContainer(c)
  <2>1. PICK x \in {"refused", "found", "failed", "notFound", "done"} :
          /\ Go(c, x) /\ pc[c] \in {"start", "found"}
          /\ x = "found" => Kind[c] \in {"get", "delete", "rmdir"} /\ OnMetadata(c)
          /\ UNCHANGED <<link, old, entries, children, seen, crashes>>
    BY <1>21 DEF refuseMetadata, statFile, deleteFile, makeContainer, Missing
  <2> QED
    BY <2>1, GoCallSteps DEF Pcs, Outcomes
<1>22. CASE readFile(c)
  <2>1. \/ Suits(c) /\ Go(c, "done") /\ seen' = [seen EXCEPT ![c].data = fs[File(c)]]
        \/ (Go(c, "notFound") \/ Go(c, "failed")) /\ UNCHANGED seen
    BY <1>22 DEF readFile, Missing
  <2>2. pc[c] = "found" /\ UNCHANGED <<fs, link, old, entries, children, crashes>>
    BY <1>22 DEF readFile
  <2>3. seen' \in [Calls -> [meta : Nodes, data : Nodes]] /\ \A d \in Calls \ {c} : seen'[d] = seen[d]
    BY <2>1 DEF CallsTyped, Suits, Used, FilesTyped
  <2> QED
    BY <2>1, <2>2, <2>3 DEF CallSteps, SameCall, CallsTyped, StepIsRight, Working, Outcomes, Pcs, Go, Touches
<1> QED
  BY <1>1, <1>2, <1>3, <1>4, <1>5, <1>6, <1>7, <1>8, <1>9, <1>10, <1>11, <1>12, <1>13,
     <1>14, <1>15, <1>16, <1>17, <1>18, <1>19, <1>20, <1>21, <1>22 DEF Step

\* The steps of a request for a metadata file itself.
OnMetadataStep(c) ==
  refuseMetadata(c) \/ statFile(c) \/ deleteFile(c) \/ readFile(c) \/ makeContainer(c)

\* They are of no call that has a name as its target, and get it to no step of one.
LEMMA MetadataSteps ==
  ASSUME CallsTyped, NEW c \in Calls, StepIsRight(c), OnMetadataStep(c)
  PROVE  /\ OnMetadata(c) /\ pc[c] \in {"start", "found"}
         /\ pc'[c] \in {"refused", "found", "failed", "notFound", "done"}
         /\ pc'[c] = "done" => Kind[c] # "write"
<1>1. ASSUME NEW x, Go(c, x) PROVE pc'[c] = x
  BY <1>1 DEF Go, CallsTyped
<1>2. OnMetadata(c) /\ pc[c] \in {"start", "found"}
  BY DEF OnMetadataStep, refuseMetadata, statFile, deleteFile, readFile, makeContainer, StepIsRight
<1>3. \E x \in {"refused", "found", "failed", "notFound", "done"} :
        Go(c, x) /\ (x = "done" => Kind[c] # "write")
  BY DEF OnMetadataStep, refuseMetadata, statFile, deleteFile, readFile, makeContainer, Missing
<1> QED
  BY <1>1, <1>2, <1>3
-----------------------------------------------------------------------------
(* What a step changes of the files.                                       *)

\* A call writes a file, which is its document or the metadata of it.
WritesAt(c, p, node) ==
  /\ Put(p, node) /\ node \in Nodes /\ ~node.dir
  /\ p \in Paths /\ p[1] = Target[c] /\ IsDirectory(Folder(p)) /\ (Used(p) => IsFile(p))
  /\ p[2] = "dirMeta" \/ Kind[c] = "write"
  /\ p[2] \in DataForms => p = link[c]

\* It removes a file.
RemovesAt(c, p) ==
  /\ Unlink(p) /\ p \in Paths /\ p[1] = Target[c] /\ (Used(p) => IsFile(p))
  /\ p[2] = "dirMeta" \/ Changes(c)

\* It removes its directory, which is empty.
RemovesDirectory(c) ==
  /\ Kind[c] = "rmdir" /\ Unlink(<<Target[c], "plain">>)
  /\ IsDirectory(Target[c]) /\ Contents(Target[c]) = {}

\* It removes the metadata file, or the container with that name, that its
\* identifier is of.
RemovesMetadata(c) == OnMetadata(c) /\ Used(File(c)) /\ Unlink(File(c))

\* It makes the directories that there are not yet, each in one that there is
\* or that it makes.
Makes(c, P) ==
  /\ Make(P) /\ P \subseteq Paths
  /\ \A p \in P :
       /\ p[2] \in {"plain", "meta", "dirMeta"} /\ (p[1] = Root => p[2] = "dirMeta")
       /\ p[2] = "meta" => OnMetadata(c) /\ p = File(c)
       /\ \/ Folder(p) = Root
          \/ <<Folder(p), "plain">> \in P /\ ~IsFile(<<Folder(p), "plain">>)

FileEffect(c) ==
  \/ fs' = fs
  \/ /\ Target[c] \in Names
     /\ \/ \E p, node : WritesAt(c, p, node)
        \/ \E p : RemovesAt(c, p)
        \/ RemovesDirectory(c)
  \/ RemovesMetadata(c)
  \/ \E P : Makes(c, P)

\* The calls that have a file open are among those that wrote to it.
LEMMA WritersAreCalls ==
  ASSUME NEW p
  PROVE  /\ Writers(p) \subseteq Calls
         /\ \A d \in Writers(p) : IsFile(p) /\ d \in fs[p].by
BY DEF Writers

\* A file that is opened.
LEMMA OpenEffect ==
  ASSUME FilesTyped, NEW c \in Calls, Target[c] \in Names, NEW p \in Paths,
         p[1] = Target[c], p[2] = "dirMeta" \/ Kind[c] = "write",
         p[2] \in DataForms => p = link[c], CanOpen(p), Open(c, p)
  PROVE  FileEffect(c)
<1> DEFINE node == [by |-> {c} \cup Writers(p), dir |-> FALSE, whole |-> FALSE]
<1>1. node \in Nodes /\ ~node.dir
  BY WritersAreCalls DEF Nodes
<1>2. Put(p, node)
  BY DEF Open
<1> HIDE DEF node
<1>3. WritesAt(c, p, node)
  BY <1>1, <1>2 DEF WritesAt, CanOpen
<1> QED
  BY <1>3 DEF FileEffect

\* A file that is closed.
LEMMA CloseEffect ==
  ASSUME FilesTyped, FilesAreInDirectories, NEW c \in Calls, Target[c] \in Names,
         NEW p \in Paths,
         p[1] = Target[c], p[2] = "dirMeta" \/ Kind[c] = "write",
         p[2] \in DataForms => p = link[c], Close(c, p)
  PROVE  FileEffect(c)
<1>1. CASE c \in Writers(p)
  <2> DEFINE node == [fs[p] EXCEPT !.whole = Writers(p) = {c}]
  <2>1. IsFile(p) /\ p \in DOMAIN fs /\ ~fs[p].dir /\ fs[p] \in Nodes
    BY <1>1, WritersAreCalls DEF IsFile, Used, FilesTyped
  <2>2. node \in Nodes /\ ~node.dir
    BY <2>1 DEF Nodes
  <2>3. Put(p, node)
    BY <1>1 DEF Close
  <2>4. p = <<Root, "plain">> \/ IsDirectory(Folder(p))
    BY <2>1 DEF FilesAreInDirectories
  <2>5. p # <<Root, "plain">>
    BY <2>1 DEF FilesAreInDirectories
  <2> HIDE DEF node
  <2>6. WritesAt(c, p, node)
    BY <2>1, <2>2, <2>3, <2>4, <2>5 DEF WritesAt
  <2> QED
    BY <2>6 DEF FileEffect
<1>2. CASE c \notin Writers(p)
  BY <1>2 DEF Close, FileEffect
<1> QED
  BY <1>1, <1>2

\* A file that is removed.
LEMMA UnlinkEffect ==
  ASSUME NEW c \in Calls, Target[c] \in Names, NEW p \in Paths, p[1] = Target[c],
         p[2] = "dirMeta" \/ Changes(c), Used(p) => IsFile(p), Unlink(p)
  PROVE  FileEffect(c)
BY DEF FileEffect, RemovesAt

\* If a metadata file cannot be removed, there is none.
LEMMA CannotUnlink ==
  ASSUME FilesAreInDirectories, NEW p, p # <<Root, "plain">>, ~CanUnlink(p)
  PROVE  ~IsFile(p)
<1> SUFFICES ASSUME IsFile(p)
             PROVE  FALSE
  OBVIOUS
<1>1. InFile(p) /\ Used(p)
  BY DEF CanUnlink, IsFile
<1>2. IsDirectory(Folder(p))
  BY <1>1 DEF FilesAreInDirectories, Used
<1>3. PICK q : q = <<Folder(p), "plain">>
  OBVIOUS
<1>4. q \in DOMAIN fs /\ ~fs[q].dir
  BY <1>1, <1>3 DEF InFile, IsFile, Used
<1>5. Folder(p) = Root
  BY <1>2, <1>3, <1>4 DEF IsDirectory, Used
<1>6. q[1] = Root /\ q[2] = "plain"
  BY <1>3, <1>5
<1> QED
  BY <1>4, <1>6 DEF FilesAreInDirectories

\* What is removed as metadata.
LEMMA UnlinkMetaEffect ==
  ASSUME NEW c \in Calls, Target[c] \in Names, CanUnlink(Meta(c)), Unlink(Meta(c)),
         Kind[c] \in {"mkdir", "rmdir"} \/ Changes(c)
  PROVE  FileEffect(c)
<1>1. Meta(c) \in Paths /\ Meta(c)[1] = Target[c] /\ Meta(c)[2] \in {"meta", "dirMeta"}
      /\ (Kind[c] \in {"mkdir", "rmdir"} => Meta(c)[2] = "dirMeta")
  BY MetaPathIs
<1> DEFINE m == Meta(c)
<1>2. Unlink(m) /\ (Used(m) => IsFile(m))
  BY DEF CanUnlink
<1> HIDE DEF m
<1> QED
  BY <1>1, <1>2, UnlinkEffect DEF m

\* The directories above a name are above one another, and the name itself is
\* the last of them.
LEMMA ParentsAreAbove ==
  ASSUME NEW t \in Names, NEW m \in Above[t]
  PROVE  /\ t # Root /\ m \in Names \ {Root} /\ Parent[m] \in Names
         /\ Parent[m] # Root => Parent[m] \in Above[t] \ {t}
<1>1. t # Root /\ m \in Names \ {Root} /\ Parent[m] \in Names
  BY TreeAssumption, NamesAssumption
<1>2. Above[m] \subseteq Above[t] /\ Above[m] = {m} \cup Above[Parent[m]]
      /\ Above[t] = {t} \cup Above[Parent[t]] /\ t \notin Above[Parent[t]]
      /\ m \notin Above[Parent[m]]
  BY <1>1, TreeAssumption
<1>3. ASSUME Parent[m] # Root
      PROVE  Parent[m] \in Above[m] /\ Parent[m] \in Above[t]
  BY <1>1, <1>2, <1>3, TreeAssumption
<1>4. ASSUME Parent[m] = t
      PROVE  FALSE
  <2>1. t \in Above[m] /\ t \in Above[Parent[m]]
    BY <1>1, <1>2, <1>4
  <2>2. m \in Above[Parent[t]]
    BY <1>2, <1>4, <2>1
  <2>3. Parent[t] \in Names \ {Root}
    BY <1>1, <2>2, TreeAssumption, NamesAssumption
  <2>4. Above[m] \subseteq Above[Parent[t]]
    BY <2>2, <2>3, TreeAssumption
  <2> QED
    BY <1>2, <2>1, <2>4
<1> QED
  BY <1>1, <1>3, <1>4

\* The directories that are made above a name, none of which is a file.
LEMMA DirectoriesAbove ==
  ASSUME NEW t \in Names, \A m \in Above[t] \ {t} : ~IsFile(<<m, "plain">>),
         NEW p \in {<<m, "plain">> : m \in Above[t]}
  PROVE  /\ p \in Paths /\ p[2] = "plain" /\ p[1] # Root
         /\ \/ Folder(p) = Root
            \/ /\ <<Folder(p), "plain">> \in {<<m, "plain">> : m \in Above[t]}
               /\ ~IsFile(<<Folder(p), "plain">>)
<1>1. PICK m \in Above[t] : p = <<m, "plain">>
  OBVIOUS
<1>2. m \in Names \ {Root} /\ (Parent[m] # Root => Parent[m] \in Above[t] \ {t})
  BY ParentsAreAbove
<1>3. p \in Paths /\ p[1] = m /\ p[2] = "plain"
  BY <1>1, <1>2 DEF Paths
<1>4. Folder(p) = Parent[m]
  BY <1>1 DEF Folder
<1> QED
  BY <1>2, <1>3, <1>4

\* mkdir of a container with a name.
LEMMA MkdirEffect ==
  ASSUME NEW c \in Calls, mkdir(c)
  PROVE  FileEffect(c)
<1> DEFINE P == {<<m, "plain">> : m \in Above[Target[c]]}
<1>1. CASE fs' = fs
  BY <1>1 DEF FileEffect
<1>2. CASE fs' # fs
  <2>1. /\ Target[c] \in Names /\ Make(P)
        /\ \A m \in Above[Target[c]] \ {Target[c]} : ~IsFile(<<m, "plain">>)
    BY <1>2 DEF mkdir, Starts
  <2>2. ASSUME NEW p \in P
        PROVE  /\ p \in Paths /\ p[2] = "plain" /\ p[1] # Root
               /\ \/ Folder(p) = Root
                  \/ <<Folder(p), "plain">> \in P /\ ~IsFile(<<Folder(p), "plain">>)
    BY <2>1, DirectoriesAbove
  <2> HIDE DEF P
  <2>3. Makes(c, P)
    BY <2>1, <2>2 DEF Makes
  <2> QED
    BY <2>3 DEF FileEffect
<1> QED
  BY <1>1, <1>2

\* The requests for a metadata file itself.
LEMMA MetadataStepsEffect ==
  ASSUME CallsTyped, NEW c \in Calls, StepIsRight(c), OnMetadataStep(c)
  PROVE  FileEffect(c)
<1> USE DEF files
<1>1. CASE fs' = fs
  BY <1>1 DEF FileEffect
<1>2. OnMetadata(c)
  BY MetadataSteps
<1>3. CASE deleteFile(c) /\ fs' # fs
  BY <1>2, <1>3 DEF deleteFile, Suits, FileEffect, RemovesMetadata
<1>4. CASE makeContainer(c) /\ fs' # fs
  <2> DEFINE t == Folder(File(c))
             A == {<<m, "plain">> : m \in Above[t]}
             P == {File(c)} \cup A
  <2>1. Make(P) /\ \A m \in Above[t] : ~IsFile(<<m, "plain">>)
    BY <1>4 DEF makeContainer
  <2>2. /\ File(c) \in Paths /\ File(c)[2] \in {"meta", "dirMeta"} /\ t \in Names
        /\ File(c)[1] = Root => File(c)[2] = "dirMeta"
    BY <1>2, MetadataCall
  <2>3. ASSUME NEW p \in A
        PROVE  /\ p \in Paths /\ p[2] = "plain" /\ p[1] # Root
               /\ \/ Folder(p) = Root
                  \/ <<Folder(p), "plain">> \in A /\ ~IsFile(<<Folder(p), "plain">>)
    BY <2>1, <2>2, DirectoriesAbove
  <2>4. \/ t = Root
        \/ <<t, "plain">> \in A /\ ~IsFile(<<t, "plain">>)
    <3>1. t # Root => t \in Above[t]
      BY <2>2, TreeAssumption
    <3> QED
      BY <2>1, <3>1
  <2>5. PICK q : q = File(c) /\ t = Folder(q)
    OBVIOUS
  <2> HIDE DEF t, A
  <2>6. Makes(c, P)
    BY <1>2, <2>1, <2>2, <2>3, <2>4, <2>5 DEF Makes
  <2> QED
    BY <2>6 DEF FileEffect
<1> QED
  BY <1>1, <1>3, <1>4 DEF OnMetadataStep, refuseMetadata, statFile, readFile

\* The effects of every step.
LEMMA StepEffect ==
  ASSUME FilesTyped, CallsTyped, FilesAreInDirectories,
         NEW c \in Calls, StepIsRight(c), Step(c)
  PROVE  FileEffect(c)
<1> USE DEF files
<1> DEFINE m == Meta(c)
           l == link[c]
<1>1. CASE fs' = fs
  BY <1>1 DEF FileEffect
<1>2. CASE mkdir(c) \/ OnMetadataStep(c)
  BY <1>2, MkdirEffect, MetadataStepsEffect
<1>3. CASE Working(c) /\ Target[c] \in Names
  <2>1. m \in Paths /\ m[1] = Target[c] /\ m[2] \in {"meta", "dirMeta"} /\ m[2] \notin DataForms
        /\ (Kind[c] \in {"mkdir", "rmdir"} => m[2] = "dirMeta")
    BY <1>3, MetaPathIs
  <2>2. ASSUME Touches(c)
        PROVE  l \in Paths /\ l[1] = Target[c] /\ l[2] \in DataForms
    BY <1>3, <2>2, DataPath DEF StepIsRight
  <2>3. CASE unlinkOld(c)
    <3>1. /\ fs' = fs \/ (Unlink(old[c]) /\ IsFile(old[c]))
          /\ Kind[c] = "write" /\ pc[c] = "unlinkOld"
      BY <2>3 DEF unlinkOld, StepIsRight
    <3> DEFINE o == old[c]
    <3>2. o \in {Target[c]} \X DataForms
      BY <1>3, <3>1 DEF StepIsRight
    <3>3. o \in Paths /\ o[1] = Target[c]
      BY <1>3, <3>2, DataPath
    <3> HIDE DEF o
    <3> QED
      BY <1>1, <1>3, <3>1, <3>3, UnlinkEffect DEF Changes, o
  <2>4. CASE openMetadata(c) \/ metadataWritten(c)
    <3>1. Kind[c] \in {"write", "mkdir"}
      BY <2>4 DEF openMetadata, metadataWritten, StepIsRight
    <3>2. CASE openMetadata(c)
      <4>1. fs' = fs \/ (CanOpen(m) /\ Open(c, m))
        BY <3>2 DEF openMetadata
      <4> HIDE DEF m
      <4> QED
        BY <1>1, <1>3, <2>1, <3>1, <4>1, OpenEffect
    <3>3. CASE metadataWritten(c)
      <4>1. Close(c, m)
        BY <3>3 DEF metadataWritten
      <4> HIDE DEF m
      <4> QED
        BY <1>3, <2>1, <3>1, <4>1, CloseEffect
    <3> QED
      BY <2>4, <3>2, <3>3
  <2>5. CASE removeMetadata(c) \/ unlinkMetadata(c) \/ cleanUp(c)
    <3>1. Kind[c] \in {"mkdir", "rmdir"} \/ Changes(c)
      BY <2>5 DEF removeMetadata, unlinkMetadata, cleanUp, StepIsRight, Changes
    <3>2. fs' = fs \/ (CanUnlink(Meta(c)) /\ Unlink(Meta(c)))
      BY <2>5 DEF removeMetadata, unlinkMetadata, cleanUp
    <3> QED
      BY <1>1, <1>3, <3>1, <3>2, UnlinkMetaEffect
  <2>6. CASE openData(c) \/ dataWritten(c)
    <3>1. Kind[c] = "write" /\ Touches(c)
      BY <2>6 DEF openData, dataWritten, StepIsRight, Touches
    <3>2. fs' = fs \/ (CanOpen(l) /\ Open(c, l)) \/ Close(c, l)
      BY <2>6 DEF openData, dataWritten
    <3>3. l \in Paths /\ l[1] = Target[c]
      BY <2>2, <3>1
    <3>4. l = link[c]
      OBVIOUS
    <3> HIDE DEF l
    <3> QED
      BY <1>1, <1>3, <3>1, <3>2, <3>3, <3>4, OpenEffect, CloseEffect
  <2>7. CASE remove(c)
    <3>1. Kind[c] \in {"delete", "rmdir"} /\ Touches(c)
      BY <2>7 DEF remove, StepIsRight, Touches
    <3>2. CASE Kind[c] = "delete" /\ IsFile(l) /\ Unlink(l)
      <4>1. l \in Paths /\ l[1] = Target[c] /\ Changes(c)
        BY <2>2, <3>1, <3>2 DEF Changes
      <4> HIDE DEF l
      <4> QED
        BY <1>3, <3>2, <4>1, UnlinkEffect
    <3>3. CASE /\ Kind[c] = "rmdir" /\ IsDirectory(Target[c]) /\ Contents(Target[c]) = {}
               /\ Unlink(link[c])
      <4>1. link[c] = <<Target[c], "plain">>
        BY <1>3, <3>3 DEF StepIsRight
      <4> QED
        BY <1>3, <3>3, <4>1 DEF FileEffect, RemovesDirectory
    <3> QED
      BY <1>1, <2>7, <3>2, <3>3 DEF remove
  <2> QED
    BY <1>1, <1>3, <1>2, <2>3, <2>4, <2>5, <2>6, <2>7
    DEF Step, begin, refuse, refuseType, verifyExistingExtension, writeFails, mkdir,
        mapUrlToFilePath, getStats, getMetadata, getRawMetadata, getData, opendir, readdir,
        getChildMetadata, Starts, Working, OnMetadataStep
<1>4. ~mkdir(c) /\ ~OnMetadataStep(c) /\ fs' # fs => Working(c)
  BY DEF Step, begin, refuse, refuseType, verifyExistingExtension, unlinkOld, openMetadata,
    metadataWritten, removeMetadata, openData, dataWritten, writeFails, cleanUp,
    mapUrlToFilePath, getStats, unlinkMetadata, remove, getMetadata, getRawMetadata, getData,
    opendir, readdir, getChildMetadata, Starts, Working, Outcomes, OnMetadataStep
<1> QED
  BY <1>1, <1>3, <1>2, <1>4 DEF StepIsRight

\* What is at the paths once one of them is written.
LEMMA PutIs ==
  ASSUME NEW p, NEW node, Put(p, node)
  PROVE  /\ DOMAIN fs' = DOMAIN fs \cup {p} /\ fs'[p] = node
         /\ \A q \in DOMAIN fs \ {p} : fs'[q] = fs[q]
BY DEF Put

\* What is at the paths once one of them is removed.
LEMMA UnlinkIs ==
  ASSUME NEW p, Unlink(p)
  PROVE  /\ DOMAIN fs' = DOMAIN fs \ {p}
         /\ \A q \in DOMAIN fs \ {p} : fs'[q] = fs[q]
BY DEF Unlink

\* What is at the paths once the directories are made.
LEMMA MakesIs ==
  ASSUME NEW c \in Calls, NEW P, Makes(c, P)
  PROVE  /\ DOMAIN fs' = DOMAIN fs \cup P /\ P \subseteq Paths
         /\ \A q \in DOMAIN fs : fs'[q] = fs[q]
         /\ \A q \in P \ DOMAIN fs : fs'[q] = Directory
BY DEF Makes, Make, NewDirectories

\* A directory that is still there, and is one.
LEMMA StillDirectory ==
  ASSUME NEW n, IsDirectory(n),
         n # Root => <<n, "plain">> \in DOMAIN fs' /\ (fs'[<<n, "plain">>].dir <=> fs[<<n, "plain">>].dir)
  PROVE  IsDirectory(n)'
BY DEF IsDirectory, Used

\* The values of the files.
LEMMA FilesTypedStep ==
  ASSUME FilesTyped, NEW c \in Calls, FileEffect(c)
  PROVE  FilesTyped'
<1>1. CASE fs' = fs
  BY <1>1 DEF FilesTyped
<1>2. ASSUME NEW p, NEW node, WritesAt(c, p, node)
      PROVE  FilesTyped'
  <2>1. /\ DOMAIN fs' = DOMAIN fs \cup {p} /\ fs'[p] = node
        /\ \A q \in DOMAIN fs \ {p} : fs'[q] = fs[q]
        /\ p \in Paths /\ node \in Nodes
    BY <1>2, PutIs DEF WritesAt
  <2> QED
    BY <2>1 DEF FilesTyped
<1>3. ASSUME NEW p, Unlink(p)
      PROVE  FilesTyped'
  BY <1>3, UnlinkIs DEF FilesTyped
<1>4. ASSUME NEW P, Makes(c, P)
      PROVE  FilesTyped'
  <2>1. /\ DOMAIN fs' = DOMAIN fs \cup P /\ P \subseteq Paths
        /\ \A q \in DOMAIN fs : fs'[q] = fs[q]
        /\ \A q \in P \ DOMAIN fs : fs'[q] = Directory
    BY <1>4, MakesIs
  <2> QED
    BY <2>1, NodesAre DEF FilesTyped
<1> QED
  BY <1>1, <1>2, <1>3, <1>4 DEF FileEffect, RemovesAt, RemovesDirectory, RemovesMetadata

\* All there is stays in directories.
LEMMA DirectoriesStep ==
  ASSUME FilesTyped, FilesAreInDirectories, NEW c \in Calls, FileEffect(c)
  PROVE  FilesAreInDirectories'
<1> SUFFICES ASSUME NEW q \in DOMAIN fs'
             PROVE  /\ fs'[q].dir /\ q[2] \in DataForms => q[2] = "plain"
                    /\ q[1] = Root => q[2] = "dirMeta" \/ (q[2] = "plain" /\ fs'[q].dir)
                    /\ q = <<Root, "plain">> \/ IsDirectory(Folder(q))'
  BY DEF FilesAreInDirectories, Folder
<1>0. ASSUME q \in DOMAIN fs
      PROVE  /\ fs[q].dir /\ q[2] \in DataForms => q[2] = "plain"
             /\ q[1] = Root => q[2] = "dirMeta" \/ (q[2] = "plain" /\ fs[q].dir)
             /\ q = <<Root, "plain">> \/ IsDirectory(Folder(q))
  BY <1>0 DEF FilesAreInDirectories
<1>f. PICK f : f = Folder(q) /\ Folder(q)' = f
  BY DEF Folder
<1>1. CASE fs' = fs
  BY <1>0, <1>1, <1>f DEF IsDirectory, Used
<1>2. ASSUME NEW p, NEW node, WritesAt(c, p, node), Target[c] \in Names
      PROVE  /\ fs'[q].dir /\ q[2] \in DataForms => q[2] = "plain"
             /\ q[1] = Root => q[2] = "dirMeta" \/ (q[2] = "plain" /\ fs'[q].dir)
             /\ q = <<Root, "plain">> \/ IsDirectory(f)'
  <2>1. DOMAIN fs' = DOMAIN fs \cup {p} /\ fs'[p] = node /\ ~node.dir
        /\ \A r \in DOMAIN fs \ {p} : fs'[r] = fs[r]
    BY <1>2, PutIs DEF WritesAt
  <2>2. ASSUME NEW r \in DOMAIN fs
        PROVE  r \in DOMAIN fs' /\ (fs'[r].dir <=> fs[r].dir)
    BY <1>2, <2>1 DEF WritesAt, IsFile, Used
  <2>3. ASSUME NEW n, IsDirectory(n)
        PROVE  IsDirectory(n)'
    BY <2>2, <2>3 DEF IsDirectory, Used
  <2>4. CASE q = p
    <3>1. IsDirectory(Folder(p)) /\ (p[1] = Root => p[2] = "dirMeta")
      BY <1>2, CallsAssumption DEF WritesAt
    <3>2. IsDirectory(f)
      BY <1>f, <2>4, <3>1
    <3> QED
      BY <2>1, <2>3, <2>4, <3>1, <3>2
  <2>5. CASE q # p
    <3> QED
      BY <1>0, <1>f, <2>1, <2>3, <2>5
  <2> QED
    BY <2>4, <2>5
<1>3. ASSUME NEW p, RemovesAt(c, p)
      PROVE  /\ fs'[q].dir /\ q[2] \in DataForms => q[2] = "plain"
             /\ q[1] = Root => q[2] = "dirMeta" \/ (q[2] = "plain" /\ fs'[q].dir)
             /\ q = <<Root, "plain">> \/ IsDirectory(f)'
  <2>1. DOMAIN fs' = DOMAIN fs \ {p} /\ (\A r \in DOMAIN fs \ {p} : fs'[r] = fs[r])
        /\ (p \in DOMAIN fs => ~fs[p].dir)
    BY <1>3, UnlinkIs DEF RemovesAt, IsFile, Used
  <2>2. ASSUME NEW n, IsDirectory(n)
        PROVE  IsDirectory(n)'
    BY <2>1, <2>2 DEF IsDirectory, Used
  <2> QED
    BY <1>0, <1>f, <2>1, <2>2
<1>4. CASE RemovesDirectory(c) /\ Target[c] \in Names
  <2>1. /\ DOMAIN fs' = DOMAIN fs \ {<<Target[c], "plain">>}
        /\ \A r \in DOMAIN fs \ {<<Target[c], "plain">>} : fs'[r] = fs[r]
    BY <1>4, UnlinkIs DEF RemovesDirectory
  <2>2. q = <<Root, "plain">> \/ f # Target[c]
    BY <1>4, <1>f, <2>1 DEF RemovesDirectory, Contents
  <2>3. ASSUME NEW n, IsDirectory(n), n # Target[c]
        PROVE  IsDirectory(n)'
    BY <2>1, <2>3 DEF IsDirectory, Used
  <2> QED
    BY <1>0, <1>f, <2>1, <2>2, <2>3
<1>5. ASSUME NEW P, Makes(c, P)
      PROVE  /\ fs'[q].dir /\ q[2] \in DataForms => q[2] = "plain"
             /\ q[1] = Root => q[2] = "dirMeta" \/ (q[2] = "plain" /\ fs'[q].dir)
             /\ q = <<Root, "plain">> \/ IsDirectory(f)'
  <2>1. /\ DOMAIN fs' = DOMAIN fs \cup P
        /\ \A r \in DOMAIN fs : fs'[r] = fs[r]
        /\ \A r \in P \ DOMAIN fs : fs'[r] = Directory
    BY <1>5, MakesIs
  <2>2. ASSUME NEW n, IsDirectory(n)
        PROVE  IsDirectory(n)'
    BY <2>1, <2>2 DEF IsDirectory, Used
  <2>3. CASE q \in P \ DOMAIN fs
    <3>1. /\ q[2] \in {"plain", "meta", "dirMeta"} /\ (q[1] = Root => q[2] = "dirMeta")
          /\ f = Root \/ (<<f, "plain">> \in P /\ ~IsFile(<<f, "plain">>))
      BY <1>5, <1>f, <2>3 DEF Makes
    <3>2. q[2] \in DataForms => q[2] = "plain"
      BY <3>1, FormsDiffer
    <3>3. CASE <<f, "plain">> \in P /\ ~IsFile(<<f, "plain">>)
      <4>1. PICK r : r = <<f, "plain">>
        OBVIOUS
      <4>2. r \in DOMAIN fs => fs[r].dir
        BY <3>3, <4>1 DEF IsFile, Used
      <4>3. r \in DOMAIN fs' /\ fs'[r].dir
        BY <2>1, <3>3, <4>1, <4>2, NodesAre
      <4>4. IsDirectory(f)'
        BY <4>1, <4>3 DEF IsDirectory, Used
      <4> QED
        BY <3>1, <3>2, <4>4
    <3>4. CASE f = Root
      BY <3>1, <3>2, <3>4 DEF IsDirectory
    <3> QED
      BY <3>1, <3>3, <3>4
  <2>4. CASE q \in DOMAIN fs
    <3> QED
      BY <1>0, <1>f, <2>1, <2>2, <2>4
  <2> QED
    BY <2>1, <2>3, <2>4
<1>6. CASE RemovesMetadata(c)
  <2>1. File(c)[2] # "plain"
    BY <1>6, MetadataCall DEF RemovesMetadata
  <2>2. DOMAIN fs' = DOMAIN fs \ {File(c)} /\ \A r \in DOMAIN fs \ {File(c)} : fs'[r] = fs[r]
    BY <1>6, UnlinkIs DEF RemovesMetadata
  <2>3. ASSUME NEW n, IsDirectory(n)
        PROVE  IsDirectory(n)'
    <3>1. PICK r : r = <<n, "plain">>
      OBVIOUS
    <3>2. r # File(c)
      BY <2>1, <3>1
    <3> QED
      BY <2>2, <2>3, <3>1, <3>2 DEF IsDirectory, Used
  <2> QED
    BY <1>0, <1>f, <2>2, <2>3
<1> QED
  BY <1>1, <1>2, <1>3, <1>4, <1>5, <1>6, <1>f DEF FileEffect
-----------------------------------------------------------------------------
(* What a step changes of the history.                                     *)

\* A write ends well; a change is cut off.
Finishes(c) == Ends(c) /\ Kind[c] = "write" /\ pc'[c] = "done"
CutOff(c) == Ends(c) /\ Changes(c) /\ pc'[c] # "done" /\ pc[c] \notin {"start", "stat"}

\* A write puts the metadata right; a request for the metadata of a document
\* as a resource itself changes the files.
Rewrites(c) ==
  Kind[c] = "write" /\ pc[c] = "writeMetadata" /\ pc'[c] \in {"metadata", "openData"}
Strips(c, n) == OnMetadata(c) /\ File(c) = <<n, "meta">> /\ fs' # fs

\* The history after a step of a call.
HistoryIs(c) ==
  /\ overlapped \subseteq overlapped' /\ overlapped' \subseteq overlapped \cup {Target[c]}
  /\ \A d \in Calls \ {c} :
       Begins(c) /\ Running(d) /\ Target[d] = Target[c] /\ Touches(c) /\ Touches(d)
                 /\ (Changes(c) \/ Changes(d))
       => Target[c] \in overlapped'
  /\ \A n : n \in DOMAIN acked' <=> \/ n \in DOMAIN acked /\ ~(Begins(c) /\ Changes(c) /\ n = Target[c])
                                    \/ Finishes(c) /\ n = Target[c]
  /\ \A n \in DOMAIN acked' : acked'[n] = IF Finishes(c) /\ n = Target[c] THEN c ELSE acked[n]
  /\ \A t : t \in torn' <=> \/ t \in torn /\ ~(Finishes(c) /\ t[1] = Target[c])
                            \/ CutOff(c) /\ t = <<Target[c], pc[c]>>
  /\ \A n \in stripped' : n \in stripped \/ (OnMetadata(c) /\ n = File(c)[1])
  /\ \A n \in stripped : n \in stripped' \/ (Rewrites(c) /\ n = Target[c])
  /\ \A n : Strips(c, n) => n \in stripped'

\* A call crashes with the server only, and a write is done with its data.
LEMMA OutcomeOfStep ==
  ASSUME CallsTyped, NEW c \in Calls, StepIsRight(c), Step(c)
  PROVE  /\ pc'[c] # "crashed"
         /\ Kind[c] = "write" /\ pc'[c] = "done" => dataWritten(c) \/ pc[c] = "done"
<1>1. ASSUME NEW x, Go(c, x) PROVE pc'[c] = x
  BY <1>1 DEF Go, CallsTyped
<1>2. CASE refuse(c)
  BY <1>1, <1>2, CallsAssumption DEF refuse
<1>3. CASE getChildMetadata(c)
  BY <1>1, <1>3 DEF getChildMetadata, StepIsRight
<1>4. CASE OnMetadataStep(c)
  BY <1>4, MetadataSteps
<1> QED
  BY <1>1, <1>2, <1>3, <1>4
  DEF StepIsRight, Step, begin, refuseType, verifyExistingExtension, unlinkOld, openMetadata,
    metadataWritten, removeMetadata, openData, dataWritten, writeFails, cleanUp, mkdir,
    mapUrlToFilePath, getStats, unlinkMetadata, remove, getMetadata, getRawMetadata, getData,
    opendir, readdir, AfterMetadata, Missing, OnMetadataStep

\* What is remembered of the metadata, from its definition.
LEMMA StepMetadataHistory ==
  ASSUME CallsTyped, NEW c \in Calls, StepIsRight(c), Step(c), CallSteps(c), RememberMetadata
  PROVE  /\ \A n \in stripped' : n \in stripped \/ (OnMetadata(c) /\ n = File(c)[1])
         /\ \A n \in stripped : n \in stripped' \/ (Rewrites(c) /\ n = Target[c])
         /\ \A n : Strips(c, n) => n \in stripped'
<1> DEFINE rewritten == {d \in Calls : /\ Kind[d] = "write" /\ pc[d] = "writeMetadata"
                                       /\ pc'[d] \in {"metadata", "openData"}}
           changed == {d \in Calls : /\ OnMetadata(d) /\ File(d)[2] = "meta"
                                     /\ pc'[d] # pc[d] /\ fs' # fs}
<1>1. stripped' = (stripped \ {Target[d] : d \in rewritten}) \cup {File(d)[1] : d \in changed}
  BY DEF RememberMetadata
<1>2. \A d \in Calls \ {c} : pc'[d] = pc[d]
  BY DEF CallSteps, SameCall
<1>3. \A d : d \in rewritten => d = c /\ Rewrites(c)
  BY <1>2 DEF Rewrites
<1>4. \A d : d \in changed => d = c /\ OnMetadata(c)
  BY <1>2
<1>5. ASSUME NEW n, Strips(c, n)
      PROVE  c \in changed /\ File(c)[1] = n
  <2>1. OnMetadata(c) /\ File(c) = <<n, "meta">> /\ fs' # fs
    BY <1>5 DEF Strips
  <2>2. pc[c] = "found" => Kind[c] \in {"get", "delete", "rmdir"}
    BY DEF StepIsRight
  <2>3. ~Working(c)
    BY <2>1, MetadataCall DEF StepIsRight
  <2>4. pc'[c] # pc[c]
    <3>1. pc[c] \in {"idle", "start", "found"}
      BY <2>3 DEF Working, CallSteps
    <3>2. CASE OnMetadataStep(c)
      <4>1. pc'[c] # "start"
        BY <3>2, MetadataSteps
      <4>2. pc[c] = "found" => pc'[c] # "found"
        <5> SUFFICES ASSUME pc[c] = "found"
                     PROVE  pc'[c] # "found"
          OBVIOUS
        <5>1. deleteFile(c)
          BY <2>1, <3>2
          DEF OnMetadataStep, refuseMetadata, statFile, readFile, makeContainer, files
        <5>2. Go(c, "done") \/ Go(c, "failed")
          BY <5>1 DEF deleteFile
        <5> QED
          BY <5>2 DEF Go, CallsTyped
      <4> QED
        BY <3>2, <4>1, <4>2, MetadataSteps
    <3>3. CASE ~OnMetadataStep(c)
      <4>1. ~Starts(c) /\ ~refuse(c) /\ ~begin(c)
        BY <2>1, MetadataCall DEF Starts, refuse, begin, files
      <4> QED
        BY <3>1, <3>3, <4>1
        DEF Step, OnMetadataStep, refuseType, verifyExistingExtension, unlinkOld, openMetadata,
          metadataWritten, removeMetadata, openData, dataWritten, writeFails, cleanUp, mkdir,
          mapUrlToFilePath, getStats, unlinkMetadata, remove, getMetadata, getRawMetadata,
          getData, opendir, readdir, getChildMetadata
    <3> QED
      BY <3>2, <3>3
  <2> QED
    BY <2>1, <2>4
<1> HIDE DEF rewritten, changed
<1> QED
  BY <1>1, <1>3, <1>4, <1>5

\* The history after a step, from the definitions of the variables.
LEMMA StepHistory ==
  ASSUME CallsTyped, NEW c \in Calls, StepIsRight(c), Step(c), CallSteps(c),
         pc'[c] # "crashed", RememberWrites, RememberMetadata
  PROVE  HistoryIs(c)
<1>1. \A d \in Calls \ {c} : ~Begins(d) /\ ~Ends(d)
  BY DEF CallSteps, SameCall, Begins, Ends, Running
<1> DEFINE begun == {Target[d] : d \in {e \in Calls : Begins(e) /\ Changes(e)}}
           done == {d \in Calls : Ends(d) /\ Kind[d] = "write" /\ pc'[d] = "done"}
           cut == {d \in Calls : Ends(d) /\ Changes(d)
                                   /\ pc'[d] # "done" /\ pc[d] \notin {"start", "stat"}}
           over == {Target[d] : d \in {x \in Calls : Begins(x) /\ Touches(x) /\
              \E e \in Calls \ {x} : /\ Running(e) /\ Target[e] = Target[x] /\ Touches(e)
                                     /\ Changes(x) \/ Changes(e)}}
<1>2. /\ acked' = [n \in (DOMAIN acked \ begun) \cup {Target[d] : d \in done} |->
                     IF \E d \in done : Target[d] = n
                     THEN CHOOSE d \in done : Target[d] = n ELSE acked[n]]
      /\ overlapped' = overlapped \cup over
      /\ torn' = {t \in torn : \A d \in done : Target[d] # t[1]}
           \cup {<<Target[d], IF pc'[d] = "crashed" THEN "crashed" ELSE pc[d]>> : d \in cut}
  BY DEF RememberWrites
<1>3. \A d : d \in done <=> d = c /\ Finishes(c)
  BY <1>1 DEF Finishes
<1>4. \A d : d \in cut <=> d = c /\ CutOff(c)
  BY <1>1 DEF CutOff
<1>5. \A n : n \in begun <=> Begins(c) /\ Changes(c) /\ n = Target[c]
  BY <1>1
<1>6. \A n : n \in over => n = Target[c]
  BY <1>1
<1>7. ASSUME NEW d \in Calls \ {c}, Begins(c), Running(d), Target[d] = Target[c],
             Touches(c), Touches(d), Changes(c) \/ Changes(d)
      PROVE  Target[c] \in over
  BY <1>7
<1> HIDE DEF begun, done, cut, over
<1>8. /\ \A n : n \in DOMAIN acked' <=>
             \/ n \in DOMAIN acked /\ ~(Begins(c) /\ Changes(c) /\ n = Target[c])
             \/ Finishes(c) /\ n = Target[c]
  BY <1>2, <1>3, <1>5
<1>9. ASSUME NEW n \in DOMAIN acked'
      PROVE  acked'[n] = IF Finishes(c) /\ n = Target[c] THEN c ELSE acked[n]
  <2>1. acked'[n] = IF \E d \in done : Target[d] = n
                    THEN CHOOSE d \in done : Target[d] = n ELSE acked[n]
    BY <1>2
  <2>2. CASE Finishes(c) /\ n = Target[c]
    <3>1. \E d \in done : Target[d] = n
      BY <1>3, <2>2
    <3>2. (CHOOSE d \in done : Target[d] = n) \in done
      BY <3>1
    <3> QED
      BY <1>3, <2>1, <2>2, <3>1, <3>2
  <2>3. CASE ~(Finishes(c) /\ n = Target[c])
    BY <1>3, <2>1, <2>3
  <2> QED
    BY <2>2, <2>3
<1>10. \A t : t \in torn' <=> \/ t \in torn /\ ~(Finishes(c) /\ t[1] = Target[c])
                              \/ CutOff(c) /\ t = <<Target[c], pc[c]>>
  BY <1>2, <1>3, <1>4
<1> QED
  BY <1>2, <1>6, <1>7, <1>8, <1>9, <1>10, StepMetadataHistory DEF HistoryIs

\* After a crash: the changes under way were cut off.
LEMMA CrashHistory ==
  ASSUME CallsTyped, crash, RememberWrites
  PROVE  /\ overlapped' = overlapped
         /\ DOMAIN acked' = DOMAIN acked /\ \A n \in DOMAIN acked : acked'[n] = acked[n]
         /\ torn \subseteq torn'
         /\ \A t \in torn' : t \in torn \/ \E c \in Calls : t = <<Target[c], "crashed">>
         /\ \A c \in Calls : Running(c) /\ Changes(c) /\ pc[c] \notin {"start", "stat"} =>
              <<Target[c], "crashed">> \in torn'
<1> DEFINE begun == {Target[d] : d \in {e \in Calls : Begins(e) /\ Changes(e)}}
           done == {d \in Calls : Ends(d) /\ Kind[d] = "write" /\ pc'[d] = "done"}
           cut == {d \in Calls : Ends(d) /\ Changes(d)
                                   /\ pc'[d] # "done" /\ pc[d] \notin {"start", "stat"}}
           over == {Target[d] : d \in {x \in Calls : Begins(x) /\ Touches(x) /\
              \E e \in Calls \ {x} : /\ Running(e) /\ Target[e] = Target[x] /\ Touches(e)
                                     /\ Changes(x) \/ Changes(e)}}
<1>1. /\ acked' = [n \in (DOMAIN acked \ begun) \cup {Target[d] : d \in done} |->
                     IF \E d \in done : Target[d] = n
                     THEN CHOOSE d \in done : Target[d] = n ELSE acked[n]]
      /\ overlapped' = overlapped \cup over
      /\ torn' = {t \in torn : \A d \in done : Target[d] # t[1]}
           \cup {<<Target[d], IF pc'[d] = "crashed" THEN "crashed" ELSE pc[d]>> : d \in cut}
  BY DEF RememberWrites
<1>2. \A d \in Calls : pc'[d] = IF Running(d) THEN "crashed" ELSE pc[d]
  BY DEF crash
<1>3. \A d \in Calls : ~Begins(d) /\ (Ends(d) <=> Running(d)) /\ (Ends(d) => pc'[d] = "crashed")
  BY <1>2 DEF Begins, Ends, Running, Outcomes
<1>4. begun = {} /\ done = {} /\ over = {}
  BY <1>3
<1>5. \A d \in Calls : d \in cut <=> Running(d) /\ Changes(d) /\ pc[d] \notin {"start", "stat"}
  BY <1>3
<1>6. cut \subseteq Calls /\ \A d \in cut : pc'[d] = "crashed"
  BY <1>3
<1> HIDE DEF begun, done, cut, over
<1> QED
  BY <1>1, <1>4, <1>5, <1>6

\* And no metadata was changed.
LEMMA CrashMetadataHistory ==
  ASSUME crash, RememberMetadata
  PROVE  stripped' = stripped
<1>1. \A c \in Calls : pc'[c] \in {"crashed", pc[c]}
  BY DEF crash
<1>2. fs' = fs
  BY DEF crash, files
<1> QED
  BY <1>1, <1>2 DEF RememberMetadata

\* What a listing remembers are identifiers.
LEMMA ListingHistoryTyped ==
  ASSUME FilesTyped', always \in [Calls -> SUBSET Ids], ever \in [Calls -> SUBSET Ids],
         RememberListings
  PROVE  always' \in [Calls -> SUBSET Ids] /\ ever' \in [Calls -> SUBSET Ids]
<1>1. ASSUME NEW p \in DOMAIN fs'
      PROVE  mapFilePathToUrl(fs', p) \in Ids
  <2>1. p \in Paths /\ fs'[p] \in Nodes
    BY DEF FilesTyped
  <2> QED
    BY <2>1, PathShape, NodesAre DEF mapFilePathToUrl, Ids
<1>2. \A n : Members(fs', n) \subseteq Ids
  BY <1>1 DEF Members
<1> QED
  BY <1>2 DEF RememberListings

\* The values of the history.
LEMMA HistoryTypedStep ==
  ASSUME FilesTyped', CallsTyped, HistoryTyped, RememberListings,
         NEW c \in Calls, StepIsRight(c), Step(c), HistoryIs(c)
  PROVE  HistoryTyped'
<1>1. Target[c] \in Names \cup Unnamed
  BY CallsAssumption
<1>2. Finishes(c) => Target[c] \in Names
  BY OutcomeOfStep DEF Finishes, Ends, Running, dataWritten, StepIsRight, Working, Outcomes
<1>3. always' \in [Calls -> SUBSET Ids] /\ ever' \in [Calls -> SUBSET Ids]
  BY ListingHistoryTyped DEF HistoryTyped
<1>4. DOMAIN acked' \subseteq Names /\ \A n \in DOMAIN acked' : acked'[n] \in Calls
  BY <1>2 DEF HistoryIs, HistoryTyped
<1>5. overlapped' \subseteq Names \cup Unnamed
  BY <1>1 DEF HistoryIs, HistoryTyped
<1>6. torn' \subseteq (Names \cup Unnamed) \X Pcs
  <2>1. CutOff(c) => pc[c] \in Pcs
    BY DEF CallsTyped
  <2> QED
    BY <1>1, <2>1 DEF HistoryIs, HistoryTyped
<1>7. stripped' \subseteq Names
  BY MetadataCall DEF HistoryIs, HistoryTyped
<1> QED
  BY <1>3, <1>4, <1>5, <1>6, <1>7 DEF HistoryTyped

\* The values of the history after a crash.
LEMMA HistoryTypedCrash ==
  ASSUME FilesTyped', CallsTyped, HistoryTyped, RememberListings, RememberWrites,
         RememberMetadata, crash
  PROVE  HistoryTyped'
<1>1. always' \in [Calls -> SUBSET Ids] /\ ever' \in [Calls -> SUBSET Ids]
  BY ListingHistoryTyped DEF HistoryTyped
<1>2. \A c \in Calls : <<Target[c], "crashed">> \in (Names \cup Unnamed) \X Pcs
  BY CallsAssumption DEF Pcs, Outcomes
<1> QED
  BY <1>1, <1>2, CrashHistory, CrashMetadataHistory DEF HistoryTyped

-----------------------------------------------------------------------------
(* What a step leaves alone.                                               *)

\* The data files of a document are what they were, and its metadata may be gone.
SameFiles(n) ==
  /\ \A p \in Paths : p[1] = n /\ p[2] \in DataForms =>
       (IsFile(p)' <=> IsFile(p)) /\ (IsFile(p) => fs'[p] = fs[p])
  /\ IsFile(<<n, "meta">>)' => IsFile(<<n, "meta">>)

\* The metadata of a document is what it was.
SameMetadata(n) ==
  /\ Used(<<n, "meta">>)' <=> Used(<<n, "meta">>)
  /\ Used(<<n, "meta">>) => fs'[<<n, "meta">>] = fs[<<n, "meta">>]

\* A directory with a name is still there.
DirectoryStays(n) ==
  <<n, "plain">> \in DOMAIN fs /\ fs[<<n, "plain">>].dir =>
    <<n, "plain">> \in DOMAIN fs' /\ fs'[<<n, "plain">>].dir

\* Only a write or a deletion of a document, or a request for its metadata file
\* itself, changes its files, and only the deletion of a container removes a directory.
LEMMA FileEffectIsLocal ==
  ASSUME FilesTyped, FilesAreInDirectories, NEW c \in Calls, FileEffect(c), NEW n \in Names
  PROVE  /\ ~(Changes(c) /\ Target[c] = n) =>
              SameFiles(n) /\ (SameMetadata(n) \/ Strips(c, n))
         /\ ~(Kind[c] = "rmdir" /\ Target[c] = n) => DirectoryStays(n)
<1>m. PICK m : m = <<n, "meta">> /\ m[1] = n /\ m[2] = "meta" /\ m \in Paths
  BY FormsDiffer DEF Forms
<1>p. PICK d : d = <<n, "plain">> /\ d[1] = n /\ d[2] = "plain" /\ d \in Paths
  BY FormsDiffer DEF Forms
<1>1. CASE fs' = fs
  BY <1>1 DEF SameFiles, SameMetadata, DirectoryStays, IsFile, Used
<1>2. ASSUME NEW p, NEW node, WritesAt(c, p, node)
      PROVE  /\ ~(Changes(c) /\ Target[c] = n) => SameFiles(n) /\ SameMetadata(n)
             /\ DirectoryStays(n)
  <2>1. /\ DOMAIN fs' = DOMAIN fs \cup {p} /\ fs'[p] = node /\ ~node.dir
        /\ \A q \in DOMAIN fs \ {p} : fs'[q] = fs[q]
        /\ (p \in DOMAIN fs => ~fs[p].dir) /\ p[1] = Target[c]
        /\ p[2] = "dirMeta" \/ Kind[c] = "write"
    BY <1>2, PutIs DEF WritesAt, IsFile, Used
  <2>2. ASSUME ~(Changes(c) /\ Target[c] = n)
        PROVE  \A q : q[1] = n /\ q[2] # "dirMeta" => q # p
    BY <2>1, <2>2 DEF Changes
  <2>3. ASSUME ~(Changes(c) /\ Target[c] = n)
        PROVE  SameFiles(n) /\ SameMetadata(n)
    BY <1>m, <2>1, <2>2, <2>3, FormsDiffer DEF SameFiles, SameMetadata, IsFile, Used
  <2>4. DirectoryStays(n)
    BY <2>1 DEF DirectoryStays
  <2> QED
    BY <2>3, <2>4
<1>3. ASSUME NEW p, RemovesAt(c, p)
      PROVE  /\ ~(Changes(c) /\ Target[c] = n) => SameFiles(n) /\ SameMetadata(n)
             /\ DirectoryStays(n)
  <2>1. /\ DOMAIN fs' = DOMAIN fs \ {p} /\ \A q \in DOMAIN fs \ {p} : fs'[q] = fs[q]
        /\ (p \in DOMAIN fs => ~fs[p].dir) /\ p[1] = Target[c]
        /\ p[2] = "dirMeta" \/ Changes(c)
    BY <1>3, UnlinkIs DEF RemovesAt, IsFile, Used
  <2>2. ASSUME ~(Changes(c) /\ Target[c] = n)
        PROVE  SameFiles(n) /\ SameMetadata(n)
    BY <1>m, <2>1, <2>2, FormsDiffer DEF SameFiles, SameMetadata, IsFile, Used
  <2>3. DirectoryStays(n)
    BY <2>1 DEF DirectoryStays
  <2> QED
    BY <2>2, <2>3
<1>4. CASE RemovesDirectory(c) /\ Target[c] \in Names
  <2>0. PICK p : p = <<Target[c], "plain">>
    OBVIOUS
  <2>1. p = <<Target[c], "plain">> /\ p[1] = Target[c] /\ p[2] = "plain"
    BY <2>0
  <2>2. /\ DOMAIN fs' = DOMAIN fs \ {p} /\ \A q \in DOMAIN fs \ {p} : fs'[q] = fs[q]
        /\ Kind[c] = "rmdir"
    BY <1>4, <2>1, UnlinkIs DEF RemovesDirectory
  <2>3. p \in DOMAIN fs => fs[p].dir
    BY <1>4, <2>1 DEF RemovesDirectory, IsDirectory, Used, FilesAreInDirectories
  <2>4. SameFiles(n) /\ SameMetadata(n)
    BY <1>m, <2>1, <2>2, <2>3 DEF SameFiles, SameMetadata, IsFile, Used
  <2>5. Target[c] # n => DirectoryStays(n)
    BY <1>p, <2>1, <2>2 DEF DirectoryStays
  <2> QED
    BY <2>2, <2>4, <2>5
<1>5. ASSUME NEW P, Makes(c, P)
      PROVE  SameFiles(n) /\ (SameMetadata(n) \/ Strips(c, n)) /\ DirectoryStays(n)
  <2>1. /\ DOMAIN fs' = DOMAIN fs \cup P
        /\ \A r \in DOMAIN fs : fs'[r] = fs[r]
        /\ \A r \in P \ DOMAIN fs : fs'[r].dir
    BY <1>5, MakesIs, NodesAre
  <2>2. SameFiles(n) /\ DirectoryStays(n)
    BY <2>1 DEF SameFiles, DirectoryStays, IsFile, Used
  <2>3. CASE m \in P \ DOMAIN fs
    <3>1. OnMetadata(c) /\ m = File(c)
      BY <1>5, <1>m, <2>3 DEF Makes
    <3>2. fs' # fs
      BY <2>1, <2>3
    <3> QED
      BY <1>m, <2>2, <3>1, <3>2 DEF Strips
  <2>4. CASE m \notin P \ DOMAIN fs
    BY <1>m, <2>1, <2>2, <2>4 DEF SameMetadata, Used
  <2> QED
    BY <2>3, <2>4
<1>6. CASE RemovesMetadata(c)
  <2>1. PICK r : r = File(c) /\ r[2] \in {"meta", "dirMeta"} /\ r[2] \notin DataForms
    BY <1>6, MetadataCall DEF RemovesMetadata
  <2>2. /\ DOMAIN fs' = DOMAIN fs \ {r} /\ \A q \in DOMAIN fs \ {r} : fs'[q] = fs[q]
        /\ r \in DOMAIN fs
    BY <1>6, <2>1, UnlinkIs DEF RemovesMetadata, Used
  <2>3. SameFiles(n)
    BY <1>m, <2>1, <2>2 DEF SameFiles, IsFile, Used
  <2>4. DirectoryStays(n)
    BY <1>p, <2>1, <2>2, FormsDiffer DEF DirectoryStays
  <2>5. CASE r = m
    <3>1. fs' # fs
      BY <2>2
    <3> QED
      BY <1>6, <1>m, <2>1, <2>3, <2>4, <2>5, <3>1 DEF Strips, RemovesMetadata
  <2>6. CASE r # m
    BY <1>m, <2>2, <2>3, <2>4, <2>6 DEF SameMetadata, Used
  <2> QED
    BY <2>5, <2>6
<1> QED
  BY <1>1, <1>2, <1>3, <1>4, <1>5, <1>6 DEF FileEffect
-----------------------------------------------------------------------------
(* Overlaps.                                                               *)

\* A call that takes a step is running, or begins with it.
LEMMA RunningOrBegins ==
  ASSUME NEW c \in Calls, CallSteps(c)
  PROVE  /\ Running(c) \/ (Begins(c) /\ pc[c] = "idle" /\ pc'[c] = "start")
         /\ Running(c)' => Running(c) \/ Begins(c)
BY DEF CallSteps, Running, Begins

\* Who begins while another one is running is seen.
LEMMA OverlapsStep ==
  ASSUME OverlapsAreSeen, NEW c \in Calls, CallSteps(c), HistoryIs(c)
  PROVE  OverlapsAreSeen'
<1> SUFFICES ASSUME NEW a \in Calls, NEW b \in Calls,
                    a # b, Running(a)', Running(b)', Target[a] = Target[b],
                    Touches(a), Touches(b), Changes(a) \/ Changes(b)
             PROVE  Target[a] \in overlapped'
  BY DEF OverlapsAreSeen, Touches, Changes
<1>1. \A d \in Calls \ {c} : Running(d)' <=> Running(d)
  BY DEF CallSteps, SameCall, Running
<1>2. CASE Running(a) /\ Running(b)
  BY <1>2 DEF OverlapsAreSeen, HistoryIs
<1>3. CASE a = c /\ Begins(c)
  BY <1>1, <1>3 DEF HistoryIs
<1>4. CASE b = c /\ Begins(c)
  BY <1>1, <1>4 DEF HistoryIs
<1> QED
  BY <1>1, <1>2, <1>3, <1>4, RunningOrBegins

\* No call is running after a crash.
LEMMA OverlapsCrash ==
  ASSUME crash
  PROVE  \A c \in Calls : ~Running(c)'
BY DEF crash, Running, Outcomes

\* No other call touches a document that one is changing.
LEMMA ChangesAlone ==
  ASSUME OverlapsAreSeen, NEW c \in Calls, CallSteps(c), HistoryIs(c),
         Target[c] \notin overlapped', NEW d \in Calls \ {c}, Running(d), Touches(d), Touches(c),
         Changes(c) \/ Changes(d)
  PROVE  Target[d] # Target[c]
BY RunningOrBegins DEF OverlapsAreSeen, HistoryIs

-----------------------------------------------------------------------------
(* A document while other calls take their steps.                          *)

\* The data files of a document.
LEMMA DataFilesAre ==
  ASSUME NEW n
  PROVE  /\ \A p : p \in DataFiles(n) <=>
                     p \in DOMAIN fs /\ p[1] = n /\ ~fs[p].dir /\ p[2] \in DataForms
         /\ \A p : p \in DataFiles(n)' <=>
                     p \in DOMAIN fs' /\ p[1] = n /\ ~fs'[p].dir /\ p[2] \in DataForms
BY DEF DataFiles, DocumentFiles, DataForms

\* The state that the proof of a step starts from.
Before(c) ==
  /\ FilesTyped /\ CallsTyped /\ FilesAreInDirectories /\ StepsAreRight /\ OverlapsAreSeen
  /\ FilesTyped' /\ CallsTyped' /\ FilesAreInDirectories' /\ StepsAreRight'
  /\ CallSteps(c) /\ FileEffect(c) /\ HistoryIs(c)

\* The data and the metadata of a document that the step does not change.
LEMMA SameDocument ==
  ASSUME NEW c \in Calls, Before(c), NEW n \in Names, ~(Changes(c) /\ Target[c] = n)
  PROVE  /\ DataFiles(n)' = DataFiles(n)
         /\ \A p \in DataFiles(n) : fs'[p] = fs[p]
         /\ IsFile(<<n, "meta">>)' => IsFile(<<n, "meta">>)
         /\ n \in stripped' \/ (SameMetadata(n) /\ n \notin stripped)
         /\ \A w : IsOf(n, w) => IsOf(n, w)'
         /\ OneFile(n) => OneFile(n)'
         /\ \A p \in {n} \X DataForms : DirectoryStays(n) /\ Has(n, p) => Has(n, p)'
<1>0. SameFiles(n) /\ (SameMetadata(n) \/ Strips(c, n))
  BY FileEffectIsLocal DEF Before
<1>1. ASSUME NEW p
      PROVE  p \in DataFiles(n) <=> p \in Paths /\ IsFile(p) /\ p[1] = n /\ p[2] \in DataForms
  BY FormsDiffer DEF Before, FilesTyped, DataFiles, DocumentFiles, DataForms, IsFile, Used
<1>2. ASSUME NEW p
      PROVE  p \in DataFiles(n)' <=> p \in Paths /\ IsFile(p)' /\ p[1] = n /\ p[2] \in DataForms
  BY FormsDiffer DEF Before, FilesTyped, DataFiles, DocumentFiles, DataForms, IsFile, Used
<1>3. /\ DataFiles(n)' = DataFiles(n)
      /\ \A p \in DataFiles(n) : fs'[p] = fs[p]
  BY <1>0, <1>1, <1>2 DEF SameFiles
<1>4. n \in stripped => n \in stripped'
  BY DEF Before, HistoryIs, Rewrites, Changes
<1>5. n \in stripped' \/ (SameMetadata(n) /\ n \notin stripped)
  BY <1>0, <1>4 DEF Before, HistoryIs
<1>6. PICK m : m = <<n, "meta">>
  OBVIOUS
<1>7. ASSUME NEW w, IsOf(n, w)
      PROVE  IsOf(n, w)'
  <2>1. \A p \in DataFiles(n)' : WrittenBy(fs'[p], w)
    BY <1>3, <1>7 DEF IsOf
  <2>2. \/ n \in stripped'
        \/ IF w = "initial" \/ HasMetadata[w] THEN Used(m)' /\ WrittenBy(fs'[m], w) ELSE ~Used(m)'
    BY <1>5, <1>6, <1>7 DEF IsOf, SameMetadata
  <2> QED
    BY <1>6, <2>1, <2>2 DEF IsOf, WrittenBy
<1>8. OneFile(n) => OneFile(n)'
  BY <1>3 DEF OneFile
<1>9. ASSUME NEW p \in {n} \X DataForms, DirectoryStays(n), Has(n, p)
      PROVE  Has(n, p)'
  <2>1. CASE Used(p) /\ fs[p].dir
    <3>1. p = <<n, "plain">>
      BY <2>1, DataPath DEF Before, FilesAreInDirectories, Used
    <3> QED
      BY <1>9, <2>1, <3>1 DEF DirectoryStays, Has, Used
  <2> QED
    BY <1>3, <1>9, <2>1 DEF Has
<1> QED
  BY <1>0, <1>3, <1>5, <1>7, <1>8, <1>9 DEF SameFiles

\* What a document is, apart from what the calls know of it.
FilesAreRight(n) ==
  OneFile(n) /\ OrphanIsOfWrite(n) /\ QuietIsConsistent(n) /\ AckedIsThere(n)

\* A document that the step does not change.
LEMMA OthersKeepFiles ==
  ASSUME NEW c \in Calls, Before(c), NEW n \in Names, FilesAreRight(n),
         ~(Changes(c) /\ Target[c] = n)
  PROVE  FilesAreRight(n)'
<1>1. /\ DataFiles(n)' = DataFiles(n)
      /\ IsFile(<<n, "meta">>)' => IsFile(<<n, "meta">>)
      /\ \A w : IsOf(n, w) => IsOf(n, w)'
      /\ OneFile(n)'
  BY SameDocument DEF FilesAreRight
<1>2. ASSUME NEW d \in Calls, Changes(d), Target[d] = n
      PROVE  d # c /\ pc'[d] = pc[d] /\ (Running(d)' <=> Running(d))
  BY <1>2 DEF Before, CallSteps, SameCall, Running
<1>3. \A t : t[1] = n => (t \in torn' <=> t \in torn)
  <2>1. ~(Finishes(c) /\ Target[c] = n) /\ ~(CutOff(c) /\ Target[c] = n)
    BY DEF Finishes, CutOff, Changes
  <2> QED
    BY <2>1 DEF Before, HistoryIs
<1>4. (n \in DOMAIN acked' <=> n \in DOMAIN acked) /\ (n \in DOMAIN acked' => acked'[n] = acked[n])
  <2>1. ~(Finishes(c) /\ n = Target[c]) /\ ~(Begins(c) /\ Changes(c) /\ n = Target[c])
    BY DEF Finishes, Changes
  <2> QED
    BY <2>1 DEF Before, HistoryIs
<1>5. OrphanIsOfWrite(n)'
  <2> SUFFICES ASSUME IsFile(<<n, "meta">>)', DataFiles(n)' = {}
               PROVE  \/ \E d \in Calls :
                           /\ Kind[d] = "write" /\ Target[d] = n
                           /\ pc'[d] \in {"writeMetadata", "metadata", "openData", "cleanUp"}
                      \/ \E t \in torn' : t[1] = n /\ t[2] \in {"crashed", "metadata"}
    BY DEF OrphanIsOfWrite
  <2>1. CASE \E d \in Calls :
               /\ Kind[d] = "write" /\ Target[d] = n
               /\ pc[d] \in {"writeMetadata", "metadata", "openData", "cleanUp"}
    BY <1>2, <2>1 DEF Changes
  <2>2. CASE \E t \in torn : t[1] = n /\ t[2] \in {"crashed", "metadata"}
    BY <1>3, <2>2
  <2> QED
    BY <1>1, <2>1, <2>2 DEF FilesAreRight, OrphanIsOfWrite
<1>6. QuietIsConsistent(n)'
  <2>1. Quiet(n)' => Quiet(n)
    BY <1>2 DEF Quiet, Changes
  <2>2. (\A t \in torn' : t[1] # n) => (\A t \in torn : t[1] # n)
    BY <1>3
  <2> QED
    BY <1>1, <2>1, <2>2 DEF FilesAreRight, QuietIsConsistent
<1>7. AckedIsThere(n)'
  BY <1>1, <1>2, <1>4 DEF FilesAreRight, AckedIsThere, Changes
<1> QED
  BY <1>1, <1>5, <1>6, <1>7 DEF FilesAreRight

\* What a call knows of its document while another one takes a step.
LEMMA OthersKeepKnowledge ==
  ASSUME NEW c \in Calls, Before(c), NEW d \in Calls \ {c}, Running(d)',
         Target[d] \in Names \ overlapped', Running(d) => CallKnows(d)
  PROVE  CallKnows(d)'
<1> DEFINE n == Target[d]
<1>1. SameCall(d) /\ Running(d)
  BY DEF Before, CallSteps, SameCall, Running
<1>2. CASE Touches(d) /\ Kind[d] # "rmdir"
  <2>1. ~(Changes(c) /\ Target[c] = n)
    BY <1>1, <1>2, ChangesAlone DEF Before, Touches, Changes
  <2>2. SameFiles(n)
    BY <2>1, FileEffectIsLocal DEF Before
  <2>3. /\ DataFiles(n)' = DataFiles(n)
        /\ \A p \in DataFiles(n) : fs'[p] = fs[p]
        /\ \A p \in {n} \X DataForms : DirectoryStays(n) /\ Has(n, p) => Has(n, p)'
        /\ n \in stripped' \/ (SameMetadata(n) /\ n \notin stripped)
    BY <2>1, SameDocument
  <2>4. PICK m : m = <<n, "meta">> /\ Meta(d) = m /\ Meta(d)' = m
    BY <1>2 DEF Meta, Touches
  <2>m. /\ IsFile(m)' => IsFile(m)
        /\ \/ n \in stripped'
           \/ /\ n \notin stripped /\ (Used(m)' <=> Used(m)) /\ (Used(m) => fs'[m] = fs[m])
              /\ IsFile(m)' <=> IsFile(m)
    BY <2>2, <2>3, <2>4 DEF SameFiles, SameMetadata, IsFile, Used
  <2>5. ASSUME NEW p \in {n} \X DataForms
        PROVE  (IsFile(p)' <=> IsFile(p)) /\ (IsFile(p) => fs'[p] = fs[p])
    <3>1. p \in Paths /\ p[1] = n /\ p[2] \in DataForms
      BY DataPath
    <3> QED
      BY <2>2, <3>1 DEF SameFiles
  <2>6. CASE Kind[d] = "get"
    <3>1. PICK s : s = seen[d] /\ s = seen'[d]
      BY <1>1 DEF SameCall
    <3> QED
      BY <1>1, <2>4, <2>m, <2>6, <3>1 DEF CallKnows, GetKnows, SameCall
  <2>7. CASE Kind[d] = "delete"
    <3>1. ASSUME pc[d] \in {"unlinkMetadata", "remove"}
          PROVE  link[d] \in {n} \X DataForms
      BY <1>2, <3>1 DEF Before, StepsAreRight, StepIsRight, Working, Outcomes
    <3>2. PICK l : l = link[d] /\ l = link'[d]
      BY <1>1 DEF SameCall
    <3> QED
      BY <1>1, <2>4, <2>m, <2>5, <2>7, <3>1, <3>2 DEF CallKnows, DeleteKnows, SameCall
  <2>8. CASE Kind[d] = "write"
    <3>1. DirectoryStays(n)
      <4>1. ~(Kind[c] = "rmdir" /\ Target[c] = n)
        BY <1>1, <1>2, <2>8, ChangesAlone DEF Before, Touches, Changes
      <4> QED
        BY <4>1, FileEffectIsLocal DEF Before
    <3>2. PICK l : l = link[d] /\ l = link'[d]
      BY <1>1 DEF SameCall
    <3>3. PICK o : o = old[d] /\ o = old'[d]
      BY <1>1 DEF SameCall
    <3>4. Working(d) => l \in {n} \X DataForms /\ (pc[d] = "unlinkOld" => o \in {n} \X DataForms)
      BY <1>2, <3>2, <3>3 DEF Before, StepsAreRight, StepIsRight
    <3>5. WriteKnows(d) /\ pc'[d] = pc[d]
      BY <1>1, <2>8 DEF CallKnows, SameCall
    <3>6. pc'[d] = "unlinkOld" => Has(n, o)'
      BY <2>3, <3>1, <3>3, <3>4, <3>5 DEF WriteKnows, Working, Outcomes
    <3>7. pc'[d] \in {"writeMetadata", "metadata", "openData", "data", "cleanUp"} => Has(n, l)'
      BY <2>3, <3>1, <3>2, <3>4, <3>5 DEF WriteKnows, Working, Outcomes
    <3>8. pc'[d] = "data" => IsFile(l)' /\ fs'[l].by = {d}
      BY <2>5, <3>2, <3>4, <3>5 DEF WriteKnows, Working, Outcomes
    <3>9. /\ pc'[d] = "metadata" =>
               /\ HasMetadata[d]
               /\ n \in stripped' \/ (IsFile(m)' /\ fs'[m].by = {d})
          /\ pc'[d] \in {"openData", "data", "cleanUp"} => HasMetadata[d] \/ ~IsFile(m)'
      BY <2>4, <2>m, <3>5 DEF WriteKnows, IsFile
    <3>10. pc'[d] \in {"openData", "data"} =>
             \/ n \in stripped'
             \/ IF HasMetadata[d] THEN Used(m)' /\ WrittenBy(fs'[m], d) ELSE ~Used(m)'
      BY <2>4, <2>m, <3>5 DEF WriteKnows, MetadataIsWritten
    <3>11. WriteKnows(d)'
      BY <2>4, <3>2, <3>3, <3>6, <3>7, <3>8, <3>9, <3>10 DEF WriteKnows, MetadataIsWritten, WrittenBy
    <3> QED
      BY <2>8, <3>11 DEF CallKnows
  <2> QED
    BY <1>2, <2>6, <2>7, <2>8 DEF Touches
<1>3. CASE ~(Touches(d) /\ Kind[d] # "rmdir")
  BY <1>3 DEF CallKnows, Touches
<1> QED
  BY <1>2, <1>3

\* A reader remembers the metadata that it read.
LEMMA ReaderKnows ==
  ASSUME NEW c \in Calls, Before(c), Step(c), Kind[c] = "get"
  PROVE  CallKnows(c)'
<1>1. SUFFICES ASSUME pc'[c] = "readData"
               PROVE  seen'[c].meta = IF Used(Meta(c))' THEN fs'[Meta(c)] ELSE Nothing
  BY DEF CallKnows, GetKnows, Meta
<1>2. ASSUME NEW x, Go(c, x) PROVE pc'[c] = x
  BY <1>2 DEF Go, Before, CallsTyped
<1>3. getRawMetadata(c)
  <2>1. ~getChildMetadata(c)
    BY DEF Before, StepsAreRight, StepIsRight, getChildMetadata
  <2>2. ~refuse(c)
    BY <1>1, <1>2, CallsAssumption DEF refuse
  <2>3. ~OnMetadataStep(c)
    BY <1>1, MetadataSteps DEF Before, StepsAreRight
  <2> QED
    BY <1>1, <1>2, <2>1, <2>2, <2>3
    DEF Step, begin, refuseType, verifyExistingExtension, unlinkOld, openMetadata,
      metadataWritten, removeMetadata, openData, dataWritten, writeFails, cleanUp, mkdir,
      mapUrlToFilePath, getStats, unlinkMetadata, remove, getMetadata, getData,
      opendir, readdir, AfterMetadata, Missing, OnMetadataStep
<1>4. PICK m : m = IF Used(Meta(c)) THEN fs[Meta(c)] ELSE Nothing
  OBVIOUS
<1>5. fs' = fs /\ seen' = [seen EXCEPT ![c].meta = m]
  BY <1>1, <1>2, <1>3, <1>4 DEF getRawMetadata
<1>6. seen[c] \in [meta : Nodes, data : Nodes]
  BY DEF Before, CallsTyped
<1>7. seen'[c].meta = m
  <2>1. seen'[c] = [seen[c] EXCEPT !.meta = m]
    BY <1>5 DEF Before, CallsTyped
  <2>2. PICK r \in [meta : Nodes, data : Nodes] : r = seen[c]
    BY <1>6
  <2>3. seen'[c] = [r EXCEPT !.meta = m]
    BY <2>1, <2>2
  <2> QED
    BY <2>2, <2>3
<1> QED
  BY <1>4, <1>5, <1>7 DEF Used
-----------------------------------------------------------------------------
(* A document while a request changes it.                                  *)

\* A step of a request that changes a document, which no other one touches.
OwnStep(n, c) ==
  /\ n \in Names /\ c \in Calls /\ Changes(c) /\ Target[c] = n /\ Before(c)
  /\ FilesAreRight(n) /\ (Running(c) => CallKnows(c))
  /\ \A d \in Calls \ {c} : Running(d) /\ Touches(d) => Target[d] # n

OwnResult(n, c) == FilesAreRight(n)' /\ (Running(c)' => CallKnows(c)')

\* Nothing is acknowledged while a change is under way.
LEMMA OwnAcked ==
  ASSUME NEW n, NEW c, OwnStep(n, c), ~Finishes(c)
  PROVE  n \notin DOMAIN acked' /\ AckedIsThere(n)'
<1>1. CASE Running(c)
  BY <1>1 DEF OwnStep, Before, HistoryIs, FilesAreRight, AckedIsThere
<1>2. CASE Begins(c)
  BY <1>2 DEF OwnStep, Before, HistoryIs, AckedIsThere
<1> QED
  BY <1>1, <1>2, RunningOrBegins DEF OwnStep, Before

\* What a request has changed of the metadata is remembered until a write puts
\* it right.
LEMMA OwnStripped ==
  ASSUME NEW n, NEW c, OwnStep(n, c), n \in stripped, pc[c] # "writeMetadata"
  PROVE  n \in stripped'
BY DEF OwnStep, Before, HistoryIs, Rewrites

\* A change that is under way, or cut off.
LEMMA OwnUnderWay ==
  ASSUME NEW n, NEW c, OwnStep(n, c), pc[c] \notin {"idle", "start", "stat"},
         pc'[c] \notin {"stat", "done"}
  PROVE  QuietIsConsistent(n)'
<1>1. Running(c)
  BY RunningOrBegins DEF OwnStep, Before
<1>2. CASE Running(c)' /\ pc'[c] \notin {"start", "stat"}
  BY <1>2 DEF QuietIsConsistent, Quiet, OwnStep, Changes
<1>3. CASE ~Running(c)'
  <2>1. CutOff(c)
    BY <1>1, <1>3 DEF OwnStep, Before, CallSteps, CutOff, Ends, Running
  <2>2. <<n, pc[c]>> \in torn'
    BY <2>1 DEF OwnStep, Before, HistoryIs
  <2> QED
    BY <2>2 DEF QuietIsConsistent
<1>4. pc'[c] # "start"
  BY DEF OwnStep, Before, CallSteps
<1> QED
  BY <1>2, <1>3, <1>4

\* A request that has changed nothing yet.
LEMMA OwnUnchanged ==
  ASSUME NEW n, NEW c, OwnStep(n, c), pc[c] \in {"idle", "start", "stat"}, fs' = fs,
         ~Finishes(c)
  PROVE  FilesAreRight(n)'
<1>1. ~CutOff(c)
  <2>1. CASE pc[c] = "idle"
    BY <2>1 DEF CutOff, Ends, Running
  <2> QED
    BY <2>1 DEF CutOff
<1>2. torn' = torn
  BY <1>1 DEF OwnStep, Before, HistoryIs
<1>3. /\ DataFiles(n)' = DataFiles(n) /\ (IsFile(<<n, "meta">>)' <=> IsFile(<<n, "meta">>))
      /\ \A w : IsOf(n, w) => IsOf(n, w)'
  BY OwnStripped DEF DataFiles, DocumentFiles, IsFile, Used, IsOf, WrittenBy
<1>4. OneFile(n)'
  BY <1>3 DEF OwnStep, FilesAreRight, OneFile
<1>5. OrphanIsOfWrite(n)'
  <2>1. \A d \in Calls \ {c} : pc'[d] = pc[d]
    BY DEF OwnStep, Before, CallSteps, SameCall
  <2> QED
    BY <1>2, <1>3, <2>1 DEF OwnStep, FilesAreRight, OrphanIsOfWrite
<1>6. QuietIsConsistent(n)'
  <2>1. Quiet(n)
    <3>1. \A d \in Calls : Running(d) /\ Changes(d) /\ Target[d] = n => d = c
      BY DEF OwnStep, Touches, Changes
    <3> QED
      BY <3>1 DEF Quiet, Running
  <2> QED
    BY <1>2, <1>3, <2>1 DEF OwnStep, FilesAreRight, QuietIsConsistent
<1> QED
  BY <1>4, <1>5, <1>6, OwnAcked DEF FilesAreRight

\* Nobody else has the files of the document open.
LEMMA OwnWriters ==
  ASSUME NEW n, NEW c, OwnStep(n, c), NEW p, p[1] = n, p[2] # "dirMeta",
         NEW d \in Writers(p)
  PROVE  d = c
<1>1. d \in Calls /\ ((pc[d] = "metadata" /\ p = Meta(d)) \/ (pc[d] = "data" /\ p = link[d]))
  BY DEF Writers
<1>2. Running(d) /\ Working(d)
  BY <1>1 DEF Running, Working, Outcomes
<1>3. StepIsRight(d)
  BY <1>1 DEF OwnStep, Before, StepsAreRight
<1>4. CASE pc[d] = "metadata" /\ p = Meta(d)
  BY <1>1, <1>2, <1>3, <1>4 DEF StepIsRight, Meta, OwnStep, Touches
<1>5. CASE pc[d] = "data" /\ p = link[d]
  <2>1. Kind[d] = "write" /\ link[d] \in {Target[d]} \X DataForms
    BY <1>2, <1>3, <1>5 DEF StepIsRight, Touches
  <2>2. Target[d] = n
    BY <1>5, <2>1
  <2> QED
    BY <1>1, <1>2, <2>1, <2>2 DEF OwnStep, Touches
<1> QED
  BY <1>1, <1>4, <1>5

\* The metadata of a document is written.
LEMMA MetadataPut ==
  ASSUME NEW n, NEW node, Put(<<n, "meta">>, node)
  PROVE  /\ Used(<<n, "meta">>)' /\ fs'[<<n, "meta">>] = node
         /\ \A p : p[2] # "meta" => (Used(p)' <=> Used(p)) /\ (Used(p) => fs'[p] = fs[p])
         /\ DataFiles(n)' = DataFiles(n)
<1>1. PICK m : m = <<n, "meta">> /\ m[2] = "meta"
  OBVIOUS
<1>2. DOMAIN fs' = DOMAIN fs \cup {m} /\ fs'[m] = node /\ \A q \in DOMAIN fs \ {m} : fs'[q] = fs[q]
  BY <1>1, PutIs
<1>3. \A p : p[2] # "meta" => (Used(p)' <=> Used(p)) /\ (Used(p) => fs'[p] = fs[p])
  BY <1>1, <1>2 DEF Used
<1>4. \A p : p \in DataFiles(n)' <=> p \in DataFiles(n)
  BY <1>1, <1>3, DataFilesAre, FormsDiffer DEF Used
<1> QED
  BY <1>1, <1>2, <1>3, <1>4 DEF Used

\* The metadata of a document is removed.
LEMMA MetadataUnlink ==
  ASSUME NEW n, Unlink(<<n, "meta">>)
  PROVE  /\ ~Used(<<n, "meta">>)'
         /\ \A p : p[2] # "meta" => (Used(p)' <=> Used(p)) /\ (Used(p) => fs'[p] = fs[p])
         /\ DataFiles(n)' = DataFiles(n)
<1>1. PICK m : m = <<n, "meta">> /\ m[2] = "meta"
  OBVIOUS
<1>2. DOMAIN fs' = DOMAIN fs \ {m} /\ \A q \in DOMAIN fs \ {m} : fs'[q] = fs[q]
  BY <1>1, UnlinkIs
<1>3. \A p : p[2] # "meta" => (Used(p)' <=> Used(p)) /\ (Used(p) => fs'[p] = fs[p])
  BY <1>1, <1>2 DEF Used
<1>4. \A p : p \in DataFiles(n)' <=> p \in DataFiles(n)
  BY <1>1, <1>3, DataFilesAre, FormsDiffer DEF Used
<1> QED
  BY <1>1, <1>2, <1>3, <1>4 DEF Used

\* The data of a document is written.
LEMMA DataPut ==
  ASSUME NEW n, NEW l \in {n} \X DataForms, NEW node, ~node.dir, Put(l, node)
  PROVE  /\ DataFiles(n)' = DataFiles(n) \cup {l} /\ fs'[l] = node /\ IsFile(l)'
         /\ \A p \in DataFiles(n) \ {l} : fs'[p] = fs[p]
         /\ (Used(<<n, "meta">>)' <=> Used(<<n, "meta">>))
         /\ Used(<<n, "meta">>) => fs'[<<n, "meta">>] = fs[<<n, "meta">>]
<1>1. DOMAIN fs' = DOMAIN fs \cup {l} /\ fs'[l] = node /\ \A q \in DOMAIN fs \ {l} : fs'[q] = fs[q]
  BY PutIs
<1>2. l[1] = n /\ l[2] \in DataForms
  OBVIOUS
<1>3. ASSUME NEW p
      PROVE  p \in DataFiles(n)' <=> p \in DataFiles(n) \cup {l}
  <2>1. p \in DataFiles(n) <=> p \in DOMAIN fs /\ p[1] = n /\ ~fs[p].dir /\ p[2] \in DataForms
    BY DataFilesAre
  <2>2. p \in DataFiles(n)' <=> p \in DOMAIN fs' /\ p[1] = n /\ ~fs'[p].dir /\ p[2] \in DataForms
    BY DataFilesAre
  <2> QED
    BY <1>1, <1>2, <2>1, <2>2
<1>4. PICK m : m = <<n, "meta">>
  OBVIOUS
<1>5. m # l
  BY <1>2, <1>4, FormsDiffer
<1>6. \A p \in DataFiles(n) \ {l} : fs'[p] = fs[p]
  BY <1>1, DataFilesAre
<1> QED
  BY <1>1, <1>3, <1>4, <1>5, <1>6 DEF Used, IsFile

\* The data of a document is removed.
LEMMA DataUnlink ==
  ASSUME NEW n, NEW l \in {n} \X DataForms, Unlink(l)
  PROVE  /\ DataFiles(n)' = DataFiles(n) \ {l}
         /\ (Used(<<n, "meta">>)' <=> Used(<<n, "meta">>))
         /\ Used(<<n, "meta">>) => fs'[<<n, "meta">>] = fs[<<n, "meta">>]
<1>1. DOMAIN fs' = DOMAIN fs \ {l} /\ \A q \in DOMAIN fs \ {l} : fs'[q] = fs[q]
  BY UnlinkIs
<1>2. ASSUME NEW p
      PROVE  p \in DataFiles(n)' <=> p \in DataFiles(n) /\ p # l
  <2>1. p \in DataFiles(n) <=> p \in DOMAIN fs /\ p[1] = n /\ ~fs[p].dir /\ p[2] \in DataForms
    BY DataFilesAre
  <2>2. p \in DataFiles(n)' <=> p \in DOMAIN fs' /\ p[1] = n /\ ~fs'[p].dir /\ p[2] \in DataForms
    BY DataFilesAre
  <2> QED
    BY <1>1, <2>1, <2>2
<1>3. PICK m : m = <<n, "meta">>
  OBVIOUS
<1>4. m # l
  BY <1>3, FormsDiffer
<1> QED
  BY <1>1, <1>2, <1>3, <1>4 DEF Used

\* Metadata with its document left as it is keeps what a call has found.
LEMMA HasStays ==
  ASSUME NEW n, NEW p \in {n} \X DataForms, Has(n, p), DataFiles(n)' = DataFiles(n),
         \A q : q[2] # "meta" => (Used(q)' <=> Used(q)) /\ (Used(q) => fs'[q] = fs[q])
  PROVE  Has(n, p)'
<1>1. p[2] # "meta"
  BY FormsDiffer
<1> QED
  BY <1>1 DEF Has

\* What a request that changes a document works on.
LEMMA OwnPaths ==
  ASSUME NEW n, NEW c, OwnStep(n, c)
  PROVE  /\ Meta(c) = <<n, "meta">> /\ Touches(c) /\ Kind[c] \in {"write", "delete"}
         /\ Working(c) => link[c] \in {n} \X DataForms /\ Running(c)
         /\ pc[c] = "unlinkOld" => old[c] \in {n} \X DataForms
         /\ StepIsRight(c) /\ \A x : Go(c, x) => pc'[c] = x
<1>1. Kind[c] \in {"write", "delete"} /\ Touches(c)
  BY DEF OwnStep, Changes, Touches
<1>2. StepIsRight(c) /\ CallsTyped /\ c \in Calls /\ Target[c] = n
  BY DEF OwnStep, Before, StepsAreRight
<1>3. \A x : Go(c, x) => pc'[c] = x
  BY <1>2 DEF Go, CallsTyped
<1>4. Meta(c) = <<n, "meta">>
  BY <1>1, <1>2 DEF Meta
<1>5. Working(c) => link[c] \in {n} \X DataForms /\ Running(c)
  BY <1>1, <1>2 DEF StepIsRight, Working, Running
<1>6. pc[c] = "unlinkOld" => old[c] \in {n} \X DataForms
  BY <1>2 DEF StepIsRight, Working, Outcomes
<1> QED
  BY <1>1, <1>2, <1>3, <1>4, <1>5, <1>6

\* A path that mapUrlToDocumentPath finds is that of the only file, or a directory.
LEMMA ExistingPathHas ==
  ASSUME NEW n, OneFile(n), NEW p \in ExistingPaths(n)
  PROVE  Has(n, p)
<1> DEFINE found == {q \in DOMAIN fs : q[1] = n /\ q[2] \in {"plain"} \cup Extensions}
<1>1. \A q \in DataFiles(n) : q \in found
  BY DataFilesAre DEF DataForms
<1>2. CASE found = {}
  BY <1>1, <1>2 DEF Has
<1>3. CASE found # {}
  <2>1. p \in found
    BY <1>3 DEF ExistingPaths
  <2>2. CASE fs[p].dir
    BY <2>1, <2>2 DEF Has, Used
  <2>3. CASE ~fs[p].dir
    <3>1. p \in DataFiles(n)
      BY <2>1, <2>3, DataFilesAre DEF DataForms
    <3> QED
      BY <3>1 DEF OneFile, Has
  <2> QED
    BY <2>2, <2>3
<1> QED
  BY <1>2, <1>3

\* The steps before anything is changed.
LEMMA OwnStarts ==
  ASSUME NEW n, NEW c, OwnStep(n, c),
         \/ begin(c) \/ refuse(c) \/ refuseType(c) \/ verifyExistingExtension(c)
         \/ mapUrlToFilePath(c) \/ getStats(c)
  PROVE  OwnResult(n, c)
<1> USE DEF files
<1>1. /\ pc[c] \in {"idle", "start", "stat"} /\ fs' = fs /\ c \in Calls /\ n = Target[c]
      /\ CallsTyped /\ OneFile(n) /\ Kind[c] \in {"write", "delete"}
  BY OwnPaths
  DEF OwnStep, Before, FilesAreRight, begin, refuse, refuseType, verifyExistingExtension,
      mapUrlToFilePath, getStats, Starts
<1>2. \A x : Go(c, x) => pc'[c] = x
  BY OwnPaths
<1>3. pc'[c] # "done"
  <2>1. CASE refuse(c)
    BY <1>1, <1>2, <2>1, CallsAssumption DEF refuse
  <2> QED
    BY <1>2, <2>1
    DEF begin, refuseType, verifyExistingExtension, mapUrlToFilePath, getStats, Missing
<1>4. FilesAreRight(n)'
  BY <1>1, <1>3, OwnUnchanged DEF Finishes
<1>5. CASE verifyExistingExtension(c)
  <2> DEFINE new == NewPath(Target[c], Type[c])
  <2>1. PICK p \in ExistingPaths(n) :
          /\ old' = [old EXCEPT ![c] = p] /\ link' = [link EXCEPT ![c] = new]
          /\ Go(c, IF p = link'[c] THEN "writeMetadata" ELSE "unlinkOld")
    BY <1>1, <1>5 DEF verifyExistingExtension
  <2>2. old'[c] = p /\ Has(n, p) /\ Kind[c] = "write"
    BY <1>1, <1>5, <2>1, ExistingPathHas DEF CallsTyped, verifyExistingExtension
  <2>3. Has(n, p)'
    BY <1>1, <2>2 DEF Has, Used, DataFiles, DocumentFiles
  <2>4. \/ pc'[c] = "writeMetadata" /\ link'[c] = p
        \/ pc'[c] = "unlinkOld"
    BY <1>2, <2>1
  <2>5. WriteKnows(c)'
    BY <1>1, <2>2, <2>3, <2>4 DEF WriteKnows
  <2> QED
    BY <1>4, <2>2, <2>5 DEF OwnResult, CallKnows
<1>6. CASE getStats(c)
  <2>1. Kind[c] = "delete" /\ link' = link
    BY <1>1, <1>6 DEF getStats
  <2>2. pc'[c] \in {"notFound", "failed", "unlinkOnly", "unlinkMetadata"}
        /\ (pc'[c] = "unlinkMetadata" => IsFile(link[c]))
    BY <1>2, <1>6, <2>1 DEF getStats, Missing
  <2>3. DeleteKnows(c)'
    BY <1>1, <2>1, <2>2 DEF DeleteKnows, IsFile, Used
  <2> QED
    BY <1>4, <2>1, <2>3 DEF OwnResult, CallKnows
<1>7. CASE begin(c) \/ refuse(c) \/ refuseType(c) \/ mapUrlToFilePath(c)
  <2>1. pc'[c] \in {"start", "stat"} \cup Outcomes
    <3>1. CASE refuse(c)
      BY <1>1, <1>2, <3>1, CallsAssumption DEF refuse, Outcomes
    <3> QED
      BY <1>2, <1>7, <3>1 DEF begin, refuseType, mapUrlToFilePath, Outcomes
  <2>2. CallKnows(c)'
    BY <1>1, <2>1 DEF CallKnows, WriteKnows, DeleteKnows, Outcomes
  <2> QED
    BY <1>4, <2>2 DEF OwnResult
<1> QED
  BY <1>5, <1>6, <1>7

\* What there is while a change goes on, from what it does with the files.
LEMMA OwnGoesOn ==
  ASSUME NEW n, NEW c, OwnStep(n, c), pc[c] \notin {"idle", "start", "stat"},
         pc'[c] \notin {"stat", "done"}, OneFile(n)',
         \/ ~IsFile(<<n, "meta">>)'
         \/ DataFiles(n)' # {}
         \/ Kind[c] = "write" /\ pc'[c] \in {"writeMetadata", "metadata", "openData", "cleanUp"}
         \/ pc[c] = "metadata" /\ pc'[c] = "failed"
  PROVE  FilesAreRight(n)'
<1>1. ~Finishes(c)
  BY DEF Finishes
<1>2. QuietIsConsistent(n)' /\ AckedIsThere(n)'
  BY <1>1, OwnUnderWay, OwnAcked
<1>3. CASE pc[c] = "metadata" /\ pc'[c] = "failed"
  <2>1. CutOff(c)
    BY <1>3 DEF CutOff, Ends, OwnStep, Running, Outcomes
  <2>2. <<n, "metadata">> \in torn'
    BY <1>3, <2>1 DEF OwnStep, Before, HistoryIs
  <2> QED
    BY <1>2, <2>2 DEF FilesAreRight, OrphanIsOfWrite
<1>4. CASE Kind[c] = "write" /\ pc'[c] \in {"writeMetadata", "metadata", "openData", "cleanUp"}
  BY <1>2, <1>4 DEF FilesAreRight, OrphanIsOfWrite, OwnStep
<1> QED
  BY <1>2, <1>3, <1>4 DEF FilesAreRight, OrphanIsOfWrite

\* The old file of another extension is removed.
LEMMA OwnUnlinkOld ==
  ASSUME NEW n, NEW c, OwnStep(n, c), unlinkOld(c)
  PROVE  OwnResult(n, c)
<1>1. PICK o : o = old[c] /\ o \in {n} \X DataForms
  BY OwnPaths DEF unlinkOld
<1>2. /\ pc[c] = "unlinkOld" /\ Kind[c] = "write" /\ link' = link /\ OneFile(n)
      /\ Has(n, o) /\ c \in Calls /\ Target[c] = n
  BY <1>1, OwnPaths
  DEF unlinkOld, StepIsRight, OwnStep, FilesAreRight, CallKnows, WriteKnows, Running, Outcomes
<1>3. \/ ~Used(o) /\ pc'[c] = "writeMetadata" /\ fs' = fs
      \/ IsFile(o) /\ pc'[c] = "writeMetadata" /\ Unlink(o)
      \/ Used(o) /\ ~IsFile(o) /\ pc'[c] = "failed" /\ fs' = fs
  BY <1>1, OwnPaths DEF unlinkOld
<1>4. CASE pc'[c] = "writeMetadata"
  <2>1. DataFiles(n)' = {}
    <3>1. CASE ~Used(o) /\ fs' = fs
      <4>1. DataFiles(n) = {}
        BY <1>2, <3>1, DataFilesAre DEF Has, Used
      <4> QED
        BY <3>1, <4>1 DEF DataFiles, DocumentFiles
    <3>2. CASE IsFile(o) /\ Unlink(o)
      <4>1. DataFiles(n) \subseteq {o}
        BY <1>2, <3>2 DEF Has, IsFile
      <4>2. DataFiles(n)' = DataFiles(n) \ {o}
        BY <1>1, <3>2, DataUnlink
      <4> QED
        BY <4>1, <4>2
    <3> QED
      BY <1>3, <1>4, <3>1, <3>2
  <2>2. FilesAreRight(n)'
    BY <1>2, <1>4, <2>1, OwnGoesOn DEF OneFile
  <2>3. WriteKnows(c)'
    BY <1>2, <1>4, <2>1 DEF WriteKnows, Has
  <2> QED
    BY <1>2, <2>2, <2>3 DEF OwnResult, CallKnows
<1>5. CASE pc'[c] = "failed" /\ fs' = fs
  <2>1. /\ DataFiles(n)' = DataFiles(n) /\ (IsFile(<<n, "meta">>)' <=> IsFile(<<n, "meta">>))
    BY <1>5 DEF DataFiles, DocumentFiles, IsFile, Used
  <2>2. ~Finishes(c)
    BY <1>5 DEF Finishes
  <2>3. \A d \in Calls \ {c} : pc'[d] = pc[d]
    BY DEF OwnStep, Before, CallSteps, SameCall
  <2>4. torn \subseteq torn'
    BY <2>2 DEF OwnStep, Before, HistoryIs
  <2>5. OrphanIsOfWrite(n)'
    BY <1>2, <2>1, <2>3, <2>4 DEF OwnStep, FilesAreRight, OrphanIsOfWrite
  <2>6. OneFile(n)'
    BY <1>2, <2>1 DEF OneFile
  <2>7. QuietIsConsistent(n)' /\ AckedIsThere(n)'
    BY <1>2, <1>5, <2>2, OwnUnderWay, OwnAcked
  <2> QED
    BY <1>5, <2>5, <2>6, <2>7 DEF FilesAreRight, OwnResult, Running, Outcomes
<1> QED
  BY <1>3, <1>4, <1>5

\* The metadata file is opened.
LEMMA OwnOpenMetadata ==
  ASSUME NEW n, NEW c, OwnStep(n, c), openMetadata(c)
  PROVE  OwnResult(n, c)
<1>1. PICK m : m = Meta(c) /\ m = <<n, "meta">>
  BY OwnPaths
<1>2. PICK l : l = link[c] /\ l \in {n} \X DataForms
  BY OwnPaths DEF openMetadata, Working, Outcomes
<1>3. Kind[c] = "write"
  BY OwnPaths DEF openMetadata, StepIsRight
<1>4. /\ pc[c] = "writeMetadata" /\ HasMetadata[c] /\ link' = link /\ OneFile(n)
      /\ Has(n, l) /\ c \in Calls /\ Target[c] = n
  BY <1>2, <1>3, OwnPaths
  DEF openMetadata, OwnStep, FilesAreRight, CallKnows, WriteKnows, Running, Outcomes
<1>5. \/ CanOpen(m) /\ Open(c, m) /\ pc'[c] = "metadata"
      \/ ~CanOpen(m) /\ pc'[c] = "failed" /\ fs' = fs
  BY <1>1, OwnPaths DEF openMetadata
<1>6. CASE Open(c, m) /\ pc'[c] = "metadata"
  <2>1. Writers(m) = {}
    <3>1. ASSUME NEW d \in Writers(m)
          PROVE  FALSE
      <4>1. d = c
        BY <1>1, OwnWriters
      <4> QED
        BY <1>4, <4>1 DEF Writers
    <3> QED
      BY <3>1
  <2>2. PICK node : node.by = {c} /\ ~node.dir /\ Put(m, node)
    BY <1>6, <2>1 DEF Open
  <2>3. /\ Used(m)' /\ fs'[m] = node /\ DataFiles(n)' = DataFiles(n)
        /\ \A p : p[2] # "meta" => (Used(p)' <=> Used(p)) /\ (Used(p) => fs'[p] = fs[p])
    BY <1>1, <2>2, MetadataPut
  <2>4. Has(n, l)' /\ OneFile(n)'
    BY <1>2, <1>4, <2>3, HasStays DEF OneFile
  <2>5. FilesAreRight(n)'
    BY <1>3, <1>4, <1>6, <2>4, OwnGoesOn
  <2>6. IsFile(m)'
    BY <2>2, <2>3 DEF IsFile
  <2>7. WriteKnows(c)'
    BY <1>1, <1>2, <1>4, <1>6, <2>2, <2>3, <2>4, <2>6 DEF WriteKnows, Meta
  <2> QED
    BY <1>3, <2>5, <2>7 DEF OwnResult, CallKnows
<1>7. CASE ~CanOpen(m) /\ pc'[c] = "failed" /\ fs' = fs
  <2>1. ~IsFile(m)
    BY <1>1, <1>7 DEF OwnStep, Before, FilesAreInDirectories, CanOpen, Used, IsFile
  <2>2. ~IsFile(m)' /\ OneFile(n)'
    BY <1>4, <1>7, <2>1 DEF IsFile, Used, OneFile, DataFiles, DocumentFiles
  <2>3. FilesAreRight(n)'
    BY <1>1, <1>4, <1>7, <2>2, OwnGoesOn
  <2> QED
    BY <1>7, <2>3 DEF OwnResult, Running, Outcomes
<1> QED
  BY <1>5, <1>6, <1>7

\* The metadata is complete.
LEMMA OwnMetadataWritten ==
  ASSUME NEW n, NEW c, OwnStep(n, c), metadataWritten(c)
  PROVE  OwnResult(n, c)
<1>1. PICK m : m = Meta(c) /\ m = <<n, "meta">>
  BY OwnPaths
<1>2. PICK l : l = link[c] /\ l \in {n} \X DataForms
  BY OwnPaths DEF metadataWritten, Working, Outcomes
<1>3. Kind[c] = "write"
  BY OwnPaths DEF metadataWritten, StepIsRight
<1>4. /\ pc[c] = "metadata" /\ HasMetadata[c] /\ link' = link /\ OneFile(n)
      /\ Has(n, l) /\ c \in Calls /\ Target[c] = n
      /\ n \in stripped \/ (IsFile(m) /\ fs[m].by = {c})
  BY <1>1, <1>2, <1>3, OwnPaths
  DEF metadataWritten, OwnStep, FilesAreRight, CallKnows, WriteKnows, Running, Outcomes
<1>5. Close(c, m) /\ pc'[c] = "openData"
  BY <1>1, <1>3, OwnPaths DEF metadataWritten, AfterMetadata
<1>6. \A d \in Writers(m) : d = c
  BY <1>1, OwnWriters
<1>7. /\ DataFiles(n)' = DataFiles(n) /\ Has(n, l)'
      /\ n \in stripped' \/ (Used(m)' /\ WrittenBy(fs'[m], c))
  <2>1. CASE c \in Writers(m)
    <3>1. IsFile(m) /\ fs[m] \in Nodes /\ Writers(m) = {c}
      BY <1>1, <1>6, <2>1, WritersAreCalls DEF OwnStep, Before, FilesTyped, Used, IsFile
    <3>2. PICK node : Put(m, node) /\ node.by = fs[m].by /\ node.whole
      <4> DEFINE node == [fs[m] EXCEPT !.whole = Writers(m) = {c}]
      <4>1. node.by = fs[m].by /\ node.whole
        BY <3>1 DEF Nodes
      <4>2. Put(m, node)
        BY <1>5, <2>1 DEF Close
      <4> QED
        BY <4>1, <4>2
    <3>3. /\ Used(m)' /\ fs'[m] = node /\ DataFiles(n)' = DataFiles(n)
          /\ \A p : p[2] # "meta" => (Used(p)' <=> Used(p)) /\ (Used(p) => fs'[p] = fs[p])
      BY <1>1, <3>2, MetadataPut
    <3>4. Has(n, l)'
      BY <1>2, <1>4, <3>3, HasStays
    <3>5. n \in stripped => n \in stripped'
      BY <1>4, OwnStripped
    <3> QED
      BY <1>4, <3>2, <3>3, <3>4, <3>5 DEF WrittenBy
  <2>2. CASE c \notin Writers(m)
    <3>1. fs' = fs
      BY <1>5, <2>2 DEF Close
    <3>2. n \in stripped
      BY <1>1, <1>4, <2>2 DEF Writers
    <3>3. n \in stripped'
      BY <1>4, <3>2, OwnStripped
    <3> QED
      BY <1>4, <3>1, <3>3 DEF Has, Used, DataFiles, DocumentFiles
  <2> QED
    BY <2>1, <2>2
<1>8. OneFile(n)'
  BY <1>4, <1>7 DEF OneFile
<1>9. FilesAreRight(n)'
  BY <1>3, <1>4, <1>5, <1>8, OwnGoesOn
<1>10. n \in stripped' \/ MetadataIsWritten(c)'
  BY <1>1, <1>4, <1>7 DEF MetadataIsWritten, Meta, WrittenBy
<1>11. WriteKnows(c)'
  BY <1>2, <1>4, <1>5, <1>7, <1>10 DEF WriteKnows
<1> QED
  BY <1>3, <1>9, <1>11 DEF OwnResult, CallKnows

\* The metadata of an earlier write is removed.
LEMMA OwnRemoveMetadata ==
  ASSUME NEW n, NEW c, OwnStep(n, c), removeMetadata(c)
  PROVE  OwnResult(n, c)
<1>1. PICK m : m = Meta(c) /\ m = <<n, "meta">> /\ m # <<Root, "plain">>
  BY OwnPaths
<1>2. PICK l : l = link[c] /\ l \in {n} \X DataForms
  BY OwnPaths DEF removeMetadata, Working, Outcomes
<1>3. Kind[c] = "write"
  BY OwnPaths DEF removeMetadata, StepIsRight
<1>4. /\ pc[c] = "writeMetadata" /\ ~HasMetadata[c] /\ link' = link /\ OneFile(n)
      /\ Has(n, l) /\ c \in Calls /\ Target[c] = n
  BY <1>2, <1>3, OwnPaths
  DEF removeMetadata, OwnStep, FilesAreRight, CallKnows, WriteKnows, Running, Outcomes
<1>5. \/ CanUnlink(m) /\ Unlink(m) /\ pc'[c] = "openData"
      \/ ~CanUnlink(m) /\ pc'[c] = "failed" /\ fs' = fs
  BY <1>1, <1>3, OwnPaths DEF removeMetadata, AfterMetadata
<1>6. CASE Unlink(m) /\ pc'[c] = "openData"
  <2>1. /\ ~Used(m)' /\ DataFiles(n)' = DataFiles(n)
        /\ \A p : p[2] # "meta" => (Used(p)' <=> Used(p)) /\ (Used(p) => fs'[p] = fs[p])
    BY <1>1, <1>6, MetadataUnlink
  <2>2. Has(n, l)' /\ OneFile(n)' /\ ~IsFile(m)'
    BY <1>2, <1>4, <2>1, HasStays DEF OneFile, IsFile
  <2>3. FilesAreRight(n)'
    BY <1>3, <1>4, <1>6, <2>2, OwnGoesOn
  <2>4. MetadataIsWritten(c)' /\ ~IsFile(Meta(c))'
    BY <1>1, <1>4, <2>1, <2>2 DEF MetadataIsWritten, Meta
  <2>5. WriteKnows(c)'
    BY <1>2, <1>4, <1>6, <2>2, <2>4 DEF WriteKnows
  <2> QED
    BY <1>3, <2>3, <2>5 DEF OwnResult, CallKnows
<1>7. CASE ~CanUnlink(m) /\ pc'[c] = "failed" /\ fs' = fs
  <2>1. ~IsFile(m)
    BY <1>1, <1>7, CannotUnlink DEF OwnStep, Before
  <2>2. ~IsFile(m)' /\ OneFile(n)'
    BY <1>4, <1>7, <2>1 DEF IsFile, Used, OneFile, DataFiles, DocumentFiles
  <2>3. FilesAreRight(n)'
    BY <1>1, <1>4, <1>7, <2>2, OwnGoesOn
  <2> QED
    BY <1>7, <2>3 DEF OwnResult, Running, Outcomes
<1> QED
  BY <1>5, <1>6, <1>7

\* The data file is opened.
LEMMA OwnOpenData ==
  ASSUME NEW n, NEW c, OwnStep(n, c), openData(c)
  PROVE  OwnResult(n, c)
<1>1. PICK m : m = Meta(c) /\ m = <<n, "meta">>
  BY OwnPaths
<1>2. PICK l : l = link[c] /\ l \in {n} \X DataForms
  BY OwnPaths DEF openData, Working, Outcomes
<1>3. Kind[c] = "write"
  BY OwnPaths DEF openData, StepIsRight
<1>4. /\ pc[c] = "openData" /\ link' = link /\ OneFile(n)
      /\ Has(n, l) /\ c \in Calls /\ Target[c] = n
      /\ n \in stripped \/ MetadataIsWritten(c)
      /\ HasMetadata[c] \/ ~IsFile(m)
  BY <1>1, <1>2, <1>3, OwnPaths
  DEF openData, OwnStep, FilesAreRight, CallKnows, WriteKnows, Running, Outcomes
<1>5. \/ CanOpen(l) /\ Open(c, l) /\ pc'[c] = "data"
      \/ ~CanOpen(l) /\ pc'[c] = "cleanUp" /\ fs' = fs
  BY <1>2, OwnPaths DEF openData
<1>s. n \in stripped => n \in stripped'
  BY <1>4, OwnStripped
<1>6. CASE CanOpen(l) /\ Open(c, l) /\ pc'[c] = "data"
  <2>1. Writers(l) = {}
    <3>1. ASSUME NEW d \in Writers(l)
          PROVE  FALSE
      <4>1. d = c
        BY <1>2, OwnWriters, FormsDiffer
      <4> QED
        BY <1>4, <4>1 DEF Writers
    <3> QED
      BY <3>1
  <2>2. PICK node : node.by = {c} /\ ~node.dir /\ Put(l, node)
    BY <1>6, <2>1 DEF Open
  <2>3. /\ DataFiles(n)' = DataFiles(n) \cup {l} /\ fs'[l] = node /\ IsFile(l)'
        /\ (Used(m)' <=> Used(m)) /\ (Used(m) => fs'[m] = fs[m])
    BY <1>1, <1>2, <2>2, DataPut
  <2>4. DataFiles(n) \subseteq {l}
    BY <1>4, <1>6 DEF Has, CanOpen, IsFile
  <2>5. DataFiles(n)' = {l}
    BY <2>3, <2>4
  <2>6. Has(n, l)' /\ OneFile(n)'
    BY <2>5 DEF Has, OneFile
  <2>7. FilesAreRight(n)'
    BY <1>4, <1>6, <2>5, <2>6, OwnGoesOn
  <2>8. /\ n \in stripped' \/ MetadataIsWritten(c)'
        /\ HasMetadata[c] \/ ~IsFile(Meta(c))'
    BY <1>1, <1>4, <1>s, <2>3 DEF MetadataIsWritten, Meta, WrittenBy, IsFile
  <2>9. WriteKnows(c)'
    BY <1>2, <1>4, <1>6, <2>2, <2>3, <2>6, <2>8 DEF WriteKnows
  <2> QED
    BY <1>3, <2>7, <2>9 DEF OwnResult, CallKnows
<1>7. CASE pc'[c] = "cleanUp" /\ fs' = fs
  <2>1. Has(n, l)' /\ OneFile(n)'
    BY <1>4, <1>7 DEF Has, OneFile, Used, DataFiles, DocumentFiles
  <2>2. FilesAreRight(n)'
    BY <1>3, <1>4, <1>7, <2>1, OwnGoesOn
  <2>3. HasMetadata[c] \/ ~IsFile(Meta(c))'
    BY <1>1, <1>4, <1>7 DEF IsFile, Used, Meta
  <2>4. WriteKnows(c)'
    BY <1>2, <1>4, <1>7, <2>1, <2>3 DEF WriteKnows
  <2> QED
    BY <1>3, <2>2, <2>4 DEF OwnResult, CallKnows
<1> QED
  BY <1>5, <1>6, <1>7

\* The data is complete, and the write acknowledged.
LEMMA OwnDataWritten ==
  ASSUME NEW n, NEW c, OwnStep(n, c), dataWritten(c)
  PROVE  OwnResult(n, c)
<1>1. PICK m : m = Meta(c) /\ m = <<n, "meta">>
  BY OwnPaths
<1>2. PICK l : l = link[c] /\ l \in {n} \X DataForms /\ l[1] = n /\ l[2] # "dirMeta"
  BY OwnPaths, FormsDiffer DEF dataWritten, Working, Outcomes
<1>3. Kind[c] = "write"
  BY OwnPaths DEF dataWritten, StepIsRight
<1>4. /\ pc[c] = "data" /\ OneFile(n) /\ Has(n, l) /\ c \in Calls /\ Target[c] = n
      /\ n \in stripped \/ MetadataIsWritten(c)
      /\ IsFile(l) /\ fs[l].by = {c}
  BY <1>2, <1>3, OwnPaths
  DEF dataWritten, OwnStep, FilesAreRight, CallKnows, WriteKnows, Running, Outcomes
<1>5. Close(c, l) /\ pc'[c] = "done"
  BY <1>2, OwnPaths DEF dataWritten
<1>6. fs[l] \in Nodes
  BY <1>4 DEF OwnStep, Before, FilesTyped, Used, IsFile
<1>7. Writers(l) = {c}
  <2>1. c \in Writers(l)
    BY <1>2, <1>4 DEF Writers
  <2>2. \A d \in Writers(l) : d = c
    BY <1>2, OwnWriters
  <2> QED
    BY <2>1, <2>2
<1>8. PICK node : WrittenBy(node, c) /\ ~node.dir /\ Put(l, node)
  <2> DEFINE node == [fs[l] EXCEPT !.whole = Writers(l) = {c}]
  <2>1. node.by = {c} /\ node.whole /\ ~node.dir
    BY <1>4, <1>6, <1>7 DEF Nodes, IsFile
  <2>2. Put(l, node)
    BY <1>5, <1>7 DEF Close
  <2> QED
    BY <2>1, <2>2 DEF WrittenBy
<1>9. /\ DataFiles(n)' = DataFiles(n) \cup {l} /\ fs'[l] = node
      /\ (Used(m)' <=> Used(m)) /\ (Used(m) => fs'[m] = fs[m])
  BY <1>1, <1>2, <1>8, DataPut DEF WrittenBy
<1>10. DataFiles(n)' = {l}
  <2>1. DataFiles(n) \subseteq {l}
    BY <1>4 DEF Has, IsFile
  <2> QED
    BY <1>9, <2>1
<1>11. IsOf(n, c)'
  <2>1. \A p \in DataFiles(n)' : WrittenBy(fs'[p], c)
    BY <1>8, <1>9, <1>10
  <2>2. \/ n \in stripped'
        \/ IF HasMetadata[c] THEN Used(m)' /\ WrittenBy(fs'[m], c) ELSE ~Used(m)'
    BY <1>1, <1>4, <1>9, OwnStripped DEF MetadataIsWritten, WrittenBy
  <2>3. c # "initial"
    BY <1>4, CallsAssumption
  <2> QED
    BY <1>1, <2>1, <2>2, <2>3 DEF IsOf, WrittenBy
<1>12. Finishes(c)
  BY <1>3, <1>4, <1>5 DEF Finishes, Ends, Running, Outcomes
<1>13. acked'[n] = c
  BY <1>4, <1>12 DEF OwnStep, Before, HistoryIs
<1>14. \A d \in Calls : Running(d)' /\ Changes(d) => Target[d] # n
  <2>1. ~Running(c)'
    BY <1>5 DEF Running, Outcomes
  <2>2. \A d \in Calls \ {c} : Running(d)' => Running(d)
    BY DEF OwnStep, Before, CallSteps, SameCall, Running
  <2> QED
    BY <2>1, <2>2 DEF OwnStep, Touches, Changes
<1>15. AckedIsThere(n)'
  BY <1>3, <1>4, <1>10, <1>11, <1>13, <1>14 DEF AckedIsThere, Changes
<1>16. QuietIsConsistent(n)' /\ OrphanIsOfWrite(n)' /\ OneFile(n)'
  BY <1>4, <1>10, <1>11 DEF QuietIsConsistent, OrphanIsOfWrite, OneFile
<1> QED
  BY <1>5, <1>15, <1>16 DEF OwnResult, FilesAreRight, Running, Outcomes

\* The data or the file has an error.
LEMMA OwnWriteFails ==
  ASSUME NEW n, NEW c, OwnStep(n, c), writeFails(c)
  PROVE  OwnResult(n, c)
<1>1. PICK l : l = link[c]
  OBVIOUS
<1>2. /\ pc[c] \in {"metadata", "data"} /\ fs' = fs /\ link' = link /\ Kind[c] = "write"
      /\ pc'[c] = IF pc[c] = "data" THEN "cleanUp" ELSE "failed"
  BY OwnPaths DEF writeFails, files, StepIsRight, OwnStep, Changes
<1>3. OneFile(n) /\ OneFile(n)' /\ WriteKnows(c) /\ Target[c] = n
  BY <1>2 DEF OwnStep, FilesAreRight, CallKnows, OneFile, DataFiles, DocumentFiles, Running, Outcomes
<1>4. FilesAreRight(n)'
  BY <1>2, <1>3, OwnGoesOn
<1>5. Has(n, l) => Has(n, l)'
  BY <1>2 DEF Has, Used, DataFiles, DocumentFiles
<1>6. ~IsFile(Meta(c)) => ~IsFile(Meta(c))'
  BY <1>2 DEF IsFile, Used, Meta
<1>7. Running(c)' => pc[c] = "data" /\ pc'[c] = "cleanUp"
  BY <1>2 DEF Running, Outcomes
<1>8. Running(c)' => WriteKnows(c)'
  BY <1>1, <1>2, <1>3, <1>5, <1>6, <1>7 DEF WriteKnows
<1> QED
  BY <1>2, <1>4, <1>8 DEF OwnResult, CallKnows

\* The metadata of data that could not be written is removed.
LEMMA OwnCleanUp ==
  ASSUME NEW n, NEW c, OwnStep(n, c), cleanUp(c)
  PROVE  OwnResult(n, c)
<1>1. PICK m : m = Meta(c) /\ m = <<n, "meta">> /\ m # <<Root, "plain">>
  BY OwnPaths
<1>2. Kind[c] = "write" /\ pc[c] = "cleanUp" /\ pc'[c] = "failed" /\ OneFile(n)
  BY OwnPaths DEF cleanUp, StepIsRight, OwnStep, FilesAreRight
<1>3. HasMetadata[c] \/ ~IsFile(m)
  BY <1>1, <1>2 DEF OwnStep, CallKnows, WriteKnows, Running, Outcomes
<1>4. ~IsFile(m)' /\ DataFiles(n)' = DataFiles(n)
  <2>1. CASE HasMetadata[c] /\ CanUnlink(m)
    <3>1. Unlink(m)
      BY <1>1, <2>1 DEF cleanUp
    <3> QED
      BY <1>1, <3>1, MetadataUnlink DEF IsFile
  <2>2. CASE ~(HasMetadata[c] /\ CanUnlink(m))
    <3>1. ~IsFile(m) /\ fs' = fs
      BY <1>1, <1>3, <2>2, CannotUnlink DEF cleanUp, OwnStep, Before
    <3> QED
      BY <3>1 DEF IsFile, Used, DataFiles, DocumentFiles
  <2> QED
    BY <2>1, <2>2
<1>5. OneFile(n)'
  BY <1>2, <1>4 DEF OneFile
<1>6. FilesAreRight(n)'
  BY <1>1, <1>2, <1>4, <1>5, OwnGoesOn
<1> QED
  BY <1>2, <1>6 DEF OwnResult, Running, Outcomes

\* The metadata goes before the document that is deleted.
LEMMA OwnUnlinkMetadata ==
  ASSUME NEW n, NEW c, OwnStep(n, c), unlinkMetadata(c)
  PROVE  OwnResult(n, c)
<1>1. PICK m : m = Meta(c) /\ m = <<n, "meta">> /\ m # <<Root, "plain">>
  BY OwnPaths
<1>2. PICK l : l = link[c] /\ l \in {n} \X DataForms /\ l[2] # "meta"
  BY OwnPaths, FormsDiffer DEF unlinkMetadata, Working, Outcomes
<1>3. Kind[c] = "delete" /\ pc[c] \in {"unlinkMetadata", "unlinkOnly"}
  BY OwnPaths DEF unlinkMetadata, StepIsRight
<1>4. /\ \/ /\ CanUnlink(m) /\ Unlink(m) /\ pc'[c] \in {"notFound", "remove"}
            /\ pc'[c] = "remove" => pc[c] = "unlinkMetadata"
         \/ ~CanUnlink(m) /\ pc'[c] = "failed" /\ fs' = fs
      /\ OneFile(n) /\ link' = link
  BY <1>1, OwnPaths DEF unlinkMetadata, OwnStep, FilesAreRight
<1>5. /\ ~IsFile(m)' /\ DataFiles(n)' = DataFiles(n)
      /\ \A p : p[2] # "meta" => (Used(p)' <=> Used(p)) /\ (Used(p) => fs'[p] = fs[p])
  <2>1. CASE Unlink(m)
    BY <1>1, <2>1, MetadataUnlink DEF IsFile
  <2>2. CASE ~CanUnlink(m) /\ fs' = fs
    <3>1. ~IsFile(m)
      BY <1>1, <2>2, CannotUnlink DEF OwnStep, Before
    <3> QED
      BY <2>2, <3>1 DEF IsFile, Used, DataFiles, DocumentFiles
  <2> QED
    BY <1>4, <2>1, <2>2
<1>6. OneFile(n)'
  BY <1>4, <1>5 DEF OneFile
<1>7. FilesAreRight(n)'
  BY <1>1, <1>3, <1>4, <1>5, <1>6, OwnGoesOn
<1>8. pc[c] = "unlinkMetadata" => IsFile(l)
  BY <1>2, <1>3 DEF OwnStep, CallKnows, DeleteKnows, Running, Outcomes
<1>9. DeleteKnows(c)'
  BY <1>1, <1>2, <1>4, <1>5, <1>8 DEF DeleteKnows, IsFile, Meta
<1> QED
  BY <1>3, <1>7, <1>9 DEF OwnResult, CallKnows

\* The document is deleted.
LEMMA OwnRemove ==
  ASSUME NEW n, NEW c, OwnStep(n, c), remove(c)
  PROVE  OwnResult(n, c)
<1>1. PICK m : m = Meta(c) /\ m = <<n, "meta">>
  BY OwnPaths
<1>2. PICK l : l = link[c] /\ l \in {n} \X DataForms
  BY OwnPaths DEF remove, Working, Outcomes
<1>3. Kind[c] = "delete" /\ pc[c] = "remove" /\ OneFile(n)
  BY OwnPaths DEF remove, StepIsRight, OwnStep, FilesAreRight
<1>4. IsFile(l) /\ ~IsFile(m)
  BY <1>1, <1>2, <1>3 DEF OwnStep, CallKnows, DeleteKnows, Running, Outcomes
<1>5. Unlink(l) /\ pc'[c] = "done"
  BY <1>2, <1>3, <1>4, OwnPaths DEF remove
<1>6. DataFiles(n)' = DataFiles(n) \ {l} /\ ~IsFile(m)'
  BY <1>1, <1>2, <1>4, <1>5, DataUnlink DEF IsFile
<1>7. l \in DataFiles(n)
  BY <1>2, <1>4, DataFilesAre DEF IsFile, Used
<1>8. DataFiles(n)' = {}
  BY <1>3, <1>6, <1>7 DEF OneFile
<1>9. ~Finishes(c)
  BY <1>3 DEF Finishes
<1>10. OneFile(n)' /\ OrphanIsOfWrite(n)' /\ QuietIsConsistent(n)'
  BY <1>8, <1>1, <1>6 DEF OneFile, OrphanIsOfWrite, QuietIsConsistent
<1> QED
  BY <1>5, <1>9, <1>10, OwnAcked DEF OwnResult, FilesAreRight, Running, Outcomes

\* Every step of a request that changes a document.
LEMMA OwnSteps ==
  ASSUME NEW n, NEW c, OwnStep(n, c), Step(c)
  PROVE  OwnResult(n, c)
<1>1. ~mkdir(c) /\ ~getMetadata(c) /\ ~opendir(c)
  BY OwnPaths DEF mkdir, getMetadata, opendir, Starts
<1>2. ~getRawMetadata(c) /\ ~getData(c) /\ ~readdir(c) /\ ~getChildMetadata(c)
  BY OwnPaths DEF getRawMetadata, getData, readdir, getChildMetadata, StepIsRight
<1>3. ~OnMetadataStep(c)
  <2>1. ~OnMetadata(c)
    BY MetadataCall DEF OwnStep
  <2> QED
    BY <2>1, OwnPaths, MetadataSteps DEF OwnStep, Before
<1> QED
  BY <1>1, <1>2, <1>3, OwnStarts, OwnUnlinkOld, OwnOpenMetadata, OwnMetadataWritten,
     OwnRemoveMetadata, OwnOpenData, OwnDataWritten, OwnWriteFails, OwnCleanUp,
     OwnUnlinkMetadata, OwnRemove DEF Step, OnMetadataStep

\* All documents after a step.
LEMMA DocumentsStep ==
  ASSUME NEW c \in Calls, Before(c), DocumentsAreRight, Step(c)
  PROVE  DocumentsAreRight'
<1> SUFFICES ASSUME NEW n \in Names \ overlapped'
             PROVE  Document(n)'
  BY DEF DocumentsAreRight
<1>1. Document(n) /\ FilesAreRight(n)
  BY DEF DocumentsAreRight, Before, HistoryIs, Document, FilesAreRight
<1>2. CASE Changes(c) /\ Target[c] = n
  <2>1. \A d \in Calls \ {c} : Running(d) /\ Touches(d) => Target[d] # n
    BY <1>2, ChangesAlone DEF Before, Touches, Changes
  <2>2. OwnStep(n, c)
    BY <1>1, <1>2, <2>1 DEF OwnStep, Document
  <2>3. OwnResult(n, c)
    BY <2>2, OwnSteps
  <2>4. ASSUME NEW d \in Calls, Running(d)', Target[d] = n
        PROVE  CallKnows(d)'
    <3>1. CASE d = c
      BY <2>3, <2>4, <3>1 DEF OwnResult
    <3>2. CASE d # c
      BY <1>1, <2>4, <3>2, OthersKeepKnowledge DEF Document
    <3> QED
      BY <3>1, <3>2
  <2> QED
    BY <2>3, <2>4 DEF OwnResult, FilesAreRight, Document
<1>3. CASE ~(Changes(c) /\ Target[c] = n)
  <2>1. FilesAreRight(n)'
    BY <1>1, <1>3, OthersKeepFiles
  <2>2. ASSUME NEW d \in Calls, Running(d)', Target[d] = n
        PROVE  CallKnows(d)'
    <3>1. CASE d = c
      <4>1. CASE Kind[c] = "get"
        BY <3>1, <4>1, ReaderKnows
      <4>2. CASE Kind[c] # "get"
        BY <1>3, <2>2, <3>1, <4>2 DEF CallKnows, Changes
      <4> QED
        BY <4>1, <4>2
    <3>2. CASE d # c
      BY <1>1, <2>2, <3>2, OthersKeepKnowledge DEF Document
    <3> QED
      BY <3>1, <3>2
  <2> QED
    BY <2>1, <2>2 DEF FilesAreRight, Document
<1> QED
  BY <1>2, <1>3

\* All documents after a crash.
LEMMA DocumentsCrash ==
  ASSUME CallsTyped, DocumentsAreRight, crash, RememberWrites, RememberMetadata
  PROVE  DocumentsAreRight'
<1> SUFFICES ASSUME NEW n \in Names \ overlapped'
             PROVE  Document(n)'
  BY DEF DocumentsAreRight
<1>1. Document(n)
  BY CrashHistory DEF DocumentsAreRight
<1>2. fs' = fs
  BY DEF crash, files
<1>3. /\ DataFiles(n)' = DataFiles(n) /\ (IsFile(<<n, "meta">>)' <=> IsFile(<<n, "meta">>))
      /\ \A w : IsOf(n, w)' <=> IsOf(n, w)
  BY <1>2, CrashMetadataHistory DEF DataFiles, DocumentFiles, IsFile, Used, IsOf, WrittenBy
<1>4. \A d \in Calls : Running(d) /\ Changes(d) /\ Target[d] = n /\ pc[d] \notin {"start", "stat"} =>
        \E t \in torn' : t[1] = n /\ t[2] \in {"crashed", "metadata"}
  <2> SUFFICES ASSUME NEW d \in Calls, Running(d), Changes(d), Target[d] = n,
                      pc[d] \notin {"start", "stat"}
               PROVE  \E t \in torn' : t[1] = n /\ t[2] \in {"crashed", "metadata"}
    OBVIOUS
  <2>1. <<n, "crashed">> \in torn'
    BY CrashHistory
  <2> QED
    BY <2>1
<1>5. torn \subseteq torn' /\ DOMAIN acked' = DOMAIN acked
      /\ \A k \in DOMAIN acked : acked'[k] = acked[k]
  BY CrashHistory
<1>6. OneFile(n)'
  BY <1>1, <1>3 DEF Document, OneFile
<1>7. OrphanIsOfWrite(n)'
  <2>1. ASSUME NEW d \in Calls, Kind[d] = "write", Target[d] = n,
               pc[d] \in {"writeMetadata", "metadata", "openData", "cleanUp"}
        PROVE  \E t \in torn' : t[1] = n /\ t[2] \in {"crashed", "metadata"}
    BY <1>4, <2>1 DEF Changes, Running, Outcomes
  <2> QED
    BY <1>1, <1>3, <1>5, <2>1 DEF Document, OrphanIsOfWrite
<1>8. QuietIsConsistent(n)'
  <2>1. (\A t \in torn' : t[1] # n) => Quiet(n)
    BY <1>4 DEF Quiet
  <2> QED
    BY <1>1, <1>3, <1>5, <2>1 DEF Document, QuietIsConsistent
<1>9. AckedIsThere(n)'
  BY <1>1, <1>3, <1>5, OverlapsCrash DEF Document, AckedIsThere, Changes
<1> QED
  BY <1>6, <1>7, <1>8, <1>9, OverlapsCrash DEF Document

-----------------------------------------------------------------------------
(* Listings.                                                               *)

\* What there is stays a file or a directory; at most one thing goes.
LEMMA KindsStay ==
  ASSUME FilesTyped, NEW c \in Calls, FileEffect(c), NEW p \in DOMAIN fs
  PROVE  /\ p \in DOMAIN fs' => fs'[p].dir = fs[p].dir
         /\ p \notin DOMAIN fs' => /\ DOMAIN fs' = DOMAIN fs \ {p}
                                   /\ \A q \in DOMAIN fs' : fs'[q] = fs[q]
<1>1. CASE fs' = fs
  BY <1>1
<1>2. ASSUME NEW r, NEW node, WritesAt(c, r, node)
      PROVE  p \in DOMAIN fs' /\ fs'[p].dir = fs[p].dir
  <2>1. /\ DOMAIN fs' = DOMAIN fs \cup {r} /\ fs'[r] = node /\ node.dir = FALSE
        /\ \A q \in DOMAIN fs \ {r} : fs'[q] = fs[q]
        /\ (r \in DOMAIN fs => fs[r].dir = FALSE)
    BY <1>2, PutIs, NodesAre DEF WritesAt, IsFile, Used, FilesTyped
  <2> QED
    BY <2>1
<1>3. ASSUME NEW r, Unlink(r)
      PROVE  /\ p \in DOMAIN fs' => fs'[p].dir = fs[p].dir
             /\ p \notin DOMAIN fs' => /\ DOMAIN fs' = DOMAIN fs \ {p}
                                       /\ \A q \in DOMAIN fs' : fs'[q] = fs[q]
  BY <1>3, UnlinkIs
<1>4. ASSUME NEW P, Makes(c, P)
      PROVE  p \in DOMAIN fs' /\ fs'[p].dir = fs[p].dir
  <2>1. DOMAIN fs' = DOMAIN fs \cup P /\ \A q \in DOMAIN fs : fs'[q] = fs[q]
    BY <1>4, MakesIs
  <2> QED
    BY <2>1
<1> QED
  BY <1>1, <1>2, <1>3, <1>4 DEF FileEffect, RemovesAt, RemovesDirectory, RemovesMetadata

\* The members of a container.
LEMMA MembersAre ==
  ASSUME NEW f, NEW n, NEW x
  PROVE  x \in Members(f, n) <=>
           \E p \in DOMAIN f : /\ p # <<Root, "plain">> /\ p[2] \notin {"meta", "dirMeta"}
                               /\ Parent[p[1]] = n /\ x = <<p[1], f[p].dir>>
BY DEF Members, mapFilePathToUrl

\* An entry that goes leaves no other with its identifier.
LEMMA EntryGoes ==
  ASSUME FilesTyped, FilesAreInDirectories, NEW c \in Calls, FileEffect(c),
         NEW p \in DOMAIN fs, p[2] \in DataForms, p \notin DOMAIN fs', OneFile(p[1])
  PROVE  \A n : <<p[1], fs[p].dir>> \notin Members(fs', n)
<1> SUFFICES ASSUME NEW n, <<p[1], fs[p].dir>> \in Members(fs', n)
             PROVE  FALSE
  OBVIOUS
<1>1. DOMAIN fs' = DOMAIN fs \ {p} /\ \A q \in DOMAIN fs' : fs'[q] = fs[q]
  BY KindsStay
<1>2. PICK q \in DOMAIN fs' : /\ q[2] \notin {"meta", "dirMeta"}
                              /\ <<p[1], fs[p].dir>> = <<q[1], fs'[q].dir>>
  BY MembersAre
<1>3. q \in DOMAIN fs /\ q # p /\ q[1] = p[1] /\ fs[q].dir = fs[p].dir
  BY <1>1, <1>2
<1>4. p = <<p[1], p[2]>> /\ q = <<q[1], q[2]>> /\ q[2] \in Forms
  BY <1>3, PathShape DEF FilesTyped
<1>5. q[2] \in DataForms
  BY <1>2, <1>4 DEF Forms, DataForms
<1>6. CASE fs[p].dir
  BY <1>3, <1>4, <1>5, <1>6 DEF FilesAreInDirectories
<1>7. CASE ~fs[p].dir
  <2>1. p \in DataFiles(p[1]) /\ q \in DataFiles(p[1])
    BY <1>3, <1>5, <1>7, DataFilesAre
  <2> QED
    BY <1>3, <2>1 DEF OneFile
<1> QED
  BY <1>6, <1>7

\* What a listing remembers of the container.
LEMMA ListingHistory ==
  ASSUME RememberListings, NEW d \in Calls, Kind[d] = "list", Running(d)'
  PROVE  /\ always'[d] \subseteq Members(fs', Target[d])
         /\ Members(fs', Target[d]) \subseteq ever'[d]
         /\ ~Begins(d) => always'[d] \subseteq always[d] /\ ever[d] \subseteq ever'[d]
<1>1. pc'[d] \notin {"idle"} \cup Outcomes
  BY DEF Running
<1>2. always'[d] = IF Begins(d) THEN Members(fs', Target[d])
                   ELSE always[d] \cap Members(fs', Target[d])
  BY <1>1 DEF RememberListings
<1>3. ever'[d] = ever[d] \cup Members(fs', Target[d])
  BY <1>1 DEF RememberListings
<1> QED
  BY <1>2, <1>3

\* An entry of a listing after a step.
LEMMA EntryStep ==
  ASSUME NEW c \in Calls, Before(c), DocumentsAreRight, RememberListings,
         NEW d \in Calls, Kind[d] = "list", Running(d)', ~Begins(d),
         entries[d] \in SUBSET (Paths \X Ids), NEW e \in entries[d], EntryIsRight(d, e)
  PROVE  EntryIsRight(d, e)'
<1>1. always'[d] \subseteq Members(fs', Target[d]) /\ always'[d] \subseteq always[d]
      /\ overlapped \subseteq overlapped'
  BY ListingHistory DEF Before, HistoryIs
<1>2. PICK p \in Paths, x \in Ids : e = <<p, x>>
  OBVIOUS
<1>3. x = <<x[1], x[2]>> /\ x[1] \in Names /\ x[2] \in BOOLEAN
  BY DEF Ids
<1>4. /\ p[1] = x[1] /\ Parent[x[1]] = Target[d] /\ x[1] # Root
      /\ p[2] \in DataForms /\ (x[2] => p[2] = "plain")
      /\ \/ Used(p) /\ fs[p].dir = x[2]
         \/ x \notin always[d] \/ x[1] \in overlapped
  BY <1>2 DEF EntryIsRight
<1>5. \/ Used(p)' /\ fs'[p].dir = x[2]
      \/ x \notin always'[d] \/ x[1] \in overlapped'
  <2>1. CASE x \notin always[d] \/ x[1] \in overlapped
    BY <1>1, <2>1
  <2>2. CASE Used(p) /\ fs[p].dir = x[2] /\ x[1] \notin overlapped
    <3>1. OneFile(p[1])
      BY <1>3, <1>4, <2>2 DEF DocumentsAreRight, Document
    <3>2. CASE p \in DOMAIN fs'
      BY <2>2, <3>2, KindsStay DEF Before, Used
    <3>3. CASE p \notin DOMAIN fs'
      <4>1. <<p[1], fs[p].dir>> \notin Members(fs', Target[d])
        BY <1>4, <2>2, <3>1, <3>3, EntryGoes DEF Before, Used
      <4>2. x = <<p[1], fs[p].dir>>
        BY <1>3, <1>4, <2>2
      <4> QED
        BY <1>1, <4>1, <4>2
    <3> QED
      BY <3>2, <3>3
  <2> QED
    BY <1>4, <2>1, <2>2
<1> QED
  BY <1>2, <1>4, <1>5 DEF EntryIsRight

\* The entries that readdir finds.
LEMMA ReaddirKnows ==
  ASSUME NEW c \in Calls, Before(c), RememberListings, readdir(c), Kind[c] = "list",
         Running(c)', ListingKnows(c)
  PROVE  ListingKnows(c)'
<1>1. /\ pc[c] = "readdir" /\ pc'[c] = "lstat" /\ fs' = fs /\ children' = children
      /\ children[c] = {} /\ ~Begins(c)
  BY DEF readdir, Go, Before, CallsTyped, ListingKnows, Begins
<1>2. entries'[c] = {<<p, mapFilePathToUrl(fs, p)>> : p \in Visible(Contents(Target[c]))}
  BY DEF readdir, Before, CallsTyped
<1>3. /\ always'[c] \subseteq Members(fs, Target[c]) /\ Members(fs, Target[c]) \subseteq ever'[c]
  BY <1>1, ListingHistory
<1>4. ASSUME NEW e \in entries'[c]
      PROVE  e[2] \in ever'[c] /\ EntryIsRight(c, e)'
  <2>1. PICK p \in Visible(Contents(Target[c])) : e = <<p, mapFilePathToUrl(fs, p)>>
    BY <1>2
  <2>2. /\ p \in DOMAIN fs /\ p # <<Root, "plain">> /\ p[2] \notin {"meta", "dirMeta"}
        /\ Folder(p) = Target[c]
    BY DEF Visible, Contents
  <2>3. Parent[p[1]] = Target[c]
    BY <2>2 DEF Folder
  <2>4. PICK x : x = mapFilePathToUrl(fs, p) /\ x = <<p[1], fs[p].dir>>
    BY DEF mapFilePathToUrl
  <2>5. p = <<p[1], p[2]>> /\ p[2] \in Forms /\ p[1] # Root
    <3>1. p = <<p[1], p[2]>> /\ p[2] \in Forms
      BY <2>2, PathShape DEF Before, FilesTyped
    <3> QED
      BY <2>2, <3>1 DEF Before, FilesAreInDirectories
  <2>6. x \in Members(fs, Target[c])
    BY <2>2, <2>3, <2>4, MembersAre
  <2>7. p[2] \in DataForms /\ (fs[p].dir => p[2] = "plain")
    BY <2>2, <2>5 DEF Forms, DataForms, Before, FilesAreInDirectories
  <2>8. e = <<p, x>> /\ x[1] = p[1] /\ x[2] = fs[p].dir
    BY <2>1, <2>4
  <2>9. EntryIsRight(c, e)'
    BY <1>1, <2>2, <2>3, <2>5, <2>7, <2>8 DEF EntryIsRight, Used
  <2> QED
    BY <1>3, <2>6, <2>8, <2>9
<1>5. always'[c] \subseteq {e[2] : e \in entries'[c]}
  <2> SUFFICES ASSUME NEW x \in Members(fs, Target[c])
               PROVE  \E e \in entries'[c] : x = e[2]
    BY <1>3
  <2>1. PICK p \in DOMAIN fs : /\ p # <<Root, "plain">> /\ p[2] \notin {"meta", "dirMeta"}
                               /\ Parent[p[1]] = Target[c] /\ x = <<p[1], fs[p].dir>>
    BY MembersAre
  <2>2. p \in Visible(Contents(Target[c]))
    BY <2>1 DEF Visible, Contents, Folder
  <2>3. <<p, mapFilePathToUrl(fs, p)>> \in entries'[c]
    BY <1>2, <2>2
  <2> QED
    BY <2>1, <2>3 DEF mapFilePathToUrl
<1> QED
  BY <1>1, <1>3, <1>4, <1>5 DEF ListingKnows

\* The entry that getChildMetadata looks at.
LEMMA LstatKnows ==
  ASSUME NEW c \in Calls, Before(c), DocumentsAreRight, RememberListings, getChildMetadata(c),
         Kind[c] = "list", Running(c)', ListingKnows(c)
  PROVE  ListingKnows(c)'
<1>1. PICK e \in entries[c] :
        /\ entries' = [entries EXCEPT ![c] = @ \ {e}]
        /\ \/ /\ Used(e[1]) /\ UNCHANGED pc
              /\ children' = [children EXCEPT ![c] = @ \cup {e[2]}]
           \/ ~Used(e[1]) /\ Go(c, "failed") /\ UNCHANGED children
  <2>1. ~Go(c, "done")
    BY DEF Go, Running, Outcomes, Before, CallsTyped
  <2> QED
    BY <2>1 DEF getChildMetadata
<1>2. pc[c] = "lstat" /\ fs' = fs
  BY DEF getChildMetadata
<1>3. Used(e[1]) /\ pc' = pc /\ children'[c] = children[c] \cup {e[2]}
      /\ entries'[c] = entries[c] \ {e}
  <2>1. ~Go(c, "failed")
    BY DEF Go, Running, Outcomes, Before, CallsTyped
  <2> QED
    BY <1>1, <2>1 DEF Before, CallsTyped
<1>4. ~Begins(c)
  BY <1>2 DEF Begins
<1>5. /\ always'[c] \subseteq Members(fs', Target[c]) /\ Members(fs', Target[c]) \subseteq ever'[c]
      /\ always'[c] \subseteq always[c] /\ ever[c] \subseteq ever'[c]
  BY <1>4, ListingHistory
<1>6. /\ always[c] \subseteq children[c] \cup {x[2] : x \in entries[c]}
      /\ children[c] \subseteq ever[c]
      /\ \A x \in entries[c] : x[2] \in ever[c] /\ EntryIsRight(c, x)
  BY <1>2 DEF ListingKnows
<1>7. always'[c] \subseteq children'[c] \cup {x[2] : x \in entries'[c]}
  BY <1>3, <1>5, <1>6
<1>8. children'[c] \subseteq ever'[c]
  BY <1>3, <1>5, <1>6
<1>9. \A x \in entries'[c] : x[2] \in ever'[c] /\ EntryIsRight(c, x)'
  <2>1. entries[c] \in SUBSET (Paths \X Ids)
    BY DEF Before, CallsTyped
  <2> QED
    BY <1>3, <1>4, <1>5, <1>6, <2>1, EntryStep
<1> QED
  BY <1>2, <1>3, <1>5, <1>7, <1>8, <1>9 DEF ListingKnows

\* All listings after a step.
LEMMA ListingsStep ==
  ASSUME NEW c \in Calls, Before(c), Step(c), DocumentsAreRight, RememberListings, ListingsAreRight
  PROVE  ListingsAreRight'
<1> SUFFICES ASSUME NEW d \in Calls, Kind[d] = "list"
             PROVE  /\ pc'[d] \in {"idle", "start"} => children'[d] = {}
                    /\ Running(d)' => ListingKnows(d)'
  BY DEF ListingsAreRight
<1>0. /\ pc[d] \in {"idle", "start"} => children[d] = {}
      /\ Running(d) => ListingKnows(d)
  BY DEF ListingsAreRight
<1>1. CASE d # c
  <2>1. SameCall(d) /\ ~Begins(d) /\ (Running(d)' => Running(d))
    BY <1>1 DEF Before, CallSteps, SameCall, Begins, Running
  <2>2. ASSUME Running(d)'
        PROVE  ListingKnows(d)'
    <3>1. /\ always'[d] \subseteq Members(fs', Target[d]) /\ Members(fs', Target[d]) \subseteq ever'[d]
          /\ always'[d] \subseteq always[d] /\ ever[d] \subseteq ever'[d]
      BY <2>1, <2>2, ListingHistory
    <3>2. ListingKnows(d)
      BY <1>0, <2>1, <2>2
    <3>3. entries[d] \in SUBSET (Paths \X Ids)
      BY DEF Before, CallsTyped
    <3>4. pc[d] = "lstat" => \A e \in entries[d] : EntryIsRight(d, e)'
      BY <2>1, <2>2, <3>2, <3>3, EntryStep DEF ListingKnows
    <3>5. pc'[d] = pc[d] /\ entries'[d] = entries[d] /\ children'[d] = children[d]
      BY <2>1 DEF SameCall
    <3> QED
      BY <3>1, <3>2, <3>4, <3>5 DEF ListingKnows
  <2> QED
    BY <1>0, <2>1, <2>2 DEF SameCall
<1>2. CASE d = c /\ (readdir(c) \/ getChildMetadata(c))
  <2>1. pc'[c] \notin {"idle", "start"} /\ Running(c)
    BY <1>2 DEF readdir, getChildMetadata, Before, CallSteps, Running, Outcomes
  <2> QED
    BY <1>0, <1>2, <2>1, ReaddirKnows, LstatKnows
<1>3. CASE d = c /\ ~readdir(c) /\ ~getChildMetadata(c)
  <2>1. \A x : Go(c, x) => pc'[c] = x
    BY DEF Go, Before, CallsTyped
  <2>2. begin(c) \/ refuse(c) \/ opendir(c)
    <3>1. StepIsRight(c)
      BY DEF Before, StepsAreRight
    <3>2. ~OnMetadataStep(c)
      BY <1>3, <3>1, MetadataSteps, MetadataCall DEF Before
    <3> QED
      BY <1>3, <3>1, <3>2
      DEF StepIsRight, Step, refuseType, verifyExistingExtension, unlinkOld, openMetadata,
        metadataWritten, removeMetadata, openData, dataWritten, writeFails, cleanUp, mkdir,
        mapUrlToFilePath, getStats, unlinkMetadata, remove, getMetadata, getRawMetadata, getData,
        Starts, OnMetadataStep
  <2>3. children' = children /\ pc[c] \in {"idle", "start"} /\ pc'[c] # "lstat"
    <3>1. CASE refuse(c)
      BY <2>1, <3>1, CallsAssumption DEF refuse, files
    <3> QED
      BY <2>1, <2>2, <3>1 DEF begin, opendir, Starts, files
  <2>4. children'[d] = {}
    BY <1>0, <1>3, <2>3
  <2> QED
    BY <1>3, <2>3, <2>4, ListingHistory DEF ListingKnows
<1> QED
  BY <1>1, <1>2, <1>3

\* All listings after a crash: none is running.
LEMMA ListingsCrash ==
  ASSUME ListingsAreRight, crash
  PROVE  ListingsAreRight'
<1>1. children' = children
  BY DEF crash, files
<1>2. \A d \in Calls : pc'[d] \in {"idle", "start"} => pc'[d] = pc[d]
  BY DEF crash
<1> QED
  BY <1>1, <1>2, OverlapsCrash DEF ListingsAreRight
-----------------------------------------------------------------------------
(* The invariant.                                                          *)

\* What a step of a call starts from and leads to.
LEMMA BeforeStep ==
  ASSUME TypeInv, StepsAreRight, FilesAreInDirectories, OverlapsAreSeen,
         NEW c \in Calls, Step(c), RememberWrites, RememberMetadata
  PROVE  Before(c)
<1>1. StepIsRight(c) /\ FilesTyped /\ CallsTyped
  BY DEF TypeInv, StepsAreRight
<1>2. CallSteps(c) /\ FileEffect(c)
  BY <1>1, StepCallSteps, StepEffect
<1>3. FilesTyped' /\ FilesAreInDirectories'
  BY <1>1, <1>2, FilesTypedStep, DirectoriesStep
<1>4. HistoryIs(c)
  BY <1>1, <1>2, OutcomeOfStep, StepHistory
<1>5. StepsAreRight'
  <2> SUFFICES ASSUME NEW d \in Calls
               PROVE  StepIsRight(d)'
    BY DEF StepsAreRight
  <2>1. CASE d = c
    BY <1>2, <2>1 DEF CallSteps
  <2>2. CASE d # c
    <3>1. StepIsRight(d) /\ SameCall(d)
      BY <1>2, <2>2 DEF CallSteps, StepsAreRight
    <3> QED
      BY <3>1 DEF SameCall, StepIsRight, Working, Touches
  <2> QED
    BY <2>1, <2>2
<1> QED
  BY <1>1, <1>2, <1>3, <1>4, <1>5 DEF Before, CallSteps

\* It holds at the start.
LEMMA InitInv ==
  ASSUME Init
  PROVE  IInv
<1>1. /\ fs \in Initial /\ pc = [c \in Calls |-> "idle"]
      /\ link = [c \in Calls |-> <<Target[c], "plain">>] /\ old = link
      /\ entries = [c \in Calls |-> {}] /\ children = [c \in Calls |-> {}]
      /\ crashes = 0 /\ overlapped = {} /\ torn = {} /\ stripped = {}
      /\ seen = [c \in Calls |-> [meta |-> Nothing, data |-> Nothing]]
      /\ always = [c \in Calls |-> {}] /\ ever = [c \in Calls |-> {}]
  BY DEF Init
<1>2. DOMAIN acked = {}
  BY DEF Init
<1>3. \A c \in Calls : ~Running(c) /\ ~Working(c)
  BY <1>1 DEF Running, Working
<1>4. /\ DOMAIN fs \subseteq Paths
      /\ \A p \in DOMAIN fs :
           /\ fs[p] \in {Directory, [by |-> {"initial"}, dir |-> FALSE, whole |-> TRUE]}
           /\ fs[p] = Directory => p[2] = "plain"
           /\ p[1] = Root => p[2] = "dirMeta" \/ (p[2] = "plain" /\ fs[p] = Directory)
           /\ \/ p = <<Root, "plain">> \/ Folder(p) = Root
              \/ <<Folder(p), "plain">> \in DOMAIN fs /\ fs[<<Folder(p), "plain">>].dir
      /\ \A n \in Names :
           /\ \A p, q \in DocumentFiles(fs, n) : p = q
           /\ <<n, "meta">> \in DOMAIN fs <=> DocumentFiles(fs, n) # {}
  BY <1>1, InitialAssumption
<1>5. FilesTyped
  <2>1. [by |-> {"initial"}, dir |-> FALSE, whole |-> TRUE] \in Nodes
    BY DEF Nodes
  <2> QED
    BY <1>4, <2>1, NodesAre DEF FilesTyped
<1>6. CallsTyped
  <2>1. \A c \in Calls : <<Target[c], "plain">> \in Places
    BY CallsAssumption, FormsDiffer DEF Places, Forms
  <2>2. [meta |-> Nothing, data |-> Nothing] \in [meta : Nodes, data : Nodes]
    BY NodesAre
  <2>3. link \in [Calls -> Places] /\ old \in [Calls -> Places]
    BY <1>1, <2>1
  <2>4. pc \in [Calls -> Pcs]
    BY <1>1 DEF Pcs
  <2>5. seen \in [Calls -> [meta : Nodes, data : Nodes]]
    BY <1>1, <2>2
  <2>6. entries \in [Calls -> SUBSET (Paths \X Ids)] /\ children \in [Calls -> SUBSET Ids]
    BY <1>1
  <2> QED
    BY <2>3, <2>4, <2>5, <2>6 DEF CallsTyped
<1>7. HistoryTyped
  BY <1>1, <1>2 DEF HistoryTyped
<1>8. crashes \in 0 .. MaxCrashes
  BY <1>1, CallsAssumption
<1>9. StepsAreRight
  BY <1>1, <1>3 DEF StepsAreRight, StepIsRight
<1>10. FilesAreInDirectories
  <2> SUFFICES ASSUME NEW p \in DOMAIN fs
               PROVE  /\ fs[p].dir /\ p[2] \in DataForms => p[2] = "plain"
                      /\ p[1] = Root => p[2] = "dirMeta" \/ (p[2] = "plain" /\ fs[p].dir)
                      /\ p = <<Root, "plain">> \/ IsDirectory(Folder(p))
    BY DEF FilesAreInDirectories
  <2>1. fs[p].dir <=> fs[p] = Directory
    <3>1. fs[p] \in {Directory, [by |-> {"initial"}, dir |-> FALSE, whole |-> TRUE]}
      BY <1>4
    <3> QED
      BY <3>1 DEF Directory
  <2> QED
    BY <1>4, <2>1 DEF IsDirectory, Used
<1>11. OverlapsAreSeen
  BY <1>3 DEF OverlapsAreSeen
<1>12. DocumentsAreRight
  <2> SUFFICES ASSUME NEW n \in Names
               PROVE  Document(n)
    BY DEF DocumentsAreRight
  <2>1. OneFile(n)
    BY <1>4 DEF OneFile, DataFiles
  <2>2. Used(<<n, "meta">>) <=> DataFiles(n) # {}
    BY <1>4 DEF DataFiles, Used
  <2>3. DataFiles(n) # {} => IsOf(n, "initial")
    <3>1. ASSUME NEW p \in DOMAIN fs, ~fs[p].dir
          PROVE  WrittenBy(fs[p], "initial")
      <4>1. fs[p] = [by |-> {"initial"}, dir |-> FALSE, whole |-> TRUE]
        BY <1>4, <3>1, NodesAre
      <4> QED
        BY <4>1 DEF WrittenBy
    <3>2. \A p \in DataFiles(n) : WrittenBy(fs[p], "initial")
      BY <3>1, DataFilesAre
    <3>3. PICK m : m = <<n, "meta">>
      OBVIOUS
    <3>4. m \in DOMAIN fs => ~fs[m].dir
      <4>1. m[2] # "plain"
        BY <3>3
      <4>2. m \in DOMAIN fs => fs[m] = [by |-> {"initial"}, dir |-> FALSE, whole |-> TRUE]
        BY <1>4, <4>1
      <4> QED
        BY <4>2
    <3> QED
      BY <2>2, <3>1, <3>2, <3>3, <3>4 DEF IsOf, Used
  <2> QED
    BY <1>2, <1>3, <2>1, <2>2, <2>3
    DEF Document, OrphanIsOfWrite, IsFile, QuietIsConsistent, AckedIsThere
<1>13. ListingsAreRight
  BY <1>1, <1>3 DEF ListingsAreRight
<1> QED
  BY <1>5, <1>6, <1>7, <1>8, <1>9, <1>10, <1>11, <1>12, <1>13 DEF IInv, TypeInv

\* Every step keeps it.
LEMMA NextInv ==
  ASSUME IInv, Next
  PROVE  IInv'
<1>1. RememberWrites /\ RememberMetadata /\ RememberListings
  BY DEF Next
<1>2. ASSUME NEW c \in Calls, Step(c)
      PROVE  IInv'
  <2>1. Before(c)
    BY <1>1, <1>2, BeforeStep DEF IInv
  <2>2. HistoryTyped'
    BY <1>1, <1>2, <2>1, HistoryTypedStep DEF IInv, TypeInv, Before, StepsAreRight
  <2>3. OverlapsAreSeen'
    BY <2>1, OverlapsStep DEF IInv, Before
  <2>4. DocumentsAreRight' /\ ListingsAreRight'
    BY <1>1, <1>2, <2>1, DocumentsStep, ListingsStep DEF IInv
  <2>5. (crashes \in 0 .. MaxCrashes)'
    BY <2>1 DEF Before, CallSteps, IInv, TypeInv
  <2> QED
    BY <2>1, <2>2, <2>3, <2>4, <2>5 DEF Before, IInv, TypeInv
<1>3. CASE crash
  <2>1. UNCHANGED files
    BY <1>3 DEF crash
  <2>2. fs' = fs /\ link' = link /\ old' = old /\ entries' = entries
        /\ children' = children /\ seen' = seen
    BY <2>1 DEF files
  <2>3. FilesTyped' /\ FilesAreInDirectories'
    BY <2>2 DEF IInv, TypeInv, FilesTyped, FilesAreInDirectories, IsDirectory, Used, Folder
  <2>4. CallsTyped'
    <3>1. pc' \in [Calls -> Pcs]
      BY <1>3 DEF crash, IInv, TypeInv, CallsTyped, Pcs, Outcomes
    <3> QED
      BY <2>2, <3>1 DEF IInv, TypeInv, CallsTyped
  <2>5. (crashes \in 0 .. MaxCrashes)'
    BY <1>3, CallsAssumption DEF crash, IInv, TypeInv
  <2>6. HistoryTyped'
    BY <1>1, <1>3, <2>3, HistoryTypedCrash DEF IInv, TypeInv
  <2>7. StepsAreRight'
    <3>1. \A c \in Calls : pc'[c] \in {"idle"} \cup Outcomes
      BY <1>3 DEF crash, Running, Outcomes
    <3> QED
      BY <3>1 DEF StepsAreRight, StepIsRight, Working, Outcomes
  <2>8. OverlapsAreSeen'
    BY <1>3, OverlapsCrash DEF OverlapsAreSeen
  <2>9. DocumentsAreRight' /\ ListingsAreRight'
    BY <1>1, <1>3, DocumentsCrash, ListingsCrash DEF IInv, TypeInv
  <2> QED
    BY <2>3, <2>4, <2>5, <2>6, <2>7, <2>8, <2>9 DEF IInv, TypeInv
<1> QED
  BY <1>2, <1>3 DEF Next

\* So does a step that changes nothing.
LEMMA StutterInv ==
  ASSUME IInv, UNCHANGED vars
  PROVE  IInv'
<1>1. /\ fs' = fs /\ pc' = pc /\ link' = link /\ old' = old /\ entries' = entries
      /\ children' = children /\ seen' = seen /\ crashes' = crashes /\ acked' = acked
      /\ overlapped' = overlapped /\ torn' = torn /\ stripped' = stripped
      /\ always' = always /\ ever' = ever
  BY DEF vars, files, history
<1>2. TypeInv'
  BY <1>1 DEF IInv, TypeInv, FilesTyped, CallsTyped, HistoryTyped
<1>3. StepsAreRight'
  BY <1>1 DEF IInv, StepsAreRight, StepIsRight, Working, Touches
<1>4. FilesAreInDirectories'
  BY <1>1 DEF IInv, FilesAreInDirectories, IsDirectory, Used, Folder
<1>5. OverlapsAreSeen'
  BY <1>1 DEF IInv, OverlapsAreSeen, Running, Touches, Changes
<1>6. \A n, p : (DataFiles(n)' = DataFiles(n)) /\ (Used(p)' <=> Used(p)) /\ (IsFile(p)' <=> IsFile(p))
                /\ (Has(n, p)' <=> Has(n, p))
  BY <1>1 DEF DataFiles, DocumentFiles, Used, IsFile, Has
<1>7. \A n, w : IsOf(n, w)' <=> IsOf(n, w)
  BY <1>1, <1>6 DEF IsOf, WrittenBy
<1>8. ASSUME NEW c \in Calls
      PROVE  (CallKnows(c)' <=> CallKnows(c)) /\ (Running(c)' <=> Running(c))
  BY <1>1, <1>6
  DEF CallKnows, WriteKnows, DeleteKnows, GetKnows, MetadataIsWritten, Meta, WrittenBy, Running
<1>9. DocumentsAreRight'
  <2>1. ASSUME NEW n \in Names \ overlapped
        PROVE  Document(n)'
    <3>1. Document(n)
      BY DEF IInv, DocumentsAreRight
    <3>2. OneFile(n)' /\ OrphanIsOfWrite(n)' /\ QuietIsConsistent(n)' /\ AckedIsThere(n)'
      BY <1>1, <1>6, <1>7, <1>8, <3>1
      DEF Document, OneFile, OrphanIsOfWrite, QuietIsConsistent, Quiet, AckedIsThere, Changes
    <3> QED
      BY <1>8, <3>1, <3>2 DEF Document
  <2> QED
    BY <1>1, <2>1 DEF DocumentsAreRight
<1>10. ListingsAreRight'
  BY <1>1, <1>6, <1>8 DEF IInv, ListingsAreRight, ListingKnows, EntryIsRight
<1> QED
  BY <1>2, <1>3, <1>4, <1>5, <1>9, <1>10 DEF IInv

\* The inductive invariant: the types, what every running call knows of its
\* document, and what the documents and the listings are.
THEOREM IInvHolds == Spec => []IInv
<1>1. Init => IInv
  BY InitInv
<1>2. IInv /\ [Next]_vars => IInv'
  BY NextInv, StutterInv
<1> QED
  BY <1>1, <1>2, PTL DEF Spec

-----------------------------------------------------------------------------
(* The properties.                                                         *)

\* The variables keep their types: the file system has only paths of the
\* mapper, and each call is at an operation of FileDataAccessor.
THEOREM TypeOKHolds == Spec => []TypeOK
<1>1. IInv => TypeOK
  <2> SUFFICES ASSUME IInv PROVE TypeOK
    OBVIOUS
  <2>1. \A c \in Calls : /\ link[c] \in Places /\ old[c] \in Places
                         /\ seen[c].meta \in Nodes /\ seen[c].data \in Nodes
                         /\ entries[c] \subseteq Paths \X Ids
                         /\ children[c] \cup always[c] \cup ever[c] \subseteq Ids
    BY DEF IInv, TypeInv, CallsTyped, HistoryTyped
  <2> QED
    BY <2>1 DEF TypeOK, IInv, TypeInv, FilesTyped, CallsTyped, HistoryTyped, Places, Ids
<1> QED
  BY <1>1, IInvHolds, PTL

\* A document whose write FileDataAccessor acknowledged is kept until the next
\* request that changes it: one complete file, and the metadata of the same
\* write unless deleteResource or writeContainer was called for x.meta itself.
THEOREM AcknowledgedIsKeptHolds == Spec => []AcknowledgedIsKept
<1>1. IInv => AcknowledgedIsKept
  <2> SUFFICES ASSUME IInv, NEW n \in DOMAIN acked \ overlapped
               PROVE  LET c == acked[n] IN
                      /\ \E p \in DataFiles(n) : DataFiles(n) = {p} /\ WrittenBy(fs[p], c)
                      /\ \/ n \in stripped
                         \/ IF HasMetadata[c] THEN Used(Meta(c)) /\ WrittenBy(fs[Meta(c)], c)
                            ELSE ~Used(Meta(c))
    BY DEF AcknowledgedIsKept
  <2>1. PICK c \in Calls : c = acked[n]
    BY DEF IInv, TypeInv, HistoryTyped
  <2>2. Document(n)
    BY DEF IInv, TypeInv, HistoryTyped, DocumentsAreRight
  <2>3. Kind[c] = "write" /\ Target[c] = n /\ DataFiles(n) # {} /\ IsOf(n, c) /\ OneFile(n)
    BY <2>1, <2>2 DEF Document, AckedIsThere
  <2>4. Meta(c) = <<n, "meta">> /\ c # "initial"
    BY <2>3, CallsAssumption DEF Meta
  <2>5. \E p \in DataFiles(n) : DataFiles(n) = {p} /\ WrittenBy(fs[p], c)
    BY <2>3 DEF OneFile, IsOf
  <2> QED
    BY <2>1, <2>3, <2>4, <2>5 DEF IsOf
<1> QED
  BY <1>1, IInvHolds, PTL

\* Metadata without data is only left by a write that crashed or could not
\* write its metadata.
THEOREM OnlyWritesLeaveOrphansHolds == Spec => []OnlyWritesLeaveOrphans
<1>1. IInv => OnlyWritesLeaveOrphans
  <2> SUFFICES ASSUME IInv, NEW n \in Names \ overlapped,
                      IsFile(<<n, "meta">>), DataFiles(n) = {},
                      \A c \in Calls : Running(c) => Target[c] # n
               PROVE  \E t \in torn : t[1] = n /\ t[2] \in {"crashed", "metadata"}
    BY DEF OnlyWritesLeaveOrphans
  <2>1. OrphanIsOfWrite(n)
    BY DEF IInv, DocumentsAreRight, Document
  <2>2. \A c \in Calls : pc[c] \in {"writeMetadata", "metadata", "openData", "cleanUp"} => Running(c)
    BY DEF Running, Outcomes
  <2> QED
    BY <2>1, <2>2 DEF OrphanIsOfWrite
<1> QED
  BY <1>1, IInvHolds, PTL

\* Only a step of a call ends it well.
LEMMA WhoEnds ==
  ASSUME IInv, Next, NEW c \in Calls, Ends(c), pc'[c] # "crashed"
  PROVE  Step(c) /\ Before(c)
<1>1. ~crash
  BY DEF crash, Ends
<1>2. PICK d \in Calls : Step(d)
  BY <1>1 DEF Next
<1>3. Before(d)
  BY <1>2, BeforeStep DEF IInv, Next
<1>4. d = c
  BY <1>3 DEF Before, CallSteps, SameCall, Ends, Running
<1> QED
  BY <1>2, <1>3, <1>4

\* getMetadata and getData answer with the metadata and data of one write,
\* unless a request for the metadata file itself has changed the metadata.
THEOREM ReadsAreOfOneWriteHolds == Spec => ReadsAreOfOneWrite
<1> DEFINE IsRead(c) ==
      Kind[c] = "get" /\ Ends(c) /\ pc'[c] = "done" /\ Target[c] \in Names =>
       \/ Target[c] \in overlapped \/ \E t \in torn : t[1] = Target[c]
       \/ \E w \in Calls \cup {"initial"} :
            /\ WrittenBy(seen'[c].data, w)
            /\ \/ Target[c] \in stripped
               \/ IF w = "initial" \/ HasMetadata[w] THEN WrittenBy(seen'[c].meta, w)
                  ELSE seen'[c].meta = Nothing
<1>1. ASSUME IInv, Next, NEW c \in Calls, Kind[c] = "get", Ends(c), pc'[c] = "done",
             Target[c] \in Names, Target[c] \notin overlapped, \A t \in torn : t[1] # Target[c]
      PROVE  \E w \in Calls \cup {"initial"} :
               /\ WrittenBy(seen'[c].data, w)
               /\ \/ Target[c] \in stripped
                  \/ IF w = "initial" \/ HasMetadata[w] THEN WrittenBy(seen'[c].meta, w)
                     ELSE seen'[c].meta = Nothing
  <2>1. Step(c) /\ Before(c) /\ StepIsRight(c) /\ Running(c)
    BY <1>1, WhoEnds DEF Before, StepsAreRight, Ends
  <2>2. \A x : Go(c, x) => pc'[c] = x
    BY <2>1 DEF Go, Before, CallsTyped
  <2>3. getData(c)
    <3>1. ~refuse(c)
      BY <1>1, <2>2, CallsAssumption DEF refuse
    <3>2. ~OnMetadataStep(c)
      BY <1>1, <2>1, MetadataSteps, MetadataCall DEF Before
    <3> QED
      BY <1>1, <2>1, <2>2, <3>1, <3>2
      DEF StepIsRight, Step, begin, refuseType, verifyExistingExtension, unlinkOld, openMetadata,
        metadataWritten, removeMetadata, openData, dataWritten, writeFails, cleanUp, mkdir,
        mapUrlToFilePath, getStats, unlinkMetadata, remove, getMetadata, getRawMetadata,
        opendir, readdir, getChildMetadata, AfterMetadata, Starts, Missing, OnMetadataStep
  <2>4. PICK n \in Names : n = Target[c] /\ Document(n)
    BY <1>1, <2>1, <2>3
    DEF getData, StepIsRight, Working, Outcomes, IInv, DocumentsAreRight
  <2>5. PICK p \in ExistingPaths(n) : IsFile(p) /\ seen' = [seen EXCEPT ![c].data = fs[p]]
    BY <1>1, <2>2, <2>3, <2>4 DEF getData, Missing
  <2>6. PICK s \in [meta : Nodes, data : Nodes] : s = seen[c]
    BY <2>1 DEF Before, CallsTyped
  <2>7. seen'[c] = [s EXCEPT !.data = fs[p]]
    BY <2>1, <2>5, <2>6 DEF Before, CallsTyped
  <2>8. seen'[c].data = fs[p] /\ seen'[c].meta = s.meta
    BY <2>6, <2>7
  <2>9. p \in DataFiles(n)
    <3>1. p \in {n} \X DataForms
      BY <2>1, ExistingPathIsData DEF Before
    <3> QED
      BY <2>5, <3>1, DataFilesAre DEF IsFile, Used
  <2>10. Quiet(n)
    <3> SUFFICES ASSUME NEW d \in Calls, Running(d), Changes(d), Target[d] = n
                 PROVE  FALSE
      BY DEF Quiet
    <3>1. d # c /\ Touches(c) /\ Touches(d)
      BY <1>1 DEF Changes, Touches
    <3> QED
      BY <1>1, <2>1, <2>4, <3>1 DEF IInv, OverlapsAreSeen
  <2>11. PICK w \in Calls \cup {"initial"} : IsOf(n, w)
    BY <1>1, <2>4, <2>9, <2>10 DEF Document, QuietIsConsistent
  <2>12. PICK m : m = <<n, "meta">> /\ m = Meta(c)
    BY <1>1, <2>4 DEF Meta
  <2>13. n \in stripped \/ s.meta = IF Used(m) THEN fs[m] ELSE Nothing
    BY <1>1, <2>1, <2>3, <2>4, <2>6, <2>12 DEF Document, CallKnows, GetKnows, getData
  <2> QED
    BY <2>4, <2>8, <2>9, <2>11, <2>12, <2>13 DEF IsOf, WrittenBy
<1>2. ASSUME IInv, Next, NEW c \in Calls
      PROVE  IsRead(c)
  BY <1>1, <1>2
<1>3. IInv /\ [Next]_vars => [\A c \in Calls : IsRead(c)]_vars
  BY <1>2
<1> QED
  BY <1>3, IInvHolds, PTL DEF Spec, ReadsAreOfOneWrite

\* getChildren has all the children that stay and none that never was there.
THEOREM ListingsAreTrueHolds == Spec => ListingsAreTrue
<1> DEFINE IsTrue(c) ==
      Kind[c] = "list" /\ Ends(c) /\ Target[c] \notin DOMAIN Refused =>
       CASE pc'[c] = "done" -> always[c] \subseteq children'[c] /\ children'[c] \subseteq ever[c]
         [] pc'[c] = "failed" -> \/ always[c] # ever[c] \/ ~IsDirectory(Target[c])
                                 \/ \E n \in overlapped \cap Names : Parent[n] = Target[c]
         [] OTHER -> TRUE
<1>1. ASSUME IInv, Next, NEW c \in Calls, Kind[c] = "list", Ends(c), Target[c] \notin DOMAIN Refused,
             pc'[c] \in {"done", "failed"}
      PROVE  \/ opendir(c) /\ ~IsDirectory(Target[c]) /\ pc'[c] = "failed"
             \/ getChildMetadata(c) /\ Before(c) /\ ListingKnows(c)
  <2>1. Step(c) /\ Before(c) /\ StepIsRight(c) /\ Running(c)
    BY <1>1, WhoEnds DEF Before, StepsAreRight, Ends
  <2>2. \A x : Go(c, x) => pc'[c] = x
    BY <2>1 DEF Go, Before, CallsTyped
  <2>m. ~OnMetadataStep(c)
    BY <1>1, <2>1, MetadataSteps, MetadataCall DEF Before
  <2>3. opendir(c) \/ getChildMetadata(c)
    BY <1>1, <2>1, <2>2, <2>m
    DEF StepIsRight, Step, begin, refuse, refuseType, verifyExistingExtension, unlinkOld,
        openMetadata, metadataWritten, removeMetadata, openData, dataWritten, writeFails, cleanUp,
        mkdir, mapUrlToFilePath, getStats, unlinkMetadata, remove, getMetadata, getRawMetadata,
        readdir, getData, Starts, Missing, OnMetadataStep
  <2>4. ListingKnows(c)
    BY <1>1, <2>1 DEF IInv, ListingsAreRight
  <2> QED
    BY <1>1, <2>1, <2>2, <2>3, <2>4 DEF opendir
<1>2. ASSUME IInv, NEW c \in Calls, getChildMetadata(c), Before(c), ListingKnows(c)
      PROVE  /\ pc'[c] = "done" => always[c] \subseteq children'[c] /\ children'[c] \subseteq ever[c]
             /\ pc'[c] = "failed" => \/ always[c] # ever[c]
                                     \/ \E n \in overlapped \cap Names : Parent[n] = Target[c]
  <2>1. \A x : Go(c, x) => pc'[c] = x
    BY <1>2 DEF Go, Before, CallsTyped
  <2>2. /\ pc[c] = "lstat" /\ always[c] \subseteq children[c] \cup {x[2] : x \in entries[c]}
        /\ children[c] \subseteq ever[c]
        /\ \A x \in entries[c] : x[2] \in ever[c] /\ EntryIsRight(c, x)
    BY <1>2 DEF getChildMetadata, ListingKnows
  <2>3. CASE entries[c] = {} /\ Go(c, "done") /\ UNCHANGED <<entries, children>>
    BY <2>1, <2>2, <2>3
  <2>4. ASSUME NEW e \in entries[c], ~Used(e[1])
        PROVE  \/ always[c] # ever[c]
               \/ \E n \in overlapped \cap Names : Parent[n] = Target[c]
    <3>1. e[2] \in Ids
      BY <1>2 DEF Before, CallsTyped
    <3>2. EntryIsRight(c, e) /\ e[2] \in ever[c]
      BY <2>2
    <3>3. e[2] \notin always[c] \/ (e[2][1] \in overlapped \cap Names /\ Parent[e[2][1]] = Target[c])
      BY <2>4, <3>1, <3>2 DEF EntryIsRight, Ids
    <3> QED
      BY <3>2, <3>3
  <2>5. ASSUME NEW e \in entries[c], UNCHANGED pc
        PROVE  pc'[c] \notin {"done", "failed"}
    BY <2>2, <2>5
  <2> QED
    BY <1>2, <2>1, <2>3, <2>4, <2>5 DEF getChildMetadata
<1>3. ASSUME IInv, Next, NEW c \in Calls
      PROVE  IsTrue(c)
  BY <1>1, <1>2, <1>3
<1>4. IInv /\ [Next]_vars => [\A c \in Calls : IsTrue(c)]_vars
  BY <1>3
<1> QED
  BY <1>4, IInvHolds, PTL DEF Spec, ListingsAreTrue
=============================================================================
