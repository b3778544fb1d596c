-------------------------------- MODULE Copy --------------------------------
(***************************************************************************)
(* s3lo copy between buckets (pkg/image/copy_s3.go, copyChunkedLayer of    *)
(* layerio.go): the manifest of a tag is read, its blobs and chunked       *)
(* layers are copied in parallel, the manifest is written, and then the    *)
(* signatures beside it follow or are left behind. Meanwhile clients of    *)
(* the source push the tag again, sign it (sign.go) and collect garbage.   *)
(* Other copies bring images from a registry (copy_registry.go), which     *)
(* stores every layer whole and has no signatures.                         *)
(***************************************************************************)
EXTENDS Images

CONSTANTS
    Filter,    \* what --platform may match; {} when it is not given
    Pushable,  \* the manifests clients push to the source
    Upstream,  \* the manifests the registry serves
    SignKey,   \* signing keys
    MaxCopies, MaxChanges \* bounds: runs of copy; pushes and signatures at the source

ASSUME CopyAssumption ==
    /\ Filter \subseteq SUBSET Platform
    /\ Pushable \subseteq Manifest /\ Upstream \subseteq Manifest
    /\ MaxCopies \in Nat /\ MaxChanges \in Nat

VARIABLES
    src,    \* objects of the source bucket
    tag,    \* the source tag's manifest
    sigs,   \* its signature records: by key, the manifest signed
    signer, \* of a running sign, its key and the manifest it read
    dest, destTag, destSigs, \* the same of the destination
    copy,   \* what the running copy knows
    relocated, \* bucket, image or tag differ; else only the kind of storage does
    copies, changes, \* counted against MaxCopies and MaxChanges
    quiet   \* history: tag and signatures of the source stay as the copy found them

vars == <<src, tag, sigs, signer, dest, destTag, destSigs, copy, relocated, copies, changes, quiet>>
source == <<src, tag, sigs, signer, relocated, changes>>
destination == <<dest, destTag, destSigs>>

NoCopy == [pc |-> "idle"]
TaskStep == {"head", "load", "whole", "chunks", "index", "recipe", "done"}

TypeOK ==
    /\ src \subseteq Key /\ dest \subseteq Key
    /\ tag \in Manifest /\ destTag \in Manifest \union {None}
    /\ sigs \in [SignKey -> Manifest \union {None}]
    /\ destSigs \in [SignKey -> Manifest \union {None}]
    /\ relocated \in BOOLEAN /\ quiet \in BOOLEAN
    /\ copies \in 0 .. MaxCopies /\ changes \in 0 .. MaxChanges
    /\ copy.pc \in {"idle", "kids", "manifests", "blobs", "list", "sidecars"}
    /\ copy.pc \in {"kids", "manifests", "blobs"} =>
         copy.from \in {"bucket", "registry"} /\ copy.manifest \in Manifest
    /\ copy.pc \in {"manifests", "blobs"} =>
         /\ Range(copy.tasks) \subseteq Platform \union Layer
         /\ copy.step \in [DOMAIN copy.tasks -> TaskStep]
         /\ \A i \in DOMAIN copy.tasks :
              copy.step[i] \in {"chunks", "index", "recipe"} => Chunked(copy.tasks[i]) /\ copy.from = "bucket"

NoSigs == [k \in SignKey |-> None]

\* The source holds a complete tag, the destination nothing.
Init ==
    /\ tag \in Pushable
    /\ src = KeysOf(tag)
    /\ sigs = NoSigs /\ signer = None
    /\ dest = {} /\ destTag = None /\ destSigs = NoSigs
    /\ copy = NoCopy
    /\ relocated \in BOOLEAN
    /\ copies = 0 /\ changes = 0
    /\ quiet = TRUE

-----------------------------------------------------------------------------
(* Copy.                                                                   *)

\* The manifest is read, from the bucket or from the registry.
Begin(from, m, want) ==
    /\ copy.pc = "idle" /\ copies < MaxCopies
    /\ copy' = [pc |-> "kids", from |-> from, manifest |-> m, want |-> want]
    /\ copies' = copies + 1
    /\ quiet' = TRUE
    /\ UNCHANGED <<source, destination>>

Selected(m, want) == IF want = {} THEN m.of ELSE m.of \intersect want

\* The copy returns an error; what it has copied stays.
Fails ==
    /\ copy' = NoCopy
    /\ UNCHANGED <<source, destination, copies, quiet>>

\* The configs and layers of a single image go one by one, repeated or not,
\* and --platform says nothing; the digests of an index, each once.
Each(digests) == [d \in digests |-> d]
LayersAmong(kids) == UNION {Range(LayersOf[p]) : p \in kids}

Start(pc, tasks) ==
    /\ copy' = [pc |-> pc, from |-> copy.from, manifest |-> copy.manifest, want |-> copy.want,
                tasks |-> tasks, step |-> [i \in DOMAIN tasks |-> "head"]]
    /\ UNCHANGED <<source, destination, copies, quiet>>

\* Of an index the selected manifests are fetched first. A bucket's are copied
\* with the other blobs, a registry's before them.
Gather ==
    /\ copy.pc = "kids"
    /\ LET m    == copy.manifest
           kids == Selected(m, copy.want)
       IN  IF m.kind = "image" THEN Start("blobs", LayersOf[CHOOSE p \in m.of : TRUE])
           ELSE IF kids = {} \/ (copy.from = "bucket" /\ ~({Obj("blob", p) : p \in kids} \subseteq src))
           THEN Fails
           ELSE IF copy.from = "bucket" THEN Start("blobs", Each(kids \union LayersAmong(kids)))
           ELSE Start("manifests", Each(kids))

AllDone == \A i \in DOMAIN copy.tasks : copy.step[i] = "done"

ManifestsStored ==
    /\ copy.pc = "manifests" /\ AllDone
    /\ Start("blobs", Each(LayersAmong(Selected(copy.manifest, copy.want))))

Task(i, from) == copy.pc \in {"manifests", "blobs"} /\ i \in DOMAIN copy.tasks /\ copy.step[i] = from
Goto(i, to) == copy' = [copy EXCEPT !.step[i] = to]

\* copyBlob, fetchAndUploadBlob: a blob the destination has is skipped.
HeadBlob(i) ==
    /\ Task(i, "head")
    /\ Goto(i, CASE Obj("blob", copy.tasks[i]) \in dest -> "done"
                 [] Obj("blob", copy.tasks[i]) \notin dest /\ copy.from = "bucket" -> "load"
                 [] OTHER -> "whole")
    /\ UNCHANGED <<source, destination, copies, quiet>>

\* Variant: the recipe goes first.
LoadRecipeFirst(i) ==
    /\ Task(i, "load")
    /\ LET recipe == Obj("recipe", copy.tasks[i]) IN
       /\ Goto(i, IF recipe \in src THEN "chunks" ELSE "whole")
       /\ dest' = IF recipe \in src THEN dest \union {recipe} ELSE dest
    /\ UNCHANGED <<source, destTag, destSigs, copies, quiet>>

\* copyChunkedLayer, if the source has a recipe.
LoadRecipe(i) ==
    /\ Task(i, "load")
    /\ Goto(i, IF Obj("recipe", copy.tasks[i]) \in src THEN "chunks" ELSE "whole")
    /\ UNCHANGED <<source, destination, copies, quiet>>

\* One object fetched from the source, verified if it is a blob, and written to
\* the destination.
Transfer(i, key, to) ==
    IF key \in src \/ copy.from = "registry"
    THEN /\ dest' = dest \union {key}
         /\ Goto(i, to)
         /\ UNCHANGED <<source, destTag, destSigs, copies, quiet>>
    ELSE Fails

CopyWhole(i) == Task(i, "whole") /\ Transfer(i, Obj("blob", copy.tasks[i]), "done")

\* The chunks go one after the other, those at the destination are skipped.
CopyChunk(i, c) ==
    /\ Task(i, "chunks") /\ c \in ChunksOf[copy.tasks[i]] /\ Obj("chunk", c) \notin dest
    /\ Transfer(i, Obj("chunk", c), "chunks")

\* Variant: a layer's first chunk is taken for all of them.
ChunksDoneEarly(i) ==
    /\ Task(i, "chunks")
    /\ \E c \in ChunksOf[copy.tasks[i]] : Obj("chunk", c) \in dest
    /\ Goto(i, "index")
    /\ UNCHANGED <<source, destination, copies, quiet>>

ChunksDone(i) ==
    /\ Task(i, "chunks")
    /\ \A c \in ChunksOf[copy.tasks[i]] : Obj("chunk", c) \in dest
    /\ Goto(i, "index")
    /\ UNCHANGED <<source, destination, copies, quiet>>

\* The file index is optional, the recipe goes last.
CopyIndex(i) ==
    LET key == Obj("index", copy.tasks[i]) IN
    /\ Task(i, "index")
    /\ dest' = dest \union ({key} \intersect src)
    /\ Goto(i, "recipe")
    /\ UNCHANGED <<source, destTag, destSigs, copies, quiet>>

CopyRecipe(i) == Task(i, "recipe") /\ Transfer(i, Obj("recipe", copy.tasks[i]), "done")

\* The manifest as it is published: one platform, a filtered index, or the
\* bytes of the source.
Written ==
    LET m    == copy.manifest
        kids == Selected(m, copy.want)
    IN  CASE m.kind = "index" /\ copy.want # {} /\ Cardinality(kids) = 1 -> Image(CHOOSE p \in kids : TRUE)
          [] m.kind = "index" /\ copy.want # {} /\ Cardinality(kids) > 1 -> Index(kids)
          [] OTHER -> m

Publish ==
    /\ copy.pc = "blobs" /\ AllDone
    /\ destTag' = Written
    /\ copy' = IF copy.from = "registry" THEN NoCopy
               ELSE [pc |-> "list", drop |-> Written # copy.manifest \/ relocated]
    /\ UNCHANGED <<source, dest, destSigs, copies, quiet>>

\* copyManifestSidecars: one listing of the source tag's signatures ...
ListSidecars ==
    /\ copy.pc = "list"
    /\ copy' = [pc |-> "sidecars", drop |-> copy.drop, todo |-> {k \in SignKey : sigs[k] # None}]
    /\ UNCHANGED <<source, destination, copies, quiet>>

\* Variant: a signature of an index is not listed as one.
SidecarOfImage(k) ==
    /\ copy.pc = "sidecars" /\ k \in copy.todo
    /\ copy' = [copy EXCEPT !.todo = @ \ {k}]
    /\ destSigs' = IF copy.drop \/ destTag.kind = "index" THEN destSigs
                   ELSE [destSigs EXCEPT ![k] = sigs[k]]
    /\ UNCHANGED <<source, dest, destTag, copies, quiet>>

\* ... each copied, or left behind when it cannot hold for the copy.
Sidecar(k) ==
    /\ copy.pc = "sidecars" /\ k \in copy.todo
    /\ copy' = [copy EXCEPT !.todo = @ \ {k}]
    /\ destSigs' = IF copy.drop THEN destSigs ELSE [destSigs EXCEPT ![k] = sigs[k]]
    /\ UNCHANGED <<source, dest, destTag, copies, quiet>>

End == copy.pc = "sidecars" /\ copy.todo = {} /\ Fails

\* A request fails, or the client dies.
Crash == copy.pc # "idle" /\ Fails

-----------------------------------------------------------------------------
(* Clients of the source.                                                  *)

\* push: the objects, then the manifest; signatures of the old one stay.
SourcePush(m) ==
    /\ m # tag /\ changes < MaxChanges
    /\ src' = src \union KeysOf(m)
    /\ tag' = m
    /\ changes' = changes + 1
    /\ quiet' = FALSE
    /\ UNCHANGED <<sigs, signer, destination, copy, relocated, copies>>

\* Sign reads the manifest ...
SignRead(k) ==
    /\ signer = None /\ changes < MaxChanges
    /\ signer' = [key |-> k, manifest |-> tag]
    /\ changes' = changes + 1
    /\ UNCHANGED <<src, tag, sigs, destination, copy, relocated, copies, quiet>>

\* ... and stores the record, or fails.
SignStore(ok) ==
    /\ signer # None
    /\ sigs' = IF ok THEN [sigs EXCEPT ![signer.key] = signer.manifest] ELSE sigs
    /\ signer' = None
    /\ quiet' = FALSE
    /\ UNCHANGED <<src, tag, destination, copy, relocated, copies, changes>>

\* A collection deletes what the source tag does not reference, in batches of
\* a kind of objects.
SourceCollect(kind) ==
    LET batch == {key \in src \ KeysOf(tag) : key.kind = kind} IN
    /\ batch # {}
    /\ src' = src \ batch
    /\ UNCHANGED <<tag, sigs, signer, destination, copy, relocated, copies, changes, quiet>>

CopyTask(i) ==
    \/ HeadBlob(i) \/ LoadRecipe(i) \/ CopyWhole(i) \/ ChunksDone(i) \/ CopyIndex(i) \/ CopyRecipe(i)
    \/ \E c \in Chunk : CopyChunk(i, c)

Next ==
    \/ \E want \in Filter : Begin("bucket", tag, want) \/ \E m \in Upstream : Begin("registry", m, want)
    \/ Gather \/ ManifestsStored
    \/ copy.pc \in {"manifests", "blobs"} /\ \E i \in DOMAIN copy.tasks : CopyTask(i)
    \/ Publish \/ ListSidecars \/ End \/ Crash
    \/ \E k \in SignKey : Sidecar(k) \/ SignRead(k)
    \/ \E m \in Pushable : SourcePush(m)
    \/ \E ok \in BOOLEAN : SignStore(ok)
    \/ \E kind \in {"blob", "recipe", "index", "chunk"} : SourceCollect(kind)

Spec == Init /\ [][Next]_vars

-----------------------------------------------------------------------------

\* A layer can be read from the destination, in one form or the other.
Readable(d) ==
    \/ Obj("blob", d) \in dest
    \/ Obj("recipe", d) \in dest /\ \A c \in ChunksOf[d] : Obj("chunk", c) \in dest

\* A copied tag can be pulled, whatever happened to the source, crashed or was
\* retried meanwhile: its manifests, configs and layers are all there, in a
\* form that can be read (copyBetweenBackends publishes last).
DestComplete ==
    destTag # None =>
        /\ destTag.kind = "index" => \A p \in destTag.of : Obj("blob", p) \in dest
        /\ \A p \in destTag.of : \A d \in Range(LayersOf[p]) : Readable(d)

\* A recipe is written last, so the layer it resolves is there even when the
\* copy was cut off (copyChunkedLayer).
RecipeResolves ==
    \A d \in Layer : Obj("recipe", d) \in dest => Readable(d)

\* A copy under another reference carries no signature, and one that keeps
\* reference and manifest carries them all: what verifies at the source, and
\* nothing else, verifies at the destination, where the source was left in peace
\* meanwhile. So the comment at copy_s3.go:315 has it, for a signature is bound
\* to the bucket, image and tag as well. docs/commands/copy.md:81 makes no such
\* difference: of every copy of all platforms from bucket to bucket it says that
\* the signature "travels, still verifies", which copyManifestSidecars does not
\* do for another bucket, image or tag.
SignedAsSource ==
    /\ relocated => destSigs = NoSigs
    /\ copy.pc = "sidecars" /\ copy.todo = {} /\ ~copy.drop /\ quiet =>
         \A k \in SignKey : sigs[k] # None =>
             destSigs[k] = sigs[k] /\ (destSigs[k] = destTag <=> sigs[k] = tag)
=============================================================================
