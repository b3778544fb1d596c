------------------------------ MODULE Registry ------------------------------
(***************************************************************************)
(* One bucket, the clients that push images or copy them into it, and the  *)
(* garbage collections that run beside them (pkg/image/push.go, layerio.go,*)
(* copy_s3.go, gc.go, reference_walk.go, delete.go, pkg/chunkstore Store). *)
(*                                                                         *)
(* There is no server: a push and a collection meet only in the objects    *)
(* of the bucket, one request at a time, and nothing but the grace period  *)
(* keeps the collection from deleting what the push is about to reference. *)
(*                                                                         *)
(* Time is kept as ages, saturated at Grace: the code only ever asks       *)
(* whether an object's LastModified is at least gcGracePeriod ago.         *)
(***************************************************************************)
EXTENDS Integers, FiniteSets

CONSTANTS
    Pusher,     \* clients that push, or copy images here from elsewhere
    Cleaner,    \* clients that collect garbage
    Tag,        \* manifest objects, manifests/<image>/<tag>/manifest.json
    Manifest,   \* published manifests, after retargetManifest
    Digest,     \* digests a manifest can name
    Chunk,      \* digests of chunks
    BlobsOf,    \* what the manifest names that is stored whole
    ChildrenOf, \* of these, the manifests of its platforms, if it is an index
    LayersOf,   \* layers the manifest names that are stored as chunks
    ChunksOf,   \* the chunks a chunked layer's recipe lists
    Grace,      \* gcGracePeriod, in ticks
    PushLimit,  \* environment: a push publishes within this many ticks
    GcLimit,    \* environment: a collection sweeps within this many ticks
    None        \* no such tag

ASSUME DataAssumption ==
    /\ BlobsOf  \in [Manifest -> SUBSET Digest]
    /\ ChildrenOf \in [Manifest -> SUBSET Digest]
    /\ LayersOf \in [Manifest -> SUBSET Digest]
    /\ ChunksOf \in [Digest -> SUBSET Chunk]
    /\ None \notin Manifest

ASSUME TimeAssumption ==
    /\ Grace \in Nat /\ PushLimit \in Nat /\ GcLimit \in Nat
    /\ Grace > 0

-----------------------------------------------------------------------------
(* The objects of the bucket below blobs/, recipes/, indexes/ and chunks/. *)

Obj(kind, id) == [kind |-> kind, id |-> id]

Blobs   == {Obj("blob", d)   : d \in Digest}
Recipes == {Obj("recipe", d) : d \in Digest}
Indexes == {Obj("index", d)  : d \in Digest}
Chunks  == {Obj("chunk", c)  : c \in Chunk}
Key     == Blobs \union Recipes \union Indexes \union Chunks

ChunkKeys(d) == {Obj("chunk", c) : c \in ChunksOf[d]}

\* The digests collectManifestReferences returns for a manifest.
RefsOf(m) == BlobsOf[m] \union LayersOf[m]

\* Everything a reader of manifest m needs.
KeysOf(m) ==
    {Obj("blob", d) : d \in BlobsOf[m]}
    \union {Obj("recipe", d) : d \in LayersOf[m]}
    \union {Obj("index", d) : d \in LayersOf[m]}
    \union UNION {ChunkKeys(d) : d \in LayersOf[m]}

\* Store uploads the chunks of a layer, then its index, then its recipe.
Before(k) ==
    CASE k \in Indexes -> ChunkKeys(k.id)
      [] k \in Recipes -> {Obj("index", k.id)}
      [] OTHER         -> {}

VARIABLES
    stored,  \* the keys present in the bucket
    age,     \* of each stored object, the ticks since its LastModified
    tag,     \* what each tag's manifest.json holds
    fresh,   \* history: the tag's push found or made every object young
    push,    \* what each push holds in memory
    gc       \* what each collection holds in memory

vars == <<stored, age, tag, fresh, push, gc>>

NoPush == [pc |-> "idle"]
NoGc   == [pc |-> "idle"]

Steps == {"none", "todo", "miss", "hit", "done"}

PushState == {NoPush} \union
    [pc      : {"storing"},
     tag     : Tag,
     image   : Manifest,
     copies  : BOOLEAN,          \* by `s3lo copy`, not `s3lo push`
     step    : [Key -> Steps],   \* progress of each object's worker
     elapsed : 0..PushLimit,
     fresh   : BOOLEAN]          \* history, copied to the tag

\* pc names the last listing that is complete; "tags" is the mark phase.
GcState == {NoGc} \union
    [pc      : {"tags", "blob", "recipe", "chunk", "index", "delete"},
     tags    : SUBSET Tag,      \* manifests listed and not read yet
     walk    : SUBSET (Tag \X Digest),  \* children of indexes, not read yet
     marked  : SUBSET Digest,   \* referenced
     cand    : SUBSET Key,      \* the listings, then toDelete
     seen    : [Key -> 0..Grace],  \* ages by the LastModified listed
     read    : SUBSET Digest,   \* layers whose recipe was read
     elapsed : 0..GcLimit]

TypeOK ==
    /\ stored \subseteq Key
    /\ age \in [Key -> 0..Grace]
    /\ tag \in [Tag -> Manifest \union {None}]
    /\ fresh \in [Tag -> BOOLEAN]
    /\ push \in [Pusher -> PushState]
    /\ gc \in [Cleaner -> GcState]

Init ==
    /\ stored = {}
    /\ age = [k \in Key |-> 0]
    /\ tag = [t \in Tag |-> None]
    /\ fresh = [t \in Tag |-> FALSE]
    /\ push = [p \in Pusher |-> NoPush]
    /\ gc = [g \in Cleaner |-> NoGc]

-----------------------------------------------------------------------------
(* Push.                                                                   *)

Storing(p) == push[p].pc = "storing"

\* A push or a copy whose image and tag have passed the checks: the policy on
\* immutable tags may refuse it before it touches an object, which changes
\* nothing here.
PushBegin(p) ==
    /\ push[p].pc = "idle"
    /\ \E t \in Tag, m \in Manifest, copies \in BOOLEAN :
         push' = [push EXCEPT ![p] =
            [pc |-> "storing", tag |-> t, image |-> m, copies |-> copies,
             step |-> [k \in Key |-> IF k \in KeysOf(m) THEN "todo" ELSE "none"],
             elapsed |-> 0, fresh |-> TRUE]]
    /\ UNCHANGED <<stored, age, tag, fresh, gc>>

\* The worker of object k may start: the steps before it in Store are done.
Ready(p, k) ==
    /\ push[p].step[k] = "todo"
    /\ \A j \in Before(k) : push[p].step[j] = "done"

\* The object's LastModified lies inside this push, and no running collection
\* listed the object with an older one.
Young(p, k, a) ==
    /\ a <= push[p].elapsed
    /\ \A g \in Cleaner :
         gc[g].pc # "idle" /\ k \in gc[g].cand => gc[g].seen[k] <= push[p].elapsed

Worker(p, k, s) == push' = [push EXCEPT ![p].step[k] = s]

\* The worker is finished with k, found or left in the bucket at age a.
Finish(p, k, a) ==
    push' = [push EXCEPT ![p].step[k] = "done",
                         ![p].fresh = @ /\ Young(p, k, a)]

\* storeLayer: HEAD decides between the refresh and the upload. copyBlob leaves
\* a blob it finds as it is.
HeadBlob(p, k) ==
    /\ Storing(p) /\ k \in Blobs /\ Ready(p, k)
    /\ \/ k \notin stored /\ Worker(p, k, "miss")
       \/ k \in stored /\ ~push[p].copies /\ Worker(p, k, "hit")
       \/ k \in stored /\ push[p].copies /\ Finish(p, k, age[k])
    /\ UNCHANGED <<stored, age, tag, fresh, gc>>

\* TouchObject on a blob that is still there.
TouchBlob(p, k) ==
    /\ Storing(p) /\ push[p].step[k] = "hit" /\ k \in stored
    /\ age' = [age EXCEPT ![k] = 0]
    /\ Finish(p, k, 0)
    /\ UNCHANGED <<stored, tag, fresh, gc>>

\* TouchObject failed, or the blob is gone: storeLayer ignores the error.
TouchFails(p, k) ==
    /\ Storing(p) /\ push[p].step[k] = "hit"
    /\ push' = [push EXCEPT ![p].step[k] = "done", ![p].fresh = FALSE]
    /\ UNCHANGED <<stored, age, tag, fresh, gc>>

\* Store's worker: a chunk that exists is left as it is, without a refresh.
HeadChunk(p, k) ==
    /\ Storing(p) /\ k \in Chunks /\ Ready(p, k)
    /\ IF k \in stored THEN Finish(p, k, age[k]) ELSE Worker(p, k, "miss")
    /\ UNCHANGED <<stored, age, tag, fresh, gc>>

Write(p, k) ==
    /\ stored' = stored \union {k}
    /\ age' = [age EXCEPT ![k] = 0]
    /\ Finish(p, k, 0)
    /\ UNCHANGED <<tag, fresh, gc>>

\* The upload of a blob or a chunk that HEAD did not find.
Upload(p, k) == Storing(p) /\ push[p].step[k] = "miss" /\ Write(p, k)

\* The index and the recipe are written without asking whether they exist.
WriteIndex(p, k)  == Storing(p) /\ k \in Indexes /\ Ready(p, k) /\ Write(p, k)
WriteRecipe(p, k) == Storing(p) /\ k \in Recipes /\ Ready(p, k) /\ Write(p, k)

\* Variant: the manifest is written while uploads are still running.
PublishEarly(p) ==
    /\ Storing(p)
    /\ \A k \in KeysOf(push[p].image) : push[p].step[k] # "todo"
    /\ tag' = [tag EXCEPT ![push[p].tag] = push[p].image]
    /\ fresh' = [fresh EXCEPT ![push[p].tag] = push[p].fresh]
    /\ push' = [push EXCEPT ![p] = NoPush]
    /\ UNCHANGED <<stored, age, gc>>

\* The manifest goes last, in one PUT.
Publish(p) ==
    /\ Storing(p)
    /\ \A k \in KeysOf(push[p].image) : push[p].step[k] = "done"
    /\ tag' = [tag EXCEPT ![push[p].tag] = push[p].image]
    /\ fresh' = [fresh EXCEPT ![push[p].tag] = push[p].fresh]
    /\ push' = [push EXCEPT ![p] = NoPush]
    /\ UNCHANGED <<stored, age, gc>>

\* An error of any worker, or the client dies: what was stored stays.
PushFail(p) ==
    /\ Storing(p)
    /\ push' = [push EXCEPT ![p] = NoPush]
    /\ UNCHANGED <<stored, age, tag, fresh, gc>>

PushStep(p) ==
    \/ \E k \in Key :
         \/ HeadBlob(p, k) \/ TouchBlob(p, k) \/ TouchFails(p, k)
         \/ HeadChunk(p, k) \/ Upload(p, k)
         \/ WriteIndex(p, k) \/ WriteRecipe(p, k)
    \/ Publish(p)

\* Delete and ApplyLifecycle remove the tag and no object.
DeleteTag(t) ==
    /\ tag[t] # None
    /\ tag' = [tag EXCEPT ![t] = None]
    /\ fresh' = [fresh EXCEPT ![t] = FALSE]
    /\ UNCHANGED <<stored, age, push, gc>>

-----------------------------------------------------------------------------
(* Garbage collection.                                                     *)

\* Mark: one listing of the manifests ...
GcBegin(g) ==
    /\ gc[g].pc = "idle"
    /\ gc' = [gc EXCEPT ![g] =
         [pc |-> "tags", tags |-> {t \in Tag : tag[t] # None}, walk |-> {},
          marked |-> {}, cand |-> {}, seen |-> [k \in Key |-> 0], read |-> {}, elapsed |-> 0]]
    /\ UNCHANGED <<stored, age, tag, fresh, push>>

\* ... then each of them is fetched, in any order; one that is gone fails the
\* collection. What it references is marked, which counts for nothing unless
\* the children of an index, known by their digests, are fetched, too ...
GcReadTag(g, t) ==
    /\ gc[g].pc = "tags" /\ t \in gc[g].tags
    /\ gc' = IF tag[t] = None
             THEN [gc EXCEPT ![g] = NoGc]
             ELSE [gc EXCEPT ![g] = [gc[g] EXCEPT !.tags = @ \ {t},
                                              !.walk = @ \union ({t} \X ChildrenOf[tag[t]]),
                                              !.marked = @ \union RefsOf(tag[t])]]
    /\ UNCHANGED <<stored, age, tag, fresh, push>>

\* ... each by a request of its own, from the blobs there are by then.
GcReadChild(g, t, d) ==
    /\ gc[g].pc = "tags" /\ <<t, d>> \in gc[g].walk
    /\ gc' = IF Obj("blob", d) \notin stored
             THEN [gc EXCEPT ![g] = NoGc]
             ELSE [gc EXCEPT ![g] = [gc[g] EXCEPT !.walk = @ \ {<<t, d>>}]]
    /\ UNCHANGED <<stored, age, tag, fresh, push>>

\* The four listings, each with the LastModified of its time, in this order.
GcList(g, from, kind, keys) ==
    /\ gc[g].pc = from
    /\ gc' = [gc EXCEPT ![g] = [gc[g] EXCEPT
         !.pc = kind,
         !.cand = @ \union (stored \intersect keys),
         !.seen = [k \in Key |-> IF k \in stored \intersect keys THEN age[k] ELSE @[k]]]]
    /\ UNCHANGED <<stored, age, tag, fresh, push>>

\* Variant: the indexes are not among the classes GC owns.
GcListNoIndexes(g) == GcList(g, "chunk", "index", {})

GcListBlobs(g) ==
    /\ gc[g].pc = "tags" /\ gc[g].tags = {} /\ gc[g].walk = {}
    /\ GcList(g, "tags", "blob", Blobs)
GcListRecipes(g) == GcList(g, "blob", "recipe", Recipes)
GcListChunks(g)  == GcList(g, "recipe", "chunk", Chunks)
GcListIndexes(g) == GcList(g, "chunk", "index", Indexes)

\* collectChunkReferences: the listed recipes of referenced layers.
Unread(g) == {d \in gc[g].marked \ gc[g].read : Obj("recipe", d) \in gc[g].cand}

GcReadRecipe(g, d) ==
    /\ gc[g].pc = "index" /\ d \in Unread(g)
    /\ gc' = IF Obj("recipe", d) \in stored
             THEN [gc EXCEPT ![g].read = @ \union {d}]
             ELSE [gc EXCEPT ![g] = NoGc]
    /\ UNCHANGED <<stored, age, tag, fresh, push>>

Referenced(g, k) ==
    IF k \in Chunks THEN \E d \in gc[g].read : k.id \in ChunksOf[d]
                    ELSE k.id \in gc[g].marked

\* Variant: one tick too eager.
DoomedEarly(g) == {k \in gc[g].cand : ~Referenced(g, k) /\ gc[g].seen[k] + 1 >= Grace}

\* sweep: unreferenced and at least Grace old by the LastModified listed.
Doomed(g) == {k \in gc[g].cand : ~Referenced(g, k) /\ gc[g].seen[k] >= Grace}

GcSweep(g) ==
    /\ gc[g].pc = "index" /\ Unread(g) = {}
    /\ gc' = [gc EXCEPT ![g] =
         [pc |-> "delete", tags |-> {}, walk |-> {}, marked |-> {}, cand |-> Doomed(g),
          seen |-> [k \in Key |-> IF k \in Doomed(g) THEN gc[g].seen[k] ELSE 0],
          read |-> {}, elapsed |-> 0]]
    /\ UNCHANGED <<stored, age, tag, fresh, push>>

\* The keys of a delete request go one by one, in no promised order.
GcDelete(g, k) ==
    /\ gc[g].pc = "delete" /\ k \in gc[g].cand
    /\ stored' = stored \ {k}
    /\ age' = [age EXCEPT ![k] = 0]
    /\ gc' = [gc EXCEPT ![g] = [gc[g] EXCEPT !.cand = @ \ {k}, !.seen[k] = 0]]
    /\ UNCHANGED <<tag, fresh, push>>

GcEnd(g) ==
    /\ gc[g].pc = "delete" /\ gc[g].cand = {}
    /\ gc' = [gc EXCEPT ![g] = NoGc]
    /\ UNCHANGED <<stored, age, tag, fresh, push>>

\* A request failed or the client died, at any point of the collection.
GcFail(g) ==
    /\ gc[g].pc # "idle"
    /\ gc' = [gc EXCEPT ![g] = NoGc]
    /\ UNCHANGED <<stored, age, tag, fresh, push>>

GcStep(g) ==
    \/ GcBegin(g)
    \/ \E t \in Tag : GcReadTag(g, t) \/ \E d \in Digest : GcReadChild(g, t, d)
    \/ GcListBlobs(g) \/ GcListRecipes(g) \/ GcListChunks(g) \/ GcListIndexes(g)
    \/ \E d \in Digest : GcReadRecipe(g, d)
    \/ GcSweep(g)
    \/ \E k \in Key : GcDelete(g, k)
    \/ GcEnd(g)

-----------------------------------------------------------------------------
(* The clock moves unless a push, or a collection that has not yet computed *)
(* its delete list, has used up its limit. The code has no such deadlines:  *)
(* they are the environment's promise the grace period is sized for.        *)

Older(a) == IF a < Grace THEN a + 1 ELSE Grace

Marking(g) == gc[g].pc \notin {"idle", "delete"}

Tick ==
    /\ \A p \in Pusher : Storing(p) => push[p].elapsed < PushLimit
    /\ \A g \in Cleaner : Marking(g) => gc[g].elapsed < GcLimit
    /\ age' = [k \in Key |-> IF k \in stored THEN Older(age[k]) ELSE 0]
    /\ push' = [p \in Pusher |->
         IF Storing(p) THEN [push[p] EXCEPT !.elapsed = @ + 1] ELSE push[p]]
    /\ gc' = [g \in Cleaner |->
         IF Marking(g)
         THEN [gc[g] EXCEPT !.elapsed = @ + 1,
                 !.seen = [k \in Key |-> IF k \in gc[g].cand THEN Older(@[k]) ELSE 0]]
         ELSE gc[g]]
    /\ UNCHANGED <<stored, tag, fresh>>

Next ==
    \/ \E p \in Pusher : PushBegin(p) \/ PushStep(p) \/ PushFail(p)
    \/ \E t \in Tag : DeleteTag(t)
    \/ \E g \in Cleaner : GcStep(g) \/ GcFail(g)
    \/ Tick

Spec == Init /\ [][Next]_vars

\* The clock does not stop, and whoever runs `s3lo clean` keeps running it.
FairSpec ==
    /\ Spec
    /\ SF_vars(Tick)
    /\ \A g \in Cleaner : WF_vars(GcStep(g))

-----------------------------------------------------------------------------
(* Properties.                                                             *)

\* What the grace period has to exceed for its promise to hold.
GraceCovers == PushLimit + GcLimit < Grace

Complete(t) == KeysOf(tag[t]) \subseteq stored

\* A tag can be pulled for as long as it stands, whatever collections ran
\* beside its push, provided the push left every object of it younger than
\* itself and unlisted by a collection before that: the grace period of GC
\* (gc.go sweep) and the order objects, then manifest (push.go) are enough.
FreshTagComplete ==
    \A t \in Tag : tag[t] # None /\ fresh[t] => Complete(t)

(* The inductive strengthening of FreshTagComplete.                         *)

\* What a fresh push is done with is present, and too young for any collection.
PushInv ==
    \A p \in Pusher : Storing(p) /\ push[p].fresh =>
        \A k \in Key : push[p].step[k] = "done" => k \in stored /\ Young(p, k, age[k])

\* A delete list holds only what was old when it was computed.
SweepInv ==
    \A g \in Cleaner :
        /\ gc[g].pc = "delete" => \A k \in gc[g].cand : gc[g].seen[k] >= Grace
        /\ Marking(g) /\ gc[g].pc # "tags" => gc[g].tags = {}

\* The collection has read m, and lists the recipes through which it will
\* find the chunks of m.
MarkedBy(g, m) ==
    /\ RefsOf(m) \subseteq gc[g].marked
    /\ gc[g].pc \in {"recipe", "chunk", "index"} =>
         \A d \in LayersOf[m] : Obj("recipe", d) \in gc[g].cand

\* The objects of m were refreshed at most a push before the collection began.
YoungFor(g, m) ==
    \A k \in KeysOf(m) :
        /\ age[k] <= PushLimit + gc[g].elapsed
        /\ k \in gc[g].cand => gc[g].seen[k] <= PushLimit + gc[g].elapsed

\* Why collection g will not delete an object of manifest m held by tag t.
SafeFrom(g, t, m) ==
    IF gc[g].pc = "delete"
    THEN gc[g].cand \intersect KeysOf(m) = {}
    ELSE t \in gc[g].tags \/ MarkedBy(g, m) \/ YoungFor(g, m)

TagInv ==
    \A t \in Tag : tag[t] # None /\ fresh[t] =>
        /\ Complete(t)
        /\ \A g \in Cleaner : gc[g].pc # "idle" => SafeFrom(g, t, tag[t])

Inv == PushInv /\ SweepInv /\ TagInv

\* faq.md: the grace period prevents the race between a push and a
\* collection, so a published tag has all its objects.
TagComplete == \A t \in Tag : tag[t] # None => Complete(t)

\* Once the pushes have stopped, an object no tag leads to is in the end
\* deleted, of whatever class it is, as long as collections do not fail for
\* ever: a crashed push, a crashed collection and a removed tag leave nothing
\* behind for good (gc.go GC).
Garbage(k) ==
    /\ \A p \in Pusher : ~Storing(p)
    /\ \A t \in Tag : tag[t] # None => k \notin KeysOf(tag[t])

GarbageCollected ==
    \A k \in Key :
        <>[]Garbage(k) /\ <>[][\A g \in Cleaner : GcFail(g) => GcEnd(g)]_vars
            => <>[](k \notin stored)

=============================================================================
