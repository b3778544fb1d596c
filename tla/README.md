# Formal models of s3lo

s3lo stores container images in an object bucket (S3, GCS, Azure or a local
directory) without a registry process: every command is a client that reads and
writes the bucket directly, and nothing but the order of its object operations
keeps two commands apart. This directory models that order, checks it on small
instances with TLC and proves the central results for every instance with TLAPS.

To check a model or a proof, in this directory:

    tlc -workers 2 -config MCRegistry.cfg MCRegistry
    tlapm RegistryProofs.tla

`PROJECT.json` lists every run, every theorem, the hazards the properties answer
and, definition by definition, the source lines each model stands for.

## Inventory

| Component | Source | State | Operations | Hard behaviour |
|---|---|---|---|---|
| Tag write path | `pkg/image/push.go`, `layerio.go`, `write_policy.go`, `pkg/chunkstore/chunkstore.go` (`Store`) | tag objects `manifests/<image>/<tag>/manifest.json`; blobs, recipes, indexes, chunks with their `LastModified` | `Push`, `storeLayer`, `Store`, `enforceTagWritePolicy`, `retargetManifest` | check-then-act on HEAD; reuse of objects another command may be collecting; a crash leaves orphans |
| Garbage collection | `pkg/image/gc.go`, `reference_walk.go` | none of its own; a reference set, listings and a delete list held across many requests | `GC`, `collectReferencedDigests`, `collectChunkReferences`, `sweep` | snapshot of the bucket goes stale while pushes continue; partial deletes |
| Tag removal | `pkg/image/delete.go`, `lifecycle.go`, `cmd/s3lo/clean.go` | none of its own | `Delete`, `ApplyLifecycle`, `evaluateTags` | list-then-delete; retention floor against concurrent pushes |
| Copy | `pkg/image/copy_s3.go`, `copy_registry.go`, `layerio.go` (`copyChunkedLayer`) | two buckets | `copyBetweenBackends`, `copyManifestSidecars`, `copyRegistryToS3` | source changes during the copy; skip on HEAD without a refresh; sidecars after the tag |
| Registry client | `pkg/image/registry_auth.go` | the tokens of a copy, shared by its parallel fetches | `doRequest`, `doWithRetry`, `handleChallenge` | a token refused, expired or replaced by another fetch; retries; one failure cancels all |
| Bucket configuration | `pkg/image/bucketconfig.go`, `cmd/s3lo/config.go` | one object `s3lo.yaml` | `config set`, `ensureChunkFormat`, `EffectiveConfig` | read-modify-write of the whole object by several commands |
| Pull | `pkg/image/pull.go`, `layerio.go` (`fetchLayer`), `index.go` | files of a temporary directory | resolve the platform, download, verify, import, fall back on the old layout | parallel threads on one file; a source that is being written; a tag rewritten between the requests |
| File reads | `pkg/image/file.go`, `pkg/chunkstore/index.go` (`ExtractFile`) | none | `CatFile` | whiteouts and links over layers; offsets and spans at chunk boundaries |
| Layer streaming | `pkg/chunkstore/chunkstore.go` (`StreamCompressed`), `pkg/serve/handler.go` (`handleBlob`) | a window of in-flight chunks | fetch ahead, write in order, cancel | goroutines, channel of permits, early error or cancellation |
| Serve: limiter | `pkg/serve/server.go` (`acquire`) | the semaphore channel | acquire, release | lazily built channel shared by concurrent handlers |
| Serve: manifest cache | `pkg/serve/cache.go`, `handler.go` (`handleManifest`) | memory entries with TTL and FIFO order, files with mtimes | `Manifest`, `PutManifest` | stale fills, refreshed expiry, eviction, restart with a disk tier |
| Serve: signature policy | `pkg/serve/verify.go`, `handler.go` (`findManifestByDigest`, `writeManifest`) | set of verified digests | `Check`, `IsVerified` | verdict cached across a changing bucket; a search over tags that move |
| Signing | `pkg/image/sign.go`, `verify.go`, `pkg/ref/signing.go` | signature sidecars | `Sign`, `Verify` | sidecar survives an overwritten tag |
| Storage backends | `pkg/storage/*.go` | a directory, or a remote bucket; the S3 client cache | `Backend` methods | local writes are not atomic; multi-batch deletes fail half way |
| Chunker | `pkg/chunk/fastcdc.go` | a buffer | `Split` | boundaries at minimum and maximum size; window refills |
| Doctor | `pkg/image/doctor.go`, `reference_walk.go` | none; listings and verdicts held across many requests | `Doctor`, `checkTag`, `collectReferencedDigests` | what it listed and what it reads are of different times |
| Inspection | `stats.go`, `layersharing.go`, `inspect.go`, `list.go` | read only | scans | reads of a moving bucket |
| Local daemon | `pkg/oci`, `pkg/image/platform.go` | the images docker holds | `LocalPlatforms`, `ExportImage`, `ImportImage` | the image may be rebuilt between the questions; errors come in the body of an answer of 200 |
| Command line | `cmd/s3lo` | flags | argument checks | thin |

What makes each correct, and where it is stated:

| Component | Correct means | Module |
|---|---|---|
| Tag write path | a published tag leads only to objects that are there; a protected tag is not overwritten | `Registry`, `BucketConfig` |
| Garbage collection | nothing a tag needs is deleted, everything else is in the end | `Registry` |
| Tag removal | the most specific override rules; what it dooms is gone in the end, never below the floor | `Retention`, `BucketConfig` |
| Copy | the copied tag is complete whatever happens to the source; signatures travel where they hold, and only there | `Copy` |
| Bucket configuration | one chunk format per bucket, once it is stamped | `BucketConfig` |
| Registry client | no fetch fails for what another did to the token; an outage within the retries is survived; every fetch ends | `RegistryClient` |
| Pull | what reaches the daemon is what the digests say, of the platform that was wanted | `LocalBucket`, `ChunkedLayer`, `Platforms` |
| Local daemon | a push publishes the platform asked for, or the host's; a pull that ends well has loaded an image | `Platforms` |
| Doctor | no image is reported that was whole all the time, and each that was not is | `Doctor` |
| File reads | what is shown is what a container would see, from the fewest chunks | `FileRead`, `ChunkedLayer` |
| Layer streaming | complete or reported as failed, bounded, always ends | `Stream`, `Blob` |
| Serve: limiter | a counting semaphore whose permits come back and which starves nobody | `Limiter`, `Semaphore`, `Blob` |
| Serve: manifest cache | stale for a bounded time; queue, map and size agree | `ManifestCache` |
| Serve: signature policy | what is served has been signed; what stays signed is served | `Serve` |
| Signing | a signature that verifies is one that was made for that tag and content | `Serve`, `Copy` |
| Storage backends | a file nobody is about to write stays whole | `LocalBucket` |
| Chunker | cuts depend on content alone, sizes within their limits | `ChunkedLayer` |

The components meet in the bucket, never by calls: `push`, `copy`, `clean`,
`delete`, `config` and `sign` are separate processes. Within a process,
goroutines of an `errgroup` upload, copy or fetch in parallel, and the handlers
of `serve` share the limiter, the cache and the verified digests.

## The modules

Names of actions are those of the functions or requests they stand for. An
action is what happens between two points where another process can act: one
request to the bucket, one lock region, one channel operation, one system call
of a file. Operators marked *Variant* are plausible mistakes in the code; no
specification uses them, and each is put in the place of the real definition to
see that a property notices.

**Registry** (with `MCRegistry`, `RegistryProofs`). One bucket, pushes and
collections. `stored` and `age` are the objects below `blobs/`, `recipes/`,
`indexes/` and `chunks/` with their `LastModified`; `tag` the manifests. A push
runs one worker per object: `HeadBlob` and `HeadChunk` are the existence checks,
`TouchBlob`/`TouchFails` the refresh of a blob that is there (`storeLayer`
ignores its failure), `Upload`, `WriteIndex` and `WriteRecipe` the writes in the
order `Store` imposes on a layer while other layers run beside it, `Publish` the
manifest. A collection lists the tags, reads each (`GcReadTag`) and each child
of an index (`GcReadChild`; what is gone fails the run), lists the four classes
in the order of `GC`, reads the recipes of referenced layers (`GcReadRecipe`),
computes the delete list from the ages *listed* (`GcSweep`) and deletes key by
key. Either side may fail at any point. Ages saturate at the grace period,
because `sweep` only asks whether an object is at least that old. `fresh` is a
ghost: the push found or made all its objects young enough.

The manifest may be an index: `ChildrenOf` are the manifests of its platforms,
which are blobs like others, but a collection must read them to go on, by a
request each. One that is gone ends the collection before anything is deleted,
and every collection after it until the tag is removed or pushed again. A push
either refreshes what it finds (`s3lo push`) or does not (`copies`: `s3lo copy`
into this bucket, which takes what is there as it is); its tag is `fresh` only
if what it took unrefreshed was young by itself.

**BucketConfig** (with `MCSettings`, `BucketConfigProofs`). The object
`s3lo.yaml`, one tag, and commands of different builds: a push reads the policy,
looks for the tag, reads the configuration, stamps the chunk format, uploads and
publishes in separate steps; `config set` reads and rewrites the object;
`delete` reads the guard and removes. Nothing holds the object between a read
and a write.

**Retention** (with `MCSettings`; proved about in `AlgorithmProofs`).
`EffectiveConfig` picks the override that rules the image and merges it over the
default; patterns of one kind and length are in no order, so it is a set of
results, and `ApplyLifecycle` resolves it twice. `evaluateTags` is a function
over the tags in order (`Walk`), newest first with equal times either way;
`ApplyLifecycle` lists, evaluates, and runs a goroutine per doomed tag that
lists the keys below it (`Below`: its own, and those of an image whose name is
this image's, a slash and the tag) and deletes them, against pushes to either
image.

**ChunkedLayer** (with `MCReading`; proved about in `AlgorithmProofs`). `Split`
reads its input in pieces of any size (`Refill`), finds a boundary with the gear
hash (`Hash`, `Boundary`) and emits; each chunk is checked and uploaded by a
worker that may fail while others run; `Wait`, `WriteIndex` and `WriteRecipe`
follow as in `Store`. `FetchChunk` and `ExtractFile` read it back when stored
chunks have been damaged and requests fail (`answered`). A byte is its value in
the gear table, the hash is kept modulo `HashSize` (2^64 in the code), and a
digest is the bytes it is a digest of.

**Stream** (proved about in `BlobProofs`). `StreamCompressed`: the dispatcher, one
goroutine per fetch, the writer, the window of permits and the context.

**FileRead** (with `MCReading`). `CatFile` with its layer search, whiteouts and
the 16 links it follows, as recursive functions over layers that a build made
(proved about in `AlgorithmProofs`); the build and what the container sees
(`Sees`, which follows Linux's 40 links) are the reference it is held against.
The builds are external to the repository: they are modelled by what an OCI
layer records of a change.

**Images** has what images are made of and the objects a bucket keeps them in,
shared by `Copy` and `Doctor`: a platform's manifest is known by its platform, an
index by the set of its platforms.

**Copy** (with `MCCopy`, `CopyProofs`). `copyBetweenBackends`: gather the
manifests, store them, run a task per blob or chunked layer in parallel, publish,
then take the sidecars along or leave them; and `copyRegistryToS3`, which stores
layers whole. The tasks are a function: of the position in an image's list of
layers (a digest may be there twice), of the digest where the code has made a set
of them, as for the layers of an index. The source is pushed again, signed and
collected meanwhile; the copy may fail or die anywhere and be run again.

**RegistryClient** (proved about in `CopyProofs`). The requests of
`copyRegistryToS3`: `doRequest` has two rounds, each with the retries of
`doWithRetry`, and a challenge between them whose token replaces the shared one.
Tokens expire at any time, any request may fail, and a fetch that fails cancels
the others.

**Doctor** (proved about in `CopyProofs`). The listings of manifests, blobs and recipes;
`checkTag` per image in scope, in parallel; then the second reading of every
manifest, one after the other, for the orphans. Other clients store and delete
objects and tags between any two of its requests, and any request may fail. The
history `past` is what has been there, or missing, since doctor began.

**LocalBucket** (with `MCLocalBucket`, `LocalBucketProofs`). A `local://`
bucket: an object is a file that is truncated and written in place (`local.go`).
A file's content is the set of parts written so far, so torn, short and holed
files are all states. Pushers skip what they find, a puller copies with a thread
per layer onto temporary files named by digest and verifies them.

**Platforms** (proved about in `LocalBucketProofs`). Which platform travels. A
push asks the daemon what it holds (`LocalPlatforms`, nothing from the classic
image store), chooses (`Select`), exports and checks what came back
(`CheckExported`) and publishes. A pull reads the tag, finds its platform in an
index (`ReadTag`) or falls back on the layout of v1.0.0 (`FindNothing`), and loads
(`Load`, `CheckLoad`). Between the steps the image is rebuilt, the tag rewritten
or removed, and the manifests an index names are collected or damaged. A platform
is a sequence, architecture and variant, so the two comparisons of the code are
prefixes: `Alike` either way (`containsPlatform`), `Matches` one way
(`matchesPlatform`).

**Limiter** and **Semaphore** (proved about in `BlobProofs`). `Server.acquire`
and its release, with the reads of the field `s.sem` as steps of their own;
`Semaphore` is the abstract specification and `IsSemaphore` the refinement
(holders are the handlers between `acquire` and the end of release).

**Blob** (with `BlobProofs`) composes `Limiter` and `Stream` into `handleBlob`
and `serveChunkedBlob`: a handler takes a permit, asks for the object, falls back
on a recipe, redirects, copies or streams, and its deferred release runs whatever
came of it. Every step of a handler is one of `Limiter`'s actions or leaves the
limiter alone, and the goroutines of the stream are `Stream`'s; `LimiterKept`
says that `Blob` implements `Limiter` with its fairness, so what `Limiter`
assumes (who holds a permit leaves) is shown from what the stream does.

**Serve** (with `MCServe`, `ServeProofs`). `handleManifest`,
`findManifestByDigest`, `writeManifest` and `Verifier.Check` by concurrent
handlers, one request to storage a step, with `Sign` and `Verify` of the command
line beside them. The bucket changes between the steps: pushes, deletions,
collections of children, records of old builds or moved here from elsewhere. A
record is the manifest it is of and whether its bytes hold; `signed` is history.
`ways` follows, for each request, the ways to its answer that have stood since it
was made.

**ManifestCache** (with `MCServe`, `ManifestCacheProofs`). `Cache.Manifest` and
`PutManifest` with their lock regions, the file reads and writes of the disk
tier, and `handleManifest` around them. A copy is known by how long ago it
stopped being the tag's content, or is torn: a file that its writer, or a
process that died, has written in part.

Apart from `Blob` and `Images` the modules stand side by side rather than one
inside the other: their components share no state but the bucket, and `Registry`
is where the commands that change it meet. `MCCopy`, `MCLocalBucket`,
`MCSettings`, `MCReading` and `MCServe` hold the instances of several modules as
*scenes*: a variable chosen in the initial state says which module takes the
steps, the variables of the others rest, and the states of the run are the sum
of those of its scenes and not their product. `LocalBucket` is the write path of
`Registry` with writes that are not atomic, `ChunkedLayer` that of one layer
with its bytes.

## The runs

| Run | Instance | What it shows |
|---|---|---|
| `registry` | one tag of an index, with a child manifest and a chunked layer of one chunk; one push or copy and one collection at a time but repeated without end; Grace 2, PushLimit 1, GcLimit 0; 414 k states | `FreshTagComplete`, the inductive `Inv`, and `GarbageCollected` under fairness |
| `registry_reuse` | the chunked layer alone; Grace 3, PushLimit 1, GcLimit 1 | `TagComplete` is violated (finding 1) |
| `blob` | 2 handlers, 1 permit, a server built by `NewServer` or not; 3 chunks, window of 2; 161 k states | the stream keeps its window and is complete when reported so, the limiter implements `Semaphore` and loses no permit, every request ends and no goroutine stays |
| `serve` | two scenes. *answers*: 2 handlers, 2 tags, an image and an index that lists it, 3 changes, up to symmetry. *cache*: 2 readers, 2 keys, room for 1, TTL 1, requests of at most 1 tick, with and without a directory | `Attested`, `SignedOnly`, `StandingIsServed`; `StaleBoundedInMemory` (and that a cache without a directory never serves a torn copy), `InStep` |
| `cache_stale` | the *cache* scene alone | `StaleBounded` is violated with a directory (finding 2) |
| `settings` | two scenes. *object*: 2 commands of any kind, builds of 2 formats. *tags*: 4 tags and one of a nested image, times 0..2, one cleaner, 4 configurations: an override of another image with two twins, the image's own below two globs, a glob that lifts a protection, an override that grants it; up to symmetry | `Shielded`, `SettledForGood`; `DecisionRight` for every listing, `FloorKept`, `CleanedUp`, `ProtectedStay` |
| `cleaned_nested` | the same | `ImmutableStay` is violated (finding 3) |
| `retention_either` | the same | `EitherRule` is violated (finding 4) |
| `reading` | two scenes. *layer*: every layer of up to 6 bytes of 3 gear values; MinSize 1, AvgSize 2, MaxSize 4, 2 uploads at a time. *image*: a directory, a file in it and a file beside it, links between them, 5 operations, 3 layers | `CutByContent`, `RecipeLast`, `ReadsRight`, `FewestChunks`; `SeesContainerPlain` |
| `copy` | three scenes, 1.25 M states. *copy*: 2 platforms, a layer of 2 chunks that an image names twice, one signing key, 2 copies, 2 changes at the source. *doctor*: the same images under 2 names, with or without an image filter, 2 writes of other clients. *registry*: 2 fetches, 2 retries, 3 tokens | `DestComplete`, `RecipeResolves`, `SignedAsSource`; `HealthySpared`, `LossReported`, `OrphansRight`; `UnauthorizedRight`, `RetriesRight` |
| `local` | two scenes, 1.5 M states up to symmetry. *bucket*: 2 pushers, a puller with two threads on one file, 2 images that share all blobs. *platforms*: a host of linux/arm, images of arm, arm/v6, arm/v7 and arm64 with attestations, 3 rebuilds, rewrites or damages | `PullRight`, `QuietWhole`, `UndisturbedStays`; `PublishedRight`, `ImportedRight` |
| `push_names` | the same | `LeftBehindNamed` is violated (finding 5) |

The type invariants are in no run's list of properties: those of `Registry`,
`BucketConfig`, `Serve` and `Stream` are proved, and those of `RegistryClient`,
`ManifestCache` and `Retention` are parts of what is proved of them; the others
say what the variables hold.

Why the bounds are enough:

- *registry*. The one image has an object of each class, so every dependency
  (recipe after chunks and index, chunks found through recipes) is there, and
  pushes, removals and collections repeat, so a collection meets what an earlier
  push left at any age. GcLimit 0 bounds only the mark phase; the delete phase
  has no limit and objects age in it. Larger limits, more tags and more clients
  at once are covered by the proofs, which need no bound.
- *blob*. More chunks than the window holds, so permits of the window are used
  again; more handlers than permits of the limiter, so somebody waits, and each
  can make a channel while the other uses one. One request of a behaviour
  streams a recipe: two streams share nothing but the limiter, to which a stream
  is a holder that leaves. The proofs take any number of handlers and chunks.
- *serve*, answers. Two tags are what a search by digest can confuse; an index and its
  child are the two places a digest is found in; three changes are a push, its
  signature and a push over it.
- *serve*, cache. One key too many for the cache forces eviction, and two handlers meet
  in every lock gap. Copies staler than TTL + ReqLimit + 1 are all the same.
- *settings*, object. The races are between one command's read and another's write;
  two commands that start again without end are any sequence of such pairs.
- *settings*, tags. Four tags allow one kept, one at the floor, one young and
  one old; times up to 2 have both sides of an age limit of 1 and equal times. One
  cleaner only: with two, the floor is not promised (see below).
- *reading*, image. Three layers are what it takes to write, remove and recreate a
  path in layers of their own, with a marker at the file or at its directory. No
  chain of links is as long as either limit; the proof has any.
- *reading*, layer. Six bytes are a chunk cut at MaxSize and one more, or several cut
  by the hash on either side of AvgSize, and a rest.
- *copy*. The second copy is the retry, or another platform filter, or another
  source; two changes are a push and its signature, or two pushes. Of doctor, two
  names share a child and a layer, and two writes are a loss and its repair, or
  the two halves of a push. Of the registry, two fetches are one that negotiates
  and one that is overtaken, and three tokens let each be refused its own.
- *local*. Two parts suffice to be torn, short or holed. Of the platforms, arm,
  arm/v6 and arm/v7 are what is alike and what is not, arm64 what is neither; two
  events can come between the steps of a push or pull, and one before it.

CHECK_DEADLOCK FALSE stands where the system may stop: a build and a layer are
finished (`reading`), the copies of the bound and of the registry's tokens are
used up (`copy`), and handlers of a server not built by `NewServer` may all wait
on a channel that was replaced (`blob`, which is what happens, not what should),
and the changes of the bucket are used up (`serve`).

### Fairness

- `Registry`, `GarbageCollected` only: SF of `Tick`, since the clock goes on
  whenever a push or a collection is not up against its limit; WF of each
  cleaner's steps, since who cleans a bucket keeps cleaning it. Pushes, removals
  and failures are not assumed to happen; the property itself speaks of the
  executions where failures stop.
- `Blob`: WF of each handler's own steps and of the stream's dispatcher, fetches
  and writer: the scheduler runs every goroutine, and storage and the client's
  connection answer or fail in the end. SF of a handler's send, since a Go
  channel serves its blocked senders in the order they came. Requests need not
  come, and neither the departure of a client nor any error is assumed.

## What is proved

For every value of the constants that satisfies the named assumptions of the
modules:

| Theorem | States |
|---|---|
| `RegistryProofs!TypeCorrect` | `Spec => []TypeOK` |
| `RegistryProofs!InvCorrect` | `GraceCovers => (Spec => []Inv)` |
| `RegistryProofs!FreshTagsStayComplete` | `GraceCovers => (Spec => []FreshTagComplete)` |
| `BlobProofs!BlobStreams` | `BlobSpec => [](Inv /\ ReadAheadBounded /\ OkMeansAll)` |
| `BlobProofs!BlobConserves` | `BlobSpec => []PermitsConserved` |
| `BlobProofs!BlobIsSemaphore` | every step of `Blob` is one of `Semaphore` or a stutter |
| `BlobProofs!BlobKeepsLimiter` | every step of `Blob` is one of `Limiter` or a stutter |
| `ServeProofs!ServeAttested` | `Spec => [](TypeOK /\ Attested)` |
| `ServeProofs!ServesSignedOnly` | `Spec => []SignedOnly` |
| `ServeProofs!StandingServed` | `Spec => []StandingIsServed` |
| `ManifestCacheProofs!QueueInStep` | `CacheSpec => []InStep` |
| `ManifestCacheProofs!FreshInMemory` | `CacheSpec => []StaleBoundedInMemory` |
| `BlobProofs!InvCorrect` | `Spec => [](TypeOK /\ Inv)` |
| `BlobProofs!ReadAhead_Bounded` | `Spec => []ReadAheadBounded` |
| `BlobProofs!Ok_MeansAll` | `Spec => []OkMeansAll` |
| `BucketConfigProofs!TypeCorrect` | `Spec => []TypeOK` |
| `BucketConfigProofs!ShieldedCorrect` | `Spec => []Shielded` |
| `BucketConfigProofs!SettledCorrect` | `Spec => SettledForGood` |
| `CopyProofs!CopiedComplete` | `Spec => []DestComplete` |
| `CopyProofs!CopiedResolve` | `Spec => []RecipeResolves` |
| `CopyProofs!SignaturesFollow` | `Spec => []SignedAsSource` |
| `CopyProofs!UnauthorizedCorrect` | `ClientSpec => []UnauthorizedRight` |
| `CopyProofs!RetriesCorrect` | `ClientSpec => []RetriesRight` |
| `CopyProofs!DoctorSpares` | `DoctorSpec => []HealthySpared` |
| `CopyProofs!DoctorReports` | `DoctorSpec => []LossReported` |
| `CopyProofs!DoctorCounts` | `DoctorSpec => []OrphansRight` |
| `LocalBucketProofs!PulledWhole` | `Spec => []PullRight` |
| `LocalBucketProofs!QuietIsWhole` | `Spec => []QuietWhole` |
| `LocalBucketProofs!WholeStays` | `Spec => UndisturbedStays` |
| `LocalBucketProofs!PublishedAsAsked` | `PlatformsSpec => []PublishedRight` |
| `LocalBucketProofs!ImportedAsAsked` | `PlatformsSpec => []ImportedRight` |
| `AlgorithmProofs!DecidesWithFloor` | `RetentionSpec => []DecisionRight` |
| `AlgorithmProofs!CleansUp` | `RetentionSpec => []CleanedUp` |
| `AlgorithmProofs!ProtectedNeverCleaned` | `RetentionSpec => ProtectedStay` |
| `AlgorithmProofs!FloorHolds` | with at most one cleaner, `RetentionSpec => []FloorKept` |
| `AlgorithmProofs!CutsFollowContent` | `Spec => []CutByContent` |
| `AlgorithmProofs!RecipeIsLast` | `Spec => []RecipeLast` |
| `AlgorithmProofs!ReadsWhatWasStored` | `Spec => []ReadsRight` |
| `AlgorithmProofs!FetchesFewestChunks` | `Spec => []FewestChunks` |
| `AlgorithmProofs!CatShowsContainer` | `ThroughDirectories => (FileSpec => []SeesContainerPlain)` |

`ClientSpec`, `CacheSpec`, `DoctorSpec`, `PlatformsSpec`, `RetentionSpec`,
`FileSpec` and `BlobSpec` are the specifications of the modules of these names;
`BlobIsSemaphore` and `BlobKeepsLimiter` are the safety parts of `IsSemaphore`
and `LimiterKept`, the initial states and every step, whose fairness is left to
the run. The assumptions name what the constants are (`DataAssumption`,
`CopyAssumption`, ...); the ones with content are `ImageAssumption` (a digest is
not both a manifest's and a layer's, and an index has finitely many platforms),
`LocalAssumption` (a truncated or mixed `manifest.json` is not a manifest),
`ConfigsAssumption` (one pattern without a wildcard matches an image, for it is
the image's name: patterns with a character class are not modelled),
`SizeAssumption` (the size of a chunk is bounded below, on average and above, in
this order, and `None` is not a layer), `CacheAssumption` and
`LimiterAssumption` (the cache, its TTL and the limiter are on: the code treats
a zero as off) and `PlatformsAssumption` (the host's platform names no variant,
as `hostPlatform` makes it, and the daemon holds finitely many images of one
name).

*Registry.* `GraceCovers == PushLimit + GcLimit < Grace` is the one condition:
the time from the check of an object to the publication of its tag, and that of
a collection from the listing of the tags to the computation of its delete list,
add up to less than the grace period. `FreshTagComplete` is not inductive, for
it says nothing of what a collection under way holds. `Inv` adds three parts:
`PushInv`, what a fresh push is done with is present and younger than the push;
`SweepInv`, a delete list holds only what was old when it was computed; `TagInv`,
for each fresh tag and each collection, one of four reasons why the collection
will not delete the tag's objects: it is deleting and they are not on its list,
or it has yet to read the tag, or it has marked the manifest and listed the
recipes its chunks are found through, or the objects were made or refreshed at
most a push before it began. `MarkedIsReferenced` carries the third to the
delete list, arithmetic with `GraceCovers` the fourth.

*Stream and Blob.* `Inv` ties permits taken to the distance of the two
positions, and says of each result where it can stand. `BlobStreams` lifts it to
the composition: a step of `Blob` is a step of `Stream` or leaves its variables
alone. `LimInv` does the same for the limiter: `Conserved`, that the permits on all
channels are as many as the handlers that hold one, follows the steps on one
channel at a time because a handler at work has one (`OnChannel`); and where the
channel was made beforehand nobody makes another (`OneChannel`), so that `count` of
that channel is what `Semaphore` counts.

*Serve.* `SignedOnly` speaks of answers, which rest on what has been verified,
which rests on the records in the bucket. `Attested` says so of each in turn: a
record that holds was made by `Sign` of that tag and manifest, a verified digest
was signed under some tag, an answer is a verified digest, and a request by
digest has got that digest or nothing.

`StandingIsServed` says that a request is not refused what stood all the while it
was under way. `ways` is the history of that: the tags, and manifests under them,
through which what is asked for could have been had at every moment since the
request began. `AllStand` adds where they are in the search: while a request by
digest looks through the tags, each way goes by a tag it has still to look at, or
by the index it has in hand; a request by tag has in hand what its ways lead to. So
when none is left to look at there is no way.

*ManifestCache.* `InStep` says that the queue holds what memory holds, each key
once; an eviction takes the head of the one and its entry of the other.
`StaleBoundedInMemory` rests on `MapWhole`, by which a copy that has not expired
was current at most `ReqLimit + 1` before it was put, and on `ReqWhole`, which
says so of the copy in the hand of a request; both only without a disk, where
the second finding is the counterexample.

*BucketConfig.* `Shielded` alone is not inductive: a push that has not reached
its check yet may still pass it. `ShieldedInv` adds that for a command which is
shielded the image is immutable and its tag taken *now*, which is what makes the
check refuse it. `SettledForGood` is an action property whose hypothesis
`Settled` is preserved by every step.

*Copy.* `CopyInv` adds to `DestComplete` and `RecipeResolves` what a running copy
has done and has left: every digest the manifest names has a task or is there
(`TasksComplete`), a task that is done has its content at the destination, and a
task that writes an index or a recipe has all chunks there (`TasksRight`).
Nothing is deleted at the destination here, so what is there stays; `Registry` has
the collections. `SignInv` follows a source left in peace: the manifest in hand is
still the tag's, and each signature is copied or still to be copied.

*RegistryClient.* `ClientInv` counts: the faults of a round go with its retries,
the requests with the rounds, and the token a fetch negotiated is no newer than
the last one issued, so the registry cannot come to accept it later.

*Doctor.* What stood all the while was listed, and what was listed was not
missing all the while (`ListedRight`); a walk has come as far as what it has
collected (`WalkRight`); so the verdict on an image that stood is right when it is
made (`VerdictRight`) and, as `past` only shrinks, ever after.

*LocalBucket.* In a pull, the thread that truncated a shared file last only sees
it grow, so what it has checked is there when all are done; a file has such a
thread, or one that will truncate it (`PullInv`). In a push, a blob that is torn
without a failure is being written by the pusher that truncated it last
(`PushInv`), so none is torn when all pushes are over, and a tag leads only to
files that exist.

*Platforms.* `PlatformsInv` follows what was chosen through the steps: what the
daemon handed back is like it, if the daemon tells platforms apart, and like what
was asked for, if something was. That `Alike` to the host means that the host's
name is the shorter one is where its having no variant is needed.

*Loops over data.* A theorem whose parameter is an operator cannot be used with
the provers at hand, and so no induction theorem of the library. `AlgorithmProofs`
has induction in a form they take, for a set of numbers (`NatSet`, `SpanSet`),
from the inclusion of the finite intervals below a number, which the library shows
to be well-founded. `RecursionExists` proves by it that a function given by its
first value and a step exists, which is what makes the recursive functions of the
models (`Walk`, `Hash`, `ChunkStarts`, `CatFrom`, `RealPath`) satisfy their equations; a
function of all sequences goes by their length (`EndlessRecursion`).

*Retention.* `LoopInv` is the invariant of the walk over the tags, newest first:
`kept` counts what the policy limits and has not doomed, nothing is doomed
before that reaches `keepLast`, and each doomed tag has `keepLast` newer tags
that are not. With it the walk decides what its comment says (`DecisionHolds`),
for every order the sort may leave tags of one age in. `RetentionInv` carries
the decision through the steps of a cleaner: what it is about to delete is
doomed by the policy it read, and is not protected. `CleanedInv` says of every
tag the decision dooms that its goroutine is still to list or to delete it, or
that it is gone or was pushed since, so when no goroutine is left (`CleansUp`)
only those are. `FloorInv` adds that what was listed is still there until the
decision, and what was not doomed after it. Only a second cleaner, or what else
removes tags, could disturb that, and two can go below the floor together, each
by its own listing: hence the hypothesis of `FloorHolds`.

*ChunkedLayer.* The splitter sees a window of the layer, never the whole of it.
`HashPrefix` and `BoundaryPrefix` say that the hash and the boundary depend on no
byte behind the first `MaxSize`; `CutsInv`, that the chunks adjoin and that each is
cut where the content from its start on asks for, whatever the sizes of the reads.
`StoreInv` orders the uploads: chunks, index, recipe. For the reader `RecipeRight`
and `StartsRight` add up the sizes of a recipe to the cuts, `SearchRight` is
the binary search that finds the chunks of a file, `SpanRight` the bytes they make
up, of which the file is a part (`ExtractRight`); and
`ReadInv` says of a layer that is put together, chunk by chunk in any order, that
the bytes of each chunk that is done are the layer's (`Assembled`). That the
recipe, once there, describes the cuts for good (`StoredStays`) is what lets a
reader go by it.

*FileRead.* Two things have to meet. The layers keep step with the container
(`LayersInStep`): what it has at a path, a layer has, and no layer above that
has anything there or a marker for it; and where it has nothing, each layer that
has something lies below one whose markers hide it. A commit preserves this
because, of what is gone, either a directory above it was made anew, or it or
the topmost directory above it that is gone leaves a marker (`GoneIsHidden`). So
the search finds what the container has, or fails at a layer that cannot be read
(`SearchSays`). And `CatFrom` and `RealPath` follow the same links, the one as
far as the other unless cat gives up at its own limit, with an error
(`CatAgrees`): a path whose directories are directories leads to itself
(`DirectPath`), and by `ThroughDirectories` links lead to no others. That
condition names what `CatFile` does not do, which is to follow a link in the
middle of a path or to notice that a file has replaced a directory; the run's
instance meets it.

Only model-checked: all liveness (`GarbageCollected`, `RequestEnds`, `NoLeak`, and
with their fairness `IsSemaphore` and `LimiterKept`), which the prover cannot do.

## Findings

1. **A reused chunk is not refreshed** (`registry_reuse`, `TagComplete`).
   `Store` skips a chunk it finds and leaves its `LastModified` alone
   (`chunkstore.go:162`), and a refreshed blob may already have been listed as
   old. A collection that runs beside the push deletes it, before or after the
   tag is published. `docs/faq.md:126`: "The grace period prevents this race
   condition." It does for objects the push makes, which is what
   `FreshTagComplete` says and the proofs show.
2. **A manifest read back from disk gets a new lease** (`cache_stale`,
   `StaleBounded`). `cache.go:107` re-warms memory by `PutManifest`, which sets
   the expiry anew and rewrites the file; evictions or restarts within each TTL
   keep an overwritten manifest for ever. `cache.go:41`: a cache is one "holding at
   most max manifests for ttl each", and `cache.go:51`: "NewDiskCache is NewCache
   plus best-effort persistence under dir". No command makes a cache with a
   directory: `s3lo serve` takes `NewCache` (`cmd/s3lo/serve.go:127`), of which
   `StaleBoundedInMemory` is proved.
3. **Cleaning a tag deletes what lies below it** (`cleaned_nested`,
   `ImmutableStay`). The prefix of the tag `app:v1` is that of every tag of an image
   named `app/v1` (`lifecycle.go:135`), and names with slashes are allowed
   (`pkg/ref/parse.go:99`). That image may be immutable: "an immutable image is exempt
   from automated pruning, and `s3lo delete --force` is the only way to remove one of
   its tags" (`lifecycle.go:22`).
4. **A tag goes only if it violates both rules** (`retention_either`, `EitherRule`).
   With both limits set, `evaluateTags` keeps the newest `keep_last` tags whatever their
   age, and of the others deletes those older than `max_age` (`lifecycle.go:192`), as
   the comment above it says (`lifecycle.go:189`). `docs/guides/lifecycle.md:15`: "When
   both `keep_last` and `max_age` are set, a tag is deleted if it violates **either**
   rule", and `docs/commands/clean.md:32`: "Tags violating any rule are candidates for
   deletion." `DecisionRight` and `FloorKept` state the comment's rule.
5. **Variants of the chosen platform are not named** (`push_names`,
   `LeftBehindNamed`). `others` leaves out all that begins with the chosen name
   (`platform.go:64`): a push that chose linux/arm publishes one of arm/v6 and arm/v7
   and names neither. `platform.go:14`: "the platforms not published are now named,
   instead of vanishing without a word", and `docs/commands/push.md:79` says so too.

Further behaviour the models show, which has no run of its own; it contradicts no
text of the repository, except where a text is named:

- a copy of all platforms from bucket to bucket drops the signature when bucket,
  image or tag differ (`copy_s3.go:324`), as `SignedAsSource` states, the comment above
  and a test say; the table at `docs/commands/copy.md:81` has it "travels, still
  verifies" for all such copies;
- a file removed by an opaque marker is not found by `cat` (`file.go:128`), as
  `SeesContainerPlain` states and a container would have it; `docs/commands/cat.md:63`
  lists as a limit that it "still reads";
- `cat` follows 16 links and a container 40, so of a chain between the two `cat` reports
  an error and `SeesContainerPlain` asks no more of it;
- two pushes of a new tag of an immutable image both find it free, and the
  second overwrites the first; `config set` can undo a format stamp made between
  its read and its write (`Settled` says when that is over);
- a tag pushed again after `clean` listed it is deleted as the old one, as is what is
  pushed to a nested image meanwhile; two
  cleaners at once can go below the floor together;
- a reader of the disk cache can be served the file while it is being written;
- what the server has verified under one tag it serves under any tag of the same
  content, for it remembers the digest alone; the binding of a signature to its
  tag (`pkg/ref/parse.go:187`) is kept by `verify` and by the server's first
  check, and `SignedOnly` states the weaker promise of the server;
- a pull of a signed index asks for its child by digest next, and is refused
  unless the child was verified through a tag of its own;
- two overrides with globs of the same length are in no order, so a cleaning may
  find the image protected by one and take its policy from the other, and the
  next cleaning may decide otherwise;
- the fetches of a stream that was cut short may outlive the permit of its
  request for a moment;
- the release of a limiter that handlers made themselves can block, when another
  handler has replaced the channel;
- `cat` reports a path through a linked directory as missing, still shows one
  below a directory that was replaced, and follows a hard link by its path
  (`ThroughDirectories` and `NoHardLink` leave these out);
- a `local://` blob torn by a crash is taken for the blob by every later push
  (a pull notices), and two publishers of one tag can leave a mixed manifest;
- an index whose child manifest is gone makes every collection of the bucket fail
  until its tag is removed or pushed again: nothing is deleted, of any image;
- doctor tells the operator to delete what it reports, and reports an image that
  was pushed between its listings and its reading of the tag, and an index of
  which a child could not be read because one request failed; it looks for the
  recipe of a chunked layer and not for its chunks;
- an error document in answer to a challenge is taken for a token response
  without a token, and clears the one the fetches share; the others negotiate
  again;
- for a push that chose "linux/arm64/v8", `others` names the "linux/arm64" it pushed;
  `containsPlatform` of push takes either for the other, `matchesPlatform` of pull does
  not;
- a pull takes the layout of v1.0.0, which it does not verify, whenever the tag is
  missing, and so also between the removal of a tag and its next push.

## Not modelled

- `Registry`: a chunk shared by two layers of one image is handled once; a layer
  without files has no index in the code and always one here; a push refused by
  policy is one that never begins (`BucketConfig` has the policy); a listing is
  atomic, as one page is; dry runs; a blob whose digest is also that of a
  referenced chunked layer; indexes within indexes.
- `Retention`: one image, and the tags of images named below its tags; a tag's
  manifest and its sidecars go together; the
  parsing of durations and patterns (a max_age of zero is taken for none), and
  character classes in patterns; the
  configuration does not change (`BucketConfig` is about that).
- `Serve`: the cache in front of it (`ManifestCache`), referrers and other
  endpoints, several signing keys, bodies of indexes in `Verify`.
- `Blob`: presigning, ranges and headers.
- `Copy`: an index that a filter leaves with several platforms; collections of
  the destination (`Registry` has them, for copies as for pushes); a destination with
  stale signatures of its own, and removal of the source's tag.
- `RegistryClient`: how credentials are found and challenges parsed, the lengths
  of the delays; a bucket's objects fetched over it are those of `Copy`.
- `Doctor`: a manifest that does not parse is one that cannot be read; the
  report's wording.
- `LocalBucket`: chunked layers (`ChunkedLayer`), removal of files that are open.
- `Platforms`: one push or pull at a time, and operating systems other than
  linux; the layout on disk and the tar stream of the daemon are taken as given.
- Pagination, multipart uploads, presigned URLs and credentials of the cloud
  backends, whose operations are taken as atomic; the command line, which checks
  flags and prints.
- `stats`, `list`, `inspect` and layer sharing: they read a moving bucket once and
  print, keep nothing, and no other command acts on what they print.

## Plan

Done, in this order: tags against collections (`Registry` and its proofs), which
everything else rests on; the configuration; the concurrent parts of `serve` and
of the chunk store; the commands around them; then indexes and copies in
`Registry`, doctor, the client of a registry, the platforms of push and pull, and
the proofs of these and of the copies and local buckets; then the proofs of the
limiter, the caches, retention, the chunked layers and the reading of files.

Next, to model:

1. `Serve` behind `ManifestCache`, where a manifest that was verified is served
   from the cache after its tag has moved.
2. Batches and pages of the remote backends: a listing of several pages beside
   writes, a batch of deletions of which a part fails.
3. The conversion of a docker manifest to one with compressed layers, with its
   digests, in the write path.

And to prove: `FileTypeOK` and the other type invariants that no theorem states yet,
and the safety of what is modelled next. Every safety property of the runs that pass
is proved.
