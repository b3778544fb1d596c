---------------------------- MODULE LocalBucket ----------------------------
(***************************************************************************)
(* A local:// bucket (pkg/storage/local.go), where an object is a file     *)
(* written in place: pushes of a tag (push.go, storeLayer) beside pulls of *)
(* it (pull.go, fetchLayer), which copy file to file and verify. The       *)
(* bucket stores layers whole.                                             *)
(*                                                                         *)
(* A file is known by the parts of the right content it holds; a file that *)
(* holds the second part only is as long as it should be, with a hole.     *)
(***************************************************************************)
EXTENDS Naturals, Sequences, FiniteSets, SequencesExt

CONSTANTS
    Pusher, Puller,
    Digest, Manifest,
    ConfigOf, \* of each manifest, the digest of its config
    LayersOf, \* and those of its layers, in order
    Empty, Garbled, \* a manifest.json truncated, or written by two at once
    None

Part == {"first", "second"}

ASSUME LocalAssumption ==
    /\ ConfigOf \in [Manifest -> Digest]
    /\ LayersOf \in [Manifest -> Seq(Digest)]
    /\ Empty \notin Manifest /\ Garbled \notin Manifest \union {Empty}
    /\ None \notin Manifest \union {Empty} /\ \A parts \in SUBSET Part : None # parts
DigestsOf(m) == {ConfigOf[m]} \union Range(LayersOf[m])

VARIABLES
    blob,   \* the files below blobs/sha256
    tag,    \* the tag's manifest.json
    push,   \* of each pusher, the running push
    pull,   \* of each puller, the running pull
    failed  \* history: some push has failed or died

vars == <<blob, tag, push, pull, failed>>

NoPush == [pc |-> "idle"]
NoPull == [pc |-> "idle"]

PushState ==
    {NoPush}
    \union (UNION {[pc : {"blobs"}, image : {m}, step : [DigestsOf(m) -> {"head", "create", "done"} \union Part]] : m \in Manifest})
    \union [pc : {"truncate", "write"}, image : Manifest]

Thread(m) == 0 .. Len(LayersOf[m])
PullStep == {"wait", "open", "check first", "check second", "done"} \union Part
PullState ==
    {NoPull} \union
    (UNION {[pc : {"fetch", "imported"}, image : {m}, step : [Thread(m) -> PullStep],
            tmp : [DigestsOf(m) -> (SUBSET Part) \union {None}]] : m \in Manifest})

TypeOK ==
    /\ blob \in [Digest -> (SUBSET Part) \union {None}]
    /\ tag \in Manifest \union {Empty, Garbled, None}
    /\ push \in [Pusher -> PushState]
    /\ pull \in [Puller -> PullState]
    /\ failed \in BOOLEAN

Init ==
    /\ blob = [d \in Digest |-> None]
    /\ tag = None
    /\ push = [p \in Pusher |-> NoPush]
    /\ pull = [r \in Puller |-> NoPull]
    /\ failed = FALSE

-----------------------------------------------------------------------------
(* Push. Every blob has a worker of its own.                               *)

PushBegin(p, m) ==
    /\ push[p] = NoPush
    /\ push' = [push EXCEPT ![p] = [pc |-> "blobs", image |-> m, step |-> [d \in DigestsOf(m) |-> "head"]]]
    /\ UNCHANGED <<blob, tag, pull, failed>>

Worker(p, d, from, to) ==
    /\ push[p].pc = "blobs" /\ d \in DOMAIN push[p].step /\ push[p].step[d] = from
    /\ push' = [push EXCEPT ![p].step[d] = to]
    /\ UNCHANGED <<tag, pull, failed>>

\* Variant: an existing blob is refreshed by opening it as for a write.
HeadBlobTruncating(p, d) ==
    /\ Worker(p, d, "head", IF blob[d] = None THEN "create" ELSE "done")
    /\ blob' = IF blob[d] = None THEN blob ELSE [blob EXCEPT ![d] = {}]

\* A file that exists is taken for the blob, and its time refreshed.
HeadBlob(p, d) ==
    /\ Worker(p, d, "head", IF blob[d] = None THEN "create" ELSE "done")
    /\ UNCHANGED blob

\* localCopyFile: os.Create truncates, io.Copy writes part after part.
CreateBlob(p, d) ==
    /\ Worker(p, d, "create", "first")
    /\ blob' = [blob EXCEPT ![d] = {}]

\* Variant: the copy ends with the first part.
WriteBlobShort(p, d, part) ==
    /\ Worker(p, d, part, "done")
    /\ blob' = [blob EXCEPT ![d] = @ \union {part}]

WriteBlob(p, d, part) ==
    /\ Worker(p, d, part, IF part = "first" THEN "second" ELSE "done")
    /\ blob' = [blob EXCEPT ![d] = @ \union {part}]

Uploaded(p) ==
    /\ push[p].pc = "blobs"
    /\ \A d \in DOMAIN push[p].step : push[p].step[d] = "done"
    /\ push' = [push EXCEPT ![p] = [pc |-> "truncate", image |-> push[p].image]]
    /\ UNCHANGED <<blob, tag, pull, failed>>

\* PutObject of manifest.json: os.WriteFile truncates ...
TruncateTag(p) ==
    /\ push[p].pc = "truncate"
    /\ tag' = Empty
    /\ push' = [push EXCEPT ![p].pc = "write"]
    /\ UNCHANGED <<blob, pull, failed>>

\* ... and writes at once, over what another has written since, of which a
\* longer one's end stays.
WriteTag(p) ==
    /\ push[p].pc = "write"
    /\ tag' \in {push[p].image} \union IF tag \in {Empty, push[p].image} THEN {} ELSE {Garbled}
    /\ push' = [push EXCEPT ![p] = NoPush]
    /\ UNCHANGED <<blob, pull, failed>>

\* An error, or the client dies: the files stay as they are.
PushFail(p) ==
    /\ push[p] # NoPush
    /\ push' = [push EXCEPT ![p] = NoPush]
    /\ failed' = TRUE
    /\ UNCHANGED <<blob, tag, pull>>

-----------------------------------------------------------------------------
(* Pull. Thread 0 fetches the config; then thread i the i-th layer, into a *)
(* file that is named by the digest and shared by threads of one digest.   *)

Fetched(m, i) == IF i = 0 THEN ConfigOf[m] ELSE LayersOf[m][i]

PullBegin(r) ==
    /\ pull[r].pc = "idle" /\ tag \in Manifest
    /\ pull' = [pull EXCEPT ![r] =
         [pc |-> "fetch", image |-> tag,
          step |-> [i \in Thread(tag) |-> IF i = 0 THEN "open" ELSE "wait"],
          tmp |-> [d \in DigestsOf(tag) |-> None]]]
    /\ UNCHANGED <<blob, tag, push, failed>>

\* An error of a thread ends the pull, the directory is removed.
PullFails(r) ==
    /\ pull' = [pull EXCEPT ![r] = NoPull]
    /\ UNCHANGED <<blob, tag, push, failed>>

At(r, i, step) == pull[r].pc = "fetch" /\ i \in DOMAIN pull[r].step /\ pull[r].step[i] = step

Step(r, i, to, content) ==
    LET q == pull[r] IN
    /\ pull' = [pull EXCEPT ![r] =
         [pc |-> q.pc, image |-> q.image, step |-> [q.step EXCEPT ![i] = to],
          tmp |-> [q.tmp EXCEPT ![Fetched(q.image, i)] = content]]]
    /\ UNCHANGED <<blob, tag, push, failed>>

StartLayers(r) ==
    /\ pull[r].pc = "fetch" /\ pull[r].step[0] = "done"
    /\ \E i \in DOMAIN pull[r].step : pull[r].step[i] = "wait"
    /\ pull' = [pull EXCEPT ![r].step = [i \in DOMAIN pull[r].step |-> IF i = 0 THEN "done" ELSE "open"]]
    /\ UNCHANGED <<blob, tag, push, failed>>

\* DownloadObjectToFile opens the blob and creates the file.
OpenBlob(r, i) ==
    /\ At(r, i, "open")
    /\ IF blob[Fetched(pull[r].image, i)] = None THEN PullFails(r) ELSE Step(r, i, "first", {})

\* The copy ends where the blob does, as it is at that moment.
CopyPart(r, i, part) ==
    LET d == Fetched(pull[r].image, i) IN
    /\ At(r, i, part)
    /\ Step(r, i, IF part = "first" /\ blob[d] # {} THEN "second" ELSE "check first",
            pull[r].tmp[d] \union ({part} \intersect blob[d]))

\* Variant: the size of the file is checked, not what it holds.
CheckSize(r, i, part) ==
    LET d == Fetched(pull[r].image, i) IN
    /\ At(r, i, IF part = "first" THEN "check first" ELSE "check second")
    /\ IF "second" \in pull[r].tmp[d]
       THEN Step(r, i, IF part = "first" THEN "check second" ELSE "done", pull[r].tmp[d])
       ELSE PullFails(r)

\* verifyFileDigest reads the file from its start.
CheckPart(r, i, part) ==
    LET d == Fetched(pull[r].image, i) IN
    /\ At(r, i, IF part = "first" THEN "check first" ELSE "check second")
    /\ IF part \in pull[r].tmp[d]
       THEN Step(r, i, IF part = "first" THEN "check second" ELSE "done", pull[r].tmp[d])
       ELSE PullFails(r)

\* All threads are back: the layout goes to the daemon.
Import(r) ==
    /\ pull[r].pc = "fetch" /\ \A i \in DOMAIN pull[r].step : pull[r].step[i] = "done"
    /\ pull' = [pull EXCEPT ![r].pc = "imported"]
    /\ UNCHANGED <<blob, tag, push, failed>>

PullEnd(r) == pull[r].pc = "imported" /\ PullFails(r)

Next ==
    \/ \E p \in Pusher :
         \/ \E m \in Manifest : PushBegin(p, m)
         \/ \E d \in Digest :
              HeadBlob(p, d) \/ CreateBlob(p, d) \/ \E part \in Part : WriteBlob(p, d, part)
         \/ Uploaded(p) \/ TruncateTag(p) \/ WriteTag(p) \/ PushFail(p)
    \/ \E r \in Puller :
         \/ PullBegin(r) \/ StartLayers(r) \/ Import(r) \/ PullEnd(r)
         \/ pull[r].pc = "fetch" /\ \E i \in DOMAIN pull[r].step :
              OpenBlob(r, i) \/ \E part \in Part : CopyPart(r, i, part) \/ CheckPart(r, i, part)

Spec == Init /\ [][Next]_vars

-----------------------------------------------------------------------------

\* What a pull hands to the daemon is whole, whoever writes the bucket or dies
\* meanwhile and though threads of one digest truncate each other's file
\* (pull.go: a corrupted blob must never be handed to the Docker daemon).
PullRight == \A r \in Puller :
    pull[r].pc = "imported" => \A d \in DOMAIN pull[r].tmp : pull[r].tmp[d] = Part

\* Pushes of the same blobs may tear them for one another, but when all have
\* ended well, what the tag names is whole. (After a failure it need not be: a
\* blob cut off is taken for the blob by every later push.)
QuietWhole ==
    ~failed /\ push = [p \in Pusher |-> NoPush] =>
        /\ \A d \in Digest : blob[d] \in {None, Part}
        /\ tag \in Manifest => \A d \in DigestsOf(tag) : blob[d] = Part
        /\ tag # Empty

\* Only a push that found the blob missing can tear it: a whole blob stays so,
\* failures or not, unless such a push is about to write it.
UndisturbedStays ==
    [][\A d \in Digest :
         /\ blob[d] = Part
         /\ \A p \in Pusher : push[p].pc = "blobs" /\ d \in DOMAIN push[p].step => push[p].step[d] # "create"
         => blob'[d] = Part]_vars
=============================================================================
