------------------------------- MODULE Serve -------------------------------
(***************************************************************************)
(* Manifests as the serve package hands them out (pkg/serve/handler.go     *)
(* handleManifest and findManifestByDigest, without a cache) under a       *)
(* signature policy (verify.go), by concurrent handlers. The        *)
(* bucket changes meanwhile: tags are pushed, signed (pkg/image/sign.go),  *)
(* verified (pkg/image/verify.go) and deleted, and child manifests         *)
(* collected. (For the limiter see Limiter.)                               *)
(*                                                                         *)
(* A manifest is its own digest.                                           *)
(***************************************************************************)
EXTENDS Naturals

CONSTANTS
    Handler,    \* goroutines serving requests
    Tag,
    Manifest,
    Children,   \* of each manifest, those it lists when it is an index
    MaxChanges, \* bound: changes of the bucket
    None

ASSUME ServeAssumption ==
    /\ Children \in [Manifest -> SUBSET Manifest]
    /\ None \notin Manifest \union Tag
    /\ MaxChanges \in Nat

\* What a signature sidecar records. It holds when its schema is the current
\* one and its bytes are a signature of the payload of its tag and digest:
\* those of an older schema, or brought here from another tag, do not.
Record == [of : Manifest, holds : BOOLEAN]

\* The last element of the request's path, and what it leads to.
Ref == [by : {"tag"}, of : Tag] \union [by : {"digest"}, of : Manifest]

VARIABLES
    tag,      \* manifests/<image>/<tag>/manifest.json
    blob,     \* child manifests below blobs/sha256
    record,   \* of each tag, the sidecar of the server's key
    verified, \* Verifier.cache
    work,     \* of each handler, its request
    client,   \* a running sign or verify: the tag and the manifest it has read
    signed,   \* history: what was signed under which tag
    changes

bucket  == <<tag, blob, record, changes>>
clients == <<client, signed>>
vars == <<bucket, verified, work, clients>>

NoWork == [step |-> "none"]
Answer == {None, "ok", "unknown", "denied", "error"}

\* What a request has come to: the manifest it has got, the listed tags still
\* to look at, and (history) the ways that have led to what it wants ever since
\* it was made.
Work == [step : {"look", "child", "policy", "record", "answered"}, ref : Ref,
         got : Manifest \union {None}, todo : SUBSET Tag, answer : Answer,
         ways : SUBSET (Tag \X Manifest)]

TypeOK ==
    /\ tag \in [Tag -> Manifest \union {None}]
    /\ blob \subseteq Manifest
    /\ record \in [Tag -> Record \union {None}]
    /\ verified \subseteq Manifest
    /\ work \in [Handler -> Work \union {NoWork}]
    /\ \A h \in Handler : work[h].step \in {"policy", "record"} => work[h].got # None
    /\ client \in [step : {"sign", "verify", "verified"}, tag : Tag, of : Manifest] \union {None}
    /\ signed \subseteq Tag \X Manifest
    /\ changes \in 0..MaxChanges

\* The server starts on a bucket that holds images, none of them signed yet.
Init ==
    /\ tag \in [Tag -> Manifest \union {None}]
    /\ blob = UNION {Children[tag[t]] : t \in {u \in Tag : tag[u] # None}}
    /\ record = [t \in Tag |-> None]
    /\ verified = {}
    /\ work = [h \in Handler |-> NoWork]
    /\ client = None /\ signed = {}
    /\ changes = 0

\* Variant: what the record says is taken for what was signed.
ProvesByWord(rec, m) == rec # None /\ rec.of = m

\* Whether a sidecar proves that its tag's manifest m was signed.
Proves(rec, m) == rec # None /\ rec.of = m /\ rec.holds

\* Whether manifest m is an index that lists d (indexChildDigest).
Lists(m, d) == d \in Children[m]

\* Where request ref finds what it wants: in a tag, as its signed content when
\* asked by tag, as its content or a child of it when asked by digest.
WaysIn(tags, blobs, records, ref) == {w \in Tag \X Manifest :
    /\ tags[w[1]] = w[2]
    /\ IF ref.by = "tag" THEN w[1] = ref.of /\ Proves(records[w[1]], w[2])
       ELSE w[2] = ref.of \/ (Lists(w[2], ref.of) /\ ref.of \in blobs)}

-----------------------------------------------------------------------------
(* A handler: handleManifest.                                              *)

Busy(h, step) == work[h].step = step
Goes(h, new) == work' = [work EXCEPT ![h] = new] /\ UNCHANGED <<bucket, clients>>
Answered(request, a) ==
    [request EXCEPT !.step = "answered", !.todo = {}, !.answer = a,
       !.got = IF a = "ok" THEN @ ELSE None,
       !.ways = IF a \in {"unknown", "denied"} THEN @ ELSE {}]
Answers(h, a) == Goes(h, Answered(work[h], a))
Found(request, m) ==
    [request EXCEPT !.step = "policy", !.got = m, !.todo = {},
       !.ways = IF request.ref.by = "tag" THEN @ ELSE {}]
Finds(h, m) == Goes(h, Found(work[h], m))

Asked(ref) == [step |-> "look", ref |-> ref, got |-> None, todo |-> {}, answer |-> None,
               ways |-> WaysIn(tag, blob, record, ref)]

\* The first request to storage: the tag's manifest ...
GetTag(h, ref) ==
    /\ Busy(h, "none") /\ ref.by = "tag"
    /\ Goes(h, IF tag[ref.of] = None THEN Answered(Asked(ref), "unknown")
                                     ELSE Found(Asked(ref), tag[ref.of]))
    /\ UNCHANGED verified

\* ... or, for a digest, a listing of the tags (findManifestByDigest) ...
ListTags(h, ref) ==
    /\ Busy(h, "none") /\ ref.by = "digest"
    /\ Goes(h, [Asked(ref) EXCEPT !.todo = {t \in Tag : tag[t] # None}])
    /\ UNCHANGED verified

FirstFails(h, ref) ==
    /\ Busy(h, "none")
    /\ Goes(h, Answered(Asked(ref), "error"))
    /\ UNCHANGED verified

\* ... then tag by tag, one that is gone or holds something else is passed by.
Look(h, t) ==
    LET m == tag[t]  d == work[h].ref.of IN
    /\ Busy(h, "look") /\ t \in work[h].todo
    /\ IF m = d THEN Finds(h, m)
       ELSE IF m # None /\ Lists(m, d)
            THEN Goes(h, [work[h] EXCEPT !.step = "child", !.todo = @ \ {t}])
            ELSE Goes(h, [work[h] EXCEPT !.todo = @ \ {t}])
    /\ UNCHANGED verified

\* Variant: a child that is not there ends the search.
ReadChildOrFail(h) ==
    LET d == work[h].ref.of IN
    /\ Busy(h, "child")
    /\ IF d \in blob THEN Finds(h, d) ELSE Answers(h, "unknown")
    /\ UNCHANGED verified

\* An index lists it: the child is a blob, and if it is not there, another
\* tag may hold it.
ReadChild(h) ==
    LET d == work[h].ref.of IN
    /\ Busy(h, "child")
    /\ IF d \in blob THEN Finds(h, d) ELSE Goes(h, [work[h] EXCEPT !.step = "look"])
    /\ UNCHANGED verified

NotFound(h) ==
    /\ Busy(h, "look") /\ work[h].todo = {}
    /\ Answers(h, "unknown")
    /\ UNCHANGED verified

\* writeManifest: what this process has verified passes; otherwise a digest is
\* refused, and a tag's sidecar is read (Check).
Policy(h) ==
    /\ Busy(h, "policy")
    /\ IF work[h].got \in verified THEN Answers(h, "ok")
       ELSE IF work[h].ref.by = "digest" THEN Answers(h, "denied")
       ELSE Goes(h, [work[h] EXCEPT !.step = "record"])
    /\ UNCHANGED verified

ReadRecord(h) ==
    LET m == work[h].got IN
    /\ Busy(h, "record")
    /\ IF Proves(record[work[h].ref.of], m)
       THEN Answers(h, "ok") /\ verified' = verified \union {m}
       ELSE Answers(h, "denied") /\ UNCHANGED verified

\* A request to storage fails: 500, or 403 when it was for the sidecar.
StorageFails(h) ==
    /\ \E step \in {"look", "child", "record"} : Busy(h, step)
    /\ work[h].step = "look" => work[h].todo # {}
    /\ Answers(h, "error")
    /\ UNCHANGED verified

Handle(h) ==
    \/ (\E ref \in Ref : GetTag(h, ref) \/ ListTags(h, ref) \/ FirstFails(h, ref))
    \/ (\E t \in Tag : Look(h, t)) \/ ReadChild(h) \/ NotFound(h)
    \/ Policy(h) \/ ReadRecord(h) \/ StorageFails(h)

\* The response is written, and the handler serves its next request.
Return(h) == Busy(h, "answered") /\ Goes(h, NoWork) /\ UNCHANGED verified

-----------------------------------------------------------------------------
(* The clients of the bucket.                                              *)

\* Every change of the bucket; a way a request might have taken is gone when
\* it does not lead there any more.
Change ==
    /\ changes < MaxChanges /\ changes' = changes + 1
    /\ work' = [h \in Handler |-> IF work[h] = NoWork THEN NoWork
                 ELSE [work[h] EXCEPT !.ways = @ \intersect WaysIn(tag', blob', record', work[h].ref)]]
    /\ UNCHANGED verified

\* A push stores what an index lists before it writes the tag, and leaves the
\* sidecars of the manifest before it where they are.
Push(t, m) ==
    /\ tag' = [tag EXCEPT ![t] = m]
    /\ blob' = blob \union Children[m]
    /\ UNCHANGED <<record, clients>>
    /\ Change

\* delete removes everything below the tag.
Delete(t) ==
    /\ tag[t] # None
    /\ tag' = [tag EXCEPT ![t] = None]
    /\ record' = [record EXCEPT ![t] = None]
    /\ UNCHANGED <<blob, clients>>
    /\ Change

\* A collection deletes a child no tag leads to.
Collect(m) ==
    /\ m \in blob /\ \A t \in Tag : tag[t] # None => ~Lists(tag[t], m)
    /\ blob' = blob \ {m}
    /\ UNCHANGED <<tag, record, clients>>
    /\ Change

\* A sidecar that holds no signature of its tag: of an old build, or brought
\* from elsewhere.
ForeignRecord(t, m) ==
    /\ record' = [record EXCEPT ![t] = [of |-> m, holds |-> FALSE]]
    /\ UNCHANGED <<tag, blob, clients>>
    /\ Change

Runs(new) == client' = new /\ UNCHANGED <<bucket, verified, work, signed>>

\* Sign and Verify read the manifest first.
ReadManifest(t) ==
    /\ client = None /\ tag[t] # None
    /\ \E step \in {"sign", "verify"} : Runs([step |-> step, tag |-> t, of |-> tag[t]])

\* Sign stores the record of what it has read ...
SignStore ==
    /\ client # None /\ client.step = "sign"
    /\ client' = None
    /\ record' = [record EXCEPT ![client.tag] = [of |-> client.of, holds |-> TRUE]]
    /\ signed' = signed \union {<<client.tag, client.of>>}
    /\ UNCHANGED <<tag, blob>>
    /\ Change

\* ... and Verify tells whether the record proves it.
VerifyRecord ==
    /\ client # None /\ client.step = "verify" /\ Proves(record[client.tag], client.of)
    /\ Runs([client EXCEPT !.step = "verified"])

\* The command ends, with its answer or an error.
CommandEnds == client # None /\ Runs(None)

Next ==
    \/ \E h \in Handler : Handle(h) \/ Return(h)
    \/ \E t \in Tag : Delete(t) \/ ReadManifest(t)
    \/ \E t \in Tag, m \in Manifest : Push(t, m) \/ ForeignRecord(t, m)
    \/ \E m \in Manifest : Collect(m)
    \/ SignStore \/ VerifyRecord \/ CommandEnds

Spec == Init /\ [][Next]_vars

-----------------------------------------------------------------------------

\* The inductive invariant behind SignedOnly: a sidecar that holds was made by
\* Sign, and whatever Check has taken for verified was signed under some tag.
Attested ==
    /\ \A t \in Tag : record[t] # None /\ record[t].holds => <<t, record[t].of>> \in signed
    /\ \A m \in verified : \E t \in Tag : <<t, m>> \in signed
    /\ \A h \in Handler : work[h].step = "answered" /\ work[h].answer = "ok" =>
         work[h].got \in verified
    /\ \A h \in Handler : work[h].step # "none" /\ work[h].got # None =>
         (work[h].ref.by = "digest" => work[h].got = work[h].ref.of)
    /\ \A h \in Handler : work[h].step = "record" => work[h].ref.by = "tag"
    /\ client # None /\ client.step = "verified" => <<client.tag, client.of>> \in signed

\* No manifest leaves the server, and verify vouches for none, that was not
\* signed by the key: verify for the very tag, the server for some tag, since
\* it remembers what it has verified by content. And whatever happened to the
\* tags between the listing and the reads, a digest is answered with its
\* content (Check, writeManifest, findManifestByDigest, Verify).
SignedOnly ==
    /\ \A h \in Handler : work[h].step = "answered" /\ work[h].answer = "ok" =>
         /\ \E t \in Tag : <<t, work[h].got>> \in signed
         /\ work[h].ref.by = "digest" => work[h].got = work[h].ref.of
    /\ client # None /\ client.step = "verified" => <<client.tag, client.of>> \in signed

\* What stands is served: a tag that holds the same signed manifest from the
\* request to the answer is not refused, and a digest that one tag leads to all
\* that time is not unknown, whatever happens to the other tags
\* (findManifestByDigest: a key that disappeared is skipped).
StandingIsServed ==
    \A h \in Handler : work[h].step = "answered" =>
        /\ work[h].answer = "unknown" => work[h].ways = {}
        /\ work[h].answer = "denied" /\ work[h].ref.by = "tag" => work[h].ways = {}
=============================================================================
