------------------------- MODULE LocalBucketProofs -------------------------
(***************************************************************************)
(* Proofs about LocalBucket, and about Platforms.                          *)
(***************************************************************************)
EXTENDS LocalBucket, Platforms, FiniteSetTheorems, TLAPS

-----------------------------------------------------------------------------
(* Pull: what is right of q, a running pull, by itself.                    *)

Begun(q, i) == q.step[i] \notin {"wait", "open"}

PullShape(q) ==
    /\ q = [pc |-> q.pc, image |-> q.image, step |-> q.step, tmp |-> q.tmp]
    /\ q.pc \in {"fetch", "imported"} /\ q.image \in Manifest
    /\ q.step = [i \in Thread(q.image) |-> q.step[i]]
    /\ q.tmp = [d \in DigestsOf(q.image) |-> q.tmp[d]]

\* The thread that truncated the file last: since then it only grows, and what
\* the thread has checked is there.
LastToOpen(q, i, d) ==
    /\ Fetched(q.image, i) = d /\ Begun(q, i)
    /\ q.step[i] \in {"check second", "done"} => "first" \in q.tmp[d]
    /\ q.step[i] = "done" => "second" \in q.tmp[d]

\* A file has such a thread, or one that will truncate it.
FilesRight(q) ==
    /\ \A i \in Thread(q.image) : Begun(q, i) => q.tmp[Fetched(q.image, i)] \subseteq Part
    /\ \A d \in DigestsOf(q.image) : \E i \in Thread(q.image) :
         \/ Fetched(q.image, i) = d /\ ~Begun(q, i)
         \/ LastToOpen(q, i, d)

PullOK(q) ==
    \/ q = NoPull
    \/ /\ PullShape(q) /\ FilesRight(q)
       /\ q.pc = "imported" => \A d \in DigestsOf(q.image) : q.tmp[d] = Part

PullInv ==
    /\ pull = [r \in Puller |-> pull[r]]
    /\ \A r \in Puller : PullOK(pull[r])

LEMMA ThreadsCover ==
    ASSUME NEW m \in Manifest
    PROVE  /\ \A i \in Thread(m) : Fetched(m, i) \in DigestsOf(m)
           /\ \A d \in DigestsOf(m) : \E i \in Thread(m) : Fetched(m, i) = d
           /\ 0 \in Thread(m)
<1>1. LayersOf[m] \in Seq(Digest)
  BY LocalAssumption
<1>2. DOMAIN LayersOf[m] = 1 .. Len(LayersOf[m]) /\ Len(LayersOf[m]) \in Nat
  BY <1>1
<1>3. \A i \in Thread(m) : i # 0 => i \in DOMAIN LayersOf[m]
  BY <1>2 DEF Thread
<1>4. 0 \in Thread(m) /\ \A i \in DOMAIN LayersOf[m] : i \in Thread(m) /\ i # 0
  BY <1>2 DEF Thread
<1>5. \A i \in Thread(m) : Fetched(m, i) \in DigestsOf(m)
  BY <1>3 DEF Fetched, DigestsOf, Range
<1>6. \A d \in DigestsOf(m) : \E i \in Thread(m) : Fetched(m, i) = d
  <2>1. Fetched(m, 0) = ConfigOf[m] /\ 0 \in Thread(m)
    BY <1>4 DEF Fetched
  <2>2. \A d \in Range(LayersOf[m]) : \E i \in Thread(m) : Fetched(m, i) = d
    BY <1>4 DEF Fetched, Range
  <2> QED BY <2>1, <2>2 DEF DigestsOf
<1> QED BY <1>4, <1>5, <1>6

LEMMA OnePull ==
    ASSUME PullInv, NEW r \in Puller, NEW q, PullOK(q), pull' = [pull EXCEPT ![r] = q]
    PROVE  PullInv'
<1>1. pull' = [k \in Puller |-> IF k = r THEN q ELSE pull[k]]
  BY DEF PullInv
<1>2. ASSUME NEW k \in Puller PROVE PullOK(pull'[k])
  BY <1>1 DEF PullInv
<1> QED BY <1>1, <1>2 DEF PullInv

\* A thread goes on, and its file with it: it grows, or is truncated as the
\* thread begins.
LEMMA ThreadInv ==
    ASSUME PullInv, NEW r \in Puller, pull[r].pc = "fetch", NEW i \in DOMAIN pull[r].step,
           NEW to, NEW content, Step(r, i, to, content), content \subseteq Part,
           to \notin {"wait", "open"},
           \/ to = "first"
           \/ /\ Begun(pull[r], i)
              /\ pull[r].tmp[Fetched(pull[r].image, i)] \subseteq content
              /\ to = "check second" => "first" \in content
              /\ to = "done" => pull[r].step[i] = "check second" /\ "second" \in content
    PROVE  PullInv'
<1>0. PullShape(pull[r]) /\ FilesRight(pull[r])
  <2>1. NoPull.pc = "idle"
    BY DEF NoPull
  <2> QED BY <2>1 DEF PullInv, PullOK
<1>1. PICK pc, m, step, tmp :
        /\ pull[r] = [pc |-> pc, image |-> m, step |-> step, tmp |-> tmp] /\ pc = "fetch"
        /\ pull[r].image = m /\ pull[r].step = step /\ pull[r].tmp = tmp
  BY <1>0 DEF PullShape
<1>2. /\ m \in Manifest /\ i \in Thread(m)
      /\ step = [k \in Thread(m) |-> step[k]] /\ tmp = [d \in DigestsOf(m) |-> tmp[d]]
  BY <1>0, <1>1 DEF PullShape
<1>3. PICK d \in DigestsOf(m) : d = Fetched(m, i)
  BY <1>2, ThreadsCover
<1>4. PICK q : q = [pc |-> pc, image |-> m, step |-> [step EXCEPT ![i] = to], tmp |-> [tmp EXCEPT ![d] = content]]
  OBVIOUS
<1>5. pull' = [pull EXCEPT ![r] = q]
  BY <1>1, <1>3, <1>4 DEF Step
<1>6. /\ \A k \in Thread(m) : q.step[k] = IF k = i THEN to ELSE step[k]
      /\ \A e \in DigestsOf(m) : q.tmp[e] = IF e = d THEN content ELSE tmp[e]
  BY <1>2, <1>3, <1>4
<1>7. /\ PullShape(q) /\ q.image = m /\ q.pc = "fetch"
      /\ DOMAIN q.step = Thread(m) /\ DOMAIN q.tmp = DigestsOf(m)
  BY <1>1, <1>2, <1>3, <1>4 DEF PullShape
<1>8. ASSUME NEW k \in Thread(m), Begun(q, k) PROVE q.tmp[Fetched(m, k)] \subseteq Part
  <2>1. CASE Fetched(m, k) = d
    BY <1>6, <2>1
  <2>2. CASE Fetched(m, k) # d
    BY <1>0, <1>1, <1>2, <1>3, <1>6, <1>8, <2>2, ThreadsCover DEF FilesRight, Begun
  <2> QED BY <2>1, <2>2
<1>9. ASSUME NEW e \in DigestsOf(m)
      PROVE  \E k \in Thread(m) : (Fetched(m, k) = e /\ ~Begun(q, k)) \/ LastToOpen(q, k, e)
  <2>1. PICK k \in Thread(m) : (Fetched(m, k) = e /\ ~Begun(pull[r], k)) \/ LastToOpen(pull[r], k, e)
    BY <1>0, <1>1, <1>2 DEF FilesRight
  <2>2. CASE e = d /\ to = "first"
    BY <1>2, <1>3, <1>6, <1>7, <2>2 DEF LastToOpen, Begun
  <2>3. CASE e # d
    <3>1. Fetched(m, k) = e /\ k # i
      BY <1>1, <1>3, <2>1, <2>3 DEF LastToOpen
    <3>2. q.step[k] = pull[r].step[k] /\ q.tmp[e] = pull[r].tmp[e]
      BY <1>1, <1>6, <2>3, <3>1
    <3> QED BY <1>1, <1>7, <2>1, <3>1, <3>2 DEF LastToOpen, Begun
  <2>4. CASE e = d /\ to # "first" /\ k # i
    <3>1. q.step[k] = pull[r].step[k] /\ pull[r].tmp[e] \subseteq q.tmp[e]
      BY <1>1, <1>3, <1>6, <2>4
    <3> QED BY <1>1, <1>7, <2>1, <3>1 DEF LastToOpen, Begun
  <2>5. CASE e = d /\ to # "first" /\ k = i
    <3>1. LastToOpen(pull[r], i, d)
      BY <2>1, <2>5
    <3> QED BY <1>1, <1>2, <1>3, <1>6, <1>7, <2>5, <3>1 DEF LastToOpen, Begun
  <2> QED BY <2>2, <2>3, <2>4, <2>5
<1>10. FilesRight(q) /\ q.pc = "fetch"
  BY <1>7, <1>8, <1>9 DEF FilesRight
<1> QED BY <1>5, <1>7, <1>10, OnePull DEF PullOK

LEMMA PullEndsInv ==
    ASSUME PullInv, NEW r \in Puller, PullFails(r)
    PROVE  PullInv'
BY OnePull DEF PullFails, PullOK

LEMMA PullBeginInv ==
    ASSUME PullInv, NEW r \in Puller, PullBegin(r)
    PROVE  PullInv'
<1>1. PICK m \in Manifest : m = tag
  BY DEF PullBegin
<1>2. PICK q : q = [pc |-> "fetch", image |-> m, step |-> [i \in Thread(m) |-> IF i = 0 THEN "open" ELSE "wait"],
                    tmp |-> [d \in DigestsOf(m) |-> None]]
  OBVIOUS
<1>3. PullShape(q) /\ q.image = m /\ q.pc = "fetch"
  BY <1>2 DEF PullShape
<1>4. \A i \in Thread(m) : ~Begun(q, i)
  BY <1>2 DEF Begun
<1>5. FilesRight(q)
  BY <1>3, <1>4, ThreadsCover DEF FilesRight
<1>6. pull' = [pull EXCEPT ![r] = q]
  BY <1>1, <1>2 DEF PullBegin
<1> QED BY <1>3, <1>5, <1>6, OnePull DEF PullOK

LEMMA FetchingIsRight ==
    ASSUME PullInv, NEW r \in Puller, pull[r].pc = "fetch"
    PROVE  PullShape(pull[r]) /\ FilesRight(pull[r])
<1>1. NoPull.pc = "idle"
  BY DEF NoPull
<1> QED BY <1>1 DEF PullInv, PullOK

\* The layers begin: their files will be truncated, the config's is whole.
\* What a step leaves of the record of a pull.
LEMMA RecordStep ==
    ASSUME NEW q, NEW was, NEW m, NEW step, NEW tmp, q = [pc |-> was, image |-> m, step |-> step, tmp |-> tmp],
           NEW st, NEW pc
    PROVE  /\ [q EXCEPT !.step = st] = [pc |-> was, image |-> m, step |-> st, tmp |-> tmp]
           /\ [q EXCEPT !.pc = pc] = [pc |-> pc, image |-> m, step |-> step, tmp |-> tmp]
  OBVIOUS

LEMMA StartLayersInv ==
    ASSUME PullInv, NEW r \in Puller, StartLayers(r)
    PROVE  PullInv'
<1>1. PullShape(pull[r]) /\ FilesRight(pull[r]) /\ pull[r].pc = "fetch" /\ pull[r].step[0] = "done"
  BY FetchingIsRight DEF StartLayers
<1> PICK was, m, step, tmp : was = "fetch" /\ m = pull[r].image /\ step = pull[r].step /\ tmp = pull[r].tmp
  OBVIOUS
<1>2. /\ pull[r] = [pc |-> was, image |-> m, step |-> step, tmp |-> tmp]
      /\ pull[r].image = m /\ pull[r].step = step /\ pull[r].tmp = tmp
      /\ m \in Manifest /\ DOMAIN step = Thread(m) /\ step[0] = "done"
      /\ tmp = [d \in DigestsOf(m) |-> tmp[d]]
  <2>1. pull[r] = [pc |-> pull[r].pc, image |-> m, step |-> step, tmp |-> tmp]
    BY <1>1 DEF PullShape
  <2>2. step = [i \in Thread(m) |-> step[i]] /\ tmp = [d \in DigestsOf(m) |-> tmp[d]] /\ m \in Manifest
    BY <1>1 DEF PullShape
  <2> QED BY <1>1, <2>1, <2>2
<1>3. PICK st : st = [i \in Thread(m) |-> IF i = 0 THEN "done" ELSE "open"]
  OBVIOUS
<1>4. PICK q : q = [pc |-> was, image |-> m, step |-> st, tmp |-> tmp]
  OBVIOUS
<1>5. pull' = [pull EXCEPT ![r] = q]
  <2>1. pull' = [pull EXCEPT ![r].step = st]
    BY <1>2, <1>3 DEF StartLayers
  <2>2. pull' = [k \in Puller |-> IF k = r THEN [pull[r] EXCEPT !.step = st] ELSE pull[k]]
    BY <2>1 DEF PullInv
  <2>3. pull[r] = [pc |-> was, image |-> m, step |-> step, tmp |-> tmp]
    BY <1>2
  <2>4. [pull[r] EXCEPT !.step = st] = q
    BY <1>4, <2>3, RecordStep
  <2> QED BY <2>2, <2>4 DEF PullInv
<1>6. PullShape(q) /\ q.image = m /\ q.step = st /\ q.tmp = tmp /\ q.pc = was
  BY <1>2, <1>3, <1>4 DEF PullShape
<1>7. \A i \in Thread(m) : IF i = 0 THEN q.step[i] = step[i] ELSE ~Begun(q, i)
  BY <1>2, <1>3, <1>6 DEF Begun
<1>8. \A i \in Thread(m) : Begun(q, i) => q.tmp[Fetched(m, i)] \subseteq Part
  BY <1>1, <1>2, <1>6, <1>7 DEF FilesRight, Begun
<1>9. ASSUME NEW d \in DigestsOf(m)
      PROVE  \E i \in Thread(m) : (Fetched(m, i) = d /\ ~Begun(q, i)) \/ LastToOpen(q, i, d)
  <2>1. PICK i \in Thread(m) : (Fetched(m, i) = d /\ ~Begun(pull[r], i)) \/ LastToOpen(pull[r], i, d)
    BY <1>1, <1>2 DEF FilesRight
  <2>2. Fetched(m, i) = d
    BY <1>2, <2>1 DEF LastToOpen
  <2>3. CASE i = 0
    BY <1>2, <1>6, <1>7, <2>1, <2>3 DEF LastToOpen, Begun
  <2> QED BY <1>7, <2>2, <2>3
<1> QED BY <1>5, <1>6, <1>8, <1>9, OnePull DEF FilesRight, PullOK

LEMMA ImportInv ==
    ASSUME PullInv, NEW r \in Puller, Import(r)
    PROVE  PullInv'
<1>1. PullShape(pull[r]) /\ FilesRight(pull[r])
  BY FetchingIsRight DEF Import
<1> PICK was, m, step, tmp : was = pull[r].pc /\ m = pull[r].image /\ step = pull[r].step /\ tmp = pull[r].tmp
  OBVIOUS
<1>2. /\ pull[r] = [pc |-> was, image |-> m, step |-> step, tmp |-> tmp]
      /\ pull[r].image = m /\ pull[r].step = step /\ pull[r].tmp = tmp
      /\ m \in Manifest /\ step = [i \in Thread(m) |-> step[i]]
      /\ tmp = [d \in DigestsOf(m) |-> tmp[d]]
  BY <1>1 DEF PullShape
<1>3. \A i \in Thread(m) : step[i] = "done"
  BY <1>2 DEF Import
<1>4. PICK pc, q : pc = "imported" /\ q = [pc |-> pc, image |-> m, step |-> step, tmp |-> tmp]
  OBVIOUS
<1>5. pull' = [pull EXCEPT ![r] = q]
  <2>1. pull' = [pull EXCEPT ![r].pc = pc]
    BY <1>4 DEF Import
  <2>2. pull' = [k \in Puller |-> IF k = r THEN [pull[r] EXCEPT !.pc = pc] ELSE pull[k]]
    BY <2>1 DEF PullInv
  <2>3. pull[r] = [pc |-> was, image |-> m, step |-> step, tmp |-> tmp]
    BY <1>2
  <2>4. [pull[r] EXCEPT !.pc = pc] = q
    BY <1>4, <2>3, RecordStep
  <2> QED BY <2>2, <2>4 DEF PullInv
<1>6. ASSUME NEW d \in DigestsOf(m) PROVE tmp[d] = Part
  <2>1. PICK i \in Thread(m) : (Fetched(m, i) = d /\ ~Begun(pull[r], i)) \/ LastToOpen(pull[r], i, d)
    BY <1>1, <1>2 DEF FilesRight
  <2>2. LastToOpen(pull[r], i, d)
    BY <1>2, <1>3, <2>1 DEF Begun
  <2>3. Fetched(m, i) = d /\ Begun(pull[r], i) /\ "first" \in tmp[d] /\ "second" \in tmp[d]
    BY <1>2, <1>3, <2>2 DEF LastToOpen
  <2>4. tmp[d] \subseteq Part
    BY <1>1, <1>2, <2>3 DEF FilesRight
  <2> QED BY <2>3, <2>4 DEF Part
<1>7. PullShape(q) /\ q.image = m /\ q.step = step /\ q.tmp = tmp
  BY <1>2, <1>4 DEF PullShape
<1>8. FilesRight(q)
  <2>1. \A i : Begun(q, i) <=> Begun(pull[r], i)
    BY <1>2, <1>7 DEF Begun
  <2>2. \A i, d : LastToOpen(q, i, d) <=> LastToOpen(pull[r], i, d)
    BY <1>2, <1>7, <2>1 DEF LastToOpen
  <2> QED BY <1>1, <1>2, <1>7, <2>1, <2>2 DEF FilesRight
<1> QED BY <1>5, <1>6, <1>7, <1>8, OnePull DEF PullOK

\* What ThreadInv asks of a step.
StepOK(r, i, to, content) ==
    /\ content \subseteq Part /\ to \notin {"wait", "open"}
    /\ \/ to = "first"
       \/ /\ Begun(pull[r], i)
          /\ pull[r].tmp[Fetched(pull[r].image, i)] \subseteq content
          /\ to = "check second" => "first" \in content
          /\ to = "done" => pull[r].step[i] = "check second" /\ "second" \in content

LEMMA FetchInv ==
    ASSUME PullInv, NEW r \in Puller, pull[r].pc = "fetch", NEW i \in DOMAIN pull[r].step,
           OpenBlob(r, i) \/ \E part \in Part : CopyPart(r, i, part) \/ CheckPart(r, i, part)
    PROVE  PullInv'
<1>1. PICK d : d = Fetched(pull[r].image, i)
  OBVIOUS
<1>2. Begun(pull[r], i) => pull[r].tmp[d] \subseteq Part
  BY <1>1, FetchingIsRight DEF PullShape, FilesRight
<1> SUFFICES ASSUME ~PullFails(r) PROVE \E to, content : Step(r, i, to, content) /\ StepOK(r, i, to, content)
  <2>1. PullFails(r) => PullInv'
    BY PullEndsInv
  <2>2. ASSUME NEW to, NEW content, Step(r, i, to, content), StepOK(r, i, to, content) PROVE PullInv'
    BY <2>2, ThreadInv DEF StepOK
  <2> QED BY <2>1, <2>2
<1>3. CASE OpenBlob(r, i)
  <2>1. Step(r, i, "first", {}) /\ StepOK(r, i, "first", {})
    BY <1>3 DEF OpenBlob, StepOK
  <2> QED BY <2>1
<1>4. ASSUME NEW part \in Part, CopyPart(r, i, part)
      PROVE  \E to, content : Step(r, i, to, content) /\ StepOK(r, i, to, content)
  <2>1. PICK to, content :
          /\ to \in {"second", "check first"} /\ content = pull[r].tmp[d] \union ({part} \intersect blob[d])
          /\ Step(r, i, to, content) /\ Begun(pull[r], i)
    BY <1>1, <1>4 DEF CopyPart, At, Begun, Part
  <2>2. content \subseteq Part /\ pull[r].tmp[d] \subseteq content
    BY <1>2, <2>1
  <2>3. StepOK(r, i, to, content)
    BY <1>1, <2>1, <2>2 DEF StepOK
  <2> QED BY <2>1, <2>3
<1>5. ASSUME NEW part \in Part, CheckPart(r, i, part)
      PROVE  \E to, content : Step(r, i, to, content) /\ StepOK(r, i, to, content)
  <2>1. Begun(pull[r], i) /\ part \in pull[r].tmp[d]
    BY <1>1, <1>5 DEF CheckPart, At, Begun
  <2>2. PICK to, content :
          /\ to = (IF part = "first" THEN "check second" ELSE "done") /\ content = pull[r].tmp[d]
          /\ Step(r, i, to, content)
    BY <1>1, <1>5 DEF CheckPart
  <2>3. StepOK(r, i, to, content)
    BY <1>1, <1>2, <1>5, <2>1, <2>2 DEF CheckPart, At, StepOK, Part
  <2> QED BY <2>2, <2>3
<1> QED BY <1>3, <1>4, <1>5

LEMMA PullInvNext == PullInv /\ [Next]_vars => PullInv'
<1> SUFFICES ASSUME PullInv, [Next]_vars PROVE PullInv'
  OBVIOUS
<1>1. CASE pull' = pull
  BY <1>1 DEF PullInv
<1>2. ASSUME NEW r \in Puller, PullEnd(r) PROVE PullInv'
  BY <1>2, PullEndsInv DEF PullEnd
<1>3. ASSUME NEW p \in Pusher,
             \/ \E m \in Manifest : PushBegin(p, m)
             \/ \E d \in Digest : HeadBlob(p, d) \/ CreateBlob(p, d) \/ \E part \in Part : WriteBlob(p, d, part)
             \/ Uploaded(p) \/ TruncateTag(p) \/ WriteTag(p) \/ PushFail(p)
      PROVE  pull' = pull
  BY <1>3 DEF PushBegin, HeadBlob, CreateBlob, WriteBlob, Worker, Uploaded, TruncateTag, WriteTag, PushFail
<1>4. UNCHANGED vars => pull' = pull
  BY DEF vars
<1> QED BY <1>1, <1>2, <1>3, <1>4, PullBeginInv, StartLayersInv, ImportInv, FetchInv DEF Next

\* What a pull hands to the daemon is whole (fetchLayer, verifyFileDigest), for
\* any images, pushes and pulls, though threads of one digest share a file.
THEOREM PulledWhole == Spec => []PullRight
<1>1. Init => PullInv
  BY DEF Init, PullInv, PullOK
<1>2. PullInv => PullRight
  <2> SUFFICES ASSUME PullInv, NEW r \in Puller, pull[r].pc = "imported", NEW d \in DOMAIN pull[r].tmp
               PROVE  pull[r].tmp[d] = Part
    BY DEF PullRight
  <2>1. NoPull.pc = "idle"
    BY DEF NoPull
  <2> QED BY <2>1 DEF PullInv, PullOK, PullShape
<1> QED BY <1>1, <1>2, PullInvNext, PTL DEF Spec

-----------------------------------------------------------------------------
(* Push.                                                                   *)

\* What is right of q, a running push, by itself: what its workers have begun or
\* found is there.
PushOK(q, files) ==
    \/ q = NoPush
    \/ /\ q = [pc |-> "blobs", image |-> q.image, step |-> q.step]
       /\ q.image \in Manifest
       /\ q.step = [d \in DigestsOf(q.image) |-> q.step[d]]
       /\ \A d \in DigestsOf(q.image) : q.step[d] \in {"head", "create", "done"} \union Part
       /\ \A d \in DigestsOf(q.image) : q.step[d] \in Part \union {"done"} => files[d] # None
    \/ /\ q = [pc |-> q.pc, image |-> q.image] /\ q.pc \in {"truncate", "write"}
       /\ q.image \in Manifest
       /\ \A d \in DigestsOf(q.image) : files[d] # None

\* The pusher that truncated the blob last is still at it.
AtBlob(q, d, files) ==
    /\ q.pc = "blobs" /\ d \in DOMAIN q.step
    /\ \/ q.step[d] = "first"
       \/ q.step[d] = "second" /\ "first" \in files[d]

PushInv ==
    /\ push = [p \in Pusher |-> push[p]]
    /\ blob \in [Digest -> (SUBSET Part) \union {None}]
    /\ \A p \in Pusher : PushOK(push[p], blob)
    /\ tag \in Manifest \union {Empty, Garbled, None}
    /\ tag \in Manifest => \A d \in DigestsOf(tag) : blob[d] # None
    /\ ~failed =>
         /\ \A d \in Digest : blob[d] \notin {None, Part} => \E p \in Pusher : AtBlob(push[p], d, blob)
         /\ tag = Empty => \E p \in Pusher : push[p].pc = "write"

LEMMA DigestsAre ==
    ASSUME NEW m \in Manifest
    PROVE  DigestsOf(m) \subseteq Digest
<1>1. ConfigOf[m] \in Digest /\ LayersOf[m] \in Seq(Digest)
  BY LocalAssumption
<1> QED BY <1>1 DEF DigestsOf, Range

\* One push changes to q, and no blob goes.
Changes(p, q, files) ==
    /\ push' = [push EXCEPT ![p] = q]
    /\ files \in [Digest -> (SUBSET Part) \union {None}] /\ blob' = files
    /\ PushOK(q, files)
    /\ \A d \in Digest : blob[d] # None => files[d] # None

LEMMA OnePush ==
    ASSUME PushInv, NEW p \in Pusher, NEW q, NEW files, Changes(p, q, files)
    PROVE  /\ push' = [k \in Pusher |-> push'[k]] /\ push'[p] = q
           /\ \A k \in Pusher : k # p => push'[k] = push[k]
           /\ \A k \in Pusher : PushOK(push'[k], blob')
           /\ blob' \in [Digest -> (SUBSET Part) \union {None}]
<1>1. push' = [k \in Pusher |-> IF k = p THEN q ELSE push[k]]
  BY DEF PushInv, Changes
<1>2. ASSUME NEW r, PushOK(r, blob) PROVE PushOK(r, files)
  BY <1>2, DigestsAre DEF PushOK, Changes
<1> QED BY <1>1, <1>2 DEF PushInv, Changes

Steps == {"head", "create", "done"} \union Part

\* A worker goes on, and its blob with it: what it leaves torn, it or another is
\* still at.
LEMMA WorkerInv ==
    ASSUME PushInv, NEW p \in Pusher, NEW d \in Digest, NEW from, NEW to \in Steps, Worker(p, d, from, to),
           NEW new \in (SUBSET Part) \union {None}, blob' = [blob EXCEPT ![d] = new],
           blob[d] # None => new # None,
           to \in Part \union {"done"} => new # None,
           \/ new \in {None, Part}
           \/ to = "first"
           \/ to = "second" /\ "first" \in new
           \/ blob[d] \notin {None, Part} /\ blob[d] \subseteq new /\ ~AtBlob(push[p], d, blob)
    PROVE  PushInv'
<1>0. /\ push[p] = [pc |-> "blobs", image |-> push[p].image, step |-> push[p].step]
      /\ push[p].pc = "blobs" /\ push[p].image \in Manifest /\ d \in DigestsOf(push[p].image)
      /\ push[p].step = [e \in DigestsOf(push[p].image) |-> push[p].step[e]]
      /\ \A e \in DigestsOf(push[p].image) :
           /\ push[p].step[e] \in Steps
           /\ push[p].step[e] \in Part \union {"done"} => blob[e] # None
  <2>1. push[p].pc = "blobs" /\ d \in DOMAIN push[p].step /\ NoPush.pc = "idle"
    BY DEF Worker, NoPush
  <2> QED BY <2>1 DEF PushInv, PushOK, Steps
<1> PICK pc, m, step : pc = "blobs" /\ m = push[p].image /\ step = push[p].step
  OBVIOUS
<1>1. /\ push[p] = [pc |-> pc, image |-> m, step |-> step]
      /\ push[p].pc = "blobs" /\ push[p].step = step
      /\ m \in Manifest /\ d \in DigestsOf(m)
      /\ step = [e \in DigestsOf(m) |-> step[e]]
      /\ \A e \in DigestsOf(m) : step[e] \in Steps /\ (step[e] \in Part \union {"done"} => blob[e] # None)
  BY <1>0
<1>2. PICK files : files = [blob EXCEPT ![d] = new]
  OBVIOUS
<1>3. /\ files \in [Digest -> (SUBSET Part) \union {None}] /\ blob' = files /\ files[d] = new
      /\ \A e \in Digest : e # d => files[e] = blob[e]
      /\ \A e \in Digest : blob[e] # None => files[e] # None
  BY <1>2 DEF PushInv
<1>4. PICK st : st = [step EXCEPT ![d] = to]
  OBVIOUS
<1>5. PICK q : q = [pc |-> pc, image |-> m, step |-> st]
  OBVIOUS
<1>6. push' = [push EXCEPT ![p] = q]
  <2>1. push' = [push EXCEPT ![p].step[d] = to]
    BY DEF Worker
  <2>2. push' = [k \in Pusher |-> IF k = p THEN [push[p] EXCEPT !.step[d] = to] ELSE push[k]]
    BY <2>1 DEF PushInv
  <2>3. [push[p] EXCEPT !.step[d] = to] = q
    BY <1>1, <1>4, <1>5
  <2> QED BY <2>2, <2>3 DEF PushInv
<1>7. /\ q.pc = "blobs" /\ q.step = st /\ q.image = m /\ DOMAIN st = DigestsOf(m)
      /\ \A e \in DigestsOf(m) : st[e] = IF e = d THEN to ELSE step[e]
  BY <1>1, <1>4, <1>5
<1>8. PushOK(q, files)
  <2>1. q = [pc |-> "blobs", image |-> q.image, step |-> q.step] /\ q.step = [e \in DigestsOf(q.image) |-> q.step[e]]
    BY <1>1, <1>4, <1>5, <1>7
  <2>2. ASSUME NEW e \in DigestsOf(m)
        PROVE  st[e] \in Steps /\ (st[e] \in Part \union {"done"} => files[e] # None)
    BY <1>1, <1>3, <1>7, DigestsAre
  <2> QED BY <1>1, <1>7, <2>1, <2>2 DEF PushOK, Steps
<1>9. /\ push' = [k \in Pusher |-> push'[k]] /\ push'[p] = q
      /\ \A k \in Pusher : k # p => push'[k] = push[k]
      /\ \A k \in Pusher : PushOK(push'[k], blob')
  <2>1. Changes(p, q, files)
    BY <1>3, <1>6, <1>8 DEF Changes
  <2> QED BY <2>1, OnePush
<1> tag' = tag /\ failed' = failed
  BY DEF Worker
<1>10. ASSUME ~failed, NEW e \in Digest, files[e] \notin {None, Part} PROVE \E k \in Pusher : AtBlob(push'[k], e, files)
  <2>1. CASE e # d
    <3>1. PICK k \in Pusher : AtBlob(push[k], e, blob)
      BY <1>3, <1>10, <2>1 DEF PushInv
    <3>2. CASE k # p
      BY <1>3, <1>9, <2>1, <3>1, <3>2 DEF AtBlob
    <3>3. CASE k = p
      <4>1. e \in DigestsOf(m) /\ st[e] = step[e] /\ files[e] = blob[e]
        BY <1>1, <1>3, <1>7, <2>1, <3>1, <3>3 DEF AtBlob
      <4>2. AtBlob(q, e, files)
        BY <1>1, <1>7, <3>1, <3>3, <4>1 DEF AtBlob
      <4> QED BY <1>9, <4>2
    <3> QED BY <3>2, <3>3
  <2>3. CASE e = d /\ blob[d] \notin {None, Part} /\ blob[d] \subseteq new /\ ~AtBlob(push[p], d, blob)
    <3>1. PICK k \in Pusher : AtBlob(push[k], d, blob) /\ k # p
      BY <1>10, <2>3 DEF PushInv
    <3>2. AtBlob(push[k], e, files)
      BY <1>3, <2>3, <3>1 DEF AtBlob
    <3> QED BY <1>9, <3>1, <3>2
  <2>4. e = d => new \notin {None, Part}
    BY <1>3, <1>10
  <2>5. CASE e = d
    <3>1. ~(new \in {None, Part})
      BY <2>4, <2>5
    <3>2. CASE to = "first"
      <4>1. AtBlob(q, e, files)
        BY <1>1, <1>3, <1>7, <2>5, <3>2 DEF AtBlob
      <4> QED BY <1>9, <4>1
    <3>3. CASE to = "second" /\ "first" \in new
      <4>1. AtBlob(q, e, files)
        BY <1>1, <1>3, <1>7, <2>5, <3>3 DEF AtBlob
      <4> QED BY <1>9, <4>1
    <3>4. CASE blob[d] \notin {None, Part} /\ blob[d] \subseteq new /\ ~AtBlob(push[p], d, blob)
      BY <2>3, <2>5, <3>4
    <3> QED BY <3>1, <3>2, <3>3, <3>4
  <2> QED BY <2>1, <2>5
<1>11. ASSUME ~failed, tag = Empty PROVE \E k \in Pusher : push'[k].pc = "write"
  <2>1. PICK k \in Pusher : push[k].pc = "write" /\ k # p
    BY <1>1, <1>11 DEF PushInv
  <2> QED BY <1>9, <2>1
<1>12. tag \in Manifest => \A e \in DigestsOf(tag) : files[e] # None
  BY <1>3, DigestsAre DEF PushInv
<1>13. tag \in Manifest \union {Empty, Garbled, None}
  BY DEF PushInv
<1>14. ~failed' =>
         /\ \A e \in Digest : blob'[e] \notin {None, Part} => \E k \in Pusher : AtBlob(push'[k], e, blob')
         /\ tag' = Empty => \E k \in Pusher : push'[k].pc = "write"
  <2>1. blob' = files
    BY <1>3
  <2>2. ~failed' => \A e \in Digest : files[e] \notin {None, Part} => \E k \in Pusher : AtBlob(push'[k], e, files)
    BY <1>10
  <2>3. ~failed' => (tag' = Empty => \E k \in Pusher : push'[k].pc = "write")
    BY <1>11
  <2> QED BY <2>1, <2>2, <2>3
<1>15. /\ blob' \in [Digest -> (SUBSET Part) \union {None}] /\ tag' \in Manifest \union {Empty, Garbled, None}
       /\ tag' \in Manifest => \A e \in DigestsOf(tag') : blob'[e] # None
  BY <1>3, <1>12, <1>13
<1> QED BY <1>9, <1>14, <1>15 DEF PushInv

\* A step that leaves the files alone, of a push that is at none of them.
Moves(p, q) ==
    /\ push' = [push EXCEPT ![p] = q] /\ blob' = blob /\ PushOK(q, blob)
    /\ tag' \in Manifest \union {Empty, Garbled, None}
    /\ tag' \in Manifest => \A d \in DigestsOf(tag') : blob[d] # None
    /\ ~failed' =>
         /\ ~failed /\ \A d \in Digest : ~AtBlob(push[p], d, blob)
         /\ tag' = Empty => \E k \in Pusher : push'[k].pc = "write"

LEMMA MoveInv ==
    ASSUME PushInv, NEW p \in Pusher, NEW q, Moves(p, q)
    PROVE  PushInv'
<1>1. Changes(p, q, blob)
  BY DEF Moves, Changes, PushInv
<1>2. /\ push' = [k \in Pusher |-> push'[k]] /\ push'[p] = q
      /\ \A k \in Pusher : k # p => push'[k] = push[k]
      /\ \A k \in Pusher : PushOK(push'[k], blob')
      /\ blob' \in [Digest -> (SUBSET Part) \union {None}]
  BY <1>1, OnePush
<1>3. ASSUME ~failed', NEW d \in Digest, blob[d] \notin {None, Part}
      PROVE  \E k \in Pusher : AtBlob(push'[k], d, blob)
  <2>1. PICK k \in Pusher : AtBlob(push[k], d, blob)
    BY <1>3 DEF Moves, PushInv
  <2>2. k # p
    BY <1>3, <2>1 DEF Moves
  <2> QED BY <1>2, <2>1, <2>2
<1>4. blob' = blob
  BY DEF Moves
<1>5. ~failed' =>
        /\ \A d \in Digest : blob'[d] \notin {None, Part} => \E k \in Pusher : AtBlob(push'[k], d, blob')
        /\ tag' = Empty => \E k \in Pusher : push'[k].pc = "write"
  BY <1>3, <1>4 DEF Moves
<1>6. /\ tag' \in Manifest \union {Empty, Garbled, None}
      /\ tag' \in Manifest => \A d \in DigestsOf(tag') : blob'[d] # None
  BY <1>4 DEF Moves
<1> QED BY <1>2, <1>5, <1>6 DEF PushInv

LEMMA HeadInv ==
    ASSUME PushInv, NEW p \in Pusher, NEW d \in Digest, HeadBlob(p, d)
    PROVE  PushInv'
<1>1. PICK from, to : /\ from = "head" /\ to = (IF blob[d] = None THEN "create" ELSE "done")
                      /\ Worker(p, d, from, to)
  BY DEF HeadBlob
<1>2. to \in Steps /\ (to \in Part \union {"done"} => blob[d] # None)
  BY <1>1 DEF Steps, Part
<1>3. blob' = [blob EXCEPT ![d] = blob[d]] /\ blob[d] \in (SUBSET Part) \union {None}
  BY DEF HeadBlob, PushInv
<1>4. ~AtBlob(push[p], d, blob)
  BY <1>1 DEF Worker, AtBlob
<1>5. blob[d] \in {None, Part} \/ (blob[d] \notin {None, Part} /\ blob[d] \subseteq blob[d] /\ ~AtBlob(push[p], d, blob))
  BY <1>4
<1> QED BY <1>1, <1>2, <1>3, <1>5, WorkerInv

LEMMA CreateInv ==
    ASSUME PushInv, NEW p \in Pusher, NEW d \in Digest, CreateBlob(p, d)
    PROVE  PushInv'
<1>1. PICK from, to, new : /\ from = "create" /\ to = "first" /\ new = {}
                           /\ Worker(p, d, from, to) /\ blob' = [blob EXCEPT ![d] = new]
  BY DEF CreateBlob
<1>2. to \in Steps /\ new \in (SUBSET Part) \union {None} /\ new # None
  BY <1>1, LocalAssumption DEF Steps, Part
<1> QED BY <1>1, <1>2, WorkerInv

LEMMA WriteInv ==
    ASSUME PushInv, NEW p \in Pusher, NEW d \in Digest, NEW part \in Part, WriteBlob(p, d, part)
    PROVE  PushInv'
<1>1. PICK to, new : /\ to = (IF part = "first" THEN "second" ELSE "done") /\ new = blob[d] \union {part}
                     /\ Worker(p, d, part, to) /\ blob' = [blob EXCEPT ![d] = new]
  BY DEF WriteBlob, PushInv
<1>2. blob[d] \in SUBSET Part
  <2>1. push[p].pc = "blobs" /\ d \in DOMAIN push[p].step /\ push[p].step[d] \in Part /\ NoPush.pc = "idle"
    BY <1>1 DEF Worker, NoPush
  <2>2. blob[d] # None
    BY <2>1 DEF PushInv, PushOK
  <2> QED BY <2>2 DEF PushInv
<1>3. to \in Steps /\ new \in SUBSET Part /\ new # None
  BY <1>1, <1>2, LocalAssumption DEF Steps, Part
<1>4. \/ new \in {None, Part}
      \/ to = "second" /\ "first" \in new
      \/ blob[d] \notin {None, Part} /\ blob[d] \subseteq new /\ ~AtBlob(push[p], d, blob)
  <2>1. CASE part = "first"
    BY <1>1, <2>1
  <2>2. CASE part = "second" /\ "first" \in blob[d]
    BY <1>1, <1>2, <2>2 DEF Part
  <2>3. CASE part = "second" /\ "first" \notin blob[d]
    <3>1. ~AtBlob(push[p], d, blob)
      BY <1>1, <2>3 DEF Worker, AtBlob
    <3>2. blob[d] \notin {None, Part}
      BY <1>2, <2>3, LocalAssumption DEF Part
    <3> QED BY <1>1, <3>1, <3>2
  <2> QED BY <2>1, <2>2, <2>3 DEF Part
<1> QED BY <1>1, <1>3, <1>4, WorkerInv

LEMMA BeginInv ==
    ASSUME PushInv, NEW p \in Pusher, NEW m \in Manifest, PushBegin(p, m)
    PROVE  PushInv'
<1>1. PICK pc, step : pc = "blobs" /\ step = [d \in DigestsOf(m) |-> "head"]
  OBVIOUS
<1>2. PICK q : q = [pc |-> pc, image |-> m, step |-> step]
  OBVIOUS
<1>3. PushOK(q, blob)
  BY <1>1, <1>2 DEF PushOK, Part
<1>4. \A d \in Digest : ~AtBlob(push[p], d, blob)
  BY DEF PushBegin, NoPush, AtBlob
<1>5. push' = [push EXCEPT ![p] = q]
  BY <1>1, <1>2 DEF PushBegin
<1>6. ~failed /\ tag = Empty => \E k \in Pusher : push'[k].pc = "write"
  <2> SUFFICES ASSUME ~failed, tag = Empty PROVE \E k \in Pusher : push'[k].pc = "write"
    OBVIOUS
  <2>1. PICK k \in Pusher : push[k].pc = "write"
    BY DEF PushInv
  <2>2. k # p
    BY <2>1 DEF PushBegin, NoPush
  <2> QED BY <1>5, <2>1, <2>2 DEF PushInv
<1>7. Moves(p, q)
  BY <1>3, <1>4, <1>5, <1>6 DEF PushBegin, Moves, PushInv
<1> QED BY <1>7, MoveInv

LEMMA UploadedInv ==
    ASSUME PushInv, NEW p \in Pusher, Uploaded(p)
    PROVE  PushInv'
<1>0. push[p].pc = "blobs" /\ NoPush.pc = "idle"
  BY DEF Uploaded, NoPush
<1>1. PICK pc, m : pc = "truncate" /\ m = push[p].image
  OBVIOUS
<1>2. PICK q : q = [pc |-> pc, image |-> m]
  OBVIOUS
<1>3. /\ m \in Manifest /\ DOMAIN push[p].step = DigestsOf(m)
      /\ \A d \in DigestsOf(m) : push[p].step[d] = "done" /\ blob[d] # None
  BY <1>0, <1>1 DEF Uploaded, PushInv, PushOK
<1>4. PushOK(q, blob)
  BY <1>1, <1>2, <1>3 DEF PushOK
<1>5. \A d \in Digest : ~AtBlob(push[p], d, blob)
  BY <1>3 DEF AtBlob
<1>6. push' = [push EXCEPT ![p] = q]
  BY <1>1, <1>2 DEF Uploaded
<1>7. ~failed /\ tag = Empty => \E k \in Pusher : push'[k].pc = "write"
  <2> SUFFICES ASSUME ~failed, tag = Empty PROVE \E k \in Pusher : push'[k].pc = "write"
    OBVIOUS
  <2>1. PICK k \in Pusher : push[k].pc = "write"
    BY DEF PushInv
  <2>2. k # p
    BY <1>0, <2>1
  <2> QED BY <1>6, <2>1, <2>2 DEF PushInv
<1>8. Moves(p, q)
  BY <1>4, <1>5, <1>6, <1>7 DEF Uploaded, Moves, PushInv
<1> QED BY <1>8, MoveInv

\* A push at its tag has all its blobs there.
LEMMA AtTag ==
    ASSUME NEW q, NEW files, PushOK(q, files), q.pc \in {"truncate", "write"}
    PROVE  /\ q = [pc |-> q.pc, image |-> q.image] /\ q.image \in Manifest
           /\ \A d \in DigestsOf(q.image) : files[d] # None
<1>1. q # NoPush
  BY DEF NoPush
<1>2. q # [pc |-> "blobs", image |-> q.image, step |-> q.step]
  <2> SUFFICES ASSUME q = [pc |-> "blobs", image |-> q.image, step |-> q.step] PROVE FALSE
    OBVIOUS
  <2>1. q.pc = "blobs"
    OBVIOUS
  <2> QED BY <2>1
<1> QED BY <1>1, <1>2 DEF PushOK

LEMMA TruncateInv ==
    ASSUME PushInv, NEW p \in Pusher, TruncateTag(p)
    PROVE  PushInv'
<1>0. push[p].pc = "truncate" /\ NoPush.pc = "idle"
  BY DEF TruncateTag, NoPush
<1>1. PICK pc, m : pc = "write" /\ m = push[p].image
  OBVIOUS
<1>2. PICK q : q = [pc |-> pc, image |-> m]
  OBVIOUS
<1>3. PICK was : was = push[p].pc
  OBVIOUS
<1>4. push[p] = [pc |-> was, image |-> m] /\ m \in Manifest /\ \A d \in DigestsOf(m) : blob[d] # None
  <2>1. PushOK(push[p], blob) /\ push[p].pc \in {"truncate", "write"}
    BY <1>0 DEF PushInv
  <2> QED BY <1>1, <1>3, <2>1, AtTag
<1>5. PushOK(q, blob)
  BY <1>1, <1>2, <1>4 DEF PushOK
<1>6. push' = [push EXCEPT ![p] = q]
  <2>1. push' = [push EXCEPT ![p].pc = pc]
    BY <1>1 DEF TruncateTag
  <2>2. [push[p] EXCEPT !.pc = pc] = q
    BY <1>2, <1>4
  <2> QED BY <2>1, <2>2
<1>7. push'[p].pc = "write"
  BY <1>1, <1>2, <1>6 DEF PushInv
<1>8. \A d \in Digest : ~AtBlob(push[p], d, blob)
  BY <1>0 DEF AtBlob
<1>9. Moves(p, q)
  BY <1>5, <1>6, <1>7, <1>8, LocalAssumption DEF TruncateTag, Moves
<1> QED BY <1>9, MoveInv

LEMMA TagInv ==
    ASSUME PushInv, NEW p \in Pusher, WriteTag(p)
    PROVE  PushInv'
<1>0. push[p].pc = "write" /\ NoPush.pc = "idle"
  BY DEF WriteTag, NoPush
<1>1. push[p].image \in Manifest /\ \A d \in DigestsOf(push[p].image) : blob[d] # None
  <2>1. PushOK(push[p], blob) /\ push[p].pc \in {"truncate", "write"}
    BY <1>0 DEF PushInv
  <2> QED BY <2>1, AtTag
<1>2. tag' \in {push[p].image, Garbled} /\ tag' # Empty
  BY <1>1, LocalAssumption DEF WriteTag
<1>3. \A d \in Digest : ~AtBlob(push[p], d, blob)
  BY <1>0 DEF AtBlob
<1>4. tag' \in Manifest => \A d \in DigestsOf(tag') : blob[d] # None
  BY <1>1, <1>2, LocalAssumption
<1>5. tag' \in Manifest \union {Empty, Garbled, None}
  BY <1>1, <1>2
<1>6. Moves(p, NoPush)
  BY <1>2, <1>3, <1>4, <1>5 DEF WriteTag, Moves, PushOK
<1> QED BY <1>6, MoveInv

LEMMA FailInv ==
    ASSUME PushInv, NEW p \in Pusher, PushFail(p)
    PROVE  PushInv'
<1>1. Moves(p, NoPush)
  BY DEF PushFail, Moves, PushOK, PushInv
<1> QED BY <1>1, MoveInv

LEMMA PushInvNext == PushInv /\ [Next]_vars => PushInv'
<1> SUFFICES ASSUME PushInv, [Next]_vars PROVE PushInv'
  OBVIOUS
<1>1. CASE UNCHANGED <<blob, tag, push, failed>>
  BY <1>1 DEF PushInv, AtBlob
<1>2. ASSUME NEW r \in Puller,
             \/ PullBegin(r) \/ StartLayers(r) \/ Import(r) \/ PullEnd(r)
             \/ \E i \in DOMAIN pull[r].step :
                  OpenBlob(r, i) \/ \E part \in Part : CopyPart(r, i, part) \/ CheckPart(r, i, part)
      PROVE  UNCHANGED <<blob, tag, push, failed>>
  BY <1>2 DEF PullBegin, StartLayers, Import, PullEnd, PullFails, OpenBlob, CopyPart, CheckPart, Step
<1>3. CASE UNCHANGED vars
  BY <1>1, <1>3 DEF vars
<1> QED BY <1>1, <1>2, <1>3, HeadInv, CreateInv, WriteInv, BeginInv, UploadedInv, TruncateInv, TagInv, FailInv DEF Next

LEMMA PushInvAlways == Spec => []PushInv
<1>1. Init => PushInv
  BY LocalAssumption DEF Init, PushInv, PushOK
<1> QED BY <1>1, PushInvNext, PTL DEF Spec

\* When all pushes have ended and none has failed, what the tag names is whole
\* (storeLayer, PutObject), for any images and however many push at once.
THEOREM QuietIsWhole == Spec => []QuietWhole
<1>1. PushInv => QuietWhole
  <2> SUFFICES ASSUME PushInv, ~failed, push = [p \in Pusher |-> NoPush] PROVE QuietWhole
    BY DEF QuietWhole
  <2>1. \A p \in Pusher : push[p] = NoPush /\ push[p].pc = "idle"
    BY DEF NoPush
  <2>2. \A d \in Digest : blob[d] \in {None, Part}
    BY <2>1 DEF PushInv, AtBlob
  <2>3. tag # Empty
    BY <2>1 DEF PushInv
  <2>4. tag \in Manifest => \A d \in DigestsOf(tag) : blob[d] = Part
    BY <2>2, DigestsAre DEF PushInv
  <2> QED BY <2>2, <2>3, <2>4 DEF QuietWhole
<1> QED BY <1>1, PushInvAlways, PTL

\* A whole blob that no push is about to write stays whole (storeLayer writes
\* what it found missing only).
THEOREM WholeStays == Spec => UndisturbedStays
<1>1. ASSUME PushInv, [Next]_vars, NEW d \in Digest, blob[d] = Part,
             \A p \in Pusher : push[p].pc = "blobs" /\ d \in DOMAIN push[p].step => push[p].step[d] # "create"
      PROVE  blob'[d] = Part
  <2> blob \in [Digest -> (SUBSET Part) \union {None}]
    BY <1>1 DEF PushInv
  <2>1. CASE blob' = blob
    BY <1>1, <2>1
  <2>2. ASSUME NEW p \in Pusher, NEW e \in Digest, CreateBlob(p, e) PROVE blob'[d] = Part
    <3>1. push[p].pc = "blobs" /\ e \in DOMAIN push[p].step /\ push[p].step[e] = "create" /\ blob' = [blob EXCEPT ![e] = {}]
      BY <2>2 DEF CreateBlob, Worker
    <3>2. e # d
      BY <1>1, <3>1
    <3> QED BY <1>1, <3>1, <3>2
  <2>3. ASSUME NEW p \in Pusher, NEW e \in Digest, NEW part \in Part, WriteBlob(p, e, part) PROVE blob'[d] = Part
    <3>1. blob' = [blob EXCEPT ![e] = blob[e] \union {part}]
      BY <2>3 DEF WriteBlob
    <3> QED BY <1>1, <3>1
  <2>4. ASSUME NEW p \in Pusher,
               \/ \E m \in Manifest : PushBegin(p, m)
               \/ \E e \in Digest : HeadBlob(p, e)
               \/ Uploaded(p) \/ TruncateTag(p) \/ WriteTag(p) \/ PushFail(p)
        PROVE  blob' = blob
    BY <2>4 DEF PushBegin, HeadBlob, Uploaded, TruncateTag, WriteTag, PushFail
  <2>5. ASSUME NEW r \in Puller,
               \/ PullBegin(r) \/ StartLayers(r) \/ Import(r) \/ PullEnd(r)
               \/ \E i \in DOMAIN pull[r].step :
                    OpenBlob(r, i) \/ \E part \in Part : CopyPart(r, i, part) \/ CheckPart(r, i, part)
        PROVE  blob' = blob
    BY <2>5 DEF PullBegin, StartLayers, Import, PullEnd, PullFails, OpenBlob, CopyPart, CheckPart, Step
  <2>6. UNCHANGED vars => blob' = blob
    BY DEF vars
  <2> QED BY <1>1, <2>1, <2>2, <2>3, <2>4, <2>5, <2>6 DEF Next
<1>2. PushInv /\ [Next]_vars =>
        [\A d \in Digest :
           /\ blob[d] = Part
           /\ \A p \in Pusher : push[p].pc = "blobs" /\ d \in DOMAIN push[p].step => push[p].step[d] # "create"
           => blob'[d] = Part]_vars
  BY <1>1
<1> QED BY <1>2, PushInvAlways, PTL DEF Spec, UndisturbedStays

-----------------------------------------------------------------------------
(* Platforms: what travels is what was chosen.                             *)

\* The host's name has no variant, so nothing shorter is like it.
LEMMA LikeTheHost ==
    ASSUME NEW a \in Spelling, Alike(a, Host)
    PROVE  IsPrefix(Host, a)
<1>1. /\ a \in Seq(STRING) /\ a # <<>> /\ Host \in Seq(STRING) /\ Len(Host) = 1
      /\ Len(a) \in Nat /\ Len(a) # 0
  BY PlatformsAssumption DEF Unnamed
<1>2. CASE IsPrefix(a, Host)
  BY <1>1, <1>2 DEF IsPrefix
<1> QED BY <1>2 DEF Alike

\* What a push has listed and chosen fits together ...
ChoseRight(q, several) ==
    /\ q.listed # {} => several
    /\ q.want = Unnamed /\ Cardinality(q.listed) > 1 =>
         several /\ q.chosen = Host /\ q.dropped = Others(q.listed, Host)

\* ... and so does what the daemon handed back.
PushRight(q, several) ==
    \/ q.pc = "idle"
    \/ /\ q = [pc |-> q.pc, want |-> q.want, listed |-> q.listed, chosen |-> q.chosen,
              dropped |-> q.dropped, got |-> q.got]
       /\ q.pc # "inspect" => ChoseRight(q, several)
       /\ q.pc \in {"check", "put", "done"} => q.got \in Spelling /\ (several => Alike(q.got, q.chosen))
       /\ q.pc \in {"put", "done"} => (q.want # Unnamed => Alike(q.got, q.want))

LoadRight(q, tags) ==
    \/ q.pc = "idle"
    \/ /\ q = [pc |-> q.pc, want |-> q.want, from |-> q.from, got |-> q.got, answer |-> q.answer, tagged |-> q.tagged]
       /\ q.pc = "tag" => (q.tagged => tags # Unnamed)
       /\ q.pc # "tag" => (q.from = "index" => IsPrefix(q.want, q.got)) /\ (q.from = "legacy" => ~q.tagged)
       /\ q.pc = "done" => q.answer = "loaded"

PlatformsInv ==
    /\ held \in Holdings
    /\ PushRight(pushing, perPlatform)
    /\ LoadRight(pulling, published)

LEMMA SelectRight ==
    ASSUME PlatformsInv, Select
    PROVE  PushRight(pushing', perPlatform)
<1> PICK pc, L, want : pc = "save" /\ L = LocalPlatforms /\ want = pushing.want
  OBVIOUS
<1>0. /\ pushing = [pc |-> pushing.pc, want |-> want, listed |-> pushing.listed, chosen |-> pushing.chosen,
                    dropped |-> pushing.dropped, got |-> pushing.got]
  BY DEF PlatformsInv, PushRight, Select
<1>1. /\ IsFiniteSet(L) /\ (L # {} => perPlatform)
      /\ \A a \in L : a \in Spelling /\ a \in Seq(STRING)
  <2>1. IsFiniteSet(held) /\ held \subseteq Spelling \union {Attestation}
    BY PlatformsAssumption DEF PlatformsInv
  <2>2. IsFiniteSet(held \ {Attestation})
    BY <2>1, FS_RemoveElement
  <2> QED BY <2>1, <2>2, FS_EmptySet, PlatformsAssumption DEF LocalPlatforms
<1>2. PICK chosen, dropped :
        /\ Selects(chosen, dropped)
        /\ \/ L = {} /\ dropped = {}
           \/ want # Unnamed /\ chosen = want /\ dropped = Others(L, chosen)
           \/ want = Unnamed /\ Cardinality(L) = 1 /\ chosen = (CHOOSE a \in L : TRUE) /\ dropped = {}
           \/ want = Unnamed /\ Cardinality(L) > 1 /\ chosen = Host /\ dropped = Others(L, chosen)
  BY DEF Select
<1>3. pushing' = [pc |-> pc, want |-> want, listed |-> L, chosen |-> chosen, dropped |-> dropped, got |-> pushing.got]
  <2>1. pushing' = [pushing EXCEPT !.pc = pc, !.listed = L, !.chosen = chosen, !.dropped = dropped]
    BY <1>2 DEF Selects, PushMoves
  <2> QED BY <1>0, <2>1
<1>4. want = Unnamed /\ Cardinality(L) > 1 => perPlatform /\ chosen = Host /\ dropped = Others(L, Host)
  BY <1>1, <1>2, FS_EmptySet
<1>5. PICK q : q = pushing'
  OBVIOUS
<1>6. /\ q.pc = "save" /\ q.want = want /\ q.listed = L /\ q.chosen = chosen /\ q.dropped = dropped
      /\ q.got = pushing.got
  BY <1>3, <1>5
<1>7. ChoseRight(q, perPlatform)
  BY <1>1, <1>4, <1>6 DEF ChoseRight
<1>8. q = [pc |-> q.pc, want |-> q.want, listed |-> q.listed, chosen |-> q.chosen, dropped |-> q.dropped, got |-> q.got]
  BY <1>3, <1>5
<1>9. PushRight(q, perPlatform)
  BY <1>6, <1>7, <1>8 DEF PushRight
<1> QED BY <1>5, <1>9

LEMMA StartRight ==
    ASSUME NEW want, StartPush(want)
    PROVE  PushRight(pushing', perPlatform)
<1>1. PICK pc : pc = "inspect"
  OBVIOUS
<1>2. PICK q : q = pushing'
  OBVIOUS
<1>3. q = [pc |-> pc, want |-> want, listed |-> {}, chosen |-> Unnamed, dropped |-> {}, got |-> Unnamed]
  BY <1>1, <1>2 DEF StartPush, PushMoves
<1>4. /\ q = [pc |-> q.pc, want |-> q.want, listed |-> q.listed, chosen |-> q.chosen, dropped |-> q.dropped, got |-> q.got]
      /\ q.pc = pc
  BY <1>3
<1>5. PushRight(q, perPlatform)
  BY <1>1, <1>4 DEF PushRight
<1> QED BY <1>2, <1>5

\* A step after the choice: the daemon's answer is checked, or passed on.
Goes(pc, got) ==
    /\ pushing.pc \in {"save", "check", "put", "done"}
    /\ pushing' = [pushing EXCEPT !.pc = pc, !.got = got]
    /\ pc \in {"check", "put", "done"} /\ got \in Spelling /\ (perPlatform => Alike(got, pushing.chosen))
    /\ pc # "check" => (pushing.want # Unnamed => Alike(got, pushing.want))

LEMMA GoesRight ==
    ASSUME PlatformsInv, NEW pc, NEW got, Goes(pc, got)
    PROVE  PushRight(pushing', perPlatform)
<1>1. /\ pushing = [pc |-> pushing.pc, want |-> pushing.want, listed |-> pushing.listed, chosen |-> pushing.chosen,
                    dropped |-> pushing.dropped, got |-> pushing.got]
      /\ ChoseRight(pushing, perPlatform)
  BY DEF PlatformsInv, PushRight, Goes
<1>2. PICK q : q = pushing'
  OBVIOUS
<1>3. q = [pc |-> pc, want |-> pushing.want, listed |-> pushing.listed, chosen |-> pushing.chosen,
           dropped |-> pushing.dropped, got |-> got]
  <2>1. q = [pushing EXCEPT !.pc = pc, !.got = got]
    BY <1>2 DEF Goes
  <2> QED BY <1>1, <2>1
<1>4. /\ q.pc = pc /\ q.got = got /\ q.want = pushing.want /\ q.listed = pushing.listed
      /\ q.chosen = pushing.chosen /\ q.dropped = pushing.dropped
  BY <1>3
<1>5. ChoseRight(q, perPlatform)
  BY <1>1, <1>4 DEF ChoseRight
<1>6. q = [pc |-> q.pc, want |-> q.want, listed |-> q.listed, chosen |-> q.chosen, dropped |-> q.dropped, got |-> q.got]
  BY <1>3
<1>7. PushRight(q, perPlatform)
  BY <1>4, <1>5, <1>6 DEF PushRight, Goes
<1> QED BY <1>2, <1>7

LEMMA ExportRight ==
    ASSUME PlatformsInv, Export \/ CheckExported \/ PutTag
    PROVE  PushRight(pushing', perPlatform)
<1>0. pushing.pc \in {"save", "check", "put", "done"} =>
        pushing = [pc |-> pushing.pc, want |-> pushing.want, listed |-> pushing.listed, chosen |-> pushing.chosen,
                   dropped |-> pushing.dropped, got |-> pushing.got]
  BY DEF PlatformsInv, PushRight
<1>1. CASE Export
  <2>1. PICK a, pc :
          /\ a \in held \ {Attestation} /\ pc = "check" /\ (perPlatform => Alike(a, pushing.chosen))
          /\ pushing' = [pushing EXCEPT !.pc = pc, !.got = a]
    BY <1>1 DEF Export, PushMoves
  <2>2. a \in Spelling
    BY <2>1, PlatformsAssumption DEF PlatformsInv
  <2>3. Goes(pc, a)
    BY <1>1, <2>1, <2>2 DEF Export, Goes
  <2> QED BY <2>3, GoesRight
<1>2. CASE CheckExported
  <2>1. PICK pc, got : pc = "put" /\ got = pushing.got
    OBVIOUS
  <2>2. pushing.pc = "check" /\ pushing' = [pushing EXCEPT !.pc = pc] /\ (pushing.want # Unnamed => Alike(got, pushing.want))
    BY <1>2, <2>1 DEF CheckExported, PushMoves
  <2>3. pushing' = [pushing EXCEPT !.pc = pc, !.got = got]
    BY <1>0, <2>1, <2>2
  <2>4. got \in Spelling /\ (perPlatform => Alike(got, pushing.chosen))
    BY <2>1, <2>2 DEF PlatformsInv, PushRight
  <2>5. Goes(pc, got)
    BY <2>1, <2>2, <2>3, <2>4 DEF Goes
  <2> QED BY <2>5, GoesRight
<1>3. CASE PutTag
  <2>1. PICK pc, got : pc = "done" /\ got = pushing.got
    OBVIOUS
  <2>2. pushing.pc = "put" /\ pushing' = [pushing EXCEPT !.pc = pc]
    BY <1>3, <2>1 DEF PutTag
  <2>3. pushing' = [pushing EXCEPT !.pc = pc, !.got = got]
    BY <1>0, <2>1, <2>2
  <2>4. got \in Spelling /\ (perPlatform => Alike(got, pushing.chosen)) /\ (pushing.want # Unnamed => Alike(got, pushing.want))
    BY <2>1, <2>2 DEF PlatformsInv, PushRight
  <2>5. Goes(pc, got)
    BY <2>1, <2>2, <2>3, <2>4 DEF Goes
  <2> QED BY <2>5, GoesRight
<1> QED BY <1>1, <1>2, <1>3

-----------------------------------------------------------------------------

LEMMA StartPullRight ==
    ASSUME NEW want, StartPull(want)
    PROVE  LoadRight(pulling', published)
<1>1. PICK pc, from, answer, w : pc = "tag" /\ from = "image" /\ answer = "error" /\ w = (IF want = Unnamed THEN Host ELSE want)
  OBVIOUS
<1>2. PICK q : q = pulling'
  OBVIOUS
<1>3. q = [pc |-> pc, want |-> w, from |-> from, got |-> Unnamed, answer |-> answer, tagged |-> published # Unnamed]
  BY <1>1, <1>2 DEF StartPull, PullMoves
<1>4. /\ q = [pc |-> q.pc, want |-> q.want, from |-> q.from, got |-> q.got, answer |-> q.answer, tagged |-> q.tagged]
      /\ q.pc = pc /\ q.tagged = (published # Unnamed)
  BY <1>3
<1>5. LoadRight(q, published)
  BY <1>1, <1>4 DEF LoadRight
<1> QED BY <1>2, <1>5

\* A step of a pull, with what it has got.
Loads(pc, from, got, answer) ==
    /\ pulling.pc # "idle"
    /\ pulling' = [pc |-> pc, want |-> pulling.want, from |-> from, got |-> got, answer |-> answer, tagged |-> pulling.tagged]
    /\ pc \notin {"idle", "tag"}
    /\ from = "index" => IsPrefix(pulling.want, got)
    /\ from = "legacy" => ~pulling.tagged
    /\ pc = "done" => answer = "loaded"

LEMMA LoadsRight ==
    ASSUME NEW pc, NEW from, NEW got, NEW answer, Loads(pc, from, got, answer)
    PROVE  LoadRight(pulling', published)
<1>1. PICK q : q = pulling'
  OBVIOUS
<1>2. q = [pc |-> pc, want |-> pulling.want, from |-> from, got |-> got, answer |-> answer, tagged |-> pulling.tagged]
  BY <1>1 DEF Loads
<1>3. /\ q = [pc |-> q.pc, want |-> q.want, from |-> q.from, got |-> q.got, answer |-> q.answer, tagged |-> q.tagged]
      /\ q.pc = pc /\ q.want = pulling.want /\ q.from = from /\ q.got = got /\ q.answer = answer /\ q.tagged = pulling.tagged
  BY <1>2
<1>4. LoadRight(q, published)
  BY <1>3 DEF LoadRight, Loads
<1> QED BY <1>1, <1>4

LEMMA PullStepsRight ==
    ASSUME PlatformsInv, ReadTag \/ FindNothing \/ DownloadOld \/ ReadPlatformManifest \/ Load \/ CheckLoad
    PROVE  LoadRight(pulling', published)
<1>0. pulling.pc # "idle" =>
        /\ pulling = [pc |-> pulling.pc, want |-> pulling.want, from |-> pulling.from, got |-> pulling.got,
                      answer |-> pulling.answer, tagged |-> pulling.tagged]
        /\ pulling.pc = "tag" => (pulling.tagged => published # Unnamed)
        /\ pulling.pc # "tag" =>
             (pulling.from = "index" => IsPrefix(pulling.want, pulling.got)) /\ (pulling.from = "legacy" => ~pulling.tagged)
  BY DEF PlatformsInv, LoadRight
<1>1. CASE ReadTag
  <2>1. CASE isIndex
    <3>1. PICK i, pc, from : /\ pc = "child" /\ from = "index" /\ pulling.pc = "tag"
                             /\ IsPrefix(pulling.want, published[i])
                             /\ pulling' = [pulling EXCEPT !.pc = pc, !.from = from, !.got = published[i]]
      BY <1>1, <2>1 DEF ReadTag, PullMoves, Matches
    <3>2. pulling' = [pc |-> pc, want |-> pulling.want, from |-> from, got |-> published[i],
                      answer |-> pulling.answer, tagged |-> pulling.tagged]
      BY <1>0, <3>1
    <3>3. Loads(pc, from, published[i], pulling.answer)
      BY <3>1, <3>2 DEF Loads
    <3> QED BY <3>3, LoadsRight
  <2>2. CASE ~isIndex
    <3>1. PICK pc, from : /\ pc = "load" /\ from = "image" /\ pulling.pc = "tag"
                          /\ pulling' = [pulling EXCEPT !.pc = pc, !.from = from, !.got = published[1]]
      BY <1>1, <2>2 DEF ReadTag, PullMoves
    <3>2. pulling' = [pc |-> pc, want |-> pulling.want, from |-> from, got |-> published[1],
                      answer |-> pulling.answer, tagged |-> pulling.tagged]
      BY <1>0, <3>1
    <3>3. Loads(pc, from, published[1], pulling.answer)
      BY <3>1, <3>2 DEF Loads
    <3> QED BY <3>3, LoadsRight
  <2> QED BY <2>1, <2>2
<1>2. CASE FindNothing
  <2>1. PICK pc, from : /\ pc = "legacy" /\ from = "legacy" /\ pulling.pc = "tag" /\ published = Unnamed
                        /\ pulling' = [pulling EXCEPT !.pc = pc, !.from = from, !.got = Old]
    BY <1>2 DEF FindNothing, PullMoves
  <2>2. pulling' = [pc |-> pc, want |-> pulling.want, from |-> from, got |-> Old,
                    answer |-> pulling.answer, tagged |-> pulling.tagged]
    BY <1>0, <2>1
  <2>3. Loads(pc, from, Old, pulling.answer)
    BY <1>0, <2>1, <2>2 DEF Loads
  <2> QED BY <2>3, LoadsRight
<1>3. CASE DownloadOld \/ ReadPlatformManifest \/ CheckLoad
  <2>1. PICK pc : /\ pc \in {"load", "done"} /\ pulling.pc \in {"legacy", "child", "answer"}
                  /\ pc = "done" => pulling.answer = "loaded"
                  /\ pulling' = [pulling EXCEPT !.pc = pc]
    BY <1>3 DEF DownloadOld, ReadPlatformManifest, CheckLoad, PullMoves
  <2>2. pulling' = [pc |-> pc, want |-> pulling.want, from |-> pulling.from, got |-> pulling.got,
                    answer |-> pulling.answer, tagged |-> pulling.tagged]
    BY <1>0, <2>1
  <2>3. Loads(pc, pulling.from, pulling.got, pulling.answer)
    BY <1>0, <2>1, <2>2 DEF Loads
  <2> QED BY <2>3, LoadsRight
<1>4. CASE Load
  <2>1. PICK pc, answer : pc = "answer" /\ pulling.pc = "load" /\ pulling' = [pulling EXCEPT !.pc = pc, !.answer = answer]
    BY <1>4 DEF Load, PullMoves
  <2>2. pulling' = [pc |-> pc, want |-> pulling.want, from |-> pulling.from, got |-> pulling.got,
                    answer |-> answer, tagged |-> pulling.tagged]
    BY <1>0, <2>1
  <2>3. Loads(pc, pulling.from, pulling.got, answer)
    BY <1>0, <2>1, <2>2 DEF Loads
  <2> QED BY <2>3, LoadsRight
<1> QED BY <1>1, <1>2, <1>3, <1>4

\* What a pull may assume of the tag is that it is there, or was taken away.
LEMMA TagsRight ==
    ASSUME PlatformsInv, pulling' = pulling, published' = published \/ published' # Unnamed
    PROVE  LoadRight(pulling', published')
BY DEF PlatformsInv, LoadRight

LEMMA UntagRight ==
    ASSUME PlatformsInv, Untag
    PROVE  LoadRight(pulling', published')
<1>1. CASE pulling.pc = "idle"
  BY <1>1 DEF Untag, LoadRight
<1>2. CASE pulling.pc # "idle"
  <2>1. pulling = [pc |-> pulling.pc, want |-> pulling.want, from |-> pulling.from, got |-> pulling.got,
                   answer |-> pulling.answer, tagged |-> pulling.tagged]
    BY <1>2 DEF PlatformsInv, LoadRight
  <2>2. PICK q : q = pulling'
    OBVIOUS
  <2>3. q = [pulling EXCEPT !.tagged = FALSE]
    BY <1>2, <2>2 DEF Untag
  <2>4. q = [pc |-> pulling.pc, want |-> pulling.want, from |-> pulling.from, got |-> pulling.got,
             answer |-> pulling.answer, tagged |-> FALSE]
    BY <2>1, <2>3
  <2>5. /\ q = [pc |-> q.pc, want |-> q.want, from |-> q.from, got |-> q.got, answer |-> q.answer, tagged |-> q.tagged]
        /\ q.pc = pulling.pc /\ q.want = pulling.want /\ q.from = pulling.from /\ q.got = pulling.got
        /\ q.answer = pulling.answer /\ ~q.tagged
    BY <2>4
  <2>6. LoadRight(q, published')
    BY <1>2, <2>5 DEF PlatformsInv, LoadRight
  <2> QED BY <2>2, <2>6
<1> QED BY <1>1, <1>2

LEMMA PlatformsInvNext == PlatformsInv /\ [PlatformsNext]_platformVars => PlatformsInv'
<1> SUFFICES ASSUME PlatformsInv, [PlatformsNext]_platformVars PROVE PlatformsInv'
  OBVIOUS
<1>1. ASSUME NEW want, StartPush(want) PROVE PlatformsInv'
  BY <1>1, StartRight DEF StartPush, PushMoves, PlatformsInv
<1>2. ASSUME NEW want, StartPull(want) PROVE PlatformsInv'
  BY <1>2, StartPullRight DEF StartPull, PullMoves, PlatformsInv
<1>3. CASE Select
  <2>1. UNCHANGED <<held, perPlatform, published, pulling>>
    BY <1>3 DEF Select, Selects, PushMoves
  <2> QED BY <1>3, <2>1, SelectRight DEF PlatformsInv
<1>4. CASE Export \/ CheckExported
  <2>1. UNCHANGED <<held, perPlatform, published, pulling>>
    BY <1>4 DEF Export, CheckExported, PushMoves
  <2> QED BY <1>4, <2>1, ExportRight DEF PlatformsInv
<1>5. CASE PutTag
  <2>1. UNCHANGED <<held, perPlatform, pulling>> /\ published' # Unnamed
    BY <1>5 DEF PutTag, Unnamed
  <2> QED BY <1>5, <2>1, ExportRight, TagsRight DEF PlatformsInv
<1>6. CASE EndPush
  BY <1>6 DEF EndPush, PushMoves, PlatformsInv, PushRight, NotPushing
<1>7. CASE EndPull
  BY <1>7 DEF EndPull, PullMoves, PlatformsInv, LoadRight, NotPulling
<1>8. CASE ReadTag \/ FindNothing \/ DownloadOld \/ ReadPlatformManifest \/ Load \/ CheckLoad
  <2>1. UNCHANGED <<held, perPlatform, pushing, published>>
    BY <1>8 DEF ReadTag, FindNothing, DownloadOld, ReadPlatformManifest, Load, CheckLoad, PullMoves
  <2> QED BY <1>8, <2>1, PullStepsRight DEF PlatformsInv
<1>9. ASSUME NEW images \in Holdings, Rebuild(images) PROVE PlatformsInv'
  BY <1>9 DEF Rebuild, Happens, PlatformsInv
<1>10. ASSUME NEW tags, NEW index, Publishes(tags, index), tags # Unnamed PROVE PlatformsInv'
  BY <1>10, TagsRight DEF Publishes, Happens, PlatformsInv
<1>11. CASE Untag
  BY <1>11, UntagRight DEF Untag, Happens, PlatformsInv
<1>12. ASSUME NEW s, Spoil(s) PROVE PlatformsInv'
  BY <1>12 DEF Spoil, Happens, PlatformsInv
<1>13. CASE UNCHANGED platformVars
  BY <1>13 DEF platformVars, PlatformsInv
<1>14. /\ \A tags \in Indexes : tags # Unnamed
       /\ \A s : <<s>> # Unnamed
  BY PlatformsAssumption DEF Unnamed
<1> QED
  BY <1>1, <1>2, <1>3, <1>4, <1>5, <1>6, <1>7, <1>8, <1>9, <1>10, <1>11, <1>12, <1>13, <1>14 DEF PlatformsNext

\* The daemon's images, the tag and a push or pull of them, by themselves.
PlatformsSpec == PlatformsInit /\ [][PlatformsNext]_platformVars

LEMMA PlatformsInvAlways == PlatformsSpec => []PlatformsInv
<1>1. PlatformsInit => PlatformsInv
  BY DEF PlatformsInit, PlatformsInv, PushRight, LoadRight, NotPushing, NotPulling
<1> QED BY <1>1, PlatformsInvNext, PTL DEF PlatformsSpec

\* Nothing is published under a name that is not its platform's
\* (selectPushPlatform, checkExportedPlatform), whatever platforms there are and
\* however often the image is rebuilt.
THEOREM PublishedAsAsked == PlatformsSpec => []PublishedRight
<1>1. PlatformsInv => PublishedRight
  <2> SUFFICES ASSUME PlatformsInv, pushing.pc = "done" PROVE PublishedRight
    BY DEF PublishedRight
  <2>1. /\ ChoseRight(pushing, perPlatform) /\ pushing.got \in Spelling
        /\ perPlatform => Alike(pushing.got, pushing.chosen)
        /\ pushing.want # Unnamed => Alike(pushing.got, pushing.want)
    BY DEF PlatformsInv, PushRight
  <2>2. ASSUME pushing.want = Unnamed, Cardinality(pushing.listed) > 1
        PROVE  IsPrefix(Host, pushing.got) /\ pushing.got \notin pushing.dropped
    <3>1. IsPrefix(Host, pushing.got)
      BY <2>1, <2>2, LikeTheHost DEF ChoseRight
    <3> QED BY <2>1, <2>2, <3>1 DEF ChoseRight, Others
  <2> QED BY <2>1, <2>2 DEF PublishedRight
<1> QED BY <1>1, PlatformsInvAlways, PTL

\* What a pull has loaded of an index is the platform that was wanted, and the
\* layout of v1.0.0 is taken only when the tag was not there (pull,
\* resolvePlatformManifest, checkLoadResponse).
THEOREM ImportedAsAsked == PlatformsSpec => []ImportedRight
<1>1. PlatformsInv => ImportedRight
  BY DEF PlatformsInv, LoadRight, ImportedRight
<1> QED BY <1>1, PlatformsInvAlways, PTL
=============================================================================
