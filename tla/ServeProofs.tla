---------------------------- MODULE ServeProofs ----------------------------
(***************************************************************************)
(* Serve for any bucket, any number of handlers and any number of changes: *)
(* only what was signed leaves the server or is vouched for, and what      *)
(* stands all the while is found.                                          *)
(***************************************************************************)
EXTENDS Serve, TLAPS

\* The steps of handler h, which leave the bucket and its clients alone.
HandlerStep(h) == Handle(h) \/ Return(h)

\* What a request may become in a step of its handler.
LEMMA Requests ==
    ASSUME NEW ref \in Ref
    PROVE  /\ Asked(ref) \in Work /\ Asked(ref).step = "look" /\ Asked(ref).got = None
           /\ Asked(ref).ref = ref
<1>1. WaysIn(tag, blob, record, ref) \in SUBSET (Tag \X Manifest)
  BY DEF WaysIn
<1> QED BY <1>1 DEF Asked, Work, Answer

LEMMA AnsweredWork ==
    ASSUME NEW r \in Work, NEW a \in Answer
    PROVE  /\ Answered(r, a) \in Work /\ Answered(r, a).step = "answered"
           /\ Answered(r, a).answer = a /\ Answered(r, a).ref = r.ref
           /\ Answered(r, a).got = IF a = "ok" THEN r.got ELSE None
BY DEF Answered, Work

LEMMA FoundWork ==
    ASSUME NEW r \in Work, NEW m \in Manifest \union {None}
    PROVE  /\ Found(r, m) \in Work /\ Found(r, m).step = "policy"
           /\ Found(r, m).ref = r.ref /\ Found(r, m).got = m
BY DEF Found, Work

LEMMA Known ==
    ASSUME TypeOK, NEW h \in Handler, work[h].step # "none"
    PROVE  work[h] \in Work
BY DEF TypeOK, NoWork

-----------------------------------------------------------------------------
(* Both invariants together: any step of a handler is one of these.        *)

LEMMA HandlerGoes ==
    ASSUME TypeOK, Attested, NEW h \in Handler, NEW new \in Work \union {NoWork}, Goes(h, new),
           new.step \in {"policy", "record"} => new.got # None,
           new.step = "answered" /\ new.answer = "ok" => new.got \in verified',
           new.step # "none" /\ new.got # None =>
             (new.ref.by = "digest" => new.got = new.ref.of),
           new.step = "record" => new.ref.by = "tag",
           verified \subseteq verified', verified' \subseteq Manifest,
           \A m \in verified' : \E t \in Tag : <<t, m>> \in signed
    PROVE  TypeOK' /\ Attested'
<1>1. /\ work' \in [Handler -> Work \union {NoWork}]
      /\ work'[h] = new
      /\ \A k \in Handler \ {h} : work'[k] = work[k]
  BY DEF Goes, TypeOK
<1>2. TypeOK'
  BY <1>1 DEF Goes, TypeOK, bucket, clients
<1>3. Attested'
  BY <1>1 DEF Goes, Attested, bucket, clients
<1> QED BY <1>2, <1>3

\* An answer other than 200, or a 200 for what is verified.
LEMMA HandlerAnswers ==
    ASSUME TypeOK, Attested, NEW h \in Handler, NEW a \in Answer, work[h].step # "none",
           Answers(h, a), a = "ok" => work[h].got \in verified',
           verified \subseteq verified', verified' \subseteq Manifest,
           \A m \in verified' : \E t \in Tag : <<t, m>> \in signed
    PROVE  TypeOK' /\ Attested'
<1> DEFINE new == Answered(work[h], a)
<1>1. work[h] \in Work
  BY Known
<1>2. /\ new \in Work /\ new.step = "answered" /\ new.answer = a /\ new.ref = work[h].ref
      /\ new.got = IF a = "ok" THEN work[h].got ELSE None
  BY <1>1, AnsweredWork
<1>3. new.got # None => (new.ref.by = "digest" => new.got = new.ref.of)
  BY <1>2 DEF Attested
<1>4. Goes(h, new)
  BY DEF Answers
<1> HIDE DEF new
<1> QED BY <1>2, <1>3, <1>4, HandlerGoes

LEMMA HandlerFinds ==
    ASSUME TypeOK, Attested, NEW h \in Handler, NEW r \in Work, NEW m \in Manifest,
           Goes(h, Found(r, m)), UNCHANGED verified,
           r.ref.by = "digest" => m = r.ref.of
    PROVE  TypeOK' /\ Attested'
<1> DEFINE new == Found(r, m)
<1>1. new \in Work /\ new.step = "policy" /\ new.ref = r.ref /\ new.got = m
  BY FoundWork
<1>2. m # None
  BY ServeAssumption
<1>3. verified \subseteq Manifest /\ \A n \in verified : \E t \in Tag : <<t, n>> \in signed
  BY DEF TypeOK, Attested
<1> HIDE DEF new
<1> QED BY <1>1, <1>2, <1>3, HandlerGoes DEF new

\* What a search goes on with.
LEMMA HandlerSearches ==
    ASSUME TypeOK, Attested, NEW h \in Handler, work[h].step \in {"look", "child"},
           NEW step \in {"look", "child"}, NEW todo \in SUBSET Tag,
           Goes(h, [work[h] EXCEPT !.step = step, !.todo = todo]), UNCHANGED verified
    PROVE  TypeOK' /\ Attested'
<1> DEFINE new == [work[h] EXCEPT !.step = step, !.todo = todo]
<1>1. work[h] \in Work
  BY Known
<1>2. new \in Work /\ new.step = step /\ new.ref = work[h].ref /\ new.got = work[h].got
  BY <1>1 DEF Work
<1>3. new.got # None => (new.ref.by = "digest" => new.got = new.ref.of)
  BY <1>2 DEF Attested
<1>4. verified \subseteq Manifest /\ \A n \in verified : \E t \in Tag : <<t, n>> \in signed
  BY DEF TypeOK, Attested
<1> HIDE DEF new
<1> QED BY <1>2, <1>3, <1>4, HandlerGoes DEF new

LEMMA FirstRequest ==
    ASSUME TypeOK, Attested, NEW h \in Handler, NEW ref \in Ref,
           GetTag(h, ref) \/ ListTags(h, ref) \/ FirstFails(h, ref)
    PROVE  TypeOK' /\ Attested'
<1>1. Asked(ref) \in Work /\ Asked(ref).step = "look" /\ Asked(ref).got = None /\ Asked(ref).ref = ref
  BY Requests
<1>2. verified \subseteq Manifest /\ \A n \in verified : \E t \in Tag : <<t, n>> \in signed
  BY DEF TypeOK, Attested
<1>3. ASSUME NEW a \in Answer, a # "ok", Goes(h, Answered(Asked(ref), a)), UNCHANGED verified
      PROVE  TypeOK' /\ Attested'
  <2> DEFINE new == Answered(Asked(ref), a)
  <2>1. new \in Work /\ new.step = "answered" /\ new.answer = a /\ new.got = None
    BY <1>1, <1>3, AnsweredWork
  <2> HIDE DEF new
  <2> QED BY <1>2, <1>3, <2>1, HandlerGoes DEF new
<1>4. CASE GetTag(h, ref)
  <2>1. CASE tag[ref.of] = None
    BY <1>3, <1>4, <2>1 DEF GetTag, Answer
  <2>2. CASE tag[ref.of] # None
    <3>1. ref.by = "tag" /\ tag[ref.of] \in Manifest
      BY <1>4, <2>2 DEF GetTag, TypeOK, Ref
    <3>2. Goes(h, Found(Asked(ref), tag[ref.of])) /\ UNCHANGED verified
      BY <1>4, <2>2 DEF GetTag
    <3> QED BY <1>1, <3>1, <3>2, HandlerFinds
  <2> QED BY <2>1, <2>2
<1>5. CASE ListTags(h, ref)
  <2> DEFINE new == [Asked(ref) EXCEPT !.todo = {t \in Tag : tag[t] # None}]
  <2>1. new \in Work /\ new.step = "look" /\ new.got = None
    BY <1>1 DEF Work
  <2>2. Goes(h, new) /\ UNCHANGED verified
    BY <1>5 DEF ListTags
  <2> HIDE DEF new
  <2> QED BY <1>2, <2>1, <2>2, HandlerGoes
<1>6. CASE FirstFails(h, ref)
  BY <1>3, <1>6 DEF FirstFails, Answer
<1> QED BY <1>4, <1>5, <1>6

LEMMA Search ==
    ASSUME TypeOK, Attested, NEW h \in Handler,
           (\E t \in Tag : Look(h, t)) \/ ReadChild(h) \/ NotFound(h)
    PROVE  TypeOK' /\ Attested'
<1>1. work[h].step \in {"look", "child"}
  BY DEF Look, ReadChild, NotFound, Busy
<1>2. work[h] \in Work
  BY <1>1, Known
<1>3. verified \subseteq Manifest /\ \A n \in verified : \E t \in Tag : <<t, n>> \in signed
  BY DEF TypeOK, Attested
<1>4. CASE \E t \in Tag : Look(h, t)
  <2> PICK t \in Tag : Look(h, t)
    BY <1>4
  <2>1. CASE tag[t] = work[h].ref.of /\ tag[t] # None
    <3>1. tag[t] \in Manifest
      BY <2>1 DEF TypeOK
    <3>2. Goes(h, Found(work[h], tag[t])) /\ UNCHANGED verified
      BY <2>1 DEF Look, Finds
    <3> QED BY <1>2, <2>1, <3>1, <3>2, HandlerFinds
  <2>2. CASE tag[t] = None
    <3>1. work[h].ref.of # None
      BY <1>2, ServeAssumption DEF Work, Ref
    <3>2. Goes(h, [work[h] EXCEPT !.todo = @ \ {t}]) /\ UNCHANGED verified
      BY <2>2, <3>1 DEF Look
    <3>3. [work[h] EXCEPT !.todo = @ \ {t}]
             = [work[h] EXCEPT !.step = work[h].step, !.todo = work[h].todo \ {t}]
      BY <1>2 DEF Work
    <3>4. work[h].todo \ {t} \in SUBSET Tag
      BY <1>2 DEF Work
    <3> QED BY <1>1, <3>2, <3>3, <3>4, HandlerSearches
  <2>3. CASE tag[t] # None /\ tag[t] # work[h].ref.of
    <3>1. work[h].todo \ {t} \in SUBSET Tag
      BY <1>2 DEF Work
    <3>2. [work[h] EXCEPT !.todo = @ \ {t}]
             = [work[h] EXCEPT !.step = work[h].step, !.todo = work[h].todo \ {t}]
      BY <1>2 DEF Work
    <3>3. CASE Lists(tag[t], work[h].ref.of)
      <4>1. Goes(h, [work[h] EXCEPT !.step = "child", !.todo = work[h].todo \ {t}]) /\ UNCHANGED verified
        BY <2>3, <3>3 DEF Look
      <4> QED BY <1>1, <3>1, <4>1, HandlerSearches
    <3>4. CASE ~Lists(tag[t], work[h].ref.of)
      <4>1. Goes(h, [work[h] EXCEPT !.todo = @ \ {t}]) /\ UNCHANGED verified
        BY <2>3, <3>4 DEF Look
      <4> QED BY <1>1, <3>1, <3>2, <4>1, HandlerSearches
    <3> QED BY <3>3, <3>4
  <2> QED BY <2>1, <2>2, <2>3
<1>5. CASE ReadChild(h)
  <2>1. CASE work[h].ref.of \in blob
    <3>1. work[h].ref.of \in Manifest
      BY <2>1 DEF TypeOK
    <3>2. Goes(h, Found(work[h], work[h].ref.of)) /\ UNCHANGED verified
      BY <1>5, <2>1 DEF ReadChild, Finds
    <3> QED BY <1>2, <3>1, <3>2, HandlerFinds
  <2>2. CASE work[h].ref.of \notin blob
    <3>1. Goes(h, [work[h] EXCEPT !.step = "look"]) /\ UNCHANGED verified
      BY <1>5, <2>2 DEF ReadChild
    <3>2. [work[h] EXCEPT !.step = "look"] = [work[h] EXCEPT !.step = "look", !.todo = work[h].todo]
      BY <1>2 DEF Work
    <3>3. work[h].todo \in SUBSET Tag
      BY <1>2 DEF Work
    <3> QED BY <1>1, <3>1, <3>2, <3>3, HandlerSearches
  <2> QED BY <2>1, <2>2
<1>6. CASE NotFound(h)
  <2>1. Answers(h, "unknown") /\ UNCHANGED verified
    BY <1>6 DEF NotFound
  <2> QED BY <1>1, <1>3, <2>1, HandlerAnswers DEF Answer
<1> QED BY <1>4, <1>5, <1>6

LEMMA Verdict ==
    ASSUME TypeOK, Attested, NEW h \in Handler,
           Policy(h) \/ ReadRecord(h) \/ StorageFails(h)
    PROVE  TypeOK' /\ Attested'
<1>1. work[h].step \in {"look", "child", "policy", "record"}
  BY DEF Policy, ReadRecord, StorageFails, Busy
<1>2. work[h] \in Work
  BY <1>1, Known
<1>3. verified \subseteq Manifest /\ \A n \in verified : \E t \in Tag : <<t, n>> \in signed
  BY DEF TypeOK, Attested
<1>4. ASSUME NEW a \in Answer, Answers(h, a), UNCHANGED verified, a = "ok" => work[h].got \in verified
      PROVE  TypeOK' /\ Attested'
  BY <1>1, <1>3, <1>4, HandlerAnswers
<1>5. CASE Policy(h)
  <2>1. CASE work[h].got \in verified
    BY <1>4, <1>5, <2>1 DEF Policy, Answer
  <2>2. CASE work[h].got \notin verified /\ work[h].ref.by = "digest"
    BY <1>4, <1>5, <2>2 DEF Policy, Answer
  <2>3. CASE work[h].got \notin verified /\ work[h].ref.by # "digest"
    <3> DEFINE new == [work[h] EXCEPT !.step = "record"]
    <3>1. new \in Work /\ new.step = "record" /\ new.ref = work[h].ref /\ new.got = work[h].got
      BY <1>2 DEF Work
    <3>2. work[h].got # None
      BY <1>5 DEF Policy, Busy, TypeOK
    <3>3. new.ref.by = "tag"
      BY <1>2, <2>3, <3>1 DEF Work, Ref
    <3>4. Goes(h, new) /\ UNCHANGED verified
      BY <1>5, <2>3 DEF Policy
    <3> HIDE DEF new
    <3> QED BY <1>3, <3>1, <3>2, <3>3, <3>4, HandlerGoes
  <2> QED BY <2>1, <2>2, <2>3
<1>6. CASE ReadRecord(h)
  <2> DEFINE m == work[h].got
             t == work[h].ref.of
  <2>1. m # None /\ m \in Manifest
    BY <1>2, <1>6 DEF ReadRecord, Busy, TypeOK, Work
  <2>2. CASE Proves(record[t], m)
    <3>1. Answers(h, "ok") /\ verified' = verified \union {m}
      BY <1>6, <2>2 DEF ReadRecord
    <3>2. \E u \in Tag : <<u, m>> \in signed
      <4>1. t \in Tag
        BY <1>2, <1>6 DEF ReadRecord, Busy, Attested, Work, Ref
      <4> QED BY <2>2, <4>1 DEF Proves, Attested
    <3> QED BY <1>1, <1>3, <2>1, <3>1, <3>2, HandlerAnswers DEF Answer
  <2>3. CASE ~Proves(record[t], m)
    BY <1>4, <1>6, <2>3 DEF ReadRecord, Answer
  <2> QED BY <2>2, <2>3
<1>7. CASE StorageFails(h)
  BY <1>4, <1>7 DEF StorageFails, Answer
<1> QED BY <1>5, <1>6, <1>7

LEMMA HandlerKeeps ==
    ASSUME TypeOK, Attested, NEW h \in Handler, HandlerStep(h)
    PROVE  TypeOK' /\ Attested'
<1>1. CASE Return(h)
  <2>1. verified \subseteq Manifest /\ \A n \in verified : \E t \in Tag : <<t, n>> \in signed
    BY DEF TypeOK, Attested
  <2>2. Goes(h, NoWork) /\ UNCHANGED verified /\ NoWork.step = "none"
    BY <1>1 DEF Return, NoWork
  <2> QED BY <2>1, <2>2, HandlerGoes
<1>2. CASE Handle(h)
  BY <1>2, FirstRequest, Search, Verdict DEF Handle
<1> QED BY <1>1, <1>2 DEF HandlerStep

-----------------------------------------------------------------------------
(* The clients.                                                            *)

\* A change leaves every request what it is, but for its ways.
LEMMA ChangeKeepsRequests ==
    ASSUME TypeOK, Change
    PROVE  /\ work' \in [Handler -> Work \union {NoWork}]
           /\ \A h \in Handler : /\ work'[h].step = work[h].step
                                 /\ work[h].step # "none" =>
                                      /\ work'[h].got = work[h].got /\ work'[h].ref = work[h].ref
                                      /\ work'[h].answer = work[h].answer
<1>1. ASSUME NEW h \in Handler
      PROVE  /\ work'[h] \in Work \union {NoWork} /\ work'[h].step = work[h].step
             /\ work[h].step # "none" =>
                  /\ work'[h].got = work[h].got /\ work'[h].ref = work[h].ref
                  /\ work'[h].answer = work[h].answer
  <2>1. CASE work[h] = NoWork
    BY <2>1 DEF Change, NoWork
  <2>2. CASE work[h] # NoWork
    <3>1. work[h] \in Work
      BY <2>2 DEF TypeOK
    <3>2. work'[h] = [work[h] EXCEPT !.ways = @ \intersect WaysIn(tag', blob', record', work[h].ref)]
      BY <2>2 DEF Change
    <3> QED BY <3>1, <3>2 DEF Work
  <2> QED BY <2>1, <2>2
<1>2. work' = [h \in Handler |-> work'[h]]
  BY DEF Change
<1> QED BY <1>1, <1>2

LEMMA ClientKeeps ==
    ASSUME TypeOK, Attested,
           \/ \E t \in Tag : Delete(t) \/ ReadManifest(t)
           \/ \E t \in Tag, m \in Manifest : Push(t, m) \/ ForeignRecord(t, m)
           \/ \E m \in Manifest : Collect(m)
           \/ SignStore \/ VerifyRecord \/ CommandEnds
    PROVE  TypeOK' /\ Attested'
<1>1. ASSUME Change,
             tag' \in [Tag -> Manifest \union {None}], blob' \subseteq Manifest,
             record' \in [Tag -> Record \union {None}],
             client' = client \/ client' = None,
             signed \subseteq signed', signed' \subseteq Tag \X Manifest,
             \A t \in Tag : record'[t] # None /\ record'[t].holds => <<t, record'[t].of>> \in signed'
      PROVE  TypeOK' /\ Attested'
  <2>1. changes' \in 0..MaxChanges /\ verified' = verified
    BY <1>1, ServeAssumption DEF Change, TypeOK
  <2>2. TypeOK'
    BY <1>1, <2>1, ChangeKeepsRequests DEF TypeOK
  <2>3. Attested'
    BY <1>1, <2>1, ChangeKeepsRequests DEF Attested
  <2> QED BY <2>2, <2>3
<1>2. ASSUME NEW new, Runs(new),
             new \in [step : {"sign", "verify", "verified"}, tag : Tag, of : Manifest] \union {None},
             new # None /\ new.step = "verified" => <<new.tag, new.of>> \in signed
      PROVE  TypeOK' /\ Attested'
  BY <1>2 DEF Runs, TypeOK, Attested, bucket
<1>3. ASSUME NEW t \in Tag, Delete(t) PROVE TypeOK' /\ Attested'
  BY <1>1, <1>3 DEF Delete, clients, TypeOK, Attested
<1>4. ASSUME NEW t \in Tag, ReadManifest(t) PROVE TypeOK' /\ Attested'
  <2>1. tag[t] \in Manifest
    BY <1>4 DEF ReadManifest, TypeOK
  <2> QED BY <1>2, <1>4, <2>1 DEF ReadManifest
<1>5. ASSUME NEW t \in Tag, NEW m \in Manifest, Push(t, m) PROVE TypeOK' /\ Attested'
  <2>1. blob \union Children[m] \subseteq Manifest
    BY ServeAssumption DEF TypeOK
  <2> QED BY <1>1, <1>5, <2>1 DEF Push, clients, TypeOK, Attested
<1>6. ASSUME NEW t \in Tag, NEW m \in Manifest, ForeignRecord(t, m) PROVE TypeOK' /\ Attested'
  <2>1. [of |-> m, holds |-> FALSE] \in Record
    BY DEF Record
  <2> QED BY <1>1, <1>6, <2>1 DEF ForeignRecord, clients, TypeOK, Attested
<1>7. ASSUME NEW m \in Manifest, Collect(m) PROVE TypeOK' /\ Attested'
  BY <1>1, <1>7 DEF Collect, clients, TypeOK, Attested
<1>8. CASE SignStore
  <2>1. client.tag \in Tag /\ client.of \in Manifest
    BY <1>8 DEF SignStore, TypeOK
  <2>2. [of |-> client.of, holds |-> TRUE] \in Record
    BY <2>1 DEF Record
  <2>3. record' \in [Tag -> Record \union {None}]
    BY <1>8, <2>2 DEF SignStore, TypeOK
  <2>4. signed \subseteq signed' /\ signed' \subseteq Tag \X Manifest
    BY <1>8, <2>1 DEF SignStore, TypeOK
  <2>5. \A t \in Tag : record'[t] # None /\ record'[t].holds => <<t, record'[t].of>> \in signed'
    BY <1>8, <2>1 DEF SignStore, TypeOK, Attested
  <2> QED BY <1>1, <1>8, <2>3, <2>4, <2>5 DEF SignStore, TypeOK
<1>9. CASE VerifyRecord
  <2> DEFINE new == [client EXCEPT !.step = "verified"]
  <2>1. client \in [step : {"sign", "verify", "verified"}, tag : Tag, of : Manifest]
    BY <1>9 DEF VerifyRecord, TypeOK
  <2>2. <<client.tag, client.of>> \in signed
    BY <1>9, <2>1 DEF VerifyRecord, Proves, Attested
  <2> QED BY <1>2, <1>9, <2>1, <2>2 DEF VerifyRecord
<1>10. CASE CommandEnds
  BY <1>2, <1>10 DEF CommandEnds
<1> QED BY <1>3, <1>4, <1>5, <1>6, <1>7, <1>8, <1>9, <1>10

-----------------------------------------------------------------------------

LEMMA AttestedImplies == TypeOK /\ Attested => SignedOnly
  BY ServeAssumption DEF TypeOK, Attested, SignedOnly

\* A sidecar that holds was made by Sign, and what the server takes for verified
\* was signed under some tag, in every state of every behaviour; and the state
\* has its type (Check, Sign).
THEOREM ServeAttested == Spec => [](TypeOK /\ Attested)
<1>1. Init => TypeOK /\ Attested
  <2> SUFFICES ASSUME Init PROVE TypeOK /\ Attested
    OBVIOUS
  <2>1. blob \subseteq Manifest
    BY ServeAssumption DEF Init
  <2> QED BY <2>1, ServeAssumption DEF Init, TypeOK, Attested, NoWork
<1>2. TypeOK /\ Attested /\ [Next]_vars => TypeOK' /\ Attested'
  <2> SUFFICES ASSUME TypeOK, Attested, [Next]_vars PROVE TypeOK' /\ Attested'
    OBVIOUS
  <2>1. CASE Next
    BY <2>1, HandlerKeeps, ClientKeeps DEF Next, HandlerStep
  <2>2. CASE UNCHANGED vars
    BY <2>2 DEF vars, bucket, clients, TypeOK, Attested
  <2> QED BY <2>1, <2>2
<1> QED BY <1>1, <1>2, PTL DEF Spec

\* No manifest is served, and none vouched for, that was not signed, and a
\* digest is answered with its content, for any bucket, any changes of it and
\* any number of handlers (writeManifest, Check, findManifestByDigest, Verify).
THEOREM ServesSignedOnly == Spec => []SignedOnly
BY ServeAttested, AttestedImplies, PTL

-----------------------------------------------------------------------------
(* What stands is served. Behind it: the ways of a request still lead to   *)
(* what it wants, each goes through a tag it has still to look at or a     *)
(* child it is about to read, and a tag's way is the manifest it has got.  *)

Stands(tags, blobs, records, r) ==
    /\ r.ways \subseteq WaysIn(tags, blobs, records, r.ref)
    /\ r.step \in {"look", "child"} => r.ref.by = "digest"
    /\ r.step = "look" => \A w \in r.ways : w[1] \in r.todo
    /\ r.step = "child" => \A w \in r.ways : w[1] \in r.todo \/ w[2] # r.ref.of
    /\ r.step \in {"policy", "record"} /\ r.ref.by = "tag" => \A w \in r.ways : w[2] = r.got
    /\ r.step = "answered" =>
         /\ r.answer = "unknown" => r.ways = {}
         /\ r.answer = "denied" /\ r.ref.by = "tag" => r.ways = {}

AllStand == \A h \in Handler : work[h] # NoWork => Stands(tag, blob, record, work[h])

LEMMA GoesOn ==
    ASSUME TypeOK, AllStand, NEW h \in Handler, NEW new, Goes(h, new),
           new = NoWork \/ Stands(tag, blob, record, new)
    PROVE  AllStand'
<1>1. \A g \in Handler : work'[g] = IF g = h THEN new ELSE work[g]
  BY DEF Goes, TypeOK
<1>2. tag' = tag /\ blob' = blob /\ record' = record
  BY DEF Goes, bucket
<1> HIDE DEF Goes
<1> QED BY <1>1, <1>2 DEF AllStand

\* An answer ends the search; it may refuse only when no way is left.
LEMMA AnswerStands ==
    ASSUME NEW r \in Work, NEW a \in Answer,
           r.ways \subseteq WaysIn(tag, blob, record, r.ref),
           a = "unknown" => r.ways = {},
           a = "denied" /\ r.ref.by = "tag" => r.ways = {}
    PROVE  Stands(tag, blob, record, Answered(r, a))
<1> DEFINE n == Answered(r, a)
<1>1. /\ n.step = "answered" /\ n.answer = a /\ n.ref = r.ref
      /\ n.ways = IF a \in {"unknown", "denied"} THEN r.ways ELSE {}
  BY DEF Answered, Work
<1> HIDE DEF n
<1>2. Stands(tag, blob, record, n)
  BY <1>1 DEF Stands
<1> QED BY <1>2 DEF n

LEMMA FoundStands ==
    ASSUME NEW r \in Work, NEW m \in Manifest,
           r.ways \subseteq WaysIn(tag, blob, record, r.ref),
           r.ref.by = "tag" => m = tag[r.ref.of]
    PROVE  Stands(tag, blob, record, Found(r, m))
<1> DEFINE n == Found(r, m)
<1>1. /\ n.step = "policy" /\ n.got = m /\ n.ref = r.ref
      /\ n.ways = IF r.ref.by = "tag" THEN r.ways ELSE {}
  BY DEF Found, Work
<1> HIDE DEF n
<1>2. r.ref.by = "tag" => \A w \in r.ways : w[2] = m
  BY DEF WaysIn
<1>3. Stands(tag, blob, record, n)
  BY <1>1, <1>2 DEF Stands
<1> QED BY <1>3 DEF n

LEMMA HandlerServes ==
    ASSUME TypeOK, Attested, AllStand, NEW h \in Handler, HandlerStep(h)
    PROVE  AllStand'
<1> DEFINE r == work[h]
<1>1. r.step # "none" => r \in Work /\ Stands(tag, blob, record, r)
  BY Known DEF AllStand, NoWork
<1>2. ASSUME NEW ref \in Ref PROVE /\ Asked(ref) \in Work /\ Asked(ref).ref = ref
                                   /\ Asked(ref).ways = WaysIn(tag, blob, record, ref)
  BY Requests DEF Asked
<1>3. CASE Return(h)
  BY <1>3, GoesOn DEF Return
<1>4. CASE \E ref \in Ref : GetTag(h, ref)
  <2> PICK ref \in Ref : GetTag(h, ref)
    BY <1>4
  <2>1. ref.by = "tag" /\ ref.of \in Tag
    BY DEF GetTag, Ref
  <2>2. CASE tag[ref.of] = None
    <3>1. WaysIn(tag, blob, record, ref) = {}
      BY <2>1, <2>2, ServeAssumption DEF WaysIn
    <3>2. Stands(tag, blob, record, Answered(Asked(ref), "unknown"))
      BY <1>2, <3>1, AnswerStands DEF Answer
    <3> QED BY <2>2, <3>2, GoesOn DEF GetTag
  <2>3. CASE tag[ref.of] # None
    <3>1. tag[ref.of] \in Manifest
      BY <2>1, <2>3 DEF TypeOK
    <3>2. Stands(tag, blob, record, Found(Asked(ref), tag[ref.of]))
      BY <1>2, <3>1, FoundStands
    <3> QED BY <2>3, <3>2, GoesOn DEF GetTag
  <2> QED BY <2>2, <2>3
<1>5. CASE \E ref \in Ref : ListTags(h, ref)
  <2> PICK ref \in Ref : ListTags(h, ref)
    BY <1>5
  <2> DEFINE n == [Asked(ref) EXCEPT !.todo = {t \in Tag : tag[t] # None}]
  <2>1. /\ n.step = "look" /\ n.ref = ref /\ n.todo = {t \in Tag : tag[t] # None}
        /\ n.ways = WaysIn(tag, blob, record, ref)
    BY DEF Asked
  <2>2. ref.by = "digest" /\ Goes(h, n)
    BY DEF ListTags
  <2>3. \A w \in WaysIn(tag, blob, record, ref) : w[1] \in Tag /\ tag[w[1]] # None
    BY ServeAssumption DEF WaysIn
  <2> HIDE DEF n
  <2>4. Stands(tag, blob, record, n)
    BY <2>1, <2>2, <2>3 DEF Stands
  <2> QED BY <2>2, <2>4, GoesOn
<1>6. CASE \E ref \in Ref : FirstFails(h, ref)
  <2> PICK ref \in Ref : FirstFails(h, ref)
    BY <1>6
  <2>1. Stands(tag, blob, record, Answered(Asked(ref), "error"))
    BY <1>2, AnswerStands DEF Answer
  <2> QED BY <2>1, GoesOn DEF FirstFails
<1>7. CASE \E t \in Tag : Look(h, t)
  <2> PICK t \in Tag : Look(h, t)
    BY <1>7
  <2> DEFINE m == tag[t]
             d == r.ref.of
  <2>1. /\ r \in Work /\ Stands(tag, blob, record, r) /\ r.step = "look" /\ r.ref.by = "digest"
        /\ d \in Manifest /\ d # None
    BY <1>1, ServeAssumption DEF Look, Busy, Stands, Work, Ref
  <2>2. CASE m = d
    <3>1. Stands(tag, blob, record, Found(r, m))
      BY <2>1, <2>2, FoundStands DEF Stands
    <3> QED BY <2>2, <3>1, GoesOn DEF Look, Finds
  <2>3. CASE m # d
    <3>1. \A w \in r.ways : w[1] \in r.todo \ {t} \/ (w[1] = t /\ w[2] = m /\ Lists(m, d) /\ m # None)
      BY <2>1, <2>3, ServeAssumption DEF Stands, WaysIn
    <3>2. CASE m # None /\ Lists(m, d)
      <4> DEFINE n == [r EXCEPT !.step = "child", !.todo = @ \ {t}]
      <4>1. n.step = "child" /\ n.ref = r.ref /\ n.ways = r.ways /\ n.todo = r.todo \ {t}
        BY <2>1 DEF Work
      <4>2. Goes(h, n)
        BY <2>3, <3>2 DEF Look
      <4> HIDE DEF n
      <4>3. Stands(tag, blob, record, n)
        BY <2>1, <2>3, <3>1, <4>1 DEF Stands
      <4> QED BY <4>2, <4>3, GoesOn
    <3>3. CASE ~(m # None /\ Lists(m, d))
      <4> DEFINE n == [r EXCEPT !.todo = @ \ {t}]
      <4>1. n.step = "look" /\ n.ref = r.ref /\ n.ways = r.ways /\ n.todo = r.todo \ {t}
        BY <2>1 DEF Work
      <4>2. Goes(h, n)
        BY <2>3, <3>3 DEF Look
      <4> HIDE DEF n
      <4>3. Stands(tag, blob, record, n)
        BY <2>1, <3>1, <3>3, <4>1 DEF Stands
      <4> QED BY <4>2, <4>3, GoesOn
    <3> QED BY <3>2, <3>3
  <2> QED BY <2>2, <2>3
<1>8. CASE ReadChild(h)
  <2> DEFINE d == r.ref.of
  <2>1. r \in Work /\ Stands(tag, blob, record, r) /\ r.step = "child" /\ r.ref.by = "digest"
    BY <1>1, <1>8 DEF ReadChild, Busy, Stands
  <2>2. CASE d \in blob
    <3>1. d \in Manifest
      BY <2>2 DEF TypeOK
    <3>2. Stands(tag, blob, record, Found(r, d))
      BY <2>1, <3>1, FoundStands DEF Stands
    <3> QED BY <1>8, <2>2, <3>2, GoesOn DEF ReadChild, Finds
  <2>3. CASE d \notin blob
    <3> DEFINE n == [r EXCEPT !.step = "look"]
    <3>1. n.step = "look" /\ n.ref = r.ref /\ n.ways = r.ways /\ n.todo = r.todo
      BY <2>1 DEF Work
    <3>2. Goes(h, n)
      BY <1>8, <2>3 DEF ReadChild
    <3> HIDE DEF n
    <3>3. Stands(tag, blob, record, n)
      BY <2>1, <2>3, <3>1 DEF Stands, WaysIn
    <3> QED BY <3>2, <3>3, GoesOn
  <2> QED BY <2>2, <2>3
<1>9. ASSUME NEW a \in Answer, Answers(h, a), r.step # "none",
             a = "unknown" => r.ways = {}, a = "denied" /\ r.ref.by = "tag" => r.ways = {}
      PROVE  AllStand'
  <2>1. Stands(tag, blob, record, Answered(r, a))
    BY <1>1, <1>9, AnswerStands DEF Stands
  <2> QED BY <1>9, <2>1, GoesOn DEF Answers
<1>10. CASE NotFound(h)
  <2>1. r.step = "look" /\ r.todo = {} /\ Answers(h, "unknown")
    BY <1>10 DEF NotFound, Busy
  <2>2. r.ways = {} /\ r.ref.by = "digest"
    BY <1>1, <2>1 DEF Stands
  <2> QED BY <1>9, <2>1, <2>2 DEF Answer
<1>11. CASE Policy(h)
  <2>1. r.step = "policy" /\ r \in Work /\ Stands(tag, blob, record, r)
    BY <1>1, <1>11 DEF Policy, Busy
  <2>2. CASE r.got \in verified \/ r.ref.by = "digest"
    BY <1>9, <1>11, <2>1, <2>2 DEF Policy, Answer
  <2>3. CASE ~(r.got \in verified \/ r.ref.by = "digest")
    <3> DEFINE n == [r EXCEPT !.step = "record"]
    <3>1. n.step = "record" /\ n.ref = r.ref /\ n.ways = r.ways /\ n.got = r.got
      BY <2>1 DEF Work
    <3>2. Goes(h, n)
      BY <1>11, <2>3 DEF Policy
    <3> HIDE DEF n
    <3>3. Stands(tag, blob, record, n)
      BY <2>1, <3>1 DEF Stands
    <3> QED BY <3>2, <3>3, GoesOn
  <2> QED BY <2>2, <2>3
<1>12. CASE ReadRecord(h)
  <2>1. r.step = "record" /\ r \in Work /\ Stands(tag, blob, record, r) /\ r.ref.by = "tag"
    BY <1>1, <1>12 DEF ReadRecord, Busy, Attested
  <2>2. CASE Proves(record[r.ref.of], r.got)
    BY <1>9, <1>12, <2>1, <2>2 DEF ReadRecord, Answer
  <2>3. CASE ~Proves(record[r.ref.of], r.got)
    <3>1. r.ways = {}
      BY <2>1, <2>3 DEF Stands, WaysIn
    <3> QED BY <1>9, <1>12, <2>1, <2>3, <3>1 DEF ReadRecord, Answer
  <2> QED BY <2>2, <2>3
<1>13. CASE StorageFails(h)
  BY <1>9, <1>13 DEF StorageFails, Busy, Answer
<1> QED BY <1>3, <1>4, <1>5, <1>6, <1>7, <1>8, <1>10, <1>11, <1>12, <1>13 DEF HandlerStep, Handle

\* A change of the bucket takes away the ways that are gone, and no more.
LEMMA ChangeStands ==
    ASSUME TypeOK, AllStand, Change
    PROVE  AllStand'
<1> SUFFICES ASSUME NEW h \in Handler, work'[h] # NoWork
             PROVE  Stands(tag', blob', record', work'[h])
  BY DEF AllStand
<1>1. work[h] # NoWork
  BY DEF Change
<1>2. work[h] \in Work /\ Stands(tag, blob, record, work[h])
  BY <1>1 DEF TypeOK, AllStand
<1> DEFINE r == work[h]
           n == work'[h]
<1>3. n = [r EXCEPT !.ways = @ \intersect WaysIn(tag', blob', record', r.ref)]
  BY <1>1 DEF Change
<1>4. /\ n.step = r.step /\ n.ref = r.ref /\ n.got = r.got /\ n.todo = r.todo /\ n.answer = r.answer
      /\ n.ways = r.ways \intersect WaysIn(tag', blob', record', r.ref)
  BY <1>2, <1>3 DEF Work
<1> HIDE DEF n
<1>5. Stands(tag', blob', record', n)
  BY <1>2, <1>4 DEF Stands
<1> QED BY <1>5 DEF n

\* A tag that holds the same signed manifest while a request runs is never
\* refused, and a digest that some tag leads to all that time is never
\* unknown, however many tags are pushed, deleted or collected meanwhile
\* (handleManifest, findManifestByDigest).
THEOREM StandingServed == Spec => []StandingIsServed
<1>1. Init => AllStand
  BY DEF Init, AllStand
<1>2. TypeOK /\ Attested /\ AllStand /\ [Next]_vars => AllStand'
  <2> SUFFICES ASSUME TypeOK, Attested, AllStand, [Next]_vars PROVE AllStand'
    OBVIOUS
  <2>1. CASE \E h \in Handler : Handle(h) \/ Return(h)
    BY <2>1, HandlerServes DEF HandlerStep
  <2>2. CASE Change
    BY <2>2, ChangeStands
  <2>3. CASE UNCHANGED <<bucket, work>>
    BY <2>3 DEF AllStand, bucket
  <2> QED BY <2>1, <2>2, <2>3 DEF Next, vars, Push, Delete, Collect, ForeignRecord, ReadManifest,
             SignStore, VerifyRecord, CommandEnds, Runs
<1>3. TypeOK /\ AllStand => StandingIsServed
  BY DEF AllStand, Stands, StandingIsServed, NoWork, TypeOK
<1> QED BY <1>1, <1>2, <1>3, ServeAttested, PTL DEF Spec
=============================================================================
