--------------------------- MODULE RegistryProofs ---------------------------
(***************************************************************************)
(* Registry for any number of pushes, collections, tags and objects, and   *)
(* any limits: types are preserved, and where a push and the mark phase of *)
(* a collection together take less than the grace period, a tag whose push *)
(* left every object young stays complete.                                 *)
(***************************************************************************)
EXTENDS Registry, TLAPS

LEMMA KeyFacts ==
    /\ \A m \in Manifest : KeysOf(m) \subseteq Key
    /\ \A d \in Digest : Obj("recipe", d) \in Key
  BY DataAssumption DEF KeysOf, Key, Blobs, Recipes, Indexes, Chunks, ChunkKeys

LEMMA OlderType == \A a \in 0..Grace : Older(a) \in 0..Grace
  BY TimeAssumption DEF Older

\* A record of either kind is told apart by its pc.
LEMMA PushFields ==
    ASSUME TypeOK, NEW p \in Pusher, Storing(p)
    PROVE  push[p] \in PushState \ {NoPush}
  BY DEF TypeOK, Storing, NoPush

LEMMA GcFields ==
    ASSUME TypeOK, NEW g \in Cleaner, gc[g].pc # "idle"
    PROVE  gc[g] \in GcState \ {NoGc}
  BY DEF TypeOK, NoGc

-----------------------------------------------------------------------------

LEMMA TypeInit == Init => TypeOK
  BY TimeAssumption DEF Init, TypeOK, PushState, GcState

LEMMA TypePush ==
    ASSUME TypeOK, NEW p \in Pusher, PushBegin(p) \/ PushStep(p) \/ PushFail(p)
    PROVE  TypeOK'
<1>1. CASE PushBegin(p)
  BY <1>1, TimeAssumption DEF PushBegin, TypeOK, PushState, Steps
<1>2. CASE PushFail(p)
  BY <1>2 DEF PushFail, TypeOK, PushState
<1>3. CASE Publish(p)
  <2>1. push[p] \in PushState \ {NoPush}
    BY <1>3, PushFields DEF Publish
  <2> QED BY <1>3, <2>1 DEF Publish, TypeOK, PushState, NoPush
<1>4. ASSUME NEW k \in Key, NEW s \in Steps, Storing(p), Worker(p, k, s)
      PROVE  push' \in [Pusher -> PushState]
  <2>1. push[p] \in PushState \ {NoPush}
    BY <1>4, PushFields
  <2> QED BY <1>4, <2>1 DEF Worker, TypeOK, PushState, NoPush
<1>5. ASSUME NEW k \in Key, NEW b \in BOOLEAN, Storing(p),
             push' = [push EXCEPT ![p].step[k] = "done", ![p].fresh = b]
      PROVE  push' \in [Pusher -> PushState]
  <2>1. push[p] \in PushState \ {NoPush}
    BY <1>5, PushFields
  <2> QED BY <1>5, <2>1 DEF TypeOK, PushState, NoPush, Steps
<1>6. ASSUME NEW k \in Key, NEW a, Storing(p), Finish(p, k, a)
      PROVE  push' \in [Pusher -> PushState]
  <2>1. push[p] \in PushState \ {NoPush}
    BY <1>6, PushFields
  <2>2. (push[p].fresh /\ Young(p, k, a)) \in BOOLEAN
    OBVIOUS
  <2> QED BY <1>6, <2>1, <2>2 DEF Finish, TypeOK, PushState, NoPush, Steps
<1>7. ASSUME NEW k \in Key, Storing(p), Write(p, k)
      PROVE  TypeOK'
  <2>1. push' \in [Pusher -> PushState]
    BY <1>6, <1>7 DEF Write
  <2> QED BY <1>7, <2>1, TimeAssumption DEF Write, TypeOK
<1>8. ASSUME NEW k \in Key,
             \/ HeadBlob(p, k) \/ TouchBlob(p, k) \/ TouchFails(p, k)
             \/ HeadChunk(p, k) \/ Upload(p, k)
             \/ WriteIndex(p, k) \/ WriteRecipe(p, k)
      PROVE  TypeOK'
  <2>1. CASE HeadBlob(p, k)
    BY <1>4, <1>6, <2>1 DEF HeadBlob, TypeOK, Steps
  <2>2. CASE TouchBlob(p, k)
    BY <1>6, <2>2, TimeAssumption DEF TouchBlob, TypeOK
  <2>3. CASE TouchFails(p, k)
    BY <1>5, <2>3 DEF TouchFails, TypeOK
  <2>4. CASE HeadChunk(p, k)
    BY <1>4, <1>6, <2>4 DEF HeadChunk, TypeOK, Steps
  <2>5. CASE Upload(p, k) \/ WriteIndex(p, k) \/ WriteRecipe(p, k)
    BY <1>7, <2>5 DEF Upload, WriteIndex, WriteRecipe
  <2> QED BY <1>8, <2>1, <2>2, <2>3, <2>4, <2>5
<1> QED BY <1>1, <1>2, <1>3, <1>8 DEF PushStep

LEMMA TypeGc ==
    ASSUME TypeOK, NEW g \in Cleaner, GcStep(g) \/ GcFail(g)
    PROVE  TypeOK'
<1>0. ASSUME UNCHANGED <<tag, fresh, push>>, stored' \subseteq Key,
             age' \in [Key -> 0..Grace], NEW r \in GcState, gc' = [gc EXCEPT ![g] = r]
      PROVE  TypeOK'
  BY <1>0 DEF TypeOK
<1>1. CASE GcBegin(g)
  <2> DEFINE r == [pc |-> "tags", tags |-> {t \in Tag : tag[t] # None}, walk |-> {},
                   marked |-> {}, cand |-> {}, seen |-> [k \in Key |-> 0], read |-> {}, elapsed |-> 0]
  <2>1. r \in GcState
    BY TimeAssumption DEF GcState
  <2> QED BY <1>0, <1>1, <2>1 DEF GcBegin, TypeOK
<1>2. CASE GcFail(g) \/ GcEnd(g)
  BY <1>0, <1>2 DEF GcFail, GcEnd, TypeOK, GcState
<1>3. ASSUME NEW t \in Tag, GcReadTag(g, t)
      PROVE  TypeOK'
  <2> DEFINE r == [gc[g] EXCEPT !.tags = @ \ {t},
                                !.walk = @ \union ({t} \X ChildrenOf[tag[t]]),
                                !.marked = @ \union RefsOf(tag[t])]
  <2>1. gc[g] \in GcState \ {NoGc}
    BY <1>3, GcFields DEF GcReadTag
  <2>2. tag[t] # None => RefsOf(tag[t]) \subseteq Digest /\ ChildrenOf[tag[t]] \subseteq Digest
    BY DataAssumption DEF TypeOK, RefsOf
  <2>3. tag[t] # None => r \in GcState
    BY <2>1, <2>2 DEF GcState, NoGc
  <2>4. gc' = [gc EXCEPT ![g] = NoGc] \/ (tag[t] # None /\ gc' = [gc EXCEPT ![g] = r])
    BY <1>3 DEF GcReadTag
  <2> QED BY <1>0, <1>3, <2>3, <2>4 DEF GcReadTag, TypeOK, GcState
<1>4. ASSUME NEW from, NEW kind \in {"blob", "recipe", "chunk", "index"}, NEW keys,
             from # "idle", GcList(g, from, kind, keys)
      PROVE  TypeOK'
  <2> DEFINE s == [k \in Key |-> IF k \in stored \intersect keys THEN age[k]
                                 ELSE gc[g].seen[k]]
             c == gc[g].cand \union (stored \intersect keys)
             r == [gc[g] EXCEPT !.pc = kind, !.cand = c, !.seen = s]
  <2>1. gc[g] \in GcState \ {NoGc}
    BY <1>4, GcFields DEF GcList
  <2>2. s \in [Key -> 0..Grace]
    BY <2>1 DEF TypeOK, GcState
  <2>3. c \subseteq Key
    BY <2>1 DEF TypeOK, GcState
  <2>4. r \in GcState
    <3> HIDE DEF s, c
    <3> QED BY <2>1, <2>2, <2>3 DEF GcState, NoGc
  <2>5. gc' = [gc EXCEPT ![g] = r]
    BY <1>4 DEF GcList
  <2> QED BY <1>0, <1>4, <2>4, <2>5 DEF GcList, TypeOK
<1>5. ASSUME NEW d \in Digest, GcReadRecipe(g, d)
      PROVE  TypeOK'
  <2>1. gc[g] \in GcState \ {NoGc}
    BY <1>5, GcFields DEF GcReadRecipe
  <2> QED BY <1>5, <2>1 DEF GcReadRecipe, TypeOK, GcState, NoGc
<1>6. CASE GcSweep(g)
  <2> DEFINE s == [k \in Key |-> IF k \in Doomed(g) THEN gc[g].seen[k] ELSE 0]
             r == [pc |-> "delete", tags |-> {}, walk |-> {}, marked |-> {}, cand |-> Doomed(g),
                   seen |-> s, read |-> {}, elapsed |-> 0]
  <2>1. gc[g] \in GcState \ {NoGc}
    BY <1>6, GcFields DEF GcSweep
  <2>2. s \in [Key -> 0..Grace]
    BY <2>1, TimeAssumption DEF GcState
  <2>3. Doomed(g) \subseteq Key
    BY <2>1 DEF Doomed, GcState
  <2>4. r \in GcState
    <3> HIDE DEF s
    <3> QED BY <2>2, <2>3, TimeAssumption DEF GcState
  <2> QED BY <1>0, <1>6, <2>4 DEF GcSweep, TypeOK
<1>7. ASSUME NEW k \in Key, GcDelete(g, k)
      PROVE  TypeOK'
  <2> DEFINE c == gc[g].cand \ {k}
             s == [gc[g].seen EXCEPT ![k] = 0]
             r == [gc[g] EXCEPT !.cand = c, !.seen = s]
  <2>1. gc[g] \in GcState \ {NoGc}
    BY <1>7, GcFields DEF GcDelete
  <2>2. s \in [Key -> 0..Grace] /\ c \subseteq Key
    BY <2>1, TimeAssumption DEF GcState
  <2>3. r \in GcState
    <3> HIDE DEF s, c
    <3> QED BY <2>1, <2>2 DEF GcState, NoGc
  <2>4. gc' = [gc EXCEPT ![g] = r]
    BY <1>7 DEF GcDelete
  <2> QED BY <1>0, <1>7, <2>3, <2>4, TimeAssumption DEF GcDelete, TypeOK
<1>8. ASSUME NEW t \in Tag, NEW d \in Digest, GcReadChild(g, t, d)
      PROVE  TypeOK'
  <2> DEFINE r == [gc[g] EXCEPT !.walk = @ \ {<<t, d>>}]
  <2>1. gc[g] \in GcState \ {NoGc}
    BY <1>8, GcFields DEF GcReadChild
  <2>2. r \in GcState
    BY <2>1 DEF GcState, NoGc
  <2>3. gc' = [gc EXCEPT ![g] = NoGc] \/ gc' = [gc EXCEPT ![g] = r]
    BY <1>8 DEF GcReadChild
  <2> QED BY <1>0, <1>8, <2>2, <2>3 DEF GcReadChild, TypeOK, GcState
<1> QED BY <1>1, <1>2, <1>3, <1>4, <1>5, <1>6, <1>7, <1>8
        DEF GcStep, GcListBlobs, GcListRecipes, GcListChunks, GcListIndexes

LEMMA TypeTick == TypeOK /\ Tick => TypeOK'
<1> SUFFICES ASSUME TypeOK, Tick PROVE TypeOK'
  OBVIOUS
<1>1. age' \in [Key -> 0..Grace]
  <2>1. \A k \in Key : Older(age[k]) \in 0..Grace /\ 0 \in 0..Grace
    BY OlderType, TimeAssumption DEF TypeOK
  <2>2. age' = [k \in Key |-> IF k \in stored THEN Older(age[k]) ELSE 0]
    BY DEF Tick
  <2> QED BY <2>1, <2>2
<1>2. ASSUME NEW p \in Pusher PROVE push'[p] \in PushState
  <2>1. CASE Storing(p)
    <3>1. push[p] \in PushState \ {NoPush}
      BY <2>1, PushFields
    <3>2. push[p].elapsed + 1 \in 0..PushLimit
      <4>1. push[p].elapsed < PushLimit
        BY <2>1 DEF Tick
      <4>2. push[p].elapsed \in 0..PushLimit
        BY <3>1 DEF PushState
      <4> QED BY <4>1, <4>2, TimeAssumption
    <3> QED BY <2>1, <3>1, <3>2 DEF Tick, PushState, NoPush
  <2>2. CASE ~Storing(p)
    BY <2>2 DEF Tick, TypeOK
  <2> QED BY <2>1, <2>2
<1>3. ASSUME NEW g \in Cleaner PROVE gc'[g] \in GcState
  <2>1. CASE Marking(g)
    <3>1. gc[g] \in GcState \ {NoGc}
      BY <2>1, GcFields DEF Marking
    <3>2. gc[g].elapsed + 1 \in 0..GcLimit
      <4>1. gc[g].elapsed < GcLimit
        BY <2>1 DEF Tick
      <4>2. gc[g].elapsed \in 0..GcLimit
        BY <3>1 DEF GcState
      <4> QED BY <4>1, <4>2, TimeAssumption
    <3>3. [k \in Key |-> IF k \in gc[g].cand THEN Older(gc[g].seen[k]) ELSE 0]
              \in [Key -> 0..Grace]
      BY <3>1, OlderType, TimeAssumption DEF GcState
    <3> QED BY <2>1, <3>1, <3>2, <3>3 DEF Tick, GcState, NoGc
  <2>2. CASE ~Marking(g)
    BY <2>2 DEF Tick, TypeOK
  <2> QED BY <2>1, <2>2
<1>4. push' \in [Pusher -> PushState] /\ gc' \in [Cleaner -> GcState]
  BY <1>2, <1>3 DEF Tick
<1> QED BY <1>1, <1>4 DEF Tick, TypeOK

LEMMA TypeNext == TypeOK /\ [Next]_vars => TypeOK'
<1> SUFFICES ASSUME TypeOK, [Next]_vars PROVE TypeOK'
  OBVIOUS
<1>1. ASSUME NEW t \in Tag, DeleteTag(t) PROVE TypeOK'
  BY <1>1 DEF DeleteTag, TypeOK
<1>2. CASE UNCHANGED vars
  BY <1>2 DEF vars, TypeOK
<1> QED BY <1>1, <1>2, TypePush, TypeGc, TypeTick DEF Next

\* The objects, tags, pushes and collections keep the shape the code gives
\* them, with ages and elapsed times inside their bounds.
THEOREM TypeCorrect == Spec => []TypeOK
<1>1. Init => TypeOK
  BY TypeInit
<1>2. TypeOK /\ [Next]_vars => TypeOK'
  BY TypeNext
<1> QED BY <1>1, <1>2, PTL DEF Spec

-----------------------------------------------------------------------------

LEMMA InvInit == Init => Inv
  BY DEF Init, Inv, PushInv, SweepInv, TagInv, Storing, Marking, NoPush, NoGc

\* A step of one object's worker only ever makes objects younger.
LEMMA WorkerKeepsInv ==
    ASSUME TypeOK, TypeOK', Inv, NEW p \in Pusher, NEW k \in Key,
           UNCHANGED <<tag, fresh, gc>>, stored \subseteq stored',
           \A j \in Key : age'[j] <= age[j],
           \A q \in Pusher : q # p => push'[q] = push[q],
           push[p].pc = "storing", push'[p].pc = "storing",
           push'[p].elapsed = push[p].elapsed,
           push'[p].fresh => push[p].fresh,
           \A j \in Key : j # k => push'[p].step[j] = push[p].step[j],
           push'[p].fresh /\ push'[p].step[k] = "done"
               => k \in stored' /\ Young(p, k, age'[k])
    PROVE  Inv'
<1>1. \A j \in Key : age[j] \in Int /\ age'[j] \in Int
  BY TimeAssumption DEF TypeOK
<1>2. \A q \in Pusher : Storing(q) => push[q].elapsed \in Int
  BY PushFields, TimeAssumption DEF PushState
<1>3. ASSUME NEW q \in Pusher, Storing(q), NEW j \in Key, Young(q, j, age[j]),
             push'[q].elapsed = push[q].elapsed
      PROVE  Young(q, j, age[j])'
  BY <1>1, <1>2, <1>3 DEF Young
<1>4. ASSUME NEW q \in Pusher, Storing(q)', push'[q].fresh, NEW j \in Key,
             push'[q].step[j] = "done"
      PROVE  j \in stored' /\ Young(q, j, age[j])'
  <2>1. CASE q = p /\ j = k
    BY <1>4, <2>1 DEF Young
  <2>2. CASE q # p \/ j # k
    <3>1. /\ Storing(q) /\ push[q].fresh /\ push[q].step[j] = "done"
          /\ push'[q].elapsed = push[q].elapsed
      BY <1>4, <2>2 DEF Storing
    <3>2. j \in stored /\ Young(q, j, age[j])
      BY <3>1 DEF Inv, PushInv
    <3> QED BY <1>3, <3>1, <3>2
  <2> QED BY <2>1, <2>2
<1>5. PushInv'
  BY <1>4 DEF PushInv
<1>6. SweepInv'
  BY DEF Inv, SweepInv, Marking
<1>7. TagInv'
  <2> SUFFICES ASSUME NEW t \in Tag, tag[t] # None, fresh[t]
               PROVE  /\ Complete(t)'
                      /\ \A g \in Cleaner : gc[g].pc # "idle" => SafeFrom(g, t, tag[t])'
    BY DEF TagInv
  <2>1. /\ Complete(t)
        /\ \A g \in Cleaner : gc[g].pc # "idle" => SafeFrom(g, t, tag[t])
    BY DEF Inv, TagInv
  <2>2. KeysOf(tag[t]) \subseteq Key
    BY KeyFacts DEF TypeOK
  <2>3. ASSUME NEW g \in Cleaner, gc[g].pc # "idle", YoungFor(g, tag[t])
        PROVE  YoungFor(g, tag[t])'
    <3>1. gc[g].elapsed \in Int
      BY <2>3, GcFields, TimeAssumption DEF GcState
    <3> QED BY <1>1, <2>2, <2>3, <3>1, TimeAssumption DEF YoungFor
  <2>4. ASSUME NEW g \in Cleaner, gc[g].pc # "idle"
        PROVE  SafeFrom(g, t, tag[t])'
    BY <2>1, <2>3, <2>4 DEF SafeFrom, MarkedBy
  <2> QED BY <2>1, <2>4 DEF Complete
<1> QED BY <1>5, <1>6, <1>7 DEF Inv

LEMMA InvWorker ==
    ASSUME TypeOK, TypeOK', Inv, NEW p \in Pusher, NEW k \in Key,
           \/ HeadBlob(p, k) \/ TouchBlob(p, k) \/ TouchFails(p, k)
           \/ HeadChunk(p, k) \/ Upload(p, k)
           \/ WriteIndex(p, k) \/ WriteRecipe(p, k)
    PROVE  Inv'
<1>1. Storing(p)
  BY DEF HeadBlob, TouchBlob, TouchFails, HeadChunk, Upload, WriteIndex, WriteRecipe
<1>2. push[p] \in PushState \ {NoPush} /\ push[p].pc = "storing"
  BY <1>1, PushFields DEF Storing
<1>3. push[p].step \in [Key -> Steps] /\ push[p].fresh \in BOOLEAN
  BY <1>2 DEF PushState
<1>4. \A j \in Key : age[j] \in Nat
  BY TimeAssumption DEF TypeOK
<1>5. ASSUME NEW s \in {"hit", "miss"}, Worker(p, k, s), UNCHANGED <<stored, age, tag, fresh, gc>>
      PROVE  Inv'
  <2>1. push'[p].step[k] # "done" /\ push'[p].fresh = push[p].fresh
    BY <1>2, <1>3, <1>5 DEF Worker, TypeOK, PushState
  <2>2. /\ push'[p].pc = "storing" /\ push'[p].elapsed = push[p].elapsed
        /\ \A j \in Key : j # k => push'[p].step[j] = push[p].step[j]
        /\ \A q \in Pusher : q # p => push'[q] = push[q]
    BY <1>2, <1>3, <1>5 DEF Worker, TypeOK, PushState
  <2> QED BY <1>2, <1>4, <1>5, <2>1, <2>2, WorkerKeepsInv
<1>6. ASSUME NEW b \in BOOLEAN, UNCHANGED <<tag, fresh, gc>>,
             push' = [push EXCEPT ![p].step[k] = "done", ![p].fresh = b],
             stored \subseteq stored', \A j \in Key : age'[j] <= age[j],
             b => push[p].fresh /\ k \in stored' /\ Young(p, k, age'[k])
      PROVE  Inv'
  <2>1. /\ push'[p].pc = "storing" /\ push'[p].elapsed = push[p].elapsed
        /\ push'[p].fresh = b
        /\ \A j \in Key : j # k => push'[p].step[j] = push[p].step[j]
        /\ \A q \in Pusher : q # p => push'[q] = push[q]
    BY <1>2, <1>3, <1>6 DEF TypeOK, PushState
  <2>2. /\ push'[p].fresh => push[p].fresh
        /\ push'[p].fresh /\ push'[p].step[k] = "done" => k \in stored' /\ Young(p, k, age'[k])
    BY <1>6, <2>1
  <2> QED BY <1>2, <1>6, <2>1, <2>2, WorkerKeepsInv
<1>7. ASSUME NEW a, Finish(p, k, a), UNCHANGED <<tag, fresh, gc>>, a = age'[k],
             stored \subseteq stored', k \in stored', \A j \in Key : age'[j] <= age[j]
      PROVE  Inv'
  <2> DEFINE b == push[p].fresh /\ Young(p, k, a)
  <2>1. b \in BOOLEAN /\ (b => push[p].fresh /\ k \in stored' /\ Young(p, k, age'[k]))
    BY <1>7
  <2>2. push' = [push EXCEPT ![p].step[k] = "done", ![p].fresh = b]
    BY <1>7 DEF Finish
  <2> HIDE DEF b
  <2> QED BY <1>6, <1>7, <2>1, <2>2
<1>8. ASSUME age' = [age EXCEPT ![k] = 0]
      PROVE  age'[k] = 0 /\ \A j \in Key : age'[j] <= age[j]
  BY <1>4, <1>8 DEF TypeOK
<1>9. CASE HeadBlob(p, k)
  <2>1. CASE k \in stored /\ push[p].copies
    BY <1>4, <1>7, <1>9, <2>1 DEF HeadBlob
  <2>2. CASE k \notin stored \/ ~push[p].copies
    BY <1>5, <1>9, <2>2 DEF HeadBlob
  <2> QED BY <2>1, <2>2
<1>10. CASE TouchBlob(p, k)
  BY <1>7, <1>8, <1>10 DEF TouchBlob
<1>11. CASE TouchFails(p, k)
  <2>1. \A j \in Key : age'[j] <= age[j]
    BY <1>4, <1>11 DEF TouchFails
  <2>2. /\ push' = [push EXCEPT ![p].step[k] = "done", ![p].fresh = FALSE]
        /\ UNCHANGED <<tag, fresh, gc>> /\ stored \subseteq stored'
    BY <1>11 DEF TouchFails
  <2> QED BY <1>6, <2>1, <2>2
<1>12. CASE HeadChunk(p, k)
  <2>1. CASE k \in stored
    BY <1>4, <1>7, <1>12, <2>1 DEF HeadChunk
  <2>2. CASE k \notin stored
    BY <1>5, <1>12, <2>2 DEF HeadChunk
  <2> QED BY <2>1, <2>2
<1>13. ASSUME Write(p, k) PROVE Inv'
  BY <1>7, <1>8, <1>13 DEF Write
<1> QED BY <1>9, <1>10, <1>11, <1>12, <1>13 DEF Upload, WriteIndex, WriteRecipe

\* A push begins, fails or publishes: no object and no collection changes.
LEMMA InvPush ==
    ASSUME GraceCovers, TypeOK, TypeOK', Inv, NEW p \in Pusher,
           PushBegin(p) \/ PushStep(p) \/ PushFail(p)
    PROVE  Inv'
<1>1. ASSUME UNCHANGED <<stored, age, gc>>, \A q \in Pusher : q # p => push'[q] = push[q],
             push'[p].pc = "storing" => \A k \in Key : push'[p].step[k] # "done"
      PROVE  PushInv' /\ SweepInv'
  BY <1>1 DEF Inv, PushInv, SweepInv, Storing, Young, Marking
<1>2. ASSUME UNCHANGED <<stored, age, tag, fresh, gc>> PROVE TagInv'
  BY <1>2 DEF Inv, TagInv, Complete, SafeFrom, MarkedBy, YoungFor
<1>3. CASE PushBegin(p)
  <2>1. push'[p].pc = "storing" => \A k \in Key : push'[p].step[k] # "done"
    BY <1>3 DEF PushBegin, TypeOK
  <2>2. \A q \in Pusher : q # p => push'[q] = push[q]
    BY <1>3 DEF PushBegin, TypeOK
  <2>3. UNCHANGED <<stored, age, tag, fresh, gc>>
    BY <1>3 DEF PushBegin
  <2> QED BY <1>1, <1>2, <2>1, <2>2, <2>3 DEF Inv
<1>4. CASE PushFail(p)
  BY <1>1, <1>2, <1>4 DEF PushFail, TypeOK, NoPush, Inv
<1>5. CASE Publish(p)
  <2> DEFINE u == push[p].tag
             m == push[p].image
  <2>1. push[p] \in PushState \ {NoPush}
    BY <1>5, PushFields DEF Publish
  <2>2. u \in Tag /\ m \in Manifest /\ push[p].elapsed \in 0..PushLimit
    BY <2>1 DEF PushState
  <2>3. PushInv' /\ SweepInv'
    BY <1>1, <1>5 DEF Publish, TypeOK, NoPush
  <2>4. KeysOf(m) \subseteq Key
    BY <2>2, KeyFacts
  <2>5. push[p].fresh => \A k \in KeysOf(m) : k \in stored /\ Young(p, k, age[k])
    BY <1>5, <2>4 DEF Publish, Inv, PushInv
  <2>6. ASSUME push[p].fresh, NEW g \in Cleaner, gc[g].pc # "idle"
        PROVE  SafeFrom(g, u, m)
    <3>1. gc[g] \in GcState \ {NoGc}
      BY <2>6, GcFields
    <3>2. gc[g].elapsed \in Nat /\ \A k \in Key : gc[g].seen[k] \in Nat
      BY <3>1, TimeAssumption DEF GcState
    <3>3. \A k \in KeysOf(m) : k \in gc[g].cand => gc[g].seen[k] <= push[p].elapsed
      BY <2>5, <2>6 DEF Young
    <3>4. \A k \in KeysOf(m) : age[k] <= push[p].elapsed /\ age[k] \in Nat
      BY <2>4, <2>5, <2>6, TimeAssumption DEF Young, TypeOK
    <3>5. CASE gc[g].pc = "delete"
      <4>1. \A k \in gc[g].cand : gc[g].seen[k] >= Grace
        BY <3>5 DEF Inv, SweepInv
      <4>2. PushLimit < Grace
        BY TimeAssumption DEF GraceCovers
      <4> QED BY <2>2, <2>4, <3>2, <3>3, <3>5, <4>1, <4>2, TimeAssumption DEF SafeFrom
    <3>6. CASE gc[g].pc # "delete"
      <4>1. YoungFor(g, m)
        BY <2>2, <2>4, <3>2, <3>3, <3>4, TimeAssumption DEF YoungFor
      <4> QED BY <3>6, <4>1 DEF SafeFrom
    <3> QED BY <3>5, <3>6
  <2>7. tag' = [tag EXCEPT ![u] = m] /\ fresh' = [fresh EXCEPT ![u] = push[p].fresh]
        /\ UNCHANGED <<stored, age, gc>>
    BY <1>5 DEF Publish
  <2>8. ASSUME NEW t \in Tag, tag'[t] # None, fresh'[t]
        PROVE  /\ Complete(t)'
               /\ \A g \in Cleaner : gc[g].pc # "idle" => SafeFrom(g, t, tag'[t])
    <3> HIDE DEF u, m
    <3>1. CASE t = u
      <4>1. tag'[t] = m /\ push[p].fresh
        BY <2>7, <2>8, <3>1 DEF TypeOK
      <4> QED BY <2>5, <2>6, <2>7, <3>1, <4>1 DEF Complete
    <3>2. CASE t # u
      <4>1. tag'[t] = tag[t] /\ fresh'[t] = fresh[t]
        BY <2>7, <3>2 DEF TypeOK
      <4> QED BY <2>7, <2>8, <4>1 DEF Complete, Inv, TagInv
    <3> QED BY <3>1, <3>2
  <2>9. ASSUME NEW t \in Tag, NEW g \in Cleaner, SafeFrom(g, t, tag'[t])
        PROVE  SafeFrom(g, t, tag[t])'
    BY <2>7, <2>9 DEF SafeFrom, MarkedBy, YoungFor
  <2>10. TagInv'
    BY <2>7, <2>8, <2>9 DEF TagInv
  <2> QED BY <2>3, <2>10 DEF Inv
<1> QED BY <1>3, <1>4, <1>5, InvWorker DEF PushStep

LEMMA InvDelete ==
    ASSUME TypeOK, Inv, NEW t \in Tag, DeleteTag(t)
    PROVE  Inv'
<1>1. PushInv' /\ SweepInv'
  BY DEF DeleteTag, Inv, PushInv, SweepInv, Storing, Young, Marking
<1>2. ASSUME NEW u \in Tag, tag'[u] # None, fresh'[u]
      PROVE  u # t /\ tag'[u] = tag[u] /\ fresh'[u] = fresh[u]
  BY <1>2 DEF DeleteTag, TypeOK
<1>3. TagInv'
  BY <1>2 DEF DeleteTag, Inv, TagInv, Complete, SafeFrom, MarkedBy, YoungFor
<1> QED BY <1>1, <1>3 DEF Inv

-----------------------------------------------------------------------------

\* A collection that deletes nothing in this step keeps Inv if what it newly
\* lists is listed with its current age and it stays safe for the fresh tags.
LEMMA GcKeepsInv ==
    ASSUME TypeOK, TypeOK', Inv, NEW g \in Cleaner,
           UNCHANGED <<stored, age, tag, fresh, push>>,
           \A h \in Cleaner : h # g => gc'[h] = gc[h],
           gc'[g].pc # "idle" => \A k \in gc'[g].cand :
               \/ gc[g].pc # "idle" /\ k \in gc[g].cand /\ gc'[g].seen[k] = gc[g].seen[k]
               \/ gc'[g].seen[k] = age[k],
           gc'[g].pc = "delete" => \A k \in gc'[g].cand : gc'[g].seen[k] >= Grace,
           gc'[g].pc \notin {"idle", "delete", "tags"} => gc'[g].tags = {},
           gc'[g].pc # "idle" =>
               \A t \in Tag : tag[t] # None /\ fresh[t] => SafeFrom(g, t, tag[t])'
    PROVE  Inv'
<1>1. ASSUME NEW p \in Pusher, NEW k \in Key, Young(p, k, age[k])
      PROVE  Young(p, k, age[k])'
  BY <1>1 DEF Young
<1>2. PushInv'
  BY <1>1 DEF Inv, PushInv, Storing
<1>3. SweepInv'
  BY DEF Inv, SweepInv, Marking
<1>4. ASSUME NEW t \in Tag, NEW h \in Cleaner, h # g, SafeFrom(h, t, tag[t])
      PROVE  SafeFrom(h, t, tag[t])'
  BY <1>4 DEF SafeFrom, MarkedBy, YoungFor
<1>5. TagInv'
  BY <1>4 DEF Inv, TagInv, Complete
<1> QED BY <1>2, <1>3, <1>5 DEF Inv

\* A collection begins: every tag is still to be read.
LEMMA InvGcBegin ==
    ASSUME TypeOK, TypeOK', Inv, NEW g \in Cleaner, GcBegin(g)
    PROVE  Inv'
<1>1. /\ gc'[g].pc = "tags" /\ gc'[g].cand = {}
      /\ gc'[g].tags = {t \in Tag : tag[t] # None}
  BY DEF GcBegin, TypeOK
<1>2. \A h \in Cleaner : h # g => gc'[h] = gc[h]
  BY DEF GcBegin, TypeOK
<1>3. \A t \in Tag : tag[t] # None => SafeFrom(g, t, tag[t])'
  BY <1>1 DEF GcBegin, SafeFrom
<1> QED BY <1>1, <1>2, <1>3, GcKeepsInv DEF GcBegin

\* Reading a tag's manifest marks what it references.
LEMMA InvGcReadTag ==
    ASSUME TypeOK, TypeOK', Inv, NEW g \in Cleaner, NEW u \in Tag, GcReadTag(g, u)
    PROVE  Inv'
<1>1. gc[g] \in GcState \ {NoGc} /\ gc[g].pc = "tags"
  BY GcFields DEF GcReadTag
<1>2. UNCHANGED <<stored, age, tag, fresh, push>>
  BY DEF GcReadTag
<1>3. CASE tag[u] = None
  BY <1>2, <1>3, GcKeepsInv DEF GcReadTag, TypeOK, NoGc
<1>4. CASE tag[u] # None
  <2>1. gc' = [gc EXCEPT ![g] = [gc[g] EXCEPT !.tags = @ \ {u},
                                              !.walk = @ \union ({u} \X ChildrenOf[tag[u]]),
                                              !.marked = @ \union RefsOf(tag[u])]]
    BY <1>4 DEF GcReadTag
  <2>2. /\ gc'[g].pc = "tags" /\ gc'[g].tags = gc[g].tags \ {u}
        /\ gc'[g].marked = gc[g].marked \union RefsOf(tag[u])
        /\ gc'[g].cand = gc[g].cand /\ gc'[g].seen = gc[g].seen
        /\ gc'[g].elapsed = gc[g].elapsed
    BY <1>1, <2>1 DEF TypeOK, GcState
  <2>3. \A h \in Cleaner : h # g => gc'[h] = gc[h]
    BY <2>1 DEF TypeOK
  <2>4. ASSUME NEW t \in Tag, tag[t] # None, fresh[t]
        PROVE  SafeFrom(g, t, tag[t])'
    <3>1. t \in gc[g].tags \/ MarkedBy(g, tag[t]) \/ YoungFor(g, tag[t])
      BY <1>1, <2>4 DEF Inv, TagInv, SafeFrom
    <3>2. CASE t = u
      BY <1>2, <2>2, <3>2 DEF SafeFrom, MarkedBy
    <3>3. CASE t # u /\ t \in gc[g].tags
      BY <1>2, <2>2, <3>3 DEF SafeFrom
    <3>4. CASE MarkedBy(g, tag[t])
      BY <1>1, <1>2, <2>2, <3>4 DEF SafeFrom, MarkedBy
    <3>5. CASE YoungFor(g, tag[t])
      BY <1>2, <2>2, <3>5 DEF SafeFrom, YoungFor
    <3> QED BY <3>1, <3>2, <3>3, <3>4, <3>5
  <2> QED BY <1>1, <1>2, <2>2, <2>3, <2>4, GcKeepsInv
<1> QED BY <1>3, <1>4

\* Reading a child of an index changes nothing that safety rests on.
LEMMA InvGcReadChild ==
    ASSUME TypeOK, TypeOK', Inv, NEW g \in Cleaner, NEW u \in Tag, NEW d \in Digest,
           GcReadChild(g, u, d)
    PROVE  Inv'
<1>1. gc[g] \in GcState \ {NoGc} /\ gc[g].pc = "tags"
  BY GcFields DEF GcReadChild
<1>2. UNCHANGED <<stored, age, tag, fresh, push>>
  BY DEF GcReadChild
<1>3. CASE Obj("blob", d) \notin stored
  BY <1>2, <1>3, GcKeepsInv DEF GcReadChild, TypeOK, NoGc
<1>4. CASE Obj("blob", d) \in stored
  <2>1. gc' = [gc EXCEPT ![g] = [gc[g] EXCEPT !.walk = @ \ {<<u, d>>}]]
    BY <1>4 DEF GcReadChild
  <2>2. /\ gc'[g].pc = "tags" /\ gc'[g].tags = gc[g].tags
        /\ gc'[g].marked = gc[g].marked /\ gc'[g].cand = gc[g].cand
        /\ gc'[g].seen = gc[g].seen /\ gc'[g].elapsed = gc[g].elapsed
    BY <1>1, <2>1 DEF TypeOK, GcState
  <2>3. \A h \in Cleaner : h # g => gc'[h] = gc[h]
    BY <2>1 DEF TypeOK
  <2>4. ASSUME NEW t \in Tag, tag[t] # None, fresh[t]
        PROVE  SafeFrom(g, t, tag[t])'
    <3>1. SafeFrom(g, t, tag[t])
      BY <1>1, <2>4 DEF Inv, TagInv
    <3> QED BY <1>1, <1>2, <2>2, <3>1 DEF SafeFrom, MarkedBy, YoungFor
  <2> QED BY <1>1, <1>2, <2>2, <2>3, <2>4, GcKeepsInv
<1> QED BY <1>3, <1>4

\* A listing records the present age; a marked layer's recipe is still there
\* to be listed.
LEMMA InvGcList ==
    ASSUME TypeOK, TypeOK', Inv, NEW g \in Cleaner,
           GcListBlobs(g) \/ GcListRecipes(g) \/ GcListChunks(g) \/ GcListIndexes(g)
    PROVE  Inv'
<1>1. PICK from \in {"tags", "blob", "recipe", "chunk"},
           kind \in {"blob", "recipe", "chunk", "index"}, keys \in {Blobs, Recipes, Chunks, Indexes} :
         /\ GcList(g, from, kind, keys)
         /\ gc[g].tags = {}
         /\ kind \in {"recipe", "chunk", "index"} =>
              from \in {"recipe", "chunk", "index"} \/ keys = Recipes
  BY DEF GcListBlobs, GcListRecipes, GcListChunks, GcListIndexes, GcList, Inv, SweepInv, Marking
<1>2. gc[g] \in GcState \ {NoGc} /\ gc[g].pc = from
  BY <1>1, GcFields DEF GcList
<1>3. UNCHANGED <<stored, age, tag, fresh, push>>
  BY <1>1 DEF GcList
<1>4. /\ gc'[g].pc = kind /\ gc'[g].tags = gc[g].tags
      /\ gc'[g].marked = gc[g].marked /\ gc'[g].elapsed = gc[g].elapsed
      /\ gc'[g].cand = gc[g].cand \union (stored \intersect keys)
      /\ gc'[g].seen = [k \in Key |-> IF k \in stored \intersect keys THEN age[k]
                                      ELSE gc[g].seen[k]]
      /\ \A h \in Cleaner : h # g => gc'[h] = gc[h]
  BY <1>1, <1>2 DEF GcList, TypeOK, GcState
<1>5. \A k \in gc'[g].cand : \/ gc'[g].seen[k] = age[k]
                             \/ k \in gc[g].cand /\ gc'[g].seen[k] = gc[g].seen[k]
  BY <1>2, <1>4 DEF TypeOK, GcState
<1>6. ASSUME NEW t \in Tag, tag[t] # None, fresh[t]
      PROVE  SafeFrom(g, t, tag[t])'
  <2>1. MarkedBy(g, tag[t]) \/ YoungFor(g, tag[t])
    BY <1>1, <1>2, <1>6 DEF Inv, TagInv, SafeFrom
  <2>2. CASE MarkedBy(g, tag[t])
    <3>1. \A d \in LayersOf[tag[t]] : Obj("recipe", d) \in stored
      BY <1>6 DEF Inv, TagInv, Complete, KeysOf
    <3>2. \A d \in LayersOf[tag[t]] : Obj("recipe", d) \in Recipes
      BY <1>6, DataAssumption DEF TypeOK, Recipes
    <3>3. MarkedBy(g, tag[t])'
      BY <1>1, <1>2, <1>3, <1>4, <2>2, <3>1, <3>2 DEF MarkedBy
    <3> QED BY <1>4, <3>3 DEF SafeFrom
  <2>3. CASE YoungFor(g, tag[t])
    <3>1. YoungFor(g, tag[t])'
      BY <1>3, <1>4, <1>5, <2>3 DEF YoungFor
    <3> QED BY <1>4, <3>1 DEF SafeFrom
  <2> QED BY <2>1, <2>2, <2>3
<1> QED BY <1>1, <1>2, <1>3, <1>4, <1>5, <1>6, GcKeepsInv

LEMMA InvGcReadRecipe ==
    ASSUME TypeOK, TypeOK', Inv, NEW g \in Cleaner, NEW d \in Digest, GcReadRecipe(g, d)
    PROVE  Inv'
<1>1. gc[g] \in GcState \ {NoGc} /\ gc[g].pc = "index"
  BY GcFields DEF GcReadRecipe
<1>2. UNCHANGED <<stored, age, tag, fresh, push>>
  BY DEF GcReadRecipe
<1>3. CASE Obj("recipe", d) \notin stored
  BY <1>2, <1>3, GcKeepsInv DEF GcReadRecipe, TypeOK, NoGc
<1>4. CASE Obj("recipe", d) \in stored
  <2>1. gc' = [gc EXCEPT ![g].read = @ \union {d}]
    BY <1>4 DEF GcReadRecipe
  <2>2. /\ gc'[g].pc = "index" /\ gc'[g].tags = gc[g].tags
        /\ gc'[g].marked = gc[g].marked /\ gc'[g].cand = gc[g].cand
        /\ gc'[g].seen = gc[g].seen /\ gc'[g].elapsed = gc[g].elapsed
        /\ \A h \in Cleaner : h # g => gc'[h] = gc[h]
    BY <1>1, <2>1 DEF TypeOK, GcState
  <2>3. gc[g].tags = {}
    BY <1>1 DEF Inv, SweepInv, Marking
  <2>4. ASSUME NEW t \in Tag, tag[t] # None, fresh[t]
        PROVE  SafeFrom(g, t, tag[t])'
    <3>1. MarkedBy(g, tag[t]) \/ YoungFor(g, tag[t])
      BY <1>1, <2>3, <2>4 DEF Inv, TagInv, SafeFrom
    <3> QED BY <1>1, <1>2, <2>2, <3>1 DEF SafeFrom, MarkedBy, YoungFor
  <2> QED BY <1>1, <1>2, <2>2, <2>3, <2>4, GcKeepsInv
<1> QED BY <1>3, <1>4

\* The objects of a manifest the collection has marked are all referenced.
LEMMA MarkedIsReferenced ==
    ASSUME NEW g \in Cleaner, NEW m \in Manifest, gc[g].pc = "index",
           MarkedBy(g, m), Unread(g) = {}
    PROVE  KeysOf(m) \intersect Doomed(g) = {}
<1> SUFFICES ASSUME NEW k \in KeysOf(m) PROVE Referenced(g, k)
  BY DEF Doomed
<1>1. ASSUME NEW d \in LayersOf[m] PROVE d \in gc[g].read
  BY <1>1 DEF MarkedBy, RefsOf, Unread
<1>2. CASE \E d \in LayersOf[m] : k \in ChunkKeys(d)
  BY <1>1, <1>2, DataAssumption DEF ChunkKeys, Obj, Chunks, Referenced
<1>3. CASE \E d \in RefsOf(m) : k \in {Obj("blob", d), Obj("recipe", d), Obj("index", d)}
  BY <1>3 DEF Obj, Chunks, Referenced, MarkedBy
<1> QED BY <1>2, <1>3 DEF KeysOf, RefsOf

\* The sweep: what a fresh tag needs is referenced, or listed too young.
LEMMA InvGcSweep ==
    ASSUME GraceCovers, TypeOK, TypeOK', Inv, NEW g \in Cleaner, GcSweep(g)
    PROVE  Inv'
<1>1. gc[g] \in GcState \ {NoGc} /\ gc[g].pc = "index"
  BY GcFields DEF GcSweep
<1>2. UNCHANGED <<stored, age, tag, fresh, push>>
  BY DEF GcSweep
<1>3. /\ gc'[g].pc = "delete" /\ gc'[g].cand = Doomed(g)
      /\ gc'[g].seen = [k \in Key |-> IF k \in Doomed(g) THEN gc[g].seen[k] ELSE 0]
      /\ \A h \in Cleaner : h # g => gc'[h] = gc[h]
  BY DEF GcSweep, TypeOK
<1>4. Doomed(g) \subseteq gc[g].cand /\ Doomed(g) \subseteq Key
  BY <1>1 DEF Doomed, GcState
<1>5. \A k \in gc'[g].cand :
         k \in gc[g].cand /\ gc'[g].seen[k] = gc[g].seen[k] /\ gc'[g].seen[k] >= Grace
  BY <1>3, <1>4 DEF Doomed
<1>6. ASSUME NEW t \in Tag, tag[t] # None, fresh[t]
      PROVE  Doomed(g) \intersect KeysOf(tag[t]) = {}
  <2>1. MarkedBy(g, tag[t]) \/ YoungFor(g, tag[t])
    BY <1>1, <1>6 DEF Inv, TagInv, SweepInv, SafeFrom, Marking
  <2>2. tag[t] \in Manifest
    BY <1>6 DEF TypeOK
  <2>3. CASE MarkedBy(g, tag[t])
    BY <1>1, <2>2, <2>3, MarkedIsReferenced DEF GcSweep
  <2>4. CASE YoungFor(g, tag[t])
    <3>1. gc[g].elapsed \in 0..GcLimit /\ \A k \in Key : gc[g].seen[k] \in 0..Grace
      BY <1>1 DEF GcState
    <3>2. KeysOf(tag[t]) \subseteq Key
      BY <2>2, KeyFacts
    <3>3. ASSUME NEW k \in KeysOf(tag[t]), k \in Doomed(g) PROVE FALSE
      <4>1. gc[g].seen[k] >= Grace /\ gc[g].seen[k] <= PushLimit + gc[g].elapsed
        BY <2>4, <3>3 DEF Doomed, YoungFor
      <4> QED BY <3>1, <3>2, <4>1, TimeAssumption DEF GraceCovers
    <3> QED BY <3>3
  <2> QED BY <2>1, <2>3, <2>4
<1>7. \A t \in Tag : tag[t] # None /\ fresh[t] => SafeFrom(g, t, tag[t])'
  BY <1>2, <1>3, <1>6 DEF SafeFrom
<1> QED BY <1>1, <1>2, <1>3, <1>5, <1>7, GcKeepsInv

\* A deletion takes no object a fresh push or a fresh tag has.
LEMMA InvGcDelete ==
    ASSUME GraceCovers, TypeOK, TypeOK', Inv, NEW g \in Cleaner, NEW k \in Key, GcDelete(g, k)
    PROVE  Inv'
<1>1. gc[g] \in GcState \ {NoGc} /\ gc[g].pc = "delete" /\ k \in gc[g].cand
  BY GcFields DEF GcDelete
<1>2. /\ stored' = stored \ {k} /\ UNCHANGED <<tag, fresh, push>>
      /\ \A j \in Key : j # k => age'[j] = age[j]
  BY DEF GcDelete, TypeOK
<1>3. gc' = [gc EXCEPT ![g] = [gc[g] EXCEPT !.cand = @ \ {k}, !.seen[k] = 0]]
  BY DEF GcDelete
<1>4. /\ gc'[g].pc = "delete" /\ gc'[g].cand = gc[g].cand \ {k}
      /\ \A j \in gc'[g].cand : gc'[g].seen[j] = gc[g].seen[j]
      /\ \A h \in Cleaner : h # g => gc'[h] = gc[h]
  BY <1>1, <1>3 DEF TypeOK, GcState
<1>5. gc[g].seen[k] >= Grace /\ gc[g].seen[k] \in Nat
  BY <1>1, TimeAssumption DEF Inv, SweepInv, GcState
<1>6. ASSUME NEW p \in Pusher, Storing(p), push[p].fresh, NEW j \in Key, push[p].step[j] = "done"
      PROVE  (j \in stored /\ Young(p, j, age[j]))'
  <2>1. j \in stored /\ Young(p, j, age[j])
    BY <1>6 DEF Inv, PushInv
  <2>2. push[p].elapsed \in 0..PushLimit
    BY <1>6, PushFields DEF PushState
  <2>3. j # k
    BY <1>1, <1>5, <2>1, <2>2, TimeAssumption DEF Young, GraceCovers
  <2>4. Young(p, j, age[j])'
    BY <1>1, <1>2, <1>4, <2>1, <2>3 DEF Young
  <2> QED BY <1>2, <2>1, <2>3, <2>4
<1>7. PushInv'
  BY <1>2, <1>6 DEF PushInv, Storing
<1>8. SweepInv'
  BY <1>1, <1>4 DEF Inv, SweepInv, Marking
<1>9. ASSUME NEW t \in Tag, tag[t] # None, fresh[t]
      PROVE  /\ Complete(t)'
             /\ \A h \in Cleaner : gc'[h].pc # "idle" => SafeFrom(h, t, tag[t])'
  <2>1. /\ Complete(t)
        /\ \A h \in Cleaner : gc[h].pc # "idle" => SafeFrom(h, t, tag[t])
    BY <1>9 DEF Inv, TagInv
  <2>2. k \notin KeysOf(tag[t])
    BY <1>1, <2>1 DEF SafeFrom
  <2>3. KeysOf(tag[t]) \subseteq Key
    BY <1>9, KeyFacts DEF TypeOK
  <2>4. ASSUME NEW h \in Cleaner, h # g, SafeFrom(h, t, tag[t])
        PROVE  SafeFrom(h, t, tag[t])'
    BY <1>2, <1>4, <2>2, <2>3, <2>4 DEF SafeFrom, MarkedBy, YoungFor
  <2>5. SafeFrom(g, t, tag[t])'
    BY <1>1, <1>2, <1>4, <2>1 DEF SafeFrom
  <2> QED BY <1>2, <1>4, <2>1, <2>2, <2>4, <2>5 DEF Complete
<1>10. TagInv'
  BY <1>2, <1>9 DEF TagInv
<1> QED BY <1>7, <1>8, <1>10 DEF Inv

LEMMA InvGc ==
    ASSUME GraceCovers, TypeOK, TypeOK', Inv, NEW g \in Cleaner, GcStep(g) \/ GcFail(g)
    PROVE  Inv'
<1>1. CASE GcEnd(g) \/ GcFail(g)
  BY <1>1, GcKeepsInv DEF GcEnd, GcFail, TypeOK, NoGc
<1> QED BY <1>1, InvGcBegin, InvGcReadTag, InvGcReadChild, InvGcList, InvGcReadRecipe, InvGcSweep,
           InvGcDelete DEF GcStep

\* Time passes for the objects, the pushes and the collections alike.
LEMMA InvTick == TypeOK /\ TypeOK' /\ Inv /\ Tick => Inv'
<1> SUFFICES ASSUME TypeOK, TypeOK', Inv, Tick PROVE Inv'
  OBVIOUS
<1>1. \A a \in 0..Grace : Older(a) \in 0..Grace /\ Older(a) <= a + 1
  BY TimeAssumption DEF Older
<1>2. UNCHANGED <<stored, tag, fresh>>
  BY DEF Tick
<1>3. ASSUME NEW k \in Key, k \in stored
      PROVE  age[k] \in 0..Grace /\ age'[k] \in 0..Grace /\ age'[k] <= age[k] + 1
  <2>1. age[k] \in 0..Grace
    BY DEF TypeOK
  <2>2. age'[k] = Older(age[k])
    BY <1>3 DEF Tick
  <2> QED BY <1>1, <2>1, <2>2
<1>4. ASSUME NEW p \in Pusher
      PROVE  /\ ~Storing(p) => push'[p] = push[p]
             /\ Storing(p) => /\ push'[p].pc = "storing" /\ push'[p].step = push[p].step
                              /\ push'[p].fresh = push[p].fresh
                              /\ push'[p].elapsed = push[p].elapsed + 1
                              /\ push[p].elapsed \in 0..PushLimit
  <2>1. CASE Storing(p)
    <3>1. push[p] \in PushState \ {NoPush}
      BY <2>1, PushFields
    <3>2. push'[p] = [push[p] EXCEPT !.elapsed = @ + 1]
      BY <2>1 DEF Tick
    <3> QED BY <2>1, <3>1, <3>2 DEF PushState, Storing
  <2>2. CASE ~Storing(p)
    BY <2>2 DEF Tick
  <2> QED BY <2>1, <2>2
<1>5. ASSUME NEW g \in Cleaner, Marking(g)
      PROVE  /\ gc'[g].pc = gc[g].pc /\ gc'[g].tags = gc[g].tags
             /\ gc'[g].marked = gc[g].marked /\ gc'[g].cand = gc[g].cand
             /\ gc'[g].elapsed = gc[g].elapsed + 1 /\ gc[g].elapsed \in 0..GcLimit
             /\ gc[g].cand \subseteq Key
             /\ \A k \in gc[g].cand : /\ gc[g].seen[k] \in 0..Grace /\ gc'[g].seen[k] \in 0..Grace
                                      /\ gc'[g].seen[k] <= gc[g].seen[k] + 1
  <2> DEFINE s == [k \in Key |-> IF k \in gc[g].cand THEN Older(gc[g].seen[k]) ELSE 0]
  <2>1. gc[g] \in GcState \ {NoGc}
    BY <1>5, GcFields DEF Marking
  <2>2. gc'[g] = [gc[g] EXCEPT !.elapsed = @ + 1, !.seen = s]
    BY <1>5 DEF Tick
  <2>3. gc[g].cand \subseteq Key /\ gc[g].elapsed \in 0..GcLimit /\ gc[g].seen \in [Key -> 0..Grace]
    BY <2>1 DEF GcState
  <2>4. \A k \in gc[g].cand : /\ gc[g].seen[k] \in 0..Grace /\ s[k] \in 0..Grace
                              /\ s[k] <= gc[g].seen[k] + 1
    BY <1>1, <2>3
  <2> HIDE DEF s
  <2>5. /\ gc'[g].pc = gc[g].pc /\ gc'[g].tags = gc[g].tags
        /\ gc'[g].marked = gc[g].marked /\ gc'[g].cand = gc[g].cand
        /\ gc'[g].elapsed = gc[g].elapsed + 1 /\ gc'[g].seen = s
    BY <2>1, <2>2 DEF GcState
  <2> QED BY <2>3, <2>4, <2>5
<1>6. \A g \in Cleaner : ~Marking(g) => gc'[g] = gc[g]
  BY DEF Tick
<1>7. ASSUME NEW p \in Pusher, Storing(p)', push'[p].fresh, NEW k \in Key, push'[p].step[k] = "done"
      PROVE  (k \in stored /\ Young(p, k, age[k]))'
  <2>1. /\ Storing(p) /\ push[p].fresh /\ push[p].step[k] = "done"
        /\ push'[p].elapsed = push[p].elapsed + 1 /\ push[p].elapsed \in 0..PushLimit
    BY <1>4, <1>7 DEF Storing
  <2>2. k \in stored /\ Young(p, k, age[k])
    BY <2>1 DEF Inv, PushInv
  <2>3. age'[k] <= push'[p].elapsed
    BY <1>3, <2>1, <2>2, TimeAssumption DEF Young
  <2>4. ASSUME NEW g \in Cleaner, gc'[g].pc # "idle", k \in gc'[g].cand
        PROVE  gc'[g].seen[k] <= push'[p].elapsed
    <3>1. CASE Marking(g)
      <4>1. k \in gc[g].cand /\ gc[g].seen[k] <= push[p].elapsed
        BY <1>5, <2>2, <2>4, <3>1 DEF Young
      <4> QED BY <1>5, <2>1, <3>1, <4>1, TimeAssumption
    <3>2. CASE ~Marking(g)
      <4>1. gc'[g] = gc[g] /\ gc[g] \in GcState \ {NoGc}
        BY <1>6, <2>4, <3>2, GcFields
      <4>2. gc[g].seen[k] <= push[p].elapsed /\ gc[g].seen[k] \in Int
        BY <2>2, <2>4, <4>1, TimeAssumption DEF Young, GcState
      <4> QED BY <2>1, <4>1, <4>2, TimeAssumption
    <3> QED BY <3>1, <3>2
  <2> QED BY <1>2, <2>2, <2>3, <2>4 DEF Young
<1>8. PushInv'
  BY <1>7 DEF PushInv
<1>9. SweepInv'
  BY <1>5, <1>6 DEF Inv, SweepInv, Marking
<1>10. ASSUME NEW t \in Tag, tag[t] # None, fresh[t], NEW g \in Cleaner, gc'[g].pc # "idle"
       PROVE  SafeFrom(g, t, tag[t])'
  <2>1. KeysOf(tag[t]) \subseteq stored /\ KeysOf(tag[t]) \subseteq Key
    BY <1>10, KeyFacts DEF TypeOK, Inv, TagInv, Complete
  <2>2. CASE ~Marking(g)
    <3>1. gc'[g] = gc[g] /\ gc[g].pc = "delete"
      BY <1>6, <1>10, <2>2 DEF Marking
    <3> QED BY <1>2, <1>10, <3>1 DEF Inv, TagInv, SafeFrom
  <2>3. CASE Marking(g)
    <3>1. t \in gc[g].tags \/ MarkedBy(g, tag[t]) \/ YoungFor(g, tag[t])
      BY <1>10, <2>3 DEF Inv, TagInv, SafeFrom, Marking
    <3>2. YoungFor(g, tag[t]) => YoungFor(g, tag[t])'
      <4> SUFFICES ASSUME YoungFor(g, tag[t]), NEW k \in KeysOf(tag[t])
                   PROVE  /\ age'[k] <= PushLimit + gc'[g].elapsed
                          /\ k \in gc'[g].cand => gc'[g].seen[k] <= PushLimit + gc'[g].elapsed
        BY <1>2 DEF YoungFor
      <4>1. age[k] <= PushLimit + gc[g].elapsed
        BY DEF YoungFor
      <4>2. age'[k] <= PushLimit + gc'[g].elapsed
        BY <1>3, <1>5, <2>1, <2>3, <4>1, TimeAssumption
      <4>3. ASSUME k \in gc'[g].cand PROVE gc'[g].seen[k] <= PushLimit + gc'[g].elapsed
        <5>1. k \in gc[g].cand /\ gc[g].seen[k] <= PushLimit + gc[g].elapsed
          BY <1>5, <2>3, <4>3 DEF YoungFor
        <5> QED BY <1>5, <2>3, <5>1, TimeAssumption
      <4> QED BY <4>2, <4>3
    <3>3. MarkedBy(g, tag[t]) => MarkedBy(g, tag[t])'
      BY <1>2, <1>5, <2>3 DEF MarkedBy
    <3> QED BY <1>2, <1>5, <2>3, <3>1, <3>2, <3>3 DEF SafeFrom, Marking
  <2> QED BY <2>2, <2>3
<1>11. TagInv'
  BY <1>2, <1>10 DEF Inv, TagInv, Complete
<1> QED BY <1>8, <1>9, <1>11 DEF Inv

LEMMA InvNext == GraceCovers /\ TypeOK /\ Inv /\ [Next]_vars => Inv'
<1> SUFFICES ASSUME GraceCovers, TypeOK, Inv, [Next]_vars PROVE Inv'
  OBVIOUS
<1>1. TypeOK'
  BY TypeNext
<1>2. CASE UNCHANGED vars
  BY <1>2 DEF vars, Inv, PushInv, SweepInv, TagInv, Storing, Young, Marking, Complete,
              SafeFrom, MarkedBy, YoungFor
<1> QED BY <1>1, <1>2, InvPush, InvDelete, InvGc, InvTick DEF Next

\* Inv is inductive, given the types.
THEOREM InvCorrect == GraceCovers => (Spec => []Inv)
<1> SUFFICES ASSUME GraceCovers PROVE Spec => []Inv
  OBVIOUS
<1>1. Init => TypeOK /\ Inv
  BY TypeInit, InvInit
<1>2. TypeOK /\ Inv /\ [Next]_vars => (TypeOK /\ Inv)'
  BY TypeNext, InvNext
<1> QED BY <1>1, <1>2, PTL DEF Spec

\* However many pushes and collections interleave, a tag whose push left its
\* objects young keeps all of them for as long as it stands, if a push and
\* the mark phase of a collection together take less than the grace period.
THEOREM FreshTagsStayComplete == GraceCovers => (Spec => []FreshTagComplete)
<1> SUFFICES ASSUME GraceCovers PROVE Spec => []FreshTagComplete
  OBVIOUS
<1>1. Inv => FreshTagComplete
  BY DEF Inv, TagInv, FreshTagComplete
<1>2. Spec => []Inv
  BY InvCorrect
<1> QED BY <1>1, <1>2, PTL
=============================================================================
