------------------------ MODULE ManifestCacheProofs ------------------------
(***************************************************************************)
(* ManifestCache for any number of handlers, keys and entries: the queue   *)
(* and the map stay in step, and a cache without a directory serves whole  *)
(* manifests that are not staler than a TTL and a request.                 *)
(***************************************************************************)
EXTENDS ManifestCache, SequenceTheorems, TLAPS

\* Without a directory a manifest in the map is whole, and was no older than a
\* request when its age began.
MapWhole ==
    ~onDisk => \A k \in Key : mem[k] # Absent =>
        /\ mem[k].copy # Torn
        /\ ~Expired(mem[k]) => mem[k].copy <= mem[k].age + ReqLimit + 1

\* A request that is under way is for a key; without a directory what it has in
\* hand is whole, and was fetched no longer ago than it runs.
ReqWhole(r) ==
    /\ r.pc # "idle" => r.key \in Key
    /\ ~onDisk =>
         /\ r.pc \notin {"disk", "flush"}
         /\ r.pc = "put" => r.copy \in 0..(r.elapsed + 1)
         /\ r.pc = "serve" => r.copy # Torn

CacheInv == MapWhole /\ \A h \in Reader : ReqWhole(req[h])

IInv == CacheTypeOK /\ InStep /\ CacheInv

-----------------------------------------------------------------------------
(* The queue.                                                              *)

LEMMA QueueLess ==
    ASSUME NEW S, NEW s \in Seq(S), IsInjective(s), NEW e
    PROVE  /\ RemoveFirst(s, e) \in Seq(S)
           /\ Len(RemoveFirst(s, e)) <= Len(s)
           /\ IsInjective(RemoveFirst(s, e))
           /\ Range(RemoveFirst(s, e)) = Range(s) \ {e}
<1> DEFINE t == RemoveFirst(s, e)
<1>0. \A i, j \in 1..Len(s) : s[i] = s[j] => i = j
  BY DEF IsInjective
<1>1. CASE \E i \in 1..Len(s) : s[i] = e
  <2>1. PICK n \in 1..Len(s) : s[n] = e
    BY <1>1
  <2>2. {i \in 1..Len(s) : s[i] = e} = {n}
    BY <1>0, <2>1
  <2>3. SelectInSeq(s, LAMBDA v : v = e) = n
    BY <2>2 DEF SelectInSeq, Min
  <2> DEFINE a == SubSeq(s, 1, n - 1)
             b == SubSeq(s, n + 1, Len(s))
  <2>4. t = a \o b
    BY <1>1, <2>3 DEF RemoveFirst, RemoveAt
  <2>5. /\ a \in Seq(S) /\ Len(a) = n - 1
        /\ \A i \in 1..(n - 1) : a[i] = s[i]
    <3>1. \A i \in 1..(n - 1) : s[i] \in S
      BY <2>1
    <3> QED BY <2>1, <3>1, SubSeqProperties
  <2>6. /\ b \in Seq(S) /\ Len(b) = Len(s) - n
        /\ \A i \in 1..(Len(s) - n) : b[i] = s[n + i]
    <3>1. \A i \in (n + 1)..Len(s) : s[i] \in S
      BY <2>1
    <3> QED BY <2>1, <3>1, SubSeqProperties
  <2> HIDE DEF a, b, t
  <2>7. /\ t \in Seq(S) /\ Len(t) = Len(s) - 1
        /\ \A i \in 1..(Len(s) - 1) : t[i] = IF i <= n - 1 THEN a[i] ELSE b[i - (n - 1)]
    <3>1. /\ a \o b \in Seq(S) /\ Len(a \o b) = Len(a) + Len(b)
          /\ \A i \in 1..(Len(a) + Len(b)) :
               (a \o b)[i] = IF i <= Len(a) THEN a[i] ELSE b[i - Len(a)]
      BY <2>5, <2>6, ConcatProperties
    <3>2. Len(a) + Len(b) = Len(s) - 1
      BY <2>1, <2>5, <2>6
    <3> QED BY <2>4, <2>5, <3>1, <3>2
  <2>8. Len(t) = Len(s) - 1 /\ DOMAIN t = 1..(Len(s) - 1)
    BY <2>7
  <2>9. \A i \in 1..(Len(s) - 1) : t[i] = IF i < n THEN s[i] ELSE s[i + 1]
    <3> SUFFICES ASSUME NEW i \in 1..(Len(s) - 1)
                 PROVE  t[i] = IF i < n THEN s[i] ELSE s[i + 1]
      OBVIOUS
    <3>1. CASE i < n
      BY <2>1, <2>5, <2>7, <3>1
    <3>2. CASE i >= n
      <4>1. i - (n - 1) \in 1..(Len(s) - n) /\ ~(i <= n - 1)
        BY <2>1, <3>2
      <4>2. n + (i - (n - 1)) = i + 1
        BY <2>1
      <4> QED BY <2>1, <2>6, <2>7, <3>2, <4>1, <4>2
    <3> QED BY <2>1, <3>1, <3>2
  <2>10. IsInjective(t)
    BY <1>0, <2>1, <2>8, <2>9 DEF IsInjective
  <2>11. Range(t) = Range(s) \ {e}
    <3>1. ASSUME NEW i \in DOMAIN t PROVE t[i] \in Range(s) \ {e}
      <4>1. CASE i < n
        BY <1>0, <2>1, <2>8, <2>9, <4>1 DEF Range
      <4>2. CASE i >= n
        <5>1. i + 1 \in 1..Len(s) /\ i + 1 # n /\ t[i] = s[i + 1]
          BY <2>1, <2>8, <2>9, <4>2
        <5> QED BY <1>0, <2>1, <5>1 DEF Range
      <4> QED BY <2>1, <2>8, <4>1, <4>2
    <3>2. ASSUME NEW i \in DOMAIN s, s[i] # e PROVE \E j \in DOMAIN t : t[j] = s[i]
      <4>1. CASE i < n
        BY <2>1, <2>8, <2>9, <3>2, <4>1
      <4>2. CASE i > n
        <5>1. i - 1 \in DOMAIN t /\ t[i - 1] = s[i]
          BY <2>1, <2>8, <2>9, <4>2
        <5> QED BY <5>1
      <4> QED BY <2>1, <3>2, <4>1, <4>2
    <3> QED BY <3>1, <3>2 DEF Range
  <2> QED BY <2>1, <2>7, <2>8, <2>10, <2>11 DEF t
<1>2. CASE ~\E i \in 1..Len(s) : s[i] = e
  BY <1>2 DEF RemoveFirst, Range
<1> QED BY <1>1, <1>2

LEMMA QueueTail ==
    ASSUME NEW S, NEW s \in Seq(S), s # <<>>, IsInjective(s)
    PROVE  /\ Tail(s) \in Seq(S) /\ Len(Tail(s)) = Len(s) - 1
           /\ Head(s) \in S
           /\ IsInjective(Tail(s))
           /\ Range(Tail(s)) = Range(s) \ {Head(s)}
<1>1. /\ Tail(s) \in Seq(S) /\ Len(Tail(s)) = Len(s) - 1 /\ Len(s) \in Nat \ {0}
      /\ Head(s) = s[1] /\ Head(s) \in S
      /\ \A i \in 1..(Len(s) - 1) : Tail(s)[i] = s[i + 1]
  BY HeadTailProperties
<1>2. DOMAIN s = 1..Len(s) /\ DOMAIN Tail(s) = 1..(Len(s) - 1)
  BY <1>1
<1>3. \A i, j \in 1..Len(s) : s[i] = s[j] => i = j
  BY <1>2 DEF IsInjective
<1>4. IsInjective(Tail(s))
  BY <1>1, <1>2, <1>3 DEF IsInjective
<1>5. ASSUME NEW i \in DOMAIN s, s[i] # Head(s) PROVE \E j \in DOMAIN Tail(s) : Tail(s)[j] = s[i]
  <2>1. i - 1 \in DOMAIN Tail(s) /\ Tail(s)[i - 1] = s[i]
    BY <1>1, <1>2, <1>5
  <2> QED BY <2>1
<1>6. ASSUME NEW i \in DOMAIN Tail(s) PROVE Tail(s)[i] \in Range(s) \ {Head(s)}
  <2>1. i + 1 \in 1..Len(s) /\ i + 1 # 1 /\ Tail(s)[i] = s[i + 1]
    BY <1>1, <1>2
  <2> QED BY <1>1, <1>2, <1>3, <2>1 DEF Range
<1> QED BY <1>1, <1>4, <1>5, <1>6 DEF Range

LEMMA QueueAppend ==
    ASSUME NEW S, NEW s \in Seq(S), IsInjective(s), NEW e \in S, e \notin Range(s)
    PROVE  /\ Append(s, e) \in Seq(S) /\ Len(Append(s, e)) = Len(s) + 1
           /\ IsInjective(Append(s, e))
           /\ Range(Append(s, e)) = Range(s) \union {e}
<1> DEFINE t == Append(s, e)
<1>1. /\ t \in Seq(S) /\ Len(t) = Len(s) + 1 /\ Len(s) \in Nat
      /\ \A i \in 1..Len(s) : t[i] = s[i]
      /\ t[Len(s) + 1] = e
  BY AppendProperties
<1> HIDE DEF t
<1>2. DOMAIN s = 1..Len(s) /\ DOMAIN t = 1..(Len(s) + 1)
  BY <1>1
<1>3. IsInjective(t)
  BY <1>1, <1>2 DEF IsInjective, Range
<1>4. Range(t) = Range(s) \union {e}
  BY <1>1, <1>2 DEF Range
<1> QED BY <1>1, <1>3, <1>4 DEF t

-----------------------------------------------------------------------------
(* The map and the queue after the two steps that change both.             *)

LEMMA ExpireInStep ==
    ASSUME CacheTypeOK, InStep, CacheInv, NEW h \in Reader, Expire(h)
    PROVE  /\ mem' \in [Key -> Entry] /\ order' \in Seq(Key) /\ InStep'
           /\ \A k \in Key : mem'[k] \in {mem[k], Absent}
<1> DEFINE k == req[h].key
<1>1. k \in Key
  BY DEF Expire, At, CacheInv, ReqWhole
<1>2. mem' = [mem EXCEPT ![k] = Absent] /\ order' = RemoveFirst(order, k)
  BY DEF Expire
<1> HIDE DEF k
<1>3. /\ order' \in Seq(Key) /\ Len(order') <= Len(order)
      /\ IsInjective(order') /\ Range(order') = Range(order) \ {k}
  BY <1>2, QueueLess DEF CacheTypeOK, InStep
<1>4. mem' \in [Key -> Entry] /\ \A j \in Key : mem'[j] = IF j = k THEN Absent ELSE mem[j]
  BY <1>1, <1>2 DEF CacheTypeOK, Entry
<1>5. Len(order') <= CacheSize
  BY <1>3, CacheAssumption DEF CacheTypeOK, InStep
<1> QED BY <1>3, <1>4, <1>5 DEF InStep

LEMMA PutInStep ==
    ASSUME CacheTypeOK, InStep, CacheInv, NEW h \in Reader, Put(h)
    PROVE  /\ mem' \in [Key -> Entry] /\ order' \in Seq(Key) /\ InStep'
           /\ \A k \in Key : mem'[k] \in {mem[k], Absent, [copy |-> req[h].copy, age |-> 0]}
<1> DEFINE k       == req[h].key
           new     == [copy |-> req[h].copy, age |-> 0]
           queue   == IF mem[k] = Absent THEN Append(order, k) ELSE order
           evicted == IF Len(queue) > CacheSize THEN {Head(queue)} ELSE {}
           filled  == [mem EXCEPT ![k] = new]
<1>1. k \in Key
  BY DEF Put, At, CacheInv, ReqWhole
<1>2. new \in Entry /\ new # Absent /\ Absent \in Entry
  BY CacheAssumption DEF CacheTypeOK, Entry, Absent
<1>3. /\ mem' = [j \in Key |-> IF j \in evicted THEN Absent ELSE filled[j]]
      /\ order' = IF evicted = {} THEN queue ELSE Tail(queue)
  BY DEF Put
<1> HIDE DEF k, new
<1>4. \A j \in Key : filled[j] = IF j = k THEN new ELSE mem[j]
  BY <1>1 DEF CacheTypeOK
<1>5. /\ queue \in Seq(Key) /\ IsInjective(queue)
      /\ Range(queue) = Range(order) \union {k}
      /\ Len(queue) <= CacheSize + 1 /\ Len(queue) \in Nat
  <2>1. Len(order) <= CacheSize /\ Len(order) \in Nat /\ CacheSize \in Nat
    BY CacheAssumption DEF CacheTypeOK, InStep
  <2>2. CASE mem[k] = Absent
    <3>1. k \notin Range(order)
      BY <1>1, <2>2 DEF InStep
    <3> QED BY <1>1, <2>1, <2>2, <3>1, QueueAppend DEF CacheTypeOK, InStep
  <2>3. CASE mem[k] # Absent
    <3>1. k \in Range(order)
      BY <1>1, <2>3 DEF InStep
    <3> QED BY <2>1, <2>3, <3>1 DEF CacheTypeOK, InStep
  <2> QED BY <2>2, <2>3
<1>6. Range(queue) = {j \in Key : filled[j] # Absent}
  BY <1>1, <1>2, <1>4, <1>5 DEF InStep
<1> HIDE DEF queue, filled
<1>7. CASE Len(queue) > CacheSize
  <2>1. queue # <<>>
    BY <1>5, <1>7, CacheAssumption
  <2>2. evicted = {Head(queue)}
    BY <1>7
  <2>3. /\ Tail(queue) \in Seq(Key) /\ Len(Tail(queue)) = Len(queue) - 1
        /\ IsInjective(Tail(queue)) /\ Range(Tail(queue)) = Range(queue) \ {Head(queue)}
    BY <1>5, <2>1, QueueTail
  <2>4. order' = Tail(queue)
    BY <1>3, <2>2
  <2> HIDE DEF evicted
  <2>5. \A j \in Key : mem'[j] = IF j = Head(queue) THEN Absent ELSE filled[j]
    BY <1>3, <2>2
  <2>6. Range(order') = {j \in Key : mem'[j] # Absent}
    BY <1>6, <2>3, <2>4, <2>5
  <2>7. Len(order') <= CacheSize
    BY <1>5, <2>3, <2>4, CacheAssumption
  <2>8. mem' \in [Key -> Entry]
    BY <1>2, <1>3, <1>4 DEF CacheTypeOK
  <2> QED BY <1>4, <2>3, <2>4, <2>5, <2>6, <2>7, <2>8 DEF InStep, new
<1>8. CASE ~(Len(queue) > CacheSize)
  <2>1. evicted = {}
    BY <1>8
  <2>2. order' = queue
    BY <1>3, <2>1
  <2>3. \A j \in Key : mem'[j] = filled[j]
    BY <1>3, <2>1
  <2> HIDE DEF evicted
  <2>4. mem' \in [Key -> Entry]
    BY <1>2, <1>3, <1>4 DEF CacheTypeOK
  <2>5. Len(queue) <= CacheSize
    BY <1>5, <1>8, CacheAssumption
  <2> QED BY <1>4, <1>5, <1>6, <2>2, <2>3, <2>4, <2>5 DEF InStep, new
<1> QED BY <1>7, <1>8

-----------------------------------------------------------------------------
(* Time and pushes, on a copy and on an entry.                             *)

LEMMA CopyAges ==
    ASSUME NEW c \in Copy
    PROVE  /\ Superseded(c) \in Copy /\ Older(c) \in Copy
           /\ (Superseded(c) = Torn) = (c = Torn)
           /\ (Older(c) = Torn) = (c = Torn)
           /\ c \in Nat => Superseded(c) \in {c, 1} /\ Older(c) \in {c, c + 1}
BY CacheAssumption DEF Copy, Torn, Stale, Superseded, Older

LEMMA EntryAges ==
    ASSUME NEW e \in Entry
    PROVE  /\ Aged(e) \in Entry /\ (Aged(e) = Absent) = (e = Absent)
           /\ e # Absent =>
                /\ e.copy \in Copy /\ e.age \in Nat
                /\ Aged(e).copy = Older(e.copy)
                /\ Expired(e) => Expired(Aged(e))
                /\ ~Expired(e) => Aged(e).age = e.age + 1
<1>1. CASE e = Absent
  BY <1>1 DEF Aged
<1>2. CASE e # Absent
  <2>1. e \in [copy : Copy, age : 0..(TTL + 1)]
    BY <1>2 DEF Entry
  <2>2. e.copy \in Copy /\ e.age \in 0..(TTL + 1) /\ Older(e.copy) \in Copy
    BY <2>1, CopyAges
  <2>3. Aged(e) = [copy |-> Older(e.copy), age |-> IF Expired(e) THEN e.age ELSE e.age + 1]
    BY <1>2 DEF Aged
  <2>4. (IF Expired(e) THEN e.age ELSE e.age + 1) \in 0..(TTL + 1)
    BY <2>2, CacheAssumption DEF Expired
  <2> QED BY <1>2, <2>2, <2>3, <2>4 DEF Entry, Absent, Expired
<1> QED BY <1>1, <1>2

LEMMA EntrySuperseded ==
    ASSUME NEW e \in Entry
    PROVE  LET n == [e EXCEPT !.copy = Superseded(@)] IN
           /\ n \in Entry /\ (n = Absent) = (e = Absent)
           /\ e # Absent => e.copy \in Copy /\ n.copy = Superseded(e.copy) /\ n.age = e.age
<1>1. CASE e = Absent
  BY <1>1 DEF Superseded, Absent, Torn, Entry
<1>2. CASE e # Absent
  <2>1. e \in [copy : Copy, age : 0..(TTL + 1)]
    BY <1>2 DEF Entry
  <2>2. Superseded(e.copy) \in Copy
    BY <2>1, CopyAges
  <2> QED BY <1>2, <2>1, <2>2 DEF Entry, Absent
<1> QED BY <1>1, <1>2

-----------------------------------------------------------------------------
(* The invariant.                                                          *)

Pcs == {"idle", "lookup", "disk", "expire", "fetch", "put", "flush", "serve"}
Reqs == [pc : Pcs, key : Key \union {Nobody}, copy : Copy, elapsed : 0..ReqLimit]

LEMMA TypeOKParts ==
    CacheTypeOK <=> /\ onDisk \in BOOLEAN /\ mem \in [Key -> Entry] /\ order \in Seq(Key)
               /\ disk \in [Key -> Entry] /\ mu \in Reader \union {Nobody}
               /\ req \in [Reader -> Reqs]
BY DEF CacheTypeOK, Reqs, Pcs

LEMMA IdleOK == Idle \in Reqs /\ ReqWhole(Idle)
BY CacheAssumption DEF Idle, Reqs, Pcs, Copy, Stale, Torn, ReqWhole

\* A step of one request that leaves the map, the queue and the files alone.
LEMMA RequestSteps ==
    ASSUME IInv, NEW h \in Reader, UNCHANGED <<onDisk, mem, order>>,
           disk' \in [Key -> Entry], mu' \in Reader \union {Nobody},
           NEW r, r \in Reqs, ReqWhole(r), req' = [req EXCEPT ![h] = r]
    PROVE  IInv'
<1>1. req' \in [Reader -> Reqs] /\ \A g \in Reader : req'[g] = IF g = h THEN r ELSE req[g]
  BY TypeOKParts DEF IInv
<1>2. CacheTypeOK'
  BY <1>1, TypeOKParts DEF IInv, CacheTypeOK, Reqs, Pcs
<1>3. InStep'
  BY DEF IInv, InStep
<1>4. CacheInv'
  <2>1. MapWhole'
    BY DEF IInv, CacheInv, MapWhole, Expired
  <2>2. ASSUME NEW g \in Reader PROVE ReqWhole(req[g])'
    <3>1. ReqWhole(req[g]) /\ (req'[g] = r \/ req'[g] = req[g])
      BY <1>1 DEF IInv, CacheInv
    <3> QED BY <3>1 DEF ReqWhole
  <2> QED BY <2>1, <2>2 DEF CacheInv
<1> QED BY <1>2, <1>3, <1>4 DEF IInv
LEMMA RequestTyped ==
    ASSUME IInv, NEW h \in Reader
    PROVE  /\ req[h] \in Reqs /\ ReqWhole(req[h])
           /\ req[h].pc \in Pcs /\ req[h].key \in Key \union {Nobody}
           /\ req[h].copy \in Copy /\ req[h].elapsed \in 0..ReqLimit
BY TypeOKParts DEF IInv, CacheInv, Reqs

\* Every handler's own step.
LEMMA HandlerSteps ==
    ASSUME IInv, NEW h \in Reader,
           Step(h) \/ \E k \in Key : Request(h, k)
    PROVE  IInv'
<1> DEFINE k == req[h].key
           to(pc) == [req[h] EXCEPT !.pc = pc]
           with(pc, c) == [req[h] EXCEPT !.pc = pc, !.copy = c]
<1>0. /\ req[h] \in Reqs /\ ReqWhole(req[h]) /\ req[h].copy \in Copy
      /\ req[h].elapsed \in 0..ReqLimit /\ ReqLimit \in Nat
  BY RequestTyped, CacheAssumption
<1>1. /\ onDisk \in BOOLEAN /\ mem \in [Key -> Entry] /\ disk \in [Key -> Entry]
      /\ mu \in Reader \union {Nobody} /\ req \in [Reader -> Reqs]
  BY TypeOKParts DEF IInv
<1>2. ASSUME NEW pc \in Pcs, NEW c \in Copy
      PROVE  /\ to(pc) \in Reqs /\ to(pc).pc = pc /\ to(pc).key = k
             /\ to(pc).copy = req[h].copy /\ to(pc).elapsed = req[h].elapsed
             /\ with(pc, c) \in Reqs /\ with(pc, c).pc = pc /\ with(pc, c).key = k
             /\ with(pc, c).copy = c /\ with(pc, c).elapsed = req[h].elapsed
  BY <1>0 DEF Reqs
<1>3. \A j \in Key : mem[j] # Absent => mem[j].copy \in Copy
  BY <1>1 DEF Entry
<1>4. CASE \E j \in Key : Request(h, j)
  <2> PICK j \in Key : Request(h, j)
    BY <1>4
  <2> DEFINE r == [Idle EXCEPT !.pc = "lookup", !.key = j]
  <2>1. r \in Reqs /\ ReqWhole(r)
    BY IdleOK DEF Idle, Reqs, Pcs, ReqWhole
  <2> QED BY <1>1, <2>1, RequestSteps DEF Request
<1>5. CASE Hit(h)
  <2> DEFINE r == with("serve", mem[k].copy)
  <2>1. k \in Key /\ mem[k] # Absent
    BY <1>0, <1>5 DEF Hit, At, ReqWhole
  <2>2. mem[k].copy \in Copy /\ (~onDisk => mem[k].copy # Torn)
    BY <1>3, <2>1 DEF IInv, CacheInv, MapWhole
  <2>3. r \in Reqs /\ ReqWhole(r)
    <3>1. r \in Reqs /\ r.pc = "serve" /\ r.key = k /\ r.copy = mem[k].copy
      BY <1>0, <2>2 DEF Reqs, Pcs
    <3> HIDE DEF r
    <3> QED BY <2>1, <2>2, <3>1 DEF ReqWhole
  <2>4. req' = [req EXCEPT ![h] = r]
    BY <1>0, <1>1, <1>5 DEF Hit, Have
  <2> QED BY <1>1, <1>5, <2>3, <2>4, RequestSteps DEF Hit
<1>6. CASE Miss(h)
  <2> DEFINE r == to(IF onDisk THEN "disk" ELSE "fetch")
  <2>1. r \in Reqs /\ ReqWhole(r)
    <3>1. r \in Reqs /\ r.pc = (IF onDisk THEN "disk" ELSE "fetch") /\ r.key = k
      BY <1>0 DEF Reqs, Pcs
    <3>2. k \in Key
      BY <1>0, <1>6 DEF Miss, At, ReqWhole
    <3> HIDE DEF r, k
    <3> QED BY <3>1, <3>2 DEF ReqWhole
  <2>2. req' = [req EXCEPT ![h] = r]
    BY <1>6 DEF Miss, Goto
  <2> QED BY <1>1, <1>6, <2>1, <2>2, RequestSteps DEF Miss
<1>7. CASE HitExpired(h)
  <2> DEFINE r == to("expire")
  <2>1. r \in Reqs /\ ReqWhole(r)
    <3>1. r \in Reqs /\ r.pc = "expire" /\ r.key = k
      BY <1>0 DEF Reqs, Pcs
    <3>2. k \in Key
      BY <1>0, <1>7 DEF HitExpired, At, ReqWhole
    <3> HIDE DEF r, k
    <3> QED BY <3>1, <3>2 DEF ReqWhole
  <2>2. req' = [req EXCEPT ![h] = r]
    BY <1>7 DEF HitExpired, Goto
  <2> QED BY <1>1, <1>7, <2>1, <2>2, RequestSteps DEF HitExpired
<1>8. CASE Expire(h)
  <2>1. /\ mem' \in [Key -> Entry] /\ order' \in Seq(Key) /\ InStep'
        /\ \A j \in Key : mem'[j] \in {mem[j], Absent}
    BY <1>8, ExpireInStep DEF IInv
  <2> DEFINE r == to("fetch")
  <2>2. r \in Reqs /\ ReqWhole(r)
    <3>1. r \in Reqs /\ r.pc = "fetch" /\ r.key = k
      BY <1>0 DEF Reqs, Pcs
    <3>2. k \in Key
      BY <1>0, <1>8 DEF Expire, At, ReqWhole
    <3> HIDE DEF r, k
    <3> QED BY <3>1, <3>2 DEF ReqWhole
  <2>3. req' = [req EXCEPT ![h] = r] /\ UNCHANGED <<onDisk, disk, mu>>
    BY <1>8 DEF Expire, Goto
  <2>4. /\ req' \in [Reader -> Reqs]
        /\ \A g \in Reader : req'[g] = r \/ req'[g] = req[g]
    BY <1>1, <2>2, <2>3
  <2> HIDE DEF r
  <2>5. CacheTypeOK'
    BY <1>1, <2>1, <2>3, <2>4 DEF CacheTypeOK, Reqs, Pcs
  <2>6. MapWhole'
    BY <2>1, <2>3 DEF IInv, CacheInv, MapWhole, Expired
  <2>7. ASSUME NEW g \in Reader PROVE ReqWhole(req[g])'
    BY <2>2, <2>3, <2>4 DEF IInv, CacheInv, ReqWhole
  <2> QED BY <2>1, <2>5, <2>6, <2>7 DEF IInv, CacheInv
<1>9. CASE ReadDisk(h)
  <2> DEFINE f == disk[k]
             r == IF f = Absent \/ Expired(f) THEN to("fetch") ELSE with("put", f.copy)
  <2>1. onDisk /\ k \in Key
    BY <1>0, <1>1, <1>9 DEF ReadDisk, At, ReqWhole
  <2>2. f # Absent => f.copy \in Copy
    BY <1>1, <2>1 DEF Entry
  <2>3. r \in Reqs /\ ReqWhole(r)
    <3>1. r \in Reqs /\ r.key = k
      BY <1>0, <2>2 DEF Reqs, Pcs
    <3> HIDE DEF r, k
    <3> QED BY <2>1, <3>1 DEF ReqWhole
  <2>4. req' = [req EXCEPT ![h] = r]
    BY <1>0, <1>1, <1>9 DEF ReadDisk, Goto, Have
  <2> QED BY <1>1, <1>9, <2>3, <2>4, RequestSteps DEF ReadDisk
<1>10. CASE Fetch(h)
  <2> DEFINE r == with("put", 0)
  <2>1. 0 \in Copy
    BY CacheAssumption DEF Copy, Torn, Stale
  <2>2. r \in Reqs /\ ReqWhole(r)
    <3>1. r \in Reqs /\ r.pc = "put" /\ r.key = k /\ r.copy = 0 /\ r.elapsed = req[h].elapsed
      BY <1>0, <2>1 DEF Reqs, Pcs
    <3>2. k \in Key
      BY <1>0, <1>10 DEF Fetch, At, ReqWhole
    <3> HIDE DEF r, k
    <3> QED BY <1>0, <3>1, <3>2 DEF ReqWhole
  <2>3. req' = [req EXCEPT ![h] = r]
    BY <1>0, <1>1, <1>10 DEF Fetch, Have
  <2> QED BY <1>1, <1>10, <2>2, <2>3, RequestSteps DEF Fetch
<1>11. CASE FetchFails(h) \/ Serve(h)
  BY <1>1, <1>11, IdleOK, RequestSteps DEF FetchFails, Serve
<1>12. CASE Put(h)
  <2> DEFINE new == [copy |-> req[h].copy, age |-> 0]
             r   == to(IF onDisk THEN "flush" ELSE "serve")
  <2>1. /\ mem' \in [Key -> Entry] /\ order' \in Seq(Key) /\ InStep'
        /\ \A j \in Key : mem'[j] \in {mem[j], Absent, new}
    BY <1>12, PutInStep DEF IInv
  <2>2. k \in Key /\ req[h].pc = "put"
    BY <1>0, <1>12 DEF Put, At, ReqWhole
  <2>3. ~onDisk => new.copy # Torn /\ new.copy <= new.age + ReqLimit + 1
    BY <1>0, <2>2 DEF ReqWhole, Torn
  <2>4. r \in Reqs /\ ReqWhole(r)
    <3>1. /\ r \in Reqs /\ r.pc = (IF onDisk THEN "flush" ELSE "serve") /\ r.key = k
          /\ r.copy = req[h].copy
      BY <1>0 DEF Reqs, Pcs
    <3> HIDE DEF r, k
    <3> QED BY <2>2, <2>3, <3>1 DEF ReqWhole
  <2>5. req' = [req EXCEPT ![h] = r] /\ onDisk' = onDisk /\ mu' \in Reader \union {Nobody}
    BY <1>1, <1>12 DEF Put, Goto
  <2>6. disk' \in [Key -> Entry]
    <3>1. [copy |-> Torn, age |-> 0] \in Entry
      BY CacheAssumption DEF Entry, Copy, Torn, Stale
    <3> QED BY <1>1, <1>12, <2>2, <3>1 DEF Put
  <2>7. /\ req' \in [Reader -> Reqs]
        /\ \A g \in Reader : req'[g] = r \/ req'[g] = req[g]
    BY <1>1, <2>4, <2>5
  <2> HIDE DEF r
  <2>8. CacheTypeOK'
    BY <1>1, <2>1, <2>5, <2>6, <2>7 DEF CacheTypeOK, Reqs, Pcs
  <2>9. MapWhole'
    <3> SUFFICES ASSUME ~onDisk, NEW j \in Key, mem'[j] # Absent
                 PROVE  /\ mem'[j].copy # Torn
                        /\ ~Expired(mem'[j]) => mem'[j].copy <= mem'[j].age + ReqLimit + 1
      BY <2>5 DEF MapWhole, Expired
    <3> QED BY <2>1, <2>3 DEF IInv, CacheInv, MapWhole
  <2>10. ASSUME NEW g \in Reader PROVE ReqWhole(req[g])'
    BY <2>4, <2>5, <2>7 DEF IInv, CacheInv, ReqWhole
  <2> QED BY <2>1, <2>8, <2>9, <2>10 DEF IInv, CacheInv
<1>13. CASE Flush(h)
  <2> DEFINE r == to("serve")
             new == [copy |-> req[h].copy, age |-> 0]
  <2>1. onDisk /\ k \in Key
    BY <1>0, <1>1, <1>13 DEF Flush, At, ReqWhole
  <2>2. r \in Reqs /\ ReqWhole(r)
    BY <1>0, <1>2, <2>1 DEF Reqs, Pcs, ReqWhole
  <2>3. req' = [req EXCEPT ![h] = r]
    BY <1>13 DEF Flush, Goto
  <2>4. new \in Entry
    BY <1>0, CacheAssumption DEF Entry
  <2>5. disk' \in [Key -> Entry] /\ mu' \in Reader \union {Nobody}
    BY <1>1, <1>13, <2>1, <2>4 DEF Flush
  <2> QED BY <1>13, <2>2, <2>3, <2>5, RequestSteps DEF Flush
<1> QED BY <1>4, <1>5, <1>6, <1>7, <1>8, <1>9, <1>10, <1>11, <1>12, <1>13 DEF Step
\* What a push or a tick does to a request keeps it whole.
LEMMA RequestAges ==
    ASSUME IInv, NEW r \in Reqs, ReqWhole(r)
    PROVE  LET n == [r EXCEPT !.copy = Superseded(@)] IN n \in Reqs /\ ReqWhole(n)
<1> DEFINE n == [r EXCEPT !.copy = Superseded(@)]
<1>1. /\ n \in Reqs /\ n.pc = r.pc /\ n.key = r.key /\ n.elapsed = r.elapsed
      /\ n.copy = Superseded(r.copy) /\ r.copy \in Copy /\ r.elapsed \in 0..ReqLimit
  BY CopyAges DEF Reqs
<1> HIDE DEF n
<1>2. /\ (n.copy = Torn) = (r.copy = Torn)
      /\ r.copy \in Nat => n.copy \in {r.copy, 1}
  BY <1>1, CopyAges
<1>3. ReqWhole(n)
  BY <1>1, <1>2, CacheAssumption DEF ReqWhole
<1> QED BY <1>1, <1>3 DEF n

LEMMA RequestTicks ==
    ASSUME IInv, NEW r \in Reqs, ReqWhole(r), r.elapsed < ReqLimit
    PROVE  LET n == [r EXCEPT !.copy = Older(@), !.elapsed = @ + 1] IN n \in Reqs /\ ReqWhole(n)
<1> DEFINE n == [r EXCEPT !.copy = Older(@), !.elapsed = @ + 1]
<1>0. r.copy \in Copy /\ r.elapsed \in 0..ReqLimit /\ r.pc \in Pcs /\ r.key \in Key \union {Nobody}
  BY DEF Reqs
<1>1. /\ n \in Reqs /\ n.pc = r.pc /\ n.key = r.key /\ n.elapsed = r.elapsed + 1
      /\ n.copy = Older(r.copy) /\ r.copy \in Copy /\ r.elapsed \in 0..ReqLimit
  <2>1. Older(r.copy) \in Copy /\ r.elapsed + 1 \in 0..ReqLimit
    BY <1>0, CopyAges, CacheAssumption
  <2> QED BY <1>0, <2>1 DEF Reqs
<1> HIDE DEF n
<1>2. /\ (n.copy = Torn) = (r.copy = Torn)
      /\ r.copy \in Nat => n.copy \in {r.copy, r.copy + 1}
  BY <1>1, CopyAges
<1>3. ReqWhole(n)
  BY <1>1, <1>2, CacheAssumption DEF ReqWhole
<1> QED BY <1>1, <1>3 DEF n

\* The steps of the environment.
LEMMA EnvironmentSteps ==
    ASSUME IInv, (\E k \in Key : Overwrite(k)) \/ Tick \/ Restart
    PROVE  IInv'
<1>1. /\ onDisk \in BOOLEAN /\ mem \in [Key -> Entry] /\ disk \in [Key -> Entry]
      /\ mu \in Reader \union {Nobody} /\ req \in [Reader -> Reqs]
      /\ order \in Seq(Key)
  BY TypeOKParts DEF IInv
<1>2. \A h \in Reader : req[h] \in Reqs /\ ReqWhole(req[h])
  BY RequestTyped
<1>3. CASE \E k \in Key : Overwrite(k)
  <2> PICK k \in Key : Overwrite(k)
    BY <1>3
  <2> DEFINE fresh(e) == [e EXCEPT !.copy = Superseded(@)]
  <2>1. mem' = [mem EXCEPT ![k] = fresh(mem[k])] /\ disk' = [disk EXCEPT ![k] = fresh(disk[k])]
    BY <1>1 DEF Overwrite
  <2>2. \A e \in Entry : fresh(e) \in Entry
    BY EntrySuperseded
  <2>3. mem' \in [Key -> Entry] /\ disk' \in [Key -> Entry]
    BY <1>1, <2>1, <2>2
  <2>4. \A j \in Key : (mem'[j] = Absent) = (mem[j] = Absent)
    BY <1>1, <2>1, EntrySuperseded
  <2>5. ASSUME NEW g \in Reader PROVE req'[g] \in Reqs /\ ReqWhole(req'[g])
    BY <1>2, <2>5, RequestAges DEF Overwrite
  <2>6. req' \in [Reader -> Reqs]
    BY <1>1, <2>5 DEF Overwrite
  <2>7. CacheTypeOK'
    BY <1>1, <2>3, <2>6 DEF Overwrite, CacheTypeOK, Reqs, Pcs
  <2>8. InStep'
    BY <2>4 DEF Overwrite, IInv, InStep
  <2>9. MapWhole'
    <3> SUFFICES ASSUME ~onDisk, NEW j \in Key, mem'[j] # Absent
                 PROVE  /\ mem'[j].copy # Torn
                        /\ ~Expired(mem'[j]) => mem'[j].copy <= mem'[j].age + ReqLimit + 1
      BY DEF MapWhole, Expired, Overwrite
    <3>1. /\ mem[j] # Absent /\ mem[j].copy # Torn
          /\ ~Expired(mem[j]) => mem[j].copy <= mem[j].age + ReqLimit + 1
      BY <2>4 DEF IInv, CacheInv, MapWhole
    <3>2. CASE j = k
      <4>1. /\ mem[j] \in Entry /\ mem'[j] = fresh(mem[j])
        BY <1>1, <2>1, <3>2
      <4>2. /\ mem[j].copy \in Copy /\ mem'[j].copy = Superseded(mem[j].copy)
            /\ mem'[j].age = mem[j].age
        BY <3>1, <4>1, EntrySuperseded
      <4>3. mem[j].age \in Nat
        BY <3>1, <4>1, EntryAges
      <4>4. (mem'[j].copy = Torn) = (mem[j].copy = Torn) /\ mem'[j].copy \in {mem[j].copy, 1}
        BY <4>2, CopyAges DEF Superseded
      <4> QED BY <3>1, <4>2, <4>3, <4>4, CacheAssumption DEF Expired
    <3>3. CASE j # k
      BY <1>1, <2>1, <3>1, <3>3
    <3> QED BY <3>2, <3>3
  <2>10. ASSUME NEW g \in Reader PROVE ReqWhole(req[g])'
    BY <2>5 DEF ReqWhole, Overwrite
  <2> QED BY <2>7, <2>8, <2>9, <2>10 DEF IInv, CacheInv
<1>4. CASE Tick
  <2>1. /\ mem' = [k \in Key |-> Aged(mem[k])] /\ disk' = [k \in Key |-> Aged(disk[k])]
        /\ UNCHANGED <<onDisk, order, mu>>
    BY <1>4 DEF Tick
  <2>2. mem' \in [Key -> Entry] /\ disk' \in [Key -> Entry]
    BY <1>1, <2>1, EntryAges
  <2>3. \A j \in Key : (mem'[j] = Absent) = (mem[j] = Absent)
    BY <1>1, <2>1, EntryAges
  <2>4. ASSUME NEW g \in Reader PROVE req'[g] \in Reqs /\ ReqWhole(req'[g])
    BY <1>2, <1>4, RequestTicks DEF Tick
  <2>5. req' \in [Reader -> Reqs]
    BY <1>1, <1>4, <2>4 DEF Tick
  <2>6. CacheTypeOK'
    BY <1>1, <2>1, <2>2, <2>5 DEF CacheTypeOK, Reqs, Pcs
  <2>7. InStep'
    BY <2>1, <2>3 DEF IInv, InStep
  <2>8. MapWhole'
    <3> SUFFICES ASSUME ~onDisk, NEW j \in Key, mem'[j] # Absent
                 PROVE  /\ mem'[j].copy # Torn
                        /\ ~Expired(mem'[j]) => mem'[j].copy <= mem'[j].age + ReqLimit + 1
      BY <2>1 DEF MapWhole, Expired
    <3>1. /\ mem[j] # Absent /\ mem[j].copy # Torn /\ mem[j] \in Entry
          /\ ~Expired(mem[j]) => mem[j].copy <= mem[j].age + ReqLimit + 1
      BY <1>1, <2>3 DEF IInv, CacheInv, MapWhole
    <3>2. mem'[j] = Aged(mem[j])
      BY <2>1
    <3>3. /\ mem[j].copy \in Copy /\ mem[j].age \in Nat
          /\ mem'[j].copy = Older(mem[j].copy)
          /\ Expired(mem[j]) => Expired(mem'[j])
          /\ ~Expired(mem[j]) => mem'[j].age = mem[j].age + 1
      BY <3>1, <3>2, EntryAges
    <3>4. mem'[j].copy \in {mem[j].copy, mem[j].copy + 1} /\ mem'[j].copy # Torn
      BY <3>1, <3>3, CopyAges DEF Older
    <3>5. mem[j].copy \in Int
      BY <3>3, CacheAssumption DEF Copy, Torn, Stale
    <3> QED BY <3>1, <3>3, <3>4, <3>5, CacheAssumption
  <2>9. ASSUME NEW g \in Reader PROVE ReqWhole(req[g])'
    BY <2>1, <2>4 DEF ReqWhole
  <2> QED BY <2>6, <2>7, <2>8, <2>9 DEF IInv, CacheInv
<1>5. CASE Restart
  <2>1. /\ mem' = [k \in Key |-> Absent] /\ order' = <<>> /\ mu' = Nobody
        /\ req' = [h \in Reader |-> Idle] /\ UNCHANGED <<onDisk, disk>>
    BY <1>5 DEF Restart
  <2>2. CacheTypeOK'
    BY <1>1, <2>1, IdleOK DEF CacheTypeOK, Reqs, Pcs, Entry
  <2>3. InStep'
    BY <2>1, CacheAssumption DEF InStep, Range, IsInjective
  <2>4. CacheInv'
    BY <2>1, IdleOK DEF CacheInv, MapWhole, ReqWhole
  <2> QED BY <2>2, <2>3, <2>4 DEF IInv
<1> QED BY <1>3, <1>4, <1>5

LEMMA IInvStarts == ASSUME CacheInit PROVE IInv
<1>1. CacheTypeOK
  BY IdleOK DEF CacheInit, CacheTypeOK, Reqs, Pcs, Entry
<1>2. InStep
  BY CacheAssumption DEF CacheInit, InStep, Range, IsInjective
<1>3. CacheInv
  BY IdleOK DEF CacheInit, CacheInv, MapWhole
<1> QED BY <1>1, <1>2, <1>3 DEF IInv

LEMMA IInvHolds == CacheSpec => []IInv
<1>1. CacheInit => IInv
  BY IInvStarts
<1>2. IInv /\ [CacheNext]_cacheVars => IInv'
  <2> SUFFICES ASSUME IInv, [CacheNext]_cacheVars PROVE IInv'
    OBVIOUS
  <2>1. CASE CacheNext
    BY <2>1, HandlerSteps, EnvironmentSteps DEF CacheNext
  <2>2. CASE UNCHANGED cacheVars
    BY <2>2 DEF cacheVars, IInv, CacheTypeOK, InStep, CacheInv, MapWhole, ReqWhole
  <2> QED BY <2>1, <2>2
<1> QED BY <1>1, <1>2, PTL DEF CacheSpec

\* However requests, evictions, expiries and restarts interleave, the queue
\* holds exactly the keys of the map, each once, and never more than
\* the cache's size (Cache.PutManifest, Cache.Manifest, cache.go).
THEOREM QueueInStep == CacheSpec => []InStep
<1>1. IInv => InStep
  BY DEF IInv
<1> QED BY <1>1, IInvHolds, PTL

\* A cache without a directory hands out only manifests that storage really
\* answered, at most a TTL and one request after they were overwritten
\* (Cache.Manifest, handleManifest).
THEOREM FreshInMemory == CacheSpec => []StaleBoundedInMemory
<1>1. IInv => StaleBoundedInMemory
  <2> SUFFICES ASSUME IInv, ~onDisk PROVE StaleBoundedInMemory
    BY DEF StaleBoundedInMemory
  <2>1. ASSUME NEW h \in Reader, req[h].pc = "lookup",
               mem[req[h].key] # Absent, ~Expired(mem[req[h].key])
        PROVE  mem[req[h].key].copy <= TTL + ReqLimit + 1
    <3> DEFINE e == mem[req[h].key]
    <3>1. req[h].key \in Key
      BY <2>1, RequestTyped DEF ReqWhole
    <3>2. e \in Entry /\ e.copy <= e.age + ReqLimit + 1
      BY <2>1, <3>1, TypeOKParts DEF IInv, CacheInv, MapWhole
    <3>3. e.copy \in Copy /\ e.age \in Nat
      BY <2>1, <3>2, EntryAges
    <3> HIDE DEF e
    <3>4. e.age <= TTL /\ e.copy \in Int
      BY <2>1, <3>3, CacheAssumption DEF Expired, Copy, Torn, Stale, e
    <3>5. e.copy <= TTL + ReqLimit + 1
      BY <3>2, <3>3, <3>4, CacheAssumption
    <3> QED BY <3>5 DEF e
  <2>2. StaleBounded
    BY <2>1 DEF StaleBounded
  <2>3. \A h \in Reader : At(h, "serve") => req[h].copy # Torn
    BY RequestTyped DEF ReqWhole, At
  <2> QED BY <2>2, <2>3 DEF StaleBoundedInMemory
<1> QED BY <1>1, IInvHolds, PTL
=============================================================================
