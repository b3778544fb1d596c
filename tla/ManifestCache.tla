--------------------------- MODULE ManifestCache ---------------------------
(***************************************************************************)
(* The manifest cache of the serve package (pkg/serve/cache.go) as         *)
(* handleManifest uses it (handler.go): concurrent requests look a tag up, *)
(* fetch its manifest from storage on a miss and put it into the cache,    *)
(* while clients of the bucket overwrite the tag. With a directory the     *)
(* cache also keeps each manifest in a file, which outlives a restart.     *)
(*                                                                         *)
(* A copy of a manifest is known by how stale it is: 0 while it is what    *)
(* the tag holds, and n + 1 when n ticks have passed since it was          *)
(* overwritten. Torn is a file read between its truncation and its write.  *)
(***************************************************************************)
EXTENDS Integers, Sequences, SequencesExt

CONSTANTS
    Reader,    \* goroutines serving manifest requests
    Key,       \* cache keys, bucket/name/tag
    CacheSize, \* Cache.max
    TTL,       \* Cache.ttl, in ticks
    ReqLimit,  \* environment: a request ends within this many ticks
    Nobody     \* the lock is free

ASSUME CacheAssumption ==
    /\ CacheSize \in Nat \ {0} /\ TTL \in Nat \ {0}  \* zero turns either off
    /\ ReqLimit \in Nat
    /\ Nobody \notin Reader

Torn  == -1
Stale == TTL + ReqLimit + 2      \* bound: staler copies are not told apart
Copy  == Torn..Stale
Absent == [copy |-> Torn, age |-> -1]
Entry == [copy : Copy, age : 0..(TTL + 1)] \union {Absent}

VARIABLES
    mem,    \* the map entries: copy and ticks since its expiry was set
    order,  \* keys of mem by their seq, oldest first
    onDisk, \* made by NewDiskCache, or by NewCache
    disk,   \* the files: content and ticks since their mtime
    mu,     \* who holds the lock for writing
    req     \* of each handler, its request

cacheVars == <<onDisk, mem, order, disk, mu, req>>

Idle == [pc |-> "idle", key |-> Nobody, copy |-> Torn, elapsed |-> 0]

CacheTypeOK ==
    /\ onDisk \in BOOLEAN
    /\ mem \in [Key -> Entry]
    /\ order \in Seq(Key)
    /\ disk \in [Key -> Entry]
    /\ mu \in Reader \union {Nobody}
    /\ req \in [Reader ->
         [pc : {"idle", "lookup", "disk", "expire", "fetch", "put", "flush", "serve"},
          key : Key \union {Nobody}, copy : Copy, elapsed : 0..ReqLimit]]

CacheInit ==
    /\ onDisk \in BOOLEAN
    /\ mem = [k \in Key |-> Absent]
    /\ order = <<>>
    /\ disk = [k \in Key |-> Absent]
    /\ mu = Nobody
    /\ req = [h \in Reader |-> Idle]

At(h, pc) == req[h].pc = pc
Goto(h, to) == req' = [req EXCEPT ![h].pc = to]
Have(h, to, copy) == req' = [req EXCEPT ![h].pc = to, ![h].copy = copy]

Expired(e) == e.age > TTL

-----------------------------------------------------------------------------

Request(h, k) ==
    /\ At(h, "idle")
    /\ req' = [req EXCEPT ![h] = [Idle EXCEPT !.pc = "lookup", !.key = k]]
    /\ UNCHANGED <<onDisk, mem, order, disk, mu>>

\* Cache.Manifest reads the entry under the read lock ...
Hit(h) ==
    LET k == req[h].key IN
    /\ At(h, "lookup") /\ mu = Nobody
    /\ mem[k] # Absent /\ ~Expired(mem[k])
    /\ Have(h, "serve", mem[k].copy)
    /\ UNCHANGED <<onDisk, mem, order, disk, mu>>

Miss(h) ==
    /\ At(h, "lookup") /\ mu = Nobody
    /\ mem[req[h].key] = Absent
    /\ Goto(h, IF onDisk THEN "disk" ELSE "fetch")
    /\ UNCHANGED <<onDisk, mem, order, disk, mu>>

HitExpired(h) ==
    LET k == req[h].key IN
    /\ At(h, "lookup") /\ mu = Nobody
    /\ mem[k] # Absent /\ Expired(mem[k])
    /\ Goto(h, "expire")
    /\ UNCHANGED <<onDisk, mem, order, disk, mu>>

\* ... and takes the lock again to drop an expired one, without looking
\* whether it has been refreshed meanwhile.
Expire(h) ==
    LET k == req[h].key IN
    /\ At(h, "expire") /\ mu = Nobody
    /\ Goto(h, "fetch")
    /\ mem' = [mem EXCEPT ![k] = Absent]
    /\ order' = RemoveFirst(order, k)
    /\ UNCHANGED <<onDisk, disk, mu>>

\* readDisk, outside any lock; what it finds is put back into memory.
ReadDisk(h) ==
    LET f == disk[req[h].key] IN
    /\ At(h, "disk")
    /\ IF f = Absent \/ Expired(f) THEN Goto(h, "fetch") ELSE Have(h, "put", f.copy)
    /\ UNCHANGED <<onDisk, mem, order, disk, mu>>

\* The tag's manifest as storage has it now.
Fetch(h) ==
    /\ At(h, "fetch")
    /\ Have(h, "put", 0)
    /\ UNCHANGED <<onDisk, mem, order, disk, mu>>

\* Variant: the empty answer is put into the cache like any other.
FetchFailsCached(h) ==
    /\ At(h, "fetch")
    /\ Have(h, "put", Torn)
    /\ UNCHANGED <<onDisk, mem, order, disk, mu>>

\* An error from storage is answered without touching the cache.
FetchFails(h) ==
    /\ At(h, "fetch")
    /\ req' = [req EXCEPT ![h] = Idle]
    /\ UNCHANGED <<onDisk, mem, order, disk, mu>>

\* Variant: eviction is left to the next miss.
PutUnevicted(h) ==
    LET k == req[h].key IN
    /\ At(h, "put") /\ mu = Nobody
    /\ mem' = [mem EXCEPT ![k] = [copy |-> req[h].copy, age |-> 0]]
    /\ order' = IF mem[k] = Absent THEN Append(order, k) ELSE order
    /\ IF onDisk THEN Goto(h, "flush") /\ mu' = h
                 ELSE Goto(h, "serve") /\ UNCHANGED mu
    /\ disk' = IF onDisk THEN [disk EXCEPT ![k] = [copy |-> Torn, age |-> 0]] ELSE disk
    /\ UNCHANGED onDisk

\* PutManifest: a refresh keeps its place, the oldest entry goes when the
\* cache is over its size, and the file is truncated to be written.
Put(h) ==
    LET k       == req[h].key
        queue   == IF mem[k] = Absent THEN Append(order, k) ELSE order
        evicted == IF Len(queue) > CacheSize THEN {Head(queue)} ELSE {}
        filled  == [mem EXCEPT ![k] = [copy |-> req[h].copy, age |-> 0]]
    IN
    /\ At(h, "put") /\ mu = Nobody
    /\ mem' = [j \in Key |-> IF j \in evicted THEN Absent ELSE filled[j]]
    /\ order' = IF evicted = {} THEN queue ELSE Tail(queue)
    /\ IF onDisk THEN /\ Goto(h, "flush") /\ mu' = h
                      /\ disk' = [disk EXCEPT ![k] = [copy |-> Torn, age |-> 0]]
                 ELSE Goto(h, "serve") /\ UNCHANGED <<mu, disk>>
    /\ UNCHANGED onDisk

\* The write of the file ends, and with it PutManifest.
Flush(h) ==
    /\ At(h, "flush")
    /\ Goto(h, "serve")
    /\ disk' = [disk EXCEPT ![req[h].key] = [copy |-> req[h].copy, age |-> 0]]
    /\ mu' = Nobody
    /\ UNCHANGED <<onDisk, mem, order>>

\* writeManifest.
Serve(h) ==
    /\ At(h, "serve")
    /\ req' = [req EXCEPT ![h] = Idle]
    /\ UNCHANGED <<onDisk, mem, order, disk, mu>>

Step(h) ==
    \/ Hit(h) \/ Miss(h) \/ HitExpired(h) \/ Expire(h) \/ ReadDisk(h)
    \/ Fetch(h) \/ FetchFails(h) \/ Put(h) \/ Flush(h) \/ Serve(h)

-----------------------------------------------------------------------------
(* The environment.                                                        *)

Superseded(copy) == IF copy = 0 THEN 1 ELSE copy
Older(copy)      == IF copy \in 1..(Stale - 1) THEN copy + 1 ELSE copy
Aged(e)          == IF e = Absent THEN e
                    ELSE [copy |-> Older(e.copy), age |-> IF Expired(e) THEN e.age ELSE e.age + 1]

\* A push overwrites the tag behind key k.
Overwrite(k) ==
    /\ mem' = [mem EXCEPT ![k].copy = Superseded(@)]
    /\ disk' = [disk EXCEPT ![k].copy = Superseded(@)]
    /\ req' = [h \in Reader |-> IF req[h].key = k
                 THEN [req[h] EXCEPT !.copy = Superseded(@)] ELSE req[h]]
    /\ UNCHANGED <<onDisk, order, mu>>

Tick ==
    /\ \A h \in Reader : req[h].pc # "idle" => req[h].elapsed < ReqLimit
    /\ mem' = [k \in Key |-> Aged(mem[k])]
    /\ disk' = [k \in Key |-> Aged(disk[k])]
    /\ req' = [h \in Reader |-> IF req[h].pc = "idle" THEN req[h]
                 ELSE [req[h] EXCEPT !.copy = Older(@), !.elapsed = @ + 1]]
    /\ UNCHANGED <<onDisk, order, mu>>

\* The process is replaced; only the files stay.
Restart ==
    /\ mem' = [k \in Key |-> Absent]
    /\ order' = <<>>
    /\ mu' = Nobody
    /\ req' = [h \in Reader |-> Idle]
    /\ UNCHANGED <<onDisk, disk>>

CacheNext ==
    \/ \E h \in Reader : Step(h) \/ \E k \in Key : Request(h, k)
    \/ \E k \in Key : Overwrite(k)
    \/ Tick
    \/ Restart

CacheSpec == CacheInit /\ [][CacheNext]_cacheVars

-----------------------------------------------------------------------------

\* A manifest taken from the cache stopped being the tag's content at most a
\* TTL, and the one request that fetched it, ago: it is held "for ttl each"
\* (comment at cache.go:41), and a cache with a directory is the same with
\* persistence (cache.go:51, "NewCache plus best-effort persistence"). That is
\* not so of one with a directory, which no command makes (NewDiskCache):
\* s3lo serve has one without (cmd/s3lo/serve.go:127).
StaleBounded ==
    \A h \in Reader : req[h].pc = "lookup" /\ mu = Nobody =>
        LET e == mem[req[h].key] IN
        e # Absent /\ ~Expired(e) => e.copy <= TTL + ReqLimit + 1

\* It holds of the cache without a directory, and what that serves is whole:
\* a failed fetch leaves nothing in it. (With a directory a file half written,
\* by a process that died or a request still at it, is served and kept in both
\* tiers like a manifest, see Torn.)
StaleBoundedInMemory ==
    ~onDisk =>
        /\ StaleBounded
        /\ \A h \in Reader : At(h, "serve") => req[h].copy # Torn

\* Expiry, refresh, eviction and re-warming from disk keep the queue and the
\* map in step: the same keys, each once, no more than the cache may hold
\* (comment on cacheEntry.seq).
InStep ==
    /\ Range(order) = {k \in Key : mem[k] # Absent}
    /\ IsInjective(order)
    /\ Len(order) <= CacheSize
=============================================================================
