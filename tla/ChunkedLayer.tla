---------------------------- MODULE ChunkedLayer ----------------------------
(***************************************************************************)
(* A layer stored as chunks: the splitter (pkg/chunk/fastcdc.go) cuts its  *)
(* raw bytes, Store (pkg/chunkstore/chunkstore.go) uploads the chunks and  *)
(* writes index and recipe, Fetch puts the layer together again and        *)
(* ExtractFile (index.go) reads one file out of it.                        *)
(*                                                                         *)
(* A byte is its value in the gear table, a mask the hashes that pass it.  *)
(* A digest is the bytes it is a digest of.                                *)
(***************************************************************************)
EXTENDS Naturals, Sequences, SequencesExt, FiniteSets, FiniteSetsExt

CONSTANTS
    MinSize, AvgSize, MaxSize, \* of chunks
    Byte,                      \* gear values
    HashSize,                  \* of the rolling hash, 2^64 in the code
    MaskS, MaskL,              \* the hashes that pass the strict and the relaxed mask
    Conc,                      \* chunkConcurrency
    MaxLen,                    \* bound: bytes of a layer
    None

ASSUME SizeAssumption ==
    /\ MinSize \in Nat /\ AvgSize \in Nat /\ MaxSize \in Nat
    /\ 0 < MinSize /\ MinSize < AvgSize /\ AvgSize < MaxSize
    /\ HashSize \in Nat \ {0} /\ Byte \subseteq Nat
    /\ Conc \in Nat \ {0} /\ MaxLen \in Nat
    /\ None \notin Seq(Byte)

VARIABLES
    raw,     \* the layer, fixed
    filled,  \* bytes in the splitter's window
    cuts,    \* where the chunks emitted so far end
    worker,  \* of each of them, the upload
    failed,  \* the error group has an error, its context is cancelled
    chunks,  \* the digests below chunks/
    spoilt,  \* those whose object does not hold what it should
    indexed, \* the file index is there
    recipe,
    pc,      \* of the call of Store
    read     \* a reader of the layer

vars == <<raw, filled, cuts, worker, failed, chunks, spoilt, indexed, recipe, pc, read>>
splitter == <<filled, cuts>>
bucket   == <<chunks, spoilt, indexed, recipe>>

At == IF cuts = <<>> THEN 0 ELSE Last(cuts)
Slice(from, to) == SubSeq(raw, from + 1, to)

NoRead == [op |-> "none"]

TypeOK ==
    /\ raw \in Seq(Byte) /\ Len(raw) <= MaxLen
    /\ filled \in 0..MaxSize /\ At + filled <= Len(raw)
    /\ cuts \in Seq(1..Len(raw)) /\ Len(worker) = Len(cuts)
    /\ \A i \in DOMAIN worker : worker[i] \in {"head", "put", "done"}
    /\ Cardinality({i \in DOMAIN worker : worker[i] # "done"}) <= Conc
    /\ failed \in BOOLEAN
    /\ spoilt \subseteq chunks /\ indexed \in BOOLEAN
    /\ pc \in {"read", "cut", "flush", "wait", "index", "recipe", "stored", "error"}

Init ==
    /\ raw \in UNION {[1..n -> Byte] : n \in 0..MaxLen}
    /\ filled = 0 /\ cuts = <<>> /\ worker = <<>> /\ failed = FALSE
    /\ chunks = {} /\ spoilt = {} /\ indexed = FALSE /\ recipe = None
    /\ pc = "read"
    /\ read = NoRead

-----------------------------------------------------------------------------
(* Split.                                                                  *)

\* The hash after each byte from MinSize on.
Hash(data) ==
    LET h[i \in MinSize..(Len(data) - 1)] ==
          (2 * (IF i = MinSize THEN 0 ELSE h[i - 1]) + data[i + 1]) % HashSize
    IN  h

\* boundary: after the first byte that passes, or at the end.
Boundary(data) ==
    LET n      == Min({Len(data), MaxSize})
        normal == Min({AvgSize, n})
        strict == {i \in MinSize..(normal - 1) : Hash(data)[i] \in MaskS}
        loose  == {i \in normal..(n - 1) : Hash(data)[i] \in MaskL}
    IN  IF n <= MinSize THEN n ELSE Min(strict \union loose \union {n - 1}) + 1

\* Variant: the window is filled again only when it is empty.
RefillEmpty ==
    /\ pc = "read"
    /\ LET want == IF filled = 0 THEN MaxSize ELSE 0
           got  == Min({want, Len(raw) - At - filled})
       IN  /\ filled' = filled + got
           /\ pc' = CASE filled + got = 0 -> "wait"
                      [] filled + got > 0 /\ got < want -> "flush"
                      [] OTHER -> "cut"
    /\ UNCHANGED <<raw, cuts, worker, failed, bucket, read>>

\* The top of the loop tops the window up; a short read is the end.
Refill ==
    /\ pc = "read"
    /\ LET want == MaxSize - filled
           got  == Min({want, Len(raw) - At - filled})
       IN  /\ filled' = filled + got
           /\ pc' = CASE filled + got = 0 -> "wait"
                      [] filled + got > 0 /\ got < want -> "flush"
                      [] OTHER -> "cut"
    /\ UNCHANGED <<raw, cuts, worker, failed, bucket, read>>

\* The source cannot be read: Store waits for its uploads, then fails.
ReadFails ==
    /\ pc = "read"
    /\ failed' = TRUE /\ pc' = "wait"
    /\ UNCHANGED <<raw, splitter, worker, bucket, read>>

\* fn appends the chunk to the recipe and starts its upload, which waits
\* until fewer than Conc are running.
Emit(from, then) ==
    LET cut == Boundary(Slice(At, At + filled)) IN
    /\ pc = from
    /\ Cardinality({i \in DOMAIN worker : worker[i] # "done"}) < Conc
    /\ filled' = filled - cut
    /\ cuts' = Append(cuts, At + cut)
    /\ worker' = Append(worker, "head")
    /\ pc' = then
    /\ UNCHANGED <<raw, failed, bucket, read>>

Cut   == Emit("cut", "read")
Flush == filled > 0 /\ Emit("flush", "flush")
Flushed ==
    /\ pc = "flush" /\ filled = 0 /\ pc' = "wait"
    /\ UNCHANGED <<raw, splitter, worker, failed, bucket, read>>

-----------------------------------------------------------------------------
(* Store.                                                                  *)

\* The i-th chunk, which is also its digest.
ChunkOf(i) == Slice(IF i = 1 THEN 0 ELSE cuts[i - 1], cuts[i])

HeadChunk(i) ==
    /\ worker[i] = "head"
    /\ worker' = [worker EXCEPT ![i] = IF ChunkOf(i) \in chunks THEN "done" ELSE "put"]
    /\ UNCHANGED <<raw, splitter, failed, bucket, pc, read>>

PutChunk(i) ==
    /\ worker[i] = "put"
    /\ worker' = [worker EXCEPT ![i] = "done"]
    /\ chunks' = chunks \union {ChunkOf(i)}
    /\ spoilt' = spoilt \ {ChunkOf(i)}
    /\ UNCHANGED <<raw, splitter, failed, indexed, recipe, pc, read>>

\* A request fails, or the context was cancelled for another's failure.
WorkerFails(i) ==
    /\ worker[i] # "done"
    /\ worker' = [worker EXCEPT ![i] = "done"]
    /\ failed' = TRUE
    /\ UNCHANGED <<raw, splitter, bucket, pc, read>>

\* Variant: Store goes on when the splitter has returned.
WaitForNobody ==
    /\ pc = "wait"
    /\ pc' = IF failed THEN "error" ELSE "index"
    /\ UNCHANGED <<raw, splitter, worker, failed, bucket, read>>

Wait ==
    /\ pc = "wait"
    /\ \A i \in DOMAIN worker : worker[i] = "done"
    /\ pc' = IF failed THEN "error" ELSE "index"
    /\ UNCHANGED <<raw, splitter, worker, failed, bucket, read>>

\* BuildIndex and StoreIndex; a layer without files gets no index.
WriteIndex(ok) ==
    /\ pc = "index"
    /\ pc' = IF ok THEN "recipe" ELSE "error"
    /\ indexed' = (indexed \/ (ok /\ raw # <<>>))
    /\ UNCHANGED <<raw, splitter, worker, failed, chunks, spoilt, recipe, read>>

WriteRecipe(ok) ==
    /\ pc = "recipe"
    /\ pc' = IF ok THEN "stored" ELSE "error"
    /\ recipe' = IF ok THEN [i \in DOMAIN cuts |-> [digest |-> ChunkOf(i), size |-> Len(ChunkOf(i))]]
                 ELSE recipe
    /\ UNCHANGED <<raw, splitter, worker, failed, chunks, spoilt, indexed, read>>

-----------------------------------------------------------------------------
(* Readers.                                                                *)

\* chunkStarts.
ChunkStarts ==
    LET start[i \in 1..Len(recipe)] == IF i = 1 THEN 0 ELSE start[i - 1] + recipe[i - 1].size
    IN  start

RecipeSize == IF recipe = <<>> THEN 0 ELSE ChunkStarts[Len(recipe)] + Last(recipe).size

\* The bytes of the object of a chunk.
Stored(digest) == IF digest \in spoilt THEN [i \in DOMAIN digest |-> None] ELSE digest

\* Variant: what the object holds is not compared with the digest.
FetchesAny(ref) == ref.digest \in chunks

\* fetchChunk returns the chunk rather than an error, if its request is answered.
Fetches(ref) == ref.digest \in chunks /\ Stored(ref.digest) = ref.digest

\* Fetch, whose chunks land at their offsets in any order ...
FetchBegin ==
    /\ recipe # None /\ read = NoRead
    /\ read' = [op |-> "fetch", todo |-> DOMAIN recipe,
                file |-> [i \in 1..RecipeSize |-> None]]
    /\ UNCHANGED <<raw, splitter, worker, failed, bucket, pc>>

FetchChunk(i, answered) ==
    /\ read.op = "fetch" /\ i \in read.todo
    /\ read' = IF ~(answered /\ Fetches(recipe[i]))
               THEN [op |-> "done", data |-> None, faults |-> ~answered]
               ELSE LET start == ChunkStarts[i]
                        size  == recipe[i].size
                    IN  [op |-> "fetch", todo |-> read.todo \ {i},
                         file |-> [j \in DOMAIN read.file |->
                                     IF j \in (start + 1)..(start + size)
                                     THEN Stored(recipe[i].digest)[j - start]
                                     ELSE read.file[j]]]
    /\ UNCHANGED <<raw, splitter, worker, failed, bucket, pc>>

\* ... and which verifies the layer's digest in the end.
FetchEnd ==
    /\ read.op = "fetch" /\ read.todo = {}
    /\ read' = [op |-> "done", data |-> IF read.file = raw THEN read.file ELSE None,
                faults |-> FALSE]
    /\ UNCHANGED <<raw, splitter, worker, failed, bucket, pc>>

\* Variant: a chunk that ends where the file starts counts as its first.
FirstChunkEarly(offset) ==
    Min({i \in DOMAIN recipe : ChunkStarts[i] + recipe[i].size >= offset} \union {Len(recipe) + 1})

\* The two searches of ExtractFile and ChunksFor: the first chunk whose end is
\* past the file's start, the last that begins before the file's end.
FirstChunk(offset) ==
    Min({i \in DOMAIN recipe : ChunkStarts[i] + recipe[i].size > offset} \union {Len(recipe) + 1})
LastChunk(end) ==
    Min({i \in DOMAIN recipe : ChunkStarts[i] >= end} \union {Len(recipe) + 1}) - 1

\* ExtractFile: the span of the chunks, cut to the file, if all requests for
\* them are answered.
ExtractFile(offset, size, answered) ==
    LET first == FirstChunk(offset)
        last  == LastChunk(offset + size)
        need  == first..last
        span  == FlattenSeq([i \in 1..(last - first + 1) |-> Stored(recipe[first + i - 1].digest)])
        lo    == offset - ChunkStarts[first]
        fails == \/ offset + size > RecipeSize \/ need = {}
                 \/ ~answered \/ ~\A i \in need : Fetches(recipe[i])
        got   == IF size = 0 THEN <<>> ELSE IF fails THEN None ELSE SubSeq(span, lo + 1, lo + size)
    IN  /\ recipe # None /\ read = NoRead
        /\ read' = [op |-> "file", offset |-> offset, size |-> size, data |-> got,
                    fetched |-> IF size = 0 THEN {} ELSE need, faults |-> ~answered]
        /\ UNCHANGED <<raw, splitter, worker, failed, bucket, pc>>

\* ChunksFor.
ChunksFor(offset, size) ==
    LET first == FirstChunk(offset)
        last  == LastChunk(offset + size)
    IN  IF size = 0 \/ first > last THEN 0 ELSE last - first + 1

-----------------------------------------------------------------------------

\* The object of a chunk is damaged or replaced in the bucket.
Damage(digest) ==
    /\ digest \in chunks \ spoilt
    /\ spoilt' = spoilt \union {digest}
    /\ UNCHANGED <<raw, splitter, worker, failed, chunks, indexed, recipe, pc, read>>

Next ==
    \/ Refill \/ ReadFails \/ Cut \/ Flush \/ Flushed \/ Wait
    \/ \E i \in DOMAIN worker : HeadChunk(i) \/ PutChunk(i) \/ WorkerFails(i)
    \/ \E ok \in BOOLEAN : WriteIndex(ok) \/ WriteRecipe(ok)
    \/ FetchBegin \/ FetchEnd
    \/ \E i \in DOMAIN worker, answered \in BOOLEAN : FetchChunk(i, answered)
    \/ \E offset, size \in 0..Len(raw), answered \in BOOLEAN :
         offset + size <= Len(raw) /\ ExtractFile(offset, size, answered)
    \/ \E digest \in chunks : Damage(digest)

Spec == Init /\ [][Next]_vars

-----------------------------------------------------------------------------

\* Chunk boundaries depend on nothing but the bytes after the last one, so that
\* equal content is cut alike wherever it stands and however it was read
\* (fastcdc.go: an edit only disturbs the chunks it touches); every chunk but
\* the last is larger than MinSize, none is larger than MaxSize, and nothing is
\* left over.
CutByContent ==
    /\ \A i \in DOMAIN cuts :
         LET start == IF i = 1 THEN 0 ELSE cuts[i - 1] IN
         /\ cuts[i] - start = Boundary(Slice(start, Len(raw)))
         /\ cuts[i] - start <= MaxSize
         /\ cuts[i] < Len(raw) => cuts[i] - start > MinSize
    /\ pc \notin {"read", "cut", "flush"} /\ ~failed => At = Len(raw)

\* A recipe appears only when all its chunks are in the bucket, and the index,
\* whatever uploads failed or found their chunk there (Store).
RecipeLast ==
    recipe # None =>
        /\ \A i \in DOMAIN recipe : recipe[i].digest \in chunks
        /\ raw = <<>> \/ indexed

\* A layer put together, or a file read out of it, is what was stored, or it is
\* an error: a damaged chunk is never handed on (fetchChunk, verifyFile). With
\* every request answered it is an error only if some object is damaged.
ReadsRight ==
    /\ read.op = "done" => read.data \in {raw, None}
    /\ read.op = "file" => read.data \in {Slice(read.offset, read.offset + read.size), None}
    /\ read.op \in {"done", "file"} /\ read.data = None => spoilt # {} \/ read.faults

\* A file's read fetches the chunks its bytes lie in and no other, and as many
\* as cat reports (ExtractFile, ChunksFor).
FewestChunks ==
    read.op = "file" =>
        /\ read.fetched = {i \in DOMAIN recipe :
             \E j \in read.offset..(read.offset + read.size - 1) :
                 ChunkStarts[i] <= j /\ j < ChunkStarts[i] + recipe[i].size}
        /\ ChunksFor(read.offset, read.size) = Cardinality(read.fetched)
=============================================================================
