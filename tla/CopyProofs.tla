----------------------------- MODULE CopyProofs -----------------------------
(***************************************************************************)
(* Proofs about Copy, RegistryClient, which fetches for it, and Doctor,    *)
(* which examines what it and the other commands have left.                *)
(***************************************************************************)
EXTENDS Copy, RegistryClient, Doctor, FiniteSetTheorems, TLAPS

-----------------------------------------------------------------------------
(* The registry client.                                                    *)

ClientSpec == ClientInit /\ [][ClientNext]_clientVars

Pc == {"try", "sent", "wait", "challenge", "store"} \union Ended

FetchRecord == [pc : Pc, round : 1 .. 2, tries : 0 .. Retries, sent : 0 .. MaxTokens,
                own : 0 .. MaxTokens, requests : Nat, faults : Nat]

\* What a fetch has sent before its current round, at most.
Earlier(r) == IF r.round = 1 THEN 0 ELSE Retries + 1

\* A fetch knows no token that is not issued, sends its own in the second round,
\* has one fault for each try behind it, and one request for each try.
FetchOK(r) ==
    /\ r.own <= issued /\ r.sent <= issued
    /\ r.pc \in {"challenge", "store"} => r.round = 1
    /\ r.pc = "sent" /\ r.round = 2 => r.sent = r.own
    /\ r.pc = "unauthorized" => r.own \notin valid
    /\ r.pc \in {"try", "sent"} => r.faults = r.tries
    /\ r.pc = "wait" => r.faults = r.tries + 1 /\ r.tries < Retries
    /\ r.pc = "exhausted" => r.faults = Retries + 1
    /\ r.requests <= Earlier(r) + r.tries + (IF r.pc = "try" THEN 0 ELSE 1)

ClientInv ==
    /\ ClientTypeOK
    /\ token <= issued
    /\ \A f \in Fetch : FetchOK(fetch[f])

\* What the others do to the tokens leaves a fetch right: one is issued, expires
\* or replaces the shared one.
LEMMA StaysRight ==
    ASSUME NEW r \in FetchRecord, FetchOK(r), issued \in Nat, issued' \in Nat,
           issued <= issued', valid' \subseteq valid \union {issued + 1}
    PROVE  FetchOK(r)'
<1>1. r.own \in Nat /\ r.sent \in Nat
  BY ClientAssumption DEF FetchRecord
<1>2. r.own <= issued' /\ r.sent <= issued'
  BY <1>1 DEF FetchOK
<1>3. r.pc = "unauthorized" => r.own \notin valid'
  BY <1>1 DEF FetchOK
<1> QED BY <1>2, <1>3 DEF FetchOK, Earlier

\* One fetch moves to a record that is right, and the tokens change as they may.
LEMMA FetchMoves ==
    ASSUME ClientInv, NEW f \in Fetch, NEW r \in FetchRecord,
           fetch' = [fetch EXCEPT ![f] = r], FetchOK(r)',
           issued' \in 0 .. MaxTokens, issued <= issued',
           token' \in 0 .. issued', valid' \subseteq 1 .. issued',
           valid' \subseteq valid \union {issued + 1}, cancelled' \in BOOLEAN
    PROVE  ClientInv'
<1>1. /\ fetch \in [Fetch -> FetchRecord] /\ issued \in Nat /\ issued' \in Nat
      /\ fetch' \in [Fetch -> FetchRecord]
  BY ClientAssumption DEF ClientInv, ClientTypeOK, FetchRecord, Pc
<1>2. ClientTypeOK' /\ (token <= issued)'
  BY <1>1, ClientAssumption DEF ClientTypeOK, FetchRecord, Pc
<1>3. ASSUME NEW g \in Fetch PROVE FetchOK(fetch[g])'
  <2>1. CASE g = f
    BY <1>1, <2>1 DEF FetchOK, Earlier
  <2>2. CASE g # f
    <3>1. PICK q \in FetchRecord : q = fetch[g]
      BY <1>1
    <3>2. FetchOK(q)'
      BY <1>1, <3>1, StaysRight DEF ClientInv
    <3> QED BY <1>1, <2>2, <3>1, <3>2 DEF FetchOK, Earlier
  <2> QED BY <2>1, <2>2
<1> QED BY <1>2, <1>3 DEF ClientInv

LEMMA ClientInvInit == ClientInit => ClientInv
<1> SUFFICES ASSUME ClientInit PROVE ClientInv
  OBVIOUS
<1>1. token \in 0 .. MaxTokens /\ issued \in 0 .. MaxTokens /\ valid \subseteq 1 .. issued /\ token <= issued
  BY ClientAssumption DEF ClientInit
<1>2. fetch \in [Fetch -> FetchRecord]
  <2>1. [pc |-> "try", round |-> 1, tries |-> 0, sent |-> 0, own |-> 0, requests |-> 0, faults |-> 0] \in FetchRecord
    BY ClientAssumption DEF FetchRecord, Pc
  <2> QED BY <2>1 DEF ClientInit
<1>3. ClientTypeOK
  BY <1>1, <1>2 DEF ClientInit, ClientTypeOK, FetchRecord, Pc
<1>4. ASSUME NEW f \in Fetch PROVE FetchOK(fetch[f])
  BY ClientAssumption DEF ClientInit, FetchOK, Earlier
<1> QED BY <1>1, <1>3, <1>4 DEF ClientInv

\* The actions that leave the tokens alone: the record may be right or wrong by
\* them only in what the step changes.
LEMMA MovesRight ==
    ASSUME ClientInv, NEW f \in Fetch, NEW pc \in Pc, NEW faults \in Nat,
           At(f, "sent") \/ At(f, "wait") \/ At(f, "challenge"), Moves(f, pc, faults),
           pc \in {"sent", "challenge"} => At(f, "sent") /\ fetch[f].round = 1 /\ pc = "challenge",
           pc \notin {"try", "store"},
           pc = "wait" => faults = fetch[f].tries + 1 /\ fetch[f].tries < Retries,
           pc = "exhausted" => faults = Retries + 1,
           pc = "unauthorized" => fetch[f].own \notin valid
    PROVE  ClientInv'
<1>1. fetch[f] \in FetchRecord /\ FetchOK(fetch[f])
  BY DEF ClientInv, ClientTypeOK, FetchRecord, Pc
<1>2. PICK r : r = [fetch[f] EXCEPT !.pc = pc, !.faults = faults]
  OBVIOUS
<1>3. r \in FetchRecord
  BY <1>1, <1>2 DEF FetchRecord
<1>4. fetch' = [fetch EXCEPT ![f] = r]
  BY <1>2 DEF Moves, ClientInv, ClientTypeOK
<1>5. FetchOK(r)'
  BY <1>1, <1>2, <1>3, ClientAssumption DEF FetchOK, Earlier, FetchRecord, Moves, At, Pc
<1>6. cancelled' \in BOOLEAN
  BY ZenonT(20) DEF Moves
<1>7. /\ issued' \in 0 .. MaxTokens /\ issued <= issued' /\ token' \in 0 .. issued'
      /\ valid' \subseteq 1 .. issued' /\ valid' \subseteq valid \union {issued + 1}
  BY ClientAssumption DEF Moves, ClientInv, ClientTypeOK
<1> QED BY <1>3, <1>4, <1>5, <1>6, <1>7, FetchMoves

LEMMA FetchStep ==
    ASSUME ClientInv, NEW f \in Fetch,
           \/ Send(f) \/ Fault(f) \/ Retry(f) \/ GivesUp(f) \/ Accepted(f) \/ Denied(f) \/ Refused(f)
           \/ Issue(f) \/ NoToken(f) \/ ChallengeFails(f) \/ StoreToken(f)
    PROVE  ClientInv'
<1>1. fetch[f] \in FetchRecord /\ FetchOK(fetch[f])
  BY DEF ClientInv, ClientTypeOK, FetchRecord, Pc
<1>2. /\ issued \in 0 .. MaxTokens /\ token \in 0 .. issued /\ valid \subseteq 1 .. issued
      /\ cancelled \in BOOLEAN /\ fetch \in [Fetch -> FetchRecord]
  BY ClientAssumption DEF ClientInv, ClientTypeOK, FetchRecord, Pc
<1>3. CASE Send(f)
  <2>1. PICK pc \in Pc, requests \in Nat, sent \in 0 .. MaxTokens :
          pc = "sent" /\ requests = fetch[f].requests + 1 /\ sent = IF fetch[f].round = 1 THEN token ELSE fetch[f].own
    BY <1>1, <1>2, <1>3, ClientAssumption DEF Pc, FetchRecord, Send
  <2>2. PICK r : r = [fetch[f] EXCEPT !.pc = pc, !.requests = requests, !.sent = sent]
    OBVIOUS
  <2>3. r \in FetchRecord
    BY <1>1, <2>2 DEF FetchRecord
  <2>4. fetch' = [fetch EXCEPT ![f] = r]
    BY <1>2, <1>3, <2>1, <2>2 DEF Send
  <2>5. FetchOK(r)'
    BY <1>1, <1>2, <1>3, <2>1, <2>2, <2>3, ClientAssumption DEF FetchOK, FetchRecord, Earlier, Send, At
  <2>6. /\ issued' \in 0 .. MaxTokens /\ issued <= issued' /\ token' \in 0 .. issued'
        /\ valid' \subseteq 1 .. issued' /\ valid' \subseteq valid \union {issued + 1}
        /\ cancelled' \in BOOLEAN
    BY <1>1, <1>2, <1>3, ClientAssumption DEF Send
  <2> QED BY <2>3, <2>4, <2>5, <2>6, FetchMoves
<1>4. CASE Retry(f)
  <2>1. PICK pc \in Pc, tries \in 0 .. Retries :
          pc = "try" /\ tries = fetch[f].tries + 1
    BY <1>1, <1>2, <1>4, ClientAssumption DEF Pc, FetchRecord, Retry, FetchOK, At
  <2>2. PICK r : r = [fetch[f] EXCEPT !.pc = pc, !.tries = tries]
    OBVIOUS
  <2>3. r \in FetchRecord
    BY <1>1, <2>2 DEF FetchRecord
  <2>4. fetch' = [fetch EXCEPT ![f] = r]
    BY <1>2, <1>4, <2>1, <2>2 DEF Retry
  <2>5. FetchOK(r)'
    BY <1>1, <1>2, <1>4, <2>1, <2>2, <2>3, ClientAssumption DEF FetchOK, FetchRecord, Earlier, Retry, At
  <2>6. /\ issued' \in 0 .. MaxTokens /\ issued <= issued' /\ token' \in 0 .. issued'
        /\ valid' \subseteq 1 .. issued' /\ valid' \subseteq valid \union {issued + 1}
        /\ cancelled' \in BOOLEAN
    BY <1>1, <1>2, <1>4, ClientAssumption DEF Retry
  <2> QED BY <2>3, <2>4, <2>5, <2>6, FetchMoves
<1>5. CASE NoToken(f)
  <2>1. PICK pc \in Pc, own \in 0 .. MaxTokens :
          pc = "store" /\ own = 0
    BY <1>1, <1>2, <1>5, ClientAssumption DEF Pc, FetchRecord, NoToken
  <2>2. PICK r : r = [fetch[f] EXCEPT !.pc = pc, !.own = own]
    OBVIOUS
  <2>3. r \in FetchRecord
    BY <1>1, <2>2 DEF FetchRecord
  <2>4. fetch' = [fetch EXCEPT ![f] = r]
    BY <1>2, <1>5, <2>1, <2>2 DEF NoToken
  <2>5. FetchOK(r)'
    BY <1>1, <1>2, <1>5, <2>1, <2>2, <2>3, ClientAssumption DEF FetchOK, FetchRecord, Earlier, NoToken, At
  <2>6. /\ issued' \in 0 .. MaxTokens /\ issued <= issued' /\ token' \in 0 .. issued'
        /\ valid' \subseteq 1 .. issued' /\ valid' \subseteq valid \union {issued + 1}
        /\ cancelled' \in BOOLEAN
    BY <1>1, <1>2, <1>5, ClientAssumption DEF NoToken
  <2> QED BY <2>3, <2>4, <2>5, <2>6, FetchMoves
<1>6. CASE Issue(f)
  <2>1. PICK pc \in Pc, own \in 0 .. MaxTokens :
          pc = "store" /\ own = issued + 1
    BY <1>1, <1>2, <1>6, ClientAssumption DEF Pc, FetchRecord, Issue
  <2>2. PICK r : r = [fetch[f] EXCEPT !.pc = pc, !.own = own]
    OBVIOUS
  <2>3. r \in FetchRecord
    BY <1>1, <2>2 DEF FetchRecord
  <2>4. fetch' = [fetch EXCEPT ![f] = r]
    BY <1>2, <1>6, <2>1, <2>2 DEF Issue
  <2>5. FetchOK(r)'
    BY <1>1, <1>2, <1>6, <2>1, <2>2, <2>3, ClientAssumption DEF FetchOK, FetchRecord, Earlier, Issue, At
  <2>6. /\ issued' \in 0 .. MaxTokens /\ issued <= issued' /\ token' \in 0 .. issued'
        /\ valid' \subseteq 1 .. issued' /\ valid' \subseteq valid \union {issued + 1}
        /\ cancelled' \in BOOLEAN
    BY <1>1, <1>2, <1>6, ClientAssumption DEF Issue
  <2> QED BY <2>3, <2>4, <2>5, <2>6, FetchMoves
<1>7. CASE StoreToken(f)
  <2>1. PICK pc \in Pc, round \in 1 .. 2, tries \in 0 .. Retries, faults \in Nat :
          pc = "try" /\ round = 2 /\ tries = 0 /\ faults = 0
    BY <1>1, <1>2, <1>7, ClientAssumption DEF Pc, FetchRecord, StoreToken
  <2>2. PICK r : r = [fetch[f] EXCEPT !.pc = pc, !.round = round, !.tries = tries, !.faults = faults]
    OBVIOUS
  <2>3. r \in FetchRecord
    BY <1>1, <2>2 DEF FetchRecord
  <2>4. fetch' = [fetch EXCEPT ![f] = r]
    BY <1>2, <1>7, <2>1, <2>2 DEF StoreToken
  <2>5. FetchOK(r)'
    BY <1>1, <1>2, <1>7, <2>1, <2>2, <2>3, ClientAssumption DEF FetchOK, FetchRecord, Earlier, StoreToken, At
  <2>6. /\ issued' \in 0 .. MaxTokens /\ issued <= issued' /\ token' \in 0 .. issued'
        /\ valid' \subseteq 1 .. issued' /\ valid' \subseteq valid \union {issued + 1}
        /\ cancelled' \in BOOLEAN
    BY <1>1, <1>2, <1>7, ClientAssumption DEF StoreToken, FetchOK, FetchRecord
  <2> QED BY <2>3, <2>4, <2>5, <2>6, FetchMoves
<1>8. CASE Fault(f)
  BY <1>1, <1>8, MovesRight, ClientAssumption DEF Fault, FetchOK, FetchRecord, Pc, Ended, At
<1>9. CASE GivesUp(f) \/ Accepted(f) \/ Denied(f) \/ ChallengeFails(f)
  BY <1>1, <1>9, MovesRight DEF GivesUp, Accepted, Denied, ChallengeFails, Goes, FetchRecord, Pc, Ended, At
<1>10. CASE Refused(f)
  BY <1>1, <1>10, MovesRight DEF Refused, Goes, FetchOK, FetchRecord, Pc, Ended, At
<1> QED BY <1>3, <1>4, <1>5, <1>6, <1>7, <1>8, <1>9, <1>10

LEMMA ClientInvNext == ClientInv /\ [ClientNext]_clientVars => ClientInv'
<1> SUFFICES ASSUME ClientInv, [ClientNext]_clientVars PROVE ClientInv'
  OBVIOUS
<1>1. ASSUME NEW t \in 1 .. MaxTokens, Expire(t) PROVE ClientInv'
  <2>1. ClientTypeOK' /\ (token <= issued)'
    BY <1>1 DEF Expire, ClientInv, ClientTypeOK
  <2>2. ASSUME NEW f \in Fetch PROVE FetchOK(fetch[f])'
    BY <1>1 DEF Expire, ClientInv, FetchOK, Earlier
  <2> QED BY <2>1, <2>2 DEF ClientInv
<1>2. CASE Interrupt \/ UNCHANGED clientVars
  <2>1. ClientTypeOK' /\ (token <= issued)'
    BY <1>2 DEF Interrupt, clientVars, ClientInv, ClientTypeOK
  <2>2. ASSUME NEW f \in Fetch PROVE FetchOK(fetch[f])'
    BY <1>2 DEF Interrupt, clientVars, ClientInv, FetchOK, Earlier
  <2> QED BY <2>1, <2>2 DEF ClientInv
<1> QED BY <1>1, <1>2, FetchStep DEF ClientNext

\* A fetch whose negotiated token the registry still takes is never given up as
\* unauthorized, whatever parallel fetches do to the shared token (doRequest):
\* for any number of fetches, retries and tokens.
THEOREM UnauthorizedCorrect == ClientSpec => []UnauthorizedRight
<1>1. ClientInv => UnauthorizedRight
  BY DEF ClientInv, FetchOK, UnauthorizedRight, At
<1> QED BY <1>1, ClientInvInit, ClientInvNext, PTL DEF ClientSpec

\* An outage shorter than a round's retries is survived, and a fetch sends no
\* more than the requests of two rounds (doWithRetry).
THEOREM RetriesCorrect == ClientSpec => []RetriesRight
<1>1. ClientInv => RetriesRight
  <2> SUFFICES ASSUME ClientInv, NEW f \in Fetch
               PROVE  /\ At(f, "exhausted") => fetch[f].faults = Retries + 1
                      /\ fetch[f].requests <= 2 * (Retries + 1)
    BY DEF RetriesRight
  <2>1. fetch[f] \in FetchRecord /\ FetchOK(fetch[f])
    BY DEF ClientInv, ClientTypeOK, FetchRecord, Pc
  <2> QED BY <2>1, ClientAssumption DEF FetchOK, FetchRecord, Earlier, At
<1> QED BY <1>1, ClientInvInit, ClientInvNext, PTL DEF ClientSpec

-----------------------------------------------------------------------------
(* Copy.                                                                   *)

\* What the tasks of a copy rely on: the record of the running copy has its
\* fields, and a task is known by what it has stored.
Running == copy.pc \in {"manifests", "blobs"}

CopyShape ==
    /\ copy.pc \in {"idle", "kids", "manifests", "blobs", "list", "sidecars"}
    /\ copy.pc = "kids" =>
         copy = [pc |-> "kids", from |-> copy.from, manifest |-> copy.manifest, want |-> copy.want]
    /\ Running =>
         /\ copy = [pc |-> copy.pc, from |-> copy.from, manifest |-> copy.manifest, want |-> copy.want,
                    tasks |-> copy.tasks, step |-> copy.step]
         /\ copy.step \in [DOMAIN copy.tasks -> TaskStep]
         /\ \A i \in DOMAIN copy.tasks : copy.tasks[i] \in Platform \union Layer
    /\ copy.pc = "kids" \/ Running =>
         /\ copy.from \in {"bucket", "registry"} /\ copy.manifest \in Manifest
         /\ copy.want \subseteq Platform
    /\ copy.pc = "list" => copy = [pc |-> "list", drop |-> copy.drop]
    /\ copy.pc = "sidecars" => copy = [pc |-> "sidecars", drop |-> copy.drop, todo |-> copy.todo]

AllChunks(d) == \A c \in ChunksOf[d] : Obj("chunk", c) \in dest

\* The content of digest x can be read from the destination.
InPlace(x) == IF x \in Layer THEN Readable(x) ELSE Obj("blob", x) \in dest

TasksRight ==
    Running => \A i \in DOMAIN copy.tasks :
        /\ copy.step[i] \in {"chunks", "index", "recipe"} => copy.tasks[i] \in Layer
        /\ copy.step[i] \in {"index", "recipe"} => AllChunks(copy.tasks[i])
        /\ copy.step[i] = "done" => InPlace(copy.tasks[i])

Tasked(x) == \E i \in DOMAIN copy.tasks : copy.tasks[i] = x

Kids == Selected(copy.manifest, copy.want)

\* The platforms whose layers a copy takes.
Taken == IF copy.manifest.kind = "index" THEN Kids ELSE copy.manifest.of

\* Whatever the manifest to be written names is there or has a task.
TasksComplete ==
    /\ Running /\ copy.manifest.kind = "index" => Kids # {}
    /\ copy.pc = "manifests" => copy.manifest.kind = "index" /\ \A p \in Kids : Tasked(p)
    /\ copy.pc = "blobs" =>
         /\ copy.manifest.kind = "index" => \A p \in Kids : Obj("blob", p) \in dest \/ Tasked(p)
         /\ \A p \in Taken : \A d \in Range(LayersOf[p]) : Tasked(d)

Sources == src \subseteq Key /\ tag \in Manifest

CopyInv == Sources /\ CopyShape /\ TasksRight /\ TasksComplete /\ RecipeResolves /\ DestComplete

-----------------------------------------------------------------------------

LEMMA ObjsDiffer ==
    ASSUME NEW a, NEW b, NEW x, NEW y
    PROVE  Obj(a, x) = Obj(b, y) <=> a = b /\ x = y
BY DEF Obj

LEMMA RecipeOfLayer ==
    ASSUME NEW x, Obj("recipe", x) \in Key
    PROVE  x \in Layer
<1>1. PICK key \in Key : key = Obj("recipe", x)
  OBVIOUS
<1>2. key.kind = "recipe" /\ key.id = x
  BY <1>1 DEF Obj
<1>3. \A p : Obj("blob", p).kind = "blob" /\ Obj("chunk", p).kind = "chunk"
  BY DEF Obj
<1>4. PICK kind \in {"blob", "recipe", "index"}, d \in Layer : key = Obj(kind, d)
  BY <1>1, <1>2, <1>3 DEF Key
<1> QED BY <1>1, <1>4, ObjsDiffer

LEMMA KeysAreKeys ==
    ASSUME NEW m \in Manifest
    PROVE  KeysOf(m) \subseteq Key
<1>1. m.of \subseteq Platform
  BY DEF Manifest, Image, Index
<1>2. ASSUME NEW p \in Platform PROVE Range(LayersOf[p]) \subseteq Layer
  BY ImageAssumption DEF Range
<1>3. ASSUME NEW d \in Layer PROVE LayerKeys(d) \subseteq Key
  BY ImageAssumption DEF LayerKeys, Key, Chunked
<1>4. {Obj("blob", p) : p \in IF m.kind = "index" THEN m.of ELSE {}} \subseteq Key
  BY <1>1 DEF Key
<1> QED BY <1>1, <1>2, <1>3, <1>4 DEF KeysOf

\* The destination only grows, so what can be read stays readable.
LEMMA ReadableStays ==
    ASSUME NEW x, dest \subseteq dest'
    PROVE  /\ Readable(x) => Readable(x)'
           /\ InPlace(x) => InPlace(x)'
           /\ AllChunks(x) => AllChunks(x)'
BY DEF Readable, InPlace, AllChunks

\* The copy ends, or is not running: the bucket stays as it is.
LEMMA CopyEnds ==
    ASSUME CopyInv, copy' = NoCopy, src' = src, tag' = tag, dest' = dest, destTag' = destTag
    PROVE  CopyInv'
<1>1. Sources' /\ RecipeResolves' /\ DestComplete'
  BY DEF CopyInv, Sources, RecipeResolves, DestComplete, Readable
<1>2. CopyShape' /\ ~Running'
  BY DEF NoCopy, CopyShape, Running
<1>3. TasksRight' /\ TasksComplete'
  BY <1>2 DEF TasksRight, TasksComplete, Running
<1> QED BY <1>1, <1>2, <1>3 DEF CopyInv

\* One task goes a step on, and the destination grows by what it stored.
LEMMA Advances ==
    ASSUME CopyInv, Running, NEW i \in DOMAIN copy.tasks, NEW to \in TaskStep, Goto(i, to),
           src' = src, tag' = tag, destTag' = destTag, dest \subseteq dest',
           RecipeResolves', NEW x, x = copy.tasks[i],
           to \in {"chunks", "index", "recipe"} => x \in Layer,
           to \in {"index", "recipe"} => AllChunks(x)',
           to = "done" => InPlace(x)'
    PROVE  CopyInv'
<1>1. /\ copy'.pc = copy.pc /\ copy'.from = copy.from /\ copy'.manifest = copy.manifest
      /\ copy'.want = copy.want /\ copy'.tasks = copy.tasks
      /\ copy'.step = [copy.step EXCEPT ![i] = to]
      /\ copy' = [pc |-> copy.pc, from |-> copy.from, manifest |-> copy.manifest, want |-> copy.want,
                  tasks |-> copy.tasks, step |-> [copy.step EXCEPT ![i] = to]]
  BY DEF Goto, CopyInv, CopyShape
<1>2. Sources' /\ RecipeResolves' /\ DestComplete'
  BY ReadableStays DEF CopyInv, Sources, DestComplete
<1>3. CopyShape' /\ Running'
  BY <1>1 DEF CopyInv, CopyShape, Running
<1>4. TasksRight'
  <2> SUFFICES ASSUME NEW j \in DOMAIN copy.tasks, NEW y, y = copy.tasks[j]
               PROVE  /\ copy'.step[j] \in {"chunks", "index", "recipe"} => y \in Layer
                      /\ copy'.step[j] \in {"index", "recipe"} => AllChunks(y)'
                      /\ copy'.step[j] = "done" => InPlace(y)'
    BY <1>1, <1>3 DEF TasksRight
  <2>1. CASE j = i
    BY <1>1, <2>1 DEF CopyInv, CopyShape
  <2>2. CASE j # i
    <3>1. copy'.step[j] = copy.step[j]
      BY <1>1, <2>2 DEF CopyInv, CopyShape
    <3> QED BY <3>1, ReadableStays DEF CopyInv, TasksRight
  <2> QED BY <2>1, <2>2
<1>5. TasksComplete'
  BY <1>1, <1>3 DEF CopyInv, TasksComplete, Running, Tasked, Kids, Taken, Selected
<1> QED BY <1>2, <1>3, <1>4, <1>5 DEF CopyInv

LEMMA TaskInv ==
    ASSUME CopyInv, Running, NEW i \in DOMAIN copy.tasks, CopyTask(i)
    PROVE  CopyInv'
<1>1. PICK x \in Platform \union Layer : x = copy.tasks[i]
  BY DEF CopyInv, CopyShape
<1>2. /\ src \subseteq Key
      /\ copy.step[i] \in {"chunks", "index", "recipe"} => x \in Layer
      /\ copy.step[i] \in {"index", "recipe"} => AllChunks(x)
  BY <1>1 DEF CopyInv, Sources, TasksRight
<1>3. ASSUME dest' = dest PROVE RecipeResolves'
  BY <1>3 DEF CopyInv, RecipeResolves, Readable
<1>4. ASSUME NEW kind, NEW id, kind # "recipe", dest' \subseteq dest \union {Obj(kind, id)}, dest \subseteq dest'
      PROVE  RecipeResolves'
  BY <1>4, ObjsDiffer, ReadableStays DEF CopyInv, RecipeResolves
<1>5. Fails => CopyInv'
  BY CopyEnds DEF Fails, source, destination
<1>6. CASE HeadBlob(i)
  <2>1. CASE Obj("blob", x) \in dest
    BY <1>1, <1>3, <1>6, <2>1, Advances DEF HeadBlob, TaskStep, source, destination, InPlace, Readable
  <2>2. CASE Obj("blob", x) \notin dest
    BY <1>1, <1>3, <1>6, <2>2, Advances DEF HeadBlob, TaskStep, source, destination
  <2> QED BY <2>1, <2>2
<1>7. CASE LoadRecipe(i)
  <2>1. CASE Obj("recipe", x) \in src
    BY <1>1, <1>2, <1>3, <1>7, <2>1, RecipeOfLayer, Advances DEF LoadRecipe, TaskStep, source, destination
  <2>2. CASE Obj("recipe", x) \notin src
    BY <1>1, <1>3, <1>7, <2>2, Advances DEF LoadRecipe, TaskStep, source, destination
  <2> QED BY <2>1, <2>2
<1>8. CASE CopyWhole(i)
  <2> SUFFICES ASSUME ~Fails PROVE CopyInv'
    BY <1>5
  <2>1. /\ dest' = dest \union {Obj("blob", x)} /\ Goto(i, "done")
        /\ src' = src /\ tag' = tag /\ destTag' = destTag
    BY <1>1, <1>8 DEF CopyWhole, Transfer, source
  <2>2. InPlace(x)'
    BY <2>1 DEF InPlace, Readable
  <2> QED BY <1>1, <1>4, <2>1, <2>2, Advances DEF TaskStep
<1>9. CASE \E c \in Chunk : CopyChunk(i, c)
  <2> SUFFICES ASSUME ~Fails, NEW c \in Chunk, CopyChunk(i, c) PROVE CopyInv'
    BY <1>5, <1>9
  <2>1. /\ dest' = dest \union {Obj("chunk", c)} /\ Goto(i, "chunks")
        /\ src' = src /\ tag' = tag /\ destTag' = destTag /\ x \in Layer
    BY <1>1, <1>2 DEF CopyChunk, Task, Transfer, source
  <2> QED BY <1>1, <1>4, <2>1, Advances DEF TaskStep
<1>10. CASE ChunksDone(i)
  <2>1. /\ dest' = dest /\ Goto(i, "index") /\ src' = src /\ tag' = tag /\ destTag' = destTag
        /\ x \in Layer /\ AllChunks(x)
    BY <1>1, <1>2, <1>10 DEF ChunksDone, Task, source, destination, AllChunks
  <2> QED BY <1>1, <1>3, <2>1, ReadableStays, Advances DEF TaskStep
<1>11. CASE CopyIndex(i)
  <2>1. /\ dest' \subseteq dest \union {Obj("index", x)} /\ dest \subseteq dest' /\ Goto(i, "recipe")
        /\ src' = src /\ tag' = tag /\ destTag' = destTag /\ x \in Layer /\ AllChunks(x)
    BY <1>1, <1>2, <1>11 DEF CopyIndex, Task, source
  <2> QED BY <1>1, <1>4, <2>1, ReadableStays, Advances DEF TaskStep
<1>12. CASE CopyRecipe(i)
  <2> SUFFICES ASSUME ~Fails PROVE CopyInv'
    BY <1>5
  <2>1. /\ dest' = dest \union {Obj("recipe", x)} /\ Goto(i, "done")
        /\ src' = src /\ tag' = tag /\ destTag' = destTag /\ x \in Layer /\ AllChunks(x)
    BY <1>1, <1>2, <1>12 DEF CopyRecipe, Task, Transfer, source
  <2>2. Readable(x)'
    BY <2>1, ReadableStays DEF AllChunks, Readable
  <2>3. RecipeResolves'
    BY <2>1, <2>2, ObjsDiffer, ReadableStays DEF CopyInv, RecipeResolves
  <2>4. InPlace(x)'
    BY <2>1, <2>2 DEF InPlace
  <2> QED BY <1>1, <2>1, <2>3, <2>4, Advances DEF TaskStep
<1> QED BY <1>6, <1>7, <1>8, <1>9, <1>10, <1>11, <1>12 DEF CopyTask

LEMMA ManifestParts ==
    ASSUME NEW m \in Manifest
    PROVE  /\ m.of \subseteq Platform /\ m.kind \in {"image", "index"}
           /\ m.kind = "image" => \E p \in Platform : m.of = {p}
           /\ \A p \in Platform : Range(LayersOf[p]) \subseteq Layer
BY ImageAssumption DEF Manifest, Image, Index, Range

\* A phase starts with a task for whatever the manifest to be written names.
LEMMA Starts ==
    ASSUME CopyInv, copy.pc = "kids" \/ Running, NEW pc \in {"manifests", "blobs"}, NEW tasks, Start(pc, tasks),
           \A i \in DOMAIN tasks : tasks[i] \in Platform \union Layer,
           copy.manifest.kind = "index" => Kids # {},
           pc = "manifests" =>
               copy.manifest.kind = "index" /\ \A p \in Kids : \E i \in DOMAIN tasks : tasks[i] = p,
           pc = "blobs" =>
               /\ copy.manifest.kind = "index" =>
                    \A p \in Kids : Obj("blob", p) \in dest \/ \E i \in DOMAIN tasks : tasks[i] = p
               /\ \A p \in Taken : \A d \in Range(LayersOf[p]) : \E i \in DOMAIN tasks : tasks[i] = d
    PROVE  CopyInv'
<1>1. /\ copy'.pc = pc /\ copy'.from = copy.from /\ copy'.manifest = copy.manifest
      /\ copy'.want = copy.want /\ copy'.tasks = tasks
      /\ copy'.step = [i \in DOMAIN tasks |-> "head"]
      /\ copy' = [pc |-> pc, from |-> copy.from, manifest |-> copy.manifest, want |-> copy.want,
                  tasks |-> tasks, step |-> [i \in DOMAIN tasks |-> "head"]]
      /\ dest' = dest /\ destTag' = destTag /\ src' = src /\ tag' = tag
  BY DEF Start, source, destination
<1>2. Sources' /\ RecipeResolves' /\ DestComplete'
  BY <1>1, ReadableStays DEF CopyInv, Sources, DestComplete, RecipeResolves
<1>3. CopyShape' /\ Running'
  BY <1>1 DEF CopyInv, CopyShape, Running, TaskStep
<1>4. TasksRight'
  BY <1>1, <1>3 DEF TasksRight
<1>5. TasksComplete'
  BY <1>1, <1>3 DEF TasksComplete, Running, Tasked, Kids, Taken, Selected
<1> QED BY <1>2, <1>3, <1>4, <1>5 DEF CopyInv

LEMMA GatherInv == CopyInv /\ Gather => CopyInv'
<1> SUFFICES ASSUME CopyInv, Gather PROVE CopyInv'
  OBVIOUS
<1>1. /\ copy.manifest \in Manifest /\ copy.pc = "kids"
      /\ copy.want \subseteq Platform
  BY DEF Gather, CopyInv, CopyShape
<1>2. Kids \subseteq copy.manifest.of
  BY DEF Kids, Selected
<1>3. CASE copy.manifest.kind = "image"
  <2>1. PICK p \in Platform : copy.manifest.of = {p}
    BY <1>1, <1>3, ManifestParts
  <2>2. Start("blobs", LayersOf[p]) /\ Taken = {p}
    BY <1>3, <2>1 DEF Gather, Taken
  <2>3. \A d \in Range(LayersOf[p]) : \E i \in DOMAIN LayersOf[p] : LayersOf[p][i] = d
    BY DEF Range
  <2>4. \A i \in DOMAIN LayersOf[p] : LayersOf[p][i] \in Layer
    BY ImageAssumption
  <2> QED BY <1>1, <1>3, <2>2, <2>3, <2>4, Starts
<1>4. CASE copy.manifest.kind = "index" /\ Fails
  BY <1>4, CopyEnds DEF Fails, source, destination
<1>5. CASE copy.manifest.kind = "index" /\ ~Fails
  <2>1. Kids # {} /\ Taken = Kids
    BY <1>1, <1>5 DEF Gather, Taken, Kids
  <2>2. CASE copy.from = "bucket"
    <3>1. PICK digests : digests = Kids \union LayersAmong(Kids)
      OBVIOUS
    <3>2. Start("blobs", Each(digests))
      BY <1>1, <1>5, <2>2, <3>1 DEF Gather, Kids
    <3>3. digests \subseteq Platform \union Layer
      BY <1>1, <1>2, <3>1, ManifestParts DEF LayersAmong
    <3>4. DOMAIN Each(digests) = digests /\ \A x \in digests : Each(digests)[x] = x
      BY DEF Each
    <3>5. \A p \in Kids : p \in digests /\ Range(LayersOf[p]) \subseteq digests
      BY <3>1 DEF LayersAmong
    <3> QED BY <1>1, <2>1, <3>2, <3>3, <3>4, <3>5, Starts
  <2>3. CASE copy.from # "bucket"
    <3>1. Start("manifests", Each(Kids))
      BY <1>1, <1>5, <2>1, <2>3 DEF Gather, Kids
    <3>2. DOMAIN Each(Kids) = Kids /\ \A x \in Kids : Each(Kids)[x] = x
      BY DEF Each
    <3> QED BY <1>1, <1>2, <1>5, <2>1, <3>1, <3>2, ManifestParts, Starts
  <2> QED BY <2>2, <2>3
<1> QED BY <1>1, <1>3, <1>4, <1>5, ManifestParts

LEMMA ManifestsStoredInv == CopyInv /\ ManifestsStored => CopyInv'
<1> SUFFICES ASSUME CopyInv, ManifestsStored PROVE CopyInv'
  OBVIOUS
<1>1. /\ copy.manifest \in Manifest /\ copy.pc = "manifests" /\ Running /\ AllDone
  BY DEF ManifestsStored, CopyInv, CopyShape, Running
<1>2. Kids \subseteq Platform
  BY <1>1, ManifestParts DEF Kids, Selected
<1>3. copy.manifest.kind = "index" /\ Kids # {} /\ Taken = Kids
  BY <1>1 DEF CopyInv, TasksComplete, Taken
<1>4. ASSUME NEW p \in Kids PROVE Obj("blob", p) \in dest
  <2>1. PICK i \in DOMAIN copy.tasks : copy.tasks[i] = p
    BY <1>1 DEF CopyInv, TasksComplete, Tasked
  <2>2. InPlace(p)
    BY <1>1, <2>1 DEF CopyInv, TasksRight, AllDone
  <2> QED BY <1>2, <2>2, ImageAssumption DEF InPlace
<1>5. PICK digests : digests = LayersAmong(Kids)
  OBVIOUS
<1>6. Start("blobs", Each(digests))
  BY <1>5 DEF ManifestsStored, Kids
<1>7. digests \subseteq Layer
  BY <1>1, <1>2, <1>5, ManifestParts DEF LayersAmong
<1>8. DOMAIN Each(digests) = digests /\ \A x \in digests : Each(digests)[x] = x
  BY DEF Each
<1>9. \A p \in Kids : Range(LayersOf[p]) \subseteq digests
  BY <1>5 DEF LayersAmong
<1> QED BY <1>1, <1>3, <1>4, <1>6, <1>7, <1>8, <1>9, Starts

LEMMA PublishInv == CopyInv /\ Publish => CopyInv'
<1> SUFFICES ASSUME CopyInv, Publish PROVE CopyInv'
  OBVIOUS
<1>1. /\ copy.manifest \in Manifest /\ copy.pc = "blobs" /\ Running /\ AllDone
      /\ src' = src /\ tag' = tag /\ dest' = dest
  BY DEF Publish, CopyInv, CopyShape, Running, source
<1>2. Kids \subseteq copy.manifest.of /\ Kids \subseteq Platform /\ Taken \subseteq Platform
  BY <1>1, ManifestParts DEF Kids, Selected, Taken
<1>3. ASSUME NEW x, Tasked(x) PROVE InPlace(x)
  BY <1>1, <1>3 DEF CopyInv, TasksRight, AllDone, Tasked
<1>4. ASSUME NEW p \in Taken, NEW d \in Range(LayersOf[p]) PROVE Readable(d)
  <2>1. d \in Layer /\ InPlace(d)
    BY <1>1, <1>2, <1>3, <1>4, ManifestParts DEF CopyInv, TasksComplete
  <2> QED BY <2>1 DEF InPlace
<1>5. ASSUME NEW p \in Kids, copy.manifest.kind = "index" PROVE Obj("blob", p) \in dest
  <2>1. Obj("blob", p) \in dest \/ InPlace(p)
    BY <1>1, <1>3, <1>5 DEF CopyInv, TasksComplete
  <2> QED BY <1>2, <2>1, ImageAssumption DEF InPlace
<1>6. PICK w : w = Written
  OBVIOUS
<1>7. /\ w.of \subseteq Taken
      /\ w.kind = "index" => copy.manifest.kind = "index" /\ w.of \subseteq Kids
  <2>1. CASE copy.manifest.kind = "image"
    BY <1>6, <2>1 DEF Written, Taken
  <2>2. CASE copy.manifest.kind = "index"
    <3>1. Taken = Kids /\ Kids # {} /\ IsFiniteSet(Kids)
      BY <1>1, <1>2, <2>2, ImageAssumption, FS_Subset DEF Taken, CopyInv, TasksComplete
    <3>2. CASE copy.want = {}
      <4>1. w = copy.manifest /\ Kids = copy.manifest.of
        BY <1>6, <3>2 DEF Written, Kids, Selected
      <4> QED BY <2>2, <3>1, <4>1
    <3>3. CASE copy.want # {} /\ Cardinality(Kids) = 1
      <4>1. w = Image(CHOOSE p \in Kids : TRUE)
        BY <1>6, <2>2, <3>3 DEF Written, Kids
      <4>2. (CHOOSE p \in Kids : TRUE) \in Kids
        BY <3>1
      <4> QED BY <3>1, <4>1, <4>2 DEF Image
    <3>4. CASE copy.want # {} /\ Cardinality(Kids) # 1
      <4>1. Cardinality(Kids) \in Nat /\ Cardinality(Kids) # 0
        BY <3>1, FS_CardinalityType, FS_EmptySet
      <4>2. w = Index(Kids)
        BY <1>6, <2>2, <3>4, <4>1 DEF Written, Kids
      <4> QED BY <2>2, <3>1, <4>2 DEF Index
    <3> QED BY <3>2, <3>3, <3>4
  <2> QED BY <1>1, <2>1, <2>2, ManifestParts
<1>8. DestComplete'
  <2>1. destTag' = w
    BY <1>6 DEF Publish
  <2>2. ASSUME NEW p \in w.of, NEW d \in Range(LayersOf[p]) PROVE Readable(d)'
    BY <1>1, <1>4, <1>7, <2>2, ReadableStays
  <2>3. ASSUME w.kind = "index", NEW p \in w.of PROVE Obj("blob", p) \in dest'
    BY <1>1, <1>5, <1>7, <2>3
  <2> QED BY <2>1, <2>2, <2>3 DEF DestComplete
<1>9. Sources' /\ RecipeResolves'
  BY <1>1, ReadableStays DEF CopyInv, Sources, RecipeResolves
<1>10. CopyShape' /\ ~Running'
  BY DEF Publish, NoCopy, CopyShape, Running
<1>11. TasksRight' /\ TasksComplete'
  BY <1>10 DEF TasksRight, TasksComplete, Running
<1> QED BY <1>8, <1>9, <1>10, <1>11 DEF CopyInv

\* What goes on at the source, and a copy outside its tasks, leaves the
\* destination's objects and its tag alone.
LEMMA Elsewhere ==
    ASSUME CopyInv, dest' = dest, destTag' = destTag, Sources', CopyShape',
           copy' = copy \/ ~Running'
    PROVE  CopyInv'
<1>1. RecipeResolves' /\ DestComplete'
  BY ReadableStays DEF CopyInv, RecipeResolves, DestComplete
<1>2. CASE ~Running'
  <2>1. TasksRight' /\ TasksComplete'
    BY <1>2 DEF TasksRight, TasksComplete, Running
  <2> QED BY <1>1, <2>1 DEF CopyInv
<1>3. CASE copy' = copy
  <2>1. TasksRight'
    BY <1>3, ReadableStays DEF CopyInv, TasksRight, Running
  <2>2. TasksComplete'
    BY <1>3 DEF CopyInv, TasksComplete, Running, Tasked, Kids, Taken, Selected
  <2> QED BY <1>1, <2>1, <2>2 DEF CopyInv
<1> QED BY <1>2, <1>3

LEMMA CopyInvInit == Init => CopyInv
<1> SUFFICES ASSUME Init PROVE CopyInv
  OBVIOUS
<1>1. Sources
  BY CopyAssumption, KeysAreKeys DEF Init, Sources
<1>2. CopyShape /\ ~Running
  BY DEF Init, NoCopy, CopyShape, Running
<1>3. TasksRight /\ TasksComplete
  BY <1>2 DEF TasksRight, TasksComplete, Running
<1>4. RecipeResolves /\ DestComplete
  BY DEF Init, RecipeResolves, DestComplete
<1> QED BY <1>1, <1>2, <1>3, <1>4 DEF CopyInv

LEMMA CopyInvNext == CopyInv /\ [Next]_vars => CopyInv'
<1> SUFFICES ASSUME CopyInv, [Next]_vars PROVE CopyInv'
  OBVIOUS
<1>1. ASSUME NEW from \in {"bucket", "registry"}, NEW m \in Manifest, NEW want \in Filter, Begin(from, m, want) PROVE CopyInv'
  <2>1. copy' = [pc |-> "kids", from |-> from, manifest |-> m, want |-> want]
    BY <1>1 DEF Begin
  <2>2. CopyShape' /\ ~Running'
    BY <2>1, CopyAssumption DEF CopyShape, Running
  <2> QED BY <1>1, <2>2, Elsewhere DEF Begin, source, destination, CopyInv, Sources
<1>2. CASE ListSidecars \/ (\E k \in SignKey : Sidecar(k))
  <2>1. CopyShape' /\ ~Running'
    BY <1>2 DEF ListSidecars, Sidecar, CopyInv, CopyShape, Running
  <2> QED BY <1>2, <2>1, Elsewhere DEF ListSidecars, Sidecar, source, destination, CopyInv, Sources
<1>3. CASE End \/ Crash
  BY <1>3, CopyEnds DEF End, Crash, Fails, source, destination
<1>4. ASSUME NEW m \in Pushable, SourcePush(m) PROVE CopyInv'
  BY <1>4, CopyAssumption, KeysAreKeys, Elsewhere DEF SourcePush, destination, CopyInv, Sources, CopyShape, Running
<1>5. CASE \/ \E k \in SignKey : SignRead(k)
           \/ \E ok \in BOOLEAN : SignStore(ok)
           \/ \E kind \in {"blob", "recipe", "index", "chunk"} : SourceCollect(kind)
           \/ UNCHANGED vars
  <2>1. dest' = dest /\ destTag' = destTag /\ copy' = copy /\ tag' = tag /\ src' \subseteq src
    BY <1>5 DEF SignRead, SignStore, SourceCollect, vars, destination
  <2> QED BY <2>1, Elsewhere DEF CopyInv, Sources, CopyShape, Running
<1>6. CASE copy.pc \in {"manifests", "blobs"} /\ \E i \in DOMAIN copy.tasks : CopyTask(i)
  BY <1>6, TaskInv DEF Running
<1>7. tag \in Manifest /\ Upstream \subseteq Manifest
  BY CopyAssumption DEF CopyInv, Sources
<1> QED BY <1>1, <1>2, <1>3, <1>4, <1>5, <1>6, <1>7, GatherInv, ManifestsStoredInv, PublishInv DEF Next

\* A copied tag can be pulled, whatever happened to the source, crashed or was
\* retried meanwhile (copyBetweenBackends): for any images, clients and runs of
\* copy.
THEOREM CopiedComplete == Spec => []DestComplete
<1>1. CopyInv => DestComplete
  BY DEF CopyInv
<1> QED BY <1>1, CopyInvInit, CopyInvNext, PTL DEF Spec

\* A recipe at the destination has its chunks (copyChunkedLayer).
THEOREM CopiedResolve == Spec => []RecipeResolves
<1>1. CopyInv => RecipeResolves
  BY DEF CopyInv
<1> QED BY <1>1, CopyInvInit, CopyInvNext, PTL DEF Spec

\* What a copy knows of the signatures of a source left in peace: the manifest
\* and, when nothing is to be dropped, every signature it has still to copy.
SignInv ==
    /\ destSigs \in [SignKey -> Manifest \union {None}]
    /\ sigs \in [SignKey -> Manifest \union {None}]
    /\ signer # None => signer.manifest \in Manifest
    /\ relocated => destSigs = NoSigs
    /\ quiet /\ (copy.pc = "kids" \/ Running) /\ copy.from = "bucket" => copy.manifest = tag
    /\ copy.pc \in {"list", "sidecars"} =>
         /\ relocated => copy.drop
         /\ quiet /\ ~copy.drop => destTag = tag
    /\ copy.pc = "sidecars" /\ quiet /\ ~copy.drop =>
         \A k \in SignKey : sigs[k] # None => k \in copy.todo \/ destSigs[k] = sigs[k]

LEMMA SignInvInit == Init => SignInv
BY DEF Init, SignInv, NoCopy, NoSigs, Running

\* The steps of a copy before it publishes, and those that end it.
LEMMA SignInvStays ==
    ASSUME SignInv, CopyInv, UNCHANGED <<source, destSigs, quiet>>,
           \/ copy' = NoCopy
           \/ /\ copy.pc = "kids" \/ Running
              /\ copy'.pc \in {"manifests", "blobs"}
              /\ copy'.from = copy.from /\ copy'.manifest = copy.manifest
    PROVE  SignInv'
BY DEF SignInv, source, NoCopy, Running

LEMMA SignInvNext == CopyInv /\ SignInv /\ [Next]_vars => SignInv'
<1> SUFFICES ASSUME CopyInv, SignInv, [Next]_vars PROVE SignInv'
  OBVIOUS
<1>1. ASSUME NEW from \in {"bucket", "registry"}, NEW m \in Manifest, NEW want \in Filter,
             from = "bucket" => m = tag, Begin(from, m, want)
      PROVE  SignInv'
  BY <1>1 DEF Begin, SignInv, source, destination, Running
<1>2. Fails => SignInv'
  BY SignInvStays DEF Fails, destination
<1>3. ASSUME NEW pc \in {"manifests", "blobs"}, NEW tasks, Start(pc, tasks), copy.pc = "kids" \/ Running
      PROVE  SignInv'
  BY <1>3, SignInvStays DEF Start, destination
<1>4. CASE Gather
  BY <1>2, <1>3, <1>4 DEF Gather
<1>5. CASE ManifestsStored
  BY <1>3, <1>5 DEF ManifestsStored, Running
<1>6. CASE copy.pc \in {"manifests", "blobs"} /\ \E i \in DOMAIN copy.tasks : CopyTask(i)
  <2> SUFFICES ASSUME NEW i \in DOMAIN copy.tasks, CopyTask(i), Running, ~Fails PROVE SignInv'
    BY <1>2, <1>6 DEF Running
  <2>1. UNCHANGED <<source, destSigs, quiet>> /\ \E to : Goto(i, to)
    BY DEF CopyTask, HeadBlob, LoadRecipe, CopyWhole, ChunksDone, CopyIndex, CopyRecipe, CopyChunk,
           Transfer, destination
  <2>2. copy'.pc = copy.pc /\ copy'.from = copy.from /\ copy'.manifest = copy.manifest
    BY <2>1 DEF Goto, CopyInv, CopyShape
  <2> QED BY <2>1, <2>2, SignInvStays DEF Running
<1>7. CASE Publish
  <2>1. PICK w : w = Written
    OBVIOUS
  <2>2. /\ destTag' = w /\ UNCHANGED <<source, destSigs, quiet>>
        /\ copy.from \in {"bucket", "registry"} /\ Running
    BY <1>7, <2>1 DEF Publish, CopyInv, CopyShape, Running
  <2>3. CASE copy.from = "registry"
    BY <1>7, <2>2, <2>3, SignInvStays DEF Publish
  <2>4. CASE copy.from = "bucket"
    <3>1. copy' = [pc |-> "list", drop |-> w # copy.manifest \/ relocated]
      BY <1>7, <2>1, <2>4 DEF Publish
    <3> QED BY <2>2, <2>4, <3>1 DEF SignInv, source, Running
  <2> QED BY <2>2, <2>3, <2>4
<1>8. CASE ListSidecars
  <2>1. copy' = [pc |-> "sidecars", drop |-> copy.drop, todo |-> {k \in SignKey : sigs[k] # None}]
    BY <1>8 DEF ListSidecars
  <2> QED BY <1>8, <2>1 DEF ListSidecars, SignInv, source, destination, Running
<1>9. ASSUME NEW k \in SignKey, Sidecar(k) PROVE SignInv'
  <2>1. copy' = [pc |-> "sidecars", drop |-> copy.drop, todo |-> copy.todo \ {k}]
    BY <1>9 DEF Sidecar, CopyInv, CopyShape
  <2> QED BY <1>9, <2>1 DEF Sidecar, SignInv, source, Running
<1>10. CASE End \/ Crash
  BY <1>2, <1>10 DEF End, Crash
<1>11. ASSUME NEW m \in Pushable, SourcePush(m) PROVE SignInv'
  BY <1>11 DEF SourcePush, SignInv, destination, Running
<1>12. ASSUME NEW k \in SignKey, SignRead(k) PROVE SignInv'
  BY <1>12 DEF SignRead, SignInv, CopyInv, Sources, destination, Running
<1>13. ASSUME NEW ok \in BOOLEAN, SignStore(ok) PROVE SignInv'
  <2>1. sigs' \in [SignKey -> Manifest \union {None}] /\ quiet' = FALSE
    BY <1>13 DEF SignStore, SignInv
  <2> QED BY <1>13, <2>1 DEF SignStore, SignInv, destination, Running
<1>14. ASSUME NEW kind, SourceCollect(kind) PROVE SignInv'
  BY <1>14 DEF SourceCollect, SignInv, destination, Running
<1>15. CASE UNCHANGED vars
  BY <1>15 DEF vars, SignInv, Running
<1>16. tag \in Manifest /\ Upstream \subseteq Manifest
  BY CopyAssumption DEF CopyInv, Sources
<1> QED BY <1>1, <1>4, <1>5, <1>6, <1>7, <1>8, <1>9, <1>10, <1>11, <1>12, <1>13, <1>14, <1>15, <1>16 DEF Next

\* A copy under another reference carries no signature, and one that keeps
\* reference and manifest carries them all, so that at the destination verifies
\* what does at the source (copyManifestSidecars): for any images, keys, clients
\* and runs of copy.
THEOREM SignaturesFollow == Spec => []SignedAsSource
<1>1. SignInv => SignedAsSource
  BY DEF SignInv, SignedAsSource
<1> QED BY <1>1, CopyInvInit, CopyInvNext, SignInvInit, SignInvNext, PTL DEF Spec

-----------------------------------------------------------------------------
(* Doctor. Nothing is locked, so what it concludes rests on what stayed as *)
(* it was from its first listing to its report: past keeps just that, and  *)
(* only shrinks while doctor runs.                                         *)

DoctorSpec == DoctorInit /\ [][DoctorNext]_doctorVars

Content(S) == S \union UNION {Range(LayersOf[p]) : p \in S}
Whole(n)   == \A d \in Needs(tags[n]) : Held(d)

Examining == exam.pc # "idle"
Reading   == exam.pc \in {"check", "orphans"}
Listings  == exam.pc \in {"check", "orphans", "report"}

ExamShape ==
    /\ exam.pc \in {"idle", "list all", "list blobs", "list recipes", "check", "orphans", "report"}
    /\ Examining =>
         /\ exam = [pc |-> exam.pc, scope |-> exam.scope, filtered |-> exam.filtered, all |-> exam.all,
                    stored |-> exam.stored, walk |-> exam.walk, issues |-> exam.issues, wanted |-> exam.wanted]
         /\ exam.walk = [n \in Name |-> exam.walk[n]]
         /\ ~Listings => exam.walk = [n \in Name |-> Unread]

\* What is known to have stayed is there still.
PastRight ==
    /\ past = [stood |-> past.stood, present |-> past.present, absent |-> past.absent,
               wanted |-> past.wanted, failed |-> past.failed]
    /\ past.failed \in BOOLEAN
    /\ past.stood \subseteq Name /\ \A n \in past.stood : tags[n] # None
    /\ past.present \subseteq bucket /\ past.absent \intersect bucket = {}
    /\ NeedsOf(tags) \subseteq past.wanted

\* The listings have what stayed, and nothing that was missing all the while.
ListedRight ==
    /\ exam.pc = "list all" => exam.filtered \/ past.stood \subseteq exam.scope
    /\ exam.pc # "list all" => past.stood \subseteq exam.all
    /\ exam.pc = "list recipes" => \A d : Obj("blob", d) \in past.present => d \in exam.stored
    /\ Listings => \A d : Held(d) => d \in exam.stored
    /\ \A d \in exam.stored : ~Missing(d)

\* A walk has got through the children it has dealt with.
WalkRight ==
    \A n \in Name : exam.walk[n].at = "child" =>
        /\ exam.walk[n].todo \subseteq Platform
        /\ exam.walk[n].refs \union Content(exam.walk[n].todo) \subseteq past.wanted
        /\ n \in past.stood =>
             /\ tags[n].kind = "index" /\ exam.walk[n].todo \subseteq tags[n].of
             /\ exam.walk[n].refs = Content(tags[n].of \ exam.walk[n].todo)

\* The second pass reads one manifest at a time.
OneByOne ==
    exam.pc = "orphans" => \A n, k \in Name :
        exam.walk[n].at = "child" => n \in exam.all /\ (exam.walk[k].at = "child" => k = n)

Judged(n)  == (exam.pc = "check" /\ exam.walk[n] = Read) \/ exam.pc \in {"orphans", "report"}
Counts(n)  == (exam.pc = "orphans" /\ exam.walk[n] = Read) \/ exam.pc = "report"

\* Of the images that stood, those judged are reported as they should be, and
\* those counted have all they need counted.
VerdictRight ==
    /\ \A n \in past.stood :
         /\ ~past.failed /\ Whole(n) => n \notin exam.issues
         /\ n \in exam.scope /\ Judged(n) => n \in exam.issues \/ \A d \in Needs(tags[n]) : ~Missing(d)
         /\ Counts(n) /\ ~past.failed /\ Whole(n) => Needs(tags[n]) \subseteq exam.wanted
    /\ exam.wanted \subseteq past.wanted

DoctorInv ==
    /\ bucket \subseteq Key
    /\ tags \in [Name -> Tagged \union {None}]
    /\ ExamShape
    /\ Examining => PastRight /\ ListedRight /\ WalkRight /\ OneByOne /\ VerdictRight

-----------------------------------------------------------------------------

LEMMA NeedsAre ==
    ASSUME NEW m \in Manifest
    PROVE  /\ m.kind = "index" => m.of \subseteq Platform /\ Needs(m) = Content(m.of)
           /\ m.kind \in {"image", "index"}
BY DEF Manifest, Image, Index, Needs, Content

\* A manifest is stored as a blob only.
LEMMA HeldManifest ==
    ASSUME DoctorInv, Examining, NEW p \in Platform, Held(p)
    PROVE  Obj("blob", p) \in bucket
<1>1. PICK kind \in {"blob", "recipe"} : Obj(kind, p) \in past.present
  BY DEF Held
<1>2. Obj(kind, p) \in Key /\ Obj(kind, p) \in bucket
  BY <1>1 DEF DoctorInv, PastRight
<1>3. Obj(kind, p).kind = kind /\ Obj(kind, p).id = p
  BY DEF Obj
<1>4. \A k, x : Obj(k, x).kind = k /\ Obj(k, x).id = x
  BY DEF Obj
<1>5. kind # "recipe"
  BY <1>2, <1>4, ImageAssumption DEF Key
<1> QED BY <1>1, <1>2, <1>5

\* What stayed for longer had stayed before.
LEMMA PastShrinks ==
    ASSUME NEW d, past'.present \subseteq past.present, past'.absent \subseteq past.absent
    PROVE  /\ Held(d)' => Held(d)
           /\ Missing(d)' => Missing(d)
BY DEF Held, Missing

LEMMA NeedsOfTag ==
    ASSUME NEW n \in Name, tags[n] # None
    PROVE  Needs(tags[n]) \subseteq NeedsOf(tags)
BY DEF NeedsOf

-----------------------------------------------------------------------------

LEMMA WritingInv ==
    ASSUME DoctorInv, NEW held \in [Name -> Tagged \union {None}], NEW objects \in SUBSET Key, Writing(held, objects)
    PROVE  DoctorInv'
<1>1. exam' = exam /\ tags' = held /\ bucket' = objects
  BY DEF Writing
<1>2. bucket' \subseteq Key /\ tags' \in [Name -> Tagged \union {None}] /\ ExamShape'
  BY <1>1 DEF DoctorInv, ExamShape, Examining, Listings
<1>3. CASE ~Examining
  BY <1>1, <1>2, <1>3 DEF DoctorInv, Examining
<1>4. CASE Examining
  <2>1. PICK s, pr, ab, wa, f : past = [stood |-> s, present |-> pr, absent |-> ab, wanted |-> wa, failed |-> f]
    BY <1>4 DEF DoctorInv, PastRight
  <2>2. past' = [stood |-> {n \in s : held[n] = tags[n]}, present |-> pr \intersect objects,
                 absent |-> ab \ objects, wanted |-> wa \union NeedsOf(held), failed |-> f]
    BY <1>4, <2>1 DEF Writing, Examining
  <2>3. /\ past'.stood \subseteq past.stood /\ past'.present \subseteq past.present
        /\ past'.absent \subseteq past.absent /\ past.wanted \subseteq past'.wanted
        /\ past'.failed = past.failed /\ \A n \in past'.stood : tags'[n] = tags[n]
    BY <1>1, <2>1, <2>2
  <2>4. PastRight'
    BY <1>1, <1>4, <2>1, <2>2 DEF DoctorInv, PastRight
  <2>5. ListedRight'
    BY <1>1, <1>4, <2>3, PastShrinks DEF DoctorInv, ListedRight, Listings
  <2>6. WalkRight' /\ OneByOne'
    BY <1>1, <1>4, <2>3 DEF DoctorInv, WalkRight, OneByOne
  <2>7. VerdictRight'
    <3>1. ASSUME NEW n \in past'.stood PROVE Whole(n)' => Whole(n)
      BY <2>3, <3>1, PastShrinks DEF Whole
    <3> QED BY <1>1, <1>4, <2>3, <3>1, PastShrinks DEF DoctorInv, VerdictRight, Judged, Counts
  <2> QED BY <1>1, <1>2, <2>4, <2>5, <2>6, <2>7 DEF DoctorInv
<1> QED BY <1>3, <1>4

LEMMA ExamineInv ==
    ASSUME DoctorInv, NEW scope \in Scopes, Examine(scope)
    PROVE  DoctorInv'
<1>1. /\ bucket' = bucket /\ tags' = tags
      /\ exam' = [pc |-> "list all", scope |-> Names \intersect scope, filtered |-> scope # Name, all |-> {},
                  stored |-> {}, walk |-> [n \in Name |-> Unread], issues |-> {}, wanted |-> {}]
      /\ past' = [stood |-> Names, present |-> bucket, absent |-> Key \ bucket,
                  wanted |-> NeedsOf(tags), failed |-> FALSE]
  BY DEF Examine, Knows
<1>2. bucket' \subseteq Key /\ tags' \in [Name -> Tagged \union {None}] /\ ExamShape'
  BY <1>1 DEF DoctorInv, ExamShape, Examining, Listings
<1>3. PastRight'
  BY <1>1 DEF PastRight, Names
<1>4. ListedRight'
  BY <1>1 DEF ListedRight, Names, Listings
<1>5. WalkRight' /\ OneByOne'
  BY <1>1 DEF WalkRight, OneByOne, Unread
<1>6. VerdictRight'
  BY <1>1 DEF VerdictRight, Judged, Counts
<1> QED BY <1>2, <1>3, <1>4, <1>5, <1>6 DEF DoctorInv

LEMMA ListingInv ==
    ASSUME DoctorInv, ListAll \/ ListBlobs \/ ListRecipes
    PROVE  DoctorInv'
<1>1. PICK pc, scope, filtered, all, stored, walk, issues, wanted :
        exam = [pc |-> pc, scope |-> scope, filtered |-> filtered, all |-> all,
                stored |-> stored, walk |-> walk, issues |-> issues, wanted |-> wanted]
  BY DEF DoctorInv, ExamShape, Examining, Listings, ListAll, ListBlobs, ListRecipes
<1>2. /\ Examining /\ bucket' = bucket /\ tags' = tags /\ past' = past
      /\ pc \in {"list all", "list blobs", "list recipes"}
  BY <1>1 DEF Examining, ListAll, ListBlobs, ListRecipes, Knows
<1>3. PICK to, a, st :
        /\ exam' = [pc |-> to, scope |-> scope, filtered |-> filtered, all |-> a,
                    stored |-> st, walk |-> walk, issues |-> issues, wanted |-> wanted]
        /\ \/ pc = "list all" /\ to = "list blobs" /\ a = (IF filtered THEN Names ELSE scope) /\ st = stored
           \/ pc = "list blobs" /\ to = "list recipes" /\ a = all /\ st = Listed({"blob"})
           \/ pc = "list recipes" /\ to = "check" /\ a = all /\ st = stored \union Listed({"recipe"})
  BY <1>1 DEF ListAll, ListBlobs, ListRecipes, Knows
<1>4. bucket' \subseteq Key /\ tags' \in [Name -> Tagged \union {None}] /\ ExamShape'
  BY <1>1, <1>2, <1>3 DEF DoctorInv, ExamShape, Examining, Listings
<1>5. PastRight' /\ WalkRight' /\ OneByOne'
  BY <1>1, <1>2, <1>3 DEF DoctorInv, PastRight, WalkRight, OneByOne
<1>6. \A d : Obj("blob", d).id = d /\ Obj("blob", d).kind = "blob"
             /\ Obj("recipe", d).id = d /\ Obj("recipe", d).kind = "recipe"
  BY DEF Obj
<1>7. ASSUME NEW kind \in {"blob", "recipe"}, NEW d \in Listed({kind}) PROVE ~Missing(d)
  <2>1. PICK k \in bucket : k.kind = kind /\ k.id = d
    BY <1>7 DEF Listed
  <2>2. k \in Key
    BY <2>1 DEF DoctorInv
  <2>3. k = Obj(kind, d)
    BY <2>1, <2>2 DEF Key, Obj
  <2> QED BY <1>2, <2>1, <2>2, <2>3 DEF Missing, DoctorInv, PastRight
<1>8. ASSUME NEW kind \in {"blob", "recipe"}, NEW d, Obj(kind, d) \in past.present PROVE d \in Listed({kind})
  <2>1. Obj(kind, d) \in bucket
    BY <1>2, <1>8 DEF DoctorInv, PastRight
  <2>2. Obj(kind, d).kind = kind /\ Obj(kind, d).id = d
    BY <1>6
  <2> QED BY <2>1, <2>2 DEF Listed
<1>9. ListedRight'
  <2>1. past.stood \subseteq Names
    BY <1>2 DEF DoctorInv, PastRight, Names
  <2>2. past'.stood \subseteq exam'.all
    BY <1>1, <1>2, <1>3, <2>1 DEF DoctorInv, ListedRight
  <2>3. \A d \in exam'.stored : ~Missing(d)
    BY <1>1, <1>2, <1>3, <1>7 DEF DoctorInv, ListedRight
  <2>4. exam'.pc = "list recipes" => \A d : Obj("blob", d) \in past.present => d \in exam'.stored
    BY <1>3, <1>8
  <2>5. exam'.pc = "check" => \A d : Held(d) => d \in exam'.stored
    BY <1>1, <1>2, <1>3, <1>8 DEF DoctorInv, ListedRight, Held
  <2> QED BY <1>2, <1>3, <2>2, <2>3, <2>4, <2>5 DEF ListedRight, Listings, Held, Missing
<1>10. VerdictRight'
  <2>1. walk = [n \in Name |-> Unread] /\ past.stood \subseteq Name
    BY <1>1, <1>2 DEF DoctorInv, ExamShape, Examining, Listings, PastRight
  <2>2. \A n \in past.stood : exam'.walk[n] # Read
    BY <1>3, <2>1 DEF Unread, Read
  <2> QED BY <1>1, <1>2, <1>3, <2>2 DEF DoctorInv, VerdictRight, Judged, Counts, Whole, Held, Missing
<1> QED BY <1>4, <1>5, <1>9, <1>10 DEF DoctorInv

\* A walk ends: all references are known, or it failed and the reference cannot
\* have stood whole, unless the request did.
LEMMA WalkedInv ==
    ASSUME DoctorInv, Reading, NEW n \in Name, NEW refs, NEW failed \in BOOLEAN, Walked(n, refs, failed),
           NEW ok \in BOOLEAN, Answered(ok), refs \subseteq past.wanted,
           n \in past.stood /\ ~failed => refs = Needs(tags[n]),
           n \in past.stood /\ failed => ~ok \/ ~Whole(n)
    PROVE  DoctorInv'
<1>1. PICK pc, scope, filtered, all, stored, walk, issues, wanted :
        exam = [pc |-> pc, scope |-> scope, filtered |-> filtered, all |-> all,
                stored |-> stored, walk |-> walk, issues |-> issues, wanted |-> wanted]
  BY DEF DoctorInv, ExamShape, Examining, Reading
<1>2. PICK s, pr, ab, wa, f : past = [stood |-> s, present |-> pr, absent |-> ab, wanted |-> wa, failed |-> f]
  BY DEF DoctorInv, PastRight, Examining, Reading
<1>3. /\ Examining /\ bucket' = bucket /\ tags' = tags /\ pc \in {"check", "orphans"}
      /\ walk = [k \in Name |-> walk[k]] /\ f \in BOOLEAN
  BY <1>1, <1>2 DEF Examining, Reading, Walked, Knows, DoctorInv, ExamShape, PastRight
<1>4. PICK is, wn :
        /\ exam' = [pc |-> pc, scope |-> scope, filtered |-> filtered, all |-> all,
                    stored |-> stored, walk |-> [walk EXCEPT ![n] = Read], issues |-> is, wanted |-> wn]
        /\ is = IF pc = "check" /\ (failed \/ ~(refs \subseteq stored)) THEN issues \union {n} ELSE issues
        /\ wn = IF pc = "orphans" THEN wanted \union refs ELSE wanted
  BY <1>1 DEF Walked, Knows
<1>5. past' = [stood |-> s, present |-> pr, absent |-> ab, wanted |-> wa, failed |-> f \/ ~ok]
  BY <1>2 DEF Answered
<1>6. bucket' \subseteq Key /\ tags' \in [Name -> Tagged \union {None}] /\ ExamShape'
  BY <1>3, <1>4 DEF DoctorInv, ExamShape, Examining, Listings
<1>7. PastRight'
  BY <1>2, <1>3, <1>5 DEF DoctorInv, PastRight
<1>8. ASSUME NEW d PROVE (Held(d)' <=> Held(d)) /\ (Missing(d)' <=> Missing(d))
  BY <1>2, <1>5 DEF Held, Missing
<1>9. ListedRight'
  BY <1>1, <1>2, <1>3, <1>4, <1>5, <1>8 DEF DoctorInv, ListedRight, Listings
<1>10. ASSUME NEW k \in Name
       PROVE  exam'.walk[k] = IF k = n THEN Read ELSE walk[k]
  BY <1>3, <1>4
<1>11. WalkRight'
  <2> SUFFICES ASSUME NEW k \in Name, exam'.walk[k].at = "child"
               PROVE  /\ exam'.walk[k].todo \subseteq Platform
                      /\ exam'.walk[k].refs \union Content(exam'.walk[k].todo) \subseteq wa
                      /\ k \in s =>
                           /\ tags[k].kind = "index" /\ exam'.walk[k].todo \subseteq tags[k].of
                           /\ exam'.walk[k].refs = Content(tags[k].of \ exam'.walk[k].todo)
    BY <1>3, <1>5 DEF WalkRight, Content
  <2>1. k # n /\ exam'.walk[k] = exam.walk[k]
    BY <1>1, <1>10 DEF Read
  <2> QED BY <1>2, <1>3, <2>1 DEF DoctorInv, WalkRight
<1>12. VerdictRight'
  <2>1. wn \subseteq wa
    BY <1>1, <1>2, <1>3, <1>4 DEF DoctorInv, VerdictRight
  <2>2. ASSUME NEW k \in s
        PROVE  /\ k \in Name
               /\ Whole(k)' <=> Whole(k)
               /\ ~f /\ Whole(k) => k \notin issues
               /\ k \in scope /\ Judged(k) => k \in issues \/ \A d \in Needs(tags[k]) : ~Missing(d)
               /\ Counts(k) /\ ~f /\ Whole(k) => Needs(tags[k]) \subseteq wanted
    BY <1>1, <1>2, <1>3, <1>8, <2>2 DEF DoctorInv, VerdictRight, Whole, PastRight
  <2>3. ASSUME NEW k \in s, k # n
        PROVE  /\ ~(f \/ ~ok) /\ Whole(k) => k \notin is
               /\ k \in scope /\ Judged(k)' => k \in is \/ \A d \in Needs(tags[k]) : ~Missing(d)
               /\ Counts(k)' /\ ~(f \/ ~ok) /\ Whole(k) => Needs(tags[k]) \subseteq wn
    <3>1. (Judged(k)' => Judged(k)) /\ (Counts(k)' => Counts(k))
      BY <1>1, <1>4, <1>10, <2>2, <2>3 DEF Judged, Counts
    <3> QED BY <1>4, <2>2, <2>3, <3>1
  <2>4. ASSUME n \in s, ~(f \/ ~ok), Whole(n) PROVE n \notin is
    <3>1. refs = Needs(tags[n]) /\ ~failed
      BY <1>2, <2>4
    <3>2. refs \subseteq stored
      BY <1>1, <1>3, <2>4, <3>1 DEF DoctorInv, ListedRight, Listings, Whole
    <3> QED BY <1>4, <2>2, <2>4, <3>1, <3>2
  <2>5. ASSUME n \in s, n \in scope, NEW d \in Needs(tags[n]), Missing(d) PROVE n \in is
    <3>1. CASE pc = "orphans"
      BY <1>1, <1>4, <2>2, <2>5, <3>1 DEF Judged
    <3>2. CASE pc = "check" /\ ~failed
      <4>1. d \in refs /\ d \notin stored
        BY <1>1, <1>2, <1>3, <2>5, <3>2 DEF DoctorInv, ListedRight
      <4> QED BY <1>4, <3>2, <4>1
    <3>3. CASE pc = "check" /\ failed
      BY <1>4, <3>3
    <3> QED BY <1>3, <3>1, <3>2, <3>3
  <2>6. ASSUME n \in s, ~(f \/ ~ok), Whole(n), Counts(n)' PROVE Needs(tags[n]) \subseteq wn
    <3>1. pc = "orphans"
      BY <1>3, <1>4, <2>6 DEF Counts
    <3>2. refs = Needs(tags[n])
      BY <1>2, <2>6
    <3> QED BY <1>4, <3>1, <3>2
  <2>7. ASSUME NEW k \in s
        PROVE  /\ ~past'.failed /\ Whole(k)' => k \notin exam'.issues
               /\ k \in exam'.scope /\ Judged(k)' => k \in exam'.issues \/ \A d \in Needs(tags[k]) : ~Missing(d)
               /\ Counts(k)' /\ ~past'.failed /\ Whole(k)' => Needs(tags[k]) \subseteq exam'.wanted
    <3>1. CASE k = n
      BY <1>4, <1>5, <2>2, <2>4, <2>5, <2>6, <3>1
    <3>2. CASE k # n
      BY <1>4, <1>5, <2>2, <2>3, <3>2
    <3> QED BY <3>1, <3>2
  <2> QED BY <1>3, <1>4, <1>5, <1>8, <2>1, <2>7 DEF VerdictRight
<1>13. OneByOne'
  BY <1>1, <1>3, <1>4, <1>10 DEF DoctorInv, OneByOne, Read
<1> QED BY <1>6, <1>7, <1>9, <1>11, <1>12, <1>13 DEF DoctorInv

\* A walk goes on with the children it has still to read.
LEMMA WalkingInv ==
    ASSUME DoctorInv, Reading, NEW n \in Name, Turn(n), NEW todo \in SUBSET Platform, NEW refs,
           Knows([exam EXCEPT !.walk[n] = [at |-> "child", todo |-> todo, refs |-> refs]]),
           NEW ok \in BOOLEAN, Answered(ok), refs \union Content(todo) \subseteq past.wanted,
           n \in past.stood =>
               /\ tags[n].kind = "index" /\ todo \subseteq tags[n].of
               /\ refs = Content(tags[n].of \ todo)
    PROVE  DoctorInv'
<1>1. PICK pc, scope, filtered, all, stored, walk, issues, wanted :
        exam = [pc |-> pc, scope |-> scope, filtered |-> filtered, all |-> all,
                stored |-> stored, walk |-> walk, issues |-> issues, wanted |-> wanted]
  BY DEF DoctorInv, ExamShape, Examining, Reading
<1>2. PICK s, pr, ab, wa, f : past = [stood |-> s, present |-> pr, absent |-> ab, wanted |-> wa, failed |-> f]
  BY DEF DoctorInv, PastRight, Examining, Reading
<1>3. /\ Examining /\ bucket' = bucket /\ tags' = tags /\ pc \in {"check", "orphans"}
      /\ walk = [k \in Name |-> walk[k]] /\ f \in BOOLEAN
  BY <1>1, <1>2 DEF Examining, Reading, Knows, DoctorInv, ExamShape, PastRight
<1>4. exam' = [pc |-> pc, scope |-> scope, filtered |-> filtered, all |-> all, stored |-> stored,
               walk |-> [walk EXCEPT ![n] = [at |-> "child", todo |-> todo, refs |-> refs]],
               issues |-> issues, wanted |-> wanted]
  BY <1>1 DEF Knows
<1>5. past' = [stood |-> s, present |-> pr, absent |-> ab, wanted |-> wa, failed |-> f \/ ~ok]
  BY <1>2 DEF Answered
<1>6. bucket' \subseteq Key /\ tags' \in [Name -> Tagged \union {None}] /\ ExamShape'
  BY <1>3, <1>4 DEF DoctorInv, ExamShape, Examining, Listings
<1>7. PastRight'
  BY <1>2, <1>3, <1>5 DEF DoctorInv, PastRight
<1>8. ASSUME NEW d PROVE (Held(d)' <=> Held(d)) /\ (Missing(d)' <=> Missing(d))
  BY <1>2, <1>5 DEF Held, Missing
<1>9. ListedRight'
  BY <1>1, <1>2, <1>3, <1>4, <1>5, <1>8 DEF DoctorInv, ListedRight, Listings
<1>10. ASSUME NEW k \in Name
       PROVE  exam'.walk[k] = IF k = n THEN [at |-> "child", todo |-> todo, refs |-> refs] ELSE walk[k]
  BY <1>3, <1>4
<1>11. WalkRight'
  <2> SUFFICES ASSUME NEW k \in Name, exam'.walk[k].at = "child"
               PROVE  /\ exam'.walk[k].todo \subseteq Platform
                      /\ exam'.walk[k].refs \union Content(exam'.walk[k].todo) \subseteq wa
                      /\ k \in s =>
                           /\ tags[k].kind = "index" /\ exam'.walk[k].todo \subseteq tags[k].of
                           /\ exam'.walk[k].refs = Content(tags[k].of \ exam'.walk[k].todo)
    BY <1>3, <1>5 DEF WalkRight, Content
  <2>1. CASE k # n
    <3>1. exam'.walk[k] = exam.walk[k]
      BY <1>1, <1>10, <2>1
    <3> QED BY <1>2, <1>3, <3>1 DEF DoctorInv, WalkRight
  <2>2. CASE k = n
    <3>1. exam'.walk[k].todo = todo /\ exam'.walk[k].refs = refs
      BY <1>10, <2>2
    <3> QED BY <1>2, <2>2, <3>1
  <2> QED BY <2>1, <2>2
<1>12. VerdictRight'
  <2> SUFFICES ASSUME NEW k \in s
        PROVE  /\ ~(f \/ ~ok) /\ Whole(k) => k \notin issues
               /\ k \in scope /\ Judged(k)' => k \in issues \/ \A d \in Needs(tags[k]) : ~Missing(d)
               /\ Counts(k)' /\ ~(f \/ ~ok) /\ Whole(k) => Needs(tags[k]) \subseteq wanted
    <3>1. wanted \subseteq wa /\ \A k \in s : Whole(k)' <=> Whole(k)
      BY <1>1, <1>2, <1>3, <1>8 DEF DoctorInv, VerdictRight, Whole
    <3> QED BY <1>3, <1>4, <1>5, <1>8, <3>1 DEF VerdictRight
  <2>1. k \in Name
    BY <1>2, <1>3 DEF DoctorInv, PastRight
  <2>2. (Judged(k)' => Judged(k)) /\ (Counts(k)' => Counts(k))
    <3>1. CASE k = n
      <4>1. exam'.walk[k].at = "child" /\ Read.at = "end"
        BY <1>10, <2>1, <3>1 DEF Read
      <4>2. exam'.walk[k] # Read
        BY <4>1
      <4> QED BY <1>1, <1>3, <1>4, <4>2 DEF Judged, Counts
    <3>2. CASE k # n
      BY <1>1, <1>4, <1>10, <2>1, <3>2 DEF Judged, Counts
    <3> QED BY <3>1, <3>2
  <2> QED BY <1>1, <1>2, <1>3, <2>2 DEF DoctorInv, VerdictRight
<1>13. OneByOne'
  BY <1>1, <1>3, <1>4, <1>10 DEF DoctorInv, OneByOne, Turn
<1> QED BY <1>6, <1>7, <1>9, <1>11, <1>12, <1>13 DEF DoctorInv

LEMMA ReadManifestInv ==
    ASSUME DoctorInv, NEW n \in Name, NEW ok \in BOOLEAN, ReadManifest(n, ok)
    PROVE  DoctorInv'
<1>1. Reading /\ Examining /\ Turn(n) /\ Answered(ok)
  BY DEF ReadManifest, Turn, Reading, Examining
<1>2. PICK m : m = tags[n]
  OBVIOUS
<1>3. CASE m = None \/ ~ok
  <2>1. PICK refs : refs = {} /\ Walked(n, refs, TRUE)
    BY <1>2, <1>3 DEF ReadManifest
  <2>2. n \in past.stood => ~ok \/ ~Whole(n)
    BY <1>1, <1>2, <1>3 DEF DoctorInv, PastRight
  <2>3. refs \subseteq past.wanted
    BY <2>1
  <2> QED BY <1>1, <2>1, <2>2, <2>3, WalkedInv
<1>4. CASE m # None /\ ok
  <2>1. m \in Manifest /\ Needs(m) \subseteq past.wanted
    BY <1>1, <1>2, <1>4, NeedsOfTag, DoctorAssumption DEF DoctorInv, PastRight
  <2>2. CASE m.kind = "image"
    <3>1. Walked(n, Needs(m), FALSE)
      BY <1>2, <1>4, <2>2 DEF ReadManifest
    <3> QED BY <1>1, <1>2, <2>1, <3>1, WalkedInv
  <2>3. CASE m.kind = "index"
    <3>1. Knows([exam EXCEPT !.walk[n] = [at |-> "child", todo |-> m.of, refs |-> {}]])
      BY <1>2, <1>4, <2>3 DEF ReadManifest
    <3>2. m.of \subseteq Platform /\ {} \union Content(m.of) \subseteq past.wanted
      BY <2>1, <2>3, NeedsAre
    <3>3. Content(m.of \ m.of) = {}
      BY DEF Content
    <3> QED BY <1>1, <1>2, <2>3, <3>1, <3>2, <3>3, WalkingInv
  <2> QED BY <2>1, <2>2, <2>3, NeedsAre
<1> QED BY <1>3, <1>4

LEMMA ReadChildInv ==
    ASSUME DoctorInv, NEW n \in Name, NEW p \in Platform, NEW ok \in BOOLEAN, ReadChild(n, p, ok)
    PROVE  DoctorInv'
<1>1. Reading /\ Examining /\ Turn(n) /\ Answered(ok)
  BY DEF ReadChild, Turn, Reading, Examining
<1>2. PICK m, todo, refs : m = tags[n] /\ todo = exam.walk[n].todo /\ refs = exam.walk[n].refs
  OBVIOUS
<1>3. /\ p \in todo /\ todo \subseteq Platform /\ refs \union Content(todo) \subseteq past.wanted
      /\ n \in past.stood => m.kind = "index" /\ todo \subseteq m.of /\ refs = Content(m.of \ todo)
  BY <1>1, <1>2 DEF ReadChild, DoctorInv, WalkRight
<1>4. n \in past.stood => m \in Manifest /\ Needs(m) = Content(m.of)
  BY <1>1, <1>2, <1>3, NeedsAre, DoctorAssumption DEF DoctorInv, PastRight
<1>5. refs \union {p} \union Range(LayersOf[p]) \union Content(todo \ {p}) \subseteq past.wanted
  BY <1>3 DEF Content
<1>6. n \in past.stood => refs \union {p} \union Range(LayersOf[p]) = Content(m.of \ (todo \ {p}))
  BY <1>3 DEF Content
<1>7. CASE Obj("blob", p) \notin bucket \/ ~ok
  <2>1. Walked(n, refs \union {p}, TRUE)
    BY <1>2, <1>7 DEF ReadChild
  <2>2. n \in past.stood => ~ok \/ ~Whole(n)
    <3>1. n \in past.stood => p \in Needs(tags[n])
      BY <1>2, <1>3, <1>4 DEF Content
    <3> QED BY <1>1, <1>7, <3>1, HeldManifest DEF Whole
  <2> QED BY <1>1, <1>5, <2>1, <2>2, WalkedInv
<1>8. CASE Obj("blob", p) \in bucket /\ ok /\ todo \ {p} = {}
  <2>1. Walked(n, refs \union {p} \union Range(LayersOf[p]), FALSE)
    BY <1>2, <1>8 DEF ReadChild
  <2>2. n \in past.stood => refs \union {p} \union Range(LayersOf[p]) = Needs(tags[n])
    BY <1>2, <1>4, <1>6, <1>8
  <2> QED BY <1>1, <1>5, <2>1, <2>2, WalkedInv
<1>9. CASE Obj("blob", p) \in bucket /\ ok /\ todo \ {p} # {}
  <2>1. PICK rest, seen :
          rest \in SUBSET Platform /\ rest = todo \ {p} /\ seen = refs \union {p} \union Range(LayersOf[p])
    BY <1>3
  <2>2. Knows([exam EXCEPT !.walk[n] = [at |-> "child", todo |-> rest, refs |-> seen]])
    BY <1>2, <1>9, <2>1 DEF ReadChild
  <2>3. n \in past.stood =>
          tags[n].kind = "index" /\ rest \subseteq tags[n].of /\ seen = Content(tags[n].of \ rest)
    BY <1>2, <1>3, <1>6, <2>1
  <2>4. seen \union Content(rest) \subseteq past.wanted
    BY <1>5, <2>1
  <2>5. rest \in SUBSET Platform
    BY <2>1
  <2> QED BY <1>1, <2>2, <2>3, <2>4, <2>5, WalkingInv
<1> QED BY <1>7, <1>8, <1>9

LEMMA PassInv ==
    ASSUME DoctorInv, Checked \/ Counted
    PROVE  DoctorInv'
<1>1. PICK pc \in {"check", "orphans"}, to \in {"orphans", "report"} :
        /\ PassDone(pc, to) /\ (pc = "check" <=> to = "orphans")
  BY DEF Checked, Counted
<1>2. PICK scope, filtered, all, stored, walk, issues, wanted :
        exam = [pc |-> pc, scope |-> scope, filtered |-> filtered, all |-> all,
                stored |-> stored, walk |-> walk, issues |-> issues, wanted |-> wanted]
  BY <1>1 DEF DoctorInv, ExamShape, Examining, PassDone
<1>3. /\ Examining /\ bucket' = bucket /\ tags' = tags /\ past' = past
      /\ exam' = [pc |-> to, scope |-> scope, filtered |-> filtered, all |-> all, stored |-> stored,
                  walk |-> [n \in Name |-> Unread], issues |-> issues, wanted |-> wanted]
  <2>1. Examining /\ bucket' = bucket /\ tags' = tags /\ past' = past
    BY <1>1 DEF Examining, PassDone, Knows
  <2>2. exam' = [exam EXCEPT !.pc = to, !.walk = [n \in Name |-> Unread]]
    BY <1>1 DEF PassDone, Knows
  <2> QED BY <1>2, <2>1, <2>2
<1>4. bucket' \subseteq Key /\ tags' \in [Name -> Tagged \union {None}] /\ ExamShape'
  BY <1>3 DEF DoctorInv, ExamShape, Examining, Listings
<1>5. PastRight' /\ ListedRight'
  BY <1>1, <1>2, <1>3 DEF DoctorInv, PastRight, ListedRight, Listings, Held, Missing
<1>6. WalkRight' /\ OneByOne'
  BY <1>3 DEF WalkRight, OneByOne, Unread
<1>7. VerdictRight'
  <2>1. past.stood \subseteq Name /\ past.stood \subseteq all
    BY <1>1, <1>2, <1>3 DEF DoctorInv, PastRight, ListedRight
  <2>2. ASSUME NEW n \in past.stood, n \in scope PROVE Judged(n)
    BY <1>1, <1>2, <2>1, <2>2 DEF PassDone, Turn, Judged
  <2>3. ASSUME NEW n \in past.stood, Counts(n)' PROVE Counts(n)
    <3>1. to = "report" /\ pc = "orphans"
      BY <1>1, <1>3, <2>1, <2>3 DEF Counts, Unread, Read
    <3>2. \A k \in Name : Turn(k) => exam.walk[k] = Read
      BY <1>1 DEF PassDone
    <3>3. n \in Name /\ n \in exam.all
      BY <1>2, <2>1
    <3>4. \A k \in Name : exam.walk[k].at # "child" \/ exam.walk[k] # Read
      BY DEF Read
    <3>5. ASSUME NEW k \in Name PROVE exam.walk[k].at # "child"
      BY <1>2, <1>3, <3>1, <3>2, <3>4 DEF Turn, DoctorInv, OneByOne
    <3> QED BY <1>2, <3>1, <3>2, <3>3, <3>5 DEF Turn, Counts
  <2> QED BY <1>2, <1>3, <2>2, <2>3 DEF DoctorInv, VerdictRight, Whole, Held, Missing
<1> QED BY <1>4, <1>5, <1>6, <1>7 DEF DoctorInv

LEMMA DoctorInvInit == DoctorInit => DoctorInv
<1> SUFFICES ASSUME DoctorInit PROVE DoctorInv
  OBVIOUS
<1>1. ASSUME NEW m \in Manifest PROVE KeysOf(m) \subseteq Key
  <2>1. m.of \subseteq Platform
    BY <1>1 DEF Manifest, Image, Index
  <2>2. ASSUME NEW p \in Platform PROVE Range(LayersOf[p]) \subseteq Layer
    BY ImageAssumption DEF Range
  <2>3. ASSUME NEW d \in Layer PROVE LayerKeys(d) \subseteq Key
    BY ImageAssumption DEF LayerKeys, Key, Chunked
  <2>4. {Obj("blob", p) : p \in IF m.kind = "index" THEN m.of ELSE {}} \subseteq Key
    BY <2>1 DEF Key
  <2> QED BY <2>1, <2>2, <2>3, <2>4 DEF KeysOf
<1>2. bucket \subseteq Key
  BY <1>1, DoctorAssumption DEF DoctorInit
<1> QED BY <1>2 DEF DoctorInit, DoctorInv, ExamShape, Examining, NoExam

LEMMA DoctorInvNext == DoctorInv /\ [DoctorNext]_doctorVars => DoctorInv'
<1> SUFFICES ASSUME DoctorInv, [DoctorNext]_doctorVars PROVE DoctorInv'
  OBVIOUS
<1>1. ASSUME NEW k \in Key, Stored(k) \/ Deleted(k) PROVE DoctorInv'
  BY <1>1, WritingInv DEF Stored, Deleted, DoctorInv
<1>2. ASSUME NEW n \in Name, NEW m \in Tagged \union {None}, Tags(n, m) PROVE DoctorInv'
  BY <1>2, WritingInv DEF Tags, DoctorInv
<1>3. CASE Unanswered
  BY <1>3 DEF Unanswered, Knows, NoExam, DoctorInv, ExamShape, Examining
<1>4. CASE UNCHANGED doctorVars
  <2>1. bucket' \subseteq Key /\ tags' \in [Name -> Tagged \union {None}] /\ ExamShape'
    BY <1>4 DEF doctorVars, DoctorInv, ExamShape, Examining, Listings
  <2>2. Examining' => PastRight' /\ ListedRight' /\ WalkRight' /\ OneByOne'
    BY <1>4 DEF doctorVars, DoctorInv, Examining, PastRight, ListedRight, Listings, Held, Missing, WalkRight, OneByOne
  <2>3. Examining' => VerdictRight'
    BY <1>4 DEF doctorVars, DoctorInv, Examining, VerdictRight, Judged, Counts, Whole, Held, Missing
  <2> QED BY <2>1, <2>2, <2>3 DEF DoctorInv
<1> QED BY <1>1, <1>2, <1>3, <1>4, ExamineInv, ListingInv, ReadManifestInv, ReadChildInv, PassInv DEF DoctorNext

-----------------------------------------------------------------------------

\* Doctor reports no image that stood and had all it needs from beginning to
\* end, unless a request failed (checkTag): in any bucket, whatever other
\* clients store, delete and tag meanwhile.
THEOREM DoctorSpares == DoctorSpec => []HealthySpared
<1>1. DoctorInv => HealthySpared
  BY DEF DoctorInv, Examining, VerdictRight, Whole, HealthySpared, Reported
<1> QED BY <1>1, DoctorInvInit, DoctorInvNext, PTL DEF DoctorSpec

\* It reports every image in scope that stood without something it needs.
THEOREM DoctorReports == DoctorSpec => []LossReported
<1>1. DoctorInv => LossReported
  BY DEF DoctorInv, Examining, VerdictRight, Judged, LossReported, Reported
<1> QED BY <1>1, DoctorInvInit, DoctorInvNext, PTL DEF DoctorSpec

\* It counts as an orphan nothing that an image of the whole bucket needs, if
\* that stood and was whole, and everything no image ever needed.
THEOREM DoctorCounts == DoctorSpec => []OrphansRight
<1>1. DoctorInv => OrphansRight
  BY DEF DoctorInv, Examining, VerdictRight, Counts, Whole, OrphansRight, Reported
<1> QED BY <1>1, DoctorInvInit, DoctorInvNext, PTL DEF DoctorSpec
=============================================================================
