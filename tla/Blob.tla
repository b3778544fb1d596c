-------------------------------- MODULE Blob --------------------------------
(***************************************************************************)
(* handleBlob and serveChunkedBlob (pkg/serve/handler.go): a handler takes *)
(* a permit of the limiter, looks the blob up as one object and then as a  *)
(* recipe, and redirects, copies or streams it; whatever comes of it, the  *)
(* permit goes back when it returns. Composes Limiter and Stream.          *)
(*                                                                         *)
(* What storage answers is free: the blob may be there, be gone or fail at *)
(* each request. Bound: one request of a behaviour streams a recipe.       *)
(***************************************************************************)
EXTENDS Stream

CONSTANTS Handler, Max, NoChan   \* see Limiter

ASSUME LimiterAssumption ==
    /\ Max \in Nat \ {0}
    /\ NoChan \notin Handler /\ "new" \notin Handler /\ NoChan # "new"

VARIABLES
    sem, count, pc, ch, \* see Limiter
    at,                 \* where in handleBlob each handler is
    owner               \* the handler whose request is streamed

Lim == INSTANCE Limiter

limiterVars == <<sem, count, pc, ch>>
blobVars == <<vars, limiterVars, at, owner>>

NoOwner == NoChan

BlobTypeOK ==
    /\ TypeOK /\ Lim!TypeOK
    /\ at \in [Handler -> {"none", "head", "recipe", "object", "stream", "done"}]
    /\ owner \in Handler \union {NoOwner}
    /\ \A h \in Handler : (at[h] = "none") = (pc[h] # "hold")
    /\ \A h \in Handler : at[h] = "stream" => owner = h

BlobInit ==
    /\ Init /\ Lim!Init
    /\ at = [h \in Handler |-> "none"]
    /\ owner = NoOwner

-----------------------------------------------------------------------------
(* A handler.                                                              *)

\* acquire, up to the permit, or until the request is cancelled.
Comes(h)  == Lim!Request(h) /\ UNCHANGED <<vars, at, owner>>
Queues(h) == (Lim!Test(h) \/ Lim!Make(h) \/ Lim!Enter(h)) /\ UNCHANGED <<vars, at, owner>>
Enters(h) == Lim!Send(h) /\ at' = [at EXCEPT ![h] = "head"] /\ UNCHANGED <<vars, owner>>
GivesUp(h) == Lim!GiveUp(h) /\ UNCHANGED <<vars, at, owner>>

Moves(h, from, to) ==
    /\ at[h] = from
    /\ at' = [at EXCEPT ![h] = to]
    /\ UNCHANGED <<vars, limiterVars>>

\* The request for the object itself says whether it is there; that answers a
\* HEAD and an error ...
HeadObject(h) ==
    /\ \E to \in {"recipe", "object", "done"} : Moves(h, "head", to)
    /\ UNCHANGED owner

\* ... one that is there is redirected to, or read and written out ...
GetObject(h) == Moves(h, "object", "done") /\ UNCHANGED owner

\* ... and one that is not may have a recipe. None, one that fails to load and
\* one without its compressed identity end the request.
NoRecipe(h) == Moves(h, "recipe", "done") /\ UNCHANGED owner

StartStream(h) ==
    /\ owner = NoOwner
    /\ Moves(h, "recipe", "stream")
    /\ owner' = h

\* StreamCompressed returns to serveChunkedBlob, whatever its error.
EndStream(h) ==
    /\ wpc = "returned"
    /\ Moves(h, "stream", "done")
    /\ UNCHANGED owner

Handle(h) == HeadObject(h) \/ GetObject(h) \/ NoRecipe(h) \/ StartStream(h) \/ EndStream(h)

\* Variant: a truncated stream is left without the release.
LeavesWell(h) ==
    /\ at[h] = "done" /\ (owner = h => outcome = "ok")
    /\ Lim!Leave(h) /\ at' = [at EXCEPT ![h] = "none"] /\ UNCHANGED <<vars, owner>>

\* handleBlob returns, and its deferred release runs.
Leaves(h) ==
    /\ at[h] = "done"
    /\ Lim!Leave(h) /\ at' = [at EXCEPT ![h] = "none"] /\ UNCHANGED <<vars, owner>>

Releases(h) == (Lim!StartRelease(h) \/ Lim!Drain(h)) /\ UNCHANGED <<vars, at, owner>>

-----------------------------------------------------------------------------
(* The goroutines of the stream, once it is started.                       *)

Streaming(A) == owner # NoOwner /\ A /\ UNCHANGED <<limiterVars, at, owner>>

\* net/http cancels the request's context when the client goes away.
ClientGone == (\E h \in Handler : at[h] = "stream") /\ Streaming(ParentCancel)

BlobNext ==
    \/ \E h \in Handler :
         \/ Comes(h) \/ Queues(h) \/ Enters(h) \/ GivesUp(h)
         \/ Handle(h) \/ Leaves(h) \/ Releases(h)
    \/ Streaming(Dispatcher) \/ Streaming(Writer) \/ ClientGone
    \/ \E i \in Idx : Streaming(FetchReturns(i))

\* The scheduler runs every goroutine, storage and the client's connection
\* answer or fail, and a channel serves its blocked senders in the order they
\* came. Requests need neither come nor be cancelled.
BlobFairness ==
    /\ \A h \in Handler :
         /\ WF_blobVars(Queues(h)) /\ SF_blobVars(Enters(h))
         /\ WF_blobVars(Handle(h)) /\ WF_blobVars(Leaves(h)) /\ WF_blobVars(Releases(h))
    /\ WF_blobVars(Streaming(Dispatcher)) /\ WF_blobVars(Streaming(Writer))
    /\ \A i \in Idx : WF_blobVars(Streaming(FetchReturns(i)))

BlobSpec == BlobInit /\ [][BlobNext]_blobVars /\ BlobFairness

-----------------------------------------------------------------------------

\* See Limiter: no permit is lost or made up (acquire), also when a stream is
\* cut short and when handlers have made several channels.
PermitsConserved == Lim!PermitsConserved

\* See Limiter: NewServer's channel is a counting semaphore (acquire).
IsSemaphore == Lim!IsSemaphore

\* A handler does to the limiter what Limiter says, and all it assumes of a
\* handler holds: who has a permit, leaves, because a stream ends.
LimiterKept == Lim!Spec

\* Every request to a server made by NewServer ends and gives its permit back,
\* those that wait in acquire behind streams to clients that go away as well:
\* StreamCompressed returns, since its window cannot run dry of permits while
\* it waits for a chunk no one fetches, and release gets past its receive
\* (server.go:80, a release func that is always safe to call).
RequestEnds == \A h \in Handler : Lim!Presized /\ pc[h] # "idle" ~> pc[h] = "idle"
=============================================================================
