----------------------------- MODULE BlobProofs -----------------------------
(***************************************************************************)
(* Stream for any number of chunks and any window, and Blob for any number *)
(* of handlers and permits: a stream of a server does what it does on its  *)
(* own, and the limiter neither loses nor makes up a permit and is a       *)
(* counting semaphore where NewServer made its channel.                    *)
(***************************************************************************)
EXTENDS Blob, FiniteSetTheorems, TLAPS

-----------------------------------------------------------------------------
(* A stream on its own.                                                    *)

LEMMA InvInit == Init => TypeOK /\ Inv
<1> SUFFICES ASSUME Init PROVE TypeOK /\ Inv
  OBVIOUS
<1>1. TypeOK
  <2>1. 1 \in 1..(N + 1) /\ 0 \in 0..ReadAhead
    BY StreamAssumption
  <2>2. [i \in Idx |-> "empty"] \in [Idx -> {"empty", "good", "short", "error"}]
    OBVIOUS
  <2> QED BY <2>1, <2>2 DEF Init, TypeOK
<1>2. Inv
  BY StreamAssumption DEF Init, Inv, Idx
<1> QED BY <1>1, <1>2

LEMMA InvDispatcher == TypeOK /\ Inv /\ Dispatcher => TypeOK' /\ Inv'
<1> SUFFICES ASSUME TypeOK, Inv, Dispatcher PROVE TypeOK' /\ Inv'
  OBVIOUS
<1>1. CASE Dispatch
  <2>1. TypeOK'
    BY <1>1, StreamAssumption DEF Dispatch, TypeOK, Idx
  <2>2. Inv'
    BY <1>1, StreamAssumption DEF Dispatch, TypeOK, Inv, Idx
  <2> QED BY <2>1, <2>2
<1>2. CASE DispatchEnd
  BY <1>2 DEF DispatchEnd, TypeOK, Inv
<1> QED BY <1>1, <1>2 DEF Dispatcher

LEMMA InvFetch ==
    ASSUME TypeOK, Inv, NEW i \in Idx, FetchReturns(i)
    PROVE  TypeOK' /\ Inv'
<1>1. PICK r \in {"good", "short", "error"} : results' = [results EXCEPT ![i] = r]
  BY DEF FetchReturns
<1>2. i < next /\ results[i] = "empty"
  BY DEF FetchReturns, Inv
<1>3. \A j \in Idx : j # i => results'[j] = results[j]
  BY <1>1 DEF TypeOK
<1>4. TypeOK'
  BY <1>1 DEF FetchReturns, TypeOK
<1>5. \A j \in Idx : results[j] = "good" => results'[j] = "good"
  BY <1>2, <1>3
<1>6. wpc \in {"write", "free"} => wr \in Idx
  BY StreamAssumption DEF TypeOK, Inv, Idx
<1>7. \A j \in fetching' : j < next /\ results'[j] = "empty"
  BY <1>3 DEF FetchReturns, TypeOK, Inv
<1>8. \A j \in Idx : j >= next => results'[j] = "empty"
  BY <1>2, <1>3 DEF TypeOK, Inv, Idx
<1>9. Inv'
  BY <1>5, <1>6, <1>7, <1>8 DEF FetchReturns, Inv
<1> QED BY <1>4, <1>9

LEMMA InvWriter == TypeOK /\ Inv /\ Writer => TypeOK' /\ Inv'
<1> SUFFICES ASSUME TypeOK, Inv, Writer PROVE TypeOK' /\ Inv'
  OBVIOUS
<1>1. CASE Receive
  \* What has been sent was dispatched, so the chunk lies before next.
  <2>1. wr \in Idx /\ wr < next
    BY <1>1, StreamAssumption DEF Receive, TypeOK, Inv, Idx
  <2>2. TypeOK'
    BY <1>1 DEF Receive, Return, TypeOK
  <2>3. CASE results[wr] = "good"
    BY <1>1, <2>1, <2>2, <2>3 DEF Receive, Inv
  <2>4. CASE results[wr] # "good"
    BY <1>1, <2>2, <2>4 DEF Receive, Return, Inv
  <2> QED BY <2>3, <2>4
<1>2. CASE Write
  BY <1>2 DEF Write, Return, TypeOK, Inv
<1>3. CASE Free
  <2>1. TypeOK'
    <3>1. wr <= N
      BY <1>3 DEF Free, Inv
    <3>2. wr' \in 1..(N + 1) /\ window' \in 0..ReadAhead
      BY <1>3, <3>1, StreamAssumption DEF Free, TypeOK
    <3> QED BY <1>3, <3>2 DEF Free, Return, TypeOK
  <2>2. window' = next' - wr' /\ fetching' = fetching /\ results' = results /\ next' = next
    BY <1>3, StreamAssumption DEF Free, TypeOK, Inv
  <2>3. \A i \in Idx : i < wr' => results[i] = "good"
    BY <1>3, StreamAssumption DEF Free, TypeOK, Inv, Idx
  <2>4. /\ wpc' \notin {"write", "free"}
        /\ wpc' # "returned" => wr' <= N /\ outcome' = "running"
        /\ outcome' = "ok" => wr' = N + 1
    BY <1>3, StreamAssumption DEF Free, Return, TypeOK, Inv
  <2>5. Inv'
    BY <2>2, <2>3, <2>4 DEF Inv
  <2> QED BY <2>1, <2>5
<1>4. CASE Interrupted
  BY <1>4 DEF Interrupted, Return, TypeOK, Inv
<1> QED BY <1>1, <1>2, <1>3, <1>4 DEF Writer

LEMMA InvNext == TypeOK /\ Inv /\ [Next]_vars => TypeOK' /\ Inv'
<1> SUFFICES ASSUME TypeOK, Inv, [Next]_vars PROVE TypeOK' /\ Inv'
  OBVIOUS
<1>1. CASE ParentCancel
  BY <1>1 DEF ParentCancel, TypeOK, Inv
<1>2. CASE UNCHANGED vars
  BY <1>2 DEF vars, TypeOK, Inv
<1> QED BY <1>1, <1>2, InvDispatcher, InvFetch, InvWriter DEF Next

THEOREM InvCorrect == Spec => [](TypeOK /\ Inv)
  BY InvInit, InvNext, PTL DEF Spec

\* The chunks fetched or held at once never exceed the window, for a recipe
\* of any length.
THEOREM ReadAhead_Bounded == Spec => []ReadAheadBounded
<1>1. TypeOK /\ Inv => ReadAheadBounded
  BY StreamAssumption DEF TypeOK, Inv, ReadAheadBounded
<1> QED BY <1>1, InvCorrect, PTL

\* A stream that ends without an error has written every chunk, whole.
THEOREM Ok_MeansAll == Spec => []OkMeansAll
<1>1. TypeOK /\ Inv => OkMeansAll
  BY StreamAssumption DEF TypeOK, Inv, OkMeansAll, Idx
<1> QED BY <1>1, InvCorrect, PTL

-----------------------------------------------------------------------------
(* The stream of a server.                                                 *)

LEMMA BlobStepStreams == [BlobNext]_blobVars => [Next]_vars
<1> SUFFICES ASSUME [BlobNext]_blobVars PROVE [Next]_vars
  OBVIOUS
<1>1. ASSUME NEW h \in Handler,
             \/ Comes(h) \/ Queues(h) \/ Enters(h) \/ GivesUp(h)
             \/ Handle(h) \/ Leaves(h) \/ Releases(h)
      PROVE  UNCHANGED vars
  <2>1. CASE Handle(h)
    BY <2>1 DEF Handle, HeadObject, GetObject, NoRecipe, StartStream, EndStream, Moves
  <2> QED BY <1>1, <2>1 DEF Comes, Queues, Enters, GivesUp, Leaves, Releases
<1>2. CASE Streaming(Dispatcher) \/ Streaming(Writer) \/ ClientGone
           \/ \E i \in Idx : Streaming(FetchReturns(i))
  BY <1>2 DEF Streaming, ClientGone, Next
<1>3. CASE UNCHANGED blobVars
  BY <1>3 DEF blobVars
<1> QED BY <1>1, <1>2, <1>3 DEF BlobNext

\* In every state of a server that streams a layer, at most the window's chunks
\* are fetched or held, and a stream that ends without an error has written
\* every chunk (serveChunkedBlob, StreamCompressed), for any number of
\* handlers, permits and chunks.
THEOREM BlobStreams == BlobSpec => [](Inv /\ ReadAheadBounded /\ OkMeansAll)
<1>1. BlobInit => TypeOK /\ Inv
  BY InvInit DEF BlobInit
<1>2. TypeOK /\ Inv /\ [BlobNext]_blobVars => TypeOK' /\ Inv'
  BY BlobStepStreams, InvNext
<1>3. TypeOK /\ Inv => ReadAheadBounded /\ OkMeansAll
  BY StreamAssumption DEF TypeOK, Inv, ReadAheadBounded, OkMeansAll, Idx
<1> QED BY <1>1, <1>2, <1>3, PTL DEF BlobSpec

-----------------------------------------------------------------------------
(* The limiter. Its channels are told apart by where a handler stands: who *)
(* sends or receives does so on a channel, and the field, once set, stays. *)

LimTyped ==
    /\ sem \in Lim!Chan \union {NoChan}
    /\ count \in [Lim!Chan -> 0..Max]
    /\ pc \in [Handler -> {"idle", "test", "make", "enter", "select", "hold", "leave", "drain"}]
    /\ ch \in [Handler -> Lim!Chan \union {NoChan}]

OnChannel ==
    \A h \in Handler :
        /\ pc[h] \in {"enter", "select", "hold", "leave", "drain"} => sem # NoChan
        /\ pc[h] \in {"select", "drain"} => ch[h] # NoChan

Conserved ==
    /\ IsFiniteSet(Lim!Permits) /\ IsFiniteSet(Lim!Holders)
    /\ Cardinality(Lim!Permits) = Cardinality(Lim!Holders)

\* NewServer's channel is the only one in use, and who holds a permit has one
\* of its.
OneChannel ==
    Lim!Presized =>
        /\ \A h \in Handler : pc[h] # "make" /\ ch[h] \in {"new", NoChan}
        /\ count["new"] = Cardinality(Lim!Holders)

LimInv == LimTyped /\ OnChannel /\ Conserved /\ OneChannel
LEMMA LimInvInit == Lim!Init => LimInv
<1> SUFFICES ASSUME Lim!Init PROVE LimInv
  OBVIOUS
<1>1. LimTyped
  BY LimiterAssumption DEF Lim!Init, LimTyped, Lim!Chan
<1>2. OnChannel
  BY DEF Lim!Init, OnChannel
<1>3. Lim!Permits = {} /\ Lim!Holders = {}
  <2>1. \A c \in Lim!Chan : 1..count[c] = {}
    BY DEF Lim!Init
  <2> QED BY <2>1 DEF Lim!Init, Lim!Permits, Lim!Holders
<1>4. Conserved
  BY <1>3, FS_EmptySet DEF Conserved
<1>5. OneChannel
  BY <1>3, FS_EmptySet DEF Lim!Init, OneChannel, Lim!Chan
<1> QED BY <1>1, <1>2, <1>4, <1>5 DEF LimInv

LEMMA PermitsAre ==
    ASSUME NEW p
    PROVE  p \in Lim!Permits <=> \E d, n : p = <<d, n>> /\ d \in Lim!Chan /\ n \in 1..count[d]
BY DEF Lim!Permits

LEMMA PermitsArePrimed ==
    ASSUME NEW p
    PROVE  p \in Lim!Permits' <=> \E d, n : p = <<d, n>> /\ d \in Lim!Chan /\ n \in 1..count'[d]
BY DEF Lim!Permits, Lim!Chan

\* The steps that move no permit.
LEMMA LimInvQuiet ==
    ASSUME LimInv, NEW h \in Handler,
           \/ Lim!Request(h) \/ Lim!Test(h) \/ Lim!Make(h) \/ Lim!Enter(h)
           \/ Lim!GiveUp(h) \/ Lim!Leave(h) \/ Lim!StartRelease(h)
    PROVE  LimInv' /\ Lim!Holders' = Lim!Holders
<1> USE DEF Lim!Goto
<1>1. LimTyped' /\ OnChannel'
  <2>1. CASE Lim!Request(h)
    BY <2>1 DEF Lim!Request, LimInv, LimTyped, OnChannel
  <2>2. CASE Lim!Test(h)
    BY <2>2 DEF Lim!Test, LimInv, LimTyped, OnChannel
  <2>3. CASE Lim!Make(h)
    BY <2>3, LimiterAssumption DEF Lim!Make, LimInv, LimTyped, OnChannel, Lim!Chan
  <2>4. CASE Lim!Enter(h)
    BY <2>4 DEF Lim!Enter, LimInv, LimTyped, OnChannel
  <2>5. CASE Lim!GiveUp(h)
    BY <2>5 DEF Lim!GiveUp, LimInv, LimTyped, OnChannel
  <2>6. CASE Lim!Leave(h)
    BY <2>6 DEF Lim!Leave, LimInv, LimTyped, OnChannel
  <2>7. CASE Lim!StartRelease(h)
    BY <2>7 DEF Lim!StartRelease, LimInv, LimTyped, OnChannel
  <2> QED BY <2>1, <2>2, <2>3, <2>4, <2>5, <2>6, <2>7
<1>2. count' = count
  BY DEF Lim!Request, Lim!Test, Lim!Make, Lim!Enter, Lim!GiveUp, Lim!Leave, Lim!StartRelease
<1>3. \A g \in Handler : (pc'[g] \in {"hold", "leave", "drain"}) = (pc[g] \in {"hold", "leave", "drain"})
  BY DEF Lim!Request, Lim!Test, Lim!Make, Lim!Enter, Lim!GiveUp, Lim!Leave, Lim!StartRelease,
         LimInv, LimTyped
<1>4. Lim!Holders' = Lim!Holders
  BY <1>3 DEF Lim!Holders
<1>5. Lim!Permits' = Lim!Permits
  BY <1>2 DEF Lim!Permits, Lim!Chan
<1>6. Conserved'
  BY <1>4, <1>5 DEF LimInv, Conserved
<1>7. OneChannel'
  <2> SUFFICES ASSUME sem' = "new"
               PROVE  /\ \A g \in Handler : pc'[g] # "make" /\ ch'[g] \in {"new", NoChan}
                      /\ count'["new"] = Cardinality(Lim!Holders')
    BY DEF OneChannel, Lim!Presized
  <2>1. sem = "new"
    BY LimiterAssumption
       DEF Lim!Request, Lim!Test, Lim!Make, Lim!Enter, Lim!GiveUp, Lim!Leave, Lim!StartRelease
  <2>2. /\ \A g \in Handler : pc[g] # "make" /\ ch[g] \in {"new", NoChan}
        /\ count["new"] = Cardinality(Lim!Holders)
    BY <2>1 DEF LimInv, OneChannel, Lim!Presized
  <2>3. ASSUME NEW g \in Handler PROVE pc'[g] # "make" /\ ch'[g] \in {"new", NoChan}
    BY <2>1, <2>2, LimiterAssumption
       DEF Lim!Request, Lim!Test, Lim!Make, Lim!Enter, Lim!GiveUp, Lim!Leave, Lim!StartRelease,
           LimInv, LimTyped
  <2> QED BY <1>2, <1>4, <2>2, <2>3
<1> QED BY <1>1, <1>4, <1>6, <1>7 DEF LimInv

\* A send takes one more permit of its channel, for one more holder.
LEMMA LimInvSend ==
    ASSUME LimInv, NEW h \in Handler, Lim!Send(h)
    PROVE  /\ LimInv'
           /\ h \notin Lim!Holders /\ Lim!Holders' = Lim!Holders \union {h}
           /\ Lim!Presized => Cardinality(Lim!Holders) < Max
<1> DEFINE c == ch[h]
<1>1. /\ pc[h] = "select" /\ c \in Lim!Chan
      /\ pc' = [pc EXCEPT ![h] = "hold"] /\ sem' = sem
      /\ count[c] \in Nat /\ count[c] < Max /\ Max \in Nat
      /\ count' = [count EXCEPT ![c] = @ + 1]
      /\ ch' = [ch EXCEPT ![h] = NoChan]
  BY LimiterAssumption DEF Lim!Send, Lim!Goto, LimInv, LimTyped, OnChannel
<1>2. count' \in [Lim!Chan -> 0..Max] /\ \A d \in Lim!Chan :
        count'[d] = IF d = c THEN count[c] + 1 ELSE count[d]
  BY <1>1 DEF LimInv, LimTyped
<1> HIDE DEF c
<1>3. LimTyped' /\ OnChannel'
  BY <1>1, <1>2 DEF LimInv, LimTyped, OnChannel, Lim!Chan
<1>4. h \notin Lim!Holders /\ Lim!Holders' = Lim!Holders \union {h}
  BY <1>1 DEF LimInv, LimTyped, Lim!Holders
<1>5. Lim!Permits' = Lim!Permits \union {<<c, count[c] + 1>>} /\ <<c, count[c] + 1>> \notin Lim!Permits
  <2>1. \A d \in Lim!Chan : count[d] \in Nat
    BY DEF LimInv, LimTyped
  <2>2. \A d, n : (d \in Lim!Chan /\ n \in 1..count'[d])
                    = ((d \in Lim!Chan /\ n \in 1..count[d]) \/ (d = c /\ n = count[c] + 1))
    BY <1>1, <1>2, <2>1
  <2> QED BY <1>1, <2>2, PermitsAre, PermitsArePrimed
<1>6. Conserved'
  <2>1. IsFiniteSet(Lim!Permits') /\ Cardinality(Lim!Permits') = Cardinality(Lim!Permits) + 1
    BY <1>5, FS_AddElement DEF LimInv, Conserved
  <2>2. IsFiniteSet(Lim!Holders') /\ Cardinality(Lim!Holders') = Cardinality(Lim!Holders) + 1
    BY <1>4, FS_AddElement DEF LimInv, Conserved
  <2> QED BY <2>1, <2>2 DEF LimInv, Conserved
<1>7. ASSUME sem = "new"
      PROVE  /\ c = "new" /\ count["new"] = Cardinality(Lim!Holders)
             /\ \A g \in Handler : pc'[g] # "make" /\ ch'[g] \in {"new", NoChan}
  BY <1>1, <1>7, LimiterAssumption DEF LimInv, LimTyped, OnChannel, OneChannel, Lim!Presized, c
<1>8. OneChannel'
  <2>1. Cardinality(Lim!Holders') = Cardinality(Lim!Holders) + 1
    BY <1>4, FS_AddElement DEF LimInv, Conserved
  <2>2. sem = "new" => count'["new"] = count["new"] + 1
    BY <1>1, <1>2, <1>7
  <2> QED BY <1>1, <1>7, <2>1, <2>2 DEF OneChannel, Lim!Presized
<1> QED BY <1>1, <1>3, <1>4, <1>6, <1>7, <1>8 DEF LimInv, Lim!Presized

\* A receive gives one back, be it to another channel than it was taken from.
LEMMA LimInvDrain ==
    ASSUME LimInv, NEW h \in Handler, Lim!Drain(h)
    PROVE  /\ LimInv'
           /\ h \in Lim!Holders /\ Lim!Holders' = Lim!Holders \ {h}
<1> DEFINE c == ch[h]
<1>1. /\ pc[h] = "drain" /\ c \in Lim!Chan
      /\ pc' = [pc EXCEPT ![h] = "idle"] /\ sem' = sem
      /\ count[c] \in 1..Max /\ Max \in Nat
      /\ count' = [count EXCEPT ![c] = @ - 1]
      /\ ch' = [ch EXCEPT ![h] = NoChan]
  BY LimiterAssumption DEF Lim!Drain, Lim!Goto, LimInv, LimTyped, OnChannel
<1>2. count' \in [Lim!Chan -> 0..Max] /\ \A d \in Lim!Chan :
        count'[d] = IF d = c THEN count[c] - 1 ELSE count[d]
  BY <1>1 DEF LimInv, LimTyped
<1> HIDE DEF c
<1>3. LimTyped' /\ OnChannel'
  BY <1>1, <1>2 DEF LimInv, LimTyped, OnChannel, Lim!Chan
<1>4. h \in Lim!Holders /\ Lim!Holders' = Lim!Holders \ {h}
  BY <1>1 DEF LimInv, LimTyped, Lim!Holders
<1>5. Lim!Permits' = Lim!Permits \ {<<c, count[c]>>} /\ <<c, count[c]>> \in Lim!Permits
  <2>1. \A d \in Lim!Chan : count[d] \in Nat
    BY DEF LimInv, LimTyped
  <2>2. \A d, n : (d \in Lim!Chan /\ n \in 1..count'[d])
                    = (d \in Lim!Chan /\ n \in 1..count[d] /\ ~(d = c /\ n = count[c]))
    BY <1>1, <1>2, <2>1
  <2> QED BY <1>1, <2>2, PermitsAre, PermitsArePrimed
<1>6. Conserved'
  <2>1. IsFiniteSet(Lim!Permits') /\ Cardinality(Lim!Permits') = Cardinality(Lim!Permits) - 1
    BY <1>5, FS_RemoveElement DEF LimInv, Conserved
  <2>2. IsFiniteSet(Lim!Holders') /\ Cardinality(Lim!Holders') = Cardinality(Lim!Holders) - 1
    BY <1>4, FS_RemoveElement DEF LimInv, Conserved
  <2> QED BY <2>1, <2>2 DEF LimInv, Conserved
<1>7. ASSUME sem = "new"
      PROVE  /\ c = "new" /\ count["new"] = Cardinality(Lim!Holders)
             /\ \A g \in Handler : pc'[g] # "make" /\ ch'[g] \in {"new", NoChan}
  BY <1>1, <1>7, LimiterAssumption DEF LimInv, LimTyped, OnChannel, OneChannel, Lim!Presized, c
<1>8. OneChannel'
  <2>1. Cardinality(Lim!Holders') = Cardinality(Lim!Holders) - 1
    BY <1>4, FS_RemoveElement DEF LimInv, Conserved
  <2>2. sem = "new" => count'["new"] = count["new"] - 1
    BY <1>1, <1>2, <1>7
  <2> QED BY <1>1, <1>7, <2>1, <2>2 DEF OneChannel, Lim!Presized
<1> QED BY <1>3, <1>4, <1>6, <1>8 DEF LimInv

\* A step of a server is a step of its limiter, or leaves it alone.
LEMMA BlobStepLimits == [BlobNext]_blobVars => [Lim!Next]_limiterVars
<1> SUFFICES ASSUME [BlobNext]_blobVars PROVE [Lim!Next]_limiterVars
  OBVIOUS
<1>1. ASSUME NEW h \in Handler,
             \/ Comes(h) \/ Queues(h) \/ Enters(h) \/ GivesUp(h) \/ Leaves(h) \/ Releases(h)
      PROVE  Lim!Next
  BY <1>1 DEF Comes, Queues, Enters, GivesUp, Leaves, Releases, Lim!Next, Lim!Step
<1>2. ASSUME NEW h \in Handler, Handle(h) PROVE UNCHANGED limiterVars
  BY <1>2 DEF Handle, HeadObject, GetObject, NoRecipe, StartStream, EndStream, Moves
<1>3. CASE Streaming(Dispatcher) \/ Streaming(Writer) \/ ClientGone
           \/ \E i \in Idx : Streaming(FetchReturns(i))
  BY <1>3 DEF Streaming, ClientGone
<1>4. CASE UNCHANGED blobVars
  BY <1>4 DEF blobVars
<1> QED BY <1>1, <1>2, <1>3, <1>4 DEF BlobNext

LEMMA LimInvNext == LimInv /\ [Lim!Next]_limiterVars => LimInv'
<1> SUFFICES ASSUME LimInv, [Lim!Next]_limiterVars PROVE LimInv'
  OBVIOUS
<1>1. CASE Lim!Next
  BY <1>1, LimInvQuiet, LimInvSend, LimInvDrain DEF Lim!Next, Lim!Step
<1>2. CASE UNCHANGED limiterVars
  BY <1>2 DEF limiterVars, LimInv, LimTyped, OnChannel, Conserved, OneChannel, Lim!Permits,
              Lim!Holders, Lim!Presized, Lim!Chan
<1> QED BY <1>1, <1>2

LEMMA LimInvHolds == BlobSpec => []LimInv
<1>1. BlobInit => LimInv
  BY LimInvInit DEF BlobInit
<1>2. LimInv /\ [BlobNext]_blobVars => LimInv'
  BY BlobStepLimits, LimInvNext
<1> QED BY <1>1, <1>2, PTL DEF BlobSpec

\* The permits taken from all channels of a server are as many as its
\* handlers that hold one, also when handlers made several channels and give
\* back to another than they took from (acquire and its release, server.go).
THEOREM BlobConserves == BlobSpec => []PermitsConserved
<1>1. LimInv => PermitsConserved
  BY DEF LimInv, Conserved, PermitsConserved, Lim!PermitsConserved, Lim!Cardinality, Cardinality
<1> QED BY <1>1, LimInvHolds, PTL
LEMMA SameCardinality == \A S : Lim!Sem!Cardinality(S) = Cardinality(S)
BY DEF Lim!Sem!Cardinality, Cardinality

\* The safety part of IsSemaphore: the handlers that hold a permit of the
\* channel NewServer made come and go one at a time, and one comes only while
\* fewer than Max are there (server.go:80, "bounds concurrent storage work").
THEOREM BlobIsSemaphore ==
    BlobSpec => Lim!Sem!Init /\ [][Lim!Sem!Next]_(IF Lim!Presized THEN Lim!Holders ELSE {})
<1> DEFINE held == IF Lim!Presized THEN Lim!Holders ELSE {}
<1>1. BlobInit => Lim!Sem!Init
  BY DEF BlobInit, Lim!Init, Lim!Sem!Init, Lim!Holders, Lim!Presized
<1>2. LimInv /\ [BlobNext]_blobVars => [Lim!Sem!Next]_held
  <2> SUFFICES ASSUME LimInv, [Lim!Next]_limiterVars PROVE [Lim!Sem!Next]_held
    BY BlobStepLimits
  <2>1. ASSUME NEW h \in Handler, Lim!Send(h) PROVE [Lim!Sem!Next]_held
    <3>1. /\ h \notin Lim!Holders /\ Lim!Holders' = Lim!Holders \union {h}
          /\ Lim!Presized => Cardinality(Lim!Holders) < Max
          /\ Lim!Presized' = Lim!Presized
      BY <2>1, LimInvSend DEF Lim!Send, Lim!Presized
    <3>2. CASE Lim!Presized
      BY <3>1, <3>2, SameCardinality DEF Lim!Sem!Next, Lim!Sem!Acquire
    <3> QED BY <3>1, <3>2
  <2>2. ASSUME NEW h \in Handler, Lim!Drain(h) PROVE [Lim!Sem!Next]_held
    <3>1. /\ h \in Lim!Holders /\ Lim!Holders' = Lim!Holders \ {h}
          /\ Lim!Presized' = Lim!Presized
      BY <2>2, LimInvDrain DEF Lim!Drain, Lim!Presized
    <3> QED BY <3>1 DEF Lim!Sem!Next, Lim!Sem!Release
  <2>3. ASSUME NEW h \in Handler,
               \/ Lim!Request(h) \/ Lim!Test(h) \/ Lim!Make(h) \/ Lim!Enter(h)
               \/ Lim!GiveUp(h) \/ Lim!Leave(h) \/ Lim!StartRelease(h)
        PROVE  held' = held
    <3>1. Lim!Holders' = Lim!Holders
      BY <2>3, LimInvQuiet
    <3>2. CASE Lim!Make(h)
      BY <3>2, LimiterAssumption DEF Lim!Make, Lim!Goto, Lim!Presized, LimInv, OneChannel
    <3> QED BY <2>3, <3>1, <3>2 DEF Lim!Request, Lim!Test, Lim!Enter, Lim!GiveUp, Lim!Leave,
                                    Lim!StartRelease, Lim!Presized
  <2>4. CASE UNCHANGED limiterVars
    BY <2>4 DEF limiterVars, Lim!Presized, Lim!Holders
  <2> QED BY <2>1, <2>2, <2>3, <2>4 DEF Lim!Next, Lim!Step
<1> QED BY <1>1, <1>2, LimInvHolds, PTL DEF BlobSpec

\* The safety part of LimiterKept: a handler of blobs does to the limiter what
\* Limiter says of a handler, and nothing else moves it (handleBlob, acquire).
THEOREM BlobKeepsLimiter == BlobSpec => Lim!Init /\ [][Lim!Next]_limiterVars
<1>1. BlobInit => Lim!Init
  BY DEF BlobInit
<1> QED BY <1>1, BlobStepLimits, PTL DEF BlobSpec
=============================================================================
