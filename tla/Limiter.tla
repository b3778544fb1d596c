------------------------------ MODULE Limiter ------------------------------
(***************************************************************************)
(* Server.acquire (pkg/serve/server.go): HTTP handlers share a buffered    *)
(* channel as a semaphore. NewServer makes the channel; a Server built     *)
(* without it makes the channel in the first acquire, which no lock        *)
(* protects, so each handler that finds none makes one of its own.         *)
(*                                                                         *)
(* The field s.sem is read anew at each use: to test it, to send, and,     *)
(* inside the release function, to receive.                                *)
(***************************************************************************)
EXTENDS Naturals, FiniteSets

CONSTANTS
    Handler,   \* goroutines serving requests
    Max,       \* MaxConcurrentStorage; zero would turn the limiter off
    NoChan     \* nil

\* A handler makes at most one channel before every handler sees one, so the
\* channels are named by their makers; NewServer's goes by the name "new".
Chan == Handler \union {"new"}

VARIABLES
    sem,    \* the field s.sem
    count,  \* the permits taken from each channel
    pc,
    ch      \* the channel the handler's current operation works on

vars == <<sem, count, pc, ch>>

TypeOK ==
    /\ sem \in Chan \union {NoChan}
    /\ count \in [Chan -> 0..Max]
    /\ pc \in [Handler -> {"idle", "test", "make", "enter", "select", "hold", "leave", "drain"}]
    /\ ch \in [Handler -> Chan \union {NoChan}]

\* A Server built by NewServer, or a plain Server value.
Init ==
    /\ sem \in {"new", NoChan}
    /\ count = [c \in Chan |-> 0]
    /\ pc = [h \in Handler |-> "idle"]
    /\ ch = [h \in Handler |-> NoChan]

Goto(h, from, to) == pc[h] = from /\ pc' = [pc EXCEPT ![h] = to]

\* handleManifest and handleBlob call acquire first.
Request(h) == Goto(h, "idle", "test") /\ UNCHANGED <<sem, count, ch>>

Test(h) ==
    /\ Goto(h, "test", IF sem = NoChan THEN "make" ELSE "enter")
    /\ UNCHANGED <<sem, count, ch>>

Make(h) ==
    /\ Goto(h, "make", "enter")
    /\ sem' = h
    /\ UNCHANGED <<count, ch>>

\* The select evaluates s.sem once ...
Enter(h) ==
    /\ Goto(h, "enter", "select")
    /\ ch' = [ch EXCEPT ![h] = sem]
    /\ UNCHANGED <<sem, count>>

\* Variant: a send on a full channel drops its permit.
SendDropped(h) ==
    /\ Goto(h, "select", "hold")
    /\ count' = [count EXCEPT ![ch[h]] = IF @ < Max THEN @ + 1 ELSE @]
    /\ ch' = [ch EXCEPT ![h] = NoChan]
    /\ UNCHANGED sem

\* ... and either sends ...
Send(h) ==
    /\ Goto(h, "select", "hold")
    /\ count[ch[h]] < Max
    /\ count' = [count EXCEPT ![ch[h]] = @ + 1]
    /\ ch' = [ch EXCEPT ![h] = NoChan]
    /\ UNCHANGED sem

\* Variant: a request given up while it waits runs release as well.
GiveUpReleasing(h) ==
    /\ Goto(h, "select", "leave")
    /\ ch' = [ch EXCEPT ![h] = NoChan]
    /\ UNCHANGED <<sem, count>>

\* ... or sees the request cancelled, whose release function does nothing.
GiveUp(h) ==
    /\ Goto(h, "select", "idle")
    /\ ch' = [ch EXCEPT ![h] = NoChan]
    /\ UNCHANGED <<sem, count>>

\* The handler returns, and its deferred release reads s.sem ...
Leave(h) == Goto(h, "hold", "leave") /\ UNCHANGED <<sem, count, ch>>

StartRelease(h) ==
    /\ Goto(h, "leave", "drain")
    /\ ch' = [ch EXCEPT ![h] = sem]
    /\ UNCHANGED <<sem, count>>

\* ... and receives from what it finds there.
Drain(h) ==
    /\ Goto(h, "drain", "idle")
    /\ count[ch[h]] > 0
    /\ count' = [count EXCEPT ![ch[h]] = @ - 1]
    /\ ch' = [ch EXCEPT ![h] = NoChan]
    /\ UNCHANGED sem

Step(h) ==
    \/ Test(h) \/ Make(h) \/ Enter(h) \/ Leave(h) \/ StartRelease(h) \/ Drain(h)

Next == \E h \in Handler : Request(h) \/ Step(h) \/ Send(h) \/ GiveUp(h)

\* The scheduler runs every handler, a handler's storage calls return, and a
\* channel serves its blocked senders in the order they came: no sender is
\* passed over for ever. Requests need not arrive nor be cancelled.
Fairness ==
    \A h \in Handler : WF_vars(Step(h)) /\ SF_vars(Send(h))

Spec == Init /\ [][Next]_vars /\ Fairness

-----------------------------------------------------------------------------

Holders == {h \in Handler : pc[h] \in {"hold", "leave", "drain"}}

\* What the channels hold: each is filled from 1 up.
Permits == UNION {{c} \X (1..count[c]) : c \in Chan}

\* The Server was built by NewServer: nothing replaces that channel.
Presized == sem = "new"

\* Even where handlers have made several channels and give back to another
\* channel than they took from, no permit is lost or made up: the channels
\* together hold one for each handler between acquire and the end of release
\* (acquire, server.go).
PermitsConserved == Cardinality(Permits) = Cardinality(Holders)

\* NewServer's channel is a counting semaphore (server.go:80, "bounds
\* concurrent storage work"): the handlers between acquire and the end of
\* release are the holders of its permits. Channels made by handlers are not:
\* they are mapped to a semaphore nobody holds.
Sem == INSTANCE Semaphore WITH holders <- IF Presized THEN Holders ELSE {}
IsSemaphore == Sem!Spec
=============================================================================
