------------------------------- MODULE Stream -------------------------------
(***************************************************************************)
(* StreamCompressed (pkg/chunkstore/chunkstore.go): a dispatcher goroutine *)
(* takes a permit of the window for each chunk and starts a fetch; fetches *)
(* answer in any order, each into its own channel of capacity one; the     *)
(* caller takes the answers in chunk order, writes them to the client and  *)
(* gives the permit back. Its return cancels the context for all of them.  *)
(***************************************************************************)
EXTENDS Integers

CONSTANTS
    N,         \* chunks of the recipe
    ReadAhead  \* streamReadAhead, the capacity of the window

ASSUME StreamAssumption ==
    /\ N \in Nat \ {0}          \* no chunk: nothing is started
    /\ ReadAhead \in Nat \ {0}

Idx == 1..N

VARIABLES
    next,      \* the chunk the dispatcher starts next
    dpc,       \* the dispatcher
    fetching,  \* the chunks whose GetObject is under way
    results,   \* what each chunk's channel got, "empty" before
    window,    \* permits taken
    wr,        \* the chunk the writer is at
    wpc,       \* the writer
    cancelled, \* the context
    outcome    \* what StreamCompressed returned

vars == <<next, dpc, fetching, results, window, wr, wpc, cancelled, outcome>>

TypeOK ==
    /\ next \in 1..(N + 1)
    /\ dpc \in {"run", "done"}
    /\ fetching \subseteq Idx
    /\ results \in [Idx -> {"empty", "good", "short", "error"}]
    /\ window \in 0..ReadAhead
    /\ wr \in 1..(N + 1)
    /\ wpc \in {"receive", "write", "free", "returned"}
    /\ cancelled \in BOOLEAN
    /\ outcome \in {"running", "ok", "failed", "cancelled"}

Init ==
    /\ next = 1 /\ dpc = "run"
    /\ fetching = {}
    /\ results = [i \in Idx |-> "empty"]
    /\ window = 0
    /\ wr = 1 /\ wpc = "receive"
    /\ cancelled = FALSE
    /\ outcome = "running"

-----------------------------------------------------------------------------
(* The dispatcher and the fetches.                                         *)

\* Variant: the fetch starts without a permit when the window is full.
DispatchUnbounded ==
    /\ dpc = "run" /\ next <= N
    /\ window' = window + 1
    /\ fetching' = fetching \union {next}
    /\ next' = next + 1
    /\ UNCHANGED <<dpc, results, wr, wpc, cancelled, outcome>>

\* select takes either ready case: a permit may be won after the cancellation.
Dispatch ==
    /\ dpc = "run" /\ next <= N
    /\ window < ReadAhead
    /\ window' = window + 1
    /\ fetching' = fetching \union {next}
    /\ next' = next + 1
    /\ UNCHANGED <<dpc, results, wr, wpc, cancelled, outcome>>

\* Variant: the dispatcher waits for a permit whatever happens to the context.
DispatchRunsOn ==
    /\ dpc = "run" /\ next > N
    /\ dpc' = "done"
    /\ UNCHANGED <<next, fetching, results, window, wr, wpc, cancelled, outcome>>

DispatchEnd ==
    /\ dpc = "run" /\ (next > N \/ cancelled)
    /\ dpc' = "done"
    /\ UNCHANGED <<next, fetching, results, window, wr, wpc, cancelled, outcome>>

\* GetObject returns an object of the recorded length or of another, or an
\* error, as it does when the context is cancelled; the send never blocks.
FetchReturns(i) ==
    /\ i \in fetching
    /\ fetching' = fetching \ {i}
    /\ \E r \in {"good", "short", "error"} : results' = [results EXCEPT ![i] = r]
    /\ UNCHANGED <<next, dpc, window, wr, wpc, cancelled, outcome>>

-----------------------------------------------------------------------------
(* The caller.                                                             *)

Return(o) ==
    /\ outcome' = o
    /\ wpc' = "returned"
    /\ cancelled' = TRUE   \* the deferred cancel

\* Variant: the recorded length is not compared.
ReceiveAny ==
    /\ wpc = "receive" /\ results[wr] # "empty"
    /\ IF results[wr] # "error"
       THEN wpc' = "write" /\ UNCHANGED <<cancelled, outcome>>
       ELSE Return("failed")
    /\ UNCHANGED <<next, dpc, fetching, results, window, wr>>

Receive ==
    /\ wpc = "receive" /\ results[wr] # "empty"
    /\ IF results[wr] = "good"
       THEN wpc' = "write" /\ UNCHANGED <<cancelled, outcome>>
       ELSE Return("failed")
    /\ UNCHANGED <<next, dpc, fetching, results, window, wr>>

Write ==
    /\ wpc = "write"
    /\ \/ wpc' = "free" /\ UNCHANGED <<cancelled, outcome>>
       \/ Return("failed")
    /\ UNCHANGED <<next, dpc, fetching, results, window, wr>>

\* Variant: the permit is kept.
FreeNothing ==
    /\ wpc = "free"
    /\ wr' = wr + 1
    /\ IF wr = N THEN Return("ok")
                 ELSE wpc' = "receive" /\ UNCHANGED <<cancelled, outcome>>
    /\ UNCHANGED <<next, dpc, fetching, results, window>>

\* The permit goes back, and the loop ends after the last chunk.
Free ==
    /\ wpc = "free" /\ window > 0
    /\ window' = window - 1
    /\ wr' = wr + 1
    /\ IF wr = N THEN Return("ok")
                 ELSE wpc' = "receive" /\ UNCHANGED <<cancelled, outcome>>
    /\ UNCHANGED <<next, dpc, fetching, results>>

Interrupted ==
    /\ wpc = "receive" /\ cancelled
    /\ Return("cancelled")
    /\ UNCHANGED <<next, dpc, fetching, results, window, wr>>

\* The client goes away.
ParentCancel ==
    /\ ~cancelled
    /\ cancelled' = TRUE
    /\ UNCHANGED <<next, dpc, fetching, results, window, wr, wpc, outcome>>

Dispatcher == Dispatch \/ DispatchEnd
Writer == Receive \/ Write \/ Free \/ Interrupted

Next == Dispatcher \/ (\E i \in Idx : FetchReturns(i)) \/ Writer \/ ParentCancel

\* Goroutines run, GetObject returns in the end and so does the client's
\* Write. The cancellation is not assumed.
Fairness ==
    /\ WF_vars(Dispatcher)
    /\ \A i \in Idx : WF_vars(FetchReturns(i))
    /\ WF_vars(Writer)

Spec == Init /\ [][Next]_vars /\ Fairness

-----------------------------------------------------------------------------

\* At most streamReadAhead chunks are being fetched or held at once, from the
\* start of their fetch to the end of their write, also after a failure
\* (comment on streamReadAhead).
ReadAheadBounded == next - wr <= ReadAhead

\* A stream reported as complete consists of every chunk, each of its
\* recorded length, although they were fetched in any order.
OkMeansAll ==
    outcome = "ok" => wr = N + 1 /\ \A i \in Idx : results[i] = "good"

\* The inductive invariant for both: permits, fetches and the two positions.
Inv ==
    /\ window = next - wr
    /\ wpc \in {"write", "free"} => wr < next /\ results[wr] = "good"
    /\ \A i \in Idx : i < wr => results[i] = "good"
    /\ \A i \in Idx : i >= next => results[i] = "empty"
    /\ wpc # "returned" => wr <= N /\ outcome = "running"
    /\ outcome = "ok" => wr = N + 1
    /\ \A i \in fetching : i < next /\ results[i] = "empty"

\* Whatever ended the stream, no goroutine of it stays behind.
NoLeak == outcome # "running" ~> dpc = "done" /\ fetching = {}
=============================================================================
