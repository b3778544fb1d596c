--------------------------- MODULE RegistryClient ---------------------------
(***************************************************************************)
(* The client a copy from a registry fetches with (registry_auth.go): one  *)
(* token is shared by all fetches that run in parallel (copy_registry.go), *)
(* a refused one is negotiated anew, and requests that fail are repeated.  *)
(* The first fetch that fails cancels the others.                          *)
(*                                                                         *)
(* Tokens are counted as the registry issues them; 0 is no token.          *)
(***************************************************************************)
EXTENDS Naturals

CONSTANTS
    Fetch,
    Retries,  \* len(retryDelays)
    MaxTokens \* bound: tokens issued

ASSUME ClientAssumption == Retries \in Nat /\ MaxTokens \in Nat

VARIABLES
    token,     \* the client's tokens[registry]
    valid,     \* the tokens the registry accepts
    issued,    \* how many it has issued
    fetch,     \* of each fetch, where doRequest is
    cancelled  \* the context of the fetches is done

clientVars == <<token, valid, issued, fetch, cancelled>>

Ended == {"fetched", "denied", "unauthorized", "exhausted", "cancelled"}

ClientTypeOK ==
    /\ token \in 0 .. MaxTokens /\ issued \in 0 .. MaxTokens
    /\ valid \subseteq 1 .. issued
    /\ cancelled \in BOOLEAN
    /\ fetch \in [Fetch -> [pc : {"try", "sent", "wait", "challenge", "store"} \union Ended,
                            round : 1 .. 2,
                            tries : 0 .. Retries,   \* doWithRetry's i
                            sent : 0 .. MaxTokens,  \* the token of the last request
                            own : 0 .. MaxTokens,   \* newToken
                            requests : Nat, faults : Nat]] \* history: of the fetch, of the round

\* resolveAuth has a token for an ECR registry, and none for others.
ClientInit ==
    /\ issued \in {0, 1} \intersect 0 .. MaxTokens /\ token = issued /\ valid = 1 .. issued
    /\ fetch = [f \in Fetch |-> [pc |-> "try", round |-> 1, tries |-> 0, sent |-> 0, own |-> 0, requests |-> 0, faults |-> 0]]
    /\ cancelled = FALSE

-----------------------------------------------------------------------------
(* doRequest.                                                              *)

At(f, pc) == fetch[f].pc = pc

\* An error of one fetch cancels the context of all.
Moves(f, pc, faults) ==
    /\ fetch' = [fetch EXCEPT ![f].pc = pc, ![f].faults = faults]
    /\ cancelled' = (cancelled \/ pc \in Ended \ {"fetched"})
    /\ UNCHANGED <<token, valid, issued>>

Goes(f, pc) == Moves(f, pc, fetch[f].faults)

\* Variant: the second round, too, sends what the client has at that moment.
SendShared(f) ==
    /\ At(f, "try")
    /\ fetch' = [fetch EXCEPT ![f].pc = "sent", ![f].requests = @ + 1, ![f].sent = token]
    /\ UNCHANGED <<token, valid, issued, cancelled>>

\* makeReq reads the shared token for every attempt; after a challenge the
\* requests carry the token that was negotiated.
Send(f) ==
    /\ At(f, "try")
    /\ fetch' = [fetch EXCEPT ![f].pc = "sent", ![f].requests = @ + 1,
                              ![f].sent = IF fetch[f].round = 1 THEN token ELSE fetch[f].own]
    /\ UNCHANGED <<token, valid, issued, cancelled>>

\* A network error, 5xx or 429: doWithRetry waits, or has no attempt left.
Fault(f) ==
    /\ At(f, "sent")
    /\ Moves(f, IF fetch[f].tries >= Retries THEN "exhausted" ELSE "wait", fetch[f].faults + 1)

\* The delay is over, unless the context is done first.
Retry(f) ==
    /\ At(f, "wait") /\ ~cancelled
    /\ fetch' = [fetch EXCEPT ![f].pc = "try", ![f].tries = @ + 1]
    /\ UNCHANGED <<token, valid, issued, cancelled>>

GivesUp(f) == At(f, "wait") /\ cancelled /\ Goes(f, "cancelled")

Accepted(f) == At(f, "sent") /\ fetch[f].sent \in valid /\ Goes(f, "fetched")

\* Any other status, or a body that breaks off, is not tried again.
Denied(f) == At(f, "sent") /\ Goes(f, "denied")

\* A 401 is a challenge in the first round and final in the second.
Refused(f) ==
    /\ At(f, "sent") /\ fetch[f].sent \notin valid
    /\ Goes(f, IF fetch[f].round = 1 THEN "challenge" ELSE "unauthorized")

\* handleChallenge asks once. The registry issues a token ...
Issue(f) ==
    /\ At(f, "challenge") /\ issued < MaxTokens
    /\ issued' = issued + 1 /\ valid' = valid \union {issued + 1}
    /\ fetch' = [fetch EXCEPT ![f].pc = "store", ![f].own = issued + 1]
    /\ UNCHANGED <<token, cancelled>>

\* ... or answers with an error document, in which no token is found ...
NoToken(f) ==
    /\ At(f, "challenge")
    /\ fetch' = [fetch EXCEPT ![f].pc = "store", ![f].own = 0]
    /\ UNCHANGED <<token, valid, issued, cancelled>>

\* ... or does not answer, or says no more than 401.
ChallengeFails(f) == At(f, "challenge") /\ Goes(f, IF cancelled THEN "cancelled" ELSE "denied")

\* Variant: the retries of the first round are not given back.
StoreTokenOnly(f) ==
    /\ At(f, "store")
    /\ token' = fetch[f].own
    /\ fetch' = [fetch EXCEPT ![f].pc = "try", ![f].round = 2, ![f].faults = 0]
    /\ UNCHANGED <<valid, issued, cancelled>>

\* The token replaces the shared one, and the second round begins.
StoreToken(f) ==
    /\ At(f, "store")
    /\ token' = fetch[f].own
    /\ fetch' = [fetch EXCEPT ![f].pc = "try", ![f].round = 2, ![f].tries = 0, ![f].faults = 0]
    /\ UNCHANGED <<valid, issued, cancelled>>

-----------------------------------------------------------------------------
(* The registry and the user.                                              *)

Expire(t) == t \in valid /\ valid' = valid \ {t} /\ UNCHANGED <<token, issued, fetch, cancelled>>

Interrupt == ~cancelled /\ cancelled' = TRUE /\ UNCHANGED <<token, valid, issued, fetch>>

ClientNext ==
    \/ \E f \in Fetch :
         \/ Send(f) \/ Fault(f) \/ Retry(f) \/ GivesUp(f) \/ Accepted(f) \/ Denied(f) \/ Refused(f)
         \/ Issue(f) \/ NoToken(f) \/ ChallengeFails(f) \/ StoreToken(f)
    \/ \E t \in 1 .. MaxTokens : Expire(t)
    \/ Interrupt

-----------------------------------------------------------------------------

\* A fetch is given up as unauthorized only when the registry no longer takes,
\* or never issued, the very token it answered this fetch's challenge with:
\* what the others do to the shared token does not harm it (doRequest).
UnauthorizedRight ==
    \A f \in Fetch : At(f, "unauthorized") => fetch[f].own \notin valid

\* An outage shorter than the retries of a round is survived, in the second
\* round as in the first; and however often tokens are refused, a fetch sends no
\* more than the requests of two rounds, so it ends (doWithRetry, doRequest).
RetriesRight ==
    \A f \in Fetch :
        /\ At(f, "exhausted") => fetch[f].faults = Retries + 1
        /\ fetch[f].requests <= 2 * (Retries + 1)
=============================================================================
