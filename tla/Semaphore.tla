----------------------------- MODULE Semaphore -----------------------------
(***************************************************************************)
(* What the storage limiter of the serve package promises: at most Max     *)
(* handlers hold a permit, and who holds one can give it back.             *)
(***************************************************************************)
EXTENDS Naturals, FiniteSets

CONSTANTS Handler, Max

VARIABLE holders

Init == holders = {}

Acquire(h) ==
    /\ h \notin holders /\ Cardinality(holders) < Max
    /\ holders' = holders \union {h}

Release(h) == h \in holders /\ holders' = holders \ {h}

Next == \E h \in Handler : Acquire(h) \/ Release(h)

Spec == Init /\ [][Next]_holders /\ \A h \in Handler : WF_holders(Release(h))
=============================================================================
