---------------------------- MODULE MCRegistry ----------------------------
(***************************************************************************)
(* Instances of Registry for TLC: one index of a platform whose image is a *)
(* chunked layer, so that there is an object of every class.               *)
(***************************************************************************)
EXTENDS Registry

CONSTANTS m1, d1, d2, c1

\* The manifest of the platform, which is stored whole; and nothing whole.
OneBlob   == [m \in Manifest |-> {d1}]
NoDigests == [m \in Manifest |-> {}]

\* A chunked layer of one chunk.
OneLayer   == [m \in Manifest |-> {d2}]
LayerChunk == [d \in Digest |-> IF d = d2 THEN {c1} ELSE {}]
=============================================================================
