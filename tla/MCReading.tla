----------------------------- MODULE MCReading -----------------------------
(***************************************************************************)
(* An instance for TLC of the two ways bytes come out of stored layers,    *)
(* each a scene of its own: ChunkedLayer, with every layer of up to MaxLen *)
(* bytes, and FileRead, with a directory with one file beside a file of    *)
(* the root, and links that lead from either to the other.                 *)
(***************************************************************************)
EXTENDS ChunkedLayer, FileRead, TLC

CONSTANTS c1, c2

Flat == {<<"d">>, <<"d", "a">>, <<"e">>}

Across == {[abs |-> TRUE, path |-> <<"e">>], [abs |-> FALSE, path |-> <<"d", "a">>]}

\* Hard links in the root of the image.
AtRoot == {<<"e">>}

\* No liveness property is checked.
ContentSymmetry == Permutations(Content)

VARIABLE scene

allVars == <<vars, fileVars, scene>>

LayerRests == Init /\ raw = <<>>

AnyScene ==
    \/ scene = "layer" /\ Init /\ FileInit
    \/ scene = "image" /\ LayerRests /\ FileInit

NextScene ==
    /\ UNCHANGED scene
    /\ \/ scene = "layer" /\ Next /\ UNCHANGED fileVars
       \/ scene = "image" /\ FileNext /\ UNCHANGED vars

Scenes == AnyScene /\ [][NextScene]_allVars
=============================================================================
