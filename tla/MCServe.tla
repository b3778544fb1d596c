------------------------------ MODULE MCServe ------------------------------
(***************************************************************************)
(* An instance for TLC of Serve, with an image and an index that lists it, *)
(* and, as a scene of its own, one of ManifestCache. Only safety is        *)
(* checked, so the handlers and tags of Serve may be exchanged.            *)
(***************************************************************************)
EXTENDS Serve, ManifestCache, TLC

CONSTANTS a, i

IndexOfImage == [m \in Manifest |-> IF m = i THEN {a} ELSE {}]

Alike == Permutations(Handler) \union Permutations(Tag)

VARIABLE scene

allVars == <<vars, cacheVars, scene>>

ServeRests == Init /\ tag = [t \in Tag |-> None]
CacheRests == CacheInit /\ ~onDisk

AnyScene ==
    \/ scene = "answers" /\ Init /\ CacheRests
    \/ scene = "cache"   /\ ServeRests /\ CacheInit

NextScene ==
    /\ UNCHANGED scene
    /\ \/ scene = "answers" /\ Next /\ UNCHANGED cacheVars
       \/ scene = "cache"   /\ CacheNext /\ UNCHANGED vars

Scenes == AnyScene /\ [][NextScene]_allVars
=============================================================================
