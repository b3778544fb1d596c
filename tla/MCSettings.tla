----------------------------- MODULE MCSettings -----------------------------
(***************************************************************************)
(* An instance for TLC of BucketConfig and, as a scene of its own, one of  *)
(* Retention: configurations whose overrides overlap in the ways that      *)
(* matter to the order of EffectiveConfig, for an image that keeps the tag *)
(* latest and has another image below its tag a.                           *)
(***************************************************************************)
EXTENDS BucketConfig, Retention, TLC

CONSTANTS latest, a, b, c, n

Exact == [name |-> "exact", wild |-> FALSE, len |-> 3, matches |-> TRUE]
Other == [name |-> "other", wild |-> FALSE, len |-> 5, matches |-> FALSE]
Long  == [name |-> "long", wild |-> TRUE, len |-> 5, matches |-> TRUE]
Short == [name |-> "short", wild |-> TRUE, len |-> 2, matches |-> TRUE]
Twin  == [name |-> "twin", wild |-> TRUE, len |-> 2, matches |-> TRUE]

MCPattern == {Exact, Other, Long, Short, Twin}

Image(immutable, keepLast, maxAge, keepTags) ==
    [immutable |-> immutable,
     lifecycle |-> [keepLast |-> keepLast, maxAge |-> maxAge, keepTags |-> keepTags]]

Base == Image("unset", 1, 1, {latest})

MCConfigs ==
    { \* an override for another image, one that replaces the floor, and its twin
      [default |-> Base, images |->
         Other :> Image("on", 0, 0, {}) @@ Short :> Image("unset", 2, 0, {}) @@ Twin :> Image("unset", 0, 0, {a})],
      \* the image's own policy below two globs, one of which protects it
      [default |-> Image("unset", 0, 0, {}), images |->
         Exact :> Base @@ Long :> Image("on", 2, 0, {a}) @@ Short :> Image("unset", 0, 1, {a})],
      \* the longer glob lifts a protection, the shorter one keeps it
      [default |-> Image("on", 1, 0, {latest}), images |->
         Long :> Image("off", 0, 0, {}) @@ Short :> Image("on", 0, 1, {})],
      \* the image's own override protects it from the default's policy
      [default |-> Base, images |-> Exact :> Image("on", 0, 0, {}) @@ Long :> Image("off", 0, 0, {})] }

BelowA == n :> a

\* Tags without a part in a configuration; no liveness property is checked.
Alike == Permutations({b, c})

VARIABLE scene

allVars == <<vars, retentionVars, scene>>

ObjectRests == Init
TagsRest ==
    /\ RetentionInit
    /\ cfg = CHOOSE f \in Configs : Exact \in DOMAIN f.images

AnyScene ==
    \/ scene = "object" /\ Init /\ TagsRest
    \/ scene = "tags"   /\ ObjectRests /\ RetentionInit

NextScene ==
    /\ UNCHANGED scene
    /\ \/ scene = "object" /\ Next /\ UNCHANGED retentionVars
       \/ scene = "tags"   /\ RetentionNext /\ UNCHANGED vars

Scenes == AnyScene /\ [][NextScene]_allVars
=============================================================================
