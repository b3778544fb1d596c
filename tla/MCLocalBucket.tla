--------------------------- MODULE MCLocalBucket ---------------------------
(***************************************************************************)
(* An instance of LocalBucket for TLC, two pushers of two images of one    *)
(* config and one layer, which the first image names twice; and beside it, *)
(* as a scene of its own, one of Platforms, on a host of linux/arm.        *)
(***************************************************************************)
EXTENDS LocalBucket, Platforms

CONSTANTS m1, m2, d1, d2

SameConfig == [m \in Manifest |-> d1]
LayerTwice == [m \in Manifest |-> IF m = m1 THEN <<d2, d2>> ELSE <<d2>>]

Arm   == <<"arm">>
Arm6  == <<"arm", "v6">>
Arm7  == <<"arm", "v7">>
Arm64 == <<"arm64">>

ArmSpelling == {Arm, Arm6, Arm7, Arm64}
ArmHoldings == {{}, {Arm7}, {Arm64, Attestation}, {Arm, Arm64}, {Arm6, Arm7, Arm64}}
ArmIndexes  == {<<Attestation, Arm64, Arm6, Arm7>>, <<Arm>>}

\* Pushers are interchangeable, and no liveness property is checked.
PushersAlike == Permutations(Pusher)

VARIABLE scene

allVars == <<vars, platformVars, scene>>

PlatformsRest == PlatformsInit /\ held = {} /\ perPlatform = FALSE /\ legacy = FALSE

AnyScene ==
    \/ scene = "bucket"    /\ Init /\ PlatformsRest
    \/ scene = "platforms" /\ Init /\ PlatformsInit

NextScene ==
    /\ UNCHANGED scene
    /\ \/ scene = "bucket"    /\ Next /\ UNCHANGED platformVars
       \/ scene = "platforms" /\ PlatformsNext /\ UNCHANGED vars

Scenes == AnyScene /\ [][NextScene]_allVars
=============================================================================
