------------------------------- MODULE MCCopy -------------------------------
(***************************************************************************)
(* An instance for TLC of Copy, and of two modules beside it, as scenes    *)
(* that are independent of each other: doctor examining a bucket of such   *)
(* images, and the requests of a copy from a registry. The scene says      *)
(* which of the three takes the steps.                                     *)
(*                                                                         *)
(* There is an image that names a chunked layer twice, and an index of     *)
(* that image and one with a config of its own.                            *)
(***************************************************************************)
EXTENDS Copy, Doctor, RegistryClient

CONSTANTS p1, p2, d1, d2, c1, c2, n1, n2

TwoLayers  == [p \in Platform |-> IF p = p1 THEN <<d2, d2>> ELSE <<d1, d2>>]
TwoChunks  == [d \in Layer |-> IF d = d2 THEN Chunk ELSE {}]
ImageAndIndex == {Image(p1), Index({p1, p2})}
JustIndex     == {Index({p1, p2})}
NoneOrSecond  == {{}, {p2}}
AllOrFirst    == {{n1, n2}, {n1}}

VARIABLE scene

allVars == <<vars, doctorVars, clientVars, scene>>

CopyRests   == Init /\ tag = Image(p1) /\ relocated = FALSE
DoctorRests == DoctorInit /\ tags = [n \in Name |-> None]
ClientRests == ClientInit /\ issued = 0

AnyScene ==
    \/ scene = "copy"     /\ Init /\ DoctorRests /\ ClientRests
    \/ scene = "doctor"   /\ CopyRests /\ DoctorInit /\ ClientRests
    \/ scene = "registry" /\ CopyRests /\ DoctorRests /\ ClientInit

NextScene ==
    /\ UNCHANGED scene
    /\ \/ scene = "copy"     /\ Next /\ UNCHANGED <<doctorVars, clientVars>>
       \/ scene = "doctor"   /\ DoctorNext /\ UNCHANGED <<vars, clientVars>>
       \/ scene = "registry" /\ ClientNext /\ UNCHANGED <<vars, doctorVars>>

Scenes == AnyScene /\ [][NextScene]_allVars
=============================================================================
