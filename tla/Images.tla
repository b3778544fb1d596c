------------------------------- MODULE Images -------------------------------
(***************************************************************************)
(* What images are made of, and the objects a bucket keeps them in: shared *)
(* by Copy and Doctor.                                                     *)
(*                                                                         *)
(* A platform's manifest is known by the platform; an index by the set of  *)
(* its platforms.                                                          *)
(***************************************************************************)
EXTENDS Naturals, Sequences, SequencesExt, FiniteSets

CONSTANTS
    Platform,
    Layer,     \* digests of configs and layers
    Chunk,
    LayersOf,  \* of each platform's manifest, its config and layers, in order
    ChunksOf,  \* of each layer the source stores as chunks, the chunks
    None       \* no manifest

ASSUME ImageAssumption ==
    /\ LayersOf \in [Platform -> Seq(Layer)]
    /\ ChunksOf \in [Layer -> SUBSET Chunk]
    /\ Platform \intersect Layer = {} \* digests of different content
    /\ IsFiniteSet(Platform)

Image(p) == [kind |-> "image", of |-> {p}]
Index(S) == [kind |-> "index", of |-> S]
Manifest == {Image(p) : p \in Platform} \union {Index(S) : S \in (SUBSET Platform) \ {{}}}

Obj(kind, id) == [kind |-> kind, id |-> id]
Key == {Obj("blob", p) : p \in Platform} \union {Obj(kind, d) : kind \in {"blob", "recipe", "index"}, d \in Layer}
         \union {Obj("chunk", c) : c \in Chunk}

Chunked(d) == d \in Layer /\ ChunksOf[d] # {}
LayerKeys(d) ==
    IF Chunked(d) THEN {Obj("chunk", c) : c \in ChunksOf[d]} \union {Obj("index", d), Obj("recipe", d)}
                  ELSE {Obj("blob", d)}
KeysOf(m) ==
    {Obj("blob", p) : p \in IF m.kind = "index" THEN m.of ELSE {}}
    \union UNION {LayerKeys(d) : d \in UNION {Range(LayersOf[p]) : p \in m.of}}
=============================================================================
