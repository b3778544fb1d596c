------------------------------ MODULE FileRead ------------------------------
(***************************************************************************)
(* s3lo cat (pkg/image/file.go CatFile): one file is read out of an image  *)
(* by searching its layers from the top down, in their file indexes or,    *)
(* without one, in their tars, honouring whiteouts and following links.    *)
(*                                                                         *)
(* The build that makes the image is the environment: a container file     *)
(* system changes by writes, links and removals, and each commit records   *)
(* the difference as a layer. What the container sees at a path is the     *)
(* reference CatFile is held against.                                      *)
(*                                                                         *)
(* A path is the sequence of its names. A file's bytes are known by a      *)
(* content, which is also its inode: files of one content are hard links   *)
(* of one another.                                                         *)
(***************************************************************************)
EXTENDS Naturals, Sequences, SequencesExt, FiniteSets

CONSTANTS
    Path,      \* the paths builds touch, closed under directories
    Content,
    Target,    \* what links say: absolute, or relative to the link's directory
    LinkNames, \* environment: names a tar gives to files it holds under another
    Mixed,     \* environment: builds may put a file or a link where a directory may stand
    MaxOps,    \* bound: operations of a build
    MaxLayers  \* bound: layers of an image

ASSUME PathAssumption ==
    /\ \A p \in Path : p \in Seq(STRING) \ {<<>>} /\ (Len(p) > 1 => Front(p) \in Path)
    /\ Target \subseteq [abs : BOOLEAN, path : Seq(STRING)]
    /\ LinkNames \subseteq Path /\ Mixed \in BOOLEAN
    /\ MaxOps \in Nat /\ MaxLayers \in Nat

Absent  == [kind |-> "absent"]
Dir     == [kind |-> "dir"]
File(c) == [kind |-> "file", data |-> c]
Link(t) == [kind |-> "link", to |-> t]
Hard(p) == [kind |-> "hard", to |-> [abs |-> FALSE, path |-> p]]

Node  == {Absent, Dir} \union {File(c) : c \in Content} \union {Link(t) : t \in Target}
Entry == Node \union {Hard(p) : p \in Path}

\* The markers ".wh.<name>" and "<dir>/.wh..wh..opq".
Whiteout(p) == [mark |-> "gone", path |-> p]
Opaque(p)   == [mark |-> "opaque", path |-> p]
Marker == {Whiteout(p) : p \in Path} \union {Opaque(p) : p \in Path}

\* A layer is stored raw, in chunks with an index or as a tar, or, when it
\* was copied from a registry, compressed.
Layer == [entry : [Path -> Entry], marks : SUBSET Marker, compressed : BOOLEAN]

VARIABLES
    base,    \* the file system at the last commit
    fs,      \* the file system the build is changing
    renewed, \* directories made anew over something of base
    layers,  \* the image, bottom layer first
    ops

fileVars == <<base, fs, renewed, layers, ops>>

Inner(p) == \E q \in Path : Len(q) > Len(p) /\ IsPrefix(p, q)
Above(p) == {q \in Path : Len(q) < Len(p) /\ IsPrefix(q, p)}
Under(p) == {q \in Path : IsPrefix(p, q)}

FileTypeOK ==
    /\ base \in [Path -> Node] /\ fs \in [Path -> Node]
    /\ \A p \in Path : fs[p] # Absent => \A q \in Above(p) : fs[q] = Dir
    /\ renewed \subseteq {p \in Path : Inner(p)}
    /\ layers \in Seq(Layer)
    /\ ops \in 0..MaxOps

FileInit ==
    /\ base = [p \in Path |-> Absent]
    /\ fs = base
    /\ renewed = {}
    /\ layers = <<>>
    /\ ops = 0

-----------------------------------------------------------------------------
(* The build.                                                              *)

\* A file or link appears at p, with the directories above it.
Place(p, node) ==
    LET made == {q \in Above(p) : fs[q].kind # "dir"} IN
    /\ ops < MaxOps
    /\ fs[p].kind # "dir" /\ \A q \in Above(p) : fs[q].kind \in {"absent", "dir"}
    /\ Inner(p) => Mixed
    /\ fs' = [q \in Path |-> IF q = p THEN node ELSE IF q \in made THEN Dir ELSE fs[q]]
    /\ renewed' = renewed \union {q \in made : base[q] # Absent}
    /\ ops' = ops + 1
    /\ UNCHANGED <<base, layers>>

WriteFile(p, c) == (\A q \in Path : fs[q] # File(c)) /\ Place(p, File(c))

Symlink(p, t) == Place(p, Link(t))

HardLink(p, q) == p \in LinkNames \ {q} /\ fs[q].kind = "file" /\ Place(p, fs[q])

RemoveAll(p) ==
    /\ ops < MaxOps
    /\ fs[p] # Absent
    /\ fs' = [q \in Path |-> IF q \in Under(p) THEN Absent ELSE fs[q]]
    /\ renewed' = renewed \ Under(p)
    /\ ops' = ops + 1
    /\ UNCHANGED <<base, layers>>

\* The entries of the layer: what differs, everything in a renewed directory,
\* and the other names of the files among them.
Recorded ==
    LET new == {p \in Path : fs[p] # Absent /\ (fs[p] # base[p] \/ Above(p) \intersect renewed # {})}
    IN  new \union {p \in Path : fs[p].kind = "file" /\ \E q \in new : fs[q] = fs[p]}

\* A removed file or tree leaves one marker, unless what holds it is gone,
\* replaced or renewed as well; a renewed directory leaves its own.
Markers(style) ==
    {Whiteout(p) : p \in {p \in Path : /\ base[p] # Absent /\ fs[p] = Absent
                                   /\ \A q \in Above(p) : fs[q].kind = "dir" /\ q \notin renewed}}
    \union {[mark |-> style, path |-> p] : p \in renewed}

\* Of the names of one file the tar holds its bytes under the first, and
\* under the others a hard link, whose target is a path from the archive's root.
FirstName(names) ==
    CHOOSE q \in names : names \ LinkNames # {} => q \notin LinkNames

TarEntry(p) ==
    LET first == FirstName({q \in Recorded : fs[q] = fs[p]})
    IN  IF p \notin Recorded THEN Absent
        ELSE IF fs[p].kind = "file" /\ p # first THEN Hard(first) ELSE fs[p]

Commit ==
    /\ Len(layers) < MaxLayers
    /\ fs # base \/ renewed # {}
    /\ \E marks \in {Markers("gone"), Markers("opaque")}, compressed \in BOOLEAN :
         layers' = Append(layers, [entry |-> [p \in Path |-> TarEntry(p)],
                                   marks |-> marks, compressed |-> compressed])
    /\ base' = fs
    /\ renewed' = {}
    /\ UNCHANGED <<fs, ops>>

FileNext ==
    \/ \E p \in Path, c \in Content : WriteFile(p, c)
    \/ \E p \in Path, t \in Target : Symlink(p, t)
    \/ \E p, q \in Path : HardLink(p, q)
    \/ \E p \in Path : RemoveAll(p)
    \/ Commit

FileSpec == FileInit /\ [][FileNext]_fileVars

-----------------------------------------------------------------------------
(* The search.                                                             *)

\* Variant: only the file's own marker, not those of the directories above.
WhiteoutsForItself(p) == {Whiteout(p)}

WhiteoutsFor(p) ==
    {Whiteout(p)} \union {Whiteout(q) : q \in Above(p)} \union {Opaque(q) : q \in Above(p)}

NotHere == [found |-> "nothing"]
Deleted == [found |-> "deleted"]
Failed  == [found |-> "error"]

\* catFromLayer: the layer's own entry first, then the markers. The index and
\* the tar hold the same files, links and markers, and no directories; a
\* compressed layer cannot be walked.
CatFromLayer(layer, want) ==
    LET here == layer.entry[want] IN
    IF layer.compressed THEN Failed
    ELSE CASE here.kind = "file" -> [found |-> "file", data |-> here.data]
           [] here.kind \in {"link", "hard"} -> [found |-> "link", to |-> here.to]
           [] here.kind \in {"absent", "dir"} ->
                IF WhiteoutsFor(want) \intersect layer.marks # {} THEN Deleted ELSE NotHere

\* resolveLink, which takes a hard link for a symbolic one.
ResolveLink(from, target) ==
    IF target.abs THEN target.path ELSE Front(from) \o target.path

\* What the topmost layer that knows the path says of it.
Search(want) ==
    LET known == {i \in DOMAIN layers : CatFromLayer(layers[i], want) # NotHere}
    IN  IF want \notin Path \/ known = {} THEN NotHere
        ELSE CatFromLayer(layers[CHOOSE i \in known : \A j \in known : j <= i], want)

MaxLinkHops == 16

\* CatFile from its given hop on.
CatFrom[hop \in 0..MaxLinkHops] ==
    IF hop = MaxLinkHops THEN [want \in Seq(STRING) |-> Failed]
    ELSE [want \in Seq(STRING) |->
            LET res == Search(want) IN
            IF res.found = "link" THEN CatFrom[hop + 1][ResolveLink(want, res.to)] ELSE res]

CatFile(path) == CatFrom[0][path]

-----------------------------------------------------------------------------
(* What the container sees.                                                *)

\* A container follows as many links as its kernel lets it, 40 on Linux.
ContainerHops == 41

\* The path without links that p leads to by fewer than depth of them, or <<>>
\* when it leads nowhere.
RealPath[depth \in 0..ContainerHops] ==
    IF depth = 0 THEN [p \in Seq(STRING) |-> <<>>]
    ELSE LET real[p \in Seq(STRING)] ==
               LET above == IF Len(p) = 1 THEN <<>> ELSE real[Front(p)]
                   here  == Append(above, Last(p))
               IN  IF p = <<>> \/ (Len(p) > 1 /\ above = <<>>) \/ here \notin Path THEN <<>>
                   ELSE IF base[here].kind # "link" THEN here
                   ELSE RealPath[depth - 1][ResolveLink(here, base[here].to)]
         IN  real

Sees(p) ==
    LET real == RealPath[ContainerHops][p] IN
    IF real # <<>> /\ base[real].kind = "file"
    THEN [found |-> "file", data |-> base[real].data] ELSE NotHere

\* The answer is what a container would actually see at the path (file.go:42):
\* never another version of the file, and never "not found" of a file that is
\* there; it is an error of one only when a layer cannot be read or more links
\* lead to the file than CatFile follows.
SeesContainer ==
    \A p \in Path : LET res == CatFile(p) IN
        IF res.found = "file" THEN res = Sees(p)
        ELSE Sees(p).found = "file" =>
                 /\ res = Failed
                 /\ \/ \E i \in DOMAIN layers : layers[i].compressed
                    \/ RealPath[MaxLinkHops][p] = <<>>

\* Only directories stand above files, and a link leads through directories only.
ThroughDirectories ==
    /\ ~Mixed
    /\ \A p \in Path, t \in Target : \A q \in Above(ResolveLink(p, t)) : Inner(q)

\* So it is through every sequence of writes, symbolic links, removals and
\* recreations over several layers, however they mark them, when only
\* directories stand above files and no layer holds a hard link (CatFile). What
\* an opaque marker hides is gone, as file.go:131 has it; docs/commands/cat.md:63
\* still says that such a file reads as if it were there.
SeesContainerPlain ==
    (\A i \in DOMAIN layers, p \in Path : layers[i].entry[p].kind # "hard") => SeesContainer
=============================================================================
