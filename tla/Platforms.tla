----------------------------- MODULE Platforms -----------------------------
(***************************************************************************)
(* Which platform of an image travels: a push takes one from the docker    *)
(* daemon (push.go, platform.go, ExportImage of oci/layout.go), a pull     *)
(* takes one from a tag's manifest, its index or the layout of v1.0.0      *)
(* (pull.go, index.go) and loads it into the daemon (ImportImage), while   *)
(* images are rebuilt and tags rewritten. LocalBucket has the blobs.       *)
(*                                                                         *)
(* A platform is written as architecture and, if any, variant; an image    *)
(* is known by the platform in its config. Every image is of linux. One    *)
(* push or pull runs at a time: to it, others are clients that rewrite the *)
(* tag.                                                                    *)
(***************************************************************************)
EXTENDS Naturals, Sequences, SequencesExt, FiniteSets

CONSTANTS
    Spelling, \* the platforms
    Host,     \* hostPlatform
    Holdings, \* what the daemon may hold under a reference
    Indexes,  \* the platforms of the indexes clients publish, in order
    MaxEvents \* bound: rebuilds, rewrites and damages

Unnamed     == <<>>          \* --platform is not given
Attestation == <<"unknown">> \* the platform of an attestation's manifest

ASSUME PlatformsAssumption ==
    /\ Spelling \subseteq Seq(STRING) \ {Unnamed, Attestation}
    /\ Host \in Spelling /\ Len(Host) = 1 \* it names no variant
    /\ Holdings \subseteq SUBSET (Spelling \union {Attestation})
    /\ \A images \in Holdings : IsFiniteSet(images)
    /\ Indexes \subseteq Seq(Spelling \union {Attestation}) \ {Unnamed}
    /\ MaxEvents \in Nat

VARIABLES
    held,        \* what the daemon holds under the reference
    perPlatform, \* it has the containerd image store
    pushing,     \* the running push
    published,   \* the platforms of the tag's manifest, Unnamed when there is no tag
    isIndex,     \* it is an index
    child,       \* the manifests indexes name that are intact in the bucket
    legacy,      \* an image of this name is there in the layout of v1.0.0
    pulling,     \* the running pull
    events       \* counted against MaxEvents

platformVars == <<held, perPlatform, pushing, published, isIndex, child, legacy, pulling, events>>

NotPushing == [pc |-> "idle"]
NotPulling == [pc |-> "idle"]
Old == <<"v1.0.0">> \* the image of the old layout

PlatformsTypeOK ==
    /\ held \in Holdings /\ perPlatform \in BOOLEAN
    /\ published \in {<<s>> : s \in Spelling} \union Indexes \union {Unnamed}
    /\ child \subseteq Spelling \union {Attestation}
    /\ isIndex \in BOOLEAN /\ legacy \in BOOLEAN /\ events \in 0 .. MaxEvents
    /\ pushing.pc \in {"idle", "inspect", "save", "check", "put", "done"}
    /\ pushing.pc # "idle" =>
         /\ pushing.want \in Spelling \union {Unnamed} /\ pushing.chosen \in Spelling \union {Unnamed}
         /\ pushing.listed \subseteq Spelling /\ pushing.dropped \subseteq Spelling
         /\ pushing.got \in Spelling \union {Unnamed}
    /\ pulling.pc \in {"idle", "tag", "legacy", "child", "load", "answer", "done"}
    /\ pulling.pc # "idle" =>
         /\ pulling.want \in Spelling /\ pulling.got \in Spelling \union {Unnamed, Old, Attestation}
         /\ pulling.from \in {"image", "index", "legacy"}
         /\ pulling.answer \in {"loaded", "error", "cut off"}

PlatformsInit ==
    /\ held \in Holdings
    /\ perPlatform \in BOOLEAN
    /\ ~perPlatform => Cardinality(held) <= 1
    /\ pushing = NotPushing /\ pulling = NotPulling
    /\ published = Unnamed /\ isIndex = FALSE
    /\ child = {}
    /\ legacy \in BOOLEAN
    /\ events = 0

-----------------------------------------------------------------------------
(* Push.                                                                   *)

\* containsPlatform: a name with a variant and one without are the same.
Alike(a, b) == IsPrefix(a, b) \/ IsPrefix(b, a)
ContainsPlatform(available, want) == \E a \in available : Alike(a, want)

Others(available, chosen) == {a \in available : ~IsPrefix(chosen, a)}

PushMoves(update) ==
    /\ pushing' = update
    /\ UNCHANGED <<held, perPlatform, published, isIndex, child, legacy, pulling, events>>

StartPush(want) ==
    /\ pushing.pc = "idle" /\ pulling.pc = "idle"
    /\ PushMoves([pc |-> "inspect", want |-> want, listed |-> {}, chosen |-> Unnamed, dropped |-> {}, got |-> Unnamed])

\* LocalPlatforms: attestations are not listed, and the classic image store
\* lists nothing.
LocalPlatforms == IF perPlatform THEN held \ {Attestation} ELSE {}

Selects(chosen, dropped) ==
    PushMoves([pushing EXCEPT !.pc = "save", !.listed = LocalPlatforms, !.chosen = chosen, !.dropped = dropped])

\* selectPushPlatform: the platform asked for, the only one, or the host's,
\* and the ones left behind. Where none of them applies the push fails.
Select ==
    /\ pushing.pc = "inspect" /\ held # {}
    /\ LET want == pushing.want IN
       \/ LocalPlatforms = {} /\ Selects(want, {})
       \/ want # Unnamed /\ ContainsPlatform(LocalPlatforms, want) /\ Selects(want, Others(LocalPlatforms, want))
       \/ want = Unnamed /\ Cardinality(LocalPlatforms) = 1 /\ Selects(CHOOSE a \in LocalPlatforms : TRUE, {})
       \/ want = Unnamed /\ Cardinality(LocalPlatforms) > 1 /\ ContainsPlatform(LocalPlatforms, Host)
            /\ Selects(Host, Others(LocalPlatforms, Host))

\* ExportImage: the daemon is asked for the chosen platform. The classic store
\* hands back the one it has, the other one that is alike; or they refuse.
Export ==
    /\ pushing.pc = "save"
    /\ \E a \in held \ {Attestation} :
         /\ perPlatform => Alike(a, pushing.chosen)
         /\ PushMoves([pushing EXCEPT !.pc = "check", !.got = a])

\* Variant: what came back is taken for what was asked for.
CheckNothing == pushing.pc = "check" /\ PushMoves([pushing EXCEPT !.pc = "put"])

\* checkExportedPlatform, if a platform was asked for.
CheckExported ==
    /\ pushing.pc = "check"
    /\ pushing.want # Unnamed => Alike(pushing.got, pushing.want)
    /\ PushMoves([pushing EXCEPT !.pc = "put"])

\* The blobs, and then the manifest.
PutTag ==
    /\ pushing.pc = "put"
    /\ published' = <<pushing.got>> /\ isIndex' = FALSE
    /\ pushing' = [pushing EXCEPT !.pc = "done"]
    /\ UNCHANGED <<held, perPlatform, child, legacy, pulling, events>>

\* The push is over, or fails at any step.
EndPush == pushing.pc # "idle" /\ PushMoves(NotPushing)

-----------------------------------------------------------------------------
(* Pull.                                                                   *)

PullMoves(update) ==
    /\ pulling' = update
    /\ UNCHANGED <<held, perPlatform, pushing, published, isIndex, child, legacy, events>>

\* Without --platform the host's is wanted.
StartPull(want) ==
    /\ pushing.pc = "idle" /\ pulling.pc = "idle"
    /\ PullMoves([pc |-> "tag", want |-> IF want = Unnamed THEN Host ELSE want, from |-> "image", got |-> Unnamed,
                  answer |-> "error", tagged |-> published # Unnamed]) \* history: the tag has been there all the time

EndPull == pulling.pc # "idle" /\ PullMoves(NotPulling)

\* matchesPlatform: a variant must be there if one is wanted.
Matches(a, want) == IsPrefix(want, a)

\* The manifest of the tag, or what resolvePlatformManifest finds first in its
\* index. An image that is not an index is taken whatever was wanted.
ReadTag ==
    /\ pulling.pc = "tag" /\ published # Unnamed
    /\ IF isIndex
       THEN \E i \in DOMAIN published :
            /\ Matches(published[i], pulling.want)
            /\ \A j \in 1 .. i - 1 : ~Matches(published[j], pulling.want)
            /\ PullMoves([pulling EXCEPT !.pc = "child", !.from = "index", !.got = published[i]])
       ELSE PullMoves([pulling EXCEPT !.pc = "load", !.from = "image", !.got = published[1]])

\* Variant: any error leads to the old layout.
FindNothingOrFail ==
    /\ pulling.pc = "tag"
    /\ PullMoves([pulling EXCEPT !.pc = "legacy", !.from = "legacy", !.got = Old])

\* There is no such object: the old layout is tried. No other error is one.
FindNothing ==
    /\ pulling.pc = "tag" /\ published = Unnamed
    /\ PullMoves([pulling EXCEPT !.pc = "legacy", !.from = "legacy", !.got = Old])

DownloadOld == pulling.pc = "legacy" /\ legacy /\ PullMoves([pulling EXCEPT !.pc = "load"])

\* The child's manifest is fetched and verified; pullV110 has the blobs from
\* there on.
ReadPlatformManifest ==
    /\ pulling.pc = "child" /\ pulling.got \in child
    /\ PullMoves([pulling EXCEPT !.pc = "load"])

\* ImportImage: the daemon answers 200 and says in the body how it went, unless
\* the body breaks off.
Load ==
    /\ pulling.pc = "load"
    /\ \E answer \in {"loaded", "error", "cut off"} :
         PullMoves([pulling EXCEPT !.pc = "answer", !.answer = answer])

\* checkLoadResponse.
CheckLoad ==
    /\ pulling.pc = "answer" /\ pulling.answer = "loaded"
    /\ PullMoves([pulling EXCEPT !.pc = "done"])

-----------------------------------------------------------------------------
(* Users of the daemon and other clients of the bucket.                    *)

Happens == events < MaxEvents /\ events' = events + 1 /\ UNCHANGED <<perPlatform, pushing, legacy>>

Rebuild(images) ==
    /\ images # held /\ (~perPlatform => Cardinality(images) <= 1)
    /\ Happens
    /\ held' = images
    /\ UNCHANGED <<published, isIndex, child, pulling>>

\* A copy publishes an index or an image, a push an image.
Publishes(platforms, index) ==
    /\ Happens
    /\ published' = platforms /\ isIndex' = index
    /\ child' = IF index THEN child \union Range(platforms) ELSE child
    /\ UNCHANGED <<held, pulling>>

Untag ==
    /\ published # Unnamed
    /\ Happens
    /\ published' = Unnamed /\ isIndex' = FALSE
    /\ pulling' = IF pulling.pc = "idle" THEN pulling ELSE [pulling EXCEPT !.tagged = FALSE]
    /\ UNCHANGED <<held, child>>

\* A collection deletes a manifest, or a bit flips.
Spoil(s) ==
    /\ Happens
    /\ child' = child \ {s}
    /\ UNCHANGED <<held, published, isIndex, pulling>>

PlatformsNext ==
    \/ \E want \in Spelling \union {Unnamed} : StartPush(want) \/ StartPull(want)
    \/ Select \/ Export \/ CheckExported \/ PutTag \/ EndPush
    \/ ReadTag \/ FindNothing \/ DownloadOld \/ ReadPlatformManifest \/ Load \/ CheckLoad \/ EndPull
    \/ \E images \in Holdings : Rebuild(images)
    \/ \E platforms \in Indexes : Publishes(platforms, TRUE)
    \/ \E s \in Spelling : Publishes(<<s>>, FALSE)
    \/ Untag
    \/ \E s \in child : Spoil(s)

-----------------------------------------------------------------------------

\* A push never publishes one platform's content under another's name: it is
\* the one asked for or, of several, the host's and none that was named as left
\* behind, though the image was rebuilt meanwhile and the daemon may hand back
\* what it likes (checkExportedPlatform, selectPushPlatform).
PublishedRight ==
    pushing.pc = "done" =>
        /\ pushing.want # Unnamed => Alike(pushing.got, pushing.want)
        /\ pushing.want = Unnamed /\ Cardinality(pushing.listed) > 1 =>
             IsPrefix(Host, pushing.got) /\ pushing.got \notin pushing.dropped

\* The platforms that were listed, are still there and are not published have
\* been named (comment at platform.go:15: "the platforms not published are now
\* named, instead of vanishing without a word"). Of several variants of the
\* chosen name others leaves all out, though one of them is published, so this
\* does not hold.
LeftBehindNamed ==
    pushing.pc = "done" =>
        (pushing.listed \intersect held) \ {pushing.got} \subseteq pushing.dropped

\* A pull that ends well has loaded an image: of an index, the platform wanted,
\* whatever became of the index and its manifests meanwhile; and the old
\* layout's only if the tag was not there (pull, checkLoadResponse).
ImportedRight ==
    pulling.pc = "done" =>
        /\ pulling.answer = "loaded"
        /\ pulling.from = "index" => IsPrefix(pulling.want, pulling.got)
        /\ pulling.from = "legacy" => ~pulling.tagged
=============================================================================
