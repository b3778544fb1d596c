---------------------------- MODULE BucketConfig ----------------------------
(***************************************************************************)
(* The bucket configuration object s3lo.yaml and the commands that decide  *)
(* by it: push asks whether the image is immutable and its tag taken       *)
(* (write_policy.go), stamps the chunk format on the first chunked push    *)
(* (bucketconfig.go) and publishes; config set rewrites the whole object   *)
(* (cmd/s3lo/config.go); delete refuses an immutable image (delete.go).    *)
(* Nothing holds the object between a command's read and its write.        *)
(*                                                                         *)
(* One image with one tag. The object not being there is the same as one   *)
(* with every setting at its default.                                      *)
(***************************************************************************)
EXTENDS Naturals, FiniteSets

CONSTANTS
    Client,     \* commands running at the same time
    Format,     \* chunk.FormatVersion of the builds of s3lo in use
    MayForce,   \* whether some command is run with --force
    MaySet,     \* whether config set is run
    NoOne       \* the tag does not exist

ASSUME ConfigAssumption ==
    /\ Format \subseteq Nat \ {0}
    /\ MayForce \in BOOLEAN /\ MaySet \in BOOLEAN
    /\ NoOne \notin Client

VARIABLES
    config,    \* the object
    tag,       \* the client whose manifest the tag holds, or NoOne
    chunks,    \* formats of the chunks the bucket holds
    client,    \* of each command, where it is and what it has read
    shielded   \* ghost: since the command began, without --force, the image
               \* has been immutable and its tag taken

vars == <<config, tag, chunks, client, shielded>>

Config == [immutable : BOOLEAN, chunked : BOOLEAN, format : Format \union {0}]
Unset  == [immutable |-> FALSE, chunked |-> TRUE, format |-> 0]

Pc == {"idle", "policy", "head", "config", "stamp", "upload", "publish",
       "write", "guard", "remove"}

ClientState == [pc : Pc, build : Format, force : BOOLEAN, copy : Config]

TypeOK ==
    /\ config \in Config
    /\ tag \in Client \union {NoOne}
    /\ chunks \subseteq Format
    /\ client \in [Client -> ClientState]
    /\ shielded \in [Client -> BOOLEAN]

Init ==
    /\ config \in {[Unset EXCEPT !.immutable = b] : b \in BOOLEAN}
    /\ tag = NoOne
    /\ chunks = {}
    /\ client \in [Client -> [pc : {"idle"}, build : Format, force : {FALSE}, copy : {Unset}]]
    /\ shielded = [c \in Client |-> FALSE]

At(c, pc)   == client[c].pc = pc
Goto(c, pc) == client' = [client EXCEPT ![c].pc = pc]
Leave(c)    == client' = [client EXCEPT ![c] =
    [pc |-> "idle", build |-> client[c].build, force |-> FALSE, copy |-> Unset]]
Taken       == config.immutable /\ tag # NoOne
Observe     == shielded' = [c \in Client |-> shielded[c] /\ config'.immutable /\ tag' # NoOne]

Begin(c, pc, force) ==
    /\ At(c, "idle")
    /\ client' = [client EXCEPT ![c].pc = pc, ![c].force = force]
    /\ shielded' = [shielded EXCEPT ![c] = Taken /\ ~force]
    /\ UNCHANGED <<config, tag, chunks>>

-----------------------------------------------------------------------------
(* Push.                                                                   *)

PushBegin(c) == \E force \in {FALSE, MayForce} :
    Begin(c, IF force THEN "config" ELSE "policy", force)

\* Variant: the policy is asked of the image only, never of the tag.
ReadPolicyLax(c) ==
    /\ At(c, "policy")
    /\ Goto(c, "config")
    /\ UNCHANGED <<config, tag, chunks, shielded>>

\* enforceTagWritePolicy.
ReadPolicy(c) ==
    /\ At(c, "policy")
    /\ Goto(c, IF config.immutable THEN "head" ELSE "config")
    /\ UNCHANGED <<config, tag, chunks, shielded>>

HeadTag(c) ==
    /\ At(c, "head")
    /\ IF tag # NoOne THEN Leave(c) ELSE Goto(c, "config")
    /\ UNCHANGED <<config, tag, chunks, shielded>>

\* The configuration is read again; a bucket of another format is refused.
ReadConfig(c) ==
    /\ At(c, "config")
    /\ IF config.chunked /\ config.format \notin {0, client[c].build} THEN Leave(c)
       ELSE client' = [client EXCEPT ![c].copy = config,
              ![c].pc = IF config.chunked /\ config.format = 0 THEN "stamp" ELSE "upload"]
    /\ UNCHANGED <<config, tag, chunks, shielded>>

\* ensureChunkFormat writes back the object it read, stamped.
Stamp(c) ==
    /\ At(c, "stamp")
    /\ config' = [client[c].copy EXCEPT !.format = client[c].build]
    /\ Goto(c, "upload")
    /\ UNCHANGED <<tag, chunks>>
    /\ Observe

Upload(c) ==
    /\ At(c, "upload")
    /\ chunks' = IF client[c].copy.chunked THEN chunks \union {client[c].build} ELSE chunks
    /\ Goto(c, "publish")
    /\ UNCHANGED <<config, tag, shielded>>

Publish(c) ==
    /\ At(c, "publish")
    /\ tag' = c
    /\ Leave(c)
    /\ UNCHANGED <<config, chunks>>
    /\ Observe

-----------------------------------------------------------------------------
(* Config set.                                                             *)

SetRead(c) ==
    /\ MaySet /\ At(c, "idle")
    /\ client' = [client EXCEPT ![c].pc = "write", ![c].copy = config]
    /\ UNCHANGED <<config, tag, chunks, shielded>>

\* What applyConfigKV may make of the configuration read, setting by setting:
\* no key names the stamp.
Edits(copy) == {edit \in Config : edit.format = copy.format}

\* Variant: the object is rebuilt from the settings the command knows.
SetWriteFresh(c) ==
    /\ At(c, "write")
    /\ \E edit \in Edits(client[c].copy) : config' = [edit EXCEPT !.format = 0]
    /\ Leave(c)
    /\ UNCHANGED <<tag, chunks>>
    /\ Observe

SetWrite(c) ==
    /\ At(c, "write")
    /\ config' \in Edits(client[c].copy)
    /\ Leave(c)
    /\ UNCHANGED <<tag, chunks>>
    /\ Observe

-----------------------------------------------------------------------------
(* Delete.                                                                 *)

DeleteBegin(c) == \E force \in {FALSE, MayForce} :
    Begin(c, IF force THEN "remove" ELSE "guard", force)

DeleteGuard(c) ==
    /\ At(c, "guard")
    /\ IF config.immutable THEN Leave(c) ELSE Goto(c, "remove")
    /\ UNCHANGED <<config, tag, chunks, shielded>>

\* Listing and deletion of the tag's objects.
DeleteKeys(c) ==
    /\ At(c, "remove")
    /\ tag' = NoOne
    /\ Leave(c)
    /\ UNCHANGED <<config, chunks>>
    /\ Observe

\* Any request of a command may fail, and ends it.
Fail(c) ==
    /\ ~At(c, "idle")
    /\ Leave(c)
    /\ UNCHANGED <<config, tag, chunks, shielded>>

Next == \E c \in Client :
    \/ PushBegin(c) \/ ReadPolicy(c) \/ HeadTag(c) \/ ReadConfig(c)
    \/ Stamp(c) \/ Upload(c) \/ Publish(c)
    \/ SetRead(c) \/ SetWrite(c)
    \/ DeleteBegin(c) \/ DeleteGuard(c) \/ DeleteKeys(c)
    \/ Fail(c)

Spec == Init /\ [][Next]_vars

-----------------------------------------------------------------------------

\* A command run without --force never reaches its write or its deletion of a
\* tag that has existed, in an image that has been immutable, for as long as
\* the command has run (enforceTagWritePolicy, the guard of Delete).
Shielded == \A c \in Client :
    client[c].pc \in {"config", "stamp", "upload", "publish", "remove"} => ~shielded[c]

\* The stamp is written and no command is on its way to write, or to upload
\* chunks by, anything else.
Settled ==
    /\ config.format # 0
    /\ \A c \in Client :
         /\ ~At(c, "stamp")
         /\ At(c, "write") => client[c].copy.format = config.format
         /\ At(c, "upload") /\ client[c].copy.chunked => client[c].build = config.format

\* From then on no interleaving of pushes, of whatever build, and of config
\* sets changes the stamp or stores a chunk of another format (comment on
\* ChunkFormat).
SettledForGood ==
    [][Settled => /\ Settled'
                  /\ config'.format = config.format
                  /\ chunks' \subseteq chunks \union {config.format}]_vars
=============================================================================
