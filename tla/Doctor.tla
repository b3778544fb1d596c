------------------------------- MODULE Doctor -------------------------------
(***************************************************************************)
(* s3lo doctor (pkg/image/doctor.go, reference_walk.go): it lists the      *)
(* manifests, the blobs and the recipes of a bucket, reads each manifest   *)
(* and reports those that need what it has not listed; then it reads them  *)
(* all again to count what none of them needs. Nothing is locked, so other *)
(* clients put and delete objects and tags all the while.                  *)
(***************************************************************************)
EXTENDS Images

CONSTANTS
    Name,      \* image:tag
    Tagged,    \* the manifests tags may hold
    Scopes,    \* the sets of names a reference's image filter may leave
    MaxWrites  \* bound: what other clients write and delete

ASSUME DoctorAssumption ==
    /\ Tagged \subseteq Manifest
    /\ Scopes \subseteq SUBSET Name
    /\ MaxWrites \in Nat

VARIABLES
    bucket, \* the objects
    tags,   \* of each name, its manifest
    exam,   \* what the running doctor knows
    writes, \* counted against MaxWrites
    past    \* history since doctor began, see Begun

doctorVars == <<bucket, tags, exam, writes, past>>

NoExam == [pc |-> "idle"]
Unread == [at |-> "top", todo |-> {}, refs |-> {}]
Read   == [at |-> "end", todo |-> {}, refs |-> {}]

Id == Platform \union Layer

DoctorTypeOK ==
    /\ bucket \subseteq Key
    /\ tags \in [Name -> Tagged \union {None}]
    /\ writes \in 0 .. MaxWrites
    /\ exam.pc \in {"idle", "list all", "list blobs", "list recipes", "check", "orphans", "report"}
    /\ exam.pc # "idle" =>
         /\ exam.scope \subseteq Name /\ exam.all \subseteq Name
         /\ exam.stored \subseteq Id /\ exam.wanted \subseteq Id
         /\ exam.issues \subseteq exam.scope
         /\ exam.walk \in [Name -> [at : {"top", "child", "end"}, todo : SUBSET Platform, refs : SUBSET Id]]

\* What a tag's manifest leads to: manifests, configs and layers.
Needs(m) == (IF m.kind = "index" THEN m.of ELSE {}) \union UNION {Range(LayersOf[p]) : p \in m.of}

NeedsOf(held) == UNION {Needs(held[n]) : n \in {n \in Name : held[n] # None}}

NoPast == [stood |-> {}, present |-> {}, absent |-> {}, wanted |-> {}, failed |-> FALSE]

DoctorInit ==
    /\ tags \in [Name -> Tagged \union {None}]
    /\ bucket = UNION {KeysOf(tags[n]) : n \in {n \in Name : tags[n] # None}}
    /\ exam = NoExam
    /\ writes = 0
    /\ past = NoPast

-----------------------------------------------------------------------------
(* Other clients. What they do with tags and objects is not restricted.    *)

Writing(held, objects) ==
    /\ exam.pc # "report" /\ writes < MaxWrites
    /\ tags' = held /\ bucket' = objects
    /\ writes' = writes + 1
    /\ past' = IF exam.pc = "idle" THEN past ELSE
         [past EXCEPT !.stood = {n \in @ : held[n] = tags[n]}, !.present = @ \intersect objects,
                      !.absent = @ \ objects, !.wanted = @ \union NeedsOf(held)]
    /\ UNCHANGED exam

Stored(k)    == k \notin bucket /\ Writing(tags, bucket \union {k})
Deleted(k)   == k \in bucket /\ Writing(tags, bucket \ {k})
Tags(n, m)   == tags[n] # m /\ Writing([tags EXCEPT ![n] = m], bucket)

-----------------------------------------------------------------------------
(* Doctor.                                                                 *)

Names == {n \in Name : tags[n] # None}

Knows(update) == exam' = update /\ UNCHANGED <<bucket, tags, writes>>

\* The manifests that the reference selects are listed.
Examine(scope) ==
    /\ exam.pc = "idle"
    /\ Knows([pc |-> "list all", scope |-> Names \intersect scope, filtered |-> scope # Name, all |-> {},
              stored |-> {}, walk |-> [n \in Name |-> Unread], issues |-> {}, wanted |-> {}])
    /\ past' = [stood |-> Names, present |-> bucket, absent |-> Key \ bucket,
                wanted |-> NeedsOf(tags), failed |-> FALSE]

\* A filtered reference has all manifests listed as well.
ListAll ==
    /\ exam.pc = "list all"
    /\ Knows([exam EXCEPT !.pc = "list blobs", !.all = IF exam.filtered THEN Names ELSE exam.scope])
    /\ UNCHANGED past

Listed(kinds) == {k.id : k \in {k \in bucket : k.kind \in kinds}}

ListBlobs ==
    /\ exam.pc = "list blobs"
    /\ Knows([exam EXCEPT !.pc = "list recipes", !.stored = Listed({"blob"})])
    /\ UNCHANGED past

\* Variant: an index is taken for its layer.
ListIndexes ==
    /\ exam.pc = "list recipes"
    /\ Knows([exam EXCEPT !.pc = "check", !.stored = @ \union Listed({"recipe", "index"})])
    /\ UNCHANGED past

\* Variant: only layers stored whole count.
ListNoRecipes ==
    /\ exam.pc = "list recipes"
    /\ Knows([exam EXCEPT !.pc = "check"])
    /\ UNCHANGED past

\* A layer is there whole or as a recipe.
ListRecipes ==
    /\ exam.pc = "list recipes"
    /\ Knows([exam EXCEPT !.pc = "check", !.stored = @ \union Listed({"recipe"})])
    /\ UNCHANGED past

\* The references of a manifest are known, or as many as the walk got to before
\* it failed. The first pass judges them, the second collects them.
Walked(n, refs, failed) ==
    Knows([exam EXCEPT
        !.walk[n] = Read,
        !.issues = IF exam.pc = "check" /\ (failed \/ ~(refs \subseteq exam.stored)) THEN @ \union {n} ELSE @,
        !.wanted = IF exam.pc = "orphans" THEN @ \union refs ELSE @])

Answered(ok) == past' = [past EXCEPT !.failed = @ \/ ~ok]

\* Variant: the second pass, too, reads what the reference selects.
TurnScoped(n) ==
    \/ exam.pc = "check" /\ n \in exam.scope
    \/ exam.pc = "orphans" /\ n \in exam.scope /\ \A k \in Name \ {n} : exam.walk[k].at # "child"

\* The first pass reads the selected manifests in parallel, the second all of
\* them one by one.
Turn(n) ==
    \/ exam.pc = "check" /\ n \in exam.scope
    \/ exam.pc = "orphans" /\ n \in exam.all /\ \A k \in Name \ {n} : exam.walk[k].at # "child"

\* A manifest is read; of an index its children are next.
ReadManifest(n, ok) ==
    /\ Turn(n) /\ exam.walk[n].at = "top"
    /\ LET m == tags[n] IN
       IF m = None \/ ~ok THEN Walked(n, {}, TRUE)
       ELSE IF m.kind = "image" THEN Walked(n, Needs(m), FALSE)
       ELSE Knows([exam EXCEPT !.walk[n] = [at |-> "child", todo |-> m.of, refs |-> {}]])
    /\ Answered(ok)

\* A child counts as referenced before it is read; one that cannot be read ends
\* the walk.
ReadChild(n, p, ok) ==
    LET seen == exam.walk[n].refs \union {p}
        rest == exam.walk[n].todo \ {p} IN
    /\ Turn(n) /\ exam.walk[n].at = "child" /\ p \in exam.walk[n].todo
    /\ IF Obj("blob", p) \notin bucket \/ ~ok THEN Walked(n, seen, TRUE)
       ELSE IF rest = {} THEN Walked(n, seen \union Range(LayersOf[p]), FALSE)
       ELSE Knows([exam EXCEPT !.walk[n] = [at |-> "child", todo |-> rest, refs |-> seen \union Range(LayersOf[p])]])
    /\ Answered(ok)

PassDone(pc, to) ==
    /\ exam.pc = pc /\ \A n \in Name : Turn(n) => exam.walk[n] = Read
    /\ Knows([exam EXCEPT !.pc = to, !.walk = [n \in Name |-> Unread]])
    /\ UNCHANGED past

Checked == PassDone("check", "orphans")
Counted == PassDone("orphans", "report")

\* A listing fails, or the command is interrupted.
Unanswered == exam.pc \notin {"idle", "report"} /\ Knows(NoExam) /\ past' = NoPast

DoctorNext ==
    \/ \E k \in Key : Stored(k) \/ Deleted(k)
    \/ \E n \in Name, m \in Tagged \union {None} : Tags(n, m)
    \/ \E scope \in Scopes : Examine(scope)
    \/ ListAll \/ ListBlobs \/ ListRecipes
    \/ exam.pc \in {"check", "orphans"} /\ \E n \in Name, ok \in BOOLEAN :
         ReadManifest(n, ok) \/ \E p \in Platform : ReadChild(n, p, ok)
    \/ Checked \/ Counted \/ Unanswered

-----------------------------------------------------------------------------

Reported == exam.pc = "report"

\* Objects of one of the two forms are there, or none of them, all the while.
Held(d)    == \E kind \in {"blob", "recipe"} : Obj(kind, d) \in past.present
Missing(d) == \A kind \in {"blob", "recipe"} : Obj(kind, d) \in Key => Obj(kind, d) \in past.absent

\* Doctor tells the operator to delete what it reports, so it must not report
\* an image that stood and had all it needs from the beginning to the end,
\* whatever else went on in the bucket, unless a request failed.
HealthySpared ==
    Reported /\ ~past.failed =>
        \A n \in past.stood \intersect exam.issues : \E d \in Needs(tags[n]) : ~Held(d)

\* An image in scope that stood without something it needs is reported.
LossReported ==
    Reported => \A n \in past.stood \intersect exam.scope :
        (\E d \in Needs(tags[n]) : Missing(d)) => n \in exam.issues

\* What is counted as an orphan is needed by no image of the whole bucket that
\* stood and was whole, and what no image ever needed is counted.
OrphansRight ==
    Reported =>
        /\ ~past.failed => \A n \in past.stood :
             (\A d \in Needs(tags[n]) : Held(d)) => Needs(tags[n]) \subseteq exam.wanted
        /\ exam.wanted \subseteq past.wanted
=============================================================================
