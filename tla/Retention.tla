----------------------------- MODULE Retention -----------------------------
(***************************************************************************)
(* The removal of old tags by s3lo clean (ApplyLifecycle and evaluateTags, *)
(* pkg/image/lifecycle.go) for the tags of one image, while pushes go on:  *)
(* the tags are listed with their modification times, the policy of the    *)
(* image is made of the default and the override that rules it             *)
(* (EffectiveConfig, pkg/image/bucketconfig.go), the tags to delete are    *)
(* decided on, and each is deleted by a goroutine of its own, with all     *)
(* keys that lie below it: those of another image, too, whose name is that *)
(* of the image, a slash and the tag. BucketConfig is about the object the *)
(* configuration is read from.                                             *)
(***************************************************************************)
EXTENDS Integers, FiniteSets, SequencesExt

CONSTANTS
    Tag,
    Nested,    \* tags of images whose name lies below a tag of this image, and
               \* which the configuration makes immutable
    Parent,    \* of each of them, that tag
    Pattern,   \* of overrides: whether they have a wildcard, how long they are
               \* and whether the image matches them
    Configs,   \* configurations a cleaner may have read
    Cleaner,   \* clean commands running at the same time
    MaxTime    \* bound: the clock stops here

\* LifecycleImageConfig; one that is not there is as one without settings.
Lifecycle == [keepLast : Nat, maxAge : Nat, keepTags : SUBSET Tag]
NoPolicy == [keepLast |-> 0, maxAge |-> 0, keepTags |-> {}]
ImageConfig == [immutable : {"unset", "on", "off"}, lifecycle : Lifecycle]

ASSUME ConfigsAssumption ==
    /\ IsFiniteSet(Tag) /\ MaxTime \in Nat
    /\ Nested \intersect Tag = {} /\ Parent \in [Nested -> Tag]
    /\ \A p \in Pattern : p.wild \in BOOLEAN /\ p.len \in Nat /\ p.matches \in BOOLEAN
    \* one without a wildcard is a name: patterns with a class are not modelled
    /\ \A p, q \in Pattern : p.matches /\ ~p.wild /\ q.matches /\ ~q.wild => p = q
    /\ \A cfg \in Configs :
         /\ DOMAIN cfg.images \subseteq Pattern
         /\ cfg.default \in ImageConfig
         /\ \A p \in DOMAIN cfg.images : cfg.images[p] \in ImageConfig

VARIABLES
    cfg,    \* the configuration in force
    now,
    modified,  \* LastModified of each tag's manifest, or Gone
    nested,    \* the tags of nested images that are there
    clean      \* of each cleaner, how far it is and what it has seen

retentionVars == <<cfg, now, modified, nested, clean>>

Gone == -1
Listing == [Tag -> {Gone} \union 0..MaxTime]
Listed(listing) == {t \in Tag : listing[t] # Gone}
Idle == [pc |-> "idle", listing |-> [t \in Tag |-> Gone], at |-> 0,
         policy |-> NoPolicy, doomed |-> {}, found |-> {}]

RetentionTypeOK ==
    /\ cfg \in Configs
    /\ now \in 0..MaxTime
    /\ modified \in Listing
    /\ nested \subseteq Nested
    /\ clean \in [Cleaner ->
         [pc : {"idle", "listed", "delete"}, listing : Listing, at : 0..MaxTime,
          policy : Lifecycle,    \* of the image
          doomed : SUBSET Tag,   \* toDelete, as far as it is not done
          found : SUBSET (Tag \union Nested)]] \* the tags whose keys the goroutines have listed

RetentionInit ==
    /\ cfg \in Configs
    /\ now = 0
    /\ modified = [t \in Tag |-> Gone]
    /\ nested = {}
    /\ clean = [c \in Cleaner |-> Idle]

-----------------------------------------------------------------------------
(* EffectiveConfig.                                                        *)

\* Variant: the more general pattern goes first.
PrecedesBroad(p, q) == IF p.wild # q.wild THEN p.wild ELSE p.len < q.len

\* The order of sort.Slice: exact patterns before globs, longer before shorter.
Precedes(p, q) == IF p.wild # q.wild THEN q.wild ELSE p.len > q.len

\* The overrides that may come first: sort.Slice leaves patterns that precede
\* each other in neither way as the iteration over the map happened to.
Ruling ==
    LET matching == {p \in DOMAIN cfg.images : p.matches}
    IN {p \in matching : \A q \in matching : ~Precedes(q, p)}

\* What an override sets replaces the default, setting by setting.
Merged(eff, img) ==
    LET Over(old, new, none) == IF new = none THEN old ELSE new IN
    [immutable |-> Over(eff.immutable, img.immutable, "unset"),
     lifecycle |->
       [keepLast |-> Over(eff.lifecycle.keepLast, img.lifecycle.keepLast, 0),
        maxAge |-> Over(eff.lifecycle.maxAge, img.lifecycle.maxAge, 0),
        keepTags |-> Over(eff.lifecycle.keepTags, img.lifecycle.keepTags, {})]]

\* The results EffectiveConfig may have.
EffectiveConfig ==
    IF Ruling = {} THEN {cfg.default}
    ELSE {Merged(cfg.default, cfg.images[p]) : p \in Ruling}

IsImmutable(eff) == eff.immutable = "on"

-----------------------------------------------------------------------------
(* evaluateTags.                                                           *)

\* The orders sort.Slice may leave the listed tags in: newest first, in any
\* order where the times are equal.
Sorted(listing) ==
    {s \in SetToSeqs(Listed(listing)) :
        \A i, j \in DOMAIN s : i < j => listing[s[i]] >= listing[s[j]]}

\* Variant: the age limit goes before the floor.
VerdictAgeFirst(lc, acc, t, age) ==
    IF t \in lc.keepTags THEN acc
    ELSE IF lc.maxAge > 0 /\ age > lc.maxAge THEN [acc EXCEPT !.doomed = @ \union {t}]
    ELSE IF lc.keepLast > 0 /\ acc.kept < lc.keepLast THEN [acc EXCEPT !.kept = @ + 1]
    ELSE IF lc.maxAge = 0 /\ lc.keepLast > 0 THEN [acc EXCEPT !.doomed = @ \union {t}]
    ELSE [acc EXCEPT !.kept = @ + 1]

\* The body of the loop: what it does with the next tag of the order.
Verdict(lc, acc, t, age) ==
    IF t \in lc.keepTags THEN acc
    ELSE IF lc.keepLast > 0 /\ acc.kept < lc.keepLast THEN [acc EXCEPT !.kept = @ + 1]
    ELSE IF IF lc.maxAge > 0 THEN age > lc.maxAge ELSE lc.keepLast > 0
         THEN [acc EXCEPT !.doomed = @ \union {t}]
         ELSE [acc EXCEPT !.kept = @ + 1]

\* The loop: what it has kept and doomed after each tag of the order.
Walk(lc, order, listing, time) ==
    LET walk[i \in 0..Len(order)] ==
          IF i = 0 THEN [kept |-> 0, doomed |-> {}]
          ELSE Verdict(lc, walk[i - 1], order[i], time - listing[order[i]])
    IN  walk

Doomed(lc, order, listing, time) == Walk(lc, order, listing, time)[Len(order)].doomed

-----------------------------------------------------------------------------
(* ApplyLifecycle.                                                         *)

List(c) ==
    /\ clean[c].pc = "idle"
    /\ clean' = [clean EXCEPT ![c].pc = "listed", ![c].listing = modified]
    /\ UNCHANGED <<cfg, now, modified, nested>>

\* The configuration is resolved once for the protection and once for the
\* policy; an image that is immutable or has no policy is passed over.
Evaluate(c) ==
    /\ clean[c].pc = "listed"
    /\ \E guard, eff \in EffectiveConfig, order \in Sorted(clean[c].listing) :
         LET lc == eff.lifecycle IN
         clean' = IF IsImmutable(guard) \/ lc = NoPolicy
                  THEN [clean EXCEPT ![c] = Idle]
                  ELSE [clean EXCEPT ![c].pc = "delete", ![c].at = now, ![c].policy = lc,
                          ![c].doomed = Doomed(lc, order, clean[c].listing, now)]
    /\ UNCHANGED <<cfg, now, modified, nested>>

\* The tags whose keys begin with those of tag t: itself and the nested ones.
Below(t) == {t} \union {n \in Nested : Parent[n] = t}

\* The goroutine of one tag lists the keys below it ...
ListTag(c, t) ==
    LET there == (Below(t) \intersect nested) \union ({t} \intersect Listed(modified)) IN
    /\ clean[c].pc = "delete" /\ t \in clean[c].doomed
    /\ clean[c].found \intersect Below(t) = {}
    /\ clean' = IF there = {}
                THEN [clean EXCEPT ![c].doomed = @ \ {t}]
                ELSE [clean EXCEPT ![c].found = @ \union there]
    /\ UNCHANGED <<cfg, now, modified, nested>>

\* Variant: a failed request is taken for one that had nothing to delete.
DeleteTagOrNot(c, t) ==
    LET keys == clean[c].found \intersect Below(t) IN
    /\ clean[c].pc = "delete" /\ keys # {}
    /\ modified' \in {modified, [u \in Tag |-> IF u \in keys THEN Gone ELSE modified[u]]}
    /\ nested' = nested \ keys
    /\ clean' = [clean EXCEPT ![c].doomed = @ \ {t}, ![c].found = @ \ Below(t)]
    /\ UNCHANGED <<cfg, now>>

\* ... and deletes what it listed.
DeleteTag(c, t) ==
    LET keys == clean[c].found \intersect Below(t) IN
    /\ clean[c].pc = "delete" /\ keys # {}
    /\ modified' = [u \in Tag |-> IF u \in keys THEN Gone ELSE modified[u]]
    /\ nested' = nested \ keys
    /\ clean' = [clean EXCEPT ![c].doomed = @ \ {t}, ![c].found = @ \ Below(t)]
    /\ UNCHANGED <<cfg, now>>

End(c) ==
    /\ clean[c].pc = "delete" /\ clean[c].doomed = {}
    /\ clean' = [clean EXCEPT ![c] = Idle]
    /\ UNCHANGED <<cfg, now, modified, nested>>

\* A failed request, or the end of the process; errgroup cancels the rest.
Abort(c) ==
    /\ clean[c].pc # "idle"
    /\ clean' = [clean EXCEPT ![c] = Idle]
    /\ UNCHANGED <<cfg, now, modified, nested>>

\* A push publishes tag t, new or again.
Push(t) ==
    /\ modified' = [modified EXCEPT ![t] = now]
    /\ UNCHANGED <<cfg, now, nested, clean>>

\* A push publishes a tag of a nested image.
PushNested(n) ==
    /\ nested' = nested \union {n}
    /\ UNCHANGED <<cfg, now, modified, clean>>

Tick ==
    /\ now < MaxTime
    /\ now' = now + 1
    /\ UNCHANGED <<cfg, modified, nested, clean>>

RetentionNext ==
    \/ \E c \in Cleaner :
         \/ List(c) \/ Evaluate(c) \/ End(c) \/ Abort(c)
         \/ \E t \in Tag : ListTag(c, t) \/ DeleteTag(c, t)
    \/ \E t \in Tag : Push(t)
    \/ \E n \in Nested : PushNested(n)
    \/ Tick

RetentionSpec == RetentionInit /\ [][RetentionNext]_retentionVars

-----------------------------------------------------------------------------

Limited(lc) == Tag \ lc.keepTags
AtMost(a, b) == IF a <= b THEN a ELSE b

\* What the comment of evaluateTags asks of a decision on the tags listed
\* (keep_last is a floor, lifecycle.go:189), without the loop: no kept tag is
\* doomed; a doomed tag has keepLast tags at least as new that are not; with an
\* age limit the doomed are past it, and all the old ones beyond the floor are
\* doomed; without one nothing beyond the floor is kept.
Decision(lc, listing, time, doomed) ==
    LET limited == Listed(listing) \cap Limited(lc)
        Newer(t) == {u \in limited \ {t} : listing[u] >= listing[t]}
        Past(t)  == lc.maxAge = 0 \/ time - listing[t] > lc.maxAge
    IN
    /\ doomed \subseteq limited
    /\ \A t \in doomed : Past(t) /\ Cardinality(Newer(t) \ doomed) >= lc.keepLast
    /\ lc.keepLast + lc.maxAge > 0 =>
         \A t \in limited \ doomed : Past(t) =>
             Cardinality({u \in limited : listing[u] > listing[t]}) < lc.keepLast

\* On every listing the bucket can yield, however equal times are sorted,
\* evaluateTags decides as its comment says: max_age has a say only beyond the
\* floor of keep_last. The guide says otherwise, see EitherRule.
DecisionRight ==
    \A c \in Cleaner : clean[c].pc = "listed" =>
        \A eff \in EffectiveConfig, order \in Sorted(clean[c].listing) :
            LET lc == eff.lifecycle
            IN Decision(lc, clean[c].listing, now, Doomed(lc, order, clean[c].listing, now))

\* The two limits as the guide has them (docs/guides/lifecycle.md:15, "a tag is
\* deleted if it violates either rule"; docs/commands/clean.md:32): of a policy
\* with both, what is too old is doomed, and what is not among the newest
\* keepLast. The code spares what only one of them condemns (evaluateTags), so
\* this does not hold.
EitherRule ==
    \A c \in Cleaner : clean[c].pc = "listed" =>
        \A eff \in EffectiveConfig, order \in Sorted(clean[c].listing) :
            LET lc      == eff.lifecycle
                listing == clean[c].listing
                limited == Listed(listing) \cap Limited(lc)
            IN  lc.keepLast > 0 /\ lc.maxAge > 0 /\ ~IsImmutable(eff) =>
                  \A t \in limited :
                    \/ now - listing[t] > lc.maxAge
                    \/ Cardinality({u \in limited : listing[u] > listing[t]}) >= lc.keepLast
                    => t \in Doomed(lc, order, listing, now)

\* While one cleaner is at work, whatever is pushed meanwhile, the image keeps
\* as many limited tags as keep_last promises of those it had when listed, if
\* it is the floor that the comment of evaluateTags makes of it.
FloorKept ==
    \A c \in Cleaner : clean[c].pc = "delete" =>
        LET lc == clean[c].policy
        IN Cardinality(Listed(modified) \cap Limited(lc)) >=
             AtMost(lc.keepLast, Cardinality(Listed(clean[c].listing) \cap Limited(lc)))

\* When a cleaning has nothing left to do, and will report what it has deleted,
\* no tag is left as it was listed that the policy wanted to go, whatever was
\* pushed, deleted by others or found missing meanwhile (ApplyLifecycle): those
\* beyond the floor and past their age are gone, or were pushed again.
CleanedUp ==
    \A c \in Cleaner : clean[c].pc = "delete" /\ clean[c].doomed = {} =>
        LET lc == clean[c].policy
            listing == clean[c].listing
            limited == Listed(listing) \cap Limited(lc)
        IN  lc.keepLast + lc.maxAge > 0 =>
              \A t \in limited :
                /\ modified[t] = listing[t] /\ modified[t] < clean[c].at
                /\ lc.maxAge = 0 \/ clean[c].at - listing[t] > lc.maxAge
                => Cardinality({u \in limited : listing[u] > listing[t]}) < lc.keepLast

\* The tag is protected by what the documentation says of overrides
\* (docs/faq.md, docs/commands/config.md): by the image's own, whatever the
\* globs say, or by the default, where no override that matches says otherwise.
Protected(t) ==
    LET own == {cfg.images[p] : p \in {q \in DOMAIN cfg.images : q.matches /\ ~q.wild}}
        any == {cfg.images[p] : p \in {q \in DOMAIN cfg.images : q.matches}}
    IN \/ \E img \in own : img.immutable = "on" \/ t \in img.lifecycle.keepTags
       \/ IsImmutable(cfg.default) /\ \A img \in any : img.immutable # "off"
       \/ t \in cfg.default.lifecycle.keepTags /\ \A img \in any : img.lifecycle.keepTags = {}

\* No cleaning deletes a protected tag, however the overrides overlap.
ProtectedStay ==
    [][\A t \in Tag : modified[t] # Gone /\ modified'[t] = Gone => ~Protected(t)]_retentionVars

\* The tags of an immutable image are removed by nobody but s3lo delete --force
\* (comment at lifecycle.go:21: an immutable image is exempt from automated
\* pruning). The prefix of a tag that is cleaned is that of the nested images,
\* too, so this does not hold.
ImmutableStay ==
    [][\A n \in Nested : n \in nested => n \in nested']_retentionVars
=============================================================================
