--------------------------- MODULE AlgorithmProofs ---------------------------
(***************************************************************************)
(* Proofs about the components that rest on a loop over data: Retention,   *)
(* which walks the tags of an image; ChunkedLayer, which cuts a layer and  *)
(* puts it together again; and FileRead, which searches layers and follows *)
(* links. A recursive function of the model is shown to exist and to       *)
(* satisfy its equation (RecursionExists, EndlessRecursion), and the loop  *)
(* is then gone through with an invariant of its own (NatSet, SpanSet).    *)
(***************************************************************************)
EXTENDS Retention, ChunkedLayer, FileRead, FiniteSetTheorems, SequenceTheorems, TLAPS

-----------------------------------------------------------------------------
(* Induction.                                                              *)

\* A set of numbers that is not empty has a least element: the intervals below
\* its elements are finite sets, which are well-founded by inclusion.
LEMMA Least ==
    ASSUME NEW T, T \subseteq Nat, T # {}
    PROVE  \E x \in T : \A y \in T : ~(y < x)
<1> DEFINE F == {0 .. x : x \in T}
<1>1. F \subseteq FiniteSubsetsOf(Nat) /\ F # {}
  <2>1. \A x \in T : 0 .. x \in SUBSET Nat /\ IsFiniteSet(0 .. x)
    BY FS_Interval
  <2> QED BY <2>1 DEF FiniteSubsetsOf
<1>2. PICK A \in F : \A B \in F : ~(<<B, A>> \in StrictSubsetOrdering(Nat))
  <2> HIDE DEF F
  <2> QED BY <1>1, WFMin, FS_StrictSubsetOrderingWellFounded
<1>3. PICK x \in T : A = 0 .. x
  OBVIOUS
<1>4. ASSUME NEW y \in T, y < x PROVE FALSE
  <2>1. 0 .. y \in SUBSET Nat /\ 0 .. x \in SUBSET Nat /\ 0 .. y \subseteq 0 .. x
    BY <1>4
  <2>2. x \in 0 .. x /\ x \notin 0 .. y
    BY <1>4
  <2>3. <<0 .. y, 0 .. x>> \in StrictSubsetOrdering(Nat)
    BY <2>1, <2>2 DEF StrictSubsetOrdering
  <2> QED BY <1>2, <1>3, <2>3
<1> QED BY <1>4

\* Induction, for a set.
LEMMA NatSet ==
    ASSUME NEW S, 0 \in S, \A n \in Nat : n \in S => n + 1 \in S
    PROVE  Nat \subseteq S
<1> SUFFICES ASSUME Nat \ S # {} PROVE FALSE
  OBVIOUS
<1>1. PICK x \in Nat \ S : \A y \in Nat \ S : ~(y < x)
  BY Least
<1>2. x - 1 \in Nat /\ x - 1 < x /\ x = (x - 1) + 1
  BY <1>1
<1> QED BY <1>1, <1>2

\* The same from any number on, up to another.
LEMMA SpanSet ==
    ASSUME NEW m \in Nat, NEW n \in Nat, NEW S, m \in S,
           \A i \in m .. n - 1 : i \in S => i + 1 \in S
    PROVE  m .. n \subseteq S
<1> DEFINE T == {k \in Nat : m + k <= n => m + k \in S}
<1>1. 0 \in T
  OBVIOUS
<1>2. ASSUME NEW k \in Nat, k \in T PROVE k + 1 \in T
  <2> SUFFICES ASSUME m + (k + 1) <= n PROVE m + (k + 1) \in S
    OBVIOUS
  <2>1. m + k \in m .. n - 1 /\ m + k \in S
    BY <1>2
  <2>2. (m + k) + 1 = m + (k + 1)
    OBVIOUS
  <2> QED BY <2>1, <2>2
<1> HIDE DEF T
<1>3. Nat \subseteq T
  BY <1>1, <1>2, NatSet
<1>4. ASSUME NEW i \in m .. n PROVE i \in S
  <2>1. i - m \in Nat /\ m + (i - m) = i /\ i <= n
    OBVIOUS
  <2>2. i - m \in T
    BY <1>3, <2>1
  <2> QED BY <2>1, <2>2 DEF T
<1> QED BY <1>4

\* From m to n, g starts with start and takes step from each number to the next.
Follows(g, m, n, start, step) ==
    /\ g[m] = start
    /\ \A i \in m + 1 .. n : g[i] = step[<<i, g[i - 1]>>]

\* There is such a function.
LEMMA RecursionExists ==
    ASSUME NEW D, NEW m \in Nat, NEW n \in Nat, m <= n, NEW start \in D,
           NEW step \in [(m + 1 .. n) \X D -> D]
    PROVE  \E g \in [m .. n -> D] : Follows(g, m, n, start, step)
<1> DEFINE Fits(g, k) == /\ g \in [m .. k -> D]
                         /\ g[m] = start
                         /\ \A i \in m + 1 .. k : g[i] = step[<<i, g[i - 1]>>]
           S == {k \in m .. n : \E g : Fits(g, k)}
<1>1. m \in S
  <2>1. Fits([i \in m .. m |-> start], m)
    OBVIOUS
  <2>2. m \in m .. n
    OBVIOUS
  <2> HIDE DEF Fits
  <2> QED BY <2>1, <2>2
<1>2. ASSUME NEW k \in m .. n - 1, k \in S PROVE k + 1 \in S
  <2>1. PICK g : Fits(g, k)
    BY <1>2
  <2> DEFINE h == [i \in m .. k + 1 |-> IF i <= k THEN g[i] ELSE step[<<i, g[i - 1]>>]]
  <2>2. g[k] \in D /\ k + 1 \in m + 1 .. n /\ (k + 1) - 1 = k
    BY <2>1
  <2>3. step[<<k + 1, g[k]>>] \in D
    BY <2>2
  <2>4. h \in [m .. k + 1 -> D]
    <3>1. ASSUME NEW i \in m .. k + 1 PROVE h[i] \in D
      <4>1. CASE i <= k
        BY <2>1, <4>1
      <4>2. CASE i = k + 1
        BY <2>2, <2>3, <4>2
      <4> QED BY <4>1, <4>2
    <3> QED BY <3>1
  <2>5. h[m] = start
    BY <2>1
  <2>6. ASSUME NEW i \in m + 1 .. k + 1 PROVE h[i] = step[<<i, h[i - 1]>>]
    <3>1. i - 1 \in m .. k /\ h[i - 1] = g[i - 1] /\ i \in m .. k + 1
      OBVIOUS
    <3>2. CASE i <= k
      BY <2>1, <3>1, <3>2
    <3>3. CASE i = k + 1
      BY <3>1, <3>3
    <3> QED BY <3>2, <3>3
  <2>7. Fits(h, k + 1)
    <3> HIDE DEF h
    <3> QED BY <2>4, <2>5, <2>6
  <2>8. k + 1 \in m .. n
    OBVIOUS
  <2> HIDE DEF h, Fits
  <2> QED BY <2>7, <2>8
<1> HIDE DEF S
<1>3. m .. n \subseteq S
  BY <1>1, <1>2, SpanSet
<1>4. n \in S
  BY <1>3
<1> QED BY <1>4 DEF S, Follows

\* The same without an end.
Goes(g, start, step) == g[0] = start /\ \A i \in Nat : g[i + 1] = step[<<i + 1, g[i]>>]

LEMMA EndlessRecursion ==
    ASSUME NEW D, NEW start \in D, NEW step \in [Nat \X D -> D]
    PROVE  \E g \in [Nat -> D] : Goes(g, start, step)
<1> DEFINE Fits(f, n) == f \in [0 .. n -> D] /\ Follows(f, 0, n, start, step)
           f == [n \in Nat |-> CHOOSE h : Fits(h, n)]
           g == [n \in Nat |-> f[n][n]]
<1>1. ASSUME NEW n \in Nat PROVE Fits(f[n], n)
  <2> DEFINE part == [x \in (0 + 1 .. n) \X D |-> step[x]]
  <2>1. \A i \in 0 + 1 .. n, d \in D : step[<<i, d>>] \in D /\ part[<<i, d>>] = step[<<i, d>>]
    OBVIOUS
  <2>2. part \in [(0 + 1 .. n) \X D -> D]
    BY <2>1
  <2>3. PICK h \in [0 .. n -> D] : Follows(h, 0, n, start, part)
    <3> HIDE DEF part
    <3>1. 0 \in Nat /\ 0 <= n
      OBVIOUS
    <3> QED BY <2>2, <3>1, RecursionExists, Zenon
  <2>4. \A i \in 0 + 1 .. n : h[i] = step[<<i, h[i - 1]>>]
    <3> TAKE i \in 0 + 1 .. n
    <3>1. i - 1 \in 0 .. n
      OBVIOUS
    <3>2. h[i] = part[<<i, h[i - 1]>>] /\ h[i - 1] \in D
      BY <2>3, <3>1 DEF Follows
    <3> QED BY <2>1, <3>2
  <2>5. Fits(h, n)
    BY <2>3, <2>4 DEF Follows
  <2> HIDE DEF Fits
  <2> QED BY <2>5
<1>2. ASSUME NEW n \in Nat PROVE f[n + 1][n] = f[n][n]
  <2> DEFINE a == f[n]
             b == f[n + 1]
             S == {i \in 0 .. n : a[i] = b[i]}
  <2>1. /\ a[0] = start /\ \A i \in 1 .. n : a[i] = step[<<i, a[i - 1]>>]
        /\ b[0] = start /\ \A i \in 1 .. n + 1 : b[i] = step[<<i, b[i - 1]>>]
    <3> HIDE DEF f
    <3>1. Fits(f[n], n) /\ Fits(f[n + 1], n + 1)
      BY <1>1
    <3> QED BY <3>1 DEF Follows
  <2> HIDE DEF a, b
  <2>2. 0 \in S
    BY <2>1
  <2>3. ASSUME NEW i \in 0 .. n - 1, i \in S PROVE i + 1 \in S
    <3>1. i + 1 \in 1 .. n /\ i + 1 \in 1 .. n + 1 /\ (i + 1) - 1 = i
      OBVIOUS
    <3>2. a[i + 1] = step[<<i + 1, a[i]>>] /\ b[i + 1] = step[<<i + 1, b[i]>>]
      BY <2>1, <3>1
    <3> QED BY <2>3, <3>1, <3>2
  <2>4. n \in S
    <3> HIDE DEF S
    <3>1. 0 .. n \subseteq S
      BY <2>2, <2>3, SpanSet
    <3> QED BY <3>1
  <2> QED BY <2>4 DEF a, b
<1> HIDE DEF f
<1>3. g \in [Nat -> D]
  <2>1. \A n \in Nat : f[n][n] \in D
    BY <1>1
  <2> QED BY <2>1
<1>4. g[0] = start
  BY <1>1 DEF Follows
<1>5. ASSUME NEW i \in Nat PROVE g[i + 1] = step[<<i + 1, g[i]>>]
  <2>1. i + 1 \in Nat /\ i + 1 \in 0 + 1 .. i + 1 /\ (i + 1) - 1 = i
    OBVIOUS
  <2>2. f[i + 1][i + 1] = step[<<i + 1, f[i + 1][i]>>]
    BY <1>1, <2>1 DEF Follows
  <2> QED BY <1>2, <2>1, <2>2
<1> QED BY <1>3, <1>4, <1>5 DEF Goes

-----------------------------------------------------------------------------
(* Retention: what evaluateTags decides.                                   *)

Acc == [kept : Nat, doomed : SUBSET Tag]

\* The orders of the listed tags: each has its place, once.
LEMMA OrderRight ==
    ASSUME NEW listing \in Listing, NEW order \in Sorted(listing)
    PROVE  /\ Len(order) \in Nat /\ DOMAIN order = 1 .. Len(order)
           /\ order \in [1 .. Len(order) -> Listed(listing)]
           /\ \A i, j \in 1 .. Len(order) : i # j => order[i] # order[j]
           /\ \A i, j \in 1 .. Len(order) : i < j => listing[order[i]] >= listing[order[j]]
           /\ \A t \in Listed(listing) : \E i \in 1 .. Len(order) : order[i] = t
<1> DEFINE L == Listed(listing)
           n == Cardinality(L)
<1>1. IsFiniteSet(L) /\ n \in Nat
  BY ConfigsAssumption, FS_Subset, FS_CardinalityType DEF Listed
<1>2. /\ order \in [1 .. n -> L] /\ \A i, j \in 1 .. n : i # j => order[i] # order[j]
      /\ \A i, j \in DOMAIN order : i < j => listing[order[i]] >= listing[order[j]]
  BY DEF Sorted, SetToSeqs
<1> HIDE DEF n, L
<1>3. Len(order) = n /\ DOMAIN order = 1 .. n
  BY <1>1, <1>2
<1>4. order \in Injection(1 .. n, L)
  BY <1>2 DEF Injection, IsInjective
<1>5. Cardinality(1 .. n) = n
  BY <1>1, FS_Interval
<1>6. order \in Surjection(1 .. n, L)
  BY <1>1, <1>4, <1>5, FS_Injection DEF n
<1>7. \A t \in L : \E i \in 1 .. n : order[i] = t
  BY <1>6 DEF Surjection
<1> QED BY <1>1, <1>2, <1>3, <1>7 DEF L

LEMMA VerdictTyped ==
    ASSUME NEW lc, NEW acc \in Acc, NEW t \in Tag, NEW age
    PROVE  Verdict(lc, acc, t, age) \in Acc
BY DEF Verdict, Acc

\* What the equations of Walk say of the function they define.
Loops(lc, order, listing, time, walk) ==
    /\ walk \in [0 .. Len(order) -> Acc]
    /\ walk[0] = [kept |-> 0, doomed |-> {}]
    /\ \A i \in 1 .. Len(order) :
         walk[i] = Verdict(lc, walk[i - 1], order[i], time - listing[order[i]])

\* They define one.
LEMMA WalkRight ==
    ASSUME NEW lc, NEW listing \in Listing, NEW order \in Sorted(listing), NEW time
    PROVE  Loops(lc, order, listing, time, Walk(lc, order, listing, time))
<1> DEFINE n == Len(order)
           start == [kept |-> 0, doomed |-> {}]
           step == [p \in (0 + 1 .. n) \X Acc |->
                      Verdict(lc, p[2], order[p[1]], time - listing[order[p[1]]])]
           Fits(f) == f = [i \in 0 .. n |->
                        IF i = 0 THEN start
                        ELSE Verdict(lc, f[i - 1], order[i], time - listing[order[i]])]
<1>1. n \in Nat /\ 0 <= n /\ start \in Acc
  BY OrderRight DEF Acc
<1>2. ASSUME NEW i \in 0 + 1 .. n, NEW acc \in Acc
      PROVE  Verdict(lc, acc, order[i], time - listing[order[i]]) \in Acc
  <2>1. order[i] \in Tag
    BY OrderRight DEF Listed
  <2> QED BY <2>1, VerdictTyped
<1>3. step \in [(0 + 1 .. n) \X Acc -> Acc]
  <2>1. ASSUME NEW p \in (0 + 1 .. n) \X Acc
        PROVE  Verdict(lc, p[2], order[p[1]], time - listing[order[p[1]]]) \in Acc
    BY <1>2
  <2> QED BY <2>1
<1>4. PICK g \in [0 .. n -> Acc] : Follows(g, 0, n, start, step)
  <2> HIDE DEF step, start, n
  <2> QED BY <1>1, <1>3, RecursionExists
<1>5. ASSUME NEW i \in 0 .. n, i # 0
      PROVE  g[i] = Verdict(lc, g[i - 1], order[i], time - listing[order[i]])
  <2>1. i \in 0 + 1 .. n /\ g[i - 1] \in Acc
    BY <1>1, <1>5
  <2>2. <<i, g[i - 1]>> \in (0 + 1 .. n) \X Acc
    BY <2>1
  <2>3. step[<<i, g[i - 1]>>] = Verdict(lc, g[i - 1], order[i], time - listing[order[i]])
    BY <2>2
  <2> HIDE DEF step
  <2> QED BY <1>4, <2>1, <2>3 DEF Follows
<1>6. Fits(g)
  BY <1>4, <1>5 DEF Follows
<1>7. ASSUME NEW f, Fits(f)
      PROVE  /\ f \in [0 .. n -> Acc] /\ f[0] = start
             /\ \A i \in 1 .. n : f[i] = Verdict(lc, f[i - 1], order[i], time - listing[order[i]])
  <2> DEFINE S == {i \in 0 .. n : f[i] \in Acc}
  <2> HIDE DEF start
  <2>4. /\ f[0] = start /\ f = [i \in 0 .. n |-> f[i]]
        /\ \A i \in 0 .. n : i # 0 =>
             f[i] = Verdict(lc, f[i - 1], order[i], time - listing[order[i]])
    <3>1. f = [i \in 0 .. n |-> IF i = 0 THEN start
                                ELSE Verdict(lc, f[i - 1], order[i], time - listing[order[i]])]
      BY <1>7
    <3> HIDE DEF n
    <3> QED BY <1>1, <3>1
  <2>1. 0 \in S
    BY <1>1, <2>4
  <2>2. ASSUME NEW i \in 0 .. n - 1, i \in S PROVE i + 1 \in S
    <3>1. i + 1 \in 0 + 1 .. n /\ i \in 0 .. n /\ f[i] \in Acc
      BY <1>1, <2>2
    <3>2. ASSUME NEW k \in 0 .. n, k # 0, k - 1 = i PROVE f[k] \in Acc
      <4>1. f[k] = Verdict(lc, f[i], order[k], time - listing[order[k]]) /\ k \in 0 + 1 .. n
        BY <1>1, <2>4, <3>2
      <4> QED BY <1>2, <3>1, <4>1
    <3>3. i + 1 \in 0 .. n /\ i + 1 # 0 /\ (i + 1) - 1 = i
      BY <1>1
    <3> QED BY <3>2, <3>3
  <2> HIDE DEF S
  <2>3. 0 .. n \subseteq S
    BY <1>1, <2>1, <2>2, SpanSet
  <2>5. \A i \in 0 .. n : f[i] \in Acc
    BY <2>3 DEF S
  <2>6. \A i \in 1 .. n : i \in 0 .. n /\ i # 0
    BY <1>1
  <2> QED BY <2>4, <2>5, <2>6
<1>8. Walk(lc, order, listing, time) = CHOOSE f : Fits(f)
  BY DEF Walk
<1> HIDE DEF Fits
<1>9. Fits(Walk(lc, order, listing, time))
  BY <1>6, <1>8
<1> QED BY <1>7, <1>9 DEF Loops

\* The tags the loop has gone through, and of the tags it may delete: those that
\* are newer than t, and whether t is old enough.
Seen(order, i) == {order[j] : j \in 1 .. i}
NewerThan(lc, listing, t) ==
    {u \in (Listed(listing) \cap Limited(lc)) \ {t} : listing[u] >= listing[t]}
OldEnough(lc, listing, time, t) == lc.maxAge = 0 \/ time - listing[t] > lc.maxAge

\* The invariant of the loop. Nothing is doomed before the floor is reached, so
\* that what a tag was kept for by the floor is all that is newer; a doomed tag
\* has the witnesses the floor asks for among those before it.
LoopInv(lc, order, listing, time, i, acc) ==
    LET limited == Seen(order, i) \ lc.keepTags IN
    /\ acc.doomed \subseteq limited
    /\ acc.kept = Cardinality(limited \ acc.doomed)
    /\ acc.kept < lc.keepLast => acc.doomed = {}
    /\ \A t \in acc.doomed :
         /\ OldEnough(lc, listing, time, t)
         /\ \E S \in SUBSET (NewerThan(lc, listing, t) \cap Seen(order, i)) :
              S \cap acc.doomed = {} /\ Cardinality(S) >= lc.keepLast
    /\ lc.keepLast + lc.maxAge > 0 =>
         \A t \in limited \ acc.doomed : OldEnough(lc, listing, time, t) =>
             Cardinality({u \in Listed(listing) \cap Limited(lc) : listing[u] > listing[t]}) < lc.keepLast

\* The next tag of the order is none of those before it, which are as new or newer;
\* what is newer than it is among those before it.
LEMMA NextTag ==
    ASSUME NEW lc \in Lifecycle, NEW listing \in Listing, NEW order \in Sorted(listing),
           NEW i \in 1 .. Len(order)
    PROVE  /\ order[i] \in Listed(listing) /\ order[i] \notin Seen(order, i - 1)
           /\ Seen(order, i) = Seen(order, i - 1) \union {order[i]}
           /\ Seen(order, i - 1) \subseteq Listed(listing) /\ IsFiniteSet(Seen(order, i - 1))
           /\ \A u \in Seen(order, i - 1) : listing[u] >= listing[order[i]]
           /\ \A u \in Listed(listing) : listing[u] > listing[order[i]] => u \in Seen(order, i - 1)
<1>1. /\ i \in Nat /\ i - 1 \in Nat /\ i \notin 1 .. i - 1
      /\ 1 .. i = 1 .. (i - 1) \union {i} /\ 1 .. i - 1 \subseteq 1 .. Len(order)
      /\ \A j \in 1 .. i - 1 : j # i /\ j < i
  BY OrderRight
<1>2. /\ order[i] \in Listed(listing) /\ Seen(order, i - 1) \subseteq Listed(listing)
  <2>1. \A j \in 1 .. Len(order) : order[j] \in Listed(listing)
    BY OrderRight
  <2> QED BY <1>1, <2>1 DEF Seen
<1>3. order[i] \notin Seen(order, i - 1)
  BY <1>1, OrderRight DEF Seen
<1>4. Seen(order, i) = Seen(order, i - 1) \union {order[i]}
  BY <1>1 DEF Seen
<1>5. \A u \in Seen(order, i - 1) : listing[u] >= listing[order[i]]
  BY <1>1, OrderRight DEF Seen
<1>6. IsFiniteSet(Seen(order, i - 1))
  <2>1. IsFiniteSet(Tag) /\ Seen(order, i - 1) \in SUBSET Tag
    BY <1>2, ConfigsAssumption DEF Listed
  <2> QED BY <2>1, FS_Subset
<1>7. ASSUME NEW u \in Listed(listing), listing[u] > listing[order[i]]
      PROVE  u \in Seen(order, i - 1)
  <2>1. PICK k \in 1 .. Len(order) : order[k] = u
    BY OrderRight
  <2>2. listing[u] \in Int /\ listing[order[i]] \in Int
    BY <1>2 DEF Listed, Listing, Gone
  <2>3. ~(listing[order[i]] >= listing[u])
    BY <1>7, <2>2
  <2>4. ~(i < k) /\ k # i
    BY <2>1, <2>3, <1>7, <2>2, OrderRight
  <2>5. k \in 1 .. i - 1
    BY <1>1, <2>4, OrderRight
  <2> QED BY <2>1, <2>5 DEF Seen
<1> QED BY <1>2, <1>3, <1>4, <1>5, <1>6, <1>7

\* One pass of the loop keeps its invariant.
LEMMA LoopStep ==
    ASSUME NEW lc \in Lifecycle, NEW listing \in Listing, NEW order \in Sorted(listing),
           NEW time \in Nat, NEW i \in 1 .. Len(order), NEW acc \in Acc,
           LoopInv(lc, order, listing, time, i - 1, acc)
    PROVE  LoopInv(lc, order, listing, time, i,
                   Verdict(lc, acc, order[i], time - listing[order[i]]))
<1> DEFINE t == order[i]
           seen == Seen(order, i - 1)
           rest == (seen \ lc.keepTags) \ acc.doomed
           age == time - listing[t]
           newest(u) == {w \in Listed(listing) \cap Limited(lc) : listing[w] > listing[u]}
           after == Verdict(lc, acc, t, age)
<1>1. /\ t \in Listed(listing) /\ t \notin seen /\ Seen(order, i) = seen \union {t}
      /\ seen \subseteq Listed(listing) /\ IsFiniteSet(seen)
      /\ \A u \in seen : listing[u] >= listing[t]
      /\ \A u \in Listed(listing) : listing[u] > listing[t] => u \in seen
  BY NextTag
<1>2. /\ lc.keepLast \in Nat /\ lc.maxAge \in Nat /\ acc.kept \in Nat
      /\ acc = [kept |-> acc.kept, doomed |-> acc.doomed] /\ age \in Int
  BY <1>1 DEF Lifecycle, Acc, Listed, Listing, Gone
<1>3. /\ acc.doomed \subseteq seen \ lc.keepTags /\ acc.kept = Cardinality(rest)
      /\ acc.kept < lc.keepLast => acc.doomed = {}
      /\ \A u \in acc.doomed :
           /\ OldEnough(lc, listing, time, u)
           /\ \E S \in SUBSET (NewerThan(lc, listing, u) \cap seen) :
                S \cap acc.doomed = {} /\ Cardinality(S) >= lc.keepLast
      /\ lc.keepLast + lc.maxAge > 0 =>
           \A u \in rest : OldEnough(lc, listing, time, u) => Cardinality(newest(u)) < lc.keepLast
  BY DEF LoopInv
<1>4. IsFiniteSet(rest) /\ t \notin rest
  BY <1>1, FS_Difference
<1>5. rest \subseteq NewerThan(lc, listing, t) \cap seen \/ t \in lc.keepTags
  BY <1>1 DEF NewerThan, Limited, Listed
<1> HIDE DEF seen, t, age, after
<1>6. CASE t \in lc.keepTags
  <2>1. after = acc /\ Seen(order, i) \ lc.keepTags = seen \ lc.keepTags
    BY <1>1, <1>6 DEF Verdict, after
  <2>2. \A S : S \subseteq seen => S \subseteq Seen(order, i)
    BY <1>1
  <2>3. \A u : NewerThan(lc, listing, u) \cap seen \subseteq NewerThan(lc, listing, u) \cap Seen(order, i)
    BY <1>1
  <2>4. LoopInv(lc, order, listing, time, i, after)
    BY <1>3, <2>1, <2>3 DEF LoopInv
  <2> QED BY <2>4 DEF after, t, age
<1>7. CASE t \notin lc.keepTags /\ lc.keepLast > 0 /\ acc.kept < lc.keepLast
  <2>1. after.kept = acc.kept + 1 /\ after.doomed = acc.doomed /\ acc.doomed = {}
    BY <1>2, <1>3, <1>7 DEF Verdict, after
  <2>2. (Seen(order, i) \ lc.keepTags) \ after.doomed = rest \union {t}
    BY <1>1, <1>7, <2>1
  <2>3. Cardinality(rest \union {t}) = acc.kept + 1
    BY <1>3, <1>4, FS_AddElement
  <2>4. Cardinality(newest(t)) < lc.keepLast
    <3>1. newest(t) \in SUBSET rest
      BY <1>1, <2>1 DEF Limited
    <3>2. Cardinality(newest(t)) <= acc.kept /\ Cardinality(newest(t)) \in Nat
      BY <1>3, <1>4, <3>1, FS_Subset, FS_CardinalityType
    <3> QED BY <1>2, <1>7, <3>2
  <2>5. LoopInv(lc, order, listing, time, i, after)
    <3> HIDE DEF rest
    <3> QED BY <1>3, <2>1, <2>2, <2>3, <2>4 DEF LoopInv
  <2> QED BY <2>5 DEF after, t, age
<1>8. CASE /\ t \notin lc.keepTags /\ ~(lc.keepLast > 0 /\ acc.kept < lc.keepLast)
           /\ IF lc.maxAge > 0 THEN age > lc.maxAge ELSE lc.keepLast > 0
  <2>1. after.kept = acc.kept /\ after.doomed = acc.doomed \union {t} /\ acc.kept >= lc.keepLast
    BY <1>2, <1>8 DEF Verdict, after
  <2>2. (Seen(order, i) \ lc.keepTags) \ after.doomed = rest
    BY <1>1, <1>3, <1>8, <2>1
  <2>3. OldEnough(lc, listing, time, t)
    BY <1>2, <1>8 DEF OldEnough, age
  <2>4. \A u : NewerThan(lc, listing, u) \cap seen \subseteq NewerThan(lc, listing, u) \cap Seen(order, i)
    BY <1>1
  <2>5. ASSUME NEW u \in after.doomed
        PROVE  /\ OldEnough(lc, listing, time, u)
               /\ \E S \in SUBSET (NewerThan(lc, listing, u) \cap Seen(order, i)) :
                    S \cap after.doomed = {} /\ Cardinality(S) >= lc.keepLast
    <3>1. CASE u = t
      <4>1. rest \in SUBSET (NewerThan(lc, listing, t) \cap Seen(order, i))
        BY <1>5, <1>8, <2>4
      <4>2. rest \cap after.doomed = {}
        BY <1>4, <2>1
      <4>3. Cardinality(rest) >= lc.keepLast
        BY <1>3, <2>1
      <4> HIDE DEF rest
      <4> QED BY <2>3, <3>1, <4>1, <4>2, <4>3
    <3>2. CASE u # t
      <4>1. PICK S \in SUBSET (NewerThan(lc, listing, u) \cap seen) :
              S \cap acc.doomed = {} /\ Cardinality(S) >= lc.keepLast
        BY <1>3, <2>1, <3>2
      <4>2. S \cap after.doomed = {} /\ S \in SUBSET (NewerThan(lc, listing, u) \cap Seen(order, i))
        BY <1>1, <2>1, <2>4, <4>1
      <4> QED BY <1>3, <2>1, <3>2, <4>1, <4>2
    <3> QED BY <3>1, <3>2
  <2>6. after.doomed \subseteq Seen(order, i) \ lc.keepTags
    BY <1>1, <1>3, <1>8, <2>1
  <2>7. LoopInv(lc, order, listing, time, i, after)
    <3>1. ~(after.kept < lc.keepLast)
      BY <1>2, <2>1
    <3> HIDE DEF rest
    <3> QED BY <1>3, <2>1, <2>2, <2>5, <2>6, <3>1 DEF LoopInv
  <2> QED BY <2>7 DEF after, t, age
<1>9. CASE /\ t \notin lc.keepTags /\ ~(lc.keepLast > 0 /\ acc.kept < lc.keepLast)
           /\ ~(IF lc.maxAge > 0 THEN age > lc.maxAge ELSE lc.keepLast > 0)
  <2>1. after.kept = acc.kept + 1 /\ after.doomed = acc.doomed /\ acc.kept >= lc.keepLast
    BY <1>2, <1>9 DEF Verdict, after
  <2>2. (Seen(order, i) \ lc.keepTags) \ after.doomed = rest \union {t}
    BY <1>1, <1>3, <1>9, <2>1
  <2>3. Cardinality(rest \union {t}) = acc.kept + 1
    BY <1>3, <1>4, FS_AddElement
  <2>4. lc.keepLast + lc.maxAge > 0 => ~OldEnough(lc, listing, time, t)
    BY <1>2, <1>9 DEF OldEnough, age
  <2>5. \A u : NewerThan(lc, listing, u) \cap seen \subseteq NewerThan(lc, listing, u) \cap Seen(order, i)
    BY <1>1
  <2>6. ~(after.kept < lc.keepLast) /\ after.doomed \subseteq Seen(order, i) \ lc.keepTags
    BY <1>1, <1>2, <1>3, <2>1
  <2>7. LoopInv(lc, order, listing, time, i, after)
    <3> HIDE DEF rest
    <3> QED BY <1>3, <2>1, <2>2, <2>3, <2>4, <2>5, <2>6 DEF LoopInv
  <2> QED BY <2>7 DEF after, t, age
<1> QED BY <1>6, <1>7, <1>8, <1>9

\* The invariant holds all along the loop, and the loop goes through all the tags.
LEMMA LoopRight ==
    ASSUME NEW lc \in Lifecycle, NEW listing \in Listing, NEW order \in Sorted(listing),
           NEW time \in Nat
    PROVE  /\ Walk(lc, order, listing, time)[Len(order)] \in Acc
           /\ LoopInv(lc, order, listing, time, Len(order), Walk(lc, order, listing, time)[Len(order)])
           /\ Seen(order, Len(order)) = Listed(listing)
<1> DEFINE n == Len(order)
           walk == Walk(lc, order, listing, time)
           S == {i \in 0 .. n : LoopInv(lc, order, listing, time, i, walk[i])}
<1>1. /\ walk \in [0 .. n -> Acc] /\ walk[0] = [kept |-> 0, doomed |-> {}] /\ n \in Nat
      /\ \A i \in 1 .. n : walk[i] = Verdict(lc, walk[i - 1], order[i], time - listing[order[i]])
  <2>1. n \in Nat
    BY OrderRight
  <2>2. /\ walk \in [0 .. n -> Acc] /\ walk[0] = [kept |-> 0, doomed |-> {}]
        /\ \A i \in 1 .. n : walk[i] = Verdict(lc, walk[i - 1], order[i], time - listing[order[i]])
    <3>1. Loops(lc, order, listing, time, walk)
      BY WalkRight
    <3> HIDE DEF walk
    <3> QED BY <3>1 DEF Loops
  <2> QED BY <2>1, <2>2
<1> HIDE DEF walk
<1>2. 0 \in S
  <2>1. Seen(order, 0) = {} /\ lc.keepLast \in Nat /\ 0 \in 0 .. n
    BY <1>1 DEF Seen, Lifecycle
  <2>2. walk[0].kept = 0 /\ walk[0].doomed = {}
    BY <1>1
  <2>3. (Seen(order, 0) \ lc.keepTags) \ {} = {}
    BY <2>1
  <2>4. LoopInv(lc, order, listing, time, 0, walk[0])
    BY <2>1, <2>2, <2>3, FS_EmptySet DEF LoopInv
  <2> QED BY <2>1, <2>4
<1>3. ASSUME NEW j \in 0 .. n - 1, j \in S PROVE j + 1 \in S
  <2>1. ASSUME NEW i \in 1 .. n, i - 1 = j PROVE LoopInv(lc, order, listing, time, i, walk[i])
    BY <1>1, <1>3, <2>1, LoopStep
  <2>2. j + 1 \in 1 .. n /\ (j + 1) - 1 = j /\ j + 1 \in 0 .. n
    BY <1>1
  <2> QED BY <2>1, <2>2
<1> HIDE DEF S
<1>4. 0 .. n \subseteq S
  BY <1>1, <1>2, <1>3, SpanSet
<1>5. n \in S /\ walk[n] \in Acc
  BY <1>1, <1>4
<1>6. Seen(order, n) = Listed(listing)
  BY OrderRight DEF Seen
<1> QED BY <1>5, <1>6 DEF S, walk

\* evaluateTags decides as documented, for every policy, listing and order.
LEMMA DecisionHolds ==
    ASSUME NEW lc \in Lifecycle, NEW listing \in Listing, NEW order \in Sorted(listing),
           NEW time \in Nat
    PROVE  /\ Decision(lc, listing, time, Doomed(lc, order, listing, time))
           /\ Doomed(lc, order, listing, time) \subseteq Tag
<1> DEFINE acc == Walk(lc, order, listing, time)[Len(order)]
           doomed == Doomed(lc, order, listing, time)
           limited == Listed(listing) \cap Limited(lc)
<1>1. /\ acc \in Acc /\ LoopInv(lc, order, listing, time, Len(order), acc)
      /\ Seen(order, Len(order)) = Listed(listing) /\ doomed = acc.doomed
  BY LoopRight DEF Doomed
<1> HIDE DEF acc, doomed
<1>2. Seen(order, Len(order)) \ lc.keepTags = limited /\ IsFiniteSet(limited)
  <2>1. limited \in SUBSET Tag /\ Listed(listing) \ lc.keepTags = limited
    BY DEF Listed, Limited
  <2> QED BY <1>1, <2>1, ConfigsAssumption, FS_Subset
<1>3. /\ doomed \subseteq limited
      /\ \A t \in doomed :
           /\ OldEnough(lc, listing, time, t)
           /\ \E S \in SUBSET (NewerThan(lc, listing, t) \cap Listed(listing)) :
                S \cap doomed = {} /\ Cardinality(S) >= lc.keepLast
      /\ lc.keepLast + lc.maxAge > 0 =>
           \A t \in limited \ doomed : OldEnough(lc, listing, time, t) =>
               Cardinality({u \in limited : listing[u] > listing[t]}) < lc.keepLast
  BY <1>1, <1>2 DEF LoopInv
<1>4. ASSUME NEW t \in doomed PROVE Cardinality(NewerThan(lc, listing, t) \ doomed) >= lc.keepLast
  <2> DEFINE newer == NewerThan(lc, listing, t) \ doomed
  <2>1. PICK S \in SUBSET (NewerThan(lc, listing, t) \cap Listed(listing)) :
          S \cap doomed = {} /\ Cardinality(S) >= lc.keepLast
    BY <1>3
  <2>2. S \in SUBSET newer /\ newer \in SUBSET limited
    BY <2>1 DEF NewerThan
  <2>3. IsFiniteSet(newer)
    BY <1>2, <2>2, FS_Subset
  <2>4. IsFiniteSet(S) /\ Cardinality(S) <= Cardinality(newer)
    BY <2>2, <2>3, FS_Subset
  <2>5. Cardinality(S) \in Nat /\ Cardinality(newer) \in Nat /\ lc.keepLast \in Nat
    BY <2>3, <2>4, FS_CardinalityType DEF Lifecycle
  <2> HIDE DEF newer
  <2>6. Cardinality(newer) >= lc.keepLast
    BY <2>1, <2>4, <2>5
  <2> QED BY <2>6 DEF newer
<1>5. Decision(lc, listing, time, doomed)
  BY <1>3, <1>4 DEF Decision, NewerThan, OldEnough
<1> QED BY <1>3, <1>5 DEF doomed, Limited

\* What EffectiveConfig may yield is a configuration.
LEMMA EffectiveTyped ==
    ASSUME cfg \in Configs
    PROVE  EffectiveConfig \subseteq ImageConfig
<1>1. cfg.default \in ImageConfig /\ \A p \in DOMAIN cfg.images : cfg.images[p] \in ImageConfig
  BY ConfigsAssumption
<1>2. ASSUME NEW a \in ImageConfig, NEW b \in ImageConfig PROVE Merged(a, b) \in ImageConfig
  BY DEF Merged, ImageConfig, Lifecycle
<1>3. Ruling \subseteq DOMAIN cfg.images
  BY DEF Ruling
<1> QED BY <1>1, <1>2, <1>3 DEF EffectiveConfig

-----------------------------------------------------------------------------
(* Retention: cleaning.                                                    *)

LEMMA RetentionTypeInit == RetentionInit => RetentionTypeOK
<1> SUFFICES ASSUME RetentionInit PROVE RetentionTypeOK
  OBVIOUS
<1>1. MaxTime \in Nat
  BY ConfigsAssumption
<1>2. Idle.listing \in Listing /\ NoPolicy \in Lifecycle
  BY DEF Idle, Listing, NoPolicy, Lifecycle
<1> QED BY <1>1, <1>2 DEF RetentionInit, RetentionTypeOK, Listing, Idle

LEMMA RetentionTypeNext == RetentionTypeOK /\ [RetentionNext]_retentionVars => RetentionTypeOK'
<1> SUFFICES ASSUME RetentionTypeOK, [RetentionNext]_retentionVars PROVE RetentionTypeOK'
  OBVIOUS
<1> USE DEF RetentionTypeOK
<1>1. MaxTime \in Nat /\ Gone \notin Nat /\ now \in Nat
  BY ConfigsAssumption DEF Gone
<1>2. Idle.listing \in Listing /\ NoPolicy \in Lifecycle
  BY DEF Idle, Listing, NoPolicy, Lifecycle
<1>3. Idle \in [pc : {"idle", "listed", "delete"}, listing : Listing, at : 0 .. MaxTime,
                policy : Lifecycle, doomed : SUBSET Tag, found : SUBSET (Tag \union Nested)]
  BY <1>1, <1>2 DEF Idle
<1>4. ASSUME NEW c \in Cleaner, List(c) PROVE RetentionTypeOK'
  <2>1. clean'[c] = [clean[c] EXCEPT !.pc = "listed", !.listing = modified]
    BY <1>4 DEF List
  <2>2. clean'[c] \in [pc : {"idle", "listed", "delete"}, listing : Listing, at : 0 .. MaxTime,
                       policy : Lifecycle, doomed : SUBSET Tag, found : SUBSET (Tag \union Nested)]
    BY <2>1
  <2>3. clean' = [clean EXCEPT ![c] = clean'[c]] /\ UNCHANGED <<cfg, now, modified, nested>>
    BY <1>4 DEF List
  <2> QED BY <2>2, <2>3
<1>5. ASSUME NEW c \in Cleaner, Evaluate(c) PROVE RetentionTypeOK'
  <2>1. PICK guard \in EffectiveConfig, eff \in EffectiveConfig, order \in Sorted(clean[c].listing) :
          clean' = IF IsImmutable(guard) \/ eff.lifecycle = NoPolicy
                   THEN [clean EXCEPT ![c] = Idle]
                   ELSE [clean EXCEPT ![c].pc = "delete", ![c].at = now, ![c].policy = eff.lifecycle,
                           ![c].doomed = Doomed(eff.lifecycle, order, clean[c].listing, now)]
    BY <1>5 DEF Evaluate
  <2>2. eff.lifecycle \in Lifecycle
    BY EffectiveTyped DEF ImageConfig
  <2>3. Doomed(eff.lifecycle, order, clean[c].listing, now) \subseteq Tag
    BY <1>1, <2>2, DecisionHolds
  <2>4. UNCHANGED <<cfg, now, modified, nested>>
    BY <1>5 DEF Evaluate
  <2>5. CASE IsImmutable(guard) \/ eff.lifecycle = NoPolicy
    BY <1>3, <2>1, <2>4, <2>5
  <2>6. CASE ~(IsImmutable(guard) \/ eff.lifecycle = NoPolicy)
    <3> DEFINE doomed == Doomed(eff.lifecycle, order, clean[c].listing, now)
    <3>1. clean' = [clean EXCEPT ![c].pc = "delete", ![c].at = now, ![c].policy = eff.lifecycle,
                                 ![c].doomed = doomed]
      BY <2>1, <2>6
    <3>2. doomed \in SUBSET Tag
      BY <2>3
    <3> HIDE DEF doomed
    <3>3. clean'[c] = [clean[c] EXCEPT !.pc = "delete", !.at = now, !.policy = eff.lifecycle,
                                       !.doomed = doomed]
      BY <3>1
    <3>4. clean'[c] \in [pc : {"idle", "listed", "delete"}, listing : Listing, at : 0 .. MaxTime,
                         policy : Lifecycle, doomed : SUBSET Tag, found : SUBSET (Tag \union Nested)]
      BY <2>2, <3>2, <3>3
    <3>5. clean' = [clean EXCEPT ![c] = clean'[c]]
      BY <3>1
    <3> QED BY <2>4, <3>4, <3>5
  <2> QED BY <2>5, <2>6
<1>6. ASSUME NEW c \in Cleaner, End(c) \/ Abort(c) PROVE RetentionTypeOK'
  BY <1>3, <1>6 DEF End, Abort
<1>7. ASSUME NEW c \in Cleaner, NEW t \in Tag, ListTag(c, t) PROVE RetentionTypeOK'
  BY <1>7 DEF ListTag, Below
<1>8. ASSUME NEW c \in Cleaner, NEW t \in Tag, DeleteTag(c, t) PROVE RetentionTypeOK'
  BY <1>8 DEF DeleteTag, Listing, Listed
<1>9. ASSUME NEW t \in Tag, Push(t) PROVE RetentionTypeOK'
  BY <1>9 DEF Push, Listing
<1>12. ASSUME NEW n \in Nested, PushNested(n) PROVE RetentionTypeOK'
  BY <1>12 DEF PushNested
<1>10. CASE Tick
  BY <1>1, <1>10 DEF Tick
<1>11. CASE UNCHANGED retentionVars
  BY <1>11 DEF retentionVars
<1> QED BY <1>4, <1>5, <1>6, <1>7, <1>8, <1>9, <1>10, <1>11, <1>12 DEF RetentionNext

\* No tag that a policy of the configuration in force may delete is protected,
\* where none of the configurations it may come with protects the image.
LEMMA ProtectionHolds ==
    ASSUME RetentionTypeOK, NEW guard \in EffectiveConfig, NEW eff \in EffectiveConfig,
           ~IsImmutable(guard), NEW t \in Limited(eff.lifecycle)
    PROVE  ~Protected(t)
<1> DEFINE images == cfg.images
           matching == {p \in DOMAIN images : p.matches}
           exact == {p \in DOMAIN images : p.matches /\ ~p.wild}
<1>1. cfg \in Configs /\ t \notin eff.lifecycle.keepTags
  BY DEF RetentionTypeOK, Limited
<1>2. /\ \A p \in DOMAIN images : /\ p.wild \in BOOLEAN /\ p.len \in Nat /\ p.matches \in BOOLEAN
                                  /\ images[p] \in ImageConfig
      /\ cfg.default \in ImageConfig
      /\ \A p, q \in exact : p = q
  BY <1>1, ConfigsAssumption
<1>3. Ruling = {p \in matching : \A q \in matching : ~Precedes(q, p)}
  BY DEF Ruling
<1>4. ASSUME NEW p \in exact PROVE Ruling = {p}
  <2>1. ASSUME NEW q \in matching PROVE ~Precedes(q, p)
    <3>1. CASE q.wild
      BY <1>2, <3>1 DEF Precedes
    <3>2. CASE ~q.wild
      BY <1>2, <3>2 DEF Precedes
    <3> QED BY <3>1, <3>2
  <2>2. ASSUME NEW q \in matching, q # p PROVE Precedes(p, q)
    BY <1>2, <2>2 DEF Precedes
  <2> QED BY <1>3, <1>4, <2>1, <2>2
<1>5. ASSUME NEW e \in EffectiveConfig
      PROVE  \/ Ruling = {} /\ e = cfg.default
             \/ \E p \in Ruling : e = Merged(cfg.default, images[p])
  BY DEF EffectiveConfig
<1>6. ASSUME NEW p \in exact PROVE ~(images[p].immutable = "on") /\ t \notin images[p].lifecycle.keepTags
  <2>1. guard = Merged(cfg.default, images[p]) /\ eff = Merged(cfg.default, images[p])
    BY <1>4, <1>5, <1>6
  <2> QED BY <1>1, <2>1 DEF Merged, IsImmutable
<1>7. ASSUME IsImmutable(cfg.default), \A p \in matching : images[p].immutable # "off" PROVE FALSE
  <2>1. PICK p \in Ruling : guard = Merged(cfg.default, images[p])
    BY <1>5, <1>7
  <2>2. images[p].immutable \in {"unset", "on"}
    BY <1>2, <1>3, <1>7, <2>1 DEF ImageConfig
  <2> QED BY <1>7, <2>1, <2>2 DEF Merged, IsImmutable
<1>8. ASSUME t \in cfg.default.lifecycle.keepTags,
             \A p \in matching : images[p].lifecycle.keepTags = {} PROVE FALSE
  <2>1. PICK p \in Ruling : eff = Merged(cfg.default, images[p])
    BY <1>1, <1>5, <1>8
  <2>2. images[p].lifecycle.keepTags = {}
    BY <1>3, <1>8
  <2> QED BY <1>1, <1>8, <2>1, <2>2 DEF Merged
<1> QED BY <1>6, <1>7, <1>8 DEF Protected

\* Of the image's tags a cleaner has found only what it is to delete, which is what the
\* policy it goes by dooms of the tags it listed, and none of it is protected.
CleanRight(c) ==
    /\ clean[c].found \intersect Tag \subseteq clean[c].doomed
    /\ clean[c].pc # "delete" => clean[c].doomed = {} /\ clean[c].found = {}
    /\ clean[c].pc = "delete" =>
        /\ \E order \in Sorted(clean[c].listing) :
             clean[c].doomed \subseteq
                 Doomed(clean[c].policy, order, clean[c].listing, clean[c].at)
        /\ \A t \in clean[c].doomed : ~Protected(t)

RetentionInv == RetentionTypeOK /\ \A c \in Cleaner : CleanRight(c)

\* Protection is a matter of the configuration, which stays.
LEMMA ProtectionStays == ASSUME cfg' = cfg, NEW t PROVE Protected(t)' <=> Protected(t)
BY DEF Protected

LEMMA RetentionInvInit == RetentionInit => RetentionInv
<1> SUFFICES ASSUME RetentionInit PROVE RetentionInv
  OBVIOUS
<1>1. \A c \in Cleaner : clean[c].pc = "idle" /\ clean[c].doomed = {} /\ clean[c].found = {}
  BY DEF RetentionInit, Idle
<1> QED BY <1>1, RetentionTypeInit DEF RetentionInv, CleanRight

\* What the cleaner is about is as it was, except for tags that are done.
LEMMA CleanStays ==
    ASSUME RetentionInv, NEW c \in Cleaner, clean[c].pc = "delete", cfg' = cfg,
           clean'[c].pc = "delete", clean'[c].listing = clean[c].listing, clean'[c].policy = clean[c].policy,
           clean'[c].at = clean[c].at, clean'[c].doomed \subseteq clean[c].doomed,
           clean'[c].found \intersect Tag \subseteq clean'[c].doomed
    PROVE  CleanRight(c)'
<1>1. PICK order \in Sorted(clean[c].listing) :
        clean[c].doomed \subseteq Doomed(clean[c].policy, order, clean[c].listing, clean[c].at)
  BY DEF RetentionInv, CleanRight
<1>2. order \in Sorted(clean'[c].listing)
  BY <1>1
<1>3. clean'[c].doomed \subseteq Doomed(clean'[c].policy, order, clean'[c].listing, clean'[c].at)
  BY <1>1
<1>4. \A t \in clean'[c].doomed : ~Protected(t)'
  BY ProtectionStays DEF RetentionInv, CleanRight
<1> QED BY <1>2, <1>3, <1>4 DEF CleanRight

LEMMA RetentionInvNext == RetentionInv /\ [RetentionNext]_retentionVars => RetentionInv'
<1> SUFFICES ASSUME RetentionInv, [RetentionNext]_retentionVars
             PROVE  RetentionInv'
  OBVIOUS
<1>1. RetentionTypeOK /\ RetentionTypeOK' /\ cfg' = cfg
  <2>1. cfg' = cfg
    BY DEF RetentionNext, List, Evaluate, End, Abort, ListTag, DeleteTag, Push, PushNested, Tick, retentionVars
  <2> QED BY <2>1, RetentionTypeNext DEF RetentionInv
<1>2. ASSUME NEW c \in Cleaner, clean'[c] = clean[c] PROVE CleanRight(c)'
  <2>1. CASE clean[c].pc # "delete"
    BY <1>2, <2>1 DEF RetentionInv, CleanRight
  <2>2. CASE clean[c].pc = "delete"
    <3>1. clean[c].found \intersect Tag \subseteq clean[c].doomed
      BY <2>2 DEF RetentionInv, CleanRight
    <3> QED BY <1>1, <1>2, <2>2, <3>1, CleanStays
  <2> QED BY <2>1, <2>2
<1>3. ASSUME NEW c \in Cleaner, clean'[c] = Idle PROVE CleanRight(c)'
  BY <1>3 DEF CleanRight, Idle
<1>4. ASSUME NEW c \in Cleaner, Evaluate(c) PROVE CleanRight(c)'
  <2>1. PICK guard \in EffectiveConfig, eff \in EffectiveConfig, order \in Sorted(clean[c].listing) :
          clean' = IF IsImmutable(guard) \/ eff.lifecycle = NoPolicy
                   THEN [clean EXCEPT ![c] = Idle]
                   ELSE [clean EXCEPT ![c].pc = "delete", ![c].at = now, ![c].policy = eff.lifecycle,
                           ![c].doomed = Doomed(eff.lifecycle, order, clean[c].listing, now)]
    BY <1>4 DEF Evaluate
  <2>2. CASE IsImmutable(guard) \/ eff.lifecycle = NoPolicy
    BY <1>1, <1>3, <2>1, <2>2 DEF RetentionTypeOK
  <2>3. CASE ~(IsImmutable(guard) \/ eff.lifecycle = NoPolicy)
    <3> DEFINE doomed == Doomed(eff.lifecycle, order, clean[c].listing, now)
    <3>1. clean' = [clean EXCEPT ![c].pc = "delete", ![c].at = now, ![c].policy = eff.lifecycle,
                                 ![c].doomed = doomed]
      BY <2>1, <2>3
    <3>2. eff.lifecycle \in Lifecycle /\ now \in Nat /\ clean[c].listing \in Listing
      BY <1>1, EffectiveTyped, ConfigsAssumption DEF ImageConfig, RetentionTypeOK
    <3>3. \A t \in doomed : t \in Limited(eff.lifecycle)
      BY <3>2, DecisionHolds DEF Decision
    <3>4. \A t \in doomed : ~Protected(t)
      BY <1>1, <2>3, <3>3, ProtectionHolds
    <3>5. clean[c].found = {}
      BY <1>4 DEF RetentionInv, CleanRight, Evaluate
    <3> QED BY <1>1, <3>1, <3>4, <3>5, ProtectionStays DEF CleanRight, RetentionTypeOK
  <2> QED BY <2>2, <2>3
<1>5. ASSUME NEW c \in Cleaner, List(c) PROVE CleanRight(c)'
  BY <1>1, <1>5 DEF List, RetentionInv, CleanRight, RetentionTypeOK
<1>6. ASSUME NEW c \in Cleaner, End(c) \/ Abort(c) PROVE CleanRight(c)'
  BY <1>1, <1>3, <1>6 DEF End, Abort, RetentionTypeOK
<1>7. ASSUME NEW c \in Cleaner, NEW t \in Tag, ListTag(c, t) \/ DeleteTag(c, t) PROVE CleanRight(c)'
  <2>1. /\ clean'[c].pc = "delete" /\ clean[c].pc = "delete"
        /\ clean'[c].listing = clean[c].listing
        /\ clean'[c].policy = clean[c].policy /\ clean'[c].at = clean[c].at
        /\ clean'[c].doomed \subseteq clean[c].doomed
        /\ clean'[c].found \intersect Tag \subseteq clean'[c].doomed
    BY <1>1, <1>7, ConfigsAssumption DEF ListTag, DeleteTag, Below, RetentionInv, CleanRight, RetentionTypeOK
  <2> QED BY <1>1, <2>1, CleanStays
\* The other cleaners stay as they are.
<1>8. ASSUME NEW c \in Cleaner, NEW d \in Cleaner, d # c,
             \/ List(c) \/ Evaluate(c) \/ End(c) \/ Abort(c)
             \/ \E t \in Tag : ListTag(c, t) \/ DeleteTag(c, t)
      PROVE  clean'[d] = clean[d]
  BY <1>1, <1>8 DEF List, Evaluate, End, Abort, ListTag, DeleteTag, RetentionTypeOK
<1>9. ASSUME NEW c \in Cleaner,
             \/ List(c) \/ Evaluate(c) \/ End(c) \/ Abort(c)
             \/ \E t \in Tag : ListTag(c, t) \/ DeleteTag(c, t)
      PROVE  RetentionInv'
  <2>1. CleanRight(c)'
    BY <1>4, <1>5, <1>6, <1>7, <1>9
  <2>2. \A d \in Cleaner : d # c => CleanRight(d)'
    BY <1>2, <1>8, <1>9
  <2> QED BY <1>1, <2>1, <2>2 DEF RetentionInv
<1>10. ASSUME clean' = clean PROVE RetentionInv'
  BY <1>1, <1>2, <1>10 DEF RetentionInv
<1> QED BY <1>9, <1>10 DEF RetentionNext, Push, PushNested, Tick, retentionVars

\* What is deleted has been found by a cleaner, which is to delete it.
LEMMA DeletionByCleaner ==
    ASSUME RetentionInv, [RetentionNext]_retentionVars, NEW t \in Tag,
           modified[t] # Gone, modified'[t] = Gone
    PROVE  \E c \in Cleaner : clean[c].pc = "delete" /\ t \in clean[c].doomed
<1>1. PICK c \in Cleaner, u \in Tag : DeleteTag(c, u)
  <2>1. \A u \in Tag : ~Push(u)
    BY ConfigsAssumption DEF Push, RetentionInv, RetentionTypeOK, Listing, Gone
  <2> QED BY <2>1 DEF RetentionNext, List, Evaluate, End, Abort, ListTag, PushNested, Tick, retentionVars
<1>2. t \in clean[c].found
  BY <1>1 DEF DeleteTag, RetentionInv, RetentionTypeOK, Listing
<1> QED BY <1>1, <1>2 DEF DeleteTag, RetentionInv, CleanRight

\* Every decision the loop comes to is the one its comment asks for, with
\* keep_last as a floor (evaluateTags), for every policy, listing, time and
\* order of equal times.
THEOREM DecidesWithFloor == RetentionSpec => []DecisionRight
<1>1. RetentionTypeOK => DecisionRight
  <2> SUFFICES ASSUME RetentionTypeOK, NEW c \in Cleaner, NEW eff \in EffectiveConfig,
                      NEW order \in Sorted(clean[c].listing)
               PROVE  Decision(eff.lifecycle, clean[c].listing, now,
                               Doomed(eff.lifecycle, order, clean[c].listing, now))
    BY DEF DecisionRight
  <2>1. eff.lifecycle \in Lifecycle /\ now \in Nat /\ clean[c].listing \in Listing
    BY EffectiveTyped, ConfigsAssumption DEF ImageConfig, RetentionTypeOK
  <2> QED BY <2>1, DecisionHolds
<1> QED BY <1>1, RetentionTypeInit, RetentionTypeNext, PTL DEF RetentionSpec

\* What was doomed is done: gone, or pushed since the decision.
Dealt(c, t) == modified[t] # clean[c].listing[t] \/ modified[t] >= clean[c].at

\* It is still to be listed, or has been listed and is to be deleted.
Due(c, t) ==
    /\ t \in clean[c].doomed
    /\ t \in clean[c].found \/ clean[c].found \intersect Below(t) = {}

\* Every tag the decision dooms is due or dealt with.
CleanedInv ==
    \A c \in Cleaner : clean[c].pc = "delete" =>
        /\ clean[c].at <= now
        /\ \E order \in Sorted(clean[c].listing) :
             \A t \in Doomed(clean[c].policy, order, clean[c].listing, clean[c].at) :
               Dealt(c, t) \/ Due(c, t)

\* The decision a cleaner has come to is about tags it listed.
LEMMA DoomedListed ==
    ASSUME RetentionTypeOK, NEW c \in Cleaner, NEW order \in Sorted(clean[c].listing)
    PROVE  LET doomed == Doomed(clean[c].policy, order, clean[c].listing, clean[c].at) IN
           /\ Decision(clean[c].policy, clean[c].listing, clean[c].at, doomed)
           /\ \A t \in doomed : t \in Tag /\ clean[c].listing[t] # Gone
<1>1. clean[c].policy \in Lifecycle /\ clean[c].listing \in Listing /\ clean[c].at \in Nat
  BY ConfigsAssumption DEF RetentionTypeOK
<1> DEFINE doomed == Doomed(clean[c].policy, order, clean[c].listing, clean[c].at)
<1>2. Decision(clean[c].policy, clean[c].listing, clean[c].at, doomed)
  BY <1>1, DecisionHolds
<1>3. doomed \subseteq Listed(clean[c].listing)
  BY <1>2 DEF Decision
<1> QED BY <1>2, <1>3 DEF Listed

\* What has been dealt with stays so when time passes or tags are pushed or deleted.
LEMMA DealtStays ==
    ASSUME RetentionTypeOK, RetentionTypeOK', NEW c \in Cleaner, NEW t \in Tag,
           clean[c].at <= now, clean'[c].listing = clean[c].listing, clean'[c].at = clean[c].at,
           clean[c].listing[t] # Gone, modified'[t] \in {modified[t], Gone, now}
    PROVE  Dealt(c, t) => Dealt(c, t)'
<1>1. now \in Nat /\ clean[c].at \in Nat
  BY ConfigsAssumption DEF RetentionTypeOK
<1>2. CASE modified'[t] \in {modified[t], Gone}
  BY <1>2 DEF Dealt
<1>3. CASE modified'[t] = now
  BY <1>1, <1>3 DEF Dealt
<1> QED BY <1>2, <1>3

\* What a cleaner is about stays right in a step that leaves it at its work.
LEMMA CleanedStays ==
    ASSUME RetentionTypeOK, RetentionTypeOK', CleanedInv, NEW c \in Cleaner, clean[c].pc = "delete",
           clean'[c].listing = clean[c].listing, clean'[c].policy = clean[c].policy,
           clean'[c].at = clean[c].at, now <= now',
           \A t \in Tag : modified'[t] \in {modified[t], Gone, now},
           \A t \in Tag : clean[c].listing[t] # Gone /\ Due(c, t) => Dealt(c, t)' \/ Due(c, t)'
    PROVE  /\ clean'[c].at <= now'
           /\ \E order \in Sorted(clean'[c].listing) :
                \A t \in Doomed(clean'[c].policy, order, clean'[c].listing, clean'[c].at) :
                  Dealt(c, t)' \/ Due(c, t)'
<1>1. now \in Nat /\ now' \in Nat /\ clean[c].at \in Nat /\ clean[c].at <= now
  BY ConfigsAssumption DEF RetentionTypeOK, CleanedInv
<1>2. PICK order \in Sorted(clean[c].listing) :
        \A t \in Doomed(clean[c].policy, order, clean[c].listing, clean[c].at) :
          Dealt(c, t) \/ Due(c, t)
  BY DEF CleanedInv
<1> DEFINE doomed == Doomed(clean[c].policy, order, clean[c].listing, clean[c].at)
<1>3. ASSUME NEW t \in doomed PROVE Dealt(c, t)' \/ Due(c, t)'
  <2>1. t \in Tag /\ clean[c].listing[t] # Gone
    BY DoomedListed
  <2>2. Dealt(c, t) => Dealt(c, t)'
    BY <1>1, <2>1, DealtStays
  <2> QED BY <1>2, <2>1, <2>2
<1>4. clean'[c].at <= now'
  BY <1>1
<1> HIDE DEF doomed
<1>5. order \in Sorted(clean'[c].listing)
  BY <1>2
<1>6. doomed = Doomed(clean'[c].policy, order, clean'[c].listing, clean'[c].at)
  BY DEF doomed
<1> QED BY <1>3, <1>4, <1>5, <1>6

\* A decision dooms tags that are there to be listed.
LEMMA EvaluateCleans ==
    ASSUME RetentionInv, NEW c \in Cleaner, Evaluate(c), clean'[c].pc = "delete"
    PROVE  /\ clean'[c].at = now
           /\ clean'[c].found = {}
           /\ \E order \in Sorted(clean'[c].listing) :
                clean'[c].doomed = Doomed(clean'[c].policy, order, clean'[c].listing, clean'[c].at)
<1>1. PICK guard \in EffectiveConfig, eff \in EffectiveConfig, order \in Sorted(clean[c].listing) :
        clean' = IF IsImmutable(guard) \/ eff.lifecycle = NoPolicy
                 THEN [clean EXCEPT ![c] = Idle]
                 ELSE [clean EXCEPT ![c].pc = "delete", ![c].at = now, ![c].policy = eff.lifecycle,
                         ![c].doomed = Doomed(eff.lifecycle, order, clean[c].listing, now)]
  BY DEF Evaluate
<1>2. CASE IsImmutable(guard) \/ eff.lifecycle = NoPolicy
  BY <1>1, <1>2 DEF RetentionInv, RetentionTypeOK, Idle
<1>3. CASE ~(IsImmutable(guard) \/ eff.lifecycle = NoPolicy)
  <2> DEFINE doomed == Doomed(eff.lifecycle, order, clean[c].listing, now)
  <2>1. clean[c].found = {}
    BY DEF RetentionInv, CleanRight, Evaluate
  <2>2. /\ clean'[c].listing = clean[c].listing /\ clean'[c].policy = eff.lifecycle
        /\ clean'[c].at = now /\ clean'[c].doomed = doomed /\ clean'[c].found = clean[c].found
    BY <1>1, <1>3 DEF RetentionInv, RetentionTypeOK
  <2> QED BY <2>1, <2>2
<1> QED BY <1>2, <1>3

\* The goroutine of a tag that is due finds it gone, lists it, or deletes it.
LEMMA WorkCleans ==
    ASSUME RetentionInv, NEW c \in Cleaner, NEW u \in Tag, ListTag(c, u) \/ DeleteTag(c, u),
           NEW t \in Tag, clean[c].listing[t] # Gone, Due(c, t), clean'[c].listing = clean[c].listing
    PROVE  Dealt(c, t)' \/ Due(c, t)'
<1>1. /\ clean \in [Cleaner -> [pc : {"idle", "listed", "delete"}, listing : Listing, at : 0 .. MaxTime,
                     policy : Lifecycle, doomed : SUBSET Tag, found : SUBSET (Tag \union Nested)]]
      /\ modified \in Listing
  BY DEF RetentionInv, RetentionTypeOK
<1>2. u # t => Below(u) \intersect Below(t) = {}
  BY ConfigsAssumption DEF Below
<1>3. Below(u) \intersect Tag = {u} /\ u \in Below(u)
  BY ConfigsAssumption DEF Below
<1>4. CASE ListTag(c, u)
  <2> DEFINE there == (Below(u) \intersect nested) \union ({u} \intersect Listed(modified))
  <2>1. modified' = modified
    BY <1>4 DEF ListTag
  <2>2. CASE there = {}
    <3>1. clean'[c].doomed = clean[c].doomed \ {u} /\ clean'[c].found = clean[c].found
      BY <1>1, <1>4, <2>2 DEF ListTag
    <3>2. modified[u] = Gone
      BY <2>2 DEF Listed
    <3> QED BY <2>1, <3>1, <3>2 DEF Due, Dealt, Below
  <2>3. CASE there # {}
    <3>1. clean'[c].doomed = clean[c].doomed /\ clean'[c].found = clean[c].found \union there
      BY <1>1, <1>4, <2>3 DEF ListTag
    <3>2. CASE u # t
      <4>1. there \intersect Below(t) = {}
        BY <1>2, <1>3, <3>2
      <4> QED BY <3>1, <4>1 DEF Due, Below
    <3>3. CASE u = t
      <4>1. modified[t] = Gone \/ t \in there
        BY <3>3 DEF Listed
      <4> QED BY <2>1, <3>1, <4>1 DEF Due, Dealt
    <3> QED BY <3>2, <3>3
  <2> QED BY <2>2, <2>3
<1>5. CASE DeleteTag(c, u)
  <2>1. /\ clean'[c].doomed = clean[c].doomed \ {u} /\ clean'[c].found = clean[c].found \ Below(u)
        /\ clean[c].found \intersect Below(u) # {}
        /\ modified' = [v \in Tag |-> IF v \in clean[c].found \intersect Below(u) THEN Gone ELSE modified[v]]
    BY <1>1, <1>5 DEF DeleteTag
  <2>2. CASE u # t
    <3>1. t \notin Below(u)
      BY <1>3, <2>2
    <3> QED BY <2>1, <2>2, <3>1 DEF Due, Below
  <2>3. CASE u = t
    <3>1. t \in clean[c].found
      BY <2>1, <2>3 DEF Due
    <3>2. modified'[t] = Gone
      BY <1>3, <2>1, <2>3, <3>1
    <3> QED BY <3>2 DEF Dealt
  <2> QED BY <2>2, <2>3
<1> QED BY <1>4, <1>5

LEMMA CleanedInvNext == RetentionInv /\ CleanedInv /\ [RetentionNext]_retentionVars => CleanedInv'
<1> SUFFICES ASSUME RetentionInv, CleanedInv, [RetentionNext]_retentionVars,
                    NEW c \in Cleaner, clean'[c].pc = "delete"
             PROVE  /\ clean'[c].at <= now'
                    /\ \E order \in Sorted(clean'[c].listing) :
                         \A t \in Doomed(clean'[c].policy, order, clean'[c].listing, clean'[c].at) :
                           Dealt(c, t)' \/ Due(c, t)'
  BY DEF CleanedInv, Dealt, Due
<1>1. /\ RetentionTypeOK /\ RetentionTypeOK'
      /\ now \in Nat /\ now' \in Nat
  BY RetentionTypeNext, ConfigsAssumption DEF RetentionInv, RetentionTypeOK
\* The cleaner is not the one that acts.
<1>2. ASSUME clean'[c] = clean[c], now <= now',
             \A t \in Tag : modified'[t] \in {modified[t], Gone, now}
      PROVE  /\ clean'[c].at <= now'
             /\ \E order \in Sorted(clean'[c].listing) :
                  \A t \in Doomed(clean'[c].policy, order, clean'[c].listing, clean'[c].at) :
                    Dealt(c, t)' \/ Due(c, t)'
  <2>1. \A t \in Tag : Due(c, t) => Due(c, t)'
    BY <1>2 DEF Due, Below
  <2> QED BY <1>1, <1>2, <2>1, CleanedStays
<1>3. CASE Evaluate(c)
  <2>1. now' = now
    BY <1>3 DEF Evaluate
  <2>2. PICK order \in Sorted(clean'[c].listing) :
          clean'[c].doomed = Doomed(clean'[c].policy, order, clean'[c].listing, clean'[c].at)
    BY <1>3, EvaluateCleans
  <2>3. clean'[c].at = now /\ clean'[c].found = {}
    BY <1>3, EvaluateCleans
  <2>4. \A t \in clean'[c].doomed : Due(c, t)'
    BY <2>3 DEF Due
  <2> QED BY <1>1, <2>1, <2>2, <2>3, <2>4
<1>4. ASSUME NEW u \in Tag, ListTag(c, u) \/ DeleteTag(c, u)
      PROVE  /\ clean'[c].at <= now'
             /\ \E order \in Sorted(clean'[c].listing) :
                  \A t \in Doomed(clean'[c].policy, order, clean'[c].listing, clean'[c].at) :
                    Dealt(c, t)' \/ Due(c, t)'
  <2>1. /\ clean[c].pc = "delete" /\ clean'[c].listing = clean[c].listing
        /\ clean'[c].policy = clean[c].policy /\ clean'[c].at = clean[c].at
    BY <1>1, <1>4 DEF ListTag, DeleteTag, RetentionTypeOK
  <2>2. now <= now' /\ \A t \in Tag : modified'[t] \in {modified[t], Gone, now}
    BY <1>1, <1>4 DEF ListTag, DeleteTag
  <2>3. \A t \in Tag : clean[c].listing[t] # Gone /\ Due(c, t) => Dealt(c, t)' \/ Due(c, t)'
    BY <1>4, <2>1, WorkCleans
  <2> QED BY <1>1, <2>1, <2>2, <2>3, CleanedStays
<1>5. ~(List(c) \/ End(c) \/ Abort(c))
  BY <1>1 DEF List, End, Abort, Idle, RetentionTypeOK
<1>6. ASSUME NEW d \in Cleaner, d # c,
             \/ List(d) \/ Evaluate(d) \/ End(d) \/ Abort(d)
             \/ \E t \in Tag : ListTag(d, t) \/ DeleteTag(d, t)
      PROVE  /\ clean'[c] = clean[c] /\ now <= now'
             /\ \A t \in Tag : modified'[t] \in {modified[t], Gone, now}
  <2>1. CASE List(d) \/ End(d) \/ Abort(d)
    BY <1>1, <1>6, <2>1 DEF List, End, Abort, RetentionTypeOK
  <2>4. CASE Evaluate(d)
    <3>1. PICK new : clean' = [clean EXCEPT ![d] = new]
      <4>1. clean' = [clean EXCEPT ![d] = clean'[d]]
        BY <1>1, <2>4 DEF Evaluate, RetentionTypeOK
      <4> QED BY <4>1
    <3>2. now' = now /\ modified' = modified
      BY <2>4 DEF Evaluate
    <3> QED BY <1>1, <1>6, <3>1, <3>2 DEF RetentionTypeOK
  <2>2. ASSUME NEW t \in Tag, ListTag(d, t)
        PROVE  clean'[c] = clean[c] /\ now' = now /\ modified' = modified
    BY <1>1, <1>6, <2>2 DEF ListTag, RetentionTypeOK
  <2>3. ASSUME NEW t \in Tag, DeleteTag(d, t)
        PROVE  /\ clean'[c] = clean[c] /\ now' = now
               /\ \A u \in Tag : modified'[u] \in {modified[u], Gone}
    BY <1>1, <1>6, <2>3 DEF DeleteTag, RetentionTypeOK
  <2> QED BY <1>1, <1>6, <2>1, <2>2, <2>3, <2>4
<1>7. ASSUME (\E t \in Tag : Push(t)) \/ (\E n \in Nested : PushNested(n)) \/ Tick \/ UNCHANGED retentionVars
      PROVE  /\ clean'[c] = clean[c] /\ now <= now'
             /\ \A t \in Tag : modified'[t] \in {modified[t], Gone, now}
  BY <1>1, <1>7 DEF Push, PushNested, Tick, retentionVars, RetentionTypeOK, Listing
<1> QED BY <1>2, <1>3, <1>4, <1>5, <1>6, <1>7 DEF RetentionNext

\* When nothing is left to do, what the policy wanted to go is gone or was
\* pushed again, however cleanings and pushes overlap (ApplyLifecycle).
THEOREM CleansUp == RetentionSpec => []CleanedUp
<1>1. RetentionInit => RetentionInv /\ CleanedInv
  BY RetentionInvInit DEF RetentionInit, CleanedInv, Idle
<1>2. RetentionInv /\ CleanedInv => CleanedUp
  <2> SUFFICES ASSUME RetentionInv, CleanedInv, NEW c \in Cleaner,
                      clean[c].pc = "delete", clean[c].doomed = {}
               PROVE  LET lc == clean[c].policy
                          listing == clean[c].listing
                          limited == Listed(listing) \cap Limited(lc)
                      IN  lc.keepLast + lc.maxAge > 0 =>
                            \A t \in limited :
                              /\ modified[t] = listing[t] /\ modified[t] < clean[c].at
                              /\ lc.maxAge = 0 \/ clean[c].at - listing[t] > lc.maxAge
                              => Cardinality({u \in limited : listing[u] > listing[t]}) < lc.keepLast
    BY DEF CleanedUp
  <2>1. PICK order \in Sorted(clean[c].listing) :
          \A t \in Doomed(clean[c].policy, order, clean[c].listing, clean[c].at) :
            Dealt(c, t) \/ Due(c, t)
    BY DEF CleanedInv
  <2> DEFINE doomed == Doomed(clean[c].policy, order, clean[c].listing, clean[c].at)
  <2>2. Decision(clean[c].policy, clean[c].listing, clean[c].at, doomed)
    BY DoomedListed DEF RetentionInv
  <2>3. \A t \in doomed : Dealt(c, t)
    BY <2>1 DEF Due
  <2> HIDE DEF doomed
  <2>4. ASSUME NEW t \in Tag, modified[t] = clean[c].listing[t], modified[t] < clean[c].at
        PROVE  t \notin doomed
    <3>1. modified[t] \in {Gone} \union Nat /\ clean[c].at \in Nat
      BY ConfigsAssumption DEF RetentionInv, RetentionTypeOK, Listing
    <3> QED BY <2>3, <2>4, <3>1 DEF Dealt, Gone
  <2> QED BY <2>2, <2>4 DEF Decision, Listed
<1> QED BY <1>1, <1>2, RetentionInvNext, CleanedInvNext, PTL DEF RetentionSpec

\* No cleaning deletes a protected tag, whichever of the overrides that match
\* come first (EffectiveConfig).
THEOREM ProtectedNeverCleaned == RetentionSpec => ProtectedStay
<1> DEFINE A == \A t \in Tag : modified[t] # Gone /\ modified'[t] = Gone => ~Protected(t)
<1>1. RetentionInv /\ [RetentionNext]_retentionVars => [A]_retentionVars
  BY DeletionByCleaner DEF RetentionInv, CleanRight
<1>2. RetentionSpec => [][A]_retentionVars
  BY <1>1, RetentionInvInit, RetentionInvNext, PTL DEF RetentionSpec
<1> QED BY <1>2 DEF ProtectedStay

\* The floor. With one cleaner at work the tags it has listed are there until it
\* decides, and those it does not doom to the end.
FloorInv ==
    \A c \in Cleaner :
        /\ clean[c].pc = "listed" => Listed(clean[c].listing) \subseteq Listed(modified)
        /\ clean[c].pc = "delete" =>
             \E order \in Sorted(clean[c].listing) :
               LET doomed == Doomed(clean[c].policy, order, clean[c].listing, clean[c].at) IN
               /\ clean[c].doomed \subseteq doomed
               /\ Listed(clean[c].listing) \ doomed \subseteq Listed(modified)

LEMMA FloorInvNext ==
    ASSUME \A c, d \in Cleaner : c = d
    PROVE  RetentionInv /\ FloorInv /\ [RetentionNext]_retentionVars => FloorInv'
<1> SUFFICES ASSUME RetentionInv, FloorInv, [RetentionNext]_retentionVars, NEW c \in Cleaner
             PROVE  /\ clean'[c].pc = "listed" => Listed(clean'[c].listing) \subseteq Listed(modified')
                    /\ clean'[c].pc = "delete" =>
                         \E order \in Sorted(clean'[c].listing) :
                           LET doomed == Doomed(clean'[c].policy, order, clean'[c].listing, clean'[c].at) IN
                           /\ clean'[c].doomed \subseteq doomed
                           /\ Listed(clean'[c].listing) \ doomed \subseteq Listed(modified')
  BY DEF FloorInv, Listed
<1>1. RetentionTypeOK
  BY DEF RetentionInv
<1>2. ASSUME clean'[c].pc = clean[c].pc, clean'[c].listing = clean[c].listing,
             clean'[c].policy = clean[c].policy, clean'[c].at = clean[c].at,
             clean'[c].doomed \subseteq clean[c].doomed,
             Listed(modified) \ clean[c].doomed \subseteq Listed(modified')
      PROVE  /\ clean'[c].pc = "listed" => Listed(clean'[c].listing) \subseteq Listed(modified')
             /\ clean'[c].pc = "delete" =>
                  \E order \in Sorted(clean'[c].listing) :
                    LET doomed == Doomed(clean'[c].policy, order, clean'[c].listing, clean'[c].at) IN
                    /\ clean'[c].doomed \subseteq doomed
                    /\ Listed(clean'[c].listing) \ doomed \subseteq Listed(modified')
  <2>1. CASE clean[c].pc # "delete"
    <3>1. clean[c].doomed = {}
      BY <2>1 DEF RetentionInv, CleanRight
    <3> QED BY <1>2, <2>1, <3>1 DEF FloorInv
  <2>2. CASE clean[c].pc = "delete"
    <3>1. PICK order \in Sorted(clean[c].listing) :
            /\ clean[c].doomed \subseteq Doomed(clean[c].policy, order, clean[c].listing, clean[c].at)
            /\ Listed(clean[c].listing) \ Doomed(clean[c].policy, order, clean[c].listing, clean[c].at)
                 \subseteq Listed(modified)
      BY <2>2 DEF FloorInv
    <3> QED BY <1>2, <2>2, <3>1
  <2> QED BY <2>1, <2>2
<1>3. ASSUME List(c)
      PROVE  clean'[c].pc = "listed" /\ clean'[c].listing = modified'
  BY <1>1, <1>3 DEF List, RetentionTypeOK
<1>4. ASSUME Evaluate(c)
      PROVE  clean'[c].pc = "delete" =>
               \E order \in Sorted(clean'[c].listing) :
                 LET doomed == Doomed(clean'[c].policy, order, clean'[c].listing, clean'[c].at) IN
                 /\ clean'[c].doomed \subseteq doomed
                 /\ Listed(clean'[c].listing) \ doomed \subseteq Listed(modified')
  <2>1. PICK guard \in EffectiveConfig, eff \in EffectiveConfig, order \in Sorted(clean[c].listing) :
          clean' = IF IsImmutable(guard) \/ eff.lifecycle = NoPolicy
                   THEN [clean EXCEPT ![c] = Idle]
                   ELSE [clean EXCEPT ![c].pc = "delete", ![c].at = now, ![c].policy = eff.lifecycle,
                           ![c].doomed = Doomed(eff.lifecycle, order, clean[c].listing, now)]
    BY <1>4 DEF Evaluate
  <2>2. Listed(clean[c].listing) \subseteq Listed(modified) /\ modified' = modified
    BY <1>4 DEF Evaluate, FloorInv
  <2>3. CASE IsImmutable(guard) \/ eff.lifecycle = NoPolicy
    BY <1>1, <2>1, <2>3 DEF RetentionTypeOK, Idle
  <2>4. CASE ~(IsImmutable(guard) \/ eff.lifecycle = NoPolicy)
    <3> DEFINE doomed == Doomed(eff.lifecycle, order, clean[c].listing, now)
    <3>1. /\ clean'[c].listing = clean[c].listing /\ clean'[c].policy = eff.lifecycle
          /\ clean'[c].at = now /\ clean'[c].doomed = doomed
      BY <1>1, <2>1, <2>4 DEF RetentionTypeOK
    <3> QED BY <2>2, <3>1
  <2> QED BY <2>3, <2>4
<1>5. ASSUME End(c) \/ Abort(c) PROVE clean'[c].pc = "idle"
  BY <1>1, <1>5 DEF End, Abort, Idle, RetentionTypeOK
<1>6. ASSUME NEW t \in Tag, ListTag(c, t) \/ DeleteTag(c, t)
      PROVE  /\ clean'[c].pc = clean[c].pc /\ clean'[c].listing = clean[c].listing
             /\ clean'[c].policy = clean[c].policy /\ clean'[c].at = clean[c].at
             /\ clean'[c].doomed \subseteq clean[c].doomed
             /\ Listed(modified) \ clean[c].doomed \subseteq Listed(modified')
  BY <1>1, <1>6 DEF ListTag, DeleteTag, RetentionTypeOK, RetentionInv, CleanRight, Listed, Listing
<1>7. ASSUME NEW t \in Tag, Push(t)
      PROVE  clean' = clean /\ Listed(modified) \subseteq Listed(modified')
  BY <1>1, <1>7, ConfigsAssumption DEF Push, RetentionTypeOK, Listed, Listing, Gone
<1>8. ASSUME (\E n \in Nested : PushNested(n)) \/ Tick \/ UNCHANGED retentionVars
      PROVE  clean' = clean /\ modified' = modified
  BY <1>8 DEF PushNested, Tick, retentionVars
<1>9. CASE Evaluate(c)
  <2>1. clean'[c].pc # "listed"
    BY <1>1, <1>9 DEF Evaluate, Idle, RetentionTypeOK
  <2> QED BY <1>4, <1>9, <2>1
<1>10. CASE List(c) \/ End(c) \/ Abort(c)
  BY <1>3, <1>5, <1>10
<1>11. CASE \E t \in Tag : ListTag(c, t) \/ DeleteTag(c, t)
  BY <1>2, <1>6, <1>11
<1>12. CASE \/ \E t \in Tag : Push(t)
            \/ \E n \in Nested : PushNested(n)
            \/ Tick \/ UNCHANGED retentionVars
  BY <1>2, <1>7, <1>8, <1>12
<1> QED BY <1>9, <1>10, <1>11, <1>12 DEF RetentionNext

\* What is there in the end suffices, whether or not anything is doomed.
LEMMA FloorInvSuffices ==
    ASSUME RetentionTypeOK, FloorInv
    PROVE  FloorKept
<1> SUFFICES ASSUME NEW c \in Cleaner, clean[c].pc = "delete"
             PROVE  Cardinality(Listed(modified) \cap Limited(clean[c].policy)) >=
                      AtMost(clean[c].policy.keepLast,
                             Cardinality(Listed(clean[c].listing) \cap Limited(clean[c].policy)))
  BY DEF FloorKept
<1> DEFINE lc == clean[c].policy
           listing == clean[c].listing
           there == Listed(modified) \cap Limited(lc)
           listed == Listed(listing) \cap Limited(lc)
<1>1. PICK order \in Sorted(listing) :
        Listed(listing) \ Doomed(lc, order, listing, clean[c].at) \subseteq Listed(modified)
  BY DEF FloorInv
<1> DEFINE doomed == Doomed(lc, order, listing, clean[c].at)
<1>2. lc \in Lifecycle /\ listing \in Listing /\ clean[c].at \in Nat /\ lc.keepLast \in Nat
  BY ConfigsAssumption DEF RetentionTypeOK, Lifecycle
<1>3. Decision(lc, listing, clean[c].at, doomed)
  BY <1>2, DecisionHolds
<1>4. listed \ doomed \in SUBSET there
  BY <1>1
<1>5. /\ IsFiniteSet(there) /\ IsFiniteSet(listed) /\ Cardinality(there) \in Nat
      /\ Cardinality(listed) \in Nat
  <2>1. there \in SUBSET Tag /\ listed \in SUBSET Tag
    BY DEF Listed
  <2> QED BY <2>1, ConfigsAssumption, FS_Subset, FS_CardinalityType
<1> HIDE DEF lc, listing, doomed, there, listed
<1>6. CASE doomed = {}
  <2>1. listed \in SUBSET there
    BY <1>4, <1>6
  <2>2. Cardinality(listed) <= Cardinality(there)
    BY <1>5, <2>1, FS_Subset
  <2> QED BY <1>2, <1>5, <2>2 DEF AtMost, lc, listing, there, listed
<1>7. ASSUME NEW t \in doomed PROVE Cardinality(there) >= lc.keepLast
  <2> DEFINE newer == {u \in (Listed(listing) \cap Limited(lc)) \ {t} : listing[u] >= listing[t]} \ doomed
  <2>1. Cardinality(newer) >= lc.keepLast
    BY <1>3 DEF Decision
  <2>2. newer \in SUBSET there
    BY <1>4 DEF listed
  <2> HIDE DEF newer
  <2>3. IsFiniteSet(newer) /\ Cardinality(newer) <= Cardinality(there)
    BY <1>5, <2>2, FS_Subset
  <2>4. Cardinality(newer) \in Nat
    BY <2>3, FS_CardinalityType
  <2> QED BY <1>2, <1>5, <2>1, <2>3, <2>4
<1>8. CASE doomed # {}
  <2>1. Cardinality(there) >= lc.keepLast
    BY <1>7, <1>8
  <2> QED BY <1>2, <1>5, <2>1 DEF AtMost, lc, listing, there, listed
<1> QED BY <1>6, <1>8

\* Whatever is pushed meanwhile, one cleaner leaves the floor of what it listed
\* (ApplyLifecycle); of two, one may have listed what the other deletes.
THEOREM FloorHolds ==
    ASSUME \A c, d \in Cleaner : c = d
    PROVE  RetentionSpec => []FloorKept
<1>1. RetentionInit => FloorInv
  BY DEF RetentionInit, FloorInv, Idle
<1>2. RetentionInv /\ FloorInv /\ [RetentionNext]_retentionVars => FloorInv'
  BY FloorInvNext
<1>3. RetentionInv /\ FloorInv => FloorKept
  BY FloorInvSuffices DEF RetentionInv
<1> QED BY <1>1, <1>2, <1>3, RetentionInvInit, RetentionInvNext, PTL DEF RetentionSpec

-----------------------------------------------------------------------------
(* ChunkedLayer: where it is cut.                                          *)

\* The least of some numbers.
LEMMA MinRight ==
    ASSUME NEW S, S \subseteq Nat, S # {}
    PROVE  Min(S) \in S /\ \A y \in S : Min(S) <= y
<1>1. PICK x \in S : \A y \in S : ~(y < x)
  BY Least
<1>2. \A y \in S : x <= y
  BY <1>1
<1> QED BY <1>1, <1>2 DEF Min

LEMMA MinPair ==
    ASSUME NEW a \in Nat, NEW b \in Nat
    PROVE  Min({a, b}) = IF a <= b THEN a ELSE b
<1>1. Min({a, b}) \in {a, b} /\ \A y \in {a, b} : Min({a, b}) <= y
  BY MinRight
<1> QED BY <1>1

\* The bytes from one place to another.
LEMMA SliceRight ==
    ASSUME raw \in Seq(Byte), NEW from \in Nat, NEW to \in Nat, from <= to, to <= Len(raw)
    PROVE  /\ Slice(from, to) \in Seq(Byte) /\ Len(Slice(from, to)) = to - from
           /\ \A k \in 1 .. to - from : Slice(from, to)[k] = raw[from + k]
<1>1. from + 1 \in Int /\ to \in Int /\ Len(raw) \in Nat /\ to - (from + 1) + 1 = to - from
  OBVIOUS
<1>2. \A i \in from + 1 .. to : raw[i] \in Byte
  BY <1>1
<1>3. /\ Slice(from, to) \in Seq(Byte)
      /\ Len(Slice(from, to)) = IF from + 1 <= to THEN to - (from + 1) + 1 ELSE 0
      /\ \A k \in 1 .. to - (from + 1) + 1 : Slice(from, to)[k] = raw[(from + 1) + k - 1]
  BY <1>1, <1>2, SubSeqProperties DEF Slice
<1>4. \A k \in 1 .. to - from : (from + 1) + k - 1 = from + k
  OBVIOUS
<1> QED BY <1>1, <1>3, <1>4

\* What the equations of Hash say.
Hashes(data, h) ==
    /\ h[MinSize] = data[MinSize + 1] % HashSize
    /\ \A i \in MinSize + 1 .. Len(data) - 1 : h[i] = (2 * h[i - 1] + data[i + 1]) % HashSize

LEMMA HashRight ==
    ASSUME NEW data \in Seq(Byte), MinSize < Len(data)
    PROVE  Hashes(data, Hash(data))
<1> DEFINE n == Len(data) - 1
           start == data[MinSize + 1] % HashSize
           step == [p \in (MinSize + 1 .. n) \X Nat |-> (2 * p[2] + data[p[1] + 1]) % HashSize]
           Fits(h) == h = [i \in MinSize .. n |->
                             (2 * (IF i = MinSize THEN 0 ELSE h[i - 1]) + data[i + 1]) % HashSize]
<1>1. /\ MinSize \in Nat /\ n \in Nat /\ MinSize <= n /\ HashSize \in Nat \ {0}
      /\ \A i \in MinSize .. n : data[i + 1] \in Nat
  <2>1. MinSize \in Nat /\ HashSize \in Nat \ {0} /\ Byte \subseteq Nat /\ Len(data) \in Nat
    BY SizeAssumption
  <2>2. \A i \in MinSize .. n : i + 1 \in 1 .. Len(data)
    BY <2>1
  <2>3. \A k \in 1 .. Len(data) : data[k] \in Nat
    BY <2>1, ElementOfSeq
  <2> HIDE DEF n
  <2>4. \A i \in MinSize .. n : data[i + 1] \in Nat
    BY <2>2, <2>3
  <2>5. n \in Nat /\ MinSize <= n
    BY <2>1 DEF n
  <2> QED BY <2>1, <2>4, <2>5
<1>2. ASSUME NEW a \in Nat PROVE a % HashSize \in Nat
  BY <1>1
<1>3. start \in Nat
  BY <1>1, <1>2
<1>4. step \in [(MinSize + 1 .. n) \X Nat -> Nat]
  <2>1. ASSUME NEW p \in (MinSize + 1 .. n) \X Nat
        PROVE  (2 * p[2] + data[p[1] + 1]) % HashSize \in Nat
    <3>1. p[1] \in MinSize .. n /\ p[2] \in Nat
      BY <1>1
    <3>2. 2 * p[2] + data[p[1] + 1] \in Nat
      BY <1>1, <3>1
    <3> QED BY <1>2, <3>2
  <2> QED BY <2>1
<1>5. PICK g \in [MinSize .. n -> Nat] : Follows(g, MinSize, n, start, step)
  <2> HIDE DEF step, start, n
  <2> QED BY <1>1, <1>3, <1>4, RecursionExists
<1>6. ASSUME NEW i \in MinSize .. n, i # MinSize
      PROVE  g[i] = (2 * g[i - 1] + data[i + 1]) % HashSize
  <2>1. i \in MinSize + 1 .. n /\ g[i - 1] \in Nat
    <3>1. i \in MinSize + 1 .. n /\ i - 1 \in MinSize .. n
      BY <1>1, <1>6
    <3> QED BY <3>1
  <2>2. <<i, g[i - 1]>> \in (MinSize + 1 .. n) \X Nat
    BY <2>1
  <2>3. step[<<i, g[i - 1]>>] = (2 * g[i - 1] + data[i + 1]) % HashSize
    BY <2>2
  <2> HIDE DEF step
  <2> QED BY <1>5, <2>1, <2>3 DEF Follows
<1>7. Fits(g)
  <2>1. g[MinSize] = (2 * 0 + data[MinSize + 1]) % HashSize
    BY <1>1, <1>5 DEF Follows
  <2> HIDE DEF n
  <2> QED BY <1>1, <1>6, <2>1
<1>8. ASSUME NEW h, Fits(h) PROVE Hashes(data, h)
  <2>1. \A i \in MinSize + 1 .. n : i \in MinSize .. n /\ i # MinSize
    BY <1>1
  <2>2. \A i \in MinSize .. n : i # MinSize => h[i] = (2 * h[i - 1] + data[i + 1]) % HashSize
    BY <1>8
  <2>3. h[MinSize] = (2 * 0 + data[MinSize + 1]) % HashSize /\ data[MinSize + 1] \in Nat
    BY <1>1, <1>8
  <2>4. 2 * 0 + data[MinSize + 1] = data[MinSize + 1]
    BY <2>3
  <2> QED BY <2>1, <2>2, <2>3, <2>4 DEF Hashes
<1>9. Hash(data) = CHOOSE h : Fits(h)
  BY DEF Hash
<1> HIDE DEF Fits
<1>10. Fits(Hash(data))
  BY <1>7, <1>9
<1> QED BY <1>8, <1>10

\* The hashes depend on the bytes up to them.
LEMMA HashPrefix ==
    ASSUME NEW data \in Seq(Byte), NEW other \in Seq(Byte), NEW n \in Nat,
           MinSize < n, n <= Len(data), n <= Len(other), \A k \in 1 .. n : data[k] = other[k]
    PROVE  \A i \in MinSize .. n - 1 : Hash(data)[i] = Hash(other)[i]
<1> DEFINE g == Hash(data)
           h == Hash(other)
           S == {i \in MinSize .. n - 1 : g[i] = h[i]}
<1>1. Hashes(data, g) /\ Hashes(other, h) /\ MinSize \in Nat
  BY SizeAssumption, HashRight
<1> HIDE DEF g, h
<1>2. MinSize \in S
  <2>1. MinSize \in MinSize .. n - 1 /\ MinSize + 1 \in 1 .. n
    BY <1>1
  <2> QED BY <1>1, <2>1 DEF Hashes
<1>3. ASSUME NEW i \in MinSize .. (n - 1) - 1, i \in S PROVE i + 1 \in S
  <2>1. ASSUME NEW k, k \in Nat, k - 1 = i PROVE g[k] = h[k]
    <3>1. k \in MinSize + 1 .. Len(data) - 1 /\ k \in MinSize + 1 .. Len(other) - 1 /\ k + 1 \in 1 .. n
      BY <1>1, <2>1
    <3>2. g[k] = (2 * g[i] + data[k + 1]) % HashSize /\ h[k] = (2 * h[i] + other[k + 1]) % HashSize
      BY <1>1, <2>1, <3>1 DEF Hashes
    <3> QED BY <1>3, <3>1, <3>2
  <2>2. i + 1 \in Nat /\ (i + 1) - 1 = i /\ i + 1 \in MinSize .. n - 1
    BY <1>1
  <2> QED BY <2>1, <2>2
<1> HIDE DEF S
<1>4. MinSize .. n - 1 \subseteq S
  <2>1. n - 1 \in Nat
    BY <1>1
  <2> QED BY <1>1, <1>2, <1>3, <2>1, SpanSet
<1> QED BY <1>4 DEF S, g, h

\* The boundary is that of the first MaxSize bytes: what lies behind them does
\* not matter.
LEMMA BoundaryPrefix ==
    ASSUME NEW data \in Seq(Byte), NEW other \in Seq(Byte),
           Min({Len(data), MaxSize}) = Min({Len(other), MaxSize}),
           \A k \in 1 .. Min({Len(data), MaxSize}) : data[k] = other[k]
    PROVE  Boundary(data) = Boundary(other)
<1> DEFINE n == Min({Len(data), MaxSize})
           normal == Min({AvgSize, n})
<1>1. /\ n \in Nat /\ n <= Len(data) /\ n <= Len(other) /\ MinSize \in Nat
      /\ AvgSize \in Nat /\ Len(data) \in Nat /\ Len(other) \in Nat
  <2>1. MinSize \in Nat /\ AvgSize \in Nat /\ MaxSize \in Nat /\ Len(data) \in Nat /\ Len(other) \in Nat
    BY SizeAssumption
  <2>2. n = IF Len(data) <= MaxSize THEN Len(data) ELSE MaxSize
    BY <2>1, MinPair
  <2>3. n = IF Len(other) <= MaxSize THEN Len(other) ELSE MaxSize
    BY <2>1, MinPair
  <2> HIDE DEF n
  <2> QED BY <2>1, <2>2, <2>3
<1>2. n = Min({Len(other), MaxSize})
  OBVIOUS
<1> HIDE DEF n
<1>3. normal \in Nat /\ normal <= n /\ normal = IF AvgSize <= n THEN AvgSize ELSE n
  BY <1>1, MinPair
<1> HIDE DEF normal
<1>4. CASE n <= MinSize
  BY <1>2, <1>4 DEF Boundary, n
<1>5. CASE MinSize < n
  <2>1. \A i \in MinSize .. n - 1 : Hash(data)[i] = Hash(other)[i]
    BY <1>1, <1>5, HashPrefix DEF n
  <2>2. normal >= MinSize
    BY <1>1, <1>3, <1>5, SizeAssumption
  <2>3. {i \in MinSize .. normal - 1 : Hash(data)[i] \in MaskS}
          = {i \in MinSize .. normal - 1 : Hash(other)[i] \in MaskS}
    <3>1. \A i \in MinSize .. normal - 1 : i \in MinSize .. n - 1
      BY <1>1, <1>3
    <3> QED BY <2>1, <3>1
  <2>4. {i \in normal .. n - 1 : Hash(data)[i] \in MaskL}
          = {i \in normal .. n - 1 : Hash(other)[i] \in MaskL}
    <3>1. \A i \in normal .. n - 1 : i \in MinSize .. n - 1
      BY <1>1, <1>3, <2>2
    <3> QED BY <2>1, <3>1
  <2> QED BY <1>2, <2>3, <2>4 DEF Boundary, n, normal
<1> QED BY <1>1, <1>4, <1>5

\* Where a chunk may end.
LEMMA BoundaryRange ==
    ASSUME NEW data \in Seq(Byte)
    PROVE  /\ Boundary(data) \in Nat /\ Boundary(data) <= Len(data) /\ Boundary(data) <= MaxSize
           /\ Len(data) <= MinSize => Boundary(data) = Len(data)
           /\ Len(data) > MinSize => Boundary(data) > MinSize
<1> DEFINE n == Min({Len(data), MaxSize})
           normal == Min({AvgSize, n})
           passing == {i \in MinSize .. normal - 1 : Hash(data)[i] \in MaskS}
                        \union {i \in normal .. n - 1 : Hash(data)[i] \in MaskL}
                        \union {n - 1}
<1>1. /\ MinSize \in Nat /\ AvgSize \in Nat /\ MaxSize \in Nat /\ Len(data) \in Nat
      /\ MinSize < AvgSize /\ AvgSize < MaxSize
  BY SizeAssumption
<1>2. n = IF Len(data) <= MaxSize THEN Len(data) ELSE MaxSize
  BY <1>1, MinPair
<1>3. n \in Nat
  BY <1>1, <1>2
<1>4. normal = IF AvgSize <= n THEN AvgSize ELSE n
  BY <1>1, <1>3, MinPair
<1> HIDE DEF n, normal
<1>5. CASE n <= MinSize
  <2>1. Boundary(data) = n
    BY <1>5 DEF Boundary, n
  <2> QED BY <1>1, <1>2, <1>3, <1>5, <2>1
<1>6. CASE n > MinSize
  <2>1. Boundary(data) = Min(passing) + 1
    BY <1>1, <1>3, <1>6 DEF Boundary, n, normal
  <2>2. passing \subseteq MinSize .. n - 1 /\ passing # {}
    BY <1>1, <1>3, <1>4, <1>6
  <2> HIDE DEF passing
  <2>3. Min(passing) \in MinSize .. n - 1
    <3>1. passing \subseteq Nat
      BY <1>1, <2>2
    <3> QED BY <2>2, <3>1, MinRight
  <2> QED BY <1>1, <1>2, <1>3, <1>6, <2>1, <2>3
<1> QED BY <1>1, <1>3, <1>5, <1>6

-----------------------------------------------------------------------------
(* ChunkedLayer: what is cut and stored.                                   *)

LayerTyped ==
    /\ raw \in Seq(Byte)
    /\ filled \in Nat /\ filled <= MaxSize
    /\ cuts \in Seq(Nat)
    /\ worker \in Seq({"head", "put", "done"}) /\ Len(worker) = Len(cuts)
    /\ failed \in BOOLEAN
    /\ spoilt \subseteq chunks
    /\ pc \in {"read", "cut", "flush", "wait", "index", "recipe", "stored", "error"}

\* Where a chunk begins.
Start(i) == IF i = 1 THEN 0 ELSE cuts[i - 1]

ByContent(i) ==
    /\ cuts[i] - Start(i) = Boundary(Slice(Start(i), Len(raw)))
    /\ cuts[i] - Start(i) <= MaxSize
    /\ cuts[i] < Len(raw) => cuts[i] - Start(i) > MinSize

\* The chunks follow each other, and where the splitter has one to emit it has
\* all the bytes that matter to its boundary.
CutsInv ==
    /\ At \in Nat /\ At + filled <= Len(raw)
    /\ \A i \in 1 .. Len(cuts) :
         /\ Start(i) \in Nat /\ Start(i) < cuts[i] /\ cuts[i] <= At
         /\ \A j \in 1 .. Len(cuts) : i < j => cuts[i] <= Start(j)
         /\ ByContent(i)
    /\ pc = "cut" => filled = MaxSize
    /\ pc = "flush" => At + filled = Len(raw)
    /\ pc \notin {"read", "cut", "flush"} /\ ~failed => At = Len(raw)

\* The chunk that is emitted is the one its content asks for.
LEMMA EmittedRight ==
    ASSUME LayerTyped, CutsInv, 0 < filled, filled = MaxSize \/ At + filled = Len(raw),
           NEW cut, cut = Boundary(Slice(At, At + filled))
    PROVE  /\ cut \in Nat /\ 0 < cut /\ cut <= filled
           /\ cut = Boundary(Slice(At, Len(raw))) /\ cut <= MaxSize
           /\ At + cut < Len(raw) => cut > MinSize
<1> DEFINE data == Slice(At, At + filled)
           rest == Slice(At, Len(raw))
<1>1. /\ raw \in Seq(Byte) /\ At \in Nat /\ filled \in Nat /\ At + filled <= Len(raw)
      /\ Len(raw) \in Nat /\ MaxSize \in Nat /\ MinSize \in Nat /\ filled <= MaxSize
      /\ MinSize < MaxSize /\ 0 < MinSize
  BY SizeAssumption DEF LayerTyped, CutsInv
<1>2. /\ data \in Seq(Byte) /\ Len(data) = filled
      /\ \A k \in 1 .. filled : data[k] = raw[At + k]
  <2>1. (At + filled) - At = filled /\ At <= At + filled /\ At + filled \in Nat
    BY <1>1
  <2> QED BY <1>1, <2>1, SliceRight
<1>3. /\ rest \in Seq(Byte) /\ Len(rest) = Len(raw) - At
      /\ \A k \in 1 .. Len(raw) - At : rest[k] = raw[At + k]
  <2>1. At <= Len(raw) /\ Len(raw) <= Len(raw)
    BY <1>1
  <2>2. /\ Slice(At, Len(raw)) \in Seq(Byte) /\ Len(Slice(At, Len(raw))) = Len(raw) - At
        /\ \A k \in 1 .. Len(raw) - At : Slice(At, Len(raw))[k] = raw[At + k]
    <3> HIDE DEF data
    <3> QED BY <1>1, <2>1, SliceRight
  <2> QED BY <2>2
<1> HIDE DEF data, rest
<1>4. Min({Len(data), MaxSize}) = filled /\ Min({Len(rest), MaxSize}) = filled
  <2>1. Min({Len(data), MaxSize}) = IF Len(data) <= MaxSize THEN Len(data) ELSE MaxSize
    BY <1>1, <1>2, MinPair
  <2>2. Min({Len(rest), MaxSize}) = IF Len(rest) <= MaxSize THEN Len(rest) ELSE MaxSize
    <3>1. Len(rest) \in Nat
      BY <1>3
    <3> QED BY <1>1, <3>1, MinPair
  <2>3. CASE filled = MaxSize
    BY <1>1, <1>2, <1>3, <2>1, <2>2, <2>3
  <2>4. CASE At + filled = Len(raw)
    BY <1>1, <1>2, <1>3, <2>1, <2>2, <2>4
  <2> QED BY <2>3, <2>4
<1>5. Boundary(data) = Boundary(rest)
  <2>1. \A k \in 1 .. filled : k \in 1 .. Len(raw) - At
    BY <1>1
  <2> QED BY <1>2, <1>3, <1>4, <2>1, BoundaryPrefix
<1>6. /\ cut \in Nat /\ cut <= filled /\ cut <= MaxSize
      /\ filled <= MinSize => cut = filled
      /\ filled > MinSize => cut > MinSize
  BY <1>2, BoundaryRange DEF data
<1>7. 0 < cut /\ (At + cut < Len(raw) => cut > MinSize)
  BY <1>1, <1>6
<1> QED BY <1>5, <1>6, <1>7 DEF data, rest

\* What an emission does to the cuts.
LEMMA EmitRight ==
    ASSUME LayerTyped, CutsInv, NEW from, NEW then, Emit(from, then), 0 < filled,
           filled = MaxSize \/ At + filled = Len(raw)
    PROVE  /\ raw' = raw /\ failed' = failed /\ pc' = then /\ pc = from
           /\ filled' \in Nat /\ filled' <= filled /\ cuts' \in Seq(Nat)
           /\ Len(cuts') = Len(cuts) + 1 /\ \A i \in 1 .. Len(cuts) : cuts'[i] = cuts[i]
           /\ At' \in Nat /\ At' + filled' = At + filled /\ At < At' /\ cuts'[Len(cuts) + 1] = At'
           /\ At' - At = Boundary(Slice(At, Len(raw))) /\ At' - At <= MaxSize
           /\ At' < Len(raw) => At' - At > MinSize
<1> DEFINE cut == Boundary(Slice(At, At + filled))
<1>1. /\ cut \in Nat /\ 0 < cut /\ cut <= filled
      /\ cut = Boundary(Slice(At, Len(raw))) /\ cut <= MaxSize
      /\ At + cut < Len(raw) => cut > MinSize
  BY EmittedRight
<1>2. /\ raw' = raw /\ failed' = failed /\ pc' = then /\ pc = from
      /\ filled' = filled - cut /\ cuts' = Append(cuts, At + cut)
  BY DEF Emit
<1>3. At \in Nat /\ filled \in Nat /\ cuts \in Seq(Nat)
  BY DEF LayerTyped, CutsInv
<1> HIDE DEF cut
<1>4. /\ cuts' \in Seq(Nat) /\ Len(cuts') = Len(cuts) + 1
      /\ \A i \in 1 .. Len(cuts) : cuts'[i] = cuts[i]
      /\ cuts'[Len(cuts) + 1] = At + cut
  BY <1>1, <1>2, <1>3, AppendProperties
<1>5. At' = At + cut
  <2>1. cuts' # <<>>
    BY <1>3, <1>4
  <2> QED BY <1>4, <2>1 DEF At, Last
<1>6. At' \in Nat /\ At < At' /\ At' - At = cut /\ At' + filled' = At + filled
  <2>1. cut \in Nat /\ 0 < cut /\ cut <= filled /\ filled' = filled - cut
    BY <1>1, <1>2
  <2>2. At + cut \in Nat /\ At < At + cut /\ (At + cut) - At = cut
    BY <2>1, <1>3
  <2>3. (At + cut) + (filled - cut) = At + filled
    BY <2>1, <1>3
  <2> QED BY <1>5, <2>1, <2>2, <2>3
<1>7. At' - At = Boundary(Slice(At, Len(raw))) /\ At' - At <= MaxSize /\ cuts'[Len(cuts) + 1] = At'
  BY <1>1, <1>4, <1>5, <1>6
<1>8. At' < Len(raw) => At' - At > MinSize
  BY <1>1, <1>5, <1>6
<1>9. filled' \in Nat /\ filled' <= filled
  BY <1>1, <1>2, <1>3
<1> QED BY <1>2, <1>4, <1>6, <1>7, <1>8, <1>9

LEMMA LayerTypedInit == Init => LayerTyped
<1> SUFFICES ASSUME Init PROVE LayerTyped
  OBVIOUS
<1>1. raw \in Seq(Byte)
  BY DEF Init
<1>2. MaxSize \in Nat /\ 0 <= MaxSize
  BY SizeAssumption
<1>3. cuts \in Seq(Nat) /\ worker \in Seq({"head", "put", "done"}) /\ Len(worker) = Len(cuts)
  BY DEF Init
<1> QED BY <1>1, <1>2, <1>3 DEF Init, LayerTyped

\* An upload that has ended without an error has left its chunk there; Store
\* writes nothing else before all have, the index before the recipe.
StoreInv ==
    /\ ~failed => \A i \in 1 .. Len(worker) : worker[i] = "done" => ChunkOf(i) \in chunks
    /\ pc \in {"index", "recipe", "stored"} =>
         ~failed /\ \A i \in 1 .. Len(worker) : worker[i] = "done"
    /\ pc \in {"recipe", "stored"} => raw = <<>> \/ indexed
    /\ recipe # None =>
         /\ pc = "stored"
         /\ recipe = [i \in DOMAIN cuts |-> [digest |-> ChunkOf(i), size |-> Len(ChunkOf(i))]]

LayerInv == LayerTyped /\ CutsInv /\ StoreInv

LEMMA LayerInvInit == Init => LayerInv
<1> SUFFICES ASSUME Init PROVE LayerInv
  OBVIOUS
<1>1. LayerTyped
  BY LayerTypedInit
<1>2. Len(cuts) = 0 /\ At = 0 /\ filled = 0 /\ pc = "read" /\ Len(worker) = 0 /\ recipe = None
  BY DEF Init, At
<1>3. Len(raw) \in Nat
  BY <1>1 DEF LayerTyped
<1>4. \A i \in 1 .. 0 : FALSE
  OBVIOUS
<1>5. CutsInv
  BY <1>2, <1>3, <1>4 DEF CutsInv
<1>6. StoreInv
  BY <1>2, <1>4 DEF StoreInv
<1> QED BY <1>1, <1>5, <1>6 DEF LayerInv

\* Where the cuts stay, so do the chunks.
LEMMA CutsStay ==
    ASSUME raw' = raw, cuts' = cuts
    PROVE  /\ At' = At /\ \A i : Start(i)' = Start(i) /\ ChunkOf(i)' = ChunkOf(i)
           /\ \A i : ByContent(i)' <=> ByContent(i)
BY DEF At, Start, ChunkOf, Slice, ByContent

LEMMA EmitKeeps ==
    ASSUME LayerInv, NEW from \in {"cut", "flush"}, NEW then \in {"read", "flush"}, Emit(from, then),
           0 < filled, filled = MaxSize \/ At + filled = Len(raw),
           then = "flush" => At + filled = Len(raw)
    PROVE  LayerInv'
<1>0. PICK n \in Nat : n = Len(cuts)
  BY DEF LayerInv, LayerTyped
<1>1. /\ raw' = raw /\ failed' = failed /\ pc' = then /\ pc = from
      /\ filled' \in Nat /\ filled' <= filled /\ cuts' \in Seq(Nat)
      /\ Len(cuts') = n + 1 /\ \A i \in 1 .. n : cuts'[i] = cuts[i]
      /\ At' \in Nat /\ At' + filled' = At + filled /\ At < At' /\ cuts'[n + 1] = At'
      /\ At' - At = Boundary(Slice(At, Len(raw))) /\ At' - At <= MaxSize
      /\ At' < Len(raw) => At' - At > MinSize
  BY <1>0, EmitRight DEF LayerInv
<1>2. worker' = Append(worker, "head") /\ UNCHANGED <<chunks, spoilt, indexed, recipe>>
  BY DEF Emit, bucket
<1>3. LayerTyped /\ CutsInv /\ StoreInv
  BY DEF LayerInv
<1>4. n \in Nat /\ At \in Nat /\ filled \in Nat /\ Len(raw) \in Nat /\ MaxSize \in Nat /\ Len(worker) = n
  BY <1>0, <1>3, SizeAssumption DEF LayerTyped, CutsInv
<1>5. /\ worker' \in Seq({"head", "put", "done"}) /\ Len(worker') = n + 1
      /\ worker'[n + 1] = "head" /\ \A i \in 1 .. n : worker'[i] = worker[i]
  BY <1>2, <1>3, <1>4, AppendProperties DEF LayerTyped
<1>6. LayerTyped'
  <2>1. filled' <= MaxSize
    BY <1>1, <1>3, <1>4 DEF LayerTyped
  <2> QED BY <1>1, <1>2, <1>3, <1>5, <2>1 DEF LayerTyped
<1>7. Start(n + 1)' = At /\ \A i \in 1 .. n : Start(i)' = Start(i)
  <2>1. ASSUME NEW i \in 1 .. n PROVE i = 1 \/ i - 1 \in 1 .. n
    BY <1>4
  <2>2. \A i \in 1 .. n : Start(i)' = Start(i)
    BY <1>1, <2>1 DEF Start
  <2>3. Start(n + 1)' = IF n + 1 = 1 THEN 0 ELSE cuts'[(n + 1) - 1]
    BY DEF Start
  <2>4. CASE n = 0
    <3>1. cuts = <<>>
      BY <1>0, <1>3, <2>4, EmptySeq DEF LayerTyped
    <3> QED BY <2>2, <2>3, <2>4, <3>1 DEF At
  <2>5. CASE n # 0
    <3>1. cuts # <<>> /\ (n + 1) - 1 = n /\ n \in 1 .. n /\ n + 1 # 1
      BY <1>0, <1>4, <2>5
    <3>2. At = cuts[n]
      BY <1>0, <3>1 DEF At, Last
    <3> QED BY <1>1, <2>2, <2>3, <3>1, <3>2
  <2> QED BY <2>4, <2>5
<1>8. CutsInv'
  <2>1. ASSUME NEW i \in 1 .. n + 1
        PROVE  /\ Start(i)' \in Nat /\ Start(i)' < cuts'[i] /\ cuts'[i] <= At'
               /\ \A j \in 1 .. n + 1 : i < j => cuts'[i] <= Start(j)'
               /\ ByContent(i)'
    <3>1. CASE i = n + 1
      <4>1. \A j \in 1 .. n + 1 : ~(n + 1 < j)
        BY <1>4
      <4>2. ByContent(n + 1)'
        BY <1>1, <1>7 DEF ByContent, Slice
      <4> QED BY <1>1, <1>4, <1>7, <3>1, <4>1, <4>2
    <3>2. CASE i \in 1 .. n
      <4>1. /\ Start(i) \in Nat /\ Start(i) < cuts[i] /\ cuts[i] <= At /\ cuts[i] \in Nat
            /\ \A j \in 1 .. n : i < j => cuts[i] <= Start(j)
            /\ ByContent(i)
        BY <1>0, <1>3, <3>2 DEF CutsInv, LayerTyped
      <4>2. Start(i)' = Start(i) /\ cuts'[i] = cuts[i]
        BY <1>1, <1>7, <3>2
      <4>3. ByContent(i)'
        BY <1>1, <4>1, <4>2 DEF ByContent, Slice
      <4>4. ASSUME NEW j \in 1 .. n + 1, i < j PROVE cuts'[i] <= Start(j)'
        <5>1. CASE j = n + 1
          BY <1>7, <4>1, <4>2, <5>1
        <5>2. CASE j \in 1 .. n
          BY <1>7, <4>1, <4>2, <4>4, <5>2
        <5> QED BY <1>4, <5>1, <5>2
      <4>5. cuts[i] <= At'
        <5>1. At < At' /\ At' \in Nat
          BY <1>1
        <5>2. cuts[i] \in Nat /\ cuts[i] <= At
          BY <4>1
        <5> QED BY <1>4, <5>1, <5>2
      <4>6. Start(i)' \in Nat /\ Start(i)' < cuts'[i] /\ cuts'[i] <= At'
        BY <4>1, <4>2, <4>5
      <4>7. \A j \in 1 .. n + 1 : i < j => cuts'[i] <= Start(j)'
        BY <4>4
      <4> QED BY <4>3, <4>6, <4>7
    <3> QED BY <1>4, <3>1, <3>2
  <2>2. At' + filled' <= Len(raw')
    BY <1>1, <1>3 DEF CutsInv
  <2>3. pc' = "flush" => At' + filled' = Len(raw')
    BY <1>1
  <2> QED BY <1>1, <2>1, <2>2, <2>3 DEF CutsInv
<1>9. StoreInv'
  <2>1. recipe' = None
    BY <1>1, <1>2, <1>3 DEF StoreInv
  <2>2. ASSUME NEW i \in 1 .. n PROVE ChunkOf(i)' = ChunkOf(i)
    <3>1. i = 1 \/ i - 1 \in 1 .. n
      BY <1>4
    <3> QED BY <1>1, <3>1 DEF ChunkOf, Slice
  <2>3. ASSUME ~failed', NEW i \in 1 .. n + 1, worker'[i] = "done" PROVE ChunkOf(i)' \in chunks'
    <3>1. i \in 1 .. n
      BY <1>4, <1>5, <2>3
    <3> QED BY <1>1, <1>2, <1>3, <1>4, <1>5, <2>2, <2>3, <3>1 DEF StoreInv
  <2> QED BY <1>1, <1>5, <2>1, <2>3 DEF StoreInv
<1> QED BY <1>6, <1>8, <1>9 DEF LayerInv

\* The splitter's other steps: the window is filled up to MaxSize, or to the end
\* of the layer.
LEMMA SplitKeeps ==
    ASSUME LayerInv, Refill \/ ReadFails \/ Flushed
    PROVE  LayerInv'
<1>1. LayerTyped /\ CutsInv /\ StoreInv
  BY DEF LayerInv
<1>2. UNCHANGED <<raw, cuts, worker, chunks, spoilt, indexed, recipe>>
  BY DEF Refill, ReadFails, Flushed, splitter, bucket
<1>3. /\ At' = At /\ At \in Nat /\ filled \in Nat /\ Len(raw) \in Nat /\ MaxSize \in Nat
      /\ filled <= MaxSize /\ At + filled <= Len(raw) /\ 0 < MaxSize
  BY <1>1, <1>2, CutsStay, SizeAssumption DEF LayerTyped, CutsInv
<1>4. pc \in {"read", "flush"} /\ recipe = None
  BY <1>1 DEF Refill, ReadFails, Flushed, StoreInv
<1>5. /\ filled' \in Nat /\ filled' <= MaxSize /\ At + filled' <= Len(raw)
      /\ failed' \in BOOLEAN /\ (failed => failed')
      /\ pc' \in {"cut", "flush", "wait"}
      /\ pc' = "cut" => filled' = MaxSize
      /\ pc' = "flush" => At + filled' = Len(raw)
      /\ pc' = "wait" /\ ~failed' => At = Len(raw)
  <2>1. CASE Refill
    <3> DEFINE want == MaxSize - filled
               left == Len(raw) - At - filled
               got  == Min({want, left})
    <3>1. want \in Nat /\ left \in Nat
      BY <1>3
    <3>2. got = IF want <= left THEN want ELSE left
      <4> HIDE DEF want, left
      <4> QED BY <3>1, MinPair
    <3>3. /\ filled' = filled + got
          /\ pc' = CASE filled + got = 0 -> "wait"
                     [] filled + got > 0 /\ got < want -> "flush"
                     [] OTHER -> "cut"
          /\ failed' = failed
      BY <2>1 DEF Refill
    <3> HIDE DEF got
    <3>4. got \in Nat /\ got <= want /\ got <= left
      BY <3>1, <3>2
    <3>5. CASE filled + got = 0
      BY <1>1, <1>3, <3>2, <3>3, <3>4, <3>5 DEF LayerTyped
    <3>6. CASE filled + got > 0 /\ got < want
      BY <1>1, <1>3, <3>2, <3>3, <3>4, <3>6 DEF LayerTyped
    <3>7. CASE filled + got > 0 /\ ~(got < want)
      <4>1. filled + got # 0 /\ got = want
        BY <1>3, <3>1, <3>4, <3>7
      <4>2. filled' = MaxSize
        BY <1>3, <3>3, <4>1
      <4>3. At + MaxSize <= Len(raw)
        BY <1>3, <3>1, <3>4, <4>1
      <4>4. pc' = "cut"
        BY <3>3, <3>7, <4>1
      <4> QED BY <1>1, <1>3, <3>3, <4>2, <4>3, <4>4 DEF LayerTyped
    <3> QED BY <1>3, <3>4, <3>5, <3>6, <3>7
  <2>2. CASE ReadFails
    BY <1>3, <2>2 DEF ReadFails, splitter
  <2>3. CASE Flushed
    BY <1>1, <1>3, <2>3 DEF Flushed, splitter, CutsInv, LayerTyped
  <2> QED BY <2>1, <2>2, <2>3
<1>6. LayerTyped'
  BY <1>1, <1>2, <1>5 DEF LayerTyped
<1>7. CutsInv'
  <2>1. \A i \in 1 .. Len(cuts) :
           /\ Start(i)' \in Nat /\ Start(i)' < cuts'[i] /\ cuts'[i] <= At'
           /\ \A j \in 1 .. Len(cuts) : i < j => cuts'[i] <= Start(j)'
           /\ ByContent(i)'
    BY <1>1, <1>2, CutsStay DEF CutsInv
  <2> QED BY <1>2, <1>3, <1>5, <2>1 DEF CutsInv
<1>8. StoreInv'
  BY <1>1, <1>2, <1>4, <1>5, CutsStay DEF StoreInv
<1> QED BY <1>6, <1>7, <1>8 DEF LayerInv

\* The uploads.
LEMMA UploadKeeps ==
    ASSUME LayerInv, NEW i \in DOMAIN worker, HeadChunk(i) \/ PutChunk(i) \/ WorkerFails(i)
    PROVE  LayerInv'
<1>1. LayerTyped /\ CutsInv /\ StoreInv
  BY DEF LayerInv
<1>2. /\ UNCHANGED <<raw, filled, cuts, indexed, recipe, pc>>
      /\ chunks \subseteq chunks' /\ spoilt' \subseteq chunks'
      /\ failed' \in BOOLEAN /\ (failed => failed')
      /\ worker[i] # "done"
  BY <1>1 DEF HeadChunk, PutChunk, WorkerFails, splitter, bucket, LayerTyped
<1>3. i \in 1 .. Len(worker) /\ worker \in Seq({"head", "put", "done"})
  BY <1>1 DEF LayerTyped
<1>4. \E to \in {"put", "done"} :
        /\ worker' = [worker EXCEPT ![i] = to]
        /\ to = "done" /\ ~failed' => ChunkOf(i) \in chunks'
  BY DEF HeadChunk, PutChunk, WorkerFails, bucket
<1>5. /\ worker' \in Seq({"head", "put", "done"}) /\ Len(worker') = Len(worker)
      /\ \A k \in 1 .. Len(worker) : k # i => worker'[k] = worker[k]
      /\ worker'[i] = "done" /\ ~failed' => ChunkOf(i) \in chunks'
  BY <1>3, <1>4
<1>6. LayerTyped'
  BY <1>1, <1>2, <1>5 DEF LayerTyped
<1>7. CutsInv'
  <2>1. \A k \in 1 .. Len(cuts) :
           /\ Start(k)' \in Nat /\ Start(k)' < cuts'[k] /\ cuts'[k] <= At'
           /\ \A j \in 1 .. Len(cuts) : k < j => cuts'[k] <= Start(j)'
           /\ ByContent(k)'
    BY <1>1, <1>2, CutsStay DEF CutsInv
  <2> QED BY <1>1, <1>2, <2>1, CutsStay DEF CutsInv
<1>8. StoreInv'
  <2>1. pc \notin {"index", "recipe", "stored"} /\ recipe = None
    BY <1>1, <1>2, <1>3 DEF StoreInv
  <2>2. ASSUME ~failed', NEW k \in 1 .. Len(worker), worker'[k] = "done" PROVE ChunkOf(k)' \in chunks'
    BY <1>1, <1>2, <1>5, <2>2, CutsStay DEF StoreInv, LayerTyped
  <2> QED BY <1>2, <1>5, <2>1, <2>2 DEF StoreInv
<1> QED BY <1>6, <1>7, <1>8 DEF LayerInv

\* Store after the split.
LEMMA StoreKeeps ==
    ASSUME LayerInv, Wait \/ \E ok \in BOOLEAN : WriteIndex(ok) \/ WriteRecipe(ok)
    PROVE  LayerInv'
<1>1. LayerTyped /\ CutsInv /\ StoreInv
  BY DEF LayerInv
<1>2. UNCHANGED <<raw, filled, cuts, worker, failed, chunks, spoilt>>
  BY DEF Wait, WriteIndex, WriteRecipe, splitter, bucket
<1>3. /\ pc \in {"wait", "index", "recipe"} /\ pc' \in {"index", "recipe", "stored", "error"}
      /\ recipe = None
  BY <1>1 DEF Wait, WriteIndex, WriteRecipe, StoreInv
<1>4. LayerTyped'
  BY <1>1, <1>2, <1>3 DEF LayerTyped
<1>5. CutsInv'
  <2>1. \A k \in 1 .. Len(cuts) :
           /\ Start(k)' \in Nat /\ Start(k)' < cuts'[k] /\ cuts'[k] <= At'
           /\ \A j \in 1 .. Len(cuts) : k < j => cuts'[k] <= Start(j)'
           /\ ByContent(k)'
    BY <1>1, <1>2, CutsStay DEF CutsInv
  <2> QED BY <1>1, <1>2, <1>3, <2>1, CutsStay DEF CutsInv
<1>6. StoreInv'
  <2>1. ~failed' => \A i \in 1 .. Len(worker') : worker'[i] = "done" => ChunkOf(i)' \in chunks'
    BY <1>1, <1>2, CutsStay DEF StoreInv
  <2>2. CASE Wait
    <3>1. \A i \in 1 .. Len(worker) : worker[i] = "done"
      BY <1>1, <2>2 DEF Wait, LayerTyped
    <3> QED BY <1>2, <1>3, <2>1, <2>2, <3>1 DEF Wait, StoreInv, bucket
  <2>3. ASSUME NEW ok \in BOOLEAN, WriteIndex(ok) PROVE StoreInv'
    BY <1>1, <1>2, <1>3, <2>1, <2>3 DEF WriteIndex, StoreInv
  <2>4. ASSUME NEW ok \in BOOLEAN, WriteRecipe(ok) PROVE StoreInv'
    <3>1. pc = "recipe" /\ pc' \in {"stored", "error"} /\ indexed' = indexed
      BY <2>4 DEF WriteRecipe
    <3>2. recipe' # None =>
            /\ pc' = "stored"
            /\ recipe' = [i \in DOMAIN cuts |-> [digest |-> ChunkOf(i), size |-> Len(ChunkOf(i))]]
      BY <1>3, <2>4 DEF WriteRecipe
    <3>3. recipe' # None =>
            recipe' = [i \in DOMAIN cuts |-> [digest |-> ChunkOf(i)', size |-> Len(ChunkOf(i)')]]
      BY <1>2, <3>2, CutsStay
    <3> QED BY <1>1, <1>2, <2>1, <3>1, <3>2, <3>3 DEF StoreInv
  <2> QED BY <2>2, <2>3, <2>4
<1> QED BY <1>4, <1>5, <1>6 DEF LayerInv

\* Readers change nothing of it, and damage only what is spoilt.
LEMMA OthersKeep ==
    ASSUME LayerInv, UNCHANGED <<raw, filled, cuts, worker, failed, chunks, indexed, recipe, pc>>,
           spoilt' \subseteq chunks
    PROVE  LayerInv'
<1>1. LayerTyped /\ CutsInv /\ StoreInv
  BY DEF LayerInv
<1>2. LayerTyped'
  BY <1>1 DEF LayerTyped
<1>3. CutsInv'
  <2>1. \A k \in 1 .. Len(cuts) :
           /\ Start(k)' \in Nat /\ Start(k)' < cuts'[k] /\ cuts'[k] <= At'
           /\ \A j \in 1 .. Len(cuts) : k < j => cuts'[k] <= Start(j)'
           /\ ByContent(k)'
    BY <1>1, CutsStay DEF CutsInv
  <2> QED BY <1>1, <2>1, CutsStay DEF CutsInv
<1>4. StoreInv'
  BY <1>1, CutsStay DEF StoreInv
<1> QED BY <1>2, <1>3, <1>4 DEF LayerInv

LEMMA LayerInvNext == LayerInv /\ [Next]_vars => LayerInv'
<1> SUFFICES ASSUME LayerInv, [Next]_vars PROVE LayerInv'
  OBVIOUS
<1>1. spoilt \subseteq chunks
  BY DEF LayerInv, LayerTyped
<1>2. CASE Cut
  <2>1. pc = "cut" /\ Emit("cut", "read")
    BY <1>2 DEF Cut, Emit
  <2>2. 0 < filled /\ filled = MaxSize
    BY <2>1, SizeAssumption DEF LayerInv, CutsInv
  <2> QED BY <2>1, <2>2, EmitKeeps
<1>3. CASE Flush
  BY <1>3, EmitKeeps DEF Flush, Emit, LayerInv, CutsInv
<1>4. CASE Refill \/ ReadFails \/ Flushed
  BY <1>4, SplitKeeps
<1>5. CASE \E i \in DOMAIN worker : HeadChunk(i) \/ PutChunk(i) \/ WorkerFails(i)
  BY <1>5, UploadKeeps
<1>6. CASE Wait \/ \E ok \in BOOLEAN : WriteIndex(ok) \/ WriteRecipe(ok)
  BY <1>6, StoreKeeps
<1>7. CASE \/ FetchBegin \/ FetchEnd
           \/ \E i \in DOMAIN worker, answered \in BOOLEAN : FetchChunk(i, answered)
           \/ \E offset, size \in 0 .. Len(raw), answered \in BOOLEAN :
                offset + size <= Len(raw) /\ ExtractFile(offset, size, answered)
  BY <1>1, <1>7, OthersKeep DEF FetchBegin, FetchEnd, FetchChunk, ExtractFile, splitter, bucket
<1>8. CASE \E digest \in chunks : Damage(digest)
  BY <1>1, <1>8, OthersKeep DEF Damage, splitter
<1>9. CASE UNCHANGED vars
  BY <1>1, <1>9, OthersKeep DEF vars
<1> QED BY <1>2, <1>3, <1>4, <1>5, <1>6, <1>7, <1>8, <1>9 DEF Next

\* Chunk boundaries depend on nothing but the bytes from the last one on
\* (boundary, Split), whatever the window held when they were found.
THEOREM CutsFollowContent == Spec => []CutByContent
<1>1. LayerInv => CutByContent
  <2> SUFFICES ASSUME LayerInv PROVE CutByContent
    OBVIOUS
  <2>1. DOMAIN cuts = 1 .. Len(cuts)
    BY DEF LayerInv, LayerTyped
  <2>2. \A i \in 1 .. Len(cuts) : ByContent(i)
    BY DEF LayerInv, CutsInv
  <2>3. pc \notin {"read", "cut", "flush"} /\ ~failed => At = Len(raw)
    BY DEF LayerInv, CutsInv
  <2> QED BY <2>1, <2>2, <2>3 DEF CutByContent, ByContent, Start
<1> QED BY <1>1, LayerInvInit, LayerInvNext, PTL DEF Spec

\* The recipe of a layer is written when its chunks and its index are there
\* (Store), however its uploads interleave and fail.
THEOREM RecipeIsLast == Spec => []RecipeLast
<1>1. LayerInv => RecipeLast
  <2> SUFFICES ASSUME LayerInv, recipe # None PROVE RecipeLast
    BY DEF RecipeLast
  <2>1. LayerTyped /\ StoreInv /\ pc = "stored" /\ ~failed
    BY DEF LayerInv, StoreInv
  <2>2. \A i \in DOMAIN cuts : i \in 1 .. Len(worker) /\ ChunkOf(i) \in chunks
    BY <2>1 DEF LayerTyped, StoreInv
  <2>3. recipe = [i \in DOMAIN cuts |-> [digest |-> ChunkOf(i), size |-> Len(ChunkOf(i))]]
    BY <2>1 DEF StoreInv
  <2> QED BY <2>1, <2>2, <2>3 DEF RecipeLast, StoreInv
<1> QED BY <1>1, LayerInvInit, LayerInvNext, PTL DEF Spec

-----------------------------------------------------------------------------
(* ChunkedLayer: what is read.                                             *)

\* What the recipe of a layer says of its chunks.
LEMMA RecipeRight ==
    ASSUME LayerInv, recipe # None
    PROVE  /\ DOMAIN recipe = 1 .. Len(cuts) /\ Len(recipe) = Len(cuts) /\ Len(cuts) \in Nat
           /\ (recipe = <<>>) = (Len(cuts) = 0)
           /\ raw \in Seq(Byte) /\ Len(raw) \in Nat /\ At = Len(raw)
           /\ \A i \in 1 .. Len(cuts) :
                /\ Start(i) \in Nat /\ cuts[i] \in Nat /\ Start(i) < cuts[i] /\ cuts[i] <= Len(raw)
                /\ \A j \in 1 .. Len(cuts) : i < j => cuts[i] <= Start(j)
                /\ recipe[i].digest = Slice(Start(i), cuts[i]) /\ recipe[i].digest \in chunks
                /\ recipe[i].size = cuts[i] - Start(i)
           /\ \A i \in 2 .. Len(cuts) : Start(i) = cuts[i - 1] /\ i - 1 \in 1 .. Len(cuts)
           /\ Start(1) = 0
           /\ Len(cuts) = 0 => Len(raw) = 0
           /\ Len(cuts) > 0 => cuts[Len(cuts)] = Len(raw)
<1>1. /\ LayerTyped /\ CutsInv /\ StoreInv /\ pc = "stored" /\ ~failed
      /\ recipe = [i \in DOMAIN cuts |-> [digest |-> ChunkOf(i), size |-> Len(ChunkOf(i))]]
  BY DEF LayerInv, StoreInv
<1>2. /\ raw \in Seq(Byte) /\ Len(raw) \in Nat /\ cuts \in Seq(Nat) /\ Len(cuts) \in Nat
      /\ At = Len(raw) /\ DOMAIN cuts = 1 .. Len(cuts)
  BY <1>1 DEF LayerTyped, CutsInv
<1>3. DOMAIN recipe = 1 .. Len(cuts) /\ Len(recipe) = Len(cuts)
  BY <1>1, <1>2
<1>4. (recipe = <<>>) = (Len(cuts) = 0)
  <2>1. recipe = <<>> => Len(cuts) = 0
    BY <1>3
  <2>2. Len(cuts) = 0 => recipe = <<>>
    BY <1>1, <1>2
  <2> QED BY <2>1, <2>2
<1>5. ASSUME NEW i \in 1 .. Len(cuts)
      PROVE  /\ Start(i) \in Nat /\ cuts[i] \in Nat /\ Start(i) < cuts[i] /\ cuts[i] <= Len(raw)
             /\ \A j \in 1 .. Len(cuts) : i < j => cuts[i] <= Start(j)
             /\ recipe[i].digest = Slice(Start(i), cuts[i]) /\ recipe[i].digest \in chunks
             /\ recipe[i].size = cuts[i] - Start(i)
  <2>1. /\ Start(i) \in Nat /\ cuts[i] \in Nat /\ Start(i) < cuts[i] /\ cuts[i] <= Len(raw)
        /\ \A j \in 1 .. Len(cuts) : i < j => cuts[i] <= Start(j)
    BY <1>1, <1>2 DEF CutsInv
  <2>2. ChunkOf(i) = Slice(Start(i), cuts[i])
    BY DEF ChunkOf, Start
  <2>3. Len(Slice(Start(i), cuts[i])) = cuts[i] - Start(i)
    <3>1. Start(i) <= cuts[i]
      BY <2>1
    <3> QED BY <1>2, <2>1, <3>1, SliceRight
  <2>4. ChunkOf(i) \in chunks
    BY <1>1 DEF StoreInv, LayerTyped
  <2> QED BY <1>1, <1>2, <2>1, <2>2, <2>3, <2>4
<1>6. \A i \in 2 .. Len(cuts) : Start(i) = cuts[i - 1] /\ i - 1 \in 1 .. Len(cuts)
  BY <1>2 DEF Start
<1>7. /\ Start(1) = 0 /\ (Len(cuts) = 0 => Len(raw) = 0)
      /\ Len(cuts) > 0 => cuts[Len(cuts)] = Len(raw)
  <2>1. Len(cuts) = 0 => cuts = <<>>
    BY <1>2, EmptySeq
  <2>2. Len(cuts) > 0 => cuts # <<>>
    BY <1>2
  <2> QED BY <1>2, <2>1, <2>2 DEF Start, At, Last
<1> QED BY <1>2, <1>3, <1>4, <1>5, <1>6, <1>7

\* chunkStarts: the chunks begin where they were cut.
LEMMA StartsRight ==
    ASSUME LayerInv, recipe # None
    PROVE  /\ \A i \in 1 .. Len(cuts) : ChunkStarts[i] = Start(i)
           /\ RecipeSize = Len(raw)
<1> DEFINE Fits(f) == f = [i \in 1 .. Len(recipe) |->
                             IF i = 1 THEN 0 ELSE f[i - 1] + recipe[i - 1].size]
           starts == [i \in 1 .. Len(recipe) |-> Start(i)]
<1>1. PICK n \in Nat : n = Len(cuts) /\ n = Len(recipe)
  BY RecipeRight
<1>2. /\ \A i \in 1 .. n : Start(i) \in Nat /\ cuts[i] \in Nat /\ recipe[i].size = cuts[i] - Start(i)
      /\ \A i \in 2 .. n : Start(i) = cuts[i - 1] /\ i - 1 \in 1 .. n
      /\ Start(1) = 0
  BY <1>1, RecipeRight
<1>3. \A i \in 1 .. n : i # 1 => Start(i) = Start(i - 1) + recipe[i - 1].size /\ i - 1 \in 1 .. n
  <2>1. ASSUME NEW i \in 1 .. n, i # 1
        PROVE  Start(i) = Start(i - 1) + recipe[i - 1].size /\ i - 1 \in 1 .. n
    <3>1. i \in 2 .. n
      BY <2>1
    <3>2. PICK j \in 1 .. n : j = i - 1
      BY <1>2, <3>1
    <3>3. Start(j) \in Nat /\ cuts[j] \in Nat /\ recipe[j].size = cuts[j] - Start(j) /\ Start(i) = cuts[j]
      BY <1>2, <3>1, <3>2
    <3>4. Start(j) + (cuts[j] - Start(j)) = cuts[j]
      BY <3>3
    <3> QED BY <3>2, <3>3, <3>4
  <2> QED BY <2>1
<1>4. Fits(starts)
  <2>1. ASSUME NEW i \in 1 .. n
        PROVE  starts[i] = IF i = 1 THEN 0 ELSE starts[i - 1] + recipe[i - 1].size
    BY <1>1, <1>2, <1>3
  <2>2. starts = [i \in 1 .. n |-> starts[i]]
    BY <1>1
  <2> HIDE DEF starts
  <2> QED BY <1>1, <2>1, <2>2
<1>5. ChunkStarts = CHOOSE f : Fits(f)
  BY DEF ChunkStarts
<1>6. Fits(ChunkStarts)
  <2> HIDE DEF Fits
  <2> QED BY <1>4, <1>5
<1>7. ASSUME NEW f, Fits(f) PROVE \A i \in 1 .. n : f[i] = Start(i)
  <2>1. \A i \in 1 .. n : f[i] = IF i = 1 THEN 0 ELSE f[i - 1] + recipe[i - 1].size
    BY <1>1, <1>7
  <2> HIDE DEF Fits
  <2> DEFINE S == {i \in 1 .. n : f[i] = Start(i)}
  <2>2. CASE n = 0
    BY <2>2
  <2>3. CASE n # 0
    <3>1. 1 \in S
      BY <1>2, <2>1, <2>3
    <3>2. ASSUME NEW i \in 1 .. n - 1, i \in S PROVE i + 1 \in S
      <4>1. ASSUME NEW k \in 1 .. n, k # 1, k - 1 = i PROVE f[k] = Start(k)
        BY <1>3, <2>1, <3>2, <4>1
      <4>2. i + 1 \in 1 .. n /\ i + 1 # 1 /\ (i + 1) - 1 = i
        OBVIOUS
      <4> QED BY <4>1, <4>2
    <3> HIDE DEF S
    <3>3. 1 .. n \subseteq S
      <4>1. 1 \in Nat
        OBVIOUS
      <4> QED BY <3>1, <3>2, <4>1, SpanSet
    <3> QED BY <3>3 DEF S
  <2> QED BY <2>2, <2>3
<1> HIDE DEF Fits
<1>8. \A i \in 1 .. n : ChunkStarts[i] = Start(i)
  BY <1>6, <1>7
<1>9. RecipeSize = Len(raw)
  <2>1. CASE n = 0
    BY <1>1, <2>1, RecipeRight DEF RecipeSize
  <2>2. CASE n # 0
    <3>1. recipe # <<>> /\ n \in 1 .. n /\ cuts[n] = Len(raw)
      BY <1>1, <2>2, RecipeRight
    <3>2. RecipeSize = Start(n) + (cuts[n] - Start(n))
      BY <1>1, <1>2, <1>8, <3>1 DEF RecipeSize, Last
    <3> QED BY <1>2, <3>1, <3>2
  <2> QED BY <2>1, <2>2
<1> QED BY <1>1, <1>8, <1>9

\* Every byte lies in a chunk.
LEMMA ChunkCovers ==
    ASSUME LayerInv, recipe # None, NEW j \in Nat, 0 < j, j <= Len(raw)
    PROVE  \E i \in 1 .. Len(cuts) : Start(i) < j /\ j <= cuts[i]
<1>1. PICK n \in Nat : n = Len(cuts)
  BY RecipeRight
<1>2. n # 0 /\ cuts[n] = Len(raw) /\ Len(raw) \in Nat
  BY <1>1, RecipeRight
<1> DEFINE T == {i \in 1 .. n : j <= cuts[i]}
<1>3. T \subseteq Nat /\ T # {}
  BY <1>2
<1>4. PICK i \in T : \A k \in T : ~(k < i)
  BY <1>3, Least
<1>5. CASE i = 1
  BY <1>1, <1>4, <1>5, RecipeRight
<1>6. CASE i # 1
  <2>1. i \in 2 .. n /\ j <= cuts[i]
    BY <1>4, <1>6
  <2>2. Start(i) = cuts[i - 1] /\ i - 1 \in 1 .. n /\ cuts[i - 1] \in Nat
    BY <1>1, <2>1, RecipeRight
  <2>3. i - 1 \notin T
    BY <1>4, <2>2
  <2> QED BY <1>1, <2>1, <2>2, <2>3
<1> QED BY <1>5, <1>6

\* Chunks that follow each other make up the bytes from the first to the last.
LEMMA SpanRight ==
    ASSUME LayerInv, recipe # None, NEW first \in 1 .. Len(cuts), NEW last \in first .. Len(cuts),
           NEW seqs, seqs = [i \in 1 .. (last - first + 1) |-> recipe[first + i - 1].digest]
    PROVE  FlattenSeq(seqs) = Slice(Start(first), cuts[last])
<1> DEFINE Fits(f) == f = [i \in 1 .. Len(seqs) |-> IF i = 1 THEN seqs[i] ELSE f[i - 1] \o seqs[i]]
           spans == [i \in 1 .. Len(seqs) |-> Slice(Start(first), cuts[first + i - 1])]
<1>1. PICK n \in Nat : n = Len(cuts)
  BY RecipeRight
<1>2. PICK k \in Nat : k = last - first + 1 /\ k # 0
  BY <1>1
<1>3. /\ Len(seqs) = k /\ first \in 1 .. n /\ last \in 1 .. n
      /\ \A i \in 1 .. k : first + i - 1 \in 1 .. n /\ seqs[i] = recipe[first + i - 1].digest
  BY <1>1, <1>2
<1>4. ASSUME NEW i \in 1 .. k, i # 1
      PROVE  Slice(Start(first), cuts[first + i - 1])
               = Slice(Start(first), cuts[first + (i - 1) - 1]) \o seqs[i]
  <2>1. PICK c \in 2 .. n : c = first + i - 1
    BY <1>3, <1>4
  <2>2. PICK b \in 1 .. n : b = first + (i - 1) - 1 /\ b = c - 1
    BY <1>3, <1>4, <2>1
  <2>3. /\ cuts[b] \in Nat /\ cuts[c] \in Nat /\ cuts[b] = Start(c) /\ Start(c) <= cuts[c]
        /\ cuts[c] <= Len(raw) /\ raw \in Seq(Byte) /\ Len(raw) \in Nat
        /\ seqs[i] = Slice(cuts[b], cuts[c])
    <3>1. /\ cuts[b] \in Nat /\ cuts[c] \in Nat /\ Start(c) < cuts[c] /\ Start(c) \in Nat
          /\ cuts[c] <= Len(raw) /\ raw \in Seq(Byte) /\ Len(raw) \in Nat
          /\ recipe[c].digest = Slice(Start(c), cuts[c])
      <4>1. c \in 1 .. n
        BY <1>1
      <4> QED BY <1>1, <4>1, RecipeRight
    <3>2. Start(c) = cuts[c - 1]
      BY <1>1, RecipeRight
    <3>3. seqs[i] = recipe[c].digest
      BY <1>3, <2>1
    <3>4. Start(c) = cuts[b]
      BY <2>2, <3>2
    <3> QED BY <3>1, <3>3, <3>4
  <2>4. Start(first) \in Nat /\ Start(first) <= cuts[b]
    <3>1. first \in 1 .. n /\ (first = b \/ first < b)
      BY <1>3, <1>4, <2>2
    <3>2. /\ Start(first) \in Nat /\ cuts[first] \in Nat /\ Start(first) < cuts[first]
          /\ Start(b) \in Nat /\ Start(b) < cuts[b]
          /\ first < b => cuts[first] <= Start(b)
      BY <1>1, <2>2, <3>1, RecipeRight
    <3> QED BY <2>3, <3>1, <3>2
  <2>5. SubSeq(raw, Start(first) + 1, cuts[b]) \o SubSeq(raw, cuts[b] + 1, cuts[c])
          = SubSeq(raw, Start(first) + 1, cuts[c])
    <3>1. /\ Start(first) + 1 \in 1 .. Len(raw) + 1 /\ cuts[b] \in (Start(first) + 1) - 1 .. Len(raw)
          /\ cuts[c] \in cuts[b] .. Len(raw)
      <4>1. PICK at \in Nat, to \in Nat, past \in Nat, len \in Nat :
              at = Start(first) /\ to = cuts[b] /\ past = cuts[c] /\ len = Len(raw)
        BY <2>3, <2>4
      <4>2. at <= to /\ to <= past /\ past <= len
        BY <2>3, <2>4, <4>1
      <4>3. at + 1 \in 1 .. len + 1 /\ to \in (at + 1) - 1 .. len /\ past \in to .. len
        BY <4>2
      <4> QED BY <4>1, <4>3
    <3>2. PICK m \in 1 .. Len(raw) + 1 : m = Start(first) + 1
      BY <3>1
    <3>3. PICK e \in m - 1 .. Len(raw) : e = cuts[b]
      BY <3>1, <3>2
    <3>4. PICK to \in e .. Len(raw) : to = cuts[c]
      BY <3>1, <3>3
    <3>5. SubSeq(raw, m, e) \o SubSeq(raw, e + 1, to) = SubSeq(raw, m, to)
      <4>1. raw \in Seq(Byte)
        BY <2>3
      <4> QED BY <4>1, ConcatAdjacentSubSeq
    <3> QED BY <3>2, <3>3, <3>4, <3>5
  <2> QED BY <2>1, <2>2, <2>3, <2>5 DEF Slice
<1>5. Slice(Start(first), cuts[first + 1 - 1]) = seqs[1]
  <2>1. 1 \in 1 .. k /\ first + 1 - 1 = first
    BY <1>2, <1>3
  <2>2. seqs[1] = recipe[first].digest
    BY <1>3, <2>1
  <2>3. recipe[first].digest = Slice(Start(first), cuts[first])
    BY RecipeRight
  <2> QED BY <2>1, <2>2, <2>3
<1>6. Fits(spans)
  <2>1. ASSUME NEW i \in 1 .. k
        PROVE  spans[i] = IF i = 1 THEN seqs[i] ELSE spans[i - 1] \o seqs[i]
    <3>1. CASE i = 1
      BY <1>3, <1>5, <3>1
    <3>2. CASE i # 1
      <4>1. i - 1 \in 1 .. k
        BY <3>2
      <4> QED BY <1>3, <1>4, <3>2, <4>1
    <3> QED BY <3>1, <3>2
  <2>2. spans = [i \in 1 .. k |-> spans[i]]
    BY <1>3
  <2> HIDE DEF spans
  <2> QED BY <1>3, <2>1, <2>2
<1> DEFINE flat == CHOOSE f : Fits(f)
<1>7. FlattenSeq(seqs) = flat[k]
  BY <1>2, <1>3 DEF FlattenSeq
<1>8. Fits(flat)
  <2> HIDE DEF Fits
  <2> QED BY <1>6
<1>9. ASSUME NEW f, Fits(f) PROVE f[k] = spans[k]
  <2>1. \A i \in 1 .. k : f[i] = IF i = 1 THEN seqs[i] ELSE f[i - 1] \o seqs[i]
    BY <1>3, <1>9
  <2>2. \A i \in 1 .. k : spans[i] = IF i = 1 THEN seqs[i] ELSE spans[i - 1] \o seqs[i]
    <3> HIDE DEF spans
    <3> QED BY <1>3, <1>6
  <2> HIDE DEF Fits, spans
  <2> DEFINE S == {i \in 1 .. k : f[i] = spans[i]}
  <2>3. 1 \in S
    BY <1>2, <2>1, <2>2
  <2>4. ASSUME NEW i \in 1 .. k - 1, i \in S PROVE i + 1 \in S
    <3>1. ASSUME NEW c \in 1 .. k, c # 1, c - 1 = i PROVE f[c] = spans[c]
      <4>1. f[i] = spans[i]
        BY <2>4
      <4>2. f[c] = f[i] \o seqs[c] /\ spans[c] = spans[i] \o seqs[c]
        BY <2>1, <2>2, <3>1
      <4> QED BY <4>1, <4>2
    <3>2. i + 1 \in 1 .. k /\ i + 1 # 1 /\ (i + 1) - 1 = i
      OBVIOUS
    <3> QED BY <3>1, <3>2
  <2> HIDE DEF S
  <2>5. 1 .. k \subseteq S
    <3>1. 1 \in Nat
      OBVIOUS
    <3> QED BY <2>3, <2>4, <3>1, SpanSet
  <2> QED BY <1>2, <2>5 DEF S
<1>10. spans[k] = Slice(Start(first), cuts[last])
  <2>1. k \in 1 .. Len(seqs) /\ first + k - 1 = last
    BY <1>2, <1>3
  <2> QED BY <2>1
<1> HIDE DEF Fits, flat, spans
<1>11. flat[k] = spans[k]
  BY <1>8, <1>9
<1> QED BY <1>7, <1>10, <1>11

\* The chunk holds a byte of the file.
Touches(i, offset, size) ==
    \E j \in offset .. (offset + size - 1) : Start(i) <= j /\ j < cuts[i]

\* The searches of ExtractFile: the chunks of a file's bytes are those from the
\* first to the last.
LEMMA SearchRight ==
    ASSUME LayerInv, recipe # None, NEW offset \in Nat, NEW size \in Nat, 0 < size,
           NEW end, end = offset + size, end <= Len(raw),
           NEW low, low = FirstChunk(offset), NEW high, high = LastChunk(end)
    PROVE  /\ low \in 1 .. Len(cuts) /\ high \in low .. Len(cuts)
           /\ Start(low) <= offset /\ end <= cuts[high]
           /\ \A i : i \in low .. high <=> i \in 1 .. Len(cuts) /\ Touches(i, offset, size)
<1>1. PICK n \in Nat : n = Len(cuts)
  BY RecipeRight
<1>2. PICK past \in Nat : past = offset + size /\ offset < past /\ past <= Len(raw)
  OBVIOUS
<1>3. /\ \A i \in 1 .. n : /\ Start(i) \in Nat /\ cuts[i] \in Nat /\ Start(i) < cuts[i]
                           /\ \A j \in 1 .. n : i < j => cuts[i] <= Start(j)
                           /\ ChunkStarts[i] = Start(i)
                           /\ ChunkStarts[i] + recipe[i].size = cuts[i]
      /\ DOMAIN recipe = 1 .. n /\ Len(recipe) = n /\ Start(1) = 0
      /\ n > 0 => cuts[n] = Len(raw)
      /\ \A i \in 2 .. n : Start(i) = cuts[i - 1] /\ i - 1 \in 1 .. n
  <2>1. ASSUME NEW i \in 1 .. n PROVE ChunkStarts[i] = Start(i) /\ ChunkStarts[i] + recipe[i].size = cuts[i]
    <3>1. Start(i) \in Nat /\ cuts[i] \in Nat /\ recipe[i].size = cuts[i] - Start(i) /\ ChunkStarts[i] = Start(i)
      BY <1>1, RecipeRight, StartsRight
    <3> QED BY <3>1
  <2> QED BY <1>1, <2>1, RecipeRight
<1> DEFINE F == {i \in 1 .. n : cuts[i] > offset} \union {n + 1}
           L == {i \in 1 .. n : Start(i) >= past} \union {n + 1}
<1>4. low = Min(F) /\ high = Min(L) - 1
  <2>1. {i \in DOMAIN recipe : ChunkStarts[i] + recipe[i].size > offset} = {i \in 1 .. n : cuts[i] > offset}
    BY <1>3
  <2>2. {i \in DOMAIN recipe : ChunkStarts[i] >= past} = {i \in 1 .. n : Start(i) >= past}
    BY <1>3
  <2> QED BY <1>2, <1>3, <2>1, <2>2 DEF FirstChunk, LastChunk
<1>5. /\ low \in F /\ \A i \in F : low <= i
      /\ Min(L) \in L /\ \A i \in L : Min(L) <= i
  <2>1. F \subseteq Nat /\ F # {} /\ L \subseteq Nat /\ L # {}
    OBVIOUS
  <2> HIDE DEF F, L
  <2> QED BY <1>4, <2>1, MinRight
<1>6. PICK m \in 1 .. n + 1 : m = Min(L) /\ high = m - 1
  <2>1. L \subseteq 1 .. n + 1
    OBVIOUS
  <2> HIDE DEF L
  <2> QED BY <1>4, <1>5, <2>1
<1>7. /\ m = n + 1 \/ Start(m) >= past
      /\ \A i \in 1 .. n : Start(i) >= past => m <= i
      /\ \A i \in 1 .. n : cuts[i] > offset => low <= i
  BY <1>5, <1>6
<1>8. low \in 1 .. n /\ cuts[low] > offset
  <2>1. PICK i \in 1 .. n : Start(i) < offset + 1 /\ offset + 1 <= cuts[i]
    <3>1. offset + 1 \in Nat /\ 0 < offset + 1 /\ offset + 1 <= Len(raw)
      BY <1>2, RecipeRight
    <3> QED BY <1>1, <3>1, ChunkCovers
  <2>2. cuts[i] > offset
    BY <1>3, <2>1
  <2> QED BY <1>5, <2>2
<1> HIDE DEF F, L
<1>9. Start(low) <= offset
  <2>1. CASE low = 1
    BY <1>3, <2>1
  <2>2. CASE low # 1
    <3>1. PICK b \in 1 .. n : b = low - 1 /\ Start(low) = cuts[b]
      <4>1. low \in 2 .. n
        BY <1>8, <2>2
      <4> QED BY <1>3, <4>1
    <3>2. ~(cuts[b] > offset)
      BY <1>7, <1>8, <3>1
    <3> QED BY <1>3, <3>1, <3>2
  <2> QED BY <2>1, <2>2
<1>10. low < m
  <2>1. CASE m = n + 1
    BY <1>8, <2>1
  <2>2. CASE m \in 1 .. n
    <3>1. Start(m) >= past
      BY <1>7, <2>2
    <3>2. /\ Start(m) \in Nat /\ cuts[m] \in Nat /\ Start(m) < cuts[m] /\ Start(low) \in Nat
          /\ m < low => cuts[m] <= Start(low)
      BY <1>3, <1>8, <2>2
    <3>3. Start(low) < Start(m)
      BY <1>2, <1>9, <3>1, <3>2
    <3>4. ~(m < low) /\ m # low
      BY <3>2, <3>3
    <3> QED BY <1>8, <3>4
  <2> QED BY <2>1, <2>2
<1>11. high \in low .. n /\ high \in 1 .. n
  BY <1>6, <1>8, <1>10
<1>12. past <= cuts[high]
  <2>1. CASE m = n + 1
    BY <1>2, <1>3, <1>6, <1>8, <2>1
  <2>2. CASE m # n + 1
    <3>1. m \in 2 .. n /\ m - 1 = high /\ Start(m) >= past
      BY <1>6, <1>7, <1>8, <1>10, <2>2
    <3> QED BY <1>3, <3>1
  <2> QED BY <2>1, <2>2
<1>13. ASSUME NEW i \in low .. high
       PROVE  \E j \in offset .. (past - 1) : Start(i) <= j /\ j < cuts[i]
  <2>1. i \in 1 .. n /\ i < m
    BY <1>6, <1>8, <1>11
  <2>2. Start(i) < past
    BY <1>2, <1>3, <1>7, <2>1
  <2>3. cuts[i] > offset
    <3>1. i = low \/ low < i
      BY <1>8
    <3>2. low < i => cuts[low] <= Start(i)
      BY <1>3, <1>8, <2>1
    <3> QED BY <1>3, <1>8, <2>1, <3>1, <3>2
  <2>4. Start(i) \in Nat /\ cuts[i] \in Nat /\ Start(i) < cuts[i]
    BY <1>3, <2>1
  <2>5. CASE Start(i) <= offset
    BY <1>2, <2>3, <2>4, <2>5
  <2>6. CASE ~(Start(i) <= offset)
    BY <1>2, <2>2, <2>4, <2>6
  <2> QED BY <2>5, <2>6
<1>14. ASSUME NEW i \in 1 .. n, NEW j \in offset .. (past - 1), Start(i) <= j, j < cuts[i]
       PROVE  i \in low .. high
  <2>1. cuts[i] > offset /\ ~(Start(i) >= past)
    BY <1>2, <1>3, <1>14
  <2>2. low <= i
    BY <1>7, <2>1
  <2>3. i < m
    <3>1. CASE m = n + 1
      BY <3>1
    <3>2. CASE m \in 1 .. n
      <4>1. Start(m) >= past /\ m # i
        BY <1>7, <2>1, <3>2
      <4>2. /\ Start(m) \in Nat /\ cuts[m] \in Nat /\ Start(m) < cuts[m] /\ Start(i) \in Nat
            /\ m < i => cuts[m] <= Start(i)
        BY <1>3, <3>2
      <4>3. Start(i) < Start(m)
        BY <1>2, <2>1, <4>1, <4>2
      <4>4. ~(m < i)
        BY <4>2, <4>3
      <4> QED BY <3>2, <4>1, <4>4
    <3> QED BY <3>1, <3>2
  <2> QED BY <1>6, <1>8, <2>2, <2>3
<1>15. low .. high = {i \in 1 .. n : \E j \in offset .. (past - 1) : Start(i) <= j /\ j < cuts[i]}
  <2>1. low .. high \subseteq 1 .. n
    BY <1>8, <1>11
  <2> QED BY <1>13, <1>14, <2>1
<1> QED BY <1>1, <1>2, <1>8, <1>9, <1>11, <1>12, <1>15 DEF Touches

\* A chunk that cannot be fetched is spoilt: the recipe names none that is not there.
LEMMA FetchesRight ==
    ASSUME LayerInv, recipe # None, NEW i \in 1 .. Len(cuts)
    PROVE  /\ Fetches(recipe[i]) => Stored(recipe[i].digest) = recipe[i].digest
           /\ ~Fetches(recipe[i]) => spoilt # {}
BY RecipeRight DEF Fetches, Stored

\* What ExtractFile reads, and how many chunks it fetches.
LEMMA ExtractRight ==
    ASSUME LayerInv, NEW offset \in Nat, NEW size \in Nat, offset + size <= Len(raw),
           NEW answered \in BOOLEAN, ExtractFile(offset, size, answered)
    PROVE  /\ read'.op = "file" /\ read'.offset = offset /\ read'.size = size
           /\ read'.data \in {Slice(offset, offset + size), None}
           /\ read'.data = None => spoilt # {} \/ read'.faults
           /\ read'.fetched = {i \in DOMAIN recipe :
                \E j \in offset .. (offset + size - 1) :
                    ChunkStarts[i] <= j /\ j < ChunkStarts[i] + recipe[i].size}
           /\ ChunksFor(offset, size) = Cardinality(read'.fetched)
<1> DEFINE first == FirstChunk(offset)
           last  == LastChunk(offset + size)
           need  == first .. last
           span  == FlattenSeq([i \in 1 .. (last - first + 1) |-> Stored(recipe[first + i - 1].digest)])
           lo    == offset - ChunkStarts[first]
           fails == \/ offset + size > RecipeSize \/ need = {}
                    \/ ~answered \/ ~\A i \in need : Fetches(recipe[i])
           got   == IF size = 0 THEN <<>> ELSE IF fails THEN None ELSE SubSeq(span, lo + 1, lo + size)
           touched == {i \in DOMAIN recipe :
                \E j \in offset .. (offset + size - 1) :
                    ChunkStarts[i] <= j /\ j < ChunkStarts[i] + recipe[i].size}
<1>1. /\ recipe # None
      /\ read' = [op |-> "file", offset |-> offset, size |-> size, data |-> got,
                  fetched |-> IF size = 0 THEN {} ELSE need, faults |-> ~answered]
  BY DEF ExtractFile
<1>2. /\ raw \in Seq(Byte) /\ Len(raw) \in Nat /\ DOMAIN recipe = 1 .. Len(cuts) /\ None \notin Seq(Byte)
      /\ Len(cuts) \in Nat
  BY <1>1, RecipeRight, SizeAssumption
<1>3. touched = {i \in 1 .. Len(cuts) :
                   \E j \in offset .. (offset + size - 1) : Start(i) <= j /\ j < cuts[i]}
  <2>1. ASSUME NEW i \in 1 .. Len(cuts)
        PROVE  ChunkStarts[i] = Start(i) /\ ChunkStarts[i] + recipe[i].size = cuts[i]
    <3>1. Start(i) \in Nat /\ cuts[i] \in Nat /\ recipe[i].size = cuts[i] - Start(i) /\ ChunkStarts[i] = Start(i)
      BY <1>1, RecipeRight, StartsRight
    <3> QED BY <3>1
  <2> QED BY <1>2, <2>1
<1>4. CASE size = 0
  <2>1. got = <<>> /\ touched = {} /\ ChunksFor(offset, size) = 0
    <3>1. \A j \in offset .. (offset + size - 1) : FALSE
      BY <1>4
    <3>2. touched = {}
      BY <3>1
    <3>3. ChunksFor(offset, size) = 0
      BY <1>4 DEF ChunksFor
    <3> QED BY <1>4, <3>2, <3>3
  <2>2. Slice(offset, offset + size) = <<>>
    <3>1. offset + 1 \in Int /\ offset + size \in Int /\ offset + size < offset + 1
      BY <1>4
    <3> QED BY <3>1, SubSeqEmpty DEF Slice
  <2>3. <<>> # None
    BY <1>2, EmptySeq
  <2> HIDE DEF got, touched
  <2>4. read'.fetched = {} /\ read'.data = <<>>
    BY <1>1, <1>4, <2>1
  <2> QED BY <1>1, <2>1, <2>2, <2>3, <2>4, FS_EmptySet DEF touched
<1>5. CASE size > 0
  <2>1. /\ first \in 1 .. Len(cuts) /\ last \in first .. Len(cuts)
        /\ Start(first) <= offset /\ offset + size <= cuts[last]
        /\ need = touched
    <3>1. ASSUME NEW b, b = first, NEW e, e = last
          PROVE  /\ b \in 1 .. Len(cuts) /\ e \in b .. Len(cuts)
                 /\ Start(b) <= offset /\ offset + size <= cuts[e]
                 /\ \A i : i \in b .. e <=> i \in 1 .. Len(cuts) /\ Touches(i, offset, size)
      <4>1. PICK end \in Nat : end = offset + size
        OBVIOUS
      <4>2. b = FirstChunk(offset) /\ e = LastChunk(end) /\ 0 < size /\ recipe # None
        BY <1>1, <1>5, <3>1, <4>1
      <4> HIDE DEF first, last, touched
      <4> QED BY <4>1, <4>2, SearchRight
    <3>2. touched = {i \in 1 .. Len(cuts) : Touches(i, offset, size)}
      BY <1>3 DEF Touches
    <3> HIDE DEF first, last, touched
    <3> QED BY <3>1, <3>2
  <2> HIDE DEF first, last, touched
  <2>2. ChunksFor(offset, size) = Cardinality(need)
    <3>1. ChunksFor(offset, size) = last - first + 1
      BY <1>2, <1>5, <2>1 DEF ChunksFor, first, last
    <3>2. Cardinality(need) = last - first + 1
      BY <1>2, <2>1, FS_Interval
    <3> QED BY <3>1, <3>2
  <2>3. need # {} /\ ~(offset + size > RecipeSize) /\ \A i \in need : i \in 1 .. Len(cuts)
    <3>1. first \in need
      BY <1>2, <2>1
    <3>2. RecipeSize = Len(raw)
      BY <1>1, StartsRight
    <3>3. ~(offset + size > RecipeSize)
      BY <1>2, <3>2
    <3>4. \A i \in need : i \in 1 .. Len(cuts)
      BY <1>2, <2>1
    <3> QED BY <3>1, <3>3, <3>4
  <2>4. CASE ~answered \/ ~\A i \in need : Fetches(recipe[i])
    <3>1. got = None
      BY <1>5, <2>4
    <3>2. spoilt # {} \/ ~answered
      BY <1>1, <2>3, <2>4, FetchesRight
    <3>3. read'.faults = ~answered
      BY <1>1
    <3> HIDE DEF got
    <3>4. read'.op = "file" /\ read'.offset = offset /\ read'.size = size /\ read'.data = None
      BY <1>1, <3>1
    <3>5. read'.fetched = touched
      BY <1>1, <1>5, <2>1
    <3> QED BY <2>2, <2>1, <3>2, <3>3, <3>4, <3>5 DEF touched
  <2>5. CASE answered /\ \A i \in need : Fetches(recipe[i])
    <3>1. got = SubSeq(span, lo + 1, lo + size)
      <4>1. ~fails /\ size # 0
        <5> HIDE DEF need
        <5> QED BY <1>5, <2>3, <2>5
      <4> HIDE DEF span, lo, need, fails
      <4> QED BY <4>1
    <3>2. span = Slice(Start(first), cuts[last])
      <4> DEFINE seqs == [i \in 1 .. (last - first + 1) |-> recipe[first + i - 1].digest]
      <4>1. ASSUME NEW i \in 1 .. (last - first + 1)
            PROVE  Stored(recipe[first + i - 1].digest) = recipe[first + i - 1].digest
        <5>1. first + i - 1 \in need
          BY <1>2, <2>1
        <5> QED BY <1>1, <2>3, <2>5, <5>1, FetchesRight
      <4>2. span = FlattenSeq(seqs)
        BY <4>1
      <4>3. FlattenSeq(seqs) = Slice(Start(first), cuts[last])
        <5> HIDE DEF seqs
        <5> QED BY <1>1, <2>1, SpanRight DEF seqs
      <4> QED BY <4>2, <4>3
    <3>3. PICK from \in Nat, to \in Nat :
            /\ from = Start(first) /\ to = cuts[last] /\ from < to /\ to <= Len(raw)
            /\ lo = offset - from /\ from <= offset /\ offset + size <= to
      <4>1. last \in 1 .. Len(cuts) /\ Start(first) \in Nat /\ cuts[last] \in Nat
        BY <1>1, <1>2, <2>1, RecipeRight
      <4>2. Start(first) < cuts[last]
        BY <1>5, <2>1, <4>1
      <4>3. cuts[last] <= Len(raw) /\ ChunkStarts[first] = Start(first)
        BY <1>1, <2>1, <4>1, RecipeRight, StartsRight
      <4> QED BY <2>1, <4>1, <4>2, <4>3
    <3> HIDE DEF lo, span
    <3>4. SubSeq(Slice(from, to), lo + 1, lo + size) = Slice(offset, offset + size)
      <4>1. PICK d \in Nat : d = lo /\ from + d = offset
        BY <3>3
      <4>2. from < to /\ to <= Len(raw) /\ offset + size <= to
        BY <3>3
      <4>3. PICK i \in 1 .. Len(raw) : i = from + 1
        BY <1>2, <4>2
      <4>4. PICK m \in 1 .. to - i + 1, n \in 1 .. to - i + 1 : m = d + 1 /\ n = d + size
        <5>1. d + 1 \in 1 .. to - i + 1 /\ d + size \in 1 .. to - i + 1
          BY <1>5, <4>1, <4>2, <4>3
        <5> QED BY <5>1
      <4>5. to \in 1 .. Len(raw) /\ i + m - 1 = offset + 1 /\ i + n - 1 = offset + size
        BY <1>2, <1>5, <4>1, <4>2, <4>3, <4>4
      <4>6. SubSeq(SubSeq(raw, i, to), m, n) = SubSeq(raw, i + m - 1, i + n - 1)
        BY <1>2, <4>5, SubSeqOfSubSeq
      <4> QED BY <4>1, <4>3, <4>4, <4>5, <4>6 DEF Slice
    <3>5. got = Slice(offset, offset + size)
      <4> HIDE DEF got
      <4> QED BY <3>1, <3>2, <3>3, <3>4
    <3>6. Slice(offset, offset + size) # None
      <4>1. offset <= offset + size /\ offset + size \in Nat
        OBVIOUS
      <4>2. Slice(offset, offset + size) \in Seq(Byte)
        BY <1>2, <4>1, SliceRight
      <4> QED BY <1>2, <4>2
    <3> HIDE DEF got
    <3> QED BY <1>1, <1>5, <2>1, <2>2, <3>5, <3>6 DEF touched
  <2> QED BY <2>4, <2>5
<1> QED BY <1>4, <1>5

\* What a Fetch has put together so far: the bytes of the chunks that have landed.
Assembled ==
    /\ read.todo \subseteq 1 .. Len(cuts)
    /\ read.file = [j \in 1 .. Len(raw) |-> read.file[j]]
    /\ \A i \in 1 .. Len(cuts), j \in 1 .. Len(raw) :
         i \notin read.todo /\ Start(i) < j /\ j <= cuts[i] => read.file[j] = raw[j]

ReadInv ==
    /\ read # NoRead => recipe # None
    /\ read.op = "fetch" => Assembled
    /\ ReadsRight
    /\ FewestChunks

LEMMA NoReadRight == read = NoRead => ReadInv
BY DEF ReadInv, NoRead, ReadsRight, FewestChunks

\* What a layer is made of stays once its recipe is there: only readers move,
\* and objects are damaged.
LEMMA StoredStays ==
    ASSUME LayerInv, recipe # None, [Next]_vars
    PROVE  /\ UNCHANGED <<raw, cuts, recipe>> /\ spoilt \subseteq spoilt'
           /\ \/ read' = read
              \/ FetchBegin \/ FetchEnd \/ \E i \in DOMAIN worker, answered \in BOOLEAN : FetchChunk(i, answered)
              \/ \E offset, size \in 0 .. Len(raw), answered \in BOOLEAN :
                   offset + size <= Len(raw) /\ ExtractFile(offset, size, answered)
<1>1. pc = "stored" /\ \A i \in DOMAIN worker : worker[i] = "done"
  BY DEF LayerInv, LayerTyped, StoreInv
<1>2. ~Refill /\ ~ReadFails /\ ~Cut /\ ~Flush /\ ~Flushed /\ ~Wait
  BY <1>1 DEF Refill, ReadFails, Cut, Flush, Emit, Flushed, Wait
<1>3. /\ \A i \in DOMAIN worker : ~HeadChunk(i) /\ ~PutChunk(i) /\ ~WorkerFails(i)
      /\ \A ok \in BOOLEAN : ~WriteIndex(ok) /\ ~WriteRecipe(ok)
  BY <1>1 DEF HeadChunk, PutChunk, WorkerFails, WriteIndex, WriteRecipe
<1>4. CASE UNCHANGED vars
  BY <1>4 DEF vars
<1>5. CASE \E digest \in chunks : Damage(digest)
  BY <1>5 DEF Damage, splitter
<1>6. CASE \/ FetchBegin \/ FetchEnd \/ \E i \in DOMAIN worker, answered \in BOOLEAN : FetchChunk(i, answered)
           \/ \E offset, size \in 0 .. Len(raw), answered \in BOOLEAN :
                offset + size <= Len(raw) /\ ExtractFile(offset, size, answered)
  BY <1>6 DEF FetchBegin, FetchEnd, FetchChunk, ExtractFile, splitter, bucket
<1> QED BY <1>2, <1>3, <1>4, <1>5, <1>6 DEF Next

\* What is computed from the recipe stays with it.
LEMMA ReaderStays ==
    ASSUME UNCHANGED <<raw, cuts, recipe>>
    PROVE  /\ ChunkStarts' = ChunkStarts
           /\ \A offset, size : ChunksFor(offset, size)' = ChunksFor(offset, size)
           /\ \A from, to : Slice(from, to)' = Slice(from, to)
           /\ \A i : Start(i)' = Start(i)
<1>1. ChunkStarts' = ChunkStarts
  BY DEF ChunkStarts
<1>2. \A offset : FirstChunk(offset)' = FirstChunk(offset) /\ LastChunk(offset)' = LastChunk(offset)
  BY <1>1 DEF FirstChunk, LastChunk
<1>3. \A offset, size : ChunksFor(offset, size)' = ChunksFor(offset, size)
  BY <1>2 DEF ChunksFor
<1> QED BY <1>1, <1>3 DEF Slice, Start

LEMMA ReadStays ==
    ASSUME ReadInv, UNCHANGED <<raw, cuts, recipe, read>>, spoilt \subseteq spoilt'
    PROVE  ReadInv'
<1>1. ReadsRight'
  BY ReaderStays DEF ReadInv, ReadsRight
<1>2. FewestChunks'
  BY ReaderStays DEF ReadInv, FewestChunks
<1>3. read'.op = "fetch" => Assembled'
  BY ReaderStays DEF ReadInv, Assembled
<1> QED BY <1>1, <1>2, <1>3 DEF ReadInv, NoRead

LEMMA BeginRight ==
    ASSUME LayerInv, FetchBegin, UNCHANGED <<raw, cuts, recipe>>
    PROVE  ReadInv'
<1>1. /\ recipe # None
      /\ read' = [op |-> "fetch", todo |-> DOMAIN recipe, file |-> [i \in 1 .. RecipeSize |-> None]]
  BY DEF FetchBegin
<1>2. RecipeSize = Len(raw) /\ DOMAIN recipe = 1 .. Len(cuts)
  BY <1>1, StartsRight, RecipeRight
<1>3. Assembled'
  BY <1>1, <1>2 DEF Assembled
<1> QED BY <1>1, <1>3 DEF ReadInv, ReadsRight, FewestChunks

LEMMA EndRight ==
    ASSUME LayerInv, ReadInv, FetchEnd, UNCHANGED <<raw, cuts, recipe>>
    PROVE  ReadInv'
<1>1. /\ read.op = "fetch" /\ read.todo = {} /\ Assembled
      /\ read' = [op |-> "done", data |-> IF read.file = raw THEN read.file ELSE None, faults |-> FALSE]
  BY DEF FetchEnd, ReadInv
<1>2. recipe # None
  BY <1>1 DEF ReadInv, NoRead
<1>3. read.file = raw
  <2>1. \A j \in 1 .. Len(raw) : read.file[j] = raw[j]
    <3>1. ASSUME NEW j \in 1 .. Len(raw) PROVE read.file[j] = raw[j]
      <4>1. PICK i \in 1 .. Len(cuts) : Start(i) < j /\ j <= cuts[i]
        <5>1. j \in Nat /\ 0 < j /\ j <= Len(raw)
          BY <1>2, RecipeRight
        <5> QED BY <1>2, <5>1, ChunkCovers
      <4>2. i \notin read.todo
        BY <1>1
      <4> QED BY <1>1, <4>1, <4>2 DEF Assembled
    <3> QED BY <3>1
  <2>2. raw \in Seq(Byte)
    BY <1>2, RecipeRight
  <2>3. raw = [j \in 1 .. Len(raw) |-> raw[j]]
    BY <2>2
  <2>4. read.file = [j \in 1 .. Len(raw) |-> read.file[j]]
    BY <1>1 DEF Assembled
  <2> QED BY <2>1, <2>3, <2>4
<1>4. raw # None
  BY <1>2, RecipeRight, SizeAssumption
<1>5. read' = [op |-> "done", data |-> raw, faults |-> FALSE]
  BY <1>1, <1>3
<1> QED BY <1>2, <1>4, <1>5 DEF ReadInv, ReadsRight, FewestChunks

LEMMA ChunkRight ==
    ASSUME LayerInv, ReadInv, NEW i \in DOMAIN worker, NEW answered \in BOOLEAN, FetchChunk(i, answered),
           UNCHANGED <<raw, cuts, recipe, spoilt>>
    PROVE  ReadInv'
<1>1. read.op = "fetch" /\ i \in read.todo /\ Assembled
  BY DEF FetchChunk, ReadInv
<1>2. recipe # None /\ i \in 1 .. Len(cuts)
  BY <1>1 DEF ReadInv, NoRead, Assembled
<1>3. CASE ~(answered /\ Fetches(recipe[i]))
  <2>1. read' = [op |-> "done", data |-> None, faults |-> ~answered]
    BY <1>3 DEF FetchChunk
  <2>2. spoilt # {} \/ ~answered
    BY <1>2, <1>3, FetchesRight
  <2> QED BY <1>2, <2>1, <2>2 DEF ReadInv, ReadsRight, FewestChunks
<1>4. CASE answered /\ Fetches(recipe[i])
  <2>1. PICK start \in Nat, end \in Nat :
          /\ start = Start(i) /\ end = cuts[i] /\ start < end /\ end <= Len(raw)
          /\ ChunkStarts[i] = start /\ recipe[i].size = end - start
          /\ recipe[i].digest = Slice(start, end) /\ raw \in Seq(Byte)
    BY <1>2, RecipeRight, StartsRight
  <2>2. Stored(recipe[i].digest) = Slice(start, end)
    BY <1>2, <1>4, <2>1, FetchesRight
  <2> DEFINE file == [j \in 1 .. Len(raw) |->
                        IF j \in (start + 1) .. end THEN Slice(start, end)[j - start] ELSE read.file[j]]
  <2>3. read' = [op |-> "fetch", todo |-> read.todo \ {i}, file |-> file]
    <3>1. start + recipe[i].size = end
      BY <2>1
    <3>2. DOMAIN read.file = 1 .. Len(raw)
      BY <1>1 DEF Assembled
    <3>3. read' = [op |-> "fetch", todo |-> read.todo \ {i},
                   file |-> [j \in DOMAIN read.file |->
                               IF j \in (ChunkStarts[i] + 1) .. (ChunkStarts[i] + recipe[i].size)
                               THEN Stored(recipe[i].digest)[j - ChunkStarts[i]]
                               ELSE read.file[j]]]
      BY <1>4 DEF FetchChunk
    <3>4. ChunkStarts[i] = start
      BY <2>1
    <3> QED BY <2>2, <3>1, <3>2, <3>3, <3>4
  <2>4. ASSUME NEW j \in 1 .. Len(raw), start < j, j <= end PROVE file[j] = raw[j]
    <3>1. PICK k \in 1 .. end - start : k = j - start /\ start + k = j
      BY <2>4
    <3>2. Slice(start, end)[k] = raw[start + k]
      <4>1. raw \in Seq(Byte) /\ start <= end /\ end <= Len(raw)
        BY <2>1
      <4> QED BY <4>1, SliceRight
    <3>3. j \in (start + 1) .. end
      BY <2>4
    <3> QED BY <3>1, <3>2, <3>3
  <2>5. ASSUME NEW c \in 1 .. Len(cuts), NEW j \in 1 .. Len(raw), c \notin read.todo \ {i},
               Start(c) < j, j <= cuts[c]
        PROVE  file[j] = raw[j]
    <3>1. CASE start < j /\ j <= end
      BY <2>4, <3>1
    <3>2. CASE ~(start < j /\ j <= end)
      <4>1. c # i
        BY <2>1, <2>5, <3>2
      <4>2. read.file[j] = raw[j]
        BY <1>1, <2>5, <4>1 DEF Assembled
      <4>3. j \notin (start + 1) .. end
        BY <3>2
      <4> QED BY <4>2, <4>3
    <3> QED BY <3>1, <3>2
  <2>6. file = [j \in 1 .. Len(raw) |-> file[j]]
    OBVIOUS
  <2>7. read.todo \ {i} \subseteq 1 .. Len(cuts)
    BY <1>1 DEF Assembled
  <2> HIDE DEF file
  <2>8. Assembled'
    BY <2>3, <2>5, <2>6, <2>7, ReaderStays DEF Assembled
  <2> QED BY <1>2, <2>3, <2>8 DEF ReadInv, ReadsRight, FewestChunks
<1> QED BY <1>3, <1>4

LEMMA FileRight ==
    ASSUME LayerInv, NEW offset \in Nat, NEW size \in Nat, offset + size <= Len(raw),
           NEW answered \in BOOLEAN, ExtractFile(offset, size, answered),
           UNCHANGED <<raw, cuts, recipe, spoilt>>
    PROVE  ReadInv'
<1>1. /\ read'.op = "file" /\ read'.offset = offset /\ read'.size = size
      /\ read'.data \in {Slice(offset, offset + size), None}
      /\ read'.data = None => spoilt # {} \/ read'.faults
      /\ read'.fetched = {i \in DOMAIN recipe :
           \E j \in offset .. (offset + size - 1) :
               ChunkStarts[i] <= j /\ j < ChunkStarts[i] + recipe[i].size}
      /\ ChunksFor(offset, size) = Cardinality(read'.fetched)
  BY ExtractRight
<1>2. recipe # None
  BY DEF ExtractFile
<1>3. ReadsRight'
  BY <1>1, ReaderStays DEF ReadsRight
<1>4. FewestChunks'
  BY <1>1, ReaderStays DEF FewestChunks
<1> QED BY <1>1, <1>2, <1>3, <1>4 DEF ReadInv

LEMMA ReadInvNext == LayerInv /\ ReadInv /\ [Next]_vars => ReadInv'
<1> SUFFICES ASSUME LayerInv, ReadInv, [Next]_vars PROVE ReadInv'
  OBVIOUS
<1>1. CASE recipe = None
  <2>1. read = NoRead
    BY <1>1 DEF ReadInv
  <2>2. read' = NoRead
    BY <1>1, <2>1 DEF Next, vars, Refill, ReadFails, Cut, Flush, Emit, Flushed, Wait, HeadChunk, PutChunk,
      WorkerFails, WriteIndex, WriteRecipe, FetchBegin, FetchEnd, FetchChunk, ExtractFile, Damage, NoRead
  <2>3. (read = NoRead => ReadInv)'
    BY NoReadRight, PTL
  <2> QED BY <2>2, <2>3 DEF NoRead
<1>2. CASE recipe # None
  <2>1. /\ UNCHANGED <<raw, cuts, recipe>> /\ spoilt \subseteq spoilt'
        /\ \/ read' = read
           \/ FetchBegin \/ FetchEnd \/ \E i \in DOMAIN worker, answered \in BOOLEAN : FetchChunk(i, answered)
           \/ \E offset, size \in 0 .. Len(raw), answered \in BOOLEAN :
                offset + size <= Len(raw) /\ ExtractFile(offset, size, answered)
    BY <1>2, StoredStays
  <2>2. CASE read' = read
    BY <2>1, <2>2, ReadStays
  <2>3. CASE FetchBegin
    BY <2>1, <2>3, BeginRight
  <2>4. CASE FetchEnd
    BY <2>1, <2>4, EndRight
  <2>5. ASSUME NEW i \in DOMAIN worker, NEW answered \in BOOLEAN, FetchChunk(i, answered)
        PROVE  ReadInv'
    BY <2>1, <2>5, ChunkRight DEF FetchChunk, bucket
  <2>6. ASSUME NEW offset \in 0 .. Len(raw), NEW size \in 0 .. Len(raw),
               offset + size <= Len(raw), NEW answered \in BOOLEAN, ExtractFile(offset, size, answered)
        PROVE  ReadInv'
    <3>1. spoilt' = spoilt
      BY <2>6 DEF ExtractFile, bucket
    <3>2. offset \in Nat /\ size \in Nat
      OBVIOUS
    <3> QED BY <2>1, <2>6, <3>1, <3>2, FileRight
  <2> QED BY <2>1, <2>2, <2>3, <2>4, <2>5, <2>6
<1> QED BY <1>1, <1>2

LEMMA ReadInvAlways == Spec => [](LayerInv /\ ReadInv)
<1>1. Init => ReadInv
  BY NoReadRight DEF Init
<1> QED BY <1>1, LayerInvInit, LayerInvNext, ReadInvNext, PTL DEF Spec

\* A layer put together, or a file read out of it, is what was stored or an
\* error, and there is an error only where an object has been damaged (Fetch,
\* ExtractFile), in whatever order the chunks land.
THEOREM ReadsWhatWasStored == Spec => []ReadsRight
<1>1. ReadInv => ReadsRight
  BY DEF ReadInv
<1> QED BY <1>1, ReadInvAlways, PTL

\* A file's read fetches the chunks its bytes lie in and no other, and as many
\* as cat reports (ExtractFile, ChunksFor), wherever the chunks were cut.
THEOREM FetchesFewestChunks == Spec => []FewestChunks
<1>1. ReadInv => FewestChunks
  BY DEF ReadInv
<1> QED BY <1>1, ReadInvAlways, PTL

-----------------------------------------------------------------------------
(* FileRead: the container and its layers.                                 *)

Shows(node) == node.kind \in {"file", "link", "hard"}

\* Directories stand above everything, and nothing else does.
Tree(f) ==
    \A p \in Path :
        /\ f[p] # Absent => \A q \in Above(p) : f[q] = Dir
        /\ f[p] = Dir => Inner(p)
        /\ Inner(p) => ~Shows(f[p])

FileTyped ==
    /\ base \in [Path -> Node] /\ fs \in [Path -> Node]
    /\ Tree(base) /\ Tree(fs)
    /\ renewed \subseteq {p \in Path : Inner(p)}
    /\ layers \in Seq(Layer)

Hides(p, i) == WhiteoutsFor(p) \cap layers[i].marks # {}

\* A layer has what the container sees at p, and no layer above it says otherwise.
Kept(p) ==
    \E i \in 1 .. Len(layers) :
        /\ layers[i].entry[p] = base[p]
        /\ \A j \in i + 1 .. Len(layers) : ~Shows(layers[j].entry[p]) /\ ~Hides(p, j)

\* Whatever a layer has at p, a layer above it hides.
Lost(p) ==
    \A i \in 1 .. Len(layers) :
        Shows(layers[i].entry[p]) => \E j \in i + 1 .. Len(layers) : Hides(p, j)

NoHardLink == \A i \in DOMAIN layers, p \in Path : layers[i].entry[p].kind # "hard"

LayersInStep ==
    NoHardLink => \A p \in Path : IF Shows(base[p]) THEN Kept(p) ELSE Lost(p)

FileInv == FileTyped /\ LayersInStep

LEMMA PrefixRight ==
    ASSUME NEW s \in Seq(STRING), NEW t \in Seq(STRING)
    PROVE  IsPrefix(s, t) <=> Len(s) <= Len(t) /\ \A i \in 1 .. Len(s) : s[i] = t[i]
<1>1. CASE Len(s) <= Len(t)
  <2> DEFINE a == SubSeq(s, 1, Len(s))
             b == SubSeq(t, 1, Len(s))
  <2>1. a \in Seq(STRING) /\ Len(a) = Len(s) /\ \A i \in 1 .. Len(s) : a[i] = s[i]
    OBVIOUS
  <2>2. b \in Seq(STRING) /\ Len(b) = Len(s) /\ \A i \in 1 .. Len(s) : b[i] = t[i]
    BY <1>1
  <2>3. a = b <=> \A i \in 1 .. Len(s) : a[i] = b[i]
    <3> HIDE DEF a, b
    <3>1. ASSUME \A i \in 1 .. Len(s) : a[i] = b[i] PROVE a = b
      BY <2>1, <2>2, <3>1, SeqEqual
    <3> QED BY <3>1
  <2>4. IsPrefix(s, t) <=> a = b
    BY <1>1 DEF IsPrefix
  <2> QED BY <1>1, <2>1, <2>2, <2>3, <2>4
<1>2. CASE ~(Len(s) <= Len(t))
  BY <1>2 DEF IsPrefix
<1> QED BY <1>1, <1>2

LEMMA AboveChain ==
    ASSUME NEW r \in Seq(STRING), NEW q \in Seq(STRING), NEW p \in Seq(STRING),
           IsPrefix(r, q), IsPrefix(q, p)
    PROVE  IsPrefix(r, p)
<1>1. /\ Len(r) <= Len(q) /\ \A i \in 1 .. Len(r) : r[i] = q[i]
      /\ Len(q) <= Len(p) /\ \A i \in 1 .. Len(q) : q[i] = p[i]
  BY PrefixRight
<1>2. Len(r) \in Nat /\ Len(q) \in Nat /\ Len(p) \in Nat
  OBVIOUS
<1>3. Len(r) <= Len(p) /\ \A i \in 1 .. Len(r) : r[i] = p[i]
  BY <1>1, <1>2
<1> QED BY <1>3, PrefixRight

\* What is above what is above a path is above it, and what is above a path is
\* a directory's.
LEMMA AboveRight ==
    ASSUME NEW p \in Seq(STRING)
    PROVE  /\ Above(p) \subseteq Path
           /\ \A q \in Above(p) : q # p /\ Above(q) \subseteq Above(p)
           /\ p \in Path => \A q \in Above(p) : Inner(q)
<1>1. Path \subseteq Seq(STRING)
  BY PathAssumption
<1>2. Above(p) \subseteq Path
  BY DEF Above
<1>3. ASSUME NEW q \in Above(p), NEW r \in Above(q) PROVE r \in Above(p)
  <2>1. q \in Seq(STRING) /\ r \in Seq(STRING) /\ r \in Path
    BY <1>1, <1>3 DEF Above
  <2>2. Len(r) < Len(q) /\ Len(q) < Len(p) /\ IsPrefix(r, q) /\ IsPrefix(q, p)
    BY <1>3 DEF Above
  <2>3. Len(r) \in Nat /\ Len(q) \in Nat /\ Len(p) \in Nat
    BY <2>1
  <2>4. IsPrefix(r, p)
    BY <2>1, <2>2, AboveChain
  <2>5. Len(r) < Len(p)
    BY <2>2, <2>3
  <2> QED BY <2>1, <2>4, <2>5 DEF Above
<1>4. ASSUME NEW q \in Above(p) PROVE q # p
  <2>1. Len(q) < Len(p) /\ Len(p) \in Nat
    BY DEF Above
  <2> QED BY <2>1
<1>5. ASSUME p \in Path, NEW q \in Above(p) PROVE Inner(q)
  BY <1>5 DEF Above, Inner
<1> QED BY <1>2, <1>3, <1>4, <1>5

LEMMA NodeKinds ==
    ASSUME NEW node \in Node
    PROVE  /\ node = Absent <=> node.kind = "absent"
           /\ node = Dir <=> node.kind = "dir"
           /\ ~Shows(node) <=> node \in {Absent, Dir}
           /\ node.kind # "hard"
           /\ node.kind = "link" => node.to \in Target
<1>1. CASE node = Absent
  BY <1>1 DEF Absent, Dir, Shows
<1>2. CASE node = Dir
  BY <1>2 DEF Absent, Dir, Shows
<1>3. CASE \E c \in Content : node = File(c)
  <2>1. node.kind = "file"
    BY <1>3 DEF File
  <2> QED BY <2>1 DEF Absent, Dir, Shows
<1>4. CASE \E t \in Target : node = Link(t)
  <2>1. node.kind = "link" /\ node.to \in Target
    BY <1>4 DEF Link
  <2> QED BY <2>1 DEF Absent, Dir, Shows
<1> QED BY <1>1, <1>2, <1>3, <1>4 DEF Node

LEMMA NodeOfKind ==
    /\ Absent \in Node /\ Dir \in Node /\ ~Shows(Absent) /\ ~Shows(Dir)
    /\ \A c \in Content : File(c) \in Node /\ Shows(File(c)) /\ File(c) # Dir /\ File(c) # Absent
    /\ \A t \in Target : Link(t) \in Node /\ Shows(Link(t)) /\ Link(t) # Dir /\ Link(t) # Absent
<1>1. /\ Absent \in Node /\ Dir \in Node
      /\ \A c \in Content : File(c) \in Node
      /\ \A t \in Target : Link(t) \in Node
  BY DEF Node
<1>2. Absent.kind = "absent" /\ Dir.kind = "dir"
  BY DEF Absent, Dir
<1>3. \A c \in Content : File(c).kind = "file"
  BY DEF File
<1>4. \A t \in Target : Link(t).kind = "link"
  BY DEF Link
<1> QED BY <1>1, <1>2, <1>3, <1>4, NodeKinds DEF Shows

\* A build keeps the container in order.
LEMMA PlaceKeeps ==
    ASSUME ~Mixed, FileTyped, NEW p \in Path, NEW node \in Node, Shows(node), Place(p, node)
    PROVE  fs' \in [Path -> Node] /\ Tree(fs') /\ renewed' \subseteq {q \in Path : Inner(q)}
<1> DEFINE made == {q \in Above(p) : fs[q].kind # "dir"}
<1>1. /\ fs \in [Path -> Node] /\ Tree(fs) /\ renewed \subseteq {q \in Path : Inner(q)}
      /\ ~Inner(p) /\ p \in Seq(STRING)
      /\ \A q \in Above(p) : fs[q].kind \in {"absent", "dir"}
  BY PathAssumption DEF FileTyped, Place
<1>2. fs' = [q \in Path |-> IF q = p THEN node ELSE IF q \in made THEN Dir ELSE fs[q]]
  BY DEF Place
<1>3. fs' \in [Path -> Node]
  BY <1>1, <1>2, NodeOfKind
<1>4. Above(p) \subseteq Path /\ p \notin Above(p) /\ \A q \in Above(p) : Inner(q) /\ Above(q) \subseteq Above(p)
  BY <1>1, AboveRight
<1>5. \A q \in Above(p) : fs'[q] = Dir
  <2> TAKE q \in Above(p)
  <2>1. q \in Path /\ q # p /\ fs[q] \in Node
    BY <1>1, <1>4
  <2> QED BY <1>2, <2>1, NodeKinds
<1>6. ASSUME NEW x \in Path, fs'[x] # Absent, NEW q \in Above(x) PROVE fs'[q] = Dir
  <2>1. CASE x = p
    BY <1>5, <1>6, <2>1
  <2>2. CASE x \in Above(p)
    BY <1>4, <1>5, <1>6, <2>2
  <2>3. CASE x # p /\ x \notin Above(p)
    <3>1. fs[x] # Absent
      BY <1>2, <1>6, <2>3
    <3>2. fs[q] = Dir /\ q \in Path /\ Inner(q)
      <4>1. x \in Seq(STRING)
        BY PathAssumption
      <4> QED BY <1>1, <1>6, <3>1, <4>1, AboveRight DEF Tree
    <3>3. q # p
      BY <1>1, <3>2
    <3> QED BY <1>2, <3>2, <3>3
  <2> QED BY <2>1, <2>2, <2>3
<1>7. ASSUME NEW x \in Path PROVE (fs'[x] = Dir => Inner(x)) /\ (Inner(x) => ~Shows(fs'[x]))
  <2>1. CASE x = p
    BY <1>1, <1>2, <2>1, NodeOfKind
  <2>2. CASE x \in made
    <3>1. fs'[x] = Dir /\ Inner(x)
      BY <1>4, <1>5, <2>2
    <3> QED BY <3>1, NodeOfKind
  <2>3. CASE x # p /\ x \notin made
    <3>1. fs'[x] = fs[x]
      BY <1>2, <2>3
    <3> QED BY <1>1, <3>1 DEF Tree
  <2> QED BY <2>1, <2>2, <2>3
<1>8. renewed' \subseteq {q \in Path : Inner(q)}
  BY <1>1, <1>4 DEF Place
<1> QED BY <1>3, <1>6, <1>7, <1>8 DEF Tree

LEMMA RemoveKeeps ==
    ASSUME FileTyped, NEW p \in Path, RemoveAll(p)
    PROVE  fs' \in [Path -> Node] /\ Tree(fs') /\ renewed' \subseteq {q \in Path : Inner(q)}
<1>1. /\ fs \in [Path -> Node] /\ Tree(fs) /\ renewed \subseteq {q \in Path : Inner(q)}
      /\ Path \subseteq Seq(STRING)
  BY PathAssumption DEF FileTyped
<1>2. fs' = [q \in Path |-> IF q \in Under(p) THEN Absent ELSE fs[q]]
  BY DEF RemoveAll
<1>3. fs' \in [Path -> Node]
  BY <1>1, <1>2, NodeOfKind
<1>4. ASSUME NEW x \in Path, fs'[x] # Absent, NEW q \in Above(x) PROVE fs'[q] = Dir
  <2>1. x \notin Under(p) /\ fs[x] # Absent
    BY <1>2, <1>4
  <2>2. fs[q] = Dir /\ q \in Path /\ q \in Seq(STRING) /\ x \in Seq(STRING) /\ p \in Seq(STRING)
    BY <1>1, <1>4, <2>1, AboveRight DEF Tree
  <2>3. IsPrefix(q, x)
    BY <1>4 DEF Above
  <2>4. q \notin Under(p)
    BY <2>1, <2>2, <2>3, AboveChain DEF Under
  <2> QED BY <1>2, <2>2, <2>4
<1>5. ASSUME NEW x \in Path PROVE (fs'[x] = Dir => Inner(x)) /\ (Inner(x) => ~Shows(fs'[x]))
  <2>1. fs'[x] \in {Absent, fs[x]}
    BY <1>2
  <2>2. Absent # Dir /\ ~Shows(Absent)
    BY NodeOfKind DEF Absent, Dir
  <2> QED BY <1>1, <2>1, <2>2 DEF Tree
<1>6. renewed' \subseteq {q \in Path : Inner(q)}
  BY <1>1 DEF RemoveAll
<1> QED BY <1>3, <1>4, <1>5, <1>6 DEF Tree

\* The markers of a commit that bear on p, and why they are there.
LEMMA MarksRight ==
    ASSUME FileTyped, NEW p \in Path, NEW style \in {"gone", "opaque"}
    PROVE  /\ Markers(style) \subseteq Marker
           /\ Above(p) \cap renewed # {} => WhiteoutsFor(p) \cap Markers(style) # {}
           /\ \A q \in {p} \union Above(p) :
                base[q] # Absent /\ fs[q] = Absent /\ (\A r \in Above(q) : fs[r] = Dir /\ r \notin renewed)
                    => WhiteoutsFor(p) \cap Markers(style) # {}
           /\ WhiteoutsFor(p) \cap Markers(style) # {} =>
                \E q \in {p} \union Above(p) : q \in renewed \/ fs[q] = Absent
<1> DEFINE gone == {q \in Path : /\ base[q] # Absent /\ fs[q] = Absent
                                 /\ \A r \in Above(q) : fs[r].kind = "dir" /\ r \notin renewed}
           new == {[mark |-> style, path |-> r] : r \in renewed}
<1>1. Markers(style) = {Whiteout(q) : q \in gone} \union new
  BY DEF Markers
<1>2. Above(p) \subseteq Path /\ renewed \subseteq Path /\ fs \in [Path -> Node]
  BY PathAssumption, AboveRight DEF FileTyped
<1>3. \A r : [mark |-> style, path |-> r] \in {Whiteout(r), Opaque(r)}
  BY DEF Whiteout, Opaque
<1>4. \A q \in {p} \union Above(p) : Whiteout(q) \in WhiteoutsFor(p)
  BY DEF WhiteoutsFor
<1>5. \A q \in Above(p) : Opaque(q) \in WhiteoutsFor(p)
  BY DEF WhiteoutsFor
<1>6. \A m \in WhiteoutsFor(p) : m.path \in {p} \union Above(p)
  BY DEF WhiteoutsFor, Whiteout, Opaque
<1>7. Markers(style) \subseteq Marker
  <2>1. \A q \in Path : Whiteout(q) \in Marker /\ Opaque(q) \in Marker
    BY DEF Marker
  <2> QED BY <1>1, <1>2, <1>3, <2>1
<1>8. ASSUME NEW r \in Above(p) \cap renewed PROVE WhiteoutsFor(p) \cap Markers(style) # {}
  <2>1. [mark |-> style, path |-> r] \in Markers(style)
    BY <1>1
  <2> QED BY <1>3, <1>4, <1>5, <2>1
<1>9. ASSUME NEW q \in {p} \union Above(p), base[q] # Absent, fs[q] = Absent,
             \A r \in Above(q) : fs[r] = Dir /\ r \notin renewed
      PROVE  WhiteoutsFor(p) \cap Markers(style) # {}
  <2>1. Dir.kind = "dir"
    BY DEF Dir
  <2>2. q \in gone
    BY <1>2, <1>9, <2>1
  <2> QED BY <1>1, <1>4, <2>2
<1>10. ASSUME NEW m \in WhiteoutsFor(p) \cap Markers(style)
       PROVE  \E q \in {p} \union Above(p) : q \in renewed \/ fs[q] = Absent
  <2>1. m.path \in {p} \union Above(p)
    BY <1>6
  <2>2. m.path \in renewed \/ fs[m.path] = Absent
    BY <1>1 DEF Whiteout
  <2> QED BY <2>1, <2>2
<1> QED BY <1>7, <1>8, <1>9, <1>10

\* What stood in the last image and is gone is hidden by a marker of its own, or of
\* the topmost directory above it that is gone or was made anew.
LEMMA GoneIsHidden ==
    ASSUME FileTyped, NEW p \in Path, NEW style \in {"gone", "opaque"},
           base[p] # Absent, fs[p] = Absent
    PROVE  WhiteoutsFor(p) \cap Markers(style) # {}
<1> DEFINE lost == {q \in {p} \union Above(p) : fs[q] = Absent}
           T == {Len(q) : q \in lost}
<1>1. CASE Above(p) \cap renewed # {}
  BY <1>1, MarksRight
<1>2. CASE Above(p) \cap renewed = {}
  <2>1. Path \subseteq Seq(STRING) /\ Above(p) \subseteq Path
    BY PathAssumption, AboveRight
  <2>2. lost \subseteq Path /\ p \in lost
    BY <2>1
  <2>3. T \subseteq Nat /\ T # {}
    <3>1. \A q \in lost : Len(q) \in Nat
      BY <2>1, <2>2
    <3> QED BY <2>2, <3>1
  <2>4. PICK n \in T : \A k \in T : ~(k < n)
    <3> HIDE DEF T
    <3> QED BY <2>3, Least
  <2>5. PICK q \in lost : Len(q) = n
    OBVIOUS
  <2>6. \A r \in Above(q) : Len(r) < Len(q) /\ r \in Above(p)
    <3>1. Above(q) \subseteq Above(p)
      BY <2>1, AboveRight
    <3> QED BY <3>1 DEF Above
  <2>7. \A r \in Above(q) : r \notin lost
    BY <2>4, <2>5, <2>6
  <2>8. \A r \in Above(q) : base[r] = Dir
    BY <2>6 DEF FileTyped, Tree
  <2>9. base[q] # Absent
    <3>1. q # p => base[q] = Dir
      BY DEF FileTyped, Tree
    <3> QED BY <3>1 DEF Absent, Dir
  <2>10. \A r \in Above(q) : fs[r] = Dir
    <3> TAKE r \in Above(q)
    <3>1. fs[r] # Absent /\ r \in Path /\ Inner(r)
      BY <2>1, <2>2, <2>6, <2>7, AboveRight
    <3>2. fs[r] \in Node /\ ~Shows(fs[r])
      BY <3>1 DEF FileTyped, Tree
    <3> QED BY <3>1, <3>2, NodeKinds
  <2>11. \A r \in Above(q) : r \notin renewed
    BY <1>2, <2>6
  <2> QED BY <2>9, <2>10, <2>11, MarksRight
<1> QED BY <1>1, <1>2

\* What a layer records of a path.
LEMMA TarEntryRight ==
    ASSUME FileTyped, NEW p \in Path
    PROVE  /\ TarEntry(p) \in Entry
           /\ p \notin Recorded => TarEntry(p) = Absent
           /\ TarEntry(p).kind # "hard" => TarEntry(p) \in {Absent, fs[p]}
           /\ p \in Recorded /\ TarEntry(p).kind # "hard" => TarEntry(p) = fs[p]
<1> DEFINE names == {q \in Recorded : fs[q] = fs[p]}
           first == FirstName(names)
<1>1. fs[p] \in Node /\ Absent \in Entry /\ fs[p] \in Entry
  BY NodeOfKind DEF FileTyped, Entry
<1>2. Hard(first).kind = "hard"
  BY DEF Hard
<1>3. CASE p \notin Recorded
  <2>1. TarEntry(p) = Absent
    BY <1>3 DEF TarEntry
  <2> QED BY <1>1, <1>3, <2>1
<1>4. CASE p \in Recorded /\ fs[p].kind = "file" /\ p # first
  <2>1. TarEntry(p) = Hard(first)
    BY <1>4 DEF TarEntry
  <2>2. p \in names /\ names \subseteq Path
    BY <1>4 DEF Recorded
  <2>3. \E q \in names : names \ LinkNames # {} => q \notin LinkNames
    BY <2>2
  <2>4. first \in names
    <3> HIDE DEF names
    <3> QED BY <2>3 DEF FirstName
  <2>5. Hard(first) \in Entry
    BY <2>2, <2>4 DEF Entry
  <2> QED BY <1>2, <1>4, <2>1, <2>5
<1>5. CASE p \in Recorded /\ ~(fs[p].kind = "file" /\ p # first)
  <2>1. TarEntry(p) = fs[p]
    BY <1>5 DEF TarEntry
  <2> QED BY <1>1, <1>5, <2>1
<1> QED BY <1>3, <1>4, <1>5

\* A commit keeps the layers in step with what the container sees.
LEMMA CommitKeeps ==
    ASSUME FileInv, Commit
    PROVE  FileInv'
<1> PICK n \in Nat : n = Len(layers)
  BY DEF FileInv, FileTyped
<1>1. PICK style \in {"gone", "opaque"}, compressed \in BOOLEAN :
         layers' = Append(layers, [entry |-> [p \in Path |-> TarEntry(p)],
                                   marks |-> Markers(style), compressed |-> compressed])
  BY DEF Commit
<1>2. PICK lay : /\ lay = [entry |-> [p \in Path |-> TarEntry(p)],
                           marks |-> Markers(style), compressed |-> compressed]
                 /\ layers' = Append(layers, lay)
  BY <1>1
<1>3. base' = fs /\ fs' = fs /\ renewed' = {}
  BY DEF Commit
<1>4. FileTyped
  BY DEF FileInv
<1>5. lay \in Layer
  <2>1. [p \in Path |-> TarEntry(p)] \in [Path -> Entry]
    BY <1>4, TarEntryRight
  <2>2. Markers(style) \in SUBSET Marker
    <3>1. CASE Path = {}
      <4>1. Markers(style) = {}
        BY <1>4, <3>1 DEF Markers, FileTyped
      <4> QED BY <4>1
    <3>2. CASE Path # {}
      BY <1>4, <3>2, MarksRight
    <3> QED BY <3>1, <3>2
  <2> QED BY <1>2, <2>1, <2>2 DEF Layer
<1>6. /\ n \in Nat /\ Len(layers') = n + 1 /\ layers' \in Seq(Layer)
      /\ layers'[n + 1] = lay
      /\ \A i \in 1 .. n : layers'[i] = layers[i]
  BY <1>2, <1>4, <1>5 DEF FileTyped
<1>7. lay.marks = Markers(style) /\ \A p \in Path : lay.entry[p] = TarEntry(p)
  BY <1>2
<1>8. FileTyped'
  BY <1>3, <1>4, <1>6 DEF FileTyped, Tree
<1>9. ASSUME NoHardLink', NEW p \in Path
      PROVE  IF Shows(fs[p]) THEN Kept(p)' ELSE Lost(p)'
  <2>1. NoHardLink
    <3>1. \A i \in 1 .. n : layers'[i].entry[p].kind # "hard"
      BY <1>6, <1>9 DEF NoHardLink
    <3> QED BY <1>6, <1>9 DEF NoHardLink
  <2>2. IF Shows(base[p]) THEN Kept(p) ELSE Lost(p)
    BY <2>1 DEF FileInv, LayersInStep
  <2>3. /\ TarEntry(p) \in {Absent, fs[p]}
        /\ p \in Recorded => TarEntry(p) = fs[p]
        /\ p \notin Recorded => TarEntry(p) = Absent
    <3>1. TarEntry(p).kind # "hard"
      BY <1>6, <1>7, <1>9 DEF NoHardLink
    <3> QED BY <1>4, <3>1, TarEntryRight
  <2>4. p \in Path /\ fs[p] \in Node /\ base[p] \in Node /\ ~Shows(Absent)
    BY <1>4, NodeOfKind DEF FileTyped
  <2>5. \A i \in 1 .. n : Hides(p, i)' <=> Hides(p, i)
    BY <1>6 DEF Hides
  <2>6. Hides(p, n + 1)' <=> WhiteoutsFor(p) \cap Markers(style) # {}
    BY <1>6, <1>7 DEF Hides
  <2>7. CASE Shows(fs[p]) /\ p \in Recorded
    <3>1. layers'[n + 1].entry[p] = base'[p]
      BY <1>3, <1>6, <1>7, <2>3, <2>7
    <3>2. n + 1 \in 1 .. Len(layers') /\ (n + 1) + 1 .. Len(layers') = {}
      BY <1>6
    <3> QED BY <2>7, <3>1, <3>2 DEF Kept
  <2>8. CASE Shows(fs[p]) /\ p \notin Recorded
    <3>1. fs[p] = base[p] /\ Above(p) \cap renewed = {} /\ fs[p] # Absent
      BY <2>4, <2>8 DEF Recorded
    <3>2. PICK i \in 1 .. n : /\ layers[i].entry[p] = base[p]
                              /\ \A j \in i + 1 .. n : ~Shows(layers[j].entry[p]) /\ ~Hides(p, j)
      BY <2>2, <2>8, <3>1 DEF Kept
    <3>3. ~Hides(p, n + 1)'
      <4> SUFFICES ASSUME NEW q \in {p} \union Above(p), q \in renewed \/ fs[q] = Absent PROVE FALSE
        BY <1>4, <2>6, MarksRight
      <4>1. q # p
        BY <1>4, <2>8, <3>1 DEF FileTyped, Tree
      <4>2. fs[q] = Dir
        BY <1>4, <3>1, <4>1 DEF FileTyped, Tree
      <4> QED BY <3>1, <4>1, <4>2, NodeOfKind DEF Absent, Dir
    <3>4. ~Shows(layers'[n + 1].entry[p])
      BY <1>6, <1>7, <2>3, <2>4, <2>8
    <3>5. \A j \in i + 1 .. n + 1 : ~Shows(layers'[j].entry[p]) /\ ~Hides(p, j)'
      <4> TAKE j \in i + 1 .. n + 1
      <4>1. CASE j = n + 1
        BY <3>3, <3>4, <4>1
      <4>2. CASE j # n + 1
        <5>1. j \in i + 1 .. n /\ j \in 1 .. n
          BY <1>6, <4>2
        <5> QED BY <1>6, <2>5, <3>2, <5>1
      <4> QED BY <4>1, <4>2
    <3>6. i \in 1 .. n + 1 /\ layers'[i].entry[p] = base'[p]
      BY <1>3, <1>6, <3>1, <3>2
    <3> QED BY <1>6, <2>8, <3>5, <3>6 DEF Kept
  <2>9. CASE ~Shows(fs[p])
    <3> SUFFICES ASSUME NEW i \in 1 .. n + 1, Shows(layers'[i].entry[p])
                 PROVE  \E j \in i + 1 .. n + 1 : Hides(p, j)'
      BY <1>6, <2>9 DEF Lost
    <3>1. i \in 1 .. n
      <4>1. ~Shows(layers'[n + 1].entry[p])
        BY <1>6, <1>7, <2>3, <2>4, <2>9
      <4> QED BY <1>6, <4>1
    <3>2. CASE ~Shows(base[p])
      <4>1. PICK j \in i + 1 .. n : Hides(p, j)
        BY <1>6, <2>2, <3>1, <3>2 DEF Lost
      <4>2. j \in 1 .. n /\ j \in i + 1 .. n + 1
        BY <1>6, <3>1
      <4> QED BY <2>5, <4>1, <4>2
    <3>3. CASE Shows(base[p])
      <4>1. ~Inner(p)
        BY <1>4, <3>3 DEF FileTyped, Tree
      <4>2. fs[p] = Absent
        BY <1>4, <2>4, <2>9, <4>1, NodeKinds DEF FileTyped, Tree
      <4>3. base[p] # Absent
        BY <2>4, <3>3
      <4>4. Hides(p, n + 1)'
        BY <1>4, <2>6, <4>2, <4>3, GoneIsHidden
      <4>5. n + 1 \in i + 1 .. n + 1
        BY <1>6, <3>1
      <4> QED BY <4>4, <4>5
    <3> QED BY <3>2, <3>3
  <2> QED BY <2>7, <2>8, <2>9
<1>10. LayersInStep'
  BY <1>3, <1>9 DEF LayersInStep
<1> QED BY <1>8, <1>10 DEF FileInv

LEMMA FileInvInit == FileInit => FileInv
<1> SUFFICES ASSUME FileInit PROVE FileInv
  OBVIOUS
<1>1. /\ base = [p \in Path |-> Absent] /\ fs = base /\ renewed = {} /\ layers = <<>>
      /\ ~Shows(Absent) /\ Absent \in Node /\ Absent # Dir
  BY NodeOfKind DEF FileInit, Absent, Dir
<1>2. FileTyped
  BY <1>1 DEF FileTyped, Tree
<1>3. LayersInStep
  BY <1>1 DEF LayersInStep, Lost
<1> QED BY <1>2, <1>3 DEF FileInv

LEMMA FileInvNext == ~Mixed /\ FileInv /\ [FileNext]_fileVars => FileInv'
<1> SUFFICES ASSUME ~Mixed, FileInv, [FileNext]_fileVars PROVE FileInv'
  OBVIOUS
<1>1. FileTyped
  BY DEF FileInv
<1>2. ASSUME UNCHANGED <<base, layers>>,
             fs' \in [Path -> Node] /\ Tree(fs') /\ renewed' \subseteq {q \in Path : Inner(q)}
      PROVE  FileInv'
  <2>1. FileTyped'
    BY <1>1, <1>2 DEF FileTyped, Tree
  <2>2. LayersInStep'
    BY <1>2 DEF FileInv, LayersInStep, NoHardLink, Kept, Lost, Hides
  <2> QED BY <2>1, <2>2 DEF FileInv
<1>3. ASSUME NEW p \in Path, NEW node \in Node, Shows(node), Place(p, node) PROVE FileInv'
  BY <1>1, <1>2, <1>3, PlaceKeeps DEF Place
<1>4. ASSUME NEW p \in Path, NEW c \in Content, WriteFile(p, c) PROVE FileInv'
  BY <1>3, <1>4, NodeOfKind DEF WriteFile
<1>5. ASSUME NEW p \in Path, NEW t \in Target, Symlink(p, t) PROVE FileInv'
  BY <1>3, <1>5, NodeOfKind DEF Symlink
<1>6. ASSUME NEW p \in Path, NEW q \in Path, HardLink(p, q) PROVE FileInv'
  <2>1. fs[q] \in Node /\ Shows(fs[q]) /\ Place(p, fs[q])
    BY <1>1, <1>6 DEF HardLink, FileTyped, Shows
  <2> QED BY <1>3, <2>1
<1>7. ASSUME NEW p \in Path, RemoveAll(p) PROVE FileInv'
  BY <1>1, <1>2, <1>7, RemoveKeeps DEF RemoveAll
<1>8. CASE Commit
  BY <1>8, CommitKeeps
<1>9. CASE UNCHANGED fileVars
  BY <1>1, <1>2, <1>9 DEF fileVars, FileTyped
<1> QED BY <1>4, <1>5, <1>6, <1>7, <1>8, <1>9 DEF FileNext

\* What catFromLayer answers of a node it has found.
Says(node) ==
    IF node.kind = "file" THEN [found |-> "file", data |-> node.data]
    ELSE [found |-> "link", to |-> node.to]

LEMMA AnswerKinds ==
    /\ NotHere.found = "nothing" /\ Deleted.found = "deleted" /\ Failed.found = "error"
    /\ \A node : Says(node).found \in {"file", "link"}
BY DEF NotHere, Deleted, Failed, Says

LEMMA LayerRight ==
    ASSUME FileTyped, NoHardLink, NEW i \in 1 .. Len(layers), NEW p \in Path
    PROVE  CatFromLayer(layers[i], p) =
             IF layers[i].compressed THEN Failed
             ELSE IF Shows(layers[i].entry[p]) THEN Says(layers[i].entry[p])
             ELSE IF Hides(p, i) THEN Deleted ELSE NotHere
<1>1. layers[i] \in Layer
  BY DEF FileTyped
<1>2. PICK here \in Entry : here = layers[i].entry[p]
  BY <1>1 DEF Layer
<1>3. here.kind # "hard"
  BY <1>2 DEF NoHardLink
<1>4. here \in Node
  <2>1. \A q : Hard(q).kind = "hard"
    BY DEF Hard
  <2> QED BY <1>2, <1>3, <2>1 DEF Entry
<1>5. here.kind \in {"absent", "dir", "file", "link"}
  BY <1>4 DEF Node, Absent, Dir, File, Link
<1>6. CASE here.kind = "file"
  BY <1>2, <1>6 DEF CatFromLayer, Shows, Says
<1>7. CASE here.kind = "link"
  BY <1>2, <1>7 DEF CatFromLayer, Shows, Says
<1>8. CASE here.kind \in {"absent", "dir"}
  BY <1>2, <1>8 DEF CatFromLayer, Shows, Hides
<1> QED BY <1>5, <1>6, <1>7, <1>8

\* The search finds what the container has at the path, unless it fails, and
\* fails only for a layer that cannot be read.
LEMMA SearchSays ==
    ASSUME FileInv, NoHardLink, NEW p \in Path
    PROVE  /\ Shows(base[p]) => Search(p) \in {Says(base[p]), Failed}
           /\ ~Shows(base[p]) => Search(p) \in {NotHere, Deleted, Failed}
           /\ Search(p) = Failed => \E i \in DOMAIN layers : layers[i].compressed
<1> DEFINE known == {i \in DOMAIN layers : CatFromLayer(layers[i], p) # NotHere}
<1>1. PICK n \in Nat : n = Len(layers)
  BY DEF FileInv, FileTyped
<1>2. FileTyped /\ (IF Shows(base[p]) THEN Kept(p) ELSE Lost(p))
  BY DEF FileInv, LayersInStep
<1>3. DOMAIN layers = 1 .. n
  BY <1>1, <1>2 DEF FileTyped
<1>4. \A i \in 1 .. n : CatFromLayer(layers[i], p) =
             IF layers[i].compressed THEN Failed
             ELSE IF Shows(layers[i].entry[p]) THEN Says(layers[i].entry[p])
             ELSE IF Hides(p, i) THEN Deleted ELSE NotHere
  BY <1>1, <1>2, LayerRight
<1>5. \A i \in 1 .. n : i \in known <=>
             layers[i].compressed \/ Shows(layers[i].entry[p]) \/ Hides(p, i)
  BY <1>3, <1>4, AnswerKinds
<1>6. CASE known = {}
  <2>1. Search(p) = NotHere
    BY <1>6 DEF Search
  <2>2. ~Shows(base[p])
    BY <1>1, <1>2, <1>5, <1>6 DEF Kept
  <2> QED BY <2>1, <2>2, AnswerKinds
<1>7. CASE known # {}
  <2> DEFINE T == {n - i : i \in known}
  <2>1. T \subseteq Nat /\ T # {}
    BY <1>3, <1>7
  <2>2. PICK low \in T : \A k \in T : ~(k < low)
    <3> HIDE DEF T
    <3> QED BY <2>1, Least
  <2>3. PICK most \in known : low = n - most
    OBVIOUS
  <2>4. \A j \in known : j <= most
    <3> TAKE j \in known
    <3>1. j \in 1 .. n /\ most \in 1 .. n
      BY <1>3
    <3>2. ~(n - j < n - most)
      BY <2>2, <2>3
    <3> QED BY <3>1, <3>2
  <2>5. PICK top \in known : /\ \A j \in known : j <= top
                             /\ Search(p) = CatFromLayer(layers[top], p)
    <3> HIDE DEF known
    <3>1. \E i \in known : \A j \in known : j <= i
      BY <2>4
    <3>2. Search(p) = CatFromLayer(layers[CHOOSE i \in known : \A j \in known : j <= i], p)
      BY <1>7 DEF Search, known
    <3> QED BY <3>1, <3>2
  <2>6. top \in 1 .. n
    BY <1>3
  <2>7. CASE layers[top].compressed
    <3>1. Search(p) = Failed
      BY <1>4, <2>5, <2>6, <2>7
    <3> QED BY <1>3, <2>6, <2>7, <3>1
  <2>8. CASE ~layers[top].compressed /\ Shows(layers[top].entry[p])
    <3>1. Search(p) = Says(layers[top].entry[p])
      BY <1>4, <2>5, <2>6, <2>8
    <3>2. \A j \in top + 1 .. n : ~Hides(p, j)
      <4> TAKE j \in top + 1 .. n
      <4>1. j \in 1 .. n /\ ~(j <= top)
        BY <2>6
      <4> QED BY <1>5, <2>5, <4>1
    <3>3. Shows(base[p])
      BY <1>1, <1>2, <2>6, <2>8, <3>2 DEF Lost
    <3>4. PICK i \in 1 .. n : /\ layers[i].entry[p] = base[p]
                              /\ \A j \in i + 1 .. n : ~Shows(layers[j].entry[p]) /\ ~Hides(p, j)
      BY <1>1, <1>2, <3>3 DEF Kept
    <3>5. i = top
      <4>1. i \in known
        BY <1>5, <3>3, <3>4
      <4>2. i <= top /\ top \notin i + 1 .. n
        BY <2>5, <2>8, <3>4, <4>1
      <4> QED BY <2>6, <4>2
    <3> QED BY <3>1, <3>3, <3>4, <3>5, AnswerKinds
  <2>9. CASE ~layers[top].compressed /\ ~Shows(layers[top].entry[p])
    <3>1. Search(p) = Deleted /\ Hides(p, top)
      BY <1>4, <1>5, <2>5, <2>6, <2>9
    <3>2. ~Shows(base[p])
      <4> SUFFICES ASSUME Shows(base[p]) PROVE FALSE
        OBVIOUS
      <4>1. PICK i \in 1 .. n : /\ layers[i].entry[p] = base[p]
                                /\ \A j \in i + 1 .. n : ~Shows(layers[j].entry[p]) /\ ~Hides(p, j)
        BY <1>1, <1>2 DEF Kept
      <4>2. i \in known
        BY <1>5, <4>1
      <4>3. i <= top /\ i # top /\ top \notin i + 1 .. n
        BY <2>5, <2>9, <3>1, <4>1, <4>2
      <4> QED BY <2>6, <4>3
    <3> QED BY <3>1, <3>2, AnswerKinds
  <2> QED BY <2>7, <2>8, <2>9
<1> QED BY <1>6, <1>7

-----------------------------------------------------------------------------
(* FileRead: the two ways along the links.                                 *)

LEMMA FrontRight ==
    ASSUME NEW p \in Seq(STRING), p # <<>>
    PROVE  /\ Front(p) \in Seq(STRING) /\ Last(p) \in STRING
           /\ Len(p) \in Nat \ {0} /\ Len(Front(p)) = Len(p) - 1
           /\ Append(Front(p), Last(p)) = p
           /\ \A i \in 1 .. Len(p) - 1 : Front(p)[i] = p[i]
<1>1. Len(p) \in Nat \ {0}
  OBVIOUS
<1>2. /\ Front(p) \in Seq(STRING) /\ Len(Front(p)) = Len(p) - 1
      /\ \A i \in 1 .. Len(p) - 1 : Front(p)[i] = p[i]
  <2>1. PICK n \in Int : n = Len(p) - 1 /\ 0 <= n
    BY <1>1
  <2>2. \A i \in 1 .. n : p[i] \in STRING
    BY <1>1, <2>1
  <2>3. /\ SubSeq(p, 1, n) \in Seq(STRING)
        /\ Len(SubSeq(p, 1, n)) = IF 1 <= n THEN n - 1 + 1 ELSE 0
        /\ \A i \in 1 .. n - 1 + 1 : SubSeq(p, 1, n)[i] = p[1 + i - 1]
    BY <2>2, SubSeqProperties
  <2>4. Front(p) = SubSeq(p, 1, n)
    BY <2>1 DEF Front
  <2> QED BY <2>1, <2>3, <2>4
<1>3. Last(p) \in STRING
  BY <1>1 DEF Last
<1>4. Append(Front(p), Last(p)) = p
  <2> DEFINE a == Append(Front(p), Last(p))
  <2>1. a \in Seq(STRING) /\ Len(a) = Len(p)
    BY <1>1, <1>2, <1>3
  <2>2. \A i \in 1 .. Len(p) : a[i] = p[i]
    <3> TAKE i \in 1 .. Len(p)
    <3>1. CASE i = Len(p)
      BY <1>1, <1>2, <1>3, <3>1 DEF Last
    <3>2. CASE i # Len(p)
      BY <1>1, <1>2, <1>3, <3>2
    <3> QED BY <3>1, <3>2
  <2>3. p \in Seq(STRING) /\ \A i \in 1 .. Len(a) : a[i] = p[i]
    BY <2>1, <2>2
  <2> HIDE DEF a
  <2>4. a = p
    BY <2>1, <2>3, SeqEqual
  <2> QED BY <2>4 DEF a
<1> QED BY <1>1, <1>2, <1>3, <1>4

LEMMA ResolveTyped ==
    ASSUME NEW p \in Seq(STRING), p # <<>>, NEW t \in Target
    PROVE  ResolveLink(p, t) \in Seq(STRING)
<1>1. t.path \in Seq(STRING) /\ Front(p) \in Seq(STRING)
  BY PathAssumption, FrontRight
<1>2. Front(p) \o t.path \in Seq(STRING)
  BY <1>1
<1> QED BY <1>1, <1>2 DEF ResolveLink

\* One hop, when next is what the hops after it answer.
Hop(next) ==
    [w \in Seq(STRING) |->
        LET res == Search(w) IN
        IF res.found = "link" THEN next[ResolveLink(w, res.to)] ELSE res]

\* CatFrom is what its definition says.
LEMMA CatFromRight ==
    ASSUME FileInv, NoHardLink
    PROVE  /\ CatFrom[16] = [w \in Seq(STRING) |-> Failed]
           /\ \A hop \in 0 .. 15 : CatFrom[hop] = Hop(CatFrom[hop + 1])
<1> DEFINE Answers == {Search(w) : w \in Seq(STRING)} \union {Failed}
           D == [Seq(STRING) -> Answers]
           step == [x \in (0 + 1 .. 16) \X D |-> Hop(x[2])]
           start == [w \in Seq(STRING) |-> Failed]
<1>1. ASSUME NEW w \in Seq(STRING), Search(w).found = "link"
      PROVE  ResolveLink(w, Search(w).to) \in Seq(STRING)
  <2>1. w \in Path
    BY <1>1, AnswerKinds DEF Search
  <2>2. Search(w) = Says(base[w]) /\ Shows(base[w])
    <3>1. Search(w) \notin {NotHere, Deleted, Failed}
      BY <1>1, AnswerKinds
    <3> QED BY <2>1, <3>1, SearchSays
  <2>3. base[w].kind = "link" /\ Search(w).to = base[w].to
    <3>1. base[w].kind # "file" /\ Search(w) = [found |-> "link", to |-> base[w].to]
      BY <1>1, <2>2 DEF Says
    <3>2. base[w].kind # "hard"
      BY <2>1, NodeKinds DEF FileInv, FileTyped
    <3> QED BY <2>2, <3>1, <3>2 DEF Shows
  <2>4. base[w].to \in Target /\ w # <<>>
    BY <2>1, <2>3, NodeKinds, PathAssumption DEF FileInv, FileTyped
  <2> QED BY <2>3, <2>4, ResolveTyped
<1>2. ASSUME NEW h \in D PROVE Hop(h) \in D
  <2>1. ASSUME NEW w \in Seq(STRING)
        PROVE  (IF Search(w).found = "link" THEN h[ResolveLink(w, Search(w).to)] ELSE Search(w))
                 \in Answers
    <3>1. CASE Search(w).found = "link"
      <4> HIDE DEF Answers
      <4> QED BY <1>1, <3>1
    <3>2. CASE Search(w).found # "link"
      BY <3>2
    <3> QED BY <3>1, <3>2
  <2> HIDE DEF Answers
  <2> QED BY <2>1 DEF Hop
<1>3. start \in D
  OBVIOUS
<1>4. PICK g \in [0 .. 16 -> D] : Follows(g, 0, 16, start, step)
  <2>1. step \in [(0 + 1 .. 16) \X D -> D]
    <3> HIDE DEF D
    <3> QED BY <1>2
  <2>2. 0 \in Nat /\ 16 \in Nat /\ 0 <= 16
    OBVIOUS
  <2> HIDE DEF step, start, D
  <2> QED BY <1>3, <2>1, <2>2, RecursionExists, Zenon
<1> HIDE DEF D
<1>5. g[0] = start /\ \A k \in 1 .. 16 : g[k] = Hop(g[k - 1])
  <2> HIDE DEF start
  <2>1. \A k \in 1 .. 16 : k \in 0 + 1 .. 16 /\ k - 1 \in 0 .. 16
    OBVIOUS
  <2>2. \A k \in 1 .. 16 : step[<<k, g[k - 1]>>] = Hop(g[k - 1])
    BY <2>1
  <2> QED BY <1>4, <2>1, <2>2 DEF Follows
<1> HIDE DEF step
<1> DEFINE Body(f) == [hop \in 0 .. MaxLinkHops |->
                         IF hop = MaxLinkHops THEN [w \in Seq(STRING) |-> Failed] ELSE Hop(f[hop + 1])]
           F == [hop \in 0 .. MaxLinkHops |-> g[16 - hop]]
<1>6. F = Body(F)
  <2>1. \A hop \in 0 .. 16 : hop # 16 => F[hop + 1] = g[16 - (hop + 1)] /\ 16 - hop \in 1 .. 16
    BY DEF MaxLinkHops
  <2>2. \A hop \in 0 .. 16 : hop # 16 => g[16 - hop] = Hop(g[16 - (hop + 1)])
    <3> TAKE hop \in 0 .. 16
    <3> HAVE hop # 16
    <3>1. 16 - hop \in 1 .. 16 /\ (16 - hop) - 1 = 16 - (hop + 1)
      OBVIOUS
    <3> QED BY <1>5, <3>1
  <2>3. \A hop \in 0 .. 16 : g[16 - hop] = IF hop = 16 THEN start ELSE Hop(F[hop + 1])
    <3> HIDE DEF F, start
    <3> QED BY <1>5, <2>1, <2>2
  <2> QED BY <2>3 DEF MaxLinkHops
<1>7. CatFrom = CHOOSE f : f = Body(f)
  BY DEF CatFrom, Hop
<1>8. CatFrom = Body(CatFrom)
  <2> HIDE DEF Body, F
  <2> QED BY <1>6, <1>7
<1> HIDE DEF start
<1>9. \A hop \in 0 .. 16 : CatFrom[hop] = Body(CatFrom)[hop]
  <2> HIDE DEF Body
  <2> QED BY <1>8, Zenon
<1>10. \A hop \in 0 .. 15 : hop \in 0 .. 16 /\ hop # 16
  OBVIOUS
<1> QED BY <1>9, <1>10 DEF MaxLinkHops

\* What a container sees at p, when real is where the directory of a path leads
\* and next where the path at the end of a link does.
Arrives(real, next, p) ==
    LET above == IF Len(p) = 1 THEN <<>> ELSE real[Front(p)]
        here  == Append(above, Last(p))
    IN  IF p = <<>> \/ (Len(p) > 1 /\ above = <<>>) \/ here \notin Path THEN <<>>
        ELSE IF base[here].kind # "link" THEN here
        ELSE next[ResolveLink(here, base[here].to)]

Ways == [Seq(STRING) -> Path \union {<<>>}]

\* Where it arrives is in the image, if anywhere.
LEMMA ArrivesTyped ==
    ASSUME FileTyped, NEW real, NEW next \in Ways, NEW p \in Seq(STRING)
    PROVE  Arrives(real, next, p) \in Path \union {<<>>}
<1> DEFINE above == IF Len(p) = 1 THEN <<>> ELSE real[Front(p)]
           here  == Append(above, Last(p))
<1>1. CASE p = <<>> \/ (Len(p) > 1 /\ above = <<>>) \/ here \notin Path
  BY <1>1 DEF Arrives
<1>2. CASE ~(p = <<>> \/ (Len(p) > 1 /\ above = <<>>) \/ here \notin Path)
  <2> HIDE DEF here
  <2>1. here \in Path
    BY <1>2
  <2>2. base[here] \in Node /\ here \in Seq(STRING) /\ here # <<>>
    BY <2>1, PathAssumption DEF FileTyped
  <2>3. base[here].kind = "link" => ResolveLink(here, base[here].to) \in Seq(STRING)
    BY <2>2, NodeKinds, ResolveTyped
  <2>4. Arrives(real, next, p) =
          IF base[here].kind # "link" THEN here ELSE next[ResolveLink(here, base[here].to)]
    BY <1>2 DEF Arrives, here
  <2> QED BY <2>1, <2>3, <2>4 DEF Ways
<1> QED BY <1>1, <1>2

\* The ways of one depth, whatever those of the depth below.
LEMMA WaysExist ==
    ASSUME FileTyped, NEW next \in Ways
    PROVE  \E real \in Ways : real = [p \in Seq(STRING) |-> Arrives(real, next, p)]
<1> DEFINE Further(real) == [p \in Seq(STRING) |-> Arrives(real, next, p)]
           start == [p \in Seq(STRING) |-> <<>>]
           step == [x \in Nat \X Ways |-> Further(x[2])]
<1>1. start \in Ways
  BY DEF Ways
<1>2. \A real \in Ways : Further(real) \in Ways
  <2>1. \A real \in Ways, p \in Seq(STRING) : Arrives(real, next, p) \in Path \union {<<>>}
    BY ArrivesTyped
  <2> QED BY <2>1 DEF Ways
<1>3. step \in [Nat \X Ways -> Ways]
  <2> HIDE DEF Further
  <2> QED BY <1>2
<1>4. PICK u \in [Nat -> Ways] : Goes(u, start, step)
  <2> HIDE DEF step, start
  <2> QED BY <1>1, <1>3, EndlessRecursion, Zenon
<1>5. u[0] = start /\ \A i \in Nat : u[i + 1] = Further(u[i])
  <2> HIDE DEF Further, start
  <2>1. \A i \in Nat : i + 1 \in Nat /\ step[<<i + 1, u[i]>>] = Further(u[i])
    OBVIOUS
  <2> QED BY <1>4, <2>1 DEF Goes
<1> HIDE DEF step
<1> DEFINE real == [p \in Seq(STRING) |-> u[Len(p)][p]]
<1>6. real \in Ways
  <2>1. \A p \in Seq(STRING) : Len(p) \in Nat /\ u[Len(p)][p] \in Path \union {<<>>}
    BY DEF Ways
  <2> QED BY <2>1 DEF Ways
<1>7. ASSUME NEW p \in Seq(STRING) PROVE real[p] = Arrives(real, next, p)
  <2>1. CASE p = <<>>
    <3>1. real[p] = <<>>
      <4>1. Len(p) = 0 /\ real[p] = u[Len(p)][p]
        BY <2>1
      <4>2. u[0][p] = <<>>
        BY <1>5
      <4> QED BY <4>1, <4>2
    <3>2. Arrives(real, next, p) = <<>>
      BY <2>1 DEF Arrives
    <3> QED BY <3>1, <3>2
  <2>2. CASE p # <<>>
    <3>1. PICK k \in Nat : Len(p) = k + 1
      <4> HIDE DEF real
      <4>1. Len(p) \in Nat \ {0}
        BY <2>2, FrontRight
      <4>2. Len(p) - 1 \in Nat /\ Len(p) = (Len(p) - 1) + 1
        BY <4>1
      <4> QED BY <4>2
    <3>2. Front(p) \in Seq(STRING) /\ Len(Front(p)) = k
      BY <2>2, <3>1, FrontRight
    <3>3. real[p] = Arrives(u[k], next, p)
      <4>1. real[p] = u[k + 1][p]
        BY <3>1
      <4>2. u[k + 1] = [q \in Seq(STRING) |-> Arrives(u[k], next, q)]
        BY <1>5
      <4> QED BY <4>1, <4>2
    <3>4. real[Front(p)] = u[k][Front(p)]
      BY <3>2
    <3> HIDE DEF real
    <3> QED BY <3>3, <3>4 DEF Arrives
  <2> QED BY <2>1, <2>2
<1>8. real = [p \in Seq(STRING) |-> Arrives(real, next, p)]
  <2>1. real = [p \in Seq(STRING) |-> real[p]]
    OBVIOUS
  <2> HIDE DEF real
  <2> QED BY <1>7, <2>1
<1> HIDE DEF real
<1> QED BY <1>6, <1>8

\* What follows from the ways of the depth below.
Level(next) == CHOOSE real : real = [p \in Seq(STRING) |-> Arrives(real, next, p)]

LEMMA LevelRight ==
    ASSUME FileTyped, NEW next \in Ways
    PROVE  /\ Level(next) \in Ways
           /\ \A p \in Seq(STRING) : Level(next)[p] = Arrives(Level(next), next, p)
<1> DEFINE Fits(real) == real = [p \in Seq(STRING) |-> Arrives(real, next, p)]
<1>1. \E real : Fits(real)
  BY WaysExist
<1>2. PICK real : real = Level(next) /\ Fits(real)
  <2> HIDE DEF Fits
  <2>1. Fits(CHOOSE r : Fits(r))
    BY <1>1
  <2> QED BY <2>1 DEF Level, Fits
<1>3. \A p \in Seq(STRING) : real[p] = Arrives(real, next, p) /\ real[p] \in Path \union {<<>>}
  <2> TAKE p \in Seq(STRING)
  <2>1. real[p] = Arrives(real, next, p)
    BY <1>2
  <2> QED BY <2>1, ArrivesTyped
<1>4. real = [p \in Seq(STRING) |-> real[p]]
  BY <1>2
<1>5. real \in Ways
  BY <1>3, <1>4 DEF Ways
<1> QED BY <1>2, <1>3, <1>5

\* RealPath is what its definition says.
LEMMA RealPathRight ==
    ASSUME FileTyped
    PROVE  /\ RealPath[0] = [p \in Seq(STRING) |-> <<>>]
           /\ \A depth \in 1 .. 41 : RealPath[depth] = Level(RealPath[depth - 1])
           /\ \A depth \in 0 .. 41 : RealPath[depth] \in Ways
<1> DEFINE step == [x \in (0 + 1 .. 41) \X Ways |-> Level(x[2])]
           start == [p \in Seq(STRING) |-> <<>>]
<1>1. start \in Ways
  BY DEF Ways
<1>2. PICK g \in [0 .. 41 -> Ways] : Follows(g, 0, 41, start, step)
  <2>1. step \in [(0 + 1 .. 41) \X Ways -> Ways]
    BY LevelRight
  <2>2. 0 \in Nat /\ 41 \in Nat /\ 0 <= 41
    OBVIOUS
  <2> HIDE DEF step, start
  <2> QED BY <1>1, <2>1, <2>2, RecursionExists, Zenon
<1>3. g[0] = start /\ \A k \in 1 .. 41 : g[k] = Level(g[k - 1])
  <2> HIDE DEF start
  <2>1. \A k \in 1 .. 41 : k \in 0 + 1 .. 41 /\ k - 1 \in 0 .. 41
    OBVIOUS
  <2>2. \A k \in 1 .. 41 : step[<<k, g[k - 1]>>] = Level(g[k - 1])
    BY <2>1
  <2> QED BY <1>2, <2>1, <2>2 DEF Follows
<1> HIDE DEF step
<1> DEFINE Body(f) == [depth \in 0 .. ContainerHops |->
                         IF depth = 0 THEN [p \in Seq(STRING) |-> <<>>] ELSE Level(f[depth - 1])]
<1>4. g = Body(g)
  <2>1. g = [depth \in 0 .. 41 |-> g[depth]]
    OBVIOUS
  <2>2. \A depth \in 0 .. 41 : depth # 0 => depth \in 1 .. 41
    OBVIOUS
  <2> QED BY <1>3, <2>1, <2>2 DEF ContainerHops
<1>5. RealPath = CHOOSE f : f = Body(f)
  BY DEF RealPath, Level, Arrives
<1>6. RealPath = Body(RealPath)
  <2> HIDE DEF Body
  <2> QED BY <1>4, <1>5
<1> HIDE DEF start
<1>7. RealPath[0] = start /\ \A depth \in 1 .. 41 : RealPath[depth] = Level(RealPath[depth - 1])
  <2>1. \A depth \in 0 .. 41 : RealPath[depth] = Body(RealPath)[depth]
    <3> HIDE DEF Body
    <3> QED BY <1>6, Zenon
  <2>2. \A depth \in 1 .. 41 : depth \in 0 .. 41 /\ depth # 0
    OBVIOUS
  <2> QED BY <2>1, <2>2 DEF ContainerHops, start
<1>8. \A depth \in 0 .. 41 : RealPath[depth] \in Ways
  <2> DEFINE S == {depth \in 0 .. 41 : RealPath[depth] \in Ways}
  <2>1. 0 \in S
    BY <1>1, <1>7
  <2>2. ASSUME NEW i \in 0 .. 41 - 1, i \in S PROVE i + 1 \in S
    <3>1. i + 1 \in 1 .. 41 /\ i + 1 \in 0 .. 41 /\ (i + 1) - 1 = i
      OBVIOUS
    <3> QED BY <1>7, <2>2, <3>1, LevelRight
  <2>3. 0 .. 41 \subseteq S
    <3>1. 0 \in Nat /\ 41 \in Nat
      OBVIOUS
    <3> HIDE DEF S
    <3> QED BY <2>1, <2>2, <3>1, SpanSet, Zenon
  <2> QED BY <2>3
<1> QED BY <1>7, <1>8 DEF start

\* A path with directories above it leads to itself, unless it is that of a link.
LEMMA DirectPath ==
    ASSUME FileInv, NEW depth \in 1 .. 41
    PROVE  \A p \in Seq(STRING) : (\A q \in Above(p) : Inner(q)) =>
             RealPath[depth][p] =
               IF p \notin Path THEN <<>>
               ELSE IF base[p].kind # "link" THEN p
               ELSE RealPath[depth - 1][ResolveLink(p, base[p].to)]
<1> DEFINE next == RealPath[depth - 1]
           real == RealPath[depth]
           Direct(p) == (\A q \in Above(p) : Inner(q)) =>
             real[p] = IF p \notin Path THEN <<>>
                       ELSE IF base[p].kind # "link" THEN p ELSE next[ResolveLink(p, base[p].to)]
           S == {k \in Nat : \A p \in Seq(STRING) : Len(p) = k => Direct(p)}
<1>1. \A p \in Seq(STRING) : real[p] = Arrives(real, next, p)
  <2>1. depth - 1 \in 0 .. 41
    OBVIOUS
  <2>2. FileTyped
    BY DEF FileInv
  <2>3. next \in Ways /\ real = Level(next)
    BY <2>1, <2>2, RealPathRight
  <2> HIDE DEF next, real
  <2> QED BY <2>2, <2>3, LevelRight
<1> HIDE DEF next, real
<1>2. 0 \in S
  <2> SUFFICES ASSUME NEW p \in Seq(STRING), Len(p) = 0 PROVE Direct(p)
    OBVIOUS
  <2>1. p = <<>> /\ p \notin Path
    BY PathAssumption
  <2> QED BY <1>1, <2>1 DEF Arrives
<1>3. ASSUME NEW k \in Nat, k \in S PROVE k + 1 \in S
  <2> SUFFICES ASSUME NEW p \in Seq(STRING), Len(p) = k + 1, \A q \in Above(p) : Inner(q)
               PROVE  real[p] = IF p \notin Path THEN <<>>
                                ELSE IF base[p].kind # "link" THEN p ELSE next[ResolveLink(p, base[p].to)]
    OBVIOUS
  <2> DEFINE up == Front(p)
  <2>1. /\ p # <<>> /\ up \in Seq(STRING) /\ Len(up) = k /\ Append(up, Last(p)) = p
        /\ \A i \in 1 .. k : up[i] = p[i]
    <3>1. p # <<>>
      OBVIOUS
    <3>2. Len(p) - 1 = k
      OBVIOUS
    <3> QED BY <3>1, <3>2, FrontRight
  <2> HIDE DEF up
  <2>2. CASE k = 0
    <3>1. Append(<<>>, Last(p)) = p
      BY <2>1, <2>2
    <3>2. Len(p) = 1 /\ ~(Len(p) > 1)
      BY <2>2
    <3> QED BY <1>1, <2>1, <3>1, <3>2 DEF Arrives
  <2>3. CASE k # 0
    <3>1. Len(p) > 1 /\ Len(p) # 1
      BY <2>3
    <3>2. up \in Path => up \in Above(p)
      <4>1. Len(up) < Len(p) /\ IsPrefix(up, p)
        BY <2>1, PrefixRight
      <4> QED BY <4>1 DEF Above
    <3>3. \A q \in Above(up) : Inner(q)
      <4> SUFFICES ASSUME NEW q \in Above(up) PROVE q \in Above(p)
        OBVIOUS
      <4>1. q \in Path /\ q \in Seq(STRING) /\ Len(q) < Len(up) /\ IsPrefix(q, up) /\ IsPrefix(up, p)
        BY <2>1, PathAssumption, PrefixRight DEF Above
      <4>2. IsPrefix(q, p)
        BY <2>1, <4>1, AboveChain
      <4>3. Len(q) < Len(p)
        BY <2>1, <4>1
      <4> QED BY <4>1, <4>2, <4>3 DEF Above
    <3>4. Direct(up)
      BY <1>3, <2>1
    <3>5. real[up] = IF up \in Path THEN up ELSE <<>>
      <4>1. CASE up \notin Path
        BY <3>3, <3>4, <4>1
      <4>2. CASE up \in Path
        <5>1. Inner(up)
          BY <3>2, <4>2
        <5>2. base[up].kind # "link"
          BY <4>2, <5>1 DEF FileInv, FileTyped, Tree, Shows
        <5> QED BY <3>3, <3>4, <4>2, <5>2
      <4> QED BY <4>1, <4>2
    <3>6. real[p] = IF real[up] = <<>> \/ Append(real[up], Last(p)) \notin Path THEN <<>>
                    ELSE IF base[Append(real[up], Last(p))].kind # "link" THEN Append(real[up], Last(p))
                    ELSE next[ResolveLink(Append(real[up], Last(p)), base[Append(real[up], Last(p))].to)]
      BY <1>1, <2>1, <3>1 DEF Arrives, up
    <3>7. up # <<>>
      BY <2>1, <2>3
    <3>8. CASE up \in Path
      BY <2>1, <3>5, <3>6, <3>7, <3>8
    <3>9. CASE up \notin Path
      <4>1. p \notin Path
        BY <3>1, <3>9, PathAssumption DEF up
      <4> QED BY <3>5, <3>6, <3>9, <4>1
    <3> QED BY <3>8, <3>9
  <2> QED BY <2>2, <2>3
<1>4. Nat \subseteq S
  <2> HIDE DEF S
  <2> QED BY <1>2, <1>3, NatSet
<1>5. \A p \in Seq(STRING) : Direct(p)
  <2> TAKE p \in Seq(STRING)
  <2>1. Len(p) \in S
    BY <1>4
  <2> HIDE DEF Direct
  <2> QED BY <2>1
<1> QED BY <1>5 DEF real, next

\* From the same path both come to the same file, far, unless the links CatFile
\* has to go come to an end before it, at real.
Agrees(res, real, far) ==
    LET sees == IF far # <<>> /\ base[far].kind = "file"
                THEN [found |-> "file", data |-> base[far].data] ELSE NotHere
    IN  IF res.found = "file" THEN res = sees
        ELSE sees.found = "file" =>
               /\ res = Failed
               /\ (\E i \in DOMAIN layers : layers[i].compressed) \/ real = <<>>

LEMMA CatAgrees ==
    ASSUME FileInv, NoHardLink, ThroughDirectories
    PROVE  \A depth \in 0 .. 16, w \in Seq(STRING) :
             (\A q \in Above(w) : Inner(q)) =>
               Agrees(CatFrom[16 - depth][w], RealPath[depth][w], RealPath[depth + 25][w])
<1> DEFINE Good(depth) == \A w \in Seq(STRING) :
             (\A q \in Above(w) : Inner(q)) =>
               Agrees(CatFrom[16 - depth][w], RealPath[depth][w], RealPath[depth + 25][w])
           S == {depth \in 0 .. 16 : Good(depth)}
<1>1. FileTyped
  BY DEF FileInv
<1>2. 0 \in S
  <2> SUFFICES ASSUME NEW w \in Seq(STRING) PROVE Agrees(CatFrom[16 - 0][w], RealPath[0][w], RealPath[0 + 25][w])
    OBVIOUS
  <2>1. RealPath[0][w] = <<>>
    BY <1>1, RealPathRight
  <2>2. 16 - 0 = 16 /\ CatFrom[16][w] = Failed
    BY CatFromRight
  <2> QED BY <2>1, <2>2, AnswerKinds DEF Agrees
<1>3. ASSUME NEW i \in 0 .. 16 - 1, i \in S PROVE i + 1 \in S
  <2> DEFINE hop == 16 - (i + 1)
  <2>1. /\ hop \in 0 .. 15 /\ hop + 1 = 16 - i /\ i + 1 \in 0 .. 16
        /\ i + 1 \in 1 .. 41 /\ (i + 1) - 1 = i
        /\ i + 26 \in 1 .. 41 /\ (i + 26) - 1 = i + 25 /\ (i + 1) + 25 = i + 26
    OBVIOUS
  <2>2. Good(i)
    BY <1>3
  <2> SUFFICES ASSUME NEW w \in Seq(STRING), \A q \in Above(w) : Inner(q)
               PROVE  Agrees(CatFrom[hop][w], RealPath[i + 1][w], RealPath[i + 26][w])
    BY <2>1
  <2> HIDE DEF hop
  <2>3. CatFrom[hop][w] = IF Search(w).found = "link" THEN CatFrom[hop + 1][ResolveLink(w, Search(w).to)]
                          ELSE Search(w)
    <3>1. PICK next : next = CatFrom[hop + 1] /\ CatFrom[hop] = Hop(next)
      BY <2>1, CatFromRight
    <3>2. Hop(next)[w] = IF Search(w).found = "link" THEN next[ResolveLink(w, Search(w).to)] ELSE Search(w)
      BY DEF Hop
    <3> QED BY <3>1, <3>2
  <2>4. RealPath[i + 1][w] = IF w \notin Path THEN <<>>
                             ELSE IF base[w].kind # "link" THEN w
                             ELSE RealPath[i][ResolveLink(w, base[w].to)]
    BY <2>1, DirectPath
  <2>8. RealPath[i + 26][w] = IF w \notin Path THEN <<>>
                              ELSE IF base[w].kind # "link" THEN w
                              ELSE RealPath[i + 25][ResolveLink(w, base[w].to)]
    BY <2>1, DirectPath
  <2>5. CASE w \notin Path
    <3>1. Search(w) = NotHere
      BY <2>5 DEF Search
    <3>2. CatFrom[hop][w] = NotHere /\ RealPath[i + 26][w] = <<>>
      BY <2>3, <2>8, <2>5, <3>1, AnswerKinds
    <3> QED BY <3>2, AnswerKinds DEF Agrees
  <2>6. CASE w \in Path /\ Search(w) = Failed
    <3>1. CatFrom[hop][w] = Failed
      BY <2>3, <2>6, AnswerKinds
    <3>2. \E j \in DOMAIN layers : layers[j].compressed
      BY <2>6, SearchSays
    <3> QED BY <3>1, <3>2, AnswerKinds DEF Agrees
  <2>7. CASE w \in Path /\ Search(w) # Failed
    <3>1. base[w] \in Node /\ w # <<>> /\ base[w].kind # "hard"
      BY <1>1, <2>7, NodeKinds, PathAssumption DEF FileTyped
    <3>2. CASE base[w].kind = "file"
      <4>1. Search(w) = [found |-> "file", data |-> base[w].data]
        BY <2>7, <3>2, SearchSays DEF Shows, Says
      <4>2. CatFrom[hop][w] = Search(w) /\ RealPath[i + 26][w] = w
        BY <2>3, <2>7, <2>8, <3>2, <4>1
      <4> QED BY <3>1, <3>2, <4>1, <4>2 DEF Agrees
    <3>3. CASE base[w].kind = "link"
      <4>1. Search(w) = [found |-> "link", to |-> base[w].to]
        BY <2>7, <3>3, SearchSays DEF Shows, Says
      <4>2. PICK t \in Target : t = base[w].to
        BY <3>1, <3>3, NodeKinds
      <4>3. ResolveLink(w, t) \in Seq(STRING) /\ \A q \in Above(ResolveLink(w, t)) : Inner(q)
        BY <2>7, <3>1, AboveRight, ResolveTyped DEF ThroughDirectories
      <4>4. /\ CatFrom[hop][w] = CatFrom[16 - i][ResolveLink(w, t)]
            /\ RealPath[i + 1][w] = RealPath[i][ResolveLink(w, t)]
            /\ RealPath[i + 26][w] = RealPath[i + 25][ResolveLink(w, t)]
        BY <2>1, <2>3, <2>4, <2>7, <2>8, <3>3, <4>1, <4>2
      <4> QED BY <2>2, <4>3, <4>4
    <3>4. CASE base[w].kind \notin {"file", "link"}
      <4>1. Search(w) \in {NotHere, Deleted}
        BY <2>7, <3>1, <3>4, SearchSays DEF Shows
      <4>2. CatFrom[hop][w] = Search(w) /\ RealPath[i + 26][w] = w
        BY <2>3, <2>7, <2>8, <3>4, <4>1, AnswerKinds
      <4> QED BY <3>4, <4>1, <4>2, AnswerKinds DEF Agrees
    <3> QED BY <3>2, <3>3, <3>4
  <2> QED BY <2>5, <2>6, <2>7
<1>4. 0 .. 16 \subseteq S
  <2>1. 0 \in Nat /\ 16 \in Nat
    OBVIOUS
  <2> HIDE DEF S
  <2> QED BY <1>2, <1>3, <2>1, SpanSet, Zenon
<1> QED BY <1>4

LEMMA SeesContainerHolds == ThroughDirectories /\ FileInv => SeesContainerPlain
<1> SUFFICES ASSUME ThroughDirectories, FileInv, NoHardLink, NEW p \in Path
             PROVE  LET res == CatFile(p) IN
                    IF res.found = "file" THEN res = Sees(p)
                    ELSE Sees(p).found = "file" =>
                             /\ res = Failed
                             /\ \/ \E i \in DOMAIN layers : layers[i].compressed
                                \/ RealPath[MaxLinkHops][p] = <<>>
  BY DEF SeesContainerPlain, SeesContainer, NoHardLink
<1>1. p \in Seq(STRING) /\ \A q \in Above(p) : Inner(q)
  BY PathAssumption, AboveRight
<1>2. Agrees(CatFrom[16 - 16][p], RealPath[16][p], RealPath[16 + 25][p])
  <2>1. 16 \in 0 .. 16
    OBVIOUS
  <2> QED BY <1>1, <2>1, CatAgrees
<1>3. 16 - 16 = 0 /\ 16 + 25 = 41
  OBVIOUS
<1> QED BY <1>2, <1>3 DEF Agrees, CatFile, Sees, MaxLinkHops, ContainerHops

\* What cat shows is what a container sees at the path, for every image a build
\* without hard links can make, in which directories alone stand above files and
\* links do not lead through links (CatFile).
THEOREM CatShowsContainer == ThroughDirectories => (FileSpec => []SeesContainerPlain)
<1> SUFFICES ASSUME ThroughDirectories PROVE FileSpec => []SeesContainerPlain
  OBVIOUS
<1>1. ~Mixed
  BY DEF ThroughDirectories
<1>2. FileInv => SeesContainerPlain
  BY SeesContainerHolds
<1>3. FileInv /\ [FileNext]_fileVars => FileInv'
  BY <1>1, FileInvNext
<1> QED BY <1>2, <1>3, FileInvInit, PTL DEF FileSpec
=============================================================================
