----------------------------- MODULE TuiNavProofs -----------------------------
(***************************************************************************)
(* Proofs about TuiNav, and about the operators of Discovery and           *)
(* SavedSites it is built on, for any webroots, disks, lists and numbers   *)
(* of sessions and processes.                                              *)
(***************************************************************************)
EXTENDS TuiNav, FiniteSetTheorems, SequenceTheorems, TLAPS

-----------------------------------------------------------------------------
(* Finite sets and lists of their members.                                    *)

LEMMA LargestExists ==
    ASSUME NEW S \in SUBSET Nat, IsFiniteSet(S), S # {}
    PROVE  \E m \in S : \A j \in S : j <= m
<1> DEFINE above(i) == {j \in S : j > i}
           family == {above(i) : i \in S}
<1>1. family \subseteq SUBSET S /\ family # {}
  OBVIOUS
<1>2. IsWellFoundedOn(StrictSubsetOrdering(S), SUBSET S)
  BY FS_StrictSubsetOrderingWellFounded, FS_FiniteSubsetsOfFinite
<1>3. PICK x \in family : \A y \in family : <<y, x>> \notin StrictSubsetOrdering(S)
  <2> HIDE DEF family
  <2> QED BY <1>1, <1>2, WFMin
<1>4. PICK m \in S : x = above(m)
  BY <1>3
<1>5. SUFFICES ASSUME NEW j \in S, ~ (j <= m)  PROVE FALSE
  OBVIOUS
<1>8. j > m
  BY <1>5
<1>6. above(j) \in family /\ above(j) \subseteq x /\ j \in x /\ j \notin above(j)
  <2>1. ASSUME NEW i \in S, i > j  PROVE i > m
    <3>1. i \in Nat /\ j \in Nat /\ m \in Nat
      OBVIOUS
    <3> QED BY <1>8, <2>1, <3>1
  <2>2. above(j) \subseteq above(m)
    BY <2>1
  <2>3. j \in above(m) /\ ~ (j > j)
    <3>1. j \in Nat
      OBVIOUS
    <3> QED BY <1>8, <3>1
  <2> QED BY <1>4, <2>2, <2>3
<1>7. <<above(j), x>> \in StrictSubsetOrdering(S)
  <2>1. above(j) \in SUBSET S /\ x \in SUBSET S
    BY <1>4
  <2> HIDE DEF above
  <2> QED BY <1>6, <2>1 DEF StrictSubsetOrdering
<1> QED BY <1>3, <1>6, <1>7

\* The image of a finite set under a function, and so under any operator.
LEMMA ImageFinite ==
    ASSUME NEW S, IsFiniteSet(S), NEW f, DOMAIN f = S, f = [x \in S |-> f[x]]
    PROVE  IsFiniteSet({f[x] : x \in S})
<1>1. f \in Surjection(S, {f[x] : x \in S})
  BY DEF Surjection
<1> QED BY <1>1, FS_Surjection

\* SetToSeq lists the members of a finite set.
LEMMA SetToSeqType ==
    ASSUME NEW S, IsFiniteSet(S), NEW T, S \subseteq T
    PROVE  /\ SetToSeq(S) \in Seq(T)
           /\ \A i \in DOMAIN SetToSeq(S) : SetToSeq(S)[i] \in S
           /\ SetToSeq(S) = <<>> <=> S = {}
<1>1. Cardinality(S) \in Nat /\ ExistsBijection(1..Cardinality(S), S)
  BY FS_CardinalityType
<1>2. \E f \in [1..Cardinality(S) -> S] : IsInjective(f)
  BY <1>1 DEF ExistsBijection, Bijection, Injection
<1>3. SetToSeq(S) \in [1..Cardinality(S) -> S]
  <2> DEFINE Q(f) == f \in [1..Cardinality(S) -> S] /\ IsInjective(f)
  <2>1. \E f : Q(f)
    BY <1>2
  <2>2. SetToSeq(S) = CHOOSE f \in [1..Cardinality(S) -> S] : IsInjective(f)
    BY DEF SetToSeq
  <2> QED BY <1>2, <2>2
<1>4. Cardinality(S) = 0 <=> S = {}
  BY FS_EmptySet
<1>5. SetToSeq(S) \in Seq(S) /\ Len(SetToSeq(S)) = Cardinality(S)
  BY <1>1, <1>3
<1>6. SetToSeq(S) \in Seq(T)
  BY <1>5, SeqMonotonic
<1> QED BY <1>1, <1>3, <1>4, <1>5, <1>6


-----------------------------------------------------------------------------
(* Discovery: names, roots and pairs.                                         *)

LEMMA ExtractDomainFolder ==
    ASSUME NEW p \in Paths
    PROVE  \E i \in 1..Len(p) : ExtractDomain(p) = p[i]
<1>1. p \in Seq(Seq(STRING) \ {<<>>}) /\ p # <<>> /\ Len(p) \in Nat \ {0}
  BY DiscoveryAssumption, EmptySeq
<1> DEFINE telling == {i \in 1..Len(p) : i = 1 \/ p[i] \notin Generic}
<1>2. telling \in SUBSET Nat /\ telling # {} /\ IsFiniteSet(telling)
  <2>1. 1 \in telling /\ telling \in SUBSET (1..Len(p))
    BY <1>1
  <2>2. IsFiniteSet(telling)
    <3>1. IsFiniteSet(1..Len(p))
      BY <1>1, FS_Interval
    <3> HIDE DEF telling
    <3> QED BY <2>1, <3>1, FS_Subset
  <2> QED BY <1>1, <2>1, <2>2
<1>3. \E i \in telling : \A j \in telling : j <= i
  BY <1>2, LargestExists
<1>4. ExtractDomain(p) = p[CHOOSE i \in telling : \A j \in telling : j <= i]
  BY DEF ExtractDomain
<1>5. (CHOOSE i \in telling : \A j \in telling : j <= i) \in telling
  BY <1>3
<1> QED BY <1>4, <1>5

\* Both names of a webroot are sequences of labels, one at least.
LEMMA NamesOfPath ==
    ASSUME NEW p \in Paths
    PROVE  NamesOf(p) \subseteq Seq(STRING) \ {<<>>} /\ NamesOf(p) \subseteq Names
<1>1. p \in Seq(Seq(STRING) \ {<<>>}) /\ p # <<>> /\ Len(p) \in Nat \ {0}
  BY DiscoveryAssumption, EmptySeq
<1>2. ExtractDomain(p) \in Seq(STRING) \ {<<>>}
  BY <1>1, ExtractDomainFolder, ElementOfSeq
<1>3. Base(p) \in Seq(STRING) \ {<<>>}
  BY <1>1, ElementOfSeq DEF Base, Last
<1> QED BY <1>2, <1>3 DEF NamesOf, Names

LEMMA NamesFinite == IsFiniteSet(Names)
<1> DEFINE f == [p \in Paths |-> NamesOf(p)]
<1>1. IsFiniteSet({f[p] : p \in Paths})
  <2> HIDE DEF f
  <2>1. DOMAIN f = Paths /\ f = [p \in Paths |-> f[p]]
    BY DEF f
  <2>2. IsFiniteSet(Paths)
    BY DiscoveryAssumption
  <2> QED BY <2>1, <2>2, ImageFinite
<1>2. \A N \in {f[p] : p \in Paths} : IsFiniteSet(N)
  <2> SUFFICES ASSUME NEW p \in Paths PROVE IsFiniteSet(NamesOf(p))
    OBVIOUS
  <2>1. IsFiniteSet({ExtractDomain(p)})
    BY FS_Singleton
  <2>2. IsFiniteSet({ExtractDomain(p)} \cup {Base(p)})
    BY <2>1, FS_AddElement
  <2> QED BY <2>2 DEF NamesOf
<1>3. Names = UNION {f[p] : p \in Paths}
  BY DEF Names
<1> QED
  <2> HIDE DEF f
  <2> QED BY <1>1, <1>2, <1>3, FS_UNION

\* The places of the roots hold webroots.
LEMMA ScanType ==
    /\ Scan \subseteq Nat /\ IsFiniteSet(Scan)
    /\ \A i \in Scan : Found[i] \in Paths
<1>1. Found \in Seq(Paths)
  BY DiscoveryAssumption, SeqMonotonic, ConcatProperties DEF Found
<1>2. Scan \subseteq 1..Len(Found) /\ Len(Found) \in Nat
  BY <1>1, LenProperties DEF Scan
<1>3. IsFiniteSet(1..Len(Found))
  BY <1>2, FS_Interval
<1>4. IsFiniteSet(Scan)
  BY <1>2, <1>3, FS_Subset
<1>5. \A i \in Scan : Found[i] \in Paths
  BY <1>1, <1>2, ElementOfSeq
<1> QED BY <1>2, <1>4, <1>5

LEMMA PairSitesType ==
    ASSUME NEW roots, roots \subseteq Nat, IsFiniteSet(roots),
           \A i \in roots : Found[i] \in Paths
    PROVE  /\ PairSites(roots) \subseteq
                [live : Paths, stage : Paths \cup {NoPath}, domain : Names]
           /\ \A pair \in PairSites(roots) : pair.domain = ExtractDomain(pair.live)
           /\ IsFiniteSet(PairSites(roots))
           /\ \A pair \in PairSites(roots) : pair.stage # NoPath =>
                /\ ~ IsStaging(pair.domain)
                /\ \E i \in 1..Len(StagePrefixes) :
                     ExtractDomain(pair.stage) = <<StagePrefixes[i]>> \o pair.domain
           /\ \A a, b \in PairSites(roots) : a.domain = b.domain => a = b
           /\ \A a, b \in PairSites(roots) : b.stage # NoPath => a.domain # ExtractDomain(b.stage)
           /\ \A i \in roots : \E pair \in PairSites(roots) :
                \/ ExtractDomain(Found[i]) = pair.domain
                \/ pair.stage # NoPath /\ ExtractDomain(Found[i]) = ExtractDomain(pair.stage)
<1> DEFINE names == {ExtractDomain(Found[i]) : i \in roots}
           last(n) == CHOOSE i \in roots :
                         /\ ExtractDomain(Found[i]) = n
                         /\ \A j \in roots : ExtractDomain(Found[j]) = n => j <= i
           byDomain == [n \in names |-> Found[last(n)]]
           stagingOf(n) == {i \in 1..Len(StagePrefixes) : <<StagePrefixes[i]>> \o n \in names}
           live == {n \in names : ~ IsStaging(n) /\ stagingOf(n) # {}}
           firstMatch(n) ==
               <<StagePrefixes[CHOOSE i \in stagingOf(n) : \A j \in stagingOf(n) : i <= j]>> \o n
           seen == live \cup {firstMatch(n) : n \in live}
           paired(n) == [live |-> byDomain[n], stage |-> byDomain[firstMatch(n)], domain |-> n]
           alone(n) == [live |-> byDomain[n], stage |-> <<>>, domain |-> n]
<1>1. PairSites(roots) = {paired(n) : n \in live} \cup {alone(n) : n \in names \ seen}
  BY DEF PairSites
<1>2. ASSUME NEW n \in names
      PROVE  byDomain[n] \in Paths /\ ExtractDomain(byDomain[n]) = n
  <2> DEFINE places == {i \in roots : ExtractDomain(Found[i]) = n}
  <2>1. places \in SUBSET Nat /\ places # {} /\ IsFiniteSet(places)
    <3>1. places \subseteq roots
      OBVIOUS
    <3>2. IsFiniteSet(places)
      <4> HIDE DEF places
      <4> QED BY <3>1, FS_Subset
    <3> QED BY <3>2
  <2>2. \E i \in places : \A j \in places : j <= i
    <3> HIDE DEF places
    <3> QED BY <2>1, LargestExists
  <2>3. last(n) \in roots /\ ExtractDomain(Found[last(n)]) = n
    BY <2>2
  <2>4. byDomain[n] = Found[last(n)]
    OBVIOUS
  <2> HIDE DEF last, byDomain
  <2> QED BY <2>3, <2>4
<1>3. ASSUME NEW n \in live  PROVE firstMatch(n) \in names
  <2>1. stagingOf(n) \in SUBSET (1..4) /\ stagingOf(n) # {}
    BY DEF StagePrefixes
  <2>2. \E i \in stagingOf(n) : \A j \in stagingOf(n) : i <= j
    <3> HIDE DEF stagingOf
    <3> QED BY <2>1, SMTT(30)
  <2>3. (CHOOSE i \in stagingOf(n) : \A j \in stagingOf(n) : i <= j) \in stagingOf(n)
    BY <2>2
  <2> QED BY <2>3
<1>4. names \subseteq Names
  BY NamesOfPath DEF NamesOf
<1>5. PairSites(roots) \subseteq [live : Paths, stage : Paths \cup {NoPath}, domain : Names]
  <2>1. ASSUME NEW n \in live
        PROVE  paired(n) \in [live : Paths, stage : Paths \cup {NoPath}, domain : Names]
    <3>1. n \in names /\ firstMatch(n) \in names
      BY <1>3
    <3> HIDE DEF names, firstMatch, byDomain
    <3> QED BY <1>2, <1>4, <3>1
  <2>2. ASSUME NEW n \in names \ seen
        PROVE  alone(n) \in [live : Paths, stage : Paths \cup {NoPath}, domain : Names]
    <3>1. n \in names
      OBVIOUS
    <3> HIDE DEF names, byDomain
    <3> QED BY <1>2, <1>4, <3>1 DEF NoPath
  <2> HIDE DEF paired, alone, live, seen, names
  <2> QED BY <1>1, <2>1, <2>2
<1>6. \A pair \in PairSites(roots) : pair.domain = ExtractDomain(pair.live)
  <2>1. ASSUME NEW n \in names
        PROVE  /\ paired(n).domain = ExtractDomain(paired(n).live)
               /\ alone(n).domain = ExtractDomain(alone(n).live)
    <3> HIDE DEF names, byDomain
    <3> QED BY <1>2
  <2>2. live \subseteq names
    OBVIOUS
  <2> HIDE DEF paired, alone, live, seen, names
  <2> QED BY <1>1, <2>1, <2>2
<1>7. IsFiniteSet(names)
  <2> DEFINE f == [i \in roots |-> ExtractDomain(Found[i])]
  <2>1. DOMAIN f = roots /\ f = [i \in roots |-> f[i]] /\ names = {f[i] : i \in roots}
    OBVIOUS
  <2> HIDE DEF f, names
  <2> QED BY <2>1, ImageFinite
<1>8. IsFiniteSet(live) /\ IsFiniteSet(names \ seen)
  <2>1. live \subseteq names /\ names \ seen \subseteq names
    OBVIOUS
  <2> HIDE DEF live, seen, names
  <2> QED BY <1>7, <2>1, FS_Subset
<1>9. IsFiniteSet({paired(n) : n \in live})
  <2> DEFINE f == [n \in live |-> paired(n)]
  <2>1. DOMAIN f = live /\ f = [n \in live |-> f[n]] /\ {paired(n) : n \in live} = {f[n] : n \in live}
    <3> HIDE DEF live, paired
    <3> QED OBVIOUS
  <2>2. IsFiniteSet({f[n] : n \in live})
    <3>1. IsFiniteSet(live)
      BY <1>8
    <3> HIDE DEF f, live, paired
    <3> QED BY <2>1, <3>1, ImageFinite
  <2> QED BY <2>1, <2>2
<1>10. IsFiniteSet({alone(n) : n \in names \ seen})
  <2> DEFINE rest == names \ seen
             f == [n \in rest |-> alone(n)]
  <2>1. /\ DOMAIN f = rest /\ f = [n \in rest |-> f[n]]
        /\ {alone(n) : n \in rest} = {f[n] : n \in rest}
    <3> HIDE DEF rest, alone
    <3> QED OBVIOUS
  <2>2. IsFiniteSet(rest)
    BY <1>8
  <2>3. IsFiniteSet({alone(n) : n \in rest})
    <3> HIDE DEF f, rest, alone
    <3> QED BY <2>1, <2>2, ImageFinite
  <2> QED BY <2>3
<1>11. IsFiniteSet(PairSites(roots))
  <2> HIDE DEF paired, alone, live, seen, names
  <2> QED BY <1>1, <1>9, <1>10, FS_Union
<1>12. ASSUME NEW n \in live
       PROVE  /\ n \in names /\ ~ IsStaging(n) /\ firstMatch(n) \in names
              /\ \E i \in 1..Len(StagePrefixes) : firstMatch(n) = <<StagePrefixes[i]>> \o n
  <2>1. stagingOf(n) \in SUBSET (1..4) /\ stagingOf(n) # {}
    BY DEF StagePrefixes
  <2>2. \E i \in stagingOf(n) : \A j \in stagingOf(n) : i <= j
    <3> HIDE DEF stagingOf
    <3> QED BY <2>1, SMTT(30)
  <2>3. (CHOOSE i \in stagingOf(n) : \A j \in stagingOf(n) : i <= j) \in 1..Len(StagePrefixes)
    BY <2>2
  <2> QED BY <1>3, <2>3
<1>13. ASSUME NEW n \in live  PROVE IsStaging(firstMatch(n))
  <2>1. PICK i \in 1..Len(StagePrefixes) : firstMatch(n) = <<StagePrefixes[i]>> \o n
    BY <1>12
  <2>2. n \in Seq(STRING) \ {<<>>}
    BY <1>12, NamesOfPath DEF NamesOf
  <2>3. StagePrefixes[i] \in ToSet(StagePrefixes)
    <3>1. DOMAIN StagePrefixes = 1..Len(StagePrefixes)
      BY DEF StagePrefixes
    <3> QED BY <3>1 DEF ToSet
  <2> DEFINE labels == STRING \cup {StagePrefixes[i]}
  <2>4. n \in Seq(labels) /\ Len(n) > 0 /\ <<StagePrefixes[i]>> \in Seq(labels)
    <3>1. n \in Seq(labels)
      BY <2>2, SeqMonotonic
    <3> QED BY <2>2, <3>1, EmptySeq
  <2>5. Len(firstMatch(n)) > 1 /\ firstMatch(n)[1] = StagePrefixes[i]
    <3>1. Len(<<StagePrefixes[i]>> \o n) = 1 + Len(n) /\ (<<StagePrefixes[i]>> \o n)[1] = StagePrefixes[i]
      <4> HIDE DEF labels
      <4> QED BY <2>4
    <3> HIDE DEF firstMatch, live
    <3> QED BY <2>1, <2>4, <3>1, LenProperties
  <2> HIDE DEF firstMatch, live
  <2> QED BY <2>3, <2>5 DEF IsStaging
<1>14. ASSUME NEW n \in live
       PROVE  /\ paired(n) \in PairSites(roots) /\ paired(n).domain = n
              /\ paired(n).stage # NoPath /\ ExtractDomain(paired(n).stage) = firstMatch(n)
  <2>1. paired(n) \in PairSites(roots)
    <3> HIDE DEF paired, alone, live, seen, names
    <3> QED BY <1>1
  <2>2. paired(n).domain = n /\ paired(n).stage = byDomain[firstMatch(n)]
    <3> HIDE DEF byDomain, firstMatch
    <3> QED OBVIOUS
  <2>3. byDomain[firstMatch(n)] \in Paths /\ ExtractDomain(byDomain[firstMatch(n)]) = firstMatch(n)
    <3>1. firstMatch(n) \in names
      <4> HIDE DEF firstMatch, live, names
      <4> QED BY <1>3
    <3> HIDE DEF byDomain, firstMatch, names
    <3> QED BY <1>2, <3>1
  <2>4. NoPath \notin Paths
    BY DiscoveryAssumption DEF NoPath
  <2> HIDE DEF paired, byDomain, firstMatch, live, names
  <2> QED BY <2>1, <2>2, <2>3, <2>4
<1>15. ASSUME NEW n \in names \ seen
       PROVE  alone(n) \in PairSites(roots) /\ alone(n).domain = n /\ alone(n).stage = NoPath
  <2>1. alone(n) \in PairSites(roots)
    <3> HIDE DEF paired, alone, live, seen, names
    <3> QED BY <1>1
  <2> HIDE DEF byDomain, seen, names
  <2> QED BY <2>1 DEF NoPath
<1>16. \A n \in live : n \in seen /\ firstMatch(n) \in seen
  <2> HIDE DEF firstMatch, live
  <2> QED OBVIOUS
<1>17. \A n \in seen : n \in live \/ \E m \in live : n = firstMatch(m)
  <2> HIDE DEF firstMatch, live
  <2> QED OBVIOUS
<1>18. \A pair \in PairSites(roots) :
         (\E n \in live : pair = paired(n)) \/ (\E n \in names \ seen : pair = alone(n))
  <2> HIDE DEF paired, alone, live, seen, names
  <2> QED BY <1>1
<1>19. \A i \in roots : ExtractDomain(Found[i]) \in names
  OBVIOUS
<1> HIDE DEF paired, alone, live, seen, firstMatch, names
<1>20. \A pair \in PairSites(roots) : pair.stage # NoPath =>
         /\ ~ IsStaging(pair.domain)
         /\ \E i \in 1..Len(StagePrefixes) :
              ExtractDomain(pair.stage) = <<StagePrefixes[i]>> \o pair.domain
  <2> SUFFICES ASSUME NEW n \in live
               PROVE  /\ ~ IsStaging(paired(n).domain)
                      /\ \E i \in 1..Len(StagePrefixes) :
                           ExtractDomain(paired(n).stage) = <<StagePrefixes[i]>> \o paired(n).domain
    BY <1>15, <1>18
  <2> QED BY <1>12, <1>14
<1>21. \A a, b \in PairSites(roots) : a.domain = b.domain => a = b
  BY <1>14, <1>15, <1>16, <1>18
<1>22. \A a, b \in PairSites(roots) : b.stage # NoPath => a.domain # ExtractDomain(b.stage)
  BY <1>12, <1>13, <1>14, <1>15, <1>16, <1>18
<1>23. ASSUME NEW i \in roots
       PROVE  \E pair \in PairSites(roots) :
                 \/ ExtractDomain(Found[i]) = pair.domain
                 \/ pair.stage # NoPath /\ ExtractDomain(Found[i]) = ExtractDomain(pair.stage)
  <2>1. PICK n \in names : n = ExtractDomain(Found[i])
    BY <1>19
  <2>2. CASE n \in live
    BY <1>14, <2>1, <2>2
  <2>3. CASE \E m \in live : n = firstMatch(m)
    BY <1>14, <2>1, <2>3
  <2>4. CASE n \notin seen
    BY <1>15, <2>1, <2>4
  <2> QED BY <1>17, <2>2, <2>3, <2>4
<1> QED BY <1>5, <1>6, <1>11, <1>20, <1>21, <1>22, <1>23

LEMMA SitePairsType ==
    /\ sitePairs \in Seq([live : Paths, stage : Paths \cup {NoPath}, domain : Names])
    /\ \A i \in DOMAIN sitePairs : sitePairs[i].domain = ExtractDomain(sitePairs[i].live)
<1>1. /\ PairSites(Scan) \subseteq [live : Paths, stage : Paths \cup {NoPath}, domain : Names]
      /\ \A pair \in PairSites(Scan) : pair.domain = ExtractDomain(pair.live)
      /\ IsFiniteSet(PairSites(Scan))
  BY ScanType, PairSitesType
<1> QED BY <1>1, SetToSeqType DEF sitePairs

\* A prefix can be taken off again.
LEMMA PrefixInjective ==
    ASSUME NEW S, NEW m \in Seq(S), NEW n \in Seq(S), NEW x, NEW y,
           <<x>> \o m = <<y>> \o n
    PROVE  m = n
<1> DEFINE T == S \cup {x, y}
<1>1. m \in Seq(T) /\ n \in Seq(T) /\ <<x>> \in Seq(T) /\ <<y>> \in Seq(T)
  BY SeqMonotonic
<1> HIDE DEF T
<1>2. Len(<<x>> \o m) = 1 + Len(m) /\ Len(<<y>> \o n) = 1 + Len(n)
  BY <1>1
<1>3. Len(m) = Len(n) /\ Len(m) \in Nat
  BY <1>1, <1>2
<1>4. ASSUME NEW k \in 1..Len(m)  PROVE m[k] = n[k]
  <2>1. (<<x>> \o m)[k + 1] = m[k] /\ (<<y>> \o n)[k + 1] = n[k]
    BY <1>1, <1>3
  <2> QED BY <2>1
<1> QED BY <1>1, <1>3, <1>4, SeqEqual

\* The list of sites is a pairing of the webroots found: no folder is the live side of
\* one entry and the staging side of another, each is on one entry only, a staging
\* side is named after its live side, and every name found is on the list, so that a
\* root is left out only for a later one of its name (discovery.go: PairSites).
THEOREM SitesArePaired ==
    /\ \A a, b \in PairSites(Scan) :
          /\ a.live # b.stage
          /\ a.live = b.live \/ (a.stage = b.stage /\ a.stage # NoPath) => a = b
    /\ \A pair \in PairSites(Scan) : pair.stage # NoPath =>
          \E i \in 1..Len(StagePrefixes) :
             ExtractDomain(pair.stage) = <<StagePrefixes[i]>> \o ExtractDomain(pair.live)
    /\ \A i \in Scan : \E pair \in PairSites(Scan) :
          \E root \in {pair.live, pair.stage} \ {NoPath} :
             ExtractDomain(root) = ExtractDomain(Found[i])
<1> DEFINE pairs == PairSites(Scan)
<1>1. /\ pairs \subseteq [live : Paths, stage : Paths \cup {NoPath}, domain : Names]
      /\ \A pair \in pairs : pair.domain = ExtractDomain(pair.live)
      /\ \A pair \in pairs : pair.stage # NoPath =>
            \E i \in 1..Len(StagePrefixes) :
               ExtractDomain(pair.stage) = <<StagePrefixes[i]>> \o pair.domain
      /\ \A a, b \in pairs : a.domain = b.domain => a = b
      /\ \A a, b \in pairs : b.stage # NoPath => a.domain # ExtractDomain(b.stage)
      /\ \A i \in Scan : \E pair \in pairs :
            \/ ExtractDomain(Found[i]) = pair.domain
            \/ pair.stage # NoPath /\ ExtractDomain(Found[i]) = ExtractDomain(pair.stage)
  BY ScanType, PairSitesType
<1>2. NoPath \notin Paths
  BY DiscoveryAssumption DEF NoPath
<1> HIDE DEF pairs
<1>3. ASSUME NEW a \in pairs, NEW b \in pairs  PROVE a.live # b.stage
  BY <1>1, <1>2
<1>4. ASSUME NEW a \in pairs, NEW b \in pairs, a.live = b.live  PROVE a = b
  BY <1>1, <1>4
<1>5. ASSUME NEW a \in pairs, NEW b \in pairs, a.stage = b.stage, a.stage # NoPath
      PROVE  a = b
  <2>1. PICK i \in 1..Len(StagePrefixes) :
           ExtractDomain(a.stage) = <<StagePrefixes[i]>> \o a.domain
    BY <1>1, <1>5
  <2>2. PICK j \in 1..Len(StagePrefixes) :
           ExtractDomain(b.stage) = <<StagePrefixes[j]>> \o b.domain
    BY <1>1, <1>5
  <2>3. a.domain \in Seq(STRING) /\ b.domain \in Seq(STRING)
    BY <1>1, NamesOfPath DEF NamesOf
  <2>4. a.domain = b.domain
    BY <1>5, <2>1, <2>2, <2>3, PrefixInjective
  <2> QED BY <1>1, <2>4
<1>6. ASSUME NEW pair \in pairs, pair.stage # NoPath
      PROVE  \E i \in 1..Len(StagePrefixes) :
                ExtractDomain(pair.stage) = <<StagePrefixes[i]>> \o ExtractDomain(pair.live)
  BY <1>1, <1>6
<1>7. ASSUME NEW i \in Scan
      PROVE  \E pair \in pairs : \E root \in {pair.live, pair.stage} \ {NoPath} :
                ExtractDomain(root) = ExtractDomain(Found[i])
  BY <1>1, <1>2
<1> QED BY <1>3, <1>4, <1>5, <1>6, <1>7 DEF pairs

\* The pairs are constants, and so the same before and after a step.
LEMMA SitePairsConstant == sitePairs' = sitePairs
BY DEF sitePairs, PairSites, Scan, Found

-----------------------------------------------------------------------------
(* SavedSites: the names, the list and the backups.                           *)

LEMMA DomainFromPathType ==
    ASSUME NEW p \in Paths
    PROVE  DomainFromPath(p) \in NamesOf(p) /\ DomainFromPath(p) \in Names
BY NamesOfPath DEF DomainFromPath, NamesOf

LEMMA SavedNotMarker ==
    /\ NoConfig # Torn /\ NoConfig \notin Saved /\ Torn \notin Saved
    /\ Saved \subseteq Config /\ NoPath \notin Paths
<1>1. NoPath \notin Paths
  BY DiscoveryAssumption DEF NoPath
<1>2. Saved \subseteq Config
  BY DEF Saved
<1> QED BY <1>1, <1>2, TuiAssumption

\* The list of the readable configs among those of s.
ListOf(s) ==
    SetToSeq({[domain |-> n, config |-> s[n]] : n \in {n \in Names : s[n] \notin {NoConfig, Torn}}})

LEMMA ListOfType ==
    ASSUME NEW s \in [Names -> Saved \cup {NoConfig, Torn}]
    PROVE  /\ ListOf(s) \in Seq([domain : Names, config : Saved])
           /\ \A i \in DOMAIN ListOf(s) : s[ListOf(s)[i].domain] # NoConfig
<1> DEFINE found == {n \in Names : s[n] \notin {NoConfig, Torn}}
           f == [n \in found |-> [domain |-> n, config |-> s[n]]]
           S == {f[n] : n \in found}
<1>1. IsFiniteSet(found)
  BY NamesFinite, FS_Subset
<1>2. IsFiniteSet(S)
  <2>1. DOMAIN f = found /\ f = [n \in found |-> f[n]]
    OBVIOUS
  <2> HIDE DEF f, found
  <2> QED BY <1>1, <2>1, ImageFinite
<1>3. ASSUME NEW n \in found
      PROVE  f[n] \in [domain : Names, config : Saved] /\ s[f[n].domain] # NoConfig
  <2>1. f[n] = [domain |-> n, config |-> s[n]]
    OBVIOUS
  <2>2. n \in Names /\ s[n] \in Saved /\ s[n] # NoConfig
    OBVIOUS
  <2> HIDE DEF f
  <2> QED BY <2>1, <2>2
<1>4. \A x \in S : x \in [domain : Names, config : Saved] /\ s[x.domain] # NoConfig
  <2> HIDE DEF f, found
  <2> QED BY <1>3
<1>5. ListOf(s) = SetToSeq(S)
  <2>1. S = {[domain |-> n, config |-> s[n]] : n \in found}
    OBVIOUS
  <2> QED BY <2>1 DEF ListOf
<1> HIDE DEF S
<1>6. S \subseteq [domain : Names, config : Saved]
  BY <1>4
<1>7. /\ SetToSeq(S) \in Seq([domain : Names, config : Saved])
      /\ \A i \in DOMAIN SetToSeq(S) : SetToSeq(S)[i] \in S
  BY <1>2, <1>6, SetToSeqType
<1> QED BY <1>4, <1>5, <1>7

LEMMA BackupFinite == IsFiniteSet(Backup)
<1> DEFINE D == Paths \X (1..MaxBackups)
           f == [x \in D |-> [live |-> x[1], time |-> x[2]]]
<1>1. IsFiniteSet(Paths) /\ IsFiniteSet(1..MaxBackups)
  BY DiscoveryAssumption, TuiAssumption, FS_Interval
<1>2. IsFiniteSet(D)
  BY <1>1, FS_Product
<1>3. Backup \subseteq {f[x] : x \in D}
  <2> SUFFICES ASSUME NEW b \in Backup PROVE b \in {f[x] : x \in D}
    OBVIOUS
  <2>1. <<b.live, b.time>> \in D /\ b = f[<<b.live, b.time>>]
    BY DEF Backup
  <2> QED BY <2>1
<1>4. DOMAIN f = D /\ f = [x \in D |-> f[x]]
  OBVIOUS
<1>5. IsFiniteSet({f[x] : x \in D})
  <2> HIDE DEF f, D
  <2> QED BY <1>2, <1>4, ImageFinite
<1> QED
  <2> HIDE DEF f, D
  <2> QED BY <1>3, <1>5, FS_Subset

LEMMA ListBackupsType ==
    ASSUME DiskOK, NEW n \in Names
    PROVE  /\ ListBackups(n) \in Seq(Backup)
           /\ \A i \in DOMAIN ListBackups(n) : ListBackups(n)[i] \in backups[n]
<1>1. backups[n] \ {Orphan} \subseteq Backup
  BY DEF DiskOK, Disks
<1>2. IsFiniteSet(backups[n] \ {Orphan})
  BY <1>1, BackupFinite, FS_Subset
<1> QED BY <1>1, <1>2, SetToSeqType DEF ListBackups

-----------------------------------------------------------------------------
(* The inductive invariant.                                                   *)

SyncScreens == {"credentials", "syncParams", "tableSelect", "excludes", "confirm"}
PromoteScreens == {"promoteSelect", "promoteConfirm", "promoteRunning"}
RestoreScreens == {"restoreList", "restoreConfirm", "restoreRunning"}

\* What the list in memory offers has a live webroot and was not deleted since.
Offered ==
    \A i \in DOMAIN savedSites :
        savedSites[i].config.live # NoPath /\ savedSites[i].domain \notin gone

\* Before the first screen m.cfg has a config of its own; the screens of a promote
\* and a restore have one with a live webroot.
Working ==
    /\ step \in {"starting", "promoteMode", "restoreMode"} => alias = 0
    /\ step \in {"promoteMode", "restoreMode"} \cup PromoteScreens \cup RestoreScreens =>
         Cfg.live # NoPath

\* The screens of a sync have the databases of the folders they copy.
SyncReady ==
    step \in SyncScreens \cup {"running"} =>
        liveWP = Cfg.live /\ stageWP = Cfg.stage /\ liveWP # Nil /\ stageWP # Nil

\* The live webroot of a sync was selected after the last deletion of its names.
Selected ==
    step \in SyncScreens \/ (step = "paths" /\ ~ OnPairs /\ cursor # 0) =>
        NamesOf(Cfg.live) \cap gone = {}

\* The promote screens show the items of the folders they work on.
PromoteReady ==
    step \in PromoteScreens => shown.assets = [live |-> Cfg.live, stage |-> Cfg.stage]

\* The cursor and the marks are inside the lists from the first screen on that shows them.
InLists ==
    /\ cursor = -1 => step \in {"tableSelect"} \cup Ended
    /\ step = "syncParams" => cursor \in 0..2
    /\ step = "promoteSelect" => \A i \in shown.picked : shown.labels[i + 1] = "item"
    /\ step = "restoreList" /\ shown.restores # <<>> => cursor < Len(shown.restores)

\* What the current screen needs.
Fits == Working /\ SyncReady /\ Selected /\ PromoteReady /\ InLists /\ Drawable

IInv == TypeOK /\ Offered /\ StaysDeleted /\ Fits

\* The types of what a key on a screen may change.
ScreenType ==
    /\ step \in Screens \cup Ended \cup {"starting", "promoteMode", "restoreMode"}
    /\ cursor \in Nat \cup {-1} /\ (cursor = -1 => shown.tables = 0)
    /\ pathMode \in {"pairs", "manual"} /\ {showHelp, confirmQuit} \subseteq BOOLEAN
    /\ shown \in Lists

\* What the proofs use of the invariant in every case.
LEMMA TypeFacts ==
    ASSUME IInv
    PROVE  /\ Cfg \in Config
           /\ cursor \in Int /\ cursor >= -1 /\ shown.tables \in Nat /\ shown.excludes \in Nat
           /\ Len(savedSites) \in Nat /\ DOMAIN savedSites = 1..Len(savedSites)
           /\ Len(sitePairs) \in Nat /\ DOMAIN sitePairs = 1..Len(sitePairs)
           /\ Len(shown.labels) \in Nat /\ DOMAIN shown.labels = 1..Len(shown.labels)
           /\ Len(shown.restores) \in Nat /\ DOMAIN shown.restores = 1..Len(shown.restores)
           /\ savedSites # <<>> => Len(savedSites) > 0
           /\ shown.labels # <<>> => Len(shown.labels) > 0
           /\ shown.restores # <<>> => Len(shown.restores) > 0
<1> USE DEF IInv, TypeOK
<1>1. Len(savedSites) \in Nat /\ DOMAIN savedSites = 1..Len(savedSites)
  BY LenProperties
<1>2. Cfg \in Config
  <2>1. CASE alias = 0
    BY <2>1 DEF Cfg
  <2>2. CASE alias # 0
    <3>1. alias \in 1..Len(savedSites)
      BY <1>1, <2>2
    <3>2. savedSites[alias] \in [domain : Names, config : Config]
      BY <3>1, ElementOfSeq
    <3> QED BY <2>2, <3>2 DEF Cfg
  <2> QED BY <2>1, <2>2
<1>3. Len(sitePairs) \in Nat /\ DOMAIN sitePairs = 1..Len(sitePairs)
  BY SitePairsType, LenProperties
<1>4. Len(shown.labels) \in Nat /\ DOMAIN shown.labels = 1..Len(shown.labels)
  BY LenProperties DEF Lists
<1>5. Len(shown.restores) \in Nat /\ DOMAIN shown.restores = 1..Len(shown.restores)
  BY LenProperties DEF Lists
<1>6. cursor \in Int /\ cursor >= -1 /\ shown.tables \in Nat /\ shown.excludes \in Nat
  BY DEF Lists
<1>7. savedSites # <<>> => Len(savedSites) > 0
  BY EmptySeq
<1>8. shown.labels # <<>> => Len(shown.labels) > 0
  BY EmptySeq DEF Lists
<1>9. shown.restores # <<>> => Len(shown.restores) > 0
  BY EmptySeq DEF Lists
<1> QED BY <1>1, <1>2, <1>3, <1>4, <1>5, <1>6, <1>7, <1>8, <1>9

\* A key that changes only the screen leaves the rest of the invariant alone.
LEMMA ScreenStep ==
    ASSUME IInv, UNCHANGED <<disk, memory, parsed, gone, outside>>, ScreenType', Fits'
    PROVE  IInv'
<1> USE DEF disk, memory, parsed, outside
<1>1. TypeOK'
  BY DEF IInv, TypeOK, ScreenType, DiskOK
<1>2. Offered'
  BY DEF IInv, Offered
<1>3. StaysDeleted'
  BY DEF IInv, StaysDeleted
<1> QED BY <1>1, <1>2, <1>3 DEF IInv

LEMMA SameCfg == memory' = memory => Cfg' = Cfg
BY DEF memory, Cfg


-----------------------------------------------------------------------------
(* The keys that change the screen only.                                      *)

\* Screens that need nothing.
Free == {"settings"} \cup Done \cup Ended

LEMMA FreeStep ==
    ASSUME IInv, UNCHANGED <<disk, memory, parsed, gone, outside, shown, pathMode>>,
           step' \in Free, cursor' = cursor \/ cursor' = 0, cursor' = -1 => step' \in Ended,
           {showHelp', confirmQuit'} \subseteq BOOLEAN
    PROVE  IInv'
<1>1. ScreenType'
  BY TypeFacts DEF IInv, TypeOK, ScreenType, Free, Screens
<1>2. Fits'
  BY SameCfg DEF IInv, Fits, Working, SyncReady, Selected, PromoteReady, InLists, Drawable,
     SyncScreens, PromoteScreens, RestoreScreens, Free, Done, Ended
<1> QED BY <1>1, <1>2, ScreenStep

LEMMA StayStep ==
    ASSUME IInv, UNCHANGED <<disk, memory, parsed, gone, outside, shown, pathMode, step, cursor>>,
           {showHelp', confirmQuit'} \subseteq BOOLEAN
    PROVE  IInv'
<1>1. ScreenType'
  BY DEF IInv, TypeOK, ScreenType
<1>2. Fits'
  BY SameCfg, SitePairsConstant DEF IInv, Fits, Working, SyncReady, Selected, PromoteReady,
     InLists, Drawable, OnPairs, memory, parsed
<1> QED BY <1>1, <1>2, ScreenStep

\* Where going back leads, screen by screen.
LEMMA BackToScreens ==
    \/ step \in {"paths", "settings", "promoteSelect", "restoreList", "deleteSelect"}
       /\ BackTo \in {"paths", "startup", step} /\ (BackTo = "startup" => savedSites # <<>>)
    \/ step = "credentials" /\ BackTo = "paths"
    \/ step \in SyncScreens /\ BackTo \in SyncScreens
    \/ step = "promoteConfirm" /\ BackTo = "promoteSelect"
    \/ step = "restoreConfirm" /\ BackTo = "restoreList"
    \/ BackTo = step
<1>1. CASE step = "paths"
  BY <1>1 DEF BackTo, Home, FirstScreen
<1>2. CASE step = "settings"
  BY <1>2 DEF BackTo, Home, FirstScreen
<1>3. CASE step \in {"promoteSelect", "restoreList", "deleteSelect"}
  BY <1>3 DEF BackTo
<1>4. CASE step \in {"credentials", "syncParams", "tableSelect", "excludes", "confirm"}
  BY <1>4 DEF BackTo, SyncScreens
<1>5. CASE step \in {"promoteConfirm", "restoreConfirm"}
  BY <1>5 DEF BackTo
<1>6. CASE step \notin {"paths", "settings", "promoteSelect", "restoreList", "deleteSelect",
                      "credentials", "syncParams", "tableSelect", "excludes", "confirm",
                      "promoteConfirm", "restoreConfirm"}
  BY <1>6 DEF BackTo
<1> QED BY <1>1, <1>2, <1>3, <1>4, <1>5, <1>6

LEMMA GoBackStep ==
    ASSUME IInv, GoBack
    PROVE  IInv'
<1>1. /\ UNCHANGED <<disk, memory, parsed, gone, outside, showHelp, confirmQuit>>
      /\ shown' = [shown EXCEPT !.inputOK = shown'.inputOK]
      /\ shown'.inputOK \in BOOLEAN
  BY DEF GoBack, Elsewhere, IInv, TypeOK, Lists
<1>4. /\ shown' \in Lists
      /\ shown'.tables = shown.tables /\ shown'.excludes = shown.excludes
      /\ shown'.labels = shown.labels /\ shown'.picked = shown.picked
      /\ shown'.assets = shown.assets /\ shown'.restores = shown.restores
      /\ shown'.marked = shown.marked
  BY <1>1 DEF IInv, TypeOK, Lists
<1>2. CASE Stuck
  <2>1. UNCHANGED <<step, cursor, pathMode>>
    BY <1>2 DEF GoBack, GoTo, Stuck, BackTo, Home, FirstScreen
  <2>2. ScreenType'
    BY <1>1, <1>4, <2>1 DEF IInv, TypeOK, ScreenType
  <2>3. Fits'
    BY <1>1, <1>4, <2>1, SameCfg, SitePairsConstant DEF IInv, Fits, Working, SyncReady, Selected,
       PromoteReady, InLists, Drawable, OnPairs, memory, parsed
  <2> QED BY <1>1, <2>2, <2>3, ScreenStep
<1>3. CASE ~ Stuck
  <2>1. cursor' = 0 /\ step' = BackTo /\ pathMode' \in {"pairs", "manual"}
    BY <1>3 DEF GoBack, GoTo, IInv, TypeOK
  <2>2. step \in Screens \cup Ended \cup {"starting", "promoteMode", "restoreMode"}
    BY DEF IInv, TypeOK
  <2>3. /\ step' \in Screens \cup Ended \cup {"starting", "promoteMode", "restoreMode"}
        /\ step' \in {"starting", "promoteMode", "restoreMode"} => step' = step
        /\ step' \in PromoteScreens => step \in PromoteScreens
        /\ step' \in RestoreScreens => step \in RestoreScreens
    BY <2>1, <2>2, BackToScreens DEF SyncScreens, PromoteScreens, RestoreScreens, Screens
  <2>4. /\ step' \in SyncScreens \cup {"running"} => step \in SyncScreens \cup {"running"}
        /\ step' \in SyncScreens => step \in SyncScreens
        /\ step' = "promoteSelect" => step \in {"promoteSelect", "promoteConfirm"}
        /\ step' = "startup" => step = "startup" \/ savedSites # <<>>
        /\ step' \in {"promoteConfirm", "restoreConfirm", "restoreRunning",
                      "deleteSelect", "deleteConfirm"} => step' = step
    BY <2>1, BackToScreens DEF SyncScreens
  <2>5. ScreenType'
    BY <1>1, <1>4, <2>1, <2>3, TypeFacts DEF IInv, TypeOK, ScreenType
  <2>6. Cfg' = Cfg
    BY <1>1, SameCfg
  <2>7. Working'
    BY <1>1, <2>3, <2>6 DEF IInv, Fits, Working, memory
  <2>8. SyncReady'
    BY <1>1, <2>4, <2>6 DEF IInv, Fits, SyncReady, parsed
  <2>9. Selected'
    BY <1>1, <2>1, <2>4, <2>6 DEF IInv, Fits, Selected
  <2>10. PromoteReady'
    BY <1>1, <1>4, <2>3, <2>6 DEF IInv, Fits, PromoteReady
  <2>11. InLists'
    BY <1>1, <1>4, <2>1, <2>4, TypeFacts DEF IInv, Fits, InLists, Drawable, TypeOK, Lists
  <2>12. Drawable'
    <3>1. UNCHANGED <<savedSites, liveWP, stageWP>> /\ cursor' = 0
      BY <1>1, <2>1 DEF memory, parsed
    <3>2. step' = "startup" => savedSites' # <<>> /\ cursor' <= Len(savedSites')
      BY <2>4, <3>1, TypeFacts DEF IInv, Fits, Drawable
    <3>3. step' = "paths" /\ OnPairs' => cursor' <= Len(sitePairs')
      BY <3>1, TypeFacts, SitePairsConstant
    <3>4. step' \in {"credentials", "syncParams", "tableSelect", "excludes", "confirm", "running"} =>
            liveWP' # Nil /\ stageWP' # Nil
      BY <2>8 DEF SyncReady, SyncScreens
    <3>5. /\ step' = "tableSelect" /\ shown'.tables > 0 => cursor' \in 0..(shown'.tables - 1)
          /\ step' = "excludes" /\ shown'.excludes > 0 => cursor' \in 0..(shown'.excludes - 1)
      BY <1>4, <3>1, TypeFacts
    <3>6. step' \in {"promoteSelect", "promoteConfirm"} /\ shown'.labels # <<>> =>
            cursor' \in 0..(Len(shown'.labels) - 1)
      BY <1>4, <3>1, TypeFacts
    <3>7. step' = "promoteConfirm" => \A i \in shown'.picked : shown'.labels[i + 1] = "item"
      BY <1>4, <2>4 DEF IInv, Fits, Drawable
    <3>8. step' \in {"restoreConfirm", "restoreRunning"} =>
            cursor' \in 0..(Len(shown'.restores) - 1)
      BY <1>4, <2>4, <3>1, TypeFacts DEF IInv, Fits, Drawable
    <3>9. step' \in {"deleteSelect", "deleteConfirm"} =>
            cursor' < Len(savedSites') /\ \A i \in shown'.marked : i < Len(savedSites')
      BY <1>4, <2>4, <3>1, TypeFacts DEF IInv, Fits, Drawable, InLists, Ended
    <3> QED BY <3>2, <3>3, <3>4, <3>5, <3>6, <3>7, <3>8, <3>9 DEF Drawable
  <2> QED BY <1>1, <2>5, <2>7, <2>8, <2>9, <2>10, <2>11, <2>12, ScreenStep DEF Fits
<1> QED BY <1>2, <1>3

\* The keys before the screens.
LEMMA GlobalKeys ==
    ASSUME IInv, NEW k \in Keys,
           AnswerQuit(k) \/ AskQuit \/ Quit(k) \/ ToggleHelp \/ CloseHelp(k) \/ OpenSettings
    PROVE  IInv'
<1>1. {showHelp, confirmQuit} \subseteq BOOLEAN /\ (cursor = -1 => step \in {"tableSelect"} \cup Ended)
  BY DEF IInv, TypeOK, Fits, InLists
<1>2. CASE AnswerQuit(k)
  <2>1. CASE k = "y"
    BY <1>1, <1>2, <2>1, FreeStep DEF AnswerQuit, Elsewhere, Free, Ended
  <2>2. CASE k # "y"
    BY <1>1, <1>2, <2>2, StayStep DEF AnswerQuit, Elsewhere
  <2> QED BY <2>1, <2>2
<1>3. CASE AskQuit
  BY <1>1, <1>3, StayStep DEF AskQuit, Elsewhere
<1>4. CASE Quit(k)
  BY <1>1, <1>4, FreeStep DEF Quit, Elsewhere, Free, Ended
<1>5. CASE ToggleHelp
  BY <1>1, <1>5, StayStep DEF ToggleHelp, Elsewhere
<1>6. CASE CloseHelp(k)
  BY <1>1, <1>6, StayStep DEF CloseHelp, Elsewhere
<1>7. CASE OpenSettings
  BY <1>1, <1>7, FreeStep DEF OpenSettings, GoTo, KeepMode, Elsewhere, Free
<1> QED BY <1>2, <1>3, <1>4, <1>5, <1>6, <1>7

LEMMA StartupKeys ==
    ASSUME IInv, NEW k \in Keys, step = "startup",
           StartupMove(k) \/ StartupNew(k) \/ StartupDelete(k)
    PROVE  IInv'
<1>1. CASE StartupMove(k)
  <2>1. UNCHANGED <<disk, memory, parsed, gone, outside, shown, step, pathMode, showHelp, confirmQuit>>
    BY <1>1 DEF StartupMove, Scroll, Elsewhere
  <2>2. cursor \in 0..Len(savedSites)
    BY TypeFacts DEF IInv, Fits, InLists, Drawable, Ended
  <2>3. cursor' \in 0..Len(savedSites)
    BY <1>1, <2>2, TypeFacts DEF StartupMove, Scroll, Moved
  <2>4. ScreenType'
    BY <2>1, <2>3, TypeFacts DEF IInv, TypeOK, ScreenType
  <2>5. Fits'
    BY <2>1, <2>3, SameCfg DEF IInv, Fits, Working, SyncReady, Selected, PromoteReady, InLists,
       Drawable, SyncScreens, PromoteScreens, RestoreScreens, memory
  <2> QED BY <2>1, <2>4, <2>5, ScreenStep
<1>2. CASE StartupNew(k)
  <2>1. /\ UNCHANGED <<disk, memory, parsed, gone, outside, shown, pathMode, showHelp, confirmQuit>>
        /\ step' = "paths" /\ cursor' = 0
    BY <1>2 DEF StartupNew, GoTo, KeepMode, Elsewhere
  <2>2. ScreenType'
    BY <2>1, TypeFacts DEF IInv, TypeOK, ScreenType, Screens
  <2>3. Fits'
    BY <2>1, TypeFacts, SitePairsConstant DEF Fits, Working, SyncReady, Selected, PromoteReady,
       InLists, Drawable, SyncScreens, PromoteScreens, RestoreScreens
  <2> QED BY <2>1, <2>2, <2>3, ScreenStep
<1>3. CASE StartupDelete(k)
  <2>1. /\ UNCHANGED <<disk, memory, parsed, gone, outside, pathMode, showHelp, confirmQuit>>
        /\ step' = "deleteSelect" /\ cursor' = 0 /\ savedSites # <<>>
        /\ shown' = [shown EXCEPT !.marked = {}]
    BY <1>3 DEF StartupDelete, GoTo, KeepMode, Elsewhere
  <2>2. shown' \in Lists /\ shown'.marked = {}
    BY <2>1 DEF IInv, TypeOK, Lists
  <2>3. ScreenType'
    BY <2>1, <2>2, TypeFacts DEF IInv, TypeOK, ScreenType, Screens
  <2>4. Fits'
    BY <2>1, <2>2, TypeFacts DEF Fits, Working, SyncReady, Selected, PromoteReady,
       InLists, Drawable, SyncScreens, PromoteScreens, RestoreScreens, memory
  <2> QED BY <2>1, <2>3, <2>4, ScreenStep
<1> QED BY <1>1, <1>2, <1>3

LEMMA PathsKeys ==
    ASSUME IInv, NEW k \in Keys, PairsMove(k) \/ PairsCustom(k)
    PROVE  IInv'
<1>1. CASE PairsMove(k)
  <2>1. /\ UNCHANGED <<disk, memory, parsed, gone, outside, shown, step, pathMode, showHelp, confirmQuit>>
        /\ step = "paths" /\ OnPairs
    BY <1>1 DEF PairsMove, Scroll, Elsewhere
  <2>2. cursor \in 0..Len(sitePairs)
    BY <2>1, TypeFacts DEF IInv, Fits, InLists, Drawable, Ended
  <2>3. cursor' \in 0..Len(sitePairs)
    BY <1>1, <2>2, TypeFacts DEF PairsMove, Scroll, Moved
  <2>4. ScreenType'
    BY <2>1, <2>3, TypeFacts DEF IInv, TypeOK, ScreenType
  <2>5. OnPairs'
    BY <2>1, SitePairsConstant DEF OnPairs
  <2>6. Fits'
    BY <2>1, <2>3, <2>5, SitePairsConstant, TypeFacts DEF Fits, Working, SyncReady, Selected,
       PromoteReady, InLists, Drawable, SyncScreens, PromoteScreens, RestoreScreens
  <2> QED BY <2>1, <2>4, <2>6, ScreenStep
<1>2. CASE PairsCustom(k)
  <2>1. /\ UNCHANGED <<disk, memory, parsed, gone, outside, shown, showHelp, confirmQuit>>
        /\ step' = "paths" /\ cursor' = 0 /\ pathMode' = "manual"
    BY <1>2 DEF PairsCustom, GoTo, Elsewhere
  <2>2. ScreenType'
    BY <2>1, TypeFacts DEF IInv, TypeOK, ScreenType, Screens
  <2>3. Fits'
    BY <2>1, TypeFacts, SitePairsConstant DEF Fits, Working, SyncReady, Selected, PromoteReady,
       InLists, Drawable, SyncScreens, PromoteScreens, RestoreScreens
  <2> QED BY <2>1, <2>2, <2>3, ScreenStep
<1> QED BY <1>1, <1>2

\* From one screen of a sync to another, or to a crash.
LEMMA SyncStep ==
    ASSUME IInv, step \in SyncScreens,
           UNCHANGED <<disk, memory, parsed, gone, outside, pathMode, showHelp, confirmQuit>>,
           shown' \in Lists, cursor' \in Nat \cup {-1}, cursor' = -1 => shown'.tables = 0,
           \/ step' \in SyncScreens /\ cursor' \in Nat
           \/ step' = "tableSelect"
           \/ step' = "crashed",
           step' = "syncParams" => cursor' \in 0..2,
           step' = "tableSelect" /\ shown'.tables > 0 => cursor' \in 0..(shown'.tables - 1),
           step' = "excludes" /\ shown'.excludes > 0 => cursor' \in 0..(shown'.excludes - 1)
    PROVE  IInv'
<1>1. ScreenType'
  BY DEF IInv, TypeOK, ScreenType, Screens, SyncScreens, Ended
<1>2. Cfg' = Cfg
  BY SameCfg
<1>3. Working' /\ PromoteReady'
  BY DEF Working, PromoteReady, SyncScreens, PromoteScreens, RestoreScreens
<1>4. SyncReady' /\ Selected'
  BY <1>2 DEF IInv, Fits, SyncReady, Selected, SyncScreens, parsed
<1>5. InLists'
  BY TypeFacts DEF InLists, SyncScreens, Ended
<1>6. Drawable'
  BY <1>4 DEF SyncReady, Drawable, SyncScreens
<1> QED BY <1>1, <1>3, <1>4, <1>5, <1>6, ScreenStep DEF Fits

\* A jump or an arrow stays in a list that is not empty.
LEMMA JumpedInList ==
    ASSUME NEW k, NEW last \in Int, last >= -1, cursor \in Int, cursor >= -1,
           last >= 0 => cursor \in 0..last
    PROVE  /\ Jumped(k, last) \in Nat \cup {-1}
           /\ Jumped(k, last) = -1 => last = -1
           /\ last >= 0 => Jumped(k, last) \in 0..last
BY DEF Jumped, Moved, PageSize

LEMMA SyncKeys ==
    ASSUME IInv, NEW k \in Keys, step \in SyncScreens,
           \/ UpdateCredentials(k) \/ ParamsType(k) \/ ParamsNext(k) \/ TablesMove(k)
           \/ TablesCycle(k) \/ TablesEnter(k) \/ ExcludesMove(k) \/ ExcludesEnter(k)
    PROVE  IInv'
<1>1. UNCHANGED <<disk, memory, parsed, gone, outside, pathMode, showHelp, confirmQuit>>
  BY DEF UpdateCredentials, ParamsType, ParamsNext, TablesMove, TablesCycle, TablesEnter,
     ExcludesMove, ExcludesEnter, KeepMode, Elsewhere, Scroll, Crash
<1>2. shown \in Lists /\ MaxItems \in Nat
  BY TuiAssumption DEF IInv, TypeOK
<1>3. /\ step # "tableSelect" => cursor \in Nat
      /\ step = "tableSelect" /\ shown.tables > 0 => cursor \in 0..(shown.tables - 1)
      /\ step = "excludes" /\ shown.excludes > 0 => cursor \in 0..(shown.excludes - 1)
      /\ step = "syncParams" => cursor \in 0..2
      /\ cursor = -1 => shown.tables = 0
  BY TypeFacts DEF IInv, TypeOK, Fits, InLists, Drawable, SyncScreens, Ended
<1>4. CASE UpdateCredentials(k)
  <2>1. PICK n \in {0, MaxItems}, wooTables \in BOOLEAN, wooFolder \in BOOLEAN :
          /\ shown' = [shown EXCEPT !.tables = n, !.woo = wooTables, !.inputOK = TRUE]
          /\ IF wooTables \/ wooFolder THEN GoTo("syncParams", 0) ELSE ToTables(n)
    BY <1>4 DEF UpdateCredentials
  <2>2. step = "credentials" /\ shown' \in Lists
    <3>1. n \in Nat
      BY <1>2
    <3>2. shown' \in Lists
      BY <1>2, <2>1, <3>1 DEF Lists
    <3> QED BY <1>4, <3>2 DEF UpdateCredentials
  <2>3. \/ step' = "syncParams" /\ cursor' = 0
        \/ step' = "tableSelect" /\ cursor' = 0
        \/ step' = "crashed" /\ cursor' = cursor
    BY <2>1 DEF GoTo, ToTables
  <2> QED BY <1>1, <1>3, <2>2, <2>3, SyncStep DEF SyncScreens, Lists
<1>5. CASE ParamsType(k)
  <2>1. PICK ok \in BOOLEAN : shown' = [shown EXCEPT !.inputOK = ok]
    BY <1>5 DEF ParamsType
  <2>2. /\ step = "syncParams" /\ step' = step /\ cursor' = cursor
        /\ shown' \in Lists
    BY <1>2, <1>5, <2>1 DEF ParamsType, Lists
  <2> QED BY <1>1, <1>3, <2>2, SyncStep
<1>6. CASE ParamsNext(k)
  <2>1. step = "syncParams" /\ shown' = shown /\ cursor \in 0..2
    BY <1>3, <1>6 DEF ParamsNext
  <2>2. \/ step' = "syncParams" /\ cursor' \in 0..2
        \/ step' = "tableSelect" /\ cursor' = 0
        \/ step' = "crashed" /\ cursor' = cursor
    <3>1. CASE cursor < 2
      <4>1. cursor + 1 \in 0..2 /\ cursor # 2
        BY <2>1, <3>1
      <4>2. GoTo("syncParams", cursor + 1)
        BY <1>6, <3>1, <4>1 DEF ParamsNext
      <4> QED BY <4>1, <4>2 DEF GoTo
    <3>2. CASE cursor = 2 /\ k = "tab"
      BY <1>6, <2>1, <3>2 DEF ParamsNext, GoTo
    <3>3. CASE cursor = 2 /\ k = "enter"
      BY <1>6, <2>1, <3>3 DEF ParamsNext, GoTo, ToTables
    <3> QED BY <1>6, <2>1, <3>1, <3>2, <3>3 DEF ParamsNext
  <2> QED BY <1>1, <1>2, <2>1, <2>2, SyncStep DEF SyncScreens, Lists
<1>7. CASE TablesMove(k)
  <2>1. /\ step = "tableSelect" /\ step' = step /\ shown' = shown
        /\ cursor' = Jumped(k, shown.tables - 1)
    BY <1>7 DEF TablesMove, Scroll
  <2>2. /\ cursor' \in Nat \cup {-1} /\ (cursor' = -1 => shown.tables = 0)
        /\ shown.tables > 0 => cursor' \in 0..(shown.tables - 1)
    BY <1>3, <2>1, TypeFacts, JumpedInList
  <2> QED BY <1>1, <1>2, <2>1, <2>2, SyncStep
<1>8. CASE TablesCycle(k)
  BY <1>1, <1>2, <1>3, <1>8, TypeFacts, SyncStep DEF TablesCycle, Crash
<1>9. CASE TablesEnter(k)
  <2>1. PICK n \in {0, MaxItems} : shown' = [shown EXCEPT !.excludes = n]
    BY <1>9 DEF TablesEnter
  <2>2. shown' \in Lists /\ step' = "excludes" /\ cursor' = 0
    BY <1>2, <1>9, <2>1 DEF TablesEnter, GoTo, Lists
  <2> QED BY <1>1, <2>2, SyncStep DEF SyncScreens, Lists
<1>10. CASE ExcludesMove(k)
  <2>1. /\ step = "excludes" /\ step' = step /\ shown' = shown /\ shown.excludes > 0
        /\ cursor' = Jumped(k, shown.excludes - 1)
    BY <1>10 DEF ExcludesMove, Scroll
  <2>2. cursor' \in 0..(shown.excludes - 1)
    BY <1>3, <2>1, TypeFacts, JumpedInList
  <2> QED BY <1>1, <1>2, <2>1, <2>2, TypeFacts, SyncStep
<1>11. CASE ExcludesEnter(k)
  <2>1. step = "excludes" /\ step' = "confirm" /\ shown' = shown /\ cursor' \in {0, cursor}
    BY <1>11 DEF ExcludesEnter, GoTo
  <2> QED BY <1>1, <1>2, <1>3, <2>1, SyncStep DEF SyncScreens
<1> QED BY <1>4, <1>5, <1>6, <1>7, <1>8, <1>9, <1>10, <1>11

\* From one screen of a promote or a restore to another, with the list as it is.
LEMMA AssetsStep ==
    ASSUME IInv, UNCHANGED <<disk, memory, parsed, gone, outside, pathMode, showHelp, confirmQuit>>,
           \/ step \in PromoteScreens /\ step' \in PromoteScreens
           \/ step \in RestoreScreens /\ step' \in RestoreScreens,
           shown' \in Lists, cursor' \in Nat,
           UNCHANGED <<shown.labels, shown.assets, shown.restores>>,
           step' \in PromoteScreens /\ shown.labels # <<>> => cursor' \in 0..(Len(shown.labels) - 1),
           step' \in PromoteScreens => \A i \in shown'.picked : shown.labels[i + 1] = "item",
           step' \in RestoreScreens /\ shown.restores # <<>> => cursor' \in 0..(Len(shown.restores) - 1),
           step' \in {"restoreConfirm", "restoreRunning"} => shown.restores # <<>>
    PROVE  IInv'
<1>1. ScreenType'
  BY DEF IInv, TypeOK, ScreenType, Screens, PromoteScreens, RestoreScreens, Running
<1>2. Cfg' = Cfg
  BY SameCfg
<1>3. Working'
  BY <1>2 DEF IInv, Fits, Working, PromoteScreens, RestoreScreens
<1>4. PromoteReady'
  BY <1>2 DEF IInv, Fits, PromoteReady, PromoteScreens, RestoreScreens
<1>5. SyncReady' /\ Selected'
  BY DEF SyncReady, Selected, SyncScreens, PromoteScreens, RestoreScreens
<1>6. InLists'
  BY TypeFacts DEF InLists, PromoteScreens, RestoreScreens
<1>7. Drawable'
  BY DEF Drawable, PromoteScreens, RestoreScreens
<1> QED BY <1>1, <1>3, <1>4, <1>5, <1>6, <1>7, ScreenStep DEF Fits

LEMMA AssetsKeys ==
    ASSUME IInv, NEW k \in Keys,
           PromoteMove(k) \/ PromoteToggle(k) \/ PromoteEnter(k) \/ RestoreMove(k) \/ RestoreEnter(k)
    PROVE  IInv'
<1>1. shown \in Lists /\ Len(shown.labels) \in Nat /\ Len(shown.restores) \in Nat
  BY TypeFacts DEF IInv, TypeOK
<1>2. /\ step \in PromoteScreens \cup RestoreScreens => cursor \in Nat
      /\ step \in {"promoteSelect", "promoteConfirm"} =>
            /\ shown.labels # <<>> => cursor \in 0..(Len(shown.labels) - 1)
            /\ \A i \in shown.picked : shown.labels[i + 1] = "item"
      /\ step \in {"restoreList", "restoreConfirm"} /\ shown.restores # <<>> =>
            cursor \in 0..(Len(shown.restores) - 1)
  BY <1>1, TypeFacts
  DEF IInv, TypeOK, Fits, InLists, Drawable, PromoteScreens, RestoreScreens, Ended
<1>3. CASE PromoteMove(k)
  <2> DEFINE last == Len(shown.labels) - 1
             c == Moved(k, last)
  <2>1. /\ UNCHANGED <<disk, memory, parsed, gone, outside, pathMode, showHelp, confirmQuit>>
        /\ step = "promoteSelect" /\ step' = step /\ shown' = shown /\ k \in {"up", "down"}
        /\ cursor' = CASE c = cursor -> c
                       [] c # cursor /\ k = "up" -> IF IsHeader(c) /\ c > 0 THEN c - 1 ELSE c
                       [] c # cursor /\ k = "down" -> IF IsHeader(c) /\ c < last THEN c + 1 ELSE c
    BY <1>3 DEF PromoteMove, Scroll, Elsewhere
  <2>2. cursor \in Nat /\ last \in Int
    BY <1>1, <1>2, <2>1 DEF PromoteScreens
  <2>3. /\ c \in Nat /\ (cursor \in 0..last => c \in 0..last)
        /\ k = "up" \/ c = cursor \/ c \in 0..last
    BY <2>1, <2>2 DEF Moved
  <2>4. cursor' = c \/ (k = "up" /\ c > 0 /\ cursor' = c - 1) \/ (k = "down" /\ c < last /\ cursor' = c + 1)
    <3> HIDE DEF c, last
    <3>1. CASE c = cursor
      BY <2>1, <3>1
    <3>2. CASE c # cursor /\ k = "up"
      BY <2>1, <3>2
    <3>3. CASE c # cursor /\ k = "down"
      BY <2>1, <3>3
    <3> QED BY <2>1, <3>1, <3>2, <3>3
  <2>5. cursor' \in Nat /\ (cursor \in 0..last => cursor' \in 0..last)
    <3> HIDE DEF c, last
    <3> QED BY <2>2, <2>3, <2>4
  <2> QED BY <1>1, <1>2, <2>1, <2>5, AssetsStep DEF PromoteScreens, RestoreScreens
<1>4. CASE PromoteToggle(k)
  <2>1. CASE cursor >= Len(shown.labels)
    <3>1. Crash
      BY <1>4, <2>1 DEF PromoteToggle
    <3> QED BY <3>1, FreeStep, TypeFacts DEF Crash, Elsewhere, Free, Ended, IInv, TypeOK
  <2>2. CASE ~ (cursor >= Len(shown.labels))
    <3>1. /\ UNCHANGED <<disk, memory, parsed, gone, outside, pathMode, showHelp, confirmQuit>>
          /\ step = "promoteSelect" /\ step' = step /\ cursor' = cursor
          /\ shown.labels[cursor + 1] # "header"
          /\ shown' = [shown EXCEPT !.picked = SymDiff(@, {cursor})]
      BY <1>4, <2>2 DEF PromoteToggle, KeepMode, Elsewhere, IsHeader
    <3>2. cursor \in Nat /\ cursor + 1 \in 1..Len(shown.labels)
      BY <1>1, <1>2, <2>2, <3>1 DEF PromoteScreens
    <3>3. shown.labels[cursor + 1] = "item"
      <4>1. shown.labels \in Seq({"header", "item"})
        BY <1>1 DEF Lists
      <4>2. shown.labels[cursor + 1] \in {"header", "item"}
        BY <3>2, <4>1, ElementOfSeq
      <4> QED BY <3>1, <4>2
    <3>4. /\ shown'.picked = SymDiff(shown.picked, {cursor})
          /\ shown'.labels = shown.labels /\ shown'.assets = shown.assets
          /\ shown'.restores = shown.restores
      BY <1>1, <3>1 DEF Lists
    <3>5. shown'.picked \subseteq shown.picked \cup {cursor}
      BY <3>4 DEF SymDiff
    <3>6. shown' \in Lists
      BY <1>1, <3>1, <3>2, <3>4, <3>5 DEF Lists
    <3>7. \A i \in shown'.picked : shown.labels[i + 1] = "item"
      BY <1>2, <3>1, <3>3, <3>5
    <3> QED BY <1>2, <3>1, <3>2, <3>4, <3>6, <3>7, AssetsStep DEF PromoteScreens, RestoreScreens
  <2> QED BY <2>1, <2>2
<1>5. CASE PromoteEnter(k)
  <2>1. /\ UNCHANGED <<disk, memory, parsed, gone, outside, pathMode, showHelp, confirmQuit>>
        /\ shown' = shown /\ cursor' = cursor
        /\ step \in {"promoteSelect", "promoteConfirm"} /\ step' \in PromoteScreens
    BY <1>5 DEF PromoteEnter, KeepMode, Elsewhere, PromoteScreens
  <2> QED BY <1>1, <1>2, <2>1, AssetsStep DEF PromoteScreens, RestoreScreens
<1>6. CASE RestoreMove(k)
  <2>1. /\ UNCHANGED <<disk, memory, parsed, gone, outside, pathMode, showHelp, confirmQuit>>
        /\ shown' = shown /\ step = "restoreList" /\ step' = step /\ shown.restores # <<>>
        /\ cursor' = Moved(k, Len(shown.restores) - 1)
    BY <1>6 DEF RestoreMove, Scroll, Elsewhere
  <2>2. cursor' \in 0..(Len(shown.restores) - 1)
    BY <1>1, <1>2, <2>1 DEF Moved
  <2> QED BY <1>1, <2>1, <2>2, AssetsStep DEF PromoteScreens, RestoreScreens
<1>7. CASE RestoreEnter(k)
  <2>1. /\ UNCHANGED <<disk, memory, parsed, gone, outside, pathMode, showHelp, confirmQuit>>
        /\ shown' = shown /\ cursor' = cursor
        /\ \/ step = "restoreList" /\ step' = "restoreConfirm" /\ shown.restores # <<>>
           \/ step = "restoreConfirm" /\ step' = "restoreRunning"
    BY <1>7 DEF RestoreEnter, KeepMode, Elsewhere
  <2>2. shown.restores # <<>>
    BY <1>1, <2>1, EmptySeq DEF IInv, Fits, Drawable
  <2> QED BY <1>1, <1>2, <2>1, <2>2, AssetsStep DEF PromoteScreens, RestoreScreens
<1> QED BY <1>3, <1>4, <1>5, <1>6, <1>7

LEMMA DeleteKeys ==
    ASSUME IInv, NEW k \in Keys, DeleteMove(k) \/ DeleteMark(k) \/ DeleteBack(k)
    PROVE  IInv'
<1>1. /\ UNCHANGED <<disk, memory, parsed, gone, outside, pathMode, showHelp, confirmQuit>>
      /\ step \in {"deleteSelect", "deleteConfirm"} /\ step' \in {"deleteSelect", "deleteConfirm"}
  BY DEF DeleteMove, DeleteMark, DeleteBack, Scroll, GoTo, KeepMode, Elsewhere
<1>2. /\ shown \in Lists /\ cursor \in Nat /\ cursor < Len(savedSites)
      /\ \A i \in shown.marked : i < Len(savedSites)
  BY <1>1, TypeFacts DEF IInv, TypeOK, Fits, Drawable, InLists, Ended
<1>3. cursor' \in Nat /\ cursor' < Len(savedSites)
  <2>1. CASE DeleteMove(k)
    BY <1>2, <2>1, TypeFacts DEF DeleteMove, Scroll, Moved
  <2>2. CASE DeleteMark(k)
    BY <1>2, <2>2 DEF DeleteMark
  <2>3. CASE DeleteBack(k)
    BY <1>2, <2>3 DEF DeleteBack, GoTo
  <2> QED BY <2>1, <2>2, <2>3
<1>4. \E new \in SUBSET Nat :
        /\ shown' = [shown EXCEPT !.marked = new]
        /\ \A i \in new : i < Len(savedSites)
  <2>1. CASE shown' = shown
    <3>1. shown.marked \in SUBSET Nat /\ shown = [shown EXCEPT !.marked = shown.marked]
      BY <1>2 DEF Lists
    <3> QED BY <1>2, <2>1, <3>1
  <2>2. CASE shown' = [shown EXCEPT !.marked = SymDiff(@, {cursor})]
    <3> DEFINE new == SymDiff(shown.marked, {cursor})
    <3>1. new \subseteq shown.marked \cup {cursor}
      BY DEF SymDiff
    <3>2. new \in SUBSET Nat /\ \A i \in new : i < Len(savedSites)
      BY <1>2, <3>1 DEF Lists
    <3>3. shown' = [shown EXCEPT !.marked = new]
      BY <2>2
    <3> HIDE DEF new
    <3> QED BY <3>2, <3>3
  <2>3. CASE shown' = [shown EXCEPT !.marked = 0..(Len(savedSites) - 1)]
    <3>1. /\ 0..(Len(savedSites) - 1) \in SUBSET Nat
          /\ \A i \in 0..(Len(savedSites) - 1) : i < Len(savedSites)
      BY TypeFacts
    <3> QED BY <2>3, <3>1
  <2> QED BY <2>1, <2>2, <2>3 DEF DeleteMove, DeleteMark, DeleteBack, Scroll
<1>5. /\ shown' \in Lists /\ shown'.tables = shown.tables
      /\ \A i \in shown'.marked : i < Len(savedSites)
  BY <1>2, <1>4 DEF Lists
<1>6. ScreenType'
  BY <1>1, <1>3, <1>5 DEF IInv, TypeOK, ScreenType, Screens
<1>7. Fits'
  BY <1>1, <1>3, <1>5 DEF Fits, Working, SyncReady, Selected, PromoteReady, InLists, Drawable,
     SyncScreens, PromoteScreens, RestoreScreens, memory
<1> QED BY <1>1, <1>6, <1>7, ScreenStep

LEMMA SettingsKeys ==
    ASSUME IInv, NEW k \in Keys, SettingsMove(k) \/ SettingsLeave(k)
    PROVE  IInv'
<1>1. CASE SettingsMove(k)
  <2>1. /\ UNCHANGED <<disk, memory, parsed, gone, outside, shown, pathMode, showHelp, confirmQuit>>
        /\ step = "settings" /\ step' = step
    BY <1>1 DEF SettingsMove, Scroll, Elsewhere
  <2>2. cursor \in Nat
    BY <2>1, TypeFacts DEF IInv, TypeOK, Fits, InLists, Ended
  <2>3. cursor' \in Nat
    BY <1>1, <2>2 DEF SettingsMove, Scroll, Moved
  <2>4. ScreenType'
    BY <2>1, <2>3 DEF IInv, TypeOK, ScreenType
  <2>5. Fits'
    BY <2>1, <2>3 DEF Fits, Working, SyncReady, Selected, PromoteReady, InLists, Drawable,
       SyncScreens, PromoteScreens, RestoreScreens
  <2> QED BY <2>1, <2>4, <2>5, ScreenStep
<1>2. CASE SettingsLeave(k)
  <2>1. /\ UNCHANGED <<disk, memory, parsed, gone, outside, shown, pathMode, showHelp, confirmQuit>>
        /\ step' \in {"startup", "paths"} /\ (step' = "startup" => savedSites # <<>>) /\ cursor' = 0
    BY <1>2 DEF SettingsLeave, GoTo, Home, FirstScreen, KeepMode, Elsewhere
  <2>2. ScreenType'
    BY <2>1, TypeFacts DEF IInv, TypeOK, ScreenType, Screens
  <2>3. Fits'
    BY <2>1, TypeFacts, SitePairsConstant DEF Fits, Working, SyncReady, Selected, PromoteReady,
       InLists, Drawable, SyncScreens, PromoteScreens, RestoreScreens, memory
  <2> QED BY <2>1, <2>2, <2>3, ScreenStep
<1> QED BY <1>1, <1>2

\* The end of a run, of the last screen, and of the process.
LEMMA EndSteps ==
    ASSUME IInv, RunEnds \/ Hangup \/ \E k \in Keys : DoneEnter(k)
    PROVE  IInv'
<1>1. /\ UNCHANGED <<disk, memory, parsed, gone, outside, shown, pathMode, cursor, showHelp, confirmQuit>>
      /\ {showHelp, confirmQuit} \subseteq BOOLEAN
  BY DEF RunEnds, Hangup, DoneEnter, KeepMode, Elsewhere, IInv, TypeOK
<1>2. CASE RunEnds
  <2>1. step \in Running /\ step' \in Done
    <3>1. CASE step = "running"
      BY <1>2, <3>1 DEF RunEnds, Running, Done
    <3>2. CASE step = "promoteRunning"
      BY <1>2, <3>2 DEF RunEnds, Running, Done
    <3>3. CASE step = "restoreRunning"
      BY <1>2, <3>3 DEF RunEnds, Running, Done
    <3> QED BY <1>2, <3>1, <3>2, <3>3 DEF RunEnds, Running
  <2>2. cursor # -1
    BY <2>1 DEF IInv, Fits, InLists, Running, Ended
  <2> QED BY <1>1, <2>1, <2>2, FreeStep DEF Free
<1>3. CASE Hangup \/ \E k \in Keys : DoneEnter(k)
  <2>1. step' = "quit"
    BY <1>3 DEF Hangup, DoneEnter
  <2> QED BY <1>1, <2>1, FreeStep DEF Free, Ended
<1> QED BY <1>2, <1>3

-----------------------------------------------------------------------------
(* The keys that select a config.                                             *)

MemoryType ==
    /\ savedSites \in Seq([domain : Names, config : Config])
    /\ own \in Config /\ alias \in 0..Len(savedSites)
    /\ {liveWP, stageWP} \subseteq Paths \cup {Nil}

LEMMA MemoryStep ==
    ASSUME IInv, UNCHANGED <<disk, outside>>, gone' \subseteq gone, MemoryType', Offered',
           ScreenType', Fits'
    PROVE  IInv'
<1>1. TypeOK'
  BY DEF IInv, TypeOK, ScreenType, MemoryType, DiskOK, disk, outside
<1>2. StaysDeleted'
  BY DEF IInv, StaysDeleted, disk
<1> QED BY <1>1, <1>2 DEF IInv

\* An entry of the list in memory has a config with a live webroot.
LEMMA EntryFacts ==
    ASSUME IInv, NEW i \in 1..Len(savedSites)
    PROVE  /\ savedSites[i].config \in Config /\ savedSites[i].config.live \in Paths
           /\ savedSites[i].domain \in Names /\ savedSites[i].domain \notin gone
<1>1. savedSites[i] \in [domain : Names, config : Config]
  BY ElementOfSeq DEF IInv, TypeOK
<1>2. savedSites[i].config.live # NoPath /\ savedSites[i].domain \notin gone
  BY TypeFacts DEF IInv, Offered
<1> QED BY <1>1, <1>2 DEF Config

\* A key on the first screen selects the entry under the cursor.
LEMMA SelectEntryFacts ==
    ASSUME IInv, step = "startup", SelectEntry
    PROVE  /\ cursor + 1 \in 1..Len(savedSites) /\ Cfg' = savedSites[cursor + 1].config
           /\ alias' = cursor + 1 /\ UNCHANGED <<own, savedSites>>
<1>1. cursor \in Nat
  BY TypeFacts DEF IInv, TypeOK, Fits, InLists, Ended
<1>2. cursor + 1 \in 1..Len(savedSites) /\ alias' = cursor + 1 /\ alias' # 0
  BY <1>1, TypeFacts DEF SelectEntry
<1> QED BY <1>2 DEF SelectEntry, Cfg

\* Parsing gives the databases of a config's folders or none.
LEMMA ParseBothFacts ==
    ASSUME NEW c, c.live \in Paths \cup {NoPath}, c.stage \in Paths \cup {NoPath}, ParseBoth(c),
           stageWP \in Paths \cup {Nil}
    PROVE  /\ {liveWP', stageWP'} \subseteq Paths \cup {Nil}
           /\ BothParsed => liveWP' = c.live /\ stageWP' = c.stage
BY DEF ParseBoth, BothParsed, Parse, Nil, NoPath

\* What is written through m.cfg is what m.cfg has then.
LEMMA WriteCfgFacts ==
    ASSUME IInv, NEW c \in Config, alias # 0 => c.live # NoPath, WriteCfg(c)
    PROVE  /\ Cfg' = c /\ own' \in Config /\ alias' \in 0..Len(savedSites')
           /\ savedSites' \in Seq([domain : Names, config : Config])
           /\ DOMAIN savedSites' = DOMAIN savedSites
           /\ \A i \in DOMAIN savedSites :
                savedSites'[i].config.live # NoPath /\ savedSites'[i].domain = savedSites[i].domain
<1>1. /\ savedSites \in Seq([domain : Names, config : Config]) /\ own \in Config
      /\ alias \in 0..Len(savedSites) /\ alias' = alias
  BY DEF IInv, TypeOK, WriteCfg
<1>2. \A i \in DOMAIN savedSites : savedSites[i].config.live # NoPath
  BY DEF IInv, Offered
<1>3. CASE alias = 0
  BY <1>1, <1>2, <1>3 DEF WriteCfg, Cfg
<1>4. CASE alias # 0
  <2>1. alias \in 1..Len(savedSites) /\ DOMAIN savedSites = 1..Len(savedSites)
    BY <1>1, <1>4, TypeFacts
  <2> DEFINE entry == [savedSites[alias] EXCEPT !.config = c]
  <2>2. savedSites[alias] \in [domain : Names, config : Config]
    BY <1>1, <2>1, ElementOfSeq
  <2>3. /\ entry \in [domain : Names, config : Config]
        /\ entry.config = c /\ entry.domain = savedSites[alias].domain
    BY <2>2
  <2>4. own' = own /\ savedSites' = [savedSites EXCEPT ![alias] = entry]
    BY <1>4 DEF WriteCfg
  <2> HIDE DEF entry
  <2>5. /\ savedSites' \in Seq([domain : Names, config : Config])
        /\ Len(savedSites') = Len(savedSites)
        /\ \A i \in 1..Len(savedSites) : savedSites'[i] = IF i = alias THEN entry ELSE savedSites[i]
    BY <1>1, <2>1, <2>3, <2>4, ExceptSeq
  <2>6. DOMAIN savedSites' = DOMAIN savedSites
    BY <2>4
  <2>7. Cfg' = c
    BY <1>1, <1>4, <2>1, <2>3, <2>5 DEF Cfg
  <2> QED BY <1>1, <1>2, <2>1, <2>3, <2>4, <2>5, <2>6, <2>7
<1> QED BY <1>3, <1>4

LEMMA StartupOpenStep ==
    ASSUME IInv, NEW k \in Keys, step = "startup", StartupOpen(k)
    PROVE  IInv'
<1> DEFINE entry == savedSites[cursor + 1]
<1>1. /\ cursor + 1 \in 1..Len(savedSites) /\ Cfg' = entry.config
      /\ alias' = cursor + 1 /\ UNCHANGED <<own, savedSites>>
  BY SelectEntryFacts DEF StartupOpen
<1>2. /\ entry.config \in Config /\ entry.config.live \in Paths
      /\ entry.domain \in Names /\ entry.domain \notin gone
  BY <1>1, EntryFacts
<1>3. /\ UNCHANGED <<disk, outside, shown, pathMode, showHelp, confirmQuit>>
      /\ ParseBoth(entry.config) /\ cursor' = 0
      /\ step' = IF BothParsed THEN "credentials" ELSE "crashed"
      /\ gone' = gone \ (NamesOf(entry.config.live) \ {entry.domain})
  BY DEF StartupOpen, GoTo, KeepMode
<1> HIDE DEF entry
<1>4. /\ {liveWP', stageWP'} \subseteq Paths \cup {Nil}
      /\ BothParsed => liveWP' = entry.config.live /\ stageWP' = entry.config.stage
  BY <1>2, <1>3, ParseBothFacts DEF IInv, TypeOK, Config
<1>5. MemoryType'
  BY <1>1, <1>4 DEF IInv, TypeOK, MemoryType
<1>6. gone' \subseteq gone /\ NamesOf(entry.config.live) \cap gone' = {}
  BY <1>2, <1>3
<1>7. Offered'
  BY <1>1, <1>6 DEF IInv, Offered
<1>8. ScreenType'
  BY <1>3 DEF IInv, TypeOK, ScreenType, Screens, Ended
<1>9. step' \in {"credentials", "crashed"} /\ (step' = "credentials" => BothParsed)
  BY <1>3
<1>10. SyncReady' /\ Selected'
  BY <1>1, <1>4, <1>6, <1>9 DEF SyncReady, Selected, SyncScreens, BothParsed
<1>11. Working' /\ PromoteReady' /\ InLists'
  BY <1>3, <1>9 DEF Working, PromoteReady, InLists, PromoteScreens, RestoreScreens
<1>12. Drawable'
  BY <1>9 DEF Drawable, BothParsed
<1> QED BY <1>3, <1>5, <1>6, <1>7, <1>8, <1>10, <1>11, <1>12, MemoryStep DEF Fits

\* The list of a promote and the backups of a restore, for a config with a live webroot.
LEMMA EnterFacts ==
    ASSUME IInv, NEW c \in Config, c.live \in Paths, EnterPromote(c) \/ EnterRestore(c)
    PROVE  /\ shown' \in Lists /\ cursor' \in Nat
           /\ \/ /\ step' = "promoteSelect" /\ shown'.assets = [live |-> c.live, stage |-> c.stage]
                 /\ shown'.picked = {}
                 /\ shown'.labels # <<>> => cursor' \in 0..(Len(shown'.labels) - 1)
              \/ /\ step' = "restoreList" /\ cursor' = 0
                 /\ shown'.restores = ListBackups(DomainFromPath(c.live))
<1>1. shown \in Lists
  BY DEF IInv, TypeOK
<1>2. CASE EnterPromote(c)
  <2>1. PICK n \in {0, MaxSections} :
          /\ shown' = [shown EXCEPT !.labels = Labels(n), !.picked = {},
                                    !.assets = [live |-> c.live, stage |-> c.stage]]
          /\ GoTo("promoteSelect", IF n > 0 THEN 1 ELSE 0)
    BY <1>2 DEF EnterPromote
  <2>2. n \in Nat
    BY TuiAssumption
  <2>3. Labels(n) \in Seq({"header", "item"}) /\ Len(Labels(n)) = 2 * n
    BY <2>2 DEF Labels
  <2>4. /\ shown'.labels = Labels(n) /\ shown'.picked = {}
        /\ shown'.assets = [live |-> c.live, stage |-> c.stage] /\ shown' \in Lists
    BY <1>1, <2>1, <2>3 DEF Lists, Config
  <2>5. n = 0 => Labels(n) = <<>>
    BY <2>2, <2>3, EmptySeq
  <2> QED BY <2>1, <2>2, <2>3, <2>4, <2>5 DEF GoTo
<1>3. CASE EnterRestore(c)
  <2>1. ListBackups(DomainFromPath(c.live)) \in Seq(Backup)
    BY DomainFromPathType, ListBackupsType DEF IInv, TypeOK
  <2>2. /\ shown' = [shown EXCEPT !.restores = ListBackups(DomainFromPath(c.live))]
        /\ step' = "restoreList" /\ cursor' = 0
    BY <1>3 DEF EnterRestore, GoTo
  <2> QED BY <1>1, <2>1, <2>2 DEF Lists
<1> QED BY <1>2, <1>3

\* Into the first screen of a promote or a restore with config c in m.cfg.
LEMMA EnterStep ==
    ASSUME IInv, NEW c \in Config, c.live \in Paths, EnterPromote(c) \/ EnterRestore(c), Cfg' = c,
           UNCHANGED <<disk, outside, gone, pathMode, showHelp, confirmQuit>>, MemoryType', Offered'
    PROVE  IInv'
<1>1. /\ shown' \in Lists /\ cursor' \in Nat
      /\ \/ /\ step' = "promoteSelect" /\ shown'.assets = [live |-> c.live, stage |-> c.stage]
            /\ shown'.picked = {}
            /\ shown'.labels # <<>> => cursor' \in 0..(Len(shown'.labels) - 1)
         \/ step' = "restoreList" /\ cursor' = 0
  BY EnterFacts
<1>2. ScreenType'
  BY <1>1 DEF IInv, TypeOK, ScreenType, Screens
<1>3. c.live # NoPath
  BY SavedNotMarker
<1>4. Working'
  BY <1>1, <1>3 DEF Working
<1>5. SyncReady' /\ Selected'
  BY <1>1 DEF SyncReady, Selected, SyncScreens
<1>6. PromoteReady'
  BY <1>1 DEF PromoteReady, PromoteScreens
<1>7. InLists'
  <2>1. step' = "restoreList" /\ shown'.restores # <<>> => cursor' < Len(shown'.restores)
    <3>1. shown'.restores # <<>> => Len(shown'.restores) \in Nat \ {0}
      BY <1>1, EmptySeq DEF Lists
    <3> QED BY <1>1, <3>1
  <2> QED BY <1>1, <2>1 DEF InLists
<1>8. Drawable'
  BY <1>1 DEF Drawable
<1> QED BY <1>2, <1>4, <1>5, <1>6, <1>7, <1>8, MemoryStep DEF Fits

LEMMA StartupEnterStep ==
    ASSUME IInv, NEW k \in Keys, step = "startup", StartupPromote(k) \/ StartupRestore(k)
    PROVE  IInv'
<1> DEFINE c == savedSites[cursor + 1].config
<1>1. SelectEntry /\ (EnterPromote(c) \/ EnterRestore(c))
  BY DEF StartupPromote, StartupRestore
<1>2. /\ cursor + 1 \in 1..Len(savedSites) /\ Cfg' = c
      /\ alias' = cursor + 1 /\ UNCHANGED <<own, savedSites>>
  BY <1>1, SelectEntryFacts
<1>3. c \in Config /\ c.live \in Paths
  BY <1>2, EntryFacts
<1>4. UNCHANGED <<disk, outside, gone, pathMode, showHelp, confirmQuit, parsed>>
  BY DEF StartupPromote, StartupRestore, KeepMode, Elsewhere
<1>5. MemoryType'
  BY <1>2, <1>4 DEF IInv, TypeOK, MemoryType, parsed
<1>6. Offered'
  BY <1>2, <1>4 DEF IInv, Offered
<1> HIDE DEF c
<1> QED BY <1>1, <1>2, <1>3, <1>4, <1>5, <1>6, EnterStep

\* A choice on the site list, or of the last folder, leads on when both files parse.
LEMMA PickedStep ==
    ASSUME IInv, NEW c \in Config, Cfg' = c, ParseBoth(c),
           UNCHANGED <<disk, outside, shown, pathMode, showHelp, confirmQuit>>,
           gone' \subseteq gone, NamesOf(c.live) \cap gone' = {}, MemoryType', Offered',
           step = "paths", cursor \in Nat,
           \/ BothParsed /\ step' = "credentials" /\ cursor' = 0
           \/ step' = "paths" /\ cursor' \in {cursor, 0}
    PROVE  IInv'
<1>1. BothParsed => liveWP' = c.live /\ stageWP' = c.stage
  BY ParseBothFacts DEF IInv, TypeOK, Config
<1>2. ScreenType'
  BY DEF IInv, TypeOK, ScreenType, Screens
<1>3. SyncReady' /\ Selected'
  BY <1>1 DEF SyncReady, Selected, SyncScreens, BothParsed
<1>4. Working' /\ PromoteReady' /\ InLists'
  BY DEF Working, PromoteReady, InLists, PromoteScreens, RestoreScreens
<1>5. step' = "paths" /\ OnPairs' => cursor' <= Len(sitePairs')
  BY SitePairsConstant, TypeFacts DEF IInv, Fits, Drawable, OnPairs
<1>6. Drawable'
  BY <1>5 DEF Drawable, BothParsed
<1> QED BY <1>2, <1>3, <1>4, <1>6, MemoryStep DEF Fits

LEMMA PathsCursor == IInv /\ step = "paths" => cursor \in Nat
BY TypeFacts DEF IInv, TypeOK, Fits, InLists, Ended

LEMMA PairsSelectStep ==
    ASSUME IInv, NEW k \in Keys, PairsSelect(k)
    PROVE  IInv'
<1> DEFINE pair == sitePairs[cursor + 1]
           on(c) == [c EXCEPT !.live = pair.live, !.stage = pair.stage]
<1>1. /\ step = "paths" /\ cursor < Len(sitePairs) /\ ParseBoth(pair) /\ pair.stage # NoPath
      /\ UNCHANGED <<disk, outside, shown, pathMode, showHelp, confirmQuit>>
      /\ gone' = gone \ NamesOf(pair.live)
      /\ IF Readable(pair.domain)
         THEN alias' = 0 /\ own' = on(sites[pair.domain]) /\ UNCHANGED savedSites
         ELSE WriteCfg(on(Cfg))
      /\ IF BothParsed THEN step' = "credentials" /\ cursor' = 0 ELSE UNCHANGED <<step, cursor>>
  BY DEF PairsSelect, GoTo, KeepMode
<1>2. cursor \in Nat /\ cursor + 1 \in 1..Len(sitePairs)
  BY <1>1, PathsCursor, TypeFacts
<1>3. pair.live \in Paths /\ pair.stage \in Paths \cup {NoPath} /\ pair.domain \in Names
  <2>1. pair \in [live : Paths, stage : Paths \cup {NoPath}, domain : Names]
    BY <1>2, SitePairsType, ElementOfSeq
  <2> HIDE DEF pair
  <2> QED BY <2>1
<1> HIDE DEF pair
<1>4. ASSUME NEW c \in Config
      PROVE  on(c) \in Config /\ on(c).live = pair.live /\ on(c).stage = pair.stage
  BY <1>3 DEF Config
<1>5. ASSUME NEW c \in Config, c.live = pair.live, c.stage = pair.stage, Cfg' = c,
             own' \in Config, alias' \in 0..Len(savedSites'),
             savedSites' \in Seq([domain : Names, config : Config]),
             DOMAIN savedSites' = DOMAIN savedSites,
             \A i \in DOMAIN savedSites :
                savedSites'[i].config.live # NoPath /\ savedSites'[i].domain = savedSites[i].domain
      PROVE  IInv'
  <2>1. ParseBoth(c)
    BY <1>1, <1>5 DEF ParseBoth
  <2>2. {liveWP', stageWP'} \subseteq Paths \cup {Nil}
    BY <1>3, <1>5, <2>1, ParseBothFacts DEF IInv, TypeOK
  <2>3. MemoryType'
    BY <1>5, <2>2 DEF MemoryType
  <2>4. gone' \subseteq gone /\ NamesOf(c.live) \cap gone' = {}
    BY <1>1, <1>5
  <2>5. Offered'
    BY <1>5, <2>4 DEF IInv, Offered
  <2> QED BY <1>1, <1>2, <1>3, <1>5, <2>1, <2>3, <2>4, <2>5, PickedStep
<1>6. CASE Readable(pair.domain)
  <2>1. sites[pair.domain] \in Config
    BY <1>3, <1>6, SavedNotMarker DEF Readable, IInv, TypeOK, DiskOK, Disks
  <2>2. alias' = 0 /\ own' = on(sites[pair.domain]) /\ savedSites' = savedSites
    BY <1>1, <1>6
  <2>3. on(sites[pair.domain]) \in Config /\ on(sites[pair.domain]).live = pair.live
        /\ on(sites[pair.domain]).stage = pair.stage
    BY <1>4, <2>1
  <2> HIDE DEF on
  <2>4. Cfg' = on(sites[pair.domain])
    BY <2>2 DEF Cfg
  <2>5. /\ savedSites' \in Seq([domain : Names, config : Config]) /\ alias' \in 0..Len(savedSites')
        /\ \A i \in DOMAIN savedSites :
             savedSites'[i].config.live # NoPath /\ savedSites'[i].domain = savedSites[i].domain
    BY <2>2, TypeFacts DEF IInv, TypeOK, Offered
  <2> QED BY <1>5, <2>2, <2>3, <2>4, <2>5
<1>7. CASE ~ Readable(pair.domain)
  <2>1. WriteCfg(on(Cfg))
    BY <1>1, <1>7
  <2>2. on(Cfg) \in Config /\ on(Cfg).live = pair.live /\ on(Cfg).stage = pair.stage
    BY <1>4, TypeFacts
  <2>3. on(Cfg).live # NoPath
    BY <1>3, <2>2, SavedNotMarker
  <2> DEFINE d == on(Cfg)
  <2>4. d \in Config /\ d.live = pair.live /\ d.stage = pair.stage /\ d.live # NoPath /\ WriteCfg(d)
    BY <2>1, <2>2, <2>3
  <2> HIDE DEF d
  <2> QED BY <1>5, <2>4, WriteCfgFacts
<1> QED BY <1>6, <1>7

LEMMA ManualLiveStep ==
    ASSUME IInv, NEW k \in Keys, ManualLive(k)
    PROVE  IInv'
<1>1. PICK p \in Browse : WriteCfg([Cfg EXCEPT !.live = p]) /\ gone' = gone \ NamesOf(p)
  BY DEF ManualLive
<1>2. /\ UNCHANGED <<disk, outside, parsed, shown, pathMode, showHelp, confirmQuit>>
      /\ step' = "paths" /\ cursor' = 1 /\ ~ OnPairs
  BY DEF ManualLive, GoTo, KeepMode
<1> DEFINE c == [Cfg EXCEPT !.live = p]
<1>3. c \in Config /\ c.live = p /\ c.live # NoPath /\ WriteCfg(c)
  BY <1>1, TypeFacts, TuiAssumption, SavedNotMarker DEF Config
<1> HIDE DEF c
<1>4. /\ Cfg' = c /\ own' \in Config /\ alias' \in 0..Len(savedSites')
      /\ savedSites' \in Seq([domain : Names, config : Config])
      /\ DOMAIN savedSites' = DOMAIN savedSites
      /\ \A i \in DOMAIN savedSites :
           savedSites'[i].config.live # NoPath /\ savedSites'[i].domain = savedSites[i].domain
  BY <1>3, WriteCfgFacts
<1>5. gone' \subseteq gone /\ NamesOf(c.live) \cap gone' = {}
  BY <1>1, <1>3
<1>6. MemoryType'
  BY <1>2, <1>4 DEF IInv, TypeOK, MemoryType, parsed
<1>7. Offered'
  BY <1>4, <1>5 DEF IInv, Offered
<1>8. ScreenType'
  BY <1>2 DEF IInv, TypeOK, ScreenType, Screens
<1>9. ~ OnPairs'
  BY <1>2, SitePairsConstant DEF OnPairs
<1>10. Fits'
  BY <1>2, <1>4, <1>5, <1>9 DEF Fits, Working, SyncReady, Selected, PromoteReady, InLists, Drawable,
     SyncScreens, PromoteScreens, RestoreScreens
<1> QED BY <1>2, <1>5, <1>6, <1>7, <1>8, <1>10, MemoryStep

LEMMA ManualStageStep ==
    ASSUME IInv, NEW k \in Keys, ManualStage(k)
    PROVE  IInv'
<1>1. PICK p \in Browse : WriteCfg([Cfg EXCEPT !.stage = p]) /\ ParseBoth([Cfg EXCEPT !.stage = p])
  BY DEF ManualStage
<1>2. /\ UNCHANGED <<disk, outside, gone, shown, pathMode, showHelp, confirmQuit>>
      /\ step = "paths" /\ cursor' = 0 /\ ~ OnPairs /\ cursor # 0
      /\ step' = IF BothParsed THEN "credentials" ELSE "paths"
  BY DEF ManualStage, GoTo, KeepMode, Elsewhere
<1>3. NamesOf(Cfg.live) \cap gone = {} /\ cursor \in Nat
  BY <1>2, PathsCursor DEF IInv, Fits, Selected
<1> DEFINE c == [Cfg EXCEPT !.stage = p]
<1>4. c \in Config /\ c.live = Cfg.live /\ WriteCfg(c) /\ ParseBoth(c)
  BY <1>1, TypeFacts, TuiAssumption DEF Config
<1> HIDE DEF c
<1>5. alias # 0 => c.live # NoPath
  <2>1. alias # 0 => Cfg.live # NoPath
    BY TypeFacts DEF IInv, TypeOK, Offered, Cfg
  <2> QED BY <1>4, <2>1
<1>6. /\ Cfg' = c /\ own' \in Config /\ alias' \in 0..Len(savedSites')
      /\ savedSites' \in Seq([domain : Names, config : Config])
      /\ DOMAIN savedSites' = DOMAIN savedSites
      /\ \A i \in DOMAIN savedSites :
           savedSites'[i].config.live # NoPath /\ savedSites'[i].domain = savedSites[i].domain
  BY <1>4, <1>5, WriteCfgFacts
<1>7. {liveWP', stageWP'} \subseteq Paths \cup {Nil}
  BY <1>4, ParseBothFacts DEF IInv, TypeOK, Config
<1>8. MemoryType'
  BY <1>6, <1>7 DEF MemoryType
<1>9. Offered'
  BY <1>2, <1>6 DEF IInv, Offered
<1>10. gone' \subseteq gone /\ NamesOf(c.live) \cap gone' = {}
  BY <1>2, <1>3, <1>4
<1> QED BY <1>2, <1>3, <1>4, <1>6, <1>8, <1>9, <1>10, PickedStep

-----------------------------------------------------------------------------
(* The steps that write to the disk.                                          *)

LEMMA DiskTypes ==
    ASSUME IInv
    PROVE  /\ sites \in [Names -> Saved \cup {NoConfig, Torn}]
           /\ flat \in [Names -> Saved \cup {NoConfig}]
           /\ backups \in [Names -> SUBSET (Backup \cup {Orphan})]
BY DEF IInv, TypeOK, DiskOK, Disks

\* A step on the disk while the screen, and what it shows, stays as it is.
LEMMA DiskStep ==
    ASSUME IInv, UNCHANGED <<screen, memory, parsed, shown, sessions>>, gone' \subseteq gone,
           sites' \in [Names -> Saved \cup {NoConfig, Torn}],
           flat' \in [Names -> Saved \cup {NoConfig}],
           backups' \in [Names -> SUBSET (Backup \cup {Orphan})],
           writing' = <<>> \/ writing' \in Names \X Saved, others' \in 0..MaxOthers,
           \A n \in gone' : sites'[n] = NoConfig
    PROVE  IInv'
<1>1. DiskOK'
  BY DEF DiskOK, Disks
<1>2. TypeOK'
  BY <1>1 DEF IInv, TypeOK, screen, memory, parsed
<1>3. Cfg' = Cfg
  BY SameCfg
<1>4. Offered' /\ StaysDeleted'
  BY DEF IInv, Offered, StaysDeleted, memory
<1>5. Working' /\ SyncReady' /\ PromoteReady' /\ InLists'
  BY <1>3 DEF IInv, Fits, Working, SyncReady, PromoteReady, InLists, screen, memory, parsed
<1>6. Selected'
  BY <1>3, SitePairsConstant DEF IInv, Fits, Selected, OnPairs, screen
<1>7. Drawable'
  BY SitePairsConstant DEF IInv, Fits, Drawable, OnPairs, screen, memory, parsed
<1> QED BY <1>2, <1>4, <1>5, <1>6, <1>7 DEF IInv, Fits

LEMMA PromoteWorksStep ==
    ASSUME IInv, PromoteWorks
    PROVE  IInv'
<1> DEFINE n == DomainFromPath(Cfg.live)
<1>1. Cfg.live \in Paths
  BY TypeFacts DEF PromoteWorks, IInv, Fits, Working, PromoteScreens, Config
<1>2. n \in Names
  BY <1>1, DomainFromPathType
<1> HIDE DEF n
<1>3. PICK t \in 1..MaxBackups :
        \E left \in {backups[n] \cup {Orphan}, backups[n] \cup {[live |-> Cfg.live, time |-> t]},
                     {[live |-> Cfg.live, time |-> t]}} :
            backups' = [backups EXCEPT ![n] = left]
  BY DEF PromoteWorks, n
<1>4. [live |-> Cfg.live, time |-> t] \in Backup
  BY <1>1 DEF Backup
<1>5. backups' \in [Names -> SUBSET (Backup \cup {Orphan})]
  BY <1>2, <1>3, <1>4, DiskTypes
<1>6. UNCHANGED <<sites, flat, screen, memory, parsed, shown, gone, outside>>
  BY DEF PromoteWorks
<1> QED BY <1>5, <1>6, DiskTypes, DiskStep DEF outside, IInv, TypeOK, StaysDeleted

LEMMA OtherSaveBeginStep ==
    ASSUME IInv, OtherSaveBegin
    PROVE  IInv'
<1>1. PICK pair \in PairSites(Scan) :
        /\ pair.stage # NoPath
        /\ sites' = [sites EXCEPT ![DomainFromPath(pair.live)] = Torn]
        /\ writing' = <<DomainFromPath(pair.live),
                        [live |-> pair.live, stage |-> pair.stage, modes |-> TRUE]>>
        /\ gone' = gone \ {DomainFromPath(pair.live)}
  BY DEF OtherSaveBegin
<1>2. pair.live \in Paths /\ pair.stage \in Paths
  <2>1. pair \in [live : Paths, stage : Paths \cup {NoPath}, domain : Names]
    BY ScanType, PairSitesType
  <2> QED BY <1>1, <2>1
<1> DEFINE n == DomainFromPath(pair.live)
           c == [live |-> pair.live, stage |-> pair.stage, modes |-> TRUE]
<1>3. n \in Names
  BY <1>2, DomainFromPathType
<1>4. c \in Saved
  BY <1>2, SavedNotMarker DEF Saved, Config
<1>5. sites' = [sites EXCEPT ![n] = Torn] /\ writing' = <<n, c>> /\ gone' = gone \ {n}
  BY <1>1
<1> HIDE DEF n, c
<1>6. sites' \in [Names -> Saved \cup {NoConfig, Torn}]
  BY <1>3, <1>5, DiskTypes
<1>7. \A m \in gone' : sites'[m] = NoConfig
  BY <1>5, DiskTypes DEF IInv, StaysDeleted, TypeOK
<1>8. /\ UNCHANGED <<flat, backups, screen, memory, parsed, shown, sessions>>
      /\ others' = others + 1 /\ others < MaxOthers
  BY DEF OtherSaveBegin, Inside
<1>9. others' \in 0..MaxOthers
  BY <1>8, TuiAssumption DEF IInv, TypeOK
<1> QED BY <1>3, <1>4, <1>5, <1>6, <1>7, <1>8, <1>9, DiskTypes, DiskStep

LEMMA OtherSaveEndStep ==
    ASSUME IInv, OtherSaveEnd
    PROVE  IInv'
<1> DEFINE n == writing[1]
<1>1. writing \in Names \X Saved
  BY DEF OtherSaveEnd, IInv, TypeOK
<1>2. PICK result \in IF sites[n] = NoConfig THEN {NoConfig} ELSE {writing[2], sites[n], Torn} :
        sites' = [sites EXCEPT ![n] = result]
  BY DEF OtherSaveEnd
<1>3. n \in Names /\ writing[2] \in Saved
  BY <1>1
<1>4. result \in Saved \cup {NoConfig, Torn} /\ (sites[n] = NoConfig => result = NoConfig)
  BY <1>2, <1>3, DiskTypes
<1> HIDE DEF n
<1>5. /\ sites' \in [Names -> Saved \cup {NoConfig, Torn}]
      /\ \A m \in gone : sites'[m] = NoConfig
  BY <1>2, <1>3, <1>4, DiskTypes DEF IInv, StaysDeleted, TypeOK
<1>6. UNCHANGED <<flat, backups, others, gone, screen, memory, parsed, shown, sessions>> /\ writing' = <<>>
  BY DEF OtherSaveEnd, Inside
<1> QED BY <1>5, <1>6, DiskTypes, DiskStep DEF IInv, TypeOK

\* What a deletion leaves, whichever of the folders it gets to.
LEMMA DeleteSitesFacts ==
    ASSUME IInv, NEW cut, NEW emptied, DeleteSites(cut, emptied)
    PROVE  /\ sites' \in [Names -> Saved \cup {NoConfig, Torn}]
           /\ backups' \in [Names -> SUBSET (Backup \cup {Orphan})]
           /\ \A n \in Names : n \in cut \/ sites[n] = NoConfig => sites'[n] = NoConfig
BY DiskTypes DEF DeleteSites

LEMMA OtherDeleteStep ==
    ASSUME IInv, OtherDelete
    PROVE  IInv'
<1>1. PICK names : DeleteSites(names, names)
  BY DEF OtherDelete
<1>2. /\ UNCHANGED <<flat, writing, gone, screen, memory, parsed, shown, sessions>>
      /\ others' = others + 1 /\ others < MaxOthers
  BY DEF OtherDelete, Inside
<1>3. others' \in 0..MaxOthers
  BY <1>2, TuiAssumption DEF IInv, TypeOK
<1>4. /\ sites' \in [Names -> Saved \cup {NoConfig, Torn}]
      /\ backups' \in [Names -> SUBSET (Backup \cup {Orphan})]
      /\ \A n \in Names : sites[n] = NoConfig => sites'[n] = NoConfig
  BY <1>1, DeleteSitesFacts
<1>5. \A n \in gone' : sites'[n] = NoConfig
  BY <1>2, <1>4 DEF IInv, StaysDeleted, TypeOK
<1> QED BY <1>2, <1>3, <1>4, <1>5, DiskTypes, DiskStep DEF IInv, TypeOK

LEMMA ListSitesIsListOf == ListSites = ListOf(sites)
BY DEF ListSites, ListOf, Readable

LEMMA ListSitesIsListOfNext == ListSites' = ListOf(sites')
BY DEF ListSites, ListOf, Readable

\* A list that was read from the disk offers what is saved there.
LEMMA FreshList ==
    ASSUME NEW s \in [Names -> Saved \cup {NoConfig, Torn}]
    PROVE  /\ ListOf(s) \in Seq([domain : Names, config : Config]) /\ Len(ListOf(s)) \in Nat
           /\ \A i \in DOMAIN ListOf(s) :
                ListOf(s)[i].config.live # NoPath /\ s[ListOf(s)[i].domain] # NoConfig
<1> DEFINE list == ListOf(s)
<1>1. /\ list \in Seq([domain : Names, config : Saved])
      /\ \A i \in DOMAIN list : s[list[i].domain] # NoConfig
  BY ListOfType
<1> HIDE DEF list
<1>2. Len(list) \in Nat /\ DOMAIN list = 1..Len(list)
  BY <1>1, LenProperties
<1>3. \A i \in DOMAIN list : list[i].config.live # NoPath
  <2> SUFFICES ASSUME NEW i \in DOMAIN list PROVE list[i].config.live # NoPath
    OBVIOUS
  <2>1. list[i] \in [domain : Names, config : Saved]
    BY <1>1, <1>2, ElementOfSeq
  <2> QED BY <2>1 DEF Saved
<1>4. list \in Seq([domain : Names, config : Config])
  BY <1>1, SavedNotMarker, SeqMonotonic
<1> QED BY <1>1, <1>2, <1>3, <1>4 DEF list

LEMMA SaveStep ==
    ASSUME IInv, NEW k \in Keys, UpdateConfirm(k)
    PROVE  IInv'
<1> DEFINE n == DomainFromPath(Cfg.live)
<1>1. /\ step = "confirm" /\ step' = "running" /\ Save(Cfg)
      /\ UNCHANGED <<pathMode, showHelp, confirmQuit, cursor, flat, backups, memory, parsed,
                     shown, gone, outside>>
  BY DEF UpdateConfirm, KeepMode
<1>2. Cfg \in Config /\ Cfg.live \in Paths /\ NamesOf(Cfg.live) \cap gone = {}
  BY <1>1, TypeFacts DEF IInv, Fits, SyncReady, Selected, SyncScreens, Nil, Config, NoPath
<1>3. Cfg \in Saved
  BY <1>2, SavedNotMarker DEF Saved
<1>4. n \in Names /\ n \notin gone
  BY <1>2, DomainFromPathType
<1>5. PICK result \in {Cfg, sites[n], Torn} : sites' = [sites EXCEPT ![n] = result]
  BY <1>1 DEF Save
<1> HIDE DEF n
<1>6. sites' \in [Names -> Saved \cup {NoConfig, Torn}]
  BY <1>3, <1>4, <1>5, DiskTypes
<1>7. \A m \in gone : sites'[m] = NoConfig
  BY <1>4, <1>5, DiskTypes DEF IInv, StaysDeleted, TypeOK
<1>8. TypeOK'
  <2>1. DiskOK'
    BY <1>1, <1>6 DEF IInv, TypeOK, DiskOK, Disks
  <2> QED BY <1>1, <2>1 DEF IInv, TypeOK, Screens, Running, memory, parsed, outside
<1>9. Offered' /\ StaysDeleted'
  BY <1>1, <1>7 DEF IInv, Offered, StaysDeleted, memory
<1>10. SyncReady'
  BY <1>1, SameCfg DEF IInv, Fits, SyncReady, SyncScreens, parsed
<1>11. Working' /\ Selected' /\ PromoteReady'
  BY <1>1 DEF Working, Selected, PromoteReady, SyncScreens, PromoteScreens, RestoreScreens
<1>12. InLists' /\ Drawable'
  BY <1>1, <1>10 DEF IInv, Fits, InLists, Drawable, SyncReady, Ended
<1> QED BY <1>8, <1>9, <1>10, <1>11, <1>12 DEF IInv, Fits

LEMMA DeleteConfirmStep ==
    ASSUME IInv, NEW k \in Keys, UpdateDeleteConfirm(k)
    PROVE  IInv'
<1>1. PICK cut \in SUBSET {savedSites[i + 1].domain : i \in shown.marked},
           emptied \in SUBSET {savedSites[i + 1].domain : i \in shown.marked} :
        DeleteSites(cut, emptied) /\ gone' = gone \cup cut
  BY DEF UpdateDeleteConfirm
<1>2. /\ step = "deleteConfirm" /\ savedSites' = ListSites' /\ own' = Cfg /\ alias' = 0
      /\ shown' = [shown EXCEPT !.marked = {}] /\ cursor' = 0
      /\ step' \in {"startup", "paths"} /\ (step' = "startup" => savedSites' # <<>>)
      /\ UNCHANGED <<pathMode, showHelp, confirmQuit, flat, parsed, outside>>
  BY DEF UpdateDeleteConfirm, GoTo, FirstScreen, KeepMode
<1>3. cut \subseteq Names
  <2> SUFFICES ASSUME NEW i \in shown.marked PROVE savedSites[i + 1].domain \in Names
    BY <1>1
  <2>1. i \in Nat /\ i < Len(savedSites)
    BY <1>2 DEF IInv, TypeOK, Fits, Drawable, Lists
  <2>2. i + 1 \in 1..Len(savedSites)
    BY <2>1, TypeFacts
  <2> QED BY <2>2, EntryFacts
<1>4. /\ sites' \in [Names -> Saved \cup {NoConfig, Torn}]
      /\ backups' \in [Names -> SUBSET (Backup \cup {Orphan})]
      /\ \A n \in Names : n \in cut \/ sites[n] = NoConfig => sites'[n] = NoConfig
  BY <1>1, DeleteSitesFacts
<1>5. gone' \subseteq Names /\ \A n \in gone' : sites'[n] = NoConfig
  BY <1>1, <1>3, <1>4 DEF IInv, TypeOK, StaysDeleted
<1>6. /\ savedSites' \in Seq([domain : Names, config : Config]) /\ Len(savedSites') \in Nat
      /\ \A i \in DOMAIN savedSites' :
           savedSites'[i].config.live # NoPath /\ savedSites'[i].domain \notin gone'
  <2>1. PICK s : s = sites'
    OBVIOUS
  <2>2. s \in [Names -> Saved \cup {NoConfig, Torn}] /\ savedSites' = ListOf(s)
    BY <1>2, <1>4, <2>1, ListSitesIsListOfNext
  <2>3. /\ ListOf(s) \in Seq([domain : Names, config : Config]) /\ Len(ListOf(s)) \in Nat
        /\ \A i \in DOMAIN ListOf(s) :
             ListOf(s)[i].config.live # NoPath /\ s[ListOf(s)[i].domain] # NoConfig
    BY <2>2, FreshList
  <2> QED BY <1>5, <2>1, <2>2, <2>3
<1>7. shown' \in Lists
  BY <1>2 DEF IInv, TypeOK, Lists
<1>8. TypeOK'
  <2>1. DiskOK'
    BY <1>2, <1>4, DiskTypes DEF DiskOK, Disks
  <2> QED BY <1>2, <1>5, <1>6, <1>7, <2>1, TypeFacts DEF IInv, TypeOK, Screens, parsed, outside
<1>9. Offered' /\ StaysDeleted'
  BY <1>5, <1>6 DEF Offered, StaysDeleted
<1>10. Working' /\ SyncReady' /\ Selected' /\ PromoteReady' /\ InLists'
  BY <1>2 DEF Working, SyncReady, Selected, PromoteReady, InLists, SyncScreens, PromoteScreens,
     RestoreScreens
<1>11. Drawable'
  BY <1>2, <1>6, SitePairsConstant, TypeFacts DEF Drawable
<1> QED BY <1>8, <1>9, <1>10, <1>11 DEF IInv, Fits

-----------------------------------------------------------------------------
(* The start of a session.                                                    *)

\* The first list of a session, and what it does to the invariant.
LEMMA FirstList ==
    ASSUME IInv, savedSites' = ListSites, gone' = gone
    PROVE  /\ savedSites' \in Seq([domain : Names, config : Config]) /\ Len(savedSites') \in Nat
           /\ Offered'
<1>1. PICK s : s = sites
  OBVIOUS
<1>2. s \in [Names -> Saved \cup {NoConfig, Torn}] /\ savedSites' = ListOf(s)
  BY <1>1, DiskTypes, ListSitesIsListOf
<1>3. /\ ListOf(s) \in Seq([domain : Names, config : Config]) /\ Len(ListOf(s)) \in Nat
      /\ \A i \in DOMAIN ListOf(s) :
           ListOf(s)[i].config.live # NoPath /\ s[ListOf(s)[i].domain] # NoConfig
  BY <1>2, FreshList
<1>4. Offered'
  BY <1>1, <1>2, <1>3 DEF Offered, IInv, StaysDeleted
<1> QED BY <1>2, <1>3, <1>4

LEMMA StartStep ==
    ASSUME IInv, Start
    PROVE  IInv'
<1>1. PICK moved \in SUBSET {n \in Names : flat[n] # NoConfig} :
        /\ sites' = [n \in Names |-> IF n \in moved THEN flat[n] ELSE sites[n]]
        /\ flat' = [n \in Names |-> IF n \in moved THEN NoConfig ELSE flat[n]]
        /\ UNCHANGED backups
  BY DEF Start, MigrateLegacyConfigs
<1>2. DiskOK'
  BY <1>1, DiskTypes DEF DiskOK, Disks
<1>3. /\ step' = "starting" /\ cursor' = 0 /\ pathMode' = "pairs"
      /\ savedSites' = <<>> /\ own' = NewConfig /\ alias' = 0 /\ liveWP' = Nil /\ stageWP' = Nil
      /\ shown' = Blank /\ gone' = {} /\ UNCHANGED <<others, writing>>
      /\ sessions' = sessions + 1 /\ sessions < MaxSessions
  BY DEF Start, GoTo
<1>4. sessions' \in 0..MaxSessions
  BY <1>3, TuiAssumption DEF IInv, TypeOK
<1>5. shown' \in Lists
  BY <1>3 DEF Blank, Lists, NoAssets
<1>6. /\ savedSites' \in Seq([domain : Names, config : Config]) /\ Len(savedSites') = 0
      /\ DOMAIN savedSites' = {}
  BY <1>3, EmptySeq
<1>7. own' \in Config
  BY <1>3 DEF NewConfig, Config
<1>8. {showHelp', confirmQuit'} \subseteq BOOLEAN
  BY DEF Start
<1>9. TypeOK'
  BY <1>2, <1>3, <1>4, <1>5, <1>6, <1>7, <1>8 DEF IInv, TypeOK, Nil
<1>10. Offered' /\ StaysDeleted'
  BY <1>3, <1>6 DEF Offered, StaysDeleted
<1>11. Fits'
  BY <1>3 DEF Fits, Working, SyncReady, Selected, PromoteReady, InLists, Drawable, SyncScreens,
     PromoteScreens, RestoreScreens
<1> QED BY <1>9, <1>10, <1>11 DEF IInv

LEMMA StartTuiStep ==
    ASSUME IInv, StartTui
    PROVE  IInv'
<1>1. /\ savedSites' = ListSites /\ cursor' = 0
      /\ step' \in {"startup", "paths"} /\ (step' = "startup" => savedSites' # <<>>)
      /\ UNCHANGED <<own, alias, parsed, shown, pathMode, showHelp, confirmQuit, disk, gone, outside>>
      /\ step = "starting"
  BY DEF StartTui, GoTo, FirstScreen, KeepMode, Elsewhere
<1>2. /\ savedSites' \in Seq([domain : Names, config : Config]) /\ Len(savedSites') \in Nat
      /\ Offered'
  BY <1>1, FirstList
<1>3. alias = 0
  BY <1>1 DEF IInv, Fits, Working
<1>4. MemoryType'
  BY <1>1, <1>2, <1>3 DEF IInv, TypeOK, MemoryType, parsed
<1>5. ScreenType'
  BY <1>1 DEF IInv, TypeOK, ScreenType, Screens
<1>6. Fits'
  BY <1>1, <1>2, SitePairsConstant, TypeFacts DEF Fits, Working, SyncReady, Selected, PromoteReady,
     InLists, Drawable, SyncScreens, PromoteScreens, RestoreScreens
<1> QED BY <1>1, <1>2, <1>4, <1>5, <1>6, MemoryStep

LEMMA ResolveConfigStep ==
    ASSUME IInv, NEW mode \in {"promoteMode", "restoreMode"}, ResolveConfig(mode)
    PROVE  IInv'
<1>1. /\ step = "starting" /\ UNCHANGED <<cursor, savedSites, alias, parsed, shown, pathMode,
                                          showHelp, confirmQuit, disk, gone, outside>>
      /\ \/ step' = mode /\ \E n \in Names : Readable(n) /\ own' = sites[n]
         \/ step' = "quit" /\ own' = own
  BY DEF ResolveConfig, KeepMode, Elsewhere
<1>2. alias = 0 /\ alias' = 0 /\ cursor \in Nat
  BY <1>1, TypeFacts DEF IInv, TypeOK, Fits, Working, InLists, Ended
<1>3. own' \in Config /\ (step' = mode => own'.live # NoPath)
  BY <1>1, DiskTypes, SavedNotMarker DEF Readable, IInv, TypeOK, Saved
<1>4. MemoryType' /\ Offered'
  BY <1>1, <1>3 DEF IInv, TypeOK, MemoryType, Offered, parsed
<1>5. ScreenType'
  BY <1>1 DEF IInv, TypeOK, ScreenType, Ended
<1>6. Cfg' = own'
  BY <1>2 DEF Cfg
<1>7. Fits'
  BY <1>1, <1>2, <1>3, <1>6 DEF Fits, Working, SyncReady, Selected, PromoteReady, InLists, Drawable,
     SyncScreens, PromoteScreens, RestoreScreens
<1> QED BY <1>1, <1>4, <1>5, <1>7, MemoryStep

LEMMA RunWithModeStep ==
    ASSUME IInv, RunWithMode
    PROVE  IInv'
<1>1. /\ savedSites' = ListSites /\ step \in {"promoteMode", "restoreMode"}
      /\ UNCHANGED <<own, alias, parsed, pathMode, showHelp, confirmQuit, disk, gone, outside>>
      /\ EnterPromote(own) \/ EnterRestore(own)
  BY DEF RunWithMode, KeepMode, Elsewhere
<1>2. alias = 0 /\ own \in Config /\ own.live # NoPath
  BY <1>1 DEF IInv, TypeOK, Fits, Working, Cfg
<1>3. own.live \in Paths /\ Cfg' = own
  BY <1>1, <1>2 DEF Config, Cfg
<1>4. /\ savedSites' \in Seq([domain : Names, config : Config]) /\ Len(savedSites') \in Nat
      /\ Offered'
  BY <1>1, FirstList
<1>5. MemoryType'
  BY <1>1, <1>2, <1>4 DEF IInv, TypeOK, MemoryType, parsed
<1> QED BY <1>1, <1>2, <1>3, <1>4, <1>5, EnterStep

-----------------------------------------------------------------------------
(* The invariant.                                                             *)

LEMMA InitIInv == Init => IInv
<1> SUFFICES ASSUME Init PROVE IInv
  OBVIOUS
<1>1. /\ step = "quit" /\ cursor = 0 /\ pathMode = "pairs"
      /\ savedSites = <<>> /\ own = NewConfig /\ alias = 0 /\ liveWP = Nil /\ stageWP = Nil
      /\ shown = Blank /\ gone = {} /\ sessions = 0 /\ others = 0 /\ writing = <<>>
  BY DEF Init
<1>2. DiskOK
  <2>1. PICK d \in InitialDisks : sites = d.sites /\ flat = d.flat /\ backups = d.backups
    BY DEF Init
  <2>2. d \in Disks
    BY TuiAssumption
  <2> QED BY <2>1, <2>2 DEF DiskOK, Disks
<1>3. shown \in Lists
  BY <1>1 DEF Blank, Lists, NoAssets
<1>4. /\ savedSites \in Seq([domain : Names, config : Config]) /\ Len(savedSites) = 0
      /\ DOMAIN savedSites = {}
  BY <1>1, EmptySeq
<1>5. own \in Config
  BY <1>1 DEF NewConfig, Config
<1>6. {showHelp, confirmQuit} \subseteq BOOLEAN
  BY DEF Init
<1>7. 0 \in 0..MaxSessions /\ 0 \in 0..MaxOthers
  BY TuiAssumption
<1>8. TypeOK
  BY <1>1, <1>2, <1>3, <1>4, <1>5, <1>6, <1>7 DEF TypeOK, Nil, Ended
<1>9. Offered /\ StaysDeleted
  BY <1>1, <1>4 DEF Offered, StaysDeleted
<1>10. Fits
  BY <1>1 DEF Fits, Working, SyncReady, Selected, PromoteReady, InLists, Drawable, SyncScreens,
     PromoteScreens, RestoreScreens
<1> QED BY <1>8, <1>9, <1>10 DEF IInv

LEMMA UpdateStep ==
    ASSUME IInv, NEW k \in Keys, Update(k)
    PROVE  IInv'
<1>1. CASE AnswerQuit(k) \/ AskQuit \/ Quit(k) \/ ToggleHelp \/ CloseHelp(k) \/ OpenSettings
  BY <1>1, GlobalKeys
<1>2. CASE GoBack
  BY <1>2, GoBackStep
<1>3. CASE UpdateScreen(k)
  <2>1. CASE step = "startup" /\ UpdateStartup(k)
    BY <2>1, StartupKeys, StartupOpenStep, StartupEnterStep DEF UpdateStartup
  <2>2. CASE step = "paths" /\ UpdatePaths(k)
    BY <2>2, PathsKeys, PairsSelectStep, ManualLiveStep, ManualStageStep DEF UpdatePaths
  <2>3. CASE step \in SyncScreens /\ UpdateSync(k)
    BY <2>3, SyncKeys, SaveStep DEF UpdateSync
  <2>4. CASE UpdateAssets(k)
    BY <2>4, AssetsKeys DEF UpdateAssets
  <2>5. CASE UpdateSites(k)
    BY <2>5, DeleteKeys, SettingsKeys, DeleteConfirmStep DEF UpdateSites
  <2>6. CASE DoneEnter(k)
    BY <2>6, EndSteps
  <2> QED BY <1>3, <2>1, <2>2, <2>3, <2>4, <2>5, <2>6 DEF UpdateScreen, SyncScreens
<1> QED BY <1>1, <1>2, <1>3 DEF Update

LEMMA NextIInv == IInv /\ [Next]_vars => IInv'
<1> SUFFICES ASSUME IInv, [Next]_vars PROVE IInv'
  OBVIOUS
<1>1. CASE \E k \in Keys : Update(k)
  BY <1>1, UpdateStep
<1>2. CASE PromoteWorks
  BY <1>2, PromoteWorksStep
<1>3. CASE RunEnds \/ Hangup
  BY <1>3, EndSteps
<1>4. CASE Start
  BY <1>4, StartStep
<1>5. CASE StartTui
  BY <1>5, StartTuiStep
<1>6. CASE \E mode \in {"promoteMode", "restoreMode"} : ResolveConfig(mode)
  BY <1>6, ResolveConfigStep
<1>7. CASE RunWithMode
  BY <1>7, RunWithModeStep
<1>8. CASE OtherSaveBegin
  BY <1>8, OtherSaveBeginStep
<1>9. CASE OtherSaveEnd
  BY <1>9, OtherSaveEndStep
<1>10. CASE OtherDelete
  BY <1>10, OtherDeleteStep
<1>11. CASE UNCHANGED vars
  <2>1. UNCHANGED <<disk, screen, memory, parsed, shown, gone, outside>>
    BY <1>11 DEF vars
  <2>2. {showHelp', confirmQuit'} \subseteq BOOLEAN
    BY <2>1 DEF IInv, TypeOK, screen
  <2> QED BY <2>1, <2>2, StayStep DEF screen
<1> QED BY <1>1, <1>2, <1>3, <1>4, <1>5, <1>6, <1>7, <1>8, <1>9, <1>10, <1>11 DEF Next

LEMMA SpecIInv == Spec => []IInv
BY InitIInv, NextIInv, PTL DEF Spec

\* What is in memory and on disk, and what the screens show, has its type: with it,
\* a config that m.cfg points to, an entry or a backup exists whenever it is read
\* (tui.go: m.cfg, m.savedSites, m.backups).
THEOREM TypesHold == Spec => []TypeOK
BY SpecIInv, PTL DEF IInv

\* No screen that Update leads to reads past a list or follows a nil wp-config in
\* View or under its keys, whatever other processes do to the saved sites meanwhile
\* (tui.go: View, goBack and the update functions of the screens).
THEOREM AlwaysDrawable == Spec => []Drawable
BY SpecIInv, PTL DEF IInv, Fits

\* A session never saves a site that it has deleted unless the site's live webroot was
\* selected again (tui.go: updateDeleteConfirm, updateConfirm; config.go: Save under
\* DomainFromPath).
THEOREM DeletedStaysDeleted == Spec => []StaysDeleted
BY SpecIInv, PTL DEF IInv

-----------------------------------------------------------------------------
(* One site per run.  That a backup listed for a site was taken from that     *)
(* site's live webroot rests on the names, DistinctNames and OneOwner.        *)

\* The same for what another process is about to write.
Owns(n, p) ==
    /\ HoldsOnly(sites, flat, backups, n, p)
    /\ writing # <<>> /\ writing[1] = n => writing[2].live = p

Owned == \A n \in Names : \E p \in Paths : Owns(n, p)

RestoreReady ==
    step \in RestoreScreens => \A i \in DOMAIN shown.restores : shown.restores[i].live = Cfg.live

OInv == IInv /\ Owned /\ RestoreReady

\* What is saved under a webroot's name is of that webroot.
LEMMA OwnerOfPath ==
    ASSUME DistinctNames, IInv, NEW q \in Paths, NEW p \in Paths, Owns(DomainFromPath(q), p)
    PROVE  p = q
<1>1. CASE Readable(Base(q)) /\ sites[Base(q)].live = q
  <2>1. DomainFromPath(q) = Base(q) /\ Base(q) \in Names
    BY <1>1, NamesOfPath DEF DomainFromPath, NamesOf
  <2>2. sites[Base(q)] \in Saved
    BY <1>1, <2>1, DiskTypes DEF Readable
  <2> QED BY <1>1, <2>1, <2>2 DEF Owns, HoldsOnly
<1>2. CASE ~ (Readable(Base(q)) /\ sites[Base(q)].live = q)
  <2>1. DomainFromPath(q) = ExtractDomain(q)
    BY <1>2 DEF DomainFromPath
  <2> QED BY <2>1 DEF Owns, HoldsOnly, DistinctNames
<1> QED BY <1>1, <1>2

\* The list of backups for a webroot has only backups of that webroot.
LEMMA ListedBackups ==
    ASSUME DistinctNames, IInv, Owned, NEW q \in Paths, NEW i \in DOMAIN ListBackups(DomainFromPath(q))
    PROVE  ListBackups(DomainFromPath(q))[i].live = q
<1> DEFINE n == DomainFromPath(q)
<1>1. n \in Names
  BY DomainFromPathType
<1>2. PICK p \in Paths : Owns(n, p)
  BY <1>1 DEF Owned
<1>3. p = q
  BY <1>2, OwnerOfPath
<1> HIDE DEF n
<1>4. ListBackups(n)[i] \in backups[n] \ {Orphan}
  <2>1. backups[n] \ {Orphan} \subseteq Backup
    BY <1>1, DiskTypes
  <2>2. IsFiniteSet(backups[n] \ {Orphan})
    BY <2>1, BackupFinite, FS_Subset
  <2>3. \A j \in DOMAIN SetToSeq(backups[n] \ {Orphan}) :
          SetToSeq(backups[n] \ {Orphan})[j] \in backups[n] \ {Orphan}
    BY <2>2, SetToSeqType
  <2> QED BY <2>3 DEF ListBackups, n
<1> QED BY <1>2, <1>3, <1>4 DEF Owns, HoldsOnly, n

\* A step that keeps every owner.
LEMMA OwnersKept ==
    ASSUME Owned, \A n \in Names, p \in Paths : Owns(n, p) => Owns(n, p)'
    PROVE  Owned'
<1> SUFFICES ASSUME NEW n \in Names PROVE \E p \in Paths : Owns(n, p)'
  BY DEF Owned
<1>1. PICK p \in Paths : Owns(n, p)
  BY DEF Owned
<1> QED BY <1>1

LEMMA OwnedSame ==
    ASSUME Owned, UNCHANGED <<disk, writing>>
    PROVE  Owned'
BY DEF Owned, Owns, HoldsOnly, disk

LEMMA OwnedPromote ==
    ASSUME DistinctNames, IInv, Owned, PromoteWorks
    PROVE  Owned'
<1> DEFINE m == DomainFromPath(Cfg.live)
<1>1. Cfg.live \in Paths
  BY TypeFacts DEF PromoteWorks, IInv, Fits, Working, PromoteScreens, Config
<1>2. m \in Names
  BY <1>1, DomainFromPathType
<1>3. \A p \in Paths : Owns(m, p) => p = Cfg.live
  BY <1>1, OwnerOfPath
<1> HIDE DEF m
<1>4. PICK t \in 1..MaxBackups :
        \E left \in {backups[m] \cup {Orphan}, backups[m] \cup {[live |-> Cfg.live, time |-> t]},
                     {[live |-> Cfg.live, time |-> t]}} :
            backups' = [backups EXCEPT ![m] = left]
  BY DEF PromoteWorks, m
<1>5. /\ \A n \in Names \ {m} : backups'[n] = backups[n]
      /\ backups'[m] \subseteq backups[m] \cup {Orphan, [live |-> Cfg.live, time |-> t]}
  BY <1>2, <1>4, DiskTypes
<1>6. UNCHANGED <<sites, flat, writing>>
  BY DEF PromoteWorks, outside
<1>7. ASSUME NEW n \in Names, NEW p \in Paths, Owns(n, p)
      PROVE  Owns(n, p)'
  <2>1. CASE n = m
    <3>1. p = Cfg.live
      BY <1>3, <1>7, <2>1
    <3>2. \A backup \in backups'[m] \ {Orphan} : backup.live = p
      BY <1>5, <1>7, <2>1, <3>1 DEF Owns, HoldsOnly
    <3> QED BY <1>6, <1>7, <2>1, <3>2 DEF Owns, HoldsOnly
  <2>2. CASE n # m
    BY <1>5, <1>6, <1>7, <2>2 DEF Owns, HoldsOnly
  <2> QED BY <2>1, <2>2
<1> QED BY <1>7, OwnersKept

LEMMA OwnedSave ==
    ASSUME DistinctNames, IInv, Owned, NEW k \in Keys, UpdateConfirm(k)
    PROVE  Owned'
<1> DEFINE m == DomainFromPath(Cfg.live)
<1>1. Cfg.live \in Paths
  BY TypeFacts DEF UpdateConfirm, IInv, Fits, SyncReady, SyncScreens, Nil, Config, NoPath
<1>2. m \in Names
  BY <1>1, DomainFromPathType
<1>3. \A p \in Paths : Owns(m, p) => p = Cfg.live
  BY <1>1, OwnerOfPath
<1> HIDE DEF m
<1>4. PICK result \in {Cfg, sites[m], Torn} : sites' = [sites EXCEPT ![m] = result]
  BY DEF UpdateConfirm, Save, m
<1>5. sites'[m] = result /\ \A n \in Names \ {m} : sites'[n] = sites[n]
  BY <1>2, <1>4, DiskTypes
<1>6. UNCHANGED <<flat, backups, writing>>
  BY DEF UpdateConfirm, outside
<1>7. ASSUME NEW n \in Names, NEW p \in Paths, Owns(n, p)
      PROVE  Owns(n, p)'
  <2>1. CASE n = m
    <3>1. p = Cfg.live
      BY <1>3, <1>7, <2>1
    <3>2. sites'[m] \in Saved => sites'[m].live = p
      BY <1>4, <1>5, <1>7, <2>1, <3>1, SavedNotMarker DEF Owns, HoldsOnly
    <3> QED BY <1>6, <1>7, <2>1, <3>2 DEF Owns, HoldsOnly
  <2>2. CASE n # m
    BY <1>5, <1>6, <1>7, <2>2 DEF Owns, HoldsOnly
  <2> QED BY <2>1, <2>2
<1> QED BY <1>7, OwnersKept

LEMMA OwnedOtherSave ==
    ASSUME DistinctNames, IInv, Owned, OtherSaveBegin
    PROVE  Owned'
<1>1. PICK pair \in PairSites(Scan) :
        /\ sites' = [sites EXCEPT ![DomainFromPath(pair.live)] = Torn]
        /\ writing' = <<DomainFromPath(pair.live),
                        [live |-> pair.live, stage |-> pair.stage, modes |-> TRUE]>>
  BY DEF OtherSaveBegin
<1>2. pair.live \in Paths
  <2>1. pair \in [live : Paths, stage : Paths \cup {NoPath}, domain : Names]
    BY ScanType, PairSitesType
  <2> QED BY <2>1
<1> DEFINE m == DomainFromPath(pair.live)
           c == [live |-> pair.live, stage |-> pair.stage, modes |-> TRUE]
<1>3. m \in Names /\ c.live = pair.live
  BY <1>2, DomainFromPathType
<1>4. \A p \in Paths : Owns(m, p) => p = pair.live
  BY <1>2, OwnerOfPath
<1>5. sites' = [sites EXCEPT ![m] = Torn] /\ writing' = <<m, c>>
  BY <1>1
<1> HIDE DEF m, c
<1>6. sites'[m] = Torn /\ \A n \in Names \ {m} : sites'[n] = sites[n]
  BY <1>3, <1>5, DiskTypes
<1>7. UNCHANGED <<flat, backups>> /\ writing = <<>>
  BY DEF OtherSaveBegin
<1>8. writing'[1] = m /\ writing'[2] = c
  BY <1>5
<1>9. ASSUME NEW n \in Names, NEW p \in Paths, Owns(n, p)
      PROVE  Owns(n, p)'
  <2>1. CASE n = m
    <3>1. p = pair.live
      BY <1>4, <1>9, <2>1
    <3> QED BY <1>3, <1>6, <1>7, <1>8, <1>9, <2>1, <3>1, SavedNotMarker DEF Owns, HoldsOnly
  <2>2. CASE n # m
    BY <1>6, <1>7, <1>8, <1>9, <2>2 DEF Owns, HoldsOnly
  <2> QED BY <2>1, <2>2
<1> QED BY <1>9, OwnersKept

LEMMA OwnedOtherSaveEnd ==
    ASSUME IInv, Owned, OtherSaveEnd
    PROVE  Owned'
<1> DEFINE m == writing[1]
<1>1. writing \in Names \X Saved /\ writing # <<>>
  BY DEF OtherSaveEnd, IInv, TypeOK
<1>2. PICK result \in {NoConfig, writing[2], sites[m], Torn} : sites' = [sites EXCEPT ![m] = result]
  BY DEF OtherSaveEnd
<1>3. m \in Names
  BY <1>1
<1> HIDE DEF m
<1>4. sites'[m] = result /\ \A n \in Names \ {m} : sites'[n] = sites[n]
  BY <1>2, <1>3, DiskTypes
<1>5. UNCHANGED <<flat, backups>> /\ writing' = <<>>
  BY DEF OtherSaveEnd
<1>6. ASSUME NEW n \in Names, NEW p \in Paths, Owns(n, p)
      PROVE  Owns(n, p)'
  <2>1. CASE n = m
    <3>1. writing[2].live = p
      BY <1>1, <1>6, <2>1 DEF Owns, m
    <3>2. sites'[n] \in Saved => sites'[n].live = p
      BY <1>2, <1>4, <1>6, <2>1, <3>1, SavedNotMarker DEF Owns, HoldsOnly
    <3> QED BY <1>5, <1>6, <3>2 DEF Owns, HoldsOnly
  <2>2. CASE n # m
    BY <1>4, <1>5, <1>6, <2>2 DEF Owns, HoldsOnly
  <2> QED BY <2>1, <2>2
<1> QED BY <1>6, OwnersKept

LEMMA OwnedDelete ==
    ASSUME Owned, NEW cut, NEW emptied, DeleteSites(cut, emptied), UNCHANGED <<flat, writing>>
    PROVE  Owned'
<1>1. ASSUME NEW n \in Names, NEW p \in Paths, Owns(n, p)
      PROVE  Owns(n, p)'
  <2>1. sites'[n] \in {NoConfig, sites[n]} /\ backups'[n] \subseteq backups[n]
    BY DEF DeleteSites
  <2> QED BY <1>1, <2>1, SavedNotMarker DEF Owns, HoldsOnly
<1> QED BY <1>1, OwnersKept

LEMMA OwnedMigrate ==
    ASSUME Owned, MigrateLegacyConfigs, UNCHANGED writing
    PROVE  Owned'
<1>1. PICK moved :
        /\ sites' = [n \in Names |-> IF n \in moved THEN flat[n] ELSE sites[n]]
        /\ flat' = [n \in Names |-> IF n \in moved THEN NoConfig ELSE flat[n]]
        /\ UNCHANGED backups
  BY DEF MigrateLegacyConfigs
<1>2. ASSUME NEW n \in Names, NEW p \in Paths, Owns(n, p)
      PROVE  Owns(n, p)'
  <2>1. sites'[n] \in {flat[n], sites[n]} /\ flat'[n] \in {NoConfig, flat[n]}
    BY <1>1
  <2> QED BY <1>1, <1>2, <2>1, SavedNotMarker DEF Owns, HoldsOnly
<1> QED BY <1>2, OwnersKept

\* The screen of a restore is entered with a list of its own, or kept with what it shows.
RestoreKept ==
    step' \in RestoreScreens =>
        step \in RestoreScreens /\ UNCHANGED memory /\ shown'.restores = shown.restores

LEMMA RestoreReadyKept ==
    ASSUME RestoreReady, RestoreKept
    PROVE  RestoreReady'
BY SameCfg DEF RestoreReady, RestoreKept

LEMMA RestoreReadyEntered ==
    ASSUME DistinctNames, IInv, Owned, NEW c \in Config, c.live \in Paths, Cfg' = c,
           EnterPromote(c) \/ EnterRestore(c)
    PROVE  RestoreReady'
<1>1. \/ step' = "promoteSelect"
      \/ step' = "restoreList" /\ shown'.restores = ListBackups(DomainFromPath(c.live))
  BY EnterFacts
<1> QED BY <1>1, ListedBackups DEF RestoreReady, RestoreScreens

\* Update keeps the owners and what a restore shows.
LEMMA UpdateOwned ==
    ASSUME DistinctNames, IInv, Owned, NEW k \in Keys, Update(k)
    PROVE  Owned'
<1>1. CASE UpdateConfirm(k)
  BY <1>1, OwnedSave
<1>2. CASE UpdateDeleteConfirm(k)
  BY <1>2, OwnedDelete DEF UpdateDeleteConfirm, outside
<1>3. CASE UNCHANGED <<disk, writing>>
  BY <1>3, OwnedSame
<1>4. CASE AnswerQuit(k) \/ AskQuit \/ Quit(k) \/ ToggleHelp \/ CloseHelp(k) \/ OpenSettings \/ GoBack
  BY <1>3, <1>4 DEF AnswerQuit, AskQuit, Quit, ToggleHelp, CloseHelp, OpenSettings, GoBack, Elsewhere,
     outside
<1>5. CASE UpdateStartup(k) \/ UpdatePaths(k)
  BY <1>3, <1>5 DEF UpdateStartup, UpdatePaths, StartupMove, StartupNew, StartupOpen, StartupPromote,
     StartupRestore, StartupDelete, PairsMove, PairsCustom, PairsSelect, ManualLive, ManualStage,
     Scroll, Elsewhere, outside
<1>6. CASE UpdateSync(k)
  BY <1>1, <1>3, <1>6 DEF UpdateSync, UpdateCredentials, ParamsType, ParamsNext, TablesMove,
     TablesCycle, TablesEnter, ExcludesMove, ExcludesEnter, Scroll, Crash, Elsewhere, outside
<1>7. CASE UpdateAssets(k) \/ DoneEnter(k)
  BY <1>3, <1>7 DEF UpdateAssets, PromoteMove, PromoteToggle, PromoteEnter, RestoreMove, RestoreEnter,
     DoneEnter, Scroll, Crash, Elsewhere, outside
<1>8. CASE UpdateSites(k)
  BY <1>2, <1>3, <1>8 DEF UpdateSites, DeleteMove, DeleteMark, DeleteBack, SettingsMove, SettingsLeave,
     Scroll, Elsewhere, outside
<1> QED BY <1>4, <1>5, <1>6, <1>7, <1>8 DEF Update, UpdateScreen

LEMMA UpdateRestoreReady ==
    ASSUME DistinctNames, IInv, Owned, RestoreReady, NEW k \in Keys, Update(k)
    PROVE  RestoreReady'
<1>1. CASE RestoreKept
  BY <1>1, RestoreReadyKept
<1>2. CASE AnswerQuit(k) \/ AskQuit \/ Quit(k) \/ ToggleHelp \/ CloseHelp(k) \/ OpenSettings
  BY <1>1, <1>2 DEF AnswerQuit, AskQuit, Quit, ToggleHelp, CloseHelp, OpenSettings, GoTo, RestoreKept,
     RestoreScreens
<1>3. CASE GoBack
  <2>1. step' = BackTo /\ UNCHANGED memory /\ shown'.restores = shown.restores
    BY <1>3 DEF GoBack, GoTo, IInv, TypeOK, Lists
  <2>2. RestoreKept
    BY <2>1, BackToScreens DEF RestoreKept, RestoreScreens, SyncScreens
  <2> QED BY <1>1, <2>2
<1>4. CASE step = "startup" /\ (StartupPromote(k) \/ StartupRestore(k))
  <2> DEFINE c == savedSites[cursor + 1].config
  <2>1. SelectEntry /\ (EnterPromote(c) \/ EnterRestore(c))
    BY <1>4 DEF StartupPromote, StartupRestore
  <2>2. cursor + 1 \in 1..Len(savedSites) /\ Cfg' = c
    BY <1>4, <2>1, SelectEntryFacts
  <2>3. c \in Config /\ c.live \in Paths
    BY <2>2, EntryFacts
  <2> HIDE DEF c
  <2> QED BY <2>1, <2>2, <2>3, RestoreReadyEntered
<1>5. CASE step = "startup" /\ (StartupMove(k) \/ StartupNew(k) \/ StartupOpen(k) \/ StartupDelete(k))
  BY <1>1, <1>5 DEF StartupMove, StartupNew, StartupOpen, StartupDelete, Scroll, GoTo, RestoreKept,
     RestoreScreens
<1>6. CASE UpdatePaths(k)
  BY <1>1, <1>6 DEF UpdatePaths, PairsMove, PairsCustom, PairsSelect, ManualLive, ManualStage,
     Scroll, GoTo, RestoreKept, RestoreScreens
<1>7. CASE step \in SyncScreens /\ UpdateSync(k)
  <2>1. CASE ParamsNext(k)
    <3>1. cursor \in 0..2
      BY <2>1 DEF ParamsNext, IInv, Fits, InLists
    <3>2. step' \in {"syncParams", "tableSelect", "crashed"}
      <4>1. CASE cursor < 2
        <5>1. cursor # 2
          BY <3>1, <4>1
        <5>2. GoTo("syncParams", cursor + 1)
          BY <2>1, <4>1, <5>1 DEF ParamsNext
        <5> QED BY <5>2 DEF GoTo
      <4>2. CASE cursor = 2 /\ k = "tab"
        BY <2>1, <4>2 DEF ParamsNext, GoTo
      <4>3. CASE cursor = 2 /\ k = "enter"
        BY <2>1, <4>3 DEF ParamsNext, GoTo, ToTables
      <4> QED BY <2>1, <3>1, <4>1, <4>2, <4>3 DEF ParamsNext
    <3> QED BY <1>1, <3>2 DEF RestoreKept, RestoreScreens
  <2>2. CASE UpdateCredentials(k)
    <3>1. step' \in {"syncParams", "tableSelect", "crashed"}
      BY <2>2 DEF UpdateCredentials, GoTo, ToTables
    <3> QED BY <1>1, <3>1 DEF RestoreKept, RestoreScreens
  <2>3. CASE ParamsType(k) \/ TablesMove(k) \/ TablesCycle(k) \/ TablesEnter(k) \/ ExcludesMove(k)
             \/ ExcludesEnter(k) \/ UpdateConfirm(k)
    BY <1>1, <1>7, <2>3 DEF ParamsType, TablesMove, TablesCycle, TablesEnter, ExcludesMove,
       ExcludesEnter, UpdateConfirm, Scroll, Crash, GoTo, RestoreKept, RestoreScreens, SyncScreens
  <2> QED BY <1>7, <2>1, <2>2, <2>3 DEF UpdateSync
<1>8. CASE UpdateAssets(k)
  <2>1. CASE PromoteToggle(k)
    <3>1. step = "promoteSelect" /\ step' \in {step, "crashed"}
      BY <2>1 DEF PromoteToggle, Crash
    <3> QED BY <1>1, <3>1 DEF RestoreKept, RestoreScreens
  <2>2. CASE PromoteMove(k) \/ PromoteEnter(k) \/ RestoreMove(k) \/ RestoreEnter(k)
    BY <1>1, <2>2 DEF PromoteMove, PromoteEnter, RestoreMove, RestoreEnter, Scroll, RestoreKept,
       RestoreScreens
  <2> QED BY <1>8, <2>1, <2>2 DEF UpdateAssets
<1>9. CASE UpdateSites(k) \/ DoneEnter(k)
  BY <1>1, <1>9 DEF UpdateSites, DeleteMove, DeleteMark, DeleteBack, UpdateDeleteConfirm, SettingsMove,
     SettingsLeave, DoneEnter, Home, FirstScreen, Scroll, GoTo, RestoreKept, RestoreScreens
<1> QED BY <1>2, <1>3, <1>4, <1>5, <1>6, <1>7, <1>8, <1>9
        DEF Update, UpdateScreen, UpdateStartup, SyncScreens

LEMMA NextOInv ==
    ASSUME DistinctNames
    PROVE  OInv /\ [Next]_vars => OInv'
<1> SUFFICES ASSUME OInv, [Next]_vars PROVE Owned' /\ RestoreReady'
  BY NextIInv DEF OInv
<1> USE DEF OInv
<1>1. CASE \E k \in Keys : Update(k)
  BY <1>1, UpdateOwned, UpdateRestoreReady
<1>2. CASE PromoteWorks
  BY <1>2, OwnedPromote, RestoreReadyKept DEF PromoteWorks, RestoreKept, screen
<1>3. CASE RunEnds \/ Hangup
  <2>1. UNCHANGED <<disk, writing>>
    BY <1>3 DEF RunEnds, Hangup, Elsewhere, outside
  <2>2. step' \notin RestoreScreens
    <3>1. CASE RunEnds /\ step = "running"
      BY <3>1 DEF RunEnds, RestoreScreens
    <3>2. CASE RunEnds /\ step = "promoteRunning"
      BY <3>2 DEF RunEnds, RestoreScreens
    <3>3. CASE RunEnds /\ step = "restoreRunning"
      BY <3>3 DEF RunEnds, RestoreScreens
    <3>4. CASE Hangup
      BY <3>4 DEF Hangup, RestoreScreens
    <3> QED BY <1>3, <3>1, <3>2, <3>3, <3>4 DEF RunEnds, Running
  <2> QED BY <2>1, <2>2, OwnedSame DEF RestoreReady
<1>4. CASE Start
  <2>1. step' = "starting"
    BY <1>4 DEF Start, GoTo
  <2> QED BY <1>4, <2>1, OwnedMigrate DEF Start, RestoreReady, RestoreScreens
<1>5. CASE StartTui
  <2>1. UNCHANGED <<disk, writing>> /\ step' \in {"startup", "paths"}
    BY <1>5 DEF StartTui, FirstScreen, GoTo, Elsewhere, outside
  <2> QED BY <2>1, OwnedSame DEF RestoreReady, RestoreScreens
<1>6. CASE \E mode \in {"promoteMode", "restoreMode"} : ResolveConfig(mode)
  <2>1. UNCHANGED <<disk, writing>> /\ step' \in {"promoteMode", "restoreMode", "quit"}
    BY <1>6 DEF ResolveConfig, Elsewhere, outside
  <2> QED BY <2>1, OwnedSame DEF RestoreReady, RestoreScreens
<1>7. CASE RunWithMode
  <2>1. UNCHANGED <<disk, writing, own, alias>> /\ (EnterPromote(own) \/ EnterRestore(own))
    BY <1>7 DEF RunWithMode, Elsewhere, outside
  <2>2. alias = 0 /\ own \in Config /\ own.live # NoPath
    BY <1>7 DEF RunWithMode, IInv, TypeOK, Fits, Working, Cfg
  <2>3. own.live \in Paths /\ Cfg' = own
    BY <2>1, <2>2 DEF Config, Cfg
  <2> QED BY <2>1, <2>2, <2>3, OwnedSame, RestoreReadyEntered
<1>8. CASE OtherSaveBegin
  BY <1>8, OwnedOtherSave, RestoreReadyKept DEF OtherSaveBegin, Inside, RestoreKept, screen
<1>9. CASE OtherSaveEnd
  BY <1>9, OwnedOtherSaveEnd, RestoreReadyKept DEF OtherSaveEnd, Inside, RestoreKept, screen
<1>10. CASE OtherDelete
  <2>1. PICK names : DeleteSites(names, names)
    BY <1>10 DEF OtherDelete
  <2>2. UNCHANGED <<flat, writing>> /\ RestoreKept
    BY <1>10 DEF OtherDelete, Inside, RestoreKept, screen
  <2> QED BY <2>1, <2>2, OwnedDelete, RestoreReadyKept
<1>11. CASE UNCHANGED vars
  <2>1. UNCHANGED <<disk, writing>> /\ RestoreKept
    BY <1>11 DEF vars, outside, screen, RestoreKept
  <2> QED BY <2>1, OwnedSame, RestoreReadyKept
<1> QED BY <1>1, <1>2, <1>3, <1>4, <1>5, <1>6, <1>7, <1>8, <1>9, <1>10, <1>11 DEF Next

LEMMA InitOInv ==
    ASSUME \A d \in InitialDisks : OneOwner(d)
    PROVE  Init => OInv
<1> SUFFICES ASSUME Init PROVE OInv
  OBVIOUS
<1>1. PICK d \in InitialDisks : sites = d.sites /\ flat = d.flat /\ backups = d.backups
  BY DEF Init
<1>2. Owned
  BY <1>1 DEF OneOwner, Owned, Owns, Init
<1>3. RestoreReady
  BY DEF Init, RestoreReady, RestoreScreens
<1> QED BY <1>2, <1>3, InitIInv DEF OInv

\* With distinct names, and a disk that was saved under them, a run works on one site:
\* a sync on the databases of the folders it copies, a promote on the staging items and
\* live targets of those folders, a restore on a backup of that live webroot (tui.go:
\* runSync, runPromote, runRestore; backup.go: ListBackups by name).
THEOREM OneSiteRuns ==
    ASSUME DistinctNames, \A d \in InitialDisks : OneOwner(d)
    PROVE  Spec => []OneSitePerRun
<1>1. OInv => OneSitePerRun
  <2> SUFFICES ASSUME OInv PROVE OneSitePerRun
    OBVIOUS
  <2>1. step = "running" => liveWP = Cfg.live /\ stageWP = Cfg.stage
    BY DEF OInv, IInv, Fits, SyncReady
  <2>2. step \in {"promoteConfirm", "promoteRunning"} =>
          shown.assets = [live |-> Cfg.live, stage |-> Cfg.stage]
    BY DEF OInv, IInv, Fits, PromoteReady, PromoteScreens
  <2>3. step = "restoreRunning" => shown.restores[cursor + 1].live = Cfg.live
    <3> SUFFICES ASSUME step = "restoreRunning" PROVE shown.restores[cursor + 1].live = Cfg.live
      OBVIOUS
    <3>1. cursor \in 0..(Len(shown.restores) - 1)
      BY DEF OInv, IInv, Fits, Drawable
    <3>2. cursor + 1 \in DOMAIN shown.restores
      BY <3>1, TypeFacts DEF OInv
    <3> QED BY <3>2 DEF OInv, RestoreReady, RestoreScreens
  <2> QED BY <2>1, <2>2, <2>3 DEF OneSitePerRun
<1> QED BY <1>1, InitOInv, NextOInv, PTL DEF Spec
====
