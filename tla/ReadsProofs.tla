---------------------------- MODULE ReadsProofs ----------------------------
(***************************************************************************)
(* What TLAPS proves of the read side, for every finite set of names and   *)
(* versions, every graph of dependencies and every number of packages that *)
(* are published meanwhile.                                                *)
(***************************************************************************)
EXTENDS ReadsHistory, FiniteSetTheorems, SequenceTheorems, WellFoundedInduction, TLAPS

-----------------------------------------------------------------------------
(* The inductive invariant.                                                *)

Resolutions ==
    [step : {"get", "visit"}, stack : Seq(SUBSET Names), seen : SUBSET Names,
     result : Seq(Packages), at : Packages]

Walks ==
    [step : {"ask", "done"}, query : SUBSET Names, per : Nat \ {0}, page : Nat \ {0},
     seen : Seq(Packages)]

Typed ==
    /\ data \in Stores
    /\ published \in 0..MaxPublishes
    /\ resolver = Idle \/ resolver \in Resolutions
    /\ walk = Idle \/ walk \in Walks
    /\ start \subseteq Names
    /\ steady \in BOOLEAN /\ still \in BOOLEAN

\* Every call in progress stands for a name met before, except the first.
DepthOK ==
    Len(resolver.stack) <= Cardinality(resolver.seen) + (IF resolver.step = "visit" THEN 1 ELSE 0)

\* What is answered was met, and once.
ResultOK ==
    /\ \A i \in DOMAIN resolver.result : resolver.result[i][1] \in resolver.seen
    /\ \A i, j \in DOMAIN resolver.result : resolver.result[i][1] = resolver.result[j][1] => i = j

ResolverOK == resolver # Idle => resolver.at \in Stored /\ DepthOK /\ ResultOK

\* The names in a stack of maps, and those met or to be visited.
NamesIn(stack) == UNION {stack[i] : i \in DOMAIN stack}
Met == resolver.seen \cup NamesIn(resolver.stack)

\* The resolution has read no manifest yet, or is about to read that of m.
Fresh == resolver.step = "get" /\ resolver.seen = {}
Reading(m) == resolver.step = "get" /\ Versions(m) # {} /\ resolver.at = <<m, Newest(m)>>

\* What was met can be reached...
MetIsReachable == \A n \in Met : Reachable(data[root], n)

\* ... and it holds what the asked package and the names seen depend on, but for
\* the manifest about to be read.
MetIsClosed ==
    /\ IF Fresh THEN resolver.at = root /\ resolver.stack = <<>> /\ resolver.result = <<>>
                ELSE data[root] \subseteq Met
    /\ \A m \in resolver.seen : DependsOn(m) \subseteq Met \/ Reading(m)
    /\ resolver.step = "get" /\ ~Fresh => \E m \in resolver.seen : Reading(m)

\* The names seen that are in the store are answered, and only they.
SeenIsAnswered ==
    /\ \A n \in resolver.seen :
          Versions(n) # {} => \E i \in DOMAIN resolver.result : resolver.result[i] = <<n, Newest(n)>>
    /\ \A i \in DOMAIN resolver.result :
          LET n == resolver.result[i][1] IN
          Versions(n) # {} /\ resolver.result[i] = <<n, Newest(n)>>

SteadyOK ==
    steady =>
        /\ resolver # Idle /\ root \in Stored
        /\ MetIsReachable /\ MetIsClosed /\ SeenIsAnswered

UpTo(packages, n) == {p \in packages : p[1] <= n}
Below(packages, n) == {p \in packages : p[1] < n}

\* Packages that the pages read so far were to cover.
Covered == (walk.page - 1) * walk.per

\* A name that matched at the start was shown, or the last of its packages is
\* still to come, wherever publishing has moved it.
NoNameLost ==
    walk # Idle =>
        \A n \in start :
            /\ n \in walk.query /\ Versions(n) # {}
            /\ SeenOf(n) # {} \/ (walk.step = "ask" /\ Cardinality(UpTo(Matching, n)) > Covered)

\* Without publishing, the pages read are the beginning of one sorted slice, as
\* far as names go.
PagesJoin ==
    still =>
        /\ walk # Idle
        /\ Len(walk.seen) = IF Covered > Cardinality(Matching) THEN Cardinality(Matching) ELSE Covered
        /\ walk.step = "done" => Covered >= Cardinality(Matching)
        /\ \A i \in DOMAIN walk.seen, n \in Names :
              walk.seen[i][1] = n <=>
                  /\ Cardinality(Below(Matching, n)) < i
                  /\ i <= Cardinality(UpTo(Matching, n))

-----------------------------------------------------------------------------
(* Lemmas about numbers, finite sets and sequences.                        *)

LEMMA LeastExists ==
    ASSUME NEW S \in SUBSET Nat, S # {}
    PROVE  \E k \in S : \A l \in S : k <= l
<1>1. \E k \in S : \A l \in S : ~(<<l, k>> \in OpToRel(<, Nat))
    BY NatLessThanWellFounded, WFMin, Zenon
<1>2. \A k, l \in Nat : l < k => <<l, k>> \in OpToRel(<, Nat)
    BY DEF OpToRel
<1>3. \E k \in S : \A l \in S : ~(l < k)
    BY <1>1, <1>2, Zenon
<1> QED
    BY <1>3

\* A finite set of numbers that is not empty has a greatest one: the smallest
\* set without it would still be without it after losing an element.
LEMMA GreatestExists ==
    ASSUME NEW V \in SUBSET Nat, IsFiniteSet(V), V # {}
    PROVE  \E m \in V : \A v \in V : m >= v
<1> DEFINE HasGreatest(T) == \E m \in T : \A v \in T : m >= v
           Bad == {T \in SUBSET V : T # {} /\ ~HasGreatest(T)}
           Sizes == {Cardinality(T) : T \in Bad}
<1>1. SUFFICES ASSUME Bad # {} PROVE FALSE
    OBVIOUS
<1>2. \A T \in SUBSET V : IsFiniteSet(T) /\ Cardinality(T) \in Nat
    BY FS_Subset, FS_CardinalityType
<1>3. Sizes \subseteq Nat /\ Sizes # {}
    BY <1>1, <1>2
<1>4. PICK k \in Sizes : \A l \in Sizes : k <= l
    <2> HIDE DEF Sizes
    <2> QED
        BY <1>3, LeastExists
<1>5. PICK T \in Bad : Cardinality(T) = k
    OBVIOUS
<1>6. PICK x \in T : TRUE
    OBVIOUS
<1>7. T \ {x} \notin Bad
    <2>1. Cardinality(T \ {x}) = Cardinality(T) - 1
        BY <1>2, <1>6, FS_RemoveElement
    <2>2. Cardinality(T) = k /\ k \in Nat
        BY <1>2, <1>5
    <2>3. T \ {x} \in Bad => k <= Cardinality(T) - 1
        BY <1>4, <2>1
    <2> QED
        BY <2>2, <2>3
<1>8. CASE T \ {x} = {}
    BY <1>6, <1>8
<1>9. CASE T \ {x} # {}
    <2>1. PICK m \in T \ {x} : \A v \in T \ {x} : m >= v
        BY <1>7, <1>9
    <2>2. CASE m >= x
        BY <2>1, <2>2
    <2>3. CASE x >= m
        BY <1>6, <2>1, <2>3
    <2> QED
        BY <2>1, <2>2, <2>3
<1> QED
    BY <1>8, <1>9

\* A downward closed part of a sorted slice is its beginning.
LEMMA PrefixOfSorted ==
    ASSUME NEW packages \in SUBSET Packages, IsFiniteSet(packages),
           NEW s \in Sorted(packages), NEW low \in SUBSET packages,
           \A p \in low, q \in packages : q[1] <= p[1] => q \in low
    PROVE  /\ Len(s) = Cardinality(packages)
           /\ s \in Seq(packages)
           /\ Cardinality(low) \in 0..Len(s)
           /\ \A i \in 1..Len(s) : s[i] \in low <=> i <= Cardinality(low)
<1> DEFINE n == Cardinality(packages)
           k == Cardinality(low)
           Index == {i \in 1..n : s[i] \in low}
<1>1. n \in Nat /\ k \in Nat /\ k <= n /\ IsFiniteSet(low)
    BY FS_Subset, FS_CardinalityType
<1>2. s \in [1..n -> packages] /\ (\A i, j \in 1..n : i # j => s[i] # s[j])
    BY DEF Sorted, SetToSeqs
<1>3. \A i, j \in 1..n : i < j => s[i][1] <= s[j][1]
    BY <1>2 DEF Sorted
<1>4. s \in Seq(packages) /\ Len(s) = n
    BY <1>1, <1>2, IsASeq
<1>5. s \in Surjection(1..n, packages)
    <2>1. s \in Injection(1..n, packages)
        BY <1>2 DEF Injection, IsInjective
    <2>2. IsFiniteSet(1..n) /\ Cardinality(1..n) = n
        BY <1>1, FS_Interval
    <2> HIDE DEF n
    <2> QED
        BY <2>1, <2>2, FS_Injection DEF n
<1>6. Index \subseteq 1..n /\ IsFiniteSet(Index) /\ Cardinality(Index) \in Nat
    <2>1. Index \in SUBSET (1..n)
        OBVIOUS
    <2>2. IsFiniteSet(1..n)
        BY <1>1, FS_Interval
    <2> HIDE DEF Index
    <2> QED
        BY <2>1, <2>2, FS_Subset, FS_CardinalityType
<1>7. Cardinality(Index) = k
    <2> DEFINE t == [i \in Index |-> s[i]]
    <2>1. t \in Surjection(Index, low)
        BY <1>5 DEF Surjection
    <2>2. t \in Injection(Index, low)
        BY <1>2, <2>1 DEF Injection, Surjection, IsInjective
    <2> HIDE DEF t, Index
    <2> QED
        BY <1>6, <2>1, <2>2, FS_Surjection
<1>8. \A i \in Index : i <= k
    <2> TAKE i \in Index
    <2>1. 1..i \subseteq Index
        <3> SUFFICES ASSUME NEW j \in 1..i PROVE j \in Index
            OBVIOUS
        <3>1. CASE j = i
            BY <3>1
        <3>2. CASE j < i
            BY <1>1, <1>2, <1>3, <3>2
        <3> QED
            BY <3>1, <3>2
    <2>2. Cardinality(1..i) = i
        BY <1>6, FS_Interval
    <2> HIDE DEF Index
    <2> QED
        BY <1>6, <1>7, <2>1, <2>2, FS_Subset
<1>9. Index = 1..k
    <2>1. Index \subseteq 1..k
        BY <1>6, <1>8
    <2>2. IsFiniteSet(1..k) /\ Cardinality(1..k) = k
        BY <1>1, FS_Interval
    <2> HIDE DEF Index
    <2> QED
        BY <1>7, <2>1, <2>2, FS_Subset
<1> QED
    BY <1>1, <1>4, <1>9

\* The newest version of a name that has versions is one of them.
LEMMA NewestIsThere ==
    ASSUME NEW n, Versions(n) # {}
    PROVE  /\ Newest(n) \in Versions(n) /\ Newest(n) \in Vers
           /\ <<n, Newest(n)>> \in Stored
<1>1. Versions(n) \in SUBSET Nat /\ IsFiniteSet(Versions(n))
    BY StringsAssumption, FS_Subset DEF Versions
<1>2. \E m \in Versions(n) : \A v \in Versions(n) : m >= v
    BY <1>1, GreatestExists
<1>3. Newest(n) \in Versions(n)
    BY <1>2 DEF Newest, Max
<1> QED
    BY <1>3 DEF Versions

LEMMA PackagesAreFinite ==
    /\ IsFiniteSet(Packages)
    /\ \A S \in SUBSET Packages : IsFiniteSet(S) /\ Cardinality(S) \in Nat
<1>1. IsFiniteSet(Packages)
    BY StringsAssumption, FS_Product DEF Packages
<1> QED
    BY <1>1, FS_Subset, FS_CardinalityType

\* A page of a sorted slice.
LEMMA PageOf ==
    ASSUME NEW packages \in SUBSET Packages, NEW s \in Seq(packages),
           NEW page \in Nat \ {0}, NEW per \in Nat \ {0}
    PROVE  LET before == (page - 1) * per
               end == IF page * per > Len(s) THEN Len(s) ELSE page * per
           IN  /\ before \in Nat /\ page * per = before + per
               /\ Page(s, page, per) \in Seq(packages)
               /\ Len(Page(s, page, per)) = IF before <= end THEN end - before ELSE 0
               /\ \A i \in 1..(end - before) : Page(s, page, per)[i] = s[before + i]
<1> DEFINE before == (page - 1) * per
           end == IF page * per > Len(s) THEN Len(s) ELSE page * per
<1>1. before \in Nat /\ page * per = before + per /\ page * per \in Nat
    OBVIOUS
<1>2. end \in Nat /\ end <= Len(s)
    BY <1>1
<1>3. Page(s, page, per) = SubSeq(s, before + 1, end)
    BY DEF Page
<1> HIDE DEF before, end
<1>4. \A i \in (before + 1)..end : s[i] \in packages
    BY <1>1, <1>2
<1>5. /\ SubSeq(s, before + 1, end) \in Seq(packages)
      /\ Len(SubSeq(s, before + 1, end)) =
            IF before + 1 <= end THEN end - (before + 1) + 1 ELSE 0
      /\ \A i \in 1..(end - (before + 1) + 1) :
            SubSeq(s, before + 1, end)[i] = s[(before + 1) + i - 1]
    <2>1. before + 1 \in Int /\ end \in Int
        BY <1>1, <1>2
    <2> HIDE DEF Page
    <2> QED
        BY <1>4, <2>1, SubSeqProperties
<1>6. /\ Page(s, page, per) \in Seq(packages)
      /\ Len(Page(s, page, per)) = IF before <= end THEN end - before ELSE 0
      /\ \A i \in 1..(end - before) : Page(s, page, per)[i] = s[before + i]
    BY <1>1, <1>2, <1>3, <1>5
<1> QED
    BY <1>1, <1>6 DEF before, end

-----------------------------------------------------------------------------
(* Types.                                                                  *)

LEMMA InitTyped == RInit => Typed
<1> SUFFICES ASSUME RInit PROVE Typed
    OBVIOUS
<1>1. published \in 0..MaxPublishes
    BY BoundsAssumption DEF RInit, Init
<1>2. steady \in BOOLEAN /\ still \in BOOLEAN
    BY Zenon DEF RInit
<1> QED
    BY <1>1, <1>2 DEF RInit, Init, Typed

\* Publishing takes no package away.
LEMMA PublishedStays ==
    ASSUME Typed, NEW p \in Packages, NEW deps \in Manifests, Publish(p, deps)
    PROVE  /\ data' \in Stores /\ Stored \subseteq Stored'
           /\ \A n : Versions(n) \subseteq Versions(n)'
<1>1. deps \in SUBSET Names /\ deps # None
    BY ManifestsAssumption
<1>2. data' \in Stores /\ \A q \in Packages : data'[q] = IF q = p THEN deps ELSE data[q]
    BY <1>1 DEF Typed, Publish, Stores
<1> QED
    BY <1>1, <1>2 DEF Stored, Versions

\* What each step of the resolver makes of it.
LEMMA AskStep ==
    ASSUME NEW p \in Packages, AskDependencies(p)
    PROVE  /\ resolver' \in Resolutions
           /\ resolver'.step = "get" /\ resolver'.stack = <<>> /\ resolver'.seen = {}
           /\ resolver'.result = <<>> /\ resolver'.at = p /\ p \in Stored
    BY DEF AskDependencies, Resolutions, Packages

LEMMA ActiveIsResolution ==
    ASSUME Typed, resolver.step \in {"get", "visit"}
    PROVE  resolver \in Resolutions
    BY DEF Typed, Idle

LEMMA VisitKnownStep ==
    ASSUME Typed, NEW dep \in Names, Visit(dep), dep \in resolver.seen \/ Versions(dep) = {}
    PROVE  /\ resolver \in Resolutions /\ resolver' \in Resolutions
           /\ resolver.step = "visit" /\ resolver.stack # <<>> /\ dep \in Frame
           /\ resolver'.step = "visit"
           /\ resolver'.stack = <<Frame \ {dep}>> \o Tail(resolver.stack)
           /\ resolver'.seen = resolver.seen \cup {dep}
           /\ resolver'.result = resolver.result /\ resolver'.at = resolver.at
<1>1. resolver \in Resolutions /\ resolver.step = "visit" /\ resolver.stack # <<>> /\ dep \in Frame
    BY ActiveIsResolution DEF Visit
<1> DEFINE rest == <<Frame \ {dep}>> \o Tail(resolver.stack)
<1>2. rest \in Seq(SUBSET Names)
    BY <1>1 DEF Resolutions, Frame
<1>3. resolver' = [resolver EXCEPT !.stack = rest, !.seen = resolver.seen \cup {dep}]
    BY DEF Visit
<1> HIDE DEF rest
<1> QED
    BY <1>1, <1>2, <1>3 DEF Resolutions, rest

LEMMA VisitNewStep ==
    ASSUME Typed, NEW dep \in Names, Visit(dep), dep \notin resolver.seen, Versions(dep) # {}
    PROVE  /\ resolver \in Resolutions /\ resolver' \in Resolutions
           /\ resolver.step = "visit" /\ resolver.stack # <<>> /\ dep \in Frame
           /\ resolver'.step = "get"
           /\ resolver'.stack = <<Frame \ {dep}>> \o Tail(resolver.stack)
           /\ resolver'.seen = resolver.seen \cup {dep}
           /\ resolver'.result = Append(resolver.result, <<dep, Newest(dep)>>)
           /\ resolver'.at = <<dep, Newest(dep)>>
<1>1. resolver \in Resolutions /\ resolver.step = "visit" /\ resolver.stack # <<>> /\ dep \in Frame
    BY ActiveIsResolution DEF Visit
<1> DEFINE rest == <<Frame \ {dep}>> \o Tail(resolver.stack)
           new == <<dep, Newest(dep)>>
<1>2. rest \in Seq(SUBSET Names)
    BY <1>1 DEF Resolutions, Frame
<1>3. new \in Packages
    BY NewestIsThere DEF Packages
<1>4. resolver' = [resolver EXCEPT !.stack = rest, !.seen = resolver.seen \cup {dep},
                     !.step = "get", !.at = new, !.result = Append(resolver.result, new)]
    BY DEF Visit
<1>5. Append(resolver.result, new) \in Seq(Packages)
    BY <1>1, <1>3 DEF Resolutions
<1> HIDE DEF rest, new
<1> QED
    BY <1>1, <1>2, <1>3, <1>4, <1>5 DEF Resolutions, rest, new

LEMMA GetStep ==
    ASSUME Typed, ResolverOK, GetManifest
    PROVE  /\ resolver \in Resolutions /\ resolver' \in Resolutions
           /\ resolver.step = "get" /\ resolver'.step = "visit"
           /\ resolver'.stack = <<data[resolver.at]>> \o resolver.stack
           /\ data[resolver.at] \in SUBSET Names
           /\ resolver'.seen = resolver.seen /\ resolver'.result = resolver.result
           /\ resolver'.at = resolver.at
<1>1. resolver \in Resolutions /\ resolver.step = "get"
    BY ActiveIsResolution DEF GetManifest
<1>2. data[resolver.at] \in SUBSET Names
    BY <1>1 DEF ResolverOK, Typed, Stored, Stores, Idle
<1> DEFINE rest == <<data[resolver.at]>> \o resolver.stack
<1>3. rest \in Seq(SUBSET Names)
    BY <1>1, <1>2 DEF Resolutions
<1>4. resolver' = [resolver EXCEPT !.step = "visit", !.stack = rest]
    BY DEF GetManifest
<1> HIDE DEF rest
<1> QED
    BY <1>1, <1>2, <1>3, <1>4 DEF Resolutions, rest

LEMMA ReturnStep ==
    ASSUME Typed, Return
    PROVE  /\ resolver \in Resolutions /\ resolver' \in Resolutions
           /\ resolver.step = "visit" /\ resolver'.step = "visit"
           /\ resolver.stack # <<>> /\ Frame = {}
           /\ resolver'.stack = Tail(resolver.stack)
           /\ resolver'.seen = resolver.seen /\ resolver'.result = resolver.result
           /\ resolver'.at = resolver.at
<1>1. resolver \in Resolutions /\ resolver.step = "visit" /\ resolver.stack # <<>> /\ Frame = {}
    BY ActiveIsResolution DEF Return
<1> DEFINE rest == Tail(resolver.stack)
<1>2. rest \in Seq(SUBSET Names)
    BY <1>1 DEF Resolutions
<1>3. resolver' = [resolver EXCEPT !.stack = rest]
    BY DEF Return
<1> HIDE DEF rest
<1> QED
    BY <1>1, <1>2, <1>3 DEF Resolutions, rest

\* What each step of the client makes of its walk.
LEMMA MatchingIsFinite ==
    /\ Matching \in SUBSET Packages
    /\ IsFiniteSet(Matching) /\ Cardinality(Matching) \in Nat
<1>1. Matching \in SUBSET Packages
    BY DEF Matching, Stored
<1> QED
    BY <1>1, PackagesAreFinite

LEMMA SearchStep ==
    ASSUME NEW query \in SUBSET Names, NEW per \in PerPages, Search(query, per)
    PROVE  /\ walk' \in Walks /\ walk'.step = "ask" /\ walk'.query = query
           /\ walk'.page = 1 /\ walk'.seen = <<>>
<1>1. PerPage(per) \in Nat \ {0}
    BY BoundsAssumption DEF PerPage
<1> QED
    BY <1>1 DEF Search, Walks

LEMMA AskPageStep ==
    ASSUME Typed, AskPage
    PROVE  /\ walk \in Walks /\ walk.step = "ask"
           /\ \E s \in Sorted(Matching) :
                 /\ walk' \in Walks /\ walk'.query = walk.query /\ walk'.per = walk.per
                 /\ walk'.page = walk.page + 1
                 /\ walk'.step = IF walk.page * walk.per >= Len(s) THEN "done" ELSE "ask"
                 /\ walk'.seen = walk.seen \o Page(s, walk.page, walk.per)
                 /\ s \in Seq(Matching) /\ Len(s) = Cardinality(Matching)
<1>1. walk \in Walks /\ walk.step = "ask"
    BY DEF Typed, AskPage, Idle
<1>2. PICK s \in Sorted(Matching) :
          walk' = [walk EXCEPT
                     !.seen = walk.seen \o Page(s, walk.page, walk.per),
                     !.page = walk.page + 1,
                     !.step = IF walk.page * walk.per >= Len(s) THEN "done" ELSE "ask"]
    BY DEF AskPage
<1>3. s \in Seq(Matching) /\ Len(s) = Cardinality(Matching)
    <2>1. {} \in SUBSET Matching
        OBVIOUS
    <2> QED
        BY <2>1, MatchingIsFinite, PrefixOfSorted
<1> DEFINE more == walk.seen \o Page(s, walk.page, walk.per)
           next == IF walk.page * walk.per >= Len(s) THEN "done" ELSE "ask"
           page == walk.page + 1
<1>4. more \in Seq(Packages) /\ next \in {"ask", "done"} /\ page \in Nat \ {0}
    <2>1. Page(s, walk.page, walk.per) \in Seq(Matching)
        BY <1>1, <1>3, MatchingIsFinite, PageOf DEF Walks
    <2>2. Page(s, walk.page, walk.per) \in Seq(Packages)
        BY <2>1, MatchingIsFinite, SeqMonotonic
    <2> QED
        BY <1>1, <2>2 DEF Walks
<1>5. walk' = [walk EXCEPT !.seen = more, !.page = page, !.step = next]
    BY <1>2
<1> HIDE DEF more, next, page
<1>6. /\ walk' \in Walks /\ walk'.query = walk.query /\ walk'.per = walk.per
      /\ walk'.page = page /\ walk'.step = next /\ walk'.seen = more
    BY <1>1, <1>4, <1>5 DEF Walks
<1> QED
    BY <1>1, <1>3, <1>6 DEF more, next, page

LEMMA TypedStep == Typed /\ ResolverOK /\ [RNext]_allVars => Typed'
<1> SUFFICES ASSUME Typed, ResolverOK, [RNext]_allVars PROVE Typed'
    OBVIOUS
<1>1. ASSUME NEW p \in Packages, RAsk(p) PROVE Typed'
    <2>1. steady' \in BOOLEAN
        BY <1>1, Zenon DEF RAsk
    <2>2. resolver' \in Resolutions
        BY <1>1, AskStep DEF RAsk
    <2> QED
        BY <1>1, <2>1, <2>2 DEF Typed, RAsk, AskDependencies
<1>2. ASSUME NEW p \in Packages, NEW deps \in Manifests, RPublish(p, deps) PROVE Typed'
    <2>1. steady' \in BOOLEAN /\ still' \in BOOLEAN
        BY <1>2, Zenon DEF RPublish
    <2>2. data' \in Stores
        BY <1>2, PublishedStays DEF RPublish
    <2>3. published' \in 0..MaxPublishes
        BY <1>2, BoundsAssumption DEF RPublish, Publish, Typed
    <2> QED
        BY <1>2, <2>1, <2>2, <2>3 DEF Typed, RPublish, Publish
<1>3. ASSUME NEW dep \in Names, Visit(dep), UNCHANGED history PROVE Typed'
    <2>1. resolver' \in Resolutions
        BY <1>3, VisitKnownStep, VisitNewStep
    <2> QED
        BY <1>3, <2>1 DEF Typed, Visit, history
<1>4. ASSUME GetManifest, UNCHANGED history PROVE Typed'
    BY <1>4, GetStep DEF Typed, GetManifest, history
<1>5. ASSUME Return, UNCHANGED history PROVE Typed'
    BY <1>5, ReturnStep DEF Typed, Return, history
<1>6. ASSUME RAnswer PROVE Typed'
    <2>1. steady' \in BOOLEAN
        BY <1>6, Zenon DEF RAnswer
    <2> QED
        BY <1>6, <2>1 DEF Typed, RAnswer, Answer
<1>7. ASSUME NEW query \in SUBSET Names, NEW per \in PerPages, RSearch(query, per) PROVE Typed'
    <2>1. still' \in BOOLEAN
        BY <1>7, Zenon DEF RSearch
    <2>2. walk' \in Walks
        BY <1>7, SearchStep DEF RSearch
    <2>3. start' \subseteq Names
        BY <1>7 DEF RSearch, Matching, Stored, Packages
    <2> QED
        BY <1>7, <2>1, <2>2, <2>3 DEF Typed, RSearch, Search
<1>8. ASSUME AskPage, UNCHANGED history PROVE Typed'
    BY <1>8, AskPageStep DEF Typed, AskPage, history
<1>9. ASSUME EndWalk, start' = {}, still' = FALSE, UNCHANGED <<root, steady>> PROVE Typed'
    <2>1. still' \in BOOLEAN
        BY <1>9, Zenon
    <2> QED
        BY <1>9, <2>1 DEF Typed, EndWalk
<1>10. ASSUME UNCHANGED allVars PROVE Typed'
    BY <1>10 DEF Typed, allVars, vars, history
<1> QED
    BY <1>1, <1>2, <1>3, <1>4, <1>5, <1>6, <1>7, <1>8, <1>9, <1>10 DEF RNext, RResolve, RWalk

-----------------------------------------------------------------------------
(* The resolver: depth, and no name twice.                                 *)

LEMMA InitResolver == RInit => ResolverOK
    BY DEF RInit, Init, ResolverOK

LEMMA ResolverUnchanged ==
    ASSUME Typed, ResolverOK, resolver' = resolver, Stored \subseteq Stored'
    PROVE  ResolverOK'
    BY DEF ResolverOK, DepthOK, ResultOK, Idle

LEMMA SeenIsFinite ==
    ASSUME NEW S \in SUBSET Names
    PROVE  IsFiniteSet(S) /\ Cardinality(S) \in Nat /\ Cardinality(S) <= Cardinality(Names)
    BY StringsAssumption, FS_Subset, FS_CardinalityType

LEMMA ResolverOKStep == Typed /\ ResolverOK /\ [RNext]_allVars => ResolverOK'
<1> SUFFICES ASSUME Typed, ResolverOK, [RNext]_allVars PROVE ResolverOK'
    OBVIOUS
<1>1. ASSUME NEW p \in Packages, RAsk(p) PROVE ResolverOK'
    <2>1. Stored' = Stored
        BY <1>1 DEF RAsk, AskDependencies, Stored
    <2>2. Cardinality({}) = 0
        BY FS_EmptySet
    <2>3. /\ resolver'.step = "get" /\ resolver'.stack = <<>> /\ resolver'.seen = {}
          /\ resolver'.result = <<>> /\ resolver'.at \in Stored
        BY <1>1, AskStep DEF RAsk
    <2> QED
        BY <2>1, <2>2, <2>3 DEF ResolverOK, DepthOK, ResultOK
<1>2. ASSUME NEW p \in Packages, NEW deps \in Manifests, RPublish(p, deps) PROVE ResolverOK'
    BY <1>2, PublishedStays, ResolverUnchanged DEF RPublish, Publish
<1>3. ASSUME NEW dep \in Names, Visit(dep), UNCHANGED history PROVE ResolverOK'
    <2>1. Stored' = Stored
        BY <1>3 DEF Visit, Stored
    <2>2. /\ resolver \in Resolutions /\ resolver # Idle
          /\ resolver.step = "visit" /\ resolver.stack # <<>>
          /\ resolver'.stack = <<Frame \ {dep}>> \o Tail(resolver.stack)
          /\ resolver'.seen = resolver.seen \cup {dep}
        BY <1>3, VisitKnownStep, VisitNewStep DEF Idle
    <2>3. Len(resolver'.stack) = Len(resolver.stack) /\ Len(resolver.stack) \in Nat
        BY <2>2 DEF Resolutions
    <2>4. /\ Cardinality(resolver'.seen) =
                IF dep \in resolver.seen THEN Cardinality(resolver.seen)
                ELSE Cardinality(resolver.seen) + 1
          /\ Cardinality(resolver.seen) \in Nat
        BY <2>2, FS_AddElement, SeenIsFinite DEF Resolutions
    <2>5. CASE dep \in resolver.seen \/ Versions(dep) = {}
        <3>1. /\ resolver'.step = "visit" /\ resolver'.result = resolver.result
              /\ resolver'.at = resolver.at
            BY <1>3, <2>5, VisitKnownStep
        <3> QED
            BY <2>1, <2>2, <2>3, <2>4, <3>1 DEF ResolverOK, DepthOK, ResultOK
    <2>6. CASE dep \notin resolver.seen /\ Versions(dep) # {}
        <3> DEFINE new == <<dep, Newest(dep)>>
        <3>1. /\ resolver'.step = "get" /\ resolver'.result = Append(resolver.result, new)
              /\ resolver'.at = new
            BY <1>3, <2>6, VisitNewStep
        <3>2. new \in Stored /\ new[1] = dep
            BY <2>6, NewestIsThere
        <3>3. DepthOK'
            BY <2>2, <2>3, <2>4, <2>6, <3>1 DEF ResolverOK, DepthOK
        <3>4. ResultOK'
            BY <2>2, <2>6, <3>1, <3>2 DEF ResolverOK, ResultOK, Resolutions
        <3> QED
            BY <2>1, <3>1, <3>2, <3>3, <3>4 DEF ResolverOK
    <2> QED
        BY <2>5, <2>6
<1>4. ASSUME GetManifest, UNCHANGED history PROVE ResolverOK'
    <2>1. Stored' = Stored
        BY <1>4 DEF GetManifest, Stored
    <2>2. Len(resolver'.stack) = Len(resolver.stack) + 1 /\ Len(resolver.stack) \in Nat
        BY <1>4, GetStep DEF Resolutions
    <2>3. Cardinality(resolver.seen) \in Nat
        BY <1>4, GetStep, SeenIsFinite DEF Resolutions
    <2> QED
        BY <1>4, <2>1, <2>2, <2>3, GetStep DEF ResolverOK, DepthOK, ResultOK, Idle
<1>5. ASSUME Return, UNCHANGED history PROVE ResolverOK'
    <2>1. Stored' = Stored
        BY <1>5 DEF Return, Stored
    <2>2. Len(resolver'.stack) = Len(resolver.stack) - 1 /\ Len(resolver.stack) \in Nat
        BY <1>5, ReturnStep DEF Resolutions
    <2>3. Cardinality(resolver.seen) \in Nat
        BY <1>5, ReturnStep, SeenIsFinite DEF Resolutions
    <2> QED
        BY <1>5, <2>1, <2>2, <2>3, ReturnStep DEF ResolverOK, DepthOK, ResultOK, Idle
<1>6. ASSUME RAnswer PROVE ResolverOK'
    BY <1>6 DEF RAnswer, Answer, ResolverOK
<1>7. ASSUME RWalk \/ UNCHANGED allVars PROVE ResolverOK'
    <2>1. resolver' = resolver /\ data' = data
        BY <1>7 DEF RWalk, RSearch, Search, AskPage, EndWalk, allVars, vars
    <2> QED
        BY <2>1, ResolverUnchanged DEF Stored
<1> QED
    BY <1>1, <1>2, <1>3, <1>4, <1>5, <1>6, <1>7 DEF RNext, RResolve

-----------------------------------------------------------------------------
(* The resolver: reachability, as long as nothing is published.            *)

\* The names in a stack after a visit, a call and a return.
LEMMA NamesInStack ==
    ASSUME NEW stack \in Seq(SUBSET Names)
    PROVE  /\ NamesIn(<<>>) = {}
           /\ \A S \in SUBSET Names : NamesIn(<<S>> \o stack) = S \cup NamesIn(stack)
           /\ stack # <<>> =>
                 /\ NamesIn(stack) = Head(stack) \cup NamesIn(Tail(stack))
                 /\ Head(stack) \in SUBSET Names /\ Tail(stack) \in Seq(SUBSET Names)
<1>1. NamesIn(<<>>) = {}
    BY DEF NamesIn
<1>2. ASSUME NEW S \in SUBSET Names, NEW rest \in Seq(SUBSET Names)
      PROVE  NamesIn(<<S>> \o rest) = S \cup NamesIn(rest)
    <2> DEFINE all == <<S>> \o rest
    <2>1. /\ DOMAIN all = 1..(Len(rest) + 1) /\ DOMAIN rest = 1..Len(rest) /\ Len(rest) \in Nat
          /\ all[1] = S /\ \A i \in 1..Len(rest) : all[i + 1] = rest[i]
        OBVIOUS
    <2> HIDE DEF all
    <2>2. \A i \in DOMAIN all : i = 1 \/ (i - 1 \in DOMAIN rest /\ all[i] = rest[i - 1])
        <3> TAKE i \in DOMAIN all
        <3>1. i # 1 => i - 1 \in 1..Len(rest) /\ (i - 1) + 1 = i
            BY <2>1
        <3> QED
            BY <2>1, <3>1
    <2>3. \A x \in NamesIn(all) : x \in S \cup NamesIn(rest)
        BY <2>1, <2>2 DEF NamesIn
    <2>4. \A x \in S : x \in NamesIn(all)
        <3>1. 1 \in DOMAIN all
            BY <2>1
        <3> QED
            BY <2>1, <3>1 DEF NamesIn
    <2>5. \A x \in NamesIn(rest) : x \in NamesIn(all)
        <3> TAKE x \in NamesIn(rest)
        <3>1. PICK i \in DOMAIN rest : x \in rest[i]
            BY DEF NamesIn
        <3>2. i + 1 \in DOMAIN all /\ x \in all[i + 1]
            BY <2>1, <3>1
        <3> QED
            BY <3>2 DEF NamesIn
    <2> QED
        BY <2>3, <2>4, <2>5 DEF all
<1>3. ASSUME stack # <<>>
      PROVE  /\ NamesIn(stack) = Head(stack) \cup NamesIn(Tail(stack))
             /\ Head(stack) \in SUBSET Names /\ Tail(stack) \in Seq(SUBSET Names)
    <2>1. /\ Head(stack) \in SUBSET Names /\ Tail(stack) \in Seq(SUBSET Names)
          /\ stack = <<Head(stack)>> \o Tail(stack)
        BY <1>3
    <2> QED
        BY <1>2, <2>1
<1> QED
    BY <1>1, <1>2, <1>3

LEMMA SameData ==
    ASSUME data' = data
    PROVE  /\ Stored' = Stored
           /\ \A n : Versions(n)' = Versions(n) /\ Newest(n)' = Newest(n)
           /\ \A n : DependsOn(n)' = DependsOn(n)
<1>1. Stored' = Stored
    BY DEF Stored
<1>2. \A n : Versions(n)' = Versions(n)
    BY <1>1 DEF Versions
<1>3. \A n : Newest(n)' = Newest(n)
    BY <1>2 DEF Newest
<1>4. \A n : DependsOn(n)' = DependsOn(n)
    BY <1>2, <1>3 DEF DependsOn
<1> QED
    BY <1>1, <1>2, <1>3, <1>4

\* A step that leaves the store, the question and what was met alone keeps what was
\* met reachable.
LEMMA StaysReachable ==
    ASSUME data' = data, root' = root, MetIsReachable,
           \A n \in Met' : n \in Met \/ Reachable(data[root], n)
    PROVE  MetIsReachable'
<1>1. \A n \in Met' : Reachable(data[root], n)
    BY DEF MetIsReachable
<1> QED
    BY <1>1, SameData DEF MetIsReachable, Reachable

LEMMA DependsOnReachable ==
    ASSUME NEW names \in SUBSET Names, NEW m \in Names, Reachable(names, m), NEW n \in DependsOn(m)
    PROVE  Reachable(names, n)
    BY DEF Reachable

LEMMA InitSteady == RInit => SteadyOK
    BY DEF RInit, SteadyOK

LEMMA AskIsSteady ==
    ASSUME Typed, NEW p \in Packages, RAsk(p)
    PROVE  SteadyOK'
<1>1. /\ resolver'.step = "get" /\ resolver'.stack = <<>> /\ resolver'.seen = {}
      /\ resolver'.result = <<>> /\ resolver'.at = p /\ p \in Stored /\ root' = p
    BY AskStep DEF RAsk
<1>2. Stored' = Stored
    BY SameData DEF RAsk, AskDependencies
<1>3. Met' = {}
    <2>1. NamesIn(<<>>) = {}
        BY DEF NamesIn
    <2> QED
        BY <1>1, <2>1 DEF Met
<1>4. MetIsReachable'
    BY <1>3 DEF MetIsReachable
<1>5. MetIsClosed'
    BY <1>1 DEF MetIsClosed, Fresh
<1>6. SeenIsAnswered'
    BY <1>1 DEF SeenIsAnswered
<1>7. resolver' # Idle
    BY <1>1 DEF Idle
<1> QED
    BY <1>1, <1>2, <1>4, <1>5, <1>6, <1>7 DEF SteadyOK

LEMMA VisitIsSteady ==
    ASSUME Typed, SteadyOK, steady, NEW dep \in Names, Visit(dep), UNCHANGED history
    PROVE  SteadyOK'
<1>1. /\ resolver \in Resolutions /\ resolver' \in Resolutions
      /\ resolver.step = "visit" /\ resolver.stack # <<>> /\ dep \in Frame
      /\ resolver'.stack = <<Frame \ {dep}>> \o Tail(resolver.stack)
      /\ resolver'.seen = resolver.seen \cup {dep}
    BY VisitKnownStep, VisitNewStep
<1>2. data' = data /\ root' = root
    BY DEF Visit, history
<1>3. MetIsReachable /\ MetIsClosed /\ SeenIsAnswered /\ root \in Stored
    BY DEF SteadyOK
<1>4. Met' = Met
    <2>1. /\ NamesIn(resolver.stack) = Frame \cup NamesIn(Tail(resolver.stack))
          /\ Frame \in SUBSET Names /\ Tail(resolver.stack) \in Seq(SUBSET Names)
        BY <1>1, NamesInStack DEF Frame, Resolutions
    <2>2. NamesIn(resolver'.stack) = (Frame \ {dep}) \cup NamesIn(Tail(resolver.stack))
        BY <1>1, <2>1, NamesInStack
    <2> QED
        BY <1>1, <2>1, <2>2 DEF Met
<1>5. MetIsReachable'
    BY <1>2, <1>3, <1>4, StaysReachable
<1>6. CASE dep \in resolver.seen \/ Versions(dep) = {}
    <2>1. resolver'.step = "visit" /\ resolver'.result = resolver.result
        BY <1>6, VisitKnownStep
    <2>2. \A m \in resolver'.seen : DependsOn(m) \subseteq Met
        BY <1>1, <1>3, <1>6 DEF MetIsClosed, Reading, DependsOn
    <2>3. MetIsClosed'
        BY <1>1, <1>2, <1>3, <1>4, <2>1, <2>2, SameData DEF MetIsClosed, Fresh
    <2>4. SeenIsAnswered'
        BY <1>1, <1>2, <1>3, <1>6, <2>1, SameData DEF SeenIsAnswered
    <2> QED
        BY <1>1, <1>2, <1>3, <1>5, <2>1, <2>3, <2>4, SameData DEF SteadyOK, Idle
<1>7. CASE dep \notin resolver.seen /\ Versions(dep) # {}
    <2> DEFINE new == <<dep, Newest(dep)>>
               result == resolver.result
    <2>1. resolver'.step = "get" /\ resolver'.result = Append(result, new) /\ resolver'.at = new
        BY <1>7, VisitNewStep
    <2>2. Reading(dep)' /\ ~Fresh'
        BY <1>1, <1>2, <1>7, <2>1, SameData DEF Reading, Fresh
    <2>3. data[root] \subseteq Met /\ \A m \in resolver.seen : DependsOn(m) \subseteq Met
        BY <1>1, <1>3 DEF MetIsClosed, Reading, Fresh
    <2>4. \A m \in resolver'.seen : DependsOn(m)' \subseteq Met' \/ m = dep
        BY <1>1, <1>2, <1>4, <2>3, SameData
    <2>5. MetIsClosed'
        BY <1>1, <1>2, <1>4, <2>2, <2>3, <2>4 DEF MetIsClosed
    <2>6. /\ result \in Seq(Packages) /\ Len(result) \in Nat
          /\ DOMAIN result = 1..Len(result)
          /\ DOMAIN resolver'.result = 1..(Len(result) + 1)
          /\ \A i \in DOMAIN result : resolver'.result[i] = result[i]
          /\ resolver'.result[Len(result) + 1] = new
        <3>1. result \in Seq(Packages) /\ new \in Packages
            BY <1>1, <1>7, NewestIsThere DEF Resolutions, Packages
        <3> HIDE DEF result, new
        <3> QED
            BY <2>1, <3>1
    <2>7. \A n \in resolver'.seen :
              Versions(n) # {} => \E i \in DOMAIN resolver'.result : resolver'.result[i] = <<n, Newest(n)>>
        <3> SUFFICES ASSUME NEW n \in resolver'.seen, Versions(n) # {}
                     PROVE  \E i \in DOMAIN resolver'.result : resolver'.result[i] = <<n, Newest(n)>>
            OBVIOUS
        <3>1. CASE n = dep
            BY <2>6, <3>1
        <3>2. CASE n \in resolver.seen
            <4>1. PICK i \in DOMAIN result : result[i] = <<n, Newest(n)>>
                BY <1>3, <3>2 DEF SeenIsAnswered
            <4> QED
                BY <2>6, <4>1
        <3> QED
            BY <1>1, <3>1, <3>2
    <2>8. ASSUME NEW i \in DOMAIN resolver'.result
          PROVE  LET n == resolver'.result[i][1] IN
                 Versions(n) # {} /\ resolver'.result[i] = <<n, Newest(n)>>
        <3>1. CASE i = Len(result) + 1
            BY <1>7, <2>6, <3>1
        <3>2. CASE i \in DOMAIN result
            BY <1>3, <2>6, <3>2 DEF SeenIsAnswered
        <3> QED
            BY <2>6, <3>1, <3>2
    <2>9. SeenIsAnswered'
        BY <1>2, <2>7, <2>8, SameData DEF SeenIsAnswered
    <2> QED
        BY <1>1, <1>2, <1>3, <1>5, <2>1, <2>5, <2>9, SameData DEF SteadyOK, Idle
<1> QED
    BY <1>6, <1>7

LEMMA GetIsSteady ==
    ASSUME Typed, ResolverOK, SteadyOK, steady, GetManifest, UNCHANGED history
    PROVE  SteadyOK'
<1> DEFINE deps == data[resolver.at]
<1>1. /\ resolver \in Resolutions /\ resolver' \in Resolutions
      /\ resolver.step = "get" /\ resolver'.step = "visit"
      /\ resolver'.stack = <<deps>> \o resolver.stack /\ deps \in SUBSET Names
      /\ resolver'.seen = resolver.seen /\ resolver'.result = resolver.result
    BY GetStep
<1>2. data' = data /\ root' = root
    BY DEF GetManifest, history
<1>3. MetIsReachable /\ MetIsClosed /\ SeenIsAnswered /\ root \in Stored
    BY DEF SteadyOK
<1>4. Met' = Met \cup deps
    <2>1. NamesIn(resolver'.stack) = deps \cup NamesIn(resolver.stack)
        BY <1>1, NamesInStack DEF Resolutions
    <2> QED
        BY <1>1, <2>1 DEF Met
<1>5. data[root] \in SUBSET Names
    BY <1>3 DEF Stored, Typed, Stores
<1>6. data[root] \subseteq Met' /\ \A n \in deps : Reachable(data[root], n)
    <2>1. CASE Fresh
        <3>1. resolver.at = root
            BY <1>3, <2>1 DEF MetIsClosed
        <3> QED
            BY <1>4, <3>1 DEF Reachable
    <2>2. CASE ~Fresh
        <3>1. data[root] \subseteq Met
            BY <1>3, <2>2 DEF MetIsClosed
        <3>2. PICK m \in resolver.seen : Reading(m)
            BY <1>1, <1>3, <2>2 DEF MetIsClosed
        <3>3. deps = DependsOn(m)
            BY <3>2 DEF Reading, DependsOn
        <3>4. m \in Names /\ Reachable(data[root], m)
            BY <1>1, <1>3 DEF Resolutions, MetIsReachable, Met
        <3>5. \A n \in deps : Reachable(data[root], n)
            BY <1>5, <3>3, <3>4, DependsOnReachable
        <3> QED
            BY <1>4, <3>1, <3>5
    <2> QED
        BY <2>1, <2>2
<1>7. MetIsReachable'
    BY <1>2, <1>3, <1>4, <1>6, StaysReachable
<1>8. \A m \in resolver.seen : DependsOn(m) \subseteq Met'
    BY <1>3, <1>4 DEF MetIsClosed, Reading, DependsOn
<1>9. MetIsClosed'
    BY <1>1, <1>2, <1>6, <1>8, SameData DEF MetIsClosed, Fresh
<1>10. SeenIsAnswered'
    BY <1>1, <1>2, <1>3, SameData DEF SeenIsAnswered
<1> QED
    BY <1>1, <1>2, <1>3, <1>7, <1>9, <1>10, SameData DEF SteadyOK, Idle

LEMMA ReturnIsSteady ==
    ASSUME Typed, SteadyOK, steady, Return, UNCHANGED history
    PROVE  SteadyOK'
<1>1. /\ resolver \in Resolutions
      /\ resolver.step = "visit" /\ resolver'.step = "visit"
      /\ resolver.stack # <<>> /\ Frame = {} /\ resolver'.stack = Tail(resolver.stack)
      /\ resolver'.seen = resolver.seen /\ resolver'.result = resolver.result
    BY ReturnStep
<1>2. data' = data /\ root' = root
    BY DEF Return, history
<1>3. MetIsReachable /\ MetIsClosed /\ SeenIsAnswered /\ root \in Stored
    BY DEF SteadyOK
<1>4. Met' = Met
    BY <1>1, NamesInStack DEF Met, Frame, Resolutions
<1>5. MetIsReachable'
    BY <1>2, <1>3, <1>4, StaysReachable
<1>6. MetIsClosed'
    BY <1>1, <1>2, <1>3, <1>4, SameData DEF MetIsClosed, Fresh, Reading
<1>7. SeenIsAnswered'
    BY <1>1, <1>2, <1>3, SameData DEF SeenIsAnswered
<1> QED
    BY <1>1, <1>2, <1>3, <1>5, <1>6, <1>7, SameData DEF SteadyOK, Idle

LEMMA SteadyStep == Typed /\ ResolverOK /\ SteadyOK /\ [RNext]_allVars => SteadyOK'
<1> SUFFICES ASSUME Typed, ResolverOK, SteadyOK, [RNext]_allVars PROVE SteadyOK'
    OBVIOUS
<1>1. ASSUME NEW p \in Packages, RAsk(p) PROVE SteadyOK'
    BY <1>1, AskIsSteady
<1>2. ASSUME NEW p \in Packages, NEW deps \in Manifests, RPublish(p, deps) PROVE SteadyOK'
    BY <1>2 DEF RPublish, SteadyOK
<1>3. ASSUME ((\E dep \in Names : Visit(dep)) \/ GetManifest \/ Return), UNCHANGED history
      PROVE  SteadyOK'
    <2>1. CASE steady
        BY <1>3, <2>1, VisitIsSteady, GetIsSteady, ReturnIsSteady
    <2>2. CASE ~steady
        BY <1>3, <2>2 DEF SteadyOK, history
    <2> QED
        BY <2>1, <2>2
<1>4. ASSUME RAnswer PROVE SteadyOK'
    BY <1>4 DEF RAnswer, SteadyOK
<1>5. ASSUME RWalk \/ UNCHANGED allVars PROVE SteadyOK'
    <2>1. resolver' = resolver /\ data' = data /\ root' = root /\ steady' = steady
        BY <1>5 DEF RWalk, RSearch, Search, AskPage, EndWalk, allVars, vars, history
    <2>2. CASE steady
        <3>1. Met' = Met
            BY <2>1 DEF Met
        <3>2. MetIsReachable /\ MetIsClosed /\ SeenIsAnswered /\ root \in Stored /\ resolver # Idle
            BY <2>2 DEF SteadyOK
        <3>3. MetIsReachable'
            BY <2>1, <3>1, <3>2, StaysReachable
        <3>4. MetIsClosed'
            BY <2>1, <3>1, <3>2, SameData DEF MetIsClosed, Fresh, Reading
        <3>5. SeenIsAnswered'
            BY <2>1, <3>2, SameData DEF SeenIsAnswered
        <3> QED
            BY <2>1, <3>2, <3>3, <3>4, <3>5, SameData DEF SteadyOK
    <2>3. CASE ~steady
        BY <2>1, <2>3 DEF SteadyOK
    <2> QED
        BY <2>2, <2>3
<1> QED
    BY <1>1, <1>2, <1>3, <1>4, <1>5 DEF RNext, RResolve

-----------------------------------------------------------------------------
(* The pages.                                                              *)

\* Where the packages of a name are in a sorted slice.
LEMMA PlaceOfName ==
    ASSUME NEW packages \in SUBSET Packages, NEW s \in Sorted(packages), NEW n \in Names
    PROVE  /\ s \in Seq(packages) /\ Len(s) = Cardinality(packages)
           /\ Cardinality(UpTo(packages, n)) \in 0..Len(s)
           /\ Cardinality(Below(packages, n)) \in 0..Len(s)
           /\ \A i \in 1..Len(s) :
                 /\ s[i] \in UpTo(packages, n) <=> i <= Cardinality(UpTo(packages, n))
                 /\ s[i] \in Below(packages, n) <=> i <= Cardinality(Below(packages, n))
                 /\ s[i][1] = n <=> /\ Cardinality(Below(packages, n)) < i
                                    /\ i <= Cardinality(UpTo(packages, n))
<1>1. IsFiniteSet(packages)
    BY PackagesAreFinite
<1>2. \A p \in packages : p[1] \in Nat
    BY StringsAssumption DEF Packages
<1>3. n \in Nat
    BY StringsAssumption
<1> DEFINE up == UpTo(packages, n)
           low == Below(packages, n)
<1>4. up \in SUBSET packages /\ low \in SUBSET packages
    BY DEF UpTo, Below
<1>5. \A p \in up, q \in packages : q[1] <= p[1] => q \in up
    BY <1>2, <1>3 DEF UpTo
<1>6. \A p \in low, q \in packages : q[1] <= p[1] => q \in low
    BY <1>2, <1>3 DEF Below
<1> HIDE DEF up, low
<1>7. /\ Len(s) = Cardinality(packages) /\ s \in Seq(packages)
      /\ Cardinality(up) \in 0..Len(s)
      /\ \A i \in 1..Len(s) : s[i] \in up <=> i <= Cardinality(up)
    BY <1>1, <1>4, <1>5, PrefixOfSorted
<1>8. /\ Cardinality(low) \in 0..Len(s)
      /\ \A i \in 1..Len(s) : s[i] \in low <=> i <= Cardinality(low)
    BY <1>1, <1>4, <1>6, PrefixOfSorted
<1>9. ASSUME NEW i \in 1..Len(s)
      PROVE  s[i][1] = n <=> Cardinality(low) < i /\ i <= Cardinality(up)
    <2>1. s[i] \in packages
        BY <1>7
    <2>2. s[i][1] = n <=> s[i] \in up /\ s[i] \notin low
        BY <1>2, <1>3, <2>1 DEF up, low, UpTo, Below
    <2> QED
        BY <1>7, <1>8, <2>2
<1> QED
    BY <1>7, <1>8, <1>9 DEF up, low

LEMMA SizesAreNatural ==
    ASSUME NEW n \in Names
    PROVE  Cardinality(UpTo(Matching, n)) \in Nat /\ Cardinality(Below(Matching, n)) \in Nat
<1>1. UpTo(Matching, n) \in SUBSET Packages /\ Below(Matching, n) \in SUBSET Packages
    BY MatchingIsFinite DEF UpTo, Below
<1> QED
    BY <1>1, PackagesAreFinite

\* The walk reads the next page of the sorted slice s.
Turns(s) ==
    LET end == IF Covered' > Len(s) THEN Len(s) ELSE Covered' IN
    /\ walk \in Walks /\ walk' \in Walks /\ walk.step = "ask"
    /\ Matching' = Matching
    /\ walk'.query = walk.query
    /\ Covered \in Nat /\ Covered' \in Nat /\ Covered < Covered'
    /\ walk'.step = IF Covered' >= Len(s) THEN "done" ELSE "ask"
    /\ s \in Seq(Matching) /\ Len(s) = Cardinality(Matching)
    /\ Len(walk'.seen) = Len(walk.seen) + (IF Covered <= end THEN end - Covered ELSE 0)
    /\ \A i \in 1..Len(walk.seen) : walk'.seen[i] = walk.seen[i]
    /\ \A i \in 1..(end - Covered) : walk'.seen[Len(walk.seen) + i] = s[Covered + i]

LEMMA NextPage ==
    ASSUME Typed, AskPage
    PROVE  \E s \in Sorted(Matching) : Turns(s)
<1>1. walk \in Walks /\ walk.step = "ask"
    BY AskPageStep
<1>2. PICK s \in Sorted(Matching) :
          /\ walk' \in Walks /\ walk'.query = walk.query /\ walk'.per = walk.per
          /\ walk'.page = walk.page + 1
          /\ walk'.step = IF walk.page * walk.per >= Len(s) THEN "done" ELSE "ask"
          /\ walk'.seen = walk.seen \o Page(s, walk.page, walk.per)
          /\ s \in Seq(Matching) /\ Len(s) = Cardinality(Matching)
    BY AskPageStep
<1> DEFINE total == walk.page * walk.per
           page == Page(s, walk.page, walk.per)
           end == IF total > Len(s) THEN Len(s) ELSE total
<1>3. /\ Covered \in Nat /\ total = Covered + walk.per
      /\ page \in Seq(Matching)
      /\ Len(page) = IF Covered <= end THEN end - Covered ELSE 0
      /\ \A i \in 1..(end - Covered) : page[i] = s[Covered + i]
    <2>1. walk.page \in Nat \ {0} /\ walk.per \in Nat \ {0}
        BY <1>1 DEF Walks
    <2>2. Matching \in SUBSET Packages /\ s \in Seq(Matching)
        BY <1>2, MatchingIsFinite
    <2> QED
        BY <2>1, <2>2, PageOf, Zenon DEF Covered
<1>4. Covered' = total
    <2>1. (walk'.page - 1) * walk'.per = ((walk.page + 1) - 1) * walk.per
        BY <1>2
    <2>2. (walk.page + 1) - 1 = walk.page
        BY <1>1 DEF Walks
    <2> QED
        BY <2>1, <2>2 DEF Covered
<1>5. walk.per \in Nat \ {0}
    BY <1>1 DEF Walks
<1>6. Covered' \in Nat /\ Covered < Covered'
    BY <1>3, <1>4, <1>5
<1>7. Matching' = Matching
    BY <1>2, SameData DEF AskPage, Matching
<1>8. page \in Seq(Packages) /\ walk.seen \in Seq(Packages)
    <2> HIDE DEF page
    <2> QED
        BY <1>1, <1>3, MatchingIsFinite, SeqMonotonic DEF Walks
<1>9. Len(page) \in Nat /\ Len(walk.seen) \in Nat
    BY <1>8
<1>10. /\ Len(walk'.seen) = Len(walk.seen) + Len(page)
       /\ \A i \in 1..Len(walk.seen) : walk'.seen[i] = walk.seen[i]
       /\ \A i \in 1..Len(page) : walk'.seen[Len(walk.seen) + i] = page[i]
    <2> DEFINE old == walk.seen
    <2>1. walk'.seen = old \o page /\ old \in Seq(Packages)
        BY <1>2, <1>8
    <2> HIDE DEF page, old
    <2>2. /\ Len(walk'.seen) = Len(old) + Len(page)
          /\ \A i \in 1..Len(old) : walk'.seen[i] = old[i]
          /\ \A i \in 1..Len(page) : walk'.seen[Len(old) + i] = page[i]
        BY <1>8, <2>1
    <2> QED
        BY <2>2 DEF old
<1>11. \A i \in 1..(end - Covered) : walk'.seen[Len(walk.seen) + i] = s[Covered + i]
    <2> TAKE i \in 1..(end - Covered)
    <2>1. Len(s) \in Nat /\ total \in Nat
        BY <1>2, <1>3, <1>4, <1>6
    <2>2. end - Covered = Len(page)
        BY <1>3, <2>1
    <2> QED
        BY <1>3, <1>10, <2>2
<1> QED
    BY <1>1, <1>2, <1>3, <1>4, <1>6, <1>7, <1>10, <1>11 DEF Turns

LEMMA InitPages == RInit => NoNameLost /\ PagesJoin
    BY DEF RInit, Init, NoNameLost, PagesJoin

LEMMA SameWalk ==
    ASSUME data' = data, walk' = walk, start' = start, still' = still, NoNameLost, PagesJoin
    PROVE  NoNameLost' /\ PagesJoin'
<1>1. Matching' = Matching /\ \A n : Versions(n)' = Versions(n)
    BY SameData DEF Matching
<1>2. NoNameLost'
    BY <1>1 DEF NoNameLost, SeenOf, Covered
<1>3. PagesJoin'
    BY <1>1 DEF PagesJoin, Covered
<1> QED
    BY <1>2, <1>3

LEMMA SearchJoins ==
    ASSUME Typed, NEW query \in SUBSET Names, NEW per \in PerPages, RSearch(query, per)
    PROVE  NoNameLost' /\ PagesJoin'
<1>1. /\ walk' \in Walks /\ walk'.step = "ask" /\ walk'.page = 1 /\ walk'.seen = <<>>
    BY SearchStep DEF RSearch
<1>2. Covered' = 0
    BY <1>1 DEF Covered, Walks
<1>3. Matching' \in SUBSET Packages /\ IsFiniteSet(Matching') /\ Cardinality(Matching') \in Nat
    <2>1. Matching' \in SUBSET Packages
        BY DEF Matching, Stored
    <2> QED
        BY <2>1, PackagesAreFinite
<1>4. ASSUME NEW n \in start'
      PROVE  /\ n \in walk'.query /\ Versions(n)' # {}
             /\ Cardinality(UpTo(Matching', n)) > 0
    <2>1. PICK p \in Matching' : p[1] = n
        BY DEF RSearch
    <2>2. n \in walk'.query /\ n \in Nat /\ p[2] \in Versions(n)'
        BY <2>1, StringsAssumption DEF Matching, Stored, Packages, Versions
    <2> DEFINE up == UpTo(Matching', n)
    <2>3. up \in SUBSET Packages /\ p \in up
        BY <1>3, <2>1, <2>2 DEF UpTo
    <2> HIDE DEF up
    <2>4. Cardinality(up) \in Nat /\ Cardinality(up) # 0
        BY <2>3, PackagesAreFinite, FS_EmptySet
    <2> QED
        BY <2>2, <2>4 DEF up
<1>5. NoNameLost'
    BY <1>1, <1>2, <1>4 DEF NoNameLost
<1>6. PagesJoin'
    <2>1. walk' # Idle
        BY <1>1 DEF Idle
    <2> QED
        BY <1>1, <1>2, <1>3, <2>1 DEF PagesJoin
<1> QED
    BY <1>5, <1>6

LEMMA PublishJoins ==
    ASSUME Typed, NoNameLost, NEW p \in Packages, NEW deps \in Manifests, RPublish(p, deps)
    PROVE  NoNameLost' /\ PagesJoin'
<1>1. /\ Stored \subseteq Stored' /\ walk' = walk /\ start' = start
      /\ \A n : Versions(n) \subseteq Versions(n)'
    BY PublishedStays DEF RPublish, Publish
<1>2. Matching \subseteq Matching' /\ Matching' \in SUBSET Packages
    BY <1>1 DEF Matching, Stored
<1>3. ASSUME NEW n \in Names
      PROVE  Cardinality(UpTo(Matching, n)) <= Cardinality(UpTo(Matching', n))
    <2> DEFINE now == UpTo(Matching, n)
               then == UpTo(Matching', n)
    <2>1. now \subseteq then /\ then \in SUBSET Packages
        BY <1>2 DEF UpTo
    <2> HIDE DEF now, then
    <2> QED
        BY <2>1, PackagesAreFinite, FS_Subset DEF now, then
<1>4. \A n \in Names : Cardinality(UpTo(Matching', n)) \in Nat
    <2> TAKE n \in Names
    <2>1. UpTo(Matching', n) \in SUBSET Packages
        BY <1>2 DEF UpTo
    <2> QED
        BY <2>1, PackagesAreFinite
<1>5. NoNameLost'
    <2> SUFFICES ASSUME walk # Idle, NEW n \in start
                 PROVE  /\ n \in walk.query /\ Versions(n)' # {}
                        /\ SeenOf(n) # {}
                           \/ (walk.step = "ask" /\ Cardinality(UpTo(Matching', n)) > Covered)
        BY <1>1 DEF NoNameLost, SeenOf, Covered
    <2>1. n \in Names /\ Covered \in Int
        BY DEF Typed, Walks, Covered
    <2>2. Cardinality(UpTo(Matching, n)) \in Nat
        BY <2>1, SizesAreNatural
    <2> QED
        BY <1>1, <1>3, <1>4, <2>1, <2>2 DEF NoNameLost
<1>6. PagesJoin'
    BY DEF PagesJoin, RPublish
<1> QED
    BY <1>5, <1>6

LEMMA PageLosesNoName ==
    ASSUME Typed, NoNameLost, AskPage, UNCHANGED history
    PROVE  NoNameLost'
<1> USE DEF Turns
<1>1. PICK s \in Sorted(Matching) : Turns(s)
    BY NextPage
<1> DEFINE end == IF Covered' > Len(s) THEN Len(s) ELSE Covered'
<1>2. start' = start /\ \A n : Versions(n)' = Versions(n)
    BY SameData DEF history, AskPage
<1>3. /\ walk # Idle
      /\ walk.seen \in Seq(Packages) /\ walk'.seen \in Seq(Packages) /\ Len(s) \in Nat
    BY <1>1 DEF Idle, Walks
<1>4. ASSUME NEW n \in start
      PROVE  /\ n \in walk'.query /\ Versions(n)' # {}
             /\ SeenOf(n)' # {}
                \/ (walk'.step = "ask" /\ Cardinality(UpTo(Matching', n)) > Covered')
    <2>1. n \in walk'.query /\ Versions(n)' # {} /\ n \in Names
        BY <1>1, <1>2, <1>3 DEF NoNameLost, Typed
    <2>2. CASE SeenOf(n) # {}
        <3>1. PICK i \in DOMAIN walk.seen : walk.seen[i][1] = n
            BY <2>2 DEF SeenOf
        <3>2. i \in 1..Len(walk.seen) /\ Len(walk'.seen) >= Len(walk.seen)
            BY <1>1, <1>3
        <3>3. i \in DOMAIN walk'.seen
            BY <1>3, <3>2
        <3>4. walk'.seen[i][1] = n
            BY <1>1, <3>1, <3>2
        <3>5. i \in SeenOf(n)'
            BY <3>3, <3>4 DEF SeenOf
        <3> QED
            BY <2>1, <3>5
    <2>3. CASE SeenOf(n) = {}
        <3> DEFINE k == Cardinality(UpTo(Matching, n))
                   b == Cardinality(Below(Matching, n))
        <3>1. k > Covered
            BY <1>3, <2>3 DEF NoNameLost
        <3>2. /\ k \in 0..Len(s) /\ b \in 0..Len(s)
              /\ \A i \in 1..Len(s) : b < i /\ i <= k => s[i][1] = n
            BY <2>1, MatchingIsFinite, PlaceOfName
        <3>3. b < k
            <4> DEFINE up == UpTo(Matching, n)
                       low == Below(Matching, n)
            <4>1. PICK v \in Vers : <<n, v>> \in Stored
                BY <1>3 DEF NoNameLost, Versions
            <4>2. n \in Nat /\ \A q \in Matching : q[1] \in Nat
                BY <2>1, StringsAssumption DEF Matching, Stored, Packages
            <4>3. <<n, v>> \in Matching
                BY <1>1, <2>1, <4>1 DEF Matching
            <4>4. low \in SUBSET up /\ low # up /\ up \in SUBSET Packages
                BY <4>2, <4>3, MatchingIsFinite DEF UpTo, Below
            <4> HIDE DEF up, low
            <4>5. Cardinality(low) <= Cardinality(up) /\ Cardinality(low) # Cardinality(up)
                BY <4>4, PackagesAreFinite, FS_Subset
            <4> QED
                BY <3>2, <4>5 DEF up, low
        <3> HIDE DEF k, b
        <3>4. s[k][1] = n /\ k \in 1..Len(s)
            BY <3>2, <3>3
        <3>5. CASE k <= end
            <4>1. k - Covered \in 1..(end - Covered)
                BY <1>1, <1>3, <3>1, <3>4, <3>5
            <4>2. Covered + (k - Covered) = k
                BY <1>1, <1>3, <3>4
            <4> DEFINE j == k - Covered
            <4> HIDE DEF j
            <4>3. walk'.seen[Len(walk.seen) + j] = s[Covered + j]
                BY <1>1, <4>1 DEF j
            <4>4. Len(walk.seen) + (k - Covered) \in DOMAIN walk'.seen
                BY <1>1, <1>3, <4>1
            <4>5. Len(walk.seen) + j \in SeenOf(n)'
                BY <3>4, <4>2, <4>3, <4>4 DEF SeenOf, j
            <4> QED
                BY <2>1, <4>5
        <3>6. CASE ~(k <= end)
            <4>1. walk'.step = "ask" /\ k > Covered'
                BY <1>1, <1>3, <3>4, <3>6
            <4> QED
                BY <1>1, <2>1, <4>1 DEF k
        <3> QED
            BY <3>5, <3>6
    <2> QED
        BY <2>2, <2>3
<1> QED
    BY <1>2, <1>4 DEF NoNameLost

LEMMA PageJoins ==
    ASSUME Typed, PagesJoin, still, AskPage, UNCHANGED history
    PROVE  PagesJoin'
<1> USE DEF Turns
<1>1. PICK s \in Sorted(Matching) : Turns(s)
    BY NextPage
<1> DEFINE end == IF Covered' > Len(s) THEN Len(s) ELSE Covered'
<1>2. /\ walk' # Idle /\ Len(s) \in Nat
      /\ walk.seen \in Seq(Packages) /\ walk'.seen \in Seq(Packages)
    BY <1>1 DEF Idle, Walks
<1>3. Len(walk.seen) = IF Covered > Len(s) THEN Len(s) ELSE Covered
    BY <1>1 DEF PagesJoin
<1>4. Len(walk'.seen) = end
    BY <1>1, <1>2, <1>3
<1>5. walk'.step = "done" => Covered' >= Len(s)
    BY <1>1
<1>6. ASSUME NEW i \in DOMAIN walk'.seen, NEW n \in Names
      PROVE  walk'.seen[i][1] = n <=>
                 /\ Cardinality(Below(Matching, n)) < i
                 /\ i <= Cardinality(UpTo(Matching, n))
    <2>1. i \in 1..end /\ i \in 1..Len(s)
        BY <1>1, <1>2, <1>4
    <2>2. CASE i <= Len(walk.seen)
        <3>1. i \in DOMAIN walk.seen /\ walk'.seen[i] = walk.seen[i]
            BY <1>1, <1>2, <2>1, <2>2
        <3> QED
            BY <3>1 DEF PagesJoin
    <2>3. CASE ~(i <= Len(walk.seen))
        <3>1. Len(walk.seen) = Covered /\ i - Covered \in 1..(end - Covered)
            BY <1>1, <1>2, <1>3, <2>1, <2>3
        <3>2. walk'.seen[Covered + (i - Covered)] = s[Covered + (i - Covered)]
            BY <1>1, <3>1
        <3>3. Covered + (i - Covered) = i
            BY <1>1, <2>1
        <3> QED
            BY <2>1, <3>2, <3>3, MatchingIsFinite, PlaceOfName
    <2> QED
        BY <2>2, <2>3
<1> QED
    BY <1>1, <1>2, <1>4, <1>5, <1>6 DEF PagesJoin

LEMMA PagesStep == Typed /\ NoNameLost /\ PagesJoin /\ [RNext]_allVars => NoNameLost' /\ PagesJoin'
<1> SUFFICES ASSUME Typed, NoNameLost, PagesJoin, [RNext]_allVars PROVE NoNameLost' /\ PagesJoin'
    OBVIOUS
<1>1. ASSUME (\E p \in Packages : RAsk(p)) \/ RResolve \/ UNCHANGED allVars
      PROVE  NoNameLost' /\ PagesJoin'
    <2>1. data' = data /\ walk' = walk /\ start' = start /\ still' = still
        BY <1>1 DEF RAsk, AskDependencies, RResolve, Visit, GetManifest, Return, RAnswer, Answer,
                    allVars, vars, history
    <2> QED
        BY <2>1, SameWalk
<1>2. ASSUME NEW p \in Packages, NEW deps \in Manifests, RPublish(p, deps)
      PROVE  NoNameLost' /\ PagesJoin'
    BY <1>2, PublishJoins
<1>3. ASSUME NEW query \in SUBSET Names, NEW per \in PerPages, RSearch(query, per)
      PROVE  NoNameLost' /\ PagesJoin'
    BY <1>3, SearchJoins
<1>4. ASSUME AskPage, UNCHANGED history PROVE NoNameLost' /\ PagesJoin'
    <2>1. NoNameLost'
        BY <1>4, PageLosesNoName
    <2>2. CASE still
        BY <1>4, <2>1, <2>2, PageJoins
    <2>3. CASE ~still
        BY <1>4, <2>1, <2>3 DEF PagesJoin, history
    <2> QED
        BY <2>2, <2>3
<1>5. ASSUME EndWalk, start' = {}, still' = FALSE PROVE NoNameLost' /\ PagesJoin'
    BY <1>5 DEF NoNameLost, PagesJoin
<1> QED
    BY <1>1, <1>2, <1>3, <1>4, <1>5 DEF RNext, RWalk

-----------------------------------------------------------------------------
(* The theorems.                                                           *)

ReadsInv == Typed /\ ResolverOK /\ SteadyOK /\ NoNameLost /\ PagesJoin

\* What a request and a client's walk know at each of their steps, which the
\* properties below follow from (handlers.go:674-756, store.go:107-201).
THEOREM ReadsInvariant == RSpec => []ReadsInv
<1>1. RInit => ReadsInv
    BY InitTyped, InitResolver, InitSteady, InitPages DEF ReadsInv
<1>2. ReadsInv /\ [RNext]_allVars => ReadsInv'
    BY TypedStep, ResolverOKStep, SteadyStep, PagesStep DEF ReadsInv
<1> QED
    BY <1>1, <1>2, PTL DEF RSpec

LEMMA SteppingIsResolution ==
    ASSUME Typed, resolver # Idle
    PROVE  resolver \in Resolutions
    BY DEF Typed

\* Types; and however many names there are, and whatever cycles their manifests
\* form while packages are published, the calls of resolveTransitive nest no
\* deeper than one for each name and the first (handlers.go:722-756).
THEOREM ReadsTypeCorrect == RSpec => []TypeOK
<1>1. ASSUME Typed, ResolverOK PROVE TypeOK
    <2>1. ASSUME resolver # Idle
          PROVE  /\ resolver.step \in {"get", "visit"}
                 /\ resolver.at \in Stored
                 /\ resolver.stack \in Seq(SUBSET Names)
                 /\ Len(resolver.stack) <= Cardinality(Names) + 1
        <3>1. /\ resolver.step \in {"get", "visit"} /\ resolver.stack \in Seq(SUBSET Names)
              /\ resolver.seen \in SUBSET Names /\ Len(resolver.stack) \in Nat
            BY <1>1, <2>1, SteppingIsResolution DEF Resolutions
        <3>2. /\ Cardinality(resolver.seen) \in Nat
              /\ Cardinality(resolver.seen) <= Cardinality(Names) /\ Cardinality(Names) \in Nat
            BY <3>1, SeenIsFinite
        <3>3. resolver.at \in Stored /\ DepthOK
            BY <1>1, <2>1 DEF ResolverOK
        <3> QED
            BY <3>1, <3>2, <3>3 DEF DepthOK
    <2>2. ASSUME walk # Idle PROVE walk.seen \in Seq(Packages) /\ walk.per > 0 /\ walk.page > 0
        BY <1>1, <2>2 DEF Typed, Walks
    <2> QED
        BY <1>1, <2>1, <2>2 DEF Typed, TypeOK
<1> QED
    BY <1>1, ReadsInvariant, PTL DEF ReadsInv

\* The answer of the dependency endpoint lists no name twice, although newer
\* versions are published while it is put together (handlers.go:725).
THEOREM EachNameOnceHolds == RSpec => []EachNameOnce
<1>1. ResolverOK => EachNameOnce
    BY DEF ResolverOK, ResultOK, EachNameOnce
<1> QED
    BY <1>1, ReadsInvariant, PTL DEF ReadsInv

\* In every graph of dependencies, cycles and missing names included, the answer
\* is exactly what can be reached and is stored, in its newest versions, if nothing
\* was published while it was put together (handlers.go:722, resolveTransitive).
THEOREM ResolvesReachableHolds == RSpec => []ResolvesReachable
<1>1. ASSUME Typed, ResolverOK, SteadyOK, Resolved, steady
      PROVE  /\ ResolvedNames = {n \in Names : Versions(n) # {} /\ Reachable(data[root], n)}
             /\ \A i \in DOMAIN resolver.result :
                    resolver.result[i][2] = Newest(resolver.result[i][1])
    <2>1. /\ resolver \in Resolutions /\ resolver.step = "visit" /\ resolver.stack = <<>>
          /\ MetIsReachable /\ MetIsClosed /\ SeenIsAnswered
        BY <1>1, SteppingIsResolution DEF Resolved, SteadyOK
    <2>2. Met = resolver.seen /\ resolver.seen \in SUBSET Names
        <3>1. NamesIn(<<>>) = {}
            BY DEF NamesIn
        <3> QED
            BY <2>1, <3>1 DEF Met, Resolutions
    <2>3. \A n \in resolver.seen : Reachable(data[root], n)
        BY <2>1, <2>2 DEF MetIsReachable
    <2>4. ASSUME NEW n \in Names, Reachable(data[root], n) PROVE n \in resolver.seen
        <3>1. data[root] \subseteq resolver.seen
            BY <2>1, <2>2 DEF MetIsClosed, Fresh
        <3>2. \A m \in resolver.seen : DependsOn(m) \subseteq resolver.seen
            BY <2>1, <2>2 DEF MetIsClosed, Reading
        <3> QED
            BY <2>2, <2>4, <3>1, <3>2 DEF Reachable
    <2>5. \A i \in DOMAIN resolver.result :
              LET n == resolver.result[i][1] IN
              /\ n \in Names /\ n \in resolver.seen /\ Versions(n) # {}
              /\ resolver.result[i] = <<n, Newest(n)>>
        <3>1. \A i \in DOMAIN resolver.result :
                  LET n == resolver.result[i][1] IN
                  Versions(n) # {} /\ resolver.result[i] = <<n, Newest(n)>>
            BY <2>1 DEF SeenIsAnswered
        <3>2. \A i \in DOMAIN resolver.result : resolver.result[i][1] \in resolver.seen
            BY <1>1, <2>1 DEF ResolverOK, ResultOK, SteadyOK
        <3> QED
            BY <2>2, <3>1, <3>2
    <2>6. \A n \in resolver.seen : Versions(n) # {} => n \in ResolvedNames
        <3> SUFFICES ASSUME NEW n \in resolver.seen, Versions(n) # {} PROVE n \in ResolvedNames
            OBVIOUS
        <3>1. PICK i \in DOMAIN resolver.result : resolver.result[i] = <<n, Newest(n)>>
            BY <2>1 DEF SeenIsAnswered
        <3>2. resolver.result[i][1] = n
            BY <3>1
        <3> QED
            BY <3>2 DEF ResolvedNames
    <2>7. \A n \in ResolvedNames : n \in Names /\ Versions(n) # {} /\ Reachable(data[root], n)
        BY <2>3, <2>5 DEF ResolvedNames
    <2>8. ResolvedNames = {n \in Names : Versions(n) # {} /\ Reachable(data[root], n)}
        BY <2>4, <2>6, <2>7
    <2>9. \A i \in DOMAIN resolver.result : resolver.result[i][2] = Newest(resolver.result[i][1])
        BY <2>5
    <2> QED
        BY <2>8, <2>9
<1>2. Typed /\ ResolverOK /\ SteadyOK => ResolvesReachable
    BY <1>1 DEF ResolvesReachable
<1> QED
    BY <1>2, ReadsInvariant, PTL DEF ReadsInv

\* A client that reads all pages is shown every name that matched when it began,
\* however many packages are published in between (store.go:191-200).
THEOREM WalkMissesNoNameHolds == RSpec => []WalkMissesNoName
<1>1. NoNameLost => WalkMissesNoName
    BY DEF NoNameLost, WalkMissesNoName, Idle
<1> QED
    BY <1>1, ReadsInvariant, PTL DEF ReadsInv

\* If nothing is published in between, it is shown each name as often as it has
\* versions, although each page is sorted anew by name only (store.go:178).
THEOREM WalkIsExactHolds == RSpec => []WalkIsExact
<1>1. ASSUME Typed, PagesJoin, walk.step = "done", still, NEW n \in Names
      PROVE  Cardinality(SeenOf(n)) = IF n \in walk.query THEN Cardinality(Versions(n)) ELSE 0
    <2> DEFINE up == UpTo(Matching, n)
               low == Below(Matching, n)
               own == {p \in Matching : p[1] = n}
    <2>1. walk \in Walks
        BY <1>1 DEF PagesJoin, Typed
    <2>2. /\ up \in SUBSET Packages /\ low \in SUBSET up /\ low \in SUBSET Packages
          /\ up \in SUBSET Matching /\ own = up \ low /\ low = up \cap low
        <3>1. n \in Nat /\ \A q \in Matching : q[1] \in Nat
            BY StringsAssumption DEF Matching, Stored, Packages
        <3> QED
            BY <3>1, MatchingIsFinite DEF UpTo, Below
    <2>3. SeenOf(n) = (Cardinality(low) + 1)..Cardinality(up)
        <3> DEFINE u == Cardinality(up)
                   l == Cardinality(low)
        <3>1. /\ Len(walk.seen) = Cardinality(Matching)
              /\ walk.seen \in Seq(Packages)
              /\ \A i \in DOMAIN walk.seen : walk.seen[i][1] = n <=> l < i /\ i <= u
            <4>1. Covered \in Int /\ Covered >= Cardinality(Matching)
                BY <1>1, <2>1 DEF PagesJoin, Walks, Covered
            <4> QED
                BY <1>1, <2>1, <4>1, MatchingIsFinite DEF PagesJoin, Walks
        <3>2. u \in Nat /\ l \in Nat /\ u <= Cardinality(Matching)
            <4> HIDE DEF up, low
            <4> QED
                BY <2>2, PackagesAreFinite, MatchingIsFinite, FS_Subset
        <3> HIDE DEF u, l
        <3>3. \A i \in DOMAIN walk.seen : i \in SeenOf(n) <=> l < i /\ i <= u
            BY <3>1 DEF SeenOf
        <3>4. DOMAIN walk.seen = 1..Cardinality(Matching) /\ Cardinality(Matching) \in Nat
            BY <3>1, MatchingIsFinite
        <3>5. \A i \in (l + 1)..u : i \in SeenOf(n)
            BY <3>2, <3>3, <3>4
        <3>6. \A i \in SeenOf(n) : i \in (l + 1)..u
            <4> TAKE i \in SeenOf(n)
            <4>1. i \in DOMAIN walk.seen
                BY DEF SeenOf
            <4> QED
                BY <3>2, <3>3, <3>4, <4>1
        <3> QED
            BY <3>5, <3>6 DEF u, l
    <2>4. Cardinality(SeenOf(n)) = Cardinality(own)
        <3> HIDE DEF up, low, own
        <3>1. Cardinality(own) = Cardinality(up) - Cardinality(low)
            BY <2>2, PackagesAreFinite, FS_Difference
        <3>2. Cardinality(up) \in Nat /\ Cardinality(low) \in Nat /\ Cardinality(low) <= Cardinality(up)
            BY <2>2, PackagesAreFinite, FS_Subset
        <3>3. Cardinality((Cardinality(low) + 1)..Cardinality(up)) =
                  IF Cardinality(low) + 1 > Cardinality(up) THEN 0
                  ELSE Cardinality(up) - (Cardinality(low) + 1) + 1
            <4>1. Cardinality(low) + 1 \in Int /\ Cardinality(up) \in Int
                BY <3>2
            <4> QED
                BY <4>1, FS_Interval, Zenon
        <3> QED
            BY <2>3, <3>1, <3>2, <3>3
    <2>5. CASE n \in walk.query
        <3> DEFINE f == [v \in Versions(n) |-> <<n, v>>]
        <3>1. f \in Bijection(Versions(n), own)
            <4>1. own = {<<n, v>> : v \in Versions(n)}
                <5>1. \A p \in own : p \in Packages /\ p \in Stored /\ p = <<n, p[2]>> /\ p[2] \in Vers
                    BY DEF Matching, Stored, Packages
                <5>2. \A p \in own : p \in {<<n, v>> : v \in Versions(n)}
                    BY <5>1 DEF Versions
                <5>3. \A v \in Versions(n) : <<n, v>> \in own
                    BY <2>5 DEF Versions, Matching
                <5> QED
                    BY <5>2, <5>3
            <4>2. f \in Surjection(Versions(n), own)
                BY <4>1 DEF Surjection
            <4>3. f \in Injection(Versions(n), own)
                BY <4>2 DEF Injection, Surjection, IsInjective
            <4> QED
                BY <4>2, <4>3 DEF Bijection
        <3>2. IsFiniteSet(Versions(n))
            BY StringsAssumption, FS_Subset DEF Versions
        <3> HIDE DEF f, own
        <3>3. Cardinality(own) = Cardinality(Versions(n))
            BY <3>1, <3>2, FS_Bijection DEF ExistsBijection
        <3> QED
            BY <2>4, <2>5, <3>3
    <2>6. CASE n \notin walk.query
        <3>1. own = {}
            BY <2>6 DEF Matching
        <3> HIDE DEF own
        <3> QED
            BY <2>4, <2>6, <3>1, FS_EmptySet
    <2> QED
        BY <2>5, <2>6
<1>2. Typed /\ PagesJoin => WalkIsExact
    BY <1>1 DEF WalkIsExact
<1> QED
    BY <1>2, ReadsInvariant, PTL DEF ReadsInv

=============================================================================
