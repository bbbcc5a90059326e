-------------------------------- MODULE Reads --------------------------------
(***************************************************************************)
(* The read side of the registry: the dependency endpoint                  *)
(* (handleGetDependencies and resolveTransitive of                         *)
(* internal/server/handlers.go), which walks the store package by package, *)
(* and the pages of the search endpoint (SearchFiltered of                 *)
(* internal/store/store.go), while other requests publish.                 *)
(*                                                                         *)
(* Names and versions are numbers that stand for strings in their order;   *)
(* a package is a name and a version, and what the store holds of it is    *)
(* the names its manifest depends on.                                      *)
(***************************************************************************)
EXTENDS Integers, FiniteSets, SequencesExt

CONSTANTS
    Names, Vers,    \* package names and versions, in the order of the strings
    PerPages,       \* page sizes that clients ask for
    DefaultPerPage, \* 20, when a client asks for none
    Manifests,      \* what the packages that are published depend on
    None,           \* no package
    MaxPublishes    \* bound on the packages that are published

ASSUME StringsAssumption ==
    /\ Names \subseteq Nat /\ IsFiniteSet(Names)
    /\ Vers \subseteq Nat /\ IsFiniteSet(Vers)
ASSUME ManifestsAssumption ==
    /\ Manifests \subseteq SUBSET Names
    /\ \A names \in SUBSET Names : names # None
ASSUME BoundsAssumption ==
    /\ PerPages \subseteq Int /\ DefaultPerPage \in Nat \ {0}
    /\ MaxPublishes \in Nat

Packages == Names \X Vers

VARIABLES
    data,       \* package -> the names it depends on, or None
    resolver,   \* a request of the dependency endpoint
    walk,       \* a client that reads a search page by page
    published   \* packages published

vars == <<data, resolver, walk, published>>

\* A package may depend on its own name: rule A4 compares the dependencies with
\* the name that the manifest gives, which no check holds against the package's.
Stores == [Packages -> (SUBSET Names) \cup {None}]

Idle == [step |-> "idle"]

Init ==
    /\ data \in Stores
    /\ resolver = Idle
    /\ walk = Idle
    /\ published = 0

Stored == {p \in Packages : data[p] # None}

Versions(n) == {v \in Vers : <<n, v>> \in Stored}

\* Versions sorts by string, descending; what the handlers take is the first.
Newest(n) == Max(Versions(n))

\* Another request stores a package, or replaces one in a race.
Publish(p, deps) ==
    /\ published < MaxPublishes
    /\ data' = [data EXCEPT ![p] = deps]
    /\ published' = published + 1
    /\ UNCHANGED <<resolver, walk>>

-----------------------------------------------------------------------------
\* The dependency endpoint: the version asked for or the newest one; its Get.
AskDependencies(p) ==
    /\ resolver.step = "idle"
    /\ p \in Stored
    /\ resolver' = [step |-> "get", stack |-> <<>>, seen |-> {}, result |-> <<>>, at |-> p]
    /\ UNCHANGED <<data, walk, published>>

\* The maps that the calls of resolveTransitive have still to range over.
Frame == Head(resolver.stack)

\* Variant: a name that is met again is resolved again.
VisitAgain(dep) ==
    LET rest == <<Frame \ {dep}>> \o Tail(resolver.stack) IN
    /\ resolver.step = "visit" /\ resolver.stack # <<>>
    /\ dep \in Frame
    /\ resolver' =
          IF Versions(dep) = {}
          THEN [resolver EXCEPT !.stack = rest, !.seen = @ \cup {dep}]
          ELSE [resolver EXCEPT !.stack = rest, !.seen = @ \cup {dep}, !.step = "get",
                                !.at = <<dep, Newest(dep)>>,
                                !.result = Append(@, <<dep, Newest(dep)>>)]
    /\ UNCHANGED <<data, walk, published>>

\* Variant: the loop does not move on from a name that was met before.
VisitForEver(dep) ==
    LET rest == <<Frame \ {dep}>> \o Tail(resolver.stack) IN
    /\ resolver.step = "visit" /\ resolver.stack # <<>>
    /\ dep \in Frame
    /\ resolver' =
          IF dep \in resolver.seen THEN resolver
          ELSE IF Versions(dep) = {}
          THEN [resolver EXCEPT !.stack = rest, !.seen = @ \cup {dep}]
          ELSE [resolver EXCEPT !.stack = rest, !.seen = @ \cup {dep}, !.step = "get",
                                !.at = <<dep, Newest(dep)>>,
                                !.result = Append(@, <<dep, Newest(dep)>>)]
    /\ UNCHANGED <<data, walk, published>>

\* The next name of the map, in any order: its newest version, unless it was
\* met before or the store does not have it.
Visit(dep) ==
    LET rest == <<Frame \ {dep}>> \o Tail(resolver.stack) IN
    /\ resolver.step = "visit" /\ resolver.stack # <<>>
    /\ dep \in Frame
    /\ resolver' =
          IF dep \in resolver.seen \/ Versions(dep) = {}
          THEN [resolver EXCEPT !.stack = rest, !.seen = @ \cup {dep}]
          ELSE [resolver EXCEPT !.stack = rest, !.seen = @ \cup {dep}, !.step = "get",
                                !.at = <<dep, Newest(dep)>>,
                                !.result = Append(@, <<dep, Newest(dep)>>)]
    /\ UNCHANGED <<data, walk, published>>

\* Get of the version found, and the call for its dependencies.
GetManifest ==
    /\ resolver.step = "get"
    /\ resolver' = [resolver EXCEPT !.step = "visit", !.stack = <<data[resolver.at]>> \o @]
    /\ UNCHANGED <<data, walk, published>>

\* Variant: a call that returns ends the whole resolution.
ReturnAll ==
    /\ resolver.step = "visit" /\ resolver.stack # <<>> /\ Frame = {}
    /\ resolver' = [resolver EXCEPT !.stack = <<>>]
    /\ UNCHANGED <<data, walk, published>>

Return ==
    /\ resolver.step = "visit" /\ resolver.stack # <<>> /\ Frame = {}
    /\ resolver' = [resolver EXCEPT !.stack = Tail(@)]
    /\ UNCHANGED <<data, walk, published>>

Resolved == resolver.step = "visit" /\ resolver.stack = <<>>

Answer ==
    /\ Resolved
    /\ resolver' = Idle
    /\ UNCHANGED <<data, walk, published>>

ResolverStep == (\E dep \in Names : Visit(dep)) \/ GetManifest \/ Return \/ Answer

-----------------------------------------------------------------------------
\* SearchFiltered: the packages that match, sorted by name.  The versions of a
\* name come in any order, for they are gathered by ranging over a map.
Sorted(packages) ==
    {s \in SetToSeqs(packages) : \A i, j \in DOMAIN s : i < j => s[i][1] <= s[j][1]}

PerPage(per) == IF per < 1 THEN DefaultPerPage ELSE per

\* Variant: the first page is skipped.
PageFromOne(s, page, per) ==
    SubSeq(s, page * per + 1, IF (page + 1) * per > Len(s) THEN Len(s) ELSE (page + 1) * per)

\* Variant: a page ends with the first package of the next one.
PageToNext(s, page, per) ==
    SubSeq(s, (page - 1) * per + 1, IF page * per >= Len(s) THEN Len(s) ELSE page * per + 1)

\* matched[start:end], start and end kept within the slice.
Page(s, page, per) ==
    SubSeq(s, (page - 1) * per + 1, IF page * per > Len(s) THEN Len(s) ELSE page * per)

\* A client starts to read what matches its query, with the names it matches...
Search(query, per) ==
    /\ walk.step = "idle"
    /\ walk' = [step |-> "ask", query |-> query, per |-> PerPage(per), page |-> 1, seen |-> <<>>]
    /\ UNCHANGED <<data, resolver, published>>

Matching == {p \in Stored : p[1] \in walk.query}

\* ... and asks for pages until they have covered the total it is told of.
AskPage ==
    /\ walk.step = "ask"
    /\ \E s \in Sorted(Matching) :
          walk' = [walk EXCEPT
                     !.seen = @ \o Page(s, walk.page, walk.per),
                     !.page = @ + 1,
                     !.step = IF walk.page * walk.per >= Len(s) THEN "done" ELSE "ask"]
    /\ UNCHANGED <<data, resolver, published>>

EndWalk ==
    /\ walk.step = "done"
    /\ walk' = Idle
    /\ UNCHANGED <<data, resolver, published>>

WalkStep ==
    \/ \E query \in SUBSET Names, per \in PerPages : Search(query, per)
    \/ AskPage \/ EndWalk

Next ==
    \/ \E p \in Packages : AskDependencies(p) \/ \E deps \in Manifests : Publish(p, deps)
    \/ ResolverStep \/ WalkStep

Spec == Init /\ [][Next]_vars /\ WF_vars(ResolverStep)

=============================================================================
