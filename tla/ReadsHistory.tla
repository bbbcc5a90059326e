---------------------------- MODULE ReadsHistory ----------------------------
(***************************************************************************)
(* Reads with history variables: where a read began, and whether packages  *)
(* were published since.                                                   *)
(***************************************************************************)
EXTENDS Reads

VARIABLES
    root,       \* the package whose dependencies are resolved
    steady,     \* the store is as it was when the resolution began
    start,      \* names the walk's query matched in the store when it began
    still       \* the store is as it was when the walk began

history == <<root, steady, start, still>>
allVars == <<vars, history>>

RInit == Init /\ root = None /\ steady = FALSE /\ start = {} /\ still = FALSE

RPublish(p, deps) ==
    /\ Publish(p, deps)
    /\ steady' = FALSE
    /\ still' = FALSE
    /\ UNCHANGED <<root, start>>

RAsk(p) ==
    /\ AskDependencies(p)
    /\ root' = p
    /\ steady' = TRUE
    /\ UNCHANGED <<start, still>>

RAnswer == Answer /\ root' = None /\ steady' = FALSE /\ UNCHANGED <<start, still>>

RResolve ==
    \/ ((\E dep \in Names : Visit(dep)) \/ GetManifest \/ Return) /\ UNCHANGED history
    \/ RAnswer

RSearch(query, per) ==
    /\ Search(query, per)
    /\ start' = {p[1] : p \in Matching'}
    /\ still' = TRUE
    /\ UNCHANGED <<root, steady>>

RWalk ==
    \/ \E query \in SUBSET Names, per \in PerPages : RSearch(query, per)
    \/ AskPage /\ UNCHANGED history
    \/ EndWalk /\ start' = {} /\ still' = FALSE /\ UNCHANGED <<root, steady>>

RNext ==
    \/ \E p \in Packages : RAsk(p) \/ \E deps \in Manifests : RPublish(p, deps)
    \/ RResolve \/ RWalk

RSpec == RInit /\ [][RNext]_allVars /\ WF_allVars(RResolve)

-----------------------------------------------------------------------------
\* Types; and the calls of resolveTransitive never nest deeper than there are
\* names, whatever cycles the manifests form while packages are published.
TypeOK ==
    /\ data \in Stores
    /\ published \in 0..MaxPublishes
    /\ resolver # Idle =>
          /\ resolver.step \in {"get", "visit"}
          /\ resolver.at \in Stored
          /\ resolver.stack \in Seq(SUBSET Names)
          /\ Len(resolver.stack) <= Cardinality(Names) + 1
    /\ walk # Idle => walk.seen \in Seq(Packages) /\ walk.per > 0 /\ walk.page > 0

\* What n's newest version depends on.
DependsOn(n) == IF Versions(n) = {} THEN {} ELSE data[<<n, Newest(n)>>]

\* n is in every set of names that holds the given ones and whatever its
\* members depend on.
Reachable(names, n) ==
    \A S \in SUBSET Names :
        names \subseteq S /\ (\A m \in S : DependsOn(m) \subseteq S) => n \in S

ResolvedNames == {resolver.result[i][1] : i \in DOMAIN resolver.result}

\* If nothing is published meanwhile, the answer lists exactly the names that
\* can be reached and are in the store, with their newest versions: cycles,
\* the asked package among its own dependencies, missing names and all orders
\* of the maps included (handlers.go:722, resolveTransitive).
ResolvesReachable ==
    Resolved /\ steady =>
        /\ ResolvedNames = {n \in Names : Versions(n) # {} /\ Reachable(data[root], n)}
        /\ \A i \in DOMAIN resolver.result : resolver.result[i][2] = Newest(resolver.result[i][1])

\* The answer never lists two versions of a name, even when a newer one is
\* published in the middle of the resolution (handlers.go:725, the seen set).
EachNameOnce ==
    resolver # Idle =>
        \A i, j \in DOMAIN resolver.result :
            resolver.result[i][1] = resolver.result[j][1] => i = j

\* Every resolution ends, whatever is published while it runs.
ResolutionEnds == (resolver # Idle) ~> (resolver = Idle)

SeenOf(n) == {i \in DOMAIN walk.seen : walk.seen[i][1] = n}

\* A client that reads page after page is shown every name that matched when
\* it began, although packages published meanwhile move the later pages
\* (store.go:191-200).
WalkMissesNoName ==
    walk.step = "done" => \A n \in start : SeenOf(n) # {}

\* If nothing is published meanwhile, it is shown each name exactly as often
\* as it has versions, although each page is sorted anew and the versions of a
\* name change places; of a name with one version, that very package
\* (store.go:178, sort.Slice by name only).
WalkIsExact ==
    walk.step = "done" /\ still =>
        \A n \in Names :
            Cardinality(SeenOf(n)) = IF n \in walk.query THEN Cardinality(Versions(n)) ELSE 0

=============================================================================
