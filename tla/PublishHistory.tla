--------------------------- MODULE PublishHistory ---------------------------
(***************************************************************************)
(* Publish with three history variables, which no action reads, and the    *)
(* properties of the publish path that need them.  A handler reads its     *)
(* facts one at a time and acts on them later; what it can promise is      *)
(* therefore about the whole time it served the request, and the history   *)
(* variables remember that time.                                           *)
(***************************************************************************)
EXTENDS Publish

VARIABLES
    rivals,     \* id -> requests served when the version appeared, and still
    closed,     \* worker -> gates closed at every moment since it began
    flagged     \* worker -> names with a buggy version ever since it began

history == <<rivals, closed, flagged>>
allVars == <<vars, history>>

Gates == {"KEY_NOT_CLAIMED", "KEY_REVOKED", "PUBLISH_NOT_AUTHORIZED"}

ClosedGates(record) ==
    {g \in Gates : \/ g = "KEY_NOT_CLAIMED" /\ ~record.claimed
                   \/ g = "KEY_REVOKED" /\ record.status = "revoked"
                   \/ g = "PUBLISH_NOT_AUTHORIZED" /\ ~record.permission}

BuggyNames(store) == {n \in Names : BuggyVersions(store, n) # {}}

Serving(w, id) == pc[w] # "idle" /\ req[w].id = id

HInit ==
    /\ Init
    /\ rivals = [id \in Ids |-> {}]
    /\ closed = [w \in Workers |-> {}]
    /\ flagged = [w \in Workers |-> {}]

Remember ==
    /\ rivals' = [id \in Ids |->
          IF Exists(data, id) THEN {w \in rivals[id] : pc'[w] # "idle"}
          ELSE IF Exists(data', id) THEN {w \in Workers : Serving(w, id)'}
          ELSE {}]
    /\ closed' = [w \in Workers |->
          IF pc'[w] = "idle" THEN {}
          ELSE IF req'[w].key = Token THEN {}
          ELSE ClosedGates(keys'[req'[w].key])
                 \cap (IF pc[w] = "idle" THEN Gates ELSE closed[w])]
    /\ flagged' = [w \in Workers |->
          IF pc'[w] = "idle" THEN {}
          ELSE BuggyNames(data')
                 \cap (IF pc[w] = "idle" THEN Names ELSE flagged[w])]

HNext == Next /\ Remember

HSpec == HInit /\ [][HNext]_allVars

\* net/http runs every handler in its own goroutine and no handler waits for
\* another; the outgoing calls end by their client timeouts.
HFairSpec == HSpec /\ \A w \in Workers : WF_allVars(HandlerStep(w) /\ Remember)

-----------------------------------------------------------------------------
HTypeOK ==
    /\ TypeOK
    /\ rivals \in [Ids -> SUBSET Workers]
    /\ closed \in [Workers -> SUBSET Gates]
    /\ flagged \in [Workers -> SUBSET Names]

\* A request that comes to store its package found the version missing, so
\* if the version is there now, the request was already being served when
\* the version appeared: the only way to overwrite is a race
\* (handlers.go:363 and 527, the Get before the Put).
OverwriteNeedsRace ==
    \A w \in Workers :
        pc[w] = "put" /\ Exists(data, req[w].id) => w \in rivals[req[w].id]

\* A gate that stays closed from the arrival of a request to its end keeps
\* the request from storing anything, however its three reads interleave with
\* the owner's actions (handlers.go:387, 490).  The exception is a request
\* whose pointer has gone astray: its key was removed, or ByKey was given
\* another pointer for it, after the lookup and before the last gate.  Such a
\* request may read another key's record (owner.go:133); all that is left of
\* the gates is that its key was linked at some moment since it arrived.
ClosedGateStopsPublish ==
    \A w \in Workers : pc[w] = "put" =>
        /\ "KEY_NOT_CLAIMED" \notin closed[w]
        /\ w \notin astray => closed[w] = {}

\* A dependency with a version flagged buggy during the whole of a proxy
\* publish keeps it from being stored (rule A6, handlers.go:559).
BuggyDependencyStopsPublish ==
    \A w \in Workers :
        pc[w] = "put" /\ req[w].kind = "proxy" => flagged[w] \cap req[w].deps = {}

\* Every dependency of a stored proxy package is in the store too, for good
\* (rule A5, handlers.go:550; no handler deletes a package).
ProxyDependenciesExist ==
    \A id \in Ids :
        Exists(data, id) /\ data[id].upload.kind = "proxy"
            => \A dep \in data[id].upload.deps : Versions(data, dep) # {}

\* A stored official package points at a release whose archive was uploaded
\* (github.go:224, PublishPackage before Store.Put).
OfficialHasAsset ==
    \A id \in Ids :
        Exists(data, id) /\ data[id].upload.kind = "official"
            => id \in releases /\ id \in assets

\* Two official publishes of a version never both store it: GitHub's tag is
\* the lock the store's check is not (github.go:145, createRelease).
OfficialNeverReplacesOfficial ==
    [][\A id \in Ids :
         \A w \in Workers :
            /\ Exists(data, id) /\ data[id].upload.kind = "official"
            /\ Serving(w, id) /\ pc[w] = "put" /\ pc'[w] = "idle"
            => req[w].kind = "proxy"]_allVars

\* The publish path implements Catalog: a version is settled once the
\* requests that raced with its first publish have been answered.
Promise == INSTANCE Catalog WITH
    Statuses <- ValidStatuses,
    settled <- [id \in Ids |-> Exists(data, id) /\ rivals[id] = {}]

ImplementsCatalog == Promise!Spec

\* Every contest ends: the requests that race with a version's first publish
\* are all answered.
ContestsEnd == \A id \in Ids : Exists(data, id) ~> rivals[id] = {}

-----------------------------------------------------------------------------
(***************************************************************************)
(* The inductive invariant behind those properties: what each request      *)
(* knows at each step of its handler.                                      *)
(***************************************************************************)
Busy(w) == pc[w] # "idle"

PastDuplicate(w) ==
    pc[w] \in IF req[w].kind = "proxy" THEN {"validate", "exist", "buggy", "put"}
              ELSE OfficialStages \ {"duplicate"}

PastGate(w) ==
    pc[w] \in IF req[w].kind = "proxy" THEN ProxyStages \ {"gate"}
              ELSE OfficialStages \ {"duplicate", "validate", "gate"}

\* Whoever found a version missing that is there now is one of its rivals.
RaceInv ==
    \A w \in Workers :
        Busy(w) /\ PastDuplicate(w) /\ Exists(data, req[w].id)
            => w \in rivals[req[w].id]

\* What the A5 and the A6 loop have established so far.
PassedA5(w, dep) == pc[w] \in {"buggy", "put"} \/ (pc[w] = "exist" /\ dep \notin todo[w])
PassedA6(w, dep) == pc[w] = "put" \/ (pc[w] = "buggy" /\ dep \notin todo[w])

LoopInv ==
    \A w \in Workers :
        Busy(w) /\ req[w].kind = "proxy" =>
            \A dep \in req[w].deps :
                /\ PassedA5(w, dep) => Versions(data, dep) # {}
                /\ PassedA6(w, dep) => dep \notin flagged[w]

\* The gates a request has passed have been open at some moment since it
\* began, and so have been those that a record it may still read would open;
\* of a request whose pointer has gone astray only KEY_NOT_CLAIMED is known.
ReadsPointer(w) == pc[w] \in {"status", "permission"}

GateInv ==
    \A w \in Workers :
        Busy(w) =>
            /\ req[w].key = Token => closed[w] = {}
            /\ ReadsPointer(w) => req[w].key # Token
            /\ PastGate(w) => "KEY_NOT_CLAIMED" \notin closed[w]
            /\ PastGate(w) /\ w \notin astray =>
                 /\ pc[w] # "status" => "KEY_REVOKED" \notin closed[w]
                 /\ ~ReadsPointer(w) => closed[w] = {}
                 /\ ReadsPointer(w) =>
                      \A record \in read[w] : closed[w] \subseteq ClosedGates(record)

\* A release belongs to at most one request, and to no request once a
\* package stored by the official path points at it.
UploadsTo(w, id) ==
    /\ Busy(w) /\ req[w].id = id /\ req[w].kind = "official"
    /\ pc[w] \in {"upload", "put"}

StoredOfficial(id) == Exists(data, id) /\ data[id].upload.kind = "official"

ReleaseInv ==
    \A id \in Ids : \A w \in Workers :
        UploadsTo(w, id) =>
            /\ id \in releases
            /\ pc[w] = "put" => id \in assets
            /\ ~StoredOfficial(id)
            /\ \A v \in Workers : UploadsTo(v, id) => v = w

\* Only the requests of a version contest it.
RivalsInv ==
    \A id \in Ids : \A w \in rivals[id] : Serving(w, id)

PublishInv ==
    RaceInv /\ RivalsInv /\ LoopInv /\ GateInv /\ ReleaseInv
        /\ ProxyDependenciesExist /\ OfficialHasAsset

-----------------------------------------------------------------------------
\* What the repository says of the publish path, and the code does not do:
\* server_test.go:450 (TestPublishRejectsDuplicate), a second publish of a
\* version is answered 409, so the content of a published version is fixed.
PublishedContentIsFixed ==
    [][\A id \in Ids : Exists(data, id) => data'[id].upload = data[id].upload]_allVars

=============================================================================
