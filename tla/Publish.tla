------------------------------ MODULE Publish ------------------------------
(***************************************************************************)
(* The two publish handlers (internal/server/handlers.go) over the memory  *)
(* store, each request served by a goroutine of its own.  Every call that  *)
(* leaves the handler - a read of the owner's key record, a store          *)
(* operation, a GitHub request - is one step; the requests, the owners'    *)
(* key actions, the status endpoint and the downloads interleave freely    *)
(* between them.                                                           *)
(*                                                                         *)
(* Requests holds the requests that pass the checks on the request alone   *)
(* (JSON, required fields, URL against body): one that fails them is       *)
(* answered 400 before any state is read.                                  *)
(*                                                                         *)
(* A definition marked "Variant" belongs to no specification: it is what a *)
(* plausible mistake would make of the definition that follows it, and the *)
(* README lists the property that tells the two apart.                     *)
(***************************************************************************)
EXTENDS MemoryStore

CONSTANTS
    Workers,        \* the goroutines that serve publish requests
    Keys,           \* SSH key fingerprints
    Token,          \* "key" of a request authenticated by a bearer token
    Requests,       \* the requests clients send
    NoRequest       \* what an idle worker serves

Kinds == {"proxy", "official"}

ASSUME RequestsAssumption ==
    Requests \subseteq [kind : Kinds, key : Keys \cup {Token}, id : Ids,
                        deps : SUBSET Names]
ASSUME UploadsAssumption == Uploads = Requests
ASSUME NoRequestAssumption == NoRequest \notin Requests
ASSUME TokenAssumption == Token \notin Keys

\* The order of the steps of processPublish and publishOfficial.
NextStage ==
    [proxy    |-> [idle |-> "gate", gate |-> "status", status |-> "permission",
                   permission |-> "duplicate", duplicate |-> "validate",
                   validate |-> "exist", exist |-> "buggy", buggy |-> "put"],
     official |-> [idle |-> "duplicate", duplicate |-> "validate",
                   validate |-> "gate", gate |-> "status",
                   status |-> "permission", permission |-> "repo",
                   repo |-> "branch", branch |-> "release",
                   release |-> "upload", upload |-> "put"]]

ProxyStages ==
    {"gate", "status", "permission", "duplicate", "validate", "exist", "buggy",
     "put"}
OfficialStages ==
    {"duplicate", "validate", "gate", "status", "permission",
     "repo", "createRepo", "branch", "release", "upload", "put"}
Stages == {"idle"} \cup ProxyStages \cup OfficialStages

\* A key's record as the gates see it (auth.OwnerKey plus its being linked).
KeyRecords ==
    [claimed : BOOLEAN, status : {"active", "revoked"}, permission : BOOLEAN]

\* What the gates find of a key that ByKey does not have.
Unlinked == [claimed |-> FALSE, status |-> "active", permission |-> FALSE]

VARIABLES
    data,       \* the store: id -> package
    keys,       \* fingerprint -> key record
    repos,      \* GitHub repositories of the organisation
    releases,   \* GitHub releases (tag v<version> of the name's repository)
    assets,     \* releases whose .cgp was uploaded
    pc,         \* worker -> the step it takes next
    req,        \* worker -> the request it serves
    todo,       \* worker -> dependencies its current loop has still to visit
    read,       \* worker -> records its pointer has led to since GetByKey
    astray      \* workers that hold a pointer ByKey has dropped

external == <<repos, releases, assets>>
pointer  == <<read, astray>>
local    == <<pc, req, todo, pointer>>
vars     == <<data, keys, external, local>>

Init ==
    /\ data = EmptyStore
    /\ keys = [k \in Keys |-> Unlinked]
    /\ repos = {} /\ releases = {} /\ assets = {}
    /\ pc = [w \in Workers |-> "idle"]
    /\ req = [w \in Workers |-> NoRequest]
    /\ todo = [w \in Workers |-> {}]
    /\ read = [w \in Workers |-> {}]
    /\ astray = {}

-----------------------------------------------------------------------------
Goto(w, stage) == pc' = [pc EXCEPT ![w] = stage]

\* The request has passed this stage of its handler.
Advance(w) == Goto(w, NextStage[req[w].kind][pc[w]])

\* The handler writes its response and returns.
Reply(w) ==
    /\ Goto(w, "idle")
    /\ req' = [req EXCEPT ![w] = NoRequest]
    /\ todo' = [todo EXCEPT ![w] = {}]
    /\ read' = [read EXCEPT ![w] = {}]
    /\ astray' = astray \ {w}

Refuse(w) == Reply(w) /\ UNCHANGED <<data, keys, external>>

Receive(w, r) ==
    /\ pc[w] = "idle"
    /\ Goto(w, NextStage[r.kind]["idle"])
    /\ req' = [req EXCEPT ![w] = r]
    /\ UNCHANGED <<data, keys, external, todo, pointer>>

\* A token carries no fingerprint: its request skips the three gates.
SkipGates(w) ==
    /\ pc[w] = "gate"
    /\ req[w].key = Token
    /\ Goto(w, NextStage[req[w].kind]["permission"])
    /\ UNCHANGED <<data, keys, external, req, todo, pointer>>

\* GetByKey, under the store's lock: KEY_NOT_CLAIMED, or a pointer to the
\* key's record, through which the next two gates read.
GetByKey(w) ==
    LET record == keys[req[w].key] IN
    /\ pc[w] = "gate"
    /\ req[w].key # Token
    /\ \/ /\ record.claimed
          /\ Advance(w)
          /\ read' = [read EXCEPT ![w] = {record}]
          /\ UNCHANGED <<data, keys, external, req, todo, astray>>
       \/ ~record.claimed /\ Refuse(w)

\* What a request may find under its pointer, which it follows with no lock
\* held: any record that ByKey has led to since, as long as both lead to the
\* same cell.  Once ByKey has dropped the pointer nothing ties the cell to the
\* key: a removal shifts another key's record into it, a later append reuses
\* it, and the owner goes on changing what is there.
Pointee(w) == IF w \in astray THEN KeyRecords ELSE read[w]

\* Variant: the revoked gate is left out.
PassStatus(w) ==
    /\ pc[w] = "status"
    /\ Advance(w)
    /\ UNCHANGED <<data, keys, external, req, todo, pointer>>

\* KEY_REVOKED
ReadStatus(w) ==
    /\ pc[w] = "status"
    /\ \/ /\ \E record \in Pointee(w) : record.status # "revoked"
          /\ Advance(w)
          /\ UNCHANGED <<data, keys, external, req, todo, pointer>>
       \/ /\ \E record \in Pointee(w) : record.status = "revoked"
          /\ Refuse(w)

\* Variant: the gates are shared by both handlers and go on with GitHub.
ReadPermissionThenRepo(w) ==
    /\ pc[w] = "permission"
    /\ \E record \in Pointee(w) : record.permission
    /\ Goto(w, "repo")
    /\ UNCHANGED <<data, keys, external, req, todo, pointer>>

\* PUBLISH_NOT_AUTHORIZED
ReadPermission(w) ==
    /\ pc[w] = "permission"
    /\ \/ /\ \E record \in Pointee(w) : record.permission
          /\ Advance(w)
          /\ read' = [read EXCEPT ![w] = {}]
          /\ UNCHANGED <<data, keys, external, req, todo, astray>>
       \/ /\ \E record \in Pointee(w) : ~record.permission
          /\ Refuse(w)

\* Variant: the check is left out.
CheckNoDuplicate(w) ==
    /\ pc[w] = "duplicate"
    /\ Advance(w)
    /\ UNCHANGED <<data, keys, external, req, todo, pointer>>

\* Variant: a version flagged buggy may be published again.
CheckSoundDuplicate(w) ==
    LET sound == Exists(data, req[w].id) /\ data[req[w].id].status # "buggy" IN
    /\ pc[w] = "duplicate"
    /\ \/ /\ ~sound
          /\ Advance(w)
          /\ UNCHANGED <<data, keys, external, req, todo, pointer>>
       \/ sound /\ Refuse(w)

\* Store.Get: the version must be new.
CheckDuplicate(w) ==
    /\ pc[w] = "duplicate"
    /\ \/ /\ ~Exists(data, req[w].id)
          /\ Advance(w)
          /\ UNCHANGED <<data, keys, external, req, todo, pointer>>
       \/ /\ Exists(data, req[w].id)
          /\ Refuse(w)

\* validate.Run looks at the manifest and at the network only; the proxy
\* path then starts the A5 loop over the manifest's dependencies.
Validate(w) ==
    /\ pc[w] = "validate"
    /\ \/ /\ Advance(w)
          /\ todo' = [todo EXCEPT ![w] =
                        IF req[w].kind = "proxy" THEN req[w].deps ELSE {}]
          /\ UNCHANGED <<data, keys, external, req, pointer>>
       \/ Refuse(w)

\* Variant: a dependency is crossed off whatever the store holds of it.
PassDependency(w, dep) ==
    /\ pc[w] = "exist"
    /\ dep \in todo[w]
    /\ todo' = [todo EXCEPT ![w] = @ \ {dep}]
    /\ UNCHANGED <<data, keys, external, pc, req, pointer>>

\* A5, one dependency: some version of it is in the store.
CheckExists(w, dep) ==
    /\ pc[w] = "exist"
    /\ dep \in todo[w]
    /\ \/ /\ Versions(data, dep) # {}
          /\ todo' = [todo EXCEPT ![w] = @ \ {dep}]
          /\ UNCHANGED <<data, keys, external, pc, req, pointer>>
       \/ /\ Versions(data, dep) = {}
          /\ Refuse(w)

ExistLoopEnds(w) ==
    /\ pc[w] = "exist" /\ todo[w] = {}
    /\ Advance(w)
    /\ todo' = [todo EXCEPT ![w] = req[w].deps]
    /\ UNCHANGED <<data, keys, external, req, pointer>>

\* A6, one dependency: none of its versions is buggy.
BuggyVersions(store, dep) ==
    {id \in Versions(store, dep) : store[id].status = "buggy"}

\* Variant: a dependency is crossed off whatever the status of its versions.
PassBuggy(w, dep) ==
    /\ pc[w] = "buggy"
    /\ dep \in todo[w]
    /\ todo' = [todo EXCEPT ![w] = @ \ {dep}]
    /\ UNCHANGED <<data, keys, external, pc, req, pointer>>

CheckBuggy(w, dep) ==
    /\ pc[w] = "buggy"
    /\ dep \in todo[w]
    /\ \/ /\ BuggyVersions(data, dep) = {}
          /\ todo' = [todo EXCEPT ![w] = @ \ {dep}]
          /\ UNCHANGED <<data, keys, external, pc, req, pointer>>
       \/ /\ BuggyVersions(data, dep) # {}
          /\ Refuse(w)

BuggyLoopEnds(w) ==
    /\ pc[w] = "buggy" /\ todo[w] = {}
    /\ Advance(w)
    /\ UNCHANGED <<data, keys, external, req, todo, pointer>>

-----------------------------------------------------------------------------
\* GitHub.PublishPackage, one step per request.  A request that fails on the
\* way (or that GitHub refuses) ends the publish with GITHUB_ERROR; one whose
\* answer is lost has taken effect all the same.
CheckRepo(w) ==
    /\ pc[w] = "repo"
    /\ \/ /\ Goto(w, IF req[w].id[1] \in repos THEN "branch" ELSE "createRepo")
          /\ UNCHANGED <<data, keys, external, req, todo, pointer>>
       \/ Refuse(w)

CreateRepo(w) ==
    /\ pc[w] = "createRepo"
    /\ \/ /\ req[w].id[1] \notin repos
          /\ repos' = repos \cup {req[w].id[1]}
          /\ UNCHANGED <<data, keys, releases, assets>>
          /\ \/ Goto(w, "branch") /\ UNCHANGED <<req, todo, pointer>>
             \/ Reply(w)
       \/ Refuse(w)

EnsureNotEmpty(w) ==
    /\ pc[w] = "branch"
    /\ \/ Advance(w) /\ UNCHANGED <<data, keys, external, req, todo, pointer>>
       \/ Refuse(w)

\* Variant: a tag that exists already is taken for the request's own.
ReuseRelease(w) ==
    /\ pc[w] = "release"
    /\ \/ /\ releases' = releases \cup {req[w].id}
          /\ Advance(w)
          /\ UNCHANGED <<data, keys, repos, assets, req, todo, pointer>>
       \/ Refuse(w)

\* Variant: a tag that exists already is waited for to go away.
AwaitRelease(w) ==
    /\ pc[w] = "release"
    /\ req[w].id \notin releases
    /\ releases' = releases \cup {req[w].id}
    /\ Advance(w)
    /\ UNCHANGED <<data, keys, repos, assets, req, todo, pointer>>

\* GitHub refuses a second release with the tag of an existing one.
CreateRelease(w) ==
    /\ pc[w] = "release"
    /\ \/ /\ req[w].id \notin releases
          /\ releases' = releases \cup {req[w].id}
          /\ UNCHANGED <<data, keys, repos, assets>>
          /\ \/ Advance(w) /\ UNCHANGED <<req, todo, pointer>>
             \/ Reply(w)
       \/ Refuse(w)

\* Variant: an upload that fails does not stop the publish.
UploadAnyway(w) ==
    /\ pc[w] = "upload"
    /\ Advance(w)
    /\ assets' \in {assets, assets \cup {req[w].id}}
    /\ UNCHANGED <<data, keys, repos, releases, req, todo, pointer>>

UploadAsset(w) ==
    /\ pc[w] = "upload"
    /\ \/ /\ assets' = assets \cup {req[w].id}
          /\ UNCHANGED <<data, keys, repos, releases>>
          /\ \/ Advance(w) /\ UNCHANGED <<req, todo, pointer>>
             \/ Reply(w)
       \/ Refuse(w)

\* Store.Put and the 201.
StorePut(w) ==
    /\ pc[w] = "put"
    /\ data' = Put(data, req[w].id, NewPackage(req[w]))
    /\ Reply(w)
    /\ UNCHANGED <<keys, external>>

-----------------------------------------------------------------------------
\* What the other handlers do to the state the publish handlers read.

\* The requests that hold the pointer they got for k and have a gate to read.
Holds(w, k) == pc[w] \in {"status", "permission"} /\ req[w].key = k

\* The record in the cell that ByKey leads to changes: a request that holds
\* the pointer may find the record from before or the one from after.
ChangeRecord(k, record) ==
    /\ keys[k].claimed
    /\ keys' = [keys EXCEPT ![k] = record]
    /\ read' = [w \in Workers |->
                  IF Holds(w, k) /\ w \notin astray THEN read[w] \cup {record}
                  ELSE read[w]]
    /\ UNCHANGED <<data, external, pc, req, todo, astray>>

\* ByKey leads to another cell, or to none.  A request that holds a pointer
\* keeps it: it has gone astray, and no later change of ByKey brings it back.
MovePointer(k, record) ==
    /\ keys' = [keys EXCEPT ![k] = record]
    /\ astray' = astray \cup {w \in Workers : Holds(w, k)}
    /\ read' = [w \in Workers |-> IF Holds(w, k) THEN {} ELSE read[w]]
    /\ UNCHANGED <<data, external, pc, req, todo>>

\* AddKey refuses a key its account has, and none that another account has.
LinkKey(k) ==
    MovePointer(k, [claimed |-> TRUE, status |-> "active", permission |-> FALSE])

\* A login makes ByKey point into its account's slice.  OwnerStore models
\* which record is there; here it is any.
RelinkKey(k, status, permission) ==
    MovePointer(k, [claimed |-> TRUE, status |-> status, permission |-> permission])

\* RemoveKey, for the key removed: its entry in ByKey is deleted, and its
\* cell is given to the record behind it.
UnlinkKey(k) ==
    /\ keys[k].claimed
    /\ MovePointer(k, Unlinked)

\* A command for another key of the account reaches the cell ByKey leads to
\* for k: RemoveKey shifts the records behind the removed one, an append may
\* reuse the last cell, and a status may be set on a record that has shifted.
\* OwnerStore models which record is left there; here it is any.
ShiftRecord(k, status, permission) ==
    ChangeRecord(k, [claimed |-> TRUE, status |-> status, permission |-> permission])

SetKeyStatus(k, status) ==
    ChangeRecord(k, [keys[k] EXCEPT !.status = status])

SetPublishPermission(k, permission) ==
    ChangeRecord(k, [keys[k] EXCEPT !.permission = permission])

\* PATCH /v1/patches/{name}/{version}/status
PatchStatus(id, status) ==
    /\ Exists(data, id)
    /\ data' = SetStatus(data, id, status)
    /\ UNCHANGED <<keys, external, local>>

\* GET /v1/patches/{name}/{version}/download
Download(id) ==
    /\ Exists(data, id)
    /\ data[id].downloads < MaxDownloads
    /\ data' = IncrementDownloads(data, id)
    /\ UNCHANGED <<keys, external, local>>

-----------------------------------------------------------------------------
GitHubStep(w) ==
    CheckRepo(w) \/ CreateRepo(w) \/ EnsureNotEmpty(w) \/ CreateRelease(w) \/ UploadAsset(w)

HandlerStep(w) ==
    \/ SkipGates(w) \/ GetByKey(w) \/ ReadStatus(w) \/ ReadPermission(w)
    \/ CheckDuplicate(w) \/ Validate(w)
    \/ \E dep \in Names : CheckExists(w, dep) \/ CheckBuggy(w, dep)
    \/ ExistLoopEnds(w) \/ BuggyLoopEnds(w)
    \/ GitHubStep(w)
    \/ StorePut(w)

OwnerStep(k) ==
    \/ LinkKey(k) \/ UnlinkKey(k)
    \/ \E status \in {"active", "revoked"}, permission \in BOOLEAN :
          RelinkKey(k, status, permission) \/ ShiftRecord(k, status, permission)
    \/ \E status \in {"active", "revoked"} : SetKeyStatus(k, status)
    \/ \E permission \in BOOLEAN : SetPublishPermission(k, permission)

CatalogStep(id) ==
    \/ \E status \in ValidStatuses : PatchStatus(id, status)
    \/ Download(id)

Next ==
    \/ \E w \in Workers : HandlerStep(w) \/ \E r \in Requests : Receive(w, r)
    \/ \E k \in Keys : OwnerStep(k)
    \/ \E id \in Ids : CatalogStep(id)

Spec == Init /\ [][Next]_vars

TypeOK ==
    /\ data \in Stores
    /\ keys \in [Keys -> KeyRecords]
    /\ repos \subseteq Names /\ releases \subseteq Ids /\ assets \subseteq Ids
    /\ pc \in [Workers -> Stages]
    /\ req \in [Workers -> Requests \cup {NoRequest}]
    /\ todo \in [Workers -> SUBSET Names]
    /\ read \in [Workers -> SUBSET KeyRecords]
    /\ astray \subseteq Workers
    /\ \A w \in Workers : pc[w] # "idle" =>
          /\ req[w] \in Requests
          /\ pc[w] \in IF req[w].kind = "proxy" THEN ProxyStages ELSE OfficialStages

=============================================================================
