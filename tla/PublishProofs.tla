--------------------------- MODULE PublishProofs ---------------------------
(***************************************************************************)
(* What TLAPS proves of the publish path, for every set of names, keys,    *)
(* requests and workers: its types, the invariant PublishInv, the safety   *)
(* properties that follow from it, and that it implements Catalog.         *)
(***************************************************************************)
EXTENDS PublishHistory, TLAPS

\* The rows of the stage table, as the provers can use them.
LEMMA StageTable ==
    /\ NextStage["proxy"]["idle"] = "gate"
    /\ NextStage["proxy"]["gate"] = "status"
    /\ NextStage["proxy"]["status"] = "permission"
    /\ NextStage["proxy"]["permission"] = "duplicate"
    /\ NextStage["proxy"]["duplicate"] = "validate"
    /\ NextStage["proxy"]["validate"] = "exist"
    /\ NextStage["proxy"]["exist"] = "buggy"
    /\ NextStage["proxy"]["buggy"] = "put"
    /\ NextStage["official"]["idle"] = "duplicate"
    /\ NextStage["official"]["duplicate"] = "validate"
    /\ NextStage["official"]["validate"] = "gate"
    /\ NextStage["official"]["gate"] = "status"
    /\ NextStage["official"]["status"] = "permission"
    /\ NextStage["official"]["permission"] = "repo"
    /\ NextStage["official"]["branch"] = "release"
    /\ NextStage["official"]["release"] = "upload"
    /\ NextStage["official"]["upload"] = "put"
BY DEF NextStage

\* The fields of a request have the types its handler relies on.
LEMMA RequestFields ==
    ASSUME NEW r \in Requests
    PROVE  /\ r.kind \in {"proxy", "official"}
           /\ r.key \in Keys \cup {Token}
           /\ r.id \in Ids
           /\ r.id[1] \in Names
           /\ r.deps \subseteq Names
BY RequestsAssumption DEF Kinds, Ids

\* A package is the record of its fields.
LEMMA PackageFields ==
    ASSUME NEW p \in Packages
    PROVE  /\ p = [upload |-> p.upload, status |-> p.status, downloads |-> p.downloads]
           /\ p.upload \in Uploads /\ p.downloads \in Nat
BY DEF Packages

\* Put makes its package the entry of the identifier and touches no other.
LEMMA PutEffect ==
    ASSUME NEW store \in Stores, NEW id \in Ids, NEW u \in Uploads
    PROVE  /\ Put(store, id, NewPackage(u)) \in Stores
           /\ Exists(Put(store, id, NewPackage(u)), id)
           /\ Put(store, id, NewPackage(u))[id].upload = u
           /\ \A j \in Ids : j # id => Put(store, id, NewPackage(u))[j] = store[j]
<1> DEFINE p == NewPackage(u)
           q == [p EXCEPT !.status = "active"]
           d == Put(store, id, p)
<1>1. /\ p \in Packages
      /\ p.upload = u /\ p.status = "" /\ p.downloads = 0
  BY DEF NewPackage, Packages
<1> HIDE DEF p
<1>2. /\ q \in Packages
      /\ q.upload = u /\ q.status = "active" /\ q.downloads = 0
  BY <1>1 DEF Packages, ValidStatuses
<1>3. d = [store EXCEPT ![id] = IF Exists(store, id) THEN p ELSE q]
  BY DEF Put
<1> HIDE DEF q
<1>4. d[id] = IF Exists(store, id) THEN p ELSE q
  BY <1>3 DEF Stores
<1>5. \A j \in Ids : j # id => d[j] = store[j]
  BY <1>3 DEF Stores
<1>6. d \in Stores
  BY <1>1, <1>2, <1>3 DEF Stores
<1> HIDE DEF d
<1>7. Exists(d, id)
  BY <1>1, <1>2, <1>4, NotFoundAssumption DEF Exists
<1>8. d[id].upload = u
  BY <1>1, <1>2, <1>4
<1> QED BY <1>5, <1>6, <1>7, <1>8 DEF d, p

\* SetStatus changes the status of one stored package and nothing else.
LEMMA SetStatusEffect ==
    ASSUME NEW store \in Stores, NEW id \in Ids, Exists(store, id),
           NEW s \in ValidStatuses
    PROVE  /\ SetStatus(store, id, s) \in Stores
           /\ \A j \in Ids : Exists(SetStatus(store, id, s), j) <=> Exists(store, j)
           /\ \A j \in Ids :
                Exists(store, j) =>
                    /\ SetStatus(store, id, s)[j].upload = store[j].upload
                    /\ SetStatus(store, id, s)[j].downloads = store[j].downloads
           /\ SetStatus(store, id, s)[id].status = s
           /\ \A j \in Ids : j # id => SetStatus(store, id, s)[j] = store[j]
<1>1. store[id] \in Packages
  BY DEF Exists, Stores
<1>2. /\ [store[id] EXCEPT !.status = s] \in Packages
      /\ [store[id] EXCEPT !.status = s].upload = store[id].upload
      /\ [store[id] EXCEPT !.status = s].downloads = store[id].downloads
      /\ [store[id] EXCEPT !.status = s].status = s
  BY <1>1 DEF Packages
<1>3. SetStatus(store, id, s) = [store EXCEPT ![id] = [store[id] EXCEPT !.status = s]]
  BY DEF SetStatus, Stores
<1>4. /\ SetStatus(store, id, s)[id] = [store[id] EXCEPT !.status = s]
      /\ \A j \in Ids : j # id => SetStatus(store, id, s)[j] = store[j]
      /\ SetStatus(store, id, s) \in Stores
  BY <1>2, <1>3 DEF Stores
<1>5. Exists(SetStatus(store, id, s), id)
  BY <1>2, <1>4, NotFoundAssumption DEF Exists
<1> QED BY <1>2, <1>4, <1>5 DEF Exists

\* A counted download changes the counter of one stored package only.
LEMMA DownloadEffect ==
    ASSUME NEW store \in Stores, NEW id \in Ids, Exists(store, id)
    PROVE  /\ IncrementDownloads(store, id) \in Stores
           /\ \A j \in Ids : Exists(IncrementDownloads(store, id), j) <=> Exists(store, j)
           /\ \A j \in Ids :
                Exists(store, j) =>
                    /\ IncrementDownloads(store, id)[j].upload = store[j].upload
                    /\ IncrementDownloads(store, id)[j].status = store[j].status
           /\ IncrementDownloads(store, id)[id].downloads = store[id].downloads + 1
           /\ \A j \in Ids : j # id => IncrementDownloads(store, id)[j] = store[j]
<1> DEFINE n == store[id].downloads + 1
           p == [store[id] EXCEPT !.downloads = n]
<1>1. store[id] \in Packages /\ n \in Nat
  BY PackageFields DEF Exists, Stores
<1>2. /\ p \in Packages
      /\ p.upload = store[id].upload
      /\ p.status = store[id].status
      /\ p.downloads = n
  <2> HIDE DEF n
  <2> QED BY <1>1 DEF Packages
<1>3. IncrementDownloads(store, id) = [store EXCEPT ![id] = p]
  BY DEF IncrementDownloads, Stores
<1> HIDE DEF p
<1>4. /\ IncrementDownloads(store, id)[id] = p
      /\ \A j \in Ids : j # id => IncrementDownloads(store, id)[j] = store[j]
      /\ IncrementDownloads(store, id) \in Stores
  BY <1>2, <1>3 DEF Stores
<1>5. Exists(IncrementDownloads(store, id), id)
  BY <1>2, <1>4, NotFoundAssumption DEF Exists
<1> QED BY <1>2, <1>4, <1>5 DEF Exists

-----------------------------------------------------------------------------
(***************************************************************************)
(* Type correctness.                                                       *)
(***************************************************************************)

\* What the request of a busy worker looks like.
LEMMA ServedRequest ==
    ASSUME TypeOK, NEW w \in Workers, pc[w] # "idle"
    PROVE  /\ req[w] \in Requests
           /\ req[w].kind \in {"proxy", "official"}
           /\ req[w].key \in Keys \cup {Token}
           /\ req[w].id \in Ids
           /\ req[w].id[1] \in Names
           /\ req[w].deps \subseteq Names
           /\ req[w].kind = "proxy" => pc[w] \in ProxyStages
           /\ req[w].kind = "official" => pc[w] \in OfficialStages
BY RequestFields DEF TypeOK

\* A reply leaves the worker's own variables well typed.
LEMMA ReplyType ==
    ASSUME TypeOK, NEW w \in Workers, Reply(w)
    PROVE  /\ pc' \in [Workers -> Stages]
           /\ req' \in [Workers -> Requests \cup {NoRequest}]
           /\ todo' \in [Workers -> SUBSET Names]
           /\ read' \in [Workers -> SUBSET KeyRecords]
           /\ astray' \subseteq Workers
           /\ \A v \in Workers : pc'[v] # "idle" =>
                /\ req'[v] \in Requests
                /\ pc'[v] \in IF req'[v].kind = "proxy" THEN ProxyStages ELSE OfficialStages
BY DEF TypeOK, Reply, Goto, Stages

\* A refused request leaves every variable well typed.
LEMMA RefuseType ==
    ASSUME TypeOK, NEW w \in Workers, Refuse(w)
    PROVE  TypeOK'
BY ReplyType DEF TypeOK, Refuse, external

\* So does every other step of a handler.
LEMMA HandlerType ==
    ASSUME TypeOK, NEW w \in Workers, HandlerStep(w)
    PROVE  TypeOK'
<1> USE DEF external, pointer
<1>1. CASE SkipGates(w)
  BY <1>1, ServedRequest, StageTable
     DEF SkipGates, Goto, TypeOK, Stages, ProxyStages, OfficialStages
<1>2. CASE GetByKey(w)
  <2>1. CASE Refuse(w)
    BY <2>1, RefuseType
  <2>2. CASE ~Refuse(w)
    <3>1. /\ pc' = [pc EXCEPT ![w] = "status"] /\ pc[w] # "idle"
          /\ read' = [read EXCEPT ![w] = {keys[req[w].key]}]
          /\ UNCHANGED <<data, keys, repos, releases, assets, req, todo, astray>>
      BY <1>2, <2>2, ServedRequest, StageTable DEF GetByKey, Advance, Goto
    <3>2. keys[req[w].key] \in KeyRecords
      BY <1>2, ServedRequest DEF GetByKey, TypeOK
    <3>3. read' \in [Workers -> SUBSET KeyRecords]
      BY <3>1, <3>2 DEF TypeOK
    <3> QED BY <3>1, <3>3 DEF TypeOK, Stages, ProxyStages, OfficialStages
  <2> QED BY <2>1, <2>2
<1>3. CASE ReadStatus(w) \/ ReadPermission(w)
  <2>1. CASE Refuse(w)
    BY <2>1, RefuseType
  <2>2. CASE ~Refuse(w)
    <3>1. /\ pc[w] \in {"status", "permission"} /\ Advance(w)
          /\ read' = read \/ read' = [read EXCEPT ![w] = {}]
          /\ UNCHANGED <<data, keys, repos, releases, assets, req, todo, astray>>
      BY <1>3, <2>2, Zenon DEF ReadStatus, ReadPermission
    <3>2. pc' = [pc EXCEPT ![w] = IF pc[w] = "status" THEN "permission"
                                  ELSE IF req[w].kind = "proxy" THEN "duplicate" ELSE "repo"]
      BY <3>1, ServedRequest, StageTable DEF Advance, Goto
    <3>3. read' \in [Workers -> SUBSET KeyRecords]
      BY <3>1 DEF TypeOK
    <3> QED BY <3>1, <3>2, <3>3 DEF TypeOK, Stages, ProxyStages, OfficialStages
  <2> QED BY <2>1, <2>2
<1>4. CASE CheckDuplicate(w)
  BY <1>4, ServedRequest, StageTable, RefuseType
     DEF CheckDuplicate, Advance, Goto, TypeOK, Stages, ProxyStages, OfficialStages
<1>5. CASE Validate(w)
  BY <1>5, ServedRequest, StageTable, RefuseType
     DEF Validate, Advance, Goto, TypeOK, Stages, ProxyStages, OfficialStages
<1>6. ASSUME NEW dep \in Names, CheckExists(w, dep) \/ CheckBuggy(w, dep)
      PROVE  TypeOK'
  BY <1>6, RefuseType DEF CheckExists, CheckBuggy, TypeOK
<1>7. CASE ExistLoopEnds(w)
  BY <1>7, ServedRequest, StageTable
     DEF ExistLoopEnds, Advance, Goto, TypeOK, Stages, ProxyStages, OfficialStages
<1>8. CASE BuggyLoopEnds(w)
  BY <1>8, ServedRequest, StageTable
     DEF BuggyLoopEnds, Advance, Goto, TypeOK, Stages, ProxyStages, OfficialStages
<1>9. CASE GitHubStep(w)
  <2>1. CASE CheckRepo(w)
    BY <2>1, RefuseType DEF CheckRepo, Goto, TypeOK, Stages, ProxyStages, OfficialStages
  <2>2. CASE CreateRepo(w)
    BY <2>2, ServedRequest, RefuseType, ReplyType
       DEF CreateRepo, Goto, TypeOK, Stages, ProxyStages, OfficialStages
  <2>3. CASE EnsureNotEmpty(w)
    BY <2>3, ServedRequest, StageTable, RefuseType
       DEF EnsureNotEmpty, Advance, Goto, TypeOK, Stages, ProxyStages, OfficialStages
  <2>4. CASE CreateRelease(w)
    BY <2>4, ServedRequest, StageTable, RefuseType, ReplyType
       DEF CreateRelease, Advance, Goto, TypeOK, Stages, ProxyStages, OfficialStages
  <2>5. CASE UploadAsset(w)
    BY <2>5, ServedRequest, StageTable, RefuseType, ReplyType
       DEF UploadAsset, Advance, Goto, TypeOK, Stages, ProxyStages, OfficialStages
  <2> QED BY <1>9, <2>1, <2>2, <2>3, <2>4, <2>5 DEF GitHubStep
<1>10. CASE StorePut(w)
  BY <1>10, ServedRequest, ReplyType, PutEffect, UploadsAssumption DEF StorePut, TypeOK
<1> QED
  BY <1>1, <1>2, <1>3, <1>4, <1>5, <1>6, <1>7, <1>8, <1>9, <1>10 DEF HandlerStep

\* What an owner does to a key is one of two things: the record under its
\* pointer changes, or the pointer.
LEMMA OwnerMoves ==
    ASSUME TypeOK, NEW k \in Keys, OwnerStep(k)
    PROVE  \E record \in KeyRecords : ChangeRecord(k, record) \/ MovePointer(k, record)
BY DEF OwnerStep, LinkKey, RelinkKey, ShiftRecord, UnlinkKey, SetKeyStatus,
       SetPublishPermission, KeyRecords, Unlinked, TypeOK

\* No step of Publish breaks its types.
LEMMA StepType == TypeOK /\ [Next]_vars => TypeOK'
<1> SUFFICES ASSUME TypeOK, [Next]_vars PROVE TypeOK'
  OBVIOUS
<1> USE DEF external, pointer, local
<1>1. ASSUME NEW w \in Workers, HandlerStep(w)
      PROVE  TypeOK'
  BY <1>1, HandlerType
<1>2. ASSUME NEW w \in Workers, NEW r \in Requests, Receive(w, r)
      PROVE  TypeOK'
  BY <1>2, RequestFields, StageTable
     DEF Receive, Goto, TypeOK, Stages, ProxyStages, OfficialStages
<1>3. ASSUME NEW k \in Keys, OwnerStep(k)
      PROVE  TypeOK'
  <2>1. PICK record \in KeyRecords : ChangeRecord(k, record) \/ MovePointer(k, record)
    BY <1>3, OwnerMoves
  <2>2. CASE ChangeRecord(k, record)
    <3>1. read' \in [Workers -> SUBSET KeyRecords]
      BY <2>2 DEF ChangeRecord, TypeOK
    <3> QED BY <2>2, <3>1 DEF ChangeRecord, TypeOK
  <2>3. CASE MovePointer(k, record)
    <3>1. read' \in [Workers -> SUBSET KeyRecords] /\ astray' \subseteq Workers
      BY <2>3 DEF MovePointer, TypeOK
    <3> QED BY <2>3, <3>1 DEF MovePointer, TypeOK
  <2> QED BY <2>1, <2>2, <2>3
<1>4. ASSUME NEW id \in Ids, CatalogStep(id)
      PROVE  TypeOK'
  BY <1>4, SetStatusEffect, DownloadEffect DEF CatalogStep, PatchStatus, Download, TypeOK
<1>5. CASE UNCHANGED vars
  BY <1>5 DEF vars, TypeOK
<1> QED BY <1>1, <1>2, <1>3, <1>4, <1>5 DEF Next

\* The initial state is well typed.
LEMMA InitType == Init => TypeOK
BY NotFoundAssumption DEF Init, TypeOK, Stores, EmptyStore, KeyRecords, Unlinked, Stages

\* The publish path keeps its variables well typed, and every request in the
\* steps of its own handler.
THEOREM TypeCorrect == HSpec => []HTypeOK
<1>1. HInit => HTypeOK
  BY InitType DEF HInit, HTypeOK
<1>2. HTypeOK /\ [HNext]_allVars => HTypeOK'
  <2> SUFFICES ASSUME HTypeOK, [HNext]_allVars PROVE HTypeOK'
    OBVIOUS
  <2>1. TypeOK'
    BY StepType DEF HTypeOK, HNext, allVars
  <2>2. CASE Remember
    BY <2>1, <2>2 DEF HTypeOK, Remember, ClosedGates, BuggyNames
  <2>3. CASE UNCHANGED allVars
    BY <2>1, <2>3 DEF HTypeOK, allVars, history
  <2> QED BY <2>2, <2>3 DEF HNext
<1> QED BY <1>1, <1>2, PTL DEF HSpec

-----------------------------------------------------------------------------
(***************************************************************************)
(* What one step does, in the terms of the invariant.                      *)
(***************************************************************************)
Others(w) ==
    \A v \in Workers \ {w} :
        /\ pc'[v] = pc[v] /\ req'[v] = req[v] /\ todo'[v] = todo[v]
        /\ read'[v] = read[v] /\ (v \in astray' <=> v \in astray)

\* A reply idles its worker and forgets nothing of the others.
LEMMA ReplyEffect ==
    ASSUME TypeOK, NEW w \in Workers, Reply(w)
    PROVE  Others(w) /\ pc'[w] = "idle"
BY DEF TypeOK, Reply, Goto, Others

\* The steps after which the worker is still busy with the same request.
Stays(w) ==
    /\ req' = req /\ data' = data /\ keys' = keys /\ astray' = astray
    /\ pc'[w] # "idle"
    /\ Others(w)

Unpublished == releases' = releases /\ assets' = assets

GateMove(w) ==
    /\ pc[w] = "gate" /\ Unpublished /\ todo' = todo
    /\ \/ /\ req[w].key = Token
          /\ pc'[w] = IF req[w].kind = "proxy" THEN "duplicate" ELSE "repo"
       \/ /\ req[w].key # Token
          /\ pc'[w] = "status"
          /\ keys[req[w].key].claimed
          /\ read'[w] = {keys[req[w].key]}

StatusMove(w) ==
    /\ pc[w] = "status" /\ Unpublished /\ todo' = todo
    /\ pc'[w] = "permission" /\ read' = read
    /\ \E record \in Pointee(w) : record.status # "revoked"

PermissionMove(w) ==
    /\ pc[w] = "permission" /\ Unpublished /\ todo' = todo
    /\ pc'[w] = IF req[w].kind = "proxy" THEN "duplicate" ELSE "repo"
    /\ \E record \in Pointee(w) : record.permission

CheckMove(w) ==
    /\ Unpublished
    /\ \/ pc[w] = "duplicate" /\ pc'[w] = "validate" /\ ~Exists(data, req[w].id)
       \/ /\ pc[w] = "validate" /\ req[w].kind = "proxy"
          /\ pc'[w] = "exist" /\ todo'[w] = req[w].deps
       \/ pc[w] = "validate" /\ req[w].kind = "official" /\ pc'[w] = "gate"

LoopMove(w) ==
    /\ Unpublished /\ req[w].kind = "proxy"
    /\ \/ /\ pc[w] = "exist" /\ pc'[w] = "exist"
          /\ \E dep \in Names : Versions(data, dep) # {} /\ todo'[w] = todo[w] \ {dep}
       \/ /\ pc[w] = "exist" /\ todo[w] = {}
          /\ pc'[w] = "buggy" /\ todo'[w] = req[w].deps
       \/ /\ pc[w] = "buggy" /\ pc'[w] = "buggy"
          /\ \E dep \in Names : BuggyVersions(data, dep) = {} /\ todo'[w] = todo[w] \ {dep}
       \/ pc[w] = "buggy" /\ todo[w] = {} /\ pc'[w] = "put"

GitHubMove(w) ==
    /\ req[w].kind = "official"
    /\ \/ pc[w] \in {"repo", "createRepo", "branch"}
          /\ pc'[w] \in {"createRepo", "branch", "release"} /\ Unpublished
       \/ /\ pc[w] = "release" /\ pc'[w] = "upload"
          /\ req[w].id \notin releases
          /\ releases' = releases \cup {req[w].id} /\ assets' = assets
       \/ /\ pc[w] = "upload" /\ pc'[w] = "put"
          /\ releases' = releases /\ assets' = assets \cup {req[w].id}

BusyMove(w) ==
    /\ Stays(w)
    /\ \/ GateMove(w) \/ StatusMove(w) \/ PermissionMove(w)
       \/ CheckMove(w) \/ LoopMove(w) \/ GitHubMove(w)

\* The steps that end the request.
EndMove(w) ==
    /\ Others(w) /\ pc'[w] = "idle" /\ keys' = keys
    /\ releases \subseteq releases' /\ assets \subseteq assets'
    /\ \/ data' = data
       \/ /\ pc[w] = "put"
          /\ data' = Put(data, req[w].id, NewPackage(req[w]))
          /\ Unpublished

\* Refusing is replying with the shared state unchanged.
LEMMA RefuseEffect ==
    ASSUME TypeOK, NEW w \in Workers, Refuse(w)
    PROVE  EndMove(w)
BY ReplyEffect DEF Refuse, EndMove, external

\* What a handler step does: whose stage changes, to which stage, and what
\* has been found true at that moment.
LEMMA HandlerMoves ==
    ASSUME TypeOK, NEW w \in Workers, HandlerStep(w)
    PROVE  pc[w] # "idle" /\ (BusyMove(w) \/ EndMove(w))
<1> USE DEF external, pointer, TypeOK
<1>1. CASE SkipGates(w)
  BY <1>1, ServedRequest, StageTable
     DEF SkipGates, Goto, BusyMove, Stays, GateMove, Unpublished, Others
<1>2. CASE GetByKey(w)
  <2>1. CASE Refuse(w)
    BY <1>2, <2>1, RefuseEffect DEF GetByKey
  <2>2. CASE ~Refuse(w)
    <3>1. pc' = [pc EXCEPT ![w] = "status"]
      BY <1>2, <2>2, ServedRequest, StageTable DEF GetByKey, Advance, Goto
    <3>2. read' = [read EXCEPT ![w] = {keys[req[w].key]}]
      BY <1>2, <2>2 DEF GetByKey
    <3> QED
      BY <1>2, <2>2, <3>1, <3>2
         DEF GetByKey, BusyMove, Stays, GateMove, Unpublished, Others
  <2> QED BY <2>1, <2>2
<1>3. CASE ReadStatus(w)
  <2>1. /\ pc[w] = "status"
        /\ \/ Refuse(w)
           \/ /\ \E record \in Pointee(w) : record.status # "revoked"
              /\ Advance(w)
              /\ UNCHANGED <<data, keys, external, req, todo, pointer>>
    BY <1>3, Zenon DEF ReadStatus
  <2>2. CASE Refuse(w)
    BY <2>1, <2>2, RefuseEffect
  <2>3. CASE ~Refuse(w)
    <3>1. pc' = [pc EXCEPT ![w] = "permission"]
      BY <2>1, <2>3, ServedRequest, StageTable DEF Advance, Goto
    <3>2. Stays(w) /\ Unpublished /\ todo' = todo /\ read' = read
      BY <2>1, <2>3, <3>1 DEF Stays, Unpublished, Others
    <3>3. StatusMove(w)
      BY <2>1, <2>3, <3>1, <3>2 DEF StatusMove
    <3> QED BY <2>1, <3>2, <3>3 DEF BusyMove
  <2> QED BY <2>2, <2>3
<1>4. CASE CheckDuplicate(w)
  BY <1>4, ServedRequest, StageTable, RefuseEffect
     DEF CheckDuplicate, Advance, Goto, BusyMove, Stays, CheckMove, Unpublished, Others
<1>5. CASE Validate(w)
  BY <1>5, ServedRequest, StageTable, RefuseEffect
     DEF Validate, Advance, Goto, BusyMove, Stays, CheckMove, Unpublished, Others
<1>6. ASSUME NEW dep \in Names, CheckExists(w, dep)
      PROVE  pc[w] # "idle" /\ (BusyMove(w) \/ EndMove(w))
  BY <1>6, ServedRequest, RefuseEffect
     DEF CheckExists, BusyMove, Stays, LoopMove, Unpublished, Others, OfficialStages
<1>7. ASSUME NEW dep \in Names, CheckBuggy(w, dep)
      PROVE  pc[w] # "idle" /\ (BusyMove(w) \/ EndMove(w))
  BY <1>7, ServedRequest, RefuseEffect
     DEF CheckBuggy, BusyMove, Stays, LoopMove, Unpublished, Others, OfficialStages
<1>8. CASE ExistLoopEnds(w) \/ BuggyLoopEnds(w)
  BY <1>8, ServedRequest, StageTable
     DEF ExistLoopEnds, BuggyLoopEnds, Advance, Goto, BusyMove, Stays, LoopMove,
         Unpublished, Others, OfficialStages
<1>9. CASE GitHubStep(w)
  <2> USE DEF ProxyStages
  <2>1. CASE CheckRepo(w)
    BY <2>1, ServedRequest, RefuseEffect
       DEF CheckRepo, Goto, BusyMove, Stays, GitHubMove, Unpublished, Others
  <2>2. CASE CreateRepo(w)
    BY <2>2, ServedRequest, RefuseEffect, ReplyEffect
       DEF CreateRepo, Goto, BusyMove, Stays, GitHubMove, EndMove, Unpublished, Others
  <2>3. CASE EnsureNotEmpty(w)
    BY <2>3, ServedRequest, StageTable, RefuseEffect
       DEF EnsureNotEmpty, Advance, Goto, BusyMove, Stays, GitHubMove, Unpublished, Others
  <2>4. CASE CreateRelease(w)
    BY <2>4, ServedRequest, StageTable, RefuseEffect, ReplyEffect
       DEF CreateRelease, Advance, Goto, BusyMove, Stays, GitHubMove, EndMove,
           Unpublished, Others
  <2>5. CASE UploadAsset(w)
    BY <2>5, ServedRequest, StageTable, RefuseEffect, ReplyEffect
       DEF UploadAsset, Advance, Goto, BusyMove, Stays, GitHubMove, EndMove,
           Unpublished, Others
  <2> QED BY <1>9, <2>1, <2>2, <2>3, <2>4, <2>5 DEF GitHubStep
<1>10. CASE StorePut(w)
  BY <1>10, ReplyEffect DEF StorePut, EndMove, Unpublished
<1>11. CASE ReadPermission(w)
  <2>1. /\ pc[w] = "permission"
        /\ \/ Refuse(w)
           \/ /\ \E record \in Pointee(w) : record.permission
              /\ Advance(w)
              /\ read' = [read EXCEPT ![w] = {}]
              /\ UNCHANGED <<data, keys, external, req, todo, astray>>
    BY <1>11, Zenon DEF ReadPermission
  <2>2. CASE Refuse(w)
    BY <2>1, <2>2, RefuseEffect
  <2>3. CASE ~Refuse(w)
    <3>1. pc' = [pc EXCEPT ![w] = IF req[w].kind = "proxy" THEN "duplicate" ELSE "repo"]
      BY <2>1, <2>3, ServedRequest, StageTable DEF Advance, Goto
    <3>2. Stays(w) /\ Unpublished /\ todo' = todo
      BY <2>1, <2>3, <3>1 DEF Stays, Unpublished, Others
    <3>3. PermissionMove(w)
      BY <2>1, <2>3, <3>1, <3>2 DEF PermissionMove
    <3> QED BY <2>1, <3>2, <3>3 DEF BusyMove
  <2> QED BY <2>2, <2>3
<1> QED
  BY <1>1, <1>2, <1>3, <1>4, <1>5, <1>6, <1>7, <1>8, <1>9, <1>10, <1>11 DEF HandlerStep

\* A step leaves every package in place, and only a request that comes to
\* store its package adds or overwrites one.
LEMMA StoreGrows ==
    ASSUME TypeOK, [Next]_vars
    PROVE  /\ \A id \in Ids : Exists(data, id) => Exists(data', id)
           /\ \A n \in Names : Versions(data, n) # {} => Versions(data', n) # {}
           /\ releases \subseteq releases' /\ assets \subseteq assets'
<1>1. ASSUME NEW w \in Workers, HandlerStep(w)
      PROVE  /\ \A id \in Ids : Exists(data, id) => Exists(data', id)
             /\ releases \subseteq releases' /\ assets \subseteq assets'
  <2>1. CASE BusyMove(w)
    BY <2>1 DEF BusyMove, Stays, GateMove, StatusMove, PermissionMove, CheckMove, LoopMove, GitHubMove,
                Unpublished
  <2>2. CASE EndMove(w)
    <3>1. pc[w] # "idle"
      BY <1>1, HandlerMoves
    <3>2. CASE data' = data
      BY <2>2, <3>2 DEF EndMove
    <3>3. CASE data' = Put(data, req[w].id, NewPackage(req[w]))
      <4>1. /\ Exists(data', req[w].id)
            /\ \A j \in Ids : j # req[w].id => data'[j] = data[j]
        <5>1. data \in Stores
          BY DEF TypeOK
        <5>2. req[w].id \in Ids /\ req[w] \in Uploads
          BY <3>1, ServedRequest, UploadsAssumption
        <5> QED BY <3>3, <5>1, <5>2, PutEffect
      <4> QED BY <2>2, <4>1 DEF EndMove, Exists
    <3> QED BY <2>2, <3>2, <3>3 DEF EndMove
  <2> QED BY <1>1, <2>1, <2>2, HandlerMoves
<1>2. ASSUME NEW w \in Workers, NEW r \in Requests, Receive(w, r)
      PROVE  UNCHANGED <<data, releases, assets>>
  BY <1>2 DEF Receive, external
<1>3. ASSUME NEW k \in Keys, OwnerStep(k)
      PROVE  UNCHANGED <<data, releases, assets>>
  BY <1>3 DEF OwnerStep, LinkKey, RelinkKey, ShiftRecord, UnlinkKey, SetKeyStatus,
              SetPublishPermission, ChangeRecord, MovePointer, external
<1>4. ASSUME NEW id \in Ids, CatalogStep(id)
      PROVE  /\ \A j \in Ids : Exists(data, j) => Exists(data', j)
             /\ UNCHANGED <<releases, assets>>
  BY <1>4, SetStatusEffect, DownloadEffect
     DEF CatalogStep, PatchStatus, Download, external, TypeOK
<1>5. CASE UNCHANGED vars
  BY <1>5 DEF vars, external
<1>6. /\ \A id \in Ids : Exists(data, id) => Exists(data', id)
      /\ releases \subseteq releases' /\ assets \subseteq assets'
  BY <1>1, <1>2, <1>3, <1>4, <1>5 DEF Next
<1>7. \A n \in Names : Versions(data, n) # {} => Versions(data', n) # {}
  BY <1>6 DEF Versions
<1> QED BY <1>6, <1>7

\* A pointer that went astray stays so, and one that did not leads to what it
\* has led to before or to the record that ByKey leads to now.
PointerKept(v) ==
    /\ v \in astray => v \in astray'
    /\ v \notin astray' =>
         \A record \in read'[v] : record \in read[v] \/ record = keys'[req[v].key]

\* Every step is a handler's, the arrival of a request, or one that leaves the
\* publish requests alone.
LEMMA StepKinds ==
    ASSUME TypeOK, [Next]_vars
    PROVE  \/ \E w \in Workers : pc[w] # "idle" /\ (BusyMove(w) \/ EndMove(w))
           \/ \E w \in Workers : \E r \in Requests : Receive(w, r)
           \/ UNCHANGED <<pc, req, todo, releases, assets>> /\ \A v \in Workers : PointerKept(v)
<1>1. ASSUME NEW w \in Workers, HandlerStep(w)
      PROVE  pc[w] # "idle" /\ (BusyMove(w) \/ EndMove(w))
  BY <1>1, HandlerMoves
<1>2. ASSUME NEW k \in Keys, OwnerStep(k)
      PROVE  UNCHANGED <<pc, req, todo, releases, assets>> /\ \A v \in Workers : PointerKept(v)
  <2>1. PICK record \in KeyRecords : ChangeRecord(k, record) \/ MovePointer(k, record)
    BY <1>2, OwnerMoves
  <2>2. UNCHANGED <<pc, req, todo, releases, assets>>
    BY <2>1 DEF ChangeRecord, MovePointer, external
  <2>3. ASSUME NEW v \in Workers
        PROVE  PointerKept(v)
    <3>1. CASE ChangeRecord(k, record) /\ Holds(v, k) /\ v \notin astray
      <4>1. read'[v] = read[v] \cup {record} /\ astray' = astray
        BY <3>1 DEF ChangeRecord
      <4>2. keys'[req[v].key] = record
        BY <3>1 DEF ChangeRecord, Holds, TypeOK
      <4> QED BY <4>1, <4>2 DEF PointerKept
    <3>2. CASE MovePointer(k, record) /\ Holds(v, k)
      <4>1. v \in astray'
        BY <3>2 DEF MovePointer
      <4> QED BY <4>1 DEF PointerKept
    <3>3. CASE /\ ~(ChangeRecord(k, record) /\ Holds(v, k) /\ v \notin astray)
               /\ ~(MovePointer(k, record) /\ Holds(v, k))
      <4>1. read'[v] = read[v] /\ (v \in astray => v \in astray')
        BY <2>1, <3>3 DEF ChangeRecord, MovePointer
      <4> QED BY <4>1 DEF PointerKept
    <3> QED BY <3>1, <3>2, <3>3
  <2> QED BY <2>2, <2>3
<1>3. ASSUME NEW id \in Ids, CatalogStep(id)
      PROVE  UNCHANGED <<pc, req, todo, read, astray, releases, assets>>
  BY <1>3 DEF CatalogStep, PatchStatus, Download, external, pointer, local
<1>4. ASSUME UNCHANGED vars
      PROVE  UNCHANGED <<pc, req, todo, read, astray, releases, assets>>
  BY <1>4 DEF vars, external, pointer, local
<1>5. ASSUME read' = read, astray' = astray, NEW v \in Workers
      PROVE  PointerKept(v)
  BY <1>5 DEF PointerKept
<1> QED BY <1>1, <1>2, <1>3, <1>4, <1>5 DEF Next

\* A request that is being served after a step was served before it, unless
\* it has just arrived, and it is still the same request.
LEMMA ServedBefore ==
    ASSUME TypeOK, [Next]_vars, NEW v \in Workers, pc'[v] # "idle", req'[v] \in Requests
    PROVE  \/ /\ pc[v] # "idle" /\ req'[v] = req[v]
              /\ BusyMove(v) \/ (pc'[v] = pc[v] /\ todo'[v] = todo[v] /\ PointerKept(v))
           \/ /\ pc[v] = "idle"
              /\ pc'[v] = IF req'[v].kind = "proxy" THEN "gate" ELSE "duplicate"
<1>1. ASSUME NEW w \in Workers, pc[w] # "idle", BusyMove(w) \/ EndMove(w), v # w
      PROVE  /\ pc'[v] = pc[v] /\ req'[v] = req[v] /\ todo'[v] = todo[v]
             /\ read'[v] = read[v] /\ (v \in astray => v \in astray')
  BY <1>1 DEF BusyMove, Stays, EndMove, Others
<1>2. ASSUME pc[v] # "idle", BusyMove(v) \/ EndMove(v)
      PROVE  BusyMove(v) /\ req'[v] = req[v]
  BY <1>2 DEF EndMove, BusyMove, Stays
<1>3. ASSUME NEW w \in Workers, NEW r \in Requests, Receive(w, r), v # w
      PROVE  /\ pc'[v] = pc[v] /\ req'[v] = req[v] /\ todo'[v] = todo[v]
             /\ read'[v] = read[v] /\ (v \in astray => v \in astray')
  BY <1>3 DEF Receive, Goto, TypeOK, pointer
<1>4. ASSUME NEW r \in Requests, Receive(v, r)
      PROVE  /\ pc[v] = "idle" /\ req'[v] = r
             /\ pc'[v] = IF r.kind = "proxy" THEN "gate" ELSE "duplicate"
  BY <1>4, RequestFields, StageTable DEF Receive, Goto, TypeOK
<1>5. pc[v] = "idle" /\ pc'[v] = pc[v] => FALSE
  OBVIOUS
<1>6. read'[v] = read[v] /\ (v \in astray => v \in astray') => PointerKept(v)
  BY DEF PointerKept
<1> QED BY <1>1, <1>2, <1>3, <1>4, <1>5, <1>6, StepKinds

-----------------------------------------------------------------------------
(***************************************************************************)
(* Each part of the invariant is kept by every step.                       *)
(***************************************************************************)
\* A step that makes a version appear makes rivals of those who found it
\* missing.
LEMMA RaceStep ==
    ASSUME HTypeOK, RaceInv, HNext
    PROVE  RaceInv'
<1> SUFFICES ASSUME NEW v \in Workers, pc'[v] # "idle", PastDuplicate(v)',
                    Exists(data', req'[v].id)
             PROVE  v \in rivals'[req'[v].id]
  BY DEF RaceInv, Busy
<1> DEFINE id == req'[v].id
<1>1. TypeOK /\ [Next]_vars /\ TypeOK' /\ Remember
  BY StepType DEF HTypeOK, HNext
<1>2. req'[v] \in Requests /\ id \in Ids /\ req'[v].kind \in {"proxy", "official"}
  BY <1>1, RequestFields DEF TypeOK
<1>3. /\ pc[v] # "idle" /\ req'[v] = req[v]
      /\ BusyMove(v) \/ pc'[v] = pc[v]
  BY <1>1, <1>2, ServedBefore DEF PastDuplicate, OfficialStages
<1>4. CASE ~Exists(data, id)
  BY <1>1, <1>2, <1>4 DEF Remember, Serving
<1>5. CASE Exists(data, id)
  <2>1. PastDuplicate(v)
    BY <1>1, <1>2, <1>3, <1>5
       DEF PastDuplicate, OfficialStages, BusyMove, GateMove, StatusMove, PermissionMove, CheckMove,
           LoopMove, GitHubMove
  <2>2. v \in rivals[id]
    BY <1>3, <1>5, <2>1 DEF RaceInv, Busy
  <2> QED BY <1>1, <1>2, <1>5, <2>2 DEF Remember
<1> QED BY <1>4, <1>5

\* Rivals stay requests of their version until they are answered.
LEMMA RivalsStep ==
    ASSUME HTypeOK, RivalsInv, HNext
    PROVE  RivalsInv'
<1> SUFFICES ASSUME NEW id \in Ids, NEW v \in rivals'[id]
             PROVE  Serving(v, id)'
  BY DEF RivalsInv
<1>1. TypeOK /\ [Next]_vars /\ TypeOK' /\ Remember
  BY StepType DEF HTypeOK, HNext
<1>2. CASE Exists(data, id)
  <2>1. v \in rivals[id] /\ pc'[v] # "idle" /\ v \in Workers
    BY <1>1, <1>2 DEF Remember, HTypeOK
  <2>2. req'[v] \in Requests
    BY <1>1, <2>1 DEF TypeOK
  <2>3. pc[v] # "idle" /\ req[v].id = id
    BY <2>1 DEF RivalsInv, Serving
  <2>4. req'[v] = req[v]
    BY <1>1, <2>1, <2>2, <2>3, ServedBefore
  <2> QED BY <2>1, <2>3, <2>4 DEF Serving
<1>3. CASE ~Exists(data, id)
  BY <1>1, <1>3 DEF Remember
<1> QED BY <1>2, <1>3

\* What the A5 and A6 loops have established survives every step, because
\* versions never disappear and flagged only shrinks.
LEMMA LoopStep ==
    ASSUME HTypeOK, LoopInv, HNext
    PROVE  LoopInv'
<1> SUFFICES ASSUME NEW v \in Workers, pc'[v] # "idle", req'[v].kind = "proxy",
                    NEW dep \in req'[v].deps
             PROVE  /\ PassedA5(v, dep)' => Versions(data', dep) # {}
                    /\ PassedA6(v, dep)' => dep \notin flagged'[v]
  BY DEF LoopInv, Busy
<1> USE DEF PassedA5, PassedA6
<1>1. TypeOK /\ [Next]_vars /\ TypeOK' /\ Remember
  BY StepType DEF HTypeOK, HNext
<1>2. req'[v] \in Requests /\ dep \in Names
  BY <1>1, RequestFields DEF TypeOK
<1>3. Versions(data, dep) # {} => Versions(data', dep) # {}
  BY <1>1, <1>2, StoreGrows
<1>4. CASE pc[v] = "idle"
  BY <1>1, <1>2, <1>4, ServedBefore
<1>5. CASE pc[v] # "idle" /\ req'[v] = req[v] /\ pc'[v] = pc[v] /\ todo'[v] = todo[v]
  BY <1>1, <1>3, <1>5 DEF LoopInv, Busy, Remember
<1>6. CASE pc[v] # "idle" /\ req'[v] = req[v] /\ BusyMove(v)
  <2>1. flagged'[v] = BuggyNames(data) \cap flagged[v]
    BY <1>1, <1>6 DEF Remember, BusyMove, Stays
  <2>2. BuggyVersions(data, dep) = {} => dep \notin flagged'[v]
    BY <2>1 DEF BuggyNames
  <2>3. CASE ~LoopMove(v)
    <3>1. pc'[v] \in {"status", "permission", "duplicate", "validate"} \/ (pc'[v] = "exist" /\ todo'[v] = req[v].deps)
      BY <1>6, <2>3 DEF BusyMove, GateMove, StatusMove, PermissionMove, CheckMove, GitHubMove
    <3> QED BY <1>6, <3>1
  <2>4. CASE LoopMove(v)
    <3>1. /\ PassedA5(v, dep) => Versions(data, dep) # {}
          /\ PassedA6(v, dep) => dep \notin flagged[v]
      BY <1>6 DEF LoopInv, Busy
    <3>2. CASE pc[v] = "exist" /\ pc'[v] = "exist"
      <4>1. PICK d \in Names : Versions(data, d) # {} /\ todo'[v] = todo[v] \ {d}
        BY <2>4, <3>2 DEF LoopMove
      <4>2. dep \notin todo'[v] => dep \notin todo[v] \/ dep = d
        BY <4>1
      <4> QED BY <1>3, <3>1, <3>2, <4>1, <4>2
    <3>3. CASE pc[v] = "buggy" /\ pc'[v] = "buggy"
      <4>1. PICK d \in Names : BuggyVersions(data, d) = {} /\ todo'[v] = todo[v] \ {d}
        BY <2>4, <3>3 DEF LoopMove
      <4>2. dep \notin todo'[v] => dep \notin todo[v] \/ dep = d
        BY <4>1
      <4>3. dep \notin flagged[v] => dep \notin flagged'[v]
        BY <2>1
      <4> QED BY <1>3, <2>2, <3>1, <3>3, <4>1, <4>2, <4>3
    <3>4. CASE pc[v] = "exist" /\ pc'[v] = "buggy"
      <4>1. todo[v] = {} /\ todo'[v] = req[v].deps
        BY <2>4, <3>4 DEF LoopMove
      <4> QED BY <1>3, <1>6, <3>1, <3>4, <4>1
    <3>5. CASE pc[v] = "buggy" /\ pc'[v] = "put"
      <4>1. todo[v] = {}
        BY <2>4, <3>5 DEF LoopMove
      <4>2. dep \notin flagged[v] => dep \notin flagged'[v]
        BY <2>1
      <4> QED BY <1>3, <3>1, <3>5, <4>1, <4>2
    <3> QED BY <2>4, <3>2, <3>3, <3>4, <3>5 DEF LoopMove
  <2> QED BY <2>3, <2>4
<1> QED BY <1>1, <1>2, <1>4, <1>5, <1>6, ServedBefore

\* The part of GateInv about the two gates behind the pointer.
GatesSeen(v) ==
    /\ pc[v] # "status" => "KEY_REVOKED" \notin closed[v]
    /\ ~ReadsPointer(v) => closed[v] = {}
    /\ ReadsPointer(v) =>
         \A record \in read[v] : closed[v] \subseteq ClosedGates(record)

\* An open gate seen by a request leaves the set of the gates closed since
\* it began.
LEMMA GateStep ==
    ASSUME HTypeOK, GateInv, HNext
    PROVE  GateInv'
<1> SUFFICES ASSUME NEW v \in Workers, pc'[v] # "idle"
             PROVE  /\ req'[v].key = Token => closed'[v] = {}
                    /\ ReadsPointer(v)' => req'[v].key # Token
                    /\ PastGate(v)' => "KEY_NOT_CLAIMED" \notin closed'[v]
                    /\ PastGate(v)' /\ v \notin astray' => GatesSeen(v)'
  BY DEF GateInv, Busy, GatesSeen
<1>1. TypeOK /\ [Next]_vars /\ TypeOK' /\ Remember
  BY StepType DEF HTypeOK, HNext
<1>2. req'[v] \in Requests /\ req'[v].kind \in {"proxy", "official"}
  BY <1>1, RequestFields DEF TypeOK
<1>3. req'[v].key = Token => closed'[v] = {}
  BY <1>1 DEF Remember
<1>4. CASE pc[v] = "idle"
  <2>1. pc'[v] = IF req'[v].kind = "proxy" THEN "gate" ELSE "duplicate"
    BY <1>1, <1>2, <1>4, ServedBefore
  <2> QED BY <1>2, <1>3, <2>1 DEF PastGate, ReadsPointer, ProxyStages, OfficialStages
<1>5. ASSUME pc[v] # "idle" PROVE closed'[v] \subseteq closed[v]
  BY <1>1, <1>5 DEF Remember, HTypeOK
<1>6. ASSUME pc[v] # "idle"
      PROVE  /\ ReadsPointer(v) => req[v].key # Token
             /\ PastGate(v) => "KEY_NOT_CLAIMED" \notin closed[v]
             /\ PastGate(v) /\ v \notin astray => GatesSeen(v)
  BY <1>6 DEF GateInv, Busy, GatesSeen
<1>7. ASSUME pc[v] # "idle", req'[v] = req[v], req[v].key # Token
      PROVE  closed'[v] \subseteq ClosedGates(keys'[req[v].key])
  BY <1>1, <1>7 DEF Remember
<1>8. CASE pc[v] # "idle" /\ req'[v] = req[v] /\ pc'[v] = pc[v] /\ PointerKept(v)
  <2>1. (ReadsPointer(v)' <=> ReadsPointer(v)) /\ (PastGate(v)' <=> PastGate(v))
    BY <1>8 DEF ReadsPointer, PastGate
  <2>2. ASSUME PastGate(v), v \notin astray' PROVE GatesSeen(v)'
    <3>1. GatesSeen(v)
      BY <1>6, <1>8, <2>2 DEF PointerKept
    <3>2. ASSUME ReadsPointer(v), NEW record \in read'[v]
          PROVE  closed'[v] \subseteq ClosedGates(record)
      <4>1. CASE record \in read[v]
        BY <1>5, <1>8, <3>1, <3>2, <4>1 DEF GatesSeen
      <4>2. CASE record = keys'[req[v].key]
        BY <1>6, <1>7, <1>8, <3>2, <4>2
      <4> QED BY <1>8, <2>2, <3>2, <4>1, <4>2 DEF PointerKept
    <3> QED BY <1>5, <1>8, <2>1, <3>1, <3>2 DEF GatesSeen
  <2> QED BY <1>3, <1>5, <1>6, <1>8, <2>1, <2>2
<1>9. CASE pc[v] # "idle" /\ req'[v] = req[v] /\ BusyMove(v)
  <2>1. Stays(v) /\ closed'[v] \subseteq closed[v] /\ astray' = astray /\ keys' = keys
    BY <1>5, <1>9 DEF BusyMove, Stays
  <2>2. CASE GateMove(v)
    <3>1. CASE req[v].key = Token
      <4>1. closed'[v] = {} /\ pc'[v] \in {"duplicate", "repo"}
        BY <1>3, <1>9, <2>2, <3>1 DEF GateMove
      <4> QED BY <4>1 DEF ReadsPointer, GatesSeen
    <3>2. CASE req[v].key # Token
      <4>1. PICK record : record = keys[req[v].key]
        OBVIOUS
      <4>2. record.claimed /\ read'[v] = {record} /\ pc'[v] = "status"
        BY <2>2, <3>2, <4>1 DEF GateMove
      <4>3. closed'[v] \subseteq ClosedGates(record)
        BY <1>7, <1>9, <2>1, <3>2, <4>1
      <4>4. "KEY_NOT_CLAIMED" \notin closed'[v]
        BY <4>2, <4>3 DEF ClosedGates
      <4>5. GatesSeen(v)'
        BY <4>2, <4>3 DEF GatesSeen, ReadsPointer
      <4> QED BY <1>3, <1>9, <3>2, <4>4, <4>5
    <3> QED BY <3>1, <3>2
  <2>3. CASE StatusMove(v) \/ PermissionMove(v)
    <3>1. ReadsPointer(v) /\ PastGate(v) /\ req[v].key # Token
      BY <1>2, <1>6, <1>9, <2>3
         DEF StatusMove, PermissionMove, ReadsPointer, PastGate, ProxyStages, OfficialStages
    <3>2. "KEY_NOT_CLAIMED" \notin closed'[v]
      BY <1>6, <1>9, <2>1, <3>1
    <3>3. ASSUME v \notin astray PROVE GatesSeen(v)'
      <4>1. GatesSeen(v) /\ Pointee(v) = read[v]
        BY <1>6, <1>9, <3>1, <3>3 DEF Pointee
      <4>2. CASE StatusMove(v)
        <5>1. PICK record \in read[v] : record.status # "revoked"
          BY <4>1, <4>2 DEF StatusMove
        <5>2. "KEY_REVOKED" \notin ClosedGates(record)
          BY <5>1 DEF ClosedGates
        <5>3. closed[v] \subseteq ClosedGates(record)
          BY <3>1, <4>1 DEF GatesSeen
        <5>4. pc'[v] = "permission" /\ read'[v] = read[v]
          BY <4>2 DEF StatusMove
        <5> QED BY <2>1, <3>1, <4>1, <5>2, <5>3, <5>4 DEF GatesSeen, ReadsPointer
      <4>3. CASE PermissionMove(v)
        <5>1. PICK record \in read[v] : record.permission
          BY <4>1, <4>3 DEF PermissionMove
        <5>2. "PUBLISH_NOT_AUTHORIZED" \notin ClosedGates(record)
          BY <5>1, Zenon DEF ClosedGates
        <5>3. closed[v] \subseteq ClosedGates(record)
          BY <3>1, <4>1 DEF GatesSeen
        <5>4. "KEY_REVOKED" \notin closed[v]
          BY <4>1, <4>3 DEF PermissionMove, GatesSeen
        <5>5. closed'[v] \subseteq Gates
          BY <2>1, <5>3 DEF ClosedGates
        <5>6. closed'[v] = {}
          BY <2>1, <3>2, <5>2, <5>3, <5>4, <5>5 DEF Gates
        <5>7. pc'[v] \in {"duplicate", "repo"}
          BY <4>3 DEF PermissionMove
        <5> QED BY <5>6, <5>7 DEF GatesSeen, ReadsPointer
      <4> QED BY <2>3, <4>2, <4>3
    <3> QED BY <1>3, <1>9, <2>1, <3>1, <3>2, <3>3
  <2>4. CASE CheckMove(v) \/ LoopMove(v) \/ GitHubMove(v)
    <3>1. /\ ~ReadsPointer(v)' /\ pc'[v] # "status"
          /\ PastGate(v)' => PastGate(v) /\ ~ReadsPointer(v)
      BY <1>2, <1>9, <2>4
         DEF CheckMove, LoopMove, GitHubMove, PastGate, ReadsPointer, ProxyStages, OfficialStages
    <3>2. PastGate(v)' /\ v \notin astray => closed'[v] = {}
      BY <1>6, <1>9, <2>1, <3>1 DEF GatesSeen
    <3> QED BY <1>3, <1>6, <1>9, <2>1, <3>1, <3>2 DEF GatesSeen
  <2> QED BY <1>9, <2>2, <2>3, <2>4 DEF BusyMove
<1> QED BY <1>1, <1>2, <1>4, <1>8, <1>9, ServedBefore

\* A package's content comes with the step of the request that stores it.
LEMMA ContentOrigin ==
    ASSUME TypeOK, [Next]_vars, NEW id \in Ids, Exists(data', id)
    PROVE  \/ Exists(data, id) /\ data'[id].upload = data[id].upload
           \/ \E w \in Workers :
                /\ pc[w] = "put" /\ req[w].id = id /\ data'[id].upload = req[w]
                /\ req[w] \in Requests /\ EndMove(w)
<1>1. ASSUME NEW w \in Workers, HandlerStep(w), data' # data
      PROVE  /\ pc[w] = "put" /\ EndMove(w) /\ req[w] \in Requests
             /\ data'[req[w].id].upload = req[w]
             /\ \A j \in Ids : j # req[w].id => data'[j] = data[j]
  <2>1. pc[w] # "idle" /\ EndMove(w)
    BY <1>1, HandlerMoves DEF BusyMove, Stays
  <2>2. pc[w] = "put" /\ data' = Put(data, req[w].id, NewPackage(req[w]))
    BY <1>1, <2>1 DEF EndMove
  <2>3. data \in Stores /\ req[w].id \in Ids /\ req[w] \in Uploads /\ req[w] \in Requests
    BY <2>1, ServedRequest, UploadsAssumption DEF TypeOK
  <2> QED BY <2>1, <2>2, <2>3, PutEffect
<1>2. ASSUME NEW w \in Workers, NEW r \in Requests, Receive(w, r)
      PROVE  data' = data
  BY <1>2 DEF Receive
<1>3. ASSUME NEW k \in Keys, OwnerStep(k)
      PROVE  data' = data
  BY <1>3 DEF OwnerStep, LinkKey, RelinkKey, ShiftRecord, UnlinkKey, SetKeyStatus,
              SetPublishPermission, ChangeRecord, MovePointer
<1>4. ASSUME NEW j \in Ids, CatalogStep(j)
      PROVE  Exists(data, id) /\ data'[id].upload = data[id].upload
  <2>1. data \in Stores
    BY DEF TypeOK
  <2>2. ASSUME NEW s \in ValidStatuses, PatchStatus(j, s)
        PROVE  Exists(data, id) /\ data'[id].upload = data[id].upload
    BY <2>1, <2>2, SetStatusEffect DEF PatchStatus
  <2>3. CASE Download(j)
    BY <2>1, <2>3, DownloadEffect DEF Download
  <2> QED BY <1>4, <2>2, <2>3 DEF CatalogStep
<1>5. CASE UNCHANGED vars
  BY <1>5 DEF vars
<1>6. CASE data' = data
  BY <1>6
<1>7. CASE data' # data
  BY <1>1, <1>2, <1>3, <1>4, <1>5, <1>7 DEF Next, Exists
<1> QED BY <1>6, <1>7

\* A release goes to the request that created it and to no other.
LEMMA ReleaseStep ==
    ASSUME HTypeOK, ReleaseInv, OfficialHasAsset, HNext
    PROVE  ReleaseInv'
<1> SUFFICES ASSUME NEW id \in Ids, NEW v \in Workers, UploadsTo(v, id)'
             PROVE  /\ id \in releases'
                    /\ pc'[v] = "put" => id \in assets'
                    /\ ~StoredOfficial(id)'
                    /\ \A u \in Workers : UploadsTo(u, id)' => u = v
  BY DEF ReleaseInv
<1>1. TypeOK /\ [Next]_vars /\ TypeOK'
  BY StepType DEF HTypeOK, HNext
<1>2. releases \subseteq releases' /\ assets \subseteq assets'
  BY <1>1, StoreGrows
\* Whoever uploads now uploaded before or has just created the release.
<1>3. ASSUME NEW u \in Workers, UploadsTo(u, id)'
      PROVE  \/ UploadsTo(u, id) /\ pc'[u] = pc[u]
             \/ UploadsTo(u, id) /\ BusyMove(u) /\ pc'[u] = "put" /\ id \in assets'
             \/ BusyMove(u) /\ pc'[u] = "upload" /\ id \notin releases /\ id \in releases'
  <2>1. req'[u] \in Requests
    BY <1>1, <1>3 DEF UploadsTo, Busy, TypeOK
  <2>2. /\ pc[u] # "idle" /\ req'[u] = req[u]
        /\ BusyMove(u) \/ pc'[u] = pc[u]
    BY <1>1, <1>3, <2>1, ServedBefore DEF UploadsTo, Busy
  <2>3. CASE pc'[u] = pc[u]
    BY <1>3, <2>2, <2>3 DEF UploadsTo, Busy
  <2>4. CASE BusyMove(u)
    BY <1>3, <2>2, <2>4
       DEF UploadsTo, Busy, BusyMove, GateMove, StatusMove, PermissionMove, CheckMove, LoopMove, GitHubMove
  <2> QED BY <2>2, <2>3, <2>4
<1>4. ASSUME StoredOfficial(id)'
      PROVE  \/ StoredOfficial(id)
             \/ \E w \in Workers : UploadsTo(w, id) /\ pc'[w] = "idle"
  BY <1>1, <1>4, ContentOrigin DEF StoredOfficial, UploadsTo, Busy, EndMove
<1>5. UploadsTo(v, id) => ~StoredOfficial(id)'
  <2>1. ASSUME UploadsTo(v, id) PROVE ~StoredOfficial(id)
    BY <2>1 DEF ReleaseInv
  <2>2. ASSUME UploadsTo(v, id), NEW w \in Workers, UploadsTo(w, id) PROVE w = v
    BY <2>2 DEF ReleaseInv
  <2>3. pc'[v] # "idle"
    BY DEF UploadsTo, Busy
  <2> QED BY <1>4, <2>1, <2>2, <2>3
<1>6. CASE UploadsTo(v, id)
  <2>1. id \in releases /\ (pc[v] = "put" => id \in assets)
    BY <1>6 DEF ReleaseInv
  <2>2. ASSUME NEW u \in Workers, UploadsTo(u, id)' PROVE u = v
    BY <1>3, <1>6, <2>1, <2>2 DEF ReleaseInv
  <2>3. pc'[v] = "put" => id \in assets'
    BY <1>2, <1>3, <2>1
  <2> QED BY <1>2, <1>5, <1>6, <2>1, <2>2, <2>3
<1>7. CASE ~UploadsTo(v, id)
  <2>1. BusyMove(v) /\ pc'[v] = "upload" /\ id \notin releases /\ id \in releases'
    BY <1>3, <1>7
  <2>2. \A u \in Workers : ~UploadsTo(u, id)
    BY <2>1 DEF ReleaseInv
  <2>3. ~StoredOfficial(id)
    BY <2>1 DEF OfficialHasAsset, StoredOfficial
  <2>4. ~StoredOfficial(id)'
    BY <1>4, <2>2, <2>3
  <2>5. ASSUME NEW u \in Workers, UploadsTo(u, id)', u # v PROVE FALSE
    <3>1. pc'[u] = pc[u] /\ req'[u] = req[u]
      BY <2>1, <2>5 DEF BusyMove, Stays, Others
    <3> QED BY <2>2, <2>5, <3>1 DEF UploadsTo, Busy
  <2> QED BY <2>1, <2>4, <2>5
<1> QED BY <1>6, <1>7

\* A stored proxy package keeps its dependencies.
LEMMA DependenciesStep ==
    ASSUME HTypeOK, LoopInv, ProxyDependenciesExist, HNext
    PROVE  ProxyDependenciesExist'
<1> SUFFICES ASSUME NEW id \in Ids, Exists(data', id), data'[id].upload.kind = "proxy",
                    NEW dep \in data'[id].upload.deps
             PROVE  Versions(data', dep) # {}
  BY DEF ProxyDependenciesExist
<1>1. TypeOK /\ [Next]_vars
  BY DEF HTypeOK, HNext
<1>2. CASE Exists(data, id) /\ data'[id].upload = data[id].upload
  <2>1. Versions(data, dep) # {}
    BY <1>2 DEF ProxyDependenciesExist
  <2>2. dep \in Names
    <3>1. data[id] \in Packages
      BY <1>1, <1>2 DEF TypeOK, Stores, Exists
    <3>2. data[id].upload \in Requests
      BY <3>1, UploadsAssumption DEF Packages
    <3> QED BY <1>2, <3>2, RequestFields
  <2> QED BY <1>1, <2>1, <2>2, StoreGrows
<1>3. ASSUME NEW w \in Workers, pc[w] = "put", data'[id].upload = req[w], req[w] \in Requests
      PROVE  Versions(data', dep) # {}
  <2>1. Versions(data, dep) # {}
    BY <1>3 DEF LoopInv, Busy, PassedA5
  <2>2. dep \in Names
    BY <1>3, RequestFields
  <2> QED BY <1>1, <2>1, <2>2, StoreGrows
<1> QED BY <1>1, <1>2, <1>3, ContentOrigin

\* A package comes to the store with its release and its archive.
LEMMA AssetStep ==
    ASSUME HTypeOK, ReleaseInv, OfficialHasAsset, HNext
    PROVE  OfficialHasAsset'
<1> SUFFICES ASSUME NEW id \in Ids, Exists(data', id), data'[id].upload.kind = "official"
             PROVE  id \in releases' /\ id \in assets'
  BY DEF OfficialHasAsset
<1>1. TypeOK /\ [Next]_vars
  BY DEF HTypeOK, HNext
<1>2. id \in releases /\ id \in assets
  <2>1. CASE Exists(data, id) /\ data'[id].upload = data[id].upload
    BY <2>1 DEF OfficialHasAsset
  <2>2. ASSUME NEW w \in Workers, pc[w] = "put", req[w].id = id, data'[id].upload = req[w]
        PROVE  id \in releases /\ id \in assets
    BY <2>2 DEF ReleaseInv, UploadsTo, Busy
  <2> QED BY <1>1, <2>1, <2>2, ContentOrigin
<1> QED BY <1>1, <1>2, StoreGrows

-----------------------------------------------------------------------------
(***************************************************************************)
(* The theorems.                                                           *)
(***************************************************************************)

\* The invariant is inductive.
LEMMA InvStep == HTypeOK /\ PublishInv /\ [HNext]_allVars => PublishInv'
<1> SUFFICES ASSUME HTypeOK, PublishInv, [HNext]_allVars PROVE PublishInv'
  OBVIOUS
<1>1. CASE HNext
  BY <1>1, RaceStep, RivalsStep, LoopStep, GateStep, ReleaseStep, DependenciesStep, AssetStep DEF PublishInv
<1>2. CASE UNCHANGED allVars
  <2>1. GateInv'
    BY <1>2, Zenon
       DEF PublishInv, GateInv, allVars, vars, history, local, pointer, external, Busy, PastGate,
           ReadsPointer
  <2> QED BY <1>2, <2>1
     DEF PublishInv, RaceInv, RivalsInv, LoopInv, ReleaseInv,
         ProxyDependenciesExist, Serving, OfficialHasAsset, allVars, vars, history,
         local, external, Busy, PastDuplicate, PassedA5, PassedA6, UploadsTo, StoredOfficial, Exists, Versions
<1> QED BY <1>1, <1>2

\* What each request knows at each step of its handler holds in every
\* reachable state.
THEOREM Invariant == HSpec => []PublishInv
<1>1. HInit => PublishInv
  BY DEF HInit, Init, PublishInv, RaceInv, RivalsInv, LoopInv, GateInv, ReleaseInv,
         ProxyDependenciesExist, OfficialHasAsset, EmptyStore, Exists, Busy, UploadsTo
<1>2. HTypeOK /\ PublishInv /\ [HNext]_allVars => PublishInv'
  BY InvStep
<1> QED BY <1>1, <1>2, TypeCorrect, PTL DEF HSpec

\* A publish request overwrites a version only in a race with its first
\* publish.
THEOREM OverwriteNeedsRaceHolds == HSpec => []OverwriteNeedsRace
<1>1. HTypeOK /\ PublishInv => OverwriteNeedsRace
  BY ServedRequest
     DEF PublishInv, RaceInv, OverwriteNeedsRace, Busy, PastDuplicate, OfficialStages, HTypeOK
<1> QED BY <1>1, Invariant, TypeCorrect, PTL

\* A gate that is closed from a request's arrival to its end keeps the
\* request from storing anything, unless the pointer to its key's record has
\* gone astray; KEY_NOT_CLAIMED does so without exception.
THEOREM ClosedGateStopsPublishHolds == HSpec => []ClosedGateStopsPublish
<1>1. HTypeOK /\ PublishInv => ClosedGateStopsPublish
  BY ServedRequest
     DEF PublishInv, GateInv, ClosedGateStopsPublish, Busy, PastGate, ReadsPointer,
         ProxyStages, OfficialStages, HTypeOK
<1> QED BY <1>1, Invariant, TypeCorrect, PTL

\* A dependency that is flagged buggy all along keeps a proxy publish from
\* being stored.
THEOREM BuggyDependencyStopsPublishHolds == HSpec => []BuggyDependencyStopsPublish
<1>1. PublishInv => BuggyDependencyStopsPublish
  BY DEF PublishInv, LoopInv, BuggyDependencyStopsPublish, Busy, PassedA6
<1> QED BY <1>1, Invariant, PTL

\* The dependencies of a stored proxy package are in the store.
THEOREM ProxyDependenciesExistHolds == HSpec => []ProxyDependenciesExist
<1>1. PublishInv => ProxyDependenciesExist
  BY DEF PublishInv
<1> QED BY <1>1, Invariant, PTL

\* A stored official package has its release and its archive on GitHub.
THEOREM OfficialHasAssetHolds == HSpec => []OfficialHasAsset
<1>1. PublishInv => OfficialHasAsset
  BY DEF PublishInv
<1> QED BY <1>1, Invariant, PTL

\* No official publish overwrites a package stored by another one.
THEOREM OfficialNeverReplacesOfficialHolds == HSpec => OfficialNeverReplacesOfficial
<1> DEFINE Step ==
      \A id \in Ids :
        \A w \in Workers :
           /\ Exists(data, id) /\ data[id].upload.kind = "official"
           /\ Serving(w, id) /\ pc[w] = "put" /\ pc'[w] = "idle"
           => req[w].kind = "proxy"
<1>1. HTypeOK /\ PublishInv => Step
  BY ServedRequest
     DEF PublishInv, ReleaseInv, StoredOfficial, UploadsTo, Busy, Serving, HTypeOK
<1>2. HTypeOK /\ PublishInv /\ [HNext]_allVars => [Step]_allVars
  BY <1>1
<1> QED BY <1>2, Invariant, TypeCorrect, PTL DEF HSpec, OfficialNeverReplacesOfficial

-----------------------------------------------------------------------------
(***************************************************************************)
(* The publish path implements Catalog.                                    *)
(***************************************************************************)
Settled == [id \in Ids |-> Exists(data, id) /\ rivals[id] = {}]

\* A new package is the entry the contract asks for.
LEMMA NewPackageIsEntry ==
    ASSUME NEW u \in Uploads
    PROVE  /\ NewPackage(u) = Promise!Entry(u, "")
           /\ [NewPackage(u) EXCEPT !.status = "active"] = Promise!Entry(u, "active")
<1> DEFINE p == NewPackage(u)
           q == [p EXCEPT !.status = "active"]
<1>1. p = Promise!Entry(u, "")
  BY DEF NewPackage, Promise!Entry
<1>2. /\ p \in Packages
      /\ p.upload = u /\ p.status = "" /\ p.downloads = 0
  BY DEF NewPackage, Packages
<1> HIDE DEF p
<1>3. /\ q \in Packages
      /\ q.upload = u /\ q.status = "active" /\ q.downloads = 0
  BY <1>2 DEF Packages, ValidStatuses
<1> HIDE DEF q
<1>4. q = [upload |-> q.upload, status |-> q.status, downloads |-> q.downloads]
  BY <1>3, PackageFields
<1>5. q = Promise!Entry(u, "active")
  BY <1>3, <1>4 DEF Promise!Entry
<1> QED BY <1>1, <1>5 DEF p, q

\* Only the version whose request ends can become settled, and a settled
\* version stays settled.
LEMMA SettledChange ==
    ASSUME HTypeOK, RivalsInv, HNext, NEW i \in Ids,
           \A w \in Workers : pc[w] # "idle" /\ pc'[w] = "idle" => req[w].id = i,
           \A j \in Ids : j # i => (Exists(data', j) <=> Exists(data, j))
    PROVE  /\ Settled' = [Settled EXCEPT ![i] = Settled'[i]]
           /\ Settled'[i] \in BOOLEAN
           /\ Settled[i] => Settled'[i]
<1>1. TypeOK /\ [Next]_vars /\ Remember
  BY DEF HTypeOK, HNext
<1>2. ASSUME NEW j \in Ids, j # i PROVE Settled'[j] = Settled[j]
  <2>1. CASE Exists(data, j)
    <3>1. rivals'[j] = {w \in rivals[j] : pc'[w] # "idle"}
      BY <1>1, <2>1 DEF Remember
    <3>2. ASSUME NEW w \in rivals[j] PROVE pc'[w] # "idle"
      <4>1. w \in Workers /\ Serving(w, j)
        BY DEF RivalsInv, HTypeOK
      <4> QED BY <1>2, <4>1 DEF Serving
    <3>3. rivals'[j] = rivals[j]
      BY <3>1, <3>2
    <3> QED BY <1>2, <2>1, <3>3 DEF Settled
  <2>2. CASE ~Exists(data, j)
    BY <1>2, <2>2 DEF Settled
  <2> QED BY <2>1, <2>2
<1>3. Settled[i] => Settled'[i]
  <2>1. CASE Exists(data, i) /\ rivals[i] = {}
    <3>1. rivals'[i] = {}
      BY <1>1, <2>1 DEF Remember
    <3>2. Exists(data', i)
      BY <1>1, <2>1, StoreGrows
    <3> QED BY <3>1, <3>2 DEF Settled
  <2> QED BY <2>1 DEF Settled
<1>4. Settled'[i] \in BOOLEAN
  BY DEF Settled
<1>5. Settled' = [Settled EXCEPT ![i] = Settled'[i]]
  BY <1>2 DEF Settled
<1> QED BY <1>3, <1>4, <1>5

\* Storing a package is, for the contract, Appear or Replace.
LEMMA PutStep ==
    ASSUME HTypeOK, PublishInv, HNext, NEW w \in Workers, pc[w] = "put", EndMove(w),
           data' = Put(data, req[w].id, NewPackage(req[w]))
    PROVE  Promise!Next
<1>1. TypeOK /\ [Next]_vars /\ data \in Stores
  BY DEF HTypeOK, HNext, TypeOK
<1>2. PICK i \in Ids, u \in Uploads : i = req[w].id /\ u = req[w]
  BY <1>1, ServedRequest, UploadsAssumption
<1>3. data' = [data EXCEPT ![i] = IF Exists(data, i) THEN Promise!Entry(u, "")
                                  ELSE Promise!Entry(u, "active")]
  BY <1>2, NewPackageIsEntry DEF Put
<1>4. \A j \in Ids : j # i => data'[j] = data[j]
  BY <1>1, <1>2, <1>3 DEF Stores
<1>5. \A v \in Workers : pc[v] # "idle" /\ pc'[v] = "idle" => req[v].id = i
  BY <1>2 DEF EndMove, Others
<1>6. /\ Settled' = [Settled EXCEPT ![i] = Settled'[i]]
      /\ Settled'[i] \in BOOLEAN
  BY <1>2, <1>4, <1>5, SettledChange DEF PublishInv, Exists
<1>7. Promise!MaySettle(i)
  BY <1>6 DEF Promise!MaySettle, Settled
<1>8. CASE Exists(data, i)
  <2>1. w \in rivals[i]
    BY <1>1, <1>2, <1>8, ServedRequest
       DEF PublishInv, RaceInv, Busy, PastDuplicate, OfficialStages
  <2>2. ~Settled[i]
    BY <1>2, <2>1 DEF Settled
  <2>3. data' = [data EXCEPT ![i] = Promise!Entry(u, "")]
    BY <1>3, <1>8
  <2>4. Promise!Replace(i, u)
    BY <1>7, <1>8, <2>2, <2>3 DEF Promise!Replace, Exists, Settled
  <2> QED BY <1>2, <2>4 DEF Promise!Next
<1>9. CASE ~Exists(data, i)
  <2>1. data' = [data EXCEPT ![i] = Promise!Entry(u, "active")]
    BY <1>3, <1>9
  <2>2. Promise!Appear(i, u)
    BY <1>7, <1>9, <2>1 DEF Promise!Appear, Exists
  <2> QED BY <1>2, <2>2 DEF Promise!Next
<1> QED BY <1>8, <1>9

\* A step that leaves the store alone settles versions at most.
LEMMA QuietStep ==
    ASSUME HTypeOK, PublishInv, HNext, NEW i \in Ids, data' = data,
           \A w \in Workers : pc[w] # "idle" /\ pc'[w] = "idle" => req[w].id = i
    PROVE  Promise!Next \/ UNCHANGED <<data, Settled>>
<1>1. /\ Settled' = [Settled EXCEPT ![i] = Settled'[i]]
      /\ Settled'[i] \in BOOLEAN
      /\ Settled[i] => Settled'[i]
  BY SettledChange DEF PublishInv, Exists
<1>2. CASE Settled'[i] = Settled[i]
  <2>1. Settled' = Settled
    BY <1>1, <1>2 DEF Settled
  <2> QED BY <2>1
<1>3. CASE Settled'[i] # Settled[i]
  <2>1. Settled'[i] = TRUE
    BY <1>1, <1>3 DEF Settled
  <2>2. Exists(data, i)
    BY <2>1 DEF Settled, Exists
  <2>3. Promise!Settle(i)
    BY <1>1, <2>1, <2>2 DEF Promise!Settle, Settled, Exists
  <2> QED BY <2>3 DEF Promise!Next
<1> QED BY <1>2, <1>3

\* The status endpoint and the downloads are steps of the contract.
LEMMA CatalogStepRefines ==
    ASSUME HTypeOK, PublishInv, HNext, NEW i \in Ids, CatalogStep(i)
    PROVE  Promise!Next
<1>1. data \in Stores /\ pc' = pc /\ Exists(data, i)
  BY DEF HTypeOK, TypeOK, CatalogStep, PatchStatus, Download, local
<1>2. \A j \in Ids : Exists(data', j) <=> Exists(data, j)
  BY <1>1, SetStatusEffect, DownloadEffect DEF CatalogStep, PatchStatus, Download
<1>3. /\ Settled' = [Settled EXCEPT ![i] = Settled'[i]]
      /\ Settled'[i] = Settled[i]
  <2>1. rivals'[i] = {w \in rivals[i] : pc'[w] # "idle"}
    BY <1>1 DEF HNext, Remember
  <2>2. rivals'[i] = rivals[i]
    BY <1>1, <2>1 DEF PublishInv, RivalsInv, Serving
  <2>3. Settled'[i] = Settled[i]
    BY <1>2, <2>2 DEF Settled
  <2> QED BY <1>1, <1>2, <2>3, SettledChange DEF PublishInv
<1>4. Settled' = Settled
  BY <1>3 DEF Settled
<1>5. ASSUME NEW s \in ValidStatuses, PatchStatus(i, s) PROVE Promise!ChangeStatus(i, s)
  BY <1>1, <1>4, <1>5
     DEF PatchStatus, SetStatus, Promise!ChangeStatus, Settled, Exists
<1>6. ASSUME Download(i) PROVE Promise!CountDownload(i)
  BY <1>1, <1>4, <1>6
     DEF Download, IncrementDownloads, Promise!CountDownload, Settled, Exists
<1> QED BY <1>5, <1>6 DEF CatalogStep, Promise!Next

\* Whatever happens inside the handlers, the store changes only as the catalog
\* contract allows: versions appear once, are replaced while contested, and
\* are fixed once settled.
THEOREM PublishImplementsCatalog == HSpec => ImplementsCatalog
<1>1. HInit => Promise!Init
  BY DEF HInit, Init, Promise!Init, EmptyStore, Exists
<1>2. HTypeOK /\ PublishInv /\ [HNext]_allVars => [Promise!Next]_(Promise!vars)
  <2> SUFFICES ASSUME HTypeOK, PublishInv, [HNext]_allVars
               PROVE  Promise!Next \/ UNCHANGED <<data, Settled>>
    BY DEF Promise!vars, Settled
  <2>1. CASE UNCHANGED allVars
    BY <2>1 DEF allVars, vars, history, Settled, Exists
  <2>2. CASE HNext
    <3>1. TypeOK /\ Next
      BY <2>2 DEF HTypeOK, HNext
    <3>2. ASSUME NEW w \in Workers, HandlerStep(w)
          PROVE  Promise!Next \/ UNCHANGED <<data, Settled>>
      <4>1. pc[w] # "idle" /\ (BusyMove(w) \/ EndMove(w))
        BY <3>1, <3>2, HandlerMoves
      <4>2. req[w].id \in Ids
        BY <3>1, <4>1, ServedRequest
      <4>3. \A v \in Workers : pc[v] # "idle" /\ pc'[v] = "idle" => req[v].id = req[w].id
        BY <4>1 DEF BusyMove, Stays, EndMove, Others
      <4>4. CASE data' = data
        BY <2>2, <4>2, <4>3, <4>4, QuietStep
      <4>5. CASE data' # data
        BY <2>2, <4>1, <4>5, PutStep DEF BusyMove, Stays, EndMove
      <4> QED BY <4>4, <4>5
    <3>3. ASSUME NEW w \in Workers, NEW r \in Requests, Receive(w, r)
          PROVE  Promise!Next \/ UNCHANGED <<data, Settled>>
      <4>1. data' = data /\ r.id \in Ids
        BY <3>3, RequestFields DEF Receive
      <4>2. \A v \in Workers : pc[v] # "idle" => pc'[v] = pc[v]
        BY <3>1, <3>3 DEF Receive, Goto, TypeOK
      <4>3. \A v \in Workers : pc[v] # "idle" /\ pc'[v] = "idle" => req[v].id = r.id
        BY <4>2
      <4> HIDE DEF HTypeOK
      <4> QED BY <2>2, <4>1, <4>3, QuietStep
    <3>4. ASSUME NEW k \in Keys, OwnerStep(k)
          PROVE  Promise!Next \/ UNCHANGED <<data, Settled>>
      <4>1. data' = data /\ pc' = pc
        BY <3>4 DEF OwnerStep, LinkKey, RelinkKey, ShiftRecord, UnlinkKey, SetKeyStatus,
                    SetPublishPermission, ChangeRecord, MovePointer, local
      <4>2. CASE Ids = {}
        BY <4>1, <4>2 DEF Settled
      <4>3. CASE Ids # {}
        <5>1. PICK i \in Ids : TRUE
          BY <4>3
        <5>2. \A v \in Workers : pc[v] # "idle" /\ pc'[v] = "idle" => req[v].id = i
          BY <4>1
        <5> QED BY <2>2, <4>1, <5>1, <5>2, QuietStep
      <4> QED BY <4>2, <4>3
    <3>5. ASSUME NEW id \in Ids, CatalogStep(id)
          PROVE  Promise!Next
      BY <2>2, <3>5, CatalogStepRefines
    <3> QED BY <3>1, <3>2, <3>3, <3>4, <3>5 DEF Next
  <2> QED BY <2>1, <2>2
<1> QED BY <1>1, <1>2, Invariant, TypeCorrect, PTL DEF HSpec, ImplementsCatalog, Promise!Spec

=============================================================================
