---------------------------- MODULE StoreProofs ----------------------------
(***************************************************************************)
(* What TLAPS proves of the package stores that outlive the process, the   *)
(* S3 store and the file store: for every number of servers, callers,      *)
(* operations in progress, packages, crashes and failures.                 *)
(***************************************************************************)
EXTENDS S3Store, FileHistory, TLAPS

-----------------------------------------------------------------------------
(* Packages and maps of packages; the S3 store.                            *)

\* A package as a handler builds it is one, and so is an entry of a map.
LEMMA NewIsPackage ==
    ASSUME NEW upload \in Uploads
    PROVE  NewPackage(upload) \in Packages
BY DEF NewPackage, Packages

LEMMA Entries ==
    ASSUME NEW store \in Stores, NEW id \in Ids
    PROVE  /\ store[id] \in Packages \cup {NotFound}
           /\ Exists(store, id) <=> store[id] \in Packages
BY NotFoundAssumption DEF Stores, Exists

LEMMA EmptyIsStore ==
    EmptyStore \in Stores /\ \A id \in Ids : ~Exists(EmptyStore, id)
BY DEF EmptyStore, Stores, Exists

\* An entry that is replaced by a package is there, and no other is touched.
LEMMA Replace ==
    ASSUME NEW store \in Stores, NEW id \in Ids, NEW pkg \in Packages
    PROVE  /\ [store EXCEPT ![id] = pkg] \in Stores
           /\ Exists([store EXCEPT ![id] = pkg], id)
           /\ \A other \in Ids : other # id =>
                (Exists([store EXCEPT ![id] = pkg], other) <=> Exists(store, other))
BY NotFoundAssumption DEF Stores, Exists

\* Put gives the entry a package whatever it held before.
LEMMA PutEntry ==
    ASSUME NEW store \in Stores, NEW id \in Ids, NEW pkg \in Packages
    PROVE  Put(store, id, pkg)[id] \in Packages
<1>1. [pkg EXCEPT !.status = "active"] \in Packages
  BY DEF Packages, ValidStatuses
<1>2. Put(store, id, pkg)[id] =
        IF Exists(store, id) THEN pkg ELSE [pkg EXCEPT !.status = "active"]
  BY DEF Put, Stores
<1> QED BY <1>1, <1>2

\* SetStatus and IncrementDownloads change one package that is there.
LEMMA SetStatusEntry ==
    ASSUME NEW store \in Stores, NEW id \in Ids, Exists(store, id),
           NEW status \in ValidStatuses
    PROVE  /\ SetStatus(store, id, status) \in Stores
           /\ SetStatus(store, id, status)[id] \in Packages
           /\ \A other \in Ids :
                Exists(SetStatus(store, id, status), other) <=> Exists(store, other)
<1> DEFINE pkg == [store[id] EXCEPT !.status = status]
<1>0. store[id] \in Packages
  BY Entries
<1>1. pkg \in Packages
  BY <1>0 DEF Packages
<1>2. SetStatus(store, id, status) = [store EXCEPT ![id] = pkg]
  BY DEF SetStatus
<1>3. SetStatus(store, id, status)[id] = pkg
  BY <1>2 DEF Stores
<1> HIDE DEF pkg
<1> DEFINE new == [store EXCEPT ![id] = pkg]
<1>4. new \in Stores /\ Exists(new, id)
        /\ \A other \in Ids : other # id => (Exists(new, other) <=> Exists(store, other))
  BY <1>1, Replace
<1>5. SetStatus(store, id, status) = new
  BY <1>2
<1> HIDE DEF new
<1>6. \A other \in Ids : Exists(new, other) <=> Exists(store, other)
  BY <1>4
<1> QED BY <1>1, <1>3, <1>4, <1>5, <1>6

LEMMA IncrementEntry ==
    ASSUME NEW store \in Stores, NEW id \in Ids, Exists(store, id)
    PROVE  /\ IncrementDownloads(store, id) \in Stores
           /\ IncrementDownloads(store, id)[id] \in Packages
           /\ \A other \in Ids :
                Exists(IncrementDownloads(store, id), other) <=> Exists(store, other)
<1> DEFINE pkg == [store[id] EXCEPT !.downloads = @ + 1]
<1>0. store[id] \in Packages
  BY Entries
<1>1. pkg \in Packages
  <2>0. store[id].downloads \in Nat
    BY <1>0 DEF Packages
  <2>1. store[id].downloads + 1 \in Nat
    BY <2>0
  <2> QED BY <1>0, <2>1 DEF Packages
<1>2. IncrementDownloads(store, id) = [store EXCEPT ![id] = pkg]
  BY DEF IncrementDownloads
<1>3. IncrementDownloads(store, id)[id] = pkg
  BY <1>2 DEF Stores
<1> HIDE DEF pkg
<1> DEFINE new == [store EXCEPT ![id] = pkg]
<1>4. new \in Stores /\ Exists(new, id)
        /\ \A other \in Ids : other # id => (Exists(new, other) <=> Exists(store, other))
  BY <1>1, Replace
<1>5. IncrementDownloads(store, id) = new
  BY <1>2
<1> HIDE DEF new
<1>6. \A other \in Ids : Exists(new, other) <=> Exists(store, other)
  BY <1>4
<1> QED BY <1>1, <1>3, <1>4, <1>5, <1>6

\* The fields of an operation.
LEMMA OperationFields ==
    ASSUME NEW o \in Operations
    PROVE  /\ o # None
           /\ o.kind \in {"publish", "status", "download"}
           /\ o.at \in Instances /\ o.id \in Ids /\ o.pkg \in Packages
           /\ o.stage \in {"checked", "put", "cache"}
BY NoOperationAssumption DEF Operations

\* An operation that moves on keeps what it is and where it runs.
LEMMA Moved ==
    ASSUME NEW o \in Operations, NEW stage \in {"checked", "put", "cache"}, NEW pkg \in Packages
    PROVE  /\ [o EXCEPT !.stage = stage, !.pkg = pkg] \in Operations
           /\ [o EXCEPT !.stage = stage, !.pkg = pkg].kind = o.kind
           /\ [o EXCEPT !.stage = stage, !.pkg = pkg].at = o.at
           /\ [o EXCEPT !.stage = stage, !.pkg = pkg].id = o.id
           /\ [o EXCEPT !.stage = stage, !.pkg = pkg].stage = stage
           /\ [o EXCEPT !.stage = stage] \in Operations
           /\ [o EXCEPT !.stage = stage].kind = o.kind
           /\ [o EXCEPT !.stage = stage].at = o.at
           /\ [o EXCEPT !.stage = stage].id = o.id
           /\ [o EXCEPT !.stage = stage].stage = stage
BY DEF Operations


-----------------------------------------------------------------------------
\* What a refresh has read is in the bucket, and so is what a Put that is about
\* to fill the cache has written; only a Put gets that far.
FreshIsStored ==
    \A i \in Instances : \A id \in Ids : Exists(fresh[i], id) => Exists(bucket, id)

WrittenIsStored ==
    \A t \in Tasks : At(t, "cache") => op[t].kind = "publish" /\ Exists(bucket, op[t].id)

Inv == TypeOK /\ ServedIsStored /\ FreshIsStored /\ WrittenIsStored

\* The initial state satisfies the invariant.
LEMMA InitInv == Init => Inv
<1> SUFFICES ASSUME Init PROVE Inv
  OBVIOUS
<1>1. TypeOK
  BY EmptyIsStore, MaxFailuresAssumption DEF Init, refresh, TypeOK
<1>2. ServedIsStored /\ FreshIsStored
  BY EmptyIsStore DEF Init, refresh, ServedIsStored, FreshIsStored
<1>3. WrittenIsStored
  BY DEF Init, WrittenIsStored, At
<1> QED BY <1>1, <1>2, <1>3 DEF Inv

\* An operation in progress has the fields of one.
LEMMA TaskFields ==
    ASSUME TypeOK, NEW t \in Tasks, op[t] # None
    PROVE  /\ op[t] \in Operations
           /\ op[t].kind \in {"publish", "status", "download"}
           /\ op[t].at \in Instances /\ op[t].id \in Ids /\ op[t].pkg \in Packages
BY OperationFields DEF TypeOK

\* The effect of starting an operation on the operations and the locks: a task
\* that was free runs it, and no lock was its own.
LEMMA StartEffect ==
    ASSUME TypeOK, NEW t \in Tasks, NEW kind \in {"publish", "status", "download"},
           NEW i \in Instances, NEW id \in Ids, NEW pkg \in Packages,
           NEW stage \in {"checked", "put"}, Start(t, kind, i, id, pkg, stage)
    PROVE  /\ op' \in [Tasks -> Operations \cup {None}]
           /\ op'[t] # None /\ op'[t].kind = kind /\ op'[t].at = i /\ op'[t].stage = stage
           /\ \A s \in Tasks : s # t => op'[s] = op[s]
           /\ \A j \in Instances : lock[j] # t
<1> DEFINE o == [kind |-> kind, at |-> i, id |-> id, pkg |-> pkg, stage |-> stage]
<1>1. o \in Operations /\ o # None /\ o.kind = kind /\ o.at = i /\ o.stage = stage
  BY NoOperationAssumption DEF Operations
<1>2. op[t] = None /\ op' = [op EXCEPT ![t] = o]
  BY DEF Start
<1> HIDE DEF o
<1>3. op' \in [Tasks -> Operations \cup {None}] /\ op'[t] = o
        /\ \A s \in Tasks : s # t => op'[s] = op[s]
  BY <1>1, <1>2 DEF TypeOK
<1>4. \A j \in Instances : lock[j] # t
  BY <1>2, NoneAssumption DEF TypeOK
<1> QED BY <1>1, <1>3, <1>4

\* The effect of ending one.
LEMMA FinishEffect ==
    ASSUME TypeOK, NEW t \in Tasks, Finish(t)
    PROVE  /\ op' \in [Tasks -> Operations \cup {None}]
           /\ op'[t] = None
           /\ \A s \in Tasks : s # t => op'[s] = op[s]
BY DEF TypeOK, Finish

\* What is in the bucket stays there, and what a task at its Put writes joins it.
LEMMA BucketGrows ==
    ASSUME TypeOK, NEW t \in Tasks, PutObject(t)
    PROVE  /\ bucket' \in Stores
           /\ Exists(bucket', op[t].id)
           /\ \A id \in Ids : Exists(bucket, id) => Exists(bucket', id)
<1>1. op[t].id \in Ids /\ op[t].pkg \in Packages
  BY TaskFields DEF PutObject, At
<1>2. bucket' = [bucket EXCEPT ![op[t].id] = op[t].pkg]
  BY DEF PutObject
<1>3. bucket \in Stores
  BY DEF TypeOK
<1> DEFINE id == op[t].id  pkg == op[t].pkg
<1> HIDE DEF id, pkg
<1>4. id \in Ids /\ pkg \in Packages /\ bucket' = [bucket EXCEPT ![id] = pkg]
  BY <1>1, <1>2 DEF id, pkg
<1>5. bucket' \in Stores /\ Exists(bucket', id)
        /\ \A other \in Ids : other # id => (Exists(bucket', other) <=> Exists(bucket, other))
  BY <1>3, <1>4, Replace
<1> QED BY <1>5 DEF id

\* The effect of the answer of S3 on the operations and the locks.
LEMMA AfterPutEffect ==
    ASSUME TypeOK, NEW t \in Tasks, op[t] # None, NEW ok \in BOOLEAN, AfterPut(t, ok)
    PROVE  /\ op' \in [Tasks -> Operations \cup {None}]
           /\ lock' \in [Instances -> Tasks \cup {None}]
           /\ \A s \in Tasks : s # t => op'[s] = op[s]
           /\ op'[t] # None =>
                ok /\ op[t].kind = "publish" /\ op'[t].kind = "publish" /\ op'[t].id = op[t].id
           /\ \A j \in Instances : lock'[j] = IF lock[j] = t THEN None ELSE lock[j]
<1>1. CASE op[t].kind = "publish" /\ ok
  <2> DEFINE o == [op[t] EXCEPT !.stage = "cache"]
  <2>1. o \in Operations /\ o.kind = op[t].kind /\ o.id = op[t].id
    BY TaskFields, Moved
  <2>2. op' = [op EXCEPT ![t] = o]
    BY <1>1 DEF AfterPut
  <2> HIDE DEF o
  <2>3. op' \in [Tasks -> Operations \cup {None}] /\ op'[t] = o
          /\ \A s \in Tasks : s # t => op'[s] = op[s]
    BY <2>1, <2>2 DEF TypeOK
  <2> QED BY <1>1, <2>1, <2>3 DEF AfterPut, TypeOK
<1>2. CASE ~(op[t].kind = "publish" /\ ok)
  BY <1>2, FinishEffect DEF AfterPut, TypeOK
<1> QED BY <1>1, <1>2


-----------------------------------------------------------------------------
\* A step that starts an operation keeps the invariant: what it may change of
\* the cache and the locks is given by its last three hypotheses.
LEMMA StartInv ==
    ASSUME Inv, NEW t \in Tasks, NEW kind \in {"publish", "status", "download"},
           NEW i \in Instances, NEW id \in Ids, NEW pkg \in Packages,
           NEW stage \in {"checked", "put"}, Start(t, kind, i, id, pkg, stage),
           UNCHANGED <<bucket, up, refresh, failures>>,
           cache' \in [Instances -> Stores],
           \A j \in Instances : \A other \in Ids :
               Exists(cache'[j], other) => Exists(cache[j], other),
           \/ lock' = lock
           \/ kind = "status" /\ lock' = [lock EXCEPT ![i] = t]
    PROVE  Inv'
<1>1. /\ op' \in [Tasks -> Operations \cup {None}]
      /\ op'[t] # None /\ op'[t].kind = kind /\ op'[t].at = i /\ op'[t].stage = stage
      /\ \A s \in Tasks : s # t => op'[s] = op[s]
      /\ \A j \in Instances : lock[j] # t
  BY StartEffect DEF Inv
<1>2. lock' \in [Instances -> Tasks \cup {None}]
  BY DEF Inv, TypeOK
<1>3. ASSUME NEW j \in Instances, lock'[j] # None
      PROVE  op'[lock'[j]] # None /\ op'[lock'[j]].kind = "status" /\ op'[lock'[j]].at = j
  <2>1. CASE lock'[j] = lock[j]
    BY <1>1, <1>3, <2>1 DEF Inv, TypeOK
  <2>2. CASE lock'[j] # lock[j]
    <3>1. kind = "status" /\ j = i /\ lock'[j] = t
      BY <2>2 DEF Inv, TypeOK
    <3> QED BY <1>1, <3>1
  <2> QED BY <2>1, <2>2
<1>4. TypeOK'
  BY <1>1, <1>2, <1>3 DEF Inv, TypeOK, refresh
<1>5. ServedIsStored' /\ FreshIsStored'
  BY DEF Inv, ServedIsStored, FreshIsStored, refresh
<1>6. WrittenIsStored'
  BY <1>1 DEF Inv, WrittenIsStored, At
<1> QED BY <1>4, <1>5, <1>6 DEF Inv

LEMMA StartPublishInv ==
    ASSUME Inv, NEW t \in Tasks, NEW i \in Instances, NEW id \in Ids, NEW upload \in Uploads,
           StartPublish(t, i, id, upload)
    PROVE  Inv'
<1>1. NewPackage(upload) \in Packages
  BY NewIsPackage
<1>2. Start(t, "publish", i, id, NewPackage(upload), "checked")
        /\ UNCHANGED <<bucket, up, cache, lock, refresh, failures>>
  BY DEF StartPublish
<1>3. cache' \in [Instances -> Stores]
  BY <1>2 DEF Inv, TypeOK
<1> QED BY <1>1, <1>2, <1>3, StartInv

\* Only the entry of the operation's package changes, in one cache.
LEMMA StartSetStatusInv ==
    ASSUME Inv, NEW t \in Tasks, NEW i \in Instances, NEW id \in Ids, NEW status \in Settable,
           StartSetStatus(t, i, id, status)
    PROVE  Inv'
<1>1. status \in ValidStatuses /\ cache[i] \in Stores /\ Exists(cache[i], id)
  BY SettableAssumption DEF StartSetStatus, Inv, TypeOK
<1> DEFINE new == SetStatus(cache[i], id, status)
<1>2. new \in Stores /\ new[id] \in Packages
        /\ \A other \in Ids : Exists(new, other) <=> Exists(cache[i], other)
  BY <1>1, SetStatusEntry
<1>3. cache' = [cache EXCEPT ![i] = new]
  BY DEF StartSetStatus
<1> HIDE DEF new
<1>4. cache' \in [Instances -> Stores] /\ cache'[i] = new
        /\ \A j \in Instances : j # i => cache'[j] = cache[j]
  BY <1>2, <1>3 DEF Inv, TypeOK
<1>5. Start(t, "status", i, id, cache'[i][id], "put") /\ cache'[i][id] \in Packages
        /\ UNCHANGED <<bucket, up, refresh, failures>> /\ lock' = [lock EXCEPT ![i] = t]
  BY <1>2, <1>4 DEF StartSetStatus
<1>6. \A j \in Instances : \A other \in Ids :
          Exists(cache'[j], other) => Exists(cache[j], other)
  BY <1>2, <1>4
<1> QED BY <1>4, <1>5, <1>6, StartInv

LEMMA StartDownloadInv ==
    ASSUME Inv, NEW t \in Tasks, NEW i \in Instances, NEW id \in Ids, StartDownload(t, i, id)
    PROVE  Inv'
<1>1. cache[i] \in Stores /\ Exists(cache[i], id)
  BY DEF StartDownload, Inv, TypeOK
<1> DEFINE new == IncrementDownloads(cache[i], id)
<1>2. new \in Stores /\ new[id] \in Packages
        /\ \A other \in Ids : Exists(new, other) <=> Exists(cache[i], other)
  BY <1>1, IncrementEntry
<1>3. cache' = [cache EXCEPT ![i] = new]
  BY DEF StartDownload
<1> HIDE DEF new
<1>4. cache' \in [Instances -> Stores] /\ cache'[i] = new
        /\ \A j \in Instances : j # i => cache'[j] = cache[j]
  BY <1>2, <1>3 DEF Inv, TypeOK
<1>5. Start(t, "download", i, id, cache'[i][id], "put") /\ cache'[i][id] \in Packages
        /\ UNCHANGED <<bucket, up, refresh, failures>> /\ lock' = lock
  BY <1>2, <1>4 DEF StartDownload
<1>6. \A j \in Instances : \A other \in Ids :
          Exists(cache'[j], other) => Exists(cache[j], other)
  BY <1>2, <1>4
<1> QED BY <1>4, <1>5, <1>6, StartInv


-----------------------------------------------------------------------------
\* The steps of an operation in progress.
LEMMA PreparePutInv ==
    ASSUME Inv, NEW t \in Tasks, PreparePut(t)
    PROVE  Inv'
<1>1. /\ op[t] # None /\ op[t].stage = "checked"
      /\ UNCHANGED <<bucket, up, cache, lock, refresh, failures>>
  BY DEF PreparePut, At
<1>2. op[t] \in Operations /\ op[t].at \in Instances /\ op[t].id \in Ids /\ op[t].pkg \in Packages
  BY <1>1, TaskFields DEF Inv
<1> DEFINE pkg == Put(cache[op[t].at], op[t].id, op[t].pkg)[op[t].id]
           o == [op[t] EXCEPT !.stage = "put", !.pkg = pkg]
<1>3. pkg \in Packages
  BY <1>2, PutEntry DEF Inv, TypeOK
<1>4. op' = [op EXCEPT ![t] = o]
  BY DEF PreparePut
<1> HIDE DEF pkg
<1>5. /\ o \in Operations /\ o # None /\ o.kind = op[t].kind /\ o.at = op[t].at
      /\ o.stage = "put"
  BY <1>2, <1>3, NoOperationAssumption DEF Operations
<1> HIDE DEF o
<1>6. op' \in [Tasks -> Operations \cup {None}] /\ op'[t] = o
        /\ \A s \in Tasks : s # t => op'[s] = op[s]
  BY <1>4, <1>5 DEF Inv, TypeOK
<1>7. ASSUME NEW j \in Instances, lock'[j] # None
      PROVE  op'[lock'[j]] # None /\ op'[lock'[j]].kind = "status" /\ op'[lock'[j]].at = j
  <2>1. /\ lock'[j] \in Tasks /\ op[lock'[j]].kind = "status" /\ op[lock'[j]].at = j
        /\ op[lock'[j]] # None
    BY <1>1, <1>7 DEF Inv, TypeOK
  <2> QED BY <2>1, <1>5, <1>6
<1>8. TypeOK'
  BY <1>1, <1>6, <1>7 DEF Inv, TypeOK, refresh
<1>9. ServedIsStored' /\ FreshIsStored'
  BY <1>1 DEF Inv, ServedIsStored, FreshIsStored, refresh
<1>10. WrittenIsStored'
  BY <1>1, <1>5, <1>6 DEF Inv, WrittenIsStored, At
<1> QED BY <1>8, <1>9, <1>10 DEF Inv

\* The answer of S3, whether or not the object has been stored.
LEMMA AfterPutInv ==
    ASSUME Inv, NEW t \in Tasks, At(t, "put"), NEW ok \in BOOLEAN, AfterPut(t, ok),
           bucket' \in Stores, \A id \in Ids : Exists(bucket, id) => Exists(bucket', id),
           ok => Exists(bucket', op[t].id),
           failures' \in 0..MaxFailures
    PROVE  Inv'
<1>1. op[t] # None /\ UNCHANGED <<up, cache, refresh>>
  BY DEF At, AfterPut
<1>2. /\ op' \in [Tasks -> Operations \cup {None}]
      /\ lock' \in [Instances -> Tasks \cup {None}]
      /\ \A s \in Tasks : s # t => op'[s] = op[s]
      /\ op'[t] # None =>
           ok /\ op[t].kind = "publish" /\ op'[t].kind = "publish" /\ op'[t].id = op[t].id
      /\ \A j \in Instances : lock'[j] = IF lock[j] = t THEN None ELSE lock[j]
  BY <1>1, AfterPutEffect DEF Inv
<1>3. ASSUME NEW j \in Instances, lock'[j] # None
      PROVE  op'[lock'[j]] # None /\ op'[lock'[j]].kind = "status" /\ op'[lock'[j]].at = j
  BY <1>2, <1>3 DEF Inv, TypeOK
<1>4. TypeOK'
  BY <1>1, <1>2, <1>3 DEF Inv, TypeOK, refresh
<1>5. ServedIsStored' /\ FreshIsStored'
  BY <1>1 DEF Inv, ServedIsStored, FreshIsStored, refresh
<1>6. ASSUME NEW s \in Tasks, At(s, "cache")'
      PROVE  op'[s].kind = "publish" /\ Exists(bucket', op'[s].id)
  <2>1. CASE s = t
    BY <1>2, <1>6, <2>1 DEF At
  <2>2. CASE s # t
    <3>1. op'[s] = op[s] /\ At(s, "cache")
      BY <1>2, <1>6, <2>2 DEF At
    <3>2. op[s].kind = "publish" /\ Exists(bucket, op[s].id) /\ op[s].id \in Ids
      BY <3>1, TaskFields DEF Inv, WrittenIsStored, At
    <3> QED BY <3>1, <3>2
  <2> QED BY <2>1, <2>2
<1>7. WrittenIsStored'
  BY <1>6 DEF WrittenIsStored
<1> QED BY <1>4, <1>5, <1>7 DEF Inv

\* One more failure is counted.
LEMMA FailBound ==
    ASSUME failures \in 0..MaxFailures, Fail
    PROVE  failures' \in 0..MaxFailures
BY MaxFailuresAssumption DEF Fail

LEMMA PutObjectInv ==
    ASSUME Inv, NEW t \in Tasks, PutObject(t)
    PROVE  Inv'
<1>1. At(t, "put")
  BY DEF PutObject
<1>2. bucket' \in Stores /\ Exists(bucket', op[t].id)
        /\ \A id \in Ids : Exists(bucket, id) => Exists(bucket', id)
  BY BucketGrows DEF Inv
<1>3. failures \in 0..MaxFailures
  BY DEF Inv, TypeOK
<1>4. CASE AfterPut(t, TRUE) /\ UNCHANGED failures
  BY <1>1, <1>2, <1>3, <1>4, AfterPutInv
<1>5. CASE AfterPut(t, FALSE) /\ Fail
  BY <1>1, <1>2, <1>3, <1>5, FailBound, AfterPutInv
<1> QED BY <1>4, <1>5 DEF PutObject

LEMMA PutObjectFailsInv ==
    ASSUME Inv, NEW t \in Tasks, PutObjectFails(t)
    PROVE  Inv'
<1>1. At(t, "put") /\ AfterPut(t, FALSE) /\ Fail /\ bucket' = bucket
  BY DEF PutObjectFails
<1>2. bucket' \in Stores /\ failures' \in 0..MaxFailures
  BY <1>1, FailBound DEF Inv, TypeOK
<1> QED BY <1>1, <1>2, AfterPutInv

\* The cache gets what the bucket has.
LEMMA PutCacheInv ==
    ASSUME Inv, NEW t \in Tasks, PutCache(t)
    PROVE  Inv'
<1>1. /\ op[t] # None /\ At(t, "cache") /\ Finish(t)
      /\ cache' = [cache EXCEPT ![op[t].at][op[t].id] = op[t].pkg]
      /\ UNCHANGED <<bucket, up, lock, refresh, failures>>
  BY DEF PutCache, At
<1>2. op[t].at \in Instances /\ op[t].id \in Ids /\ op[t].pkg \in Packages
  BY <1>1, TaskFields DEF Inv
<1>3. op[t].kind = "publish" /\ Exists(bucket, op[t].id)
  BY <1>1 DEF Inv, WrittenIsStored
<1>4. PICK i \in Instances, id \in Ids, pkg \in Packages :
          i = op[t].at /\ id = op[t].id /\ pkg = op[t].pkg
  BY <1>2
<1> DEFINE new == [cache[i] EXCEPT ![id] = pkg]
<1>5. new \in Stores /\ \A other \in Ids : Exists(new, other) => other = id \/ Exists(cache[i], other)
  BY Replace DEF Inv, TypeOK
<1>6. cache' = [cache EXCEPT ![i] = new]
  BY <1>1, <1>4
<1> HIDE DEF new
<1>7. cache' \in [Instances -> Stores] /\ cache'[i] = new
        /\ \A j \in Instances : j # i => cache'[j] = cache[j]
  BY <1>5, <1>6 DEF Inv, TypeOK
<1>8. op' \in [Tasks -> Operations \cup {None}] /\ op'[t] = None
        /\ \A s \in Tasks : s # t => op'[s] = op[s]
  BY <1>1, FinishEffect DEF Inv
<1>9. ASSUME NEW j \in Instances, lock'[j] # None
      PROVE  op'[lock'[j]] # None /\ op'[lock'[j]].kind = "status" /\ op'[lock'[j]].at = j
  BY <1>1, <1>3, <1>8, <1>9 DEF Inv, TypeOK
<1>10. TypeOK'
  BY <1>1, <1>7, <1>8, <1>9 DEF Inv, TypeOK, refresh
<1>11. ServedIsStored'
  BY <1>1, <1>3, <1>4, <1>5, <1>7 DEF Inv, ServedIsStored
<1>12. FreshIsStored'
  BY <1>1 DEF Inv, FreshIsStored, refresh
<1>13. WrittenIsStored'
  BY <1>1, <1>8 DEF Inv, WrittenIsStored, At
<1> QED BY <1>10, <1>11, <1>12, <1>13 DEF Inv


-----------------------------------------------------------------------------
\* The steps of a refresh, and a restart.
LEMMA ListObjectsInv ==
    ASSUME Inv, NEW i \in Instances, ListObjects(i)
    PROVE  Inv'
<1>1. UNCHANGED <<bucket, up, cache, lock, op, failures>>
  BY DEF ListObjects
<1>2. TypeOK'
  BY <1>1, EmptyIsStore DEF ListObjects, Inv, TypeOK
<1>3. ServedIsStored' /\ WrittenIsStored'
  BY <1>1 DEF Inv, ServedIsStored, WrittenIsStored, At
<1>4. FreshIsStored'
  BY <1>1, EmptyIsStore DEF ListObjects, Inv, TypeOK, FreshIsStored
<1> QED BY <1>2, <1>3, <1>4 DEF Inv

LEMMA FirstListFailsInv ==
    ASSUME Inv, NEW i \in Instances, FirstListFails(i)
    PROVE  Inv'
<1>1. UNCHANGED <<bucket, cache, lock, op, refresh>> /\ up' = [up EXCEPT ![i] = TRUE] /\ Fail
  BY DEF FirstListFails
<1>2. failures' \in 0..MaxFailures /\ up' \in [Instances -> BOOLEAN]
  BY <1>1, FailBound DEF Inv, TypeOK
<1>3. TypeOK'
  BY <1>1, <1>2 DEF Inv, TypeOK, refresh
<1> QED BY <1>1, <1>3 DEF Inv, ServedIsStored, FreshIsStored, WrittenIsStored, At, refresh

\* An object that is read is the bucket's.
LEMMA GetObjectInv ==
    ASSUME Inv, NEW i \in Instances, NEW id \in Ids, GetObject(i, id)
    PROVE  Inv'
<1>1. /\ UNCHANGED <<bucket, up, cache, lock, op, refreshing>>
      /\ todo' = [todo EXCEPT ![i] = @ \ {id}]
      /\ \/ fresh' = [fresh EXCEPT ![i][id] = bucket[id]] /\ UNCHANGED failures
         \/ Fail /\ UNCHANGED fresh
  BY DEF GetObject
<1>2. failures' \in 0..MaxFailures /\ todo' \in [Instances -> SUBSET Ids]
  BY <1>1, FailBound DEF Inv, TypeOK
<1>3. fresh' \in [Instances -> Stores]
        /\ \A j \in Instances : \A other \in Ids : Exists(fresh'[j], other) => Exists(bucket, other)
  <2>1. CASE UNCHANGED fresh
    BY <2>1 DEF Inv, TypeOK, FreshIsStored
  <2>2. CASE fresh' = [fresh EXCEPT ![i][id] = bucket[id]]
    <3> DEFINE new == [fresh[i] EXCEPT ![id] = bucket[id]]
    <3>1. new \in Stores
      BY DEF Inv, TypeOK, Stores
    <3>2. \A other \in Ids : Exists(new, other) => Exists(bucket, other)
      BY DEF Inv, TypeOK, Stores, FreshIsStored, Exists
    <3>3. fresh' = [fresh EXCEPT ![i] = new]
      BY <2>2
    <3> HIDE DEF new
    <3>4. fresh' \in [Instances -> Stores] /\ fresh'[i] = new
            /\ \A j \in Instances : j # i => fresh'[j] = fresh[j]
      BY <3>1, <3>3 DEF Inv, TypeOK
    <3> QED BY <3>2, <3>4 DEF Inv, FreshIsStored
  <2> QED BY <1>1, <2>1, <2>2
<1>4. TypeOK'
  BY <1>1, <1>2, <1>3 DEF Inv, TypeOK
<1>5. ServedIsStored' /\ WrittenIsStored' /\ FreshIsStored'
  BY <1>1, <1>3 DEF Inv, ServedIsStored, WrittenIsStored, FreshIsStored, At
<1> QED BY <1>4, <1>5 DEF Inv

LEMMA SwapCacheInv ==
    ASSUME Inv, NEW i \in Instances, SwapCache(i)
    PROVE  Inv'
<1>1. /\ UNCHANGED <<bucket, lock, op, todo, failures>>
      /\ cache' = [cache EXCEPT ![i] = fresh[i]]
      /\ fresh' = [fresh EXCEPT ![i] = EmptyStore]
      /\ up' = [up EXCEPT ![i] = TRUE] /\ refreshing' = [refreshing EXCEPT ![i] = FALSE]
  BY DEF SwapCache
<1>2. TypeOK'
  BY <1>1, EmptyIsStore DEF Inv, TypeOK
<1>3. ServedIsStored'
  BY <1>1 DEF Inv, TypeOK, ServedIsStored, FreshIsStored
<1>4. FreshIsStored'
  BY <1>1, EmptyIsStore DEF Inv, TypeOK, FreshIsStored
<1>5. WrittenIsStored'
  BY <1>1 DEF Inv, WrittenIsStored, At
<1> QED BY <1>2, <1>3, <1>4, <1>5 DEF Inv

\* A server that starts again has nothing that is not in the bucket.
LEMMA RestartInv ==
    ASSUME Inv, NEW i \in Instances, Restart(i)
    PROVE  Inv'
<1>1. /\ UNCHANGED <<bucket, failures>>
      /\ up' = [up EXCEPT ![i] = FALSE]
      /\ cache' = [cache EXCEPT ![i] = EmptyStore]
      /\ lock' = [lock EXCEPT ![i] = None]
      /\ todo' = [todo EXCEPT ![i] = {}]
      /\ fresh' = [fresh EXCEPT ![i] = EmptyStore]
      /\ refreshing' = [refreshing EXCEPT ![i] = FALSE]
      /\ op' = [t \in Tasks |-> IF op[t] # None /\ op[t].at = i THEN None ELSE op[t]]
  BY DEF Restart
<1>2. /\ up' \in [Instances -> BOOLEAN] /\ lock' \in [Instances -> Tasks \cup {None}]
      /\ todo' \in [Instances -> SUBSET Ids] /\ refreshing' \in [Instances -> BOOLEAN]
      /\ cache' \in [Instances -> Stores] /\ fresh' \in [Instances -> Stores]
      /\ op' \in [Tasks -> Operations \cup {None}]
  BY <1>1, EmptyIsStore DEF Inv, TypeOK
<1>3. \A t \in Tasks : op'[t] # None => op'[t] = op[t]
  BY <1>1
<1>4. ASSUME NEW j \in Instances, lock'[j] # None
      PROVE  op'[lock'[j]] # None /\ op'[lock'[j]].kind = "status" /\ op'[lock'[j]].at = j
  <2>1. j # i /\ lock'[j] = lock[j]
    BY <1>1, <1>4 DEF Inv, TypeOK
  <2>2. lock[j] \in Tasks /\ op[lock[j]] # None /\ op[lock[j]].kind = "status" /\ op[lock[j]].at = j
    BY <1>4, <2>1 DEF Inv, TypeOK
  <2>3. op'[lock[j]] = op[lock[j]]
    BY <1>1, <2>1, <2>2
  <2> QED BY <2>1, <2>2, <2>3
<1>5. TypeOK'
  BY <1>1, <1>2, <1>4 DEF Inv, TypeOK
<1>6. ServedIsStored' /\ FreshIsStored'
  BY <1>1, EmptyIsStore DEF Inv, TypeOK, ServedIsStored, FreshIsStored
<1>7. WrittenIsStored'
  BY <1>1, <1>3 DEF Inv, WrittenIsStored, At
<1> QED BY <1>5, <1>6, <1>7 DEF Inv

-----------------------------------------------------------------------------
\* Every step keeps the invariant.
LEMMA NextInv == Inv /\ [Next]_vars => Inv'
<1> SUFFICES ASSUME Inv, [Next]_vars PROVE Inv'
  OBVIOUS
<1>1. ASSUME NEW t \in Tasks, TaskStep(t) PROVE Inv'
  BY <1>1, PreparePutInv, PutObjectInv, PutObjectFailsInv, PutCacheInv DEF TaskStep
<1>2. ASSUME NEW t \in Tasks, NEW i \in Instances, StartStep(t, i) PROVE Inv'
  BY <1>2, StartPublishInv, StartSetStatusInv, StartDownloadInv DEF StartStep
<1>3. ASSUME NEW i \in Instances, RefreshStep(i) PROVE Inv'
  BY <1>3, ListObjectsInv, FirstListFailsInv, GetObjectInv, SwapCacheInv DEF RefreshStep
<1>4. ASSUME NEW i \in Instances, Restart(i) PROVE Inv'
  BY <1>4, RestartInv
<1>5. CASE UNCHANGED vars
  BY <1>5 DEF vars, refresh, Inv, TypeOK, ServedIsStored, FreshIsStored, WrittenIsStored, At
<1> QED BY <1>1, <1>2, <1>3, <1>4, <1>5 DEF Next

\* The state of every server, of the bucket and of the operations has its type,
\* and a mutex is held only by a SetStatus in progress on that server.
THEOREM TypeCorrect == Spec => []TypeOK
<1>1. Inv => TypeOK
  BY DEF Inv
<1> QED BY <1>1, InitInv, NextInv, PTL DEF Spec

\* No server serves a version that S3 does not have, whatever operations,
\* refreshes, failures and restarts interleave (s3store.go:319).
THEOREM ServedAreStored == Spec => []ServedIsStored
<1>1. Inv => ServedIsStored
  BY DEF Inv
<1> QED BY <1>1, InitInv, NextInv, PTL DEF Spec

-----------------------------------------------------------------------------
(* The file store: the memory operations.                                  *)

LEMMA PutIsStore ==
    ASSUME NEW store \in Stores, NEW id \in Ids, NEW upload \in Uploads
    PROVE  Put(store, id, NewPackage(upload)) \in Stores
<1> DEFINE pkg == NewPackage(upload)
<1>1. pkg \in Packages /\ [pkg EXCEPT !.status = "active"] \in Packages
  BY DEF NewPackage, Packages, ValidStatuses
<1>2. PICK new \in Packages : new = IF Exists(store, id) THEN pkg
                                    ELSE [pkg EXCEPT !.status = "active"]
  BY <1>1
<1>3. Put(store, id, pkg) = [store EXCEPT ![id] = new]
  BY <1>2 DEF Put
<1>4. [store EXCEPT ![id] = new] \in Stores
  BY DEF Stores
<1> QED BY <1>3, <1>4

LEMMA SetStatusIsStore ==
    ASSUME NEW store \in Stores, NEW id \in Ids, Exists(store, id),
           NEW status \in ValidStatuses
    PROVE  SetStatus(store, id, status) \in Stores
<1> DEFINE pkg == [store[id] EXCEPT !.status = status]
<1>1. pkg \in Packages
  BY Entries DEF Packages
<1>2. SetStatus(store, id, status) = [store EXCEPT ![id] = pkg]
  BY DEF SetStatus
<1> HIDE DEF pkg
<1> QED BY <1>1, <1>2 DEF Stores

\* A download changes nothing that a save is meant to keep.
LEMMA DownloadKeepsContent ==
    ASSUME NEW store \in Stores, NEW id \in Ids, Exists(store, id)
    PROVE  /\ IncrementDownloads(store, id) \in Stores
           /\ Content(IncrementDownloads(store, id)) = Content(store)
<1> DEFINE pkg == [store[id] EXCEPT !.downloads = @ + 1]
           new == [store EXCEPT ![id] = pkg]
<1>1. store[id] \in Packages
  BY Entries
<1>2. store[id].downloads + 1 \in Nat
  <2>1. store[id].downloads \in Nat
    BY <1>1 DEF Packages
  <2> QED BY <2>1
<1>3. pkg \in Packages /\ pkg.upload = store[id].upload /\ pkg.status = store[id].status
  BY <1>1, <1>2 DEF Packages
<1>4. IncrementDownloads(store, id) = new
  BY DEF IncrementDownloads
<1>5. new \in Stores /\ new[id] = pkg /\ \A other \in Ids : other # id => new[other] = store[other]
  <2> HIDE DEF pkg
  <2> QED BY <1>3 DEF Stores
<1>6. Exists(new, id)
  BY <1>3, <1>5, NotFoundAssumption DEF Exists
<1> HIDE DEF pkg, new
<1>7. ASSUME NEW other \in Ids
      PROVE  /\ Exists(new, other) = Exists(store, other)
             /\ Exists(new, other) => /\ new[other].upload = store[other].upload
                                      /\ new[other].status = store[other].status
  <2>1. CASE other = id
    BY <1>3, <1>5, <1>6, <2>1
  <2>2. CASE other # id
    BY <1>5, <2>2 DEF Exists
  <2> QED BY <2>1, <2>2
<1>8. Content(new) = Content(store)
  BY <1>7 DEF Content
<1> QED BY <1>4, <1>5, <1>8

\* What is loaded is a store, and a store is loaded as it is.
LEMMA LoadedIsStore ==
    /\ \A content \in Stores \cup {Empty, Torn} : Loaded(content) \in Stores
    /\ \A store \in Stores : Loaded(store) = store
    /\ Loaded(Empty) = EmptyStore
BY EmptyIsStore, FileValuesAssumption DEF Loaded

-----------------------------------------------------------------------------
(* Types.                                                                  *)

LEMMA FileTypeInit == FInit => FTypeOK
BY EmptyIsStore, LoadedIsStore DEF FInit, NewFileStore, FTypeOK

LEMMA BeginType ==
    ASSUME FTypeOK, NEW w \in Workers, Begin(w)
    PROVE  data' \in Stores /\ pc' = [pc EXCEPT ![w] = "snapshot"] /\ UNCHANGED <<file, snapshot>>
<1>1. ASSUME NEW id \in Ids, NEW upload \in Uploads, StorePut(w, id, upload)
      PROVE  data' \in Stores /\ pc' = [pc EXCEPT ![w] = "snapshot"] /\ UNCHANGED <<file, snapshot>>
  BY <1>1, PutIsStore DEF StorePut, Goto, FTypeOK
<1>2. ASSUME NEW id \in Ids, NEW status \in ValidStatuses, StoreSetStatus(w, id, status)
      PROVE  data' \in Stores /\ pc' = [pc EXCEPT ![w] = "snapshot"] /\ UNCHANGED <<file, snapshot>>
  BY <1>2, SetStatusIsStore DEF StoreSetStatus, Goto, FTypeOK
<1> QED BY <1>1, <1>2 DEF Begin

LEMMA FileTypeNext == FTypeOK /\ [FNext]_allVars => FTypeOK'
<1> SUFFICES ASSUME FTypeOK, [FNext]_allVars PROVE FTypeOK'
  OBVIOUS
<1> USE DEF FTypeOK
<1>1. ASSUME NEW w \in Workers, Begin(w), disturbed' = ~Quiet PROVE FTypeOK'
  BY <1>1, BeginType
<1>2. ASSUME NEW w \in Workers, Save(w),
             disturbed' = (disturbed \/ (pc[w] = "truncate" /\ pc'[w] = "idle"))
      PROVE  FTypeOK'
  <2>1. disturbed' \in BOOLEAN
    BY <1>2
  <2>2. CASE TakeSnapshot(w)
    BY <2>1, <2>2 DEF TakeSnapshot, Goto
  <2>3. CASE Truncate(w)
    BY <2>1, <2>3, EmptyIsStore DEF Truncate, Return, Goto
  <2>4. CASE WriteFile(w)
    BY <2>1, <2>4, EmptyIsStore DEF WriteFile, Return, Goto
  <2> QED BY <1>2, <2>2, <2>3, <2>4 DEF Save
<1>3. ASSUME NEW w \in Workers, WriteFails(w), disturbed' = TRUE PROVE FTypeOK'
  BY <1>3, EmptyIsStore DEF WriteFails, Return, Goto
<1>4. ASSUME NEW id \in Ids, Download(id), UNCHANGED disturbed PROVE FTypeOK'
  BY <1>4, DownloadKeepsContent DEF Download
<1>5. CASE StartAgain /\ disturbed' = FALSE
  <2>1. file' \in Stores \cup {Empty, Torn}
    BY <1>5 DEF StartAgain
  <2>2. data' \in Stores
    BY <1>5, <2>1, LoadedIsStore DEF StartAgain
  <2> QED BY <1>5, <2>1, <2>2, EmptyIsStore DEF StartAgain
<1>6. CASE UNCHANGED allVars
  BY <1>6 DEF allVars, fileVars
<1> QED BY <1>1, <1>2, <1>3, <1>4, <1>5, <1>6 DEF FNext

\* A restarted store holds packages again, whatever the crash left in the file
\* (store.go:312-333, load).
THEOREM FileTypeCorrect == FSpec => []FTypeOK
BY FileTypeInit, FileTypeNext, PTL DEF FSpec

-----------------------------------------------------------------------------
(* Durability.                                                             *)

\* While nothing disturbed it, the operation in progress is the only one, what
\* its save is about to write is what the memory holds, and it finds the file
\* as its own truncation left it; with none in progress the file is up to date.
SaveRunsAlone ==
    ~disturbed =>
        /\ \A w, v \in Workers : pc[w] # "idle" /\ pc[v] # "idle" => w = v
        /\ Quiet => Content(Loaded(file)) = Content(data)
        /\ \A w \in Workers :
              /\ pc[w] \in {"truncate", "write"} => Content(snapshot[w]) = Content(data)
              /\ pc[w] = "write" => file = Empty

LEMMA AloneInit == FInit => SaveRunsAlone
BY DEF FInit, NewFileStore, SaveRunsAlone, Quiet

\* An operation that begins alone is the only one.
LEMMA AloneBegin ==
    ASSUME FTypeOK, NEW w \in Workers, Begin(w), disturbed' = ~Quiet
    PROVE  SaveRunsAlone'
<1> SUFFICES ASSUME Quiet PROVE SaveRunsAlone'
  BY DEF SaveRunsAlone
<1>1. pc' \in [Workers -> {"idle", "snapshot"}]
        /\ pc'[w] = "snapshot" /\ \A v \in Workers : v # w => pc'[v] = "idle"
  BY BeginType DEF Quiet, FTypeOK
<1>2. ~Quiet'
  BY <1>1 DEF Quiet
<1> QED BY <1>1, <1>2 DEF SaveRunsAlone

LEMMA AloneSave ==
    ASSUME FTypeOK, SaveRunsAlone, NEW w \in Workers, Save(w),
           disturbed' = (disturbed \/ (pc[w] = "truncate" /\ pc'[w] = "idle"))
    PROVE  SaveRunsAlone'
<1> SUFFICES ASSUME ~disturbed, ~(pc[w] = "truncate" /\ pc'[w] = "idle") PROVE SaveRunsAlone'
  BY DEF SaveRunsAlone
<1>1. pc[w] # "idle" /\ \A v \in Workers : v # w => pc[v] = "idle"
  BY DEF SaveRunsAlone, Save, TakeSnapshot, Truncate, WriteFile
<1>2. CASE TakeSnapshot(w)
  <2>1. /\ pc'[w] = "truncate" /\ snapshot'[w] = data
        /\ \A v \in Workers : v # w => pc'[v] = "idle"
        /\ UNCHANGED <<data, file>>
    BY <1>1, <1>2 DEF TakeSnapshot, Goto, FTypeOK
  <2>2. Content(snapshot'[w]) = Content(data)
    BY <2>1
  <2>3. ~Quiet'
    BY <2>1 DEF Quiet
  <2> QED BY <2>1, <2>2, <2>3 DEF SaveRunsAlone, Content, Exists
<1>3. CASE Truncate(w)
  <2>1. /\ pc[w] = "truncate" /\ pc'[w] = "write" /\ file' = Empty
        /\ \A v \in Workers : v # w => pc'[v] = "idle"
        /\ UNCHANGED <<data, snapshot>>
    BY <1>1, <1>3 DEF Truncate, Return, Goto, FTypeOK
  <2>2. Content(snapshot[w]) = Content(data)
    BY <2>1 DEF SaveRunsAlone
  <2>3. ~Quiet'
    BY <2>1 DEF Quiet
  <2> QED BY <2>1, <2>2, <2>3 DEF SaveRunsAlone, Content, Exists
<1>4. CASE WriteFile(w)
  <2>1. /\ file = Empty /\ Content(snapshot[w]) = Content(data)
    BY <1>4 DEF SaveRunsAlone, WriteFile
  <2>2. ~MayOutlast(file, snapshot[w])
    BY <2>1, FileValuesAssumption DEF MayOutlast
  <2>3. file' = snapshot[w] /\ UNCHANGED data /\ \A v \in Workers : pc'[v] = "idle"
    BY <1>1, <1>4, <2>2 DEF WriteFile, Return, Goto, FTypeOK
  <2>4. Loaded(file') = snapshot[w]
    BY <2>3, LoadedIsStore DEF FTypeOK
  <2>5. (Content(Loaded(file)) = Content(data))'
    BY <2>1, <2>3, <2>4 DEF Content, Exists
  <2> QED BY <2>3, <2>5 DEF SaveRunsAlone
<1> QED BY <1>2, <1>3, <1>4 DEF Save

LEMMA AloneDownload ==
    ASSUME FTypeOK, SaveRunsAlone, NEW id \in Ids, Download(id), UNCHANGED disturbed
    PROVE  SaveRunsAlone'
<1>1. UNCHANGED <<file, pc, snapshot>>
  BY DEF Download
<1>2. Content(data)' = Content(data)
  <2>1. Content(IncrementDownloads(data, id)) = Content(data)
    BY DownloadKeepsContent DEF Download, FTypeOK
  <2>2. data' = IncrementDownloads(data, id)
    BY DEF Download
  <2> QED BY <2>1, <2>2 DEF Content, Exists
<1>3. Content(Loaded(file))' = Content(Loaded(file))
  BY <1>1 DEF Content, Exists, Loaded
<1>4. \A w \in Workers : Content(snapshot'[w]) = Content(snapshot[w])
  BY <1>1
<1> QED BY <1>1, <1>2, <1>3, <1>4 DEF SaveRunsAlone, Quiet

LEMMA AloneNext == FTypeOK /\ SaveRunsAlone /\ [FNext]_allVars => SaveRunsAlone'
<1> SUFFICES ASSUME FTypeOK, SaveRunsAlone, [FNext]_allVars PROVE SaveRunsAlone'
  OBVIOUS
<1>1. ASSUME NEW w \in Workers, WriteFails(w), disturbed' = TRUE PROVE SaveRunsAlone'
  BY <1>1 DEF SaveRunsAlone
<1>2. CASE StartAgain
  <2>1. data' = Loaded(file') /\ \A w \in Workers : pc'[w] = "idle"
    BY <1>2 DEF StartAgain
  <2>2. (Content(Loaded(file)) = Content(data))'
    BY <2>1 DEF Loaded
  <2> QED BY <2>1, <2>2 DEF SaveRunsAlone
<1>3. CASE UNCHANGED allVars
  BY <1>3 DEF allVars, fileVars, SaveRunsAlone, Quiet, Content, Exists, Loaded
<1> QED BY <1>1, <1>2, <1>3, AloneBegin, AloneSave, AloneDownload DEF FNext

\* A save that ran alone to its end leaves in the file every package the memory
\* holds, with its status, whatever earlier saves and crashes did to the file
\* (store.go:335-352, save; store.go:312-333, load).
THEOREM SoloSaveIsDurableHolds == FSpec => []SoloSaveIsDurable
<1>1. FInit => FTypeOK /\ SaveRunsAlone
  BY FileTypeInit, AloneInit
<1>2. FTypeOK /\ SaveRunsAlone /\ [FNext]_allVars => FTypeOK' /\ SaveRunsAlone'
  BY FileTypeNext, AloneNext
<1>3. SaveRunsAlone => SoloSaveIsDurable
  BY DEF SaveRunsAlone, SoloSaveIsDurable
<1> QED BY <1>1, <1>2, <1>3, PTL DEF FSpec

=============================================================================
