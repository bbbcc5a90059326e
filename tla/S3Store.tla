------------------------------ MODULE S3Store ------------------------------
(***************************************************************************)
(* The S3-backed store (internal/store/s3store.go) in the deployed form:   *)
(* several instances of the server, each with a cache of its own, over one *)
(* bucket.  A cache is filled by reading the bucket object by object, in   *)
(* the background; the operations change the cache and the bucket in two   *)
(* steps, in an order that differs from one operation to the next.         *)
(*                                                                         *)
(* A task is one operation in progress: Put with the publish handler's     *)
(* duplicate check before it, SetStatus, or the goroutine that             *)
(* IncrementDownloads leaves behind.                                       *)
(***************************************************************************)
EXTENDS MemoryStore

CONSTANTS
    Instances,      \* servers
    Tasks,          \* operations that may be in progress at once
    None,           \* no operation, and nobody holding a lock
    Settable,       \* statuses the status endpoint is asked to set
    MaxFailures     \* bound on the S3 calls that fail

ASSUME SettableAssumption == Settable \subseteq ValidStatuses
ASSUME NoneAssumption == None \notin Tasks
ASSUME MaxFailuresAssumption == MaxFailures \in Nat

Operations ==
    [kind : {"publish", "status", "download"}, at : Instances, id : Ids,
     pkg : Packages, stage : {"checked", "put", "cache"}]

ASSUME NoOperationAssumption == None \notin Operations

VARIABLES
    bucket,     \* id -> the package object in S3
    up,         \* instance -> NewS3Store has returned
    cache,      \* instance -> its cache
    lock,       \* instance -> the SetStatus that holds its mutex, or None
    op,         \* task -> the operation it runs
    todo,       \* instance -> objects its refresh has listed and not yet read
    fresh,      \* instance -> the cache its refresh is building
    refreshing, \* instance -> whether a refresh is in progress
    failures    \* S3 calls that have failed

refresh == <<todo, fresh, refreshing>>
vars == <<bucket, up, cache, lock, op, refresh, failures>>

Init ==
    /\ bucket = EmptyStore
    /\ up = [i \in Instances |-> FALSE]
    /\ cache = [i \in Instances |-> EmptyStore]
    /\ lock = [i \in Instances |-> None]
    /\ op = [t \in Tasks |-> None]
    /\ todo = [i \in Instances |-> {}]
    /\ fresh = [i \in Instances |-> EmptyStore]
    /\ refreshing = [i \in Instances |-> FALSE]
    /\ failures = 0

Fail == failures < MaxFailures /\ failures' = failures + 1

Unlocked(i) == lock[i] = None

\* A server takes requests after its first attempt to load the bucket.
Serves(i) == up[i] /\ Unlocked(i)

Start(t, kind, i, id, pkg, stage) ==
    /\ op[t] = None
    /\ op' = [op EXCEPT ![t] = [kind |-> kind, at |-> i, id |-> id, pkg |-> pkg,
                                stage |-> stage]]

Finish(t) == op' = [op EXCEPT ![t] = None]

At(t, stage) == op[t] # None /\ op[t].stage = stage

-----------------------------------------------------------------------------
\* The publish handler's Store.Get found no such version.
StartPublish(t, i, id, upload) ==
    /\ Serves(i)
    /\ ~Exists(cache[i], id)
    /\ Start(t, "publish", i, id, NewPackage(upload), "checked")
    /\ UNCHANGED <<bucket, up, cache, lock, refresh, failures>>

\* Variant: Put fills the cache before the bucket.
PreparePutCaching(t) ==
    LET pkg == Put(cache[op[t].at], op[t].id, op[t].pkg)[op[t].id] IN
    /\ At(t, "checked")
    /\ Unlocked(op[t].at)
    /\ op' = [op EXCEPT ![t].stage = "put", ![t].pkg = pkg]
    /\ cache' = [cache EXCEPT ![op[t].at][op[t].id] = pkg]
    /\ UNCHANGED <<bucket, up, lock, refresh, failures>>

\* Put looks at the cache once more for the status of a new package.
PreparePut(t) ==
    /\ At(t, "checked")
    /\ Unlocked(op[t].at)
    /\ op' = [op EXCEPT ![t].stage = "put",
                        ![t].pkg = Put(cache[op[t].at], op[t].id, @)[op[t].id]]
    /\ UNCHANGED <<bucket, up, cache, lock, refresh, failures>>

\* SetStatus changes the cache, and keeps the mutex until S3 has answered.
StartSetStatus(t, i, id, status) ==
    /\ Serves(i)
    /\ Exists(cache[i], id)
    /\ cache' = [cache EXCEPT ![i] = SetStatus(@, id, status)]
    /\ lock' = [lock EXCEPT ![i] = t]
    /\ Start(t, "status", i, id, cache'[i][id], "put")
    /\ UNCHANGED <<bucket, up, refresh, failures>>

\* IncrementDownloads changes the cache and leaves the object to a goroutine.
StartDownload(t, i, id) ==
    /\ Serves(i)
    /\ Exists(cache[i], id)
    /\ cache[i][id].downloads < MaxDownloads
    /\ cache' = [cache EXCEPT ![i] = IncrementDownloads(@, id)]
    /\ Start(t, "download", i, id, cache'[i][id], "put")
    /\ UNCHANGED <<bucket, up, lock, refresh, failures>>

\* Variant: SetStatus returns with its mutex locked when S3 fails.
AfterPutLocked(t, ok) ==
    /\ IF op[t].kind = "publish" /\ ok
       THEN op' = [op EXCEPT ![t].stage = "cache"]
       ELSE Finish(t)
    /\ lock' = [i \in Instances |-> IF ok /\ lock[i] = t THEN None ELSE lock[i]]
    /\ UNCHANGED <<up, cache, refresh>>

\* putObject: S3 has stored the object, and only Put has more to do; a call
\* that fails may have stored it too.
AfterPut(t, ok) ==
    /\ IF op[t].kind = "publish" /\ ok
       THEN op' = [op EXCEPT ![t].stage = "cache"]
       ELSE Finish(t)
    /\ lock' = [i \in Instances |-> IF lock[i] = t THEN None ELSE lock[i]]
    /\ UNCHANGED <<up, cache, refresh>>

PutObject(t) ==
    /\ At(t, "put")
    /\ bucket' = [bucket EXCEPT ![op[t].id] = op[t].pkg]
    /\ \/ AfterPut(t, TRUE) /\ UNCHANGED failures
       \/ AfterPut(t, FALSE) /\ Fail

PutObjectFails(t) ==
    /\ At(t, "put")
    /\ AfterPut(t, FALSE)
    /\ Fail
    /\ UNCHANGED bucket

\* The last step of Put: the cache gets what this call wrote.
PutCache(t) ==
    LET i == op[t].at IN
    /\ At(t, "cache")
    /\ Unlocked(i)
    /\ cache' = [cache EXCEPT ![i][op[t].id] = op[t].pkg]
    /\ Finish(t)
    /\ UNCHANGED <<bucket, up, lock, refresh, failures>>

-----------------------------------------------------------------------------
\* refresh, every five minutes: list, read each object, replace the cache.
ListObjects(i) ==
    /\ ~refreshing[i]
    /\ refreshing' = [refreshing EXCEPT ![i] = TRUE]
    /\ todo' = [todo EXCEPT ![i] = {id \in Ids : Exists(bucket, id)}]
    /\ fresh' = [fresh EXCEPT ![i] = EmptyStore]
    /\ UNCHANGED <<bucket, up, cache, lock, op, failures>>

\* A list that fails leaves the cache as it is; the first one, empty.
FirstListFails(i) ==
    /\ ~up[i] /\ ~refreshing[i]
    /\ Fail
    /\ up' = [up EXCEPT ![i] = TRUE]
    /\ UNCHANGED <<bucket, cache, lock, op, refresh>>

\* An object that cannot be read is left out of the new cache.
GetObject(i, id) ==
    /\ id \in todo[i]
    /\ todo' = [todo EXCEPT ![i] = @ \ {id}]
    /\ \/ fresh' = [fresh EXCEPT ![i][id] = bucket[id]] /\ UNCHANGED failures
       \/ Fail /\ UNCHANGED fresh
    /\ UNCHANGED <<bucket, up, cache, lock, op, refreshing>>

\* Variant: the refresh only adds what the cache lacks.
MergeCache(i) ==
    /\ refreshing[i] /\ todo[i] = {}
    /\ Unlocked(i)
    /\ cache' = [cache EXCEPT ![i] =
          [id \in Ids |-> IF Exists(@, id) THEN @[id] ELSE fresh[i][id]]]
    /\ refreshing' = [refreshing EXCEPT ![i] = FALSE]
    /\ fresh' = [fresh EXCEPT ![i] = EmptyStore]
    /\ up' = [up EXCEPT ![i] = TRUE]
    /\ UNCHANGED <<bucket, lock, op, todo, failures>>

SwapCache(i) ==
    /\ refreshing[i] /\ todo[i] = {}
    /\ Unlocked(i)
    /\ cache' = [cache EXCEPT ![i] = fresh[i]]
    /\ refreshing' = [refreshing EXCEPT ![i] = FALSE]
    /\ fresh' = [fresh EXCEPT ![i] = EmptyStore]
    /\ up' = [up EXCEPT ![i] = TRUE]
    /\ UNCHANGED <<bucket, lock, op, todo, failures>>

RefreshStep(i) ==
    ListObjects(i) \/ FirstListFails(i) \/ (\E id \in Ids : GetObject(i, id)) \/ SwapCache(i)

\* The process ends and another one starts in its place: its cache is empty
\* until its first refresh, and its operations are lost where they are.
Restart(i) ==
    /\ up' = [up EXCEPT ![i] = FALSE]
    /\ cache' = [cache EXCEPT ![i] = EmptyStore]
    /\ lock' = [lock EXCEPT ![i] = None]
    /\ op' = [t \in Tasks |-> IF op[t] # None /\ op[t].at = i THEN None ELSE op[t]]
    /\ todo' = [todo EXCEPT ![i] = {}]
    /\ fresh' = [fresh EXCEPT ![i] = EmptyStore]
    /\ refreshing' = [refreshing EXCEPT ![i] = FALSE]
    /\ UNCHANGED <<bucket, failures>>

StartStep(t, i) ==
    \E id \in Ids :
        \/ \E upload \in Uploads : StartPublish(t, i, id, upload)
        \/ \E status \in Settable : StartSetStatus(t, i, id, status)
        \/ StartDownload(t, i, id)

TaskStep(t) == PreparePut(t) \/ PutObject(t) \/ PutObjectFails(t) \/ PutCache(t)

Next ==
    \/ \E t \in Tasks : TaskStep(t) \/ \E i \in Instances : StartStep(t, i)
    \/ \E i \in Instances : RefreshStep(i) \/ Restart(i)

Spec == Init /\ [][Next]_vars

\* The ticker of refreshLoop fires for as long as the process lives; calls
\* to S3 end by their timeouts.
FairSpec ==
    /\ Spec
    /\ \A i \in Instances : WF_vars(RefreshStep(i))
    /\ \A t \in Tasks : WF_vars(TaskStep(t))

-----------------------------------------------------------------------------
TypeOK ==
    /\ bucket \in Stores
    /\ up \in [Instances -> BOOLEAN]
    /\ cache \in [Instances -> Stores]
    /\ lock \in [Instances -> Tasks \cup {None}]
    /\ op \in [Tasks -> Operations \cup {None}]
    /\ todo \in [Instances -> SUBSET Ids]
    /\ fresh \in [Instances -> Stores]
    /\ refreshing \in [Instances -> BOOLEAN]
    /\ failures \in 0..MaxFailures
    /\ \A i \in Instances : lock[i] # None =>
          op[lock[i]] # None /\ op[lock[i]].kind = "status" /\ op[lock[i]].at = i

\* No instance serves a version that S3 does not have, so none is lost with
\* the instance, whatever fails or restarts (s3store.go:319, putObject before
\* the cache).
ServedIsStored ==
    \A i \in Instances : \A id \in Ids :
        Exists(cache[i], id) => Exists(bucket, id)

\* When the operations and the restarts come to an end, every cache comes to
\* agree with the bucket, and so with every other cache.
Idle == \A t \in Tasks : op[t] = None

CachesConverge ==
    (<>[]Idle /\ \A i \in Instances : <>[][~Restart(i)]_vars)
        => <>[](\A i \in Instances : cache[i] = bucket)

-----------------------------------------------------------------------------
\* What the tests say of the store, and this store does not do:
\* store_test.go:233 (TestSetStatus), a status that was set is read back.  In
\* the bucket, a download that is counted never changes a version's status.
StatusIsKept ==
    [][\A t \in Tasks :
         At(t, "put") /\ op[t].kind = "download" /\ op'[t] = None
            /\ Exists(bucket, op[t].id)
         => bucket'[op[t].id].status = bucket[op[t].id].status]_vars

=============================================================================
