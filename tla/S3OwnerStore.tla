---------------------------- MODULE S3OwnerStore ----------------------------
(***************************************************************************)
(* The owner store over S3 (S3OwnerStore of internal/auth/owner.go) on     *)
(* several servers, with the web UI handlers that command it               *)
(* (internal/server/ui.go) and the gates' GetByKey.  Each server keeps a   *)
(* memory store of its own; a command works on that memory, and then puts  *)
(* the whole Owner object to the bucket.                                   *)
(*                                                                         *)
(* A server runs at most one command and one reload at a time.  Commands   *)
(* that interleave within one server's memory, and the arrays that append  *)
(* leaves behind, are the subject of OwnerStore: here a ref's array is     *)
(* always its object's only one.                                           *)
(***************************************************************************)
EXTENDS Naturals, Sequences, FiniteSets

CONSTANTS
    Servers,        \* server processes
    Accounts,       \* GitHub accounts
    Keys,           \* fingerprints
    Objects,        \* names of the Owner objects in a server's memory
    Asked,          \* the kinds of command that are asked of the servers
    None,           \* nil, no command, and the value of an absent map entry
    MaxFailures     \* bound on the S3 calls that fail

ASSUME MaxFailuresAssumption == MaxFailures \in Nat

\* More names of objects than a server has pointers to objects.
ASSUME ObjectsAssumption ==
    /\ IsFiniteSet(Accounts) /\ IsFiniteSet(Keys) /\ IsFiniteSet(Objects)
    /\ Cardinality(Objects) > Cardinality(Accounts) + Cardinality(Keys) + 1

KeyActions == {"remove", "revoke", "activate", "grant", "withdraw"}
Kinds == {"login", "add"} \cup KeyActions

ASSUME AskedAssumption == Asked \subseteq Kinds

Records == [key : Keys, status : {"active", "revoked"}, permission : BOOLEAN]

\* An Owner in a server's memory, and an entry of ByKey.
OwnerObjects == [account : Accounts, cells : Seq(Records), length : Nat]
Refs == [object : Objects, index : Nat \ {0}]

Commands ==
    [kind : Kinds, account : Accounts, key : Keys \cup {None},
     phase : {"get", "load", "op", "save", "put"},
     object : Objects \cup {None}, data : Seq(Records) \cup {None}]

Reloads ==
    [key : Keys, todo : SUBSET Accounts, at : Accounts \cup {None},
     data : Seq(Records) \cup {None}]

ASSUME NoneAssumption ==
    /\ None \notin Accounts \cup Keys \cup Objects \cup Records \cup Refs
    /\ None \notin Seq(Records) \cup OwnerObjects \cup Commands \cup Reloads

VARIABLES
    bucket,     \* account -> the keys of its owner.json, or None
    owners,     \* server -> account -> the object its memory holds
    heap,       \* server -> object -> its account, the cells and length of Keys
    ref,        \* server -> fingerprint -> object and index of its record
    cmd,        \* server -> the command it runs
    reload,     \* server -> the GetByKey that is reading the bucket
    failures    \* S3 calls that have failed

memory == <<owners, heap, ref>>
vars == <<bucket, memory, cmd, reload, failures>>

Init ==
    /\ bucket = [o \in Accounts |-> None]
    /\ owners = [i \in Servers |-> [o \in Accounts |-> None]]
    /\ heap = [i \in Servers |-> [x \in Objects |-> None]]
    /\ ref = [i \in Servers |-> [k \in Keys |-> None]]
    /\ cmd = [i \in Servers |-> None]
    /\ reload = [i \in Servers |-> None]
    /\ failures = 0

Fail == failures < MaxFailures /\ failures' = failures + 1

-----------------------------------------------------------------------------
\* The memory of one server.  m is [owners, heap, ref]; memory operations are
\* functions of it, one for each critical section of MemoryOwnerStore.
Memory(i) == [owners |-> owners[i], heap |-> heap[i], ref |-> ref[i]]

NewObject(m) == CHOOSE x \in Objects : m.heap[x] = None

Slice(m, x) == SubSeq(m.heap[x].cells, 1, m.heap[x].length)

LinkedKeys(keys) == {keys[j].key : j \in DOMAIN keys}

Position(keys, k) == CHOOSE j \in DOMAIN keys : keys[j].key = k

\* Variant: Save leaves ByKey alone.
SaveOwnerOnly(m, x) == [m EXCEPT !.owners[m.heap[x].account] = x]

\* Save: x becomes its account's object, the refs of its keys point into it.
Save(m, x) ==
    LET keys == Slice(m, x) IN
    [m EXCEPT
        !.owners[m.heap[x].account] = x,
        !.ref = [k \in Keys |-> IF k \in LinkedKeys(keys)
                                THEN [object |-> x, index |-> Position(keys, k)]
                                ELSE @[k]]]

\* An Owner decoded from JSON, or a blank one.
Decode(m, o, keys) ==
    [m EXCEPT !.heap[NewObject(m)] =
        [account |-> o, cells |-> keys, length |-> Len(keys)]]

\* Variant: the new record's ref leads to the cell before it.
LinkBefore(m, x, k) ==
    LET n == m.heap[x].length
        record == [key |-> k, status |-> "active", permission |-> FALSE]
    IN
    [m EXCEPT
        !.heap[x] = [account |-> @.account, length |-> n + 1,
                     cells |-> Append(SubSeq(@.cells, 1, n), record)],
        !.ref[k] = [object |-> x, index |-> n]]

\* AddKey: append, and the new record's ref.
Link(m, x, k) ==
    LET n == m.heap[x].length + 1
        record == [key |-> k, status |-> "active", permission |-> FALSE]
    IN
    [m EXCEPT
        !.heap[x] = [account |-> @.account, length |-> n,
                     cells |-> IF n <= Len(@.cells) THEN [@.cells EXCEPT ![n] = record]
                               ELSE Append(@.cells, record)],
        !.ref[k] = [object |-> x, index |-> n]]

\* RemoveKey: the records behind the key's move one cell forward in place.
Unlink(m, x, k) ==
    LET p == Position(Slice(m, x), k)
        n == m.heap[x].length
    IN
    [m EXCEPT
        !.heap[x] = [account |-> @.account, length |-> n - 1,
                     cells |-> [j \in DOMAIN @.cells |->
                                  IF p <= j /\ j < n THEN @.cells[j + 1] ELSE @.cells[j]]],
        !.ref[k] = None]

\* SetKeyStatus and SetPublishPermission, through the key's ref.
Changed(record, kind) ==
    IF kind \in {"revoke", "activate"}
    THEN [record EXCEPT !.status = IF kind = "revoke" THEN "revoked" ELSE "active"]
    ELSE [record EXCEPT !.permission = (kind = "grant")]

Change(m, k, kind) ==
    [m EXCEPT !.heap[m.ref[k].object].cells[m.ref[k].index] = Changed(@, kind)]

\* What GetByKey hands to the gates.
Gate(m, k) == m.heap[m.ref[k].object].cells[m.ref[k].index]

-----------------------------------------------------------------------------
\* The objects still in use by server i; the others are garbage.
InUse(i) ==
    {owners[i][o] : o \in Accounts}
        \cup {ref[i][k].object : k \in {k \in Keys : ref[i][k] # None}}
        \cup (IF cmd[i] = None THEN {} ELSE {cmd[i].object})

SetMemory(i, m) ==
    /\ owners' = [owners EXCEPT ![i] = m.owners]
    /\ ref' = [ref EXCEPT ![i] = m.ref]
    /\ heap' = [heap EXCEPT ![i] =
                  [x \in Objects |-> IF x \in InUse(i)' THEN m.heap[x] ELSE None]]

KeepMemory(i) == SetMemory(i, Memory(i))

Go(i, phase, x) == cmd' = [cmd EXCEPT ![i].phase = phase, ![i].object = x, ![i].data = None]

\* The handler renders the dashboard.
Finish(i) == cmd' = [cmd EXCEPT ![i] = None]

At(i, phase) == cmd[i] # None /\ cmd[i].phase = phase

\* With an owner in hand: a login saves it, the others change the memory.  A
\* key action is about a key the owner lists (404 otherwise).
Proceed(i, m, x) ==
    LET c == cmd[i] IN
    CASE c.kind = "login"  -> Go(i, "save", x)
      [] c.kind = "add"    -> Go(i, "op", x)
      [] OTHER -> IF c.key \in LinkedKeys(Slice(m, x)) THEN Go(i, "op", None) ELSE Finish(i)

\* A request of the web UI, and GetByGitHubID on the memory.
Command(i, kind, o, k) ==
    LET x == owners[i][o] IN
    /\ cmd[i] = None
    /\ (x # None /\ kind \in KeyActions) => k \in LinkedKeys(Slice(Memory(i), x))
    /\ cmd' = [cmd EXCEPT ![i] =
          [kind |-> kind, account |-> o, key |-> k, data |-> None,
           object |-> IF kind \in KeyActions THEN None ELSE x,
           phase |-> IF x = None THEN "get" ELSE IF kind = "login" THEN "save" ELSE "op"]]
    /\ UNCHANGED <<bucket, memory, reload, failures>>

\* GetByGitHubID on S3.
GetOwner(i) ==
    /\ At(i, "get")
    /\ bucket[cmd[i].account] # None
    /\ cmd' = [cmd EXCEPT ![i].phase = "load", ![i].data = bucket[cmd[i].account]]
    /\ UNCHANGED <<bucket, memory, reload, failures>>

LoadOwner(i) ==
    LET x == NewObject(Memory(i))
        m == Save(Decode(Memory(i), cmd[i].account, cmd[i].data), x)
    IN
    /\ At(i, "load")
    /\ Proceed(i, m, x)
    /\ SetMemory(i, m)
    /\ UNCHANGED <<bucket, reload, failures>>

\* An owner that S3 does not have, or fails to give: the callback and AddKey
\* go on with a blank one, a key action ends.
GetOwnerFails(i) ==
    LET o == cmd[i].account
        x == NewObject(Memory(i))
        m == Decode(Memory(i), o, <<>>)
    IN
    /\ At(i, "get")
    /\ \/ bucket[o] = None /\ UNCHANGED failures
       \/ Fail
    /\ \/ cmd[i].kind = "login" /\ Go(i, "save", x) /\ SetMemory(i, m)
       \/ cmd[i].kind = "add" /\ Go(i, "op", x) /\ SetMemory(i, Save(m, x))
       \/ cmd[i].kind \in KeyActions /\ Finish(i) /\ KeepMemory(i)
    /\ UNCHANGED <<bucket, reload>>

\* The memory store's part of a command; one that it refuses ends there.
Allowed(i) ==
    LET c == cmd[i]
        m == Memory(i)
        r == m.ref[c.key]
    IN
    CASE c.kind = "add"    -> c.key \notin LinkedKeys(Slice(m, m.owners[c.account]))
      [] c.kind = "remove" -> c.key \in LinkedKeys(Slice(m, m.owners[c.account]))
      [] OTHER             -> r # None /\ m.heap[r.object].account = c.account

Operation(i) ==
    LET c == cmd[i]
        m == Memory(i)
        x == m.owners[c.account]
    IN
    /\ At(i, "op")
    /\ \/ /\ Allowed(i)
          /\ Go(i, "save", c.object)
          /\ SetMemory(i, CASE c.kind = "add"    -> Link(m, x, c.key)
                            [] c.kind = "remove" -> Unlink(m, x, c.key)
                            [] OTHER             -> Change(m, c.key, c.kind))
       \/ ~Allowed(i) /\ Finish(i) /\ KeepMemory(i)
    /\ UNCHANGED <<bucket, reload, failures>>

\* Save: a key action looks its account up again, the others save the object
\* they have held since GetByGitHubID.
SaveOwner(i) ==
    LET c == cmd[i]
        x == IF c.kind \in KeyActions THEN owners[i][c.account] ELSE c.object
        m == Save(Memory(i), x)
    IN
    /\ At(i, "save")
    /\ cmd' = [cmd EXCEPT ![i].phase = "put", ![i].object = None, ![i].data = Slice(m, x)]
    /\ SetMemory(i, m)
    /\ UNCHANGED <<bucket, reload, failures>>

\* PutObject; its failure is logged and the command has succeeded all the
\* same, whether S3 stored the object or not.
PutOwner(i) ==
    /\ At(i, "put")
    /\ \/ /\ bucket' = [bucket EXCEPT ![cmd[i].account] = cmd[i].data]
          /\ Fail \/ UNCHANGED failures
       \/ Fail /\ UNCHANGED bucket
    /\ Finish(i)
    /\ UNCHANGED <<memory, reload>>

-----------------------------------------------------------------------------
\* GetByKey of a key the memory does not know lists the bucket...
StartReload(i, k) ==
    /\ reload[i] = None
    /\ ref[i][k] = None
    /\ reload' = [reload EXCEPT ![i] =
          [key |-> k, todo |-> {o \in Accounts : bucket[o] # None}, at |-> None, data |-> None]]
    /\ UNCHANGED <<bucket, memory, cmd, failures>>

\* ... reads one owner after the other, leaving out those it cannot read ...
ReloadGet(i, o) ==
    /\ reload[i] # None /\ reload[i].at = None
    /\ o \in reload[i].todo
    /\ \/ /\ reload' = [reload EXCEPT ![i].todo = @ \ {o}, ![i].at = o, ![i].data = bucket[o]]
          /\ UNCHANGED failures
       \/ reload' = [reload EXCEPT ![i].todo = @ \ {o}] /\ Fail
    /\ UNCHANGED <<bucket, memory, cmd>>

\* ... and puts each into the memory, up to the one that has the key.
ReloadSave(i) ==
    LET r == reload[i]
        m == Memory(i)
    IN
    /\ r # None /\ r.at # None
    /\ reload' = [reload EXCEPT ![i] =
          IF r.key \in LinkedKeys(r.data) THEN None
          ELSE [r EXCEPT !.at = None, !.data = None]]
    /\ UNCHANGED cmd
    /\ SetMemory(i, Save(Decode(m, r.at, r.data), NewObject(m)))
    /\ UNCHANGED <<bucket, failures>>

ReloadEnds(i) ==
    /\ reload[i] # None /\ reload[i].at = None /\ reload[i].todo = {}
    /\ reload' = [reload EXCEPT ![i] = None]
    /\ UNCHANGED <<bucket, memory, cmd, failures>>

\* The process ends, and another one starts with an empty memory.
Restart(i) ==
    /\ owners' = [owners EXCEPT ![i] = [o \in Accounts |-> None]]
    /\ heap' = [heap EXCEPT ![i] = [x \in Objects |-> None]]
    /\ ref' = [ref EXCEPT ![i] = [k \in Keys |-> None]]
    /\ cmd' = [cmd EXCEPT ![i] = None]
    /\ reload' = [reload EXCEPT ![i] = None]
    /\ UNCHANGED <<bucket, failures>>

Start(i) ==
    \E o \in Accounts :
        \/ "login" \in Asked /\ Command(i, "login", o, None)
        \/ \E kind \in Asked \ {"login"}, k \in Keys : Command(i, kind, o, k)

CommandStep(i) ==
    \/ GetOwner(i) \/ LoadOwner(i) \/ GetOwnerFails(i)
    \/ Operation(i) \/ SaveOwner(i) \/ PutOwner(i)

ReloadStep(i) ==
    \/ \E k \in Keys : StartReload(i, k)
    \/ \E o \in Accounts : ReloadGet(i, o)
    \/ ReloadSave(i) \/ ReloadEnds(i)

Next == \E i \in Servers : Start(i) \/ CommandStep(i) \/ ReloadStep(i) \/ Restart(i)

Spec == Init /\ [][Next]_vars

=============================================================================
