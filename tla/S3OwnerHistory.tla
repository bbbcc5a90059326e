--------------------------- MODULE S3OwnerHistory ---------------------------
(***************************************************************************)
(* S3OwnerStore with history variables: what the owners' commands amount   *)
(* to, and whether one of the things happened that make the store lose a   *)
(* command.                                                                *)
(***************************************************************************)
EXTENDS S3OwnerStore

VARIABLES
    wanted,     \* account -> key -> the record its owner's commands amount to
    claimed,    \* account -> the keys its owner has ever added
    calm,       \* account -> nothing has made the store lose one of them
    behind      \* server -> accounts another server has saved since it read them

history == <<wanted, claimed, calm, behind>>
allVars == <<vars, history>>

HInit ==
    /\ Init
    /\ wanted = [o \in Accounts |-> [k \in Keys |-> None]]
    /\ claimed = [o \in Accounts |-> {}]
    /\ calm = [o \in Accounts |-> TRUE]
    /\ behind = [i \in Servers |-> {}]

Commanding(i, o) == cmd[i] # None /\ cmd[i].account = o

\* Server i holds, or is about to hold, what it read of account o.
Knows(i, o) ==
    owners[i][o] # None \/ Commanding(i, o) \/ (reload[i] # None /\ reload[i].at = o)

Disturb(o, cause) == calm' = [calm EXCEPT ![o] = @ /\ ~cause]

\* Cause: a command on a server that is behind, or while another server runs one.
HStart(i) ==
    /\ Start(i)
    /\ LET o == cmd'[i].account IN
       Disturb(o, o \in behind[i] \/ \E j \in Servers \ {i} : Commanding(j, o))
    /\ UNCHANGED <<wanted, claimed, behind>>

\* Cause: a read that failed and left a blank owner.
HGetOwner(i) ==
    /\ GetOwner(i) \/ LoadOwner(i) \/ GetOwnerFails(i)
    /\ Disturb(cmd[i].account, failures' # failures)
    /\ UNCHANGED <<wanted, claimed, behind>>

HOperation(i) ==
    LET c == cmd[i]
        record == wanted[c.account][c.key]
    IN
    /\ Operation(i)
    /\ wanted' = [wanted EXCEPT ![c.account][c.key] =
          IF ~Allowed(i) THEN @
          ELSE CASE c.kind = "add"    -> [key |-> c.key, status |-> "active", permission |-> FALSE]
                 [] c.kind = "remove" -> None
                 [] OTHER             -> IF @ = None THEN @ ELSE Changed(@, c.kind)]
    /\ claimed' = [claimed EXCEPT ![c.account] =
          IF c.kind = "add" /\ Allowed(i) THEN @ \cup {c.key} ELSE @]
    /\ UNCHANGED <<calm, behind>>

HSaveOwner(i) == SaveOwner(i) /\ UNCHANGED history

\* Cause: a put that failed.  The other servers that know the account are
\* behind from now on.
HPutOwner(i) ==
    LET o == cmd[i].account IN
    /\ PutOwner(i)
    /\ Disturb(o, failures' # failures)
    /\ behind' = [j \in Servers |-> IF j # i /\ Knows(j, o) THEN behind[j] \cup {o} ELSE behind[j]]
    /\ UNCHANGED <<wanted, claimed>>

\* Cause: a reload that puts an account into the memory while a command on it
\* runs there, or puts what a command has overtaken since.
HReload(i) ==
    /\ \/ \E k \in Keys : StartReload(i, k)
       \/ \E o \in Accounts : ReloadGet(i, o)
       \/ ReloadEnds(i)
    /\ UNCHANGED history

HReloadSave(i) ==
    LET o == reload[i].at IN
    /\ ReloadSave(i)
    /\ Disturb(o, Commanding(i, o))
    /\ behind' = [behind EXCEPT ![i] = IF reload[i].data # bucket[o] THEN @ \cup {o} ELSE @]
    /\ UNCHANGED <<wanted, claimed>>

\* Cause: a restart between the memory's part of a command and the bucket's.
HRestart(i) ==
    /\ Restart(i)
    /\ calm' = [o \in Accounts |->
          calm[o] /\ ~(Commanding(i, o) /\ cmd[i].phase \in {"save", "put"})]
    /\ behind' = [behind EXCEPT ![i] = {}]
    /\ UNCHANGED <<wanted, claimed>>

HNext == \E i \in Servers :
    \/ HStart(i) \/ HGetOwner(i) \/ HOperation(i) \/ HSaveOwner(i) \/ HPutOwner(i)
    \/ HReload(i) \/ HReloadSave(i) \/ HRestart(i)

HSpec == HInit /\ [][HNext]_allVars

-----------------------------------------------------------------------------
\* Every pointer of every server leads to an object in its memory and a cell
\* in its array (no access can fail), whatever reloads and commands overlap.
TypeOK ==
    /\ bucket \in [Accounts -> Seq(Records) \cup {None}]
    /\ owners \in [Servers -> [Accounts -> Objects \cup {None}]]
    /\ failures \in 0..MaxFailures
    /\ \A i \in Servers :
          /\ cmd[i] \in Commands \cup {None}
          /\ \A o \in Accounts : owners[i][o] # None =>
                heap[i][owners[i][o]] # None /\ heap[i][owners[i][o]].account = o
          /\ \A x \in Objects : heap[i][x] # None =>
                /\ heap[i][x].cells \in Seq(Records)
                /\ heap[i][x].length \in 0..Len(heap[i][x].cells)
          /\ \A k \in Keys : ref[i][k] # None =>
                /\ heap[i][ref[i][k].object] # None
                /\ ref[i][k].index \in 1..Len(heap[i][ref[i][k].object].cells)

\* The keys of an object, by fingerprint.
Listed(keys) == [k \in Keys |-> IF k \in LinkedKeys(keys) THEN keys[Position(keys, k)] ELSE None]

\* No account but o has ever added the key.  One that has, and has removed it, may
\* still list it on a server that is behind, and a login there leads the gates to it.
Sole(o, k) == \A p \in Accounts \ {o} : k \notin claimed[p]

\* Unless one of the causes above has occurred, what the owner asked for is
\* what S3 holds between two commands, and what the dashboard shows and the
\* gates read on every server that is not behind: through restarts, reloads,
\* removals that shift the slice, and first reads of an owner (owner.go:200,
\* 231, 259, 298, 311).
CalmStoreFollowsOwner ==
    \A o \in Accounts : calm[o] /\ (\A i \in Servers : ~Commanding(i, o)) =>
        /\ wanted[o] = IF bucket[o] = None THEN [k \in Keys |-> None] ELSE Listed(bucket[o])
        /\ \A i \in Servers : owners[i][o] # None /\ o \notin behind[i] =>
              /\ Listed(Slice(Memory(i), owners[i][o])) = wanted[o]
              /\ \A k \in Keys : Sole(o, k) =>
                    IF wanted[o][k] = None THEN ref[i][k] = None
                    ELSE ref[i][k] # None /\ Gate(Memory(i), k) = wanted[o][k]

=============================================================================
