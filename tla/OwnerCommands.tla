--------------------------- MODULE OwnerCommands ---------------------------
(***************************************************************************)
(* OwnerStore with two history variables: what the owners' last commands   *)
(* on each key asked for, and what they did since that can move records    *)
(* under the pointers of ByKey.                                            *)
(***************************************************************************)
EXTENDS OwnerStore

VARIABLES
    wanted,     \* key -> record its owner's commands amount to, or None
    moved,      \* a key was removed, or an account with keys logged in again
    aligned     \* account -> its keys are unchanged since its last login

history == <<wanted, moved, aligned>>
allVars == <<vars, history>>

CInit ==
    /\ Init
    /\ wanted = [k \in Keys |-> None]
    /\ moved = FALSE
    /\ aligned = [o \in Owners |-> FALSE]

Unlinked(k) == wanted' = [wanted EXCEPT ![k] = None]

Wants(k, record) == wanted' = [wanted EXCEPT ![k] = record]

\* The accounts whose slice or refs a link or unlink of k touches.
Touch(k) ==
    aligned' = [o \in Owners |->
        aligned[o] /\ (owners[o] = None \/ (owners[o] = owners'[o]
                         /\ k \notin LinkedKeys(owners[o])
                         /\ length'[owners[o]] = length[owners[o]]))]

CLookUp(s) == LookUp(s) /\ UNCHANGED history

CSave(s) ==
    /\ Save(s)
    /\ moved' = (moved \/ length[login[s]] > 0)
    /\ aligned' = [o \in Owners |->
          \/ o = OwnerOf[s]
          \/ /\ aligned[o]
             /\ owners[o] = None
                \/ LinkedKeys(owners[o]) \cap LinkedKeys(login[s]) = {}]
    /\ UNCHANGED wanted

CAddKey(s, k) ==
    /\ AddKey(s, k)
    /\ Wants(k, [key |-> k, status |-> "active", permission |-> FALSE])
    /\ Touch(k)
    /\ UNCHANGED moved

CPickKey(s) == PickKey(s) /\ UNCHANGED history

CRemoveKey(s) ==
    /\ RemoveKey(s)
    /\ \/ length' # length /\ Unlinked(picked[s]) /\ moved' = TRUE /\ Touch(picked[s])
       \/ length' = length /\ UNCHANGED history

\* A key that only a late Save brought back has no wanted record to change.
Commands(s) == Owns(s, picked[s]) /\ wanted[picked[s]] # None

CSetKeyStatus(s, status) ==
    LET k == picked[s] IN
    /\ SetKeyStatus(s, status)
    /\ \/ Commands(s) /\ Wants(k, [wanted[k] EXCEPT !.status = status])
       \/ ~Commands(s) /\ UNCHANGED wanted
    /\ UNCHANGED <<moved, aligned>>

CSetPublishPermission(s, allowed) ==
    LET k == picked[s] IN
    /\ SetPublishPermission(s, allowed)
    /\ \/ Commands(s) /\ Wants(k, [wanted[k] EXCEPT !.permission = allowed])
       \/ ~Commands(s) /\ UNCHANGED wanted
    /\ UNCHANGED <<moved, aligned>>

CNext ==
    \E s \in Sessions :
        \/ CLookUp(s) \/ CSave(s)
        \/ \E k \in Keys : CAddKey(s, k)
        \/ CPickKey(s) \/ CRemoveKey(s)
        \/ \E status \in Statuses : CSetKeyStatus(s, status)
        \/ \E allowed \in BOOLEAN : CSetPublishPermission(s, allowed)

CSpec == CInit /\ [][CNext]_allVars

-----------------------------------------------------------------------------
\* As long as no key was removed and no account with keys logged in again,
\* the gates see exactly what the owners' commands asked for, although append
\* keeps moving the slices away from the arrays ByKey points into
\* (owner.go:113-117).
GatesFollowCommands ==
    ~moved => \A k \in Keys : Claimed(k) => Gate(k) = wanted[k]

\* A login puts the pointers right: until the account's keys change again,
\* the dashboard shows the very records the gates read (owner.go:61-66).
LoginAlignsRefs ==
    \A o \in Owners :
        owners[o] # None /\ aligned[o] =>
            \A k \in LinkedKeys(owners[o]) :
                Claimed(k) /\ Gate(k) = Current(owners[o])[Position(owners[o], k)]


=============================================================================
