----------------------------- MODULE OwnerStore -----------------------------
(***************************************************************************)
(* The memory owner store (internal/auth/owner.go) and the web UI handlers *)
(* that call it (internal/server/ui.go).  The store keeps, for each key, a *)
(* pointer into the backing array of its owner's Keys slice; append and    *)
(* the in-place removal move records under those pointers, so the model    *)
(* keeps the arrays.                                                       *)
(*                                                                         *)
(* An owner object is named by the session whose callback allocated it: a  *)
(* session allocates at most one, since an owner once stored stays stored. *)
(* An array is the sequence of its cells written so far; the records hold  *)
(* the fields the publish gates and the dashboard read.                    *)
(***************************************************************************)
EXTENDS Naturals, Sequences

CONSTANTS
    Owners,     \* GitHub accounts
    Sessions,   \* browser sessions
    OwnerOf,    \* session -> the account it is logged in to
    Keys,       \* fingerprints
    None        \* nil, and the value of an absent map entry

ASSUME OwnerOfAssumption == OwnerOf \in [Sessions -> Owners]
ASSUME NoneAssumption == None \notin Sessions /\ None \notin Keys

Statuses == {"active", "revoked"}

Records == [key : Keys, status : Statuses, permission : BOOLEAN]

Refs == [object : Sessions, array : Nat \ {0}, index : Nat \ {0}]

ASSUME NoRefAssumption == None \notin Refs /\ None \notin Records

VARIABLES
    owners,     \* owners: account -> the Owner object the store holds
    arrays,     \* Owner object -> the backing arrays of its Keys, oldest first
    length,     \* Owner object -> len(Keys)
    ref,        \* ByKey: fingerprint -> object, array and index of its record
    login,      \* session -> object its callback is about to Save
    picked      \* session -> fingerprint its key action is about

vars == <<owners, arrays, length, ref, login, picked>>

Init ==
    /\ owners = [o \in Owners |-> None]
    /\ arrays = [x \in Sessions |-> <<>>]
    /\ length = [x \in Sessions |-> 0]
    /\ ref = [k \in Keys |-> None]
    /\ login = [s \in Sessions |-> None]
    /\ picked = [s \in Sessions |-> None]

-----------------------------------------------------------------------------
\* The Keys slice is the front of the newest array; append doubles the
\* capacity, up to 256 keys (a record's 96 bytes leave no rounding).
Capacity(x) == IF arrays[x] = <<>> THEN 0 ELSE 2 ^ (Len(arrays[x]) - 1)

Current(x) == arrays[x][Len(arrays[x])]

Slice(x) == [i \in 1..length[x] |-> Current(x)[i]]

LinkedKeys(x) == {Current(x)[i].key : i \in 1..length[x]}

\* The record GetByKey hands to the gates.
Gate(k) == arrays[ref[k].object][ref[k].array][ref[k].index]

Claimed(k) == ref[k] # None

Object(s) == owners[OwnerOf[s]]

-----------------------------------------------------------------------------
\* The OAuth callback, GetByGitHubID: an account seen for the first time gets
\* a new object.
LookUp(s) ==
    /\ login[s] = None
    /\ login' = [login EXCEPT ![s] = IF Object(s) = None THEN s ELSE Object(s)]
    /\ UNCHANGED <<owners, arrays, length, ref, picked>>

\* Variant: Save leaves ByKey alone.
SaveOwnerOnly(s) ==
    /\ login[s] # None
    /\ owners' = [owners EXCEPT ![OwnerOf[s]] = login[s]]
    /\ login' = [login EXCEPT ![s] = None]
    /\ UNCHANGED <<arrays, length, ref, picked>>

\* Save: the object becomes the account's, the refs of its keys point into
\* its slice.
Position(x, k) == CHOOSE i \in 1..length[x] : Current(x)[i].key = k

Save(s) ==
    LET x == login[s] IN
    /\ x # None
    /\ owners' = [owners EXCEPT ![OwnerOf[s]] = x]
    /\ ref' = [k \in Keys |->
                IF k \in LinkedKeys(x)
                THEN [object |-> x, array |-> Len(arrays[x]), index |-> Position(x, k)]
                ELSE ref[k]]
    /\ login' = [login EXCEPT ![s] = None]
    /\ UNCHANGED <<arrays, length, picked>>

\* append writes into the spare cell of the array, or moves to a new one.
Write(array, i, record) ==
    [j \in 1..(IF i > Len(array) THEN i ELSE Len(array)) |->
        IF j = i THEN record ELSE array[j]]

\* Variant: the ref is one past the new record.
RefPastEnd(x, array) == [object |-> x, array |-> array, index |-> length[x] + 2]

\* &owner.Keys[len(owner.Keys)-1], the record just appended.
NewRef(x, array) == [object |-> x, array |-> array, index |-> length[x] + 1]

AddKey(s, k) ==
    LET x == Object(s)
        record == [key |-> k, status |-> "active", permission |-> FALSE]
    IN
    /\ x # None
    /\ k \notin LinkedKeys(x)
    /\ arrays' = IF length[x] < Capacity(x)
                 THEN [arrays EXCEPT ![x][Len(arrays[x])] = Write(@, length[x] + 1, record)]
                 ELSE [arrays EXCEPT ![x] = Append(@, Write(Slice(x), length[x] + 1, record))]
    /\ length' = [length EXCEPT ![x] = @ + 1]
    /\ ref' = [ref EXCEPT ![k] = NewRef(x, Len(arrays'[x]))]
    /\ UNCHANGED <<owners, login, picked>>

\* handleKeyAction turns the index of the request into a fingerprint, with no
\* lock, and calls the store with it afterwards.
PickKey(s) ==
    /\ picked[s] = None
    /\ Object(s) # None
    /\ \E k \in LinkedKeys(Object(s)) : picked' = [picked EXCEPT ![s] = k]
    /\ UNCHANGED <<owners, arrays, length, ref, login>>

\* The records behind the removed one move one cell forward; the last cell
\* keeps its record.
Shift(array, i, n) ==
    [j \in 1..Len(array) |-> IF i <= j /\ j < n THEN array[j + 1] ELSE array[j]]

\* Variant: the key is cut out of the slice and stays in ByKey.
RemoveFromSlice(s) ==
    LET x == Object(s)
        k == picked[s]
    IN
    /\ k # None
    /\ k \in LinkedKeys(x)
    /\ arrays' = [arrays EXCEPT ![x][Len(arrays[x])] = Shift(@, Position(x, k), length[x])]
    /\ length' = [length EXCEPT ![x] = @ - 1]
    /\ picked' = [picked EXCEPT ![s] = None]
    /\ UNCHANGED <<owners, ref, login>>

RemoveKey(s) ==
    LET x == Object(s)
        k == picked[s]
    IN
    /\ k # None
    /\ \/ /\ k \in LinkedKeys(x)
          /\ arrays' = [arrays EXCEPT ![x][Len(arrays[x])] =
                          Shift(@, Position(x, k), length[x])]
          /\ length' = [length EXCEPT ![x] = @ - 1]
          /\ ref' = [ref EXCEPT ![k] = None]
       \/ k \notin LinkedKeys(x) /\ UNCHANGED <<arrays, length, ref>>
    /\ picked' = [picked EXCEPT ![s] = None]
    /\ UNCHANGED <<owners, login>>

\* The key's ref is the caller's (the check of SetKeyStatus and
\* SetPublishPermission).
Owns(s, k) == Claimed(k) /\ OwnerOf[ref[k].object] = OwnerOf[s]

\* Variant: the record of the slice is changed instead of the ref's.
ChangeSlice(s, record) ==
    LET k == picked[s]
        x == Object(s)
    IN
    /\ k # None
    /\ k \in LinkedKeys(x)
    /\ arrays' = [arrays EXCEPT ![x][Len(arrays[x])][Position(x, k)] = record]
    /\ picked' = [picked EXCEPT ![s] = None]
    /\ UNCHANGED <<owners, length, ref, login>>

ChangeRecord(s, record) ==
    LET k == picked[s] IN
    /\ k # None
    /\ \/ /\ Owns(s, k)
          /\ arrays' = [arrays EXCEPT
                ![ref[k].object][ref[k].array][ref[k].index] = record]
       \/ ~Owns(s, k) /\ UNCHANGED arrays
    /\ picked' = [picked EXCEPT ![s] = None]
    /\ UNCHANGED <<owners, length, ref, login>>

SetKeyStatus(s, status) ==
    ChangeRecord(s, [Gate(picked[s]) EXCEPT !.status = status])

SetPublishPermission(s, allowed) ==
    ChangeRecord(s, [Gate(picked[s]) EXCEPT !.permission = allowed])

Step(s) ==
    \/ LookUp(s) \/ Save(s)
    \/ \E k \in Keys : AddKey(s, k)
    \/ PickKey(s) \/ RemoveKey(s)
    \/ \E status \in Statuses : SetKeyStatus(s, status)
    \/ \E allowed \in BOOLEAN : SetPublishPermission(s, allowed)

Next == \E s \in Sessions : Step(s)

Spec == Init /\ [][Next]_vars

-----------------------------------------------------------------------------
\* Every pointer points at a cell that was written, and every slice lies in
\* its array (no access can be out of range).
TypeOK ==
    /\ owners \in [Owners -> Sessions \cup {None}]
    /\ arrays \in [Sessions -> Seq(Seq(Records))]
    /\ length \in [Sessions -> Nat]
    /\ ref \in [Keys -> Refs \cup {None}]
    /\ login \in [Sessions -> Sessions \cup {None}]
    /\ picked \in [Sessions -> Keys \cup {None}]
    /\ \A x \in Sessions :
          length[x] <= IF arrays[x] = <<>> THEN 0 ELSE Len(Current(x))
    /\ \A k \in Keys : Claimed(k) =>
          /\ ref[k].array \in 1..Len(arrays[ref[k].object])
          /\ ref[k].index \in 1..Len(arrays[ref[k].object][ref[k].array])

\* An owner's slice never holds a key twice, whatever mix of removals,
\* growths and writes through old pointers produced it (owner.go:102, the
\* duplicate check of AddKey, reads only the key field of each record).
KeysAreDistinct ==
    \A x \in Sessions : \A i, j \in 1..length[x] :
        Current(x)[i].key = Current(x)[j].key => i = j

\* KEY_NOT_CLAIMED: a key gets past that gate only while the owner object its
\* ref names lists it, although the ref and the slice are updated through
\* different paths and the ref's cell may hold another key's record.
ClaimedKeyIsLinked ==
    \A k \in Keys : Claimed(k) => k \in LinkedKeys(ref[k].object)

=============================================================================
