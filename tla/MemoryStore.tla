---------------------------- MODULE MemoryStore ----------------------------
(***************************************************************************)
(* The in-memory package store (internal/store/store.go) as operators on   *)
(* its map "data".  Each operator is one critical section of the store's   *)
(* mutex, so a module that uses it makes one step of each call.            *)
(*                                                                         *)
(* A package identifier stands for the map key name@version; names and     *)
(* versions that contain '@' are not modelled.  A package keeps the fields *)
(* the properties tell apart: the request that published it, its status    *)
(* and its download counter.                                               *)
(***************************************************************************)
EXTENDS Naturals

CONSTANTS
    Names,      \* package names
    Vers,       \* version strings
    Uploads,    \* what a package can hold besides its status and counter
    NotFound,   \* ErrNotFound, and the value of an absent map entry
    MaxDownloads    \* bound on a package's download counter

Ids == Names \X Vers

\* The statuses the status endpoint accepts; "" is a package's zero value.
ValidStatuses == {"active", "deprecated", "buggy"}

Packages == [upload : Uploads, status : ValidStatuses \cup {""}, downloads : Nat]

ASSUME NotFoundAssumption == NotFound \notin Packages

Stores == [Ids -> Packages \cup {NotFound}]

EmptyStore == [id \in Ids |-> NotFound]

Exists(data, id) == data[id] # NotFound

\* A package as a handler builds it: status and counter are zero values.
NewPackage(upload) == [upload |-> upload, status |-> "", downloads |-> 0]

\* Only a package that is new to the map gets the default status.
Put(data, id, pkg) ==
    [data EXCEPT ![id] =
        IF Exists(data, id) THEN pkg ELSE [pkg EXCEPT !.status = "active"]]

SetStatus(data, id, status) == [data EXCEPT ![id].status = status]

IncrementDownloads(data, id) == [data EXCEPT ![id].downloads = @ + 1]

\* The versions of a name, as a set: no caller in this model reads the order.
Versions(data, name) == {id \in Ids : id[1] = name /\ Exists(data, id)}

=============================================================================
