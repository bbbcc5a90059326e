------------------------------ MODULE Catalog ------------------------------
(***************************************************************************)
(* What the registry promises about its packages, whatever the publish     *)
(* handlers do inside: a version appears once and never disappears; it can *)
(* be replaced only while it is contested, that is while a publish request *)
(* of the same version that was being served when it appeared is still     *)
(* being served; once settled, its content is fixed for good, and only the *)
(* status endpoint and the download counter change it.                     *)
(***************************************************************************)
EXTENDS Naturals

CONSTANTS Ids, Uploads, Statuses, NotFound

VARIABLES data, settled

vars == <<data, settled>>

Entry(upload, status) == [upload |-> upload, status |-> status, downloads |-> 0]

Init ==
    /\ data = [id \in Ids |-> NotFound]
    /\ settled = [id \in Ids |-> FALSE]

\* Settling is free to happen with the step or later.
MaySettle(id) == \E s \in BOOLEAN : settled' = [settled EXCEPT ![id] = s]

Appear(id, upload) ==
    /\ data[id] = NotFound
    /\ data' = [data EXCEPT ![id] = Entry(upload, "active")]
    /\ MaySettle(id)

\* A contested version is overwritten, with the zero value as its status.
Replace(id, upload) ==
    /\ data[id] # NotFound
    /\ ~settled[id]
    /\ data' = [data EXCEPT ![id] = Entry(upload, "")]
    /\ MaySettle(id)

Settle(id) ==
    /\ data[id] # NotFound
    /\ settled' = [settled EXCEPT ![id] = TRUE]
    /\ UNCHANGED data

ChangeStatus(id, status) ==
    /\ data[id] # NotFound
    /\ data' = [data EXCEPT ![id].status = status]
    /\ UNCHANGED settled

CountDownload(id) ==
    /\ data[id] # NotFound
    /\ data' = [data EXCEPT ![id].downloads = @ + 1]
    /\ UNCHANGED settled

Next ==
    \E id \in Ids :
        \/ \E upload \in Uploads : Appear(id, upload) \/ Replace(id, upload)
        \/ Settle(id)
        \/ \E status \in Statuses : ChangeStatus(id, status)
        \/ CountDownload(id)

Spec == Init /\ [][Next]_vars

=============================================================================
