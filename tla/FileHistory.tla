---------------------------- MODULE FileHistory ----------------------------
(***************************************************************************)
(* FileStore with a history variable: whether the latest save was          *)
(* disturbed, by another that overlapped it or by an error.                *)
(***************************************************************************)
EXTENDS FileStore

VARIABLE disturbed

allVars == <<fileVars, disturbed>>

Quiet == \A w \in Workers : pc[w] = "idle"

FInit == NewFileStore /\ disturbed = FALSE

\* An operation that starts while none runs is undisturbed so far; it is
\* disturbed for good when another starts before its end.
Begin(w) ==
    \E id \in Ids :
        \/ \E upload \in Uploads : StorePut(w, id, upload)
        \/ \E status \in ValidStatuses : StoreSetStatus(w, id, status)

Save(w) == TakeSnapshot(w) \/ Truncate(w) \/ WriteFile(w)

FNext ==
    \/ \E w \in Workers :
          \/ Begin(w) /\ disturbed' = ~Quiet
          \/ Save(w) /\ disturbed' = (disturbed \/ (pc[w] = "truncate" /\ pc'[w] = "idle"))
          \/ WriteFails(w) /\ disturbed' = TRUE
    \/ \E id \in Ids : Download(id) /\ UNCHANGED disturbed
    \/ StartAgain /\ disturbed' = FALSE

FSpec == FInit /\ [][FNext]_allVars

-----------------------------------------------------------------------------
FTypeOK ==
    /\ data \in Stores
    /\ file \in Stores \cup {Empty, Torn}
    /\ pc \in [Workers -> {"idle", "snapshot", "truncate", "write"}]
    /\ snapshot \in [Workers -> Stores]
    /\ disturbed \in BOOLEAN

\* What a save is meant to keep: everything but the counters.
Content(store) ==
    [id \in Ids |-> IF Exists(store, id) THEN <<store[id].upload, store[id].status>>
                    ELSE NotFound]

\* Once the store is quiet after a save that ran alone, the file holds every
\* package of the memory with its status, whatever happened to earlier saves:
\* the next solo save repairs a stale or torn file (store.go:335, save writes
\* the whole map).
SoloSaveIsDurable ==
    Quiet /\ ~disturbed => Content(Loaded(file)) = Content(data)

=============================================================================
