----------------------------- MODULE FileStore -----------------------------
(***************************************************************************)
(* The file-backed store (internal/store/store.go, FileStore): the memory  *)
(* store, written to one JSON file after every Put and SetStatus.  The     *)
(* memory operation, the snapshot of save and the two halves of            *)
(* os.WriteFile (truncate, write) are separate steps of the calling        *)
(* goroutine, with no lock from one to the next; the process may crash     *)
(* between any two and loads the file when it starts again.                *)
(***************************************************************************)
EXTENDS MemoryStore

CONSTANTS
    Workers,        \* goroutines that call the store
    Empty,          \* content of a missing or truncated file
    Torn,           \* content that is not JSON: one snapshot written over
                    \* the longer rest of another, or part of a snapshot
    CanFail         \* whether file operations may fail

ASSUME FileValuesAssumption == Empty \notin Stores /\ Torn \notin Stores /\ Empty # Torn

VARIABLES
    data,       \* the packages in memory
    file,       \* patches.json
    pc,         \* worker -> its next step
    snapshot    \* worker -> what its save is about to write

fileVars == <<data, file, pc, snapshot>>

\* Variant: what cannot be parsed is not told from packages.
LoadedAsIs(content) == IF content = Empty THEN EmptyStore ELSE content

\* load: a file that cannot be read or parsed counts as no packages.
Loaded(content) == IF content \in {Empty, Torn} THEN EmptyStore ELSE content

NewFileStore ==
    /\ file = Empty
    /\ data = Loaded(file)
    /\ pc = [w \in Workers |-> "idle"]
    /\ snapshot = [w \in Workers |-> EmptyStore]

Goto(w, stage) == pc' = [pc EXCEPT ![w] = stage]

-----------------------------------------------------------------------------
\* MemoryStore.Put, then save: reached by a publish that found no such
\* version, possibly before another one stored it.
StorePut(w, id, upload) ==
    /\ pc[w] = "idle"
    /\ data' = Put(data, id, NewPackage(upload))
    /\ Goto(w, "snapshot")
    /\ UNCHANGED <<file, snapshot>>

\* Variant: SetStatus is the memory store's, as IncrementDownloads is.
SetStatusInMemory(w, id, status) ==
    /\ pc[w] = "idle"
    /\ Exists(data, id)
    /\ data' = SetStatus(data, id, status)
    /\ UNCHANGED <<file, pc, snapshot>>

StoreSetStatus(w, id, status) ==
    /\ pc[w] = "idle"
    /\ Exists(data, id)
    /\ data' = SetStatus(data, id, status)
    /\ Goto(w, "snapshot")
    /\ UNCHANGED <<file, snapshot>>

\* IncrementDownloads is the memory store's: the counter waits for a later save.
Download(id) ==
    /\ Exists(data, id)
    /\ data[id].downloads < MaxDownloads
    /\ data' = IncrementDownloads(data, id)
    /\ UNCHANGED <<file, pc, snapshot>>

\* The copy save makes under the read lock.
TakeSnapshot(w) ==
    /\ pc[w] = "snapshot"
    /\ snapshot' = [snapshot EXCEPT ![w] = data]
    /\ Goto(w, "truncate")
    /\ UNCHANGED <<data, file>>

\* save returns, with or without an error: the package stays in memory.
Return(w) ==
    /\ Goto(w, "idle")
    /\ snapshot' = [snapshot EXCEPT ![w] = EmptyStore]
    /\ UNCHANGED data

\* os.WriteFile, opening the file with O_TRUNC.
Truncate(w) ==
    /\ pc[w] = "truncate"
    /\ \/ file' = Empty /\ Goto(w, "write") /\ UNCHANGED <<data, snapshot>>
       \/ CanFail /\ Return(w) /\ UNCHANGED file

\* Whether the old content may reach beyond the new one: it holds a package
\* the new one lacks, another upload, or a longer status, and the new one does
\* not hold more packages.
StatusLength ==
    [s \in ValidStatuses \cup {""} |->
        CASE s = "" -> 0 [] s = "buggy" -> 5 [] s = "active" -> 6 [] s = "deprecated" -> 10]

Stored(store) == {id \in Ids : Exists(store, id)}

MayOutlast(old, new) ==
    \/ old = Torn
    \/ /\ old \in Stores
       /\ \/ ~(Stored(old) \subseteq Stored(new))
          \/ /\ Stored(old) = Stored(new)
             /\ \E id \in Stored(old) :
                   \/ old[id].upload # new[id].upload
                   \/ StatusLength[old[id].status] > StatusLength[new[id].status]
                   \/ old[id].downloads > new[id].downloads

\* The write starts at offset 0 of its own descriptor; it may fail part way.
WriteFile(w) ==
    /\ pc[w] = "write"
    /\ \/ file' = snapshot[w]
       \/ file' = Torn /\ MayOutlast(file, snapshot[w])
    /\ Return(w)

WriteFails(w) ==
    /\ pc[w] = "write"
    /\ CanFail
    /\ file' \in {file, Torn, snapshot[w]}
    /\ Return(w)

\* The process ends, perhaps in the middle of a write, and is started again.
StartAgain ==
    /\ file' \in {file} \cup {Torn : w \in {v \in Workers : pc[v] = "write"}}
    /\ data' = Loaded(file')
    /\ pc' = [w \in Workers |-> "idle"]
    /\ snapshot' = [w \in Workers |-> EmptyStore]

=============================================================================
