---------------------------- MODULE NotaryHistory ----------------------------
(***************************************************************************)
(* Notary with a history variable: what a reader had checked and has every *)
(* reason to trust.                                                        *)
(***************************************************************************)
EXTENDS Notary

VARIABLE trust  \* <<id, variant>> verified by its hash, with no host and no
                \* stored version changed since

allVars == <<vars, trust>>

NInit == Init /\ trust = {}

\* The host told the hash of its file, and it was the checksum stored.
Told(url) == client.pkg.sum # None /\ served[url].gives \in {"hash", "etag"}

NCheck ==
    /\ AnswerCheck
    /\ trust' = IF client'.reply /\ Told(CheckedUrl(client.pkg, client.q.ask))
                   /\ data[client.q.id] = client.pkg
                THEN trust \cup {<<client.q.id, client.q.ask>>}
                ELSE trust

NStore(w) ==
    /\ StorePackage(w)
    /\ trust' = {t \in trust : t[1] # req[w].id}

NHost(u) == HostChanges(u) /\ trust' = {}

NPublisher(w) ==
    /\ PublisherStep(w)
    /\ trust' = IF served' = served THEN trust ELSE {}

NNext ==
    \/ NCheck
    \/ \E u \in Urls : NHost(u)
    \/ \E w \in Workers : NPublisher(w) \/ NStore(w)
    \/ /\ \/ \E t \in Trackers : TrackerChanges(t)
          \/ \E q \in Questions : Ask(q)
          \/ AnswerValidate \/ AnswerUnlock \/ AnswerDownload \/ Leave
       /\ UNCHANGED trust

NSpec == NInit /\ [][NNext]_allVars

-----------------------------------------------------------------------------
\* Types; a version without a checksum was published officially and without a
\* manifest, and one without any URL by a publisher who gave an empty one.
TypeOK ==
    /\ \A id \in Ids : data[id] # None =>
          /\ data[id].sum = None => data[id].kind = "official" /\ data[id].manifest.form # "object"
          /\ data[id].urls \in [Keys -> Urls \cup {None}]
          /\ data[id].kind = "official" => RedirectUrl(data[id], Default) = Release(id)
          /\ data[id].downloads \in 0..MaxDownloads
    /\ \A w \in Workers : pc[w] \in {"idle", "duplicate", "validate", "release", "put"}
    /\ trust \subseteq Ids \X Keys

Answered(kind) == client.step = "answered" /\ client.q.kind = kind

\* A manifest that was validated when its version was published is valid
\* whenever it is validated again, with the checksum stored by then, except
\* that its issues URL may be gone; a null manifest, stored unseen, breaks A2
\* (handlers.go:369 and 534 against handlers.go:777).
StoredStaysValid ==
    Answered("validate") =>
        IF client.pkg.manifest.form = "object" THEN client.reply \in {None, "A10"}
        ELSE client.reply = IF client.pkg.manifest.form = "null" THEN "A2" ELSE "no manifest"

\* A download of a variant that was verified by its hash, with no host and no
\* stored version changed since, is redirected to a file with the version's
\* checksum: the check looks where the download goes (handlers.go:196-212 and
\* handlers.go:1044-1053, two copies of one choice).
CheckedDownloadIsPublished ==
    Answered("download") /\ <<client.q.id, client.q.ask>> \in trust =>
        /\ client.reply # None
        /\ served[client.reply].file = data[client.q.id].sum

\* A version opens for the codes of the manifest that is stored with it and
\* for no other; it needs none only if its manifest lists none, or lists them
\* in a way that does not decode (handlers.go:439 and 598, the error dropped).
UnlockFollowsManifest ==
    Answered("unlock") =>
        LET codes == client.pkg.manifest.codes IN
        client.reply = CASE codes \in {{}, {Malformed}} -> "no unlock required"
                         [] client.q.ask \in codes -> "ok"
                         [] OTHER -> "invalid"

=============================================================================
