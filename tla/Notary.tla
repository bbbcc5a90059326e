------------------------------- MODULE Notary -------------------------------
(***************************************************************************)
(* What the registry vouches for: the validation of manifests              *)
(* (internal/validate/validate.go) when a version is published and again   *)
(* on request, the unlock codes, and the notary check of the file that a   *)
(* version's host serves against the checksum stored with it               *)
(* (handleValidate, handleUnlock, handleNotaryCheck and handleDownload of  *)
(* internal/server/handlers.go).  Two publishers may store the same        *)
(* version, and hosts and issue trackers change what they answer.          *)
(*                                                                         *)
(* A file stands for its SHA-256 and a code for its own: hashing is taken  *)
(* to be injective.  The gates of the publish handlers and their           *)
(* dependency rules are in module Publish; here they are a free refusal.   *)
(* A publication without a manifest is one that came with a bearer token,  *)
(* for what a machine key signs is the manifest.                           *)
(***************************************************************************)
EXTENDS Naturals, FiniteSetsExt

CONSTANTS
    Ids, Workers,
    Variants,       \* os/arch pairs
    Hosts,          \* download URLs that publishers give
    Trackers,       \* issues URLs of manifests
    Files, Codes,
    Publications,   \* what publishers send
    None,           \* an absent string or package, and no request
    MaxChanges,     \* bound on the changes of hosts and trackers
    MaxDownloads    \* bound on a version's counter

Default == "default"        \* the key "" of download_urls
Malformed == "malformed"    \* a checksum or a list of codes that is none

\* Run checks them in this order and stops at the first that is broken; A5 and
\* A6 are left to the handler, A7 to an archive that no handler passes.
Rules == <<"A1", "A2", "A3", "A4", "A8", "A9", "A10">>

Release(id) == <<"release", id>>    \* where GitHub serves an official version
Urls == Hosts \cup {Release(id) : id \in Ids}
Keys == Variants \cup {Default}

\* What the manifest alone breaks, its issues URL and its list of codes.
Manifests == [form : {"absent", "null", "object"},
              breaks : SUBSET {"A1", "A2", "A4", "A8", "A9"},
              issues : Trackers \cup {None},
              codes : (SUBSET Codes) \cup {{Malformed}}]

ASSUME PublicationsAssumption ==
    /\ Publications \subseteq
         [kind : {"proxy", "official"}, id : Ids, urls : [Keys -> Hosts \cup {None}],
          url : Hosts \cup {None}, sum : Files \cup {Malformed, None},
          file : Files, manifest : Manifests]
    /\ \A p \in Publications :
         /\ p.kind = "proxy" => p.sum # None
         /\ p.manifest.form # "object" =>
              p.manifest.breaks = {} /\ p.manifest.issues = None /\ p.manifest.codes = {}

\* What is stored.
Packages ==
    [kind : {"proxy", "official"}, manifest : Manifests, sum : Files \cup {Malformed, None},
     codes : SUBSET Codes, downloads : Nat, url : Urls \cup {None},
     urls : [Keys -> Urls \cup {None}]]

ASSUME ValuesAssumption ==
    /\ None \notin Files \cup Urls \cup Packages \cup {Rules[i] : i \in DOMAIN Rules}
    /\ Malformed \notin Codes
    /\ MaxDownloads \in Nat

\* How a host's HEAD answer tells of its file: a hash header, an ETag that is
\* the hash, another ETag, or nothing.
Headers == {"hash", "etag", "opaque", "nothing"}

VARIABLES
    data,       \* id -> package, or None
    pc, req,    \* worker -> its next step, and the publication it handles
    served,     \* URL -> what a HEAD request of it finds
    up,         \* issues URLs that answer 200
    released,   \* ids with a GitHub release
    changes,    \* changes of hosts and trackers
    client      \* the one request of a reader under way

world == <<served, up, released, changes>>
vars == <<data, pc, req, world, client>>

Idle == [step |-> "idle"]

Init ==
    /\ data = [id \in Ids |-> None]
    /\ pc = [w \in Workers |-> "idle"]
    /\ req = [w \in Workers |-> None]
    /\ served \in [Urls -> [status : {"ok"}, file : Files, gives : Headers]]
    /\ up = Trackers
    /\ released = {}
    /\ changes = 0
    /\ client = Idle

-----------------------------------------------------------------------------
\* Hosts and trackers: what they serve may change, they may fail or be down.
HostChanges(u) ==
    /\ changes < MaxChanges
    /\ changes' = changes + 1
    /\ \E status \in {"ok", "error", "down"}, file \in Files :
          served' = [served EXCEPT ![u].status = status, ![u].file = file]
    /\ UNCHANGED <<data, pc, req, up, released, client>>

TrackerChanges(t) ==
    /\ changes < MaxChanges
    /\ changes' = changes + 1
    /\ up' = IF t \in up THEN up \ {t} ELSE up \cup {t}
    /\ UNCHANGED <<data, pc, req, served, released, client>>

-----------------------------------------------------------------------------
Breaks(manifest, sum, rule) ==
    \/ rule \in manifest.breaks
    \/ rule = "A2" /\ manifest.form = "null"
    \/ rule = "A3" /\ sum \notin Files
    \/ rule = "A10" /\ manifest.issues \notin up \cup {None}

\* The rule at which Run stops, or None.
Failure(manifest, sum) ==
    LET broken == {i \in DOMAIN Rules : Breaks(manifest, sum, Rules[i])} IN
    IF broken = {} THEN None ELSE Rules[Min(broken)]

\* Variant: nor is one that comes without a checksum.
ValidatedIfSummed(p) == p.manifest.form = "object" /\ p.sum # None

\* A manifest that is absent or null is not validated.
Validated(p) == p.manifest.form = "object"

\* The official handler hashes the file if the publisher gives no checksum, but
\* only when there is a manifest to validate.
Sum(p) == IF p.kind = "official" /\ Validated(p) /\ p.sum = None THEN p.file ELSE p.sum

\* Variant: only the proxy handler reads the codes.
ProxyCodes(p) ==
    IF p.manifest.codes = {Malformed} \/ p.kind = "official" THEN {} ELSE p.manifest.codes

\* A list of codes that does not decode leaves the version without any.
UnlockCodes(p) == IF p.manifest.codes = {Malformed} THEN {} ELSE p.manifest.codes

\* The package that the handler stores, with its counter at zero.
Package(p) ==
    LET release == Release(p.id)
        only(url) == [k \in Keys |-> IF k = Default THEN url ELSE None]
        given == \E k \in Keys : p.urls[k] # None
    IN  [kind |-> p.kind, manifest |-> p.manifest, sum |-> Sum(p), codes |-> UnlockCodes(p),
         downloads |-> 0,
         url |-> IF p.kind = "official" THEN release ELSE p.url,
         urls |-> IF p.kind = "official" THEN only(release)
                  ELSE IF given THEN p.urls ELSE only(p.url)]

Goto(w, step) == pc' = [pc EXCEPT ![w] = step]

Receive(w, p) ==
    /\ pc[w] = "idle"
    /\ Goto(w, "duplicate")
    /\ req' = [req EXCEPT ![w] = p]
    /\ UNCHANGED <<data, world, client>>

Refuse(w) ==
    /\ pc[w] # "idle"
    /\ Goto(w, "idle")
    /\ req' = [req EXCEPT ![w] = None]
    /\ UNCHANGED <<data, world, client>>

CheckDuplicate(w) ==
    /\ pc[w] = "duplicate"
    /\ data[req[w].id] = None
    /\ Goto(w, "validate")
    /\ UNCHANGED <<data, req, world, client>>

\* Variant: only proxy publications are validated.
ValidateProxies(w) ==
    /\ pc[w] = "validate"
    /\ Validated(req[w]) /\ req[w].kind = "proxy" =>
          Failure(req[w].manifest, Sum(req[w])) = None
    /\ Goto(w, IF req[w].kind = "proxy" THEN "put" ELSE "release")
    /\ UNCHANGED <<data, req, world, client>>

Validate(w) ==
    /\ pc[w] = "validate"
    /\ Validated(req[w]) => Failure(req[w].manifest, Sum(req[w])) = None
    /\ Goto(w, IF req[w].kind = "proxy" THEN "put" ELSE "release")
    /\ UNCHANGED <<data, req, world, client>>

\* GitHub refuses a tag that exists.
UploadRelease(w) ==
    LET id == req[w].id IN
    /\ pc[w] = "release"
    /\ id \notin released
    /\ released' = released \cup {id}
    /\ served' = [served EXCEPT ![Release(id)].status = "ok", ![Release(id)].file = req[w].file]
    /\ Goto(w, "put")
    /\ UNCHANGED <<data, req, up, changes, client>>

StorePackage(w) ==
    /\ pc[w] = "put"
    /\ data' = [data EXCEPT ![req[w].id] = Package(req[w])]
    /\ Goto(w, "idle")
    /\ req' = [req EXCEPT ![w] = None]
    /\ UNCHANGED <<world, client>>

-----------------------------------------------------------------------------
\* A reader asks for one thing of a version: a variant to download or to have
\* checked, a code to unlock it, or its validation.
Questions ==
    [kind : {"download", "check"}, id : Ids, ask : Keys]
        \cup [kind : {"unlock"}, id : Ids, ask : Codes]
        \cup [kind : {"validate"}, id : Ids, ask : {None}]

\* The handler's Store.Get; a version that is not stored is answered 404.
Ask(q) ==
    /\ client.step = "idle"
    /\ data[q.id] # None
    /\ client' = [step |-> q.kind, q |-> q, pkg |-> data[q.id], reply |-> None]
    /\ UNCHANGED <<data, pc, req, world>>

Reply(answer) == client' = [client EXCEPT !.step = "answered", !.reply = answer]

\* Only a stored manifest is validated; what is answered is the rule broken.
AnswerValidate ==
    /\ client.step = "validate"
    /\ Reply(IF client.pkg.manifest.form = "absent" THEN "no manifest"
             ELSE Failure(client.pkg.manifest, client.pkg.sum))
    /\ UNCHANGED <<data, pc, req, world>>

AnswerUnlock ==
    /\ client.step = "unlock"
    /\ Reply(IF client.pkg.codes = {} THEN "no unlock required"
             ELSE IF client.q.ask \in client.pkg.codes THEN "ok" ELSE "invalid")
    /\ UNCHANGED <<data, pc, req, world>>

\* The first of these URLs that is given.
FirstUrl(urls) ==
    LET given == {i \in DOMAIN urls : urls[i] # None} IN
    IF given = {} THEN None ELSE urls[Min(given)]

RedirectUrl(pkg, variant) == FirstUrl(<<pkg.urls[variant], pkg.urls[Default], pkg.url>>)

\* The redirect is to what the Get found; the counter is that of the version
\* stored now.
AnswerDownload ==
    LET id == client.q.id  url == RedirectUrl(client.pkg, client.q.ask) IN
    /\ client.step = "download"
    /\ url # None => data[id].downloads < MaxDownloads
    /\ Reply(url)
    /\ data' = IF url = None THEN data ELSE [data EXCEPT ![id].downloads = @ + 1]
    /\ UNCHANGED <<pc, req, world>>

\* Variant: the check prefers the default URL.
CheckedDefault(pkg, variant) == FirstUrl(<<pkg.urls[Default], pkg.urls[variant], pkg.url>>)

CheckedUrl(pkg, variant) == FirstUrl(<<pkg.urls[variant], pkg.urls[Default], pkg.url>>)

\* What the host tells of its file decides; its status only where nothing can
\* be compared.
Verdict(sum, host) ==
    \/ sum # None /\ host.gives \in {"hash", "etag"} /\ host.status # "down" /\ sum = host.file
    \/ (sum = None \/ host.gives = "nothing") /\ host.status = "ok"

AnswerCheck ==
    LET url == CheckedUrl(client.pkg, client.q.ask) IN
    /\ client.step = "check"
    /\ Reply(url # None /\ Verdict(client.pkg.sum, served[url]))
    /\ UNCHANGED <<data, pc, req, world>>

Leave ==
    /\ client.step = "answered"
    /\ client' = Idle
    /\ UNCHANGED <<data, pc, req, world>>

-----------------------------------------------------------------------------
PublisherStep(w) ==
    \/ \E p \in Publications : Receive(w, p)
    \/ CheckDuplicate(w) \/ Validate(w) \/ UploadRelease(w) \/ Refuse(w)

Next ==
    \/ \E u \in Urls : HostChanges(u)
    \/ \E t \in Trackers : TrackerChanges(t)
    \/ \E w \in Workers : PublisherStep(w) \/ StorePackage(w)
    \/ \E q \in Questions : Ask(q)
    \/ AnswerValidate \/ AnswerUnlock \/ AnswerDownload \/ AnswerCheck \/ Leave

Spec == Init /\ [][Next]_vars

=============================================================================
