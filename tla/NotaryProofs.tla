---------------------------- MODULE NotaryProofs ----------------------------
(***************************************************************************)
(* What TLAPS proves of publication, validation, unlocking and the notary  *)
(* check, for every set of publications, hosts, trackers and publishers.   *)
(***************************************************************************)
EXTENDS NotaryHistory, TLAPS

-----------------------------------------------------------------------------
(* The rules of validation, and the first of several URLs.                 *)

\* A nonempty set of rule numbers has a least one.
LEMMA LeastRule ==
    ASSUME NEW S, S \subseteq 1..7, S # {}
    PROVE  Min(S) \in S /\ \A i \in S : Min(S) <= i
<1> SUFFICES \E x \in S : \A y \in S : x <= y
  BY DEF Min
<1>1. CASE 1 \in S
  BY <1>1
<1>2. CASE 1 \notin S /\ 2 \in S
  BY <1>2
<1>3. CASE 1 \notin S /\ 2 \notin S /\ 3 \in S
  BY <1>3
<1>4. CASE 1 \notin S /\ 2 \notin S /\ 3 \notin S /\ 4 \in S
  BY <1>4
<1>5. CASE S \subseteq {5, 6, 7}
  <2>1. CASE 5 \in S
    BY <1>5, <2>1
  <2>2. CASE 5 \notin S /\ 6 \in S
    BY <1>5, <2>2
  <2>3. CASE 5 \notin S /\ 6 \notin S
    <3>1. 7 \in S /\ \A y \in S : y = 7
      BY <1>5, <2>3
    <3> QED BY <3>1
  <2> QED BY <2>1, <2>2, <2>3
<1>6. 1 \notin S /\ 2 \notin S /\ 3 \notin S /\ 4 \notin S => S \subseteq {5, 6, 7}
  OBVIOUS
<1> QED BY <1>1, <1>2, <1>3, <1>4, <1>5, <1>6

\* What a manifest needs to pass every rule but A10, which the tracker decides.
Valid(manifest, sum) ==
    manifest.breaks = {} /\ manifest.form # "null" /\ sum \in Files

LEMMA RuleNumbers == DOMAIN Rules = 1..7 /\ Rules[2] = "A2" /\ Rules[7] = "A10"
                       /\ \A i \in 1..7 : /\ Rules[i] # None
                                          /\ Rules[i] = "A2" <=> i = 2
                                          /\ Rules[i] = "A3" <=> i = 3
                                          /\ Rules[i] = "A10" <=> i = 7
                                          /\ Rules[i] \in {"A1", "A2", "A4", "A8", "A9"} \/ i \in {3, 7}
BY ValuesAssumption DEF Rules

LEMMA PassedIsValid ==
    ASSUME NEW manifest \in Manifests, NEW sum, Failure(manifest, sum) = None
    PROVE  Valid(manifest, sum)
<1> DEFINE broken == {i \in 1..7 : Breaks(manifest, sum, Rules[i])}
<1>1. Failure(manifest, sum) = IF broken = {} THEN None ELSE Rules[Min(broken)]
  BY RuleNumbers DEF Failure
<1>2. broken = {}
  BY <1>1, LeastRule, RuleNumbers
<1>3. \A i \in 1..7 : ~Breaks(manifest, sum, Rules[i])
  BY <1>2
<1>4. ~Breaks(manifest, sum, "A1") /\ ~Breaks(manifest, sum, "A2") /\ ~Breaks(manifest, sum, "A3")
        /\ ~Breaks(manifest, sum, "A4") /\ ~Breaks(manifest, sum, "A8")
        /\ ~Breaks(manifest, sum, "A9")
  BY <1>3 DEF Rules
<1> QED BY <1>4 DEF Breaks, Valid, Manifests

\* A valid manifest can only fail for its tracker.
LEMMA ValidFailure ==
    ASSUME NEW manifest, NEW sum, Valid(manifest, sum)
    PROVE  Failure(manifest, sum) \in {None, "A10"}
<1> DEFINE broken == {i \in 1..7 : Breaks(manifest, sum, Rules[i])}
<1>1. Failure(manifest, sum) = IF broken = {} THEN None ELSE Rules[Min(broken)]
  BY RuleNumbers DEF Failure
<1>2. broken \subseteq 1..7 /\ \A i \in broken : i = 7
  BY RuleNumbers DEF Breaks, Valid
<1> HIDE DEF broken
<1>3. broken # {} => Min(broken) = 7
  <2>1. broken # {} => Min(broken) \in broken
    BY <1>2, LeastRule
  <2> QED BY <1>2, <2>1
<1> QED BY <1>1, <1>3, RuleNumbers

\* A null manifest fails the second rule.
LEMMA NullFailure ==
    ASSUME NEW manifest, NEW sum, manifest.form = "null", manifest.breaks = {}
    PROVE  Failure(manifest, sum) = "A2"
<1> DEFINE broken == {i \in 1..7 : Breaks(manifest, sum, Rules[i])}
<1>1. Failure(manifest, sum) = IF broken = {} THEN None ELSE Rules[Min(broken)]
  BY RuleNumbers DEF Failure
<1>2. 2 \in broken /\ 1 \notin broken /\ broken \subseteq 1..7
  BY RuleNumbers DEF Breaks
<1> HIDE DEF broken
<1>3. Min(broken) = 2
  <2>1. PICK m : m = Min(broken)
    OBVIOUS
  <2>2. m \in broken /\ m <= 2
    BY <1>2, <2>1, LeastRule
  <2>3. m \in 1..7 /\ m # 1
    BY <1>2, <2>2
  <2> QED BY <2>1, <2>2, <2>3
<1> QED BY <1>1, <1>2, <1>3, RuleNumbers

LEMMA FirstOfThree ==
    ASSUME NEW a, NEW b, NEW c
    PROVE  FirstUrl(<<a, b, c>>) = IF a # None THEN a ELSE IF b # None THEN b ELSE c
<1> DEFINE urls == <<a, b, c>>
           given == {i \in 1..3 : urls[i] # None}
<1>1. FirstUrl(urls) = IF given = {} THEN None ELSE urls[Min(given)]
  BY DEF FirstUrl
<1>2. urls[1] = a /\ urls[2] = b /\ urls[3] = c
  OBVIOUS
<1>3. given \subseteq 1..7 /\ given \subseteq 1..3
        /\ (1 \in given <=> a # None) /\ (2 \in given <=> b # None) /\ (3 \in given <=> c # None)
  BY <1>2
<1> HIDE DEF given, urls
<1>4. given # {} => Min(given) = IF a # None THEN 1 ELSE IF b # None THEN 2 ELSE 3
  <2>1. given # {} => Min(given) \in 1..3 /\ Min(given) \in given
                        /\ \A i \in given : Min(given) <= i
    BY <1>3, LeastRule
  <2> QED BY <1>3, <2>1
<1>5. given = {} <=> a = None /\ b = None /\ c = None
  BY <1>3
<1>6. FirstUrl(urls) = IF a # None THEN a ELSE IF b # None THEN b ELSE c
  BY <1>1, <1>2, <1>4, <1>5
<1> QED BY <1>6 DEF urls

\* The notary checks the URL that a download is redirected to.
LEMMA SameUrl ==
    ASSUME NEW pkg, NEW variant
    PROVE  CheckedUrl(pkg, variant) = RedirectUrl(pkg, variant)
BY DEF CheckedUrl, RedirectUrl

-----------------------------------------------------------------------------
(* What is stored.                                                         *)

\* A package as its handler built it: from a manifest that was valid then,
\* unless there was none to validate.
WellBuilt(id, pkg) ==
    /\ pkg \in Packages
    /\ pkg.sum = None => pkg.kind = "official" /\ pkg.manifest.form # "object"
    /\ pkg.kind = "official" => pkg.urls[Default] = Release(id)
    /\ pkg.manifest.form = "object" => Valid(pkg.manifest, pkg.sum)
    /\ pkg.manifest.form # "object" => pkg.manifest.breaks = {}
    /\ pkg.codes = IF pkg.manifest.codes = {Malformed} THEN {} ELSE pkg.manifest.codes

LEMMA PublicationFields ==
    ASSUME NEW p \in Publications
    PROVE  /\ p.kind \in {"proxy", "official"} /\ p.id \in Ids
           /\ p.urls \in [Keys -> Hosts \cup {None}] /\ p.url \in Hosts \cup {None}
           /\ p.sum \in Files \cup {Malformed, None} /\ p.file \in Files
           /\ p.manifest \in Manifests
           /\ p.kind = "proxy" => p.sum # None
           /\ p.manifest.form # "object" => p.manifest.breaks = {}
BY PublicationsAssumption

LEMMA PackageIsWellBuilt ==
    ASSUME NEW p \in Publications, Validated(p) => Valid(p.manifest, Sum(p))
    PROVE  WellBuilt(p.id, Package(p)) /\ Package(p).downloads = 0 /\ Package(p) # None
<1> DEFINE pkg == Package(p)
<1>1. Default \in Keys /\ Release(p.id) \in Urls /\ Hosts \subseteq Urls
  BY PublicationFields DEF Keys, Urls
<1>2. /\ pkg.kind = p.kind /\ pkg.manifest = p.manifest /\ pkg.sum = Sum(p)
      /\ pkg.codes = UnlockCodes(p) /\ pkg.downloads = 0
  BY DEF Package
<1>3. Sum(p) \in Files \cup {Malformed, None}
  BY PublicationFields DEF Sum
<1>4. UnlockCodes(p) \in SUBSET Codes
  <2>1. p.manifest.codes \in SUBSET Codes \/ p.manifest.codes = {Malformed}
    BY PublicationFields DEF Manifests
  <2> QED BY <2>1 DEF UnlockCodes
<1>5. pkg.url \in Urls \cup {None}
  BY <1>1, PublicationFields DEF Package
<1>6. pkg.urls \in [Keys -> Urls \cup {None}]
  BY <1>1, PublicationFields DEF Package
<1>7. pkg \in Packages
  <2>1. pkg = [kind |-> p.kind, manifest |-> p.manifest, sum |-> Sum(p),
               codes |-> UnlockCodes(p), downloads |-> 0, url |-> pkg.url, urls |-> pkg.urls]
    BY DEF Package
  <2> HIDE DEF pkg
  <2> QED BY <1>3, <1>4, <1>5, <1>6, <2>1, PublicationFields DEF Packages
<1>8. pkg.kind = "official" => pkg.urls[Default] = Release(p.id)
  BY <1>1 DEF Package
<1>9. Sum(p) = None => p.kind = "official" /\ p.manifest.form # "object"
  <2>1. Sum(p) = None => p.sum = None /\ p.kind = "official"
    BY PublicationFields DEF Sum, Validated
  <2>2. p.manifest.form = "object" => Sum(p) \in Files
    BY DEF Validated, Valid
  <2> QED BY <2>1, <2>2, ValuesAssumption
<1>10. pkg # None
  BY <1>7, ValuesAssumption
<1> HIDE DEF pkg
<1> QED
  BY <1>2, <1>7, <1>8, <1>9, <1>10, PublicationFields
  DEF WellBuilt, Validated, UnlockCodes, pkg

\* The packages stored are well built, and so will be those of the publishers
\* that have passed validation.
StoredOK ==
    /\ data \in [Ids -> Packages \cup {None}]
    /\ \A id \in Ids : data[id] # None =>
          WellBuilt(id, data[id]) /\ data[id].downloads <= MaxDownloads
    /\ pc \in [Workers -> {"idle", "duplicate", "validate", "release", "put"}]
    /\ req \in [Workers -> Publications \cup {None}]
    /\ \A w \in Workers : pc[w] # "idle" => req[w] \in Publications
    /\ \A w \in Workers : pc[w] \in {"release", "put"} =>
          (Validated(req[w]) => Valid(req[w].manifest, Sum(req[w])))

\* What the handlers have read for the reader is well built too, and the
\* version is still stored.
ReaderOK ==
    client.step # "idle" =>
        /\ client = [step |-> client.step, q |-> client.q, pkg |-> client.pkg,
                     reply |-> client.reply]
        /\ client.q \in Questions
        /\ client.step \in {client.q.kind, "answered"}
        /\ WellBuilt(client.q.id, client.pkg)
        /\ data[client.q.id] # None

LEMMA QuestionFields ==
    ASSUME NEW q \in Questions
    PROVE  /\ q.id \in Ids /\ q.kind \in {"download", "check", "unlock", "validate"}
           /\ q.kind \in {"download", "check"} => q.ask \in Keys
           /\ q.kind = "unlock" => q.ask \in Codes
BY DEF Questions

\* A download counted changes the counter and nothing else.
LEMMA DownloadCounted ==
    ASSUME NEW old \in [Ids -> Packages \cup {None}], NEW id \in Ids, old[id] # None,
           NEW new, new = [old EXCEPT ![id].downloads = @ + 1]
    PROVE  /\ new \in [Ids -> Packages \cup {None}]
           /\ \A other \in Ids : other # id => new[other] = old[other]
           /\ new[id] \in Packages /\ new[id].downloads = old[id].downloads + 1
           /\ new[id].kind = old[id].kind /\ new[id].manifest = old[id].manifest
           /\ new[id].sum = old[id].sum /\ new[id].codes = old[id].codes
           /\ new[id].url = old[id].url /\ new[id].urls = old[id].urls
<1> DEFINE pkg == [old[id] EXCEPT !.downloads = @ + 1]
<1>1. old[id] \in Packages
  OBVIOUS
<1>2. old[id].downloads + 1 \in Nat
  <2>1. old[id].downloads \in Nat
    BY <1>1 DEF Packages
  <2> QED BY <2>1
<1>3. /\ pkg \in Packages /\ pkg.downloads = old[id].downloads + 1
      /\ pkg.kind = old[id].kind /\ pkg.manifest = old[id].manifest
      /\ pkg.sum = old[id].sum /\ pkg.codes = old[id].codes
      /\ pkg.url = old[id].url /\ pkg.urls = old[id].urls
  BY <1>1, <1>2 DEF Packages
<1>4. new = [old EXCEPT ![id] = pkg]
  OBVIOUS
<1> HIDE DEF pkg
<1>5. new \in [Ids -> Packages \cup {None}] /\ new[id] = pkg
        /\ \A other \in Ids : other # id => new[other] = old[other]
  BY <1>3, <1>4
<1> QED BY <1>3, <1>5

\* The effect of AnswerDownload on what is stored.
LEMMA AnswerDownloadEffect ==
    ASSUME StoredOK, ReaderOK, AnswerDownload
    PROVE  /\ UNCHANGED <<pc, req, served>>
           /\ client.q.id \in Ids /\ data[client.q.id] # None
           /\ data' \in [Ids -> Packages \cup {None}]
           /\ \A id \in Ids : id # client.q.id => data'[id] = data[id]
           /\ data'[client.q.id] # None
           /\ data'[client.q.id].downloads <= MaxDownloads
           /\ \A field \in {"kind", "manifest", "sum", "codes", "url", "urls"} :
                 data'[client.q.id][field] = data[client.q.id][field]
<1> DEFINE id == client.q.id
           url == RedirectUrl(client.pkg, client.q.ask)
<1>1. id \in Ids /\ data[id] # None /\ data \in [Ids -> Packages \cup {None}]
        /\ data[id].downloads <= MaxDownloads
  BY QuestionFields DEF ReaderOK, StoredOK, AnswerDownload
<1>2. CASE url = None
  BY <1>1, <1>2 DEF AnswerDownload, world
<1>3. CASE url # None
  <2>1. data' = [data EXCEPT ![id].downloads = @ + 1] /\ data[id].downloads < MaxDownloads
    BY <1>3 DEF AnswerDownload
  <2>2. data[id] \in Packages
    BY <1>1
  <2>3. data[id].downloads \in Nat
    BY <2>2 DEF Packages
  <2>4. data[id].downloads + 1 <= MaxDownloads
    BY <2>1, <2>3, ValuesAssumption
  <2> DEFINE new == data'
  <2>5. new = [data EXCEPT ![id].downloads = @ + 1]
    BY <2>1
  <2> HIDE DEF new, id
  <2>6. /\ new \in [Ids -> Packages \cup {None}]
        /\ \A other \in Ids : other # id => new[other] = data[other]
        /\ new[id] \in Packages /\ new[id].downloads = data[id].downloads + 1
        /\ new[id].kind = data[id].kind /\ new[id].manifest = data[id].manifest
        /\ new[id].sum = data[id].sum /\ new[id].codes = data[id].codes
        /\ new[id].url = data[id].url /\ new[id].urls = data[id].urls
    BY <1>1, <2>5, DownloadCounted
  <2>7. UNCHANGED <<pc, req, served>>
    BY DEF AnswerDownload, world
  <2> QED BY <1>1, <2>4, <2>6, <2>7, ValuesAssumption DEF new, id
<1> QED BY <1>2, <1>3

\* What is stored stays stored.
LEMMA StoredStays ==
    ASSUME StoredOK, ReaderOK, [NNext]_allVars
    PROVE  \A id \in Ids : data[id] # None => data'[id] # None
<1>1. ASSUME NEW w \in Workers, StorePackage(w)
      PROVE  \A id \in Ids : data[id] # None => data'[id] # None
  <2>1. Package(req[w]) # None
    BY <1>1, PackageIsWellBuilt DEF StorePackage, StoredOK
  <2> QED BY <1>1, <2>1 DEF StorePackage, StoredOK
<1>2. CASE AnswerDownload
  BY <1>2, AnswerDownloadEffect
<1>3. CASE UNCHANGED data
  BY <1>3
<1> QED
  BY <1>1, <1>2, <1>3
  DEF NNext, NCheck, NHost, NPublisher, NStore, AnswerCheck, HostChanges, PublisherStep, Receive,
      CheckDuplicate, Validate, UploadRelease, Refuse, TrackerChanges, Ask, AnswerValidate,
      AnswerUnlock, Leave, allVars, vars

-----------------------------------------------------------------------------
LEMMA StoredInit == NInit => StoredOK
BY DEF NInit, Init, StoredOK

LEMMA StoredNext ==
    ASSUME StoredOK, ReaderOK, [NNext]_allVars
    PROVE  StoredOK'
<1>1. ASSUME NEW w \in Workers, NEW p \in Publications, Receive(w, p) PROVE StoredOK'
  BY <1>1 DEF Receive, Goto, StoredOK
<1>2. ASSUME NEW w \in Workers, CheckDuplicate(w) PROVE StoredOK'
  BY <1>2 DEF CheckDuplicate, Goto, StoredOK
<1>3. ASSUME NEW w \in Workers, Validate(w) PROVE StoredOK'
  <2>1. req[w] \in Publications
    BY <1>3 DEF Validate, StoredOK
  <2>2. Validated(req[w]) => Valid(req[w].manifest, Sum(req[w]))
    BY <1>3, <2>1, PublicationFields, PassedIsValid DEF Validate
  <2>3. /\ UNCHANGED <<data, req>>
        /\ pc' \in [Workers -> {"idle", "duplicate", "validate", "release", "put"}]
        /\ pc[w] = "validate" /\ \A v \in Workers : v # w => pc'[v] = pc[v]
    BY <1>3 DEF Validate, Goto, StoredOK
  <2> QED BY <2>1, <2>2, <2>3 DEF StoredOK
<1>4. ASSUME NEW w \in Workers, UploadRelease(w) PROVE StoredOK'
  BY <1>4 DEF UploadRelease, Goto, StoredOK
<1>5. ASSUME NEW w \in Workers, Refuse(w) PROVE StoredOK'
  BY <1>5 DEF Refuse, Goto, StoredOK
<1>6. ASSUME NEW w \in Workers, StorePackage(w) PROVE StoredOK'
  <2>1. req[w] \in Publications /\ (Validated(req[w]) => Valid(req[w].manifest, Sum(req[w])))
    BY <1>6 DEF StorePackage, StoredOK
  <2>2. PICK pkg : pkg = Package(req[w])
    OBVIOUS
  <2>3. WellBuilt(req[w].id, pkg) /\ pkg.downloads = 0 /\ req[w].id \in Ids /\ pkg \in Packages
    BY <2>1, <2>2, PackageIsWellBuilt, PublicationFields DEF WellBuilt
  <2>4. data' = [data EXCEPT ![req[w].id] = pkg]
    BY <1>6, <2>2 DEF StorePackage
  <2>5. \A id \in Ids : data'[id] # None =>
            WellBuilt(id, data'[id]) /\ data'[id].downloads <= MaxDownloads
    BY <2>3, <2>4, ValuesAssumption DEF StoredOK
  <2>6. data' \in [Ids -> Packages \cup {None}]
    BY <2>3, <2>4 DEF StoredOK
  <2> QED BY <1>6, <2>5, <2>6 DEF StorePackage, Goto, StoredOK
<1>7. CASE AnswerDownload
  <2>1. ASSUME NEW id \in Ids, data'[id] # None
        PROVE  WellBuilt(id, data'[id]) /\ data'[id].downloads <= MaxDownloads
    <3>1. CASE id # client.q.id
      BY <1>7, <2>1, <3>1, AnswerDownloadEffect DEF StoredOK
    <3>2. CASE id = client.q.id
      <4>1. WellBuilt(id, data[id]) /\ data'[id] \in Packages
              /\ data'[id].downloads <= MaxDownloads
        BY <1>7, <2>1, <3>2, AnswerDownloadEffect DEF StoredOK
      <4>2. /\ data'[id].kind = data[id].kind /\ data'[id].manifest = data[id].manifest
            /\ data'[id].sum = data[id].sum /\ data'[id].codes = data[id].codes
            /\ data'[id].urls = data[id].urls
        BY <1>7, <3>2, AnswerDownloadEffect
      <4> QED BY <4>1, <4>2 DEF WellBuilt
    <3> QED BY <3>1, <3>2
  <2> QED BY <1>7, <2>1, AnswerDownloadEffect DEF StoredOK
<1>8. CASE UNCHANGED <<data, pc, req>>
  BY <1>8 DEF StoredOK
<1> QED
  BY <1>1, <1>2, <1>3, <1>4, <1>5, <1>6, <1>7, <1>8
  DEF NNext, NCheck, NHost, NPublisher, NStore, AnswerCheck, HostChanges, PublisherStep,
      TrackerChanges, Ask, AnswerValidate, AnswerUnlock, Leave, allVars, vars

-----------------------------------------------------------------------------
(* What a reader is told.                                                  *)

\* A download is redirected as the package read for it says.
RedirectFollows ==
    Answered("download") => client.reply = RedirectUrl(client.pkg, client.q.ask)

Answers == ReaderOK /\ StoredStaysValid /\ UnlockFollowsManifest /\ RedirectFollows

LEMMA AnswersInit == NInit => Answers
BY DEF NInit, Init, Idle, Answers, ReaderOK, StoredStaysValid, UnlockFollowsManifest,
       RedirectFollows, Answered

\* The effect of an answer.
LEMMA ReplyEffect ==
    ASSUME ReaderOK, client.step # "idle", NEW answer, Reply(answer)
    PROVE  /\ client' = [step |-> "answered", q |-> client.q, pkg |-> client.pkg, reply |-> answer]
           /\ client'.step = "answered" /\ client'.q = client.q
           /\ client'.pkg = client.pkg /\ client'.reply = answer
BY DEF ReaderOK, Reply

\* An answer leaves the reader with the request and the package it had.
LEMMA ReaderAnswered ==
    ASSUME ReaderOK, client.step # "idle", NEW answer, Reply(answer),
           \A id \in Ids : data[id] # None => data'[id] # None
    PROVE  ReaderOK'
<1>1. /\ client' = [step |-> client'.step, q |-> client'.q, pkg |-> client'.pkg,
                    reply |-> client'.reply]
      /\ client'.step = "answered" /\ client'.q = client.q /\ client'.pkg = client.pkg
  BY ReplyEffect
<1>2. /\ client.q \in Questions /\ WellBuilt(client.q.id, client.pkg)
      /\ client.q.id \in Ids /\ data[client.q.id] # None
  BY QuestionFields DEF ReaderOK
<1> QED BY <1>1, <1>2 DEF ReaderOK

LEMMA ReaderValidates ==
    ASSUME ReaderOK, AnswerValidate
    PROVE  StoredStaysValid'
<1> DEFINE manifest == client.pkg.manifest
<1>1. client.step = "validate" /\ client.q.kind = "validate" /\ client.step # "idle"
  BY QuestionFields DEF AnswerValidate, ReaderOK
<1>2. PICK answer : answer = IF manifest.form = "absent" THEN "no manifest"
                             ELSE Failure(manifest, client.pkg.sum)
  OBVIOUS
<1>3. client'.step = "answered" /\ client'.q = client.q /\ client'.pkg = client.pkg
        /\ client'.reply = answer
  BY <1>1, <1>2, ReplyEffect DEF AnswerValidate
<1>4. WellBuilt(client.q.id, client.pkg) /\ manifest.form \in {"absent", "null", "object"}
  BY <1>1 DEF ReaderOK, WellBuilt, Packages, Manifests
<1>5. CASE manifest.form = "object"
  BY <1>2, <1>3, <1>4, <1>5, ValidFailure DEF WellBuilt, StoredStaysValid
<1>6. CASE manifest.form = "null"
  BY <1>2, <1>3, <1>4, <1>6, NullFailure DEF WellBuilt, StoredStaysValid
<1>7. CASE manifest.form = "absent"
  BY <1>2, <1>3, <1>7 DEF StoredStaysValid
<1> QED BY <1>4, <1>5, <1>6, <1>7

LEMMA ReaderUnlocks ==
    ASSUME ReaderOK, AnswerUnlock
    PROVE  UnlockFollowsManifest'
<1> DEFINE codes == client.pkg.manifest.codes
           ask == client.q.ask
<1>1. client.step = "unlock" /\ client.q.kind = "unlock" /\ client.step # "idle"
  BY QuestionFields DEF AnswerUnlock, ReaderOK
<1>2. PICK answer : answer = IF client.pkg.codes = {} THEN "no unlock required"
                             ELSE IF ask \in client.pkg.codes THEN "ok" ELSE "invalid"
  OBVIOUS
<1>3. client'.step = "answered" /\ client'.q = client.q /\ client'.pkg = client.pkg
        /\ client'.reply = answer
  BY <1>1, <1>2, ReplyEffect DEF AnswerUnlock
<1>4. client.pkg.codes = IF codes = {Malformed} THEN {} ELSE codes
  BY <1>1 DEF ReaderOK, WellBuilt
<1>5. ask \in Codes /\ ask # Malformed
  BY <1>1, QuestionFields, ValuesAssumption DEF ReaderOK
<1>6. answer = CASE codes \in {{}, {Malformed}} -> "no unlock required"
                 [] ask \in codes -> "ok"
                 [] OTHER -> "invalid"
  <2>1. CASE codes = {} \/ codes = {Malformed}
    BY <1>2, <1>4, <1>5, <2>1
  <2>2. CASE codes # {} /\ codes # {Malformed}
    BY <1>2, <1>4, <2>2
  <2> QED BY <2>1, <2>2
<1> QED BY <1>3, <1>6 DEF UnlockFollowsManifest

LEMMA AnswersNext ==
    ASSUME StoredOK, Answers, [NNext]_allVars
    PROVE  Answers'
<1> USE DEF Answers
<1>0. \A id \in Ids : data[id] # None => data'[id] # None
  BY StoredStays
<1>1. CASE AnswerValidate
  <2>1. client.q.kind = "validate" /\ client.step # "idle"
    BY <1>1, QuestionFields DEF AnswerValidate, ReaderOK
  <2>2. PICK answer : Reply(answer)
    BY <1>1 DEF AnswerValidate
  <2>3. client'.q.kind = "validate"
    BY <2>1, <2>2, ReplyEffect
  <2>4. ReaderOK'
    BY <1>0, <2>1, <2>2, ReaderAnswered
  <2> QED
    BY <1>1, <2>3, <2>4, ReaderValidates DEF UnlockFollowsManifest, RedirectFollows, Answered
<1>2. CASE AnswerUnlock
  <2>1. client.q.kind = "unlock" /\ client.step # "idle"
    BY <1>2, QuestionFields DEF AnswerUnlock, ReaderOK
  <2>2. PICK answer : Reply(answer)
    BY <1>2 DEF AnswerUnlock
  <2>3. client'.q.kind = "unlock"
    BY <2>1, <2>2, ReplyEffect
  <2>4. ReaderOK'
    BY <1>0, <2>1, <2>2, ReaderAnswered
  <2> QED
    BY <1>2, <2>3, <2>4, ReaderUnlocks DEF StoredStaysValid, RedirectFollows, Answered
<1>3. CASE AnswerDownload
  <2>1. client.q.kind = "download" /\ client.step # "idle"
    BY <1>3, QuestionFields DEF AnswerDownload, ReaderOK
  <2>2. Reply(RedirectUrl(client.pkg, client.q.ask))
    BY <1>3 DEF AnswerDownload
  <2>3. /\ client'.q = client.q /\ client'.pkg = client.pkg
        /\ client'.reply = RedirectUrl(client.pkg, client.q.ask)
    BY <2>1, <2>2, ReplyEffect
  <2>4. ReaderOK'
    BY <1>0, <2>1, <2>2, ReaderAnswered
  <2>5. RedirectFollows'
    BY <2>3 DEF RedirectFollows, RedirectUrl, FirstUrl
  <2> QED BY <2>1, <2>3, <2>4, <2>5 DEF StoredStaysValid, UnlockFollowsManifest, Answered
<1>4. CASE AnswerCheck
  <2>1. client.q.kind = "check" /\ client.step # "idle"
    BY <1>4, QuestionFields DEF AnswerCheck, ReaderOK
  <2>2. PICK answer : Reply(answer)
    BY <1>4 DEF AnswerCheck
  <2>3. client'.q.kind = "check"
    BY <2>1, <2>2, ReplyEffect
  <2>4. ReaderOK'
    BY <1>0, <2>1, <2>2, ReaderAnswered
  <2> QED
    BY <2>3, <2>4 DEF StoredStaysValid, UnlockFollowsManifest, RedirectFollows, Answered
<1>5. ASSUME NEW q \in Questions, Ask(q) PROVE Answers'
  <2>1. client' = [step |-> q.kind, q |-> q, pkg |-> data[q.id], reply |-> None]
          /\ data[q.id] # None /\ UNCHANGED data
    BY <1>5 DEF Ask
  <2>2. WellBuilt(q.id, data[q.id])
    BY <2>1, QuestionFields DEF StoredOK
  <2>3. ReaderOK'
    BY <2>1, <2>2 DEF ReaderOK
  <2>4. client'.step # "answered"
    BY <2>1, QuestionFields
  <2> QED BY <2>3, <2>4 DEF StoredStaysValid, UnlockFollowsManifest, RedirectFollows, Answered
<1>6. CASE Leave
  BY <1>6 DEF Leave, Idle, ReaderOK, StoredStaysValid, UnlockFollowsManifest, RedirectFollows,
              Answered
<1>7. CASE UNCHANGED client
  <2>1. ReaderOK'
    BY <1>0, <1>7, QuestionFields DEF ReaderOK
  <2> QED
    BY <1>7, <2>1 DEF StoredStaysValid, UnlockFollowsManifest, RedirectFollows, Answered,
                      RedirectUrl, FirstUrl
<1> QED
  BY <1>1, <1>2, <1>3, <1>4, <1>5, <1>6, <1>7
  DEF NNext, NCheck, NHost, NPublisher, NStore, HostChanges, PublisherStep, Receive,
      CheckDuplicate, Validate, UploadRelease, Refuse, StorePackage, TrackerChanges, allVars, vars

-----------------------------------------------------------------------------
(* What a reader may trust.                                                *)

\* A variant that was verified leads to a file with the checksum stored, and a
\* download of it under way read the same URLs.
TrustOK ==
    /\ trust \subseteq Ids \X Keys
    /\ \A id \in Ids, variant \in Keys : <<id, variant>> \in trust =>
          /\ data[id] # None /\ data[id].sum # None
          /\ CheckedUrl(data[id], variant) # None
          /\ served[CheckedUrl(data[id], variant)].file = data[id].sum
    /\ client.step # "idle" /\ client.q.kind = "download" /\ <<client.q.id, client.q.ask>> \in trust =>
          client.pkg.url = data[client.q.id].url /\ client.pkg.urls = data[client.q.id].urls

\* The URLs of a package decide which one is checked.
LEMMA UrlsDecide ==
    ASSUME NEW pkg, NEW other, other.url = pkg.url, other.urls = pkg.urls, NEW variant
    PROVE  CheckedUrl(other, variant) = CheckedUrl(pkg, variant)
BY DEF CheckedUrl

LEMMA TrustInit == NInit => TrustOK
BY DEF NInit, Init, Idle, TrustOK

\* What is verified while a check is answered is what TrustOK asks for.
LEMMA TrustCheck ==
    ASSUME StoredOK, Answers, TrustOK, NCheck
    PROVE  TrustOK'
<1> DEFINE id == client.q.id
           variant == client.q.ask
           url == CheckedUrl(client.pkg, variant)
<1>1. /\ client.step # "idle" /\ client.q.kind = "check" /\ id \in Ids /\ variant \in Keys
      /\ data[id] # None
  BY QuestionFields DEF NCheck, AnswerCheck, Answers, ReaderOK
<1>2. UNCHANGED <<data, served>>
  BY DEF NCheck, AnswerCheck, world
<1>3. PICK answer \in BOOLEAN : answer = (url # None /\ Verdict(client.pkg.sum, served[url]))
  OBVIOUS
<1>4. client'.q = client.q /\ client'.reply = answer
  <2>1. Reply(answer)
    BY <1>3 DEF NCheck, AnswerCheck
  <2> QED BY <1>1, <2>1, ReplyEffect DEF Answers
<1>5. CASE trust' = trust
  BY <1>1, <1>2, <1>4, <1>5 DEF TrustOK
<1>6. CASE trust' = trust \cup {<<id, variant>>} /\ answer /\ Told(url) /\ data[id] = client.pkg
  <2>1. url # None /\ client.pkg.sum # None /\ served[url].file = client.pkg.sum
    BY <1>3, <1>6 DEF Told, Verdict
  <2>2. client'.q.kind # "download"
    BY <1>1, <1>4
  <2>3. ASSUME NEW i \in Ids, NEW v \in Keys, <<i, v>> \in trust'
        PROVE  /\ data[i] # None /\ data[i].sum # None /\ CheckedUrl(data[i], v) # None
               /\ served[CheckedUrl(data[i], v)].file = data[i].sum
    <3>1. CASE <<i, v>> \in trust
      BY <3>1 DEF TrustOK
    <3>2. CASE i = id /\ v = variant
      BY <1>1, <1>6, <2>1, <3>2
    <3> QED BY <1>6, <2>3, <3>1, <3>2
  <2>4. trust' \subseteq Ids \X Keys
    BY <1>1, <1>6 DEF TrustOK
  <2> QED BY <1>2, <2>2, <2>3, <2>4 DEF TrustOK
<1> QED BY <1>3, <1>4, <1>5, <1>6 DEF NCheck

\* A version that is stored again is trusted no more.
LEMMA TrustStore ==
    ASSUME StoredOK, Answers, TrustOK, NEW w \in Workers, NStore(w)
    PROVE  TrustOK'
<1>1. req[w] \in Publications
  BY DEF NStore, StorePackage, StoredOK
<1>2. /\ \A id \in Ids : id # req[w].id => data'[id] = data[id]
      /\ UNCHANGED <<served, client>>
      /\ \A id \in Ids, variant \in Keys :
            <<id, variant>> \in trust' => <<id, variant>> \in trust /\ id # req[w].id
      /\ trust' \subseteq trust
  BY DEF NStore, StorePackage, StoredOK, world
<1>3. ASSUME client.step # "idle", client.q.kind = "download",
             <<client.q.id, client.q.ask>> \in trust'
      PROVE  /\ client.pkg.url = data'[client.q.id].url
             /\ client.pkg.urls = data'[client.q.id].urls
  <2>1. client.q.id \in Ids /\ client.q.ask \in Keys
    BY <1>3, QuestionFields DEF Answers, ReaderOK
  <2>2. data'[client.q.id] = data[client.q.id] /\ <<client.q.id, client.q.ask>> \in trust
    BY <1>2, <1>3, <2>1
  <2> QED BY <1>3, <2>2 DEF TrustOK
<1> QED BY <1>2, <1>3 DEF TrustOK

LEMMA TrustDownload ==
    ASSUME StoredOK, Answers, TrustOK, AnswerDownload, UNCHANGED trust
    PROVE  TrustOK'
<1> DEFINE id == client.q.id
<1>1. client.q.kind = "download" /\ client.step # "idle" /\ id \in Ids
  BY QuestionFields DEF AnswerDownload, Answers, ReaderOK
<1>2. /\ UNCHANGED served
      /\ \A i \in Ids : i # id => data'[i] = data[i]
      /\ data'[id] # None
      /\ data'[id].sum = data[id].sum /\ data'[id].url = data[id].url
      /\ data'[id].urls = data[id].urls
  BY AnswerDownloadEffect DEF Answers
<1>3. client'.q = client.q /\ client'.pkg = client.pkg
  <2>1. Reply(RedirectUrl(client.pkg, client.q.ask))
    BY DEF AnswerDownload
  <2> QED BY <1>1, <2>1, ReplyEffect DEF Answers
<1>4. ASSUME NEW i \in Ids, NEW v \in Keys, <<i, v>> \in trust
      PROVE  /\ data'[i] # None /\ data'[i].sum # None /\ CheckedUrl(data'[i], v) # None
             /\ served'[CheckedUrl(data'[i], v)].file = data'[i].sum
  <2>1. data'[i].sum = data[i].sum /\ data'[i].url = data[i].url
          /\ data'[i].urls = data[i].urls /\ data'[i] # None
    BY <1>2, <1>4 DEF TrustOK
  <2>2. CheckedUrl(data'[i], v) = CheckedUrl(data[i], v)
    BY <2>1 DEF CheckedUrl
  <2> QED BY <1>2, <1>4, <2>1, <2>2 DEF TrustOK
<1>5. <<id, client.q.ask>> \in trust =>
        client.pkg.url = data'[id].url /\ client.pkg.urls = data'[id].urls
  BY <1>1, <1>2 DEF TrustOK
<1> QED BY <1>3, <1>4, <1>5 DEF TrustOK

LEMMA TrustNext ==
    ASSUME StoredOK, Answers, TrustOK, [NNext]_allVars
    PROVE  TrustOK'
<1>1. CASE trust' = {}
  BY <1>1 DEF TrustOK
<1>2. CASE NCheck
  BY <1>2, TrustCheck
<1>3. ASSUME NEW w \in Workers, NStore(w) PROVE TrustOK'
  BY <1>3, TrustStore
<1>4. CASE AnswerDownload /\ UNCHANGED trust
  BY <1>4, TrustDownload
<1>5. ASSUME NEW q \in Questions, Ask(q), UNCHANGED trust PROVE TrustOK'
  <2>1. client'.q = q /\ client'.pkg = data[q.id] /\ UNCHANGED <<data, served>>
    BY <1>5 DEF Ask, world
  <2> QED BY <1>5, <2>1 DEF TrustOK
<1>6. CASE (AnswerValidate \/ AnswerUnlock) /\ UNCHANGED trust
  <2>1. client.q.kind # "download" /\ client.step # "idle"
    BY <1>6, QuestionFields DEF AnswerValidate, AnswerUnlock, Answers, ReaderOK
  <2>2. PICK answer : Reply(answer)
    BY <1>6 DEF AnswerValidate, AnswerUnlock
  <2>3. client'.q.kind # "download"
    BY <2>1, <2>2, ReplyEffect DEF Answers
  <2>4. UNCHANGED <<data, served, trust>>
    BY <1>6 DEF AnswerValidate, AnswerUnlock, world
  <2> QED BY <2>3, <2>4 DEF TrustOK
<1>7. CASE Leave /\ UNCHANGED trust
  BY <1>7 DEF Leave, Idle, world, TrustOK
<1>8. CASE UNCHANGED <<data, served, client, trust>>
  BY <1>8 DEF TrustOK
<1>9. ASSUME NEW w \in Workers, NPublisher(w) PROVE TrustOK'
  <2>1. UNCHANGED <<data, client>>
    BY <1>9 DEF NPublisher, PublisherStep, Receive, CheckDuplicate, Validate, UploadRelease,
                Refuse, world
  <2>2. (served' = served /\ trust' = trust) \/ trust' = {}
    BY <1>9 DEF NPublisher
  <2> QED BY <1>1, <1>8, <2>1, <2>2
<1> QED
  BY <1>1, <1>2, <1>3, <1>4, <1>5, <1>6, <1>7, <1>8, <1>9
  DEF NNext, NHost, TrackerChanges, allVars, vars, world

-----------------------------------------------------------------------------
NotaryInv == StoredOK /\ Answers /\ TrustOK

LEMMA NotaryInvariant == NSpec => []NotaryInv
<1>1. NInit => NotaryInv
  BY StoredInit, AnswersInit, TrustInit DEF NotaryInv
<1>2. NotaryInv /\ [NNext]_allVars => NotaryInv'
  BY StoredNext, AnswersNext, TrustNext DEF NotaryInv, Answers
<1> QED BY <1>1, <1>2, PTL DEF NSpec

\* Types, and an official version always redirects to its GitHub release
\* (handlers.go:572-606).
THEOREM NotaryTypeCorrect == NSpec => []TypeOK
<1>1. NotaryInv => TypeOK
  <2> SUFFICES ASSUME StoredOK, TrustOK PROVE TypeOK
    BY DEF NotaryInv
  <2>1. ASSUME NEW id \in Ids, data[id] # None
        PROVE  /\ data[id].sum = None => data[id].kind = "official" /\ data[id].manifest.form # "object"
               /\ data[id].urls \in [Keys -> Urls \cup {None}]
               /\ data[id].kind = "official" => RedirectUrl(data[id], Default) = Release(id)
               /\ data[id].downloads \in 0..MaxDownloads
    <3>1. WellBuilt(id, data[id]) /\ data[id] \in Packages /\ data[id].downloads <= MaxDownloads
      BY <2>1 DEF StoredOK, WellBuilt
    <3>2. data[id].downloads \in Nat /\ data[id].urls \in [Keys -> Urls \cup {None}]
      BY <3>1 DEF Packages
    <3>3. data[id].kind = "official" => RedirectUrl(data[id], Default) = Release(id)
      <4>1. Release(id) # None
        BY ValuesAssumption DEF Urls
      <4> QED BY <3>1, <4>1, FirstOfThree DEF WellBuilt, RedirectUrl
    <3>4. data[id].downloads \in 0..MaxDownloads
      BY <3>1, <3>2, ValuesAssumption
    <3> QED BY <3>1, <3>2, <3>3, <3>4 DEF WellBuilt
  <2> QED BY <2>1 DEF StoredOK, TrustOK, TypeOK
<1> QED BY <1>1, NotaryInvariant, PTL

\* A manifest that was validated when its version was published never fails a
\* later validation but for its issues URL (handlers.go:369, 534 and 777).
THEOREM StoredStaysValidHolds == NSpec => []StoredStaysValid
<1>1. NotaryInv => StoredStaysValid
  BY DEF NotaryInv, Answers
<1> QED BY <1>1, NotaryInvariant, PTL

\* A version opens for the codes of its manifest and for no other
\* (handlers.go:439, 598).
THEOREM UnlockFollowsManifestHolds == NSpec => []UnlockFollowsManifest
<1>1. NotaryInv => UnlockFollowsManifest
  BY DEF NotaryInv, Answers
<1> QED BY <1>1, NotaryInvariant, PTL

\* A download of a variant that was verified by its hash is redirected to a
\* file with the checksum stored, as long as no host and no stored version
\* changed since (handlers.go:196-212 and 1044-1053).
THEOREM CheckedDownloadIsPublishedHolds == NSpec => []CheckedDownloadIsPublished
<1>1. NotaryInv => CheckedDownloadIsPublished
  <2> SUFFICES ASSUME Answers, TrustOK, Answered("download"),
                      <<client.q.id, client.q.ask>> \in trust
               PROVE  /\ client.reply # None
                      /\ served[client.reply].file = data[client.q.id].sum
    BY DEF NotaryInv, CheckedDownloadIsPublished
  <2>1. client.step # "idle" /\ client.q.kind = "download" /\ client.q.id \in Ids
          /\ client.q.ask \in Keys
    BY QuestionFields DEF Answered, Answers, ReaderOK
  <2>2. client.reply = CheckedUrl(client.pkg, client.q.ask)
    BY SameUrl DEF Answers, RedirectFollows
  <2>3. client.reply = CheckedUrl(data[client.q.id], client.q.ask)
    BY <2>1, <2>2 DEF TrustOK, CheckedUrl
  <2> QED BY <2>1, <2>3 DEF TrustOK
<1> QED BY <1>1, NotaryInvariant, PTL

=============================================================================
