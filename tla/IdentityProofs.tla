--------------------------- MODULE IdentityProofs ---------------------------
(***************************************************************************)
(* What TLAPS proves of the key stores, the authentication and the signup, *)
(* for every number of servers, keys, requests at once and failures.       *)
(***************************************************************************)
EXTENDS IdentityHistory, TLAPS

-----------------------------------------------------------------------------
(* The inductive invariant.                                                *)

\* The steps that each kind of request goes through.
InOrder(r) ==
    /\ r.kind \in {"register", "link"} => r.step \in {"register", "putKey", "link", "done"}
    /\ r.kind = "status" => r.step \in {"lookup", "get", "load", "done", "refused"}
    /\ r.kind \in {"publish", "admin"} =>
          r.step \in {"verify", "scope", "get", "load", "check", "admitted", "refused"}
    /\ r.kind = "signup" =>
          r.step \in {"saveProfile", "putProfile", "saveStatus", "putStatus", "done"}
    /\ r.step = "link" => r.kind = "link"
    /\ r.step \in {"get", "load"} =>
          r.lookup \in IF r.kind = "status" THEN {"lookup"} ELSE {"verify", "scope"}

\* Only a request whose signature was checked gets past the check.
PastCheck(r) ==
    \/ r.step = "scope"
    \/ r.step \in {"get", "load"} /\ r.lookup = "scope"
    \/ r.step = "admitted"

RequestOK(r) ==
    /\ InOrder(r)
    /\ r.step \in {"putKey", "get", "load", "putProfile", "putStatus"} => s3
    /\ PastCheck(r) => r.signed
    /\ r.step = "admitted" => r.kind = "publish"

Typed ==
    /\ s3 \in BOOLEAN
    /\ known \in [Places -> SUBSET Keys]
    /\ linked \subseteq Keys
    /\ profile \in [Places -> [Keys -> Profiles \cup {None}]]
    /\ status \in [Places -> [Keys -> Profiles \cup {None}]]
    /\ job \in [Workers -> Requests \cup {None}]
    /\ failures \in 0..MaxFailures
    /\ knew \in [Workers -> BOOLEAN]
    /\ unread \in [Workers -> BOOLEAN]
    /\ \A w \in Workers : job[w] # None => RequestOK(job[w])
    /\ ~s3 => known[Bucket] = {} /\ \A i \in Servers : Trusted \subseteq known[i]

\* A key on its way to an account was put, or its put failed.
LinkingKeyIsPut ==
    \A w \in Workers : s3 /\ At(w, "link") => job[w].key \in known[Bucket] \cup lost

\* A request whose key is to be found, with no read that failed.
Due(w) ==
    /\ job[w] # None
    /\ knew[w] \/ (~s3 /\ job[w].key \in Trusted)
    /\ ~unread[w]

\* Its key stays known, where it looks for it, and a lookup that turns to S3
\* finds it there.
KeyStaysKnown(w) ==
    /\ At(w, "check") => job[w].key \in known[job[w].at]
    /\ Due(w) => /\ Known(job[w].at, job[w].key)
                 /\ At(w, "get") => job[w].key \in known[Bucket]
                 /\ job[w].kind = "status" => job[w].step # "refused"
                 /\ job[w].kind = "publish" /\ job[w].signed => job[w].step # "refused"

KeysStayKnown == \A w \in Workers : KeyStaysKnown(w)

\* The places that already hold the profile, but not the status, of a signup
\* at a step.
Ahead(r) ==
    CASE r.step = "putProfile" -> {r.at}
      [] r.step = "saveStatus" -> IF s3 THEN {r.at, Bucket} ELSE {r.at}
      [] r.step = "putStatus"  -> {Bucket}
      [] OTHER                 -> {}

\* Of a machine whose signups all went well there is at most one in progress,
\* and the places where profile and status differ are those it is ahead at.
SignupsInStep ==
    \A k \in Keys \ broken :
        /\ \A w, v \in Workers : Signing(w, k) /\ Signing(v, k) => w = v
        /\ \A x \in Places :
              profile[x][k] = status[x][k] \/ \E w \in Workers : Signing(w, k) /\ x \in Ahead(job[w])
        /\ \A w \in Workers : Signing(w, k) =>
              \A x \in Ahead(job[w]) : profile[x][k] = job[w].profile

-----------------------------------------------------------------------------
(* The effect of the steps on the requests and on the keys known.          *)

LEMMA RequestFields ==
    ASSUME NEW r \in Requests
    PROVE  /\ r # None
           /\ r.kind \in {"register", "link", "status", "publish", "admin", "signup"}
           /\ r.at \in Servers /\ r.key \in Keys /\ r.signed \in BOOLEAN
           /\ r.profile \in Profiles \cup {None} /\ r.step \in Steps
           /\ r.lookup \in {"lookup", "verify", "scope", None}
BY NoneAssumption DEF Requests

LEMMA JobFields ==
    ASSUME Typed, NEW w \in Workers, job[w] # None
    PROVE  /\ job[w] \in Requests /\ RequestOK(job[w])
           /\ job[w].kind \in {"register", "link", "status", "publish", "admin", "signup"}
           /\ job[w].at \in Servers /\ job[w].at \in Places /\ job[w].at # Bucket
           /\ job[w].key \in Keys /\ job[w].step \in Steps
           /\ job[w].profile \in Profiles \cup {None}
BY RequestFields, BucketAssumption DEF Typed, Places

\* A request goes on to another step and stays the request it is.
Continues(w) ==
    /\ job' \in [Workers -> Requests \cup {None}]
    /\ job[w] # None /\ job'[w] \in Requests /\ job'[w] # None
    /\ job'[w].kind = job[w].kind /\ job'[w].at = job[w].at /\ job'[w].key = job[w].key
    /\ job'[w].signed = job[w].signed /\ job'[w].profile = job[w].profile
    /\ \A v \in Workers : v # w => job'[v] = job[v]

LEMMA GoEffect ==
    ASSUME Typed, NEW w \in Workers, job[w] # None, NEW step \in Steps, Go(w, step)
    PROVE  Continues(w) /\ job'[w].step = step /\ job'[w].lookup = job[w].lookup
<1> DEFINE r == [job[w] EXCEPT !.step = step]
<1>1. /\ r \in Requests /\ r.kind = job[w].kind /\ r.at = job[w].at /\ r.key = job[w].key
      /\ r.signed = job[w].signed /\ r.profile = job[w].profile
      /\ r.step = step /\ r.lookup = job[w].lookup
  BY JobFields DEF Requests
<1>2. job' = [job EXCEPT ![w] = r]
  BY DEF Go
<1> HIDE DEF r
<1>3. job'[w] = r /\ job' \in [Workers -> Requests \cup {None}]
        /\ \A v \in Workers : v # w => job'[v] = job[v]
  BY <1>1, <1>2 DEF Typed
<1>4. r # None
  BY <1>1, RequestFields
<1> QED BY <1>1, <1>3, <1>4 DEF Continues

LEMMA LookUpEffect ==
    ASSUME Typed, NEW w \in Workers, LookUp(w)
    PROVE  /\ Continues(w) /\ job[w].step \in {"lookup", "verify", "scope"}
           /\ job'[w].lookup = job[w].step
           /\ job'[w].step = IF job[w].key \in known[job[w].at] THEN WhenFound(w, job[w].step)
                             ELSE IF s3 THEN "get" ELSE "refused"
<1> DEFINE step == IF job[w].key \in known[job[w].at] THEN WhenFound(w, job[w].step)
                   ELSE IF s3 THEN "get" ELSE "refused"
           r == [job[w] EXCEPT !.step = step, !.lookup = job[w].step]
<1>1. job[w] # None /\ job[w].step \in {"lookup", "verify", "scope"}
  BY DEF LookUp, Looking
<1>2. step \in Steps
  BY <1>1 DEF WhenFound, Steps, Answers
<1>3. job' = [job EXCEPT ![w] = r]
  BY DEF LookUp
<1> HIDE DEF step
<1>4. /\ r \in Requests /\ r.kind = job[w].kind /\ r.at = job[w].at /\ r.key = job[w].key
      /\ r.signed = job[w].signed /\ r.profile = job[w].profile
      /\ r.step = step /\ r.lookup = job[w].step
  BY <1>1, <1>2, JobFields DEF Requests
<1> HIDE DEF r
<1>5. job'[w] = r /\ job' \in [Workers -> Requests \cup {None}]
        /\ \A v \in Workers : v # w => job'[v] = job[v]
  BY <1>3, <1>4 DEF Typed
<1>6. r # None
  BY <1>4, RequestFields
<1> QED BY <1>1, <1>4, <1>5, <1>6 DEF Continues, step

\* The keys that a place knows only become more while its server runs.
KnownGrows ==
    /\ known' \in [Places -> SUBSET Keys]
    /\ \A x \in Places : known[x] \subseteq known'[x]

LEMMA Learns ==
    ASSUME Typed, NEW x \in Places, NEW k \in Keys, known' = [known EXCEPT ![x] = @ \cup {k}]
    PROVE  KnownGrows /\ k \in known'[x] /\ \A y \in Places : y # x => known'[y] = known[y]
BY DEF Typed, KnownGrows

LEMMA FailEffect ==
    ASSUME Typed
    PROVE  /\ Fail => failures' \in 0..MaxFailures /\ failures' # failures
           /\ UNCHANGED failures => failures' \in 0..MaxFailures
BY MaxFailuresAssumption DEF Typed, Fail

\* What a step of a register, a lookup or an authentication does.
LEMMA KeyStepEffect ==
    ASSUME Typed, NEW w \in Workers, KeyStep(w)
    PROVE  /\ Continues(w) /\ KnownGrows
           /\ UNCHANGED <<s3, profile, status>>
           /\ job[w].kind # "signup" /\ ~Answered(w)
           /\ linked' \subseteq Keys /\ failures' \in 0..MaxFailures
           /\ RequestOK(job[w])'
           /\ ~s3 => known'[Bucket] = {}
<1> USE JobFields
<1>1. UNCHANGED <<s3, profile, status>>
  BY DEF KeyStep, Register, PutKey, AddKey, LookUp, GetKey, LoadKey, CheckSignature, machines
<1>2. UNCHANGED known => KnownGrows
  BY DEF Typed, KnownGrows
<1>3. Bucket \in Places /\ \A i \in Servers : i \in Places /\ i # Bucket
  BY BucketAssumption DEF Places
<1>4. ~s3 => known[Bucket] = {}
  BY DEF Typed
<1>5. linked \subseteq Keys
  BY DEF Typed
<1>6. CASE Register(w)
  <2>1. job[w] # None /\ job[w].step = "register" /\ job[w].kind \in {"register", "link"}
    BY <1>6 DEF Register, At, RequestOK, InOrder
  <2>2. PICK step : /\ step = IF s3 THEN "putKey" ELSE AfterRegister(w)
                    /\ Go(w, step)
    BY <1>6 DEF Register
  <2>3. step \in {"putKey", "link", "done"} /\ (step = "link" => job[w].kind = "link")
          /\ (step = "putKey" => s3)
    BY <2>2 DEF AfterRegister
  <2>4. Continues(w) /\ job'[w].step = step
    BY <2>1, <2>2, <2>3, GoEffect DEF Steps, Answers
  <2>5. KnownGrows /\ known'[Bucket] = known[Bucket]
    BY <1>3, <1>6, <2>1, Learns DEF Register
  <2>6. RequestOK(job[w])'
    BY <1>1, <2>1, <2>3, <2>4 DEF RequestOK, InOrder, PastCheck, Continues
  <2> QED BY <1>1, <1>4, <1>5, <1>6, <2>1, <2>4, <2>5, <2>6, FailEffect
          DEF Register, Answered, Answers
<1>7. CASE PutKey(w)
  <2>1. job[w] # None /\ job[w].step = "putKey" /\ job[w].kind \in {"register", "link"} /\ s3
    BY <1>7 DEF PutKey, At, RequestOK, InOrder
  <2>2. PICK step : step = AfterRegister(w) /\ Go(w, step)
    BY <1>7 DEF PutKey
  <2>3. step \in {"link", "done"} /\ (step = "link" => job[w].kind = "link")
    BY <2>2 DEF AfterRegister
  <2>4. Continues(w) /\ job'[w].step = step
    BY <2>1, <2>2, <2>3, GoEffect DEF Steps, Answers
  <2>5. KnownGrows
    BY <1>2, <1>3, <1>7, <2>1, Learns DEF PutKey
  <2>6. RequestOK(job[w])'
    BY <1>1, <2>1, <2>3, <2>4 DEF RequestOK, InOrder, PastCheck, Continues
  <2> QED BY <1>1, <1>5, <1>7, <2>1, <2>4, <2>5, <2>6, FailEffect DEF PutKey, Answered, Answers
<1>8. CASE AddKey(w)
  <2>1. job[w] # None /\ job[w].step = "link" /\ job[w].kind = "link"
    BY <1>8 DEF AddKey, At, RequestOK, InOrder
  <2>2. Continues(w) /\ job'[w].step = "done"
    BY <1>8, <2>1, GoEffect DEF AddKey, Steps, Answers
  <2>3. RequestOK(job[w])'
    BY <1>1, <2>1, <2>2 DEF RequestOK, InOrder, PastCheck, Continues
  <2> QED BY <1>1, <1>2, <1>4, <1>5, <1>8, <2>1, <2>2, <2>3, FailEffect
          DEF AddKey, Answered, Answers
<1>9. CASE LookUp(w)
  <2>1. job[w] # None /\ job[w].step \in {"lookup", "verify", "scope"}
    BY <1>9, LookUpEffect DEF Continues
  <2>2. job[w].kind = "status" <=> job[w].step = "lookup"
    BY <2>1 DEF RequestOK, InOrder
  <2>3. job[w].kind \in {"status", "publish", "admin"}
    BY <2>1 DEF RequestOK, InOrder
  <2>4. Continues(w) /\ job'[w].lookup = job[w].step
    BY <1>9, LookUpEffect
  <2>5. /\ job'[w].step \in {"done", "check", "admitted", "refused", "get"}
        /\ job'[w].step = "done" => job[w].step = "lookup"
        /\ job'[w].step = "check" => job[w].step = "verify"
        /\ job'[w].step = "admitted" => job[w].step = "scope" /\ job[w].kind = "publish"
        /\ job'[w].step = "get" => s3
    BY <1>9, <2>1, LookUpEffect DEF WhenFound
  <2>6. job[w].step = "scope" => job[w].signed
    BY <2>1 DEF RequestOK, PastCheck
  <2>7. RequestOK(job[w])'
    BY <1>1, <2>1, <2>2, <2>3, <2>4, <2>5, <2>6 DEF RequestOK, InOrder, PastCheck, Continues
  <2> QED BY <1>1, <1>2, <1>4, <1>5, <1>9, <2>1, <2>3, <2>4, <2>7, FailEffect
          DEF LookUp, Answered, Answers
<1>10. CASE GetKey(w)
  <2>1. job[w] # None /\ job[w].step = "get" /\ job[w].kind \in {"status", "publish", "admin"} /\ s3
          /\ job[w].lookup \in IF job[w].kind = "status" THEN {"lookup"} ELSE {"verify", "scope"}
    BY <1>10 DEF GetKey, At, RequestOK, InOrder
  <2>2. PICK step \in {"load", "refused"} : Go(w, step)
    BY <1>10 DEF GetKey
  <2>3. Continues(w) /\ job'[w].step = step /\ job'[w].lookup = job[w].lookup
    BY <2>1, <2>2, GoEffect DEF Steps, Answers
  <2>4. job[w].lookup = "scope" => job[w].signed
    BY <2>1 DEF RequestOK, PastCheck
  <2>5. RequestOK(job[w])'
    BY <1>1, <2>1, <2>2, <2>3, <2>4 DEF RequestOK, InOrder, PastCheck, Continues
  <2> QED BY <1>1, <1>2, <1>4, <1>5, <1>10, <2>1, <2>3, <2>5, FailEffect
          DEF GetKey, Answered, Answers
<1>11. CASE LoadKey(w)
  <2>1. job[w] # None /\ job[w].step = "load" /\ job[w].kind \in {"status", "publish", "admin"}
          /\ job[w].lookup \in IF job[w].kind = "status" THEN {"lookup"} ELSE {"verify", "scope"}
    BY <1>11 DEF LoadKey, At, RequestOK, InOrder
  <2>2. PICK step : step = WhenFound(w, job[w].lookup) /\ Go(w, step)
    BY <1>11 DEF LoadKey
  <2>3. /\ step \in {"done", "check", "admitted", "refused"}
        /\ step = "done" => job[w].lookup = "lookup"
        /\ step = "check" => job[w].lookup = "verify"
        /\ step = "admitted" => job[w].lookup = "scope" /\ job[w].kind = "publish"
        /\ job[w].lookup = "lookup" => step = "done"
    BY <2>1, <2>2 DEF WhenFound
  <2>4. Continues(w) /\ job'[w].step = step
    BY <2>1, <2>2, <2>3, GoEffect DEF Steps, Answers
  <2>5. KnownGrows /\ known'[Bucket] = known[Bucket]
    BY <1>3, <1>11, <2>1, Learns DEF LoadKey
  <2>6. job[w].lookup = "scope" => job[w].signed
    BY <2>1 DEF RequestOK, PastCheck
  <2>7. RequestOK(job[w])'
    BY <1>1, <2>1, <2>3, <2>4, <2>6 DEF RequestOK, InOrder, PastCheck, Continues
  <2> QED BY <1>1, <1>4, <1>5, <1>11, <2>1, <2>4, <2>5, <2>7, FailEffect
          DEF LoadKey, Answered, Answers
<1>12. CASE CheckSignature(w)
  <2>1. job[w] # None /\ job[w].step = "check" /\ job[w].kind \in {"publish", "admin"}
    BY <1>12 DEF CheckSignature, At, RequestOK, InOrder
  <2>2. PICK step \in {"scope", "refused"} : Go(w, step) /\ (step = "scope" => job[w].signed)
    BY <1>12 DEF CheckSignature
  <2>3. Continues(w) /\ job'[w].step = step
    BY <2>1, <2>2, GoEffect DEF Steps, Answers
  <2>4. RequestOK(job[w])'
    BY <1>1, <2>1, <2>2, <2>3 DEF RequestOK, InOrder, PastCheck, Continues
  <2> QED BY <1>1, <1>2, <1>4, <1>5, <1>12, <2>1, <2>3, <2>4, FailEffect
          DEF CheckSignature, Answered, Answers
<1> QED BY <1>6, <1>7, <1>8, <1>9, <1>10, <1>11, <1>12 DEF KeyStep

\* The effect of Save on the profiles or the statuses.
LEMMA SaveEffect ==
    ASSUME Typed, NEW w \in Workers, job[w] # None, NEW x \in Places,
           NEW f \in [Places -> [Keys -> Profiles \cup {None}]], NEW g, g = Save(f, x, w)
    PROVE  /\ g \in [Places -> [Keys -> Profiles \cup {None}]]
           /\ g[x][job[w].key] = job[w].profile
           /\ \A y \in Places, k \in Keys : y # x \/ k # job[w].key => g[y][k] = f[y][k]
<1>1. job[w].key \in Keys /\ job[w].profile \in Profiles \cup {None}
  BY JobFields
<1> DEFINE row == [f[x] EXCEPT ![job[w].key] = job[w].profile]
<1>2. f[x] \in [Keys -> Profiles \cup {None}]
  OBVIOUS
<1>3. /\ row \in [Keys -> Profiles \cup {None}] /\ row[job[w].key] = job[w].profile
      /\ \A k \in Keys : k # job[w].key => row[k] = f[x][k]
  BY <1>1, <1>2
<1>4. g = [f EXCEPT ![x] = row]
  BY DEF Save
<1> HIDE DEF row
<1>5. g[x] = row /\ \A y \in Places : y # x => g[y] = f[y]
  BY <1>4
<1>6. g \in [Places -> [Keys -> Profiles \cup {None}]]
  BY <1>3, <1>4
<1> QED BY <1>3, <1>5, <1>6

LEMMA SignupStepEffect ==
    ASSUME Typed, NEW w \in Workers, SignupStep(w)
    PROVE  /\ Continues(w)
           /\ UNCHANGED <<s3, known, linked>>
           /\ job[w].kind = "signup" /\ ~Answered(w)
           /\ profile' \in [Places -> [Keys -> Profiles \cup {None}]]
           /\ status' \in [Places -> [Keys -> Profiles \cup {None}]]
           /\ failures' \in 0..MaxFailures
           /\ RequestOK(job[w])'
<1> USE JobFields
<1>1. UNCHANGED <<s3, known, linked>>
  BY DEF SignupStep, SaveProfile, PutProfile, SaveStatus, PutStatus
<1>2. job[w] # None /\ job[w].step \in {"saveProfile", "putProfile", "saveStatus", "putStatus"}
  BY DEF SignupStep, SaveProfile, PutProfile, SaveStatus, PutStatus, At
<1>3. job[w].kind = "signup" /\ ~Answered(w)
  BY <1>2 DEF RequestOK, InOrder, Answered, Answers
<1>4. PICK step : /\ Go(w, step) /\ step \in {"putProfile", "saveStatus", "putStatus", "done"}
                  /\ step \in {"putProfile", "putStatus"} => s3
  BY DEF SignupStep, SaveProfile, PutProfile, SaveStatus, PutStatus
<1>5. Continues(w) /\ job'[w].step = step
  BY <1>2, <1>4, GoEffect DEF Steps, Answers
<1>6. RequestOK(job[w])'
  BY <1>1, <1>3, <1>4, <1>5 DEF RequestOK, InOrder, PastCheck, Continues
<1>7. Bucket \in Places
  BY DEF Places
<1>8. /\ profile' \in [Places -> [Keys -> Profiles \cup {None}]]
      /\ status' \in [Places -> [Keys -> Profiles \cup {None}]]
      /\ failures' \in 0..MaxFailures
  <2>1. CASE SaveProfile(w)
    BY <1>2, <2>1, SaveEffect, FailEffect DEF SaveProfile, Typed
  <2>2. CASE PutProfile(w)
    BY <1>2, <1>7, <2>2, SaveEffect, FailEffect DEF PutProfile, Typed
  <2>3. CASE SaveStatus(w)
    BY <1>2, <2>3, SaveEffect, FailEffect DEF SaveStatus, Typed
  <2>4. CASE PutStatus(w)
    BY <1>2, <1>7, <2>4, SaveEffect, FailEffect DEF PutStatus, Typed
  <2> QED BY <2>1, <2>2, <2>3, <2>4 DEF SignupStep
<1> QED BY <1>1, <1>3, <1>5, <1>6, <1>8

LEMMA ReceiveEffect ==
    ASSUME Typed, NEW w \in Workers, ReceiveStep(w)
    PROVE  /\ UNCHANGED <<s3, known, linked, profile, status, failures>>
           /\ job[w] = None /\ job'[w] \in Requests /\ job'[w] # None
           /\ job' \in [Workers -> Requests \cup {None}]
           /\ \A v \in Workers : v # w => job'[v] = job[v]
           /\ job'[w].step = FirstStep(job'[w].kind)
           /\ RequestOK(job[w])'
<1>1. PICK i \in Servers, k \in Keys, signed \in BOOLEAN,
           kind \in {"register", "link", "status", "publish", "admin", "signup"},
           p \in Profiles \cup {None} : Receive(w, i, kind, k, signed, p)
  BY DEF ReceiveStep
<1> DEFINE r == [kind |-> kind, at |-> i, key |-> k, signed |-> signed,
                 profile |-> p, step |-> FirstStep(kind), lookup |-> None]
<1>2. /\ FirstStep(kind) \in Steps
      /\ kind \in {"register", "link"} => FirstStep(kind) = "register"
      /\ kind \in {"publish", "admin"} => FirstStep(kind) = "verify"
      /\ kind = "status" => FirstStep(kind) = "lookup"
      /\ kind = "signup" => FirstStep(kind) = "saveProfile"
  BY DEF FirstStep, Steps, Answers
<1>3. r \in Requests /\ r.step = FirstStep(kind) /\ r.kind = kind
  BY <1>2 DEF Requests
<1>4. job[w] = None /\ job' = [job EXCEPT ![w] = r]
        /\ UNCHANGED <<s3, known, linked, machines, failures>>
  BY <1>1 DEF Receive
<1> HIDE DEF r
<1>5. job'[w] = r /\ job' \in [Workers -> Requests \cup {None}] /\ r # None
        /\ \A v \in Workers : v # w => job'[v] = job[v]
  BY <1>3, <1>4, RequestFields DEF Typed
<1>6. RequestOK(job[w])'
  BY <1>2, <1>3, <1>5 DEF RequestOK, InOrder, PastCheck
<1> QED BY <1>3, <1>4, <1>5, <1>6 DEF machines

LEMMA RestartEffect ==
    ASSUME Typed, NEW i \in Servers, Restart(i)
    PROVE  /\ UNCHANGED <<s3, linked, failures>>
           /\ known' \in [Places -> SUBSET Keys] /\ known'[i] = StartKeys
           /\ \A x \in Places : x # i => known'[x] = known[x]
           /\ profile' \in [Places -> [Keys -> Profiles \cup {None}]]
           /\ status' \in [Places -> [Keys -> Profiles \cup {None}]]
           /\ \A k \in Keys : profile'[i][k] = None /\ status'[i][k] = None
           /\ \A x \in Places, k \in Keys : x # i =>
                 profile'[x][k] = profile[x][k] /\ status'[x][k] = status[x][k]
           /\ job' \in [Workers -> Requests \cup {None}]
           /\ \A w \in Workers : job'[w] # None => job'[w] = job[w] /\ job[w].at # i
           /\ \A w \in Workers : job[w] # None /\ job[w].at # i => job'[w] = job[w]
<1>1. StartKeys \subseteq Keys /\ i \in Places
  BY TrustedAssumption DEF StartKeys, Places
<1>2. NoMachines \in [Keys -> Profiles \cup {None}] /\ \A k \in Keys : NoMachines[k] = None
  BY DEF NoMachines
<1> QED BY <1>1, <1>2 DEF Restart, Typed

-----------------------------------------------------------------------------
(* Types and the order of the steps.                                       *)

LEMMA TypedInit == IInit => Typed
<1> SUFFICES ASSUME IInit PROVE Typed
  OBVIOUS
<1>1. known \in [Places -> SUBSET Keys] /\ known[Bucket] = {}
        /\ \A i \in Servers : known[i] = StartKeys
  BY TrustedAssumption, BucketAssumption DEF IInit, Init, StartKeys, Places
<1>2. NoMachines \in [Keys -> Profiles \cup {None}]
  BY DEF NoMachines
<1> QED BY <1>1, <1>2, MaxFailuresAssumption DEF IInit, Init, Typed, StartKeys

LEMMA TypedNext ==
    ASSUME Typed, [INext]_allVars
    PROVE  Typed'
<1>1. ASSUME NEW w \in Workers, IReceive(w) PROVE Typed'
  <2>1. knew' \in [Workers -> BOOLEAN] /\ unread' \in [Workers -> BOOLEAN]
    <3>1. Known(job'[w].at, job'[w].key) \in BOOLEAN
      BY DEF Known, Typed
    <3> QED BY <1>1, <3>1 DEF IReceive, Typed
  <2>2. \A v \in Workers : job'[v] # None => RequestOK(job[v])'
    BY <1>1, ReceiveEffect DEF IReceive, Typed, RequestOK
  <2> QED BY <1>1, <2>1, <2>2, ReceiveEffect DEF IReceive, Typed
<1>2. ASSUME NEW w \in Workers, IKeyStep(w) PROVE Typed'
  <2>1. knew' \in [Workers -> BOOLEAN] /\ unread' \in [Workers -> BOOLEAN]
    <3>1. PICK b \in BOOLEAN : unread' = [unread EXCEPT ![w] = b]
      <4>1. (unread[w] \/ (At(w, "get") /\ failures' # failures)) \in BOOLEAN
        OBVIOUS
      <4> QED BY <1>2, <4>1 DEF IKeyStep
    <3> QED BY <1>2, <3>1 DEF IKeyStep, Typed
  <2>2. \A v \in Workers : job'[v] # None => RequestOK(job[v])'
    BY <1>2, KeyStepEffect DEF IKeyStep, Typed, RequestOK, Continues
  <2>3. ~s3' => known'[Bucket] = {} /\ \A i \in Servers : Trusted \subseteq known'[i]
    BY <1>2, KeyStepEffect DEF IKeyStep, Typed, KnownGrows, Places
  <2> QED BY <1>2, <2>1, <2>2, <2>3, KeyStepEffect DEF IKeyStep, Typed, Continues, KnownGrows
<1>3. ASSUME NEW w \in Workers, ISignupStep(w) PROVE Typed'
  <2>1. \A v \in Workers : job'[v] # None => RequestOK(job[v])'
    BY <1>3, SignupStepEffect DEF ISignupStep, Typed, RequestOK, Continues
  <2> QED BY <1>3, <2>1, SignupStepEffect DEF ISignupStep, Typed, Continues
<1>4. ASSUME NEW w \in Workers, IReply(w) PROVE Typed'
  BY <1>4 DEF IReply, Reply, machines, Typed, RequestOK
<1>5. ASSUME NEW i \in Servers, IRestart(i) PROVE Typed'
  <2>1. \A v \in Workers : job'[v] # None => RequestOK(job[v])'
    BY <1>5, RestartEffect DEF IRestart, Typed, RequestOK
  <2>2. ~s3' => known'[Bucket] = {} /\ \A j \in Servers : Trusted \subseteq known'[j]
    <3>1. UNCHANGED s3 /\ known'[i] = StartKeys /\ \A x \in Places : x # i => known'[x] = known[x]
      BY <1>5, RestartEffect DEF IRestart
    <3>2. Bucket \in Places /\ Bucket # i /\ \A j \in Servers : j \in Places
      BY BucketAssumption DEF Places
    <3>3. ~s3 => known[Bucket] = {} /\ \A j \in Servers : Trusted \subseteq known[j]
      BY DEF Typed
    <3>4. ~s3 => StartKeys = Trusted
      BY DEF StartKeys
    <3> QED BY <3>1, <3>2, <3>3, <3>4
  <2>3. knew' \in [Workers -> BOOLEAN] /\ unread' \in [Workers -> BOOLEAN]
    BY <1>5 DEF IRestart, Typed
  <2> QED BY <1>5, <2>1, <2>2, <2>3, RestartEffect DEF IRestart, Typed
<1>6. CASE UNCHANGED allVars
  BY <1>6 DEF allVars, vars, machines, history, Typed, RequestOK
<1> QED BY <1>1, <1>2, <1>3, <1>4, <1>5, <1>6 DEF INext

-----------------------------------------------------------------------------
(* The keys of the web UI are stored.                                      *)

LinkInv == Typed /\ LinkedKeyIsStored /\ LinkingKeyIsPut

\* A request that gets to "link" has just put its key.
LEMMA ReachesLink ==
    ASSUME Typed, NEW w \in Workers, IKeyStep(w), s3, At(w, "link")'
    PROVE  job'[w].key \in known'[Bucket] \cup lost'
<1>1. job[w] # None /\ job'[w].step = "link" /\ job'[w].key = job[w].key /\ job[w].key \in Keys
  BY KeyStepEffect, JobFields DEF IKeyStep, At, Continues
<1>2. Bucket \in Places
  BY DEF Places
<1>3. CASE PutKey(w)
  <2>1. At(w, "putKey")
    BY <1>3 DEF PutKey
  <2>2. CASE known' = [known EXCEPT ![Bucket] = @ \cup {job[w].key}]
    BY <1>1, <1>2, <2>2, Learns
  <2>3. CASE Fail /\ UNCHANGED known
    BY <1>1, <2>1, <2>3, FailEffect DEF IKeyStep
  <2> QED BY <1>3, <2>2, <2>3 DEF PutKey
<1>4. CASE Register(w)
  <2>1. Go(w, "putKey") /\ job[w] # None
    BY <1>1, <1>4 DEF Register
  <2> QED BY <1>1, <2>1, GoEffect DEF Steps
<1>5. CASE AddKey(w)
  BY <1>1, <1>5, GoEffect DEF AddKey, Steps, Answers
<1>6. CASE LookUp(w)
  BY <1>1, <1>6, LookUpEffect DEF WhenFound
<1>7. CASE GetKey(w)
  <2>1. PICK step \in {"load", "refused"} : Go(w, step)
    BY <1>7 DEF GetKey
  <2> QED BY <1>1, <2>1, GoEffect DEF Steps, Answers
<1>8. CASE LoadKey(w)
  <2>1. PICK step : step = WhenFound(w, job[w].lookup) /\ Go(w, step)
    BY <1>8 DEF LoadKey
  <2>2. job[w].lookup \in {"lookup", "verify", "scope"}
    BY <1>8, JobFields DEF LoadKey, At, RequestOK, InOrder
  <2>3. step \in {"done", "check", "admitted", "refused"}
    BY <2>1, <2>2 DEF WhenFound
  <2> QED BY <1>1, <2>1, <2>3, GoEffect DEF Steps, Answers
<1>9. CASE CheckSignature(w)
  <2>1. PICK step \in {"scope", "refused"} : Go(w, step)
    BY <1>9 DEF CheckSignature
  <2> QED BY <1>1, <2>1, GoEffect DEF Steps, Answers
<1> QED BY <1>3, <1>4, <1>5, <1>6, <1>7, <1>8, <1>9 DEF IKeyStep, KeyStep

LEMMA LinkNext ==
    ASSUME LinkInv, [INext]_allVars
    PROVE  LinkInv'
<1>1. Typed'
  BY TypedNext DEF LinkInv
<1>2. ASSUME NEW w \in Workers, IKeyStep(w) PROVE LinkedKeyIsStored' /\ LinkingKeyIsPut'
  <2>1. known[Bucket] \subseteq known'[Bucket] /\ lost \subseteq lost' /\ UNCHANGED s3
    BY <1>2, KeyStepEffect DEF IKeyStep, LinkInv, KnownGrows, Places
  <2>2. linked' \subseteq linked \cup {job[w].key}
          /\ (linked' # linked => At(w, "link"))
    BY <1>2 DEF IKeyStep, KeyStep, Register, PutKey, AddKey, LookUp, GetKey, LoadKey, CheckSignature
  <2>3. LinkedKeyIsStored'
    BY <2>1, <2>2 DEF LinkInv, LinkedKeyIsStored, LinkingKeyIsPut
  <2>4. ASSUME NEW v \in Workers, s3, At(v, "link")'
        PROVE  job'[v].key \in known'[Bucket] \cup lost'
    <3>1. CASE v = w
      BY <1>2, <2>4, <3>1, ReachesLink DEF LinkInv
    <3>2. CASE v # w
      BY <1>2, <2>1, <2>4, <3>2, KeyStepEffect DEF IKeyStep, LinkInv, LinkingKeyIsPut, At, Continues
    <3> QED BY <3>1, <3>2
  <2> QED BY <2>1, <2>3, <2>4 DEF LinkingKeyIsPut
<1>3. ASSUME NEW w \in Workers, ISignupStep(w) PROVE LinkedKeyIsStored' /\ LinkingKeyIsPut'
  <2>1. UNCHANGED <<s3, known, linked, lost>> /\ job'[w].kind = "signup" /\ job'[w] # None
          /\ \A v \in Workers : v # w => job'[v] = job[v]
    BY <1>3, SignupStepEffect DEF ISignupStep, LinkInv, Continues
  <2>2. ~At(w, "link")'
    BY <1>1, <2>1 DEF At, Typed, RequestOK, InOrder
  <2> QED BY <2>1, <2>2 DEF LinkInv, LinkedKeyIsStored, LinkingKeyIsPut, At
<1>4. ASSUME NEW w \in Workers, IReceive(w) PROVE LinkedKeyIsStored' /\ LinkingKeyIsPut'
  <2>1. UNCHANGED <<s3, known, linked, lost>> /\ \A v \in Workers : v # w => job'[v] = job[v]
    BY <1>4, ReceiveEffect DEF IReceive, LinkInv
  <2>2. ~At(w, "link")'
    <3>1. job'[w].step = FirstStep(job'[w].kind) /\ job'[w] \in Requests
      BY <1>4, ReceiveEffect DEF IReceive, LinkInv
    <3> QED BY <3>1, RequestFields DEF FirstStep, At
  <2> QED BY <2>1, <2>2 DEF LinkInv, LinkedKeyIsStored, LinkingKeyIsPut, At
<1>5. ASSUME NEW w \in Workers, IReply(w) PROVE LinkedKeyIsStored' /\ LinkingKeyIsPut'
  BY <1>5 DEF IReply, Reply, LinkInv, Typed, LinkedKeyIsStored, LinkingKeyIsPut, At
<1>6. ASSUME NEW i \in Servers, IRestart(i) PROVE LinkedKeyIsStored' /\ LinkingKeyIsPut'
  <2>1. UNCHANGED <<s3, linked, lost>> /\ known'[Bucket] = known[Bucket]
    BY <1>6, RestartEffect, BucketAssumption DEF IRestart, LinkInv, Places
  <2>2. \A w \in Workers : job'[w] # None => job'[w] = job[w]
    BY <1>6, RestartEffect DEF IRestart, LinkInv
  <2> QED BY <2>1, <2>2 DEF LinkInv, LinkedKeyIsStored, LinkingKeyIsPut, At
<1>7. CASE UNCHANGED allVars
  <2>1. UNCHANGED <<s3, known, linked, job, lost>>
    BY <1>7 DEF allVars, vars, history
  <2>2. LinkedKeyIsStored /\ LinkingKeyIsPut
    BY DEF LinkInv
  <2>3. LinkedKeyIsStored' /\ LinkingKeyIsPut'
    BY <2>1, <2>2 DEF LinkedKeyIsStored, LinkingKeyIsPut, At
  <2> QED BY <1>1, <2>3 DEF LinkInv
<1> QED BY <1>1, <1>2, <1>3, <1>4, <1>5, <1>6, <1>7 DEF INext, LinkInv

LEMMA IdentityTyped == ISpec => []Typed
BY TypedInit, TypedNext, PTL DEF ISpec

\* Types; and without S3 nothing waits for it or is held by it.
THEOREM IdentityTypeCorrect == ISpec => []TypeOK
<1>1. Typed => TypeOK
  <2> SUFFICES ASSUME Typed PROVE TypeOK
    OBVIOUS
  <2>1. \A w \in Workers : job[w] # None =>
            job[w].at \in Servers /\ job[w].key \in Keys /\ job[w].step \in Steps
    BY JobFields
  <2>2. \A w \in Workers : At(w, "get") => s3
    BY DEF Typed, RequestOK, At
  <2> QED BY <2>1, <2>2 DEF Typed, TypeOK
<1> QED BY <1>1, IdentityTyped, PTL

\* Nobody is let in without a signature, and nobody at all reaches the admin
\* endpoints (sshauth.go:69, sshmiddleware.go:72, main.go:62).
THEOREM OnlySignersPublishHolds == ISpec => []OnlySignersPublish
<1>1. Typed => OnlySignersPublish
  BY DEF Typed, OnlySignersPublish, RequestOK, PastCheck, At
<1> QED BY <1>1, IdentityTyped, PTL

\* A key that an owner has linked is in S3, unless its put failed
\* (sshauth.go:185, ui.go:218 and 232).
THEOREM LinkedKeyIsStoredHolds == ISpec => []LinkedKeyIsStored
<1>1. IInit => LinkInv
  BY TypedInit DEF LinkInv, IInit, Init, LinkedKeyIsStored, LinkingKeyIsPut, At
<1>2. LinkInv => LinkedKeyIsStored
  BY DEF LinkInv
<1> QED BY <1>1, <1>2, LinkNext, PTL DEF ISpec

-----------------------------------------------------------------------------
(* Known keys are admitted.                                                *)

\* What other requests and servers do leaves a request its key.
LEMMA KeyKept ==
    ASSUME Typed, NEW w \in Workers, KeyStaysKnown(w), job'[w] # None => job'[w] = job[w],
           job'[w] # None => known[job[w].at] \subseteq known'[job[w].at],
           known[Bucket] \subseteq known'[Bucket], UNCHANGED s3,
           job'[w] # None => knew'[w] = knew[w] /\ unread'[w] = unread[w]
    PROVE  KeyStaysKnown(w)'
BY DEF KeyStaysKnown, Due, Known, At

LEMMA KeyKeptReceive ==
    ASSUME Typed, NEW w \in Workers, IReceive(w)
    PROVE  KeyStaysKnown(w)'
<1>1. /\ job'[w] # None /\ job'[w] \in Requests /\ job'[w].step = FirstStep(job'[w].kind)
      /\ UNCHANGED <<s3, known>>
  BY ReceiveEffect DEF IReceive
<1>2. job'[w].step \notin {"check", "get", "refused"}
  BY <1>1, RequestFields DEF FirstStep
<1>3. knew'[w] = Known(job'[w].at, job'[w].key)
  BY DEF IReceive, Typed
<1>4. ~s3 /\ job'[w].key \in Trusted => job'[w].key \in known[job'[w].at]
  BY <1>1, RequestFields DEF Typed
<1> QED BY <1>1, <1>2, <1>3, <1>4 DEF KeyStaysKnown, Due, Known, At

LEMMA KeyKeptStep ==
    ASSUME Typed, KeysStayKnown, NEW w \in Workers, IKeyStep(w)
    PROVE  KeyStaysKnown(w)'
<1> DEFINE at == job[w].at
           key == job[w].key
<1>1. /\ job[w] # None /\ at \in Places /\ key \in Keys /\ at \in Servers
      /\ job'[w] # None /\ job'[w].kind = job[w].kind /\ job'[w].at = at /\ job'[w].key = key
      /\ job'[w].signed = job[w].signed
      /\ known[at] \subseteq known'[at] /\ known[Bucket] \subseteq known'[Bucket]
      /\ UNCHANGED s3
  BY KeyStepEffect, JobFields DEF IKeyStep, Continues, KnownGrows, Places
<1>2. /\ knew' = knew
      /\ unread'[w] = (unread[w] \/ (At(w, "get") /\ failures' # failures))
  BY DEF IKeyStep, Typed
<1>3. Due(w)' => Due(w) /\ Known(at, key) /\ (At(w, "get") => key \in known[Bucket])
                   /\ ~(At(w, "get") /\ failures' # failures)
  BY <1>1, <1>2 DEF KeysStayKnown, KeyStaysKnown, Due
<1>4. Known(at, key) => key \in known'[at] \/ (s3 /\ key \in known'[Bucket])
  BY <1>1 DEF Known
<1> SUFFICES /\ job'[w].step = "check" => key \in known'[at]
             /\ Due(w)' => /\ job'[w].step = "get" => key \in known'[Bucket]
                           /\ job[w].kind = "status" => job'[w].step # "refused"
                           /\ job[w].kind = "publish" /\ job[w].signed => job'[w].step # "refused"
  BY <1>1, <1>3, <1>4 DEF KeyStaysKnown, Known, At
<1>5. CASE Register(w) \/ PutKey(w) \/ AddKey(w)
  <2>1. PICK step \in {"putKey", "link", "done"} : Go(w, step)
    BY <1>5 DEF Register, PutKey, AddKey, AfterRegister
  <2>2. job'[w].step = step
    BY <1>1, <2>1, GoEffect DEF Steps, Answers
  <2> QED BY <2>1, <2>2
<1>6. CASE LookUp(w)
  <2>1. /\ job[w].step \in {"lookup", "verify", "scope"}
        /\ job'[w].step = IF key \in known[at] THEN WhenFound(w, job[w].step)
                          ELSE IF s3 THEN "get" ELSE "refused"
    BY <1>6, LookUpEffect
  <2>2. CASE key \in known[at]
    <3>1. /\ job'[w].step \in {"done", "check", "admitted", "refused"}
          /\ job'[w].step = "refused" => job[w].step = "scope" /\ job[w].kind # "publish"
      BY <2>1, <2>2 DEF WhenFound
    <3>2. job[w].step = "scope" => job[w].kind # "status"
      BY <1>1, JobFields DEF RequestOK, InOrder
    <3> QED BY <1>1, <2>2, <3>1, <3>2
  <2>3. CASE key \notin known[at]
    BY <1>1, <1>3, <2>1, <2>3 DEF Known
  <2> QED BY <2>2, <2>3
<1>7. CASE GetKey(w)
  <2>1. At(w, "get")
    BY <1>7 DEF GetKey
  <2>2. CASE Go(w, "load")
    <3>1. job'[w].step = "load"
      BY <1>1, <2>2, GoEffect DEF Steps
    <3> QED BY <3>1
  <2>3. CASE Go(w, "refused") /\ (key \notin known[Bucket] \/ Fail)
    <3>1. job'[w].step = "refused"
      BY <1>1, <2>3, GoEffect DEF Steps, Answers
    <3>2. ~Due(w)'
      BY <1>3, <2>1, <2>3, FailEffect
    <3> QED BY <3>1, <3>2
  <2> QED BY <1>7, <2>2, <2>3 DEF GetKey
<1>8. CASE LoadKey(w)
  <2>1. key \in known'[at]
    BY <1>1, <1>8, Learns DEF LoadKey
  <2>2. PICK step : step = WhenFound(w, job[w].lookup) /\ Go(w, step)
    BY <1>8 DEF LoadKey
  <2>3. /\ job[w].kind \in {"status", "publish", "admin"}
        /\ job[w].lookup \in IF job[w].kind = "status" THEN {"lookup"} ELSE {"verify", "scope"}
    BY <1>1, <1>8, JobFields DEF LoadKey, At, RequestOK, InOrder
  <2>4. /\ step \in {"done", "check", "admitted", "refused"}
        /\ step = "refused" => job[w].kind = "admin"
    BY <2>2, <2>3 DEF WhenFound
  <2>5. job'[w].step = step
    BY <1>1, <2>2, <2>4, GoEffect DEF Steps, Answers
  <2> QED BY <2>1, <2>4, <2>5
<1>9. CASE CheckSignature(w)
  <2>1. key \in known[at] /\ job[w].kind \in {"publish", "admin"}
    BY <1>1, <1>9, JobFields DEF CheckSignature, KeysStayKnown, KeyStaysKnown, At, RequestOK, InOrder
  <2>2. PICK step \in {"scope", "refused"} : Go(w, step) /\ (job[w].signed => step = "scope")
    BY <1>9, <2>1 DEF CheckSignature
  <2>3. job'[w].step = step
    BY <1>1, <2>2, GoEffect DEF Steps, Answers
  <2> QED BY <2>1, <2>2, <2>3
<1> QED BY <1>5, <1>6, <1>7, <1>8, <1>9 DEF IKeyStep, KeyStep

LEMMA KeysKeptNext ==
    ASSUME Typed, KeysStayKnown, [INext]_allVars
    PROVE  KeysStayKnown'
<1>0. SUFFICES ASSUME NEW v \in Workers PROVE KeyStaysKnown(v)'
  BY DEF KeysStayKnown
<1>1. KeyStaysKnown(v) /\ (job[v] # None => job[v].at \in Servers /\ job[v].at \in Places
                                              /\ job[v].at # Bucket) /\ Bucket \in Places
  BY JobFields DEF KeysStayKnown, Places
<1>2. ASSUME NEW w \in Workers, IReceive(w) PROVE KeyStaysKnown(v)'
  <2>1. CASE v = w
    BY <1>2, <2>1, KeyKeptReceive
  <2>2. CASE v # w
    <3>1. job'[v] = job[v] /\ UNCHANGED <<s3, known>>
      BY <1>2, <2>2, ReceiveEffect DEF IReceive
    <3>2. knew'[v] = knew[v] /\ unread'[v] = unread[v]
      BY <1>2, <2>2 DEF IReceive, Typed
    <3> QED BY <1>1, <3>1, <3>2, KeyKept
  <2> QED BY <2>1, <2>2
<1>3. ASSUME NEW w \in Workers, IKeyStep(w) PROVE KeyStaysKnown(v)'
  <2>1. CASE v = w
    BY <1>3, <2>1, KeyKeptStep
  <2>2. CASE v # w
    <3>1. job'[v] = job[v] /\ UNCHANGED s3 /\ \A x \in Places : known[x] \subseteq known'[x]
      BY <1>3, <2>2, KeyStepEffect DEF IKeyStep, Continues, KnownGrows
    <3>2. knew'[v] = knew[v] /\ unread'[v] = unread[v]
      BY <1>3, <2>2 DEF IKeyStep, Typed
    <3> QED BY <1>1, <3>1, <3>2, KeyKept
  <2> QED BY <2>1, <2>2
<1>4. ASSUME NEW w \in Workers, ISignupStep(w) PROVE KeyStaysKnown(v)'
  <2>1. UNCHANGED <<s3, known, knew, unread>>
    BY <1>4, SignupStepEffect DEF ISignupStep
  <2>2. CASE v = w
    <3>1. job'[v] # None /\ job'[v].kind = "signup"
      BY <1>4, <2>2, SignupStepEffect DEF ISignupStep, Continues
    <3>2. job'[v].step \in {"saveProfile", "putProfile", "saveStatus", "putStatus", "done"}
      <4>1. RequestOK(job[w])'
        BY <1>4, SignupStepEffect DEF ISignupStep
      <4> QED BY <2>2, <3>1, <4>1 DEF RequestOK, InOrder
    <3>3. job'[v].key = job[v].key /\ job'[v].at = job[v].at /\ job[v] # None
      BY <1>4, <2>2, SignupStepEffect DEF ISignupStep, Continues
    <3> QED BY <1>1, <2>1, <3>1, <3>2, <3>3 DEF KeyStaysKnown, Due, Known, At
  <2>3. CASE v # w
    <3>1. job'[v] = job[v]
      BY <1>4, <2>3, SignupStepEffect DEF ISignupStep, Continues
    <3> QED BY <1>1, <2>1, <3>1, KeyKept
  <2> QED BY <2>2, <2>3
<1>5. ASSUME NEW w \in Workers, IReply(w) PROVE KeyStaysKnown(v)'
  <2>1. CASE v = w
    <3>1. job'[v] = None
      BY <1>5, <2>1 DEF IReply, Reply, Typed
    <3> QED BY <3>1 DEF KeyStaysKnown, Due, At
  <2>2. CASE v # w
    <3>1. job'[v] = job[v] /\ UNCHANGED <<s3, known>>
            /\ knew'[v] = knew[v] /\ unread'[v] = unread[v]
      BY <1>5, <2>2 DEF IReply, Reply, Typed
    <3> QED BY <1>1, <3>1, KeyKept
  <2> QED BY <2>1, <2>2
<1>6. ASSUME NEW i \in Servers, IRestart(i) PROVE KeyStaysKnown(v)'
  <2>1. CASE job'[v] = None
    BY <2>1 DEF KeyStaysKnown, Due, At
  <2>2. CASE job'[v] # None
    <3>1. job'[v] = job[v] /\ job[v].at # i /\ UNCHANGED s3
            /\ \A x \in Places : x # i => known'[x] = known[x]
      BY <1>6, <2>2, RestartEffect DEF IRestart
    <3>2. knew'[v] = knew[v] /\ unread'[v] = unread[v]
      <4>1. knew'[v] = (knew[v] /\ TRUE) /\ unread'[v] = (unread[v] /\ TRUE)
        BY <1>6, <2>2 DEF IRestart
      <4> QED BY <4>1 DEF Typed
    <3>3. Bucket # i
      BY BucketAssumption
    <3> QED BY <1>1, <2>2, <3>1, <3>2, <3>3, KeyKept
  <2> QED BY <2>1, <2>2
<1>7. CASE UNCHANGED allVars
  <2>1. UNCHANGED <<s3, known, job, knew, unread>>
    BY <1>7 DEF allVars, vars, history
  <2> QED BY <1>1, <2>1, KeyKept
<1> QED BY <1>2, <1>3, <1>4, <1>5, <1>6, <1>7 DEF INext

\* A well signed publish is admitted, and a status request told of the key, if
\* the key was in S3 or known to the server when the request came and no read
\* of S3 failed (sshauth.go:199 and 234, sshmiddleware.go:61 and 66).
THEOREM KnownKeyIsAdmittedHolds == ISpec => []KnownKeyIsAdmitted
<1>1. IInit => Typed /\ KeysStayKnown
  BY TypedInit DEF IInit, Init, KeysStayKnown, KeyStaysKnown, Due, At
<1>2. Typed /\ KeysStayKnown /\ [INext]_allVars => Typed' /\ KeysStayKnown'
  BY TypedNext, KeysKeptNext
<1>3. Typed /\ KeysStayKnown => KnownKeyIsAdmitted
  <2> SUFFICES ASSUME Typed, KeysStayKnown, NEW w \in Workers, Answered(w),
                      knew[w] \/ (~s3 /\ job[w].key \in Trusted), ~unread[w]
               PROVE  /\ job[w].kind = "publish" /\ job[w].signed => job[w].step = "admitted"
                      /\ job[w].kind = "status" => job[w].step = "done"
    BY DEF KnownKeyIsAdmitted
  <2>1. Due(w) /\ InOrder(job[w]) /\ job[w].step \in Answers
    BY DEF Due, Answered, Typed, RequestOK
  <2> QED BY <2>1 DEF KeysStayKnown, KeyStaysKnown, InOrder, Answers
<1> QED BY <1>1, <1>2, <1>3, PTL DEF ISpec

-----------------------------------------------------------------------------
(* Signups are whole.                                                      *)

\* The part of SignupsInStep that is about one machine.
InStep(k) ==
    /\ \A w, v \in Workers : Signing(w, k) /\ Signing(v, k) => w = v
    /\ \A x \in Places :
          profile[x][k] = status[x][k] \/ \E w \in Workers : Signing(w, k) /\ x \in Ahead(job[w])
    /\ \A w \in Workers : Signing(w, k) =>
          \A x \in Ahead(job[w]) : profile[x][k] = job[w].profile

LEMMA AheadOnWay ==
    ASSUME NEW r, NEW x \in Ahead(r)
    PROVE  /\ r.step \in {"putProfile", "saveStatus", "putStatus"}
           /\ x = r.at \/ x = Bucket
BY DEF Ahead

\* Requests that are no signups, and those that stay as they are, leave the
\* machines in step.
LEMMA InStepKept ==
    ASSUME NEW k \in Keys, InStep(k), UNCHANGED <<s3, profile, status>>,
           \A w \in Workers : Signing(w, k)' => Signing(w, k) /\ job'[w] = job[w],
           \A w \in Workers : Signing(w, k) => Signing(w, k)' \/ Ahead(job[w]) = {}
    PROVE  InStep(k)'
<1>1. \A w \in Workers : Signing(w, k)' => Ahead(job[w])' = Ahead(job[w])
  BY DEF Ahead
<1> QED BY <1>1 DEF InStep

\* A signup goes on, the first to touch its machine's profile and status.
LEMMA InStepSignup ==
    ASSUME Typed, NEW w \in Workers, ISignupStep(w), NEW k \in Keys, k = job[w].key, InStep(k),
           k \notin broken'
    PROVE  InStep(k)'
<1> DEFINE at == job[w].at
           p == job[w].profile
<1>1. /\ job[w] # None /\ k \in Keys /\ at \in Places /\ at # Bucket /\ Bucket \in Places
      /\ job[w].kind = "signup"
  BY SignupStepEffect, JobFields DEF ISignupStep, Continues, Places
<1>2. /\ job'[w] # None /\ job'[w].kind = "signup" /\ job'[w].key = k /\ job'[w].at = at
      /\ job'[w].profile = p /\ \A v \in Workers : v # w => job'[v] = job[v]
      /\ UNCHANGED s3
  BY SignupStepEffect DEF ISignupStep, Continues
<1>3. failures' = failures
  BY <1>1 DEF ISignupStep
<1>4. Signing(w, k) /\ \A v \in Workers : Signing(v, k) => v = w
  BY <1>1 DEF InStep, Signing
<1>5. /\ \A x \in Places : profile[x][k] = status[x][k] \/ x \in Ahead(job[w])
      /\ \A x \in Ahead(job[w]) : profile[x][k] = p
  BY <1>4 DEF InStep
<1>6. Signing(w, k)' /\ \A v \in Workers : Signing(v, k)' => v = w
  BY <1>2, <1>4 DEF Signing
<1> SUFFICES /\ \A x \in Places : profile'[x][k] = status'[x][k] \/ x \in Ahead(job[w])'
             /\ \A x \in Ahead(job[w])' : profile'[x][k] = p
  <2>1. job'[w].profile = p
    BY <1>2
  <2> QED BY <1>6, <2>1 DEF InStep
<1> HIDE DEF at, p
<1>7. CASE SaveProfile(w)
  <2>1. job[w].step = "saveProfile" /\ Ahead(job[w]) = {}
    BY <1>7 DEF SaveProfile, At, Ahead
  <2>2. /\ profile'[at][k] = p /\ UNCHANGED status
        /\ \A x \in Places : x # at => profile'[x][k] = profile[x][k]
    BY <1>1, <1>7, SaveEffect DEF SaveProfile, Typed, at, p
  <2>3. job'[w].step = IF s3 THEN "putProfile" ELSE "saveStatus"
    BY <1>1, <1>7, GoEffect DEF SaveProfile, Steps
  <2>4. Ahead(job[w])' = {at}
    BY <1>2, <2>3 DEF Ahead
  <2> QED BY <1>5, <2>1, <2>2, <2>4
<1>8. CASE PutProfile(w)
  <2>1. job[w].step = "putProfile" /\ Ahead(job[w]) = {at} /\ s3
    BY <1>1, <1>8, JobFields DEF PutProfile, At, Ahead, RequestOK, at
  <2>2. profile' = Save(profile, Bucket, w) /\ UNCHANGED status
    BY <1>3, <1>8, FailEffect DEF PutProfile
  <2>3. /\ profile'[Bucket][k] = p
        /\ \A x \in Places : x # Bucket => profile'[x][k] = profile[x][k]
    BY <1>1, <2>2, SaveEffect DEF Typed, p
  <2>4. job'[w].step = "saveStatus"
    BY <1>1, <1>8, GoEffect DEF PutProfile, Steps
  <2>5. Ahead(job[w])' = {at, Bucket}
    BY <1>2, <2>1, <2>4 DEF Ahead
  <2> QED BY <1>1, <1>5, <2>1, <2>2, <2>3, <2>5
<1>9. CASE SaveStatus(w)
  <2>1. job[w].step = "saveStatus" /\ Ahead(job[w]) = IF s3 THEN {at, Bucket} ELSE {at}
    BY <1>9 DEF SaveStatus, At, Ahead, at
  <2>2. /\ status'[at][k] = p /\ UNCHANGED profile
        /\ \A x \in Places : x # at => status'[x][k] = status[x][k]
    BY <1>1, <1>9, SaveEffect DEF SaveStatus, Typed, at, p
  <2>3. job'[w].step = IF s3 THEN "putStatus" ELSE "done"
    BY <1>1, <1>9, GoEffect DEF SaveStatus, Steps, Answers
  <2>4. Ahead(job[w])' = IF s3 THEN {Bucket} ELSE {}
    BY <1>2, <2>3 DEF Ahead
  <2> QED BY <1>1, <1>5, <2>1, <2>2, <2>4
<1>10. CASE PutStatus(w)
  <2>1. job[w].step = "putStatus" /\ Ahead(job[w]) = {Bucket}
    BY <1>10 DEF PutStatus, At, Ahead
  <2>2. status' = Save(status, Bucket, w) /\ UNCHANGED profile
    BY <1>3, <1>10, FailEffect DEF PutStatus
  <2>3. /\ status'[Bucket][k] = p
        /\ \A x \in Places : x # Bucket => status'[x][k] = status[x][k]
    BY <1>1, <2>2, SaveEffect DEF Typed, p
  <2>4. job'[w].step = "done"
    BY <1>1, <1>10, GoEffect DEF PutStatus, Steps, Answers
  <2>5. Ahead(job[w])' = {}
    BY <1>2, <2>4 DEF Ahead
  <2> QED BY <1>5, <2>1, <2>2, <2>3, <2>5
<1> QED BY <1>7, <1>8, <1>9, <1>10 DEF ISignupStep, SignupStep

\* A signup leaves the other machines alone.
LEMMA InStepOther ==
    ASSUME Typed, NEW w \in Workers, ISignupStep(w), NEW k \in Keys, k # job[w].key, InStep(k)
    PROVE  InStep(k)'
<1>1. /\ job[w] # None /\ job[w].at \in Places /\ Bucket \in Places
      /\ job'[w] # None /\ job'[w].key = job[w].key
      /\ \A v \in Workers : v # w => job'[v] = job[v]
      /\ UNCHANGED s3
  BY SignupStepEffect, JobFields DEF ISignupStep, Continues, Places
<1>2. \A x \in Places : profile'[x][k] = profile[x][k]
  <2>1. profile' \in {profile, Save(profile, job[w].at, w), Save(profile, Bucket, w)}
    BY DEF ISignupStep, SignupStep, SaveProfile, PutProfile, SaveStatus, PutStatus
  <2> QED BY <1>1, <2>1, SaveEffect DEF Typed
<1>3. \A x \in Places : status'[x][k] = status[x][k]
  <2>1. status' \in {status, Save(status, job[w].at, w), Save(status, Bucket, w)}
    BY DEF ISignupStep, SignupStep, SaveProfile, PutProfile, SaveStatus, PutStatus
  <2> QED BY <1>1, <2>1, SaveEffect DEF Typed
<1>4. \A v \in Workers : Signing(v, k)' <=> Signing(v, k)
  BY <1>1 DEF Signing
<1>5. \A v \in Workers : Signing(v, k) => job'[v] = job[v] /\ Ahead(job[v])' = Ahead(job[v])
                                            /\ Ahead(job[v]) \subseteq Places
  <2>1. \A v \in Workers : Signing(v, k) => v # w
    BY DEF Signing
  <2>2. \A v \in Workers : Signing(v, k) => job'[v] = job[v]
    BY <1>1, <2>1
  <2>3. \A v \in Workers : Signing(v, k) => job[v].at \in Places
    BY JobFields DEF Signing
  <2> QED BY <1>1, <2>2, <2>3 DEF Ahead
<1> QED BY <1>2, <1>3, <1>4, <1>5 DEF InStep

LEMMA InStepReceive ==
    ASSUME Typed, NEW w \in Workers, IReceive(w), NEW k \in Keys, InStep(k), k \notin broken'
    PROVE  InStep(k)'
<1>1. /\ job[w] = None /\ job'[w] # None /\ job'[w] \in Requests
      /\ job'[w].step = FirstStep(job'[w].kind)
      /\ \A v \in Workers : v # w => job'[v] = job[v]
      /\ UNCHANGED <<s3, profile, status>>
  BY ReceiveEffect DEF IReceive
<1>2. \A v \in Workers : v # w => (Signing(v, k)' <=> Signing(v, k)) /\ Ahead(job[v])' = Ahead(job[v])
  BY <1>1 DEF Signing, Ahead
<1>3. Signing(w, k)' => (\A v \in Workers : ~Signing(v, k)) /\ Ahead(job[w])' = {}
  <2>1. Signing(w, k)' => job'[w].kind = "signup" /\ job'[w].key = k
    BY DEF Signing
  <2>2. Signing(w, k)' => \A v \in Workers : ~Signing(v, k)
    BY <2>1 DEF IReceive
  <2>3. Signing(w, k)' => job'[w].step = "saveProfile"
    BY <1>1, <2>1 DEF FirstStep
  <2> QED BY <2>2, <2>3 DEF Ahead
<1>4. ~Signing(w, k)
  BY <1>1 DEF Signing
<1> QED BY <1>1, <1>2, <1>3, <1>4 DEF InStep

\* The signups that a restart cuts off count as broken; those it does not have
\* nothing in the memory it clears.
LEMMA InStepRestart ==
    ASSUME Typed, NEW i \in Servers, IRestart(i), NEW k \in Keys, InStep(k), k \notin broken'
    PROVE  InStep(k)'
<1>1. /\ UNCHANGED s3 /\ profile'[i][k] = None /\ status'[i][k] = None
      /\ \A x \in Places : x # i => profile'[x][k] = profile[x][k] /\ status'[x][k] = status[x][k]
      /\ \A w \in Workers : job'[w] # None => job'[w] = job[w] /\ job[w].at # i
      /\ \A w \in Workers : job[w] # None /\ job[w].at # i => job'[w] = job[w]
  BY RestartEffect DEF IRestart
<1>2. i # Bucket
  BY BucketAssumption
<1>3. ASSUME NEW w \in Workers, Signing(w, k), NEW x \in Ahead(job[w])
      PROVE  Signing(w, k)' /\ x \in Ahead(job[w])'
  <2>1. ~Answered(w)
    BY <1>3, AheadOnWay DEF Answered, Answers
  <2>2. job[w].at # i
    BY <1>3, <2>1 DEF IRestart
  <2>3. job'[w] = job[w]
    BY <1>1, <1>3, <2>2 DEF Signing
  <2> QED BY <1>1, <1>3, <2>3 DEF Signing, Ahead
<1>4. ASSUME NEW w \in Workers, Signing(w, k)'
      PROVE  /\ Signing(w, k) /\ job'[w] = job[w] /\ Ahead(job[w])' = Ahead(job[w])
             /\ i \notin Ahead(job[w]) /\ Ahead(job[w]) \subseteq Places
  <2>1. job'[w] = job[w] /\ job[w].at # i /\ job[w] # None
    BY <1>1, <1>4 DEF Signing
  <2>2. job[w].at \in Places /\ Bucket \in Places
    BY <2>1, JobFields DEF Places
  <2> QED BY <1>1, <1>2, <1>4, <2>1, <2>2 DEF Signing, Ahead
<1> QED BY <1>1, <1>3, <1>4 DEF InStep

LEMMA SignupsNext ==
    ASSUME Typed, SignupsInStep, [INext]_allVars
    PROVE  SignupsInStep'
<1> SUFFICES ASSUME NEW k \in Keys, k \notin broken' PROVE InStep(k)'
  BY DEF SignupsInStep, InStep
<1>1. broken \subseteq broken'
  BY DEF INext, IReceive, IKeyStep, ISignupStep, IReply, IRestart, allVars, history
<1>2. InStep(k)
  BY <1>1 DEF SignupsInStep, InStep
<1>3. ASSUME NEW w \in Workers, IReceive(w) PROVE InStep(k)'
  BY <1>2, <1>3, InStepReceive
<1>4. ASSUME NEW w \in Workers, IKeyStep(w) PROVE InStep(k)'
  <2>1. /\ UNCHANGED <<s3, profile, status>> /\ job[w].kind # "signup"
        /\ job'[w].kind = job[w].kind /\ \A v \in Workers : v # w => job'[v] = job[v]
    BY <1>4, KeyStepEffect DEF IKeyStep, Continues
  <2> QED BY <1>2, <2>1, InStepKept DEF Signing
<1>5. ASSUME NEW w \in Workers, ISignupStep(w) PROVE InStep(k)'
  BY <1>2, <1>5, InStepSignup, InStepOther
<1>6. ASSUME NEW w \in Workers, IReply(w) PROVE InStep(k)'
  <2>1. /\ UNCHANGED <<s3, profile, status>> /\ job'[w] = None /\ Answered(w)
        /\ \A v \in Workers : v # w => job'[v] = job[v]
    BY <1>6 DEF IReply, Reply, machines, Typed
  <2>2. Ahead(job[w]) = {}
    BY <2>1, AheadOnWay DEF Answered, Answers
  <2> QED BY <1>2, <2>1, <2>2, InStepKept DEF Signing
<1>7. ASSUME NEW i \in Servers, IRestart(i) PROVE InStep(k)'
  BY <1>2, <1>7, InStepRestart
<1>8. CASE UNCHANGED allVars
  <2>1. UNCHANGED <<s3, profile, status, job>>
    BY <1>8 DEF allVars, vars, machines
  <2> QED BY <1>2, <2>1, InStepKept DEF Signing
<1> QED BY <1>3, <1>4, <1>5, <1>6, <1>7, <1>8 DEF INext

\* The profile and the status of a machine come from the same signup, in S3 and
\* on every server, unless signups of it overlapped, failed or were cut off
\* (handlers.go:1004, SaveProfile then SaveStatus).
THEOREM SignupIsWholeHolds == ISpec => []SignupIsWhole
<1>1. IInit => Typed /\ SignupsInStep
  <2> SUFFICES ASSUME IInit PROVE SignupsInStep
    BY TypedInit
  <2>1. \A w \in Workers, k \in Keys : ~Signing(w, k)
    BY DEF IInit, Init, Signing
  <2>2. \A x \in Places : profile[x] = status[x]
    BY DEF IInit, Init
  <2> QED BY <2>1, <2>2 DEF SignupsInStep
<1>2. Typed /\ SignupsInStep /\ [INext]_allVars => Typed' /\ SignupsInStep'
  BY TypedNext, SignupsNext
<1>3. SignupsInStep => SignupIsWhole
  <2> SUFFICES ASSUME SignupsInStep, NEW k \in Keys \ broken,
                      \A w \in Workers : Signing(w, k) => Answered(w),
                      NEW x \in Places
               PROVE  profile[x][k] = status[x][k]
    BY DEF SignupIsWhole, Places
  <2>1. \A w \in Workers : Signing(w, k) => x \notin Ahead(job[w])
    BY AheadOnWay DEF Answered, Answers
  <2> QED BY <2>1 DEF SignupsInStep
<1> QED BY <1>1, <1>2, <1>3, PTL DEF ISpec

=============================================================================
