------------------------------ MODULE Identity ------------------------------
(***************************************************************************)
(* Who may publish: the SSH key stores (internal/auth/sshauth.go), the     *)
(* authentication in front of the publish and admin endpoints              *)
(* (sshmiddleware.go, combined.go), the machine store (machine.go), and    *)
(* the handlers that register keys and machines, as main.go composes them: *)
(* over S3 when it is configured, in the memory of each server otherwise.  *)
(*                                                                         *)
(* A key object is its fingerprint, a machine is named by its key.  A      *)
(* request with a bearer token changes nothing and is always refused: no   *)
(* token is ever added to the token store.                                 *)
(***************************************************************************)
EXTENDS Naturals

CONSTANTS
    Servers,        \* server processes
    Bucket,         \* the S3 bucket
    Workers,        \* requests in progress
    Keys,           \* fingerprints
    Trusted,        \* those of SSH_TRUSTED_KEYS
    Profiles,       \* machine profiles that are submitted
    None,           \* no request, no profile
    MaxFailures     \* bound on the S3 calls that fail

Places == Servers \cup {Bucket}

\* The steps a request ends in: what it is answered.
Answers == {"done", "admitted", "refused"}

Steps ==
    Answers \cup {"register", "putKey", "link", "lookup", "verify", "scope", "get", "load", "check",
                  "saveProfile", "putProfile", "saveStatus", "putStatus"}

\* A request in progress; lookup is the step that waits for S3.
Requests ==
    [kind : {"register", "link", "status", "publish", "admin", "signup"}, at : Servers,
     key : Keys, signed : BOOLEAN, profile : Profiles \cup {None}, step : Steps,
     lookup : {"lookup", "verify", "scope", None}]

ASSUME BucketAssumption == Bucket \notin Servers
ASSUME TrustedAssumption == Trusted \subseteq Keys
ASSUME NoneAssumption == None \notin Profiles \cup Requests
ASSUME MaxFailuresAssumption == MaxFailures \in Nat

VARIABLES
    s3,         \* S3_ENDPOINT is set
    known,      \* place -> keys it holds
    linked,     \* keys that the web UI has linked to an account
    profile,    \* place -> machine -> its profile, or None
    status,     \* place -> machine -> the profile its pending status came with
    job,        \* worker -> the request it serves
    failures    \* S3 calls that have failed

machines == <<profile, status>>
vars == <<s3, known, linked, machines, job, failures>>

\* main.go registers the trusted keys in a store in memory, and uses an S3
\* store with a memory of its own instead when S3 is configured.
StartKeys == IF s3 THEN {} ELSE Trusted

NoMachines == [k \in Keys |-> None]

Init ==
    /\ s3 \in BOOLEAN
    /\ known = [x \in Places |-> IF x = Bucket THEN {} ELSE StartKeys]
    /\ linked = {}
    /\ profile = [x \in Places |-> NoMachines]
    /\ status = [x \in Places |-> NoMachines]
    /\ job = [w \in Workers |-> None]
    /\ failures = 0

Fail == failures < MaxFailures /\ failures' = failures + 1

At(w, step) == job[w] # None /\ job[w].step = step

Go(w, step) == job' = [job EXCEPT ![w].step = step]

Answered(w) == job[w] # None /\ job[w].step \in Answers

FirstStep(kind) ==
    CASE kind \in {"register", "link"} -> "register"
      [] kind \in {"publish", "admin"} -> "verify"
      [] kind = "status"               -> "lookup"
      [] kind = "signup"               -> "saveProfile"

\* signed: the signature is the key's over the body.  A signup is checked
\* before anything else, with the key that it brings.
Receive(w, i, kind, k, signed, p) ==
    /\ job[w] = None
    /\ kind = "signup" => signed
    /\ job' = [job EXCEPT ![w] = [kind |-> kind, at |-> i, key |-> k, signed |-> signed,
                                  profile |-> p, step |-> FirstStep(kind),
                                  lookup |-> None]]
    /\ UNCHANGED <<s3, known, linked, machines, failures>>

Reply(w) ==
    /\ Answered(w)
    /\ job' = [job EXCEPT ![w] = None]
    /\ UNCHANGED <<s3, known, linked, machines, failures>>

-----------------------------------------------------------------------------
\* Register.  A put that fails is logged and Register has succeeded, whether
\* S3 stored the key or not.  The web UI then links the key to the account.
AfterRegister(w) == IF job[w].kind = "link" THEN "link" ELSE "done"

\* Variant: S3 is left to a goroutine that nobody waits for.
RegisterAndLeave(w) ==
    /\ At(w, "register")
    /\ known' = [known EXCEPT ![job[w].at] = @ \cup {job[w].key}]
    /\ Go(w, AfterRegister(w))
    /\ UNCHANGED <<s3, linked, machines, failures>>

Register(w) ==
    /\ At(w, "register")
    /\ known' = [known EXCEPT ![job[w].at] = @ \cup {job[w].key}]
    /\ Go(w, IF s3 THEN "putKey" ELSE AfterRegister(w))
    /\ UNCHANGED <<s3, linked, machines, failures>>

PutKey(w) ==
    /\ At(w, "putKey")
    /\ \/ /\ known' = [known EXCEPT ![Bucket] = @ \cup {job[w].key}]
          /\ Fail \/ UNCHANGED failures
       \/ Fail /\ UNCHANGED known
    /\ Go(w, AfterRegister(w))
    /\ UNCHANGED <<s3, linked, machines>>

AddKey(w) ==
    /\ At(w, "link")
    /\ linked' = linked \cup {job[w].key}
    /\ Go(w, "done")
    /\ UNCHANGED <<s3, known, machines, failures>>

-----------------------------------------------------------------------------
\* GetByFingerprint, for the status endpoint, for VerifySignature, and once
\* more for the scope: the memory, then S3.
Looking(w) == job[w] # None /\ job[w].step \in {"lookup", "verify", "scope"}

\* Where a found key leads.  Every key has the scope "publish".
WhenFound(w, step) ==
    CASE step = "lookup" -> "done"
      [] step = "verify" -> "check"
      [] step = "scope"  -> IF job[w].kind = "publish" THEN "admitted" ELSE "refused"

\* Variant: S3 is asked although it is not configured.
LookUpAnyway(w) ==
    /\ Looking(w)
    /\ job' = [job EXCEPT
          ![w].step = IF job[w].key \in known[job[w].at] THEN WhenFound(w, @) ELSE "get",
          ![w].lookup = job[w].step]
    /\ UNCHANGED <<s3, known, linked, machines, failures>>

LookUp(w) ==
    /\ Looking(w)
    /\ job' = [job EXCEPT
          ![w].step = IF job[w].key \in known[job[w].at] THEN WhenFound(w, @)
                      ELSE IF s3 THEN "get" ELSE "refused",
          ![w].lookup = job[w].step]
    /\ UNCHANGED <<s3, known, linked, machines, failures>>

\* GetObject; an error of any kind is "key not found".
GetKey(w) ==
    /\ At(w, "get")
    /\ \/ job[w].key \in known[Bucket] /\ Go(w, "load") /\ UNCHANGED failures
       \/ job[w].key \notin known[Bucket] /\ Go(w, "refused") /\ UNCHANGED failures
       \/ Go(w, "refused") /\ Fail
    /\ UNCHANGED <<s3, known, linked, machines>>

\* Variant: a key read from S3 is not kept in the memory.
UseKey(w) ==
    /\ At(w, "load")
    /\ Go(w, WhenFound(w, job[w].lookup))
    /\ UNCHANGED <<s3, known, linked, machines, failures>>

\* What was read is registered in the memory, which is what the signature is
\* checked with.
LoadKey(w) ==
    /\ At(w, "load")
    /\ known' = [known EXCEPT ![job[w].at] = @ \cup {job[w].key}]
    /\ Go(w, WhenFound(w, job[w].lookup))
    /\ UNCHANGED <<s3, linked, machines, failures>>

\* Variant: whether the key is known is all that is checked.
CheckKnown(w) ==
    /\ At(w, "check")
    /\ Go(w, IF job[w].key \in known[job[w].at] THEN "scope" ELSE "refused")
    /\ UNCHANGED <<s3, known, linked, machines, failures>>

CheckSignature(w) ==
    /\ At(w, "check")
    /\ Go(w, IF job[w].key \in known[job[w].at] /\ job[w].signed THEN "scope" ELSE "refused")
    /\ UNCHANGED <<s3, known, linked, machines, failures>>

-----------------------------------------------------------------------------
\* Signup stores the profile and then the status "pending", each in the memory
\* and then in S3, where a failure is logged.  Nothing changes a status later.
Save(f, x, w) == [f EXCEPT ![x][job[w].key] = job[w].profile]

SaveProfile(w) ==
    /\ At(w, "saveProfile")
    /\ profile' = Save(profile, job[w].at, w)
    /\ Go(w, IF s3 THEN "putProfile" ELSE "saveStatus")
    /\ UNCHANGED <<s3, known, linked, status, failures>>

PutProfile(w) ==
    /\ At(w, "putProfile")
    /\ \/ /\ profile' = Save(profile, Bucket, w)
          /\ Fail \/ UNCHANGED failures
       \/ Fail /\ UNCHANGED profile
    /\ Go(w, "saveStatus")
    /\ UNCHANGED <<s3, known, linked, status>>

SaveStatus(w) ==
    /\ At(w, "saveStatus")
    /\ status' = Save(status, job[w].at, w)
    /\ Go(w, IF s3 THEN "putStatus" ELSE "done")
    /\ UNCHANGED <<s3, known, linked, profile, failures>>

\* Variant: a status that is there already is left as it is.
PutNewStatus(w) ==
    /\ At(w, "putStatus")
    /\ status' = IF status[Bucket][job[w].key] = None THEN Save(status, Bucket, w) ELSE status
    /\ Go(w, "done")
    /\ UNCHANGED <<s3, known, linked, profile, failures>>

PutStatus(w) ==
    /\ At(w, "putStatus")
    /\ \/ /\ status' = Save(status, Bucket, w)
          /\ Fail \/ UNCHANGED failures
       \/ Fail /\ UNCHANGED status
    /\ Go(w, "done")
    /\ UNCHANGED <<s3, known, linked, profile>>

\* The process ends, with its requests, and another one starts.
Restart(i) ==
    /\ known' = [known EXCEPT ![i] = StartKeys]
    /\ profile' = [profile EXCEPT ![i] = NoMachines]
    /\ status' = [status EXCEPT ![i] = NoMachines]
    /\ job' = [w \in Workers |-> IF job[w] # None /\ job[w].at = i THEN None ELSE job[w]]
    /\ UNCHANGED <<s3, linked, failures>>

KeyStep(w) ==
    \/ Register(w) \/ PutKey(w) \/ AddKey(w)
    \/ LookUp(w) \/ GetKey(w) \/ LoadKey(w) \/ CheckSignature(w)

SignupStep(w) == SaveProfile(w) \/ PutProfile(w) \/ SaveStatus(w) \/ PutStatus(w)

ReceiveStep(w) ==
    \E i \in Servers, k \in Keys, signed \in BOOLEAN :
        \/ \E kind \in {"register", "link", "status", "publish", "admin"} :
              Receive(w, i, kind, k, signed, None)
        \/ \E p \in Profiles : Receive(w, i, "signup", k, signed, p)

Next ==
    \/ \E w \in Workers : ReceiveStep(w) \/ KeyStep(w) \/ SignupStep(w) \/ Reply(w)
    \/ \E i \in Servers : Restart(i)

Spec == Init /\ [][Next]_vars

=============================================================================
