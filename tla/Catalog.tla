------------------------------- MODULE Catalog -------------------------------
(***************************************************************************)
(* The handlers of the API that read a row, decide, and write: uploading a *)
(* video (lib/media/ingest.ts), creating a job (lib/jobs/service.ts),      *)
(* proxies (lib/proxy/service.ts), an account and its flows                *)
(* (lib/accounts), and the rotation of the key that seals their secrets    *)
(* (lib/crypto/secretBox.ts, scripts/rotateCredentials.ts).  Each action   *)
(* is one statement of the database, so requests interleave between them.  *)
(*                                                                         *)
(* Abstracted: one user; the shape of requests (what zod refuses changes   *)
(* nothing); of a job that runs, all but the writes of its row's status    *)
(* (JobLifecycle, Publishing have the rest), and its schedule; a proxy's   *)
(* fields other than its password.                                         *)
(***************************************************************************)
EXTENDS Naturals, FiniteSets

CONSTANTS
    Requests,           \* calls of the API; each is made at most once
    Accounts, Proxies,  \* by id; a proxy is also named by its label
    Videos,             \* contents that may be uploaded, by checksum
    Broken,             \* those of them that ffprobe or the rules refuse
    FfmpegAvailable,    \* isFfmpegAvailable
    Keys,               \* idempotency keys
    Nobody,             \* no request, account, proxy, video or key
    Budgets             \* bounds: the changes of the key, and the events in the lives of
                        \* jobs, that a behaviour may have; it has one of these pairs

ASSUME BrokenAssumption == Broken \subseteq Videos /\ FfmpegAvailable \in BOOLEAN
ASSUME NobodyAssumption ==
    Nobody \notin Requests \cup Accounts \cup Proxies \cup Videos \cup Keys
ASSUME BudgetsAssumption == Budgets \subseteq [changes : Nat, events : Nat]

VARIABLES
    request,    \* the calls and their locals
    stored,     \* objects in storage, named by the upload that put them
    video,      \* the rows of the videos, unique by checksum
    job,        \* the rows of the jobs, unique by idempotency key
    queued,     \* jobs BullMQ will deliver
    run,        \* the deliveries under way, see JobFetch
    listed,     \* jobs a booting worker has listed and not yet looked at
    account,    \* the rows of the accounts
    proxy,      \* the rows of the proxies
    rotation,   \* how far the operator is in changing CREDENTIALS_KEY
    script,     \* rotateCredentials, while it runs
    wanted,     \* history: the proxy each account was last pointed at
    overtaken,  \* history: accounts pointed at a proxy already checked for deletion
    raced,      \* history: contents of which another upload was under way at the insert
    during,     \* history: accounts saved since the script listed them
    budget      \* what is left of the bounds

media == <<stored, video, raced>>
jobs == <<job, queued, run, listed>>
secrets == <<rotation, script, during>>
egress == <<wanted, overtaken>>
vars == <<request, media, jobs, account, proxy, secrets, egress, budget>>

-----------------------------------------------------------------------------
(* Rows *)

Sealed == {"none", "old", "new"}    \* no secret, or the key that sealed it
VideoStatus == {"none", "VALIDATING", "READY", "INVALID"}
VideoRow == [status : VideoStatus, object : Requests \cup {Nobody}]
NoVideo == [status |-> "none", object |-> Nobody]

ACTIVE_STATUSES == {"QUEUED", "PROCESSING"}
JobStatus == {"none", "COMPLETED", "FAILED", "CANCELLED"} \cup ACTIVE_STATUSES
RunPc == {"none", "read", "running", "failing"}

\* `dup` is allowConcurrentDuplicate; `knew` (history) the like jobs that existed when
\* the check was made, and `met` (history) those that were in flight, or past their
\* check, when the row last came back after its end.
JobRow == [status : JobStatus, account : Accounts \cup {Nobody}, video : Videos \cup {Nobody},
           proxy : Proxies \cup {Nobody}, dup : BOOLEAN, knew : SUBSET Keys,
           met : SUBSET Keys]
NoJob == [status |-> "none", account |-> Nobody, video |-> Nobody, proxy |-> Nobody,
          dup |-> FALSE, knew |-> {}, met |-> {}]

\* An account is there once it has credentials; `flows` says which call saved them.
CredentialsRow == [sealed : Sealed, flows : Requests \cup {Nobody}]
AccountRow == [sealed : Sealed, flows : Requests \cup {Nobody}, proxy : Proxies \cup {Nobody}]
Credentials(a) == [sealed |-> account[a].sealed, flows |-> account[a].flows]
ProxyRow == [exists : BOOLEAN, sealed : Sealed]
NoProxy == [exists |-> FALSE, sealed |-> "none"]

Phases == {"before", "both", "after"}
Primary == IF rotation.phase = "before" THEN "old" ELSE "new"
Configured == IF rotation.phase = "both" THEN {"old", "new"} ELSE {Primary}
Opens(sealed) == sealed \in Configured \cup {"none"}

\* A row may point at a proxy only while it exists: the foreign key.
Pointed(p) == p # Nobody => proxy[p].exists

-----------------------------------------------------------------------------
(* Calls *)

Pcs == {"new", "put", "record", "verdict", "check", "create", "enqueue", "assign",
        "delete", "update", "save", "answered"}
Call == [pc : Pcs, account : Accounts \cup {Nobody}, video : Videos \cup {Nobody},
         proxy : Proxies \cup {Nobody}, key : Keys \cup {Nobody}, dup : BOOLEAN,
         knew : SUBSET Keys]
Blank == [pc |-> "new", account |-> Nobody, video |-> Nobody, proxy |-> Nobody,
          key |-> Nobody, dup |-> FALSE, knew |-> {}]

At(r, pc) == request[r].pc = pc
InFlight(r) == request[r].pc \notin {"new", "answered"}
Begin(r, call) == request' = [request EXCEPT ![r] = call]
Goto(r, pc) == request' = [request EXCEPT ![r].pc = pc]
Answer(r) == request' = [request EXCEPT ![r] = [Blank EXCEPT !.pc = "answered"]]

\* Storage, Redis or the database refuses, and the call answers 500.
Fails(r) ==
    /\ InFlight(r)
    /\ Answer(r)
    /\ UNCHANGED <<media, jobs, account, proxy, secrets, egress, budget>>

-----------------------------------------------------------------------------
(* Uploads: ingestVideo *)

Uploading(v) == {r \in Requests : request[r].video = v
                                    /\ request[r].pc \in {"put", "record", "verdict"}}

\* Mutant: the lookup asks for a READY row only.
LookupReady(r, v) ==
    /\ At(r, "new")
    /\ video[v].status # "READY"
    /\ Begin(r, [Blank EXCEPT !.pc = "put", !.video = v])
    /\ UNCHANGED <<media, jobs, account, proxy, secrets, egress, budget>>

\* Known bytes are answered with the row they have, whatever its status.
IngestLookup(r, v) ==
    /\ At(r, "new")
    /\ video[v].status = "none"
    /\ Begin(r, [Blank EXCEPT !.pc = "put", !.video = v])
    /\ UNCHANGED <<media, jobs, account, proxy, secrets, egress, budget>>

StoragePut(r) ==
    /\ At(r, "put")
    /\ stored' = stored \cup {r}
    /\ Goto(r, "record")
    /\ UNCHANGED <<video, raced, jobs, account, proxy, secrets, egress, budget>>

\* The unique checksum: the loser of a race goes on with the winner's row.
CreateVideoRecord(r) ==
    LET v == request[r].video IN
    /\ At(r, "record")
    /\ IF video[v].status = "none"
       THEN /\ video' = [video EXCEPT ![v] = [status |-> "VALIDATING", object |-> r]]
            /\ raced' = IF Uploading(v) = {r} THEN raced ELSE raced \cup {v}
       ELSE UNCHANGED <<video, raced>>
    /\ Goto(r, "verdict")
    /\ UNCHANGED <<stored, jobs, account, proxy, secrets, egress, budget>>

Accepted(v) == ~FfmpegAvailable \/ v \notin Broken

\* probe, validateMedia, and the update that ends the ingest.
Verdict(r) ==
    LET v == request[r].video IN
    /\ At(r, "verdict")
    /\ video' = [video EXCEPT ![v].status = IF Accepted(v) THEN "READY" ELSE "INVALID"]
    /\ Answer(r)
    /\ UNCHANGED <<stored, raced, jobs, account, proxy, secrets, egress, budget>>

\* The disk or the database fails on the way: the row is flagged, the error goes on.
IngestFails(r) ==
    LET v == request[r].video IN
    /\ At(r, "verdict")
    /\ video' = [video EXCEPT ![v].status = "INVALID"]
    /\ Answer(r)
    /\ UNCHANGED <<stored, raced, jobs, account, proxy, secrets, egress, budget>>

-----------------------------------------------------------------------------
(* Jobs: createFlowJob, cancelJob, retryJob *)

\* Key, account and credentials, then the egress override.  A known key is answered
\* with its job.
JobLookup(r, k, a, v, p, dup) ==
    /\ At(r, "new")
    /\ job[k].status = "none"
    /\ account[a].sealed # "none"
    /\ Pointed(p)
    /\ dup => v # Nobody
    /\ Begin(r, [Blank EXCEPT !.pc = "check", !.key = k, !.account = a, !.video = v, !.proxy = p,
                 !.dup = dup])
    /\ UNCHANGED <<media, jobs, account, proxy, secrets, egress, budget>>

SameRun(k, a, v) == job[k].account = a /\ job[k].video = v
ActiveRun(k) == job[k].status \in ACTIVE_STATUSES

\* Mutant: a job that is running is not in flight.
CheckQueued(r) ==
    LET call == request[r]
        others == {k \in Keys \ {call.key} : SameRun(k, call.account, call.video)
                                              /\ job[k].status = "QUEUED"} IN
    /\ At(r, "check")
    /\ IF call.video = Nobody
          \/ (video[call.video].status = "READY" /\ (others = {} \/ call.dup))
       THEN request' = [request EXCEPT ![r].pc = "create",
                            ![r].knew = {k \in Keys : SameRun(k, call.account, call.video)}]
       ELSE Answer(r)
    /\ UNCHANGED <<media, jobs, account, proxy, secrets, egress, budget>>

\* The video must be READY, and another key must not have it in flight.  A flow that
\* needs no video skips both.
JobCheck(r) ==
    LET call == request[r]
        others == {k \in Keys \ {call.key} : SameRun(k, call.account, call.video)
                                              /\ ActiveRun(k)} IN
    /\ At(r, "check")
    /\ IF call.video = Nobody
          \/ (video[call.video].status = "READY" /\ (others = {} \/ call.dup))
       THEN request' = [request EXCEPT ![r].pc = "create",
                            ![r].knew = {k \in Keys : SameRun(k, call.account, call.video)}]
       ELSE Answer(r)
    /\ UNCHANGED <<media, jobs, account, proxy, secrets, egress, budget>>

\* The insert: the unique key answers the loser with the winner's job, and the foreign
\* key refuses a proxy deleted meanwhile.
JobCreate(r) ==
    LET call == request[r] IN
    /\ At(r, "create")
    /\ IF job[call.key].status = "none" /\ Pointed(call.proxy)
       THEN /\ job' = [job EXCEPT ![call.key] =
                        [status |-> "QUEUED", account |-> call.account,
                         video |-> call.video, proxy |-> call.proxy, dup |-> call.dup,
                         knew |-> call.knew, met |-> {}]]
            /\ Begin(r, [Blank EXCEPT !.pc = "enqueue", !.key = call.key])
       ELSE Answer(r) /\ UNCHANGED job
    /\ UNCHANGED <<media, queued, run, listed, account, proxy, secrets, egress, budget>>

Enqueue(r) ==
    /\ At(r, "enqueue")
    /\ queued' = queued \cup {request[r].key}
    /\ Answer(r)
    /\ UNCHANGED <<media, job, run, listed, account, proxy, secrets, egress, budget>>

\* Like rows in flight, or about to be made by a call that has passed its check.
InTheWay(k) ==
    {l \in Keys \ {k} :
        \/ ActiveRun(l) /\ SameRun(l, job[k].account, job[k].video)
        \/ \E r \in Requests : /\ At(r, "create") /\ request[r].key = l
                              /\ SameRun(k, request[r].account, request[r].video)}

\* An update of the row's status by its id alone, whatever it reads by then.
Becomes(k, s) ==
    job' = [job EXCEPT ![k].status = s,
                       ![k].met = IF s \notin ACTIVE_STATUSES THEN {}
                                  ELSE IF ActiveRun(k) THEN @ ELSE InTheWay(k)]

Spend == budget.events > 0 /\ budget' = [budget EXCEPT !.events = @ - 1]

\* cancelJob, its calls as one: they end a job, and never start one.  A delivery under
\* way goes on.
CancelJob(k) ==
    /\ ActiveRun(k)
    /\ Becomes(k, "CANCELLED")
    /\ queued' = queued \ {k}
    /\ Spend
    /\ UNCHANGED <<request, media, run, listed, account, proxy, secrets, egress>>

\* retryJob asks only that the job has failed.  The add is dropped while a delivery has
\* the record locked.
RetryJob(k) ==
    /\ job[k].status = "FAILED"
    /\ Becomes(k, "QUEUED")
    /\ queued' = IF run[k] = "none" THEN queued \cup {k} ELSE queued
    /\ Spend
    /\ UNCHANGED <<request, media, run, listed, account, proxy, secrets, egress>>

-----------------------------------------------------------------------------
(* Runs of a job: what processJob and a boot make of its row *)

RunGoes(k, pc) == run' = [run EXCEPT ![k] = pc]

\* A delivery reads the row, and returns on an end it knows of; FAILED is none.
JobFetch(k) ==
    /\ k \in queued /\ run[k] = "none"
    /\ queued' = queued \ {k}
    /\ RunGoes(k, IF job[k].status \in {"CANCELLED", "COMPLETED"} THEN "none" ELSE "read")
    /\ Spend
    /\ UNCHANGED <<request, media, job, listed, account, proxy, secrets, egress>>

\* It marks the row as it is by now.
JobRuns(k) ==
    /\ run[k] = "read"
    /\ Becomes(k, "PROCESSING")
    /\ RunGoes(k, "running")
    /\ UNCHANGED <<request, media, queued, listed, account, proxy, secrets, egress, budget>>

\* recordPublished, after which the removal of the staging directory may throw.
JobCompletes(k) ==
    /\ run[k] = "running"
    /\ Becomes(k, "COMPLETED")
    /\ \E pc \in {"none", "failing"} : RunGoes(k, pc)
    /\ UNCHANGED <<request, media, queued, listed, account, proxy, secrets, egress, budget>>

\* handleFailure reads the row, and leaves one that reads CANCELLED or FAILED.  Whether
\* the record is delivered again, BullMQ decides.
JobFails(k) ==
    /\ run[k] = "running"
    /\ IF job[k].status \in {"CANCELLED", "FAILED"}
       THEN RunGoes(k, "none") /\ queued' \in {queued, queued \cup {k}}
       ELSE RunGoes(k, "failing") /\ UNCHANGED queued
    /\ UNCHANGED <<request, media, job, listed, account, proxy, secrets, egress, budget>>

\* It writes; a FAILED row too is delivered again if the release of its slot fails.
JobFailed(k) ==
    /\ run[k] = "failing"
    /\ \/ Becomes(k, "QUEUED") /\ queued' = queued \cup {k}
       \/ Becomes(k, "FAILED") /\ queued' \in {queued, queued \cup {k}}
    /\ RunGoes(k, "none")
    /\ UNCHANGED <<request, media, listed, account, proxy, secrets, egress, budget>>

\* The worker dies, or a store refuses: the record is delivered again.
JobStalls(k) ==
    /\ run[k] # "none"
    /\ RunGoes(k, "none") /\ queued' = queued \cup {k}
    /\ UNCHANGED <<request, media, job, listed, account, proxy, secrets, egress, budget>>

\* recoverOrphans lists the rows in flight ...
BootLists ==
    /\ listed = {} /\ \E k \in Keys : ActiveRun(k)
    /\ listed' = {k \in Keys : ActiveRun(k)}
    /\ Spend
    /\ UNCHANGED <<request, media, job, queued, run, account, proxy, secrets, egress>>

\* ... and queues again those that nothing drives, as they were listed.
BootRequeues(k) ==
    /\ k \in listed
    /\ listed' = listed \ {k}
    /\ IF k \in queued \/ run[k] # "none" THEN UNCHANGED <<job, queued>>
       ELSE Becomes(k, "QUEUED") /\ queued' = queued \cup {k}
    /\ UNCHANGED <<request, media, run, account, proxy, secrets, egress, budget>>

-----------------------------------------------------------------------------
(* Proxies and accounts *)

CreateProxy(r, p, withPassword) ==
    /\ At(r, "new")
    /\ ~proxy[p].exists
    /\ proxy' = [proxy EXCEPT ![p] =
                    [exists |-> TRUE, sealed |-> IF withPassword THEN Primary ELSE "none"]]
    /\ Answer(r)
    /\ UNCHANGED <<media, jobs, account, secrets, egress, budget>>

UpdateLookup(r, p) ==
    /\ At(r, "new")
    /\ proxy[p].exists
    /\ Begin(r, [Blank EXCEPT !.pc = "update", !.proxy = p])
    /\ UNCHANGED <<media, jobs, account, proxy, secrets, egress, budget>>

\* The merged row is written back; the password only when the patch names it.
UpdateWrite(r) ==
    LET p == request[r].proxy IN
    /\ At(r, "update")
    /\ proxy[p].exists
    /\ \E s \in {proxy[p].sealed, Primary, "none"} : proxy' = [proxy EXCEPT ![p].sealed = s]
    /\ Answer(r)
    /\ UNCHANGED <<media, jobs, account, secrets, egress, budget>>

\* Mutant: the accounts that use it are not looked at.
DeleteUnchecked(r, p) ==
    /\ At(r, "new")
    /\ proxy[p].exists
    /\ Begin(r, [Blank EXCEPT !.pc = "delete", !.proxy = p])
    /\ UNCHANGED <<media, jobs, account, proxy, secrets, egress, budget>>

\* Refused while an account points at it; a job's override does not count.
DeleteCheck(r, p) ==
    /\ At(r, "new")
    /\ proxy[p].exists
    /\ \A a \in Accounts : account[a].proxy # p
    /\ Begin(r, [Blank EXCEPT !.pc = "delete", !.proxy = p])
    /\ UNCHANGED <<media, jobs, account, proxy, secrets, egress, budget>>

\* The delete, and the schema's SetNull on the rows that point at it.
DeleteRow(r) ==
    LET p == request[r].proxy IN
    /\ At(r, "delete")
    /\ proxy[p].exists
    /\ proxy' = [proxy EXCEPT ![p] = NoProxy]
    /\ account' = [a \in Accounts |->
            IF account[a].proxy = p THEN [account[a] EXCEPT !.proxy = Nobody] ELSE account[a]]
    /\ job' = [k \in Keys |->
            IF job[k].proxy = p THEN [job[k] EXCEPT !.proxy = Nobody] ELSE job[k]]
    /\ Answer(r)
    /\ UNCHANGED <<media, queued, run, listed, secrets, egress, budget>>

AssignCheck(r, a, p) ==
    /\ At(r, "new")
    /\ account[a].sealed # "none"
    /\ Pointed(p)
    /\ Begin(r, [Blank EXCEPT !.pc = "assign", !.account = a, !.proxy = p])
    /\ UNCHANGED <<media, jobs, account, proxy, secrets, egress, budget>>

AssignWrite(r) ==
    LET a == request[r].account
        p == request[r].proxy
        deleting == p # Nobody /\ \E s \in Requests : At(s, "delete") /\ request[s].proxy = p
    IN
    /\ At(r, "assign")
    /\ Pointed(p)
    /\ account' = [account EXCEPT ![a].proxy = p]
    /\ wanted' = [wanted EXCEPT ![a] = p]
    /\ overtaken' = IF deleting THEN overtaken \cup {a} ELSE overtaken \ {a}
    /\ Answer(r)
    /\ UNCHANGED <<media, jobs, proxy, secrets, budget>>

CreateAccount(r, a) ==
    /\ At(r, "new")
    /\ account[a].sealed = "none"
    /\ account' = [account EXCEPT ![a].sealed = Primary]
    /\ Answer(r)
    /\ UNCHANGED <<media, jobs, proxy, secrets, egress, budget>>

\* writeFlows reads and opens the credentials ...
FlowsRead(r, a) ==
    /\ At(r, "new")
    /\ account[a].sealed # "none" /\ Opens(account[a].sealed)
    /\ Begin(r, [Blank EXCEPT !.pc = "save", !.account = a])
    /\ UNCHANGED <<media, jobs, account, proxy, secrets, egress, budget>>

\* ... and seals them again with other flows.
FlowsWrite(r) ==
    LET a == request[r].account IN
    /\ At(r, "save")
    /\ account' = [account EXCEPT ![a].sealed = Primary, ![a].flows = r]
    /\ during' = IF script.running THEN during \cup {a} ELSE during
    /\ Answer(r)
    /\ UNCHANGED <<media, jobs, proxy, rotation, script, egress, budget>>

-----------------------------------------------------------------------------
(* Rotation of CREDENTIALS_KEY *)

\* A restart of the API ends the calls it was serving where they are.
Restart == request' = [r \in Requests |-> IF InFlight(r) THEN [Blank EXCEPT !.pc = "answered"]
                                          ELSE request[r]]

AppRestarts ==
    /\ \E r \in Requests : InFlight(r)
    /\ Restart
    /\ UNCHANGED <<media, jobs, account, proxy, secrets, egress, budget>>

NotRunning == [running |-> FALSE, left |-> {},
               read |-> [a \in Accounts |-> [sealed |-> "none", flows |-> Nobody]]]

\* Steps 1 to 4: the new key is the primary one, the old one only opens.
InstallKey ==
    /\ rotation.phase = "before" /\ budget.changes > 0
    /\ rotation' = [rotation EXCEPT !.phase = "both"]
    /\ budget' = [budget EXCEPT !.changes = @ - 1]
    /\ Restart
    /\ UNCHANGED <<media, jobs, account, proxy, script, during, egress>>

\* Step 5: the script lists every account with credentials ...
RotateList ==
    /\ rotation.phase = "both" /\ ~script.running
    /\ script' = [running |-> TRUE, left |-> {a \in Accounts : account[a].sealed # "none"},
                  read |-> [a \in Accounts |-> Credentials(a)]]
    /\ UNCHANGED <<request, media, jobs, account, proxy, rotation, during, egress, budget>>

\* Mutant: what is sealed again has lost the flows.
ResealBare(a) ==
    /\ script.running /\ a \in script.left
    /\ script' = [script EXCEPT !.left = @ \ {a}]
    /\ IF script.read[a].sealed = Primary THEN UNCHANGED account
       ELSE account' = [account EXCEPT ![a].sealed = Primary, ![a].flows = Nobody]
    /\ UNCHANGED <<request, media, jobs, proxy, rotation, during, egress, budget>>

\* ... and seals again, one by one, the credentials it had listed.
Reseal(a) ==
    /\ script.running /\ a \in script.left
    /\ script' = [script EXCEPT !.left = @ \ {a}]
    /\ IF script.read[a].sealed = Primary THEN UNCHANGED account
       ELSE account' = [account EXCEPT ![a].sealed = Primary,
                                       ![a].flows = script.read[a].flows]
    /\ UNCHANGED <<request, media, jobs, proxy, rotation, during, egress, budget>>

\* Mutant: it exits with 0 when it was cut short.
ScriptEndsClean ==
    /\ script.running
    /\ script' = NotRunning /\ during' = {}
    /\ rotation' = [rotation EXCEPT !.done = TRUE]
    /\ UNCHANGED <<request, media, jobs, account, proxy, egress, budget>>

\* It exits with 0 when it has gone through the list, and otherwise with 1.
ScriptEnds ==
    /\ script.running
    /\ script' = NotRunning /\ during' = {}
    /\ rotation' = [rotation EXCEPT !.done = (script.left = {})]
    /\ UNCHANGED <<request, media, jobs, account, proxy, egress, budget>>

\* Step 6: the old key is dropped.
RetireKey ==
    /\ rotation.phase = "both" /\ rotation.done /\ ~script.running
    /\ rotation' = [rotation EXCEPT !.phase = "after"]
    /\ Restart
    /\ UNCHANGED <<media, jobs, account, proxy, script, during, egress, budget>>

-----------------------------------------------------------------------------
(* The specification *)

\* A system in use: accounts and proxies sealed with the old key, no video, no job.
Init ==
    /\ request = [r \in Requests |-> Blank]
    /\ stored = {} /\ video = [v \in Videos |-> NoVideo]
    /\ raced = {} /\ during = {}
    /\ job = [k \in Keys |-> NoJob] /\ queued = {} /\ budget \in Budgets
    /\ run = [k \in Keys |-> "none"] /\ listed = {}
    /\ proxy \in [Proxies -> {NoProxy, [exists |-> TRUE, sealed |-> "old"]}]
    /\ wanted \in [Accounts -> {p \in Proxies : proxy[p].exists} \cup {Nobody}]
    /\ account \in [Accounts -> AccountRow]
    /\ \A a \in Accounts :
          /\ account[a].proxy = wanted[a]
          /\ account[a].flows = Nobody
          /\ account[a].sealed = "old" \/ (account[a].sealed = "none" /\ wanted[a] = Nobody)
    /\ overtaken = {}
    /\ rotation = [phase |-> "before", done |-> FALSE]
    /\ script = NotRunning

Optional(S) == S \cup {Nobody}

Starts(r) ==
    \/ \E v \in Videos : IngestLookup(r, v)
    \/ \E k \in Keys, a \in Accounts, v \in Optional(Videos), p \in Optional(Proxies),
          dup \in BOOLEAN : JobLookup(r, k, a, v, p, dup)
    \/ \E p \in Proxies : \/ UpdateLookup(r, p)
                          \/ DeleteCheck(r, p)
                          \/ \E withPassword \in BOOLEAN : CreateProxy(r, p, withPassword)
    \/ \E a \in Accounts : \/ CreateAccount(r, a)
                           \/ FlowsRead(r, a)
                           \/ \E p \in Optional(Proxies) : AssignCheck(r, a, p)

Proceeds(r) ==
    \/ StoragePut(r) \/ CreateVideoRecord(r) \/ Verdict(r) \/ IngestFails(r)
    \/ JobCheck(r) \/ JobCreate(r) \/ Enqueue(r)
    \/ UpdateWrite(r) \/ DeleteRow(r) \/ AssignWrite(r) \/ FlowsWrite(r)
    \/ Fails(r)

Rotates ==
    \/ InstallKey \/ RotateList \/ ScriptEnds \/ RetireKey
    \/ \E a \in Accounts : Reseal(a)

\* What happens to a job that is there already.
Lives(k) ==
    \/ CancelJob(k) \/ RetryJob(k)
    \/ JobFetch(k) \/ JobRuns(k) \/ JobCompletes(k) \/ JobFails(k) \/ JobFailed(k)
    \/ JobStalls(k) \/ BootRequeues(k)

Next ==
    \/ \E r \in Requests : Starts(r) \/ Proceeds(r)
    \/ \E k \in Keys : Lives(k)
    \/ BootLists
    \/ AppRestarts
    \/ Rotates

Spec == Init /\ [][Next]_vars

-----------------------------------------------------------------------------
(* Properties *)

\* Type correctness.
TypeOK ==
    /\ request \in [Requests -> Call]
    /\ stored \subseteq Requests
    /\ video \in [Videos -> VideoRow]
    /\ raced \subseteq Videos
    /\ job \in [Keys -> JobRow]
    /\ queued \subseteq Keys /\ listed \subseteq Keys /\ run \in [Keys -> RunPc]
    /\ account \in [Accounts -> AccountRow]
    /\ proxy \in [Proxies -> ProxyRow]
    /\ rotation \in [phase : Phases, done : BOOLEAN]
    /\ script \in [running : BOOLEAN, left : SUBSET Accounts,
                   read : [Accounts -> CredentialsRow]]
    /\ wanted \in [Accounts -> Proxies \cup {Nobody}]
    /\ overtaken \subseteq Accounts /\ during \subseteq Accounts
    /\ budget \in [changes : Nat, events : Nat]

\* Two jobs in flight publish the same video on the same account only if one of them
\* opted out of the check, was created while the other was, or came back after its end
\* while the other was in flight or past its check: a retry by hand, which does not
\* check, a delivery that had read the row before its end or takes FAILED for none, a
\* failed clean-up, or a boot that had listed the row (lib/jobs/service.ts:173-194,
\* 453-487, lib/worker/processJob.ts:79-112, 412-424, createWorker.ts:84-102).
OneInFlight ==
    \A k, l \in Keys :
        /\ k # l /\ ActiveRun(k) /\ ActiveRun(l)
        /\ job[k].video # Nobody /\ SameRun(k, job[l].account, job[l].video)
        => \/ job[k].dup \/ job[l].dup
           \/ k \in job[l].met \/ l \in job[k].met
           \/ k \notin job[l].knew /\ l \notin job[k].knew

\* The video of a job has its bytes in storage, and stays READY once a job was created
\* for it; only an upload of the same bytes that was under way when the row was made
\* can take the verdict back (lib/media/ingest.ts:29-35, 127-149, 192-203).
JobsHaveMedia ==
    \A k \in Keys : job[k].video # Nobody =>
        LET row == video[job[k].video] IN
        /\ row.object \in stored
        /\ row.status = "READY" \/ job[k].video \in raced

\* An account leaves by the proxy it was last pointed at: a proxy is never deleted from
\* under it, except when it was pointed there after the deletion had checked
\* (lib/proxy/service.ts:154-178, 181-206).
EgressStands == \A a \in Accounts : account[a].proxy = wanted[a] \/ a \in overtaken

\* Whatever the calls and the script do meanwhile, the credentials of every account
\* open at each stage of the rotation, the last included, where the old key is gone
\* (lib/crypto/secretBox.ts:87-107, scripts/rotateCredentials.ts:19-70).
CredentialsOpen == \A a \in Accounts : Opens(account[a].sealed)

\* The flows of an account are those of its last save: the rotation takes a save back
\* only when it came after the script had listed the account, in the same run of it
\* (lib/accounts/flows.ts:82-120, scripts/rotateCredentials.ts:22-25, 60-65).
SavesStand ==
    [][\A a \in Accounts : account'[a].flows # account[a].flows =>
        \/ \E r \in Requests : At(r, "save") /\ account'[a].flows = r
        \/ a \in during]_vars

\* What the script's header says it does, "Re-seals every stored credential"
\* (scripts/rotateCredentials.ts:6): the password of a proxy opens too.  It does not
\* list the proxies (:22-25), so dropping the old key loses their passwords.
PasswordsOpen == \A p \in Proxies : Opens(proxy[p].sealed)
=============================================================================
