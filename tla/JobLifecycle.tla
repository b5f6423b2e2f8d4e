---------------------------- MODULE JobLifecycle ----------------------------
(***************************************************************************)
(* One job row's life between three stores that share no transaction: the  *)
(* Postgres row, the BullMQ record under the same id, and the dead-letter  *)
(* queue.  Actors interleave between any two awaits: HTTP requests         *)
(* (create, cancel, retry: lib/jobs/service.ts), worker processes          *)
(* (lib/worker/processJob.ts and the BullMQ Worker around it), the worker's*)
(* 'failed' callback and a booting worker's recoverOrphans                 *)
(* (lib/worker/createWorker.ts).                                           *)
(*                                                                         *)
(* Abstracted: what a publisher does (it returns, or throws a retryable or *)
(* a permanent error), whether the per-account limiter admits (module      *)
(* AccountSlots; only the slots that dead runs leave counted are followed  *)
(* here), the checks a creation makes before it inserts (module Catalog)   *)
(* and the interactive statuses (module Onboarding).  The jobs are those   *)
(* of one account.  A worker process is one lane; several lanes are        *)
(* several workers.                                                        *)
(***************************************************************************)
EXTENDS Integers, FiniteSets

CONSTANTS
    Jobs,             \* job ids, shared by the row and the BullMQ record
    NoJob,            \* the job of a worker or request that has none
    Workers,          \* worker lanes, each dying on its own
    Requests,         \* HTTP requests in flight at once
    MaxAttempts,      \* Job.maxAttempts of a row (prisma/schema.prisma)
    DefaultAttempts,  \* RETRY_ATTEMPTS, the queue's default job option
    MaxConcurrent,    \* Account.maxConcurrent
    MaxStalled,       \* maxStalledCount of the Worker
    MaxFaults,        \* bound: crashes and failed calls in a behaviour
    MaxRetries        \* bound: retry requests admitted per job

ASSUME NoJobAssumption == NoJob \notin Jobs
ASSUME JobsAssumption == IsFiniteSet(Jobs)
ASSUME BudgetAssumption ==
    /\ MaxAttempts \in Nat \ {0} /\ DefaultAttempts \in Nat \ {0}
    /\ MaxConcurrent \in Nat \ {0}
    /\ MaxStalled \in Nat /\ MaxFaults \in Nat /\ MaxRetries \in Nat

VARIABLES
    row,      \* the job table
    bull,     \* the publish queue's records
    worker,   \* per worker: where it is in boot, processJob or settling
    letters,  \* 'failed' callbacks under way, between their two writes
    request,  \* per request: where it is in its handler
    due,      \* whether a job's scheduledAt has passed
    parked,   \* jobs with an entry in the dead-letter queue
    posts,    \* history: times publisher.publish succeeded for a job
    lost,     \* history: successes whose record could not be written
    spoilt,   \* history: recorded successes whose clean-up threw afterwards
    readded,  \* history: jobs a boot gave a new record, with the queue's budget
    leaked,   \* history: slots the limiter still counts for runs that are over
    retried,  \* history: times a retry request reset the row
    aborted,  \* history: jobs whose request or 'failed' callback died halfway
    faults    \* history: faults so far

history == <<posts, lost, spoilt, readded, leaked, retried, aborted, faults>>
vars == <<row, bull, worker, letters, request, due, parked, history>>

-----------------------------------------------------------------------------
(* Values *)

Status == {"none", "QUEUED", "SCHEDULED", "PROCESSING", "COMPLETED",
           "FAILED", "DEAD", "CANCELLED"}
ACTIVE_STATUSES == {"QUEUED", "SCHEDULED", "PROCESSING"}

Row == [status : Status, attempts : Nat, linked : BOOLEAN, timed : BOOLEAN]
NoRow == [status |-> "none", attempts |-> 0, linked |-> FALSE, timed |-> FALSE]

\* "scheduled" and "delayed" are both BullMQ's delayed set: the first waits
\* for scheduledAt, the second for a backoff or a rate-limit deferral.
QueueState == {"none", "waiting", "scheduled", "delayed", "active",
               "completed", "failed"}
Record == [state : QueueState, made : Nat, allowed : Nat, stalls : Nat]
NoRecord == [state |-> "none", made |-> 0, allowed |-> 0, stalls |-> 0]
Live == {"waiting", "scheduled", "delayed", "active"}

\* Where a worker can be: down; in recoverOrphans; in processJob; idle.
BootPc == {"check", "requeue", "drop", "add", "recount"}
JobPc  == {"read", "reserve", "mark", "publish", "record", "clean", "handle",
           "failWrite", "release", "settle"}
Reserved == {"mark", "publish", "record", "clean", "handle", "failWrite", "release"}
WorkerPc == {"down", "idle"} \cup BootPc \cup JobPc
Outcome  == {"ok", "retryable", "permanent"}
Candidate == [job : Jobs, timed : BOOLEAN]

WorkerState ==
    [pc : WorkerPc, job : Jobs \cup {NoJob}, timed : BOOLEAN,
     had : BOOLEAN, outcome : Outcome, todo : SUBSET Candidate]
AtRest(pc) == [pc |-> pc, job |-> NoJob, timed |-> FALSE, had |-> FALSE,
               outcome |-> "ok", todo |-> {}]

RequestPc == {"idle", "add", "link", "reset", "replace", "withdraw", "cancel"}
RequestState == [pc : RequestPc, job : Jobs \cup {NoJob}, timed : BOOLEAN]
NoRequest == [pc |-> "idle", job |-> NoJob, timed |-> FALSE]

Letter == [by : Workers, job : Jobs, step : {"park", "mark"}]

\* A job somebody's delivery is in the middle of; its BullMQ lock is held.
Held(j) == \E w \in Workers : worker[w].pc \in JobPc /\ worker[w].job = j

-----------------------------------------------------------------------------
(* BullMQ, as the code uses it *)

\* `delay` is what remains until scheduledAt, so zero once that has passed.
DelayState(j, timed) == IF timed /\ ~due[j] THEN "scheduled" ELSE "waiting"

Fresh(j, timed, allowed) ==
    [state |-> DelayState(j, timed), made |-> 0, allowed |-> allowed, stalls |-> 0]

\* Mutant: an id of its own for every add, so a second one is a second job.
AddAgain(j, timed, allowed) == Fresh(j, timed, allowed)

\* queue.add under an id Redis already knows is dropped.
QueueAdd(j, timed, allowed) ==
    IF bull[j].state = "none" THEN Fresh(j, timed, allowed) ELSE bull[j]

\* job.remove() refuses a locked job.  An active job whose worker died keeps
\* its lock until it expires, so there the call may go either way.
AfterRemove(j) ==
    IF bull[j].state # "active" THEN {NoRecord}
    ELSE IF Held(j) THEN {bull[j]} ELSE {bull[j], NoRecord}

SetStatus(j, s) == row' = [row EXCEPT ![j].status = s]
SetQueue(j, r)  == bull' = [bull EXCEPT ![j] = r]
Goto(w, pc)     == worker' = [worker EXCEPT ![w].pc = pc]
End(w, outcome) ==
    worker' = [worker EXCEPT ![w].pc = "settle", ![w].outcome = outcome]
Reply(r)        == request' = [request EXCEPT ![r] = NoRequest]
Step(r, pc)     == request' = [request EXCEPT ![r].pc = pc]
Begin(r, pc, j, timed) ==
    request' = [request EXCEPT ![r] = [pc |-> pc, job |-> j, timed |-> timed]]

-----------------------------------------------------------------------------
(* Requests *)

\* createFlowJob commits the row; its reads and refusals are in Catalog.
CreateRow(r, j, timed) ==
    /\ request[r].pc = "idle" /\ row[j].status = "none"
    /\ row' = [row EXCEPT ![j] =
                 [NoRow EXCEPT !.status = IF timed THEN "SCHEDULED" ELSE "QUEUED",
                               !.timed = timed]]
    /\ due' = [due EXCEPT ![j] = ~timed]
    /\ Begin(r, "add", j, timed)
    /\ UNCHANGED <<bull, worker, letters, parked, history>>

\* enqueue, first await: the BullMQ record, with the row's own budget.
EnqueueAdd(r) ==
    LET j == request[r].job IN
    /\ request[r].pc = "add"
    /\ SetQueue(j, QueueAdd(j, request[r].timed, MaxAttempts))
    /\ Step(r, "link")
    /\ UNCHANGED <<row, worker, letters, due, parked, history>>

\* enqueue, second await: the row learns its bullJobId.
EnqueueLink(r) ==
    LET j == request[r].job IN
    /\ request[r].pc = "link"
    /\ row' = [row EXCEPT ![j].linked = TRUE]
    /\ Reply(r)
    /\ UNCHANGED <<bull, worker, letters, due, parked, history>>

\* cancelJob reads the row and decides on what it read.
CancelRead(r, j) ==
    /\ request[r].pc = "idle" /\ row[j].status \in ACTIVE_STATUSES
    /\ Begin(r, IF row[j].linked THEN "withdraw" ELSE "cancel", j, FALSE)
    /\ UNCHANGED <<row, bull, worker, letters, due, parked, history>>

CancelWithdraw(r) ==
    LET j == request[r].job IN
    /\ request[r].pc = "withdraw"
    /\ \E b \in AfterRemove(j) : SetQueue(j, b)
    /\ Step(r, "cancel")
    /\ UNCHANGED <<row, worker, letters, due, parked, history>>

\* The update names the id alone: it lands on whatever the row has become.
CancelWrite(r) ==
    /\ request[r].pc = "cancel"
    /\ SetStatus(request[r].job, "CANCELLED")
    /\ Reply(r)
    /\ UNCHANGED <<bull, worker, letters, due, parked, history>>

RetryRead(r, j) ==
    /\ request[r].pc = "idle" /\ row[j].status \in {"FAILED", "DEAD"}
    /\ retried[j] < MaxRetries
    /\ Begin(r, "reset", j, FALSE)
    /\ UNCHANGED <<row, bull, worker, letters, due, parked, history>>

RetryReset(r) ==
    LET j == request[r].job IN
    /\ request[r].pc = "reset"
    /\ row' = [row EXCEPT ![j].status = "QUEUED", ![j].attempts = 0,
                          ![j].timed = FALSE]
    /\ retried' = [retried EXCEPT ![j] = @ + 1]
    /\ Step(r, "replace")
    /\ UNCHANGED <<bull, worker, letters, due, parked>>
    /\ UNCHANGED <<posts, lost, spoilt, readded, leaked, aborted, faults>>

\* The old record is dropped so the add is not taken for a duplicate; a
\* refusal is swallowed.  enqueue follows.
RetryReplace(r) ==
    LET j == request[r].job IN
    /\ request[r].pc = "replace"
    /\ \E b \in AfterRemove(j) : SetQueue(j, b)
    /\ Step(r, "add")
    /\ UNCHANGED <<row, worker, letters, due, parked, history>>

\* The web process dies, or Postgres or Redis refuses the next call.
RequestFails(r) ==
    /\ request[r].pc # "idle" /\ faults < MaxFaults
    /\ aborted' = aborted \cup {request[r].job}
    /\ faults' = faults + 1
    /\ Reply(r)
    /\ UNCHANGED <<row, bull, worker, letters, due, parked>>
    /\ UNCHANGED <<posts, lost, spoilt, readded, leaked, retried>>

-----------------------------------------------------------------------------
(* A worker boots: recoverOrphans, then reconcileSlots *)

Candidates == {[job |-> j, timed |-> row[j].timed] :
                 j \in {i \in Jobs : row[i].status \in ACTIVE_STATUSES}}

\* One findMany; the rows are acted on later, one by one, as they were then.
Boot(w) ==
    /\ worker[w].pc = "down"
    /\ worker' = [worker EXCEPT ![w] =
                    [AtRest(IF Candidates = {} THEN "recount" ELSE "check")
                       EXCEPT !.todo = Candidates]]
    /\ UNCHANGED <<row, bull, letters, request, due, parked, history>>

\* The last candidate is dealt with: the slots are recounted.
NextCandidate(w, todo) ==
    worker' = [worker EXCEPT ![w] =
                 [AtRest(IF todo = {} THEN "recount" ELSE "check") EXCEPT !.todo = todo]]

\* getState says somebody is driving it, or will.
RecoverSkip(w, c) ==
    /\ worker[w].pc = "check" /\ c \in worker[w].todo
    /\ bull[c.job].state \in Live
    /\ NextCandidate(w, worker[w].todo \ {c})
    /\ UNCHANGED <<row, bull, letters, request, due, parked, history>>

RecoverOrphan(w, c) ==
    /\ worker[w].pc = "check" /\ c \in worker[w].todo
    /\ bull[c.job].state \notin Live
    /\ worker' = [worker EXCEPT ![w].pc = "requeue", ![w].job = c.job,
                    ![w].timed = c.timed, ![w].had = (bull[c.job].state # "none"),
                    ![w].todo = @ \ {c}]
    /\ UNCHANGED <<row, bull, letters, request, due, parked, history>>

RecoverRow(w) ==
    LET j == worker[w].job IN
    /\ worker[w].pc = "requeue"
    /\ SetStatus(j, IF worker[w].timed /\ ~due[j] THEN "SCHEDULED" ELSE "QUEUED")
    /\ Goto(w, IF worker[w].had THEN "drop" ELSE "add")
    /\ UNCHANGED <<bull, letters, request, due, parked, history>>

\* Mutant: the old record is left in the way of the new one.
RecoverKeep(w) ==
    /\ worker[w].pc = "drop"
    /\ Goto(w, "add")
    /\ UNCHANGED <<row, bull, letters, request, due, parked, history>>

RecoverDrop(w) ==
    LET j == worker[w].job IN
    /\ worker[w].pc = "drop"
    /\ \E b \in AfterRemove(j) : SetQueue(j, b)
    /\ Goto(w, "add")
    /\ UNCHANGED <<row, letters, request, due, parked, history>>

\* Mutant: the job is put back to run at once.
RecoverAddNow(w) ==
    LET j == worker[w].job IN
    /\ worker[w].pc = "add"
    /\ SetQueue(j, QueueAdd(j, FALSE, DefaultAttempts))
    /\ NextCandidate(w, worker[w].todo)
    /\ UNCHANGED <<row, letters, request, due, parked, history>>

\* No `attempts` among the options, so the queue's default budget applies, which
\* may be more or less than the row's.
RecoverAdd(w) ==
    LET j == worker[w].job IN
    /\ worker[w].pc = "add"
    /\ SetQueue(j, QueueAdd(j, worker[w].timed, DefaultAttempts))
    /\ readded' = IF bull[j].state = "none" THEN readded \cup {j} ELSE readded
    /\ NextCandidate(w, worker[w].todo)
    /\ UNCHANGED <<row, letters, request, due, parked>>
    /\ UNCHANGED <<posts, lost, spoilt, leaked, retried, aborted, faults>>

\* reconcileSlots: the account's counter becomes the number of rows that are
\* PROCESSING.  All of them may be dead runs' (a record BullMQ calls active, waiting
\* or delayed keeps its row).  Then the Worker is created and takes jobs.
Recount(w) ==
    /\ worker[w].pc = "recount"
    /\ leaked' = Cardinality({j \in Jobs : row[j].status = "PROCESSING"})
    /\ worker' = [worker EXCEPT ![w] = AtRest("idle")]
    /\ UNCHANGED <<row, bull, letters, request, due, parked>>
    /\ UNCHANGED <<posts, lost, spoilt, readded, retried, aborted, faults>>

-----------------------------------------------------------------------------
(* A worker runs a delivery: processJob *)

\* BullMQ hands out a waiting job under a lock.  One that stalled too often
\* is failed by BullMQ itself, and the processor never sees it.
Fetch(w, j) ==
    /\ worker[w].pc = "idle" /\ bull[j].state = "waiting"
    /\ bull' = [bull EXCEPT ![j].state = "active"]
    /\ worker' = [worker EXCEPT ![w] =
                    IF bull[j].stalls > MaxStalled
                    THEN [AtRest("settle") EXCEPT !.job = j, !.outcome = "permanent"]
                    ELSE [AtRest("read") EXCEPT !.job = j]]
    /\ UNCHANGED <<row, letters, request, due, parked, history>>

\* Mutants: a completed row does not stop a delivery; a running one does.
OnlyCancelled(s) == s = "CANCELLED"
FinishedOrRunning(s) == s \in {"CANCELLED", "COMPLETED", "PROCESSING"}

\* The statuses processJob returns on without publishing.
Finished(s) == s \in {"CANCELLED", "COMPLETED"}

ReadRow(w) ==
    /\ worker[w].pc = "read"
    /\ IF Finished(row[worker[w].job].status) THEN End(w, "ok") ELSE Goto(w, "reserve")
    /\ UNCHANGED <<row, bull, letters, request, due, parked, history>>

Admit(w) ==
    /\ worker[w].pc = "reserve"
    /\ Goto(w, "mark")
    /\ UNCHANGED <<row, bull, letters, request, due, parked, history>>

\* Mutant: a throttled delivery counts as an attempt.
DeferCounted(w) ==
    LET j == worker[w].job IN
    /\ worker[w].pc = "reserve" /\ bull[j].made <= bull[j].allowed
    /\ bull' = [bull EXCEPT ![j].state = "delayed", ![j].made = @ + 1]
    /\ worker' = [worker EXCEPT ![w] = AtRest("idle")]
    /\ UNCHANGED <<row, letters, request, due, parked, history>>

\* DeferJobError: moveToDelayed and DelayedError, which spends no attempt.
Defer(w) ==
    LET j == worker[w].job IN
    /\ worker[w].pc = "reserve"
    /\ bull' = [bull EXCEPT ![j].state = "delayed"]
    /\ worker' = [worker EXCEPT ![w] = AtRest("idle")]
    /\ UNCHANGED <<row, letters, request, due, parked, history>>

\* attemptsMade + 1; it cannot change while this worker holds the lock.
Attempt(j) == bull[j].made + 1

MarkProcessing(w) ==
    LET j == worker[w].job IN
    /\ worker[w].pc = "mark"
    /\ row' = [row EXCEPT ![j].status = "PROCESSING", ![j].attempts = Attempt(j)]
    /\ Goto(w, "publish")
    /\ UNCHANGED <<bull, letters, request, due, parked, history>>

PublishSucceeds(w) ==
    /\ worker[w].pc = "publish"
    /\ posts' = [posts EXCEPT ![worker[w].job] = @ + 1]
    /\ Goto(w, "record")
    /\ UNCHANGED <<row, bull, letters, request, due, parked>>
    /\ UNCHANGED <<lost, spoilt, readded, leaked, retried, aborted, faults>>

PublishThrows(w, outcome) ==
    /\ worker[w].pc = "publish"
    /\ worker' = [worker EXCEPT ![w].pc = "handle", ![w].outcome = outcome]
    /\ UNCHANGED <<row, bull, letters, request, due, parked, history>>

RecordPublished(w) ==
    /\ worker[w].pc = "record"
    /\ SetStatus(worker[w].job, "COMPLETED")
    /\ Goto(w, "clean")
    /\ UNCHANGED <<bull, letters, request, due, parked, history>>

\* runPublish's finally: the staged media goes.
CleanUp(w) ==
    /\ worker[w].pc = "clean"
    /\ Goto(w, "release")
    /\ UNCHANGED <<row, bull, letters, request, due, parked, history>>

\* rm throws: a failure of the run like any other, the row already COMPLETED.
CleanUpFails(w) ==
    /\ worker[w].pc = "clean" /\ faults < MaxFaults
    /\ worker' = [worker EXCEPT ![w].pc = "handle", ![w].outcome = "retryable"]
    /\ spoilt' = [spoilt EXCEPT ![worker[w].job] = @ + 1]
    /\ faults' = faults + 1
    /\ UNCHANGED <<row, bull, letters, request, due, parked>>
    /\ UNCHANGED <<posts, lost, readded, leaked, retried, aborted>>

\* handleFailure reads, then writes, and only then rethrows to BullMQ.
HandleRead(w) ==
    /\ worker[w].pc = "handle"
    /\ Goto(w, IF row[worker[w].job].status \in {"CANCELLED", "FAILED"}
               THEN "release" ELSE "failWrite")
    /\ UNCHANGED <<row, bull, letters, request, due, parked, history>>

Final(w) == worker[w].outcome = "permanent" \/ Attempt(worker[w].job) >= MaxAttempts

HandleWrite(w) ==
    /\ worker[w].pc = "failWrite"
    /\ SetStatus(worker[w].job, IF Final(w) THEN "FAILED" ELSE "QUEUED")
    /\ Goto(w, "release")
    /\ UNCHANGED <<bull, letters, request, due, parked, history>>

\* reservation.release, in the finally of every run that reserved.
Release(w) ==
    /\ worker[w].pc = "release"
    /\ Goto(w, "settle")
    /\ UNCHANGED <<row, bull, letters, request, due, parked, history>>

\* Redis refuses: the error replaces whatever the run returned or threw, and the
\* slot may stay counted.
ReleaseFails(w) ==
    /\ worker[w].pc = "release" /\ faults < MaxFaults
    /\ End(w, "retryable")
    /\ leaked' \in {leaked, leaked + 1}
    /\ faults' = faults + 1
    /\ UNCHANGED <<row, bull, letters, request, due, parked>>
    /\ UNCHANGED <<posts, lost, spoilt, readded, retried, aborted>>

\* The 'failed' callback decides on BullMQ's own counters.
LettersOf(w) ==
    LET j == worker[w].job IN
    IF worker[w].outcome = "permanent" \/ Attempt(j) >= bull[j].allowed
    THEN {[by |-> w, job |-> j, step |-> "park"]} ELSE {}

\* BullMQ moves the record when the processor returns or throws.
Settle(w) ==
    LET j == worker[w].job IN
    /\ worker[w].pc = "settle"
    /\ IF worker[w].outcome = "ok"
       THEN /\ bull' = [bull EXCEPT ![j].state = "completed"]
            /\ UNCHANGED letters
       ELSE /\ bull' = [bull EXCEPT
                 ![j].made = Attempt(j),
                 ![j].state = IF LettersOf(w) = {} THEN "delayed" ELSE "failed"]
            /\ letters' = letters \cup LettersOf(w)
    /\ worker' = [worker EXCEPT ![w] = AtRest("idle")]
    /\ UNCHANGED <<row, request, due, parked, history>>

-----------------------------------------------------------------------------
(* toDeadLetter *)

\* Mutant: the row is marked first and the entry parked second.
ParkLate(l) ==
    /\ l \in letters /\ l.step = "park"
    /\ letters' = (letters \ {l}) \cup {[l EXCEPT !.step = "mark"]}
    /\ SetStatus(l.job, "DEAD")
    /\ UNCHANGED <<bull, worker, request, due, parked, history>>

Park(l) ==
    /\ l \in letters /\ l.step = "park"
    /\ letters' = (letters \ {l}) \cup {[l EXCEPT !.step = "mark"]}
    /\ parked' = parked \cup {l.job}
    /\ UNCHANGED <<row, bull, worker, request, due, history>>

MarkDead(l) ==
    /\ l \in letters /\ l.step = "mark"
    /\ SetStatus(l.job, "DEAD")
    /\ letters' = letters \ {l}
    /\ UNCHANGED <<bull, worker, request, due, parked, history>>

\* Redis or Postgres refuses; the callback only logs it.
LetterFails(l) ==
    /\ l \in letters /\ faults < MaxFaults
    /\ letters' = letters \ {l}
    /\ aborted' = aborted \cup {l.job}
    /\ faults' = faults + 1
    /\ UNCHANGED <<row, bull, worker, request, due, parked>>
    /\ UNCHANGED <<posts, lost, spoilt, readded, leaked, retried>>

-----------------------------------------------------------------------------
(* Faults, time and BullMQ's own moves *)

LostPost(w) ==
    IF worker[w].pc = "record" THEN [lost EXCEPT ![worker[w].job] = @ + 1] ELSE lost

\* The process is killed: its lock and its slot outlive it, its callbacks do not.
Crash(w) ==
    /\ worker[w].pc # "down" /\ faults < MaxFaults
    /\ lost' = LostPost(w)
    /\ letters' = {l \in letters : l.by # w}
    /\ worker' = [worker EXCEPT ![w] = AtRest("down")]
    /\ leaked' = IF worker[w].pc \in Reserved THEN leaked + 1 ELSE leaked
    /\ faults' = faults + 1
    /\ UNCHANGED <<row, bull, request, due, parked>>
    /\ UNCHANGED <<posts, spoilt, readded, retried, aborted>>

\* A store refuses a call of processJob.  Inside the try it is one more failure of
\* the run; in handleFailure it replaces the error.  Before the try nothing gives
\* the slot back: reserve may have counted it, the update to PROCESSING had.
AfterRefusal(pc) ==
    CASE pc = "record" -> "handle"
      [] pc \in {"handle", "failWrite"} -> "release"
      [] OTHER -> "settle"

StoreFails(w) ==
    /\ worker[w].pc \in {"read", "reserve", "mark", "record", "handle", "failWrite"}
    /\ faults < MaxFaults
    /\ lost' = LostPost(w)
    /\ worker' = [worker EXCEPT ![w].pc = AfterRefusal(@), ![w].outcome = "retryable"]
    /\ leaked' \in CASE worker[w].pc = "reserve" -> {leaked, leaked + 1}
                     [] worker[w].pc = "mark" -> {leaked + 1}
                     [] OTHER -> {leaked}
    /\ faults' = faults + 1
    /\ UNCHANGED <<row, bull, letters, request, due, parked>>
    /\ UNCHANGED <<posts, spoilt, readded, retried, aborted>>

\* A backoff or deferral elapses, or scheduledAt arrives.
Promote(j) ==
    /\ bull[j].state = "delayed" \/ (bull[j].state = "scheduled" /\ due[j])
    /\ bull' = [bull EXCEPT ![j].state = "waiting"]
    /\ UNCHANGED <<row, worker, letters, request, due, parked, history>>

\* The stalled check of a running worker finds an active job with no lock.
Stall(j) ==
    /\ bull[j].state = "active" /\ ~Held(j)
    /\ \E w \in Workers : worker[w].pc \in {"idle"} \cup JobPc
    /\ bull' = [bull EXCEPT ![j].state = "waiting", ![j].stalls = @ + 1]
    /\ UNCHANGED <<row, worker, letters, request, due, parked, history>>

TimePasses(j) ==
    /\ ~due[j]
    /\ due' = [due EXCEPT ![j] = TRUE]
    /\ UNCHANGED <<row, bull, worker, letters, request, parked, history>>

-----------------------------------------------------------------------------
(* Specification *)

Init ==
    /\ row = [j \in Jobs |-> NoRow]
    /\ bull = [j \in Jobs |-> NoRecord]
    /\ worker = [w \in Workers |-> AtRest("down")]
    /\ letters = {}
    /\ request = [r \in Requests |-> NoRequest]
    /\ due = [j \in Jobs |-> TRUE]
    /\ parked = {}
    /\ posts = [j \in Jobs |-> 0]
    /\ lost = [j \in Jobs |-> 0]
    /\ spoilt = [j \in Jobs |-> 0]
    /\ readded = {}
    /\ leaked = 0
    /\ retried = [j \in Jobs |-> 0]
    /\ aborted = {}
    /\ faults = 0

RequestStarts(r) ==
    \E j \in Jobs :
        \/ \E timed \in BOOLEAN : CreateRow(r, j, timed)
        \/ CancelRead(r, j)
        \/ RetryRead(r, j)

RequestProceeds(r) ==
    \/ EnqueueAdd(r) \/ EnqueueLink(r)
    \/ CancelWithdraw(r) \/ CancelWrite(r)
    \/ RetryReset(r) \/ RetryReplace(r)

Boots(w) ==
    \/ Boot(w)
    \/ \E c \in worker[w].todo : RecoverSkip(w, c) \/ RecoverOrphan(w, c)
    \/ RecoverRow(w) \/ RecoverDrop(w) \/ RecoverAdd(w) \/ Recount(w)

\* Everything a delivery does on its own once the limiter has spoken.
Runs(w) ==
    \/ ReadRow(w) \/ MarkProcessing(w)
    \/ PublishSucceeds(w)
    \/ \E outcome \in {"retryable", "permanent"} : PublishThrows(w, outcome)
    \/ RecordPublished(w) \/ CleanUp(w)
    \/ HandleRead(w) \/ HandleWrite(w) \/ Release(w) \/ Settle(w)

Fails(w) == Crash(w) \/ StoreFails(w) \/ CleanUpFails(w) \/ ReleaseFails(w)

Delivers(l) == Park(l) \/ MarkDead(l)

Next ==
    \/ \E r \in Requests : RequestStarts(r) \/ RequestProceeds(r) \/ RequestFails(r)
    \/ \E w \in Workers :
        \/ Boots(w) \/ Runs(w) \/ Admit(w) \/ Defer(w)
        \/ \E j \in Jobs : Fetch(w, j)
        \/ Fails(w)
    \/ \E l \in letters : Delivers(l) \/ LetterFails(l)
    \/ \E j \in Jobs : Promote(j) \/ Stall(j) \/ TimePasses(j)

Spec == Init /\ [][Next]_vars

\* A live process keeps running and a dead one is restarted (docker restart
\* policy); a waiting job is served.  The limiter admits a job that keeps asking as
\* long as over runs do not hold every slot: each rejection renews the counter's
\* expiry (rateLimiter.ts:52; module AccountSlots), so with all of them leaked the
\* job may be deferred for ever.
Fairness ==
    /\ \A r \in Requests : WF_vars(RequestProceeds(r))
    /\ \A w \in Workers : /\ WF_vars(Boots(w)) /\ WF_vars(Runs(w))
                          /\ SF_vars(leaked < MaxConcurrent /\ Admit(w))
    /\ \A j \in Jobs :
        /\ SF_vars(\E w \in Workers : Fetch(w, j))
        /\ WF_vars(Promote(j)) /\ WF_vars(Stall(j)) /\ WF_vars(TimePasses(j))
    /\ WF_vars(\E l \in letters : Delivers(l))

FairSpec == Spec /\ Fairness
-----------------------------------------------------------------------------
(* Properties *)

\* Type correctness.
TypeOK ==
    /\ row \in [Jobs -> Row]
    /\ bull \in [Jobs -> Record]
    /\ worker \in [Workers -> WorkerState]
    /\ letters \subseteq Letter
    /\ request \in [Requests -> RequestState]
    /\ due \in [Jobs -> BOOLEAN]
    /\ parked \subseteq Jobs
    /\ posts \in [Jobs -> Nat] /\ lost \in [Jobs -> Nat] /\ retried \in [Jobs -> Nat]
    /\ spoilt \in [Jobs -> Nat] /\ readded \subseteq Jobs /\ leaked \in Nat
    /\ aborted \subseteq Jobs
    /\ faults \in Nat

\* Two workers never run the same job, whatever the retries, recoveries,
\* stalls and crashes: every add reuses the row's id, which Redis refuses
\* while a record has it, and a locked record cannot be removed.
OneRunner ==
    \A v, w \in Workers :
        worker[v].pc \in JobPc /\ worker[w].pc \in JobPc
          /\ worker[v].job = worker[w].job => v = w

\* A row is DEAD only with an entry in the parking lot, wherever a crash or a
\* refused call falls: toDeadLetter's "dead and untraceable" cannot happen.
DeadIsParked == \A j \in Jobs : row[j].status = "DEAD" => j \in parked

\* No row reports more attempts than its own budget, or than the queue's if a boot
\* gave the job a new record (createWorker.ts:102): neither deferrals nor stalls,
\* failed clean-ups or manual retries stretch it.
AttemptsWithinBudget ==
    \A j \in Jobs : \/ row[j].attempts <= MaxAttempts
                   \/ (j \in readded /\ row[j].attempts <= DefaultAttempts)

\* No delivery of a scheduled job starts before its time, re-queueing after a
\* restart included: the delay is recomputed, not dropped.
NotBeforeSchedule ==
    \A w \in Workers : worker[w].pc \in JobPc => due[worker[w].job]

\* Unless somebody retries it by hand, a job is posted again only after the record
\* of a post was lost, or after removing the staged media threw over a recorded one
\* (processJob.ts:228): no redelivery, re-queue, failed write or failed release posts
\* a second time ("returning without republishing is the whole point of tracking
\* status in the database").
PostedOncePerRecord ==
    \A j \in Jobs : retried[j] = 0 => posts[j] <= 1 + lost[j] + spoilt[j]

Settled(j) == row[j].status \in {"COMPLETED", "FAILED", "DEAD", "CANCELLED"}

\* From some point on every slot of the account is counted for runs that are over.
Choked == <>[](leaked >= MaxConcurrent)

\* Every accepted job ends, worker crashes and failed writes included, unless dead
\* runs end up with every slot, a request or callback of the job died halfway or it
\* is retried by hand: a retry that overtakes the failing delivery finds its record
\* locked, is dropped as a duplicate and leaves the row QUEUED with nothing to drive it.
AcceptedSettles ==
    \/ Choked
    \/ \A j \in Jobs :
          row[j].status \in ACTIVE_STATUSES
              ~> Settled(j) \/ j \in aborted \/ retried[j] > 0

\* Whatever the faults left behind - a row without a record, a record the row has
\* moved past, a slot some run did not give back - a boot after the last of them
\* drives every job it lists to an end, unless every slot stays with dead runs.
BootRecovers ==
    \/ Choked
    \/ \A j \in Jobs :
          (faults = MaxFaults /\ \E w \in Workers : \E c \in worker[w].todo : c.job = j)
              ~> Settled(j)
=============================================================================
