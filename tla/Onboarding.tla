----------------------------- MODULE Onboarding -----------------------------
(***************************************************************************)
(* Interactive onboarding of one account: a worker brings up a device,     *)
(* hands it to a person, waits for her to confirm in another process, and  *)
(* verifies the login (runOnboarding in lib/worker/processJob.ts,          *)
(* waitForHuman in lib/onboarding/signal.ts, AndroidPublisher.onboard).    *)
(* Link, confirm, cancel and retry requests (lib/jobs/service.ts) and the  *)
(* boot of a worker (lib/worker/createWorker.ts) interleave with it.       *)
(*                                                                         *)
(* One worker lane drives the account's onboarding jobs; its other jobs    *)
(* are only a reason for the limiter to defer one.  What JobLifecycle      *)
(* splits is whole here: enqueueing with its row, a retry, recoverOrphans, *)
(* the read and write of handleFailure, a deferral with its delay, and the *)
(* dead-letter callback with the move that causes it.  Time is in ticks    *)
(* that a run spends; calls may be arbitrarily slow.                       *)
(***************************************************************************)
EXTENDS Integers, FiniteSets

CONSTANTS
    Jobs,             \* onboarding jobs of the account
    NoJob,            \* the job of a worker or request that has none
    Requests,         \* HTTP requests in flight at once
    WaitTicks,        \* ONBOARDING_TIMEOUT_MS
    SlackTicks,       \* the minute processJob adds to it for its own timer
    DefaultAttempts,  \* RETRY_ATTEMPTS, the queue's default job option
    Limits,           \* what Account.maxConcurrent may be
    MaxRetries,       \* bound: retry requests per job
    MaxFaults         \* bound: crashes and failed calls, not above the two
                      \* stalls BullMQ redelivers (maxStalledCount)

ASSUME OnboardingAssumption ==
    /\ NoJob \notin Jobs /\ IsFiniteSet(Jobs) /\ Limits \subseteq Nat \ {0}
    /\ WaitTicks \in Nat \ {0} /\ SlackTicks \in Nat \ {0}
    /\ DefaultAttempts \in Nat \ {0} /\ MaxRetries \in Nat /\ MaxFaults \in 0..2

VARIABLES
    row,       \* the job table
    session,   \* Account.sessionState
    signal,    \* jobs with a confirmation in onboarding:signal:<id>
    bull,      \* the queue's records
    run,       \* the worker: where it is in boot or in a job
    request,   \* per request: where it is in its handler
    answered,  \* history: jobs confirmed since their current device came up
    faults,    \* history: faults so far
    stuck,     \* history: whether a write that resets the session was refused
    limit,     \* Account.maxConcurrent
    leaked     \* history: slots the limiter still counts for runs that are over

slots == <<limit, leaked>>
history == <<answered, faults, stuck, slots>>
vars == <<row, session, signal, bull, run, request, history>>

-----------------------------------------------------------------------------
(* Values *)

Status == {"none", "QUEUED", "PROCESSING", "AWAITING_HUMAN", "VERIFYING",
           "COMPLETED", "FAILED", "DEAD", "CANCELLED"}
InFlight == {"QUEUED", "PROCESSING", "AWAITING_HUMAN", "VERIFYING"}
Row == [status : Status, confirmed : BOOLEAN, endpoint : BOOLEAN, devices : Nat,
        retries : Nat]
NoRow == [status |-> "none", confirmed |-> FALSE, endpoint |-> FALSE,
          devices |-> 0, retries |-> 0]

SessionState == {"NONE", "ONBOARDING", "VERIFIED"}

Record == [state : {"none", "waiting", "active"}, made : Nat, allowed : Nat]
NoRecord == [state |-> "none", made |-> 0, allowed |-> 0]
Queued(attempts) == [state |-> "waiting", made |-> 0, allowed |-> attempts]

WaitPc   == {"poll", "deadline", "pop"}
DriverPc == {"boot", "ready", "verifying", "verify", "release"} \cup WaitPc
SlotPc   == {"mark", "clear", "session", "reset", "finish", "verdict", "handle", "free"}
              \cup DriverPc
RunPc == {"down", "strand", "recover", "recount", "idle", "reserve", "settle"} \cup SlotPc
Outcome == {"none", "cancelled", "expired", "verified", "unverified", "thrown"}
Run == [pc : RunPc, job : Jobs \cup {NoJob}, outcome : Outcome, device : BOOLEAN,
        ran : Nat, booted : Nat, todo : SUBSET Jobs]
AtRest(pc) == [pc |-> pc, job |-> NoJob, outcome |-> "none", device |-> FALSE,
               ran |-> 0, booted |-> 0, todo |-> {}]

RequestState ==
    [pc : {"idle", "check", "heal", "create", "confirm", "push", "withdraw", "cancel"},
     job : Jobs \cup {NoJob}, saw : SessionState]
NoRequest == [pc |-> "idle", job |-> NoJob, saw |-> "NONE"]

Goto(pc)  == run' = [run EXCEPT !.pc = pc]
At(pc)    == run.pc = pc
Reply(r)  == request' = [request EXCEPT ![r] = NoRequest]
Step(r, pc) == request' = [request EXCEPT ![r].pc = pc]
Begin(r, pc, j) == request' = [request EXCEPT ![r] = [NoRequest EXCEPT !.pc = pc, !.job = j]]
SetStatus(j, s) == row' = [row EXCEPT ![j].status = s]

-----------------------------------------------------------------------------
(* Requests *)

\* createOnboardingJob reads the account first, then looks for a job in
\* flight, and heals on what it read first.
LinkRead(r) ==
    /\ request[r].pc = "idle" /\ \E j \in Jobs : row[j].status = "none"
    /\ request' = [request EXCEPT ![r].pc = "check", ![r].saw = session]
    /\ UNCHANGED <<row, session, signal, bull, run, history>>

LinkCheck(r) ==
    /\ request[r].pc = "check"
    /\ IF \E j \in Jobs : row[j].status \in InFlight THEN Reply(r)
       ELSE Step(r, IF request[r].saw = "ONBOARDING" THEN "heal" ELSE "create")
    /\ UNCHANGED <<row, session, signal, bull, run, history>>

LinkHeal(r) ==
    /\ request[r].pc = "heal"
    /\ session' = "NONE"
    /\ Step(r, "create")
    /\ UNCHANGED <<row, signal, bull, run, history>>

\* The row, with maxAttempts 1, and its record.
LinkCreate(r, j) ==
    /\ request[r].pc = "create" /\ row[j].status = "none"
    /\ SetStatus(j, "QUEUED")
    /\ bull' = [bull EXCEPT ![j] = Queued(1)]
    /\ Reply(r)
    /\ UNCHANGED <<session, signal, run, history>>

ConfirmRead(r, j) ==
    /\ request[r].pc = "idle"
    /\ row[j].status = "AWAITING_HUMAN" /\ ~row[j].confirmed
    /\ Begin(r, "confirm", j)
    /\ UNCHANGED <<row, session, signal, bull, run, history>>

\* The column is what makes a confirmation durable ...
ConfirmWrite(r) ==
    LET j == request[r].job IN
    /\ request[r].pc = "confirm"
    /\ row' = [row EXCEPT ![j].confirmed = TRUE]
    /\ answered' = answered \cup {j}
    /\ Step(r, "push")
    /\ UNCHANGED <<session, signal, bull, run, faults, stuck, slots>>

\* ... and the push, which may fail, is what makes it quick.
ConfirmPush(r) ==
    /\ request[r].pc = "push"
    /\ signal' \in {signal, signal \cup {request[r].job}}
    /\ Reply(r)
    /\ UNCHANGED <<row, session, bull, run, history>>

CancelRead(r, j) ==
    /\ request[r].pc = "idle"
    /\ row[j].status \in {"QUEUED", "PROCESSING", "AWAITING_HUMAN"}
    /\ Begin(r, "withdraw", j)
    /\ UNCHANGED <<row, session, signal, bull, run, history>>

\* A record a worker holds cannot be removed; one whose worker died may be.
AfterRemove(j) ==
    IF bull[j].state # "active" THEN {NoRecord}
    ELSE IF run.job = j THEN {bull[j]} ELSE {bull[j], NoRecord}

CancelWithdraw(r) ==
    LET j == request[r].job IN
    /\ request[r].pc = "withdraw"
    /\ \E b \in AfterRemove(j) : bull' = [bull EXCEPT ![j] = b]
    /\ Step(r, "cancel")
    /\ UNCHANGED <<row, session, signal, run, history>>

CancelWrite(r) ==
    /\ request[r].pc = "cancel"
    /\ SetStatus(request[r].job, "CANCELLED")
    /\ Reply(r)
    /\ UNCHANGED <<session, signal, bull, run, history>>

\* retryJob: the row is reset but for humanConfirmedAt; the add is dropped
\* when the old record could not be removed.
Retry(j) ==
    /\ row[j].status \in {"FAILED", "DEAD"} /\ row[j].retries < MaxRetries
    /\ row' = [row EXCEPT ![j].status = "QUEUED", ![j].retries = @ + 1]
    /\ \E b \in AfterRemove(j) :
          bull' = [bull EXCEPT ![j] = IF b = NoRecord THEN Queued(1) ELSE b]
    /\ UNCHANGED <<session, signal, run, request, history>>

-----------------------------------------------------------------------------
(* A worker boots *)

Boot ==
    /\ At("down")
    /\ LET held == {j \in Jobs : row[j].status \in {"AWAITING_HUMAN", "VERIFYING"}} IN
       run' = [AtRest(IF held = {} THEN "recover" ELSE "strand") EXCEPT !.todo = held]
    /\ UNCHANGED <<row, session, signal, bull, request, history>>

\* failStrandedInteractiveJobs: one transaction per job of the listing.
FailStranded(j) ==
    /\ At("strand") /\ j \in run.todo
    /\ row' = [row EXCEPT ![j].status = "FAILED", ![j].endpoint = FALSE]
    /\ session' = "NONE"
    /\ run' = [run EXCEPT !.todo = @ \ {j},
                          !.pc = IF run.todo = {j} THEN "recover" ELSE "strand"]
    /\ UNCHANGED <<signal, bull, request, history>>

\* The rest of recoverOrphans, which knows no maxAttempts of a row.
Orphans == {j \in Jobs : row[j].status \in {"QUEUED", "PROCESSING"}
                            /\ bull[j].state = "none"}

Recover ==
    /\ At("recover")
    /\ row' = [j \in Jobs |->
                 IF j \in Orphans THEN [row[j] EXCEPT !.status = "QUEUED"] ELSE row[j]]
    /\ bull' = [j \in Jobs |-> IF j \in Orphans THEN Queued(DefaultAttempts) ELSE bull[j]]
    /\ Goto("recount")
    /\ UNCHANGED <<session, signal, request, history>>

\* reconcileSlots: the account's counter becomes the number of rows that are in a run,
\* which can only be dead ones, whose record BullMQ still has.
Recount ==
    /\ At("recount")
    /\ leaked' = Cardinality({j \in Jobs :
                    row[j].status \in {"PROCESSING", "AWAITING_HUMAN", "VERIFYING"}})
    /\ Goto("idle")
    /\ UNCHANGED <<row, session, signal, bull, request, answered, faults, stuck, limit>>

-----------------------------------------------------------------------------
(* The worker runs a delivery *)

\* processJob returns on a cancelled or completed row, and on no other.
Fetch(j) ==
    /\ At("idle") /\ bull[j].state = "waiting"
    /\ bull' = [bull EXCEPT ![j].state = "active"]
    /\ run' = [AtRest(IF row[j].status \in {"CANCELLED", "COMPLETED"}
                      THEN "settle" ELSE "reserve") EXCEPT !.job = j, !.device = run.device]
    /\ UNCHANGED <<row, session, signal, request, history>>

\* The limiter has a slot for the account ...
Admit ==
    /\ At("reserve")
    /\ Goto("mark")
    /\ UNCHANGED <<row, session, signal, bull, request, history>>

\* ... or defers: DeferJobError puts the record back, delayed, and spends no attempt.
Defer ==
    /\ At("reserve")
    /\ bull' = [bull EXCEPT ![run.job].state = "waiting"]
    /\ run' = [AtRest("idle") EXCEPT !.device = run.device]
    /\ UNCHANGED <<row, session, signal, request, history>>

\* Mutant: the status is misspelt.
MarkRunning ==
    /\ At("mark")
    /\ SetStatus(run.job, "RUNNING")
    /\ Goto("clear")
    /\ UNCHANGED <<session, signal, bull, request, history>>

MarkProcessing ==
    /\ At("mark")
    /\ SetStatus(run.job, "PROCESSING")
    /\ Goto("clear")
    /\ UNCHANGED <<session, signal, bull, request, history>>

\* clearHumanSignal, whose failure is swallowed.
ClearSignal ==
    /\ At("clear")
    /\ signal' \in {signal, signal \ {run.job}}
    /\ Goto("session")
    /\ UNCHANGED <<row, session, bull, request, history>>

ClaimSession ==
    /\ At("session")
    /\ session' = "ONBOARDING"
    /\ Goto("boot")
    /\ UNCHANGED <<row, signal, bull, request, history>>

\* The driver: acquire, then the callbacks processJob hands it.
DeviceUp ==
    /\ At("boot")
    /\ run' = [run EXCEPT !.pc = "ready", !.device = TRUE]
    /\ UNCHANGED <<row, session, signal, bull, request, history>>

DeviceReady ==
    /\ At("ready")
    /\ row' = [row EXCEPT ![run.job].status = "AWAITING_HUMAN",
                          ![run.job].endpoint = TRUE, ![run.job].devices = @ + 1]
    /\ run' = [run EXCEPT !.pc = "poll", !.booted = run.ran]
    /\ answered' = answered \ {run.job}
    /\ UNCHANGED <<session, signal, bull, request, faults, stuck, slots>>

\* The driver is done with the device, with this outcome; it releases it.
Conclude(outcome) == run' = [run EXCEPT !.pc = "release", !.outcome = outcome]

\* Mutant: an interactive run gets no more time than the wait itself.
AbortedEarly == run.ran >= WaitTicks

\* The run's own timer has fired (processJob's controller.abort).
Aborted == run.ran >= WaitTicks + SlackTicks

Expired == run.ran >= run.booted + WaitTicks

\* Mutant: a cancelled row ends the wait as a confirmation does.
PollTakesAnyEnd ==
    /\ At("poll")
    /\ IF Aborted THEN Conclude("cancelled")
       ELSE Goto(IF row[run.job].confirmed \/ row[run.job].status = "CANCELLED"
                 THEN "verifying" ELSE "deadline")
    /\ UNCHANGED <<row, session, signal, bull, request, history>>

\* waitForHuman, one read of the row per turn.
Poll ==
    /\ At("poll")
    /\ IF Aborted \/ (row[run.job].status = "CANCELLED" /\ ~row[run.job].confirmed)
       THEN Conclude("cancelled")
       ELSE Goto(IF row[run.job].confirmed THEN "verifying" ELSE "deadline")
    /\ UNCHANGED <<row, session, signal, bull, request, history>>

Deadline ==
    /\ At("deadline")
    /\ IF Expired THEN Conclude("expired") ELSE Goto("pop")
    /\ UNCHANGED <<row, session, signal, bull, request, history>>

\* The blocking pop takes what is there, runs out, or is cut by the abort.
Pop ==
    /\ At("pop")
    /\ \/ /\ run.job \in signal
          /\ signal' = signal \ {run.job}
          /\ Goto("verifying")
       \/ /\ run.job \notin signal /\ UNCHANGED signal
          /\ IF Aborted THEN Conclude("cancelled") ELSE Goto("poll")
    /\ UNCHANGED <<row, session, bull, request, history>>

\* Written by id: a cancellation that came meanwhile is overwritten.
AnnounceVerifying ==
    /\ At("verifying")
    /\ SetStatus(run.job, "VERIFYING")
    /\ Goto("verify")
    /\ UNCHANGED <<session, signal, bull, request, history>>

Verify(outcome) ==
    /\ At("verify")
    /\ Conclude(outcome)
    /\ UNCHANGED <<row, session, signal, bull, request, history>>

\* No device, an Appium session that will not start, an abort while booting.
DriverThrows ==
    /\ run.pc \in {"boot", "verify"}
    /\ Conclude("thrown")
    /\ UNCHANGED <<row, session, signal, bull, request, history>>

\* Mutant: an error on the way skips the release.
ReleaseUnlessThrown ==
    /\ At("release")
    /\ run' = [run EXCEPT !.device = run.outcome = "thrown",
                          !.pc = IF run.outcome = "thrown" THEN "reset" ELSE "finish"]
    /\ UNCHANGED <<row, session, signal, bull, request, history>>

Release ==
    /\ At("release")
    /\ run' = [run EXCEPT !.device = FALSE,
                          !.pc = IF run.outcome = "thrown" THEN "reset" ELSE "finish"]
    /\ UNCHANGED <<row, session, signal, bull, request, history>>

\* Mutant: a driver that throws leaves the account as it is.
ResetForgotten ==
    /\ At("reset")
    /\ Goto("handle")
    /\ UNCHANGED <<row, session, signal, bull, request, history>>

ResetSession ==
    /\ At("reset")
    /\ session' = "NONE"
    /\ Goto("handle")
    /\ UNCHANGED <<row, signal, bull, request, history>>

\* finishOnboarding: account and row at once when verified, else in turn.
Finish ==
    /\ At("finish")
    /\ IF run.outcome = "verified"
       THEN /\ session' = "VERIFIED"
            /\ row' = [row EXCEPT ![run.job].status = "COMPLETED", ![run.job].endpoint = FALSE]
            /\ Goto("free")
       ELSE session' = "NONE" /\ Goto("verdict") /\ UNCHANGED row
    /\ UNCHANGED <<signal, bull, request, history>>

\* Mutant: only an outcome that throws is written to the row.
VerdictSkipped ==
    /\ At("verdict")
    /\ row' = IF run.outcome = "unverified"
              THEN [row EXCEPT ![run.job].status = "FAILED", ![run.job].endpoint = FALSE]
              ELSE row
    /\ Goto(IF run.outcome = "unverified" THEN "handle" ELSE "free")
    /\ UNCHANGED <<session, signal, bull, request, history>>

Verdict ==
    /\ At("verdict")
    /\ row' = [row EXCEPT
         ![run.job].status = IF run.outcome = "cancelled" THEN "CANCELLED" ELSE "FAILED",
         ![run.job].endpoint = FALSE]
    /\ Goto(IF run.outcome = "unverified" THEN "handle" ELSE "free")
    /\ UNCHANGED <<session, signal, bull, request, history>>

\* handleFailure: with maxAttempts 1 every failure of a run is final.
HandleFailure ==
    /\ At("handle")
    /\ row' = [row EXCEPT ![run.job].status =
                 IF @ \in {"CANCELLED", "FAILED"} THEN @ ELSE "FAILED"]
    /\ Goto("free")
    /\ UNCHANGED <<session, signal, bull, request, history>>

\* reservation.release, in processJob's finally.
FreeSlot ==
    /\ At("free")
    /\ Goto("settle")
    /\ UNCHANGED <<row, session, signal, bull, request, history>>

\* BullMQ takes the outcome - what the driver throws may be permanent - and
\* the 'failed' callback marks the row; a job that is over has no record left.
Settle ==
    LET j == run.job
        failed == run.outcome \in {"unverified", "thrown"} IN
    /\ At("settle")
    /\ \E permanent \in BOOLEAN :
        /\ run.outcome = "unverified" => permanent
        /\ IF failed /\ ~permanent /\ bull[j].made + 1 < bull[j].allowed
           THEN /\ bull' = [bull EXCEPT ![j].state = "waiting", ![j].made = @ + 1]
                /\ UNCHANGED row
           ELSE /\ bull' = [bull EXCEPT ![j] = NoRecord]
                /\ IF failed THEN SetStatus(j, "DEAD") ELSE UNCHANGED row
    /\ run' = [AtRest("idle") EXCEPT !.device = run.device]
    /\ UNCHANGED <<session, signal, request, history>>

-----------------------------------------------------------------------------
(* Faults, time and BullMQ's own moves *)

Crash ==
    /\ ~At("down") /\ faults < MaxFaults
    /\ run' = AtRest("down")
    /\ leaked' = IF run.pc \in SlotPc THEN leaked + 1 ELSE leaked
    /\ faults' = faults + 1
    /\ UNCHANGED <<row, session, signal, bull, request, answered, stuck, limit>>

\* Postgres or Redis refuses the call the worker is at.  What follows the driver is in
\* the try and its catch; before it nothing gives the slot back, and where the limiter
\* itself was refused it may be counted or not.
AfterRefusal(pc) ==
    IF pc \in {"reserve", "mark", "free"} THEN "settle"
    ELSE IF pc = "handle" THEN "free"
    ELSE IF pc \in DriverPc THEN "release" ELSE "handle"

StoreFails ==
    /\ run.pc \in {"reserve", "mark", "session", "ready", "poll", "verifying", "reset",
                   "finish", "verdict", "handle", "free"}
    /\ faults < MaxFaults
    /\ run' = [run EXCEPT !.outcome = "thrown", !.pc = AfterRefusal(@)]
    /\ stuck' = (stuck \/ run.pc \in {"reset", "finish"})
    /\ \/ run.pc # "mark" /\ UNCHANGED leaked
       \/ run.pc \in {"reserve", "mark", "free"} /\ leaked' = leaked + 1
    /\ faults' = faults + 1
    /\ UNCHANGED <<row, session, signal, bull, request, answered, limit>>

\* The stalled check of a running worker finds the lock of a dead one expired.
Stall(j) ==
    /\ bull[j].state = "active" /\ run.job # j
    /\ run.pc \notin {"down", "strand", "recover", "recount"}
    /\ bull' = [bull EXCEPT ![j].state = "waiting"]
    /\ UNCHANGED <<row, session, signal, run, request, history>>

\* Time the current run spends, no further than its timer counts.
Tick ==
    /\ run.job # NoJob /\ ~At("reserve") /\ ~Aborted
    /\ run' = [run EXCEPT !.ran = @ + 1]
    /\ UNCHANGED <<row, session, signal, bull, request, history>>

-----------------------------------------------------------------------------
(* Specification *)

\* The account as earlier jobs have left it, ONBOARDING if its last run could not
\* write how it ended.
Init ==
    /\ row = [j \in Jobs |-> NoRow]
    /\ session \in SessionState /\ signal = {}
    /\ bull = [j \in Jobs |-> NoRecord]
    /\ run = AtRest("down")
    /\ request = [r \in Requests |-> NoRequest]
    /\ answered = {}
    /\ faults = 0 /\ stuck = (session = "ONBOARDING")
    /\ limit \in Limits /\ leaked = 0

RequestProceeds(r) ==
    \/ LinkCheck(r) \/ LinkHeal(r)
    \/ \E j \in Jobs : LinkCreate(r, j)
    \/ ConfirmWrite(r) \/ ConfirmPush(r)
    \/ CancelWithdraw(r) \/ CancelWrite(r)

Boots == Boot \/ Recover \/ Recount \/ \E j \in Jobs : FailStranded(j)

Proceeds ==
    \/ MarkProcessing \/ ClearSignal \/ ClaimSession
    \/ DeviceUp \/ DeviceReady \/ DriverThrows
    \/ Poll \/ Deadline \/ Pop \/ AnnounceVerifying
    \/ \E outcome \in {"verified", "unverified"} : Verify(outcome)
    \/ Release \/ ResetSession \/ Finish \/ Verdict \/ HandleFailure
    \/ FreeSlot \/ Settle

Next ==
    \/ \E r \in Requests :
        \/ LinkRead(r) \/ RequestProceeds(r)
        \/ \E j \in Jobs : ConfirmRead(r, j) \/ CancelRead(r, j)
    \/ \E j \in Jobs : Retry(j) \/ Fetch(j) \/ Stall(j)
    \/ Boots \/ Admit \/ Defer \/ Proceeds \/ Crash \/ StoreFails \/ Tick

Spec == Init /\ [][Next]_vars

\* Requests and workers that live keep going, a dead worker is restarted,
\* BullMQ hands out what waits and reclaims what stalled, and time passes.  The limiter
\* admits a job that keeps asking as long as over runs do not hold every slot: each
\* rejection renews the counter's expiry (rateLimiter.ts:52; module AccountSlots).
Fairness ==
    /\ \A r \in Requests : WF_vars(RequestProceeds(r))
    /\ WF_vars(Boots) /\ WF_vars(Proceeds) /\ WF_vars(Tick)
    /\ SF_vars(leaked < limit /\ Admit)
    /\ \A j \in Jobs : SF_vars(Fetch(j)) /\ WF_vars(Stall(j))

FairSpec == Spec /\ Fairness

-----------------------------------------------------------------------------
(* Properties *)

\* Type correctness.
TypeOK ==
    /\ row \in [Jobs -> Row]
    /\ session \in SessionState /\ signal \subseteq Jobs
    /\ bull \in [Jobs -> Record]
    /\ run \in Run
    /\ request \in [Requests -> RequestState]
    /\ answered \subseteq Jobs
    /\ faults \in 0..MaxFaults /\ stuck \in BOOLEAN
    /\ limit \in Limits /\ leaked \in Nat

\* No job verifies a session nobody said she had finished: on the first
\* device of a job, neither a lost push nor one left over ends the wait.
VerifyingIsAnswered ==
    \A j \in Jobs :
        row[j].status = "VERIFYING" /\ row[j].devices = 1 => j \in answered

\* "A signal left over from an earlier run of this id would be consumed
\* instantly and end the wait before anyone saw the screen": on every device.
EveryWaitIsAnswered ==
    \A j \in Jobs : row[j].status = "VERIFYING" => j \in answered

\* A run is not cut short while a person still has time on the clock, as long
\* as her device came up within the slack of the run's timer.
OperatorGetsHerTime ==
    [][run'.pc = "release" /\ run.pc \in WaitPc /\ run'.outcome = "cancelled"
         => \/ row[run.job].status = "CANCELLED"
            \/ Expired
            \/ run.booted > SlackTicks]_vars

\* A device handed to a person is taken back, whatever she does: "a closed
\* browser tab never sends anything".
DeviceReturned == run.device ~> ~run.device

\* From some point on every slot of the account is counted for runs that are over.
Choked == <>[](leaked >= limit)

\* Every onboarding job in flight gets a final status, crashes and refused writes
\* included, as long as no retry overtakes the end of its last run and dead runs do not
\* end up with every slot, so that its redelivery is deferred for ever.
InFlightSettles ==
    \/ Choked
    \/ \A j \in Jobs :
          row[j].status \in InFlight ~> (row[j].status \notin InFlight \/ row[j].retries > 0)

\* No run "would leave the account ONBOARDING for good" - unless the very write that
\* frees it was refused, the job of a worker that died was cancelled, so that nobody
\* runs it to its end, or the dead worker's run keeps the slot its redelivery needs.
SessionFreed ==
    \/ Choked
    \/ session = "ONBOARDING" ~>
          \/ session # "ONBOARDING"
          \/ stuck
          \/ faults > 0 /\ \E j \in Jobs : row[j].status = "CANCELLED"
=============================================================================
