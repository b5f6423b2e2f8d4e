# Formal models of redroid-organico

redroid-organico queues publications and interactive logins for accounts that
live on Android devices.  A web process accepts requests and writes rows to
PostgreSQL; BullMQ carries job ids over Redis; worker processes run the jobs
against containers and report back into the rows.  No transaction spans the
stores and every process may die between two awaits.  The models here are about
what happens then: TLA+ modules translated from `src/`, checked with TLC on
small instances, and, where it matters most, proved with TLAPS.

## Inventory

| Part | State it keeps | Operations | What makes it correct | Module |
|---|---|---|---|---|
| Job lifecycle (`lib/jobs/service.ts`, `lib/worker/processJob.ts`, `lib/worker/createWorker.ts`, `lib/queue/publishQueue.ts`) | the `Job` row; the BullMQ record under the same id; dead-letter entries | create, cancel, retry; deliver, defer, mark, publish, record, fail; dead-letter; recover at boot | one runner per job, no post twice without reason, budgets and schedules kept, every accepted job ends, a boot picks up what a crash left | `JobLifecycle` |
| Per-account limiter (`lib/worker/rateLimiter.ts`) | the Redis counter of runs in flight, the stamp of the last finish, both with an expiry | reserve, touch, release; reconcile at boot | never more runs than `maxConcurrent`, spacing after a finish, no job starved, a boot takes leaked slots back | `AccountSlots`, `AccountLimit` |
| Interactive onboarding (`lib/jobs/service.ts`, `lib/worker/processJob.ts`, `lib/onboarding/signal.ts`, `AndroidPublisher.onboard`) | row status and `humanConfirmedAt`, `Account.sessionState`, the signal list, the device of the run | link, confirm, cancel, retry; wait, verify, finish; fail stranded jobs at boot | the wait ends only when it should, the device comes back, the row settles, the account is usable again | `Onboarding` |
| Devices (`lib/android/redroidProvider.ts`, `emulatorProvider.ts`, `docker.ts`, `adb.ts`, `proxyGateway.ts`, `cameraBridge.ts`, `egressCheck.ts`) | containers of three roles per job, the provider's locals, the measured address of the worker | acquire, pin, verify, hand over, release | nothing left behind for good, one device per session volume, nothing handed over unmasked | `Devices` |
| Reaper (`lib/android/reaper.ts`) | none of its own: containers and job statuses | sweep, sweep of a boot | only what no run uses goes, devices before their gateways | `Devices` |
| Camera leases (`lib/android/cameraSlots.ts`) | Redis leases per `/dev/videoN` | lease, release, reconcile | one job per camera, lost leases come back | `Devices` |
| Egress policy (`lib/android/egressPolicy.ts`) | routing rules, mangle table and chain of one network namespace | the script, command by command | no packet of an app leaves but through the tunnel, the control plane stays up | `EgressPolicy` |
| Drivers and UI flows (`lib/publisher/*`, `lib/android/uiFlow.ts`, `appium.ts`, `device.ts`) | the phone's files and media index, an Appium session, a staging directory | stage, push, scan, drive, report, clean up | COMPLETED means posted, the right video goes out, nothing is left on the phone | `Publishing` |
| Job creation (`createFlowJob`) | rows by idempotency key, jobs in flight | look up, check, insert, fall back on P2002, enqueue | one job in flight per video and account | `Catalog` |
| Media (`lib/media/*`) | `Video` rows, stored objects | ingest: look up, store, insert, verdict | one row per content, a job's video stays there and READY | `Catalog` |
| Proxies and accounts (`lib/proxy/service.ts`, `lib/accounts/*`) | rows | create, update, assign, delete; read and write flows | no account loses its egress silently | `Catalog` |
| Secrets (`lib/crypto/secretBox.ts`, `scripts/rotateCredentials.ts`) | sealed columns, the configured keys | seal, open, rotate | every row readable during and after a rotation, no save lost | `Catalog` |
| Users and sessions (`lib/auth/*`, `app/api/auth`) | the password hash, session rows, Redis counts | log in and out, renew, change the password, count failures | sessions end when they should, guesses are bounded, counts expire | `Access` |
| Routes, event stream, dashboard (`app/`) | none | thin adapters over the operations above | | the callers in `Catalog`, `Access`, `Onboarding` |

Interaction.  Requests and workers share the `Job` and `Account` rows and meet
in BullMQ.  The worker asks the limiter for a slot, calls a driver and hands it
two callbacks (`onDeviceReady`, `awaitHuman`); the driver acquires a device,
which leases a camera, starts a gateway and pins the namespace; a confirmation
crosses from the web process to the worker through a column and a Redis list.
The limiter, the reaper and the camera pool are rebuilt from rows when a worker
boots, in the order `recoverOrphans`, `reconcileSlots`, sweep and leases, Worker
(`worker/index.ts`).

What is hard: rows read before an await and written after it by id alone, two
stores written in turn, BullMQ redelivering what a dead worker held, counters
and leases with an expiry, containers that outlive the process that made them,
scripts that fail halfway, and timers that race a person.  `PROJECT.json` lists
these hazards line by line with the properties that cover them.

## Modules

- `JobLifecycle` - one row's life between the row, the BullMQ record and the
  dead-letter queue.  One action per awaited write.  `row[j]` is the job table,
  `bull[j]` the record (`attemptsMade`, `attempts`, stalls), `worker[w]` where
  a worker is in `recoverOrphans` or `processJob` together with what it read
  before (`todo` is the list of candidates of one `findMany`), `request[r]`
  likewise for a handler, `letters` the `failed` callbacks between their two
  writes.  A publisher returns or throws a retryable or a permanent error; what
  comes after the row is written (`rm` of the staged media, the release of the
  slot) may throw too.  The limiter admits or defers freely, and `leaked` follows
  the slots it still counts for runs that are over.
- `AccountSlots` - the limiter of one account, one action per Redis command.
  `slots` is the counter with its time to live, `last` the age of the stamp,
  `lane[l]` a lane of a worker process inside `reserve`, the run or `release`.
  Time passes in ticks; a Redis or Postgres call takes none.  `AccountLimit` is
  what it promises: a set `inside` that is entered one at a time and only where
  there is room.  The refinement maps `inside` to the lanes that were admitted
  and have not left (`Admitted`); a boot that misjudges the count (`misjudged`) ends
  the promise, and the mapping says so.
- `Onboarding` - one account and the worker lane that links it.  `row` holds the
  two facts waits depend on (status, `humanConfirmedAt`), `session` is
  `Account.sessionState`, `signal` the Redis list, `run` the worker, its driver
  and its clock, `bull` the record, `leaked` the slots of dead runs out of `limit`.
  A delivery asks for a slot and may be deferred; a boot recounts.  What
  `JobLifecycle` splits (enqueueing, a retry, `recoverOrphans`, the failure path) is
  one step here.
- `Devices` - `box[j][r]` is the container of job `j` and role `r` (device,
  gateway, bridge) as Docker has it, with the run that made it standing for its
  id; `run[j]` where the provider is and what teardown will give back; `lease`
  the cameras; `reaper` the sweep under way with its listing; `live` the rows
  with a live status, which a delivery, its end, a boot and a user write:
  `cancelJob` takes a row from the run in progress, and a delivery that had read
  the row before puts it back.  Any `docker run` may fail and still leave a
  container, any removal may fail, a container may exit, a worker may die at each
  step.  There is no limiter: runs of one account may overlap.
  The two providers differ in the order of gateway and `try`, and in cameras.
- `EgressPolicy` - the script under `set -e` as a sequence of commands, each
  optional or not as its `|| true` says, on every kernel (`backend`, `mangle`,
  `mark`, `conntrack`, `resolved`, and what netd does there).  Where a packet goes
  is computed from the rules: the first rule that selects it and whose table has
  a route (`OutDev`), then the chain and the order of the jumps (`Passes`).
- `Publishing` - `publish` of the two drivers for several jobs of one account on
  one phone, whose files (`files`), media index (`rows`, `pending`), app (`app`) and
  Appium sessions persist between runs; `Flow` is a constant, run by the step
  interpreter; every call may fail, the signal may abort, the worker may die.
  A run ends in the worker: the record of the post, the removal of the staging
  directory, `handleFailure`, the release of the slot, each of which may throw over
  what was written before.  A failed job may be retried by hand.  Cancellations
  are left out: they end runs and start none.
- `Catalog` - the API calls that read, decide and write, one action per
  statement: `request[r]` holds a call's locals, `video`, `job`, `account`, `proxy`
  the tables with their unique and foreign keys, `rotation` and `script` the
  operator changing `CREDENTIALS_KEY`.  `queued`, `run` and `listed` are the
  deliveries and boots that write a job's status by its id, as cancellations and
  retries do: a row that ended may come back.
- `Access` - one user: the hash, the sessions, the counts of failures with
  their expiry; each call goes on one store access at a time.
- `JobLifecycleProofs`, `AccountSlotsProofs`, `OnboardingProofs`,
  `DevicesProofs`, `EgressPolicyProofs`, `PublishingProofs`, `CatalogProofs`,
  `AccessProofs` - the theorems.
- `MCJobLifecycle`, `MCAccountSlots`, `MCOnboarding`, `MCDevices`,
  `MCEgressPolicy`, `MCPublishing`, `MCCatalog`, `MCAccess` - the instances TLC runs.

The modules meet in what they share.  `JobLifecycle` and `Onboarding` let the
limiter admit or defer and keep of it only the slots that dead runs leave
counted, which `AccountSlots` has command by command and `slots_leak` shows are
never freed by themselves; `Devices` leaves it out, since after a misjudged boot it
lets runs overlap, and so shows what `refuseConcurrentRunForAccount` does on its
own.  `Devices` takes the pinned gateway as one step whose inside is
`EgressPolicy`; `Publishing` takes from `Devices` that a device comes up or does
not; `Catalog` keeps of a job that runs the writes of its status, the rest is in
`JobLifecycle` and `Publishing`.

BullMQ, Redis, Docker, Appium and the kernel are modelled from their use in
`src/`: an add under a known id is dropped, a locked record cannot be removed, a
record whose worker died goes back to waiting when a running worker's stalled
check sees it and is failed after `maxStalledCount` such returns; a container name
is taken also by a stopped container, a namespace that is borrowed cannot go.

## Runs

| Run | Instance | What it shows |
|---|---|---|
| `job_two_workers` | 1 job, 2 workers, 2 requests, row budget 2, queue budget 3, 1 slot, 1 fault, 1 retry | safety at every interleaving of two lanes and two handlers; requests and workers are symmetric, and the view `WithoutCounts` leaves out history variables (`posts`, `lost`, `spoilt`, `leaked`, `aborted`) that no guard and none of these invariants reads |
| `job_one_worker` | 1 job, 1 worker, 1 request, row budget 2, queue budget 3, 2 slots, 2 faults, 1 retry | liveness and single posting; two faults reach the stall limit, or leak every slot |
| `slots_pass` | 2 jobs, 2 processes of one lane, `maxConcurrent` 1, interval 2 ticks, TTL 3, heartbeat 1, 1 fault | the limiter implements `AccountLimit`, keeps the spacing, and nobody starves |
| `onboarding_pass` | 1 job, 1 request, wait 2 ticks, slack 1, 1 or 2 slots, queue budget 2, 1 retry, 1 fault | every way a wait can end, with a crash or a refused write; one crash takes the only slot of an account, or one of its two |
| `devices_pass` | 2 jobs in three pairs of configurations (two cameras wanted and one there; one account, two proxied jobs, with and without hardening; one account, emulator with everything and a plain device), 2 runs, 1 fault or cancellation | sessions and cameras are shared, and runs not spared, in the named cases only; leftovers go |
| `egress_pass` | all kernels with a backend and one without, script run twice, 1 failing command, 1 reconfiguration | no app packet gets out, the proxy and ADB stay reachable |
| `publishing_pass` | 2 jobs, both drivers, a flow of 7 steps of the shape of `examples/flows/upload-video.json`, 2 attempts, 1 retry, 3 faults; the jobs are symmetric | COMPLETED means posted, a second post has a named reason, the right video, nothing left behind |
| `catalog_pass` | 3 calls, 1 account, 1 proxy, 1 video, 2 keys; either 1 rotation or 3 events in the lives of jobs | each check-then-write holds or fails in a named way, also during a rotation |
| `access_pass` | 2 calls, 1 cookie, 2 passwords, limit 2, window 1 tick, term 3, 2 changes, 1 fault | old sessions end, guesses are bounded, the window ends |
| `slots_leak`, `onboarding_stale`, `catalog_rotation` | the smallest instances that show it | the code does something else than its comment says; see below |

Bounds.  A second job adds nothing to `JobLifecycle`: jobs share no state but
the lanes, and a lane forgets its job when it is done.  Two lanes are needed for
every race on one row, a third would only repeat one of them.  Two attempts
separate a failure that is retried from one that is final; the queue's own budget
is larger, so that a record a boot adds can outlive the row's.  `MaxFaults` bounds
crashes and refused calls; one fault already strands a row at each of its
steps, two reach the stall limit and a crash during the recovery of a crash, and
leak both slots of the account.
In `AccountSlots` two jobs and two lanes at `maxConcurrent` 1 are the least that
reject each other; the ticks keep the order of the real constants (heartbeat
below TTL, interval below TTL, deferral shorter than both).  In `Onboarding` the
wait has two ticks so that it can end before, at and after a confirmation, and
the timer has one tick of slack as in the code; it starts with the account as
earlier jobs may have left it.  One crash chokes an account of one slot, where the
liveness properties promise nothing, and leaves one of two slots the other, where
they must hold.  In `Devices` two runs let a job
find what its own earlier run or another job left; the pairs of configurations
are those that meet in something (camera, session volume); one fault or cancellation
is enough to strand a run while another begins.  In `EgressPolicy` the
kernels are all there are, and a second run of the script meets the rules of the
first.  In `Publishing` three faults are a failure after the post, one of its
clean-up and one in the next run, and the retry by hand adds a run after a final
end.  In `Catalog` three calls are one that checks and two that change what it saw;
three events are a job's delivery, its cancellation and what brings it back (a
delivery that had read the row, a boot, a retry), and no such event touches a
secret, nor a rotation a job, so a behaviour has one or the other; a video that
ffprobe refuses ends like one whose ingest fails, which is there.  In `Access` two calls are a login and
a change.  One scope of the throttle is checked, since the counts by email and by
address go through the same steps; the proofs hold for any number.

`CHECK_DEADLOCK FALSE`: a system in which every job is done and nobody asks for
anything rests.  `access_pass` needs no such line, time always passes there.

### Fairness

Weak fairness on the steps of a handler and of a running worker (Node runs the
continuation of a settled await; a process that stops doing so has died, which
is an action), on a boot (the restart policy of the service brings a dead worker
back), on BullMQ's promotion and stalled check (both timers of a running
Worker), and on time.  Strong fairness on handing out a waiting job, because a
worker that boots or is busy cannot take one for a while.  The limiter is fair in
`JobLifecycle` and `Onboarding` only to the extent that runs which are over do not
hold every slot (`leaked < MaxConcurrent /\ Admit`): each rejection renews the
counter's expiry (`rateLimiter.ts:52`), so with all slots leaked a job may be
deferred for ever, and the liveness properties say `Choked \/ ...`.  A run that
is alive gives its slot back, hence strong fairness otherwise.  In `Devices` the
steps of a sweep and its timer (`setInterval`) are weakly fair, and containers grow
older than the grace (`Age`, strongly, since a sweep that is under way is shorter than it);
nothing is assumed of boots, recoveries or the progress of runs.  In `Access` the
calls and the clock of Redis are weakly fair.  Faults, requests and people are never fair: nobody has to
confirm, cancel or retry.  `EgressPolicy`, `Publishing` and `Catalog` state no
liveness and no fairness.

### What the violations show

- `slots_leak`: the comment at `rateLimiter.ts:54` says the expiry keeps a killed
  worker from leaking its slot; the rejections of its own redelivered job renew
  it each time, so it never expires.
- `onboarding_stale`: the comment at `processJob.ts:262` says that no signal of an
  earlier run may end the wait; a retried job is confirmed by the
  `humanConfirmedAt` of its earlier run, which `retryJob` keeps.
- `catalog_rotation`: the script says it "Re-seals every stored credential"; it
  lists accounts only, and the passwords of proxies, sealed with the same key,
  are lost when the old key is dropped.

### Behaviours the passing properties name

The properties state what holds; these are the exceptions they carry, and
behaviours of the models that no passing property rules out.

- Jobs.  A cancellation may be overwritten by the worker that already read the
  row (`processJob.ts:109`) or land on COMPLETED.  A recovered row is added with
  the queue's budget, `RETRY_ATTEMPTS`, instead of its own (`createWorker.ts:102`;
  1 for an onboarding row), and then makes as many attempts (`AttemptsWithinBudget`).
  An `rm` that throws over a COMPLETED row (`processJob.ts:228`) is handled as a failure
  of the run: the row is opened again and the job posted again (`PostedOncePerRecord`
  counts it as `spoilt`).  A release that throws comes after `handleFailure` and
  leaves a COMPLETED row alone; the redelivery returns at once.  Slots that killed
  runs leave counted can fill the limit and then defer every job of the account for
  ever (`Choked`), until a boot finds fewer rows PROCESSING.  With
  two workers, one that boots while the other completes a job on its list queues
  it again, and it is posted twice; `PostedOncePerRecord` is checked with one.  A
  retry that overtakes the end of the failing delivery is dropped as a duplicate
  and waits for the next boot.
- Limiter.  A boot may set the counter to a number already stale (`misjudged`); a
  lane between its interval check and its reservation when another finishes
  starts at once (`SpacingUnlessCrossed`).  The stamp of a finish expires with
  `SLOT_TTL_SECONDS` (`rateLimiter.ts:79`), so of a `minIntervalSeconds` above 900
  only those fifteen minutes are kept: with `MinInterval = 4` and `SlotTTL = 3` TLC
  finds a run that starts three ticks after the last.  Nothing in the code bounds
  the interval; the property, its run and its theorem are of intervals within the
  expiry.
- Onboarding.  A device that boots slower than the slack cuts the operator's time
  short (`OperatorGetsHerTime`); a booting worker fails the waiting jobs of a live
  one; a job failed as stranded is delivered again; the redelivery of a killed run
  may wait for ever for the slot that run still holds, and leaves the row in flight
  and the session ONBOARDING (`Choked`); the self-heal of a link
  request may overwrite VERIFIED.  Two link requests at once both create a job;
  the model serves one at a time.
- Devices.  A failed measurement of the worker's own address is kept for the life
  of the process and turns the leak check off (`UnmaskedOnlyByChoice`).  Two runs of
  an account that both look before either starts its device get one session volume
  (`raced` in `OneDevicePerSession`); the check sees everything else.  A
  cancellation does not stop the run at once: its row no longer protects it, so the
  reaper may take its containers (`stranded` in `SparesRuns`) and a boot's reconciliation
  its lease (`disowned` in `CameraHeldByOne`).  Teardown also frees the camera although
  the bridge's removal failed, and a job delivered again during a reconciliation may
  lose its lease.  The row of a killed worker's job may stay PROCESSING, and its
  containers with it (`LeftoversCollected` is of rows that are not live); a retried
  job finds its own old lease taken until a boot frees it.
- Publishing.  A job that has posted posts again when the failure was transient,
  the worker died, somebody retried it, or something later replaced the outcome
  (`masked`): the record of the post was refused, `rm` threw (`processJob.ts:228`, over
  a permanent error and over COMPLETED alike), `handleFailure` was refused, or the
  release threw over a row that is not COMPLETED (`RepostOnlyAfterTransient`).  An app
  quicker than the media scanner picks whatever is most recent (`PostsOwnVideo`); a
  crash, and a clean-up under an aborted signal, leave files (`LeavesNothing`);
  `assertGone` makes any cause permanent.
- Catalog.  Two keys may pass the check together; and a job that has ended comes back
  without a check when it is retried by hand, when a delivery read its row before the
  cancellation or finds it FAILED (`processJob.ts:79`), when its clean-up throws over
  COMPLETED, or when a boot had listed it (`OneInFlight`); an account assigned while its proxy is being
  deleted loses it, and a job's own override is dropped without a check
  (`EgressStands`); an upload that raced another may take the verdict back
  (`JobsHaveMedia`); a failure between insert and verdict leaves a row VALIDATING
  for good; a key repeated after a failed enqueue is answered with the job that
  was never queued; a save made after the script listed its account is undone
  (`SavesStand`).
- Access.  A login that verified the old password goes on across a change: its
  session survives and its rehash puts the old password back
  (`PasswordChangeHolds`); calls that pass the check together exceed the limit
  (`FailuresBounded`); a count whose `EXPIRE` was lost blocks until a login
  succeeds (`WindowEnds`).

## Proofs

All of them hold for any number of actors, any bound on faults and retries, and
any instance the named `ASSUME`s of the modules allow: budgets and bounds are
natural numbers, the value for "no job" is no job, the sets that are counted are
finite, a kernel has the features the script looks for, and in `AccountSlots` a
heartbeat is shorter than the key's life.  Each invariant is strengthened until
every step keeps it; the strengthenings are definitions of the proof modules.

`JobLifecycleProofs`:

- `TypeCorrect`: `TypeOK`, together with `Engaged` (a worker in a job or a
  re-queue, and a request past its first step, has a job).  `TypeOK` alone is
  not inductive: the writes index the row by the actor's job.
- `ExclusiveHolds` and from it `OneRunnerHolds`.  `OneRunner` is not inductive:
  nothing in it stops a record from becoming waiting while a lane runs it.
  `Exclusive` adds that a lane in a job holds its record active; adds leave an
  existing record alone, a removal spares a held one, a stall needs one that
  nobody holds, so only `Fetch` can start a lane, on a record that was waiting.
- `DeadIsParkedHolds`: with the fact that a letter past its first write has its
  entry.
- `AttemptsWithinBudgetHolds`, for any two budgets of row and queue: `Budgeted`, a
  record that can still be delivered has an attempt left, of no more than the row's
  budget, or than the queue's if a boot added it.
- `NotBeforeScheduleHolds`.  The property speaks of lanes only; `OnTime` adds
  what keeps an early job from reaching one.  Before its time (`Early`) its row
  is SCHEDULED or CANCELLED and keeps its `scheduledAt`, its record waits for
  that time, whoever is about to add it - a request, a booting worker, a list a
  boot took earlier - knows that it is timed, and no retry is under way.  The
  second half, `Unheard`, is needed for the step that creates a row: nobody can
  hold an old reference to an id that has none.
- `PostedOncePerRecordHolds`, assuming that all workers are one (`\A v, w \in
  Workers : v = w`): with two the property is false, see above.  `Recorded` says of
  a job nobody has retried that a post more than lapsed (`Lapses`: records that were
  lost, or written over after the clean-up threw) is being recorded or cleaned up
  after (`Pending`), or the job is closed.  `Closed` is what makes a completed row final: its status,
  no worker in the middle of its delivery, on no list of a boot, and nobody who
  would add it while it has no record.  A DEAD row is closed only if nothing
  delivers it (`Over`), because a late dead-letter callback may write DEAD;
  `Lettered` says that such a callback is under way only for a job that is over,
  `Created` that only the request that made a row adds it, and `Listed` that a
  boot has worked off its list before the first delivery.

`AccountSlotsProofs`:

- `SlotsTypeCorrect`: `TypeOK` with `Seating`; the life of a key stays in range
  only because a key that is gone counts as 0.
- `ConcurrencyHolds`: until a boot misjudges, no more lanes are past `reserve`
  than `maxConcurrent`.  `Counted` says that the counter is then at least the
  number of lanes that hold a slot, the lanes that saw a count within the limit
  (`Seated`) are no more than the limit, nobody is clamping the counter at zero,
  and the key outlives the next heartbeat of every run (`Alive`).  The last is why
  an expiry never drops a counter somebody relies on; the first is why the number
  `Take` gets back exceeds the seats taken, so that the limit admits one more only
  when there is room.  The argument needs `Heartbeat < SlotTTL`, and `Tick`'s guard
  that no heartbeat is late: a worker that stalls for longer than the key's life
  is outside the model.
- `LimitHolds`: the refinement of `AccountLimit`.  The initial state maps to its
  own; a step that adds to `Admitted` adds one lane, and `ConcurrencyHolds` after the step
  is the room `Enter` asks for before it; every other step is a departure or a
  stutter, and after a boot that misjudged `inside` is empty and stays so.
- `SpacingHolds`, an action property, for `MinInterval <= SlotTTL`: `Spaced`.  As long
  as nothing has failed no time passes between the end of a run and its stamp; when
  no stamp is due, it is as old as the last end; and a lane past the check passed
  it rightly or was overtaken in this tick.  The hypothesis is what the code needs
  and does not check (see the limiter's exceptions above).

`OnboardingProofs`:

- `OnboardingTypeCorrect`: `TypeOK` with `Named`, who writes a row has a job.
- `VerifyingHolds`: `VerifyingIsAnswered`.  `Told` collects everything that can end
  a wait or has - the column, the list, a push on its way, a worker going on to
  verify - and `Asked` says that none of it exists for a job before its first
  device was handed over, and on that device only after a confirmation.  It is
  kept because a confirmation starts from AWAITING_HUMAN, which only
  `DeviceReady` writes.  For a later device it does not hold, as `onboarding_stale`
  shows.
- `OperatorTimeHolds`, an action property, from the types alone: only a step of the
  wait ends it as cancelled, and one that does so for the run's timer does it at
  `WaitTicks + SlackTicks`, which is past the wait's deadline for a device that
  was up within the slack.

`DevicesProofs`.  A step is either one of a run of one job (`Moves`), which touches
the boxes of that job only, or nobody's (`Rests`: an exit, a crash, time, a step of
the reaper), after which a box is as it was, older or gone; each invariant is
carried over these two and over `Begin`.

- `DevicesTypeCorrect`: `TypeOK` with `Made`, a container is of a run that has begun;
  so the id of a container of a run to come is on no list.
- `OneDeviceHolds`: `Alone`, of two runs of one account that are past the check of
  `refuseConcurrentRunForAccount`, or of one and a container of the other, or of two
  containers, the runs that made them raced.  Nothing is assumed of the limiter; a
  run past its check has either seen the other's container or is recorded in
  `raced` together with it.
- `UnmaskedHolds`: `Veiled`, the property from the policy on, through check and
  hand-over; nothing but the policy step pins a gateway, and none is unpinned.
- `SparesHold`, an action property: `Doomed`, a run in progress whose row is not live,
  or whose container is about to be taken, was failed by a boot or cancelled.  A run that began
  since the listing has containers of another id.
- `GatewaysLastHold`: `Accounted`, a device past its grace is still on the list or its
  job was spared, and the sweep is at a gateway only when nothing else is listed.
- `CameraHeldHolds`: `Filmed`.  A container that is `Filming` - made with a camera and not
  given up by its run - has the lease of its camera (`Lent`), so two cannot share one.
  To keep that across the release of a lease: at that place of a run nothing it made
  films any more (`Recalled`), and what an earlier run left has another camera, since
  that lease was never free.  A run that acquires has a live row unless it was
  cancelled (`Taken`), a lease is of a job that ran (`Lenders`), and during a
  reconciliation a camera that films and was not listed is of a run begun since,
  whose row is live, so a lease about to be freed is of a job that films no more
  (`Reconciled`, `Finished`).  That fails only for a job delivered again in between or
  cancelled under its run (`Exempt`), which the property names.

`EgressPolicyProofs`:

- `EgressTypeCorrect` and `SealedHolds`.  `Layer3` follows the script: the chain grows
  by the entries of `ACL` in their order (`ChainOK`), it ends with the one that denies
  before the jump to it is made (`Closed`), and the jump stands before netd's
  (`HookOK`).  So a packet that passes met an entry that accepts it, which are the
  cases the property lists.
- `RoutedInsideHolds` and `ReachableHolds`: `RulesOK`, which rules there are command by
  command until another party reconfigures the namespace - the catch-all only next
  to the neighbours' rule, and in a first run only next to the bypass.  For the
  control plane `Ordered` adds the place of each entry in the chain: ADB's before
  the one that denies, and the proxy's too when it has an address.

`PublishingProofs`:

- `PublishingTypeCorrect`: `TypeOK` with `Engaged`, a run is of the one job that is
  running.
- `CompletedHolds`, assuming that some step of the flow asserts what only a post
  brings up (`Proving`).  The code does not ask for such a step, and a flow without
  one can end well though nothing was posted.  `Green`: a flow past that step has
  posted, and so has a run on its way out without an error.
- `RepostHolds`, an action property: `Once`, a job that has posted has a reason to do
  so again, is not going to be delivered or only to be skipped, or posted in the run
  under way, whose outcome, once noted, stands through the end of `processJob`
  (`Concluding`, `Stands`) or is replaced, which is a reason.
- `OwnVideoHolds`: `Own`, from the scan on the gallery shows the job's own video first
  unless that scan is pending, and only this run's may be.
- `NothingLeftHolds`: `Tidy`, what there is of the job under way is in the locals of
  its run, which loses them one by one as it gives things back.

`CatalogProofs`:

- `CatalogTypeCorrect`: `TypeOK` with `Filled`, a call has what it was begun with.
- `CredentialsHold`: `Rotating` relates the phase of the rotation, how far the
  script is and which key each row is sealed with; a save during the rotation
  seals with the new key, so what the script has passed stays current.
- `SavesHold`, an action property: `Listed`, what the script holds of an account is
  what it has unless it was saved since the listing.
- `EgressHolds`: `Deleting`, an account that points at a proxy whose deletion was
  already checked was pointed there after the check.
- `MediaHolds`: `Kept` (a row has its object), `Alone` (an upload that raced nobody
  is the only one of its bytes) and `Usable` (a call past its check still has its
  video).
- `InFlightHolds`: `Knowing`.  The rows a check saw go on being like rows (`Alike`), and
  if one of them is in flight together with the job that was checked, one of the two
  came back while the other was there (`Excused`).  It is kept because a job that
  comes back meets every like job in flight and every call past its check.

`AccessProofs`:

- `AccessTypeCorrect`: `TypeOK`.
- `PasswordHolds`: `Steady`.  Nothing happens before there is a password (`Fresh`);
  only the first hash is weak, so all rehashes under way write one password
  (`OneRehash`); and a login past its verification has the current password or is
  known to be late (`Presented`).
- `FailuresHold`: `Counted`, every try is in the count, still owed by the call that
  made it, or lost; and a call that is trying passed the check below the limit.
  It counts calls, so they are finitely many.

Only model-checked: liveness (`AcceptedSettles`, `BootRecovers`, `EveryJobServed`,
`DeviceReturned`, `InFlightSettles`, `SessionFreed`, `LeftoversCollected`,
`WindowEnds`), which is out of the prover's reach.

## Not modelled, and the plan

- API tokens (`auth/apiToken.ts`): rows that nothing but their own three
  functions reads or writes.  The limit on registrations: the same counter as
  the throttle, without its races.
- The event stream and the React components: they read and keep nothing the
  other parts act on; the routes are the callers in the models.
- Graceful shutdown (`worker/index.ts`): a worker that finishes its job and stops is
  one that crashes while idle.
- Logging, health and environment: no state.  Deployment and scripts other than
  the rotation: operations; those that write call operations modelled here, but for
  `addAccount --account`, which rewrites an account's credentials in one update like a
  save of its flows and which `SavesStand` does not follow.
- An update to READY that commits and whose answer is lost: in `Catalog` a statement
  that fails did nothing.
- Left out for good: what a container, adb, Appium or ffmpeg does inside one
  call, the cipher, command lines, formatting.

What a further step would add: an abstract job (accepted, running, settled) that
`JobLifecycle` implements.
