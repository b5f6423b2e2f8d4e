---------------------------- MODULE AccountSlots ----------------------------
(***************************************************************************)
(* The two limits of one account (lib/worker/rateLimiter.ts): a counter of *)
(* the jobs in flight, acct:<id>:slots, and the stamp of the last finish,  *)
(* acct:<id>:lastPublish.  Both are Redis keys that processJob reads and   *)
(* writes one command at a time, that a heartbeat keeps from expiring, and *)
(* that a booting worker rewrites from the job table (reconcileSlots).     *)
(* Accounts share nothing here, so one account is modelled.                *)
(*                                                                         *)
(* Time is counted in ticks of a minute or so.  A Redis or Postgres call   *)
(* takes no tick; a run takes any number.  Of the job table and of BullMQ  *)
(* the module keeps what the limits see: who is PROCESSING, what is live,  *)
(* which deliveries come back and when (module JobLifecycle has the rest). *)
(***************************************************************************)
EXTENDS Integers, FiniteSets

CONSTANTS
    Jobs,           \* jobs of the account
    NoJob,          \* the job of a lane that has none
    Processes,      \* worker processes
    Concurrency,    \* WORKER_CONCURRENCY: lanes of a process
    MaxConcurrent,  \* Account.maxConcurrent
    MinInterval,    \* Account.minIntervalSeconds, in ticks
    SlotTTL,        \* SLOT_TTL_SECONDS, in ticks
    DeferDelay,     \* RATE_LIMIT_DEFER_MS, in ticks
    Heartbeat,      \* HEARTBEAT_MS, in ticks
    MaxAttempts,    \* the record's `attempts`
    MaxFaults       \* bound: crashes and failed calls in a behaviour

ASSUME SlotsAssumption ==
    /\ IsFiniteSet(Jobs) /\ IsFiniteSet(Processes) /\ NoJob \notin Jobs
    /\ Concurrency \in Nat \ {0} /\ MaxConcurrent \in Nat \ {0}
    /\ MinInterval \in Nat /\ DeferDelay \in Nat \ {0}
    /\ Heartbeat \in Nat \ {0} /\ SlotTTL \in Nat /\ Heartbeat < SlotTTL
    /\ MaxAttempts \in Nat \ {0} /\ MaxFaults \in Nat

VARIABLES
    job,     \* per job: its row, its BullMQ record and the delay left on it
    lane,    \* per lane: where it is in processJob
    proc,    \* per process: where it is in its boot
    slots,   \* the in-flight key: a count and the ticks it has to live
    last,    \* ticks since lastPublish was stamped; SlotTTL when it is gone
    since,   \* history: ticks since a run finished, no further than MinInterval
    misjudged,  \* history: whether a boot left the counter at a wrong count
    faults   \* history: faults so far

vars == <<job, lane, proc, slots, last, since, misjudged, faults>>

-----------------------------------------------------------------------------
(* Values *)

Lanes == Processes \X (1..Concurrency)

JobState ==
    [row : {"queued", "running", "completed", "failed"},
     bull : {"waiting", "active", "gone"}, wait : Nat, made : Nat]
NewJob == [row |-> "queued", bull |-> "waiting", wait |-> 0, made |-> 0]

LanePc == {"idle", "interval", "take", "refresh", "giveBack", "mark", "run",
           "decr", "zero", "stamp", "settle"}
Result == {"completed", "failed", "queued"}
LaneState ==
    [pc : LanePc, job : Jobs \cup {NoJob}, seen : Int, beat : Nat, result : Result]
Free == [pc |-> "idle", job |-> NoJob, seen |-> 0, beat |-> 0, result |-> "completed"]

ProcState == [pc : {"down", "survey", "compare", "correct", "up"}, actual : Nat]

\* A key with no expiry lives Forever; one that is not there counts as 0.
Forever == SlotTTL + 1
Absent  == [count |-> 0, ttl |-> 0]

Counting == {"refresh", "giveBack", "mark", "run", "decr"}
Holding  == {l \in Lanes : lane[l].pc \in Counting}
Admitted == {l \in Lanes : lane[l].pc \in {"mark", "run", "decr"}}
Running  == {j \in Jobs : job[j].row = "running"}

-----------------------------------------------------------------------------
(* Redis *)

Incr(k)   == [count |-> k.count + 1, ttl |-> IF k = Absent THEN Forever ELSE k.ttl]
Decr(k)   == [count |-> k.count - 1, ttl |-> IF k = Absent THEN Forever ELSE k.ttl]
Expire(k) == IF k = Absent THEN Absent ELSE [k EXCEPT !.ttl = SlotTTL]

Aged(k) ==
    IF k.ttl = Forever \/ k = Absent THEN k
    ELSE IF k.ttl = 1 THEN Absent ELSE [k EXCEPT !.ttl = @ - 1]

At(l, pc)      == lane[l].pc = pc
Goto(l, pc)    == lane' = [lane EXCEPT ![l].pc = pc]
End(l, result) == lane' = [lane EXCEPT ![l].pc = "settle", ![l].result = result]

-----------------------------------------------------------------------------
(* reserve *)

\* BullMQ hands the job out and processJob reads its row.
Fetch(l, j) ==
    /\ At(l, "idle") /\ proc[l[1]].pc = "up"
    /\ job[j].bull = "waiting" /\ job[j].wait = 0
    /\ job' = [job EXCEPT ![j].bull = "active"]
    /\ lane' = [lane EXCEPT ![l] =
         [Free EXCEPT !.job = j,
                      !.pc = IF job[j].row = "completed" THEN "settle"
                             ELSE IF MinInterval > 0 THEN "interval" ELSE "take"]]
    /\ UNCHANGED <<proc, slots, last, since, misjudged, faults>>

\* DeferJobError: the delivery goes back without spending an attempt.
Postpone(l, delay) ==
    /\ job' = [job EXCEPT ![lane[l].job].bull = "waiting", ![lane[l].job].wait = delay]
    /\ lane' = [lane EXCEPT ![l] = Free]

\* Mutant: the window ends a tick early.
IntervalOffByOne(l) ==
    /\ At(l, "interval")
    /\ IF last < SlotTTL /\ last + 1 < MinInterval
       THEN Postpone(l, MinInterval - last)
       ELSE Goto(l, "take") /\ UNCHANGED job
    /\ UNCHANGED <<proc, slots, last, since, misjudged, faults>>

CheckInterval(l) ==
    /\ At(l, "interval")
    /\ IF last < SlotTTL /\ last < MinInterval
       THEN Postpone(l, MinInterval - last)
       ELSE Goto(l, "take") /\ UNCHANGED job
    /\ UNCHANGED <<proc, slots, last, since, misjudged, faults>>

Take(l) ==
    /\ At(l, "take")
    /\ slots' = Incr(slots)
    /\ lane' = [lane EXCEPT ![l].pc = "refresh", ![l].seen = slots.count + 1]
    /\ UNCHANGED <<job, proc, last, since, misjudged, faults>>

\* The expiry is set before the limit is looked at: a rejection renews it too.
Refresh(l) ==
    /\ At(l, "refresh")
    /\ slots' = Expire(slots)
    /\ Goto(l, IF lane[l].seen > MaxConcurrent THEN "giveBack" ELSE "mark")
    /\ UNCHANGED <<job, proc, last, since, misjudged, faults>>

GiveBack(l) ==
    /\ At(l, "giveBack")
    /\ slots' = Decr(slots)
    /\ Postpone(l, DeferDelay)
    /\ UNCHANGED <<proc, last, since, misjudged, faults>>

-----------------------------------------------------------------------------
(* The run and its release *)

Mark(l) ==
    /\ At(l, "mark")
    /\ job' = [job EXCEPT ![lane[l].job].row = "running"]
    /\ lane' = [lane EXCEPT ![l].pc = "run", ![l].beat = Heartbeat]
    /\ UNCHANGED <<proc, slots, last, since, misjudged, faults>>

\* Mutant: the heartbeat reports progress and leaves the key to expire.
TouchForgotten(l) ==
    /\ At(l, "run") /\ lane[l].beat = 0
    /\ lane' = [lane EXCEPT ![l].beat = Heartbeat]
    /\ UNCHANGED <<job, proc, slots, last, since, misjudged, faults>>

\* touch, from the heartbeat timer.  One that fails is an unhandled rejection
\* and ends the process: a Crash.
Touch(l) ==
    /\ At(l, "run") /\ lane[l].beat = 0
    /\ slots' = Expire(slots)
    /\ lane' = [lane EXCEPT ![l].beat = Heartbeat]
    /\ UNCHANGED <<job, proc, last, since, misjudged, faults>>

\* The row takes the run's result: COMPLETED, FAILED, or QUEUED for a retry.
Finish(l, result) ==
    /\ At(l, "run")
    /\ result = "queued" => job[lane[l].job].made + 1 < MaxAttempts
    /\ job' = [job EXCEPT ![lane[l].job].row = result]
    /\ lane' = [lane EXCEPT ![l].pc = "decr", ![l].result = result]
    /\ since' = 0
    /\ UNCHANGED <<proc, slots, last, misjudged, faults>>

\* Mutant: the slot of a finished run stays counted.
DecrForgotten(l) ==
    /\ At(l, "decr")
    /\ Goto(l, "stamp")
    /\ UNCHANGED <<job, proc, slots, last, since, misjudged, faults>>

ReleaseDecr(l) ==
    /\ At(l, "decr")
    /\ slots' = Decr(slots)
    /\ Goto(l, IF slots.count - 1 < 0 THEN "zero" ELSE "stamp")
    /\ UNCHANGED <<job, proc, last, since, misjudged, faults>>

ReleaseZero(l) ==
    /\ At(l, "zero")
    /\ slots' = [count |-> 0, ttl |-> Forever]
    /\ Goto(l, "stamp")
    /\ UNCHANGED <<job, proc, last, since, misjudged, faults>>

ReleaseStamp(l) ==
    /\ At(l, "stamp")
    /\ last' = 0
    /\ Goto(l, "settle")
    /\ UNCHANGED <<job, proc, slots, since, misjudged, faults>>

\* BullMQ takes the outcome: done, or another attempt after a backoff.
Settle(l) ==
    LET j == lane[l].job
        retried == lane[l].result = "queued" /\ job[j].made + 1 < MaxAttempts IN
    /\ At(l, "settle")
    /\ job' = [job EXCEPT ![j].bull = IF retried THEN "waiting" ELSE "gone",
                          ![j].wait = 0, ![j].made = IF retried THEN @ + 1 ELSE @]
    /\ lane' = [lane EXCEPT ![l] = Free]
    /\ UNCHANGED <<proc, slots, last, since, misjudged, faults>>

-----------------------------------------------------------------------------
(* A worker boots *)

Orphan(j) == job[j].row \in {"queued", "running"} /\ job[j].bull = "gone"

\* recoverOrphans: what BullMQ does not know is queued again; what it calls
\* active stays as it is, its row PROCESSING, though nobody may be running it.
Boot(p) ==
    /\ proc[p].pc = "down"
    /\ job' = [j \in Jobs |-> IF Orphan(j) THEN NewJob ELSE job[j]]
    /\ proc' = [proc EXCEPT ![p].pc = "survey"]
    /\ UNCHANGED <<lane, slots, last, since, misjudged, faults>>

\* reconcileSlots: how many rows of the account are in a running status.
Survey(p) ==
    /\ proc[p].pc = "survey"
    /\ proc' = [proc EXCEPT ![p] = [pc |-> "compare", actual |-> Cardinality(Running)]]
    /\ UNCHANGED <<job, lane, slots, last, since, misjudged, faults>>

\* A boot is done with the count it surveyed, which is what lanes hold by now
\* or is not.
Judge(p) ==
    /\ proc' = [proc EXCEPT ![p].pc = "up"]
    /\ misjudged' = (misjudged \/ proc[p].actual # Cardinality(Holding))

Compare(p) ==
    /\ proc[p].pc = "compare"
    /\ IF slots.count = proc[p].actual
       THEN Judge(p)
       ELSE proc' = [proc EXCEPT ![p].pc = "correct"] /\ UNCHANGED misjudged
    /\ UNCHANGED <<job, lane, slots, last, since, faults>>

Correct(p) ==
    /\ proc[p].pc = "correct"
    /\ slots' = IF proc[p].actual = 0 THEN Absent
                ELSE [count |-> proc[p].actual, ttl |-> SlotTTL]
    /\ Judge(p)
    /\ UNCHANGED <<job, lane, last, since, faults>>

-----------------------------------------------------------------------------
(* Faults, time and BullMQ's own moves *)

Fault == faults < MaxFaults /\ faults' = faults + 1

Crash(p) ==
    /\ proc[p].pc # "down" /\ Fault
    /\ proc' = [proc EXCEPT ![p] = [pc |-> "down", actual |-> 0]]
    /\ lane' = [l \in Lanes |-> IF l[1] = p THEN Free ELSE lane[l]]
    /\ UNCHANGED <<job, slots, last, since, misjudged>>

\* A call outside processJob's try, or the release in its finally, throws:
\* the delivery fails as it stands and nothing undoes what it had taken.
CallFails(l) ==
    /\ lane[l].pc \in {"interval", "take", "refresh", "giveBack", "mark",
                       "decr", "zero", "stamp"}
    /\ Fault
    /\ End(l, "queued")
    /\ UNCHANGED <<job, proc, slots, last, since, misjudged>>

\* Neither the run's outcome nor its failure reaches the row.
OutcomeLost(l, result) ==
    /\ At(l, "run") /\ Fault
    /\ lane' = [lane EXCEPT ![l].pc = "decr", ![l].result = result]
    /\ since' = 0
    /\ UNCHANGED <<job, proc, slots, last, misjudged>>

\* The stalled check of a running worker finds the lock of a dead one expired.
Stall(j) ==
    /\ job[j].bull = "active" /\ \A l \in Lanes : lane[l].job # j
    /\ \E p \in Processes : proc[p].pc = "up"
    /\ job' = [job EXCEPT ![j].bull = "waiting", ![j].wait = 0]
    /\ UNCHANGED <<lane, proc, slots, last, since, misjudged, faults>>

\* Time passes only between calls, and no heartbeat is late.
Tick ==
    /\ \A l \in Lanes : At(l, "idle") \/ (At(l, "run") /\ lane[l].beat > 0)
    /\ \A p \in Processes : proc[p].pc \in {"down", "up"}
    /\ lane' = [l \in Lanes |->
                  IF At(l, "run") THEN [lane[l] EXCEPT !.beat = @ - 1] ELSE lane[l]]
    /\ job' = [j \in Jobs |->
                  IF job[j].wait > 0 THEN [job[j] EXCEPT !.wait = @ - 1] ELSE job[j]]
    /\ slots' = Aged(slots)
    /\ last' = IF last < SlotTTL THEN last + 1 ELSE last
    /\ since' = IF since < MinInterval THEN since + 1 ELSE since
    /\ UNCHANGED <<proc, misjudged, faults>>

-----------------------------------------------------------------------------
(* Specification *)

Init ==
    /\ job = [j \in Jobs |-> NewJob]
    /\ lane = [l \in Lanes |-> Free]
    /\ proc = [p \in Processes |-> [pc |-> "down", actual |-> 0]]
    /\ slots = Absent /\ last = SlotTTL
    /\ since = MinInterval /\ misjudged = FALSE /\ faults = 0

Reserves(l) == CheckInterval(l) \/ Take(l) \/ Refresh(l) \/ GiveBack(l)
Runs(l) ==
    \/ Mark(l) \/ Touch(l)
    \/ \E result \in Result : Finish(l, result)
Releases(l) == ReleaseDecr(l) \/ ReleaseZero(l) \/ ReleaseStamp(l) \/ Settle(l)
Boots(p) == Boot(p) \/ Survey(p) \/ Compare(p) \/ Correct(p)

Next ==
    \/ \E l \in Lanes :
        \/ Reserves(l) \/ Runs(l) \/ Releases(l) \/ CallFails(l)
        \/ \E j \in Jobs : Fetch(l, j)
        \/ \E result \in {"failed", "queued"} : OutcomeLost(l, result)
    \/ \E p \in Processes : Boots(p) \/ Crash(p)
    \/ \E j \in Jobs : Stall(j)
    \/ Tick

Spec == Init /\ [][Next]_vars

\* A live process keeps running, a dead one is restarted, a run ends (its
\* timeout aborts it), BullMQ hands out what waits, and time passes.
Fairness ==
    /\ \A l \in Lanes :
        /\ WF_vars(Reserves(l) \/ Mark(l) \/ Touch(l) \/ Releases(l))
        /\ WF_vars(\E result \in Result : Finish(l, result))
    /\ \A p \in Processes : WF_vars(Boots(p))
    /\ \A j \in Jobs : SF_vars(\E l \in Lanes : Fetch(l, j)) /\ WF_vars(Stall(j))
    /\ WF_vars(Tick)

FairSpec == Spec /\ Fairness

-----------------------------------------------------------------------------
(* Properties *)

\* Type correctness.
TypeOK ==
    /\ job \in [Jobs -> JobState]
    /\ lane \in [Lanes -> LaneState]
    /\ proc \in [Processes -> ProcState]
    /\ slots \in [count : Int, ttl : 0..Forever]
    /\ last \in 0..SlotTTL /\ since \in 0..MinInterval
    /\ misjudged \in BOOLEAN /\ faults \in Nat

\* No more runs of the account are in flight than maxConcurrent.  At 1 it is
\* what keeps two containers off one session volume.  The comment claims it
\* for reconcileAccountSlots too, "correct with several workers".
ConcurrencyRespected == Cardinality(Admitted) <= MaxConcurrent

\* It holds whatever deferrals, leaks, crashes and expiries do to the counter
\* as long as no boot has set it to less, or more, than what lanes hold.
ConcurrencyUnlessMisjudged == ~misjudged => ConcurrencyRespected

\* The counter, its expiry, the heartbeat and the release between them keep the
\* promise of AccountLimit: the runs of the account enter one at a time and only
\* below maxConcurrent, until a boot misjudges the counter (rateLimiter.ts:51-87,
\* 103-126).
Promise == INSTANCE AccountLimit WITH
    Runners <- Lanes, Limit <- MaxConcurrent, inside <- IF misjudged THEN {} ELSE Admitted

LimitKept == Promise!Spec

\* While no call fails and no worker dies, a run starts no sooner than
\* minIntervalSeconds after the last one finished ("how long to wait after one
\* finishes before starting the next"), but for a lane that had read the stamp
\* when the other finished, in the tick of its own start (since = 0).
\* This is of intervals no longer than SLOT_TTL_SECONDS: the stamp expires with
\* it (rateLimiter.ts:79), and nothing is left of a longer one.
SpacingUnlessCrossed ==
    [][\A l \in Lanes : lane[l].pc = "mark" /\ lane'[l].pc = "run"
            => since >= MinInterval \/ since = 0 \/ faults > 0]_vars

\* Without faults every job of the account gets its turn: rejections of one
\* another do not starve the jobs of an account.
EveryJobServed ==
    \A j \in Jobs :
        job[j].bull = "waiting" ~> (job[j].bull = "gone" \/ faults > 0 \/ misjudged)

Killed(j) == job[j].row = "running" /\ job[j].bull = "active"
                 /\ \A l \in Lanes : lane[l].job # j

\* What reserve says of the key's expiry: "a worker killed mid-job cannot leak
\* a slot permanently".  The redelivered job is rejected because of the slot
\* it leaked, and each rejection renews the key.
KilledSlotFreed ==
    (slots.count > Cardinality(Holding) /\ \E j \in Jobs : Killed(j))
        ~> slots.count <= Cardinality(Holding)
=============================================================================
