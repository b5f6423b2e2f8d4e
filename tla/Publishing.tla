----------------------------- MODULE Publishing -----------------------------
(***************************************************************************)
(* One account's publications, run after run: staging the video, pushing   *)
(* it to the phone, driving the app through the account's flow, and giving *)
(* everything back (lib/worker/processJob.ts runPublish,                   *)
(* lib/publisher/android.ts, tiktok.ts, lib/android/uiFlow.ts, appium.ts,  *)
(* device.ts).  What the phone remembers between runs - its files and its  *)
(* media index - is kept, and so is what the app has really posted.        *)
(*                                                                         *)
(* Abstracted: the device comes up or does not (module Devices), requests  *)
(* and boots that overtake a delivery, and cancellations, which start no   *)
(* run (JobLifecycle), locators and text.                                  *)
(***************************************************************************)
EXTENDS Naturals, Sequences

CONSTANTS
    Jobs, NoJob,    \* jobs of the account, each with its own video
    Drivers,        \* PUBLISHER_DRIVER: some of "android" and "tiktok"
    Flow,           \* the account's flow, see Step
    MaxAttempts,    \* attempts a job may make
    MaxRetries,     \* bound: retries by hand of a job
    MaxFaults       \* bound: calls that fail, crashes, aborts

\* A step of the flow: `effect` is what tapping it makes the app do, and `after`
\* whether its element is on the screen only once the app has posted.
Step == [action : {"tap", "type", "assertVisible", "assertGone", "wait"},
         optional : BOOLEAN, effect : {"none", "pick", "post"}, after : BOOLEAN]

\* uiFlowSchema refuses a flow without an assertion.
ASSUME FlowAssumption ==
    /\ Flow \in Seq(Step)
    /\ \E i \in DOMAIN Flow : Flow[i].action \in {"assertVisible", "assertGone"}
ASSUME NoJobAssumption == NoJob \notin Jobs
ASSUME BoundAssumption ==
    MaxAttempts \in Nat \ {0} /\ MaxRetries \in Nat /\ MaxFaults \in Nat

VARIABLES
    driver,    \* never changes
    job,       \* each job's row and its BullMQ record, see Job
    run,       \* the run under way, and its locals
    aborted,   \* its signal
    scratch,   \* jobs with a staging directory on the worker
    sessions,  \* Appium sessions open, by the job that opened them
    files,     \* jobs whose video is on the phone's storage
    rows,      \* jobs whose video the phone's media index lists
    latest,    \* its most recent entry
    pending,   \* jobs whose video the index has been told of
    app,       \* the video picked in the app, before its scan or not; whether it is posted
    posts,     \* history: [job, video, early] as published, in order
    ended,     \* history: how each job's last run ended, or what came after it
    cut,       \* history: jobs of which a run could not give back what it held
    retried,   \* history: times each job was retried by hand
    faults

gallery == <<rows, latest>>
device == <<files, gallery, pending, app, posts>>
vars == <<driver, job, run, aborted, scratch, sessions, device, ended, cut, retried, faults>>

-----------------------------------------------------------------------------
(* Values *)

Pcs == {"idle", "stage", "check", "acquire", "push", "scan", "session", "launch",
        "flow", "upload", "report", "close", "remove", "release", "settle", "tidy",
        "handle", "free"}
Errors == {"none", "transient", "permanent"}

\* What a run of a job comes to: an error of publish(), or none; the worker died;
\* something after publish() failed and took the place of its outcome; and then the
\* job was retried by hand.
Ends == Errors \cup {"never", "crash", "masked", "retried"}

\* `waiting`: BullMQ will deliver the record; `attempts`: those it has counted.
Job == [status : {"queued", "running", "completed", "failed"},
        waiting : BOOLEAN, attempts : 0 .. MaxAttempts]
NewJob == [status |-> "queued", waiting |-> TRUE, attempts |-> 0]

\* The locals of publish(): `pushed` is mediaPushed, `held` the acquired device,
\* `session` the Appium session, `at` the index of the step, `error` what is thrown.
Run == [pc : Pcs, job : Jobs \cup {NoJob}, at : 1 .. Len(Flow) + 1, error : Errors,
        session : BOOLEAN, pushed : BOOLEAN, held : BOOLEAN]
Idle == [pc |-> "idle", job |-> NoJob, at |-> 1, error |-> "none",
         session |-> FALSE, pushed |-> FALSE, held |-> FALSE]

At(pc) == run.pc = pc
Goto(pc) == run' = [run EXCEPT !.pc = pc]
Fault == faults < MaxFaults /\ faults' = faults + 1
NoApp == [picked |-> NoJob, early |-> FALSE, posted |-> FALSE]

\* To the catch block: evidence is taken, what could be open is closed.
Throw(error) == run' = [run EXCEPT !.pc = "report", !.error = error]

\* Out of publish at once: nothing is held yet, or ever.
Quit(error) == run' = [run EXCEPT !.pc = "settle", !.error = error]

\* A call to the phone or to Appium is refused once the signal is aborted, and may
\* fail by itself.
CallFails == (aborted /\ UNCHANGED faults) \/ Fault

\* classify: an abort, and a phone or a server that does not answer, are transient;
\* a command that was answered with a refusal is permanent.
CallThrows ==
    \/ CallFails /\ Throw("transient")
    \/ Fault /\ Throw("permanent")

-----------------------------------------------------------------------------
(* Staging *)

\* The limiter lets one run of the account through; the row is PROCESSING, whatever
\* it was, a FAILED one included.
Deliver(j) ==
    /\ At("idle")
    /\ job[j].waiting /\ job[j].status # "completed"
    /\ job' = [job EXCEPT ![j] = [status |-> "running", waiting |-> FALSE,
                                 attempts |-> @.attempts + 1]]
    /\ run' = [Idle EXCEPT !.pc = "stage", !.job = j]
    /\ aborted' = FALSE
    /\ UNCHANGED <<driver, scratch, sessions, device, ended, cut, retried, faults>>

\* A COMPLETED row: the delivery returns, and its record is done with.
Skip(j) ==
    /\ At("idle")
    /\ job[j].waiting /\ job[j].status = "completed"
    /\ job' = [job EXCEPT ![j].waiting = FALSE]
    /\ UNCHANGED <<driver, run, aborted, scratch, sessions, device, ended, cut,
                   retried, faults>>

\* mkdtemp and the download from storage; a failed one is unclassified: transient.
Stage ==
    /\ At("stage")
    /\ scratch' = scratch \cup {run.job}
    /\ \/ Goto("check") /\ UNCHANGED faults
       \/ Fault /\ Quit("transient")
    /\ UNCHANGED <<driver, job, aborted, sessions, device, ended, cut, retried>>

\* The account's flow or credentials, then the size of the file on disk: wrong ones
\* are permanent, an unreadable one is transient.
Check ==
    /\ At("check")
    /\ \/ Goto(IF driver = "tiktok" THEN "upload" ELSE "acquire") /\ UNCHANGED faults
       \/ Fault /\ \E e \in {"transient", "permanent"} : Quit(e)
    /\ UNCHANGED <<driver, job, aborted, scratch, sessions, device, ended, cut, retried>>

\* The device boots on the account's volume: its media provider finds the files
\* that are there.  The app is started afresh.
Acquire ==
    /\ At("acquire")
    /\ \/ /\ ~aborted
          /\ rows' = rows \cup files
          /\ latest' \in IF rows = {} /\ files # {} THEN files ELSE {latest}
          /\ app' = NoApp
          /\ run' = [run EXCEPT !.pc = "push", !.held = TRUE]
          /\ UNCHANGED faults
       \/ CallThrows /\ UNCHANGED <<gallery, app>>
    /\ UNCHANGED <<driver, job, aborted, scratch, sessions, files, pending, posts,
                   ended, cut, retried>>

\* pushMedia and the check of the size: rm, push, stat.  A path the index still has
\* a row for cannot be created again, which adb rejects: permanent.  A file cut short
\* is transient, and stays.
Push ==
    /\ At("push")
    /\ \/ /\ ~aborted /\ run.job \notin rows
          /\ files' = files \cup {run.job}
          /\ \/ Goto("scan") /\ UNCHANGED <<cut, faults>>
             \/ Fault /\ Throw("transient") /\ cut' = cut \cup {run.job}
       \/ /\ ~aborted /\ run.job \in rows
          /\ files' = files \ {run.job}
          /\ Throw("permanent")
          /\ UNCHANGED <<cut, faults>>
       \/ CallThrows /\ UNCHANGED <<files, cut>>
    /\ UNCHANGED <<driver, job, aborted, scratch, sessions, gallery, pending, app,
                   posts, ended, retried>>

\* Mutant: the media index is not told.
ScanForgotten ==
    /\ At("scan")
    /\ run' = [run EXCEPT !.pc = "session", !.pushed = TRUE]
    /\ UNCHANGED <<driver, job, aborted, scratch, sessions, device, ended, cut,
                   retried, faults>>

\* The broadcast is sent; only then does the file count as pushed.
Scan ==
    /\ At("scan")
    /\ \/ /\ ~aborted
          /\ pending' = pending \cup {run.job}
          /\ run' = [run EXCEPT !.pc = "session", !.pushed = TRUE]
          /\ UNCHANGED faults
       \/ CallThrows /\ UNCHANGED pending
    /\ cut' = IF run'.pc = "report" THEN cut \cup {run.job} ELSE cut
    /\ UNCHANGED <<driver, job, aborted, scratch, sessions, files, gallery, app,
                   posts, ended, retried>>

\* The media scanner gets round to it.
Index(j) ==
    /\ run.held /\ j \in pending
    /\ pending' = pending \ {j}
    /\ IF j \in files THEN rows' = rows \cup {j} /\ latest' = j ELSE UNCHANGED gallery
    /\ UNCHANGED <<driver, job, run, aborted, scratch, sessions, files, app, posts,
                   ended, cut, retried, faults>>

-----------------------------------------------------------------------------
(* Driving the app *)

\* createAppiumSession; an answer that is lost leaves a session nobody knows.
StartSession ==
    /\ At("session")
    /\ \/ /\ ~aborted
          /\ sessions' = sessions \cup {run.job}
          /\ run' = [run EXCEPT !.pc = "launch", !.session = TRUE]
          /\ UNCHANGED <<cut, faults>>
       \/ CallThrows /\ UNCHANGED <<sessions, cut>>
       \/ /\ Fault /\ Throw("transient")
          /\ sessions' = sessions \cup {run.job} /\ cut' = cut \cup {run.job}
    /\ UNCHANGED <<driver, job, aborted, scratch, device, ended, retried>>

\* An app that does not stay up is a finding: permanent.
Launch ==
    /\ At("launch")
    /\ \/ ~aborted /\ Goto("flow") /\ UNCHANGED faults
       \/ CallThrows
    /\ UNCHANGED <<driver, job, aborted, scratch, sessions, device, ended, cut, retried>>

CurrentStep == Flow[run.at]
Proceed == run' = [run EXCEPT !.at = @ + 1]

\* An element that shows the post went through is there only if it did.
Visible(step) == step.after => app.posted

\* What the app does when the step's element is tapped: it takes the most recent
\* entry of the gallery, or posts what it was given if its file is still there;
\* and it may ignore the tap.
React(step) ==
    \/ UNCHANGED <<app, posts>>
    \/ /\ step.effect = "pick" /\ latest # NoJob
       /\ app' = [app EXCEPT !.picked = latest, !.early = run.job \in pending]
       /\ UNCHANGED posts
    \/ /\ step.effect = "post" /\ app.picked \in files /\ ~app.posted
       /\ app' = [app EXCEPT !.posted = TRUE]
       /\ posts' = Append(posts, [job |-> run.job, video |-> app.picked,
                                  early |-> app.early])

\* Mutant: whatever may be missing is passed over.
TolerateAny(step) == TRUE

\* Only a tap or a typing that says so may find nothing.
Tolerate(step) == step.optional /\ step.action \in {"tap", "type"}

\* tap, type and assertVisible: the element is found within its time or not.
\* A call that fails, before or after the app has reacted, is transient.
Interact ==
    LET step == CurrentStep IN
    /\ step.action \in {"tap", "type", "assertVisible"}
    /\ \/ Visible(step) /\ React(step) /\ Proceed /\ UNCHANGED faults
       \/ Tolerate(step) /\ Proceed /\ UNCHANGED <<app, posts, faults>>
       \/ /\ ~Tolerate(step) /\ Throw("permanent")
          /\ IF Visible(step) THEN Fault ELSE UNCHANGED faults
          /\ UNCHANGED <<app, posts>>
       \/ Visible(step) /\ React(step) /\ Fault /\ Throw("transient")
       \/ Fault /\ Throw("transient") /\ UNCHANGED <<app, posts>>

\* assertGone: whatever goes wrong while waiting, an abort included, counts as still
\* present.
WaitGone ==
    /\ CurrentStep.action = "assertGone"
    /\ \/ ~aborted /\ Proceed /\ UNCHANGED faults
       \/ ~aborted /\ ~app.posted /\ Throw("permanent") /\ UNCHANGED faults
       \/ CallFails /\ Throw("permanent")
    /\ UNCHANGED <<app, posts>>

Pause ==
    /\ CurrentStep.action = "wait"
    /\ Proceed
    /\ UNCHANGED <<app, posts, faults>>

\* runUiFlow; an abort between two steps is noticed before the next one.
RunFlow ==
    /\ At("flow")
    /\ IF run.at > Len(Flow)
       THEN Goto("report") /\ UNCHANGED <<app, posts, faults>>
       ELSE \/ aborted /\ Throw("transient") /\ UNCHANGED <<app, posts, faults>>
            \/ ~aborted /\ (Interact \/ Pause)
            \/ WaitGone
    /\ UNCHANGED <<driver, job, aborted, scratch, sessions, files, gallery, pending,
                   ended, cut, retried>>

\* TikTokPublisher: one upload.  The platform takes the video, or not; the answer
\* may get lost, be no JSON, carry no id, be a 5xx: transient, taken or not.
Upload ==
    /\ At("upload")
    /\ \/ /\ ~aborted
          /\ posts' = Append(posts, [job |-> run.job, video |-> run.job, early |-> FALSE])
          /\ \/ Goto("settle") /\ UNCHANGED faults
             \/ Fault /\ Quit("transient")
       \/ CallFails /\ Quit("transient") /\ UNCHANGED posts
       \/ Fault /\ Quit("permanent") /\ UNCHANGED posts
    /\ UNCHANGED <<driver, job, aborted, scratch, sessions, files, gallery, pending, app,
                   ended, cut, retried>>

-----------------------------------------------------------------------------
(* Giving back *)

\* succeed or recordFailure: evidence never throws, nor does the logger.
Report ==
    /\ At("report")
    /\ Goto("close")
    /\ UNCHANGED <<driver, job, aborted, scratch, sessions, device, ended, cut,
                   retried, faults>>

\* The finally block, innermost first; a failure here is swallowed.
Close ==
    /\ At("close")
    /\ Goto("remove")
    /\ \/ /\ run.session => ~aborted
          /\ sessions' = IF run.session THEN sessions \ {run.job} ELSE sessions
          /\ UNCHANGED <<cut, faults>>
       \/ run.session /\ CallFails /\ cut' = cut \cup {run.job} /\ UNCHANGED sessions
    /\ UNCHANGED <<driver, job, aborted, scratch, device, ended, retried>>

\* Mutant: the session that could not be closed skips the rest.
RemoveSkipped ==
    /\ At("remove")
    /\ Goto("release")
    /\ UNCHANGED <<driver, job, aborted, scratch, sessions, device, ended, cut,
                   retried, faults>>

\* adb shell rm: the file goes, the index keeps its row.
RemoveFile ==
    /\ At("remove")
    /\ Goto("release")
    /\ \/ /\ run.pushed => ~aborted
          /\ files' = IF run.pushed THEN files \ {run.job} ELSE files
          /\ UNCHANGED <<cut, faults>>
       \/ run.pushed /\ CallFails /\ cut' = cut \cup {run.job} /\ UNCHANGED files
    /\ UNCHANGED <<driver, job, aborted, scratch, sessions, gallery, pending, app,
                   posts, ended, retried>>

\* The device is released without the signal; what it was about to index is lost.
Release ==
    /\ At("release")
    /\ run' = [run EXCEPT !.pc = "settle", !.held = FALSE]
    /\ pending' = {} /\ app' = NoApp
    /\ UNCHANGED <<driver, job, aborted, scratch, sessions, files, gallery, posts, ended,
                   cut, retried, faults>>

-----------------------------------------------------------------------------
(* Back in the worker *)

\* recordPublished, when publish returned.
Record ==
    /\ At("settle")
    /\ \/ /\ run.error = "none"
          /\ job' = [job EXCEPT ![run.job].status = "completed"]
          /\ ended' = [ended EXCEPT ![run.job] = "none"]
          /\ Goto("tidy") /\ UNCHANGED faults
       \/ /\ run.error = "none" /\ Fault
          /\ ended' = [ended EXCEPT ![run.job] = "masked"]
          /\ run' = [run EXCEPT !.pc = "tidy", !.error = "transient"]
          /\ UNCHANGED job
       \/ /\ run.error # "none"
          /\ ended' = [ended EXCEPT ![run.job] = run.error]
          /\ Goto("tidy") /\ UNCHANGED <<job, faults>>
    /\ UNCHANGED <<driver, aborted, scratch, sessions, device, cut, retried>>

\* The finally around it all: rm of the staging directory.  If it throws, that is
\* what the run failed of, unclassified and so retryable, a COMPLETED row or not.
RemoveScratch ==
    /\ At("tidy")
    /\ \/ /\ scratch' = scratch \ {run.job}
          /\ Goto(IF run.error = "none" THEN "free" ELSE "handle")
          /\ UNCHANGED <<ended, cut, faults>>
       \/ /\ Fault
          /\ ended' = [ended EXCEPT ![run.job] = "masked"]
          /\ cut' = cut \cup {run.job}
          /\ run' = [run EXCEPT !.pc = "handle", !.error = "transient"]
          /\ UNCHANGED scratch
    /\ UNCHANGED <<driver, job, aborted, sessions, device, retried>>

\* Mutants: one attempt too many; a failure that is final is retried like any other.
FinalLate(error, attempts) == error = "permanent" \/ attempts > MaxAttempts
FinalSpent(error, attempts) == attempts >= MaxAttempts

\* No attempt follows, for the row (handleFailure) and for BullMQ (UnrecoverableError).
Final(error, attempts) == error = "permanent" \/ attempts >= MaxAttempts

\* handleFailure writes what the row reads from here.  If it fails itself, its error
\* is the one that is thrown.
HandleFailure ==
    /\ At("handle")
    /\ \/ /\ job' = [job EXCEPT ![run.job].status =
                        IF Final(run.error, job[run.job].attempts) THEN "failed" ELSE "queued"]
          /\ Goto("free") /\ UNCHANGED <<ended, faults>>
       \/ /\ Fault
          /\ ended' = [ended EXCEPT ![run.job] = "masked"]
          /\ run' = [run EXCEPT !.pc = "free", !.error = "transient"]
          /\ UNCHANGED job
    /\ UNCHANGED <<driver, aborted, scratch, sessions, device, cut, retried>>

\* BullMQ's end of the delivery: done, to be delivered again, or failed, after which
\* toDeadLetter makes the row DEAD.
Finished(error, record) ==
    IF error = "none" THEN record
    ELSE IF Final(error, record.attempts) THEN [record EXCEPT !.status = "failed"]
    ELSE [record EXCEPT !.waiting = TRUE]

\* reservation.release.  If it fails, its error is the one BullMQ sees, and a row that
\* reads FAILED is no reason not to run it again.
Finish ==
    /\ At("free")
    /\ \/ /\ job' = [job EXCEPT ![run.job] = Finished(run.error, @)]
          /\ UNCHANGED <<ended, faults>>
       \/ /\ Fault
          /\ job' = [job EXCEPT ![run.job] = Finished("transient", @)]
          /\ ended' = IF job[run.job].status = "completed" THEN ended
                      ELSE [ended EXCEPT ![run.job] = "masked"]
    /\ run' = Idle /\ aborted' = FALSE
    /\ UNCHANGED <<driver, scratch, sessions, device, cut, retried>>

\* retryJob, of a FAILED or DEAD job: a new record takes the place of the old one,
\* unless a delivery still has that locked.
Retry(j) ==
    /\ job[j].status = "failed" /\ retried[j] < MaxRetries
    /\ job' = [job EXCEPT ![j] = IF run.job = j THEN [@ EXCEPT !.status = "queued"]
                                ELSE NewJob]
    /\ ended' = [ended EXCEPT ![j] = "retried"]
    /\ retried' = [retried EXCEPT ![j] = @ + 1]
    /\ UNCHANGED <<driver, run, aborted, scratch, sessions, device, cut, faults>>

-----------------------------------------------------------------------------
(* What happens by itself *)

\* PUBLISH_TIMEOUT_MS is over.
Abort ==
    /\ ~At("idle") /\ ~aborted
    /\ Fault
    /\ aborted' = TRUE
    /\ UNCHANGED <<driver, job, run, scratch, sessions, device, ended, cut, retried>>

\* The worker dies: the job is delivered again, which is no further attempt, or failed
\* by the stall limit.
Crash ==
    /\ ~At("idle")
    /\ Fault
    /\ \/ job' = [job EXCEPT ![run.job].waiting = TRUE, ![run.job].attempts = @ - 1]
       \/ job' = [job EXCEPT ![run.job].status = "failed"]
    /\ ended' = [ended EXCEPT ![run.job] = "crash"]
    /\ run' = Idle /\ aborted' = FALSE
    /\ pending' = {} /\ app' = NoApp /\ cut' = cut \cup {run.job}
    /\ UNCHANGED <<driver, scratch, sessions, files, gallery, posts, retried>>

\* appium:newCommandTimeout.
Expire(j) ==
    /\ j \in sessions
    /\ ~(run.session /\ run.job = j)
    /\ sessions' = sessions \ {j}
    /\ UNCHANGED <<driver, job, run, aborted, scratch, device, ended, cut, retried, faults>>

Init ==
    /\ driver \in Drivers
    /\ job = [j \in Jobs |-> NewJob]
    /\ run = Idle /\ aborted = FALSE
    /\ scratch = {} /\ sessions = {} /\ files = {} /\ pending = {}
    /\ rows = {} /\ latest = NoJob
    /\ app = NoApp /\ posts = <<>>
    /\ ended = [j \in Jobs |-> "never"]
    /\ cut = {} /\ retried = [j \in Jobs |-> 0] /\ faults = 0

Stages == Stage \/ Check \/ Acquire \/ Push \/ Scan
Drives == StartSession \/ Launch \/ RunFlow \/ Upload \/ Report
GivesBack == Close \/ RemoveFile \/ Release
Concludes == Record \/ RemoveScratch \/ HandleFailure \/ Finish
Queue == \E j \in Jobs : Deliver(j) \/ Skip(j) \/ Retry(j)
Phone == \E j \in Jobs : Index(j) \/ Expire(j)
Next ==
    \/ Queue \/ Stages \/ Drives \/ GivesBack \/ Concludes \/ Phone \/ Abort \/ Crash

Spec == Init /\ [][Next]_vars

-----------------------------------------------------------------------------
(* Properties *)

\* Type correctness: no job makes more attempts than it may, and a run is of a job
\* that is there (lib/worker/processJob.ts:406).
TypeOK ==
    /\ driver \in Drivers
    /\ job \in [Jobs -> Job]
    /\ run \in Run
    /\ aborted \in BOOLEAN
    /\ {scratch, sessions, files, cut} \subseteq SUBSET Jobs
    /\ rows \subseteq Jobs /\ latest \in Jobs \cup {NoJob} /\ pending \subseteq Jobs
    /\ app \in [picked : Jobs \cup {NoJob}, early : BOOLEAN, posted : BOOLEAN]
    /\ posts \in Seq([job : Jobs, video : Jobs, early : BOOLEAN])
    /\ ended \in [Jobs -> Ends] /\ retried \in [Jobs -> Nat]
    /\ faults \in 0 .. MaxFaults

PostsOf(j) == {i \in DOMAIN posts : posts[i].job = j}

\* No false green: a job that reads COMPLETED has posted, however the app ignored
\* taps, dialogs were missing or calls were lost on the way - given a flow that
\* asserts something only a post shows (uiFlow.ts:161, :70).
CompletedWasPosted ==
    \A j \in Jobs : job[j].status = "completed" => PostsOf(j) # {}

\* Why a job that has posted may do so again.
Excuses == {"transient", "crash", "masked", "retried"}

\* Nothing is posted twice after a success or a failure that is final: a job posts
\* again only in a run that follows one which ended transiently or died, one whose
\* outcome a later failure replaced - its record, the removal of its staging directory
\* (processJob.ts:228), handleFailure, or the release of its slot over a row that is
\* not COMPLETED - or a retry by hand (android.ts:302, publisher/errors.ts:2).
RepostOnlyAfterTransient ==
    [][\A j \in Jobs :
          PostsOf(j)' # PostsOf(j) /\ PostsOf(j) # {} => ended[j] \in Excuses]_vars

\* What goes out is the job's own video, whatever earlier runs left on the phone
\* and in its index - unless the app was quicker than the media scanner, which
\* nothing waits for (android.ts:218, device.ts:161).
PostsOwnVideo ==
    \A i \in DOMAIN posts : posts[i].video # posts[i].job => posts[i].early

\* A run that was neither killed nor refused a call of its cleaning up, and did not
\* fail between pushing the video and announcing it, leaves nothing of its job behind:
\* no session, no staging directory, no video on the phone - whatever failed before
\* (android.ts:612, processJob.ts:227).
LeavesNothing ==
    \A j \in Jobs \ (cut \cup {run.job}) : j \notin scratch \cup sessions \cup files
=============================================================================
