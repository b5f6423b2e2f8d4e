--------------------------- MODULE PublishingProofs --------------------------
(***************************************************************************)
(* Theorems about Publishing, for any jobs, any flow the schema accepts    *)
(* and any number of attempts and faults.                                  *)
(***************************************************************************)
EXTENDS Publishing, TLAPS

\* A job that waits has attempts left and is in no run; a run has spent an attempt.
Engaged ==
    /\ \A j \in Jobs : job[j].waiting =>
          job[j].attempts < MaxAttempts /\ (run.pc = "idle" \/ run.job # j)
    /\ run.pc # "idle" => run.job \in Jobs /\ job[run.job].attempts > 0
    /\ run.pc = "idle" => run = Idle

Typed == TypeOK /\ Engaged

\* Where a run holds the device with its app, and where it is on its way out.
OnPhone == {"push", "scan", "session", "launch", "flow"}
Leaving == {"report", "close", "remove", "release", "settle"}

\* What follows in the worker once the outcome of publish() is noted.
Concluding == {"tidy", "handle", "free"}

Posted(j) == PostsOf(j) # {}

\* The step shows that the app has posted.
Proves(i) == Flow[i].action = "assertVisible" /\ Flow[i].after

\* The flow has such a step, which uiFlowSchema does not ask for.
Proving == \E i \in DOMAIN Flow : Proves(i)

\* What a run that reports success has seen.
Green ==
    /\ \A j \in Jobs : job[j].status = "completed" => Posted(j)
    /\ run.pc \in Leaving /\ run.error = "none" => Posted(run.job)
    /\ run.pc \in OnPhone /\ app.posted => Posted(run.job)
    /\ run.pc = "flow" /\ (\E i \in 1 .. run.at - 1 : Proves(i)) => app.posted
    /\ run.pc \notin Leaving \cup Concluding \cup {"flow"} => run.at = 1

\* No run of the job is under way.
Apart(j) == run.pc = "idle" \/ run.job # j

\* The outcome of the run under way stands: a success that is recorded, or a failure
\* that is final.
Stands ==
    \/ run.error = "none" /\ run.pc # "handle" /\ job[run.job].status = "completed"
    \/ run.error = "permanent"

\* A job that has posted has a reason to do so again, will not be delivered, or only
\* to be skipped, or has posted in the run under way.
Once ==
    \A j \in Jobs : Posted(j) =>
        \/ ended[j] \in Excuses
        \/ Apart(j) /\ (job[j].waiting => job[j].status = "completed")
        \/ /\ ~Apart(j)
           /\ \/ run.pc \in OnPhone /\ app.posted
              \/ run.pc \in Leaving
              \/ run.pc \in Concluding /\ Stands

\* From the scan on, the gallery shows the job's own video first unless it has not
\* been scanned yet.
Own ==
    /\ PostsOwnVideo
    /\ pending # {} =>
          /\ run.pc \in {"session", "launch", "flow"} \cup (Leaving \ {"settle"})
          /\ pending = {run.job}
    /\ run.pc \in {"scan", "session", "launch", "flow"} => run.job \in files
    /\ run.pc \in {"session", "launch", "flow"} => run.job \in pending \/ latest = run.job
    /\ run.pc \in OnPhone /\ app.picked # NoJob => app.picked = run.job \/ app.early

\* What a run has of its job is in its locals, and goes as it gives things back.
Tidy ==
    /\ LeavesNothing
    /\ run.pc \in {"stage", "check", "upload", "acquire", "push", "scan"} => ~run.pushed
    /\ run.pc \in {"stage", "check", "upload", "acquire", "push", "scan", "session"}
          => ~run.session
    /\ run.pc # "idle" /\ run.job \notin cut =>
          /\ run.job \in files => run.pushed \/ run.pc = "scan"
          /\ run.job \in sessions => run.session
          /\ run.pc \in {"release", "settle"} \cup Concluding => run.job \notin files
          /\ run.pc \in {"remove", "release", "settle"} \cup Concluding
                => run.job \notin sessions
          /\ run.pc \in {"handle", "free"} => run.job \notin scratch

-----------------------------------------------------------------------------
(* What each step does, as far as the invariants look *)

Moved(pc, error) ==
    /\ run'.pc = pc /\ run'.error = error /\ run'.job = run.job /\ run'.at = run.at
Keeps == run'.session = run.session /\ run'.pushed = run.pushed
Failed(pc) == Keeps /\ \E error \in {"transient", "permanent"} : Moved(pc, error)

LEMMA Went == ASSUME TypeOK, NEW pc, Goto(pc) PROVE Moved(pc, run.error) /\ Keeps
BY DEF TypeOK, Run, Goto, Moved, Keeps

LEMMA Threw ==
    ASSUME TypeOK, NEW error, Throw(error)
    PROVE  Moved("report", error) /\ Keeps
BY DEF TypeOK, Run, Throw, Moved, Keeps

LEMMA Left ==
    ASSUME TypeOK, NEW error, Quit(error)
    PROVE  Moved("settle", error) /\ Keeps
BY DEF TypeOK, Run, Quit, Moved, Keeps

LEMMA Refused == ASSUME TypeOK, CallThrows PROVE Failed("report")
BY Threw DEF CallThrows, Failed

LEMMA StageAs ==
    ASSUME TypeOK, Stage
    PROVE  /\ run.pc = "stage" /\ Keeps
           /\ Moved("check", run.error) \/ Moved("settle", "transient")
           /\ scratch' = scratch \cup {run.job}
           /\ UNCHANGED <<job, sessions, device, ended, cut>>
BY Went, Left DEF Stage, At

LEMMA CheckAs ==
    ASSUME TypeOK, Check
    PROVE  /\ run.pc = "check"
           /\ \/ Keeps /\ (Moved("upload", run.error) \/ Moved("acquire", run.error))
              \/ Failed("settle")
           /\ UNCHANGED <<job, scratch, sessions, device, ended, cut>>
BY Went, Left DEF Check, At, Failed

LEMMA AcquireAs ==
    ASSUME TypeOK, Acquire
    PROVE  /\ run.pc = "acquire"
           /\ \/ Moved("push", run.error) /\ Keeps /\ app' = NoApp
              \/ Failed("report") /\ UNCHANGED app
           /\ UNCHANGED <<job, scratch, sessions, files, pending, posts, ended, cut>>
<1>1. ASSUME run' = [run EXCEPT !.pc = "push", !.held = TRUE]
      PROVE  Moved("push", run.error) /\ Keeps
  BY <1>1 DEF TypeOK, Run, Moved, Keeps
<1>. QED
  BY <1>1, Refused DEF Acquire, At

LEMMA PushAs ==
    ASSUME TypeOK, Push
    PROVE  /\ run.pc = "push" /\ Keeps
           /\ \/ /\ Moved("scan", run.error)
                 /\ files' = files \cup {run.job} /\ UNCHANGED cut
              \/ /\ Moved("report", "transient")
                 /\ files' = files \cup {run.job} /\ cut' = cut \cup {run.job}
              \/ Moved("report", "permanent") /\ files' = files \ {run.job} /\ UNCHANGED cut
              \/ Failed("report") /\ UNCHANGED <<files, cut>>
           /\ UNCHANGED <<job, scratch, sessions, gallery, pending, app, posts, ended>>
BY Went, Threw, Refused DEF Push, At, Failed

LEMMA ScanAs ==
    ASSUME TypeOK, Scan
    PROVE  /\ run.pc = "scan"
           /\ \/ /\ Moved("session", run.error) /\ run'.session = run.session /\ run'.pushed
                 /\ pending' = pending \cup {run.job} /\ UNCHANGED cut
              \/ Failed("report") /\ UNCHANGED pending /\ cut' = cut \cup {run.job}
           /\ UNCHANGED <<job, scratch, sessions, files, gallery, app, posts, ended>>
<1>1. ASSUME run' = [run EXCEPT !.pc = "session", !.pushed = TRUE]
      PROVE  Moved("session", run.error) /\ run'.session = run.session /\ run'.pushed
  BY <1>1 DEF TypeOK, Run, Moved
<1>2. CASE CallThrows
  <2>1. Failed("report") /\ run'.pc = "report"
    BY <1>2, Refused DEF Failed, Moved
  <2>. QED
    BY <1>1, <2>1 DEF Scan, At, Moved
<1>3. CASE ~CallThrows
  BY <1>1, <1>3 DEF Scan, At, Moved
<1>. QED
  BY <1>2, <1>3

LEMMA StartSessionAs ==
    ASSUME TypeOK, StartSession
    PROVE  /\ run.pc = "session" /\ run'.pushed = run.pushed
           /\ \/ /\ Moved("launch", run.error) /\ run'.session
                 /\ sessions' = sessions \cup {run.job} /\ UNCHANGED cut
              \/ Failed("report") /\ UNCHANGED <<sessions, cut>>
              \/ /\ Failed("report")
                 /\ sessions' = sessions \cup {run.job} /\ cut' = cut \cup {run.job}
           /\ UNCHANGED <<job, scratch, device, ended>>
<1>1. ASSUME run' = [run EXCEPT !.pc = "launch", !.session = TRUE]
      PROVE  Moved("launch", run.error) /\ run'.session /\ run'.pushed = run.pushed
  BY <1>1 DEF TypeOK, Run, Moved
<1>. QED
  BY <1>1, Threw, Refused DEF StartSession, At, Failed, Keeps

LEMMA LaunchAs ==
    ASSUME TypeOK, Launch
    PROVE  /\ run.pc = "launch"
           /\ \/ Moved("flow", run.error) /\ Keeps
              \/ Failed("report")
           /\ UNCHANGED <<job, scratch, sessions, device, ended, cut>>
BY Went, Refused DEF Launch, At

\* What the app may have made of a step.
Reacted ==
    \/ UNCHANGED <<app, posts>>
    \/ /\ latest # NoJob /\ app'.picked = latest /\ app'.early = (run.job \in pending)
       /\ app'.posted = app.posted /\ UNCHANGED posts
    \/ /\ app.picked \in files /\ ~app.posted /\ app'.posted
       /\ app'.picked = app.picked /\ app'.early = app.early
       /\ posts' = Append(posts, [job |-> run.job, video |-> app.picked,
                                  early |-> app.early])

LEMMA ReactAs == ASSUME TypeOK, React(CurrentStep) PROVE Reacted
BY DEF TypeOK, React, Reacted

LEMMA RunFlowAs ==
    ASSUME TypeOK, RunFlow
    PROVE  /\ run.pc = "flow"
           /\ \/ run.at > Len(Flow) /\ Moved("report", run.error) /\ Keeps
                   /\ UNCHANGED <<app, posts>>
              \/ Failed("report") /\ Reacted
              \/ /\ run'.pc = "flow" /\ run'.error = run.error /\ run'.job = run.job /\ Keeps
                 /\ run.at <= Len(Flow) /\ run'.at = run.at + 1
                 /\ Reacted /\ (Proves(run.at) => app'.posted)
           /\ UNCHANGED <<job, scratch, sessions, files, gallery, pending, ended, cut>>
<1>. USE DEF Failed
<1>1. ASSUME Proceed
      PROVE  /\ run'.pc = run.pc /\ run'.error = run.error /\ run'.job = run.job /\ Keeps
             /\ run'.at = run.at + 1
  BY <1>1 DEF TypeOK, Run, Proceed, Keeps
<1>2. UNCHANGED <<app, posts>> => Reacted
  BY DEF Reacted
<1>3. run.at \in Nat /\ Len(Flow) \in Nat
  BY FlowAssumption DEF TypeOK, Run
<1>4. /\ run.pc = "flow"
      /\ UNCHANGED <<job, scratch, sessions, files, gallery, pending, ended, cut>>
  BY DEF RunFlow, At
<1>5. CASE run.at > Len(Flow)
  BY <1>4, <1>5, Went DEF RunFlow
<1>6. CASE ~(run.at > Len(Flow))
  <2>1. CASE aborted /\ Throw("transient") /\ UNCHANGED <<app, posts>>
    BY <1>2, <1>4, <2>1, Threw
  <2>2. CASE Pause
    BY <1>1, <1>2, <1>3, <1>4, <1>6, <2>2 DEF Pause, CurrentStep, Proves
  <2>3. CASE WaitGone
    BY <1>1, <1>2, <1>3, <1>4, <1>6, <2>3, Threw DEF WaitGone, CurrentStep, Proves
  <2>4. CASE Interact
    <3>1. CASE Visible(CurrentStep) /\ React(CurrentStep) /\ Proceed
      <4>1. Proves(run.at) => app.posted
        BY <3>1 DEF Visible, CurrentStep, Proves
      <4>2. Reacted /\ (app.posted => app'.posted)
        BY <3>1, ReactAs DEF Reacted
      <4>. QED
        BY <1>1, <1>3, <1>4, <1>6, <3>1, <4>1, <4>2
    <3>2. CASE Tolerate(CurrentStep) /\ Proceed /\ UNCHANGED <<app, posts>>
      <4>1. ~Proves(run.at)
        BY <3>2 DEF Tolerate, CurrentStep, Proves
      <4>. QED
        BY <1>1, <1>2, <1>3, <1>4, <1>6, <3>2, <4>1
    <3>3. CASE \E e \in {"transient", "permanent"} :
                  Throw(e) /\ (UNCHANGED <<app, posts>> \/ React(CurrentStep))
      BY <1>2, <1>4, <3>3, Threw, ReactAs
    <3>. QED
      BY <2>4, <3>1, <3>2, <3>3 DEF Interact
  <2>. QED
    BY <1>6, <2>1, <2>2, <2>3, <2>4 DEF RunFlow
<1>. QED
  BY <1>5, <1>6

LEMMA UploadAs ==
    ASSUME TypeOK, Upload
    PROVE  /\ run.pc = "upload" /\ Keeps
           /\ \/ /\ Moved("settle", run.error) \/ Moved("settle", "transient")
                 /\ posts' = Append(posts, [job |-> run.job, video |-> run.job,
                                            early |-> FALSE])
              \/ Failed("settle") /\ UNCHANGED posts
           /\ UNCHANGED <<job, scratch, sessions, files, gallery, pending, app, ended, cut>>
BY Went, Left DEF Upload, At, Failed

LEMMA ReportAs ==
    ASSUME TypeOK, Report
    PROVE  /\ run.pc = "report" /\ Moved("close", run.error) /\ Keeps
           /\ UNCHANGED <<job, scratch, sessions, device, ended, cut>>
BY Went DEF Report, At

LEMMA CloseAs ==
    ASSUME TypeOK, Close
    PROVE  /\ run.pc = "close" /\ Moved("remove", run.error) /\ Keeps
           /\ \/ run.session /\ sessions' = sessions \ {run.job} /\ UNCHANGED cut
              \/ ~run.session /\ UNCHANGED <<sessions, cut>>
              \/ cut' = cut \cup {run.job} /\ UNCHANGED sessions
           /\ UNCHANGED <<job, scratch, device, ended>>
BY Went DEF Close, At

LEMMA RemoveFileAs ==
    ASSUME TypeOK, RemoveFile
    PROVE  /\ run.pc = "remove" /\ Moved("release", run.error) /\ Keeps
           /\ \/ run.pushed /\ files' = files \ {run.job} /\ UNCHANGED cut
              \/ ~run.pushed /\ UNCHANGED <<files, cut>>
              \/ cut' = cut \cup {run.job} /\ UNCHANGED files
           /\ UNCHANGED <<job, scratch, sessions, gallery, pending, app, posts, ended>>
BY Went DEF RemoveFile, At

LEMMA ReleaseAs ==
    ASSUME TypeOK, Release
    PROVE  /\ run.pc = "release" /\ Moved("settle", run.error) /\ Keeps
           /\ pending' = {} /\ app' = NoApp
           /\ UNCHANGED <<job, scratch, sessions, files, gallery, posts, ended, cut>>
BY DEF Release, At, TypeOK, Run, Moved, Keeps
\* The outcome of the run becomes this, and the job's history that.
Replaced(pc, end) == Moved(pc, "transient") /\ ended' = [ended EXCEPT ![run.job] = end]

LEMMA MaskedAs ==
    ASSUME TypeOK, NEW pc, run' = [run EXCEPT !.pc = pc, !.error = "transient"]
    PROVE  Moved(pc, "transient") /\ Keeps
BY DEF TypeOK, Run, Moved, Keeps

LEMMA RecordAs ==
    ASSUME TypeOK, Record
    PROVE  /\ run.pc = "settle" /\ Keeps
           /\ \/ /\ run.error = "none" /\ Moved("tidy", "none")
                 /\ job' = [job EXCEPT ![run.job].status = "completed"]
                 /\ ended' = [ended EXCEPT ![run.job] = "none"]
              \/ Replaced("tidy", "masked") /\ UNCHANGED job
              \/ /\ run.error # "none" /\ Moved("tidy", run.error)
                 /\ ended' = [ended EXCEPT ![run.job] = run.error] /\ UNCHANGED job
           /\ UNCHANGED <<scratch, sessions, device, cut>>
<1>1. CASE run' = [run EXCEPT !.pc = "tidy", !.error = "transient"]
  BY <1>1, MaskedAs, Went DEF Record, At, Replaced
<1>2. CASE Goto("tidy")
  <2>1. Moved("tidy", run.error) /\ Keeps
    BY <1>2, Went
  <2>2. CASE run.error = "none" /\ job' = [job EXCEPT ![run.job].status = "completed"]
               /\ ended' = [ended EXCEPT ![run.job] = "none"]
    BY <2>1, <2>2 DEF Record, At
  <2>3. CASE run.error # "none" /\ ended' = [ended EXCEPT ![run.job] = run.error]
               /\ UNCHANGED job
    BY <2>1, <2>3 DEF Record, At
  <2>4. CASE run' = [run EXCEPT !.pc = "tidy", !.error = "transient"]
    BY <1>1, <2>4
  <2>. QED
    BY <2>2, <2>3, <2>4 DEF Record
<1>. QED
  BY <1>1, <1>2 DEF Record

LEMMA RemoveScratchAs ==
    ASSUME TypeOK, RemoveScratch
    PROVE  /\ run.pc = "tidy" /\ Keeps
           /\ \/ /\ \/ run.error = "none" /\ Moved("free", "none")
                    \/ run.error # "none" /\ Moved("handle", run.error)
                 /\ scratch' = scratch \ {run.job} /\ UNCHANGED <<ended, cut>>
              \/ /\ Replaced("handle", "masked")
                 /\ cut' = cut \cup {run.job} /\ UNCHANGED scratch
           /\ UNCHANGED <<job, sessions, device>>
BY MaskedAs, Went DEF RemoveScratch, At, Replaced, Moved

LEMMA HandleFailureAs ==
    ASSUME TypeOK, HandleFailure
    PROVE  /\ run.pc = "handle" /\ Keeps
           /\ \/ /\ Moved("free", run.error) /\ UNCHANGED ended
                 /\ \E s \in {"failed", "queued"} : job' = [job EXCEPT ![run.job].status = s]
              \/ Replaced("free", "masked") /\ UNCHANGED job
           /\ UNCHANGED <<scratch, sessions, device, cut>>
BY MaskedAs, Went DEF HandleFailure, At, Replaced

LEMMA FinishAs ==
    ASSUME TypeOK, Finish
    PROVE  /\ run.pc = "free" /\ run' = Idle
           /\ \/ /\ job' = [job EXCEPT ![run.job] = Finished(run.error, job[run.job])]
                 /\ UNCHANGED ended
              \/ /\ job' = [job EXCEPT ![run.job] = Finished("transient", job[run.job])]
                 /\ \/ ended' = [ended EXCEPT ![run.job] = "masked"]
                    \/ job[run.job].status = "completed" /\ UNCHANGED ended
           /\ UNCHANGED <<scratch, sessions, device, cut>>
BY DEF Finish, At

Statuses == {"queued", "running", "completed", "failed"}

\* A write of the row's status touches nothing else.
LEMMA Written ==
    ASSUME TypeOK, NEW j \in Jobs, NEW s \in Statuses, job' = [job EXCEPT ![j].status = s]
    PROVE  /\ job' \in [Jobs -> Job]
           /\ job'[j].status = s /\ job'[j].waiting = job[j].waiting
           /\ job'[j].attempts = job[j].attempts
           /\ \A k \in Jobs \ {j} : job'[k] = job[k]
<1>1. job \in [Jobs -> Job] /\ job[j] \in Job
  BY DEF TypeOK
<1>2. /\ [job[j] EXCEPT !.status = s] \in Job
      /\ [job[j] EXCEPT !.status = s].status = s
      /\ [job[j] EXCEPT !.status = s].waiting = job[j].waiting
      /\ [job[j] EXCEPT !.status = s].attempts = job[j].attempts
  BY <1>1 DEF Job, Statuses
<1>3. job' = [job EXCEPT ![j] = [job[j] EXCEPT !.status = s]]
  OBVIOUS
<1>. QED
  BY <1>1, <1>2, <1>3

\* What recordPublished and handleFailure may write.
LEMMA Writes ==
    ASSUME TypeOK, Record \/ HandleFailure, run.pc # "idle" => run.job \in Jobs
    PROVE  /\ run.job \in Jobs
           /\ \/ UNCHANGED job
              \/ \E s \in {"completed", "failed", "queued"} :
                    /\ job' = [job EXCEPT ![run.job].status = s]
                    /\ s = "completed" => Record
BY RecordAs, HandleFailureAs

LEMMA Settled ==
    ASSUME TypeOK, Record \/ HandleFailure, run.pc # "idle" => run.job \in Jobs
    PROVE  /\ job' \in [Jobs -> Job] /\ run.job \in Jobs
           /\ \A k \in Jobs : /\ job'[k].waiting = job[k].waiting
                              /\ job'[k].attempts = job[k].attempts
           /\ \A k \in Jobs \ {run.job} : job'[k] = job[k]
           /\ HandleFailure => \A k \in Jobs :
                 job'[k].status = "completed" => job[k].status = "completed"
<1>1. CASE UNCHANGED job
  BY <1>1, Writes DEF TypeOK
<1>2. ASSUME NEW s \in {"completed", "failed", "queued"},
             job' = [job EXCEPT ![run.job].status = s], s = "completed" => Record
      PROVE  /\ job' \in [Jobs -> Job] /\ run.job \in Jobs
             /\ \A k \in Jobs : /\ job'[k].waiting = job[k].waiting
                                /\ job'[k].attempts = job[k].attempts
             /\ \A k \in Jobs \ {run.job} : job'[k] = job[k]
             /\ HandleFailure => \A k \in Jobs :
                   job'[k].status = "completed" => job[k].status = "completed"
  <2>1. run.job \in Jobs /\ s \in Statuses
    BY <1>2, Writes DEF Statuses
  <2>2. HandleFailure => s # "completed"
    BY <1>2 DEF Record, HandleFailure, At
  <2>. QED
    BY <1>2, <2>1, <2>2, Written
<1>. QED
  BY <1>1, <1>2, Writes

\* BullMQ's end of a delivery, and the worker's death, leave a job of the right shape,
\* which waits only with attempts left.
LEMMA FinishedTyped ==
    ASSUME NEW record \in Job, NEW error
    PROVE  /\ Finished(error, record) \in Job
           /\ ~record.waiting /\ Finished(error, record).waiting =>
                 /\ Finished(error, record).attempts < MaxAttempts
                 /\ error \notin {"none", "permanent"}
           /\ ~record.waiting /\ Finished(error, record).waiting =>
                 Finished(error, record).status = record.status
           /\ Finished(error, record).status \in {record.status, "failed"}
<1>1. CASE error = "none"
  BY <1>1 DEF Finished
<1>2. CASE error # "none" /\ Final(error, record.attempts)
  <2>1. Finished(error, record) = [record EXCEPT !.status = "failed"]
    BY <1>2 DEF Finished
  <2>2. /\ [record EXCEPT !.status = "failed"] \in Job
        /\ [record EXCEPT !.status = "failed"].waiting = record.waiting
        /\ [record EXCEPT !.status = "failed"].status = "failed"
    BY DEF Job
  <2>. QED
    BY <1>2, <2>1, <2>2
<1>3. CASE error # "none" /\ ~Final(error, record.attempts)
  <2>1. Finished(error, record) = [record EXCEPT !.waiting = TRUE]
    BY <1>3 DEF Finished
  <2>2. /\ [record EXCEPT !.waiting = TRUE] \in Job
        /\ [record EXCEPT !.waiting = TRUE].attempts = record.attempts
        /\ [record EXCEPT !.waiting = TRUE].status = record.status
    BY DEF Job
  <2>3. record.attempts < MaxAttempts /\ error # "permanent"
    BY <1>3, BoundAssumption DEF Final, Job
  <2>. QED
    BY <1>3, <2>1, <2>2, <2>3
<1>. QED
  BY <1>1, <1>2, <1>3

-----------------------------------------------------------------------------
(* Types *)

LEMMA FaultTyped ==
    ASSUME TypeOK, CallFails \/ CallThrows \/ Fault
    PROVE  faults' \in 0 .. MaxFaults
BY BoundAssumption DEF TypeOK, CallFails, CallThrows, Fault

LEMMA WentTyped == ASSUME TypeOK, NEW pc \in Pcs, Goto(pc) PROVE run' \in Run
BY DEF TypeOK, Run, Goto

LEMMA ThrewTyped == ASSUME TypeOK, NEW e \in Errors, Throw(e) PROVE run' \in Run
BY DEF TypeOK, Run, Throw, Pcs

LEMMA LeftTyped == ASSUME TypeOK, NEW e \in Errors, Quit(e) PROVE run' \in Run
BY DEF TypeOK, Run, Quit, Pcs

LEMMA RefusedTyped ==
    ASSUME TypeOK, CallThrows PROVE run' \in Run /\ faults' \in 0 .. MaxFaults
BY ThrewTyped, FaultTyped DEF CallThrows, Errors

LEMMA IdleTyped == Idle \in Run
<1>1. 1 \in 1 .. Len(Flow) + 1
  BY FlowAssumption
<1>. QED
  BY <1>1 DEF Run, Idle, Pcs, Errors

LEMMA NoAppTyped == NoApp \in [picked : Jobs \cup {NoJob}, early : BOOLEAN, posted : BOOLEAN]
BY DEF NoApp

\* The death of a worker, for its job.
LEMMA CrashAs ==
    ASSUME Typed, Crash
    PROVE  /\ run.job \in Jobs /\ run.pc # "idle" /\ run' = Idle
           /\ \A j \in Jobs \ {run.job} : job'[j] = job[j]
           /\ job' \in [Jobs -> Job]
           /\ job'[run.job].waiting => job'[run.job].attempts < MaxAttempts
           /\ job'[run.job].status \in {job[run.job].status, "failed"}
<1>1. /\ run.job \in Jobs /\ run.pc # "idle" /\ run' = Idle /\ job \in [Jobs -> Job]
      /\ job[run.job].attempts > 0 /\ ~job[run.job].waiting
  BY DEF Typed, TypeOK, Engaged, Crash, At
<1>2. CASE job' = [job EXCEPT ![run.job].waiting = TRUE,
                              ![run.job].attempts = job[run.job].attempts - 1]
  <2>1. job[run.job].attempts - 1 \in 0 .. MaxAttempts /\ job[run.job].attempts <= MaxAttempts
    BY <1>1, BoundAssumption DEF Job
  <2>. QED
    BY <1>1, <1>2, <2>1, BoundAssumption DEF Job
<1>3. CASE job' = [job EXCEPT ![run.job].status = "failed"]
  BY <1>1, <1>3 DEF Job
<1>. QED
  BY <1>2, <1>3 DEF Crash

LEMMA ReactedTyped ==
    ASSUME TypeOK, run.job \in Jobs, Reacted, app' = app \/ React(CurrentStep)
    PROVE  /\ app' \in [picked : Jobs \cup {NoJob}, early : BOOLEAN, posted : BOOLEAN]
           /\ posts' \in Seq([job : Jobs, video : Jobs, early : BOOLEAN])
<1>. DEFINE Apps == [picked : Jobs \cup {NoJob}, early : BOOLEAN, posted : BOOLEAN]
            Posts == Seq([job : Jobs, video : Jobs, early : BOOLEAN])
<1>0. app \in Apps /\ posts \in Posts /\ files \subseteq Jobs
      /\ latest \in Jobs \cup {NoJob}
  BY DEF TypeOK
<1>1. app' \in Apps
  <2>1. ASSUME app' = [app EXCEPT !.picked = latest, !.early = run.job \in pending]
        PROVE  app' \in Apps
    <3>1. (run.job \in pending) \in BOOLEAN
      OBVIOUS
    <3>. QED
      BY <1>0, <2>1, <3>1
  <2>2. ASSUME app' = [app EXCEPT !.posted = TRUE] PROVE app' \in Apps
    BY <1>0, <2>2
  <2>. QED
    BY <1>0, <2>1, <2>2 DEF React
<1>2. CASE UNCHANGED posts
  BY <1>0, <1>1, <1>2
<1>3. CASE /\ app.picked \in files
           /\ posts' = Append(posts, [job |-> run.job, video |-> app.picked,
                                      early |-> app.early])
  <2>1. [job |-> run.job, video |-> app.picked, early |-> app.early]
            \in [job : Jobs, video : Jobs, early : BOOLEAN]
    BY <1>0, <1>3
  <2>. QED
    BY <1>0, <1>1, <1>3, <2>1
<1>. QED
  BY <1>1, <1>2, <1>3 DEF Reacted

LEMMA FlowTyped == ASSUME TypeOK, RunFlow PROVE run' \in Run
<1>1. ASSUME ~(run.at > Len(Flow)), Proceed PROVE run' \in Run
  <2>1. run.at + 1 \in 1 .. Len(Flow) + 1
    BY <1>1, FlowAssumption DEF TypeOK, Run
  <2>2. run' = [run EXCEPT !.at = run.at + 1]
    BY <1>1 DEF Proceed
  <2>. QED
    BY <2>1, <2>2 DEF TypeOK, Run
<1>2. Goto("report") => run' \in Run
  BY WentTyped DEF Pcs
<1>3. \A e \in {"transient", "permanent"} : Throw(e) => run' \in Run
  BY ThrewTyped DEF Errors
<1>. QED
  BY <1>1, <1>2, <1>3 DEF RunFlow, Interact, WaitGone, Pause

LEMMA TypeNext == Typed /\ [Next]_vars => TypeOK'
<1> SUFFICES ASSUME Typed, [Next]_vars PROVE TypeOK'
  OBVIOUS
<1>. USE DEF device, gallery
<1>0. /\ TypeOK /\ (run.pc # "idle" => run.job \in Jobs)
      /\ \A j \in Jobs : job[j].waiting => job[j].attempts < MaxAttempts
  BY DEF Typed, Engaged
<1>1. ASSUME NEW j \in Jobs, Deliver(j) PROVE TypeOK'
  <2>1. run' \in Run
    <3>1. run' = [Idle EXCEPT !.pc = "stage", !.job = j]
      BY <1>1 DEF Deliver
    <3>. QED
      BY <3>1, IdleTyped DEF Run, Pcs
  <2>2. job' \in [Jobs -> Job]
    <3>1. job[j].attempts + 1 \in 0 .. MaxAttempts
      BY <1>0, <1>1, BoundAssumption DEF Deliver, TypeOK, Job
    <3>2. job' = [job EXCEPT ![j] = [status |-> "running", waiting |-> FALSE,
                                     attempts |-> job[j].attempts + 1]]
      BY <1>1 DEF Deliver
    <3>. QED
      BY <1>0, <3>1, <3>2 DEF TypeOK, Job
  <2>. QED
    BY <1>0, <1>1, <2>1, <2>2 DEF Deliver, TypeOK
<1>2. CASE Stage
  BY <1>0, <1>2, WentTyped, LeftTyped, FaultTyped DEF Stage, At, TypeOK, Pcs, Errors
<1>3. CASE Check
  BY <1>0, <1>3, WentTyped, LeftTyped, FaultTyped DEF Check, TypeOK, Pcs, Errors
<1>4. CASE Acquire
  <2>1. ASSUME run' = [run EXCEPT !.pc = "push", !.held = TRUE] PROVE run' \in Run
    BY <1>0, <2>1 DEF TypeOK, Run, Pcs
  <2>2. run' \in Run /\ faults' \in 0 .. MaxFaults
    BY <1>0, <1>4, <2>1, RefusedTyped DEF Acquire, TypeOK
  <2>3. rows' \subseteq Jobs /\ latest' \in Jobs \cup {NoJob}
    BY <1>0, <1>4 DEF Acquire, TypeOK
  <2>4. app' \in [picked : Jobs \cup {NoJob}, early : BOOLEAN, posted : BOOLEAN]
    <3>1. app' = NoApp \/ app' = app
      BY <1>4 DEF Acquire
    <3>. QED
      BY <1>0, <3>1, NoAppTyped DEF TypeOK
  <2>. QED
    BY <1>0, <1>4, <2>2, <2>3, <2>4 DEF Acquire, TypeOK
<1>5. CASE Push
  <2>1. run' \in Run /\ faults' \in 0 .. MaxFaults
    BY <1>0, <1>5, WentTyped, ThrewTyped, RefusedTyped, FaultTyped
    DEF Push, TypeOK, Pcs, Errors
  <2>. QED
    BY <1>0, <1>5, <2>1 DEF Push, At, TypeOK
<1>6. CASE Scan
  <2>1. ASSUME run' = [run EXCEPT !.pc = "session", !.pushed = TRUE] PROVE run' \in Run
    BY <1>0, <2>1 DEF TypeOK, Run, Pcs
  <2>2. run' \in Run /\ faults' \in 0 .. MaxFaults
    BY <1>0, <1>6, <2>1, RefusedTyped DEF Scan, TypeOK
  <2>3. cut' \subseteq Jobs /\ pending' \subseteq Jobs
    BY <1>0, <1>6 DEF Scan, At, TypeOK
  <2>. QED
    BY <1>0, <1>6, <2>2, <2>3 DEF Scan, TypeOK
<1>7. CASE StartSession
  <2>1. ASSUME run' = [run EXCEPT !.pc = "launch", !.session = TRUE] PROVE run' \in Run
    BY <1>0, <2>1 DEF TypeOK, Run, Pcs
  <2>2. run' \in Run /\ faults' \in 0 .. MaxFaults
    BY <1>0, <1>7, <2>1, ThrewTyped, RefusedTyped, FaultTyped
    DEF StartSession, TypeOK, Errors
  <2>3. cut' \subseteq Jobs /\ sessions' \subseteq Jobs
    BY <1>0, <1>7 DEF StartSession, At, TypeOK
  <2>. QED
    BY <1>0, <1>7, <2>2, <2>3 DEF StartSession, TypeOK
<1>8. CASE Launch
  BY <1>0, <1>8, WentTyped, RefusedTyped DEF Launch, TypeOK, Pcs
<1>9. CASE RunFlow
  <2>1. run.job \in Jobs /\ Reacted
    BY <1>0, <1>9, RunFlowAs DEF Reacted
  <2>2. /\ app' \in [picked : Jobs \cup {NoJob}, early : BOOLEAN, posted : BOOLEAN]
        /\ posts' \in Seq([job : Jobs, video : Jobs, early : BOOLEAN])
    BY <1>0, <1>9, <2>1, ReactedTyped DEF RunFlow, Interact, WaitGone, Pause
  <2>3. run' \in Run
    BY <1>0, <1>9, FlowTyped
  <2>4. faults' \in 0 .. MaxFaults
    BY <1>0, <1>9, FaultTyped DEF RunFlow, Interact, WaitGone, Pause, TypeOK
  <2>. QED
    BY <1>0, <1>9, <2>2, <2>3, <2>4 DEF RunFlow, TypeOK
<1>10. CASE Upload
  <2>1. run' \in Run /\ faults' \in 0 .. MaxFaults
    BY <1>0, <1>10, WentTyped, LeftTyped, FaultTyped DEF Upload, TypeOK, Pcs, Errors
  <2>2. posts' \in Seq([job : Jobs, video : Jobs, early : BOOLEAN])
    <3>1. [job |-> run.job, video |-> run.job, early |-> FALSE]
              \in [job : Jobs, video : Jobs, early : BOOLEAN]
      BY <1>0, <1>10, UploadAs
    <3>2. \/ UNCHANGED posts
          \/ posts' = Append(posts, [job |-> run.job, video |-> run.job, early |-> FALSE])
      BY <1>10 DEF Upload
    <3>3. posts \in Seq([job : Jobs, video : Jobs, early : BOOLEAN])
      BY <1>0 DEF TypeOK
    <3>4. CASE UNCHANGED posts
      BY <3>3, <3>4
    <3>5. CASE posts' = Append(posts, [job |-> run.job, video |-> run.job, early |-> FALSE])
      BY <3>1, <3>3, <3>5
    <3>. QED
      BY <3>2, <3>4, <3>5
  <2>. QED
    BY <1>0, <1>10, <2>1, <2>2 DEF Upload, TypeOK
<1>11. CASE Report
  BY <1>0, <1>11, WentTyped DEF Report, TypeOK, Pcs
<1>12. CASE Close
  BY <1>0, <1>12, WentTyped, FaultTyped DEF Close, At, TypeOK, Pcs
<1>13. CASE RemoveFile
  BY <1>0, <1>13, WentTyped, FaultTyped DEF RemoveFile, At, TypeOK, Pcs
<1>14. CASE Release
  <2>1. ASSUME run' = [run EXCEPT !.pc = "settle", !.held = FALSE] PROVE run' \in Run
    BY <1>0, <2>1 DEF TypeOK, Run, Pcs
  <2>. QED
    BY <1>0, <1>14, <2>1, NoAppTyped DEF Release, TypeOK
<1>15. CASE Record
  <2>1. run' \in Run
    <3>1. ASSUME run' = [run EXCEPT !.pc = "tidy", !.error = "transient"] PROVE run' \in Run
      BY <1>0, <3>1 DEF TypeOK, Run, Pcs, Errors
    <3>2. Goto("tidy") => run' \in Run
      BY <1>0, WentTyped DEF Pcs
    <3>. QED
      BY <1>15, <3>1, <3>2 DEF Record
  <2>2. job' \in [Jobs -> Job]
    BY <1>0, <1>15, Settled
  <2>3. ended' \in [Jobs -> Ends]
    <3>1. run.error \in Ends /\ "none" \in Ends /\ "masked" \in Ends
      BY <1>0 DEF TypeOK, Run, Ends, Errors
    <3>. QED
      BY <1>0, <1>15, <3>1 DEF Record, TypeOK
  <2>. QED
    BY <1>0, <1>15, <2>1, <2>2, <2>3, FaultTyped DEF Record, TypeOK
<1>16. ASSUME NEW j \in Jobs, Index(j) PROVE TypeOK'
  BY <1>0, <1>16 DEF Index, TypeOK
<1>17. ASSUME NEW j \in Jobs, Expire(j) PROVE TypeOK'
  BY <1>0, <1>17 DEF Expire, TypeOK
<1>18. CASE Abort
  BY <1>0, <1>18, FaultTyped DEF Abort, TypeOK
<1>19. CASE Crash
  <2>1. job' \in [Jobs -> Job] /\ run' = Idle /\ run.job \in Jobs
    BY <1>19, CrashAs
  <2>2. run' \in Run /\ faults' \in 0 .. MaxFaults
    BY <1>0, <1>19, <2>1, IdleTyped, FaultTyped DEF Crash
  <2>3. ended' \in [Jobs -> Ends]
    BY <1>0, <1>19 DEF Crash, TypeOK, Ends
  <2>4. app' \in [picked : Jobs \cup {NoJob}, early : BOOLEAN, posted : BOOLEAN]
    BY <1>19, NoAppTyped DEF Crash
  <2>5. /\ UNCHANGED <<driver, scratch, sessions, files, gallery, posts, retried>>
        /\ aborted' = FALSE /\ pending' = {} /\ cut' \subseteq Jobs
    BY <1>0, <1>19, <2>1 DEF Crash, TypeOK
  <2>. QED
    BY <1>0, <2>1, <2>2, <2>3, <2>4, <2>5 DEF TypeOK
<1>20. CASE UNCHANGED vars
  BY <1>0, <1>20 DEF vars, TypeOK
<1>21. ASSUME NEW j \in Jobs, Skip(j) PROVE TypeOK'
  <2>1. job' \in [Jobs -> Job]
    BY <1>0, <1>21 DEF Skip, TypeOK, Job
  <2>. QED
    BY <1>0, <1>21, <2>1 DEF Skip, TypeOK
<1>22. ASSUME NEW j \in Jobs, Retry(j) PROVE TypeOK'
  <2>1. job' \in [Jobs -> Job]
    <3>1. NewJob \in Job
      BY BoundAssumption DEF NewJob, Job
    <3>2. [job[j] EXCEPT !.status = "queued"] \in Job
      <4>1. job[j] \in Job
        BY <1>0 DEF TypeOK
      <4>. QED
        BY <4>1 DEF Job
    <3>. QED
      BY <1>0, <1>22, <3>1, <3>2 DEF Retry, TypeOK
  <2>2. ended' \in [Jobs -> Ends] /\ retried' \in [Jobs -> Nat]
    BY <1>0, <1>22 DEF Retry, TypeOK, Ends
  <2>. QED
    BY <1>0, <1>22, <2>1, <2>2 DEF Retry, TypeOK
<1>23. CASE RemoveScratch
  <2>1. run' \in Run
    <3>1. ASSUME run' = [run EXCEPT !.pc = "handle", !.error = "transient"] PROVE run' \in Run
      BY <1>0, <3>1 DEF TypeOK, Run, Pcs, Errors
    <3>2. Goto("free") \/ Goto("handle") => run' \in Run
      BY <1>0, WentTyped DEF Pcs
    <3>. QED
      BY <1>23, <3>1, <3>2 DEF RemoveScratch
  <2>2. ended' \in [Jobs -> Ends]
    BY <1>0, <1>23 DEF RemoveScratch, TypeOK, Ends
  <2>3. scratch' \subseteq Jobs /\ cut' \subseteq Jobs
    BY <1>0, <1>23 DEF RemoveScratch, At, TypeOK
  <2>. QED
    BY <1>0, <1>23, <2>1, <2>2, <2>3, FaultTyped DEF RemoveScratch, TypeOK
<1>24. CASE HandleFailure
  <2>1. run' \in Run
    <3>1. ASSUME run' = [run EXCEPT !.pc = "free", !.error = "transient"] PROVE run' \in Run
      BY <1>0, <3>1 DEF TypeOK, Run, Pcs, Errors
    <3>2. Goto("free") => run' \in Run
      BY <1>0, WentTyped DEF Pcs
    <3>. QED
      BY <1>24, <3>1, <3>2 DEF HandleFailure
  <2>2. job' \in [Jobs -> Job]
    BY <1>0, <1>24, Settled
  <2>3. ended' \in [Jobs -> Ends]
    BY <1>0, <1>24 DEF HandleFailure, TypeOK, Ends
  <2>. QED
    BY <1>0, <1>24, <2>1, <2>2, <2>3, FaultTyped DEF HandleFailure, TypeOK
<1>25. CASE Finish
  <2>1. job' \in [Jobs -> Job]
    <3>1. job \in [Jobs -> Job] /\ run.job \in Jobs
      BY <1>0, <1>25 DEF Finish, At, TypeOK
    <3>2. \E e : job' = [job EXCEPT ![run.job] = Finished(e, job[run.job])]
      BY <1>0, <1>25, FinishAs
    <3>. QED
      BY <3>1, <3>2, FinishedTyped
  <2>2. ended' \in [Jobs -> Ends]
    BY <1>0, <1>25, FinishAs DEF TypeOK, Ends
  <2>. QED
    BY <1>0, <1>25, <2>1, <2>2, IdleTyped, FaultTyped DEF Finish, TypeOK
<1>. QED
  BY <1>1, <1>2, <1>3, <1>4, <1>5, <1>6, <1>7, <1>8, <1>9, <1>10, <1>11, <1>12, <1>13, <1>14,
     <1>15, <1>16, <1>17, <1>18, <1>19, <1>20, <1>21, <1>22, <1>23, <1>24, <1>25
  DEF Next, Queue, Stages, Drives, GivesBack, Concludes, Phone

LEMMA EngagedNext == Typed /\ [Next]_vars => Engaged'
<1> SUFFICES ASSUME Typed, [Next]_vars PROVE Engaged'
  OBVIOUS
<1>0. TypeOK /\ Engaged
  BY DEF Typed
<1>1. ASSUME NEW j \in Jobs, Deliver(j) PROVE Engaged'
  BY <1>0, <1>1, NoJobAssumption DEF Deliver, At, Idle, Engaged, TypeOK, Job
<1>2. CASE Stage
  BY <1>0, <1>2, StageAs DEF Moved, Engaged
<1>3. CASE Check
  BY <1>0, <1>3, CheckAs DEF Moved, Failed, Engaged
<1>4. CASE Acquire
  BY <1>0, <1>4, AcquireAs DEF Moved, Failed, Engaged, NoApp
<1>5. CASE Push
  BY <1>0, <1>5, PushAs DEF Moved, Failed, Engaged
<1>6. CASE Scan
  BY <1>0, <1>6, ScanAs DEF Moved, Failed, Engaged
<1>7. CASE StartSession
  BY <1>0, <1>7, StartSessionAs DEF Moved, Failed, Engaged
<1>8. CASE Launch
  BY <1>0, <1>8, LaunchAs DEF Moved, Failed, Engaged
<1>9. CASE RunFlow
  BY <1>0, <1>9, RunFlowAs DEF Moved, Failed, Engaged
<1>10. CASE Upload
  BY <1>0, <1>10, UploadAs DEF Moved, Failed, Engaged
<1>11. CASE Report
  BY <1>0, <1>11, ReportAs DEF Moved, Engaged
<1>12. CASE Close
  BY <1>0, <1>12, CloseAs DEF Moved, Engaged
<1>13. CASE RemoveFile
  BY <1>0, <1>13, RemoveFileAs DEF Moved, Engaged
<1>14. CASE Release
  BY <1>0, <1>14, ReleaseAs DEF Moved, Engaged, NoApp
<1>15. CASE Record
  BY <1>0, <1>15, RecordAs, Settled DEF Moved, Replaced, Engaged
<1>16. ASSUME NEW j \in Jobs, Index(j) PROVE Engaged'
  BY <1>0, <1>16, NoJobAssumption DEF Index, Engaged, TypeOK
<1>17. ASSUME NEW j \in Jobs, Expire(j) PROVE Engaged'
  BY <1>0, <1>17, NoJobAssumption DEF Expire, Engaged, TypeOK
<1>18. CASE Abort
  BY <1>0, <1>18, NoJobAssumption DEF Abort, At, Engaged, TypeOK
<1>19. CASE Crash
  BY <1>0, <1>19, CrashAs DEF Idle, Engaged
<1>20. CASE UNCHANGED vars
  BY <1>0, <1>20 DEF vars, Engaged
<1>21. ASSUME NEW j \in Jobs, Skip(j) PROVE Engaged'
  BY <1>0, <1>21 DEF Skip, At, Engaged, TypeOK, Job
<1>22. ASSUME NEW j \in Jobs, Retry(j) PROVE Engaged'
  <2>1. CASE run.job = j
    BY <1>0, <1>22, <2>1 DEF Retry, Engaged, TypeOK, Job
  <2>2. CASE run.job # j
    BY <1>0, <1>22, <2>2, BoundAssumption DEF Retry, NewJob, Engaged, TypeOK, Job
  <2>. QED
    BY <2>1, <2>2
<1>23. CASE RemoveScratch
  BY <1>0, <1>23, RemoveScratchAs DEF Moved, Replaced, Engaged
<1>24. CASE HandleFailure
  BY <1>0, <1>24, HandleFailureAs, Settled DEF Moved, Replaced, Engaged
<1>25. CASE Finish
  <2>1. run.job \in Jobs /\ job[run.job] \in Job /\ ~job[run.job].waiting
    BY <1>0, <1>25, FinishAs DEF Engaged, TypeOK
  <2>2. PICK e : job' = [job EXCEPT ![run.job] = Finished(e, job[run.job])]
    BY <1>0, <1>25, FinishAs
  <2>. QED
    BY <1>0, <1>25, <2>1, <2>2, FinishAs, FinishedTyped DEF Engaged, Idle, TypeOK
<1>. QED
  BY <1>1, <1>2, <1>3, <1>4, <1>5, <1>6, <1>7, <1>8, <1>9, <1>10, <1>11, <1>12, <1>13, <1>14,
     <1>15, <1>16, <1>17, <1>18, <1>19, <1>20, <1>21, <1>22, <1>23, <1>24, <1>25
  DEF Next, Queue, Stages, Drives, GivesBack, Concludes, Phone

-----------------------------------------------------------------------------
(* What has been posted *)

LEMMA SamePosts ==
    ASSUME UNCHANGED posts
    PROVE  \A j : PostsOf(j)' = PostsOf(j) /\ (Posted(j)' <=> Posted(j))
BY DEF Posted, PostsOf

LEMMA OnePost ==
    ASSUME TypeOK, NEW post \in [job : Jobs, video : Jobs, early : BOOLEAN],
           posts' = Append(posts, post)
    PROVE  /\ \A j : j = post.job => Posted(j)'
           /\ \A j : Posted(j) => Posted(j)'
           /\ \A j : j # post.job => PostsOf(j)' = PostsOf(j)
           /\ \A j : j # post.job => (Posted(j)' => Posted(j))
           /\ \A i \in DOMAIN posts' : \/ i \in DOMAIN posts /\ posts'[i] = posts[i]
                                       \/ posts'[i] = post
<1>1. /\ posts' \in Seq([job : Jobs, video : Jobs, early : BOOLEAN])
      /\ Len(posts') = Len(posts) + 1 /\ Len(posts) \in Nat
      /\ DOMAIN posts = 1 .. Len(posts) /\ DOMAIN posts' = 1 .. Len(posts) + 1
      /\ posts'[Len(posts) + 1] = post
      /\ \A i \in 1 .. Len(posts) : posts'[i] = posts[i]
  BY DEF TypeOK
<1>. QED
  BY <1>1 DEF Posted, PostsOf

LEMMA AppendedPosts ==
    ASSUME TypeOK, NEW video \in Jobs, NEW early \in BOOLEAN, run.job \in Jobs,
           posts' = Append(posts, [job |-> run.job, video |-> video, early |-> early])
    PROVE  \A i \in DOMAIN posts' :
              \/ i \in DOMAIN posts /\ posts'[i] = posts[i]
              \/ posts'[i] = [job |-> run.job, video |-> video, early |-> early]
BY OnePost

\* What the app does to what has been posted.
LEMMA ReactedPosts ==
    ASSUME TypeOK, run.job \in Jobs, Reacted
    PROVE  /\ \A j : Posted(j) => Posted(j)'
           /\ \A j : Posted(j)' => Posted(j) \/ (j = run.job /\ app'.posted)
           /\ \A j : PostsOf(j)' # PostsOf(j) => j = run.job /\ ~app.posted
           /\ app.posted => app'.posted
           /\ app'.posted => app.posted \/ \A j : j = run.job => Posted(j)'
<1>1. CASE UNCHANGED posts /\ app'.posted = app.posted
  BY <1>1, SamePosts
<1>2. CASE /\ app.picked \in files /\ ~app.posted /\ app'.posted
           /\ posts' = Append(posts, [job |-> run.job, video |-> app.picked,
                                      early |-> app.early])
  <2>. DEFINE post == [job |-> run.job, video |-> app.picked, early |-> app.early]
  <2>1. post \in [job : Jobs, video : Jobs, early : BOOLEAN] /\ post.job = run.job
    BY <1>2 DEF TypeOK
  <2>. HIDE DEF post
  <2>2. posts' = Append(posts, post)
    BY <1>2 DEF post
  <2>. QED
    BY <1>2, <2>1, <2>2, OnePost
<1>. QED
  BY <1>1, <1>2 DEF Reacted

LEMMA UploadPosts ==
    ASSUME TypeOK, run.job \in Jobs,
           posts' = Append(posts, [job |-> run.job, video |-> run.job, early |-> FALSE])
    PROVE  /\ \A j : Posted(j) => Posted(j)'
           /\ \A j : Posted(j)' => Posted(j) \/ j = run.job
           /\ \A j : j = run.job => Posted(j)'
           /\ \A j : PostsOf(j)' # PostsOf(j) => j = run.job
<1>. DEFINE post == [job |-> run.job, video |-> run.job, early |-> FALSE]
<1>1. post \in [job : Jobs, video : Jobs, early : BOOLEAN] /\ post.job = run.job
  OBVIOUS
<1>. HIDE DEF post
<1>2. posts' = Append(posts, post)
  BY DEF post
<1>. QED
  BY <1>1, <1>2, OnePost

LEMMA GreenNext == Typed /\ Green /\ Proving /\ [Next]_vars => Green'
<1> SUFFICES ASSUME Typed, Green, Proving, [Next]_vars PROVE Green'
  OBVIOUS
<1>0. TypeOK /\ Engaged
  BY DEF Typed
<1>1. ASSUME NEW j \in Jobs, Deliver(j) PROVE Green'
  BY <1>0, <1>1, NoJobAssumption, SamePosts
  DEF Deliver, At, Idle, Green, OnPhone, Leaving, Concluding, device, TypeOK, Job, Engaged
<1>2. CASE Stage
  BY <1>0, <1>2, StageAs, SamePosts DEF Moved, Green, OnPhone, Leaving, Concluding, device
<1>3. CASE Check
  BY <1>0, <1>3, CheckAs, SamePosts DEF Moved, Failed, Green, OnPhone, Leaving, Concluding, device
<1>4. CASE Acquire
  BY <1>0, <1>4, AcquireAs, SamePosts DEF Moved, Failed, Green, OnPhone, Leaving, Concluding, NoApp
<1>5. CASE Push
  BY <1>0, <1>5, PushAs, SamePosts DEF Moved, Failed, Green, OnPhone, Leaving, Concluding
<1>6. CASE Scan
  BY <1>0, <1>6, ScanAs, SamePosts DEF Moved, Failed, Green, OnPhone, Leaving, Concluding
<1>7. CASE StartSession
  BY <1>0, <1>7, StartSessionAs, SamePosts DEF Moved, Failed, Green, OnPhone, Leaving, Concluding, device
<1>8. CASE Launch
  BY <1>0, <1>8, LaunchAs, SamePosts DEF Moved, Failed, Green, OnPhone, Leaving, Concluding, device
<1>9. CASE RunFlow
  <2>1. run.pc = "flow" /\ run.job \in Jobs /\ run.at \in Nat /\ Len(Flow) \in Nat
    BY <1>0, <1>9, RunFlowAs, FlowAssumption DEF TypeOK, Run, Engaged
  <2>2. UNCHANGED job
    BY <1>0, <1>9, RunFlowAs
  <2>3. CASE /\ run.at > Len(Flow) /\ Moved("report", run.error)
             /\ UNCHANGED <<app, posts>>
    <3>1. app.posted
      BY <1>0, <2>1, <2>3, FlowAssumption DEF Green, Proving, TypeOK, Run
    <3>. QED
      BY <2>1, <2>2, <2>3, <3>1, SamePosts DEF Moved, Green, OnPhone, Leaving, Concluding
  <2>4. CASE Failed("report") /\ Reacted
    BY <1>0, <2>1, <2>2, <2>4, ReactedPosts DEF Failed, Moved, Green, OnPhone, Leaving, Concluding
  <2>5. CASE /\ run'.pc = "flow" /\ run'.error = run.error /\ run'.job = run.job
             /\ run'.at = run.at + 1 /\ Reacted /\ (Proves(run.at) => app'.posted)
    <3>1. ASSUME NEW i \in 1 .. run'.at - 1, Proves(i) PROVE app'.posted
      BY <1>0, <2>1, <2>5, <3>1, ReactedPosts DEF Green
    <3>2. app'.posted => \A j : j = run.job => Posted(j)'
      BY <1>0, <2>1, <2>5, ReactedPosts DEF Green, OnPhone
    <3>. QED
      BY <1>0, <2>1, <2>2, <2>5, <3>1, <3>2, ReactedPosts DEF Green, OnPhone, Leaving, Concluding
  <2>. QED
    BY <1>0, <1>9, <2>3, <2>4, <2>5, RunFlowAs
<1>10. CASE Upload
  BY <1>0, <1>10, UploadAs, SamePosts, UploadPosts
  DEF Engaged, Moved, Failed, Green, OnPhone, Leaving, Concluding
<1>11. CASE Report
  BY <1>0, <1>11, ReportAs, SamePosts DEF Moved, Green, OnPhone, Leaving, Concluding, device
<1>12. CASE Close
  BY <1>0, <1>12, CloseAs, SamePosts DEF Moved, Green, OnPhone, Leaving, Concluding, device
<1>13. CASE RemoveFile
  BY <1>0, <1>13, RemoveFileAs, SamePosts DEF Moved, Green, OnPhone, Leaving, Concluding
<1>14. CASE Release
  BY <1>0, <1>14, ReleaseAs, SamePosts DEF Moved, Green, OnPhone, Leaving, Concluding, NoApp
<1>15. CASE Record
  BY <1>0, <1>15, RecordAs, SamePosts
  DEF Moved, Replaced, Green, OnPhone, Leaving, Concluding, device, TypeOK, Job
<1>16. ASSUME NEW j \in Jobs, Index(j) PROVE Green'
  BY <1>0, <1>16, NoJobAssumption, SamePosts
  DEF Index, Green, OnPhone, Leaving, Concluding, TypeOK, Engaged
<1>17. ASSUME NEW j \in Jobs, Expire(j) PROVE Green'
  BY <1>0, <1>17, NoJobAssumption, SamePosts
  DEF Expire, Green, OnPhone, Leaving, Concluding, device, TypeOK, Engaged
<1>18. CASE Abort
  BY <1>0, <1>18, NoJobAssumption, SamePosts
  DEF Abort, At, Green, OnPhone, Leaving, Concluding, device, TypeOK, Engaged
<1>19. CASE Crash
  <2>1. /\ \A k \in Jobs : job'[k].status = "completed" => job[k].status = "completed"
        /\ run' = Idle /\ UNCHANGED posts
    BY <1>19, CrashAs DEF Crash
  <2>. QED
    BY <2>1, SamePosts DEF Idle, Green, OnPhone, Leaving, Concluding
<1>20. CASE UNCHANGED vars
  BY <1>0, <1>20, SamePosts DEF vars, Green, OnPhone, Leaving, Concluding, device
<1>21. ASSUME NEW j \in Jobs, Skip(j) PROVE Green'
  BY <1>0, <1>21, SamePosts
  DEF Skip, At, Green, OnPhone, Leaving, Concluding, device, TypeOK, Job
<1>22. ASSUME NEW j \in Jobs, Retry(j) PROVE Green'
  <2>1. /\ \A k \in Jobs : job'[k].status = "completed" => job[k].status = "completed"
        /\ UNCHANGED <<run, device>>
    BY <1>0, <1>22 DEF Retry, NewJob, TypeOK, Job
  <2>. QED
    BY <2>1, SamePosts DEF Green, OnPhone, Leaving, Concluding, device
<1>23. CASE RemoveScratch
  BY <1>0, <1>23, RemoveScratchAs, SamePosts
  DEF Moved, Replaced, Green, OnPhone, Leaving, Concluding, device
<1>24. CASE HandleFailure
  <2>1. \A k \in Jobs : job'[k].status = "completed" => job[k].status = "completed"
    BY <1>0, <1>24, Settled DEF Engaged
  <2>. QED
    BY <1>0, <1>24, <2>1, HandleFailureAs, SamePosts
    DEF Moved, Replaced, Green, OnPhone, Leaving, Concluding, device
<1>25. CASE Finish
  <2>1. \A k \in Jobs : job'[k].status = "completed" => job[k].status = "completed"
    <3>1. /\ run.job \in Jobs /\ job[run.job] \in Job
          /\ \A k \in Jobs \ {run.job} : job'[k] = job[k]
          /\ \E e : job'[run.job] = Finished(e, job[run.job])
      BY <1>0, <1>25, FinishAs DEF Engaged, TypeOK
    <3>. QED
      BY <3>1, FinishedTyped
  <2>. QED
    BY <1>0, <1>25, <2>1, FinishAs, SamePosts
    DEF Idle, Green, OnPhone, Leaving, Concluding, device
<1>. QED
  BY <1>1, <1>2, <1>3, <1>4, <1>5, <1>6, <1>7, <1>8, <1>9, <1>10, <1>11, <1>12, <1>13, <1>14,
     <1>15, <1>16, <1>17, <1>18, <1>19, <1>20, <1>21, <1>22, <1>23, <1>24, <1>25
  DEF Next, Queue, Stages, Drives, GivesBack, Concludes, Phone

LEMMA OnceNext == Typed /\ Once /\ [Next]_vars => Once'
<1> SUFFICES ASSUME Typed, Once, [Next]_vars PROVE Once'
  OBVIOUS
<1>0. TypeOK /\ Engaged
  BY DEF Typed
<1>1. ASSUME NEW j \in Jobs, Deliver(j) PROVE Once'
  BY <1>0, <1>1, SamePosts DEF Deliver, At, Once, Apart, device, TypeOK
<1>2. CASE Stage
  BY <1>0, <1>2, StageAs, SamePosts DEF Moved, Once, Apart, Stands, OnPhone, Leaving, Concluding, device
<1>3. CASE Check
  BY <1>0, <1>3, CheckAs, SamePosts DEF Moved, Failed, Once, Apart, Stands, OnPhone, Leaving, Concluding, device
<1>4. CASE Acquire
  BY <1>0, <1>4, AcquireAs, SamePosts DEF Moved, Failed, Once, Apart, Stands, OnPhone, Leaving, Concluding, NoApp
<1>5. CASE Push
  BY <1>0, <1>5, PushAs, SamePosts DEF Moved, Failed, Once, Apart, Stands, OnPhone, Leaving, Concluding
<1>6. CASE Scan
  BY <1>0, <1>6, ScanAs, SamePosts DEF Moved, Failed, Once, Apart, Stands, OnPhone, Leaving, Concluding
<1>7. CASE StartSession
  BY <1>0, <1>7, StartSessionAs, SamePosts DEF Moved, Failed, Once, Apart, Stands, OnPhone, Leaving, Concluding, device
<1>8. CASE Launch
  BY <1>0, <1>8, LaunchAs, SamePosts DEF Moved, Failed, Once, Apart, Stands, OnPhone, Leaving, Concluding, device
<1>9. CASE RunFlow
  BY <1>0, <1>9, RunFlowAs, SamePosts, ReactedPosts
  DEF Engaged, Moved, Failed, Once, Apart, Stands, OnPhone, Leaving, Concluding
<1>10. CASE Upload
  BY <1>0, <1>10, UploadAs, SamePosts, UploadPosts
  DEF Engaged, Moved, Failed, Once, Apart, Stands, OnPhone, Leaving, Concluding
<1>11. CASE Report
  BY <1>0, <1>11, ReportAs, SamePosts DEF Moved, Once, Apart, Stands, OnPhone, Leaving, Concluding, device
<1>12. CASE Close
  BY <1>0, <1>12, CloseAs, SamePosts DEF Moved, Once, Apart, Stands, OnPhone, Leaving, Concluding, device
<1>13. CASE RemoveFile
  BY <1>0, <1>13, RemoveFileAs, SamePosts DEF Moved, Once, Apart, Stands, OnPhone, Leaving, Concluding
<1>14. CASE Release
  BY <1>0, <1>14, ReleaseAs, SamePosts DEF Moved, Once, Apart, Stands, OnPhone, Leaving, Concluding, NoApp
<1>15. CASE Record
  BY <1>0, <1>15, RecordAs, SamePosts
  DEF Moved, Replaced, Once, Apart, Stands, Excuses, OnPhone, Leaving, Concluding, device,
      TypeOK, Run, Job, Errors, Engaged
<1>16. ASSUME NEW j \in Jobs, Index(j) PROVE Once'
  BY <1>0, <1>16, NoJobAssumption, SamePosts
  DEF Index, Once, Apart, Stands, OnPhone, Leaving, Concluding, TypeOK, Engaged
<1>17. ASSUME NEW j \in Jobs, Expire(j) PROVE Once'
  BY <1>0, <1>17, NoJobAssumption, SamePosts
  DEF Expire, Once, Apart, Stands, OnPhone, Leaving, Concluding, device, TypeOK, Engaged
<1>18. CASE Abort
  BY <1>0, <1>18, NoJobAssumption, SamePosts
  DEF Abort, At, Once, Apart, Stands, OnPhone, Leaving, Concluding, device, TypeOK, Engaged
<1>19. CASE Crash
  <2>1. /\ run.job \in Jobs /\ run' = Idle /\ UNCHANGED posts
        /\ \A j \in Jobs \ {run.job} : job'[j] = job[j] /\ ended'[j] = ended[j]
        /\ ended'[run.job] \in Excuses
    BY <1>0, <1>19, CrashAs DEF Crash, Excuses, TypeOK
  <2>. QED
    BY <2>1, SamePosts DEF Once, Apart, Idle
<1>20. CASE UNCHANGED vars
  BY <1>0, <1>20, SamePosts DEF vars, Once, Apart, Stands, OnPhone, Leaving, Concluding, device
<1>21. ASSUME NEW j \in Jobs, Skip(j) PROVE Once'
  BY <1>0, <1>21, SamePosts DEF Skip, At, Once, Apart, device, TypeOK, Job
<1>22. ASSUME NEW j \in Jobs, Retry(j) PROVE Once'
  <2>1. /\ \A k \in Jobs \ {j} : job'[k] = job[k] /\ ended'[k] = ended[k]
        /\ ended'[j] \in Excuses /\ UNCHANGED <<run, app, posts>>
    BY <1>0, <1>22 DEF Retry, Excuses, device, TypeOK
  <2>2. ~Apart(j) \/ Apart(j)
    OBVIOUS
  <2>. QED
    BY <1>0, <2>1, SamePosts DEF Once, Apart, Stands, Engaged
<1>23. CASE RemoveScratch
  <2>1. /\ run.pc = "tidy" /\ run'.pc \in {"handle", "free"} /\ run'.job = run.job
        /\ UNCHANGED <<job, posts>>
    BY <1>0, <1>23, RemoveScratchAs DEF Moved, Replaced, device
  <2>2. ended[run.job] \notin Excuses /\ Stands =>
           Stands' \/ ended'[run.job] \in Excuses
    BY <1>0, <1>23, RemoveScratchAs DEF Moved, Replaced, Stands, Excuses, Engaged, TypeOK
  <2>3. \A k \in Jobs : ended[k] \in Excuses => ended'[k] \in Excuses
    BY <1>0, <1>23, RemoveScratchAs DEF Replaced, Excuses, TypeOK
  <2>. QED
    BY <1>0, <2>1, <2>2, <2>3, SamePosts
    DEF Once, Apart, OnPhone, Leaving, Concluding, Engaged
<1>24. CASE HandleFailure
  <2>1. /\ \A k \in Jobs : job'[k].waiting = job[k].waiting
        /\ \A k \in Jobs \ {run.job} : job'[k] = job[k]
        /\ run.pc = "handle" /\ run'.pc = "free" /\ run'.job = run.job
        /\ UNCHANGED posts
    BY <1>0, <1>24, Settled, HandleFailureAs DEF Engaged, Moved, Replaced, device
  <2>2. ended[run.job] \notin Excuses /\ Stands =>
           Stands' \/ ended'[run.job] \in Excuses
    BY <1>0, <1>24, HandleFailureAs DEF Moved, Replaced, Stands, Excuses, Engaged, TypeOK
  <2>3. \A k \in Jobs : ended[k] \in Excuses => ended'[k] \in Excuses
    BY <1>0, <1>24, HandleFailureAs DEF Replaced, Excuses, TypeOK
  <2>. QED
    BY <1>0, <2>1, <2>2, <2>3, SamePosts
    DEF Once, Apart, OnPhone, Leaving, Concluding, Engaged
<1>25. CASE Finish
  <2>1. /\ run.pc = "free" /\ run' = Idle /\ run.job \in Jobs /\ UNCHANGED posts
        /\ job[run.job] \in Job /\ ~job[run.job].waiting
    BY <1>0, <1>25, FinishAs DEF Engaged, TypeOK, device
  <2>2. \A k \in Jobs \ {run.job} : job'[k] = job[k] /\ ended'[k] = ended[k]
    BY <1>0, <1>25, FinishAs DEF TypeOK
  <2>3. ASSUME ended[run.job] \notin Excuses, Stands
        PROVE  \/ ended'[run.job] \in Excuses
               \/ job'[run.job].waiting => job'[run.job].status = "completed"
    <3>1. CASE job' = [job EXCEPT ![run.job] = Finished(run.error, job[run.job])]
      BY <1>0, <2>1, <2>3, <3>1, FinishedTyped DEF Stands, TypeOK
    <3>2. CASE /\ job' = [job EXCEPT ![run.job] = Finished("transient", job[run.job])]
               /\ ended' = [ended EXCEPT ![run.job] = "masked"]
      BY <1>0, <2>1, <3>2 DEF TypeOK, Excuses
    <3>3. CASE /\ job' = [job EXCEPT ![run.job] = Finished("transient", job[run.job])]
               /\ job[run.job].status = "completed"
      BY <1>0, <2>1, <3>3, FinishedTyped DEF TypeOK
    <3>. QED
      BY <1>0, <1>25, <3>1, <3>2, <3>3, FinishAs
  <2>4. ASSUME ended[run.job] \in Excuses PROVE ended'[run.job] \in Excuses
    BY <1>0, <1>25, <2>1, <2>4, FinishAs DEF TypeOK, Excuses
  <2>5. \A k \in Jobs : Apart(k)'
    BY <2>1 DEF Apart, Idle
  <2>. QED
    BY <2>1, <2>2, <2>3, <2>4, <2>5, SamePosts
    DEF Once, Apart, OnPhone, Leaving, Concluding
<1>. QED
  BY <1>1, <1>2, <1>3, <1>4, <1>5, <1>6, <1>7, <1>8, <1>9, <1>10, <1>11, <1>12, <1>13, <1>14,
     <1>15, <1>16, <1>17, <1>18, <1>19, <1>20, <1>21, <1>22, <1>23, <1>24, <1>25
  DEF Next, Queue, Stages, Drives, GivesBack, Concludes, Phone

LEMMA OwnNext == Typed /\ Own /\ [Next]_vars => Own'
<1> SUFFICES ASSUME Typed, Own, [Next]_vars PROVE Own'
  OBVIOUS
<1>0. TypeOK /\ Engaged
  BY DEF Typed
<1>1. ASSUME NEW j \in Jobs, Deliver(j) PROVE Own'
  BY <1>0, <1>1, NoJobAssumption
  DEF Deliver, At, Idle, Own, PostsOwnVideo, OnPhone, Leaving, Concluding, device, gallery, TypeOK,
      Engaged
<1>2. CASE Stage
  BY <1>0, <1>2, StageAs DEF Moved, Own, PostsOwnVideo, OnPhone, Leaving, Concluding, device, gallery
<1>3. CASE Check
  BY <1>0, <1>3, CheckAs
  DEF Moved, Failed, Own, PostsOwnVideo, OnPhone, Leaving, Concluding, device, gallery
<1>4. CASE Acquire
  BY <1>0, <1>4, AcquireAs DEF Moved, Failed, Own, PostsOwnVideo, OnPhone, Leaving, Concluding, NoApp
<1>5. CASE Push
  BY <1>0, <1>5, PushAs DEF Moved, Failed, Own, PostsOwnVideo, OnPhone, Leaving, Concluding, gallery
<1>6. CASE Scan
  BY <1>0, <1>6, ScanAs DEF Moved, Failed, Own, PostsOwnVideo, OnPhone, Leaving, Concluding, gallery
<1>7. CASE StartSession
  BY <1>0, <1>7, StartSessionAs
  DEF Moved, Failed, Own, PostsOwnVideo, OnPhone, Leaving, Concluding, device, gallery
<1>8. CASE Launch
  BY <1>0, <1>8, LaunchAs
  DEF Moved, Failed, Own, PostsOwnVideo, OnPhone, Leaving, Concluding, device, gallery
<1>9. CASE RunFlow
  <2>1. run.pc = "flow" /\ UNCHANGED <<files, gallery, pending>> /\ run'.job = run.job
    BY <1>0, <1>9, RunFlowAs DEF Moved, Failed
  <2>2. run'.pc \in {"flow", "report"} /\ Reacted
    BY <1>0, <1>9, RunFlowAs DEF Moved, Failed, Reacted
  <2>3. /\ app'.picked # NoJob => app'.picked = run.job \/ app'.early
        /\ ~UNCHANGED posts => app.picked \in Jobs
    BY <1>0, <2>1, <2>2, NoJobAssumption DEF Own, OnPhone, Reacted, TypeOK
  <2>4. PostsOwnVideo'
    <3>1. CASE UNCHANGED posts
      BY <3>1 DEF Own, PostsOwnVideo
    <3>2. CASE ~UNCHANGED posts
      <4>1. /\ app.picked \in Jobs /\ app.early \in BOOLEAN /\ run.job \in Jobs
            /\ posts' = Append(posts, [job |-> run.job, video |-> app.picked,
                                       early |-> app.early])
        BY <1>0, <2>1, <2>2, <2>3, <3>2 DEF Reacted, TypeOK, Engaged
      <4>2. app.picked = run.job \/ app.early
        BY <2>1, <4>1, NoJobAssumption DEF Own, OnPhone
      <4>. QED
        BY <1>0, <4>1, <4>2, AppendedPosts DEF Own, PostsOwnVideo
    <3>. QED
      BY <3>1, <3>2
  <2>. QED
    BY <2>1, <2>2, <2>3, <2>4 DEF Own, OnPhone, Leaving, Concluding, gallery
<1>10. CASE Upload
  BY <1>0, <1>10, UploadAs DEF Moved, Failed, Own, PostsOwnVideo, OnPhone, Leaving, Concluding, gallery
<1>11. CASE Report
  BY <1>0, <1>11, ReportAs DEF Moved, Own, PostsOwnVideo, OnPhone, Leaving, Concluding, device, gallery
<1>12. CASE Close
  BY <1>0, <1>12, CloseAs DEF Moved, Own, PostsOwnVideo, OnPhone, Leaving, Concluding, device, gallery
<1>13. CASE RemoveFile
  BY <1>0, <1>13, RemoveFileAs DEF Moved, Own, PostsOwnVideo, OnPhone, Leaving, Concluding, gallery
<1>14. CASE Release
  BY <1>0, <1>14, ReleaseAs DEF Moved, Own, PostsOwnVideo, OnPhone, Leaving, Concluding, gallery, NoApp
<1>15. CASE Record
  BY <1>0, <1>15, RecordAs
  DEF Moved, Replaced, Own, PostsOwnVideo, OnPhone, Leaving, Concluding, device, gallery
<1>16. ASSUME NEW j \in Jobs, Index(j) PROVE Own'
  BY <1>0, <1>16, NoJobAssumption
  DEF Index, Own, PostsOwnVideo, OnPhone, Leaving, Concluding, gallery, TypeOK, Engaged
<1>17. ASSUME NEW j \in Jobs, Expire(j) PROVE Own'
  BY <1>0, <1>17, NoJobAssumption
  DEF Expire, Own, PostsOwnVideo, OnPhone, Leaving, Concluding, device, gallery, TypeOK, Engaged
<1>18. CASE Abort
  BY <1>0, <1>18, NoJobAssumption
  DEF Abort, At, Own, PostsOwnVideo, OnPhone, Leaving, Concluding, device, gallery, TypeOK, Engaged
<1>19. CASE Crash
  BY <1>19, CrashAs DEF Crash, Idle, NoApp, Own, PostsOwnVideo, OnPhone, gallery
<1>20. CASE UNCHANGED vars
  BY <1>0, <1>20 DEF vars, Own, PostsOwnVideo, OnPhone, Leaving, Concluding, device, gallery
<1>21. ASSUME NEW j \in Jobs, Skip(j) PROVE Own'
  BY <1>0, <1>21 DEF Skip, Own, PostsOwnVideo, device, gallery
<1>22. ASSUME NEW j \in Jobs, Retry(j) PROVE Own'
  BY <1>0, <1>22 DEF Retry, Own, PostsOwnVideo, device, gallery
<1>23. CASE RemoveScratch
  BY <1>0, <1>23, RemoveScratchAs
  DEF Moved, Replaced, Own, PostsOwnVideo, OnPhone, Leaving, Concluding, device, gallery
<1>24. CASE HandleFailure
  BY <1>0, <1>24, HandleFailureAs
  DEF Moved, Replaced, Own, PostsOwnVideo, OnPhone, Leaving, Concluding, device, gallery
<1>25. CASE Finish
  BY <1>0, <1>25, FinishAs
  DEF Idle, Own, PostsOwnVideo, OnPhone, Leaving, Concluding, device, gallery
<1>. QED
  BY <1>1, <1>2, <1>3, <1>4, <1>5, <1>6, <1>7, <1>8, <1>9, <1>10, <1>11, <1>12, <1>13, <1>14,
     <1>15, <1>16, <1>17, <1>18, <1>19, <1>20, <1>21, <1>22, <1>23, <1>24, <1>25
  DEF Next, Queue, Stages, Drives, GivesBack, Concludes, Phone

LEMMA TidyNext == Typed /\ Tidy /\ [Next]_vars => Tidy'
<1> SUFFICES ASSUME Typed, Tidy, [Next]_vars PROVE Tidy'
  OBVIOUS
<1>0. TypeOK /\ Engaged
  BY DEF Typed
<1>1. ASSUME NEW j \in Jobs, Deliver(j) PROVE Tidy'
  BY <1>0, <1>1, NoJobAssumption
  DEF Deliver, At, Idle, Tidy, Concluding, LeavesNothing, device, TypeOK, Engaged
<1>2. CASE Stage
  BY <1>0, <1>2, StageAs DEF Moved, Keeps, Tidy, Concluding, LeavesNothing, device
<1>3. CASE Check
  BY <1>0, <1>3, CheckAs DEF Moved, Failed, Keeps, Tidy, Concluding, LeavesNothing, device
<1>4. CASE Acquire
  BY <1>0, <1>4, AcquireAs DEF Moved, Failed, Keeps, Tidy, Concluding, LeavesNothing, NoApp
<1>5. CASE Push
  BY <1>0, <1>5, PushAs DEF Moved, Failed, Keeps, Tidy, Concluding, LeavesNothing
<1>6. CASE Scan
  BY <1>0, <1>6, ScanAs DEF Moved, Failed, Keeps, Tidy, Concluding, LeavesNothing
<1>7. CASE StartSession
  BY <1>0, <1>7, StartSessionAs DEF Moved, Failed, Keeps, Tidy, Concluding, LeavesNothing, device
<1>8. CASE Launch
  BY <1>0, <1>8, LaunchAs DEF Moved, Failed, Keeps, Tidy, Concluding, LeavesNothing, device
<1>9. CASE RunFlow
  BY <1>0, <1>9, RunFlowAs DEF Moved, Failed, Keeps, Tidy, Concluding, LeavesNothing
<1>10. CASE Upload
  BY <1>0, <1>10, UploadAs DEF Moved, Failed, Keeps, Tidy, Concluding, LeavesNothing
<1>11. CASE Report
  BY <1>0, <1>11, ReportAs DEF Moved, Keeps, Tidy, Concluding, LeavesNothing, device
<1>12. CASE Close
  BY <1>0, <1>12, CloseAs DEF Moved, Keeps, Tidy, Concluding, LeavesNothing, device
<1>13. CASE RemoveFile
  BY <1>0, <1>13, RemoveFileAs DEF Moved, Keeps, Tidy, Concluding, LeavesNothing
<1>14. CASE Release
  BY <1>0, <1>14, ReleaseAs DEF Moved, Keeps, Tidy, Concluding, LeavesNothing, NoApp
<1>15. CASE Record
  BY <1>0, <1>15, RecordAs DEF Moved, Replaced, Keeps, Tidy, Concluding, LeavesNothing, device
<1>16. ASSUME NEW j \in Jobs, Index(j) PROVE Tidy'
  BY <1>0, <1>16, NoJobAssumption DEF Index, Tidy, Concluding, LeavesNothing, TypeOK, Engaged
<1>17. ASSUME NEW j \in Jobs, Expire(j) PROVE Tidy'
  BY <1>0, <1>17, NoJobAssumption DEF Expire, Tidy, Concluding, LeavesNothing, device, TypeOK, Engaged
<1>18. CASE Abort
  BY <1>0, <1>18, NoJobAssumption DEF Abort, At, Tidy, Concluding, LeavesNothing, device, TypeOK, Engaged
<1>19. CASE Crash
  BY <1>0, <1>19, CrashAs DEF Crash, Idle, Tidy, Concluding, LeavesNothing
<1>20. CASE UNCHANGED vars
  BY <1>0, <1>20 DEF vars, Tidy, Concluding, LeavesNothing, device
<1>21. ASSUME NEW j \in Jobs, Skip(j) PROVE Tidy'
  BY <1>0, <1>21 DEF Skip, Tidy, LeavesNothing, device
<1>22. ASSUME NEW j \in Jobs, Retry(j) PROVE Tidy'
  BY <1>0, <1>22 DEF Retry, Tidy, LeavesNothing, device
<1>23. CASE RemoveScratch
  BY <1>0, <1>23, RemoveScratchAs
  DEF Moved, Replaced, Keeps, Tidy, Concluding, LeavesNothing, device
<1>24. CASE HandleFailure
  BY <1>0, <1>24, HandleFailureAs
  DEF Moved, Replaced, Keeps, Tidy, Concluding, LeavesNothing, device
<1>25. CASE Finish
  BY <1>0, <1>25, NoJobAssumption, FinishAs
  DEF Idle, Tidy, Concluding, LeavesNothing, device, TypeOK, Engaged
<1>. QED
  BY <1>1, <1>2, <1>3, <1>4, <1>5, <1>6, <1>7, <1>8, <1>9, <1>10, <1>11, <1>12, <1>13, <1>14,
     <1>15, <1>16, <1>17, <1>18, <1>19, <1>20, <1>21, <1>22, <1>23, <1>24, <1>25
  DEF Next, Queue, Stages, Drives, GivesBack, Concludes, Phone

-----------------------------------------------------------------------------
(* Theorems *)

LEMMA InitHolds == Init => Typed /\ Green /\ Once /\ Own /\ Tidy
<1> SUFFICES ASSUME Init PROVE Typed /\ Green /\ Once /\ Own /\ Tidy
  OBVIOUS
<1>1. /\ job = [j \in Jobs |-> NewJob]
      /\ run = Idle /\ app = NoApp /\ posts = <<>>
      /\ ended = [j \in Jobs |-> "never"]
  BY DEF Init
<1>2. ~\E j : Posted(j)
  BY <1>1 DEF Posted, PostsOf
<1>3. /\ run.pc = "idle" /\ run.job = NoJob /\ run.at = 1
      /\ \A j \in Jobs : job[j].status = "queued" /\ job[j].attempts = 0
  BY <1>1 DEF Idle, NewJob
<1>4. Typed
  <2>1. /\ job \in [Jobs -> Job] /\ retried \in [Jobs -> Nat]
        /\ ended \in [Jobs -> Ends]
    BY <1>1, BoundAssumption DEF Init, NewJob, Job, Ends
  <2>2. posts \in Seq([job : Jobs, video : Jobs, early : BOOLEAN])
    BY <1>1
  <2>3. run \in Run /\ app \in [picked : Jobs \cup {NoJob}, early : BOOLEAN, posted : BOOLEAN]
    BY <1>1, IdleTyped, NoAppTyped
  <2>4. /\ {scratch, sessions, files, cut} \subseteq SUBSET Jobs
        /\ rows \subseteq Jobs /\ pending \subseteq Jobs
    BY DEF Init
  <2>5. aborted \in BOOLEAN /\ driver \in Drivers /\ latest \in Jobs \cup {NoJob}
    BY DEF Init
  <2>6. faults \in 0 .. MaxFaults
    BY BoundAssumption DEF Init
  <2>7. TypeOK
    BY <2>1, <2>2, <2>3, <2>4, <2>5, <2>6 DEF TypeOK
  <2>. QED
    BY <1>1, <1>3, <2>7, BoundAssumption, NoJobAssumption DEF Typed, Engaged
<1>5. Green
  BY <1>1, <1>2, <1>3 DEF Green, OnPhone, Leaving
<1>6. Once
  BY <1>2 DEF Once
<1>7. Own
  BY <1>1, <1>3 DEF Init, Own, PostsOwnVideo, OnPhone
<1>8. Tidy
  BY <1>3 DEF Init, Tidy, LeavesNothing
<1>. QED
  BY <1>4, <1>5, <1>6, <1>7, <1>8

LEMMA TypedHolds == Spec => []Typed
<1>1. Typed /\ [Next]_vars => Typed'
  BY TypeNext, EngagedNext DEF Typed
<1>. QED
  BY InitHolds, <1>1, PTL DEF Spec

\* Type correctness of the publications: a job never makes more attempts than it may,
\* whatever the phone, Appium or the worker do (processJob.ts:406 handleFailure).
THEOREM PublishingTypeCorrect == Spec => []TypeOK
<1>1. Typed => TypeOK
  BY DEF Typed
<1>. QED
  BY TypedHolds, <1>1, PTL

\* No false green, for any flow in which an assertVisible names an element that only
\* a post brings up, however many of its other steps are optional or miss (uiFlow.ts:161
\* runUiFlow, :70): a COMPLETED row has been posted.
THEOREM CompletedHolds ==
    ASSUME Proving
    PROVE  Spec => []CompletedWasPosted
<1>1. Green => CompletedWasPosted
  BY DEF Green, CompletedWasPosted, Posted
<1>. QED
  BY InitHolds, TypedHolds, GreenNext, <1>1, PTL DEF Spec

\* Nothing is posted a second time but by a run that follows one which ended
\* transiently or died, whose outcome was replaced by a failure after it, or that was
\* retried by hand (android.ts:302, publisher/errors.ts:2 isPermanent,
\* processJob.ts:228): a failure that is final, and a success, are the end of it.
THEOREM RepostHolds == Spec => RepostOnlyAfterTransient
<1>1. /\ Typed /\ Once /\ [Next]_vars
      => [\A j \in Jobs :
             PostsOf(j)' # PostsOf(j) /\ PostsOf(j) # {}
             => ended[j] \in Excuses]_vars
  <2> SUFFICES ASSUME Typed, Once, Next, NEW j \in Jobs,
                      PostsOf(j)' # PostsOf(j), PostsOf(j) # {}
               PROVE  ended[j] \in Excuses
    OBVIOUS
  <2>1. UNCHANGED posts => PostsOf(j)' = PostsOf(j)
    BY DEF PostsOf
  <2>2. /\ run.pc = "upload" \/ (run.pc = "flow" /\ ~app.posted)
        /\ run.job = j
    <3>1. CASE Upload
      BY <2>1, <3>1, UploadAs, UploadPosts DEF Typed, Engaged
    <3>2. CASE RunFlow
      BY <3>2, RunFlowAs, ReactedPosts, SamePosts DEF Typed, Engaged
    <3>3. CASE ~Upload /\ ~RunFlow
      <4>1. UNCHANGED posts
        BY <3>3, StageAs, CheckAs, AcquireAs, PushAs, ScanAs, StartSessionAs, LaunchAs,
           ReportAs, CloseAs, RemoveFileAs, ReleaseAs, RecordAs, RemoveScratchAs,
           HandleFailureAs, FinishAs
        DEF Typed, Next, Queue, Stages, Drives, GivesBack, Concludes, Phone, device,
            Deliver, Skip, Retry, Index, Expire, Abort, Crash
      <4>. QED
        BY <2>1, <4>1
    <3>. QED
      BY <3>1, <3>2, <3>3
  <2>. QED
    BY <2>2 DEF Once, Apart, Posted, Typed, Engaged, OnPhone, Leaving, Concluding
<1>. QED
  BY InitHolds, TypedHolds, OnceNext, <1>1, PTL DEF Spec, RepostOnlyAfterTransient

\* What goes out is the job's own video, over any sequence of runs and whatever they
\* left on the phone, unless the app was quicker than the media scanner (android.ts:218
\* pushMedia, device.ts:161).
THEOREM OwnVideoHolds == Spec => []PostsOwnVideo
<1>1. Own => PostsOwnVideo
  BY DEF Own
<1>. QED
  BY InitHolds, TypedHolds, OwnNext, <1>1, PTL DEF Spec

\* A run that could give things back, did: no session, staging directory or video of
\* its job stays behind, wherever in the run it failed (android.ts:612,
\* processJob.ts:227).
THEOREM NothingLeftHolds == Spec => []LeavesNothing
<1>1. Tidy => LeavesNothing
  BY DEF Tidy
<1>. QED
  BY InitHolds, TypedHolds, TidyNext, <1>1, PTL DEF Spec
=============================================================================
