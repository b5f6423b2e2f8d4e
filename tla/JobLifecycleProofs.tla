------------------------- MODULE JobLifecycleProofs -------------------------
(* Theorems about JobLifecycle, for any jobs, workers, requests and bounds. *)
EXTENDS JobLifecycle, FiniteSetTheorems, TLAPS

\* Whoever is in the middle of something has a job, and a delivery's record
\* stays active under its lock.
Engaged ==
    /\ \A r \in Requests : request[r].pc # "idle" => request[r].job \in Jobs
    /\ \A w \in Workers :
        worker[w].pc \in JobPc \cup {"requeue", "drop", "add"} => worker[w].job \in Jobs

Locked ==
    \A w \in Workers :
        worker[w].pc \in JobPc => bull[worker[w].job].state = "active"

\* One field of one record changes: what stays typed, and what stays put.
LEMMA StatusTyped ==
    ASSUME row \in [Jobs -> Row], NEW j, NEW s \in Status
    PROVE  [row EXCEPT ![j].status = s] \in [Jobs -> Row]
BY DEF Row

LEMMA StateSet ==
    ASSUME bull \in [Jobs -> Record], NEW j \in Jobs, NEW s,
           bull' = [bull EXCEPT ![j].state = s]
    PROVE  /\ bull'[j].state = s
           /\ bull'[j].made = bull[j].made
           /\ bull'[j].allowed = bull[j].allowed
           /\ \A k \in Jobs \ {j} : bull'[k] = bull[k]
<1>1. bull'[j] = [bull[j] EXCEPT !.state = s] /\ bull[j] \in Record
  OBVIOUS
<1>. QED
  BY <1>1 DEF Record

LEMMA StateTyped ==
    ASSUME bull \in [Jobs -> Record], NEW j, NEW s \in QueueState
    PROVE  [bull EXCEPT ![j].state = s] \in [Jobs -> Record]
BY DEF Record

LEMMA MadeTyped ==
    ASSUME bull \in [Jobs -> Record], NEW j \in Jobs, NEW n \in Nat, NEW s \in QueueState
    PROVE  [bull EXCEPT ![j].made = n, ![j].state = s] \in [Jobs -> Record]
<1>1. [bull[j] EXCEPT !.made = n, !.state = s] \in Record
  BY DEF Record
<1>2. [bull EXCEPT ![j].made = n, ![j].state = s]
        = [bull EXCEPT ![j] = [bull[j] EXCEPT !.made = n, !.state = s]]
  OBVIOUS
<1>. QED
  BY <1>1, <1>2

LEMMA GotoTyped ==
    ASSUME worker \in [Workers -> WorkerState], NEW w \in Workers, NEW p \in WorkerPc,
           Goto(w, p)
    PROVE  /\ worker' \in [Workers -> WorkerState]
           /\ \A v \in Workers : worker'[v].job = worker[v].job
           /\ \A v \in Workers \ {w} : worker'[v] = worker[v]
           /\ worker'[w].pc = p
BY DEF Goto, WorkerState

LEMMA OutcomeTyped ==
    ASSUME worker \in [Workers -> WorkerState], NEW w \in Workers, NEW p \in WorkerPc,
           NEW o \in Outcome,
           worker' = [worker EXCEPT ![w].pc = p, ![w].outcome = o]
    PROVE  /\ worker' \in [Workers -> WorkerState]
           /\ \A v \in Workers : worker'[v].job = worker[v].job
           /\ \A v \in Workers \ {w} : worker'[v] = worker[v]
           /\ worker'[w].pc = p
<1>1. worker[w] \in WorkerState
  OBVIOUS
<1>2. [worker[w] EXCEPT !.pc = p, !.outcome = o] \in WorkerState
  BY <1>1 DEF WorkerState
<1>3. worker' = [worker EXCEPT ![w] = [worker[w] EXCEPT !.pc = p, !.outcome = o]]
  OBVIOUS
<1>. QED
  BY <1>1, <1>2, <1>3 DEF WorkerState

LEMMA RestTyped ==
    ASSUME NEW p \in WorkerPc
    PROVE  AtRest(p) \in WorkerState
BY DEF AtRest, WorkerState, Outcome

LEMMA TypeInit == Init => TypeOK /\ Engaged
BY NoJobAssumption, BudgetAssumption DEF Init, TypeOK, Engaged, Row, NoRow, Status,
   Record, NoRecord, QueueState, WorkerState, AtRest, WorkerPc, BootPc, JobPc, Outcome,
   Candidate, RequestState, NoRequest, RequestPc, Letter

LEMMA TypeRequests ==
    ASSUME TypeOK, Engaged, NEW r \in Requests,
           RequestStarts(r) \/ RequestProceeds(r) \/ RequestFails(r)
    PROVE  TypeOK' /\ Engaged'
<1> USE DEF TypeOK, Engaged, history
<1>1. ASSUME NEW j \in Jobs, NEW timed \in BOOLEAN, CreateRow(r, j, timed)
      PROVE  TypeOK' /\ Engaged'
  BY <1>1 DEF CreateRow, Row, NoRow, Status, Begin, RequestState, RequestPc
<1>2. ASSUME NEW j \in Jobs, CancelRead(r, j) PROVE TypeOK' /\ Engaged'
  BY <1>2 DEF CancelRead, Begin, RequestState, RequestPc
<1>3. ASSUME NEW j \in Jobs, RetryRead(r, j) PROVE TypeOK' /\ Engaged'
  BY <1>3 DEF RetryRead, Begin, RequestState, RequestPc
<1>4. CASE EnqueueAdd(r)
  BY <1>4, BudgetAssumption DEF EnqueueAdd, SetQueue, QueueAdd, Fresh, DelayState, Record,
     QueueState, Step, RequestState, RequestPc
<1>5. CASE EnqueueLink(r)
  <2>1. row' = [row EXCEPT ![request[r].job].linked = TRUE]
    BY <1>5 DEF EnqueueLink
  <2>2. row' \in [Jobs -> Row]
    BY <2>1 DEF Row
  <2>. QED
    BY <1>5, <2>2 DEF EnqueueLink, Reply, NoRequest, RequestState, RequestPc
<1>6. CASE CancelWithdraw(r)
  BY <1>6 DEF CancelWithdraw, SetQueue, AfterRemove, NoRecord, Record, QueueState, Step,
     RequestState, RequestPc
<1>7. CASE CancelWrite(r)
  <2>1. row' \in [Jobs -> Row]
    BY <1>7 DEF CancelWrite, SetStatus, Row, Status
  <2>. QED
    BY <1>7, <2>1 DEF CancelWrite, Reply, NoRequest, RequestState, RequestPc
<1>8. CASE RetryReset(r)
  <2> DEFINE j == request[r].job
             new == [row[j] EXCEPT !.status = "QUEUED", !.attempts = 0, !.timed = FALSE]
  <2>1. j \in Jobs /\ row[j] \in Row /\ row' = [row EXCEPT ![j] = new]
    BY <1>8 DEF RetryReset
  <2>2. row' \in [Jobs -> Row]
    <3>1. new \in Row
      BY <2>1 DEF Row, Status
    <3> HIDE DEF new
    <3>. QED
      BY <2>1, <3>1
  <2>. QED
    BY <1>8, <2>2 DEF RetryReset, Step, RequestState, RequestPc
<1>9. CASE RetryReplace(r)
  BY <1>9 DEF RetryReplace, SetQueue, AfterRemove, NoRecord, Record, QueueState, Step,
     RequestState, RequestPc
<1>10. CASE RequestFails(r)
  BY <1>10 DEF RequestFails, Reply, NoRequest, RequestState, RequestPc
<1>. QED
  BY <1>1, <1>2, <1>3, <1>4, <1>5, <1>6, <1>7, <1>8, <1>9, <1>10
  DEF RequestStarts, RequestProceeds
LEMMA TypeBoots ==
    ASSUME TypeOK, Engaged, NEW w \in Workers, Boots(w)
    PROVE  TypeOK' /\ Engaged'
<1> USE DEF TypeOK, Engaged, history
<1>1. CASE Boot(w)
  <2>1. Candidates \in SUBSET Candidate
    BY DEF Candidates, Candidate, Row
  <2>2. PICK p \in {"recount", "check"} :
          worker' = [worker EXCEPT ![w] = [AtRest(p) EXCEPT !.todo = Candidates]]
    BY <1>1 DEF Boot
  <2>3. [AtRest(p) EXCEPT !.todo = Candidates] \in WorkerState
    BY <2>1, <2>2 DEF AtRest, WorkerState, WorkerPc, BootPc, Outcome
  <2>4. worker' \in [Workers -> WorkerState]
    BY <2>2, <2>3
  <2>5. worker'[w].pc = p /\ \A v \in Workers \ {w} : worker'[v] = worker[v]
    BY <2>2 DEF AtRest
  <2>. QED
    BY <1>1, <2>4, <2>5 DEF Boot, JobPc
<1>2. ASSUME NEW c \in worker[w].todo, RecoverSkip(w, c) PROVE TypeOK' /\ Engaged'
  BY <1>2 DEF RecoverSkip, NextCandidate, AtRest, WorkerState, WorkerPc, BootPc, JobPc, Outcome
<1>3. ASSUME NEW c \in worker[w].todo, RecoverOrphan(w, c) PROVE TypeOK' /\ Engaged'
  <2>1. c \in Candidate /\ worker[w].todo \ {c} \in SUBSET Candidate
    BY <1>3 DEF WorkerState
  <2>2. PICK had \in BOOLEAN :
          worker' = [worker EXCEPT ![w].pc = "requeue", ![w].job = c.job,
                       ![w].timed = c.timed, ![w].had = had, ![w].todo = @ \ {c}]
    BY <1>3 DEF RecoverOrphan
  <2>3. worker[w] \in WorkerState
    OBVIOUS
  <2>4. DEFINE v == [worker[w] EXCEPT !.pc = "requeue", !.job = c.job, !.timed = c.timed,
                                      !.had = had, !.todo = @ \ {c}]
  <2>5. v \in WorkerState /\ v.job \in Jobs
    BY <2>1, <2>2, <2>3 DEF WorkerState, WorkerPc, BootPc, Candidate
  <2>6. worker' = [worker EXCEPT ![w] = v]
    BY <2>2
  <2> HIDE DEF v
  <2>7. worker' \in [Workers -> WorkerState] /\ Engaged'
    <3>1. UNCHANGED request /\ \A u \in Workers : worker'[u] = IF u = w THEN v ELSE worker[u]
      BY <1>3, <2>6 DEF RecoverOrphan
    <3>2. worker' \in [Workers -> WorkerState]
      BY <2>5, <2>6
    <3>3. Engaged'
      BY <2>5, <3>1
    <3>. QED
      BY <3>2, <3>3
  <2>. QED
    BY <1>3, <2>7 DEF RecoverOrphan
<1>4. CASE RecoverRow(w)
  <2>1. row' \in [Jobs -> Row]
    BY <1>4, StatusTyped DEF RecoverRow, SetStatus, Status
  <2>2. PICK p \in {"drop", "add"} : Goto(w, p)
    BY <1>4 DEF RecoverRow
  <2>3. worker' \in [Workers -> WorkerState] /\ Engaged'
    BY <1>4, <2>2, GotoTyped DEF RecoverRow, WorkerPc, BootPc
  <2>. QED
    BY <1>4, <2>1, <2>3 DEF RecoverRow
<1>5. CASE RecoverDrop(w)
  <2>1. bull' \in [Jobs -> Record]
    BY <1>5 DEF RecoverDrop, SetQueue, AfterRemove, NoRecord, Record, QueueState
  <2>2. worker' \in [Workers -> WorkerState] /\ Engaged'
    BY <1>5, GotoTyped DEF RecoverDrop, WorkerPc, BootPc
  <2>. QED
    BY <1>5, <2>1, <2>2 DEF RecoverDrop
<1>6. CASE RecoverAdd(w)
  <2>1. readded' \subseteq Jobs
    BY <1>6 DEF RecoverAdd
  <2>. QED
    BY <1>6, <2>1, BudgetAssumption DEF RecoverAdd, SetQueue, QueueAdd, Fresh, DelayState,
       Record, QueueState, NextCandidate, AtRest, WorkerState, WorkerPc, BootPc, JobPc, Outcome
<1>7. CASE Recount(w)
  <2>1. leaked' \in Nat
    <3> DEFINE running == {j \in Jobs : row[j].status = "PROCESSING"}
    <3>1. IsFiniteSet(running)
      BY JobsAssumption, FS_Subset
    <3>2. Cardinality(running) \in Nat
      BY <3>1, FS_CardinalityType
    <3>. QED
      BY <1>7, <3>2 DEF Recount
  <2>. QED
    BY <1>7, <2>1, RestTyped DEF Recount, AtRest, WorkerPc, JobPc
<1>. QED
  BY <1>1, <1>2, <1>3, <1>4, <1>5, <1>6, <1>7 DEF Boots

LEMMA TypeDelivery ==
    ASSUME TypeOK, Engaged, NEW w \in Workers,
           \/ Runs(w) \/ Admit(w) \/ Defer(w) \/ Fails(w)
           \/ \E j \in Jobs : Fetch(w, j)
    PROVE  TypeOK' /\ Engaged'
<1> USE DEF TypeOK, Engaged, history
<1>1. ASSUME NEW j \in Jobs, Fetch(w, j) PROVE TypeOK' /\ Engaged'
  <2>1. bull' \in [Jobs -> Record]
    BY <1>1, StateTyped DEF Fetch, QueueState
  <2>2. PICK v \in WorkerState : v.job = j /\ worker' = [worker EXCEPT ![w] = v]
    <3>1. [AtRest("settle") EXCEPT !.job = j, !.outcome = "permanent"] \in WorkerState
      BY DEF AtRest, WorkerState, WorkerPc, JobPc, Outcome
    <3>2. [AtRest("read") EXCEPT !.job = j] \in WorkerState
      BY DEF AtRest, WorkerState, WorkerPc, JobPc, Outcome
    <3>3. /\ [AtRest("settle") EXCEPT !.job = j, !.outcome = "permanent"].job = j
          /\ [AtRest("read") EXCEPT !.job = j].job = j
      BY DEF AtRest
    <3>. QED
      BY <1>1, <3>1, <3>2, <3>3 DEF Fetch
  <2>3. worker' \in [Workers -> WorkerState]
    BY <2>2
  <2>4. \A u \in Workers : worker'[u] = IF u = w THEN v ELSE worker[u]
    BY <2>2
  <2>5. Engaged'
    BY <1>1, <2>2, <2>4 DEF Fetch
  <2>. QED
    BY <1>1, <2>1, <2>3, <2>5 DEF Fetch
<1>2. CASE ReadRow(w) \/ Admit(w) \/ PublishSucceeds(w) \/ HandleRead(w)
           \/ CleanUp(w) \/ Release(w)
  <2>1. PICK p \in JobPc, o \in Outcome :
          Goto(w, p) \/ worker' = [worker EXCEPT ![w].pc = p, ![w].outcome = o]
    BY <1>2 DEF ReadRow, Admit, PublishSucceeds, CleanUp, Release, HandleRead,
       End, Goto, JobPc, Outcome
  <2>2. p \in WorkerPc /\ worker[w].job \in Jobs
    BY <1>2 DEF ReadRow, Admit, PublishSucceeds, CleanUp, Release, HandleRead, WorkerPc, JobPc
  <2>3. /\ worker' \in [Workers -> WorkerState]
        /\ \A v \in Workers : worker'[v].job = worker[v].job
        /\ \A v \in Workers \ {w} : worker'[v] = worker[v]
    BY <2>1, <2>2, GotoTyped, OutcomeTyped
  <2>4. Engaged'
    BY <1>2, <2>2, <2>3 DEF ReadRow, Admit, PublishSucceeds, CleanUp, Release, HandleRead
  <2>. QED
    BY <1>2, <2>3, <2>4 DEF ReadRow, Admit, PublishSucceeds, CleanUp, Release, HandleRead
<1>3. CASE Defer(w)
  <2>1. bull' \in [Jobs -> Record]
    BY <1>3, StateTyped DEF Defer, QueueState
  <2>. QED
    BY <1>3, <2>1, RestTyped DEF Defer, AtRest, WorkerPc, JobPc
<1>4. CASE MarkProcessing(w)
  <2>1. Attempt(worker[w].job) \in Nat
    BY <1>4 DEF MarkProcessing, Attempt, Record, JobPc
  <2>2. row' \in [Jobs -> Row]
    <3>1. /\ worker[w].job \in Jobs
          /\ row' = [row EXCEPT ![worker[w].job].status = "PROCESSING",
                                ![worker[w].job].attempts = Attempt(worker[w].job)]
      BY <1>4 DEF MarkProcessing, JobPc
    <3>2. "PROCESSING" \in Status
      BY DEF Status
    <3>. QED
      BY <2>1, <3>1, <3>2 DEF Row
  <2>3. worker' \in [Workers -> WorkerState] /\ Engaged'
    BY <1>4, GotoTyped DEF MarkProcessing, WorkerPc, JobPc
  <2>. QED
    BY <1>4, <2>2, <2>3 DEF MarkProcessing
<1>5. ASSUME NEW o \in {"retryable", "permanent"}, PublishThrows(w, o)
      PROVE  TypeOK' /\ Engaged'
  <2>1. worker' \in [Workers -> WorkerState] /\ Engaged'
    BY <1>5, OutcomeTyped DEF PublishThrows, Outcome, WorkerPc, JobPc
  <2>. QED
    BY <1>5, <2>1 DEF PublishThrows
<1>6. CASE RecordPublished(w) \/ HandleWrite(w)
  <2>1. PICK s \in Status : SetStatus(worker[w].job, s)
    BY <1>6 DEF RecordPublished, HandleWrite, Status
  <2>2. row' \in [Jobs -> Row]
    BY <2>1, StatusTyped DEF SetStatus
  <2>3. worker' \in [Workers -> WorkerState] /\ Engaged'
    BY <1>6, GotoTyped, OutcomeTyped
    DEF RecordPublished, HandleWrite, End, WorkerPc, JobPc, Outcome
  <2>. QED
    BY <1>6, <2>2, <2>3 DEF RecordPublished, HandleWrite
<1>7. CASE Settle(w)
  <2>1. worker[w].job \in Jobs
    BY <1>7 DEF Settle, JobPc
  <2>2. letters' \subseteq Letter
    BY <1>7, <2>1 DEF Settle, LettersOf, Letter
  <2>3. Attempt(worker[w].job) \in Nat
    BY <2>1 DEF Attempt, Record
  <2>4. bull' \in [Jobs -> Record]
    <3>1. \/ bull' = [bull EXCEPT ![worker[w].job].state = "completed"]
          \/ \E s \in {"delayed", "failed"} :
                bull' = [bull EXCEPT ![worker[w].job].made = Attempt(worker[w].job),
                                     ![worker[w].job].state = s]
      BY <1>7 DEF Settle
    <3>2. CASE bull' = [bull EXCEPT ![worker[w].job].state = "completed"]
      BY <3>2, StateTyped DEF QueueState
    <3>3. CASE \E s \in {"delayed", "failed"} :
                 bull' = [bull EXCEPT ![worker[w].job].made = Attempt(worker[w].job),
                                      ![worker[w].job].state = s]
      <4>1. PICK s \in {"delayed", "failed"} :
              bull' = [bull EXCEPT ![worker[w].job].made = Attempt(worker[w].job),
                                   ![worker[w].job].state = s]
        BY <3>3
      <4>2. s \in QueueState
        BY DEF QueueState
      <4>. QED
        BY <2>1, <2>3, <4>1, <4>2, MadeTyped
    <3>. QED
      BY <3>1, <3>2, <3>3
  <2>. QED
    BY <1>7, <2>2, <2>4, RestTyped DEF Settle, AtRest, WorkerPc, JobPc
<1>8. CASE Crash(w)
  <2>1. lost' \in [Jobs -> Nat] /\ leaked' \in Nat
    <3>1. lost' = lost \/ lost' = [lost EXCEPT ![worker[w].job] = @ + 1]
      BY <1>8 DEF Crash, LostPost
    <3>2. leaked' = leaked \/ leaked' = leaked + 1
      BY <1>8 DEF Crash
    <3>. QED
      BY <3>1, <3>2
  <2>. QED
    BY <1>8, <2>1, RestTyped DEF Crash, AtRest, WorkerPc, JobPc
<1>9. CASE StoreFails(w) \/ CleanUpFails(w) \/ ReleaseFails(w)
  <2>1. lost' \in [Jobs -> Nat] /\ spoilt' \in [Jobs -> Nat]
    <3>1. \/ lost' = lost
          \/ lost' = [lost EXCEPT ![worker[w].job] = @ + 1]
      BY <1>9 DEF StoreFails, CleanUpFails, ReleaseFails, LostPost
    <3>2. \/ spoilt' = spoilt
          \/ spoilt' = [spoilt EXCEPT ![worker[w].job] = @ + 1]
      BY <1>9 DEF StoreFails, CleanUpFails, ReleaseFails
    <3>. QED
      BY <3>1, <3>2
  <2>2. leaked' \in {leaked, leaked + 1}
    BY <1>9 DEF StoreFails, CleanUpFails, ReleaseFails
  <2>3. PICK p \in {"handle", "settle", "release"} :
          worker' = [worker EXCEPT ![w].pc = p, ![w].outcome = "retryable"]
    <3>1. AfterRefusal(worker[w].pc) \in {"handle", "settle", "release"}
      BY DEF AfterRefusal
    <3>. QED
      BY <1>9, <3>1 DEF StoreFails, CleanUpFails, ReleaseFails, End
  <2>4. worker[w].job \in Jobs
    BY <1>9 DEF StoreFails, CleanUpFails, ReleaseFails, JobPc
  <2>5. /\ worker' \in [Workers -> WorkerState]
        /\ \A v \in Workers : worker'[v].job = worker[v].job
        /\ \A v \in Workers \ {w} : worker'[v] = worker[v]
    <3>1. p \in WorkerPc /\ "retryable" \in Outcome
      BY <2>3 DEF WorkerPc, JobPc, Outcome
    <3>. QED
      BY <2>3, <3>1, OutcomeTyped
  <2>6. UNCHANGED request
    BY <1>9 DEF StoreFails, CleanUpFails, ReleaseFails
  <2>7. Engaged'
    BY <2>4, <2>5, <2>6
  <2>. QED
    BY <1>9, <2>1, <2>2, <2>5, <2>7 DEF StoreFails, CleanUpFails, ReleaseFails
<1>. QED
  BY <1>1, <1>2, <1>3, <1>4, <1>5, <1>6, <1>7, <1>8, <1>9 DEF Runs, Fails

LEMMA TypeElsewhere ==
    ASSUME TypeOK, Engaged,
           \/ \E l \in letters : Delivers(l) \/ LetterFails(l)
           \/ \E j \in Jobs : Promote(j) \/ Stall(j) \/ TimePasses(j)
    PROVE  TypeOK' /\ Engaged'
<1> USE DEF TypeOK, Engaged, history
<1>1. ASSUME NEW l \in letters, Delivers(l) \/ LetterFails(l) PROVE TypeOK' /\ Engaged'
  <2>1. l \in Letter
    BY DEF TypeOK
  <2>2. CASE Park(l)
    BY <2>1, <2>2 DEF Park, Letter
  <2>3. CASE MarkDead(l)
    BY <2>1, <2>3 DEF MarkDead, SetStatus, Row, Status
  <2>4. CASE LetterFails(l)
    BY <2>1, <2>4 DEF LetterFails, Letter
  <2>. QED
    BY <1>1, <2>2, <2>3, <2>4 DEF Delivers
<1>2. ASSUME NEW j \in Jobs, Promote(j) \/ Stall(j) \/ TimePasses(j)
      PROVE  TypeOK' /\ Engaged'
  <2>1. CASE Promote(j)
    BY <2>1 DEF Promote, Record, QueueState
  <2>2. CASE Stall(j)
    BY <2>2 DEF Stall, Record, QueueState
  <2>3. CASE TimePasses(j)
    BY <2>3 DEF TimePasses
  <2>. QED
    BY <1>2, <2>1, <2>2, <2>3
<1>. QED
  BY <1>1, <1>2

\* Every reachable state is well typed, and whoever is engaged has a job.
THEOREM TypeCorrect == Spec => [](TypeOK /\ Engaged)
<1>1. TypeOK /\ Engaged /\ [Next]_vars => TypeOK' /\ Engaged'
  <2> SUFFICES ASSUME TypeOK, Engaged, [Next]_vars PROVE TypeOK' /\ Engaged'
    OBVIOUS
  <2>1. CASE Next
    BY <2>1, TypeRequests, TypeBoots, TypeDelivery, TypeElsewhere DEF Next
  <2>2. CASE UNCHANGED vars
    BY <2>2 DEF vars, history, TypeOK, Engaged
  <2>. QED
    BY <2>1, <2>2
<1>. QED
  BY <1>1, TypeInit, PTL DEF Spec
-----------------------------------------------------------------------------
(* One runner per job *)

Exclusive == Locked /\ OneRunner

\* A step in which nobody takes a job up keeps Exclusive, if it leaves the
\* records of the deliveries that go on active.
LEMMA NobodyStarts ==
    ASSUME Exclusive,
           \A v \in Workers : worker'[v].pc \in JobPc =>
               /\ worker[v].pc \in JobPc
               /\ worker'[v].job = worker[v].job
               /\ bull'[worker[v].job].state = "active"
    PROVE  Exclusive'
BY DEF Exclusive, Locked, OneRunner

\* A held record survives every add and every remove.
LEMMA HeldSurvives ==
    ASSUME TypeOK, Exclusive, NEW j \in Jobs, NEW w \in Workers,
           worker[w].pc \in JobPc, worker[w].job \in Jobs,
           \/ \E b \in AfterRemove(j) : SetQueue(j, b)
           \/ \E timed \in BOOLEAN, n \in Nat : SetQueue(j, QueueAdd(j, timed, n))
    PROVE  bull'[worker[w].job] = bull[worker[w].job]
<1>1. bull[worker[w].job].state = "active"
  BY DEF Exclusive, Locked
<1>2. CASE worker[w].job = j
  <2>1. Held(j)
    BY <1>2 DEF Held
  <2>2. AfterRemove(j) = {bull[j]}
    BY <1>1, <1>2, <2>1 DEF AfterRemove
  <2>3. \A timed \in BOOLEAN, n \in Nat : QueueAdd(j, timed, n) = bull[j]
    BY <1>1, <1>2 DEF QueueAdd
  <2>. QED
    BY <1>2, <2>2, <2>3 DEF SetQueue, TypeOK
<1>3. CASE worker[w].job # j
  BY <1>3 DEF SetQueue, TypeOK
<1>. QED
  BY <1>2, <1>3

LEMMA ExclusiveRequests ==
    ASSUME TypeOK, Engaged, Exclusive, NEW r \in Requests,
           RequestStarts(r) \/ RequestProceeds(r) \/ RequestFails(r)
    PROVE  Exclusive'
<1>1. worker' = worker
  BY DEF RequestStarts, RequestProceeds, RequestFails, CreateRow, CancelRead, RetryRead,
     EnqueueAdd, EnqueueLink, CancelWithdraw, CancelWrite, RetryReset, RetryReplace
<1>2. CASE EnqueueAdd(r) \/ CancelWithdraw(r) \/ RetryReplace(r)
  <2>1. request[r].job \in Jobs /\ request[r].timed \in BOOLEAN
    BY <1>2 DEF EnqueueAdd, CancelWithdraw, RetryReplace, Engaged, TypeOK, RequestState
  <2>2. \/ \E b \in AfterRemove(request[r].job) : SetQueue(request[r].job, b)
        \/ \E timed \in BOOLEAN, n \in Nat :
               SetQueue(request[r].job, QueueAdd(request[r].job, timed, n))
    BY <1>2, <2>1, BudgetAssumption DEF EnqueueAdd, CancelWithdraw, RetryReplace
  <2>3. \A v \in Workers : worker[v].pc \in JobPc =>
          worker[v].job \in Jobs /\ bull[worker[v].job].state = "active"
    BY DEF Engaged, Exclusive, Locked
  <2>4. \A v \in Workers : worker[v].pc \in JobPc =>
          bull'[worker[v].job] = bull[worker[v].job]
    BY <2>1, <2>2, <2>3, HeldSurvives
  <2>. QED
    BY <1>1, <2>3, <2>4, NobodyStarts
<1>3. CASE UNCHANGED bull
  BY <1>1, <1>3 DEF Exclusive, Locked, OneRunner
<1>. QED
  BY <1>2, <1>3 DEF RequestStarts, RequestProceeds, RequestFails, CreateRow, CancelRead,
     RetryRead, EnqueueLink, CancelWrite, RetryReset

LEMMA ExclusiveBoots ==
    ASSUME TypeOK, Engaged, Exclusive, NEW w \in Workers, Boots(w)
    PROVE  Exclusive'
<1>1. /\ worker'[w].pc \notin JobPc
      /\ \A v \in Workers \ {w} : worker'[v] = worker[v]
  <2> USE DEF AtRest, TypeOK, JobPc
  <2>1. CASE Boot(w)
    BY <2>1 DEF Boot
  <2>2. CASE \E c \in worker[w].todo : RecoverSkip(w, c)
    BY <2>2 DEF RecoverSkip, NextCandidate
  <2>3. CASE \E c \in worker[w].todo : RecoverOrphan(w, c)
    BY <2>3 DEF RecoverOrphan, WorkerState
  <2>4. CASE RecoverRow(w)
    <3>1. PICK p \in {"drop", "add"} : Goto(w, p)
      BY <2>4 DEF RecoverRow
    <3>. QED
      BY <3>1, GotoTyped DEF WorkerPc, BootPc
  <2>5. CASE RecoverDrop(w)
    BY <2>5, GotoTyped DEF RecoverDrop, WorkerPc, BootPc
  <2>6. CASE RecoverAdd(w)
    BY <2>6 DEF RecoverAdd, NextCandidate
  <2>7. CASE Recount(w)
    BY <2>7 DEF Recount
  <2>. QED
    BY <2>1, <2>2, <2>3, <2>4, <2>5, <2>6, <2>7 DEF Boots
<1>2. \A v \in Workers : worker[v].pc \in JobPc =>
        worker[v].job \in Jobs /\ bull[worker[v].job].state = "active"
  BY DEF Engaged, Exclusive, Locked
<1>3. CASE RecoverDrop(w) \/ RecoverAdd(w)
  <2>1. worker[w].job \in Jobs /\ worker[w].timed \in BOOLEAN
    BY <1>3 DEF RecoverDrop, RecoverAdd, Engaged, TypeOK, WorkerState
  <2>2. \/ \E b \in AfterRemove(worker[w].job) : SetQueue(worker[w].job, b)
        \/ \E timed \in BOOLEAN, n \in Nat :
               SetQueue(worker[w].job, QueueAdd(worker[w].job, timed, n))
    BY <1>3, <2>1, BudgetAssumption DEF RecoverDrop, RecoverAdd
  <2>3. \A v \in Workers : worker[v].pc \in JobPc =>
          bull'[worker[v].job] = bull[worker[v].job]
    BY <1>2, <2>1, <2>2, HeldSurvives
  <2>. QED
    BY <1>1, <1>2, <2>3, NobodyStarts
<1>4. CASE UNCHANGED bull
  BY <1>1, <1>2, <1>4, NobodyStarts
<1>. QED
  BY <1>3, <1>4 DEF Boots, Boot, RecoverSkip, RecoverOrphan, RecoverRow, Recount

LEMMA ExclusiveDelivery ==
    ASSUME TypeOK, Engaged, Exclusive, NEW w \in Workers,
           \/ Runs(w) \/ Admit(w) \/ Defer(w) \/ Fails(w)
           \/ \E j \in Jobs : Fetch(w, j)
    PROVE  Exclusive'
<1>1. \A v \in Workers : worker[v].pc \in JobPc =>
        worker[v].job \in Jobs /\ bull[worker[v].job].state = "active"
  BY DEF Engaged, Exclusive, Locked
\* Taking a job: it was waiting, so nobody had it.
<1>2. ASSUME NEW j \in Jobs, Fetch(w, j) PROVE Exclusive'
  <2>1. \A v \in Workers : worker[v].pc \in JobPc => worker[v].job # j
    BY <1>1, <1>2 DEF Fetch
  <2>2. worker'[w].job = j /\ \A v \in Workers \ {w} : worker'[v] = worker[v]
    BY <1>2 DEF Fetch, AtRest, TypeOK
  <2>3. bull'[j].state = "active" /\ \A k \in Jobs \ {j} : bull'[k] = bull[k]
    <3>1. bull' = [bull EXCEPT ![j].state = "active"] /\ bull[j] \in Record
      BY <1>2 DEF Fetch, TypeOK
    <3>2. bull'[j] = [bull[j] EXCEPT !.state = "active"]
      BY <3>1 DEF TypeOK
    <3>. QED
      BY <3>1, <3>2 DEF TypeOK, Record
  <2>4. Locked'
    BY <1>1, <2>1, <2>2, <2>3 DEF Locked
  <2>5. OneRunner'
    BY <2>1, <2>2 DEF OneRunner, Exclusive
  <2>. QED
    BY <2>4, <2>5 DEF Exclusive
\* Going on with one: the job and its record stay.
<1>3. CASE \/ ReadRow(w) \/ Admit(w) \/ MarkProcessing(w) \/ PublishSucceeds(w)
           \/ \E o \in {"retryable", "permanent"} : PublishThrows(w, o)
           \/ RecordPublished(w) \/ CleanUp(w) \/ HandleRead(w) \/ HandleWrite(w)
           \/ Release(w) \/ StoreFails(w) \/ CleanUpFails(w) \/ ReleaseFails(w)
  <2>1. worker[w].pc \in JobPc /\ UNCHANGED bull
    <3>1. CASE StoreFails(w) \/ CleanUpFails(w) \/ ReleaseFails(w)
      BY <3>1 DEF StoreFails, CleanUpFails, ReleaseFails, JobPc
    <3>2. CASE ~(StoreFails(w) \/ CleanUpFails(w) \/ ReleaseFails(w))
      BY <1>3, <3>2 DEF ReadRow, Admit, MarkProcessing, PublishSucceeds, PublishThrows,
         RecordPublished, CleanUp, HandleRead, HandleWrite, Release, JobPc
    <3>. QED
      BY <3>1, <3>2
  <2>2. /\ \A v \in Workers : worker'[v].job = worker[v].job
        /\ \A v \in Workers \ {w} : worker'[v] = worker[v]
    <3>1. CASE StoreFails(w) \/ CleanUpFails(w) \/ ReleaseFails(w)
      <4>1. \E pc, o : worker' = [worker EXCEPT ![w].pc = pc, ![w].outcome = o]
        BY <3>1 DEF StoreFails, CleanUpFails, ReleaseFails, End
      <4>. QED
        BY <4>1 DEF TypeOK, WorkerState
    <3>2. CASE ~(StoreFails(w) \/ CleanUpFails(w) \/ ReleaseFails(w))
      BY <1>3, <3>2 DEF ReadRow, Admit, MarkProcessing, PublishSucceeds, PublishThrows,
         RecordPublished, CleanUp, HandleRead, HandleWrite, Release, Goto, End, TypeOK,
         WorkerState
    <3>. QED
      BY <3>1, <3>2
  <2>3. \A v \in Workers : worker'[v].pc \in JobPc =>
          /\ worker[v].pc \in JobPc
          /\ worker'[v].job = worker[v].job
          /\ bull'[worker[v].job].state = "active"
    BY <1>1, <2>1, <2>2
  <2>. QED
    BY <2>3, NobodyStarts
\* Letting go of one: the others' jobs are other jobs.
<1>4. CASE Defer(w) \/ Settle(w)
  <2>1. worker[w].pc \in JobPc
    BY <1>4 DEF Defer, Settle, JobPc
  <2>2. worker'[w].pc \notin JobPc /\ \A v \in Workers \ {w} : worker'[v] = worker[v]
    BY <1>4 DEF Defer, Settle, AtRest, JobPc, TypeOK
  <2>3. \A k \in Jobs \ {worker[w].job} : bull'[k] = bull[k]
    BY <1>4 DEF Defer, Settle, TypeOK
  <2>4. \A v \in Workers \ {w} : worker[v].pc \in JobPc => worker[v].job # worker[w].job
    BY <2>1 DEF Exclusive, OneRunner
  <2>. QED
    BY <1>1, <2>2, <2>3, <2>4, NobodyStarts
<1>5. CASE Crash(w)
  <2>1. /\ worker'[w].pc \notin JobPc /\ UNCHANGED bull
        /\ \A v \in Workers \ {w} : worker'[v] = worker[v]
    BY <1>5 DEF Crash, AtRest, JobPc, TypeOK
  <2>. QED
    BY <1>1, <2>1, NobodyStarts
<1>. QED
  BY <1>2, <1>3, <1>4, <1>5 DEF Runs, Fails

LEMMA ExclusiveElsewhere ==
    ASSUME TypeOK, Engaged, Exclusive,
           \/ \E l \in letters : Delivers(l) \/ LetterFails(l)
           \/ \E j \in Jobs : Promote(j) \/ Stall(j) \/ TimePasses(j)
    PROVE  Exclusive'
<1>1. worker' = worker
  BY DEF Delivers, Park, MarkDead, LetterFails, Promote, Stall, TimePasses
<1>2. \A v \in Workers : worker[v].pc \in JobPc =>
        worker[v].job \in Jobs /\ bull[worker[v].job].state = "active"
  BY DEF Engaged, Exclusive, Locked
<1>3. ASSUME NEW j \in Jobs, Promote(j) \/ Stall(j) PROVE Exclusive'
  <2>1. \A v \in Workers : worker[v].pc \in JobPc => worker[v].job # j
    BY <1>2, <1>3 DEF Promote, Stall, Held
  <2>2. \A k \in Jobs \ {j} : bull'[k] = bull[k]
    BY <1>3 DEF Promote, Stall, TypeOK
  <2>. QED
    BY <1>1, <1>2, <2>1, <2>2, NobodyStarts
<1>4. CASE UNCHANGED bull
  BY <1>1, <1>2, <1>4, NobodyStarts
<1>. QED
  BY <1>3, <1>4 DEF Delivers, Park, MarkDead, LetterFails, TimePasses

\* Every reachable state is exclusive.
THEOREM ExclusiveHolds == Spec => []Exclusive
<1>1. Init => Exclusive
  BY DEF Init, Exclusive, Locked, OneRunner, AtRest, JobPc
<1>2. TypeOK /\ Engaged /\ Exclusive /\ [Next]_vars => Exclusive'
  <2> SUFFICES ASSUME TypeOK, Engaged, Exclusive, [Next]_vars PROVE Exclusive'
    OBVIOUS
  <2>1. CASE Next
    BY <2>1, ExclusiveRequests, ExclusiveBoots, ExclusiveDelivery, ExclusiveElsewhere DEF Next
  <2>2. CASE UNCHANGED vars
    BY <2>2 DEF vars, Exclusive, Locked, OneRunner
  <2>. QED
    BY <2>1, <2>2
<1>. QED
  BY <1>1, <1>2, TypeCorrect, PTL DEF Spec

\* Two workers never run the same job.
THEOREM OneRunnerHolds == Spec => []OneRunner
<1>1. Exclusive => OneRunner
  BY DEF Exclusive
<1>. QED
  BY <1>1, ExclusiveHolds, PTL

-----------------------------------------------------------------------------
(* DEAD rows are parked *)

\* The entry is there from the callback's first write to its second.
Parked ==
    /\ DeadIsParked
    /\ \A l \in letters : l.step = "mark" => l.job \in parked

\* Only MarkDead writes DEAD: everybody else's writes keep Parked.
LEMMA ParkedRequests ==
    ASSUME TypeOK, Parked, NEW r \in Requests,
           RequestStarts(r) \/ RequestProceeds(r) \/ RequestFails(r)
    PROVE  Parked'
<1>1. UNCHANGED <<letters, parked>>
  BY DEF RequestStarts, RequestProceeds, RequestFails, CreateRow, CancelRead, RetryRead,
     EnqueueAdd, EnqueueLink, CancelWithdraw, CancelWrite, RetryReset, RetryReplace
<1>2. \A j \in Jobs : row'[j].status = "DEAD" => row[j].status = "DEAD"
  <2>1. CASE UNCHANGED row
    BY <2>1
  <2>2. CASE \E j \in Jobs, timed \in BOOLEAN : CreateRow(r, j, timed)
    BY <2>2 DEF CreateRow, NoRow, TypeOK
  <2>3. CASE EnqueueLink(r) \/ CancelWrite(r) \/ RetryReset(r)
    BY <2>3 DEF EnqueueLink, CancelWrite, RetryReset, SetStatus, TypeOK, Row
  <2>. QED
    BY <2>1, <2>2, <2>3 DEF RequestStarts, RequestProceeds, RequestFails, CancelRead,
       RetryRead, EnqueueAdd, CancelWithdraw, RetryReplace
<1>. QED
  BY <1>1, <1>2 DEF Parked, DeadIsParked

LEMMA LettersStart ==
    ASSUME NEW w \in Workers
    PROVE  \A l \in LettersOf(w) : l.step = "park"
<1> DEFINE first == [by |-> w, job |-> worker[w].job, step |-> "park"]
<1>1. LettersOf(w) = {} \/ LettersOf(w) = {first}
  BY Zenon DEF LettersOf
<1>2. first.step = "park"
  OBVIOUS
<1> HIDE DEF first
<1>. QED
  BY <1>1, <1>2

LEMMA ParkedWorkers ==
    ASSUME TypeOK, Parked, NEW w \in Workers,
           \/ Boots(w) \/ Runs(w) \/ Admit(w) \/ Defer(w) \/ Fails(w)
           \/ \E j \in Jobs : Fetch(w, j)
    PROVE  Parked'
<1> USE DEF Boots, Runs, Fails, Boot, RecoverSkip, RecoverOrphan, RecoverRow, RecoverDrop,
        RecoverAdd, Recount, ReadRow, Admit, Defer, MarkProcessing, PublishSucceeds,
        PublishThrows, RecordPublished, CleanUp, HandleRead, HandleWrite, Release, Settle,
        Crash, StoreFails, CleanUpFails, ReleaseFails, Fetch
<1>1. UNCHANGED parked
  OBVIOUS
<1>2. \A l \in letters' : l.step = "mark" => l \in letters
  <2>1. CASE Settle(w)
    <3>1. letters' = letters \/ letters' = letters \cup LettersOf(w)
      BY <2>1
    <3>. QED
      BY <3>1, LettersStart
  <2>2. CASE letters' \subseteq letters
    BY <2>2
  <2>. QED
    BY <2>1, <2>2
<1>3. \A j \in Jobs : row'[j].status = "DEAD" => row[j].status = "DEAD"
  <2>1. CASE UNCHANGED row
    BY <2>1
  <2>2. CASE MarkProcessing(w)
    BY <2>2 DEF TypeOK
  <2>3. CASE RecoverRow(w) \/ RecordPublished(w) \/ HandleWrite(w)
    <3>1. PICK s \in Status \ {"DEAD"} : SetStatus(worker[w].job, s)
      BY <2>3 DEF Status
    <3>2. s # "DEAD"
      OBVIOUS
    <3>3. row' = [row EXCEPT ![worker[w].job].status = s]
      BY <3>1 DEF SetStatus
    <3>4. \A j \in Jobs : row'[j].status = row[j].status \/ row'[j].status = s
      BY <3>3, Zenon DEF TypeOK, Row
    <3>. QED
      BY <3>2, <3>4
  <2>. QED
    BY <2>1, <2>2, <2>3
<1>. QED
  BY <1>1, <1>2, <1>3 DEF Parked, DeadIsParked

LEMMA ParkedElsewhere ==
    ASSUME TypeOK, Parked,
           \/ \E l \in letters : Delivers(l) \/ LetterFails(l)
           \/ \E j \in Jobs : Promote(j) \/ Stall(j) \/ TimePasses(j)
    PROVE  Parked'
<1>1. ASSUME NEW l \in letters, Park(l) PROVE Parked'
  <2>1. \A k \in letters' : k.step = "mark" => k.job \in parked'
    BY <1>1 DEF Park, Parked, TypeOK, Letter
  <2>. QED
    BY <1>1, <2>1 DEF Park, Parked, DeadIsParked
<1>2. ASSUME NEW l \in letters, MarkDead(l) PROVE Parked'
  <2>1. l.job \in parked
    BY <1>2 DEF MarkDead, Parked
  <2>2. \A j \in Jobs \ {l.job} : row'[j] = row[j]
    BY <1>2 DEF MarkDead, SetStatus, TypeOK
  <2>. QED
    BY <1>2, <2>1, <2>2 DEF MarkDead, Parked, DeadIsParked
<1>3. CASE UNCHANGED <<row, parked>> /\ letters' \subseteq letters
  BY <1>3 DEF Parked, DeadIsParked
<1>. QED
  BY <1>1, <1>2, <1>3 DEF Delivers, LetterFails, Promote, Stall, TimePasses

\* No row is DEAD without an entry in the dead-letter queue.
THEOREM DeadIsParkedHolds == Spec => []DeadIsParked
<1>1. Init => Parked
  BY DEF Init, Parked, DeadIsParked, NoRow
<1>2. TypeOK /\ Parked /\ [Next]_vars => Parked'
  <2> SUFFICES ASSUME TypeOK, Parked, [Next]_vars PROVE Parked'
    OBVIOUS
  <2>1. CASE Next
    BY <2>1, ParkedRequests, ParkedWorkers, ParkedElsewhere DEF Next
  <2>2. CASE UNCHANGED vars
    BY <2>2 DEF vars, Parked, DeadIsParked
  <2>. QED
    BY <2>1, <2>2
<1>3. Parked => DeadIsParked
  BY DEF Parked
<1>. QED
  BY <1>1, <1>2, <1>3, TypeCorrect, PTL DEF Spec

-----------------------------------------------------------------------------
(* The attempt budget *)

Within(own, j, n) == n <= MaxAttempts \/ (j \in own /\ n <= DefaultAttempts)

\* A record that can still be delivered has an attempt left, of the row's budget or of
\* the one a boot gave it.
Budgeted ==
    \A j \in Jobs :
        /\ Within(readded, j, row[j].attempts)
        /\ bull[j].state \in Live =>
              bull[j].made < bull[j].allowed /\ Within(readded, j, bull[j].allowed)

\* What a step may do to the rows' counts and to the records.
LEMMA BudgetedStep ==
    ASSUME Budgeted, readded \subseteq readded',
           \A j \in Jobs : \/ row'[j].attempts = row[j].attempts
                           \/ row'[j].attempts = 0
                           \/ Within(readded, j, row'[j].attempts),
           \A j \in Jobs : bull'[j].state \in Live =>
               \/ /\ bull[j].state \in Live
                  /\ bull'[j].made = bull[j].made /\ bull'[j].allowed = bull[j].allowed
               \/ bull'[j].made < bull'[j].allowed /\ Within(readded', j, bull'[j].allowed)
    PROVE  Budgeted'
<1>1. ASSUME NEW j \in Jobs, NEW n, Within(readded, j, n) PROVE Within(readded', j, n)
  BY <1>1 DEF Within
<1>2. ASSUME NEW j \in Jobs PROVE Within(readded', j, 0)
  BY BudgetAssumption DEF Within
<1>3. \A j \in Jobs : Within(readded', j, row'[j].attempts)
  BY <1>1, <1>2 DEF Budgeted
<1>4. ASSUME NEW j \in Jobs, bull'[j].state \in Live
      PROVE  bull'[j].made < bull'[j].allowed /\ Within(readded', j, bull'[j].allowed)
  BY <1>1, <1>4 DEF Budgeted
<1>. QED
  BY <1>3, <1>4 DEF Budgeted

LEMMA AddBudgeted ==
    ASSUME TypeOK, Budgeted, NEW j \in Jobs, NEW timed, NEW n \in Nat \ {0},
           SetQueue(j, QueueAdd(j, timed, n)), UNCHANGED row, readded \subseteq readded',
           bull[j].state = "none" => Within(readded', j, n)
    PROVE  Budgeted'
<1>1. CASE bull[j].state = "none"
  <2>1. bull'[j] = Fresh(j, timed, n) /\ \A k \in Jobs \ {j} : bull'[k] = bull[k]
    BY <1>1 DEF QueueAdd, SetQueue, TypeOK
  <2>2. bull'[j].made = 0 /\ bull'[j].allowed = n
    BY <2>1 DEF Fresh
  <2>. QED
    BY <1>1, <2>1, <2>2, BudgetedStep
<1>2. CASE bull[j].state # "none"
  <2>1. bull' = bull
    BY <1>2 DEF QueueAdd, SetQueue, TypeOK
  <2>. QED
    BY <2>1, BudgetedStep
<1>. QED
  BY <1>1, <1>2

LEMMA RemoveBudgeted ==
    ASSUME TypeOK, Budgeted, NEW j \in Jobs, NEW b \in AfterRemove(j),
           SetQueue(j, b), UNCHANGED <<row, readded>>
    PROVE  Budgeted'
<1>1. bull'[j] = bull[j] \/ bull'[j] = NoRecord
  BY DEF AfterRemove, SetQueue, TypeOK
<1>2. \A k \in Jobs \ {j} : bull'[k] = bull[k]
  BY DEF SetQueue, TypeOK
<1>3. \A k \in Jobs : bull'[k].state \in Live => bull'[k] = bull[k]
  BY <1>1, <1>2 DEF NoRecord, Live
<1>. QED
  BY <1>3, BudgetedStep

LEMMA StatusBudgeted ==
    ASSUME TypeOK, Budgeted, NEW j \in Jobs, NEW s, SetStatus(j, s), UNCHANGED <<bull, readded>>
    PROVE  Budgeted'
<1>1. \A k \in Jobs : row'[k].attempts = row[k].attempts
  BY DEF SetStatus, TypeOK, Row
<1>. QED
  BY <1>1, BudgetedStep

LEMMA QuietBudgeted ==
    ASSUME Budgeted, UNCHANGED <<row, bull, readded>>
    PROVE  Budgeted'
BY BudgetedStep

LEMMA BudgetedRequests ==
    ASSUME TypeOK, Engaged, Budgeted, NEW r \in Requests,
           RequestStarts(r) \/ RequestProceeds(r) \/ RequestFails(r)
    PROVE  Budgeted'
<1>0. UNCHANGED readded
  BY DEF RequestStarts, RequestProceeds, RequestFails, CreateRow, CancelRead, RetryRead,
     EnqueueAdd, EnqueueLink, CancelWithdraw, CancelWrite, RetryReset, RetryReplace, history
<1>1. ASSUME NEW j \in Jobs, NEW timed \in BOOLEAN, CreateRow(r, j, timed) PROVE Budgeted'
  <2>1. \A k \in Jobs : row'[k].attempts = row[k].attempts \/ row'[k].attempts = 0
    BY <1>1 DEF CreateRow, NoRow, TypeOK
  <2>. QED
    BY <1>0, <1>1, <2>1, BudgetedStep DEF CreateRow
<1>2. CASE EnqueueAdd(r)
  <2>1. request[r].job \in Jobs /\ Within(readded', request[r].job, MaxAttempts)
    BY <1>2, BudgetAssumption DEF EnqueueAdd, Engaged, Within
  <2>. QED
    BY <1>0, <1>2, <2>1, BudgetAssumption, AddBudgeted DEF EnqueueAdd
<1>3. CASE CancelWithdraw(r) \/ RetryReplace(r)
  BY <1>0, <1>3, RemoveBudgeted DEF CancelWithdraw, RetryReplace, Engaged
<1>4. CASE CancelWrite(r)
  BY <1>0, <1>4, StatusBudgeted DEF CancelWrite, Engaged
<1>5. CASE EnqueueLink(r) \/ RetryReset(r)
  <2>1. \A j \in Jobs : row'[j].attempts = row[j].attempts \/ row'[j].attempts = 0
    <3>1. row \in [Jobs -> Row]
      BY DEF TypeOK
    <3>2. CASE EnqueueLink(r)
      BY <3>1, <3>2 DEF EnqueueLink, Row
    <3>3. CASE RetryReset(r)
      BY <3>1, <3>3 DEF RetryReset, Row
    <3>. QED
      BY <1>5, <3>2, <3>3
  <2>2. UNCHANGED bull
    BY <1>5 DEF EnqueueLink, RetryReset
  <2>. QED
    BY <1>0, <2>1, <2>2, BudgetedStep
<1>6. CASE UNCHANGED <<row, bull>>
  BY <1>0, <1>6, QuietBudgeted
<1>. QED
  BY <1>1, <1>2, <1>3, <1>4, <1>5, <1>6
  DEF RequestStarts, RequestProceeds, RequestFails, CancelRead, RetryRead

LEMMA BudgetedWorkers ==
    ASSUME TypeOK, Engaged, Exclusive, Budgeted, NEW w \in Workers,
           \/ Boots(w) \/ Runs(w) \/ Admit(w) \/ Defer(w) \/ Fails(w)
           \/ \E j \in Jobs : Fetch(w, j)
    PROVE  Budgeted'
<1> DEFINE j == worker[w].job
<1>1. CASE RecoverRow(w) \/ RecordPublished(w) \/ HandleWrite(w)
  BY <1>1, StatusBudgeted DEF RecoverRow, RecordPublished, HandleWrite, Engaged, JobPc, history
<1>2. CASE RecoverDrop(w)
  BY <1>2, RemoveBudgeted DEF RecoverDrop, Engaged, history
\* A record of the boot's own is on record as one.
<1>3. CASE RecoverAdd(w)
  <2>1. j \in Jobs /\ readded \subseteq readded' /\ UNCHANGED row
    BY <1>3 DEF RecoverAdd, Engaged
  <2>2. bull[j].state = "none" => Within(readded', j, DefaultAttempts)
    BY <1>3, BudgetAssumption DEF RecoverAdd, Within
  <2>. QED
    BY <1>3, <2>1, <2>2, BudgetAssumption, AddBudgeted DEF RecoverAdd
<1>4. ASSUME worker[w].pc \in JobPc
      PROVE  /\ j \in Jobs /\ bull[j].state \in Live
             /\ Attempt(j) \in Nat /\ Attempt(j) <= bull[j].allowed
             /\ Within(readded, j, bull[j].allowed) /\ bull[j].allowed \in Nat
  BY <1>4 DEF Engaged, Exclusive, Locked, Budgeted, Live, Attempt, TypeOK, Record
<1>5. CASE MarkProcessing(w)
  <2>1. Within(readded, j, Attempt(j))
    BY <1>4, <1>5, BudgetAssumption DEF MarkProcessing, JobPc, Within
  <2>2. \A k \in Jobs : row'[k].attempts = IF k = j THEN Attempt(j) ELSE row[k].attempts
    BY <1>4, <1>5 DEF MarkProcessing, JobPc, TypeOK, Row
  <2>. QED
    BY <1>5, <2>1, <2>2, BudgetedStep DEF MarkProcessing, history
\* A record is delayed for another attempt only when one is left.
<1>6. CASE Settle(w)
  <2>1. worker[w].pc \in JobPc /\ UNCHANGED <<row, readded>>
    BY <1>6 DEF Settle, JobPc, history
  <2>2. \A k \in Jobs \ {j} : bull'[k] = bull[k]
    BY <1>6 DEF Settle, TypeOK
  <2>3. CASE worker[w].outcome = "ok" \/ LettersOf(w) # {}
    <3>1. bull'[j].state \notin Live
      BY <1>4, <1>6, <2>1, <2>3 DEF Settle, TypeOK, Record, Live
    <3>. QED
      BY <2>1, <2>2, <3>1, BudgetedStep
  <2>4. CASE worker[w].outcome # "ok" /\ LettersOf(w) = {}
    <3>1. Attempt(j) < bull[j].allowed
      <4>1. ASSUME Attempt(j) >= bull[j].allowed PROVE FALSE
        BY <2>4, <4>1, Zenon DEF LettersOf
      <4>. QED
        BY <1>4, <2>1, <4>1
    <3>2. bull'[j].made = Attempt(j) /\ bull'[j].allowed = bull[j].allowed
      BY <1>4, <1>6, <2>1, <2>4 DEF Settle, TypeOK, Record
    <3>3. Within(readded', j, bull'[j].allowed)
      BY <1>4, <2>1, <3>2 DEF Within
    <3>. QED
      BY <2>1, <2>2, <3>1, <3>2, <3>3, BudgetedStep
  <2>. QED
    BY <2>3, <2>4
<1>7. CASE Defer(w)
  <2>1. worker[w].pc \in JobPc /\ UNCHANGED <<row, readded>>
    BY <1>7 DEF Defer, JobPc, history
  <2>2. /\ bull'[j].made = bull[j].made /\ bull'[j].allowed = bull[j].allowed
        /\ \A k \in Jobs \ {j} : bull'[k] = bull[k]
    BY <1>4, <1>7, <2>1, StateSet DEF Defer, TypeOK
  <2>. QED
    BY <1>4, <2>1, <2>2, BudgetedStep
<1>8. ASSUME NEW i \in Jobs, Fetch(w, i) PROVE Budgeted'
  <2>1. bull[i].state \in Live /\ UNCHANGED <<row, readded>>
    BY <1>8 DEF Fetch, Live, history
  <2>2. /\ bull'[i].made = bull[i].made
        /\ bull'[i].allowed = bull[i].allowed
        /\ \A k \in Jobs \ {i} : bull'[k] = bull[k]
    BY <1>8, StateSet DEF Fetch, TypeOK
  <2>. QED
    BY <2>1, <2>2, BudgetedStep
<1>9. CASE UNCHANGED <<row, bull, readded>>
  BY <1>9, QuietBudgeted
<1>. QED
  BY <1>1, <1>2, <1>3, <1>5, <1>6, <1>7, <1>8, <1>9
  DEF Boots, Runs, Fails, Boot, RecoverSkip, RecoverOrphan, Recount, ReadRow, Admit,
      PublishSucceeds, PublishThrows, CleanUp, HandleRead, Release, Crash, StoreFails,
      CleanUpFails, ReleaseFails, history

LEMMA BudgetedElsewhere ==
    ASSUME TypeOK, Budgeted,
           \/ \E l \in letters : Delivers(l) \/ LetterFails(l)
           \/ \E j \in Jobs : Promote(j) \/ Stall(j) \/ TimePasses(j)
    PROVE  Budgeted'
<1>1. ASSUME NEW l \in letters, MarkDead(l) PROVE Budgeted'
  BY <1>1, StatusBudgeted DEF MarkDead, TypeOK, Letter, history
<1>2. ASSUME NEW j \in Jobs, Promote(j) \/ Stall(j) PROVE Budgeted'
  <2>1. bull[j].state \in Live /\ UNCHANGED <<row, readded>>
    BY <1>2 DEF Promote, Stall, Live, history
  <2>2. /\ bull'[j].made = bull[j].made /\ bull'[j].allowed = bull[j].allowed
        /\ \A k \in Jobs \ {j} : bull'[k] = bull[k]
    BY <1>2 DEF Promote, Stall, TypeOK, Record
  <2>. QED
    BY <2>1, <2>2, BudgetedStep
<1>3. CASE UNCHANGED <<row, bull, readded>>
  BY <1>3, QuietBudgeted
<1>. QED
  BY <1>1, <1>2, <1>3 DEF Delivers, Park, LetterFails, TimePasses, history

\* No row reports more attempts than its own budget, or than the queue's if a boot
\* gave the job a new record (createWorker.ts:102): whatever the two budgets are.
THEOREM AttemptsWithinBudgetHolds == Spec => []AttemptsWithinBudget
<1>1. Init => Budgeted
  BY BudgetAssumption DEF Init, Budgeted, Within, NoRow, NoRecord, Live
<1>2. TypeOK /\ Engaged /\ Exclusive /\ Budgeted /\ [Next]_vars => Budgeted'
  <2> SUFFICES ASSUME TypeOK, Engaged, Exclusive, Budgeted, [Next]_vars PROVE Budgeted'
    OBVIOUS
  <2>1. CASE Next
    BY <2>1, BudgetedRequests, BudgetedWorkers, BudgetedElsewhere DEF Next
  <2>2. CASE UNCHANGED vars
    BY <2>2, QuietBudgeted DEF vars, history
  <2>. QED
    BY <2>1, <2>2
<1>3. Budgeted => AttemptsWithinBudget
  BY DEF Budgeted, Within, AttemptsWithinBudget
<1>. QED
  BY <1>1, <1>2, <1>3, TypeCorrect, ExclusiveHolds, PTL DEF Spec

-----------------------------------------------------------------------------
(* Scheduled jobs do not start early *)

Driving == JobPc \cup {"requeue", "drop", "add"}

\* A job without a row: nobody has heard of it.
Unheard(j) ==
    /\ bull[j].state = "none"
    /\ \A w \in Workers :
        /\ worker[w].pc \in Driving => worker[w].job # j
        /\ \A c \in worker[w].todo : c.job # j
    /\ \A r \in Requests : request[r].pc # "idle" => request[r].job # j
    /\ \A l \in letters : l.job # j

\* A job before its time: whoever is about to add it knows that it is timed,
\* its record waits for scheduledAt, and nothing a run leaves behind exists.
Early(j) ==
    /\ row[j].timed /\ row[j].status \in {"SCHEDULED", "CANCELLED"}
    /\ bull[j].state \in {"none", "scheduled"}
    /\ \A w \in Workers :
        /\ worker[w].pc \in Driving /\ worker[w].job = j =>
              worker[w].pc \notin JobPc /\ worker[w].timed
        /\ \A c \in worker[w].todo : c.job = j => c.timed
    /\ \A r \in Requests : request[r].pc # "idle" /\ request[r].job = j =>
          /\ request[r].pc \notin {"reset", "replace"}
          /\ request[r].pc = "add" => request[r].timed
    /\ \A l \in letters : l.job # j

OnTime ==
    \A j \in Jobs :
        /\ row[j].status = "none" => Unheard(j)
        /\ ~due[j] => Early(j)

\* A step of a job whose time has come, and which has a row, keeps OnTime.
LEMMA OpenStep ==
    ASSUME TypeOK, OnTime, NEW j \in Jobs, due[j], row'[j].status # "none",
           UNCHANGED <<due, request>>,
           \A k \in Jobs \ {j} : row'[k] = row[k] /\ bull'[k] = bull[k],
           \A l \in letters' : l \in letters \/ l.job = j,
           \A v \in Workers :
               \/ worker'[v] = worker[v]
               \/ /\ worker'[v].todo \subseteq worker[v].todo
                  /\ worker'[v].pc \in Driving => worker'[v].job = j
    PROVE  OnTime'
<1>1. ASSUME NEW k \in Jobs \ {j}, row'[k].status = "none" PROVE Unheard(k)'
  <2>1. Unheard(k)
    BY <1>1 DEF OnTime
  <2>. QED
    BY <2>1 DEF Unheard
<1>2. ASSUME NEW k \in Jobs \ {j}, ~due'[k] PROVE Early(k)'
  <2>1. Early(k)
    BY <1>2 DEF OnTime
  <2>. QED
    BY <2>1 DEF Early
<1>. QED
  BY <1>1, <1>2 DEF OnTime

\* A step that touches no row, record or callback, and after which every
\* worker and request drives what it drove or nothing.
LEMMA LeavingStep ==
    ASSUME TypeOK, OnTime, UNCHANGED <<row, bull, due>>, letters' \subseteq letters,
           \A v \in Workers :
               \/ worker'[v] = worker[v]
               \/ worker'[v].pc \notin Driving /\ worker'[v].todo \subseteq worker[v].todo,
           \A r \in Requests :
               \/ request'[r] = request[r]
               \/ request'[r].pc = "idle"
    PROVE  OnTime'
<1>1. ASSUME NEW k \in Jobs, row[k].status = "none" PROVE Unheard(k)'
  <2>1. Unheard(k)
    BY <1>1 DEF OnTime
  <2>. QED
    BY <2>1 DEF Unheard
<1>2. ASSUME NEW k \in Jobs, ~due[k] PROVE Early(k)'
  <2>1. Early(k)
    BY <1>2 DEF OnTime
  <2>. QED
    BY <2>1 DEF Early
<1>. QED
  BY <1>1, <1>2 DEF OnTime

\* A request moves on, for a job that has a row; what it may leave to do for
\* a job before its time is what Early admits.
LEMMA RequestStep ==
    ASSUME TypeOK, OnTime, NEW r \in Requests, NEW j \in Jobs,
           row[j].status # "none", row'[j].status # "none",
           UNCHANGED <<worker, letters, due>>,
           \A k \in Jobs \ {j} : row'[k] = row[k] /\ bull'[k] = bull[k],
           \A q \in Requests \ {r} : request'[q] = request[q],
           request'[r].pc # "idle" => request'[r].job = j,
           ~due[j] => /\ row'[j].timed /\ row'[j].status \in {"SCHEDULED", "CANCELLED"}
                      /\ bull'[j].state \in {"none", "scheduled"}
                      /\ request'[r].pc \notin {"reset", "replace"}
                      /\ request'[r].pc = "add" => request'[r].timed
    PROVE  OnTime'
<1>1. ASSUME NEW k \in Jobs \ {j}, row'[k].status = "none" PROVE Unheard(k)'
  <2>1. Unheard(k)
    BY <1>1 DEF OnTime
  <2>. QED
    BY <2>1 DEF Unheard
<1>2. ASSUME NEW k \in Jobs, ~due'[k] PROVE Early(k)'
  <2>1. Early(k)
    BY <1>2 DEF OnTime
  <2>2. CASE k = j
    BY <1>2, <2>1, <2>2 DEF Early
  <2>3. CASE k # j
    BY <2>1, <2>3 DEF Early
  <2>. QED
    BY <2>2, <2>3
<1>. QED
  BY <1>1, <1>2 DEF OnTime

\* What is added under a timed job's id before its time is scheduled.
LEMMA AddScheduled ==
    ASSUME TypeOK, NEW j \in Jobs, NEW timed \in BOOLEAN, NEW n \in Nat,
           SetQueue(j, QueueAdd(j, timed, n))
    PROVE  /\ \A k \in Jobs \ {j} : bull'[k] = bull[k]
           /\ ~due[j] /\ timed /\ bull[j].state \in {"none", "scheduled"} =>
                 bull'[j].state = "scheduled"
<1>1. bull'[j] = QueueAdd(j, timed, n) /\ \A k \in Jobs \ {j} : bull'[k] = bull[k]
  BY DEF SetQueue, TypeOK
<1>2. CASE bull[j].state = "none"
  BY <1>1, <1>2 DEF QueueAdd, Fresh, DelayState
<1>3. CASE bull[j].state # "none"
  BY <1>1, <1>3 DEF QueueAdd
<1>. QED
  BY <1>1, <1>2, <1>3

LEMMA RemoveScheduled ==
    ASSUME TypeOK, NEW j \in Jobs, NEW b \in AfterRemove(j), SetQueue(j, b)
    PROVE  /\ \A k \in Jobs \ {j} : bull'[k] = bull[k]
           /\ bull[j].state \in {"none", "scheduled"} => bull'[j].state = "none"
BY DEF AfterRemove, NoRecord, SetQueue, TypeOK

LEMMA OnTimeRequests ==
    ASSUME TypeOK, Engaged, OnTime, NEW r \in Requests,
           RequestStarts(r) \/ RequestProceeds(r) \/ RequestFails(r)
    PROVE  OnTime'
<1>1. ASSUME NEW j \in Jobs, NEW timed \in BOOLEAN, CreateRow(r, j, timed) PROVE OnTime'
  <2>1. Unheard(j)
    BY <1>1 DEF CreateRow, OnTime
  <2>2. /\ UNCHANGED <<bull, worker, letters>>
        /\ row'[j].status # "none" /\ row'[j].timed = timed
        /\ timed => row'[j].status = "SCHEDULED"
        /\ due'[j] = ~timed
        /\ \A k \in Jobs \ {j} : row'[k] = row[k] /\ due'[k] = due[k]
        /\ request'[r].job = j /\ request'[r].timed = timed /\ request'[r].pc = "add"
        /\ \A q \in Requests \ {r} : request'[q] = request[q]
    BY <1>1 DEF CreateRow, NoRow, Begin, TypeOK
  <2>3. ~due'[j] => Early(j)'
    BY <2>1, <2>2 DEF Unheard, Early
  <2>4. ASSUME NEW k \in Jobs \ {j}, row'[k].status = "none" PROVE Unheard(k)'
    <3>1. Unheard(k)
      BY <2>2, <2>4 DEF OnTime
    <3>. QED
      BY <2>2, <3>1 DEF Unheard
  <2>5. ASSUME NEW k \in Jobs \ {j}, ~due'[k] PROVE Early(k)'
    <3>1. Early(k)
      BY <2>2, <2>5 DEF OnTime
    <3>. QED
      BY <2>2, <3>1 DEF Early
  <2>. QED
    BY <2>2, <2>3, <2>4, <2>5 DEF OnTime
<1>2. ASSUME NEW j \in Jobs, CancelRead(r, j) \/ RetryRead(r, j) PROVE OnTime'
  <2>1. /\ UNCHANGED <<row, bull, worker, letters, due>>
        /\ row[j].status # "none"
        /\ request'[r].job = j /\ request'[r].pc \in {"withdraw", "cancel", "reset"}
        /\ \A q \in Requests \ {r} : request'[q] = request[q]
    BY <1>2 DEF CancelRead, RetryRead, Begin, ACTIVE_STATUSES, TypeOK
  <2>2. request'[r].pc = "reset" => row[j].status \in {"FAILED", "DEAD"}
    BY <1>2 DEF CancelRead, RetryRead, Begin, TypeOK
  <2>3. ~due[j] => Early(j)
    BY DEF OnTime
  <2>. QED
    BY <2>1, <2>2, <2>3, RequestStep DEF Early
<1> DEFINE j == request[r].job
<1>3. ASSUME request[r].pc # "idle"
      PROVE  j \in Jobs /\ row[j].status # "none" /\ (~due[j] => Early(j))
  BY <1>3 DEF Engaged, OnTime, Unheard
<1>4. CASE EnqueueAdd(r)
  <2>1. j \in Jobs /\ row[j].status # "none" /\ (~due[j] => Early(j))
        /\ request[r].timed \in BOOLEAN
    BY <1>3, <1>4 DEF EnqueueAdd, TypeOK, RequestState
  <2>2. SetQueue(j, QueueAdd(j, request[r].timed, MaxAttempts))
    BY <1>4 DEF EnqueueAdd
  <2>3. /\ \A k \in Jobs \ {j} : bull'[k] = bull[k]
        /\ ~due[j] => bull'[j].state = "scheduled"
    BY <1>4, <2>1, <2>2, BudgetAssumption, AddScheduled DEF EnqueueAdd, Early
  <2>4. /\ UNCHANGED <<row, worker, letters, due>>
        /\ request'[r].job = j /\ request'[r].pc = "link"
        /\ \A q \in Requests \ {r} : request'[q] = request[q]
    BY <1>4 DEF EnqueueAdd, Step, TypeOK, RequestState
  <2> HIDE DEF j
  <2>. QED
    BY <2>1, <2>3, <2>4, RequestStep DEF Early
<1>5. CASE CancelWithdraw(r) \/ RetryReplace(r)
  <2>1. j \in Jobs /\ row[j].status # "none" /\ (~due[j] => Early(j))
    BY <1>3, <1>5 DEF CancelWithdraw, RetryReplace
  <2>2. /\ \A k \in Jobs \ {j} : bull'[k] = bull[k]
        /\ ~due[j] => bull'[j].state = "none"
    BY <1>5, <2>1, RemoveScheduled DEF CancelWithdraw, RetryReplace, Early
  <2>3. /\ UNCHANGED <<row, worker, letters, due>>
        /\ request'[r].job = j
        /\ CancelWithdraw(r) => request'[r].pc = "cancel"
        /\ RetryReplace(r) => request[r].pc = "replace"
        /\ \A q \in Requests \ {r} : request'[q] = request[q]
    BY <1>5 DEF CancelWithdraw, RetryReplace, Step, TypeOK, RequestState
  <2>4. RetryReplace(r) => due[j]
    BY <2>1, <2>3 DEF Early, RetryReplace
  <2> HIDE DEF j
  <2>. QED
    BY <1>5, <2>1, <2>2, <2>3, <2>4, RequestStep DEF Early
<1>6. CASE EnqueueLink(r) \/ CancelWrite(r)
  <2>1. j \in Jobs /\ row[j].status # "none" /\ (~due[j] => Early(j))
    BY <1>3, <1>6 DEF EnqueueLink, CancelWrite
  <2>2. /\ UNCHANGED <<bull, worker, letters, due>>
        /\ row'[j].timed = row[j].timed
        /\ row'[j].status \in {row[j].status, "CANCELLED"}
        /\ \A k \in Jobs \ {j} : row'[k] = row[k]
        /\ request'[r].pc = "idle"
        /\ \A q \in Requests \ {r} : request'[q] = request[q]
    BY <1>6, <2>1 DEF EnqueueLink, CancelWrite, SetStatus, Reply, NoRequest, TypeOK, Row
  <2> HIDE DEF j
  <2>. QED
    BY <2>1, <2>2, RequestStep DEF Early
<1>7. CASE RetryReset(r)
  <2>1. j \in Jobs /\ row[j].status # "none" /\ due[j]
    BY <1>3, <1>7 DEF RetryReset, Early
  <2>2. /\ UNCHANGED <<bull, worker, letters, due>>
        /\ row'[j].status = "QUEUED"
        /\ \A k \in Jobs \ {j} : row'[k] = row[k]
        /\ request'[r].job = j
        /\ \A q \in Requests \ {r} : request'[q] = request[q]
    BY <1>7, <2>1 DEF RetryReset, Step, TypeOK, Row, RequestState
  <2> HIDE DEF j
  <2>. QED
    BY <2>1, <2>2, RequestStep
<1>8. CASE RequestFails(r)
  <2>1. /\ UNCHANGED <<row, bull, worker, letters, due>>
        /\ request'[r].pc = "idle"
        /\ \A q \in Requests \ {r} : request'[q] = request[q]
    BY <1>8 DEF RequestFails, Reply, NoRequest, TypeOK
  <2>. QED
    BY <2>1, LeavingStep
<1>. QED
  BY <1>1, <1>2, <1>4, <1>5, <1>6, <1>7, <1>8 DEF RequestStarts, RequestProceeds

\* A worker moves on with an early job it is re-queueing.
LEMMA DriverStep ==
    ASSUME TypeOK, OnTime, NEW w \in Workers, NEW j \in Jobs,
           row'[j].status # "none", UNCHANGED <<letters, request, due>>,
           \A k \in Jobs \ {j} : row'[k] = row[k] /\ bull'[k] = bull[k],
           \A v \in Workers \ {w} : worker'[v] = worker[v],
           worker'[w].todo \subseteq worker[w].todo,
           worker'[w].pc \in Driving => worker'[w].job = j,
           ~due[j] => /\ row'[j].timed /\ row'[j].status \in {"SCHEDULED", "CANCELLED"}
                      /\ bull'[j].state \in {"none", "scheduled"}
                      /\ worker'[w].pc \in Driving =>
                            worker'[w].pc \notin JobPc /\ worker'[w].timed
    PROVE  OnTime'
<1>1. ASSUME NEW k \in Jobs \ {j}, row'[k].status = "none" PROVE Unheard(k)'
  <2>1. Unheard(k)
    BY <1>1 DEF OnTime
  <2>. QED
    BY <2>1 DEF Unheard
<1>2. ASSUME NEW k \in Jobs, ~due'[k] PROVE Early(k)'
  <2>1. Early(k)
    BY <1>2 DEF OnTime
  <2>2. CASE k = j
    BY <1>2, <2>1, <2>2 DEF Early
  <2>3. CASE k # j
    BY <2>1, <2>3 DEF Early
  <2>. QED
    BY <2>2, <2>3
<1>. QED
  BY <1>1, <1>2 DEF OnTime

LEMMA LettersAbout ==
    ASSUME NEW w \in Workers
    PROVE  \A l \in LettersOf(w) : l.job = worker[w].job
<1> DEFINE first == [by |-> w, job |-> worker[w].job, step |-> "park"]
<1>1. LettersOf(w) = {} \/ LettersOf(w) = {first}
  BY Zenon DEF LettersOf
<1>2. first.job = worker[w].job
  OBVIOUS
<1> HIDE DEF first
<1>. QED
  BY <1>1, <1>2

LEMMA OnTimeBoots ==
    ASSUME TypeOK, Engaged, OnTime, NEW w \in Workers, Boots(w)
    PROVE  OnTime'
\* The list is made of rows as they are; it is what they are timed by.
<1>1. CASE Boot(w)
  <2>1. /\ UNCHANGED <<row, bull, letters, request, due>>
        /\ worker'[w].pc \notin Driving /\ worker'[w].todo = Candidates
        /\ \A v \in Workers \ {w} : worker'[v] = worker[v]
    BY <1>1 DEF Boot, AtRest, TypeOK, Driving, JobPc
  <2>2. \A c \in Candidates :
          /\ c.timed = row[c.job].timed
          /\ row[c.job].status # "none"
    BY DEF Candidates, ACTIVE_STATUSES
  <2>3. ASSUME NEW k \in Jobs, row'[k].status = "none" PROVE Unheard(k)'
    <3>1. Unheard(k)
      BY <2>1, <2>3 DEF OnTime
    <3>. QED
      BY <2>1, <2>2, <2>3, <3>1 DEF Unheard
  <2>4. ASSUME NEW k \in Jobs, ~due'[k] PROVE Early(k)'
    <3>1. Early(k)
      BY <2>1, <2>4 DEF OnTime
    <3>. QED
      BY <2>1, <2>2, <3>1 DEF Early
  <2>. QED
    BY <2>3, <2>4 DEF OnTime
<1>2. ASSUME NEW c \in worker[w].todo, RecoverSkip(w, c) PROVE OnTime'
  <2>1. /\ UNCHANGED <<row, bull, letters, request, due>>
        /\ worker'[w].pc \notin Driving /\ worker'[w].todo \subseteq worker[w].todo
        /\ \A v \in Workers \ {w} : worker'[v] = worker[v]
    BY <1>2 DEF RecoverSkip, NextCandidate, AtRest, TypeOK, Driving, JobPc
  <2>. QED
    BY <2>1, LeavingStep
<1>3. ASSUME NEW c \in worker[w].todo, RecoverOrphan(w, c) PROVE OnTime'
  <2>1. /\ UNCHANGED <<row, bull, letters, request, due>>
        /\ worker'[w].pc = "requeue" /\ worker'[w].job = c.job
        /\ worker'[w].timed = c.timed /\ worker'[w].todo \subseteq worker[w].todo
        /\ \A v \in Workers \ {w} : worker'[v] = worker[v]
    BY <1>3 DEF RecoverOrphan, TypeOK, WorkerState
  <2>2. ASSUME NEW k \in Jobs, row'[k].status = "none" PROVE Unheard(k)'
    <3>1. Unheard(k)
      BY <2>1, <2>2 DEF OnTime
    <3>. QED
      BY <2>1, <3>1 DEF Unheard
  <2>3. ASSUME NEW k \in Jobs, ~due'[k] PROVE Early(k)'
    <3>1. Early(k)
      BY <2>1, <2>3 DEF OnTime
    <3>. QED
      BY <2>1, <3>1 DEF Early, JobPc
  <2>. QED
    BY <2>2, <2>3 DEF OnTime
<1> DEFINE j == worker[w].job
<1>4. ASSUME worker[w].pc \in {"requeue", "drop", "add"}
      PROVE  /\ j \in Jobs /\ row[j].status # "none" /\ worker[w].timed \in BOOLEAN
             /\ ~due[j] => Early(j) /\ worker[w].timed
  <2>1. j \in Jobs /\ worker[w].timed \in BOOLEAN
    BY <1>4 DEF Engaged, TypeOK, WorkerState
  <2>2. worker[w].pc \in Driving
    BY <1>4 DEF Driving
  <2>3. row[j].status # "none"
    BY <2>1, <2>2 DEF OnTime, Unheard
  <2>4. ~due[j] => Early(j)
    BY <2>1 DEF OnTime
  <2>. QED
    BY <2>1, <2>2, <2>3, <2>4 DEF Early
<1>5. CASE RecoverRow(w)
  <2>1. /\ j \in Jobs /\ row[j].status # "none"
        /\ ~due[j] => Early(j) /\ worker[w].timed
    BY <1>4, <1>5 DEF RecoverRow
  <2>2. PICK s \in {"SCHEDULED", "QUEUED"} :
          SetStatus(j, s) /\ (worker[w].timed /\ ~due[j] => s = "SCHEDULED")
    BY <1>5, Zenon DEF RecoverRow
  <2>3. /\ row'[j].status = s /\ row'[j].timed = row[j].timed
        /\ \A k \in Jobs \ {j} : row'[k] = row[k]
    BY <2>1, <2>2 DEF SetStatus, TypeOK, Row
  <2>4. /\ UNCHANGED <<bull, letters, request, due>>
        /\ worker'[w].pc \in {"drop", "add"}
        /\ worker'[w].job = j /\ worker'[w].timed = worker[w].timed
        /\ worker'[w].todo = worker[w].todo
        /\ \A v \in Workers \ {w} : worker'[v] = worker[v]
    BY <1>5 DEF RecoverRow, Goto, TypeOK, WorkerState
  <2> HIDE DEF j
  <2>5. CASE due[j]
    BY <2>1, <2>2, <2>3, <2>4, <2>5, OpenStep
  <2>6. CASE ~due[j]
    BY <2>1, <2>2, <2>3, <2>4, <2>6, DriverStep DEF Early, JobPc
  <2>. QED
    BY <2>5, <2>6
<1>6. CASE RecoverDrop(w)
  <2>1. /\ j \in Jobs /\ row[j].status # "none"
        /\ ~due[j] => Early(j) /\ worker[w].timed
    BY <1>4, <1>6 DEF RecoverDrop
  <2>2. /\ \A k \in Jobs \ {j} : bull'[k] = bull[k]
        /\ ~due[j] => bull'[j].state = "none"
    BY <1>6, <2>1, RemoveScheduled DEF RecoverDrop, Early
  <2>3. /\ UNCHANGED <<row, letters, request, due>>
        /\ worker'[w].pc = "add"
        /\ worker'[w].job = j /\ worker'[w].timed = worker[w].timed
        /\ worker'[w].todo = worker[w].todo
        /\ \A v \in Workers \ {w} : worker'[v] = worker[v]
    BY <1>6 DEF RecoverDrop, Goto, TypeOK, WorkerState
  <2> HIDE DEF j
  <2>. QED
    BY <2>1, <2>2, <2>3, DriverStep DEF Early, JobPc
<1>7. CASE RecoverAdd(w)
  <2>1. /\ j \in Jobs /\ row[j].status # "none" /\ worker[w].timed \in BOOLEAN
        /\ ~due[j] => Early(j) /\ worker[w].timed
    BY <1>4, <1>7 DEF RecoverAdd
  <2>2. SetQueue(j, QueueAdd(j, worker[w].timed, DefaultAttempts))
    BY <1>7 DEF RecoverAdd
  <2>3. /\ \A k \in Jobs \ {j} : bull'[k] = bull[k]
        /\ ~due[j] => bull'[j].state = "scheduled"
    BY <2>1, <2>2, BudgetAssumption, AddScheduled DEF Early
  <2>4. /\ UNCHANGED <<row, letters, request, due>>
        /\ worker'[w].pc \notin Driving /\ worker'[w].todo = worker[w].todo
        /\ \A v \in Workers \ {w} : worker'[v] = worker[v]
    BY <1>7 DEF RecoverAdd, NextCandidate, AtRest, TypeOK, Driving, JobPc
  <2> HIDE DEF j
  <2>. QED
    BY <2>1, <2>3, <2>4, DriverStep DEF Early, Driving
<1>8. CASE Recount(w)
  <2>1. /\ UNCHANGED <<row, bull, letters, request, due>>
        /\ worker'[w].pc \notin Driving /\ worker'[w].todo = {}
        /\ \A v \in Workers \ {w} : worker'[v] = worker[v]
    BY <1>8 DEF Recount, AtRest, Driving, JobPc, TypeOK
  <2>. QED
    BY <2>1, LeavingStep
<1>. QED
  BY <1>1, <1>2, <1>3, <1>5, <1>6, <1>7, <1>8 DEF Boots

LEMMA OnTimeDelivery ==
    ASSUME TypeOK, Engaged, OnTime, NEW w \in Workers,
           \/ Runs(w) \/ Admit(w) \/ Defer(w) \/ Fails(w)
           \/ \E j \in Jobs : Fetch(w, j)
    PROVE  OnTime'
<1> DEFINE j == worker[w].job
<1>1. ASSUME NEW k \in Jobs, bull[k].state \notin {"none", "scheduled"}
      PROVE  due[k] /\ row[k].status # "none"
  BY <1>1 DEF OnTime, Unheard, Early
<1>2. ASSUME worker[w].pc \in JobPc
      PROVE  j \in Jobs /\ due[j] /\ row[j].status # "none"
  BY <1>2 DEF Engaged, OnTime, Unheard, Early, Driving
<1>3. ASSUME NEW k \in Jobs, Fetch(w, k) PROVE OnTime'
  <2>1. /\ UNCHANGED <<row, letters, request, due>>
        /\ worker'[w].job = k /\ worker'[w].todo = {}
        /\ \A v \in Workers \ {w} : worker'[v] = worker[v]
        /\ \A i \in Jobs \ {k} : bull'[i] = bull[i]
    BY <1>3 DEF Fetch, AtRest, TypeOK
  <2>2. due[k] /\ row[k].status # "none"
    BY <1>1, <1>3 DEF Fetch
  <2>. QED
    BY <2>1, <2>2, OpenStep
<1>4. CASE \/ ReadRow(w) \/ Admit(w) \/ MarkProcessing(w) \/ PublishSucceeds(w)
           \/ \E o \in {"retryable", "permanent"} : PublishThrows(w, o)
           \/ RecordPublished(w) \/ CleanUp(w) \/ HandleRead(w) \/ HandleWrite(w)
           \/ Release(w) \/ StoreFails(w) \/ CleanUpFails(w) \/ ReleaseFails(w)
  <2>1. worker[w].pc \in JobPc /\ UNCHANGED <<bull, letters, request, due>>
    BY <1>4 DEF ReadRow, Admit, MarkProcessing, PublishSucceeds, PublishThrows,
       RecordPublished, CleanUp, HandleRead, HandleWrite, Release, StoreFails,
       CleanUpFails, ReleaseFails, JobPc, history
  <2>2. /\ worker'[w].job = j /\ worker'[w].todo = worker[w].todo
        /\ \A v \in Workers \ {w} : worker'[v] = worker[v]
    BY <1>4 DEF ReadRow, Admit, MarkProcessing, PublishSucceeds, PublishThrows,
       RecordPublished, CleanUp, HandleRead, HandleWrite, Release, StoreFails,
       CleanUpFails, ReleaseFails, Goto, End, TypeOK, WorkerState
  <2>3. \A k \in Jobs \ {j} : row'[k] = row[k]
    BY <1>4 DEF ReadRow, Admit, MarkProcessing, PublishSucceeds, PublishThrows,
       RecordPublished, CleanUp, HandleRead, HandleWrite, Release, StoreFails,
       CleanUpFails, ReleaseFails, SetStatus, TypeOK
  <2>4. j \in Jobs /\ due[j] /\ row[j].status # "none"
    BY <1>2, <2>1
  <2>5. row'[j].status # "none"
    <3>1. CASE UNCHANGED row
      BY <2>4, <3>1
    <3>2. CASE MarkProcessing(w)
      BY <2>4, <3>2 DEF MarkProcessing, TypeOK, Row
    <3>3. CASE RecordPublished(w) \/ HandleWrite(w)
      <4>1. PICK s \in Status \ {"none"} : SetStatus(j, s)
        BY <3>3 DEF RecordPublished, HandleWrite, Status
      <4>2. row[j] \in Row /\ row' = [row EXCEPT ![j].status = s]
        BY <2>4, <4>1 DEF SetStatus, TypeOK
      <4>3. row'[j].status = s
        BY <2>4, <4>2 DEF TypeOK, Row
      <4>. QED
        BY <4>3
    <3>. QED
      BY <1>4, <3>1, <3>2, <3>3 DEF ReadRow, Admit, PublishSucceeds, PublishThrows,
         CleanUp, HandleRead, Release, StoreFails, CleanUpFails, ReleaseFails
  <2> HIDE DEF j
  <2>. QED
    BY <2>1, <2>2, <2>3, <2>4, <2>5, OpenStep
<1>5. CASE Defer(w) \/ Settle(w)
  <2>1. worker[w].pc \in JobPc /\ UNCHANGED <<row, request, due>>
    BY <1>5 DEF Defer, Settle, JobPc
  <2>2. /\ worker'[w].pc \notin Driving /\ worker'[w].todo = {}
        /\ \A v \in Workers \ {w} : worker'[v] = worker[v]
    BY <1>5 DEF Defer, Settle, AtRest, Driving, JobPc, TypeOK
  <2>3. \A k \in Jobs \ {j} : bull'[k] = bull[k]
    BY <1>5 DEF Defer, Settle, TypeOK
  <2>4. \A l \in letters' : l \in letters \/ l.job = j
    <3>1. letters' = letters \/ letters' = letters \cup LettersOf(w)
      BY <1>5 DEF Defer, Settle
    <3>. QED
      BY <3>1, LettersAbout
  <2>5. j \in Jobs /\ due[j] /\ row[j].status # "none"
    BY <1>2, <2>1
  <2> HIDE DEF j
  <2>. QED
    BY <2>1, <2>2, <2>3, <2>4, <2>5, OpenStep
<1>6. CASE Crash(w)
  <2>1. /\ UNCHANGED <<row, bull, request, due>> /\ letters' \subseteq letters
        /\ worker'[w].pc \notin Driving /\ worker'[w].todo = {}
        /\ \A v \in Workers \ {w} : worker'[v] = worker[v]
    BY <1>6 DEF Crash, AtRest, Driving, JobPc, TypeOK
  <2>. QED
    BY <2>1, LeavingStep
<1>. QED
  BY <1>3, <1>4, <1>5, <1>6 DEF Runs, Fails

LEMMA OnTimeElsewhere ==
    ASSUME TypeOK, Engaged, OnTime,
           \/ \E l \in letters : Delivers(l) \/ LetterFails(l)
           \/ \E j \in Jobs : Promote(j) \/ Stall(j) \/ TimePasses(j)
    PROVE  OnTime'
<1>1. ASSUME NEW l \in letters, Delivers(l) \/ LetterFails(l) PROVE OnTime'
  <2>1. l.job \in Jobs /\ due[l.job] /\ row[l.job].status # "none"
    BY DEF TypeOK, Letter, OnTime, Unheard, Early
  <2>2. /\ UNCHANGED <<bull, worker, request, due>>
        /\ \A k \in Jobs \ {l.job} : row'[k] = row[k]
    BY <1>1 DEF Delivers, Park, MarkDead, LetterFails, SetStatus, TypeOK
  <2>3. row'[l.job].status # "none"
    BY <1>1, <2>1 DEF Delivers, Park, MarkDead, LetterFails, SetStatus, TypeOK, Row
  <2>4. \A m \in letters' : m \in letters \/ m.job = l.job
    BY <1>1 DEF Delivers, Park, MarkDead, LetterFails, TypeOK, Letter
  <2>. QED
    BY <2>1, <2>2, <2>3, <2>4, OpenStep
<1>2. ASSUME NEW j \in Jobs, Promote(j) \/ Stall(j) PROVE OnTime'
  <2>1. /\ UNCHANGED <<row, worker, letters, request, due>>
        /\ \A k \in Jobs \ {j} : bull'[k] = bull[k]
        /\ bull[j].state \in {"delayed", "active"} \/ (bull[j].state = "scheduled" /\ due[j])
    BY <1>2 DEF Promote, Stall, TypeOK
  <2>2. due[j] /\ row[j].status # "none"
    BY <2>1 DEF OnTime, Unheard, Early
  <2>. QED
    BY <2>1, <2>2, OpenStep
<1>3. ASSUME NEW j \in Jobs, TimePasses(j) PROVE OnTime'
  <2>1. /\ UNCHANGED <<row, bull, worker, letters, request>>
        /\ \A k \in Jobs : due[k] => due'[k]
    BY <1>3 DEF TimePasses, TypeOK
  <2>2. \A k \in Jobs : (Unheard(k) => Unheard(k)') /\ (Early(k) => Early(k)')
    BY <2>1 DEF Unheard, Early
  <2>. QED
    BY <2>1, <2>2 DEF OnTime
<1>. QED
  BY <1>1, <1>2, <1>3

\* Whoever has to do with a job knows of its row and of its time.
LEMMA OnTimeHolds == Spec => []OnTime
<1>1. Init => OnTime
  BY DEF Init, OnTime, Unheard, NoRecord, AtRest, NoRequest, Driving, JobPc
<1>2. TypeOK /\ Engaged /\ OnTime /\ [Next]_vars => OnTime'
  <2> SUFFICES ASSUME TypeOK, Engaged, OnTime, [Next]_vars PROVE OnTime'
    OBVIOUS
  <2>1. CASE Next
    BY <2>1, OnTimeRequests, OnTimeBoots, OnTimeDelivery, OnTimeElsewhere DEF Next
  <2>2. CASE UNCHANGED vars
    BY <2>2 DEF vars, history, OnTime, Unheard, Early
  <2>. QED
    BY <2>1, <2>2
<1>. QED
  BY <1>1, <1>2, TypeCorrect, PTL DEF Spec

\* A delivery of a scheduled job never starts before its time, recoveries and
\* re-adds after a restart included.
THEOREM NotBeforeScheduleHolds == Spec => []NotBeforeSchedule
<1>1. Engaged /\ OnTime => NotBeforeSchedule
  BY DEF Engaged, OnTime, Early, Driving, NotBeforeSchedule
<1>. QED
  BY <1>1, OnTimeHolds, TypeCorrect, PTL
-----------------------------------------------------------------------------
(* One post per record, with one worker *)

\* A worker is at one of these places with the job.
Driven(j, pcs) == \E w \in Workers : worker[w].pc \in pcs /\ worker[w].job = j

Adding(j) == \E r \in Requests : request[r].pc = "add" /\ request[r].job = j

\* Nothing delivers the job, and nothing will put it back.
Over(j) ==
    /\ bull[j].state \in {"failed", "none"}
    /\ ~Driven(j, JobPc)
    /\ Adding(j) => bull[j].state # "none"

\* The job is done with: a delivery of it would return at once.
Closed(j) ==
    /\ row[j].status \in {"COMPLETED", "CANCELLED", "DEAD"}
    /\ row[j].status = "DEAD" => Over(j)
    /\ ~Driven(j, Driving \ {"read", "release", "settle"})
    /\ \A w \in Workers : \A c \in worker[w].todo : c.job # j
    /\ Adding(j) => bull[j].state # "none"

\* A callback is under way only for a job that is over, in a process that
\* has booted.
Lettered ==
    /\ \A l \in letters : retried[l.job] = 0 => Over(l.job)
    /\ letters # {} => \A w \in Workers : worker[w].pc \notin {"down"} \cup BootPc

\* Until somebody retries a job, the request that creates it is the only one
\* to add it, and one that finds the row linked comes after the add.
Created ==
    \A r \in Requests :
        /\ request[r].pc = "replace" => retried[request[r].job] > 0
        /\ request[r].pc \in {"add", "link"} /\ retried[request[r].job] = 0 =>
              /\ ~row[request[r].job].linked
              /\ \A q \in Requests \ {r} : request[q].job = request[r].job =>
                    request[q].pc \notin {"add", "link", "withdraw"}

\* A boot works off its list before the first delivery.
Listed == \A w \in Workers : worker[w].pc \notin BootPc => worker[w].todo = {}

\* The job's post is being recorded, or what it staged removed after that.
Pending(j) ==
    \/ Driven(j, {"record"})
    \/ Driven(j, {"clean"}) /\ row[j].status \in {"COMPLETED", "CANCELLED"}

\* Records that were lost, or written over after the clean-up threw.
Lapses(j) == lost[j] + spoilt[j]

\* A job posted once more than records of it lapsed is about to be recorded, or
\* closed.
Recorded ==
    \A j \in Jobs : retried[j] = 0 =>
        \/ posts[j] <= Lapses(j)
        \/ posts[j] = Lapses(j) + 1 /\ (Pending(j) \/ Closed(j))

Steady == Lettered /\ Created /\ Listed /\ Recorded

\* One worker, taking one job at a time.
Sole == \A v, w \in Workers : v = w

\* What a step leaves of a job that nobody has retried: closed if it was, and
\* over if it was and a callback is under way for it.
Kept ==
    \A j \in Jobs : retried'[j] = 0 =>
        /\ retried[j] = 0
        /\ Over(j) /\ (\E l \in letters' : l.job = j) => Over(j)'
        /\ Closed(j) => Closed(j)'

\* A step that keeps what is over and calls nobody back.
LEMMA LetteredStep ==
    ASSUME TypeOK, Lettered, Kept,
           \A m \in letters' : \E l \in letters : l.job = m.job,
           \A w \in Workers : worker'[w].pc \in {"down"} \cup BootPc =>
               worker[w].pc \in {"down"} \cup BootPc \/ letters' = {}
    PROVE  Lettered'
<1>1. ASSUME NEW m \in letters', retried'[m.job] = 0 PROVE Over(m.job)'
  <2>1. PICK l \in letters : l.job = m.job
    OBVIOUS
  <2>2. l.job \in Jobs
    BY DEF TypeOK, Letter
  <2>3. retried[l.job] = 0
    BY <1>1, <2>1, <2>2 DEF Kept
  <2>4. Over(l.job)
    BY <2>3 DEF Lettered
  <2>5. \A k \in Jobs : k = l.job => Over(k)'
    BY <1>1, <2>1, <2>2, <2>4 DEF Kept
  <2>. QED
    BY <2>1, <2>2, <2>5
<1>. QED
  BY <1>1 DEF Lettered

\* One that moreover keeps what is closed, posts nothing and loses nothing.
LEMMA SteadyStep ==
    ASSUME TypeOK, Steady, Kept, Created', Listed',
           UNCHANGED <<posts, lost, spoilt>>,
           \A m \in letters' : \E l \in letters : l.job = m.job,
           \A w \in Workers : worker'[w].pc \in {"down"} \cup BootPc =>
               worker[w].pc \in {"down"} \cup BootPc \/ letters' = {},
           \A j \in Jobs : retried'[j] = 0 /\ Pending(j) => Pending(j)'
    PROVE  Steady'
<1>1. Lettered'
  BY LetteredStep DEF Steady
<1>2. Recorded'
  <2> SUFFICES ASSUME NEW j \in Jobs, retried'[j] = 0
               PROVE  \/ posts[j] <= Lapses(j)
                      \/ posts[j] = Lapses(j) + 1 /\ (Pending(j)' \/ Closed(j)')
    BY DEF Recorded, Lapses
  <2>. QED
    BY DEF Steady, Recorded, Kept
<1>. QED
  BY <1>1, <1>2 DEF Steady

\* A job whose row, record and requests a step leaves alone, and which no
\* worker takes up or lists.
LEMMA ApartStep ==
    ASSUME NEW j \in Jobs, row'[j].status = row[j].status, bull'[j].state = bull[j].state,
           Adding(j)' => Adding(j),
           \A v \in Workers :
               \/ worker'[v] = worker[v]
               \/ worker'[v].pc \in Driving => worker'[v].job # j,
           \A v \in Workers : \A c \in worker'[v].todo :
               c \in worker[v].todo \/ c.job # j
    PROVE  (Over(j) => Over(j)') /\ (Closed(j) => Closed(j)')
<1>1. ASSUME NEW pcs \in SUBSET Driving, ~Driven(j, pcs) PROVE ~Driven(j, pcs)'
  BY <1>1 DEF Driven
<1>2. ~Driven(j, JobPc) => ~Driven(j, JobPc)'
  BY <1>1 DEF Driving
<1>3. ~Driven(j, Driving \ {"read", "release", "settle"})
         => ~Driven(j, Driving \ {"read", "release", "settle"})'
  BY <1>1
<1>4. Over(j) => Over(j)'
  BY <1>2 DEF Over
<1>. QED
  BY <1>3, <1>4 DEF Closed

\* Nothing is created, linked or retried.
LEMMA CreatedStays ==
    ASSUME TypeOK, Engaged, Created, UNCHANGED <<request, retried>>,
           \A j \in Jobs : row'[j].linked = row[j].linked
    PROVE  Created'
BY DEF Created, Engaged

LEMMA SteadyRequests ==
    ASSUME TypeOK, Engaged, OnTime, Steady, NEW r \in Requests,
           RequestStarts(r) \/ RequestProceeds(r) \/ RequestFails(r)
    PROVE  Steady'
<1>1. UNCHANGED <<worker, letters, posts, lost, spoilt>>
  BY DEF RequestStarts, RequestProceeds, RequestFails, CreateRow, CancelRead, RetryRead,
     EnqueueAdd, EnqueueLink, CancelWithdraw, CancelWrite, RetryReset, RetryReplace, history
<1>2. Listed'
  BY <1>1 DEF Steady, Listed
<1>3. \A j \in Jobs : retried'[j] = 0 /\ Pending(j) => Pending(j)'
  <2>1. ASSUME NEW j \in Jobs, retried'[j] = 0, row[j].status \in {"COMPLETED", "CANCELLED"}
        PROVE  row'[j].status \in {"COMPLETED", "CANCELLED"}
    <3>1. row \in [Jobs -> Row] /\ retried \in [Jobs -> Nat]
      BY DEF TypeOK
    <3>2. CASE UNCHANGED row
      BY <2>1, <3>2
    <3>3. CASE \E k \in Jobs, timed \in BOOLEAN : CreateRow(r, k, timed)
      BY <2>1, <3>1, <3>3 DEF CreateRow
    <3>4. CASE EnqueueLink(r)
      BY <2>1, <3>1, <3>4 DEF EnqueueLink, Row
    <3>5. CASE CancelWrite(r)
      BY <2>1, <3>1, <3>5 DEF CancelWrite, SetStatus, Row
    <3>6. CASE RetryReset(r)
      <4>1. request[r].job # j
        BY <2>1, <3>1, <3>6 DEF RetryReset
      <4>. QED
        BY <2>1, <3>1, <3>6, <4>1 DEF RetryReset
    <3>. QED
      BY <3>2, <3>3, <3>4, <3>5, <3>6 DEF RequestStarts, RequestProceeds, RequestFails,
         CancelRead, RetryRead, EnqueueAdd, CancelWithdraw, RetryReplace
  <2>. QED
    BY <1>1, <2>1 DEF Pending, Driven
<1>. SUFFICES Kept /\ Created'
  BY <1>1, <1>2, <1>3, SteadyStep
<1> USE DEF history
<1>4. ASSUME NEW i \in Jobs, NEW timed \in BOOLEAN, CreateRow(r, i, timed)
      PROVE  Kept /\ Created'
  <2>1. /\ \A q \in Requests : request[q].pc # "idle" => request[q].job # i
        /\ \A l \in letters : l.job # i
        /\ row[i].status = "none"
    BY <1>4 DEF CreateRow, OnTime, Unheard
  <2>2. /\ UNCHANGED <<bull, retried>>
        /\ \A k \in Jobs \ {i} : row'[k] = row[k]
        /\ row'[i].linked = FALSE
        /\ request'[r].pc = "add" /\ request'[r].job = i
        /\ \A q \in Requests \ {r} : request'[q] = request[q]
    BY <1>4 DEF CreateRow, Begin, NoRow, TypeOK
  <2>3. ~Closed(i)
    BY <2>1 DEF Closed
  <2>4. Kept
    BY <1>1, <2>1, <2>2, <2>3, ApartStep DEF Kept, Adding
  <2>5. Created'
    <3>1. ASSUME NEW q \in Requests, request'[q].pc = "replace"
          PROVE  retried[request'[q].job] > 0
      BY <2>2, <3>1 DEF Steady, Created
    <3>2. ASSUME NEW q \in Requests, request'[q].pc \in {"add", "link"},
                 retried[request'[q].job] = 0
          PROVE  ~row'[request'[q].job].linked
      BY <2>1, <2>2, <3>2 DEF Steady, Created, Engaged
    <3>3. ASSUME NEW q \in Requests, request'[q].pc \in {"add", "link"},
                 retried[request'[q].job] = 0,
                 NEW p \in Requests \ {q}, request'[p].job = request'[q].job
          PROVE  request'[p].pc \notin {"add", "link", "withdraw"}
      BY <2>1, <2>2, <3>3 DEF Steady, Created
    <3>. QED
      BY <2>2, <3>1, <3>2, <3>3 DEF Created
  <2>. QED
    BY <2>4, <2>5
<1>5. ASSUME NEW i \in Jobs, CancelRead(r, i) \/ RetryRead(r, i) PROVE Kept /\ Created'
  <2>1. /\ UNCHANGED <<row, bull, retried>>
        /\ request'[r].pc \in {"withdraw", "cancel", "reset"}
        /\ request'[r].pc = "withdraw" => row[i].linked
        /\ request'[r].job = i
        /\ \A q \in Requests \ {r} : request'[q] = request[q]
    BY <1>5 DEF CancelRead, RetryRead, Begin, TypeOK
  <2>2. Kept
    BY <1>1, <2>1, ApartStep DEF Kept, Adding
  <2>3. Created'
    BY <2>1 DEF Steady, Created
  <2>. QED
    BY <2>2, <2>3
<1> DEFINE j == request[r].job
<1>6. CASE RequestFails(r)
  <2>1. /\ UNCHANGED <<row, bull, retried>>
        /\ request'[r].pc = "idle"
        /\ \A q \in Requests \ {r} : request'[q] = request[q]
    BY <1>6 DEF RequestFails, Reply, NoRequest, TypeOK
  <2>2. Kept
    BY <1>1, <2>1, ApartStep DEF Kept, Adding
  <2>3. Created'
    BY <2>1 DEF Steady, Created
  <2>. QED
    BY <2>2, <2>3
<1>7. request[r].pc # "idle" => j \in Jobs
  BY DEF Engaged
\* The add is dropped when the job is over: its record is in the way.
<1>8. CASE EnqueueAdd(r)
  <2>1. j \in Jobs /\ request[r].pc = "add"
    BY <1>7, <1>8 DEF EnqueueAdd
  <2>2. /\ UNCHANGED <<row, retried>>
        /\ \A k \in Jobs \ {j} : bull'[k] = bull[k]
        /\ bull[j].state # "none" => bull'[j] = bull[j]
        /\ request'[r].pc = "link" /\ request'[r].job = j
        /\ \A q \in Requests \ {r} : request'[q] = request[q]
    BY <1>8, <2>1 DEF EnqueueAdd, SetQueue, QueueAdd, Step, TypeOK, RequestState
  <2> HIDE DEF j
  <2>3. ASSUME NEW k \in Jobs, bull'[k].state = bull[k].state
        PROVE  (Over(k) => Over(k)') /\ (Closed(k) => Closed(k)')
    BY <1>1, <2>2, <2>3, ApartStep DEF Adding
  <2>4. Adding(j)
    BY <2>1 DEF Adding, j
  <2>5. Over(j) \/ Closed(j) => bull'[j].state = bull[j].state
    BY <2>2, <2>4 DEF Over, Closed
  <2>6. \A k \in Jobs : (Over(k) => Over(k)') /\ (Closed(k) => Closed(k)')
    BY <2>2, <2>3, <2>5
  <2>7. Kept
    BY <2>2, <2>6 DEF Kept
  <2>8. Created'
    BY <2>1, <2>2 DEF Steady, Created, j
  <2>. QED
    BY <2>7, <2>8
<1>9. CASE EnqueueLink(r)
  <2>1. j \in Jobs /\ request[r].pc = "link"
    BY <1>7, <1>9 DEF EnqueueLink
  <2>2. /\ UNCHANGED <<bull, retried>>
        /\ \A k \in Jobs \ {j} : row'[k] = row[k]
        /\ row'[j].status = row[j].status
        /\ request'[r].pc = "idle"
        /\ \A q \in Requests \ {r} : request'[q] = request[q]
    BY <1>9, <2>1 DEF EnqueueLink, Reply, NoRequest, TypeOK, Row
  <2> HIDE DEF j
  <2>3. Kept
    BY <1>1, <2>2, ApartStep DEF Kept, Adding
  <2>4. ASSUME NEW q \in Requests \ {r}, request[q].pc \in {"add", "link"},
               retried[request[q].job] = 0
        PROVE  request[q].job \in Jobs \ {j}
    BY <2>1, <2>4 DEF Steady, Created, Engaged, j
  <2>5. Created'
    BY <2>2, <2>4 DEF Steady, Created
  <2>. QED
    BY <2>3, <2>5
\* Whoever withdraws a job that nobody has retried found it linked.
<1>10. CASE CancelWithdraw(r)
  <2>1. j \in Jobs /\ request[r].pc = "withdraw"
    BY <1>7, <1>10 DEF CancelWithdraw
  <2>2. /\ UNCHANGED <<row, retried>>
        /\ \A k \in Jobs \ {j} : bull'[k] = bull[k]
        /\ bull'[j] \in {bull[j], NoRecord}
        /\ request'[r].pc = "cancel" /\ request'[r].job = j
        /\ \A q \in Requests \ {r} : request'[q] = request[q]
    BY <1>10, <2>1 DEF CancelWithdraw, AfterRemove, SetQueue, Step, TypeOK, RequestState
  <2> HIDE DEF j
  <2>3. retried[j] = 0 => ~Adding(j)
    BY <2>1 DEF Adding, Steady, Created, j
  <2>4. \A k \in Jobs : Adding(k)' => Adding(k)
    BY <2>2 DEF Adding
  <2>5. ASSUME NEW k \in Jobs, retried[k] = 0, bull'[k] = NoRecord, ~Adding(k)
        PROVE  (Over(k) => Over(k)') /\ (Closed(k) => Closed(k)')
    BY <1>1, <2>2, <2>4, <2>5 DEF Over, Closed, Driven, NoRecord
  <2>6. ASSUME NEW k \in Jobs, bull'[k] = bull[k]
        PROVE  (Over(k) => Over(k)') /\ (Closed(k) => Closed(k)')
    BY <1>1, <2>2, <2>4, <2>6, ApartStep
  <2>7. Kept
    BY <2>2, <2>3, <2>5, <2>6 DEF Kept
  <2>8. Created'
    BY <2>2 DEF Steady, Created
  <2>. QED
    BY <2>7, <2>8
\* The update names the id alone, so it may land on a closed job: it stays closed.
<1>11. CASE CancelWrite(r)
  <2>1. j \in Jobs
    BY <1>7, <1>11 DEF CancelWrite
  <2>2. /\ UNCHANGED <<bull, retried>>
        /\ \A k \in Jobs \ {j} : row'[k] = row[k]
        /\ row'[j].status = "CANCELLED" /\ row'[j].linked = row[j].linked
        /\ request'[r].pc = "idle"
        /\ \A q \in Requests \ {r} : request'[q] = request[q]
    BY <1>11, <2>1 DEF CancelWrite, SetStatus, Reply, NoRequest, TypeOK, Row
  <2> HIDE DEF j
  <2>3. \A k \in Jobs : Adding(k)' => Adding(k)
    BY <2>2 DEF Adding
  <2>4. Kept
    BY <1>1, <2>1, <2>2, <2>3 DEF Kept, Over, Closed, Driven
  <2>5. Created'
    BY <2>2 DEF Steady, Created, Engaged
  <2>. QED
    BY <2>4, <2>5
<1>12. CASE RetryReset(r)
  <2>1. j \in Jobs
    BY <1>7, <1>12 DEF RetryReset
  <2>2. /\ UNCHANGED bull
        /\ \A k \in Jobs \ {j} : row'[k] = row[k] /\ retried'[k] = retried[k]
        /\ request'[r].pc = "replace" /\ request'[r].job = j
        /\ \A q \in Requests \ {r} : request'[q] = request[q]
    BY <1>12, <2>1 DEF RetryReset, Step, TypeOK, RequestState
  <2>3. retried'[j] > 0
    BY <1>12, <2>1 DEF RetryReset, TypeOK
  <2> HIDE DEF j
  <2>4. Kept
    BY <1>1, <2>2, <2>3, ApartStep DEF Kept, Adding
  <2>5. Created'
    BY <2>2, <2>3 DEF Steady, Created, Engaged
  <2>. QED
    BY <2>4, <2>5
<1>13. CASE RetryReplace(r)
  <2>1. j \in Jobs /\ retried[j] > 0
    BY <1>7, <1>13 DEF RetryReplace, Steady, Created
  <2>2. /\ UNCHANGED <<row, retried>>
        /\ \A k \in Jobs \ {j} : bull'[k] = bull[k]
        /\ request'[r].pc = "add" /\ request'[r].job = j
        /\ \A q \in Requests \ {r} : request'[q] = request[q]
    BY <1>13, <2>1 DEF RetryReplace, SetQueue, Step, TypeOK, RequestState
  <2> HIDE DEF j
  <2>3. Kept
    BY <1>1, <2>1, <2>2, ApartStep DEF Kept, Adding
  <2>4. Created'
    BY <2>1, <2>2 DEF Steady, Created
  <2>. QED
    BY <2>3, <2>4
<1> HIDE DEF j
<1>. QED
  BY <1>4, <1>5, <1>6, <1>8, <1>9, <1>10, <1>11, <1>12, <1>13
  DEF RequestStarts, RequestProceeds

\* The one worker boots: no callback is under way and nothing is delivered,
\* and what it lists and re-queues was active, so not closed.
LEMMA SteadyBoots ==
    ASSUME Sole, TypeOK, Engaged, OnTime, Steady, NEW w \in Workers, Boots(w)
    PROVE  Steady'
<1>1. /\ UNCHANGED <<letters, request, retried, posts, lost, spoilt>>
      /\ \A v \in Workers : v = w
      /\ worker[w].pc \in {"down"} \cup BootPc
  BY DEF Sole, Boots, Boot, RecoverSkip, RecoverOrphan, RecoverRow, RecoverDrop, RecoverAdd,
     Recount, history, BootPc
<1>2. letters' = {} /\ \A j \in Jobs : ~Pending(j)
  BY <1>1 DEF Steady, Lettered, Pending, Driven, BootPc
<1>3. \A j \in Jobs : Adding(j)' => Adding(j)
  BY <1>1 DEF Adding
<1>4. SUFFICES Kept /\ Created' /\ Listed'
  BY <1>1, <1>2, SteadyStep
<1> USE DEF AtRest, TypeOK
<1>5. CASE Boot(w)
  <2>1. /\ UNCHANGED <<row, bull>>
        /\ worker'[w].pc \notin Driving
        /\ worker'[w].pc \notin BootPc => worker'[w].todo = {}
        /\ worker'[w].todo = Candidates
    BY <1>5 DEF Boot, Driving, JobPc, BootPc
  <2>2. ASSUME NEW j \in Jobs, Over(j) PROVE Over(j)'
    BY <1>1, <1>3, <2>1, <2>2 DEF Over, Driven, Driving
  <2>3. ASSUME NEW j \in Jobs, Closed(j) PROVE Closed(j)'
    <3>1. \A c \in Candidates : c.job # j
      BY <2>3 DEF Candidates, Closed, ACTIVE_STATUSES
    <3>. QED
      BY <1>1, <1>3, <2>1, <2>2, <2>3, <3>1 DEF Closed, Driven
  <2>4. Listed'
    BY <1>1, <2>1 DEF Listed
  <2>5. Created'
    BY <1>1, <2>1, CreatedStays DEF Steady
  <2>. QED
    BY <1>1, <2>2, <2>3, <2>4, <2>5 DEF Kept
<1>6. CASE \E c \in worker[w].todo : RecoverSkip(w, c)
  <2>1. /\ UNCHANGED <<row, bull>>
        /\ worker'[w].pc \notin Driving
        /\ worker'[w].pc \notin BootPc => worker'[w].todo = {}
        /\ worker'[w].todo \subseteq worker[w].todo
    BY <1>6 DEF RecoverSkip, NextCandidate, Driving, JobPc, BootPc
  <2>2. Kept
    BY <1>1, <1>3, <2>1, ApartStep DEF Kept
  <2>3. Listed'
    BY <1>1, <2>1 DEF Listed
  <2>4. Created'
    BY <1>1, <2>1, CreatedStays DEF Steady
  <2>. QED
    BY <2>2, <2>3, <2>4
<1>7. ASSUME NEW c \in worker[w].todo, RecoverOrphan(w, c) PROVE Kept /\ Created' /\ Listed'
  <2>1. /\ UNCHANGED <<row, bull>>
        /\ worker'[w].pc = "requeue" /\ worker'[w].job = c.job
        /\ worker'[w].todo \subseteq worker[w].todo
    BY <1>7 DEF RecoverOrphan, WorkerState
  <2>2. ASSUME NEW j \in Jobs, Over(j) PROVE Over(j)'
    BY <1>1, <1>3, <2>1, <2>2 DEF Over, Driven, JobPc
  <2>3. ASSUME NEW j \in Jobs, Closed(j) PROVE Closed(j)'
    BY <1>1, <1>3, <2>1, <2>2, <2>3 DEF Closed, Driven
  <2>4. Listed'
    BY <1>1, <2>1 DEF Listed, BootPc
  <2>5. Created'
    BY <1>1, <2>1, CreatedStays DEF Steady
  <2>. QED
    BY <1>1, <2>2, <2>3, <2>4, <2>5 DEF Kept
<1> DEFINE i == worker[w].job
<1>8. CASE RecoverRow(w) \/ RecoverDrop(w) \/ RecoverAdd(w)
  <2>1. worker[w].pc \in {"requeue", "drop", "add"} /\ i \in Jobs
    BY <1>8 DEF RecoverRow, RecoverDrop, RecoverAdd, Engaged
  <2>2. worker[w].pc \notin JobPc /\ worker[w].pc \in Driving \ {"read", "release", "settle"}
    BY <2>1 DEF JobPc, Driving
  <2>3. /\ \A k \in Jobs \ {i} : row'[k] = row[k] /\ bull'[k] = bull[k]
        /\ row'[i].linked = row[i].linked
    BY <1>8, <2>1 DEF RecoverRow, RecoverDrop, RecoverAdd, SetStatus, SetQueue, Row
  <2>4. /\ worker'[w].pc \notin JobPc
        /\ worker'[w].pc \in Driving => worker'[w].job = i
        /\ worker'[w].pc \notin BootPc => worker'[w].todo = {}
        /\ worker'[w].todo \subseteq worker[w].todo
    <3>1. CASE RecoverRow(w) \/ RecoverDrop(w)
      <4>1. PICK p \in {"drop", "add"} : Goto(w, p)
        BY <3>1 DEF RecoverRow, RecoverDrop
      <4>2. worker' = [worker EXCEPT ![w].pc = p] /\ worker[w] \in WorkerState
        BY <4>1 DEF Goto
      <4>3. worker'[w].pc = p /\ worker'[w].job = i /\ worker'[w].todo = worker[w].todo
        BY <4>2 DEF WorkerState
      <4>. QED
        BY <4>3 DEF JobPc, BootPc
    <3>2. CASE RecoverAdd(w)
      <4>1. NextCandidate(w, worker[w].todo)
        BY <3>2 DEF RecoverAdd
      <4>2. worker'[w].pc \in {"recount", "check"} /\ worker'[w].todo = worker[w].todo
        BY <4>1 DEF NextCandidate
      <4>. QED
        BY <4>2 DEF Driving, JobPc, BootPc
    <3>. QED
      BY <1>8, <3>1, <3>2
  <2>5. ~Closed(i)
    BY <2>1, <2>2 DEF Closed, Driven
  <2> HIDE DEF i
  <2>6. ASSUME NEW k \in Jobs \ {i} PROVE (Over(k) => Over(k)') /\ (Closed(k) => Closed(k)')
    BY <1>1, <1>3, <2>3, <2>4, ApartStep
  <2>7. Kept
    BY <1>1, <1>2, <2>5, <2>6 DEF Kept
  <2>8. Listed'
    BY <1>1, <2>4 DEF Listed
  <2>9. Created'
    BY <1>1, <2>1, <2>3, CreatedStays DEF Steady
  <2>. QED
    BY <2>7, <2>8, <2>9
<1> HIDE DEF i
<1>9. CASE Recount(w)
  <2>1. /\ UNCHANGED <<row, bull>>
        /\ worker'[w].pc \notin Driving /\ worker'[w].todo = {}
    BY <1>9 DEF Recount, Driving, JobPc
  <2>2. Kept
    BY <1>1, <1>3, <2>1, ApartStep DEF Kept
  <2>3. Listed'
    BY <1>1, <2>1 DEF Listed
  <2>4. Created'
    BY <1>1, <2>1, CreatedStays DEF Steady
  <2>. QED
    BY <2>2, <2>3, <2>4
<1>. QED
  BY <1>5, <1>6, <1>7, <1>8, <1>9 DEF Boots

\* What the one worker is delivering is not over; when it is closed, the
\* delivery is about to read that, or has.
Delivering(w, i) ==
    /\ worker[w].job = i /\ bull[i].state = "active" /\ worker[w].todo = {}
    /\ ~Over(i)
    /\ Closed(i) => /\ worker[w].pc \in {"read", "release", "settle"}
                    /\ row[i].status \in {"COMPLETED", "CANCELLED"}

LEMMA DeliveringHolds ==
    ASSUME Engaged, Locked, Listed, NEW w \in Workers, worker[w].pc \in JobPc
    PROVE  worker[w].job \in Jobs /\ Delivering(w, worker[w].job)
<1> DEFINE i == worker[w].job
<1>1. i \in Jobs /\ bull[i].state = "active" /\ worker[w].todo = {}
  BY DEF Engaged, Locked, Listed, JobPc, BootPc
<1>2. ~Over(i)
  BY <1>1 DEF Over
<1>. QED
  BY <1>1, <1>2 DEF Delivering, Closed, Driven, Driving

\* A step within the delivery.
LEMMA RunKeeps ==
    ASSUME Sole, TypeOK, Engaged, Steady, NEW w \in Workers, NEW i \in Jobs,
           Delivering(w, i), worker[w].pc \in JobPc,
           UNCHANGED <<bull, letters, request, retried>>,
           \A k \in Jobs \ {i} : row'[k] = row[k], row'[i].linked = row[i].linked,
           worker'[w].pc \in JobPc, worker'[w].job = i, worker'[w].todo = {},
           Closed(i) => Closed(i)'
    PROVE  Kept /\ Lettered' /\ Created' /\ Listed'
<1>1. \A v \in Workers : v = w
  BY DEF Sole
<1>2. \A k \in Jobs : Adding(k)' => Adding(k)
  BY DEF Adding
<1>3. \A k \in Jobs \ {i} : (Over(k) => Over(k)') /\ (Closed(k) => Closed(k)')
  BY <1>1, <1>2, ApartStep
<1>4. Kept
  BY <1>3 DEF Kept, Delivering
<1>5. Lettered'
  BY <1>1, <1>4, LetteredStep DEF Steady, JobPc, BootPc
<1>6. Listed'
  BY <1>1 DEF Listed
<1>7. Created'
  BY CreatedStays DEF Steady
<1>. QED
  BY <1>4, <1>5, <1>6, <1>7

\* A step that posts one job, or records it, or loses the record.
LEMMA RecordedStep ==
    ASSUME Recorded, Kept, NEW i \in Jobs,
           \A k \in Jobs \ {i} : /\ posts'[k] = posts[k] /\ Lapses(k)' = Lapses(k)
                                 /\ ~Pending(k),
           retried[i] = 0 => \/ posts'[i] <= Lapses(i)'
                             \/ posts'[i] = Lapses(i)' + 1 /\ (Pending(i)' \/ Closed(i)')
    PROVE  Recorded'
<1> SUFFICES ASSUME NEW k \in Jobs, retried'[k] = 0
             PROVE  \/ posts'[k] <= Lapses(k)'
                    \/ posts'[k] = Lapses(k)' + 1 /\ (Pending(k)' \/ Closed(k)')
  BY DEF Recorded
<1>1. retried[k] = 0 /\ (Closed(k) => Closed(k)')
  BY DEF Kept
<1>2. CASE k = i
  BY <1>1, <1>2
<1>3. CASE k # i
  BY <1>1, <1>3 DEF Recorded
<1>. QED
  BY <1>2, <1>3

LEMMA SteadyRuns ==
    ASSUME Sole, TypeOK, Engaged, Exclusive, Steady, NEW w \in Workers, NEW i \in Jobs,
           Delivering(w, i), UNCHANGED <<request, retried>>,
           \/ PublishSucceeds(w) \/ RecordPublished(w) \/ CleanUp(w) \/ CleanUpFails(w)
           \/ StoreFails(w) /\ worker[w].pc = "record"
    PROVE  Steady'
<1>1. /\ \A v \in Workers : v = w
      /\ worker[w].pc \in {"publish", "record", "clean"}
  BY DEF Sole, PublishSucceeds, RecordPublished, CleanUp, CleanUpFails
<1>2. worker[w].job = i /\ bull[i].state = "active" /\ worker[w].todo = {} /\ ~Closed(i)
  BY <1>1 DEF Delivering
<1>3. \A k \in Jobs \ {i} : ~Pending(k)
  BY <1>1, <1>2 DEF Pending, Driven
<1>4. posts[i] \in Nat /\ lost[i] \in Nat /\ spoilt[i] \in Nat
  BY DEF TypeOK
<1>5. retried[i] = 0 => \/ posts[i] <= Lapses(i)
                        \/ /\ posts[i] = Lapses(i) + 1
                           /\ \/ worker[w].pc = "record"
                              \/ /\ worker[w].pc = "clean"
                                 /\ row[i].status \in {"COMPLETED", "CANCELLED"}
  BY <1>1, <1>2 DEF Steady, Recorded, Pending, Driven
<1>6. CASE PublishSucceeds(w)
  <2>1. /\ worker[w].pc = "publish" /\ UNCHANGED <<row, bull, letters, lost, spoilt>>
        /\ posts' = [posts EXCEPT ![i] = @ + 1]
        /\ worker' = [worker EXCEPT ![w].pc = "record"]
    BY <1>2, <1>6 DEF PublishSucceeds, Goto
  <2>2. worker'[w].pc = "record" /\ worker'[w].job = i /\ worker'[w].todo = {}
    BY <1>2, <2>1 DEF TypeOK, WorkerState
  <2>3. Kept /\ Lettered' /\ Created' /\ Listed'
    BY <1>1, <1>2, <2>1, <2>2, RunKeeps DEF JobPc
  <2>4. /\ posts'[i] = posts[i] + 1 /\ Lapses(i)' = Lapses(i)
        /\ \A k \in Jobs \ {i} : posts'[k] = posts[k] /\ Lapses(k)' = Lapses(k)
    BY <2>1 DEF TypeOK, Lapses
  <2>5. retried[i] = 0 => posts'[i] <= Lapses(i)' \/ posts'[i] = Lapses(i)' + 1
    BY <1>4, <1>5, <2>1, <2>4 DEF Lapses
  <2>6. Pending(i)'
    BY <2>2 DEF Pending, Driven
  <2>7. Recorded'
    BY <1>3, <2>3, <2>4, <2>5, <2>6, RecordedStep DEF Steady
  <2>. QED
    BY <2>3, <2>7 DEF Steady
\* The record is written while the delivery holds its lock.
<1>7. CASE RecordPublished(w)
  <2>1. /\ worker[w].pc = "record" /\ UNCHANGED <<bull, letters, posts, lost, spoilt>>
        /\ row' = [row EXCEPT ![i].status = "COMPLETED"]
        /\ worker' = [worker EXCEPT ![w].pc = "clean"]
    BY <1>2, <1>7 DEF RecordPublished, SetStatus, Goto, history
  <2>2. worker'[w].pc = "clean" /\ worker'[w].job = i /\ worker'[w].todo = {}
    BY <1>2, <2>1 DEF TypeOK, WorkerState
  <2>3. /\ \A k \in Jobs \ {i} : row'[k] = row[k]
        /\ row'[i].linked = row[i].linked /\ row'[i].status = "COMPLETED"
    BY <2>1 DEF TypeOK, Row
  <2>4. Kept /\ Lettered' /\ Created' /\ Listed'
    BY <1>1, <1>2, <2>1, <2>2, <2>3, RunKeeps DEF JobPc
  <2>5. Pending(i)' /\ \A k \in Jobs : Lapses(k)' = Lapses(k)
    BY <2>1, <2>2, <2>3 DEF Pending, Driven, Lapses
  <2>6. Recorded'
    BY <1>3, <1>5, <2>1, <2>4, <2>5, RecordedStep DEF Steady
  <2>. QED
    BY <2>4, <2>6 DEF Steady
\* What was posted without a record is counted as lost.
<1>8. CASE StoreFails(w) /\ worker[w].pc = "record"
  <2>1. /\ UNCHANGED <<row, bull, letters, posts, spoilt>>
        /\ lost' = [lost EXCEPT ![i] = @ + 1]
        /\ worker' = [worker EXCEPT ![w].pc = "handle", ![w].outcome = "retryable"]
    BY <1>2, <1>8 DEF StoreFails, LostPost, AfterRefusal
  <2>2. worker'[w].pc = "handle" /\ worker'[w].job = i /\ worker'[w].todo = {}
    BY <1>2, <2>1 DEF TypeOK, WorkerState
  <2>3. Kept /\ Lettered' /\ Created' /\ Listed'
    BY <1>1, <1>2, <2>1, <2>2, RunKeeps DEF JobPc
  <2>4. lost'[i] = lost[i] + 1 /\ \A k \in Jobs \ {i} : Lapses(k)' = Lapses(k)
    BY <2>1 DEF TypeOK, Lapses
  <2>5. retried[i] = 0 => posts'[i] <= Lapses(i)'
    BY <1>4, <1>5, <2>1, <2>4 DEF Lapses
  <2>6. Recorded'
    BY <1>3, <2>1, <2>3, <2>4, <2>5, RecordedStep DEF Steady
  <2>. QED
    BY <2>3, <2>6 DEF Steady
\* From here on nothing reopens the job.
<1>9. CASE CleanUp(w)
  <2>1. /\ worker[w].pc = "clean" /\ UNCHANGED <<row, bull, letters, posts, lost, spoilt>>
        /\ worker' = [worker EXCEPT ![w].pc = "release"]
    BY <1>9 DEF CleanUp, Goto, history
  <2>2. worker'[w].pc = "release" /\ worker'[w].job = i /\ worker'[w].todo = {}
    BY <1>2, <2>1 DEF TypeOK, WorkerState
  <2>3. Kept /\ Lettered' /\ Created' /\ Listed'
    BY <1>1, <1>2, <2>1, <2>2, RunKeeps DEF JobPc
  <2>4. ASSUME row[i].status \in {"COMPLETED", "CANCELLED"} PROVE Closed(i)'
    BY <1>1, <1>2, <2>1, <2>2, <2>4 DEF Closed, Driven
  <2>5. \A k \in Jobs : Lapses(k)' = Lapses(k)
    BY <2>1 DEF Lapses
  <2>6. Recorded'
    BY <1>3, <1>5, <2>1, <2>3, <2>4, <2>5, RecordedStep DEF Steady
  <2>. QED
    BY <2>3, <2>6 DEF Steady
<1>10. CASE CleanUpFails(w)
  <2>1. /\ UNCHANGED <<row, bull, letters, posts, lost>>
        /\ spoilt' = [spoilt EXCEPT ![i] = @ + 1]
        /\ worker' = [worker EXCEPT ![w].pc = "handle", ![w].outcome = "retryable"]
    BY <1>2, <1>10 DEF CleanUpFails
  <2>2. worker'[w].pc = "handle" /\ worker'[w].job = i /\ worker'[w].todo = {}
    BY <1>2, <2>1 DEF TypeOK, WorkerState
  <2>3. Kept /\ Lettered' /\ Created' /\ Listed'
    BY <1>1, <1>2, <2>1, <2>2, RunKeeps DEF JobPc
  <2>4. spoilt'[i] = spoilt[i] + 1 /\ \A k \in Jobs \ {i} : Lapses(k)' = Lapses(k)
    BY <2>1 DEF TypeOK, Lapses
  <2>5. retried[i] = 0 => posts'[i] <= Lapses(i)'
    BY <1>4, <1>5, <2>1, <2>4 DEF Lapses
  <2>6. Recorded'
    BY <1>3, <2>1, <2>3, <2>4, <2>5, RecordedStep DEF Steady
  <2>. QED
    BY <2>3, <2>6 DEF Steady
<1>. QED
  BY <1>6, <1>7, <1>8, <1>9, <1>10

\* The one worker's delivery: a closed job goes from the read to the end.
LEMMA SteadyDelivery ==
    ASSUME Sole, TypeOK, Engaged, Exclusive, Steady, NEW w \in Workers,
           \/ Runs(w) \/ Admit(w) \/ Defer(w) \/ Fails(w)
           \/ \E i \in Jobs : Fetch(w, i)
    PROVE  Steady'
<1>1. UNCHANGED <<request, retried>> /\ \A v \in Workers : v = w
  BY DEF Sole, Runs, Fails, Admit, Defer, Crash, StoreFails, CleanUpFails, ReleaseFails,
     Fetch, ReadRow, MarkProcessing, PublishSucceeds, PublishThrows, RecordPublished, CleanUp,
     HandleRead, HandleWrite, Release, Settle, history
<1>2. \A k \in Jobs : Adding(k)' => Adding(k)
  BY <1>1 DEF Adding
<1>3. ASSUME worker[w].pc \in JobPc PROVE \E i \in Jobs : Delivering(w, i)
  BY <1>3, DeliveringHolds DEF Exclusive, Steady
\* Taking a job up: it was waiting, so it was not over.
<1>4. ASSUME NEW i \in Jobs, Fetch(w, i) PROVE Steady'
  <2>1. /\ UNCHANGED <<row, letters, posts, lost, spoilt>>
        /\ worker[w].pc = "idle" /\ bull[i].state = "waiting"
        /\ worker'[w].pc \in {"read", "settle"} /\ worker'[w].job = i
        /\ worker'[w].todo = {}
        /\ \A k \in Jobs \ {i} : bull'[k] = bull[k]
    BY <1>4 DEF Fetch, AtRest, TypeOK, history
  <2>2. bull'[i].state = "active"
    BY <1>4, StateSet DEF Fetch, TypeOK
  <2>3. ~Over(i)
    BY <2>1 DEF Over
  <2>4. Closed(i) => Closed(i)'
    BY <1>1, <1>2, <2>1, <2>2, <2>3 DEF Closed, Driven
  <2>5. \A k \in Jobs \ {i} : (Over(k) => Over(k)') /\ (Closed(k) => Closed(k)')
    BY <1>1, <1>2, <2>1, ApartStep
  <2>6. Kept
    BY <1>1, <2>3, <2>4, <2>5 DEF Kept
  <2>7. Listed'
    BY <1>1, <2>1 DEF Listed
  <2>8. Created'
    BY <1>1, <2>1, CreatedStays DEF Steady
  <2>. QED
    BY <1>1, <2>1, <2>6, <2>7, <2>8, SteadyStep DEF BootPc, Pending, Driven
<1>5. CASE \/ ReadRow(w) \/ Admit(w) \/ MarkProcessing(w)
           \/ \E o \in {"retryable", "permanent"} : PublishThrows(w, o)
           \/ HandleRead(w) \/ HandleWrite(w) \/ Release(w) \/ ReleaseFails(w)
           \/ StoreFails(w) /\ worker[w].pc # "record"
  <2>1. /\ worker[w].pc \in JobPc \ {"record", "clean", "settle"}
        /\ UNCHANGED <<bull, letters, posts, lost, spoilt>>
    BY <1>5 DEF ReadRow, Admit, MarkProcessing, PublishThrows, HandleRead, HandleWrite,
       Release, ReleaseFails, StoreFails, LostPost, history, JobPc
  <2>2. PICK i \in Jobs : Delivering(w, i)
    BY <1>3, <2>1
  <2>3. /\ worker[w].job = i /\ worker[w].todo = {} /\ bull[i].state = "active"
        /\ Closed(i) => worker[w].pc \in {"read", "release"} /\ Finished(row[i].status)
    BY <2>1, <2>2 DEF Delivering, Finished
  <2>4. /\ worker'[w].job = i /\ worker'[w].todo = {} /\ worker'[w].pc \in JobPc
    <3>1. CASE StoreFails(w)
      <4>1. AfterRefusal(worker[w].pc) \in JobPc
        BY <3>1 DEF StoreFails, AfterRefusal, JobPc
      <4>. QED
        BY <2>3, <3>1, <4>1 DEF StoreFails, TypeOK, WorkerState
    <3>2. CASE ~StoreFails(w)
      BY <1>5, <2>3, <3>2 DEF ReadRow, Admit, MarkProcessing, PublishThrows, HandleRead,
         HandleWrite, Release, ReleaseFails, Goto, End, TypeOK, WorkerState, JobPc
    <3>. QED
      BY <3>1, <3>2
  <2>5. /\ \A k \in Jobs \ {i} : row'[k] = row[k]
        /\ row'[i].linked = row[i].linked
    BY <1>5, <2>3 DEF ReadRow, Admit, MarkProcessing, PublishThrows, HandleRead, HandleWrite,
       Release, ReleaseFails, StoreFails, SetStatus, TypeOK, Row
  <2>6. ASSUME Closed(i) PROVE Closed(i)'
    <3>1. worker[w].pc \in {"read", "release"} /\ Finished(row[i].status)
      BY <2>3, <2>6
    <3>2. \/ ReadRow(w) /\ End(w, "ok")
          \/ Release(w) \/ ReleaseFails(w)
          \/ StoreFails(w) /\ worker[w].pc = "read"
      BY <1>5, <2>3, <3>1
      DEF ReadRow, Admit, MarkProcessing, PublishThrows, HandleRead, HandleWrite, StoreFails
    <3>3. UNCHANGED row
      BY <3>2 DEF ReadRow, Release, ReleaseFails, StoreFails
    <3>4. worker'[w].pc = "settle"
      <4>1. CASE Release(w)
        BY <4>1, GotoTyped DEF Release, TypeOK, WorkerPc, JobPc
      <4>2. CASE ~Release(w)
        <5>1. \E o \in Outcome : worker' = [worker EXCEPT ![w].pc = "settle", ![w].outcome = o]
          BY <3>2, <4>2 DEF ReleaseFails, StoreFails, AfterRefusal, End, Outcome
        <5>. QED
          BY <5>1, OutcomeTyped DEF TypeOK, WorkerPc, JobPc
      <4>. QED
        BY <4>1, <4>2
    <3>5. row[i].status # "DEAD"
      BY <3>1 DEF Finished
    <3>. QED
      BY <1>1, <1>2, <2>1, <2>3, <2>4, <2>6, <3>3, <3>4, <3>5 DEF Closed, Driven
  <2>7. Kept /\ Created' /\ Listed'
    BY <1>1, <2>1, <2>2, <2>4, <2>5, <2>6, RunKeeps
  <2>8. \A k \in Jobs : ~Pending(k)
    BY <1>1, <2>1 DEF Pending, Driven
  <2>. QED
    BY <1>1, <2>1, <2>4, <2>7, <2>8, SteadyStep DEF JobPc, BootPc
<1>6. CASE \/ PublishSucceeds(w) \/ RecordPublished(w) \/ CleanUp(w) \/ CleanUpFails(w)
           \/ StoreFails(w) /\ worker[w].pc = "record"
  <2>1. PICK i \in Jobs : Delivering(w, i)
    BY <1>3, <1>6 DEF PublishSucceeds, RecordPublished, CleanUp, CleanUpFails, JobPc
  <2>. QED
    BY <1>1, <1>6, <2>1, SteadyRuns
<1>7. CASE Crash(w)
  <2>1. /\ UNCHANGED <<row, bull, posts, spoilt>>
        /\ worker'[w].pc = "down" /\ worker'[w].todo = {}
        /\ lost' = LostPost(w)
    BY <1>7 DEF Crash, AtRest, TypeOK
  <2>2. letters' = {}
    BY <1>1, <1>7 DEF Crash, TypeOK, Letter
  <2>3. Kept
    BY <1>1, <1>2, <2>1, <2>2, ApartStep DEF Kept, Driving, JobPc
  <2>4. Lettered'
    BY <2>2 DEF Lettered
  <2>5. Listed'
    BY <1>1, <2>1 DEF Listed
  <2>6. Created'
    BY <1>1, <2>1, CreatedStays DEF Steady
  <2>7. CASE worker[w].pc = "record"
    <3>1. PICK i \in Jobs : worker[w].job = i /\ ~Closed(i)
      BY <1>3, <2>7 DEF Delivering, JobPc
    <3>2. lost'[i] = lost[i] + 1 /\ \A k \in Jobs \ {i} : lost'[k] = lost[k]
      BY <2>1, <2>7, <3>1 DEF LostPost, TypeOK
    <3>3. \A k \in Jobs \ {i} : ~Pending(k)
      BY <1>1, <3>1 DEF Pending, Driven
    <3>4. posts[i] \in Nat /\ lost[i] \in Nat /\ spoilt[i] \in Nat
      BY DEF TypeOK
    <3>5. retried[i] = 0 => posts[i] <= Lapses(i) \/ posts[i] = Lapses(i) + 1
      BY DEF Steady, Recorded
    <3>6. retried[i] = 0 => posts'[i] <= Lapses(i)'
      BY <2>1, <3>2, <3>4, <3>5 DEF Lapses
    <3>7. \A k \in Jobs \ {i} : posts'[k] = posts[k] /\ Lapses(k)' = Lapses(k)
      BY <2>1, <3>2 DEF Lapses
    <3>8. Recorded'
      BY <2>3, <3>3, <3>6, <3>7, RecordedStep DEF Steady
    <3>. QED
      BY <2>4, <2>5, <2>6, <3>8 DEF Steady
\* Killed after the record was written: the job is closed.
  <2>8. CASE worker[w].pc = "clean"
    <3>1. PICK i \in Jobs : Delivering(w, i) /\ ~Closed(i)
      BY <1>3, <2>8 DEF Delivering, JobPc
    <3>2. worker[w].job = i /\ bull[i].state = "active" /\ worker[w].todo = {}
      BY <3>1 DEF Delivering
    <3>3. \A k \in Jobs \ {i} : ~Pending(k)
      BY <1>1, <3>2 DEF Pending, Driven
    <3>4. UNCHANGED lost /\ \A k \in Jobs : Lapses(k)' = Lapses(k)
      BY <2>1, <2>8 DEF LostPost, Lapses
    <3>5. retried[i] = 0 /\ ~(posts[i] <= Lapses(i)) => Closed(i)'
      <4>1. ASSUME Pending(i) PROVE Closed(i)'
        BY <1>1, <1>2, <2>1, <2>8, <3>2, <4>1 DEF Pending, Closed, Driven, Driving, JobPc
      <4>. QED
        BY <3>1, <4>1 DEF Steady, Recorded
    <3>6. retried[i] = 0 => posts[i] <= Lapses(i) \/ posts[i] = Lapses(i) + 1
      BY DEF Steady, Recorded
    <3>7. Recorded'
      BY <2>1, <2>3, <3>3, <3>4, <3>5, <3>6, RecordedStep DEF Steady
    <3>. QED
      BY <2>4, <2>5, <2>6, <3>7 DEF Steady
  <2>9. CASE worker[w].pc \notin {"record", "clean"}
    <3>1. UNCHANGED lost /\ \A k \in Jobs : ~Pending(k)
      BY <1>1, <2>1, <2>9 DEF LostPost, Pending, Driven
    <3>2. Recorded'
      BY <1>1, <2>1, <2>3, <3>1 DEF Steady, Recorded, Lapses, Kept
    <3>. QED
      BY <2>4, <2>5, <2>6, <3>2 DEF Steady
  <2>. QED
    BY <2>7, <2>8, <2>9
\* The delivery ends; a callback starts only for a record that has failed.
<1>8. CASE Defer(w) \/ Settle(w)
  <2>1. /\ worker[w].pc \in {"reserve", "settle"} /\ UNCHANGED <<row, posts, lost, spoilt>>
        /\ worker'[w].pc = "idle" /\ worker'[w].todo = {}
    BY <1>8 DEF Defer, Settle, AtRest, TypeOK, history
  <2>2. PICK i \in Jobs : Delivering(w, i)
    BY <1>3, <2>1 DEF JobPc
  <2>3. /\ worker[w].job = i /\ bull[i].state = "active"
        /\ ~Over(i) /\ (Closed(i) => row[i].status # "DEAD")
    BY <2>2 DEF Delivering
  <2>4. /\ \A k \in Jobs \ {i} : bull'[k] = bull[k]
        /\ bull'[i].state \in {"delayed", "completed", "failed"}
        /\ \/ letters' = letters
           \/ bull'[i].state = "failed" /\ letters' = letters \cup LettersOf(w)
    <3>1. CASE Defer(w)
      BY <2>3, <3>1, StateSet DEF Defer, TypeOK
    <3>2. CASE Settle(w) /\ worker[w].outcome = "ok"
      BY <2>3, <3>2, StateSet DEF Settle, TypeOK
    <3>3. CASE Settle(w) /\ worker[w].outcome # "ok"
      <4>1. PICK s \in {"delayed", "failed"} :
              /\ bull' = [bull EXCEPT ![i].made = Attempt(i), ![i].state = s]
              /\ s = "delayed" => LettersOf(w) = {}
              /\ letters' = letters \cup LettersOf(w)
        BY <2>3, <3>3 DEF Settle
      <4>2. bull[i] \in Record /\ bull \in [Jobs -> Record]
        BY DEF TypeOK
      <4>3. bull'[i] = [bull[i] EXCEPT !.made = Attempt(i), !.state = s]
        BY <4>1, <4>2
      <4>4. bull'[i].state = s
        BY <4>2, <4>3 DEF Record
      <4>5. \A k \in Jobs \ {i} : bull'[k] = bull[k]
        BY <4>1, <4>2
      <4>. QED
        BY <4>1, <4>4, <4>5
    <3>. QED
      BY <1>8, <3>1, <3>2, <3>3
  <2>5. ASSUME NEW k \in Jobs \ {i} PROVE (Over(k) => Over(k)') /\ (Closed(k) => Closed(k)')
    BY <1>1, <1>2, <2>1, <2>4, ApartStep DEF Driving, JobPc
  <2>6. Closed(i) => Closed(i)'
    BY <1>1, <1>2, <2>1, <2>3, <2>4 DEF Closed, Driven, Driving, JobPc
  <2>7. Kept
    BY <1>1, <2>3, <2>5, <2>6 DEF Kept
  <2>8. ASSUME NEW m \in letters', retried'[m.job] = 0 PROVE Over(m.job)'
    <3>1. ASSUME NEW k \in Jobs, k = m.job PROVE Over(k)'
      <4>1. CASE m \in letters
        BY <1>1, <2>3, <2>5, <2>8, <3>1, <4>1 DEF Steady, Lettered
      <4>2. CASE m \notin letters
        <5>1. k = i /\ bull'[i].state = "failed"
          BY <2>3, <2>4, <3>1, <4>2, LettersAbout
        <5>2. ~Driven(i, JobPc)'
          BY <1>1, <2>1 DEF Driven, JobPc
        <5>. QED
          BY <5>1, <5>2 DEF Over
      <4>. QED
        BY <4>1, <4>2
    <3>2. m.job \in Jobs
      BY <2>3, <2>4, LettersAbout DEF TypeOK, Letter
    <3>. QED
      BY <3>1, <3>2
  <2>9. Lettered'
    BY <1>1, <2>1, <2>8 DEF Lettered, BootPc
  <2>10. Listed'
    BY <1>1, <2>1 DEF Listed
  <2>11. Created'
    BY <1>1, <2>1, CreatedStays DEF Steady
  <2>12. \A k \in Jobs : ~Pending(k)
    BY <1>1, <2>1 DEF Pending, Driven
  <2>13. Recorded'
    BY <1>1, <2>1, <2>7, <2>12 DEF Steady, Recorded, Lapses, Kept
  <2>. QED
    BY <2>9, <2>10, <2>11, <2>13 DEF Steady
<1>9. CASE Fails(w)
  BY <1>5, <1>6, <1>7, <1>9 DEF Fails
<1>10. CASE Runs(w)
  <2>1. CASE \E o \in {"retryable", "permanent"} : PublishThrows(w, o)
    BY <1>5, <2>1
  <2>2. CASE ReadRow(w) \/ MarkProcessing(w) \/ HandleRead(w) \/ HandleWrite(w) \/ Release(w)
    BY <1>5, <2>2
  <2>3. CASE PublishSucceeds(w) \/ RecordPublished(w) \/ CleanUp(w)
    BY <1>6, <2>3
  <2>4. CASE Settle(w)
    BY <1>8, <2>4
  <2>. QED
    BY <1>10, <2>1, <2>2, <2>3, <2>4 DEF Runs
<1>. QED
  BY <1>4, <1>5, <1>8, <1>9, <1>10, Zenon

LEMMA SteadyElsewhere ==
    ASSUME Sole, TypeOK, Engaged, Steady,
           \/ \E l \in letters : Delivers(l) \/ LetterFails(l)
           \/ \E i \in Jobs : Promote(i) \/ Stall(i) \/ TimePasses(i)
    PROVE  Steady'
<1>1. /\ UNCHANGED <<worker, request, retried, posts, lost, spoilt>>
      /\ \A k \in Jobs : Adding(k)' => Adding(k)
  BY DEF Delivers, Park, MarkDead, LetterFails, Promote, Stall, TimePasses, history, Adding
<1>2. Listed'
  BY <1>1 DEF Steady, Listed
<1>3. \A k \in Jobs : row'[k].status = row[k].status /\ Pending(k) => Pending(k)'
  BY <1>1 DEF Pending, Driven
\* A callback is about a job that is over, whatever it does to the row.
<1>4. ASSUME NEW l \in letters, Delivers(l) \/ LetterFails(l) PROVE Steady'
  <2>1. PICK i \in Jobs : l.job = i
    BY DEF TypeOK, Letter
  <2>2. UNCHANGED bull
    BY <1>4 DEF Delivers, Park, MarkDead, LetterFails
  <2>3. /\ \A k \in Jobs \ {i} : row'[k] = row[k]
        /\ row'[i].status \in {row[i].status, "DEAD"} /\ row'[i].linked = row[i].linked
    BY <1>4, <2>1 DEF Delivers, Park, MarkDead, LetterFails, SetStatus, TypeOK, Row
  <2>4. \A m \in letters' : \E n \in letters : n.job = m.job
    <3>1. CASE Park(l)
      <4>1. [l EXCEPT !.step = "mark"].job = l.job
        BY DEF TypeOK, Letter
      <4>. QED
        BY <3>1, <4>1 DEF Park
    <3>2. CASE MarkDead(l) \/ LetterFails(l)
      BY <3>2 DEF MarkDead, LetterFails
    <3>. QED
      BY <1>4, <3>1, <3>2 DEF Delivers
  <2>5. \A k \in Jobs : Over(k) => Over(k)'
    BY <1>1, <2>2 DEF Over, Driven
  <2>6. retried[i] = 0 => Over(i)
    BY <2>1 DEF Steady, Lettered
  <2>7. ASSUME NEW k \in Jobs, retried[k] = 0, Closed(k) PROVE Closed(k)'
    <3>1. row'[k].status \in {"COMPLETED", "CANCELLED", "DEAD"}
      BY <2>3, <2>7 DEF Closed
    <3>2. row'[k].status = "DEAD" => Over(k)
      BY <2>3, <2>6, <2>7 DEF Closed
    <3>. QED
      BY <1>1, <2>2, <2>5, <2>7, <3>1, <3>2 DEF Closed, Driven
  <2>8. Kept
    BY <1>1, <2>5, <2>7 DEF Kept
  <2>9. Created'
    BY <1>1, <2>3, CreatedStays DEF Steady
  <2>10. retried[i] = 0 => ~Pending(i)
    BY <2>6 DEF Over, Pending, Driven, JobPc
  <2>. QED
    BY <1>1, <1>2, <1>3, <2>3, <2>4, <2>8, <2>9, <2>10, SteadyStep
\* BullMQ moves only records of jobs that are not over.
<1>5. ASSUME NEW i \in Jobs, Promote(i) \/ Stall(i) \/ TimePasses(i) PROVE Steady'
  <2>1. UNCHANGED <<row, letters>>
    BY <1>5 DEF Promote, Stall, TimePasses
  <2>2. /\ \A k \in Jobs \ {i} : bull'[k] = bull[k]
        /\ \/ bull'[i] = bull[i]
           \/ /\ bull[i].state \in {"delayed", "scheduled", "active"}
              /\ bull'[i].state = "waiting"
    <3>1. CASE Promote(i)
      BY <3>1, StateSet DEF Promote, TypeOK
    <3>2. CASE Stall(i)
      <4>1. bull[i] \in Record /\ bull \in [Jobs -> Record]
        BY DEF TypeOK
      <4>2. /\ bull[i].state = "active"
            /\ bull' = [bull EXCEPT ![i].state = "waiting", ![i].stalls = @ + 1]
        BY <3>2 DEF Stall
      <4>3. bull'[i] = [bull[i] EXCEPT !.state = "waiting", !.stalls = @ + 1]
        BY <4>1, <4>2
      <4>4. bull'[i].state = "waiting"
        BY <4>1, <4>3 DEF Record
      <4>. QED
        BY <4>1, <4>2, <4>4
    <3>3. CASE TimePasses(i)
      BY <3>3 DEF TimePasses
    <3>. QED
      BY <1>5, <3>1, <3>2, <3>3
  <2>3. CASE bull'[i] = bull[i]
    <3>1. Kept
      BY <1>1, <2>1, <2>2, <2>3, ApartStep DEF Kept
    <3>. QED
      BY <1>1, <1>2, <1>3, <2>1, <3>1, CreatedStays, SteadyStep DEF Steady
  <2>4. CASE /\ bull[i].state \in {"delayed", "scheduled", "active"}
             /\ bull'[i].state = "waiting"
    <3>1. ~Over(i)
      BY <2>4 DEF Over
    <3>2. Closed(i) => Closed(i)'
      BY <1>1, <2>1, <2>4, <3>1 DEF Closed, Driven
    <3>3. \A k \in Jobs \ {i} : (Over(k) => Over(k)') /\ (Closed(k) => Closed(k)')
      BY <1>1, <2>1, <2>2, ApartStep
    <3>4. Kept
      BY <1>1, <3>1, <3>2, <3>3 DEF Kept
    <3>. QED
      BY <1>1, <1>2, <1>3, <2>1, <3>4, CreatedStays, SteadyStep DEF Steady
  <2>. QED
    BY <2>2, <2>3, <2>4
<1>. QED
  BY <1>4, <1>5

\* Unless somebody retries it by hand, a job is posted again only after the
\* record of a post was lost, or after removing the staged media threw over one
\* (processJob.ts:228): no redelivery, stall, boot, cancellation, failed release or
\* late callback brings a completed job back (processJob.ts:85, "returning without
\* republishing is the whole point of tracking status in the database").  One
\* worker: with two, a boot may list a job that the other one completes.
THEOREM PostedOncePerRecordHolds ==
    ASSUME \A v, w \in Workers : v = w
    PROVE  Spec => []PostedOncePerRecord
<1>1. Sole
  BY DEF Sole
<1>2. Init => Steady
  BY DEF Init, Steady, Lettered, Created, Listed, Recorded, Lapses, Pending, Over, Closed,
     Driven, Adding, AtRest, NoRequest, NoRow, NoRecord
<1>3. TypeOK /\ Engaged /\ OnTime /\ Exclusive /\ Steady /\ [Next]_vars => Steady'
  <2> SUFFICES ASSUME TypeOK, Engaged, OnTime, Exclusive, Steady, [Next]_vars PROVE Steady'
    OBVIOUS
  <2>1. CASE Next
    BY <1>1, <2>1, SteadyRequests, SteadyBoots, SteadyDelivery, SteadyElsewhere DEF Next
  <2>2. CASE UNCHANGED vars
    BY <2>2 DEF vars, history, Steady, Lettered, Created, Listed, Recorded, Lapses, Pending,
       Over, Closed, Driven, Adding
  <2>. QED
    BY <2>1, <2>2
<1>4. TypeOK /\ Steady => PostedOncePerRecord
  BY DEF TypeOK, Steady, Recorded, Lapses, PostedOncePerRecord
<1>. QED
  BY <1>2, <1>3, <1>4, TypeCorrect, OnTimeHolds, ExclusiveHolds, PTL DEF Spec
=============================================================================
