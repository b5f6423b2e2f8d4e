-------------------------- MODULE OnboardingProofs --------------------------
(***************************************************************************)
(* Proofs about Onboarding, for any number of jobs and requests, any       *)
(* waits, and any bounds on retries and faults.                            *)
(***************************************************************************)
EXTENDS Onboarding, FiniteSetTheorems, TLAPS

\* What may end a wait, or has: the column, the list, a push on its way.
Told(j) ==
    \/ row[j].confirmed \/ j \in signal
    \/ \E r \in Requests : request[r].pc = "push" /\ request[r].job = j
    \/ run.job = j /\ run.pc \in {"verifying", "verify"}
    \/ row[j].status = "VERIFYING"

\* A worker between taking a job and the end of its wait has one.
Engaged == {"reserve", "mark", "clear", "session", "boot", "ready"} \cup WaitPc

\* With it the types are inductive: rows and lists are written by the actor's job.
Named ==
    /\ run.pc \in Engaged => run.job \in Jobs
    /\ \A r \in Requests : request[r].pc \in {"confirm", "push"} => request[r].job \in Jobs

Typed == TypeOK /\ Named

\* Nobody can be told of a job whose device has never come up; and of one that is on its
\* first device only a confirmation tells.
Asked ==
    /\ run.pc \in WaitPc => row[run.job].devices # 0
    /\ \A r \in Requests : request[r].pc = "confirm" => row[request[r].job].devices # 0
    /\ \A j \in Jobs : row[j].status = "AWAITING_HUMAN" => row[j].devices # 0
    /\ \A j \in Jobs : Told(j) => /\ row[j].devices # 0
                                  /\ row[j].devices = 1 => j \in answered

-----------------------------------------------------------------------------
(* Type correctness *)

\* The worker keeps its type wherever it goes on to.
LEMMA RunTyped ==
    ASSUME TypeOK
    PROVE  /\ \A pc \in RunPc : [run EXCEPT !.pc = pc] \in Run
           /\ \A pc \in RunPc, o \in Outcome : [run EXCEPT !.pc = pc, !.outcome = o] \in Run
           /\ \A pc \in RunPc : AtRest(pc) \in Run
BY DEF TypeOK, Run, AtRest, Outcome

LEMMA RowTyped ==
    ASSUME TypeOK, NEW j, NEW s \in Status
    PROVE  /\ [row EXCEPT ![j].status = s] \in [Jobs -> Row]
           /\ [row EXCEPT ![j].status = s, ![j].endpoint = FALSE] \in [Jobs -> Row]
BY DEF TypeOK, Row

LEMMA RecordTyped ==
    /\ NoRecord \in Record
    /\ \A n \in Nat : Queued(n) \in Record
BY DEF NoRecord, Queued, Record

LEMMA TypedInit == Init => Typed
<1> SUFFICES ASSUME Init PROVE Typed
  OBVIOUS
<1>1. NoRow \in Row /\ NoRecord \in Record
  BY DEF NoRow, Row, NoRecord, Record, Status
<1>2. AtRest("down") \in Run /\ AtRest("down").pc = "down"
  BY DEF AtRest, Run, RunPc, SlotPc, Outcome
<1>3. NoRequest \in RequestState /\ NoRequest.pc = "idle"
  BY DEF NoRequest, RequestState, SessionState
<1>4. 0 \in 0 .. MaxFaults
  BY OnboardingAssumption
<1>. QED
  BY <1>1, <1>2, <1>3, <1>4 DEF Init, Typed, TypeOK, Named, Engaged, WaitPc

\* The handlers of requests.
LEMMA TypedRequests ==
    ASSUME Typed, NEW r \in Requests,
           \/ LinkRead(r) \/ RequestProceeds(r)
           \/ \E j \in Jobs : ConfirmRead(r, j) \/ CancelRead(r, j)
    PROVE  Typed'
<1>1. CASE LinkRead(r)
  BY <1>1 DEF Typed, TypeOK, Named, LinkRead, history, slots, RequestState
<1>2. CASE LinkCheck(r)
  <2>1. /\ request' \in [Requests -> RequestState]
        /\ \A q \in Requests \ {r} : request'[q] = request[q]
        /\ request'[r].pc \in {"idle", "heal", "create"}
    BY <1>2 DEF Typed, TypeOK, LinkCheck, Reply, Step, RequestState, NoRequest, SessionState
  <2>. QED
    BY <1>2, <2>1 DEF Typed, TypeOK, Named, LinkCheck, history, slots
<1>3. CASE LinkHeal(r)
  BY <1>3 DEF Typed, TypeOK, Named, LinkHeal, Step, history, slots, RequestState, SessionState
<1>4. ASSUME NEW j \in Jobs, LinkCreate(r, j) PROVE Typed'
  <2>1. /\ request' \in [Requests -> RequestState]
        /\ \A q \in Requests \ {r} : request'[q] = request[q]
        /\ request'[r].pc = "idle"
    BY <1>4 DEF Typed, TypeOK, LinkCreate, Reply, RequestState, NoRequest, SessionState
  <2>2. row' \in [Jobs -> Row]
    BY <1>4, RowTyped DEF Typed, LinkCreate, SetStatus, Status
  <2>3. bull' \in [Jobs -> Record]
    BY <1>4, RecordTyped DEF Typed, TypeOK, LinkCreate
  <2>. QED
    BY <1>4, <2>1, <2>2, <2>3 DEF Typed, TypeOK, Named, LinkCreate, history, slots
<1>5. ASSUME NEW j \in Jobs, ConfirmRead(r, j) \/ CancelRead(r, j) PROVE Typed'
  <2>1. PICK pc \in {"confirm", "withdraw"} : Begin(r, pc, j)
    BY <1>5 DEF ConfirmRead, CancelRead
  <2>2. /\ [NoRequest EXCEPT !.pc = pc, !.job = j] \in RequestState
        /\ [NoRequest EXCEPT !.pc = pc, !.job = j].job = j
    BY DEF NoRequest, RequestState, SessionState
  <2>3. /\ request' \in [Requests -> RequestState]
        /\ \A q \in Requests \ {r} : request'[q] = request[q]
        /\ request'[r].job = j
    BY <2>1, <2>2 DEF Typed, TypeOK, Begin
  <2>. QED
    BY <1>5, <2>3 DEF Typed, TypeOK, Named, ConfirmRead, CancelRead, history, slots
<1>6. CASE ConfirmWrite(r)
  <2>1. row' \in [Jobs -> Row]
    BY <1>6 DEF Typed, TypeOK, ConfirmWrite, Row
  <2>2. /\ request' \in [Requests -> RequestState]
        /\ \A q \in Requests : request'[q].job = request[q].job
        /\ \A q \in Requests \ {r} : request'[q] = request[q]
    BY <1>6 DEF Typed, TypeOK, ConfirmWrite, Step, RequestState
  <2>3. request[r].job \in Jobs
    BY <1>6 DEF Typed, Named, ConfirmWrite
  <2>. QED
    BY <1>6, <2>1, <2>2, <2>3 DEF Typed, TypeOK, Named, ConfirmWrite, slots
<1>7. CASE ConfirmPush(r)
  <2>1. /\ request' \in [Requests -> RequestState]
        /\ \A q \in Requests \ {r} : request'[q] = request[q]
        /\ request'[r].pc = "idle"
    BY <1>7 DEF Typed, TypeOK, ConfirmPush, Reply, RequestState, NoRequest, SessionState
  <2>2. signal' \subseteq Jobs
    BY <1>7 DEF Typed, TypeOK, Named, ConfirmPush
  <2>. QED
    BY <1>7, <2>1, <2>2 DEF Typed, TypeOK, Named, ConfirmPush, history, slots
<1>8. CASE CancelWithdraw(r)
  <2>1. request' \in [Requests -> RequestState] /\ request'[r].pc = "cancel"
        /\ \A q \in Requests \ {r} : request'[q] = request[q]
    BY <1>8 DEF Typed, TypeOK, CancelWithdraw, Step, RequestState
  <2>2. bull' \in [Jobs -> Record]
    <3>1. PICK b \in AfterRemove(request[r].job) : bull' = [bull EXCEPT ![request[r].job] = b]
      BY <1>8 DEF CancelWithdraw
    <3>2. b = NoRecord \/ b = bull[request[r].job]
      BY <3>1 DEF AfterRemove
    <3>. QED
      BY <3>1, <3>2, RecordTyped DEF Typed, TypeOK
  <2>. QED
    BY <1>8, <2>1, <2>2 DEF Typed, TypeOK, Named, CancelWithdraw, history, slots
<1>9. CASE CancelWrite(r)
  <2>1. /\ request' \in [Requests -> RequestState]
        /\ \A q \in Requests \ {r} : request'[q] = request[q]
        /\ request'[r].pc = "idle"
    BY <1>9 DEF Typed, TypeOK, CancelWrite, Reply, RequestState, NoRequest, SessionState
  <2>2. row' \in [Jobs -> Row]
    BY <1>9, RowTyped DEF Typed, CancelWrite, SetStatus, Status
  <2>. QED
    BY <1>9, <2>1, <2>2 DEF Typed, TypeOK, Named, CancelWrite, history, slots
<1>. QED
  BY <1>1, <1>2, <1>3, <1>4, <1>5, <1>6, <1>7, <1>8, <1>9 DEF RequestProceeds

\* A step of the worker that only moves it on in its job, and writes rows by status.
LEMMA TypedWorks ==
    ASSUME Typed, UNCHANGED <<request, bull>>,
           row' \in [Jobs -> Row], session' \in SessionState, signal' \subseteq Jobs,
           run' \in Run, answered' \subseteq Jobs,
           faults' \in 0 .. MaxFaults, stuck' \in BOOLEAN, UNCHANGED slots,
           run'.pc \in Engaged => run.pc \in Engaged /\ run'.job = run.job
    PROVE  Typed'
BY DEF Typed, TypeOK, Named, slots

\* The boot of a worker, retries, and what BullMQ and time do.
LEMMA TypedOthers ==
    ASSUME Typed,
           \/ Boots \/ Admit \/ Defer \/ Crash \/ StoreFails \/ Tick
           \/ \E j \in Jobs : Retry(j) \/ Fetch(j) \/ Stall(j)
    PROVE  Typed'
<1>1. CASE Boot
  <2>1. run' \in Run /\ run'.pc \in {"recover", "strand"}
    BY <1>1 DEF Boot, AtRest, Run, RunPc, SlotPc, Outcome
  <2>. QED
    BY <1>1, <2>1 DEF Boot, history, slots, Typed, TypeOK, Named, Engaged, WaitPc
<1>2. CASE Recover
  <2>1. row' \in [Jobs -> Row]
    BY <1>2 DEF Recover, Typed, TypeOK, Row, Status
  <2>2. bull' \in [Jobs -> Record]
    BY <1>2, RecordTyped, OnboardingAssumption DEF Recover, Typed, TypeOK
  <2>3. run' \in Run /\ run'.pc = "recount"
    BY <1>2, RunTyped DEF Recover, Goto, Typed, TypeOK, Run, RunPc, SlotPc
  <2>. QED
    BY <1>2, <2>1, <2>2, <2>3
       DEF Recover, history, slots, Typed, TypeOK, Named, Engaged, WaitPc
<1>3. ASSUME NEW j \in Jobs, FailStranded(j) PROVE Typed'
  <2>1. row' \in [Jobs -> Row]
    BY <1>3, RowTyped DEF FailStranded, Typed, Status
  <2>2. run' \in Run /\ run'.pc \in {"recover", "strand"}
    BY <1>3 DEF FailStranded, Typed, TypeOK, Run, RunPc, SlotPc
  <2>. QED
    BY <1>3, <2>1, <2>2
       DEF FailStranded, history, slots, Typed, TypeOK, Named, Engaged, WaitPc, SessionState
<1>4. CASE Crash
  <2>1. AtRest("down") \in Run /\ AtRest("down").pc = "down"
    BY DEF AtRest, Run, RunPc, SlotPc, Outcome
  <2>2. faults' \in 0 .. MaxFaults
    BY <1>4, OnboardingAssumption DEF Crash, Typed, TypeOK
  <2>3. leaked' \in Nat
    BY <1>4 DEF Crash, Typed, TypeOK
  <2>. QED
    BY <1>4, <2>1, <2>2, <2>3 DEF Crash, Typed, TypeOK, Named, Engaged, WaitPc
<1>5. CASE StoreFails
  <2>1. run' \in Run /\ run'.pc \in {"settle", "release", "handle", "free"}
    <3>1. AfterRefusal(run.pc) \in {"settle", "release", "handle", "free"}
      BY DEF AfterRefusal
    <3>. QED
      BY <1>5, <3>1 DEF StoreFails, Typed, TypeOK, Run, RunPc, SlotPc, DriverPc, Outcome
  <2>2. faults' \in 0 .. MaxFaults /\ stuck' \in BOOLEAN
    BY <1>5, OnboardingAssumption DEF StoreFails, Typed, TypeOK
  <2>3. leaked' \in Nat
    BY <1>5 DEF StoreFails, Typed, TypeOK
  <2>. QED
    BY <1>5, <2>1, <2>2, <2>3 DEF StoreFails, Typed, TypeOK, Named, Engaged, WaitPc
<1>6. CASE Tick
  <2>1. run' \in Run /\ run'.pc = run.pc /\ run'.job = run.job
    BY <1>6 DEF Tick, Typed, TypeOK, Run
  <2>. QED
    BY <1>6, <2>1, TypedWorks DEF Tick, history, slots, Typed, TypeOK
<1>7. ASSUME NEW j \in Jobs, Retry(j) PROVE Typed'
  <2>1. row' \in [Jobs -> Row]
    BY <1>7 DEF Retry, Typed, TypeOK, Row, Status
  <2>2. PICK b \in AfterRemove(j) :
           bull' = [bull EXCEPT ![j] = IF b = NoRecord THEN Queued(1) ELSE b]
    BY <1>7 DEF Retry
  <2>3. b = NoRecord \/ b = bull[j]
    BY <2>2 DEF AfterRemove
  <2>4. bull' \in [Jobs -> Record]
    BY <2>2, <2>3, RecordTyped DEF Typed, TypeOK
  <2>. QED
    BY <1>7, <2>1, <2>4 DEF Retry, history, slots, Typed, TypeOK, Named
<1>8. ASSUME NEW j \in Jobs, Fetch(j) PROVE Typed'
  <2>1. bull' \in [Jobs -> Record]
    BY <1>8 DEF Fetch, Typed, TypeOK, Record
  <2>2. run' \in Run /\ run'.job = j
    BY <1>8 DEF Fetch, AtRest, Typed, TypeOK, Run, RunPc, SlotPc, Outcome
  <2>. QED
    BY <1>8, <2>1, <2>2 DEF Fetch, history, slots, Typed, TypeOK, Named
<1>9. ASSUME NEW j \in Jobs, Stall(j) PROVE Typed'
  <2>1. bull' \in [Jobs -> Record]
    BY <1>9 DEF Stall, Typed, TypeOK, Record
  <2>. QED
    BY <1>9, <2>1 DEF Stall, history, slots, Typed, TypeOK, Named
<1>10. CASE Recount
  <2>1. leaked' \in Nat
    <3>. DEFINE running == {j \in Jobs :
                             row[j].status \in {"PROCESSING", "AWAITING_HUMAN", "VERIFYING"}}
    <3>1. IsFiniteSet(running)
      BY OnboardingAssumption, FS_Subset
    <3>2. Cardinality(running) \in Nat
      BY <3>1, FS_CardinalityType
    <3>. QED
      BY <1>10, <3>2 DEF Recount
  <2>2. run' \in Run /\ run'.pc = "idle"
    BY <1>10, RunTyped DEF Recount, Goto, Typed, TypeOK, Run, RunPc, SlotPc
  <2>. QED
    BY <1>10, <2>1, <2>2 DEF Recount, Typed, TypeOK, Named, Engaged, WaitPc
<1>11. CASE Admit
  <2>1. run' \in Run /\ run'.job = run.job
    BY <1>11 DEF Admit, Goto, Typed, TypeOK, Run, RunPc, SlotPc
  <2>. QED
    BY <1>11, <2>1, TypedWorks DEF Admit, At, history, slots, Typed, TypeOK, Engaged
<1>12. CASE Defer
  <2>1. bull' \in [Jobs -> Record]
    BY <1>12 DEF Defer, Typed, TypeOK, Record
  <2>2. run' \in Run /\ run'.pc = "idle"
    BY <1>12 DEF Defer, AtRest, Typed, TypeOK, Run, RunPc, SlotPc, Outcome
  <2>. QED
    BY <1>12, <2>1, <2>2 DEF Defer, history, slots, Typed, TypeOK, Named, Engaged, WaitPc
<1>. QED
  BY <1>1, <1>2, <1>3, <1>4, <1>5, <1>6, <1>7, <1>8, <1>9, <1>10, <1>11, <1>12 DEF Boots

\* The worker in a job.
LEMMA TypedProceeds == ASSUME Typed, Proceeds PROVE Typed'
<1>0. /\ answered \subseteq Jobs /\ faults \in 0 .. MaxFaults /\ stuck \in BOOLEAN
      /\ row \in [Jobs -> Row] /\ session \in SessionState /\ signal \subseteq Jobs
  BY DEF Typed, TypeOK
<1>1. ASSUME NEW pc \in RunPc, Goto(pc) PROVE run' \in Run /\ run'.pc = pc /\ run'.job = run.job
  BY <1>1 DEF Goto, Typed, TypeOK, Run
<1>2. ASSUME NEW o \in Outcome, Conclude(o) PROVE run' \in Run /\ run'.pc = "release"
  BY <1>2 DEF Conclude, Typed, TypeOK, Run, RunPc, SlotPc, DriverPc
<1>3. ASSUME NEW s \in Status, SetStatus(run.job, s) PROVE row' \in [Jobs -> Row]
  BY <1>3, RowTyped DEF SetStatus, Typed
<1>4. CASE MarkProcessing
  BY <1>0, <1>1, <1>3, <1>4, TypedWorks
     DEF MarkProcessing, At, history, slots, RunPc, SlotPc, Engaged, Status
<1>5. CASE ClearSignal
  BY <1>0, <1>1, <1>5, TypedWorks DEF ClearSignal, At, history, slots, RunPc, SlotPc, Engaged
<1>6. CASE ClaimSession
  BY <1>0, <1>1, <1>6, TypedWorks
     DEF ClaimSession, At, history, slots, RunPc, SlotPc, DriverPc, Engaged,
     SessionState
<1>7. CASE DeviceUp
  <2>1. run' \in Run /\ run'.job = run.job
    BY <1>7 DEF DeviceUp, Typed, TypeOK, Run, RunPc, SlotPc, DriverPc
  <2>. QED
    BY <1>0, <1>7, <2>1, TypedWorks DEF DeviceUp, At, history, slots, Engaged
<1>8. CASE DeviceReady
  <2>1. run' \in Run /\ run'.job = run.job
    BY <1>8 DEF DeviceReady, Typed, TypeOK, Run, RunPc, SlotPc, DriverPc, WaitPc
  <2>2. row' \in [Jobs -> Row]
    <3>1. run.job \in Jobs
      BY <1>8 DEF DeviceReady, At, Typed, Named, Engaged
    <3>. QED
      BY <3>1, <1>0, <1>8 DEF DeviceReady, Row, Status
  <2>. QED
    BY <1>0, <1>8, <2>1, <2>2, TypedWorks DEF DeviceReady, At, Engaged
<1>9. CASE DriverThrows
  BY <1>0, <1>2, <1>9, TypedWorks DEF DriverThrows, history, slots, Outcome, Engaged, WaitPc
<1>10. CASE Poll
  <2>1. Conclude("cancelled") \/ Goto("verifying") \/ Goto("deadline")
    BY <1>10 DEF Poll
  <2>2. run' \in Run /\ run'.pc \in {"release", "verifying", "deadline"}
        /\ (run'.pc = "deadline" => run'.job = run.job)
    BY <1>1, <1>2, <2>1 DEF Outcome, RunPc, SlotPc, DriverPc, WaitPc
  <2>. QED
    BY <1>0, <1>10, <2>2, TypedWorks DEF Poll, At, history, slots, Engaged, WaitPc
<1>11. CASE Deadline
  <2>1. Conclude("expired") \/ Goto("pop")
    BY <1>11 DEF Deadline
  <2>2. run' \in Run /\ run'.pc \in {"release", "pop"}
        /\ (run'.pc = "pop" => run'.job = run.job)
    BY <1>1, <1>2, <2>1 DEF Outcome, RunPc, SlotPc, DriverPc, WaitPc
  <2>. QED
    BY <1>0, <1>11, <2>2, TypedWorks DEF Deadline, At, history, slots, Engaged, WaitPc
<1>12. CASE Pop
  <2>1. Conclude("cancelled") \/ Goto("verifying") \/ Goto("poll")
    BY <1>12 DEF Pop
  <2>2. run' \in Run /\ run'.pc \in {"release", "verifying", "poll"}
        /\ (run'.pc = "poll" => run'.job = run.job)
    BY <1>1, <1>2, <2>1 DEF Outcome, RunPc, SlotPc, DriverPc, WaitPc
  <2>3. signal' \subseteq Jobs
    BY <1>0, <1>12 DEF Pop
  <2>. QED
    BY <1>0, <1>12, <2>2, <2>3, TypedWorks DEF Pop, At, history, slots, Engaged, WaitPc
<1>13. CASE AnnounceVerifying
  BY <1>0, <1>1, <1>3, <1>13, TypedWorks
    
     DEF AnnounceVerifying, At, history, slots, RunPc, SlotPc, DriverPc, Engaged, WaitPc,
         Status
<1>14. CASE \E outcome \in {"verified", "unverified"} : Verify(outcome)
  BY <1>0, <1>2, <1>14, TypedWorks DEF Verify, history, slots, Outcome, Engaged, WaitPc
<1>15. CASE Release
  <2>1. run' \in Run /\ run'.pc \in {"reset", "finish"}
    BY <1>15 DEF Release, Typed, TypeOK, Run, RunPc, SlotPc
  <2>. QED
    BY <1>0, <1>15, <2>1, TypedWorks DEF Release, history, slots, Engaged, WaitPc
<1>16. CASE ResetSession
  BY <1>0, <1>1, <1>16, TypedWorks
     DEF ResetSession, history, slots, RunPc, SlotPc, Engaged, WaitPc, SessionState
<1>17. CASE Finish
  <2>1. Goto("free") \/ Goto("verdict")
    BY <1>17 DEF Finish
  <2>2. run' \in Run /\ run'.pc \in {"free", "verdict"}
    BY <1>1, <2>1 DEF RunPc, SlotPc
  <2>3. row' \in [Jobs -> Row] /\ session' \in SessionState
    <3>1. [row EXCEPT ![run.job].status = "COMPLETED", ![run.job].endpoint = FALSE]
            \in [Jobs -> Row]
      BY RowTyped DEF Typed, Status
    <3>. QED
      BY <1>0, <1>17, <3>1 DEF Finish, SessionState
  <2>. QED
    BY <1>0, <1>17, <2>2, <2>3, TypedWorks DEF Finish, history, slots, Engaged, WaitPc
<1>18. CASE Verdict
  <2>1. Goto("free") \/ Goto("handle")
    BY <1>18 DEF Verdict
  <2>2. run' \in Run /\ run'.pc \in {"free", "handle"}
    BY <1>1, <2>1 DEF RunPc, SlotPc
  <2>3. row' \in [Jobs -> Row]
    BY <1>18, RowTyped DEF Verdict, Typed, Status
  <2>. QED
    BY <1>0, <1>18, <2>2, <2>3, TypedWorks DEF Verdict, history, slots, Engaged, WaitPc
<1>19. CASE HandleFailure
  <2>1. row' \in [Jobs -> Row]
    <3>1. PICK s \in Status : row' = [row EXCEPT ![run.job].status = s]
      BY <1>19 DEF HandleFailure, Status
    <3>2. TypeOK
      BY DEF Typed
    <3>. QED
      BY <3>1, <3>2, RowTyped
  <2>. QED
    BY <1>0, <1>1, <1>19, <2>1, TypedWorks
       DEF HandleFailure, history, slots, RunPc, SlotPc, Engaged, WaitPc
<1>20. CASE Settle
  <2>1. run' \in Run /\ run'.pc = "idle"
    BY <1>20 DEF Settle, AtRest, Typed, TypeOK, Run, RunPc, SlotPc, Outcome
  <2>2. row' \in [Jobs -> Row]
    BY <1>0, <1>3, <1>20 DEF Settle, Status
  <2>3. bull' \in [Jobs -> Record]
    BY <1>20, RecordTyped DEF Settle, Typed, TypeOK, Record
  <2>. QED
    BY <1>0, <1>20, <2>1, <2>2, <2>3
       DEF Settle, history, slots, Typed, TypeOK, Named, Engaged, WaitPc
<1>21. CASE FreeSlot
  BY <1>0, <1>1, <1>21, TypedWorks DEF FreeSlot, history, slots, RunPc, SlotPc, Engaged, WaitPc
<1>. QED
  BY <1>4, <1>5, <1>6, <1>7, <1>8, <1>9, <1>10, <1>11, <1>12, <1>13, <1>14, <1>15, <1>16,
     <1>17, <1>18, <1>19, <1>20, <1>21 DEF Proceeds

LEMMA TypedNext == Typed /\ [Next]_vars => Typed'
<1> SUFFICES ASSUME Typed, [Next]_vars PROVE Typed'
  OBVIOUS
<1>1. CASE UNCHANGED vars
  BY <1>1 DEF vars, history, slots, Typed, TypeOK, Named
<1>. QED
  BY <1>1, TypedRequests, TypedOthers, TypedProceeds DEF Next

\* Type correctness, with the fact that who writes a row by its job has one
\* (lib/worker/processJob.ts, lib/jobs/service.ts).
THEOREM OnboardingTypeCorrect == Spec => []TypeOK
<1>1. Typed => TypeOK
  BY DEF Typed
<1>. QED
  BY <1>1, TypedInit, TypedNext, PTL DEF Spec

-----------------------------------------------------------------------------
(* Nobody's login is verified before she said she had finished *)

\* Steps that start no wait and tell nobody anything.
RowsCalm ==
    \A j \in Jobs :
        /\ row'[j].devices = row[j].devices /\ row'[j].confirmed = row[j].confirmed
        /\ row'[j].status \in {"AWAITING_HUMAN", "VERIFYING"} => row'[j].status = row[j].status

RequestsCalm ==
    \A r \in Requests :
        request'[r].pc \in {"confirm", "push"} =>
            request'[r].pc = request[r].pc /\ request'[r].job = request[r].job

RunCalm ==
    /\ run'.pc \in WaitPc => run.pc \in WaitPc /\ run'.job = run.job
    /\ run'.pc \in {"verifying", "verify"} =>
           run.pc \in {"verifying", "verify"} /\ run'.job = run.job

LEMMA AskedKept ==
    ASSUME Typed, Asked, RowsCalm, RequestsCalm, RunCalm,
           signal' \subseteq signal, answered' = answered
    PROVE  Asked'
<1>1. \A j \in Jobs : Told(j)' => Told(j)
  BY DEF Told, RowsCalm, RequestsCalm, RunCalm
<1>2. (run.pc \in WaitPc => run.job \in Jobs)
      /\ \A r \in Requests : request[r].pc = "confirm" => request[r].job \in Jobs
  BY DEF Typed, Named, Engaged
<1>3. \A j \in Jobs : row'[j].devices = row[j].devices
  BY DEF RowsCalm
<1>4. \A j \in Jobs : row'[j].status = "AWAITING_HUMAN" => row[j].status = "AWAITING_HUMAN"
  BY DEF RowsCalm
<1>5. run'.pc \in WaitPc => row'[run'.job].devices # 0
  BY <1>2, <1>3 DEF RunCalm, Asked
<1>6. \A r \in Requests : request'[r].pc = "confirm" => row'[request'[r].job].devices # 0
  BY <1>2, <1>3 DEF RequestsCalm, Asked
<1>. QED
  BY <1>1, <1>3, <1>4, <1>5, <1>6 DEF Asked

LEMMA AskedInit == Init => Asked
<1> SUFFICES ASSUME Init PROVE Asked
  OBVIOUS
<1>1. AtRest("down").pc = "down" /\ NoRequest.pc = "idle"
  BY DEF AtRest, NoRequest
<1>2. NoRow.status = "none" /\ NoRow.confirmed = FALSE
  BY DEF NoRow
<1>. QED
  BY <1>1, <1>2 DEF Init, Asked, Told, WaitPc

\* A status that is set starts no wait.
LEMMA CalmWrites ==
    ASSUME TypeOK, NEW j, NEW s, s # "AWAITING_HUMAN" /\ s # "VERIFYING",
           \/ row' = [row EXCEPT ![j].status = s]
           \/ row' = [row EXCEPT ![j].status = s, ![j].endpoint = FALSE]
    PROVE  RowsCalm
<1>1. row \in [Jobs -> Row]
  BY DEF TypeOK
<1>. QED
  BY <1>1 DEF RowsCalm, Row

LEMMA AskedRequests ==
    ASSUME Typed, Asked, NEW r \in Requests,
           \/ LinkRead(r) \/ RequestProceeds(r)
           \/ \E j \in Jobs : ConfirmRead(r, j) \/ CancelRead(r, j)
    PROVE  Asked'
<1>0. /\ TypeOK /\ request \in [Requests -> RequestState] /\ row \in [Jobs -> Row]
      /\ NoRequest.pc = "idle"
  BY DEF Typed, TypeOK, NoRequest
<1>a. UNCHANGED row => RowsCalm
  BY DEF RowsCalm
<1>b. UNCHANGED run => RunCalm
  BY DEF RunCalm
<1>1. CASE LinkRead(r)
  <2>1. RequestsCalm
    BY <1>0, <1>1 DEF LinkRead, RequestsCalm, RequestState
  <2>. QED
    BY <1>1, <1>a, <1>b, <2>1, AskedKept DEF LinkRead, history, slots
<1>2. CASE LinkCheck(r)
  <2>1. RequestsCalm
    BY <1>0, <1>2 DEF LinkCheck, Reply, Step, RequestsCalm, RequestState
  <2>. QED
    BY <1>2, <1>a, <1>b, <2>1, AskedKept DEF LinkCheck, history, slots
<1>3. CASE LinkHeal(r)
  <2>1. RequestsCalm
    BY <1>0, <1>3 DEF LinkHeal, Step, RequestsCalm, RequestState
  <2>. QED
    BY <1>3, <1>a, <1>b, <2>1, AskedKept DEF LinkHeal, history, slots
<1>4. ASSUME NEW j \in Jobs, LinkCreate(r, j) PROVE Asked'
  <2>1. RequestsCalm
    BY <1>0, <1>4 DEF LinkCreate, Reply, RequestsCalm, RequestState
  <2>2. RowsCalm
    BY <1>0, <1>4, CalmWrites DEF LinkCreate, SetStatus
  <2>. QED
    BY <1>4, <1>b, <2>1, <2>2, AskedKept DEF LinkCreate, history, slots
<1>5. ASSUME NEW j \in Jobs, ConfirmRead(r, j) PROVE Asked'
  <2>1. /\ request'[r].pc = "confirm" /\ request'[r].job = j
        /\ \A q \in Requests \ {r} : request'[q] = request[q]
    BY <1>0, <1>5 DEF ConfirmRead, Begin, NoRequest
  <2>2. row[j].devices # 0
    BY <1>5 DEF ConfirmRead, Asked
  <2>3. \A i \in Jobs : Told(i)' => Told(i)
    BY <1>5, <2>1 DEF ConfirmRead, Told
  <2>. QED
    BY <1>5, <2>1, <2>2, <2>3 DEF ConfirmRead, Asked, history, slots
<1>6. ASSUME NEW j \in Jobs, CancelRead(r, j) PROVE Asked'
  <2>1. RequestsCalm
    BY <1>0, <1>6 DEF CancelRead, Begin, NoRequest, RequestsCalm
  <2>. QED
    BY <1>6, <1>a, <1>b, <2>1, AskedKept DEF CancelRead, history, slots
<1>7. CASE ConfirmWrite(r)
  <2>. DEFINE j == request[r].job
  <2>1. j \in Jobs /\ row[j].devices # 0
    BY <1>7 DEF ConfirmWrite, Typed, Named, Asked
  <2>2. \A i \in Jobs : /\ row'[i].devices = row[i].devices
                        /\ row'[i].status = row[i].status
                        /\ i # j => row'[i] = row[i]
    BY <1>0, <1>7, <2>1 DEF ConfirmWrite, Row
  <2>3. /\ \A q \in Requests \ {r} : request'[q] = request[q]
        /\ request'[r].pc = "push" /\ request'[r].job = j
    BY <1>0, <1>7 DEF ConfirmWrite, Step, RequestState
  <2>4. answered' = answered \cup {j}
    BY <1>7 DEF ConfirmWrite
  <2>5. \A i \in Jobs \ {j} : Told(i)' => Told(i)
    BY <1>7, <2>2, <2>3 DEF ConfirmWrite, Told
  <2>6. run.pc \in WaitPc => run.job \in Jobs
    BY DEF Typed, Named, Engaged
  <2>7. \A q \in Requests : request[q].pc = "confirm" => request[q].job \in Jobs
    BY DEF Typed, Named
  <2>8. run'.pc \in WaitPc => row'[run'.job].devices # 0
    BY <1>7, <2>2, <2>6 DEF ConfirmWrite, Asked
  <2>9. \A q \in Requests : request'[q].pc = "confirm" => row'[request'[q].job].devices # 0
    BY <2>2, <2>3, <2>7 DEF Asked
  <2>10. \A i \in Jobs : row'[i].status = "AWAITING_HUMAN" => row'[i].devices # 0
    BY <2>2 DEF Asked
  <2>11. \A i \in Jobs : Told(i)' => /\ row'[i].devices # 0
                                     /\ row'[i].devices = 1 => i \in answered'
    BY <2>1, <2>2, <2>4, <2>5 DEF Asked
  <2>. QED
    BY <2>8, <2>9, <2>10, <2>11 DEF Asked
<1>8. CASE ConfirmPush(r)
  <2>1. request'[r].pc = "idle" /\ \A q \in Requests \ {r} : request'[q] = request[q]
    BY <1>0, <1>8 DEF ConfirmPush, Reply
  <2>2. \A i \in Jobs : Told(i)' => Told(i)
    BY <1>8, <2>1 DEF ConfirmPush, Told
  <2>. QED
    BY <1>8, <2>1, <2>2 DEF ConfirmPush, Asked, history, slots
<1>9. CASE CancelWithdraw(r)
  <2>1. RequestsCalm
    BY <1>0, <1>9 DEF CancelWithdraw, Step, RequestsCalm, RequestState
  <2>. QED
    BY <1>9, <1>a, <1>b, <2>1, AskedKept DEF CancelWithdraw, history, slots
<1>10. CASE CancelWrite(r)
  <2>1. RequestsCalm
    BY <1>0, <1>10 DEF CancelWrite, Reply, RequestsCalm
  <2>2. RowsCalm
    BY <1>0, <1>10, CalmWrites DEF CancelWrite, SetStatus
  <2>. QED
    BY <1>10, <1>b, <2>1, <2>2, AskedKept DEF CancelWrite, history, slots
<1>. QED
  BY <1>1, <1>2, <1>3, <1>4, <1>5, <1>6, <1>7, <1>8, <1>9, <1>10 DEF RequestProceeds

LEMMA AskedOthers ==
    ASSUME Typed, Asked,
           \/ Boots \/ Admit \/ Defer \/ Crash \/ StoreFails \/ Tick
           \/ \E j \in Jobs : Retry(j) \/ Fetch(j) \/ Stall(j)
    PROVE  Asked'
<1>0. TypeOK /\ row \in [Jobs -> Row] /\ run \in Run
  BY DEF Typed, TypeOK
<1>a. UNCHANGED row => RowsCalm
  BY DEF RowsCalm
<1>b. UNCHANGED request => RequestsCalm
  BY DEF RequestsCalm
<1>c. UNCHANGED run => RunCalm
  BY DEF RunCalm
<1>1. CASE Boot
  <2>1. RunCalm
    BY <1>1 DEF Boot, AtRest, RunCalm, WaitPc
  <2>. QED
    BY <1>1, <1>a, <1>b, <2>1, AskedKept DEF Boot, history, slots
<1>2. CASE Recover
  <2>1. RunCalm
    BY <1>0, <1>2 DEF Recover, Goto, Run, RunCalm, WaitPc
  <2>2. RowsCalm
    BY <1>0, <1>2 DEF Recover, Row, RowsCalm
  <2>. QED
    BY <1>2, <1>b, <2>1, <2>2, AskedKept DEF Recover, history, slots
<1>3. ASSUME NEW j \in Jobs, FailStranded(j) PROVE Asked'
  <2>1. RunCalm
    BY <1>0, <1>3 DEF FailStranded, Run, RunCalm, WaitPc
  <2>2. RowsCalm
    BY <1>0, <1>3, CalmWrites DEF FailStranded
  <2>. QED
    BY <1>3, <1>b, <2>1, <2>2, AskedKept DEF FailStranded, history, slots
<1>4. CASE Crash
  <2>1. RunCalm
    BY <1>4 DEF Crash, AtRest, RunCalm, WaitPc
  <2>. QED
    BY <1>4, <1>a, <1>b, <2>1, AskedKept DEF Crash
<1>5. CASE StoreFails
  <2>1. run'.pc \in {"settle", "release", "handle", "free"}
    BY <1>0, <1>5 DEF StoreFails, AfterRefusal, Run
  <2>2. RunCalm
    BY <2>1 DEF RunCalm, WaitPc
  <2>. QED
    BY <1>5, <1>a, <1>b, <2>2, AskedKept DEF StoreFails
<1>6. CASE Tick
  <2>1. RunCalm
    BY <1>0, <1>6 DEF Tick, Run, RunCalm
  <2>. QED
    BY <1>6, <1>a, <1>b, <2>1, AskedKept DEF Tick, history, slots
<1>7. ASSUME NEW j \in Jobs, Retry(j) PROVE Asked'
  <2>1. RowsCalm
    BY <1>0, <1>7 DEF Retry, Row, RowsCalm
  <2>. QED
    BY <1>7, <1>b, <1>c, <2>1, AskedKept DEF Retry, history, slots
<1>8. ASSUME NEW j \in Jobs, Fetch(j) PROVE Asked'
  <2>1. RunCalm
    BY <1>8 DEF Fetch, AtRest, RunCalm, WaitPc
  <2>. QED
    BY <1>8, <1>a, <1>b, <2>1, AskedKept DEF Fetch, history, slots
<1>9. ASSUME NEW j \in Jobs, Stall(j) PROVE Asked'
  BY <1>9, <1>a, <1>b, <1>c, AskedKept DEF Stall, history, slots
<1>10. CASE Recount
  <2>1. RunCalm
    BY <1>0, <1>10 DEF Recount, Goto, Run, RunCalm, WaitPc
  <2>. QED
    BY <1>10, <1>a, <1>b, <2>1, AskedKept DEF Recount
<1>11. CASE Admit
  <2>1. RunCalm
    BY <1>0, <1>11 DEF Admit, Goto, Run, RunCalm, WaitPc
  <2>. QED
    BY <1>11, <1>a, <1>b, <2>1, AskedKept DEF Admit, history, slots
<1>12. CASE Defer
  <2>1. RunCalm
    BY <1>12 DEF Defer, AtRest, RunCalm, WaitPc
  <2>. QED
    BY <1>12, <1>a, <1>b, <2>1, AskedKept DEF Defer, history, slots
<1>. QED
  BY <1>1, <1>2, <1>3, <1>4, <1>5, <1>6, <1>7, <1>8, <1>9, <1>10, <1>11, <1>12 DEF Boots

LEMMA AskedProceeds == ASSUME Typed, Asked, Proceeds PROVE Asked'
<1>0. TypeOK /\ row \in [Jobs -> Row] /\ run \in Run /\ (run.pc \in Engaged => run.job \in Jobs)
  BY DEF Typed, TypeOK, Named
<1>a. UNCHANGED row => RowsCalm
  BY DEF RowsCalm
<1>b. UNCHANGED request => RequestsCalm
  BY DEF RequestsCalm
<1>c. ASSUME NEW pc \in RunPc, Goto(pc) PROVE run'.pc = pc /\ run'.job = run.job
  BY <1>0, <1>c DEF Goto, Run
<1>d. ASSUME NEW o \in Outcome, Conclude(o) PROVE run'.pc = "release" /\ run'.job = run.job
  BY <1>0, <1>d DEF Conclude, Run
<1>1. CASE MarkProcessing
  <2>1. RunCalm
    BY <1>1, <1>c DEF MarkProcessing, RunPc, SlotPc, RunCalm, WaitPc
  <2>2. RowsCalm
    BY <1>0, <1>1, CalmWrites DEF MarkProcessing, SetStatus
  <2>. QED
    BY <1>1, <1>b, <2>1, <2>2, AskedKept DEF MarkProcessing, history, slots
<1>2. CASE ClearSignal
  <2>1. RunCalm
    BY <1>2, <1>c DEF ClearSignal, RunPc, SlotPc, RunCalm, WaitPc
  <2>. QED
    BY <1>2, <1>a, <1>b, <2>1, AskedKept DEF ClearSignal, history, slots
<1>3. CASE ClaimSession
  <2>1. RunCalm
    BY <1>3, <1>c DEF ClaimSession, RunPc, SlotPc, DriverPc, RunCalm, WaitPc
  <2>. QED
    BY <1>3, <1>a, <1>b, <2>1, AskedKept DEF ClaimSession, history, slots
<1>4. CASE DeviceUp
  <2>1. RunCalm
    BY <1>0, <1>4 DEF DeviceUp, Run, RunCalm, WaitPc
  <2>. QED
    BY <1>4, <1>a, <1>b, <2>1, AskedKept DEF DeviceUp, history, slots
<1>5. CASE DeviceReady
  <2>1. PICK j \in Jobs : j = run.job
    BY <1>0, <1>5 DEF DeviceReady, At, Engaged
  <2>2. \A i \in Jobs \ {j} : row'[i] = row[i]
    BY <1>0, <1>5, <2>1 DEF DeviceReady
  <2>3. /\ row'[j].devices = row[j].devices + 1 /\ row'[j].confirmed = row[j].confirmed
        /\ row'[j].status = "AWAITING_HUMAN" /\ row[j].devices \in Nat
    BY <1>0, <1>5, <2>1 DEF DeviceReady, Row
  <2>4. run'.pc = "poll" /\ run'.job = j
    BY <1>0, <1>5, <2>1 DEF DeviceReady, Run
  <2>5. request' = request /\ signal' = signal /\ answered' = answered \ {j}
    BY <1>5, <2>1 DEF DeviceReady
  <2>6. \A i \in Jobs \ {j} : Told(i)' => Told(i)
    BY <2>2, <2>4, <2>5 DEF Told
  <2>7. Told(j)' => Told(j)
    BY <2>3, <2>4, <2>5 DEF Told
  <2>8. \A r \in Requests : request[r].pc = "confirm" => request[r].job \in Jobs
    BY DEF Typed, Named
  <2>9. row'[j].devices # 0
    BY <2>3
  <2>10. \A i \in Jobs : row[i].devices # 0 => row'[i].devices # 0
    BY <2>2, <2>9
  <2>11. Told(j) => row'[j].devices # 1
    BY <2>1, <2>3 DEF Asked
  <2>12. \A r \in Requests : request'[r].pc = "confirm" => row'[request'[r].job].devices # 0
    BY <2>5, <2>8, <2>10 DEF Asked
  <2>13. \A i \in Jobs : row'[i].status = "AWAITING_HUMAN" => row'[i].devices # 0
    BY <2>2, <2>9 DEF Asked
  <2>14. \A i \in Jobs : Told(i)' => /\ row'[i].devices # 0
                                     /\ row'[i].devices = 1 => i \in answered'
    <3>1. ASSUME Told(j)' PROVE row'[j].devices # 0 /\ row'[j].devices # 1
      BY <2>7, <2>9, <2>11, <3>1
    <3>2. \A i \in Jobs \ {j} :
            /\ Told(i) => /\ row[i].devices # 0
                          /\ row[i].devices = 1 => i \in answered
            /\ row'[i] = row[i]
            /\ i \in answered => i \in answered'
      BY <2>2, <2>5 DEF Asked
    <3>. QED
      BY <2>6, <3>1, <3>2
  <2>. QED
    BY <2>4, <2>9, <2>12, <2>13, <2>14 DEF Asked
<1>6. CASE DriverThrows
  <2>1. RunCalm
    BY <1>6, <1>d DEF DriverThrows, Outcome, RunCalm, WaitPc
  <2>. QED
    BY <1>6, <1>a, <1>b, <2>1, AskedKept DEF DriverThrows, history, slots
\* The three ways a wait goes on to the verification.
<1>7. ASSUME run.pc \in WaitPc, UNCHANGED <<row, request, answered>>, signal' \subseteq signal,
             run'.pc \in WaitPc \cup {"release", "verifying"}, run'.job = run.job,
             run'.pc = "verifying" => Told(run.job)
      PROVE  Asked'
  <2>1. run.job \in Jobs
    BY <1>0, <1>7 DEF Engaged
  <2>2. \A i \in Jobs : Told(i)' => Told(i)
    BY <1>7 DEF Told, WaitPc
  <2>. QED
    BY <1>7, <2>1, <2>2 DEF Asked
<1>8. CASE Poll
  <2>1. \/ Conclude("cancelled") \/ Goto("deadline")
        \/ Goto("verifying") /\ row[run.job].confirmed
    BY <1>8 DEF Poll
  <2>2. /\ run'.job = run.job
        /\ \/ run'.pc \in {"release", "deadline"}
           \/ run'.pc = "verifying" /\ row[run.job].confirmed
    BY <1>c, <1>d, <2>1 DEF Outcome, RunPc, SlotPc, DriverPc, WaitPc
  <2>. QED
    BY <1>7, <1>8, <2>2 DEF Poll, At, history, slots, WaitPc, Told
<1>9. CASE Deadline
  <2>1. Conclude("expired") \/ Goto("pop")
    BY <1>9 DEF Deadline
  <2>2. run'.job = run.job /\ run'.pc \in {"release", "pop"}
    BY <1>c, <1>d, <2>1 DEF Outcome, RunPc, SlotPc, DriverPc, WaitPc
  <2>. QED
    BY <1>7, <1>9, <2>2 DEF Deadline, At, history, slots, WaitPc
<1>10. CASE Pop
  <2>1. \/ Conclude("cancelled") \/ Goto("poll")
        \/ Goto("verifying") /\ run.job \in signal
    BY <1>10 DEF Pop
  <2>2. /\ run'.job = run.job
        /\ \/ run'.pc \in {"release", "poll"}
           \/ run'.pc = "verifying" /\ run.job \in signal
    BY <1>c, <1>d, <2>1 DEF Outcome, RunPc, SlotPc, DriverPc, WaitPc
  <2>. QED
    BY <1>7, <1>10, <2>2 DEF Pop, At, history, slots, WaitPc, Told
<1>11. CASE AnnounceVerifying
  <2>. DEFINE j == run.job
  <2>1. run'.pc = "verify" /\ run'.job = j
    BY <1>11, <1>c DEF AnnounceVerifying, RunPc, SlotPc, DriverPc
  <2>2. \A i \in Jobs : /\ row'[i].devices = row[i].devices
                        /\ row'[i].confirmed = row[i].confirmed
                        /\ row'[i].status # row[i].status =>
                               i = j /\ row'[i].status = "VERIFYING"
    BY <1>0, <1>11 DEF AnnounceVerifying, SetStatus, Row
  <2>3. run.pc = "verifying" /\ UNCHANGED <<signal, request, answered>>
    BY <1>11 DEF AnnounceVerifying, At, history, slots
  <2>4. \A i \in Jobs : Told(i)' => Told(i)
    BY <2>1, <2>2, <2>3 DEF Told
  <2>5. \A r \in Requests : request[r].pc = "confirm" => request[r].job \in Jobs
    BY DEF Typed, Named
  <2>6. run'.pc \notin WaitPc
    BY <2>1 DEF WaitPc
  <2>. QED
    BY <2>2, <2>3, <2>4, <2>5, <2>6 DEF Asked
<1>12. CASE \E outcome \in {"verified", "unverified"} : Verify(outcome)
  <2>1. RunCalm
    BY <1>12, <1>d DEF Verify, Outcome, RunCalm, WaitPc
  <2>. QED
    BY <1>12, <1>a, <1>b, <2>1, AskedKept DEF Verify, history, slots
<1>13. CASE Release
  <2>1. RunCalm
    BY <1>0, <1>13 DEF Release, Run, RunCalm, WaitPc
  <2>. QED
    BY <1>13, <1>a, <1>b, <2>1, AskedKept DEF Release, history, slots
<1>14. CASE ResetSession
  <2>1. RunCalm
    BY <1>14, <1>c DEF ResetSession, RunPc, SlotPc, RunCalm, WaitPc
  <2>. QED
    BY <1>14, <1>a, <1>b, <2>1, AskedKept DEF ResetSession, history, slots
<1>15. CASE Finish
  <2>1. RunCalm
    BY <1>15, <1>c DEF Finish, RunPc, SlotPc, RunCalm, WaitPc
  <2>2. RowsCalm
    BY <1>0, <1>15, <1>a, CalmWrites DEF Finish
  <2>. QED
    BY <1>15, <1>b, <2>1, <2>2, AskedKept DEF Finish, history, slots
<1>16. CASE Verdict
  <2>1. RunCalm
    BY <1>16, <1>c DEF Verdict, RunPc, SlotPc, RunCalm, WaitPc
  <2>2. RowsCalm
    <3>1. PICK s \in {"CANCELLED", "FAILED"} :
             row' = [row EXCEPT ![run.job].status = s, ![run.job].endpoint = FALSE]
      BY <1>16 DEF Verdict
    <3>. QED
      BY <1>0, <3>1, CalmWrites
  <2>. QED
    BY <1>16, <1>b, <2>1, <2>2, AskedKept DEF Verdict, history, slots
<1>17. CASE HandleFailure
  <2>1. RunCalm
    BY <1>17, <1>c DEF HandleFailure, RunPc, SlotPc, RunCalm, WaitPc
  <2>2. RowsCalm
    BY <1>0, <1>17 DEF HandleFailure, Row, RowsCalm
  <2>. QED
    BY <1>17, <1>b, <2>1, <2>2, AskedKept DEF HandleFailure, history, slots
<1>18. CASE Settle
  <2>1. RunCalm
    BY <1>18 DEF Settle, AtRest, RunCalm, WaitPc
  <2>2. RowsCalm
    <3>1. UNCHANGED row \/ SetStatus(run.job, "DEAD")
      BY <1>18 DEF Settle
    <3>. QED
      BY <1>0, <1>a, <3>1, CalmWrites DEF SetStatus
  <2>. QED
    BY <1>18, <1>b, <2>1, <2>2, AskedKept DEF Settle, history, slots
<1>19. CASE FreeSlot
  <2>1. RunCalm
    BY <1>19, <1>c DEF FreeSlot, RunPc, SlotPc, RunCalm, WaitPc
  <2>. QED
    BY <1>19, <1>a, <1>b, <2>1, AskedKept DEF FreeSlot, history, slots
<1>. QED
  BY <1>1, <1>2, <1>3, <1>4, <1>5, <1>6, <1>8, <1>9, <1>10, <1>11, <1>12, <1>13, <1>14,
     <1>15, <1>16, <1>17, <1>18, <1>19 DEF Proceeds

LEMMA AskedNext == Typed /\ Asked /\ [Next]_vars => Asked'
<1> SUFFICES ASSUME Typed, Asked, [Next]_vars PROVE Asked'
  OBVIOUS
<1>1. CASE UNCHANGED vars
  BY <1>1, AskedKept DEF vars, history, slots, RowsCalm, RequestsCalm, RunCalm
<1>. QED
  BY <1>1, AskedRequests, AskedOthers, AskedProceeds DEF Next

\* No login is verified that nobody said she had finished, on the first device of a job
\* (lib/onboarding/signal.ts, confirmOnboarding in lib/jobs/service.ts): with Asked, whatever
\* ends the wait is a confirmation that came after that device was handed over.
THEOREM VerifyingHolds == Spec => []VerifyingIsAnswered
<1>1. Asked => VerifyingIsAnswered
  BY DEF Asked, Told, VerifyingIsAnswered
<1>. QED
  BY <1>1, TypedInit, TypedNext, AskedInit, AskedNext, PTL DEF Spec

-----------------------------------------------------------------------------
(* The time an operator gets *)

\* A wait that ends as cancelled was cut by the run's timer, or saw a cancelled row.
Cut == run.pc \in WaitPc /\ run'.pc = "release" /\ run'.outcome = "cancelled"

LEMMA CutByTimer ==
    ASSUME TypeOK, Cut, Poll \/ Deadline \/ Pop
    PROVE  Aborted \/ row[run.job].status = "CANCELLED"
<1>1. ASSUME NEW o, Conclude(o) PROVE o = "cancelled"
  BY <1>1 DEF Conclude, TypeOK, Run, Cut
<1>2. ASSUME NEW pc, Goto(pc) PROVE pc = "release"
  BY <1>2 DEF Goto, TypeOK, Run, Cut
<1>3. CASE Poll
  BY <1>2, <1>3 DEF Poll
<1>4. CASE Deadline
  BY <1>1, <1>2, <1>4 DEF Deadline
<1>5. CASE Pop
  BY <1>2, <1>5 DEF Pop
<1>. QED
  BY <1>3, <1>4, <1>5

\* Nothing but the wait's own steps ends it that way.
LEMMA CutByWait == TypeOK /\ [Next]_vars /\ Cut => Poll \/ Deadline \/ Pop
<1> SUFFICES ASSUME TypeOK, [Next]_vars, Cut PROVE Poll \/ Deadline \/ Pop
  OBVIOUS
<1> USE DEF Cut, WaitPc
<1>1. run' # run
  OBVIOUS
<1>2. ASSUME NEW r \in Requests,
             \/ LinkRead(r) \/ RequestProceeds(r)
             \/ \E j \in Jobs : ConfirmRead(r, j) \/ CancelRead(r, j)
      PROVE  UNCHANGED run
  BY <1>2 DEF LinkRead, RequestProceeds, LinkCheck, LinkHeal, LinkCreate, ConfirmRead,
     ConfirmWrite, ConfirmPush, CancelRead, CancelWithdraw, CancelWrite
<1>3. ASSUME NEW j \in Jobs, Retry(j) \/ Fetch(j) \/ Stall(j) PROVE FALSE
  BY <1>1, <1>3 DEF Retry, Fetch, Stall, At
<1>4. ~Boots
  BY DEF Boots, Boot, Recover, Recount, FailStranded, At
<1>5. ~Crash
  BY DEF Crash, AtRest
<1>6. ~StoreFails
  <2>1. [run EXCEPT !.outcome = "thrown", !.pc = "release"].outcome = "thrown"
    BY DEF TypeOK, Run
  <2>. QED
    BY <2>1 DEF StoreFails, DriverPc, TypeOK, Run
<1>7. ~Tick
  BY DEF Tick, TypeOK, Run
<1>8. Proceeds => Poll \/ Deadline \/ Pop
  BY DEF Proceeds, MarkProcessing, ClearSignal, ClaimSession, DeviceUp, DeviceReady,
     DriverThrows, AnnounceVerifying, Verify, Release, ResetSession, Finish, Verdict,
     HandleFailure, FreeSlot, Settle, At
<1>9. ~Admit /\ ~Defer
  BY DEF Admit, Defer, At
<1>. QED
  BY <1>1, <1>2, <1>3, <1>4, <1>5, <1>6, <1>7, <1>8, <1>9 DEF Next, vars

\* The two timers of an interactive run agree: the one of processJob, which allows a minute
\* more than the wait (processJob.ts:116-120), never ends a wait before the wait's own
\* deadline (signal.ts:97, 113-141), unless the device took more than that minute to come up.
THEOREM OperatorTimeHolds == Spec => OperatorGetsHerTime
<1>1. ASSUME TypeOK, [Next]_vars, Cut
      PROVE  \/ row[run.job].status = "CANCELLED"
             \/ Expired
             \/ run.booted > SlackTicks
  <2>1. Aborted \/ row[run.job].status = "CANCELLED"
    BY <1>1, CutByTimer, CutByWait
  <2>2. run.ran \in Nat /\ run.booted \in Nat
    BY <1>1 DEF TypeOK, Run
  <2>3. Aborted => Expired \/ run.booted > SlackTicks
    BY <2>2, OnboardingAssumption DEF Aborted, Expired
  <2>. QED
    BY <2>1, <2>3
<1>2. TypeOK /\ [Next]_vars
      => [run'.pc = "release" /\ run.pc \in WaitPc /\ run'.outcome = "cancelled"
            => \/ row[run.job].status = "CANCELLED"
               \/ Expired
               \/ run.booted > SlackTicks]_vars
  BY <1>1 DEF Cut
<1>3. Spec => []TypeOK
  BY OnboardingTypeCorrect
<1>. QED
  BY <1>2, <1>3, PTL DEF Spec, OperatorGetsHerTime
=============================================================================
