---------------------------- MODULE CatalogProofs ----------------------------
(* Theorems about Catalog, for any calls, accounts, proxies, videos and keys. *)
EXTENDS Catalog, TLAPS

-----------------------------------------------------------------------------
(* Types *)

LEMMA BlankTyped == Blank \in Call /\ [Blank EXCEPT !.pc = "answered"] \in Call
BY DEF Blank, Call, Pcs

LEMMA Answered ==
    ASSUME request \in [Requests -> Call], NEW r \in Requests, Answer(r)
    PROVE  request' \in [Requests -> Call]
BY BlankTyped DEF Answer

LEMMA WentOn ==
    ASSUME request \in [Requests -> Call], NEW r \in Requests, NEW pc \in Pcs, Goto(r, pc)
    PROVE  request' \in [Requests -> Call]
<1>1. request[r] \in Call
  OBVIOUS
<1>2. [request[r] EXCEPT !.pc = pc] \in Call
  BY <1>1 DEF Call
<1>. QED
  BY <1>2 DEF Goto

LEMMA Restarted ==
    ASSUME request \in [Requests -> Call], Restart
    PROVE  request' \in [Requests -> Call]
BY BlankTyped DEF Restart

\* Where a call is after a step that begins or answers it; the others stay.
LEMMA BegunAs ==
    ASSUME request \in [Requests -> Call], NEW r \in Requests, NEW call, Begin(r, call)
    PROVE  request'[r] = call /\ \A q \in Requests \ {r} : request'[q] = request[q]
BY DEF Begin

LEMMA AnsweredAs ==
    ASSUME request \in [Requests -> Call], NEW r \in Requests, Answer(r)
    PROVE  /\ request'[r].pc = "answered"
           /\ \A q \in Requests \ {r} : request'[q] = request[q]
BY DEF Answer, Blank

LEMMA StartedAs ==
    ASSUME request \in [Requests -> Call], NEW r \in Requests, Starts(r)
    PROVE  /\ \A q \in Requests \ {r} : request'[q] = request[q]
           /\ request'[r].pc \in {"put", "check", "update", "delete", "assign", "save",
                                  "answered"}
           /\ request'[r].pc = "put" => \E v \in Videos : IngestLookup(r, v)
           /\ request'[r].pc = "delete" => \E p \in Proxies : DeleteCheck(r, p)
<1>1. ASSUME NEW v \in Videos, IngestLookup(r, v)
      PROVE  request'[r].pc = "put" /\ \A q \in Requests \ {r} : request'[q] = request[q]
  <2> DEFINE new == [Blank EXCEPT !.pc = "put", !.video = v]
  <2>1. new.pc = "put"
    BY DEF Blank
  <2>2. Begin(r, new)
    BY <1>1 DEF IngestLookup
  <2> HIDE DEF new
  <2>. QED
    BY <2>1, <2>2, BegunAs
<1>2. ASSUME NEW k \in Keys, NEW a \in Accounts, NEW v \in Optional(Videos),
             NEW p \in Optional(Proxies), NEW dup \in BOOLEAN, JobLookup(r, k, a, v, p, dup)
      PROVE  request'[r].pc = "check" /\ \A q \in Requests \ {r} : request'[q] = request[q]
  <2> DEFINE new == [Blank EXCEPT !.pc = "check", !.key = k, !.account = a, !.video = v,
                               !.proxy = p, !.dup = dup]
  <2>1. new.pc = "check"
    BY DEF Blank
  <2>2. Begin(r, new)
    BY <1>2 DEF JobLookup
  <2> HIDE DEF new
  <2>. QED
    BY <2>1, <2>2, BegunAs
<1>3. ASSUME NEW p \in Proxies, UpdateLookup(r, p)
      PROVE  request'[r].pc = "update" /\ \A q \in Requests \ {r} : request'[q] = request[q]
  <2> DEFINE new == [Blank EXCEPT !.pc = "update", !.proxy = p]
  <2>1. new.pc = "update"
    BY DEF Blank
  <2>2. Begin(r, new)
    BY <1>3 DEF UpdateLookup
  <2> HIDE DEF new
  <2>. QED
    BY <2>1, <2>2, BegunAs
<1>4. ASSUME NEW p \in Proxies, DeleteCheck(r, p)
      PROVE  request'[r].pc = "delete" /\ \A q \in Requests \ {r} : request'[q] = request[q]
  <2> DEFINE new == [Blank EXCEPT !.pc = "delete", !.proxy = p]
  <2>1. new.pc = "delete"
    BY DEF Blank
  <2>2. Begin(r, new)
    BY <1>4 DEF DeleteCheck
  <2> HIDE DEF new
  <2>. QED
    BY <2>1, <2>2, BegunAs
<1>5. ASSUME NEW a \in Accounts, FlowsRead(r, a)
      PROVE  request'[r].pc = "save" /\ \A q \in Requests \ {r} : request'[q] = request[q]
  <2> DEFINE new == [Blank EXCEPT !.pc = "save", !.account = a]
  <2>1. new.pc = "save"
    BY DEF Blank
  <2>2. Begin(r, new)
    BY <1>5 DEF FlowsRead
  <2> HIDE DEF new
  <2>. QED
    BY <2>1, <2>2, BegunAs
<1>6. ASSUME NEW a \in Accounts, NEW p \in Optional(Proxies), AssignCheck(r, a, p)
      PROVE  request'[r].pc = "assign" /\ \A q \in Requests \ {r} : request'[q] = request[q]
  <2> DEFINE new == [Blank EXCEPT !.pc = "assign", !.account = a, !.proxy = p]
  <2>1. new.pc = "assign"
    BY DEF Blank
  <2>2. Begin(r, new)
    BY <1>6 DEF AssignCheck
  <2> HIDE DEF new
  <2>. QED
    BY <2>1, <2>2, BegunAs
<1>7. \/ Answer(r)
      \/ \E v \in Videos : IngestLookup(r, v)
      \/ \E k \in Keys, a \in Accounts, v \in Optional(Videos), p \in Optional(Proxies),
            dup \in BOOLEAN : JobLookup(r, k, a, v, p, dup)
      \/ \E p \in Proxies : UpdateLookup(r, p) \/ DeleteCheck(r, p)
      \/ \E a \in Accounts : FlowsRead(r, a)
                              \/ \E p \in Optional(Proxies) : AssignCheck(r, a, p)
  BY DEF Starts, CreateProxy, CreateAccount
<1>. QED
  BY <1>1, <1>2, <1>3, <1>4, <1>5, <1>6, <1>7, AnsweredAs

LEMMA CreatedAs ==
    ASSUME request \in [Requests -> Call], NEW r \in Requests, JobCreate(r)
    PROVE  /\ request'[r].pc \in {"enqueue", "answered"}
           /\ \A q \in Requests \ {r} : request'[q] = request[q]
<1> DEFINE call == [Blank EXCEPT !.pc = "enqueue", !.key = request[r].key]
<1>1. call.pc = "enqueue"
  BY DEF Blank
<1>2. Begin(r, call) \/ Answer(r)
  BY DEF JobCreate
<1>. QED
  BY <1>1, <1>2, BegunAs, AnsweredAs

LEMMA Keyed == Primary \in Sealed
BY DEF Primary, Sealed

\* A call has what it was begun with until it is answered.
FilledCall(call) ==
    /\ call.pc \in {"put", "record", "verdict"} => call.video \in Videos
    /\ call.pc \in {"check", "create"} => call.account \in Accounts
    /\ call.pc \in {"check", "create", "enqueue"} => call.key \in Keys
    /\ call.pc \in {"update", "delete"} => call.proxy \in Proxies
    /\ call.pc \in {"assign", "save"} => call.account \in Accounts

Filled == \A r \in Requests : FilledCall(request[r])

Typed == TypeOK /\ Filled

LEMMA TypedStarts ==
    ASSUME TypeOK, NEW r \in Requests, Starts(r)
    PROVE  TypeOK'
<1>1. ASSUME NEW v \in Videos, IngestLookup(r, v) PROVE TypeOK'
  <2>1. [Blank EXCEPT !.pc = "put", !.video = v] \in Call
    BY DEF Blank, Call, Pcs
  <2>. QED
    BY <1>1, <2>1 DEF IngestLookup, Begin, TypeOK, media, jobs, secrets, egress
<1>2. ASSUME NEW k \in Keys, NEW a \in Accounts, NEW v \in Optional(Videos),
             NEW p \in Optional(Proxies), NEW dup \in BOOLEAN, JobLookup(r, k, a, v, p, dup)
      PROVE  TypeOK'
  <2>1. [Blank EXCEPT !.pc = "check", !.key = k, !.account = a, !.video = v, !.proxy = p,
                      !.dup = dup] \in Call
    BY DEF Blank, Call, Pcs, Optional
  <2>. QED
    BY <1>2, <2>1 DEF JobLookup, Begin, TypeOK, media, jobs, secrets, egress
<1>3. ASSUME NEW p \in Proxies, UpdateLookup(r, p) \/ DeleteCheck(r, p) PROVE TypeOK'
  <2>1. /\ [Blank EXCEPT !.pc = "update", !.proxy = p] \in Call
        /\ [Blank EXCEPT !.pc = "delete", !.proxy = p] \in Call
    BY DEF Blank, Call, Pcs
  <2>. QED
    BY <1>3, <2>1 DEF UpdateLookup, DeleteCheck, Begin, TypeOK, media, jobs, secrets, egress
<1>4. ASSUME NEW p \in Proxies, NEW withPassword \in BOOLEAN, CreateProxy(r, p, withPassword)
      PROVE  TypeOK'
  <2>1. [exists |-> TRUE, sealed |-> IF withPassword THEN Primary ELSE "none"] \in ProxyRow
    BY Keyed DEF ProxyRow, Sealed
  <2>2. proxy' \in [Proxies -> ProxyRow] /\ request' \in [Requests -> Call]
    BY <1>4, <2>1, Answered DEF CreateProxy, TypeOK
  <2>. QED
    BY <1>4, <2>2 DEF CreateProxy, TypeOK, media, jobs, secrets, egress
<1>5. ASSUME NEW a \in Accounts, CreateAccount(r, a) PROVE TypeOK'
  <2>1. [account[a] EXCEPT !.sealed = Primary] \in AccountRow
    <3>1. account[a] \in AccountRow
      BY DEF TypeOK
    <3>. QED
      BY <3>1, Keyed DEF AccountRow
  <2>2. account' \in [Accounts -> AccountRow] /\ request' \in [Requests -> Call]
    BY <1>5, <2>1, Answered DEF CreateAccount, TypeOK
  <2>. QED
    BY <1>5, <2>2 DEF CreateAccount, TypeOK, media, jobs, secrets, egress
<1>6. ASSUME NEW a \in Accounts,
             FlowsRead(r, a) \/ \E p \in Optional(Proxies) : AssignCheck(r, a, p)
      PROVE  TypeOK'
  <2>1. /\ [Blank EXCEPT !.pc = "save", !.account = a] \in Call
        /\ \A p \in Optional(Proxies) :
              [Blank EXCEPT !.pc = "assign", !.account = a, !.proxy = p] \in Call
    BY DEF Blank, Call, Pcs, Optional
  <2>2. \E call \in Call : Begin(r, call)
    BY <1>6, <2>1 DEF FlowsRead, AssignCheck
  <2>3. request' \in [Requests -> Call]
    BY <2>2 DEF Begin, TypeOK
  <2>. QED
    BY <1>6, <2>3 DEF FlowsRead, AssignCheck, TypeOK, media, jobs, secrets, egress
<1>. QED
  BY <1>1, <1>2, <1>3, <1>4, <1>5, <1>6 DEF Starts

LEMMA TypedUploads ==
    ASSUME Typed, NEW r \in Requests,
           StoragePut(r) \/ CreateVideoRecord(r) \/ Verdict(r) \/ IngestFails(r)
    PROVE  TypeOK'
<1> DEFINE v == request[r].video
<1>0. TypeOK /\ request[r] \in Call /\ "record" \in Pcs /\ "verdict" \in Pcs
  BY DEF Typed, TypeOK, Pcs
<1>1. CASE StoragePut(r)
  <2>1. request' \in [Requests -> Call]
    BY <1>0, <1>1, WentOn DEF StoragePut, TypeOK
  <2>. QED
    BY <1>0, <1>1, <2>1 DEF StoragePut, TypeOK, jobs, secrets, egress
<1>2. CASE CreateVideoRecord(r)
  <2>1. request' \in [Requests -> Call]
    BY <1>0, <1>2, WentOn DEF CreateVideoRecord, TypeOK
  <2>2. video' \in [Videos -> VideoRow] /\ raced' \subseteq Videos
    <3>0. v \in Videos
      BY <1>0, <1>2 DEF CreateVideoRecord, At, Typed, Filled, FilledCall
    <3>1. CASE video[v].status = "none"
      <4>1. [status |-> "VALIDATING", object |-> r] \in VideoRow
        BY DEF VideoRow, VideoStatus
      <4>. QED
        BY <1>0, <1>2, <3>0, <3>1, <4>1 DEF CreateVideoRecord, TypeOK
    <3>3. CASE video[v].status # "none"
      BY <1>0, <1>2, <3>3 DEF CreateVideoRecord, TypeOK
    <3>. QED
      BY <3>1, <3>3
  <2>. QED
    BY <1>0, <1>2, <2>1, <2>2 DEF CreateVideoRecord, TypeOK, jobs, secrets, egress
<1>3. CASE Verdict(r) \/ IngestFails(r)
  <2>1. request' \in [Requests -> Call]
    BY <1>0, <1>3, Answered DEF Verdict, IngestFails, TypeOK
  <2>2. \A s \in VideoStatus : \A w \in Videos : [video[w] EXCEPT !.status = s] \in VideoRow
    BY <1>0 DEF TypeOK, VideoRow
  <2>3. \A s \in VideoStatus : [video EXCEPT ![v].status = s] \in [Videos -> VideoRow]
    BY <1>0, <2>2 DEF TypeOK
  <2>4. video' \in [Videos -> VideoRow]
    BY <1>0, <1>3, <2>3 DEF Verdict, IngestFails, VideoStatus
  <2>. QED
    BY <1>0, <1>3, <2>1, <2>4 DEF Verdict, IngestFails, TypeOK, jobs, secrets, egress
<1>. QED
  BY <1>1, <1>2, <1>3

LEMMA TypedJobCalls ==
    ASSUME Typed, NEW r \in Requests, JobCheck(r) \/ JobCreate(r) \/ Enqueue(r)
    PROVE  TypeOK'
<1>0. TypeOK /\ request[r] \in Call
  BY DEF Typed, TypeOK
<1>1. CASE JobCheck(r)
  <2>1. \A S \in SUBSET Keys :
          [request EXCEPT ![r].pc = "create", ![r].knew = S] \in [Requests -> Call]
    <3>1. \A S \in SUBSET Keys : [request[r] EXCEPT !.pc = "create", !.knew = S] \in Call
      BY <1>0 DEF Call, Pcs
    <3>. QED
      BY <1>0, <3>1 DEF TypeOK
  <2>2. {k \in Keys : SameRun(k, request[r].account, request[r].video)} \in SUBSET Keys
    OBVIOUS
  <2>3. request' \in [Requests -> Call]
    BY <1>0, <1>1, <2>1, <2>2, Answered DEF JobCheck, TypeOK
  <2>. QED
    BY <1>0, <1>1, <2>3 DEF JobCheck, TypeOK, media, jobs, secrets, egress
<1>2. CASE JobCreate(r)
  <2> DEFINE call == request[r]
             row == [status |-> "QUEUED", account |-> call.account, video |-> call.video,
                     proxy |-> call.proxy, dup |-> call.dup, knew |-> call.knew,
                     met |-> {}]
  <2>1. row \in JobRow
    BY <1>0 DEF Call, JobRow, JobStatus, ACTIVE_STATUSES
  <2>2. \A k \in Keys : [Blank EXCEPT !.pc = "enqueue", !.key = k] \in Call
    BY DEF Blank, Call, Pcs
  <2>3. job' \in [Keys -> JobRow]
    BY <1>0, <1>2, <2>1 DEF JobCreate, TypeOK
  <2>4. request' \in [Requests -> Call]
    <3>1. \A k \in Keys \cup {Nobody} : [Blank EXCEPT !.pc = "enqueue", !.key = k] \in Call
      BY DEF Blank, Call, Pcs
    <3>2. call.key \in Keys \cup {Nobody}
      BY <1>0 DEF Call
    <3>. QED
      BY <1>0, <1>2, <3>1, <3>2, Answered DEF JobCreate, Begin, TypeOK
  <2>. QED
    BY <1>0, <1>2, <2>3, <2>4 DEF JobCreate, TypeOK, media, secrets, egress
<1>3. CASE Enqueue(r)
  <2>1. request' \in [Requests -> Call]
    BY <1>0, <1>3, Answered DEF Enqueue, TypeOK
  <2>. QED
    BY <1>0, <1>3, <2>1 DEF Enqueue, At, Typed, TypeOK, Filled, FilledCall, media, secrets, egress
<1>. QED
  BY <1>1, <1>2, <1>3
LEMMA TypedRows ==
    ASSUME Typed, NEW r \in Requests,
           UpdateWrite(r) \/ DeleteRow(r) \/ AssignWrite(r) \/ FlowsWrite(r) \/ Fails(r)
    PROVE  TypeOK'
<1>0. TypeOK /\ request[r] \in Call /\ request' \in [Requests -> Call]
  BY Answered DEF Typed, TypeOK, UpdateWrite, DeleteRow, AssignWrite, FlowsWrite, Fails
<1>1. CASE UpdateWrite(r)
  <2>1. \A p \in Proxies, t \in Sealed : [proxy[p] EXCEPT !.sealed = t] \in ProxyRow
    BY <1>0 DEF TypeOK, ProxyRow
  <2>2. request[r].proxy \in Proxies
    BY <1>1 DEF UpdateWrite, At, Typed, Filled, FilledCall
  <2>3. {proxy[request[r].proxy].sealed, Primary, "none"} \subseteq Sealed
    BY <1>0, <2>2, Keyed DEF TypeOK, ProxyRow, Sealed
  <2>4. proxy' \in [Proxies -> ProxyRow]
    BY <1>0, <1>1, <2>1, <2>2, <2>3 DEF UpdateWrite, TypeOK
  <2>. QED
    BY <1>0, <1>1, <2>4 DEF UpdateWrite, TypeOK, media, jobs, secrets, egress
<1>2. CASE DeleteRow(r)
  <2>1. /\ NoProxy \in ProxyRow
        /\ \A a \in Accounts : [account[a] EXCEPT !.proxy = Nobody] \in AccountRow
        /\ \A k \in Keys : [job[k] EXCEPT !.proxy = Nobody] \in JobRow
    <3>1. NoProxy \in ProxyRow
      BY DEF NoProxy, ProxyRow, Sealed
    <3>2. ASSUME NEW a \in Accounts PROVE [account[a] EXCEPT !.proxy = Nobody] \in AccountRow
      <4>1. account[a] \in AccountRow
        BY <1>0 DEF TypeOK
      <4>. QED
        BY <4>1 DEF AccountRow
    <3>3. ASSUME NEW k \in Keys PROVE [job[k] EXCEPT !.proxy = Nobody] \in JobRow
      <4>1. job[k] \in JobRow
        BY <1>0 DEF TypeOK
      <4>. QED
        BY <4>1 DEF JobRow
    <3>. QED
      BY <3>1, <3>2, <3>3
  <2>2. /\ proxy' \in [Proxies -> ProxyRow] /\ account' \in [Accounts -> AccountRow]
        /\ job' \in [Keys -> JobRow]
    BY <1>0, <1>2, <2>1 DEF DeleteRow, TypeOK
  <2>. QED
    BY <1>0, <1>2, <2>2 DEF DeleteRow, TypeOK, media, secrets, egress
<1>3. CASE AssignWrite(r)
  <2>1. request[r].account \in Accounts /\ request[r].proxy \in Proxies \cup {Nobody}
    BY <1>0, <1>3 DEF AssignWrite, At, Typed, Filled, FilledCall, Call
  <2>2. [account[request[r].account] EXCEPT !.proxy = request[r].proxy] \in AccountRow
    <3>1. account[request[r].account] \in AccountRow
      BY <1>0, <2>1 DEF TypeOK
    <3>. QED
      BY <2>1, <3>1 DEF AccountRow
  <2>3. account' \in [Accounts -> AccountRow]
    BY <1>0, <1>3, <2>1, <2>2 DEF AssignWrite, TypeOK
  <2>4. wanted' \in [Accounts -> Proxies \cup {Nobody}] /\ overtaken' \subseteq Accounts
    BY <1>0, <1>3, <2>1 DEF AssignWrite, TypeOK
  <2>. QED
    BY <1>0, <1>3, <2>3, <2>4 DEF AssignWrite, TypeOK, media, jobs, secrets
<1>4. CASE FlowsWrite(r)
  <2>1. request[r].account \in Accounts
    BY <1>4 DEF FlowsWrite, At, Typed, Filled, FilledCall
  <2>2. [account[request[r].account] EXCEPT !.sealed = Primary, !.flows = r] \in AccountRow
    <3>1. account[request[r].account] \in AccountRow
      BY <1>0, <2>1 DEF TypeOK
    <3>. QED
      BY <3>1, Keyed DEF AccountRow
  <2>3. account' \in [Accounts -> AccountRow] /\ during' \subseteq Accounts
    BY <1>0, <1>4, <2>1, <2>2 DEF FlowsWrite, TypeOK
  <2>. QED
    BY <1>0, <1>4, <2>3 DEF FlowsWrite, TypeOK, media, jobs, egress
<1>5. CASE Fails(r)
  BY <1>0, <1>5 DEF Fails, TypeOK, media, jobs, secrets, egress
<1>. QED
  BY <1>1, <1>2, <1>3, <1>4, <1>5

\* What the life of a job changes: the status of one row, by its id, and what is asked
\* of the queue.
LEMMA BecomesAs ==
    ASSUME TypeOK, NEW k \in Keys, NEW s \in JobStatus, Becomes(k, s)
    PROVE  /\ job' \in [Keys -> JobRow]
           /\ \A l \in Keys \ {k} : job'[l] = job[l]
           /\ job'[k].status = s
           /\ job'[k].account = job[k].account /\ job'[k].video = job[k].video
           /\ job'[k].dup = job[k].dup /\ job'[k].knew = job[k].knew
           /\ s \in ACTIVE_STATUSES =>
                job'[k].met = IF ActiveRun(k) THEN job[k].met ELSE InTheWay(k)
<1>1. job \in [Keys -> JobRow] /\ job[k] \in JobRow /\ InTheWay(k) \in SUBSET Keys
  BY DEF TypeOK, InTheWay
<1>2. PICK m \in SUBSET Keys :
        /\ job' = [job EXCEPT ![k].status = s, ![k].met = m]
        /\ s \in ACTIVE_STATUSES => m = IF ActiveRun(k) THEN job[k].met ELSE InTheWay(k)
  <2>1. CASE s \notin ACTIVE_STATUSES
    <3>1. {} \in SUBSET Keys /\ job' = [job EXCEPT ![k].status = s, ![k].met = {}]
      BY <2>1 DEF Becomes
    <3>. QED
      BY <2>1, <3>1
  <2>2. CASE s \in ACTIVE_STATUSES /\ ActiveRun(k)
    <3>1. job[k].met \in SUBSET Keys
      BY <1>1 DEF JobRow
    <3>. QED
      BY <1>1, <2>2, <3>1 DEF Becomes
  <2>3. CASE s \in ACTIVE_STATUSES /\ ~ActiveRun(k)
    BY <1>1, <2>3 DEF Becomes
  <2>. QED
    BY <2>1, <2>2, <2>3
<1> DEFINE row == [job[k] EXCEPT !.status = s, !.met = m]
<1>3. /\ row \in JobRow /\ row.status = s /\ row.met = m
      /\ row.account = job[k].account /\ row.video = job[k].video
      /\ row.dup = job[k].dup /\ row.knew = job[k].knew
  BY <1>1, <1>2 DEF JobRow
<1>4. job' = [job EXCEPT ![k] = row]
  BY <1>1, <1>2
<1> HIDE DEF row
<1>5. job' \in [Keys -> JobRow]
  BY <1>1, <1>3, <1>4
<1>6. job'[k] = row /\ \A l \in Keys \ {k} : job'[l] = job[l]
  BY <1>1, <1>4
<1>. QED
  BY <1>2, <1>3, <1>5, <1>6

LEMMA LifeAs ==
    ASSUME (\E k \in Keys : Lives(k)) \/ BootLists
    PROVE  /\ UNCHANGED <<request, media, account, proxy, secrets, egress>>
           /\ UNCHANGED job \/ \E k \in Keys, s \in JobStatus \ {"none"} : Becomes(k, s)
<1>1. {"COMPLETED", "CANCELLED", "FAILED", "QUEUED", "PROCESSING"} \subseteq JobStatus \ {"none"}
  BY DEF JobStatus, ACTIVE_STATUSES
<1>2. ASSUME NEW k \in Keys, Lives(k)
      PROVE  UNCHANGED job \/ \E s \in JobStatus \ {"none"} : Becomes(k, s)
  <2>1. CASE CancelJob(k) \/ RetryJob(k)
    BY <1>1, <2>1 DEF CancelJob, RetryJob
  <2>2. CASE JobRuns(k) \/ JobCompletes(k) \/ JobFailed(k)
    BY <1>1, <2>2 DEF JobRuns, JobCompletes, JobFailed
  <2>3. CASE BootRequeues(k)
    BY <1>1, <2>3 DEF BootRequeues
  <2>4. CASE JobFetch(k) \/ JobFails(k) \/ JobStalls(k)
    BY <2>4 DEF JobFetch, JobFails, JobStalls
  <2>. QED
    BY <1>2, <2>1, <2>2, <2>3, <2>4 DEF Lives
<1>3. ASSUME NEW k \in Keys, Lives(k)
      PROVE  UNCHANGED <<request, media, account, proxy, secrets, egress>>
  BY <1>3 DEF Lives, CancelJob, RetryJob, JobFetch, JobRuns, JobCompletes, JobFails,
     JobFailed, JobStalls, BootRequeues
<1>4. CASE BootLists
  BY <1>4 DEF BootLists
<1>. QED
  BY <1>2, <1>3, <1>4

LEMMA TypedLife ==
    ASSUME TypeOK, (\E k \in Keys : Lives(k)) \/ BootLists
    PROVE  TypeOK'
<1>1. job' \in [Keys -> JobRow]
  <2>1. CASE UNCHANGED job
    BY <2>1 DEF TypeOK
  <2>2. ASSUME NEW k \in Keys, NEW s \in JobStatus \ {"none"}, Becomes(k, s)
        PROVE  job' \in [Keys -> JobRow]
    BY <2>2, BecomesAs
  <2>. QED
    BY <2>1, <2>2, LifeAs
<1>2. Spend => budget' \in [changes : Nat, events : Nat]
  BY DEF Spend, TypeOK
<1>3. \A k \in Keys, pc \in RunPc : RunGoes(k, pc) => run' \in [Keys -> RunPc]
  BY DEF RunGoes, TypeOK
<1>4. {"none", "read", "running", "failing"} = RunPc
  BY DEF RunPc
<1>5. /\ queued' \subseteq Keys /\ listed' \subseteq Keys
      /\ run' \in [Keys -> RunPc] /\ budget' \in [changes : Nat, events : Nat]
  <2>1. CASE BootLists
    BY <1>2, <2>1 DEF BootLists, TypeOK
  <2>2. ASSUME NEW k \in Keys, CancelJob(k) \/ RetryJob(k) \/ BootRequeues(k)
        PROVE  <1>5!:
    BY <1>2, <2>2 DEF CancelJob, RetryJob, BootRequeues, TypeOK
  <2>3. ASSUME NEW k \in Keys, JobFetch(k) \/ JobRuns(k) \/ JobCompletes(k) PROVE <1>5!:
    BY <1>2, <1>3, <1>4, <2>3 DEF JobFetch, JobRuns, JobCompletes, TypeOK
  <2>4. ASSUME NEW k \in Keys, JobFails(k) \/ JobFailed(k) \/ JobStalls(k) PROVE <1>5!:
    BY <1>3, <1>4, <2>4 DEF JobFails, JobFailed, JobStalls, TypeOK
  <2>. QED
    BY <2>1, <2>2, <2>3, <2>4 DEF Lives
<1>. QED
  BY <1>1, <1>5, LifeAs DEF TypeOK, media, secrets, egress

LEMMA NotRunningTyped ==
    NotRunning \in [running : BOOLEAN, left : SUBSET Accounts,
                    read : [Accounts -> CredentialsRow]]
<1>1. [sealed |-> "none", flows |-> Nobody] \in CredentialsRow
  BY DEF CredentialsRow, Sealed
<1>. QED
  BY <1>1 DEF NotRunning

LEMMA TypedRotates ==
    ASSUME TypeOK, Rotates \/ AppRestarts
    PROVE  TypeOK'
<1>1. \A p \in Phases, d \in BOOLEAN :
        /\ [rotation EXCEPT !.phase = p] \in [phase : Phases, done : BOOLEAN]
        /\ [rotation EXCEPT !.done = d] \in [phase : Phases, done : BOOLEAN]
  BY DEF TypeOK
<1>2. CASE AppRestarts
  BY <1>2, Restarted DEF AppRestarts, TypeOK, media, jobs, secrets, egress
<1>3. CASE InstallKey \/ RetireKey
  <2>1. request' \in [Requests -> Call] /\ rotation' \in [phase : Phases, done : BOOLEAN]
    BY <1>1, <1>3, Restarted DEF InstallKey, RetireKey, Phases, TypeOK
  <2>2. budget' \in [changes : Nat, events : Nat]
    BY <1>3 DEF InstallKey, RetireKey, TypeOK
  <2>. QED
    BY <1>3, <2>1, <2>2 DEF InstallKey, RetireKey, TypeOK, media, jobs, egress
<1>4. CASE RotateList
  <2>1. \A a \in Accounts : Credentials(a) \in CredentialsRow
    BY DEF TypeOK, AccountRow, Credentials, CredentialsRow
  <2>2. script' \in [running : BOOLEAN, left : SUBSET Accounts,
                     read : [Accounts -> CredentialsRow]]
    BY <1>4, <2>1 DEF RotateList
  <2>. QED
    BY <1>4, <2>2 DEF RotateList, TypeOK, media, jobs, egress
<1>5. ASSUME NEW a \in Accounts, Reseal(a) PROVE TypeOK'
  <2>1. script' \in [running : BOOLEAN, left : SUBSET Accounts,
                     read : [Accounts -> CredentialsRow]]
    BY <1>5 DEF Reseal, TypeOK
  <2>2. [account[a] EXCEPT !.sealed = Primary, !.flows = script.read[a].flows] \in AccountRow
    <3>1. account[a] \in AccountRow /\ script.read[a].flows \in Requests \cup {Nobody}
      BY DEF TypeOK, CredentialsRow
    <3>. QED
      BY <3>1, Keyed DEF AccountRow
  <2>3. account' \in [Accounts -> AccountRow]
    BY <1>5, <2>2 DEF Reseal, TypeOK
  <2>. QED
    BY <1>5, <2>1, <2>3 DEF Reseal, TypeOK, media, jobs, egress
<1>6. CASE ScriptEnds
  BY <1>1, <1>6, NotRunningTyped DEF ScriptEnds, TypeOK, media, jobs, egress
<1>. QED
  BY <1>2, <1>3, <1>4, <1>5, <1>6 DEF Rotates

\* One step of one call leaves the rest of the calls alone.
LEMMA FilledStep ==
    ASSUME TypeOK, Filled, NEW r \in Requests, NEW call, FilledCall(call),
           request' = [request EXCEPT ![r] = call]
    PROVE  Filled'
BY DEF TypeOK, Filled

LEMMA FilledAnswer == FilledCall([Blank EXCEPT !.pc = "answered"]) /\ FilledCall(Blank)
BY DEF FilledCall, Blank

LEMMA FilledNext == Typed /\ [Next]_vars => Filled'
<1> SUFFICES ASSUME TypeOK, Filled, [Next]_vars PROVE Filled'
  BY DEF Typed
<1>0. \A r \in Requests : request[r] \in Call /\ FilledCall(request[r])
  BY DEF TypeOK, Filled
<1>1. ASSUME NEW r \in Requests, Answer(r) PROVE Filled'
  BY <1>1, FilledAnswer, FilledStep DEF Answer
<1>2. ASSUME NEW r \in Requests, Starts(r) PROVE Filled'
  <2>1. CASE Answer(r)
    BY <1>1, <2>1
  <2>2. ASSUME NEW v \in Videos, IngestLookup(r, v) PROVE Filled'
    <3>1. FilledCall([Blank EXCEPT !.pc = "put", !.video = v])
      BY DEF Blank, FilledCall
    <3>. QED
      BY <2>2, <3>1, FilledStep DEF IngestLookup, Begin
  <2>3. ASSUME NEW k \in Keys, NEW a \in Accounts, NEW v \in Optional(Videos),
               NEW p \in Optional(Proxies), NEW dup \in BOOLEAN, JobLookup(r, k, a, v, p, dup)
        PROVE  Filled'
    <3>1. FilledCall([Blank EXCEPT !.pc = "check", !.key = k, !.account = a, !.video = v,
                                   !.proxy = p, !.dup = dup])
      BY DEF Blank, FilledCall
    <3>. QED
      BY <2>3, <3>1, FilledStep DEF JobLookup, Begin
  <2>4. ASSUME NEW p \in Proxies, UpdateLookup(r, p) \/ DeleteCheck(r, p) PROVE Filled'
    <3>1. /\ FilledCall([Blank EXCEPT !.pc = "update", !.proxy = p])
          /\ FilledCall([Blank EXCEPT !.pc = "delete", !.proxy = p])
      BY DEF Blank, FilledCall
    <3>. QED
      BY <2>4, <3>1, FilledStep DEF UpdateLookup, DeleteCheck, Begin
  <2>5. ASSUME NEW a \in Accounts,
               FlowsRead(r, a) \/ \E p \in Optional(Proxies) : AssignCheck(r, a, p)
        PROVE  Filled'
    <3>1. /\ FilledCall([Blank EXCEPT !.pc = "save", !.account = a])
          /\ \A p \in Optional(Proxies) :
                FilledCall([Blank EXCEPT !.pc = "assign", !.account = a, !.proxy = p])
      BY DEF Blank, FilledCall
    <3>. QED
      BY <2>5, <3>1, FilledStep DEF FlowsRead, AssignCheck, Begin
  <2>. QED
    BY <1>2, <2>1, <2>2, <2>3, <2>4, <2>5 DEF Starts, CreateProxy, CreateAccount
<1>3. ASSUME NEW r \in Requests, Proceeds(r) PROVE Filled'
  <2> DEFINE call == request[r]
  <2>1. CASE Answer(r)
    BY <1>1, <2>1
  <2>2. CASE StoragePut(r) \/ CreateVideoRecord(r)
    <3>1. call.video \in Videos
      BY <1>0, <2>2 DEF StoragePut, CreateVideoRecord, At, FilledCall
    <3>2. FilledCall([call EXCEPT !.pc = "record"]) /\ FilledCall([call EXCEPT !.pc = "verdict"])
      BY <1>0, <3>1 DEF Call, FilledCall
    <3>3. \/ request' = [request EXCEPT ![r] = [call EXCEPT !.pc = "record"]]
          \/ request' = [request EXCEPT ![r] = [call EXCEPT !.pc = "verdict"]]
      BY <2>2 DEF StoragePut, CreateVideoRecord, Goto, TypeOK
    <3>. QED
      BY <3>2, <3>3, FilledStep
  <2>3. CASE JobCheck(r) /\ ~Answer(r)
    <3> DEFINE knew == {k \in Keys : SameRun(k, call.account, call.video)}
    <3>1. call.account \in Accounts /\ call.key \in Keys
      BY <1>0, <2>3 DEF JobCheck, At, FilledCall
    <3>2. FilledCall([call EXCEPT !.pc = "create", !.knew = knew])
      BY <1>0, <3>1 DEF Call, FilledCall
    <3>3. request' = [request EXCEPT ![r] = [call EXCEPT !.pc = "create", !.knew = knew]]
      BY <2>3 DEF JobCheck, TypeOK
    <3>. QED
      BY <3>2, <3>3, FilledStep
  <2>4. CASE JobCreate(r) /\ ~Answer(r)
    <3>1. call.key \in Keys
      BY <1>0, <2>4 DEF JobCreate, At, FilledCall
    <3>2. FilledCall([Blank EXCEPT !.pc = "enqueue", !.key = call.key])
      BY <3>1 DEF Blank, FilledCall
    <3>. QED
      BY <2>4, <3>2, FilledStep DEF JobCreate, Begin
  <2>. QED
    BY <1>3, <2>1, <2>2, <2>3, <2>4 DEF Proceeds, Verdict, IngestFails, Enqueue, UpdateWrite,
       DeleteRow, AssignWrite, FlowsWrite, Fails
<1>4. CASE Restart
  BY <1>4, FilledAnswer DEF Restart, Filled
<1>5. CASE UNCHANGED request
  BY <1>5 DEF Filled
<1>. QED
  BY <1>2, <1>3, <1>4, <1>5, LifeAs DEF Next, vars, Rotates, AppRestarts, InstallKey,
     RetireKey, RotateList, Reseal, ScriptEnds

LEMMA TypedInit == Init => Typed
<1> SUFFICES ASSUME Init PROVE Typed
  OBVIOUS
<1>1. request \in [Requests -> Call] /\ Filled
  BY BlankTyped, FilledAnswer DEF Init, Filled
<1>2. video \in [Videos -> VideoRow] /\ job \in [Keys -> JobRow]
  <2>1. NoVideo \in VideoRow /\ NoJob \in JobRow
    BY DEF NoVideo, VideoRow, VideoStatus, NoJob, JobRow, JobStatus
  <2>. QED
    BY <2>1 DEF Init
<1>3. proxy \in [Proxies -> ProxyRow]
  <2>1. NoProxy \in ProxyRow /\ [exists |-> TRUE, sealed |-> "old"] \in ProxyRow
    BY DEF NoProxy, ProxyRow, Sealed
  <2>. QED
    BY <2>1 DEF Init
<1>4. wanted \in [Accounts -> Proxies \cup {Nobody}]
  BY DEF Init
<1>5. script \in [running : BOOLEAN, left : SUBSET Accounts,
                  read : [Accounts -> CredentialsRow]]
      /\ rotation \in [phase : Phases, done : BOOLEAN] /\ budget \in [changes : Nat, events : Nat]
      /\ run \in [Keys -> RunPc]
  BY NotRunningTyped, BudgetsAssumption DEF Init, Phases, RunPc
<1>. QED
  BY <1>1, <1>2, <1>3, <1>4, <1>5 DEF Init, Typed, TypeOK

LEMMA TypedNext == Typed /\ [Next]_vars => Typed'
<1> SUFFICES ASSUME Typed, [Next]_vars PROVE TypeOK'
  BY FilledNext DEF Typed
<1>0. TypeOK
  BY DEF Typed
<1>1. ASSUME NEW r \in Requests, Starts(r) \/ Proceeds(r) PROVE TypeOK'
  BY <1>0, <1>1, TypedStarts, TypedUploads, TypedJobCalls, TypedRows DEF Proceeds
<1>2. CASE (\E k \in Keys : Lives(k)) \/ BootLists
  BY <1>0, <1>2, TypedLife
<1>3. CASE AppRestarts \/ Rotates
  BY <1>0, <1>3, TypedRotates
<1>4. CASE UNCHANGED vars
  BY <1>0, <1>4 DEF vars, media, jobs, secrets, egress, TypeOK
<1>. QED
  BY <1>1, <1>2, <1>3, <1>4 DEF Next

\* The rows and the calls stay in their types: no step of a handler, a restart or the
\* script stores something the schema has no place for (prisma/schema.prisma).
THEOREM CatalogTypeCorrect == Spec => []TypeOK
<1>1. Typed => TypeOK
  BY DEF Typed
<1>. QED
  BY <1>1, TypedInit, TypedNext, PTL DEF Spec

-----------------------------------------------------------------------------
(* Credentials *)

Current(a) == account[a].sealed \in {"none", "new"}

\* Why the last key may go: what the script has gone through, or found sealed with the
\* new key, stays so, and nothing else is ever sealed with the old one.
Rotating ==
    /\ rotation.phase = "before" =>
          /\ ~script.running /\ ~rotation.done
          /\ \A a \in Accounts : account[a].sealed \in {"none", "old"}
    /\ rotation.phase = "both" /\ ~script.running /\ rotation.done =>
          \A a \in Accounts : Current(a)
    /\ rotation.phase = "both" /\ script.running =>
          \A a \in Accounts : a \notin script.left \/ script.read[a].sealed = "new" => Current(a)
    /\ rotation.phase = "after" =>
          ~script.running /\ \A a \in Accounts : Current(a)

LEMMA RotatingKept ==
    ASSUME Typed, Rotating, UNCHANGED <<rotation, script>>,
           \A a \in Accounts : account'[a].sealed \in {account[a].sealed, Primary}
    PROVE  Rotating'
BY DEF Rotating, Current, Primary

LEMMA RotatingNext == Typed /\ Rotating /\ [Next]_vars => Rotating'
<1> SUFFICES ASSUME Typed, Rotating, [Next]_vars PROVE Rotating'
  OBVIOUS
<1>0. /\ account \in [Accounts -> AccountRow] /\ rotation.phase \in Phases
      /\ rotation.done \in BOOLEAN /\ script.running \in BOOLEAN
      /\ rotation \in [phase : Phases, done : BOOLEAN]
      /\ script \in [running : BOOLEAN, left : SUBSET Accounts,
                     read : [Accounts -> CredentialsRow]]
  BY DEF Typed, TypeOK
<1>1. ASSUME NEW r \in Requests, Starts(r) \/ Proceeds(r) PROVE Rotating'
  <2>1. UNCHANGED <<rotation, script>>
    BY <1>1 DEF Starts, IngestLookup, JobLookup, UpdateLookup, DeleteCheck, CreateProxy,
       CreateAccount, FlowsRead, AssignCheck, Proceeds, StoragePut, CreateVideoRecord, Verdict,
       IngestFails, JobCheck, JobCreate, Enqueue, UpdateWrite, DeleteRow, AssignWrite,
       FlowsWrite, Fails, secrets
  <2>2. CASE UNCHANGED account
    BY <2>1, <2>2, RotatingKept
  <2>3. CASE DeleteRow(r) \/ AssignWrite(r)
    <3>1. \A a \in Accounts : account'[a].sealed = account[a].sealed
      BY <1>0, <2>3 DEF DeleteRow, AssignWrite, AccountRow
    <3>. QED
      BY <2>1, <3>1, RotatingKept
  <2>4. CASE FlowsWrite(r) \/ \E a \in Accounts : CreateAccount(r, a)
    <3>1. \A a \in Accounts : account'[a].sealed \in {account[a].sealed, Primary}
      BY <1>0, <2>4 DEF FlowsWrite, CreateAccount, AccountRow
    <3>. QED
      BY <2>1, <3>1, RotatingKept
  <2>. QED
    BY <1>1, <2>2, <2>3, <2>4 DEF Starts, IngestLookup, JobLookup, UpdateLookup, DeleteCheck,
       CreateProxy, FlowsRead, AssignCheck, Proceeds, StoragePut, CreateVideoRecord, Verdict,
       IngestFails, JobCheck, JobCreate, Enqueue, UpdateWrite, Fails
<1>2. CASE UNCHANGED <<rotation, script, account>>
  BY <1>2, RotatingKept
<1>3. CASE InstallKey
  BY <1>0, <1>3 DEF InstallKey, Rotating
<1>4. CASE RotateList
  <2>1. /\ script'.running /\ UNCHANGED <<account, rotation>> /\ rotation.phase = "both"
        /\ \A a \in Accounts : /\ a \notin script'.left => account[a].sealed = "none"
                               /\ script'.read[a].sealed = account[a].sealed
    BY <1>4 DEF RotateList, Credentials
  <2>. QED
    BY <2>1 DEF Rotating, Current
<1>5. ASSUME NEW a \in Accounts, Reseal(a) PROVE Rotating'
  <2>1. /\ script'.running /\ script'.read = script.read /\ script'.left = script.left \ {a}
        /\ UNCHANGED rotation
    BY <1>0, <1>5 DEF Reseal
  <2>2. rotation.phase = "both"
    BY <1>0, <1>5 DEF Reseal, Rotating, Phases
  <2>3. /\ \/ account'[a].sealed = "new"
           \/ script.read[a].sealed = "new" /\ UNCHANGED account
        /\ \A b \in Accounts \ {a} : account'[b] = account[b]
    <3>1. Primary = "new" /\ account[a] \in AccountRow
      BY <1>0, <2>2 DEF Primary
    <3>2. CASE script.read[a].sealed = Primary
      BY <1>5, <3>1, <3>2 DEF Reseal
    <3>3. CASE script.read[a].sealed # Primary
      <4>1. account' = [account EXCEPT ![a].sealed = "new", ![a].flows = script.read[a].flows]
        BY <1>5, <3>1, <3>3 DEF Reseal
      <4>2. account'[a] = [account[a] EXCEPT !.sealed = "new", !.flows = script.read[a].flows]
            /\ \A b \in Accounts \ {a} : account'[b] = account[b]
        BY <1>0, <4>1
      <4>3. account'[a].sealed = "new"
        BY <3>1, <4>2 DEF AccountRow
      <4>. QED
        BY <4>2, <4>3
    <3>. QED
      BY <3>2, <3>3
  <2>. QED
    BY <1>5, <2>1, <2>2, <2>3 DEF Rotating, Current, Reseal
<1>6. CASE ScriptEnds
  <2>1. /\ ~script'.running /\ UNCHANGED account /\ rotation'.phase = rotation.phase
        /\ rotation'.done = (script.left = {})
    BY <1>0, <1>6 DEF ScriptEnds, NotRunning
  <2>2. rotation.phase = "both"
    BY <1>0, <1>6 DEF ScriptEnds, Rotating, Phases
  <2>. QED
    BY <1>6, <2>1, <2>2 DEF Rotating, Current, ScriptEnds
<1>7. CASE RetireKey
  <2>1. /\ ~script'.running /\ UNCHANGED account /\ rotation'.phase = "after"
        /\ \A a \in Accounts : Current(a)
    BY <1>0, <1>7 DEF RetireKey, Rotating
  <2>. QED
    BY <2>1 DEF Rotating, Current
<1>. QED
  BY <1>1, <1>2, <1>3, <1>4, <1>5, <1>6, <1>7, LifeAs
     DEF Next, vars, secrets, Rotates, AppRestarts

\* Whatever calls, restarts and runs of the script there are, in any order, and however
\* many accounts, their credentials open at every stage of a rotation
\* (lib/crypto/secretBox.ts:87-107, scripts/rotateCredentials.ts).
THEOREM CredentialsHold == Spec => []CredentialsOpen
<1>1. Init => Rotating
  BY DEF Init, Rotating, NotRunning
<1>2. Typed /\ Rotating => CredentialsOpen
  <2> SUFFICES ASSUME Typed, Rotating, NEW a \in Accounts PROVE Opens(account[a].sealed)
    BY DEF CredentialsOpen
  <2>1. account[a].sealed \in {"none", "old", "new"} /\ rotation.phase \in Phases
    BY DEF Typed, TypeOK, AccountRow, Sealed
  <2>. QED
    BY <2>1 DEF Rotating, Current, Opens, Configured, Primary, Phases
<1>. QED
  BY <1>1, <1>2, RotatingNext, TypedInit, TypedNext, PTL DEF Spec

-----------------------------------------------------------------------------
(* Saves and the script *)

\* What the script holds of an account is what it has, unless it was saved since.
Listed ==
    script.running =>
        \A a \in Accounts : account[a].flows = script.read[a].flows \/ a \in during

\* The flows of an account, and what a step does to them.
LEMMA FlowsStep ==
    ASSUME Typed, Listed, [Next]_vars
    PROVE  /\ Listed'
           /\ \A a \in Accounts : account'[a].flows # account[a].flows =>
                 (\E r \in Requests : At(r, "save") /\ account'[a].flows = r) \/ a \in during
<1>0. /\ account \in [Accounts -> AccountRow] /\ script.running \in BOOLEAN
      /\ script \in [running : BOOLEAN, left : SUBSET Accounts,
                     read : [Accounts -> CredentialsRow]]
  BY DEF Typed, TypeOK
<1>1. CASE /\ UNCHANGED <<script, during>>
           /\ \A a \in Accounts : account'[a].flows = account[a].flows
  BY <1>1 DEF Listed
<1>2. ASSUME NEW r \in Requests, DeleteRow(r) \/ AssignWrite(r)
                                  \/ \E a \in Accounts : CreateAccount(r, a)
      PROVE  UNCHANGED <<script, during>>
             /\ \A a \in Accounts : account'[a].flows = account[a].flows
  BY <1>0, <1>2 DEF DeleteRow, AssignWrite, CreateAccount, AccountRow, secrets
<1>3. ASSUME NEW r \in Requests, FlowsWrite(r)
      PROVE  /\ Listed'
             /\ \A a \in Accounts : account'[a].flows # account[a].flows =>
                   At(r, "save") /\ account'[a].flows = r
  <2>1. \A a \in Accounts : IF a = request[r].account THEN account'[a].flows = r
                                                      ELSE account'[a] = account[a]
    BY <1>0, <1>3 DEF FlowsWrite, AccountRow
  <2>. QED
    BY <1>3, <2>1 DEF FlowsWrite, Listed
<1>4. ASSUME NEW a \in Accounts, Reseal(a)
      PROVE  /\ Listed'
             /\ \A b \in Accounts : account'[b].flows # account[b].flows => b \in during
  <2>1. /\ script.running /\ script'.running /\ script'.read = script.read
        /\ UNCHANGED during
        /\ account'[a].flows \in {account[a].flows, script.read[a].flows}
        /\ \A b \in Accounts \ {a} : account'[b] = account[b]
    <3>1. account[a] \in AccountRow
      BY <1>0
    <3>. QED
      BY <1>0, <1>4, <3>1 DEF Reseal, AccountRow
  <2>. QED
    BY <2>1 DEF Listed
<1>5. CASE RotateList
  BY <1>5 DEF RotateList, Listed, Credentials
<1>6. CASE ScriptEnds
  BY <1>6 DEF ScriptEnds, Listed, NotRunning
<1>7. ASSUME NEW r \in Requests, Starts(r) \/ Proceeds(r), ~FlowsWrite(r)
      PROVE  /\ UNCHANGED <<script, during>>
             /\ \A a \in Accounts : account'[a].flows = account[a].flows
  <2>1. CASE DeleteRow(r) \/ AssignWrite(r) \/ \E a \in Accounts : CreateAccount(r, a)
    BY <1>2, <2>1
  <2>2. CASE UNCHANGED account
    BY <1>7, <2>2 DEF Starts, IngestLookup, JobLookup, UpdateLookup, DeleteCheck,
       CreateProxy, CreateAccount, FlowsRead, AssignCheck, Proceeds, StoragePut,
       CreateVideoRecord, Verdict, IngestFails, JobCheck, JobCreate, Enqueue, UpdateWrite,
       DeleteRow, AssignWrite, Fails, secrets
  <2>. QED
    BY <1>7, <2>1, <2>2 DEF Starts, IngestLookup, JobLookup, UpdateLookup, DeleteCheck,
       CreateProxy, FlowsRead, AssignCheck, Proceeds, StoragePut, CreateVideoRecord, Verdict,
       IngestFails, JobCheck, JobCreate, Enqueue, UpdateWrite, Fails
<1>8. CASE \/ (\E k \in Keys : Lives(k)) \/ BootLists
           \/ AppRestarts \/ InstallKey \/ RetireKey \/ UNCHANGED vars
  BY <1>1, <1>8, LifeAs DEF AppRestarts, InstallKey, RetireKey, vars, secrets
<1>. QED
  BY <1>1, <1>3, <1>4, <1>5, <1>6, <1>7, <1>8 DEF Next, Rotates

\* The script never takes back a save but one made after it had listed the account
\* (lib/accounts/flows.ts:82-120, scripts/rotateCredentials.ts:60-65).
THEOREM SavesHold == Spec => SavesStand
<1>1. Init => Listed
  BY DEF Init, Listed, NotRunning
<1>2. Typed /\ Listed /\ [Next]_vars => Listed'
  BY FlowsStep
<1>3. Typed /\ Listed /\ [Next]_vars =>
        [\A a \in Accounts : account'[a].flows # account[a].flows =>
            \/ \E r \in Requests : At(r, "save") /\ account'[a].flows = r
            \/ a \in during]_vars
  BY FlowsStep
<1>. QED
  BY <1>1, <1>2, <1>3, TypedInit, TypedNext, PTL DEF Spec, SavesStand

-----------------------------------------------------------------------------
(* A proxy and its accounts *)

\* An account that points at a proxy about to be deleted was pointed there too late.
Deleting ==
    \A r \in Requests, a \in Accounts :
        At(r, "delete") /\ account[a].proxy = request[r].proxy => a \in overtaken

Egressed == EgressStands /\ Deleting

\* The calls that are about to delete are those that were, or have just checked.
LEMMA DeletingKept ==
    ASSUME Typed, Egressed, UNCHANGED egress,
           \A a \in Accounts : account'[a].proxy = account[a].proxy,
           \A r \in Requests : request'[r].pc = "delete" =>
               \/ request'[r] = request[r]
               \/ \A a \in Accounts : account[a].proxy # request'[r].proxy
    PROVE  Egressed'
BY DEF Egressed, EgressStands, Deleting, At, egress

LEMMA EgressedNext == Typed /\ Egressed /\ [Next]_vars => Egressed'
<1> SUFFICES ASSUME Typed, Egressed, [Next]_vars PROVE Egressed'
  OBVIOUS
<1>0. /\ account \in [Accounts -> AccountRow] /\ wanted \in [Accounts -> Proxies \cup {Nobody}]
      /\ request \in [Requests -> Call] /\ Filled
  BY DEF Typed, TypeOK
<1>1. ASSUME NEW r \in Requests, NEW call, request' = [request EXCEPT ![r] = call],
             call.pc # "delete" \/ \A a \in Accounts : account[a].proxy # call.proxy
      PROVE  \A q \in Requests : request'[q].pc = "delete" =>
                 \/ request'[q] = request[q]
                 \/ \A a \in Accounts : account[a].proxy # request'[q].proxy
  BY <1>0, <1>1
<1>2. ASSUME NEW r \in Requests, Starts(r) PROVE Egressed'
  <2>1. UNCHANGED egress /\ \A a \in Accounts : account'[a].proxy = account[a].proxy
    <3>1. CASE UNCHANGED account
      BY <1>2, <3>1 DEF Starts, IngestLookup, JobLookup, UpdateLookup, DeleteCheck,
         CreateProxy, CreateAccount, FlowsRead, AssignCheck
    <3>2. CASE \E a \in Accounts : CreateAccount(r, a)
      BY <1>0, <3>2 DEF CreateAccount, AccountRow
    <3>. QED
      BY <1>2, <3>1, <3>2 DEF Starts, IngestLookup, JobLookup, UpdateLookup, DeleteCheck,
         CreateProxy, FlowsRead, AssignCheck
  <2>2. CASE \E p \in Proxies : DeleteCheck(r, p)
    <3>1. PICK p \in Proxies : DeleteCheck(r, p)
      BY <2>2
    <3>2. [Blank EXCEPT !.pc = "delete", !.proxy = p].proxy = p
      BY DEF Blank
    <3>. QED
      BY <1>1, <2>1, <3>1, <3>2, DeletingKept DEF DeleteCheck, Begin
  <2>3. CASE ~\E p \in Proxies : DeleteCheck(r, p)
    <3>1. \A q \in Requests : request'[q].pc = "delete" => request'[q] = request[q]
      BY <1>0, <1>2, <2>3, StartedAs
    <3>. QED
      BY <2>1, <3>1, DeletingKept
  <2>. QED
    BY <2>2, <2>3
<1>3. ASSUME NEW r \in Requests, Proceeds(r), ~DeleteRow(r), ~AssignWrite(r) PROVE Egressed'
  <2>1. UNCHANGED egress /\ \A a \in Accounts : account'[a].proxy = account[a].proxy
    <3>1. CASE UNCHANGED account
      BY <1>3, <3>1 DEF Proceeds, StoragePut, CreateVideoRecord, Verdict, IngestFails,
         JobCheck, JobCreate, Enqueue, UpdateWrite, FlowsWrite, Fails
    <3>2. CASE FlowsWrite(r)
      BY <1>0, <3>2 DEF FlowsWrite, AccountRow
    <3>. QED
      BY <1>3, <3>1, <3>2 DEF Proceeds, StoragePut, CreateVideoRecord, Verdict, IngestFails,
         JobCheck, JobCreate, Enqueue, UpdateWrite, Fails
  <2>2. \A q \in Requests : request'[q].pc = "delete" => request'[q] = request[q]
    <3>1. CASE Answer(r)
      BY <1>0, <3>1 DEF Answer, Blank
    <3>2. CASE StoragePut(r) \/ CreateVideoRecord(r)
      BY <1>0, <3>2 DEF StoragePut, CreateVideoRecord, Goto, Call
    <3>3. CASE JobCheck(r) /\ ~Answer(r)
      <4>1. [request[r] EXCEPT !.pc = "create", !.knew = {k \in Keys :
                SameRun(k, request[r].account, request[r].video)}].pc = "create"
        BY <1>0 DEF Call
      <4>. QED
        BY <1>0, <3>3, <4>1 DEF JobCheck
    <3>4. CASE JobCreate(r) /\ ~Answer(r)
      BY <1>0, <3>4 DEF JobCreate, Begin, Blank
    <3>. QED
      BY <1>3, <3>1, <3>2, <3>3, <3>4 DEF Proceeds, Verdict, IngestFails, Enqueue,
         UpdateWrite, FlowsWrite, Fails
  <2>. QED
    BY <2>1, <2>2, DeletingKept
<1>4. ASSUME NEW r \in Requests, DeleteRow(r) PROVE Egressed'
  <2> DEFINE p == request[r].proxy
  <2>1. p \in Proxies
    BY <1>0, <1>4 DEF DeleteRow, At, Filled, FilledCall
  <2>2. UNCHANGED <<wanted, overtaken>>
        /\ \A a \in Accounts : IF account[a].proxy = p
                               THEN a \in overtaken /\ account'[a].proxy = Nobody
                               ELSE account'[a] = account[a]
    <3>1. \A a \in Accounts : account[a].proxy = p => a \in overtaken
      BY <1>4 DEF DeleteRow, Egressed, Deleting
    <3>. QED
      BY <1>0, <1>4, <3>1 DEF DeleteRow, AccountRow, egress
  <2>3. \A q \in Requests : request'[q].pc = "delete" =>
            request'[q] = request[q] /\ request[q].proxy \in Proxies
    BY <1>0, <1>4 DEF DeleteRow, Answer, Blank, Filled, FilledCall
  <2>4. Nobody \notin Proxies
    BY NobodyAssumption
  <2>. QED
    BY <2>2, <2>3, <2>4 DEF Egressed, EgressStands, Deleting, At
<1>5. ASSUME NEW r \in Requests, AssignWrite(r) PROVE Egressed'
  <2> DEFINE a == request[r].account
             p == request[r].proxy
  <2>1. a \in Accounts /\ Nobody \notin Proxies
    BY <1>0, <1>5, NobodyAssumption DEF AssignWrite, At, Filled, FilledCall
  <2>2. /\ account'[a].proxy = p /\ wanted'[a] = p
        /\ \A b \in Accounts \ {a} : account'[b] = account[b] /\ wanted'[b] = wanted[b]
    BY <1>0, <1>5, <2>1 DEF AssignWrite, AccountRow
  <2>3. \A b \in Accounts \ {a} : b \in overtaken => b \in overtaken'
    BY <1>5 DEF AssignWrite
  <2>4. \A q \in Requests : request'[q].pc = "delete" =>
            /\ request'[q] = request[q] /\ request[q].proxy \in Proxies
            /\ request[q].proxy = p => a \in overtaken'
    <3>1. \A q \in Requests : request'[q].pc = "delete" =>
              request'[q] = request[q] /\ request[q].proxy \in Proxies
      BY <1>0, <1>5 DEF AssignWrite, Answer, Blank, Filled, FilledCall
    <3>2. ASSUME NEW q \in Requests, At(q, "delete"), request[q].proxy = p, p \in Proxies
          PROVE  a \in overtaken'
      BY <1>5, <2>1, <3>2 DEF AssignWrite
    <3>. QED
      BY <3>1, <3>2 DEF At
  <2>. QED
    BY <2>1, <2>2, <2>3, <2>4 DEF Egressed, EgressStands, Deleting, At
<1>6. CASE Restart /\ UNCHANGED <<account, egress>>
  <2>1. \A q \in Requests : request'[q].pc = "delete" => request'[q] = request[q]
    BY <1>0, <1>6 DEF Restart, InFlight, Blank
  <2>. QED
    BY <1>6, <2>1, DeletingKept
<1>7. CASE UNCHANGED <<request, egress>> /\ \A a \in Accounts : account'[a].proxy = account[a].proxy
  BY <1>7, DeletingKept
<1>8. ASSUME NEW a \in Accounts, Reseal(a)
      PROVE  UNCHANGED <<request, egress>>
             /\ \A b \in Accounts : account'[b].proxy = account[b].proxy
  BY <1>0, <1>8 DEF Reseal, AccountRow
<1>. QED
  BY <1>2, <1>3, <1>4, <1>5, <1>6, <1>7, <1>8, LifeAs DEF Next, vars, Rotates, AppRestarts,
     InstallKey, RetireKey, RotateList, ScriptEnds

\* A proxy is deleted from under no account but one that was pointed at it after the
\* deletion had looked (lib/proxy/service.ts:154-206), whatever the other calls do.
THEOREM EgressHolds == Spec => []EgressStands
<1>1. Init => Egressed
  BY DEF Init, Egressed, EgressStands, Deleting, At, Blank
<1>2. Egressed => EgressStands
  BY DEF Egressed
<1>. QED
  BY <1>1, <1>2, EgressedNext, TypedInit, TypedNext, PTL DEF Spec

-----------------------------------------------------------------------------
(* Videos and their jobs *)

\* A row has its object, and so has an upload about to make one; one that gives its
\* verdict has a row.
Kept ==
    /\ \A v \in Videos : video[v].status # "none" => video[v].object \in stored
    /\ \A r \in Requests :
          /\ At(r, "record") => r \in stored
          /\ At(r, "verdict") => video[request[r].video].status # "none"

\* Unless uploads of it raced, a row has one upload, and only while it is VALIDATING.
Alone ==
    \A v \in Videos \ raced, r \in Requests : video[v].status # "none" /\ r \in Uploading(v) =>
        video[v].status = "VALIDATING" /\ Uploading(v) = {r}

ReadyOrRaced(v) == video[v].status = "READY" \/ (v \in raced /\ video[v].status # "none")

\* What has passed the check, and the jobs made of it, has its video.
Usable ==
    /\ \A r \in Requests : At(r, "create") /\ request[r].video # Nobody
            => ReadyOrRaced(request[r].video)
    /\ \A k \in Keys : job[k].video # Nobody => ReadyOrRaced(job[k].video)

Ingested == Kept /\ Alone /\ Usable

\* A step that makes no row and gives no verdict.
LEMMA IngestedKept ==
    ASSUME Typed, Ingested, stored \subseteq stored', UNCHANGED <<video, raced>>,
           \A r \in Requests : request'[r].pc = "record" => r \in stored',
           \A r \in Requests : request'[r].pc = "verdict"
               => request'[r] = request[r] \/ video[request'[r].video].status # "none",
           \A r \in Requests, v \in Videos :
               r \in Uploading(v)' => r \in Uploading(v) \/ video[v].status = "none",
           \A r \in Requests : request'[r].pc = "create" /\ request'[r].video # Nobody
               => request'[r] = request[r] \/ ReadyOrRaced(request'[r].video),
           \A k \in Keys : job'[k].video # Nobody
               => job'[k].video = job[k].video \/ ReadyOrRaced(job'[k].video)
    PROVE  Ingested'
<1>1. Kept'
  BY DEF Ingested, Kept, At
<1>2. Alone'
  <2> SUFFICES ASSUME NEW v \in Videos \ raced, NEW r \in Requests, video[v].status # "none",
                      r \in Uploading(v)'
               PROVE  video[v].status = "VALIDATING" /\ Uploading(v)' = {r}
    BY DEF Alone
  <2>1. Uploading(v)' \subseteq Uploading(v)
    BY DEF Uploading
  <2>2. video[v].status = "VALIDATING" /\ Uploading(v) = {r}
    BY <2>1 DEF Ingested, Alone
  <2>. QED
    BY <2>1, <2>2
<1>3. \A v : ReadyOrRaced(v)' <=> ReadyOrRaced(v)
  BY DEF ReadyOrRaced
<1>4. Usable'
  BY <1>3 DEF Ingested, Usable, At
<1>. QED
  BY <1>1, <1>2, <1>4 DEF Ingested

\* What a call that is not an upload is about to do: its row and its place.
LEMMA CallsKept ==
    ASSUME Typed, Ingested, UNCHANGED <<stored, video, raced>>,
           \A k \in Keys : job'[k].video = job[k].video,
           \A r \in Requests : \/ request'[r] = request[r]
                               \/ request'[r].pc \notin {"put", "record", "verdict", "create"}
    PROVE  Ingested'
<1>1. \A r \in Requests, v \in Videos : r \in Uploading(v)' => r \in Uploading(v)
  BY DEF Uploading
<1>2. \A r \in Requests : request'[r].pc = "record" => r \in stored'
  BY DEF Ingested, Kept, At
<1>. QED
  BY <1>1, <1>2, IngestedKept

LEMMA IngestedNext == Typed /\ Ingested /\ [Next]_vars => Ingested'
<1> SUFFICES ASSUME Typed, Ingested, [Next]_vars PROVE Ingested'
  OBVIOUS
<1>0. /\ request \in [Requests -> Call] /\ video \in [Videos -> VideoRow]
      /\ job \in [Keys -> JobRow] /\ Filled
  BY DEF Typed, TypeOK
<1>1. ASSUME NEW r \in Requests, Starts(r) PROVE Ingested'
  <2>1. CASE \E v \in Videos : IngestLookup(r, v)
    <3>1. PICK v \in Videos : IngestLookup(r, v)
      BY <2>1
    <3>2. /\ request'[r].pc = "put" /\ request'[r].video = v /\ video[v].status = "none"
          /\ \A q \in Requests \ {r} : request'[q] = request[q]
      BY <1>0, <3>1 DEF IngestLookup, Begin, Blank
    <3>3. \A q \in Requests, w \in Videos :
              q \in Uploading(w)' => q \in Uploading(w) \/ video[w].status = "none"
      BY <3>2 DEF Uploading
    <3>4. \A q \in Requests : request'[q].pc = "record" => q \in stored
      BY <3>2 DEF Ingested, Kept, At
    <3>. QED
      BY <3>1, <3>2, <3>3, <3>4, IngestedKept DEF IngestLookup, media, jobs
  <2>2. CASE ~\E v \in Videos : IngestLookup(r, v)
    <3>1. \A q \in Requests : \/ request'[q] = request[q]
                              \/ request'[q].pc \notin {"put", "record", "verdict", "create"}
      BY <1>0, <1>1, <2>2, StartedAs
    <3>2. UNCHANGED <<stored, video, raced, job>>
      BY <1>1, <2>2 DEF Starts, JobLookup, UpdateLookup, DeleteCheck, CreateProxy,
         CreateAccount, FlowsRead, AssignCheck, media, jobs
    <3>. QED
      BY <3>1, <3>2, CallsKept
  <2>. QED
    BY <2>1, <2>2
<1>2. ASSUME NEW r \in Requests, StoragePut(r) PROVE Ingested'
  <2>1. /\ stored' = stored \cup {r} /\ UNCHANGED <<video, raced, job>>
        /\ request'[r].pc = "record" /\ request'[r].video = request[r].video
        /\ \A q \in Requests \ {r} : request'[q] = request[q]
    BY <1>0, <1>2 DEF StoragePut, Goto, Call, jobs
  <2>2. \A q \in Requests, v \in Videos : q \in Uploading(v)' => q \in Uploading(v)
    BY <1>2, <2>1 DEF Uploading, StoragePut, At
  <2>3. \A q \in Requests : request'[q].pc = "record" => q \in stored'
    BY <2>1 DEF Ingested, Kept, At
  <2>. QED
    BY <2>1, <2>2, <2>3, IngestedKept
<1>3. ASSUME NEW r \in Requests, CreateVideoRecord(r) PROVE Ingested'
  <2> DEFINE v == request[r].video
  <2>1. /\ v \in Videos /\ r \in stored /\ r \in Uploading(v)
    BY <1>3 DEF CreateVideoRecord, At, Typed, Filled, FilledCall, Ingested, Kept, Uploading
  <2>2. /\ UNCHANGED <<stored, job>>
        /\ request'[r].pc = "verdict" /\ request'[r].video = v
        /\ \A q \in Requests \ {r} : request'[q] = request[q]
    BY <1>0, <1>3 DEF CreateVideoRecord, Goto, Call, jobs
  <2>3. \A w \in Videos : Uploading(w)' = Uploading(w)
    BY <1>3, <2>2 DEF Uploading, CreateVideoRecord, At
  <2>4. CASE video[v].status # "none"
    <3>1. \A q \in Requests : request'[q].pc = "record" => q \in stored
      BY <2>2 DEF Ingested, Kept, At
    <3>2. UNCHANGED <<video, raced>>
      BY <1>3, <2>4 DEF CreateVideoRecord
    <3>3. \A q \in Requests : request'[q].pc = "verdict"
              => request'[q] = request[q] \/ video[request'[q].video].status # "none"
      BY <2>2, <2>4
    <3>4. \A q \in Requests : request'[q].pc = "create" => request'[q] = request[q]
      BY <2>2
    <3>. QED
      BY <2>2, <2>3, <3>1, <3>2, <3>3, <3>4, IngestedKept
  <2>5. CASE video[v].status = "none"
    <3>1. /\ video'[v].status = "VALIDATING" /\ video'[v].object = r
          /\ \A w \in Videos \ {v} : video'[w] = video[w]
          /\ raced' = IF Uploading(v) = {r} THEN raced ELSE raced \cup {v}
      BY <1>0, <1>3, <2>1, <2>5 DEF CreateVideoRecord
    <3>2. Kept'
      <4>1. \A w \in Videos : video'[w].status # "none" => video'[w].object \in stored
        BY <2>1, <3>1 DEF Ingested, Kept
      <4>2. ASSUME NEW q \in Requests, request'[q].pc = "verdict"
            PROVE  video'[request'[q].video].status # "none"
        <5>1. q # r => request[q].video \in Videos /\ video[request[q].video].status # "none"
          BY <2>2, <4>2 DEF Ingested, Kept, At, Typed, Filled, FilledCall
        <5>. QED
          BY <2>2, <3>1, <5>1
      <4>3. \A q \in Requests : request'[q].pc = "record" => q \in stored
        BY <2>2 DEF Ingested, Kept, At
      <4>. QED
        BY <2>2, <4>1, <4>2, <4>3 DEF Kept, At
    <3>3. Alone'
      BY <2>3, <3>1 DEF Ingested, Alone
    <3>4. \A w \in Videos : ReadyOrRaced(w) => ReadyOrRaced(w)'
      BY <2>5, <3>1 DEF ReadyOrRaced
    <3>5. Usable'
      <4>1. \A k \in Keys : job[k].video \in Videos \cup {Nobody}
        BY <1>0 DEF JobRow
      <4>2. \A q \in Requests : request[q].video \in Videos \cup {Nobody}
        BY <1>0 DEF Call
      <4>. QED
        BY <2>2, <3>4, <4>1, <4>2 DEF Ingested, Usable, At
    <3>. QED
      BY <3>2, <3>3, <3>5 DEF Ingested
  <2>. QED
    BY <2>4, <2>5
<1>4. ASSUME NEW r \in Requests, Verdict(r) \/ IngestFails(r) PROVE Ingested'
  <2> DEFINE v == request[r].video
  <2>1. v \in Videos /\ r \in Uploading(v)
    BY <1>4 DEF Verdict, IngestFails, At, Typed, Filled, FilledCall, Uploading
  <2>2. /\ UNCHANGED <<stored, raced, job>> /\ request'[r].pc = "answered"
        /\ \A q \in Requests \ {r} : request'[q] = request[q]
    BY <1>0, <1>4 DEF Verdict, IngestFails, Answer, Blank, jobs
  <2>3. /\ video'[v].status \in {"READY", "INVALID"} /\ video'[v].object = video[v].object
        /\ \A w \in Videos \ {v} : video'[w] = video[w]
    BY <1>0, <1>4, <2>1 DEF Verdict, IngestFails, VideoRow
  <2>4. video[v].status # "none"
    BY <1>4 DEF Verdict, IngestFails, At, Ingested, Kept
  <2>5. Kept'
    <3>1. \A w \in Videos : video'[w].status # "none" => video'[w].object \in stored
      BY <2>1, <2>3, <2>4 DEF Ingested, Kept
    <3>2. ASSUME NEW q \in Requests, request'[q].pc = "verdict"
          PROVE  video'[request'[q].video].status # "none"
      <4>1. request[q].video \in Videos /\ video[request[q].video].status # "none"
            /\ request'[q] = request[q]
        BY <2>2, <3>2 DEF Ingested, Kept, At, Typed, Filled, FilledCall
      <4>. QED
        BY <2>3, <4>1
    <3>3. \A q \in Requests : request'[q].pc = "record" => q \in stored
      BY <2>2 DEF Ingested, Kept, At
    <3>. QED
      BY <2>2, <3>1, <3>2, <3>3 DEF Kept, At
  <2>6. Alone'
    <3>1. \A w \in Videos : Uploading(w)' = Uploading(w) \ {r}
      BY <2>2 DEF Uploading
    <3>2. ASSUME NEW w \in Videos \ raced, NEW q \in Requests, w # v,
                 video'[w].status # "none", q \in Uploading(w)'
          PROVE  video'[w].status = "VALIDATING" /\ Uploading(w)' = {q}
      <4>1. r \notin Uploading(w)
        BY <3>2 DEF Uploading
      <4>. QED
        BY <2>3, <3>1, <3>2, <4>1 DEF Ingested, Alone
    <3>3. SUFFICES ASSUME NEW w \in Videos \ raced, NEW q \in Requests,
                          video'[w].status # "none", q \in Uploading(w)'
                   PROVE  video'[w].status = "VALIDATING" /\ Uploading(w)' = {q}
      BY <2>2 DEF Alone
    <3>4. w # v
      <4>1. ASSUME w = v PROVE FALSE
        <5>1. Uploading(w)' = Uploading(w) \ {r}
          BY <3>1
        <5>2. v \notin raced
          BY <4>1, <3>3
        <5>3. Uploading(w) = {r}
          BY <2>1, <2>4, <4>1, <5>2 DEF Ingested, Alone
        <5>. QED
          BY <3>3, <5>1, <5>3
      <4>. QED
        BY <4>1
    <3>. QED
      BY <3>2, <3>3, <3>4
  <2>7. \A w \in Videos : ReadyOrRaced(w) => ReadyOrRaced(w)'
    BY <2>1, <2>2, <2>3, <2>4 DEF ReadyOrRaced, Ingested, Alone
  <2>8. Usable'
    <3>1. \A k \in Keys : job[k].video \in Videos \cup {Nobody}
      BY <1>0 DEF JobRow
    <3>2. \A q \in Requests : request[q].video \in Videos \cup {Nobody}
      BY <1>0 DEF Call
    <3>. QED
      BY <2>2, <2>7, <3>1, <3>2 DEF Ingested, Usable, At
  <2>. QED
    BY <2>5, <2>6, <2>8 DEF Ingested
<1>5. ASSUME NEW r \in Requests, JobCheck(r) PROVE Ingested'
  <2>1. CASE Answer(r)
    BY <1>0, <1>5, <2>1, CallsKept DEF JobCheck, Answer, Blank, media, jobs
  <2>2. CASE ~Answer(r)
    <3>1. /\ request'[r].pc = "create" /\ request'[r].video = request[r].video
          /\ request[r].video = Nobody \/ video[request[r].video].status = "READY"
          /\ \A q \in Requests \ {r} : request'[q] = request[q]
      BY <1>0, <1>5, <2>2 DEF JobCheck, Call
    <3>2. \A q \in Requests, v \in Videos : q \in Uploading(v)' => q \in Uploading(v)
      BY <3>1 DEF Uploading
    <3>3. \A q \in Requests : request'[q].pc = "record" => q \in stored
      BY <3>1 DEF Ingested, Kept, At
    <3>. QED
      BY <1>5, <3>1, <3>2, <3>3, IngestedKept DEF JobCheck, ReadyOrRaced, media, jobs
  <2>. QED
    BY <2>1, <2>2
<1>6. ASSUME NEW r \in Requests, JobCreate(r) PROVE Ingested'
  <2>1. \A q \in Requests : \/ request'[q] = request[q]
                            \/ request'[q].pc \notin {"put", "record", "verdict", "create"}
    BY <1>0, <1>6, CreatedAs
  <2>2. \A k \in Keys : job'[k].video # Nobody
            => job'[k].video = job[k].video \/ ReadyOrRaced(job'[k].video)
    <3>1. request[r].video # Nobody => ReadyOrRaced(request[r].video)
      BY <1>6 DEF JobCreate, At, Ingested, Usable
    <3>2. \A k \in Keys : job'[k].video \in {job[k].video, request[r].video}
      BY <1>0, <1>6 DEF JobCreate
    <3>. QED
      BY <3>1, <3>2
  <2>3. \A q \in Requests, v \in Videos : q \in Uploading(v)' => q \in Uploading(v)
    BY <2>1 DEF Uploading
  <2>4. \A q \in Requests : request'[q].pc = "record" => q \in stored
    BY <2>1 DEF Ingested, Kept, At
  <2>. QED
    BY <1>6, <2>1, <2>2, <2>3, <2>4, IngestedKept DEF JobCreate, media
<1>7. ASSUME NEW r \in Requests,
             Enqueue(r) \/ UpdateWrite(r) \/ DeleteRow(r) \/ AssignWrite(r) \/ FlowsWrite(r)
                 \/ Fails(r)
      PROVE  Ingested'
  <2>1. Answer(r) /\ UNCHANGED <<stored, video, raced>>
    BY <1>7 DEF Enqueue, UpdateWrite, DeleteRow, AssignWrite, FlowsWrite, Fails, media
  <2>2. \A k \in Keys : job'[k].video = job[k].video
    BY <1>0, <1>7 DEF Enqueue, UpdateWrite, DeleteRow, AssignWrite, FlowsWrite, Fails, jobs,
       JobRow
  <2>3. \A q \in Requests : request'[q] = request[q] \/ request'[q].pc = "answered"
    BY <1>0, <2>1 DEF Answer, Blank
  <2>. QED
    BY <2>1, <2>2, <2>3, CallsKept
<1>8. CASE (\E k \in Keys : Lives(k)) \/ BootLists
  <2>1. UNCHANGED <<request, stored, video, raced>>
    BY <1>8, LifeAs DEF media
  <2>2. \A l \in Keys : job'[l].video = job[l].video
    <3>1. CASE UNCHANGED job
      BY <3>1
    <3>2. ASSUME NEW k \in Keys, NEW s \in JobStatus \ {"none"}, Becomes(k, s) PROVE <2>2!:
      BY <3>2, BecomesAs DEF Typed
    <3>. QED
      BY <1>8, <3>1, <3>2, LifeAs
  <2>. QED
    BY <2>1, <2>2, CallsKept
<1>9. CASE Restart /\ UNCHANGED <<media, jobs>>
  <2>1. \A q \in Requests : request'[q] = request[q] \/ request'[q].pc = "answered"
    BY <1>0, <1>9 DEF Restart, Blank
  <2>. QED
    BY <1>9, <2>1, CallsKept DEF media, jobs
<1>10. CASE UNCHANGED <<request, media, jobs>>
  BY <1>10, CallsKept DEF media, jobs
<1>11. ASSUME NEW r \in Requests, Proceeds(r) PROVE Ingested'
  BY <1>2, <1>3, <1>4, <1>5, <1>6, <1>7, <1>11 DEF Proceeds
<1>12. CASE AppRestarts \/ Rotates \/ UNCHANGED vars
  BY <1>9, <1>10, <1>12 DEF vars, Rotates, AppRestarts, InstallKey, RetireKey, RotateList,
     Reseal, ScriptEnds
<1>. QED
  BY <1>1, <1>8, <1>11, <1>12 DEF Next

\* A job's video has its bytes and stays READY, but for one of which uploads raced, for
\* any uploads of any contents at once (lib/media/ingest.ts, lib/jobs/service.ts:154-171).
THEOREM MediaHolds == Spec => []JobsHaveMedia
<1>1. Init => Ingested
  <2> SUFFICES ASSUME Init PROVE Ingested
    OBVIOUS
  <2>1. /\ \A v \in Videos : video[v].status = "none"
        /\ \A k \in Keys : job[k].video = Nobody
        /\ \A r \in Requests : request[r].pc = "new"
    BY DEF Init, NoVideo, NoJob, Blank
  <2>. QED
    BY <2>1 DEF Ingested, Kept, Alone, Usable, At
<1>2. Typed /\ Ingested => JobsHaveMedia
  <2> SUFFICES ASSUME Typed, Ingested, NEW k \in Keys, job[k].video # Nobody
               PROVE  LET row == video[job[k].video] IN
                      /\ row.object \in stored
                      /\ row.status = "READY" \/ job[k].video \in raced
    BY DEF JobsHaveMedia
  <2>1. job[k].video \in Videos
    BY DEF Typed, TypeOK, JobRow
  <2>. QED
    BY <2>1 DEF Ingested, Kept, Usable, ReadyOrRaced
<1>. QED
  BY <1>1, <1>2, IngestedNext, TypedInit, TypedNext, PTL DEF Spec

-----------------------------------------------------------------------------
(* One job in flight *)

\* What a check knew goes on being a like row.
Alike ==
    /\ \A k \in Keys : job[k].account # Nobody => job[k].status # "none"
    /\ \A k \in Keys : \A l \in job[k].knew :
          job[l].status # "none" /\ SameRun(l, job[k].account, job[k].video)
    /\ \A r \in Requests : At(r, "create") => \A l \in request[r].knew :
          job[l].status # "none" /\ SameRun(l, request[r].account, request[r].video)

\* Of two rows in flight one of which knew the other, or of a row and a call that has
\* passed its check, one came back while the other was there.
Excused ==
    /\ \A k \in Keys : \A l \in job[k].knew \ {k} :
          job[k].video # Nobody /\ ~job[k].dup /\ ActiveRun(k) /\ ActiveRun(l)
            => k \in job[l].met \/ l \in job[k].met
    /\ \A r \in Requests : At(r, "create") => \A l \in request[r].knew \ {request[r].key} :
          request[r].video # Nobody /\ ~request[r].dup /\ ActiveRun(l)
            => request[r].key \in job[l].met

Knowing == Alike /\ Excused

\* A step that creates no job, moves none and passes no check.
LEMMA KnowingKept ==
    ASSUME Typed, Knowing,
           \A k \in Keys : /\ job'[k].account = job[k].account /\ job'[k].video = job[k].video
                           /\ job'[k].dup = job[k].dup /\ job'[k].knew = job[k].knew
                           /\ job'[k].status = job[k].status /\ job'[k].met = job[k].met,
           \A r \in Requests : request'[r].pc = "create" => request'[r] = request[r]
    PROVE  Knowing'
<1>1. /\ \A k \in Keys : job[k].knew \subseteq Keys
      /\ \A r \in Requests : request[r].knew \subseteq Keys
  BY DEF Typed, TypeOK, JobRow, Call
<1>2. Alike'
  BY <1>1 DEF Knowing, Alike, SameRun, At
<1>3. Excused'
  BY <1>1 DEF Knowing, Excused, ActiveRun, At
<1>. QED
  BY <1>2, <1>3 DEF Knowing

\* A row that comes back has met all that stands in its way; one that ends clears it.
LEMMA KnowingBecomes ==
    ASSUME Typed, Knowing, NEW k \in Keys, NEW s \in JobStatus \ {"none"}, Becomes(k, s),
           UNCHANGED request
    PROVE  Knowing'
<1>0. /\ \A l \in Keys : job[l].knew \subseteq Keys
      /\ \A r \in Requests : request[r].knew \subseteq Keys
      /\ \A r \in Requests : At(r, "create") => request[r].key \in Keys
  BY DEF Typed, TypeOK, JobRow, Call, Filled, FilledCall, At
<1>1. /\ \A l \in Keys \ {k} : job'[l] = job[l]
      /\ job'[k].status = s
      /\ job'[k].account = job[k].account /\ job'[k].video = job[k].video
      /\ job'[k].dup = job[k].dup /\ job'[k].knew = job[k].knew
      /\ s \in ACTIVE_STATUSES =>
           job'[k].met = IF ActiveRun(k) THEN job[k].met ELSE InTheWay(k)
  BY BecomesAs DEF Typed
<1>2. /\ \A l \in Keys : /\ job'[l].account = job[l].account /\ job'[l].video = job[l].video
                         /\ job'[l].dup = job[l].dup /\ job'[l].knew = job[l].knew
      /\ \A l \in Keys : job[l].status # "none" => job'[l].status # "none"
      /\ \A l \in Keys \ {k} : ActiveRun(l)' <=> ActiveRun(l)
      /\ ActiveRun(k)' <=> s \in ACTIVE_STATUSES
  BY <1>1 DEF ActiveRun
<1>3. Alike'
  <2>1. \A m \in Keys : job'[m].account # Nobody => job'[m].status # "none"
    BY <1>2 DEF Knowing, Alike
  <2>2. \A m \in Keys : \A l \in job'[m].knew :
            job'[l].status # "none" /\ job'[l].account = job'[m].account
                                    /\ job'[l].video = job'[m].video
    BY <1>0, <1>2 DEF Knowing, Alike, SameRun
  <2>3. \A r \in Requests : At(r, "create") => \A l \in request[r].knew :
            job'[l].status # "none" /\ job'[l].account = request[r].account
                                    /\ job'[l].video = request[r].video
    BY <1>0, <1>2 DEF Knowing, Alike, SameRun
  <2>. QED
    BY <2>1, <2>2, <2>3 DEF Alike, SameRun, At
<1>4. ASSUME NEW m \in Keys, NEW l \in job[m].knew \ {m}, job[m].video # Nobody, ~job[m].dup,
             ActiveRun(m)', ActiveRun(l)'
      PROVE  m \in job'[l].met \/ l \in job'[m].met
  <2>0. l \in Keys /\ SameRun(l, job[m].account, job[m].video)
    BY <1>0, <1>4 DEF Knowing, Alike
  <2>1. CASE m # k /\ l # k
    BY <1>1, <1>2, <1>4, <2>0, <2>1 DEF Knowing, Excused
  <2>2. CASE ActiveRun(k)
    <3>1. ActiveRun(m) /\ ActiveRun(l)
      BY <1>2, <1>4, <2>0, <2>2
    <3>2. m \in job[l].met \/ l \in job[m].met
      BY <1>4, <3>1 DEF Knowing, Excused
    <3>3. job'[m].met = job[m].met /\ job'[l].met = job[l].met
      BY <1>1, <1>2, <1>4, <2>0, <2>2
    <3>. QED
      BY <3>2, <3>3
  <2>3. CASE m = k /\ ~ActiveRun(k)
    BY <1>1, <1>2, <1>4, <2>0, <2>3 DEF InTheWay
  <2>4. CASE l = k /\ ~ActiveRun(k)
    <3>1. m \in Keys \ {k} /\ ActiveRun(m) /\ SameRun(m, job[k].account, job[k].video)
      BY <1>2, <1>4, <2>0, <2>4 DEF SameRun
    <3>. QED
      BY <1>1, <1>2, <1>4, <2>4, <3>1 DEF InTheWay
  <2>. QED
    BY <2>1, <2>2, <2>3, <2>4
<1>5. ASSUME NEW r \in Requests, At(r, "create"), NEW l \in request[r].knew \ {request[r].key},
             request[r].video # Nobody, ~request[r].dup, ActiveRun(l)'
      PROVE  request[r].key \in job'[l].met
  <2>0. /\ l \in Keys /\ request[r].key \in Keys
        /\ SameRun(l, request[r].account, request[r].video)
    BY <1>0, <1>5 DEF Knowing, Alike
  <2>1. CASE ActiveRun(l)
    <3>1. request[r].key \in job[l].met
      BY <1>5, <2>1 DEF Knowing, Excused
    <3>2. job'[l].met = job[l].met
      BY <1>1, <1>2, <1>5, <2>0, <2>1
    <3>. QED
      BY <3>1, <3>2
  <2>2. CASE ~ActiveRun(l)
    <3>1. l = k /\ s \in ACTIVE_STATUSES
      BY <1>2, <1>5, <2>0, <2>2
    <3>2. request[r].key \in InTheWay(k)
      BY <1>5, <2>0, <3>1 DEF InTheWay
    <3>. QED
      BY <1>1, <2>2, <3>1, <3>2
  <2>. QED
    BY <2>1, <2>2
<1>6. Excused'
  <2>1. \A m \in Keys : job'[m].knew = job[m].knew /\ job'[m].video = job[m].video
                          /\ job'[m].dup = job[m].dup
    BY <1>2
  <2>. QED
    BY <1>4, <1>5, <2>1 DEF Excused, At
<1>. QED
  BY <1>3, <1>6 DEF Knowing

LEMMA KnowingCheck ==
    ASSUME Typed, Knowing, NEW r \in Requests, JobCheck(r), ~Answer(r)
    PROVE  Knowing'
<1> DEFINE call == request[r]
           like == {k \in Keys : SameRun(k, call.account, call.video)}
<1>0. /\ request \in [Requests -> Call] /\ Filled
      /\ \A k \in Keys : job[k].knew \subseteq Keys
      /\ \A q \in Requests : request[q].knew \subseteq Keys
  BY DEF Typed, TypeOK, JobRow, Call
<1>1. /\ UNCHANGED job
      /\ request'[r].video = call.video /\ request'[r].dup = call.dup
      /\ request'[r].account = call.account
      /\ request'[r].key = call.key /\ request'[r].knew = like
      /\ \A q \in Requests \ {r} : request'[q] = request[q]
  BY <1>0 DEF JobCheck, Call, jobs
<1>2. \A l \in like \ {call.key} : call.video # Nobody /\ ~call.dup => ~ActiveRun(l)
  BY DEF JobCheck
<1>3. \A l \in like : job[l].status # "none"
  BY <1>0, NobodyAssumption DEF JobCheck, At, SameRun, Filled, FilledCall, Knowing, Alike
<1>4. \A l \in Keys : ActiveRun(l)' <=> ActiveRun(l)
  BY <1>1 DEF ActiveRun
<1>5. Alike'
  <2>1. \A q \in Requests \ {r} : request'[q].pc = "create" => \A l \in request[q].knew :
            job[l].status # "none" /\ SameRun(l, request[q].account, request[q].video)
    BY <1>1 DEF Knowing, Alike, At
  <2>2. \A l \in like : SameRun(l, call.account, call.video)
    OBVIOUS
  <2>. QED
    BY <1>1, <1>3, <2>1, <2>2 DEF Knowing, Alike, At, SameRun
<1>6. Excused'
  <2>1. \A k \in Keys : \A l \in job[k].knew \ {k} :
            job[k].video # Nobody /\ ~job[k].dup /\ ActiveRun(k)' /\ ActiveRun(l)'
              => k \in job[l].met \/ l \in job[k].met
    BY <1>0, <1>4 DEF Knowing, Excused
  <2>2. \A q \in Requests \ {r} : request'[q].pc = "create" =>
            \A l \in request[q].knew \ {request[q].key} :
               request[q].video # Nobody /\ ~request[q].dup /\ ActiveRun(l)'
                 => request[q].key \in job[l].met
    BY <1>0, <1>1, <1>4 DEF Knowing, Excused, At
  <2>3. \A l \in like \ {call.key} : call.video # Nobody /\ ~call.dup => ~ActiveRun(l)'
    BY <1>2, <1>4
  <2> HIDE DEF like
  <2>. QED
    BY <1>1, <2>1, <2>2, <2>3 DEF Excused, At
<1>. QED
  BY <1>5, <1>6 DEF Knowing

LEMMA KnowingCreate ==
    ASSUME Typed, Knowing, NEW r \in Requests, JobCreate(r), job' # job
    PROVE  Knowing'
<1> DEFINE call == request[r]
<1>0. /\ request \in [Requests -> Call] /\ job \in [Keys -> JobRow] /\ Filled
      /\ \A k \in Keys : job[k].knew \subseteq Keys
      /\ \A q \in Requests : request[q].knew \subseteq Keys
  BY DEF Typed, TypeOK, JobRow, Call
<1>1. PICK key \in Keys : key = call.key
  BY <1>0 DEF JobCreate, At, Filled, FilledCall
<1>2. /\ job[key].status = "none" /\ job'[key].status = "QUEUED"
      /\ job'[key].account = call.account /\ job'[key].video = call.video
      /\ job'[key].dup = call.dup /\ job'[key].knew = call.knew /\ job'[key].met = {}
      /\ \A k \in Keys \ {key} : job'[k] = job[k]
  BY <1>0, <1>1 DEF JobCreate
<1>3. \A q \in Requests : request'[q].pc = "create" => request'[q] = request[q]
  BY <1>0 DEF JobCreate, Begin, Blank
<1>4. /\ At(r, "create") /\ call.knew \subseteq Keys
      /\ \A l \in call.knew : job[l].status # "none" /\ SameRun(l, call.account, call.video)
  BY <1>0 DEF JobCreate, Knowing, Alike
<1>5. \A l \in call.knew : l \in Keys \ {key}
  BY <1>2, <1>4
<1>6. /\ \A k \in Keys : \A l \in job[k].knew : l \in Keys \ {key}
      /\ \A q \in Requests : At(q, "create") => \A l \in request[q].knew : l \in Keys \ {key}
  BY <1>0, <1>2 DEF Knowing, Alike
<1>7. Alike'
  <2>1. \A k \in Keys : job'[k].account # Nobody => job'[k].status # "none"
    BY <1>2 DEF Knowing, Alike
  <2>2. \A k \in Keys \ {key} : \A l \in job'[k].knew :
            /\ job'[l].status # "none"
            /\ job'[l].account = job'[k].account /\ job'[l].video = job'[k].video
    BY <1>2, <1>6 DEF Knowing, Alike, SameRun
  <2>3. \A l \in job'[key].knew :
            /\ job'[l].status # "none"
            /\ job'[l].account = job'[key].account /\ job'[l].video = job'[key].video
    BY <1>2, <1>4, <1>5 DEF SameRun
  <2>4. \A q \in Requests : request'[q].pc = "create" => \A l \in request'[q].knew :
            /\ job'[l].status # "none"
            /\ job'[l].account = request'[q].account /\ job'[l].video = request'[q].video
    BY <1>2, <1>3, <1>6 DEF Knowing, Alike, SameRun, At
  <2>. QED
    BY <2>1, <2>2, <2>3, <2>4 DEF Alike, SameRun, At
<1>8. Excused'
  <2>1. \A l \in Keys \ {key} : ActiveRun(l)' <=> ActiveRun(l)
    BY <1>2 DEF ActiveRun
  <2>2. \A k \in Keys \ {key} : \A l \in job'[k].knew \ {k} :
            job'[k].video # Nobody /\ ~job'[k].dup /\ ActiveRun(k)' /\ ActiveRun(l)'
              => k \in job'[l].met \/ l \in job'[k].met
    BY <1>2, <1>6, <2>1 DEF Knowing, Excused
  <2>3. \A l \in job'[key].knew \ {key} :
            job'[key].video # Nobody /\ ~job'[key].dup /\ ActiveRun(l)' => key \in job'[l].met
    BY <1>1, <1>2, <1>4, <1>5, <2>1 DEF Knowing, Excused
  <2>4. \A q \in Requests : request'[q].pc = "create" =>
            \A l \in request'[q].knew \ {request'[q].key} :
               request'[q].video # Nobody /\ ~request'[q].dup /\ ActiveRun(l)'
                 => request'[q].key \in job'[l].met
    BY <1>2, <1>3, <1>6, <2>1 DEF Knowing, Excused, At
  <2>. QED
    BY <2>2, <2>3, <2>4 DEF Excused, At
<1>. QED
  BY <1>7, <1>8 DEF Knowing

LEMMA KnowingNext == Typed /\ Knowing /\ [Next]_vars => Knowing'
<1> SUFFICES ASSUME Typed, Knowing, [Next]_vars PROVE Knowing'
  OBVIOUS
<1>0. /\ request \in [Requests -> Call] /\ job \in [Keys -> JobRow] /\ TypeOK
  BY DEF Typed, TypeOK
<1>1. ASSUME UNCHANGED job,
             \A r \in Requests : request'[r] = request[r] \/ request'[r].pc # "create"
      PROVE  Knowing'
  BY <1>1, KnowingKept
<1>2. ASSUME NEW r \in Requests, Starts(r) PROVE Knowing'
  <2>1. UNCHANGED job
    BY <1>2 DEF Starts, IngestLookup, JobLookup, UpdateLookup, DeleteCheck, CreateProxy,
       CreateAccount, FlowsRead, AssignCheck, jobs
  <2>2. \A q \in Requests : request'[q] = request[q] \/ request'[q].pc # "create"
    BY <1>0, <1>2, StartedAs
  <2>. QED
    BY <1>1, <2>1, <2>2
<1>3. ASSUME NEW r \in Requests,
             StoragePut(r) \/ CreateVideoRecord(r) \/ Verdict(r) \/ IngestFails(r)
                 \/ Enqueue(r) \/ UpdateWrite(r) \/ AssignWrite(r) \/ FlowsWrite(r) \/ Fails(r)
      PROVE  Knowing'
  <2>1. UNCHANGED job
    BY <1>3 DEF StoragePut, CreateVideoRecord, Verdict, IngestFails, Enqueue, UpdateWrite,
       AssignWrite, FlowsWrite, Fails, jobs
  <2>2. Answer(r) \/ \E pc \in {"record", "verdict"} : Goto(r, pc)
    BY <1>3 DEF StoragePut, CreateVideoRecord, Verdict, IngestFails, Enqueue, UpdateWrite,
       AssignWrite, FlowsWrite, Fails
  <2>3. \A q \in Requests : request'[q] = request[q] \/ request'[q].pc # "create"
    BY <1>0, <2>2 DEF Answer, Goto, Blank, Call
  <2>. QED
    BY <1>1, <2>1, <2>3
<1>4. ASSUME NEW r \in Requests, DeleteRow(r) PROVE Knowing'
  <2>1. \A k \in Keys : /\ job'[k].account = job[k].account /\ job'[k].video = job[k].video
                        /\ job'[k].dup = job[k].dup /\ job'[k].knew = job[k].knew
                        /\ job'[k].status = job[k].status /\ job'[k].met = job[k].met
    BY <1>0, <1>4 DEF DeleteRow, JobRow
  <2>2. \A q \in Requests : request'[q] = request[q] \/ request'[q].pc # "create"
    BY <1>0, <1>4 DEF DeleteRow, Answer, Blank
  <2>. QED
    BY <2>1, <2>2, KnowingKept
<1>5. ASSUME NEW r \in Requests, JobCheck(r) PROVE Knowing'
  <2>1. CASE Answer(r)
    <3>1. \A q \in Requests : request'[q] = request[q] \/ request'[q].pc # "create"
      BY <1>0, <2>1 DEF Answer, Blank
    <3>. QED
      BY <1>1, <1>5, <3>1 DEF JobCheck, jobs
  <2>. QED
    BY <1>5, <2>1, KnowingCheck
<1>6. ASSUME NEW r \in Requests, JobCreate(r) PROVE Knowing'
  <2>1. CASE UNCHANGED job
    <3>1. \A q \in Requests : request'[q] = request[q] \/ request'[q].pc # "create"
      BY <1>0, <1>6, CreatedAs
    <3>. QED
      BY <1>1, <2>1, <3>1
  <2>. QED
    BY <1>6, <2>1, KnowingCreate
<1>7. CASE (\E k \in Keys : Lives(k)) \/ BootLists
  <2>1. UNCHANGED request
    BY <1>7, LifeAs
  <2>2. CASE UNCHANGED job
    BY <1>1, <2>1, <2>2
  <2>3. ASSUME NEW k \in Keys, NEW s \in JobStatus \ {"none"}, Becomes(k, s) PROVE Knowing'
    BY <2>1, <2>3, KnowingBecomes
  <2>. QED
    BY <1>7, <2>2, <2>3, LifeAs
<1>8. CASE Restart /\ UNCHANGED jobs
  <2>1. \A q \in Requests : request'[q] = request[q] \/ request'[q].pc # "create"
    BY <1>0, <1>8 DEF Restart, Blank
  <2>. QED
    BY <1>1, <1>8, <2>1 DEF jobs
<1>9. CASE UNCHANGED <<request, jobs>>
  BY <1>1, <1>9 DEF jobs
<1>10. ASSUME NEW r \in Requests, Proceeds(r) PROVE Knowing'
  BY <1>3, <1>4, <1>5, <1>6, <1>10 DEF Proceeds
<1>11. CASE AppRestarts \/ Rotates \/ UNCHANGED vars
  BY <1>8, <1>9, <1>11 DEF vars, Rotates, AppRestarts, InstallKey, RetireKey, RotateList,
     Reseal, ScriptEnds
<1>. QED
  BY <1>2, <1>7, <1>10, <1>11 DEF Next

\* Two like jobs are in flight at once only for one of the reasons named, for any number
\* of calls that create and delete and whatever cancels, retries, failures, redeliveries
\* and boots do to their rows (lib/jobs/service.ts:173-194, 422-487,
\* lib/worker/processJob.ts:63-112, 395-440, createWorker.ts:68-116).
THEOREM InFlightHolds == Spec => []OneInFlight
<1>1. Init => Knowing
  BY DEF Init, Knowing, Alike, Excused, NoJob, Blank, At
<1>2. Typed /\ Knowing => OneInFlight
  <2> SUFFICES ASSUME Typed, Knowing, NEW k \in Keys, NEW l \in Keys, k # l,
                      ActiveRun(k), ActiveRun(l), job[k].video # Nobody,
                      SameRun(k, job[l].account, job[l].video),
                      ~job[k].dup, ~job[l].dup, k \notin job[l].met, l \notin job[k].met
               PROVE  k \notin job[l].knew /\ l \notin job[k].knew
    BY DEF OneInFlight
  <2>. QED
    BY DEF Knowing, Excused, SameRun
<1>. QED
  BY <1>1, <1>2, KnowingNext, TypedInit, TypedNext, PTL DEF Spec
=============================================================================
