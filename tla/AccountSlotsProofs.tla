------------------------- MODULE AccountSlotsProofs -------------------------
(* Theorems about AccountSlots, for any jobs, processes, lanes and limits. *)
EXTENDS AccountSlots, FiniteSetTheorems, TLAPS

\* A lane that is not idle has a job, a key that is gone counts as 0, and a
\* lane past reserve saw a count within the limit.
Seating ==
    /\ slots.ttl = 0 => slots.count = 0
    /\ \A l \in Lanes :
        /\ lane[l].pc # "idle" => lane[l].job \in Jobs
        /\ lane[l].pc \in {"mark", "run", "decr"} => lane[l].seen <= MaxConcurrent

Typed == TypeOK /\ Seating

\* What the steps do to the counter's key, and that it stays well formed.
KeyOK(k) == k \in [count : Int, ttl : 0..Forever] /\ (k.ttl = 0 => k.count = 0)

LEMMA KeySteps ==
    ASSUME NEW k, KeyOK(k)
    PROVE  /\ KeyOK(Incr(k)) /\ Incr(k).count = k.count + 1 /\ Incr(k).ttl >= k.ttl
           /\ KeyOK(Decr(k)) /\ Decr(k).count = k.count - 1 /\ Decr(k).ttl >= k.ttl
           /\ KeyOK(Expire(k)) /\ Expire(k).count = k.count
           /\ k.count # 0 => Expire(k).ttl = SlotTTL
BY SlotsAssumption DEF KeyOK, Incr, Decr, Expire, Absent, Forever

LEMMA KeyAges ==
    ASSUME NEW k, KeyOK(k)
    PROVE  /\ KeyOK(Aged(k))
           /\ Aged(k) = Absent \/ (Aged(k).count = k.count /\ Aged(k).ttl >= k.ttl - 1)
           /\ Aged(k) = Absent => k = Absent \/ k.ttl <= 1
BY SlotsAssumption DEF KeyOK, Aged, Absent, Forever

LEMMA GotoTyped ==
    ASSUME lane \in [Lanes -> LaneState], NEW l \in Lanes, NEW p \in LanePc, Goto(l, p)
    PROVE  /\ lane' \in [Lanes -> LaneState]
           /\ lane'[l] = [lane[l] EXCEPT !.pc = p]
           /\ \A m \in Lanes \ {l} : lane'[m] = lane[m]
<1>1. lane[l] \in LaneState
  OBVIOUS
<1>2. [lane[l] EXCEPT !.pc = p] \in LaneState
  BY <1>1 DEF LaneState
<1>. QED
  BY <1>1, <1>2 DEF Goto

LEMMA FreeTyped == Free \in LaneState
BY SlotsAssumption DEF Free, LaneState, LanePc, Result

LEMMA TypedInit == Init => Typed
<1> SUFFICES ASSUME Init PROVE Typed
  OBVIOUS
<1>1. job \in [Jobs -> JobState]
  BY DEF Init, JobState, NewJob
<1>2. lane \in [Lanes -> LaneState]
  BY FreeTyped DEF Init
<1>3. proc \in [Processes -> ProcState] /\ slots \in [count : Int, ttl : 0..Forever]
  BY SlotsAssumption DEF Init, ProcState, Absent, Forever
<1>4. Seating
  BY DEF Init, Seating, Absent, Free
<1>5. last \in 0..SlotTTL /\ since \in 0..MinInterval /\ faults \in Nat
  BY SlotsAssumption DEF Init
<1>6. misjudged \in BOOLEAN
  BY DEF Init
<1>. QED
  BY <1>1, <1>2, <1>3, <1>4, <1>5, <1>6 DEF Typed, TypeOK

\* A step of one lane, by what it leaves in the lane, the jobs and the keys.
LEMMA LaneStep ==
    ASSUME Typed, NEW l \in Lanes, NEW v \in LaneState,
           lane' = [lane EXCEPT ![l] = v],
           v.pc # "idle" => v.job \in Jobs,
           v.pc \in {"mark", "run", "decr"} => v.seen <= MaxConcurrent,
           job' \in [Jobs -> JobState], KeyOK(slots'),
           last' \in {last, 0}, since' \in {since, 0}, faults' \in Nat,
           UNCHANGED <<proc, misjudged>>
    PROVE  Typed'
<1>1. Seating'
  BY DEF Typed, TypeOK, Seating, KeyOK
<1>2. TypeOK'
  BY SlotsAssumption DEF Typed, TypeOK, KeyOK
<1>. QED
  BY <1>1, <1>2 DEF Typed

LEMMA JobTyped ==
    ASSUME Typed, NEW j \in Jobs
    PROVE  /\ \A s \in {"queued", "running", "completed", "failed"} :
                 [job EXCEPT ![j].row = s] \in [Jobs -> JobState]
           /\ [job EXCEPT ![j].bull = "active"] \in [Jobs -> JobState]
           /\ \A d \in Nat :
                 [job EXCEPT ![j].bull = "waiting", ![j].wait = d] \in [Jobs -> JobState]
<1>1. job \in [Jobs -> JobState] /\ job[j] \in JobState
  BY DEF Typed, TypeOK
<1>2. \A s \in {"queued", "running", "completed", "failed"} :
          [job[j] EXCEPT !.row = s] \in JobState
  BY <1>1 DEF JobState
<1>3. [job[j] EXCEPT !.bull = "active"] \in JobState
  BY <1>1 DEF JobState
<1>4. \A d \in Nat : [job EXCEPT ![j].bull = "waiting", ![j].wait = d] \in [Jobs -> JobState]
  BY <1>1 DEF JobState
<1>. QED
  BY <1>1, <1>2, <1>3, <1>4

LEMMA TypedReserves ==
    ASSUME Typed, NEW l \in Lanes, Reserves(l) \/ \E j \in Jobs : Fetch(l, j)
    PROVE  Typed'
<1> DEFINE j == lane[l].job
<1>1. lane[l] \in LaneState /\ KeyOK(slots) /\ (lane[l].pc # "idle" => j \in Jobs)
      /\ last \in 0..SlotTTL /\ faults \in Nat /\ job \in [Jobs -> JobState]
      /\ since \in 0..MinInterval
  BY DEF Typed, TypeOK, Seating, KeyOK
<1>3. ASSUME NEW k \in Jobs, Fetch(l, k) PROVE Typed'
  <2>1. PICK p \in {"settle", "interval", "take"} :
          lane' = [lane EXCEPT ![l] = [Free EXCEPT !.job = k, !.pc = p]]
    BY <1>3 DEF Fetch
  <2> DEFINE v == [Free EXCEPT !.job = k, !.pc = p]
  <2>2. v \in LaneState
    BY FreeTyped DEF LaneState, LanePc, Free
  <2>3. v.job = k /\ v.pc = p /\ lane' = [lane EXCEPT ![l] = v]
    BY <2>1 DEF Free
  <2> HIDE DEF v
  <2>4. job' \in [Jobs -> JobState]
    BY <1>3, JobTyped DEF Fetch
  <2>5. UNCHANGED <<proc, slots, last, since, misjudged, faults>>
    BY <1>3 DEF Fetch
  <2>. QED
    BY <1>1, <2>2, <2>3, <2>4, <2>5, LaneStep
<1>4. ASSUME NEW d \in Nat, Postpone(l, d), j \in Jobs, KeyOK(slots'),
             UNCHANGED <<proc, last, since, misjudged, faults>>
      PROVE  Typed'
  <2>1. job' \in [Jobs -> JobState]
    BY <1>4, JobTyped DEF Postpone
  <2>2. lane' = [lane EXCEPT ![l] = Free] /\ Free.pc = "idle"
    BY <1>4 DEF Postpone, Free
  <2>. QED
    BY <1>1, <1>4, <2>1, <2>2, FreeTyped, LaneStep
<1>5. CASE CheckInterval(l)
  <2>1. j \in Jobs
    BY <1>1, <1>5 DEF CheckInterval, At
  <2>2. CASE last < SlotTTL /\ last < MinInterval
    <3>1. MinInterval - last \in Nat
      BY <1>1, <2>2, SlotsAssumption
    <3>. QED
      BY <1>1, <1>4, <1>5, <2>1, <2>2, <3>1 DEF CheckInterval
  <2>3. CASE ~(last < SlotTTL /\ last < MinInterval)
    <3> DEFINE v == [lane[l] EXCEPT !.pc = "take"]
    <3>1. lane' = [lane EXCEPT ![l] = v]
      BY <1>5, <2>3 DEF CheckInterval, Goto
    <3>2. v \in LaneState /\ v.pc = "take" /\ v.job = j
      BY <1>1 DEF LaneState, LanePc
    <3> HIDE DEF v
    <3>. QED
      BY <1>1, <1>5, <2>1, <2>3, <3>1, <3>2, LaneStep DEF CheckInterval
  <2>. QED
    BY <2>2, <2>3
<1>6. CASE Take(l)
  <2> DEFINE v == [lane[l] EXCEPT !.pc = "refresh", !.seen = slots.count + 1]
  <2>1. v \in LaneState /\ v.pc = "refresh" /\ v.job = j
    <3>1. slots.count + 1 \in Int
      BY <1>1 DEF KeyOK
    <3>. QED
      BY <1>1, <3>1 DEF LanePc, LaneState
  <2>2. lane' = [lane EXCEPT ![l] = v] /\ j \in Jobs
    BY <1>1, <1>6 DEF Take, At
  <2> HIDE DEF v
  <2>. QED
    BY <1>1, <1>6, <2>1, <2>2, KeySteps, LaneStep DEF Take
<1>7. CASE Refresh(l)
  <2>1. PICK p \in {"giveBack", "mark"} :
          /\ lane' = [lane EXCEPT ![l] = [lane[l] EXCEPT !.pc = p]]
          /\ p = "mark" => ~(lane[l].seen > MaxConcurrent)
    BY <1>7 DEF Refresh, Goto
  <2> DEFINE v == [lane[l] EXCEPT !.pc = p]
  <2>2. v \in LaneState /\ v.pc = p /\ v.job = j /\ v.seen = lane[l].seen
    BY <1>1 DEF LanePc, LaneState
  <2>3. p = "mark" => v.seen <= MaxConcurrent
    BY <1>1, <2>1, <2>2, SlotsAssumption DEF LaneState
  <2>4. lane' = [lane EXCEPT ![l] = v] /\ j \in Jobs
    BY <1>1, <1>7, <2>1 DEF Refresh, At
  <2> HIDE DEF v
  <2>. QED
    BY <1>1, <1>7, <2>2, <2>3, <2>4, KeySteps, LaneStep DEF Refresh
<1>8. CASE GiveBack(l)
  BY <1>1, <1>4, <1>8, KeySteps, SlotsAssumption DEF GiveBack, At
<1>. QED
  BY <1>3, <1>5, <1>6, <1>7, <1>8 DEF Reserves

LEMMA TypedRuns ==
    ASSUME Typed, NEW l \in Lanes,
           Runs(l) \/ \E result \in {"failed", "queued"} : OutcomeLost(l, result)
    PROVE  Typed'
<1> DEFINE j == lane[l].job
<1>1. lane[l] \in LaneState /\ KeyOK(slots) /\ faults \in Nat /\ job \in [Jobs -> JobState]
  BY DEF Typed, TypeOK, Seating, KeyOK
<1>2. lane[l].pc \in {"mark", "run"} /\ UNCHANGED <<proc, last, misjudged>>
  BY DEF Runs, Mark, Touch, Finish, OutcomeLost, At
<1>3. j \in Jobs /\ lane[l].seen <= MaxConcurrent
  BY <1>2 DEF Typed, Seating
<1>4. PICK p \in {"run", "decr"}, b \in Nat, r \in Result :
        lane' = [lane EXCEPT ![l] = [lane[l] EXCEPT !.pc = p, !.beat = b, !.result = r]]
  <2>1. lane[l] = [pc |-> lane[l].pc, job |-> j, seen |-> lane[l].seen,
                   beat |-> lane[l].beat, result |-> lane[l].result]
        /\ lane[l].beat \in Nat /\ lane[l].result \in Result
    BY <1>1 DEF LaneState
  <2>2. CASE Mark(l) \/ Touch(l)
    <3>1. lane' = [lane EXCEPT ![l] = [lane[l] EXCEPT !.pc = "run", !.beat = Heartbeat,
                                                      !.result = lane[l].result]]
      BY <2>1, <2>2 DEF Mark, Touch, At, Typed, TypeOK
    <3>. QED
      BY <2>1, <3>1, SlotsAssumption
  <2>3. ASSUME NEW r \in Result, Finish(l, r) \/ OutcomeLost(l, r)
        PROVE  lane' = [lane EXCEPT ![l] = [lane[l] EXCEPT !.pc = "decr",
                                               !.beat = lane[l].beat, !.result = r]]
    <3>1. lane' = [lane EXCEPT ![l].pc = "decr", ![l].result = r]
      BY <2>3, Zenon DEF Finish, OutcomeLost
    <3>2. [lane[l] EXCEPT !.pc = "decr", !.result = r]
          = [lane[l] EXCEPT !.pc = "decr", !.beat = lane[l].beat, !.result = r]
      BY <2>1
    <3>. QED
      BY <3>1, <3>2 DEF Typed, TypeOK
  <2>. QED
    BY <2>1, <2>2, <2>3 DEF Runs, Result
<1> DEFINE v == [lane[l] EXCEPT !.pc = p, !.beat = b, !.result = r]
<1>5. v \in LaneState /\ v.job = j /\ v.seen = lane[l].seen
  BY <1>1, <1>4 DEF LaneState, LanePc
<1>6. job' \in [Jobs -> JobState]
  <2>1. CASE Mark(l) \/ \E result \in Result : Finish(l, result)
    <3>1. PICK s \in {"queued", "running", "completed", "failed"} :
            job' = [job EXCEPT ![j].row = s]
      BY <2>1 DEF Mark, Finish, Result
    <3> HIDE DEF j
    <3>. QED
      BY <1>3, <3>1, JobTyped
  <2>2. CASE UNCHANGED job
    BY <1>1, <2>2
  <2>. QED
    BY <2>1, <2>2 DEF Runs, Touch, OutcomeLost
<1>7. KeyOK(slots') /\ since' \in {since, 0} /\ faults' \in Nat
  <2>1. slots' = slots \/ slots' = Expire(slots)
    BY DEF Runs, Mark, Touch, Finish, OutcomeLost
  <2>2. since' \in {since, 0} /\ faults' \in {faults, faults + 1}
    BY DEF Runs, Mark, Touch, Finish, OutcomeLost, Fault
  <2>. QED
    BY <1>1, <2>1, <2>2, KeySteps
<1> HIDE DEF v
<1>. QED
  BY <1>2, <1>3, <1>4, <1>5, <1>6, <1>7, LaneStep DEF v

LEMMA TypedReleases ==
    ASSUME Typed, NEW l \in Lanes, Releases(l) \/ CallFails(l)
    PROVE  Typed'
<1> DEFINE j == lane[l].job
<1>1. /\ lane[l] \in LaneState /\ KeyOK(slots) /\ (lane[l].pc # "idle" => j \in Jobs)
      /\ faults \in Nat /\ job \in [Jobs -> JobState]
      /\ lane[l].pc = "decr" => lane[l].seen <= MaxConcurrent
  BY DEF Typed, TypeOK, Seating, KeyOK
<1>2. CASE ReleaseDecr(l) \/ ReleaseZero(l) \/ ReleaseStamp(l)
  <2>1. PICK p \in {"zero", "stamp", "settle"} :
          lane' = [lane EXCEPT ![l] = [lane[l] EXCEPT !.pc = p]]
    BY <1>2 DEF ReleaseDecr, ReleaseZero, ReleaseStamp, Goto
  <2> DEFINE v == [lane[l] EXCEPT !.pc = p]
  <2>2. v \in LaneState /\ v.pc = p /\ v.job = j
    BY <1>1 DEF LanePc, LaneState
  <2>3. lane' = [lane EXCEPT ![l] = v] /\ j \in Jobs
    BY <1>1, <1>2, <2>1 DEF ReleaseDecr, ReleaseZero, ReleaseStamp, At
  <2>4. KeyOK(slots')
    <3>1. KeyOK(Decr(slots)) /\ KeyOK([count |-> 0, ttl |-> Forever])
      BY <1>1, KeySteps, SlotsAssumption DEF KeyOK, Forever
    <3>. QED
      BY <1>1, <1>2, <3>1 DEF ReleaseDecr, ReleaseZero, ReleaseStamp
  <2>5. /\ last' \in {last, 0} /\ UNCHANGED <<job, proc, since, misjudged, faults>>
    BY <1>2 DEF ReleaseDecr, ReleaseZero, ReleaseStamp
  <2> HIDE DEF v
  <2>. QED
    BY <1>1, <2>2, <2>3, <2>4, <2>5, LaneStep
<1>3. CASE Settle(l)
  <2>1. j \in Jobs /\ lane' = [lane EXCEPT ![l] = Free] /\ Free.pc = "idle"
    BY <1>1, <1>3 DEF Settle, At, Free
  <2>2. job' \in [Jobs -> JobState]
    <3>1. PICK b \in {"waiting", "gone"}, n \in {job[j].made, job[j].made + 1} :
            job' = [job EXCEPT ![j].bull = b, ![j].wait = 0, ![j].made = n]
      BY <1>3, Zenon DEF Settle
    <3>2. n \in Nat
      BY <1>1, <2>1 DEF JobState
    <3> HIDE DEF j
    <3>3. job[j] \in JobState
      BY <1>1, <2>1
    <3>4. [job[j] EXCEPT !.bull = b, !.wait = 0, !.made = n] \in JobState
      BY <3>2, <3>3 DEF JobState
    <3>. QED
      BY <1>1, <2>1, <3>1, <3>4
  <2>3. UNCHANGED <<proc, slots, last, since, misjudged, faults>>
    BY <1>3 DEF Settle
  <2>. QED
    BY <1>1, <2>1, <2>2, <2>3, FreeTyped, LaneStep
<1>4. CASE CallFails(l)
  <2> DEFINE v == [lane[l] EXCEPT !.pc = "settle", !.result = "queued"]
  <2>1. v \in LaneState /\ v.pc = "settle" /\ v.job = j
    BY <1>1 DEF LanePc, LaneState, Result
  <2>2. lane' = [lane EXCEPT ![l] = v] /\ j \in Jobs
    BY <1>1, <1>4 DEF CallFails, End
  <2>3. faults' \in Nat /\ UNCHANGED <<job, proc, slots, last, since, misjudged>>
    BY <1>1, <1>4 DEF CallFails, Fault
  <2> HIDE DEF v
  <2>. QED
    BY <1>1, <2>1, <2>2, <2>3, LaneStep
<1>. QED
  BY <1>2, <1>3, <1>4 DEF Releases

LEMMA TypedBoots ==
    ASSUME Typed, NEW p \in Processes, Boots(p) \/ Crash(p)
    PROVE  Typed'
<1>1. CASE Boot(p)
  <2>1. job' \in [Jobs -> JobState]
    BY <1>1 DEF Boot, NewJob, JobState, Typed, TypeOK
  <2>2. proc' \in [Processes -> ProcState]
    BY <1>1 DEF Boot, ProcState, Typed, TypeOK
  <2>. QED
    BY <1>1, <2>1, <2>2 DEF Boot, Typed, TypeOK, Seating
<1>2. CASE Survey(p)
  <2>1. Cardinality(Running) \in Nat
    <3>1. Running \in SUBSET Jobs
      BY DEF Running
    <3>. QED
      BY <3>1, FS_Subset, FS_CardinalityType, SlotsAssumption
  <2>2. proc' \in [Processes -> ProcState]
    BY <1>2, <2>1 DEF Survey, ProcState, Typed, TypeOK
  <2>. QED
    BY <1>2, <2>2 DEF Survey, Typed, TypeOK, Seating
<1>3. CASE Compare(p) \/ Correct(p)
  <2>1. proc' \in [Processes -> ProcState]
    BY <1>3 DEF Compare, Correct, Judge, ProcState, Typed, TypeOK
  <2>2. misjudged' \in BOOLEAN
    <3>1. misjudged' = misjudged
          \/ misjudged' = (misjudged \/ proc[p].actual # Cardinality(Holding))
      BY <1>3 DEF Compare, Correct, Judge
    <3>. QED
      BY <3>1 DEF Typed, TypeOK
  <2>3. KeyOK(slots')
    BY <1>3, SlotsAssumption DEF Compare, Correct, KeyOK, Typed, TypeOK, Seating, ProcState,
       Absent, Forever
  <2>. QED
    BY <1>3, <2>1, <2>2, <2>3 DEF Compare, Correct, Typed, TypeOK, Seating, KeyOK
<1>4. CASE Crash(p)
  <2>1. proc' \in [Processes -> ProcState]
    BY <1>4 DEF Crash, ProcState, Typed, TypeOK
  <2>2. lane' \in [Lanes -> LaneState] /\ \A l \in Lanes : lane'[l] \in {lane[l], Free}
    BY <1>4, FreeTyped DEF Crash, Typed, TypeOK
  <2>3. faults' \in Nat /\ UNCHANGED <<job, slots, last, since, misjudged>>
    BY <1>4 DEF Crash, Fault, Typed, TypeOK
  <2>4. Free.pc = "idle"
    BY DEF Free
  <2>5. Seating'
    BY <2>2, <2>3, <2>4 DEF Typed, Seating
  <2>. QED
    BY <2>1, <2>2, <2>3, <2>5 DEF Typed, TypeOK
<1>. QED
  BY <1>1, <1>2, <1>3, <1>4 DEF Boots

LEMMA TypedElsewhere ==
    ASSUME Typed, Tick \/ \E j \in Jobs : Stall(j)
    PROVE  Typed'
<1>1. ASSUME NEW j \in Jobs, Stall(j) PROVE Typed'
  <2>1. job' \in [Jobs -> JobState]
    BY <1>1, JobTyped DEF Stall
  <2>. QED
    BY <1>1, <2>1 DEF Stall, Typed, TypeOK, Seating
<1>2. CASE Tick
  <2>1. /\ lane' \in [Lanes -> LaneState]
        /\ \A l \in Lanes : /\ lane'[l].pc = lane[l].pc /\ lane'[l].job = lane[l].job
                            /\ lane'[l].seen = lane[l].seen
    BY <1>2 DEF Tick, At, LaneState, Typed, TypeOK
  <2>2. job' \in [Jobs -> JobState]
    BY <1>2 DEF Tick, JobState, Typed, TypeOK
  <2>3. KeyOK(slots')
    BY <1>2, KeyAges DEF Tick, KeyOK, Typed, TypeOK, Seating
  <2>4. last' \in 0..SlotTTL /\ since' \in 0..MinInterval
    BY <1>2, SlotsAssumption DEF Tick, Typed, TypeOK
  <2>5. Seating'
    BY <2>1, <2>3 DEF Seating, KeyOK, Typed
  <2>6. UNCHANGED <<proc, misjudged, faults>>
    BY <1>2 DEF Tick
  <2>. QED
    BY <2>1, <2>2, <2>3, <2>4, <2>5, <2>6 DEF Typed, TypeOK, KeyOK
<1>. QED
  BY <1>1, <1>2

LEMMA TypedNext == Typed /\ [Next]_vars => Typed'
<1> SUFFICES ASSUME Typed, [Next]_vars PROVE Typed'
  OBVIOUS
<1>1. CASE Next
  BY <1>1, TypedReserves, TypedRuns, TypedReleases, TypedBoots, TypedElsewhere DEF Next
<1>2. CASE UNCHANGED vars
  BY <1>2 DEF vars, Typed, TypeOK, Seating
<1>. QED
  BY <1>1, <1>2

\* Every reachable state is well typed; whoever got past reserve was let in.
THEOREM SlotsTypeCorrect == Spec => [](TypeOK /\ Seating)
<1>1. Typed <=> TypeOK /\ Seating
  BY DEF Typed
<1>. QED
  BY <1>1, TypedInit, TypedNext, PTL DEF Spec

-----------------------------------------------------------------------------
(* The limit holds while the counter covers the lanes that count *)

\* Lanes the limiter let in, or is about to.
Seated == {l \in Lanes : lane[l].pc \in Counting /\ lane[l].seen <= MaxConcurrent}

\* The key outlives the next heartbeat of every run.
Alive ==
    \A l \in Lanes :
        /\ lane[l].pc = "mark" => slots.ttl >= SlotTTL
        /\ lane[l].pc = "run" => lane[l].beat <= Heartbeat /\ lane[l].beat < slots.ttl

Covered ==
    /\ Cardinality(Holding) <= slots.count
    /\ Cardinality(Seated) <= MaxConcurrent
    /\ Alive
    /\ \A l \in Lanes : lane[l].pc # "zero"

Counted == ~misjudged => Covered

LEMMA LaneSets ==
    /\ \A S \in SUBSET Lanes : IsFiniteSet(S) /\ Cardinality(S) \in Nat
    /\ \A T \in SUBSET Lanes : \A S \in SUBSET T : Cardinality(S) <= Cardinality(T)
<1>1. IsFiniteSet(Lanes)
  <2>1. IsFiniteSet(1..Concurrency) /\ IsFiniteSet(Processes)
    BY FS_Interval, SlotsAssumption
  <2>. QED
    BY <2>1, FS_Product DEF Lanes
<1>2. \A S \in SUBSET Lanes : IsFiniteSet(S)
  BY <1>1, FS_Subset
<1>. QED
  BY <1>2, FS_Subset, FS_CardinalityType

\* A step of one lane that keeps its seat, or leaves it and counts down once.
LEMMA CoveredStep ==
    ASSUME Typed, Covered, NEW l \in Lanes, KeyOK(slots'),
           \A m \in Lanes \ {l} : lane'[m] = lane[m],
           lane'[l].pc \in Counting =>
               lane[l].pc \in Counting /\ lane'[l].seen = lane[l].seen,
           \/ slots'.count >= slots.count
           \/ /\ lane[l].pc \in Counting /\ lane'[l].pc \notin Counting
              /\ slots'.count = slots.count - 1,
           slots'.ttl >= slots.ttl \/ slots'.ttl = SlotTTL,
           lane'[l].pc = "mark" => slots'.ttl >= SlotTTL,
           lane'[l].pc = "run" => lane'[l].beat <= Heartbeat /\ lane'[l].beat < slots'.ttl,
           lane'[l].pc # "zero"
    PROVE  Covered'
<1>1. /\ slots.count \in Int /\ slots'.count \in Int
      /\ slots.ttl \in Nat /\ slots'.ttl \in Nat
      /\ \A m \in Lanes : lane[m].beat \in Nat
  BY SlotsAssumption DEF Typed, TypeOK, KeyOK, LaneState, Forever
<1>2. Holding \in SUBSET Lanes /\ Holding' \in SUBSET Holding /\ Seated \in SUBSET Lanes
      /\ Seated' \in SUBSET Seated
  BY DEF Holding, Seated
<1>3. Cardinality(Holding') <= slots'.count
  <2>1. CASE slots'.count >= slots.count
    BY <1>1, <1>2, <2>1, LaneSets DEF Covered
  <2>2. CASE /\ lane[l].pc \in Counting /\ lane'[l].pc \notin Counting
             /\ slots'.count = slots.count - 1
    <3>1. l \in Holding /\ Holding' \in SUBSET (Holding \ {l})
      BY <1>2, <2>2 DEF Holding
    <3>2. Cardinality(Holding \ {l}) = Cardinality(Holding) - 1
      BY <1>2, <3>1, LaneSets, FS_RemoveElement
    <3>3. Holding \ {l} \in SUBSET Lanes
      BY <1>2
    <3>4. /\ Cardinality(Holding') <= Cardinality(Holding \ {l})
          /\ Cardinality(Holding') \in Nat /\ Cardinality(Holding) \in Nat
      BY <1>2, <3>1, <3>3, LaneSets
    <3>. QED
      BY <1>1, <2>2, <3>2, <3>4 DEF Covered
  <2>. QED
    BY <2>1, <2>2
<1>4. Cardinality(Seated') <= MaxConcurrent
  <2>1. /\ Cardinality(Seated') <= Cardinality(Seated)
        /\ Cardinality(Seated') \in Nat /\ Cardinality(Seated) \in Nat
    BY <1>2, LaneSets
  <2>. QED
    BY <2>1, SlotsAssumption DEF Covered
<1>5. Alive'
  BY <1>1, SlotsAssumption DEF Covered, Alive
<1>. QED
  BY <1>3, <1>4, <1>5 DEF Covered

\* A lane that counts sees the counter at one at least.
LEMMA CountPositive ==
    ASSUME Typed, Covered, NEW l \in Lanes, lane[l].pc \in Counting
    PROVE  slots.count \in Int /\ slots.count >= 1
<1>1. Holding \in SUBSET Lanes /\ {l} \in SUBSET Holding
  BY DEF Holding
<1>2. Cardinality({l}) = 1
  BY FS_Singleton
<1>3. 1 <= Cardinality(Holding) /\ Cardinality(Holding) \in Nat
  BY <1>1, <1>2, LaneSets
<1>. QED
  BY <1>3 DEF Covered, Typed, TypeOK

LEMMA CoveredLanes ==
    ASSUME Typed, Typed', Covered, NEW l \in Lanes,
           \/ Reserves(l) \/ Runs(l) \/ Releases(l) \/ CallFails(l)
           \/ \E j \in Jobs : Fetch(l, j)
           \/ \E result \in {"failed", "queued"} : OutcomeLost(l, result)
    PROVE  Covered'
<1>1. /\ KeyOK(slots) /\ KeyOK(slots') /\ lane[l] \in LaneState
      /\ lane \in [Lanes -> LaneState] /\ slots.ttl \in Nat /\ slots.count \in Int
  BY SlotsAssumption DEF Typed, TypeOK, Seating, KeyOK, Forever
\* Nothing taken, nothing counted, or the seat given up without counting down.
<1>2. CASE \/ CheckInterval(l) \/ ReleaseStamp(l) \/ Settle(l) \/ CallFails(l)
           \/ \E j \in Jobs : Fetch(l, j)
  <2>1. /\ UNCHANGED slots
        /\ \A m \in Lanes \ {l} : lane'[m] = lane[m]
        /\ lane'[l].pc \notin Counting \cup {"zero"}
    <3>1. ASSUME lane' = [lane EXCEPT ![l] = Free] PROVE lane'[l].pc = "idle"
      BY <1>1, <3>1 DEF Free
    <3>2. ASSUME NEW q \in {"take", "settle"}, Goto(l, q) PROVE lane'[l].pc = q
      BY <1>1, <3>2 DEF Goto, LaneState
    <3>3. ASSUME CallFails(l) PROVE lane'[l].pc = "settle"
      BY <1>1, <3>3 DEF CallFails, End, LaneState
    <3>4. ASSUME NEW k \in Jobs, Fetch(l, k)
          PROVE  lane'[l].pc \in {"settle", "interval", "take"}
      <4>1. PICK q \in {"settle", "interval", "take"} :
              lane' = [lane EXCEPT ![l] = [Free EXCEPT !.job = k, !.pc = q]]
        BY <3>4 DEF Fetch
      <4>. QED
        BY <1>1, <4>1 DEF Free
    <3>5. lane'[l].pc \notin Counting \cup {"zero"}
      BY <1>2, <3>1, <3>2, <3>3, <3>4
      DEF CheckInterval, Postpone, ReleaseStamp, Settle, Counting
    <3>6. UNCHANGED slots /\ \A m \in Lanes \ {l} : lane'[m] = lane[m]
      BY <1>1, <1>2 DEF CheckInterval, Postpone, ReleaseStamp, Settle, CallFails, Fetch, Goto,
         End
    <3>. QED
      BY <3>5, <3>6
  <2>. QED
    BY <1>1, <2>1, CoveredStep DEF Counting
\* The count is the seat's number, and at least one more than the seats taken.
<1>3. CASE Take(l)
  <2>1. /\ slots' = Incr(slots) /\ lane[l].pc = "take"
        /\ \A m \in Lanes \ {l} : lane'[m] = lane[m]
        /\ lane'[l].pc = "refresh" /\ lane'[l].seen = slots.count + 1
    BY <1>1, <1>3 DEF Take, At, LaneState
  <2>2. slots'.count = slots.count + 1 /\ slots'.ttl \in Nat /\ slots'.ttl >= slots.ttl
    <3>1. /\ KeyOK(slots') /\ slots'.count = slots.count + 1
          /\ slots'.ttl >= slots.ttl
      BY <1>1, <2>1, KeySteps
    <3>. QED
      BY <3>1, SlotsAssumption DEF KeyOK, Forever
  <2>3. /\ Holding' = Holding \cup {l} /\ l \notin Holding
        /\ Seated' \in SUBSET (Seated \cup {l})
        /\ slots.count + 1 > MaxConcurrent => Seated' \in SUBSET Seated
    BY <1>1, <2>1, SlotsAssumption DEF Holding, Seated, Counting
  <2>4. Holding \in SUBSET Lanes /\ Seated \in SUBSET Holding
        /\ Seated \cup {l} \in SUBSET Lanes
    BY DEF Holding, Seated
  <2>5. /\ Cardinality(Holding) \in Nat /\ Cardinality(Seated) \in Nat
        /\ Cardinality(Seated) <= Cardinality(Holding)
        /\ Cardinality(Holding') = Cardinality(Holding) + 1
        /\ Cardinality(Seated \cup {l}) <= Cardinality(Seated) + 1
        /\ Cardinality(Seated \cup {l}) \in Nat
    BY <2>3, <2>4, LaneSets, FS_AddElement
  <2>6. /\ Cardinality(Seated') \in Nat
        /\ Cardinality(Seated') <= Cardinality(Seated \cup {l})
        /\ slots.count + 1 > MaxConcurrent => Cardinality(Seated') <= Cardinality(Seated)
    BY <2>3, <2>4, LaneSets
  <2>7. Cardinality(Seated') <= MaxConcurrent
    BY <1>1, <2>5, <2>6, SlotsAssumption DEF Covered
  <2>8. Cardinality(Holding') <= slots'.count
    BY <1>1, <2>2, <2>5 DEF Covered
  <2>9. Alive'
    BY <1>1, <2>1, <2>2, SlotsAssumption DEF Covered, Alive, LaneState
  <2>. QED
    BY <2>1, <2>7, <2>8, <2>9 DEF Covered
\* The seat is kept and the key's life renewed.
<1>4. CASE Refresh(l) \/ Touch(l)
  <2>1. /\ slots' = Expire(slots) /\ lane[l].pc \in {"refresh", "run"}
        /\ \A m \in Lanes \ {l} : lane'[m] = lane[m]
        /\ lane'[l].seen = lane[l].seen
        /\ lane'[l].pc \in {"giveBack", "mark", "run"}
        /\ lane'[l].pc = "run" => lane'[l].beat = Heartbeat
    BY <1>1, <1>4 DEF Refresh, Touch, At, Goto, LaneState
  <2>2. slots'.count = slots.count /\ slots'.ttl = SlotTTL
    BY <1>1, <2>1, KeySteps, CountPositive DEF Counting
  <2>. QED
    BY <1>1, <2>1, <2>2, SlotsAssumption, CoveredStep DEF Counting
<1>5. CASE \/ Mark(l) \/ \E result \in Result : Finish(l, result)
           \/ \E result \in {"failed", "queued"} : OutcomeLost(l, result)
  <2>1. /\ UNCHANGED slots
        /\ \A m \in Lanes \ {l} : lane'[m] = lane[m]
        /\ lane'[l].seen = lane[l].seen
        /\ \/ lane[l].pc = "mark" /\ lane'[l].pc = "run" /\ lane'[l].beat = Heartbeat
           \/ lane[l].pc = "run" /\ lane'[l].pc = "decr"
    BY <1>1, <1>5 DEF Mark, Finish, OutcomeLost, At, LaneState
  <2>2. lane[l].pc = "mark" => slots.ttl >= SlotTTL
    BY DEF Covered, Alive
  <2>. QED
    BY <1>1, <2>1, <2>2, SlotsAssumption, CoveredStep DEF Counting
\* The seat is given up and the counter lowered; it was positive.
<1>6. CASE GiveBack(l) \/ ReleaseDecr(l)
  <2>1. slots' = Decr(slots) /\ lane[l].pc \in Counting
    BY <1>6 DEF GiveBack, ReleaseDecr, At, Counting
  <2>2. slots'.count = slots.count - 1 /\ slots'.ttl >= slots.ttl /\ slots.count >= 1
    BY <1>1, <2>1, KeySteps, CountPositive
  <2>3. /\ \A m \in Lanes \ {l} : lane'[m] = lane[m]
        /\ lane'[l].pc \in {"idle", "stamp"}
    BY <1>1, <1>6, <2>2 DEF GiveBack, ReleaseDecr, Postpone, Goto, Free, LaneState
  <2>. QED
    BY <1>1, <2>1, <2>2, <2>3, CoveredStep DEF Counting
<1>7. ~ReleaseZero(l)
  BY DEF ReleaseZero, At, Covered
<1>. QED
  BY <1>2, <1>3, <1>4, <1>5, <1>6, <1>7 DEF Reserves, Runs, Releases

LEMMA CountedBoots ==
    ASSUME Typed, Typed', Counted, NEW p \in Processes, Boots(p) \/ Crash(p)
    PROVE  Counted'
<1>1. CASE Boot(p) \/ Survey(p) \/ Compare(p)
  <2>1. UNCHANGED <<lane, slots>> /\ (~misjudged' => ~misjudged)
    BY <1>1 DEF Boot, Survey, Compare, Judge
  <2>. QED
    BY <2>1 DEF Counted, Covered, Holding, Seated, Alive
\* A boot that is not misjudged writes what the lanes hold.
<1>2. CASE Correct(p)
  <2> SUFFICES ASSUME ~misjudged' PROVE Covered'
    BY DEF Counted
  <2>1. UNCHANGED lane /\ Covered /\ proc[p].actual = Cardinality(Holding)
    BY <1>2 DEF Correct, Judge, Counted
  <2>2. Holding' = Holding /\ Seated' = Seated
    BY <2>1 DEF Holding, Seated
  <2>3. slots'.count = Cardinality(Holding)
    BY <1>2, <2>1 DEF Correct, Absent
  <2>4. Alive'
    <3>1. CASE proc[p].actual = 0
      <4>1. Holding = {}
        <5>1. Holding \in SUBSET Lanes
          BY DEF Holding
        <5>. QED
          BY <2>1, <3>1, <5>1, LaneSets, FS_EmptySet
      <4>. QED
        BY <2>1, <4>1 DEF Alive, Holding, Counting
    <3>2. CASE proc[p].actual # 0
      <4>1. slots'.ttl = SlotTTL
        BY <1>2, <3>2 DEF Correct
      <4>2. \A l \in Lanes : lane[l].pc = "run" => lane[l].beat <= Heartbeat
                                                  /\ lane[l].beat \in Nat
        BY <2>1 DEF Covered, Alive, Typed, TypeOK, LaneState
      <4>. QED
        BY <2>1, <4>1, <4>2, SlotsAssumption DEF Alive
    <3>. QED
      BY <3>1, <3>2
  <2>. QED
    <3>1. Cardinality(Holding) \in Nat
      <4>1. Holding \in SUBSET Lanes
        BY DEF Holding
      <4>. QED
        BY <4>1, LaneSets
    <3>. QED
      BY <2>1, <2>2, <2>3, <2>4, <3>1 DEF Covered
<1>3. CASE Crash(p)
  <2> SUFFICES ASSUME Covered PROVE Covered'
    BY <1>3 DEF Crash, Counted
  <2>1. UNCHANGED slots /\ \A l \in Lanes : lane'[l] = lane[l] \/ lane'[l].pc = "idle"
    BY <1>3 DEF Crash, Free
  <2>2. Holding \in SUBSET Lanes /\ Holding' \in SUBSET Holding /\ Seated \in SUBSET Lanes
        /\ Seated' \in SUBSET Seated
    BY <2>1 DEF Holding, Seated, Counting
  <2>3. /\ Cardinality(Holding') <= Cardinality(Holding)
        /\ Cardinality(Seated') <= Cardinality(Seated)
        /\ Cardinality(Holding') \in Nat /\ Cardinality(Holding) \in Nat
        /\ Cardinality(Seated') \in Nat /\ Cardinality(Seated) \in Nat
        /\ slots.count \in Int
    BY <2>2, LaneSets DEF Typed, TypeOK
  <2>. QED
    BY <2>1, <2>3, SlotsAssumption DEF Covered, Alive
<1>. QED
  BY <1>1, <1>2, <1>3 DEF Boots

LEMMA CountedTick ==
    ASSUME Typed, Counted, Tick
    PROVE  Counted'
<1> SUFFICES ASSUME Covered PROVE Covered'
  BY DEF Tick, Counted
<1>1. /\ KeyOK(slots) /\ slots' = Aged(slots)
      /\ \A l \in Lanes : lane[l].pc = "idle" \/ (lane[l].pc = "run" /\ lane[l].beat > 0)
  BY DEF Tick, At, Typed, TypeOK, Seating, KeyOK
<1>2. \A l \in Lanes : /\ lane'[l].pc = lane[l].pc /\ lane'[l].seen = lane[l].seen
                       /\ lane[l].pc = "run" => lane'[l].beat = lane[l].beat - 1
                       /\ lane[l].beat \in Nat
  BY DEF Tick, At, Typed, TypeOK, LaneState
<1>3. Holding' = Holding /\ Seated' = Seated
  BY <1>2 DEF Holding, Seated
\* No heartbeat is late, so the key expires only when nobody holds a seat.
<1>4. ASSUME NEW l \in Lanes, lane[l].pc = "run"
      PROVE  slots'.count = slots.count /\ slots'.ttl >= slots.ttl - 1
  <2>1. lane[l].beat > 0 /\ lane[l].beat < slots.ttl /\ lane[l].beat \in Nat
    BY <1>1, <1>2, <1>4 DEF Covered, Alive
  <2>2. slots.count >= 1 /\ slots.ttl \in Nat
    BY <1>1, <1>4, CountPositive, SlotsAssumption DEF Counting, KeyOK, Forever
  <2>3. slots # Absent /\ ~(slots.ttl <= 1)
    BY <2>1, <2>2 DEF Absent
  <2>. QED
    BY <1>1, <2>3, KeyAges
<1>5. Alive'
  <2> SUFFICES ASSUME NEW l \in Lanes, lane[l].pc = "run"
               PROVE  lane'[l].beat <= Heartbeat /\ lane'[l].beat < slots'.ttl
    BY <1>1, <1>2 DEF Alive
  <2>1. /\ lane[l].beat \in Nat /\ lane'[l].beat = lane[l].beat - 1
        /\ lane[l].beat <= Heartbeat /\ lane[l].beat < slots.ttl
        /\ slots'.ttl >= slots.ttl - 1
    BY <1>2, <1>4 DEF Covered, Alive
  <2>2. slots.ttl \in Nat /\ slots'.ttl \in Nat /\ Heartbeat \in Nat
    <3>1. KeyOK(slots')
      BY <1>1, KeyAges
    <3>. QED
      BY <1>1, <3>1, SlotsAssumption DEF KeyOK, Forever
  <2>. QED
    BY <2>1, <2>2
<1>6. Cardinality(Holding) <= slots'.count
  <2>1. CASE Holding = {}
    <3>1. Cardinality(Holding) = 0
      BY <2>1, FS_EmptySet
    <3>. QED
      BY <1>1, <3>1, KeyAges DEF Covered, Absent
  <2>2. CASE Holding # {}
    <3>1. PICK l \in Lanes : lane[l].pc = "run"
      BY <1>1, <2>2 DEF Holding, Counting
    <3>. QED
      BY <1>4, <3>1 DEF Covered
  <2>. QED
    BY <2>1, <2>2
<1>. QED
  BY <1>2, <1>3, <1>5, <1>6 DEF Covered

LEMMA CountedInit == Init => Counted
<1> SUFFICES ASSUME Init PROVE Covered
  BY DEF Counted
<1>1. Holding = {} /\ Seated = {}
  BY DEF Init, Free, Holding, Seated, Counting
<1>. QED
  BY <1>1, FS_EmptySet, SlotsAssumption DEF Init, Free, Covered, Alive, Absent

LEMMA CountedNext == Typed /\ Typed' /\ Counted /\ [Next]_vars => Counted'
<1> SUFFICES ASSUME Typed, Typed', Counted, [Next]_vars PROVE Counted'
  OBVIOUS
<1>1. CASE \E l \in Lanes :
             \/ Reserves(l) \/ Runs(l) \/ Releases(l) \/ CallFails(l)
             \/ \E j \in Jobs : Fetch(l, j)
             \/ \E result \in {"failed", "queued"} : OutcomeLost(l, result)
  <2>1. UNCHANGED misjudged
    BY <1>1 DEF Reserves, CheckInterval, Take, Refresh, GiveBack, Runs, Mark, Touch, Finish,
       Releases, ReleaseDecr, ReleaseZero, ReleaseStamp, Settle, CallFails, Fetch,
       OutcomeLost
  <2>. QED
    BY <1>1, <2>1, CoveredLanes DEF Counted
<1>2. CASE \E p \in Processes : Boots(p) \/ Crash(p)
  BY <1>2, CountedBoots
<1>3. CASE \E j \in Jobs : Stall(j)
  BY <1>3 DEF Stall, Counted, Covered, Holding, Seated, Alive
<1>4. CASE Tick
  BY <1>4, CountedTick
<1>5. CASE UNCHANGED vars
  BY <1>5 DEF vars, Counted, Covered, Holding, Seated, Alive
<1>. QED
  BY <1>1, <1>2, <1>3, <1>4, <1>5 DEF Next

LEMMA CountedSuffices == Typed /\ Counted => ConcurrencyUnlessMisjudged
<1> SUFFICES ASSUME Typed, Covered PROVE ConcurrencyRespected
  BY DEF Counted, ConcurrencyUnlessMisjudged
<1>1. Seated \in SUBSET Lanes /\ Admitted \in SUBSET Seated
  BY DEF Seated, Admitted, Counting, Typed, Seating
<1>2. /\ Cardinality(Admitted) <= Cardinality(Seated)
      /\ Cardinality(Admitted) \in Nat /\ Cardinality(Seated) \in Nat
  BY <1>1, LaneSets
<1>. QED
  BY <1>2, SlotsAssumption DEF Covered, ConcurrencyRespected

\* No more runs of an account are in flight than maxConcurrent, for any number
\* of processes, lanes and jobs, as long as no boot has misjudged the counter.
THEOREM ConcurrencyHolds == Spec => []ConcurrencyUnlessMisjudged
BY CountedInit, CountedNext, CountedSuffices, TypedInit, TypedNext, PTL DEF Spec

-----------------------------------------------------------------------------
(* The refinement of AccountLimit *)

LEMMA SameCardinality == \A S : Promise!Cardinality(S) = Cardinality(S)
BY DEF Cardinality, Promise!Cardinality

LEMMA FreeIsOut == Free.pc = "idle"
BY DEF Free

\* Only Refresh lets a lane in; every other step of a lane lets it out, or stay.
LEMMA EnteringLane ==
    ASSUME Typed, NEW l \in Lanes,
           \/ Reserves(l) \/ Runs(l) \/ Releases(l) \/ CallFails(l)
           \/ \E j \in Jobs : Fetch(l, j)
           \/ \E result \in {"failed", "queued"} : OutcomeLost(l, result)
    PROVE  \/ Admitted' \subseteq Admitted
           \/ l \notin Admitted /\ Admitted' = Admitted \cup {l}
<1>1. /\ lane \in [Lanes -> LaneState] /\ DOMAIN lane = Lanes
      /\ \A m \in Lanes \ {l} : lane'[m] = lane[m]
  <2>1. lane \in [Lanes -> LaneState]
    BY DEF Typed, TypeOK
  <2>2. CASE Reserves(l) \/ Runs(l)
    BY <2>1, <2>2 DEF Reserves, CheckInterval, Take, Refresh, GiveBack, Postpone, Goto, Runs,
       Mark, Touch, Finish
  <2>3. CASE Releases(l) \/ CallFails(l)
    BY <2>1, <2>3 DEF Releases, ReleaseDecr, ReleaseZero, ReleaseStamp, Settle, Goto,
       CallFails, End
  <2>4. CASE \/ \E j \in Jobs : Fetch(l, j)
             \/ \E result \in {"failed", "queued"} : OutcomeLost(l, result)
    BY <2>1, <2>4 DEF Fetch, OutcomeLost
  <2>. QED
    BY <2>1, <2>2, <2>3, <2>4
<1>2. CASE lane[l].pc \in {"mark", "run", "decr"}
  BY <1>1, <1>2 DEF Admitted
<1>3. CASE lane'[l].pc \notin {"mark", "run", "decr"}
  BY <1>1, <1>3 DEF Admitted
<1>4. CASE lane[l].pc \notin {"mark", "run", "decr"} /\ lane'[l].pc \in {"mark", "run", "decr"}
  BY <1>1, <1>4 DEF Admitted
<1>. QED
  BY <1>2, <1>3, <1>4

LEMMA Entering ==
    ASSUME Typed, [Next]_vars
    PROVE  \/ Admitted' \subseteq Admitted
           \/ UNCHANGED misjudged
              /\ \E l \in Lanes \ Admitted : Admitted' = Admitted \cup {l}
<1>1. CASE \E l \in Lanes :
             \/ Reserves(l) \/ Runs(l) \/ Releases(l) \/ CallFails(l)
             \/ \E j \in Jobs : Fetch(l, j)
             \/ \E result \in {"failed", "queued"} : OutcomeLost(l, result)
  <2>1. UNCHANGED misjudged
    BY <1>1 DEF Reserves, CheckInterval, Take, Refresh, GiveBack, Runs, Mark, Touch, Finish,
       Releases, ReleaseDecr, ReleaseZero, ReleaseStamp, Settle, CallFails, Fetch,
       OutcomeLost
  <2>. QED
    BY <1>1, <2>1, EnteringLane
<1>2. CASE \E p \in Processes : Boots(p) \/ Crash(p)
  <2>1. \A l \in Lanes : lane'[l] = lane[l] \/ lane'[l].pc = "idle"
    BY <1>2, FreeIsOut DEF Boots, Boot, Survey, Compare, Correct, Crash
  <2>. QED
    BY <2>1 DEF Admitted
<1>3. CASE \E j \in Jobs : Stall(j)
  BY <1>3 DEF Stall, Admitted
<1>4. CASE Tick
  <2>1. \A l \in Lanes : lane'[l].pc = lane[l].pc
    BY <1>4 DEF Tick, Typed, TypeOK, LaneState
  <2>. QED
    BY <2>1 DEF Admitted
<1>5. CASE UNCHANGED vars
  BY <1>5 DEF vars, Admitted
<1>. QED
  BY <1>1, <1>2, <1>3, <1>4, <1>5 DEF Next

\* A boot's verdict is never taken back, so the abstract account stays empty after it.
LEMMA MisjudgedStays == Typed /\ [Next]_vars => (misjudged => misjudged')
<1> SUFFICES ASSUME Typed, [Next]_vars, misjudged PROVE misjudged'
  OBVIOUS
<1>. QED
  BY DEF Next, vars, Reserves, CheckInterval, Take, Refresh, GiveBack, Runs, Mark, Touch,
     Finish, Releases, ReleaseDecr, ReleaseZero, ReleaseStamp, Settle, CallFails, Fetch,
     OutcomeLost, Boots, Boot, Survey, Compare, Correct, Judge, Crash, Stall, Tick

\* Redis' counter implements the limit it is there for: seen through the lanes that
\* were admitted, every behaviour of the limiter is one of AccountLimit.
THEOREM LimitHolds == Spec => LimitKept
<1> DEFINE inside == IF misjudged THEN {} ELSE Admitted
<1>1. Init => Promise!Empty
  BY FreeIsOut DEF Init, Promise!Empty, Admitted
<1>2. Typed' /\ Counted' => ConcurrencyUnlessMisjudged'
  BY CountedSuffices, PTL
<1>3. Typed /\ Typed' /\ Counted /\ Counted' /\ [Next]_vars
        => [Promise!Enter \/ Promise!Leave]_inside
  <2> SUFFICES ASSUME Typed, Typed', Counted', [Next]_vars
               PROVE  Promise!Enter \/ Promise!Leave
    OBVIOUS
  <2>1. CASE misjudged' \/ Admitted' \subseteq Admitted
    BY <2>1, MisjudgedStays DEF Promise!Leave
  <2>2. CASE ~misjudged' /\ ~(Admitted' \subseteq Admitted)
    <3>1. PICK l \in Lanes \ Admitted : ~misjudged /\ Admitted' = Admitted \cup {l}
      BY <2>2, Entering
    <3>2. Admitted \in SUBSET Lanes /\ Admitted' \in SUBSET Lanes
      BY DEF Admitted, Lanes
    <3>3. IsFiniteSet(Admitted) /\ Cardinality(Admitted) \in Nat
          /\ Cardinality(Admitted') = Cardinality(Admitted) + 1
      BY <3>1, <3>2, LaneSets, FS_AddElement
    <3>4. Cardinality(Admitted') <= MaxConcurrent
      BY <1>2, <2>2 DEF ConcurrencyUnlessMisjudged, ConcurrencyRespected
    <3>5. Cardinality(Admitted) < MaxConcurrent
      BY <3>3, <3>4, SlotsAssumption
    <3>6. /\ (IF misjudged THEN {} ELSE Admitted) = Admitted
          /\ (IF misjudged' THEN {} ELSE Admitted') = Admitted \cup {l}
      BY <2>2, <3>1
    <3>7. l \in Lanes \ Admitted
      BY <3>1
    <3> HIDE DEF inside
    <3>. QED
      BY ONLY <3>5, <3>6, <3>7, SameCardinality DEF Promise!Enter
  <2>. QED
    BY <2>1, <2>2
<1>. QED
  BY <1>1, <1>3, CountedInit, CountedNext, TypedInit, TypedNext, PTL
     DEF Spec, LimitKept, Promise!Spec
-----------------------------------------------------------------------------
(* The interval between runs *)

\* Between the end of a run and its stamp; past the check of the stamp.
Stamping == {"decr", "zero", "stamp"}
Checked == {"take", "refresh", "mark"}

\* Without faults: no time passes between the end of a run and its stamp, which then is as
\* old as that end, and a lane past the check read it, or a run ended in this very tick.
Spaced ==
    faults = 0 =>
        /\ (\E l \in Lanes : lane[l].pc \in Stamping) => since = 0
        /\ (\A l \in Lanes : lane[l].pc \notin Stamping) /\ since < MinInterval => last = since
        /\ \A l \in Lanes : lane[l].pc \in Checked => since >= MinInterval \/ since = 0

LEMMA SpacedInit == Init => Spaced
BY SlotsAssumption DEF Init, Spaced, Free, Stamping, Checked

\* A step that takes the lanes neither out of the way to a stamp nor past the check.
LEMMA SpacedStep ==
    ASSUME Spaced, UNCHANGED <<last, since, faults>>,
           \A l \in Lanes :
              /\ lane'[l].pc \in Stamping <=> lane[l].pc \in Stamping
              /\ lane'[l].pc \in Checked => lane[l].pc \in Checked
    PROVE  Spaced'
BY DEF Spaced

\* A lane that passes the check.
LEMMA SpacedCheck ==
    ASSUME Spaced, UNCHANGED <<last, since, faults>>, NEW l \in Lanes,
           lane'[l].pc \in Checked, lane[l].pc \notin Stamping,
           since >= MinInterval \/ since = 0,
           \A m \in Lanes \ {l} : lane'[m] = lane[m]
    PROVE  Spaced'
<1>1. lane'[l].pc \notin Stamping
  BY DEF Checked, Stamping
<1>. QED
  BY <1>1 DEF Spaced

\* After a fault the interval promises nothing.
LEMMA SpacedFault == ASSUME Typed, Fault PROVE Spaced'
BY DEF Spaced, Typed, TypeOK, Fault

\* A lane goes from one place to another, whatever else it keeps.
Went(l, p) == lane'[l].pc = p /\ \A m \in Lanes \ {l} : lane'[m] = lane[m]

LEMMA FreeWent ==
    ASSUME Typed, NEW l \in Lanes, lane' = [lane EXCEPT ![l] = Free]
    PROVE  Went(l, "idle")
BY DEF Typed, TypeOK, Free, Went

LEMMA GotoWent ==
    ASSUME Typed, NEW l \in Lanes, NEW p \in LanePc, Goto(l, p)
    PROVE  Went(l, p)
<1>1. lane[l] \in LaneState
  BY DEF Typed, TypeOK
<1>2. [lane[l] EXCEPT !.pc = p].pc = p
  BY <1>1 DEF LaneState
<1>. QED
  BY <1>2, GotoTyped DEF Typed, TypeOK, Went

\* The same lane, seen by what the steps of Spaced tell apart.
LEMMA WentStep ==
    ASSUME Spaced, NEW l \in Lanes, NEW p, Went(l, p), UNCHANGED <<last, since, faults>>,
           p \in Stamping <=> lane[l].pc \in Stamping,
           p \in Checked => lane[l].pc \in Checked
    PROVE  Spaced'
BY SpacedStep DEF Went

LEMMA SpacedReserves ==
    ASSUME MinInterval <= SlotTTL, Typed, Spaced, NEW l \in Lanes, Reserves(l)
    PROVE  Spaced'
<1> USE DEF Stamping, Checked
<1>1. CASE CheckInterval(l)
  <2>1. CASE last < SlotTTL /\ last < MinInterval
    <3>1. Went(l, "idle")
      BY <1>1, <2>1, FreeWent DEF CheckInterval, Postpone
    <3>. QED
      BY <1>1, <3>1, WentStep DEF CheckInterval, At
  <2>2. CASE ~(last < SlotTTL /\ last < MinInterval)
    <3>1. Went(l, "take")
      BY <1>1, <2>2, GotoWent DEF CheckInterval, LanePc
    <3>2. ASSUME faults = 0 PROVE since >= MinInterval \/ since = 0
      <4>1. last \in Int /\ since \in Int /\ MinInterval \in Int /\ SlotTTL \in Int
        BY SlotsAssumption DEF Typed, TypeOK
      <4>2. last >= MinInterval
        BY <2>2, <4>1
      <4>. QED
        BY <3>2, <4>1, <4>2 DEF Spaced
    <3>3. UNCHANGED <<last, since, faults>> /\ lane[l].pc = "interval"
      BY <1>1 DEF CheckInterval, At
    <3>4. CASE faults = 0
      BY <3>1, <3>2, <3>3, <3>4, SpacedCheck DEF Went
    <3>5. CASE faults # 0
      BY <3>3, <3>5 DEF Spaced
    <3>. QED
      BY <3>4, <3>5
  <2>. QED
    BY <2>1, <2>2
<1>2. CASE Take(l)
  <2> DEFINE v == [lane[l] EXCEPT !.pc = "refresh", !.seen = slots.count + 1]
  <2>1. lane' = [lane EXCEPT ![l] = v]
    BY <1>2 DEF Take
  <2>2. v.pc = "refresh"
    BY DEF Typed, TypeOK, LaneState
  <2> HIDE DEF v
  <2>3. Went(l, "refresh")
    BY <2>1, <2>2 DEF Typed, TypeOK, Went
  <2>. QED
    BY <1>2, <2>3, WentStep DEF Take, At
<1>3. CASE Refresh(l)
  <2>1. PICK p \in {"giveBack", "mark"} : Goto(l, p)
    BY <1>3 DEF Refresh
  <2>2. Went(l, p)
    BY <2>1, GotoWent DEF LanePc
  <2>. QED
    BY <1>3, <2>2, WentStep DEF Refresh, At
<1>4. CASE GiveBack(l)
  <2>1. Went(l, "idle")
    BY <1>4, FreeWent DEF GiveBack, Postpone
  <2>. QED
    BY <1>4, <2>1, WentStep DEF GiveBack, At
<1>. QED
  BY <1>1, <1>2, <1>3, <1>4 DEF Reserves

LEMMA SpacedFetch ==
    ASSUME Typed, Spaced, NEW l \in Lanes, NEW j \in Jobs, Fetch(l, j)
    PROVE  Spaced'
<1>1. PICK p \in {"settle", "interval", "take"} :
        /\ lane' = [lane EXCEPT ![l] = [Free EXCEPT !.job = j, !.pc = p]]
        /\ p = "take" => ~(MinInterval > 0)
  BY DEF Fetch
<1>2. [Free EXCEPT !.job = j, !.pc = p].pc = p
  BY DEF Free
<1>3. Went(l, p)
  BY <1>1, <1>2 DEF Typed, TypeOK, Went
<1>4. UNCHANGED <<last, since, faults>> /\ lane[l].pc = "idle"
  BY DEF Fetch, At
<1>5. CASE p = "take"
  <2>1. since >= MinInterval
    BY <1>1, <1>5, SlotsAssumption DEF Typed, TypeOK
  <2>. QED
    BY <1>3, <1>4, <1>5, <2>1, SpacedCheck DEF Went, Checked, Stamping
<1>6. CASE p # "take"
  BY <1>3, <1>4, <1>6, WentStep DEF Checked, Stamping
<1>. QED
  BY <1>5, <1>6

LEMMA SpacedRuns ==
    ASSUME Typed, Spaced, NEW l \in Lanes, Runs(l)
    PROVE  Spaced'
<1> USE DEF Stamping, Checked
<1>0. lane[l] \in LaneState
  BY DEF Typed, TypeOK
<1>1. CASE Mark(l)
  <2>1. Went(l, "run")
    <3>1. [lane[l] EXCEPT !.pc = "run", !.beat = Heartbeat].pc = "run"
      BY <1>0 DEF LaneState
    <3>. QED
      BY <1>1, <3>1 DEF Mark, Went, Typed, TypeOK
  <2>. QED
    BY <1>1, <2>1, WentStep DEF Mark, At
<1>2. CASE Touch(l)
  <2>1. Went(l, "run")
    <3>1. [lane[l] EXCEPT !.beat = Heartbeat].pc = "run"
      BY <1>0, <1>2 DEF LaneState, Touch, At
    <3>. QED
      BY <1>2, <3>1 DEF Touch, Went, Typed, TypeOK
  <2>. QED
    BY <1>2, <2>1, WentStep DEF Touch, At
<1>3. ASSUME NEW r \in Result, Finish(l, r) PROVE Spaced'
  <2>1. [lane[l] EXCEPT !.pc = "decr", !.result = r].pc = "decr"
    BY <1>0 DEF LaneState
  <2>2. lane'[l].pc = "decr"
    BY <1>3, <2>1 DEF Finish, Typed, TypeOK
  <2>3. since' = 0
    BY <1>3 DEF Finish
  <2>. QED
    BY <2>2, <2>3 DEF Spaced
<1>. QED
  BY <1>1, <1>2, <1>3 DEF Runs

LEMMA SpacedReleases ==
    ASSUME Typed, Spaced, NEW l \in Lanes, Releases(l)
    PROVE  Spaced'
<1> USE DEF Stamping, Checked
<1>1. CASE ReleaseDecr(l)
  <2>1. PICK p \in {"zero", "stamp"} : Goto(l, p)
    BY <1>1 DEF ReleaseDecr
  <2>2. Went(l, p)
    BY <2>1, GotoWent DEF LanePc
  <2>. QED
    BY <1>1, <2>2, WentStep DEF ReleaseDecr, At
<1>2. CASE ReleaseZero(l)
  <2>1. Went(l, "stamp")
    BY <1>2, GotoWent DEF ReleaseZero, LanePc
  <2>. QED
    BY <1>2, <2>1, WentStep DEF ReleaseZero, At
<1>3. CASE ReleaseStamp(l)
  <2>1. Went(l, "settle")
    BY <1>3, GotoWent DEF ReleaseStamp, LanePc
  <2>2. lane[l].pc = "stamp" /\ last' = 0 /\ UNCHANGED <<since, faults>>
    BY <1>3 DEF ReleaseStamp, At
  <2>3. faults = 0 => since = 0
    BY <2>2 DEF Spaced
  <2>. QED
    BY <2>1, <2>2, <2>3 DEF Spaced, Went
<1>4. CASE Settle(l)
  <2>1. Went(l, "idle")
    BY <1>4, FreeWent DEF Settle
  <2>. QED
    BY <1>4, <2>1, WentStep DEF Settle, At
<1>. QED
  BY <1>1, <1>2, <1>3, <1>4 DEF Releases

LEMMA SpacedTick ==
    ASSUME MinInterval <= SlotTTL, Typed, Spaced, Tick
    PROVE  Spaced'
<1>1. ASSUME NEW l \in Lanes
      PROVE  lane[l].pc \in {"idle", "run"} /\ lane'[l].pc = lane[l].pc
  <2>1. lane[l] \in LaneState
    BY DEF Typed, TypeOK
  <2>2. [lane[l] EXCEPT !.beat = @ - 1].pc = lane[l].pc
    BY <2>1 DEF LaneState
  <2>. QED
    BY <2>2 DEF Tick, At
<1>2. \A l \in Lanes : lane[l].pc \notin Stamping /\ lane'[l].pc \notin Stamping
                          /\ lane'[l].pc \notin Checked
  BY <1>1 DEF Stamping, Checked
<1>3. /\ last' = IF last < SlotTTL THEN last + 1 ELSE last
      /\ since' = IF since < MinInterval THEN since + 1 ELSE since
      /\ faults' = faults
  BY DEF Tick
<1>4. faults = 0 /\ since < MinInterval => last = since
  BY <1>2 DEF Spaced
<1>5. last \in Int /\ since \in Int /\ MinInterval \in Int /\ SlotTTL \in Int
  BY SlotsAssumption DEF Typed, TypeOK
<1>6. faults' = 0 /\ since' < MinInterval => last' = since'
  BY <1>3, <1>4, <1>5
<1>. QED
  BY <1>2, <1>6 DEF Spaced

LEMMA SpacedNext ==
    ASSUME MinInterval <= SlotTTL, Typed, Spaced, [Next]_vars
    PROVE  Spaced'
<1>1. CASE UNCHANGED vars
  BY <1>1 DEF vars, Spaced
<1>2. ASSUME NEW l \in Lanes, Reserves(l) \/ Runs(l) \/ Releases(l) PROVE Spaced'
  BY <1>2, SpacedReserves, SpacedRuns, SpacedReleases
<1>3. ASSUME NEW l \in Lanes, NEW j \in Jobs, Fetch(l, j) PROVE Spaced'
  BY <1>3, SpacedFetch
<1>4. ASSUME NEW l \in Lanes, CallFails(l) \/ \E r \in {"failed", "queued"} : OutcomeLost(l, r)
      PROVE  Spaced'
  BY <1>4, SpacedFault DEF CallFails, OutcomeLost
<1>5. ASSUME NEW p \in Processes, Boots(p) PROVE Spaced'
  BY <1>5, SpacedStep DEF Boots, Boot, Survey, Compare, Correct
<1>6. ASSUME NEW p \in Processes, Crash(p) PROVE Spaced'
  BY <1>6, SpacedFault DEF Crash
<1>7. ASSUME NEW j \in Jobs, Stall(j) PROVE Spaced'
  BY <1>7, SpacedStep DEF Stall
<1>8. CASE Tick
  BY <1>8, SpacedTick
<1>. QED
  BY <1>1, <1>2, <1>3, <1>4, <1>5, <1>6, <1>7, <1>8 DEF Next

\* While nothing fails, a run of the account starts no sooner than the interval after the
\* last end, or in the very tick of an end it could not have seen (rateLimiter.ts:38-48 and
\* 79).  The stamp lives for SLOT_TTL_SECONDS: a longer interval than that is not kept,
\* hence the hypothesis.
THEOREM SpacingHolds == ASSUME MinInterval <= SlotTTL PROVE Spec => SpacingUnlessCrossed
<1>1. ASSUME Typed, Spaced, [Next]_vars
      PROVE  [\A l \in Lanes : lane[l].pc = "mark" /\ lane'[l].pc = "run"
                 => since >= MinInterval \/ since = 0 \/ faults > 0]_vars
  BY <1>1 DEF Spaced, Checked, Typed, TypeOK
<1>2. Typed /\ Spaced /\ [Next]_vars => Typed' /\ Spaced'
  BY TypedNext, SpacedNext
<1>3. Init => Typed /\ Spaced
  BY TypedInit, SpacedInit
<1>. QED
  BY <1>1, <1>2, <1>3, PTL DEF Spec, SpacingUnlessCrossed
=============================================================================
