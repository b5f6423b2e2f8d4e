--------------------------- MODULE DevicesProofs ---------------------------
(***************************************************************************)
(* Proofs about Devices, for any number of jobs, accounts and cameras, any *)
(* configurations, and any bounds on runs and faults.                      *)
(***************************************************************************)
EXTENDS Devices, TLAPS

\* The histories are only ever listed together.
USE DEF hist

\* Where containers are made, and where the device is as good as handed over.
Making == {"bridgeRun", "gateRun", "deviceRun"}
Handed == {"verify", "package", "ready"}

\* What happens to a container that nobody makes in this step.
Later(j, r) ==
    \/ ~Present(j, r)'
    \/ /\ Present(j, r) /\ box'[j][r].gen = box[j][r].gen
       /\ Up(j, r)' => Up(j, r)
       /\ box[j][r].pinned => box'[j][r].pinned
       /\ box'[j][r].old => box[j][r].old \/ reaper.pc = "idle"

Fresh(j, r) ==
    /\ run[j].pc \in Making /\ ~Present(j, r)
    /\ box'[j][r].gen = run[j].gen /\ ~box'[j][r].old

\* A container belongs to a run that was; the sweep knows containers of such runs only.
Made ==
    /\ \A j \in Jobs :
          /\ run[j].gen <= runs /\ (Running(j) => run[j].gen # 0)
          /\ \A r \in Roles : Present(j, r) => box[j][r].gen \in 1 .. run[j].gen
    /\ reaper.pc \in {"ask", "free"} => reaper.next \in Cameras
    /\ \A b \in reaper.todo \cup reaper.at : b.gen <= run[b.job].gen

Typed == TypeOK /\ Made

-----------------------------------------------------------------------------
(* What a step does *)

\* docker rm: the container is gone, or marked as one that could not be removed.
LEMMA Removed ==
    ASSUME TypeOK, NEW j \in Jobs, NEW r \in Roles, Remove(j, r)
    PROVE  /\ box' \in [Jobs -> [Roles -> Box]] /\ faults' \in 0 .. MaxFaults
           /\ \A k \in Jobs, q \in Roles : k # j \/ q # r => box'[k][q] = box[k][q]
           /\ \A k \in Jobs \ {j} : box'[k] = box[k]
           /\ \A q \in Roles : Later(j, q)
<1>1. box \in [Jobs -> [Roles -> Box]] /\ faults \in 0 .. MaxFaults /\ box[j][r] \in Box
  BY DEF TypeOK
<1>2. NoBox \in Box /\ NoBox.state = "none"
  BY BoundAssumption DEF NoBox, Box
<1>3. [box[j][r] EXCEPT !.stray = TRUE] \in Box
  BY <1>1 DEF Box
<1>4. faults' \in 0 .. MaxFaults
  BY <1>1, BoundAssumption DEF Remove, RemoveSucceeds, RemoveFails, Fault
<1>5. CASE RemoveSucceeds(j, r)
  BY <1>1, <1>2, <1>4, <1>5 DEF RemoveSucceeds, Later, Present, Up
<1>6. CASE RemoveFails(j, r)
  <2>1. box' = [box EXCEPT ![j][r].stray = TRUE]
    BY <1>6 DEF RemoveFails
  <2>2. box' = [box EXCEPT ![j] = [box[j] EXCEPT ![r] = [box[j][r] EXCEPT !.stray = TRUE]]]
    BY <2>1
  <2>3. /\ box' \in [Jobs -> [Roles -> Box]]
        /\ \A k \in Jobs, q \in Roles : k # j \/ q # r => box'[k][q] = box[k][q]
        /\ \A k \in Jobs \ {j} : box'[k] = box[k]
        /\ box'[j][r] = [box[j][r] EXCEPT !.stray = TRUE]
    BY <1>1, <1>3, <2>2
  <2>4. /\ box'[j][r].state = box[j][r].state /\ box'[j][r].gen = box[j][r].gen
        /\ box'[j][r].pinned = box[j][r].pinned /\ box'[j][r].old = box[j][r].old
    BY <1>1, <2>3 DEF Box
  <2>5. Later(j, r)
    BY <2>4 DEF Later, Present, Up
  <2>6. \A q \in Roles \ {r} : Later(j, q)
    BY <2>3 DEF Later, Present, Up
  <2>. QED
    BY <1>4, <2>3, <2>5, <2>6
<1>. QED
  BY <1>5, <1>6 DEF Remove

\* docker run, which leaves something or nothing.
LEMMA Started ==
    ASSUME Typed, NEW j \in Jobs, NEW r \in Roles, NEW cam \in 0 .. PoolSize,
           run[j].pc \in Making,
           (RunSucceeds(j, r, cam) /\ UNCHANGED faults) \/ RunFails(j, r, cam)
    PROVE  /\ box' \in [Jobs -> [Roles -> Box]] /\ faults' \in 0 .. MaxFaults
           /\ \A k \in Jobs \ {j} : box'[k] = box[k]
           /\ \A q \in Roles : Later(j, q) \/ Fresh(j, q)
<1>1. box \in [Jobs -> [Roles -> Box]] /\ faults \in 0 .. MaxFaults /\ box[j] \in [Roles -> Box]
  BY DEF Typed, TypeOK
<1>2. faults' \in 0 .. MaxFaults
  <2>1. faults' = faults \/ (faults < MaxFaults /\ faults' = faults + 1)
    BY DEF RunFails, Fault
  <2>. QED
    BY <1>1, <2>1, BoundAssumption
<1>3. CASE UNCHANGED box
  BY <1>1, <1>2, <1>3 DEF Later, Present, Up
<1>4. ASSUME NEW s \in {"up", "down"}, NEW stray \in BOOLEAN, ~Present(j, r),
             box' = [box EXCEPT ![j][r] = New(j, cam, s, stray)]
      PROVE  /\ box' \in [Jobs -> [Roles -> Box]]
             /\ \A k \in Jobs \ {j} : box'[k] = box[k]
             /\ \A q \in Roles : Later(j, q) \/ Fresh(j, q)
  <2>1. run[j].gen \in 0 .. MaxRuns
    BY DEF Typed, TypeOK, Run
  <2>2. /\ New(j, cam, s, stray) \in Box
        /\ New(j, cam, s, stray).gen = run[j].gen /\ ~New(j, cam, s, stray).old
    BY <2>1 DEF New, NoBox, Box
  <2>3. /\ box' \in [Jobs -> [Roles -> Box]]
        /\ \A k \in Jobs \ {j} : box'[k] = box[k]
        /\ \A q \in Roles \ {r} : box'[j][q] = box[j][q]
        /\ box'[j][r] = New(j, cam, s, stray)
    BY <1>1, <1>4, <2>2
  <2>4. Fresh(j, r)
    BY <1>4, <2>2, <2>3 DEF Fresh
  <2>5. \A q \in Roles \ {r} : Later(j, q)
    BY <2>3 DEF Later, Present, Up
  <2>. QED
    BY <2>3, <2>4, <2>5
<1>. QED
  BY <1>2, <1>3, <1>4 DEF RunSucceeds, RunFails

\* A step of a run, seen from outside: the containers, where it goes on, the rest.
Boxed(j) ==
    /\ box' \in [Jobs -> [Roles -> Box]] /\ \A k \in Jobs \ {j} : box'[k] = box[k]
    /\ \A r \in Roles : Later(j, r) \/ Fresh(j, r)
    /\ faults' \in 0 .. MaxFaults

WentTo(j, pcs) ==
    /\ run' \in [Jobs -> Run] /\ \A k \in Jobs \ {j} : run'[k] = run[k]
    /\ run'[j].gen = run[j].gen /\ run'[j].pc \in pcs

\* The check is passed: the account's other runs past theirs are on record.
Passes(j) ==
    /\ At(j, "refuse") /\ Others(j) = {}
    /\ raced' = raced \cup {{RunOf(j), RunOf(k)} : k \in Crossing(j)}

Moves(j) ==
    /\ UNCHANGED <<job, cancelled, reaper, stranded, crossed, disowned, runs>>
    /\ Boxed(j) /\ Running(j)
    /\ raced \subseteq raced' /\ raced' \subseteq SUBSET (Jobs \X (0 .. MaxRuns))
    /\ lease' \in [Cameras -> Jobs \cup {NoJob}]
    /\ direct' \in {"unset", "known", "unknown"} /\ (direct = "unknown" => direct' = "unknown")
    /\ \/ WentTo(j, InProgress) /\ live' = live
       \/ WentTo(j, {"idle"}) /\ live' = live \ {j}
    /\ run'[j].pc \in Past => run[j].pc \in Past \/ Passes(j)
    /\ run'[j].pc \in Handed => Usable(j) \/ Pin(j) \/ Verify(j) \/ Package(j)

LEMMA Goes ==
    ASSUME TypeOK, NEW j \in Jobs, NEW pc \in InProgress, Goto(j, pc)
    PROVE  WentTo(j, {pc})
<1>1. run \in [Jobs -> Run] /\ run' = [run EXCEPT ![j] = [run[j] EXCEPT !.pc = pc]]
  BY DEF TypeOK, Goto
<1>2. [run[j] EXCEPT !.pc = pc] \in Run
  BY <1>1 DEF Run
<1>3. run'[j] = [run[j] EXCEPT !.pc = pc] /\ run[j] \in Run
  BY <1>1
<1>4. run'[j].gen = run[j].gen /\ run'[j].pc = pc
  BY <1>3 DEF Run
<1>. QED
  BY <1>1, <1>2, <1>4 DEF WentTo

LEMMA WentSet ==
    ASSUME TypeOK, NEW j \in Jobs, NEW n \in Run, n.gen = run[j].gen,
           run' = [run EXCEPT ![j] = n]
    PROVE  WentTo(j, {n.pc})
BY DEF TypeOK, WentTo

\* Steps that leave Docker alone.
LEMMA BoxesLeft == ASSUME TypeOK, UNCHANGED <<box, faults>> PROVE \A j \in Jobs : Boxed(j)
BY DEF Later, Present, Up, Boxed, TypeOK

LEMMA BoxRemoved ==
    ASSUME TypeOK, NEW j \in Jobs, NEW r \in Roles, Remove(j, r)
    PROVE  Boxed(j)
BY Removed DEF Boxed

LEMMA BoxStarted ==
    ASSUME Typed, NEW j \in Jobs, NEW r \in Roles, NEW cam \in 0 .. PoolSize,
           run[j].pc \in Making,
           (RunSucceeds(j, r, cam) /\ UNCHANGED faults) \/ RunFails(j, r, cam)
    PROVE  Boxed(j)
BY Started DEF Boxed

\* A step within Past, or out of it, that is none of the last four.
LEMMA MovesOn ==
    ASSUME TypeOK, NEW j \in Jobs, Boxed(j), run[j].pc \in InProgress,
           NEW pcs \in SUBSET (InProgress \ Handed), WentTo(j, pcs),
           UNCHANGED <<job, live, cancelled, reaper, direct, hist, runs>>,
           lease' \in [Cameras -> Jobs \cup {NoJob}],
           run[j].pc \in Past \/ pcs \cap Past = {}
    PROVE  Moves(j)
BY DEF Moves, WentTo, Running, TypeOK

LEMMA MovesCamera ==
    ASSUME Typed, NEW j \in Jobs, AcquireCamera(j)
    PROVE  Moves(j)
<1>0. /\ TypeOK /\ lease \in [Cameras -> Jobs \cup {NoJob}] /\ run \in [Jobs -> Run]
      /\ run[j].cam \in 0 .. PoolSize
      /\ {"bridge", "bridgeRun", "feed", "gate", "deviceRun", "grant", "lease", "dropDevice"}
           \subseteq InProgress \ Handed
  BY DEF Typed, TypeOK, Run, InProgress, AcquirePc, ReleasePc, Handed
<1>1. CASE Grant(j)
  <2>1. WentTo(j, {"lease"})
    BY <1>0, <1>1, Goes DEF Grant
  <2>. QED
    BY <1>0, <1>1, <2>1, MovesOn, BoxesLeft DEF Grant, At, Past, AcquirePc, ReleasePc
<1>2. CASE TryCamera(j)
  <2>1. WentTo(j, {"dropDevice", "bridge", "lease"})
    <3>1. PICK c \in 0 .. PoolSize + 1 : c = run[j].next
      BY <1>0 DEF Run
    <3>2. CASE Goto(j, "dropDevice")
      BY <1>0, <3>2, Goes DEF WentTo
    <3>0. run[j] \in Run /\ (c \in Cameras => c \in 0 .. PoolSize /\ c + 1 \in 0 .. PoolSize + 1)
      BY <1>0, <3>1, BoundAssumption DEF Cameras
    <3>3. ASSUME c \in Cameras, run' = [run EXCEPT ![j].pc = "bridge", ![j].cam = c]
          PROVE  WentTo(j, {"bridge"})
      <4>1. [run[j] EXCEPT !.pc = "bridge", !.cam = c] \in Run
        BY <1>0, <3>0, <3>3 DEF Run
      <4>. QED
        <5>1. run' = [run EXCEPT ![j] = [run[j] EXCEPT !.pc = "bridge", !.cam = c]]
          BY <3>3
        <5>2. /\ [run[j] EXCEPT !.pc = "bridge", !.cam = c].gen = run[j].gen
              /\ [run[j] EXCEPT !.pc = "bridge", !.cam = c].pc = "bridge"
          BY <3>0 DEF Run
        <5>. QED
          BY <1>0, <4>1, <5>1, <5>2, WentSet
    <3>4. ASSUME c \in Cameras, run' = [run EXCEPT ![j].next = c + 1]
          PROVE  WentTo(j, {"lease"})
      <4>1. [run[j] EXCEPT !.next = c + 1] \in Run
        BY <3>0, <3>4 DEF Run
      <4>. QED
        <5>1. run' = [run EXCEPT ![j] = [run[j] EXCEPT !.next = c + 1]]
          BY <3>4
        <5>2. /\ [run[j] EXCEPT !.next = c + 1].gen = run[j].gen
              /\ [run[j] EXCEPT !.next = c + 1].pc = "lease"
          BY <1>2, <3>0 DEF Run, TryCamera, At
        <5>. QED
          BY <1>0, <4>1, <5>1, <5>2, WentSet
    <3>. QED
      BY <1>2, <3>1, <3>2, <3>3, <3>4 DEF TryCamera, WentTo
  <2>2. lease' \in [Cameras -> Jobs \cup {NoJob}]
    BY <1>0, <1>2 DEF TryCamera
  <2>. QED
    BY <1>0, <1>2, <2>1, <2>2, MovesOn, BoxesLeft DEF TryCamera, At, Past, AcquirePc, ReleasePc
<1>3. CASE ClearBridge(j)
  <2>1. WentTo(j, {"bridgeRun"}) /\ Boxed(j)
    BY <1>0, <1>3, Goes, BoxRemoved DEF ClearBridge, Roles
  <2>. QED
    BY <1>0, <1>3, <2>1, MovesOn DEF ClearBridge, At, Past, AcquirePc, ReleasePc
<1>4. CASE RunBridge(j)
  <2>1. Goto(j, "feed") \/ Goto(j, "dropDevice")
    BY <1>4 DEF RunBridge
  <2>2. WentTo(j, {"feed", "dropDevice"})
    BY <1>0, <2>1, Goes DEF WentTo
  <2>3. Boxed(j)
    BY <1>0, <1>4, BoxStarted DEF RunBridge, At, Making, Roles
  <2>. QED
    BY <1>0, <1>4, <2>2, <2>3, MovesOn DEF RunBridge, At, Past, AcquirePc, ReleasePc
<1>5. CASE Feed(j)
  <2>1. WentTo(j, {"gate", "deviceRun", "dropDevice"})
    BY <1>0, <1>5 DEF Feed, AfterCamera, Goto, At, WentTo, Run
  <2>2. Boxed(j)
    BY <1>0, <1>5, BoxRemoved, BoxesLeft DEF Feed, Roles
  <2>. QED
    BY <1>0, <1>5, <2>1, <2>2, MovesOn DEF Feed, At, Past, AcquirePc, ReleasePc
<1>. QED
  BY <1>1, <1>2, <1>3, <1>4, <1>5 DEF AcquireCamera

LEMMA MovesGateway ==
    ASSUME Typed, NEW j \in Jobs, AcquireGateway(j)
    PROVE  Moves(j)
<1>0. /\ TypeOK /\ lease \in [Cameras -> Jobs \cup {NoJob}] /\ run \in [Jobs -> Run]
      /\ {"gateRun", "gateSettle", "gate", "deviceRun", "dropDevice", "settle"}
           \subseteq InProgress \ Handed
      /\ 0 \in 0 .. PoolSize
  BY BoundAssumption DEF Typed, TypeOK, InProgress, AcquirePc, ReleasePc, Handed
<1>1. CASE ClearGateway(j)
  <2>1. WentTo(j, {"gateRun"}) /\ Boxed(j)
    BY <1>0, <1>1, Goes, BoxRemoved DEF ClearGateway, Roles
  <2>. QED
    BY <1>0, <1>1, <2>1, MovesOn DEF ClearGateway, At, Past, AcquirePc, ReleasePc
<1>2. CASE RunGateway(j)
  <2>1. Goto(j, "gateSettle") \/ Goto(j, "dropDevice") \/ Goto(j, "settle")
    BY <1>2 DEF RunGateway, GatewayFailed
  <2>2. WentTo(j, {"gateSettle", "dropDevice", "settle"})
    BY <1>0, <2>1, Goes DEF WentTo
  <2>3. Boxed(j)
    BY <1>0, <1>2, BoxStarted DEF RunGateway, At, Making, Roles
  <2>. QED
    BY <1>0, <1>2, <2>2, <2>3, MovesOn DEF RunGateway, At, Past, AcquirePc, ReleasePc
<1>3. CASE SettleGateway(j)
  <2>1. WentTo(j, {"deviceRun", "dropDevice", "settle"})
    BY <1>0, <1>3 DEF SettleGateway, GatewayFailed, Goto, At, WentTo, Run
  <2>2. Boxed(j)
    BY <1>0, <1>3, BoxRemoved, BoxesLeft DEF SettleGateway, Roles
  <2>. QED
    BY <1>0, <1>3, <2>1, <2>2, MovesOn DEF SettleGateway, At, Past, AcquirePc, ReleasePc
<1>. QED
  BY <1>1, <1>2, <1>3 DEF AcquireGateway

LEMMA MovesDevice ==
    ASSUME Typed, NEW j \in Jobs, AcquireDevice(j)
    PROVE  Moves(j)
<1>0. /\ TypeOK /\ lease \in [Cameras -> Jobs \cup {NoJob}] /\ run \in [Jobs -> Run]
      /\ run[j].cam \in 0 .. PoolSize
      /\ {"clear", "settle", "grant", "gate", "deviceRun", "usable", "dropDevice", "pin"}
           \subseteq InProgress \ Handed
      /\ Handed \subseteq InProgress /\ direct \in {"unset", "known", "unknown"}
      /\ raced \subseteq SUBSET (Jobs \X (0 .. MaxRuns))
  BY DEF Typed, TypeOK, Run, InProgress, AcquirePc, ReleasePc, Handed
<1>1. CASE Refuse(j)
  <2>0. run[j].pc \in InProgress
    BY <1>1 DEF Refuse, At, InProgress, AcquirePc
  <2>1. CASE Others(j) = {}
    <3>1. WentTo(j, {"clear"}) /\ Passes(j)
      BY <1>0, <1>1, <2>1, Goes DEF Refuse, Passes
    <3>2. raced' \subseteq SUBSET (Jobs \X (0 .. MaxRuns))
      <4>1. \A k \in Jobs : RunOf(k) \in Jobs \X (0 .. MaxRuns)
        BY <1>0 DEF RunOf, Run
      <4>2. \A k \in Crossing(j) : k \in Jobs
        BY DEF Crossing
      <4>3. {{RunOf(j), RunOf(k)} : k \in Crossing(j)} \subseteq SUBSET (Jobs \X (0 .. MaxRuns))
        BY <4>1, <4>2
      <4>. QED
        BY <3>1, <4>3 DEF Passes, Typed, TypeOK
    <3>3. raced \subseteq raced'
      BY <3>1 DEF Passes
    <3>4. run'[j].pc \notin Handed
      BY <3>1 DEF WentTo, Handed
    <3>. QED
      BY <1>0, <1>1, <2>0, <3>1, <3>2, <3>3, <3>4, BoxesLeft DEF Refuse, Moves, WentTo, Running
  <2>2. CASE Others(j) # {}
    <3>1. WentTo(j, {"settle"})
      BY <1>0, <1>1, <2>2, Goes DEF Refuse
    <3>2. {"settle"} \cap Past = {}
      BY DEF Past, AcquirePc
    <3>. QED
      BY <1>0, <1>1, <2>0, <2>2, <3>1, <3>2, MovesOn, BoxesLeft DEF Refuse
  <2>. QED
    BY <2>1, <2>2
<1>2. CASE ClearDevice(j)
  <2>1. PICK pc \in {"grant", "gate", "deviceRun"} : Goto(j, pc)
    BY <1>2 DEF ClearDevice, AfterCamera
  <2>2. WentTo(j, {pc}) /\ Boxed(j)
    BY <1>0, <1>2, <2>1, Goes, BoxRemoved DEF ClearDevice, Roles
  <2>. QED
    BY <1>0, <1>2, <2>2, MovesOn DEF ClearDevice, At, Past, AcquirePc, ReleasePc
<1>3. CASE RunDevice(j)
  <2>1. PICK pc \in {"usable", "dropDevice"} : Goto(j, pc)
    BY <1>3 DEF RunDevice
  <2>2. WentTo(j, {pc})
    BY <1>0, <2>1, Goes
  <2>3. Boxed(j)
    BY <1>0, <1>3, BoxStarted DEF RunDevice, At, Making, Roles
  <2>. QED
    BY <1>0, <1>3, <2>2, <2>3, MovesOn DEF RunDevice, At, Past, AcquirePc, ReleasePc
<1>4. CASE Usable(j)
  <2>1. PICK pc \in {"pin", "package"} : Goto(j, pc)
    BY <1>4 DEF Usable
  <2>2. WentTo(j, {pc}) /\ pc \in InProgress
    BY <1>0, <2>1, Goes DEF Handed
  <2>. QED
    BY <1>0, <1>4, <2>2, BoxesLeft DEF Usable, Moves, At, Running, WentTo, Past, InProgress,
       AcquirePc
<1>5. CASE Pin(j)
  <2>1. WentTo(j, {"verify"})
    BY <1>0, <1>5, Goes DEF Pin, Handed
  <2>2. Boxed(j)
    <3>1. CASE UNCHANGED box
      BY <1>0, <1>5, <3>1, BoxesLeft DEF Pin
    <3>2. CASE box' = [box EXCEPT ![j]["gateway"].pinned = TRUE] /\ Up(j, "gateway")
      <4>1. box \in [Jobs -> [Roles -> Box]] /\ box[j]["gateway"] \in Box /\ "gateway" \in Roles
        BY <1>0 DEF TypeOK, Roles
      <4>2. [box[j]["gateway"] EXCEPT !.pinned = TRUE] \in Box
        BY <4>1 DEF Box
      <4>3. box' = [box EXCEPT ![j] = [box[j] EXCEPT
                       !["gateway"] = [box[j]["gateway"] EXCEPT !.pinned = TRUE]]]
        BY <3>2
      <4>4. /\ box' \in [Jobs -> [Roles -> Box]] /\ \A k \in Jobs \ {j} : box'[k] = box[k]
            /\ \A r \in Roles \ {"gateway"} : box'[j][r] = box[j][r]
            /\ box'[j]["gateway"] = [box[j]["gateway"] EXCEPT !.pinned = TRUE]
        BY <4>1, <4>2, <4>3
      <4>5. /\ box'[j]["gateway"].state = box[j]["gateway"].state
            /\ box'[j]["gateway"].gen = box[j]["gateway"].gen
            /\ box'[j]["gateway"].old = box[j]["gateway"].old /\ box'[j]["gateway"].pinned
        BY <4>1, <4>4 DEF Box
      <4>6. Later(j, "gateway")
        BY <4>5 DEF Later, Present, Up
      <4>7. \A r \in Roles \ {"gateway"} : Later(j, r)
        BY <4>4 DEF Later, Present, Up
      <4>. QED
        BY <1>0, <1>5, <4>4, <4>6, <4>7 DEF Boxed, Pin, TypeOK
    <3>. QED
      BY <1>5, <3>1, <3>2 DEF Pin
  <2>. QED
    BY <1>0, <1>5, <2>1, <2>2 DEF Pin, Moves, At, Running, WentTo, Past, InProgress, AcquirePc
<1>6. CASE Verify(j)
  <2>1. PICK pc \in {"package", "dropDevice"} : Goto(j, pc)
    BY <1>6 DEF Verify
  <2>2. WentTo(j, {pc}) /\ pc \in InProgress
    BY <1>0, <2>1, Goes DEF Handed
  <2>3. direct' \in {"unset", "known", "unknown"} /\ (direct = "unknown" => direct' = "unknown")
    BY <1>0, <1>6 DEF Verify
  <2>. QED
    BY <1>0, <1>6, <2>2, <2>3, BoxesLeft DEF Verify, Moves, At, Running, WentTo, Past,
       InProgress, AcquirePc
<1>7. CASE Package(j)
  <2>1. WentTo(j, {"ready"})
    BY <1>0, <1>7, Goes DEF Package, Handed
  <2>. QED
    BY <1>0, <1>7, <2>1, BoxesLeft DEF Package, Moves, At, Running, WentTo, Past, InProgress,
       AcquirePc
<1>8. CASE AcquireThrows(j)
  <2>1. PICK pc \in {"settle", "dropDevice"} :
           Goto(j, pc) /\ (run[j].pc = "refuse" => pc = "settle")
    BY <1>8 DEF AcquireThrows
  <2>2. WentTo(j, {pc})
    BY <1>0, <2>1, Goes
  <2>3. /\ run[j].pc \in InProgress
        /\ run[j].pc \in Past \/ {pc} \cap Past = {}
    BY <1>8, <2>1 DEF AcquireThrows, Past, InProgress, AcquirePc, ReleasePc
  <2>. QED
    BY <1>0, <1>8, <2>2, <2>3, MovesOn, BoxesLeft DEF AcquireThrows
<1>. QED
  BY <1>1, <1>2, <1>3, <1>4, <1>5, <1>6, <1>7, <1>8 DEF AcquireDevice

LEMMA MovesRelease ==
    ASSUME Typed, NEW j \in Jobs, Drive(j) \/ Release(j)
    PROVE  Moves(j)
<1>0. /\ TypeOK /\ lease \in [Cameras -> Jobs \cup {NoJob}] /\ run \in [Jobs -> Run]
      /\ {"dropDevice", "dropBridge", "dropLease", "dropGate", "settle"}
           \subseteq InProgress \ Handed
      /\ direct \in {"unset", "known", "unknown"}
      /\ raced \subseteq SUBSET (Jobs \X (0 .. MaxRuns))
  BY DEF Typed, TypeOK, Past, InProgress, AcquirePc, ReleasePc, Handed
<1>1. CASE Drive(j)
  <2>1. WentTo(j, {"dropDevice"})
    BY <1>0, <1>1, Goes DEF Drive
  <2>. QED
    BY <1>0, <1>1, <2>1, MovesOn, BoxesLeft DEF Drive, At, Past, InProgress, AcquirePc,
       ReleasePc
<1>2. CASE DropDevice(j)
  <2>1. PICK pc \in {"dropBridge", "dropLease", "dropGate", "settle"} : Goto(j, pc)
    BY <1>2 DEF DropDevice, AfterDevice, AfterBridge, AfterLease
  <2>2. WentTo(j, {pc}) /\ Boxed(j)
    BY <1>0, <1>2, <2>1, Goes, BoxRemoved DEF DropDevice, Roles
  <2>. QED
    BY <1>0, <1>2, <2>2, MovesOn DEF DropDevice, At, Past, AcquirePc, ReleasePc
<1>3. CASE DropBridge(j)
  <2>1. PICK pc \in {"dropLease", "dropGate", "settle"} : Goto(j, pc)
    BY <1>3 DEF DropBridge, AfterBridge, AfterLease
  <2>2. WentTo(j, {pc}) /\ Boxed(j)
    BY <1>0, <1>3, <2>1, Goes, BoxRemoved DEF DropBridge, Roles
  <2>. QED
    BY <1>0, <1>3, <2>2, MovesOn DEF DropBridge, At, Past, AcquirePc, ReleasePc
<1>4. CASE DropLease(j)
  <2>1. PICK pc \in {"dropGate", "settle"} : Goto(j, pc)
    BY <1>4 DEF DropLease, AfterLease
  <2>2. WentTo(j, {pc})
    BY <1>0, <2>1, Goes
  <2>3. lease' \in [Cameras -> Jobs \cup {NoJob}]
    BY <1>0, <1>4 DEF DropLease, ReleaseIfHeld
  <2>. QED
    BY <1>0, <1>4, <2>2, <2>3, MovesOn, BoxesLeft DEF DropLease, At, Past, AcquirePc, ReleasePc
<1>5. CASE DropGateway(j)
  <2>1. WentTo(j, {"settle"}) /\ Boxed(j)
    BY <1>0, <1>5, Goes, BoxRemoved DEF DropGateway, Roles
  <2>. QED
    BY <1>0, <1>5, <2>1, MovesOn DEF DropGateway, At, Past, AcquirePc, ReleasePc
<1>6. CASE Settle(j)
  <2>1. Ended(j, "idle") \in Run /\ Ended(j, "idle").gen = run[j].gen
        /\ Ended(j, "idle").pc = "idle"
    BY <1>0, BoundAssumption DEF Ended, Run
  <2>2. WentTo(j, {"idle"})
    BY <1>0, <1>6, <2>1, WentSet DEF Settle
  <2>3. run'[j].pc \notin Past \cup Handed /\ Running(j)
    BY <1>6, <2>2 DEF WentTo, Past, InProgress, AcquirePc, ReleasePc, Handed, Settle, At, Running
  <2>. QED
    BY <1>0, <1>6, <2>2, <2>3, BoxesLeft DEF Settle, Moves
<1>. QED
  BY <1>1, <1>2, <1>3, <1>4, <1>5, <1>6 DEF Release

LEMMA WorksMoves == ASSUME Typed, NEW j \in Jobs, Works(j) PROVE Moves(j)
BY MovesCamera, MovesGateway, MovesDevice, MovesRelease DEF Works

\* A step that no run makes: the reaper's, a boot's, a fault, time.
Rests ==
    /\ UNCHANGED <<job, crossed, raced, runs, direct>>
    /\ cancelled' \subseteq Jobs /\ disowned' \subseteq Jobs
    /\ box' \in [Jobs -> [Roles -> Box]] /\ faults' \in 0 .. MaxFaults
    /\ \A j \in Jobs, r \in Roles : Later(j, r)
    /\ run' \in [Jobs -> Run]
    /\ \A j \in Jobs : run'[j].gen = run[j].gen /\ run'[j].pc \in {run[j].pc, "dead"}
    /\ lease' \in [Cameras -> Jobs \cup {NoJob}]
    /\ live' \subseteq Jobs /\ stranded \subseteq stranded' /\ stranded' \subseteq Jobs
    /\ \A j \in live \ live' : Running(j)' => j \in stranded'
    /\ reaper' \in ReaperState
    /\ reaper'.pc \in {"ask", "free"} => reaper'.next \in Cameras
    /\ \A b \in reaper'.todo \cup reaper'.at : b.gen <= run[b.job].gen
    /\ \A b \in reaper'.at : b \in reaper.at \/ (b.job \notin live /\ live' = live)

\* What the reaper holds keeps its type.
LEMMA Sweeping ==
    ASSUME Typed
    PROVE  /\ Resting \in ReaperState
           /\ Everything \subseteq Ids
           /\ \A b \in Everything : b.gen <= run[b.job].gen
           /\ \A b \in Ids : b \in Everything <=> Same(b)
<1>1. Resting \in ReaperState
  BY BoundAssumption DEF Resting, ReaperState
<1>2. \A b \in Ids : b.job \in Jobs /\ b.role \in Roles
  BY DEF Ids
<1>. QED
  BY <1>1, <1>2 DEF Everything, Same, Typed, Made

LEMMA RestsFaults ==
    ASSUME Typed, NEW j \in Jobs, Crash(j) \/ \E r \in Roles : Exit(j, r)
    PROVE  Rests
<1>0. /\ TypeOK /\ box \in [Jobs -> [Roles -> Box]] /\ run \in [Jobs -> Run]
      /\ lease \in [Cameras -> Jobs \cup {NoJob}] /\ stranded \subseteq Jobs
      /\ live \subseteq Jobs /\ cancelled \subseteq Jobs /\ disowned \subseteq Jobs
      /\ reaper \in ReaperState /\ faults \in 0 .. MaxFaults
  BY DEF Typed, TypeOK
<1>a. UNCHANGED reaper =>
        /\ reaper' \in ReaperState
        /\ reaper'.pc \in {"ask", "free"} => reaper'.next \in Cameras
        /\ \A b \in reaper'.todo \cup reaper'.at : b.gen <= run[b.job].gen
  BY <1>0 DEF Typed, Made
<1>b. Fault => faults' \in 0 .. MaxFaults
  BY <1>0, BoundAssumption DEF Fault
<1>1. CASE Crash(j)
  <2>1. Ended(j, "dead") \in Run /\ Ended(j, "dead").gen = run[j].gen
        /\ Ended(j, "dead").pc = "dead"
    BY <1>0, BoundAssumption DEF Ended, Run
  <2>2. /\ run' \in [Jobs -> Run]
        /\ \A k \in Jobs : run'[k].gen = run[k].gen /\ run'[k].pc \in {run[k].pc, "dead"}
    BY <1>0, <1>1, <2>1 DEF Crash
  <2>3. \A k \in Jobs, r \in Roles : Later(k, r)
    BY <1>1 DEF Crash, Later, Present, Up
  <2>. QED
    BY <1>0, <1>a, <1>b, <1>1, <2>2, <2>3 DEF Crash, Rests
<1>2. ASSUME NEW r \in Roles, Exit(j, r) PROVE Rests
  <2>0. box[j][r] \in Box
    BY <1>0
  <2>1. /\ [box[j][r] EXCEPT !.state = "down"] \in Box
        /\ box' = [box EXCEPT ![j] = [box[j] EXCEPT ![r] = [box[j][r] EXCEPT !.state = "down"]]]
    BY <1>2, <2>0 DEF Exit, Box
  <2>2. /\ box' \in [Jobs -> [Roles -> Box]]
        /\ \A k \in Jobs, q \in Roles : k # j \/ q # r => box'[k][q] = box[k][q]
        /\ \A k \in Jobs \ {j} : box'[k] = box[k]
        /\ box'[j][r] = [box[j][r] EXCEPT !.state = "down"]
    BY <1>0, <2>1
  <2>3. /\ box'[j][r].state = "down" /\ box'[j][r].gen = box[j][r].gen
        /\ box'[j][r].pinned = box[j][r].pinned /\ box'[j][r].old = box[j][r].old
    BY <2>0, <2>2 DEF Box
  <2>4. Later(j, r)
    BY <1>2, <2>3 DEF Later, Present, Up, Exit
  <2>5. \A k \in Jobs, q \in Roles : k # j \/ q # r => Later(k, q)
    BY <2>2 DEF Later, Present, Up
  <2>6. \A k \in Jobs, q \in Roles : Later(k, q)
    BY <2>4, <2>5
  <2>. QED
    BY <1>0, <1>a, <1>b, <1>2, <2>2, <2>6 DEF Exit, Rests
<1>. QED
  BY <1>1, <1>2

\* The row is cancelled, or written while its device is up.
LEMMA RestsRow ==
    ASSUME Typed, NEW j \in Jobs, Cancel(j) \/ Announce(j)
    PROVE  Rests /\ UNCHANGED <<job, box, lease, run, reaper, crossed>>
<1>0. /\ TypeOK /\ box \in [Jobs -> [Roles -> Box]] /\ run \in [Jobs -> Run]
      /\ lease \in [Cameras -> Jobs \cup {NoJob}] /\ stranded \subseteq Jobs
      /\ live \subseteq Jobs /\ cancelled \subseteq Jobs /\ disowned \subseteq Jobs
      /\ reaper \in ReaperState /\ faults \in 0 .. MaxFaults
  BY DEF Typed, TypeOK
<1>1. UNCHANGED <<job, box, lease, run, reaper, crossed, raced, runs, direct>>
  BY DEF Cancel, Announce
<1>2. \A k \in Jobs, r \in Roles : Later(k, r)
  BY <1>1 DEF Later, Present, Up
<1>3. /\ reaper' \in ReaperState /\ reaper'.pc \in {"ask", "free"} => reaper'.next \in Cameras
      /\ \A b \in reaper'.todo \cup reaper'.at : b.gen <= run[b.job].gen
  BY <1>0, <1>1 DEF Typed, Made
<1>4. faults' \in 0 .. MaxFaults
  BY <1>0, BoundAssumption DEF Cancel, Announce, Fault
<1>5. /\ live' \subseteq Jobs /\ cancelled' \subseteq Jobs /\ disowned' \subseteq Jobs
      /\ stranded \subseteq stranded' /\ stranded' \subseteq Jobs
  BY <1>0 DEF Cancel, Announce
<1>6. \A k \in live \ live' : Running(k)' => k \in stranded'
  BY <1>1 DEF Cancel, Announce, Running
<1>. QED
  BY <1>0, <1>1, <1>2, <1>3, <1>4, <1>5, <1>6 DEF Rests

LEMMA RestsTime == ASSUME Typed, Age PROVE Rests
<1>0. /\ box \in [Jobs -> [Roles -> Box]] /\ run \in [Jobs -> Run] /\ reaper \in ReaperState
      /\ lease \in [Cameras -> Jobs \cup {NoJob}] /\ stranded \subseteq Jobs
      /\ live \subseteq Jobs /\ cancelled \subseteq Jobs /\ disowned \subseteq Jobs
      /\ faults \in 0 .. MaxFaults
  BY DEF Typed, TypeOK
<1>1. \A j \in Jobs, r \in Roles :
        \/ box'[j][r] = box[j][r]
        \/ box'[j][r] = [box[j][r] EXCEPT !.old = TRUE] /\ Present(j, r)
  BY <1>0 DEF Age
<1>2. \A b \in Box : /\ [b EXCEPT !.old = TRUE] \in Box
                     /\ [b EXCEPT !.old = TRUE].state = b.state
                     /\ [b EXCEPT !.old = TRUE].gen = b.gen
                     /\ [b EXCEPT !.old = TRUE].pinned = b.pinned
  BY DEF Box
<1>3. \A j \in Jobs, r \in Roles : box[j][r] \in Box
  BY <1>0
<1>4. box' \in [Jobs -> [Roles -> Box]]
  BY <1>0, <1>2, <1>3 DEF Age
<1>5. \A j \in Jobs, r \in Roles : Later(j, r)
  BY <1>1, <1>2, <1>3 DEF Age, Later, Present, Up
<1>. QED
  BY <1>0, <1>4, <1>5 DEF Age, Rests, Typed, Made

LEMMA RestsReaper == ASSUME Typed, Sweep \/ Boot \/ Reaps PROVE Rests
<1>0. /\ TypeOK /\ box \in [Jobs -> [Roles -> Box]] /\ run \in [Jobs -> Run]
      /\ reaper \in ReaperState
      /\ lease \in [Cameras -> Jobs \cup {NoJob}] /\ stranded \subseteq Jobs
      /\ live \subseteq Jobs /\ cancelled \subseteq Jobs /\ disowned \subseteq Jobs
      /\ faults \in 0 .. MaxFaults
      /\ \A b \in reaper.todo \cup reaper.at : b \in Ids /\ b.gen <= run[b.job].gen
  BY DEF Typed, TypeOK, ReaperState, Made
<1>1. UNCHANGED box => \A j \in Jobs, r \in Roles : Later(j, r)
  BY DEF Later, Present, Up
<1>2. Fault => faults' \in 0 .. MaxFaults
  BY <1>0, BoundAssumption DEF Fault
<1>3. ASSUME UNCHANGED <<job, hist, runs, direct, run, live, cancelled>>,
             box' \in [Jobs -> [Roles -> Box]], \A j \in Jobs, r \in Roles : Later(j, r),
             faults' \in 0 .. MaxFaults, lease' \in [Cameras -> Jobs \cup {NoJob}],
             reaper' \in ReaperState, reaper'.pc \in {"ask", "free"} => reaper'.next \in Cameras,
             reaper'.todo \subseteq reaper.todo \cup Everything,
             \A b \in reaper'.at : b \in reaper.at
                                   \/ (b \in reaper.todo /\ b.job \notin live)
      PROVE  Rests
  BY <1>0, <1>3, Sweeping DEF Rests
<1>4. CASE Sweep
  <2>1. reaper' \in ReaperState /\ reaper'.pc = "sweep" /\ reaper'.at = {}
        /\ reaper'.todo = Everything
    BY <1>4, Sweeping DEF Sweep, Resting, ReaperState
  <2>. QED
    BY <1>0, <1>1, <1>3, <1>4, <2>1 DEF Sweep
<1>5. CASE Boot
  <2>1. reaper' \in ReaperState /\ reaper'.pc = "sweep" /\ reaper'.at = {}
        /\ reaper'.todo = Everything
    BY <1>5, Sweeping DEF Boot, Resting, ReaperState
  <2>2. PICK lost \in SUBSET {j \in live : run[j].pc \in {"dead", "ready"}} :
           /\ live' = live \ lost
           /\ stranded' = stranded \cup {j \in lost : Running(j)}
    BY <1>5 DEF Boot
  <2>3. \A j \in Jobs : Running(j)' <=> Running(j)
    BY <1>5 DEF Boot, Running
  <2>. QED
    BY <1>0, <1>1, <1>5, <2>1, <2>2, <2>3, Sweeping DEF Boot, Rests
<1>6. ASSUME NEW b \in reaper.todo, Consider(b) \/ LookupFails(b) PROVE Rests
  <2>1. b \in Ids /\ b.job \in Jobs
    BY <1>0, <1>6 DEF Ids
  <2>2. reaper.pc = "sweep" /\
        \/ reaper' = [reaper EXCEPT !.todo = @ \ {b}, !.spared = @ \cup {b.job}]
        \/ b.job \notin live /\ reaper' = [reaper EXCEPT !.pc = "kill", !.at = {b}]
    BY <1>6 DEF Consider, LookupFails
  <2>3. /\ reaper' \in ReaperState /\ reaper'.pc \in {"sweep", "kill"}
        /\ reaper'.todo \subseteq reaper.todo
        /\ reaper'.at = reaper.at \/ (reaper'.at = {b} /\ b.job \notin live)
    <3>1. /\ [reaper EXCEPT !.todo = @ \ {b}, !.spared = @ \cup {b.job}] \in ReaperState
          /\ [reaper EXCEPT !.pc = "kill", !.at = {b}] \in ReaperState
      <4>1. /\ reaper.todo \ {b} \in SUBSET Ids /\ {b} \in SUBSET Ids
            /\ reaper.spared \cup {b.job} \in SUBSET Jobs
        BY <1>0, <2>1 DEF ReaperState
      <4>. QED
        BY <1>0, <4>1 DEF ReaperState
    <3>2. CASE reaper' = [reaper EXCEPT !.todo = @ \ {b}, !.spared = @ \cup {b.job}]
      BY <1>0, <2>2, <3>1, <3>2 DEF ReaperState
    <3>3. CASE b.job \notin live /\ reaper' = [reaper EXCEPT !.pc = "kill", !.at = {b}]
      BY <1>0, <3>1, <3>3 DEF ReaperState
    <3>. QED
      BY <2>2, <3>2, <3>3
  <2>4. faults' \in 0 .. MaxFaults /\ UNCHANGED box
    BY <1>0, <1>2, <1>6 DEF Consider, LookupFails
  <2>. QED
    BY <1>0, <1>1, <1>3, <1>6, <2>3, <2>4 DEF Consider, LookupFails
<1>7. ASSUME NEW b \in reaper.todo, Kill(b) PROVE Rests
  <2>1. b \in Ids /\ b.job \in Jobs /\ b.role \in Roles
    BY <1>0, <1>7 DEF Ids
  <2>2. /\ box' \in [Jobs -> [Roles -> Box]] /\ faults' \in 0 .. MaxFaults
        /\ \A j \in Jobs, r \in Roles : Later(j, r)
    <3>1. CASE UNCHANGED <<box, faults>>
      BY <1>0, <1>1, <3>1
    <3>2. CASE Remove(b.job, b.role)
      <4>1. \A j \in Jobs \ {b.job}, r \in Roles : Later(j, r)
        BY <1>0, <2>1, <3>2, Removed DEF Later, Present, Up
      <4>. QED
        BY <1>0, <2>1, <3>2, <4>1, Removed
    <3>. QED
      BY <1>7, <3>1, <3>2 DEF Kill
  <2>3. /\ reaper' \in ReaperState /\ reaper'.pc = "sweep"
        /\ reaper'.todo \subseteq reaper.todo /\ reaper'.at = {}
    BY <1>0, <1>7, <2>1 DEF Kill, ReaperState
  <2>. QED
    BY <1>0, <1>3, <1>7, <2>2, <2>3 DEF Kill
<1>8. CASE EndSweep \/ ListHeld
  <2>1. Held \subseteq Cameras
    <3>1. \A j \in Jobs, r \in Roles : box[j][r].cam \in 0 .. PoolSize
      BY <1>0 DEF Box
    <3>. QED
      BY <3>1, BoundAssumption DEF Held, Cameras
  <2>2. [Resting EXCEPT !.pc = "list", !.boot = TRUE] \in ReaperState
    BY Sweeping DEF ReaperState
  <2>3. [reaper EXCEPT !.pc = "read", !.held = Held] \in ReaperState
    BY <1>0, <2>1 DEF ReaperState
  <2>4. /\ reaper' \in ReaperState /\ reaper'.pc \in {"list", "idle", "read"}
        /\ reaper'.todo \subseteq reaper.todo /\ reaper'.at \subseteq reaper.at
    <3>1. CASE EndSweep
      <4>1. reaper' \in {Resting, [Resting EXCEPT !.pc = "list", !.boot = TRUE]}
        BY <3>1 DEF EndSweep
      <4>2. /\ Resting.pc = "idle" /\ Resting.todo = {} /\ Resting.at = {}
            /\ [Resting EXCEPT !.pc = "list", !.boot = TRUE].pc = "list"
            /\ [Resting EXCEPT !.pc = "list", !.boot = TRUE].todo = {}
            /\ [Resting EXCEPT !.pc = "list", !.boot = TRUE].at = {}
        BY DEF Resting
      <4>. QED
        BY <2>2, <4>1, <4>2, Sweeping
    <3>2. CASE ListHeld
      BY <1>0, <2>3, <3>2 DEF ListHeld, ReaperState
    <3>. QED
      BY <1>8, <3>1, <3>2
  <2>. QED
    BY <1>0, <1>1, <1>3, <1>8, <2>4 DEF EndSweep, ListHeld
<1>9. CASE ReadLease \/ AskHolder \/ FreeLease
  <2>1. \A c \in Cameras : c + 1 \in 1 .. PoolSize + 1 /\ c \in 1 .. PoolSize + 1
    BY BoundAssumption DEF Cameras
  <2>2. \A c \in Cameras :
           ToNext(c) \in ReaperState /\ ToNext(c).pc = "read" /\ ToNext(c).todo = reaper.todo
           /\ ToNext(c).at = reaper.at
    BY <1>0, <2>1 DEF ToNext, ReaperState
  <2>3. /\ reaper' \in ReaperState /\ reaper'.todo \subseteq reaper.todo
        /\ reaper'.at \subseteq reaper.at
        /\ reaper'.pc \in {"ask", "free"} => reaper'.next \in Cameras
    <3>1. CASE ReadLease
      <4>1. CASE reaper.next \notin Cameras
        BY <3>1, <4>1, Sweeping DEF ReadLease, Resting
      <4>2. CASE reaper.next \in Cameras /\ reaper' = ToNext(reaper.next)
        BY <2>2, <4>2
      <4>3. CASE reaper.next \in Cameras
                 /\ reaper' = [reaper EXCEPT !.pc = "ask", !.holder = lease[reaper.next]]
        BY <1>0, <4>3 DEF ReaperState
      <4>. QED
        BY <3>1, <4>1, <4>2, <4>3 DEF ReadLease
    <3>2. CASE AskHolder \/ FreeLease
      <4>1. reaper.next \in Cameras
        BY <3>2 DEF AskHolder, FreeLease, Typed, Made
      <4>2. reaper' = ToNext(reaper.next) \/ reaper' = [reaper EXCEPT !.pc = "free"]
        BY <3>2 DEF AskHolder, FreeLease
      <4>. QED
        BY <1>0, <2>2, <4>1, <4>2 DEF ReaperState
    <3>. QED
      BY <1>9, <3>1, <3>2
  <2>4. lease' \in [Cameras -> Jobs \cup {NoJob}] /\ faults' \in 0 .. MaxFaults
    BY <1>0, <1>2, <1>9 DEF ReadLease, AskHolder, FreeLease, ReleaseIfHeld
  <2>. QED
    BY <1>0, <1>1, <1>3, <1>9, <2>3, <2>4 DEF ReadLease, AskHolder, FreeLease
<1>. QED
  BY <1>4, <1>5, <1>6, <1>7, <1>8, <1>9 DEF Reaps

-----------------------------------------------------------------------------
(* Type correctness *)

LEMMA TypedInit == Init => Typed
<1> SUFFICES ASSUME Init PROVE Typed
  OBVIOUS
<1>1. NoBox \in Box /\ NoBox.state = "none"
  BY BoundAssumption DEF NoBox, Box
<1>2. Resting \in ReaperState /\ Resting.pc = "idle" /\ Resting.todo = {} /\ Resting.at = {}
  BY BoundAssumption DEF Resting, ReaperState
<1>3. run \in [Jobs -> Run] /\ \A j \in Jobs : run[j].gen = 0 /\ run[j].pc = "idle"
  BY BoundAssumption DEF Init, Run
<1>4. \A j \in Jobs : ~Running(j)
  BY <1>3 DEF Running, InProgress, AcquirePc, ReleasePc
<1>5. \A j \in Jobs, r \in Roles : ~Present(j, r)
  BY <1>1 DEF Init, Present
<1>6. TypeOK
  BY <1>1, <1>2, <1>3, SetupAssumption, BoundAssumption DEF Init, TypeOK
<1>. QED
  BY <1>2, <1>3, <1>4, <1>5, <1>6, BoundAssumption DEF Init, Typed, Made

\* A delivery begins a run.
LEMMA Begun ==
    ASSUME Typed, NEW j \in Jobs, Begin(j)
    PROVE  /\ run' \in [Jobs -> Run] /\ \A k \in Jobs \ {j} : run'[k] = run[k]
           /\ run'[j].gen = run[j].gen + 1 /\ run'[j].pc = "refuse"
           /\ run[j].gen \in Nat /\ \A k \in Jobs : run'[k].gen >= run[k].gen
<1>1. run \in [Jobs -> Run] /\ run[j].gen \in 0 .. MaxRuns /\ run[j].gen + 1 <= MaxRuns
      /\ \A k \in Jobs : run[k].gen \in 0 .. MaxRuns
  BY BoundAssumption DEF Typed, TypeOK, Made, Begin, Run
<1>2. [pc |-> "refuse", gen |-> run[j].gen + 1, next |-> 1, cam |-> 0,
       bridge |-> FALSE, gateway |-> FALSE] \in Run
  BY <1>1, BoundAssumption DEF Run, InProgress, AcquirePc
<1>. QED
  BY <1>1, <1>2, BoundAssumption DEF Begin

LEMMA TypedNext == Typed /\ [Next]_vars => Typed'
<1> SUFFICES ASSUME Typed, [Next]_vars PROVE Typed'
  OBVIOUS
<1>0. /\ run \in [Jobs -> Run] /\ \A j \in Jobs : run[j].gen \in Nat
      /\ reaper \in ReaperState /\ box \in [Jobs -> [Roles -> Box]]
      /\ \A b \in Ids : b.job \in Jobs /\ b.gen \in Nat
      /\ \A j \in Jobs, r \in Roles : box[j][r].gen \in Nat
  BY BoundAssumption DEF Typed, TypeOK, Run, Ids, Box
<1>1. CASE UNCHANGED vars
  BY <1>1 DEF vars, Typed, TypeOK, Made, Running, Present
<1>2. ASSUME NEW j \in Jobs, Begin(j) PROVE Typed'
  <2>1. runs' \in 0 .. MaxRuns /\ runs \in Nat /\ runs' = runs + 1
    BY <1>2, BoundAssumption DEF Begin, Typed, TypeOK
  <2>2. TypeOK'
    BY <1>2, <2>1, Begun DEF Begin, Typed, TypeOK
  <2>3. \A k \in Jobs : run'[k].gen \in Nat /\ run'[k].gen <= runs'
                        /\ (Running(k)' => run'[k].gen # 0)
    BY <1>0, <1>2, <2>1, Begun DEF Typed, Made, Running
  <2>4. \A k \in Jobs, r \in Roles : Present(k, r)' => box'[k][r].gen \in 1 .. run'[k].gen
    BY <1>0, <1>2, <2>3, Begun DEF Begin, Typed, Made, Present
  <2>5. \A b \in reaper.todo \cup reaper.at : b.gen <= run'[b.job].gen
    <3>1. \A b \in reaper.todo \cup reaper.at : b \in Ids /\ b.gen <= run[b.job].gen
      BY <1>0 DEF ReaperState, Typed, Made
    <3>. QED
      BY <1>0, <1>2, <2>3, <3>1, Begun
  <2>. QED
    BY <1>2, <2>2, <2>3, <2>4, <2>5 DEF Begin, Typed, Made
<1>3. ASSUME NEW j \in Jobs, Moves(j) PROVE Typed'
  <2>1. run' \in [Jobs -> Run] /\ \A k \in Jobs : run'[k].gen = run[k].gen
    BY <1>3 DEF Moves, WentTo
  <2>2. TypeOK'
    BY <1>3, <2>1 DEF Moves, Boxed, Typed, TypeOK
  <2>3. \A k \in Jobs : run'[k].gen <= runs' /\ (Running(k)' => run'[k].gen # 0)
    BY <1>3, <2>1 DEF Moves, WentTo, Running, Typed, Made
  <2>4. \A r \in Roles : Present(j, r)' => box'[j][r].gen \in 1 .. run'[j].gen
    BY <1>0, <1>3, <2>1 DEF Moves, Boxed, Later, Fresh, Typed, Made
  <2>5. \A k \in Jobs \ {j}, r \in Roles : Present(k, r)' => box'[k][r].gen \in 1 .. run'[k].gen
    BY <1>0, <1>3, <2>1 DEF Moves, Boxed, Present, Typed, Made
  <2>6. \A b \in reaper.todo \cup reaper.at : b.gen <= run'[b.job].gen
    BY <1>0, <2>1 DEF ReaperState, Typed, Made
  <2>. QED
    BY <1>3, <2>2, <2>3, <2>4, <2>5, <2>6 DEF Moves, Typed, Made
<1>4. CASE Rests
  <2>1. run' \in [Jobs -> Run] /\ \A k \in Jobs : run'[k].gen = run[k].gen
    BY <1>4 DEF Rests
  <2>2. TypeOK'
    BY <1>4, <2>1 DEF Rests, Typed, TypeOK
  <2>3. \A k \in Jobs : Running(k)' => Running(k)
    BY <1>4 DEF Rests, Running, InProgress, AcquirePc, ReleasePc
  <2>4. \A k \in Jobs : run'[k].gen <= runs' /\ (Running(k)' => run'[k].gen # 0)
    BY <1>4, <2>1, <2>3 DEF Rests, Typed, Made
  <2>5. \A k \in Jobs, r \in Roles : Present(k, r)' => box'[k][r].gen \in 1 .. run'[k].gen
    BY <1>0, <1>4, <2>1 DEF Rests, Later, Typed, Made
  <2>6. \A b \in reaper'.todo \cup reaper'.at : b.gen <= run'[b.job].gen
    <3>1. \A b \in reaper'.todo \cup reaper'.at : b.job \in Jobs
      BY <1>0, <1>4 DEF Rests, ReaperState
    <3>. QED
      BY <1>4, <2>1, <3>1 DEF Rests
  <2>. QED
    BY <1>4, <2>2, <2>4, <2>5, <2>6 DEF Rests, Typed, Made
<1>. QED
  BY <1>1, <1>2, <1>3, <1>4, WorksMoves, RestsFaults, RestsRow, RestsTime, RestsReaper DEF Next

\* Type correctness: the pool of cameras is never looked past, and no container is taken
\* for one of a run that has not been (lib/android/cameraSlots.ts, reaper.ts).
THEOREM DevicesTypeCorrect == Spec => []TypeOK
<1>1. Typed => TypeOK
  BY DEF Typed
<1>. QED
  BY <1>1, TypedInit, TypedNext, PTL DEF Spec

-----------------------------------------------------------------------------
(* A step, whoever makes it *)

LEMMA Steps ==
    ASSUME Typed, [Next]_vars
    PROVE  \/ \E j \in Jobs : Begin(j)
           \/ \E j \in Jobs : Works(j) /\ Moves(j)
           \/ Rests
           \/ UNCHANGED vars
BY WorksMoves, RestsFaults, RestsRow, RestsTime, RestsReaper DEF Next

-----------------------------------------------------------------------------
(* One device per session *)

\* The run that made a container.
Maker(j, r) == <<j, box[j][r].gen>>

\* Of two runs of one account past their checks, of a run past its check and a container of
\* another job, and of two containers: their runs raced.
Alone ==
    \A j, k \in Jobs : j # k /\ Account(j) = Account(k) =>
        /\ run[j].pc \in Past /\ run[k].pc \in Past => {RunOf(j), RunOf(k)} \in raced
        /\ \A r \in Roles :
              run[j].pc \in Past /\ Present(k, r) => {RunOf(j), Maker(k, r)} \in raced
        /\ \A r, q \in Roles :
              Present(j, r) /\ Present(k, q) => {Maker(j, r), Maker(k, q)} \in raced

LEMMA AloneInit == Init => Alone
BY DEF Init, Alone, Past, AcquirePc, Present, NoBox

LEMMA AloneBegin ==
    ASSUME Typed, Alone, NEW j \in Jobs, Begin(j)
    PROVE  Alone'
<1>1. \A k \in Jobs \ {j} : run'[k] = run[k]
  BY Begun
<1>2. run'[j].pc \notin Past
  BY Begun DEF Past
<1>3. \A k \in Jobs : /\ Account(k)' = Account(k)
                      /\ \A r \in Roles : (Present(k, r)' <=> Present(k, r))
                                          /\ Maker(k, r)' = Maker(k, r)
  BY DEF Begin, Account, Present, Maker
<1>4. \A k \in Jobs : run'[k].pc \in Past => run[k].pc \in Past /\ RunOf(k)' = RunOf(k)
  BY <1>1, <1>2 DEF RunOf
<1>5. raced' = raced
  BY DEF Begin
<1>6. ASSUME NEW a \in Jobs, NEW b \in Jobs, a # b, Account(a) = Account(b)
      PROVE  /\ run'[a].pc \in Past /\ run'[b].pc \in Past
                => {RunOf(a)', RunOf(b)'} \in raced
             /\ \A r \in Roles :
                   run'[a].pc \in Past /\ Present(b, r) => {RunOf(a)', Maker(b, r)} \in raced
             /\ \A r, q \in Roles :
                   Present(a, r) /\ Present(b, q) => {Maker(a, r), Maker(b, q)} \in raced
  <2>1. /\ run[a].pc \in Past /\ run[b].pc \in Past => {RunOf(a), RunOf(b)} \in raced
        /\ \A r \in Roles :
              run[a].pc \in Past /\ Present(b, r) => {RunOf(a), Maker(b, r)} \in raced
        /\ \A r, q \in Roles :
              Present(a, r) /\ Present(b, q) => {Maker(a, r), Maker(b, q)} \in raced
    BY <1>6 DEF Alone
  <2>. QED
    BY <1>4, <2>1
<1>7. ASSUME NEW a \in Jobs, NEW b \in Jobs, a # b, Account(a)' = Account(b)'
      PROVE  /\ run'[a].pc \in Past /\ run'[b].pc \in Past
                => {RunOf(a)', RunOf(b)'} \in raced'
             /\ \A r \in Roles :
                   run'[a].pc \in Past /\ Present(b, r)'
                   => {RunOf(a)', Maker(b, r)'} \in raced'
             /\ \A r, q \in Roles :
                   Present(a, r)' /\ Present(b, q)' => {Maker(a, r)', Maker(b, q)'} \in raced'
  BY <1>3, <1>5, <1>6, <1>7
<1>. QED
  BY <1>7 DEF Alone

LEMMA AloneMoves ==
    ASSUME Typed, Alone, NEW j \in Jobs, Moves(j)
    PROVE  Alone'
<1>1. \A k \in Jobs \ {j} : run'[k] = run[k] /\ box'[k] = box[k]
  BY DEF Moves, Boxed, WentTo
<1>2. job' = job /\ raced \subseteq raced' /\ run'[j].gen = run[j].gen
  BY DEF Moves, WentTo
<1>3. \A k \in Jobs \ {j} :
        /\ RunOf(k)' = RunOf(k)
        /\ \A r \in Roles : (Present(k, r)' <=> Present(k, r)) /\ Maker(k, r)' = Maker(k, r)
  BY <1>1 DEF RunOf, Present, Maker
<1>4. RunOf(j)' = RunOf(j) /\ \A k \in Jobs : Account(k)' = Account(k)
  BY <1>2 DEF RunOf, Account
<1>5. \A r \in Roles : Present(j, r)' =>
         \/ Present(j, r) /\ Maker(j, r)' = Maker(j, r)
         \/ run[j].pc \in Past /\ Maker(j, r)' = RunOf(j)
  BY DEF Moves, Boxed, Later, Fresh, Making, Past, AcquirePc, Maker, RunOf
<1>6. ASSUME NEW k \in Jobs \ {j}, Account(k) = Account(j)
      PROVE  /\ run'[j].pc \in Past /\ run'[k].pc \in Past => {RunOf(j), RunOf(k)} \in raced'
             /\ \A r \in Roles :
                   run'[j].pc \in Past /\ Present(k, r) => {RunOf(j), Maker(k, r)} \in raced'
             /\ \A r \in Roles :
                   run[k].pc \in Past /\ Present(j, r)' => {RunOf(k), Maker(j, r)'} \in raced'
             /\ \A r, q \in Roles :
                   Present(j, r)' /\ Present(k, q) => {Maker(j, r)', Maker(k, q)} \in raced'
  <2>1. /\ run[j].pc \in Past /\ run[k].pc \in Past => {RunOf(j), RunOf(k)} \in raced
        /\ \A r \in Roles :
              /\ run[j].pc \in Past /\ Present(k, r) => {RunOf(j), Maker(k, r)} \in raced
              /\ run[k].pc \in Past /\ Present(j, r) => {RunOf(k), Maker(j, r)} \in raced
        /\ \A r, q \in Roles :
              Present(j, r) /\ Present(k, q) => {Maker(j, r), Maker(k, q)} \in raced
    BY <1>6 DEF Alone
  <2>2. ASSUME run'[j].pc \in Past, run[j].pc \notin Past
        PROVE  /\ run[k].pc \in Past => {RunOf(j), RunOf(k)} \in raced'
               /\ \A r \in Roles : ~Present(k, r)
    <3>1. Passes(j)
      BY <2>2 DEF Moves
    <3>2. run[k].pc \in Past => k \in Crossing(j)
      BY <1>6 DEF Crossing
    <3>. QED
      BY <1>6, <3>1, <3>2 DEF Passes, Others
  <2>3. {RunOf(j), RunOf(k)} = {RunOf(k), RunOf(j)}
    OBVIOUS
  <2>. QED
    BY <1>1, <1>2, <1>5, <2>1, <2>2, <2>3
<1>7. ASSUME NEW k \in Jobs \ {j}, NEW i \in Jobs \ {j}, k # i, Account(k) = Account(i)
      PROVE  /\ run'[k].pc \in Past /\ run'[i].pc \in Past => {RunOf(k), RunOf(i)} \in raced'
             /\ \A r \in Roles :
                   run'[k].pc \in Past /\ Present(i, r) => {RunOf(k), Maker(i, r)} \in raced'
             /\ \A r, q \in Roles :
                   Present(k, r) /\ Present(i, q) => {Maker(k, r), Maker(i, q)} \in raced'
  BY <1>1, <1>2, <1>7 DEF Alone
<1>8. \A u, v : {u, v} = {v, u}
  OBVIOUS
<1>. QED
  <2> SUFFICES ASSUME NEW a \in Jobs, NEW b \in Jobs, a # b, Account(a) = Account(b)
               PROVE  /\ run'[a].pc \in Past /\ run'[b].pc \in Past
                         => {RunOf(a)', RunOf(b)'} \in raced'
                      /\ \A r \in Roles : run'[a].pc \in Past /\ Present(b, r)'
                         => {RunOf(a)', Maker(b, r)'} \in raced'
                      /\ \A r, q \in Roles : Present(a, r)' /\ Present(b, q)'
                         => {Maker(a, r)', Maker(b, q)'} \in raced'
    BY <1>4 DEF Alone
  <2>1. CASE a = j
    BY <1>1, <1>3, <1>4, <1>6, <2>1
  <2>2. CASE b = j
    BY <1>1, <1>3, <1>4, <1>6, <1>8, <2>2
  <2>3. CASE a # j /\ b # j
    <3>1. /\ run'[a].pc \in Past /\ run'[b].pc \in Past => {RunOf(a), RunOf(b)} \in raced'
          /\ \A r \in Roles :
                run'[a].pc \in Past /\ Present(b, r) => {RunOf(a), Maker(b, r)} \in raced'
          /\ \A r, q \in Roles :
                Present(a, r) /\ Present(b, q) => {Maker(a, r), Maker(b, q)} \in raced'
      BY <1>7, <2>3
    <3>2. /\ RunOf(a)' = RunOf(a) /\ RunOf(b)' = RunOf(b)
          /\ \A r \in Roles : /\ (Present(a, r)' <=> Present(a, r))
                              /\ (Present(b, r)' <=> Present(b, r))
                              /\ Maker(a, r)' = Maker(a, r) /\ Maker(b, r)' = Maker(b, r)
      BY <1>3, <2>3
    <3>. QED
      BY <3>1, <3>2
  <2>. QED
    BY <2>1, <2>2, <2>3

LEMMA AloneRests == ASSUME Typed, Alone, Rests PROVE Alone'
<1>1. \A j \in Jobs : /\ run'[j].pc \in Past => run[j].pc \in Past
                      /\ Account(j)' = Account(j) /\ RunOf(j)' = RunOf(j)
                      /\ \A r \in Roles : Present(j, r)' =>
                            Present(j, r) /\ Maker(j, r)' = Maker(j, r)
  BY DEF Rests, Later, Past, AcquirePc, Account, RunOf, Maker
<1>2. raced' = raced
  BY DEF Rests
<1>. QED
  BY <1>1, <1>2 DEF Alone

\* Two devices mount one session volume only if the runs that made them passed their checks
\* before either had a container (redroidProvider.ts:399, emulatorProvider.ts:398): whatever
\* another run left, in whatever state and with whatever row, the check finds it.
THEOREM OneDeviceHolds == Spec => []OneDevicePerSession
<1>1. Alone => OneDevicePerSession
  BY DEF Alone, OneDevicePerSession, Up, Present, Roles, Maker
<1>2. Typed /\ Alone /\ [Next]_vars => Alone'
  <2> SUFFICES ASSUME Typed, Alone, [Next]_vars PROVE Alone'
    OBVIOUS
  <2>1. CASE UNCHANGED vars
    BY <2>1 DEF vars, Alone, Present, Account, RunOf, Maker
  <2>. QED
    BY <2>1, Steps, AloneBegin, AloneMoves, AloneRests
<1>. QED
  BY <1>1, <1>2, AloneInit, TypedInit, TypedNext, PTL DEF Spec

-----------------------------------------------------------------------------
(* Nothing is handed over unmasked *)

\* From the policy on: what would leak was not to be closed, or could not be noticed.
Veiled ==
    \A j \in Jobs : run[j].pc \in Handed /\ Leaks(j) =>
        /\ ~job[j].harden
        /\ run[j].pc = "verify" \/ ~job[j].verify \/ direct = "unknown"

LEMMA LeaksLater ==
    ASSUME NEW j \in Jobs, Later(j, "gateway"), UNCHANGED job, Leaks(j)'
    PROVE  Leaks(j)
BY DEF Leaks, Later, Present, Up

LEMMA VeiledMoves ==
    ASSUME Typed, Veiled, NEW j \in Jobs, Works(j), Moves(j)
    PROVE  Veiled'
<1>1. \A k \in Jobs \ {j} : run'[k] = run[k] /\ box'[k] = box[k]
  BY DEF Moves, Boxed, WentTo
<1>2. job' = job /\ (direct = "unknown" => direct' = "unknown")
  BY DEF Moves
<1>3. ASSUME NEW k \in Jobs \ {j}, run'[k].pc \in Handed, Leaks(k)'
      PROVE  /\ ~job'[k].harden
             /\ run'[k].pc = "verify" \/ ~job'[k].verify \/ direct' = "unknown"
  BY <1>1, <1>2, <1>3 DEF Veiled, Leaks, Up
<1>4. ASSUME run'[j].pc \in Handed, Leaks(j)'
      PROVE  /\ ~job'[j].harden
             /\ run'[j].pc = "verify" \/ ~job'[j].verify \/ direct' = "unknown"
  <2>0. /\ run \in [Jobs -> Run] /\ box \in [Jobs -> [Roles -> Box]] /\ "gateway" \in Roles
        /\ box[j] \in [Roles -> Box] /\ box[j]["gateway"] \in Box
    BY DEF Typed, TypeOK, Roles
  <2>1. Usable(j) \/ Pin(j) \/ Verify(j) \/ Package(j)
    BY <1>4 DEF Moves
  <2>2. UNCHANGED box => (Leaks(j)' <=> Leaks(j))
    BY <1>2 DEF Leaks, Up
  <2>3. CASE Usable(j)
    <3>1. job[j].proxied => run'[j].pc = "pin"
      BY <2>0, <2>3 DEF Usable, Goto, Run
    <3>. QED
      BY <1>2, <1>4, <3>1 DEF Leaks, Handed
  <2>4. CASE Pin(j)
    <3>1. run'[j].pc = "verify"
      BY <2>0, <2>4 DEF Pin, Goto, Run
    <3>2. CASE job[j].harden
      <4>1. box' = [box EXCEPT ![j]["gateway"].pinned = TRUE]
        BY <2>4, <3>2 DEF Pin
      <4>2. box' = [box EXCEPT ![j] = [box[j] EXCEPT
                       !["gateway"] = [box[j]["gateway"] EXCEPT !.pinned = TRUE]]]
        BY <4>1
      <4>3. box'[j]["gateway"] = [box[j]["gateway"] EXCEPT !.pinned = TRUE]
        BY <2>0, <4>2
      <4>4. box'[j]["gateway"].pinned
        BY <2>0, <4>3 DEF Box
      <4>. QED
        BY <1>4, <4>4 DEF Leaks
    <3>. QED
      BY <1>2, <3>1, <3>2
  <2>5. CASE Verify(j)
    <3>1. UNCHANGED box /\ At(j, "verify")
      BY <2>5 DEF Verify
    <3>2. ~job[j].harden
      BY <1>4, <2>2, <3>1 DEF Veiled, At, Handed
    <3>3. ASSUME job[j].verify PROVE direct' = "unknown"
      <4>1. ~(direct' = "known")
        <5>1. direct' = "known" => run'[j].pc = "dropDevice"
          BY <1>4, <2>0, <2>2, <2>5, <3>1, <3>3 DEF Verify, Goto, Run
        <5>. QED
          BY <1>4, <5>1 DEF Handed
      <4>2. direct' \in {"known", "unknown"} \/ (direct' = direct /\ direct # "unset")
        BY <2>5, <3>3 DEF Verify
      <4>3. direct \in {"unset", "known", "unknown"}
        BY DEF Typed, TypeOK
      <4>. QED
        BY <4>1, <4>2, <4>3
    <3>. QED
      BY <1>2, <3>2, <3>3
  <2>6. CASE Package(j)
    <3>1. UNCHANGED box /\ At(j, "package")
      BY <2>6 DEF Package
    <3>. QED
      BY <1>2, <1>4, <2>2, <3>1 DEF Veiled, At, Handed
  <2>. QED
    BY <2>1, <2>3, <2>4, <2>5, <2>6
<1>. QED
  BY <1>3, <1>4 DEF Veiled

\* A device is handed over in the open only by the account's choice (egressCheck.ts:358,
\* egressPolicy.ts): whatever happens between the policy, the check and the hand-over, an
\* unpinned gateway can only go away.
THEOREM UnmaskedHolds == Spec => []UnmaskedOnlyByChoice
<1>1. Init => Veiled
  BY DEF Init, Veiled, Handed
<1>2. Veiled => UnmaskedOnlyByChoice
  BY DEF Veiled, UnmaskedOnlyByChoice, At, Handed
<1>3. Typed /\ Veiled /\ [Next]_vars => Veiled'
  <2> SUFFICES ASSUME Typed, Veiled, [Next]_vars PROVE Veiled'
    OBVIOUS
  <2>1. ASSUME NEW j \in Jobs, Begin(j) PROVE Veiled'
    BY <2>1, Begun DEF Begin, Veiled, Handed, Leaks, Up
  <2>2. CASE Rests
    <3>1. \A j \in Jobs : Leaks(j)' => Leaks(j)
      BY <2>2, LeaksLater DEF Rests, Roles
    <3>2. \A j \in Jobs : run'[j].pc \in Handed => run'[j].pc = run[j].pc
      BY <2>2 DEF Rests, Handed
    <3>. QED
      BY <2>2, <3>1, <3>2 DEF Rests, Veiled
  <2>3. CASE UNCHANGED vars
    BY <2>3 DEF vars, Veiled, Leaks, Up
  <2>. QED
    BY <2>1, <2>2, <2>3, Steps, VeiledMoves
<1>. QED
  BY <1>1, <1>2, <1>3, TypedInit, TypedNext, PTL DEF Spec

-----------------------------------------------------------------------------
(* The reaper spares runs *)

\* A run whose row is not live was failed by a boot or cancelled; and so was the run, if it
\* still goes on, whose container the reaper is about to take.
Doomed ==
    /\ \A j \in Jobs : Running(j) /\ j \notin live => j \in stranded
    /\ \A b \in reaper.at : Running(b.job) /\ run[b.job].gen = b.gen => b.job \in stranded

LEMMA DoomedNext == Typed /\ Doomed /\ [Next]_vars => Doomed'
<1> SUFFICES ASSUME Typed, Doomed, [Next]_vars PROVE Doomed'
  OBVIOUS
<1>0. /\ \A b \in reaper.at : b.job \in Jobs /\ b.gen \in Nat /\ b.gen <= run[b.job].gen
      /\ \A j \in Jobs : run[j].gen \in Nat
  BY BoundAssumption DEF Typed, TypeOK, Made, ReaperState, Ids, Run
<1>1. ASSUME NEW j \in Jobs, Begin(j) PROVE Doomed'
  <2>1. /\ live' = live \cup {j} /\ stranded' = stranded \ {j} /\ reaper' = reaper
        /\ \A k \in Jobs \ {j} : Running(k)' <=> Running(k)
    BY <1>1, Begun DEF Begin, Running
  <2>2. \A b \in reaper.at : b.job = j => run'[b.job].gen # b.gen
    BY <1>0, <1>1, Begun
  <2>3. \A b \in reaper.at : b.job # j => run'[b.job] = run[b.job]
    BY <1>0, <1>1, Begun
  <2>. QED
    BY <1>0, <2>1, <2>2, <2>3 DEF Doomed
<1>2. ASSUME NEW j \in Jobs, Moves(j) PROVE Doomed'
  <2>1. \A k \in Jobs : run'[k].gen = run[k].gen /\ (Running(k)' => Running(k))
    BY <1>2 DEF Moves, WentTo, Running
  <2>2. \A k \in Jobs : Running(k)' /\ k \notin live' => k \notin live
    BY <1>2 DEF Moves, WentTo, Running, InProgress, AcquirePc, ReleasePc
  <2>. QED
    BY <1>0, <1>2, <2>1, <2>2 DEF Moves, Doomed
<1>3. CASE Rests
  <2>1. \A k \in Jobs : run'[k].gen = run[k].gen /\ (Running(k)' => Running(k))
    BY <1>3 DEF Rests, Running, InProgress, AcquirePc, ReleasePc
  <2>2. \A b \in reaper'.at : b.job \in Jobs
    BY <1>3 DEF Rests, ReaperState, Ids
  <2>. QED
    BY <1>3, <2>1, <2>2 DEF Rests, Doomed
<1>4. CASE UNCHANGED vars
  BY <1>4 DEF vars, Doomed, Running
<1>. QED
  BY <1>1, <1>2, <1>3, <1>4, Steps

\* The reaper takes no container from a run that goes on, but from one whose row a boot has
\* failed or a user cancelled (reaper.ts:184, service.ts:443): what it is about to take was of a job that is not live, and a run
\* begun since has containers of another id.
THEOREM SparesHold == Spec => SparesRuns
<1>1. Init => Doomed
  BY DEF Init, Doomed, Running, InProgress, AcquirePc, ReleasePc, Resting
<1>2. Typed /\ Doomed /\ [Next]_vars =>
        [\A j \in Jobs, r \in Roles :
            reaper.pc = "kill" /\ reaper' # reaper /\ box'[j][r] = NoBox /\ Present(j, r)
            => ~(Running(j) /\ run[j].gen = box[j][r].gen) \/ j \in stranded]_vars
  <2> SUFFICES ASSUME Typed, Doomed, Next, NEW j \in Jobs, NEW r \in Roles,
                      reaper.pc = "kill", reaper' # reaper, box'[j][r] = NoBox, Present(j, r),
                      Running(j), run[j].gen = box[j][r].gen
               PROVE  j \in stranded
    OBVIOUS
  <2>1. PICK b \in reaper.todo : Kill(b)
    <3>1. ~\E k \in Jobs : Begin(k) \/ Cancel(k) \/ Announce(k) \/ Crash(k)
                           \/ \E q \in Roles : Exit(k, q)
      BY DEF Begin, Cancel, Announce, Crash, Exit
    <3>2. ~\E k \in Jobs : Works(k)
      BY WorksMoves DEF Moves
    <3>3. ~(Sweep \/ Boot \/ Age)
      BY DEF Sweep, Boot, Age
    <3>4. ~(EndSweep \/ ListHeld \/ ReadLease \/ AskHolder \/ FreeLease)
      BY DEF EndSweep, ListHeld, ReadLease, AskHolder, FreeLease
    <3>5. \A b \in reaper.todo : ~Consider(b) /\ ~LookupFails(b)
      BY DEF Consider, LookupFails
    <3>. QED
      BY <3>1, <3>2, <3>3, <3>4, <3>5 DEF Next, Reaps
  <2>2. b \in reaper.at /\ b.job \in Jobs /\ b.role \in Roles
    BY <2>1 DEF Kill, Typed, TypeOK, ReaperState, Ids
  <2>3. box'[j][r] # box[j][r]
    BY DEF Present, NoBox
  <2>4. Same(b) /\ Remove(b.job, b.role)
    BY <2>1, <2>3 DEF Kill
  <2>5. j = b.job /\ r = b.role
    BY <2>2, <2>3, <2>4, Removed DEF Typed
  <2>. QED
    BY <2>2, <2>4, <2>5 DEF Same, Doomed
<1>. QED
  BY <1>1, <1>2, DoomedNext, TypedInit, TypedNext, PTL DEF Spec, SparesRuns

-----------------------------------------------------------------------------
(* Gateways go last *)

DeviceOf(j) == [job |-> j, role |-> "device", gen |-> box[j]["device"].gen]

\* What was there when a sweep began is on its list or was left alone; and the sweep is at a
\* gateway only when nothing else is on it.
Accounted ==
    /\ reaper.pc \in {"sweep", "kill"} =>
          \A j \in Jobs : Present(j, "device") /\ box[j]["device"].old =>
              j \in reaper.spared \/ DeviceOf(j) \in reaper.todo
    /\ reaper.at # {} => reaper.pc = "kill"
    /\ \A b \in reaper.at : b.role = "gateway" => \A o \in reaper.todo : o.role = "gateway"

LEMMA AccountedKept ==
    ASSUME Accounted, UNCHANGED reaper,
           \A j \in Jobs : Later(j, "device") \/ Fresh(j, "device")
    PROVE  Accounted'
<1>1. \A j \in Jobs : Present(j, "device")' /\ box'[j]["device"].old =>
          \/ reaper.pc = "idle"
          \/ /\ Present(j, "device") /\ box[j]["device"].old
             /\ DeviceOf(j)' = DeviceOf(j)
  BY DEF Later, Fresh, DeviceOf
<1>. QED
  BY <1>1 DEF Accounted

LEMMA AccountedReaps == ASSUME Typed, Accounted, Sweep \/ Boot \/ Reaps PROVE Accounted'
<1>0. /\ reaper \in ReaperState /\ box \in [Jobs -> [Roles -> Box]]
      /\ \A b \in reaper.todo : b \in Ids /\ b.job \in Jobs /\ b.role \in Roles
  BY DEF Typed, TypeOK, ReaperState, Ids
<1>1. CASE Sweep \/ Boot
  <2>1. /\ reaper'.pc = "sweep" /\ reaper'.at = {} /\ reaper'.todo = Everything
        /\ UNCHANGED box
    BY <1>1 DEF Sweep, Boot, Resting
  <2>2. ASSUME NEW j \in Jobs, Present(j, "device") PROVE DeviceOf(j) \in Everything
    <3>1. box[j]["device"].gen \in 1 .. MaxRuns
      BY <2>2, BoundAssumption DEF Typed, TypeOK, Made, Run, Roles
    <3>. QED
      BY <2>2, <3>1, Sweeping DEF DeviceOf, Ids, Same, Roles
  <2>3. \A j \in Jobs : DeviceOf(j)' = DeviceOf(j) /\ (Present(j, "device")' => Present(j, "device"))
    BY <2>1 DEF DeviceOf, Present
  <2>. QED
    BY <2>1, <2>2, <2>3 DEF Accounted
<1>2. ASSUME NEW b \in reaper.todo, Consider(b) \/ LookupFails(b) PROVE Accounted'
  <2>1. UNCHANGED box /\ reaper.pc = "sweep" /\ InOrder(b)
    BY <1>2 DEF Consider, LookupFails
  <2>2. \/ reaper' = [reaper EXCEPT !.todo = @ \ {b}, !.spared = @ \cup {b.job}]
        \/ reaper' = [reaper EXCEPT !.pc = "kill", !.at = {b}]
    BY <1>2 DEF Consider, LookupFails
  <2>3. \A j \in Jobs : /\ DeviceOf(j)' = DeviceOf(j) /\ DeviceOf(j).job = j
                        /\ Present(j, "device")' => Present(j, "device")
    BY <2>1 DEF DeviceOf, Present
  <2>4. reaper.at = {}
    BY <2>1 DEF Accounted
  <2>5. CASE reaper' = [reaper EXCEPT !.todo = @ \ {b}, !.spared = @ \cup {b.job}]
    <3>1. /\ reaper'.todo = reaper.todo \ {b} /\ reaper'.spared = reaper.spared \cup {b.job}
          /\ reaper'.at = {}
      BY <1>0, <2>4, <2>5 DEF ReaperState
    <3>. QED
      BY <2>1, <2>3, <3>1 DEF Accounted
  <2>6. CASE reaper' = [reaper EXCEPT !.pc = "kill", !.at = {b}]
    <3>1. /\ reaper'.todo = reaper.todo /\ reaper'.spared = reaper.spared
          /\ reaper'.at = {b} /\ reaper'.pc = "kill"
      BY <1>0, <2>6 DEF ReaperState
    <3>2. b.role = "gateway" => \A o \in reaper.todo : o.role = "gateway"
      BY <2>1 DEF InOrder
    <3>. QED
      BY <2>1, <2>3, <3>1, <3>2 DEF Accounted
  <2>. QED
    BY <2>2, <2>5, <2>6
<1>3. ASSUME NEW b \in reaper.todo, Kill(b) PROVE Accounted'
  <2>1. /\ reaper.pc = "kill" /\ reaper'.todo = reaper.todo \ {b} /\ reaper'.at = {}
        /\ reaper.spared \subseteq reaper'.spared
        /\ box'[b.job][b.role] # NoBox => b.job \in reaper'.spared
    BY <1>0, <1>3 DEF Kill, ReaperState
  <2>2. \A j \in Jobs : Later(j, "device")
    <3>1. CASE UNCHANGED box
      BY <3>1 DEF Later, Present, Up
    <3>2. CASE Remove(b.job, b.role)
      <4>1. \A j \in Jobs \ {b.job} : Later(j, "device")
        BY <1>0, <3>2, Removed DEF Later, Present, Up, Typed
      <4>2. Later(b.job, "device")
        BY <1>0, <3>2, Removed DEF Typed, Roles
      <4>. QED
        BY <4>1, <4>2
    <3>. QED
      BY <1>3, <3>1, <3>2 DEF Kill
  <2>3. ASSUME NEW j \in Jobs, Present(j, "device")', box'[j]["device"].old
        PROVE  j \in reaper'.spared \/ DeviceOf(j)' \in reaper'.todo
    <3>1. /\ Present(j, "device") /\ box[j]["device"].old /\ DeviceOf(j)' = DeviceOf(j)
      BY <2>1, <2>2, <2>3 DEF Later, DeviceOf
    <3>2. j \in reaper.spared \/ DeviceOf(j) \in reaper.todo
      BY <2>1, <3>1 DEF Accounted
    <3>3. DeviceOf(j) = b => box'[b.job][b.role] # NoBox /\ j = b.job
      BY <2>3 DEF DeviceOf, Present, NoBox
    <3>. QED
      BY <2>1, <3>1, <3>2, <3>3
  <2>. QED
    BY <2>1, <2>3 DEF Accounted
<1>4. CASE EndSweep
  BY <1>4 DEF EndSweep, Accounted, Resting
<1>5. CASE ListHeld \/ ReadLease \/ AskHolder \/ FreeLease
  <2>1. reaper.at = {}
    BY <1>5 DEF ListHeld, ReadLease, AskHolder, FreeLease, Accounted
  <2>2. reaper' = Resting
        \/ \E pc \in {"read", "ask", "free"} : reaper'.pc = pc /\ reaper'.at = reaper.at
    BY <1>0, <1>5 DEF ListHeld, ReadLease, AskHolder, FreeLease, ToNext, ReaperState
  <2>3. reaper'.at = {} /\ reaper'.pc \notin {"sweep", "kill"}
    BY <2>1, <2>2 DEF Resting
  <2>. QED
    BY <2>3 DEF Accounted
<1>. QED
  BY <1>1, <1>2, <1>3, <1>4, <1>5 DEF Reaps

\* The sweep is at a gateway that a device past its grace still borrows only if it left the
\* job's container alone before (reaper.ts:52, :143).
THEOREM GatewaysLastHold == Spec => []GatewaysLast
<1>1. Init => Accounted
  BY DEF Init, Accounted, Resting
<1>2. Typed /\ Accounted => GatewaysLast
  <2> SUFFICES ASSUME Typed, Accounted, NEW b \in reaper.at, b.role = "gateway",
                      Borrowed(b.job, "gateway"), box[b.job]["device"].old
               PROVE  b.job \in reaper.spared
    BY DEF GatewaysLast
  <2>1. b.job \in Jobs
    BY DEF Typed, TypeOK, ReaperState, Ids
  <2>2. DeviceOf(b.job) \notin reaper.todo
    BY DEF Accounted, DeviceOf
  <2>. QED
    BY <2>1, <2>2 DEF Accounted, Borrowed
<1>3. Typed /\ Accounted /\ [Next]_vars => Accounted'
  <2> SUFFICES ASSUME Typed, Accounted, [Next]_vars PROVE Accounted'
    OBVIOUS
  <2>1. ASSUME NEW j \in Jobs, Begin(j) PROVE Accounted'
    BY <2>1, AccountedKept DEF Begin, Later, Present, Up
  <2>2. ASSUME NEW j \in Jobs, Moves(j) PROVE Accounted'
    <3>1. \A k \in Jobs \ {j} : Later(k, "device")
      BY <2>2 DEF Moves, Boxed, Later, Present, Up
    <3>. QED
      BY <2>2, <3>1, AccountedKept DEF Moves, Boxed, Roles
  <2>3. CASE Rests /\ UNCHANGED reaper
    BY <2>3, AccountedKept DEF Rests, Roles
  <2>4. CASE UNCHANGED vars
    BY <2>4, AccountedKept DEF vars, Later, Present, Up
  <2>5. ASSUME NEW j \in Jobs, Crash(j) \/ \E r \in Roles : Exit(j, r) PROVE Accounted'
    BY <2>3, <2>5, RestsFaults DEF Crash, Exit
  <2>6. CASE Age
    BY <2>3, <2>6, RestsTime DEF Age
  <2>7. ASSUME NEW j \in Jobs, Cancel(j) \/ Announce(j) PROVE Accounted'
    BY <2>3, <2>7, RestsRow
  <2>. QED
    BY <2>1, <2>2, <2>4, <2>5, <2>6, <2>7, WorksMoves, AccountedReaps DEF Next
<1>. QED
  BY <1>1, <1>2, <1>3, TypedInit, TypedNext, PTL DEF Spec

-----------------------------------------------------------------------------
(* One user per camera *)

\* The jobs the property makes an exception of.
Exempt == crossed \cup disowned
USE DEF Exempt

\* A container, running or not, that was made with a camera and its run has not given up.
Filming(j, r) == Present(j, r) /\ ~box[j][r].stray /\ box[j][r].cam # 0

\* The places of a run before it has a camera, where it gets one, and from the lease to
\* the last container made.
Before == {"refuse", "clear"}
Taking == {"bridge", "bridgeRun", "feed", "gate", "gateRun", "gateSettle", "deviceRun"}
Getting == {"grant", "lease", "bridge", "bridgeRun", "feed"}

\* Where the device is there to be removed; where the bridge no longer is.
Standing == {"usable", "pin", "verify", "package", "ready", "dropDevice"}
Giving == {"dropLease", "dropGate", "settle"}

\* What a run has made and will give back, or has died with.
Recalled(j, r) ==
    \/ run[j].pc = "dead"
    \/ /\ r = "device"
       /\ run[j].pc \in Standing
    \/ r = "bridge" /\ run[j].pc = "feed"
    \/ /\ r = "bridge" /\ run[j].bridge
       /\ run[j].pc \in InProgress \ Giving

\* A container that films has the lease of its camera, and a run gives its lease back only
\* when it films no more: what an earlier run left has another camera.
Lent ==
    \A j \in Jobs, r \in Roles : Filming(j, r) =>
        /\ j \notin Exempt => lease[box[j][r].cam] = j
        /\ box[j][r].gen = run[j].gen => Recalled(j, r)
        /\ j \notin Exempt /\ box[j][r].gen # run[j].gen => box[j][r].cam # run[j].cam

\* A run that acquires has a live row unless it was cancelled, and the lease of the camera it is about to use.
Taken ==
    \A j \in Jobs :
        /\ run[j].pc \in AcquirePc => j \in live \cup disowned
        /\ run[j].pc \in Before => run[j].cam = 0 /\ ~run[j].bridge
        /\ run[j].pc \in Getting \/ run[j].bridge => job[j].camera
        /\ j \notin Exempt /\ run[j].pc \in Taking /\ run[j].cam # 0
           => lease[run[j].cam] = j

\* A lease is of a job that ran.
Lenders == \A c \in Cameras : lease[c] # NoJob => run[lease[c]].gen # 0

\* A job that neither acquires nor films, but with the cameras that were listed.
Finished(j) ==
    /\ run[j].pc \notin AcquirePc
    /\ \A r \in Roles : Filming(j, r) => box[j][r].cam \in reaper.held

\* While leases are reconciled: a camera in use that was not listed is of a run begun since,
\* whose row is live; so the holder of the lease about to be freed uses it no more, whatever
\* its row says by then.
Reconciled ==
    /\ reaper.pc \in {"read", "ask", "free"} =>
          \A j \in Jobs \ Exempt, r \in Roles :
             Filming(j, r) /\ box[j][r].cam \notin reaper.held =>
                j \in live /\ box[j][r].gen = run[j].gen
    /\ reaper.pc \in {"ask", "free"} =>
          /\ reaper.holder \in Jobs /\ run[reaper.holder].gen # 0
          /\ reaper.next \notin reaper.held
    /\ reaper.pc = "free" => reaper.holder \in Exempt \/ Finished(reaper.holder)

\* The inductive invariant of the cameras.
Filmed == Lent /\ Taken /\ Lenders /\ Reconciled

\* A container that films after a step did before, for the same run.
Keeps(j, r) == Filming(j, r)' =>
    Filming(j, r) /\ box'[j][r].gen = box[j][r].gen /\ box'[j][r].cam = box[j][r].cam

\* docker rm, then docker run: what of it films.
LEMMA RemoveKeeps ==
    ASSUME TypeOK, NEW j \in Jobs, NEW r \in Roles, Remove(j, r)
    PROVE  ~Filming(j, r)' /\ \A k \in Jobs, q \in Roles : Keeps(k, q)
<1>1. box \in [Jobs -> [Roles -> Box]] /\ box[j][r] \in Box
  BY DEF TypeOK
<1>2. ~Filming(j, r)'
  <2>1. CASE RemoveSucceeds(j, r)
    <3>1. box'[j][r] = NoBox
      BY <1>1, <2>1 DEF RemoveSucceeds
    <3>. QED
      BY <3>1 DEF Filming, Present, NoBox
  <2>2. CASE RemoveFails(j, r)
    <3>1. box' = [box EXCEPT ![j] = [box[j] EXCEPT ![r] = [box[j][r] EXCEPT !.stray = TRUE]]]
      BY <2>2 DEF RemoveFails
    <3>2. box'[j][r] = [box[j][r] EXCEPT !.stray = TRUE]
      BY <1>1, <3>1
    <3>3. box'[j][r].stray
      BY <1>1, <3>2 DEF Box
    <3>. QED
      BY <3>3 DEF Filming
  <2>. QED
    BY <2>1, <2>2 DEF Remove
<1>3. \A k \in Jobs, q \in Roles : k # j \/ q # r => box'[k][q] = box[k][q]
  BY Removed
<1>4. \A k \in Jobs, q \in Roles : k # j \/ q # r => Keeps(k, q)
  BY <1>3 DEF Keeps, Filming, Present
<1>. QED
  BY <1>2, <1>4 DEF Keeps

LEMMA StartKeeps ==
    ASSUME Typed, NEW j \in Jobs, NEW r \in Roles, NEW cam \in 0 .. PoolSize,
           RunSucceeds(j, r, cam) \/ RunFails(j, r, cam)
    PROVE  /\ \A k \in Jobs, q \in Roles : k # j \/ q # r => Keeps(k, q)
           /\ \/ Keeps(j, r)
              \/ /\ RunSucceeds(j, r, cam)
                 /\ box'[j][r].gen = run[j].gen /\ box'[j][r].cam = cam
           /\ RunFails(j, r, cam) => Keeps(j, r)
<1>1. box \in [Jobs -> [Roles -> Box]] /\ box[j] \in [Roles -> Box]
  BY DEF Typed, TypeOK
<1>2. CASE UNCHANGED box
  BY <1>2 DEF Keeps, Filming, Present
<1>3. ASSUME NEW s, NEW stray, box' = [box EXCEPT ![j][r] = New(j, cam, s, stray)]
      PROVE  /\ \A k \in Jobs, q \in Roles : k # j \/ q # r => Keeps(k, q)
             /\ box'[j][r].gen = run[j].gen /\ box'[j][r].cam = cam /\ box'[j][r].stray = stray
  <2>1. /\ \A k \in Jobs, q \in Roles : k # j \/ q # r => box'[k][q] = box[k][q]
        /\ box'[j][r] = New(j, cam, s, stray)
    BY <1>1, <1>3
  <2>2. \A k \in Jobs, q \in Roles : k # j \/ q # r => Keeps(k, q)
    BY <2>1 DEF Keeps, Filming, Present
  <2>. QED
    BY <2>1, <2>2 DEF New, NoBox
<1>4. ASSUME RunFails(j, r, cam) PROVE Keeps(j, r)
  <2>1. ASSUME NEW s, box' = [box EXCEPT ![j][r] = New(j, cam, s, TRUE)]
        PROVE  Keeps(j, r)
    BY <1>3, <2>1 DEF Keeps, Filming
  <2>. QED
    BY <1>2, <1>4, <2>1 DEF RunFails
<1>5. CASE RunSucceeds(j, r, cam)
  BY <1>3, <1>4, <1>5 DEF RunSucceeds
<1>6. CASE RunFails(j, r, cam)
  BY <1>2, <1>3, <1>4, <1>6 DEF RunFails
<1>. QED
  BY <1>4, <1>5, <1>6

\* A step of a run that leaves the leases alone.
Rolls(j) ==
    /\ UNCHANGED <<job, lease, live, reaper, crossed, disowned>>
    /\ \A k \in Jobs \ {j} : run'[k] = run[k]
    /\ run'[j].gen = run[j].gen /\ run'[j].cam \in {0, run[j].cam}
    /\ \A k \in Jobs \ {j}, r \in Roles : Keeps(k, r)
    /\ \A r \in Roles :
          \/ Keeps(j, r) /\ (Filming(j, r)' /\ Recalled(j, r) => Recalled(j, r)')
          \/ /\ run[j].pc \in Taking /\ Recalled(j, r)'
             /\ box'[j][r].gen = run[j].gen /\ box'[j][r].cam = run[j].cam
    /\ run'[j].pc \in AcquirePc => run[j].pc \in AcquirePc
    /\ run'[j].pc \in Taking => run[j].pc \in Taking \cup Before
    /\ run'[j].pc \in Before => run[j].pc \in Before /\ run'[j].bridge = run[j].bridge
    /\ run'[j].pc \in Getting \/ run'[j].bridge =>
          run[j].pc \in Getting \/ run[j].bridge \/ job[j].camera

LEMMA RollsFilmed ==
    ASSUME Typed, Filmed, NEW j \in Jobs, Rolls(j)
    PROVE  Filmed'
<1>1. Taken'
  BY DEF Rolls, Filmed, Taken
<1>2. Lenders'
  <2>1. \A c \in Cameras : lease[c] # NoJob => lease[c] \in Jobs
    BY DEF Typed, TypeOK
  <2>. QED
    BY <2>1 DEF Rolls, Filmed, Lenders
<1>3. ASSUME NEW k \in Jobs \ {j}, NEW r \in Roles, Filming(k, r)'
      PROVE  /\ k \notin Exempt' => lease'[box'[k][r].cam] = k
             /\ box'[k][r].gen = run'[k].gen => Recalled(k, r)'
             /\ k \notin Exempt' /\ box'[k][r].gen # run'[k].gen
                => box'[k][r].cam # run'[k].cam
  BY <1>3 DEF Rolls, Keeps, Filmed, Lent, Recalled
<1>4. ASSUME NEW r \in Roles, Filming(j, r)'
      PROVE  /\ j \notin Exempt' => lease'[box'[j][r].cam] = j
             /\ box'[j][r].gen = run'[j].gen => Recalled(j, r)'
             /\ j \notin Exempt' /\ box'[j][r].gen # run'[j].gen
                => box'[j][r].cam # run'[j].cam
  <2>1. CASE Keeps(j, r) /\ (Recalled(j, r) => Recalled(j, r)')
    BY <1>4, <2>1 DEF Rolls, Keeps, Filmed, Lent, Filming
  <2>2. CASE /\ run[j].pc \in Taking /\ Recalled(j, r)'
             /\ box'[j][r].gen = run[j].gen /\ box'[j][r].cam = run[j].cam
    BY <1>4, <2>2 DEF Rolls, Filmed, Taken, Filming
  <2>. QED
    BY <1>4, <2>1, <2>2 DEF Rolls
<1>5. Lent'
  BY <1>3, <1>4 DEF Lent
<1>6. Reconciled'
  <2>1. \A k \in Jobs, r \in Roles :
           Filming(k, r)' => \/ Keeps(k, r)
                             \/ k = j /\ run[j].pc \in Taking /\ box'[k][r].gen = run[k].gen
    BY DEF Rolls
  <2>2. \A k \in Jobs : run'[k].gen = run[k].gen
    BY DEF Rolls
  <2>3. run[j].pc \in Taking => j \in live \/ j \in Exempt
    BY DEF Filmed, Taken, Taking, AcquirePc
  <2>. QED
    BY <2>1, <2>2, <2>3 DEF Rolls, Keeps, Filmed, Reconciled, Finished,
       Taking, AcquirePc
<1>. QED
  BY <1>1, <1>2, <1>5, <1>6 DEF Filmed

\* A step that leaves runs and leases alone, and begins no reconciliation.
LEMMA StillFilmed ==
    ASSUME Typed, Filmed, UNCHANGED <<job, lease, run, crossed, disowned>>, live' \subseteq live,
           \A j \in Jobs, r \in Roles : Keeps(j, r),
           \A j \in Jobs : run[j].pc \in AcquirePc /\ j \in live => j \in live',
           \/ UNCHANGED <<live, reaper>>
           \/ reaper'.pc \notin {"read", "ask", "free"}
    PROVE  Filmed'
<1>1. Taken' /\ Lenders'
  BY DEF Filmed, Taken, Lenders
<1>2. Lent'
  BY DEF Filmed, Lent, Keeps, Recalled
<1>3. Reconciled'
  BY DEF Filmed, Reconciled, Keeps, Finished
<1>. QED
  BY <1>1, <1>2, <1>3 DEF Filmed

LEMMA Went ==
    ASSUME TypeOK, NEW j \in Jobs, NEW pc, Goto(j, pc)
    PROVE  /\ \A k \in Jobs \ {j} : run'[k] = run[k]
           /\ run'[j].pc = pc /\ run'[j].gen = run[j].gen /\ run'[j].cam = run[j].cam
           /\ run'[j].bridge = run[j].bridge
BY DEF TypeOK, Goto, Run

\* The containers as they were, or all but one that is removed.
Spares(j, R) ==
    /\ \A k \in Jobs, q \in Roles : Keeps(k, q)
    /\ \A r \in R : ~Filming(j, r)'

LEMMA NothingDone == ASSUME UNCHANGED box PROVE \A j \in Jobs : Spares(j, {})
BY DEF Spares, Keeps, Filming, Present

LEMMA OneRemoved ==
    ASSUME TypeOK, NEW j \in Jobs, NEW r \in Roles, Remove(j, r)
    PROVE  Spares(j, {r})
BY RemoveKeeps DEF Spares

\* The places a step may go on to, as far as the cameras are concerned.
Where(j, pc) ==
    /\ pc \in AcquirePc => run[j].pc \in AcquirePc
    /\ pc \in Taking => run[j].pc \in Taking \cup Before
    /\ pc \in Before => run[j].pc \in Before
    /\ pc \in Getting => run[j].pc \in Getting \/ job[j].camera

\* What a run recalls and has not removed it still recalls at the next place.
Calls(j, pc, R) ==
    \A r \in Roles \ R :
       \/ pc = "dead"
       \/ r = "gateway"
       \/ r = "device" /\ run[j].pc \notin Standing
       \/ r = "device" /\ pc \in Standing
       \/ r = "bridge" /\ ~run[j].bridge /\ run[j].pc # "feed"
       \/ r = "bridge" /\ run[j].pc \in Giving
       \/ r = "bridge" /\ run[j].bridge /\ pc \in InProgress \ Giving

\* A step that goes on elsewhere.
LEMMA RollsOn ==
    ASSUME TypeOK, NEW j \in Jobs, NEW pc, Goto(j, pc), Running(j),
           UNCHANGED <<job, lease, live, reaper, crossed, disowned>>,
           NEW R, Spares(j, R), Where(j, pc), Calls(j, pc, R)
    PROVE  Rolls(j)
<1>0. /\ \A k \in Jobs \ {j} : run'[k] = run[k]
      /\ run'[j].pc = pc /\ run'[j].gen = run[j].gen /\ run'[j].cam = run[j].cam
      /\ run'[j].bridge = run[j].bridge
  BY Went
<1>1. ASSUME NEW r \in Roles, Filming(j, r)', Recalled(j, r)
      PROVE  Recalled(j, r)'
  <2>1. r \notin R
    BY <1>1 DEF Spares
  <2>2. run[j].pc # "dead"
    BY DEF Running, InProgress, AcquirePc, ReleasePc
  <2>. QED
    BY <1>0, <1>1, <2>1, <2>2 DEF Calls, Recalled, Roles, Standing, Giving
<1>. QED
  BY <1>0, <1>1 DEF Rolls, Spares, Where

\* The steps of a run, one by one.
LEMMA RollsGateway ==
    ASSUME Typed, Filmed, NEW j \in Jobs, AcquireGateway(j)
    PROVE  Rolls(j)
<1>0. /\ TypeOK /\ "gateway" \in Roles /\ 0 \in 0 .. PoolSize
      /\ run \in [Jobs -> Run] /\ run[j].cam \in 0 .. PoolSize
      /\ box \in [Jobs -> [Roles -> Box]]
  BY BoundAssumption DEF Typed, TypeOK, Roles, Run
<1>a. ~job[j].camera => ~run[j].bridge
  BY DEF Filmed, Taken
<1>1. CASE ClearGateway(j)
  <2>1. Spares(j, {"gateway"}) /\ Goto(j, "gateRun")
    BY <1>0, <1>1, OneRemoved DEF ClearGateway
  <2>2. Where(j, "gateRun") /\ Calls(j, "gateRun", {"gateway"}) /\ Running(j)
    BY <1>1 DEF ClearGateway, At, Where, Calls, Running, AcquirePc, InProgress, Taking,
       Getting,
       Before, Roles, Standing, Giving
  <2>. QED
    BY <1>0, <1>1, <2>1, <2>2, RollsOn DEF ClearGateway
<1>2. CASE RunGateway(j)
  <2>1. Spares(j, {})
    <3>1. RunSucceeds(j, "gateway", 0) \/ RunFails(j, "gateway", 0)
      BY <1>2 DEF RunGateway
    <3>2. /\ \A k \in Jobs, q \in Roles : k # j \/ q # "gateway" => Keeps(k, q)
          /\ Keeps(j, "gateway") \/ box'[j]["gateway"].cam = 0
      BY <1>0, <3>1, StartKeeps
    <3>. QED
      BY <3>2 DEF Spares, Keeps, Filming
  <2>2. ASSUME NEW pc \in {"gateSettle", GatewayFailed(j)}, Goto(j, pc)
        PROVE  Rolls(j)
    <3>1. Where(j, pc) /\ Running(j)
      BY <1>2, <2>2 DEF RunGateway, At, Where, Running, GatewayFailed, AcquirePc, InProgress,
         Taking, Getting, Before
    <3>2. Calls(j, pc, {})
      BY <1>a, <1>2, <2>2 DEF RunGateway, At, Calls, GatewayFailed, AcquirePc, ReleasePc,
         InProgress, Roles, Standing, Giving
    <3>. QED
      BY <1>0, <1>2, <2>1, <2>2, <3>1, <3>2, RollsOn DEF RunGateway
  <2>. QED
    BY <1>2, <2>2 DEF RunGateway
<1>3. CASE SettleGateway(j)
  <2>0. Running(j) /\ run[j].pc = "gateSettle"
    BY <1>3 DEF SettleGateway, At, Running, InProgress, AcquirePc
  <2>1. CASE Remove(j, "gateway") /\ Goto(j, GatewayFailed(j))
    <3>1. Spares(j, {"gateway"})
      BY <1>0, <2>1, OneRemoved
    <3>2. Where(j, GatewayFailed(j))
      BY <2>0 DEF Where, GatewayFailed, AcquirePc, Taking, Getting, Before
    <3>3. Calls(j, GatewayFailed(j), {"gateway"})
      BY <1>a, <2>0 DEF Calls, GatewayFailed, InProgress, AcquirePc, ReleasePc, Roles,
         Standing, Giving
    <3>. QED
      BY <1>0, <1>3, <2>0, <2>1, <3>1, <3>2, <3>3, RollsOn DEF SettleGateway
  <2>2. CASE /\ run' = [run EXCEPT ![j].pc = "deviceRun", ![j].gateway = TRUE]
             /\ UNCHANGED box
    <3>1. /\ \A k \in Jobs \ {j} : run'[k] = run[k]
          /\ run'[j].pc = "deviceRun" /\ run'[j].gen = run[j].gen /\ run'[j].cam = run[j].cam
          /\ run'[j].bridge = run[j].bridge
      BY <1>0, <2>2 DEF Run
    <3>2. Spares(j, {})
      BY <2>2, NothingDone
    <3>3. \A r \in Roles : Recalled(j, r) => Recalled(j, r)'
      BY <2>0, <3>1 DEF Recalled, InProgress, AcquirePc, ReleasePc, Standing, Giving
    <3>4. /\ "deviceRun" \notin Getting \cup Before
          /\ run[j].pc \in Taking /\ run[j].pc \in AcquirePc
      BY <2>0 DEF Getting, Before, Taking, AcquirePc
    <3>. QED
      BY <1>3, <3>1, <3>2, <3>3, <3>4 DEF Rolls, Spares, SettleGateway
  <2>. QED
    BY <1>3, <2>1, <2>2 DEF SettleGateway
<1>. QED
  BY <1>1, <1>2, <1>3 DEF AcquireGateway

LEMMA RollsDevice ==
    ASSUME Typed, Filmed, NEW j \in Jobs, AcquireDevice(j)
    PROVE  Rolls(j)
<1>0. /\ TypeOK /\ "device" \in Roles /\ box \in [Jobs -> [Roles -> Box]]
      /\ run \in [Jobs -> Run] /\ run[j].cam \in 0 .. PoolSize
  BY DEF Typed, TypeOK, Roles, Run
<1>a. /\ run[j].pc \in Before => ~run[j].bridge
      /\ run[j].pc \in Getting => job[j].camera
  BY DEF Filmed, Taken
<1>1. CASE Refuse(j)
  <2>1. PICK pc \in {"clear", "settle"} : Goto(j, pc)
    BY <1>1 DEF Refuse
  <2>2. Where(j, pc) /\ Calls(j, pc, {}) /\ Running(j)
    BY <1>a, <1>1 DEF Refuse, At, Where, Calls, Running, AcquirePc, InProgress, Taking,
       Getting,
       Before, Roles, Standing, Giving
  <2>. QED
    BY <1>0, <1>1, <2>1, <2>2, RollsOn, NothingDone DEF Refuse
<1>2. CASE ClearDevice(j)
  <2>1. PICK pc \in {"grant", "gate", "deviceRun"} :
           Goto(j, pc) /\ (pc = "grant" => job[j].camera)
    BY <1>2 DEF ClearDevice, AfterCamera
  <2>2. Where(j, pc) /\ Running(j)
    BY <1>2, <2>1 DEF ClearDevice, At, Where, Running, AcquirePc, InProgress, Taking, Getting,
       Before
  <2>3. Calls(j, pc, {"device"})
    BY <1>a, <1>2 DEF ClearDevice, At, Calls, Before, Roles, Standing, Giving
  <2>. QED
    BY <1>0, <1>2, <2>1, <2>2, <2>3, RollsOn, OneRemoved DEF ClearDevice
<1>3. CASE RunDevice(j)
  <2>0. run[j].pc = "deviceRun" /\ Running(j)
    BY <1>3 DEF RunDevice, At, Running, InProgress, AcquirePc
  <2>1. PICK pc \in {"usable", "dropDevice"} :
           /\ Goto(j, pc)
           /\ RunSucceeds(j, "device", run[j].cam) \/ RunFails(j, "device", run[j].cam)
    BY <1>3 DEF RunDevice
  <2>2. /\ \A k \in Jobs \ {j} : run'[k] = run[k]
        /\ run'[j].pc = pc /\ run'[j].gen = run[j].gen /\ run'[j].cam = run[j].cam
        /\ run'[j].bridge = run[j].bridge
    BY <1>0, <2>1, Went
  <2>3. /\ \A k \in Jobs, q \in Roles : k # j \/ q # "device" => Keeps(k, q)
        /\ \/ Keeps(j, "device")
           \/ box'[j]["device"].gen = run[j].gen /\ box'[j]["device"].cam = run[j].cam
    BY <1>0, <2>1, StartKeeps
  <2>4. Recalled(j, "device")' /\ \A r \in Roles : Recalled(j, r) => Recalled(j, r)'
    BY <2>0, <2>2 DEF Recalled, InProgress, AcquirePc, ReleasePc, Roles, Standing, Giving
  <2>5. /\ pc \notin Taking \cup Getting \cup Before /\ run[j].pc \in Taking
        /\ run[j].pc \in AcquirePc
    BY <2>0 DEF Taking, Getting, Before, AcquirePc
  <2>. QED
    BY <1>3, <2>2, <2>3, <2>4, <2>5 DEF Rolls, RunDevice
<1>4. ASSUME NEW pc \in Standing, Goto(j, pc),
             run[j].pc \in {"usable", "pin", "verify", "package"},
             UNCHANGED <<job, lease, live, reaper, crossed, disowned>>, Spares(j, {})
      PROVE  Rolls(j)
  <2>1. Where(j, pc) /\ Running(j)
    BY <1>4 DEF Where, Running, Standing, AcquirePc, ReleasePc, InProgress, Taking, Getting,
       Before
  <2>2. Calls(j, pc, {})
    BY <1>4 DEF Calls, InProgress, AcquirePc, ReleasePc, Roles, Standing, Giving
  <2>. QED
    BY <1>0, <1>4, <2>1, <2>2, RollsOn
<1>5. CASE Usable(j) \/ Verify(j) \/ Package(j)
  BY <1>4, <1>5, NothingDone DEF Usable, Verify, Package, At, Standing
<1>6. CASE Pin(j)
  <2>1. Spares(j, {})
    <3>1. CASE UNCHANGED box
      BY <3>1, NothingDone
    <3>2. CASE box' = [box EXCEPT ![j]["gateway"].pinned = TRUE]
      <4>1. "gateway" \in Roles /\ box[j] \in [Roles -> Box] /\ box[j]["gateway"] \in Box
        BY <1>0 DEF Roles
      <4>2. box' = [box EXCEPT ![j] = [box[j] EXCEPT
                       !["gateway"] = [box[j]["gateway"] EXCEPT !.pinned = TRUE]]]
        BY <3>2
      <4>3. /\ \A k \in Jobs, r \in Roles : k # j \/ r # "gateway" => box'[k][r] = box[k][r]
            /\ box'[j]["gateway"] = [box[j]["gateway"] EXCEPT !.pinned = TRUE]
        BY <1>0, <4>1, <4>2
      <4>4. /\ box'[j]["gateway"].state = box[j]["gateway"].state
            /\ box'[j]["gateway"].gen = box[j]["gateway"].gen
            /\ box'[j]["gateway"].cam = box[j]["gateway"].cam
            /\ box'[j]["gateway"].stray = box[j]["gateway"].stray
        BY <4>1, <4>3 DEF Box
      <4>. QED
        BY <4>3, <4>4 DEF Spares, Keeps, Filming, Present
    <3>. QED
      BY <1>6, <3>1, <3>2 DEF Pin
  <2>. QED
    BY <1>4, <1>6, <2>1 DEF Pin, At, Standing
<1>7. CASE AcquireThrows(j)
  <2>1. CASE run[j].pc \in {"usable", "pin", "verify", "package"}
    BY <1>4, <1>7, <2>1, NothingDone DEF AcquireThrows, Standing
  <2>2. PICK pc \in {"settle", "dropDevice"} :
           Goto(j, pc) /\ (run[j].pc \in {"grant", "lease"} => pc = "dropDevice")
    BY <1>7 DEF AcquireThrows
  <2>3. CASE run[j].pc \in {"refuse", "clear", "grant", "lease"}
    <3>1. Where(j, pc) /\ Running(j)
      BY <2>2, <2>3 DEF Where, Running, AcquirePc, InProgress, Taking, Getting, Before
    <3>2. Calls(j, pc, {})
      BY <1>a, <2>2, <2>3 DEF Calls, Before, InProgress, AcquirePc, ReleasePc, Roles,
         Standing, Giving
    <3>. QED
      BY <1>0, <1>7, <2>2, <3>1, <3>2, RollsOn, NothingDone DEF AcquireThrows
  <2>. QED
    BY <1>7, <2>1, <2>3 DEF AcquireThrows
<1>. QED
  BY <1>1, <1>2, <1>3, <1>5, <1>6, <1>7 DEF AcquireDevice

\* SET NX, on a camera nobody has.
Takes(j, c) ==
    /\ At(j, "lease") /\ c \in Cameras /\ lease[c] = NoJob
    /\ lease' = [lease EXCEPT ![c] = j]
    /\ run' = [run EXCEPT ![j].pc = "bridge", ![j].cam = c]
    /\ UNCHANGED <<job, box, live, reaper, crossed, disowned>>

LEMMA RollsCamera ==
    ASSUME Typed, Filmed, NEW j \in Jobs, AcquireCamera(j)
    PROVE  Rolls(j) \/ \E c \in Cameras : Takes(j, c)
<1>0. /\ TypeOK /\ "bridge" \in Roles /\ run \in [Jobs -> Run] /\ run[j].cam \in 0 .. PoolSize
      /\ run[j].next \in Int
  BY BoundAssumption DEF Typed, TypeOK, Roles, Run
<1>a. run[j].pc \in Getting => job[j].camera
  BY DEF Filmed, Taken
<1>1. CASE Grant(j)
  <2>1. Where(j, "lease") /\ Running(j) /\ Calls(j, "lease", {})
    BY <1>a, <1>1 DEF Grant, At, Where, Running, Calls, AcquirePc, ReleasePc, InProgress,
       Taking,
       Getting, Before, Roles, Standing, Giving
  <2>. QED
    BY <1>0, <1>1, <2>1, RollsOn, NothingDone DEF Grant
<1>2. CASE TryCamera(j)
  <2>0. run[j].pc = "lease" /\ Running(j)
    BY <1>2 DEF TryCamera, At, Running, InProgress, AcquirePc
  <2>1. CASE Goto(j, "dropDevice") /\ UNCHANGED lease
    <3>1. Where(j, "dropDevice") /\ Calls(j, "dropDevice", {})
      BY <2>0 DEF Where, Calls, AcquirePc, ReleasePc, InProgress, Taking, Getting, Before,
         Roles, Standing, Giving
    <3>. QED
      BY <1>0, <1>2, <2>0, <2>1, <3>1, RollsOn, NothingDone DEF TryCamera
  <2>2. CASE run' = [run EXCEPT ![j].next = run[j].next + 1] /\ UNCHANGED lease
    <3>1. /\ \A k \in Jobs \ {j} : run'[k] = run[k]
          /\ run'[j].pc = run[j].pc /\ run'[j].gen = run[j].gen /\ run'[j].cam = run[j].cam
          /\ run'[j].bridge = run[j].bridge
      BY <1>0, <2>2 DEF Run
    <3>2. Spares(j, {})
      BY <1>2, NothingDone DEF TryCamera
    <3>3. \A r \in Roles : Recalled(j, r) => Recalled(j, r)'
      BY <3>1 DEF Recalled
    <3>. QED
      BY <1>2, <2>2, <3>1, <3>2, <3>3 DEF Rolls, Spares, TryCamera
  <2>3. CASE /\ run[j].next \in Cameras /\ lease[run[j].next] = NoJob
             /\ lease' = [lease EXCEPT ![run[j].next] = j]
             /\ run' = [run EXCEPT ![j].pc = "bridge", ![j].cam = run[j].next]
    BY <1>2, <2>3 DEF TryCamera, Takes
  <2>. QED
    BY <1>2, <2>1, <2>2, <2>3 DEF TryCamera
<1>3. CASE ClearBridge(j)
  <2>1. Where(j, "bridgeRun") /\ Running(j) /\ Calls(j, "bridgeRun", {"bridge"})
    BY <1>a, <1>3 DEF ClearBridge, At, Where, Running, Calls, AcquirePc, InProgress, Taking,
       Getting, Before, Roles, Standing, Giving
  <2>. QED
    BY <1>0, <1>3, <2>1, RollsOn, OneRemoved DEF ClearBridge
<1>4. CASE RunBridge(j)
  <2>0. run[j].pc = "bridgeRun" /\ Running(j)
    BY <1>4 DEF RunBridge, At, Running, InProgress, AcquirePc
  <2>1. PICK pc \in {"feed", "dropDevice"} :
           /\ Goto(j, pc)
           /\ \/ RunSucceeds(j, "bridge", run[j].cam) /\ pc = "feed"
              \/ RunFails(j, "bridge", run[j].cam) /\ pc = "dropDevice"
    BY <1>4 DEF RunBridge
  <2>2. /\ \A k \in Jobs \ {j} : run'[k] = run[k]
        /\ run'[j].pc = pc /\ run'[j].gen = run[j].gen /\ run'[j].cam = run[j].cam
        /\ run'[j].bridge = run[j].bridge
    BY <1>0, <2>1, Went
  <2>3. /\ \A k \in Jobs, q \in Roles : k # j \/ q # "bridge" => Keeps(k, q)
        /\ \/ Keeps(j, "bridge")
           \/ /\ pc = "feed"
              /\ box'[j]["bridge"].gen = run[j].gen /\ box'[j]["bridge"].cam = run[j].cam
    BY <1>0, <2>1, StartKeeps
  <2>4. /\ \A r \in Roles : Recalled(j, r) => Recalled(j, r)'
        /\ pc = "feed" => Recalled(j, "bridge")'
    BY <2>0, <2>2 DEF Recalled, InProgress, AcquirePc, ReleasePc, Roles, Standing, Giving
  <2>5. /\ pc \notin Taking \ {"feed"} /\ pc \notin Getting \ {"feed"} /\ pc \notin Before
        /\ run[j].pc \in Taking /\ run[j].pc \in Getting /\ run[j].pc \in AcquirePc
    BY <2>0 DEF Taking, Getting, Before, AcquirePc
  <2>. QED
    BY <1>4, <2>2, <2>3, <2>4, <2>5 DEF Rolls, RunBridge
<1>5. CASE Feed(j)
  <2>0. run[j].pc = "feed" /\ Running(j) /\ job[j].camera
    BY <1>a, <1>5 DEF Feed, At, Running, InProgress, AcquirePc, Getting
  <2>1. CASE Remove(j, "bridge") /\ Goto(j, "dropDevice")
    <3>1. Where(j, "dropDevice") /\ Calls(j, "dropDevice", {"bridge"})
      BY <2>0 DEF Where, Calls, AcquirePc, ReleasePc, InProgress, Taking, Getting, Before,
         Roles, Standing, Giving
    <3>. QED
      BY <1>0, <1>5, <2>0, <2>1, <3>1, RollsOn, OneRemoved DEF Feed
  <2>2. CASE /\ run' = [run EXCEPT ![j].pc = AfterCamera(j), ![j].bridge = TRUE]
             /\ UNCHANGED box
    <3>1. /\ \A k \in Jobs \ {j} : run'[k] = run[k]
          /\ run'[j].pc \in {"gate", "deviceRun"} /\ run'[j].gen = run[j].gen
          /\ run'[j].cam = run[j].cam /\ run'[j].bridge
      BY <1>0, <2>2 DEF Run, AfterCamera
    <3>2. Spares(j, {})
      BY <2>2, NothingDone
    <3>3. \A r \in Roles : Recalled(j, r) => Recalled(j, r)'
      BY <2>0, <3>1 DEF Recalled, InProgress, AcquirePc, ReleasePc, Roles, Standing, Giving
    <3>4. /\ run'[j].pc \notin Getting \cup Before
          /\ run[j].pc \in Taking /\ run[j].pc \in AcquirePc
      BY <2>0, <3>1 DEF Getting, Before, Taking, AcquirePc
    <3>. QED
      BY <1>5, <2>0, <3>1, <3>2, <3>3, <3>4 DEF Rolls, Spares, Feed
  <2>. QED
    BY <1>5, <2>1, <2>2 DEF Feed
<1>. QED
  BY <1>1, <1>2, <1>3, <1>4, <1>5 DEF AcquireCamera

LEMMA RollsRelease ==
    ASSUME Typed, Filmed, NEW j \in Jobs, Drive(j) \/ Release(j)
    PROVE  Rolls(j) \/ DropLease(j) \/ Settle(j)
<1>0. TypeOK /\ "device" \in Roles /\ "bridge" \in Roles /\ "gateway" \in Roles
  BY DEF Typed, TypeOK, Roles
<1>1. ASSUME NEW pc \in ReleasePc \cup {"settle"}
      PROVE  Where(j, pc)
  BY DEF Where, ReleasePc, AcquirePc, Taking, Getting, Before
<1>2. CASE Drive(j)
  <2>1. Calls(j, "dropDevice", {}) /\ Running(j)
    BY <1>2 DEF Drive, At, Calls, Running, InProgress, AcquirePc, ReleasePc, Roles, Standing,
       Giving
  <2>2. Where(j, "dropDevice")
    BY <1>1 DEF ReleasePc
  <2>. QED
    BY <1>0, <1>2, <2>1, <2>2, RollsOn, NothingDone DEF Drive
<1>3. CASE DropDevice(j)
  <2>1. PICK pc \in ReleasePc \cup {"settle"} :
           Goto(j, pc) /\ (run[j].bridge => pc = "dropBridge")
    BY <1>3 DEF DropDevice, AfterDevice, AfterBridge, AfterLease, ReleasePc
  <2>2. Calls(j, pc, {"device"}) /\ Running(j)
    BY <1>3, <2>1 DEF DropDevice, At, Calls, Running, InProgress, AcquirePc, ReleasePc,
       Roles, Standing, Giving
  <2>. QED
    BY <1>0, <1>1, <1>3, <2>1, <2>2, RollsOn, OneRemoved DEF DropDevice
<1>4. CASE DropBridge(j)
  <2>1. PICK pc \in ReleasePc \cup {"settle"} : Goto(j, pc)
    BY <1>4 DEF DropBridge, AfterBridge, AfterLease, ReleasePc
  <2>2. Calls(j, pc, {"bridge"}) /\ Running(j)
    BY <1>4 DEF DropBridge, At, Calls, Running, InProgress, AcquirePc, ReleasePc, Roles,
       Standing, Giving
  <2>. QED
    BY <1>0, <1>1, <1>4, <2>1, <2>2, RollsOn, OneRemoved DEF DropBridge
<1>5. CASE DropGateway(j)
  <2>1. Calls(j, "settle", {"gateway"}) /\ Running(j)
    BY <1>5 DEF DropGateway, At, Calls, Running, InProgress, AcquirePc, ReleasePc, Roles,
       Standing, Giving
  <2>2. Where(j, "settle")
    BY <1>1
  <2>. QED
    BY <1>0, <1>5, <2>1, <2>2, RollsOn, OneRemoved DEF DropGateway
<1>. QED
  BY <1>2, <1>3, <1>4, <1>5 DEF Release

LEMMA FilmedTakes ==
    ASSUME Typed, Filmed, NEW j \in Jobs, NEW c \in Cameras, Takes(j, c)
    PROVE  Filmed'
<1>0. /\ run \in [Jobs -> Run] /\ lease \in [Cameras -> Jobs \cup {NoJob}]
      /\ box \in [Jobs -> [Roles -> Box]] /\ run[j].pc = "lease" /\ j # NoJob
  BY NoJobAssumption DEF Typed, TypeOK, Takes, At
<1>1. /\ \A k \in Jobs \ {j} : run'[k] = run[k]
      /\ run'[j].pc = "bridge" /\ run'[j].gen = run[j].gen /\ run'[j].cam = c
      /\ run'[j].bridge = run[j].bridge
  BY <1>0 DEF Takes, Run
<1>2. /\ lease'[c] = j /\ lease[c] = NoJob /\ \A d \in Cameras \ {c} : lease'[d] = lease[d]
      /\ UNCHANGED <<job, box, live, reaper, crossed, disowned>>
  BY <1>0 DEF Takes
<1>3. \A k \in Jobs, r \in Roles : Filming(k, r)' => Filming(k, r) /\ box[k][r].cam \in Cameras
  BY <1>0, <1>2, BoundAssumption DEF Filming, Present, Box, Cameras
<1>4. Lent'
  <2>1. ASSUME NEW k \in Jobs, NEW r \in Roles, Filming(k, r)', k \notin Exempt
        PROVE  lease[box[k][r].cam] = k /\ box[k][r].cam # c /\ lease'[box[k][r].cam] = k
    <3>1. lease[box[k][r].cam] = k
      BY <1>3, <2>1 DEF Filmed, Lent
    <3>. QED
      BY <1>2, <1>3, <2>1, <3>1, NoJobAssumption
  <2>2. \A r \in Roles : Recalled(j, r) => Recalled(j, r)'
    BY <1>0, <1>1 DEF Recalled, InProgress, AcquirePc, ReleasePc, Roles, Standing, Giving
  <2>3. \A k \in Jobs, r \in Roles : Recalled(k, r) => Recalled(k, r)'
    BY <1>1, <2>2 DEF Recalled
  <2>4. ASSUME NEW k \in Jobs, NEW r \in Roles, Filming(k, r)'
        PROVE  /\ box'[k][r].gen = run'[k].gen => Recalled(k, r)'
               /\ k \notin Exempt' /\ box'[k][r].gen # run'[k].gen
                => box'[k][r].cam # run'[k].cam
    BY <1>1, <1>2, <1>3, <2>1, <2>3, <2>4 DEF Filmed, Lent
  <2>. QED
    BY <1>2, <2>1, <2>4 DEF Lent
<1>5. Taken'
  <2>1. ASSUME NEW k \in Jobs \ {j}, k \notin Exempt, run[k].pc \in Taking, run[k].cam # 0
        PROVE  lease'[run[k].cam] = k
    <3>1. lease[run[k].cam] = k /\ run[k].cam \in Cameras
      BY <1>0, <2>1, BoundAssumption DEF Filmed, Taken, Run, Cameras
    <3>. QED
      BY <1>2, <2>1, <3>1, NoJobAssumption
  <2>2. j \in live \cup disowned /\ job[j].camera /\ "bridge" \notin Before
    BY <1>0 DEF Filmed, Taken, AcquirePc, Getting, Before
  <2>. QED
    BY <1>1, <1>2, <2>1, <2>2 DEF Filmed, Taken
<1>6. Lenders'
  <2>1. run[j].gen # 0
    BY <1>0 DEF Typed, Made, Running, InProgress, AcquirePc
  <2>2. \A k \in Jobs : run'[k].gen = run[k].gen
    BY <1>1
  <2>. QED
    BY <1>0, <1>2, <2>1, <2>2 DEF Filmed, Lenders
<1>7. Reconciled'
  <2>1. \A k \in Jobs : run'[k].gen = run[k].gen
    BY <1>1
  <2>2. \A k \in Jobs : Finished(k) => Finished(k)'
    BY <1>0, <1>1, <1>2, <1>3 DEF Finished, AcquirePc
  <2>. QED
    BY <1>2, <1>3, <2>1, <2>2 DEF Filmed, Reconciled
<1>. QED
  BY <1>4, <1>5, <1>6, <1>7 DEF Filmed

\* A lease that nobody needs is let go of.
Frees(c, j) ==
    /\ \A d \in Cameras : lease'[d] \in {lease[d], NoJob}
    /\ \A d \in Cameras : lease'[d] # lease[d] => d = c /\ lease[d] = j

LEMMA Freed ==
    ASSUME Typed, NEW c, NEW j, ReleaseIfHeld(c, j)
    PROVE  Frees(c, j)
BY DEF Typed, TypeOK, ReleaseIfHeld, Frees

LEMMA LentOtherwise ==
    ASSUME Typed, Filmed, NEW c, NEW j, Frees(c, j), UNCHANGED <<box, crossed, disowned>>,
           \A k \in Jobs : run'[k].gen = run[k].gen,
           \A k \in Jobs \ Exempt, r \in Roles :
              Filming(k, r) => ~(k = j /\ box[k][r].cam = c)
    PROVE  /\ \A k \in Jobs, r \in Roles : Filming(k, r)' /\ k \notin Exempt =>
                 lease'[box[k][r].cam] = k
           /\ Lenders'
<1>1. box \in [Jobs -> [Roles -> Box]] /\ lease \in [Cameras -> Jobs \cup {NoJob}]
  BY DEF Typed, TypeOK
<1>2. \A k \in Jobs, r \in Roles : Filming(k, r)' => Filming(k, r) /\ box[k][r].cam \in Cameras
  BY <1>1, BoundAssumption DEF Filming, Present, Box, Cameras
<1>3. Lenders'
  BY <1>1 DEF Frees, Filmed, Lenders
<1>. QED
  BY <1>2, <1>3 DEF Frees, Filmed, Lent

LEMMA FilmedDropLease ==
    ASSUME Typed, Filmed, NEW j \in Jobs, DropLease(j)
    PROVE  Filmed'
<1>0. /\ run[j].pc = "dropLease" /\ TypeOK /\ lease \in [Cameras -> Jobs \cup {NoJob}]
      /\ run \in [Jobs -> Run]
      /\ UNCHANGED <<job, box, live, reaper, crossed, disowned>> /\ Frees(run[j].cam, j)
  BY Freed DEF DropLease, At, Typed, TypeOK
<1>1. PICK pc \in {"dropGate", "settle"} : Goto(j, pc)
  BY DEF DropLease, AfterLease
<1>2. /\ \A k \in Jobs \ {j} : run'[k] = run[k]
      /\ run'[j].pc = pc /\ run'[j].gen = run[j].gen /\ run'[j].cam = run[j].cam
      /\ run'[j].bridge = run[j].bridge
  BY <1>0, <1>1, Went
<1>3. \A r \in Roles : ~Recalled(j, r)
  BY <1>0 DEF Recalled, InProgress, AcquirePc, ReleasePc, Roles, Standing, Giving
<1>4. \A k \in Jobs \ Exempt, r \in Roles :
         Filming(k, r) => ~(k = j /\ box[k][r].cam = run[j].cam)
  BY <1>3 DEF Filmed, Lent
<1>5. /\ \A k \in Jobs, r \in Roles :
            Filming(k, r)' /\ k \notin Exempt => lease'[box[k][r].cam] = k
      /\ Lenders'
  <2>1. \A k \in Jobs : run'[k].gen = run[k].gen
    BY <1>2
  <2>. QED
    BY <1>0, <1>4, <2>1, LentOtherwise
<1>6. Lent'
  <2>1. \A k \in Jobs, r \in Roles : Filming(k, r)' => Filming(k, r)
    BY <1>0 DEF Filming, Present
  <2>2. \A k \in Jobs \ {j}, r \in Roles : Recalled(k, r) => Recalled(k, r)'
    BY <1>2 DEF Recalled
  <2>. QED
    BY <1>0, <1>2, <1>3, <1>5, <2>1, <2>2 DEF Filmed, Lent
<1>7. Taken'
  <2>1. ASSUME NEW k \in Jobs \ {j}, k \notin Exempt, run[k].pc \in Taking, run[k].cam # 0
        PROVE  lease'[run[k].cam] = k
    <3>1. lease[run[k].cam] = k /\ run[k].cam \in Cameras
      BY <1>0, <2>1, BoundAssumption DEF Filmed, Taken, Run, Cameras
    <3>. QED
      BY <1>0, <2>1, <3>1 DEF Frees
  <2>2. pc \notin AcquirePc \cup Before \cup Getting \cup Taking
    BY DEF AcquirePc, Before, Getting, Taking
  <2>. QED
    BY <1>0, <1>2, <2>1, <2>2 DEF Filmed, Taken
<1>8. Reconciled'
  <2>1. \A k \in Jobs : run'[k].gen = run[k].gen
    BY <1>2
  <2>2. \A k \in Jobs, r \in Roles : Filming(k, r)' => Filming(k, r)
    BY <1>0 DEF Filming, Present
  <2>3. \A k \in Jobs : Finished(k) => Finished(k)'
    BY <1>0, <1>2, <2>2 DEF Finished, AcquirePc
  <2>. QED
    BY <1>0, <2>1, <2>2, <2>3 DEF Filmed, Reconciled
<1>. QED
  BY <1>5, <1>6, <1>7, <1>8 DEF Filmed

LEMMA FilmedSettle ==
    ASSUME Typed, Filmed, NEW j \in Jobs, Settle(j)
    PROVE  Filmed'
<1>0. /\ run[j].pc = "settle" /\ run \in [Jobs -> Run] /\ live' = live \ {j}
      /\ UNCHANGED <<job, box, lease, reaper, crossed, disowned>>
  BY DEF Settle, At, Typed, TypeOK
<1>1. /\ \A k \in Jobs \ {j} : run'[k] = run[k]
      /\ run'[j].pc = "idle" /\ run'[j].gen = run[j].gen /\ run'[j].cam = 0 /\ ~run'[j].bridge
  BY <1>0 DEF Settle, Ended
<1>2. \A k \in Jobs, r \in Roles : Filming(k, r)' => Filming(k, r)
  BY <1>0 DEF Filming, Present
<1>3. \A r \in Roles : Filming(j, r) => box[j][r].gen # run[j].gen
  BY <1>0 DEF Recalled, InProgress, AcquirePc, ReleasePc, Filmed, Lent, Standing, Giving
<1>4. Lent'
  <2>1. \A k \in Jobs \ {j}, r \in Roles : Recalled(k, r) => Recalled(k, r)'
    BY <1>1 DEF Recalled
  <2>2. \A k \in Jobs, r \in Roles : Filming(k, r) => box[k][r].cam # 0
    BY DEF Filming
  <2>. QED
    BY <1>0, <1>1, <1>2, <1>3, <2>1, <2>2 DEF Filmed, Lent
<1>5. Taken'
  <2>1. "idle" \notin AcquirePc \cup Before \cup Getting \cup Taking
    BY DEF AcquirePc, Before, Getting, Taking
  <2>. QED
    BY <1>0, <1>1, <2>1 DEF Filmed, Taken
<1>6. \A k \in Jobs : run'[k].gen = run[k].gen
  BY <1>1
<1>7. Lenders'
  BY <1>0, <1>6 DEF Filmed, Lenders, Typed, TypeOK
<1>8. Reconciled'
  <2>1. \A k \in Jobs : Finished(k) => Finished(k)'
    BY <1>0, <1>1, <1>2 DEF Finished, AcquirePc
  <2>. QED
    BY <1>0, <1>2, <1>3, <1>6, <2>1 DEF Filmed, Reconciled
<1>. QED
  BY <1>4, <1>5, <1>7, <1>8 DEF Filmed

LEMMA FilmedBegin ==
    ASSUME Typed, Filmed, NEW j \in Jobs, Begin(j)
    PROVE  Filmed'
<1>0. /\ \A k \in Jobs \ {j} : run'[k] = run[k]
      /\ run'[j].gen = run[j].gen + 1 /\ run'[j].pc = "refuse" /\ run[j].gen \in Nat
      /\ run'[j].cam = 0 /\ ~run'[j].bridge
      /\ live' = live \cup {j} /\ Exempt \subseteq Exempt' /\ disowned' = disowned
      /\ UNCHANGED <<job, box, lease, reaper>>
  BY Begun DEF Begin, Typed, TypeOK
<1>1. \A k \in Jobs, r \in Roles : Filming(k, r)' => Filming(k, r)
  BY <1>0 DEF Filming, Present
<1>2. \A r \in Roles : Filming(j, r) =>
         box[j][r].gen # run'[j].gen /\ box[j][r].cam # 0 /\ run[j].gen > 0
  BY <1>0 DEF Filming, Typed, Made
<1>3. Lent'
  <2>1. \A k \in Jobs \ {j}, r \in Roles : Recalled(k, r) => Recalled(k, r)'
    BY <1>0 DEF Recalled
  <2>. QED
    BY <1>0, <1>1, <1>2, <2>1 DEF Filmed, Lent
<1>4. Taken'
  <2>1. "refuse" \notin Getting \cup Taking
    BY DEF Getting, Taking
  <2>2. \A k \in Jobs : k \in live \cup disowned => k \in live' \cup disowned'
    BY <1>0
  <2>3. j \in live'
    BY <1>0
  <2>4. \A k \in Jobs \ {j} : k \notin Exempt' => k \notin Exempt
    BY <1>0
  <2>. QED
    BY <1>0, <2>1, <2>2, <2>3, <2>4 DEF Filmed, Taken
<1>5. \A k \in Jobs : run[k].gen # 0 => run'[k].gen # 0
  BY <1>0
<1>6. Lenders'
  BY <1>0, <1>5 DEF Filmed, Lenders, Typed, TypeOK
<1>7. reaper.pc \in {"read", "ask", "free"} /\ run[j].gen > 0 => j \in Exempt'
  BY <1>0 DEF Begin
<1>8. Reconciled'
  BY <1>0, <1>1, <1>2, <1>5, <1>7 DEF Filmed, Reconciled, Finished
<1>. QED
  BY <1>3, <1>4, <1>6, <1>8 DEF Filmed

LEMMA FilmedFaults ==
    ASSUME Typed, Filmed, NEW j \in Jobs, Crash(j) \/ \E r \in Roles : Exit(j, r)
    PROVE  Filmed'
<1>0. run \in [Jobs -> Run] /\ box \in [Jobs -> [Roles -> Box]]
  BY DEF Typed, TypeOK
<1>1. CASE Crash(j)
  <2>1. /\ \A k \in Jobs \ {j} : run'[k] = run[k]
        /\ run'[j].pc = "dead" /\ run'[j].gen = run[j].gen /\ run'[j].cam = 0
        /\ ~run'[j].bridge
    BY <1>0, <1>1 DEF Crash, Ended
  <2>2. Spares(j, {})
    BY <1>1, NothingDone DEF Crash
  <2>3. "dead" \notin AcquirePc \cup Taking \cup Before \cup Getting
    BY DEF AcquirePc, Taking, Before, Getting
  <2>4. Rolls(j)
    BY <1>1, <2>1, <2>2, <2>3 DEF Rolls, Spares, Recalled, Crash
  <2>. QED
    BY <2>4, RollsFilmed
<1>2. ASSUME NEW r \in Roles, Exit(j, r) PROVE Filmed'
  <2>1. /\ box[j] \in [Roles -> Box] /\ box[j][r] \in Box
        /\ box' = [box EXCEPT ![j] = [box[j] EXCEPT ![r] = [box[j][r] EXCEPT !.state = "down"]]]
    BY <1>0, <1>2 DEF Exit
  <2>2. /\ \A k \in Jobs, q \in Roles : k # j \/ q # r => box'[k][q] = box[k][q]
        /\ box'[j][r] = [box[j][r] EXCEPT !.state = "down"]
    BY <1>0, <2>1
  <2>3. /\ box'[j][r].gen = box[j][r].gen /\ box'[j][r].cam = box[j][r].cam
        /\ box'[j][r].stray = box[j][r].stray
    BY <2>1, <2>2 DEF Box
  <2>4. Keeps(j, r)
    BY <1>2, <2>3 DEF Keeps, Filming, Present, Exit, Up
  <2>5. \A k \in Jobs, q \in Roles : Keeps(k, q)
    BY <2>2, <2>4 DEF Keeps, Filming, Present
  <2>. QED
    BY <1>2, <2>5, StillFilmed DEF Exit
<1>. QED
  BY <1>1, <1>2

\* A cancelled job is an exception from then on; a row that comes back takes nothing away.
LEMMA FilmedRow ==
    ASSUME Typed, Filmed, NEW j \in Jobs, Cancel(j) \/ Announce(j)
    PROVE  Filmed'
<1>1. /\ UNCHANGED <<job, box, lease, run, reaper, crossed>> /\ disowned \subseteq disowned'
      /\ \A k \in live : k \in live' \/ k \in disowned'
  BY DEF Cancel, Announce
<1>2. \A k \in Jobs, r \in Roles :
         (Filming(k, r)' <=> Filming(k, r)) /\ (Recalled(k, r)' <=> Recalled(k, r))
  BY <1>1 DEF Filming, Present, Recalled
<1>3. Lent' /\ Taken' /\ Lenders'
  BY <1>1, <1>2 DEF Filmed, Lent, Taken, Lenders
<1>4. \A k \in Jobs : Finished(k) => Finished(k)'
  BY <1>1, <1>2 DEF Finished
<1>5. Reconciled'
  BY <1>1, <1>2, <1>4 DEF Filmed, Reconciled
<1>. QED
  BY <1>3, <1>5 DEF Filmed

LEMMA FilmedTime == ASSUME Typed, Filmed, Age PROVE Filmed'
<1>0. \A j \in Jobs, r \in Roles : box[j][r] \in Box
  BY DEF Typed, TypeOK
<1>1. \A j \in Jobs, r \in Roles :
        \/ box'[j][r] = box[j][r]
        \/ box'[j][r] = [box[j][r] EXCEPT !.old = TRUE] /\ Present(j, r)
  BY DEF Age
<1>2. \A b \in Box : /\ [b EXCEPT !.old = TRUE].cam = b.cam
                     /\ [b EXCEPT !.old = TRUE].gen = b.gen
                     /\ [b EXCEPT !.old = TRUE].stray = b.stray
  BY DEF Box
<1>3. \A j \in Jobs, r \in Roles : Keeps(j, r)
  <2> SUFFICES ASSUME NEW j \in Jobs, NEW r \in Roles PROVE Keeps(j, r)
    OBVIOUS
  <2>1. CASE box'[j][r] = box[j][r]
    BY <2>1 DEF Keeps, Filming, Present
  <2>2. CASE box'[j][r] = [box[j][r] EXCEPT !.old = TRUE] /\ Present(j, r)
    <3>1. /\ box'[j][r].cam = box[j][r].cam /\ box'[j][r].gen = box[j][r].gen
          /\ box'[j][r].stray = box[j][r].stray
      BY <1>0, <1>2, <2>2
    <3>. QED
      BY <2>2, <3>1 DEF Keeps, Filming, Present
  <2>. QED
    BY <1>1, <2>1, <2>2
<1>. QED
  BY <1>3, StillFilmed DEF Age

LEMMA FilmedSweeps ==
    ASSUME Typed, Filmed,
           Sweep \/ Boot \/ EndSweep
           \/ \E b \in reaper.todo : Consider(b) \/ LookupFails(b) \/ Kill(b)
    PROVE  Filmed'
<1>0. /\ TypeOK /\ reaper \in ReaperState
      /\ \A b \in reaper.todo : b.job \in Jobs /\ b.role \in Roles
  BY DEF Typed, TypeOK, ReaperState, Ids
<1>1. UNCHANGED box => \A j \in Jobs, r \in Roles : Keeps(j, r)
  BY DEF Keeps, Filming, Present
<1>2. CASE Sweep
  BY <1>1, <1>2, StillFilmed DEF Sweep, Resting
<1>3. CASE Boot
  <2>1. \A j \in Jobs : run[j].pc \in AcquirePc => run[j].pc \notin {"dead", "ready"}
    BY DEF AcquirePc
  <2>. QED
    BY <1>1, <1>3, <2>1, StillFilmed DEF Boot, Resting
<1>4. CASE EndSweep
  <2>1. reaper'.pc \notin {"read", "ask", "free"}
    BY <1>4 DEF EndSweep, Resting
  <2>. QED
    BY <1>1, <1>4, <2>1, StillFilmed DEF EndSweep
<1>5. ASSUME NEW b \in reaper.todo, Consider(b) \/ LookupFails(b) PROVE Filmed'
  <2>1. reaper'.pc \notin {"read", "ask", "free"}
    BY <1>0, <1>5 DEF Consider, LookupFails, ReaperState
  <2>. QED
    BY <1>1, <1>5, <2>1, StillFilmed DEF Consider, LookupFails
<1>6. ASSUME NEW b \in reaper.todo, Kill(b) PROVE Filmed'
  <2>1. reaper'.pc \notin {"read", "ask", "free"}
    BY <1>0, <1>6 DEF Kill, ReaperState
  <2>2. \A j \in Jobs, r \in Roles : Keeps(j, r)
    BY <1>0, <1>1, <1>6, RemoveKeeps DEF Kill
  <2>. QED
    BY <1>6, <2>1, <2>2, StillFilmed DEF Kill
<1>. QED
  BY <1>2, <1>3, <1>4, <1>5, <1>6

LEMMA FilmedReconciles ==
    ASSUME Typed, Filmed, ListHeld \/ ReadLease \/ AskHolder \/ FreeLease
    PROVE  Filmed'
<1>0. /\ reaper \in ReaperState /\ UNCHANGED <<job, box, run, live, crossed, disowned>>
      /\ lease \in [Cameras -> Jobs \cup {NoJob}] /\ box \in [Jobs -> [Roles -> Box]]
  BY DEF Typed, TypeOK, ListHeld, ReadLease, AskHolder, FreeLease
<1>1. \A j \in Jobs, r \in Roles :
         (Filming(j, r)' <=> Filming(j, r)) /\ (Recalled(j, r)' <=> Recalled(j, r))
  BY <1>0 DEF Filming, Present, Recalled
<1>2. UNCHANGED lease => Lent' /\ Taken' /\ Lenders'
  BY <1>0, <1>1 DEF Filmed, Lent, Taken, Lenders
<1>3. /\ ToNext(reaper.next).pc = "read" /\ ToNext(reaper.next).held = reaper.held
  BY <1>0 DEF ToNext, ReaperState
<1>4. reaper.pc \in {"read", "ask", "free"} /\ reaper' = ToNext(reaper.next) => Reconciled'
  BY <1>0, <1>1, <1>3 DEF Filmed, Reconciled, Finished
<1>5. CASE ListHeld
  <2>1. reaper'.pc = "read" /\ reaper'.held = Held
    BY <1>0, <1>5 DEF ListHeld, ReaperState
  <2>2. \A j \in Jobs, r \in Roles : Filming(j, r) => box[j][r].cam \in Held
    BY DEF Filming, Held
  <2>3. Reconciled'
    BY <1>0, <1>1, <2>1, <2>2 DEF Reconciled
  <2>. QED
    BY <1>2, <1>5, <2>3 DEF Filmed, ListHeld
<1>6. CASE ReadLease
  <2>1. CASE reaper' = Resting
    <3>1. reaper'.pc = "idle"
      BY <2>1 DEF Resting
    <3>2. Reconciled'
      BY <3>1 DEF Reconciled
    <3>. QED
      BY <1>2, <1>6, <3>2 DEF Filmed, ReadLease
  <2>2. CASE reaper' = ToNext(reaper.next)
    BY <1>2, <1>4, <1>6, <2>2 DEF Filmed, ReadLease
  <2>3. CASE /\ reaper.next \in Cameras /\ reaper.next \notin reaper.held
             /\ lease[reaper.next] # NoJob
             /\ reaper' = [reaper EXCEPT !.pc = "ask", !.holder = lease[reaper.next]]
    <3>1. /\ reaper'.pc = "ask" /\ reaper'.holder = lease[reaper.next]
          /\ reaper'.next = reaper.next /\ reaper'.held = reaper.held
      BY <1>0, <2>3 DEF ReaperState
    <3>2. lease[reaper.next] \in Jobs /\ run[lease[reaper.next]].gen # 0
      BY <1>0, <2>3 DEF Filmed, Lenders
    <3>3. Reconciled'
      BY <1>0, <1>1, <1>6, <2>3, <3>1, <3>2 DEF Filmed, Reconciled, ReadLease
    <3>. QED
      BY <1>2, <1>6, <3>3 DEF Filmed, ReadLease
  <2>. QED
    BY <1>6, <2>1, <2>2, <2>3 DEF ReadLease
<1>7. CASE AskHolder
  <2>1. CASE reaper' = ToNext(reaper.next)
    BY <1>2, <1>4, <1>7, <2>1 DEF Filmed, AskHolder
  <2>2. CASE reaper.holder \notin live /\ reaper' = [reaper EXCEPT !.pc = "free"]
    <3>1. /\ reaper'.pc = "free" /\ reaper'.holder = reaper.holder
          /\ reaper'.next = reaper.next /\ reaper'.held = reaper.held
      BY <1>0, <2>2 DEF ReaperState
    <3>2. Reconciled'
      BY <1>0, <1>1, <1>7, <2>2, <3>1 DEF Filmed, Reconciled, AskHolder,
         Finished, Taken
    <3>. QED
      BY <1>2, <1>7, <3>2 DEF Filmed, AskHolder
  <2>. QED
    BY <1>7, <2>1, <2>2 DEF AskHolder
<1>8. CASE FreeLease
  <2>0. /\ Frees(reaper.next, reaper.holder) /\ reaper.pc = "free"
        /\ reaper' = ToNext(reaper.next)
    BY <1>8, Freed DEF FreeLease
  <2>1. reaper.holder \notin Exempt => Finished(reaper.holder)
    BY <2>0 DEF Filmed, Reconciled
  <2>2. \A k \in Jobs \ Exempt, r \in Roles :
           Filming(k, r) => ~(k = reaper.holder /\ box[k][r].cam = reaper.next)
    BY <2>0, <2>1 DEF Filmed, Reconciled, Finished
  <2>3. /\ \A k \in Jobs, r \in Roles :
              Filming(k, r)' /\ k \notin Exempt => lease'[box[k][r].cam] = k
        /\ Lenders'
    <3>1. \A k \in Jobs : run'[k].gen = run[k].gen
      BY <1>0
    <3>. QED
      BY <1>0, <2>0, <2>2, <3>1, LentOtherwise
  <2>4. Lent'
    BY <1>0, <1>1, <2>3 DEF Filmed, Lent
  <2>5. Taken'
    <3>1. ASSUME NEW k \in Jobs, k \notin Exempt, run[k].pc \in Taking, run[k].cam # 0
          PROVE  lease'[run[k].cam] = k
      <4>1. run[k].pc \in AcquirePc
        BY <3>1 DEF Taking, AcquirePc
      <4>2. lease[run[k].cam] = k /\ run[k].cam \in Cameras
        BY <3>1, BoundAssumption DEF Filmed, Taken, Typed, TypeOK, Run, Cameras
      <4>. QED
        BY <2>0, <2>1, <3>1, <4>1, <4>2 DEF Frees, Finished
    <3>. QED
      BY <1>0, <3>1 DEF Filmed, Taken
  <2>. QED
    BY <1>4, <2>0, <2>3, <2>4, <2>5 DEF Filmed
<1>. QED
  BY <1>5, <1>6, <1>7, <1>8

LEMMA FilmedNext == Typed /\ Filmed /\ [Next]_vars => Filmed'
<1> SUFFICES ASSUME Typed, Filmed, [Next]_vars PROVE Filmed'
  OBVIOUS
<1>1. CASE UNCHANGED vars
  BY <1>1, StillFilmed DEF vars, Keeps, Filming, Present
<1>2. ASSUME NEW j \in Jobs, Works(j) PROVE Filmed'
  <2>1. Rolls(j) \/ (\E c \in Cameras : Takes(j, c)) \/ DropLease(j) \/ Settle(j)
    BY <1>2, RollsCamera, RollsGateway, RollsDevice, RollsRelease DEF Works
  <2>. QED
    BY <2>1, RollsFilmed, FilmedTakes, FilmedDropLease, FilmedSettle
<1>3. ASSUME NEW j \in Jobs, Begin(j) \/ Crash(j) \/ \E r \in Roles : Exit(j, r) PROVE Filmed'
  BY <1>3, FilmedBegin, FilmedFaults
<1>4. CASE Sweep \/ Boot \/ Reaps
  BY <1>4, FilmedSweeps, FilmedReconciles DEF Reaps
<1>. QED
  BY <1>1, <1>2, <1>3, <1>4, FilmedRow, FilmedTime DEF Next

LEMMA FilmedInit == Init => Filmed
<1> SUFFICES ASSUME Init PROVE Filmed
  OBVIOUS
<1>1. \A j \in Jobs : run[j].pc = "idle" /\ ~run[j].bridge
  BY DEF Init
<1>2. \A j \in Jobs, r \in Roles : ~Filming(j, r)
  BY DEF Init, Filming, Present, NoBox
<1>3. "idle" \notin AcquirePc \cup Taking \cup Before \cup Getting
  BY DEF AcquirePc, Taking, Before, Getting
<1>4. reaper.pc = "idle" /\ \A c \in Cameras : lease[c] = NoJob
  BY DEF Init, Resting
<1>. QED
  BY <1>1, <1>2, <1>3, <1>4 DEF Filmed, Lent, Taken, Lenders, Reconciled

\* Two jobs' containers hold one camera open only if one was left behind by its own run or
\* belongs to a job delivered again during a reconciliation (cameraSlots.ts:125, :170): the
\* lease of a camera in use is its user's, whether the run goes on, crashed, or a boot took
\* its row back.
THEOREM CameraHeldHolds == Spec => []CameraHeldByOne
<1>1. Filmed => CameraHeldByOne
  <2> SUFFICES ASSUME Filmed, NEW j \in Jobs, NEW k \in Jobs, NEW r \in Roles, NEW s \in Roles,
                      j # k, Up(j, r), Up(k, s), box[j][r].cam = box[k][s].cam,
                      box[j][r].cam # 0, ~box[j][r].stray, ~box[k][s].stray,
                      j \notin Exempt, k \notin Exempt
               PROVE  FALSE
    BY DEF CameraHeldByOne
  <2>1. Filming(j, r) /\ Filming(k, s)
    BY DEF Filming, Up, Present
  <2>. QED
    BY <2>1 DEF Filmed, Lent
<1>. QED
  BY <1>1, FilmedInit, FilmedNext, TypedInit, TypedNext, PTL DEF Spec
=============================================================================
