------------------------------ MODULE Devices ------------------------------
(***************************************************************************)
(* The containers of the jobs: an ephemeral device per run, the egress     *)
(* gateway whose network namespace it borrows, the camera bridge in front  *)
(* of it and the Redis lease of its camera.  Runs acquire and release them *)
(* (lib/android/redroidProvider.ts, emulatorProvider.ts, proxyGateway.ts,  *)
(* cameraBridge.ts, cameraSlots.ts); a reaper sweeps what they leave       *)
(* behind and a booting worker also returns lost leases                    *)
(* (lib/android/reaper.ts).  Docker, Redis and the job table are shared by *)
(* all of them and by several worker processes, and any call may fail.     *)
(*                                                                         *)
(* Abstracted: what runs inside a container (module EgressPolicy for the   *)
(* gateway's firewall, module Publishing for the driven app), the polling  *)
(* inside one wait, and a lease's expiry, which outlives every run.        *)
(***************************************************************************)
EXTENDS Integers

CONSTANTS
    Jobs, NoJob,     \* job ids
    Accounts,        \* each with a session volume and a device configuration
    PoolSize,        \* cameras of the host: CAMERA_DEVICE_POOL is 1..PoolSize
    Setups,          \* the accounts and configurations the jobs may have
    MaxRuns,         \* bound: runs (deliveries) of all the jobs
    MaxFaults        \* bound: crashes, failed removals, containers left behind, cancels

\* What a job's account configures: a camera makes it an emulator.
Setup == [account : Accounts, camera : BOOLEAN, proxied : BOOLEAN,
          harden : BOOLEAN, verify : BOOLEAN]

ASSUME NoJobAssumption == NoJob \notin Jobs
ASSUME SetupAssumption == Setups \subseteq [Jobs -> Setup]
ASSUME BoundAssumption ==
    PoolSize \in Nat /\ MaxRuns \in Nat /\ MaxFaults \in Nat

VARIABLES
    job,       \* configuration of each job's account; never changes
    box,       \* Docker: the container of each job and role
    lease,     \* Redis: the job a camera is lent to
    run,       \* per job: where its provider is, and its locals
    live,      \* jobs whose row has one of LIVE_STATUSES
    reaper,    \* the sweep or the boot under way
    direct,    \* directEgressIp's process-wide cache
    cancelled, \* jobs whose row is CANCELLED
    stranded,  \* history: running jobs whose row a boot failed or a user cancelled
    crossed,   \* history: jobs delivered again during a reconciliation
    disowned,  \* history: jobs cancelled after a run of theirs had begun
    raced,     \* history: pairs of runs of one account whose checks crossed
    runs,      \* history: runs so far
    faults     \* history: faults and cancels so far

hist == <<stranded, crossed, disowned, raced>>
vars == <<job, box, lease, run, live, cancelled, reaper, direct, hist, runs, faults>>

-----------------------------------------------------------------------------
(* Values *)

Roles == {"device", "gateway", "bridge"}
Cameras == 1 .. PoolSize

\* `gen` is the run that made it: with job and role, the container's id.
\* `old`: past the reaper's grace.  `pinned`: a gateway whose namespace the
\* egress policy closed.  `stray`: its own run could not, or did not, remove it.
Box == [state : {"none", "up", "down"}, gen : 0 .. MaxRuns, cam : 0 .. PoolSize,
        old : BOOLEAN, pinned : BOOLEAN, stray : BOOLEAN]
NoBox == [state |-> "none", gen |-> 0, cam |-> 0,
          old |-> FALSE, pinned |-> FALSE, stray |-> FALSE]
Ids == [job : Jobs, role : Roles, gen : 1 .. MaxRuns]

AcquirePc == {"refuse", "clear", "grant", "lease", "bridge", "bridgeRun", "feed",
              "gate", "gateRun", "gateSettle", "deviceRun", "usable",
              "pin", "verify", "package"}
ReleasePc == {"dropDevice", "dropBridge", "dropLease", "dropGate"}
InProgress == AcquirePc \cup {"ready"} \cup ReleasePc \cup {"settle"}

\* The locals of acquire(): `cam`, `bridge` and `gateway` are what teardown
\* will give back; `next` is the camera tried next.
Run == [pc : InProgress \cup {"idle", "dead"}, gen : 0 .. MaxRuns, next : 0 .. PoolSize + 1,
        cam : 0 .. PoolSize, bridge : BOOLEAN, gateway : BOOLEAN]

ReaperState ==
    [pc : {"idle", "sweep", "kill", "list", "read", "ask", "free"}, boot : BOOLEAN,
     todo : SUBSET Ids, at : SUBSET Ids, spared : SUBSET Jobs, held : SUBSET Cameras,
     next : 1 .. PoolSize + 1, holder : Jobs \cup {NoJob}]
Resting == [pc |-> "idle", boot |-> FALSE, todo |-> {}, at |-> {}, spared |-> {},
            held |-> {}, next |-> 1, holder |-> NoJob]

Running(j) == run[j].pc \in InProgress
Present(j, r) == box[j][r].state # "none"
Up(j, r) == box[j][r].state = "up"
Account(j) == job[j].account

-----------------------------------------------------------------------------
(* Docker, as DockerCli uses it *)

New(j, cam, state, stray) ==
    [NoBox EXCEPT !.state = state, !.gen = run[j].gen, !.cam = cam, !.stray = stray]

Fault == faults < MaxFaults /\ faults' = faults + 1

\* A name is taken by any container, even a stopped one; a device joins the
\* namespace of a gateway that runs.
RunSucceeds(j, r, cam) ==
    /\ ~Present(j, r)
    /\ r = "device" /\ job[j].proxied => Up(j, "gateway")
    /\ box' = [box EXCEPT ![j][r] = New(j, cam, "up", FALSE)]

\* docker run throws; the daemon may all the same have made the container,
\* and may have started it (a timeout kills the client only).
RunFails(j, r, cam) ==
    \/ UNCHANGED <<box, faults>>
    \/ /\ Fault /\ ~Present(j, r)
       /\ \E s \in {"up", "down"} : box' = [box EXCEPT ![j][r] = New(j, cam, s, TRUE)]

\* A namespace somebody borrows cannot go.
Borrowed(j, r) == r = "gateway" /\ job[j].proxied /\ Present(j, "device")

\* docker rm --force: nothing there is no obstacle.
RemoveSucceeds(j, r) ==
    /\ ~Borrowed(j, r)
    /\ box' = [box EXCEPT ![j][r] = NoBox]
    /\ UNCHANGED faults

RemoveFails(j, r) ==
    /\ Present(j, r)
    /\ IF Borrowed(j, r) THEN UNCHANGED faults ELSE Fault
    /\ box' = [box EXCEPT ![j][r].stray = TRUE]

\* Every caller but the reaper swallows the failure, and the reaper records it.
Remove(j, r) == RemoveSucceeds(j, r) \/ RemoveFails(j, r)

Ended(j, pc) == [pc |-> pc, gen |-> run[j].gen, next |-> 1, cam |-> 0,
                 bridge |-> FALSE, gateway |-> FALSE]
Goto(j, pc) == run' = [run EXCEPT ![j].pc = pc]
At(j, pc) == run[j].pc = pc

-----------------------------------------------------------------------------
(* Acquiring *)

\* processJob has marked a row that was not CANCELLED PROCESSING; a crashed run's
\* job is delivered again with its row as it was.  The limiter is left out: after a
\* boot that misjudged the slots (module AccountSlots) it lets runs overlap.
Begin(j) ==
    /\ run[j].pc \in {"idle", "dead"} /\ j \notin cancelled
    /\ runs < MaxRuns /\ runs' = runs + 1
    /\ run' = [run EXCEPT ![j] = [pc |-> "refuse", gen |-> run[j].gen + 1, next |-> 1,
                                  cam |-> 0, bridge |-> FALSE, gateway |-> FALSE]]
    /\ live' = live \cup {j}
    /\ stranded' = stranded \ {j}
    /\ crossed' = IF run[j].gen > 0 /\ reaper.pc \in {"read", "ask", "free"}
                  THEN crossed \cup {j} ELSE crossed
    /\ UNCHANGED <<job, box, lease, cancelled, reaper, direct, disowned, raced, faults>>

\* Mutant: a job whose row is not live is taken to have no containers.
OthersLive(j) == {k \in live \ {j} : Account(k) = Account(j) /\ \E r \in Roles : Present(k, r)}

\* Containers with the account's label, whatever their state.
Others(j) == {k \in Jobs \ {j} : Account(k) = Account(j) /\ \E r \in Roles : Present(k, r)}

\* A run, by its job and number.  Another run of the account that has passed its
\* own check and still acquires is not seen while it has no container.
RunOf(j) == <<j, run[j].gen>>
Past == AcquirePc \ {"refuse"}
Crossing(j) == {k \in Jobs \ {j} : Account(k) = Account(j) /\ run[k].pc \in Past}

\* refuseConcurrentRunForAccount: one listing, and the containers come later.
Refuse(j) ==
    /\ At(j, "refuse")
    /\ \/ /\ Others(j) = {} /\ Goto(j, "clear")
          /\ raced' = raced \cup {{RunOf(j), RunOf(k)} : k \in Crossing(j)}
       \/ Others(j) # {} /\ Goto(j, "settle") /\ UNCHANGED raced
    /\ UNCHANGED <<job, box, lease, live, cancelled, reaper, direct, runs, faults>>
    /\ UNCHANGED <<stranded, crossed, disowned>>

AfterCamera(j) == IF job[j].proxied THEN "gate" ELSE "deviceRun"

\* The volume exists now; a device left by an earlier run goes.
ClearDevice(j) ==
    /\ At(j, "clear")
    /\ Remove(j, "device")
    /\ Goto(j, IF job[j].camera THEN "grant" ELSE AfterCamera(j))
    /\ UNCHANGED <<job, lease, live, cancelled, reaper, direct, hist, runs>>

\* waitForCameraPublisher: the operator publishes her webcam.
Grant(j) ==
    /\ At(j, "grant")
    /\ Goto(j, "lease")
    /\ UNCHANGED <<job, box, lease, live, cancelled, reaper, direct, hist, runs, faults>>

\* Mutant: SET without NX.
TakeCamera(j) ==
    /\ At(j, "lease")
    /\ LET c == run[j].next IN
       /\ lease' = [lease EXCEPT ![c] = j]
       /\ run' = [run EXCEPT ![j].pc = "bridge", ![j].cam = c]
    /\ UNCHANGED <<job, box, live, cancelled, reaper, direct, hist, runs, faults>>

\* Mutant: the pool is off by one, so that one more camera is looked for.
TryPast(j) ==
    /\ At(j, "lease")
    /\ LET c == run[j].next IN
       IF c > PoolSize + 1
       THEN Goto(j, "dropDevice") /\ UNCHANGED lease
       ELSE IF c \in Cameras /\ lease[c] = NoJob
       THEN /\ lease' = [lease EXCEPT ![c] = j]
            /\ run' = [run EXCEPT ![j].pc = "bridge", ![j].cam = c]
       ELSE run' = [run EXCEPT ![j].next = c + 1] /\ UNCHANGED lease
    /\ UNCHANGED <<job, box, live, cancelled, reaper, direct, hist, runs, faults>>

\* One SET NX per camera of the pool, in order; none left is an error.
TryCamera(j) ==
    /\ At(j, "lease")
    /\ LET c == run[j].next IN
       IF c \notin Cameras
       THEN Goto(j, "dropDevice") /\ UNCHANGED lease
       ELSE IF lease[c] = NoJob
       THEN /\ lease' = [lease EXCEPT ![c] = j]
            /\ run' = [run EXCEPT ![j].pc = "bridge", ![j].cam = c]
       ELSE run' = [run EXCEPT ![j].next = c + 1] /\ UNCHANGED lease
    /\ UNCHANGED <<job, box, live, cancelled, reaper, direct, hist, runs, faults>>

ClearBridge(j) ==
    /\ At(j, "bridge")
    /\ Remove(j, "bridge")
    /\ Goto(j, "bridgeRun")
    /\ UNCHANGED <<job, lease, live, cancelled, reaper, direct, hist, runs>>

RunBridge(j) ==
    /\ At(j, "bridgeRun")
    /\ \/ RunSucceeds(j, "bridge", run[j].cam) /\ Goto(j, "feed") /\ UNCHANGED faults
       \/ RunFails(j, "bridge", run[j].cam) /\ Goto(j, "dropDevice")
    /\ UNCHANGED <<job, lease, live, cancelled, reaper, direct, hist, runs>>

\* assertStillFeeding: the bridge survived its first seconds, or it is removed.
Feed(j) ==
    /\ At(j, "feed")
    /\ \/ /\ Up(j, "bridge")
          /\ run' = [run EXCEPT ![j].pc = AfterCamera(j), ![j].bridge = TRUE]
          /\ UNCHANGED <<box, faults>>
       \/ Remove(j, "bridge") /\ Goto(j, "dropDevice")
    /\ UNCHANGED <<job, lease, live, cancelled, reaper, direct, hist, runs>>

\* An emulator's gateway starts inside its try block, ReDroid's before it.
GatewayFailed(j) == IF job[j].camera THEN "dropDevice" ELSE "settle"

ClearGateway(j) ==
    /\ At(j, "gate")
    /\ Remove(j, "gateway")
    /\ Goto(j, "gateRun")
    /\ UNCHANGED <<job, lease, live, cancelled, reaper, direct, hist, runs>>

RunGateway(j) ==
    /\ At(j, "gateRun")
    /\ \/ RunSucceeds(j, "gateway", 0) /\ Goto(j, "gateSettle") /\ UNCHANGED faults
       \/ RunFails(j, "gateway", 0) /\ Goto(j, GatewayFailed(j))
    /\ UNCHANGED <<job, lease, live, cancelled, reaper, direct, hist, runs>>

\* The gateway is watched, then joins the control network.
SettleGateway(j) ==
    /\ At(j, "gateSettle")
    /\ \/ /\ Up(j, "gateway")
          /\ run' = [run EXCEPT ![j].pc = "deviceRun", ![j].gateway = TRUE]
          /\ UNCHANGED <<box, faults>>
       \/ Remove(j, "gateway") /\ Goto(j, GatewayFailed(j))
    /\ UNCHANGED <<job, lease, live, cancelled, reaper, direct, hist, runs>>

RunDevice(j) ==
    /\ At(j, "deviceRun")
    /\ \/ RunSucceeds(j, "device", run[j].cam) /\ Goto(j, "usable") /\ UNCHANGED faults
       \/ RunFails(j, "device", run[j].cam) /\ Goto(j, "dropDevice")
    /\ UNCHANGED <<job, lease, live, cancelled, reaper, direct, hist, runs>>

\* The port is published by whichever container owns the network stack; then
\* container, gateway, ADB and boot, all of them, before anything is driven.
Usable(j) ==
    /\ At(j, "usable")
    /\ Up(j, "device") /\ (job[j].proxied => Up(j, "gateway"))
    /\ Goto(j, IF job[j].proxied THEN "pin" ELSE "package")
    /\ UNCHANGED <<job, box, lease, live, cancelled, reaper, direct, hist, runs, faults>>

\* Mutant: the policy is never applied.
PinNothing(j) ==
    /\ At(j, "pin")
    /\ Goto(j, "verify")
    /\ UNCHANGED <<job, box, lease, live, cancelled, reaper, direct, hist, runs, faults>>

\* applyEgressPolicy, in the gateway, after Android has booted.
Pin(j) ==
    /\ At(j, "pin")
    /\ \/ /\ job[j].harden /\ Up(j, "gateway")
          /\ box' = [box EXCEPT ![j]["gateway"].pinned = TRUE]
       \/ ~job[j].harden /\ UNCHANGED box
    /\ Goto(j, "verify")
    /\ UNCHANGED <<job, lease, live, cancelled, reaper, direct, hist, runs, faults>>

\* An unpinned device leaves by the host's own interface; one whose gateway
\* stopped has no network at all.
Leaks(j) == job[j].proxied /\ Up(j, "gateway") /\ ~box[j]["gateway"].pinned

\* The worker measures its own address once; a failed measurement is kept too.
Verify(j) ==
    /\ At(j, "verify")
    /\ \/ ~job[j].verify /\ Goto(j, "package") /\ UNCHANGED direct
       \/ /\ job[j].verify /\ Up(j, "device") /\ Up(j, "gateway")
          /\ direct' \in IF direct = "unset" THEN {"known", "unknown"} ELSE {direct}
          /\ Goto(j, IF Leaks(j) /\ direct' = "known" THEN "dropDevice" ELSE "package")
    /\ UNCHANGED <<job, box, lease, live, cancelled, reaper, hist, runs, faults>>

\* Installed already, installed now, or not required: the device is handed over.
Package(j) ==
    /\ At(j, "package")
    /\ Up(j, "device")
    /\ Goto(j, "ready")
    /\ UNCHANGED <<job, box, lease, live, cancelled, reaper, direct, hist, runs, faults>>

\* Any other call of acquire() throws, times out, or sees the job cancelled.
AcquireThrows(j) ==
    /\ run[j].pc \in {"refuse", "clear", "grant", "lease", "usable",
                      "pin", "verify", "package"}
    /\ Goto(j, IF run[j].pc \in {"refuse", "clear"} THEN "settle" ELSE "dropDevice")
    /\ UNCHANGED <<job, box, lease, live, cancelled, reaper, direct, hist, runs, faults>>

-----------------------------------------------------------------------------
(* Releasing *)

\* The publisher or the operator is done, or failed: its finally runs.
Drive(j) ==
    /\ At(j, "ready")
    /\ Goto(j, "dropDevice")
    /\ UNCHANGED <<job, box, lease, live, cancelled, reaper, direct, hist, runs, faults>>

AfterLease(j)  == IF run[j].gateway THEN "dropGate" ELSE "settle"
AfterBridge(j) == IF run[j].cam # 0 THEN "dropLease" ELSE AfterLease(j)
AfterDevice(j) == IF run[j].bridge THEN "dropBridge" ELSE AfterBridge(j)

\* adb is told to forget the serial, and the device goes before what it holds.
DropDevice(j) ==
    /\ At(j, "dropDevice")
    /\ Remove(j, "device")
    /\ Goto(j, AfterDevice(j))
    /\ UNCHANGED <<job, lease, live, cancelled, reaper, direct, hist, runs>>

DropBridge(j) ==
    /\ At(j, "dropBridge")
    /\ Remove(j, "bridge")
    /\ Goto(j, AfterBridge(j))
    /\ UNCHANGED <<job, lease, live, cancelled, reaper, direct, hist, runs>>

\* RELEASE_IF_HELD: one script, so the holder compared is the holder deleted.
ReleaseIfHeld(c, j) ==
    lease' = IF lease[c] = j THEN [lease EXCEPT ![c] = NoJob] ELSE lease

DropLease(j) ==
    /\ At(j, "dropLease")
    /\ ReleaseIfHeld(run[j].cam, j)
    /\ Goto(j, AfterLease(j))
    /\ UNCHANGED <<job, box, live, cancelled, reaper, direct, hist, runs, faults>>

DropGateway(j) ==
    /\ At(j, "dropGate")
    /\ Remove(j, "gateway")
    /\ Goto(j, "settle")
    /\ UNCHANGED <<job, lease, live, cancelled, reaper, direct, hist, runs>>

\* processJob writes how the run ended, or finds its row CANCELLED.
Settle(j) ==
    /\ At(j, "settle")
    /\ run' = [run EXCEPT ![j] = Ended(j, "idle")]
    /\ live' = live \ {j}
    /\ UNCHANGED <<job, box, lease, cancelled, reaper, direct, hist, runs, faults>>

-----------------------------------------------------------------------------
(* The row, written while a run goes on *)

\* cancelJob: the run is not stopped, and may not notice; a delivery of a dead
\* run's job that has read the row before marks it PROCESSING all the same.
Cancel(j) ==
    /\ j \in live /\ Fault
    /\ live' = live \ {j}
    /\ \/ cancelled' = cancelled \cup {j}
       \/ At(j, "dead") /\ UNCHANGED cancelled
    /\ stranded' = IF Running(j) THEN stranded \cup {j} ELSE stranded
    /\ disowned' = disowned \cup {j}
    /\ UNCHANGED <<job, box, lease, run, reaper, direct, crossed, raced, runs>>

\* AWAITING_HUMAN, then VERIFYING, written over whatever the row says.
Announce(j) ==
    /\ At(j, "ready") /\ j \notin live
    /\ live' = live \cup {j} /\ cancelled' = cancelled \ {j}
    /\ UNCHANGED <<job, box, lease, run, reaper, direct, hist, runs, faults>>

-----------------------------------------------------------------------------
(* The reaper and the boot of a worker *)

\* The container with this id is still the one under its name.
Same(b) == Present(b.job, b.role) /\ box[b.job][b.role].gen = b.gen

\* Mutant: only the containers Android runs in.
EveryDevice == {b \in Ids : Same(b) /\ b.role = "device"}

\* listByLabel(OWNER_LABEL)
Everything == {b \in Ids : Same(b)}

\* setInterval's sweep: one listing, then container by container.
Sweep ==
    /\ reaper.pc = "idle" /\ Everything # {}
    /\ reaper' = [Resting EXCEPT !.pc = "sweep", !.todo = Everything]
    /\ UNCHANGED <<job, box, lease, run, live, cancelled, direct, hist, runs, faults>>

\* A boot: recoverOrphans fails every row that waits for a person, takes rows of
\* dead workers back unless BullMQ still calls them active, and sweeps at once.
Boot ==
    /\ reaper.pc = "idle"
    /\ \E lost \in SUBSET {j \in live : run[j].pc \in {"dead", "ready"}} :
         /\ live' = live \ lost
         /\ stranded' = stranded \cup {j \in lost : Running(j)}
    /\ reaper' = [Resting EXCEPT !.pc = "sweep", !.boot = TRUE, !.todo = Everything]
    /\ UNCHANGED <<job, box, lease, run, cancelled, direct, runs, faults>>
    /\ UNCHANGED <<crossed, disowned, raced>>

\* Mutant: containers in the order Docker lists them.
ListOrder(b) == TRUE

\* devicesBeforeGateways
InOrder(b) ==
    /\ b.role # "gateway" \/ \A o \in reaper.todo : o.role = "gateway"
    /\ b = CHOOSE o \in reaper.todo : (o.role = "gateway") = (b.role = "gateway")

\* Inside its grace (none at boot), of a live job, or of a job that cannot be
\* looked up: left alone.  Otherwise it is about to go.
Consider(b) ==
    /\ reaper.pc = "sweep" /\ b \in reaper.todo /\ InOrder(b)
    /\ \/ reaper' = [reaper EXCEPT !.todo = @ \ {b}, !.spared = @ \cup {b.job}]
          /\ \/ Same(b) /\ ~box[b.job][b.role].old /\ ~reaper.boot
             \/ b.job \in live
       \/ /\ reaper.boot \/ ~Same(b) \/ box[b.job][b.role].old
          /\ b.job \notin live
          /\ reaper' = [reaper EXCEPT !.pc = "kill", !.at = {b}]
    /\ UNCHANGED <<job, box, lease, run, live, cancelled, direct, hist, runs, faults>>

LookupFails(b) ==
    /\ reaper.pc = "sweep" /\ b \in reaper.todo /\ InOrder(b)
    /\ Fault
    /\ reaper' = [reaper EXCEPT !.todo = @ \ {b}, !.spared = @ \cup {b.job}]
    /\ UNCHANGED <<job, box, lease, run, live, cancelled, direct, hist, runs>>

\* Mutant: by name, whichever container has it now.
KillByName(b) ==
    /\ reaper.pc = "kill" /\ b \in reaper.at
    /\ Remove(b.job, b.role)
    /\ reaper' = [reaper EXCEPT !.pc = "sweep", !.todo = @ \ {b}, !.at = {}]
    /\ UNCHANGED <<job, lease, run, live, cancelled, direct, hist, runs>>

\* docker.remove(container.id), on an answer one await old.
Kill(b) ==
    /\ reaper.pc = "kill" /\ b \in reaper.at
    /\ IF Same(b) THEN Remove(b.job, b.role) ELSE UNCHANGED <<box, faults>>
    /\ reaper' = [reaper EXCEPT !.pc = "sweep", !.todo = @ \ {b}, !.at = {},
                  !.spared = IF box'[b.job][b.role] = NoBox THEN @ ELSE @ \cup {b.job}]
    /\ UNCHANGED <<job, lease, run, live, cancelled, direct, hist, runs>>

\* Only a boot goes on to the camera leases.
EndSweep ==
    /\ reaper.pc = "sweep" /\ reaper.todo = {}
    /\ reaper' = IF reaper.boot THEN [Resting EXCEPT !.pc = "list", !.boot = TRUE] ELSE Resting
    /\ UNCHANGED <<job, box, lease, run, live, cancelled, direct, hist, runs, faults>>

\* The cameras some container, running or not, carries as a label.
Held == {box[j][r].cam : j \in Jobs, r \in Roles} \ {0}

ListHeld ==
    /\ reaper.pc = "list"
    /\ reaper' = [reaper EXCEPT !.pc = "read", !.held = Held]
    /\ UNCHANGED <<job, box, lease, run, live, cancelled, direct, hist, runs, faults>>

ToNext(c) == [reaper EXCEPT !.pc = "read", !.next = c + 1, !.holder = NoJob]

\* A lease no container accounts for: who has it?
ReadLease ==
    /\ reaper.pc = "read"
    /\ LET c == reaper.next IN
       reaper' = IF c \notin Cameras THEN Resting
                 ELSE IF c \in reaper.held \/ lease[c] = NoJob THEN ToNext(c)
                 ELSE [reaper EXCEPT !.pc = "ask", !.holder = lease[c]]
    /\ UNCHANGED <<job, box, lease, run, live, cancelled, direct, hist, runs, faults>>

\* isJobActive; a lookup that fails keeps the lease.
AskHolder ==
    /\ reaper.pc = "ask"
    /\ \/ reaper.holder \in live /\ reaper' = ToNext(reaper.next) /\ UNCHANGED faults
       \/ Fault /\ reaper' = ToNext(reaper.next)
       \/ reaper.holder \notin live /\ reaper' = [reaper EXCEPT !.pc = "free"] /\ UNCHANGED faults
    /\ UNCHANGED <<job, box, lease, run, live, cancelled, direct, hist, runs>>

FreeLease ==
    /\ reaper.pc = "free"
    /\ ReleaseIfHeld(reaper.next, reaper.holder)
    /\ reaper' = ToNext(reaper.next)
    /\ UNCHANGED <<job, box, run, live, cancelled, direct, hist, runs, faults>>

-----------------------------------------------------------------------------
(* What happens by itself *)

\* The worker process is killed: no finally runs, the row stays as it is.
Crash(j) ==
    /\ Running(j)
    /\ Fault
    /\ run' = [run EXCEPT ![j] = Ended(j, "dead")]
    /\ UNCHANGED <<job, box, lease, live, cancelled, reaper, direct, hist, runs>>

\* A container exits.
Exit(j, r) ==
    /\ Up(j, r)
    /\ Fault
    /\ box' = [box EXCEPT ![j][r].state = "down"]
    /\ UNCHANGED <<job, lease, run, live, cancelled, reaper, direct, hist, runs>>

\* Ninety seconds pass, longer than a sweep: what is there is past its grace.
Age ==
    /\ reaper.pc = "idle"
    /\ \E j \in Jobs, r \in Roles : Present(j, r) /\ ~box[j][r].old
    /\ box' = [j \in Jobs |-> [r \in Roles |->
                  IF Present(j, r) THEN [box[j][r] EXCEPT !.old = TRUE] ELSE box[j][r]]]
    /\ UNCHANGED <<job, lease, run, live, cancelled, reaper, direct, hist, runs, faults>>

Init ==
    /\ job \in Setups
    /\ box = [j \in Jobs |-> [r \in Roles |-> NoBox]]
    /\ lease = [c \in Cameras |-> NoJob]
    /\ run = [j \in Jobs |-> [pc |-> "idle", gen |-> 0, next |-> 1, cam |-> 0,
                              bridge |-> FALSE, gateway |-> FALSE]]
    /\ live = {} /\ cancelled = {} /\ reaper = Resting /\ direct = "unset"
    /\ stranded = {} /\ crossed = {} /\ disowned = {} /\ raced = {}
    /\ runs = 0 /\ faults = 0

AcquireCamera(j) ==
    Grant(j) \/ TryCamera(j) \/ ClearBridge(j) \/ RunBridge(j) \/ Feed(j)
AcquireGateway(j) == ClearGateway(j) \/ RunGateway(j) \/ SettleGateway(j)
AcquireDevice(j) ==
    \/ Refuse(j) \/ ClearDevice(j) \/ RunDevice(j) \/ Usable(j)
    \/ Pin(j) \/ Verify(j) \/ Package(j) \/ AcquireThrows(j)
Release(j) ==
    DropDevice(j) \/ DropBridge(j) \/ DropLease(j) \/ DropGateway(j) \/ Settle(j)
Works(j) == AcquireCamera(j) \/ AcquireGateway(j) \/ AcquireDevice(j) \/ Drive(j) \/ Release(j)
Reaps == \/ EndSweep \/ ListHeld \/ ReadLease \/ AskHolder \/ FreeLease
         \/ \E b \in reaper.todo : Consider(b) \/ LookupFails(b) \/ Kill(b)

Next ==
    \/ \E j \in Jobs : Begin(j) \/ Works(j) \/ Cancel(j) \/ Announce(j)
    \/ \E j \in Jobs : Crash(j) \/ \E r \in Roles : Exit(j, r)
    \/ Sweep \/ Boot \/ Reaps \/ Age

Spec == Init /\ [][Next]_vars

\* A sweep ends, the interval starts another, and between sweeps time passes.  No
\* boot is promised, nor that one takes a dead worker's row back (BullMQ may hold
\* its job for ever); and no run needs to go on.
Fairness == WF_vars(Reaps) /\ WF_vars(Sweep) /\ SF_vars(Age)
FairSpec == Spec /\ Fairness

-----------------------------------------------------------------------------
(* Properties *)

\* Type correctness; the pool of cameras is never looked past.
TypeOK ==
    /\ job \in [Jobs -> Setup]
    /\ box \in [Jobs -> [Roles -> Box]]
    /\ lease \in [Cameras -> Jobs \cup {NoJob}]
    /\ run \in [Jobs -> Run]
    /\ live \subseteq Jobs /\ cancelled \subseteq Jobs
    /\ stranded \subseteq Jobs /\ crossed \subseteq Jobs /\ disowned \subseteq Jobs
    /\ raced \subseteq SUBSET (Jobs \X (0 .. MaxRuns))
    /\ reaper \in ReaperState
    /\ direct \in {"unset", "known", "unknown"}
    /\ runs \in 0 .. MaxRuns /\ faults \in 0 .. MaxFaults

\* Two running devices mount one account's session volume only if the checks of
\* the runs that made them crossed: one passed while the other, past its own, had
\* no container yet.  Nothing that crashes, failed removals, half-made containers
\* or cancelled jobs leave behind is overlooked (redroidProvider.ts:399).
OneDevicePerSession ==
    \A j, k \in Jobs :
        j # k /\ Up(j, "device") /\ Up(k, "device") /\ Account(j) = Account(k)
        => {<<j, box[j]["device"].gen>>, <<k, box[k]["device"].gen>>} \in raced

\* Two jobs' containers hold one camera open only if one of them was left behind
\* by its own run, or belongs to a job delivered again between the listing and the
\* end of one reconciliation, or to a job cancelled after a run of it had begun
\* (cameraSlots.ts:170, service.ts:443).
CameraHeldByOne ==
    \A j, k \in Jobs, r, s \in Roles :
        /\ j # k /\ Up(j, r) /\ Up(k, s) /\ box[j][r].cam = box[k][s].cam
        /\ box[j][r].cam # 0
        => \/ box[j][r].stray \/ box[k][s].stray
           \/ {j, k} \cap (crossed \cup disowned) # {}

\* A device handed over behind a proxy leaves by the host's address only where
\* the account turned the policy off, and then only unverified or on a worker
\* that could not learn its own address (egressCheck.ts:358).
UnmaskedOnlyByChoice ==
    \A j \in Jobs : At(j, "ready") /\ Leaks(j) =>
        ~job[j].harden /\ (~job[j].verify \/ direct = "unknown")

\* The reaper takes a container from a run in progress only if a boot has failed
\* the row under it, or a user has cancelled the job since that run began: neither
\* a stale listing nor a stale answer is enough (reaper.ts:184).
SparesRuns ==
    [][\A j \in Jobs, r \in Roles :
          reaper.pc = "kill" /\ reaper' # reaper /\ box'[j][r] = NoBox /\ Present(j, r)
          => ~(Running(j) /\ run[j].gen = box[j][r].gen) \/ j \in stranded]_vars

\* A sweep reaches a gateway that a listed device still borrows, so that Docker
\* will refuse to remove it, only if it left a container of that job alone before:
\* for its grace, a live row, or a lookup or removal that failed.  A device past
\* its grace was there when the sweep began (reaper.ts:143).
GatewaysLast ==
    \A b \in reaper.at :
        b.role = "gateway" /\ Borrowed(b.job, "gateway") /\ box[b.job]["device"].old
        => b.job \in reaper.spared

\* What a run left behind - containers of any role, after crashes, failed
\* removals and half-made containers - is gone some day once its row is no longer
\* live, unless its job runs again (reaper.ts:143).  The row of a killed worker's
\* job may stay PROCESSING, and then spares its containers.
LeftBehind(j) == ~Running(j) /\ \E r \in Roles : Present(j, r)
LeftoversCollected ==
    \A j \in Jobs : LeftBehind(j) /\ j \notin live ~> (~LeftBehind(j) \/ Running(j))
=============================================================================
