---------------------------- MODULE EgressPolicy ----------------------------
(***************************************************************************)
(* The script that pins a device's network namespace to its proxy gateway  *)
(* (lib/android/egressPolicy.ts): policy routing rules, the mangle table   *)
(* and a chain of iptables, written command by command under `set -e` on a *)
(* kernel that may lack any of the modules it asks for, after Android's    *)
(* netd has put its own rules there.                                       *)
(*                                                                         *)
(* A packet is what the rules tell apart: who sends it, where to, netd's   *)
(* or tun2socks' mark, and whether its connection was open before.  What   *)
(* becomes of it is computed from the rules as the kernel would.           *)
(***************************************************************************)
EXTENDS Integers, Sequences

CONSTANTS
    Kernels,        \* what the host's kernel may offer, see Kernel
    MaxApplied,     \* bound: runs of the script in one namespace
    MaxFaults,      \* bound: commands that fail by themselves
    MaxReconf       \* bound: reconfigurations after the namespace was pinned

\* `backend`: some iptables reaches the filter table; `mangle`, `mark`,
\* `conntrack`: that table, match and match; `moves`: netd takes the interface out
\* of table main; `accepts`: netd's own chains let a packet go; `resolved`: the
\* proxy's host has an address.
Kernel == [backend : BOOLEAN, mangle : BOOLEAN, mark : BOOLEAN, conntrack : BOOLEAN,
           moves : BOOLEAN, accepts : BOOLEAN, resolved : BOOLEAN]

ASSUME KernelAssumption == Kernels \subseteq Kernel
ASSUME BoundAssumption == MaxApplied \in Nat /\ MaxFaults \in Nat /\ MaxReconf \in Nat

VARIABLES
    kernel,   \* never changes
    eth,      \* table that holds the physical interface's routes
    rules,    \* ip rule
    mangle,   \* mangle OUTPUT clears foreign marks
    chain,    \* REDROID_EGRESS, <<>> also before it exists
    hook,     \* the jumps of OUTPUT, first one first
    netd,     \* what Android has done to the namespace so far
    opened,   \* an app opened a connection through eth0 before the policy
    pc,       \* where the script is
    bypass,   \* BYPASS_TABLE
    applied, faults, reconf   \* counters

vars == <<kernel, eth, rules, mangle, chain, hook, netd, opened, pc, bypass,
          applied, faults, reconf>>

-----------------------------------------------------------------------------
(* Rules and packets *)

Tables == {"main", "netd", "tun", "unreachable"}
Selectors == {"all", "own", "notOwn", "netd", "none", "peer"}
Rule(pref, sel, table) == [pref |-> pref, sel |-> sel, table |-> table]
Rules == [pref : Nat, sel : Selectors, table : Tables]

BypassPref == 90
LocalPref  == 95
TunPref    == 100

Accepting == {"lo", "tun", "adb", "established", "endpoint", "mark", "control"}
Entries == Accepting \cup {"deny"}

\* The order the script appends them in.
ACL == <<"lo", "tun", "adb", "established", "endpoint", "mark", "control", "deny">>

Packets == [owner : {"app", "adbd", "upstream"}, dst : {"internet", "proxy", "peer"},
            mark : {"none", "netd", "own"}, old : BOOLEAN]
AppPackets == {p \in Packets : /\ p.owner = "app" /\ p.mark # "own"
                               /\ (p.old => opened /\ p.dst = "internet")}
AdbReplies == {p \in Packets : p.owner = "adbd" /\ p.mark # "own" /\ p.dst = "peer" /\ p.old}
Upstream == [owner |-> "upstream", dst |-> "proxy", mark |-> "own", old |-> FALSE]

\* The mark a packet has once mangle OUTPUT has seen it, and is routed again by.
Mark(p) == IF mangle /\ p.mark # "own" THEN "none" ELSE p.mark

Selects(r, p) ==
    \/ r.sel = "all" \/ r.sel = Mark(p)
    \/ r.sel = "notOwn" /\ Mark(p) # "own"
    \/ r.sel = "peer" /\ p.dst = "peer"

\* Where a table leads: one without a route is passed over.
Leads(table) ==
    IF table \in {"tun", "unreachable"} THEN table ELSE IF table = eth THEN "eth" ELSE "on"

Deciding(p) == {r \in rules : Selects(r, p) /\ Leads(r.table) # "on"}
OutDev(p) ==
    LET best == CHOOSE r \in Deciding(p) : \A o \in Deciding(p) : r.pref <= o.pref IN
    IF Deciding(p) = {} THEN "unreachable" ELSE Leads(best.table)

Matches(entry, p) ==
    CASE entry = "lo" -> OutDev(p) = "lo"
      [] entry = "tun" -> OutDev(p) = "tun"
      [] entry = "adb" -> p.owner = "adbd"
      [] entry = "established" -> p.old
      [] entry = "endpoint" -> p.dst = "proxy"
      [] entry = "mark" -> Mark(p) = "own"
      [] entry = "control" -> p.dst = "peer"
      [] OTHER -> TRUE

\* The first entry that matches decides; none at all lets the packet pass.
ChainPasses(p) ==
    \/ \A i \in 1 .. Len(chain) : ~Matches(chain[i], p)
    \/ \E i \in 1 .. Len(chain) :
          /\ chain[i] # "deny" /\ Matches(chain[i], p)
          /\ \A k \in 1 .. i - 1 : ~Matches(chain[k], p)

\* OUTPUT: a netd chain that accepts ends the traversal, wherever ours comes after.
Passes(p) ==
    \/ \A i \in 1 .. Len(hook) : hook[i] = "ours" => ChainPasses(p)
    \/ \E i \in 1 .. Len(hook) :
          /\ hook[i] = "netd" /\ kernel.accepts
          /\ \A k \in 1 .. i - 1 : hook[k] = "ours" => ChainPasses(p)

LeavesBy(p) == IF Passes(p) THEN OutDev(p) ELSE "denied"

-----------------------------------------------------------------------------
(* Android comes up in the namespace *)

Booted == netd = {"routes", "rules", "jumps"}

\* The physical interface goes to a table of netd's own.
NetdMoves ==
    /\ "routes" \notin netd
    /\ netd' = netd \cup {"routes"}
    /\ eth' = IF kernel.moves THEN "netd" ELSE eth
    /\ UNCHANGED <<kernel, rules, mangle, chain, hook, opened, pc, bypass,
                   applied, faults, reconf>>

NetdRules ==
    /\ "routes" \in netd /\ "rules" \notin netd
    /\ netd' = netd \cup {"rules"}
    /\ rules' = rules \cup {Rule(10000, "netd", eth), Rule(31000, "none", eth),
                            Rule(32000, "all", "unreachable")}
    /\ UNCHANGED <<kernel, eth, mangle, chain, hook, opened, pc, bypass,
                   applied, faults, reconf>>

\* At the top of the built-in chain.
NetdJumps ==
    /\ "jumps" \notin netd
    /\ netd' = netd \cup {"jumps"}
    /\ hook' = <<"netd">> \o hook
    /\ UNCHANGED <<kernel, eth, rules, mangle, chain, opened, pc, bypass,
                   applied, faults, reconf>>

AppConnects ==
    /\ Booted /\ ~opened
    /\ \E p \in AppPackets : p.dst = "internet" /\ LeavesBy(p) = "eth"
    /\ opened' = TRUE
    /\ UNCHANGED <<kernel, eth, rules, mangle, chain, hook, netd, pc, bypass,
                   applied, faults, reconf>>

-----------------------------------------------------------------------------
(* The script *)

Step(from, to) == pc = from /\ pc' = to
Fault == faults < MaxFaults /\ faults' = faults + 1

\* applyEgressPolicy runs it once waitUntilUsable has seen the boot complete.
Start ==
    /\ pc \in {"idle", "pinned"} /\ applied < MaxApplied
    /\ Booted
    /\ pc' = "pick"
    /\ applied' = applied + 1
    /\ UNCHANGED <<kernel, eth, rules, mangle, chain, hook, netd, opened, bypass,
                   faults, reconf>>

PickBackend ==
    /\ pc = "pick"
    /\ pc' = IF kernel.backend THEN "discover" ELSE "failed"
    /\ UNCHANGED <<kernel, eth, rules, mangle, chain, hook, netd, opened, bypass,
                   applied, faults, reconf>>

\* The first default route that is not the tun's.
Discover ==
    /\ Step("discover", "dropBypass")
    /\ bypass' = eth
    /\ UNCHANGED <<kernel, eth, rules, mangle, chain, hook, netd, opened,
                   applied, faults, reconf>>

\* The rules at a priority, whatever they say.
Delete(from, pref, to) ==
    /\ Step(from, to)
    /\ rules' = {r \in rules : r.pref # pref}
    /\ UNCHANGED <<kernel, eth, mangle, chain, hook, netd, opened, bypass,
                   applied, faults, reconf>>

Add(from, rule, to) ==
    /\ Step(from, to)
    /\ rules' = rules \cup {rule}
    /\ UNCHANGED <<kernel, eth, mangle, chain, hook, netd, opened, bypass,
                   applied, faults, reconf>>

\* Mutant: the catch-all goes in before the directly connected subnets.
RoutingTunFirst ==
    \/ Delete("dropBypass", BypassPref, "dropSecond")
    \/ Delete("dropSecond", BypassPref + 1, "dropTun")
    \/ Delete("dropTun", TunPref, "addBypass")
    \/ Add("addBypass", Rule(BypassPref, "own", bypass), "addSecond")
    \/ Add("addSecond", Rule(BypassPref + 1, "own", "main"), "addTun")
    \/ Add("addTun", Rule(TunPref, "all", "tun"), "dropLocal")
    \/ Delete("dropLocal", LocalPref, "addLocal")
    \/ Add("addLocal", Rule(LocalPref, "peer", bypass), "clearMarks")

\* Mutant: the catch-all is added without a priority, above those of netd.
RoutingAboveNetd ==
    \/ Delete("dropBypass", BypassPref, "dropSecond")
    \/ Delete("dropSecond", BypassPref + 1, "dropTun")
    \/ Delete("dropTun", TunPref, "addBypass")
    \/ Add("addBypass", Rule(BypassPref, "own", bypass), "addSecond")
    \/ Add("addSecond", Rule(BypassPref + 1, "own", "main"), "dropLocal")
    \/ Delete("dropLocal", LocalPref, "addLocal")
    \/ Add("addLocal", Rule(LocalPref, "peer", bypass), "addTun")
    \/ Add("addTun", Rule(32764, "all", "tun"), "clearMarks")

\* Layer 1: the bypass first, then the neighbours, then everything else.
Routing ==
    \/ Delete("dropBypass", BypassPref, "dropSecond")
    \/ Delete("dropSecond", BypassPref + 1, "dropTun")
    \/ Delete("dropTun", TunPref, "addBypass")
    \/ Add("addBypass", Rule(BypassPref, "own", bypass), "addSecond")
    \/ Add("addSecond", Rule(BypassPref + 1, "own", "main"), "dropLocal")
    \/ Delete("dropLocal", LocalPref, "addLocal")
    \/ Add("addLocal", Rule(LocalPref, "peer", bypass), "addTun")
    \/ Add("addTun", Rule(TunPref, "all", "tun"), "clearMarks")

\* Layer 2, best effort: the table, the match and the target are modules.
ClearMarks ==
    /\ Step("clearMarks", "newChain")
    /\ \/ mangle' = (mangle \/ (kernel.mangle /\ kernel.mark)) /\ UNCHANGED faults
       \/ Fault /\ UNCHANGED mangle
    /\ UNCHANGED <<kernel, eth, rules, chain, hook, netd, opened, bypass,
                   applied, reconf>>

\* -N, or -F of the one that is there.
NewChain ==
    /\ Step("newChain", ACL[1])
    /\ chain' = <<>>
    /\ UNCHANGED <<kernel, eth, rules, mangle, hook, netd, opened, bypass,
                   applied, faults, reconf>>

\* Entries whose match is a module of its own, and one there may be no address for.
Unsupported(entry) ==
    \/ entry = "established" /\ ~kernel.conntrack
    \/ entry = "endpoint" /\ ~kernel.resolved
    \/ entry = "mark" /\ ~kernel.mark

After(i) == IF i = Len(ACL) THEN "hook" ELSE ACL[i + 1]

\* Mutant: a kernel without the REJECT target gets no last entry at all.
AppendNoFallback(i) ==
    /\ Step(ACL[i], After(i))
    /\ \/ chain' = (IF Unsupported(ACL[i]) THEN chain ELSE Append(chain, ACL[i]))
          /\ UNCHANGED faults
       \/ ACL[i] \in {"established", "mark", "deny"} /\ Fault /\ UNCHANGED chain
    /\ UNCHANGED <<kernel, eth, rules, mangle, hook, netd, opened, bypass,
                   applied, reconf>>

\* Layer 3.  The two optional matches are best effort; the last entry falls back
\* from REJECT to DROP.
AppendEntry(i) ==
    /\ Step(ACL[i], After(i))
    /\ \/ chain' = (IF Unsupported(ACL[i]) THEN chain ELSE Append(chain, ACL[i]))
          /\ UNCHANGED faults
       \/ ACL[i] \in {"established", "mark"} /\ Fault /\ UNCHANGED chain
    /\ UNCHANGED <<kernel, eth, rules, mangle, hook, netd, opened, bypass,
                   applied, reconf>>

\* The jump to it, at the top of OUTPUT; a check that fails adds a second one.
Hook ==
    /\ Step("hook", "pinned")
    /\ \/ /\ hook' = IF \E i \in 1 .. Len(hook) : hook[i] = "ours" THEN hook
                     ELSE <<"ours">> \o hook
          /\ UNCHANGED faults
       \/ Fault /\ hook' = <<"ours">> \o hook
    /\ UNCHANGED <<kernel, eth, rules, mangle, chain, netd, opened, bypass,
                   applied, reconf>>

\* Any command that nothing guards ends the script, and applyEgressPolicy throws:
\* the lock of iptables taken by netd, an exec that is killed.
CommandFails ==
    /\ pc \notin {"idle", "pinned", "failed"}
    /\ Fault
    /\ pc' = "failed"
    /\ UNCHANGED <<kernel, eth, rules, mangle, chain, hook, netd, opened, bypass,
                   applied, reconf>>

\* Later on something changes the stack: routing rules go, one may come that
\* precedes all others, the marks may stand again.
Reconfigure ==
    /\ pc = "pinned" /\ reconf < MaxReconf
    /\ reconf' = reconf + 1
    /\ \E gone \in SUBSET {r \in rules : r.pref <= TunPref},
          early \in {{}, {Rule(50, "all", eth)}} : rules' = (rules \ gone) \cup early
    /\ mangle' \in {mangle, FALSE}
    /\ UNCHANGED <<kernel, eth, chain, hook, netd, opened, pc, bypass,
                   applied, faults>>

-----------------------------------------------------------------------------
(* Specification *)

\* tun2socks is up: its catch-all is above main's rule, below all of netd's.
Init ==
    /\ kernel \in Kernels
    /\ eth = "main"
    /\ rules = {Rule(32765, "notOwn", "tun"), Rule(32766, "all", "main")}
    /\ mangle = FALSE /\ chain = <<>> /\ hook = <<>>
    /\ netd = {} /\ opened = FALSE
    /\ pc = "idle" /\ bypass = "main"
    /\ applied = 0 /\ faults = 0 /\ reconf = 0

Boots == NetdMoves \/ NetdRules \/ NetdJumps \/ AppConnects
Script ==
    \/ Start \/ PickBackend \/ Discover \/ Routing \/ ClearMarks \/ NewChain
    \/ \E i \in 1 .. Len(ACL) : AppendEntry(i)
    \/ Hook \/ CommandFails
Next == Boots \/ Script \/ Reconfigure

Spec == Init /\ [][Next]_vars

-----------------------------------------------------------------------------
(* Properties *)

Pcs == {"idle", "pick", "discover", "dropBypass", "dropSecond", "dropTun", "addBypass",
        "addSecond", "dropLocal", "addLocal", "addTun", "clearMarks", "newChain",
        "lo", "tun", "adb", "established", "endpoint", "mark", "control", "deny",
        "hook", "pinned", "failed"}

\* Type correctness.
TypeOK ==
    /\ kernel \in Kernel
    /\ eth \in {"main", "netd"} /\ bypass \in {"main", "netd"}
    /\ rules \subseteq Rules
    /\ mangle \in BOOLEAN /\ opened \in BOOLEAN
    /\ chain \in Seq(Entries) /\ Len(chain) <= Len(ACL)
    /\ hook \in Seq({"ours", "netd"})
    /\ netd \subseteq {"routes", "rules", "jumps"}
    /\ pc \in Pcs
    /\ applied \in Nat /\ faults \in Nat /\ reconf \in Nat

\* Once the script has succeeded, no packet of an app leaves by the physical
\* interface, whatever was missing in the kernel, whichever commands failed and
\* whatever has happened to the routing since - except to the control network, to
\* the proxy itself, or on a connection that was open before on a kernel with
\* conntrack (egressPolicy.ts:23-26, the ACL).
Sealed ==
    pc = "pinned" =>
        \A p \in AppPackets : LeavesBy(p) = "eth" =>
            \/ p.dst = "peer"
            \/ p.dst = "proxy" /\ kernel.resolved
            \/ p.old /\ kernel.conntrack

\* As long as nobody touches the routing again, the first layer alone sends every
\* packet of an app for the outside into the tun, netd's mark and open connections
\* included, also where the marks could not be cleared (egressPolicy.ts:216-228).
RoutedInside ==
    pc = "pinned" /\ reconf = 0 =>
        \A p \in AppPackets : p.dst # "peer" => OutDev(p) = "tun"

\* The gateway reaches its own proxy through the physical interface when the
\* script is done, provided the kernel can match its mark or the proxy's host was
\* resolved; and a first run never routes that connection into the tun it serves
\* (egressPolicy.ts:184).
UpstreamReaches ==
    /\ /\ pc = "pinned" /\ reconf = 0
       /\ kernel.resolved \/ \E i \in DOMAIN chain : chain[i] = "mark"
       => LeavesBy(Upstream) = "eth"
    /\ applied <= 1 /\ reconf = 0 => OutDev(Upstream) # "tun"

\* The device answers ADB after every command of any run (egressPolicy.ts:196).
AdbAnswers ==
    Booted /\ reconf = 0 => \A p \in AdbReplies : LeavesBy(p) = "eth"

\* What must not go through the tun still reaches the network: the gateway its proxy,
\* and the device answers ADB after each single command of any run, so that neither
\* the routing nor the chain ever cuts the control plane (egressPolicy.ts:196, :239).
Reachable == UpstreamReaches /\ AdbAnswers
=============================================================================
