------------------------- MODULE EgressPolicyProofs -------------------------
(***************************************************************************)
(* Proofs about EgressPolicy, for every set of kernels and every bound.    *)
(***************************************************************************)
EXTENDS EgressPolicy, TLAPS

(* The chain as it is appended to: nothing in it that the kernel lacks, and *)
(* never more than the entries up to where the script is.                   *)
ChainOK ==
    /\ \A i \in 1 .. Len(chain) :
          /\ chain[i] = "endpoint" => kernel.resolved
          /\ chain[i] = "established" => kernel.conntrack
    /\ \A i \in 1 .. Len(ACL) : pc = ACL[i] => Len(chain) <= i - 1

(* Its last entry denies as soon as the jump to it may be there.            *)
Closed == pc \in {"hook", "pinned"} => chain # <<>> /\ chain[Len(chain)] = "deny"

(* netd's jumps come while Android boots, the script's in front of them.    *)
HookOK ==
    /\ pc # "idle" => Booted
    /\ pc = "idle" => \A i \in 1 .. Len(hook) : hook[i] # "ours"
    /\ (\E i \in 1 .. Len(hook) : hook[i] = "ours") => hook[1] = "ours"
    /\ pc = "pinned" => \E i \in 1 .. Len(hook) : hook[i] = "ours"

Layer3 == TypeOK /\ ChainOK /\ Closed /\ HookOK

-----------------------------------------------------------------------------

(* The list of the script's entries, spelt out for the provers.             *)
LEMMA ACLFacts ==
    /\ Len(ACL) = 8
    /\ ACL[1] = "lo" /\ ACL[2] = "tun" /\ ACL[3] = "adb" /\ ACL[4] = "established"
    /\ ACL[5] = "endpoint" /\ ACL[6] = "mark" /\ ACL[7] = "control" /\ ACL[8] = "deny"
PROOF BY DEF ACL

(* Initially nothing is pinned and no chain exists.                         *)
LEMMA Layer3Init == Init => Layer3
<1> SUFFICES ASSUME Init PROVE Layer3
    OBVIOUS
<1>1. TypeOK
  <2>1. rules \subseteq Rules
      BY DEF Init, Rule, Rules, Selectors, Tables
  <2>2. kernel \in Kernel
      BY KernelAssumption DEF Init
  <2>3. chain \in Seq(Entries) /\ Len(chain) <= Len(ACL) /\ hook \in Seq({"ours", "netd"})
      BY ACLFacts DEF Init
  <2>4. eth \in {"main", "netd"} /\ bypass \in {"main", "netd"} /\ pc \in Pcs
      BY DEF Init, Pcs
  <2>5. mangle \in BOOLEAN
    <3>1. mangle = FALSE
        BY DEF Init
    <3> QED BY <3>1
  <2>7. opened \in BOOLEAN
    <3>1. opened = FALSE
        BY DEF Init
    <3> QED BY <3>1
  <2>8. netd \subseteq {"routes", "rules", "jumps"}
      BY DEF Init
  <2>6. applied \in Nat /\ faults \in Nat /\ reconf \in Nat
      BY DEF Init
  <2> QED BY <2>1, <2>2, <2>3, <2>4, <2>5, <2>6, <2>7, <2>8 DEF TypeOK
<1>2. ChainOK
    BY ACLFacts DEF Init, ChainOK
<1>3. Closed /\ HookOK
    BY DEF Init, Closed, HookOK
<1> QED BY <1>1, <1>2, <1>3 DEF Layer3

(* The commands that only touch routing rules.                              *)
LEMMA Layer3Routing == ASSUME Layer3, Routing PROVE Layer3'
<1>1. /\ UNCHANGED <<kernel, eth, mangle, chain, hook, netd, opened, bypass,
                     applied, faults, reconf>>
      /\ pc' \in {"dropSecond", "dropTun", "addBypass", "addSecond", "dropLocal",
                  "addLocal", "addTun", "clearMarks"}
      /\ pc # "idle"
    BY DEF Routing, Delete, Add, Step
<1>2. rules' \subseteq Rules
  <2>1. ASSUME NEW pref, rules' = {r \in rules : r.pref # pref} PROVE rules' \subseteq Rules
    BY <2>1 DEF Layer3, TypeOK
  <2>2. ASSUME NEW pref \in Nat, NEW sel \in Selectors, NEW table \in Tables,
               rules' = rules \cup {Rule(pref, sel, table)}
        PROVE rules' \subseteq Rules
    BY <2>2 DEF Layer3, TypeOK, Rule, Rules
  <2>3. /\ bypass \in Tables /\ "main" \in Tables /\ "tun" \in Tables
        /\ "own" \in Selectors /\ "peer" \in Selectors /\ "all" \in Selectors
        /\ BypassPref \in Nat /\ BypassPref + 1 \in Nat /\ LocalPref \in Nat /\ TunPref \in Nat
    BY DEF Layer3, TypeOK, Tables, Selectors, BypassPref, LocalPref, TunPref
  <2> QED BY <2>1, <2>2, <2>3 DEF Routing, Delete, Add
<1>3. TypeOK'
    BY <1>1, <1>2 DEF Layer3, TypeOK, Pcs
<1>4. ChainOK'
    BY <1>1, ACLFacts DEF Layer3, ChainOK
<1>5. Closed' /\ HookOK'
    BY <1>1 DEF Layer3, Closed, HookOK, Booted
<1> QED BY <1>3, <1>4, <1>5 DEF Layer3

(* One entry appended, or left out where the kernel lacks its match.        *)
LEMMA Layer3Append ==
    ASSUME Layer3, NEW i \in 1 .. Len(ACL), AppendEntry(i)
    PROVE  Layer3'
<1>1. /\ UNCHANGED <<kernel, eth, rules, mangle, hook, netd, opened, bypass,
                     applied, reconf>>
      /\ pc = ACL[i] /\ pc' = After(i)
      /\ faults' \in Nat
      /\ Len(chain) <= i - 1 /\ chain \in Seq(Entries)
    BY DEF AppendEntry, Step, Fault, Layer3, TypeOK, ChainOK
<1>2. \/ chain' = chain /\ ACL[i] # "deny"
      \/ chain' = Append(chain, ACL[i]) /\ ~Unsupported(ACL[i])
    BY DEF AppendEntry, Unsupported
<1>3. /\ i \in 1 .. 8 /\ ACL[i] \in Entries
      /\ i = 8 <=> ACL[i] = "deny"
      /\ pc' \in {"tun", "adb", "established", "endpoint", "mark", "control", "deny", "hook"}
      /\ pc' = "hook" => i = 8
      /\ \A k \in 1 .. 8 : pc' = ACL[k] => k = i + 1
    BY <1>1, ACLFacts DEF After, Entries, Accepting
<1>4. /\ chain' \in Seq(Entries) /\ Len(chain') <= i
      /\ i = 8 => chain' # <<>> /\ chain'[Len(chain')] = "deny"
  <2>1. CASE chain' = chain /\ ACL[i] # "deny"
    <3>1. Len(chain) <= i
        BY <1>1, <1>3
    <3>2. i # 8
        BY <1>3, <2>1
    <3> QED BY <1>1, <2>1, <3>1, <3>2
  <2>2. CASE chain' = Append(chain, ACL[i])
    <3>1. /\ chain' \in Seq(Entries) /\ Len(chain') = Len(chain) + 1
          /\ Len(chain) \in Nat
        BY <1>1, <1>3, <2>2
    <3>2. chain'[Len(chain')] = ACL[i]
        BY <1>1, <1>3, <2>2
    <3>3. Len(chain') <= i /\ chain' # <<>>
        BY <1>1, <1>3, <3>1
    <3> QED BY <1>3, <3>1, <3>2, <3>3
  <2> QED BY <1>2, <2>1, <2>2
<1>5. TypeOK'
    BY <1>1, <1>3, <1>4, ACLFacts DEF Layer3, TypeOK, Pcs
<1>6. ChainOK'
  <2>1. ASSUME NEW k \in 1 .. Len(chain')
        PROVE  /\ chain'[k] = "endpoint" => kernel.resolved
               /\ chain'[k] = "established" => kernel.conntrack
    <3>1. CASE chain' = chain
        BY <2>1, <3>1 DEF Layer3, ChainOK
    <3>2. CASE chain' = Append(chain, ACL[i]) /\ ~Unsupported(ACL[i])
      <4>1. \/ k \in 1 .. Len(chain) /\ chain'[k] = chain[k]
            \/ chain'[k] = ACL[i]
          BY <1>1, <1>3, <2>1, <3>2
      <4> QED BY <3>2, <4>1 DEF Layer3, ChainOK, Unsupported
    <3> QED BY <1>2, <3>1, <3>2
  <2> QED BY <1>1, <1>3, <1>4, <2>1, ACLFacts DEF ChainOK
<1>7. Closed'
    BY <1>3, <1>4 DEF Closed
<1>8. HookOK'
    BY <1>1, <1>3, ACLFacts DEF Layer3, HookOK, Booted
<1> QED BY <1>5, <1>6, <1>7, <1>8 DEF Layer3

(* Every other step.                                                        *)
LEMMA Layer3Step == Layer3 /\ [Next]_vars => Layer3'
<1> SUFFICES ASSUME Layer3, [Next]_vars PROVE Layer3'
    OBVIOUS
<1>1. CASE NetdMoves
    BY <1>1, ACLFacts DEF NetdMoves, Layer3, TypeOK, ChainOK, Closed, HookOK, Booted
<1>2. CASE NetdRules
  <2>1. rules' \subseteq Rules
      BY <1>2 DEF NetdRules, Layer3, TypeOK, Rule, Rules, Selectors, Tables
  <2>2. TypeOK'
      BY <1>2, <2>1 DEF NetdRules, Layer3, TypeOK
  <2>3. ChainOK' /\ Closed' /\ HookOK'
      BY <1>2, ACLFacts DEF NetdRules, Layer3, ChainOK, Closed, HookOK, Booted
  <2> QED BY <2>2, <2>3 DEF Layer3
<1>3. CASE NetdJumps
  <2>1. hook' = <<"netd">> \o hook /\ hook \in Seq({"ours", "netd"}) /\ pc = "idle"
      BY <1>3 DEF NetdJumps, Layer3, TypeOK, HookOK, Booted
  <2>2. hook' \in Seq({"ours", "netd"}) /\ \A i \in 1 .. Len(hook') : hook'[i] # "ours"
    <3>1. \A i \in 1 .. Len(hook) : hook[i] # "ours"
        BY <2>1 DEF Layer3, HookOK
    <3>2. Len(hook') = Len(hook) + 1 /\ hook'[1] = "netd"
        BY <2>1
    <3>3. \A i \in 2 .. Len(hook') : hook'[i] = hook[i - 1]
        BY <2>1, <3>2
    <3> QED BY <2>1, <3>1, <3>2, <3>3
  <2>3. TypeOK'
      BY <1>3, <2>2 DEF NetdJumps, Layer3, TypeOK
  <2>4. ChainOK' /\ Closed' /\ HookOK'
      BY <1>3, <2>1, <2>2, ACLFacts DEF NetdJumps, Layer3, ChainOK, Closed, HookOK
  <2> QED BY <2>3, <2>4 DEF Layer3
<1>4. CASE AppConnects
    BY <1>4, ACLFacts DEF AppConnects, Layer3, TypeOK, ChainOK, Closed, HookOK, Booted
<1>5. CASE Start
  <2>1. TypeOK'
      BY <1>5 DEF Start, Layer3, TypeOK, Pcs
  <2>2. ChainOK' /\ Closed' /\ HookOK'
      BY <1>5, ACLFacts DEF Start, Layer3, ChainOK, Closed, HookOK, Booted
  <2> QED BY <2>1, <2>2 DEF Layer3
<1>6. CASE PickBackend
  <2>1. TypeOK'
      BY <1>6 DEF PickBackend, Layer3, TypeOK, Pcs
  <2>2. ChainOK' /\ Closed' /\ HookOK'
      BY <1>6, ACLFacts DEF PickBackend, Layer3, ChainOK, Closed, HookOK, Booted
  <2> QED BY <2>1, <2>2 DEF Layer3
<1>7. CASE Discover
  <2>1. TypeOK'
      BY <1>7 DEF Discover, Step, Layer3, TypeOK, Pcs
  <2>2. ChainOK' /\ Closed' /\ HookOK'
      BY <1>7, ACLFacts DEF Discover, Step, Layer3, ChainOK, Closed, HookOK, Booted
  <2> QED BY <2>1, <2>2 DEF Layer3
<1>8. CASE Routing
    BY <1>8, Layer3Routing
<1>9. CASE ClearMarks
  <2>1. TypeOK'
      BY <1>9 DEF ClearMarks, Step, Fault, Layer3, TypeOK, Pcs, Kernel
  <2>2. ChainOK' /\ Closed' /\ HookOK'
      BY <1>9, ACLFacts DEF ClearMarks, Step, Layer3, ChainOK, Closed, HookOK, Booted
  <2> QED BY <2>1, <2>2 DEF Layer3
<1>10. CASE NewChain
  <2>1. TypeOK'
      BY <1>10, ACLFacts DEF NewChain, Step, Layer3, TypeOK, Pcs
  <2>2. ChainOK' /\ Closed' /\ HookOK'
      BY <1>10, ACLFacts DEF NewChain, Step, Layer3, TypeOK, ChainOK, Closed, HookOK, Booted
  <2> QED BY <2>1, <2>2 DEF Layer3
<1>11. ASSUME NEW i \in 1 .. Len(ACL), AppendEntry(i) PROVE Layer3'
    BY <1>11, Layer3Append
<1>12. CASE Hook
  <2>1. hook \in Seq({"ours", "netd"})
      BY DEF Layer3, TypeOK
  <2>2. \/ hook' = hook /\ \E i \in 1 .. Len(hook) : hook[i] = "ours"
        \/ hook' = <<"ours">> \o hook
      BY <1>12 DEF Hook
  <2>3. /\ hook' \in Seq({"ours", "netd"}) /\ hook'[1] = "ours"
        /\ \E i \in 1 .. Len(hook') : hook'[i] = "ours"
    <3>1. CASE hook' = hook /\ \E i \in 1 .. Len(hook) : hook[i] = "ours"
        BY <2>1, <3>1 DEF Layer3, HookOK
    <3>2. CASE hook' = <<"ours">> \o hook
      <4>1. hook' \in Seq({"ours", "netd"}) /\ hook'[1] = "ours" /\ 1 \in 1 .. Len(hook')
          BY <2>1, <3>2
      <4> QED BY <4>1
    <3> QED BY <2>2, <3>1, <3>2
  <2>4. TypeOK'
      BY <1>12, <2>3 DEF Hook, Step, Fault, Layer3, TypeOK, Pcs
  <2>5. ChainOK' /\ Closed' /\ HookOK'
    <3>1. pc = "hook" /\ pc' = "pinned" /\ UNCHANGED <<kernel, chain, netd>>
        BY <1>12 DEF Hook, Step
    <3>2. ChainOK'
        BY <3>1, ACLFacts DEF Layer3, ChainOK
    <3>3. Closed'
        BY <3>1 DEF Layer3, Closed
    <3>4. HookOK'
        BY <2>3, <3>1 DEF Layer3, HookOK, Booted
    <3> QED BY <3>2, <3>3, <3>4
  <2> QED BY <2>4, <2>5 DEF Layer3
<1>13. CASE CommandFails
  <2>1. TypeOK'
      BY <1>13 DEF CommandFails, Fault, Layer3, TypeOK, Pcs
  <2>2. ChainOK' /\ Closed' /\ HookOK'
      BY <1>13, ACLFacts DEF CommandFails, Layer3, ChainOK, Closed, HookOK, Booted
  <2> QED BY <2>1, <2>2 DEF Layer3
<1>14. CASE Reconfigure
  <2>1. /\ UNCHANGED <<kernel, eth, chain, hook, netd, opened, pc, bypass, faults, applied>>
      BY <1>14 DEF Reconfigure
  <2>6. reconf' \in Nat
      BY <1>14 DEF Reconfigure, Layer3, TypeOK
  <2>7. mangle' \in BOOLEAN
    <3>1. mangle \in BOOLEAN
        BY DEF Layer3, TypeOK
    <3>2. mangle' \in {mangle, FALSE}
        BY <1>14 DEF Reconfigure
    <3> QED BY <3>1, <3>2
  <2>2. rules' \subseteq Rules
      BY <1>14 DEF Reconfigure, Layer3, TypeOK, Rule, Rules, Selectors, Tables
  <2>3. TypeOK'
      BY <2>1, <2>2, <2>6, <2>7 DEF Layer3, TypeOK
  <2>4. ChainOK' /\ Closed' /\ HookOK'
      BY <2>1 DEF Layer3, ChainOK, Closed, HookOK, Booted
  <2> QED BY <2>3, <2>4 DEF Layer3
<1>15. CASE UNCHANGED vars
    BY <1>15 DEF vars, Layer3, TypeOK, ChainOK, Closed, HookOK, Booted
<1> QED
    BY <1>1, <1>2, <1>3, <1>4, <1>5, <1>6, <1>7, <1>8, <1>9, <1>10, <1>11, <1>12, <1>13,
       <1>14, <1>15 DEF Next, Boots, Script

(* Every variable has its type, and the chain never grows beyond the list   *)
(* the script appends, also when it runs again (egressPolicy.ts:127).       *)
THEOREM EgressTypeCorrect == Spec => []TypeOK
<1>1. Layer3 => TypeOK
    BY DEF Layer3
<1> QED BY Layer3Init, Layer3Step, <1>1, PTL DEF Spec

-----------------------------------------------------------------------------

(* With the jump first and the denial last, a packet passes only by one of  *)
(* the entries that accept.                                                 *)
LEMMA PassesByAnEntry ==
    ASSUME Layer3, pc = "pinned", NEW p \in Packets, Passes(p)
    PROVE  \E i \in 1 .. Len(chain) : chain[i] # "deny" /\ Matches(chain[i], p)
<1>1. 1 \in 1 .. Len(hook) /\ hook[1] = "ours"
    BY DEF Layer3, TypeOK, HookOK
<1>2. ChainPasses(p)
  <2>1. CASE \A i \in 1 .. Len(hook) : hook[i] = "ours" => ChainPasses(p)
      BY <1>1, <2>1
  <2>2. CASE \E i \in 1 .. Len(hook) :
                /\ hook[i] = "netd" /\ kernel.accepts
                /\ \A k \in 1 .. i - 1 : hook[k] = "ours" => ChainPasses(p)
    <3>1. PICK i \in 1 .. Len(hook) :
                /\ hook[i] = "netd"
                /\ \A k \in 1 .. i - 1 : hook[k] = "ours" => ChainPasses(p)
        BY <2>2
    <3>2. 1 \in 1 .. i - 1
        BY <1>1, <3>1
    <3> QED BY <1>1, <3>1, <3>2
  <2> QED BY <2>1, <2>2 DEF Passes
<1>3. Len(chain) \in 1 .. Len(chain) /\ chain[Len(chain)] = "deny"
    BY DEF Layer3, Closed, TypeOK
<1>4. Matches("deny", p)
    BY DEF Matches
<1> QED BY <1>2, <1>3, <1>4 DEF ChainPasses

(* A namespace the script has pinned lets no app out by the physical        *)
(* interface, on any kernel, after any failures and whatever happens to the *)
(* routing later (egressPolicy.ts:23-26).                                   *)
THEOREM SealedHolds == Spec => []Sealed
<1>1. Layer3 => Sealed
  <2> SUFFICES ASSUME Layer3, pc = "pinned",
                      NEW p \in AppPackets, LeavesBy(p) = "eth"
               PROVE  p.dst = "peer" \/ (p.dst = "proxy" /\ kernel.resolved)
                      \/ (p.old /\ kernel.conntrack)
      BY DEF Sealed
  <2>1. p \in Packets /\ p.owner = "app" /\ p.mark # "own"
      BY DEF AppPackets
  <2>2. Passes(p) /\ OutDev(p) = "eth"
      BY DEF LeavesBy
  <2>3. PICK i \in 1 .. Len(chain) : chain[i] # "deny" /\ Matches(chain[i], p)
      BY <2>1, <2>2, PassesByAnEntry
  <2>4. chain[i] \in Accepting
      BY <2>3 DEF Layer3, TypeOK, Entries
  <2>5. Mark(p) # "own"
      BY <2>1 DEF Mark
  <2>6. /\ chain[i] = "endpoint" => kernel.resolved
        /\ chain[i] = "established" => kernel.conntrack
      BY DEF Layer3, ChainOK
  <2> QED BY <2>1, <2>2, <2>3, <2>4, <2>5, <2>6 DEF Accepting, Matches
<1> QED BY Layer3Init, Layer3Step, <1>1, PTL DEF Spec

-----------------------------------------------------------------------------

CatchAll == Rule(TunPref, "all", "tun")
Bypass == Rule(BypassPref, "own", eth)
Neighbours == Rule(LocalPref, "peer", eth)
OfNetd == {Rule(10000, "netd", eth), Rule(31000, "none", eth),
           Rule(32000, "all", "unreachable")}
Given == {Rule(32765, "notOwn", "tun"), Rule(32766, "all", "main")}

(* Where the script has added the catch-all, and where it is adding rules.   *)
Routed == {"clearMarks", "newChain", "lo", "tun", "adb", "established", "endpoint",
           "mark", "control", "deny", "hook", "pinned"}
Adding == {"addSecond", "dropLocal", "addLocal", "addTun"}

(* Which rules there are, command by command: the catch-all only next to    *)
(* the neighbours, and in a first run only next to the bypass.              *)
RulesAre ==
    /\ rules \subseteq {CatchAll, Bypass, Rule(BypassPref + 1, "own", "main"),
                        Neighbours} \cup OfNetd \cup Given
    /\ "rules" \in netd => "routes" \in netd /\ OfNetd \subseteq rules
    /\ "rules" \notin netd => rules = Given
    /\ pc = "idle" <=> applied = 0
    /\ pc \in {"dropBypass", "dropSecond", "dropTun", "addBypass"} \cup Adding \cup Routed
          => bypass = eth
    /\ pc = "addTun" \/ CatchAll \in rules => Neighbours \in rules
    /\ pc \in Adding \cup Routed => Bypass \in rules
    /\ pc \in Routed => CatchAll \in rules
    /\ pc \in {"addBypass"} \cup Adding => CatchAll \notin rules
    /\ applied <= 1 /\ CatchAll \in rules =>
          Bypass \in rules /\ pc \in Routed \cup {"failed"}

RulesOK == reconf = 0 => RulesAre

(* The place of an entry in the script.                                     *)
Rank(entry) ==
    CASE entry = "lo" -> 1 [] entry = "tun" -> 2 [] entry = "adb" -> 3
      [] entry = "established" -> 4 [] entry = "endpoint" -> 5 [] entry = "mark" -> 6
      [] entry = "control" -> 7 [] OTHER -> 8

(* The entries come in that order, the first three never missing, nor the   *)
(* proxy's when it has an address.                                          *)
Ordered ==
    /\ \A i \in 1 .. Len(chain) :
          /\ i <= 3 => chain[i] = ACL[i]
          /\ \A k \in 1 .. i - 1 : Rank(chain[k]) < Rank(chain[i])
    /\ \A n \in 1 .. Len(ACL) : pc = ACL[n] =>
          /\ n <= 3 => Len(chain) = n - 1
          /\ n > 3 => Len(chain) >= 3
          /\ \A i \in 1 .. Len(chain) : Rank(chain[i]) < n
    /\ pc \in {"mark", "control", "deny", "hook", "pinned"} /\ kernel.resolved
          => \E i \in 1 .. Len(chain) : chain[i] = "endpoint"

-----------------------------------------------------------------------------
(* Layer 1                                                                  *)

LEMMA RulesInit == Init => RulesOK
BY DEF Init, RulesOK, RulesAre, Given, CatchAll, Rule, Adding, Routed, TunPref

(* No two of them share a priority.                                         *)
LEMMA Priorities ==
    /\ CatchAll.pref = 100 /\ Bypass.pref = 90 /\ Neighbours.pref = 95
    /\ \A sel, table : Rule(BypassPref + 1, sel, table).pref = 91
    /\ \A r \in OfNetd \cup Given : r.pref >= 10000
BY DEF CatchAll, Bypass, Neighbours, OfNetd, Given, Rule, TunPref, BypassPref, LocalPref

(* The commands of the script's first layer, one by one.                    *)
LEMMA RulesRouting ==
    ASSUME Layer3, RulesAre, Routing
    PROVE  RulesAre'
<1>. USE DEF Adding, Routed
<1>0. UNCHANGED <<eth, netd, bypass, applied>>
  BY DEF Routing, Delete, Add
<1>1. /\ CatchAll' = CatchAll /\ Bypass' = Bypass /\ Neighbours' = Neighbours
      /\ OfNetd' = OfNetd /\ Given' = Given
  BY <1>0 DEF CatchAll, Bypass, Neighbours, OfNetd, Given
<1>2. ASSUME NEW pref \in 90 .. 100, rules' = {r \in rules : r.pref # pref}
      PROVE  /\ rules' \subseteq rules
             /\ pref # 100 => (CatchAll \in rules' <=> CatchAll \in rules)
             /\ pref # 95 => (Neighbours \in rules' <=> Neighbours \in rules)
             /\ pref # 90 => (Bypass \in rules' <=> Bypass \in rules)
             /\ pref = 100 => CatchAll \notin rules'
             /\ OfNetd \subseteq rules => OfNetd \subseteq rules'
  BY <1>2, Priorities
<1>3. ASSUME NEW from, NEW rule, NEW to, Add(from, rule, to)
      PROVE  pc = from /\ pc' = to /\ rules' = rules \cup {rule}
  BY <1>3 DEF Add, Step
<1>4. applied \in Nat /\ "rules" \in netd /\ OfNetd \subseteq rules
  <2>1. pc # "idle"
    BY DEF Routing, Delete, Add, Step
  <2>. QED
    BY <2>1 DEF Layer3, TypeOK, HookOK, Booted, RulesAre
<1>. DEFINE Second == Rule(BypassPref + 1, "own", "main")
            Rest == {Second} \cup OfNetd \cup Given
<1>5. /\ CatchAll \notin Rest /\ Bypass \notin Rest /\ Neighbours \notin Rest
      /\ CatchAll # Bypass /\ CatchAll # Neighbours /\ Bypass # Neighbours
  BY Priorities
<1>6. CASE Delete("dropBypass", BypassPref, "dropSecond")
  <2>1. /\ pc = "dropBypass" /\ pc' = "dropSecond" /\ rules' \subseteq rules
        /\ OfNetd \subseteq rules'
        /\ CatchAll \in rules' <=> CatchAll \in rules
        /\ Neighbours \in rules' <=> Neighbours \in rules
    BY <1>2, <1>4, <1>6 DEF Delete, Step, BypassPref, LocalPref, TunPref
  <2>. QED
    BY <1>0, <1>1, <1>4, <2>1 DEF RulesAre
<1>7. CASE Delete("dropSecond", BypassPref + 1, "dropTun")
  <2>1. /\ pc = "dropSecond" /\ pc' = "dropTun" /\ rules' \subseteq rules
        /\ OfNetd \subseteq rules'
        /\ CatchAll \in rules' <=> CatchAll \in rules
        /\ Neighbours \in rules' <=> Neighbours \in rules
        /\ Bypass \in rules' <=> Bypass \in rules
    BY <1>2, <1>4, <1>7 DEF Delete, Step, BypassPref, LocalPref, TunPref
  <2>. QED
    BY <1>0, <1>1, <1>4, <2>1 DEF RulesAre
<1>8. CASE Delete("dropTun", TunPref, "addBypass")
  <2>1. /\ pc = "dropTun" /\ pc' = "addBypass" /\ rules' \subseteq rules
        /\ OfNetd \subseteq rules'
        /\ CatchAll \notin rules'
        /\ Neighbours \in rules' <=> Neighbours \in rules
        /\ Bypass \in rules' <=> Bypass \in rules
    BY <1>2, <1>4, <1>8 DEF Delete, Step, BypassPref, LocalPref, TunPref
  <2>. QED
    BY <1>0, <1>1, <1>4, <2>1 DEF RulesAre
<1>9. CASE Add("addBypass", Rule(BypassPref, "own", bypass), "addSecond")
  <2>1. pc = "addBypass" /\ pc' = "addSecond" /\ rules' = rules \cup {Bypass}
    BY <1>3, <1>9 DEF RulesAre, Bypass
  <2>. QED
    BY <1>0, <1>1, <1>4, <1>5, <2>1 DEF RulesAre
<1>10. CASE Add("addSecond", Rule(BypassPref + 1, "own", "main"), "dropLocal")
  <2>1. pc = "addSecond" /\ pc' = "dropLocal" /\ rules' = rules \cup {Second}
    BY <1>3, <1>10 DEF RulesAre
  <2>. QED
    BY <1>0, <1>1, <1>4, <1>5, <2>1 DEF RulesAre
<1>11. CASE Delete("dropLocal", LocalPref, "addLocal")
  <2>1. /\ pc = "dropLocal" /\ pc' = "addLocal" /\ rules' \subseteq rules
        /\ OfNetd \subseteq rules'
        /\ CatchAll \in rules' <=> CatchAll \in rules
        /\ Bypass \in rules' <=> Bypass \in rules
    BY <1>2, <1>4, <1>11 DEF Delete, Step, BypassPref, LocalPref, TunPref
  <2>. QED
    BY <1>0, <1>1, <1>4, <2>1 DEF RulesAre
<1>12. CASE Add("addLocal", Rule(LocalPref, "peer", bypass), "addTun")
  <2>1. pc = "addLocal" /\ pc' = "addTun" /\ rules' = rules \cup {Neighbours}
    BY <1>3, <1>12 DEF RulesAre, Neighbours
  <2>. QED
    BY <1>0, <1>1, <1>4, <1>5, <2>1 DEF RulesAre
<1>13. CASE Add("addTun", Rule(TunPref, "all", "tun"), "clearMarks")
  <2>1. pc = "addTun" /\ pc' = "clearMarks" /\ rules' = rules \cup {CatchAll}
    BY <1>3, <1>13 DEF RulesAre, CatchAll
  <2>. QED
    BY <1>0, <1>1, <1>4, <1>5, <2>1 DEF RulesAre
<1>. QED
  BY <1>6, <1>7, <1>8, <1>9, <1>10, <1>11, <1>12, <1>13 DEF Routing

(* Only the commands of layer 1, netd and a reconfiguration touch a rule.   *)
LEMMA RulesStep == Layer3 /\ RulesOK /\ [Next]_vars => RulesOK'
<1> SUFFICES ASSUME Layer3, RulesOK, [Next]_vars, reconf' = 0 PROVE RulesAre'
  BY DEF RulesOK
<1>0. /\ applied \in Nat
      /\ applied = 0 <=> pc = "idle"
      /\ pc # "idle" => {"routes", "rules"} \subseteq netd
      /\ RulesAre
  <2>1. reconf = 0
    <3>1. CASE Reconfigure
      BY <3>1 DEF Reconfigure, Layer3, TypeOK
    <3>2. CASE Boots \/ UNCHANGED vars
      BY <3>2 DEF Boots, NetdMoves, NetdRules, NetdJumps, AppConnects, vars
    <3>3. CASE Script
      BY <3>3 DEF Script, Start, PickBackend, Discover, Routing, Delete, Add, ClearMarks,
         NewChain, AppendEntry, Hook, CommandFails
    <3>. QED
      BY <3>1, <3>2, <3>3 DEF Next
  <2>. QED
    BY <2>1 DEF RulesOK, RulesAre, Layer3, TypeOK, HookOK, Booted
<1>1. CASE Routing
  BY <1>0, <1>1, RulesRouting
<1>2. CASE NetdMoves
  <2>1. rules = Given /\ pc = "idle" /\ CatchAll \notin Given
    BY <1>0, <1>2, Priorities DEF NetdMoves, RulesAre
  <2>. QED
    BY <1>0, <1>2, <2>1 DEF NetdMoves, RulesAre, CatchAll, Given, Adding, Routed
<1>3. CASE NetdRules
  <2>1. rules = Given /\ pc = "idle" /\ CatchAll \notin Given \cup OfNetd
    BY <1>0, <1>3, Priorities DEF NetdRules, RulesAre
  <2>2. rules' = rules \cup OfNetd
    BY <1>3 DEF NetdRules, OfNetd
  <2>3. /\ UNCHANGED <<eth, pc, applied, bypass>>
        /\ "rules" \in netd' /\ "routes" \in netd'
    BY <1>3 DEF NetdRules
  <2>4. /\ CatchAll' = CatchAll /\ Bypass' = Bypass /\ Neighbours' = Neighbours
        /\ OfNetd' = OfNetd /\ Given' = Given
    BY <2>3 DEF CatchAll, Bypass, Neighbours, OfNetd, Given
  <2>. QED
    BY <1>0, <2>1, <2>2, <2>3, <2>4 DEF RulesAre, Adding, Routed
<1>4. ASSUME UNCHANGED <<eth, rules>>
      PROVE  /\ CatchAll' = CatchAll /\ Bypass' = Bypass /\ Neighbours' = Neighbours
             /\ OfNetd' = OfNetd /\ Given' = Given
  BY <1>4 DEF CatchAll, Bypass, Neighbours, OfNetd, Given
<1>5. CASE NetdJumps \/ AppConnects \/ UNCHANGED vars
  <2>1. /\ UNCHANGED <<eth, rules, pc, applied, bypass>>
        /\ {"routes", "rules"} \cap netd' = {"routes", "rules"} \cap netd
    BY <1>5 DEF NetdJumps, AppConnects, vars
  <2>. QED
    BY <1>0, <1>4, <2>1 DEF RulesAre
<1>6. CASE Start
  <2>1. /\ UNCHANGED <<eth, rules, netd, bypass>> /\ pc' = "pick" /\ applied' = applied + 1
        /\ applied' <= 1 => pc = "idle"
    BY <1>0, <1>6 DEF Start
  <2>. QED
    BY <1>0, <1>4, <2>1 DEF RulesAre, Adding, Routed
<1>7. CASE PickBackend
  BY <1>0, <1>4, <1>7 DEF PickBackend, RulesAre, Adding, Routed
<1>8. CASE Discover
  BY <1>0, <1>4, <1>8 DEF Discover, Step, RulesAre, Adding, Routed
<1>9. CASE CommandFails
  BY <1>0, <1>4, <1>9 DEF CommandFails, RulesAre, Adding, Routed
<1>10. CASE ClearMarks \/ NewChain \/ Hook
  <2>1. /\ UNCHANGED <<eth, rules, netd, bypass, applied>>
        /\ pc \in Routed /\ pc' \in Routed
    BY <1>10, ACLFacts DEF ClearMarks, NewChain, Hook, Step, Routed
  <2>. QED
    BY <1>0, <1>4, <2>1 DEF RulesAre, Adding, Routed
<1>11. ASSUME NEW i \in 1 .. Len(ACL), AppendEntry(i) PROVE RulesAre'
  <2>1. /\ i \in 1 .. 8 /\ pc = ACL[i] /\ pc' = After(i)
        /\ UNCHANGED <<eth, rules, netd, bypass, applied>>
    BY <1>11, ACLFacts DEF AppendEntry, Step
  <2>2. pc \in Routed /\ pc' \in Routed
    BY <2>1, ACLFacts DEF After, Routed
  <2>. QED
    BY <1>0, <1>4, <2>1, <2>2 DEF RulesAre, Adding, Routed
<1>12. CASE Reconfigure
  BY <1>12 DEF Reconfigure, Layer3, TypeOK
<1>. QED
  BY <1>1, <1>2, <1>3, <1>5, <1>6, <1>7, <1>8, <1>9, <1>10, <1>11, <1>12
  DEF Next, Boots, Script

-----------------------------------------------------------------------------
(* Layer 3: the order of the entries                                        *)

LEMMA Ranks ==
    /\ \A i \in 1 .. Len(ACL) : Rank(ACL[i]) = i
    /\ \A e \in Entries : Rank(e) \in 1 .. 8
BY ACLFacts DEF Rank, Entries, Accepting

LEMMA OrderedStep == Layer3 /\ Ordered /\ [Next]_vars => Ordered'
<1> SUFFICES ASSUME Layer3, Ordered, [Next]_vars PROVE Ordered'
  OBVIOUS
<1>1. ASSUME NEW i \in 1 .. Len(ACL), AppendEntry(i) PROVE Ordered'
  <2>1. /\ i \in 1 .. 8 /\ pc = ACL[i] /\ pc' = After(i) /\ UNCHANGED kernel
        /\ chain \in Seq(Entries) /\ Len(chain) \in Nat
        /\ i <= 3 => Len(chain) = i - 1
        /\ i > 3 => Len(chain) >= 3
        /\ \A k \in 1 .. Len(chain) : Rank(chain[k]) < i
    BY <1>1, ACLFacts DEF AppendEntry, Step, Layer3, TypeOK, Ordered
  <2>2. \/ chain' = chain /\ i > 3 /\ (i = 5 => ~kernel.resolved)
        \/ chain' = Append(chain, ACL[i])
    BY <1>1, <2>1, ACLFacts DEF AppendEntry, Unsupported
  <2>3. \A n \in 1 .. Len(ACL) : pc' = ACL[n] => n = i + 1
    BY <2>1, ACLFacts DEF After
  <2>4. CASE chain' = chain /\ i > 3 /\ (i = 5 => ~kernel.resolved)
    <3>1. /\ \A n \in 1 .. Len(ACL) : pc' = ACL[n] =>
                n > 3 /\ \A k \in 1 .. Len(chain) : Rank(chain[k]) < n
      <4>1. \A k \in 1 .. Len(chain) : Rank(chain[k]) < i + 1
        BY <2>1, Ranks
      <4>. QED
        BY <2>1, <2>3, <2>4, <4>1
    <3>2. pc' \in {"mark", "control", "deny", "hook", "pinned"} /\ kernel.resolved
             => pc \in {"mark", "control", "deny"}
      BY <2>1, <2>4, ACLFacts DEF After
    <3>. QED
      BY <2>1, <2>4, <3>1, <3>2 DEF Ordered
  <2>5. CASE chain' = Append(chain, ACL[i])
    <3>1. /\ Len(chain') = Len(chain) + 1 /\ chain'[Len(chain) + 1] = ACL[i]
          /\ \A k \in 1 .. Len(chain) : chain'[k] = chain[k]
      BY <2>1, <2>5
    <3>2. \A k \in 1 .. Len(chain') : k \in 1 .. Len(chain) \/ k = Len(chain) + 1
      BY <2>1, <3>1
    <3>3. Rank(ACL[i]) = i
      BY <2>1, Ranks
    <3>4. \A k \in 1 .. Len(chain') :
             /\ k <= 3 => chain'[k] = ACL[k]
             /\ \A m \in 1 .. k - 1 : Rank(chain'[m]) < Rank(chain'[k])
      BY <2>1, <3>1, <3>2, <3>3 DEF Ordered
    <3>5. \A n \in 1 .. Len(ACL) : pc' = ACL[n] =>
             /\ n <= 3 => Len(chain') = n - 1
             /\ n > 3 => Len(chain') >= 3
             /\ \A k \in 1 .. Len(chain') : Rank(chain'[k]) < n
      <4>1. \A k \in 1 .. Len(chain') : Rank(chain'[k]) < i + 1
        BY <2>1, <3>1, <3>2, <3>3, Ranks
      <4>. QED
        BY <2>1, <2>3, <3>1, <4>1
    <3>6. ASSUME pc' \in {"mark", "control", "deny", "hook", "pinned"}, kernel.resolved
          PROVE  \E k \in 1 .. Len(chain') : chain'[k] = "endpoint"
      <4>1. i >= 5
        BY <2>1, <3>6, ACLFacts DEF After
      <4>2. CASE i = 5
        BY <2>1, <3>1, <4>2, ACLFacts
      <4>3. CASE i > 5
        <5>1. pc \in {"mark", "control", "deny"}
          BY <2>1, <4>3, ACLFacts
        <5>. QED
          BY <2>1, <3>1, <3>6, <5>1 DEF Ordered
      <4>. QED
        BY <2>1, <4>1, <4>2, <4>3
    <3>. QED
      BY <2>1, <3>4, <3>5, <3>6 DEF Ordered
  <2>. QED
    BY <2>2, <2>4, <2>5
<1>2. CASE NewChain
  BY <1>2, ACLFacts DEF NewChain, Step, Ordered
<1>3. CASE UNCHANGED <<kernel, chain, pc>>
  BY <1>3 DEF Ordered
<1>4. CASE /\ UNCHANGED <<kernel, chain>> /\ \A n \in 1 .. Len(ACL) : pc' # ACL[n]
           /\ pc' \in {"hook", "pinned"} => pc \in {"hook", "pinned"}
  BY <1>4, ACLFacts DEF Ordered
<1>. QED
  <2>1. CASE Boots \/ Reconfigure \/ UNCHANGED vars
    <3>1. CASE Boots
      BY <1>3, <3>1 DEF Boots, NetdMoves, NetdRules, NetdJumps, AppConnects
    <3>2. CASE Reconfigure
      BY <1>3, <3>2 DEF Reconfigure
    <3>3. CASE UNCHANGED vars
      BY <1>3, <3>3 DEF vars
    <3>. QED
      BY <2>1, <3>1, <3>2, <3>3
  <2>2. CASE Start \/ PickBackend \/ Discover \/ Routing \/ ClearMarks \/ Hook \/ CommandFails
    BY <1>4, <2>2, ACLFacts DEF Start, PickBackend, Discover, Routing, Delete, Add, ClearMarks,
       Hook, CommandFails, Step
  <2>. QED
    BY <1>1, <1>2, <2>1, <2>2 DEF Next, Script

-----------------------------------------------------------------------------
(* What must reach the network                                              *)

(* The rule with the least priority decides.                                *)
LEMMA Decides ==
    ASSUME Layer3, NEW p, NEW rule \in Deciding(p),
           \A o \in Deciding(p) : /\ rule.pref <= o.pref
                                  /\ o.pref = rule.pref => o.table = rule.table
    PROVE  OutDev(p) = Leads(rule.table)
<1>. DEFINE Best(r) == \A o \in Deciding(p) : r.pref <= o.pref
            best == CHOOSE r \in Deciding(p) : Best(r)
<1>1. \A r \in Deciding(p) : r.pref \in Nat
  BY DEF Deciding, Layer3, TypeOK, Rules
<1>2. best \in Deciding(p) /\ Best(best)
  <2>1. Best(rule)
    OBVIOUS
  <2>. HIDE DEF Best
  <2>. QED
    BY <2>1
<1>3. best.table = rule.table
  BY <1>1, <1>2
<1>4. OutDev(p) = Leads(best.table)
  BY <1>2 DEF OutDev
<1>. QED
  BY <1>3, <1>4

LEMMA KnownRules ==
    ASSUME RulesAre, NEW r \in rules
    PROVE  \/ r \in {CatchAll, Bypass, Rule(BypassPref + 1, "own", "main"), Neighbours}
           \/ r.pref >= 10000
BY Priorities DEF RulesAre

(* What becomes of each rule for a packet of adbd.                          *)
LEMMA AdbRoute ==
    ASSUME Layer3, RulesAre, Booted, NEW p \in AdbReplies
    PROVE  OutDev(p) = "eth"
<1>1. /\ Mark(p) \in {"none", "netd"} /\ p.dst = "peer"
      /\ eth \in {"main", "netd"}
  BY DEF AdbReplies, Packets, Mark, Layer3, TypeOK
<1>. DEFINE Netd == Rule(10000, "netd", eth)
            None == Rule(31000, "none", eth)
<1>2. Netd \in rules /\ None \in rules
  BY DEF RulesAre, Booted, OfNetd
<1>3. /\ Bypass \notin Deciding(p) /\ Rule(BypassPref + 1, "own", "main") \notin Deciding(p)
      /\ Leads(eth) = "eth" /\ Leads(Neighbours.table) = "eth"
      /\ Neighbours \in rules => Neighbours \in Deciding(p)
  BY <1>1 DEF Deciding, Selects, Bypass, Neighbours, Rule, Leads
<1>4. CASE Neighbours \in rules
  <2>1. \A o \in Deciding(p) : /\ Neighbours.pref <= o.pref
                               /\ o.pref = Neighbours.pref => o.table = Neighbours.table
    <3>1. \A o \in Deciding(p) : o \in {CatchAll, Neighbours} \/ o.pref >= 10000
      BY <1>3, KnownRules DEF Deciding
    <3>2. \A o \in Deciding(p) : o.pref \in Nat
      BY DEF Deciding, Layer3, TypeOK, Rules
    <3>. QED
      BY <3>1, <3>2, Priorities
  <2>. QED
    BY <1>3, <1>4, <2>1, Decides
<1>5. CASE Neighbours \notin rules
  <2>1. CatchAll \notin Deciding(p) /\ Neighbours \notin Deciding(p)
    BY <1>5 DEF RulesAre, Deciding
  <2>2. \A o \in Deciding(p) : o \in {Netd, None} \/ o.pref >= 32000
    BY <1>3, <2>1 DEF RulesAre, Deciding, OfNetd, Given, Rule
  <2>3. Netd \in Deciding(p) \/ None \in Deciding(p)
    BY <1>1, <1>2 DEF Deciding, Selects, Rule, Leads
  <2>4. /\ Netd.pref = 10000 /\ None.pref = 31000
        /\ Netd.table = eth /\ None.table = eth
    BY DEF Rule
  <2>. HIDE DEF Netd, None
  <2>5. \A o \in Deciding(p) : o.pref \in Nat
    BY DEF Deciding, Layer3, TypeOK, Rules
  <2>6. CASE Netd \in Deciding(p)
    BY <1>3, <2>2, <2>4, <2>5, <2>6, Decides
  <2>7. CASE Netd \notin Deciding(p)
    BY <1>3, <2>2, <2>3, <2>4, <2>5, <2>7, Decides
  <2>. QED
    BY <2>6, <2>7
<1>. QED
  BY <1>4, <1>5

(* What the gateway sends to its proxy bears its own mark.                  *)
LEMMA OwnRoute ==
    ASSUME Layer3, RulesAre
    PROVE  /\ Bypass \in rules => OutDev(Upstream) = "eth"
           /\ applied <= 1 => OutDev(Upstream) # "tun"
<1>1. /\ Mark(Upstream) = "own" /\ Upstream.dst = "proxy"
      /\ eth \in {"main", "netd"}
  BY DEF Upstream, Mark, Layer3, TypeOK
<1>2. ASSUME Bypass \in rules PROVE OutDev(Upstream) = "eth"
  <2>1. Bypass \in Deciding(Upstream) /\ Leads(Bypass.table) = "eth"
    BY <1>1, <1>2 DEF Deciding, Selects, Bypass, Rule, Leads
  <2>2. \A o \in Deciding(Upstream) : /\ Bypass.pref <= o.pref
                                      /\ o.pref = Bypass.pref => o.table = Bypass.table
    <3>1. \A o \in Deciding(Upstream) :
             \/ o \in {CatchAll, Bypass, Rule(BypassPref + 1, "own", "main"), Neighbours}
             \/ o.pref >= 10000
      BY KnownRules DEF Deciding
    <3>2. \A o \in Deciding(Upstream) : o.pref \in Nat
      BY DEF Deciding, Layer3, TypeOK, Rules
    <3>. QED
      BY <3>1, <3>2, Priorities
  <2>. QED
    BY <2>1, <2>2, Decides
<1>3. ASSUME Bypass \notin rules, applied <= 1 PROVE OutDev(Upstream) # "tun"
  <2>1. CatchAll \notin rules
    BY <1>3 DEF RulesAre
  <2>. DEFINE Second == Rule(BypassPref + 1, "own", "main")
              Refused == Rule(32000, "all", "unreachable")
              Last == Rule(32766, "all", "main")
  <2>2. Deciding(Upstream) \subseteq {Second, Refused, Last}
    BY <1>1, <1>3, <2>1 DEF RulesAre, Deciding, Selects, Neighbours, OfNetd, Given, Rule
  <2>3. /\ Second.pref = 91 /\ Refused.pref = 32000 /\ Last.pref = 32766
        /\ \A r \in {Second, Refused, Last} : Leads(r.table) # "tun"
    BY Priorities DEF Rule, Leads
  <2>. HIDE DEF Second, Refused, Last
  <2>4. CASE Second \in Deciding(Upstream)
    BY <2>2, <2>3, <2>4, Decides
  <2>5. CASE Second \notin Deciding(Upstream) /\ Refused \in Deciding(Upstream)
    BY <2>2, <2>3, <2>5, Decides
  <2>6. CASE Deciding(Upstream) = {Last}
    BY <2>3, <2>6, Decides
  <2>7. CASE Deciding(Upstream) = {}
    BY <2>7 DEF OutDev
  <2>. QED
    BY <2>2, <2>4, <2>5, <2>6, <2>7
<1>. QED
  BY <1>2, <1>3

(* Nothing but the denial stands before ADB's entry.                        *)
LEMMA AdbPasses ==
    ASSUME Layer3, Ordered, NEW p \in AdbReplies, OutDev(p) = "eth"
    PROVE  Passes(p)
<1>1. /\ p.owner = "adbd" /\ Len(chain) \in Nat
      /\ \A i \in 1 .. Len(chain) : i <= 3 => chain[i] = ACL[i]
  BY DEF AdbReplies, Layer3, TypeOK, Ordered
<1>2. ~Matches("lo", p) /\ ~Matches("tun", p) /\ Matches("adb", p)
  BY <1>1 DEF Matches
<1>3. CASE Len(chain) < 3
  BY <1>1, <1>2, <1>3, ACLFacts DEF ChainPasses, Passes
<1>4. CASE Len(chain) >= 3
  <2>1. /\ 3 \in 1 .. Len(chain) /\ chain[3] = "adb"
        /\ \A k \in 1 .. 3 - 1 : ~Matches(chain[k], p)
    BY <1>1, <1>2, <1>4, ACLFacts
  <2>. QED
    BY <1>2, <2>1 DEF ChainPasses, Passes
<1>. QED
  BY <1>1, <1>3, <1>4

(* What the gateway sends meets its own two entries before the denial.      *)
LEMMA OwnPasses ==
    ASSUME Layer3, Ordered, pc = "pinned", OutDev(Upstream) = "eth",
           kernel.resolved \/ \E i \in DOMAIN chain : chain[i] = "mark"
    PROVE  Passes(Upstream)
<1>1. /\ chain \in Seq(Entries) /\ Len(chain) \in Nat /\ DOMAIN chain = 1 .. Len(chain)
      /\ \A i \in 1 .. Len(chain) : chain[i] \in Entries
  BY DEF Layer3, TypeOK
<1>2. /\ Matches("endpoint", Upstream) /\ Matches("mark", Upstream)
      /\ \A e \in {"lo", "tun", "adb", "established", "control"} : ~Matches(e, Upstream)
  BY DEF Matches, Upstream, Mark
<1>3. PICK i \in 1 .. Len(chain) :
          /\ chain[i] \in {"endpoint", "mark"}
          /\ chain[i] = "mark" => ~kernel.resolved
  BY <1>1 DEF Ordered
<1>4. ASSUME NEW k \in 1 .. i - 1 PROVE ~Matches(chain[k], Upstream)
  <2>1. k \in 1 .. Len(chain) /\ Rank(chain[k]) < Rank(chain[i])
    BY <1>1, <1>4 DEF Ordered
  <2>2. chain[k] = "endpoint" => kernel.resolved
    BY <2>1 DEF Layer3, ChainOK
  <2>3. chain[k] \notin {"mark", "endpoint", "deny"}
    BY <1>1, <1>3, <2>1, <2>2 DEF Rank
  <2>. QED
    BY <1>1, <1>2, <2>1, <2>3 DEF Entries, Accepting
<1>. QED
  BY <1>2, <1>3, <1>4 DEF ChainPasses, Passes

(* The gateway reaches its proxy and the device answers ADB after every     *)
(* single command of every run, also of one that ends halfway or follows    *)
(* another, on any kernel (egressPolicy.ts:184, :196, :239).                *)
THEOREM ReachableHolds == Spec => []Reachable
<1>1. Init => Ordered
  BY ACLFacts DEF Init, Ordered
<1>2. Layer3 /\ RulesOK /\ Ordered => Reachable
  <2> SUFFICES ASSUME Layer3, RulesOK, Ordered PROVE UpstreamReaches /\ AdbAnswers
    BY DEF Reachable
  <2>1. AdbAnswers
    BY AdbRoute, AdbPasses DEF AdbAnswers, RulesOK, LeavesBy
  <2>2. ASSUME pc = "pinned", reconf = 0,
               kernel.resolved \/ \E i \in DOMAIN chain : chain[i] = "mark"
        PROVE  LeavesBy(Upstream) = "eth"
    <3>1. OutDev(Upstream) = "eth"
      BY <2>2, OwnRoute DEF RulesOK, RulesAre, Routed
    <3>. QED
      BY <2>2, <3>1, OwnPasses DEF LeavesBy
  <2>3. applied <= 1 /\ reconf = 0 => OutDev(Upstream) # "tun"
    BY OwnRoute DEF RulesOK
  <2>. QED
    BY <2>1, <2>2, <2>3 DEF UpstreamReaches
<1>. QED
  BY Layer3Init, Layer3Step, RulesInit, RulesStep, OrderedStep, <1>1, <1>2, PTL DEF Spec

(* Until somebody else touches the rules, the catch-all at priority 100     *)
(* decides for every packet of an app that goes outside: Android's own      *)
(* rules and marks never get their turn (egressPolicy.ts:216-228).          *)
THEOREM RoutedInsideHolds == Spec => []RoutedInside
<1>1. Layer3 /\ RulesOK => RoutedInside
  <2> SUFFICES ASSUME Layer3, RulesAre, pc = "pinned",
                      NEW p \in AppPackets, p.dst # "peer"
               PROVE  OutDev(p) = "tun"
    BY DEF RoutedInside, RulesOK
  <2>1. Mark(p) # "own" /\ Mark(p) # "peer"
    BY DEF AppPackets, Packets, Mark
  <2>2. CatchAll \in Deciding(p) /\ Leads(CatchAll.table) = "tun"
    BY DEF RulesAre, Routed, Deciding, Selects, CatchAll, Rule, Leads
  <2>3. /\ Bypass \notin Deciding(p) /\ Neighbours \notin Deciding(p)
        /\ Rule(BypassPref + 1, "own", "main") \notin Deciding(p)
    BY <2>1 DEF Deciding, Selects, Bypass, Neighbours, Rule
  <2>4. \A o \in Deciding(p) : /\ CatchAll.pref <= o.pref
                               /\ o.pref = CatchAll.pref => o.table = CatchAll.table
    <3>1. \A o \in Deciding(p) : o = CatchAll \/ o.pref >= 10000
      BY <2>3, KnownRules DEF Deciding
    <3>2. \A o \in Deciding(p) : o.pref \in Nat
      BY DEF Deciding, Layer3, TypeOK, Rules
    <3>. QED
      BY <3>1, <3>2, Priorities
  <2>. QED
    BY <2>2, <2>4, Decides
<1>. QED
  BY Layer3Init, Layer3Step, RulesInit, RulesStep, <1>1, PTL DEF Spec
=============================================================================
