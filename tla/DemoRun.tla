------------------------------- MODULE DemoRun -------------------------------
(***************************************************************************)
(* The demo's controller: demo.sh, with and without DEMO_REAL_PROVIDER=1,  *)
(* and record-take.sh (cut provision), run again and again by one operator *)
(* on an environment that up.sh stands up, and may stand up again with an  *)
(* edited topology.                                                        *)
(*                                                                         *)
(* A step is one command of the script with an effect.  set -euo pipefail: *)
(* a command that fails ends the run where it stands; so does the operator *)
(* or a lost connection, at any step.  What happens inside a node while a  *)
(* playbook runs is ProvisionNode's subject; here a playbook is one step.  *)
(***************************************************************************)
EXTENDS Inventory

CONSTANTS
  Topologies,   \* the node sets topology.yaml is edited to
  MaxRuns       \* bound: script runs on one environment

ASSUME DemoRunAssumption ==
  /\ \A t \in Topologies : t \subseteq Node /\ t # {}
  /\ MaxRuns \in Nat

VARIABLES
  hosts,       \* the nodes of the last up.sh: .generated, hosts.csv
  containers,  \* node containers, those of earlier topologies included
  node,        \* what the playbooks left on each node
  module,      \* the controller's files/oqsprovider.so
  profile,     \* /etc/profile.d/pqcota-approval.sh: the key approvals verify with
  plan,        \* plan.json (and plan-l3.json) and plan-real.json
  book,        \* the provision-real playbooks
  run,         \* "off", "running", "aborted", "failed" or "done"
  script, at,  \* the running script and its next step
  sh,          \* its shell variables
  runs,        \* runs started
  residue      \* history: nodes a run broke off on, or a take did not roll back by
               \* playbooks of one node, and none has since

inventoryVars == <<results, snapshots>>
envVars == <<hosts, containers>>
ctlVars == <<module, profile, plan, book>>
runVars == <<run, script, at, sh, runs, residue>>
vars == <<results, snapshots, hosts, containers, node, module, profile, plan,
          book, run, script, at, sh, runs, residue>>

-------------------------------------------------------------------------------
(* The scripts. *)

Demo ==
  <<"discover", "ingest", "ingestAgain", "readPre", "ingestScoped", "readPost",
    "pickNode", "pickFinding", "keygen", "plan", "stub",
    "l2", "l2Undo", "l3", "l3Undo">>

Real ==
  Demo \o
  <<"pickBand", "build", "planReal", "approveReal",
    "genL2", "applyL2", "genL3", "applyL3", "measure",
    "rediscover", "reingest", "compare",
    "genL3Undo", "applyL3Undo", "genL2Undo", "applyL2Undo">>

Take ==
  <<"guard", "genL2", "applyL2", "applyL3", "measure", "applyL3Undo", "applyL2Undo">>

Steps == [demo |-> Demo, real |-> Real, take |-> Take]
Scripts == DOMAIN Steps
Last == Len(Steps[script])
At(step) == run = "running" /\ Steps[script][at] = step

NoPlan == [node |-> NoNode, finding |-> NoFinding, snap |-> 0, key |-> 0]

(* A playbook is bound to its plan's target; a generation that was refused *)
(* or broke off leaves an empty file, since the shell has opened it. *)
NoBook == [there |-> FALSE, target |-> NoNode]
EmptyBook == [there |-> TRUE, target |-> NoNode]
Bound(n) == [there |-> TRUE, target |-> n]
Playbooks == {"L2", "L3", "L3Undo", "L2Undo"}
Clean == [mod |-> "none", conf |-> "absent", active |-> FALSE]

(* The shell's variables; 0, NoNode and NoFinding are the empty string. *)
EmptyShell ==
  [pre |-> 0, post |-> 0, node |-> NoNode, finding |-> NoFinding, snap |-> 0,
   key |-> 0, looksAt |-> NoNode, capable |-> FALSE]

(* ML-KEM is there once the module is staged, referenced and active. *)
Capable(n) == node[n] = [mod |-> "real", conf |-> "module", active |-> TRUE]

(* The values of the variables. *)
DemoTypeOK ==
  /\ InventoryTypeOK
  /\ hosts \in Topologies \cup {{}}
  /\ hosts \subseteq containers /\ containers \subseteq Node
  /\ node \in [Node -> [mod : {"none", "empty", "real"},
                        conf : {"absent", "groups", "module"}, active : BOOLEAN]]
  /\ module \in {"none", "empty", "real"}
  /\ profile \in 0 .. MaxRuns
  /\ \A p \in {"demo", "real"} :
       /\ plan[p].node \in Node \cup {NoNode}
       /\ plan[p].finding \in Finding \cup {NoFinding}
       /\ plan[p].snap \in SnapshotIds \cup {0}
       /\ plan[p].key \in 0 .. profile
  /\ book \in [Playbooks -> {NoBook, EmptyBook} \cup {Bound(n) : n \in Node}]
  /\ run \in {"off", "running", "aborted", "failed", "done"}
  /\ script \in Scripts
  /\ at \in DOMAIN Steps[script]
  /\ runs \in 0 .. MaxRuns
  /\ residue \subseteq Node

CtlIsNew ==
  /\ results' = << >>
  /\ module' = "none"
  /\ profile' = 0
  /\ plan' = [p \in {"demo", "real"} |-> NoPlan]
  /\ book' = [b \in Playbooks |-> NoBook]
  /\ run' = "off" /\ script' = "demo" /\ at' = 1 /\ sh' = EmptyShell

DemoInit ==
  /\ InventoryInit
  /\ hosts = {} /\ containers = {}
  /\ node = [n \in Node |-> Clean]
  /\ module = "none" /\ profile = 0
  /\ plan = [p \in {"demo", "real"} |-> NoPlan]
  /\ book = [b \in Playbooks |-> NoBook]
  /\ run = "off" /\ script = "demo" /\ at = 1 /\ sh = EmptyShell
  /\ runs = 0 /\ residue = {}

-------------------------------------------------------------------------------
(* How a step goes on. *)

(* The nodes the run's playbooks are for. *)
Targets ==
  Node \cap IF script = "take" THEN {book[b].target : b \in Playbooks} ELSE {sh.node}

(* Of the playbooks a take applies, three are there already, and may be for *)
(* another node than the one it generates.                                  *)
OneTarget == script = "take" => \A b \in Playbooks : book[b].target = book["L2"].target

Goto(step) ==
  /\ UNCHANGED <<script, runs>>
  /\ IF step <= Last
       THEN at' = step /\ UNCHANGED <<run, residue>>
       ELSE /\ at' = 1 /\ run' = "done"
            /\ residue' = IF OneTarget THEN residue \ Targets ELSE residue \cup Targets

Continue == Goto(at + 1)

Break(how) ==
  /\ run' = how
  /\ at' = 1 /\ sh' = EmptyShell
  /\ residue' = residue \cup Targets
  /\ UNCHANGED <<script, runs>>

Set(fields) == sh' = [x \in DOMAIN sh |-> IF x \in DOMAIN fields THEN fields[x] ELSE sh[x]]

-------------------------------------------------------------------------------
(* Discovery and inventory: stages 2/6 and 5/6. *)

DoDiscover ==
  /\ At("discover") \/ At("rediscover")
  /\ Discover(hosts)
  /\ Continue
  /\ UNCHANGED <<snapshots, envVars, node, ctlVars, sh>>

(* The second ingest of the same results, and the one after re-observing, *)
(* are the first one's command again. *)
DoIngest ==
  /\ At("ingest") \/ At("ingestAgain")
  /\ Ingest(results)
  /\ Continue
  /\ UNCHANGED <<results, envVars, node, ctlVars, sh>>

(* HNODE is a node with the most edges in any snapshot: any node, here. *)
DoReadPre ==
  /\ At("readPre")
  /\ \E n \in {snapshots[i].node : i \in SnapshotIds} : Set([pre |-> Newest(n)])
  /\ Continue
  /\ UNCHANGED <<inventoryVars, envVars, node, ctlVars>>

DoIngestScoped ==
  /\ At("ingestScoped")
  /\ Ingest(ScopedResults)
  /\ Continue
  /\ UNCHANGED <<results, envVars, node, ctlVars, sh>>

(* Variant: the newest snapshot of any node. *)
ReadPostOfAny ==
  /\ At("readPost")
  /\ Set([post |-> Len(snapshots)])
  /\ Continue
  /\ UNCHANGED <<inventoryVars, envVars, node, ctlVars>>

DoReadPost ==
  /\ At("readPost")
  /\ Set([post |-> Newest(snapshots[sh.pre].node)])
  /\ Continue
  /\ UNCHANGED <<inventoryVars, envVars, node, ctlVars>>

-------------------------------------------------------------------------------
(* Provisioning: stage 6/6. *)

StageSixEnd == Len(Demo) + 1

DoPickNode ==
  /\ At("pickNode")
  /\ Set([node |-> ServiceNode])
  /\ IF ServiceNode = NoNode THEN Goto(StageSixEnd) ELSE Continue
  /\ UNCHANGED <<inventoryVars, envVars, node, ctlVars>>

DoPickFinding ==
  /\ At("pickFinding")
  /\ Set([finding |-> ServiceFinding(sh.node), snap |-> Newest(sh.node)])
  /\ Continue
  /\ UNCHANGED <<inventoryVars, envVars, node, ctlVars>>

(* Variant: the profile is written only when it is not there yet. *)
KeygenOnce ==
  /\ At("keygen")
  /\ Set([key |-> runs])
  /\ profile' = IF profile = 0 THEN runs ELSE profile
  /\ Continue
  /\ UNCHANGED <<inventoryVars, envVars, node, module, plan, book>>

(* pqcota-keygen makes a new pair; the profile gets the public key. *)
DoKeygen ==
  /\ At("keygen")
  /\ Set([key |-> profile + 1])
  /\ profile' = profile + 1
  /\ Continue
  /\ UNCHANGED <<inventoryVars, envVars, node, module, plan, book>>

ShellPlan == [node |-> sh.node, finding |-> sh.finding, snap |-> sh.snap, key |-> sh.key]

(* The generator stops on an approval it cannot verify.  Of evidence that *)
(* names no finding it only warns. *)
Verified(p) == p.key # 0 /\ p.key = profile

(* plan.json is written, approved and turned into the L2 playbooks. *)
DoPlan ==
  /\ At("plan")
  /\ plan' = [plan EXCEPT !.demo = ShellPlan]
  /\ IF Verified(ShellPlan)
       THEN Continue /\ UNCHANGED sh
       ELSE Break("failed")
  /\ UNCHANGED <<inventoryVars, envVars, node, module, profile, book>>

(* : > /work/ansible/files/oqsprovider.so *)
DoStub ==
  /\ At("stub")
  /\ module' = "empty"
  /\ Continue
  /\ UNCHANGED <<inventoryVars, envVars, node, profile, plan, book, sh>>

(* The playbook runs on a host of targets.ini; with none, the output has *)
(* nothing for the grep it goes through, which fails.  Of a take's four *)
(* only the first goes through one; the others are shown as they are. *)
Grepped == script = "take" => At("applyL2")

Applied(target, left) ==
  IF target \in hosts
    THEN node' = [node EXCEPT ![target] = left] /\ Continue /\ UNCHANGED sh
    ELSE /\ UNCHANGED node
         /\ IF Grepped THEN Break("failed") ELSE Continue /\ UNCHANGED sh

StagedL2(n) == [node[n] EXCEPT !.mod = module, !.conf = "module"]
UndoneL2(n) == [node[n] EXCEPT !.mod = "none", !.conf = "absent"]
StagedL3(n) == [node[n] EXCEPT !.conf = "groups", !.active = TRUE]
(* Variant: the rollback leaves the activation point. *)
UndoneFiles(n) == [node[n] EXCEPT !.conf = "absent"]

UndoneL3(n) == [node[n] EXCEPT !.conf = "absent", !.active = FALSE]

(* plan.json stages the provider, plan-l3.json configures and activates. *)
DoStageSix ==
  /\ \/ At("l2") /\ Applied(sh.node, StagedL2(sh.node))
     \/ At("l2Undo") /\ Applied(sh.node, UndoneL2(sh.node))
     \/ At("l3") /\ Applied(sh.node, StagedL3(sh.node))
     \/ At("l3Undo") /\ Applied(sh.node, UndoneL3(sh.node))
  /\ UNCHANGED <<inventoryVars, envVars, ctlVars>>

-------------------------------------------------------------------------------
(* The real provider, by demo.sh and by record-take.sh. *)

DoPickBand ==
  /\ At("pickBand")
  /\ IF BandNode = NoNode
       THEN Goto(Last + 1) /\ UNCHANGED sh
       ELSE /\ Set([node |-> BandNode, finding |-> BandFinding(BandNode),
                    snap |-> Newest(BandNode)])
            /\ Goto(at + 1)
  /\ UNCHANGED <<inventoryVars, envVars, node, ctlVars>>

(* Variant: a module that is there already is not copied again. *)
BuildIfMissing ==
  /\ At("build")
  /\ module' = IF module = "none" THEN "real" ELSE module
  /\ Continue
  /\ UNCHANGED <<inventoryVars, envVars, node, profile, plan, book, sh>>

DoBuild ==
  /\ At("build")
  /\ module' = "real"
  /\ Continue
  /\ UNCHANGED <<inventoryVars, envVars, node, profile, plan, book, sh>>

(* plan-real.json starts without an approval. *)
DoPlanReal ==
  /\ At("planReal")
  /\ plan' = [plan EXCEPT !.real = [ShellPlan EXCEPT !.key = 0]]
  /\ Continue
  /\ UNCHANGED <<inventoryVars, envVars, node, module, profile, book, sh>>

(* approve is a function that stage 6/6 defines, with its key. *)
DoApproveReal ==
  /\ At("approveReal")
  /\ plan' = [plan EXCEPT !.real.key = sh.key]
  /\ IF sh.key # 0 THEN Continue /\ UNCHANGED sh ELSE Break("failed")
  /\ UNCHANGED <<inventoryVars, envVars, node, module, profile, book>>

Generates == [genL2 |-> "L2", genL3 |-> "L3", genL3Undo |-> "L3Undo", genL2Undo |-> "L2Undo"]

(* plan-real.json's finding is in some snapshot, not always the one it names. *)
DoGenerate ==
  /\ \E step \in DOMAIN Generates :
       /\ At(step)
       /\ IF Verified(plan.real)
            THEN /\ book' = [book EXCEPT ![Generates[step]] = Bound(plan.real.node)]
                 /\ Continue /\ UNCHANGED sh
            ELSE /\ book' = [book EXCEPT ![Generates[step]] = EmptyBook]
                 /\ Break("failed")
  /\ UNCHANGED <<inventoryVars, envVars, node, module, profile, plan>>

(* ansible-playbook fails on a playbook that is not there or is empty. *)
Target(b) == book[b].target

Apply(b, left) ==
  /\ IF Target(b) = NoNode
       THEN Break("failed") /\ UNCHANGED node
       ELSE Applied(Target(b), left)
  /\ UNCHANGED <<inventoryVars, envVars, ctlVars>>

Activated == [mod |-> module, conf |-> "module", active |-> TRUE]

DoApply ==
  \/ At("applyL2") /\ Apply("L2", StagedL2(Target("L2")))
  \/ At("applyL3") /\ Apply("L3", Activated)
  \/ At("applyL3Undo") /\ Apply("L3Undo", Clean)
  \/ At("applyL2Undo") /\ Apply("L2Undo", UndoneL2(Target("L2Undo")))

(* Both scripts ask the node for its ML-KEM algorithms once L3 is applied. *)
DoMeasure ==
  /\ At("measure")
  /\ Set([capable |-> Capable(IF script = "take" THEN sh.looksAt ELSE sh.node)])
  /\ Continue
  /\ UNCHANGED <<inventoryVars, envVars, node, ctlVars>>

(* RPRE is read, discovery has run again; RPOST is read after the ingest. *)
DoReingest ==
  /\ At("reingest")
  /\ Set([pre |-> Newest(sh.node)])
  /\ Ingest(results)
  /\ Continue
  /\ UNCHANGED <<results, envVars, node, ctlVars>>

DoCompare ==
  /\ At("compare")
  /\ Set([post |-> Newest(sh.node)])
  /\ Continue
  /\ UNCHANGED <<inventoryVars, envVars, node, ctlVars>>

(* The cut looks at the node of its argument, by default at one from the *)
(* inventory; what it applies is bound to the plan's node.  Of what it is *)
(* going to run it tests one file for being there. *)
DoGuard ==
  /\ At("guard")
  /\ \E arg \in containers \cup {NoNode} :
       LET n == IF arg = NoNode THEN BandNode ELSE arg
       IN  IF book["L2"].there /\ n \in containers
             THEN Set([looksAt |-> n, node |-> plan.real.node]) /\ Continue
             ELSE Break("failed")
  /\ UNCHANGED <<inventoryVars, envVars, node, ctlVars>>

-------------------------------------------------------------------------------
(* The operator. *)

Start(s) ==
  /\ hosts # {} /\ run # "running" /\ runs < MaxRuns
  /\ run' = "running" /\ script' = s /\ at' = 1 /\ sh' = EmptyShell
  /\ runs' = runs + 1
  /\ UNCHANGED <<inventoryVars, envVars, node, ctlVars, residue>>

(* A run breaks off at any command, also while one writes a playbook; this *)
(* stands too for what a script only shows and a node may not have. *)
Abort ==
  /\ run = "running"
  /\ Break("aborted")
  /\ \/ UNCHANGED book
     \/ \E step \in DOMAIN Generates :
          At(step) /\ book' = [book EXCEPT ![Generates[step]] = EmptyBook]
  /\ UNCHANGED <<inventoryVars, envVars, node, module, profile, plan>>

(***************************************************************************)
(* up.sh after an edit: the controller's image holds the checkout,         *)
(* topology.yaml included, so the container is replaced and its files go.  *)
(* A node is replaced if its own entry changed; the containers of nodes no *)
(* longer listed stay (no --remove-orphans).  The database stays, unless   *)
(* the networks changed.                                                   *)
(***************************************************************************)
Up(t) ==
  /\ run # "running"
  /\ hosts' = t
  /\ containers' = containers \cup t
  /\ CtlIsNew
  /\ \E replaced \in SUBSET t :
       /\ node' = [n \in Node |-> IF n \in replaced THEN Clean ELSE node[n]]
       /\ residue' = residue \ replaced
  /\ UNCHANGED snapshots \/ snapshots' = << >>
  /\ UNCHANGED runs

(* down.sh removes every container of the project and their volumes. *)
Down ==
  /\ run # "running" /\ hosts # {}
  /\ hosts' = {} /\ containers' = {}
  /\ node' = [n \in Node |-> Clean]
  /\ snapshots' = << >>
  /\ CtlIsNew
  /\ runs' = 0 /\ residue' = {}

Step ==
  \/ DoDiscover \/ DoIngest \/ DoReadPre \/ DoIngestScoped \/ DoReadPost
  \/ DoPickNode \/ DoPickFinding \/ DoKeygen \/ DoPlan \/ DoStub \/ DoStageSix
  \/ DoPickBand \/ DoBuild \/ DoPlanReal \/ DoApproveReal \/ DoGenerate \/ DoApply
  \/ DoMeasure \/ DoReingest \/ DoCompare \/ DoGuard

DemoNext ==
  \/ Step
  \/ Abort
  \/ \E s \in Scripts : Start(s)
  \/ \E t \in Topologies : Up(t)
  \/ Down

DemoSpec == DemoInit /\ [][DemoNext]_vars

-------------------------------------------------------------------------------
(* Properties. *)

(***************************************************************************)
(* approve and its key are defined in the branch of stage 6/6 that is      *)
(* skipped when no node qualifies; the real stage, outside that branch,    *)
(* uses them.  It gets that far only if the branch was taken.              *)
(***************************************************************************)
RealStageHasApprover == At("approveReal") => sh.key # 0

(***************************************************************************)
(* Stage 6/6 is never refused its playbook, whatever plans, approvals and  *)
(* keys earlier runs left on the controller.  The finding its plan names   *)
(* is in the snapshot it names; and it names none, the node being chosen   *)
(* from the whole history and the finding from the newest snapshot, only   *)
(* where the asset scope drops every OpenSSL finding of the node, never    *)
(* for a finding that is to be managed.                                    *)
(***************************************************************************)
PlanLosesOnlyNoise ==
  [][DoPlan =>
       /\ run' = "running"
       /\ IF sh.finding = NoFinding
            THEN \A f \in FindingsOf(sh.node) : Openssl(f) => f.noise
            ELSE sh.finding \in snapshots[sh.snap].content]_vars

(***************************************************************************)
(* What stage 5/6 shows as "removed" by the asset scope is exactly the     *)
(* noise (demo.sh: 'removed' means dropped from management, not gone).     *)
(***************************************************************************)
DiffShowsTheScope ==
  At("pickNode") /\ sh.pre # sh.post =>
    /\ snapshots[sh.post].node = snapshots[sh.pre].node
    /\ snapshots[sh.post].content = Scoped(snapshots[sh.pre].content)

(***************************************************************************)
(* The real stage measures the algorithms of the real module, although     *)
(* stage 6/6 of the same run put an empty file in its place.               *)
(***************************************************************************)
RealProviderLands == script = "real" /\ At("rediscover") => sh.capable

(***************************************************************************)
(* Whatever a playbook left on a node was left by a run that broke off, or *)
(* by a take whose playbooks were not all for one node, and no run has     *)
(* rolled it back since: what the scripts do to the nodes they undo, with  *)
(* any order of runs, topologies and broken-off runs.                      *)
(***************************************************************************)
LeftoversAreAccountedFor ==
  run # "running" => \A n \in Node : node[n] # Clean => n \in residue

(***************************************************************************)
(* The next one does not hold: it states what a comment says.              *)
(***************************************************************************)

(* A take rolls back at its end and leaves the node as it was. *)
TakeRollsBack ==
  script = "take" /\ run = "done" => node[sh.node] = Clean
===============================================================================
