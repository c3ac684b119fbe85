# Verification of the pqcota integration repository

This directory holds TLA+ models of the code in this repository, the TLC
configurations that check them on small instances, and TLAPS proofs of what
matters most. The repository is the *integration* repository of five: it has
the demo (scripts that stand up a legacy environment, observe it, keep an
inventory and provision it), the gates that look across all five repositories,
and the tools for the documents. The products themselves (`pqcota-ingest`,
`pqcota-inventory`, `pqcota-provision`, `pqcota-approve`, `pqcota-netcap`,
`discover.yml`) live in the sibling repositories; where the code here calls
them they are modelled from that use and marked external in `PROJECT.json`.

`PROJECT.json` maps every definition to the lines it models and lists the
components, runs, mutants, hazards, findings and theorems. This file is the
guide: what the parts are, what is modelled how, what the runs and proofs show,
and what is left.

## 1. The system and its parts

| Part | Code | State it keeps | Operations | Modules |
|---|---|---|---|---|
| Services of a demo node | `demo/scripts/internal/ssl-apps.sh`, `node-entrypoint.sh` | process table, ports, `/etc/pqcota/service.env`, the map file | start, stop, restart, container boot | `NodeService`, `SslApps` |
| Playbooks on a node | `demo/scripts/demo.sh` stage 6/6 and real stage, `record-take.sh` | staged files, activation point, services | stage, activate, restart, roll back, break off | `ProvisionNode` |
| Controller and inventory | `demo.sh` stages 2 to 6, `record-take.sh` | `/work` (results, plans, playbooks, module file, approval key), Postgres snapshots | discover, ingest, queries, plan, approve, generate, apply | `Inventory`, `DemoRun` |
| Environment | `up.sh`, `down.sh` | `topology.yaml`, `.generated`, image, containers with address and key, volumes, the controller's key and `hosts.csv` | generate, write, build, start, compile, wait for sshd, distribute keys, write hosts.csv; down by compose file or by label | `DemoLifecycle`, `Environment`; as one step in `DemoRun` |
| Topology generator | `demo/topology/topogen/main.go` | none; four files out of one | validate, generate | `Topology` |
| Observation of a node | `pqcota-observe.sh`, `pqcota-gen-traffic.sh`, `workloads/pqc-echo` | a capture and a traffic loop side by side | bind, try a target, end a round, hand over | `Discovery` |
| Collection loop | `demo.sh` stage 2/6 | attempt, result files | collect, count, collect again, go on | `Discovery` |
| Import gate | `tools/checkdeps` | none; a run over five roots | classify, judge imports | `GoFiles`, `ImportRules`, `ImportWalk` |
| Wiring gate | `tools/checkgates` | none | find marked functions, find calls, find literals of the ruleset's family | `GoFiles`, `GateWiring` |
| Collector list gate | `tools/checkcollectors` | none | find builds and copied items, compare per system | `CollectorLists` |
| Integration workflow | `.github/workflows/ci.yml`, `Makefile` | runs, concurrency groups, five checkouts | push, dispatch, check out, judge, cancel | `CrossStage` |
| Prose gate | `tools/checkprose` | `rules.tsv`, `baseline.tsv` | mask (markdown, shell, html, Go), match, tally, compare, rewrite | `Prose` |
| Document gate | `tools/checkdocs` | none; a run over the documents, go.mod, the linked modules and git's list | links and anchors, wording, empty sections, tildes, section references, licences, language pairs, Go versions | `DocText`, `DocGate` |
| Site | `tools/site`, `site.yml` | the assembled tree | assemble, rewrite links, check | not modelled |
| Release | `release.yml` | the bundle | build one tag of five repositories | not modelled (its text is read by `CollectorLists`) |
| Recording, Java workload, images | `demo/recording`, `workloads/CryptoApp.java`, `Dockerfile` | - | - | not modelled |

How they interact: `up.sh` runs topogen on `topology.yaml`, gives the compose
file to docker and writes `hosts.csv`; each node's entrypoint reads the
environment topogen derived and starts the servers. `demo.sh`, on the host,
drives the controller container: discovery makes every node observe its own
traffic, results are ingested into Postgres, SQL over the inventory picks a node
and a finding, a plan is written, approved with a fresh key and turned into
playbooks, and these run on the node, whose hooks call `ssl-apps.sh`.
`record-take.sh` repeats the last part from the files `demo.sh` left on the
controller. `ci.yml` is called by the sibling repositories and checks out the
caller's commit beside the mains of the other four; the gates then judge that
combination.

### What is hard here, and what correctness means

- *Services.* `stop` matches command lines with `pgrep`, gives up after ten
  looks and returns 0 anyway; `start` launches in the background and throws the
  output away. A process that lost its port dies unheard, one that has not
  exec'd yet is invisible to `stop`. Correct: a start after a stop that saw
  nothing takes effect; `stop` always returns; an endpoint never changes
  configuration in place.
- *Provisioning.* `set -e` ends a run anywhere, inside a playbook too; the next
  run starts from the first playbook on whatever is there. Correct: a completed
  run restores the node; no service starts on a file that is not there.
- *Controller.* Variables set in one branch are used in another; queries read
  the newest snapshot here and the whole history there; files of an earlier run
  are picked up by a later script. Correct: a plan is only refused for lack of a
  finding that matters, the scope explains every difference, whatever stays on a
  node was left by a run that broke off or a take for several nodes.
- *Environment.* `up.sh` is a sequence of some twenty commands on files,
  containers and the controller, each of which may fail; the next `up.sh`, `demo.sh`
  or `down.sh` meets what is there: new files beside old containers, a new key
  beside an old `hosts.csv`, addresses given anew. Correct: an `up.sh` that ends
  well repairs whatever was there, `down.sh` finds what it has to remove, the data
  too, and what can go wrong in between goes wrong only where `up.sh` was broken off.
- *Observation.* Capture and traffic start independently; dead targets hold the
  loop up; the collection loop compares counts. Correct: what can be heard is
  heard despite a late capture, "enough" means every declared edge, and the loop
  ends.
- *Gates.* Five repositories are measured one after the other, while others
  push. Correct: binaries from passing workspaces link only what the rules
  allow; a verdict that no push overtook is about the mains as they stand; a
  pause in the pushes brings one; what is green is wired, has one ruleset version
  and a bundle with all that the playbook deploys.
- *Documents.* Several checks turn code on and off at fences, each in its own
  way, and a page, a translation, a dependency or git's list changes under the
  others. Correct: what passes is right for a reader who sees the page rendered,
  and fails elsewhere only for what the disk has and git does not.
- *Prose.* Texts are covered, measured by byte offsets, and the offsets then used
  on the text before. Correct: the run gets to its counts, the hits are those on
  the lines as written, and a passing gate means the baseline.

## 2. Modules

### Node services: `NodeService`, `SslApps`, `MCSslApps`

`SslApps` has a process table (`proc`, `termed`, `nextPid`), the activation
point (`env`), the script's position (`pc`, `polls`, `line`, `loaded`), and two
history variables (`first`, `since`) that remember whether the last stop found
the table empty. One action per command: `CallStop`, `CallStart`, `Pgrep`,
`Pkill`, `Poll`, `SourceEnv`, `Spawn`; the kernel is `Exec`, `Bind`, `Exit`;
`ContainerStops` and `Entrypoint` are a container restart. `NodeService` is the
abstract specification: endpoints that are down or served with one
configuration, never changed in place. `ImplementsService` is the refinement
(`INSTANCE NodeService WITH`): an endpoint is served by whoever holds its port.

### Playbooks on a node: `ProvisionNode`, `MCProvisionNode`, `ProvisionNodeProofs`

Extends `SslApps` by the staged files (`cnf`, `mod`), the run of a script
(`walk`, `at`) and demo.sh's pid check. A walk is the sequence of playbook steps
of `demo.sh` (`PlanWalk`) or of the real stage and the take (`RealWalk`); every
hook is the call of `ssl-apps.sh` it makes, so the services interleave with it.
`Abort` and `NodeStops` break a run off anywhere.

### Controller: `Inventory`, `DemoRun`, `MCDemoRun`, `DemoRunProofs`

`Inventory` has the result files and the snapshots with the queries of `demo.sh`
as operators. `DemoRun` adds the controller's files (`plan`, `book`, `module`,
`profile`), the shell variables of a run (`sh`), and `hosts`, `containers` and
`node`. A script is a sequence of step names, one action per step; `Start`,
`Abort`, `Up` and `Down` are the operator's. A playbook is one step here; what
happens inside one is `ProvisionNode`'s subject. A playbook for a node that is no
longer listed does nothing and succeeds; the take, which looks for a task in the
output of its first one, breaks off there (`Grepped`). A plan without evidence is
made with a warning (demo.sh:204-206): what stops it is an approval that does not verify
or a finding that is not there.

### Topology and observation: `Topology`, `Discovery`, `MCDiscovery`, `DiscoveryProofs`

`Topology` is topogen as operators: `Accepted` (Validate), `Compose`,
`TrafficOf` (groups.ini), `EdgeCount` (manifest.env), and what the containers make of it (`Startable`, `Listening`,
`HasClient`). `Discovery` runs one topology through `Generate`, `Up`, and, for
every node at once, `Begin`, `Try`, `EndRound`, `Finish`, with a clock in
seconds per node; `Count` is the collection loop of `demo.sh`. A node's traffic keeps
its targets under the edges' places in the topology, which is their order;
`Observations` is what the result files hold, one entry for each node and target, and
`ObservedEdges` their number.

### Environment: `Environment`, `DemoLifecycle`, `MCDemoLifecycle`, `DemoLifecycleProofs`

`up.sh` and `down.sh` step by step. `topo` is `topology.yaml`, `gen` the directory
`.generated` (the topology its files are of, and which are written), `image` the
checkout the controller's image was built from, `con` a node's container with
specification, address and the key it lets in, `ctl` the controller with the key
and `hosts.csv` it holds, `volumes` the store's. `script` and `at` are the script
that runs and its step; after a script ended, `at` says where, which is the
history the properties refer to. Steps over several nodes or files take them one
at a time, in any order (`Takes`). `Up`, `Generate`, `Write`, `Build`, `Start`,
`Compile`, `Look`, `DistributeKey`, `ControllerKey`, `WriteHosts` are `up.sh`;
`Down`, `Remove`, `DownEnds` are `down.sh`; `Fail` is `set -e` or an interrupt at
any step, and `Edit`, `Exit` (at any time), `Reboot` are the world. `PingPasses` and `Answers` are what `demo.sh`
asks before it begins.

`Environment` is what the two scripts promise, in three variables: the promise
(a topology delivered, an environment gone, or nothing), the containers and volumes
that are there, and the nodes the controller reaches as themselves. A topology is delivered
only when all of it is there with controller and store and every node of it is
reached; an environment is gone only when no container and no data is left; and what was
promised changes only after the promise was withdrawn. `DemoLifecycle` implements it
(`ImplementsEnvironment`) with `Promise` (the end `at` names, if the nodes run after
`up.sh` and no volume is left after `down.sh`), `There` (`con`, `ctl` and `volumes`) and
`Reached` (`Answers` along `hosts.csv`). Most steps of `up.sh` and `Remove` are `Proceed`
or a stutter; `WriteHosts`, its last step, is `Deliver`, or `Proceed` where a node has
ended meanwhile; `DownEnds` is `Clear`, or a stutter where it leaves a volume; `Up`,
`Down`, `Exit` and `Reboot` withdraw.

### Gates: `GoFiles`, `ImportRules`, `ImportWalk`, `GateWiring`, `CollectorLists`, `CrossStage`, and `GateProofs`, `CrossStageProofs`

`ImportRules` is the rule file and the judgement of one file, in an area of
documentation only (`Bare`) also of what it declares; `ImportWalk`
runs the gate root by root and then links commands from the workspaces that
passed. `GateWiring` is the two checks of checkgates as operators: marked
functions without a caller, and literals of the family of
`normalize.RulesetVersion` as the repositories at hand define it.
`CollectorLists` reads the lines of the release workflow and the tasks of the
playbook as checkcollectors does, and, beside it, as the shell and Ansible do.
`CrossStage` composes them: pushes to the mains, the runs of the workflow with
their concurrency groups, five checkouts one after the other, and the verdict.

### Documents: `DocText`, `DocGate`, `MCDocGate`, `DocGateProofs`

`DocText` has what checkdocs sees in the lines of one document, and beside it
the reader's view: which lines are in a block of code when Markdown is rendered
(`Rendered`). `DocGate` is the run of all checks over a repository whose files
are edited or go (`Edit`) while `go.mod`, the linked modules, `go list` and git's list
change (`MoveOn`); `Gate` is the verdict. The checks are operators of a checkout
(files and world), so that the same gate can be asked about another one: `Here` is the
disk it runs on, `Clone` what git has of it, on a machine where `go list` works. A file that
git lists and the disk no longer has is `Missing`, and the gate fails on it.

### Prose: `Prose`, `MCProse`, `GateProofs`

Texts as lines of characters with a width in bytes. `Masked` (with one masking
per kind of file), `HideOverlap`, `HitsOf` and `Excerpt` follow the code,
offsets included. Where a hit's offset is beyond its file (`Overruns`) the code cuts a
slice out of range and the run dies (`Crashes`), for a rule or for a notice, in the order
in which it reads the files; otherwise it fails, or has its counts (`Counts`). `Edit`, `EditRules`,
`Gate` and `Rewrite` are the life of the baseline, which is absent at first. `Expected` is a reference that counts
characters of the original text and knows no bytes and no filling.

What is filled stays one character as wide as before (`Blank`, `Fill`), so that a
position means the same before and after; bytes come in where the code uses them,
in offsets (`LineStart`, `UpTo`). `OverlapAssumption` is what the words of
`overlap.txt` have to be like: none has a quote or a filling character in it but a
space between others (`loadWords` trims them), and none begins where another, or
itself, still stands. The seven shipped words are so. Without it the order of the
file would decide what is covered, and a word could hide half of another.

## 3. Runs

All passing runs use finite instances whose bounds are named in the `.cfg`.

| Run | Bounds | Shows |
|---|---|---|
| `ssl_apps` | 2 apps, 2 configurations, 2 looks, 4 processes | `RestartTakesEffect`, `CallsReturn`, `ServedAgain`, and the script implements `NodeService` |
| `provision_node` | 1 app, 5 processes | `CompletedRunRestores`, `CompletedRunServesDefault`, `NoDanglingStart`, `RestartCheckIsRight`, `RunEnds` |
| `demo_run` | 4 runs, 3 nodes, 5 findings, 2 topologies | `RealStageHasApprover`, `DiffShowsTheScope`, `RealProviderLands`, `LeftoversAreAccountedFor`, `PlanLosesOnlyNoise` |
| `discovery` | 25 topologies, window 7 s, bind within 4 s, dead targets up to 2 s, 2 attempts | `CountIsHonest`, `BindDelayIsAbsorbed`, `OnlyTwoHolesFail`, `DiscoveryEnds` |
| `import_walk` | 5 packages, 3 imports, the five roots, the shipped rules' shape | `LinkedIsAllowed` |
| `cross_stage` | 4 repositories of 2 to 4 commits, 3 pushes, one pull request | `QuietMainIsJudged`, `LateVerdictIsExact`, `GreenMeansWired`, `GreenMeansOneRuleset`, `GreenMeansBundled`, `PauseBringsVerdict` |
| `lifecycle` | 2 nodes, 2 topologies and a rejected edit, 2 addresses, 2 runs of up.sh, 2 looks for sshd | `DoneMeansReachable`, `PingMisleadsOnlyAfterBrokenUp`, `OrphanedOnlyByGenerator`, `DataOutlivesOnlyByGenerator`, `UpEnds`, `ImplementsEnvironment` |
| `doc_gate` | 6 files of up to 5 lines, some 30 shapes of lines, 6 worlds, 3 changes | `NoSectionIsEmpty`, `PairsReadAlike`, `FailsElsewhereForThreeReasons` |
| `prose_gate` | 6 files of each kind with edits of up to 2 lines; read only: 10 000 documents of 4 lines, 343 html and 216 Go files of 3 | `PassMeansBaseline`, `HitsAreOnTheirLines` |

Why these bounds are enough for what they are to show:

- `ssl_apps`: two processes per port and two ports are what a race for a port
  and a partly finished start need; a third app repeats the second. What the
  bound leaves out is proved for any number (section 5).
- `provision_node`: the process bound leaves room for a restart of services
  begun before the run and the two restarts of a walk; one app suffices because
  the properties speak of each endpoint alone.
- `demo_run`: four runs give every order of a plain run, a real one and a take,
  and a broken one before them. The topology and its edit keep the kinds of node the
  queries tell apart, and the node of the real stage differs from run to run, because
  only a node with noise gets a snapshot whenever it is scoped.
- `discovery`: a window of seven seconds has up to four rounds for one live
  target and two for two; a bind after four seconds falls behind the first
  rounds. The shipped window is 16: `BindDelayIsAbsorbed` states the slack as a
  formula of the window and the longest round. For the example's four targets of
  one source it gives 16 + 1 - 2 * 5 = 7 seconds.
- `import_walk`: a transitive violation needs two imports between three areas;
  three leave room for one that is not on the path.
- `cross_stage`: one push before, one during and one after a run's checkouts are
  the three ways a push can relate to it; and every combination of commits is
  reached by three. The commits differ so that each cross-repository check is the
  only one to refuse some combination.
- `lifecycle`: two runs of `up.sh` are a broken one and one that meets what it
  left; two nodes and two addresses let a node get the other's address; the two
  topologies share a node with another specification. The number of looks for
  sshd only says how long a node may be slow. What these bounds leave out is proved
  for every property but `UpEnds` (section 5).
- `doc_gate`: a fence, what is in it, and the heading that then seems empty or
  not are three lines; the shapes are one for each branch of the checks, a line that
  begins with inline code in three backquotes among them. Three changes suffice for
  a file, or git's list, to change beside a fence or a link that depends on it.
- `prose_gate`: four lines are a block of code with a line in it and one after
  it; three are a comment or tag that begins, goes on and ends on different lines.

`CHECK_DEADLOCK FALSE` is given where a model stops because the program does: a
gate exits, a demo ends, pushes run out.

Each passing property has a mutant in `PROJECT.json`, a form the definition could
have had (a loop without a limit, a test off by one, a rollback out of order);
under it TLC finds the property violated. The variants stand before the
definitions they replace.

## 4. Where code and words differ

Three runs expect a violation. Each checks one statement of a comment or a
document that the code does not keep.

| Run | Statement | What happens |
|---|---|---|
| `take_rollback` | a take rolls back (record-take.sh:17) | one playbook is regenerated, three are old; the new node stays staged |
| `discovery_port` | the target of a pqc edge serves it (demo/topology/README.md:112) | a pqc edge without a port goes to 4433 instead of 8443 |
| `prose_excerpt` | covering keeps the bytes and the places (checkprose main.go:377, 245) | a word with a space grows by two; the place of a later hit is behind the end of the file, and the gate dies |

Other differences met while modelling. The models contain them, and no run is
spent on them; where a property says how far the statement does hold, it is named.

- demo.sh:279 takes a new pid for the new configuration. That is right after a
  stop that found the services gone (`RestartCheckIsRight`); a process stop did
  not see can make the pids differ while it serves the old configuration.
- Without an openssl finding stage 6/6 is to be skipped (demo.sh:177, and
  demo/topology/README.md:120). The node comes from any snapshot of the history
  (demo.sh:178), the finding from its newest one, the scoped one (184): a node
  whose openssl is loaded by noise only passes the guard, and the demo stops at
  the generator. `PlanLosesOnlyNoise` says how far it is right: no finding is lost
  between the two queries but noise.
- plan-real.json names the node's newest snapshot (demo.sh:327), from which the
  scope has dropped the finding it names.
- Re-observing in the real stage ingests without the scope (demo.sh:369) what the
  ingest before it scoped, so a snapshot is made although nothing changed.
- Every run makes a new approval key (demo.sh:197): a plain run between two takes
  makes the second one fail.
- record-take.sh:127 guards four playbooks by looking at one, which the shell
  creates before it is generated. Its node argument is what it looks at, not what
  the playbooks act on.
- `down.sh` "deletes the volume too" (demo/README.md:80), except after an
  `up.sh` that ended at the generator: the compose file is then gone, containers
  are removed by label (down.sh:16-20) and volumes stay. `DataOutlivesOnlyByGenerator` says
  that this is the only way the data outlives its container, and `ImplementsEnvironment` promises
  nothing after it.
- `demo.sh`'s ping can pass with a node answering in another's name when the last
  `up.sh` broke off past the generator, and only then (`MisnamedOnlyByBrokenUp`).
  Keys do not tell nodes apart: every node of a run has the same, and a run that
  broke off later hands the addresses on to one that breaks off earlier.
- After an edit of the topology stage 6/6 can choose a node that is no longer
  listed, because the database outlives the edit.
- topogen lets through networks that are not declared, when none are, and the
  names of the demo's own containers (`OnlyTwoHolesFail` says these are all).
  It writes profiles.csv without quoting (topogen main.go:362).
- pqcota-observe.sh says that running both on the node does away with the race of
  capture and traffic; what absorbs it is that the rounds repeat
  (`BindDelayIsAbsorbed`).
- The five checkouts of a run are made at different moments; a red run may be
  about mains that never stood together. `LateVerdictIsExact` and
  `QuietMainIsJudged` say when a verdict is about the mains as they are.
- checkgates tells packages apart by name: a function of the same name in another
  command counts as a call (`GreenMeansWired` is for repositories without such).
- checkcollectors takes all builds of a system together, and a build in a comment
  for a build: a collector that only another bundle has, or a comment names,
  counts (`GreenMeansBundled` is about the commands the shell runs).
- checkprose ends a block of code at either fence, whichever it began with.
- checkdocs says that a list of modules that cannot be had "is reported as a
  failure" (checkdocs main.go:303); line 317 prints a warning and the gate passes. It is
  one of the reasons `FailsElsewhereForThreeReasons` leaves for a pass that is none elsewhere.
- The outline checkdocs compares knows fences at the margin only, and its anchors
  come from headings in code too (`PairsReadAlike` says what is left of the first). The
  original of a translation need only be on disk (checkdocs main.go:451): one that git
  does not know is compared, but no other check reads it, so a row of tildes in it goes
  unnoticed and turns into code what the outline counts as text.

## 5. Proofs

Eight modules hold theorems; their obligations are discharged by Z3, Zenon and LS4.
`NumberFacts` has the lemmas most of them share: a set of natural numbers has a
least one, and a bounded one a greatest. With them what would be an induction goes by
the first counterexample; over numbers that is itself a lemma about a set
(`FromZeroOn`), and with it a recursive function over `0 .. n` has the values its
equation gives it (`ValueAfterValue`).

**`ProvisionNodeProofs`**, the first part (from `SslAppsAssumption`, the types of the
constants), is about `ssl-apps.sh` by itself. `IInv` is `TypeOK` with: pids not yet given out stay free while a start is under
way (`PidsLeft`), the table holds only processes with a line and a pid below
`nextPid` (`TableInv`), what "the table was empty" means until the next command
(`EmptyInv`), what a fresh start has spawned so far and that none of it has been
sent SIGTERM (`FreshInv`), and the position of stop (`StopInv`).
`RestartTakesEffect` alone is not inductive: it says nothing before the
processes have settled. From `IInv` follow `TypeCorrect`, `RestartCorrect`,
`OneHolderAlways` (no port has two listeners, although start checks nothing),
and `Implementation`, the refinement of `NodeService` for every number of apps,
configurations and looks.

The second part is about the playbooks, from the same assumption. Every step of a run is a step of
the services, so that invariant carries over as it is. What is added says,
by the step a walk comes to next, what is staged, activated and being done (`PlanInv`,
`RealInv`), and what a completed run leaves (`DoneInv`). A run that starts on what a
broken one left is why neither says much of the first steps: only as files are staged
and rolled back does the node become known. `CompletedRunsRestore`, `CompletedRunsServeDefault`,
`NoStartDangles` and `RestartChecksAreRight` follow; the last one compares the pid read
before with the least one given out since the stop (`first`).

**`DemoRunProofs`** (from the assumptions of `Inventory` and `DemoRun`: topologies name
nodes, the empty answer is no node). `RunInv` says, by the next step, where files may
still be (`DemoInv`, `TakeInv`: on nodes of the history `residue`, and on the node at
hand), and for the real stage which node its plan, its playbooks and its module are for
(`RealInv`). `BookInv` is what makes a take's rollback sound: all playbooks but the first
are only generated once the first has reached its node, so they name a node that is
there. From it follow `LeftoversAccounted` and `RealLands`, for any findings, topologies
and number of runs.

The other four theorems are about what the queries of `demo.sh` answer. The first part of
the module says what an ingest does to the store: `InOrder` lists the nodes with results,
each once (`InOrderIsOnto`); a node whose content changed gets one snapshot, no other node
gets any (`IngestRecords`), and of two snapshots of a node the later one is
its newest (`NewestIs`). `ViewInv` then says, by the next step, what the variables the script has
read so far still mean: after the unscoped ingest the results are what the newest
snapshots hold (`Recorded`); `PRE` is the newest snapshot of its node until the scoped ingest, and what
is newest after it is `PRE` or the scope of it (`Fits`); the node has snapshots, the finding is in the
one the plan names, the key that approves is the profile's. Each property speaks of one step
only and holds there because of what an earlier step read, so none of them is
inductive. `RealHasApprover`: the real stage has a key because stage 6/6 made one, or
because the history has no openssl finding and the stage is skipped. `DiffIsTheScope`:
what the comparison shows is the scope, since both of its snapshots come from the same
results. `PlanIsSound`: where the node has had a finding that is not noise, stage 6/6 has
one, in the snapshot it names. The finding of the history is in some earlier snapshot of the
node, which holds what the results of some discovery held; discoveries of one topology find the same
(`Observes`), and the scope takes only noise from it (`OnlyNoise`).

**`DiscoveryProofs`** (from `WindowFitsARound`, `BoundsAreNumbers`, and
`TopologiesAreDecoded`: the topologies are what a YAML decoder can make of
a file, accepted or not). `StageInv` relates the stage to the files and to what was
counted, `ObservingInv` each node's capture, clock and targets. `CountHonest`: what is
observed is declared, since results hold nothing but targets of the traffic; the
number demo.sh compares with is that of the lines, at least that of different edges; so
as many entries as lines are all the edges, and fewer entries than different edges are not all.
`LateBindAbsorbed`: a capture that hears `Window + 1 - 2 * RoundMax`
seconds after the traffic began or earlier still catches every target its network carries, in any
order of targets and with any that time out. Its invariant `HeardInv` says of a target that is not caught yet that the round
it is still to come in ends within the window, or that it was tried before netcap heard and
this round ends early enough for another. `Longest` bounds what is left of a round by the
number of live and dead targets in it (`LongestShrinks`). `TwoHoles`: what `Accepted` lets
through and compose does not start has one of the two defects `OnlyTwoHolesFail`
names.

**`DocGateProofs`** (from `DocGateAssumption` and `LinesAreRead`: a row of backquotes is at
least three). The checks turn code on and off at every row of backquotes; Markdown
closes a block only with a row of its own kind and length. `RenderedIsPlain` says that
both see the same lines of a document in which nothing was found and which has no odd fences:
turning on and off by parity solves the equation a reader's view is the solution of
(`TogglingReads`), and that has one solution only (`ReadOnce`, by the first line where two would
differ). The hypothesis that nothing was found matters: it is the tilde check that
excludes rows of tildes outside of code. With the invariant that a verdict is about the documents and the
world as they are until one of them changes (`GateInv`) follow `NoneIsEmpty`, `PairsAgree` and
`CloneFails`. The last one goes check by check: a clone has the same lines in the files git knows
(`CloneHas`), so what a check finds there it finds here, but for targets and originals that are not
in the clone and for the table, which is only compared where there is a list. `PairsReadAlike` is for originals that git knows; without that it
is false, which the attempt to prove it showed, and the run has a world in which the original is not known.

**`GateProofs`**, the first part (from the assumption on the rules in the theorem's
statement, `AllowIsClosed`: the allow-list is transitively closed), is about the
import gate. `LinkedCorrect`: whatever the workspace, what a passing run links is
allowed. The invariant says that a root already checked has no violation outside
`bad`, and that a linked package is one the gate looks into; what it imports is
allowed to it, and so, the list being closed, to the command (`LinkKeepsAllowed`).

The second part is about the prose gate (from `ProseAssumption`, that no rule and no
Hangul is among the filling characters, which main.go:442-445 says of them, and
`OverlapAssumption`). `HitsAreRight` follows a line through the gate, for any text:

- Masking leaves a character as it is or fills it, exactly where `InCode` says, for each
  kind of file (`MarkdownCovered`, `ShellCovered`, `JsonCovered`, `HtmlCovered`,
  `GoCovered`). In html the comments are looked for in what the tags left (`TagsLeave`).
- A word stands in the masked line where it stood in the original, outside of code
  (`WordIsPlain`). The filling could make one only with a space: but it is put first in a
  line, after another filled character, or after a closing quote. The last is why a
  literal of Go that is kept is kept to its end (`LiteralGoesOn`).
- Of a word all places are covered, none left because an overlapping one was taken first
  (`TakenIsAll`), and covering one word leaves the others where they stand
  (`StandsStill`); so what is covered in the end is what stood under some word
  (`HiddenChars`).
- What is left to match are the `Plain` characters as written (`CoveredChars`), so the
  line is measured if and only if it is Korean as written (`CountedIsKorean`), and its hits
  have different offsets, for every character has a byte at least (`OffsetsApart`):
  there are as many as flagged characters (`LineHitsNumber`).

`PassIsBaseline` rests on it: summed over the lines of a file the hits are `Total`
(`FileHitsNumber`), so the tally is `Due` for every rule and file (`TallyIsDue`). The invariant
`ProseInv` says of a passing verdict that the gate did not fail and that neither anything grew nor shrank
against the tally of the files and rules as they are; every edit and rewrite withdraws the verdict.
The baseline itself may be of any earlier state.

A pass says something of runs that got their counts only, and so does `HitsAreRight`: where a
covered word grew, the run may die before. `NoCrashOfWideWords` bounds that defect, which the run
`prose_excerpt` shows: if every character of `overlap.txt` is three bytes wide, as the circle is,
every place is in the original, on its line, and no run dies. Masking keeps the bytes of every
character (`CoversLine`), covering keeps them for such words (`CoveringKeepsWidths`), so a hit's
offset lies within its line in the original too (`LinesFollow`, `ShownAsItsLine`). Of the words
shipped, 못 박, 순환을 끊는다 and 키 재료 are outside of it, for their spaces.

**`CrossStageProofs`** (from the finiteness and disjointness assumptions of
`CrossStage`). `TypeCorrect`, `LateVerdicts` and `QuietMains`: a run during
which nobody pushed has seen the mains as they are, and when the last push's run
is over the mains have been judged. `IInv` adds to the types that a run marked
`alone` has seen exactly the mains in what it has checked out, and that the
last push's group is either alone or judged.

Its second part is about what a green run looked at (from `CrossStage`'s assumptions
and, in each statement, what the check takes for granted, which `MCCrossStage` has TLC evaluate). `GreenInv` is
inductive with the types: a run keeps its verdict only with what it looked at, so
green means that combination passes. The theorems are about the checks themselves. `GreenWired`: under `NoNamesakes` a call that is named like the gate is
the gate. `GreenOneRuleset`: under `HasRuleset` and `KeepsFamily` a search for
the family of the version compiled in finds every version of every commit.
`GreenBundled`: under `TextOK` and `OwnBySystem` every collector the check counts
as built is built by a command as the shell reads it; the command begins at the least
line from which all lines are continued up to the build.

**`DemoLifecycleProofs`** (from `LifecycleAssumption`: topologies name nodes, and
the markers, `None` among them, are none of the values). `LifecycleTypeCorrect`, `UpLeavesItReachable`
(`DoneMeansReachable` for any number of runs, nodes, addresses and topologies),
`OnlyTheGeneratorOrphans` and `DataOutlivesOnlyThere`. `DoneMeansReachable` speaks of the end only; the
invariant `Progress` says for every step of a running `up.sh` what holds already
of the things it has dealt with (`done`): the files' topology from "write" on,
specification of what was started, the key of who has it. Because of `Exit` it cannot say
that any of them still runs: a node may end at any time, and `hosts.csv` then has no address
for it. `WrittenInv` relates the compose file to the step:
from "build" on it is there, and it goes only with the next `up.sh` or at the end
of `down.sh`, when no container is left. Containers are found by label only without that file
(`ByLabel`), and only then is a volume left (`OrphanedByLabel`): that is `DataOutlivesOnlyThere`.
That nothing is left when `down.sh` is at its end (`DownLeft`) is what the others need of it. `NobodyAnswersForAnother` and `OnlyAnUnfinishedStartIsOutdated`
(the two halves of `PingMisleadsOnlyAfterBrokenUp`, which is `PingIsRight`) rest on
`FoundInv`: running containers never share an address; once `hosts.csv` is written it leads from no
node to another until the controller stops or the next `up.sh` begins (`HostsLead`);
and from the end of `compose up -d` on every container there is what the files say
(`AsGenerated`), also where a later step broke off. `EnvironmentImplemented` is the
refinement of `Environment`, one lemma for every kind of step: `DeliverStep`
takes from `Progress` at the last step of `up.sh` that every node is as the files
say and, if all of them run, answers for itself, and from `StoreInv` that the store was started;
`ClearStep` has either nothing left or a volume, of which nothing is promised;
the others need only that the promise was withdrawn before (`NotAtRestPends`).

Only model-checked: all liveness (`CallsReturn`, `ServedAgain`, `RunEnds`,
`DiscoveryEnds`, `UpEnds`, `PauseBringsVerdict`), because the prover has no fairness or ENABLED.
Every safety property of the passing runs is proved.

## 6. Fairness

- `SslApps`, `ProvisionNode`: weak fairness of the script's own commands (a
  started script keeps running), of the playbook's steps, and of `Exec` and
  `Bind` (the kernel schedules what was forked). None for `Exit`: nothing makes
  a process obey SIGTERM, which is why stop polls. None for calls, aborts or
  restarts.
- `Discovery`: weak fairness of `Next`. Each step is the next command of a process;
  every target has a limit (`timeout 4`, a refused connection), and every round
  ends in `sleep 1`, so the clock moves.
- `DemoLifecycle`: weak fairness of "the next command of `up.sh` returns or
  fails". It rests on the commands coming back (docker, ssh-keygen, the build);
  the wait for sshd has its own limit, which is what `UpEnds` is about. None for
  the operator, the edits and the reboots.
- `CrossStage`: weak fairness of each run's own steps, as a runner takes a job to
  its end. None for pushes. Since each push to a main cancels the run before it
  in its group, `PauseBringsVerdict` needs the pushes to stop.
- The document and prose tools have no liveness property: a run ends because its
  input is finite, and whether anybody runs it is nobody's promise.

## 7. Abstractions to know about

- Playbooks, collectors, ingest and docker are external: their effects are those
  `demo.sh` and its comments rely on. A container that is stopped keeps its files.
- Time is modelled only in `Discovery`. Elsewhere an order of steps is any order
  the scripts allow.
- Network choice: with several shared networks a name may resolve to any; a
  source hears its first (`demo/topology/README.md`).
- An operator runs one script at a time; the scripts have no locking and running
  two at once is not modelled.
- Import graphs are acyclic, as the Go compiler demands.
- `DemoLifecycle`: one address stands for a node's several, two generated files for
  four, and docker gives any free address. sshd at a running node answers or does
  not at each look. A container's entrypoint may end at any time; the controller and the
  store stop with a reboot only. The named cache volumes,
  `docker start` by hand and the removal of `.generated` by hand are left out.
- `DocText`: headings underlined or indented, comments of HTML and headings of the
  same name in one document (whose anchors get numbers) are left out. The
  properties say where a reader's view cannot be decided from rows at the margin
  (`OddFences`, `Indented`).
- `Prose`: a rule is a set of single characters. A character of several bytes that
  is filled is one character of that many spaces or x. Raw strings and block comments of
  Go are left out, and one pair of HTML tags stands for the four. Of the
  notices only that their places too can end the run is modelled; they judge nothing.
- `CollectorLists`: one command a line, no builds in comments, no collectors in
  tasks for all systems with a loop of their own (the playbook has none).
- `GateWiring`: the constant is the only literal of its home file; a family that is
  renamed altogether leaves copies nobody looks for, and is excluded.

## 8. Plan

Done, in this order: node services, playbooks, controller, gates, workflow,
topology and discovery, prose, the environment's lifecycle, documents, collector
lists.

Next, most important first:

1. `DemoRun`'s `Up` and `Down` on top of `Environment`, which `DemoLifecycle`
   implements; a playbook of `DemoRun` as the abstraction of a walk's segment of
   `ProvisionNode`.
2. `Prose` with rules of more than one character, whose matches may lie across a
   character that is filled.

### Not modelled

- *Documentation site* (`tools/site`): text of files nobody else changes while it is
  rewritten. Two sources could be given one destination (assemble.py:36);
  whether they are is decided by the present trees, not by any order of steps.
- *Release workflow* (`release.yml`): one job that takes a tag and runs no gate. What
  `main` was judged to be when the tag was set is not asked, so there is no
  protocol to check; its builds are read by `CollectorLists`.
- *Recording*, the *Java workload*, the *layers of the images* and the *build of the
  oqs provider*: sequential input and output of other projects' tools.
- *Cross-stage tests*: tests of packages of the sibling repositories.
- The build compiles what the integration repository imports (Makefile:38), and so
  does `Compiled`: commands of two stages that do not fit each other are not
  found, as docs/checks-and-gates.md says; no property claims more.
- The node `record-take.sh` looks at is chosen apart from the nodes its playbooks
  act on (record-take.sh:130): with another node as argument they differ, always,
  which a property could only repeat.
