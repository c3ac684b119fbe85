------------------------------ MODULE CrossStage ------------------------------
(***************************************************************************)
(* The integration workflow (.github/workflows/ci.yml) over the five       *)
(* repositories: each is pushed to on its own, every push runs the gates   *)
(* on that commit together with main of the others, and the checkouts of   *)
(* one run are separate steps, between which others push.                  *)
(*                                                                         *)
(* A commit is a number; Tree says what the repository holds at it.  Of    *)
(* the steps of the job the ones that look across repositories decide:     *)
(* check-collectors, check-gates, check-deps and the build and test of     *)
(* what the integration repository imports.                                *)
(***************************************************************************)
EXTENDS ImportRules, GateWiring, CollectorLists, FiniteSets

CONSTANTS
  Order,      \* the repositories in the order of the checkout steps
  Hub,        \* the integration repository
  Discovery,  \* the repository of the playbook
  Tree,       \* [repo][commit] |-> [files, workflow, playbook]
  FirstMain,  \* the commits everything starts from
  Pulled,     \* repositories with a pull request
  MaxPush     \* bound: pushes

Roots == {Order[i] : i \in DOMAIN Order}

(* What main can be in the repositories together.  (An image, so that TLC *)
(* makes the set once.)                                                   *)
Mains == {m : m \in {n \in [Roots -> UNION {DOMAIN Tree[r] : r \in Roots}] :
                       \A r \in Roots : n[r] \in DOMAIN Tree[r]}}

ASSUME CrossStageAssumption ==
  /\ Order \in Seq(Roots)
  /\ {Hub, Discovery} \subseteq Roots
  /\ FirstMain \in Mains
  /\ Pulled \subseteq Roots
  /\ MaxPush \in Nat

VARIABLES
  main,      \* repository |-> commit of its main
  runs,      \* <<caller, ref>> |-> the newest run of that concurrency group
  alone,     \* groups whose run no push to another main has overtaken
  lastPush,  \* repository whose main was pushed last
  pushes

vars == <<main, runs, alone, lastPush, pushes>>

Groups == Roots \X {"main", "pull"}
Verdicts == {"none", "green", "red"}
NoPush == "no push"

(* A run: the commit it was triggered for, what it has checked out so far. *)
RunsOf(r) ==
  [commit : DOMAIN Tree[r], got : 0..Len(Order), seen : Mains, verdict : Verdicts]
NoRun == [verdict |-> "never"]

-------------------------------------------------------------------------------
FilesOf(seen)    == UNION {Tree[r][seen[r]].files : r \in Roots}
WorkflowOf(seen) == Tree[Hub][seen[Hub]].workflow
PlaybookOf(seen) == Tree[Discovery][seen[Discovery]].playbook

(* What "go build ./..." and "go test ./..." in the integration repository *)
(* compile: its packages and whatever they import, step by step.           *)
Compiled(files) ==
  LET own == {PackageOf(f) : f \in {g \in files : g.repo = Hub}}
      next(ps) == UNION {f.imports : f \in {g \in files :
                     PackageOf(g) \in ps /\ (g.kind # "test" \/ g.repo = Hub)}}
      upTo[n \in 0..Cardinality(files)] ==
        IF n = 0 THEN own ELSE upTo[n - 1] \cup next(upTo[n - 1])
  IN upTo[Cardinality(files)]

Builds(files) ==
  \A p \in Compiled(files) :
     p[1] \in Roots => \E f \in files : PackageOf(f) = p /\ (f.kind # "test" \/ f.repo = Hub)

(* The combinations of commits the job passes on: their content decides. *)
Passing ==
  {m : m \in {seen \in Mains :
     /\ CollectorsAgree(WorkflowOf(seen), PlaybookOf(seen))
     /\ GatesPass(FilesOf(seen))
     /\ ImportViolations(FilesOf(seen), Roots) = {}
     /\ Builds(FilesOf(seen))}}
Green(seen) == seen \in Passing

-------------------------------------------------------------------------------
Over(g) == runs[g].verdict \in {"green", "red"}

(* The types, and that there is no verdict before the last checkout. *)
TypeOK ==
  /\ main \in Mains
  /\ DOMAIN runs = Groups
  /\ \A g \in Groups : /\ runs[g] \in RunsOf(g[1]) \cup {NoRun}
                       /\ Over(g) => runs[g].got = Len(Order)
  /\ alone \subseteq Groups
  /\ lastPush \in Roots \cup {NoPush}
  /\ pushes \in 0..MaxPush

Init ==
  /\ main = FirstMain
  /\ runs = [g \in Groups |-> NoRun]
  /\ alone = {}
  /\ lastPush = NoPush
  /\ pushes = 0

Active(g) == runs[g].verdict = "none"

NewRun(c) == [commit |-> c, got |-> 0, seen |-> FirstMain, verdict |-> "none"]

(* A push to main starts a run and cancels the one before it in its group. *)
PushMain(r, c) ==
  /\ pushes < MaxPush
  /\ pushes' = pushes + 1
  /\ main' = [main EXCEPT ![r] = c]
  /\ runs' = [runs EXCEPT ![<<r, "main">>] = NewRun(c)]
  /\ alone' = {g \in alone : g[1] = r} \cup {<<r, "main">>}
  /\ lastPush' = r

(* Mutant: one group per repository, whatever the ref. *)
PushPullOneGroup(r, c) ==
  /\ pushes < MaxPush
  /\ pushes' = pushes + 1
  /\ runs' = [g \in Groups |->
       IF g = <<r, "pull">> THEN NewRun(c)
       ELSE IF g[1] = r /\ Active(g) THEN NoRun ELSE runs[g]]
  /\ alone' = alone \cup {<<r, "pull">>}
  /\ UNCHANGED <<main, lastPush>>

(* A push to a pull request. *)
PushPull(r, c) ==
  /\ pushes < MaxPush
  /\ pushes' = pushes + 1
  /\ runs' = [runs EXCEPT ![<<r, "pull">>] = NewRun(c)]
  /\ alone' = alone \cup {<<r, "pull">>}
  /\ UNCHANGED <<main, lastPush>>

(* workflow_dispatch, in the integration repository only: main as it is. *)
Dispatch ==
  /\ pushes < MaxPush
  /\ pushes' = pushes + 1
  /\ runs' = [runs EXCEPT ![<<Hub, "main">>] = NewRun(main[Hub])]
  /\ alone' = alone \cup {<<Hub, "main">>}
  /\ UNCHANGED <<main, lastPush>>

(* Mutant: the inputs of workflow_call are not used. *)
CheckoutMains(g) ==
  /\ Active(g) /\ runs[g].got < Len(Order)
  /\ LET r == Order[runs[g].got + 1]
     IN runs' = [runs EXCEPT ![g].got = @ + 1, ![g].seen[r] = main[r]]
  /\ UNCHANGED <<main, alone, lastPush, pushes>>

(* The checkout steps, one repository at a time: the caller at the commit it *)
(* passed, every other one at its main of this moment.                       *)
Checkout(g) ==
  /\ Active(g) /\ runs[g].got < Len(Order)
  /\ LET r == Order[runs[g].got + 1]
     IN runs' = [runs EXCEPT ![g].got = @ + 1,
                             ![g].seen[r] = IF r = g[1] THEN runs[g].commit ELSE main[r]]
  /\ UNCHANGED <<main, alone, lastPush, pushes>>

Judge(g) ==
  /\ Active(g) /\ runs[g].got = Len(Order)
  /\ runs' = [runs EXCEPT ![g].verdict = IF Green(runs[g].seen) THEN "green" ELSE "red"]
  /\ UNCHANGED <<main, alone, lastPush, pushes>>

Next ==
  \/ \E r \in Roots : \E c \in DOMAIN Tree[r] : PushMain(r, c)
  \/ \E r \in Pulled : \E c \in DOMAIN Tree[r] : PushPull(r, c)
  \/ Dispatch
  \/ \E g \in Groups : Checkout(g)
  \/ \E g \in Groups : Judge(g)

Spec == Init /\ [][Next]_vars

(* A job that runs goes on to its end; nobody has to push. *)
FairSpec == Spec /\ \A g \in Groups : WF_vars(Checkout(g) \/ Judge(g))

-------------------------------------------------------------------------------
(***************************************************************************)
(* When the newest run of the repository that was pushed last is over, it  *)
(* is a verdict on the mains as they are: whatever order pushes and        *)
(* checkouts went in, and although runs were cancelled, a combination that *)
(* does not fit is red somewhere, and a green one was looked at.           *)
(***************************************************************************)
QuietMainIsJudged ==
  lastPush # NoPush =>
    LET g == <<lastPush, "main">>
    IN /\ Active(g) \/ Over(g)
       /\ Over(g) => (runs[g].verdict = "green" <=> Green(main))

(***************************************************************************)
(* A run, of a pull request too, that no push to another main overtook     *)
(* judged its commit with the mains of the others.                         *)
(***************************************************************************)
LateVerdictIsExact ==
  \A g \in alone : Over(g) =>
    (runs[g].verdict = "green" <=> Green([main EXCEPT ![g[1]] = runs[g].commit]))

(***************************************************************************)
(* What the next three rest on, of every combination of commits.  The      *)
(* name a call is seen under, where it is that of a gate's package, is     *)
(* that package's; the ruleset's constant has one value, and its values of *)
(* all commits are of one family; release.yml is lines, and what is copied *)
(* to a node is in tasks with a condition on the system.                   *)
(***************************************************************************)
SeenPackage(f, call) == IF call[1] = PackageOf(f) THEN f.pkg ELSE Base(call[1])
NoNamesakes ==
  \A m \in Mains : \A gate \in GatesIn(Read(FilesOf(m))), f \in FilesOf(m) : \A call \in f.calls :
     /\ call = <<call[1], call[2]>>
     /\ SeenPackage(f, call) = gate.pkg => call[1] = PackageOf(gate.file)

Commits         == UNION {{r} \X DOMAIN Tree[r] : r \in Roots}
RulesetVersions == UNION {f.literals : f \in HomesOf(UNION {Tree[x[1]][x[2]].files : x \in Commits})}
HasRuleset      == \A m \in Mains : \E f \in HomesOf(FilesOf(m)) : f.literals # {}
KeepsFamily     == \A v, w \in RulesetVersions : RulesetFamily(v) # <<>> /\ Under(w, RulesetFamily(v))

LinesOfText == [os : Systems \cup {"none"}, build : BOOLEAN, names : SUBSET STRING, more : BOOLEAN]
TextOK      == \A m \in Mains : WorkflowOf(m) \in Seq(LinesOfText)
OwnBySystem == \A m \in Mains : \A t \in PlaybookOf(m) : t.when = "always" => \A i \in t.items : ~i.own

(***************************************************************************)
(* In what a green run looked at, every function marked GATE that is not   *)
(* pending is called by product code: that very function, not another one  *)
(* of its name (NoNamesakes).                                              *)
(***************************************************************************)
Wired == {m : m \in {seen \in Mains :
  \A gate \in GatesIn(Read(FilesOf(seen))) : gate.pending \/ ReallyWired(FilesOf(seen), gate)}}
GreenMeansWired == \A g \in Groups : runs[g].verdict = "green" => runs[g].seen \in Wired

(***************************************************************************)
(* In what a green run looked at, no file of the product spells a version  *)
(* the ruleset's constant has or had at any commit: raising it leaves no   *)
(* copy of the old one behind, in whatever repository (HasRuleset,         *)
(* KeepsFamily).                                                           *)
(***************************************************************************)
OneRuleset == {m : m \in {seen \in Mains : \A f \in Read(FilesOf(seen)) :
  f.kind = "test" \/ f.rulesetHome \/ f.literals \cap RulesetVersions = {}}}
GreenMeansOneRuleset == \A g \in Groups : runs[g].verdict = "green" => runs[g].seen \in OneRuleset

(***************************************************************************)
(* In what a green run looked at, whatever the playbook copies to a node   *)
(* is built for the node's system by one of the release's commands, as the *)
(* shell reads them: who runs from the release lacks nothing (TextOK,      *)
(* OwnBySystem).                                                           *)
(***************************************************************************)
Bundled == {m : m \in {seen \in Mains :
  \A os \in Systems : \A name \in Copied(PlaybookOf(seen), os) :
    \E command \in Commands(WorkflowOf(seen)) : BuiltBy(WorkflowOf(seen), command, os, name)}}
GreenMeansBundled == \A g \in Groups : runs[g].verdict = "green" => runs[g].seen \in Bundled

(***************************************************************************)
(* Every push cancels the run before it, so mains that keep moving may     *)
(* never be judged.  Once the pushes stop, the newest run of the           *)
(* repository pushed last comes to its verdict, whatever was cancelled.    *)
(***************************************************************************)
PauseBringsVerdict ==
  <>[][UNCHANGED pushes]_vars =>
    (lastPush # NoPush ~> lastPush # NoPush /\ Over(<<lastPush, "main">>))
===============================================================================
