---------------------------- MODULE ProvisionNode ----------------------------
(***************************************************************************)
(* One node under the playbooks that demo.sh (stage 6/6 and the optional   *)
(* real-provider stage) and record-take.sh (cut provision) apply to it.    *)
(*                                                                         *)
(* A playbook stages files (L2) or also activates them and restarts the    *)
(* services through the plan's hooks (L3), or undoes either.  The scripts  *)
(* run under set -euo pipefail: whatever fails ends the run where it       *)
(* stands, and nothing rolls back.  The next run starts from the first     *)
(* playbook again, on the node as it was left.                             *)
(*                                                                         *)
(* The playbooks are generated by pqcota-provision, which is not in this   *)
(* repository; their steps and their order are the ones demo.sh gives.     *)
(***************************************************************************)
EXTENDS SslApps, Sequences

CONSTANT Pqc   \* the configuration /etc/pqcota/openssl-pqc.cnf

ASSUME ProvisionNodeAssumption == Pqc \in Conf /\ Pqc # NoConf

VARIABLES
  cnf,      \* the fragment in openssl-pqc.cnf: "absent", "groups" or "module"
  mod,      \* /opt/pqcota/oqsprovider.so is there
  run,      \* "off", "running", "aborted" or "done"
  walk,     \* which script runs: "plan" (stage 6/6) or "real"
  at,       \* its next step
  pidSeen,  \* PID_BEFORE of the restart check; 0 when only its own shell matched
  verdict   \* what the restart check printed

nodeVars == <<cnf, mod>>
runVars == <<run, walk, at>>
checkVars == <<pidSeen, verdict>>
allVars == <<vars, cnf, mod, run, walk, at, pidSeen, verdict>>

-------------------------------------------------------------------------------
(* The playbooks. *)

Stage(frag)   == [op |-> "stage", frag |-> frag]
Unstage(frag) == [op |-> "unstage", frag |-> frag]
Do(name)      == [op |-> name, frag |-> "absent"]

L2(frag)     == <<Stage(frag)>>
L2Undo(frag) == <<Unstage(frag)>>
(* Variants: activated and restarted before anything is staged; activated  *)
(* after the restart; a rollback that forgets the activation point; one    *)
(* that restarts before it is undone.                                      *)
L3StagesLast(frag) == <<Do("pre"), Do("activate"), Do("restart"), Stage(frag)>>
L3ActivatesLast(frag) == <<Do("pre"), Stage(frag), Do("restart"), Do("activate")>>
L3UndoFiles(frag) == <<Do("pre"), Unstage(frag), Do("restart")>>
L3UndoEarly(frag) == <<Do("pre"), Do("restart"), Do("deactivate"), Unstage(frag)>>

L3(frag)     == <<Do("pre"), Stage(frag), Do("activate"), Do("restart")>>
L3Undo(frag) == <<Do("pre"), Do("deactivate"), Unstage(frag), Do("restart")>>

(* Stage 6/6: plan.json injects a provider, plan-l3.json only configures. *)
PlanWalk ==
  L2("module") \o L2Undo("module")
    \o <<Do("pidBefore")>> \o L3("groups") \o <<Do("pidAfter")>> \o L3Undo("groups")

(* plan-real.json, by demo.sh and again by record-take.sh. *)
RealWalk == L2("module") \o L3("module") \o L3Undo("module") \o L2Undo("module")

Steps == [plan |-> PlanWalk, real |-> RealWalk]
Walks == DOMAIN Steps

Op == Steps[walk][at]
RunsOp(name) == run = "running" /\ pc = "idle" /\ Op.op = name

(* On to the next step or to the end of the run. *)
Advance ==
  /\ UNCHANGED walk
  /\ IF at < Len(Steps[walk])
       THEN at' = at + 1 /\ UNCHANGED run
       ELSE at' = 1 /\ run' = "done"

-------------------------------------------------------------------------------

(* The values of the variables. *)
ProvisionTypeOK ==
  /\ TypeOK
  /\ cnf \in {"absent", "groups", "module"}
  /\ mod \in BOOLEAN
  /\ run \in {"off", "running", "aborted", "done"}
  /\ walk \in Walks
  /\ at \in DOMAIN Steps[walk]
  /\ pidSeen \in Pid \cup {0}
  /\ verdict \in {"none", "new", "same"}

ProvisionInit ==
  /\ Init
  /\ cnf = "absent" /\ mod = FALSE
  /\ run = "off"
  /\ walk = "plan" /\ at = 1
  /\ pidSeen = 0 /\ verdict = "none"

(* A walk restarts the services twice; the bound leaves it the pids. *)
RoomToRun == nextPid + 2 * NumApps <= MaxPid + 1

Run(w) ==
  /\ run # "running"
  /\ pc = "idle" /\ RoomToRun
  /\ run' = "running"
  /\ walk' = w /\ at' = 1
  /\ pidSeen' = 0 /\ verdict' = "none"
  /\ UNCHANGED <<vars, nodeVars>>

DoStage ==
  /\ RunsOp("stage")
  /\ cnf' = Op.frag
  /\ mod' = (mod \/ Op.frag = "module")
  /\ Advance
  /\ UNCHANGED <<vars, checkVars>>

DoUnstage ==
  /\ RunsOp("unstage")
  /\ cnf' = "absent"
  /\ mod' = (mod /\ Op.frag # "module")
  /\ Advance
  /\ UNCHANGED <<vars, checkVars>>

DoPre ==
  /\ RunsOp("pre")
  /\ CallStop /\ restarting' = FALSE
  /\ Advance
  /\ UNCHANGED <<nodeVars, checkVars>>

DoActivate ==
  /\ RunsOp("activate")
  /\ SetEnv(Pqc)
  /\ Advance
  /\ UNCHANGED <<nodeVars, checkVars>>

DoDeactivate ==
  /\ RunsOp("deactivate")
  /\ SetEnv(NoConf)
  /\ Advance
  /\ UNCHANGED <<nodeVars, checkVars>>

DoRestart ==
  /\ RunsOp("restart")
  /\ CallStart
  /\ Advance
  /\ UNCHANGED <<nodeVars, checkVars>>

(***************************************************************************)
(* docker exec NODE sh -lc "pgrep -f 's_server -accept' | head -1": the    *)
(* lowest pid that matches.  The shell that runs the pipeline matches too, *)
(* with a pid of its own, higher than any service's: it is what is left    *)
(* when no service runs.                                                   *)
(***************************************************************************)
PidRead ==
  IF Matches = {} THEN 0 ELSE CHOOSE p \in Matches : \A q \in Matches : p <= q

DoPidBefore ==
  /\ RunsOp("pidBefore")
  /\ pidSeen' = PidRead
  /\ Advance
  /\ UNCHANGED <<vars, nodeVars, verdict>>

(* Two shells never share a pid, so 0 differs from everything. *)
DoPidAfter ==
  /\ RunsOp("pidAfter")
  /\ verdict' = IF PidRead # pidSeen \/ PidRead = 0 THEN "new" ELSE "same"
  /\ pidSeen' = 0
  /\ Advance
  /\ UNCHANGED <<vars, nodeVars>>

(* Where a run stood when it broke off is lost with it. *)
Forget == at' = 1 /\ pidSeen' = 0 /\ verdict' = "none" /\ UNCHANGED walk

(* A task fails, the connection drops or the operator interrupts. *)
Abort ==
  /\ run = "running"
  /\ run' = "aborted"
  /\ Forget
  /\ UNCHANGED <<vars, nodeVars>>

(* The run cannot go on without its container. *)
NodeStops ==
  /\ ContainerStops
  /\ IF run = "running"
       THEN run' = "aborted" /\ Forget
       ELSE UNCHANGED <<runVars, checkVars>>
  /\ UNCHANGED nodeVars

Apply ==
  \/ DoStage \/ DoUnstage \/ DoPre \/ DoActivate \/ DoDeactivate \/ DoRestart
  \/ DoPidBefore \/ DoPidAfter

(* What goes on in the node meanwhile. *)
Beside == UNCHANGED <<nodeVars, runVars, checkVars>>

ScriptRuns == (Pgrep \/ Pkill \/ Poll \/ SourceEnv \/ Spawn) /\ Beside

ProvisionNext ==
  \/ \E w \in Walks : Run(w)
  \/ Apply
  \/ Abort
  \/ NodeStops
  \/ ScriptRuns
  \/ (Kernel \/ Entrypoint) /\ Beside

ProvisionSpec == ProvisionInit /\ [][ProvisionNext]_allVars

ProvisionFairSpec ==
  ProvisionSpec /\ WF_allVars(Apply) /\ WF_allVars(ScriptRuns)
                /\ \A p \in Pid : WF_allVars(Exec(p) /\ Beside) /\ WF_allVars(Bind(p) /\ Beside)

-------------------------------------------------------------------------------
(* Properties. *)

(***************************************************************************)
(* A run that gets to its end leaves the node as it was found before any   *)
(* of them, however many earlier runs broke off in the middle and wherever *)
(* the container was restarted: nothing staged, nothing activated.         *)
(***************************************************************************)
CompletedRunRestores ==
  run = "done" => cnf = "absent" /\ ~mod /\ env = NoConf

(***************************************************************************)
(* ... and its services are back on the built-in configuration, if the     *)
(* last stop did find them gone.                                           *)
(***************************************************************************)
CompletedRunServesDefault ==
  run = "done" /\ pc = "idle" /\ since = "fresh" /\ Settled =>
    \A i \in Line : \E p \in Pid :
      Listening(p) /\ proc[p].line = i /\ proc[p].conf = NoConf

(***************************************************************************)
(* The activation hook of a plan comes after staging, and a rollback undoes*)
(* it before it removes the file: while a run is under way, no service is  *)
(* started on a configuration file that is not there, whatever an earlier, *)
(* broken-off run left behind.                                             *)
(***************************************************************************)
NoDanglingStart ==
  run = "running" /\ pc \in {"start", "spawn"} =>
    /\ pc = "start" /\ env = Pqc => cnf # "absent"
    /\ pc = "spawn" /\ loaded = Pqc => cnf # "absent"

(* A run comes to an end, if only by breaking off. *)
RunEnds == run = "running" ~> run # "running"

(***************************************************************************)
(* The restart check of demo.sh compares two pids and prints "new process  *)
(* = loaded with the new config" when they differ.  After a stop that did  *)
(* find the services gone it is right both ways: the pids do differ, and   *)
(* whatever runs by then has the new configuration.                        *)
(***************************************************************************)
RestartCheckIsRight ==
  [][DoPidAfter /\ since = "fresh" =>
       verdict' = "new" /\ \A p \in Matches : proc[p].conf = Pqc]_allVars
===============================================================================
