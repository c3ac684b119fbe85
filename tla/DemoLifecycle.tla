--------------------------- MODULE DemoLifecycle ---------------------------
(***************************************************************************)
(* up.sh and down.sh, step by step, one at a time, on a host that may      *)
(* reboot and beside a topology.yaml that someone edits when they like.    *)
(* Every step may fail, and `set -e` then ends the script where it is:     *)
(* what is there stays, and the next script meets it.                      *)
(*                                                                         *)
(* A topology is a function from its nodes to what compose is told of      *)
(* each.  The inventory's store is its volume: "store" while the container *)
(* holds it, "orphan" when the container went without it.                  *)
(***************************************************************************)
EXTENDS Integers

CONSTANTS Nodes,
          Topologies, \* those topogen accepts
          Sample,     \* topology.example.yaml
          Rejected,   \* an edit topogen refuses
          Addresses,  \* what Docker gives to the nodes
          None,
          MaxUps,     \* bound: runs of up.sh
          MaxTries    \* looks for sshd at a node

Specs      == UNION {{t[n] : n \in DOMAIN t} : t \in Topologies}
Container  == [spec : Specs, address : Addresses \cup {None}, key : Nat]
Hosts      == UNION {[ids -> Addresses \cup {None}] : ids \in SUBSET Nodes}
Controller == [image : Topologies \cup {Rejected, None}, up : BOOLEAN, key : Nat, hosts : Hosts \cup {None}]

ASSUME LifecycleAssumption ==
  /\ \A t \in Topologies : DOMAIN t \subseteq Nodes /\ DOMAIN t # {}
  /\ Sample \in Topologies
  /\ Rejected \notin Topologies
  /\ None \notin Topologies \cup Addresses \cup Hosts /\ None \notin Container /\ None \notin Controller
  /\ Nodes \cap {"ctl", "pg"} = {}
  /\ MaxUps \in Nat /\ MaxTries \in Nat \ {0}

VARIABLES topo,   \* topology.yaml
          gen,    \* demo/.generated: the topology it is of, the files written
          image,  \* the topology.yaml the controller's image was built with
          con,    \* of a node, its container; the address of a stopped one is None
          ctl,    \* the controller, with the key and the hosts.csv of its /work
          volumes,
          script, \* what runs: "up", "compose down" or "labels" (down.sh), "none"
          at,     \* the step of up.sh, or the one it ended at
          done,   \* what the step has dealt with so far
          tries,
          ups     \* runs of up.sh so far; a run makes one key

files == <<topo, gen, image>>
host  == <<con, ctl, volumes>>
vars  == <<files, host, script, at, done, tries, ups>>

\* groups.ini and profiles.csv are needed where the manifest is.
GenFiles == {"docker-compose.yml", "manifest.env"}
Compose  == gen.of
Managed  == DOMAIN gen.of
NoFiles  == [of |-> None, files |-> {}]
Generated(f) == f \in gen.files

Running(n) == con[n] # None /\ con[n].address # None

(***************************************************************************)
(* The script is at a step and goes on to the next; a step over several    *)
(* things takes them one at a time.                                        *)
(***************************************************************************)
Goes(from, to) ==
  /\ script = "up" /\ at = from
  /\ at' = to /\ done' = {} /\ tries' = 0
  /\ UNCHANGED <<script, ups>>

Takes(x, all, from, to) ==
  /\ script = "up" /\ at = from
  /\ x \in all \ done
  /\ IF done \cup {x} = all THEN at' = to /\ done' = {} ELSE at' = at /\ done' = done \cup {x}
  /\ tries' = 0
  /\ UNCHANGED <<script, ups>>

(***************************************************************************)
(* up.sh.                                                                  *)
(***************************************************************************)
Up ==
  /\ script = "none" /\ ups < MaxUps
  /\ topo' = IF topo = None THEN Sample ELSE topo
  /\ gen' = NoFiles
  /\ script' = "up" /\ at' = "generate" /\ done' = {} /\ tries' = 0 /\ ups' = ups + 1
  /\ UNCHANGED <<image, host>>

GenerateAnything ==
  /\ Goes("generate", "write")
  /\ gen' = [of |-> topo, files |-> {}]
  /\ UNCHANGED <<topo, image, host>>

Generate ==
  /\ Goes("generate", "write")
  /\ topo \in Topologies
  /\ gen' = [of |-> topo, files |-> {}]
  /\ UNCHANGED <<topo, image, host>>

Write(f) ==
  /\ Takes(f, GenFiles, "write", "build")
  /\ gen' = [gen EXCEPT !.files = @ \cup {f}]
  /\ UNCHANGED <<topo, image, host>>

\* The controller's image copies the checkout, topology.yaml with it.
Build ==
  /\ Goes("build", "start")
  /\ image' = topo
  /\ UNCHANGED <<topo, gen, host>>

StartMissing(n) ==
  /\ IF Running(n)
     THEN UNCHANGED con
     ELSE \E a \in {b \in Addresses : \A m \in Nodes \ {n} : Running(m) => con[m].address # b} :
            con' = [con EXCEPT ![n] = [spec |-> Compose[n], address |-> a,
                                       key |-> IF con[n] # None THEN con[n].key ELSE 0]]
  /\ UNCHANGED <<ctl, volumes>>

StartNode(n) ==
  LET same == con[n] # None /\ con[n].spec = Compose[n]
      free == {a \in Addresses : \A m \in Nodes \ {n} : Running(m) => con[m].address # a}
  IN  /\ IF same /\ Running(n)
         THEN UNCHANGED con
         ELSE \E a \in free :
                con' = [con EXCEPT ![n] = [spec |-> Compose[n], address |-> a,
                                           key |-> IF same THEN con[n].key ELSE 0]]
      /\ UNCHANGED <<ctl, volumes>>

StartController ==
  /\ ctl' = IF ctl # None /\ ctl.image = image
            THEN [ctl EXCEPT !.up = TRUE]
            ELSE [image |-> image, up |-> TRUE, key |-> 0, hosts |-> None]
  /\ UNCHANGED <<con, volumes>>

StartStore == volumes' = volumes \cup {"store"} /\ UNCHANGED <<con, ctl>>

\* docker compose up -d.  It leaves alone what the file does not name.
Start(c) ==
  /\ Takes(c, Managed \cup {"ctl", "pg"}, "start", "compile")
  /\ CASE c = "ctl" -> StartController
       [] c = "pg"  -> StartStore
       [] OTHER     -> StartNode(c)
  /\ UNCHANGED files

Compile == Goes("compile", "wait") /\ UNCHANGED <<files, host>>

\* A look at a node's port: sshd answers, or it is looked at again, or the
\* looks are used up and the script goes on all the same.
LookUntilItAnswers(n) ==
  /\ \/ Takes(n, Managed, "wait", "keys") /\ Running(n)
     \/ /\ script = "up" /\ at = "wait" /\ n \in Managed \ done
        /\ tries' = (tries + 1) % MaxTries
        /\ UNCHANGED <<script, at, done, ups>>
  /\ UNCHANGED <<files, host>>

Look(n) ==
  /\ \/ Takes(n, Managed, "wait", "keys") /\ (Running(n) \/ tries = MaxTries - 1)
     \/ /\ script = "up" /\ at = "wait" /\ n \in Managed \ done
        /\ tries < MaxTries - 1 /\ tries' = tries + 1
        /\ UNCHANGED <<script, at, done, ups>>
  /\ UNCHANGED <<files, host>>

KeepKey(n) ==
  /\ Takes(n, Managed, "keys", "controller key")
  /\ Running(n)
  /\ con' = [con EXCEPT ![n].key = IF @ = 0 THEN ups ELSE @]
  /\ UNCHANGED <<files, ctl, volumes>>

DistributeKey(n) ==
  /\ Takes(n, Managed, "keys", "controller key")
  /\ Running(n)
  /\ con' = [con EXCEPT ![n].key = ups]
  /\ UNCHANGED <<files, ctl, volumes>>

ControllerKey ==
  /\ Goes("controller key", "hosts")
  /\ ctl' = [ctl EXCEPT !.key = ups]
  /\ UNCHANGED <<files, con, volumes>>

WriteMissingHosts ==
  /\ script = "up" /\ at = "hosts"
  /\ ctl' = [ctl EXCEPT !.hosts = IF @ = None THEN [n \in Managed |-> con[n].address] ELSE @]
  /\ script' = "none" /\ at' = "done"
  /\ UNCHANGED <<files, con, volumes, done, tries, ups>>

\* nodes.json and hosts.csv, of what docker inspect says now.
WriteHosts ==
  /\ script = "up" /\ at = "hosts"
  /\ ctl' = [ctl EXCEPT !.hosts = [n \in Managed |-> con[n].address]]
  /\ script' = "none" /\ at' = "done"
  /\ UNCHANGED <<files, con, volumes, done, tries, ups>>

UpStep ==
  \/ Generate \/ (\E f \in GenFiles : Write(f)) \/ Build
  \/ (\E c \in Nodes \cup {"ctl", "pg"} : Start(c)) \/ Compile
  \/ (\E n \in Nodes : Look(n) \/ DistributeKey(n))
  \/ ControllerKey \/ WriteHosts

(***************************************************************************)
(* down.sh.  Compose removes the project's containers, those of an earlier *)
(* file too, and the volumes; without the file they are found by label,    *)
(* and their volumes stay.                                                 *)
(***************************************************************************)
Disturbed  == IF at \in {"done", "down"} THEN "disturbed" ELSE at
DownRuns   == script \in {"compose down", "labels"}

DownFilesFirst ==
  /\ script = "none"
  /\ script' = IF Generated("docker-compose.yml") THEN "compose down" ELSE "labels"
  /\ at' = Disturbed /\ gen' = NoFiles
  /\ UNCHANGED <<topo, image, host, done, tries, ups>>

Down ==
  /\ script = "none"
  /\ script' = IF Generated("docker-compose.yml") THEN "compose down" ELSE "labels"
  /\ at' = Disturbed
  /\ UNCHANGED <<files, host, done, tries, ups>>

Left == {n \in Nodes : con[n] # None} \cup {c \in {"ctl"} : ctl # None} \cup {c \in {"pg"} : "store" \in volumes}

\* Variant: compose down without -v.
RemoveKeepingVolumes(c) ==
  /\ DownRuns /\ c \in Left
  /\ con' = [n \in Nodes |-> IF n = c THEN None ELSE con[n]]
  /\ ctl' = IF c = "ctl" THEN None ELSE ctl
  /\ volumes' = IF c # "pg" THEN volumes ELSE (volumes \ {"store"}) \cup {"orphan"}
  /\ UNCHANGED <<files, script, at, done, tries, ups>>

Remove(c) ==
  /\ DownRuns /\ c \in Left
  /\ con' = [n \in Nodes |-> IF n = c THEN None ELSE con[n]]
  /\ ctl' = IF c = "ctl" THEN None ELSE ctl
  /\ volumes' = IF c # "pg" THEN volumes
                ELSE (volumes \ {"store"}) \cup (IF script = "labels" THEN {"orphan"} ELSE {})
  /\ UNCHANGED <<files, script, at, done, tries, ups>>

DownEnds ==
  /\ DownRuns /\ Left = {}
  /\ gen' = NoFiles
  /\ script' = "none" /\ at' = "down"
  /\ UNCHANGED <<topo, image, host, done, tries, ups>>

(***************************************************************************)
(* The world: an edit of topology.yaml, a container whose entrypoint ends, *)
(* a command that fails or is interrupted, a reboot, after which every     *)
(* container is there and none runs.                                       *)
(***************************************************************************)
Edit ==
  /\ topo' \in Topologies \cup {Rejected}
  /\ UNCHANGED <<gen, image, host, script, at, done, tries, ups>>

Exit(n) ==
  /\ Running(n)
  /\ con' = [con EXCEPT ![n].address = None]
  /\ at' = IF at = "done" THEN "disturbed" ELSE at
  /\ UNCHANGED <<files, ctl, volumes, script, done, tries, ups>>

Fail ==
  /\ script # "none" /\ script' = "none" /\ done' = {} /\ tries' = 0
  /\ UNCHANGED <<files, host, at, ups>>

Reboot ==
  /\ con' = [n \in Nodes |-> IF con[n] = None THEN None ELSE [con[n] EXCEPT !.address = None]]
  /\ ctl' = IF ctl = None THEN None ELSE [ctl EXCEPT !.up = FALSE]
  /\ script' = "none" /\ at' = IF at = "done" THEN "disturbed" ELSE at
  /\ done' = {} /\ tries' = 0
  /\ UNCHANGED <<files, volumes, ups>>

Init ==
  /\ topo = None /\ gen = NoFiles /\ image = None
  /\ con = [n \in Nodes |-> None] /\ ctl = None /\ volumes = {}
  /\ script = "none" /\ at = "down" /\ done = {} /\ tries = 0 /\ ups = 0

Next ==
  \/ Up \/ UpStep
  \/ Down \/ (\E c \in Nodes \cup {"ctl", "pg"} : Remove(c)) \/ DownEnds
  \/ Edit \/ (\E n \in Nodes : Exit(n)) \/ Fail \/ Reboot

\* A script that runs goes on, be it by failing; nobody has to start one.
Spec == Init /\ [][Next]_vars /\ WF_vars(UpStep \/ Fail)

(***************************************************************************)
(* demo.sh's way to the nodes: the manifest lets it begin, the groups of   *)
(* the generated files name the nodes, hosts.csv says where each one is,   *)
(* and whoever is there answers if it knows the controller's key.          *)
(***************************************************************************)
Answers(n) ==
  {m \in Nodes : /\ Running(m) /\ n \in DOMAIN ctl.hosts
                 /\ con[m].address = ctl.hosts[n]
                 /\ con[m].key = ctl.key}

PingPasses ==
  /\ script = "none" /\ Generated("manifest.env")
  /\ ctl # None /\ ctl.up /\ ctl.hosts # None
  /\ \A n \in Managed : Answers(n) # {}

(***************************************************************************)
(* Properties.                                                             *)
(***************************************************************************)
Steps == {"generate", "write", "build", "start", "compile", "wait", "keys", "controller key", "hosts",
          "done", "disturbed", "down"}

FilesOK ==
  /\ topo \in Topologies \cup {Rejected, None} /\ image \in Topologies \cup {Rejected, None}
  /\ gen \in [of : Topologies \cup {None}, files : SUBSET GenFiles]
  /\ gen.files # {} => gen.of # None

HostOK ==
  /\ con \in [Nodes -> Container \cup {None}]
  /\ ctl \in Controller \cup {None}
  /\ volumes \subseteq {"store", "orphan"}

ScriptOK ==
  /\ script \in {"none", "up", "compose down", "labels"} /\ at \in Steps
  /\ ups \in Nat /\ tries \in 0 .. MaxTries - 1

\* What the scripts leave on the host has its shape; a file is generated only
\* of a topology the generator accepts.
TypeOK == FilesOK /\ HostOK /\ ScriptOK

\* When up.sh has ended well and nothing has happened since, hosts.csv names
\* the nodes of the generated files and no others, each at its own address, or
\* at none if its container ended under up.sh's hands; each container is what
\* its file says and lets the controller in: whatever was there before, and
\* whatever earlier runs left half done.
DoneMeansReachable ==
  at = "done" =>
    /\ ctl # None /\ ctl.up /\ DOMAIN ctl.hosts = Managed
    /\ \A n \in Managed : /\ con[n] # None /\ con[n].spec = Compose[n]
                          /\ con[n].address = ctl.hosts[n] /\ con[n].key = ctl.key

\* demo.sh's ping can pass with a node answering in another's name only when
\* the last up.sh broke off past the generator: addresses that Docker gave anew,
\* by that run or by a broken one before it, an old hosts.csv, and keys that
\* agree, old on both sides or new on both sides.  After one that ended well it
\* cannot, whatever reboots and half-run down.sh came then.
MisnamedOnlyByBrokenUp ==
  PingPasses /\ (\E n \in Managed : Answers(n) # {n}) =>
    at \in {"write", "build", "start", "compile", "wait", "keys", "controller key", "hosts"}

\* demo.sh's ping can pass with a node that runs and is not what the generated
\* files say only when up.sh broke off before it had started them all.
OutdatedOnlyByBrokenUp ==
  PingPasses /\ (\E n \in Managed : Running(n) /\ con[n].spec # Compose[n]) =>
    at \in {"write", "build", "start"}

\* Whoever is told by the ping that all is well is misled only after an up.sh
\* that broke off, and how depends on where it did.
PingMisleadsOnlyAfterBrokenUp == MisnamedOnlyByBrokenUp /\ OutdatedOnlyByBrokenUp

\* Containers without a compose file to remove them by, and so volumes that
\* outlive down.sh, come only of an up.sh that ended at the generator.
OrphanedOnlyByGenerator ==
  Left # {} /\ ~Generated("docker-compose.yml") => at \in {"generate", "write"}

\* down.sh says it has cleaned up in any case; demo/README.md:80 says that it
\* deletes the store's volume too.  The inventory's data outlives its container
\* only if the up.sh before ended at the generator: not after one that started
\* anything, whatever was edited, broke off or rebooted since.
DataOutlivesOnlyByGenerator ==
  [][volumes' \ volumes = {"orphan"} => at \in {"generate", "write"}]_vars

\* up.sh ends, even if sshd never answers at a node.
UpEnds == script = "up" ~> script # "up"

(***************************************************************************)
(* The scripts implement what users of the environment rely on             *)
(* (Environment): a promise is made by the last step only, when up.sh has  *)
(* ended well with every node still running or down.sh with no data left,  *)
(* and the next script or reboot withdraws it before it touches anything.  *)
(***************************************************************************)
Promise ==
  CASE at = "done" /\ (\A n \in Managed : Running(n)) -> [is |-> "delivered", of |-> gen.of]
    [] at = "down" /\ volumes = {}                     -> [is |-> "gone", of |-> None]
    [] OTHER                                           -> [is |-> "nothing", of |-> None]

There ==
  {<<n, con[n].spec>> : n \in {m \in Nodes : con[m] # None}}
    \cup {<<c, c>> : c \in Left \cap {"ctl"}}
    \cup {<<"pg", v>> : v \in {volumes} \ {{}}}

Reached == {n \in Nodes : ctl # None /\ ctl.up /\ ctl.hosts # None /\ n \in Answers(n)}

Env == INSTANCE Environment WITH promise <- Promise, there <- There, reached <- Reached

ImplementsEnvironment == Env!EnvironmentSpec
=============================================================================
