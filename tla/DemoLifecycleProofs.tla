------------------------ MODULE DemoLifecycleProofs ------------------------
(***************************************************************************)
(* The safety properties of up.sh and down.sh, for all topologies,         *)
(* addresses, numbers of runs and of tries.  DoneMeansReachable is not     *)
(* inductive: a step relies on what the steps before it have established,  *)
(* which Progress says for each place of the script; the others follow     *)
(* from it and from what each part below adds.                             *)
(***************************************************************************)
EXTENDS DemoLifecycle, TLAPS

UpSteps  == {"generate", "write", "build", "start", "compile", "wait", "keys", "controller key", "hosts"}
AfterStart == {"compile", "wait", "keys", "controller key", "hosts"}

Started(n) == con[n] # None /\ con[n].spec = Compose[n]
Keyed(n)   == con[n] # None /\ con[n].key = ups
CtlUp      == ctl # None /\ ctl.up

Progress ==
  /\ script = "up" => at \in UpSteps
  /\ at = "done" => script = "none"
  /\ script = "up" /\ at # "generate" => gen.of # None
  /\ script = "up" /\ at = "start" =>
       (\A n \in done \cap Managed : Started(n)) /\ ("ctl" \in done => CtlUp)
  /\ script = "up" /\ at \in AfterStart => (\A n \in Managed : Started(n)) /\ CtlUp
  /\ script = "up" /\ at = "keys" => \A n \in done \cap Managed : Keyed(n)
  /\ script = "up" /\ at \in {"controller key", "hosts"} => \A n \in Managed : Keyed(n)
  /\ script = "up" /\ at = "hosts" => ctl.key = ups

IInv == TypeOK /\ Progress /\ DoneMeansReachable

\* What the assumptions say of each constant.
LEMMA Bounds == 0 \in 0 .. MaxTries - 1 /\ MaxUps \in Nat
BY LifecycleAssumption

LEMMA NoneIsNothingElse == None \notin Topologies /\ None \notin Hosts /\ None \notin Container /\ None \notin Controller
BY LifecycleAssumption

LEMMA ServicesAreNoNodes == "ctl" \notin Nodes /\ "pg" \notin Nodes
BY LifecycleAssumption

LEMMA SampleIsAccepted == Sample \in Topologies
BY LifecycleAssumption

\* What is generated is of a topology over known nodes.
LEMMA GeneratedIsKnown ==
  ASSUME TypeOK, gen.of # None
  PROVE  gen.of \in Topologies /\ Managed \subseteq Nodes /\ \A n \in Managed : Compose[n] \in Specs
<1>1. gen.of \in Topologies
  BY DEF TypeOK, FilesOK
<1>2. Managed \subseteq Nodes
  BY <1>1, LifecycleAssumption DEF Managed
<1>3. \A n \in Managed : Compose[n] \in {gen.of[k] : k \in DOMAIN gen.of}
  BY DEF Managed, Compose
<1> QED
  BY <1>1, <1>2, <1>3 DEF Specs

\* up.sh begins from whatever is there.
LEMMA UpKeeps == IInv /\ Up => IInv'
<1> SUFFICES ASSUME IInv, Up PROVE IInv'
  OBVIOUS
<1>1. FilesOK'
  <2>1. gen' \in [of : Topologies \cup {None}, files : SUBSET GenFiles] /\ gen'.files = {}
    BY DEF Up, NoFiles
  <2>2. topo' \in Topologies \cup {Rejected, None} /\ image' \in Topologies \cup {Rejected, None}
    BY SampleIsAccepted DEF IInv, TypeOK, FilesOK, Up
  <2> QED
    BY <2>1, <2>2 DEF FilesOK
<1>2. HostOK'
  BY DEF IInv, TypeOK, HostOK, Up, host
<1>3. ScriptOK'
  <2>1. ups' \in Nat
    BY DEF IInv, TypeOK, ScriptOK, Up
  <2>2. script' = "up" /\ at' = "generate" /\ tries' \in 0 .. MaxTries - 1
    BY Bounds DEF Up
  <2> QED
    BY <2>1, <2>2 DEF ScriptOK, Steps
<1> QED
  BY <1>1, <1>2, <1>3 DEF IInv, TypeOK, Progress, DoneMeansReachable, Up, UpSteps, AfterStart

\* The steps that touch no container.
LEMMA GenerateKeeps == IInv /\ Generate => IInv'
<1> SUFFICES ASSUME IInv, Generate PROVE IInv'
  OBVIOUS
<1>1. FilesOK' /\ gen'.of # None
  BY NoneIsNothingElse DEF IInv, TypeOK, FilesOK, Generate
<1>2. HostOK'
  BY DEF IInv, TypeOK, HostOK, Generate, host
<1>3. ScriptOK'
  BY Bounds DEF IInv, TypeOK, ScriptOK, Generate, Goes, Steps
<1> QED
  BY <1>1, <1>2, <1>3 DEF IInv, TypeOK, Progress, DoneMeansReachable, Generate, Goes, UpSteps, AfterStart

LEMMA WriteKeeps ==
  ASSUME NEW f \in GenFiles, IInv, Write(f)
  PROVE  IInv'
<1>1. gen.of # None /\ gen \in [of : Topologies \cup {None}, files : SUBSET GenFiles]
  BY DEF IInv, Progress, TypeOK, FilesOK, Write, Takes
<1>2. gen' = [gen EXCEPT !.files = @ \cup {f}] /\ gen' \in [of : Topologies \cup {None}, files : SUBSET GenFiles]
  BY <1>1 DEF Write
<1>3. gen'.of = gen.of
  BY <1>1, <1>2
<1>4. at' \in {"write", "build"} /\ script' = "up" /\ tries' = 0
  BY DEF Write, Takes
<1>5. FilesOK'
  BY <1>1, <1>2, <1>3 DEF IInv, TypeOK, FilesOK, Write
<1>6. HostOK' /\ ScriptOK'
  BY <1>4, Bounds DEF IInv, TypeOK, HostOK, ScriptOK, Write, Takes, Steps, host
<1> QED
  BY <1>1, <1>3, <1>4, <1>5, <1>6 DEF IInv, TypeOK, Progress, DoneMeansReachable, UpSteps, AfterStart

LEMMA BuildKeeps == IInv /\ Build => IInv'
<1> SUFFICES ASSUME IInv, Build PROVE IInv'
  OBVIOUS
<1>1. FilesOK' /\ HostOK'
  BY DEF IInv, TypeOK, FilesOK, HostOK, Build, host
<1>2. ScriptOK'
  BY Bounds DEF IInv, TypeOK, ScriptOK, Build, Goes, Steps
<1> QED
  BY <1>1, <1>2 DEF IInv, TypeOK, Progress, DoneMeansReachable, Build, Goes, UpSteps, AfterStart

LEMMA CompileKeeps == IInv /\ Compile => IInv'
<1> SUFFICES ASSUME IInv, Compile PROVE IInv'
  OBVIOUS
<1>1. FilesOK' /\ HostOK'
  BY DEF IInv, TypeOK, FilesOK, HostOK, Compile, files, host
<1>2. ScriptOK'
  BY Bounds DEF IInv, TypeOK, ScriptOK, Compile, Goes, Steps
<1>3. Progress'
  BY DEF IInv, Progress, Compile, Goes, UpSteps, AfterStart, files, host, Started, CtlUp, Managed, Compose
<1> QED
  BY <1>1, <1>2, <1>3 DEF IInv, TypeOK, DoneMeansReachable, Compile, Goes

LEMMA LookKeeps ==
  ASSUME NEW n \in Nodes, IInv, Look(n)
  PROVE  IInv'
<1>1. /\ script = "up" /\ script' = "up" /\ at = "wait" /\ at' \in {"wait", "keys"} /\ UNCHANGED ups
      /\ at' = "keys" => done' = {}
  BY DEF Look, Takes
<1>2. UNCHANGED <<files, host>>
  BY DEF Look
<1>3. tries' \in 0 .. MaxTries - 1
  <2>1. tries \in 0 .. MaxTries - 1 /\ MaxTries \in Nat
    BY LifecycleAssumption DEF IInv, TypeOK, ScriptOK
  <2>2. tries' = 0 \/ (tries < MaxTries - 1 /\ tries' = tries + 1)
    BY DEF Look, Takes
  <2> QED
    BY <2>1, <2>2, Bounds
<1>4. FilesOK' /\ HostOK'
  BY <1>2 DEF IInv, TypeOK, FilesOK, HostOK, files, host
<1>5. ScriptOK'
  BY <1>1, <1>3 DEF IInv, TypeOK, ScriptOK, Steps
<1>6. Progress'
  BY <1>1, <1>2 DEF IInv, Progress, UpSteps, AfterStart, files, host, Started, CtlUp, Managed, Compose
<1> QED
  BY <1>1, <1>4, <1>5, <1>6 DEF IInv, TypeOK, DoneMeansReachable

\* compose up -d: an unchanged container is kept or started, a changed one is
\* made anew; either way it is what the file says.
LEMMA StartNodeStarts ==
  ASSUME NEW n \in Nodes, TypeOK, gen.of # None, n \in Managed, StartNode(n)
  PROVE  /\ con' \in [Nodes -> Container \cup {None}]
         /\ con'[n] # None /\ con'[n].spec = Compose[n]
         /\ \A m \in Nodes \ {n} : con'[m] = con[m]
<1>1. con \in [Nodes -> Container \cup {None}] /\ Compose[n] \in Specs
  BY GeneratedIsKnown DEF TypeOK, HostOK
<1>2. CASE UNCHANGED con /\ con[n] # None /\ con[n].spec = Compose[n]
  BY <1>1, <1>2
<1>3. ASSUME NEW a \in Addresses, NEW k \in Nat,
             con' = [con EXCEPT ![n] = [spec |-> Compose[n], address |-> a, key |-> k]]
      PROVE  /\ con' \in [Nodes -> Container \cup {None}]
             /\ con'[n] # None /\ con'[n].spec = Compose[n]
             /\ \A m \in Nodes \ {n} : con'[m] = con[m]
  <2>1. [spec |-> Compose[n], address |-> a, key |-> k] \in Container
    BY <1>1 DEF Container
  <2>2. con'[n] = [spec |-> Compose[n], address |-> a, key |-> k]
    BY <1>1, <1>3
  <2> QED
    BY <1>1, <1>3, <2>1, <2>2, NoneIsNothingElse
<1>4. con[n] # None => con[n].key \in Nat
  BY <1>1 DEF Container
<1>5. CASE ~(con[n] # None /\ con[n].spec = Compose[n] /\ Running(n))
  <2>1. PICK a \in Addresses :
          con' = [con EXCEPT ![n] = [spec |-> Compose[n], address |-> a,
                   key |-> IF con[n] # None /\ con[n].spec = Compose[n] THEN con[n].key ELSE 0]]
    BY <1>5 DEF StartNode
  <2>2. (IF con[n] # None /\ con[n].spec = Compose[n] THEN con[n].key ELSE 0) \in Nat
    BY <1>4
  <2> QED
    BY <1>3, <2>1, <2>2
<1> QED
  BY <1>2, <1>5 DEF StartNode

LEMMA StartKeepsTypes ==
  ASSUME NEW c \in Nodes \cup {"ctl", "pg"}, IInv, Start(c)
  PROVE  TypeOK'
<1>1. /\ script = "up" /\ at = "start" /\ gen.of # None /\ UNCHANGED <<script, ups>>
      /\ c \in Managed \cup {"ctl", "pg"} /\ at' \in {"start", "compile"} /\ tries' = 0
  BY DEF IInv, Progress, Start, Takes
<1>2. FilesOK' /\ ScriptOK'
  BY <1>1, Bounds DEF IInv, TypeOK, FilesOK, ScriptOK, Start, files, Steps
<1>3. CASE c = "ctl"
  <2>1. StartController
    BY <1>3 DEF Start
  <2>2. ctl' \in Controller \cup {None}
    BY <2>1 DEF IInv, TypeOK, FilesOK, HostOK, StartController, Controller
  <2> QED
    BY <1>2, <2>1, <2>2 DEF IInv, TypeOK, HostOK, StartController
<1>4. CASE c = "pg"
  <2>1. StartStore
    BY <1>4 DEF Start
  <2> QED
    BY <1>2, <2>1 DEF IInv, TypeOK, HostOK, StartStore
<1>5. CASE c \notin {"ctl", "pg"}
  <2>1. StartNode(c) /\ c \in Managed /\ c \in Nodes
    BY <1>1, <1>5 DEF Start
  <2>2. con' \in [Nodes -> Container \cup {None}]
    BY <1>1, <2>1, StartNodeStarts DEF IInv
  <2> QED
    BY <1>2, <2>1, <2>2 DEF IInv, TypeOK, HostOK, StartNode
<1> QED
  BY <1>3, <1>4, <1>5

\* One container after the other is what the file says; when the last one is,
\* all are.
LEMMA StartKeeps ==
  ASSUME NEW c \in Nodes \cup {"ctl", "pg"}, IInv, Start(c)
  PROVE  IInv'
<1>1. /\ script = "up" /\ script' = "up" /\ at = "start" /\ gen.of # None /\ UNCHANGED gen
      /\ c \in Managed \cup {"ctl", "pg"}
      /\ (\A n \in done \cap Managed : Started(n)) /\ ("ctl" \in done => CtlUp)
  BY DEF IInv, Progress, Start, Takes, files
<1>2. TypeOK'
  BY StartKeepsTypes
<1>3. Managed \subseteq Nodes /\ Managed' = Managed /\ Compose' = Compose
  BY <1>1, GeneratedIsKnown DEF IInv, Managed, Compose
<1>4. (\A n \in (done \cup {c}) \cap Managed : Started(n)') /\ ("ctl" \in done \cup {c} => CtlUp')
  <2>0. "ctl" \notin Managed /\ "pg" \notin Managed
    BY <1>3, ServicesAreNoNodes
  <2>1. CASE c = "ctl"
    <3>1. UNCHANGED con /\ CtlUp'
      <4>1. StartController
        BY <2>1 DEF Start
      <4>2. ctl \in Controller \cup {None}
        BY DEF IInv, TypeOK, HostOK
      <4>3. image \in Topologies \cup {Rejected, None}
        BY DEF IInv, TypeOK, FilesOK
      <4>4. ctl' \in Controller /\ ctl'.up
        BY <4>1, <4>2, <4>3 DEF StartController, Controller
      <4> QED
        BY <4>1, <4>4, NoneIsNothingElse DEF StartController, CtlUp
    <3> QED
      BY <1>1, <1>3, <2>0, <2>1, <3>1 DEF Started
  <2>2. CASE c = "pg"
    <3>1. UNCHANGED <<con, ctl>>
      BY <2>2 DEF Start, StartStore
    <3> QED
      BY <1>1, <1>3, <2>0, <2>2, <3>1 DEF Started, CtlUp
  <2>3. CASE c \notin {"ctl", "pg"}
    <3>1. StartNode(c) /\ c \in Managed /\ UNCHANGED ctl
      BY <1>1, <2>3 DEF Start, StartNode
    <3>2. con'[c] # None /\ con'[c].spec = Compose[c] /\ \A m \in Nodes \ {c} : con'[m] = con[m]
      BY <1>1, <1>3, <3>1, StartNodeStarts DEF IInv
    <3> QED
      BY <1>1, <1>3, <2>3, <3>1, <3>2 DEF Started, CtlUp
  <2> QED
    BY <2>1, <2>2, <2>3
<1>5. CASE done \cup {c} = Managed \cup {"ctl", "pg"}
  <2>1. at' = "compile"
    BY <1>5 DEF Start, Takes
  <2> QED
    BY <1>1, <1>2, <1>3, <1>4, <1>5, <2>1 DEF IInv, Progress, DoneMeansReachable, UpSteps, AfterStart
<1>6. CASE done \cup {c} # Managed \cup {"ctl", "pg"}
  <2>1. at' = "start" /\ done' = done \cup {c}
    BY <1>1, <1>6 DEF Start, Takes
  <2> QED
    BY <1>1, <1>2, <1>3, <1>4, <2>1 DEF IInv, Progress, DoneMeansReachable, UpSteps, AfterStart
<1> QED
  BY <1>5, <1>6

LEMMA DistributeKeeps ==
  ASSUME NEW n \in Nodes, IInv, DistributeKey(n)
  PROVE  IInv'
<1>1. /\ script = "up" /\ script' = "up" /\ at = "keys" /\ UNCHANGED <<gen, ctl, ups>>
      /\ n \in Managed /\ Running(n) /\ tries' = 0
      /\ gen.of # None /\ CtlUp /\ \A m \in Managed : Started(m)
      /\ \A m \in done \cap Managed : Keyed(m)
  BY DEF IInv, Progress, DistributeKey, Takes, files, AfterStart
<1>2. /\ con \in [Nodes -> Container \cup {None}] /\ con[n] \in Container /\ ups \in Nat
      /\ Managed \subseteq Nodes /\ Managed' = Managed /\ Compose' = Compose
  BY <1>1, GeneratedIsKnown DEF IInv, TypeOK, HostOK, ScriptOK, Running, Managed, Compose
<1>3. /\ con'[n] \in Container /\ con'[n].spec = con[n].spec
      /\ con'[n].address = con[n].address /\ con'[n].key = ups
      /\ \A m \in Nodes \ {n} : con'[m] = con[m]
      /\ con' \in [Nodes -> Container \cup {None}]
  <2>1. con' = [con EXCEPT ![n] = [con[n] EXCEPT !.key = ups]]
    BY DEF DistributeKey
  <2>2. [con[n] EXCEPT !.key = ups] \in Container
    BY <1>2 DEF Container
  <2>3. con'[n] = [con[n] EXCEPT !.key = ups]
    BY <1>2, <2>1
  <2>4. /\ [con[n] EXCEPT !.key = ups].spec = con[n].spec
        /\ [con[n] EXCEPT !.key = ups].address = con[n].address
        /\ [con[n] EXCEPT !.key = ups].key = ups
    BY <1>2 DEF Container
  <2> QED
    BY <1>2, <2>1, <2>2, <2>3, <2>4
<1>4. (\A m \in Managed : Started(m)') /\ CtlUp' /\ \A m \in (done \cup {n}) \cap Managed : Keyed(m)'
  BY <1>1, <1>2, <1>3, NoneIsNothingElse DEF Started, CtlUp, Keyed, Running
<1>5. at' \in {"keys", "controller key"}
  BY DEF DistributeKey, Takes
<1>6. TypeOK'
  <2>1. FilesOK'
    BY DEF IInv, TypeOK, FilesOK, DistributeKey, files
  <2>2. HostOK'
    BY <1>3 DEF IInv, TypeOK, HostOK, DistributeKey
  <2>3. ScriptOK'
    BY <1>1, <1>5, Bounds DEF IInv, TypeOK, ScriptOK, Steps
  <2> QED
    BY <2>1, <2>2, <2>3 DEF TypeOK
<1>7. CASE done \cup {n} = Managed
  BY <1>1, <1>2, <1>4, <1>5, <1>6, <1>7
     DEF IInv, Progress, DoneMeansReachable, UpSteps, AfterStart, DistributeKey, Takes
<1>8. CASE done \cup {n} # Managed
  <2>1. at' = "keys" /\ done' = done \cup {n}
    BY <1>1, <1>8 DEF DistributeKey, Takes
  <2> QED
    BY <1>1, <1>2, <1>4, <1>6, <2>1 DEF IInv, Progress, DoneMeansReachable, UpSteps, AfterStart
<1> QED
  BY <1>7, <1>8

LEMMA ControllerKeyKeeps == IInv /\ ControllerKey => IInv'
<1> SUFFICES ASSUME IInv, ControllerKey PROVE IInv'
  OBVIOUS
<1>1. /\ script = "up" /\ script' = "up" /\ at = "controller key" /\ at' = "hosts"
      /\ UNCHANGED <<gen, con, ups>> /\ tries' = 0
      /\ gen.of # None /\ CtlUp
      /\ \A m \in Managed : Started(m) /\ Keyed(m)
  BY DEF IInv, Progress, ControllerKey, Goes, files, AfterStart
<1>2. ctl \in Controller /\ ups \in Nat
  BY <1>1 DEF IInv, TypeOK, HostOK, ScriptOK, CtlUp
<1>3. ctl' \in Controller /\ ctl'.up = ctl.up /\ ctl'.key = ups
  BY <1>2 DEF ControllerKey, Controller
<1>4. FilesOK' /\ HostOK'
  BY <1>3 DEF IInv, TypeOK, FilesOK, HostOK, ControllerKey, files
<1>5. ScriptOK'
  BY <1>1, Bounds DEF IInv, TypeOK, ScriptOK, Steps
<1>6. CtlUp' /\ Managed' = Managed /\ \A m \in Managed : Started(m)' /\ Keyed(m)'
  BY <1>1, <1>3, NoneIsNothingElse DEF CtlUp, Managed, Started, Keyed, Running, Compose
<1> QED
  BY <1>1, <1>3, <1>4, <1>5, <1>6 DEF IInv, TypeOK, Progress, DoneMeansReachable, UpSteps, AfterStart

\* hosts.csv is of the containers as they are, which have this run's key.
LEMMA WriteHostsKeeps == IInv /\ WriteHosts => IInv'
<1> SUFFICES ASSUME IInv, WriteHosts PROVE IInv'
  OBVIOUS
<1>1. /\ script = "up" /\ script' = "none" /\ at = "hosts" /\ at' = "done"
      /\ UNCHANGED <<gen, con, ups, tries>>
      /\ gen.of # None /\ CtlUp /\ ctl.key = ups
      /\ \A m \in Managed : Started(m) /\ Keyed(m)
  BY DEF IInv, Progress, WriteHosts, files, AfterStart
<1>2. ctl \in Controller /\ con \in [Nodes -> Container \cup {None}] /\ Managed \subseteq Nodes
  BY <1>1, GeneratedIsKnown DEF IInv, TypeOK, HostOK, CtlUp
<1> DEFINE hosts == [n \in Managed |-> con[n].address]
<1>3. hosts \in Hosts
  <2>1. \A n \in Managed : con[n].address \in Addresses \cup {None}
    BY <1>1, <1>2 DEF Keyed, Container
  <2> QED
    BY <1>2, <2>1 DEF Hosts
<1>4. ctl' = [ctl EXCEPT !.hosts = hosts]
  BY DEF WriteHosts
<1> HIDE DEF hosts
<1>5. ctl' \in Controller /\ ctl'.up = ctl.up /\ ctl'.key = ctl.key /\ ctl'.hosts = hosts
  BY <1>2, <1>3, <1>4 DEF Controller
<1>6. FilesOK' /\ HostOK'
  BY <1>5 DEF IInv, TypeOK, FilesOK, HostOK, WriteHosts, files
<1>7. ScriptOK'
  BY <1>1 DEF IInv, TypeOK, ScriptOK, Steps
<1>8. Managed' = Managed /\ Compose' = Compose
  BY <1>1 DEF Managed, Compose
<1>9. DoneMeansReachable'
  <2>1. DOMAIN hosts = Managed /\ \A n \in Managed : hosts[n] = con[n].address
    BY DEF hosts
  <2> QED
    BY <1>1, <1>5, <1>8, <2>1, NoneIsNothingElse DEF DoneMeansReachable, CtlUp, Started, Keyed, Running
<1> QED
  BY <1>1, <1>6, <1>7, <1>9 DEF IInv, TypeOK, Progress

\* down.sh runs only where no up.sh does.
LEMMA DownKeeps ==
  ASSUME NEW c \in Nodes \cup {"ctl", "pg"}, IInv, Down \/ Remove(c) \/ DownEnds
  PROVE  IInv'
<1>1. /\ script # "up" /\ script' \in {"none", "compose down", "labels"}
      /\ at' \in Steps /\ at' # "done" /\ UNCHANGED <<topo, image, ups, tries>>
  BY DEF IInv, TypeOK, ScriptOK, Progress, Down, Remove, DownEnds, DownRuns, Disturbed, Steps, files
<1>2. FilesOK'
  <2>1. NoFiles \in [of : Topologies \cup {None}, files : SUBSET GenFiles] /\ NoFiles.files = {}
    BY DEF NoFiles
  <2> QED
    BY <2>1 DEF IInv, TypeOK, FilesOK, Down, Remove, DownEnds, files
<1>3. HostOK'
  BY DEF IInv, TypeOK, HostOK, Down, Remove, DownEnds, host
<1>4. ScriptOK'
  BY <1>1 DEF IInv, TypeOK, ScriptOK
<1> QED
  BY <1>1, <1>2, <1>3, <1>4 DEF IInv, TypeOK, Progress, DoneMeansReachable

LEMMA EditKeeps == IInv /\ Edit => IInv'
<1> SUFFICES ASSUME IInv, Edit PROVE IInv'
  OBVIOUS
<1>1. UNCHANGED <<gen, image, con, ctl, volumes, script, at, done, tries, ups>>
  BY DEF Edit, host
<1>2. TypeOK'
  BY <1>1 DEF IInv, TypeOK, FilesOK, HostOK, ScriptOK, Edit
<1>3. Progress' /\ DoneMeansReachable'
  BY <1>1 DEF IInv, Progress, DoneMeansReachable, Started, Keyed, Running, CtlUp, Managed, Compose
<1> QED
  BY <1>2, <1>3 DEF IInv

\* A container that ends is still what its file says, with the key it has.
LEMMA ExitKeeps ==
  ASSUME NEW n \in Nodes, IInv, Exit(n)
  PROVE  IInv'
<1>1. /\ Running(n) /\ at' \in Steps /\ at' # "done" /\ (at # "done" => at' = at)
      /\ at = "done" => script = "none"
      /\ UNCHANGED <<topo, gen, image, ctl, volumes, script, done, tries, ups>>
  BY DEF Exit, files, IInv, Progress, TypeOK, ScriptOK, Steps
<1>2. con \in [Nodes -> Container \cup {None}] /\ con[n] \in Container
  BY <1>1 DEF IInv, TypeOK, HostOK, Running
<1>3. /\ con' \in [Nodes -> Container \cup {None}] /\ con'[n] \in Container
      /\ con'[n].spec = con[n].spec /\ con'[n].key = con[n].key
      /\ \A m \in Nodes \ {n} : con'[m] = con[m]
  <2>1. /\ [con[n] EXCEPT !.address = None] \in Container
        /\ [con[n] EXCEPT !.address = None].spec = con[n].spec
        /\ [con[n] EXCEPT !.address = None].key = con[n].key
    BY <1>2 DEF Container
  <2>2. con' = [con EXCEPT ![n] = [con[n] EXCEPT !.address = None]]
    BY DEF Exit
  <2> QED
    BY <1>2, <2>1, <2>2
<1>4. TypeOK'
  BY <1>1, <1>3 DEF IInv, TypeOK, FilesOK, HostOK, ScriptOK
<1>5. \A m \in Nodes : (Started(m) => Started(m)') /\ (Keyed(m) => Keyed(m)')
  BY <1>1, <1>3, NoneIsNothingElse DEF Started, Keyed, Compose
<1>6. gen.of # None => Managed \subseteq Nodes
  BY GeneratedIsKnown DEF IInv
<1>7. CASE script # "up"
  BY <1>1, <1>4, <1>7 DEF IInv, Progress, DoneMeansReachable
<1>8. CASE script = "up"
  <2>1. at' = at
    BY <1>1, <1>8
  <2> QED
    BY <1>1, <1>4, <1>5, <1>6, <1>8, <2>1
       DEF IInv, Progress, DoneMeansReachable, CtlUp, Managed, AfterStart, UpSteps
<1> QED
  BY <1>7, <1>8

LEMMA FailKeeps == IInv /\ Fail => IInv'
<1> SUFFICES ASSUME IInv, Fail PROVE IInv'
  OBVIOUS
<1>1. script # "none" /\ script' = "none" /\ tries' = 0 /\ UNCHANGED <<topo, gen, image, con, ctl, volumes, at, ups>>
  BY DEF Fail, files, host
<1>2. TypeOK'
  BY <1>1, Bounds DEF IInv, TypeOK, FilesOK, HostOK, ScriptOK
<1> QED
  BY <1>1, <1>2 DEF IInv, Progress, DoneMeansReachable

LEMMA RebootKeeps == IInv /\ Reboot => IInv'
<1> SUFFICES ASSUME IInv, Reboot PROVE IInv'
  OBVIOUS
<1>1. script' = "none" /\ at' \in Steps /\ at' # "done" /\ tries' = 0 /\ UNCHANGED <<topo, gen, image, volumes, ups>>
  BY DEF IInv, TypeOK, ScriptOK, Reboot, files, Steps
<1>2. con' \in [Nodes -> Container \cup {None}]
  <2>1. \A n \in Nodes : con[n] \in Container => [con[n] EXCEPT !.address = None] \in Container
    BY DEF Container
  <2> QED
    BY <2>1 DEF IInv, TypeOK, HostOK, Reboot
<1>3. ctl' \in Controller \cup {None}
  BY DEF IInv, TypeOK, HostOK, Reboot, Controller
<1>4. TypeOK'
  BY <1>1, <1>2, <1>3, Bounds DEF IInv, TypeOK, FilesOK, HostOK, ScriptOK
<1> QED
  BY <1>1, <1>4 DEF IInv, Progress, DoneMeansReachable

LEMMA InitEstablishes == Init => IInv
<1> SUFFICES ASSUME Init PROVE IInv
  OBVIOUS
<1>1. FilesOK
  BY DEF Init, FilesOK, NoFiles
<1>2. HostOK /\ ScriptOK
  BY Bounds DEF Init, HostOK, ScriptOK, Steps
<1> QED
  BY <1>1, <1>2 DEF Init, IInv, TypeOK, Progress, DoneMeansReachable

LEMMA StepKeeps == IInv /\ [Next]_vars => IInv'
<1> SUFFICES ASSUME IInv, [Next]_vars PROVE IInv'
  OBVIOUS
<1>1. CASE Up
  BY <1>1, UpKeeps
<1>2. CASE UpStep
  <2>1. CASE Generate \/ Build \/ Compile \/ ControllerKey \/ WriteHosts
    BY <2>1, GenerateKeeps, BuildKeeps, CompileKeeps, ControllerKeyKeeps, WriteHostsKeeps
  <2>2. CASE \E f \in GenFiles : Write(f)
    BY <2>2, WriteKeeps
  <2>3. CASE \E c \in Nodes \cup {"ctl", "pg"} : Start(c)
    BY <2>3, StartKeeps
  <2>4. CASE \E n \in Nodes : Look(n) \/ DistributeKey(n)
    BY <2>4, LookKeeps, DistributeKeeps
  <2> QED
    BY <1>2, <2>1, <2>2, <2>3, <2>4 DEF UpStep
<1>3. CASE Down \/ (\E c \in Nodes \cup {"ctl", "pg"} : Remove(c)) \/ DownEnds
  BY <1>3, DownKeeps
<1>4. CASE Edit \/ (\E n \in Nodes : Exit(n)) \/ Fail \/ Reboot
  BY <1>4, EditKeeps, ExitKeeps, FailKeeps, RebootKeeps
<1>5. CASE UNCHANGED vars
  <2>1. UNCHANGED <<topo, gen, image, con, ctl, volumes, script, at, done, tries, ups>>
    BY <1>5 DEF vars, files, host
  <2>2. TypeOK'
    BY <2>1 DEF IInv, TypeOK, FilesOK, HostOK, ScriptOK
  <2>3. Progress' /\ DoneMeansReachable'
    BY <2>1 DEF IInv, Progress, DoneMeansReachable, Started, Keyed, Running, CtlUp, Managed, Compose
  <2> QED
    BY <2>2, <2>3 DEF IInv
<1> QED
  BY <1>1, <1>2, <1>3, <1>4, <1>5 DEF Next

\* up.sh and down.sh leave on the host what has the shape they expect of it.
THEOREM LifecycleTypeCorrect == Spec => []TypeOK
<1>1. IInv => TypeOK
  BY DEF IInv
<1> QED
  BY <1>1, InitEstablishes, StepKeeps, PTL DEF Spec

\* However often up.sh was broken off, whatever was edited, rebooted or half
\* removed: one that ends well leaves hosts.csv, keys and containers in accord
\* with the files it generated.
THEOREM UpLeavesItReachable == Spec => []DoneMeansReachable
<1>1. IInv => DoneMeansReachable
  BY DEF IInv
<1> QED
  BY <1>1, InitEstablishes, StepKeeps, PTL DEF Spec

(***************************************************************************)
(* Containers without a compose file: past the generator up.sh has it.     *)
(***************************************************************************)
AtGenerator == at \in {"generate", "write"}
HasCompose  == Generated("docker-compose.yml")

WrittenInv ==
  /\ script = "up" /\ at = "write" => done \subseteq gen.files
  /\ script = "up" /\ ~AtGenerator => HasCompose
  /\ ~AtGenerator => Left = {} \/ HasCompose

LEMMA InitWritten == Init => WrittenInv
BY DEF Init, WrittenInv, AtGenerator, Left

LEMMA StepKeepsWritten == WrittenInv /\ TypeOK /\ [Next]_vars => WrittenInv'
<1> SUFFICES ASSUME WrittenInv, TypeOK, [Next]_vars PROVE WrittenInv'
  OBVIOUS
<1>1. CASE Up \/ Generate
  BY <1>1 DEF WrittenInv, Up, Generate, Goes, AtGenerator
<1>2. ASSUME NEW f \in GenFiles, Write(f) PROVE WrittenInv'
  <2>1. /\ script = "up" /\ script' = "up" /\ at = "write"
        /\ gen'.files = gen.files \cup {f} /\ done \subseteq gen.files
    BY <1>2 DEF Write, Takes, WrittenInv, TypeOK, FilesOK
  <2>2. CASE done \cup {f} = GenFiles
    <3>1. HasCompose' /\ at' = "build"
      BY <1>2, <2>1, <2>2 DEF Write, Takes, HasCompose, Generated, GenFiles
    <3> QED
      BY <3>1 DEF WrittenInv
  <2>3. CASE done \cup {f} # GenFiles
    <3>1. at' = "write" /\ done' = done \cup {f}
      BY <1>2, <2>1, <2>3 DEF Write, Takes
    <3> QED
      BY <2>1, <3>1 DEF WrittenInv, AtGenerator
  <2> QED
    BY <2>2, <2>3
<1>3. ASSUME script = "up", ~AtGenerator, UNCHANGED gen, at' # "write"
      PROVE  WrittenInv'
  BY <1>3 DEF WrittenInv, HasCompose, Generated
<1>4. CASE Build \/ (\E c \in Nodes \cup {"ctl", "pg"} : Start(c)) \/ Compile
  BY <1>3, <1>4 DEF Build, Start, Compile, Goes, Takes, AtGenerator, files
<1>5. CASE (\E n \in Nodes : Look(n) \/ DistributeKey(n)) \/ ControllerKey \/ WriteHosts
  BY <1>3, <1>5 DEF Look, DistributeKey, ControllerKey, WriteHosts, Goes, Takes, AtGenerator, files
<1>6. CASE Down
  <2>1. UNCHANGED <<gen, con, ctl, volumes>> /\ script' # "up"
    BY <1>6 DEF Down, files, host
  <2>2. (at' = "disturbed" /\ ~AtGenerator) \/ at' = at
    BY <1>6 DEF Down, Disturbed, AtGenerator
  <2>3. Left' = Left /\ HasCompose' = HasCompose
    BY <2>1 DEF Left, HasCompose, Generated
  <2> QED
    BY <2>1, <2>2, <2>3 DEF WrittenInv, AtGenerator
<1>7. ASSUME NEW c \in Nodes \cup {"ctl", "pg"}, Remove(c) PROVE WrittenInv'
  <2>1. script' # "up" /\ Left' \subseteq Left
    BY <1>7 DEF Remove, DownRuns, Left
  <2>2. HasCompose' = HasCompose /\ AtGenerator' = AtGenerator
    BY <1>7 DEF Remove, HasCompose, Generated, AtGenerator, files
  <2> QED
    BY <2>1, <2>2 DEF WrittenInv
<1>8. CASE DownEnds
  <2>1. script' # "up" /\ Left' = {}
    BY <1>8 DEF DownEnds, Left, host
  <2> QED
    BY <2>1 DEF WrittenInv
<1>9. CASE Fail \/ Reboot
  <2>1. script' # "up" /\ \A n \in Nodes : con[n] = None => con'[n] = None
    BY <1>9 DEF Fail, Reboot, host
  <2>0. (ctl = None => ctl' = None) /\ UNCHANGED volumes
    BY <1>9 DEF Fail, Reboot, host
  <2>3. Left' \subseteq Left
    BY <2>0, <2>1 DEF Left
  <2>2. HasCompose' = HasCompose /\ AtGenerator' = AtGenerator
    BY <1>9 DEF Fail, Reboot, HasCompose, Generated, AtGenerator, files
  <2> QED
    BY <2>1, <2>2, <2>3 DEF WrittenInv
<1>10. ASSUME NEW n \in Nodes, Exit(n) PROVE WrittenInv'
  <2>1. UNCHANGED <<gen, ctl, volumes, script, done>> /\ (at' = at \/ (at = "done" /\ at' = "disturbed"))
    BY <1>10 DEF Exit, files
  <2>2. \A m \in Nodes : con[m] = None => con'[m] = None
    BY <1>10 DEF Exit, Running, TypeOK, HostOK
  <2>3. Left' \subseteq Left /\ HasCompose' = HasCompose /\ AtGenerator' = AtGenerator
    BY <2>1, <2>2 DEF Left, HasCompose, Generated, AtGenerator
  <2> QED
    BY <2>1, <2>3 DEF WrittenInv, AtGenerator
<1>11. CASE Edit \/ UNCHANGED vars
  <2>1. UNCHANGED <<gen, con, ctl, volumes, script, at, done>>
    BY <1>11 DEF Edit, vars, files, host
  <2> QED
    BY <2>1 DEF WrittenInv, AtGenerator, HasCompose, Generated, Left
<1> QED
  BY <1>1, <1>2, <1>4, <1>5, <1>6, <1>7, <1>8, <1>9, <1>10, <1>11 DEF Next, UpStep

\* Containers are without a compose file to remove them by, their volumes then
\* to be left behind, only where up.sh ended at the generator.
THEOREM OnlyTheGeneratorOrphans == Spec => []OrphanedOnlyByGenerator
<1>1. WrittenInv => OrphanedOnlyByGenerator
  BY DEF WrittenInv, OrphanedOnlyByGenerator, AtGenerator, HasCompose
<1> QED
  BY <1>1, LifecycleTypeCorrect, InitWritten, StepKeepsWritten, PTL DEF Spec

\* What finds containers by their label has no compose file.
ByLabel == script = "labels" => ~HasCompose

LEMMA StepKeepsByLabel == ByLabel /\ [Next]_vars => ByLabel'
<1> SUFFICES ASSUME ByLabel, [Next]_vars PROVE ByLabel'
  OBVIOUS
<1>1. CASE Up \/ UpStep
  BY <1>1 DEF Up, UpStep, Generate, Write, Build, Start, Compile, Look, DistributeKey, ControllerKey, WriteHosts,
              Goes, Takes, ByLabel
<1>2. CASE Down
  BY <1>2 DEF Down, ByLabel, HasCompose, Generated, files
<1>3. CASE (\E c \in Nodes \cup {"ctl", "pg"} : Remove(c)) \/ DownEnds
  BY <1>3 DEF Remove, DownEnds, ByLabel, HasCompose, Generated, files
<1>4. CASE Edit \/ (\E n \in Nodes : Exit(n)) \/ Fail \/ Reboot \/ UNCHANGED vars
  BY <1>4 DEF Edit, Exit, Fail, Reboot, ByLabel, HasCompose, Generated, vars, files
<1> QED
  BY <1>1, <1>2, <1>3, <1>4 DEF Next

\* A volume is orphaned only by the removal of the store's container by its
\* label.
LEMMA OrphanedByLabel ==
  ASSUME [Next]_vars, volumes' \ volumes = {"orphan"}
  PROVE  script = "labels" /\ "pg" \in Left
<1>0. "orphan" \in volumes' /\ "orphan" \notin volumes
  OBVIOUS
<1>1. CASE Up \/ Generate \/ (\E f \in GenFiles : Write(f)) \/ Build \/ Compile \/ ControllerKey \/ WriteHosts
           \/ (\E n \in Nodes : Look(n) \/ DistributeKey(n))
  BY <1>0, <1>1 DEF Up, Generate, Write, Build, Compile, ControllerKey, WriteHosts, Look, DistributeKey, host
<1>2. CASE \E c \in Nodes \cup {"ctl", "pg"} : Start(c)
  BY <1>0, <1>2 DEF Start, StartController, StartStore, StartNode
<1>3. CASE Down \/ DownEnds \/ Edit \/ (\E n \in Nodes : Exit(n)) \/ Fail \/ Reboot \/ UNCHANGED vars
  BY <1>0, <1>3 DEF Down, DownEnds, Edit, Exit, Fail, Reboot, vars, host
<1>4. CASE \E c \in Nodes \cup {"ctl", "pg"} : Remove(c)
  BY <1>0, <1>4 DEF Remove
<1> QED
  BY <1>1, <1>2, <1>3, <1>4 DEF Next, UpStep

\* The inventory's data outlives its container only where the up.sh before
\* ended at the generator, for any number of runs, edits, failures and reboots.
THEOREM DataOutlivesOnlyThere == Spec => DataOutlivesOnlyByGenerator
<1>1. Init => ByLabel
  BY DEF Init, ByLabel
<1>2. WrittenInv /\ ByLabel /\ [Next]_vars => [volumes' \ volumes = {"orphan"} => at \in {"generate", "write"}]_vars
  BY OrphanedByLabel DEF WrittenInv, ByLabel, AtGenerator
<1> QED
  BY <1>1, <1>2, LifecycleTypeCorrect, InitWritten, StepKeepsWritten, StepKeepsByLabel, PTL
     DEF Spec, DataOutlivesOnlyByGenerator

(***************************************************************************)
(* down.sh to its end: only then is it "down", and what comes after, short *)
(* of an up.sh, changes neither the containers nor the files.              *)
(***************************************************************************)
DownLeft == at = "down" => Left = {} /\ gen = NoFiles

LEMMA UpStepIsAtWork == UpStep => script = "up" /\ at' \in UpSteps \cup {"done"}
BY DEF UpStep, Generate, Write, Build, Start, Compile, Look, DistributeKey, ControllerKey, WriteHosts,
       Goes, Takes, UpSteps

LEMMA StepKeepsDown == DownLeft /\ Progress /\ [Next]_vars => DownLeft'
<1> SUFFICES ASSUME DownLeft, Progress, [Next]_vars, at' = "down" PROVE Left' = {} /\ gen' = NoFiles
  BY DEF DownLeft
<1>1. CASE Up \/ UpStep
  BY <1>1, UpStepIsAtWork DEF Up, UpSteps
<1>2. CASE Down
  BY <1>2 DEF Down, Disturbed
<1>3. CASE \E c \in Nodes \cup {"ctl", "pg"} : Remove(c)
  BY <1>3 DEF Remove, DownLeft
<1>4. CASE DownEnds
  BY <1>4 DEF DownEnds, host, Left
<1>5. CASE \E n \in Nodes : Exit(n)
  <2>1. at = "down" /\ \E n \in Nodes : Running(n)
    BY <1>5 DEF Exit
  <2> QED
    BY <2>1 DEF DownLeft, Left, Running
<1>6. CASE Reboot
  <2>1. at = "down" /\ UNCHANGED <<gen, volumes>>
    BY <1>6 DEF Reboot, files
  <2>2. (\A n \in Nodes : con[n] = None => con'[n] = None) /\ (ctl = None => ctl' = None)
    BY <1>6 DEF Reboot
  <2>3. Left' \subseteq Left
    BY <2>1, <2>2 DEF Left
  <2> QED
    BY <2>1, <2>3 DEF DownLeft
<1>7. CASE Edit \/ Fail \/ UNCHANGED vars
  <2>1. UNCHANGED <<gen, con, ctl, volumes, at>>
    BY <1>7 DEF Edit, Fail, vars, files, host
  <2> QED
    BY <2>1 DEF DownLeft, Left
<1> QED
  BY <1>1, <1>2, <1>3, <1>4, <1>5, <1>6, <1>7 DEF Next

LEMMA DownLeftAlways == Spec => []DownLeft
<1>1. Init => DownLeft
  BY DEF Init, DownLeft, Left
<1>2. IInv => Progress
  BY DEF IInv
<1> QED
  BY <1>1, <1>2, InitEstablishes, StepKeeps, StepKeepsDown, PTL DEF Spec

(***************************************************************************)
(* What demo.sh may find.  Two containers that run never share an address. *)
(* Once an up.sh has ended well its hosts.csv leads from no node to        *)
(* another while the controller stays up, and containers are what the      *)
(* files say from the end of compose up -d on, also where a later step     *)
(* broke off.                                                              *)
(***************************************************************************)
OwnAddresses ==
  \A m, n \in Nodes : Running(m) /\ Running(n) /\ con[m].address = con[n].address => m = n

HostsLead ==
  \A n \in Managed, m \in Nodes : Running(m) /\ con[m].address = ctl.hosts[n] => m = n

AsGenerated == \A n \in Managed : con[n] # None => con[n].spec = Compose[n]

Settled   == at \in {"done", "disturbed"}
Afterward == at \in AfterStart \cup {"done", "disturbed"}

FoundInv ==
  /\ OwnAddresses
  /\ Settled /\ gen.of # None /\ CtlUp => HostsLead
  /\ Afterward /\ gen.of # None => AsGenerated
  /\ at = "generate" => gen = NoFiles

LEMMA InitFound == Init => FoundInv
BY DEF Init, FoundInv, OwnAddresses, Running, Settled, Afterward, AfterStart

\* A container that starts gets an address nobody has; the others keep theirs
\* or stop.
LEMMA OwnAddressesKept == OwnAddresses /\ TypeOK /\ [Next]_vars => OwnAddresses'
<1> SUFFICES ASSUME OwnAddresses, TypeOK, [Next]_vars PROVE OwnAddresses'
  OBVIOUS
<1>0. con \in [Nodes -> Container \cup {None}]
  BY DEF TypeOK, HostOK
<1>1. ASSUME \A n \in Nodes : Running(n)' => Running(n) /\ con'[n].address = con[n].address
      PROVE  OwnAddresses'
  BY <1>1 DEF OwnAddresses
<1>2. ASSUME UNCHANGED con PROVE OwnAddresses'
  BY <1>2 DEF OwnAddresses, Running
<1>3. CASE Up \/ Generate \/ (\E f \in GenFiles : Write(f)) \/ Build \/ Compile \/ (\E n \in Nodes : Look(n))
           \/ ControllerKey \/ WriteHosts \/ Down \/ DownEnds \/ Edit \/ Fail \/ UNCHANGED vars
  BY <1>2, <1>3 DEF Up, Generate, Write, Build, Compile, Look, ControllerKey, WriteHosts, Down, DownEnds,
                    Edit, Fail, vars, host
<1>4. ASSUME NEW c \in Nodes \cup {"ctl", "pg"}, Start(c) PROVE OwnAddresses'
  <2>1. CASE c \in {"ctl", "pg"}
    BY <1>2, <1>4, <2>1 DEF Start, StartController, StartStore
  <2>2. CASE c \notin {"ctl", "pg"}
    <3>1. c \in Nodes /\ StartNode(c)
      BY <1>4, <2>2 DEF Start
    <3>2. CASE UNCHANGED con
      BY <1>2, <3>2
    <3>3. ASSUME NEW a \in {b \in Addresses : \A m \in Nodes \ {c} : Running(m) => con[m].address # b},
                 NEW k,
                 con' = [con EXCEPT ![c] = [spec |-> Compose[c], address |-> a, key |-> k]]
          PROVE  OwnAddresses'
      <4>1. con'[c].address = a /\ \A m \in Nodes \ {c} : con'[m] = con[m]
        BY <1>0, <3>1, <3>3
      <4>2. \A m \in Nodes \ {c} : Running(m)' => Running(m) /\ con'[m].address # a
        BY <3>3, <4>1 DEF Running
      <4> QED
        BY <4>1, <4>2 DEF OwnAddresses
    <3> QED
      BY <3>1, <3>2, <3>3 DEF StartNode
  <2> QED
    BY <2>1, <2>2
<1>5. ASSUME NEW n \in Nodes, DistributeKey(n) PROVE OwnAddresses'
  <2>1. Running(n) /\ con[n] \in Container
    BY <1>0, <1>5 DEF DistributeKey, Running
  <2>2. con' = [con EXCEPT ![n] = [con[n] EXCEPT !.key = ups]]
    BY <1>5 DEF DistributeKey
  <2>3. con'[n].address = con[n].address /\ \A m \in Nodes \ {n} : con'[m] = con[m]
    BY <1>0, <2>1, <2>2 DEF Container
  <2> QED
    BY <1>1, <2>1, <2>3 DEF Running
<1>6. ASSUME NEW c \in Nodes \cup {"ctl", "pg"}, Remove(c) PROVE OwnAddresses'
  BY <1>1, <1>6 DEF Remove, Running
<1>7. ASSUME NEW n \in Nodes, Exit(n) PROVE OwnAddresses'
  <2>1. con[n] \in Container /\ con' = [con EXCEPT ![n] = [con[n] EXCEPT !.address = None]]
    BY <1>0, <1>7 DEF Exit, Running
  <2>2. con'[n].address = None /\ \A m \in Nodes \ {n} : con'[m] = con[m]
    BY <1>0, <2>1 DEF Container
  <2> QED
    BY <1>1, <2>2 DEF Running
<1>8. CASE Reboot
  <2>1. \A n \in Nodes : con[n] # None => [con[n] EXCEPT !.address = None].address = None
    BY <1>0 DEF Container
  <2> QED
    BY <1>8, <2>1 DEF Reboot, OwnAddresses, Running
<1> QED
  BY <1>3, <1>4, <1>5, <1>6, <1>7, <1>8 DEF Next, UpStep

\* Only the end of up.sh makes it settled again; nothing else that leaves the
\* controller up gives a node another's address.
LEMMA HostsLeadKept ==
  ASSUME IInv, DownLeft, FoundInv, [Next]_vars, Settled', gen'.of # None, CtlUp'
  PROVE  HostsLead'
<1>1. CASE Up \/ (UpStep /\ ~WriteHosts)
  BY <1>1 DEF Up, UpStep, Generate, Write, Build, Start, Compile, Look, DistributeKey, ControllerKey,
              Goes, Takes, Settled
<1>2. CASE WriteHosts
  <2>1. ctl \in Controller /\ gen.of # None /\ \A n \in Managed : con[n] # None
    BY <1>2 DEF WriteHosts, IInv, TypeOK, HostOK, Progress, CtlUp, Keyed, AfterStart
  <2>2. ctl'.hosts = [n \in Managed |-> con[n].address] /\ UNCHANGED <<gen, con>>
    BY <1>2, <2>1 DEF WriteHosts, Controller, files
  <2>3. Managed \subseteq Nodes
    BY <2>1, GeneratedIsKnown DEF IInv
  <2> QED
    BY <2>1, <2>2, <2>3 DEF FoundInv, OwnAddresses, HostsLead, Running, Managed
<1>3. ASSUME Settled, UNCHANGED gen, ctl' = ctl,
             \A m \in Nodes : Running(m)' => Running(m) /\ con'[m].address = con[m].address
      PROVE  HostsLead'
  BY <1>3 DEF FoundInv, HostsLead, Managed, CtlUp
<1>4. CASE Down
  <2>1. UNCHANGED <<gen, con, ctl>> /\ at \in {"done", "disturbed", "down"}
    BY <1>4 DEF Down, Disturbed, Settled, files, host
  <2>2. at # "down"
    BY <2>1 DEF DownLeft, NoFiles
  <2> QED
    BY <1>3, <2>1, <2>2 DEF Settled, Running
<1>5. ASSUME NEW c \in Nodes \cup {"ctl", "pg"}, Remove(c) PROVE HostsLead'
  BY <1>3, <1>5 DEF Remove, Settled, CtlUp, Running, files
<1>6. CASE DownEnds
  BY <1>6 DEF DownEnds, Settled
<1>7. CASE Edit \/ Fail \/ UNCHANGED vars
  BY <1>3, <1>7 DEF Edit, Fail, Settled, Running, vars, files, host
<1>8. ASSUME NEW n \in Nodes, Exit(n) PROVE HostsLead'
  <2>1. con \in [Nodes -> Container \cup {None}] /\ con[n] \in Container
    BY <1>8 DEF Exit, Running, IInv, TypeOK, HostOK
  <2>2. con' = [con EXCEPT ![n] = [con[n] EXCEPT !.address = None]]
    BY <1>8 DEF Exit
  <2>3. con'[n].address = None /\ \A m \in Nodes \ {n} : con'[m] = con[m]
    BY <2>1, <2>2 DEF Container
  <2>4. Settled /\ UNCHANGED <<gen, ctl>>
    BY <1>8 DEF Exit, Settled, files
  <2> QED
    BY <1>3, <2>3, <2>4 DEF Running
<1>9. CASE Reboot
  BY <1>9 DEF Reboot, CtlUp, IInv, TypeOK, HostOK, Controller
<1> QED
  BY <1>1, <1>2, <1>4, <1>5, <1>6, <1>7, <1>8, <1>9 DEF Next

\* While up.sh runs, Progress says it; when it has ended, no container's
\* specification changes.
LEMMA AsGeneratedKept ==
  ASSUME IInv, IInv', DownLeft, FoundInv, [Next]_vars, Afterward', gen'.of # None
  PROVE  AsGenerated'
<1>1. CASE script' = "up"
  <2>1. at' \in AfterStart
    BY <1>1 DEF IInv, Progress, Afterward, UpSteps, AfterStart
  <2> QED
    BY <1>1, <2>1 DEF IInv, Progress, Started, AsGenerated
<1>2. CASE script' # "up"
  <2>0. con \in [Nodes -> Container \cup {None}]
    BY DEF IInv, TypeOK, HostOK
  <2>1. ASSUME Afterward, UNCHANGED gen,
               \A n \in Nodes : con'[n] # None => con[n] # None /\ con'[n].spec = con[n].spec
        PROVE  AsGenerated'
    <3>1. Managed \subseteq Nodes
      BY <2>1, GeneratedIsKnown DEF IInv
    <3> QED
      BY <2>1, <3>1 DEF FoundInv, AsGenerated, Managed, Compose
  <2>2. CASE Up
    BY <1>2, <2>2 DEF Up
  <2>3. CASE UpStep
    <3>1. WriteHosts
      BY <1>2, <2>3 DEF UpStep, Generate, Write, Build, Start, Compile, Look, DistributeKey, ControllerKey,
                        Goes, Takes
    <3> QED
      BY <2>1, <3>1 DEF WriteHosts, Afterward, AfterStart, files
  <2>4. CASE Down
    <3>1. UNCHANGED <<gen, con>> /\ (Afterward \/ at = "down")
      BY <2>4 DEF Down, Disturbed, Afterward, AfterStart, files, host
    <3>2. at # "down"
      BY <3>1 DEF DownLeft, NoFiles
    <3> QED
      BY <2>1, <3>1, <3>2
  <2>5. CASE (\E c \in Nodes \cup {"ctl", "pg"} : Remove(c)) \/ Edit \/ Fail \/ UNCHANGED vars
    BY <2>1, <2>5 DEF Remove, Edit, Fail, Afterward, vars, files, host
  <2>6. CASE DownEnds
    BY <2>6 DEF DownEnds, Afterward, AfterStart
  <2>7. ASSUME NEW n \in Nodes, Exit(n) PROVE AsGenerated'
    <3>1. con[n] \in Container /\ con' = [con EXCEPT ![n] = [con[n] EXCEPT !.address = None]]
      BY <2>0, <2>7 DEF Exit, Running
    <3>2. con'[n].spec = con[n].spec /\ \A m \in Nodes \ {n} : con'[m] = con[m]
      BY <2>0, <3>1 DEF Container
    <3>3. Afterward /\ UNCHANGED gen
      BY <2>7 DEF Exit, Afterward, AfterStart, files
    <3> QED
      BY <2>1, <2>7, <3>2, <3>3 DEF Exit, Running
  <2>8. CASE Reboot
    <3>1. \A n \in Nodes : con[n] # None => [con[n] EXCEPT !.address = None].spec = con[n].spec
      BY <2>0 DEF Container
    <3>2. Afterward /\ UNCHANGED gen
      BY <2>8 DEF Reboot, Afterward, AfterStart, files
    <3> QED
      BY <2>1, <2>8, <3>1, <3>2 DEF Reboot
  <2> QED
    BY <2>2, <2>3, <2>4, <2>5, <2>6, <2>7, <2>8 DEF Next
<1> QED
  BY <1>1, <1>2

LEMMA StepKeepsFound ==
  IInv /\ IInv' /\ DownLeft /\ FoundInv /\ [Next]_vars => FoundInv'
<1> SUFFICES ASSUME IInv, IInv', DownLeft, FoundInv, [Next]_vars PROVE FoundInv'
  OBVIOUS
<1>1. OwnAddresses'
  BY OwnAddressesKept DEF FoundInv, IInv
<1>2. at' = "generate" => gen' = NoFiles
  <2>1. CASE Up
    BY <2>1 DEF Up
  <2>2. CASE UpStep
    BY <2>2 DEF UpStep, Generate, Write, Build, Start, Compile, Look, DistributeKey, ControllerKey, WriteHosts,
                Goes, Takes
  <2>3. CASE Down \/ (\E c \in Nodes \cup {"ctl", "pg"} : Remove(c)) \/ DownEnds
             \/ Edit \/ (\E n \in Nodes : Exit(n)) \/ Fail \/ Reboot \/ UNCHANGED vars
    BY <2>3 DEF FoundInv, Down, Disturbed, Remove, DownEnds, Edit, Exit, Fail, Reboot, vars, files
  <2> QED
    BY <2>1, <2>2, <2>3 DEF Next
<1> QED
  BY <1>1, <1>2, HostsLeadKept, AsGeneratedKept DEF FoundInv

LEMMA FoundAlways == Spec => [](IInv /\ DownLeft /\ FoundInv)
BY InitEstablishes, StepKeeps, DownLeftAlways, InitFound, StepKeepsFound, PTL DEF Spec

\* After an up.sh that ended well demo.sh's ping never passes with a node
\* answering in another's name, for any number of runs, nodes and addresses.
THEOREM NobodyAnswersForAnother == Spec => []MisnamedOnlyByBrokenUp
<1>1. ASSUME IInv, DownLeft, FoundInv, PingPasses, NEW n \in Managed, Answers(n) # {n}
      PROVE  at \in UpSteps \ {"generate"}
  <2>1. at \in Steps /\ gen.of # None /\ CtlUp
    BY <1>1 DEF IInv, TypeOK, FilesOK, ScriptOK, PingPasses, Generated, CtlUp
  <2>2. PICK m \in Answers(n) : m # n
    BY <1>1 DEF PingPasses
  <2>3. ~Settled
    BY <1>1, <2>1, <2>2 DEF FoundInv, HostsLead, Answers
  <2>4. at \notin {"generate", "down"}
    BY <1>1, <2>1 DEF FoundInv, DownLeft, NoFiles
  <2> QED
    BY <2>1, <2>3, <2>4 DEF Settled, Steps, UpSteps
<1>2. IInv /\ DownLeft /\ FoundInv => MisnamedOnlyByBrokenUp
  BY <1>1 DEF MisnamedOnlyByBrokenUp, UpSteps
<1> QED
  BY <1>2, FoundAlways, PTL

\* demo.sh's ping passes beside a node that is not what the generated files say
\* only where up.sh ended before compose up -d had come to its end.
THEOREM OnlyAnUnfinishedStartIsOutdated == Spec => []OutdatedOnlyByBrokenUp
<1>1. ASSUME IInv, DownLeft, FoundInv, PingPasses,
             NEW n \in Managed, Running(n), con[n].spec # Compose[n]
      PROVE  at \in {"write", "build", "start"}
  <2>1. at \in Steps /\ gen.of # None
    BY <1>1 DEF IInv, TypeOK, FilesOK, ScriptOK, PingPasses, Generated
  <2>2. ~Afterward
    BY <1>1, <2>1 DEF FoundInv, AsGenerated, Running
  <2>3. at \notin {"generate", "down"}
    BY <1>1, <2>1 DEF FoundInv, DownLeft, NoFiles
  <2> QED
    BY <2>1, <2>2, <2>3 DEF Afterward, AfterStart, Steps
<1>2. IInv /\ DownLeft /\ FoundInv => OutdatedOnlyByBrokenUp
  BY <1>1 DEF OutdatedOnlyByBrokenUp
<1> QED
  BY <1>2, FoundAlways, PTL

\* demo.sh's ping misleads, by a name or by what runs there, only after an
\* up.sh that broke off where one of the two above says.
THEOREM PingIsRight == Spec => []PingMisleadsOnlyAfterBrokenUp
BY NobodyAnswersForAnother, OnlyAnUnfinishedStartIsOutdated, PTL DEF PingMisleadsOnlyAfterBrokenUp

(***************************************************************************)
(* The refinement.  A step of a script, or of the world, is a step of the  *)
(* environment: it withdraws the promise, or goes on while there is none.  *)
(***************************************************************************)
AtRest  == at \in {"done", "down"}
Pending == Promise = [is |-> "nothing", of |-> None]

StoreInv ==
  /\ at = "down" => script = "none"
  /\ script = "up" /\ at = "start" /\ "pg" \in done => "store" \in volumes
  /\ script = "up" /\ at \in AfterStart => "store" \in volumes

LEMMA StepKeepsStore == IInv /\ StoreInv /\ [Next]_vars => StoreInv'
<1> SUFFICES ASSUME IInv, StoreInv, [Next]_vars PROVE StoreInv'
  OBVIOUS
<1>1. CASE Up \/ Down \/ DownEnds \/ Edit \/ Fail \/ Reboot \/ UNCHANGED vars
  BY <1>1 DEF Up, Down, DownEnds, Edit, Fail, Reboot, Disturbed, StoreInv, AfterStart, vars, files, host
<1>2. CASE Generate \/ Build \/ Compile \/ ControllerKey \/ WriteHosts
  BY <1>2 DEF Generate, Build, Compile, ControllerKey, WriteHosts, Goes, StoreInv, AfterStart, files, host
<1>3. ASSUME NEW f \in GenFiles, Write(f) PROVE StoreInv'
  BY <1>3 DEF Write, Takes, StoreInv, AfterStart, host
<1>4. ASSUME NEW c \in Nodes \cup {"ctl", "pg"}, Start(c) PROVE StoreInv'
  <2>1. "store" \in volumes => "store" \in volumes'
    BY <1>4 DEF Start, StartNode, StartController, StartStore
  <2>2. c = "pg" => "store" \in volumes'
    BY <1>4 DEF Start, StartStore
  <2>3. /\ script = "up" /\ script' = "up" /\ at = "start" /\ c \notin done
        /\ \/ at' = "start" /\ done' = done \cup {c}
           \/ at' = "compile" /\ done \cup {c} = Managed \cup {"ctl", "pg"}
    BY <1>4 DEF Start, Takes
  <2>4. at' = "start" => StoreInv'
    BY <2>1, <2>2, <2>3 DEF StoreInv, AfterStart
  <2>5. at' = "compile" => StoreInv'
    BY <2>1, <2>2, <2>3 DEF StoreInv, AfterStart
  <2> QED
    BY <2>3, <2>4, <2>5
<1>5. ASSUME NEW n \in Nodes, Look(n) \/ DistributeKey(n) \/ Exit(n) PROVE StoreInv'
  <2>1. CASE Look(n) \/ DistributeKey(n)
    BY <2>1 DEF Look, DistributeKey, Takes, StoreInv, AfterStart, files, host
  <2>2. CASE Exit(n)
    BY <2>2 DEF Exit, StoreInv, AfterStart
  <2> QED
    BY <1>5, <2>1, <2>2
<1>6. ASSUME NEW c \in Nodes \cup {"ctl", "pg"}, Remove(c) PROVE StoreInv'
  BY <1>6 DEF Remove, DownRuns, StoreInv
<1> QED
  BY <1>1, <1>2, <1>3, <1>4, <1>5, <1>6 DEF Next, UpStep

\* What is left alone.
LEMMA SameEnvironment ==
  ASSUME UNCHANGED <<con, ctl, volumes>>
  PROVE  There' = There /\ Reached' = Reached
BY DEF There, Left, Reached, Answers, Running

LEMMA SamePromise ==
  ASSUME UNCHANGED <<at, gen, con, volumes>>
  PROVE  Promise' = Promise
BY DEF Promise, Managed, Running

LEMMA NotAtRestPends == (~AtRest => Pending) /\ (~AtRest' => Pending')
BY DEF AtRest, Pending, Promise

LEMMA WithdrawStep ==
  ASSUME There' = There, Reached' \subseteq Reached, Pending'
  PROVE  Env!Withdraw
BY DEF Pending, Env!Withdraw, Env!Nothing

\* What differs in one container only.
LEMMA ProceedStep ==
  ASSUME NEW c \in Nodes \cup {"ctl", "pg"}, Pending, Pending',
         \A m \in Nodes \ {c} : con'[m] = con[m],
         c # "ctl" => (ctl' = None <=> ctl = None),
         c # "pg" => volumes' = volumes
  PROVE  Env!Proceed(c)
<1> DEFINE N == {m \in Nodes : con[m] # None}
           M == {m \in Nodes : con'[m] # None}
           C == Left \cap {"ctl"}
           D == Left' \cap {"ctl"}
           V == {<<"pg", v>> : v \in {volumes} \ {{}}}
           W == {<<"pg", v>> : v \in {volumes'} \ {{}}}
<1>1. Promise = [is |-> "nothing", of |-> None] /\ Promise' = [is |-> "nothing", of |-> None]
  BY DEF Pending
<1>2. There = {<<n, con[n].spec>> : n \in N} \cup {<<d, d>> : d \in C} \cup V
  BY DEF There
<1>3. There' = {<<n, con'[n].spec>> : n \in M} \cup {<<d, d>> : d \in D} \cup W
  BY DEF There
<1>4. N \ {c} = M \ {c} /\ \A n \in N \ {c} : con'[n].spec = con[n].spec
  OBVIOUS
<1>5. C \ {c} = D \ {c}
  BY ServicesAreNoNodes DEF Left
<1>6. (c # "pg" => W = V) /\ (\A x \in V \cup W : x[1] = "pg")
  OBVIOUS
<1>7. ASSUME NEW x \in There', NEW y \in There', x[1] = y[1] PROVE x = y
  <2>1. M \in SUBSET Nodes /\ D \in SUBSET {"ctl"} /\ \A v, w \in W : v = w
    OBVIOUS
  <2> HIDE DEF M, D, W
  <2> QED
    BY <1>3, <1>6, <1>7, <2>1, ServicesAreNoNodes
<1> HIDE DEF N, M, C, D, V, W
<1>8. {x \in There' : x[1] # c} = {x \in There : x[1] # c}
  <2>1. ASSUME NEW x, x[1] # c, x \in There PROVE x \in There'
    BY <1>2, <1>3, <1>4, <1>5, <1>6, <2>1
  <2>2. ASSUME NEW x, x[1] # c, x \in There' PROVE x \in There
    BY <1>2, <1>3, <1>4, <1>5, <1>6, <2>2
  <2> QED
    BY <2>1, <2>2
<1>9. Reached' \subseteq Nodes
  BY DEF Reached
<1> QED
  BY <1>1, <1>7, <1>8, <1>9 DEF Env!Proceed, Env!Nothing, Env!But

\* The last step of up.sh: what it promises is there.
LEMMA DeliverStep ==
  ASSUME IInv, IInv', StoreInv, WriteHosts, \A n \in Managed : Running(n)
  PROVE  \E t \in Topologies : Env!Deliver(t)
<1>1. /\ script = "up" /\ at = "hosts" /\ at' = "done"
      /\ UNCHANGED <<gen, con, volumes>> /\ gen.of # None
  BY DEF IInv, Progress, WriteHosts, files
<1>2. /\ gen.of \in Topologies /\ Managed \subseteq Nodes
      /\ Managed' = Managed /\ Compose' = Compose /\ Compose = gen.of /\ Managed = DOMAIN gen.of
  BY <1>1, GeneratedIsKnown DEF IInv, Managed, Compose
<1>3. /\ ctl # None /\ ctl' # None /\ ctl'.up /\ ctl'.hosts # None
      /\ DOMAIN ctl'.hosts = Managed
      /\ \A n \in Managed : /\ Running(n)' /\ con[n].spec = Compose[n]
                            /\ con'[n].address = ctl'.hosts[n] /\ con'[n].key = ctl'.key
  <2>1. /\ ctl' # None /\ ctl'.up /\ DOMAIN ctl'.hosts = Managed
        /\ \A n \in Managed : /\ Running(n)' /\ con'[n].spec = Compose[n]
                              /\ con'[n].address = ctl'.hosts[n] /\ con'[n].key = ctl'.key
    BY <1>1, <1>2 DEF IInv, DoneMeansReachable, Running
  <2>2. ctl # None /\ ctl \in Controller
    BY <1>1 DEF IInv, Progress, AfterStart, CtlUp, TypeOK, HostOK
  <2>3. ctl'.hosts = [n \in Managed |-> con[n].address]
    BY <2>2 DEF WriteHosts, Controller
  <2>4. [n \in Managed |-> con[n].address] \in Hosts
    <3>1. \A n \in Managed : con[n].address \in Addresses \cup {None}
      BY <1>1, <1>2, <2>1 DEF IInv, TypeOK, HostOK, Container, Running
    <3> QED
      BY <1>2, <3>1 DEF Hosts
  <2> QED
    BY <1>1, <2>1, <2>2, <2>3, <2>4, NoneIsNothingElse
<1>4. There' = There
  BY <1>1, <1>3 DEF There, Left
<1>5. {<<n, gen.of[n]>> : n \in DOMAIN gen.of} \subseteq There
  BY <1>1, <1>2, <1>3 DEF There, Running
<1>6. (\E x \in There : x[1] = "ctl") /\ (\E x \in There : x[1] = "pg" /\ "store" \in x[2])
  <2>1. "store" \in volumes /\ volumes \in {volumes} \ {{}}
    BY <1>1 DEF StoreInv, AfterStart
  <2>2. "ctl" \in Left \cap {"ctl"}
    BY <1>3 DEF Left
  <2>3. <<"ctl", "ctl">> \in There /\ <<"pg", volumes>> \in There
    BY <2>1, <2>2 DEF There
  <2>4. <<"ctl", "ctl">>[1] = "ctl" /\ <<"pg", volumes>>[1] = "pg" /\ <<"pg", volumes>>[2] = volumes
    OBVIOUS
  <2> QED
    BY <2>1, <2>3, <2>4
<1>7. DOMAIN gen.of \subseteq Reached'
  BY <1>2, <1>3 DEF Reached, Answers
<1>8. Promise = [is |-> "nothing", of |-> None] /\ Promise' = [is |-> "delivered", of |-> gen.of]
  BY <1>1, <1>2, <1>3 DEF Promise
<1>9. Env!Deliver(gen.of)
  BY <1>4, <1>5, <1>6, <1>7, <1>8 DEF Env!Deliver, Env!Nothing, Env!Delivered
<1> QED
  BY <1>2, <1>9

\* With a node that has stopped meanwhile it promises nothing.
LEMMA NothingToDeliver ==
  ASSUME IInv, WriteHosts, ~ \A n \in Managed : Running(n)
  PROVE  Env!Proceed("ctl")
<1>1. at = "hosts" /\ at' = "done" /\ UNCHANGED <<gen, con, volumes>>
  BY DEF WriteHosts, files
<1>2. Managed' = Managed /\ \A n \in Managed : Running(n)' = Running(n)
  BY <1>1 DEF Managed, Running
<1>3. Pending /\ Pending'
  BY <1>1, <1>2 DEF Pending, Promise
<1> QED
  BY <1>1, <1>3, ProceedStep

\* The last step of down.sh: it promises that all is gone, or nothing where it
\* has left a volume.
LEMMA ClearStep == ASSUME ~AtRest, DownEnds PROVE Env!Clear \/ Env!Withdraw
<1>1. UNCHANGED <<con, ctl, volumes>> /\ Left = {} /\ at' = "down"
  BY DEF DownEnds, host
<1>2. CASE volumes = {}
  <2>1. There = {} /\ There' = {}
    BY <1>1, <1>2 DEF There, Left
  <2>2. Reached' = {}
    BY <1>1 DEF Reached, Left
  <2>3. Promise = [is |-> "nothing", of |-> None] /\ Promise' = [is |-> "gone", of |-> None]
    BY <1>1, <1>2 DEF Promise, AtRest
  <2> QED
    BY <2>1, <2>2, <2>3 DEF Env!Clear, Env!Nothing, Env!Gone
<1>3. CASE volumes # {}
  <2>1. Pending'
    BY <1>1, <1>3 DEF Pending, Promise
  <2> QED
    BY <1>1, <2>1, SameEnvironment, WithdrawStep
<1> QED
  BY <1>2, <1>3

LEMMA RebootStep ==
  ASSUME IInv, DownLeft, Reboot
  PROVE  Env!Withdraw \/ UNCHANGED <<Promise, There, Reached>>
<1>1. /\ \A n \in Nodes : con[n] = None => con'[n] = None
      /\ \A n \in Nodes : con[n] # None => con'[n] # None /\ con'[n].spec = con[n].spec
      /\ ctl = None => ctl' = None
      /\ ctl # None => ctl' # None /\ ~ctl'.up
  <2>1. con \in [Nodes -> Container \cup {None}] /\ ctl \in Controller \cup {None}
    BY DEF IInv, TypeOK, HostOK
  <2>2. ASSUME NEW n \in Nodes, con[n] # None
        PROVE  con'[n] # None /\ con'[n].spec = con[n].spec
    <3>1. con[n] \in Container /\ con'[n] = [con[n] EXCEPT !.address = None]
      BY <2>1, <2>2 DEF Reboot
    <3>2. con'[n] \in Container /\ con'[n].spec = con[n].spec
      BY <3>1 DEF Container
    <3> QED
      BY <3>2, NoneIsNothingElse
  <2>3. ASSUME ctl # None PROVE ctl' # None /\ ~ctl'.up
    <3>1. ctl \in Controller /\ ctl' = [ctl EXCEPT !.up = FALSE]
      BY <2>1, <2>3 DEF Reboot
    <3>2. ctl' \in Controller /\ ~ctl'.up
      BY <3>1 DEF Controller
    <3> QED
      BY <3>2, NoneIsNothingElse
  <2> QED
    BY <2>2, <2>3 DEF Reboot
<1>2. There' = There
  <2>1. Left' \cap {"ctl"} = Left \cap {"ctl"} /\ volumes' = volumes
    BY <1>1, ServicesAreNoNodes DEF Left, Reboot
  <2>2. {m \in Nodes : con'[m] # None} = {m \in Nodes : con[m] # None}
    BY <1>1
  <2>3. ASSUME NEW N, N = {m \in Nodes : con[m] # None}
        PROVE  {<<n, con'[n].spec>> : n \in N} = {<<n, con[n].spec>> : n \in N}
    BY <1>1, <2>3
  <2> QED
    BY <2>1, <2>2, <2>3 DEF There
<1>3. Reached' = {}
  BY <1>1 DEF Reached
<1>4. CASE at = "down"
  <2>1. Left = {} /\ at' = "down"
    BY <1>4 DEF DownLeft, Reboot
  <2>2. Reached = {}
    BY <2>1 DEF Left, Reached
  <2>3. volumes' = volumes
    BY DEF Reboot
  <2> QED
    BY <1>2, <1>3, <1>4, <2>1, <2>2, <2>3 DEF Promise
<1>5. CASE at # "down"
  BY <1>2, <1>3, <1>5, WithdrawStep, NotAtRestPends DEF Reboot, AtRest
<1> QED
  BY <1>4, <1>5

LEMMA EnvironmentStep ==
  IInv /\ IInv' /\ DownLeft /\ StoreInv /\ [Next]_vars
    => Env!EnvironmentNext \/ UNCHANGED <<Promise, There, Reached>>
<1> SUFFICES ASSUME IInv, IInv', DownLeft, StoreInv, [Next]_vars
             PROVE  Env!EnvironmentNext \/ UNCHANGED <<Promise, There, Reached>>
  OBVIOUS
<1>0. DOMAIN con = Nodes
  BY DEF IInv, TypeOK, HostOK
<1>1. script # "none" => ~AtRest
  BY DEF IInv, Progress, StoreInv, AtRest
<1>2. CASE Up \/ Generate \/ (\E f \in GenFiles : Write(f)) \/ Build \/ Compile \/ (\E n \in Nodes : Look(n))
           \/ Down \/ Fail
  <2>1. UNCHANGED <<con, ctl, volumes>> /\ ~AtRest'
    BY <1>1, <1>2 DEF Up, Generate, Write, Build, Compile, Look, Down, Fail, Goes, Takes, Disturbed, AtRest, files, host
  <2> QED
    BY <2>1, SameEnvironment, WithdrawStep, NotAtRestPends DEF Env!EnvironmentNext
<1>3. ASSUME NEW c \in Nodes \cup {"ctl", "pg"}, Start(c) PROVE Env!Proceed(c)
  <2>1. ~AtRest /\ ~AtRest'
    BY <1>3 DEF Start, Takes, AtRest
  <2>2. CASE c = "ctl"
    <3>1. UNCHANGED <<con, volumes>>
      BY <1>3, <2>2 DEF Start, StartController
    <3> QED
      BY <2>1, <2>2, <3>1, ProceedStep, NotAtRestPends
  <2>3. CASE c = "pg"
    <3>1. UNCHANGED <<con, ctl>>
      BY <1>3, <2>3 DEF Start, StartStore
    <3> QED
      BY <2>1, <2>3, <3>1, ProceedStep, NotAtRestPends
  <2>4. CASE c \in Nodes
    <3>1. StartNode(c)
      BY <1>3, <2>4, ServicesAreNoNodes DEF Start
    <3>2. UNCHANGED <<ctl, volumes>> /\ \A m \in Nodes \ {c} : con'[m] = con[m]
      BY <1>0, <3>1 DEF StartNode
    <3> QED
      BY <2>1, <3>2, ProceedStep, NotAtRestPends
  <2> QED
    BY <2>2, <2>3, <2>4
<1>4. ASSUME NEW c \in Nodes \cup {"ctl", "pg"}, Remove(c) PROVE Env!Proceed(c)
  <2>1. ~AtRest /\ ~AtRest'
    BY <1>1, <1>4 DEF Remove, DownRuns, AtRest
  <2>2. \A m \in Nodes \ {c} : con'[m] = con[m]
    BY <1>4 DEF Remove
  <2>3. (c # "ctl" => ctl' = ctl) /\ (c # "pg" => volumes' = volumes)
    BY <1>4 DEF Remove
  <2> QED
    BY <2>1, <2>2, <2>3, ProceedStep, NotAtRestPends
<1>5. ASSUME NEW n \in Nodes, DistributeKey(n) PROVE Env!Proceed(n)
  <2>1. ~AtRest /\ ~AtRest' /\ UNCHANGED <<ctl, volumes>>
    BY <1>5 DEF DistributeKey, Takes, AtRest
  <2>2. \A m \in Nodes \ {n} : con'[m] = con[m]
    BY <1>0, <1>5 DEF DistributeKey
  <2> QED
    BY <2>1, <2>2, ProceedStep, NotAtRestPends
<1>6. CASE ControllerKey
  <2>1. ~AtRest /\ ~AtRest' /\ UNCHANGED <<con, volumes>>
    BY <1>6 DEF ControllerKey, Goes, AtRest
  <2> QED
    BY <2>1, ProceedStep, NotAtRestPends DEF Env!EnvironmentNext
<1>7. CASE WriteHosts
  BY <1>7, DeliverStep, NothingToDeliver DEF Env!EnvironmentNext
<1>8. CASE DownEnds
  BY <1>1, <1>8, ClearStep DEF DownEnds, DownRuns, Env!EnvironmentNext
<1>9. ASSUME NEW n \in Nodes, Exit(n) PROVE Env!Withdraw
  <2>0. at # "down"
    BY <1>9 DEF Exit, DownLeft, Left, Running
  <2>1. ~AtRest' /\ UNCHANGED <<ctl, volumes>> /\ con' = [con EXCEPT ![n].address = None]
    BY <1>9, <2>0 DEF Exit, AtRest
  <2>2. con \in [Nodes -> Container \cup {None}] /\ con[n] \in Container
    BY <1>9 DEF Exit, Running, IInv, TypeOK, HostOK
  <2>3. /\ con'[n] \in Container /\ con'[n].spec = con[n].spec /\ con'[n].address = None
        /\ \A m \in Nodes \ {n} : con'[m] = con[m]
    BY <2>1, <2>2 DEF Container
  <2>4. There' = There
    BY <2>1, <2>2, <2>3, NoneIsNothingElse DEF There, Left
  <2>5. Reached' \subseteq Reached
    BY <2>1, <2>3 DEF Reached, Answers, Running
  <2> QED
    BY <2>1, <2>4, <2>5, WithdrawStep, NotAtRestPends
<1>10. CASE Reboot
  BY <1>10, RebootStep DEF Env!EnvironmentNext
<1>11. CASE Edit \/ UNCHANGED vars
  <2>1. UNCHANGED <<con, ctl, volumes, gen, at>>
    BY <1>11 DEF Edit, vars, files, host
  <2> QED
    BY <2>1, SameEnvironment, SamePromise
<1> QED
  BY <1>2, <1>3, <1>4, <1>5, <1>6, <1>7, <1>8, <1>9, <1>10, <1>11 DEF Next, UpStep, Env!EnvironmentNext

LEMMA InitEnvironment == Init => Env!EnvironmentInit
<1> SUFFICES ASSUME Init PROVE Env!EnvironmentInit
  OBVIOUS
<1>1. There = {} /\ Reached = {}
  BY DEF Init, There, Left, Reached
<1> QED
  BY <1>1 DEF Init, Promise, Env!EnvironmentInit, Env!Gone

\* For any topologies, addresses and number of runs: what up.sh and down.sh
\* promise by ending well is there as a whole, and is taken back before a
\* container of it is touched.
THEOREM EnvironmentImplemented == Spec => ImplementsEnvironment
<1>1. Init => StoreInv
  BY DEF Init, StoreInv
<1>2. IInv /\ IInv' /\ DownLeft /\ StoreInv /\ [Next]_vars
        => [Env!EnvironmentNext]_Env!environment
  BY EnvironmentStep DEF Env!environment
<1> QED
  BY <1>1, <1>2, InitEstablishes, StepKeeps, DownLeftAlways, StepKeepsStore, InitEnvironment, PTL
     DEF Spec, ImplementsEnvironment, Env!EnvironmentSpec
===============================================================================
