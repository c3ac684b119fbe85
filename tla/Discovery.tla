----------------------------- MODULE Discovery -----------------------------
(***************************************************************************)
(* From a topology to observed edges: topogen, docker compose, the         *)
(* observation each node makes of its own traffic (pqcota-observe.sh and   *)
(* pqcota-gen-traffic.sh) and the loop of demo.sh that collects again      *)
(* until enough edges are there.  Clocks count seconds from the start of a *)
(* node's observation; the nodes observe at the same time.  What netcap,   *)
(* the names' resolution and discover.yml do is taken from their use here. *)
(***************************************************************************)
EXTENDS Topology, FiniteSetsExt

CONSTANTS Topologies,   \* what a user may write
          Window,       \* seconds netcap listens (groups.ini: window=16)
          Timeout,      \* seconds a dead target may hold the traffic up
          LatestBind,   \* bound: seconds netcap may need before it hears
          MaxAttempts   \* DEMO_MAX_ATTEMPTS

ASSUME WindowFitsARound == Window \in Nat /\ Window > 4
ASSUME TopologiesAreDecoded == \A s \in Topologies : s \in TopologyType
ASSUME BoundsAreNumbers == Timeout \in Nat \ {0} /\ LatestBind \in Nat /\ MaxAttempts \in Nat \ {0}

VARIABLES topology, stage, files, attempt,
          phase,    \* of each node's observation
          clock, bound, left, caught,
          results   \* the *-net.json files on the controller

vars == <<topology, stage, files, attempt, phase, clock, bound, left, caught, results>>

None == [compose |-> [networks |-> {}, services |-> <<>>],
         traffic |-> <<>>, edgeCount |-> 0]

Observers == DOMAIN files.traffic
ServiceOf(n) == LET c == files.compose.services
                IN  c[CHOOSE i \in DOMAIN c : c[i].name = n]

(***************************************************************************)
(* The networks a handshake may go over: any that both ends are on.  The   *)
(* target's name resolves to an address on one of them; netcap hears only  *)
(* the source's first.  A node reaches itself over none of them.           *)
(***************************************************************************)
Routes(n, m) ==
  IF n = m THEN {} ELSE ToSet(ServiceOf(n).networks) \cap ToSet(ServiceOf(m).networks)
First(n) == Head(ServiceOf(n).networks)

Live(n, x) == /\ Routes(n, x.to) # {}
              /\ x.port \in Listening(ServiceOf(x.to).env)
              /\ HasClient(ServiceOf(n), x.proto)

Key(x) == <<x.to, x.port>>

(* The lines of the result files: a file has a line for each edge. *)
Observations == UNION {{n} \X results[n] : n \in Observers}
ObservedEdges == Cardinality(Observations)

(***************************************************************************)
(* Actions.                                                                *)
(***************************************************************************)
Init ==
  /\ topology \in Topologies
  /\ stage = "written"
  /\ files = None
  /\ attempt = 0
  /\ phase = <<>> /\ clock = <<>> /\ bound = <<>> /\ left = <<>> /\ caught = <<>>
  /\ results = <<>>

Generate ==
  /\ stage = "written"
  /\ IF Accepted(topology)
     THEN stage' = "generated" /\ files' = Files(topology)
     ELSE stage' = "rejected" /\ files' = files
  /\ UNCHANGED <<topology, attempt, phase, clock, bound, left, caught, results>>

\* A run of discover.yml over all nodes.
StartObservations ==
  /\ phase'  = [n \in Observers |-> "binding"]
  /\ clock'  = [n \in Observers |-> 0]
  /\ bound'  = [n \in Observers |-> 0]
  /\ left'   = [n \in Observers |-> {}]
  /\ caught' = [n \in Observers |-> {}]

Up ==
  /\ stage = "generated"
  /\ IF Startable(files.compose)
     THEN /\ stage' = "observing"
          /\ attempt' = 1
          /\ results' = [n \in Observers |-> {}]
          /\ StartObservations
     ELSE stage' = "failed" /\ UNCHANGED <<attempt, phase, clock, bound, left, caught, results>>
  /\ UNCHANGED <<topology, files>>

\* netcap starts in the background, sleep 2: when it hears is its own affair.
EndOfTraffic == 2 + Window - 3

Begin(n) ==
  /\ phase[n] = "binding"
  /\ \E b \in 0 .. LatestBind : bound' = [bound EXCEPT ![n] = b]
  /\ clock' = [clock EXCEPT ![n] = 2]
  /\ left'  = [left EXCEPT ![n] = DOMAIN files.traffic[n]]
  /\ phase' = [phase EXCEPT ![n] = IF DOMAIN files.traffic[n] # {} THEN "traffic" ELSE "waiting"]
  /\ UNCHANGED <<topology, stage, files, attempt, caught, results>>

\* gen_one: whatever becomes of it, the next target is tried after it.
Try(n) ==
  /\ phase[n] = "traffic"
  /\ left[n] # {}
  /\ LET x == files.traffic[n][Min(left[n])] IN
     \/ /\ Live(n, x)
        /\ \E cost \in 0 .. 1 : clock' = [clock EXCEPT ![n] = @ + cost]
        /\ \E r \in Routes(n, x.to) :
             caught' = IF r = First(n) /\ bound[n] <= clock[n] /\ clock[n] < Window
                       THEN [caught EXCEPT ![n] = @ \cup {Key(x)}]
                       ELSE caught
     \/ /\ ~Live(n, x)
        /\ \E cost \in 0 .. Timeout : clock' = [clock EXCEPT ![n] = @ + cost]
        /\ UNCHANGED caught
  /\ left' = [left EXCEPT ![n] = @ \ {Min(@)}]
  /\ UNCHANGED <<topology, stage, files, attempt, phase, bound, results>>

\* The sleep that ends a round, and the loop's test; before it, the variant that
\* visits the targets once.
EndRoundOnce(n) ==
  /\ phase[n] = "traffic"
  /\ left[n] = {}
  /\ clock' = [clock EXCEPT ![n] = @ + 1]
  /\ phase' = [phase EXCEPT ![n] = "waiting"]
  /\ UNCHANGED <<topology, stage, files, attempt, bound, left, caught, results>>

EndRound(n) ==
  /\ phase[n] = "traffic"
  /\ left[n] = {}
  /\ clock' = [clock EXCEPT ![n] = @ + 1]
  /\ IF clock[n] + 1 < EndOfTraffic
     THEN left' = [left EXCEPT ![n] = DOMAIN files.traffic[n]] /\ UNCHANGED phase
     ELSE phase' = [phase EXCEPT ![n] = "waiting"] /\ UNCHANGED left
  /\ UNCHANGED <<topology, stage, files, attempt, bound, caught, results>>

\* wait for netcap, hand its output over.
Finish(n) ==
  /\ phase[n] = "waiting"
  /\ phase' = [phase EXCEPT ![n] = "done"]
  /\ results' = [results EXCEPT ![n] = caught[n]]
  /\ UNCHANGED <<topology, stage, files, attempt, clock, bound, left, caught>>

\* demo.sh counts, and collects again or goes on.
CountForEver ==
  /\ stage = "observing"
  /\ \A n \in Observers : phase[n] = "done"
  /\ \/ ObservedEdges >= files.edgeCount /\ stage' = "enough"
        /\ UNCHANGED <<attempt, phase, clock, bound, left, caught>>
     \/ ObservedEdges < files.edgeCount /\ StartObservations
        /\ UNCHANGED <<stage, attempt>>
  /\ UNCHANGED <<topology, files, results>>

Count ==
  /\ stage = "observing"
  /\ \A n \in Observers : phase[n] = "done"
  /\ \/ /\ ObservedEdges >= files.edgeCount
        /\ stage' = "enough"
        /\ UNCHANGED <<attempt, phase, clock, bound, left, caught>>
     \/ /\ ObservedEdges < files.edgeCount
        /\ attempt < MaxAttempts
        /\ attempt' = attempt + 1
        /\ StartObservations
        /\ UNCHANGED stage
     \/ /\ ObservedEdges < files.edgeCount
        /\ attempt = MaxAttempts
        /\ stage' = "goneOn"
        /\ UNCHANGED <<attempt, phase, clock, bound, left, caught>>
  /\ UNCHANGED <<topology, files, results>>

Stopped == {"rejected", "failed", "enough", "goneOn"}

Next ==
  \/ Generate
  \/ Up
  \/ \E n \in DOMAIN phase : Begin(n) \/ Try(n) \/ EndRound(n) \/ Finish(n)
  \/ Count

Spec     == Init /\ [][Next]_vars
\* The scripts run: each step is the next command of a process nobody stops.
FairSpec == Spec /\ WF_vars(Next)

(***************************************************************************)
(* Properties.                                                             *)
(***************************************************************************)

\* Every variable holds values of its kind, and a clock never runs past the
\* last round by more than a round of dead targets: the traffic loop of
\* pqcota-observe.sh and the retry loop of demo.sh are bounded.
TypeOK ==
  /\ topology \in Topologies
  /\ stage \in {"written", "generated", "observing"} \cup Stopped
  /\ attempt \in 0 .. MaxAttempts
  /\ stage \in {"written", "rejected"} <=> files.compose.services = <<>>
  /\ stage \in {"observing", "enough", "goneOn"} =>
       \A n \in Observers :
          /\ phase[n] \in {"binding", "traffic", "waiting", "done"}
          /\ clock[n] \in 0 .. EndOfTraffic + Timeout * Cardinality(DOMAIN files.traffic[n])
          /\ bound[n] \in 0 .. LatestBind
          /\ caught[n] \subseteq {Key(x) : x \in Range(files.traffic[n])}
          /\ results[n] \subseteq {Key(x) : x \in Range(files.traffic[n])}

Declared == {<<e.from, <<e.to, PortOf(e)>>>> : e \in ToSet(topology.edges)}
AllObserved == Declared \subseteq Observations
EdgesDiffer == Cardinality(Declared) = Len(topology.edges)

\* demo.sh compares a number of lines with a number of edges, never the edges
\* themselves.  Yet when it stops collecting because there are enough, every
\* declared edge is among the results, each at its own source; and when it
\* goes on with too few, one is missing, unless the topology names an edge
\* twice (the count is then out of reach).
CountIsHonest ==
  /\ stage = "enough" => AllObserved
  /\ stage = "goneOn" /\ EdgesDiffer => ~AllObserved

\* The longest that trying some targets of node n, or a round of them all, takes.
LiveAt(n) == {i \in DOMAIN files.traffic[n] : Live(n, files.traffic[n][i])}
Longest(n, places) ==
  Cardinality(places \cap LiveAt(n)) + Timeout * Cardinality(places \ LiveAt(n))
RoundMax(n) == 1 + Longest(n, DOMAIN files.traffic[n])
OnFirstOnly(n, x) == Live(n, x) /\ Routes(n, x.to) = {First(n)}

\* pqcota-observe.sh sleeps two seconds and hopes that netcap hears by then.
\* What really absorbs the race is that the rounds repeat: as long as netcap
\* hears two rounds before the window ends, no edge that only the first
\* network can carry is missed, whatever each handshake takes and however
\* many targets are dead.
BindDelayIsAbsorbed ==
  stage = "observing" =>
    \A n \in Observers :
       phase[n] = "done" /\ bound[n] <= Window + 1 - 2 * RoundMax(n) =>
         \A x \in Range(files.traffic[n]) : OnFirstOnly(n, x) => Key(x) \in results[n]

\* A compose file does not start if it names a service twice or a network it
\* does not declare.  Validate and the derived defaults see to that for every
\* topology it lets through, but for two holes: nodes with networks of their
\* own when the topology declares none, and a node with the name of one of
\* the demo's own containers.
OnlyTwoHolesFail ==
  stage = "failed" =>
    \/ topology.networks = <<>> /\ \E n \in ToSet(topology.nodes) : n.networks # <<>>
    \/ NodeIds(topology) \cap {"pqcota-ctl", "pqcota-demo-pg"} # {}

\* Generation, start-up and collection come to an end for every topology:
\* no topology keeps demo.sh collecting, one whose edges can never be counted
\* included.
DiscoveryEnds == <>(stage \in Stopped)

(***************************************************************************)
(* What the documentation says of this part, which the code does not do.   *)
(***************************************************************************)

\* demo/topology/README.md: the target of an edge gets the server of its
\* protocol and the source generates traffic toward it, so the traffic of
\* every edge goes to a port its target listens on.
EveryEdgeMeetsAServer ==
  stage = "observing" =>
    \A n \in Observers : \A x \in Range(files.traffic[n]) :
       x.port \in Listening(ServiceOf(x.to).env)
=============================================================================
