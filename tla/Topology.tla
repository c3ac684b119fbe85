------------------------------ MODULE Topology ------------------------------
(***************************************************************************)
(* What topogen makes of a topology (demo/topology/topogen/main.go) and    *)
(* what the containers make of topogen's files.  A topology is a record    *)
(* [networks, nodes, edges] of sequences; "" and 0 stand for a field the   *)
(* YAML leaves out, as they do in the Go structs.  The texts of the files  *)
(* are abstracted to the values a reader of the file gets back.            *)
(***************************************************************************)
EXTENDS Integers, Sequences, SequencesExt

CONSTANT GoodIds  \* the strings idRe accepts

TopologyType ==
  [networks : Seq(STRING),
   nodes : Seq([id : STRING, kind : STRING, fork : STRING, version : STRING, role : STRING,
                apps : Seq(STRING), networks : Seq(STRING)]),
   edges : Seq([from : STRING, to : STRING, proto : STRING, port : Int])]

OpensslVersions == {"1.1.1", "3.0", "3", "3.x"}
ForkTarget      == [openssl |-> "node-openssl", libressl |-> "node-libressl"]

Default(text, absent) == IF text = "" THEN absent ELSE text

ForkName(n)    == Default(n.fork, "openssl")
Version(n)     == Default(n.version, "3")
RoleName(n)    == Default(n.role, "client")

NodeIds(s) == {s.nodes[i].id : i \in DOMAIN s.nodes}

(***************************************************************************)
(* Validate: a fork topogen has no image for and one it names as           *)
(* unsupported are refused alike.  Networks are compared with the declared *)
(* ones only when some are declared.                                       *)
(***************************************************************************)
KindSupported(n) ==
  \/ n.kind = "java"
  \/ /\ n.kind = "openssl"
     /\ ForkName(n) \in DOMAIN ForkTarget
     /\ ForkName(n) = "openssl" => Version(n) \in OpensslVersions
     /\ RoleName(n) \in {"client", "server"}

NetworksDeclared(s, n) == s.networks # <<>> => ToSet(n.networks) \subseteq ToSet(s.networks)

AcceptedTwice(s) ==
  /\ s.nodes # <<>>
  /\ \A i \in DOMAIN s.nodes :
        s.nodes[i].id \in GoodIds /\ KindSupported(s.nodes[i]) /\ NetworksDeclared(s, s.nodes[i])
  /\ \A e \in ToSet(s.edges) :
        /\ {e.from, e.to} \subseteq NodeIds(s)
        /\ e.proto \in {"pqc", "ssl", "ssh"}

Accepted(s) ==
  /\ s.nodes # <<>>
  /\ \A i \in DOMAIN s.nodes :
        /\ s.nodes[i].id \in GoodIds
        /\ \A j \in 1 .. i - 1 : s.nodes[j].id # s.nodes[i].id
        /\ KindSupported(s.nodes[i])
        /\ NetworksDeclared(s, s.nodes[i])
  /\ \A e \in ToSet(s.edges) :
        /\ {e.from, e.to} \subseteq NodeIds(s)
        /\ e.proto \in {"pqc", "ssl", "ssh"}

(***************************************************************************)
(* The environment of a node's container, and its service.                 *)
(***************************************************************************)
IsTarget(s, id, proto) == \E e \in ToSet(s.edges) : e.to = id /\ e.proto = proto

NodeEnv(s, n) ==
  [java |-> n.kind = "java",
   pqc  |-> IsTarget(s, n.id, "pqc"),
   apps |-> IF IsTarget(s, n.id, "ssl") \/ (n.kind = "openssl" /\ RoleName(n) = "server")
            THEN IF n.apps = <<>> THEN <<n.id>> ELSE n.apps
            ELSE <<>>]

Networks(s)       == IF s.networks = <<>> THEN <<"pqcota-demo">> ELSE s.networks
NodeNetworks(s, n) == IF n.networks = <<>> THEN Networks(s) ELSE n.networks

Service(s, n) ==
  [name     |-> n.id,
   target   |-> IF n.kind = "openssl" THEN ForkTarget[ForkName(n)] ELSE "node-java",
   env      |-> NodeEnv(s, n),
   networks |-> NodeNetworks(s, n)]

ToolService(s, name) ==
  [name |-> name, target |-> name, env |-> [java |-> FALSE, pqc |-> FALSE, apps |-> <<>>],
   networks |-> Networks(s)]

Compose(s) ==
  [networks |-> ToSet(Networks(s)),
   services |-> <<ToolService(s, "pqcota-ctl"), ToolService(s, "pqcota-demo-pg")>>
                \o [i \in DOMAIN s.nodes |-> Service(s, s.nodes[i])]]

(***************************************************************************)
(* The traffic of groups.ini and the edge count of manifest.env.           *)
(***************************************************************************)
PortOf(e) == IF e.port # 0 THEN e.port ELSE IF e.proto = "ssh" THEN 22 ELSE 4433

(* A node's targets, by the places of their edges in the topology. *)
TrafficOf(s, id) ==
  [i \in {j \in DOMAIN s.edges : s.edges[j].from = id} |->
     [proto |-> s.edges[i].proto, to |-> s.edges[i].to, port |-> PortOf(s.edges[i])]]

EdgeCountOfPairs(s) == Cardinality({<<e.from, e.to>> : e \in ToSet(s.edges)})
EdgeCount(s) == Len(s.edges)

Files(s) ==
  [compose   |-> Compose(s),
   traffic   |-> [id \in NodeIds(s) |-> TrafficOf(s, id)],
   edgeCount |-> EdgeCount(s)]

(***************************************************************************)
(* docker compose: a service name is a key, and a service may join only    *)
(* the networks of the file.                                               *)
(***************************************************************************)
Startable(c) ==
  /\ \A i, j \in DOMAIN c.services : c.services[i].name = c.services[j].name => i = j
  /\ \A i \in DOMAIN c.services : ToSet(c.services[i].networks) \subseteq c.networks

(***************************************************************************)
(* node-entrypoint.sh: sshd, the PQC server, one classical server per app  *)
(* on the ports from 4433 up.  A classical client is `openssl`, which a    *)
(* LibreSSL node has under another name.                                   *)
(***************************************************************************)
Listening(env) ==
  {22} \cup (IF env.pqc THEN {8443} ELSE {})
       \cup {4432 + i : i \in 1 .. Len(env.apps)}

HasClient(service, proto) == proto = "ssl" => service.target # "node-libressl"
=============================================================================
