------------------------------ MODULE Inventory ------------------------------
(***************************************************************************)
(* The controller's observations and the central inventory, as demo.sh     *)
(* uses them.  /work/results holds one result file per observed node; the  *)
(* inventory (Postgres) is append-only: an ingest adds a snapshot of a     *)
(* node only where the content changed, so the id of a snapshot is its     *)
(* place in the sequence.                                                  *)
(*                                                                         *)
(* pqcota-ingest and the collectors live in other repositories and are     *)
(* modelled from their use; the queries are the SQL of demo.sh.            *)
(***************************************************************************)
EXTENDS Naturals, Sequences, FiniteSetsExt

CONSTANTS
  NodeSeq,     \* the node ids in their sort order
  Finding,     \* what there is to observe; see FindingType
  NoNode, NoFinding

Node == {NodeSeq[i] : i \in DOMAIN NodeSeq}

(***************************************************************************)
(* A finding: the node it is on, its library, how many apps load it, is it *)
(* OpenSSL 3.0-3.4 (the band a provider can be injected in), and is it     *)
(* noise, loaded only by sshd or a python runtime.                         *)
(***************************************************************************)
FindingType ==
  [id : Nat, node : Node, lib : {"libssl3", "openssl", "jca"},
   apps : Nat, band : BOOLEAN, noise : BOOLEAN]

ASSUME InventoryAssumption ==
  /\ NodeSeq \in Seq(Node) /\ IsFiniteSet(Finding)
  /\ \A i, j \in DOMAIN NodeSeq : NodeSeq[i] = NodeSeq[j] => i = j
  /\ Finding \subseteq FindingType
  /\ \A f, g \in Finding : f.id = g.id => f = g
  /\ NoNode \notin Node /\ NoFinding \notin Finding

VARIABLES
  results,     \* result files: a function on the nodes that have one
  snapshots    \* [node, content], by snapshot id

Openssl(f) == f.lib # "jca"
FindingsOf(n) == {f \in Finding : f.node = n}
SnapshotIds == DOMAIN snapshots

(* The values of the variables. *)
InventoryTypeOK ==
  /\ DOMAIN results \subseteq Node
  /\ \A n \in DOMAIN results : results[n] \subseteq FindingsOf(n)
  /\ \A i \in SnapshotIds :
       /\ snapshots[i].node \in Node
       /\ snapshots[i].content \subseteq FindingsOf(snapshots[i].node)

InventoryInit == results = << >> /\ snapshots = << >>

-------------------------------------------------------------------------------
(* Discovery and ingest. *)

(* discover.yml runs the collectors on the hosts and fetches their results. *)
Discover(hosts) ==
  results' = [n \in DOMAIN results \cup hosts |->
                IF n \in hosts THEN FindingsOf(n) ELSE results[n]]

SnapshotsOf(n) == {i \in SnapshotIds : snapshots[i].node = n}

(* order by seq desc limit 1; 0 is the empty answer *)
Newest(n) == IF SnapshotsOf(n) = {} THEN 0 ELSE Max(SnapshotsOf(n))

(* -scope-assets drops the noise; what was dropped counts as not managed. *)
Scoped(findings) == {f \in findings : ~f.noise}
ScopedResults == [n \in DOMAIN results |-> Scoped(results[n])]

(* A snapshot is made of what differs from the newest one. *)
Changed(n, kept) == Newest(n) = 0 \/ snapshots[Newest(n)].content # kept

Rank(n) == CHOOSE i \in DOMAIN NodeSeq : NodeSeq[i] = n

(* A set of nodes in the order of their ids: there is one such sequence. *)
InOrder(nodes) ==
  {s \in [1 .. Cardinality(nodes) -> nodes] :
     \A i, j \in DOMAIN s : i < j => Rank(s[i]) < Rank(s[j])}

(* Result files are read in their sort order. *)
Ingest(kept) ==
  \E new \in InOrder({n \in DOMAIN kept : Changed(n, kept[n])}) :
    snapshots' = snapshots \o [i \in DOMAIN new |-> [node |-> new[i], content |-> kept[new[i]]]]

-------------------------------------------------------------------------------
(* The queries. *)

History == UNION {snapshots[i].content : i \in SnapshotIds}

(* order by the number of apps desc, then by node, then by id *)
Before(f, g) ==
  \/ f.apps > g.apps
  \/ f.apps = g.apps /\ Rank(f.node) < Rank(g.node)
  \/ f.apps = g.apps /\ f.node = g.node /\ f.id <= g.id

FirstOf(S) == CHOOSE f \in S : \A g \in S : Before(f, g)

(* Variant: the newest snapshots only. *)
ServiceNodeNow ==
  LET found == {f \in UNION {snapshots[Newest(n)].content : n \in
                   {snapshots[i].node : i \in SnapshotIds}} : Openssl(f)}
  IN  IF found = {} THEN NoNode ELSE FirstOf(found).node

(* PNODE: a node of which any snapshot, however old, has an openssl finding. *)
ServiceNode ==
  LET found == {f \in History : Openssl(f)}
  IN  IF found = {} THEN NoNode ELSE FirstOf(found).node

(* FID: a shared libssl.so.3, else anything shared, else any openssl finding *)
(* of the node's newest snapshot. *)
ServiceFinding(n) ==
  LET content == snapshots[Newest(n)].content
      sharedSsl == {f \in content : f.lib = "libssl3" /\ f.apps >= 2}
      shared == {f \in content : f.apps >= 2}
      any == {f \in content : Openssl(f)}
  IN  CASE sharedSsl # {} -> FirstOf(sharedSsl)
        [] sharedSsl = {} /\ shared # {} -> FirstOf(shared)
        [] sharedSsl = {} /\ shared = {} /\ any # {} -> FirstOf(any)
        [] OTHER -> NoFinding

InBand(i) == {f \in snapshots[i].content : Openssl(f) /\ f.band}
BandSnapshots == {i \in SnapshotIds : InBand(i) # {}}

(* RNODE and RFID: from the newest snapshot that has such a finding. *)
BandNode ==
  IF BandSnapshots = {} THEN NoNode ELSE snapshots[Max(BandSnapshots)].node

BandFinding(n) ==
  LET found == InBand(Max(BandSnapshots \cap SnapshotsOf(n)))
  IN  CHOOSE f \in found : \A g \in found : f.id <= g.id
===============================================================================
