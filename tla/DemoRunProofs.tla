---------------------------- MODULE DemoRunProofs ----------------------------
(***************************************************************************)
(* The controller's scripts, run in any order, on any topologies and any   *)
(* findings, and broken off anywhere: what they leave on the nodes, and    *)
(* which provider is there when it is measured.                            *)
(***************************************************************************)
EXTENDS DemoRun, NumberFacts, SequenceTheorems, TLAPS

NodeState == [mod : {"none", "empty", "real"}, conf : {"absent", "groups", "module"},
              active : BOOLEAN]
ShellVars == {"pre", "post", "node", "finding", "snap", "key", "looksAt", "capable"}

Shape ==
  /\ hosts \subseteq Node
  /\ node \in [Node -> NodeState]
  /\ module \in {"none", "empty", "real"}
  /\ DOMAIN plan = {"demo", "real"}
  /\ DOMAIN plan["real"] = {"node", "finding", "snap", "key"}
  /\ DOMAIN book = Playbooks
  /\ run \in {"off", "running", "aborted", "failed", "done"}
  /\ script \in Scripts
  /\ at \in 1 .. Last
  /\ DOMAIN sh = ShellVars

(* All playbooks but the first are generated once the first has reached its *)
(* node.                                                                    *)
BookInv == \A b \in Playbooks \ {"L2"} : book[b].target \in hosts \cup {NoNode}

Left(n) == node[n] # Clean

(* Between two runs. *)
IdleInv == run # "running" => \A n \in Node : Left(n) => n \in residue

(* Stage 6/6, with or without the real stage after it, by the next step. *)
DemoInv ==
  run = "running" /\ script \in {"demo", "real"} =>
    /\ \A n \in Node : Left(n) => n \in residue \/ n = sh.node
    /\ at <= 7 => sh.node = NoNode
    /\ at \in 14 .. 15 => sh.node \in Node /\ node[sh.node].mod = "none"

RealInv ==
  run = "running" /\ script = "real" =>
    /\ at = 16 => \A n \in Node : Left(n) => n \in residue /\ n # sh.node
    /\ at \in 18 .. 24 => module = "real"
    /\ at >= 19 => plan["real"].node = sh.node
    /\ at = 21 => book["L2"].target = sh.node
    /\ at = 23 => book["L3"].target = sh.node
    /\ at = 29 => book["L3Undo"].target = sh.node
    /\ at = 31 => book["L2Undo"].target = sh.node
    /\ at >= 22 => sh.node \in hosts
    /\ at = 24 => Capable(sh.node)
    /\ at = 25 => sh.capable
    /\ at >= 30 => node[sh.node] = Clean

TakeInv ==
  run = "running" /\ script = "take" =>
    /\ \A n \in Node : Left(n) => n \in residue \/ (at >= 3 /\ n \in Targets)
    /\ at = 7 /\ OneTarget => \A n \in Targets : ~Left(n)

RunInv == Shape /\ BookInv /\ IdleInv /\ DemoInv /\ RealInv /\ TakeInv

-------------------------------------------------------------------------------
(* The inventory. *)
Snapshot == [node : Node, content : SUBSET Finding]

(* What is known of a node: findings of it, and all that are to be managed. *)
Observes(content, n) == content \subseteq FindingsOf(n) /\ Scoped(FindingsOf(n)) \subseteq content

(* The values of the inventory and of the results, and of the approvals' key. *)
InvType ==
  /\ snapshots \in Seq(Snapshot)
  /\ \A i \in SnapshotIds : Observes(snapshots[i].content, snapshots[i].node)
  /\ DOMAIN results \subseteq Node
  /\ \A n \in DOMAIN results : Observes(results[n], n)
  /\ profile \in Nat

(* The newest snapshots show these results. *)
Recorded(kept) == \A n \in DOMAIN kept : ~Changed(n, kept[n])

LEMMA GreatestOf ==
  ASSUME NEW S, S \subseteq Nat, S # {}, NEW b \in Nat, \A i \in S : i <= b
  PROVE  Max(S) \in S /\ \A j \in S : Max(S) >= j
BY GreatestNumber DEF Max

(* Node ids have their places in the sort order. *)
LEMMA RankOf ==
  /\ Len(NodeSeq) \in Nat /\ DOMAIN NodeSeq = 1 .. Len(NodeSeq)
  /\ \A n \in Node : Rank(n) \in DOMAIN NodeSeq /\ NodeSeq[Rank(n)] = n
<1>1. Len(NodeSeq) \in Nat /\ DOMAIN NodeSeq = 1 .. Len(NodeSeq)
  BY InventoryAssumption
<1>2. ASSUME NEW n \in Node PROVE Rank(n) \in DOMAIN NodeSeq /\ NodeSeq[Rank(n)] = n
  <2>1. \E i \in DOMAIN NodeSeq : NodeSeq[i] = n
    BY DEF Node
  <2> QED
    BY <2>1 DEF Rank
<1> QED
  BY <1>1, <1>2

LEMMA NodesAreFinite == IsFiniteSet(Node)
<1>1. IsFiniteSet(1 .. Len(NodeSeq))
  BY RankOf, FS_Interval
<1>2. NodeSeq \in Surjection(1 .. Len(NodeSeq), Node)
  BY RankOf, InventoryAssumption DEF Surjection, Node
<1> QED
  BY <1>1, <1>2, FS_Surjection

(* One in a set that comes before all others, by the order of the queries. *)
LEMMA BeforeOrders ==
  /\ \A f, g \in Finding : Before(f, g) \/ Before(g, f)
  /\ \A f, g, h \in Finding : Before(f, g) /\ Before(g, h) => Before(f, h)
<1>1. \A f \in Finding : f.node \in Node /\ f.apps \in Nat /\ f.id \in Nat
  BY InventoryAssumption DEF FindingType
<1>2. \A f \in Finding : Rank(f.node) \in Nat /\ NodeSeq[Rank(f.node)] = f.node
  BY <1>1, RankOf
<1>3. \A f, g \in Finding : Rank(f.node) = Rank(g.node) => f.node = g.node
  BY <1>2
<1>4. ASSUME NEW f \in Finding, NEW g \in Finding PROVE Before(f, g) \/ Before(g, f)
  BY <1>1, <1>2, <1>3 DEF Before
<1>5. ASSUME NEW f \in Finding, NEW g \in Finding, NEW h \in Finding, Before(f, g), Before(g, h)
      PROVE  Before(f, h)
  BY <1>1, <1>2, <1>3, <1>5 DEF Before
<1> QED
  BY <1>4, <1>5

LEMMA FirstIsThere ==
  ASSUME NEW S, S \subseteq Finding, S # {}
  PROVE  FirstOf(S) \in S
<1> DEFINE Ahead(f) == {g \in S : Before(g, f)}
           Counts == {Cardinality(Ahead(f)) : f \in S}
<1>1. IsFiniteSet(S)
  BY InventoryAssumption, FS_Subset
<1>2. \A f \in S : IsFiniteSet(Ahead(f)) /\ Cardinality(Ahead(f)) \in Nat
  <2> SUFFICES ASSUME NEW f \in S PROVE IsFiniteSet(Ahead(f)) /\ Cardinality(Ahead(f)) \in Nat
    OBVIOUS
  <2>1. Ahead(f) \in SUBSET S
    OBVIOUS
  <2> HIDE DEF Ahead
  <2> QED
    BY <1>1, <2>1, FS_Subset, FS_CardinalityType
<1>3. PICK c \in Counts : \A d \in Counts : c <= d
  <2>1. Counts # {} /\ Counts \subseteq Nat
    BY <1>2
  <2> HIDE DEF Counts
  <2> QED
    BY <2>1, LeastNumber
<1>4. PICK f \in S : c = Cardinality(Ahead(f))
  OBVIOUS
<1>5. ASSUME NEW g \in S, ~Before(f, g) PROVE FALSE
  <2>1. f \in Finding /\ g \in Finding /\ Before(g, f)
    BY <1>5, BeforeOrders
  <2>2. Before(f, f)
    BY <2>1, BeforeOrders
  <2>3. Ahead(g) \in SUBSET Ahead(f) /\ f \in Ahead(f) /\ f \notin Ahead(g)
    BY <1>5, <2>1, <2>2, BeforeOrders
  <2>4. Cardinality(Ahead(g)) \in Counts
    OBVIOUS
  <2> HIDE DEF Ahead, Counts
  <2>5. Cardinality(Ahead(g)) <= Cardinality(Ahead(f)) /\ Cardinality(Ahead(g)) # Cardinality(Ahead(f))
    BY <1>2, <2>3, FS_Subset
  <2> QED
    BY <1>2, <1>3, <1>4, <2>4, <2>5
<1> QED
  BY <1>5 DEF FirstOf

-------------------------------------------------------------------------------
(* The newest snapshot. *)
LEMMA NewestIs ==
  ASSUME InvType, NEW n
  PROVE  /\ Newest(n) = 0 <=> SnapshotsOf(n) = {}
         /\ Newest(n) # 0 => /\ Newest(n) \in SnapshotIds /\ snapshots[Newest(n)].node = n
                             /\ \A i \in SnapshotsOf(n) : i <= Newest(n)
<1>1. Len(snapshots) \in Nat /\ SnapshotIds = 1 .. Len(snapshots)
  BY DEF InvType, SnapshotIds
<1>2. SnapshotsOf(n) \subseteq Nat /\ \A i \in SnapshotsOf(n) : i <= Len(snapshots) /\ i # 0
  BY <1>1 DEF SnapshotsOf
<1>3. SnapshotsOf(n) # {} =>
        Max(SnapshotsOf(n)) \in SnapshotsOf(n) /\ \A j \in SnapshotsOf(n) : Max(SnapshotsOf(n)) >= j
  BY <1>1, <1>2, GreatestOf
<1>4. Newest(n) = IF SnapshotsOf(n) = {} THEN 0 ELSE Max(SnapshotsOf(n))
  BY DEF Newest
<1>5. \A i \in SnapshotsOf(n) : i \in SnapshotIds /\ snapshots[i].node = n
  BY DEF SnapshotsOf
<1> QED
  BY <1>1, <1>2, <1>3, <1>4, <1>5

(* A set of nodes in their order is each of its nodes once. *)
LEMMA InOrderIsOnto ==
  ASSUME NEW nodes, nodes \subseteq Node, NEW s \in InOrder(nodes)
  PROVE  /\ Cardinality(nodes) \in Nat /\ s \in [1 .. Cardinality(nodes) -> nodes]
         /\ \A i, j \in 1 .. Cardinality(nodes) : s[i] = s[j] => i = j
         /\ \A n \in nodes : \E i \in 1 .. Cardinality(nodes) : s[i] = n
<1> DEFINE m == Cardinality(nodes)
<1>1. IsFiniteSet(nodes) /\ m \in Nat
  BY NodesAreFinite, FS_Subset, FS_CardinalityType
<1>2. s \in [1 .. m -> nodes] /\ \A i, j \in 1 .. m : i < j => Rank(s[i]) < Rank(s[j])
  BY DEF InOrder
<1>3. ASSUME NEW i \in 1 .. m, NEW j \in 1 .. m, s[i] = s[j] PROVE i = j
  <2>1. Rank(s[i]) \in Nat /\ Rank(s[j]) \in Nat /\ Rank(s[i]) = Rank(s[j])
    <3>1. s[i] \in Node /\ s[j] \in Node
      BY <1>2
    <3> QED
      BY <1>3, <3>1, RankOf
  <2> QED
    BY <1>1, <1>2, <2>1
<1>4. s \in Injection(1 .. m, nodes)
  BY <1>2, <1>3 DEF Injection, IsInjective
<1>5. Cardinality(1 .. m) = m
  BY <1>1, FS_Interval
<1>6. s \in Surjection(1 .. m, nodes)
  BY <1>1, <1>4, <1>5, FS_Injection
<1> QED
  BY <1>1, <1>2, <1>3, <1>6 DEF Surjection

(***************************************************************************)
(* After an ingest the newest snapshots of the nodes with results show     *)
(* these, and nothing else about the inventory is different.               *)
(***************************************************************************)
LEMMA IngestRecords ==
  ASSUME InvType, NEW kept, DOMAIN kept \subseteq Node,
         \A n \in DOMAIN kept : Observes(kept[n], n), Ingest(kept)
  PROVE  /\ snapshots' \in Seq(Snapshot)
         /\ \A i \in SnapshotIds' : Observes(snapshots'[i].content, snapshots'[i].node)
         /\ \A i \in SnapshotIds : i \in SnapshotIds' /\ snapshots'[i] = snapshots[i]
         /\ \A n \in DOMAIN kept : /\ Newest(n)' # 0 /\ snapshots'[Newest(n)'].node = n
                                   /\ snapshots'[Newest(n)'].content = kept[n]
         /\ \A n : n \notin DOMAIN kept => Newest(n)' = Newest(n)
<1> DEFINE C == {n \in DOMAIN kept : Changed(n, kept[n])}
           m == Cardinality(C)
<1>1. PICK new \in InOrder(C) :
        snapshots' = snapshots \o [i \in DOMAIN new |-> [node |-> new[i], content |-> kept[new[i]]]]
  BY DEF Ingest
<1>2. /\ m \in Nat /\ new \in [1 .. m -> C]
      /\ \A i, j \in 1 .. m : new[i] = new[j] => i = j
      /\ \A n \in C : \E i \in 1 .. m : new[i] = n
  <2>1. C \subseteq Node
    OBVIOUS
  <2> HIDE DEF C
  <2> QED
    BY <1>1, <2>1, InOrderIsOnto
<1>3. C \subseteq DOMAIN kept /\ \A n \in DOMAIN kept : n \notin C => ~Changed(n, kept[n])
  OBVIOUS
<1> DEFINE L == Len(snapshots)
           Added == [i \in 1 .. m |-> [node |-> new[i], content |-> kept[new[i]]]]
<1> HIDE DEF C
<1>5. L \in Nat /\ SnapshotIds = 1 .. L /\ snapshots \in Seq(Snapshot)
  BY DEF InvType, SnapshotIds
<1>6. Added \in Seq(Snapshot) /\ Len(Added) = m
  <2>1. \A i \in 1 .. m : new[i] \in C /\ new[i] \in Node /\ kept[new[i]] \in SUBSET Finding
    BY <1>2, <1>3 DEF FindingsOf, Observes
  <2>2. Added \in [1 .. m -> Snapshot]
    BY <2>1 DEF Snapshot
  <2> QED
    BY <1>2, <2>2
<1>7. snapshots' = snapshots \o Added
  BY <1>1, <1>2
<1>8. /\ snapshots' \in Seq(Snapshot) /\ Len(snapshots') = L + m
      /\ SnapshotIds' = 1 .. L + m
      /\ \A i \in 1 .. L : snapshots'[i] = snapshots[i]
      /\ \A i \in 1 .. m : snapshots'[L + i] = Added[i]
  <2> HIDE DEF Added
  <2> QED
    BY <1>2, <1>5, <1>6, <1>7 DEF SnapshotIds
<1>9. \A i \in 1 .. m : snapshots'[L + i].node = new[i] /\ snapshots'[L + i].content = kept[new[i]]
  <2>1. \A i \in 1 .. m : Added[i].node = new[i] /\ Added[i].content = kept[new[i]]
    OBVIOUS
  <2> HIDE DEF Added, m, L
  <2> QED
    BY <1>8, <2>1
<1> HIDE DEF Added, m, L
<1>10. \A i \in 1 .. L + m : i \in 1 .. L \/ (i - L \in 1 .. m /\ i = L + (i - L))
  BY <1>2, <1>5
<1>11. \A i \in SnapshotIds' : Observes(snapshots'[i].content, snapshots'[i].node)
  <2> SUFFICES ASSUME NEW i \in 1 .. L + m
               PROVE  Observes(snapshots'[i].content, snapshots'[i].node)
    BY <1>8
  <2>1. CASE i \in 1 .. L
    BY <1>5, <1>8, <2>1 DEF InvType
  <2>2. CASE i - L \in 1 .. m /\ i = L + (i - L)
    <3>1. snapshots'[i].node = new[i - L] /\ snapshots'[i].content = kept[new[i - L]]
      BY <1>9, <2>2
    <3> QED
      BY <1>2, <1>3, <2>2, <3>1
  <2> QED
    BY <1>10, <2>1, <2>2
<1>12. ASSUME NEW n, n \notin C PROVE Newest(n)' = Newest(n)
  <2>1. \A i \in 1 .. m : snapshots'[L + i].node # n
    BY <1>2, <1>9, <1>12
  <2>2. \A i \in SnapshotIds' : snapshots'[i].node = n => i \in SnapshotIds
    BY <1>5, <1>8, <1>10, <2>1
  <2>3. \A i : i \in SnapshotsOf(n)' <=> i \in SnapshotsOf(n)
    BY <1>2, <1>5, <1>8, <2>2 DEF SnapshotsOf
  <2>4. SnapshotsOf(n)' = SnapshotsOf(n)
    BY <2>3
  <2> QED
    BY <2>4 DEF Newest
<1>13. ASSUME NEW n \in C
       PROVE  /\ Newest(n)' # 0 /\ snapshots'[Newest(n)'].node = n
              /\ snapshots'[Newest(n)'].content = kept[n]
  <2>1. PICK k \in 1 .. m : new[k] = n
    BY <1>2
  <2>2. L + k \in SnapshotsOf(n)'
    BY <1>2, <1>5, <1>8, <1>9, <2>1 DEF SnapshotsOf
  <2>3. ASSUME NEW i \in SnapshotsOf(n)' PROVE i \in Nat /\ i <= L + k
    <3>1. i \in 1 .. L + m /\ snapshots'[i].node = n
      BY <1>8 DEF SnapshotsOf
    <3>2. CASE i \in 1 .. L
      BY <1>5, <2>1, <3>2
    <3>3. CASE i - L \in 1 .. m /\ i = L + (i - L)
      <4>1. new[i - L] = n
        BY <1>9, <3>1, <3>3
      <4>2. i - L = k
        BY <1>2, <2>1, <3>3, <4>1
      <4> QED
        BY <1>5, <3>1, <4>2
    <3> QED
      BY <1>10, <3>1, <3>2, <3>3
  <2>4. \A i \in SnapshotsOf(n)' : Max(SnapshotsOf(n)') >= i
    BY <1>5, <2>1, <2>2, <2>3, GreatestOf
  <2>5. Max(SnapshotsOf(n)') \in SnapshotsOf(n)'
    BY <1>5, <2>1, <2>2, <2>3, GreatestOf
  <2>6. Newest(n)' = L + k
    <3>1. Max(SnapshotsOf(n)') = L + k
      BY <1>5, <2>1, <2>2, <2>3, <2>4, <2>5
    <3> QED
      BY <2>2, <3>1 DEF Newest
  <2> QED
    BY <1>5, <1>9, <2>1, <2>6
<1>14. ASSUME NEW n \in DOMAIN kept, n \notin C
       PROVE  /\ Newest(n)' # 0 /\ snapshots'[Newest(n)'].node = n
              /\ snapshots'[Newest(n)'].content = kept[n]
  <2>1. Newest(n) # 0 /\ snapshots[Newest(n)].content = kept[n]
    BY <1>3, <1>14 DEF Changed
  <2>2. Newest(n) \in 1 .. L /\ snapshots[Newest(n)].node = n
    BY <1>5, <2>1, NewestIs
  <2> QED
    BY <1>8, <1>12, <1>14, <2>1, <2>2
<1>15. \A i \in SnapshotIds : i \in SnapshotIds' /\ snapshots'[i] = snapshots[i]
  <2>1. m \in Nat /\ L \in Nat
    BY <1>2, <1>5
  <2>2. \A i \in 1 .. L : i \in 1 .. L + m
    BY <2>1
  <2>3. SnapshotIds = 1 .. L /\ SnapshotIds' = 1 .. L + m /\ \A i \in 1 .. L : snapshots'[i] = snapshots[i]
    BY <1>5, <1>8
  <2> QED
    BY <2>2, <2>3
<1> QED
  BY <1>3, <1>8, <1>11, <1>12, <1>13, <1>14, <1>15 DEF C

-------------------------------------------------------------------------------
(* Where the steps are. *)
LEMMA Lengths == Len(Demo) = 15 /\ Len(Real) = 31 /\ Len(Take) = 7
BY DEF Demo, Real, Take

LEMMA LastSteps ==
  /\ script = "demo" => Last = 15
  /\ script = "real" => Last = 31
  /\ script = "take" => Last = 7
BY Lengths DEF Last, Steps

LEMMA ScriptNames == Scripts = {"demo", "real", "take"}
BY DEF Scripts, Steps

LEMMA StepCounts == \A s \in Scripts : Len(Steps[s]) \in Nat /\ Len(Steps[s]) >= 1
<1>1. Len(Demo) \in Nat /\ Len(Real) \in Nat /\ Len(Take) \in Nat
        /\ Len(Demo) >= 1 /\ Len(Real) >= 1 /\ Len(Take) >= 1
  BY Lengths
<1>2. \A s \in Scripts : Steps[s] \in {Demo, Real, Take}
  BY ScriptNames DEF Steps
<1> QED
  BY <1>1, <1>2

LEMMA RealStepNames ==
  /\ \A i \in 1 .. 15 : Real[i] = Demo[i]
  /\ Real[16] = "pickBand" /\ Real[17] = "build" /\ Real[18] = "planReal"
  /\ Real[19] = "approveReal" /\ Real[20] = "genL2" /\ Real[21] = "applyL2"
  /\ Real[22] = "genL3" /\ Real[23] = "applyL3" /\ Real[24] = "measure"
  /\ Real[25] = "rediscover" /\ Real[26] = "reingest" /\ Real[27] = "compare"
  /\ Real[28] = "genL3Undo" /\ Real[29] = "applyL3Undo" /\ Real[30] = "genL2Undo"
  /\ Real[31] = "applyL2Undo"
BY DEF Real, Demo

(* The step at hand, by its name. *)
StageAt ==
  /\ At("discover") => at = 1 /\ script # "take"
  /\ At("ingest") => at = 2 /\ script # "take"
  /\ At("ingestAgain") => at = 3 /\ script # "take"
  /\ At("readPre") => at = 4 /\ script # "take"
  /\ At("ingestScoped") => at = 5 /\ script # "take"
  /\ At("readPost") => at = 6 /\ script # "take"
  /\ At("pickNode") => at = 7 /\ script # "take"
  /\ At("pickFinding") => at = 8 /\ script # "take"
  /\ At("keygen") => at = 9 /\ script # "take"
  /\ At("plan") => at = 10 /\ script # "take"
  /\ At("stub") => at = 11 /\ script # "take"
  /\ At("l2") => at = 12 /\ script # "take"
  /\ At("l2Undo") => at = 13 /\ script # "take"
  /\ At("l3") => at = 14 /\ script # "take"
  /\ At("l3Undo") => at = 15 /\ script # "take"
RealAt ==
  /\ At("pickBand") => at = 16 /\ script = "real"
  /\ At("build") => at = 17 /\ script = "real"
  /\ At("planReal") => at = 18 /\ script = "real"
  /\ At("approveReal") => at = 19 /\ script = "real"
  /\ At("genL3") => at = 22 /\ script = "real"
  /\ At("rediscover") => at = 25 /\ script = "real"
  /\ At("reingest") => at = 26 /\ script = "real"
  /\ At("compare") => at = 27 /\ script = "real"
  /\ At("genL3Undo") => at = 28 /\ script = "real"
  /\ At("genL2Undo") => at = 30 /\ script = "real"
SharedAt ==
  /\ At("guard") => at = 1 /\ script = "take"
  /\ At("genL2") => (at = 20 /\ script = "real") \/ (at = 2 /\ script = "take")
  /\ At("applyL2") => (at = 21 /\ script = "real") \/ (at = 3 /\ script = "take")
  /\ At("applyL3") => (at = 23 /\ script = "real") \/ (at = 4 /\ script = "take")
  /\ At("measure") => (at = 24 /\ script = "real") \/ (at = 5 /\ script = "take")
  /\ At("applyL3Undo") => (at = 29 /\ script = "real") \/ (at = 6 /\ script = "take")
  /\ At("applyL2Undo") => (at = 31 /\ script = "real") \/ (at = 7 /\ script = "take")
StepAt == StageAt /\ RealAt /\ SharedAt

LEMMA AtInDemo == ASSUME script = "demo", at \in 1 .. 15 PROVE StepAt
<1>1. at \in {1, 2, 3, 4, 5, 6, 7, 8, 9, 10, 11, 12, 13, 14, 15}
  OBVIOUS
<1>2. Steps[script] = Demo
  BY DEF Steps
<1>3. StageAt
  BY <1>1, <1>2 DEF At, Demo, StageAt
<1>4. RealAt
  BY <1>1, <1>2 DEF At, Demo, RealAt
<1>5. SharedAt
  BY <1>1, <1>2 DEF At, Demo, SharedAt
<1> QED
  BY <1>3, <1>4, <1>5 DEF StepAt

LEMMA AtInTake == ASSUME script = "take", at \in 1 .. 7 PROVE StepAt
<1>1. at \in {1, 2, 3, 4, 5, 6, 7}
  OBVIOUS
<1>2. Steps[script] = Take
  BY DEF Steps
<1> QED
  BY <1>1, <1>2 DEF At, Take, StepAt, StageAt, RealAt, SharedAt

LEMMA AtInReal == ASSUME script = "real", at \in 1 .. 31 PROVE StepAt
<1>1. CASE at \in 1 .. 15
  <2>1. at \in {1, 2, 3, 4, 5, 6, 7, 8, 9, 10, 11, 12, 13, 14, 15}
    BY <1>1
  <2>2. Steps[script][at] = Demo[at]
    BY <1>1, RealStepNames DEF Steps
  <2>3. StageAt
    BY <2>1, <2>2 DEF At, Demo, StageAt
  <2>4. RealAt
    BY <2>1, <2>2 DEF At, Demo, RealAt
  <2>5. SharedAt
    BY <2>1, <2>2 DEF At, Demo, SharedAt
  <2> QED
    BY <2>3, <2>4, <2>5 DEF StepAt
<1>2. CASE at \in 16 .. 31
  <2>1. at \in {16, 17, 18, 19, 20, 21, 22, 23, 24, 25, 26, 27, 28, 29, 30, 31}
    BY <1>2
  <2>2. Steps[script][at] = Real[at]
    BY DEF Steps
  <2>3. StageAt
    BY <2>1, <2>2, RealStepNames DEF At, StageAt
  <2>4. RealAt
    BY <2>1, <2>2, RealStepNames DEF At, RealAt
  <2>5. SharedAt
    BY <2>1, <2>2, RealStepNames DEF At, SharedAt
  <2> QED
    BY <2>3, <2>4, <2>5 DEF StepAt
<1> QED
  BY <1>1, <1>2

LEMMA WhereItIs == Shape => StepAt
BY AtInDemo, AtInReal, AtInTake, LastSteps, ScriptNames DEF Shape

-------------------------------------------------------------------------------
(* How steps go on. *)
LEMMA SameLast == script' = script => Last' = Last
BY DEF Last

LEMMA GoesOn ==
  ASSUME Shape, run = "running", Continue
  PROVE  /\ script' = script /\ Last' = Last
         /\ at < Last => at' = at + 1 /\ run' = run /\ residue' = residue
         /\ at = Last => /\ at' = 1 /\ run' = "done"
                         /\ residue' = IF OneTarget THEN residue \ Targets
                                                    ELSE residue \cup Targets
BY LastSteps, ScriptNames DEF Shape, Continue, Goto, Last

(* A run that breaks off accounts for the node it was at work on. *)
LEMMA BreakKeeps ==
  ASSUME RunInv, run = "running", NEW how \in {"aborted", "failed"}, Break(how),
         UNCHANGED <<hosts, node, module>>,
         DOMAIN plan' = {"demo", "real"}, DOMAIN plan'["real"] = DOMAIN plan["real"],
         DOMAIN book' = Playbooks, BookInv'
  PROVE  RunInv'
<1>1. Shape'
  BY LastSteps, ScriptNames DEF RunInv, Shape, Break, Last, EmptyShell, ShellVars
<1>2. IdleInv'
  <2> SUFFICES ASSUME NEW n \in Node, Left(n) PROVE n \in residue \cup Targets
    BY DEF Break, IdleInv, Left
  <2>1. CASE script = "take"
    BY <2>1 DEF RunInv, TakeInv
  <2>2. CASE script # "take"
    BY <2>2, ScriptNames DEF RunInv, Shape, DemoInv, Targets
  <2> QED
    BY <2>1, <2>2
<1>3. DemoInv' /\ RealInv' /\ TakeInv'
  BY DEF Break, DemoInv, RealInv, TakeInv
<1> QED
  BY <1>1, <1>2, <1>3 DEF RunInv

(* A step that touches neither the nodes nor the playbooks. *)
LEMMA QuietKeeps ==
  ASSUME RunInv, run = "running", Continue, UNCHANGED <<hosts, node, book>>,
         DOMAIN sh' = ShellVars, sh'.node = sh.node,
         module' \in {"none", "empty", "real"},
         DOMAIN plan' = {"demo", "real"}, DOMAIN plan'["real"] = DOMAIN plan["real"],
         script = "take" => at = 5,
         script # "take" => at \in 1 .. 11 /\ at # 7
  PROVE  RunInv'
<1>1. at < Last
  BY LastSteps, ScriptNames DEF RunInv, Shape
<1>2. at' = at + 1 /\ run' = run /\ residue' = residue /\ script' = script /\ Last' = Last
  BY <1>1, GoesOn DEF RunInv
<1>3. Shape'
  BY <1>1, <1>2 DEF RunInv, Shape, Last
<1> QED
  BY <1>2, <1>3 DEF RunInv, BookInv, IdleInv, DemoInv, RealInv, TakeInv, Left, Targets, OneTarget, Shape

(* The same for the real stage, where plan, module and measurement matter. *)
LEMMA QuietRealKeeps ==
  ASSUME RunInv, run = "running", script = "real", Continue, UNCHANGED <<hosts, node, book>>,
         DOMAIN sh' = ShellVars, sh'.node = sh.node,
         module' \in {"none", "empty", "real"},
         at = 17 => module' = "real", at # 17 => module' = module,
         DOMAIN plan' = {"demo", "real"}, DOMAIN plan'["real"] = DOMAIN plan["real"],
         at = 18 => plan'["real"].node = sh.node,
         at # 18 => plan'["real"].node = plan["real"].node,
         at = 24 => sh'.capable,
         at \in 17 .. 19 \cup 24 .. 27
  PROVE  RunInv'
<1>1. at < Last
  BY LastSteps
<1>2. at' = at + 1 /\ run' = run /\ residue' = residue /\ script' = script /\ Last' = Last
  BY <1>1, GoesOn DEF RunInv
<1>3. Shape'
  BY <1>1, <1>2 DEF RunInv, Shape, Last
<1> QED
  BY <1>2, <1>3 DEF RunInv, BookInv, IdleInv, DemoInv, RealInv, TakeInv, Left, Targets, OneTarget, Shape

-------------------------------------------------------------------------------
(* The steps. *)
LEMMA ObservingKeeps ==
  ASSUME RunInv,
         DoDiscover \/ DoIngest \/ DoReadPre \/ DoIngestScoped \/ DoReadPost \/ DoPickFinding
           \/ DoReingest \/ DoCompare
  PROVE  RunInv'
<1>1. StepAt /\ run = "running"
  BY WhereItIs DEF RunInv, At, DoDiscover, DoIngest, DoReadPre, DoIngestScoped, DoReadPost,
                   DoPickFinding, DoReingest, DoCompare
<1>2. Continue /\ UNCHANGED <<hosts, node, book, module, plan>>
  BY DEF DoDiscover, DoIngest, DoReadPre, DoIngestScoped, DoReadPost,
         DoPickFinding, DoReingest, DoCompare, envVars, ctlVars
<1>3. DOMAIN sh = ShellVars
  BY DEF RunInv, Shape
<1>4. DOMAIN sh' = ShellVars /\ sh'.node = sh.node
  BY <1>3 DEF DoDiscover, DoIngest, DoReadPre, DoIngestScoped, DoReadPost,
         DoPickFinding, DoReingest, DoCompare, Set, ShellVars
<1>5. \/ script # "take" /\ at \in {1, 2, 3, 4, 5, 6, 8}
      \/ script = "real" /\ at \in 25 .. 27
  BY <1>1 DEF DoDiscover, DoIngest, DoReadPre, DoIngestScoped, DoReadPost,
         DoPickFinding, DoReingest, DoCompare, StepAt, StageAt, RealAt
<1> QED
  BY <1>1, <1>2, <1>4, <1>5, QuietKeeps, QuietRealKeeps DEF RunInv, Shape

LEMMA ChoosingKeeps == ASSUME RunInv, DoPickNode \/ DoPickBand \/ DoGuard PROVE RunInv'
<1>1. StepAt /\ run = "running"
  BY WhereItIs DEF RunInv, At, DoPickNode, DoPickBand, DoGuard
<1>2. DOMAIN sh = ShellVars
  BY DEF RunInv, Shape
<1>3. UNCHANGED <<hosts, node, book, module, plan>>
  BY DEF DoPickNode, DoPickBand, DoGuard, envVars, ctlVars
<1>4. NoNode \notin Node
  BY InventoryAssumption
<1>5. CASE DoPickNode
  <2>1. at = 7 /\ script \in {"demo", "real"}
    BY <1>1, <1>5, ScriptNames DEF DoPickNode, StepAt, StageAt, RunInv, Shape
  <2>2. DOMAIN sh' = ShellVars
    BY <1>2, <1>5 DEF DoPickNode, Set
  <2>3. \A n \in Node : Left(n) => n \in residue
    BY <1>1, <1>4, <2>1 DEF RunInv, DemoInv
  <2>4. Targets = {}
    BY <1>1, <1>4, <2>1 DEF RunInv, DemoInv, Targets
  <2>5. CASE ServiceNode = NoNode
    <3>1. sh'.node = NoNode /\ Goto(16)
      BY <1>2, <1>5, <2>5, Lengths DEF DoPickNode, Set, ShellVars, StageSixEnd
    <3>2. \/ script = "demo" /\ at' = 1 /\ run' = "done" /\ residue' = residue
          \/ script = "real" /\ at' = 16 /\ run' = run /\ residue' = residue
      BY <2>1, <2>4, <3>1, LastSteps DEF Goto
    <3>3. Shape'
      BY <1>3, <2>1, <2>2, <3>1, <3>2, LastSteps, SameLast DEF Goto, RunInv, Shape
    <3> QED
      BY <1>3, <1>4, <2>1, <2>3, <3>1, <3>2, <3>3
         DEF Goto, RunInv, BookInv, IdleInv, DemoInv, RealInv, TakeInv, Left
  <2>6. CASE ServiceNode # NoNode
    <3>1. at' = 8 /\ run' = run /\ residue' = residue /\ script' = script /\ Last' = Last
      BY <1>1, <1>5, <2>1, <2>6, LastSteps, GoesOn DEF DoPickNode, RunInv
    <3>2. Shape'
      BY <1>3, <2>1, <2>2, <3>1, LastSteps, SameLast DEF RunInv, Shape
    <3> QED
      BY <1>3, <2>1, <2>3, <3>1, <3>2 DEF RunInv, BookInv, IdleInv, DemoInv, RealInv, TakeInv, Left
  <2> QED
    BY <2>5, <2>6
<1>6. CASE DoPickBand
  <2>1. at = 16 /\ script = "real" /\ Last = 31
    BY <1>1, <1>6, LastSteps DEF DoPickBand, StepAt, RealAt
  <2>2. \A n \in Node : Left(n) => n \in residue /\ n # sh.node
    BY <1>1, <2>1 DEF RunInv, RealInv
  <2>3. CASE BandNode = NoNode
    <3>1. Goto(32) /\ UNCHANGED sh
      BY <1>6, <2>1, <2>3 DEF DoPickBand
    <3>2. at' = 1 /\ run' = "done" /\ residue' = residue \ Targets /\ script' = script
      BY <2>1, <3>1 DEF Goto, OneTarget
    <3>3. \A n \in Node : Left(n) => n \notin Targets
      BY <2>1, <2>2 DEF Targets
    <3>4. Shape'
      BY <1>3, <2>1, <3>1, <3>2, SameLast DEF RunInv, Shape
    <3> QED
      BY <1>3, <2>1, <2>2, <3>2, <3>3, <3>4
         DEF RunInv, BookInv, IdleInv, DemoInv, RealInv, TakeInv, Left
  <2>4. CASE BandNode # NoNode
    <3>1. DOMAIN sh' = ShellVars /\ Goto(17)
      BY <1>2, <1>6, <2>1, <2>4 DEF DoPickBand, Set
    <3>2. at' = 17 /\ run' = run /\ residue' = residue /\ script' = script
      BY <2>1, <3>1 DEF Goto
    <3>3. Shape'
      BY <1>3, <2>1, <3>1, <3>2, SameLast DEF RunInv, Shape
    <3> QED
      BY <1>3, <2>1, <2>2, <3>2, <3>3 DEF RunInv, BookInv, IdleInv, DemoInv, RealInv, TakeInv, Left
  <2> QED
    BY <2>3, <2>4
<1>7. CASE DoGuard
  <2>1. at = 1 /\ script = "take" /\ Last = 7
    BY <1>1, <1>7, LastSteps DEF DoGuard, StepAt, SharedAt
  <2>2. CASE Break("failed")
    BY <1>1, <1>3, <2>2, BreakKeeps DEF RunInv, Shape, BookInv
  <2>3. CASE ~Break("failed")
    <3>1. Continue /\ DOMAIN sh' = ShellVars
      BY <1>2, <1>7, <2>3 DEF DoGuard, Set
    <3>2. at' = 2 /\ run' = run /\ residue' = residue /\ script' = script
      BY <1>1, <2>1, <3>1, GoesOn DEF RunInv
    <3>3. Shape'
      BY <1>3, <2>1, <3>1, <3>2, SameLast DEF RunInv, Shape
    <3> QED
      BY <1>3, <2>1, <3>2, <3>3 DEF RunInv, BookInv, IdleInv, DemoInv, RealInv, TakeInv, Left
  <2> QED
    BY <2>2, <2>3
<1> QED
  BY <1>5, <1>6, <1>7

LEMMA PreparingKeeps ==
  ASSUME RunInv,
         DoKeygen \/ DoPlan \/ DoStub \/ DoBuild \/ DoPlanReal \/ DoApproveReal \/ DoMeasure
  PROVE  RunInv'
<1>1. StepAt /\ run = "running" /\ Shape
  BY WhereItIs DEF RunInv, At, DoKeygen, DoPlan, DoStub, DoBuild, DoPlanReal, DoApproveReal, DoMeasure
<1>2. UNCHANGED <<hosts, node, book>>
  BY DEF DoKeygen, DoPlan, DoStub, DoBuild, DoPlanReal, DoApproveReal, DoMeasure, envVars, ctlVars
<1>3. CASE DoKeygen \/ DoStub
  <2>1. DOMAIN sh' = ShellVars /\ sh'.node = sh.node
    BY <1>1, <1>3 DEF Shape, DoKeygen, DoStub, Set, ShellVars
  <2>2. script # "take" /\ at \in {9, 11}
    BY <1>1, <1>3 DEF DoKeygen, DoStub, StepAt, StageAt
  <2> QED
    BY <1>1, <1>2, <1>3, <2>1, <2>2, QuietKeeps DEF Shape, DoKeygen, DoStub
<1>4. CASE DoPlan
  <2>1. DOMAIN plan' = {"demo", "real"} /\ plan'["real"] = plan["real"]
    BY <1>1, <1>4 DEF Shape, DoPlan
  <2>2. script # "take" /\ at = 10
    BY <1>1, <1>4 DEF DoPlan, StepAt, StageAt
  <2>3. CASE Break("failed")
    BY <1>1, <1>2, <1>4, <2>1, <2>3, BreakKeeps DEF DoPlan, RunInv, Shape, BookInv
  <2>4. CASE ~Break("failed")
    BY <1>1, <1>2, <1>4, <2>1, <2>2, <2>4, QuietKeeps DEF DoPlan, Shape
  <2> QED
    BY <2>3, <2>4
<1>5. CASE DoBuild
  <2>1. script = "real" /\ at = 17
    BY <1>1, <1>5 DEF DoBuild, StepAt, RealAt
  <2> QED
    BY <1>1, <1>2, <1>5, <2>1, QuietRealKeeps DEF DoBuild, Shape
<1>6. CASE DoPlanReal
  <2>1. script = "real" /\ at = 18
    BY <1>1, <1>6 DEF DoPlanReal, StepAt, RealAt
  <2>2. /\ DOMAIN plan' = {"demo", "real"}
        /\ DOMAIN plan'["real"] = DOMAIN plan["real"]
        /\ plan'["real"].node = sh.node
    BY <1>1, <1>6 DEF DoPlanReal, Shape, ShellPlan
  <2> QED
    BY <1>1, <1>2, <1>6, <2>1, <2>2, QuietRealKeeps DEF DoPlanReal, Shape
<1>7. CASE DoApproveReal
  <2>1. script = "real" /\ at = 19
    BY <1>1, <1>7 DEF DoApproveReal, StepAt, RealAt
  <2>2. /\ DOMAIN plan' = {"demo", "real"}
        /\ DOMAIN plan'["real"] = DOMAIN plan["real"]
        /\ plan'["real"].node = plan["real"].node
    BY <1>1, <1>7 DEF DoApproveReal, Shape
  <2>3. CASE Break("failed")
    BY <1>1, <1>2, <1>7, <2>2, <2>3, BreakKeeps DEF DoApproveReal, RunInv, Shape, BookInv
  <2>4. CASE ~Break("failed")
    BY <1>1, <1>2, <1>7, <2>1, <2>2, <2>4, QuietRealKeeps DEF DoApproveReal, Shape
  <2> QED
    BY <2>3, <2>4
<1>8. CASE DoMeasure
  <2>1. /\ DOMAIN sh' = ShellVars /\ sh'.node = sh.node
        /\ sh'.capable = Capable(IF script = "take" THEN sh.looksAt ELSE sh.node)
    BY <1>1, <1>8 DEF Shape, DoMeasure, Set, ShellVars
  <2>2. \/ script = "real" /\ at = 24 /\ Capable(sh.node)
        \/ script = "take" /\ at = 5
    BY <1>1, <1>8 DEF DoMeasure, StepAt, SharedAt, RunInv, RealInv
  <2> QED
    BY <1>1, <1>2, <1>8, <2>1, <2>2, QuietKeeps, QuietRealKeeps DEF DoMeasure, Shape, ctlVars
<1> QED
  BY <1>3, <1>4, <1>5, <1>6, <1>7, <1>8

(* Two fields of a node's record changed at once. *)
LEMMA ModConf ==
  ASSUME NEW m, NEW c, NEW a, NEW x, NEW y
  PROVE  [[mod |-> m, conf |-> c, active |-> a] EXCEPT !.mod = x, !.conf = y]
           = [mod |-> x, conf |-> y, active |-> a]
<1>1. [[mod |-> m, conf |-> c, active |-> a] EXCEPT !.mod = x] = [mod |-> x, conf |-> c, active |-> a]
  OBVIOUS
<1>2. [[mod |-> x, conf |-> c, active |-> a] EXCEPT !.conf = y] = [mod |-> x, conf |-> y, active |-> a]
  OBVIOUS
<1> QED
  BY <1>1, <1>2

LEMMA ConfActive ==
  ASSUME NEW m, NEW c, NEW a, NEW x, NEW y
  PROVE  [[mod |-> m, conf |-> c, active |-> a] EXCEPT !.conf = x, !.active = y]
           = [mod |-> m, conf |-> x, active |-> y]
<1>1. [[mod |-> m, conf |-> c, active |-> a] EXCEPT !.conf = x] = [mod |-> m, conf |-> x, active |-> a]
  OBVIOUS
<1>2. [[mod |-> m, conf |-> x, active |-> a] EXCEPT !.active = y] = [mod |-> m, conf |-> x, active |-> y]
  OBVIOUS
<1> QED
  BY <1>1, <1>2

(* What the playbooks of a node leave on it. *)
LEMMA PlaybooksLeave ==
  ASSUME Shape, NEW n \in Node
  PROVE  /\ StagedL2(n) \in NodeState
         /\ UndoneL2(n) \in NodeState /\ UndoneL2(n).mod = "none"
         /\ StagedL3(n) \in NodeState /\ StagedL3(n).mod = node[n].mod
         /\ UndoneL3(n) \in NodeState
         /\ node[n].mod = "none" => UndoneL3(n) = Clean
         /\ node[n] = Clean => UndoneL2(n) = Clean
         /\ Activated \in NodeState /\ Clean \in NodeState
<1>1. node[n] \in NodeState /\ module \in {"none", "empty", "real"}
  BY DEF Shape
<1>2. PICK m \in {"none", "empty", "real"}, c \in {"absent", "groups", "module"}, a \in BOOLEAN :
        node[n] = [mod |-> m, conf |-> c, active |-> a]
  BY <1>1 DEF NodeState
<1>3. StagedL2(n) = [mod |-> module, conf |-> "module", active |-> a]
  <2>1. StagedL2(n) = [[mod |-> m, conf |-> c, active |-> a] EXCEPT !.mod = module, !.conf = "module"]
    BY <1>2 DEF StagedL2
  <2> QED
    BY <2>1, ModConf
<1>4. UndoneL2(n) = [mod |-> "none", conf |-> "absent", active |-> a]
  <2>1. UndoneL2(n) = [[mod |-> m, conf |-> c, active |-> a] EXCEPT !.mod = "none", !.conf = "absent"]
    BY <1>2 DEF UndoneL2
  <2> QED
    BY <2>1, ModConf
<1>5. StagedL3(n) = [mod |-> m, conf |-> "groups", active |-> TRUE]
  <2>1. StagedL3(n) = [[mod |-> m, conf |-> c, active |-> a] EXCEPT !.conf = "groups", !.active = TRUE]
    BY <1>2 DEF StagedL3
  <2> QED
    BY <2>1, ConfActive
<1>6. UndoneL3(n) = [mod |-> m, conf |-> "absent", active |-> FALSE]
  <2>1. UndoneL3(n) = [[mod |-> m, conf |-> c, active |-> a] EXCEPT !.conf = "absent", !.active = FALSE]
    BY <1>2 DEF UndoneL3
  <2> QED
    BY <2>1, ConfActive
<1>7. StagedL2(n) \in NodeState
  BY <1>1, <1>3 DEF NodeState
<1>8. UndoneL2(n) \in NodeState /\ UndoneL2(n).mod = "none"
  BY <1>4 DEF NodeState
<1>9. StagedL3(n) \in NodeState /\ StagedL3(n).mod = node[n].mod
  BY <1>2, <1>5 DEF NodeState
<1>10. UndoneL3(n) \in NodeState
  BY <1>6 DEF NodeState
<1>11. node[n].mod = "none" => UndoneL3(n) = Clean
  BY <1>2, <1>6 DEF Clean
<1>12. node[n] = Clean => UndoneL2(n) = Clean
  BY <1>2, <1>4 DEF Clean
<1>13. Activated \in NodeState /\ Clean \in NodeState
  BY <1>1 DEF NodeState, Clean, Activated
<1> QED
  BY <1>7, <1>8, <1>9, <1>10, <1>11, <1>12, <1>13

LEMMA StageSixKeeps == ASSUME RunInv, DoStageSix PROVE RunInv'
<1>1. StepAt /\ run = "running" /\ Shape /\ script \in {"demo", "real"} /\ at \in 12 .. 15
  BY WhereItIs, ScriptNames DEF RunInv, At, DoStageSix, StepAt, StageAt, Shape
<1>2. UNCHANGED <<hosts, book, module, plan>>
  BY DEF DoStageSix, envVars, ctlVars
<1>3. CASE Break("failed")
  <2>1. UNCHANGED node
    BY <1>1, <1>3 DEF DoStageSix, Applied, Grepped, Break, Continue, Goto
  <2> QED
    BY <1>1, <1>2, <1>3, <2>1, BreakKeeps DEF RunInv, Shape, BookInv
<1>4. CASE ~Break("failed")
  <2>1. /\ Continue /\ UNCHANGED sh /\ sh.node \in hosts
        /\ at = 12 => node' = [node EXCEPT ![sh.node] = StagedL2(sh.node)]
        /\ at = 13 => node' = [node EXCEPT ![sh.node] = UndoneL2(sh.node)]
        /\ at = 14 => node' = [node EXCEPT ![sh.node] = StagedL3(sh.node)]
        /\ at = 15 => node' = [node EXCEPT ![sh.node] = UndoneL3(sh.node)]
    BY <1>1, <1>4 DEF DoStageSix, Applied, Grepped, StepAt, StageAt
  <2>2. sh.node \in Node /\ DOMAIN sh' = ShellVars
    BY <1>1, <2>1 DEF Shape
  <2>3. /\ node' \in [Node -> NodeState]
        /\ \A n \in Node : n # sh.node => node'[n] = node[n]
    BY <1>1, <2>1, <2>2, PlaybooksLeave DEF Shape
  <2>4. CASE at < 15
    <3>1. at' = at + 1 /\ run' = run /\ residue' = residue /\ script' = script /\ Last' = Last
      BY <1>1, <2>1, <2>4, LastSteps, GoesOn
    <3>2. Shape'
      BY <1>1, <1>2, <2>2, <2>3, <2>4, <3>1, LastSteps DEF Shape
    <3>3. at \in 13 .. 14 => node'[sh.node].mod = "none"
      <4>1. at = 14 => node[sh.node].mod = "none"
        BY <1>1 DEF RunInv, DemoInv
      <4> QED
        BY <1>1, <2>1, <2>2, <4>1, PlaybooksLeave DEF Shape
    <3> QED
      BY <1>1, <1>2, <2>1, <2>2, <2>3, <2>4, <3>1, <3>2, <3>3
         DEF RunInv, BookInv, IdleInv, DemoInv, RealInv, TakeInv, Left
  <2>5. CASE at = 15
    <3>1. node'[sh.node] = Clean
      <4>1. node[sh.node].mod = "none"
        BY <1>1, <2>5 DEF RunInv, DemoInv
      <4> QED
        BY <1>1, <2>1, <2>2, <2>5, <4>1, PlaybooksLeave DEF Shape
    <3>2. \A n \in Node : Left(n)' => n \in residue /\ n # sh.node
      BY <1>1, <2>3, <3>1 DEF RunInv, DemoInv, Left
    <3>3. \/ script = "demo" /\ at' = 1 /\ run' = "done" /\ residue' = residue \ {sh.node}
          \/ script = "real" /\ at' = 16 /\ run' = run /\ residue' = residue
      <4>1. Targets = {sh.node} /\ OneTarget
        BY <1>1, <2>2 DEF Targets, OneTarget
      <4> QED
        BY <1>1, <2>1, <2>5, <4>1, LastSteps, GoesOn
    <3>4. script' = script /\ Last' = Last
      BY <1>1, <2>1, GoesOn
    <3>5. Shape'
      BY <1>1, <1>2, <2>2, <2>3, <3>3, <3>4, LastSteps DEF Shape
    <3> QED
      BY <1>1, <1>2, <2>1, <2>5, <3>2, <3>3, <3>4, <3>5
         DEF RunInv, BookInv, IdleInv, DemoInv, RealInv, TakeInv
  <2> QED
    BY <1>1, <2>4, <2>5
<1> QED
  BY <1>3, <1>4

LEMMA GeneratingKeeps == ASSUME RunInv, DoGenerate PROVE RunInv'
<1>1. PICK step \in DOMAIN Generates :
        /\ At(step)
        /\ IF Verified(plan.real)
             THEN /\ book' = [book EXCEPT ![Generates[step]] = Bound(plan.real.node)]
                  /\ Continue /\ UNCHANGED sh
             ELSE /\ book' = [book EXCEPT ![Generates[step]] = EmptyBook]
                  /\ Break("failed")
  BY DEF DoGenerate
<1>2. StepAt /\ run = "running" /\ Shape
  BY <1>1, WhereItIs DEF RunInv, At
<1>3. UNCHANGED <<hosts, node, module, plan>>
  BY DEF DoGenerate, envVars
<1>4. \/ step = "genL2" /\ Generates[step] = "L2" /\ script = "real" /\ at = 20
      \/ step = "genL2" /\ Generates[step] = "L2" /\ script = "take" /\ at = 2
      \/ step = "genL3" /\ Generates[step] = "L3" /\ script = "real" /\ at = 22
      \/ step = "genL3Undo" /\ Generates[step] = "L3Undo" /\ script = "real" /\ at = 28
      \/ step = "genL2Undo" /\ Generates[step] = "L2Undo" /\ script = "real" /\ at = 30
  BY <1>1, <1>2 DEF Generates, StepAt, RealAt, SharedAt
<1>5. CASE Verified(plan.real)
  <2>1. /\ book' = [book EXCEPT ![Generates[step]] = Bound(plan["real"].node)]
        /\ Continue /\ UNCHANGED sh
    BY <1>1, <1>5
  <2>2. /\ DOMAIN book' = Playbooks
        /\ book'[Generates[step]].target = plan["real"].node
        /\ \A b \in Playbooks : b # Generates[step] => book'[b] = book[b]
    BY <1>2, <1>4, <2>1 DEF Shape, Playbooks, Bound
  <2>3. script = "real" => plan["real"].node = sh.node
    BY <1>2, <1>4 DEF RunInv, RealInv
  <2>4. BookInv'
    BY <1>2, <1>3, <1>4, <2>2, <2>3 DEF RunInv, BookInv, RealInv
  <2>5. at' = at + 1 /\ run' = run /\ residue' = residue /\ script' = script /\ Last' = Last /\ at < Last
    BY <1>2, <1>4, <2>1, LastSteps, GoesOn
  <2>6. Shape'
    BY <1>2, <1>3, <1>4, <2>1, <2>2, <2>5, LastSteps DEF Shape
  <2>7. IdleInv' /\ DemoInv'
    BY <1>2, <1>3, <1>4, <2>1, <2>5 DEF RunInv, IdleInv, DemoInv, Left
  <2>8. RealInv'
    BY <1>2, <1>3, <1>4, <2>1, <2>2, <2>3, <2>5 DEF RunInv, RealInv, Left, Capable
  <2>9. TakeInv'
    BY <1>2, <1>3, <1>4, <2>5 DEF RunInv, TakeInv, Left
  <2> QED
    BY <2>4, <2>6, <2>7, <2>8, <2>9 DEF RunInv
<1>6. CASE ~Verified(plan.real)
  <2>1. book' = [book EXCEPT ![Generates[step]] = EmptyBook] /\ Break("failed")
    BY <1>1, <1>6
  <2>2. DOMAIN book' = Playbooks /\ BookInv'
    BY <1>2, <1>3, <1>4, <2>1 DEF Shape, RunInv, BookInv, EmptyBook, Playbooks
  <2> QED
    BY <1>2, <1>3, <2>1, <2>2, BreakKeeps DEF Shape
<1> QED
  BY <1>5, <1>6

(* Applying a playbook of the real stage, which is for the node at hand. *)
LEMMA RealApplyKeeps == ASSUME RunInv, DoApply, script = "real" PROVE RunInv'
<1>1. StepAt /\ run = "running" /\ Shape /\ at \in {21, 23, 29, 31}
  BY WhereItIs DEF RunInv, At, DoApply, StepAt, SharedAt
<1>2. UNCHANGED <<hosts, book, module, plan>>
  BY DEF DoApply, Apply, envVars, ctlVars
<1>3. CASE Break("failed")
  <2>1. UNCHANGED node
    BY <1>1, <1>3 DEF DoApply, Apply, Applied, Grepped, Break, Continue, Goto
  <2> QED
    BY <1>1, <1>2, <1>3, <2>1, BreakKeeps DEF RunInv, Shape, BookInv
<1>4. CASE ~Break("failed")
  <2>1. /\ at = 21 => Target("L2") = sh.node
        /\ at = 23 => Target("L3") = sh.node
        /\ at = 29 => Target("L3Undo") = sh.node
        /\ at = 31 => Target("L2Undo") = sh.node
    BY <1>1 DEF RunInv, RealInv, Target
  <2>2. /\ Continue /\ UNCHANGED sh /\ sh.node \in hosts
        /\ at = 21 => node' = [node EXCEPT ![sh.node] = StagedL2(sh.node)]
        /\ at = 23 => node' = [node EXCEPT ![sh.node] = Activated]
        /\ at = 29 => node' = [node EXCEPT ![sh.node] = Clean]
        /\ at = 31 => node' = [node EXCEPT ![sh.node] = UndoneL2(sh.node)]
    BY <1>1, <1>4, <2>1 DEF DoApply, Apply, Applied, Grepped, StepAt, SharedAt
  <2>3. sh.node \in Node
    BY <1>1, <2>2 DEF Shape
  <2>4. /\ node' \in [Node -> NodeState]
        /\ \A n \in Node : n # sh.node => node'[n] = node[n]
        /\ at = 23 => node'[sh.node] = Activated
        /\ at = 29 => node'[sh.node] = Clean
    BY <1>1, <2>2, <2>3, PlaybooksLeave DEF Shape
  <2>5. CASE at # 31
    <3>1. at' = at + 1 /\ run' = run /\ residue' = residue /\ script' = script /\ Last' = Last
      BY <1>1, <2>2, <2>5, LastSteps, GoesOn
    <3>2. Shape'
      BY <1>1, <1>2, <2>2, <2>4, <2>5, <3>1, LastSteps DEF Shape
    <3>3. IdleInv' /\ DemoInv' /\ TakeInv' /\ BookInv'
      BY <1>1, <1>2, <2>2, <2>4, <3>1 DEF RunInv, IdleInv, DemoInv, TakeInv, BookInv, Left
    <3>4. at = 23 => Capable(sh.node)'
      BY <1>1, <2>2, <2>4 DEF RunInv, RealInv, Capable, Activated
    <3>5. RealInv'
      BY <1>1, <1>2, <2>2, <2>4, <2>5, <3>1, <3>4 DEF RunInv, RealInv
    <3> QED
      BY <3>2, <3>3, <3>5 DEF RunInv
  <2>6. CASE at = 31
    <3>1. node'[sh.node] = Clean
      <4>1. node[sh.node] = Clean
        BY <1>1, <2>6 DEF RunInv, RealInv
      <4> QED
        BY <1>1, <2>2, <2>3, <2>6, <4>1, PlaybooksLeave DEF Shape
    <3>2. Targets = {sh.node} /\ OneTarget
      BY <2>3 DEF Targets, OneTarget
    <3>3. at' = 1 /\ run' = "done" /\ residue' = residue \ {sh.node} /\ script' = script
             /\ Last' = Last
      BY <1>1, <2>2, <2>6, <3>2, LastSteps, GoesOn
    <3>4. Shape'
      BY <1>1, <1>2, <2>2, <2>4, <3>3, LastSteps DEF Shape
    <3>5. \A n \in Node : Left(n)' => n \in residue'
      BY <1>1, <2>4, <3>1, <3>3 DEF RunInv, DemoInv, Left
    <3> QED
      BY <1>2, <3>3, <3>4, <3>5 DEF RunInv, BookInv, IdleInv, DemoInv, RealInv, TakeInv
  <2> QED
    BY <2>5, <2>6
<1> QED
  BY <1>3, <1>4

(* Applying a playbook of a take, which may be for any node. *)
LEMMA TakeApplyKeeps == ASSUME RunInv, DoApply, script = "take" PROVE RunInv'
<1>1. StepAt /\ run = "running" /\ Shape /\ at \in {3, 4, 6, 7} /\ Last = 7
  BY WhereItIs, LastSteps DEF RunInv, At, DoApply, StepAt, SharedAt
<1>2. UNCHANGED <<hosts, book, module, plan>>
  BY DEF DoApply, Apply, envVars, ctlVars
<1>3. CASE Break("failed")
  <2>1. UNCHANGED node
    BY <1>1, <1>3 DEF DoApply, Apply, Applied, Grepped, Break, Continue, Goto
  <2> QED
    BY <1>1, <1>2, <1>3, <2>1, BreakKeeps DEF RunInv, Shape, BookInv
<1>4. CASE ~Break("failed")
  <2>0. PICK b \in Playbooks : \E left :
          /\ \/ at = 3 /\ b = "L2" /\ left = StagedL2(Target(b))
             \/ at = 4 /\ b = "L3" /\ left = Activated
             \/ at = 6 /\ b = "L3Undo" /\ left = Clean
             \/ at = 7 /\ b = "L2Undo" /\ left = UndoneL2(Target(b))
          /\ Apply(b, left) /\ Target(b) # NoNode
    BY <1>1, <1>4 DEF DoApply, Apply, StepAt, SharedAt, Playbooks
  <2>1. PICK left :
          /\ \/ at = 3 /\ b = "L2" /\ left = StagedL2(Target(b))
             \/ at = 4 /\ b = "L3" /\ left = Activated
             \/ at = 6 /\ b = "L3Undo" /\ left = Clean
             \/ at = 7 /\ b = "L2Undo" /\ left = UndoneL2(Target(b))
          /\ Apply(b, left) /\ Target(b) # NoNode
    BY <2>0
  <2>2. /\ Continue /\ UNCHANGED sh
        /\ \/ Target(b) \in hosts /\ node' = [node EXCEPT ![Target(b)] = left]
           \/ Target(b) \notin hosts /\ UNCHANGED node
    BY <1>4, <2>1 DEF Apply, Applied
  <2>3. Target(b) \in hosts => Target(b) \in Targets /\ Target(b) \in Node
    BY <1>1, <2>1 DEF Shape, Targets, Target
  <2>4. /\ node' \in [Node -> NodeState]
        /\ \A n \in Node : n # Target(b) => node'[n] = node[n]
        /\ Target(b) \in hosts => node'[Target(b)] = left
        /\ Target(b) \notin hosts => UNCHANGED node
    BY <1>1, <2>1, <2>2, <2>3, PlaybooksLeave DEF Shape
  <2>5. Targets' = Targets \/ script' # "take"
    BY <1>2 DEF Targets
  <2>6. \A n \in Node : Left(n)' => n \in residue \cup Targets
    BY <1>1, <2>3, <2>4 DEF RunInv, TakeInv, Left
  <2>7. b # "L2" => Target(b) \in hosts
    BY <2>1 DEF RunInv, BookInv, Target
  <2>8. OneTarget /\ b # "L2" => Targets \subseteq {Target(b)}
    BY <2>1 DEF OneTarget, Targets, Target
  <2>9. CASE at # 7
    <3>1. at' = at + 1 /\ run' = run /\ residue' = residue /\ script' = script /\ Last' = Last
      BY <1>1, <2>2, <2>9, GoesOn
    <3>2. Shape'
      BY <1>1, <1>2, <2>2, <2>4, <2>9, <3>1 DEF Shape
    <3>3. at = 6 /\ OneTarget => \A n \in Targets : ~Left(n)'
      BY <2>1, <2>4, <2>7, <2>8 DEF Left
    <3>4. TakeInv'
      <4>1. (OneTarget' <=> OneTarget) /\ Targets' = Targets
        BY <1>2, <3>1 DEF OneTarget, Targets
      <4> QED
        BY <1>1, <2>6, <3>1, <3>3, <4>1 DEF TakeInv
    <3> QED
      BY <1>1, <1>2, <3>1, <3>2, <3>4 DEF RunInv, BookInv, IdleInv, DemoInv, RealInv
  <2>10. CASE at = 7
    <3>1. /\ at' = 1 /\ run' = "done" /\ script' = script /\ Last' = Last
          /\ residue' = IF OneTarget THEN residue \ Targets ELSE residue \cup Targets
      BY <1>1, <2>2, <2>10, GoesOn
    <3>2. Shape'
      BY <1>1, <1>2, <2>2, <2>4, <3>1 DEF Shape
    <3>3. OneTarget => \A n \in Targets : ~Left(n)'
      <4> SUFFICES ASSUME OneTarget, NEW n \in Targets PROVE ~Left(n)'
        OBVIOUS
      <4>1. n = Target(b) /\ n \in Node /\ left = UndoneL2(n) /\ n \in hosts
        BY <2>1, <2>3, <2>7, <2>8, <2>10
      <4>2. node[n] = Clean
        BY <1>1, <2>10 DEF RunInv, TakeInv, Left
      <4> QED
        BY <1>1, <2>4, <4>1, <4>2, PlaybooksLeave DEF Left
    <3>4. IdleInv'
      BY <2>6, <3>1, <3>3 DEF IdleInv
    <3> QED
      BY <1>2, <3>1, <3>2, <3>4 DEF RunInv, BookInv, DemoInv, RealInv, TakeInv
  <2> QED
    BY <2>9, <2>10
<1> QED
  BY <1>3, <1>4

(* The operator. *)
LEMMA OperatorKeeps ==
  ASSUME RunInv, Abort \/ Down \/ (\E s \in Scripts : Start(s)) \/ (\E t \in Topologies : Up(t))
  PROVE  RunInv'
<1>1. CASE Abort
  <2>1. DOMAIN book' = Playbooks /\ BookInv'
    BY <1>1 DEF Abort, Generates, EmptyBook, Playbooks, RunInv, Shape, BookInv, envVars
  <2> QED
    BY <1>1, <2>1, BreakKeeps DEF Abort, RunInv, Shape, envVars
<1>2. ASSUME NEW s \in Scripts, Start(s) PROVE RunInv'
  <2>1. Last' \in Nat /\ Last' >= 1
    <3>1. script' = s
      BY <1>2 DEF Start
    <3>2. Last' = Len(Steps[s])
      BY <3>1 DEF Last
    <3> QED
      BY <3>2, StepCounts
  <2>2. /\ run' = "running" /\ script' = s /\ at' = 1 /\ sh' = EmptyShell
        /\ UNCHANGED <<hosts, node, module, plan, book, residue>> /\ run # "running"
    BY <1>2 DEF Start, envVars, ctlVars
  <2>3. Shape'
    BY <2>1, <2>2 DEF RunInv, Shape, EmptyShell, ShellVars
  <2> QED
    BY <2>2, <2>3 DEF EmptyShell, RunInv, BookInv, IdleInv, DemoInv, RealInv, TakeInv, Left
<1>3. ASSUME CtlIsNew, hosts' \subseteq Node, node' \in [Node -> NodeState],
             \A n \in Node : Left(n)' => n \in residue'
      PROVE  RunInv'
  <2>1. script' = "demo" /\ "demo" \in Scripts /\ Last' = 15
    BY <1>3, Lengths, ScriptNames DEF CtlIsNew, Last, Steps
  <2>2. DOMAIN sh' = ShellVars
    BY <1>3 DEF CtlIsNew, EmptyShell, ShellVars
  <2>3. DOMAIN plan' = {"demo", "real"} /\ DOMAIN plan'["real"] = {"node", "finding", "snap", "key"}
    BY <1>3 DEF CtlIsNew, NoPlan
  <2>4. Shape'
    BY <1>3, <2>1, <2>2, <2>3 DEF CtlIsNew, Shape
  <2> QED
    BY <1>3, <2>4 DEF CtlIsNew, RunInv, BookInv, NoBook, IdleInv, DemoInv, RealInv, TakeInv
<1>4. Clean \in NodeState
  BY DEF Clean, NodeState
<1>5. ASSUME NEW t \in Topologies, Up(t) PROVE RunInv'
  <2>1. PICK replaced \in SUBSET t :
          /\ node' = [n \in Node |-> IF n \in replaced THEN Clean ELSE node[n]]
          /\ residue' = residue \ replaced
    BY <1>5 DEF Up
  <2>2. hosts' \subseteq Node /\ CtlIsNew /\ run # "running"
    BY <1>5, DemoRunAssumption DEF Up
  <2>3. node' \in [Node -> NodeState]
    BY <1>4, <2>1 DEF RunInv, Shape
  <2>4. \A n \in Node : Left(n)' => n \in residue'
    BY <2>1, <2>2 DEF RunInv, IdleInv, Left
  <2> QED
    BY <1>3, <2>2, <2>3, <2>4
<1>6. CASE Down
  BY <1>3, <1>4, <1>6 DEF Down, Left
<1> QED
  BY <1>1, <1>2, <1>5, <1>6

LEMMA StepKeeps == RunInv /\ [DemoNext]_vars => RunInv'
<1> SUFFICES ASSUME RunInv, [DemoNext]_vars PROVE RunInv'
  OBVIOUS
<1>1. CASE DoApply
  <2>1. script \in {"real", "take"}
    BY <1>1, WhereItIs DEF RunInv, DoApply, StepAt, SharedAt
  <2> QED
    BY <1>1, <2>1, RealApplyKeeps, TakeApplyKeeps
<1>2. CASE Step /\ ~DoApply
  BY <1>2, ObservingKeeps, ChoosingKeeps, PreparingKeeps, StageSixKeeps, GeneratingKeeps DEF Step
<1>3. CASE UNCHANGED vars
  BY <1>3 DEF vars, RunInv, Shape, BookInv, IdleInv, DemoInv, RealInv, TakeInv, Left, Targets,
              OneTarget, Capable, Last
<1> QED
  BY <1>1, <1>2, <1>3, OperatorKeeps DEF DemoNext

LEMMA RunInvariant == DemoSpec => []RunInv
<1>1. DemoInit => RunInv
  <2> SUFFICES ASSUME DemoInit PROVE RunInv
    OBVIOUS
  <2>1. script = "demo" /\ "demo" \in Scripts /\ Last = 15
    BY LastSteps, ScriptNames DEF DemoInit
  <2>2. DOMAIN sh = ShellVars
    BY DEF DemoInit, EmptyShell, ShellVars
  <2>3. DOMAIN plan = {"demo", "real"} /\ DOMAIN plan["real"] = {"node", "finding", "snap", "key"}
    BY DEF DemoInit, NoPlan
  <2>4. Clean \in NodeState
    BY DEF Clean, NodeState
  <2>5. Shape
    BY <2>1, <2>2, <2>3, <2>4 DEF DemoInit, Shape
  <2> QED
    BY <2>5 DEF DemoInit, RunInv, BookInv, NoBook, IdleInv, DemoInv, RealInv, TakeInv, Left
<1> QED
  BY <1>1, StepKeeps, PTL DEF DemoSpec

-------------------------------------------------------------------------------
(***************************************************************************)
(* What a run has read of the inventory, by its next step: which snapshots *)
(* it compares, which node and finding it is going to plan for, and that   *)
(* it has a key by the time it approves.                                   *)
(***************************************************************************)
Fits(later, earlier) ==
  later = earlier \/
    /\ snapshots[later].node = snapshots[earlier].node
    /\ snapshots[later].content = Scoped(snapshots[earlier].content)

(* All OpenSSL findings of a node are noise. *)
OnlyNoise(n) == \A f \in FindingsOf(n) : Openssl(f) => f.noise

ReadInv ==
  run = "running" /\ script \in {"demo", "real"} =>
    /\ at \in 3 .. 5 => Recorded(results)
    /\ at \in 5 .. 6 => sh.pre \in SnapshotIds
    /\ at = 5 => sh.pre = Newest(snapshots[sh.pre].node)
    /\ at = 6 => Fits(Newest(snapshots[sh.pre].node), sh.pre)
    /\ at = 7 => Fits(sh.post, sh.pre)
    /\ at = 8 => SnapshotsOf(sh.node) # {}
    /\ at \in 9 .. 10 => IF sh.finding = NoFinding THEN OnlyNoise(sh.node)
                          ELSE sh.finding \in snapshots[sh.snap].content
    /\ at = 10 => sh.key = profile
    /\ at \in 10 .. 15 => sh.key # 0
    /\ script = "real" /\ at = 16 => sh.key # 0 \/ \A f \in History : ~Openssl(f)
    /\ script = "real" /\ at \in 17 .. 19 => sh.key # 0

ViewInv == InvType /\ ReadInv

(* With the same snapshots every query has the same answer. *)
LEMMA SameAnswers ==
  ASSUME UNCHANGED snapshots
  PROVE  /\ SnapshotIds' = SnapshotIds /\ History' = History
         /\ \A n : SnapshotsOf(n)' = SnapshotsOf(n) /\ Newest(n)' = Newest(n)
         /\ \A n, kept : Changed(n, kept)' <=> Changed(n, kept)
BY DEF SnapshotIds, History, SnapshotsOf, Newest, Changed

LEMMA SameType == ASSUME InvType, UNCHANGED <<results, snapshots, profile>> PROVE InvType'
BY DEF InvType, SnapshotIds

(* The steps before which a run has not read anything that still matters. *)
LEMMA NothingRead ==
  ASSUME InvType', run' = "running" /\ script' # "take" => at' \in {1, 2} \cup 20 .. 31
  PROVE  ViewInv'
BY DEF ViewInv, ReadInv

LEMMA BrokenOff == ASSUME InvType', NEW how \in {"aborted", "failed"}, Break(how) PROVE ViewInv'
BY NothingRead DEF Break

LEMMA TheHistory ==
  ASSUME InvType
  PROVE  /\ History \subseteq Finding
         /\ \A f \in History : f.node \in Node /\ SnapshotsOf(f.node) # {}
<1> SUFFICES ASSUME NEW f \in History
             PROVE  f \in Finding /\ f.node \in Node /\ SnapshotsOf(f.node) # {}
  OBVIOUS
<1>1. PICK i \in SnapshotIds : f \in snapshots[i].content
  BY DEF History
<1>2. f \in FindingsOf(snapshots[i].node)
  BY <1>1 DEF InvType, Observes
<1>3. f \in Finding /\ f.node = snapshots[i].node
  BY <1>2 DEF FindingsOf
<1>4. i \in SnapshotsOf(f.node)
  BY <1>3 DEF SnapshotsOf
<1> QED
  BY <1>3, <1>4, InventoryAssumption DEF FindingType

(* The query for a node finds one that has a snapshot, or there is no *)
(* openssl finding in the whole history.                              *)
LEMMA ServiceNodeHasSnapshots ==
  ASSUME InvType
  PROVE  /\ ServiceNode # NoNode => ServiceNode \in Node /\ SnapshotsOf(ServiceNode) # {}
         /\ ServiceNode = NoNode => \A f \in History : ~Openssl(f)
<1> DEFINE found == {f \in History : Openssl(f)}
<1>1. found # {} => FirstOf(found) \in found
  <2>1. found \subseteq Finding
    BY TheHistory
  <2> HIDE DEF found
  <2> QED
    BY <2>1, FirstIsThere
<1>2. found # {} => FirstOf(found).node \in Node /\ SnapshotsOf(FirstOf(found).node) # {}
  BY <1>1, TheHistory
<1>3. ServiceNode = IF found = {} THEN NoNode ELSE FirstOf(found).node
  BY DEF ServiceNode
<1>4. NoNode \notin Node
  BY InventoryAssumption
<1>5. found = {} => \A f \in History : ~Openssl(f)
  OBVIOUS
<1> HIDE DEF found
<1> QED
  BY <1>2, <1>3, <1>4, <1>5

(* The query for a finding finds one in the newest snapshot of the node, or *)
(* the node has no OpenSSL finding that is to be managed.                   *)
LEMMA ServiceFindingIsNewest ==
  ASSUME InvType, NEW n, SnapshotsOf(n) # {}
  PROVE  IF ServiceFinding(n) = NoFinding THEN OnlyNoise(n)
           ELSE ServiceFinding(n) \in snapshots[Newest(n)].content
<1> DEFINE content == snapshots[Newest(n)].content
           sharedSsl == {f \in content : f.lib = "libssl3" /\ f.apps >= 2}
           shared == {f \in content : f.apps >= 2}
           any == {f \in content : Openssl(f)}
<1>1. content \subseteq Finding
  BY NewestIs DEF InvType, FindingsOf, Observes
<1>2. sharedSsl \subseteq content /\ shared \subseteq content /\ any \subseteq content
  OBVIOUS
<1>3. ServiceFinding(n) =
        CASE sharedSsl # {} -> FirstOf(sharedSsl)
          [] sharedSsl = {} /\ shared # {} -> FirstOf(shared)
          [] sharedSsl = {} /\ shared = {} /\ any # {} -> FirstOf(any)
          [] OTHER -> NoFinding
  BY DEF ServiceFinding
<1> HIDE DEF sharedSsl, shared, any, content
<1>4. /\ sharedSsl # {} => FirstOf(sharedSsl) \in content
      /\ shared # {} => FirstOf(shared) \in content
      /\ any # {} => FirstOf(any) \in content
  BY <1>1, <1>2, FirstIsThere
<1>5. ServiceFinding(n) # NoFinding => ServiceFinding(n) \in content
  BY <1>3, <1>4
<1>6. ServiceFinding(n) = NoFinding => any = {}
  BY <1>1, <1>3, <1>4, InventoryAssumption
<1>7. Observes(content, n)
  BY NewestIs DEF InvType, content
<1>8. any = {} => OnlyNoise(n)
  BY <1>7 DEF any, OnlyNoise, Observes, Scoped
<1> QED
  BY <1>5, <1>6, <1>8 DEF content

(* The step that is next, in the scripts that read the inventory. *)
LEMMA NextStep ==
  ASSUME RunInv, run = "running", Continue, script # "take", NEW i \in 1 .. 31, at = i
  PROVE  /\ script \in {"demo", "real"} /\ script' = script
         /\ i = 15 /\ script = "demo" => run' = "done"
         /\ i = 31 => run' = "done"
         /\ i < 15 => run' = run /\ at' = i + 1
         /\ script = "real" /\ i < 31 => run' = run /\ at' = i + 1
         /\ script = "demo" => i <= 15
BY GoesOn, LastSteps, ScriptNames DEF RunInv, Shape

-------------------------------------------------------------------------------
(* Stage 5/6. *)
LEMMA IngestView == ASSUME RunInv, ViewInv, DoIngest PROVE ViewInv'
<1>1. StepAt /\ run = "running" /\ Continue /\ UNCHANGED <<results, profile, sh>>
  BY WhereItIs DEF RunInv, At, DoIngest, ctlVars
<1>2. script # "take" /\ at \in {2, 3}
  BY <1>1 DEF DoIngest, StepAt, StageAt
<1>3. run' = run /\ at' \in {3, 4}
  BY <1>1, <1>2, NextStep
<1>4. DOMAIN results \subseteq Node /\ (\A n \in DOMAIN results : Observes(results[n], n))
        /\ InvType
  BY DEF ViewInv, InvType
<1>5. /\ snapshots' \in Seq(Snapshot)
      /\ \A i \in SnapshotIds' : Observes(snapshots'[i].content, snapshots'[i].node)
      /\ \A n \in DOMAIN results : Newest(n)' # 0 /\ snapshots'[Newest(n)'].content = results[n]
  BY <1>4, IngestRecords DEF DoIngest
<1>6. InvType'
  BY <1>1, <1>4, <1>5 DEF InvType
<1>7. Recorded(results)'
  BY <1>1, <1>5 DEF Recorded, Changed
<1> QED
  BY <1>3, <1>6, <1>7 DEF ViewInv, ReadInv

LEMMA ReadPreView == ASSUME RunInv, ViewInv, DoReadPre PROVE ViewInv'
<1>1. StepAt /\ run = "running" /\ Continue /\ UNCHANGED <<results, snapshots, profile>>
  BY WhereItIs DEF RunInv, At, DoReadPre, inventoryVars, ctlVars
<1>2. script # "take" /\ at = 4
  BY <1>1 DEF DoReadPre, StepAt, StageAt
<1>3. run' = run /\ at' = 5 /\ script' = script /\ script \in {"demo", "real"}
  BY <1>1, <1>2, NextStep
<1>4. PICK n \in {snapshots[i].node : i \in SnapshotIds} : Set([pre |-> Newest(n)])
  BY DEF DoReadPre
<1>5. sh'.pre = Newest(n)
  BY <1>4 DEF Set, RunInv, Shape, ShellVars
<1>6. SnapshotsOf(n) # {}
  BY DEF SnapshotsOf
<1>7. InvType /\ InvType'
  BY <1>1, SameType DEF ViewInv
<1>8. sh'.pre \in SnapshotIds /\ snapshots[sh'.pre].node = n
  BY <1>5, <1>6, <1>7, NewestIs
<1>9. (sh.pre \in SnapshotIds)' /\ (sh.pre = Newest(snapshots[sh.pre].node))'
  BY <1>1, <1>5, <1>8 DEF Newest, SnapshotsOf, SnapshotIds
<1>10. Recorded(results)'
  BY <1>1, <1>2, <1>3, SameAnswers DEF ViewInv, ReadInv, Recorded
<1> QED
  BY <1>3, <1>7, <1>9, <1>10 DEF ViewInv, ReadInv

LEMMA IngestScopedView == ASSUME RunInv, ViewInv, DoIngestScoped PROVE ViewInv'
<1>1. StepAt /\ run = "running" /\ Continue /\ UNCHANGED <<results, profile, sh>>
  BY WhereItIs DEF RunInv, At, DoIngestScoped, ctlVars
<1>2. script # "take" /\ at = 5
  BY <1>1 DEF DoIngestScoped, StepAt, StageAt
<1>3. run' = run /\ at' = 6 /\ script' = script /\ script \in {"demo", "real"}
  BY <1>1, <1>2, NextStep
<1>4. /\ DOMAIN ScopedResults \subseteq Node /\ DOMAIN ScopedResults = DOMAIN results /\ InvType
      /\ \A n \in DOMAIN results : ScopedResults[n] = Scoped(results[n])
      /\ \A n \in DOMAIN ScopedResults : Observes(ScopedResults[n], n)
  BY DEF ViewInv, InvType, ScopedResults, Scoped, Observes
<1>5. /\ snapshots' \in Seq(Snapshot)
      /\ \A i \in SnapshotIds' : Observes(snapshots'[i].content, snapshots'[i].node)
      /\ \A i \in SnapshotIds : i \in SnapshotIds' /\ snapshots'[i] = snapshots[i]
      /\ \A n \in DOMAIN results : /\ Newest(n)' # 0 /\ snapshots'[Newest(n)'].node = n
                                   /\ snapshots'[Newest(n)'].content = Scoped(results[n])
      /\ \A n : n \notin DOMAIN results => Newest(n)' = Newest(n)
  <2> DEFINE kept == ScopedResults
  <2>1. Ingest(kept)
    BY DEF DoIngestScoped
  <2>2. DOMAIN kept \subseteq Node /\ \A n \in DOMAIN kept : Observes(kept[n], n)
    BY <1>4
  <2> HIDE DEF kept
  <2>3. /\ snapshots' \in Seq(Snapshot)
        /\ \A i \in SnapshotIds' : Observes(snapshots'[i].content, snapshots'[i].node)
        /\ \A i \in SnapshotIds : i \in SnapshotIds' /\ snapshots'[i] = snapshots[i]
        /\ \A n \in DOMAIN kept : /\ Newest(n)' # 0 /\ snapshots'[Newest(n)'].node = n
                                  /\ snapshots'[Newest(n)'].content = kept[n]
        /\ \A n : n \notin DOMAIN kept => Newest(n)' = Newest(n)
    BY <1>4, <2>1, <2>2, IngestRecords
  <2> QED
    BY <1>4, <2>3 DEF kept
<1>6. InvType'
  BY <1>1, <1>4, <1>5 DEF InvType
<1>7. /\ sh.pre \in SnapshotIds /\ sh.pre = Newest(snapshots[sh.pre].node)
      /\ \A n \in DOMAIN results : ~Changed(n, results[n])
  BY <1>1, <1>2, <1>3 DEF ViewInv, ReadInv, Recorded
<1>8. PICK p, n : p = sh.pre /\ n = snapshots[p].node
  OBVIOUS
<1>9. p \in SnapshotIds' /\ snapshots'[p] = snapshots[p] /\ p = Newest(n)
  BY <1>5, <1>7, <1>8
<1>10. \/ Newest(n)' = p
       \/ snapshots'[Newest(n)'].node = n /\ snapshots'[Newest(n)'].content = Scoped(snapshots[p].content)
  <2>1. CASE n \in DOMAIN results
    <3>1. snapshots[p].content = results[n]
      BY <1>7, <1>9, <2>1 DEF Changed
    <3> QED
      BY <1>5, <2>1, <3>1
  <2> QED
    BY <1>5, <1>9, <2>1
<1>11. Newest(snapshots[sh.pre].node)' = Newest(n)'
  BY <1>1, <1>8, <1>9 DEF Newest, SnapshotsOf, SnapshotIds
<1>12. Fits(Newest(snapshots[sh.pre].node), sh.pre)'
  BY <1>1, <1>8, <1>9, <1>10, <1>11 DEF Fits, Scoped
<1>13. (sh.pre \in SnapshotIds)'
  BY <1>1, <1>8, <1>9
<1> QED
  BY <1>3, <1>6, <1>12, <1>13 DEF ViewInv, ReadInv

LEMMA ReadPostView == ASSUME RunInv, ViewInv, DoReadPost PROVE ViewInv'
<1>1. StepAt /\ run = "running" /\ Continue /\ UNCHANGED <<results, snapshots, profile>>
  BY WhereItIs DEF RunInv, At, DoReadPost, inventoryVars, ctlVars
<1>2. script # "take" /\ at = 6
  BY <1>1 DEF DoReadPost, StepAt, StageAt
<1>3. run' = run /\ at' = 7 /\ script' = script /\ script \in {"demo", "real"}
  BY <1>1, <1>2, NextStep
<1>4. sh'.post = Newest(snapshots[sh.pre].node) /\ sh'.pre = sh.pre
  BY DEF DoReadPost, Set, RunInv, Shape, ShellVars
<1>5. Fits(Newest(snapshots[sh.pre].node), sh.pre)
  BY <1>1, <1>2, <1>3 DEF ViewInv, ReadInv
<1>6. Fits(sh.post, sh.pre)'
  BY <1>1, <1>4, <1>5 DEF Fits
<1>7. InvType'
  BY <1>1, SameType DEF ViewInv
<1> QED
  BY <1>3, <1>6, <1>7 DEF ViewInv, ReadInv

-------------------------------------------------------------------------------
(* Stage 6/6 and the real stage. *)
LEMMA PickNodeView == ASSUME RunInv, ViewInv, DoPickNode PROVE ViewInv'
<1>1. StepAt /\ run = "running" /\ UNCHANGED <<results, snapshots, profile>>
  BY WhereItIs DEF RunInv, At, DoPickNode, inventoryVars, ctlVars
<1>2. script \in {"demo", "real"} /\ at = 7
  BY <1>1, ScriptNames DEF DoPickNode, StepAt, StageAt, RunInv, Shape
<1>3. InvType /\ InvType'
  BY <1>1, SameType DEF ViewInv
<1>4. CASE ServiceNode = NoNode
  <2>1. Goto(16)
    BY <1>4, Lengths DEF DoPickNode, StageSixEnd
  <2>2. script' = script /\ (script = "demo" => run' = "done") /\ (script = "real" => at' = 16)
    BY <1>2, <2>1, LastSteps DEF Goto
  <2>3. \A f \in History' : ~Openssl(f)
    BY <1>1, <1>3, <1>4, ServiceNodeHasSnapshots, SameAnswers
  <2> QED
    BY <1>2, <1>3, <2>2, <2>3 DEF ViewInv, ReadInv
<1>5. CASE ServiceNode # NoNode
  <2>1. run' = run /\ at' = 8 /\ script' = script
    BY <1>1, <1>2, <1>5, NextStep DEF DoPickNode
  <2>2. sh'.node = ServiceNode
    BY DEF DoPickNode, Set, RunInv, Shape, ShellVars
  <2>3. PICK n : n = ServiceNode
    OBVIOUS
  <2>4. SnapshotsOf(n)' # {}
    BY <1>1, <1>3, <1>5, <2>3, ServiceNodeHasSnapshots, SameAnswers
  <2>5. SnapshotsOf(sh.node)' # {}
    BY <2>2, <2>3, <2>4 DEF SnapshotsOf
  <2> QED
    BY <1>2, <1>3, <2>1, <2>5 DEF ViewInv, ReadInv
<1> QED
  BY <1>4, <1>5

LEMMA PickFindingView == ASSUME RunInv, ViewInv, DoPickFinding PROVE ViewInv'
<1>1. StepAt /\ run = "running" /\ Continue /\ UNCHANGED <<results, snapshots, profile>>
  BY WhereItIs DEF RunInv, At, DoPickFinding, inventoryVars, ctlVars
<1>2. script # "take" /\ at = 8
  BY <1>1 DEF DoPickFinding, StepAt, StageAt
<1>3. run' = run /\ at' = 9 /\ script \in {"demo", "real"}
  BY <1>1, <1>2, NextStep
<1>4. /\ sh'.finding = ServiceFinding(sh.node) /\ sh'.snap = Newest(sh.node)
      /\ sh'.node = sh.node
  BY DEF DoPickFinding, Set, RunInv, Shape, ShellVars
<1>5. SnapshotsOf(sh.node) # {} /\ InvType
  BY <1>1, <1>2, <1>3 DEF ViewInv, ReadInv
<1>6. IF sh'.finding = NoFinding THEN OnlyNoise(sh'.node)
        ELSE sh'.finding \in snapshots'[sh'.snap].content
  BY <1>1, <1>4, <1>5, ServiceFindingIsNewest
<1>7. InvType'
  BY <1>1, SameType DEF ViewInv
<1> QED
  BY <1>3, <1>6, <1>7 DEF ViewInv, ReadInv

LEMMA KeygenView == ASSUME RunInv, ViewInv, DoKeygen PROVE ViewInv'
<1>1. StepAt /\ run = "running" /\ Continue /\ UNCHANGED <<results, snapshots>>
  BY WhereItIs DEF RunInv, At, DoKeygen, inventoryVars
<1>2. script # "take" /\ at = 9
  BY <1>1 DEF DoKeygen, StepAt, StageAt
<1>3. run' = run /\ at' = 10 /\ script \in {"demo", "real"}
  BY <1>1, <1>2, NextStep
<1>4. /\ sh'.key = profile + 1 /\ profile' = profile + 1
      /\ sh'.finding = sh.finding /\ sh'.snap = sh.snap /\ sh'.node = sh.node
  BY DEF DoKeygen, Set, RunInv, Shape, ShellVars
<1>5. InvType' /\ profile \in Nat
  BY <1>1, <1>4 DEF ViewInv, InvType, SnapshotIds
<1>6. IF sh'.finding = NoFinding THEN OnlyNoise(sh'.node)
        ELSE sh'.finding \in snapshots'[sh'.snap].content
  BY <1>1, <1>2, <1>3, <1>4 DEF ViewInv, ReadInv
<1> QED
  BY <1>3, <1>4, <1>5, <1>6 DEF ViewInv, ReadInv

(* The steps that follow do not touch the key. *)
LEMMA ProvisionView ==
  ASSUME RunInv, ViewInv, DoPlan \/ DoStub \/ DoStageSix \/ DoBuild \/ DoPlanReal
  PROVE  ViewInv'
<1>1. StepAt /\ run = "running" /\ UNCHANGED <<results, snapshots, profile>>
  BY WhereItIs DEF RunInv, At, DoPlan, DoStub, DoStageSix, DoBuild, DoPlanReal,
                   inventoryVars, ctlVars
<1>2. script # "take" /\ at \in {10, 11, 12, 13, 14, 15, 17, 18} /\ (at \in {17, 18} => script = "real")
  BY <1>1 DEF DoPlan, DoStub, DoStageSix, DoBuild, DoPlanReal, StepAt, StageAt, RealAt
<1>3. InvType'
  BY <1>1, SameType DEF ViewInv
<1>4. Break("failed") \/ (Continue /\ UNCHANGED sh)
  BY <1>2 DEF DoPlan, DoStub, DoStageSix, DoBuild, DoPlanReal, Applied
<1>5. CASE Continue /\ UNCHANGED sh
  <2>1. /\ script \in {"demo", "real"} /\ script' = script
        /\ at' = at + 1 \/ run' = "done"
    BY <1>1, <1>2, <1>5, NextStep
  <2>2. sh.key # 0
    BY <1>1, <1>2, <2>1 DEF ViewInv, ReadInv
  <2>3. at' \in {11, 12, 13, 14, 15, 16, 18, 19} \/ run' = "done"
    BY <1>2, <2>1
  <2> QED
    BY <1>3, <1>5, <2>2, <2>3 DEF ViewInv, ReadInv
<1> QED
  BY <1>3, <1>4, <1>5, BrokenOff

(* The real stage goes on only with a node that has an openssl finding. *)
LEMMA PickBandView == ASSUME RunInv, ViewInv, DoPickBand PROVE ViewInv'
<1>1. StepAt /\ run = "running" /\ UNCHANGED <<results, snapshots, profile>>
  BY WhereItIs DEF RunInv, At, DoPickBand, inventoryVars, ctlVars
<1>2. script = "real" /\ at = 16 /\ Last = 31
  BY <1>1, LastSteps DEF DoPickBand, StepAt, RealAt
<1>3. InvType'
  BY <1>1, SameType DEF ViewInv
<1>4. CASE BandNode = NoNode
  <2>1. run' = "done"
    BY <1>2, <1>4 DEF DoPickBand, Goto
  <2> QED
    BY <1>3, <2>1, NothingRead
<1>5. CASE BandNode # NoNode
  <2>1. at' = 17
    BY <1>2, <1>5 DEF DoPickBand, Goto
  <2>2. PICK i \in SnapshotIds : InBand(i) # {}
    BY <1>5 DEF BandNode, BandSnapshots
  <2>3. \E f \in History : Openssl(f)
    BY <2>2 DEF InBand, History
  <2>4. sh.key # 0
    BY <1>1, <1>2, <2>3 DEF ViewInv, ReadInv
  <2>5. sh'.key = sh.key
    BY <1>5 DEF DoPickBand, Set, RunInv, Shape, ShellVars
  <2> QED
    BY <1>3, <2>1, <2>4, <2>5 DEF ViewInv, ReadInv
<1> QED
  BY <1>4, <1>5

(* Discovery, and what the real stage does with its approval, or a take with *)
(* what it finds.                                                            *)
LEMMA RestView ==
  ASSUME RunInv, ViewInv,
         DoDiscover \/ DoApproveReal \/ DoGenerate \/ DoApply \/ DoMeasure \/ DoReingest
           \/ DoCompare \/ DoGuard
  PROVE  ViewInv'
<1>1. StepAt /\ run = "running" /\ UNCHANGED profile
  BY WhereItIs DEF RunInv, At, DoDiscover, DoApproveReal, DoGenerate, DoApply, Apply, DoMeasure,
                   DoReingest, DoCompare, DoGuard, ctlVars
<1>2. script = "take" \/ at = 1 \/ (script = "real" /\ at \in 19 .. 31)
  BY <1>1 DEF DoDiscover, DoApproveReal, DoGenerate, DoApply, DoMeasure, DoReingest,
              DoCompare, DoGuard, StepAt, StageAt, RealAt, SharedAt, Generates
<1>3. Break("failed") \/ Break("aborted") \/ Continue
  BY DEF DoDiscover, DoApproveReal, DoGenerate, DoApply, Apply, Applied, DoMeasure, DoReingest,
         DoCompare, DoGuard
<1>4. InvType
  BY DEF ViewInv
<1>5. InvType'
  <2>1. CASE DoDiscover
    <3>1. /\ results' = [n \in DOMAIN results \cup hosts |->
                           IF n \in hosts THEN FindingsOf(n) ELSE results[n]]
          /\ UNCHANGED snapshots /\ hosts \subseteq Node
      BY <2>1 DEF DoDiscover, Discover, RunInv, Shape
    <3>2. DOMAIN results' \subseteq Node /\ \A n \in DOMAIN results' : Observes(results'[n], n)
      BY <1>4, <3>1 DEF InvType, Observes, Scoped
    <3> QED
      BY <1>1, <1>4, <3>1, <3>2 DEF InvType, SnapshotIds
  <2>2. CASE DoReingest
    <3>1. /\ snapshots' \in Seq(Snapshot)
          /\ \A i \in SnapshotIds' : Observes(snapshots'[i].content, snapshots'[i].node)
      <4>1. DOMAIN results \subseteq Node /\ \A n \in DOMAIN results : Observes(results[n], n)
        BY <1>4 DEF InvType
      <4> QED
        BY <1>4, <2>2, <4>1, IngestRecords DEF DoReingest
    <3> QED
      BY <1>1, <1>4, <2>2, <3>1 DEF InvType, DoReingest
  <2>3. CASE ~DoDiscover /\ ~DoReingest
    <3>1. UNCHANGED <<results, snapshots>>
      BY <2>3 DEF DoApproveReal, DoGenerate, DoApply, Apply, DoMeasure, DoCompare, DoGuard,
                  inventoryVars
    <3> QED
      BY <1>1, <1>4, <3>1, SameType
  <2> QED
    BY <2>1, <2>2, <2>3
<1>6. CASE Continue
  <2>1. script' = script
    BY <1>6 DEF Continue, Goto
  <2>2. script # "take" => run' = "done" \/ at' \in {2} \cup 20 .. 31
    BY <1>1, <1>2, <1>6, NextStep
  <2> QED
    BY <1>5, <2>1, <2>2, NothingRead
<1> QED
  BY <1>3, <1>5, <1>6, BrokenOff

LEMMA OperatorView ==
  ASSUME RunInv, ViewInv,
         Abort \/ Down \/ (\E s \in Scripts : Start(s)) \/ (\E t \in Topologies : Up(t))
  PROVE  ViewInv'
<1>1. CASE Abort
  <2>1. InvType' /\ Break("aborted")
    BY <1>1, SameType DEF Abort, inventoryVars, ViewInv
  <2> QED
    BY <2>1, BrokenOff
<1>2. ASSUME NEW s \in Scripts, Start(s) PROVE ViewInv'
  <2>1. InvType' /\ at' = 1
    BY <1>2, SameType DEF Start, inventoryVars, ctlVars, ViewInv
  <2> QED
    BY <2>1, NothingRead
<1>3. ASSUME CtlIsNew, UNCHANGED snapshots \/ snapshots' = << >> PROVE ViewInv'
  <2>1. snapshots' \in Seq(Snapshot)
    <3>1. << >> \in Seq(Snapshot)
      OBVIOUS
    <3> QED
      BY <1>3, <3>1 DEF ViewInv, InvType
  <2>2. \A i \in SnapshotIds' : Observes(snapshots'[i].content, snapshots'[i].node)
    BY <1>3 DEF ViewInv, InvType, SnapshotIds
  <2>3. DOMAIN results' = {} /\ profile' = 0 /\ at' = 1
    BY <1>3 DEF CtlIsNew
  <2>4. InvType'
    BY <2>1, <2>2, <2>3 DEF InvType
  <2> QED
    BY <2>3, <2>4, NothingRead
<1>4. ASSUME NEW t \in Topologies, Up(t) PROVE ViewInv'
  BY <1>3, <1>4 DEF Up
<1>5. CASE Down
  BY <1>3, <1>5 DEF Down
<1> QED
  BY <1>1, <1>2, <1>4, <1>5

LEMMA ViewKeeps == RunInv /\ ViewInv /\ [DemoNext]_vars => ViewInv'
<1> SUFFICES ASSUME RunInv, ViewInv, [DemoNext]_vars PROVE ViewInv'
  OBVIOUS
<1>1. CASE Step
  BY <1>1, IngestView, ReadPreView, IngestScopedView, ReadPostView, PickNodeView, PickFindingView,
     KeygenView, ProvisionView, PickBandView, RestView DEF Step
<1>2. CASE UNCHANGED vars
  <2>1. UNCHANGED <<results, snapshots, profile, run, script, at, sh>>
    BY <1>2 DEF vars
  <2>2. InvType'
    BY <2>1, SameType DEF ViewInv
  <2>3. Recorded(results)' <=> Recorded(results)
    BY <2>1, SameAnswers DEF Recorded
  <2>4. Newest(snapshots[sh.pre].node)' = Newest(snapshots[sh.pre].node)
    BY <2>1 DEF Newest, SnapshotsOf, SnapshotIds
  <2>5. SnapshotsOf(sh.node)' = SnapshotsOf(sh.node)
    BY <2>1 DEF SnapshotsOf, SnapshotIds
  <2>6. /\ Fits(Newest(snapshots[sh.pre].node), sh.pre)' <=> Fits(Newest(snapshots[sh.pre].node), sh.pre)
        /\ Fits(sh.post, sh.pre)' <=> Fits(sh.post, sh.pre)
    BY <2>1, <2>4 DEF Fits
  <2>7. ReadInv'
    BY <2>1, <2>3, <2>4, <2>5, <2>6, SameAnswers DEF ViewInv, ReadInv
  <2> QED
    BY <2>2, <2>7 DEF ViewInv
<1> QED
  BY <1>1, <1>2, OperatorView DEF DemoNext

LEMMA ViewInvariant == DemoSpec => []ViewInv
<1>1. DemoInit => ViewInv
  BY DEF DemoInit, InventoryInit, ViewInv, InvType, ReadInv, SnapshotIds
<1> QED
  BY <1>1, RunInvariant, ViewKeeps, PTL DEF DemoSpec

-------------------------------------------------------------------------------
(***************************************************************************)
(* What is on a node between two runs was left by a run that broke off or  *)
(* by a take with playbooks of several nodes, whatever ran since, on any   *)
(* topologies and findings.                                                *)
(***************************************************************************)
THEOREM LeftoversAccounted == DemoSpec => []LeftoversAreAccountedFor
<1>1. RunInv => LeftoversAreAccountedFor
  BY DEF RunInv, IdleInv, Left, LeftoversAreAccountedFor
<1> QED
  BY <1>1, RunInvariant, PTL

(***************************************************************************)
(* The real stage measures the real module on the node it is for, whatever *)
(* module an earlier run put on the controller.                            *)
(***************************************************************************)
THEOREM RealLands == DemoSpec => []RealProviderLands
<1>1. RunInv => RealProviderLands
  BY WhereItIs DEF RunInv, RealInv, RealProviderLands, StepAt, RealAt, At
<1> QED
  BY <1>1, RunInvariant, PTL

(***************************************************************************)
(* The real stage has the key that stage 6/6 defines whenever it approves, *)
(* although it is outside the branch that defines it: a node with a        *)
(* finding in the band makes stage 6/6 take that branch.                   *)
(***************************************************************************)
THEOREM RealHasApprover == DemoSpec => []RealStageHasApprover
<1>1. RunInv /\ ViewInv => RealStageHasApprover
  BY WhereItIs DEF RunInv, ViewInv, ReadInv, RealStageHasApprover, StepAt, RealAt, At
<1> QED
  BY <1>1, RunInvariant, ViewInvariant, PTL

(***************************************************************************)
(* What stage 5/6 shows as removed by the scope is the noise and no more,  *)
(* whatever snapshots earlier runs and topologies left in the inventory.   *)
(***************************************************************************)
THEOREM DiffIsTheScope == DemoSpec => []DiffShowsTheScope
<1>1. RunInv /\ ViewInv => DiffShowsTheScope
  <2> SUFFICES ASSUME RunInv, ViewInv, At("pickNode"), sh.pre # sh.post
               PROVE  /\ snapshots[sh.post].node = snapshots[sh.pre].node
                      /\ snapshots[sh.post].content = Scoped(snapshots[sh.pre].content)
    BY DEF DiffShowsTheScope
  <2>1. run = "running" /\ at = 7 /\ script \in {"demo", "real"}
    BY WhereItIs, ScriptNames DEF RunInv, Shape, StepAt, StageAt, At
  <2> QED
    BY <2>1 DEF ViewInv, ReadInv, Fits
<1> QED
  BY <1>1, RunInvariant, ViewInvariant, PTL

(***************************************************************************)
(* Stage 6/6 is never refused its playbook: the approval verifies with the *)
(* key of the same run, whatever earlier runs left.  Its plan names a      *)
(* finding of the snapshot it names, or none on a node whose OpenSSL       *)
(* findings are all noise.                                                 *)
(***************************************************************************)
THEOREM PlanIsSound == DemoSpec => PlanLosesOnlyNoise
<1>1. RunInv /\ ViewInv =>
        (DoPlan => /\ run' = "running"
                   /\ IF sh.finding = NoFinding
                        THEN \A f \in FindingsOf(sh.node) : Openssl(f) => f.noise
                        ELSE sh.finding \in snapshots[sh.snap].content)
  <2> SUFFICES ASSUME RunInv, ViewInv, DoPlan
               PROVE  /\ run' = "running"
                      /\ IF sh.finding = NoFinding THEN OnlyNoise(sh.node)
                           ELSE sh.finding \in snapshots[sh.snap].content
    BY DEF OnlyNoise
  <2>1. run = "running" /\ at = 10 /\ script \in {"demo", "real"}
    BY WhereItIs, ScriptNames DEF RunInv, Shape, StepAt, StageAt, At, DoPlan
  <2>2. /\ sh.key = profile /\ sh.key # 0
        /\ IF sh.finding = NoFinding THEN OnlyNoise(sh.node)
             ELSE sh.finding \in snapshots[sh.snap].content
    BY <2>1 DEF ViewInv, ReadInv
  <2>3. Verified(ShellPlan)
    BY <2>2 DEF Verified, ShellPlan
  <2>4. Continue
    BY <2>3 DEF DoPlan
  <2> QED
    BY <2>1, <2>2, <2>4, NextStep
<1> QED
  BY <1>1, RunInvariant, ViewInvariant, PTL DEF PlanLosesOnlyNoise
=============================================================================
