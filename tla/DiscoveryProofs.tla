--------------------------- MODULE DiscoveryProofs ---------------------------
(***************************************************************************)
(* From a topology to observed edges, for any topologies, windows,         *)
(* timeouts and delays of the capture: what the count of demo.sh is worth, *)
(* what the repeated rounds of traffic make up for, and what topogen lets  *)
(* through that compose does not start.                                    *)
(***************************************************************************)
EXTENDS Discovery, NumberFacts, TLAPS

Keys(n) == {Key(x) : x \in Range(files.traffic[n])}

(* An edge that only the first network carries and that is not caught yet  *)
(* is going to be tried within the window, or was tried before netcap      *)
(* heard, and then this round ends early enough for another one.           *)
HeardInv(n) ==
  phase[n] # "binding" /\ bound[n] <= Window + 1 - 2 * RoundMax(n) =>
    \A i \in DOMAIN files.traffic[n] :
      OnFirstOnly(n, files.traffic[n][i]) /\ Key(files.traffic[n][i]) \notin caught[n] =>
        /\ phase[n] = "traffic"
        /\ i \in left[n] => clock[n] + Longest(n, left[n]) <= Window
        /\ i \notin left[n] => clock[n] + Longest(n, left[n]) <= bound[n] + RoundMax(n) - 2

NodeInv(n) ==
  /\ phase[n] \in {"binding", "traffic", "waiting", "done"}
  /\ clock[n] \in Nat /\ bound[n] \in Nat
  /\ left[n] \subseteq DOMAIN files.traffic[n]
  /\ caught[n] \subseteq Keys(n) /\ results[n] \subseteq Keys(n)
  /\ phase[n] = "done" => results[n] = caught[n]
  /\ HeardInv(n)

Stages == {"written", "generated", "observing"} \cup Stopped

StageInv ==
  /\ stage \in Stages
  /\ topology \in Topologies
  /\ stage \notin {"written", "rejected"} => Accepted(topology) /\ files = Files(topology)
  /\ stage = "failed" => ~Startable(files.compose)
  /\ stage \in {"written", "rejected", "generated", "failed"} => DOMAIN phase = {}
  /\ stage \in {"enough", "goneOn"} => \A n \in Observers : phase[n] = "done"
  /\ stage = "enough" => ObservedEdges >= files.edgeCount
  /\ stage = "goneOn" => ObservedEdges < files.edgeCount

ObservingInv ==
  stage \in {"observing", "enough", "goneOn"} =>
    /\ DOMAIN phase = Observers /\ DOMAIN clock = Observers /\ DOMAIN bound = Observers
    /\ DOMAIN left = Observers /\ DOMAIN caught = Observers /\ DOMAIN results = Observers
    /\ \A n \in Observers : NodeInv(n)

DiscoveryInv == StageInv /\ ObservingInv

-------------------------------------------------------------------------------
(* The files. *)
LEMMA WhatTrafficIs ==
  ASSUME NEW s \in TopologyType, NEW id
  PROVE  /\ DOMAIN TrafficOf(s, id) = {j \in DOMAIN s.edges : s.edges[j].from = id}
         /\ \A i \in DOMAIN TrafficOf(s, id) :
              /\ i \in DOMAIN s.edges /\ s.edges[i].from = id
              /\ Key(TrafficOf(s, id)[i]) = <<s.edges[i].to, PortOf(s.edges[i])>>
         /\ IsFiniteSet(DOMAIN TrafficOf(s, id)) /\ DOMAIN TrafficOf(s, id) \subseteq Nat
<1>1. DOMAIN s.edges = 1 .. Len(s.edges) /\ Len(s.edges) \in Nat
  BY DEF TopologyType
<1>2. IsFiniteSet(DOMAIN s.edges) /\ DOMAIN s.edges \subseteq Nat
  BY <1>1, FS_Interval
<1>3. DOMAIN TrafficOf(s, id) = {j \in DOMAIN s.edges : s.edges[j].from = id}
  BY DEF TrafficOf
<1>4. IsFiniteSet(DOMAIN TrafficOf(s, id))
  BY <1>2, <1>3, FS_Subset
<1>5. \A i \in DOMAIN TrafficOf(s, id) :
        Key(TrafficOf(s, id)[i]) = <<s.edges[i].to, PortOf(s.edges[i])>>
  BY DEF TrafficOf, Key
<1> QED
  BY <1>2, <1>3, <1>4, <1>5

(* While the files stay, so does all that is read off them. *)
LEMMA SameFiles ==
  ASSUME UNCHANGED files
  PROVE  /\ Observers' = Observers
         /\ \A n : Keys(n)' = Keys(n) /\ RoundMax(n)' = RoundMax(n)
         /\ \A n, S : Longest(n, S)' = Longest(n, S)
         /\ \A n, x : OnFirstOnly(n, x)' <=> OnFirstOnly(n, x)
<1>1. \A n, m : Routes(n, m)' = Routes(n, m) /\ First(n)' = First(n)
  BY DEF Routes, First, ServiceOf
<1>2. \A n, x : Live(n, x)' <=> Live(n, x)
  BY <1>1 DEF Live, ServiceOf
<1>3. \A n : LiveAt(n)' = LiveAt(n)
  BY <1>2 DEF LiveAt
<1>4. \A n, S : Longest(n, S)' = Longest(n, S)
  BY <1>3 DEF Longest
<1> QED
  BY <1>1, <1>2, <1>3, <1>4 DEF Observers, Keys, RoundMax, OnFirstOnly

(* What a target takes at most, and what a round of them. *)
AtMost(n, i) == IF i \in LiveAt(n) THEN 1 ELSE Timeout

LEMMA Products ==
  /\ \A a, b \in Nat : a * b \in Nat /\ a * (b + 1) = a * b + a
  /\ \A a, b, c \in Nat : b <= c => a * b <= a * c
<1>1. \A a, b \in Nat : a * b \in Nat /\ a * (b + 1) = a * b + a
  OBVIOUS
<1>2. ASSUME NEW a \in Nat, NEW b \in Nat, NEW c \in Nat, b <= c PROVE a * b <= a * c
  <2>1. PICK d \in Nat : c = b + d
    BY <1>2
  <2>2. a * c = a * b + a * d /\ a * d \in Nat
    BY <2>1
  <2> QED
    BY <2>2
<1> QED
  BY <1>1, <1>2

LEMMA LongestShrinks ==
  ASSUME NEW n, NEW D, IsFiniteSet(D), NEW S, S \subseteq D
  PROVE  /\ Longest(n, S) \in Nat /\ Longest(n, S) <= Longest(n, D)
         /\ \A i \in S : Longest(n, S) = Longest(n, S \ {i}) + AtMost(n, i)
<1> DEFINE live(T) == T \cap LiveAt(n)
           dead(T) == T \ LiveAt(n)
<1>0. IsFiniteSet(S)
  BY FS_Subset
<1>1. ASSUME NEW T, IsFiniteSet(T)
      PROVE  /\ IsFiniteSet(live(T)) /\ IsFiniteSet(dead(T))
             /\ Cardinality(live(T)) \in Nat /\ Cardinality(dead(T)) \in Nat
  <2>1. live(T) \in SUBSET T /\ dead(T) \in SUBSET T
    OBVIOUS
  <2> HIDE DEF live, dead
  <2> QED
    BY <1>1, <2>1, FS_Subset, FS_CardinalityType
<1>2. \A T : Longest(n, T) = Cardinality(live(T)) + Timeout * Cardinality(dead(T))
  BY DEF Longest
<1>3. Timeout \in Nat
  BY BoundsAreNumbers
<1>4. Longest(n, S) \in Nat
  <2> HIDE DEF live, dead
  <2>1. Cardinality(live(S)) \in Nat /\ Cardinality(dead(S)) \in Nat
    BY <1>0, <1>1
  <2>2. Timeout * Cardinality(dead(S)) \in Nat
    BY <1>3, <2>1, Products
  <2> QED
    BY <1>2, <2>1, <2>2
<1>5. Longest(n, S) <= Longest(n, D)
  <2>1. live(S) \in SUBSET live(D) /\ dead(S) \in SUBSET dead(D)
    OBVIOUS
  <2> HIDE DEF live, dead
  <2>2. Cardinality(live(S)) <= Cardinality(live(D)) /\ Cardinality(dead(S)) <= Cardinality(dead(D))
    BY <1>1, <2>1, FS_Subset
  <2>3. Timeout * Cardinality(dead(S)) <= Timeout * Cardinality(dead(D))
    BY <1>0, <1>1, <1>3, <2>2, Products
  <2>4. Timeout * Cardinality(dead(S)) \in Nat /\ Timeout * Cardinality(dead(D)) \in Nat
    BY <1>0, <1>1, <1>3, Products
  <2> QED
    BY <1>0, <1>1, <1>2, <2>2, <2>3, <2>4
<1>6. ASSUME NEW i \in S, i \in LiveAt(n) PROVE Longest(n, S) = Longest(n, S \ {i}) + 1
  <2>1. live(S \ {i}) = live(S) \ {i} /\ i \in live(S) /\ dead(S \ {i}) = dead(S)
    BY <1>6
  <2> HIDE DEF live, dead
  <2>2. Cardinality(live(S \ {i})) = Cardinality(live(S)) - 1
    BY <1>0, <1>1, <2>1, FS_RemoveElement
  <2>3. Timeout * Cardinality(dead(S)) \in Nat
    BY <1>0, <1>1, <1>3, Products
  <2> QED
    BY <1>0, <1>1, <1>2, <2>1, <2>2, <2>3
<1>7. ASSUME NEW i \in S, i \notin LiveAt(n) PROVE Longest(n, S) = Longest(n, S \ {i}) + Timeout
  <2>1. dead(S \ {i}) = dead(S) \ {i} /\ i \in dead(S) /\ live(S \ {i}) = live(S)
    BY <1>7
  <2>2. IsFiniteSet(S \ {i})
    BY <1>0, FS_RemoveElement
  <2> HIDE DEF live, dead
  <2>3. Cardinality(dead(S)) = Cardinality(dead(S \ {i})) + 1 /\ Cardinality(dead(S \ {i})) \in Nat
    <3>1. Cardinality(dead(S)) \in Nat /\ Cardinality(dead(S \ {i})) \in Nat /\ IsFiniteSet(dead(S))
      BY <1>0, <1>1, <2>2
    <3>2. Cardinality(dead(S) \ {i}) = Cardinality(dead(S)) - 1
      BY <2>1, <3>1, FS_RemoveElement
    <3> QED
      BY <2>1, <3>1, <3>2
  <2>4. Timeout * Cardinality(dead(S)) = Timeout * Cardinality(dead(S \ {i})) + Timeout
          /\ Timeout * Cardinality(dead(S \ {i})) \in Nat
    BY <1>3, <2>3, Products
  <2> QED
    BY <1>0, <1>1, <1>2, <1>3, <2>1, <2>4
<1> QED
  BY <1>4, <1>5, <1>6, <1>7 DEF AtMost

-------------------------------------------------------------------------------
(* An observation, step by step. *)
LEMMA TheTraffic ==
  ASSUME StageInv, stage \notin {"written", "rejected"}
  PROVE  /\ topology \in TopologyType /\ Observers = NodeIds(topology)
         /\ \A n \in Observers : /\ files.traffic[n] = TrafficOf(topology, n)
                                 /\ IsFiniteSet(DOMAIN files.traffic[n])
                                 /\ DOMAIN files.traffic[n] \subseteq Nat
<1>1. topology \in TopologyType /\ files = Files(topology)
  BY TopologiesAreDecoded DEF StageInv
<1>2. files.traffic = [id \in NodeIds(topology) |-> TrafficOf(topology, id)]
  BY <1>1 DEF Files
<1>3. \A id : /\ IsFiniteSet(DOMAIN TrafficOf(topology, id))
               /\ DOMAIN TrafficOf(topology, id) \subseteq Nat
  BY <1>1, WhatTrafficIs
<1>4. Observers = NodeIds(topology) /\ \A n \in Observers : files.traffic[n] = TrafficOf(topology, n)
  BY <1>2 DEF Observers
<1> QED
  BY <1>1, <1>3, <1>4

LEMMA RoundTakesTime ==
  ASSUME NEW n, IsFiniteSet(DOMAIN files.traffic[n])
  PROVE  /\ RoundMax(n) \in Nat
         /\ \A S \in SUBSET DOMAIN files.traffic[n] : Longest(n, S) \in Nat /\ Longest(n, S) < RoundMax(n)
         /\ \A i \in DOMAIN files.traffic[n] : OnFirstOnly(n, files.traffic[n][i]) =>
              i \in LiveAt(n) /\ RoundMax(n) >= 2
<1>1. /\ \A S \in SUBSET DOMAIN files.traffic[n] :
           Longest(n, S) \in Nat /\ Longest(n, S) <= Longest(n, DOMAIN files.traffic[n])
      /\ Longest(n, DOMAIN files.traffic[n]) \in Nat
  BY LongestShrinks
<1>2. RoundMax(n) = 1 + Longest(n, DOMAIN files.traffic[n])
  BY DEF RoundMax
<1>3. ASSUME NEW i \in DOMAIN files.traffic[n], OnFirstOnly(n, files.traffic[n][i])
      PROVE  i \in LiveAt(n) /\ RoundMax(n) >= 2
  <2>1. i \in LiveAt(n)
    BY <1>3 DEF OnFirstOnly, LiveAt
  <2>2. /\ Longest(n, DOMAIN files.traffic[n]) = Longest(n, DOMAIN files.traffic[n] \ {i}) + 1
        /\ Longest(n, DOMAIN files.traffic[n] \ {i}) \in Nat
    BY <2>1, LongestShrinks DEF AtMost
  <2> QED
    BY <1>2, <2>1, <2>2
<1> QED
  BY <1>1, <1>2, <1>3

(* A node that takes no part in a step. *)
LEMMA OtherNode ==
  ASSUME NEW m, NodeInv(m), UNCHANGED files,
         phase'[m] = phase[m], clock'[m] = clock[m], bound'[m] = bound[m], left'[m] = left[m],
         caught'[m] = caught[m], results'[m] = results[m]
  PROVE  NodeInv(m)'
<1>1. HeardInv(m)'
  BY SameFiles DEF NodeInv, HeardInv
<1> QED
  BY <1>1, SameFiles DEF NodeInv

LEMMA BeginKeeps ==
  ASSUME StageInv, stage \notin {"written", "rejected"}, NEW n \in Observers, NodeInv(n), Begin(n),
         n \in DOMAIN phase, n \in DOMAIN clock, n \in DOMAIN bound, n \in DOMAIN left
  PROVE  NodeInv(n)'
<1>1. /\ bound'[n] \in Nat /\ clock'[n] = 2 /\ left'[n] = DOMAIN files.traffic[n]
      /\ phase'[n] \in {"traffic", "waiting"}
      /\ phase'[n] = "waiting" => DOMAIN files.traffic[n] = {}
      /\ UNCHANGED <<files, caught, results>>
  BY BoundsAreNumbers DEF Begin
<1>2. HeardInv(n)'
  <2> SUFFICES ASSUME bound'[n] <= Window + 1 - 2 * RoundMax(n), NEW i \in DOMAIN files.traffic[n],
                      OnFirstOnly(n, files.traffic[n][i])
               PROVE  phase'[n] = "traffic" /\ i \in left'[n]
                        /\ clock'[n] + Longest(n, left'[n]) <= Window
    BY <1>1, SameFiles DEF HeardInv
  <2>1. RoundMax(n) \in Nat /\ RoundMax(n) >= 2 /\ RoundMax(n) = 1 + Longest(n, left'[n])
          /\ Longest(n, left'[n]) \in Nat
    BY <1>1, TheTraffic, RoundTakesTime DEF RoundMax
  <2> QED
    BY <1>1, <2>1, WindowFitsARound
<1> QED
  BY <1>1, <1>2, SameFiles DEF NodeInv

LEMMA LeastLeft ==
  ASSUME NEW S, S \subseteq Nat, S # {}
  PROVE  Min(S) \in S
BY LeastNumber DEF Min

LEMMA TryKeeps ==
  ASSUME StageInv, stage \notin {"written", "rejected"}, NEW n \in Observers, NodeInv(n), Try(n),
         n \in DOMAIN clock, n \in DOMAIN left, n \in DOMAIN caught
  PROVE  NodeInv(n)'
<1> DEFINE T == files.traffic[n]
           j == Min(left[n])
<1>0. IsFiniteSet(DOMAIN T) /\ DOMAIN T \subseteq Nat /\ left[n] \subseteq DOMAIN T
  BY TheTraffic DEF NodeInv
<1>1. j \in left[n] /\ j \in DOMAIN T
  BY <1>0, LeastLeft DEF Try
<1>2. /\ phase[n] = "traffic" /\ UNCHANGED <<files, phase, bound, results>>
      /\ left'[n] = left[n] \ {j}
  BY DEF Try
<1>3. \/ /\ Live(n, T[j])
         /\ \E cost \in 0 .. 1 : clock'[n] = clock[n] + cost
         /\ \E r \in Routes(n, T[j].to) :
              caught'[n] = IF r = First(n) /\ bound[n] <= clock[n] /\ clock[n] < Window
                             THEN caught[n] \cup {Key(T[j])} ELSE caught[n]
      \/ /\ ~Live(n, T[j])
         /\ \E cost \in 0 .. Timeout : clock'[n] = clock[n] + cost
         /\ caught'[n] = caught[n]
  BY DEF Try
<1>4. clock[n] \in Nat /\ bound[n] \in Nat /\ Timeout \in Nat /\ Window \in Nat
  BY BoundsAreNumbers, WindowFitsARound DEF NodeInv
<1>5. Key(T[j]) \in Keys(n)
  BY <1>1 DEF Keys, Range
<1>6. caught[n] \subseteq caught'[n] /\ caught'[n] \subseteq Keys(n)
  BY <1>3, <1>5 DEF NodeInv
<1>7. clock'[n] \in Nat
  BY <1>3, <1>4
<1>8. j \in LiveAt(n) <=> Live(n, T[j])
  BY <1>1 DEF LiveAt
<1>9. /\ Longest(n, left[n]) \in Nat /\ Longest(n, left'[n]) \in Nat
      /\ j \in LiveAt(n) => Longest(n, left[n]) = Longest(n, left'[n]) + 1
      /\ clock'[n] + Longest(n, left'[n]) <= clock[n] + Longest(n, left[n])
  <2>1. Longest(n, left[n]) \in Nat /\ Longest(n, left'[n]) \in Nat
    BY <1>0, <1>2, LongestShrinks
  <2>2. Longest(n, left[n]) = Longest(n, left[n] \ {j}) + AtMost(n, j)
    BY <1>0, <1>1, LongestShrinks
  <2>3. /\ j \in LiveAt(n) => Longest(n, left[n]) = Longest(n, left'[n]) + 1
        /\ j \notin LiveAt(n) => Longest(n, left[n]) = Longest(n, left'[n]) + Timeout
    BY <1>2, <2>2 DEF AtMost
  <2> QED
    BY <1>3, <1>4, <1>8, <2>1, <2>3
<1>10. HeardInv(n)'
  <2> SUFFICES ASSUME bound[n] <= Window + 1 - 2 * RoundMax(n), NEW i \in DOMAIN T,
                      OnFirstOnly(n, T[i]), Key(T[i]) \notin caught'[n]
               PROVE  /\ i \in left'[n] => clock'[n] + Longest(n, left'[n]) <= Window
                      /\ i \notin left'[n] =>
                           clock'[n] + Longest(n, left'[n]) <= bound[n] + RoundMax(n) - 2
    BY <1>2, SameFiles DEF HeardInv
  <2>1. /\ i \in left[n] => clock[n] + Longest(n, left[n]) <= Window
        /\ i \notin left[n] => clock[n] + Longest(n, left[n]) <= bound[n] + RoundMax(n) - 2
    BY <1>2, <1>6 DEF NodeInv, HeardInv
  <2>2. RoundMax(n) \in Nat /\ Longest(n, left[n]) < RoundMax(n) /\ i \in LiveAt(n)
    BY <1>0, RoundTakesTime
  <2>3. CASE i # j
    BY <1>2, <1>4, <1>7, <1>9, <2>1, <2>2, <2>3
  <2>4. CASE i = j
    <3>1. Live(n, T[j]) /\ Routes(n, T[j].to) = {First(n)}
      BY <2>4 DEF OnFirstOnly
    <3>2. PICK cost \in 0 .. 1 : clock'[n] = clock[n] + cost
      BY <1>3, <3>1
    <3>3. ~(bound[n] <= clock[n] /\ clock[n] < Window)
      BY <1>3, <2>4, <3>1
    <3>4. Longest(n, left[n]) = Longest(n, left'[n]) + 1
      BY <1>9, <2>2, <2>4
    <3>5. clock[n] < Window
      BY <1>1, <1>4, <1>9, <2>1, <2>4, <3>4
    <3>6. clock[n] < bound[n]
      BY <1>4, <3>3, <3>5
    <3> QED
      BY <1>2, <1>4, <1>9, <2>2, <2>4, <3>2, <3>4, <3>6
  <2> QED
    BY <2>3, <2>4
<1>11. left'[n] \subseteq DOMAIN T
  BY <1>0, <1>2
<1> QED
  BY <1>2, <1>4, <1>6, <1>7, <1>10, <1>11, SameFiles DEF NodeInv

LEMMA EndRoundKeeps ==
  ASSUME StageInv, stage \notin {"written", "rejected"}, NEW n \in Observers, NodeInv(n), EndRound(n),
         n \in DOMAIN phase, n \in DOMAIN clock, n \in DOMAIN left
  PROVE  NodeInv(n)'
<1> DEFINE T == files.traffic[n]
<1>0. IsFiniteSet(DOMAIN T)
  BY TheTraffic
<1>1. /\ phase[n] = "traffic" /\ left[n] = {} /\ clock'[n] = clock[n] + 1
      /\ UNCHANGED <<files, bound, caught, results>>
      /\ \/ clock[n] + 1 < EndOfTraffic /\ left'[n] = DOMAIN T /\ phase'[n] = "traffic"
         \/ ~(clock[n] + 1 < EndOfTraffic) /\ phase'[n] = "waiting" /\ left'[n] = {}
  BY DEF EndRound
<1>2. clock[n] \in Nat /\ bound[n] \in Nat /\ Window \in Nat /\ Window > 4 /\ EndOfTraffic = Window - 1
  BY WindowFitsARound DEF NodeInv, EndOfTraffic
<1>3. HeardInv(n)'
  <2> SUFFICES ASSUME bound[n] <= Window + 1 - 2 * RoundMax(n), NEW i \in DOMAIN T,
                      OnFirstOnly(n, T[i]), Key(T[i]) \notin caught[n]
               PROVE  /\ phase'[n] = "traffic" /\ i \in left'[n]
                      /\ clock'[n] + Longest(n, left'[n]) <= Window
    BY <1>1, SameFiles DEF HeardInv
  <2>1. clock[n] + Longest(n, left[n]) <= bound[n] + RoundMax(n) - 2
    BY <1>1 DEF NodeInv, HeardInv
  <2>2. /\ RoundMax(n) \in Nat /\ RoundMax(n) >= 2 /\ Longest(n, left[n]) \in Nat
        /\ Longest(n, DOMAIN T) \in Nat /\ RoundMax(n) = 1 + Longest(n, DOMAIN T)
    BY <1>0, <1>1, RoundTakesTime DEF RoundMax
  <2>3. clock[n] + 1 <= Window - RoundMax(n)
    BY <1>2, <2>1, <2>2
  <2>4. phase'[n] = "traffic" /\ left'[n] = DOMAIN T
    BY <1>1, <1>2, <2>2, <2>3
  <2> QED
    BY <1>1, <1>2, <2>2, <2>3, <2>4
<1> QED
  BY <1>1, <1>2, <1>3, SameFiles DEF NodeInv

LEMMA FinishKeeps ==
  ASSUME NEW n \in Observers, NodeInv(n), Finish(n), n \in DOMAIN phase, n \in DOMAIN results
  PROVE  NodeInv(n)'
<1>1. /\ phase[n] = "waiting" /\ phase'[n] = "done" /\ results'[n] = caught[n]
      /\ UNCHANGED <<files, clock, bound, left, caught>>
  BY DEF Finish
<1>2. HeardInv(n)'
  BY <1>1, SameFiles DEF NodeInv, HeardInv
<1> QED
  BY <1>1, <1>2, SameFiles DEF NodeInv

-------------------------------------------------------------------------------
(* The controller's steps. *)
LEMMA ObserverKeeps ==
  ASSUME DiscoveryInv, NEW n \in DOMAIN phase, Begin(n) \/ Try(n) \/ EndRound(n) \/ Finish(n)
  PROVE  DiscoveryInv'
<1>1. stage \in {"observing", "enough", "goneOn"} /\ n \in Observers
  BY DEF DiscoveryInv, StageInv, Stages, Stopped, ObservingInv
<1>2. phase[n] # "done"
  BY DEF Begin, Try, EndRound, Finish
<1>3. stage = "observing"
  BY <1>1, <1>2 DEF DiscoveryInv, StageInv
<1>4. UNCHANGED <<topology, stage, files>>
  BY DEF Begin, Try, EndRound, Finish
<1>5. /\ DOMAIN phase = Observers /\ DOMAIN clock = Observers /\ DOMAIN bound = Observers
      /\ DOMAIN left = Observers /\ DOMAIN caught = Observers /\ DOMAIN results = Observers
      /\ \A m \in Observers : NodeInv(m)
  BY <1>3 DEF DiscoveryInv, ObservingInv
<1>6. /\ DOMAIN phase' = Observers /\ DOMAIN clock' = Observers /\ DOMAIN bound' = Observers
      /\ DOMAIN left' = Observers /\ DOMAIN caught' = Observers /\ DOMAIN results' = Observers
  BY <1>5 DEF Begin, Try, EndRound, Finish
<1>7. \A m \in Observers : m # n =>
        /\ phase'[m] = phase[m] /\ clock'[m] = clock[m] /\ bound'[m] = bound[m]
        /\ left'[m] = left[m] /\ caught'[m] = caught[m] /\ results'[m] = results[m]
  BY <1>5 DEF Begin, Try, EndRound, Finish
<1>8. \A m \in Observers : m # n => NodeInv(m)'
  BY <1>4, <1>5, <1>7, OtherNode
<1>9. NodeInv(n)'
  BY <1>1, <1>3, <1>5, BeginKeeps, TryKeeps, EndRoundKeeps, FinishKeeps DEF DiscoveryInv
<1>10. StageInv'
  BY <1>3, <1>4 DEF DiscoveryInv, StageInv
<1> QED
  BY <1>4, <1>6, <1>8, <1>9, <1>10, SameFiles DEF DiscoveryInv, ObservingInv

(* A node at the beginning of an observation. *)
LEMMA StartedNode ==
  ASSUME StartObservations, UNCHANGED files, NEW n \in Observers, results'[n] \subseteq Keys(n)
  PROVE  NodeInv(n)'
<1>1. phase'[n] = "binding" /\ clock'[n] = 0 /\ bound'[n] = 0 /\ left'[n] = {} /\ caught'[n] = {}
  BY DEF StartObservations
<1> QED
  BY <1>1, SameFiles DEF NodeInv, HeardInv

LEMMA GenerateKeeps == ASSUME DiscoveryInv, Generate PROVE DiscoveryInv'
<1>1. /\ stage = "written" /\ UNCHANGED <<topology, phase>> /\ stage' \in {"generated", "rejected"}
      /\ stage' = "generated" => Accepted(topology) /\ files' = Files(topology)
  BY DEF Generate
<1> QED
  BY <1>1 DEF DiscoveryInv, StageInv, Stages, Stopped, ObservingInv

LEMMA UpKeeps == ASSUME DiscoveryInv, Up PROVE DiscoveryInv'
<1>1. stage = "generated" /\ UNCHANGED <<topology, files>>
  BY DEF Up
<1>2. CASE Startable(files.compose)
  <2>1. stage' = "observing" /\ results' = [n \in Observers |-> {}] /\ StartObservations
    BY <1>2 DEF Up
  <2>2. \A n \in Observers : NodeInv(n)'
    BY <1>1, <2>1, StartedNode
  <2>3. ObservingInv'
    BY <1>1, <2>1, <2>2, SameFiles DEF ObservingInv, StartObservations
  <2>4. StageInv'
    BY <1>1, <2>1 DEF DiscoveryInv, StageInv, Stages
  <2> QED
    BY <2>3, <2>4 DEF DiscoveryInv
<1>3. CASE ~Startable(files.compose)
  <2>1. stage' = "failed" /\ UNCHANGED phase
    BY <1>3 DEF Up
  <2> QED
    BY <1>1, <1>3, <2>1 DEF DiscoveryInv, StageInv, Stages, Stopped, ObservingInv
<1> QED
  BY <1>2, <1>3

LEMMA CountKeeps == ASSUME DiscoveryInv, Count PROVE DiscoveryInv'
<1>1. stage = "observing" /\ UNCHANGED <<topology, files, results>> /\ \A n \in Observers : phase[n] = "done"
  BY DEF Count
<1>2. ObservedEdges' = ObservedEdges /\ Observers' = Observers
  BY <1>1 DEF ObservedEdges, Observations, Observers
<1>3. ObservingInv /\ StageInv
  BY DEF DiscoveryInv
<1>4. CASE StartObservations /\ stage' = stage
  <2>1. \A n \in Observers : NodeInv(n)'
    BY <1>1, <1>3, <1>4, StartedNode DEF ObservingInv, NodeInv
  <2>2. ObservingInv'
    BY <1>1, <1>2, <1>3, <1>4, <2>1 DEF ObservingInv, StartObservations
  <2>3. StageInv'
    BY <1>1, <1>3, <1>4 DEF StageInv
  <2> QED
    BY <2>2, <2>3 DEF DiscoveryInv
<1>5. CASE /\ UNCHANGED <<phase, clock, bound, left, caught>>
           /\ \/ ObservedEdges >= files.edgeCount /\ stage' = "enough"
              \/ ObservedEdges < files.edgeCount /\ stage' = "goneOn"
  <2>1. \A n \in Observers : NodeInv(n)'
    BY <1>1, <1>3, <1>5, OtherNode DEF ObservingInv
  <2>2. ObservingInv'
    BY <1>1, <1>2, <1>3, <1>5, <2>1 DEF ObservingInv
  <2>3. StageInv'
    BY <1>1, <1>2, <1>3, <1>5 DEF StageInv, Stages, Stopped
  <2> QED
    BY <2>2, <2>3 DEF DiscoveryInv
<1> QED
  BY <1>4, <1>5 DEF Count

LEMMA DiscoveryInvariant == Spec => []DiscoveryInv
<1>1. Init => DiscoveryInv
  BY DEF Init, DiscoveryInv, StageInv, Stages, ObservingInv
<1>2. DiscoveryInv /\ [Next]_vars => DiscoveryInv'
  <2> SUFFICES ASSUME DiscoveryInv, [Next]_vars PROVE DiscoveryInv'
    OBVIOUS
  <2>1. CASE UNCHANGED vars
    <3>1. UNCHANGED <<topology, stage, files, phase, clock, bound, left, caught, results>>
      BY <2>1 DEF vars
    <3>2. ObservedEdges' = ObservedEdges
      BY <3>1 DEF ObservedEdges, Observations, Observers
    <3>3. StageInv'
      BY <3>1, <3>2, SameFiles DEF DiscoveryInv, StageInv
    <3>4. \A n \in Observers : NodeInv(n) => NodeInv(n)'
      BY <3>1, OtherNode
    <3> QED
      BY <3>1, <3>3, <3>4, SameFiles DEF DiscoveryInv, ObservingInv
  <2> QED
    BY <2>1, GenerateKeeps, UpKeeps, ObserverKeeps, CountKeeps DEF Next
<1> QED
  BY <1>1, <1>2, PTL DEF Spec

-------------------------------------------------------------------------------
(* What the counts compare. *)
LEMMA DeclaredAreCounted ==
  ASSUME NEW s \in TopologyType
  PROVE  LET declared == {<<e.from, <<e.to, PortOf(e)>>>> : e \in ToSet(s.edges)}
         IN  IsFiniteSet(declared) /\ Cardinality(declared) <= EdgeCount(s)
<1> DEFINE declared == {<<e.from, <<e.to, PortOf(e)>>>> : e \in ToSet(s.edges)}
           f == [i \in 1 .. Len(s.edges) |-> <<s.edges[i].from, <<s.edges[i].to, PortOf(s.edges[i])>>>>]
<1>1. DOMAIN s.edges = 1 .. Len(s.edges) /\ Len(s.edges) \in Nat
  BY DEF TopologyType
<1>2. f \in Surjection(1 .. Len(s.edges), declared)
  <2>1. \A d \in declared : \E i \in 1 .. Len(s.edges) : f[i] = d
    BY <1>1 DEF ToSet
  <2>2. \A i \in 1 .. Len(s.edges) : f[i] \in declared
    BY <1>1 DEF ToSet
  <2> QED
    BY <2>1, <2>2 DEF Surjection
<1>3. IsFiniteSet(1 .. Len(s.edges)) /\ Cardinality(1 .. Len(s.edges)) = Len(s.edges)
  BY <1>1, FS_Interval
<1> HIDE DEF declared, f
<1>4. IsFiniteSet(declared) /\ Cardinality(declared) <= Len(s.edges)
  BY <1>2, <1>3, FS_Surjection
<1> QED
  BY <1>4 DEF EdgeCount, declared

LEMMA ObservedIsDeclared ==
  ASSUME DiscoveryInv, stage \in {"observing", "enough", "goneOn"}
  PROVE  /\ Observations \subseteq Declared /\ IsFiniteSet(Declared)
         /\ Cardinality(Declared) <= files.edgeCount /\ files.edgeCount = Len(topology.edges)
<1>1. topology \in TopologyType /\ files = Files(topology)
  BY TopologiesAreDecoded DEF DiscoveryInv, StageInv
<1>2. files.edgeCount = EdgeCount(topology)
  BY <1>1 DEF Files
<1>3. IsFiniteSet(Declared) /\ Cardinality(Declared) <= EdgeCount(topology)
  BY <1>1, DeclaredAreCounted DEF Declared
<1>4. ASSUME NEW n \in Observers, NEW k \in results[n] PROVE <<n, k>> \in Declared
  <2>1. k \in Keys(n)
    BY DEF DiscoveryInv, ObservingInv, NodeInv
  <2>2. PICK i \in DOMAIN files.traffic[n] : k = Key(files.traffic[n][i])
    BY <2>1 DEF Keys, Range
  <2>3. files.traffic[n] = TrafficOf(topology, n)
    BY TheTraffic DEF DiscoveryInv
  <2>4. /\ i \in DOMAIN topology.edges /\ topology.edges[i].from = n
        /\ k = <<topology.edges[i].to, PortOf(topology.edges[i])>>
    <3>1. \A p \in DOMAIN TrafficOf(topology, n) :
            /\ p \in DOMAIN topology.edges /\ topology.edges[p].from = n
            /\ Key(TrafficOf(topology, n)[p]) = <<topology.edges[p].to, PortOf(topology.edges[p])>>
      BY <1>1, WhatTrafficIs
    <3> QED
      BY <2>2, <2>3, <3>1
  <2>5. topology.edges[i] \in ToSet(topology.edges)
    BY <2>4 DEF ToSet
  <2> QED
    BY <2>4, <2>5 DEF Declared
<1>5. Observations \subseteq Declared
  BY <1>4 DEF Observations
<1> QED
  BY <1>2, <1>3, <1>5 DEF EdgeCount

(***************************************************************************)
(* A number of lines stands for the edges themselves: as many observed     *)
(* lines as declared edges means every declared edge was observed, for any *)
(* topology; fewer means that one is missing, unless one is named twice.   *)
(***************************************************************************)
THEOREM CountHonest == Spec => []CountIsHonest
<1>1. DiscoveryInv => CountIsHonest
  <2> SUFFICES ASSUME DiscoveryInv PROVE CountIsHonest
    OBVIOUS
  <2>1. ASSUME stage = "enough" PROVE AllObserved
    <3>1. /\ Observations \subseteq Declared /\ IsFiniteSet(Declared)
          /\ Cardinality(Declared) <= files.edgeCount
      BY <2>1, ObservedIsDeclared
    <3>2. Cardinality(Observations) >= files.edgeCount
      BY <2>1 DEF DiscoveryInv, StageInv, ObservedEdges
    <3>3. /\ IsFiniteSet(Observations) /\ Cardinality(Observations) \in Nat /\ Cardinality(Declared) \in Nat
          /\ Cardinality(Observations) <= Cardinality(Declared)
      BY <3>1, FS_Subset, FS_CardinalityType
    <3>4. files.edgeCount \in Nat
      BY <2>1, ObservedIsDeclared, TopologiesAreDecoded DEF DiscoveryInv, StageInv, TopologyType
    <3>5. Cardinality(Declared) = Cardinality(Observations)
      BY <3>1, <3>2, <3>3, <3>4
    <3> QED
      BY <3>1, <3>5, FS_Subset DEF AllObserved
  <2>2. ASSUME stage = "goneOn", EdgesDiffer PROVE ~AllObserved
    <3>1. /\ Observations \subseteq Declared /\ IsFiniteSet(Declared)
          /\ Cardinality(Declared) = files.edgeCount
      BY <2>2, ObservedIsDeclared DEF EdgesDiffer
    <3>2. Cardinality(Observations) < files.edgeCount
      BY <2>2 DEF DiscoveryInv, StageInv, ObservedEdges
    <3>3. Cardinality(Declared) \in Nat
      BY <3>1, FS_CardinalityType
    <3>4. Observations # Declared
      BY <3>1, <3>2, <3>3
    <3> QED
      BY <3>1, <3>4 DEF AllObserved
  <2> QED
    BY <2>1, <2>2 DEF CountIsHonest
<1> QED
  BY <1>1, DiscoveryInvariant, PTL

(***************************************************************************)
(* If netcap hears two rounds before the window ends, no edge that only    *)
(* the first network can carry is missed: for any window, any timeout of   *)
(* dead targets, any number of targets and whatever each handshake takes.  *)
(***************************************************************************)
THEOREM LateBindAbsorbed == Spec => []BindDelayIsAbsorbed
<1>1. DiscoveryInv => BindDelayIsAbsorbed
  <2> SUFFICES ASSUME DiscoveryInv, stage = "observing", NEW n \in Observers, phase[n] = "done",
                      bound[n] <= Window + 1 - 2 * RoundMax(n),
                      NEW i \in DOMAIN files.traffic[n], OnFirstOnly(n, files.traffic[n][i])
               PROVE  Key(files.traffic[n][i]) \in results[n]
    BY DEF BindDelayIsAbsorbed, Range
  <2>1. NodeInv(n)
    BY DEF DiscoveryInv, ObservingInv
  <2>2. Key(files.traffic[n][i]) \in caught[n]
    BY <2>1 DEF NodeInv, HeardInv
  <2> QED
    BY <2>1, <2>2 DEF NodeInv
<1> QED
  BY <1>1, DiscoveryInvariant, PTL

-------------------------------------------------------------------------------
(* What compose starts. *)
LEMMA WithoutHolesItStarts ==
  ASSUME NEW s \in TopologyType, Accepted(s),
         s.networks # << >> \/ \A n \in ToSet(s.nodes) : n.networks = << >>,
         NodeIds(s) \cap {"pqcota-ctl", "pqcota-demo-pg"} = {}
  PROVE  Startable(Compose(s))
<1> DEFINE N == Len(s.nodes)
           tools == <<ToolService(s, "pqcota-ctl"), ToolService(s, "pqcota-demo-pg")>>
           nodes == [i \in 1 .. N |-> Service(s, s.nodes[i])]
           services == tools \o nodes
<1>1. DOMAIN s.nodes = 1 .. N /\ N \in Nat
  BY DEF TopologyType
<1>2. Compose(s).services = services /\ Compose(s).networks = ToSet(Networks(s))
  BY <1>1 DEF Compose
<1>3. /\ DOMAIN services = 1 .. N + 2
      /\ services[1] = ToolService(s, "pqcota-ctl") /\ services[2] = ToolService(s, "pqcota-demo-pg")
      /\ \A i \in 3 .. N + 2 : services[i] = Service(s, s.nodes[i - 2])
  <2>1. tools \in Seq({tools[1], tools[2]}) /\ Len(tools) = 2
    OBVIOUS
  <2>2. nodes \in Seq({nodes[i] : i \in 1 .. N}) /\ Len(nodes) = N
    BY <1>1
  <2> HIDE DEF nodes
  <2>3. /\ DOMAIN services = 1 .. N + 2 /\ services[1] = tools[1] /\ services[2] = tools[2]
        /\ \A i \in 3 .. N + 2 : services[i] = nodes[i - 2]
    BY <1>1, <2>1, <2>2
  <2> QED
    BY <1>1, <2>3 DEF nodes
<1> HIDE DEF services
<1>4. /\ services[1].name = "pqcota-ctl" /\ services[2].name = "pqcota-demo-pg"
      /\ services[1].networks = Networks(s) /\ services[2].networks = Networks(s)
      /\ \A i \in 3 .. N + 2 : /\ services[i].name = s.nodes[i - 2].id
                               /\ services[i].networks = NodeNetworks(s, s.nodes[i - 2])
  <2>1. \A n : Service(s, n).name = n.id /\ Service(s, n).networks = NodeNetworks(s, n)
    BY DEF Service
  <2>2. \A t : ToolService(s, t).name = t /\ ToolService(s, t).networks = Networks(s)
    BY DEF ToolService
  <2> QED
    BY <1>3, <2>1, <2>2
<1>5. \A i \in 1 .. N : s.nodes[i].id \in NodeIds(s) /\ s.nodes[i] \in ToSet(s.nodes)
  BY <1>1 DEF NodeIds, ToSet
<1>6. ASSUME NEW i \in 1 .. N, NEW j \in 1 .. N, s.nodes[i].id = s.nodes[j].id PROVE i = j
  <2>1. \A k \in 1 .. N : \A l \in 1 .. k - 1 : s.nodes[l].id # s.nodes[k].id
    BY <1>1 DEF Accepted
  <2> QED
    BY <1>1, <1>6, <2>1
<1>7. \A i, j \in DOMAIN services : services[i].name = services[j].name => i = j
  <2> SUFFICES ASSUME NEW i \in 1 .. N + 2, NEW j \in 1 .. N + 2, services[i].name = services[j].name
               PROVE  i = j
    BY <1>3
  <2>1. \A k \in 1 .. N + 2 : k = 1 \/ k = 2 \/ (k \in 3 .. N + 2 /\ k - 2 \in 1 .. N)
    BY <1>1
  <2>2. CASE i \in 3 .. N + 2 /\ j \in 3 .. N + 2
    <3>1. i - 2 = j - 2
      BY <1>4, <1>6, <2>1, <2>2
    <3> QED
      BY <2>2, <3>1
  <2>3. CASE i \in {1, 2} \/ j \in {1, 2}
    <3>1. \A k \in 3 .. N + 2 : services[k].name \notin {"pqcota-ctl", "pqcota-demo-pg"}
      <4> SUFFICES ASSUME NEW k \in 3 .. N + 2
                   PROVE  services[k].name \notin {"pqcota-ctl", "pqcota-demo-pg"}
        OBVIOUS
      <4>1. k - 2 \in 1 .. N
        BY <1>1
      <4>2. services[k].name = s.nodes[k - 2].id
        BY <1>4
      <4>3. s.nodes[k - 2].id \in NodeIds(s)
        BY <1>5, <4>1
      <4> QED
        BY <4>2, <4>3
    <3> QED
      BY <1>4, <2>1, <2>3, <3>1
  <2> QED
    BY <2>1, <2>2, <2>3
<1>8. \A i \in 1 .. N : ToSet(NodeNetworks(s, s.nodes[i])) \subseteq ToSet(Networks(s))
  <2> SUFFICES ASSUME NEW i \in 1 .. N
               PROVE  ToSet(NodeNetworks(s, s.nodes[i])) \subseteq ToSet(Networks(s))
    OBVIOUS
  <2>1. NetworksDeclared(s, s.nodes[i])
    BY <1>1 DEF Accepted
  <2>2. CASE s.nodes[i].networks = << >>
    BY <2>2 DEF NodeNetworks
  <2>3. CASE s.nodes[i].networks # << >>
    <3>1. s.networks # << >>
      BY <1>5, <2>3
    <3> QED
      BY <2>1, <2>3, <3>1 DEF NodeNetworks, NetworksDeclared, Networks
  <2> QED
    BY <2>2, <2>3
<1>9. \A i \in DOMAIN services : ToSet(services[i].networks) \subseteq ToSet(Networks(s))
  <2> SUFFICES ASSUME NEW i \in 1 .. N + 2 PROVE ToSet(services[i].networks) \subseteq ToSet(Networks(s))
    BY <1>3
  <2>1. i = 1 \/ i = 2 \/ (i \in 3 .. N + 2 /\ i - 2 \in 1 .. N)
    BY <1>1
  <2> QED
    BY <1>4, <1>8, <2>1
<1> QED
  BY <1>2, <1>7, <1>9 DEF Startable

(***************************************************************************)
(* Every topology that Validate lets through gives a compose file that     *)
(* starts, but for the two holes.                                          *)
(***************************************************************************)
THEOREM TwoHoles == Spec => []OnlyTwoHolesFail
<1>1. DiscoveryInv => OnlyTwoHolesFail
  <2> SUFFICES ASSUME DiscoveryInv, stage = "failed",
                      ~(topology.networks = << >> /\ \E n \in ToSet(topology.nodes) : n.networks # << >>),
                      NodeIds(topology) \cap {"pqcota-ctl", "pqcota-demo-pg"} = {}
               PROVE  FALSE
    BY DEF OnlyTwoHolesFail
  <2>1. topology \in TopologyType /\ Accepted(topology) /\ ~Startable(files.compose)
          /\ files = Files(topology)
    BY TopologiesAreDecoded DEF DiscoveryInv, StageInv
  <2>2. files.compose = Compose(topology)
    BY <2>1 DEF Files
  <2> QED
    BY <2>1, <2>2, WithoutHolesItStarts
<1> QED
  BY <1>1, DiscoveryInvariant, PTL
=============================================================================
