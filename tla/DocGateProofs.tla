---------------------------- MODULE DocGateProofs ----------------------------
(***************************************************************************)
(* What the document gate lets pass, whatever the lines of the documents   *)
(* are: the checks turn code on and off at any row of backquotes, and yet  *)
(* see what a reader sees.                                                 *)
(***************************************************************************)
EXTENDS DocGate, NumberFacts, TLAPS

Lines(ls) == DOMAIN ls = 1 .. Len(ls) /\ Len(ls) \in Nat /\ \A n \in DOMAIN ls : WellFormed(ls[n])

(* The rows of backquotes before a line. *)
TicksBefore(ls, n) == {k \in {i \in DOMAIN ls : Ticked(ls[i])} : k < n}

-------------------------------------------------------------------------------
LEMMA TicksAreFinite ==
  ASSUME NEW ls, Lines(ls), NEW n \in Int
  PROVE  IsFiniteSet(TicksBefore(ls, n)) /\ Cardinality(TicksBefore(ls, n)) \in Nat
<1>1. IsFiniteSet(1 .. Len(ls))
  BY FS_Interval DEF Lines
<1>2. TicksBefore(ls, n) \subseteq 1 .. Len(ls)
  BY DEF Lines, TicksBefore
<1>3. IsFiniteSet(TicksBefore(ls, n))
  BY <1>1, <1>2, FS_Subset
<1> QED
  BY <1>3, FS_CardinalityType

LEMMA TicksPassed ==
  ASSUME NEW ls, Lines(ls), NEW n \in DOMAIN ls
  PROVE  LET c == Cardinality(TicksBefore(ls, n))
         IN  /\ c \in Nat
             /\ Cardinality(TicksBefore(ls, n + 1)) = IF Ticked(ls[n]) THEN c + 1 ELSE c
<1>1. n \in Int
  BY DEF Lines
<1>2. IsFiniteSet(TicksBefore(ls, n)) /\ Cardinality(TicksBefore(ls, n)) \in Nat
  BY <1>1, TicksAreFinite
<1>3. CASE Ticked(ls[n])
  <2>1. TicksBefore(ls, n + 1) = TicksBefore(ls, n) \cup {n} /\ n \notin TicksBefore(ls, n)
    BY <1>1, <1>3 DEF TicksBefore, Lines
  <2> QED
    BY <1>2, <1>3, <2>1, FS_AddElement
<1>4. CASE ~Ticked(ls[n])
  <2>1. TicksBefore(ls, n + 1) = TicksBefore(ls, n)
    BY <1>1, <1>4 DEF TicksBefore, Lines
  <2> QED
    BY <1>2, <1>4, <2>1
<1> QED
  BY <1>3, <1>4

LEMMA NoTicksAtFirst == ASSUME NEW ls, Lines(ls) PROVE Cardinality(TicksBefore(ls, 1)) = 0
<1>1. TicksBefore(ls, 1) = {}
  BY DEF TicksBefore, Lines
<1> QED
  BY <1>1, FS_EmptySet

LEMMA PlainIsEven ==
  ASSUME NEW ls, Lines(ls)
  PROVE  Plain(ls) = {n \in DOMAIN ls : ~Ticked(ls[n]) /\ Cardinality(TicksBefore(ls, n)) % 2 = 0}
BY DEF Plain, Outside, TicksBefore

-------------------------------------------------------------------------------
(* A reader's view and the checks'. *)

Fenced == [kind |-> "ticks", n |-> 3]
Toggling(ls) == [n \in 1 .. Len(ls) + 1 |-> IF Cardinality(TicksBefore(ls, n)) % 2 = 0 THEN Closed ELSE Fenced]

(* The equation of OpenBefore, at one line. *)
After(l, was) ==
  IF was = Closed THEN IF IsRow(l) THEN [kind |-> l.kind, n |-> l.n] ELSE Closed
  ELSE IF Closes(l, was) THEN Closed ELSE was
Reads(ls, open) ==
  open = [n \in 1 .. Len(ls) + 1 |-> IF n = 1 THEN Closed ELSE After(ls[n - 1], open[n - 1])]

Ordinary(ls) == Lines(ls) /\ ~OddFences(ls) /\ TildeRanges(ls) = {}

(* Outside of code there is no row of tildes; rows of backquotes are three, *)
(* and those that end a block have nothing after them.                      *)
LEMMA RowsAreOrdinary ==
  ASSUME NEW ls, Ordinary(ls), NEW n \in DOMAIN ls
  PROVE  /\ Ticked(ls[n]) => ls[n].kind = "ticks" /\ ls[n].n = 3
         /\ Ticked(ls[n]) /\ Cardinality(TicksBefore(ls, n)) % 2 = 1 => ~ls[n].info
         /\ n \in Plain(ls) => ls[n].kind # "tildes"
<1>1. Ticked(ls[n]) => ls[n].kind = "ticks" /\ ls[n].n = 3
  BY DEF Ordinary, Lines, WellFormed, OddFences, Ticked
<1>2. TicksBefore(ls, n) = {k \in 1 .. n - 1 : Ticked(ls[k])}
  BY DEF Ordinary, Lines, TicksBefore
<1>3. Ticked(ls[n]) /\ Cardinality(TicksBefore(ls, n)) % 2 = 1 => ~ls[n].info
  BY <1>2 DEF Ordinary, OddFences
<1>4. ASSUME n \in Plain(ls), ls[n].kind = "tildes"
      PROVE  FALSE
  <2>1. ls[n].n \in Nat
    BY <1>4 DEF Ordinary, Lines, WellFormed
  <2>2. ls[n].n % 2 # 1
    BY <1>4 DEF Ordinary, TildeRanges
  <2>3. ls[n].n % 2 # 0
    BY <1>4 DEF Ordinary, OddFences
  <2> QED
    BY <2>1, <2>2, <2>3
<1> QED
  BY <1>1, <1>3, <1>4

LEMMA TogglingReads == ASSUME NEW ls, Ordinary(ls) PROVE Reads(ls, Toggling(ls))
<1> SUFFICES ASSUME NEW n \in 1 .. Len(ls) + 1
             PROVE  Toggling(ls)[n] = IF n = 1 THEN Closed ELSE After(ls[n - 1], Toggling(ls)[n - 1])
  BY DEF Reads, Toggling
<1>1. Lines(ls)
  BY DEF Ordinary
<1>2. CASE n = 1
  BY <1>1, <1>2, NoTicksAtFirst DEF Toggling
<1>3. CASE n # 1
  <2> DEFINE k == n - 1
             c == Cardinality(TicksBefore(ls, k))
  <2>1. k \in DOMAIN ls /\ k \in 1 .. Len(ls) + 1 /\ k + 1 = n
    BY <1>1, <1>3 DEF Lines
  <2>2. c \in Nat /\ Cardinality(TicksBefore(ls, n)) = IF Ticked(ls[k]) THEN c + 1 ELSE c
    BY <1>1, <2>1, TicksPassed
  <2>3. WellFormed(ls[k])
    BY <1>1, <2>1 DEF Lines
  <2>4. /\ Toggling(ls)[k] = IF c % 2 = 0 THEN Closed ELSE Fenced
        /\ Toggling(ls)[n] = IF Cardinality(TicksBefore(ls, n)) % 2 = 0 THEN Closed ELSE Fenced
    BY <2>1 DEF Toggling
  <2>5. /\ Ticked(ls[k]) => ls[k].kind = "ticks" /\ ls[k].n = 3
        /\ Ticked(ls[k]) /\ c % 2 = 1 => ~ls[k].info
        /\ k \in Plain(ls) => ls[k].kind # "tildes"
    BY <2>1, RowsAreOrdinary
  <2>6. k \in Plain(ls) <=> ~Ticked(ls[k]) /\ c % 2 = 0
    BY <1>1, <2>1, PlainIsEven
  <2>7. Closed # Fenced
    BY DEF Closed, Fenced
  <2> HIDE DEF k, c
  <2>8. c % 2 \in {0, 1} /\ (c + 1) % 2 = 1 - (c % 2)
    BY <2>2
  <2>9. Toggling(ls)[n] = After(ls[k], Toggling(ls)[k])
    <3>1. CASE c % 2 = 0 /\ Ticked(ls[k])
      BY <2>2, <2>4, <2>5, <2>7, <2>8, <3>1 DEF After, IsRow, Ticked, Fenced
    <3>2. CASE c % 2 = 0 /\ ~Ticked(ls[k])
      BY <2>2, <2>4, <2>5, <2>6, <3>2 DEF After, IsRow, Ticked
    <3>3. CASE c % 2 = 1 /\ Ticked(ls[k])
      BY <2>2, <2>4, <2>5, <2>7, <2>8, <3>3 DEF After, Closes, IsRow, Ticked, Fenced
    <3>4. CASE c % 2 = 1 /\ ~Ticked(ls[k])
      BY <2>2, <2>4, <2>7, <3>4 DEF After, Closes, IsRow, Ticked, Fenced
    <3> QED
      BY <2>8, <3>1, <3>2, <3>3, <3>4
  <2> QED
    BY <1>3, <2>9 DEF k
<1> QED
  BY <1>2, <1>3

(* There is only one way to read the lines. *)
LEMMA ReadOnce ==
  ASSUME NEW ls, Lines(ls), NEW f, NEW g, Reads(ls, f), Reads(ls, g), NEW m \in 1 .. Len(ls) + 1
  PROVE  f[m] = g[m]
<1> DEFINE S == {n \in 1 .. Len(ls) + 1 : f[n] # g[n]}
<1> SUFFICES ASSUME S # {} PROVE FALSE
  OBVIOUS
<1>1. S \subseteq Nat
  BY DEF Lines
<1>2. PICK n \in S : \A k \in S : n <= k
  <2> HIDE DEF S
  <2> QED
    BY <1>1, LeastNumber
<1>3. n \in 1 .. Len(ls) + 1 /\ n - 1 \notin S
  BY <1>1, <1>2
<1>4. /\ f[n] = IF n = 1 THEN Closed ELSE After(ls[n - 1], f[n - 1])
      /\ g[n] = IF n = 1 THEN Closed ELSE After(ls[n - 1], g[n - 1])
  BY <1>3 DEF Reads
<1>5. n = 1 \/ f[n - 1] = g[n - 1]
  BY <1>3 DEF Lines
<1> QED
  BY <1>2, <1>4, <1>5

LEMMA OpenIsRead == ASSUME NEW ls, NEW g, Reads(ls, g) PROVE Reads(ls, OpenBefore(ls))
BY DEF Reads, OpenBefore, After

LEMMA RenderedIsPlain == ASSUME NEW ls, Ordinary(ls) PROVE Rendered(ls) = Plain(ls)
<1>1. Lines(ls) /\ Reads(ls, Toggling(ls))
  BY TogglingReads DEF Ordinary
<1>2. Reads(ls, OpenBefore(ls))
  BY <1>1, OpenIsRead
<1>3. ASSUME NEW n \in DOMAIN ls
      PROVE  n \in Rendered(ls) <=> n \in Plain(ls)
  <2>1. n \in 1 .. Len(ls) + 1 /\ WellFormed(ls[n])
    BY <1>1, <1>3 DEF Lines
  <2>2. OpenBefore(ls)[n] = Toggling(ls)[n]
    BY <1>1, <1>2, <2>1, ReadOnce
  <2>3. OpenBefore(ls)[n] = Closed <=> Cardinality(TicksBefore(ls, n)) % 2 = 0
    BY <2>1, <2>2 DEF Toggling, Closed, Fenced
  <2>4. n \in Plain(ls) <=> ~Ticked(ls[n]) /\ Cardinality(TicksBefore(ls, n)) % 2 = 0
    BY <1>1, <1>3, PlainIsEven
  <2>5. (Ticked(ls[n]) => ls[n].kind = "ticks") /\ (n \in Plain(ls) => ls[n].kind # "tildes")
    BY <1>3, RowsAreOrdinary
  <2>6. n \in Rendered(ls) <=> OpenBefore(ls)[n] = Closed /\ ~IsRow(ls[n])
    BY <1>3 DEF Rendered
  <2> QED
    BY <2>1, <2>3, <2>4, <2>5, <2>6 DEF IsRow, WellFormed, Ticked
<1> QED
  BY <1>3 DEF Rendered, Plain, Outside

-------------------------------------------------------------------------------
(* The least of some places. *)
LEMMA LeastPlace ==
  ASSUME NEW S, S \subseteq Nat, S # {}
  PROVE  Min(S) \in S /\ \A k \in S : Min(S) <= k
<1>1. \E i \in S : \A k \in S : i <= k
  BY LeastNumber
<1> QED
  BY <1>1 DEF Min

(* If the checks see the lines a reader sees, the next heading they see is *)
(* where the empty section the reader sees ends.                           *)
LEMMA EmptyIsSeen ==
  ASSUME NEW ls, Lines(ls), Rendered(ls) = Plain(ls), EmptySections(ls) = {}
  PROVE  RenderedEmpty(ls) = {}
<1> SUFFICES ASSUME NEW n \in RenderedEmpty(ls) PROVE FALSE
  OBVIOUS
<1> DEFINE ends  == {k \in Rendered(ls) : k > n /\ Level(ls[k]) \in 1 .. Level(ls[n])}
           heads == {k \in HeadsIn(ls) : k > n}
           end   == Min(ends \cup {Len(ls) + 1})
           next  == Min(heads \cup {Len(ls) + 1})
<1>1. /\ n \in Plain(ls) /\ Level(ls[n]) # 0
      /\ \A k \in n + 1 .. end - 1 : ls[k].kind = "blank"
  BY DEF RenderedEmpty
<1>2. /\ Plain(ls) \subseteq 1 .. Len(ls) /\ Len(ls) + 1 \in Nat /\ n \in Nat
      /\ heads \subseteq 1 .. Len(ls) /\ ends \subseteq heads
  <2>1. Plain(ls) \subseteq 1 .. Len(ls) /\ Len(ls) \in Nat
    BY DEF Plain, Outside, Lines
  <2>2. ends \subseteq heads
    BY DEF HeadsIn
  <2> QED
    BY <1>1, <2>1, <2>2 DEF HeadsIn
<1>3. ends \cup {Len(ls) + 1} \subseteq Nat /\ heads \cup {Len(ls) + 1} \subseteq Nat
  BY <1>2
<1>4. /\ end \in ends \cup {Len(ls) + 1} /\ \A k \in ends \cup {Len(ls) + 1} : end <= k
      /\ next \in heads \cup {Len(ls) + 1} /\ \A k \in heads \cup {Len(ls) + 1} : next <= k
  <2> HIDE DEF ends, heads
  <2> QED
    BY <1>3, LeastPlace
<1>5. \A k \in heads : k > n /\ ls[k].kind # "blank"
  BY DEF HeadsIn, Level
<1> HIDE DEF end, next
<1>6. next <= end
  BY <1>2, <1>4
<1>7. next = end
  <2> SUFFICES ASSUME next < end PROVE FALSE
    BY <1>2, <1>3, <1>4, <1>6
  <2>1. next \in heads
    BY <1>2, <1>3, <1>4
  <2>2. next \in n + 1 .. end - 1
    BY <1>2, <1>3, <1>4, <1>5, <2>1
  <2> QED
    BY <1>1, <1>5, <2>1, <2>2
<1>8. next \in HeadsIn(ls) => Level(ls[next]) <= Level(ls[n])
  <2>1. Len(ls) + 1 \notin HeadsIn(ls)
    BY <1>2 DEF HeadsIn
  <2> SUFFICES ASSUME next \in HeadsIn(ls) PROVE Level(ls[next]) <= Level(ls[n])
    OBVIOUS
  <2>2. next \in ends
    BY <1>4, <1>7, <2>1
  <2> QED
    BY <2>2
<1>9. n \in EmptySections(ls)
  BY <1>1, <1>7, <1>8 DEF EmptySections, HeadsIn, next, end
<1> QED
  BY <1>9

-------------------------------------------------------------------------------
(* The inductive invariant: the files hold lines, and the verdict of the   *)
(* last gate is about them and the world as they still are.                *)

HitsInv == Passed => Unreadable(Here) = {} /\ \A i \in DOMAIN Hits(Here) : Hits(Here)[i] = {}
GateInv == TypeOK /\ DOMAIN docs = Paths /\ HitsInv

LEMMA InitGateInv == Init => GateInv
BY DocGateAssumption, LinesAreRead DEF Init, GateInv, TypeOK, HitsInv, Passed, OnDisk, Here, Paths

LEMMA EditStep == ASSUME GateInv, NEW d \in OnDisk(Here), Edit(d) PROVE GateInv'
<1>1. d \in Paths /\ docs[d] \in Seq(LinesOf(d))
  BY DEF GateInv, TypeOK, OnDisk
<1>2. docs'[d] \in {Absent, Missing} \/ docs'[d] \in Seq(LinesOf(d))
  <2>1. ASSUME NEW n \in DOMAIN docs[d], NEW l \in Shapes[d], docs' = [docs EXCEPT ![d][n] = l]
        PROVE  docs'[d] \in Seq(LinesOf(d))
    <3>1. docs'[d] = [docs[d] EXCEPT ![n] = l] /\ l \in LinesOf(d)
      BY <1>1, <2>1 DEF GateInv, LinesOf
    <3> QED
      BY <1>1, <3>1
  <2>2. ASSUME NEW gone \in {Absent, Missing}, docs' = [docs EXCEPT ![d] = gone]
        PROVE  docs'[d] \in {Absent, Missing}
    BY <1>1, <2>2 DEF GateInv
  <2> QED
    BY <2>1, <2>2 DEF Edit
<1>3. DOMAIN docs' = Paths /\ \A p \in Paths \ {d} : docs'[p] = docs[p]
  BY DEF Edit, GateInv
<1>4. TypeOK'
  <2>1. ASSUME NEW p \in OnDisk(Here)'
        PROVE  docs'[p] \in Seq(LinesOf(p))
    <3>1. p \in Paths /\ docs'[p] \notin {Absent, Missing}
      BY <2>1 DEF OnDisk, Here
    <3>2. CASE p = d
      BY <1>2, <3>1, <3>2
    <3>3. CASE p # d
      BY <1>3, <3>1, <3>3 DEF GateInv, TypeOK, OnDisk, Here
    <3> QED
      BY <3>2, <3>3
  <2>2. world' \in Worlds /\ changes' \in 0 .. MaxChanges /\ verdict' \in {"none", "passed", "failed"}
    BY DocGateAssumption DEF Edit, GateInv, TypeOK
  <2> QED
    BY <2>1, <2>2 DEF TypeOK
<1> QED
  BY <1>3, <1>4 DEF Edit, GateInv, HitsInv, Passed

LEMMA MoveStep == ASSUME GateInv, MoveOn PROVE GateInv'
BY DocGateAssumption DEF MoveOn, GateInv, TypeOK, OnDisk, Here, HitsInv, Passed

LEMMA GateStep == ASSUME GateInv, Gate PROVE GateInv'
<1>1. docs' = docs /\ world' = world /\ changes' = changes /\ verdict' \in {"passed", "failed"}
  BY DEF Gate
<1>2. Here' = Here
  BY <1>1 DEF Here
<1>3. HitsInv'
  BY <1>2 DEF Gate, HitsInv, Passed
<1> QED
  BY <1>1, <1>2, <1>3 DEF GateInv, TypeOK

LEMMA GateInvariant == Spec => []GateInv
<1>1. GateInv /\ [Next]_vars => GateInv'
  <2> SUFFICES ASSUME GateInv, [Next]_vars PROVE GateInv'
    OBVIOUS
  <2>1. CASE UNCHANGED vars
    <3>1. docs' = docs /\ world' = world /\ changes' = changes /\ verdict' = verdict
      BY <2>1 DEF vars
    <3>2. Here' = Here
      BY <3>1 DEF Here
    <3> QED
      BY <3>1, <3>2 DEF GateInv, TypeOK, HitsInv, Passed
  <2> QED
    BY <2>1, EditStep, MoveStep, GateStep DEF Next
<1> QED
  BY <1>1, InitGateInv, PTL DEF Spec

(* What a passing gate did not find. *)
LEMMA NothingFound ==
  ASSUME GateInv, Passed
  PROVE  /\ BrokenLinks(Here) = {} /\ Wording(Here) = {} /\ Undisclosed(Here) = {}
         /\ Drifted(Here) = {} /\ OldVersions(Here) = {} /\ Unreadable(Here) = {}
         /\ Faults(Here) = {}
         /\ \A d \in Documents(Here) : EmptySections(docs[d]) = {} /\ TildeRanges(docs[d]) = {}
<1>1. DOMAIN Hits(Here) = 1 .. 6
  BY DEF Hits
<1>2. /\ Hits(Here)[1] = {} /\ Hits(Here)[2] = {} /\ Hits(Here)[3] = {} /\ Hits(Here)[4] = {}
      /\ Hits(Here)[5] = {} /\ Hits(Here)[6] = {} /\ Unreadable(Here) = {}
  BY <1>1 DEF GateInv, HitsInv
<1>3. /\ BrokenLinks(Here) = {} /\ Wording(Here) = {} /\ Faults(Here) = {} /\ Undisclosed(Here) = {}
      /\ Drifted(Here) = {} /\ OldVersions(Here) = {}
  BY <1>2 DEF Hits
<1>4. \A d : Here.files[d] = docs[d]
  BY DEF Here
<1> QED
  BY <1>2, <1>3, <1>4 DEF Faults

LEMMA DocumentsHaveLines ==
  ASSUME GateInv, Passed, NEW d \in Documents(Here)
  PROVE  d \in OnDisk(Here) /\ d \in Paths /\ Lines(docs[d])
<1>1. d \in OnDisk(Here)
  BY NothingFound DEF Documents, Unreadable
<1>2. d \in Paths /\ docs[d] \in Seq(LinesOf(d))
  BY <1>1 DEF OnDisk, GateInv, TypeOK
<1>3. \A l \in LinesOf(d) : WellFormed(l)
  BY <1>2, LinesAreRead DEF Paths
<1>4. DOMAIN docs[d] = 1 .. Len(docs[d]) /\ Len(docs[d]) \in Nat
  BY <1>2
<1>5. \A n \in 1 .. Len(docs[d]) : docs[d][n] \in LinesOf(d)
  BY <1>2
<1> QED
  BY <1>1, <1>2, <1>3, <1>4, <1>5 DEF Lines

LEMMA PassedIsOrdinary ==
  ASSUME GateInv, Passed, NEW d \in Documents(Here), ~OddFences(docs[d])
  PROVE  Rendered(docs[d]) = Plain(docs[d])
BY NothingFound, DocumentsHaveLines, RenderedIsPlain DEF Ordinary

-------------------------------------------------------------------------------
(***************************************************************************)
(* Whatever the lines: without the odd fences, a document that passes has  *)
(* no section a reader finds empty.                                        *)
(***************************************************************************)
THEOREM NoneIsEmpty == Spec => []NoSectionIsEmpty
<1>1. GateInv => NoSectionIsEmpty
  <2> SUFFICES ASSUME GateInv, Passed, NEW d \in Documents(Here), ~OddFences(docs[d])
               PROVE  RenderedEmpty(docs[d]) = {}
    BY DEF NoSectionIsEmpty
  <2>1. Lines(docs[d]) /\ EmptySections(docs[d]) = {}
    BY NothingFound, DocumentsHaveLines
  <2>2. Rendered(docs[d]) = Plain(docs[d])
    BY PassedIsOrdinary
  <2> QED
    BY <2>1, <2>2, EmptyIsSeen
<1> QED
  BY <1>1, GateInvariant, PTL

(***************************************************************************)
(* Whatever the lines: the outline the gate compares is the one a reader   *)
(* of either language sees.                                                *)
(***************************************************************************)
THEOREM PairsAgree == Spec => []PairsReadAlike
<1>1. ASSUME GateInv, Passed, NEW d \in Documents(Here), ~OddFences(docs[d]), ~Indented(docs[d])
      PROVE  AsRead(docs[d]) = Skeleton(docs[d])
  <2>1. Rendered(docs[d]) = Plain(docs[d])
    BY <1>1, PassedIsOrdinary
  <2>2. Plain(docs[d]) = Counted(docs[d])
    <3>1. {n \in DOMAIN docs[d] : AtMargin(docs[d][n])} = {n \in DOMAIN docs[d] : Ticked(docs[d][n])}
      BY <1>1 DEF AtMargin, Indented
    <3> QED
      BY <3>1 DEF Plain, Counted
  <2> QED
    BY <2>1, <2>2 DEF AsRead, Skeleton
<1>2. GateInv => PairsReadAlike
  <2> SUFFICES ASSUME GateInv, Passed, NEW ko \in Documents(Here) \cap DOMAIN Original,
                      Original[ko] \in Documents(Here),
                      \A ls \in {docs[ko], docs[Original[ko]]} : ~OddFences(ls) /\ ~Indented(ls)
               PROVE  AsRead(docs[ko]) = AsRead(docs[Original[ko]])
    BY DEF PairsReadAlike
  <2>1. Skeleton(docs[ko]) = Skeleton(docs[Original[ko]])
    BY NothingFound DEF Drifted, Here
  <2>2. AsRead(docs[ko]) = Skeleton(docs[ko]) /\ AsRead(docs[Original[ko]]) = Skeleton(docs[Original[ko]])
    BY <1>1
  <2> QED
    BY <2>1, <2>2
<1> QED
  BY <1>2, GateInvariant, PTL

-------------------------------------------------------------------------------
(* A clone has the lines of what git lists, and that is all it has.        *)
LEMMA CloneHas ==
  ASSUME GateInv, Passed
  PROVE  /\ Tracked(Clone) = Tracked(Here) /\ OnDisk(Clone) = Tracked(Here)
         /\ Documents(Clone) = Documents(Here)
         /\ Tracked(Here) \subseteq OnDisk(Here)
         /\ \A d \in Tracked(Here) : Clone.files[d] = docs[d] /\ Here.files[d] = docs[d]
<1>1. Tracked(Here) \subseteq OnDisk(Here) /\ Tracked(Here) \subseteq Paths
  BY NothingFound DEF Unreadable, Tracked
<1>2. /\ Clone.files = [d \in Paths |-> IF d \in Tracked(Here) THEN docs[d] ELSE Absent]
      /\ Here.files = docs
  BY DEF Clone, Here
<1>3. Clone.world.untracked = {}
  <2>1. Clone.world = [world EXCEPT !.untracked = {}, !.listed = TRUE]
    BY DEF Clone
  <2>2. "untracked" \in DOMAIN world
    <3>1. world \in Worlds
      BY DEF GateInv, TypeOK
    <3>2. DOMAIN world = {"go", "toolchain", "linked", "listed", "untracked"}
      BY <3>1, DocGateAssumption
    <3> QED
      BY <3>2
  <2> QED
    BY <2>1, <2>2
<1>4. \A d \in OnDisk(Here) : docs[d] \notin {Absent, Missing}
  BY <1>2 DEF OnDisk
<1>5. \A d \in Paths : Clone.files[d] = IF d \in Tracked(Here) THEN docs[d] ELSE Absent
  BY <1>2
<1>6. OnDisk(Clone) = Tracked(Here)
  BY <1>1, <1>4, <1>5 DEF OnDisk
<1>7. Tracked(Clone) = Tracked(Here)
  BY <1>1, <1>3, <1>4, <1>5 DEF Tracked
<1> QED
  BY <1>1, <1>2, <1>5, <1>6, <1>7 DEF Documents

(***************************************************************************)
(* Whatever files, links and modules there are: what passes on a disk      *)
(* fails in a clone of what git has for one of three reasons.              *)
(***************************************************************************)
THEOREM CloneFails == Spec => []FailsElsewhereForThreeReasons
<1>1. ASSUME GateInv, Passed, NEW at \in BrokenLinks(Clone)
      PROVE  \E link \in LineAt(Clone, at).links : link.to \in world.untracked
  <2>1. /\ at \in Places(Clone, Documents(Clone))
        /\ \E link \in LineAt(Clone, at).links : link.to # Elsewhere /\ Misses(Clone, link)
    BY <1>1 DEF BrokenLinks
  <2>2. PICK link \in LineAt(Clone, at).links : link.to # Elsewhere /\ Misses(Clone, link)
    BY <2>1
  <2>3. PICK d \in Documents(Clone) : at \in {d} \X DOMAIN Clone.files[d]
    BY <2>1 DEF Places
  <2>4. d \in Documents(Here) /\ d \in Tracked(Here) /\ Clone.files[d] = docs[d] /\ Here.files[d] = docs[d]
    BY <1>1, <2>3, CloneHas DEF Documents
  <2>5. at \in Places(Here, Documents(Here)) /\ LineAt(Here, at) = LineAt(Clone, at)
    BY <2>3, <2>4 DEF Places, LineAt
  <2>6. ~Misses(Here, link)
    BY <1>1, <2>2, <2>5, NothingFound DEF BrokenLinks
  <2>7. ASSUME link.to \notin world.untracked
        PROVE  FALSE
    <3>1. link.to \in OnDisk(Here)
      BY <2>6 DEF Misses
    <3>2. link.to \in Tracked(Here)
      BY <2>7, <3>1 DEF OnDisk, Tracked, Here
    <3>3. Clone.files[link.to] = Here.files[link.to] /\ link.to \in OnDisk(Clone)
      BY <1>1, <3>2, CloneHas
    <3>4. Anchors(Clone, link.to) = Anchors(Here, link.to)
      BY <3>3 DEF Anchors
    <3> QED
      BY <1>1, <2>2, <2>6, <3>3, <3>4, CloneHas DEF Misses
  <2> QED
    BY <2>2, <2>7
<1>2. ASSUME GateInv, Passed, NEW ko \in Drifted(Clone)
      PROVE  Original[ko] \in world.untracked
  <2>1. ko \in Documents(Here) /\ ko \in DOMAIN Original /\ ko \in Tracked(Here)
    BY <1>1, <1>2, CloneHas DEF Drifted, Documents
  <2>2. /\ Original[ko] \in OnDisk(Here)
        /\ Skeleton(Here.files[ko]) = Skeleton(Here.files[Original[ko]])
    BY <1>2, <2>1, NothingFound DEF Drifted
  <2>3. ASSUME Original[ko] \notin world.untracked
        PROVE  FALSE
    <3>1. Original[ko] \in Tracked(Here)
      BY <2>2, <2>3 DEF OnDisk, Tracked, Here
    <3>2. /\ Original[ko] \in OnDisk(Clone)
          /\ Clone.files[ko] = Here.files[ko] /\ Clone.files[Original[ko]] = Here.files[Original[ko]]
      BY <1>2, <2>1, <3>1, CloneHas
    <3> QED
      BY <1>2, <2>2, <3>2 DEF Drifted
  <2> QED
    BY <2>3
<1>3. ASSUME GateInv, Passed
      PROVE  /\ Clone.world.linked = world.linked /\ Clone.world.go = world.go
             /\ Clone.world.toolchain = world.toolchain /\ Here.world = world
  <2>1. Clone.world = [world EXCEPT !.untracked = {}, !.listed = TRUE] /\ Here.world = world
    BY DEF Clone, Here
  <2> QED
    BY <2>1
<1>4. ASSUME GateInv, Passed, world.listed
      PROVE  Undisclosed(Clone) = {}
  <2>1. CASE Licences \in OnDisk(Clone)
    <3>1. Licences \in OnDisk(Here) /\ Clone.files[Licences] = Here.files[Licences]
      BY <1>4, <2>1, CloneHas
    <3>2. Said(Clone, Licences) = Said(Here, Licences)
      BY <3>1 DEF Said
    <3>3. \A m \in world.linked : m[1] \in Said(Here, Licences) /\ m[2] \in Said(Here, Licences)
      BY <1>3, <1>4, <3>1, NothingFound DEF Undisclosed
    <3> QED
      BY <1>3, <1>4, <3>2, <3>3 DEF Undisclosed
  <2>2. CASE Licences \notin OnDisk(Clone)
    BY <2>2 DEF Undisclosed
  <2> QED
    BY <2>1, <2>2
<1>5. ASSUME GateInv, Passed
      PROVE  /\ Unreadable(Clone) = {} /\ Wording(Clone) = {} /\ Faults(Clone) = {} /\ OldVersions(Clone) = {}
  <2>1. Unreadable(Clone) = {}
    BY <1>5, CloneHas DEF Unreadable
  <2>2. \A d \in Tracked(Here) : Clone.files[d] = Here.files[d]
    BY <1>5, CloneHas
  <2>3. \A d \in Documents(Here) : d \in Tracked(Here)
    BY DEF Documents
  <2>4. Wording(Clone) = Wording(Here)
    <3>1. Places(Clone, Tracked(Clone)) = Places(Here, Tracked(Here))
      BY <1>5, <2>2, CloneHas DEF Places
    <3>2. \A at \in Places(Here, Tracked(Here)) : LineAt(Clone, at) = LineAt(Here, at)
      BY <2>2 DEF Places, LineAt
    <3> QED
      BY <3>1, <3>2 DEF Wording
  <2>5. Faults(Clone) = Faults(Here)
    BY <1>5, <2>2, <2>3, CloneHas DEF Faults
  <2>6. OldVersions(Clone) = OldVersions(Here)
    <3>1. \A d \in Documents(Here) : Said(Clone, d) = Said(Here, d)
      BY <2>2, <2>3 DEF Said
    <3> QED
      BY <1>3, <1>5, <3>1, CloneHas DEF OldVersions
  <2> QED
    BY <1>5, <2>1, <2>4, <2>5, <2>6, NothingFound
<1>6. GateInv => FailsElsewhereForThreeReasons
  BY <1>1, <1>2, <1>4, <1>5 DEF FailsElsewhereForThreeReasons
<1> QED
  BY <1>6, GateInvariant, PTL
===============================================================================
