------------------------------ MODULE GateProofs ------------------------------
(***************************************************************************)
(* The import gate, for every set of rules whose Allow is closed: what it  *)
(* lets through links only what it is meant to.  It judges single imports, *)
(* so the proof carries two facts from the check to the link: that the     *)
(* roots already checked have no violation outside bad, and that the       *)
(* linked packages are ones the gate looks into.                           *)
(*                                                                         *)
(* The prose gate, for every set of files, rules and words where no word   *)
(* begins where another stands: its hits are the flagged characters of the *)
(* lines they name, and when it passes the files are as the baseline says. *)
(* The proof follows a text through the gate: what masking leaves of it,   *)
(* where a word of overlap.txt still stands then, what is left when all of *)
(* them are covered, and how many hits that makes in a line and in a file. *)
(* The same facts, with the widths of the characters, give the words for   *)
(* which the gate does not die of an excerpt and each shows its line.      *)
(***************************************************************************)
EXTENDS ImportWalk, Prose, NumberFacts, TLAPS

(* What the check has established. *)
CheckedInv ==
  /\ Measured(files)
  /\ \A r \in Roots \ left : ImportViolations(InRoot(r), Roots) \subseteq bad
  /\ verdict = "passed" => left = {} /\ bad = {}

(* What has been linked. *)
LinkInv ==
  /\ linked # {} => verdict = "passed" /\ AreaIn(command) # NoArea
  /\ \A p \in linked : ~InTestdataDir(p)

IInv == CheckedInv /\ LinkInv /\ LinkedIsAllowed

-------------------------------------------------------------------------------
(* A file of a passed workspace that is not under testdata is classified and *)
(* all its imports of other roots are allowed to it.                         *)
LEMMA PassedFile ==
  ASSUME CheckedInv, verdict = "passed", NEW f \in files, ~InTestdataDir(PackageOf(f))
  PROVE  /\ AreaIn(PackageOf(f)) # NoArea
         /\ \A p \in f.imports :
              p[1] \in Roots => ImportAllowed(AreaIn(PackageOf(f)), p)
<1>1. f.repo \in Roots /\ f \in InRoot(f.repo)
  BY DEF CheckedInv, Measured, InRoot
<1>2. f \notin ImportViolations(InRoot(f.repo), Roots)
  BY <1>1 DEF CheckedInv
<1>3. ~FileViolates(f, Roots)
  BY <1>1, <1>2 DEF ImportViolations
<1>4. ~InTestdata(f)
  BY DEF InTestdata, InTestdataDir, PackageOf
<1> QED
  BY <1>3, <1>4 DEF FileViolates, Internal

(* A compiled import of a package comes from one of its files. *)
LEMMA ImportHasFile ==
  ASSUME NEW p, NEW q \in Imports(p)
  PROVE  \E f \in files : PackageOf(f) = p /\ q \in f.imports
BY DEF Imports

(* A classified package has an area of the table. *)
LEMMA ClassifiedArea ==
  ASSUME NEW p, AreaIn(p) # NoArea
  PROVE  AreaIn(p) \in Areas
<1>1. Hits(p) # {} /\ Hits(p) \subseteq DOMAIN Classes
  BY DEF AreaIn, Hits
<1>2. \E i \in Hits(p) : \A j \in Hits(p) : i <= j
  BY <1>1, LeastNumber, ImportRulesAssumption
<1>3. FirstHit(p) \in DOMAIN Classes
  BY <1>1, <1>2 DEF FirstHit
<1> QED
  BY <1>1, <1>3 DEF AreaIn, Areas


(* A linked package may be built on by whatever its command's area allows. *)
LEMMA LinkKeepsAllowed ==
  ASSUME AllowIsClosed, IInv, NEW p \in linked, NEW q \in Imports(p), q[1] \in Roots
  PROVE  AreaIn(q) # NoArea /\ AreaIn(q) \in Allow[AreaIn(command)]
<1>1. PICK f \in files : PackageOf(f) = p /\ q \in f.imports
  BY ImportHasFile
<1>2. verdict = "passed" /\ ~InTestdataDir(p)
  BY DEF IInv, LinkInv
<1>3. ImportAllowed(AreaIn(p), q) /\ AreaIn(p) # NoArea
  BY <1>1, <1>2, PassedFile DEF IInv
<1>4. p[1] \in Roots
  BY <1>1 DEF IInv, CheckedInv, Measured, PackageOf
<1>5. CASE p = command
  BY <1>3, <1>5 DEF ImportAllowed
<1>6. CASE p # command
  <2>1. AreaIn(p) \in Allow[AreaIn(command)]
    BY <1>4, <1>6 DEF IInv, LinkedIsAllowed
  <2>2. AreaIn(command) \in Areas
    BY ClassifiedArea DEF IInv, LinkInv
  <2>3. Allow[AreaIn(p)] \subseteq Allow[AreaIn(command)]
    BY <2>1, <2>2 DEF AllowIsClosed
  <2> QED
    BY <1>3, <2>3 DEF ImportAllowed
<1> QED
  BY <1>5, <1>6

-------------------------------------------------------------------------------
LEMMA CheckRootKeeps ==
  ASSUME NEW r \in Roots, IInv, CheckRoot(r)
  PROVE  IInv'
<1>1. CheckedInv'
  <2>1. Measured(files)' /\ (verdict = "passed" => left = {} /\ bad = {})'
    BY DEF IInv, CheckedInv, CheckRoot, Measured
  <2>2. ASSUME NEW s \in Roots \ left'
        PROVE  ImportViolations(InRoot(s), Roots)' \subseteq bad'
    BY <2>2 DEF IInv, CheckedInv, CheckRoot, InRoot, ImportViolations, FileViolates
  <2> QED
    BY <2>1, <2>2 DEF CheckedInv
<1>2. LinkInv' /\ LinkedIsAllowed'
  BY DEF IInv, LinkInv, LinkedIsAllowed, CheckRoot
<1> QED
  BY <1>1, <1>2 DEF IInv

LEMMA ExitKeeps ==
  ASSUME IInv, Exit
  PROVE  IInv'
<1>1. CheckedInv'
  BY DEF IInv, CheckedInv, Exit, Measured, InRoot, ImportViolations
<1>2. LinkInv' /\ LinkedIsAllowed'
  BY DEF IInv, LinkInv, LinkedIsAllowed, Exit
<1> QED
  BY <1>1, <1>2 DEF IInv

LEMMA BuildKeeps ==
  ASSUME NEW c \in Commands, IInv, Build(c)
  PROVE  IInv'
<1>1. CheckedInv'
  BY DEF IInv, CheckedInv, Build, Measured, InRoot, ImportViolations
<1>2. AreaIn(c) # NoArea
  <2>1. PICK f \in files : PackageOf(f) = c
    BY DEF Build, Packages
  <2>2. ~InTestdataDir(c)
    BY ImportWalkAssumption
  <2> QED
    BY <2>1, <2>2, PassedFile DEF IInv, Build
<1>3. LinkInv'
  BY <1>2, ImportWalkAssumption DEF IInv, LinkInv, Build
<1>4. LinkedIsAllowed'
  BY <1>2 DEF LinkedIsAllowed, Build
<1> QED
  BY <1>1, <1>3, <1>4 DEF IInv

LEMMA LinkKeeps ==
  ASSUME AllowIsClosed, NEW p \in linked, IInv, Link(p)
  PROVE  IInv'
<1>1. CheckedInv'
  BY DEF IInv, CheckedInv, Link, Measured, InRoot, ImportViolations
<1>2. LinkInv'
  <2>1. verdict' = "passed" /\ AreaIn(command') # NoArea
    BY DEF IInv, LinkInv, Link
  <2>2. ASSUME NEW q \in Imports(p)
        PROVE  ~InTestdataDir(q)
    BY ImportHasFile DEF IInv, CheckedInv, Measured
  <2> QED
    BY <2>1, <2>2 DEF IInv, LinkInv, Link
<1>3. LinkedIsAllowed'
  <2>1. SUFFICES ASSUME NEW q \in linked', q[1] \in Roots
                 PROVE  /\ AreaIn(q) # NoArea
                        /\ q = command \/ AreaIn(q) \in Allow[AreaIn(command)]
    BY DEF LinkedIsAllowed, Link
  <2>2. CASE q \in linked
    BY <2>1, <2>2 DEF IInv, LinkedIsAllowed
  <2>3. CASE q \in Imports(p)
    BY <2>1, <2>3, LinkKeepsAllowed
  <2> QED
    BY <2>2, <2>3 DEF Link
<1> QED
  BY <1>1, <1>2, <1>3 DEF IInv

(***************************************************************************)
(* Closed rules: a binary built from repositories that passed the gate     *)
(* holds only packages its command's area may import.                      *)
(***************************************************************************)
THEOREM LinkedCorrect == AllowIsClosed => (Spec => []LinkedIsAllowed)
<1> SUFFICES ASSUME AllowIsClosed
             PROVE  Spec => []LinkedIsAllowed
  OBVIOUS
<1>1. Init => IInv
  BY DEF Init, IInv, CheckedInv, LinkInv, LinkedIsAllowed
<1>2. IInv /\ [Next]_vars => IInv'
  <2> SUFFICES ASSUME IInv, [Next]_vars
               PROVE  IInv'
    OBVIOUS
  <2>1. CASE UNCHANGED vars
    BY <2>1 DEF vars, IInv, CheckedInv, LinkInv, LinkedIsAllowed, Measured, InRoot, ImportViolations
  <2> QED
    BY <2>1, CheckRootKeeps, ExitKeeps, BuildKeeps, LinkKeeps DEF Next
<1>3. IInv => LinkedIsAllowed
  BY DEF IInv
<1> QED
  BY <1>1, <1>2, <1>3, PTL DEF Spec

-------------------------------------------------------------------------------
(* The sums of a sequence's first numbers. *)
LEMMA Sums ==
  ASSUME NEW s \in Seq(Nat)
  PROVE  /\ UpTo(s) \in [0 .. Len(s) -> Nat] /\ UpTo(s)[0] = 0
         /\ \A n \in 1 .. Len(s) : UpTo(s)[n] = UpTo(s)[n - 1] + s[n]
<1> DEFINE N == Len(s)
           Adds(g) == g = [n \in 0 .. N |-> IF n = 0 THEN 0 ELSE g[n - 1] + s[n]]
           step == [n \in 1 .. N |-> [m \in Nat |-> m + s[n]]]
<1>1. N \in Nat /\ 0 \in Nat /\ \A n \in 1 .. N : s[n] \in Nat
  OBVIOUS
<1>2. \A n \in 1 .. N : \A m \in Nat : step[n][m] \in Nat
  BY <1>1
<1>3. \A n \in 1 .. N : \A m \in Nat : step[n][m] = m + s[n]
  OBVIOUS
<1>4. UpTo(s) = CHOOSE g : Adds(g)
  BY DEF UpTo
<1> HIDE DEF N, step
<1>5. PICK f \in [0 .. N -> Nat] : f[0] = 0 /\ \A n \in 1 .. N : f[n] = step[n][f[n - 1]]
  <2>1. HasValues(N, Nat, 0, step)
    BY <1>1, <1>2, ValueAfterValue
  <2> QED
    BY <2>1 DEF HasValues
<1>6. \A n \in 1 .. N : n - 1 \in 0 .. N /\ f[n - 1] \in Nat
  BY <1>1
<1>7. Adds(f)
  <2>1. \A n \in 0 .. N : f[n] = IF n = 0 THEN 0 ELSE f[n - 1] + s[n]
    <3>1. ASSUME NEW n \in 1 .. N
          PROVE  n # 0 /\ f[n] = f[n - 1] + s[n]
      <4>1. f[n - 1] \in Nat /\ f[n] = step[n][f[n - 1]]
        BY <1>5, <1>6
      <4>2. step[n][f[n - 1]] = f[n - 1] + s[n]
        BY <1>3, <4>1
      <4> QED
        BY <1>1, <4>1, <4>2
    <3> QED
      BY <1>1, <1>5, <3>1
  <2> QED
    BY <2>1
<1> DEFINE F == UpTo(s)
<1>8. Adds(F)
  <2> HIDE DEF Adds
  <2> QED
    BY <1>4, <1>7
<1> HIDE DEF F
<1>9. DOMAIN F = 0 .. N /\ F[0] = 0 /\ \A n \in 1 .. N : F[n] = F[n - 1] + s[n]
  <2>1. DOMAIN F = 0 .. N
    BY <1>8
  <2>2. \A n \in 0 .. N : F[n] = IF n = 0 THEN 0 ELSE F[n - 1] + s[n]
    BY <1>8
  <2> HIDE DEF Adds
  <2> QED
    BY <1>1, <2>1, <2>2
<1> HIDE DEF Adds
<1> DEFINE S == {n \in 0 .. N : F[n] \in Nat}
<1>10. 0 .. N \subseteq S
  <2>1. 0 \in S
    BY <1>1, <1>9
  <2>2. ASSUME NEW n \in 1 .. N, n - 1 \in S
        PROVE  n \in S
    <3>1. n \in 0 .. N /\ F[n] = F[n - 1] + s[n] /\ F[n - 1] \in Nat /\ s[n] \in Nat
      BY <1>1, <1>9, <2>2
    <3> QED
      BY <3>1
  <2> HIDE DEF S
  <2> QED
    BY <1>1, <2>1, <2>2, FromZeroOn
<1>11. F \in [0 .. N -> Nat]
  <2>1. F = [n \in 0 .. N |-> F[n]]
    BY <1>8 DEF Adds
  <2> QED
    BY <1>9, <1>10, <2>1
<1> QED
  BY <1>9, <1>11 DEF F, N

LEMMA SumsGrow ==
  ASSUME NEW s \in Seq(Nat), \A n \in 1 .. Len(s) : s[n] >= 1
  PROVE  /\ \A j, k \in 0 .. Len(s) : j < k => UpTo(s)[j] < UpTo(s)[k]
         /\ \A j, k \in 0 .. Len(s) : j # k => UpTo(s)[j] # UpTo(s)[k]
<1> DEFINE N == Len(s)
           F == UpTo(s)
           S == {k \in 0 .. N : \A j \in 0 .. N : j < k => F[j] < F[k]}
<1>1. /\ N \in Nat /\ F \in [0 .. N -> Nat]
      /\ \A n \in 1 .. N : F[n] = F[n - 1] + s[n] /\ s[n] \in Nat /\ s[n] >= 1
  BY Sums
<1> HIDE DEF F, N
<1>2. 0 \in S
  BY <1>1
<1>3. ASSUME NEW n \in 1 .. N, n - 1 \in S
      PROVE  n \in S
  <2>1. n \in 0 .. N /\ n - 1 \in 0 .. N /\ F[n] \in Nat /\ F[n - 1] \in Nat
    BY <1>1
  <2>2. F[n - 1] < F[n]
    <3>1. F[n] = F[n - 1] + s[n] /\ s[n] \in Nat /\ s[n] >= 1
      BY <1>1
    <3> QED
      BY <2>1, <3>1
  <2>3. ASSUME NEW j \in 0 .. N, j < n
        PROVE  F[j] < F[n]
    <3>1. F[j] \in Nat /\ (j = n - 1 \/ j < n - 1)
      BY <1>1, <2>1, <2>3
    <3> QED
      BY <1>3, <2>1, <2>2, <3>1
  <2> QED
    BY <2>1, <2>3
<1>4. 0 .. N \subseteq S
  <2> HIDE DEF S
  <2> QED
    BY <1>1, <1>2, <1>3, FromZeroOn
<1>5. \A j, k \in 0 .. N : j < k => F[j] < F[k]
  BY <1>4
<1>6. ASSUME NEW j \in 0 .. N, NEW k \in 0 .. N, j # k
      PROVE  F[j] # F[k]
  <2>1. F[j] \in Nat /\ F[k] \in Nat /\ (j < k \/ k < j)
    BY <1>1, <1>6
  <2> QED
    BY <1>5, <2>1
<1> QED
  BY <1>5, <1>6 DEF F, N

(* What lines are made of, covered or not.                                   *)
Marks == Characters \cup Covers

(* Widths are at least one byte, so that two characters of a line are at     *)
(* two offsets.                                                              *)
LEMMA WidthType == \A c : Width(c) \in 1 .. 7
<1> SUFFICES ASSUME NEW c
             PROVE  Width(c) \in 1 .. 7
  OBVIOUS
<1>1. (\E n \in 1 .. 7 : c \in {Spaces[n], Xs[n]}) =>
        (CHOOSE n \in 1 .. 7 : c \in {Spaces[n], Xs[n]}) \in 1 .. 7
  OBVIOUS
<1> QED
  BY <1>1 DEF Width

LEMMA OffsetsApart ==
  ASSUME NEW l \in Seq(Marks)
  PROVE  /\ UpTo(Widths(l)) \in [0 .. Len(l) -> Nat]
         /\ Bytes(l) \in Nat
         /\ \A j, k \in DOMAIN l : j # k => UpTo(Widths(l))[j - 1] # UpTo(Widths(l))[k - 1]
<1> DEFINE w == Widths(l)
<1>1. w \in Seq(Nat) /\ Len(w) = Len(l) /\ \A n \in 1 .. Len(w) : w[n] >= 1
  <2>1. w \in [1 .. Len(l) -> Nat] /\ \A n \in 1 .. Len(l) : w[n] >= 1
    BY WidthType DEF Widths
  <2> HIDE DEF w
  <2> QED
    BY <2>1
<1> HIDE DEF w
<1>2. UpTo(w) \in [0 .. Len(l) -> Nat]
  BY <1>1, Sums
<1>3. \A j, k \in 0 .. Len(l) : j # k => UpTo(w)[j] # UpTo(w)[k]
  BY <1>1, SumsGrow
<1>4. ASSUME NEW j \in DOMAIN l, NEW k \in DOMAIN l, j # k
      PROVE  UpTo(w)[j - 1] # UpTo(w)[k - 1]
  <2>1. j - 1 \in 0 .. Len(l) /\ k - 1 \in 0 .. Len(l) /\ j - 1 # k - 1
    BY <1>4
  <2> QED
    BY <1>3, <2>1
<1>5. Len(l) \in 0 .. Len(l)
  OBVIOUS
<1> QED
  BY <1>2, <1>4, <1>5 DEF w, Bytes

-------------------------------------------------------------------------------
(* The words of the list.  Where one stands no other begins.               *)

LEMMA WordsApart ==
  ASSUME NEW l \in Seq(Marks), NEW m \in DOMAIN Overlap, NEW n \in DOMAIN Overlap,
         NEW p \in DOMAIN l, NEW q \in DOMAIN l,
         StandsAt(Overlap[m], l, p), StandsAt(Overlap[n], l, q),
         p <= q, q < p + Len(Overlap[m])
  PROVE  m = n /\ p = q
<1> DEFINE d == q - p
<1>1. /\ Overlap[m] \in Seq(Characters) /\ Overlap[n] \in Seq(Characters)
      /\ Len(Overlap[m]) \in Nat
      /\ p \in Nat /\ q \in Nat /\ d \in 0 .. Len(Overlap[m]) - 1
  BY OverlapAssumption
<1>2. ASSUME NEW j \in DOMAIN Overlap[n], d + j <= Len(Overlap[m])
      PROVE  Overlap[m][d + j] = Overlap[n][j]
  <2>1. d + j \in DOMAIN Overlap[m] /\ p + (d + j) - 1 = q + j - 1
    <3>1. j \in Nat /\ j >= 1
      BY <1>1
    <3>2. DOMAIN Overlap[m] = 1 .. Len(Overlap[m])
      BY <1>1
    <3>3. d + j \in 1 .. Len(Overlap[m])
      <4> HIDE DEF d
      <4> QED
        BY <1>1, <1>2, <3>1
    <3>4. p + (d + j) - 1 = q + j - 1
      <4>1. p \in Int /\ q \in Int /\ j \in Int
        BY <1>1, <3>1
      <4> QED
        BY <4>1
    <3> QED
      BY <3>2, <3>3, <3>4
  <2>2. l[p + (d + j) - 1] = Overlap[m][d + j]
    <3>1. \A e \in DOMAIN Overlap[m] : l[p + e - 1] = Overlap[m][e]
      BY DEF StandsAt
    <3> HIDE DEF d
    <3> QED
      BY <2>1, <3>1
  <2>3. l[q + j - 1] = Overlap[n][j]
    BY DEF StandsAt
  <2> QED
    BY <2>1, <2>2, <2>3
<1>3. m = n /\ d = 0
  <2> HIDE DEF d
  <2>1. d \in 0 .. Len(Overlap[m]) - 1
    BY <1>1
  <2>2. \A e \in 0 .. Len(Overlap[m]) - 1 :
          (\A j \in DOMAIN Overlap[n] : e + j <= Len(Overlap[m]) => Overlap[m][e + j] = Overlap[n][j])
            => m = n /\ e = 0
    BY OverlapAssumption
  <2> QED
    BY <1>2, <2>1, <2>2
<1> QED
  BY <1>1, <1>3 DEF d

UnderWord(l, k, n) ==
  \E m \in 1 .. n : \E p \in DOMAIN l : StandsAt(Overlap[m], l, p) /\ k \in p .. p + Len(Overlap[m]) - 1

LEMMA TakenIsAll ==
  ASSUME NEW l \in Seq(Marks), NEW n \in DOMAIN Overlap
  PROVE  Taken(l, Overlap[n]) = {p \in DOMAIN l : StandsAt(Overlap[n], l, p)}
<1> DEFINE w == Overlap[n]
           A == {p \in DOMAIN l : StandsAt(w, l, p)}
           Greedy(at) ==
             \A k \in DOMAIN l : k \in at <=> StandsAt(w, l, k) /\ \A j \in at : j < k => j + Len(w) <= k
<1>1. Len(w) \in Nat /\ DOMAIN l \subseteq Nat
  BY OverlapAssumption
<1>2. \A p, q \in A : p < q => p + Len(w) <= q
  <2>1. ASSUME NEW p \in A, NEW q \in A, p < q, ~(p + Len(w) <= q)
        PROVE  FALSE
    <3>1. p <= q /\ q < p + Len(w) /\ p # q
      BY <1>1, <2>1
    <3> QED
      BY <2>1, <3>1, WordsApart
  <2> QED
    BY <2>1
<1>3. Greedy(A)
  BY <1>2
<1>4. ASSUME NEW at \in SUBSET DOMAIN l, Greedy(at)
      PROVE  at = A
  BY <1>2, <1>4
<1>5. Taken(l, w) = CHOOSE at \in SUBSET DOMAIN l : Greedy(at)
  BY DEF Taken
<1>6. A \in SUBSET DOMAIN l
  OBVIOUS
<1> HIDE DEF Greedy, A, w
<1> QED
  BY <1>3, <1>4, <1>5, <1>6 DEF A, w

LEMMA HideType ==
  ASSUME NEW l \in Seq(Marks), NEW w
  PROVE  Hide(l, w) \in Seq(Marks) /\ DOMAIN Hide(l, w) = DOMAIN l
<1>1. \A k \in DOMAIN l : (IF \E p \in Taken(l, w) : k \in p .. p + Len(w) - 1 THEN "circle" ELSE l[k]) \in Marks
  BY DEF Marks, Covers
<1>2. Hide(l, w) \in [1 .. Len(l) -> Marks]
  BY <1>1 DEF Hide
<1> HIDE DEF Hide
<1> QED
  BY <1>2

(* hideOverlap covers one word after the other.                              *)
LEMMA HideStepwise ==
  ASSUME NEW l \in Seq(Marks)
  PROVE  \E h \in [0 .. Len(Overlap) -> Seq(Marks)] :
            /\ h[0] = l /\ HideWords(l) = h[Len(Overlap)]
            /\ \A n \in 1 .. Len(Overlap) : h[n] = Hide(h[n - 1], Overlap[n])
<1> DEFINE N == Len(Overlap)
           V == Seq(Marks)
           Hides(g) == g = [n \in 0 .. N |-> IF n = 0 THEN l ELSE Hide(g[n - 1], Overlap[n])]
           step == [n \in 1 .. N |-> [v \in V |-> Hide(v, Overlap[n])]]
<1>1. N \in Nat
  BY OverlapAssumption
<1>2. \A n \in 1 .. N : \A v \in V : step[n][v] = Hide(v, Overlap[n])
  OBVIOUS
<1>3. \A n \in 1 .. N : \A v \in V : step[n][v] \in V
  BY <1>2, HideType
<1>4. HideWords(l) = (CHOOSE g : Hides(g))[N]
  BY DEF HideWords
<1> HIDE DEF N, V, step
<1>5. l \in V
  BY DEF V
<1>6. HasValues(N, V, l, step)
  BY <1>1, <1>3, <1>5, ValueAfterValue
<1>7. PICK f \in [0 .. N -> V] : f[0] = l /\ \A n \in 1 .. N : f[n] = step[n][f[n - 1]]
  BY <1>6 DEF HasValues
<1>8. \A n \in 1 .. N : f[n - 1] \in V /\ f[n] = Hide(f[n - 1], Overlap[n])
  <2>1. ASSUME NEW n \in 1 .. N
        PROVE  f[n - 1] \in V /\ f[n] = Hide(f[n - 1], Overlap[n])
    <3>1. n - 1 \in 0 .. N
      BY <1>1
    <3>2. f[n - 1] \in V /\ f[n] = step[n][f[n - 1]]
      BY <1>7, <3>1
    <3> QED
      BY <1>2, <3>2
  <2> QED
    BY <2>1
<1>9. Hides(f)
  <2>1. \A n \in 0 .. N : f[n] = IF n = 0 THEN l ELSE Hide(f[n - 1], Overlap[n])
    <3>1. \A n \in 0 .. N : n = 0 \/ n \in 1 .. N
      BY <1>1
    <3> QED
      BY <1>1, <1>7, <1>8, <3>1
  <2> QED
    BY <1>7, <2>1
<1> DEFINE h == CHOOSE g : Hides(g)
<1>10. Hides(h)
  <2> HIDE DEF Hides
  <2> QED
    BY <1>9
<1> HIDE DEF h
<1>11. DOMAIN h = 0 .. N /\ h = [n \in 0 .. N |-> h[n]]
  BY <1>10
<1>12. h[0] = l /\ \A n \in 1 .. N : h[n] = Hide(h[n - 1], Overlap[n])
  <2>1. \A n \in 0 .. N : h[n] = IF n = 0 THEN l ELSE Hide(h[n - 1], Overlap[n])
    BY <1>10
  <2>2. 0 \in 0 .. N /\ \A n \in 1 .. N : n \in 0 .. N /\ n # 0
    BY <1>1
  <2> HIDE DEF Hides
  <2> QED
    BY <2>1, <2>2
<1> HIDE DEF Hides
<1> DEFINE S == {n \in 0 .. N : h[n] \in V}
<1>13. 0 .. N \subseteq S
  <2>1. 0 \in S
    BY <1>1, <1>5, <1>12
  <2>2. ASSUME NEW n \in 1 .. N, n - 1 \in S
        PROVE  n \in S
    <3>1. n \in 0 .. N /\ h[n] = Hide(h[n - 1], Overlap[n]) /\ h[n - 1] \in V
      BY <1>1, <1>12, <2>2
    <3> QED
      BY <3>1, HideType DEF V
  <2> HIDE DEF S
  <2> QED
    BY <1>1, <2>1, <2>2, FromZeroOn
<1>14. h \in [0 .. N -> V]
  BY <1>11, <1>13
<1>15. HideWords(l) = h[N]
  BY <1>4 DEF h
<1> QED
  BY <1>12, <1>14, <1>15 DEF N, V

(* No word of the list holds a circle, so that covering one leaves alone    *)
(* where the others stand.                                                   *)
LEMMA WordHasNoCircle ==
  ASSUME NEW n \in DOMAIN Overlap, NEW j \in DOMAIN Overlap[n]
  PROVE  Overlap[n][j] # "circle"
<1>1. "circle" \in Covers \ {"sp"}
  BY DEF Covers
<1> QED
  BY <1>1, OverlapAssumption

LEMMA StandsStill ==
  ASSUME NEW l \in Seq(Marks), NEW v \in Seq(Marks), NEW n \in 1 .. Len(Overlap),
         DOMAIN v = DOMAIN l,
         \A k \in DOMAIN l : v[k] = IF UnderWord(l, k, n - 1) THEN "circle" ELSE l[k],
         NEW p \in DOMAIN l
  PROVE  StandsAt(Overlap[n], v, p) <=> StandsAt(Overlap[n], l, p)
<1> DEFINE w == Overlap[n]
<1>1. /\ n \in DOMAIN Overlap /\ w \in Seq(Characters) /\ Len(w) \in Nat /\ Len(v) = Len(l) /\ Len(l) \in Nat
      /\ DOMAIN l = 1 .. Len(l) /\ DOMAIN w = 1 .. Len(w) /\ DOMAIN Overlap = 1 .. Len(Overlap)
  BY OverlapAssumption
<1> HIDE DEF w
<1>2. ASSUME NEW j \in DOMAIN w, p + Len(w) - 1 <= Len(l)
      PROVE  p + j - 1 \in DOMAIN l
  BY <1>1, <1>2
<1>3. ASSUME StandsAt(w, v, p)
      PROVE  StandsAt(w, l, p)
  <2>1. ASSUME NEW j \in DOMAIN w
        PROVE  l[p + j - 1] = w[j]
    <3>1. p + j - 1 \in DOMAIN l /\ v[p + j - 1] = w[j]
      BY <1>1, <1>2, <1>3 DEF StandsAt
    <3>2. w[j] # "circle"
      BY <1>1, WordHasNoCircle DEF w
    <3> QED
      BY <3>1, <3>2
  <2> QED
    BY <1>1, <1>3, <2>1 DEF StandsAt
<1>4. ASSUME StandsAt(w, l, p)
      PROVE  StandsAt(w, v, p)
  <2>1. ASSUME NEW j \in DOMAIN w
        PROVE  v[p + j - 1] = w[j]
    <3> DEFINE k == p + j - 1
    <3>1. k \in DOMAIN l /\ l[k] = w[j] /\ k \in p .. p + Len(w) - 1
      BY <1>1, <1>2, <1>4 DEF StandsAt
    <3> HIDE DEF k
    <3>2. ASSUME NEW m \in 1 .. n - 1, NEW q \in DOMAIN l,
                 StandsAt(Overlap[m], l, q), k \in q .. q + Len(Overlap[m]) - 1
          PROVE  FALSE
      <4>1. m \in DOMAIN Overlap /\ m # n /\ Len(Overlap[m]) \in Nat
        BY <1>1, OverlapAssumption
      <4>2. (p <= q /\ q < p + Len(w)) \/ (q <= p /\ p < q + Len(Overlap[m]))
        BY <1>1, <3>1, <3>2, <4>1
      <4> QED
        BY <1>1, <1>4, <3>2, <4>1, <4>2, WordsApart DEF w
    <3>3. ~UnderWord(l, k, n - 1)
      BY <3>2 DEF UnderWord
    <3> QED
      BY <3>1, <3>3 DEF k
  <2> QED
    BY <1>1, <1>4, <2>1 DEF StandsAt
<1> QED
  BY <1>3, <1>4 DEF w

(* hideOverlap covers what stands under a word of the list, no more.         *)
LEMMA HiddenChars ==
  ASSUME NEW l \in Seq(Marks)
  PROVE  /\ HideWords(l) \in Seq(Marks) /\ DOMAIN HideWords(l) = DOMAIN l
         /\ \A k \in DOMAIN l :
              HideWords(l)[k] = IF UnderWord(l, k, Len(Overlap)) THEN "circle" ELSE l[k]
<1> DEFINE N == Len(Overlap)
<1>1. N \in Nat /\ DOMAIN Overlap = 1 .. N
  BY OverlapAssumption
<1>2. PICK h \in [0 .. N -> Seq(Marks)] :
         /\ h[0] = l /\ HideWords(l) = h[N]
         /\ \A n \in 1 .. N : h[n] = Hide(h[n - 1], Overlap[n])
  BY HideStepwise
<1> DEFINE Covered(v, n) ==
             DOMAIN v = DOMAIN l /\ \A k \in DOMAIN l : v[k] = IF UnderWord(l, k, n) THEN "circle" ELSE l[k]
           S == {n \in 0 .. N : Covered(h[n], n)}
<1> HIDE DEF N
<1>3. 0 \in S
  <2>1. \A k : ~UnderWord(l, k, 0)
    BY DEF UnderWord
  <2> QED
    BY <1>1, <1>2, <2>1
<1>4. ASSUME NEW n \in 1 .. N, n - 1 \in S
      PROVE  n \in S
  <2> DEFINE v == h[n - 1]
             w == Overlap[n]
  <2>1. v \in Seq(Marks) /\ Covered(v, n - 1) /\ h[n] = Hide(v, w) /\ n \in 0 .. N
    BY <1>1, <1>2, <1>4
  <2> HIDE DEF v
  <2>2. \A p \in DOMAIN l : StandsAt(w, v, p) <=> StandsAt(w, l, p)
    BY <2>1, StandsStill DEF N
  <2>3. Taken(v, w) = {p \in DOMAIN l : StandsAt(w, l, p)}
    BY <1>1, <2>1, <2>2, TakenIsAll
  <2>4. DOMAIN Hide(v, w) = DOMAIN l
    BY <2>1 DEF Hide
  <2>5. ASSUME NEW k \in DOMAIN l
        PROVE  Hide(v, w)[k] = IF UnderWord(l, k, n) THEN "circle" ELSE l[k]
    <3> DEFINE Now == \E p \in DOMAIN l : StandsAt(w, l, p) /\ k \in p .. p + Len(w) - 1
    <3>1. Hide(v, w)[k] = IF Now THEN "circle" ELSE v[k]
      BY <2>1, <2>3 DEF Hide
    <3>2. UnderWord(l, k, n) <=> Now \/ UnderWord(l, k, n - 1)
      <4>1. \A m : m \in 1 .. n <=> m = n \/ m \in 1 .. n - 1
        BY <1>1
      <4> QED
        BY <4>1 DEF UnderWord
    <3>3. v[k] = IF UnderWord(l, k, n - 1) THEN "circle" ELSE l[k]
      BY <2>1
    <3> HIDE DEF Now
    <3> QED
      BY <3>1, <3>2, <3>3
  <2> QED
    BY <2>1, <2>4, <2>5
<1>5. N \in S
  <2> HIDE DEF S
  <2>1. 0 .. N \subseteq S
    BY <1>1, <1>3, <1>4, FromZeroOn
  <2> QED
    BY <1>1, <2>1
<1>6. h[N] \in Seq(Marks)
  BY <1>1, <1>2
<1> QED
  BY <1>2, <1>5, <1>6 DEF N

-------------------------------------------------------------------------------
(* What fills is told apart from what is filled, and keeps its bytes.        *)
LEMMA FillingNames ==
  /\ \A m, n \in 1 .. 7 : Spaces[m] = Spaces[n] => m = n
  /\ \A m, n \in 1 .. 7 : Xs[m] = Xs[n] => m = n
  /\ \A m, n \in 1 .. 7 : Spaces[m] # Xs[n]
  /\ \A n \in 1 .. 7 : Spaces[n] \notin {"tick", "hash", "quote", "//", "<!--", "<code>", "</code>", "circle"}
  /\ \A n \in 1 .. 7 : Xs[n] \notin {"tick", "hash", "quote", "//", "<!--", "<code>", "</code>", "circle"}
<1>1. \A n \in 1 .. 7 : n = 1 \/ n = 2 \/ n = 3 \/ n = 4 \/ n = 5 \/ n = 6 \/ n = 7
  OBVIOUS
<1>2. /\ Spaces[1] = "sp" /\ Spaces[2] = "2 sp" /\ Spaces[3] = "3 sp" /\ Spaces[4] = "4 sp"
      /\ Spaces[5] = "5 sp" /\ Spaces[6] = "6 sp" /\ Spaces[7] = "7 sp"
  BY DEF Spaces
<1>3. /\ Xs[1] = "x" /\ Xs[2] = "2 x" /\ Xs[3] = "3 x" /\ Xs[4] = "4 x"
      /\ Xs[5] = "5 x" /\ Xs[6] = "6 x" /\ Xs[7] = "7 x"
  BY DEF Xs
<1>4. \A m, n \in 1 .. 7 : Spaces[m] = Spaces[n] => m = n
  BY <1>1, <1>2
<1>5. \A m, n \in 1 .. 7 : Xs[m] = Xs[n] => m = n
  BY <1>1, <1>3
<1>6. \A m, n \in 1 .. 7 : Spaces[m] # Xs[n]
  BY <1>1, <1>2, <1>3
<1>7. \A n \in 1 .. 7 : Spaces[n] \notin {"tick", "hash", "quote", "//", "<!--", "<code>", "</code>", "circle"}
  BY <1>1, <1>2
<1>8. \A n \in 1 .. 7 : Xs[n] \notin {"tick", "hash", "quote", "//", "<!--", "<code>", "</code>", "circle"}
  BY <1>1, <1>3
<1> QED
  BY <1>4, <1>5, <1>6, <1>7, <1>8

LEMMA FillingWidths ==
  /\ \A n \in 1 .. 7 : Width(Spaces[n]) = n /\ Width(Xs[n]) = n
  /\ Width("circle") = 3
<1>1. ASSUME NEW n \in 1 .. 7, NEW c, c \in {Spaces[n], Xs[n]}
      PROVE  Width(c) = n
  <2>1. \A m \in 1 .. 7 : c \in {Spaces[m], Xs[m]} <=> m = n
    BY <1>1, FillingNames
  <2>2. c \notin {"tick", "hash", "quote", "//", "<!--", "<code>", "</code>"}
    BY <1>1, FillingNames
  <2>3. (CHOOSE m \in 1 .. 7 : c \in {Spaces[m], Xs[m]}) = n
    BY <2>1
  <2> QED
    BY <2>1, <2>2, <2>3 DEF Width
<1>2. Width("circle") = 3
  <2>1. \A n \in 1 .. 7 : "circle" \notin {Spaces[n], Xs[n]}
    BY FillingNames
  <2> QED
    BY <2>1 DEF Width
<1> QED
  BY <1>1, <1>2

(* Filling keeps the bytes.                                                  *)
LEMMA FillingKeepsWidth == \A c : Width(Fill(c)) = Width(c) /\ Width(Blank(c)) = Width(c)
BY FillingWidths, WidthType DEF Fill, Blank

-------------------------------------------------------------------------------
(* Masking covers what is in code, character for character.  A space it     *)
(* puts somewhere stands first in its line or after what it covered too, or *)
(* after a quote, so that no word reaches into it.                           *)

SpacesFor == {Spaces[n] : n \in 1 .. 7}
XsFor     == {Xs[n] : n \in 1 .. 7}

CoversLine(m, l, code) ==
  /\ m \in Seq(Marks) /\ DOMAIN m = DOMAIN l
  /\ \A k \in DOMAIN l : k \notin code => m[k] = l[k]
  /\ \A k \in DOMAIN l : k \in code =>
       m[k] \in XsFor \/ (m[k] \in SpacesFor /\ (k = 1 \/ k - 1 \in code \/ m[k - 1] = "quote"))
  /\ \A k \in DOMAIN l : Width(m[k]) = Width(l[k])

LEMMA CoverTypes ==
  /\ \A c : Blank(c) \in SpacesFor /\ Fill(c) \in XsFor
  /\ SpacesFor \subseteq Covers /\ XsFor \subseteq Covers \ {"sp"}
  /\ SpacesFor \subseteq Covers
<1>1. \A c : Blank(c) \in SpacesFor /\ Fill(c) \in XsFor
  BY WidthType DEF Blank, Fill, SpacesFor, XsFor
<1>2. "sp" \notin XsFor
  <2>1. ASSUME NEW n \in 1 .. 7
        PROVE  Xs[n] # "sp"
    <3>1. n = 1 \/ n = 2 \/ n = 3 \/ n = 4 \/ n = 5 \/ n = 6 \/ n = 7
      OBVIOUS
    <3>2. /\ Xs[1] # "sp" /\ Xs[2] # "sp" /\ Xs[3] # "sp" /\ Xs[4] # "sp"
          /\ Xs[5] # "sp" /\ Xs[6] # "sp" /\ Xs[7] # "sp"
      BY DEF Xs
    <3> QED
      BY <3>1, <3>2
  <2> QED
    BY <2>1 DEF XsFor
<1> QED
  BY <1>1, <1>2 DEF SpacesFor, XsFor, Covers

(* A line mapped character by character is a line of the same length.        *)
LEMMA MappedLine ==
  ASSUME NEW l \in Seq(Characters), NEW m, m = [k \in DOMAIN l |-> m[k]],
         \A k \in DOMAIN l : m[k] = l[k] \/ m[k] \in Covers
  PROVE  m \in Seq(Marks) /\ DOMAIN m = DOMAIN l
<1>1. \A k \in DOMAIN l : m[k] \in Marks
  BY DEF Marks
<1>2. m \in [1 .. Len(l) -> Marks]
  BY <1>1
<1>3. DOMAIN m = DOMAIN l
  OBVIOUS
<1> QED
  BY <1>2, <1>3

LEMMA WordIsPlain ==
  ASSUME NEW l \in Seq(Characters), NEW m, NEW code, CoversLine(m, l, code),
         NEW n \in DOMAIN Overlap, NEW p \in DOMAIN l
  PROVE  StandsAt(Overlap[n], m, p) <=>
           StandsAt(Overlap[n], l, p) /\ \A q \in p .. p + Len(Overlap[n]) - 1 : q \notin code
<1> DEFINE w == Overlap[n]
<1>1. /\ w \in Seq(Characters) /\ Len(w) \in Nat /\ DOMAIN w = 1 .. Len(w) /\ w # <<>> /\ w[1] # "sp"
      /\ \A j \in DOMAIN w : w[j] # "quote" /\ w[j] \notin Covers \ {"sp"}
  BY OverlapAssumption
<1>2. /\ Len(m) = Len(l) /\ Len(l) \in Nat /\ DOMAIN l = 1 .. Len(l) /\ DOMAIN m = DOMAIN l
      /\ p \in Nat /\ p >= 1
  BY DEF CoversLine
<1> HIDE DEF w
<1>3. ASSUME NEW j \in DOMAIN w, p + Len(w) - 1 <= Len(l)
      PROVE  p + j - 1 \in DOMAIN l /\ p + j - 1 \in p .. p + Len(w) - 1
  BY <1>1, <1>2, <1>3
<1>4. ASSUME StandsAt(w, m, p)
      PROVE  StandsAt(w, l, p) /\ \A q \in p .. p + Len(w) - 1 : q \notin code
  <2>1. p + Len(w) - 1 <= Len(l) /\ \A j \in DOMAIN w : m[p + j - 1] = w[j]
    BY <1>2, <1>4 DEF StandsAt
  <2> DEFINE S == {j \in 0 .. Len(w) : j = 0 \/ p + j - 1 \notin code}
  <2>2. 0 \in S
    BY <1>1
  <2>3. ASSUME NEW j \in 1 .. Len(w), j - 1 \in S
        PROVE  j \in S
    <3> DEFINE q == p + j - 1
    <3>1. q \in DOMAIN l /\ m[q] = w[j]
      BY <1>1, <1>3, <2>1
    <3>2. j \in 0 .. Len(w) /\ j # 0 /\ j \in DOMAIN w /\ q - 1 = p + (j - 1) - 1
      BY <1>1, <1>2
    <3> HIDE DEF q
    <3>3. ASSUME q \in code
          PROVE  FALSE
      <4>1. m[q] \notin XsFor
        BY <1>1, <3>1, <3>2, CoverTypes
      <4>2. m[q] \in SpacesFor /\ (q = 1 \/ q - 1 \in code \/ m[q - 1] = "quote")
        BY <3>1, <3>3, <4>1 DEF CoversLine
      <4>3. w[j] = "sp" /\ j # 1
        BY <1>1, <3>1, <3>2, <4>2, CoverTypes
      <4>4. j - 1 \in DOMAIN w /\ j - 1 # 0 /\ q # 1
        BY <1>1, <1>2, <4>3 DEF q
      <4>5. q - 1 \notin code
        BY <2>3, <3>2, <4>4
      <4>6. m[q - 1] = w[j - 1]
        BY <2>1, <3>2, <4>4
      <4> QED
        BY <1>1, <4>2, <4>4, <4>5, <4>6
    <3> QED
      BY <3>2, <3>3 DEF q
  <2>4. 0 .. Len(w) \subseteq S
    <3> HIDE DEF S
    <3> QED
      BY <1>1, <2>2, <2>3, FromZeroOn
  <2>5. ASSUME NEW q \in p .. p + Len(w) - 1
        PROVE  q \notin code
    <3> DEFINE j == q - p + 1
    <3>1. j \in 0 .. Len(w) /\ j # 0 /\ p + j - 1 = q
      BY <1>1, <1>2
    <3> HIDE DEF j
    <3> QED
      BY <2>4, <3>1
  <2>6. ASSUME NEW j \in DOMAIN w
        PROVE  l[p + j - 1] = w[j]
    <3>1. p + j - 1 \in DOMAIN l /\ p + j - 1 \in p .. p + Len(w) - 1 /\ m[p + j - 1] = w[j]
      BY <1>3, <2>1
    <3> QED
      BY <2>5, <3>1 DEF CoversLine
  <2> QED
    BY <2>1, <2>5, <2>6 DEF StandsAt
<1>5. ASSUME StandsAt(w, l, p), \A q \in p .. p + Len(w) - 1 : q \notin code
      PROVE  StandsAt(w, m, p)
  <2>1. p + Len(w) - 1 <= Len(l) /\ \A j \in DOMAIN w : l[p + j - 1] = w[j]
    BY <1>5 DEF StandsAt
  <2>2. ASSUME NEW j \in DOMAIN w
        PROVE  m[p + j - 1] = w[j]
    BY <1>3, <1>5, <2>1 DEF CoversLine
  <2> QED
    BY <1>2, <2>1, <2>2 DEF StandsAt
<1> QED
  BY <1>4, <1>5 DEF w

LEMMA LineAsItIs ==
  ASSUME NEW l \in Seq(Characters)
  PROVE  CoversLine(l, l, {})
BY DEF CoversLine, Marks

LEMMA BlankedLine ==
  ASSUME NEW l \in Seq(Characters)
  PROVE  CoversLine(Blanked(l), l, DOMAIN l)
<1> DEFINE m == Blanked(l)
<1>1. /\ m = [k \in DOMAIN l |-> m[k]]
      /\ \A k \in DOMAIN l : m[k] \in SpacesFor /\ m[k] \in Covers /\ Width(m[k]) = Width(l[k])
  BY CoverTypes, FillingKeepsWidth DEF Blanked
<1> HIDE DEF m
<1>2. m \in Seq(Marks) /\ DOMAIN m = DOMAIN l
  BY <1>1, MappedLine
<1>3. \A k \in DOMAIN l : k = 1 \/ k - 1 \in DOMAIN l
  OBVIOUS
<1> QED
  BY <1>1, <1>2, <1>3 DEF CoversLine, m

(* A line of which some characters are filled.                               *)
LEMMA FilledLine ==
  ASSUME NEW l \in Seq(Characters), NEW code, NEW m,
         m = [k \in DOMAIN l |-> m[k]],
         \A k \in DOMAIN l : IF k \in code THEN m[k] \in XsFor /\ Width(m[k]) = Width(l[k])
                            ELSE m[k] = l[k]
  PROVE  CoversLine(m, l, code)
<1>1. m \in Seq(Marks) /\ DOMAIN m = DOMAIN l
  BY MappedLine, CoverTypes
<1> QED
  BY <1>1 DEF CoversLine

CodeIn(f, t, i) == {k \in DOMAIN t[i] : InCode(f, t, i, k)}
CoversText(f, t) ==
  DOMAIN Masked(f, t) = DOMAIN t /\ \A i \in DOMAIN t : CoversLine(Masked(f, t)[i], t[i], CodeIn(f, t, i))

LEMMA MarkdownCovered ==
  ASSUME NEW f, KindOf[f] = "md", NEW t \in Seq(Seq(Characters))
  PROVE  CoversText(f, t)
<1>1. Masked(f, t) = MaskMarkdown(t) /\ DOMAIN MaskMarkdown(t) = DOMAIN t
  BY DEF Masked, MaskMarkdown
<1>2. ASSUME NEW i \in DOMAIN t
      PROVE  CoversLine(MaskMarkdown(t)[i], t[i], CodeIn(f, t, i))
  <2> DEFINE l == t[i]
             fenced == IsFence(t[i]) \/ InFence(t, i)
  <2>1. l \in Seq(Characters)
    OBVIOUS
  <2>2. CodeIn(f, t, i) = {k \in DOMAIN l : fenced \/ InSpan(l, k)}
    BY DEF CodeIn, InCode
  <2>3. MaskMarkdown(t)[i] = IF fenced THEN Blanked(l) ELSE MaskSpans(l)
    BY DEF MaskMarkdown
  <2> HIDE DEF l, fenced
  <2>4. CASE fenced
    <3>1. CodeIn(f, t, i) = DOMAIN l
      BY <2>2, <2>4
    <3> QED
      BY <2>1, <2>3, <2>4, <3>1, BlankedLine DEF l
  <2>5. CASE ~fenced
    <3> DEFINE m == MaskSpans(l)
               code == {k \in DOMAIN l : InSpan(l, k)}
    <3>1. CodeIn(f, t, i) = code
      BY <2>2, <2>5
    <3>2. m = [k \in DOMAIN l |-> m[k]]
      BY DEF MaskSpans
    <3>3. \A k \in DOMAIN l : IF k \in code THEN m[k] \in XsFor /\ Width(m[k]) = Width(l[k])
                                ELSE m[k] = l[k]
      BY CoverTypes, FillingKeepsWidth DEF MaskSpans
    <3> HIDE DEF m, code
    <3>4. CoversLine(m, l, code)
      BY <2>1, <3>2, <3>3, FilledLine
    <3> QED
      BY <2>3, <2>5, <3>1, <3>4 DEF m, l
  <2> QED
    BY <2>4, <2>5
<1> QED
  BY <1>1, <1>2 DEF CoversText

LEMMA ShellCovered ==
  ASSUME NEW f, KindOf[f] = "sh", NEW t \in Seq(Seq(Characters))
  PROVE  CoversText(f, t)
<1>1. Masked(f, t) = MaskShell(t) /\ DOMAIN MaskShell(t) = DOMAIN t
  BY DEF Masked, MaskShell
<1>2. ASSUME NEW i \in DOMAIN t
      PROVE  CoversLine(MaskShell(t)[i], t[i], CodeIn(f, t, i))
  <2>1. t[i] \in Seq(Characters)
    OBVIOUS
  <2>2. CodeIn(f, t, i) = IF IsComment(t[i]) THEN DOMAIN t[i] ELSE {}
    BY DEF CodeIn, InCode
  <2>3. MaskShell(t)[i] = IF IsComment(t[i]) THEN Blanked(t[i]) ELSE t[i]
    BY DEF MaskShell
  <2> QED
    BY <2>1, <2>2, <2>3, BlankedLine, LineAsItIs
<1> QED
  BY <1>1, <1>2 DEF CoversText

LEMMA JsonCovered ==
  ASSUME NEW f, KindOf[f] = "json", NEW t \in Seq(Seq(Characters))
  PROVE  CoversText(f, t)
<1>1. Masked(f, t) = t
  BY DEF Masked
<1>2. ASSUME NEW i \in DOMAIN t
      PROVE  CoversLine(t[i], t[i], CodeIn(f, t, i))
  <2>1. t[i] \in Seq(Characters)
    OBVIOUS
  <2>2. CodeIn(f, t, i) = {}
    BY DEF CodeIn, InCode
  <2> QED
    BY <2>1, <2>2, LineAsItIs
<1> QED
  BY <1>1, <1>2 DEF CoversText

LEMMA PlaceOf ==
  ASSUME NEW t, NEW c, NEW p
  PROVE  p \in Places(t, c) <=> \E i \in DOMAIN t : \E k \in DOMAIN t[i] : p = <<i, k>> /\ t[i][k] = c
BY DEF Places

(* The comments are looked for in what the tags left.                       *)
LEMMA TagsLeave ==
  ASSUME NEW t, NEW c, c \notin XsFor
  PROVE  Places(MaskTags(t), c) = Plainly(t, c)
<1> DEFINE m == MaskTags(t)
<1>1. DOMAIN m = DOMAIN t
  BY DEF MaskTags, FillBetween
<1>2. ASSUME NEW i \in DOMAIN t
      PROVE  /\ DOMAIN m[i] = DOMAIN t[i]
             /\ \A k \in DOMAIN t[i] : m[i][k] = IF InTag(t, <<i, k>>) THEN Fill(t[i][k]) ELSE t[i][k]
  BY DEF MaskTags, FillBetween, InTag
<1> HIDE DEF m
<1>3. ASSUME NEW i \in DOMAIN t, NEW k \in DOMAIN t[i]
      PROVE  m[i][k] = c <=> (t[i][k] = c /\ ~InTag(t, <<i, k>>))
  <2>1. m[i][k] = IF InTag(t, <<i, k>>) THEN Fill(t[i][k]) ELSE t[i][k]
    BY <1>2
  <2>2. Fill(t[i][k]) # c
    BY CoverTypes
  <2> QED
    BY <2>1, <2>2
<1>4. ASSUME NEW p
      PROVE  p \in Places(m, c) <=> p \in Plainly(t, c)
  <2>1. p \in Places(m, c) <=> \E i \in DOMAIN t : \E k \in DOMAIN t[i] : p = <<i, k>> /\ m[i][k] = c
    BY <1>1, <1>2, PlaceOf
  <2>2. p \in Plainly(t, c) <=>
          \E i \in DOMAIN t : \E k \in DOMAIN t[i] : p = <<i, k>> /\ t[i][k] = c /\ ~InTag(t, <<i, k>>)
    <3>1. p \in Plainly(t, c) <=> p \in Places(t, c) /\ ~InTag(t, p)
      BY DEF Plainly
    <3>2. p \in Places(t, c) <=> \E i \in DOMAIN t : \E k \in DOMAIN t[i] : p = <<i, k>> /\ t[i][k] = c
      BY PlaceOf
    <3> QED
      BY <3>1, <3>2
  <2>3. ASSUME NEW i \in DOMAIN t, NEW k \in DOMAIN t[i]
        PROVE  (p = <<i, k>> /\ m[i][k] = c) <=> (p = <<i, k>> /\ t[i][k] = c /\ ~InTag(t, <<i, k>>))
    BY <1>3
  <2> QED
    BY <2>1, <2>2, <2>3, Zenon
<1> QED
  BY <1>4 DEF m

LEMMA HtmlCovered ==
  ASSUME NEW f, KindOf[f] = "html", NEW t \in Seq(Seq(Characters))
  PROVE  CoversText(f, t)
<1> DEFINE Opens == Plainly(t, "<!--")
           Closes == Plainly(t, "-->")
           tags == MaskTags(t)
           html == MaskHTML(t)
<1>1. "<!--" \notin XsFor /\ "-->" \notin XsFor
  <2>1. ASSUME NEW n \in 1 .. 7
        PROVE  Xs[n] # "<!--" /\ Xs[n] # "-->"
    <3>1. n = 1 \/ n = 2 \/ n = 3 \/ n = 4 \/ n = 5 \/ n = 6 \/ n = 7
      OBVIOUS
    <3>2. /\ Xs[1] # "<!--" /\ Xs[2] # "<!--" /\ Xs[3] # "<!--" /\ Xs[4] # "<!--"
          /\ Xs[5] # "<!--" /\ Xs[6] # "<!--" /\ Xs[7] # "<!--"
          /\ Xs[1] # "-->" /\ Xs[2] # "-->" /\ Xs[3] # "-->" /\ Xs[4] # "-->"
          /\ Xs[5] # "-->" /\ Xs[6] # "-->" /\ Xs[7] # "-->"
      BY DEF Xs
    <3> QED
      BY <3>1, <3>2
  <2> QED
    BY <2>1 DEF XsFor
<1>2. Places(tags, "<!--") = Opens /\ Places(tags, "-->") = Closes
  BY <1>1, TagsLeave
<1>3. Masked(f, t) = html
  BY DEF Masked
<1>4. DOMAIN tags = DOMAIN t /\ DOMAIN html = DOMAIN t
  BY DEF MaskTags, MaskHTML, FillBetween
<1>5. ASSUME NEW i \in DOMAIN t
      PROVE  CoversLine(html[i], t[i], CodeIn(f, t, i))
  <2> DEFINE l == t[i]
             m == html[i]
             code == CodeIn(f, t, i)
  <2>1. l \in Seq(Characters)
    OBVIOUS
  <2>2. code = {k \in DOMAIN l : InTag(t, <<i, k>>) \/ Enclosed(Opens, Closes, <<i, k>>)}
    BY DEF CodeIn, InCode
  <2>3. DOMAIN tags[i] = DOMAIN l /\ \A k \in DOMAIN l : tags[i][k] = IF InTag(t, <<i, k>>) THEN Fill(l[k]) ELSE l[k]
    BY DEF MaskTags, FillBetween, InTag
  <2>4. m = [k \in DOMAIN tags[i] |->
               IF Enclosed(Opens, Closes, <<i, k>>) THEN Fill(tags[i][k]) ELSE tags[i][k]]
    BY <1>2, <1>4 DEF MaskHTML, FillBetween
  <2> HIDE DEF l, m, code, tags, html, Opens, Closes
  <2>5. m = [k \in DOMAIN l |-> m[k]]
    BY <2>3, <2>4
  <2>6. \A k \in DOMAIN l : IF k \in code THEN m[k] \in XsFor /\ Width(m[k]) = Width(l[k])
                             ELSE m[k] = l[k]
    BY <2>2, <2>3, <2>4, CoverTypes, FillingKeepsWidth
  <2>7. CoversLine(m, l, code)
    BY <2>1, <2>5, <2>6, FilledLine
  <2> QED
    BY <2>7 DEF m, l, code
<1> QED
  BY <1>3, <1>4, <1>5 DEF CoversText

(* What is left of a line of Go are whole literals, so that a space put     *)
(* after a character of one stands where its closing quote was left.        *)
LEMMA QuotesNext ==
  ASSUME NEW l \in Seq(Characters), NEW k \in DOMAIN l, k - 1 \in DOMAIN l
  PROVE  /\ Quotes(l, k - 1) \in Nat
         /\ Quotes(l, k) = Quotes(l, k - 1) + (IF l[k] = "quote" THEN 1 ELSE 0)
<1> DEFINE Upto(n) == {j \in 1 .. n : l[j] = "quote"}
<1>1. k \in Nat /\ k - 1 \in Nat
  OBVIOUS
<1>2. IsFiniteSet(Upto(k - 1))
  <2>1. IsFiniteSet(1 .. k - 1)
    BY <1>1, FS_Interval
  <2> QED
    BY <2>1, FS_Subset
<1>3. Upto(k) = IF l[k] = "quote" THEN Upto(k - 1) \cup {k} ELSE Upto(k - 1)
  BY <1>1
<1>4. k \notin Upto(k - 1)
  BY <1>1
<1>5. Quotes(l, k - 1) = Cardinality(Upto(k - 1)) /\ Quotes(l, k) = Cardinality(Upto(k))
  BY DEF Quotes
<1> HIDE DEF Upto
<1>6. Cardinality(Upto(k - 1)) \in Nat
  BY <1>2, FS_CardinalityType
<1>7. Cardinality(Upto(k - 1) \cup {k}) = Cardinality(Upto(k - 1)) + 1
  BY <1>2, <1>4, FS_AddElement
<1> QED
  BY <1>3, <1>5, <1>6, <1>7

LEMMA LiteralGoesOn ==
  ASSUME NEW l \in Seq(Characters), NEW k \in DOMAIN l, k - 1 \in DOMAIN l,
         NEW ks \in Literals(l), k - 1 \in ks, l[k - 1] # "quote"
  PROVE  k \in ks
<1> DEFINE before == Quotes(l, k - 1)
           now == Quotes(l, k)
<1>1. before \in Nat /\ now = before + (IF l[k] = "quote" THEN 1 ELSE 0)
  BY QuotesNext
<1>2. PICK n : n # 0 /\ ks = {j \in CodeOf(l) : LiteralAt(l, j) = n}
  BY DEF Literals
<1>3. k - 1 \in CodeOf(l) /\ LiteralAt(l, k - 1) = n
  BY <1>2
<1>4. before % 2 = 1 /\ n = (before + 1) \div 2
  BY <1>2, <1>3 DEF LiteralAt
<1>5. k \in CodeOf(l)
  <2>1. SUFFICES ASSUME NEW j \in 1 .. k, l[j] = "//", Quotes(l, j) % 2 = 0
                 PROVE  FALSE
    BY DEF CodeOf, Commented
  <2>2. CASE j = k
    <3>1. now = before
      BY <1>1, <2>1, <2>2
    <3> QED
      BY <1>4, <2>1, <2>2, <3>1
  <2>3. CASE j # k
    <3>1. j \in 1 .. k - 1
      BY <2>3
    <3> QED
      BY <1>3, <2>1, <3>1 DEF CodeOf, Commented
  <2> QED
    BY <2>2, <2>3
<1>6. LiteralAt(l, k) = n
  <2>1. l[k] = "quote" \/ now % 2 = 1
    BY <1>1, <1>4
  <2>2. LiteralAt(l, k) = (now + 1) \div 2
    BY <2>1 DEF LiteralAt
  <2> HIDE DEF before, now
  <2>3. (now + 1) \div 2 = (before + 1) \div 2
    BY <1>1, <1>4
  <2> QED
    BY <1>4, <2>2, <2>3
<1> QED
  BY <1>2, <1>5, <1>6

LEMMA GoCovered ==
  ASSUME NEW f, KindOf[f] = "go", NEW t \in Seq(Seq(Characters))
  PROVE  CoversText(f, t)
<1>1. Masked(f, t) = MaskGo(t) /\ DOMAIN MaskGo(t) = DOMAIN t
  BY DEF Masked, MaskGo
<1>2. ASSUME NEW i \in DOMAIN t
      PROVE  CoversLine(MaskGo(t)[i], t[i], CodeIn(f, t, i))
  <2> DEFINE l == t[i]
             kept == UNION {ks \in Literals(l) : HasHangul(l, ks)}
             m == MaskGo(t)[i]
             code == CodeIn(f, t, i)
  <2>1. l \in Seq(Characters)
    OBVIOUS
  <2>2. m = [k \in DOMAIN l |-> IF k \in kept THEN l[k] ELSE Blank(l[k])]
    BY DEF MaskGo
  <2>3. \A k \in DOMAIN l : k \in code <=> k \notin kept
    <3>1. \A k \in DOMAIN l : k \in code <=> \A ks \in Literals(l) : k \in ks => ~HasHangul(l, ks)
      BY DEF CodeIn, InCode
    <3> QED
      BY <3>1
  <2>4. code \subseteq DOMAIN l
    BY DEF CodeIn
  <2>5. \A k \in DOMAIN l : k - 1 \in kept => k = 1 \/ l[k - 1] = "quote" \/ k \in kept
    <3>1. ASSUME NEW k \in DOMAIN l, k # 1, NEW ks \in Literals(l), HasHangul(l, ks), k - 1 \in ks, l[k - 1] # "quote"
          PROVE  k \in ks
      <4>1. k - 1 \in DOMAIN l
        BY <2>1, <3>1
      <4> QED
        BY <2>1, <3>1, <4>1, LiteralGoesOn
    <3> QED
      BY <3>1
  <2> HIDE DEF l, kept, m, code
  <2>6. \A k \in DOMAIN l : m[k] = IF k \in kept THEN l[k] ELSE Blank(l[k])
    BY <2>2
  <2>7. m = [k \in DOMAIN l |-> m[k]]
    BY <2>2
  <2>8. m \in Seq(Marks) /\ DOMAIN m = DOMAIN l
    <3>1. \A k \in DOMAIN l : m[k] = l[k] \/ m[k] \in Covers
      BY <2>6, CoverTypes
    <3> QED
      BY <2>1, <2>7, <3>1, MappedLine
  <2>9. ASSUME NEW k \in DOMAIN l, k \in code
        PROVE  m[k] \in SpacesFor /\ (k = 1 \/ k - 1 \in code \/ m[k - 1] = "quote")
    <3>1. k \notin kept /\ m[k] \in SpacesFor
      BY <2>3, <2>6, <2>9, CoverTypes
    <3>2. ASSUME k # 1, k - 1 \notin code
          PROVE  m[k - 1] = "quote"
      <4>1. k - 1 \in DOMAIN l
        BY <2>1, <3>2
      <4>2. k - 1 \in kept
        BY <2>3, <3>2, <4>1
      <4> QED
        BY <2>5, <2>6, <3>1, <3>2, <4>1, <4>2
    <3> QED
      BY <3>1, <3>2
  <2>10. CoversLine(m, l, code)
    <3>1. \A k \in DOMAIN l : Width(m[k]) = Width(l[k])
      BY <2>6, FillingKeepsWidth
    <3> QED
      BY <2>3, <2>6, <2>8, <2>9, <3>1 DEF CoversLine
  <2> QED
    BY <2>10 DEF m, l, code
<1> QED
  BY <1>1, <1>2 DEF CoversText

LEMMA MaskingCovers ==
  ASSUME NEW f, KindOf[f] \in {"md", "sh", "json", "html", "go"}, NEW t \in Seq(Seq(Characters))
  PROVE  CoversText(f, t)
BY MarkdownCovered, ShellCovered, JsonCovered, HtmlCovered, GoCovered

-------------------------------------------------------------------------------
(* What the rules are matched against: the characters outside of code and   *)
(* of the words of the list as they were, nothing a rule flags elsewhere.   *)

CoveredText(f, t) == HideOverlap(Masked(f, t))

LEMMA WordsStillThere ==
  ASSUME NEW f, NEW t \in Seq(Seq(Characters)), CoversText(f, t), NEW i \in DOMAIN t,
         NEW k \in DOMAIN t[i]
  PROVE  UnderWord(Masked(f, t)[i], k, Len(Overlap)) <=> InWord(f, t, i, k)
<1> DEFINE l == t[i]
           m == Masked(f, t)[i]
           code == CodeIn(f, t, i)
<1>1. l \in Seq(Characters) /\ CoversLine(m, l, code) /\ DOMAIN m = DOMAIN l
  BY DEF CoversText, CoversLine
<1>2. DOMAIN Overlap = 1 .. Len(Overlap)
  BY OverlapAssumption
<1>3. ASSUME NEW n \in DOMAIN Overlap, NEW p \in DOMAIN l
      PROVE  StandsAt(Overlap[n], m, p) <=>
               /\ StandsAt(Overlap[n], l, p)
               /\ \A q \in p .. p + Len(Overlap[n]) - 1 : ~InCode(f, t, i, q)
  <2>1. StandsAt(Overlap[n], m, p) <=>
          StandsAt(Overlap[n], l, p) /\ \A q \in p .. p + Len(Overlap[n]) - 1 : q \notin code
    <3> HIDE DEF l, m, code
    <3> QED
      BY <1>1, WordIsPlain
  <2>2. StandsAt(Overlap[n], l, p) => \A q \in p .. p + Len(Overlap[n]) - 1 : q \in DOMAIN l
    <3>1. Len(Overlap[n]) \in Nat /\ Len(l) \in Nat /\ DOMAIN l = 1 .. Len(l)
      BY <1>1, OverlapAssumption
    <3> QED
      BY <3>1 DEF StandsAt
  <2>3. \A q \in DOMAIN l : q \notin code <=> ~InCode(f, t, i, q)
    BY DEF CodeIn
  <2> HIDE DEF l, m, code
  <2> QED
    BY <2>1, <2>2, <2>3
<1>4. UnderWord(m, k, Len(Overlap)) <=>
        \E n \in DOMAIN Overlap : \E p \in DOMAIN l :
           StandsAt(Overlap[n], m, p) /\ k \in p .. p + Len(Overlap[n]) - 1
  BY <1>1, <1>2 DEF UnderWord
<1>5. InWord(f, t, i, k) <=>
        \E n \in DOMAIN Overlap : \E p \in DOMAIN l :
           /\ StandsAt(Overlap[n], l, p)
           /\ k \in p .. p + Len(Overlap[n]) - 1
           /\ \A q \in p .. p + Len(Overlap[n]) - 1 : ~InCode(f, t, i, q)
  BY DEF InWord
<1> HIDE DEF l, m
<1> QED
  BY <1>3, <1>4, <1>5 DEF m

LEMMA CoveredChars ==
  ASSUME NEW f, NEW t \in Seq(Seq(Characters)), CoversText(f, t)
  PROVE  /\ DOMAIN CoveredText(f, t) = DOMAIN t
         /\ \A i \in DOMAIN t :
              /\ CoveredText(f, t)[i] \in Seq(Marks) /\ DOMAIN CoveredText(f, t)[i] = DOMAIN t[i]
              /\ \A k \in DOMAIN t[i] : IF k \in Plain(f, t, i) THEN CoveredText(f, t)[i][k] = t[i][k]
                                        ELSE CoveredText(f, t)[i][k] \in Covers
<1> DEFINE M == Masked(f, t)
           s == CoveredText(f, t)
<1>1. DOMAIN M = DOMAIN t /\ DOMAIN s = DOMAIN t /\ \A i \in DOMAIN t : s[i] = HideWords(M[i])
  BY DEF CoversText, CoveredText, HideOverlap
<1>2. ASSUME NEW i \in DOMAIN t
      PROVE  /\ s[i] \in Seq(Marks) /\ DOMAIN s[i] = DOMAIN t[i]
             /\ \A k \in DOMAIN t[i] : IF k \in Plain(f, t, i) THEN s[i][k] = t[i][k] ELSE s[i][k] \in Covers
  <2> DEFINE l == t[i]
             m == M[i]
             code == CodeIn(f, t, i)
  <2>1. CoversLine(m, l, code)
    BY DEF CoversText
  <2>2. m \in Seq(Marks) /\ DOMAIN m = DOMAIN l
    BY <2>1 DEF CoversLine
  <2>3. \A k \in DOMAIN l : UnderWord(m, k, Len(Overlap)) <=> InWord(f, t, i, k)
    BY WordsStillThere
  <2>4. \A k \in DOMAIN l : k \in code <=> InCode(f, t, i, k)
    BY DEF CodeIn
  <2>5. \A k \in DOMAIN l : IF k \in code THEN m[k] \in Covers ELSE m[k] = l[k]
    BY <2>1, CoverTypes DEF CoversLine
  <2>6. \A k \in DOMAIN l : k \in Plain(f, t, i) <=> ~InCode(f, t, i, k) /\ ~InWord(f, t, i, k)
    BY DEF Plain
  <2> HIDE DEF m, l, code, M, s
  <2>7. /\ HideWords(m) \in Seq(Marks) /\ DOMAIN HideWords(m) = DOMAIN l
        /\ \A k \in DOMAIN l : HideWords(m)[k] = IF UnderWord(m, k, Len(Overlap)) THEN "circle" ELSE m[k]
    BY <2>2, HiddenChars
  <2>8. s[i] = HideWords(m)
    BY <1>1 DEF m
  <2>9. "circle" \in Covers
    BY DEF Covers
  <2>10. ASSUME NEW k \in DOMAIN l
         PROVE  IF k \in Plain(f, t, i) THEN s[i][k] = l[k] ELSE s[i][k] \in Covers
    BY <2>3, <2>4, <2>5, <2>6, <2>7, <2>8, <2>9
  <2> QED
    BY <2>7, <2>8, <2>10 DEF l
<1> QED
  BY <1>1, <1>2

LEMMA CountedIsKorean ==
  ASSUME NEW f, NEW t \in Seq(Seq(Characters)), CoversText(f, t), NEW i \in DOMAIN t
  PROVE  Counted(CoveredText(f, t), i) <=> Korean(f, t, i)
<1> DEFINE s == CoveredText(f, t)
<1>1. /\ DOMAIN s[i] = DOMAIN t[i]
      /\ \A k \in DOMAIN t[i] : IF k \in Plain(f, t, i) THEN s[i][k] = t[i][k] ELSE s[i][k] \in Covers
  BY CoveredChars
<1>2. Plain(f, t, i) \subseteq DOMAIN t[i]
  BY DEF Plain
<1>3. Hangul \cap Covers = {}
  BY ProseAssumption
<1>4. Counted(s, i) <=> \E k \in DOMAIN s[i] : s[i][k] \in Hangul
  BY DEF Counted, HasHangul
<1> HIDE DEF s
<1> QED
  BY <1>1, <1>2, <1>3, <1>4 DEF Korean, s

LEMMA MatchesArePlain ==
  ASSUME NEW f, NEW t \in Seq(Seq(Characters)), CoversText(f, t), NEW i \in DOMAIN t, NEW r \in Rules
  PROVE  {k \in DOMAIN CoveredText(f, t)[i] : CoveredText(f, t)[i][k] \in Flags[r]}
           = {k \in Plain(f, t, i) : t[i][k] \in Flags[r]}
<1> DEFINE s == CoveredText(f, t)
<1>1. /\ DOMAIN s[i] = DOMAIN t[i]
      /\ \A k \in DOMAIN t[i] : IF k \in Plain(f, t, i) THEN s[i][k] = t[i][k] ELSE s[i][k] \in Covers
  BY CoveredChars
<1>2. Plain(f, t, i) \subseteq DOMAIN t[i]
  BY DEF Plain
<1>3. Flags[r] \cap Covers = {}
  BY ProseAssumption
<1> HIDE DEF s
<1>4. {k \in DOMAIN s[i] : s[i][k] \in Flags[r]} = {k \in Plain(f, t, i) : t[i][k] \in Flags[r]}
  BY <1>1, <1>2, <1>3
<1> QED
  BY <1>4 DEF s

-------------------------------------------------------------------------------
(* One hit for each of them.                                                 *)

HitAt(f, s, r, i, k) == [rule |-> r, file |-> f, line |-> i, off |-> LineStart(s, i) + UpTo(Widths(s[i]))[k - 1]]
LineHits(f, t, rs, r, i) == {h \in HitsOf(f, t, rs) : h.rule = r /\ h.line = i}

LEMMA HitIsOf ==
  ASSUME NEW f, NEW t, NEW rs, NEW h
  PROVE  h \in HitsOf(f, t, rs) <=>
           \E r \in rs : \E i \in DOMAIN CoveredText(f, t) : \E k \in DOMAIN CoveredText(f, t)[i] :
              /\ Counted(CoveredText(f, t), i)
              /\ CoveredText(f, t)[i][k] \in Flags[r]
              /\ h = HitAt(f, CoveredText(f, t), r, i, k)
<1> DEFINE s == CoveredText(f, t)
           Ks(r, i) == {k \in DOMAIN s[i] : s[i][k] \in Flags[r]}
           Is == {i \in DOMAIN s : Counted(s, i)}
<1>1. HitsOf(f, t, rs) = UNION {{HitAt(f, s, r, i, k) : k \in Ks(r, i)} : r \in rs, i \in Is}
  BY DEF HitsOf, HitAt, CoveredText
<1> HIDE DEF s
<1>2. h \in HitsOf(f, t, rs) <=> \E r \in rs, i \in Is : h \in {HitAt(f, s, r, i, k) : k \in Ks(r, i)}
  <2> DEFINE B(r, i) == {HitAt(f, s, r, i, k) : k \in Ks(r, i)}
             All == {B(r, i) : r \in rs, i \in Is}
  <2>1. HitsOf(f, t, rs) = UNION All
    BY <1>1
  <2>2. \A hs : hs \in All <=> \E r \in rs, i \in Is : hs = B(r, i)
    <3> HIDE DEF B, Is
    <3> QED
      OBVIOUS
  <2> HIDE DEF Ks, Is, All
  <2>3. h \in UNION All <=> \E hs \in All : h \in hs
    OBVIOUS
  <2>4. h \in UNION All <=> \E r \in rs, i \in Is : h \in B(r, i)
    <3> HIDE DEF B
    <3> QED
      BY <2>2, <2>3
  <2> QED
    BY <2>1, <2>4
<1>3. \A r, i : h \in {HitAt(f, s, r, i, k) : k \in Ks(r, i)} <=>
                  \E k \in DOMAIN s[i] : s[i][k] \in Flags[r] /\ h = HitAt(f, s, r, i, k)
  OBVIOUS
<1> QED
  BY <1>2, <1>3 DEF s

(* The start of a line is a number.                                          *)
LEMMA LineStartType ==
  ASSUME NEW s, NEW n \in Nat, DOMAIN s = 1 .. n, \A i \in 1 .. n : s[i] \in Seq(Marks), NEW i \in 1 .. n
  PROVE  LineStart(s, i) \in Nat
<1> DEFINE b == [j \in DOMAIN s |-> Bytes(s[j])]
<1>1. \A j \in 1 .. n : Bytes(s[j]) \in Nat
  BY OffsetsApart
<1>2. b \in Seq(Nat) /\ Len(b) = n
  <2>1. b \in [1 .. n -> Nat]
    BY <1>1
  <2> HIDE DEF b
  <2> QED
    BY <2>1
<1> HIDE DEF b
<1>3. UpTo(b) \in [0 .. n -> Nat]
  BY <1>2, Sums
<1>4. i - 1 \in 0 .. n
  OBVIOUS
<1>5. UpTo(b)[i - 1] \in Nat
  BY <1>3, <1>4
<1> QED
  BY <1>4, <1>5 DEF LineStart, b

LEMMA LineHitsNumber ==
  ASSUME NEW f, NEW t \in Seq(Seq(Characters)), CoversText(f, t), NEW i \in DOMAIN t,
         NEW rs \in SUBSET Rules, NEW r \in rs
  PROVE  /\ IsFiniteSet(LineHits(f, t, rs, r, i))
         /\ Expected(r, f, t, i) \in Nat
         /\ Cardinality(LineHits(f, t, rs, r, i)) = Expected(r, f, t, i)
<1> DEFINE s == CoveredText(f, t)
           H == LineHits(f, t, rs, r, i)
           D == {k \in Plain(f, t, i) : t[i][k] \in Flags[r]}
           g == [k \in D |-> HitAt(f, s, r, i, k)]
<1>1. DOMAIN s = DOMAIN t /\ s[i] \in Seq(Marks) /\ DOMAIN s[i] = DOMAIN t[i]
  BY CoveredChars
<1>2. Counted(s, i) <=> Korean(f, t, i)
  BY CountedIsKorean
<1>3. D = {k \in DOMAIN s[i] : s[i][k] \in Flags[r]}
  BY MatchesArePlain
<1>4. D \in SUBSET DOMAIN t[i] /\ IsFiniteSet(D) /\ Cardinality(D) \in Nat
  <2>1. D \subseteq DOMAIN t[i]
    BY DEF Plain
  <2>2. IsFiniteSet(DOMAIN t[i])
    <3>1. t[i] \in Seq(Characters)
      OBVIOUS
    <3>2. DOMAIN t[i] = 1 .. Len(t[i]) /\ Len(t[i]) \in Nat
      BY <3>1
    <3> QED
      BY <3>2, FS_Interval
  <2> HIDE DEF D
  <2> QED
    BY <2>1, <2>2, FS_Subset, FS_CardinalityType
<1>5. H = IF Korean(f, t, i) THEN {HitAt(f, s, r, i, k) : k \in D} ELSE {}
  <2>1. ASSUME NEW h
        PROVE  h \in H <=> Korean(f, t, i) /\ \E k \in D : h = HitAt(f, s, r, i, k)
    <3>1. h \in H <=> h \in HitsOf(f, t, rs) /\ h.rule = r /\ h.line = i
      BY DEF LineHits
    <3>2. \A r2, i2, k : HitAt(f, s, r2, i2, k).rule = r2 /\ HitAt(f, s, r2, i2, k).line = i2
      BY DEF HitAt
    <3>3. h \in HitsOf(f, t, rs) <=>
            \E r2 \in rs : \E i2 \in DOMAIN s : \E k \in DOMAIN s[i2] :
               Counted(s, i2) /\ s[i2][k] \in Flags[r2] /\ h = HitAt(f, s, r2, i2, k)
      BY HitIsOf
    <3> HIDE DEF s, H, D
    <3>4. h \in H => Korean(f, t, i) /\ \E k \in D : h = HitAt(f, s, r, i, k)
      BY <1>2, <1>3, <3>1, <3>2, <3>3
    <3>5. ASSUME Korean(f, t, i), NEW k \in D, h = HitAt(f, s, r, i, k)
          PROVE  h \in H
      BY <1>1, <1>2, <1>3, <3>1, <3>2, <3>3, <3>5
    <3> QED
      BY <3>4, <3>5
  <2> HIDE DEF H, D, s
  <2> QED
    BY <2>1
<1>6. \A j, k \in D : HitAt(f, s, r, i, j) = HitAt(f, s, r, i, k) => j = k
  <2>1. \A j, k \in DOMAIN s[i] : j # k => UpTo(Widths(s[i]))[j - 1] # UpTo(Widths(s[i]))[k - 1]
    BY <1>1, OffsetsApart
  <2>2. \A k \in DOMAIN s[i] : UpTo(Widths(s[i]))[k - 1] \in Nat
    <3>1. UpTo(Widths(s[i])) \in [0 .. Len(s[i]) -> Nat]
      BY <1>1, OffsetsApart
    <3>2. \A k \in DOMAIN s[i] : k - 1 \in 0 .. Len(s[i])
      BY <1>1
    <3> QED
      BY <3>1, <3>2
  <2>3. LineStart(s, i) \in Nat
    <3>1. /\ DOMAIN s = 1 .. Len(t) /\ Len(t) \in Nat /\ i \in 1 .. Len(t)
          /\ \A j \in 1 .. Len(t) : s[j] \in Seq(Marks)
      BY CoveredChars
    <3> HIDE DEF s
    <3> QED
      BY <3>1, LineStartType
  <2>4. ASSUME NEW j \in D, NEW k \in D, HitAt(f, s, r, i, j) = HitAt(f, s, r, i, k)
        PROVE  j = k
    <3>1. j \in DOMAIN s[i] /\ k \in DOMAIN s[i]
      BY <1>3
    <3>2. HitAt(f, s, r, i, j).off = HitAt(f, s, r, i, k).off
      BY <2>4
    <3>3. LineStart(s, i) + UpTo(Widths(s[i]))[j - 1] = LineStart(s, i) + UpTo(Widths(s[i]))[k - 1]
      BY <3>2 DEF HitAt
    <3> HIDE DEF s, D
    <3> QED
      BY <2>1, <2>2, <2>3, <3>1, <3>3
  <2> QED
    BY <2>4
<1> DEFINE T == {HitAt(f, s, r, i, k) : k \in D}
<1>7. IsFiniteSet(T) /\ Cardinality(T) = Cardinality(D)
  <2>1. g \in [D -> T] /\ (\A h \in T : \E k \in D : g[k] = h)
    OBVIOUS
  <2>2. \A j, k \in D : g[j] = g[k] => j = k
    BY <1>6
  <2> HIDE DEF g, T, D
  <2>3. g \in Bijection(D, T)
    BY <2>1, <2>2 DEF Bijection, Injection, Surjection, IsInjective
  <2>4. ExistsBijection(D, T)
    BY <2>3 DEF ExistsBijection
  <2> QED
    BY <1>4, <2>4, FS_Bijection
<1>8. Expected(r, f, t, i) = IF Korean(f, t, i) THEN Cardinality(D) ELSE 0
  BY DEF Expected
<1> HIDE DEF H, T, D
<1> QED
  BY <1>4, <1>5, <1>7, <1>8, FS_EmptySet DEF H, T

RuleHits(f, t, rs, r) == {h \in HitsOf(f, t, rs) : h.rule = r}
InFile(r, f, t) == UpTo([i \in DOMAIN t |-> Expected(r, f, t, i)])[Len(t)]

LEMMA FileHitsNumber ==
  ASSUME NEW f, NEW t \in Seq(Seq(Characters)), CoversText(f, t),
         NEW rs \in SUBSET Rules, NEW r \in rs
  PROVE  /\ InFile(r, f, t) \in Nat
         /\ Cardinality(RuleHits(f, t, rs, r)) = InFile(r, f, t)
<1> DEFINE N == Len(t)
           e == [i \in DOMAIN t |-> Expected(r, f, t, i)]
           A == {h \in HitsOf(f, t, rs) : h.rule = r}
           Upper(n) == {h \in A : h.line \in 1 .. n}
           S == {n \in 0 .. N : IsFiniteSet(Upper(n)) /\ Cardinality(Upper(n)) = UpTo(e)[n]}
<1>1. N \in Nat /\ DOMAIN t = 1 .. N
  OBVIOUS
<1>2. \A i \in 1 .. N : /\ IsFiniteSet(LineHits(f, t, rs, r, i))
                        /\ e[i] \in Nat /\ Cardinality(LineHits(f, t, rs, r, i)) = e[i]
  <2>1. ASSUME NEW i \in 1 .. N
        PROVE  /\ IsFiniteSet(LineHits(f, t, rs, r, i))
               /\ e[i] \in Nat /\ Cardinality(LineHits(f, t, rs, r, i)) = e[i]
    <3>1. i \in DOMAIN t /\ e[i] = Expected(r, f, t, i)
      BY <1>1
    <3> HIDE DEF e, N
    <3> QED
      BY <3>1, LineHitsNumber
  <2> QED
    BY <2>1
<1>3. e \in Seq(Nat) /\ Len(e) = N
  <2>1. e \in [1 .. N -> Nat]
    BY <1>1, <1>2
  <2> HIDE DEF e, N
  <2> QED
    BY <1>1, <2>1
<1>4. \A i : LineHits(f, t, rs, r, i) = {h \in A : h.line = i}
  BY DEF LineHits
<1>5. \A h \in A : h.line \in 1 .. N
  <2>1. ASSUME NEW h \in A
        PROVE  h.line \in 1 .. N
    <3>1. PICK r2 \in rs, i \in DOMAIN CoveredText(f, t) :
             \E k \in DOMAIN CoveredText(f, t)[i] : h = HitAt(f, CoveredText(f, t), r2, i, k)
      BY HitIsOf
    <3>2. h.line = i
      BY <3>1 DEF HitAt
    <3>3. DOMAIN CoveredText(f, t) = 1 .. N
      BY CoveredChars
    <3> QED
      BY <3>2, <3>3
  <2> QED
    BY <2>1
<1> HIDE DEF N, e, A
<1>6. UpTo(e) \in [0 .. N -> Nat] /\ UpTo(e)[0] = 0 /\ \A n \in 1 .. N : UpTo(e)[n] = UpTo(e)[n - 1] + e[n]
  BY <1>3, Sums
<1>7. 0 \in S
  <2>1. Upper(0) = {}
    OBVIOUS
  <2> HIDE DEF Upper
  <2>2. IsFiniteSet(Upper(0)) /\ Cardinality(Upper(0)) = 0
    BY <2>1, FS_EmptySet
  <2> QED
    BY <1>1, <1>6, <2>2
<1>8. ASSUME NEW n \in 1 .. N, n - 1 \in S
      PROVE  n \in S
  <2> DEFINE U == Upper(n - 1)
             L == {h \in A : h.line = n}
  <2>1. n \in 0 .. N /\ n - 1 \in 0 .. N /\ UpTo(e)[n - 1] \in Nat
    BY <1>1, <1>6
  <2>2. IsFiniteSet(U) /\ Cardinality(U) = UpTo(e)[n - 1]
    BY <1>8
  <2>3. IsFiniteSet(L) /\ Cardinality(L) = e[n] /\ e[n] \in Nat
    BY <1>2, <1>4
  <2>4. Upper(n) = U \cup L
    <3>1. \A m : m \in 1 .. n <=> m \in 1 .. n - 1 \/ m = n
      BY <1>1
    <3> QED
      BY <3>1
  <2>5. U \cap L = {}
    BY <1>1
  <2> HIDE DEF U, L, Upper
  <2>6. IsFiniteSet(U \cup L) /\ Cardinality(U \cup L) = Cardinality(U) + Cardinality(L) - Cardinality(U \cap L)
    BY <2>2, <2>3, FS_Union
  <2>7. Cardinality(U \cap L) = 0
    BY <2>5, FS_EmptySet
  <2>8. UpTo(e)[n] = UpTo(e)[n - 1] + e[n]
    BY <1>6
  <2>9. Cardinality(Upper(n)) = UpTo(e)[n]
    BY <2>1, <2>2, <2>3, <2>4, <2>6, <2>7, <2>8
  <2> QED
    BY <2>1, <2>4, <2>6, <2>9
<1>9. N \in S
  <2> HIDE DEF S
  <2>1. 0 .. N \subseteq S
    BY <1>1, <1>7, <1>8, FromZeroOn
  <2> QED
    BY <1>1, <2>1
<1>10. Upper(N) = A
  BY <1>5
<1>11. Cardinality(A) = UpTo(e)[N]
  BY <1>9, <1>10
<1>12. UpTo(e)[N] \in Nat
  BY <1>1, <1>6
<1> QED
  BY <1>11, <1>12 DEF A, N, e, InFile, RuleHits

-------------------------------------------------------------------------------
(* The state.                                                                *)

LEMMA ReadIsText ==
  ASSUME ProseTypeOK, NEW f \in Walked \cup Read
  PROVE  f \in Files /\ docs[f] \in Seq(Seq(Characters)) /\ CoversText(f, docs[f])
<1>1. f \in Files /\ docs[f] # Absent /\ KindOf[f] \in {"md", "sh", "json", "html", "go"}
  BY DEF Walked, Read, Listed
<1>2. docs[f] \in Seq(Seq(Characters))
  BY <1>1 DEF ProseTypeOK
<1> QED
  BY <1>1, <1>2, MaskingCovers

(* When the run gets its counts, the hits of a file are those match found.   *)
LEMMA HitsOfFile ==
  ASSUME Counts, NEW f
  PROVE  /\ Seen(f) <=> f \in Walked \cup Read
         /\ \A h : h \in Scan /\ h.file = f <=> Seen(f) /\ h \in HitsOf(f, docs[f], rules)
         /\ \A h \in Scan : h.rule \in rules
<1>1. ~Unreadable
  BY DEF Counts, Fails, Crashes, Dies
<1>2. Read = Listed
  BY <1>1 DEF Unreadable
<1>3. \A g : Seen(g) <=> g \in Walked \cup Listed
  BY <1>1 DEF Seen
<1>4. ASSUME NEW g, NEW h \in HitsOf(g, docs[g], rules)
      PROVE  h.file = g /\ h.rule \in rules
  <2>1. PICK r \in rules, i \in DOMAIN CoveredText(g, docs[g]) :
           \E k \in DOMAIN CoveredText(g, docs[g])[i] : h = HitAt(g, CoveredText(g, docs[g]), r, i, k)
    BY <1>4, HitIsOf
  <2> QED
    BY <2>1 DEF HitAt
<1>5. \A h : h \in Scan <=> \E g \in Walked \cup Listed : h \in HitsOf(g, docs[g], rules)
  BY DEF Scan
<1> QED
  BY <1>2, <1>3, <1>4, <1>5

LEMMA HitsFollow == ProseTypeOK => HitsAreOnTheirLines
<1> SUFFICES ASSUME ProseTypeOK, Counts, NEW f \in Files, Seen(f), NEW i \in DOMAIN docs[f], NEW r \in rules
             PROVE  Cardinality({h \in Scan : h.rule = r /\ h.file = f /\ h.line = i})
                      = Expected(r, f, docs[f], i)
  BY DEF HitsAreOnTheirLines
<1>1. docs[f] \in Seq(Seq(Characters)) /\ CoversText(f, docs[f])
  BY HitsOfFile, ReadIsText
<1>2. rules \in SUBSET Rules
  BY DEF ProseTypeOK
<1>3. Cardinality(LineHits(f, docs[f], rules, r, i)) = Expected(r, f, docs[f], i)
  BY <1>1, <1>2, LineHitsNumber
<1>4. {h \in Scan : h.rule = r /\ h.file = f /\ h.line = i} = LineHits(f, docs[f], rules, r, i)
  BY HitsOfFile DEF LineHits
<1> QED
  BY <1>3, <1>4

LEMMA CountIsDue ==
  ASSUME ProseTypeOK, Counts, NEW r \in Rules, NEW f \in Files
  PROVE  /\ Due(r, f) \in Nat
         /\ CountsOf(Scan)[<<r, f>>] = Due(r, f)
<1> DEFINE K == {h \in Scan : <<h.rule, h.file>> = <<r, f>>}
<1>1. rules \in SUBSET Rules
  BY DEF ProseTypeOK
<1>5. CountsOf(Scan)[<<r, f>>] = Cardinality(K)
  BY DEF CountsOf, Keys
<1>6. CASE r \in rules /\ Seen(f)
  <2>1. docs[f] \in Seq(Seq(Characters)) /\ CoversText(f, docs[f])
    BY <1>6, HitsOfFile, ReadIsText
  <2>2. K = RuleHits(f, docs[f], rules, r)
    BY <1>6, HitsOfFile DEF RuleHits
  <2>3. Due(r, f) = InFile(r, f, docs[f])
    BY <1>6 DEF Due, Total, InFile
  <2>4. Due(r, f) \in Nat /\ Cardinality(RuleHits(f, docs[f], rules, r)) = Due(r, f)
    <3>1. rules \in SUBSET Rules /\ r \in rules
      BY <1>1, <1>6
    <3> QED
      BY <2>1, <2>3, <3>1, FileHitsNumber
  <2> HIDE DEF K
  <2> QED
    BY <1>5, <2>2, <2>4
<1>7. CASE ~(r \in rules /\ Seen(f))
  <2>1. K = {}
    BY <1>7, HitsOfFile
  <2>2. Due(r, f) = 0
    BY <1>7 DEF Due
  <2> HIDE DEF K
  <2> QED
    BY <1>5, <2>1, <2>2, FS_EmptySet
<1> QED
  BY <1>6, <1>7

LEMMA TallyIsDue ==
  ASSUME ProseTypeOK, Counts
  PROVE  /\ DOMAIN Tally \subseteq Keys /\ \A k \in DOMAIN Tally : Tally[k] \in Nat \ {0}
         /\ \A r \in Rules, f \in Files : At(Tally, <<r, f>>) = Due(r, f) /\ Due(r, f) \in Nat
<1> DEFINE count == CountsOf(Scan)
<1>1. \A r \in Rules, f \in Files : count[<<r, f>>] = Due(r, f) /\ Due(r, f) \in Nat
  BY CountIsDue
<1>2. Tally = [k \in {x \in Keys : count[x] > 0} |-> count[k]]
  BY DEF Tally
<1> HIDE DEF count
<1>3. \A k \in Keys : count[k] \in Nat
  BY <1>1 DEF Keys
<1>4. DOMAIN Tally = {x \in Keys : count[x] > 0} /\ \A k \in DOMAIN Tally : Tally[k] = count[k]
  BY <1>2
<1>5. \A r \in Rules, f \in Files : <<r, f>> \in Keys
  BY DEF Keys
<1> QED
  BY <1>1, <1>3, <1>4, <1>5 DEF At

Agrees == /\ Counts /\ baseline # Absent
          /\ Grown(baseline, Tally) = {} /\ Shrunk(baseline, Tally) = {}

ProseInv == ProseTypeOK /\ (outcome = "passed" => Agrees)

LEMMA ProseInvInit == ProseInit => ProseInv
BY ProseAssumption DEF ProseInit, ProseInv, ProseTypeOK

LEMMA ProseInvNext == ProseInv /\ [ProseNext]_proseVars => ProseInv'
<1> SUFFICES ASSUME ProseInv, [ProseNext]_proseVars
             PROVE  ProseInv'
  OBVIOUS
<1> USE DEF ProseInv
<1>1. ASSUME NEW f \in Files, Edit(f)
      PROVE  ProseInv'
  <2>1. PICK d \in Repositories : docs' = [docs EXCEPT ![f] = d[f]]
    BY <1>1 DEF Edit
  <2>2. d[f] \in Seq(Seq(Characters)) \cup {Absent}
    BY ProseAssumption
  <2>3. docs' \in [Files -> Seq(Seq(Characters)) \cup {Absent}]
    BY <2>1, <2>2 DEF ProseTypeOK
  <2> QED
    BY <1>1, <2>3 DEF ProseTypeOK, Edit
<1>2. CASE EditRules
  BY <1>2 DEF EditRules, ProseTypeOK
<1>3. ASSUME UNCHANGED <<docs, rules, baseline>>, outcome' = "passed" => Agrees,
             outcome' \in {"none", "failed", "crashed", "grown", "stale", "passed", "rewritten"}
      PROVE  ProseInv'
  <2>1. Walked' = Walked /\ Read' = Read /\ Unreadable' = Unreadable
    BY <1>3 DEF Walked, Read, Unreadable, Listed
  <2>3. Counts' = Counts
    <3>1. Fails' = Fails
      BY <1>3, <2>1 DEF Fails, Dies
    <3>2. Crashes' = Crashes
      BY <1>3, <2>1 DEF Crashes, Dies
    <3> QED
      BY <3>1, <3>2 DEF Counts
  <2>4. Tally' = Tally
    BY <1>3, <2>1 DEF Tally, Scan, CountsOf, Listed
  <2>5. Agrees => Agrees'
    BY <1>3, <2>3, <2>4 DEF Agrees
  <2> QED
    BY <1>3, <2>5 DEF ProseTypeOK
<1>4. CASE Gate
  <2>1. outcome' = "passed" => Agrees
    BY <1>4 DEF Gate, Stop, Agrees
  <2>2. outcome' \in {"none", "failed", "crashed", "grown", "stale", "passed", "rewritten"}
    BY <1>4 DEF Gate, Stop
  <2> QED
    BY <1>3, <1>4, <2>1, <2>2 DEF Gate, Stop
<1>5. CASE Rewrite
  <2>1. CASE Stop
    BY <1>3, <1>5, <2>1 DEF Rewrite, Stop
  <2>2. CASE Counts /\ outcome' = "rewritten" /\ baseline' = Tally
    BY <1>5, <2>2, TallyIsDue DEF Rewrite, ProseTypeOK
  <2> QED
    BY <1>5, <2>1, <2>2 DEF Rewrite
<1>6. CASE UNCHANGED proseVars
  BY <1>3, <1>6 DEF proseVars, ProseTypeOK
<1> QED
  BY <1>1, <1>2, <1>4, <1>5, <1>6 DEF ProseNext

LEMMA AgreeingIsDue == ProseInv => PassMeansBaseline
<1> SUFFICES ASSUME ProseInv, outcome = "passed", NEW r \in Rules, NEW f \in Files
             PROVE  At(baseline, <<r, f>>) = Due(r, f)
  BY DEF PassMeansBaseline
<1> DEFINE k == <<r, f>>
<1>1. Agrees /\ ProseTypeOK
  BY DEF ProseInv
<1>2. At(Tally, k) = Due(r, f) /\ Due(r, f) \in Nat
  BY <1>1, TallyIsDue DEF Agrees
<1>3. At(baseline, k) \in Nat
  BY <1>1 DEF Agrees, ProseTypeOK, At
<1>4. CASE k \in DOMAIN baseline \cup DOMAIN Tally
  <2>1. ~(At(Tally, k) > At(baseline, k)) /\ ~(At(Tally, k) < At(baseline, k))
    BY <1>1, <1>4 DEF Agrees, Grown, Shrunk
  <2> HIDE DEF k
  <2> QED
    BY <1>2, <1>3, <2>1 DEF k
<1>5. CASE k \notin DOMAIN baseline \cup DOMAIN Tally
  BY <1>2, <1>5 DEF At
<1> QED
  BY <1>4, <1>5

LEMMA ProseInvAlways == ProseSpec => []ProseInv
<1>1. ProseInit => ProseInv
  BY ProseInvInit
<1>2. ProseInv /\ [ProseNext]_proseVars => ProseInv'
  BY ProseInvNext
<1> QED
  BY <1>1, <1>2, PTL DEF ProseSpec

(* checkprose -list, when it gets to print, names the lines to mend, as many *)
(* hits on each as it has flagged characters: what masking and hideOverlap   *)
(* cover is what they are to cover, and no line moves.                       *)
THEOREM HitsAreRight == ProseSpec => []HitsAreOnTheirLines
<1>1. ProseInv => HitsAreOnTheirLines
  BY HitsFollow DEF ProseInv
<1> QED
  BY <1>1, ProseInvAlways, PTL

(* When checkprose passes, every file has of each rule what the baseline     *)
(* says.                                                                     *)
THEOREM PassIsBaseline == ProseSpec => []PassMeansBaseline
<1>1. ProseInv => PassMeansBaseline
  BY AgreeingIsDue
<1> QED
  BY <1>1, ProseInvAlways, PTL


-------------------------------------------------------------------------------
(* Where the excerpts are right.  What scan relies on holds if the words     *)
(* have only characters as wide as a circle.                                 *)

WordsAreWide == \A n \in DOMAIN Overlap : \A j \in DOMAIN Overlap[n] : Width(Overlap[n][j]) = 3

LEMMA CoveringKeepsWidths ==
  ASSUME WordsAreWide, NEW f, NEW t \in Seq(Seq(Characters)), CoversText(f, t), NEW i \in DOMAIN t
  PROVE  Widths(CoveredText(f, t)[i]) = Widths(t[i])
<1> DEFINE l == t[i]
           m == Masked(f, t)[i]
           v == HideWords(m)
<1>1. CoveredText(f, t)[i] = v
  BY DEF CoveredText, HideOverlap, CoversText
<1>2. CoversLine(m, l, CodeIn(f, t, i)) /\ m \in Seq(Marks) /\ DOMAIN m = DOMAIN l
  BY DEF CoversText, CoversLine
<1>3. \A k \in DOMAIN l : UnderWord(m, k, Len(Overlap)) <=> InWord(f, t, i, k)
  BY WordsStillThere
<1> HIDE DEF m
<1>4. DOMAIN v = DOMAIN l /\ \A k \in DOMAIN l : v[k] = IF UnderWord(m, k, Len(Overlap)) THEN "circle" ELSE m[k]
  BY <1>2, HiddenChars
<1>5. ASSUME NEW k \in DOMAIN l, InWord(f, t, i, k)
      PROVE  Width(l[k]) = 3
  <2>1. PICK n \in DOMAIN Overlap, p \in DOMAIN l :
           StandsAt(Overlap[n], l, p) /\ k \in p .. p + Len(Overlap[n]) - 1
    BY <1>5 DEF InWord
  <2> DEFINE j == k - p + 1
  <2>2. Overlap[n] \in Seq(Characters) /\ Len(Overlap[n]) \in Nat /\ p \in Nat /\ k \in Nat
    BY OverlapAssumption
  <2>3. j \in DOMAIN Overlap[n] /\ p + j - 1 = k
    BY <2>1, <2>2
  <2> HIDE DEF j
  <2>4. l[k] = Overlap[n][j]
    <3>1. l[p + j - 1] = Overlap[n][j]
      BY <2>1, <2>3 DEF StandsAt
    <3> QED
      BY <2>3, <3>1
  <2> QED
    BY <2>3, <2>4 DEF WordsAreWide
<1>6. \A k \in DOMAIN l : Width(m[k]) = Width(l[k])
  BY <1>2 DEF CoversLine
<1> HIDE DEF l, v
<1>7. \A k \in DOMAIN l : Width(v[k]) = Width(l[k])
  BY <1>3, <1>4, <1>5, <1>6, FillingWidths
<1>8. Widths(v) = [k \in DOMAIN l |-> Width(v[k])] /\ Widths(l) = [k \in DOMAIN l |-> Width(l[k])]
  BY <1>4 DEF Widths
<1>9. Widths(v) = Widths(l)
  BY <1>7, <1>8
<1> QED
  BY <1>1, <1>9 DEF l

LEMMA SumsNeverFall ==
  ASSUME NEW s \in Seq(Nat)
  PROVE  \A j, k \in 0 .. Len(s) : j <= k => UpTo(s)[j] <= UpTo(s)[k]
<1> DEFINE N == Len(s)
           F == UpTo(s)
           S == {k \in 0 .. N : \A j \in 0 .. N : j <= k => F[j] <= F[k]}
<1>1. /\ N \in Nat /\ F \in [0 .. N -> Nat]
      /\ \A n \in 1 .. N : F[n] = F[n - 1] + s[n] /\ s[n] \in Nat
  BY Sums
<1> HIDE DEF F, N
<1>2. 0 \in S
  <2>1. \A j \in 0 .. N : j <= 0 => j = 0
    BY <1>1
  <2>2. F[0] <= F[0] /\ 0 \in 0 .. N
    BY <1>1
  <2> QED
    BY <2>1, <2>2
<1>3. ASSUME NEW n \in 1 .. N, n - 1 \in S
      PROVE  n \in S
  <2>1. n \in 0 .. N /\ n - 1 \in 0 .. N /\ F[n] \in Nat /\ F[n - 1] \in Nat
    BY <1>1
  <2>2. F[n - 1] <= F[n]
    <3>1. F[n] = F[n - 1] + s[n] /\ s[n] \in Nat
      BY <1>1
    <3> QED
      BY <2>1, <3>1
  <2>3. ASSUME NEW j \in 0 .. N, j <= n
        PROVE  F[j] <= F[n]
    <3>1. F[j] \in Nat /\ (j = n \/ j <= n - 1)
      BY <1>1, <2>1, <2>3
    <3>2. CASE j = n
      BY <2>1, <3>2
    <3>3. CASE j <= n - 1
      <4>1. F[j] <= F[n - 1]
        BY <1>3, <3>3
      <4> QED
        BY <2>1, <2>2, <3>1, <4>1
    <3> QED
      BY <3>1, <3>2, <3>3
  <2> QED
    BY <2>1, <2>3
<1>4. 0 .. N \subseteq S
  <2> HIDE DEF S
  <2> QED
    BY <1>1, <1>2, <1>3, FromZeroOn
<1>5. \A j, k \in 0 .. N : j <= k => F[j] <= F[k]
  BY <1>4
<1> QED
  BY <1>5 DEF F, N

(* Lines follow each other.                                                  *)
LEMMA LinesFollow ==
  ASSUME NEW t \in Seq(Seq(Characters))
  PROVE  /\ \A i \in DOMAIN t : LineStart(t, i) \in Nat /\ Bytes(t[i]) \in Nat
         /\ \A i, j \in DOMAIN t : i < j => LineStart(t, i) + Bytes(t[i]) < LineStart(t, j)
<1> DEFINE N == Len(t)
           b == [j \in DOMAIN t |-> Bytes(t[j])]
           F == UpTo(b)
<1>1. N \in Nat /\ DOMAIN t = 1 .. N /\ \A j \in 1 .. N : Bytes(t[j]) \in Nat
  <2>1. ASSUME NEW j \in 1 .. N
        PROVE  Bytes(t[j]) \in Nat
    <3>1. t[j] \in Seq(Marks)
      <4>1. t[j] \in Seq(Characters)
        OBVIOUS
      <4> QED
        BY <4>1 DEF Marks
    <3> QED
      BY <3>1, OffsetsApart
  <2> QED
    BY <2>1
<1>2. b \in Seq(Nat) /\ Len(b) = N /\ \A j \in 1 .. N : b[j] = Bytes(t[j])
  <2>1. b \in [1 .. N -> Nat] /\ \A j \in 1 .. N : b[j] = Bytes(t[j])
    BY <1>1
  <2> HIDE DEF b, N
  <2> QED
    BY <1>1, <2>1
<1>3. \A i : LineStart(t, i) = (i - 1) + F[i - 1]
  BY DEF LineStart
<1> HIDE DEF N, b
<1>4. /\ F \in [0 .. N -> Nat]
      /\ \A n \in 1 .. N : F[n] = F[n - 1] + b[n]
      /\ \A j, k \in 0 .. N : j <= k => F[j] <= F[k]
  BY <1>2, Sums, SumsNeverFall
<1> HIDE DEF F
<1>5. ASSUME NEW i \in 1 .. N
      PROVE  i - 1 \in 0 .. N /\ F[i - 1] \in Nat /\ LineStart(t, i) = (i - 1) + F[i - 1] /\ Bytes(t[i]) \in Nat
  <2>1. i - 1 \in 0 .. N
    BY <1>1
  <2>2. F[i - 1] \in Nat
    BY <1>4, <2>1
  <2>3. LineStart(t, i) = (i - 1) + F[i - 1]
    BY <1>3
  <2>4. Bytes(t[i]) \in Nat
    BY <1>1
  <2> QED
    BY <2>1, <2>2, <2>3, <2>4
<1>6. ASSUME NEW i \in 1 .. N, NEW j \in 1 .. N, i < j
      PROVE  LineStart(t, i) + Bytes(t[i]) < LineStart(t, j)
  <2>1. i \in 0 .. N /\ j - 1 \in 0 .. N /\ i <= j - 1
    BY <1>1, <1>6
  <2>2. F[i] <= F[j - 1] /\ F[i] = F[i - 1] + Bytes(t[i]) /\ F[i] \in Nat
    BY <1>2, <1>4, <2>1
  <2>3. LineStart(t, i) = (i - 1) + F[i - 1] /\ LineStart(t, j) = (j - 1) + F[j - 1]
    BY <1>3
  <2>4. F[i - 1] \in Nat /\ F[j - 1] \in Nat /\ Bytes(t[i]) \in Nat
    BY <1>5
  <2>5. i \in Int /\ j \in Int /\ i < j /\ i <= j - 1
    BY <1>1, <1>6
  <2>6. ASSUME NEW x \in Nat, NEW y \in Nat, NEW z \in Nat, NEW w \in Nat, w <= y, w = x + z
        PROVE  (i - 1) + x + z < (j - 1) + y
    BY <2>5, <2>6
  <2>7. (i - 1) + F[i - 1] + Bytes(t[i]) < (j - 1) + F[j - 1]
    BY <2>2, <2>4, <2>6
  <2> QED
    BY <2>3, <2>7
<1>7. \A i \in 1 .. N : LineStart(t, i) \in Nat /\ Bytes(t[i]) \in Nat
  <2>1. ASSUME NEW i \in 1 .. N
        PROVE  LineStart(t, i) \in Nat
    <3>1. i \in Int /\ i - 1 \in Nat
      BY <1>1
    <3> QED
      BY <1>5, <3>1
  <2> QED
    BY <1>5, <2>1
<1> QED
  BY <1>1, <1>6, <1>7

(* What lies within a line is shown as that line.                            *)
LEMMA ShownAsItsLine ==
  ASSUME NEW t \in Seq(Seq(Characters)), NEW i \in DOMAIN t, NEW d \in Nat, d < Bytes(t[i])
  PROVE  /\ LineStart(t, i) + d <= Size(t) /\ ~(LineStart(t, i) + d > Size(t))
         /\ Excerpt(t, LineStart(t, i) + d) = i
<1> DEFINE N == Len(t)
           off == LineStart(t, i) + d
           S == {j \in DOMAIN t : LineStart(t, j) <= off}
<1>1. N \in Nat /\ DOMAIN t = 1 .. N /\ i \in 1 .. N /\ N \in 1 .. N
  OBVIOUS
<1>2. /\ \A j \in DOMAIN t : LineStart(t, j) \in Nat /\ Bytes(t[j]) \in Nat
      /\ \A j, k \in DOMAIN t : j < k => LineStart(t, j) + Bytes(t[j]) < LineStart(t, k)
  BY LinesFollow
<1>3. Size(t) = LineStart(t, N) + Bytes(t[N])
  BY DEF Size
<1>4. Excerpt(t, off) = Max(S)
  BY DEF Excerpt
<1> HIDE DEF N
<1>5. off \in Nat /\ off < LineStart(t, i) + Bytes(t[i])
  BY <1>2
<1>6. off <= Size(t) /\ ~(off > Size(t))
  <2>1. CASE i = N
    BY <1>1, <1>2, <1>3, <1>5, <2>1
  <2>2. CASE i # N
    <3>1. LineStart(t, i) + Bytes(t[i]) < LineStart(t, N)
      <4>1. i \in DOMAIN t /\ N \in DOMAIN t
        BY <1>1
      <4>2. i < N
        BY <1>1, <2>2
      <4> QED
        BY <1>2, <4>1, <4>2
    <3>2. LineStart(t, i) \in Nat /\ Bytes(t[i]) \in Nat /\ LineStart(t, N) \in Nat /\ Bytes(t[N]) \in Nat
      BY <1>1, <1>2
    <3> HIDE DEF off
    <3> QED
      BY <1>3, <1>5, <3>1, <3>2
  <2> QED
    BY <2>1, <2>2
<1>7. i \in S
  BY <1>2
<1>8. \A j \in S : i >= j
  <2>1. ASSUME NEW j \in S, ~(i >= j)
        PROVE  FALSE
    <3>1. j \in DOMAIN t /\ i < j /\ LineStart(t, j) <= off
      BY <1>1, <2>1
    <3>2. LineStart(t, i) + Bytes(t[i]) < LineStart(t, j)
      BY <1>2, <3>1
    <3>3. LineStart(t, i) \in Nat /\ Bytes(t[i]) \in Nat /\ LineStart(t, j) \in Nat
      BY <1>2, <3>1
    <3> HIDE DEF off, S
    <3> QED
      BY <1>5, <3>1, <3>2, <3>3
  <2> QED
    BY <2>1
<1>9. \A j \in S : j \in Int
  BY <1>1
<1> HIDE DEF S, off
<1>10. \A j \in S : (\A k \in S : j >= k) => j = i
  BY <1>7, <1>8, <1>9
<1>11. Max(S) = i
  BY <1>7, <1>8, <1>10 DEF Max
<1> QED
  BY <1>4, <1>6, <1>11 DEF off

LEMMA PlacesFollow ==
  ASSUME WordsAreWide, ProseTypeOK, NEW f \in Walked \cup Read, NEW rs,
         NEW h \in HitsOf(f, docs[f], rs)
  PROVE  h.off <= Size(docs[f]) /\ ~(h.off > Size(docs[f])) /\ Excerpt(docs[f], h.off) = h.line
<1> DEFINE t == docs[f]
           s == CoveredText(f, t)
<1>1. t \in Seq(Seq(Characters)) /\ CoversText(f, t)
  BY ReadIsText
<1>2. PICK r \in rs, i \in DOMAIN s : \E k \in DOMAIN s[i] : h = HitAt(f, s, r, i, k)
  BY HitIsOf
<1>3. PICK k \in DOMAIN s[i] : h = HitAt(f, s, r, i, k)
  BY <1>2
<1>4. h.line = i /\ h.off = LineStart(s, i) + UpTo(Widths(s[i]))[k - 1]
  BY <1>3 DEF HitAt
<1> HIDE DEF t
<1>5. DOMAIN s = DOMAIN t /\ i \in DOMAIN t /\ DOMAIN s[i] = DOMAIN t[i] /\ t[i] \in Seq(Characters)
  BY <1>1, <1>2, CoveredChars
<1>6. \A j \in DOMAIN t : Widths(s[j]) = Widths(t[j])
  BY <1>1, CoveringKeepsWidths
<1>7. LineStart(s, i) = LineStart(t, i)
  <2>1. \A j \in DOMAIN t : Bytes(s[j]) = Bytes(t[j])
    <3>1. ASSUME NEW j \in DOMAIN t
          PROVE  Len(s[j]) = Len(t[j])
      <4>1. s[j] \in Seq(Marks) /\ t[j] \in Seq(Characters) /\ DOMAIN s[j] = DOMAIN t[j]
        BY <1>1, CoveredChars
      <4> HIDE DEF s
      <4> QED
        BY <4>1
    <3> QED
      BY <1>6, <3>1 DEF Bytes
  <2> DEFINE b(x) == [j \in DOMAIN x |-> Bytes(x[j])]
  <2>2. b(s) = b(t)
    <3> HIDE DEF s
    <3> QED
      BY <1>5, <2>1
  <2>3. LineStart(s, i) = (i - 1) + UpTo(b(s))[i - 1] /\ LineStart(t, i) = (i - 1) + UpTo(b(t))[i - 1]
    BY DEF LineStart
  <2> HIDE DEF s, b
  <2> QED
    BY <2>2, <2>3
<1> HIDE DEF s
<1> DEFINE w == Widths(t[i])
           d == UpTo(w)[k - 1]
<1>8. d \in Nat /\ d < Bytes(t[i])
  <2>1. w \in Seq(Nat) /\ Len(w) = Len(t[i]) /\ \A n \in 1 .. Len(w) : w[n] >= 1
    <3>1. w \in [1 .. Len(t[i]) -> Nat] /\ \A n \in 1 .. Len(t[i]) : w[n] >= 1
      BY <1>5, WidthType DEF Widths
    <3>2. Len(t[i]) \in Nat
      BY <1>5
    <3> HIDE DEF w
    <3> QED
      BY <3>1, <3>2
  <2> HIDE DEF w
  <2>2. /\ UpTo(w) \in [0 .. Len(w) -> Nat]
        /\ \A j, n \in 0 .. Len(w) : j < n => UpTo(w)[j] < UpTo(w)[n]
    BY <2>1, Sums, SumsGrow
  <2>3. k - 1 \in 0 .. Len(w) /\ Len(w) \in 0 .. Len(w) /\ k - 1 < Len(w)
    BY <1>3, <1>5, <2>1
  <2>4. Bytes(t[i]) = UpTo(w)[Len(w)]
    BY <2>1 DEF Bytes, w
  <2> QED
    BY <2>2, <2>3, <2>4
<1>9. h.off = LineStart(t, i) + d
  BY <1>4, <1>5, <1>6, <1>7
<1> HIDE DEF d
<1>10. /\ LineStart(t, i) + d <= Size(t) /\ ~(LineStart(t, i) + d > Size(t))
       /\ Excerpt(t, LineStart(t, i) + d) = i
  BY <1>1, <1>5, <1>8, ShownAsItsLine
<1> QED
  BY <1>4, <1>9, <1>10 DEF t

(* The gate never dies of a hit's place: no listed file's and no notice's.    *)
LEMMA NoneDies ==
  ASSUME WordsAreWide, ProseTypeOK
  PROVE  PlacesAreKept /\ ~Crashes
<1>1. \A f \in Walked \cup Read : \A rs : \A h \in HitsOf(f, docs[f], rs) :
        h.off <= Size(docs[f]) /\ ~(h.off > Size(docs[f])) /\ Excerpt(docs[f], h.off) = h.line
  BY PlacesFollow
<1> QED
  BY <1>1 DEF PlacesAreKept, Crashes, Dies, Overruns

(* For no other reason than words with characters narrower or wider than the *)
(* circles that cover them does checkprose die of an excerpt or show another *)
(* line: with a list that has none, every place where a rule or a notice     *)
(* finds something is one of the original, and no run ends in a crash        *)
(* (main.go:351, 388).                                                       *)
THEOREM NoCrashOfWideWords == WordsAreWide => (ProseSpec => [](PlacesAreKept /\ outcome # "crashed"))
<1> SUFFICES ASSUME WordsAreWide
             PROVE  ProseSpec => [](PlacesAreKept /\ outcome # "crashed")
  OBVIOUS
<1> DEFINE Alive == outcome # "crashed"
<1>1. ProseInit => Alive
  BY DEF ProseInit
<1>2. ProseInv /\ Alive /\ [ProseNext]_proseVars => Alive'
  <2> SUFFICES ASSUME ProseInv, outcome # "crashed", [ProseNext]_proseVars
               PROVE  outcome' # "crashed"
    OBVIOUS
  <2>1. ~Crashes
    BY NoneDies DEF ProseInv
  <2>2. CASE UNCHANGED proseVars
    BY <2>2 DEF proseVars
  <2>3. ASSUME NEW f \in Files, Edit(f)
        PROVE  outcome' # "crashed"
    BY <2>3 DEF Edit
  <2> QED
    BY <2>1, <2>2, <2>3 DEF ProseNext, EditRules, Gate, Rewrite, Stop
<1>3. ProseInv => PlacesAreKept
  BY NoneDies DEF ProseInv
<1>4. ProseSpec => [](PlacesAreKept /\ Alive)
  <2> HIDE DEF Alive
  <2> QED
    BY <1>1, <1>2, <1>3, ProseInvAlways, PTL DEF ProseSpec
<1> QED
  BY <1>4
===============================================================================
