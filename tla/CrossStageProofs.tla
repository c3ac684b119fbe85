--------------------------- MODULE CrossStageProofs ---------------------------
(***************************************************************************)
(* Whatever the checks are, in whatever order pushes and checkouts go: the *)
(* verdicts of runs that nothing overtook are exact, and the newest run of *)
(* the repository pushed last is such a run.  And what a green run looked  *)
(* at is as it should be.                                                  *)
(***************************************************************************)
EXTENDS CrossStage, NumberFacts, TLAPS

(* What TypeOK says of one group. *)
RunOK(g) ==
  /\ runs[g] \in RunsOf(g[1]) \cup {NoRun}
  /\ Over(g) => runs[g].got = Len(Order)

(* What a run has checked out when nobody else pushed: its commit, the mains. *)
Expected(g, r) == IF r = g[1] THEN runs[g].commit ELSE main[r]

(* Runs that nothing overtook. *)
Exact(g) ==
  /\ runs[g].verdict \in Verdicts
  /\ \A i \in 1..runs[g].got : runs[g].seen[Order[i]] = Expected(g, Order[i])
  /\ Over(g) => /\ runs[g].got = Len(Order)
                /\ runs[g].verdict = "green" <=> Green(runs[g].seen)

AloneInv == \A g \in alone : Exact(g)

(* The last push to a main left its run alone, and at that main. *)
LastInv ==
  lastPush # NoPush =>
     /\ <<lastPush, "main">> \in alone
     /\ runs[<<lastPush, "main">>].commit = main[lastPush]

IInv == TypeOK /\ AloneInv /\ LastInv

-------------------------------------------------------------------------------
LEMMA OrderFacts ==
  /\ Len(Order) \in Nat
  /\ \A i \in 1..Len(Order) : Order[i] \in Roots
  /\ \A r \in Roots : \E i \in 1..Len(Order) : Order[i] = r
BY CrossStageAssumption DEF Roots

LEMMA NewRunType ==
  ASSUME NEW r \in Roots, NEW c \in DOMAIN Tree[r]
  PROVE  NewRun(c) \in RunsOf(r)
BY CrossStageAssumption, OrderFacts DEF NewRun, RunsOf, Verdicts

(* A push to one repository's main is a state main can be in. *)
LEMMA MainsExcept ==
  ASSUME NEW m \in Mains, NEW r \in Roots, NEW c \in DOMAIN Tree[r]
  PROVE  [m EXCEPT ![r] = c] \in Mains
BY DEF Mains

LEMMA RunExcept ==
  ASSUME NEW r, NEW run \in RunsOf(r), NEW n \in 0..Len(Order), NEW m \in Mains
  PROVE  [run EXCEPT !.got = n, !.seen = m] \in RunsOf(r)
BY DEF RunsOf

LEMMA InitType == Init => TypeOK
<1> SUFFICES ASSUME Init
             PROVE  TypeOK
  OBVIOUS
<1> QED
  BY CrossStageAssumption DEF Init, TypeOK, Over, NoRun

LEMMA NextType == TypeOK /\ [Next]_vars => TypeOK'
<1> SUFFICES ASSUME TypeOK, [Next]_vars
             PROVE  TypeOK'
  OBVIOUS
<1>1. ASSUME NEW r \in Roots, NEW c \in DOMAIN Tree[r], PushMain(r, c)
      PROVE  TypeOK'
  <2>1. main' \in Mains
    BY <1>1, MainsExcept DEF PushMain, TypeOK
  <2>2. <<r, "main">> \in Groups
    BY DEF Groups
  <2>3. DOMAIN runs' = Groups /\ \A g \in Groups : RunOK(g)'
    BY <1>1, <2>2, NewRunType DEF PushMain, TypeOK, RunOK, Over, NewRun
  <2> QED
    BY <1>1, <2>1, <2>2, <2>3, CrossStageAssumption DEF PushMain, TypeOK, RunOK
<1>2. ASSUME NEW r \in Pulled, NEW c \in DOMAIN Tree[r], PushPull(r, c)
      PROVE  TypeOK'
  <2>1. r \in Roots /\ <<r, "pull">> \in Groups
    BY CrossStageAssumption DEF Groups
  <2>2. DOMAIN runs' = Groups /\ \A g \in Groups : RunOK(g)'
    BY <1>2, <2>1, NewRunType DEF PushPull, TypeOK, RunOK, Over, NewRun
  <2> QED
    BY <1>2, <2>1, <2>2, CrossStageAssumption DEF PushPull, TypeOK, RunOK
<1>3. CASE Dispatch
  <2>1. <<Hub, "main">> \in Groups /\ main[Hub] \in DOMAIN Tree[Hub] /\ Hub \in Roots
    BY CrossStageAssumption DEF Groups, TypeOK, Mains
  <2>2. DOMAIN runs' = Groups /\ \A g \in Groups : RunOK(g)'
    BY <1>3, <2>1, NewRunType DEF Dispatch, TypeOK, RunOK, Over, NewRun
  <2> QED
    BY <1>3, <2>1, <2>2, CrossStageAssumption DEF Dispatch, TypeOK, RunOK
<1>4. ASSUME NEW g \in Groups, Checkout(g)
      PROVE  TypeOK'
  <2> DEFINE r == Order[runs[g].got + 1]
             v == IF r = g[1] THEN runs[g].commit ELSE main[r]
  <2>1. runs[g] \in RunsOf(g[1])
    BY <1>4 DEF Checkout, Active, TypeOK, NoRun
  <2>2. r \in Roots
    BY <1>4, <2>1, OrderFacts DEF Checkout, RunsOf
  <2>3. v \in DOMAIN Tree[r]
    BY <2>1, <2>2 DEF TypeOK, Mains, RunsOf
  <2>4. [runs[g].seen EXCEPT ![r] = v] \in Mains
    BY <2>1, <2>2, <2>3, MainsExcept DEF RunsOf
  <2>5. runs' = [runs EXCEPT ![g] = [runs[g] EXCEPT !.got = runs[g].got + 1,
                                                     !.seen = [runs[g].seen EXCEPT ![r] = v]]]
    BY <1>4, <2>1 DEF Checkout, TypeOK, RunsOf
  <2>6. [runs[g] EXCEPT !.got = runs[g].got + 1, !.seen = [runs[g].seen EXCEPT ![r] = v]]
          \in RunsOf(g[1])
    <3>1. runs[g].got + 1 \in 0..Len(Order)
      BY <1>4, <2>1, OrderFacts DEF Checkout, RunsOf
    <3> HIDE DEF r, v
    <3> QED
      BY <2>1, <2>4, <3>1, RunExcept
  <2>7. runs'[g].verdict = "none"
    BY <1>4, <2>1 DEF Checkout, Active, TypeOK, RunsOf
  <2>8. DOMAIN runs' = Groups /\ \A h \in Groups : RunOK(h)'
    <3> HIDE DEF r, v
    <3> QED
      BY <2>5, <2>6, <2>7 DEF TypeOK, RunOK, Over
  <2> QED
    BY <1>4, <2>8 DEF Checkout, TypeOK, RunOK
<1>5. ASSUME NEW g \in Groups, Judge(g)
      PROVE  TypeOK'
  <2>1. runs[g] \in RunsOf(g[1])
    BY <1>5 DEF Judge, Active, TypeOK, NoRun
  <2>2. runs'[g] \in RunsOf(g[1]) /\ runs'[g].got = Len(Order)
    BY <1>5, <2>1 DEF Judge, TypeOK, RunsOf, Verdicts
  <2>3. DOMAIN runs' = Groups /\ \A h \in Groups : RunOK(h)'
    BY <1>5, <2>2 DEF Judge, TypeOK, RunOK, Over
  <2> QED
    BY <1>5, <2>3 DEF Judge, TypeOK, RunOK
<1>6. CASE UNCHANGED vars
  BY <1>6 DEF vars, TypeOK, Over
<1> QED
  BY <1>1, <1>2, <1>3, <1>4, <1>5, <1>6 DEF Next

(***************************************************************************)
(* The variables keep their types.                                         *)
(***************************************************************************)
THEOREM TypeCorrect == Spec => []TypeOK
<1> QED
  BY InitType, NextType, PTL DEF Spec

-------------------------------------------------------------------------------
(* A run that a step does not touch stays exact if the mains of the others do. *)
LEMMA Untouched ==
  ASSUME NEW g \in Groups, runs[g] \in RunsOf(g[1]), Exact(g), runs'[g] = runs[g],
         \A r \in Roots : r # g[1] => main'[r] = main[r]
  PROVE  Exact(g)'
<1>1. \A i \in 1..runs[g].got : Order[i] \in Roots
  BY OrderFacts DEF RunsOf
<1>2. \A i \in 1..runs[g].got : Expected(g, Order[i])' = Expected(g, Order[i])
  BY <1>1 DEF Expected
<1> QED
  BY <1>2 DEF Exact, Over

(* A run that has just been started is exact. *)
LEMMA Started ==
  ASSUME NEW g \in Groups, NEW c, runs'[g] = NewRun(c)
  PROVE  Exact(g)'
BY DEF Exact, NewRun, Over, Verdicts

(* What a finished exact run looked at. *)
LEMMA ExactSeen ==
  ASSUME TypeOK, NEW g \in Groups, Exact(g), Over(g)
  PROVE  runs[g].seen = [main EXCEPT ![g[1]] = runs[g].commit]
<1>1. runs[g] \in RunsOf(g[1])
  BY DEF TypeOK, Over, NoRun
<1>2. \A r \in Roots : runs[g].seen[r] = Expected(g, r)
  BY OrderFacts DEF Exact
<1> QED
  BY <1>1, <1>2 DEF RunsOf, Mains, TypeOK, Expected

LEMMA NextKeeps == IInv /\ [Next]_vars => IInv'
<1> SUFFICES ASSUME IInv, [Next]_vars
             PROVE  AloneInv' /\ LastInv'
  BY NextType DEF IInv
<1> USE DEF IInv
<1>0. \A g \in alone : g \in Groups /\ Exact(g) /\ runs[g] \in RunsOf(g[1])
  BY DEF AloneInv, TypeOK, Exact, Verdicts, NoRun
<1>1. ASSUME NEW r \in Roots, NEW c \in DOMAIN Tree[r], PushMain(r, c)
      PROVE  AloneInv' /\ LastInv'
  <2>1. <<r, "main">> \in Groups /\ runs'[<<r, "main">>] = NewRun(c) /\ main'[r] = c
    BY <1>1 DEF PushMain, TypeOK, Groups, Mains
  <2>2. ASSUME NEW g \in alone', g # <<r, "main">>
        PROVE  Exact(g)'
    <3>1. g \in alone /\ g[1] = r /\ runs'[g] = runs[g]
      BY <1>1, <2>2 DEF PushMain, TypeOK
    <3>2. \A s \in Roots : s # r => main'[s] = main[s]
      BY <1>1 DEF PushMain, TypeOK, Mains
    <3> QED
      BY <1>0, <3>1, <3>2, Untouched
  <2>3. AloneInv'
    BY <2>1, <2>2, Started DEF AloneInv
  <2>4. LastInv'
    BY <1>1, <2>1 DEF PushMain, LastInv, NewRun
  <2> QED
    BY <2>3, <2>4
<1>2. ASSUME NEW r \in Pulled, NEW c \in DOMAIN Tree[r], PushPull(r, c)
      PROVE  AloneInv' /\ LastInv'
  <2>1. <<r, "pull">> \in Groups /\ runs'[<<r, "pull">>] = NewRun(c)
    BY <1>2, CrossStageAssumption DEF PushPull, TypeOK, Groups
  <2>2. ASSUME NEW g \in alone', g # <<r, "pull">>
        PROVE  Exact(g)'
    <3>1. g \in alone /\ runs'[g] = runs[g] /\ main' = main
      BY <1>2, <2>2 DEF PushPull, TypeOK
    <3> QED
      BY <1>0, <3>1, Untouched
  <2>3. AloneInv'
    BY <2>1, <2>2, Started DEF AloneInv
  <2>4. LastInv'
    <3>1. \A s : runs'[<<s, "main">>] = runs[<<s, "main">>]
      BY <1>2 DEF PushPull, TypeOK
    <3> QED
      BY <1>2, <3>1 DEF PushPull, LastInv
  <2> QED
    BY <2>3, <2>4
<1>3. CASE Dispatch
  <2>1. <<Hub, "main">> \in Groups /\ runs'[<<Hub, "main">>] = NewRun(main[Hub])
    BY <1>3, CrossStageAssumption DEF Dispatch, TypeOK, Groups
  <2>2. ASSUME NEW g \in alone', g # <<Hub, "main">>
        PROVE  Exact(g)'
    <3>1. g \in alone /\ runs'[g] = runs[g] /\ main' = main
      BY <1>3, <2>2 DEF Dispatch, TypeOK
    <3> QED
      BY <1>0, <3>1, Untouched
  <2>3. AloneInv'
    BY <2>1, <2>2, Started DEF AloneInv
  <2>4. LastInv'
    BY <1>3, <2>1 DEF Dispatch, LastInv, TypeOK, NewRun
  <2> QED
    BY <2>3, <2>4
<1>4. ASSUME NEW g \in Groups, Checkout(g)
      PROVE  AloneInv' /\ LastInv'
  <2> DEFINE r == Order[runs[g].got + 1]
  <2>1. /\ runs[g] \in RunsOf(g[1])
        /\ r \in Roots
        /\ runs'[g].got = runs[g].got + 1 /\ runs'[g].commit = runs[g].commit
        /\ runs'[g].verdict = "none"
        /\ runs'[g].seen = [runs[g].seen EXCEPT ![r] = Expected(g, r)]
    <3>1. runs[g] \in RunsOf(g[1])
      BY <1>4 DEF Checkout, Active, TypeOK, NoRun
    <3>2. r \in Roots
      BY <1>4, <3>1, OrderFacts DEF Checkout, RunsOf
    <3> QED
      BY <1>4, <3>1, <3>2 DEF Checkout, Active, TypeOK, RunsOf, Expected
  <2>2. ASSUME NEW h \in alone', h # g
        PROVE  Exact(h)'
    <3>1. h \in alone /\ runs'[h] = runs[h] /\ main' = main
      BY <1>4, <2>2 DEF Checkout, TypeOK
    <3> QED
      BY <1>0, <3>1, Untouched
  <2>3. ASSUME g \in alone'
        PROVE  Exact(g)'
    <3>1. g \in alone /\ main' = main
      BY <1>4, <2>3 DEF Checkout
    <3>2. ASSUME NEW i \in 1..(runs[g].got + 1)
          PROVE  runs'[g].seen[Order[i]] = Expected(g, Order[i])
      <4>1. Order[i] \in Roots /\ DOMAIN runs[g].seen = Roots
        BY <1>4, <2>1, <3>2, OrderFacts DEF Checkout, RunsOf, Mains
      <4>2. CASE Order[i] = r
        BY <2>1, <4>1, <4>2
      <4>3. CASE Order[i] # r
        <5>1. i \in 1..runs[g].got
          BY <2>1, <4>3 DEF RunsOf
        <5> QED
          BY <1>0, <2>1, <3>1, <4>1, <4>3, <5>1 DEF Exact
      <4> QED
        BY <4>2, <4>3
    <3>3. \A s : Expected(g, s)' = Expected(g, s)
      BY <2>1, <3>1 DEF Expected
    <3> QED
      BY <2>1, <3>2, <3>3 DEF Exact, Over, Verdicts
  <2>4. LastInv'
    BY <1>4, <2>1 DEF Checkout, LastInv, TypeOK
  <2> QED
    BY <2>2, <2>3, <2>4 DEF AloneInv
<1>5. ASSUME NEW g \in Groups, Judge(g)
      PROVE  AloneInv' /\ LastInv'
  <2>1. /\ runs[g] \in RunsOf(g[1]) /\ runs[g].got = Len(Order)
        /\ runs'[g].got = runs[g].got /\ runs'[g].commit = runs[g].commit
        /\ runs'[g].seen = runs[g].seen
        /\ runs'[g].verdict = IF Green(runs[g].seen) THEN "green" ELSE "red"
    BY <1>5 DEF Judge, Active, TypeOK, RunsOf, NoRun
  <2>2. ASSUME NEW h \in alone', h # g
        PROVE  Exact(h)'
    <3>1. h \in alone /\ runs'[h] = runs[h] /\ main' = main
      BY <1>5, <2>2 DEF Judge, TypeOK
    <3> QED
      BY <1>0, <3>1, Untouched
  <2>3. ASSUME g \in alone'
        PROVE  Exact(g)'
    <3>1. g \in alone /\ main' = main
      BY <1>5, <2>3 DEF Judge
    <3>2. \A s : Expected(g, s)' = Expected(g, s)
      BY <2>1, <3>1 DEF Expected
    <3>3. Green(runs'[g].seen) <=> Green(runs[g].seen)
      BY <2>1
    <3> QED
      BY <1>0, <2>1, <3>1, <3>2, <3>3 DEF Exact, Over, Verdicts
  <2>4. LastInv'
    BY <1>5, <2>1 DEF Judge, LastInv, TypeOK
  <2> QED
    BY <2>2, <2>3, <2>4 DEF AloneInv
<1>6. CASE UNCHANGED vars
  BY <1>6 DEF vars, AloneInv, LastInv, Exact, Expected, Over
<1> QED
  BY <1>1, <1>2, <1>3, <1>4, <1>5, <1>6 DEF Next

LEMMA InitInv == Init => IInv
BY InitType DEF Init, IInv, AloneInv, LastInv

LEMMA InvExact == IInv => LateVerdictIsExact
<1> SUFFICES ASSUME IInv, NEW g \in alone, Over(g)
             PROVE  runs[g].verdict = "green" <=> Green([main EXCEPT ![g[1]] = runs[g].commit])
  BY DEF LateVerdictIsExact
<1>1. g \in Groups /\ Exact(g)
  BY DEF IInv, TypeOK, AloneInv
<1>2. runs[g].seen = [main EXCEPT ![g[1]] = runs[g].commit]
  BY <1>1, ExactSeen DEF IInv
<1>3. runs[g].verdict = "green" <=> Green(runs[g].seen)
  BY <1>1 DEF Exact
<1> QED
  BY <1>2, <1>3

LEMMA InvQuiet == IInv => QuietMainIsJudged
<1> SUFFICES ASSUME IInv, lastPush # NoPush
             PROVE  LET g == <<lastPush, "main">>
                    IN /\ Active(g) \/ Over(g)
                       /\ Over(g) => (runs[g].verdict = "green" <=> Green(main))
  BY DEF QuietMainIsJudged
<1> DEFINE g == <<lastPush, "main">>
<1>1. g \in alone /\ g \in Groups /\ Exact(g) /\ runs[g].commit = main[lastPush]
  BY DEF IInv, TypeOK, AloneInv, LastInv
<1>2. Active(g) \/ Over(g)
  BY <1>1 DEF Exact, Active, Over, Verdicts
<1>3. [main EXCEPT ![g[1]] = runs[g].commit] = main
  BY <1>1 DEF IInv, TypeOK, Mains
<1>4. Over(g) => (runs[g].verdict = "green" <=> Green([main EXCEPT ![g[1]] = runs[g].commit]))
  BY <1>1, InvExact DEF LateVerdictIsExact
<1> QED
  BY <1>2, <1>3, <1>4

(***************************************************************************)
(* Runs that no push to another main overtook judged what stands.          *)
(***************************************************************************)
THEOREM LateVerdicts == Spec => []LateVerdictIsExact
<1> QED
  BY InitInv, NextKeeps, InvExact, PTL DEF Spec

(***************************************************************************)
(* Once the newest run of the repository pushed last is over, the mains    *)
(* have been judged as they are.                                           *)
(***************************************************************************)
THEOREM QuietMains == Spec => []QuietMainIsJudged
<1> QED
  BY InitInv, NextKeeps, InvQuiet, PTL DEF Spec

-------------------------------------------------------------------------------
(* What a green run says of the combination of commits it looked at: it is   *)
(* one that passes, and the checks, although they read names, spellings and *)
(* shapes of text, let pass only what is as it should be, under the         *)
(* conditions CrossStage names.                                             *)

GreenInv == \A g \in Groups : runs[g].verdict = "green" => runs[g].seen \in Passing

LEMMA StepKeepsGreen == TypeOK /\ GreenInv /\ [Next]_vars => GreenInv'
<1> SUFFICES ASSUME TypeOK, GreenInv, [Next]_vars, NEW g \in Groups, runs'[g].verdict = "green"
             PROVE  runs'[g].seen \in Passing
  BY DEF GreenInv
<1>0. DOMAIN runs = Groups
  BY DEF TypeOK
<1>1. ASSUME NEW r \in Roots, NEW c \in DOMAIN Tree[r], PushMain(r, c) \/ PushPull(r, c)
      PROVE  runs'[g] = runs[g]
  BY <1>0, <1>1 DEF PushMain, PushPull, NewRun
<1>2. CASE Dispatch
  BY <1>0, <1>2 DEF Dispatch, NewRun, GreenInv
<1>3. ASSUME NEW h \in Groups, Checkout(h)
      PROVE  runs'[g] = runs[g]
  BY <1>0, <1>3 DEF Checkout, Active
<1>4. ASSUME NEW h \in Groups, Judge(h)
      PROVE  runs'[g].seen \in Passing
  BY <1>0, <1>4 DEF Judge, Active, Green, GreenInv
<1>5. CASE UNCHANGED vars
  BY <1>5 DEF vars, GreenInv
<1> QED
  BY <1>1, <1>2, <1>3, <1>4, <1>5, CrossStageAssumption DEF Next, GreenInv

(***************************************************************************)
(* A green run looked at commits that pass the checks together: cancelled  *)
(* and restarted runs never keep a verdict of an earlier one.              *)
(***************************************************************************)
LEMMA GreenPasses == Spec => []GreenInv
<1>1. Init => GreenInv
  BY DEF Init, GreenInv, NoRun
<1> QED
  BY <1>1, StepKeepsGreen, TypeCorrect, PTL DEF Spec

LEMMA PassingIsChecked ==
  ASSUME NEW m \in Passing
  PROVE  /\ m \in Mains
         /\ CollectorsAgree(WorkflowOf(m), PlaybookOf(m))
         /\ Placeholders(FilesOf(m)) = {}
         /\ MissingGates(FilesOf(m)) = {}
BY DEF Passing, GatesPass

-------------------------------------------------------------------------------
LEMMA PassingIsWired == NoNamesakes => Passing \subseteq Wired
<1> SUFFICES ASSUME NoNamesakes, NEW m \in Passing,
                    NEW gate \in GatesIn(Read(FilesOf(m))), ~gate.pending
             PROVE  ReallyWired(FilesOf(m), gate)
  BY PassingIsChecked DEF Wired
<1>1. CalledOutsideTests(Read(FilesOf(m)), gate)
  BY PassingIsChecked DEF MissingGates
<1>2. PICK f \in FilesOf(m) : /\ f # gate.file /\ f.kind # "test"
                              /\ \E call \in f.calls : NamedLike(f, call, gate)
  BY <1>1 DEF CalledOutsideTests, Read
<1>3. PICK call \in f.calls : NamedLike(f, call, gate)
  BY <1>2
<1>4. call = <<PackageOf(gate.file), gate.name>>
  BY <1>3, PassingIsChecked DEF NoNamesakes, NamedLike, SeenPackage
<1> QED
  BY <1>2, <1>4 DEF ReallyWired

(***************************************************************************)
(* The wiring gate: if the names that calls are seen under tell gates'     *)
(* packages apart, the gates of what a green run looked at are called.     *)
(***************************************************************************)
THEOREM GreenWired == NoNamesakes => (Spec => []GreenMeansWired)
<1> SUFFICES ASSUME NoNamesakes PROVE Spec => []GreenMeansWired
  OBVIOUS
<1>1. GreenInv => GreenMeansWired
  BY PassingIsWired DEF GreenInv, GreenMeansWired
<1> QED
  BY <1>1, GreenPasses, PTL

-------------------------------------------------------------------------------
(* The check is compiled with a version that some commit's constant has. *)
LEMMA CompiledVersion ==
  ASSUME HasRuleset, NEW m \in Mains
  PROVE  RulesetVersion(FilesOf(m)) \in RulesetVersions
<1> DEFINE here == UNION {f.literals : f \in HomesOf(FilesOf(m))}
<1>1. here # {}
  BY DEF HasRuleset
<1>2. RulesetVersion(FilesOf(m)) \in here
  BY <1>1 DEF RulesetVersion
<1>3. FilesOf(m) \subseteq UNION {Tree[x[1]][x[2]].files : x \in Commits}
  <2>1. ASSUME NEW r \in Roots
        PROVE  Tree[r][m[r]].files \subseteq UNION {Tree[x[1]][x[2]].files : x \in Commits}
    <3>1. <<r, m[r]>> \in Commits
      BY DEF Commits, Mains
    <3> QED
      BY <3>1
  <2> QED
    BY <2>1 DEF FilesOf
<1>4. here \subseteq RulesetVersions
  BY <1>3 DEF RulesetVersions, HomesOf
<1> QED
  BY <1>2, <1>4

LEMMA PassingIsOneRuleset == HasRuleset /\ KeepsFamily => Passing \subseteq OneRuleset
<1> SUFFICES ASSUME HasRuleset, KeepsFamily, NEW m \in Passing, NEW f \in Read(FilesOf(m)),
                    f.kind # "test", ~f.rulesetHome, NEW v \in f.literals, v \in RulesetVersions
             PROVE  FALSE
  BY PassingIsChecked DEF OneRuleset
<1>1. RulesetVersion(FilesOf(m)) \in RulesetVersions
  BY PassingIsChecked, CompiledVersion
<1>2. LooksLikeRuleset(v, RulesetVersion(FilesOf(m)))
  BY <1>1 DEF LooksLikeRuleset, KeepsFamily
<1>3. f \in Placeholders(FilesOf(m))
  BY <1>2 DEF Placeholders
<1> QED
  BY <1>3, PassingIsChecked

(***************************************************************************)
(* The search for copies of the ruleset's version, which looks for the     *)
(* family of the one it is compiled with, misses none of the constant's    *)
(* values, past or to come, as long as they are of one family.             *)
(***************************************************************************)
THEOREM GreenOneRuleset == HasRuleset /\ KeepsFamily => (Spec => []GreenMeansOneRuleset)
<1> SUFFICES ASSUME HasRuleset, KeepsFamily PROVE Spec => []GreenMeansOneRuleset
  OBVIOUS
<1>1. GreenInv => GreenMeansOneRuleset
  BY PassingIsOneRuleset DEF GreenInv, GreenMeansOneRuleset
<1> QED
  BY <1>1, GreenPasses, PTL

-------------------------------------------------------------------------------
(* A line is part of the command that the first line from which everything is *)
(* continued up to it begins.                                                 *)
LEMMA EveryLineHasItsCommand ==
  ASSUME NEW w \in Seq(LinesOfText), NEW i \in DOMAIN w
  PROVE  \E s \in DOMAIN w : /\ s <= i /\ Continues(w, s, i)
                             /\ CommandAt(w, s) \in Commands(w)
<1> DEFINE S == {j \in DOMAIN w : j <= i /\ Continues(w, j, i)}
<1>1. S \subseteq Nat /\ i \in S
  BY DEF Continues
<1>2. PICK s \in S : \A j \in S : s <= j
  BY <1>1, LeastNumber
<1>3. s = 1 \/ ~w[s - 1].more
  <2> SUFFICES ASSUME s # 1, w[s - 1].more PROVE FALSE
    OBVIOUS
  <2>1. s - 1 \in DOMAIN w /\ s - 1 <= i
    BY <1>2
  <2>2. Continues(w, s - 1, i)
    BY <1>2, <2>1 DEF Continues
  <2> QED
    BY <1>2, <2>1, <2>2
<1>4. CommandAt(w, s) \in Commands(w)
  BY <1>2, <1>3 DEF Commands
<1> QED
  BY <1>2, <1>4

(* What the check counts as built, a command builds. *)
LEMMA BuiltIsBuilt ==
  ASSUME NEW w \in Seq(LinesOfText), NEW os, NEW name \in BuiltByOS(w, os)
  PROVE  \E command \in Commands(w) : BuiltBy(w, command, os, name)
<1>1. PICK l \in DOMAIN w : /\ name \in w[l].names
                            /\ \E i \in BuildSteps(w) : i <= l /\ w[i].os = os /\ Continues(w, i, l)
  BY DEF BuiltByOS
<1>2. PICK i \in BuildSteps(w) : i <= l /\ w[i].os = os /\ Continues(w, i, l)
  BY <1>1
<1>3. i \in DOMAIN w /\ w[i].build
  BY <1>2 DEF BuildSteps, Begins
<1>4. PICK s \in DOMAIN w : /\ s <= i /\ Continues(w, s, i)
                            /\ CommandAt(w, s) \in Commands(w)
  BY <1>3, EveryLineHasItsCommand
<1>5. Continues(w, s, l)
  BY <1>2, <1>3, <1>4 DEF Continues
<1>6. {i, l} \subseteq CommandAt(w, s)
  BY <1>1, <1>2, <1>3, <1>4, <1>5 DEF CommandAt
<1> QED
  BY <1>1, <1>2, <1>3, <1>4, <1>6 DEF BuiltBy

LEMMA PassingIsBundled == TextOK /\ OwnBySystem => Passing \subseteq Bundled
<1> SUFFICES ASSUME TextOK, OwnBySystem, NEW m \in Passing,
                    NEW os \in Systems, NEW name \in Copied(PlaybookOf(m), os)
             PROVE  \E command \in Commands(WorkflowOf(m)) :
                       BuiltBy(WorkflowOf(m), command, os, name)
  BY PassingIsChecked DEF Bundled
<1>1. m \in Mains /\ WorkflowOf(m) \in Seq(LinesOfText)
  BY PassingIsChecked DEF TextOK
<1>2. name \in ShippedByOS(PlaybookOf(m), os)
  BY <1>1 DEF Copied, ShippedByOS, OwnBySystem
<1>3. name \in BuiltByOS(WorkflowOf(m), os)
  BY <1>2, PassingIsChecked DEF CollectorsAgree, SymmetricDiff
<1> QED
  BY <1>1, <1>3, BuiltIsBuilt

(***************************************************************************)
(* The collector lists: of a release whose workflow and playbook the check *)
(* let pass together, what the playbook copies to a node is in the bundle  *)
(* of the node's system, as the shell reads the commands that build it.    *)
(***************************************************************************)
THEOREM GreenBundled == TextOK /\ OwnBySystem => (Spec => []GreenMeansBundled)
<1> SUFFICES ASSUME TextOK, OwnBySystem PROVE Spec => []GreenMeansBundled
  OBVIOUS
<1>1. GreenInv => GreenMeansBundled
  BY PassingIsBundled DEF GreenInv, GreenMeansBundled
<1> QED
  BY <1>1, GreenPasses, PTL
===============================================================================
