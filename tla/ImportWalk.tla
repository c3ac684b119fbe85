------------------------------ MODULE ImportWalk ------------------------------
(***************************************************************************)
(* The import gate on one set of checked-out repositories, and what a      *)
(* command built from it links.                                            *)
(*                                                                         *)
(* checkdeps goes through its roots one after the other and adds up what   *)
(* it finds; the build links the command's package, then whatever a linked *)
(* package imports, and so on.  The gate looks at direct imports only.     *)
(***************************************************************************)
EXTENDS ImportRules, FiniteSets

CONSTANTS
  Roots,       \* repositories given to checkdeps (all that go.mod replaces)
  Workspaces,  \* sets of tracked files that may be checked out
  Commands     \* packages that are built into a binary

VARIABLES
  files,    \* what is checked out
  left,     \* roots still to be checked
  bad,      \* violations so far
  verdict,  \* "none", "passed", "failed"
  command,  \* package being built, or none yet
  linked    \* packages in the binary

vars == <<files, left, bad, verdict, command, linked>>

Packages == {PackageOf(f) : f \in files}
NoCommand == <<>>

(* Packages the compiled files of package p import. *)
Imports(p) ==
  UNION {f.imports : f \in {g \in files : PackageOf(g) = p /\ g.kind # "test"}}

InTestdataDir(p) == \E i \in DOMAIN p[2] : p[2][i] = "testdata"

(***************************************************************************)
(* The repositories checked out are the roots, and nothing imports a       *)
(* testdata directory: the gate does not look into those.                  *)
(***************************************************************************)
Measured(ws) ==
  \A f \in ws : f.repo \in Roots /\ \A p \in f.imports : ~InTestdataDir(p)

ASSUME ImportWalkAssumption == \A c \in Commands : ~InTestdataDir(c)

(* Every area may import what the areas it may import may import. *)
AllowIsClosed == \A a \in Areas : \A b \in Allow[a] : Allow[b] \subseteq Allow[a]

(* The type, and that a verdict is about all roots. *)
TypeOK ==
  /\ left \subseteq Roots
  /\ bad \subseteq files
  /\ verdict \in {"none", "passed", "failed"}
  /\ verdict # "none" => left = {}
  /\ command \in Commands \cup {NoCommand}
  /\ linked \subseteq Packages \cup UNION {f.imports : f \in files}

Init ==
  /\ files \in {ws \in Workspaces : Measured(ws)}
  /\ left = Roots
  /\ bad = {}
  /\ verdict = "none"
  /\ command = NoCommand
  /\ linked = {}

InRoot(r) == {f \in files : f.repo = r}

CheckRoot(r) ==
  /\ r \in left
  /\ left' = left \ {r}
  /\ bad' = bad \cup ImportViolations(InRoot(r), Roots)
  /\ UNCHANGED <<files, verdict, command, linked>>

Exit ==
  /\ left = {} /\ verdict = "none"
  /\ verdict' = IF bad = {} THEN "passed" ELSE "failed"
  /\ UNCHANGED <<files, left, bad, command, linked>>

(* The commands are built after the gate. *)
Build(c) ==
  /\ verdict = "passed" /\ command = NoCommand
  /\ c \in Packages
  /\ command' = c
  /\ linked' = {c}
  /\ UNCHANGED <<files, left, bad, verdict>>

Link(p) ==
  /\ p \in linked
  /\ ~(Imports(p) \subseteq linked)
  /\ linked' = linked \cup Imports(p)
  /\ UNCHANGED <<files, left, bad, verdict, command>>

Next ==
  \/ \E r \in Roots : CheckRoot(r)
  \/ Exit
  \/ \E c \in Commands : Build(c)
  \/ \E p \in linked : Link(p)

Spec == Init /\ [][Next]_vars

(***************************************************************************)
(* A binary built from repositories that passed holds packages only of the *)
(* areas that its command's area may import: a collector carries common,   *)
(* procs and collector packages, however long the chain of imports.  The   *)
(* gate looks at single imports, so this rests on AllowIsClosed, which     *)
(* rules.tsv satisfies and nothing checks.                                 *)
(***************************************************************************)
LinkedIsAllowed ==
  \A p \in linked :
     p[1] \in Roots =>
        /\ AreaIn(p) # NoArea
        /\ p = command \/ AreaIn(p) \in Allow[AreaIn(command)]
===============================================================================
