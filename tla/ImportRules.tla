------------------------------ MODULE ImportRules ------------------------------
(***************************************************************************)
(* tools/checkdeps: which area a package belongs to, and which imports     *)
(* between areas the rules allow.                                          *)
(*                                                                         *)
(* Classes is the list of class lines of rules.tsv as loadConfig sorts     *)
(* them, Allow and Bare are its other lines.  Violations of one file are a *)
(* set; their wording, and that an unclassified directory is reported      *)
(* once, is left out: an exit code is all the callers see.                 *)
(***************************************************************************)
EXTENDS GoFiles

CONSTANTS
  Classes,   \* sequence of [repo, prefix, area], sorted; repo may be AnyRepo
  AnyRepo,   \* a class line without a repository
  Allow,     \* area |-> the areas it may import
  Bare,      \* areas that hold doc.go and tests only
  NoArea     \* what an unclassified package is in

Areas == {Classes[i].area : i \in DOMAIN Classes}

(* loadConfig's last checks: allow lines and classes cover each other. *)
ConfigAccepted ==
  /\ DOMAIN Allow = Areas
  /\ \A a \in Areas : Allow[a] \subseteq Areas
  /\ Bare \subseteq Areas

(***************************************************************************)
(* The order of the class lines: longest prefix first; of equally long     *)
(* ones, those limited to a repository.                                    *)
(***************************************************************************)
Precedes(c, d) ==
  \/ Len(c.prefix) > Len(d.prefix)
  \/ /\ Len(c.prefix) = Len(d.prefix)
     /\ c.repo # AnyRepo /\ d.repo = AnyRepo

ClassesAreSorted ==
  \A i, j \in DOMAIN Classes : i < j => ~Precedes(Classes[j], Classes[i])

ASSUME ImportRulesAssumption ==
  /\ DOMAIN Classes \subseteq Nat
  /\ ClassesAreSorted
  /\ ConfigAccepted
  /\ NoArea \notin Areas

(* The first class line that matches decides. *)
Hits(p) ==
  {i \in DOMAIN Classes : /\ Under(p[2], Classes[i].prefix)
                          /\ Classes[i].repo \in {AnyRepo, p[1]}}

FirstHit(p) == CHOOSE i \in Hits(p) : \A j \in Hits(p) : i <= j

AreaIn(p) == IF Hits(p) = {} THEN NoArea ELSE Classes[FirstHit(p)].area

(* An import is judged by the area of the importing file. *)
ImportAllowed(area, p) == AreaIn(p) # NoArea /\ AreaIn(p) \in Allow[area]

(* relOf: an import of a repository that is not one of the roots is not measured. *)
Internal(p, roots) == p[1] \in roots

(* Mutant: the importing repository's own class lines for every import. *)
FileViolatesByPath(f, roots) ==
  LET area == AreaIn(PackageOf(f))
  IN /\ ~InTestdata(f)
     /\ \/ area = NoArea
        \/ area \in Bare /\ f.kind = "code"
        \/ area \in Bare /\ f.kind = "doc" /\ (f.declares \/ ~f.documented)
        \/ \E p \in f.imports :
              Internal(p, roots) /\ ~ImportAllowed(area, <<f.repo, p[2]>>)

FileViolates(f, roots) ==
  LET area == AreaIn(PackageOf(f))
  IN /\ ~InTestdata(f)
     /\ \/ area = NoArea
        \/ area \in Bare /\ f.kind = "code"
        \/ area \in Bare /\ f.kind = "doc" /\ (f.declares \/ ~f.documented)
        \/ \E p \in f.imports : Internal(p, roots) /\ ~ImportAllowed(area, p)

ImportViolations(files, roots) == {f \in files : FileViolates(f, roots)}
===============================================================================
