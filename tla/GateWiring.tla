------------------------------ MODULE GateWiring ------------------------------
(***************************************************************************)
(* tools/checkgates: which functions marked GATE have no caller outside    *)
(* tests, and which files spell a ruleset version instead of using the     *)
(* constant.                                                               *)
(*                                                                         *)
(* The check reads syntax: a call is a name, or a name after the name of   *)
(* an import.  Here a call <<p, fn>> says what it resolves to, and         *)
(* NamedLike what the check makes of it.  Methods, shadowed names and the  *)
(* wording of the report are left out; in a file that declares two gates   *)
(* each is listed.                                                         *)
(***************************************************************************)
EXTENDS GoFiles

(* Every file the gate reads: no generated code, nothing under testdata. *)
Read(files) ==
  {f \in files : ~Under(f.dir, <<"gen">>) /\ ~InTestdata(f)}

(* The marked functions, with the file and the package name they are in. *)
GatesIn(files) ==
  UNION {{[name |-> g.name, pending |-> g.pending, pkg |-> f.pkg, file |-> f] : g \in f.gates} :
         f \in files}

Base(p) == p[2][Len(p[2])]

(* Mutant: names only. *)
NamedAtAll(f, call, g) == call[2] = g.name

(* An unqualified call is taken by the file's package name, a qualified one by *)
(* the last segment of the import path (an alias is resolved to it).           *)
NamedLike(f, call, g) ==
  /\ call[2] = g.name
  /\ g.pkg = IF call[1] = PackageOf(f) THEN f.pkg ELSE Base(call[1])

CalledOutsideTests(files, g) ==
  \E f \in files :
     /\ f # g.file /\ f.kind # "test"
     /\ \E c \in f.calls : NamedLike(f, c, g)

(* Pending gates are listed, not demanded. *)
MissingGates(files) ==
  {g \in GatesIn(Read(files)) :
     ~g.pending /\ ~CalledOutsideTests(Read(files), g)}

-------------------------------------------------------------------------------
(* The constant as the check is compiled with it, and what is of its family:   *)
(* all that agrees with it up to its last slash.                               *)
HomesOf(files)        == {f \in files : f.rulesetHome}
RulesetVersion(files) == CHOOSE v \in UNION {f.literals : f \in HomesOf(files)} : TRUE

RulesetFamily(version) ==
  LET slashes == {i \in DOMAIN version : version[i] = "/"}
  IN  IF slashes = {} THEN <<>>
      ELSE SubSeq(version, 1, CHOOSE i \in slashes : \A j \in slashes : j <= i)

(* Mutant: the present value only. *)
LooksLikeNow(v, version) == v = version

LooksLikeRuleset(v, version) ==
  \/ v = version
  \/ RulesetFamily(version) # <<>> /\ Under(v, RulesetFamily(version))
  \/ Len(v) > 1 /\ v[1] = "ruleset" /\ v[2] \in {"-", "_", "/"}

(* The constant's home file, and tests, may spell the version. *)
Placeholders(files) ==
  LET version == RulesetVersion(files)
  IN  {f \in Read(files) : /\ ~f.rulesetHome /\ f.kind # "test"
                           /\ \E v \in f.literals : LooksLikeRuleset(v, version)}

GatesPass(files) == Placeholders(files) = {} /\ MissingGates(files) = {}

(* What the mark is for: somewhere in the product that very function is called. *)
ReallyWired(files, g) ==
  \E f \in files :
     /\ f # g.file /\ f.kind # "test"
     /\ <<PackageOf(g.file), g.name>> \in f.calls
===============================================================================
