---------------------------- MODULE CollectorLists ----------------------------
(***************************************************************************)
(* tools/checkcollectors: the collectors that the release workflow builds  *)
(* for the nodes of a system, against those that the discovery playbook    *)
(* copies to them.                                                         *)
(*                                                                         *)
(* The workflow is text to the check: a sequence of lines, each with       *)
(*    os     the system after GOOS=, or "none"                             *)
(*    build  it says "go build", after GOOS if it has one                  *)
(*    names  the collectors whose import path it spells                    *)
(*    more   it ends with a backslash                                      *)
(* The playbook is a set of tasks [when, items], an item [name, own], the  *)
(* name without .exe and own if it begins with "pqcota-".                  *)
(* Two commands on one line and builds in a comment, which the check takes *)
(* for commands, are left out.                                             *)
(***************************************************************************)
EXTENDS Naturals, Sequences

CONSTANT Systems  \* "linux", "windows"

Begins(w, i) == w[i].os # "none" /\ w[i].build
Continues(w, i, k) == \A j \in i .. k - 1 : w[j].more

(* A build begins where GOOS and "go build" are on one line and reaches to the *)
(* line that is not continued; no other begins in between.                     *)
BuildSteps(w) ==
  {i \in DOMAIN w : Begins(w, i) /\ \A j \in 1 .. i - 1 : ~(Begins(w, j) /\ Continues(w, j, i))}

BuiltByOS(w, os) ==
  UNION {w[k].names : k \in {l \in DOMAIN w : \E i \in BuildSteps(w) :
                               i <= l /\ w[i].os = os /\ Continues(w, i, l)}}

(* A task that is for Windows, or for all but Windows; others are not read. *)
WhenOf(os) == IF os = "windows" THEN "Windows" ELSE "not Windows"
ShippedByOS(p, os) ==
  {item.name : item \in {i \in UNION {t.items : t \in {u \in p : u.when = WhenOf(os)}} : i.own}}

(* Mutant: one way only. *)
Unshipped(built, shipped) == built \ shipped
SymmetricDiff(built, shipped) == (built \ shipped) \cup (shipped \ built)

(* The lists must agree and not be empty: an empty one means that the check no *)
(* longer finds them.                                                          *)
CollectorsAgree(w, p) ==
  \A os \in Systems :
     LET built   == BuiltByOS(w, os)
         shipped == ShippedByOS(p, os)
     IN  built # {} /\ shipped # {} /\ SymmetricDiff(built, shipped) = {}

-------------------------------------------------------------------------------
(* What the shell and Ansible make of the two: a command is a line with those  *)
(* that continue it, and a task without a condition is for every system.       *)
CommandAt(w, i) == {k \in i .. Len(w) : Continues(w, i, k)}
Commands(w) == {CommandAt(w, i) : i \in {j \in DOMAIN w : j = 1 \/ ~w[j - 1].more}}

BuiltBy(w, command, os, name) ==
  /\ \E k \in command : w[k].os = os
  /\ \E k \in command : w[k].build
  /\ \E k \in command : name \in w[k].names

Copied(p, os) ==
  {item.name : item \in {i \in UNION {t.items : t \in {u \in p : u.when \in {WhenOf(os), "always"}}} : i.own}}
===============================================================================
