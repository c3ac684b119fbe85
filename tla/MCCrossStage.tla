----------------------------- MODULE MCCrossStage -----------------------------
(* Four repositories whose commits fit together in some combinations only. *)
EXTENDS CrossStage, TLC

C(repo, prefix, area) == [repo |-> repo, prefix |-> prefix, area |-> area]
MCClasses == <<
  C("any", <<"test", "crossstage">>, "crossstage"), C("any", <<"pkg", "inventory">>, "inventory"),
  C("any", <<"pkg", "kernel">>, "common"), C("discovery", <<"cmd">>, "discovery"),
  C("inventory", <<"cmd">>, "inventory"), C("any", <<"collectors">>, "collector")>>

Stages == {"common", "collector", "discovery", "inventory"}

MCAllow == [a \in Stages \cup {"crossstage"} |->
  CASE a = "common" -> {"common"}
    [] a = "collector" -> {"common", "collector"}
    [] a = "discovery" -> {"common", "discovery", "collector", "inventory"}
    [] a = "inventory" -> {"common", "inventory"}
    [] a = "crossstage" -> Stages \cup {"crossstage"}]

Sign == <<"common", <<"pkg", "kernel", "sign">>>>
Unit == <<"common", <<"pkg", "kernel", "unit">>>>
Store == <<"inventory", <<"pkg", "inventory">>>>
Normalize == <<"inventory", <<"pkg", "inventory", "normalize">>>>
Netcap == <<"discovery", <<"collectors", "network">>>>
Cmd == <<"discovery", <<"cmd", "pqcota-nodescan">>>>
Crossstage == <<"pqcota", <<"test", "crossstage">>>>

F(p, pkg, kind, imports, gates, calls) ==
  [repo |-> p[1], dir |-> p[2], pkg |-> pkg, kind |-> kind, imports |-> imports,
   gates |-> gates, calls |-> calls, literals |-> {}, rulesetHome |-> FALSE]

Gate(n) == [name |-> n, pending |-> FALSE]
At(files, workflow, playbook) == [files |-> files, workflow |-> workflow, playbook |-> playbook]

(* release.yml: the node bundle of Linux over several lines, the controller's  *)
(* with no name spelled, the one of Windows; discover.yml: a task per system   *)
(* and one for all.                                                            *)
L(os, build, names, more) == [os |-> os, build |-> build, names |-> names, more |-> more]
Release ==
  <<L("linux", TRUE, {}, TRUE), L("none", FALSE, {"netcap"}, TRUE), L("none", FALSE, {"jvmscan"}, FALSE),
    L("linux", TRUE, {}, TRUE), L("none", FALSE, {}, FALSE),
    L("windows", TRUE, {}, TRUE), L("none", FALSE, {"cngscan"}, FALSE)>>
(* Someone forgot a backslash. *)
Torn == [Release EXCEPT ![2].more = FALSE]
Item(name, own) == [name |-> name, own |-> own]
Play(names) ==
  {[when |-> "not Windows", items |-> {Item(n, TRUE) : n \in names}],
   [when |-> "Windows", items |-> {Item("cngscan", TRUE)}],
   [when |-> "always", items |-> {Item("collector.jar", FALSE)}]}

V(n) == <<"pqcota-enrich", "/", n>>

Test == [F(Crossstage, "crossstage", "test", {Store}, {}, {}) EXCEPT !.literals = {V("v1")}]
Gated == F(Sign, "sign", "code", {}, {Gate("VerifyFrom")}, {})
Home(v) == [F(Normalize, "normalize", "code", {}, {}, {}) EXCEPT !.literals = {v}, !.rulesetHome = TRUE]
Calls == {<<Sign, "VerifyFrom">>}
OtherCalls == {<<<<"std", <<"crypto", "ed25519">>>>, "VerifyFrom">>}
Collector == F(Netcap, "network", "code", {}, {}, {})
Caller == F(Cmd, "main", "code", {Sign, Store}, {}, Calls)

(* The integration repository builds one more collector at 1; inventory       *)
(* stops calling the gate, uses a package that common has from 1 on and       *)
(* raises the ruleset's version at 1; discovery calls the gate and deploys    *)
(* that collector at 1, at 2 its collector imports the inventory, at 3 it     *)
(* calls the gate and spells a version of the ruleset.                        *)
MCTree ==
  ("pqcota" :> (0 :> At({Test}, Torn, {}) @@ 1 :> At({Test}, Release, {})))
  @@ ("common" :> (0 :> At({Gated}, <<>>, {})
                @@ 1 :> At({Gated, F(Unit, "unit", "code", {}, {}, {})}, <<>>, {})))
  @@ ("inventory" :> (0 :> At({Home(V("v1")), F(Store, "inventory", "code", {Sign}, {}, Calls)}, <<>>, {})
                   @@ 1 :> At({Home(V("v2")), F(Store, "inventory", "code", {Unit}, {}, OtherCalls)}, <<>>, {})))
  @@ ("discovery" :> (0 :> At({Collector}, <<>>, Play({"netcap"}))
                   @@ 1 :> At({Collector, Caller}, <<>>, Play({"netcap", "jvmscan"}))
                   @@ 2 :> At({[Collector EXCEPT !.imports = {Store}], Caller}, <<>>, Play({"netcap", "jvmscan"}))
                   @@ 3 :> At({[Collector EXCEPT !.literals = {V("v1")}], Caller}, <<>>, Play({"netcap"}))))

MCOrder == <<"pqcota", "common", "inventory", "discovery">>
(* What GreenMeansWired, GreenMeansOneRuleset and GreenMeansBundled rest on. *)
ASSUME TreeIsReadable == NoNamesakes /\ HasRuleset /\ KeepsFamily /\ TextOK /\ OwnBySystem

MCFirstMain == [r \in {"pqcota", "common", "inventory", "discovery"} |-> 0]
===============================================================================
