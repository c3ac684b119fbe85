---------------------------- MODULE MCImportWalk ----------------------------
(* The rules of tools/checkdeps/rules.tsv on workspaces of one package per area. *)
EXTENDS ImportWalk

C(repo, prefix, area) == [repo |-> repo, prefix |-> prefix, area |-> area]

MCClasses == <<
  C("any", <<"pkg", "discovery", "procs">>, "procs"),
  C("any", <<"pkg", "kernel">>, "common"),
  C("any", <<"pkg", "org">>, "common"),
  C("any", <<"pkg", "discovery">>, "discovery"),
  C("any", <<"pkg", "inventory">>, "inventory"),
  C("any", <<"pkg", "provisioning">>, "provisioning"),
  C("any", <<"test", "crossstage">>, "crossstage"),
  C("common", <<"cmd">>, "common"),
  C("discovery", <<"cmd">>, "discovery"),
  C("inventory", <<"cmd">>, "inventory"),
  C("provisioning", <<"cmd">>, "provisioning"),
  C("any", <<"gen">>, "common"),
  C("any", <<"collectors">>, "collector"),
  C("any", <<"tools">>, "leaf"),
  C("any", <<"demo">>, "leaf") >>

Stages == {"common", "procs", "collector", "discovery", "inventory", "provisioning"}

MCAllow == [a \in Stages \cup {"crossstage", "leaf"} |->
  CASE a = "common" -> {"common"}
    [] a = "procs" -> {"common", "procs"}
    [] a = "collector" -> {"common", "collector", "procs"}
    [] a = "discovery" -> {"common", "discovery", "collector", "procs", "inventory"}
    [] a = "inventory" -> {"common", "inventory"}
    [] a = "provisioning" -> {"common", "inventory", "provisioning"}
    [] a = "crossstage" -> Stages \cup {"crossstage", "leaf"}
    [] a = "leaf" -> Stages \cup {"leaf"}]

(* The present table is closed, which the property rests on. *)
ASSUME TableIsClosed == AllowIsClosed

Pkg == {<<"common", <<"pkg", "kernel">>>>, <<"discovery", <<"pkg", "discovery", "procs">>>>,
        <<"discovery", <<"collectors", "network">>>>, <<"discovery", <<"cmd", "pqcota-netcap">>>>,
        <<"inventory", <<"cmd", "pqcota-ingest">>>>}

F(p, kind, imports) == [repo |-> p[1], dir |-> p[2], kind |-> kind, imports |-> imports,
                        declares |-> kind # "doc" \/ imports # {}, documented |-> kind = "doc"]

Tree(edges) == {F(p, "code", {e[2] : e \in {d \in edges : d[1] = p}}) : p \in Pkg}

Edges == {e \in Pkg \X Pkg : e[1] # e[2]}

(* Go refuses a cycle of imports. *)
Acyclic(es) ==
  /\ \A d, e \in es : d[2] = e[1] => d[1] # e[2]
  /\ \A d, e, f \in es : d[2] = e[1] /\ e[2] = f[1] => f[2] # d[1]

(* Files of the kinds that are not a stage's code, one at a time. *)
Provision == <<"provisioning", <<"cmd", "pqcota-provision">>>>
Extra == {
  F(<<"pqcota", <<"test", "crossstage">>>>, "test", {Provision}),
  F(<<"pqcota", <<"test", "crossstage">>>>, "code", {}),
  F(<<"pqcota", <<"test", "crossstage">>>>, "doc", {Provision}),
  F(<<"pqcota", <<"test", "crossstage">>>>, "doc", {}),
  [F(<<"pqcota", <<"test", "crossstage">>>>, "doc", {}) EXCEPT !.documented = FALSE],
  [F(<<"pqcota", <<"test", "crossstage">>>>, "doc", {}) EXCEPT !.declares = TRUE],
  F(<<"pqcota", <<"tools", "checkdeps", "testdata", "x">>>>, "code", {Provision}),
  F(<<"inventory", <<"internal">>>>, "code", {}),
  F(<<"discovery", <<"collectors", "network">>>>, "test", {<<"other", <<"lib">>>>}),
  F(<<"discovery", <<"collectors", "network">>>>, "test", {Provision})}

MCWorkspaces ==
  {Tree(es) : es \in {us \in {{a, b, c} : a, b, c \in Edges} : Acyclic(us)}}
    \cup {Tree({e}) \cup {x} : e \in Edges, x \in Extra}

MCCommands == {p \in Pkg : p[2][1] = "cmd"} \cup {<<"discovery", <<"collectors", "network">>>>}
==============================================================================
