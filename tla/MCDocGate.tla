----------------------------- MODULE MCDocGate -----------------------------
(***************************************************************************)
(* A guide and its translation, a page they link to, the table of          *)
(* licences, release notes and a script.                                   *)
(***************************************************************************)
EXTENDS DocGate

Line(kind, n) == [kind |-> kind, n |-> n, indent |-> FALSE, info |-> FALSE,
                  name |-> "", ids |-> {}, links |-> {}, says |-> {}]
Text == Line("text", 0)
Says(what) == [Text EXCEPT !.says = {what}]
Gives(anchor) == [Text EXCEPT !.ids = {anchor}]
Link(to, at) == [Text EXCEPT !.links = {[to |-> to, at |-> at]}]
Heading(n, name) == [Line("head", n) EXCEPT !.name = name]
Item == Line("item", 0)
Fence == Line("ticks", 3)
Indent == [Fence EXCEPT !.indent = TRUE]
Named == [Fence EXCEPT !.info = TRUE]

Slugs == [x \in {"", "Use", "use", "Id", "id"} |-> CASE x = "Use" -> "use" [] x = "Id" -> "id" [] OTHER -> x]

Repository == [p \in {"guide.md", "guide.ko.md", "page.md", "licensing.md", "notes.md", "up.sh"} |->
  CASE p = "guide.md"     -> <<Heading(2, "Use"), Link("page.md", "use"), Heading(3, "Use"), Item>>
    [] p = "guide.ko.md"  -> <<Heading(2, "Use"), Heading(3, "Use"), Item>>
    [] p = "page.md"      -> <<Heading(2, "Use"), Text>>
    [] p = "licensing.md" -> <<[Text EXCEPT !.says = {"m1", "v1"}], [Text EXCEPT !.says = {"m2", "v2"}]>>
    [] p = "notes.md"     -> <<Says("1.25.1")>>
    [] p = "up.sh"        -> <<Text>>]

Translations == [p \in {"guide.ko.md"} |-> "guide.md"]

Structure == {Heading(2, "Use"), Item, Line("blank", 0), Text, Fence, Indent, Named,
              Line("ticks", 4), Line("span", 0), Line("tildes", 3), Line("tildes", 4)}
Lines == [p \in DOMAIN Repository |->
  CASE p = "guide.md"     -> Structure \cup {Heading(3, "Use"), Link("Elsewhere", ""), Gives("id")}
    [] p = "guide.ko.md"  -> {Line("blank", 0), Item, Fence, Indent, Line("tildes", 3)}
    [] p = "page.md"      -> {Fence, Heading(3, "Use"), Gives("Id"), Link("guide.md", "Id"), Says("section"), Says("1.25.1")}
    [] p = "licensing.md" -> {[Text EXCEPT !.says = {"m1", "v2"}], [Text EXCEPT !.says = {"m2", "v3"}]}
    [] p = "notes.md"     -> {Says("1.26.4"), Link("page.md", "Id")}
    [] p = "up.sh"        -> {Says("name"), Says("placeholder")}]

World == [go |-> "1.26.4", toolchain |-> "1.26.10", linked |-> {<<"m1", "v1">>, <<"m2", "v2">>},
          listed |-> TRUE, untracked |-> {}]
SomeWorlds == {World, [World EXCEPT !.listed = FALSE],
               [World EXCEPT !.listed = FALSE, !.linked = {<<"m1", "v3">>}],
               [World EXCEPT !.linked = {<<"m1", "v2">>, <<"m2", "v2">>}, !.go = "1.25.1"],
               [World EXCEPT !.untracked = {"page.md"}], [World EXCEPT !.untracked = {"guide.md"}]}
===============================================================================
