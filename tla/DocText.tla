------------------------------ MODULE DocText ------------------------------
(***************************************************************************)
(* What the document gate (tools/checkdocs/main.go) sees in the lines of a *)
(* document: code blocks, headings, sections, the outline it compares with *)
(* the translation's.                                                      *)
(*                                                                         *)
(* A line is a record: its kind (a head, an item, text, blank, a row of    *)
(* ticks or of tildes, or a span: text that begins with inline code in     *)
(* three backquotes), whether it is indented, and n: a heading's level,    *)
(* the length of a row of backquotes or tildes that begins the line, or of *)
(* one in the text.  info: the row is followed by a language's name.       *)
(* says: what the patterns look for in a line.                             *)
(***************************************************************************)
EXTENDS Integers, Sequences, FiniteSetsExt

(***************************************************************************)
(* Code blocks.  Two of the checks turn code on and off at any line that   *)
(* begins with three backquotes after spaces, the outline only at one that *)
(* begins with them at the margin.  A row of tildes is text to all three.  *)
(***************************************************************************)
Ticked(l)   == l.kind \in {"ticks", "span"}
AtMargin(l) == Ticked(l) /\ ~l.indent
WellFormed(l) == /\ l.kind \in {"ticks", "tildes"} => l.n \in Nat
                 /\ l.kind = "ticks" => l.n >= 3

Outside(ls, toggles) ==
  {n \in DOMAIN ls \ toggles : Cardinality({k \in toggles : k < n}) % 2 = 0}

Plain(ls)   == Outside(ls, {n \in DOMAIN ls : Ticked(ls[n])})
Counted(ls) == Outside(ls, {n \in DOMAIN ls : AtMargin(ls[n])})

Level(l)  == IF l.kind = "head" /\ ~l.indent THEN l.n ELSE 0
IsItem(l) == l.kind = "item" /\ ~l.indent

(***************************************************************************)
(* A section is empty if nothing stands between its heading and the next   *)
(* one, unless that one opens a subsection.                                *)
(***************************************************************************)
HeadsIn(ls) == {n \in Plain(ls) : Level(ls[n]) # 0}

\* Variant: the last section is not looked at.
EmptyButLast(ls) ==
  {n \in HeadsIn(ls) :
     LET next == Min({k \in HeadsIn(ls) : k > n} \cup {Len(ls) + 1})
     IN  /\ next \in HeadsIn(ls) /\ Level(ls[next]) <= Level(ls[n])
         /\ \A k \in n + 1 .. next - 1 : ls[k].kind = "blank"}

EmptySections(ls) ==
  {n \in HeadsIn(ls) :
     LET next == Min({k \in HeadsIn(ls) : k > n} \cup {Len(ls) + 1})
     IN  /\ next \in HeadsIn(ls) => Level(ls[next]) <= Level(ls[n])
         /\ \A k \in n + 1 .. next - 1 : ls[k].kind = "blank"}

(***************************************************************************)
(* Pairs of tildes are taken out from the left; one that is left over      *)
(* would open or close a strikethrough.                                    *)
(***************************************************************************)
\* Variant: rows of three are taken for fences and left alone.
TildesInText(ls) == {n \in Plain(ls) : ls[n].kind = "text" /\ ls[n].n % 2 = 1}
TildeRanges(ls) == {n \in Plain(ls) : ls[n].kind \in {"text", "tildes"} /\ ls[n].n % 2 = 1}

UnexplainedRefs(ls) ==
  LET refs == {n \in DOMAIN ls : "section" \in ls[n].says}
  IN  IF refs = {} \/ \E n \in DOMAIN ls : "notation" \in ls[n].says
      THEN {} ELSE {Min(refs)}

(***************************************************************************)
(* The outline of the lines a reader of seen sees: for the text before the *)
(* first section and for each section, its subsections and its items.      *)
(***************************************************************************)
Outline(ls, seen) ==
  LET opens      == {n \in seen : Level(ls[n]) = 2}
      section(n) == Cardinality({k \in opens : k <= n})
      In(i)      == {n \in seen : section(n) = i}
  IN  [i \in 0 .. Cardinality(opens) |->
         [subs  |-> Cardinality({n \in In(i) : Level(ls[n]) = 3}),
          items |-> Cardinality({n \in In(i) : IsItem(ls[n])})]]

Skeleton(ls) == Outline(ls, Counted(ls))

-------------------------------------------------------------------------------
(***************************************************************************)
(* The reader's view, as Markdown is rendered: a row of three or more      *)
(* backquotes or tildes opens a block, and only a row of the same          *)
(* character, at least as long and with nothing after it, closes it.       *)
(***************************************************************************)
Closed == [kind |-> "none", n |-> 0]
IsRow(l) == l.kind \in {"ticks", "tildes"} /\ l.n >= 3
Closes(l, open) == IsRow(l) /\ l.kind = open.kind /\ l.n >= open.n /\ ~l.info

OpenBefore(ls) ==
  LET open[n \in 1 .. Len(ls) + 1] ==
        IF n = 1 THEN Closed
        ELSE LET was == open[n - 1]  l == ls[n - 1]
             IN  IF was = Closed THEN IF IsRow(l) THEN [kind |-> l.kind, n |-> l.n] ELSE Closed
                 ELSE IF Closes(l, was) THEN Closed ELSE was
  IN  open

Rendered(ls) ==
  LET open == OpenBefore(ls) IN {n \in DOMAIN ls : open[n] = Closed /\ ~IsRow(ls[n])}

(* A section a reader finds empty, with all its subsections. *)
RenderedEmpty(ls) ==
  {n \in Rendered(ls) :
     /\ Level(ls[n]) # 0
     /\ LET ends == {k \in Rendered(ls) : k > n /\ Level(ls[k]) \in 1 .. Level(ls[n])}
        IN  \A k \in n + 1 .. Min(ends \cup {Len(ls) + 1}) - 1 : ls[k].kind = "blank"}

(***************************************************************************)
(* The fences that do not turn on and off: longer ones with shorter ones   *)
(* in them, a row with a language's name inside a block, text that begins  *)
(* with inline code in three backquotes, which is no fence, and rows of an *)
(* even number of tildes, which no check notices.                          *)
(***************************************************************************)
OddFences(ls) ==
  \/ \E n \in DOMAIN ls : ls[n].kind = "span" \/ (Ticked(ls[n]) /\ ls[n].n > 3)
  \/ \E n \in DOMAIN ls : Ticked(ls[n]) /\ ls[n].info
                          /\ Cardinality({k \in 1 .. n - 1 : Ticked(ls[k])}) % 2 = 1
  \/ \E n \in DOMAIN ls : ls[n].kind = "tildes" /\ ls[n].n % 2 = 0
===============================================================================
