------------------------------ MODULE DocGate ------------------------------
(***************************************************************************)
(* The document gate (tools/checkdocs/main.go, make check-docs) over the   *)
(* files of one repository, while its documents are edited and the world   *)
(* they describe moves on: go.mod, the modules the commands link, whether  *)
(* go list can name them, and which files git knows.                       *)
(*                                                                         *)
(* Patterns over the wording of a line are what "says" holds.              *)
(***************************************************************************)
EXTENDS DocText, TLC

CONSTANTS
  Scripts,    \* paths measured for their wording only
  Original,   \* of a Korean document, its English one
  Notes,      \* the release notes
  Licences,   \* docs/licensing.md
  Slug,       \* of a name, its anchor
  Worlds,     \* [go, toolchain : version, linked : SUBSET (module \X version),
              \*  listed : BOOLEAN, untracked : SUBSET paths]
  Now,        \* the one to begin with
  Start,      \* the files to begin with, by path
  Shapes,     \* by path: the lines an edit may write
  Absent,     \* no such file, nor one that git lists
  Missing,    \* a file git lists that is not on the disk
  Elsewhere,  \* a link that is not followed: a URL, or an anchor of the page itself
  MaxChanges    \* bound: edits and moves of the world

ASSUME DocGateAssumption ==
  /\ DOMAIN Shapes = DOMAIN Start
  /\ DOMAIN Original \subseteq DOMAIN Start /\ Licences \in DOMAIN Start
  /\ Now \in Worlds /\ MaxChanges \in Nat
  /\ \A w \in Worlds : w = [go |-> w.go, toolchain |-> w.toolchain, linked |-> w.linked,
                            listed |-> w.listed, untracked |-> w.untracked]

(* The lines there may be.  What begins with backquotes and is shorter than *)
(* three of them is text.                                                   *)
LinesOf(d) == Shapes[d] \cup {Start[d][n] : n \in DOMAIN Start[d]}
ASSUME LinesAreRead ==
  \A d \in DOMAIN Start : Start[d] \in Seq(LinesOf(d)) /\ \A l \in LinesOf(d) : WellFormed(l)

VARIABLES docs, world, changes, verdict
vars == <<docs, world, changes, verdict>>

(***************************************************************************)
(* A checkout: the files on the disk and the world around them.  Git lists *)
(* what it knows, on the disk or not; of a file it lists that is gone the  *)
(* gate cannot read a line, and fails.                                     *)
(***************************************************************************)
Here == [files |-> docs, world |-> world]
Paths == DOMAIN Start

OnDisk(c)  == {d \in Paths : c.files[d] \notin {Absent, Missing}}
Tracked(c) == {d \in Paths \ c.world.untracked : c.files[d] # Absent}
Unreadable(c) == Tracked(c) \ OnDisk(c)
Documents(c)  == Tracked(c) \ Scripts

(***************************************************************************)
(* Links.  Headings are looked for in the whole text, code included; an    *)
(* anchor a document gives itself is taken as it is written.  A target     *)
(* need only be there on disk.                                             *)
(***************************************************************************)
Anchors(c, d) ==
  LET ls == c.files[d] IN
  {Slug[l.name] : l \in {ls[n] : n \in {k \in DOMAIN ls : Level(ls[k]) # 0}}}
  \cup UNION {ls[n].ids : n \in DOMAIN ls}

\* Variant: an anchor of any file will do.
AnyAnchor(c, link) ==
  \/ link.to \notin OnDisk(c)
  \/ link.at # "" /\ link.to \in Documents(c) /\ Slug[link.at] \notin UNION {Anchors(c, d) : d \in OnDisk(c)}

Misses(c, link) ==
  \/ link.to \notin OnDisk(c)
  \/ link.at # "" /\ link.to \in Documents(c) /\ Slug[link.at] \notin Anchors(c, link.to)

Places(c, files) == UNION {{d} \X DOMAIN c.files[d] : d \in files}
LineAt(c, at) == c.files[at[1]][at[2]]

BrokenLinks(c) ==
  {at \in Places(c, Documents(c)) :
     \E link \in LineAt(c, at).links : link.to # Elsewhere /\ Misses(c, link)}

(* Wording that a line of a document or a script may not have.  A path or  *)
(* an account with a name in it is private unless all the names on the     *)
(* line are placeholders; the author's machine always is.                  *)
Forbidden == {"scope", "role", "imprecise"}
IsPrivate(l) == l.says \cap {"name", "this machine"} # {}
Wording(c) ==
  {at \in Places(c, Tracked(c)) :
     LineAt(c, at).says \cap Forbidden # {} \/ IsPrivate(LineAt(c, at))}

(***************************************************************************)
(* The table of licences: each module go list names, and its version, must *)
(* occur in the text.  Without the list nothing is compared.               *)
(***************************************************************************)
Said(c, d) == UNION {c.files[d][n].says : n \in DOMAIN c.files[d]}

Undisclosed(c) ==
  IF Licences \notin OnDisk(c) \/ ~c.world.listed THEN {}
  ELSE {m \in c.world.linked : m[1] \notin Said(c, Licences) \/ m[2] \notin Said(c, Licences)}

(* Versions of Go, but for what past releases were built with. *)
GoVersions == {w.go : w \in Worlds} \cup {w.toolchain : w \in Worlds}
OldVersions(c) ==
  {old \in (Documents(c) \ Notes) \X GoVersions :
     old[2] \in Said(c, old[1]) /\ old[2] \notin {c.world.go, c.world.toolchain}}

(***************************************************************************)
(* A translation needs its original, and the same outline.                 *)
(***************************************************************************)
\* Variant: only the number of sections is compared.
SectionsDiffer(c) ==
  {ko \in Documents(c) \cap DOMAIN Original :
     \/ Original[ko] \notin OnDisk(c)
     \/ DOMAIN Skeleton(c.files[ko]) # DOMAIN Skeleton(c.files[Original[ko]])}

Drifted(c) ==
  {ko \in Documents(c) \cap DOMAIN Original :
     \/ Original[ko] \notin OnDisk(c)
     \/ Skeleton(c.files[ko]) # Skeleton(c.files[Original[ko]])}

(* The checks on each document by itself. *)
Faults(c) ==
  {d \in Documents(c) : EmptySections(c.files[d]) # {}}
  \cup {d \in Documents(c) : TildeRanges(c.files[d]) # {}}
  \cup {d \in Documents(c) : UnexplainedRefs(c.files[d]) # {}}

Hits(c) == <<BrokenLinks(c), Wording(c), Faults(c), Undisclosed(c), Drifted(c), OldVersions(c)>>

-------------------------------------------------------------------------------
Init == docs = Start /\ world = Now /\ changes = 0 /\ verdict = "none"

Edit(d) ==
  /\ changes < MaxChanges
  /\ \/ \E n \in DOMAIN docs[d], l \in Shapes[d] :
          l # docs[d][n] /\ docs' = [docs EXCEPT ![d][n] = l]
     \/ \E gone \in {Absent, Missing} : docs' = [docs EXCEPT ![d] = gone]
  /\ changes' = changes + 1 /\ verdict' = "none"
  /\ UNCHANGED world

MoveOn ==
  /\ changes < MaxChanges
  /\ world' \in Worlds \ {world}
  /\ changes' = changes + 1 /\ verdict' = "none"
  /\ UNCHANGED docs

Gate ==
  /\ verdict = "none"
  /\ verdict' = IF /\ Unreadable(Here) = {}
                   /\ \A i \in DOMAIN Hits(Here) : Hits(Here)[i] = {}
                THEN "passed" ELSE "failed"
  /\ UNCHANGED <<docs, world, changes>>

Next == (\E d \in OnDisk(Here) : Edit(d)) \/ MoveOn \/ Gate
Spec == Init /\ [][Next]_vars

-------------------------------------------------------------------------------
(* Properties. *)

\* The files hold lines of the shapes an edit writes.
TypeOK ==
  /\ \A d \in OnDisk(Here) : docs[d] \in Seq(LinesOf(d))
  /\ world \in Worlds /\ changes \in 0 .. MaxChanges
  /\ verdict \in {"none", "passed", "failed"}

Passed == verdict = "passed"

(***************************************************************************)
(* emptySections: in documents that pass, no section a reader sees is      *)
(* empty, although the check knows neither blocks of tildes nor how blocks *)
(* end: a row of three tildes is a hit of another check.                   *)
(***************************************************************************)
NoSectionIsEmpty ==
  Passed => \A d \in Documents(Here) : OddFences(docs[d]) \/ RenderedEmpty(docs[d]) = {}

(***************************************************************************)
(* checkBilingualParity: documents that pass have in both languages the    *)
(* sections, subsections and items a reader sees, as long as their blocks  *)
(* of code are not indented (the outline only knows fences at the margin)  *)
(* and git knows both: in an original it does not know, nothing notices a  *)
(* row of tildes.                                                          *)
(***************************************************************************)
Indented(ls) == \E n \in DOMAIN ls : Ticked(ls[n]) /\ ls[n].indent
AsRead(ls) == Outline(ls, Rendered(ls))
PairsReadAlike ==
  Passed => \A ko \in Documents(Here) \cap DOMAIN Original :
    LET pair == {docs[ko], docs[Original[ko]]}
    IN  Original[ko] \in Documents(Here) /\ (\A ls \in pair : ~OddFences(ls) /\ ~Indented(ls)) =>
          \A a, b \in pair : AsRead(a) = AsRead(b)

(***************************************************************************)
(* The gate runs on somebody's disk, where files lie that git does not     *)
(* know, and passes there with a warning if go list names no modules (it   *)
(* does on a machine where make generate has run).  What passes fails in a *)
(* checkout of what git has, on such a machine, for three reasons only: a  *)
(* link to, or an original that is, a file git does not know, and a table  *)
(* that was not looked at.                                                 *)
(***************************************************************************)
Clone == [files |-> [d \in Paths |-> IF d \in Tracked(Here) THEN docs[d] ELSE Absent],
          world |-> [world EXCEPT !.untracked = {}, !.listed = TRUE]]

FailsElsewhereForThreeReasons ==
  Passed =>
    /\ \A at \in BrokenLinks(Clone) : \E link \in LineAt(Clone, at).links : link.to \in world.untracked
    /\ \A ko \in Drifted(Clone) : Original[ko] \in world.untracked
    /\ world.listed => Undisclosed(Clone) = {}
    /\ Unreadable(Clone) = {} /\ Wording(Clone) = {} /\ Faults(Clone) = {} /\ OldVersions(Clone) = {}
=============================================================================
