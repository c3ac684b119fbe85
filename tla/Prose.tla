------------------------------- MODULE Prose -------------------------------
(***************************************************************************)
(* The prose gate (tools/checkprose/main.go): what it measures in the      *)
(* files of a repository and how it compares the counts with its baseline. *)
(*                                                                         *)
(* A text is a sequence of lines, a line a sequence of characters, and a   *)
(* line break is a byte between two lines.  Characters differ by what the  *)
(* tool tells apart: their width in bytes, whether they are Hangul, and    *)
(* which rules flag them.  "tick" is a backquote, "back" and "tilde" are   *)
(* the three that open or close a block of code, "<code>" and the other    *)
(* tags and marks are one character each, and so is the // of a Go file;   *)
(* what is filled stays one character, of the width it had.                *)
(***************************************************************************)
EXTENDS Integers, Sequences, FiniteSetsExt

CONSTANTS Files,     \* paths the gate may read
          KindOf,    \* of a path: "md", "en.md", "sh", "json", "html", "go"
          Repositories, \* what the files may hold: [Files -> text or Absent]
          Rules,     \* those rules.tsv may hold
          Notices,   \* rules of notices.tsv: shown and not counted
          Flags,     \* of a rule: the characters it matches
          Characters, \* what texts are made of
          Hangul,
          Overlap,   \* overlap.txt, in its order
          Absent     \* no such file

\* What a character of one, two ... bytes is filled with: as many spaces or x.
Spaces == <<"sp", "2 sp", "3 sp", "4 sp", "5 sp", "6 sp", "7 sp">>
Xs     == <<"x", "2 x", "3 x", "4 x", "5 x", "6 x", "7 x">>

Width(c) ==
  CASE c \in {"tick", "hash", "quote"} -> 1
    [] c = "//"                        -> 2
    [] c = "<!--"                      -> 4
    [] c = "<code>"                    -> 6
    [] c = "</code>"                   -> 7
    [] \E n \in 1 .. 7 : c \in {Spaces[n], Xs[n]} -> CHOOSE n \in 1 .. 7 : c \in {Spaces[n], Xs[n]}
    [] OTHER                           -> 3

Blank(c) == Spaces[Width(c)]
Fill(c)  == Xs[Width(c)]
Blanked(l) == [k \in DOMAIN l |-> Blank(l[k])]

\* The sums of the first n numbers of a sequence.
UpTo(s) ==
  LET sum[n \in 0 .. Len(s)] == IF n = 0 THEN 0 ELSE sum[n - 1] + s[n]
  IN  sum
Widths(l) == [k \in DOMAIN l |-> Width(l[k])]
Bytes(l)  == UpTo(Widths(l))[Len(l)]

(***************************************************************************)
(* Masking.  A line with either fence turns code on or off; inline code is *)
(* what stands between two backquotes, paired from the left.               *)
(***************************************************************************)
BeginsWith(l, marks) == \E k \in DOMAIN l : l[k] \in marks /\ \A j \in 1 .. k - 1 : l[j] = "sp"
IsFence(l)   == BeginsWith(l, {"back", "tilde"})
IsComment(l) == BeginsWith(l, {"hash"})
InFence(t, i) == Cardinality({j \in 1 .. i - 1 : IsFence(t[j])}) % 2 = 1

Ticks(l, k) == Cardinality({j \in 1 .. k : l[j] = "tick"})
InSpan(l, k) ==
  LET before == Ticks(l, k - 1) IN
  IF l[k] = "tick"
  THEN before % 2 = 1 \/ Ticks(l, Len(l)) > before + 1
  ELSE before % 2 = 1 /\ Ticks(l, Len(l)) > before

MaskSpans(l) == [k \in DOMAIN l |-> IF InSpan(l, k) THEN Fill(l[k]) ELSE l[k]]

MaskBlocksOnly(t) == [i \in DOMAIN t |-> IF IsFence(t[i]) \/ InFence(t, i) THEN Blanked(t[i]) ELSE t[i]]
MaskMarkdown(t) ==
  [i \in DOMAIN t |-> IF IsFence(t[i]) \/ InFence(t, i) THEN Blanked(t[i]) ELSE MaskSpans(t[i])]

MaskShell(t) == [i \in DOMAIN t |-> IF IsComment(t[i]) THEN Blanked(t[i]) ELSE t[i]]

(***************************************************************************)
(* HTML: from an opening mark to the first closing one after it, over any  *)
(* number of lines; first the tags, then the comments in what is left.     *)
(***************************************************************************)
Places(t, c) == UNION {{<<i, k>> : k \in {j \in DOMAIN t[i] : t[i][j] = c}} : i \in DOMAIN t}
Before(p, q) == p[1] < q[1] \/ (p[1] = q[1] /\ p[2] < q[2])

Enclosed(opens, closes, p) ==
  /\ \E o \in opens : /\ o = p \/ Before(o, p)
                      /\ \A c \in closes : ~(Before(o, c) /\ Before(c, p))
  /\ \E c \in closes : c = p \/ Before(p, c)

FillBetween(t, open, close) ==
  LET opens == Places(t, open)
      closes == Places(t, close)
  IN  [i \in DOMAIN t |->
         [k \in DOMAIN t[i] |-> IF Enclosed(opens, closes, <<i, k>>) THEN Fill(t[i][k]) ELSE t[i][k]]]

MaskTags(t) == FillBetween(t, "<code>", "</code>")
MaskHTML(t) == FillBetween(MaskTags(t), "<!--", "-->")

(***************************************************************************)
(* Go: what is left are the string literals that hold Hangul.  A line of   *)
(* code ends where a comment begins that no literal holds.                 *)
(***************************************************************************)
Quotes(l, k)    == Cardinality({j \in 1 .. k : l[j] = "quote"})
Commented(l, k) == \E j \in 1 .. k : l[j] = "//" /\ Quotes(l, j) % 2 = 0
CodeOf(l)       == {k \in DOMAIN l : ~Commented(l, k)}
Parses(t)       == \A i \in DOMAIN t : Cardinality({k \in CodeOf(t[i]) : t[i][k] = "quote"}) % 2 = 0

LiteralAt(l, k) ==
  IF l[k] = "quote" \/ Quotes(l, k) % 2 = 1 THEN (Quotes(l, k) + 1) \div 2 ELSE 0
Literals(l) ==
  {{k \in CodeOf(l) : LiteralAt(l, k) = n} : n \in {LiteralAt(l, k) : k \in CodeOf(l)} \ {0}}
HasHangul(l, ks) == \E k \in ks : l[k] \in Hangul

MaskGo(t) ==
  [i \in DOMAIN t |->
     LET kept == UNION {ks \in Literals(t[i]) : HasHangul(t[i], ks)} IN
     [k \in DOMAIN t[i] |-> IF k \in kept THEN t[i][k] ELSE Blank(t[i][k])]]

Masked(f, t) ==
  CASE KindOf[f] = "md"   -> MaskMarkdown(t)
    [] KindOf[f] = "sh"   -> MaskShell(t)
    [] KindOf[f] = "html" -> MaskHTML(t)
    [] KindOf[f] = "go"   -> MaskGo(t)
    [] KindOf[f] = "json" -> t

(***************************************************************************)
(* hideOverlap: each word of the list, wherever it stands, becomes as many *)
(* circles of three bytes as it has characters.  Of places that share      *)
(* characters strings.ReplaceAll takes the first from the left.            *)
(***************************************************************************)
StandsAt(w, l, k) == k + Len(w) - 1 <= Len(l) /\ \A j \in DOMAIN w : l[k + j - 1] = w[j]

Taken(l, w) ==
  CHOOSE at \in SUBSET DOMAIN l :
    \A k \in DOMAIN l : k \in at <=> StandsAt(w, l, k) /\ \A j \in at : j < k => j + Len(w) <= k

Hide(l, w) ==
  [k \in DOMAIN l |-> IF \E p \in Taken(l, w) : k \in p .. p + Len(w) - 1 THEN "circle" ELSE l[k]]

HideWords(l) ==
  LET hidden[n \in 0 .. Len(Overlap)] == IF n = 0 THEN l ELSE Hide(hidden[n - 1], Overlap[n])
  IN  hidden[Len(Overlap)]

HideOverlap(t) == [i \in DOMAIN t |-> HideWords(t[i])]

(***************************************************************************)
(* match: a hit has the offset where the rule matched in the covered text; *)
(* its line is counted there.  The excerpt is cut from the original at     *)
(* that offset, s[:off]: beyond the original's end the program dies of it. *)
(***************************************************************************)
LineStart(t, i) == (i - 1) + UpTo([j \in DOMAIN t |-> Bytes(t[j])])[i - 1]
Size(t) == LineStart(t, Len(t)) + Bytes(t[Len(t)])
Overruns(t, hits) == \E h \in hits : h.off > Size(t)
Excerpt(t, off) == Max({i \in DOMAIN t : LineStart(t, i) <= off})

Counted(s, i) == HasHangul(s[i], DOMAIN s[i])

HitsOf(f, t, rs) ==
  LET s == HideOverlap(Masked(f, t))
      Matches(r, i) == {k \in DOMAIN s[i] : s[i][k] \in Flags[r]}
      Hit(r, i, k)  == [rule |-> r, file |-> f, line |-> i,
                        off |-> LineStart(s, i) + UpTo(Widths(s[i]))[k - 1]]
  IN  UNION {{Hit(r, i, k) : k \in Matches(r, i)} :
               r \in rs, i \in {j \in DOMAIN s : Counted(s, j)}}

\* "The fill characters are neither Hangul nor a particle, so that no other rule
\* finds them" (main.go:444), nor the circles.
Covers == {Spaces[n] : n \in 1 .. 7} \cup {Xs[n] : n \in 1 .. 7} \cup {"circle"}

ASSUME ProseAssumption ==
  /\ Repositories \subseteq [Files -> Seq(Seq(Characters)) \cup {Absent}]
  /\ \A r \in Rules \cup Notices : Flags[r] \cap Covers = {}
  /\ Hangul \cap Covers = {}

\* loadWords trims the words.  Those of the list hold no quote and nothing that
\* covers, but for a space within, and where one stands no other begins: with
\* words that share characters the one covered first would hide the other.
ASSUME OverlapAssumption ==
  /\ Overlap \in Seq(Seq(Characters))
  /\ \A n \in DOMAIN Overlap :
       /\ Overlap[n] # <<>> /\ Overlap[n][1] # "sp"
       /\ \A j \in DOMAIN Overlap[n] : Overlap[n][j] \notin {"quote"} \cup (Covers \ {"sp"})
  /\ \A m, n \in DOMAIN Overlap : \A d \in 0 .. Len(Overlap[m]) - 1 :
       (\A j \in DOMAIN Overlap[n] : d + j <= Len(Overlap[m]) => Overlap[m][d + j] = Overlap[n][j])
         => m = n /\ d = 0

VARIABLES docs,
          rules,     \* those rules.tsv holds
          baseline,
          outcome
proseVars == <<docs, rules, baseline, outcome>>

Listed == {f \in Files : KindOf[f] \in {"sh", "json", "html", "go"}}
Walked == {f \in Files : KindOf[f] = "md" /\ docs[f] # Absent}
Read   == {f \in Listed : docs[f] # Absent /\ (KindOf[f] = "go" => Parses(docs[f]))}
Unreadable == Read # Listed

Dies(fs, rs) == \E f \in fs : Overruns(docs[f], HitsOf(f, docs[f], rs))
Scan == UNION {HitsOf(f, docs[f], rules) : f \in Walked \cup Listed}

(***************************************************************************)
(* Before it has its counts the run fails when there are no rules or a     *)
(* listed file cannot be read, and dies where a hit lies beyond its file.  *)
(* Markdown is read first; among the listed files the order of files.txt   *)
(* decides which comes first.  The files are read again for the notices.   *)
(***************************************************************************)
Fails   == rules = {} \/ (Unreadable /\ ~Dies(Walked, rules))
Crashes == /\ rules # {}
           /\ Dies(Walked \cup Read, rules) \/ (~Unreadable /\ Dies(Walked \cup Read, Notices))
Counts  == ~Fails /\ ~Crashes

Keys  == Rules \X Files
CountsOf(hits) == [k \in Keys |-> Cardinality({h \in hits : <<h.rule, h.file>> = k})]
Tally == LET count == CountsOf(Scan) IN [k \in {x \in Keys : count[x] > 0} |-> count[k]]

At(counts, k) == IF k \in DOMAIN counts THEN counts[k] ELSE 0

GrownOfKnown(base, now)  == {k \in DOMAIN base : At(now, k) > At(base, k)}
Grown(base, now)  == {k \in DOMAIN base \cup DOMAIN now : At(now, k) > At(base, k)}
Shrunk(base, now) == {k \in DOMAIN base \cup DOMAIN now : At(now, k) < At(base, k)}

(***************************************************************************)
(* Actions: someone edits a file or removes it, or adds or drops rules;    *)
(* the gate runs; the baseline is rewritten (-baseline).                   *)
(***************************************************************************)
ProseInit ==
  /\ docs \in Repositories
  /\ rules = Rules
  /\ baseline = Absent
  /\ outcome = "none"

Edit(f) ==
  /\ \E t \in {d[f] : d \in Repositories} \ {docs[f]} : docs' = [docs EXCEPT ![f] = t]
  /\ outcome' = "none"
  /\ UNCHANGED <<rules, baseline>>

EditRules ==
  /\ rules' \in SUBSET Rules \ {rules}
  /\ outcome' = "none"
  /\ UNCHANGED <<docs, baseline>>

Stop ==
  /\ \/ Fails /\ outcome' = "failed"
     \/ Crashes /\ outcome' = "crashed"
  /\ UNCHANGED baseline

Gate ==
  /\ \/ Stop
     \/ /\ Counts
        /\ outcome' = IF baseline = Absent THEN "failed"
                      ELSE LET now == Tally IN
                           IF Grown(baseline, now) # {} THEN "grown"
                           ELSE IF Shrunk(baseline, now) # {} THEN "stale" ELSE "passed"
        /\ UNCHANGED baseline
  /\ UNCHANGED <<docs, rules>>

Rewrite ==
  /\ \/ Stop
     \/ Counts /\ outcome' = "rewritten" /\ baseline' = Tally
  /\ UNCHANGED <<docs, rules>>

ProseNext == (\E f \in Files : Edit(f)) \/ EditRules \/ Gate \/ Rewrite

ProseSpec == ProseInit /\ [][ProseNext]_proseVars

(***************************************************************************)
(* A reference for what is measured, by characters of the original text:   *)
(* no bytes, no filling.                                                   *)
(***************************************************************************)
InTag(t, p)  == Enclosed(Places(t, "<code>"), Places(t, "</code>"), p)
Plainly(t, c) == {p \in Places(t, c) : ~InTag(t, p)}

InCode(f, t, i, k) ==
  CASE KindOf[f] = "md"   -> IsFence(t[i]) \/ InFence(t, i) \/ InSpan(t[i], k)
    [] KindOf[f] = "sh"   -> IsComment(t[i])
    [] KindOf[f] = "html" -> InTag(t, <<i, k>>) \/ Enclosed(Plainly(t, "<!--"), Plainly(t, "-->"), <<i, k>>)
    [] KindOf[f] = "go"   -> \A ks \in Literals(t[i]) : k \in ks => ~HasHangul(t[i], ks)
    [] KindOf[f] = "json" -> FALSE

InWord(f, t, i, k) ==
  \E n \in DOMAIN Overlap : \E p \in DOMAIN t[i] :
     /\ StandsAt(Overlap[n], t[i], p)
     /\ k \in p .. p + Len(Overlap[n]) - 1
     /\ \A q \in p .. p + Len(Overlap[n]) - 1 : ~InCode(f, t, i, q)

Plain(f, t, i) == {k \in DOMAIN t[i] : ~InCode(f, t, i, k) /\ ~InWord(f, t, i, k)}
Korean(f, t, i) == \E k \in Plain(f, t, i) : t[i][k] \in Hangul
Expected(r, f, t, i) ==
  IF Korean(f, t, i) THEN Cardinality({k \in Plain(f, t, i) : t[i][k] \in Flags[r]}) ELSE 0

Seen(f) == f \in Walked \cup Listed /\ ~Unreadable
Total(r, f) == UpTo([i \in DOMAIN docs[f] |-> Expected(r, f, docs[f], i)])[Len(docs[f])]
Due(r, f) == IF r \in rules /\ Seen(f) THEN Total(r, f) ELSE 0

(***************************************************************************)
(* Properties.                                                             *)
(***************************************************************************)

\* The baseline holds counts of rules in files, none of them zero.
ProseTypeOK ==
  /\ docs \in [Files -> Seq(Seq(Characters)) \cup {Absent}]
  /\ rules \subseteq Rules
  /\ baseline # Absent => /\ DOMAIN baseline \subseteq Keys
                          /\ \A k \in DOMAIN baseline : baseline[k] \in Nat \ {0}
  /\ outcome \in {"none", "failed", "crashed", "grown", "stale", "passed", "rewritten"}

\* "A word once removed does not come back": when the gate passes, every file
\* has of each rule exactly what the baseline says, and nothing of what the
\* baseline does not name, in whatever file it is; and the baseline names no
\* rule that was dropped.
PassMeansBaseline ==
  outcome = "passed" => \A r \in Rules, f \in Files : At(baseline, <<r, f>>) = Due(r, f)

\* -list names the lines to mend: when the run gets that far, it prints for every
\* rule in force and every line of a file as it is written as many hits with its
\* number as the line has flagged characters outside of code and of the words of
\* overlap.txt.  Covering keeps the lines and hides nothing else.
HitsAreOnTheirLines ==
  Counts => LET hits == Scan IN
    \A f \in {g \in Files : Seen(g)} : \A i \in DOMAIN docs[f], r \in rules :
       Cardinality({h \in hits : h.rule = r /\ h.file = f /\ h.line = i}) = Expected(r, f, docs[f], i)

(***************************************************************************)
(* What the comments say, which the code does not do.                      *)
(***************************************************************************)

\* hideOverlap covers "with the same number of bytes" and "the places in the
\* original and in what is covered do not diverge" (scan): where a rule finds
\* something there is such a place in the original, and it is on that line.
PlacesAreKept ==
  \A f \in Walked \cup Read : \A h \in HitsOf(f, docs[f], rules \cup Notices) :
     h.off <= Size(docs[f]) /\ Excerpt(docs[f], h.off) = h.line
=============================================================================
