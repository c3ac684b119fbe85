------------------------------ MODULE MCProse ------------------------------
(***************************************************************************)
(* Files of each kind, whose lines have each a shape some branch of the    *)
(* gate is about.  Files of up to two lines are edited; longer ones are    *)
(* only read.  What stands between the literals of a Go line is left out.  *)
(***************************************************************************)
EXTENDS Prose

Paths == {"a.md", "a.en.md", "take.sh", "ko.json", "a.html", "a.go"}
Kinds == [f \in Paths |-> CASE f = "a.md"    -> "md"
                            [] f = "take.sh" -> "sh"
                            [] f = "ko.json" -> "json"
                            [] f = "a.html"  -> "html"
                            [] f = "a.go"    -> "go"
                            [] f = "a.en.md" -> "en.md"]

TwoRules == {"words", "dashes"}
OneNotice == {"syllable"}
Flagged == [words |-> {"bad"}, dashes |-> {"dash"}, syllable |-> {"han"}]
Syllables == {"han", "bad"}
Letters == Syllables \cup {"dash", "sp", "tick", "quote", "hash", "back", "tilde", "//",
                           "<!--", "-->", "<code>", "</code>"}
\* The shipped list has words with a space in them.
Words == <<<<"han", "sp", "bad">>, <<"dash", "bad">>>>

Usual == [f \in Paths |-> CASE f = "a.md"    -> <<<<"han", "dash">>>>
                            [] f = "take.sh" -> <<<<"sp", "hash", "bad">>, <<"han", "dash">>>>
                            [] f = "ko.json" -> <<<<"han", "tick", "bad", "tick">>>>
                            [] f = "a.html"  -> <<<<"<!--", "bad", "-->", "han", "dash">>>>
                            [] f = "a.go"    -> <<<<"quote", "bad", "quote", "//", "bad">>>>
                            [] f = "a.en.md" -> <<<<"bad">>>>]

MdLines == {<<"han", "bad">>, <<"dash">>, <<"bad", "dash", "bad">>,
            <<"tick", "bad", "tick", "sp", "han", "dash">>, <<"tick", "bad", "sp">>, <<"back">>, <<"sp", "tilde">>,
            <<"han", "sp", "bad", "bad">>, <<"bad", "han", "dash">>, <<>>}
HtmlLines == {<<"bad", "<code>", "bad">>, <<"bad", "</code>", "han", "dash">>, <<"<!--", "bad">>,
              <<"-->", "bad">>, <<"bad">>, <<"<code>", "-->", "</code>", "bad">>,
              <<"<!--", "<code>", "-->", "bad">>}
GoLines == {<<"quote", "bad", "quote", "quote", "dash", "quote">>, <<"quote", "//", "bad", "quote", "//", "dash">>,
            <<"//", "quote", "bad">>, <<"bad", "quote", "dash", "han", "quote", "//", "quote">>,
            <<"quote", "bad">>, <<"quote", "han", "sp", "bad", "dash", "quote">>}

\* What the gate reads.
ToRead ==
  {[Usual EXCEPT !["a.md"] = <<l1, l2, l3, l4>>] :
     l1 \in MdLines, l2 \in MdLines, l3 \in MdLines, l4 \in MdLines}
  \cup {[Usual EXCEPT !["a.html"] = <<l1, l2, l3>>] : l1 \in HtmlLines, l2 \in HtmlLines, l3 \in HtmlLines}
  \cup {[Usual EXCEPT !["a.go"] = <<l1, l2, l3>>] : l1 \in GoLines, l2 \in GoLines, l3 \in GoLines}

\* What is edited; files may be missing, and a Go file may not parse.
ToEdit ==
  {[Usual EXCEPT !["a.md"] = d, !["take.sh"] = p, !["a.go"] = g] :
     d \in {<<l1, l2>> : l1 \in {<<"han", "bad">>, <<"back">>},
                         l2 \in {<<"bad", "han", "dash">>, <<"back">>, <<>>}}
            \cup {<<l, l>> : l \in {<<"han", "sp", "bad", "bad">>, <<"han", "sp", "bad", "han">>}}
            \cup {Absent},
     p \in {Usual["take.sh"], <<<<"bad", "hash">>>>, Absent},
     g \in {Usual["a.go"], <<<<"quote", "bad">>>>}}

MCInit == ProseInit \/ (docs \in ToRead /\ rules = Rules /\ baseline = Absent /\ outcome = "none")
Edited == \A f \in Files : docs[f] = Absent \/ Len(docs[f]) <= 2
MCSpec == MCInit /\ [][IF Edited THEN ProseNext ELSE UNCHANGED proseVars]_proseVars
=============================================================================
