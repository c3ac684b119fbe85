------------------------------- MODULE GoFiles -------------------------------
(***************************************************************************)
(* The Go files of the five repositories as the cross-repository gates see *)
(* them.  A package is named by its repository and the path of its         *)
(* directory in it, a sequence of segments.  A file has                    *)
(*    repo, dir  the package directory it is in                            *)
(*    pkg        the name after "package"                                  *)
(*    kind       "code", "test" (_test.go) or "doc" (doc.go)               *)
(*    imports    the packages it imports that are in some repository       *)
(*    declares   it has declarations, of which imports are one             *)
(*    documented its package clause has a comment                          *)
(*    gates      the functions it marks GATE, as [name, pending]           *)
(*    calls      the functions it calls, as <<package, function>>          *)
(*    literals   its string literals, as sequences of words and the        *)
(*               marks between them                                        *)
(*    rulesetHome  it is the file that defines normalize.RulesetVersion,   *)
(*               the only literal of it that counts here                   *)
(***************************************************************************)
EXTENDS Naturals, Sequences

PackageOf(f) == <<f.repo, f.dir>>

InTestdata(f) == \E i \in DOMAIN f.dir : f.dir[i] = "testdata"

(* strings.HasPrefix on the slashed paths *)
Under(dir, prefix) ==
  /\ Len(prefix) <= Len(dir)
  /\ \A i \in DOMAIN prefix : dir[i] = prefix[i]
===============================================================================
