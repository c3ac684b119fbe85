-------------------------- MODULE MCDemoLifecycle --------------------------
(***************************************************************************)
(* Two nodes; an edit changes what one is and drops the other.             *)
(***************************************************************************)
EXTENDS DemoLifecycle

CONSTANTS n1, n2

TwoNodes == {n1, n2}
Shipped  == [n \in TwoNodes |-> "openssl 3"]
Edited   == [n \in {n1} |-> "openssl 1.1.1"]
Either   == {Shipped, Edited}
=============================================================================
