------------------------------ MODULE MCDemoRun ------------------------------
(***************************************************************************)
(* A node with a Java app, apps on an old OpenSSL and a new one that only  *)
(* sshd and python load; a node with two apps on a new one; and an edit of *)
(* the topology to a client whose OpenSSL only sshd and python load.  A    *)
(* run takes snapshots anew of a node with noise and not of one without,   *)
(* so the newest is now of one node and now of the other.                  *)
(***************************************************************************)
EXTENDS DemoRun

MCNodeSeq == <<"pay-app", "pay-db", "web-gw">>

Entry(id, n, lib, apps, band, noise) ==
  [id |-> id, node |-> n, lib |-> lib, apps |-> apps, band |-> band, noise |-> noise]

MCFinding ==
  {Entry(1, "pay-app", "jca", 1, FALSE, FALSE),
   Entry(2, "pay-app", "openssl", 1, TRUE, TRUE),
   Entry(3, "pay-app", "openssl", 3, FALSE, FALSE),
   Entry(4, "pay-db", "openssl", 2, TRUE, FALSE),
   Entry(5, "web-gw", "openssl", 2, TRUE, TRUE)}

MCTopologies == {{"pay-app", "pay-db"}, {"web-gw"}}
===============================================================================
