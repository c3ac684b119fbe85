---------------------------- MODULE MCDiscovery ----------------------------
(***************************************************************************)
(* Topologies of up to three nodes: the shapes of the tests and of the     *)
(* example, and the ones neither has (an edge without a port, one named    *)
(* twice, one to a network the source is not on first, a LibreSSL source,  *)
(* networks left undeclared, a node with the controller's name).           *)
(***************************************************************************)
EXTENDS Discovery

Ids == {"web-gw", "pay-app", "pay-db", "pqcota-ctl"}

Base == [id |-> "web-gw", kind |-> "openssl", fork |-> "", version |-> "", role |-> "",
         apps |-> <<>>, networks |-> <<>>]
Web == [Base EXCEPT !.networks = <<"corp">>]
App == [Base EXCEPT !.id = "pay-app", !.kind = "java", !.networks = <<"corp">>]
Db  == [Base EXCEPT !.id = "pay-db", !.role = "server", !.version = "1.1.1",
                    !.apps = <<"payment-gw", "api-gw">>, !.networks = <<"corp", "db">>]

Edge(from, to, proto, port) == [from |-> from, to |-> to, proto |-> proto, port |-> port]
Pqc == Edge("web-gw", "pay-app", "pqc", 8443)
Ssl == Edge("web-gw", "pay-db", "ssl", 4434)
Ssh == Edge("web-gw", "pay-db", "ssh", 0)

Top(nodes, edges) == [networks |-> <<"corp", "db">>, nodes |-> nodes, edges |-> edges]

Good == {Top(<<Web, App, Db>>, es) :
           es \in {<<Pqc, Ssl>>, <<Ssl, Ssh>>, <<Pqc, Edge("pay-app", "pay-db", "ssl", 0)>>,
                   <<Ssl, Edge("pay-db", "pay-app", "ssh", 22)>>, <<>>}}

Odd ==
  {Top(<<Web, App, Db>>, <<Pqc, [Pqc EXCEPT !.port = 0]>>),          \* a dead port
   Top(<<Web, App>>, <<Edge("web-gw", "pay-app", "pqc", 0), Edge("web-gw", "pay-app", "ssh", 0)>>),
   Top(<<Web, App>>, <<Pqc, Pqc>>),                                  \* named twice
   Top(<<Web, [Db EXCEPT !.networks = <<"db">>]>>, <<Ssl>>),         \* out of reach
   Top(<<[Web EXCEPT !.networks = <<"db", "corp">>], Db, App>>, <<Ssl, Pqc>>),
   Top(<<[Web EXCEPT !.fork = "libressl"], Db>>, <<Ssl, Ssh>>),
   Top(<<Web>>, <<Edge("web-gw", "web-gw", "ssh", 0)>>),
   [Top(<<Web, App>>, <<Pqc>>) EXCEPT !.networks = <<>>],            \* undeclared, accepted
   [Top(<<[Web EXCEPT !.networks = <<>>], [App EXCEPT !.networks = <<>>]>>, <<Pqc>>) EXCEPT !.networks = <<>>],
   Top(<<[Web EXCEPT !.id = "pqcota-ctl"]>>, <<>>)}

Refused ==
  {Top(<<>>, <<>>),
   Top(<<[Web EXCEPT !.id = "Web_GW"]>>, <<>>),
   Top(<<Web, Web>>, <<>>),
   Top(<<[Web EXCEPT !.kind = "dotnet"]>>, <<>>),
   Top(<<[Web EXCEPT !.fork = "boringssl"]>>, <<>>),
   Top(<<[Web EXCEPT !.version = "0.9"]>>, <<>>),
   Top(<<[Web EXCEPT !.role = "peer"]>>, <<>>),
   Top(<<[Web EXCEPT !.networks = <<"nope">>]>>, <<>>),
   Top(<<Web>>, <<Ssl>>),
   Top(<<Web, Db>>, <<[Ssl EXCEPT !.proto = "quic"]>>)}

All == Good \cup Odd \cup Refused
=============================================================================
