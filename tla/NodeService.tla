----------------------------- MODULE NodeService -----------------------------
(***************************************************************************)
(* What a demo node promises to its clients about its classical TLS        *)
(* endpoints, whatever ssl-apps.sh does to get there.                      *)
(*                                                                         *)
(* An endpoint is either down or served with one configuration.  A served  *)
(* endpoint never changes configuration in place: it has to go down first. *)
(* The configuration it comes up with is one that was at the activation    *)
(* point (/etc/pqcota/service.env) when a start read it.                   *)
(***************************************************************************)
CONSTANTS Endpoint, Conf, NoConf, Down

VARIABLES
  active,   \* the configuration at the activation point
  offered,  \* configurations some start has read and a process may still serve
  serving   \* what each endpoint serves

serviceVars == <<active, offered, serving>>

ServiceInit ==
  /\ active = NoConf
  /\ offered = {}
  /\ serving = [e \in Endpoint |-> Down]

(* The activation point is written or removed; nobody is disturbed. *)
Reconfigure ==
  /\ active' \in Conf
  /\ UNCHANGED <<offered, serving>>

(* Endpoints go down, or come up with an offered configuration. *)
Serve ==
  /\ offered' \subseteq offered \cup {active}
  /\ serving' \in [Endpoint -> Conf \cup {Down}]
  /\ \A e \in Endpoint :
        \/ serving'[e] \in {serving[e], Down}
        \/ serving[e] = Down /\ serving'[e] \in offered
  /\ UNCHANGED active

ServiceNext == Reconfigure \/ Serve

ServiceSpec == ServiceInit /\ [][ServiceNext]_serviceVars
===============================================================================
