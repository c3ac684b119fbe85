----------------------------- MODULE Environment -----------------------------
(***************************************************************************)
(* What up.sh and down.sh promise to whoever uses the demo's environment,  *)
(* whatever they do to get there.                                          *)
(*                                                                         *)
(* A delivered topology is there as a whole, with the controller and the   *)
(* store, and the controller reaches each of its nodes; an environment     *)
(* that is gone has left nothing, no data either.  Before anything of what *)
(* was promised changes the promise is withdrawn, and while there is none  *)
(* containers come, change and go one at a time.                           *)
(***************************************************************************)
CONSTANTS Nodes, Topologies, None

VARIABLES promise,
          there,   \* pairs of a name and what it is: what a container runs, the
                   \* store's volumes
          reached  \* the nodes the controller reaches as themselves

environment == <<promise, there, reached>>

Delivered(t) == [is |-> "delivered", of |-> t]
Nothing      == [is |-> "nothing", of |-> None]
Gone         == [is |-> "gone", of |-> None]

But(c, all) == {x \in all : x[1] # c}

EnvironmentInit == promise = Gone /\ there = {} /\ reached = {}

Withdraw ==
  /\ promise' = Nothing
  /\ there' = there /\ reached' \subseteq reached

Proceed(c) ==
  /\ promise = Nothing /\ promise' = Nothing
  /\ But(c, there') = But(c, there)
  /\ \A x, y \in there' : x[1] = y[1] => x = y
  /\ reached' \subseteq Nodes

Deliver(t) ==
  /\ promise = Nothing /\ promise' = Delivered(t)
  /\ {<<n, t[n]>> : n \in DOMAIN t} \subseteq there
  /\ \E x \in there : x[1] = "ctl"
  /\ \E x \in there : x[1] = "pg" /\ "store" \in x[2]
  /\ there' = there /\ DOMAIN t \subseteq reached'

Clear ==
  /\ promise = Nothing /\ promise' = Gone
  /\ there = {} /\ there' = {} /\ reached' = {}

EnvironmentNext ==
  \/ Withdraw \/ Clear
  \/ \E c \in Nodes \cup {"ctl", "pg"} : Proceed(c)
  \/ \E t \in Topologies : Deliver(t)

EnvironmentSpec == EnvironmentInit /\ [][EnvironmentNext]_environment
===============================================================================
