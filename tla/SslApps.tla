------------------------------- MODULE SslApps -------------------------------
(***************************************************************************)
(* The classical TLS services of one demo node: the script                 *)
(* demo/scripts/internal/ssl-apps.sh, the part of node-entrypoint.sh that  *)
(* calls it, and the s_server processes it starts and kills.               *)
(*                                                                         *)
(* The map file has one line per app; line i is served on port 4432 + i,   *)
(* so a line stands for its app and for its port.  The script starts       *)
(* processes in the background with their output thrown away and never     *)
(* looks back: whether the process got its port, or whether a killed one   *)
(* really went away, is the operating system's business, and interleaves   *)
(* with the script.                                                        *)
(***************************************************************************)
EXTENDS Naturals

CONSTANTS
  NumApps,   \* lines of /run/pqcota-ssl-apps.map
  Conf,      \* configurations service.env can name, and NoConf
  NoConf,    \* no service.env: the built-in configuration
  Polls,     \* how often stop looks for survivors (10 in the script)
  MaxPid     \* bound: processes a container starts between two boots

ASSUME SslAppsAssumption ==
  /\ NumApps \in Nat
  /\ NoConf \in Conf
  /\ Polls \in Nat \ {0}
  /\ MaxPid \in Nat

Line == 1 .. NumApps
Pid == 1 .. MaxPid

VARIABLES
  proc,        \* the process table, by pid (the kernel hands pids out in order)
  termed,      \* live processes that were sent SIGTERM
  nextPid,
  env,         \* what service.env says
  pc,          \* where the script is; "idle" when it does not run
  restarting,  \* stop was called by restart
  polls,       \* looks for survivors so far
  line,        \* the map line start reads next
  loaded,      \* OPENSSL_CONF as start sourced it
  first,       \* history: pid of the first process of the last start
  since        \* history: what the last stop saw; see Since

scriptVars == <<pc, restarting, polls, line, loaded>>
osVars == <<proc, termed, nextPid>>
historyVars == <<first, since>>
vars == <<proc, termed, nextPid, env, pc, restarting, polls, line, loaded,
          first, since>>

(***************************************************************************)
(* "empty": the last stop found no process, none was still between fork    *)
(* and exec, and nothing was started since.  "fresh": exactly one start    *)
(* has run from there.                                                     *)
(***************************************************************************)
Since == {"dirty", "empty", "fresh"}

(***************************************************************************)
(* A process is a shell child until it execs (its command line does not    *)
(* say s_server yet), then runs, then listens.                             *)
(***************************************************************************)
NoProcess == [st |-> "gone", line |-> 0, conf |-> NoConf]
Process == [st : {"gone", "forked", "running", "listening"},
            line : 0 .. NumApps, conf : Conf]

Alive(p) == proc[p].st # "gone"
Listening(p) == proc[p].st = "listening"
PortHeld(i) == \E p \in Pid : Listening(p) /\ proc[p].line = i

(* pgrep -f 's_server -accept' *)
Matches == {p \in Pid : proc[p].st \in {"running", "listening"}}

(* The values of the variables. *)
TypeOK ==
  /\ proc \in [Pid -> Process]
  /\ termed \subseteq Pid
  /\ nextPid \in 1 .. MaxPid + 1
  /\ env \in Conf
  /\ pc \in {"down", "idle", "pgrep", "pkill", "poll", "start", "spawn"}
  /\ restarting \in BOOLEAN
  /\ polls \in 0 .. Polls
  /\ line \in 1 .. NumApps + 1
  /\ loaded \in Conf
  /\ first \in 1 .. MaxPid + 1
  /\ since \in Since

(* The container is created and not yet booted. *)
Init ==
  /\ proc = [p \in Pid |-> NoProcess]
  /\ termed = {}
  /\ nextPid = 1
  /\ env = NoConf
  /\ pc = "down"
  /\ restarting = FALSE
  /\ polls = 0
  /\ line = 1
  /\ loaded = NoConf
  /\ first = 1
  /\ since = "empty"

Room == nextPid + NumApps <= MaxPid + 1

-------------------------------------------------------------------------------
(* The script.  Only one instance runs: its callers are sequential. *)

CallStop ==
  /\ pc = "idle"
  /\ \/ restarting' = FALSE
     \/ restarting' = TRUE /\ Room
  /\ pc' = "pgrep"
  /\ since' = "dirty"
  /\ UNCHANGED <<osVars, env, polls, line, loaded, first>>

CallStart ==
  /\ pc = "idle" /\ Room
  /\ pc' = "start"
  /\ UNCHANGED <<osVars, env, restarting, polls, line, loaded, historyVars>>

(* stop returns 0 whatever it saw; restart goes on with start. *)
Stopped == pc' = IF restarting THEN "start" ELSE "idle"

SawNone ==
  /\ Stopped
  /\ since' = IF \A p \in Pid : ~Alive(p) THEN "empty" ELSE "dirty"

Pgrep ==
  /\ pc = "pgrep"
  /\ \/ Matches = {} /\ SawNone
     \/ Matches # {} /\ pc' = "pkill" /\ UNCHANGED since
  /\ UNCHANGED <<osVars, env, restarting, polls, line, loaded, first>>

Pkill ==
  /\ pc = "pkill"
  /\ termed' = termed \cup Matches
  /\ polls' = 0
  /\ pc' = "poll"
  /\ UNCHANGED <<proc, nextPid, env, restarting, line, loaded, historyVars>>

(* Variants of Poll as it could have been written: "while pgrep" counts the *)
(* looks and never gives up, "until ! pgrep" does not even count. *)
PollWhile ==
  /\ pc = "poll"
  /\ polls' = polls + 1
  /\ \/ Matches = {} /\ SawNone
     \/ Matches # {} /\ UNCHANGED <<pc, since>>
  /\ UNCHANGED <<osVars, env, restarting, line, loaded, first>>

PollUntil ==
  /\ pc = "poll"
  /\ \/ Matches = {} /\ SawNone
     \/ Matches # {} /\ UNCHANGED <<pc, since>>
  /\ UNCHANGED <<osVars, env, restarting, polls, line, loaded, first>>

(* After the last look stop gives up on the survivors without a word. *)
Poll ==
  /\ pc = "poll"
  /\ polls' = polls + 1
  /\ \/ Matches = {} /\ SawNone
     \/ Matches # {} /\ polls + 1 < Polls /\ UNCHANGED <<pc, since>>
     \/ Matches # {} /\ polls + 1 = Polls /\ Stopped /\ UNCHANGED since
  /\ UNCHANGED <<osVars, env, restarting, line, loaded, first>>

(* Variant: without a service.env the last start's OPENSSL_CONF stays. *)
SourceEnvIfThere ==
  /\ pc = "start"
  /\ loaded' = IF env = NoConf THEN loaded ELSE env
  /\ line' = 1
  /\ pc' = IF NumApps = 0 THEN "idle" ELSE "spawn"
  /\ first' = nextPid
  /\ since' = IF since = "empty" THEN "fresh" ELSE "dirty"
  /\ UNCHANGED <<osVars, env, restarting, polls>>

SourceEnv ==
  /\ pc = "start"
  /\ loaded' = env
  /\ line' = 1
  /\ pc' = IF NumApps = 0 THEN "idle" ELSE "spawn"
  /\ first' = nextPid
  /\ since' = IF since = "empty" THEN "fresh" ELSE "dirty"
  /\ UNCHANGED <<osVars, env, restarting, polls>>

(* Variant: read drops a last line that has no newline. *)
SpawnButLast ==
  /\ pc = "spawn"
  /\ IF line = NumApps
       THEN UNCHANGED <<proc, nextPid>>
       ELSE /\ proc' = [proc EXCEPT ![nextPid] =
                           [st |-> "forked", line |-> line, conf |-> loaded]]
            /\ nextPid' = nextPid + 1
  /\ line' = line + 1
  /\ pc' = IF line = NumApps THEN "idle" ELSE "spawn"
  /\ UNCHANGED <<termed, env, restarting, polls, loaded, historyVars>>

Spawn ==
  /\ pc = "spawn"
  /\ proc' = [proc EXCEPT ![nextPid] =
                [st |-> "forked", line |-> line, conf |-> loaded]]
  /\ nextPid' = nextPid + 1
  /\ line' = line + 1
  /\ pc' = IF line = NumApps THEN "idle" ELSE "spawn"
  /\ UNCHANGED <<termed, env, restarting, polls, loaded, historyVars>>

Script == CallStop \/ CallStart \/ Pgrep \/ Pkill \/ Poll \/ SourceEnv \/ Spawn

-------------------------------------------------------------------------------
(* The operating system. *)

Exec(p) ==
  /\ proc[p].st = "forked"
  /\ proc' = [proc EXCEPT ![p].st = "running"]
  /\ UNCHANGED <<termed, nextPid, env, scriptVars, historyVars>>

(* A port has one listener; the process that comes second exits, unheard. *)
Bind(p) ==
  /\ proc[p].st = "running"
  /\ IF PortHeld(proc[p].line)
       THEN /\ proc' = [proc EXCEPT ![p] = NoProcess]
            /\ termed' = termed \ {p}
       ELSE /\ proc' = [proc EXCEPT ![p].st = "listening"]
            /\ UNCHANGED termed
  /\ UNCHANGED <<nextPid, env, scriptVars, historyVars>>

Exit(p) ==
  /\ p \in termed
  /\ proc' = [proc EXCEPT ![p] = NoProcess]
  /\ termed' = termed \ {p}
  /\ UNCHANGED <<nextPid, env, scriptVars, historyVars>>

(* The container stops: its processes die, its file system stays. *)
ContainerStops ==
  /\ pc # "down"
  /\ proc' = [p \in Pid |-> NoProcess]
  /\ termed' = {}
  /\ nextPid' = 1
  /\ pc' = "down"
  /\ first' = 1
  /\ since' = "empty"
  /\ UNCHANGED <<env, restarting, polls, line, loaded>>

(* node-entrypoint.sh writes the same map again and calls start. *)
Entrypoint ==
  /\ pc = "down" /\ Room
  /\ pc' = "start"
  /\ UNCHANGED <<osVars, env, restarting, polls, line, loaded, historyVars>>

(* The activate and deactivate hooks of a plan, run between two calls. *)
SetEnv(c) ==
  /\ pc = "idle"
  /\ env' = c
  /\ UNCHANGED <<osVars, scriptVars, historyVars>>

Kernel == \E p \in Pid : Exec(p) \/ Bind(p) \/ Exit(p)

Next ==
  \/ Script
  \/ Kernel
  \/ ContainerStops \/ Entrypoint
  \/ \E c \in Conf : SetEnv(c)

Spec == Init /\ [][Next]_vars

(***************************************************************************)
(* The script, once called, keeps running, and the kernel schedules a      *)
(* process it was given.  Nothing says that a process that was sent        *)
(* SIGTERM exits: stop polls for exactly that reason.                      *)
(***************************************************************************)
Fairness ==
  /\ WF_vars(Pgrep \/ Pkill \/ Poll \/ SourceEnv \/ Spawn)
  /\ \A p \in Pid : WF_vars(Exec(p)) /\ WF_vars(Bind(p))

FairSpec == Spec /\ Fairness

-------------------------------------------------------------------------------
(* Properties. *)

Settled == \A p \in Pid : proc[p].st \in {"gone", "listening"}

Served(i) == \E p \in Pid : Listening(p) /\ proc[p].line = i /\ proc[p].conf = loaded

(***************************************************************************)
(* A start that follows a stop which found the table empty takes effect:   *)
(* once its processes have settled, every app of the map listens on its    *)
(* port with the configuration that start read, and nothing older runs.    *)
(* (ssl-apps.sh restart; the order stop, change, start of the L3 hooks.)   *)
(***************************************************************************)
RestartTakesEffect ==
  pc = "idle" /\ since = "fresh" /\ Settled =>
    /\ \A i \in Line : Served(i)
    /\ \A p \in Pid : Alive(p) => p >= first

(***************************************************************************)
(* stop never hangs on a process that ignores SIGTERM: whatever was called *)
(* comes back (or the container stops).                                    *)
(***************************************************************************)
CallsReturn == pc \notin {"idle", "down"} ~> pc \in {"idle", "down"}

(***************************************************************************)
(* After such a start the node is in fact served again, unless somebody    *)
(* calls the script again or the container stops first.                    *)
(***************************************************************************)
ServedAgain ==
  (pc = "idle" /\ since = "fresh") ~> ((\A i \in Line : Served(i)) \/ pc # "idle")

(***************************************************************************)
(* The script implements what clients of the node rely on (NodeService).   *)
(***************************************************************************)
CONSTANT Down

Holder(i) == CHOOSE p \in Pid : Listening(p) /\ proc[p].line = i

Offered ==
  {proc[p].conf : p \in {q \in Pid : Alive(q)}}
    \cup (IF pc = "spawn" THEN {loaded} ELSE {})

Serving == [i \in Line |-> IF PortHeld(i) THEN proc[Holder(i)].conf ELSE Down]

Service == INSTANCE NodeService WITH
  Endpoint <- Line, active <- env, offered <- Offered, serving <- Serving

ImplementsService == Service!ServiceSpec
===============================================================================
