------------------------- MODULE ProvisionNodeProofs -------------------------
(***************************************************************************)
(* Theorems about a node for every number of apps, of configurations, of   *)
(* polls and of processes.  First ssl-apps.sh by itself, with any calls.   *)
(* Then the playbooks that call it, however many runs broke off before:    *)
(* what a run finds at each of its steps, and what it leaves at its end.   *)
(***************************************************************************)
EXTENDS ProvisionNode, NumberFacts

-------------------------------------------------------------------------------
(* The inductive invariant. *)

(* A call of start, made or pending, has the pids it will need. *)
PidsLeft ==
  /\ pc = "start" => Room
  /\ pc \in {"pgrep", "pkill", "poll"} /\ restarting => Room
  /\ pc = "spawn" => line <= NumApps /\ nextPid + NumApps <= MaxPid + line

(* The process table is filled in pid order, with lines of the map. *)
TableInv ==
  /\ \A p \in Pid : p >= nextPid => ~Alive(p)
  /\ \A p \in Pid : Alive(p) => proc[p].line \in Line
  /\ \A p \in termed : Alive(p)

(* What the history variable promises about the table. *)
EmptyInv ==
  since = "empty" => pc \in {"idle", "start", "down"} /\ \A p \in Pid : ~Alive(p)

FreshInv ==
  since = "fresh" =>
    /\ pc \in {"idle", "spawn", "start"}
    /\ nextPid = first + (IF pc = "spawn" THEN line - 1 ELSE NumApps)
    /\ termed = {}
    /\ \A p \in Pid : p < first => ~Alive(p)
    /\ \A p \in first .. nextPid - 1 :
          Alive(p) /\ proc[p].line = p - first + 1 /\ proc[p].conf = loaded

StopInv ==
  /\ pc \in {"pgrep", "pkill", "poll"} => since = "dirty"
  /\ pc = "poll" => polls < Polls

IInv == TypeOK /\ PidsLeft /\ TableInv /\ EmptyInv /\ FreshInv /\ StopInv

LEMMA NoProcessType == NoProcess \in Process /\ NoProcess.st = "gone"
  BY SslAppsAssumption DEF NoProcess, Process

LEMMA InitIInv == Init => IInv
<1> SUFFICES ASSUME Init PROVE IInv
  OBVIOUS
<1> USE SslAppsAssumption DEF Init
<1>1. \A p \in Pid : ~Alive(p)
  BY NoProcessType DEF Alive
<1>2. TypeOK
  <2>1. proc \in [Pid -> Process]
    BY NoProcessType
  <2>2. 0 \in 0 .. Polls /\ 1 \in 1 .. MaxPid + 1 /\ 1 \in 1 .. NumApps + 1
    OBVIOUS
  <2> QED
    BY <2>1, <2>2 DEF TypeOK, Since
<1> QED
  BY <1>1, <1>2 DEF IInv, PidsLeft, TableInv, EmptyInv, FreshInv, StopInv

(***************************************************************************)
(* Steps of the script that leave the process table alone.                 *)
(***************************************************************************)
LEMMA ScriptStep ==
  ASSUME IInv, CallStop \/ CallStart \/ Pgrep \/ Poll \/ SourceEnv \/ Entrypoint
  PROVE  IInv'
<1> USE SslAppsAssumption
    DEF IInv, TypeOK, PidsLeft, TableInv, EmptyInv, FreshInv, StopInv,
        Alive, Pid, Since, Room, osVars, scriptVars, historyVars
<1>1. CASE CallStop BY <1>1 DEF CallStop
<1>2. CASE CallStart BY <1>2 DEF CallStart
<1>3. CASE Pgrep BY <1>3 DEF Pgrep, SawNone, Stopped
<1>4. CASE Poll BY <1>4 DEF Poll, SawNone, Stopped
<1>5. CASE SourceEnv BY <1>5 DEF SourceEnv
<1>6. CASE Entrypoint BY <1>6 DEF Entrypoint
<1> QED BY <1>1, <1>2, <1>3, <1>4, <1>5, <1>6

LEMMA PkillStep == ASSUME IInv, Pkill PROVE IInv'
<1> USE SslAppsAssumption DEF IInv, Pkill, historyVars
<1>1. Matches \subseteq Pid /\ \A p \in Matches : Alive(p)
  BY DEF Matches, Alive
<1>2. TypeOK'
  BY <1>1 DEF TypeOK
<1>3. TableInv'
  BY <1>1 DEF TableInv, Alive
<1> QED
  BY <1>2, <1>3 DEF PidsLeft, EmptyInv, FreshInv, StopInv, Alive, Room

(***************************************************************************)
(* The new process takes the lowest free pid, so the processes of a start  *)
(* carry the lines of the map in pid order.                                *)
(***************************************************************************)
LEMMA SpawnStep == ASSUME IInv, Spawn PROVE IInv'
<1> DEFINE new == [st |-> "forked", line |-> line, conf |-> loaded]
<1> USE SslAppsAssumption DEF IInv, Spawn, historyVars
<1>1. nextPid \in Pid /\ line \in Line
  BY DEF TypeOK, PidsLeft, Pid, Line
<1>2. new \in Process
  BY <1>1 DEF TypeOK, Process, Line
<1>3. \A p \in Pid : proc'[p] = IF p = nextPid THEN new ELSE proc[p]
  BY <1>1 DEF TypeOK
<1> HIDE DEF new
<1>4. new.st = "forked" /\ new.line = line /\ new.conf = loaded
  BY DEF new
<1>5. TypeOK'
  BY <1>1, <1>2 DEF TypeOK, new, Line, Pid
<1>6. PidsLeft'
  BY DEF TypeOK, PidsLeft, Room
<1>7. TableInv'
  BY <1>1, <1>3, <1>4 DEF TypeOK, TableInv, Alive, Pid
<1>8. FreshInv'
  BY <1>1, <1>3, <1>4 DEF TypeOK, PidsLeft, FreshInv, Alive, Pid, Line
<1> QED
  BY <1>5, <1>6, <1>7, <1>8 DEF EmptyInv, StopInv

(***************************************************************************)
(* A process that stays alive keeps its line and its configuration, and    *)
(* leaves the facts about the table as they are.                           *)
(***************************************************************************)
LEMMA ProgressStep ==
  ASSUME IInv, NEW p \in Pid, NEW s \in {"running", "listening"},
         Alive(p), proc' = [proc EXCEPT ![p].st = s],
         UNCHANGED <<termed, nextPid, env, scriptVars, historyVars>>
  PROVE  IInv'
<1> USE SslAppsAssumption DEF IInv, scriptVars, historyVars
<1>1. proc'[p].st = s /\ proc'[p].line = proc[p].line /\ proc'[p].conf = proc[p].conf
  BY DEF TypeOK, Process
<1>2. \A q \in Pid : q # p => proc'[q] = proc[q]
  BY DEF TypeOK
<1>3. \A q \in Pid : Alive(q)' <=> Alive(q)
  BY <1>1, <1>2 DEF Alive
<1>4. TypeOK'
  BY DEF TypeOK, Process
<1>5. TableInv'
  BY <1>1, <1>2, <1>3 DEF TableInv, TypeOK
<1>6. FreshInv'
  <2>1. \A q \in first .. nextPid - 1 : q \in Pid
    BY DEF TypeOK, Pid
  <2> QED
    BY <1>1, <1>2, <1>3, <2>1 DEF FreshInv
<1> QED
  BY <1>3, <1>4, <1>5, <1>6 DEF PidsLeft, EmptyInv, StopInv, Room

LEMMA ExecStep == ASSUME IInv, NEW p \in Pid, Exec(p) PROVE IInv'
  BY ProgressStep DEF Exec, Alive

(***************************************************************************)
(* A process goes away without SIGTERM only if another one holds its port, *)
(* which cannot happen to the processes of a fresh start.                  *)
(***************************************************************************)
LEMMA GoneStep ==
  ASSUME IInv, NEW p \in Pid, since # "fresh",
         proc' = [proc EXCEPT ![p] = NoProcess], termed' = termed \ {p},
         UNCHANGED <<nextPid, env, scriptVars, historyVars>>
  PROVE  IInv'
<1> USE SslAppsAssumption DEF IInv, scriptVars, historyVars
<1>1. ~Alive(p)' /\ \A q \in Pid : q # p => proc'[q] = proc[q]
  BY NoProcessType DEF TypeOK, Alive
<1>2. TypeOK'
  BY NoProcessType DEF TypeOK
<1>3. TableInv'
  BY <1>1 DEF TableInv, TypeOK, Alive
<1> QED
  BY <1>1, <1>2, <1>3 DEF PidsLeft, EmptyInv, FreshInv, StopInv, Room, Alive

LEMMA BindStep == ASSUME IInv, NEW p \in Pid, Bind(p) PROVE IInv'
<1>1. Alive(p)
  BY DEF Bind, Alive
<1>2. CASE PortHeld(proc[p].line)
  <2>1. PICK q \in Pid : Listening(q) /\ proc[q].line = proc[p].line
    BY <1>2 DEF PortHeld
  <2>2. q # p /\ Alive(q)
    BY <2>1 DEF Bind, Listening, Alive
  <2>3. since # "fresh"
    BY <1>1, <2>1, <2>2 DEF IInv, FreshInv, TableInv, TypeOK, Pid
  <2> QED
    BY <1>2, <2>3, GoneStep DEF Bind
<1>3. CASE ~PortHeld(proc[p].line)
  BY <1>1, <1>3, ProgressStep DEF Bind
<1> QED
  BY <1>2, <1>3

LEMMA ExitStep == ASSUME IInv, NEW p \in Pid, Exit(p) PROVE IInv'
<1>1. since # "fresh"
  BY DEF IInv, FreshInv, Exit
<1> QED
  BY <1>1, GoneStep DEF Exit

LEMMA ContainerStep == ASSUME IInv, ContainerStops PROVE IInv'
  BY SslAppsAssumption
  DEF ContainerStops, NoProcess, IInv, TypeOK, PidsLeft, TableInv, EmptyInv,
      FreshInv, StopInv, Alive, Process, Pid, Line, Since, Room

LEMMA SetEnvStep == ASSUME IInv, NEW c \in Conf, SetEnv(c) PROVE IInv'
  BY SslAppsAssumption
  DEF SetEnv, IInv, TypeOK, PidsLeft, TableInv, EmptyInv, FreshInv,
      StopInv, Alive, Process, Pid, Line, Since, Room, osVars, scriptVars,
      historyVars

LEMMA NextIInv == IInv /\ [Next]_vars => IInv'
<1> SUFFICES ASSUME IInv, [Next]_vars PROVE IInv'
  OBVIOUS
<1>1. CASE Script
  BY <1>1, ScriptStep, PkillStep, SpawnStep DEF Script
<1>2. CASE Kernel
  BY <1>2, ExecStep, BindStep, ExitStep DEF Kernel
<1>3. CASE ContainerStops
  BY <1>3, ContainerStep
<1>4. CASE Entrypoint
  BY <1>4, ScriptStep
<1>5. CASE \E c \in Conf : SetEnv(c)
  BY <1>5, SetEnvStep
<1>6. CASE UNCHANGED vars
  BY <1>6
  DEF vars, IInv, TypeOK, PidsLeft, TableInv, EmptyInv, FreshInv, StopInv,
      Alive, Room
<1> QED
  BY <1>1, <1>2, <1>3, <1>4, <1>5, <1>6 DEF Next

THEOREM Inductive == Spec => []IInv
  BY InitIInv, NextIInv, PTL DEF Spec

-------------------------------------------------------------------------------
(* Every variable keeps its type: in particular pids never run past MaxPid *)
(* and the script never reads past the end of the map.                     *)
THEOREM TypeCorrect == Spec => []TypeOK
<1>1. IInv => TypeOK
  BY DEF IInv
<1> QED
  BY <1>1, Inductive, PTL

(* What a start after an empty table comes to, from the invariant alone. *)
LEMMA SettledStartServes == IInv => RestartTakesEffect
<1> SUFFICES ASSUME IInv, pc = "idle", since = "fresh", Settled
             PROVE  /\ \A i \in Line : Served(i)
                    /\ \A p \in Pid : Alive(p) => p >= first
  BY DEF RestartTakesEffect
<1> USE SslAppsAssumption DEF IInv
<1>1. nextPid = first + NumApps /\ first \in Nat \ {0} /\ nextPid <= MaxPid + 1
  BY DEF FreshInv, TypeOK
<1>2. ASSUME NEW i \in Line PROVE Served(i)
  <2>1. first + i - 1 \in Pid /\ first + i - 1 \in first .. nextPid - 1
    BY <1>1 DEF Line, Pid
  <2>2. Alive(first + i - 1) /\ proc[first + i - 1].line = i
          /\ proc[first + i - 1].conf = loaded
    BY <1>1, <2>1 DEF FreshInv, Line
  <2> QED
    BY <2>1, <2>2 DEF Settled, Served, Alive, Listening
<1>3. \A p \in Pid : Alive(p) => p >= first
  BY <1>1 DEF FreshInv, Pid
<1> QED
  BY <1>2, <1>3

(***************************************************************************)
(* A start after a stop that found nothing to kill serves every app with   *)
(* the configuration it read, for any number of apps.                      *)
(***************************************************************************)
THEOREM RestartCorrect == Spec => []RestartTakesEffect
<1> QED
  BY SettledStartServes, Inductive, PTL

-------------------------------------------------------------------------------
(* ssl-apps.sh implements NodeService. *)

(* No two processes listen on one port: the one that comes second exits. *)
OneHolder ==
  \A p, q \in Pid :
    Listening(p) /\ Listening(q) /\ proc[p].line = proc[q].line => p = q

(* A step that changes the table at p only, where nobody listens after it. *)
LEMMA OneHolderStep ==
  ASSUME TypeOK, OneHolder, NEW p \in Pid, NEW r \in Process, r.st # "listening",
         proc' = [proc EXCEPT ![p] = r]
  PROVE  OneHolder'
<1>1. \A q \in Pid : proc'[q] = IF q = p THEN r ELSE proc[q]
  BY DEF TypeOK
<1> QED
  BY <1>1 DEF OneHolder, Listening

LEMMA NextOneHolder == IInv /\ OneHolder /\ [Next]_vars => OneHolder'
<1> SUFFICES ASSUME IInv, OneHolder, [Next]_vars PROVE OneHolder'
  OBVIOUS
<1> USE DEF IInv
<1>1. CASE UNCHANGED proc
  BY <1>1 DEF OneHolder, Listening
<1>2. CASE Spawn
  <2>1. nextPid \in Pid /\ [st |-> "forked", line |-> line, conf |-> loaded] \in Process
    BY <1>2, SslAppsAssumption DEF TypeOK, PidsLeft, Pid, Process, Spawn
  <2> QED
    BY <1>2, <2>1, OneHolderStep DEF Spawn
<1>3. ASSUME NEW p \in Pid, Exec(p) PROVE OneHolder'
  <2>1. [proc[p] EXCEPT !.st = "running"] = [st |-> "running", line |-> proc[p].line,
                                             conf |-> proc[p].conf]
    BY DEF TypeOK, Process
  <2>2. [st |-> "running", line |-> proc[p].line, conf |-> proc[p].conf] \in Process
    BY DEF TypeOK, Process
  <2> QED
    BY <1>3, <2>1, <2>2, OneHolderStep DEF Exec
<1>4. ASSUME NEW p \in Pid, Bind(p) PROVE OneHolder'
  <2>1. CASE PortHeld(proc[p].line)
    BY <1>4, <2>1, NoProcessType, OneHolderStep DEF Bind
  <2>2. CASE ~PortHeld(proc[p].line)
    <3>1. /\ proc'[p].line = proc[p].line
          /\ \A q \in Pid : q # p => proc'[q] = proc[q]
      BY <1>4, <2>2 DEF Bind, TypeOK, Process
    <3> QED
      BY <2>2, <3>1 DEF OneHolder, Listening, PortHeld
  <2> QED
    BY <2>1, <2>2
<1>5. ASSUME NEW p \in Pid, Exit(p) PROVE OneHolder'
  BY <1>5, NoProcessType, OneHolderStep DEF Exit
<1>6. CASE ContainerStops
  BY <1>6, NoProcessType DEF ContainerStops, OneHolder, Listening
<1> QED
  BY <1>1, <1>2, <1>3, <1>4, <1>5, <1>6
  DEF Next, Script, Kernel, CallStop, CallStart, Pgrep, Pkill, Poll, SourceEnv,
      Entrypoint, SetEnv, osVars, vars

LEMMA OneHolderAlways == Spec => [](IInv /\ OneHolder)
<1>1. Init => OneHolder
  BY NoProcessType DEF Init, OneHolder, Listening
<1> QED
  BY <1>1, InitIInv, NextIInv, NextOneHolder, PTL DEF Spec

(* What an endpoint serves is what its one listener was started with. *)
LEMMA ServingByHolder ==
  OneHolder =>
    \A p \in Pid : Listening(p) /\ proc[p].line \in Line
                     => Serving[proc[p].line] = proc[p].conf
<1> SUFFICES ASSUME OneHolder, NEW p \in Pid, Listening(p), proc[p].line \in Line
             PROVE  Serving[proc[p].line] = proc[p].conf
  OBVIOUS
<1>1. PortHeld(proc[p].line)
  BY DEF PortHeld
<1>2. Holder(proc[p].line) = p
  BY DEF Holder, OneHolder
<1> QED
  BY <1>1, <1>2 DEF Serving

LEMMA ServingDown ==
  ASSUME NEW i \in Line, ~PortHeld(i)
  PROVE  Serving[i] = Down
  BY DEF Serving

LEMMA ServingType == IInv /\ OneHolder => Serving \in [Line -> Conf \cup {Down}]
<1> SUFFICES ASSUME IInv, OneHolder, NEW i \in Line, PortHeld(i)
             PROVE  proc[Holder(i)].conf \in Conf
  BY DEF Serving
<1>1. PICK p \in Pid : Listening(p) /\ proc[p].line = i
  BY DEF PortHeld
<1>2. Serving[i] = proc[p].conf /\ Serving[i] = proc[Holder(i)].conf
  BY <1>1, ServingByHolder DEF Serving
<1> QED
  BY <1>2 DEF IInv, TypeOK, Process

(* The same facts about the state after a step. *)
LEMMA ServingAfterStep ==
  /\ (OneHolder =>
        \A p \in Pid : Listening(p) /\ proc[p].line \in Line
                         => Serving[proc[p].line] = proc[p].conf)'
  /\ (IInv /\ OneHolder => Serving \in [Line -> Conf \cup {Down}])'
  BY ServingByHolder, ServingType, PTL

(***************************************************************************)
(* A step after which every listener is either an old one or one that came *)
(* up on a free port with a configuration some process already carried.    *)
(***************************************************************************)
LEMMA ServeStep ==
  ASSUME IInv, OneHolder, IInv', OneHolder', env' = env,
         Offered' \subseteq Offered \cup {env},
         \A p \in Pid : Listening(p)' =>
            /\ proc'[p].line = proc[p].line /\ proc'[p].conf = proc[p].conf
            /\ Alive(p)
            /\ Listening(p) \/ ~PortHeld(proc[p].line)
  PROVE  Service!Serve
<1>1. ASSUME NEW i \in Line
      PROVE  \/ Serving'[i] \in {Serving[i], Down}
             \/ Serving[i] = Down /\ Serving'[i] \in Offered
  <2>1. CASE ~PortHeld(i)'
    BY <2>1 DEF Serving
  <2>2. CASE PortHeld(i)'
    <3>1. PICK p \in Pid : Listening(p)' /\ proc'[p].line = i
      BY <2>2 DEF PortHeld
    <3>2. Serving'[i] = proc[p].conf
      BY <3>1, ServingAfterStep
    <3>3. CASE Listening(p)
      BY <3>1, <3>2, <3>3, ServingByHolder
    <3>4. CASE ~Listening(p)
      <4>1. Serving[i] = Down
        BY <3>1, <3>4, ServingDown
      <4>2. proc[p].conf \in Offered
        BY <3>1 DEF Offered
      <4> QED
        BY <3>2, <4>1, <4>2
    <3> QED
      BY <3>3, <3>4
  <2> QED
    BY <2>1, <2>2
<1>2. Serving' \in [Line -> Conf \cup {Down}]
  BY ServingAfterStep
<1> QED
  BY <1>1, <1>2 DEF Service!Serve

(* The configurations processes carry are in use by processes only. *)
LEMMA OfferedShrinks ==
  ASSUME \A p \in Pid : Alive(p)' => Alive(p) /\ proc'[p].conf = proc[p].conf,
         pc' = "spawn" => loaded' = env \/ (pc = "spawn" /\ loaded' = loaded)
  PROVE  Offered' \subseteq Offered \cup {env}
  BY DEF Offered

LEMMA ServiceStep ==
  IInv /\ OneHolder /\ IInv' /\ OneHolder' /\ [Next]_vars
    => [Service!ServiceNext]_(Service!serviceVars)
<1> SUFFICES ASSUME IInv, OneHolder, IInv', OneHolder', [Next]_vars
             PROVE  Service!Serve \/ Service!Reconfigure
  BY DEF Service!ServiceNext
<1>1. CASE /\ UNCHANGED <<proc, env>>
           /\ pc' = "spawn" => loaded' = env \/ (pc = "spawn" /\ loaded' = loaded)
  <2>1. Offered' \subseteq Offered \cup {env}
    BY <1>1, OfferedShrinks DEF Alive
  <2> QED
    BY <1>1, <2>1, ServeStep DEF Listening, Alive
<1>2. CASE \E c \in Conf : SetEnv(c)
  <2>1. env' \in Conf /\ UNCHANGED <<proc, pc, loaded>>
    BY <1>2 DEF SetEnv, osVars, scriptVars
  <2>2. Offered' = Offered /\ Serving' = Serving
    BY <2>1 DEF Offered, Serving, PortHeld, Holder, Alive, Listening
  <2> QED
    BY <2>1, <2>2 DEF Service!Reconfigure
<1>3. CASE Spawn
  <2>1. nextPid \in Pid /\ ~Alive(nextPid)
    BY <1>3, SslAppsAssumption DEF Spawn, IInv, TypeOK, PidsLeft, TableInv, Pid
  <2>2. \A p \in Pid : proc'[p] = IF p = nextPid
          THEN [st |-> "forked", line |-> line, conf |-> loaded] ELSE proc[p]
    BY <1>3, <2>1 DEF Spawn, IInv, TypeOK
  <2>3. loaded \in Offered /\ pc = "spawn" /\ UNCHANGED <<env, loaded>>
    BY <1>3 DEF Spawn, Offered
  <2>4. Offered' \subseteq Offered \cup {env}
    BY <2>2, <2>3 DEF Offered, Alive
  <2>5. \A p \in Pid : Listening(p)' => proc'[p] = proc[p] /\ Listening(p) /\ Alive(p)
    BY <2>2 DEF Listening, Alive
  <2> QED
    BY <2>3, <2>4, <2>5, ServeStep
<1>4. CASE ContainerStops
  <2>1. \A p \in Pid : ~Alive(p)' /\ ~Listening(p)'
    BY <1>4, NoProcessType DEF ContainerStops, Alive, Listening
  <2>2. Offered' \subseteq Offered \cup {env} /\ env' = env
    BY <1>4, <2>1, OfferedShrinks DEF ContainerStops
  <2> QED
    BY <2>1, <2>2, ServeStep
<1>5. ASSUME NEW p \in Pid, Exec(p) \/ Bind(p) \/ Exit(p)
      PROVE  Service!Serve
  <2>1. /\ \A q \in Pid : q # p => proc'[q] = proc[q]
        /\ UNCHANGED <<env, pc, loaded>>
    BY <1>5 DEF Exec, Bind, Exit, scriptVars, IInv, TypeOK
  <2>2. Alive(p)
    BY <1>5 DEF Exec, Bind, Exit, Alive, IInv, TableInv
  <2>3. \/ ~Alive(p)' /\ ~Listening(p)'
        \/ /\ proc'[p].line = proc[p].line /\ proc'[p].conf = proc[p].conf
           /\ Listening(p)' => ~PortHeld(proc[p].line)
    <3>1. CASE Exec(p)
      BY <3>1 DEF Exec, Listening, IInv, TypeOK, Process
    <3>2. CASE Bind(p)
      BY <3>2, NoProcessType DEF Bind, Alive, Listening, IInv, TypeOK, Process
    <3>3. CASE Exit(p)
      BY <3>3, NoProcessType DEF Exit, Alive, Listening, IInv, TypeOK
    <3> QED
      BY <1>5, <3>1, <3>2, <3>3
  <2>4. Offered' \subseteq Offered \cup {env}
    BY <2>1, <2>2, <2>3, OfferedShrinks DEF Alive
  <2> QED
    BY <2>1, <2>2, <2>3, <2>4, ServeStep DEF Listening, Alive
<1> QED
  BY <1>1, <1>2, <1>3, <1>4, <1>5
  DEF Next, Script, Kernel, CallStop, CallStart, Pgrep, Pkill, Poll, SawNone,
      Stopped, SourceEnv, Entrypoint, osVars, vars, IInv, TypeOK

(***************************************************************************)
(* A served endpoint never changes configuration in place, and serves only *)
(* configurations a start found at the activation point: every behaviour   *)
(* of the script and the processes is one of NodeService.                  *)
(***************************************************************************)
THEOREM Implementation == Spec => ImplementsService
<1>1. Init => Service!ServiceInit
  <2> SUFFICES ASSUME Init PROVE Service!ServiceInit
    OBVIOUS
  <2>1. \A p \in Pid : ~Alive(p) /\ ~Listening(p)
    BY NoProcessType DEF Init, Alive, Listening
  <2>2. Offered = {} /\ \A i \in Line : ~PortHeld(i)
    BY <2>1 DEF Init, Offered, PortHeld
  <2> QED
    BY <2>2 DEF Init, Serving, Service!ServiceInit
<1> QED
  BY <1>1, OneHolderAlways, ServiceStep, PTL
  DEF Spec, ImplementsService, Service!ServiceSpec

-------------------------------------------------------------------------------
(* The playbooks. *)

(* What the script is doing after a playbook called stop, or start. *)
Stopping == pc \in {"idle", "pgrep", "pkill", "poll"} /\ (pc # "idle" => ~restarting)
Starting == pc \in {"idle", "start", "spawn"} /\ (pc # "start" => loaded = env)

(* Stage 6/6, by the step it comes to next. *)
PlanInv ==
  run = "running" /\ walk = "plan" =>
    /\ at \in 1 .. 12
    /\ at \in {5, 10} => Stopping
    /\ at = 8 => Starting
    /\ at \notin {5, 8, 10} => pc = "idle"
    /\ at >= 3 => ~mod
    /\ at \in 6 .. 11 => cnf = "groups"
    /\ at \in 7 .. 8 => env = Pqc
    /\ at >= 11 => env = NoConf
    /\ at = 12 => cnf = "absent"
    /\ at \in 4 .. 8 => pidSeen < nextPid
    /\ at = 8 /\ pc # "start" => pidSeen < first

(* The real provider's stage. *)
RealInv ==
  run = "running" /\ walk = "real" =>
    /\ at \in 1 .. 10
    /\ at \in {3, 7} => Stopping
    /\ at \in {6, 10} => Starting
    /\ at \notin {3, 6, 7, 10} => pc = "idle"
    /\ at \in 4 .. 8 => cnf = "module"
    /\ at \in 5 .. 6 => env = Pqc
    /\ at >= 8 => env = NoConf
    /\ at >= 9 => cnf = "absent" /\ ~mod

(* The last start of a run that is over may still be at work, or the container *)
(* has been started again since.                                               *)
DoneInv ==
  run = "done" =>
    /\ cnf = "absent" /\ ~mod /\ env = NoConf
    /\ pc \in {"idle", "start", "spawn", "down"}
    /\ pc \in {"idle", "spawn"} => loaded = NoConf

Shape ==
  /\ run \in {"off", "running", "aborted", "done"}
  /\ walk \in {"plan", "real"}
  /\ pidSeen \in Nat

RunInv == Shape /\ PlanInv /\ RealInv /\ DoneInv

-------------------------------------------------------------------------------
(* The steps of the two walks. *)
LEMMA PlanSteps ==
  /\ Len(PlanWalk) = 12
  /\ PlanWalk[1] = Stage("module") /\ PlanWalk[2] = Unstage("module")
  /\ PlanWalk[3] = Do("pidBefore")
  /\ PlanWalk[4] = Do("pre") /\ PlanWalk[5] = Stage("groups")
  /\ PlanWalk[6] = Do("activate") /\ PlanWalk[7] = Do("restart")
  /\ PlanWalk[8] = Do("pidAfter")
  /\ PlanWalk[9] = Do("pre") /\ PlanWalk[10] = Do("deactivate")
  /\ PlanWalk[11] = Unstage("groups") /\ PlanWalk[12] = Do("restart")
BY DEF PlanWalk, L2, L2Undo, L3, L3Undo

LEMMA RealSteps ==
  /\ Len(RealWalk) = 10
  /\ RealWalk[1] = Stage("module")
  /\ RealWalk[2] = Do("pre") /\ RealWalk[3] = Stage("module")
  /\ RealWalk[4] = Do("activate") /\ RealWalk[5] = Do("restart")
  /\ RealWalk[6] = Do("pre") /\ RealWalk[7] = Do("deactivate")
  /\ RealWalk[8] = Unstage("module") /\ RealWalk[9] = Do("restart")
  /\ RealWalk[10] = Unstage("module")
BY DEF RealWalk, L2, L2Undo, L3, L3Undo

LEMMA OpInPlan ==
  ASSUME walk = "plan", at \in 1 .. 12
  PROVE  /\ Len(Steps[walk]) = 12
         /\ Op.op = "stage" => (at = 1 /\ Op.frag = "module") \/ (at = 5 /\ Op.frag = "groups")
         /\ Op.op = "unstage" => (at = 2 /\ Op.frag = "module") \/ (at = 11 /\ Op.frag = "groups")
         /\ Op.op = "pre" => at \in {4, 9}
         /\ Op.op = "activate" => at = 6
         /\ Op.op = "deactivate" => at = 10
         /\ Op.op = "restart" => at \in {7, 12}
         /\ Op.op = "pidBefore" => at = 3
         /\ Op.op = "pidAfter" => at = 8
<1>1. Op = PlanWalk[at] /\ Len(Steps[walk]) = 12
  BY PlanSteps DEF Op, Steps
<1>2. at \in {1, 2, 3, 4, 5, 6, 7, 8, 9, 10, 11, 12}
  OBVIOUS
<1> QED
  BY <1>1, <1>2, PlanSteps DEF Stage, Unstage, Do

LEMMA OpInReal ==
  ASSUME walk = "real", at \in 1 .. 10
  PROVE  /\ Len(Steps[walk]) = 10
         /\ Op.op = "stage" => at \in {1, 3} /\ Op.frag = "module"
         /\ Op.op = "unstage" => at \in {8, 10} /\ Op.frag = "module"
         /\ Op.op = "pre" => at \in {2, 6}
         /\ Op.op = "activate" => at = 4
         /\ Op.op = "deactivate" => at = 7
         /\ Op.op = "restart" => at \in {5, 9}
         /\ Op.op \notin {"pidBefore", "pidAfter"}
<1>1. Op = RealWalk[at] /\ Len(Steps[walk]) = 10
  BY RealSteps DEF Op, Steps
<1>2. at \in {1, 2, 3, 4, 5, 6, 7, 8, 9, 10}
  OBVIOUS
<1> QED
  BY <1>1, <1>2, RealSteps DEF Stage, Unstage, Do

-------------------------------------------------------------------------------
(* A run's steps are steps of the service script and its node, so what was *)
(* proved of those holds under the playbooks.                              *)
LEMMA StepIsServiceStep == [ProvisionNext]_allVars => [Next]_vars
<1> SUFFICES ASSUME [ProvisionNext]_allVars PROVE [Next]_vars
  OBVIOUS
<1>1. CASE \E w \in Walks : Run(w)
  BY <1>1 DEF Run
<1>2. CASE Apply
  <2>1. CASE DoStage \/ DoUnstage \/ DoPidBefore \/ DoPidAfter
    BY <2>1 DEF DoStage, DoUnstage, DoPidBefore, DoPidAfter
  <2>2. CASE DoPre \/ DoRestart
    BY <2>2 DEF DoPre, DoRestart, Next, Script
  <2>3. CASE DoActivate \/ DoDeactivate
    BY <2>3, SslAppsAssumption, ProvisionNodeAssumption DEF DoActivate, DoDeactivate, Next
  <2> QED
    BY <1>2, <2>1, <2>2, <2>3 DEF Apply
<1>3. CASE Abort
  BY <1>3 DEF Abort
<1>4. CASE NodeStops
  BY <1>4 DEF NodeStops, Next
<1>5. CASE ScriptRuns
  BY <1>5 DEF ScriptRuns, Next, Script
<1>6. CASE (Kernel \/ Entrypoint) /\ Beside
  BY <1>6 DEF Next
<1>7. CASE UNCHANGED allVars
  BY <1>7 DEF allVars
<1> QED
  BY <1>1, <1>2, <1>3, <1>4, <1>5, <1>6, <1>7 DEF ProvisionNext

LEMMA ServiceInv == ProvisionSpec => []IInv
<1>1. ProvisionInit => IInv
  BY InitIInv DEF ProvisionInit
<1>2. IInv /\ [ProvisionNext]_allVars => IInv'
  BY StepIsServiceStep, NextIInv
<1> QED
  BY <1>1, <1>2, PTL DEF ProvisionSpec

-------------------------------------------------------------------------------
(* The lowest pid that matches was handed out before. *)
LEMMA PidReadFacts ==
  ASSUME IInv
  PROVE  /\ PidRead \in Nat /\ PidRead < nextPid
         /\ Matches # {} => PidRead \in Matches
<1>1. Matches \subseteq Nat /\ \A p \in Matches : p < nextPid
  BY DEF Matches, IInv, TableInv, TypeOK, Alive, Pid
<1>2. CASE Matches = {}
  BY <1>2 DEF PidRead, IInv, TypeOK
<1>3. CASE Matches # {}
  <2>1. \E p \in Matches : \A q \in Matches : p <= q
    BY <1>1, <1>3, LeastNumber
  <2>2. PidRead \in Matches
    BY <1>3, <2>1 DEF PidRead
  <2> QED
    BY <1>1, <2>2
<1> QED
  BY <1>2, <1>3

(* Where the walk stands after a step: further on, or at its end. *)
LEMMA Advances ==
  ASSUME RunInv, run = "running", Advance
  PROVE  /\ walk' = walk
         /\ walk = "plan" => IF at < 12 THEN at' = at + 1 /\ run' = run ELSE run' = "done"
         /\ walk = "real" => IF at < 10 THEN at' = at + 1 /\ run' = run ELSE run' = "done"
BY OpInPlan, OpInReal DEF RunInv, PlanInv, RealInv, Advance

LEMMA FileStep ==
  ASSUME RunInv, DoStage \/ DoUnstage
  PROVE  RunInv'
<1>1. run = "running" /\ pc = "idle" /\ Advance /\ UNCHANGED <<vars, pidSeen>>
  BY DEF DoStage, DoUnstage, RunsOp, checkVars
<1>2. \/ Op.op = "stage" /\ cnf' = Op.frag /\ mod' = (mod \/ Op.frag = "module")
      \/ Op.op = "unstage" /\ cnf' = "absent" /\ mod' = (mod /\ Op.frag # "module")
  BY DEF DoStage, DoUnstage, RunsOp
<1>3. UNCHANGED <<pc, env, restarting, loaded, nextPid, first, pidSeen>>
  BY <1>1 DEF vars
<1>4. CASE walk = "plan"
  <2>1. at \in 1 .. 12
    BY <1>1, <1>4 DEF RunInv, PlanInv
  <2>2. \/ at = 1
        \/ at = 2 /\ ~mod'
        \/ at = 5 /\ (~mod => ~mod') /\ cnf' = "groups"
        \/ at = 11 /\ (~mod => ~mod') /\ cnf' = "absent"
    BY <1>2, <1>4, <2>1, OpInPlan
  <2>3. at' = at + 1 /\ run' = run /\ walk' = walk
    BY <1>1, <1>4, <2>2, Advances
  <2> QED
    BY <1>1, <1>3, <1>4, <2>2, <2>3 DEF RunInv, Shape, PlanInv, RealInv, DoneInv
<1>5. CASE walk = "real"
  <2>1. at \in 1 .. 10
    BY <1>1, <1>5 DEF RunInv, RealInv
  <2>2. \/ at = 1
        \/ at = 3 /\ cnf' = "module"
        \/ at \in {8, 10} /\ ~mod' /\ cnf' = "absent"
    BY <1>2, <1>5, <2>1, OpInReal
  <2>3. /\ walk' = walk
        /\ IF at = 10 THEN run' = "done" ELSE run' = run /\ at' = at + 1
    BY <1>1, <1>5, <2>2, Advances
  <2> QED
    BY <1>1, <1>3, <1>5, <2>2, <2>3 DEF RunInv, Shape, PlanInv, RealInv, DoneInv, Starting
<1> QED
  BY <1>4, <1>5 DEF RunInv, Shape

LEMMA PidStep ==
  ASSUME IInv, RunInv, DoPidBefore \/ DoPidAfter
  PROVE  RunInv'
<1>1. run = "running" /\ pc = "idle" /\ Advance /\ UNCHANGED <<vars, nodeVars>>
  BY DEF DoPidBefore, DoPidAfter, RunsOp
<1>2. pidSeen' \in Nat /\ (DoPidBefore => pidSeen' < nextPid)
  BY PidReadFacts DEF DoPidBefore, DoPidAfter
<1>3. CASE walk = "plan"
  BY <1>1, <1>2, <1>3, Advances, OpInPlan
  DEF RunInv, Shape, PlanInv, RealInv, DoneInv, DoPidBefore, DoPidAfter, RunsOp, vars, nodeVars,
      Stopping, Starting
<1>4. CASE walk = "real"
  BY <1>1, <1>4, OpInReal DEF RunInv, RealInv, DoPidBefore, DoPidAfter, RunsOp
<1> QED
  BY <1>3, <1>4 DEF RunInv, Shape

LEMMA HookStep ==
  ASSUME IInv, RunInv, DoPre \/ DoActivate \/ DoDeactivate \/ DoRestart
  PROVE  RunInv'
<1>1. run = "running" /\ pc = "idle" /\ Advance
        /\ UNCHANGED <<cnf, mod, pidSeen, nextPid, first, loaded>>
  BY DEF DoPre, DoActivate, DoDeactivate, DoRestart, RunsOp, CallStop, CallStart, SetEnv,
         nodeVars, checkVars, osVars, scriptVars, historyVars
<1>2. /\ DoPre => pc' = "pgrep" /\ ~restarting' /\ env' = env
      /\ DoActivate => pc' = "idle" /\ env' = Pqc
      /\ DoDeactivate => pc' = "idle" /\ env' = NoConf
      /\ DoRestart => pc' = "start" /\ env' = env
  BY DEF DoPre, DoActivate, DoDeactivate, DoRestart, CallStop, CallStart, SetEnv, scriptVars
<1>3. CASE walk = "plan"
  BY <1>1, <1>2, <1>3, Advances, OpInPlan
  DEF RunInv, Shape, PlanInv, RealInv, DoneInv, DoPre, DoActivate, DoDeactivate, DoRestart, RunsOp,
      Stopping, Starting
<1>4. CASE walk = "real"
  BY <1>1, <1>2, <1>4, Advances, OpInReal
  DEF RunInv, Shape, PlanInv, RealInv, DoneInv, DoPre, DoActivate, DoDeactivate, DoRestart, RunsOp,
      Stopping, Starting
<1> QED
  BY <1>3, <1>4 DEF RunInv, Shape

(* The script at work between two playbooks' calls. *)
LEMMA ScriptKeepsRun ==
  ASSUME IInv, RunInv, ScriptRuns
  PROVE  RunInv'
<1>1. UNCHANGED <<cnf, mod, run, walk, at, pidSeen, env, restarting>>
  BY DEF ScriptRuns, Beside, Pgrep, Pkill, Poll, SourceEnv, Spawn, nodeVars, runVars, checkVars
<1>2. CASE Pgrep \/ Pkill \/ Poll
  <2>1. /\ pc \in {"pgrep", "pkill", "poll"}
        /\ pc' \in {"pkill", "poll"} \/ pc' = IF restarting THEN "start" ELSE "idle"
        /\ UNCHANGED <<nextPid, first, loaded>>
    BY <1>2 DEF Pgrep, Pkill, Poll, SawNone, Stopped, osVars, historyVars
  <2> QED
    BY <1>1, <2>1 DEF RunInv, Shape, PlanInv, RealInv, DoneInv, Stopping, Starting
<1>3. CASE SourceEnv
  <2>1. pc = "start" /\ pc' \in {"idle", "spawn"} /\ loaded' = env
          /\ first' = nextPid /\ nextPid' = nextPid
    BY <1>3 DEF SourceEnv, osVars
  <2> QED
    BY <1>1, <2>1 DEF RunInv, Shape, PlanInv, RealInv, DoneInv, Stopping, Starting
<1>4. CASE Spawn
  <2>1. pc = "spawn" /\ pc' \in {"idle", "spawn"} /\ nextPid' = nextPid + 1
          /\ UNCHANGED <<loaded, first>>
    BY <1>4 DEF Spawn, historyVars
  <2>2. nextPid \in Nat
    BY DEF IInv, TypeOK
  <2> QED
    BY <1>1, <2>1, <2>2 DEF RunInv, Shape, PlanInv, RealInv, DoneInv, Stopping, Starting
<1> QED
  BY <1>2, <1>3, <1>4 DEF ScriptRuns

LEMMA StepKeepsRun == IInv /\ RunInv /\ [ProvisionNext]_allVars => RunInv'
<1> SUFFICES ASSUME IInv, RunInv, [ProvisionNext]_allVars PROVE RunInv'
  OBVIOUS
<1>1. ASSUME NEW w \in Walks, Run(w) PROVE RunInv'
  BY <1>1 DEF Run, Walks, Steps, RunInv, Shape, PlanInv, RealInv, DoneInv, Stopping, Starting, vars, nodeVars
<1>2. CASE Apply
  BY <1>2, FileStep, PidStep, HookStep DEF Apply
<1>3. CASE Abort
  BY <1>3 DEF Abort, Forget, RunInv, Shape, PlanInv, RealInv, DoneInv
<1>4. CASE NodeStops
  BY <1>4 DEF NodeStops, ContainerStops, Forget, runVars, checkVars, nodeVars,
              RunInv, Shape, PlanInv, RealInv, DoneInv
<1>5. CASE ScriptRuns
  BY <1>5, ScriptKeepsRun
<1>6. CASE Kernel /\ Beside
  <2>1. UNCHANGED <<nextPid, env, scriptVars, historyVars>>
    BY <1>6 DEF Kernel, Exec, Bind, Exit
  <2> QED
    BY <1>6, <2>1 DEF Beside, nodeVars, runVars, checkVars, scriptVars, historyVars,
                      RunInv, Shape, PlanInv, RealInv, DoneInv, Stopping, Starting
<1>7. CASE Entrypoint /\ Beside
  BY <1>7 DEF Entrypoint, Beside, nodeVars, runVars, checkVars, osVars, historyVars,
              RunInv, Shape, PlanInv, RealInv, DoneInv, Stopping, Starting
<1>8. CASE UNCHANGED allVars
  BY <1>8 DEF allVars, vars, RunInv, Shape, PlanInv, RealInv, DoneInv, Stopping, Starting
<1> QED
  BY <1>1, <1>2, <1>3, <1>4, <1>5, <1>6, <1>7, <1>8 DEF ProvisionNext

LEMMA RunInvariant == ProvisionSpec => [](IInv /\ RunInv)
<1>1. ProvisionInit => RunInv
  BY DEF ProvisionInit, RunInv, Shape, PlanInv, RealInv, DoneInv
<1> QED
  BY <1>1, StepKeepsRun, ServiceInv, PTL DEF ProvisionSpec

-------------------------------------------------------------------------------
(***************************************************************************)
(* The last rollback of either script leaves the node as it was before any *)
(* run, whatever runs broke off and wherever the container stopped.        *)
(***************************************************************************)
THEOREM CompletedRunsRestore == ProvisionSpec => []CompletedRunRestores
<1>1. RunInv => CompletedRunRestores
  BY DEF RunInv, DoneInv, CompletedRunRestores
<1> QED
  BY <1>1, RunInvariant, PTL

(***************************************************************************)
(* ... and if its last stop found the services gone, they all listen again *)
(* on the built-in configuration once they have settled.                   *)
(***************************************************************************)
THEOREM CompletedRunsServeDefault == ProvisionSpec => []CompletedRunServesDefault
<1>1. IInv => RestartTakesEffect
  BY SettledStartServes
<1>2. RestartTakesEffect /\ RunInv => CompletedRunServesDefault
  BY DEF RestartTakesEffect, CompletedRunServesDefault, RunInv, DoneInv, Served
<1> QED
  BY <1>1, <1>2, RunInvariant, PTL

(***************************************************************************)
(* The order of the hooks: while a run is under way no service is started  *)
(* on a configuration file that is not there.                              *)
(***************************************************************************)
THEOREM NoStartDangles == ProvisionSpec => []NoDanglingStart
<1>1. RunInv => NoDanglingStart
  <2> SUFFICES ASSUME RunInv, run = "running", pc \in {"start", "spawn"}
               PROVE  /\ pc = "start" /\ env = Pqc => cnf # "absent"
                      /\ pc = "spawn" /\ loaded = Pqc => cnf # "absent"
    BY DEF NoDanglingStart
  <2>1. CASE walk = "plan"
    BY <2>1 DEF RunInv, PlanInv, Stopping, Starting
  <2>2. CASE walk = "real"
    BY <2>2, ProvisionNodeAssumption DEF RunInv, RealInv, Stopping, Starting
  <2> QED
    BY <2>1, <2>2 DEF RunInv, Shape
<1> QED
  BY <1>1, RunInvariant, PTL

(***************************************************************************)
(* demo.sh's restart check, which compares two pids, is right whenever the *)
(* stop before it did find the services gone.                              *)
(***************************************************************************)
THEOREM RestartChecksAreRight == ProvisionSpec => RestartCheckIsRight
<1>1. ASSUME IInv, RunInv, DoPidAfter, since = "fresh"
      PROVE  verdict' = "new" /\ \A p \in Matches : proc[p].conf = Pqc
  <2>1. walk = "plan" /\ at = 8 /\ run = "running" /\ pc = "idle"
    BY <1>1, OpInPlan, OpInReal DEF DoPidAfter, RunsOp, RunInv, Shape, PlanInv, RealInv
  <2>2. pidSeen < first /\ loaded = Pqc
    BY <1>1, <2>1 DEF RunInv, PlanInv, Starting
  <2>3. \A p \in Matches : p >= first /\ proc[p].conf = loaded
    <3>1. \A p \in Pid : Alive(p) => p < nextPid
      BY <1>1, SslAppsAssumption DEF IInv, TypeOK, TableInv, Pid
    <3>2. nextPid \in Nat /\ first \in Nat
      BY <1>1, SslAppsAssumption DEF IInv, TypeOK
    <3> QED
      BY <1>1, <3>1, <3>2 DEF IInv, FreshInv, Matches, Alive, Pid
  <2>4. PidRead # pidSeen \/ PidRead = 0
    <3>1. CASE Matches = {}
      BY <3>1 DEF PidRead
    <3>2. CASE Matches # {}
      BY <1>1, <3>2, <2>2, <2>3, PidReadFacts, SslAppsAssumption DEF IInv, TypeOK, RunInv, Shape
    <3> QED
      BY <3>1, <3>2
  <2> QED
    BY <1>1, <2>2, <2>3, <2>4 DEF DoPidAfter
<1>2. IInv /\ RunInv /\ [ProvisionNext]_allVars
        => [DoPidAfter /\ since = "fresh" =>
              verdict' = "new" /\ \A p \in Matches : proc[p].conf = Pqc]_allVars
  BY <1>1
<1> QED
  BY <1>2, RunInvariant, PTL DEF ProvisionSpec, RestartCheckIsRight
===============================================================================
