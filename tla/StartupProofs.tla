---------------------------- MODULE StartupProofs ----------------------------
(***************************************************************************)
(* Proofs about Startup, for any registry, deployments, ladders and bounds. *)
(***************************************************************************)
EXTENDS Startup, RegistryProofs

LEMMA StagesBegin ==
  ASSUME StartupInit
  PROVE  StartupInv
BY DEF StartupInit, StartupInv, LaddersSet, HookedLast, ServesLast, Processes, Stages

\* A step of one process that neither dies nor hooks its consumers.
LEMMA StageStep ==
  ASSUME StartupInv, NEW p \in Processes, NEW s \in Stages, Go(p, s), stage[p] # "down",
         s # "down", p \notin consuming,
         UNCHANGED <<ladder, consuming, settings>>, connected \subseteq connected',
         base => base', tiers \subseteq tiers',
         s \in {"hookFull", "hook"} => base' /\ ladder[p] \subseteq tiers',
         p = "api" /\ s \in {"base", "names", "full"} => "api" \in connected',
         p = "api" /\ s = "up" => ~(settings.embedded /\ settings.required)
  PROVE  StartupInv'
<1>1. stage'[p] = s /\ \A o \in Processes : o # p => stage'[o] = stage[o]
  BY DEF Go, StartupInv, LaddersSet
<1>2. LaddersSet'
  BY <1>1 DEF Go, StartupInv, LaddersSet
<1>3. HookedLast'
  BY <1>1 DEF StartupInv, HookedLast
<1>4. ServesLast'
  BY <1>1 DEF StartupInv, ServesLast, Processes
<1>5. QED
  BY <1>2, <1>3, <1>4 DEF StartupInv

LEMMA DeathKeeps ==
  ASSUME StartupInv, NEW p \in Processes, Die(p), UNCHANGED <<settings, rabbit>>
  PROVE  StartupInv'
<1>1. /\ stage'[p] = "down" /\ ladder'[p] = {}
      /\ \A o \in Processes : o # p => stage'[o] = stage[o] /\ ladder'[o] = ladder[o]
      /\ stage' \in [Processes -> Stages] /\ ladder' \in [Processes -> Ladders \cup {{}}]
  BY DEF Die, Go, StartupInv, LaddersSet, Stages
<1>2. /\ consuming' = consuming \ {p} /\ connected' = connected \ {p}
      /\ UNCHANGED <<settings, base, tiers>>
  BY DEF Die, rabbit
<1>3. LaddersSet' /\ HookedLast'
  BY <1>1, <1>2 DEF StartupInv, LaddersSet, HookedLast
<1>4. ServesLast'
  BY <1>1, <1>2 DEF StartupInv, ServesLast, Processes
<1>5. QED
  BY <1>3, <1>4 DEF StartupInv

\* A step that no process takes: RabbitMQ loses nothing it was told to have.
LEMMA ServingKeeps ==
  ASSUME StartupInv, UNCHANGED <<stage, ladder, consuming, settings>>,
         connected \subseteq connected', base => base', tiers \subseteq tiers'
  PROVE  StartupInv'
BY DEF StartupInv, LaddersSet, HookedLast, ServesLast

LEMMA ConnectsGrow ==
  ASSUME Connects
  PROVE  connected \subseteq connected' /\ (base => base') /\ tiers \subseteq tiers'
BY DEF Connects, DeclareBase, rabbit

-----------------------------------------------------------------------------
(* The steps of a start.                                                   *)

\* Who has not got as far as serving consumes nothing.
LEMMA NotYetConsuming ==
  ASSUME StartupInv, NEW p \in Processes, stage[p] # "up"
  PROVE  p \notin consuming
BY DEF StartupInv, HookedLast

LEMMA StartKeeps ==
  ASSUME StartupInv, NEW p \in Processes, Start(p)
  PROVE  StartupInv'
<1>1. PICK l \in Ladders, s \in {"seed", "connect"} :
        ladder' = [ladder EXCEPT ![p] = l] /\ stage' = [stage EXCEPT ![p] = s]
  BY DEF Start, Go
<1>2. stage[p] = "down" /\ UNCHANGED <<settings, connected, consuming, base, tiers>>
  BY DEF Start, rabbit
<1>3. /\ stage'[p] = s /\ ladder'[p] = l /\ p \notin consuming
      /\ \A o \in Processes : o # p => stage'[o] = stage[o] /\ ladder'[o] = ladder[o]
  BY <1>1, <1>2, NotYetConsuming DEF StartupInv, LaddersSet
<1>4. LaddersSet'
  BY <1>1, <1>3 DEF StartupInv, LaddersSet, Stages
<1>5. HookedLast'
  BY <1>2, <1>3 DEF StartupInv, HookedLast
<1>6. ServesLast'
  BY <1>2, <1>3 DEF StartupInv, ServesLast, Processes
<1>7. QED
  BY <1>4, <1>5, <1>6 DEF StartupInv

LEMMA SeedStageKeeps ==
  ASSUME StartupInv, SeedOnStartup
  PROVE  StartupInv'
<1>1. "api" \in Processes /\ {"seed", "connect"} \subseteq Stages
  BY DEF Processes, Stages
<1>2. PICK s \in {"seed", "connect"} :
        /\ stage["api"] = "seed" /\ Go("api", s)
        /\ UNCHANGED <<ladder, consuming, settings, connected, base, tiers>>
  BY DEF SeedOnStartup, rabbit
<1>3. "api" \notin consuming
  BY <1>1, <1>2, NotYetConsuming
<1>4. QED
  BY <1>1, <1>2, <1>3, StageStep

LEMMA ConnectKeeps ==
  ASSUME StartupInv, NEW p \in Processes, connect_broker(p)
  PROVE  StartupInv'
<1>1. stage[p] = "connect" /\ p \notin consuming /\ UNCHANGED <<settings, base, tiers>>
  BY NotYetConsuming DEF connect_broker, rabbit
<1>2. CASE brokerUp
  <2>1. PICK s \in {"base", "hookNames"} :
          Go(p, s) /\ connected' = connected \cup {p} /\ UNCHANGED <<ladder, consuming>>
    BY <1>2 DEF connect_broker
  <2>2. QED
    BY <1>1, <2>1, StageStep DEF Stages
<1>3. CASE ~brokerUp /\ (p = "worker" \/ settings.required)
  BY <1>3, DeathKeeps DEF connect_broker
<1>4. CASE ~brokerUp /\ ~(p = "worker" \/ settings.required)
  <2>1. Go(p, "up") /\ UNCHANGED <<ladder, connected, consuming>>
    BY <1>4 DEF connect_broker
  <2>2. QED
    BY <1>1, <1>4, <2>1, StageStep DEF Stages
<1>5. QED
  BY <1>2, <1>3, <1>4

LEMMA LifespanKeeps ==
  ASSUME StartupInv, lifespan_topology
  PROVE  StartupInv'
<1>1. /\ "api" \in Processes /\ stage["api"] \in {"base", "names", "full"}
      /\ UNCHANGED <<settings, ladder, connected, consuming>>
  BY DEF lifespan_topology, Processes
<1>2. "api" \in connected /\ "api" \notin consuming
  BY <1>1, NotYetConsuming DEF StartupInv, ServesLast
<1>3. (base => base') /\ tiers \subseteq tiers'
  BY DEF lifespan_topology, DeclareBase, rabbit
<1>4. PICK s \in {"names", "full", "hookNames", "up"} :
        Go("api", s) /\ (s = "up" => ~settings.embedded)
  BY <1>2 DEF lifespan_topology, AfterTopology
<1>5. QED
  BY <1>1, <1>2, <1>3, <1>4, StageStep DEF Stages

LEMMA ConsumersKeep ==
  ASSUME StartupInv, NEW p \in Processes, start_consumers(p)
  PROVE  StartupInv'
<1>1. /\ stage[p] \in {"hookNames", "hookBase", "hookFull", "hook"} /\ p \notin consuming
      /\ UNCHANGED settings
  BY NotYetConsuming DEF start_consumers
<1>2. CASE stage[p] = "hookNames"
  <2>1. Go(p, "hookBase") /\ UNCHANGED <<ladder, connected, consuming, base, tiers>>
    BY <1>2 DEF start_consumers, rabbit
  <2>2. QED
    BY <1>1, <2>1, StageStep DEF Stages
<1>3. CASE stage[p] = "hookBase" /\ brokerUp
  <2>1. Go(p, "hookFull") /\ DeclareBase(p) /\ UNCHANGED <<ladder, connected, consuming>>
    BY <1>3 DEF start_consumers
  <2>2. QED
    BY <1>1, <2>1, StageStep DEF Stages, DeclareBase
<1>4. CASE stage[p] = "hookFull" /\ brokerUp
  <2>1. Go(p, "hook") /\ UNCHANGED <<ladder, connected, consuming, base, tiers>>
    BY <1>4 DEF start_consumers, rabbit
  <2>2. base /\ ladder[p] \subseteq tiers
    BY <1>4 DEF StartupInv, HookedLast
  <2>3. QED
    BY <1>1, <2>1, <2>2, StageStep DEF Stages
<1>5. CASE stage[p] = "hook" /\ brokerUp
  <2>1. /\ stage' = [stage EXCEPT ![p] = "up"] /\ consuming' = consuming \cup {p}
        /\ UNCHANGED <<ladder, connected, base, tiers>>
    BY <1>5 DEF start_consumers, rabbit, Go
  <2>2. base /\ ladder[p] \subseteq tiers
    BY <1>5 DEF StartupInv, HookedLast
  <2>3. stage'[p] = "up" /\ \A o \in Processes : o # p => stage'[o] = stage[o]
    BY <2>1 DEF StartupInv, LaddersSet
  <2>4. LaddersSet'
    BY <1>5, <2>1, <2>3 DEF StartupInv, LaddersSet, Stages
  <2>5. HookedLast' /\ ServesLast'
    BY <1>1, <2>1, <2>2, <2>3 DEF StartupInv, HookedLast, ServesLast, Processes
  <2>6. QED
    BY <2>4, <2>5 DEF StartupInv
<1>6. CASE stage[p] \in {"hookBase", "hookFull", "hook"} /\ ~brokerUp
  BY <1>6, DeathKeeps DEF start_consumers
<1>7. QED
  BY <1>1, <1>2, <1>3, <1>4, <1>5, <1>6 DEF start_consumers

-----------------------------------------------------------------------------
(* The inductive invariant, and what follows.                              *)

LEMMA StagesKeep ==
  ASSUME StartupInv, StartupNext
  PROVE  StartupInv'
<1>1. ASSUME NEW p \in Processes, Starting(p)
      PROVE  StartupInv'
  BY <1>1, StartKeeps, SeedStageKeeps, LifespanKeeps, ConnectKeeps, ConsumersKeep DEF Starting
<1>2. ASSUME NEW p \in Processes, Crash(p)
      PROVE  StartupInv'
  BY <1>2, DeathKeeps DEF Crash
<1>3. ASSUME NEW r \in Requests, Request(r)
      PROVE  StartupInv'
  <2>1. connected \subseteq connected' /\ (base => base') /\ tiers \subseteq tiers'
    BY <1>3, ConnectsGrow DEF Request, rabbit
  <2>2. QED
    BY <1>3, <2>1, ServingKeeps DEF Request
<1>4. CASE ApplyTopology
  BY <1>4, ConnectsGrow, ServingKeeps DEF ApplyTopology
<1>5. CASE Outage \/ Recover
  BY <1>5, ServingKeeps DEF Outage, Recover, process, rabbit
<1>6. QED
  BY <1>1, <1>2, <1>3, <1>4, <1>5 DEF StartupNext

LEMMA StagesHold == StartupSpec => []StartupInv
<1>1. StartupInit => StartupInv
  BY StagesBegin
<1>2. StartupInv /\ UNCHANGED startupVars => StartupInv'
  BY ServingKeeps DEF startupVars, process, rabbit
<1>3. StartupInv /\ [StartupNext]_startupVars => StartupInv'
  BY <1>2, StagesKeep
<1>4. QED
  BY <1>1, <1>3, PTL DEF StartupSpec

-----------------------------------------------------------------------------
(* The registry under the processes: every step of Startup keeps its       *)
(* invariant, though it declares names read before, seeds at the start of  *)
(* the API and rolls back what a killed API held, its seed included.       *)

LEMMA StillVars ==
  ASSUME IInv, UNCHANGED vars
  PROVE  IInv' /\ RegistryWrites
<1>1. UNCHANGED <<type, subscription>> /\ UNCHANGED brokerUp
  BY DEF vars, tables
<1>2. brokerUp' \in BOOLEAN
  BY <1>1 DEF IInv, TypeOK
<1>3. UNCHANGED <<tables, queue, owed, request, seeding, counters>>
  BY DEF vars
<1>4. QED
  BY <1>1, <1>2, <1>3, StillKeeps DEF RegistryWrites

LEMMA DeclaringKeeps ==
  ASSUME IInv, NEW ns \in SUBSET Modules, Declare(ns) \/ UNCHANGED <<queue, owed>>,
         UNCHANGED <<tables, brokerUp, request, seeding, counters>>
  PROVE  IInv' /\ RegistryWrites
<1>1. UNCHANGED <<type, subscription>>
  BY DEF tables
<1>2. CASE Declare(ns)
  BY <1>1, <1>2, DeclarationKeeps DEF RegistryWrites
<1>3. CASE UNCHANGED <<queue, owed>>
  BY <1>3, StillVars DEF vars
<1>4. QED
  BY <1>2, <1>3

LEMMA CrashRollsBack ==
  ASSUME IInv, NEW p \in Processes, Crash(p)
  PROVE  IInv' /\ RegistryWrites
<1>1. UNCHANGED <<tables, queue, owed, brokerUp, counters>>
  BY DEF Crash
<1>2. CASE p = "api"
  <2>1. request' = [r \in Requests |-> Idle] /\ seeding' = SeedIdle
    BY <1>2 DEF Crash
  <2>2. QED
    BY <1>1, <2>1, RollbackKeeps DEF RegistryWrites, tables
<1>3. CASE p # "api"
  <2>1. UNCHANGED <<request, seeding>>
    BY <1>3 DEF Crash
  <2>2. QED
    BY <1>1, <2>1, StillVars DEF vars
<1>4. QED
  BY <1>2, <1>3

LEMMA RegistryKeeps ==
  ASSUME IInv, ProcessInv, StartupNext
  PROVE  IInv' /\ RegistryWrites
<1>1. \A p \in Processes : names[p] \in SUBSET Modules
  BY DEF ProcessInv, StartupTypeOK
<1>2. ASSUME NEW p \in Processes, Starting(p)
      PROVE  IInv' /\ RegistryWrites
  <2>1. CASE Start(p) \/ connect_broker(p)
    BY <2>1, StillVars DEF Start, connect_broker
  <2>2. CASE SeedOnStartup
    <3>1. seed \/ UNCHANGED vars
      BY <2>2 DEF SeedOnStartup
    <3>2. QED
      BY <3>1, SeedKeeps, StillVars
  <2>3. CASE lifespan_topology
    <3>1. /\ UNCHANGED <<tables, brokerUp, request, seeding, counters>>
          /\ Declare(names["api"]) \/ UNCHANGED <<queue, owed>>
      BY <2>3 DEF lifespan_topology
    <3>2. QED
      BY <1>1, <3>1, DeclaringKeeps DEF Processes
  <2>4. CASE start_consumers(p)
    <3>1. /\ UNCHANGED <<tables, brokerUp, request, seeding, counters>>
          /\ Declare(names[p]) \/ UNCHANGED <<queue, owed>>
      BY <2>4 DEF start_consumers
    <3>2. QED
      BY <1>1, <3>1, DeclaringKeeps
  <2>5. QED
    BY <1>2, <2>1, <2>2, <2>3, <2>4 DEF Starting
<1>3. ASSUME NEW p \in Processes, Crash(p)
      PROVE  IInv' /\ RegistryWrites
  BY <1>3, CrashRollsBack
<1>4. ASSUME NEW r \in Requests, Request(r)
      PROVE  IInv' /\ RegistryWrites
  <2>1. Serve(r)
    BY <1>4 DEF Request
  <2>2. QED
    BY <2>1, ServeBegins, ServeWrites, BeginKeeps, DeclareMissingKeeps, FlushKeeps, CommitKeeps
<1>5. CASE ApplyTopology \/ Outage \/ Recover
  <2>1. apply_topology \/ Broker
    BY <1>5 DEF ApplyTopology, Outage, Recover
  <2>2. UNCHANGED <<type, subscription>>
    BY <2>1 DEF apply_topology, Broker, tables
  <2>3. QED
    BY <2>1, <2>2, TopologyKeeps DEF RegistryWrites
<1>6. QED
  BY <1>2, <1>3, <1>4, <1>5 DEF StartupNext

-----------------------------------------------------------------------------
(* The processes: what they read, connected and hooked.                    *)

LEMMA ProcessTyped ==
  ASSUME IInv', StartupInv', HooksConnected', RequestsServed', settings' \in Deployments,
         names' \in [Processes -> SUBSET Modules], connected' \subseteq Processes,
         base' \in BOOLEAN, crashes' \in 0..MaxCrashes, outages' \in 0..MaxOutages
  PROVE  ProcessInv'
BY DEF ProcessInv, StartupTypeOK, IInv, StartupInv, LaddersSet, HooksConnected

\* A process moves on: it reads names or forgets them, connects, hooks.
LEMMA MoveKeeps ==
  ASSUME ProcessInv, IInv', StartupInv', NEW p \in Processes, NEW s \in Stages, Go(p, s),
         NEW ns \in SUBSET Modules, names' = names \/ names' = [names EXCEPT ![p] = ns],
         connected \subseteq connected', connected' \subseteq connected \cup {p},
         consuming \subseteq consuming', consuming' \subseteq consuming \cup {p},
         s \in {"hookNames", "hookBase", "hookFull", "hook"} => p \in connected',
         consuming' # consuming => p \in connected,
         p = "api" => stage[p] # "up", base' = base \/ base' = TRUE,
         UNCHANGED <<settings, request, crashes, outages>>
  PROVE  ProcessInv'
<1>1. stage'[p] = s /\ \A o \in Processes : o # p => stage'[o] = stage[o]
  BY DEF Go, ProcessInv, StartupTypeOK
<1>2. HooksConnected'
  BY <1>1 DEF ProcessInv, HooksConnected
<1>3. RequestsServed'
  BY <1>1 DEF ProcessInv, RequestsServed, Processes
<1>4. names' \in [Processes -> SUBSET Modules]
  BY DEF ProcessInv, StartupTypeOK
<1>5. QED
  BY <1>2, <1>3, <1>4, ProcessTyped DEF ProcessInv, StartupTypeOK

LEMMA DieKeeps ==
  ASSUME ProcessInv, IInv', StartupInv', NEW p \in Processes, Die(p),
         stage["api"] # "up" \/ p # "api" \/ request' = [r \in Requests |-> Idle],
         request' = request \/ request' = [r \in Requests |-> Idle],
         crashes' \in 0..MaxCrashes, UNCHANGED <<settings, rabbit, outages>>
  PROVE  ProcessInv'
<1>1. stage'[p] = "down" /\ \A o \in Processes : o # p => stage'[o] = stage[o]
  BY DEF Die, Go, ProcessInv, StartupTypeOK
<1>2. HooksConnected'
  <2>1. consuming' \subseteq connected'
    BY DEF ProcessInv, HooksConnected, Die
  <2>2. \A o \in Processes : o # p => (o \in connected' <=> o \in connected)
    BY DEF Die
  <2>3. QED
    BY <1>1, <2>1, <2>2 DEF ProcessInv, HooksConnected
<1>3. RequestsServed'
  BY <1>1 DEF ProcessInv, RequestsServed, Processes
<1>4. names' \in [Processes -> SUBSET Modules] /\ connected' \subseteq Processes
  BY DEF Die, ProcessInv, StartupTypeOK
<1>5. QED
  BY <1>2, <1>3, <1>4, ProcessTyped DEF ProcessInv, StartupTypeOK, rabbit

\* Nobody moves: requests are served, RabbitMQ goes or comes back.
LEMMA StayKeeps ==
  ASSUME ProcessInv, IInv', StartupInv', connected \subseteq connected',
         connected' \subseteq Processes, base' = base \/ base' = TRUE,
         stage["api"] = "up" \/ UNCHANGED request, outages' \in 0..MaxOutages,
         UNCHANGED <<settings, stage, names, consuming, crashes>>
  PROVE  ProcessInv'
<1>1. HooksConnected' /\ RequestsServed'
  BY DEF ProcessInv, HooksConnected, RequestsServed
<1>2. QED
  BY <1>1, ProcessTyped DEF ProcessInv, StartupTypeOK

LEMMA StartingKeeps ==
  ASSUME ProcessInv, IInv', StartupInv', NEW p \in Processes, Starting(p)
  PROVE  ProcessInv'
<1>1. CASE Start(p)
  <2>1. PICK s \in {"seed", "connect"} : Go(p, s)
    BY <1>1 DEF Start
  <2>2. /\ stage[p] = "down" /\ names' = names /\ base' = base
        /\ UNCHANGED <<connected, consuming, settings, request, crashes, outages>>
    BY <1>1 DEF Start, vars, rabbit
  <2>3. QED
    BY <2>1, <2>2, MoveKeeps DEF Stages
<1>2. CASE p = "api" /\ SeedOnStartup
  <2>1. PICK s \in {"seed", "connect"} :
          /\ Go(p, s) /\ stage[p] = "seed" /\ names' = names /\ base' = base
          /\ UNCHANGED <<connected, consuming, settings, crashes, outages>>
    BY <1>2 DEF SeedOnStartup, rabbit
  <2>2. UNCHANGED request
    <3>1. seed => UNCHANGED request
      BY DEF seed, SeedLoads, SeedFlushes, SeedCommits, SeedFails
    <3>2. UNCHANGED vars => UNCHANGED request
      BY DEF vars
    <3>3. QED
      BY <1>2, <3>1, <3>2 DEF SeedOnStartup
  <2>3. QED
    BY <2>1, <2>2, MoveKeeps DEF Stages
<1>3. CASE connect_broker(p)
  <2>1. /\ stage[p] = "connect" /\ base' = base
        /\ UNCHANGED <<settings, request, crashes, outages, rabbit>>
    BY <1>3 DEF connect_broker, vars, rabbit
  <2>2. CASE brokerUp
    <3>1. PICK s \in {"base", "hookNames"} :
            Go(p, s) /\ connected' = connected \cup {p} /\ UNCHANGED <<names, consuming>>
      BY <1>3, <2>2 DEF connect_broker
    <3>2. QED
      BY <2>1, <3>1, MoveKeeps DEF Stages
  <2>3. CASE ~brokerUp /\ (p = "worker" \/ settings.required)
    <3>1. Die(p)
      BY <1>3, <2>3 DEF connect_broker
    <3>2. p # "api" \/ stage["api"] # "up"
      BY <2>1
    <3>3. crashes' \in 0..MaxCrashes
      BY <2>1 DEF ProcessInv, StartupTypeOK
    <3>4. QED
      BY <2>1, <3>1, <3>2, <3>3, DieKeeps
  <2>4. CASE ~brokerUp /\ ~(p = "worker" \/ settings.required)
    <3>1. Go(p, "up") /\ UNCHANGED <<names, connected, consuming>>
      BY <1>3, <2>4 DEF connect_broker
    <3>2. QED
      BY <2>1, <3>1, MoveKeeps DEF Stages
  <2>5. QED
    BY <2>2, <2>3, <2>4
<1>4. CASE p = "api" /\ lifespan_topology
  <2>1. /\ stage[p] \in {"base", "names", "full"}
        /\ UNCHANGED <<settings, request, connected, consuming, crashes, outages>>
    BY <1>4 DEF lifespan_topology
  <2>2. PICK s \in {"names", "full", "hookNames", "up"} :
          Go(p, s) /\ (s = "hookNames" => p \in connected)
    BY <1>4 DEF lifespan_topology, AfterTopology
  <2>3. PICK ns \in SUBSET Modules : names' = names \/ names' = [names EXCEPT ![p] = ns]
    BY <1>4, CommittedNames DEF lifespan_topology
  <2>4. base' = base \/ base' = TRUE
    BY <1>4 DEF lifespan_topology, DeclareBase, rabbit
  <2>5. /\ s \in Stages /\ (p = "api" => stage[p] # "up") /\ consuming \subseteq consuming'
        /\ consuming' \subseteq consuming \cup {p} /\ connected \subseteq connected'
        /\ connected' \subseteq connected \cup {p} /\ ~(consuming' # consuming)
        /\ s \notin {"hookBase", "hookFull", "hook"}
    BY <2>1 DEF Stages
  <2>6. s \in {"hookNames", "hookBase", "hookFull", "hook"} => p \in connected'
    BY <2>1, <2>2
  <2>7. QED
    BY <2>1, <2>2, <2>3, <2>4, <2>5, <2>6, MoveKeeps
<1>5. CASE start_consumers(p)
  <2>1. /\ stage[p] \in {"hookNames", "hookBase", "hookFull", "hook"} /\ p \in connected
        /\ UNCHANGED <<settings, request, crashes, outages>>
    BY <1>5 DEF start_consumers, counters, ProcessInv, HooksConnected
  <2>2. CASE Die(p) /\ UNCHANGED rabbit
    <3>1. crashes' \in 0..MaxCrashes /\ (p # "api" \/ stage["api"] # "up")
      BY <2>1 DEF ProcessInv, StartupTypeOK
    <3>2. QED
      BY <2>1, <2>2, <3>1, DieKeeps
  <2>3. CASE ~Die(p)
    <3>1. PICK s \in {"hookBase", "hookFull", "hook", "up"} : Go(p, s)
      BY <1>5, <2>3 DEF start_consumers
    <3>2. PICK ns \in SUBSET Modules : names' = names \/ names' = [names EXCEPT ![p] = ns]
      BY <1>5, <2>3, CommittedNames DEF start_consumers
    <3>3. /\ connected' = connected /\ consuming \subseteq consuming'
          /\ consuming' \subseteq consuming \cup {p} /\ (base' = base \/ base' = TRUE)
      BY <1>5, <2>3 DEF start_consumers, DeclareBase, rabbit
    <3>4. QED
      BY <2>1, <3>1, <3>2, <3>3, MoveKeeps DEF Stages
  <2>4. Die(p) => UNCHANGED rabbit
    BY <1>5 DEF start_consumers, Die, Go, rabbit, ProcessInv, StartupTypeOK
  <2>5. QED
    BY <2>2, <2>3, <2>4
<1>6. QED
  BY <1>1, <1>2, <1>3, <1>4, <1>5 DEF Starting

LEMMA ProcessesKeep ==
  ASSUME ProcessInv, IInv', StartupInv', StartupNext
  PROVE  ProcessInv'
<1>1. ASSUME NEW p \in Processes, Crash(p)
      PROVE  ProcessInv'
  <2>1. crashes' \in 0..MaxCrashes
    BY <1>1, StartupAssumption DEF Crash, ProcessInv, StartupTypeOK
  <2>2. QED
    BY <1>1, <2>1, DieKeeps DEF Crash
<1>2. outages' \in 0..MaxOutages \/ UNCHANGED outages => outages' \in 0..MaxOutages
  BY DEF ProcessInv, StartupTypeOK
<1>3. ASSUME Connects \/ UNCHANGED <<connected, rabbit>>
      PROVE  /\ connected \subseteq connected' /\ (base' = base \/ base' = TRUE)
             /\ connected' \subseteq Processes
  BY <1>3 DEF Connects, DeclareBase, rabbit, ProcessInv, StartupTypeOK, Processes
<1>4. ASSUME NEW r \in Requests, Request(r)
      PROVE  ProcessInv'
  BY <1>2, <1>3, <1>4, StayKeeps DEF Request
<1>5. CASE ApplyTopology
  BY <1>2, <1>3, <1>5, StayKeeps DEF ApplyTopology
<1>6. CASE Outage \/ Recover
  <2>1. outages' \in 0..MaxOutages
    BY <1>6, StartupAssumption DEF Outage, Recover, ProcessInv, StartupTypeOK
  <2>2. /\ connected' = connected /\ base' = base
        /\ UNCHANGED <<settings, stage, names, consuming, crashes, request>>
    BY <1>6 DEF Outage, Recover, Broker, process, rabbit
  <2>3. connected' \subseteq Processes
    BY <2>2 DEF ProcessInv, StartupTypeOK
  <2>4. QED
    BY <2>1, <2>2, <2>3, StayKeeps
<1>7. QED
  BY <1>1, <1>4, <1>5, <1>6, StartingKeeps DEF StartupNext

LEMMA ProcessesBegin ==
  ASSUME StartupInit
  PROVE  IInv /\ ProcessInv
<1>1. IInv
  BY InitHolds DEF StartupInit
<1>2. /\ StartupInv /\ RequestsServed /\ HooksConnected
  BY StagesBegin DEF StartupInit, Init, RequestsServed, HooksConnected, Processes
<1>3. StartupTypeOK
  <2>1. 0 \in 0..MaxCrashes /\ 0 \in 0..MaxOutages
    BY StartupAssumption
  <2>2. QED
    BY <1>1, <2>1 DEF IInv, StartupInit, StartupTypeOK, Stages
<1>4. QED
  BY <1>1, <1>2, <1>3 DEF ProcessInv

LEMMA StartupKeeps == IInv /\ ProcessInv /\ [StartupNext]_startupVars => IInv' /\ ProcessInv'
<1> SUFFICES ASSUME IInv, ProcessInv, [StartupNext]_startupVars PROVE IInv' /\ ProcessInv'
  OBVIOUS
<1>1. CASE StartupNext
  <2>1. IInv' /\ StartupInv'
    BY <1>1, RegistryKeeps, StagesKeep DEF ProcessInv
  <2>2. QED
    BY <1>1, <2>1, ProcessesKeep
<1>2. CASE UNCHANGED startupVars
  <2>1. /\ UNCHANGED vars /\ UNCHANGED <<settings, stage, names, ladder, connected, consuming>>
        /\ UNCHANGED <<base, tiers, crashes, outages>>
    BY <1>2 DEF startupVars, process, rabbit
  <2>2. IInv'
    BY <2>1, StillVars
  <2>3. StartupInv' /\ UNCHANGED request
    BY <2>1, ServingKeeps DEF ProcessInv, vars
  <2>4. connected' \subseteq Processes /\ outages' \in 0..MaxOutages
    BY <2>1 DEF ProcessInv, StartupTypeOK
  <2>5. QED
    BY <2>1, <2>2, <2>3, <2>4, StayKeeps
<1>3. QED
  BY <1>1, <1>2

LEMMA StartupInvariant == StartupSpec => [](IInv /\ ProcessInv)
<1>1. StartupInit => IInv /\ ProcessInv
  BY ProcessesBegin
<1>2. QED
  BY <1>1, StartupKeeps, PTL DEF StartupSpec

\* A step of the processes writes event_types and subscriptions only by a commit
\* or as the seed.
LEMMA StartupWrites ==
  ASSUME IInv, ProcessInv, [StartupNext]_startupVars
  PROVE  RegistryWrites
<1>1. UNCHANGED startupVars => UNCHANGED vars
  BY DEF startupVars
<1>2. QED
  BY <1>1, RegistryKeeps, StillVars

-----------------------------------------------------------------------------
(* The theorems.                                                           *)

\* The type invariant of the processes holds in every state, whatever their
\* ladders and the registry: what a start read are names of modules, consumers
\* are hooked over a connection, and the bounds are kept.
THEOREM ProcessesTyped == StartupSpec => []StartupTypeOK
BY StartupInvariant, PTL DEF ProcessInv

\* Under crashes of the API and of the worker, outages, seeds at startup and
\* declarations of names read earlier, every active subscription of an active
\* module has its queue or a reason that owed names: a start that declares what
\* it read before a request changed it takes nothing back.
THEOREM QueuesStayReady == StartupSpec => []QueuesReady
BY StartupInvariant, PTL DEF IInv

\* The same processes never mark a declared type discovered again, also when the
\* API is killed between the flush and the commit of a request.
THEOREM DeclarationsOutliveRestarts == StartupSpec => DeclaredStays
<1>1. IInv /\ ProcessInv /\ [StartupNext]_startupVars
        => [\A t \in Types : type[t].known /\ ~type[t].discovered
              => type'[t].known /\ ~type'[t].discovered]_vars
  BY StartupWrites, DeclarationsStep
<1>2. QED
  BY <1>1, StartupInvariant, PTL DEF StartupSpec, DeclaredStays

\* A start or a crash brings a cancelled subscription back in one way only: by a
\* seed that had found none.
THEOREM CancellationsOutliveRestarts == StartupSpec => CancelledStays
<1>1. IInv /\ ProcessInv /\ [StartupNext]_startupVars
        => [\A p \in Pairs : subscription[p] = "NONE" /\ subscription'[p] # "NONE"
              => \/ SeedLeaves /\ p \in seeding.subscribes
                 \/ \E r \in Requests : Commits(r) /\ request[r].from = "NONE"]_vars
  BY StartupWrites, CancellationsStep
<1>2. QED
  BY <1>1, StartupInvariant, PTL DEF StartupSpec, CancelledStays

\* With starts, crashes and seeds at startup too, a declared type changes owner or
\* schema only by one who may, or who had looked at it before it was claimed: the
\* seed of a start that loads after the claim leaves it alone.
THEOREM OwnersOutliveRestarts == StartupSpec => OwnersHold
<1>1. IInv /\ ProcessInv /\ [StartupNext]_startupVars
        => [\A t \in Types :
              Claimed(type[t]) /\ (type'[t].owner # type[t].owner \/ type'[t].schema # type[t].schema)
                => Entitled(t)]_vars
  BY StartupWrites, OwnersStep
<1>2. QED
  BY <1>1, StartupInvariant, PTL DEF StartupSpec, OwnersHold

\* For any registry, crashes and outages, with any ladders that are not empty:
\* whoever consumes q.dlq has the retry queue of every delay of its policy.
THEOREM ConsumersHaveQueues ==
  ASSUME {} \notin Ladders
  PROVE  StartupSpec => []RetriesHaveQueues
<1>1. StartupInv => RetriesHaveQueues
  BY DEF StartupInv, LaddersSet, HookedLast, RetriesHaveQueues, Delays
<1>2. QED
  BY <1>1, StagesHold, PTL

\* For any deployment, crashes and outages: with BROKER_REQUIRED and RUN_WORKER
\* an API that answers "up" has its consumers.
THEOREM HealthStaysHonest == StartupSpec => []HealthIsHonest
<1>1. StartupInv => HealthIsHonest
  BY DEF StartupInv, ServesLast, HealthIsHonest
<1>2. QED
  BY <1>1, StagesHold, PTL

===============================================================================
