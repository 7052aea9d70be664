-------------------------------- MODULE Startup --------------------------------
(***************************************************************************)
(* The processes of the Core around the registry: the API starts (seed,    *)
(* broker, topology, consumers when RUN_WORKER), the separate worker       *)
(* starts, either dies and is started again, RabbitMQ comes and goes, and  *)
(* requests change the registry while the API serves.                      *)
(***************************************************************************)
EXTENDS Registry

CONSTANTS
  Deployments,  \* settings: [required: BROKER_REQUIRED, embedded: RUN_WORKER]
  Ladders,      \* values of RETRY_DELAYS a start may find: sets of delays
  Fallback,     \* the delay of a policy whose ladder is empty
  MaxCrashes,   \* bound: processes killed
  MaxOutages    \* bound: outages of RabbitMQ

ASSUME StartupAssumption ==
  /\ Deployments \subseteq [required: BOOLEAN, embedded: BOOLEAN]
  /\ {MaxCrashes, MaxOutages} \subseteq Nat

VARIABLES
  settings,   \* the deployment
  stage,      \* process -> how far its start has got
  names,      \* process -> the queue names it read to declare
  ladder,     \* process -> the RETRY_DELAYS it started with
  connected,  \* processes with a connection to RabbitMQ
  consuming,  \* processes whose consumers of core.inbox and q.dlq are hooked
  base,       \* RabbitMQ has core.inbox, q.dlq and the exchanges
  tiers,      \* delays whose retry queue RabbitMQ has
  crashes, outages

process == <<stage, names, ladder, connected, consuming>>
rabbit == <<base, tiers>>
startupVars == <<vars, settings, process, rabbit, crashes, outages>>

Processes == {"api", "worker"}
Stages == {"down", "seed", "connect", "base", "names", "full",
           "hookNames", "hookBase", "hookFull", "hook", "up"}

StartupInit ==
  /\ Init
  /\ settings \in Deployments
  /\ stage = [p \in Processes |-> "down"]
  /\ names = [p \in Processes |-> {}]
  /\ ladder = [p \in Processes |-> {}]
  /\ connected = {} /\ consuming = {}
  /\ base = FALSE /\ tiers = {}
  /\ crashes = 0 /\ outages = 0

-----------------------------------------------------------------------------
(* Helpers.                                                                *)

Go(p, s) == stage' = [stage EXCEPT ![p] = s]

\* What lifespan does once the topology was declared, or was not.
AfterTopology(p) ==
  IF settings.embedded /\ p \in connected THEN "hookNames" ELSE "up"

Die_without_hooks(p) ==
  /\ Go(p, "down")
  /\ connected' = connected \ {p}
  /\ names' = [names EXCEPT ![p] = {}]
  /\ ladder' = [ladder EXCEPT ![p] = {}]
  /\ UNCHANGED consuming

\* What the process had read, connected and hooked goes with it.
Die(p) ==
  /\ Go(p, "down")
  /\ connected' = connected \ {p}
  /\ consuming' = consuming \ {p}
  /\ names' = [names EXCEPT ![p] = {}]
  /\ ladder' = [ladder EXCEPT ![p] = {}]

DeclareBase_without_tiers(p) == base' = TRUE /\ UNCHANGED tiers

\* base_topology is idempotent: a ladder only adds its retry queues.
DeclareBase(p) == base' = TRUE /\ tiers' = tiers \cup ladder[p]

-----------------------------------------------------------------------------
(* The start of a process.                                                 *)

Start(p) ==
  /\ stage[p] = "down"
  /\ p = "worker" => ~settings.embedded
  /\ \E l \in Ladders : ladder' = [ladder EXCEPT ![p] = l]
  /\ Go(p, IF p = "api" THEN "seed" ELSE "connect")
  /\ UNCHANGED <<vars, settings, names, connected, consuming, rabbit, crashes, outages>>

\* SEED_ON_STARTUP: it may be off, and what it raises is swallowed: the start
\* goes on when the seed is over, however it ended.
SeedOnStartup ==
  /\ stage["api"] = "seed"
  /\ seed \/ (seeding.step = "idle" /\ UNCHANGED vars)
  /\ Go("api", IF seeding'.step = "idle" THEN "connect" ELSE "seed")
  /\ UNCHANGED <<settings, names, ladder, connected, consuming, rabbit, crashes, outages>>

connect_broker_worker_stays(p) ==
  /\ stage[p] = "connect"
  /\ IF brokerUp
     THEN /\ Go(p, IF p = "api" THEN "base" ELSE "hookNames")
          /\ connected' = connected \cup {p}
          /\ UNCHANGED <<names, ladder, consuming>>
     ELSE IF p = "api" /\ settings.required THEN Die(p)
     ELSE Go(p, "up") /\ UNCHANGED <<names, ladder, connected, consuming>>
  /\ UNCHANGED <<vars, settings, rabbit, crashes, outages>>

connect_broker_optional(p) ==
  /\ stage[p] = "connect"
  /\ IF brokerUp
     THEN /\ Go(p, IF p = "api" THEN "base" ELSE "hookNames")
          /\ connected' = connected \cup {p}
          /\ UNCHANGED <<names, ladder, consuming>>
     ELSE Go(p, "up") /\ UNCHANGED <<names, ladder, connected, consuming>>
  /\ UNCHANGED <<vars, settings, rabbit, crashes, outages>>

\* Without RabbitMQ: BROKER_REQUIRED raises, the worker gives up, and the API
\* goes on without consumers.
connect_broker(p) ==
  /\ stage[p] = "connect"
  /\ IF brokerUp
     THEN /\ Go(p, IF p = "api" THEN "base" ELSE "hookNames")
          /\ connected' = connected \cup {p}
          /\ UNCHANGED <<names, ladder, consuming>>
     ELSE IF p = "worker" \/ settings.required THEN Die(p)
     ELSE Go(p, "up") /\ UNCHANGED <<names, ladder, connected, consuming>>
  /\ UNCHANGED <<vars, settings, rabbit, crashes, outages>>

\* lifespan declares the base, reads the names and declares the queues; an
\* error at any of them is swallowed.
lifespan_topology ==
  /\ \/ /\ stage["api"] = "base" /\ brokerUp
        /\ DeclareBase("api") /\ Go("api", "names")
        /\ UNCHANGED <<queue, owed, names>>
     \/ /\ stage["api"] = "base" /\ ~brokerUp
        /\ Go("api", AfterTopology("api"))
        /\ UNCHANGED <<queue, owed, names, rabbit>>
     \/ /\ stage["api"] = "names"
        /\ names' = [names EXCEPT !["api"] = Committed_queue_names] /\ Go("api", "full")
        /\ UNCHANGED <<queue, owed, rabbit>>
     \/ /\ stage["api"] = "full"
        /\ Declare(names["api"]) /\ Go("api", AfterTopology("api"))
        /\ names' = [names EXCEPT !["api"] = {}]
        /\ UNCHANGED rabbit
  /\ UNCHANGED <<tables, brokerUp, request, seeding, counters, settings, ladder, connected,
                 consuming, crashes, outages>>

\* start_consumers reads the names, declares everything and hooks the two
\* consumers; an error at any of them ends the process.
start_consumers(p) ==
  /\ \/ /\ stage[p] = "hookNames"
        /\ names' = [names EXCEPT ![p] = Committed_queue_names] /\ Go(p, "hookBase")
        /\ UNCHANGED <<queue, owed, connected, consuming, ladder, rabbit>>
     \/ /\ stage[p] = "hookBase" /\ brokerUp
        /\ DeclareBase(p) /\ Go(p, "hookFull")
        /\ UNCHANGED <<queue, owed, names, connected, consuming, ladder>>
     \/ /\ stage[p] = "hookFull" /\ brokerUp
        /\ Declare(names[p]) /\ Go(p, "hook")
        /\ names' = [names EXCEPT ![p] = {}]
        /\ UNCHANGED <<connected, consuming, ladder, rabbit>>
     \/ /\ stage[p] = "hook" /\ brokerUp /\ base
        /\ consuming' = consuming \cup {p} /\ Go(p, "up")
        /\ UNCHANGED <<queue, owed, names, connected, ladder, rabbit>>
     \/ /\ stage[p] \in {"hookBase", "hookFull", "hook"} /\ ~brokerUp
        /\ Die(p)
        /\ UNCHANGED <<queue, owed, rabbit>>
  /\ UNCHANGED <<tables, brokerUp, request, seeding, counters, settings, crashes, outages>>

-----------------------------------------------------------------------------
(* What happens to it afterwards.                                          *)

\* The process is killed: the transactions of its requests and of its seed are
\* rolled back.
Crash(p) ==
  /\ stage[p] # "down" /\ crashes < MaxCrashes
  /\ Die(p)
  /\ crashes' = crashes + 1
  /\ request' = IF p = "api" THEN [r \in Requests |-> Idle] ELSE request
  /\ seeding' = IF p = "api" THEN SeedIdle ELSE seeding
  /\ UNCHANGED <<tables, queue, owed, brokerUp, counters, settings, rabbit, outages>>

\* The connections are robust: they outlive an outage, and so do the consumers.
Outage ==
  /\ brokerUp /\ outages < MaxOutages
  /\ Broker
  /\ outages' = outages + 1
  /\ UNCHANGED <<settings, process, rabbit, crashes>>

Recover ==
  /\ ~brokerUp
  /\ Broker
  /\ UNCHANGED <<settings, process, rabbit, crashes, outages>>

\* Declaring from a request connects an API that started without RabbitMQ
\* (_require_channel), and declares the base as well; it hooks no consumer.
Connects ==
  IF brokerUp
  THEN connected' = connected \cup {"api"} /\ DeclareBase("api")
  ELSE UNCHANGED <<connected, rabbit>>

Request(r) ==
  /\ stage["api"] = "up"
  /\ Serve(r)
  /\ IF request[r].step = "flush" /\ request'[r].step = "commit" /\ request[r].topology
     THEN Connects ELSE UNCHANGED <<connected, rabbit>>
  /\ UNCHANGED <<settings, stage, names, ladder, consuming, crashes, outages>>

ApplyTopology ==
  /\ stage["api"] = "up"
  /\ apply_topology /\ Connects
  /\ UNCHANGED <<settings, stage, names, ladder, consuming, crashes, outages>>

Starting(p) ==
  \/ Start(p)
  \/ p = "api" /\ (SeedOnStartup \/ lifespan_topology)
  \/ connect_broker(p)
  \/ start_consumers(p)

StartupNext ==
  \/ \E p \in Processes : Starting(p) \/ Crash(p)
  \/ \E r \in Requests : Request(r)
  \/ ApplyTopology
  \/ Outage
  \/ Recover

\* deploy/compose.yaml restarts both processes unless they are stopped, and a
\* start does not stop half way; RabbitMQ, restarted as well, comes back.
StartupSpec ==
  /\ StartupInit /\ [][StartupNext]_startupVars
  /\ \A p \in Processes : WF_startupVars(Starting(p))
  /\ WF_startupVars(Recover)

-----------------------------------------------------------------------------
(* Properties.                                                             *)

\* Type invariant of the processes and of what RabbitMQ has.
StartupTypeOK ==
  /\ TypeOK
  /\ settings \in Deployments
  /\ stage \in [Processes -> Stages]
  /\ names \in [Processes -> SUBSET Modules]
  /\ ladder \in [Processes -> Ladders \cup {{}}]
  /\ connected \subseteq Processes /\ consuming \subseteq connected
  /\ base \in BOOLEAN
  /\ crashes \in 0..MaxCrashes /\ outages \in 0..MaxOutages

\* The delays TieredBackoff may give a retry.
Delays(p) == IF ladder[p] = {} THEN {Fallback} ELSE ladder[p]

\* Whoever consumes q.dlq has, for every delay its policy may choose, the retry
\* queue that will hold the message, also after a restart with another ladder,
\* and core.inbox exists.
RetriesHaveQueues == \A p \in consuming : base /\ Delays(p) \subseteq tiers

\* With BROKER_REQUIRED an API that consumes by itself never serves, and never
\* answers /health/ready with "up", without its consumers.
readiness == IF "api" \in connected /\ brokerUp THEN "up" ELSE "degraded"

HealthIsHonest ==
  stage["api"] = "up" /\ settings.embedded /\ settings.required /\ readiness = "up"
    => "api" \in consuming

\* With a separate worker, or with BROKER_REQUIRED, outages and crashes that
\* end leave somebody consuming core.inbox for ever.
InboxConsumed ==
  (settings.required \/ ~settings.embedded) => <>[](consuming # {})

\* The same of every deployment: "Los eventos esperan en core.inbox hasta que
\* vuelva" (main.py), so they are consumed once RabbitMQ is back.
InboxAlwaysConsumed == <>[](consuming # {})

-----------------------------------------------------------------------------
(* What holds besides: the parts of the inductive invariant of the proofs. *)

\* A process that runs has the RETRY_DELAYS it started with.
LaddersSet ==
  /\ stage \in [Processes -> Stages]
  /\ ladder \in [Processes -> Ladders \cup {{}}]
  /\ \A p \in Processes : stage[p] # "down" => ladder[p] \in Ladders

\* The base was declared with the ladder of the process before it hooks its
\* consumers, and they end with it.
HookedLast ==
  /\ consuming \subseteq Processes
  /\ \A p \in consuming : stage[p] = "up"
  /\ \A p \in Processes : p \in consuming \/ stage[p] \in {"hookFull", "hook"}
                            => base /\ ladder[p] \subseteq tiers

\* lifespan declares the topology only over a connection, so that with
\* RUN_WORKER it does not go on to serve without the consumers.
ServesLast ==
  /\ stage["api"] \in {"base", "names", "full"} => "api" \in connected
  /\ stage["api"] = "up" /\ settings.embedded /\ settings.required => "api" \in consuming

StartupInv == LaddersSet /\ HookedLast /\ ServesLast

\* An API that does not serve holds no unit of work: its seed waits for nobody.
RequestsServed == stage["api"] # "up" => \A r \in Requests : request[r] = Idle

\* Consumers are hooked over a connection.
HooksConnected ==
  /\ consuming \subseteq connected
  /\ \A p \in Processes : stage[p] \in {"hookNames", "hookBase", "hookFull", "hook"}
                            => p \in connected

ProcessInv == StartupTypeOK /\ StartupInv /\ RequestsServed /\ HooksConnected

================================================================================
