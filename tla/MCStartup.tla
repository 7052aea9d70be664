------------------------------- MODULE MCStartup -------------------------------
(***************************************************************************)
(* Startup on small instances: one module, the administrator, and one type. *)
(***************************************************************************)
EXTENDS Startup, TLC

CONSTANTS core, t1, r1, r2

\* On the board core publishes t1 and consumes it.
MCPublishes == {<<core, t1>>}
MCConsumes == {<<core, t1>>}

\* deploy/compose.yaml, the same without BROKER_REQUIRED, one process with it.
Kept == {[required |-> TRUE, embedded |-> FALSE], [required |-> FALSE, embedded |-> FALSE],
         [required |-> TRUE, embedded |-> TRUE]}

\* docker-compose.yml: one process, RabbitMQ optional.
OneProcess == {[required |-> FALSE, embedded |-> TRUE]}

\* 5 s and 30 s, or 30 s and 120 s.
MCLadders == {{5, 30}, {30, 120}}

================================================================================
