----------------------------- MODULE MCEventBus -----------------------------
(* Small instances of EventBus for TLC. *)
EXTENDS EventBus, TLC

CONSTANTS g1, t1, t2, c1, c2

\* One dispatcher group reading two topics.
OnePerTopic == (c1 :> <<g1, t1>>) @@ (c2 :> <<g1, t2>>)
=============================================================================
