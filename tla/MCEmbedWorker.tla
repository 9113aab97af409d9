--------------------------- MODULE MCEmbedWorker ---------------------------
(* Small instances of EmbedWorker for TLC. *)
EXTENDS EmbedWorker, TLC

CONSTANTS m1, m2, a, b, c, d, e

\* Two live tasks and a stale one of one model; a live and a malformed one of another.
TwoQueues == (a :> m1) @@ (b :> m1) @@ (c :> m2) @@ (d :> m1) @@ (e :> m2)
=============================================================================
