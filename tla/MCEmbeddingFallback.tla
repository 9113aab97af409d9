------------------------ MODULE MCEmbeddingFallback ------------------------
(* Small instances of EmbeddingFallback for TLC. *)
EXTENDS EmbeddingFallback, TLC

CONSTANTS e1, r1, x, s1, s2, p1, p2, pr, a, b, c

Kinds == (e1 :> "embed") @@ (r1 :> "rerank")
Defaults == (e1 :> FALSE) @@ (r1 :> FALSE)

\* p1 is served remotely; p2 is not listed there; pr is a reranker.
RemoteIds == [p \in Primaries |-> IF p = p1 THEN e1 ELSE IF p = pr THEN r1 ELSE x]
Precisions == [p \in Primaries |-> IF p = pr THEN "off" ELSE "unset"]
Everywhere == [p \in Primaries |-> TRUE]
Nowhere == [p \in Primaries |-> FALSE]
NotUnlisted == [p \in Primaries |-> p # p2]

TasksOf == [t \in Tasks |-> IF t = a THEN p1 ELSE IF t = b THEN p2 ELSE pr]

=============================================================================
