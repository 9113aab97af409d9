--------------------------- MODULE MCModelManager ---------------------------
(* Small instances of ModelManager for TLC. *)
EXTENDS ModelManager, TLC

CONSTANTS e1, r1, x, s1, s2

\* An embedder that loads at full precision and a reranker that loads quantised.
Kinds == (e1 :> "embed") @@ (r1 :> "rerank")
Defaults == (e1 :> FALSE) @@ (r1 :> TRUE)
=============================================================================
