----------------------------- MODULE MCRecovery -----------------------------
(* Small instances of Recovery for TLC. *)
EXTENDS Recovery, TLC

CONSTANTS c1, c2, c3, g1, g2, g3, t1, t2, s1, s2

\* Two posts in one table, and a table of another model.
GroupsOf == (c1 :> g1) @@ (c2 :> g2) @@ (c3 :> g3)
TablesOf == (g1 :> t1) @@ (g2 :> t1) @@ (g3 :> t2)
=============================================================================
