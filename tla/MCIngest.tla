------------------------------ MODULE MCIngest ------------------------------
(* Small instances of Ingest for TLC. *)
EXTENDS Ingest, TLC

CONSTANTS r1, r2, r3, a, b, c, t, s, w1, w2

PostOf(at, body, custom, title, summary) ==
    [updated_at |-> at,
     text |-> ("body_text" :> body) @@ ("custom_body" :> custom) @@ ("summary" :> summary)
              @@ ("title" :> title) @@ ("custom_title" :> <<>>)]

\* A first sync, a custom body that shares a window with the old one, and a
\* newer revision that has the first body again and adds a summary.  The body has a
\* window twice.
Edits == (r1 :> PostOf(1, <<a, b, a>>, <<>>, <<t>>, <<>>))
      @@ (r2 :> PostOf(2, <<a, b, a>>, <<b, c>>, <<t>>, <<>>))
      @@ (r3 :> PostOf(3, <<a, b, a>>, <<>>, <<t>>, <<s>>))

\* Three requests with a single worker, or two of them with two workers.
Deployments == {[requests |-> {r1, r2, r3}, workers |-> {w1}],
                [requests |-> {r2, r3}, workers |-> {w1, w2}]}
=============================================================================
