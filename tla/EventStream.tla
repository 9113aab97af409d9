----------------------------- MODULE EventStream -----------------------------
(***************************************************************************)
(* What the event bus promises a subscription, a (group, topic) pair: the  *)
(* topic's events in the order of their ids, each at most once.  An event  *)
(* is claimed before it is delivered and its delivery may never come.  A   *)
(* claim passes over late events only: those appended after a higher id of *)
(* their topic.                                                            *)
(*                                                                         *)
(* Who polls, what was fetched and who crashed is not said: EventBus       *)
(* implements this specification.                                          *)
(***************************************************************************)
EXTENDS Integers, Sequences

CONSTANTS Topics, Groups, MaxEvents

VARIABLES
    log,            \* per topic, the ids of its events
    late,           \* ids appended after a higher id of their topic
    claimed,        \* per subscription, the last id claimed, 0 for none
    delivered       \* per subscription, the ids delivered, in order

vars == <<log, late, claimed, delivered>>

Subscriptions == Groups \X Topics

Init ==
    /\ log = [t \in Topics |-> {}]
    /\ late = {}
    /\ claimed = [s \in Subscriptions |-> 0]
    /\ delivered = [s \in Subscriptions |-> <<>>]

\* An id is used once, for one topic.
AppendEvent(t, i) ==
    /\ \A u \in Topics : i \notin log[u]
    /\ log' = [log EXCEPT ![t] = @ \cup {i}]
    /\ late' = IF \E j \in log[t] : j > i THEN late \cup {i} ELSE late
    /\ UNCHANGED <<claimed, delivered>>

Claim(s, i) ==
    /\ i \in log[s[2]]
    /\ i > claimed[s]
    /\ \A j \in log[s[2]] \ late : j <= claimed[s] \/ j >= i
    /\ claimed' = [claimed EXCEPT ![s] = i]
    /\ UNCHANGED <<log, late, delivered>>

\* The claimed event, once.
Deliver(s) ==
    /\ \A k \in DOMAIN delivered[s] : delivered[s][k] < claimed[s]
    /\ claimed[s] > 0
    /\ delivered' = [delivered EXCEPT ![s] = Append(@, claimed[s])]
    /\ UNCHANGED <<log, late, claimed>>

Next ==
    \/ \E t \in Topics, i \in 1..MaxEvents : AppendEvent(t, i)
    \/ \E s \in Subscriptions, i \in 1..MaxEvents : Claim(s, i)
    \/ \E s \in Subscriptions : Deliver(s)

Spec == Init /\ [][Next]_vars
=============================================================================
