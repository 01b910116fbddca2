------------------------------ MODULE SubTable -------------------------------
(***************************************************************************)
(* What the subscription side of the topic tree promises its callers: a    *)
(* table with at most one granted QoS for each filter and subscriber.      *)
(***************************************************************************)
CONSTANTS Filter,   \* the filters that can be subscribed to
          Sub,      \* the subscribers
          Qos       \* the QoS levels that can be granted

VARIABLE table

Row == [filter : Filter, sub : Sub, qos : Qos]

Init == table = {}

Rows(f, s) == {r \in table : r.filter = f /\ r.sub = s}

(* A subscription replaces the one the subscriber has for that filter.     *)
Subscribe(f, s, q) ==
    table' = (table \ Rows(f, s)) \cup {[filter |-> f, sub |-> s, qos |-> q]}

Unsubscribe(f, s) == /\ Rows(f, s) # {}
                     /\ table' = table \ Rows(f, s)

UnsubscribeAll(f) == table' = {r \in table : r.filter # f}

Next == \E f \in Filter :
           \/ \E s \in Sub, q \in Qos : Subscribe(f, s, q)
           \/ \E s \in Sub : Unsubscribe(f, s)
           \/ UnsubscribeAll(f)

Spec == Init /\ [][Next]_table
=============================================================================
