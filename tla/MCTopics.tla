------------------------------ MODULE MCTopics -------------------------------
EXTENDS Topics

CONSTANTS a, b, bad, s1, s2

MCSub == {s1, s2}

MCWord == {a, b}
MCMalformed == {bad}

(* Literal topics on one branch, an empty level, '#' at the root and below *)
(* a topic, and two errors: every case of the walks occurs.                *)
MCRawTopic == {<<a>>, <<a, b, a>>, <<a, EmptyToken, a>>, <<a, MWC>>, <<MWC>>,
               <<SWC, bad>>, <<MWC, a>>}

CONSTANTS MaxRows,  \* subscriptions at once when they are of several kinds
          MaxHeld   \* subscriptions and retained messages at once

Held == {p \in DOMAIN rroot : rroot[p] # NoMsg}

(* A second subscriber and a second QoS come into the tree only while      *)
(* nothing is retained and the subscriptions are few: the trees meet in no *)
(* operation, and what the lookups in both have in common needs one        *)
(* subscriber only.                                                        *)
FewRows ==
    \/ /\ \A row \in STree!Table : row.sub = s1 /\ row.qos = 1
       /\ Cardinality(STree!Table) + Cardinality(Held) <= MaxHeld
    \/ DOMAIN rroot = {Root} /\ Cardinality(STree!Table) <= MaxRows
=============================================================================
