------------------------------- MODULE SubTree -------------------------------
(***************************************************************************)
(* The subscription tree of memTopics (broker/lib/topics/memtopics.go).    *)
(* A tree is a function on the set of its nodes, each named by the path    *)
(* from the root.  Every operation holds smu from its first to its last    *)
(* access of the tree, so each is one action.                              *)
(***************************************************************************)
EXTENDS TopicPath

CONSTANTS
    Sub,        \* the *subscription pointers callers pass
    NilSub,     \* Go's nil, which sremove takes for "every subscriber"
    SubQos      \* the QoS bytes SUBSCRIBE packets carry, invalid ones too

VARIABLE sroot

vars == <<sroot>>

QosGranted == 0..2

ValidQos(qos) == qos \in QosGranted

(* subs and qos are the two slices an snode keeps in step.                 *)
Node == [subs : Seq(Sub), qos : Seq(QosGranted)]
NewSNode == [subs |-> <<>>, qos |-> <<>>]

(***************************************************************************)
(* Nodes are created on the way down, before the rest of the topic has     *)
(* been looked at.                                                         *)
(***************************************************************************)
Grown(t, nodes) ==
    [p \in DOMAIN t \cup nodes |-> IF p \in DOMAIN t THEN t[p] ELSE NewSNode]

Holds(n, sub) == \E i \in 1..Len(n.subs) : n.subs[i] = sub
SlotOf(n, sub) == CHOOSE i \in 1..Len(n.subs) : n.subs[i] = sub

(* Faulty: does not look for the subscriber.                               *)
PutSubAppendOnly(n, sub, qos) ==
    [subs |-> Append(n.subs, sub), qos |-> Append(n.qos, qos)]

(* The end of sinsert: update the QoS in place, or append to both slices.  *)
PutSub(n, sub, qos) ==
    IF Holds(n, sub)
    THEN [n EXCEPT !.qos[SlotOf(n, sub)] = qos]
    ELSE [subs |-> Append(n.subs, sub), qos |-> Append(n.qos, qos)]

(* The end of sremove: shift both slices over the subscriber's slot.       *)
DropSub(n, sub) ==
    IF sub = NilSub
    THEN NewSNode
    ELSE [subs |-> RemoveAt(n.subs, SlotOf(n, sub)),
          qos  |-> RemoveAt(n.qos, SlotOf(n, sub))]

(* Faulty: nodes go though they have subscribers; only the last node of    *)
(* the path goes.                                                          *)
DeadOccupied(t, p) ==
    {q \in DOMAIN t : /\ q # Root
                      /\ IsPrefix(q, p)
                      /\ \A r \in DOMAIN t : IsPrefix(q, r) => IsPrefix(r, p)}

DeadLastOnly(t, p) ==
    {q \in DOMAIN t : /\ q # Root
                      /\ q = p
                      /\ Len(t[p].subs) = 0
                      /\ \A r \in DOMAIN t : IsPrefix(q, r) => r = p}

(***************************************************************************)
(* On its way back up the path p, sremove deletes every node it visited    *)
(* that has neither subscribers nor children left.  A node goes just when  *)
(* nothing is below it but emptied nodes of the same path.                 *)
(***************************************************************************)
Dead(t, p) ==
    {q \in DOMAIN t : /\ q # Root
                      /\ IsPrefix(q, p)
                      /\ \A r \in DOMAIN t :
                            IsPrefix(q, r) => /\ IsPrefix(r, p)
                                              /\ Len(t[r].subs) = 0}

Prune(t, p) == [q \in DOMAIN t \ Dead(t, p) |-> t[q]]

(* The tree after sinsert, and after an sremove that found the subscriber. *)
Inserted(t, raw, qos, sub) ==
    LET g == Grown(t, Visited(raw)) IN
    IF ValidTopic(raw)
    THEN [g EXCEPT ![PathOf(raw)] = PutSub(@, sub, qos)]
    ELSE g

Found(t, raw, sub) ==
    /\ ValidTopic(raw)
    /\ PathOf(raw) \in DOMAIN t
    /\ sub # NilSub => Holds(t[PathOf(raw)], sub)

Removed(t, raw, sub) ==
    Prune([t EXCEPT ![PathOf(raw)] = DropSub(@, sub)], PathOf(raw))
-----------------------------------------------------------------------------
Init == sroot = [p \in {Root} |-> NewSNode]

(* A QoS that is not 0, 1 or 2 is refused before the tree is touched.      *)
Subscribe(raw, qos, sub) ==
    /\ ValidQos(qos)
    /\ sroot' = Inserted(sroot, raw, qos, sub)

(* sremove returns an error, and changes nothing, unless it finds sub.     *)
Unsubscribe(raw, sub) ==
    /\ Found(sroot, raw, sub)
    /\ sroot' = Removed(sroot, raw, sub)

Next == \/ \E raw \in RawTopic, qos \in SubQos, sub \in Sub :
              Subscribe(raw, qos, sub)
        \/ \E raw \in RawTopic, sub \in Sub \cup {NilSub} :
              Unsubscribe(raw, sub)

Spec == Init /\ [][Next]_vars
-----------------------------------------------------------------------------
(* The nodes form a tree, each with well-typed slices.                     *)
TypeOK ==
    /\ sroot = [p \in DOMAIN sroot |-> sroot[p]]
    /\ DOMAIN sroot \subseteq Path
    /\ \A p \in DOMAIN sroot : sroot[p] \in Node

(* Every node hangs from its parent up to the root: what sremove deletes   *)
(* and what a failed sinsert leaves behind never cut a branch off.         *)
Rooted == \A p \in DOMAIN sroot : \A k \in 0..Len(p) :
             SubSeq(p, 1, k) \in DOMAIN sroot

(* The slices subs and qos stay in step, and a subscriber is in a node     *)
(* once: sremove takes out one slot, so a second one would outlive the     *)
(* subscription.                                                           *)
InStep == \A p \in DOMAIN sroot :
             LET n == sroot[p] IN
             /\ Len(n.subs) = Len(n.qos)
             /\ \A i, j \in 1..Len(n.subs) : n.subs[i] = n.subs[j] => i = j

(* Each leaf holds a subscription, but for those where a malformed topic   *)
(* broke off: after any sequence of subscriptions and unsubscriptions the  *)
(* tree is no larger than the subscriptions in it need.                    *)
NoHollowLeaf ==
    \A p \in DOMAIN sroot \ BrokenOff :
       \/ p = Root \/ Len(sroot[p].subs) > 0
       \/ \E q \in DOMAIN sroot : IsStrictPrefix(p, q)

(* The rows of the abstract table: one per occupied slot.                  *)
Table == UNION {{[filter |-> p, sub |-> sroot[p].subs[i],
                  qos |-> sroot[p].qos[i]] : i \in 1..Len(sroot[p].subs)} :
                p \in DOMAIN sroot}

Abstract == INSTANCE SubTable
            WITH table <- Table,
                 Filter <- {PathOf(raw) : raw \in {r \in RawTopic : ValidTopic(r)}},
                 Qos <- QosGranted

(* The tree implements the table: pruning loses no subscription, and a     *)
(* rejected Subscribe changes none.                                        *)
ImplementsTable == Abstract!Spec
=============================================================================
