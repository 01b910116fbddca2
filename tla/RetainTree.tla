----------------------------- MODULE RetainTree ------------------------------
(***************************************************************************)
(* The retained-message tree of memTopics (broker/lib/topics/memtopics.go).*)
(* Each operation holds rmu throughout, so each is one action.  A PUBLISH  *)
(* with the retain flag and an empty payload clears its topic.             *)
(***************************************************************************)
EXTENDS TopicPath

CONSTANTS Msg,      \* retained PUBLISH packets with a payload
          NoMsg     \* a node without a message; an empty payload

VARIABLE rroot

vars == <<rroot>>

GrownR(t, nodes) ==
    [p \in DOMAIN t \cup nodes |-> IF p \in DOMAIN t THEN t[p] ELSE NoMsg]

(* The tree after rinsertOrUpdate: nodes are created before an error.      *)
InsertedR(t, raw, msg) ==
    LET g == GrownR(t, Visited(raw)) IN
    IF ValidTopic(raw) THEN [g EXCEPT ![PathOf(raw)] = msg] ELSE g

(* Faulty: the node goes with all its children; only the last node of the  *)
(* path goes.                                                              *)
DeadRChildrenToo(t, p) == {q \in DOMAIN t : q # Root /\ IsPrefix(p, q)}

DeadRLastOnly(t, p) ==
    {q \in DOMAIN t : /\ q # Root
                      /\ q = p
                      /\ \A r \in DOMAIN t : IsPrefix(q, r) => r = p}

(***************************************************************************)
(* On its way back up the path p, rremove deletes every node it visited    *)
(* that has no children left, whether or not the node has a message.       *)
(***************************************************************************)
DeadR(t, p) ==
    {q \in DOMAIN t : /\ q # Root
                      /\ IsPrefix(q, p)
                      /\ \A r \in DOMAIN t : IsPrefix(q, r) => IsPrefix(r, p)}

FoundR(t, raw) == ValidTopic(raw) /\ PathOf(raw) \in DOMAIN t

RemovedR(t, raw) ==
    LET c == [t EXCEPT ![PathOf(raw)] = NoMsg]
    IN  [q \in DOMAIN t \ DeadR(c, PathOf(raw)) |-> c[q]]
-----------------------------------------------------------------------------
Init == rroot = [p \in {Root} |-> NoMsg]

Store(raw, msg) == rroot' = InsertedR(rroot, raw, msg)

(* rremove of a topic without a node is an error and changes nothing.      *)
Clear(raw) == /\ FoundR(rroot, raw)
              /\ rroot' = RemovedR(rroot, raw)

Retain(raw, msg) == IF msg = NoMsg THEN Clear(raw) ELSE Store(raw, msg)

Next == \E raw \in RawTopic, msg \in Msg \cup {NoMsg} : Retain(raw, msg)

Spec == Init /\ [][Next]_vars
-----------------------------------------------------------------------------
(* The nodes are named by paths and hold a message or none.                *)
TypeOK == /\ rroot \in [DOMAIN rroot -> Msg \cup {NoMsg}]
          /\ DOMAIN rroot \subseteq Path

(* Every node hangs from its parent up to the root: rremove never leaves a *)
(* branch behind whose parent it deleted.                                  *)
Rooted == \A p \in DOMAIN rroot : \A k \in 0..Len(p) :
             SubSeq(p, 1, k) \in DOMAIN rroot

(* Each leaf has a message, but for those where a malformed topic broke    *)
(* off: storing and clearing retained messages leaves no empty branch.     *)
NoHollowLeaf ==
    \A p \in DOMAIN rroot \ BrokenOff :
       \/ p = Root \/ rroot[p] # NoMsg
       \/ \E q \in DOMAIN rroot : IsStrictPrefix(p, q)

Lost == {p \in DOMAIN rroot : /\ rroot[p] # NoMsg
                              /\ p \in DOMAIN rroot' => rroot'[p] = NoMsg}

(* Messages disappear only when a topic is cleared, and then from that     *)
(* topic and those above it: pruning takes ancestors' messages with it,    *)
(* never those of topics beside or below.                                  *)
LosesOneBranch ==
    [][Lost # {} => \E raw \in RawTopic :
                       Clear(raw) /\ \A p \in Lost : IsPrefix(p, PathOf(raw))]_vars
=============================================================================
