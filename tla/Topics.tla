-------------------------------- MODULE Topics -------------------------------
(***************************************************************************)
(* The lookups that publishing and subscribing make in the two trees       *)
(* (memTopics.Subscribers and memTopics.Retained), and the Go functions    *)
(* node by node compared with the closed forms of the trees' operations.   *)
(***************************************************************************)
EXTENDS TopicTrees

Walk == INSTANCE TopicWalk

Subscribers(raw, qos) == Walk!smatch(sroot, raw, qos)
Retained(raw) == Walk!rmatch(rroot, raw)
-----------------------------------------------------------------------------
(* One Go call on the present trees: the recursive walk and the closed     *)
(* form of SubTree and RetainTree change the tree alike, early returns     *)
(* and pruning included.                                                   *)
WalksAgree ==
    \A raw \in RawTopic :
       /\ \A sub \in Sub, qos \in SubQos :
             Walk!sinsert(sroot, raw, qos, sub)
                = STree!Inserted(sroot, raw, qos, sub)
       /\ \A sub \in Sub \cup {NilSub} :
             LET res == Walk!sremove(sroot, raw, sub) IN
             /\ res.ok = STree!Found(sroot, raw, sub)
             /\ res.t = IF res.ok THEN STree!Removed(sroot, raw, sub)
                        ELSE sroot
       /\ \A msg \in Msg :
             Walk!rinsertOrUpdate(rroot, raw, msg)
                = RTree!InsertedR(rroot, raw, msg)
       /\ LET res == Walk!rremove(rroot, raw) IN
          /\ res.ok = RTree!FoundR(rroot, raw)
          /\ res.t = IF res.ok THEN RTree!RemovedR(rroot, raw) ELSE rroot

(* A publish finds every subscription whose filter matches the topic, by   *)
(* the reference definition, and finds it once: no branch of the walk is   *)
(* taken twice and "a/#" gets messages of "a".                             *)
MatchExact ==
    \A raw \in {r \in RawTopic : ValidTopic(r)} :
       LET found == Subscribers(raw, 0)
           at(x) == [filter |-> x.at, sub |-> x.sub]
       IN  /\ ~found.err
           /\ {at(x) : x \in found.subs}
                 = {[filter |-> row.filter, sub |-> row.sub] :
                      row \in {w \in STree!Table :
                                 Matches(w.filter, PathOf(raw))}}
           /\ \A x, y \in found.subs : at(x) = at(y) => x = y

(* A subscription is sent the retained message of a topic just when it     *)
(* would be sent a message published to that topic: rmatch walks topics by *)
(* a filter, smatch walks filters by a topic, and the two agree.           *)
LiveAndRetainedAgree ==
    \A f, p \in {r \in RawTopic : ValidTopic(r)} :
       PathOf(f) \in {w.filter : w \in STree!Table}
         /\ PathOf(p) \in DOMAIN rroot /\ rroot[PathOf(p)] # NoMsg
       => (PathOf(p) \in Retained(f)
             <=> \E x \in Subscribers(p, 0).subs : x.at = PathOf(f))
=============================================================================
