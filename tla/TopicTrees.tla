----------------------------- MODULE TopicTrees ------------------------------
(***************************************************************************)
(* The state of the topics manager: the subscription tree and the tree of  *)
(* retained messages side by side, each under its own lock, and what each  *)
(* promises after any sequence of operations.                              *)
(***************************************************************************)
EXTENDS TopicPath

CONSTANTS Sub, NilSub, SubQos, Msg, NoMsg

ASSUME MsgAssumption == NoMsg \notin Msg
ASSUME SubAssumption == NilSub \notin Sub

VARIABLES sroot, rroot

treeVars == <<sroot, rroot>>

STree == INSTANCE SubTree
RTree == INSTANCE RetainTree

TreesInit == STree!Init /\ RTree!Init

TreesNext ==
    \/ STree!Next /\ UNCHANGED rroot
    \/ RTree!Next /\ UNCHANGED sroot

TreesSpec == TreesInit /\ [][TreesNext]_treeVars
-----------------------------------------------------------------------------
(* Subscriptions come and go without pruning cutting a live branch off, a  *)
(* subscriber being in a node twice or subs and qos falling out of step,   *)
(* and what an Unsubscribe leaves is no larger than it has to be.          *)
SubscribersInStep == STree!InStep
SubscriptionsCompact == STree!NoHollowLeaf

(* The tree is the table of subscriptions its callers assume, whatever is  *)
(* inserted and removed, malformed topics and the nil subscriber included. *)
SubscriptionsImplemented == STree!ImplementsTable

(* Nor does clearing retained messages leave nodes that hold nothing.      *)
RetainedCompact == RTree!NoHollowLeaf

(* Retained messages disappear only when a topic is cleared, and then from *)
(* that topic and those above it: rremove's pruning takes ancestors'       *)
(* messages with it, never those of topics beside or below.                *)
RetainedLosesOneBranch == RTree!LosesOneBranch
=============================================================================
