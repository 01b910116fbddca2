------------------------------ MODULE TopicWalk ------------------------------
(***************************************************************************)
(* The recursive methods of snode and rnode in                             *)
(* broker/lib/topics/memtopics.go, node by node as the code runs them, on  *)
(* a tree t given as a function on paths.  The k-th call below the first   *)
(* runs with k levels of the topic taken off, on a node k levels below the *)
(* root; what the calls return is a function of k or of their receiver.    *)
(* SubTree and RetainTree use closed forms of the updates; Topics checks   *)
(* the two against each other, and the matching against a reference.       *)
(***************************************************************************)
EXTENDS TopicPath

CONSTANTS NilSub, NoMsg

Done(raw, k) == k = Depth(raw)                      \* len(topic) == 0

nextTopicLevel(raw, k) ==
    LET head == raw[k + 1] IN
    [err |-> head \in Malformed \/ (head = MWC /\ k + 1 < Len(raw)),
     ntl |-> IF head = EmptyToken THEN SWC ELSE head]

Children(t, s) == {p \in DOMAIN t : Len(p) = Len(s) + 1 /\ IsPrefix(s, p)}

(* delete(s.snodes, level): the node goes with everything below it.        *)
Cut(t, n) == [p \in {q \in DOMAIN t : ~IsPrefix(n, q)} |-> t[p]]

Hook(t, n, empty) == IF n \in DOMAIN t THEN t
                     ELSE [p \in DOMAIN t \cup {n} |-> IF p = n THEN empty
                                                       ELSE t[p]]

(***************************************************************************)
(* The insertions call themselves last, so they are a sequence of calls:   *)
(* the tree each of them is given, and the number of levels taken off.     *)
(* The last one has none left, or meets an error.                          *)
(***************************************************************************)
Descent(t, raw, empty) ==
    LET call[i \in 0..Depth(raw)] ==
          IF i = 0 THEN [t |-> t, k |-> 0]
          ELSE LET c == call[i - 1] IN
               IF nextTopicLevel(raw, c.k).err THEN c
               ELSE [t |-> Hook(c.t, Upto(raw, c.k + 1), empty), k |-> c.k + 1]
    IN  call[Depth(raw)]
-----------------------------------------------------------------------------
EmptySNode == [subs |-> <<>>, qos |-> <<>>]

SlotIn(n, sub) == SelectInSeq(n.subs, LAMBDA x : x = sub)

sinsert(t, raw, qos, sub) ==
    LET last == Descent(t, raw, EmptySNode)
        s == Upto(raw, last.k)
        at == SlotIn(last.t[s], sub)
    IN  CASE ~Done(raw, last.k) -> last.t
          [] Done(raw, last.k) /\ at # 0 -> [last.t EXCEPT ![s].qos[at] = qos]
          [] OTHER -> [last.t EXCEPT ![s] = [subs |-> Append(@.subs, sub),
                                             qos  |-> Append(@.qos, qos)]]

(* Returns the tree and whether the subscriber was found.                  *)
sremove(t, raw, sub) ==
    LET s(k) == Upto(raw, k)
        at(k) == SlotIn(t[s(k)], sub)
        bottom(k) ==
          CASE sub = NilSub ->
                 [ok |-> TRUE, t |-> [t EXCEPT ![s(k)] = EmptySNode]]
            [] sub # NilSub /\ at(k) # 0 ->
                 [ok |-> TRUE,
                  t |-> [t EXCEPT ![s(k)] = [subs |-> RemoveAt(@.subs, at(k)),
                                             qos  |-> RemoveAt(@.qos, at(k))]]]
            [] OTHER -> [ok |-> FALSE, t |-> t]
        ret[k \in 0..Depth(raw)] ==
          LET n == s(k + 1)
              res == ret[k + 1]
          IN  IF Done(raw, k) THEN bottom(k)
              ELSE IF nextTopicLevel(raw, k).err \/ n \notin DOMAIN t
              THEN [ok |-> FALSE, t |-> t]
              ELSE IF /\ res.ok
                      /\ Len(res.t[n].subs) = 0 /\ Children(res.t, n) = {}
              THEN [ok |-> TRUE, t |-> Cut(res.t, n)]
              ELSE res
    IN  ret[0]

(* Faulty: the test of the granted QoS that the code has commented out.    *)
matchQosGranted(t, s, n, qos) ==
    {[by |-> s, at |-> n, slot |-> i, sub |-> t[n].subs[i], qos |-> qos] :
       i \in {j \in 1..Len(t[n].subs) : qos >= t[n].qos[j]}}

(* Every subscriber of the node n, with the QoS of the published message,  *)
(* as the call on s finds them.                                            *)
matchQos(t, s, n, qos) ==
    {[by |-> s, at |-> n, slot |-> i, sub |-> t[n].subs[i], qos |-> qos] :
       i \in 1..Len(t[n].subs)}

(***************************************************************************)
(* Returns the subscribers found and whether the walk met a topic error,   *)
(* on which the caller drops them all.  The code visits the children in    *)
(* Go's random map order and appends to one slice; no caller depends on    *)
(* the order, so the finds are a set, each with the call that made it.     *)
(***************************************************************************)
smatch(t, raw, qos) ==
    LET ret[s \in {p \in DOMAIN t : Len(p) <= Depth(raw)}] ==
          LET k == Len(s)
              next == nextTopicLevel(raw, k)
              mwcn == {n \in Children(t, s) : Last(n) = MWC}
              visited == {n \in Children(t, s) :
                            Last(n) # MWC /\ Last(n) \in {SWC, next.ntl}}
          IN  IF Done(raw, k)
              THEN [err |-> FALSE,
                    subs |-> UNION {matchQos(t, s, n, qos) : n \in {s} \cup mwcn}]
              ELSE IF next.err THEN [err |-> TRUE, subs |-> {}]
              ELSE [err |-> \E n \in visited : ret[n].err,
                    subs |-> UNION ({matchQos(t, s, n, qos) : n \in mwcn}
                                      \cup {ret[n].subs : n \in visited})]
    IN  ret[Root]
-----------------------------------------------------------------------------
rinsertOrUpdate(t, raw, msg) ==
    LET last == Descent(t, raw, NoMsg) IN
    IF Done(raw, last.k) THEN [last.t EXCEPT ![Upto(raw, last.k)] = msg]
    ELSE last.t

rremove(t, raw) ==
    LET ret[k \in 0..Depth(raw)] ==
          LET n == Upto(raw, k + 1)
              res == ret[k + 1]
          IN  IF Done(raw, k)
              THEN [ok |-> TRUE, t |-> [t EXCEPT ![Upto(raw, k)] = NoMsg]]
              ELSE IF nextTopicLevel(raw, k).err \/ n \notin DOMAIN t
              THEN [ok |-> FALSE, t |-> t]
              ELSE IF res.ok /\ Children(res.t, n) = {}
              THEN [ok |-> TRUE, t |-> Cut(res.t, n)]
              ELSE res
    IN  ret[0]

(* Faulty: '#' leaves out the parent level.                                *)
allRetainedBelow(t, r) ==
    {n \in DOMAIN t : n # r /\ IsPrefix(r, n) /\ t[n] # NoMsg}

(* The nodes below r, and r itself, that have a message.                   *)
allRetained(t, r) ==
    LET ret[s \in DOMAIN t] == (IF t[s] = NoMsg THEN {} ELSE {s})
                                  \cup UNION {ret[n] : n \in Children(t, s)}
    IN  ret[r]

(* The nodes whose messages a new subscription to the filter is sent.      *)
rmatch(t, raw) ==
    LET ret[r \in {p \in DOMAIN t : Len(p) <= Depth(raw)}] ==
          LET next == nextTopicLevel(raw, Len(r)) IN
          IF Done(raw, Len(r)) THEN (IF t[r] = NoMsg THEN {} ELSE {r})
          ELSE IF next.err THEN {}
          ELSE IF next.ntl = MWC THEN allRetained(t, r)
          ELSE UNION {ret[n] : n \in {c \in Children(t, r) :
                                        next.ntl = SWC \/ Last(c) = next.ntl}}
    IN  ret[Root]
=============================================================================
