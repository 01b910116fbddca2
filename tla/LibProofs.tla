------------------------------ MODULE LibProofs -----------------------------
(***************************************************************************)
(* Theorems about what broker/lib keeps: the two trees of the topics       *)
(* manager, the recursive methods that work on them, and, at the end, the  *)
(* sessions.                                                               *)
(*                                                                         *)
(* The trees, for any tokens, topics, subscribers and messages.  A tree is *)
(* sound when its nodes are named by paths and keep their slices in step;  *)
(* RowsOf is the table of subscriptions that a sound tree stands for.  The *)
(* lemmas say what each operation does to soundness, to the table and to   *)
(* the leaves.                                                             *)
(*                                                                         *)
(* The methods, call by call.  What a recursion returns is shown by giving *)
(* a closed form for the call at depth k, or on the node s, and checking   *)
(* that one call returns it when the calls it makes do; Induct, which is   *)
(* the least counterexample, does the rest.                                *)
(***************************************************************************)
EXTENDS Topics, Sessions, SequenceTheorems, WellFoundedInduction, TLAPS

(* What it takes for s to be above or at u.                                *)
LEMMA PrefixAt ==
    ASSUME NEW s \in Path, NEW u \in Path
    PROVE  IsPrefix(s, u) <=> Len(s) <= Len(u) /\ \A i \in 1..Len(s) : s[i] = u[i]
<1> USE DEF Path
<1>1. Len(s) \in Nat /\ Len(u) \in Nat /\ SubSeq(s, 1, Len(s)) = s
  OBVIOUS
<1>2. ASSUME Len(s) <= Len(u)
      PROVE  SubSeq(u, 1, Len(s)) = s <=> \A i \in 1..Len(s) : s[i] = u[i]
  <2>1. /\ SubSeq(u, 1, Len(s)) \in Seq(Level)
        /\ Len(SubSeq(u, 1, Len(s))) = Len(s)
        /\ \A i \in 1..Len(s) : SubSeq(u, 1, Len(s))[i] = u[i]
    BY <1>1, <1>2
  <2> QED
    BY <1>1, <2>1
<1> QED
  BY <1>1, <1>2 DEF IsPrefix

(* The order "above or at" of the nodes in the tree.                       *)
LEMMA PrefixOrder ==
    ASSUME NEW p \in Path, NEW q \in Path, NEW r \in Path
    PROVE  /\ IsPrefix(p, p)
           /\ IsPrefix(p, q) /\ IsPrefix(q, r) => IsPrefix(p, r)
           /\ IsPrefix(p, q) /\ IsPrefix(q, p) => p = q
<1>1. IsPrefix(p, p)
  BY DEF IsPrefix, Path
<1>2. IsPrefix(p, q) /\ IsPrefix(q, r) => IsPrefix(p, r)
  <2> /\ Len(p) \in Nat /\ Len(q) \in Nat /\ Len(r) \in Nat
    BY DEF Path
  <2> QED
    BY PrefixAt
<1>3. IsPrefix(p, q) /\ IsPrefix(q, p) => p = q
  BY PrefixAt DEF Path
<1> QED
  BY <1>1, <1>2, <1>3

(* The nodes a walk along a topic visits are positions in the tree, and    *)
(* those above the one it leads to.                                        *)
LEMMA Walked ==
    ASSUME NEW raw \in RawTopic
    PROVE  /\ Visited(raw) \subseteq Path
           /\ ValidTopic(raw) => /\ PathOf(raw) \in Visited(raw)
                                 /\ \A p \in Visited(raw) : IsPrefix(p, PathOf(raw))
<1> USE RawTopicAssumption
<1>1. raw \in Seq(Token) /\ raw # <<>> /\ Len(raw) \in Nat \ {0}
  BY DEF Token
<1>2. Depth(raw) \in 0..Len(raw)
  BY <1>1 DEF Depth
<1>3. ASSUME NEW k \in 0..Depth(raw), \A i \in 1..k : LevelOk(raw, i)
      PROVE  /\ Upto(raw, k) \in Path
             /\ Len(Upto(raw, k)) = k
  <2>1. ASSUME NEW i \in 1..k PROVE LevelAt(raw, i) \in Level
    BY <1>1, <1>2, <1>3 DEF LevelAt, LevelOk, Level, Token
  <2> QED
    BY <2>1 DEF Upto, Path
<1>4. Visited(raw) \subseteq Path
  BY <1>3 DEF Visited
<1>5. ASSUME ValidTopic(raw)
      PROVE  /\ PathOf(raw) \in Visited(raw)
             /\ \A p \in Visited(raw) : IsPrefix(p, PathOf(raw))
  <2>1. PathOf(raw) \in Visited(raw)
    BY <1>2, <1>5 DEF ValidTopic, Visited, PathOf
  <2>2. ASSUME NEW k \in 0..Depth(raw), \A i \in 1..k : LevelOk(raw, i)
        PROVE  IsPrefix(Upto(raw, k), PathOf(raw))
    <3>1. /\ Upto(raw, k) \in Seq(Level) /\ Len(Upto(raw, k)) = k
          /\ PathOf(raw) \in Seq(Level) /\ Len(PathOf(raw)) = Depth(raw)
      BY <1>2, <1>3, <1>5, <2>2 DEF PathOf, ValidTopic, Path
    <3>2. \A i \in 1..k : Upto(raw, k)[i] = PathOf(raw)[i]
      BY <1>2 DEF Upto, PathOf
    <3> QED
      BY <1>2, <3>1, <3>2 DEF IsPrefix
  <2> QED
    BY <2>1, <2>2 DEF Visited
<1> QED
  BY <1>4, <1>5

(* The instances parse topics as TopicPath does, which all of them extend. *)
LEMMA SameWalk ==
    /\ STree!Root = Root /\ STree!Path = Path
    /\ \A raw : /\ STree!Visited(raw) = Visited(raw)
                /\ STree!ValidTopic(raw) <=> ValidTopic(raw)
                /\ STree!PathOf(raw) = PathOf(raw)
    /\ \A p, q : STree!IsPrefix(p, q) <=> IsPrefix(p, q)
    /\ STree!BrokenOff = BrokenOff
<1> USE DEF EmptyToken, SWC, MWC, STree!EmptyToken, STree!SWC, STree!MWC
<1> QED
BY DEF Root, STree!Root, Path, STree!Path, Level, STree!Level, Visited, STree!Visited,
  ValidTopic, STree!ValidTopic, PathOf, STree!PathOf, Upto, STree!Upto, Depth, STree!Depth,
  LevelAt, STree!LevelAt, LevelOk, STree!LevelOk, IsPrefix, STree!IsPrefix, BrokenOff, STree!BrokenOff

(* The same for the tree of retained messages.                             *)
LEMMA SameWalkR ==
    /\ RTree!Root = Root /\ RTree!Path = Path
    /\ \A raw : /\ RTree!Visited(raw) = Visited(raw)
                /\ RTree!ValidTopic(raw) <=> ValidTopic(raw)
                /\ RTree!PathOf(raw) = PathOf(raw)
    /\ \A p, q : RTree!IsPrefix(p, q) <=> IsPrefix(p, q)
    /\ RTree!BrokenOff = BrokenOff
<1> USE DEF EmptyToken, SWC, MWC, RTree!EmptyToken, RTree!SWC, RTree!MWC
<1> QED
BY DEF Root, RTree!Root, Path, RTree!Path, Level, RTree!Level, Visited, RTree!Visited,
  ValidTopic, RTree!ValidTopic, PathOf, RTree!PathOf, Upto, RTree!Upto, Depth, RTree!Depth,
  LevelAt, RTree!LevelAt, LevelOk, RTree!LevelOk, IsPrefix, RTree!IsPrefix, BrokenOff, RTree!BrokenOff
-----------------------------------------------------------------------------
(* A node whose slices are in step and name nobody twice.                  *)
Fit(n) == /\ n \in STree!Node
          /\ Len(n.subs) = Len(n.qos)
          /\ \A i, j \in 1..Len(n.subs) : n.subs[i] = n.subs[j] => i = j

(* The rows of the table that the node at p stands for.                    *)
RowsAt(p, n) == {[filter |-> p, sub |-> n.subs[i], qos |-> n.qos[i]] :
                   i \in 1..Len(n.subs)}

(* The slot a subscriber has in a node is the only one it has there.       *)
LEMMA Slot ==
    ASSUME NEW n, Fit(n), NEW sub \in Sub, STree!Holds(n, sub)
    PROVE  /\ STree!SlotOf(n, sub) \in 1..Len(n.subs)
           /\ n.subs[STree!SlotOf(n, sub)] = sub
           /\ \A i \in 1..Len(n.subs) : n.subs[i] = sub => i = STree!SlotOf(n, sub)
BY DEF STree!Holds, STree!SlotOf, Fit

(* The end of sinsert: the subscriber's row, and nobody else's, changes.   *)
LEMMA PutSubStep ==
    ASSUME NEW n, Fit(n), NEW sub \in Sub, NEW qos \in STree!QosGranted, NEW p
    PROVE  /\ Fit(STree!PutSub(n, sub, qos))
           /\ Len(STree!PutSub(n, sub, qos).subs) > 0
           /\ RowsAt(p, STree!PutSub(n, sub, qos))
                = {r \in RowsAt(p, n) : r.sub # sub}
                    \cup {[filter |-> p, sub |-> sub, qos |-> qos]}
<1> DEFINE m == STree!PutSub(n, sub, qos)
<1>1. /\ n.subs \in Seq(Sub) /\ n.qos \in Seq(STree!QosGranted)
      /\ n = [subs |-> n.subs, qos |-> n.qos]
      /\ Len(n.subs) \in Nat /\ Len(n.qos) = Len(n.subs)
  BY DEF Fit, STree!Node
<1>2. CASE STree!Holds(n, sub)
  <2> DEFINE k == STree!SlotOf(n, sub)
  <2>1. /\ k \in 1..Len(n.subs) /\ n.subs[k] = sub
        /\ \A i \in 1..Len(n.subs) : n.subs[i] = sub => i = k
    BY <1>2, Slot
  <2>2. m = [n EXCEPT !.qos[k] = qos]
    BY <1>2 DEF STree!PutSub
  <2> HIDE DEF k, m
  <2>3. m = [subs |-> n.subs, qos |-> [n.qos EXCEPT ![k] = qos]]
    BY <1>1, <2>2
  <2>4. /\ m.qos \in Seq(STree!QosGranted) /\ Len(m.qos) = Len(n.qos)
        /\ m.qos[k] = qos
        /\ \A i \in 1..Len(n.qos) : i # k => m.qos[i] = n.qos[i]
    BY <1>1, <2>1, <2>3
  <2>5. Fit(m) /\ Len(m.subs) > 0
    BY <1>1, <2>1, <2>3, <2>4 DEF Fit, STree!Node
  <2>6. RowsAt(p, m) = {r \in RowsAt(p, n) : r.sub # sub}
                         \cup {[filter |-> p, sub |-> sub, qos |-> qos]}
    BY <1>1, <2>1, <2>3, <2>4 DEF RowsAt
  <2> QED
    BY <2>5, <2>6 DEF m
<1>3. CASE ~STree!Holds(n, sub)
  <2>1. m = [subs |-> Append(n.subs, sub), qos |-> Append(n.qos, qos)]
    BY <1>3 DEF STree!PutSub
  <2>2. \A i \in 1..Len(n.subs) : n.subs[i] # sub
    BY <1>3 DEF STree!Holds
  <2> HIDE DEF m
  <2>3. /\ m.subs \in Seq(Sub) /\ m.qos \in Seq(STree!QosGranted)
        /\ Len(m.subs) = Len(n.subs) + 1 /\ Len(m.qos) = Len(n.subs) + 1
        /\ m.subs[Len(n.subs) + 1] = sub /\ m.qos[Len(n.subs) + 1] = qos
        /\ \A i \in 1..Len(n.subs) : m.subs[i] = n.subs[i] /\ m.qos[i] = n.qos[i]
    BY <1>1, <2>1
  <2>4. Fit(m)
    <3>1. m \in STree!Node
      BY <2>1, <2>3 DEF STree!Node
    <3>2. ASSUME NEW i \in 1..Len(m.subs), NEW j \in 1..Len(m.subs), m.subs[i] = m.subs[j]
          PROVE  i = j
      <4>1. /\ i \in 1..Len(n.subs) \/ i = Len(n.subs) + 1
            /\ j \in 1..Len(n.subs) \/ j = Len(n.subs) + 1
        BY <1>1, <2>3
      <4> QED
        BY <2>2, <2>3, <3>2, <4>1 DEF Fit
    <3> QED
      BY <2>3, <3>1, <3>2 DEF Fit
  <2>5. RowsAt(p, m) = {r \in RowsAt(p, n) : r.sub # sub}
                         \cup {[filter |-> p, sub |-> sub, qos |-> qos]}
    <3>1. 1..Len(m.subs) = 1..Len(n.subs) \cup {Len(n.subs) + 1}
      BY <1>1, <2>3
    <3> DEFINE row(x, i) == [filter |-> p, sub |-> x.subs[i], qos |-> x.qos[i]]
    <3>2. /\ \A i \in 1..Len(n.subs) : row(m, i) = row(n, i) /\ row(n, i).sub # sub
          /\ row(m, Len(n.subs) + 1) = [filter |-> p, sub |-> sub, qos |-> qos]
      BY <2>2, <2>3
    <3>3. /\ RowsAt(p, m) = {row(m, i) : i \in 1..Len(m.subs)}
          /\ RowsAt(p, n) = {row(n, i) : i \in 1..Len(n.subs)}
      BY DEF RowsAt
    <3> HIDE DEF row
    <3> QED
      BY <3>1, <3>2, <3>3
  <2> QED
    BY <1>1, <2>3, <2>4, <2>5 DEF m
<1> QED
  BY <1>2, <1>3

(* Where the elements come from when the k-th is taken out of a sequence.  *)
Was(k, i) == IF i < k THEN i ELSE i + 1

(* What append(s[:k-1], s[k+1:]...) of sremove leaves of a slice.          *)
LEMMA TakenOut ==
    ASSUME NEW S, NEW x \in Seq(S), NEW k \in 1..Len(x)
    PROVE  /\ STree!RemoveAt(x, k) \in Seq(S)
           /\ Len(STree!RemoveAt(x, k)) = Len(x) - 1
           /\ \A i \in 1..(Len(x) - 1) : STree!RemoveAt(x, k)[i] = x[Was(k, i)]
<1> DEFINE front == SubSeq(x, 1, k - 1)
           back == SubSeq(x, k + 1, Len(x))
<1>1. STree!RemoveAt(x, k) = front \o back
  BY DEF STree!RemoveAt
<1>2. /\ front \in Seq(S) /\ Len(front) = k - 1
      /\ \A i \in 1..(k - 1) : front[i] = x[i]
  <2>1. \A i \in 1..(k - 1) : x[i] \in S
    OBVIOUS
  <2> QED
    BY <2>1, SubSeqProperties
<1>3. /\ back \in Seq(S) /\ Len(back) = Len(x) - k
      /\ \A i \in 1..(Len(x) - k) : back[i] = x[k + i]
  <2>1. /\ \A i \in (k + 1)..Len(x) : x[i] \in S
        /\ k + 1 \in Int /\ Len(x) \in Int
    OBVIOUS
  <2>2. /\ back \in Seq(S)
        /\ Len(back) = IF k + 1 <= Len(x) THEN Len(x) - (k + 1) + 1 ELSE 0
        /\ \A i \in 1..(Len(x) - (k + 1) + 1) : back[i] = x[k + 1 + i - 1]
    BY <2>1, SubSeqProperties
  <2> QED
    BY <2>2
<1> HIDE DEF front, back
<1>4. /\ front \o back \in Seq(S) /\ Len(front \o back) = Len(x) - 1
      /\ \A i \in 1..(Len(x) - 1) : (front \o back)[i] =
                     IF i <= k - 1 THEN front[i] ELSE back[i - (k - 1)]
  <2>1. /\ front \o back \in Seq(S)
        /\ Len(front \o back) = Len(front) + Len(back)
        /\ \A i \in 1..(Len(front) + Len(back)) : (front \o back)[i] =
              IF i <= Len(front) THEN front[i] ELSE back[i - Len(front)]
    BY <1>2, <1>3, ConcatProperties
  <2>2. Len(front) = k - 1 /\ Len(front) + Len(back) = Len(x) - 1
    BY <1>2, <1>3
  <2> QED
    BY <2>1, <2>2
<1>5. ASSUME NEW i \in 1..(Len(x) - 1)
      PROVE  (front \o back)[i] = x[Was(k, i)]
  <2> i < k \/ i >= k
    OBVIOUS
  <2>1. CASE i < k
    <3>1. i <= k - 1 /\ i \in 1..(k - 1) /\ Was(k, i) = i
      BY <2>1 DEF Was
    <3> QED
      BY <1>2, <1>4, <3>1
  <2>2. CASE i >= k
    <3>1. /\ i - (k - 1) \in 1..(Len(x) - k) /\ k + (i - (k - 1)) = i + 1
          /\ ~(i <= k - 1) /\ Was(k, i) = i + 1
      BY <2>2 DEF Was
    <3>2. (front \o back)[i] = back[i - (k - 1)]
      BY <1>4, <3>1
    <3>3. back[i - (k - 1)] = x[k + (i - (k - 1))]
      BY <1>3, <3>1
    <3> QED
      BY <3>1, <3>2, <3>3
  <2> QED
    BY <2>1, <2>2
<1> QED
  BY <1>1, <1>4, <1>5

(* Each element but the k-th is found at one place afterwards.             *)
LEMMA WasShift ==
    ASSUME NEW n \in Nat, NEW k \in 1..n
    PROVE  /\ \A i \in 1..(n - 1) : Was(k, i) \in 1..n /\ Was(k, i) # k
           /\ \A i, j \in 1..(n - 1) : Was(k, i) = Was(k, j) => i = j
           /\ \A j \in 1..n : j # k => \E i \in 1..(n - 1) : Was(k, i) = j
<1>1. ASSUME NEW j \in 1..n, j # k
      PROVE  \E i \in 1..(n - 1) : Was(k, i) = j
  <2>1. CASE j < k
    <3>1. j \in 1..(n - 1) /\ Was(k, j) = j
      BY <2>1 DEF Was
    <3> QED
      BY <3>1
  <2>2. CASE j > k
    <3>1. j - 1 \in 1..(n - 1) /\ Was(k, j - 1) = j
      BY <2>2 DEF Was
    <3> QED
      BY <3>1
  <2> QED
    BY <1>1, <2>1, <2>2
<1> QED
  BY <1>1 DEF Was

(* The end of sremove: the subscriber's row goes; all rows do for nil.     *)
LEMMA DropSubStep ==
    ASSUME NEW n, Fit(n), NEW sub \in Sub \cup {NilSub}, NEW p,
           sub # NilSub => STree!Holds(n, sub)
    PROVE  /\ Fit(STree!DropSub(n, sub))
           /\ RowsAt(p, STree!DropSub(n, sub))
                = {r \in RowsAt(p, n) : sub # NilSub /\ r.sub # sub}
<1> DEFINE m == STree!DropSub(n, sub)
<1>1. /\ n.subs \in Seq(Sub) /\ n.qos \in Seq(STree!QosGranted)
      /\ n = [subs |-> n.subs, qos |-> n.qos]
      /\ Len(n.subs) \in Nat /\ Len(n.qos) = Len(n.subs)
  BY DEF Fit, STree!Node
<1>2. CASE sub = NilSub
  <2>1. m = [subs |-> <<>>, qos |-> <<>>]
    BY <1>2 DEF STree!DropSub, STree!NewSNode
  <2> QED
    BY <1>2, <2>1 DEF Fit, STree!Node, RowsAt
<1>3. CASE sub # NilSub
  <2> DEFINE k == STree!SlotOf(n, sub)
  <2>1. /\ k \in 1..Len(n.subs) /\ n.subs[k] = sub
        /\ \A i \in 1..Len(n.subs) : n.subs[i] = sub => i = k
    BY <1>3, Slot
  <2>2. m = [subs |-> STree!RemoveAt(n.subs, k), qos |-> STree!RemoveAt(n.qos, k)]
    BY <1>3 DEF STree!DropSub
  <2> HIDE DEF k, m
  <2>4. /\ m.subs \in Seq(Sub) /\ m.qos \in Seq(STree!QosGranted)
        /\ Len(m.subs) = Len(n.subs) - 1 /\ Len(m.qos) = Len(n.subs) - 1
        /\ \A i \in 1..(Len(n.subs) - 1) : /\ m.subs[i] = n.subs[Was(k, i)]
                                           /\ m.qos[i] = n.qos[Was(k, i)]
    <3>1. /\ m.subs = STree!RemoveAt(n.subs, k)
          /\ m.qos = STree!RemoveAt(n.qos, k)
      BY <2>2
    <3> QED
      BY <1>1, <2>1, <3>1, TakenOut
  <2>5. /\ \A i \in 1..(Len(n.subs) - 1) : Was(k, i) \in 1..Len(n.subs) /\ Was(k, i) # k
        /\ \A i, j \in 1..(Len(n.subs) - 1) : Was(k, i) = Was(k, j) => i = j
        /\ \A j \in 1..Len(n.subs) : j # k =>
              \E i \in 1..(Len(n.subs) - 1) : Was(k, i) = j
    BY <1>1, <2>1, WasShift
  <2>6. Fit(m)
    <3>1. m \in STree!Node
      BY <2>2, <2>4 DEF STree!Node
    <3>2. ASSUME NEW i \in 1..Len(m.subs), NEW j \in 1..Len(m.subs), m.subs[i] = m.subs[j]
          PROVE  i = j
      <4>1. i \in 1..(Len(n.subs) - 1) /\ j \in 1..(Len(n.subs) - 1)
        BY <2>4
      <4>2. n.subs[Was(k, i)] = n.subs[Was(k, j)]
        BY <2>4, <3>2, <4>1
      <4>3. Was(k, i) = Was(k, j)
        BY <2>5, <4>1, <4>2 DEF Fit
      <4> QED
        BY <2>5, <4>1, <4>3
    <3> QED
      BY <2>4, <3>1, <3>2 DEF Fit
  <2>7. RowsAt(p, m) = {r \in RowsAt(p, n) : r.sub # sub}
    <3>1. ASSUME NEW r \in RowsAt(p, m) PROVE r \in RowsAt(p, n) /\ r.sub # sub
      <4>1. PICK i \in 1..(Len(n.subs) - 1) :
                   r = [filter |-> p, sub |-> m.subs[i], qos |-> m.qos[i]]
        BY <2>4 DEF RowsAt
      <4>2. /\ Was(k, i) \in 1..Len(n.subs) /\ n.subs[Was(k, i)] # sub
            /\ r = [filter |-> p, sub |-> n.subs[Was(k, i)], qos |-> n.qos[Was(k, i)]]
        BY <2>1, <2>4, <2>5, <4>1
      <4> QED
        BY <4>2 DEF RowsAt
    <3>2. ASSUME NEW r \in RowsAt(p, n), r.sub # sub PROVE r \in RowsAt(p, m)
      <4>1. PICK j \in 1..Len(n.subs) :
                   r = [filter |-> p, sub |-> n.subs[j], qos |-> n.qos[j]]
        BY DEF RowsAt
      <4>2. PICK i \in 1..(Len(n.subs) - 1) : Was(k, i) = j
        BY <2>1, <2>5, <3>2, <4>1
      <4> QED
        BY <2>4, <4>1, <4>2 DEF RowsAt
    <3> QED
      BY <3>1, <3>2
  <2> QED
    BY <1>3, <2>6, <2>7 DEF m
<1> QED
  BY <1>2, <1>3
-----------------------------------------------------------------------------
(* A subscription tree whose nodes are fit, and the table it stands for.   *)
Sound(t) == /\ t = [p \in DOMAIN t |-> t[p]]
            /\ DOMAIN t \subseteq Path
            /\ \A p \in DOMAIN t : Fit(t[p])

RowsOf(t) == UNION {RowsAt(p, t[p]) : p \in DOMAIN t}

(* A row of the table is in the node that its filter leads to.             *)
LEMMA RowPlace ==
    ASSUME NEW t, NEW r
    PROVE  r \in RowsOf(t) <=> /\ r.filter \in DOMAIN t
                               /\ r \in RowsAt(r.filter, t[r.filter])
<1>1. \A p : r \in RowsAt(p, t[p]) => r.filter = p
  BY DEF RowsAt
<1> QED
  BY <1>1 DEF RowsOf

(* A node that was just created has no subscribers.                        *)
LEMMA NewNode == Fit(STree!NewSNode) /\ \A p : RowsAt(p, STree!NewSNode) = {}
BY DEF Fit, STree!NewSNode, STree!Node, RowsAt

(* Nodes that are created on the way down stand for nothing.               *)
LEMMA GrownStep ==
    ASSUME NEW t, Sound(t), NEW nodes \in SUBSET Path
    PROVE  /\ Sound(STree!Grown(t, nodes))
           /\ DOMAIN STree!Grown(t, nodes) = DOMAIN t \cup nodes
           /\ \A p \in DOMAIN t : STree!Grown(t, nodes)[p] = t[p]
           /\ RowsOf(STree!Grown(t, nodes)) = RowsOf(t)
<1> DEFINE g == STree!Grown(t, nodes)
<1>1. /\ g = [p \in DOMAIN g |-> g[p]]
      /\ DOMAIN g = DOMAIN t \cup nodes
      /\ \A p \in DOMAIN g : g[p] = IF p \in DOMAIN t THEN t[p] ELSE STree!NewSNode
  BY DEF STree!Grown
<1> HIDE DEF g
<1>2. Sound(g)
  BY <1>1, NewNode DEF Sound
<1>3. ASSUME NEW r PROVE r \in RowsOf(g) <=> r \in RowsOf(t)
  BY <1>1, RowPlace, NewNode
<1> QED
  BY <1>1, <1>2, <1>3 DEF g

(* A sound tree with one node replaced.                                    *)
LEMMA ReplacedStep ==
    ASSUME NEW t, Sound(t), NEW p \in DOMAIN t, NEW n, Fit(n)
    PROVE  /\ Sound([t EXCEPT ![p] = n])
           /\ \A r : r \in RowsOf([t EXCEPT ![p] = n]) <=>
                        \/ r \in RowsOf(t) /\ r.filter # p
                        \/ r \in RowsAt(p, n)
<1> DEFINE u == [t EXCEPT ![p] = n]
<1>1. /\ u = [q \in DOMAIN u |-> u[q]] /\ DOMAIN u = DOMAIN t
      /\ u[p] = n
      /\ \A q \in DOMAIN t : q # p => u[q] = t[q]
  BY DEF Sound
<1> HIDE DEF u
<1>2. Sound(u)
  BY <1>1 DEF Sound
<1>3. ASSUME NEW r
      PROVE  r \in RowsOf(u) <=> \/ r \in RowsOf(t) /\ r.filter # p
                                 \/ r \in RowsAt(p, n)
  <2>1. r \in RowsAt(p, n) => r.filter = p
    BY DEF RowsAt
  <2> QED
    BY <1>1, <2>1, RowPlace
<1> QED
  BY <1>2, <1>3 DEF u

Row(f, s, q) == [filter |-> f, sub |-> s, qos |-> q]

(* sinsert does to the table what SubTable's Subscribe does, or nothing.   *)
LEMMA InsertedStep ==
    ASSUME NEW t, Sound(t), NEW raw \in RawTopic, NEW qos \in STree!QosGranted,
           NEW sub \in Sub
    PROVE  /\ Sound(STree!Inserted(t, raw, qos, sub))
           /\ ~ValidTopic(raw) => RowsOf(STree!Inserted(t, raw, qos, sub)) = RowsOf(t)
           /\ ValidTopic(raw) =>
                RowsOf(STree!Inserted(t, raw, qos, sub))
                  = {r \in RowsOf(t) : ~(r.filter = PathOf(raw) /\ r.sub = sub)}
                      \cup {Row(PathOf(raw), sub, qos)}
<1> DEFINE g == STree!Grown(t, Visited(raw))
           f == PathOf(raw)
           u == STree!Inserted(t, raw, qos, sub)
<1>1. /\ Sound(g) /\ DOMAIN g = DOMAIN t \cup Visited(raw)
      /\ RowsOf(g) = RowsOf(t)
  BY Walked, GrownStep
<1>2. u = IF ValidTopic(raw) THEN [g EXCEPT ![f] = STree!PutSub(g[f], sub, qos)] ELSE g
  BY SameWalk DEF STree!Inserted
<1>3. CASE ~ValidTopic(raw)
  BY <1>1, <1>2, <1>3
<1>4. CASE ValidTopic(raw)
  <2> DEFINE n == STree!PutSub(g[f], sub, qos)
  <2>1. f \in DOMAIN g /\ Fit(g[f])
    BY <1>1, <1>4, Walked DEF Sound
  <2>2. /\ Fit(n)
        /\ RowsAt(f, n) = {r \in RowsAt(f, g[f]) : r.sub # sub} \cup {Row(f, sub, qos)}
    BY <2>1, PutSubStep DEF Row
  <2> HIDE DEF n, g, f
  <2>3. /\ Sound([g EXCEPT ![f] = n])
        /\ \A r : r \in RowsOf([g EXCEPT ![f] = n]) <=>
                     \/ r \in RowsOf(g) /\ r.filter # f
                     \/ r \in RowsAt(f, n)
    BY <1>1, <2>1, <2>2, ReplacedStep
  <2>4. ASSUME NEW r
        PROVE  r \in RowsOf([g EXCEPT ![f] = n]) <=>
                  \/ r \in RowsOf(t) /\ ~(r.filter = f /\ r.sub = sub)
                  \/ r = Row(f, sub, qos)
    <3>1. r \in RowsAt(f, g[f]) <=> r \in RowsOf(g) /\ r.filter = f
      <4>1. r \in RowsAt(f, g[f]) => r.filter = f
        BY DEF RowsAt
      <4> QED
        BY <2>1, <4>1, RowPlace
    <3> QED
      BY <1>1, <2>2, <2>3, <3>1
  <2>5. u = [g EXCEPT ![f] = n]
    BY <1>2, <1>4 DEF n
  <2> HIDE DEF u
  <2>6. RowsOf(u) = {r \in RowsOf(t) : ~(r.filter = f /\ r.sub = sub)}
                      \cup {Row(f, sub, qos)}
    BY <2>4, <2>5
  <2> QED
    BY <1>4, <2>3, <2>5, <2>6 DEF u, f
<1> QED
  BY <1>3, <1>4

(* Nodes that are pruned have nothing below them but emptied nodes.        *)
LEMMA DeadNodes ==
    ASSUME NEW t, Sound(t), NEW p \in Path
    PROVE  /\ DOMAIN STree!Prune(t, p) = DOMAIN t \ STree!Dead(t, p)
           /\ \A q \in DOMAIN STree!Prune(t, p) : STree!Prune(t, p)[q] = t[q]
           /\ \A q \in DOMAIN t : q \in STree!Dead(t, p) <=>
                 /\ q # Root /\ IsPrefix(q, p)
                 /\ \A r \in DOMAIN t :
                       IsPrefix(q, r) => IsPrefix(r, p) /\ Len(t[r].subs) = 0
           /\ \A q \in DOMAIN t : q \in STree!Dead(t, p) => Len(t[q].subs) = 0
<1>1. \A q \in DOMAIN t : q \in STree!Dead(t, p) <=>
         /\ q # Root /\ IsPrefix(q, p)
         /\ \A r \in DOMAIN t :
               IsPrefix(q, r) => IsPrefix(r, p) /\ Len(t[r].subs) = 0
  BY SameWalk DEF STree!Dead
<1>2. \A q \in DOMAIN t : IsPrefix(q, q)
  BY PrefixOrder DEF Sound
<1> QED
  BY <1>1, <1>2 DEF STree!Prune

(* So the way back up in sremove loses no subscription.                    *)
LEMMA PruneStep ==
    ASSUME NEW t, Sound(t), NEW p \in Path
    PROVE  /\ Sound(STree!Prune(t, p))
           /\ RowsOf(STree!Prune(t, p)) = RowsOf(t)
<1> DEFINE u == STree!Prune(t, p)
<1>1. /\ DOMAIN u = DOMAIN t \ STree!Dead(t, p)
      /\ \A q \in DOMAIN u : u[q] = t[q]
      /\ \A q \in DOMAIN t : q \in STree!Dead(t, p) => Len(t[q].subs) = 0
  BY DeadNodes
<1>2. u = [q \in DOMAIN u |-> u[q]]
  BY DEF STree!Prune
<1> HIDE DEF u
<1>3. Sound(u)
  BY <1>1, <1>2 DEF Sound
<1>4. ASSUME NEW r PROVE r \in RowsOf(u) <=> r \in RowsOf(t)
  <2>1. \A q \in DOMAIN t : q \in STree!Dead(t, p) => RowsAt(q, t[q]) = {}
    BY <1>1 DEF RowsAt
  <2> QED
    BY <1>1, <2>1, RowPlace
<1> QED
  BY <1>3, <1>4 DEF u

(* sremove does to the table what Unsubscribe and UnsubscribeAll do.       *)
LEMMA RemovedStep ==
    ASSUME NEW t, Sound(t), NEW raw \in RawTopic, NEW sub \in Sub \cup {NilSub},
           STree!Found(t, raw, sub)
    PROVE  /\ Sound(STree!Removed(t, raw, sub))
           /\ RowsOf(STree!Removed(t, raw, sub))
                = {r \in RowsOf(t) :
                     ~(r.filter = PathOf(raw) /\ (sub = NilSub \/ r.sub = sub))}
           /\ sub # NilSub => \E r \in RowsOf(t) : r.filter = PathOf(raw) /\ r.sub = sub
<1> DEFINE f == PathOf(raw)
           n == STree!DropSub(t[f], sub)
           u == [t EXCEPT ![f] = n]
<1>1. /\ f \in DOMAIN t /\ Fit(t[f]) /\ f \in Path
      /\ sub # NilSub => STree!Holds(t[f], sub)
  BY SameWalk DEF STree!Found, Sound
<1>2. /\ Fit(n)
      /\ RowsAt(f, n) = {r \in RowsAt(f, t[f]) : sub # NilSub /\ r.sub # sub}
  BY <1>1, DropSubStep
<1>3. STree!Removed(t, raw, sub) = STree!Prune(u, f)
  BY SameWalk DEF STree!Removed
<1> HIDE DEF n, f
<1>4. /\ Sound(u)
      /\ \A r : r \in RowsOf(u) <=> \/ r \in RowsOf(t) /\ r.filter # f
                                    \/ r \in RowsAt(f, n)
  BY <1>1, <1>2, ReplacedStep
<1>5. \A r : r \in RowsAt(f, t[f]) <=> r \in RowsOf(t) /\ r.filter = f
  <2>1. \A r : r \in RowsAt(f, t[f]) => r.filter = f
    BY DEF RowsAt
  <2> QED
    BY <1>1, <2>1, RowPlace
<1> HIDE DEF u
<1>6. Sound(STree!Prune(u, f)) /\ RowsOf(STree!Prune(u, f)) = RowsOf(u)
  BY <1>1, <1>4, PruneStep
<1>7. RowsOf(u) = {r \in RowsOf(t) : ~(r.filter = f /\ (sub = NilSub \/ r.sub = sub))}
  BY <1>2, <1>4, <1>5
<1>8. ASSUME sub # NilSub PROVE \E r \in RowsOf(t) : r.filter = f /\ r.sub = sub
  <2>1. PICK i \in 1..Len(t[f].subs) : t[f].subs[i] = sub
    BY <1>1, <1>8 DEF STree!Holds
  <2>2. Row(f, sub, t[f].qos[i]) \in RowsAt(f, t[f])
    BY <2>1 DEF RowsAt, Row
  <2> QED
    BY <1>5, <2>2 DEF Row
<1> QED
  BY <1>3, <1>6, <1>7, <1>8 DEF f
-----------------------------------------------------------------------------
(* Each leaf holds a subscription, or a malformed topic broke off there.   *)
Below(t, p) == \E q \in DOMAIN t : IsPrefix(p, q) /\ p # q

Compact(t) == \A p \in DOMAIN t \ BrokenOff :
                 p = Root \/ Len(t[p].subs) > 0 \/ Below(t, p)

(* What sinsert creates ends in the new subscription or is broken off.     *)
LEMMA InsertedCompact ==
    ASSUME NEW t, Sound(t), Compact(t), NEW raw \in RawTopic,
           NEW qos \in STree!QosGranted, NEW sub \in Sub
    PROVE  Compact(STree!Inserted(t, raw, qos, sub))
<1> DEFINE g == STree!Grown(t, Visited(raw))
           f == PathOf(raw)
           u == STree!Inserted(t, raw, qos, sub)
<1>1. /\ Sound(g) /\ DOMAIN g = DOMAIN t \cup Visited(raw)
      /\ \A p \in DOMAIN t : g[p] = t[p]
  BY Walked, GrownStep
<1>2. u = IF ValidTopic(raw) THEN [g EXCEPT ![f] = STree!PutSub(g[f], sub, qos)] ELSE g
  BY SameWalk DEF STree!Inserted
<1>3. DOMAIN u = DOMAIN t \cup Visited(raw)
  BY <1>1, <1>2
<1>4. ASSUME NEW p \in DOMAIN t, Below(t, p) PROVE Below(u, p)
  BY <1>3, <1>4 DEF Below
<1>5. CASE ~ValidTopic(raw)
  <2>1. Visited(raw) \subseteq BrokenOff
    BY <1>5 DEF BrokenOff
  <2>2. \A p \in DOMAIN u \ BrokenOff : p \in DOMAIN t /\ u[p] = t[p]
    BY <1>1, <1>2, <1>3, <1>5, <2>1
  <2> HIDE DEF u
  <2>3. ASSUME NEW p \in DOMAIN u \ BrokenOff
        PROVE  p = Root \/ Len(u[p].subs) > 0 \/ Below(u, p)
    <3>1. p \in DOMAIN t \ BrokenOff /\ u[p] = t[p]
      BY <2>2
    <3>2. p = Root \/ Len(t[p].subs) > 0 \/ Below(t, p)
      BY <3>1 DEF Compact
    <3> QED
      BY <1>4, <3>1, <3>2
  <2>4. Compact(u)
    BY <2>3 DEF Compact
  <2> QED
    BY <2>4 DEF u
<1>6. CASE ValidTopic(raw)
  <2>1. /\ f \in DOMAIN g /\ f \in Visited(raw)
        /\ \A p \in Visited(raw) : IsPrefix(p, f)
        /\ Len(STree!PutSub(g[f], sub, qos).subs) > 0
    BY <1>1, <1>6, Walked, PutSubStep DEF Sound
  <2>2. /\ Len(u[f].subs) > 0
        /\ \A p \in DOMAIN g : p # f => u[p] = g[p]
    BY <1>2, <1>6, <2>1
  <2> HIDE DEF u, g, f
  <2>3. ASSUME NEW p \in DOMAIN u \ BrokenOff
        PROVE  p = Root \/ Len(u[p].subs) > 0 \/ Below(u, p)
    <3>1. CASE p \in DOMAIN t
      <4>1. p = f \/ u[p] = t[p]
        BY <1>1, <2>2, <3>1
      <4> QED
        BY <1>4, <2>2, <3>1, <4>1 DEF Compact
    <3>2. CASE p \in Visited(raw)
      BY <1>3, <2>1, <2>2, <3>2 DEF Below
    <3> QED
      BY <1>3, <3>1, <3>2
  <2>4. Compact(u)
    BY <2>3 DEF Compact
  <2> QED
    BY <2>4 DEF u
<1> QED
  BY <1>5, <1>6

(* sremove goes back up as far as there are nodes that hold nothing.       *)
LEMMA RemovedCompact ==
    ASSUME NEW t, Sound(t), Compact(t), NEW raw \in RawTopic,
           NEW sub \in Sub \cup {NilSub}, STree!Found(t, raw, sub)
    PROVE  Compact(STree!Removed(t, raw, sub))
<1> DEFINE f == PathOf(raw)
           n == STree!DropSub(t[f], sub)
           u == [t EXCEPT ![f] = n]
           v == STree!Prune(u, f)
<1>1. /\ f \in DOMAIN t /\ Fit(t[f]) /\ f \in Path
      /\ sub # NilSub => STree!Holds(t[f], sub)
  BY SameWalk DEF STree!Found, Sound
<1>2. Fit(n)
  BY <1>1, DropSubStep
<1>3. STree!Removed(t, raw, sub) = v
  BY SameWalk DEF STree!Removed
<1> HIDE DEF n, f
<1>4. /\ Sound(u) /\ DOMAIN u = DOMAIN t /\ DOMAIN u \subseteq Path
      /\ \A p \in DOMAIN t : p # f => u[p] = t[p]
      /\ \A p \in DOMAIN t : Len(u[p].subs) \in Nat
  <2>1. Sound(u)
    BY <1>1, <1>2, ReplacedStep
  <2>2. \A p \in DOMAIN u : Len(u[p].subs) \in Nat
    BY <2>1 DEF Sound, Fit, STree!Node
  <2> QED
    BY <1>1, <2>1, <2>2 DEF Sound
<1> HIDE DEF u
<1>5. /\ DOMAIN v = DOMAIN u \ STree!Dead(u, f)
      /\ \A q \in DOMAIN v : v[q] = u[q]
      /\ \A q \in DOMAIN u : q \in STree!Dead(u, f) <=>
            /\ q # Root /\ IsPrefix(q, f)
            /\ \A r \in DOMAIN u :
                  IsPrefix(q, r) => IsPrefix(r, f) /\ Len(u[r].subs) = 0
  BY <1>1, <1>4, DeadNodes
<1> HIDE DEF v
(* What is below a node that stays, and makes it stay, stays too.          *)
<1>6. ASSUME NEW p \in DOMAIN v, p # Root, IsPrefix(p, f), Len(v[p].subs) = 0
      PROVE  Below(v, p)
  <2>1. PICK r \in DOMAIN u : /\ IsPrefix(p, r)
                              /\ ~(IsPrefix(r, f) /\ Len(u[r].subs) = 0)
    BY <1>5, <1>6
  <2>2. r # p
    BY <1>5, <1>6, <2>1
  <2>3. r \notin STree!Dead(u, f)
    <3>1. IsPrefix(r, r)
      BY <1>4, <2>1, PrefixOrder
    <3> QED
      BY <1>5, <2>1, <3>1
  <2> QED
    BY <1>5, <2>1, <2>2, <2>3 DEF Below
<1>7. ASSUME NEW p \in DOMAIN v \ BrokenOff, p # Root, Len(v[p].subs) = 0
      PROVE  Below(v, p)
  <2>1. p \in DOMAIN t /\ p \in Path
    BY <1>4, <1>5
  <2>2. CASE IsPrefix(p, f)
    BY <1>6, <1>7, <2>2
  <2>3. CASE ~IsPrefix(p, f)
    <3>1. p # f
      BY <1>1, <2>3, PrefixOrder
    <3>2. Below(t, p)
      BY <1>4, <1>5, <1>7, <2>1, <3>1 DEF Compact
    <3>3. PICK q \in DOMAIN t : IsPrefix(p, q) /\ p # q
      BY <3>2 DEF Below
    <3>4. ~IsPrefix(q, f)
      BY <1>1, <1>4, <2>1, <2>3, <3>3, PrefixOrder
    <3>5. q \in DOMAIN v
      BY <1>4, <1>5, <3>3, <3>4
    <3> QED
      BY <3>3, <3>5 DEF Below
  <2> QED
    BY <2>2, <2>3
<1>8. \A p \in DOMAIN v : Len(v[p].subs) \in Nat
  BY <1>4, <1>5
<1> QED
  BY <1>3, <1>7, <1>8 DEF Compact
-----------------------------------------------------------------------------
(* The tree of retained messages, in the same way.                         *)
SoundR(t) == /\ t \in [DOMAIN t -> Msg \cup {NoMsg}]
             /\ DOMAIN t \subseteq Path

CompactR(t) == \A p \in DOMAIN t \ BrokenOff :
                  p = Root \/ t[p] # NoMsg \/ Below(t, p)

(* rinsertOrUpdate replaces one message and takes none away.               *)
LEMMA StoredStep ==
    ASSUME NEW t, SoundR(t), NEW raw \in RawTopic, NEW msg \in Msg
    PROVE  /\ SoundR(RTree!InsertedR(t, raw, msg))
           /\ \A p \in DOMAIN t : /\ p \in DOMAIN RTree!InsertedR(t, raw, msg)
                                  /\ RTree!InsertedR(t, raw, msg)[p] \in {t[p], msg}
           /\ CompactR(t) => CompactR(RTree!InsertedR(t, raw, msg))
<1> DEFINE g == RTree!GrownR(t, Visited(raw))
           f == PathOf(raw)
           u == RTree!InsertedR(t, raw, msg)
<1>1. /\ g = [p \in DOMAIN g |-> g[p]]
      /\ DOMAIN g = DOMAIN t \cup Visited(raw)
      /\ \A p \in DOMAIN t : g[p] = t[p]
  BY DEF RTree!GrownR
<1>2. u = IF ValidTopic(raw) THEN [g EXCEPT ![f] = msg] ELSE g
  BY SameWalkR DEF RTree!InsertedR
<1> HIDE DEF g, u
<1>3. /\ SoundR(u) /\ DOMAIN u = DOMAIN t \cup Visited(raw)
      /\ \A p \in DOMAIN t : p \in DOMAIN u /\ u[p] \in {t[p], msg}
  <2>1. g \in [DOMAIN g -> Msg \cup {NoMsg}]
    BY DEF g, RTree!GrownR, SoundR
  <2>2. /\ u \in [DOMAIN g -> Msg \cup {NoMsg}]
        /\ \A p \in DOMAIN g : u[p] \in {g[p], msg}
    BY <1>2, <2>1
  <2> QED
    BY <1>1, <2>2, Walked DEF SoundR
<1>4. \A p \in DOMAIN t : Below(t, p) => Below(u, p)
  BY <1>3 DEF Below
<1>5. ASSUME CompactR(t) PROVE CompactR(u)
  <2>1. CASE ~ValidTopic(raw)
    <3>1. Visited(raw) \subseteq BrokenOff
      BY <2>1 DEF BrokenOff
    <3>2. \A p \in DOMAIN u \ BrokenOff : p \in DOMAIN t /\ u[p] = t[p]
      BY <1>1, <1>2, <1>3, <2>1, <3>1
    <3> QED
      BY <1>4, <1>5, <3>2 DEF CompactR
  <2>2. CASE ValidTopic(raw)
    <3>1. /\ f \in DOMAIN u /\ \A p \in Visited(raw) : IsPrefix(p, f)
          /\ u[f] = msg /\ msg # NoMsg
      BY <1>1, <1>2, <1>3, <2>2, Walked, MsgAssumption
    <3> HIDE DEF f
    <3>2. ASSUME NEW p \in DOMAIN u \ BrokenOff
          PROVE  p = Root \/ u[p] # NoMsg \/ Below(u, p)
      <4>1. CASE p \in DOMAIN t
        BY <1>3, <1>4, <1>5, <3>1, <4>1 DEF CompactR
      <4>2. CASE p \in Visited(raw)
        BY <3>1, <4>2 DEF Below
      <4> QED
        BY <1>3, <4>1, <4>2
    <3> QED
      BY <3>2 DEF CompactR
  <2> QED
    BY <2>1, <2>2
<1> QED
  BY <1>3, <1>5 DEF u

(* rremove touches the nodes along its topic only, and goes back up as far *)
(* as there are nodes without children.                                    *)
LEMMA ClearedStep ==
    ASSUME NEW t, SoundR(t), NEW raw \in RawTopic, RTree!FoundR(t, raw)
    PROVE  /\ SoundR(RTree!RemovedR(t, raw))
           /\ \A p \in DOMAIN t :
                 \/ IsPrefix(p, PathOf(raw))
                 \/ /\ p \in DOMAIN RTree!RemovedR(t, raw)
                    /\ RTree!RemovedR(t, raw)[p] = t[p]
           /\ CompactR(t) => CompactR(RTree!RemovedR(t, raw))
<1> DEFINE f == PathOf(raw)
           u == [t EXCEPT ![f] = NoMsg]
           v == RTree!RemovedR(t, raw)
<1>1. f \in DOMAIN t /\ f \in Path
  BY SameWalkR DEF RTree!FoundR, SoundR
<1>2. /\ DOMAIN u = DOMAIN t
      /\ \A p \in DOMAIN t : p # f => u[p] = t[p]
  OBVIOUS
<1>3. v = [q \in DOMAIN t \ RTree!DeadR(u, f) |-> u[q]]
  BY SameWalkR DEF RTree!RemovedR
<1> HIDE DEF v, u
<1>4. \A q \in DOMAIN t : q \in RTree!DeadR(u, f) <=>
         /\ q # Root /\ IsPrefix(q, f)
         /\ \A r \in DOMAIN t : IsPrefix(q, r) => IsPrefix(r, f)
  BY <1>2, SameWalkR DEF RTree!DeadR
<1> HIDE DEF f
<1>5. /\ SoundR(v) /\ DOMAIN v \subseteq DOMAIN t
      /\ \A p \in DOMAIN t : ~IsPrefix(p, f) => p \in DOMAIN v
      /\ \A p \in DOMAIN v : p # f => v[p] = t[p]
  <2>1. u \in [DOMAIN t -> Msg \cup {NoMsg}]
    BY DEF u, SoundR
  <2>2. v \in [DOMAIN v -> Msg \cup {NoMsg}] /\ DOMAIN v \subseteq DOMAIN t
    BY <1>3, <2>1
  <2> QED
    BY <1>2, <1>3, <1>4, <2>2 DEF SoundR
<1>6. \A p \in DOMAIN t : \/ IsPrefix(p, f)
                          \/ p \in DOMAIN v /\ v[p] = t[p]
  BY <1>1, <1>5, PrefixOrder
<1>7. ASSUME CompactR(t), NEW p \in DOMAIN v \ BrokenOff, p # Root, v[p] = NoMsg
      PROVE  Below(v, p)
  <2>1. p \in DOMAIN t /\ p \in Path /\ DOMAIN t \subseteq Path
    BY <1>5 DEF SoundR
  <2>2. CASE IsPrefix(p, f)
    <3>1. PICK r \in DOMAIN t : IsPrefix(p, r) /\ ~IsPrefix(r, f)
      BY <1>3, <1>4, <1>7, <2>1, <2>2
    <3> QED
      BY <1>5, <2>2, <3>1 DEF Below
  <2>3. CASE ~IsPrefix(p, f)
    <3>1. Below(t, p)
      BY <1>6, <1>7, <2>1, <2>3 DEF CompactR
    <3>2. PICK q \in DOMAIN t : IsPrefix(p, q) /\ p # q
      BY <3>1 DEF Below
    <3>3. ~IsPrefix(q, f)
      BY <1>1, <2>1, <2>3, <3>2, PrefixOrder
    <3> QED
      BY <1>5, <3>2, <3>3 DEF Below
  <2> QED
    BY <2>2, <2>3
<1> QED
  BY <1>5, <1>6, <1>7 DEF CompactR, v, f
-----------------------------------------------------------------------------
(* Every node's ancestors are nodes.                                       *)
Whole(D) == \A p \in D, q \in Path : IsPrefix(q, p) => q \in D

Hung(t) == Whole(DOMAIN t)

(* E are those of the nodes D on the path f with nothing beside the path   *)
(* below them, nor anything that is not in F.                              *)
Pruned(D, E, F, f) ==
    \A q \in D : q \in E <=> /\ q # Root /\ IsPrefix(q, f)
                            /\ \A r \in D : IsPrefix(q, r) =>
                                               IsPrefix(r, f) /\ r \in F

(* A walk visits the ancestors of whatever it visits.                      *)
LEMMA VisitedHung ==
    ASSUME NEW raw \in RawTopic, NEW p \in Visited(raw), NEW q \in Path, IsPrefix(q, p)
    PROVE  q \in Visited(raw)
<1>1. raw \in Seq(Token) /\ raw # <<>> /\ Len(raw) \in Nat \ {0}
  BY RawTopicAssumption DEF Token
<1>2. Depth(raw) \in 0..Len(raw)
  BY <1>1 DEF Depth
<1>3. PICK k \in 0..Depth(raw) : /\ \A i \in 1..k : LevelOk(raw, i)
                                /\ p = Upto(raw, k)
  BY DEF Visited
<1>4. Len(p) = k /\ \A i \in 1..k : p[i] = LevelAt(raw, i)
  BY <1>2, <1>3 DEF Upto
<1>5. p \in Seq(Level) /\ q \in Seq(Level)
  BY Walked DEF Path
<1>6. /\ Len(q) \in Nat /\ Len(q) <= k
      /\ SubSeq(q, 1, Len(q)) = q
      /\ SubSeq(q, 1, Len(q)) = SubSeq(p, 1, Len(q))
  BY <1>4, <1>5 DEF IsPrefix
<1>7. q = [i \in 1..Len(q) |-> LevelAt(raw, i)]
  <2>1. \A i \in 1..Len(q) : SubSeq(p, 1, Len(q))[i] = LevelAt(raw, i)
    BY <1>2, <1>4, <1>5, <1>6
  <2>2. q = [i \in 1..Len(q) |-> q[i]]
    BY <1>5
  <2> QED
    BY <1>6, <2>1, <2>2
<1>8. q = Upto(raw, Len(q))
  BY <1>7 DEF Upto
<1> QED
  BY <1>2, <1>3, <1>6, <1>8 DEF Visited

(* A branch that is pruned goes with all that hangs from it.               *)
LEMMA PrunedHung ==
    ASSUME NEW D, D \subseteq Path, Whole(D), NEW f \in Path,
           NEW E, NEW F, Pruned(D, E, F, f)
    PROVE  Whole(D \ E)
<1> USE DEF Whole, Pruned
<1> SUFFICES ASSUME NEW p \in D \ E, NEW q \in Path, IsPrefix(q, p), q \in E
             PROVE  FALSE
  OBVIOUS
<1>1. Root \in Path /\ \A r \in Path : IsPrefix(Root, r)
  BY DEF Root, Path, IsPrefix
<1>2. p # Root
  BY <1>1, PrefixOrder
<1>3. \A r \in D : IsPrefix(p, r) => IsPrefix(q, r)
  BY PrefixOrder
<1>4. IsPrefix(p, p)
  BY PrefixOrder
<1> QED
  BY <1>2, <1>3, <1>4

(* sinsert and sremove keep the branches of the subscription tree whole.   *)
LEMMA StepHung ==
    ASSUME NEW t, Sound(t), Hung(t), NEW raw \in RawTopic
    PROVE  /\ \A qos \in STree!QosGranted, sub \in Sub :
                 Hung(STree!Inserted(t, raw, qos, sub))
           /\ \A sub : STree!Found(t, raw, sub) => Hung(STree!Removed(t, raw, sub))
<1>1. ASSUME NEW qos \in STree!QosGranted, NEW sub \in Sub
      PROVE  Hung(STree!Inserted(t, raw, qos, sub))
  <2>1. DOMAIN STree!Inserted(t, raw, qos, sub) = DOMAIN t \cup Visited(raw)
    BY SameWalk DEF STree!Inserted, STree!Grown
  <2> QED
    BY <2>1, VisitedHung DEF Hung, Whole
<1>2. ASSUME NEW sub, STree!Found(t, raw, sub)
      PROVE  Hung(STree!Removed(t, raw, sub))
  <2> DEFINE f == PathOf(raw)
             u == [t EXCEPT ![f] = STree!DropSub(t[f], sub)]
             D == DOMAIN t
             E == STree!Dead(u, f)
             F == {r \in DOMAIN t : Len(u[r].subs) = 0}
  <2>1. DOMAIN u = DOMAIN t /\ f \in Path /\ DOMAIN t \subseteq Path
    BY <1>2, SameWalk DEF STree!Found, Sound
  <2>2. DOMAIN STree!Removed(t, raw, sub) = DOMAIN t \ E
    BY SameWalk DEF STree!Removed, STree!Prune
  <2>3. Pruned(D, E, F, f)
    BY SameWalk DEF STree!Dead, Pruned
  <2>4. D \subseteq Path /\ Whole(D)
    BY <2>1 DEF Hung
  <2> HIDE DEF D, F, E, u, f
  <2>5. Whole(D \ E)
    BY <2>1, <2>3, <2>4, PrunedHung
  <2> QED
    BY <2>2, <2>5 DEF Hung, D
<1> QED
  BY <1>1, <1>2

(* And so do rinsertOrUpdate and rremove.                                  *)
LEMMA StepHungR ==
    ASSUME NEW t, SoundR(t), Hung(t), NEW raw \in RawTopic
    PROVE  /\ \A msg : Hung(RTree!InsertedR(t, raw, msg))
           /\ RTree!FoundR(t, raw) => Hung(RTree!RemovedR(t, raw))
<1>1. ASSUME NEW msg PROVE Hung(RTree!InsertedR(t, raw, msg))
  <2>1. DOMAIN RTree!InsertedR(t, raw, msg) = DOMAIN t \cup Visited(raw)
    BY SameWalkR DEF RTree!InsertedR, RTree!GrownR
  <2> QED
    BY <2>1, VisitedHung DEF Hung, Whole
<1>2. ASSUME RTree!FoundR(t, raw) PROVE Hung(RTree!RemovedR(t, raw))
  <2> DEFINE f == PathOf(raw)
             D == DOMAIN t
             E == RTree!DeadR([t EXCEPT ![f] = NoMsg], f)
             F == DOMAIN t
  <2>1. f \in Path /\ DOMAIN t \subseteq Path
    BY <1>2, SameWalkR DEF RTree!FoundR, SoundR
  <2>2. DOMAIN RTree!RemovedR(t, raw) = DOMAIN t \ E
    BY SameWalkR DEF RTree!RemovedR
  <2>3. Pruned(D, E, F, f)
    BY SameWalkR DEF RTree!DeadR, Pruned
  <2>4. D \subseteq Path /\ Whole(D)
    BY <2>1 DEF Hung
  <2> HIDE DEF D, F, E, f
  <2>5. Whole(D \ E)
    BY <2>1, <2>3, <2>4, PrunedHung
  <2> QED
    BY <2>2, <2>5 DEF Hung, D
<1> QED
  BY <1>1, <1>2
-----------------------------------------------------------------------------
(* The inductive invariant: both trees are sound and whole, and no branch  *)
(* is without use.                                                         *)
TreesInv == /\ Sound(sroot) /\ Compact(sroot) /\ Hung(sroot)
        /\ SoundR(rroot) /\ CompactR(rroot) /\ Hung(rroot)

(* NewMemProvider starts with two roots.                                   *)
LEMMA TreesInitHolds == TreesInit => TreesInv
<1> SUFFICES ASSUME TreesInit PROVE TreesInv
  OBVIOUS
<1>1. /\ sroot = [p \in {Root} |-> STree!NewSNode]
      /\ rroot = [p \in {Root} |-> NoMsg]
  BY SameWalk, SameWalkR DEF TreesInit, STree!Init, RTree!Init
<1>2. Root \in Path
  BY DEF Root, Path
<1>3. \A q \in Path : IsPrefix(q, Root) => q = Root
  BY DEF Root, Path, IsPrefix
<1> QED
  BY <1>1, <1>2, <1>3, NewNode DEF TreesInv, Sound, Compact, SoundR, CompactR, Hung, Whole

(* Each operation of the manager preserves it.                             *)
LEMMA TreesStepHolds == TreesInv /\ [TreesNext]_treeVars => TreesInv'
<1> SUFFICES ASSUME TreesInv, [TreesNext]_treeVars PROVE TreesInv'
  OBVIOUS
<1> DEFINE Kept == Sound(sroot') /\ Compact(sroot') /\ Hung(sroot')
           KeptR == SoundR(rroot') /\ CompactR(rroot') /\ Hung(rroot')
<1>1. ASSUME STree!Next PROVE Kept
  <2>1. ASSUME NEW raw \in RawTopic, NEW qos \in SubQos, NEW sub \in Sub,
               STree!Subscribe(raw, qos, sub)
        PROVE  Kept
    BY <2>1, InsertedStep, InsertedCompact, StepHung
       DEF TreesInv, STree!Subscribe, STree!ValidQos
  <2>2. ASSUME NEW raw \in RawTopic, NEW sub \in Sub \cup {NilSub},
               STree!Unsubscribe(raw, sub)
        PROVE  Kept
    BY <2>2, RemovedStep, RemovedCompact, StepHung DEF TreesInv, STree!Unsubscribe
  <2> QED
    BY <1>1, <2>1, <2>2 DEF STree!Next
<1>2. ASSUME RTree!Next PROVE KeptR
  <2>1. PICK raw \in RawTopic, msg \in Msg \cup {NoMsg} : RTree!Retain(raw, msg)
    BY <1>2 DEF RTree!Next
  <2>2. CASE msg = NoMsg
    BY <2>1, <2>2, ClearedStep, StepHungR DEF TreesInv, RTree!Retain, RTree!Clear
  <2>3. CASE msg # NoMsg
    BY <2>1, <2>3, StoredStep, StepHungR DEF TreesInv, RTree!Retain, RTree!Store
  <2> QED
    BY <2>2, <2>3
<1>3. Kept /\ KeptR
  BY <1>1, <1>2 DEF TreesInv, TreesNext, treeVars
<1> QED
  BY <1>3 DEF TreesInv

(* So it holds of every behaviour.                                         *)
LEMMA TreesInvariance == TreesSpec => []TreesInv
<1>1. TreesInv /\ [TreesNext]_treeVars => TreesInv'
  BY TreesStepHolds
<1> QED
  BY TreesInitHolds, <1>1, PTL DEF TreesSpec
-----------------------------------------------------------------------------
(* The nodes of both trees are well-typed, and each hangs from its parent  *)
(* up to the root: no early return of an insertion, and no pruning, cuts a *)
(* branch off with the subscriptions or messages in it.                    *)
THEOREM BranchesWhole ==
    TreesSpec => [](STree!TypeOK /\ STree!Rooted /\ RTree!TypeOK /\ RTree!Rooted)
<1>1. ASSUME NEW p \in Path, NEW k \in 0..Len(p)
      PROVE  SubSeq(p, 1, k) \in Path /\ IsPrefix(SubSeq(p, 1, k), p)
  BY DEF Path, IsPrefix
<1>2. TreesInv => STree!TypeOK /\ RTree!TypeOK
  BY SameWalk, SameWalkR DEF TreesInv, Sound, SoundR, Fit, STree!TypeOK, RTree!TypeOK
<1>3. TreesInv => STree!Rooted /\ RTree!Rooted
  BY <1>1 DEF TreesInv, Sound, SoundR, Hung, Whole, STree!Rooted, RTree!Rooted
<1> QED
  BY TreesInvariance, <1>2, <1>3, PTL

(* Whatever is subscribed and unsubscribed, the slices subs and qos of a   *)
(* node stay in step and name no subscriber twice: sremove, which shifts   *)
(* both over one slot, leaves nothing of the subscription behind.          *)
THEOREM SlicesInStep == TreesSpec => []SubscribersInStep
<1>1. TreesInv => SubscribersInStep
  BY DEF TreesInv, Sound, Fit, SubscribersInStep, STree!InStep
<1> QED
  BY TreesInvariance, <1>1, PTL

(* The two ways to say that a node has another one below it.               *)
LEMMA StrictlyBelow ==
    \A p, q : /\ STree!IsStrictPrefix(p, q) <=> IsPrefix(p, q) /\ p # q
              /\ RTree!IsStrictPrefix(p, q) <=> IsPrefix(p, q) /\ p # q
BY SameWalk, SameWalkR DEF STree!IsStrictPrefix, RTree!IsStrictPrefix

(* sremove's pruning keeps the subscription tree as small as the           *)
(* subscriptions in it, up to what malformed topics left behind.           *)
THEOREM SubscriptionsPruned == TreesSpec => []SubscriptionsCompact
<1>1. TreesInv => SubscriptionsCompact
  BY SameWalk, StrictlyBelow DEF TreesInv, Compact, Below, SubscriptionsCompact, STree!NoHollowLeaf
<1> QED
  BY TreesInvariance, <1>1, PTL

(* rremove's pruning leaves no branch of the other tree without messages,  *)
(* although it does not look at the messages of the nodes it deletes.      *)
THEOREM RetainedPruned == TreesSpec => []RetainedCompact
<1>1. TreesInv => RetainedCompact
  BY SameWalkR, StrictlyBelow DEF TreesInv, CompactR, Below, RetainedCompact, RTree!NoHollowLeaf
<1> QED
  BY TreesInvariance, <1>1, PTL

(* A retained message disappears only when a topic is cleared, and only    *)
(* one of that topic or of a topic above it.                               *)
THEOREM LossConfined == TreesSpec => RetainedLosesOneBranch
<1>1. TreesInv /\ [TreesNext]_treeVars =>
         [RTree!Lost # {} => \E raw \in RawTopic :
            RTree!Clear(raw) /\ \A p \in RTree!Lost :
                                  RTree!IsPrefix(p, RTree!PathOf(raw))]_(RTree!vars)
  <2> SUFFICES ASSUME TreesInv, TreesNext, rroot' # rroot PROVE RTree!Lost # {} => \E raw \in RawTopic :
                  /\ RTree!Clear(raw)
                  /\ \A p \in RTree!Lost : RTree!IsPrefix(p, RTree!PathOf(raw))
    BY DEF RTree!vars, treeVars
  <2>1. PICK raw \in RawTopic, msg \in Msg \cup {NoMsg} : RTree!Retain(raw, msg)
    BY DEF TreesNext, RTree!Next
  <2>2. CASE msg = NoMsg
    <3>1. RTree!Clear(raw)
      BY <2>1, <2>2 DEF RTree!Retain
    <3>2. \A p \in DOMAIN rroot : \/ IsPrefix(p, PathOf(raw))
                                  \/ p \in DOMAIN rroot' /\ rroot'[p] = rroot[p]
      BY <3>1, ClearedStep DEF TreesInv, RTree!Clear
    <3>3. \A p \in RTree!Lost : RTree!IsPrefix(p, RTree!PathOf(raw))
      BY <3>2, SameWalkR DEF RTree!Lost
    <3> QED
      BY <3>1, <3>3
  <2>3. CASE msg # NoMsg
    <3>1. \A p \in DOMAIN rroot : p \in DOMAIN rroot' /\ rroot'[p] \in {rroot[p], msg}
      BY <2>1, <2>3, StoredStep DEF TreesInv, RTree!Retain, RTree!Store
    <3>2. RTree!Lost = {}
      BY <2>3, <3>1 DEF RTree!Lost
    <3> QED
      BY <3>2
  <2> QED
    BY <2>2, <2>3
<1> QED
  BY TreesInvariance, <1>1, PTL DEF TreesSpec, RetainedLosesOneBranch, RTree!LosesOneBranch

(* A topic without errors is a filter of the table.                        *)
LEMMA FilterOf ==
    ASSUME NEW raw \in RawTopic, ValidTopic(raw)
    PROVE  PathOf(raw) \in {STree!PathOf(r) : r \in {q \in RawTopic : STree!ValidTopic(q)}}
BY SameWalk

(* sinsert and sremove, with their early returns, malformed topics and the *)
(* nil subscriber, change the subscriptions in the tree as SubTable says:  *)
(* the subscription tree implements the table.                             *)
THEOREM TreeImplementsTable == TreesSpec => SubscriptionsImplemented
<1>1. STree!Table = RowsOf(sroot) /\ STree!Table' = RowsOf(sroot')
  BY DEF STree!Table, RowsOf, RowsAt
<1>2. TreesInit => STree!Abstract!Init
  BY <1>1, NewNode, RowPlace DEF TreesInit, STree!Init, STree!Abstract!Init
<1>3. TreesInv /\ [TreesNext]_treeVars => [STree!Abstract!Next]_(STree!Table)
  <2> SUFFICES ASSUME TreesInv, TreesNext, STree!Table' # STree!Table PROVE STree!Abstract!Next
    BY <1>1 DEF treeVars
  <2>1. ASSUME NEW raw \in RawTopic, NEW qos \in SubQos, NEW sub \in Sub,
               STree!Subscribe(raw, qos, sub)
        PROVE  STree!Abstract!Next
    <3>1. /\ qos \in STree!QosGranted
          /\ sroot' = STree!Inserted(sroot, raw, qos, sub)
      BY <2>1 DEF STree!Subscribe, STree!ValidQos
    <3>2. ValidTopic(raw)
      BY <1>1, <3>1, InsertedStep DEF TreesInv
    <3>3. RowsOf(sroot') = {r \in RowsOf(sroot) : ~(r.filter = PathOf(raw) /\ r.sub = sub)}
                              \cup {Row(PathOf(raw), sub, qos)}
      BY <3>1, <3>2, InsertedStep DEF TreesInv
    <3>4. STree!Abstract!Subscribe(PathOf(raw), sub, qos)
      BY <1>1, <3>3 DEF STree!Abstract!Subscribe, STree!Abstract!Rows, Row
    <3> QED
      BY <3>1, <3>2, <3>4, FilterOf DEF STree!Abstract!Next
  <2>2. ASSUME NEW raw \in RawTopic, NEW sub \in Sub \cup {NilSub},
               STree!Unsubscribe(raw, sub)
        PROVE  STree!Abstract!Next
    <3>1. /\ STree!Found(sroot, raw, sub)
          /\ sroot' = STree!Removed(sroot, raw, sub)
      BY <2>2 DEF STree!Unsubscribe
    <3>2. ValidTopic(raw)
      BY <3>1, SameWalk DEF STree!Found
    <3>3. /\ RowsOf(sroot') = {r \in RowsOf(sroot) :
                                 ~(r.filter = PathOf(raw) /\ (sub = NilSub \/ r.sub = sub))}
          /\ sub # NilSub => \E r \in RowsOf(sroot) : r.filter = PathOf(raw) /\ r.sub = sub
      BY <3>1, RemovedStep DEF TreesInv
    <3>4. CASE sub = NilSub
      <4>1. STree!Abstract!UnsubscribeAll(PathOf(raw))
        BY <1>1, <3>3, <3>4 DEF STree!Abstract!UnsubscribeAll
      <4> QED
        BY <3>2, <4>1, FilterOf DEF STree!Abstract!Next
    <3>5. CASE sub \in Sub
      <4>1. sub # NilSub
        BY <3>5, SubAssumption
      <4>2. STree!Abstract!Unsubscribe(PathOf(raw), sub)
        BY <1>1, <3>3, <4>1 DEF STree!Abstract!Unsubscribe, STree!Abstract!Rows
      <4> QED
        BY <3>2, <3>5, <4>2, FilterOf DEF STree!Abstract!Next
    <3> QED
      BY <3>4, <3>5
  <2> QED
    BY <1>1, <2>1, <2>2 DEF TreesNext, STree!Next
<1> QED
  BY TreesInvariance, <1>2, <1>3, PTL DEF TreesSpec, SubscriptionsImplemented, STree!ImplementsTable, STree!Abstract!Spec
-----------------------------------------------------------------------------
(* The calls of the recursive methods that insert: from the root down to   *)
(* where the walk along the topic ends.                                    *)

(* Induction on the natural numbers, for the calls of a recursive method:  *)
(* of the numbers outside S, none would be the least.                      *)
LEMMA Induct ==
    ASSUME NEW S, 0 \in S, \A n \in Nat : n \in S => n + 1 \in S
    PROVE  \A n \in Nat : n \in S
<1> SUFFICES ASSUME Nat \ S # {} PROVE FALSE
  OBVIOUS
<1>1. IsWellFoundedOn(OpToRel(<, Nat), Nat)
  BY NatLessThanWellFounded
<1>2. PICK n \in Nat \ S : \A m \in Nat \ S : ~(<<m, n>> \in OpToRel(<, Nat))
  BY <1>1, WFMin
<1>3. n # 0 /\ n - 1 \in Nat /\ (n - 1) + 1 = n /\ n - 1 < n
  OBVIOUS
<1>4. <<n - 1, n>> \in OpToRel(<, Nat)
  BY <1>3 DEF OpToRel
<1>5. n - 1 \in S
  BY <1>2, <1>3, <1>4
<1> QED
  BY <1>3, <1>5

(* The walks name the same topics and positions as the trees.              *)
LEMMA SameNames ==
    /\ Walk!Root = Root
    /\ \A raw : Walk!Depth(raw) = Depth(raw)
    /\ \A raw, k : Walk!Upto(raw, k) = Upto(raw, k)
    /\ \A p, q : Walk!IsPrefix(p, q) <=> IsPrefix(p, q)
<1> USE DEF EmptyToken, SWC, MWC, Walk!EmptyToken, Walk!SWC, Walk!MWC
<1> QED
  BY DEF Root, Walk!Root, Depth, Walk!Depth, Upto, Walk!Upto, LevelAt, Walk!LevelAt,
     IsPrefix, Walk!IsPrefix

(* What a node at some depth above or at u is.                             *)
LEMMA Ancestor ==
    ASSUME NEW u \in Path, NEW k \in 0..Len(u)
    PROVE  /\ SubSeq(u, 1, k) \in Path /\ Len(SubSeq(u, 1, k)) = k
           /\ \A i \in 1..k : SubSeq(u, 1, k)[i] = u[i]
           /\ IsPrefix(SubSeq(u, 1, k), u)
<1>1. u \in Seq(Level) /\ Len(u) \in Nat
  BY DEF Path
<1>2. /\ SubSeq(u, 1, k) \in Seq(Level)
      /\ Len(SubSeq(u, 1, k)) = k
      /\ \A i \in 1..k : SubSeq(u, 1, k)[i] = u[i]
  BY <1>1
<1> DEFINE a == SubSeq(u, 1, k)
<1> HIDE DEF a
<1>3. /\ a \in Path /\ Len(a) = k /\ k \in Nat /\ k <= Len(u)
      /\ \A i \in 1..Len(a) : a[i] = u[i]
  BY <1>1, <1>2 DEF Path, a
<1>4. IsPrefix(a, u)
  BY <1>3, PrefixAt
<1> QED
  BY <1>2, <1>3, <1>4 DEF a

(* Two nodes above a third are one above the other.                        *)
LEMMA Aligned ==
    ASSUME NEW p \in Path, NEW q \in Path, NEW u \in Path,
           IsPrefix(p, u), IsPrefix(q, u), Len(p) <= Len(q)
    PROVE  IsPrefix(p, q)
BY PrefixAt DEF Path

(* And at most one of them is at a given depth.                            *)
LEMMA SameDepth ==
    ASSUME NEW p \in Path, NEW q \in Path, IsPrefix(p, q), Len(p) = Len(q)
    PROVE  p = q
BY PrefixAt DEF Path

(* What the k-th call of a walk finds out about the next level.            *)
LEMMA NextLevel ==
    ASSUME NEW raw \in RawTopic, NEW k \in 0..(Depth(raw) - 1)
    PROVE  /\ Walk!nextTopicLevel(raw, k).err <=> ~LevelOk(raw, k + 1)
           /\ Walk!nextTopicLevel(raw, k).ntl = LevelAt(raw, k + 1)
<1>1. raw \in Seq(Token) /\ Len(raw) \in Nat \ {0}
  BY RawTopicAssumption
<1>2. Depth(raw) \in 0..Len(raw) /\ k + 1 \in 1..Len(raw)
  BY <1>1 DEF Depth
<1>3. Walk!EmptyToken = EmptyToken /\ Walk!SWC = SWC /\ Walk!MWC = MWC
  BY DEF EmptyToken, SWC, MWC, Walk!EmptyToken, Walk!SWC, Walk!MWC
<1> DEFINE head == raw[k + 1]
           bad == head \in Malformed \/ (head = MWC /\ k + 1 < Len(raw))
<1>4. bad <=> ~LevelOk(raw, k + 1)
  BY <1>1, <1>2 DEF LevelOk
<1>5. Walk!nextTopicLevel(raw, k) = [err |-> bad, ntl |-> LevelAt(raw, k + 1)]
  BY <1>3 DEF Walk!nextTopicLevel, LevelAt
<1> HIDE DEF bad
<1>6. /\ Walk!nextTopicLevel(raw, k).err = bad
      /\ Walk!nextTopicLevel(raw, k).ntl = LevelAt(raw, k + 1)
  BY <1>5
<1> QED
  BY <1>4, <1>6

(* The first k levels of a topic.                                          *)
LEMMA Levels ==
    ASSUME NEW raw \in RawTopic
    PROVE  /\ Depth(raw) \in Nat
           /\ \A k \in 0..Depth(raw) : /\ Len(Upto(raw, k)) = k
                                       /\ \A i \in 1..k : Upto(raw, k)[i] = LevelAt(raw, i)
           /\ \A k \in 0..Depth(raw) : (\A i \in 1..k : LevelOk(raw, i)) =>
                                          Upto(raw, k) \in Path
           /\ Upto(raw, 0) = Root
<1>1. raw \in Seq(Token) /\ Len(raw) \in Nat \ {0}
  BY RawTopicAssumption
<1>2. Depth(raw) \in 0..Len(raw)
  BY <1>1 DEF Depth
<1>3. ASSUME NEW k \in 0..Depth(raw), \A i \in 1..k : LevelOk(raw, i)
      PROVE  Upto(raw, k) \in Path
  <2>1. ASSUME NEW i \in 1..k PROVE LevelAt(raw, i) \in Level
    BY <1>1, <1>2, <1>3 DEF LevelAt, LevelOk, Level, Token
  <2> QED
    BY <2>1 DEF Upto, Path
<1>4. Upto(raw, 0) = Root
  BY DEF Upto, Root
<1> QED
  BY <1>2, <1>3, <1>4 DEF Upto

(* Where the walk along a topic ends: at its last level, or before the     *)
(* first one that is an error.                                             *)
StopsAt(raw, k) == /\ k \in 0..Depth(raw)
                   /\ \A i \in 1..k : LevelOk(raw, i)
                   /\ k = Depth(raw) \/ ~LevelOk(raw, k + 1)

(* It ends somewhere.                                                      *)
LEMMA Stops ==
    ASSUME NEW raw \in RawTopic
    PROVE  \E k : StopsAt(raw, k)
<1> DEFINE S == {n \in Nat : n <= Depth(raw) =>
                    (\A i \in 1..n : LevelOk(raw, i)) \/ \E k : StopsAt(raw, k)}
<1>1. Depth(raw) \in Nat
  BY Levels
<1>2. 0 \in S
  OBVIOUS
<1>3. ASSUME NEW n \in Nat, n \in S PROVE n + 1 \in S
  <2>1. CASE n + 1 <= Depth(raw) /\ \A i \in 1..n : LevelOk(raw, i)
    <3>1. CASE LevelOk(raw, n + 1)
      <4>1. \A i \in 1..(n + 1) : i \in 1..n \/ i = n + 1
        OBVIOUS
      <4> QED
        BY <2>1, <3>1, <4>1
    <3>2. CASE ~LevelOk(raw, n + 1)
      <4>1. StopsAt(raw, n)
        BY <1>1, <2>1, <3>2 DEF StopsAt
      <4> QED
        BY <4>1
    <3> QED
      BY <3>1, <3>2
  <2> QED
    BY <1>1, <1>3, <2>1
<1>4. Depth(raw) \in S
  BY <1>1, <1>2, <1>3, Induct
<1> QED
  BY <1>1, <1>4 DEF StopsAt

(* The nodes of the first calls of a walk, as far as level k.              *)
Trail(raw, k) == {Upto(raw, i) : i \in 0..k}

(* These are the positions TopicPath says the walk visits.                 *)
LEMMA StopsVisited ==
    ASSUME NEW raw \in RawTopic, NEW k, StopsAt(raw, k)
    PROVE  /\ Visited(raw) = Trail(raw, k)
           /\ ValidTopic(raw) <=> k = Depth(raw)
<1>1. Depth(raw) \in Nat /\ k \in 0..Depth(raw)
  BY Levels DEF StopsAt
<1>2. \A n \in 0..Depth(raw) : (\A i \in 1..n : LevelOk(raw, i)) <=> n <= k
  BY <1>1 DEF StopsAt
<1>3. {n \in 0..Depth(raw) : \A i \in 1..n : LevelOk(raw, i)} = 0..k
  BY <1>1, <1>2
<1>4. ValidTopic(raw) <=> k = Depth(raw)
  BY <1>1, <1>2 DEF ValidTopic
<1> QED
  BY <1>3, <1>4 DEF Visited, Trail

(* A tree with nodes added that hold nothing.                              *)
Filled(t, nodes, empty) ==
    [p \in DOMAIN t \cup nodes |-> IF p \in DOMAIN t THEN t[p] ELSE empty]

(* The calls of an insertion add the nodes it visits one by one.           *)
LEMMA DescentStep ==
    ASSUME NEW raw \in RawTopic, NEW k, StopsAt(raw, k), NEW empty,
           NEW t, t = [p \in DOMAIN t |-> t[p]], Root \in DOMAIN t
    PROVE  Walk!Descent(t, raw, empty)
             = [t |-> Filled(t, Trail(raw, k), empty), k |-> k]
<1> DEFINE N == Depth(raw)
           Body(g, i) ==
              IF i = 0 THEN [t |-> t, k |-> 0]
              ELSE LET c == g[i - 1] IN
                   IF Walk!nextTopicLevel(raw, c.k).err THEN c
                   ELSE [t |-> Walk!Hook(c.t, Upto(raw, c.k + 1), empty), k |-> c.k + 1]
           At(j) == [t |-> Filled(t, Trail(raw, j), empty), k |-> j]
           is == [i \in 0..N |-> IF i <= k THEN At(i) ELSE At(k)]
<1>1. N \in Nat /\ k \in 0..N
  BY Levels DEF StopsAt
<1>2. is[0] = [t |-> t, k |-> 0]
  <2>1. Trail(raw, 0) = {Root}
    BY Levels DEF Trail
  <2>2. Filled(t, {Root}, empty) = t
    BY DEF Filled
  <2> QED
    BY <1>1, <2>1, <2>2
<1>3. ASSUME NEW j \in 0..(k - 1)
      PROVE  Walk!Hook(Filled(t, Trail(raw, j), empty), Upto(raw, j + 1), empty)
               = Filled(t, Trail(raw, j + 1), empty)
  <2>1. Trail(raw, j + 1) = Trail(raw, j) \cup {Upto(raw, j + 1)}
    <3>1. 0..(j + 1) = 0..j \cup {j + 1}
      BY <1>1
    <3> QED
      BY <3>1 DEF Trail
  <2> DEFINE n == Upto(raw, j + 1)
             T == Trail(raw, j)
  <2> HIDE DEF n, T
  <2>2. Walk!Hook(Filled(t, T, empty), n, empty) = Filled(t, T \cup {n}, empty)
    BY DEF Walk!Hook, Filled
  <2> QED
    BY <2>1, <2>2 DEF n, T
<1>4. ASSUME NEW g, NEW i \in 1..N, g[i - 1] = is[i - 1]
      PROVE  Body(g, i) = is[i]
  <2>1. CASE i <= k
    <3>1. g[i - 1] = At(i - 1) /\ is[i] = At(i)
      BY <1>1, <1>4, <2>1
    <3>2. ~Walk!nextTopicLevel(raw, i - 1).err
      BY <1>1, <2>1, NextLevel DEF StopsAt
    <3>3. Body(g, i) = [t |-> Walk!Hook(Filled(t, Trail(raw, i - 1), empty), Upto(raw, i), empty),
                        k |-> i]
      BY <1>1, <3>1, <3>2
    <3> QED
      BY <1>1, <1>3, <2>1, <3>1, <3>3
  <2>2. CASE i > k
    <3>1. g[i - 1] = At(k) /\ is[i] = At(k)
      <4>1. i - 1 \in 0..N /\ (i - 1 <= k => i - 1 = k) /\ ~(i <= k)
        BY <1>1, <2>2
      <4> QED
        BY <1>1, <1>4, <4>1
    <3>2. Walk!nextTopicLevel(raw, k).err
      BY <1>1, <2>2, NextLevel DEF StopsAt
    <3> QED
      BY <1>1, <3>1, <3>2
  <2> QED
    BY <1>1, <2>1, <2>2
<1> DEFINE call == CHOOSE g : g = [i \in 0..N |-> Body(g, i)]
<1>5. Walk!Descent(t, raw, empty) = call[N]
  BY SameNames DEF Walk!Descent
<1>6. is = [i \in 0..N |-> Body(is, i)]
  <2>1. is[0] = Body(is, 0)
    BY <1>2
  <2>2. \A i \in 0..N : i = 0 \/ i \in 1..N
    BY <1>1
  <2> HIDE DEF Body, is
  <2>3. \A i \in 1..N : is[i] = Body(is, i)
    BY <1>4
  <2>4. \A i \in 0..N : is[i] = Body(is, i)
    BY <2>1, <2>2, <2>3
  <2>5. is = [i \in 0..N |-> is[i]]
    BY DEF is
  <2> QED
    BY <2>4, <2>5
<1> HIDE DEF Body, is
<1>7. call = [i \in 0..N |-> Body(call, i)]
  BY <1>6
<1> HIDE DEF call
<1>8. call[N] = is[N]
  <2> DEFINE S == {n \in Nat : n <= N => call[n] = is[n]}
  <2>1. call[0] = Body(call, 0) /\ Body(call, 0) = [t |-> t, k |-> 0]
    BY <1>1, <1>7 DEF Body
  <2>2. 0 \in S
    BY <1>2, <2>1
  <2>3. ASSUME NEW n \in Nat, n \in S PROVE n + 1 \in S
    <3> SUFFICES ASSUME n + 1 <= N PROVE call[n + 1] = is[n + 1]
      OBVIOUS
    <3>1. call[n] = is[n] /\ n + 1 \in 1..N /\ n + 1 \in 0..N /\ (n + 1) - 1 = n
      BY <1>1, <2>3
    <3>2. call[n + 1] = Body(call, n + 1)
      BY <1>7, <3>1
    <3> QED
      BY <1>4, <3>1, <3>2
  <2> HIDE DEF S
  <2>4. N \in S
    BY <1>1, <2>2, <2>3, Induct
  <2> QED
    BY <1>1, <2>4 DEF S
<1>9. is[N] = At(k)
  BY <1>1 DEF is
<1> QED
  BY <1>5, <1>8, <1>9

(* The slot that the loops over subs find is the only one.                 *)
LEMMA SlotFound ==
    ASSUME NEW n, Fit(n), NEW sub \in Sub
    PROVE  /\ Walk!SlotIn(n, sub) # 0 <=> STree!Holds(n, sub)
           /\ STree!Holds(n, sub) => Walk!SlotIn(n, sub) = STree!SlotOf(n, sub)
<1> DEFINE I == {i \in 1..Len(n.subs) : n.subs[i] = sub}
<1>1. Walk!SlotIn(n, sub) = IF I # {} THEN Walk!Min(I) ELSE 0
  BY DEF Walk!SlotIn, Walk!SelectInSeq
<1>2. I # {} <=> STree!Holds(n, sub)
  BY DEF STree!Holds
<1>3. ASSUME STree!Holds(n, sub)
      PROVE  Walk!Min(I) = STree!SlotOf(n, sub) /\ STree!SlotOf(n, sub) # 0
  <2>1. I = {STree!SlotOf(n, sub)} /\ STree!SlotOf(n, sub) \in 1..Len(n.subs)
    BY <1>3, Slot
  <2> HIDE DEF I
  <2>2. Walk!Min(I) = STree!SlotOf(n, sub)
    BY <2>1 DEF Walk!Min
  <2> QED
    BY <2>1, <2>2
<1> HIDE DEF I
<1> QED
  BY <1>1, <1>2, <1>3

(* sinsert leaves the tree that SubTree says it does.                      *)
LEMMA InsertWalk ==
    ASSUME NEW t, Sound(t), Root \in DOMAIN t, NEW raw \in RawTopic,
           NEW sub \in Sub, NEW qos
    PROVE  Walk!sinsert(t, raw, qos, sub) = STree!Inserted(t, raw, qos, sub)
<1>1. PICK k : StopsAt(raw, k)
  BY Stops
<1> DEFINE g == STree!Grown(t, Visited(raw))
           s == Upto(raw, k)
           slot == Walk!SlotIn(g[s], sub)
<1>2. Walk!Descent(t, raw, Walk!EmptySNode) = [t |-> g, k |-> k]
  <2>1. Walk!Descent(t, raw, Walk!EmptySNode)
          = [t |-> Filled(t, Trail(raw, k), Walk!EmptySNode), k |-> k]
    BY <1>1, DescentStep DEF Sound
  <2>2. Filled(t, Trail(raw, k), Walk!EmptySNode) = g
    BY <1>1, StopsVisited DEF Filled, STree!Grown, STree!NewSNode, Walk!EmptySNode
  <2> QED
    BY <2>1, <2>2
<1>3. Walk!Done(raw, k) <=> ValidTopic(raw)
  BY <1>1, StopsVisited, SameNames DEF Walk!Done
<1> DEFINE Result(u, j, r, i) ==
              CASE ~Walk!Done(raw, j) -> u
                [] Walk!Done(raw, j) /\ i # 0 -> [u EXCEPT ![r].qos[i] = qos]
                [] OTHER -> [u EXCEPT ![r] = [subs |-> Append(@.subs, sub),
                                              qos  |-> Append(@.qos, qos)]]
           last == Walk!Descent(t, raw, Walk!EmptySNode)
<1>4. Walk!sinsert(t, raw, qos, sub) = Result(g, k, s, slot)
  <2>1. Walk!sinsert(t, raw, qos, sub)
          = Result(last.t, last.k, Walk!Upto(raw, last.k),
                   Walk!SlotIn(last.t[Walk!Upto(raw, last.k)], sub))
    BY DEF Walk!sinsert
  <2>2. last.t = g /\ last.k = k
    BY <1>2
  <2>3. Walk!Upto(raw, last.k) = s
    BY <2>2, SameNames
  <2> HIDE DEF Result, last, g, s
  <2> QED
    BY <2>1, <2>2, <2>3
<1>5. CASE ~ValidTopic(raw)
  BY <1>3, <1>4, <1>5, SameWalk DEF STree!Inserted
<1>6. CASE ValidTopic(raw)
  <2>1. s = PathOf(raw) /\ s \in DOMAIN g /\ Sound(g)
    <3>1. s = PathOf(raw) /\ PathOf(raw) \in Visited(raw)
      BY <1>1, <1>6, StopsVisited, Walked DEF PathOf
    <3>2. Visited(raw) \in SUBSET Path
      BY Walked
    <3>3. Sound(g) /\ DOMAIN g = DOMAIN t \cup Visited(raw)
      BY <3>2, GrownStep
    <3> HIDE DEF g, s
    <3> QED
      BY <3>1, <3>3
  <2>2. /\ slot # 0 <=> STree!Holds(g[s], sub)
        /\ STree!Holds(g[s], sub) => slot = STree!SlotOf(g[s], sub)
    BY <2>1, SlotFound DEF Sound
  <2>3. STree!Inserted(t, raw, qos, sub) = [g EXCEPT ![s] = STree!PutSub(g[s], sub, qos)]
    BY <1>6, <2>1, SameWalk DEF STree!Inserted
  <2> HIDE DEF g, s, slot
  <2>4. CASE STree!Holds(g[s], sub)
    <3>1. Walk!sinsert(t, raw, qos, sub) = [g EXCEPT ![s].qos[slot] = qos]
      BY <1>3, <1>4, <1>6, <2>2, <2>4
    <3>2. STree!PutSub(g[s], sub, qos) = [g[s] EXCEPT !.qos[slot] = qos]
      BY <2>2, <2>4 DEF STree!PutSub
    <3> QED
      BY <2>3, <3>1, <3>2
  <2>5. CASE ~STree!Holds(g[s], sub)
    <3>1. Walk!sinsert(t, raw, qos, sub)
            = [g EXCEPT ![s] = [subs |-> Append(g[s].subs, sub),
                                qos  |-> Append(g[s].qos, qos)]]
      BY <1>3, <1>4, <1>6, <2>2, <2>5
    <3> QED
      BY <2>3, <2>5, <3>1 DEF STree!PutSub
  <2> QED
    BY <2>4, <2>5
<1> QED
  BY <1>5, <1>6

(* And rinsertOrUpdate the one that RetainTree says.                       *)
LEMMA InsertWalkR ==
    ASSUME NEW t, SoundR(t), Root \in DOMAIN t, NEW raw \in RawTopic, NEW msg
    PROVE  Walk!rinsertOrUpdate(t, raw, msg) = RTree!InsertedR(t, raw, msg)
<1>1. PICK k : StopsAt(raw, k)
  BY Stops
<1> DEFINE g == RTree!GrownR(t, Visited(raw))
<1>2. Walk!Descent(t, raw, NoMsg) = [t |-> g, k |-> k]
  <2>1. t = [p \in DOMAIN t |-> t[p]]
    BY DEF SoundR
  <2>2. Walk!Descent(t, raw, NoMsg) = [t |-> Filled(t, Trail(raw, k), NoMsg), k |-> k]
    BY <1>1, <2>1, DescentStep
  <2>3. Filled(t, Trail(raw, k), NoMsg) = g
    BY <1>1, StopsVisited DEF Filled, RTree!GrownR
  <2> QED
    BY <2>2, <2>3
<1>3. Walk!Done(raw, k) <=> ValidTopic(raw)
  BY <1>1, StopsVisited, SameNames DEF Walk!Done
<1>4. ValidTopic(raw) => Upto(raw, k) = PathOf(raw)
  BY <1>1, StopsVisited DEF PathOf
<1> HIDE DEF g
<1>5. Walk!rinsertOrUpdate(t, raw, msg)
        = IF Walk!Done(raw, k) THEN [g EXCEPT ![Upto(raw, k)] = msg] ELSE g
  <2> DEFINE last == Walk!Descent(t, raw, NoMsg)
  <2>1. Walk!rinsertOrUpdate(t, raw, msg)
          = IF Walk!Done(raw, last.k) THEN [last.t EXCEPT ![Walk!Upto(raw, last.k)] = msg]
            ELSE last.t
    BY DEF Walk!rinsertOrUpdate
  <2>2. last.t = g /\ last.k = k
    BY <1>2
  <2>3. Walk!Upto(raw, last.k) = Upto(raw, k)
    BY <2>2, SameNames
  <2> HIDE DEF last
  <2> QED
    BY <2>1, <2>2, <2>3
<1>6. RTree!InsertedR(t, raw, msg)
        = IF ValidTopic(raw) THEN [g EXCEPT ![PathOf(raw)] = msg] ELSE g
  BY SameWalkR DEF RTree!InsertedR, g
<1> QED
  BY <1>3, <1>4, <1>5, <1>6
-----------------------------------------------------------------------------
(* Those that remove: each call returns to the one on the parent, which    *)
(* deletes a node that nothing is left of.                                 *)

(* The tree when the calls below depth k have returned: of the nodes E to  *)
(* be deleted, those deeper than k are gone.                               *)
Less(b, E, k) == [q \in {r \in DOMAIN b : ~(r \in E /\ Len(r) > k)} |-> b[q]]

(* The call above node n deletes it just when it is one of them.           *)
LEMMA GoBack ==
    ASSUME NEW b, DOMAIN b \subseteq Path, Whole(DOMAIN b), NEW p \in Path,
           NEW E, NEW F, Pruned(DOMAIN b, E, F, p),
           NEW n \in DOMAIN b, IsPrefix(n, p), n # Root
    PROVE  LET u == Less(b, E, Len(n))
               gone == n \in F /\ Walk!Children(u, n) = {}
           IN  /\ n \in DOMAIN u /\ u[n] = b[n]
               /\ Less(b, E, Len(n) - 1) = IF gone THEN Walk!Cut(u, n) ELSE u
<1> DEFINE u == Less(b, E, Len(n))
           v == Less(b, E, Len(n) - 1)
           D == DOMAIN b
<1>1. /\ DOMAIN u = {r \in D : ~(r \in E /\ Len(r) > Len(n))}
      /\ DOMAIN v = {r \in D : ~(r \in E /\ Len(r) > Len(n) - 1)}
      /\ \A q \in DOMAIN u : u[q] = b[q]
      /\ u = [q \in DOMAIN u |-> b[q]] /\ v = [q \in DOMAIN v |-> b[q]]
  BY DEF Less
<1> HIDE DEF u, v
<1>2. /\ n \in Path /\ Len(n) \in Nat
      /\ \A q \in D : q \in Path /\ Len(q) \in Nat
      /\ IsPrefix(n, n)
  BY PrefixOrder DEF Path
<1>3. \A q \in D : q \in E <=> /\ q # Root /\ IsPrefix(q, p)
                              /\ \A r \in D : IsPrefix(q, r) =>
                                                 IsPrefix(r, p) /\ r \in F
  BY DEF Pruned
<1>4. ASSUME n \in E, NEW q \in D, IsPrefix(n, q), q # n
      PROVE  q \in E /\ Len(q) > Len(n)
  <2>1. Len(q) > Len(n)
    BY <1>2, <1>4, PrefixAt, SameDepth
  <2>2. q # Root
    BY <1>2, <2>1 DEF Root
  <2>3. \A r \in D : IsPrefix(q, r) => IsPrefix(n, r)
    BY <1>2, <1>4, PrefixOrder
  <2> QED
    BY <1>3, <1>4, <2>1, <2>2, <2>3
<1>5. ASSUME n \notin E, n \in F
      PROVE  Walk!Children(u, n) # {}
  <2>1. PICK r \in D : IsPrefix(n, r) /\ ~(IsPrefix(r, p) /\ r \in F)
    BY <1>3, <1>5
  <2>2. r # n
    BY <1>5, <2>1
  <2>3. r \in Path /\ Len(r) > Len(n)
    BY <1>2, <2>1, <2>2, PrefixAt, SameDepth
  <2> DEFINE c == SubSeq(r, 1, Len(n) + 1)
  <2>4. c \in Path /\ Len(c) = Len(n) + 1 /\ IsPrefix(c, r)
    <3>1. Len(n) + 1 \in 0..Len(r)
      BY <1>2, <2>1, <2>3
    <3> QED
      BY <2>3, <3>1, Ancestor
  <2> HIDE DEF c
  <2>5. IsPrefix(n, c)
    BY <1>2, <2>1, <2>3, <2>4, Aligned
  <2>6. c \in D
    BY <2>1, <2>4 DEF Whole
  <2>7. c \notin E
    BY <1>3, <2>1, <2>4, <2>6
  <2>8. c \in DOMAIN u
    BY <1>1, <2>6, <2>7
  <2> QED
    BY <2>4, <2>5, <2>8, SameNames DEF Walk!Children
<1>6. n \in E <=> n \in F /\ Walk!Children(u, n) = {}
  <2>1. ASSUME n \in E PROVE n \in F /\ Walk!Children(u, n) = {}
    <3>1. n \in F
      BY <1>2, <1>3, <2>1
    <3>2. \A q \in DOMAIN u : IsPrefix(n, q) => q = n
      BY <1>1, <1>4, <2>1
    <3>3. Walk!Children(u, n) = {}
      BY <1>2, <3>2, SameNames DEF Walk!Children
    <3> QED
      BY <3>1, <3>3
  <2> QED
    BY <1>5, <2>1
<1>7. DOMAIN v = IF n \in E THEN DOMAIN u \ {n} ELSE DOMAIN u
  <2>1. \A q \in D : q \in E /\ Len(q) = Len(n) => q = n
    BY <1>2, <1>3, Aligned, SameDepth
  <2>2. \A q \in D : Len(q) > Len(n) - 1 <=> Len(q) > Len(n) \/ Len(q) = Len(n)
    BY <1>2
  <2>3. \A q \in D : q \in DOMAIN v <=> q \in DOMAIN u /\ ~(q \in E /\ q = n)
    BY <1>1, <1>2, <2>1, <2>2
  <2>4. DOMAIN v \subseteq D /\ DOMAIN u \subseteq D
    BY <1>1
  <2> QED
    BY <2>3, <2>4
<1>8. n \in DOMAIN u
  BY <1>1, <1>2
<1>9. ASSUME n \in E PROVE v = Walk!Cut(u, n)
  <2>1. \A q \in DOMAIN u : IsPrefix(n, q) <=> q = n
    BY <1>1, <1>2, <1>4, <1>9
  <2>2. Walk!Cut(u, n) = [q \in {r \in DOMAIN u : ~IsPrefix(n, r)} |-> u[q]]
    BY SameNames DEF Walk!Cut
  <2>3. {r \in DOMAIN u : ~IsPrefix(n, r)} = DOMAIN v
    BY <1>7, <1>9, <2>1
  <2>4. DOMAIN v \subseteq DOMAIN u
    BY <1>7
  <2> QED
    BY <1>1, <2>2, <2>3, <2>4
<1>10. ASSUME n \notin E PROVE v = u
  BY <1>1, <1>7, <1>10
<1> QED
  BY <1>1, <1>6, <1>8, <1>9, <1>10 DEF u, v

(* An error, and the tree as it was.                                       *)
Failed(t) == [ok |-> FALSE, t |-> t]

(* What the call k levels down returns, when the last one returns b and    *)
(* has left the nodes E to be deleted.                                     *)
Returned(t, raw, b, E, k) ==
    IF k = Depth(raw) THEN b
    ELSE IF /\ b.ok /\ PathOf(raw) \in DOMAIN t
            /\ \A i \in (k + 1)..Depth(raw) : LevelOk(raw, i)
    THEN [ok |-> TRUE, t |-> Less(b.t, E, k)]
    ELSE Failed(t)

(* b is what the last call may return: an error and the tree as it was, or *)
(* a tree with the same nodes of which E, those below which nothing but F  *)
(* is left, have to go.                                                    *)
Bottom(t, raw, b, E, F) ==
    /\ b \in [ok : BOOLEAN, t : {b.t}]
    /\ ~b.ok => b = Failed(t)
    /\ b.ok /\ PathOf(raw) \in DOMAIN t =>
          /\ DOMAIN b.t = DOMAIN t /\ b.t = [q \in DOMAIN t |-> b.t[q]]
          /\ Pruned(DOMAIN t, E, F, PathOf(raw))

(* The call at depth k passes on what the one below it returned, and       *)
(* deletes the node of that one when nothing is left of it.                *)
LEMMA CallStep ==
    ASSUME NEW raw \in RawTopic, NEW t, DOMAIN t \subseteq Path, Whole(DOMAIN t),
           NEW b, NEW E, NEW F, Bottom(t, raw, b, E, F),
           NEW k \in 0..(Depth(raw) - 1)
    PROVE  LET n == Upto(raw, k + 1)
               res == Returned(t, raw, b, E, k + 1)
           IN  /\ LevelOk(raw, k + 1) /\ n \in DOMAIN t /\ res.ok
                    => b.ok /\ PathOf(raw) \in DOMAIN t /\ res.t[n] = b.t[n]
               /\ Returned(t, raw, b, E, k)
                    = IF ~LevelOk(raw, k + 1) \/ n \notin DOMAIN t THEN Failed(t)
                      ELSE IF res.ok /\ n \in F /\ Walk!Children(res.t, n) = {}
                      THEN [ok |-> TRUE, t |-> Walk!Cut(res.t, n)]
                      ELSE res
<1> DEFINE p == PathOf(raw)
           n == Upto(raw, k + 1)
           res == Returned(t, raw, b, E, k + 1)
           now == Returned(t, raw, b, E, k)
           good == b.ok /\ p \in DOMAIN t /\ \A i \in (k + 2)..Depth(raw) : LevelOk(raw, i)
<1>1. /\ Depth(raw) \in Nat /\ k \in Nat /\ k < Depth(raw) /\ k + 1 \in 1..Depth(raw)
      /\ Len(n) = k + 1 /\ \A i \in 1..(k + 1) : n[i] = LevelAt(raw, i)
      /\ Len(p) = Depth(raw) /\ \A i \in 1..Depth(raw) : p[i] = LevelAt(raw, i)
      /\ k + 1 = Depth(raw) => n = p
  BY Levels DEF PathOf
<1>2. ASSUME p \in DOMAIN t
      PROVE  /\ p \in Path /\ n \in Path /\ IsPrefix(n, p) /\ n \in DOMAIN t
             /\ n # Root
  <2>1. p \in Path
    BY <1>2
  <2>2. n = SubSeq(p, 1, k + 1)
    <3>1. k + 1 \in 0..Len(p) /\ SubSeq(p, 1, k + 1) \in Path
      BY <1>1, <2>1, Ancestor
    <3>2. /\ Len(SubSeq(p, 1, k + 1)) = k + 1
          /\ \A i \in 1..(k + 1) : SubSeq(p, 1, k + 1)[i] = n[i]
      BY <1>1, <2>1, <3>1, Ancestor
    <3>3. /\ SubSeq(p, 1, k + 1) = [i \in 1..(k + 1) |-> SubSeq(p, 1, k + 1)[i]]
          /\ n = [i \in 1..(k + 1) |-> n[i]]
      BY <3>1, <3>2 DEF Path, Upto
    <3> QED
      BY <3>2, <3>3
  <2>3. n \in Path /\ IsPrefix(n, p)
    <3>1. k + 1 \in 0..Len(p)
      BY <1>1
    <3>2. SubSeq(p, 1, k + 1) \in Path /\ IsPrefix(SubSeq(p, 1, k + 1), p)
      BY <2>1, <3>1, Ancestor
    <3> HIDE DEF n, p
    <3> QED
      BY <2>2, <3>2
  <2> QED
    BY <1>1, <1>2, <2>1, <2>3 DEF Whole, Root
<1>3. now = IF good /\ LevelOk(raw, k + 1) THEN [ok |-> TRUE, t |-> Less(b.t, E, k)]
            ELSE Failed(t)
  <2>1. (\A i \in (k + 1)..Depth(raw) : LevelOk(raw, i)) <=>
           LevelOk(raw, k + 1) /\ \A i \in (k + 2)..Depth(raw) : LevelOk(raw, i)
    BY <1>1
  <2>2. k # Depth(raw)
    BY <1>1
  <2> QED
    BY <2>1, <2>2 DEF Returned
<1>4. ASSUME p \in DOMAIN t
      PROVE  res = IF good THEN [ok |-> TRUE, t |-> Less(b.t, E, k + 1)] ELSE Failed(t)
  <2>1. CASE k + 1 = Depth(raw)
    <3>1. res = b /\ (good <=> b.ok)
      BY <1>1, <1>4, <2>1 DEF Returned
    <3>2. ASSUME b.ok PROVE b = [ok |-> TRUE, t |-> Less(b.t, E, k + 1)]
      <4>1. \A q \in DOMAIN t : ~(q \in E /\ Len(q) > k + 1)
        BY <1>1, <1>2, <1>4, <2>1, <3>2, PrefixAt DEF Bottom, Pruned, Path
      <4>2. Less(b.t, E, k + 1) = b.t
        <5>1. DOMAIN b.t = DOMAIN t /\ b.t = [q \in DOMAIN t |-> b.t[q]]
          BY <1>4, <3>2 DEF Bottom
        <5> QED
          BY <4>1, <5>1 DEF Less
      <4> QED
        BY <3>2, <4>2 DEF Bottom
    <3> QED
      BY <3>1, <3>2 DEF Bottom
  <2>2. CASE k + 1 # Depth(raw)
    <3>1. (k + 1) + 1 = k + 2
      BY <1>1
    <3> QED
      BY <1>4, <2>2, <3>1 DEF Returned
  <2> QED
    BY <2>1, <2>2
<1> HIDE DEF res, now, n, p
<1>5. CASE p \notin DOMAIN t
  <2>1. ~good
    BY <1>5
  <2>2. now = Failed(t)
    BY <1>3, <2>1
  <2>3. k + 1 = Depth(raw) => n \notin DOMAIN t
    BY <1>1, <1>5
  <2>4. k + 1 # Depth(raw) => res = Failed(t)
    BY <1>5 DEF res, Returned, p
  <2>5. Failed(t).ok = FALSE
    BY DEF Failed
  <2> QED
    BY <2>2, <2>3, <2>4, <2>5 DEF res, now, n, p
<1>6. CASE p \in DOMAIN t /\ ~good
  <2>1. res = Failed(t) /\ now = Failed(t)
    BY <1>3, <1>4, <1>6
  <2>2. Failed(t).ok = FALSE
    BY DEF Failed
  <2> QED
    BY <2>1, <2>2 DEF res, now, n, p
<1>7. CASE p \in DOMAIN t /\ good
  <2>1. res = [ok |-> TRUE, t |-> Less(b.t, E, k + 1)]
    BY <1>4, <1>7
  <2>2. /\ DOMAIN b.t = DOMAIN t /\ Pruned(DOMAIN b.t, E, F, p)
        /\ DOMAIN b.t \subseteq Path /\ Whole(DOMAIN b.t)
    BY <1>7 DEF Bottom, p
  <2>3. n \in DOMAIN b.t /\ IsPrefix(n, p) /\ n # Root /\ p \in Path
    BY <1>2, <1>7, <2>2
  <2> DEFINE u == Less(b.t, E, k + 1)
             gone == n \in F /\ Walk!Children(u, n) = {}
  <2>4. /\ n \in DOMAIN u /\ u[n] = b.t[n]
        /\ Less(b.t, E, k) = IF gone THEN Walk!Cut(u, n) ELSE u
    <3>1. Len(n) = k + 1 /\ Len(n) - 1 = k
      BY <1>1
    <3> QED
      BY <2>2, <2>3, <3>1, GoBack
  <2>5. res.ok = TRUE /\ res.t = u
    BY <2>1
  <2> HIDE DEF u
  <2>6. CASE ~LevelOk(raw, k + 1)
    <3>1. now = Failed(t)
      BY <1>3, <2>6
    <3> QED
      BY <2>6, <3>1 DEF res, now, n, p
  <2>7. CASE LevelOk(raw, k + 1)
    <3>1. now = [ok |-> TRUE, t |-> IF gone THEN Walk!Cut(u, n) ELSE u]
      BY <1>3, <1>7, <2>4, <2>7
    <3>2. now = IF res.ok /\ n \in F /\ Walk!Children(res.t, n) = {}
                THEN [ok |-> TRUE, t |-> Walk!Cut(res.t, n)] ELSE res
      <4>1. CASE gone
        BY <2>5, <3>1, <4>1
      <4>2. CASE ~gone
        BY <2>1, <2>5, <3>1, <4>2 DEF u
      <4> QED
        BY <4>1, <4>2
    <3>3. n \in DOMAIN t /\ b.ok /\ res.t[n] = b.t[n]
      BY <1>7, <2>2, <2>3, <2>4, <2>5
    <3> QED
      BY <1>7, <2>7, <3>2, <3>3 DEF res, now, n, p
  <2> QED
    BY <2>6, <2>7
<1> QED
  BY <1>5, <1>6, <1>7

(* What the first call returns.                                            *)
LEMMA FirstCall ==
    ASSUME NEW raw \in RawTopic, NEW t, DOMAIN t \subseteq Path, Root \in DOMAIN t,
           NEW b, NEW E, NEW F, Bottom(t, raw, b, E, F)
    PROVE  LET res == Returned(t, raw, b, E, 0)
               found == b.ok /\ ValidTopic(raw) /\ PathOf(raw) \in DOMAIN t
           IN  res = IF found THEN [ok |-> TRUE, t |-> [q \in DOMAIN t \ E |-> b.t[q]]]
                     ELSE Failed(t)
<1> DEFINE p == PathOf(raw)
           found == b.ok /\ ValidTopic(raw) /\ p \in DOMAIN t
           res == Returned(t, raw, b, E, 0)
<1>1. Depth(raw) \in Nat
  BY Levels
<1>2. ASSUME b.ok, p \in DOMAIN t
      PROVE  /\ DOMAIN b.t = DOMAIN t /\ b.t = [q \in DOMAIN t |-> b.t[q]]
             /\ \A q \in DOMAIN t : q \in E => Len(q) > 0 /\ Len(q) <= Len(p) /\ Len(q) \in Nat
             /\ Less(b.t, E, 0) = [q \in DOMAIN t \ E |-> b.t[q]]
  <2>1. /\ DOMAIN b.t = DOMAIN t /\ b.t = [q \in DOMAIN t |-> b.t[q]]
        /\ \A q \in DOMAIN t : q \in E => q # Root /\ IsPrefix(q, p)
    BY <1>2 DEF Bottom, Pruned
  <2>2. ASSUME NEW q \in DOMAIN t, q \in E
        PROVE  Len(q) > 0 /\ Len(q) <= Len(p) /\ Len(q) \in Nat
    <3>1. q \in Path /\ q # Root /\ IsPrefix(q, p)
      BY <2>1, <2>2
    <3>2. q # <<>> /\ q \in Seq(Level) /\ Len(q) <= Len(p)
      BY <3>1 DEF Root, Path, IsPrefix
    <3> QED
      BY <3>2
  <2>3. {q \in DOMAIN t : ~(q \in E /\ Len(q) > 0)} = DOMAIN t \ E
    BY <2>2
  <2> QED
    BY <2>1, <2>2, <2>3 DEF Less
<1>3. CASE Depth(raw) = 0
  <2>1. p = Root /\ Len(p) = 0 /\ ValidTopic(raw)
    BY <1>3, Levels DEF PathOf, ValidTopic
  <2>2. res = b /\ (found <=> b.ok)
    BY <1>3, <2>1 DEF Returned
  <2>3. ASSUME b.ok PROVE b = [ok |-> TRUE, t |-> [q \in DOMAIN t \ E |-> b.t[q]]]
    <3> HIDE DEF p
    <3>1. p \in DOMAIN t /\ \A q \in DOMAIN t : q \notin E
      BY <1>2, <2>1, <2>3
    <3>2. DOMAIN t \ E = DOMAIN t
      BY <3>1
    <3> QED
      BY <1>2, <2>3, <3>1, <3>2 DEF Bottom
  <2> QED
    BY <2>2, <2>3 DEF Bottom
<1>4. CASE Depth(raw) # 0
  <2>1. res = IF b.ok /\ p \in DOMAIN t /\ ValidTopic(raw)
              THEN [ok |-> TRUE, t |-> Less(b.t, E, 0)] ELSE Failed(t)
    BY <1>1, <1>4 DEF Returned, ValidTopic
  <2> HIDE DEF p, res
  <2> QED
    BY <1>2, <2>1 DEF p, res
<1> QED
  BY <1>3, <1>4

(* The calls return one after the other, the last one first.               *)
LEMMA Upward ==
    ASSUME NEW N \in Nat, NEW g, NEW h, g[N] = h[N],
           \A k \in 0..(N - 1) : g[k + 1] = h[k + 1] => g[k] = h[k]
    PROVE  g[0] = h[0]
<1> DEFINE S == {n \in Nat : n <= N => g[N - n] = h[N - n]}
<1>1. 0 \in S
  OBVIOUS
<1>2. ASSUME NEW n \in Nat, n \in S PROVE n + 1 \in S
  <2> SUFFICES ASSUME n + 1 <= N PROVE g[N - (n + 1)] = h[N - (n + 1)]
    OBVIOUS
  <2>1. N - (n + 1) \in 0..(N - 1) /\ (N - (n + 1)) + 1 = N - n /\ n <= N
    OBVIOUS
  <2> QED
    BY <1>2, <2>1
<1> HIDE DEF S
<1>3. N \in S
  BY <1>1, <1>2, Induct
<1> QED
  BY <1>3 DEF S

(* sremove's last call, on the node r.                                     *)
LastOf(t, r, sub) ==
    LET slot == Walk!SlotIn(t[r], sub) IN
    CASE sub = NilSub -> [ok |-> TRUE, t |-> [t EXCEPT ![r] = Walk!EmptySNode]]
      [] sub # NilSub /\ slot # 0 ->
           [ok |-> TRUE, t |-> [t EXCEPT ![r] = [subs |-> Walk!RemoveAt(@.subs, slot),
                                                 qos  |-> Walk!RemoveAt(@.qos, slot)]]]
      [] OTHER -> [ok |-> FALSE, t |-> t]

(* It finds the subscriber, or its error is passed on.                     *)
LEMMA LastCall ==
    ASSUME NEW t, Sound(t), NEW raw \in RawTopic, NEW sub \in Sub \cup {NilSub}
    PROVE  LET p == PathOf(raw)
               b == LastOf(t, p, sub)
           IN  /\ Bottom(t, raw, b, STree!Dead(b.t, p),
                         {q \in DOMAIN t : Len(b.t[q].subs) = 0})
               /\ p \in DOMAIN t => /\ b.ok <=> (sub # NilSub => STree!Holds(t[p], sub))
                                    /\ b.ok => b.t = [t EXCEPT ![p] = STree!DropSub(t[p], sub)]
<1> DEFINE p == PathOf(raw)
           slot == Walk!SlotIn(t[p], sub)
           cut == [t EXCEPT ![p] = [subs |-> Walk!RemoveAt(t[p].subs, slot),
                                    qos  |-> Walk!RemoveAt(t[p].qos, slot)]]
           b == LastOf(t, p, sub)
           E == STree!Dead(b.t, p)
           F == {q \in DOMAIN t : Len(b.t[q].subs) = 0}
<1>1. b = CASE sub = NilSub -> [ok |-> TRUE, t |-> [t EXCEPT ![p] = Walk!EmptySNode]]
            [] sub # NilSub /\ slot # 0 -> [ok |-> TRUE, t |-> cut]
            [] OTHER -> Failed(t)
  BY DEF LastOf, Failed
<1> HIDE DEF slot, p, b
<1>2. b \in [ok : BOOLEAN, t : {b.t}] /\ (~b.ok => b = Failed(t))
  BY <1>1 DEF Failed
<1>3. b.ok => DOMAIN b.t = DOMAIN t /\ b.t = [q \in DOMAIN t |-> b.t[q]]
  <2>1. CASE sub = NilSub
    BY <1>1, <2>1 DEF Sound
  <2>2. CASE sub # NilSub /\ slot # 0
    <3>1. DOMAIN cut = DOMAIN t /\ cut = [q \in DOMAIN t |-> cut[q]]
      BY DEF Sound
    <3> HIDE DEF cut
    <3> QED
      BY <1>1, <2>2, <3>1
  <2>3. CASE sub # NilSub /\ slot = 0
    BY <1>1, <2>3 DEF Failed
  <2> QED
    BY <2>1, <2>2, <2>3
<1>4. ASSUME p \in DOMAIN t
      PROVE  /\ b.ok <=> (sub # NilSub => STree!Holds(t[p], sub))
             /\ b.ok => b.t = [t EXCEPT ![p] = STree!DropSub(t[p], sub)]
  <2>1. Fit(t[p])
    BY <1>4 DEF Sound
  <2>2. CASE sub = NilSub
    <3>1. b = [ok |-> TRUE, t |-> [t EXCEPT ![p] = Walk!EmptySNode]]
      BY <1>1, <2>2
    <3>2. STree!DropSub(t[p], sub) = Walk!EmptySNode
      BY <2>2 DEF STree!DropSub, STree!NewSNode, Walk!EmptySNode
    <3> QED
      BY <2>2, <3>1, <3>2
  <2>3. CASE sub # NilSub
    <3>1. /\ slot # 0 <=> STree!Holds(t[p], sub)
          /\ STree!Holds(t[p], sub) => slot = STree!SlotOf(t[p], sub)
      BY <2>1, <2>3, SlotFound DEF slot
    <3>2. CASE slot # 0
      <4>1. b = [ok |-> TRUE, t |-> cut]
        BY <1>1, <2>3, <3>2
      <4>2. STree!DropSub(t[p], sub) = [subs |-> Walk!RemoveAt(t[p].subs, slot),
                                        qos  |-> Walk!RemoveAt(t[p].qos, slot)]
        BY <2>3, <3>1, <3>2 DEF STree!DropSub, STree!RemoveAt, Walk!RemoveAt
      <4> QED
        BY <2>3, <3>1, <3>2, <4>1, <4>2
    <3>3. CASE slot = 0
      <4>1. b = Failed(t)
        BY <1>1, <2>3, <3>3
      <4> QED
        BY <2>3, <3>1, <3>3, <4>1 DEF Failed
    <3> QED
      BY <3>2, <3>3
  <2> QED
    BY <2>2, <2>3
<1>5. DOMAIN b.t = DOMAIN t => Pruned(DOMAIN t, E, F, p)
  BY SameWalk DEF STree!Dead, Pruned
<1>6. Bottom(t, raw, b, E, F)
  BY <1>2, <1>3, <1>5 DEF Bottom, p
<1> QED
  BY <1>4, <1>6 DEF b, p, slot

(* sremove returns what SubTree says, pruning and errors included.         *)
LEMMA RemoveWalk ==
    ASSUME NEW t, Sound(t), Hung(t), Root \in DOMAIN t, NEW raw \in RawTopic,
           NEW sub \in Sub \cup {NilSub}
    PROVE  Walk!sremove(t, raw, sub)
             = IF STree!Found(t, raw, sub)
               THEN [ok |-> TRUE, t |-> STree!Removed(t, raw, sub)] ELSE Failed(t)
<1> DEFINE N == Walk!Depth(raw)
           p == PathOf(raw)
           s(k) == Walk!Upto(raw, k)
           Body(g, k) ==
             LET n == s(k + 1)
                 res == g[k + 1]
             IN  IF Walk!Done(raw, k) THEN LastOf(t, s(k), sub)
                 ELSE IF Walk!nextTopicLevel(raw, k).err \/ n \notin DOMAIN t
                 THEN [ok |-> FALSE, t |-> t]
                 ELSE IF /\ res.ok
                         /\ Len(res.t[n].subs) = 0 /\ Walk!Children(res.t, n) = {}
                 THEN [ok |-> TRUE, t |-> Walk!Cut(res.t, n)]
                 ELSE res
           ret == CHOOSE g : g = [k \in 0..N |-> Body(g, k)]
           b == LastOf(t, p, sub)
           E == STree!Dead(b.t, p)
           F == {q \in DOMAIN t : Len(b.t[q].subs) = 0}
           is == [k \in 0..N |-> Returned(t, raw, b, E, k)]
<1>1. Walk!sremove(t, raw, sub) = ret[0]
  BY DEF Walk!sremove, LastOf
<1>2. /\ Bottom(t, raw, b, E, F)
      /\ p \in DOMAIN t => /\ b.ok <=> (sub # NilSub => STree!Holds(t[p], sub))
                           /\ b.ok => b.t = [t EXCEPT ![p] = STree!DropSub(t[p], sub)]
  BY LastCall
<1>3. Bottom(t, raw, b, E, F)
  BY <1>2
<1>4. ASSUME b.ok, p \in DOMAIN t
       PROVE  [q \in DOMAIN t \ E |-> b.t[q]] = STree!Removed(t, raw, sub)
  <2>1. b.t = [t EXCEPT ![p] = STree!DropSub(t[p], sub)] /\ DOMAIN b.t = DOMAIN t
    BY <1>2, <1>4
  <2>2. STree!Removed(t, raw, sub) = STree!Prune(b.t, p)
    BY <2>1, SameWalk DEF STree!Removed
  <2> QED
    BY <2>1, <2>2 DEF STree!Prune
<1>5. F = {q \in DOMAIN t : Len(b.t[q].subs) = 0}
  OBVIOUS
<1> HIDE DEF E, F, b
<1>6. /\ N = Depth(raw) /\ N \in Nat /\ DOMAIN t \subseteq Path /\ Whole(DOMAIN t)
      /\ \A k : s(k) = Upto(raw, k)
      /\ s(N) = p
  BY Levels, SameNames DEF Sound, Hung, PathOf
<1> HIDE DEF N, s, p
<1>7. \A k \in 0..N : Walk!Done(raw, k) <=> k = N
  BY <1>6, SameNames DEF Walk!Done
<1>8. \A g : Body(g, N) = is[N]
  BY <1>6, <1>7 DEF Returned, b
<1>9. ASSUME NEW g, NEW k \in 0..(N - 1), g[k + 1] = is[k + 1]
      PROVE  Body(g, k) = is[k]
  <2> DEFINE n == Upto(raw, k + 1)
             res == Returned(t, raw, b, E, k + 1)
  <2>1. /\ LevelOk(raw, k + 1) /\ n \in DOMAIN t /\ res.ok
             => b.ok /\ PathOf(raw) \in DOMAIN t /\ res.t[n] = b.t[n]
        /\ Returned(t, raw, b, E, k)
             = IF ~LevelOk(raw, k + 1) \/ n \notin DOMAIN t THEN Failed(t)
               ELSE IF res.ok /\ n \in F /\ Walk!Children(res.t, n) = {}
               THEN [ok |-> TRUE, t |-> Walk!Cut(res.t, n)]
               ELSE res
    <3>1. k \in 0..(Depth(raw) - 1)
      BY <1>6
    <3>2. DOMAIN t \subseteq Path /\ Whole(DOMAIN t)
      BY <1>6
    <3> HIDE DEF is, Body, ret
    <3> QED
      BY <1>3, <3>1, <3>2, CallStep
  <2>2. k \in 0..N /\ k + 1 \in 0..N /\ k # N
    BY <1>6
  <2>3. g[k + 1] = res /\ is[k] = Returned(t, raw, b, E, k)
    BY <1>9, <2>2
  <2>4. Walk!nextTopicLevel(raw, k).err <=> ~LevelOk(raw, k + 1)
    BY <1>6, NextLevel
  <2>5. ~Walk!Done(raw, k)
    BY <1>7, <2>2
  <2> HIDE DEF n, res, is
  <2>6. Body(g, k) = IF ~LevelOk(raw, k + 1) \/ n \notin DOMAIN t THEN Failed(t)
                     ELSE IF /\ res.ok
                             /\ Len(res.t[n].subs) = 0 /\ Walk!Children(res.t, n) = {}
                     THEN [ok |-> TRUE, t |-> Walk!Cut(res.t, n)]
                     ELSE res
    BY <1>6, <2>3, <2>4, <2>5 DEF n, Failed
  <2>7. LevelOk(raw, k + 1) /\ n \in DOMAIN t /\ res.ok =>
           (Len(res.t[n].subs) = 0 <=> n \in F)
    BY <1>5, <2>1
  <2> HIDE DEF Body
  <2> QED
    BY <2>1, <2>3, <2>6, <2>7
<1>10. is = [k \in 0..N |-> Body(is, k)]
  <2>1. \A k \in 0..N : k = N \/ k \in 0..(N - 1)
    BY <1>6
  <2> HIDE DEF Body, is
  <2>2. \A k \in 0..N : is[k] = Body(is, k)
    BY <1>8, <1>9, <2>1
  <2>3. is = [k \in 0..N |-> is[k]]
    BY DEF is
  <2> QED
    BY <2>2, <2>3
<1> HIDE DEF Body, is
<1>11. ret = [k \in 0..N |-> Body(ret, k)]
  BY <1>10
<1> HIDE DEF ret
<1>12. ret[0] = is[0]
  <2>1. ret[N] = is[N]
    BY <1>6, <1>8, <1>11
  <2>2. ASSUME NEW k \in 0..(N - 1), ret[k + 1] = is[k + 1] PROVE ret[k] = is[k]
    <3>1. k \in 0..N
      BY <1>6
    <3> QED
      BY <1>9, <1>11, <2>2, <3>1
  <2> QED
    BY <1>6, <2>1, <2>2, Upward
<1>13. is[0] = Returned(t, raw, b, E, 0)
  BY <1>6 DEF is
<1> DEFINE found == b.ok /\ ValidTopic(raw) /\ p \in DOMAIN t
<1>14. is[0] = IF found THEN [ok |-> TRUE, t |-> [q \in DOMAIN t \ E |-> b.t[q]]]
               ELSE Failed(t)
  BY <1>2, <1>6, <1>13, FirstCall DEF p
<1>15. found <=> STree!Found(t, raw, sub)
  <2>1. STree!Found(t, raw, sub) <=> /\ ValidTopic(raw) /\ p \in DOMAIN t
                                     /\ sub # NilSub => STree!Holds(t[p], sub)
    BY SameWalk DEF STree!Found, p
  <2> QED
    BY <1>2, <2>1
<1> HIDE DEF found
<1> QED
  BY <1>1, <1>4, <1>12, <1>14, <1>15 DEF found

(* rremove does not look at the messages of the nodes it deletes.          *)
LEMMA RemoveWalkR ==
    ASSUME NEW t, SoundR(t), Hung(t), Root \in DOMAIN t, NEW raw \in RawTopic
    PROVE  Walk!rremove(t, raw)
             = IF RTree!FoundR(t, raw)
               THEN [ok |-> TRUE, t |-> RTree!RemovedR(t, raw)] ELSE Failed(t)
<1> DEFINE N == Walk!Depth(raw)
           p == PathOf(raw)
           s(k) == Walk!Upto(raw, k)
           Body(g, k) ==
             LET n == s(k + 1)
                 res == g[k + 1]
             IN  IF Walk!Done(raw, k)
                 THEN [ok |-> TRUE, t |-> [t EXCEPT ![s(k)] = NoMsg]]
                 ELSE IF Walk!nextTopicLevel(raw, k).err \/ n \notin DOMAIN t
                 THEN [ok |-> FALSE, t |-> t]
                 ELSE IF res.ok /\ Walk!Children(res.t, n) = {}
                 THEN [ok |-> TRUE, t |-> Walk!Cut(res.t, n)]
                 ELSE res
           ret == CHOOSE g : g = [k \in 0..N |-> Body(g, k)]
           u == [t EXCEPT ![p] = NoMsg]
           b == [ok |-> TRUE, t |-> u]
           E == RTree!DeadR(u, p)
           F == DOMAIN t
           is == [k \in 0..N |-> Returned(t, raw, b, E, k)]
<1>1. Walk!rremove(t, raw) = ret[0]
  BY DEF Walk!rremove
<1>2. Bottom(t, raw, b, E, F)
  <2>1. DOMAIN u = DOMAIN t /\ u = [q \in DOMAIN t |-> u[q]]
    BY DEF SoundR
  <2> HIDE DEF u
  <2>2. Pruned(DOMAIN t, E, F, p)
    BY <2>1, SameWalkR DEF RTree!DeadR, Pruned
  <2> QED
    BY <2>1, <2>2 DEF Bottom
<1>3. [q \in DOMAIN t \ E |-> u[q]] = RTree!RemovedR(t, raw)
  BY SameWalkR DEF RTree!RemovedR
<1>4. b.ok = TRUE /\ b.t = u
  OBVIOUS
<1> HIDE DEF E, F, u, b
<1>5. /\ N = Depth(raw) /\ N \in Nat /\ DOMAIN t \subseteq Path /\ Whole(DOMAIN t)
      /\ \A k : s(k) = Upto(raw, k)
      /\ s(N) = p
  BY Levels, SameNames DEF SoundR, Hung, PathOf
<1> HIDE DEF N, s, p
<1>6. \A k \in 0..N : Walk!Done(raw, k) <=> k = N
  BY <1>5, SameNames DEF Walk!Done
<1>7. \A g : Body(g, N) = is[N]
  BY <1>5, <1>6 DEF Returned, b, u
<1>8. ASSUME NEW g, NEW k \in 0..(N - 1), g[k + 1] = is[k + 1]
      PROVE  Body(g, k) = is[k]
  <2> DEFINE n == Upto(raw, k + 1)
             res == Returned(t, raw, b, E, k + 1)
  <2>1. Returned(t, raw, b, E, k)
             = IF ~LevelOk(raw, k + 1) \/ n \notin DOMAIN t THEN Failed(t)
               ELSE IF res.ok /\ n \in F /\ Walk!Children(res.t, n) = {}
               THEN [ok |-> TRUE, t |-> Walk!Cut(res.t, n)]
               ELSE res
    <3>1. k \in 0..(Depth(raw) - 1)
      BY <1>5
    <3> HIDE DEF is
    <3> QED
      BY <1>2, <1>5, <3>1, CallStep
  <2>2. k \in 0..N /\ k + 1 \in 0..N /\ k # N
    BY <1>5
  <2>3. g[k + 1] = res /\ is[k] = Returned(t, raw, b, E, k)
    BY <1>8, <2>2
  <2>4. Walk!nextTopicLevel(raw, k).err <=> ~LevelOk(raw, k + 1)
    BY <1>5, NextLevel
  <2>5. ~Walk!Done(raw, k)
    BY <1>6, <2>2
  <2>7. n \in DOMAIN t <=> n \in F
    BY DEF F
  <2> HIDE DEF n, res, is
  <2>6. Body(g, k) = IF ~LevelOk(raw, k + 1) \/ n \notin DOMAIN t THEN Failed(t)
                     ELSE IF res.ok /\ Walk!Children(res.t, n) = {}
                     THEN [ok |-> TRUE, t |-> Walk!Cut(res.t, n)]
                     ELSE res
    BY <1>5, <2>3, <2>4, <2>5 DEF n, Failed
  <2> HIDE DEF Body
  <2> QED
    BY <2>1, <2>3, <2>6, <2>7
<1>9. is = [k \in 0..N |-> Body(is, k)]
  <2>1. \A k \in 0..N : k = N \/ k \in 0..(N - 1)
    BY <1>5
  <2> HIDE DEF Body, is
  <2>2. \A k \in 0..N : is[k] = Body(is, k)
    BY <1>7, <1>8, <2>1
  <2>3. is = [k \in 0..N |-> is[k]]
    BY DEF is
  <2> QED
    BY <2>2, <2>3
<1> HIDE DEF Body, is
<1>10. ret = [k \in 0..N |-> Body(ret, k)]
  BY <1>9
<1> HIDE DEF ret
<1>11. ret[0] = is[0]
  <2>1. ret[N] = is[N]
    BY <1>5, <1>7, <1>10
  <2>2. ASSUME NEW k \in 0..(N - 1), ret[k + 1] = is[k + 1] PROVE ret[k] = is[k]
    <3>1. k \in 0..N
      BY <1>5
    <3> QED
      BY <1>8, <1>10, <2>2, <3>1
  <2> QED
    BY <1>5, <2>1, <2>2, Upward
<1>12. is[0] = Returned(t, raw, b, E, 0)
  BY <1>5 DEF is
<1> DEFINE found == ValidTopic(raw) /\ p \in DOMAIN t
<1>13. is[0] = IF found THEN [ok |-> TRUE, t |-> [q \in DOMAIN t \ E |-> u[q]]]
               ELSE Failed(t)
  BY <1>2, <1>4, <1>5, <1>12, FirstCall DEF p
<1>14. found <=> RTree!FoundR(t, raw)
  BY SameWalkR DEF RTree!FoundR, p
<1> HIDE DEF found
<1> QED
  BY <1>1, <1>3, <1>11, <1>13, <1>14
-----------------------------------------------------------------------------
(* More about the nodes D of a tree: the root is one of them, '#' comes    *)
(* only as the last level, as no walk goes below it, and there is a limit  *)
(* to the depth.                                                           *)
Shaped(D) == /\ Root \in D
             /\ \A p \in D : \A i \in 1..Len(p) : p[i] = MWC => i = Len(p)
             /\ \E N \in Nat : \A p \in D : Len(p) <= N

(* The nodes that an insertion creates are like that.                      *)
LEMMA VisitedShaped ==
    ASSUME NEW D, D \subseteq Path, Shaped(D), NEW raw \in RawTopic
    PROVE  Shaped(D \cup Visited(raw))
<1>1. raw \in Seq(Token) /\ Len(raw) \in Nat \ {0}
  BY RawTopicAssumption
<1>2. Depth(raw) \in 0..Len(raw)
  BY <1>1 DEF Depth
<1>3. ASSUME NEW p \in Visited(raw)
      PROVE  Len(p) <= Depth(raw) /\ \A i \in 1..Len(p) : p[i] = MWC => i = Len(p)
  <2>1. PICK k \in 0..Depth(raw) : /\ \A i \in 1..k : LevelOk(raw, i)
                                  /\ p = Upto(raw, k)
    BY DEF Visited
  <2>2. Len(p) = k /\ \A i \in 1..k : p[i] = LevelAt(raw, i)
    BY <2>1, Levels
  <2>3. ASSUME NEW i \in 1..k, p[i] = MWC PROVE i = k
    <3>1. raw[i] = MWC
      BY <2>2, <2>3 DEF LevelAt, MWC, SWC
    <3>2. i = Len(raw)
      BY <2>1, <2>3, <3>1 DEF LevelOk
    <3> QED
      BY <1>2, <3>2
  <2> QED
    BY <1>2, <2>1, <2>2, <2>3
<1>4. PICK N \in Nat : \A p \in D : Len(p) <= N
  BY DEF Shaped
<1>5. PICK M \in Nat : N <= M /\ Depth(raw) <= M
  <2>1. CASE N <= Depth(raw)
    BY <1>1, <1>2, <2>1
  <2>2. CASE ~(N <= Depth(raw))
    BY <1>1, <1>2, <2>2
  <2> QED
    BY <2>1, <2>2
<1>6. \A p \in D \cup Visited(raw) : Len(p) <= M
  <2>1. \A p \in D : Len(p) \in Nat
    BY DEF Path
  <2>2. \A p \in Visited(raw) : Len(p) \in Nat
    BY Walked DEF Path
  <2> QED
    BY <1>1, <1>2, <1>3, <1>4, <1>5, <2>1, <2>2
<1> QED
  BY <1>3, <1>6 DEF Shaped

(* The node a topic without errors leads to.                               *)
LEMMA ValidPath ==
    ASSUME NEW raw \in RawTopic, ValidTopic(raw)
    PROVE  /\ Depth(raw) \in Nat /\ PathOf(raw) \in Path /\ Len(PathOf(raw)) = Depth(raw)
           /\ \A i \in 1..Depth(raw) : PathOf(raw)[i] = LevelAt(raw, i)
           /\ \A i \in 1..Depth(raw) : PathOf(raw)[i] = MWC => i = Depth(raw)
<1>1. /\ Depth(raw) \in Nat
      /\ Len(Upto(raw, Depth(raw))) = Depth(raw)
      /\ \A i \in 1..Depth(raw) : Upto(raw, Depth(raw))[i] = LevelAt(raw, i)
      /\ Upto(raw, Depth(raw)) \in Path
  BY Levels DEF ValidTopic
<1>2. Shaped({Root} \cup Visited(raw))
  <2>1. {Root} \subseteq Path /\ Shaped({Root})
    BY DEF Shaped, Root, Path
  <2> QED
    BY <2>1, VisitedShaped
<1>3. PathOf(raw) \in Visited(raw)
  BY Walked
<1>4. \A i \in 1..Len(PathOf(raw)) : PathOf(raw)[i] = MWC => i = Len(PathOf(raw))
  BY <1>2, <1>3 DEF Shaped
<1> QED
  BY <1>1, <1>4 DEF PathOf

(* What the two kinds of step of a tree do to its nodes.                   *)
LEMMA StepShaped ==
    ASSUME TreesInv, [TreesNext]_treeVars,
           Shaped(DOMAIN sroot), Shaped(DOMAIN rroot)
    PROVE  Shaped(DOMAIN sroot') /\ Shaped(DOMAIN rroot')
<1>1. ASSUME NEW D, NEW E, Shaped(D), E \subseteq D, Root \in E
      PROVE  Shaped(E)
  BY <1>1 DEF Shaped
<1>2. DOMAIN sroot \subseteq Path /\ DOMAIN rroot \subseteq Path
  BY DEF TreesInv, Sound, SoundR
<1>3. Root \in DOMAIN sroot /\ Root \in DOMAIN rroot
  BY DEF Shaped
<1>4. ASSUME STree!Next PROVE Shaped(DOMAIN sroot')
  <2>1. ASSUME NEW raw \in RawTopic, NEW qos \in SubQos, NEW sub \in Sub,
               STree!Subscribe(raw, qos, sub)
        PROVE  Shaped(DOMAIN sroot')
    <3>1. DOMAIN sroot' = DOMAIN sroot \cup Visited(raw)
      BY <2>1, SameWalk DEF STree!Subscribe, STree!Inserted, STree!Grown
    <3> QED
      BY <1>2, <3>1, VisitedShaped
  <2>2. ASSUME NEW raw \in RawTopic, NEW sub \in Sub \cup {NilSub},
               STree!Unsubscribe(raw, sub)
        PROVE  Shaped(DOMAIN sroot')
    <3>1. DOMAIN sroot' \subseteq DOMAIN sroot /\ Root \in DOMAIN sroot'
      BY <1>3, <2>2, SameWalk
         DEF STree!Unsubscribe, STree!Removed, STree!Prune, STree!Dead
    <3> QED
      BY <1>1, <3>1
  <2> QED
    BY <1>4, <2>1, <2>2 DEF STree!Next
<1>5. ASSUME RTree!Next PROVE Shaped(DOMAIN rroot')
  <2>1. PICK raw \in RawTopic, msg \in Msg \cup {NoMsg} : RTree!Retain(raw, msg)
    BY <1>5 DEF RTree!Next
  <2>2. CASE msg = NoMsg
    <3>1. DOMAIN rroot' \subseteq DOMAIN rroot /\ Root \in DOMAIN rroot'
      BY <1>3, <2>1, <2>2, SameWalkR
         DEF RTree!Retain, RTree!Clear, RTree!RemovedR, RTree!DeadR
    <3> QED
      BY <1>1, <3>1
  <2>3. CASE msg # NoMsg
    <3>1. DOMAIN rroot' = DOMAIN rroot \cup Visited(raw)
      BY <2>1, <2>3, SameWalkR DEF RTree!Retain, RTree!Store, RTree!InsertedR, RTree!GrownR
    <3> QED
      BY <1>2, <3>1, VisitedShaped
  <2> QED
    BY <2>2, <2>3
<1> QED
  BY <1>4, <1>5 DEF TreesNext, treeVars

(* The invariant of the walks.                                             *)
WalksInv == TreesInv /\ Shaped(DOMAIN sroot) /\ Shaped(DOMAIN rroot)

(* The insertions and removals keep both trees like that.                  *)
LEMMA WalksInvariance == TreesSpec => []WalksInv
<1>1. TreesInit => WalksInv
  <2> SUFFICES ASSUME TreesInit PROVE Shaped({Root})
    BY TreesInitHolds, SameWalk, SameWalkR DEF WalksInv, TreesInit, STree!Init, RTree!Init
  <2> QED
    BY DEF Shaped, Root
<1>2. WalksInv /\ [TreesNext]_treeVars => WalksInv'
  BY TreesStepHolds, StepShaped DEF WalksInv
<1> QED
  BY <1>1, <1>2, PTL DEF TreesSpec

(* The recursive methods of the two trees, taken call by call: what sinsert,*)
(* sremove, rinsertOrUpdate and rremove leave behind and return, on the     *)
(* trees that can arise, is what the closed forms of SubTree and RetainTree *)
(* say, so all that is proved about those is true of the Go recursion.      *)
THEOREM GoWalksAgree == TreesSpec => []WalksAgree
<1>1. WalksInv => WalksAgree
  <2> SUFFICES ASSUME WalksInv, NEW raw \in RawTopic
               PROVE  /\ \A sub \in Sub, qos \in SubQos :
                            Walk!sinsert(sroot, raw, qos, sub) = STree!Inserted(sroot, raw, qos, sub)
                      /\ \A sub \in Sub \cup {NilSub} :
                           LET res == Walk!sremove(sroot, raw, sub) IN
                             /\ res.ok = STree!Found(sroot, raw, sub)
                             /\ res.t = IF res.ok THEN STree!Removed(sroot, raw, sub)
                                        ELSE sroot
                      /\ \A msg \in Msg :
                            Walk!rinsertOrUpdate(rroot, raw, msg) = RTree!InsertedR(rroot, raw, msg)
                      /\ LET res == Walk!rremove(rroot, raw) IN
                           /\ res.ok = RTree!FoundR(rroot, raw)
                           /\ res.t = IF res.ok THEN RTree!RemovedR(rroot, raw) ELSE rroot
    BY DEF WalksAgree
  <2>1. /\ Sound(sroot) /\ Hung(sroot) /\ Root \in DOMAIN sroot
        /\ SoundR(rroot) /\ Hung(rroot) /\ Root \in DOMAIN rroot
    BY DEF WalksInv, TreesInv, Shaped
  <2>2. ASSUME NEW sub \in Sub, NEW qos
        PROVE  Walk!sinsert(sroot, raw, qos, sub) = STree!Inserted(sroot, raw, qos, sub)
    BY <2>1, InsertWalk
  <2>3. ASSUME NEW sub \in Sub \cup {NilSub}
        PROVE  LET res == Walk!sremove(sroot, raw, sub) IN
                 /\ res.ok = STree!Found(sroot, raw, sub)
                 /\ res.t = IF res.ok THEN STree!Removed(sroot, raw, sub) ELSE sroot
    <3>1. Walk!sremove(sroot, raw, sub)
            = IF STree!Found(sroot, raw, sub)
              THEN [ok |-> TRUE, t |-> STree!Removed(sroot, raw, sub)] ELSE Failed(sroot)
      BY <2>1, RemoveWalk
    <3>2. STree!Found(sroot, raw, sub) \in BOOLEAN
      BY DEF STree!Found
    <3> DEFINE res == Walk!sremove(sroot, raw, sub)
               found == STree!Found(sroot, raw, sub)
    <3> HIDE DEF res, found
    <3>3. /\ found => res = [ok |-> TRUE, t |-> STree!Removed(sroot, raw, sub)]
          /\ ~found => res = [ok |-> FALSE, t |-> sroot]
      BY <3>1 DEF res, found, Failed
    <3>4. /\ res.ok = found
          /\ res.t = IF res.ok THEN STree!Removed(sroot, raw, sub) ELSE sroot
      <4>1. found = TRUE \/ found = FALSE
        BY <3>2 DEF found
      <4>2. CASE found = TRUE
        <5>1. res.ok = TRUE /\ res.t = STree!Removed(sroot, raw, sub)
          BY <3>3, <4>2
        <5> QED
          BY <4>2, <5>1
      <4>3. CASE found = FALSE
        <5>1. res.ok = FALSE /\ res.t = sroot
          BY <3>3, <4>3
        <5> QED
          BY <4>3, <5>1
      <4> QED
        BY <4>1, <4>2, <4>3
    <3> QED
      BY <3>4 DEF res, found
  <2>4. ASSUME NEW msg
        PROVE  Walk!rinsertOrUpdate(rroot, raw, msg) = RTree!InsertedR(rroot, raw, msg)
    BY <2>1, InsertWalkR
  <2>5. LET res == Walk!rremove(rroot, raw) IN
          /\ res.ok = RTree!FoundR(rroot, raw)
          /\ res.t = IF res.ok THEN RTree!RemovedR(rroot, raw) ELSE rroot
    <3>1. Walk!rremove(rroot, raw)
            = IF RTree!FoundR(rroot, raw)
              THEN [ok |-> TRUE, t |-> RTree!RemovedR(rroot, raw)] ELSE Failed(rroot)
      BY <2>1, RemoveWalkR
    <3>2. RTree!FoundR(rroot, raw) \in BOOLEAN
      BY DEF RTree!FoundR
    <3> DEFINE res == Walk!rremove(rroot, raw)
               found == RTree!FoundR(rroot, raw)
    <3> HIDE DEF res, found
    <3>3. /\ found => res = [ok |-> TRUE, t |-> RTree!RemovedR(rroot, raw)]
          /\ ~found => res = [ok |-> FALSE, t |-> rroot]
      BY <3>1 DEF res, found, Failed
    <3>4. /\ res.ok = found
          /\ res.t = IF res.ok THEN RTree!RemovedR(rroot, raw) ELSE rroot
      <4>1. found = TRUE \/ found = FALSE
        BY <3>2 DEF found
      <4>2. CASE found = TRUE
        <5>1. res.ok = TRUE /\ res.t = RTree!RemovedR(rroot, raw)
          BY <3>3, <4>2
        <5> QED
          BY <4>2, <5>1
      <4>3. CASE found = FALSE
        <5>1. res.ok = FALSE /\ res.t = rroot
          BY <3>3, <4>3
        <5> QED
          BY <4>3, <5>1
      <4> QED
        BY <4>1, <4>2, <4>3
    <3> QED
      BY <3>4 DEF res, found
  <2> QED
    BY <2>2, <2>3, <2>4, <2>5
<1> QED
  BY WalksInvariance, <1>1, PTL
-----------------------------------------------------------------------------
(* smatch: which filters a walk along a topic hits.                        *)

(* The levels i to j of a filter admit those of a topic.                   *)
Agrees(f, p, i, j) == \A l \in i..j : f[l] = SWC \/ f[l] = p[l]

(* Whether the call of smatch on node s, for the topic p, or one of those  *)
(* it makes, finds the subscribers of node n, and which of them does.      *)
Hit(p, s, n) ==
    /\ IsPrefix(s, n)
    /\ IF n # s /\ Last(n) = MWC
       THEN Len(n) - 1 <= Len(p) /\ Agrees(n, p, Len(s) + 1, Len(n) - 1)
       ELSE Len(n) = Len(p) /\ Agrees(n, p, Len(s) + 1, Len(n))

(* The call on the node itself, or the one on its parent for a "#".        *)
By(s, n) == IF n # s /\ Last(n) = MWC THEN SubSeq(n, 1, Len(n) - 1) ELSE n

(* The children of a node.                                                 *)
Kids(D, s) == {n \in D : Len(n) = Len(s) + 1 /\ IsPrefix(s, n)}

(* The part of a path that leads to a node above it.                       *)
LEMMA PrefixIs ==
    ASSUME NEW s \in Path, NEW n \in Path, IsPrefix(s, n)
    PROVE  SubSeq(n, 1, Len(s)) = s
BY DEF IsPrefix, Path

(* A node below another is deeper.                                         *)
LEMMA LastLevel ==
    ASSUME NEW s \in Path, NEW n \in Path, IsPrefix(s, n), n # s
    PROVE  /\ Len(n) \in Nat /\ Len(s) \in Nat /\ Len(n) >= Len(s) + 1
           /\ Last(n) = n[Len(n)]
<1>1. Len(n) \in Nat /\ Len(s) \in Nat
  BY DEF Path
<1>2. Len(s) <= Len(n)
  BY PrefixAt
<1>3. Len(s) # Len(n)
  BY SameDepth
<1> QED
  BY <1>1, <1>2, <1>3 DEF Last

(* The level that comes after the node s on the way to n.                  *)
LEMMA OneDown ==
    ASSUME NEW D, D \subseteq Path, Whole(D),
           NEW s \in Path, NEW n \in D, IsPrefix(s, n), n # s
    PROVE  LET c == SubSeq(n, 1, Len(s) + 1)
           IN  /\ c \in Kids(D, s) /\ c \in Path /\ IsPrefix(c, n) /\ c # s
               /\ Last(c) = n[Len(s) + 1]
               /\ Len(n) = Len(s) + 1 => n = c
<1> DEFINE c == SubSeq(n, 1, Len(s) + 1)
<1>1. n \in Path /\ Len(n) \in Nat /\ Len(s) \in Nat /\ Len(n) >= Len(s) + 1
  BY LastLevel
<1>2. Len(s) + 1 \in 0..Len(n)
  BY <1>1
<1>3. /\ c \in Path /\ Len(c) = Len(s) + 1 /\ IsPrefix(c, n)
      /\ \A i \in 1..(Len(s) + 1) : c[i] = n[i]
  BY <1>1, <1>2, Ancestor
<1> HIDE DEF c
<1>4. c \in D
  BY <1>3 DEF Whole
<1>5. IsPrefix(s, c)
  BY <1>1, <1>3, Aligned
<1>6. c # s
  BY <1>1, <1>3
<1>7. Last(c) = n[Len(s) + 1]
  <2>1. Last(c) = c[Len(c)]
    BY <1>3, <1>5, <1>6, LastLevel
  <2> QED
    BY <1>1, <1>3, <2>1
<1>8. Len(n) = Len(s) + 1 => n = c
  BY <1>1, <1>3, SameDepth
<1> QED
  BY <1>3, <1>4, <1>5, <1>6, <1>7, <1>8 DEF c, Kids

(* The last call of a branch finds the node itself and its child '#'.      *)
LEMMA HitLast ==
    ASSUME NEW D, D \subseteq Path, NEW p \in Path, NEW s \in D, Len(s) = Len(p)
    PROVE  \A n \in D :
             /\ Hit(p, s, n) <=> n = s \/ (n \in Kids(D, s) /\ Last(n) = MWC)
             /\ Hit(p, s, n) => By(s, n) = s
<1> SUFFICES ASSUME NEW n \in D
             PROVE  /\ Hit(p, s, n) <=> n = s \/ (n \in Kids(D, s) /\ Last(n) = MWC)
                    /\ Hit(p, s, n) => By(s, n) = s
  OBVIOUS
<1>1. s \in Path /\ n \in Path /\ Len(s) \in Nat /\ Len(n) \in Nat
  BY DEF Path
<1>2. CASE n = s
  <2>1. IsPrefix(s, s)
    BY <1>1, PrefixOrder
  <2>2. Agrees(n, p, Len(s) + 1, Len(n))
    BY <1>1, <1>2 DEF Agrees
  <2> QED
    BY <1>1, <1>2, <2>1, <2>2 DEF Hit, By
<1>3. CASE n # s /\ IsPrefix(s, n)
  <2>1. Len(n) >= Len(s) + 1
    BY <1>1, <1>3, LastLevel
  <2>2. Len(n) # Len(p)
    BY <1>1, <2>1
  <2>3. Len(n) - 1 <= Len(p) <=> Len(n) = Len(s) + 1
    BY <1>1, <2>1
  <2>4. Len(n) = Len(s) + 1 => Agrees(n, p, Len(s) + 1, Len(n) - 1)
    BY <1>1 DEF Agrees
  <2>5. Hit(p, s, n) <=> Last(n) = MWC /\ Len(n) = Len(s) + 1
    BY <1>3, <2>2, <2>3, <2>4 DEF Hit
  <2>6. Len(n) = Len(s) + 1 => SubSeq(n, 1, Len(n) - 1) = s
    <3>1. Len(n) = Len(s) + 1 => Len(n) - 1 = Len(s)
      BY <1>1
    <3> QED
      BY <1>1, <1>3, <3>1, PrefixIs
  <2> QED
    BY <1>3, <2>5, <2>6 DEF By, Kids
<1>4. CASE ~IsPrefix(s, n)
  <2>1. n # s
    BY <1>1, <1>4, PrefixOrder
  <2> QED
    BY <1>4, <2>1 DEF Hit, Kids
<1> QED
  BY <1>2, <1>3, <1>4

(* Those above it find a child '#', or leave it to a call on another child.*)
LEMMA HitStep ==
    ASSUME NEW D, D \subseteq Path, Whole(D), Shaped(D),
           NEW p \in Path, NEW s \in D, Len(s) < Len(p)
    PROVE  LET mwcn == {n \in Kids(D, s) : Last(n) = MWC}
               visited == {n \in Kids(D, s) : Last(n) # MWC /\ Last(n) \in {SWC, p[Len(s) + 1]}}
           IN  \A n \in D :
                 /\ Hit(p, s, n) <=> n \in mwcn \/ \E c \in visited : Hit(p, c, n)
                 /\ n \in mwcn => By(s, n) = s
                 /\ \A c \in visited : Hit(p, c, n) => By(s, n) = By(c, n)
<1> DEFINE mwcn == {n \in Kids(D, s) : Last(n) = MWC}
           visited == {n \in Kids(D, s) : Last(n) # MWC /\ Last(n) \in {SWC, p[Len(s) + 1]}}
<1> SUFFICES ASSUME NEW n \in D
             PROVE  /\ Hit(p, s, n) <=> n \in mwcn \/ \E c \in visited : Hit(p, c, n)
                    /\ n \in mwcn => By(s, n) = s
                    /\ \A c \in visited : Hit(p, c, n) => By(s, n) = By(c, n)
  OBVIOUS
<1>1. s \in Path /\ n \in Path /\ Len(s) \in Nat /\ Len(n) \in Nat /\ Len(p) \in Nat
  BY DEF Path
<1>2. ASSUME n \in mwcn PROVE Hit(p, s, n) /\ By(s, n) = s
  <2>1. IsPrefix(s, n) /\ Len(n) = Len(s) + 1 /\ Last(n) = MWC
    BY <1>2 DEF Kids
  <2>2. n # s
    BY <1>1, <2>1
  <2>3. Len(n) - 1 <= Len(p) /\ Agrees(n, p, Len(s) + 1, Len(n) - 1)
    BY <1>1, <2>1 DEF Agrees
  <2>4. SubSeq(n, 1, Len(n) - 1) = s
    <3>1. Len(n) - 1 = Len(s)
      BY <1>1, <2>1
    <3> QED
      BY <1>1, <2>1, <3>1, PrefixIs
  <2> QED
    BY <2>1, <2>2, <2>3, <2>4 DEF Hit, By
<1>3. ASSUME NEW c \in visited, Hit(p, c, n)
      PROVE  Hit(p, s, n) /\ By(s, n) = By(c, n)
  <2>1. /\ c \in D /\ c \in Path /\ Len(c) = Len(s) + 1 /\ IsPrefix(s, c)
        /\ Last(c) # MWC /\ (Last(c) = SWC \/ Last(c) = p[Len(s) + 1])
        /\ IsPrefix(c, n)
    BY <1>3 DEF Kids, Hit
  <2>2. c # s
    BY <1>1, <2>1
  <2>3. IsPrefix(s, n)
    BY <1>1, <2>1, PrefixOrder
  <2>4. Len(n) >= Len(c) /\ n # s
    BY <1>1, <2>1, PrefixAt
  <2>5. n[Len(s) + 1] = Last(c)
    <3>1. Last(c) = c[Len(c)]
      BY <1>1, <2>1, <2>2, LastLevel
    <3>2. c[Len(s) + 1] = n[Len(s) + 1]
      BY <1>1, <2>1, PrefixAt
    <3> QED
      BY <2>1, <3>1, <3>2
  <2>6. ASSUME NEW m, Agrees(n, p, Len(c) + 1, m)
        PROVE  Agrees(n, p, Len(s) + 1, m)
    <3>1. \A l \in (Len(s) + 1)..m : l = Len(s) + 1 \/ l \in (Len(c) + 1)..m
      BY <1>1, <2>1
    <3> QED
      BY <2>1, <2>5, <2>6, <3>1 DEF Agrees
  <2>7. CASE n = c
    BY <1>3, <2>1, <2>3, <2>4, <2>6, <2>7 DEF Hit, By
  <2>8. CASE n # c
    BY <1>3, <2>3, <2>4, <2>6, <2>8 DEF Hit, By
  <2> QED
    BY <2>7, <2>8
<1>4. ASSUME Hit(p, s, n), n \notin mwcn
      PROVE  \E c \in visited : Hit(p, c, n)
  <2>1. IsPrefix(s, n)
    BY <1>4 DEF Hit
  <2>2. n # s
    BY <1>1, <1>4 DEF Hit
  <2> DEFINE c == SubSeq(n, 1, Len(s) + 1)
  <2>3. /\ c \in Kids(D, s) /\ c \in Path /\ IsPrefix(c, n) /\ c # s
        /\ Last(c) = n[Len(s) + 1]
        /\ Len(n) = Len(s) + 1 => n = c
    BY <1>1, <2>1, <2>2, OneDown
  <2> HIDE DEF c
  <2>4. Len(c) = Len(s) + 1
    BY <2>3 DEF Kids
  <2>5. Len(n) >= Len(s) + 1 /\ Last(n) = n[Len(n)]
    BY <1>1, <2>1, <2>2, LastLevel
  <2>6. Last(c) # MWC
    <3>1. CASE Len(n) = Len(s) + 1
      BY <1>4, <2>3, <3>1
    <3>2. CASE Len(n) # Len(s) + 1
      BY <1>1, <2>3, <2>5, <3>2 DEF Shaped
    <3> QED
      BY <3>1, <3>2
  <2>7. ASSUME NEW m \in Int, m >= Len(s) + 1, Agrees(n, p, Len(s) + 1, m)
        PROVE  /\ Last(c) = SWC \/ Last(c) = p[Len(s) + 1]
               /\ Agrees(n, p, Len(c) + 1, m)
    BY <1>1, <2>3, <2>4, <2>7 DEF Agrees
  <2>8. CASE Last(n) = MWC
    <3>1. n # c /\ Len(n) - 1 >= Len(s) + 1
      BY <1>1, <2>3, <2>5, <2>6, <2>8
    <3>2. Len(n) - 1 <= Len(p) /\ Agrees(n, p, Len(s) + 1, Len(n) - 1)
      BY <1>4, <2>2, <2>8 DEF Hit
    <3>3. /\ Last(c) = SWC \/ Last(c) = p[Len(s) + 1]
          /\ Agrees(n, p, Len(c) + 1, Len(n) - 1)
      BY <1>1, <2>7, <3>1, <3>2
    <3> QED
      BY <2>3, <2>6, <2>8, <3>1, <3>2, <3>3 DEF Hit
  <2>9. CASE Last(n) # MWC
    <3>1. Len(n) = Len(p) /\ Agrees(n, p, Len(s) + 1, Len(n))
      BY <1>4, <2>2, <2>9 DEF Hit
    <3>2. /\ Last(c) = SWC \/ Last(c) = p[Len(s) + 1]
          /\ Agrees(n, p, Len(c) + 1, Len(n))
      BY <1>1, <2>5, <2>7, <3>1
    <3> QED
      BY <2>3, <2>6, <2>9, <3>1, <3>2 DEF Hit
  <2> QED
    BY <2>8, <2>9
<1> QED
  BY <1>2, <1>3, <1>4

(* The walks take the same nodes for children, and the same wildcards.     *)
LEMMA SameNodes ==
    /\ \A t, s : Walk!Children(t, s) = Kids(DOMAIN t, s)
    /\ \A p : Walk!Last(p) = Last(p)
    /\ Walk!SWC = SWC /\ Walk!MWC = MWC
BY SameNames DEF Walk!Children, Kids, Walk!Last, Last, SWC, MWC, Walk!SWC, Walk!MWC

(* A limit to the depth of a tree.                                         *)
NoDeeper(D, N) == \A p \in D : Len(p) <= N

(* A call returns what h says when those on the children do.               *)
Inherits(D, g, h) == \A s \in D : (\A c \in Kids(D, s) : g[c] = h[c]) => g[s] = h[s]

(* Then all of them do, from the leaves up.                                *)
LEMMA Branches ==
    ASSUME NEW D, D \subseteq Path, NEW N \in Nat, NoDeeper(D, N),
           NEW g, NEW h, Inherits(D, g, h)
    PROVE  \A s \in D : g[s] = h[s]
<1> USE DEF NoDeeper, Inherits
<1> DEFINE S == {n \in Nat : \A s \in D : N - Len(s) < n => g[s] = h[s]}
<1>1. \A s \in D : Len(s) \in Nat
  BY DEF Path
<1>2. 0 \in S
  <2>1. \A s \in D : ~(N - Len(s) < 0)
    BY <1>1
  <2> QED
    BY <2>1
<1>3. ASSUME NEW n \in Nat, n \in S PROVE n + 1 \in S
  <2> SUFFICES ASSUME NEW s \in D, N - Len(s) < n + 1 PROVE g[s] = h[s]
    OBVIOUS
  <2>1. ASSUME NEW c \in Kids(D, s) PROVE g[c] = h[c]
    <3>1. c \in D /\ Len(c) = Len(s) + 1
      BY DEF Kids
    <3>2. N - Len(c) < n
      BY <1>1, <3>1
    <3> QED
      BY <1>3, <3>1, <3>2
  <2> QED
    BY <2>1
<1> HIDE DEF S
<1>4. N + 1 \in S
  BY <1>2, <1>3, Induct
<1>5. \A s \in D : N - Len(s) < N + 1
  BY <1>1
<1> QED
  BY <1>4, <1>5 DEF S

(* What the call of smatch on s, and those it makes, find in the tree t.   *)
Finds(t, p, s, qos) ==
    UNION {Walk!matchQos(t, By(s, n), n, qos) : n \in {m \in DOMAIN t : Hit(p, s, m)}}

(* What one call of smatch makes of the finds of the others.               *)
LEMMA FindsLast ==
    ASSUME NEW t, DOMAIN t \subseteq Path, NEW p \in Path, NEW qos,
           NEW s \in DOMAIN t, Len(s) = Len(p)
    PROVE  LET mwcn == {n \in Kids(DOMAIN t, s) : Last(n) = MWC}
           IN  Finds(t, p, s, qos)
                 = UNION {Walk!matchQos(t, s, n, qos) : n \in {s} \cup mwcn}
<1> DEFINE mwcn == {n \in Kids(DOMAIN t, s) : Last(n) = MWC}
           hits == {m \in DOMAIN t : Hit(p, s, m)}
<1>1. \A n \in DOMAIN t : /\ Hit(p, s, n) <=> n = s \/ (n \in Kids(DOMAIN t, s) /\ Last(n) = MWC)
                          /\ Hit(p, s, n) => By(s, n) = s
  BY HitLast
<1>2. hits = {s} \cup mwcn
  BY <1>1 DEF Kids
<1>3. \A n \in hits : By(s, n) = s
  BY <1>1
<1> HIDE DEF hits, mwcn
<1>4. {Walk!matchQos(t, By(s, n), n, qos) : n \in hits}
        = {Walk!matchQos(t, s, n, qos) : n \in hits}
  BY <1>3
<1> QED
  BY <1>2, <1>4 DEF Finds, hits, mwcn

(* And of those it makes.                                                  *)
LEMMA FindsStep ==
    ASSUME NEW t, DOMAIN t \subseteq Path, Hung(t), Shaped(DOMAIN t),
           NEW p \in Path, NEW qos, NEW s \in DOMAIN t, Len(s) < Len(p)
    PROVE  LET mwcn == {n \in Kids(DOMAIN t, s) : Last(n) = MWC}
               visited == {n \in Kids(DOMAIN t, s) :
                             Last(n) # MWC /\ Last(n) \in {SWC, p[Len(s) + 1]}}
           IN  Finds(t, p, s, qos)
                 = UNION ({Walk!matchQos(t, s, n, qos) : n \in mwcn}
                            \cup {Finds(t, p, c, qos) : c \in visited})
<1> DEFINE mwcn == {n \in Kids(DOMAIN t, s) : Last(n) = MWC}
           visited == {n \in Kids(DOMAIN t, s) :
                         Last(n) # MWC /\ Last(n) \in {SWC, p[Len(s) + 1]}}
           Q(c, n) == Walk!matchQos(t, c, n, qos)
<1>1. \A n \in DOMAIN t :
         /\ Hit(p, s, n) <=> n \in mwcn \/ \E c \in visited : Hit(p, c, n)
         /\ n \in mwcn => By(s, n) = s
         /\ \A c \in visited : Hit(p, c, n) => By(s, n) = By(c, n)
  BY HitStep DEF Hung
<1>2. mwcn \subseteq DOMAIN t
  BY DEF Kids
<1>3. \A c : Finds(t, p, c, qos) = UNION {Q(By(c, n), n) : n \in {m \in DOMAIN t : Hit(p, c, m)}}
  BY DEF Finds
<1> HIDE DEF mwcn, visited, Q
<1>4. ASSUME NEW x
      PROVE  x \in Finds(t, p, s, qos) <=>
               \/ x \in UNION {Q(s, n) : n \in mwcn}
               \/ x \in UNION {Finds(t, p, c, qos) : c \in visited}
  <2>1. x \in Finds(t, p, s, qos) <=> \E n \in DOMAIN t : Hit(p, s, n) /\ x \in Q(By(s, n), n)
    BY <1>3
  <2>2. x \in UNION {Q(s, n) : n \in mwcn} <=> \E n \in DOMAIN t : n \in mwcn /\ x \in Q(By(s, n), n)
    <3>1. \A n \in mwcn : n \in DOMAIN t /\ By(s, n) = s
      BY <1>1, <1>2
    <3>2. x \in UNION {Q(s, n) : n \in mwcn} <=> \E n \in mwcn : x \in Q(s, n)
      OBVIOUS
    <3> QED
      BY <3>1, <3>2
  <2>3. x \in UNION {Finds(t, p, c, qos) : c \in visited}
          <=> \E n \in DOMAIN t : \E c \in visited : Hit(p, c, n) /\ x \in Q(By(s, n), n)
    <3>1. x \in UNION {Finds(t, p, c, qos) : c \in visited}
            <=> \E c \in visited : x \in Finds(t, p, c, qos)
      OBVIOUS
    <3>2. ASSUME NEW c \in visited
          PROVE  x \in Finds(t, p, c, qos)
                   <=> \E n \in DOMAIN t : Hit(p, c, n) /\ x \in Q(By(s, n), n)
      <4>1. x \in Finds(t, p, c, qos)
              <=> \E n \in DOMAIN t : Hit(p, c, n) /\ x \in Q(By(c, n), n)
        BY <1>3
      <4>2. \A n \in DOMAIN t : Hit(p, c, n) => By(s, n) = By(c, n)
        BY <1>1
      <4> QED
        BY <4>1, <4>2
    <3> QED
      BY <3>1, <3>2
  <2>4. \A n \in DOMAIN t : Hit(p, s, n) <=> n \in mwcn \/ \E c \in visited : Hit(p, c, n)
    BY <1>1
  <2> QED
    BY <2>1, <2>2, <2>3, <2>4
<1> QED
  BY <1>4 DEF mwcn, visited, Q

(* smatch finds, along the topic p, what can be hit from the root.         *)
LEMMA MatchWalk ==
    ASSUME NEW t, DOMAIN t \subseteq Path, Hung(t), Shaped(DOMAIN t),
           NEW raw \in RawTopic, ValidTopic(raw), NEW qos
    PROVE  Walk!smatch(t, raw, qos)
             = [err |-> FALSE, subs |-> Finds(t, PathOf(raw), Root, qos)]
<1> DEFINE N == Depth(raw)
           p == PathOf(raw)
           D == {s \in DOMAIN t : Len(s) <= Walk!Depth(raw)}
           Body(g, s) ==
             LET k == Len(s)
                 next == Walk!nextTopicLevel(raw, k)
                 mwcn == {n \in Walk!Children(t, s) : Walk!Last(n) = Walk!MWC}
                 visited == {n \in Walk!Children(t, s) :
                               Walk!Last(n) # Walk!MWC /\ Walk!Last(n) \in {Walk!SWC, next.ntl}}
             IN  IF Walk!Done(raw, k)
                 THEN [err |-> FALSE,
                       subs |-> UNION {Walk!matchQos(t, s, n, qos) : n \in {s} \cup mwcn}]
                 ELSE IF next.err THEN [err |-> TRUE, subs |-> {}]
                 ELSE [err |-> \E n \in visited : g[n].err,
                       subs |-> UNION ({Walk!matchQos(t, s, n, qos) : n \in mwcn}
                                         \cup {g[n].subs : n \in visited})]
           ret == CHOOSE g : g = [s \in D |-> Body(g, s)]
           is == [s \in D |-> [err |-> FALSE, subs |-> Finds(t, p, s, qos)]]
<1>1. Walk!smatch(t, raw, qos) = ret[Root]
  BY SameNames DEF Walk!smatch
<1>2. /\ N \in Nat /\ p \in Path /\ Len(p) = N
      /\ \A i \in 1..N : p[i] = LevelAt(raw, i)
      /\ D = {s \in DOMAIN t : Len(s) <= N}
  BY ValidPath, SameNames
<1>3. /\ D \subseteq Path /\ \A s \in D : Len(s) \in Nat /\ Len(s) <= N
      /\ Root \in D
  BY <1>2 DEF Shaped, Path, Root
<1>4. \A k \in 0..N : Walk!Done(raw, k) <=> k = N
  BY SameNames, <1>2 DEF Walk!Done
<1>5. \A k \in 0..(N - 1) : /\ ~Walk!nextTopicLevel(raw, k).err
                           /\ Walk!nextTopicLevel(raw, k).ntl = p[k + 1]
  <2> TAKE k \in 0..(N - 1)
  <2>1. k + 1 \in 1..N
    BY <1>2
  <2>2. LevelOk(raw, k + 1)
    BY <2>1 DEF ValidTopic
  <2> QED
    BY <1>2, <2>1, <2>2, NextLevel
<1> HIDE DEF p, N
<1>6. ASSUME NEW g, NEW s \in D, \A c \in Kids(D, s) : g[c] = is[c]
      PROVE  Body(g, s) = is[s]
  <2>1. is[s] = [err |-> FALSE, subs |-> Finds(t, p, s, qos)]
    OBVIOUS
  <2>2. s \in DOMAIN t /\ Len(s) \in 0..N
    BY <1>2, <1>3
  <2> DEFINE mwcn == {n \in Kids(DOMAIN t, s) : Last(n) = MWC}
             visited(l) == {n \in Kids(DOMAIN t, s) : Last(n) # MWC /\ Last(n) \in {SWC, l}}
             next == Walk!nextTopicLevel(raw, Len(s))
  <2>3. Body(g, s)
          = IF Walk!Done(raw, Len(s))
            THEN [err |-> FALSE,
                  subs |-> UNION {Walk!matchQos(t, s, n, qos) : n \in {s} \cup mwcn}]
            ELSE IF next.err THEN [err |-> TRUE, subs |-> {}]
            ELSE [err |-> \E n \in visited(next.ntl) : g[n].err,
                  subs |-> UNION ({Walk!matchQos(t, s, n, qos) : n \in mwcn}
                                    \cup {g[n].subs : n \in visited(next.ntl)})]
    BY SameNodes
  <2>4. CASE Len(s) = N
    <3>1. Walk!Done(raw, Len(s))
      BY <1>2, <1>4, <2>4
    <3>2. Finds(t, p, s, qos) = UNION {Walk!matchQos(t, s, n, qos) : n \in {s} \cup mwcn}
      BY <1>2, <2>2, <2>4, FindsLast
    <3> HIDE DEF Body, is
    <3> QED
      BY <2>1, <2>3, <3>1, <3>2
  <2>5. CASE Len(s) # N
    <3>1. Len(s) \in 0..(N - 1) /\ Len(s) < N
      BY <1>2, <2>2, <2>5
    <3>2. ~Walk!Done(raw, Len(s)) /\ ~next.err /\ next.ntl = p[Len(s) + 1]
      BY <1>2, <1>4, <1>5, <2>2, <2>5, <3>1
    <3> DEFINE V == visited(p[Len(s) + 1])
    <3> HIDE DEF Body, is, next
    <3>3. Body(g, s) = [err |-> \E n \in V : g[n].err,
                        subs |-> UNION ({Walk!matchQos(t, s, n, qos) : n \in mwcn}
                                          \cup {g[n].subs : n \in V})]
      BY <2>3, <3>2
    <3>4. \A n \in V : g[n].err = FALSE /\ g[n].subs = Finds(t, p, n, qos)
      <4> SUFFICES ASSUME NEW n \in V
                   PROVE  g[n].err = FALSE /\ g[n].subs = Finds(t, p, n, qos)
        OBVIOUS
      <4>1. n \in DOMAIN t /\ Len(n) = Len(s) + 1 /\ IsPrefix(s, n)
        BY DEF Kids
      <4>2. Len(n) <= N
        BY <1>2, <3>1, <4>1
      <4>3. n \in D /\ n \in Kids(D, s)
        BY <1>2, <4>1, <4>2 DEF Kids
      <4>4. g[n] = [err |-> FALSE, subs |-> Finds(t, p, n, qos)]
        BY <1>6, <4>3 DEF is
      <4> QED
        BY <4>4
    <3>5. Finds(t, p, s, qos)
            = UNION ({Walk!matchQos(t, s, n, qos) : n \in mwcn}
                       \cup {Finds(t, p, c, qos) : c \in V})
      BY <1>2, <2>2, <3>1, FindsStep
    <3> HIDE DEF V, mwcn
    <3>6. {g[n].subs : n \in V} = {Finds(t, p, c, qos) : c \in V}
      BY <3>4
    <3>7. (\E n \in V : g[n].err) = FALSE
      BY <3>4
    <3> QED
      BY <2>1, <3>3, <3>5, <3>6, <3>7
  <2> QED
    BY <2>4, <2>5
<1> HIDE DEF D
<1>7. is = [s \in D |-> Body(is, s)]
  <2>1. \A s \in D : Body(is, s) = is[s]
    <3> HIDE DEF Body, is
    <3> QED
      BY <1>6
  <2>2. is = [s \in D |-> is[s]]
    OBVIOUS
  <2> HIDE DEF Body, is
  <2> QED
    BY <2>1, <2>2
<1> HIDE DEF Body, is
<1>8. ret = [s \in D |-> Body(ret, s)]
  BY <1>7
<1> HIDE DEF ret
<1>9. \A s \in D : ret[s] = is[s]
  <2>1. Inherits(D, ret, is)
    BY <1>6, <1>8 DEF Inherits
  <2>2. N \in Nat /\ D \subseteq Path /\ NoDeeper(D, N)
    BY <1>2, <1>3 DEF NoDeeper
  <2> QED
    BY <2>1, <2>2, Branches
<1>10. is[Root] = [err |-> FALSE, subs |-> Finds(t, p, Root, qos)]
  BY <1>3 DEF is
<1> QED
  BY <1>1, <1>3, <1>9, <1>10 DEF p

(* What can be hit from the root are the filters that match the topic.     *)
LEMMA HitMatches ==
    ASSUME NEW p \in Path, NEW n \in Path
    PROVE  Hit(p, Root, n) <=> Matches(n, p)
<1>1. Len(Root) = 0 /\ Len(n) \in Nat /\ Len(p) \in Nat /\ Root \in Path
  BY DEF Root, Path
<1>2. IsPrefix(Root, n)
  BY <1>1, PrefixAt
<1>3. \A j : Agrees(n, p, Len(Root) + 1, j) <=> LevelsMatch(n, p, j)
  BY <1>1 DEF Agrees, LevelsMatch
<1>4. CASE n # Root /\ Last(n) = MWC
  <2>1. Len(n) >= 1
    BY <1>1, <1>2, <1>4, LastLevel
  <2>2. Len(n) = Len(p) /\ LevelsMatch(n, p, Len(n)) => LevelsMatch(n, p, Len(n) - 1)
    BY <1>1 DEF LevelsMatch
  <2>3. Len(n) - 1 <= Len(p) <=> Len(p) >= Len(n) - 1
    BY <1>1
  <2>4. Hit(p, Root, n) <=> Len(n) - 1 <= Len(p) /\ LevelsMatch(n, p, Len(n) - 1)
    BY <1>2, <1>3, <1>4 DEF Hit
  <2>5. Len(n) = Len(p) => Len(n) - 1 <= Len(p)
    BY <1>1
  <2> QED
    BY <1>4, <2>2, <2>3, <2>4, <2>5 DEF Matches
<1>5. CASE ~(n # Root /\ Last(n) = MWC)
  <2>1. Hit(p, Root, n) <=> Len(n) = Len(p) /\ LevelsMatch(n, p, Len(n))
    BY <1>2, <1>3, <1>5 DEF Hit
  <2> QED
    BY <1>5, <2>1 DEF Matches
<1> QED
  BY <1>4, <1>5

(* One find of a walk from the root.                                       *)
Find(t, n, i, qos) ==
    [by |-> By(Root, n), at |-> n, slot |-> i, sub |-> t[n].subs[i], qos |-> qos]

(* They are the subscribers in the slots of the nodes that are hit.        *)
LEMMA FindsWhat ==
    ASSUME NEW t, NEW p, NEW qos, NEW x
    PROVE  x \in Finds(t, p, Root, qos)
             <=> \E n \in DOMAIN t : /\ Hit(p, Root, n)
                                     /\ \E i \in 1..Len(t[n].subs) : x = Find(t, n, i, qos)
BY DEF Finds, Walk!matchQos, Find

(* smatch with the trees that can arise: a message published to a topic    *)
(* reaches every subscription in the table whose filter matches it, by the *)
(* reference definition, none else, and each of them once, whatever the    *)
(* QoS granted.                                                            *)
THEOREM PublishReachesMatches == TreesSpec => []MatchExact
<1>1. WalksInv => MatchExact
  <2> SUFFICES ASSUME WalksInv, NEW raw \in RawTopic, ValidTopic(raw)
               PROVE  LET found == Subscribers(raw, 0)
                          who(x) == [filter |-> x.at, sub |-> x.sub]
                      IN  /\ ~found.err
                          /\ {who(x) : x \in found.subs}
                                = {[filter |-> row.filter, sub |-> row.sub] :
                                     row \in {w \in STree!Table :
                                                Matches(w.filter, PathOf(raw))}}
                          /\ \A x, y \in found.subs : who(x) = who(y) => x = y
    BY DEF MatchExact
  <2> DEFINE p == PathOf(raw)
             subs == Finds(sroot, p, Root, 0)
             who(x) == [filter |-> x.at, sub |-> x.sub]
             rows == {w \in STree!Table : Matches(w.filter, p)}
  <2>1. Subscribers(raw, 0) = [err |-> FALSE, subs |-> subs]
    BY MatchWalk DEF WalksInv, TreesInv, Sound, Subscribers
  <2>2. /\ p \in Path /\ DOMAIN sroot \subseteq Path
        /\ \A n \in DOMAIN sroot : Fit(sroot[n])
    BY ValidPath DEF WalksInv, TreesInv, Sound
  <2>3. \A n \in DOMAIN sroot : Hit(p, Root, n) <=> Matches(n, p)
    BY <2>2, HitMatches
  <2>4. \A x : x \in subs <=> \E n \in DOMAIN sroot : /\ Matches(n, p)
                                                      /\ \E i \in 1..Len(sroot[n].subs) :
                                                            x = Find(sroot, n, i, 0)
    BY <2>3, FindsWhat
  <2>5. \A w : w \in STree!Table <=> \E n \in DOMAIN sroot : \E i \in 1..Len(sroot[n].subs) :
                   w = [filter |-> n, sub |-> sroot[n].subs[i], qos |-> sroot[n].qos[i]]
    BY DEF STree!Table
  <2> HIDE DEF p, subs
  <2>6. {who(x) : x \in subs} = {[filter |-> row.filter, sub |-> row.sub] : row \in rows}
    <3>1. ASSUME NEW x \in subs
          PROVE  \E row \in rows : who(x) = [filter |-> row.filter, sub |-> row.sub]
      <4>1. PICK n \in DOMAIN sroot : /\ Matches(n, p)
                                      /\ \E i \in 1..Len(sroot[n].subs) : x = Find(sroot, n, i, 0)
        BY <2>4
      <4>2. PICK i \in 1..Len(sroot[n].subs) : x = Find(sroot, n, i, 0)
        BY <4>1
      <4> DEFINE row == [filter |-> n, sub |-> sroot[n].subs[i], qos |-> sroot[n].qos[i]]
      <4>3. row \in rows
        BY <2>5, <4>1
      <4> QED
        BY <4>2, <4>3 DEF Find
    <3>2. ASSUME NEW row \in rows
          PROVE  \E x \in subs : who(x) = [filter |-> row.filter, sub |-> row.sub]
      <4>0. PICK n \in DOMAIN sroot : \E i \in 1..Len(sroot[n].subs) :
                   row = [filter |-> n, sub |-> sroot[n].subs[i], qos |-> sroot[n].qos[i]]
        BY <2>5
      <4>1. PICK i \in 1..Len(sroot[n].subs) :
                   row = [filter |-> n, sub |-> sroot[n].subs[i], qos |-> sroot[n].qos[i]]
        BY <4>0
      <4>2. Matches(n, p)
        BY <4>1
      <4>3. Find(sroot, n, i, 0) \in subs
        BY <2>4, <4>2
      <4> QED
        BY <4>1, <4>3 DEF Find
    <3> DEFINE what(row) == [filter |-> row.filter, sub |-> row.sub]
    <3> HIDE DEF rows, who, what
    <3>3. {who(x) : x \in subs} = {what(row) : row \in rows}
      <4>1. \A x \in subs : \E row \in rows : who(x) = what(row)
        BY <3>1 DEF who, what
      <4>2. \A row \in rows : \E x \in subs : who(x) = what(row)
        BY <3>2 DEF who, what
      <4> QED
        BY <4>1, <4>2
    <3> QED
      BY <3>3 DEF who, what
  <2>7. ASSUME NEW x \in subs, NEW y \in subs, who(x) = who(y)
        PROVE  x = y
    <3>1. PICK n \in DOMAIN sroot : \E i \in 1..Len(sroot[n].subs) : x = Find(sroot, n, i, 0)
      BY <2>4
    <3>2. PICK i \in 1..Len(sroot[n].subs) : x = Find(sroot, n, i, 0)
      BY <3>1
    <3>3. PICK m \in DOMAIN sroot : \E j \in 1..Len(sroot[m].subs) : y = Find(sroot, m, j, 0)
      BY <2>4
    <3>4. PICK j \in 1..Len(sroot[m].subs) : y = Find(sroot, m, j, 0)
      BY <3>3
    <3>5. x.at = n /\ x.sub = sroot[n].subs[i] /\ y.at = m /\ y.sub = sroot[m].subs[j]
      BY <3>2, <3>4 DEF Find
    <3>6. x.at = y.at /\ x.sub = y.sub
      BY <2>7
    <3>7. m = n /\ sroot[n].subs[i] = sroot[n].subs[j] /\ j \in 1..Len(sroot[n].subs)
      BY <3>5, <3>6
    <3>8. i = j
      BY <2>2, <3>7 DEF Fit
    <3> QED
      BY <3>2, <3>4, <3>7, <3>8
  <2> HIDE DEF rows
  <2> QED
    BY <2>1, <2>6, <2>7 DEF rows, p
<1> QED
  BY WalksInvariance, <1>1, PTL
-----------------------------------------------------------------------------
(* rmatch: which topics a walk along a filter hits.                        *)

(* The nodes from s downwards that have a message.                         *)
Kept(t, s) == {n \in DOMAIN t : t[n] # NoMsg /\ IsPrefix(s, n)}

(* What allRetained adds at one node.                                      *)
LEMMA KeptStep ==
    ASSUME NEW t, DOMAIN t \subseteq Path, Hung(t), NEW s \in DOMAIN t
    PROVE  Kept(t, s) = (IF t[s] = NoMsg THEN {} ELSE {s})
                           \cup UNION {Kept(t, c) : c \in Kids(DOMAIN t, s)}
<1> DEFINE D == DOMAIN t
<1>1. s \in Path
  OBVIOUS
<1>2. ASSUME NEW n \in Kept(t, s), n # s
      PROVE  \E c \in Kids(D, s) : n \in Kept(t, c)
  <2>1. n \in D /\ IsPrefix(s, n) /\ t[n] # NoMsg
    BY <1>2 DEF Kept
  <2>2. PICK c \in Kids(D, s) : IsPrefix(c, n)
    BY <1>1, <1>2, <2>1, OneDown DEF Hung
  <2> QED
    BY <2>1, <2>2 DEF Kept
<1>3. ASSUME NEW c \in Kids(D, s), NEW n \in Kept(t, c)
      PROVE  n \in Kept(t, s)
  <2>1. c \in Path /\ n \in Path /\ IsPrefix(s, c) /\ IsPrefix(c, n)
    BY <1>3 DEF Kids, Kept
  <2>2. IsPrefix(s, n)
    BY <1>1, <2>1, PrefixOrder
  <2> QED
    BY <1>3, <2>2 DEF Kept
<1>4. s \in Kept(t, s) <=> t[s] # NoMsg
  BY <1>1, PrefixOrder DEF Kept
<1> HIDE DEF D
<1>5. ASSUME NEW n
      PROVE  n \in Kept(t, s) <=> \/ n \in (IF t[s] = NoMsg THEN {} ELSE {s})
                                  \/ n \in UNION {Kept(t, c) : c \in Kids(D, s)}
  <2>1. n \in UNION {Kept(t, c) : c \in Kids(D, s)} <=> \E c \in Kids(D, s) : n \in Kept(t, c)
    OBVIOUS
  <2> QED
    BY <1>2, <1>3, <1>4, <2>1
<1> QED
  BY <1>5 DEF D

(* allRetained finds the messages at a node and below it.                  *)
LEMMA KeptWalk ==
    ASSUME NEW t, DOMAIN t \subseteq Path, Hung(t), Shaped(DOMAIN t), NEW r \in DOMAIN t
    PROVE  Walk!allRetained(t, r) = Kept(t, r)
<1> DEFINE D == DOMAIN t
           Body(g, s) == (IF t[s] = NoMsg THEN {} ELSE {s})
                            \cup UNION {g[n] : n \in Walk!Children(t, s)}
           ret == CHOOSE g : g = [s \in D |-> Body(g, s)]
           is == [s \in D |-> Kept(t, s)]
<1>1. Walk!allRetained(t, r) = ret[r]
  BY DEF Walk!allRetained
<1>2. ASSUME NEW g, NEW s \in D, \A c \in Kids(D, s) : g[c] = is[c]
      PROVE  Body(g, s) = is[s]
  <2>1. Body(g, s) = (IF t[s] = NoMsg THEN {} ELSE {s}) \cup UNION {g[n] : n \in Kids(D, s)}
    BY SameNodes
  <2>2. {g[n] : n \in Kids(D, s)} = {Kept(t, n) : n \in Kids(D, s)}
    <3>1. \A n \in Kids(D, s) : g[n] = Kept(t, n)
      BY <1>2 DEF Kids
    <3> QED
      BY <3>1
  <2>3. is[s] = Kept(t, s)
    OBVIOUS
  <2> HIDE DEF Body, is
  <2> QED
    BY <2>1, <2>2, <2>3, KeptStep
<1>3. is = [s \in D |-> Body(is, s)]
  <2>1. is = [s \in D |-> is[s]]
    OBVIOUS
  <2> HIDE DEF Body, is
  <2>2. \A s \in D : Body(is, s) = is[s]
    BY <1>2
  <2> QED
    BY <2>1, <2>2
<1> HIDE DEF Body, is
<1>4. ret = [s \in D |-> Body(ret, s)]
  BY <1>3
<1> HIDE DEF ret
<1>5. Inherits(D, ret, is)
  BY <1>2, <1>4 DEF Inherits
<1>6. PICK N \in Nat : NoDeeper(D, N)
  BY DEF Shaped, NoDeeper
<1>7. \A s \in D : ret[s] = is[s]
  <2> HIDE DEF D
  <2> QED
    BY <1>5, <1>6, Branches DEF D
<1> QED
  BY <1>1, <1>7 DEF is

(* Whether the call of rmatch on node r, for the filter f, or one of those *)
(* it makes, finds the message of node n.                                  *)
HitR(f, r, n) ==
    /\ IsPrefix(r, n)
    /\ IF Len(r) < Len(f) /\ Last(f) = MWC
       THEN Len(n) >= Len(f) - 1 /\ Agrees(f, n, Len(r) + 1, Len(f) - 1)
       ELSE Len(n) = Len(f) /\ Agrees(f, n, Len(r) + 1, Len(f))

(* What the call of rmatch on r, and those it makes, find in the tree t.   *)
FindsR(t, f, r) == {n \in DOMAIN t : t[n] # NoMsg /\ HitR(f, r, n)}

(* The last level of a filter that has one.                                *)
LEMMA LastIs ==
    ASSUME NEW f \in Path, Len(f) > 0
    PROVE  Last(f) = f[Len(f)]
BY DEF Last

(* The last call of a branch finds the message of its node.                *)
LEMMA FindsRLast ==
    ASSUME NEW t, DOMAIN t \subseteq Path, NEW f \in Path, NEW r \in DOMAIN t,
           Len(r) = Len(f)
    PROVE  FindsR(t, f, r) = IF t[r] = NoMsg THEN {} ELSE {r}
<1>1. r \in Path /\ Len(r) \in Nat /\ Len(f) \in Nat
  BY DEF Path
<1>2. \A n \in DOMAIN t : HitR(f, r, n) <=> IsPrefix(r, n) /\ Len(n) = Len(f)
  BY <1>1 DEF HitR, Agrees
<1>3. \A n \in DOMAIN t : IsPrefix(r, n) /\ Len(n) = Len(f) <=> n = r
  BY <1>1, PrefixOrder, SameDepth
<1> QED
  BY <1>2, <1>3 DEF FindsR

(* One that comes to the "#" finds all there is from its node downwards.   *)
LEMMA FindsRAll ==
    ASSUME NEW t, DOMAIN t \subseteq Path, NEW f \in Path, NEW r \in DOMAIN t,
           Len(r) + 1 = Len(f), f[Len(r) + 1] = MWC
    PROVE  FindsR(t, f, r) = Kept(t, r)
<1>1. r \in Path /\ Len(r) \in Nat /\ Len(f) \in Nat
  BY DEF Path
<1>2. Len(r) < Len(f) /\ Last(f) = MWC
  BY <1>1, LastIs
<1>3. ASSUME NEW n \in DOMAIN t PROVE HitR(f, r, n) <=> IsPrefix(r, n)
  <2>1. IsPrefix(r, n) => Len(n) >= Len(f) - 1
    BY <1>1, PrefixAt DEF Path
  <2>2. Agrees(f, n, Len(r) + 1, Len(f) - 1)
    BY <1>1 DEF Agrees
  <2> QED
    BY <1>2, <2>1, <2>2 DEF HitR
<1> QED
  BY <1>3 DEF FindsR, Kept

(* Any other one leaves it to the calls on the children that match.        *)
LEMMA FindsRStep ==
    ASSUME NEW t, DOMAIN t \subseteq Path, Hung(t), NEW f \in Path,
           \A i \in 1..Len(f) : f[i] = MWC => i = Len(f),
           NEW r \in DOMAIN t, Len(r) < Len(f), f[Len(r) + 1] # MWC
    PROVE  FindsR(t, f, r)
             = UNION {FindsR(t, f, c) :
                        c \in {n \in Kids(DOMAIN t, r) : \/ f[Len(r) + 1] = SWC
                                                         \/ Last(n) = f[Len(r) + 1]}}
<1> DEFINE D == DOMAIN t
           k == Len(r) + 1
           V == {n \in Kids(D, r) : f[k] = SWC \/ Last(n) = f[k]}
<1>1. r \in Path /\ Len(r) \in Nat /\ Len(f) \in Nat /\ k \in 1..Len(f)
  BY DEF Path
<1>2. Last(f) = f[Len(f)] /\ (Last(f) = MWC => k < Len(f))
  <2>1. Last(f) = f[Len(f)]
    BY <1>1, LastIs
  <2> QED
    BY <1>1, <2>1
<1> HIDE DEF k
<1>3. ASSUME NEW n \in D, NEW c \in Kids(D, r), IsPrefix(c, n)
      PROVE  /\ IsPrefix(r, n) /\ Len(c) = k /\ c \in Path /\ Len(n) \in Nat
             /\ Last(c) = n[k]
  <2>1. c \in Path /\ n \in Path /\ IsPrefix(r, c) /\ Len(c) = Len(r) + 1
    BY <1>3 DEF Kids
  <2>2. c # r
    BY <1>1, <2>1
  <2>3. Last(c) = c[Len(c)]
    BY <1>1, <2>1, <2>2, LastLevel
  <2>4. IsPrefix(r, n)
    BY <1>1, <1>3, <2>1, PrefixOrder
  <2>5. c[k] = n[k]
    <3>1. k \in 1..Len(c)
      BY <1>1, <2>1 DEF k
    <3> QED
      BY <1>3, <2>1, <3>1, PrefixAt
  <2> QED
    BY <2>1, <2>3, <2>4, <2>5 DEF k, Path
<1>4. ASSUME NEW n, NEW m \in Int
      PROVE  /\ Agrees(f, n, k + 1, m) /\ (f[k] = SWC \/ f[k] = n[k]) => Agrees(f, n, k, m)
             /\ Agrees(f, n, k, m) => Agrees(f, n, k + 1, m)
             /\ Agrees(f, n, k, m) /\ k <= m => f[k] = SWC \/ f[k] = n[k]
  <2>1. \A l \in k..m : l = k \/ l \in (k + 1)..m
    BY <1>1
  <2>2. \A l \in (k + 1)..m : l \in k..m
    BY <1>1
  <2>3. k <= m => k \in k..m
    BY <1>1
  <2> QED
    BY <2>1, <2>2, <2>3 DEF Agrees
<1>5. ASSUME NEW n \in D, NEW c \in Kids(D, r), IsPrefix(c, n)
      PROVE  HitR(f, r, n) <=> HitR(f, c, n) /\ (f[k] = SWC \/ Last(c) = f[k])
  <2>1. IsPrefix(r, n) /\ Len(c) = k /\ Last(c) = n[k] /\ Len(n) \in Nat
    BY <1>3, <1>5
  <2>2. CASE Last(f) = MWC
    <3>1. k < Len(f) /\ k <= Len(f) - 1 /\ Len(f) - 1 \in Int
      BY <1>1, <1>2, <2>2
    <3>2. HitR(f, r, n) <=> Len(n) >= Len(f) - 1 /\ Agrees(f, n, k, Len(f) - 1)
      BY <2>1, <2>2 DEF HitR, k
    <3>3. HitR(f, c, n) <=> Len(n) >= Len(f) - 1 /\ Agrees(f, n, k + 1, Len(f) - 1)
      BY <1>5, <2>1, <2>2, <3>1 DEF HitR
    <3> QED
      BY <1>4, <2>1, <3>1, <3>2, <3>3
  <2>3. CASE Last(f) # MWC
    <3>1. k <= Len(f) /\ Len(f) \in Int
      BY <1>1
    <3>2. HitR(f, r, n) <=> Len(n) = Len(f) /\ Agrees(f, n, k, Len(f))
      BY <2>1, <2>3 DEF HitR, k
    <3>3. HitR(f, c, n) <=> Len(n) = Len(f) /\ Agrees(f, n, k + 1, Len(f))
      BY <1>5, <2>1, <2>3 DEF HitR
    <3> QED
      BY <1>4, <2>1, <3>1, <3>2, <3>3
  <2> QED
    BY <2>2, <2>3
<1>6. ASSUME NEW n \in D, HitR(f, r, n)
      PROVE  \E c \in Kids(D, r) : IsPrefix(c, n)
  <2>1. IsPrefix(r, n) /\ Len(n) \in Nat
    BY <1>6 DEF HitR, Path
  <2>2. Len(n) >= k
    <3>1. CASE Last(f) = MWC
      <4>1. Len(n) >= Len(f) - 1
        BY <1>6, <3>1 DEF HitR
      <4> QED
        BY <1>1, <1>2, <2>1, <3>1, <4>1
    <3>2. CASE Last(f) # MWC
      BY <1>1, <1>6, <3>2 DEF HitR
    <3> QED
      BY <3>1, <3>2
  <2>3. n # r
    BY <1>1, <2>2 DEF k
  <2> QED
    BY <1>1, <2>1, <2>3, OneDown DEF Hung
<1>7. \A n \in D : HitR(f, r, n) <=> \E c \in V : HitR(f, c, n)
  <2>1. \A n, c : HitR(f, c, n) => IsPrefix(c, n)
    BY DEF HitR
  <2> HIDE DEF D
  <2> QED
    BY <1>5, <1>6, <2>1
<1> HIDE DEF V
<1>8. ASSUME NEW n PROVE n \in FindsR(t, f, r) <=> n \in UNION {FindsR(t, f, c) : c \in V}
  <2>1. n \in UNION {FindsR(t, f, c) : c \in V} <=> \E c \in V : n \in FindsR(t, f, c)
    OBVIOUS
  <2> QED
    BY <1>7, <2>1 DEF FindsR
<1> QED
  BY <1>8 DEF V, k

(* rmatch finds, by the filter f, what can be hit from the root.           *)
LEMMA MatchWalkR ==
    ASSUME NEW t, DOMAIN t \subseteq Path, Hung(t), Shaped(DOMAIN t),
           NEW raw \in RawTopic, ValidTopic(raw)
    PROVE  Walk!rmatch(t, raw) = FindsR(t, PathOf(raw), Root)
<1> DEFINE N == Depth(raw)
           f == PathOf(raw)
           D == {s \in DOMAIN t : Len(s) <= Walk!Depth(raw)}
           Body(g, r) ==
             LET next == Walk!nextTopicLevel(raw, Len(r)) IN
             IF Walk!Done(raw, Len(r)) THEN (IF t[r] = NoMsg THEN {} ELSE {r})
             ELSE IF next.err THEN {}
             ELSE IF next.ntl = Walk!MWC THEN Walk!allRetained(t, r)
             ELSE UNION {g[n] : n \in {c \in Walk!Children(t, r) :
                           next.ntl = Walk!SWC \/ Walk!Last(c) = next.ntl}}
           ret == CHOOSE g : g = [r \in D |-> Body(g, r)]
           is == [r \in D |-> FindsR(t, f, r)]
<1>1. Walk!rmatch(t, raw) = ret[Root]
  BY SameNames DEF Walk!rmatch
<1>2. /\ N \in Nat /\ f \in Path /\ Len(f) = N
      /\ \A i \in 1..N : f[i] = LevelAt(raw, i)
      /\ \A i \in 1..N : f[i] = MWC => i = N
      /\ D = {s \in DOMAIN t : Len(s) <= N}
  BY ValidPath, SameNames
<1>3. /\ D \subseteq Path /\ \A s \in D : Len(s) \in Nat /\ Len(s) <= N
      /\ Root \in D
  BY <1>2 DEF Shaped, Path, Root
<1>4. \A k \in 0..N : Walk!Done(raw, k) <=> k = N
  BY SameNames, <1>2 DEF Walk!Done
<1>5. \A k \in 0..(N - 1) : /\ ~Walk!nextTopicLevel(raw, k).err
                           /\ Walk!nextTopicLevel(raw, k).ntl = f[k + 1]
  <2> TAKE k \in 0..(N - 1)
  <2>1. k + 1 \in 1..N
    BY <1>2
  <2>2. LevelOk(raw, k + 1)
    BY <2>1 DEF ValidTopic
  <2> QED
    BY <1>2, <2>1, <2>2, NextLevel
<1> HIDE DEF f, N
<1>6. ASSUME NEW g, NEW r \in D, \A c \in Kids(D, r) : g[c] = is[c]
      PROVE  Body(g, r) = is[r]
  <2>1. is[r] = FindsR(t, f, r)
    OBVIOUS
  <2>2. r \in DOMAIN t /\ Len(r) \in 0..N
    BY <1>2, <1>3
  <2> DEFINE V(l) == {c \in Kids(DOMAIN t, r) : l = SWC \/ Last(c) = l}
             next == Walk!nextTopicLevel(raw, Len(r))
  <2>3. Body(g, r)
          = IF Walk!Done(raw, Len(r)) THEN (IF t[r] = NoMsg THEN {} ELSE {r})
            ELSE IF next.err THEN {}
            ELSE IF next.ntl = MWC THEN Walk!allRetained(t, r)
            ELSE UNION {g[n] : n \in V(next.ntl)}
    BY SameNodes
  <2>4. CASE Len(r) = N
    <3>1. Walk!Done(raw, Len(r))
      BY <1>2, <1>4, <2>4
    <3>2. FindsR(t, f, r) = IF t[r] = NoMsg THEN {} ELSE {r}
      BY <1>2, <2>2, <2>4, FindsRLast
    <3> HIDE DEF Body, is
    <3> QED
      BY <2>1, <2>3, <3>1, <3>2
  <2>5. CASE Len(r) # N
    <3>1. Len(r) \in 0..(N - 1) /\ Len(r) < N /\ Len(r) + 1 \in 1..N
      BY <1>2, <2>2, <2>5
    <3>2. ~Walk!Done(raw, Len(r)) /\ ~next.err /\ next.ntl = f[Len(r) + 1]
      BY <1>2, <1>4, <1>5, <2>2, <2>5, <3>1
    <3> DEFINE W == V(f[Len(r) + 1])
    <3> HIDE DEF Body, is, next
    <3>3. Body(g, r) = IF f[Len(r) + 1] = MWC THEN Walk!allRetained(t, r)
                       ELSE UNION {g[n] : n \in W}
      BY <2>3, <3>2
    <3>4. CASE f[Len(r) + 1] = MWC
      <4>1. Len(r) + 1 = Len(f)
        BY <1>2, <3>1, <3>4
      <4>2. FindsR(t, f, r) = Kept(t, r)
        BY <1>2, <2>2, <3>4, <4>1, FindsRAll
      <4>3. Walk!allRetained(t, r) = Kept(t, r)
        BY <2>2, KeptWalk
      <4> QED
        BY <2>1, <3>3, <3>4, <4>2, <4>3
    <3>5. CASE f[Len(r) + 1] # MWC
      <4>1. \A n \in W : g[n] = FindsR(t, f, n)
        <5> SUFFICES ASSUME NEW n \in W PROVE g[n] = FindsR(t, f, n)
          OBVIOUS
        <5>1. n \in DOMAIN t /\ Len(n) = Len(r) + 1 /\ IsPrefix(r, n)
          BY DEF Kids
        <5>2. Len(n) <= N
          BY <1>2, <3>1, <5>1
        <5>3. n \in D /\ n \in Kids(D, r)
          BY <1>2, <5>1, <5>2 DEF Kids
        <5> QED
          BY <1>6, <5>3 DEF is
      <4>2. FindsR(t, f, r) = UNION {FindsR(t, f, c) : c \in W}
        BY <1>2, <2>2, <3>1, <3>5, FindsRStep
      <4> HIDE DEF W
      <4>3. {g[n] : n \in W} = {FindsR(t, f, c) : c \in W}
        BY <4>1
      <4> QED
        BY <2>1, <3>3, <3>5, <4>2, <4>3
    <3> QED
      BY <3>4, <3>5
  <2> QED
    BY <2>4, <2>5
<1> HIDE DEF D
<1>7. is = [r \in D |-> Body(is, r)]
  <2>1. \A r \in D : Body(is, r) = is[r]
    <3> HIDE DEF Body, is
    <3> QED
      BY <1>6
  <2>2. is = [r \in D |-> is[r]]
    OBVIOUS
  <2> HIDE DEF Body, is
  <2> QED
    BY <2>1, <2>2
<1> HIDE DEF Body, is
<1>8. ret = [r \in D |-> Body(ret, r)]
  BY <1>7
<1> HIDE DEF ret
<1>9. \A r \in D : ret[r] = is[r]
  <2>1. Inherits(D, ret, is)
    BY <1>6, <1>8 DEF Inherits
  <2>2. N \in Nat /\ D \subseteq Path /\ NoDeeper(D, N)
    BY <1>2, <1>3 DEF NoDeeper
  <2> QED
    BY <2>1, <2>2, Branches
<1>10. is[Root] = FindsR(t, f, Root)
  BY <1>3 DEF is
<1> QED
  BY <1>1, <1>3, <1>9, <1>10 DEF f

(* What it can hit from the root are the topics that the filter matches.   *)
LEMMA HitMatchesR ==
    ASSUME NEW f \in Path, NEW n \in Path
    PROVE  HitR(f, Root, n) <=> Matches(f, n)
<1>1. Len(Root) = 0 /\ Len(n) \in Nat /\ Len(f) \in Nat /\ Root \in Path
  BY DEF Root, Path
<1>2. IsPrefix(Root, n) /\ (Len(Root) < Len(f) <=> f # Root)
  <2>1. IsPrefix(Root, n)
    BY <1>1, PrefixAt
  <2>2. f = Root \/ Len(f) > 0
    BY DEF Root, Path
  <2> QED
    BY <1>1, <2>1, <2>2
<1>3. \A j : Agrees(f, n, Len(Root) + 1, j) <=> LevelsMatch(f, n, j)
  BY <1>1 DEF Agrees, LevelsMatch
<1>4. CASE f # Root /\ Last(f) = MWC
  <2>1. Len(f) = Len(n) /\ LevelsMatch(f, n, Len(f))
           => Len(n) >= Len(f) - 1 /\ LevelsMatch(f, n, Len(f) - 1)
    BY <1>1 DEF LevelsMatch
  <2>2. HitR(f, Root, n) <=> Len(n) >= Len(f) - 1 /\ LevelsMatch(f, n, Len(f) - 1)
    BY <1>2, <1>3, <1>4 DEF HitR
  <2> QED
    BY <1>4, <2>1, <2>2 DEF Matches
<1>5. CASE ~(f # Root /\ Last(f) = MWC)
  <2>1. HitR(f, Root, n) <=> Len(n) = Len(f) /\ LevelsMatch(f, n, Len(f))
    BY <1>2, <1>3, <1>5 DEF HitR
  <2> QED
    BY <1>5, <2>1 DEF Matches
<1> QED
  BY <1>4, <1>5

(* rmatch and smatch, two recursions over two trees, take the same topics  *)
(* for covered by a filter: a subscription is sent the retained message of *)
(* a topic just when it would be sent one published there.                 *)
THEOREM RetainedLikeLive == TreesSpec => []LiveAndRetainedAgree
<1>1. WalksInv => LiveAndRetainedAgree
  <2> SUFFICES ASSUME WalksInv,
                      NEW f \in RawTopic, ValidTopic(f), NEW p \in RawTopic, ValidTopic(p),
                      PathOf(f) \in {w.filter : w \in STree!Table},
                      PathOf(p) \in DOMAIN rroot, rroot[PathOf(p)] # NoMsg
               PROVE  PathOf(p) \in Retained(f)
                        <=> \E x \in Subscribers(p, 0).subs : x.at = PathOf(f)
    BY DEF LiveAndRetainedAgree
  <2>1. PathOf(p) \in Path /\ PathOf(f) \in Path
    BY ValidPath
  <2>2. Retained(f) = FindsR(rroot, PathOf(f), Root)
    BY MatchWalkR DEF WalksInv, TreesInv, SoundR, Retained
  <2>3. PathOf(p) \in Retained(f) <=> Matches(PathOf(f), PathOf(p))
    BY <2>1, <2>2, HitMatchesR DEF FindsR
  <2>4. Subscribers(p, 0) = [err |-> FALSE, subs |-> Finds(sroot, PathOf(p), Root, 0)]
    BY MatchWalk DEF WalksInv, TreesInv, Sound, Subscribers
  <2>5. Subscribers(p, 0).subs = Finds(sroot, PathOf(p), Root, 0)
    BY <2>4
  <2>6. /\ PathOf(f) \in DOMAIN sroot
        /\ \E i : i \in 1..Len(sroot[PathOf(f)].subs)
    BY DEF STree!Table
  <2>7. (\E x \in Subscribers(p, 0).subs : x.at = PathOf(f)) => Matches(PathOf(f), PathOf(p))
    <3> SUFFICES ASSUME NEW x \in Finds(sroot, PathOf(p), Root, 0), x.at = PathOf(f)
                 PROVE  Matches(PathOf(f), PathOf(p))
      BY <2>5
    <3>1. PICK n \in DOMAIN sroot : /\ Hit(PathOf(p), Root, n)
                                    /\ \E i \in 1..Len(sroot[n].subs) : x = Find(sroot, n, i, 0)
      BY FindsWhat
    <3>2. n = PathOf(f)
      BY <3>1 DEF Find
    <3> QED
      BY <2>1, <3>1, <3>2, HitMatches
  <2>8. Matches(PathOf(f), PathOf(p)) => \E x \in Subscribers(p, 0).subs : x.at = PathOf(f)
    <3> SUFFICES ASSUME Matches(PathOf(f), PathOf(p))
                 PROVE  \E x \in Finds(sroot, PathOf(p), Root, 0) : x.at = PathOf(f)
      BY <2>5
    <3>1. Hit(PathOf(p), Root, PathOf(f))
      BY <2>1, HitMatches
    <3>2. PICK i \in 1..Len(sroot[PathOf(f)].subs) : TRUE
      BY <2>6
    <3> DEFINE x == Find(sroot, PathOf(f), i, 0)
    <3>3. x \in Finds(sroot, PathOf(p), Root, 0)
      BY <2>6, <3>1, FindsWhat
    <3>4. x.at = PathOf(f)
      BY DEF Find
    <3> QED
      BY <3>3, <3>4
  <2> QED
    BY <2>3, <2>7, <2>8
<1> QED
  BY WalksInvariance, <1>1, PTL
-----------------------------------------------------------------------------
(***************************************************************************)
(* Sessions, for any number of connections, identifiers and filters: a     *)
(* session is shared only as CleanSession allows, none stays               *)
(* uninitialized, and an exclusive one knows its connection's              *)
(* subscriptions.  The argument is that a session belongs to the           *)
(* connection whose handler made it, that the store names such owners      *)
(* only, and that a second user of a session came to it through the store. *)
(***************************************************************************)
(* Where a handler stands before it has a session, and once it has one     *)
(* that Init was called on.                                                *)
Without == {"new", "get", "alloc"}
Early == {"new", "get", "alloc", "init"}

Owner(s) == session[s] = s

(* A handler on its way to a session has none; those past it do.           *)
HasSession ==
    \A c \in Conn : /\ at[c] \in Without => session[c] = None
                    /\ at[c] \in {"init", "load", "store", "serve"}
                         => session[c] # None
                    /\ at[c] = "get" => ~clean[c] /\ id[c] # Anonymous
                    /\ at[c] = "init" => Owner(c)

(* A session is used by its owner, and by those who found it in the store. *)
Lent ==
    \A c \in Conn : session[c] # None =>
       /\ Owner(session[c]) /\ id[session[c]] = id[c]
       /\ session[c] # c => ~clean[c] /\ id[c] # Anonymous

Stored ==
    \A i \in Id : st[i] # None => Owner(st[i]) /\ id[st[i]] = i

(* Init was called on the sessions whose owners are past it, and those     *)
(* only.                                                                   *)
Initialized ==
    \A c \in Conn : c \in initted <=> Owner(c) /\ at[c] \notin Early

(* Before a handler serves its connection there is no subscription, and    *)
(* the owner's are in its session unless it is lent out.                   *)
Recorded ==
    \A c \in Conn :
       /\ at[c] \in Early => subMap[c] = {}
       /\ Owner(c) /\ (\A d \in Conn : ~Shares(c, d)) => subMap[c] \subseteq topics[c]

SessionsInv == /\ TypeOK /\ HasSession /\ Lent /\ Stored /\ Initialized
        /\ Recorded

-----------------------------------------------------------------------------
LEMMA SessionsInitHolds == Init => SessionsInv
BY IdAssumption DEF Init, SessionsInv, TypeOK, HasSession, Lent, Stored, Initialized, Recorded,
   Without, Early, Owner, Key

(* Each step keeps the invariant; sharing is for good, so what Recorded    *)
(* says of an exclusive session is about connections that were never       *)
(* sharing.                                                                *)
LEMMA SessionsStepHolds == SessionsInv /\ [Next]_vars => SessionsInv'
<1> SUFFICES ASSUME SessionsInv, [Next]_vars PROVE SessionsInv'
  OBVIOUS
<1> USE IdAssumption DEF SessionsInv, TypeOK, HasSession, Lent, Stored, Initialized, Recorded,
        Without, Early, Owner, Key, Goto, Shares
<1> DEFINE Q == SessionsInv'
<1>1. ASSUME NEW c \in Conn, NEW i \in Key, NEW cs \in BOOLEAN, Connect(c, i, cs)
      PROVE Q
  BY <1>1 DEF Connect, sessVars
<1>2. ASSUME NEW c \in Conn, Get(c) PROVE Q
  BY <1>2 DEF Get, connVars, regVars
<1>3. ASSUME NEW c \in Conn, New(c) PROVE Q
  BY <1>3 DEF New, connVars, regVars
<1>4. ASSUME NEW c \in Conn, SessionInit(c) PROVE Q
  BY <1>4 DEF SessionInit, connVars, regVars
<1>5. ASSUME NEW c \in Conn, Load(c) PROVE Q
  BY <1>5 DEF Load, Closed, connVars, sessVars, regVars
<1>6. ASSUME NEW c \in Conn, Store(c) PROVE Q
  BY <1>6 DEF Store, connVars, sessVars
<1>7. ASSUME NEW c \in Conn, End(c) PROVE Q
  BY <1>7 DEF End, Closed, connVars, sessVars, regVars
<1>8. ASSUME NEW c \in Conn, NEW f \in Filter, Subscribe(c, f) PROVE Q
  BY <1>8 DEF Subscribe, Serving, connVars, regVars
<1>9. ASSUME NEW c \in Conn, NEW f \in Filter, SubscribeRefused(c, f) PROVE Q
  BY <1>9 DEF SubscribeRefused, Serving, connVars, sessVars, regVars
<1>10. ASSUME NEW c \in Conn, NEW f \in Filter, Unsubscribe(c, f) PROVE Q
  BY <1>10 DEF Unsubscribe, Serving, connVars, regVars
<1>11. ASSUME UNCHANGED vars PROVE Q
  BY <1>11 DEF vars
<1> HIDE DEF Q
<1>12. Q
  BY <1>1, <1>2, <1>3, <1>4, <1>5, <1>6, <1>7, <1>8, <1>9, <1>10, <1>11
     DEF Next, Stopped
<1> QED
  BY <1>12 DEF Q

LEMMA SessionsInvariance == Spec => []SessionsInv
<1>1. SessionsInv /\ [Next]_vars => SessionsInv'
  BY SessionsStepHolds
<1> QED
  BY SessionsInitHolds, <1>1, PTL DEF Spec

-----------------------------------------------------------------------------
(* Sessions is type correct: the store and the registry name connections,  *)
(* and a session keeps topics.                                             *)
THEOREM SessionsTyped == Spec => []TypeOK
BY SessionsInvariance, PTL DEF SessionsInv

(* getSession: however the handlers of CONNECTs interleave, a session is   *)
(* shared only within an identifier, and never by two connections that     *)
(* both asked for a new one.                                               *)
THEOREM SessionsOwned == Spec => []OwnSession
<1>1. SessionsInv => OwnSession
  BY DEF SessionsInv, OwnSession, Lent, Owner, Shares
<1> QED
  BY SessionsInvariance, <1>1, PTL

(* New and Session.Init: a session that is not initialized belongs to a    *)
(* handler between the two, and Init never fails.                          *)
THEOREM SessionsSettle == Spec => []SessionSettles
<1>1. SessionsInv => SessionSettles
  <2> SUFFICES ASSUME SessionsInv, NEW c \in Conn
               PROVE  /\ session[c] # None /\ session[c] \notin initted
                           => at[session[c]] = "init"
                      /\ at[c] = "init" => session[c] \notin initted
    BY DEF SessionSettles
  <2>1. ASSUME session[c] # None, session[c] \notin initted
        PROVE  at[session[c]] = "init"
    <3>1. session[c] \in Conn /\ Owner(session[c])
      BY <2>1 DEF SessionsInv, TypeOK, Lent
    <3>2. session[session[c]] # None
      BY <3>1, IdAssumption DEF Owner
    <3> QED
      BY <2>1, <3>1, <3>2 DEF SessionsInv, HasSession, Initialized, Early, Without
  <2>2. at[c] = "init" => session[c] \notin initted
    BY DEF SessionsInv, HasSession, Initialized, Early, Owner
  <2> QED
    BY <2>1, <2>2
<1> QED
  BY SessionsInvariance, <1>1, PTL

(* AddTopic and RemoveTopic: an exclusive session has every subscription   *)
(* of its connection, although both do nothing before Init.                *)
THEOREM SessionsKnow == Spec => []SessionKnows
<1>1. SessionsInv => SessionKnows
  <2> SUFFICES ASSUME SessionsInv, NEW c \in Conn, session[c] # None,
                      \A d \in Conn : ~Shares(c, d)
               PROVE  subMap[c] \subseteq topics[session[c]]
    BY DEF SessionKnows
  <2>1. session[c] \in Conn /\ Owner(session[c])
    BY DEF SessionsInv, TypeOK, Lent
  <2>2. session[c] = c
    BY <2>1 DEF Shares, Owner
  <2> QED
    BY <2>2 DEF SessionsInv, Recorded, Owner
<1> QED
  BY SessionsInvariance, <1>1, PTL
==============================================================================
