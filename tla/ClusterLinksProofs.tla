-------------------------- MODULE ClusterLinksProofs --------------------------
(***************************************************************************)
(* Proofs about ClusterLinks, for any brokers, links and retry limit.      *)
(***************************************************************************)
EXTENDS ClusterLinks, TLAPS

(* Whoever uses the arguments of connectRouter finds them set: a link that *)
(* is registered, open or being closed knows its broker, and a goroutine   *)
(* that dials knows whom.                                                  *)
Bound ==
    /\ \A l \in remotes : route[l] # None
    /\ \A l \in Link : conn[l] # "closed" => route[l] # None
    /\ \A l \in Link, w \in Ways :
          /\ at[<<l, w>>] \in {"mark", "remove"} => route[l] # None
          /\ at[<<l, w>>] = "remove" => conn[l] = "closed"
    /\ \A p \in Proc : at[p] \in {"check", "dial"} => target[p] # None

(* The broker never dials itself, so checkNodeExist fails only for a       *)
(* broker whose address is not listed.                                     *)
NotSelf ==
    /\ \A l \in Link : route[l] # None => route[l].id # Self
    /\ \A p \in Proc : target[p] # None => target[p].id # Self

(* The inductive invariant.                                                *)
IInv == TypeOK /\ Bound /\ NotSelf /\ NoNodeForgotten

(* Entries are targets of connectRouter, and None is not.                  *)
LEMMA EntryIsTarget ==
    \A e \in Entry : /\ e \in Target /\ e # None
                     /\ [id |-> e.id, url |-> e.url] \in Target
                     /\ [id |-> e.id, url |-> e.url] # None
                     /\ e.url \in Url
BY EntryAssumption, NoneAssumption DEF Target, Id, Url

(* Closers are goroutines, and the goroutine of INFO is not one of them.   *)
LEMMA ProcKinds ==
    /\ Info \in Proc
    /\ \A l \in Link, w \in Ways : <<l, w>> \in Proc /\ <<l, w>> # Info
BY InfoAssumption DEF Proc, Closer, Ways

-----------------------------------------------------------------------------
(* Type correctness: the failed attempts stay within the limit, and what   *)
(* Close and ProcessInfo hand to connectRouter are brokers.                *)
LEMMA TypeStep == TypeOK /\ Bound /\ [Next]_vars => TypeOK'
<1> SUFFICES ASSUME TypeOK, Bound, [Next]_vars PROVE TypeOK'
    OBVIOUS
<1> USE EntryIsTarget, ProcKinds DEF TypeOK
<1> DEFINE Q == TypeOK'
<1>1. ASSUME NEW p \in Proc, Check(p) PROVE Q
    BY <1>1, RetriesAssumption DEF Check, Return, infoVars, linkVars
<1>2. ASSUME NEW p \in Proc, Dialled(p) PROVE Q
    BY <1>2, RetriesAssumption DEF Dialled, Return, infoVars
<1>3. ASSUME NEW p \in Proc, DialFails(p) PROVE Q
    <2>1. target[p] # None BY <1>3 DEF DialFails, Bound
    <2>2. target[p].url \in Url BY <2>1 DEF Target
    <2> QED BY <1>3, <2>2, RetriesAssumption DEF DialFails, Return, infoVars, linkVars
<1>4. ASSUME NEW l \in Link, NEW w \in Ways, CloseStep(l, w) PROVE Q
    <2>1. CASE CloseTest(l, w) BY <2>1 DEF CloseTest, infoVars, linkVars
    <2>2. CASE CloseMark(l, w) BY <2>2 DEF CloseMark, infoVars
    <2>3. CASE CloseRemove(l, w)
        BY <2>3, RetriesAssumption DEF CloseRemove, ConnectRouter, Forget, infoVars
    <2> QED BY <1>4, <2>1, <2>2, <2>3 DEF CloseStep
<1>5. ASSUME Lock \/ Unlock \/ ConnectToDiscovery \/ DiscoveryLost PROVE Q
    BY <1>5 DEF Lock, Unlock, ConnectToDiscovery, DiscoveryLost, infoVars, linkVars
<1>6. ASSUME NEW e \in Entry, Visit(e) PROVE Q
    <2>1. CASE VisitSelf(e)
        BY <2>1 DEF VisitSelf, Take, dialVars
    <2>2. CASE VisitLinked(e)
        BY <2>2 DEF VisitLinked, Take
    <2>3. CASE VisitNew(e)
        <3>1. e \in Target /\ Info \in Proc
            OBVIOUS
        <3>2. 0 \in 0..MaxRetries + 1
            BY RetriesAssumption
        <3>3. ConnectRouter(Info, e) /\ Take(e) BY <2>3 DEF VisitNew
        <3>4. /\ at' \in [Proc -> {"idle", "mark", "remove", "check", "dial",
                                   "lock", "walk", "redial"}]
              /\ target' \in [Proc -> Target \cup {None}]
              /\ tries' \in [Proc -> 0..MaxRetries + 1]
            BY <3>1, <3>2, <3>3 DEF ConnectRouter
        <3> QED BY <2>3, <3>4 DEF VisitNew, Take
    <2> QED BY <1>6, <2>1, <2>2, <2>3 DEF Visit
<1>7. ASSUME NEW r \in SUBSET Entry, ReceiveInfo(r) PROVE Q
    BY <1>7 DEF ReceiveInfo, linkVars
<1>8. ASSUME Want \/ Acquire \/ Release PROVE Q
    BY <1>8 DEF Want, Acquire, Release, infoVars, linkVars, dialVars
<1>9. ASSUME NEW u \in Url, ReachChanges(u) PROVE Q
    BY <1>9 DEF ReachChanges, infoVars, linkVars, dialVars
<1>10. ASSUME NEW l \in Link, LinkBreaks(l) PROVE Q
    BY <1>10 DEF LinkBreaks, infoVars, dialVars
<1>11. ASSUME UNCHANGED vars PROVE Q
    BY <1>11 DEF vars, infoVars, linkVars, dialVars
<1> HIDE DEF Q
<1> Q
    BY <1>1, <1>2, <1>3, <1>4, <1>5, <1>6, <1>7, <1>8, <1>9, <1>10, <1>11
    DEF Next, DialStep, InfoStep
<1> QED BY DEF Q
-----------------------------------------------------------------------------
(* Whoever uses the arguments of connectRouter still finds them set, and   *)
(* never this broker.                                                      *)
LEMMA BoundStep ==
    TypeOK /\ TypeOK' /\ Bound /\ NotSelf /\ [Next]_vars => Bound' /\ NotSelf'
<1> SUFFICES ASSUME TypeOK, TypeOK', Bound, NotSelf, [Next]_vars
             PROVE  Bound' /\ NotSelf'
    OBVIOUS
<1> USE EntryIsTarget, ProcKinds DEF TypeOK, Bound, NotSelf
<1> DEFINE Q == Bound' /\ NotSelf'
<1>1. ASSUME NEW p \in Proc, Check(p) PROVE Q
    BY <1>1 DEF Check, Return, infoVars, linkVars
<1>2. ASSUME NEW p \in Proc, Dialled(p) PROVE Q
    BY <1>2 DEF Dialled, Return, infoVars, Unused, Ways
<1>3. ASSUME NEW p \in Proc, DialFails(p) PROVE Q
    BY <1>3 DEF DialFails, Return, infoVars, linkVars
<1>4. ASSUME NEW l \in Link, NEW w \in Ways, CloseStep(l, w) PROVE Q
    <2>1. CASE CloseTest(l, w) BY <2>1 DEF CloseTest, infoVars, linkVars
    <2>2. CASE CloseMark(l, w) BY <2>2 DEF CloseMark, infoVars
    <2>3. CASE CloseRemove(l, w)
        BY <2>3, SMTT(30) DEF CloseRemove, ConnectRouter, Forget, infoVars
    <2> QED BY <1>4, <2>1, <2>2, <2>3 DEF CloseStep
<1>5. ASSUME Lock \/ Unlock \/ ConnectToDiscovery \/ DiscoveryLost PROVE Q
    BY <1>5 DEF Lock, Unlock, ConnectToDiscovery, DiscoveryLost, infoVars, linkVars
<1>6. ASSUME NEW e \in Entry, Visit(e) PROVE Q
    <2>1. CASE VisitSelf(e) BY <2>1 DEF VisitSelf, Take, dialVars
    <2>2. CASE VisitLinked(e) BY <2>2 DEF VisitLinked, Take
    <2>3. CASE VisitNew(e) BY <2>3 DEF VisitNew, Take, ConnectRouter
    <2> QED BY <1>6, <2>1, <2>2, <2>3 DEF Visit
<1>7. ASSUME NEW r \in SUBSET Entry, ReceiveInfo(r) PROVE Q
    BY <1>7 DEF ReceiveInfo, linkVars
<1>8. ASSUME Want \/ Acquire \/ Release PROVE Q
    BY <1>8 DEF Want, Acquire, Release, infoVars, linkVars, dialVars
<1>9. ASSUME NEW u \in Url, ReachChanges(u) PROVE Q
    BY <1>9 DEF ReachChanges, infoVars, linkVars, dialVars
<1>10. ASSUME NEW l \in Link, LinkBreaks(l) PROVE Q
    BY <1>10 DEF LinkBreaks, infoVars, dialVars
<1>11. ASSUME UNCHANGED vars PROVE Q
    BY <1>11 DEF vars, infoVars, linkVars, dialVars
<1> HIDE DEF Q
<1> Q
    BY <1>1, <1>2, <1>3, <1>4, <1>5, <1>6, <1>7, <1>8, <1>9, <1>10, <1>11
    DEF Next, DialStep, InfoStep
<1> QED BY DEF Q
-----------------------------------------------------------------------------
Covered(u) == \/ LinkedTo(u) \/ u \in gaveUp
              \/ \E p \in Proc : DialledBy(p, u)

(* A broker that is linked, being dialled or given up stays so while it is *)
(* listed: who removes a link goes on to dial, and a dial that ends leaves *)
(* a link or the broker given up.                                          *)
LEMMA CoveredStep ==
    ASSUME TypeOK, Bound, NotSelf, [Next]_vars,
           NEW f \in nodes, f.id # Self, Covered(f.url)
    PROVE  Covered(f.url)'
<1> USE EntryIsTarget, ProcKinds DEF TypeOK, Covered, LinkedTo, DialledBy
<1> DEFINE Q == Covered(f.url)'
<1>1. ASSUME NEW p \in Proc, Check(p) PROVE Q
    <2>1. at[p] = "check" /\ target[p] # None /\ target[p].id # Self
        BY <1>1 DEF Check, Bound, NotSelf
    <2>2. target[p].url = f.url => checkNodeExist(target[p])
        BY <2>1 DEF checkNodeExist
    <2> QED BY <1>1, <2>1, <2>2 DEF Check, Return, linkVars
<1>2. ASSUME NEW p \in Proc, Dialled(p) PROVE Q
    <2>1. PICK l \in Link : /\ l \notin remotes /\ remotes' = remotes \cup {l}
                            /\ route' = [route EXCEPT ![l] = target[p]]
        BY <1>2 DEF Dialled, Unused
    <2>2. CASE LinkedTo(f.url) BY <2>1, <2>2
    <2>3. CASE DialledBy(p, f.url) BY <2>1, <2>3
    <2>4. CASE \E q \in Proc \ {p} : DialledBy(q, f.url)
        BY <1>2, <2>4 DEF Dialled, Return
    <2>5. CASE f.url \in gaveUp BY <1>2, <2>5 DEF Dialled
    <2> QED BY <2>2, <2>3, <2>4, <2>5
<1>3. ASSUME NEW p \in Proc, DialFails(p) PROVE Q
    BY <1>3 DEF DialFails, Return, linkVars
<1>4. ASSUME NEW l \in Link, NEW w \in Ways, CloseStep(l, w) PROVE Q
    <2>1. CASE CloseTest(l, w) BY <2>1 DEF CloseTest, linkVars
    <2>2. CASE CloseMark(l, w) BY <2>2 DEF CloseMark
    <2>3. CASE CloseRemove(l, w)
        <3>1. /\ remotes' = remotes \ {l} /\ gaveUp' = gaveUp
              /\ at' = [at EXCEPT ![<<l, w>>] = "check"]
              /\ target' = [target EXCEPT ![<<l, w>>] = route[l]]
              /\ at[<<l, w>>] = "remove"
              /\ \A k \in Link : k # l => route'[k] = route[k]
            BY <2>3 DEF CloseRemove, ConnectRouter, Forget
        <3>2. CASE l \in remotes /\ route[l].url = f.url
            <4>1. DialledBy(<<l, w>>, f.url)' BY <3>1, <3>2
            <4> QED BY <4>1
        <3>3. CASE \E k \in remotes : k # l /\ route[k].url = f.url
            BY <3>1, <3>3
        <3>4. CASE f.url \in gaveUp \/ \E p \in Proc : DialledBy(p, f.url)
            BY <3>1, <3>4
        <3> QED BY <3>2, <3>3, <3>4
    <2> QED BY <1>4, <2>1, <2>2, <2>3 DEF CloseStep
<1>5. ASSUME Lock \/ Unlock \/ ConnectToDiscovery \/ DiscoveryLost PROVE Q
    BY <1>5 DEF Lock, Unlock, ConnectToDiscovery, DiscoveryLost, linkVars
<1>6. ASSUME NEW e \in Entry, Visit(e) PROVE Q
    <2>1. CASE VisitSelf(e) BY <2>1 DEF VisitSelf, Take, dialVars
    <2>2. CASE VisitLinked(e) BY <2>2 DEF VisitLinked, Take, Bound
    <2>3. CASE VisitNew(e) BY <2>3 DEF VisitNew, Take, ConnectRouter
    <2> QED BY <1>6, <2>1, <2>2, <2>3 DEF Visit
<1>7. ASSUME NEW r \in SUBSET Entry, ReceiveInfo(r) PROVE Q
    BY <1>7 DEF ReceiveInfo, linkVars
<1>8. ASSUME Want \/ Acquire \/ Release PROVE Q
    BY <1>8 DEF Want, Acquire, Release, linkVars, dialVars
<1>9. ASSUME NEW u \in Url, ReachChanges(u) PROVE Q
    BY <1>9 DEF ReachChanges, linkVars, dialVars
<1>10. ASSUME NEW l \in Link, LinkBreaks(l) PROVE Q
    BY <1>10 DEF LinkBreaks, dialVars
<1>11. ASSUME UNCHANGED vars PROVE Q
    BY <1>11 DEF vars, linkVars, dialVars
<1> HIDE DEF Q
<1> Q
    BY <1>1, <1>2, <1>3, <1>4, <1>5, <1>6, <1>7, <1>8, <1>9, <1>10, <1>11
    DEF Next, DialStep, InfoStep
<1> QED BY DEF Q

(* The entry ProcessInfo takes up is linked or being dialled afterwards.   *)
LEMMA VisitCovers ==
    ASSUME TypeOK, NEW e \in Entry, Visit(e), e.id # Self
    PROVE  Covered(e.url)'
<1> USE EntryIsTarget, ProcKinds DEF TypeOK, Covered, LinkedTo, DialledBy
<1>1. CASE VisitLinked(e) BY <1>1 DEF VisitLinked, Take
<1>2. CASE VisitNew(e)
    <2>1. DialledBy(Info, e.url)' BY <1>2 DEF VisitNew, ConnectRouter
    <2> QED BY <2>1
<1> QED BY <1>1, <1>2 DEF Visit, VisitSelf

LEMMA ForgottenStep ==
    TypeOK /\ Bound /\ NotSelf /\ NoNodeForgotten /\ [Next]_vars
       => NoNodeForgotten'
<1> SUFFICES ASSUME TypeOK, Bound, NotSelf, NoNodeForgotten, [Next]_vars,
                    NEW f \in Entry, f \in nodes', f \notin todo', f.id # Self
             PROVE  Covered(f.url)'
    BY TypeStep DEF NoNodeForgotten, Covered, TypeOK
<1>1. /\ nodes' \subseteq todo' \/ nodes' = nodes
      /\ f \notin todo' /\ f \in todo => Visit(f)
    BY DEF Next, vars, DialStep, CloseStep, InfoStep, Check, Dialled, DialFails,
           CloseTest, CloseMark, CloseRemove, Lock, Unlock, ConnectToDiscovery,
           DiscoveryLost, ReceiveInfo, Visit, VisitSelf, VisitLinked, VisitNew,
           Take, Want, Acquire, Release, ReachChanges, LinkBreaks, infoVars
<1>2. CASE f \in todo BY <1>1, <1>2, VisitCovers
<1>3. CASE f \in nodes \ todo
    BY <1>3, CoveredStep DEF NoNodeForgotten, Covered
<1> QED BY <1>1, <1>2, <1>3
-----------------------------------------------------------------------------
(* In every reachable state, whatever the brokers, the number of links and *)
(* the retry limit, the goroutines that dial do what they are meant to and *)
(* no listed broker is forgotten.                                          *)
LEMMA Inductive == Spec => []IInv
<1>1. Init => IInv
    BY RetriesAssumption, EntryIsTarget, ProcKinds
    DEF Init, IInv, TypeOK, Bound, NotSelf, NoNodeForgotten, Waiter
<1>2. IInv /\ [Next]_vars => IInv'
    BY TypeStep, BoundStep, ForgottenStep DEF IInv
<1> QED BY <1>1, <1>2, PTL DEF Spec

(* TypeOK: a dial is never tried more often than the limit allows, and the *)
(* links and goroutines keep their types.                                  *)
THEOREM TypeCorrect == Spec => []TypeOK
<1>1. IInv => TypeOK BY DEF IInv
<1> QED BY <1>1, Inductive, PTL

(* NoNodeForgotten: b.nodes and b.remotes are used by ProcessInfo and by   *)
(* Close in opposite orders and without a common lock, and yet no listed   *)
(* broker is left without a link, a dialler or a dialler that gave up.     *)
THEOREM NoneForgotten == Spec => []NoNodeForgotten
<1>1. IInv => NoNodeForgotten BY DEF IInv
<1> QED BY <1>1, Inductive, PTL
=============================================================================
