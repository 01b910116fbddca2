---------------------------- MODULE ClusterLinks -----------------------------
(***************************************************************************)
(* The links one broker keeps to the others (connectRouter,                *)
(* ConnectToDiscovery, checkNodeExist and CheckRemoteExist in              *)
(* broker/broker.go, ProcessInfo and StartPing in broker/info.go, Close of *)
(* a REMOTE client in broker/client.go).                                   *)
(*                                                                         *)
(* The discovery service sends INFO, the list of brokers; one goroutine    *)
(* handles it and dials those it finds no link to, holding b.mu.  A link   *)
(* that breaks is closed by a worker, by the goroutine that pings it, or   *)
(* by both, and each of them then dials the broker again.  The table       *)
(* b.nodes is written and read without a lock.                             *)
(***************************************************************************)
EXTENDS Integers, FiniteSets

CONSTANTS
    Entry,      \* what INFO can list: [id |-> a broker, url |-> its address]
    Self,       \* this broker's identifier
    Link,       \* the REMOTE clients that exist at once
    Info,       \* the goroutine of processClusterInfo
    MaxRetries, \* connectRouter's limit: 50 in the code
    None        \* no target

ASSUME EntryAssumption ==
    \A e \in Entry : e = [id |-> e.id, url |-> e.url]
ASSUME RetriesAssumption == MaxRetries \in Nat
ASSUME NoneAssumption ==
    None \notin [id : {e.id : e \in Entry}, url : {e.url : e \in Entry}]
ASSUME InfoAssumption == Info \notin Link \X {"worker", "ping"}

VARIABLES
    nodes,    \* the entries of the last INFO (b.nodes)
    todo,     \* the entries ProcessInfo has not come to
    mu,       \* who holds b.mu
    remotes,  \* the links registered (b.remotes)
    route,    \* per link, the broker it was dialled for
    conn,     \* per link: up, broken, or closed by the broker
    at,       \* per goroutine, where it is
    target,   \* per goroutine, the arguments of its connectRouter
    tries,    \* per goroutine, its failed attempts
    gaveUp,   \* the urls whose last dialling ended at the retry limit
    reach,    \* the urls that answer
    waiter    \* a worker that publishes a notification or will under b.mu

infoVars == <<nodes, todo, mu>>
linkVars == <<remotes, route, conn>>
dialVars == <<at, target, tries, gaveUp>>
vars == <<infoVars, linkVars, dialVars, reach, waiter>>

Url == {e.url : e \in Entry}
Id == {e.id : e \in Entry}
Target == [id : Id, url : Url]
Ways == {"worker", "ping"}   \* the two goroutines that close a link
Closer == Link \X Ways
Proc == Closer \cup {Info}
Waiter == "waiter"

TypeOK ==
    /\ nodes \in SUBSET Entry /\ todo \in SUBSET Entry
    /\ mu \in {"free", "info", Waiter}
    /\ remotes \in SUBSET Link
    /\ route \in [Link -> Target \cup {None}]
    /\ conn \in [Link -> {"up", "broken", "closed"}]
    /\ at \in [Proc -> {"idle", "mark", "remove", "check", "dial",
                        "lock", "walk", "redial"}]
    /\ target \in [Proc -> Target \cup {None}]
    /\ tries \in [Proc -> 0..MaxRetries + 1]
    /\ gaveUp \in SUBSET Url /\ reach \in SUBSET Url
    /\ waiter \in {"out", "wait", "hold"}

Init ==
    /\ nodes = {} /\ todo = {} /\ mu = "free"
    /\ remotes = {}
    /\ route = [l \in Link |-> None]
    /\ conn = [l \in Link |-> "closed"]
    /\ at = [p \in Proc |-> "idle"]
    /\ target = [p \in Proc |-> None]
    /\ tries = [p \in Proc |-> 0]
    /\ gaveUp = {} /\ reach = Url /\ waiter = "out"

(***************************************************************************)
(* MaxLinks of the model: a link's name can be used again once it is       *)
(* closed and its closers are done.  Names are kept back for the entries   *)
(* INFO has yet to dial and for the second of two closers.                 *)
(***************************************************************************)
Unused(l) == /\ l \notin remotes /\ conn[l] = "closed"
             /\ \A w \in Ways : at[<<l, w>>] = "idle"

Spare == Cardinality({l \in Link : Unused(l)}) - Cardinality(todo)
           - (IF at[Info] \in {"check", "dial"} THEN 1 ELSE 0)
           - Cardinality({l \in Link : \A w \in Ways :
                                          at[<<l, w>>] # "idle"})
-----------------------------------------------------------------------------
(***************************************************************************)
(* connectRouter, in goroutine p.                                          *)
(***************************************************************************)
Return(p) == /\ at' = [at EXCEPT ![p] = IF p = Info THEN "walk" ELSE "idle"]
             /\ target' = [target EXCEPT ![p] = None]
             /\ tries' = [tries EXCEPT ![p] = 0]

(* checkNodeExist: a listed entry has the identifier or the address.       *)
checkNodeExist(e) ==
    e.id # Self /\ \E n \in nodes : n.id = e.id \/ n.url = e.url

Check(p) ==
    /\ at[p] = "check"
    /\ IF checkNodeExist(target[p])
       THEN at' = [at EXCEPT ![p] = "dial"] /\ UNCHANGED <<target, tries>>
       ELSE Return(p)
    /\ UNCHANGED <<infoVars, linkVars, gaveUp, reach, waiter>>

(* A fresh client is registered, and read and pinged from then on.         *)
Dialled(p) ==
    /\ at[p] = "dial" /\ target[p].url \in reach
    /\ \E l \in Link :
          /\ \/ Unused(l)
             \/ /\ p \in {<<l, "worker">>, <<l, "ping">>} /\ l \notin remotes
                /\ \A w \in Ways :
                      <<l, w>> # p => at[<<l, w>>] = "idle"
          /\ remotes' = remotes \cup {l}
          /\ route' = [route EXCEPT ![l] = target[p]]
          /\ conn' = [conn EXCEPT ![l] = "up"]
    /\ Return(p)
    /\ UNCHANGED <<infoVars, gaveUp, reach, waiter>>

(* Faulty: tries for ever.                                                 *)
DialFailsForever(p) ==
    /\ at[p] = "dial" /\ target[p].url \notin reach
    /\ at' = [at EXCEPT ![p] = "check"]
    /\ UNCHANGED <<infoVars, linkVars, target, tries, gaveUp, reach, waiter>>

(* The limit is tested before the attempt is counted; the back-off that    *)
(* follows is time in which the goroutine keeps what it holds.             *)
DialFails(p) ==
    /\ at[p] = "dial" /\ target[p].url \notin reach
    /\ IF tries[p] > MaxRetries
       THEN /\ gaveUp' = gaveUp \cup {target[p].url}
            /\ Return(p)
       ELSE /\ tries' = [tries EXCEPT ![p] = @ + 1]
            /\ at' = [at EXCEPT ![p] = "check"]
            /\ UNCHANGED <<gaveUp, target>>
    /\ UNCHANGED <<infoVars, linkVars, reach, waiter>>

ConnectRouter(p, e) ==
    /\ at' = [at EXCEPT ![p] = "check"]
    /\ target' = [target EXCEPT ![p] = e]
    /\ tries' = [tries EXCEPT ![p] = 0]
-----------------------------------------------------------------------------
(***************************************************************************)
(* Close of a REMOTE client, by the worker that is given the read error or *)
(* by the ping that cannot be written.                                     *)
(***************************************************************************)
CloseTest(l, w) ==
    /\ at[<<l, w>>] = "idle" /\ conn[l] = "broken"
    /\ (\E v \in Ways : at[<<l, v>>] # "idle") => Spare > 0
    /\ at' = [at EXCEPT ![<<l, w>>] = "mark"]
    /\ UNCHANGED <<infoVars, linkVars, target, tries, gaveUp, reach, waiter>>

(* The status is set without a lock, and the connection closed.            *)
CloseMark(l, w) ==
    /\ at[<<l, w>>] = "mark"
    /\ at' = [at EXCEPT ![<<l, w>>] = "remove"]
    /\ conn' = [conn EXCEPT ![l] = "closed"]
    /\ UNCHANGED <<infoVars, remotes, route, target, tries, gaveUp, reach, waiter>>

(* A closed link's broker is forgotten with the last of its closers.       *)
Forget(l, w) == route' = [route EXCEPT ![l] =
                            IF \E v \in Ways \ {w} : at[<<l, v>>] \in {"mark", "remove"}
                            THEN @ ELSE None]

(* Faulty: does not reconnect; leaves the closed client registered.        *)
CloseForGood(l, w) ==
    /\ at[<<l, w>>] = "remove"
    /\ remotes' = remotes \ {l}
    /\ at' = [at EXCEPT ![<<l, w>>] = "idle"]
    /\ Forget(l, w)
    /\ UNCHANGED <<infoVars, conn, target, tries, gaveUp, reach, waiter>>

CloseKeepsEntry(l, w) ==
    /\ at[<<l, w>>] = "remove"
    /\ ConnectRouter(<<l, w>>, route[l])
    /\ UNCHANGED <<infoVars, linkVars, gaveUp, reach, waiter>>

(* removeClient, then "go b.connectRouter".                                *)
CloseRemove(l, w) ==
    /\ at[<<l, w>>] = "remove"
    /\ remotes' = remotes \ {l}
    /\ ConnectRouter(<<l, w>>, route[l])
    /\ Forget(l, w)
    /\ UNCHANGED <<infoVars, conn, gaveUp, reach, waiter>>
-----------------------------------------------------------------------------
(***************************************************************************)
(* processClusterInfo and ProcessInfo.                                     *)
(***************************************************************************)
IdsDiffer(r) == \A e, f \in r : e.id = f.id => e = f

(* b.nodes is replaced before b.mu is taken and before any link is looked  *)
(* for.                                                                    *)
ReceiveInfo(r) ==
    /\ at[Info] = "idle" /\ IdsDiffer(r) /\ Spare >= Cardinality(r)
    /\ nodes' = r /\ todo' = r
    /\ at' = [at EXCEPT ![Info] = "lock"]
    /\ UNCHANGED <<mu, linkVars, target, tries, gaveUp, reach, waiter>>

Lock ==
    /\ at[Info] = "lock" /\ mu = "free"
    /\ mu' = "info"
    /\ at' = [at EXCEPT ![Info] = "walk"]
    /\ UNCHANGED <<nodes, todo, linkVars, target, tries, gaveUp, reach, waiter>>

(* The next entry of the map: skipped if it is this broker, or if a link   *)
(* to its url is registered (CheckRemoteExist, which renames that link's   *)
(* broker); dialled otherwise.                                             *)
Take(e) == /\ at[Info] = "walk" /\ e \in todo
           /\ todo' = todo \ {e}
           /\ UNCHANGED <<nodes, mu, remotes, conn, reach, waiter>>

VisitSelf(e) == /\ Take(e) /\ e.id = Self
                /\ UNCHANGED <<route, dialVars>>

VisitLinked(e) ==
    /\ Take(e) /\ e.id # Self
    /\ \E l \in remotes :
          /\ route[l].url = e.url
          /\ route' = [route EXCEPT ![l] = e]
    /\ gaveUp' = gaveUp \ {e.url}
    /\ UNCHANGED <<at, target, tries>>

VisitNew(e) ==
    /\ Take(e) /\ e.id # Self
    /\ \A l \in remotes : route[l].url # e.url
    /\ ConnectRouter(Info, e)
    /\ gaveUp' = gaveUp \ {e.url}
    /\ UNCHANGED route

Visit(e) == VisitSelf(e) \/ VisitLinked(e) \/ VisitNew(e)

Unlock ==
    /\ at[Info] = "walk" /\ todo = {}
    /\ mu' = "free"
    /\ at' = [at EXCEPT ![Info] = "idle"]
    /\ UNCHANGED <<nodes, todo, linkVars, target, tries, gaveUp, reach, waiter>>

(* The link to the discovery service is lost: the same goroutine closes it *)
(* and dials again, without a limit, before it can take the next INFO.     *)
DiscoveryLost ==
    /\ at[Info] = "idle"
    /\ at' = [at EXCEPT ![Info] = "redial"]
    /\ UNCHANGED <<infoVars, linkVars, target, tries, gaveUp, reach, waiter>>

ConnectToDiscovery ==
    /\ at[Info] = "redial"
    /\ at' = [at EXCEPT ![Info] = "idle"]
    /\ UNCHANGED <<infoVars, linkVars, target, tries, gaveUp, reach, waiter>>
-----------------------------------------------------------------------------
(***************************************************************************)
(* A worker in PublishMessage, for a notification or a will.               *)
(***************************************************************************)
Want ==
    /\ waiter = "out" /\ waiter' = "wait"
    /\ UNCHANGED <<infoVars, linkVars, dialVars, reach>>

Acquire ==
    /\ waiter = "wait" /\ mu = "free"
    /\ waiter' = "hold" /\ mu' = Waiter
    /\ UNCHANGED <<nodes, todo, linkVars, dialVars, reach>>

Release ==
    /\ waiter = "hold"
    /\ waiter' = "out" /\ mu' = "free"
    /\ UNCHANGED <<nodes, todo, linkVars, dialVars, reach>>

(* The network: brokers stop answering and come back, and the links to one *)
(* that does not answer break.                                             *)
ReachChanges(u) ==
    /\ reach' = IF u \in reach THEN reach \ {u} ELSE reach \cup {u}
    /\ UNCHANGED <<infoVars, linkVars, dialVars, waiter>>

LinkBreaks(l) ==
    /\ conn[l] = "up" /\ route[l].url \notin reach
    /\ conn' = [conn EXCEPT ![l] = "broken"]
    /\ UNCHANGED <<infoVars, remotes, route, dialVars, reach, waiter>>

DialStep(p) == Check(p) \/ Dialled(p) \/ DialFails(p)

CloseStep(l, w) == CloseTest(l, w) \/ CloseMark(l, w) \/ CloseRemove(l, w)

InfoStep == Lock \/ Unlock \/ ConnectToDiscovery \/ \E e \in Entry : Visit(e)

Next == \/ \E p \in Proc : DialStep(p)
        \/ \E l \in Link, w \in Ways : CloseStep(l, w)
        \/ InfoStep \/ \E r \in SUBSET Entry : ReceiveInfo(r)
        \/ DiscoveryLost \/ Want \/ Acquire \/ Release
        \/ \E u \in Url : ReachChanges(u)
        \/ \E l \in Link : LinkBreaks(l)

Spec == Init /\ [][Next]_vars

(* Goroutines that can go on do, a dial ends one way or the other, and a   *)
(* Go mutex does not starve those who wait for it.  The ping is not        *)
(* needed: the worker's read error closes a link.  When INFO comes, and    *)
(* whether brokers answer, is up to others.                                *)
Fairness ==
    /\ \A p \in Proc : WF_vars(DialStep(p))
    /\ \A l \in Link : WF_vars(CloseStep(l, "worker"))
    /\ \A l \in Link : WF_vars(CloseMark(l, "ping") \/ CloseRemove(l, "ping"))
    /\ WF_vars(Unlock \/ ConnectToDiscovery \/ \E e \in Entry : Visit(e))
    /\ SF_vars(Lock) /\ SF_vars(Acquire) /\ WF_vars(Release)

FairSpec == Spec /\ Fairness
-----------------------------------------------------------------------------
LinkedTo(u) == \E l \in remotes : route[l].url = u

DialledBy(p, u) == at[p] \in {"check", "dial"} /\ target[p].url = u

(* No listed broker is forgotten: there is a link to it, or a goroutine is *)
(* about to dial it, or the last one to dial it came to the retry limit.   *)
(* Close removes the link and then looks at b.nodes, ProcessInfo writes    *)
(* b.nodes and then looks for the link, and neither holds a lock against   *)
(* the other.                                                              *)
NoNodeForgotten ==
    \A e \in nodes \ todo :
       e.id # Self => \/ LinkedTo(e.url) \/ e.url \in gaveUp
                      \/ \E p \in Proc : DialledBy(p, e.url)

(* Whoever waits for b.mu to publish a notification or a will gets it,     *)
(* although ProcessInfo dials one unreachable broker after the other while *)
(* it holds it.                                                            *)
WaiterServed == (waiter = "wait") ~> (waiter = "hold")

Listed(u) == \E e \in nodes : e.url = u /\ e.id # Self

Up(u) == \E l \in remotes : route[l].url = u /\ conn[l] = "up"

(* A broker that stays listed and answers is linked in the end, and stays  *)
(* linked, if INFO keeps coming: also when a goroutine dialling it gave up *)
(* before, and when its link was found registered but already broken.      *)
LinkedInTheEnd ==
    \A u \in Url :
       (<>[](u \in reach /\ Listed(u)) /\ []<>(at[Info] = "walk")) => <>[]Up(u)
=============================================================================
