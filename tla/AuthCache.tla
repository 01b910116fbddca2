------------------------------- MODULE AuthCache -------------------------------
(***************************************************************************)
(* The HTTP authoriser and its cache (plugins/auth/authhttp).  Goroutines  *)
(* ask whether a user may connect, publish or subscribe.  The cache holds  *)
(* one positive answer per user name, whatever the question was.           *)
(***************************************************************************)
EXTENDS Integers

CONSTANTS
    Handler,  \* the goroutines that ask
    Action,   \* "connect", and the codes for publishing and subscribing
    User,     \* user names
    Key,      \* a password for "connect", a topic for the other actions
    TTL,      \* how long the cache keeps an answer: 5 minutes
    Timeout,  \* how long the HTTP client waits for one: 100 seconds
    Horizon,  \* ages are counted up to here
    None

ASSUME TimeAssumption ==
    /\ TTL \in Nat /\ Timeout \in Nat
    /\ Horizon \in Nat /\ Horizon > TTL + Timeout

(* What a question and an entry of the cache are compared by.  The client  *)
(* identifier is sent to the authoriser and never compared.                *)
Subject == [action : Action, user : User, key : Key]

ASSUME NoneAssumption == None \notin Subject

VARIABLES
    cache,   \* per user, the subject of its entry, or None
    age,     \* per user, the age of its entry
    pc,      \* per handler, where CheckConnect or CheckACL is
    asked,   \* per handler, the subject of its question
    waited,  \* per handler, how long its request has taken so far
    okAge    \* per subject, the time since the authoriser last said OK
             \* (not in the program)

cacheVars == <<cache, age>>
askVars == <<pc, asked, waited>>
authVars == <<cacheVars, askVars, okAge>>

AuthTypeOK ==
    /\ cache \in [User -> Subject \cup {None}]
    /\ age \in [User -> 0..TTL]
    /\ pc \in [Handler -> {"idle", "sent", "ok", "refused", "yes", "no"}]
    /\ asked \in [Handler -> Subject \cup {None}]
    /\ waited \in [Handler -> 0..Timeout]
    /\ okAge \in [Subject -> 0..Horizon]

AuthInit ==
    /\ cache = [u \in User |-> None]
    /\ age = [u \in User |-> 0]
    /\ pc = [h \in Handler |-> "idle"]
    /\ asked = [h \in Handler |-> None]
    /\ waited = [h \in Handler |-> 0]
    /\ okAge = [q \in Subject |-> Horizon]
-----------------------------------------------------------------------------
(* Faulty: the action is not compared.                                     *)
HitOfKey(q) == cache[q.user] # None /\ cache[q.user].key = q.key

(* checkCache: the entry of the user must be about the same question.      *)
Hit(q) == cache[q.user] = q

Ask(h, q) ==
    /\ pc[h] = "idle"
    /\ pc' = [pc EXCEPT ![h] = IF Hit(q) THEN "yes" ELSE "sent"]
    /\ asked' = [asked EXCEPT ![h] = q]
    /\ waited' = [waited EXCEPT ![h] = 0]
    /\ UNCHANGED <<cacheVars, okAge>>

(* The authoriser decides, by rules that may change from one to the next.  *)
Evaluate(h) ==
    /\ pc[h] = "sent"
    /\ \/ /\ pc' = [pc EXCEPT ![h] = "ok"]
          /\ okAge' = [okAge EXCEPT ![asked[h]] = 0]
       \/ pc' = [pc EXCEPT ![h] = "refused"] /\ UNCHANGED okAge
    /\ UNCHANGED <<cacheVars, asked, waited>>

(* addCache replaces the entry of the user.                                *)
AddCache(q) ==
    /\ cache' = [cache EXCEPT ![q.user] = q]
    /\ age' = [age EXCEPT ![q.user] = 0]

Receive(h) ==
    /\ \/ pc[h] = "ok" /\ pc' = [pc EXCEPT ![h] = "yes"] /\ AddCache(asked[h])
       \/ pc[h] = "refused" /\ pc' = [pc EXCEPT ![h] = "no"] /\ UNCHANGED cacheVars
    /\ UNCHANGED <<asked, waited, okAge>>

Waiting(h) == pc[h] \in {"sent", "ok", "refused"}

(* The authoriser is not reached, or its answer does not come in time.     *)
Fail(h) ==
    /\ Waiting(h)
    /\ pc' = [pc EXCEPT ![h] = "no"]
    /\ UNCHANGED <<cacheVars, asked, waited, okAge>>

Return(h) ==
    /\ pc[h] \in {"yes", "no"}
    /\ pc' = [pc EXCEPT ![h] = "idle"]
    /\ UNCHANGED <<cacheVars, asked, waited, okAge>>

(* An entry older than TTL is not found any more, and no request is        *)
(* waited for longer than Timeout.                                         *)
Tick ==
    /\ \A h \in Handler : Waiting(h) => waited[h] < Timeout
    /\ waited' = [h \in Handler |-> waited[h] + IF Waiting(h) THEN 1 ELSE 0]
    /\ cache' = [u \in User |-> IF age[u] = TTL THEN None ELSE cache[u]]
    /\ age' = [u \in User |-> IF cache[u] = None \/ age[u] = TTL THEN 0 ELSE age[u] + 1]
    /\ okAge' = [q \in Subject |-> IF okAge[q] < Horizon THEN okAge[q] + 1 ELSE Horizon]
    /\ UNCHANGED <<pc, asked>>

AuthNext ==
    \/ \E h \in Handler : \/ \E q \in Subject : Ask(h, q)
                          \/ Evaluate(h) \/ Receive(h) \/ Fail(h) \/ Return(h)
    \/ Tick

AuthSpec == AuthInit /\ [][AuthNext]_authVars
-----------------------------------------------------------------------------
(***************************************************************************)
(* Nobody is told yes on the strength of an answer to another question, or *)
(* of one the authoriser gave longer ago than the cache keeps an answer    *)
(* and a request may take (CheckConnect, CheckACL): requests of several    *)
(* goroutines overlap, and an answer is stored when it is received, which  *)
(* may be after newer ones of the same user.                               *)
(***************************************************************************)
AnswerGrounded ==
    [][\A h \in Handler :
          pc[h] # "yes" /\ pc'[h] = "yes" => okAge[asked'[h]] <= TTL + Timeout]_authVars
=============================================================================
