------------------------------ MODULE Sessions -------------------------------
(***************************************************************************)
(* Sessions and the client registry (broker/sesson.go, broker/lib/sessions,*)
(* the end of Broker.handleConnection): which session a CONNECT gets, what *)
(* SUBSCRIBE and UNSUBSCRIBE write to it, and which connections a new one  *)
(* replaces.                                                               *)
(*                                                                         *)
(* Handlers run concurrently.  The store and every session have a lock, so *)
(* each call of a method is a step; nothing holds between two calls.  A    *)
(* session is named by the connection whose handler created it.  Update    *)
(* keeps the CONNECT packet in the session, where nothing reads it.        *)
(***************************************************************************)
CONSTANTS
    Conn,       \* connections, each with the goroutine that handles it
    Id,         \* client identifiers
    Anonymous,  \* the empty client identifier
    Filter,     \* topic filters
    None

ASSUME IdAssumption == Anonymous \notin Id /\ None \notin Conn

VARIABLES
    at,         \* per connection, where its handler is
    id,         \* per connection, the ClientIdentifier of its CONNECT
    clean,      \* per connection, CleanSession as getSession sees it
    session,    \* per connection, the client's session field
    st,         \* the provider's map, for the identifiers clients choose
    initted,    \* the sessions Init was called on
    topics,     \* per session, the topics it keeps
    subMap,     \* per connection, the topics subscribed to
    clients,    \* the broker's registry, by identifier
    up          \* the connections with status Connected

sessVars == <<session, st, initted, topics>>
connVars == <<id, clean>>
regVars == <<clients, up>>
vars == <<at, id, clean, session, st, initted, topics, subMap, clients, up>>

Key == Id \cup {Anonymous}

TypeOK ==
    /\ at \in [Conn -> {"new", "get", "alloc", "init", "load", "store",
                        "serve", "gone"}]
    /\ id \in [Conn -> Key]
    /\ clean \in [Conn -> BOOLEAN]
    /\ session \in [Conn -> Conn \cup {None}]
    /\ st \in [Id -> Conn \cup {None}]
    /\ initted \in SUBSET Conn
    /\ topics \in [Conn -> SUBSET Filter]
    /\ subMap \in [Conn -> SUBSET Filter]
    /\ clients \in [Key -> Conn \cup {None}]
    /\ up \in SUBSET Conn

Init ==
    /\ at = [c \in Conn |-> "new"]
    /\ id = [c \in Conn |-> Anonymous]
    /\ clean = [c \in Conn |-> TRUE]
    /\ session = [c \in Conn |-> None]
    /\ st = [i \in Id |-> None]
    /\ initted = {}
    /\ topics = [c \in Conn |-> {}]
    /\ subMap = [c \in Conn |-> {}]
    /\ clients = [i \in Key |-> None]
    /\ up = {}

Goto(c, place) == at' = [at EXCEPT ![c] = place]
-----------------------------------------------------------------------------
(* The CONNECT is accepted: an empty identifier comes with CleanSession,   *)
(* or Validate would have refused it.                                      *)
Connect(c, i, cs) ==
    /\ at[c] = "new"
    /\ i = Anonymous => cs
    /\ Goto(c, IF cs THEN "alloc" ELSE "get")
    /\ id' = [id EXCEPT ![c] = i]
    /\ clean' = [clean EXCEPT ![c] = cs]
    /\ up' = up \cup {c}
    /\ UNCHANGED <<sessVars, subMap, clients>>

(* Manager.Get, and Session.Update of the session found.                   *)
Get(c) ==
    /\ at[c] = "get"
    /\ IF st[id[c]] = None
       THEN Goto(c, "alloc") /\ UNCHANGED session
       ELSE Goto(c, "load") /\ session' = [session EXCEPT ![c] = st[id[c]]]
    /\ UNCHANGED <<connVars, st, initted, topics, subMap, regVars>>

(* Faulty: New returns the session it finds in the map.                    *)
NewOrOld(c) ==
    /\ at[c] = "alloc"
    /\ LET old == IF id[c] \in Id THEN st[id[c]] ELSE None IN
       /\ session' = [session EXCEPT ![c] = IF old = None THEN c ELSE old]
       /\ st' = [i \in Id |-> IF i = id[c] /\ old = None THEN c ELSE st[i]]
    /\ Goto(c, "init")
    /\ UNCHANGED <<connVars, initted, topics, subMap, regVars>>

(* Manager.New puts a new session in the map in place of the old one; for  *)
(* an empty identifier, under a random key nobody else asks for.           *)
New(c) ==
    /\ at[c] = "alloc"
    /\ session' = [session EXCEPT ![c] = c]
    /\ st' = [i \in Id |-> IF i = id[c] THEN c ELSE st[i]]
    /\ Goto(c, "init")
    /\ UNCHANGED <<connVars, initted, topics, subMap, regVars>>

(* Faulty: returns before it has set initted.                              *)
SessionInitHalf(c) ==
    /\ at[c] = "init"
    /\ topics' = [topics EXCEPT ![session[c]] = {}]
    /\ Goto(c, "load")
    /\ UNCHANGED <<connVars, session, st, initted, subMap, regVars>>

(* Session.Init; the handler ends if the session is initialized already.   *)
SessionInit(c) ==
    /\ at[c] = "init"
    /\ IF session[c] \in initted
       THEN Goto(c, "gone") /\ UNCHANGED <<initted, topics>>
       ELSE /\ initted' = initted \cup {session[c]}
            /\ topics' = [topics EXCEPT ![session[c]] = {}]
            /\ Goto(c, "load")
    /\ UNCHANGED <<connVars, session, st, subMap, regVars>>
-----------------------------------------------------------------------------
(* Close removes the identifier's entry and takes the subscriptions out of *)
(* the topic tree; the subMap itself stays.                                *)
Closed(c) == /\ up' = up \ {c}
             /\ clients' = [clients EXCEPT ![id[c]] = None]

(* Look the identifier up and close the connection found.                  *)
Load(c) ==
    /\ at[c] = "load"
    /\ Goto(c, "store")
    /\ LET old == clients[id[c]] IN
       IF old # None /\ old \in up THEN Closed(old) ELSE UNCHANGED regVars
    /\ UNCHANGED <<connVars, sessVars, subMap>>

Store(c) ==
    /\ at[c] = "store"
    /\ Goto(c, "serve")
    /\ clients' = [clients EXCEPT ![id[c]] = c]
    /\ UNCHANGED <<connVars, sessVars, subMap, up>>

(* The client disconnects or is lost.                                      *)
End(c) ==
    /\ at[c] = "serve"
    /\ Goto(c, "gone")
    /\ IF c \in up THEN Closed(c) ELSE UNCHANGED regVars
    /\ UNCHANGED <<connVars, sessVars, subMap>>
-----------------------------------------------------------------------------
Serving(c) == at[c] = "serve" /\ c \in up

(* AddTopic is an error, which the caller ignores, before Init.            *)
Subscribe(c, f) ==
    /\ Serving(c)
    /\ subMap' = [subMap EXCEPT ![c] = @ \cup {f}]
    /\ topics' = IF session[c] \in initted
                 THEN [topics EXCEPT ![session[c]] = @ \cup {f}]
                 ELSE topics
    /\ UNCHANGED <<at, connVars, session, st, initted, regVars>>

(* A SUBSCRIBE the topic tree refuses, for its QoS, has taken the former   *)
(* subscription to the filter out by then.                                 *)
SubscribeRefused(c, f) ==
    /\ Serving(c)
    /\ subMap' = [subMap EXCEPT ![c] = @ \ {f}]
    /\ UNCHANGED <<at, connVars, sessVars, regVars>>

(* Faulty: the subMap keeps the subscription.                              *)
UnsubscribeSessionOnly(c, f) ==
    /\ Serving(c) /\ f \in subMap[c]
    /\ topics' = [topics EXCEPT ![session[c]] = @ \ {f}]
    /\ UNCHANGED <<at, connVars, session, st, initted, subMap, regVars>>

(* RemoveTopic, like AddTopic, does nothing before Init.                   *)
Unsubscribe(c, f) ==
    /\ Serving(c) /\ f \in subMap[c]
    /\ subMap' = [subMap EXCEPT ![c] = @ \ {f}]
    /\ topics' = IF session[c] \in initted
                 THEN [topics EXCEPT ![session[c]] = @ \ {f}]
                 ELSE topics
    /\ UNCHANGED <<at, connVars, session, st, initted, regVars>>

(* Every connection has come and gone: the model, not the broker, stops.   *)
Stopped == /\ \A c \in Conn : at[c] = "gone"
           /\ UNCHANGED vars

Next == \/ \E c \in Conn :
              \/ \E i \in Key, cs \in BOOLEAN : Connect(c, i, cs)
              \/ Get(c) \/ New(c) \/ SessionInit(c)
              \/ Load(c) \/ Store(c) \/ End(c)
              \/ \E f \in Filter : \/ Subscribe(c, f) \/ SubscribeRefused(c, f)
                                   \/ Unsubscribe(c, f)
        \/ Stopped

Spec == Init /\ [][Next]_vars
-----------------------------------------------------------------------------
Shares(c, d) == c # d /\ session[c] # None /\ session[c] = session[d]

(* A session is shared only within an identifier, and never by two         *)
(* connections that both asked for a new one: whatever the handlers'       *)
(* interleaving, New gives each its own.                                   *)
OwnSession ==
    \A c, d \in Conn :
       Shares(c, d) => id[c] = id[d] /\ id[c] # Anonymous /\ ~(clean[c] /\ clean[d])

(* A connection is served on a session that is not initialized only while  *)
(* the handler that created it is between New and Init, so no session      *)
(* stays unusable, and no handler fails on an initialized one.             *)
SessionSettles ==
    \A c \in Conn :
       /\ session[c] # None /\ session[c] \notin initted => at[session[c]] = "init"
       /\ at[c] = "init" => session[c] \notin initted

(* What a connection has subscribed to, its session knows, as long as the  *)
(* session is its own: Init is over before the first packet is handled.    *)
SessionKnows ==
    \A c \in Conn : session[c] # None /\ (\A d \in Conn : ~Shares(c, d))
                    => subMap[c] \subseteq topics[session[c]]
=============================================================================
