---------------------------- MODULE TraceChannel ----------------------------
(* The trace channel of one conversation: the WebSockets a user has open on   *)
(* it, in whichever pod of the web server took the upgrade, and the broadcast *)
(* of trace events and answers to all of them, through Redis Pub/Sub where it *)
(* is there and to the sockets of the own pod where it is not.                *)
(*                                                                           *)
(* Source: apps/agentic/server/websocket.ts                                   *)
(*                                                                           *)
(* An event is <<turn, number>>: the messages of a turn are numbered in the   *)
(* order in which they are broadcast. What they say is left out.              *)
EXTENDS Naturals, Sequences, FiniteSets

CONSTANTS
  Pods,             \* processes of the web server
  NoPod,            \* no process
  Sockets,          \* WebSockets of the browser
  Turns,            \* what events belong to
  MaxConnections,   \* MAX_CONNECTIONS_PER_CONVERSATION
  MaxOpens          \* bound: upgrades

ASSUME ChannelAssumption ==
  /\ NoPod \notin Pods
  /\ MaxConnections \in Nat \ {0}
  /\ MaxOpens \in Nat

VARIABLES
  ready,    \* redisReady of each pod
  sub,      \* its subscription to the channel of the conversation; "stuck": one
            \* that a failed unsubscribe has left behind
  conns,    \* connections.get(conversationId) of each pod; {}: no entry
  at,       \* the pod a socket is connected to
  state,    \* the socket's readyState, as far as the pod can tell
  got,      \* what an open socket has been sent of each turn
  late,     \* events of each pod whose publish is about to be reported failed
  deaf,     \* pods whose first listener came without a subscription
  opens

channelVars == <<ready, sub, conns, at, state, got, late, deaf, opens>>

Events == Turns \X Nat
Nothing == [t \in Turns |-> <<>>]

ChannelInit ==
  /\ ready = [p \in Pods |-> FALSE]
  /\ sub = [p \in Pods |-> "none"]
  /\ conns = [p \in Pods |-> {}]
  /\ at = [s \in Sockets |-> NoPod]
  /\ state = [s \in Sockets |-> "closed"]
  /\ got = [s \in Sockets |-> Nothing]
  /\ late = [p \in Pods |-> <<>>]
  /\ deaf = {}
  /\ opens = 0

ChannelTypeOK ==
  /\ ready \in [Pods -> BOOLEAN]
  /\ sub \in [Pods -> {"none", "asked", "active", "stuck"}]
  /\ conns \in [Pods -> SUBSET Sockets]
  /\ at \in [Sockets -> Pods \cup {NoPod}]
  /\ state \in [Sockets -> {"closed", "open", "closing"}]
  /\ got \in [Sockets -> [Turns -> Seq(Nat)]]
  /\ late \in [Pods -> Seq(Events)]
  /\ deaf \subseteq Pods
  /\ opens \in 0..MaxOpens

-----------------------------------------------------------------------------
(* Who listens *)

\* Redis tells the subscriber of a pod that it is ready. Sockets that came
\* earlier are not subscribed for.
RedisReady(p) ==
  /\ ~ready[p]
  /\ ready' = [ready EXCEPT ![p] = TRUE]
  /\ UNCHANGED <<sub, conns, at, state, got, late, deaf, opens>>

\* The first listener of a pod subscribes it to the conversation's channel. To a
\* subscription that was left behind this adds nothing: it carries on.
Subscribe(s, p) ==
  IF conns'[p] = {s}
  THEN IF ready[p]
       THEN /\ sub' = [sub EXCEPT ![p] = IF @ = "stuck" THEN "active" ELSE "asked"]
            /\ deaf' = deaf \ {p}
       ELSE /\ deaf' = deaf \cup {p}
            /\ UNCHANGED sub
  ELSE UNCHANGED <<sub, deaf>>

\* An upgrade that passed the checks of session, scope and ownership.
Open(s, p) ==
  /\ state[s] = "closed"
  /\ opens < MaxOpens
  /\ Cardinality(conns[p]) < MaxConnections
  /\ opens' = opens + 1
  /\ at' = [at EXCEPT ![s] = p]
  /\ state' = [state EXCEPT ![s] = "open"]
  /\ conns' = [conns EXCEPT ![p] = @ \cup {s}]
  /\ Subscribe(s, p)
  /\ UNCHANGED <<ready, got, late>>

\* One connection too many is closed with 1013 and never registered.
Refuse(p) ==
  /\ Cardinality(conns[p]) >= MaxConnections
  /\ UNCHANGED channelVars

\* Redis carries the subscription out.
Subscribed(p) ==
  /\ sub[p] = "asked"
  /\ sub' = [sub EXCEPT ![p] = "active"]
  /\ UNCHANGED <<ready, conns, at, state, got, late, deaf, opens>>

\* subscribe raises; nobody is told.
SubscribeFails(p) ==
  /\ sub[p] = "asked"
  /\ sub' = [sub EXCEPT ![p] = "none"]
  /\ deaf' = deaf \cup {p}
  /\ UNCHANGED <<ready, conns, at, state, got, late, opens>>

\* Faulty variant: whoever leaves takes the subscription with them.
RemoveAndUnsubscribe(s, p, left) ==
  /\ conns' = [conns EXCEPT ![p] = @ \ {s}]
  /\ sub' = [sub EXCEPT ![p] = left]
  /\ deaf' = deaf \ {p}

\* Faulty variant: the subscription outlives the last listener.
RemoveOnly(s, p, left) ==
  /\ conns' = [conns EXCEPT ![p] = @ \ {s}]
  /\ deaf' = IF conns[p] \ {s} = {} THEN deaf \ {p} ELSE deaf
  /\ UNCHANGED sub

\* The last listener to leave takes the subscription along; left is what remains
\* of it.
Remove(s, p, left) ==
  /\ conns' = [conns EXCEPT ![p] = @ \ {s}]
  /\ IF conns[p] \ {s} = {}
     THEN /\ sub' = IF ready[p] THEN [sub EXCEPT ![p] = left] ELSE sub
          /\ deaf' = deaf \ {p}
     ELSE UNCHANGED <<sub, deaf>>

\* The client closes; the pod still has to hear of it.
Leave(s) ==
  /\ state[s] = "open"
  /\ state' = [state EXCEPT ![s] = "closing"]
  /\ got' = [got EXCEPT ![s] = Nothing]
  /\ UNCHANGED <<ready, sub, conns, at, late, deaf, opens>>

\* The heartbeat gives a socket up that has not answered the last ping.
Terminate(s, left) ==
  /\ state[s] # "closed"
  /\ s \in conns[at[s]]
  /\ state' = [state EXCEPT ![s] = "closing"]
  /\ got' = [got EXCEPT ![s] = Nothing]
  /\ Remove(s, at[s], left)
  /\ UNCHANGED <<ready, at, late, opens>>

\* The "close" event: the handler looks the set up again, which may by now be
\* gone or be that of later sockets.
Closed(s, left) ==
  /\ state[s] = "closing"
  /\ state' = [state EXCEPT ![s] = "closed"]
  /\ at' = [at EXCEPT ![s] = NoPod]
  /\ IF conns[at[s]] = {} THEN UNCHANGED <<conns, sub, deaf>> ELSE Remove(s, at[s], left)
  /\ UNCHANGED <<ready, got, late, opens>>

\* The last listener goes and unsubscribe raises: the failure is swallowed and the
\* subscription stays behind.
UnsubscribeFails(s) ==
  /\ state[s] # "closed"
  /\ conns[at[s]] = {s}
  /\ sub[at[s]] # "none"
  /\ Terminate(s, "stuck") \/ Closed(s, "stuck")

-----------------------------------------------------------------------------
(* What they are sent *)

Listening(ps) == {s \in Sockets : state[s] = "open" /\ at[s] \in ps /\ s \in conns[at[s]]}

\* The event e to the sockets of the pods ps.
Send(ps, e) ==
  got' = [s \in Sockets |->
            IF s \in Listening(ps) THEN [got[s] EXCEPT ![e[1]] = Append(@, e[2])] ELSE got[s]]

Subscribers == {p \in Pods : sub[p] = "active"}

\* publish: Redis delivers to every subscribed pod, the own one among them;
\* without Redis the own sockets are served directly.
Publish(p, e) ==
  /\ Send(IF ready[p] THEN Subscribers ELSE {p}, e)
  /\ UNCHANGED late

\* publish is going to be reported failed: the command was lost, or it was
\* carried out and the answer came too late.
PublishFails(p, e) ==
  /\ ready[p]
  /\ \E ps \in {{}, Subscribers} : Send(ps, e)
  /\ late' = [late EXCEPT ![p] = Append(@, e)]

\* The rejected publish falls back to the sockets of the own pod.
FallBack(p) ==
  /\ late[p] # <<>>
  /\ Send({p}, Head(late[p]))
  /\ late' = [late EXCEPT ![p] = Tail(@)]
  /\ UNCHANGED <<ready, sub, conns, at, state, deaf, opens>>

\* The pod dies and another process takes its place.
PodDies(p) ==
  /\ ready' = [ready EXCEPT ![p] = FALSE]
  /\ sub' = [sub EXCEPT ![p] = "none"]
  /\ conns' = [conns EXCEPT ![p] = {}]
  /\ at' = [s \in Sockets |-> IF at[s] = p THEN NoPod ELSE at[s]]
  /\ state' = [s \in Sockets |-> IF at[s] = p THEN "closed" ELSE state[s]]
  /\ late' = [late EXCEPT ![p] = <<>>]
  /\ got' = [s \in Sockets |-> IF at[s] = p THEN Nothing ELSE got[s]]
  /\ deaf' = deaf \ {p}
  /\ UNCHANGED opens

-----------------------------------------------------------------------------

ChannelNext ==
  \/ \E p \in Pods : RedisReady(p) \/ Subscribed(p) \/ FallBack(p) \/ Refuse(p)
  \/ \E s \in Sockets, p \in Pods : Open(s, p)
  \/ \E s \in Sockets : Leave(s) \/ Terminate(s, "none") \/ Closed(s, "none")

\* A pod is subscribed while somebody listens there, unless its first listener
\* came before Redis was ready or the subscription was refused; and only then,
\* unless an unsubscribe failed, whose leftover the next listener takes over:
\* connection handlers, heartbeat and late "close" events of websocket.ts agree
\* on who was the last.
SubscribedWhileListening ==
  \A p \in Pods :
    /\ sub[p] # "none" => ready[p]
    /\ sub[p] \in {"asked", "active"} => conns[p] # {}
    /\ conns[p] # {} => sub[p] # "stuck"
    /\ conns[p] # {} /\ p \notin deaf => sub[p] # "none"
=============================================================================
