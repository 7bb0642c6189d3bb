----------------------------- MODULE IngestQueue -----------------------------
(***************************************************************************)
(* Queue mode of the ingestion service (PUBSUB_ENABLED): POST              *)
(* /v1/ingest/* creates a job record, the ticket the client polls, and     *)
(* publishes a message; a subscriber hands the message to                  *)
(* worker.process_message, which starts a pipeline job of its own.         *)
(*                                                                         *)
(* The API process publishes to Pub/Sub, or to an asyncio.Queue of its own *)
(* when there is no project or the publisher cannot be set up; in the      *)
(* latter case it starts a subscriber too, of a kind that is chosen        *)
(* separately.  Pub/Sub delivers at least once, to any worker pod.         *)
(* What a pipeline job does is IngestionJobs; the tenant slot that         *)
(* process_message takes is ConcurrencyLimiter.                            *)
(***************************************************************************)
EXTENDS Naturals, Sequences, FiniteSets, Functions

CONSTANTS
  Messages,      \* accepted POST requests, one message each
  MaxQueue,      \* maxsize of the shared asyncio.Queue
  MaxDeliveries, \* PUBSUB_MAX_DELIVERY_ATTEMPTS of the subscription
  MaxCrashes,    \* bound: deaths of the API process
  None           \* no message

ASSUME QueueAssumption ==
  /\ MaxQueue \in Nat \ {0}
  /\ MaxDeliveries \in Nat \ {0}
  /\ MaxCrashes \in Nat
  /\ None \notin Messages

Kinds == {"memory", "pubsub"}

VARIABLES
  up,         \* the API process runs
  pub,        \* the kind of its publisher
  sub,        \* the kind of its subscriber, if the publisher is in memory
  post,       \* message -> its POST: "idle", "publishing", "answered", "error"
  ticket,     \* message -> status of the job record the client polls
  line,       \* the asyncio.Queue
  loop,       \* _pull_loop: "get", "acquire", "ingest" or "release"
  hand,       \* the message _pull_loop is working on
  topic,      \* messages the Pub/Sub subscription holds
  leased,     \* those of them delivered to a callback that has not answered
  attempts,   \* message -> deliveries
  dead,       \* messages in the dead-letter topic
  lost,       \* messages of the asyncio.Queue that nobody will work on
  started,    \* message -> pipeline jobs started for it
  work,       \* message -> the latest of them: "none", "open", "completed", "failed"
  crashes

apiVars == <<up, pub, sub, crashes>>
loopVars == <<line, loop, hand, lost>>
topicVars == <<topic, leased, attempts, dead>>
vars == <<apiVars, post, ticket, loopVars, topicVars, started, work>>

Init ==
  /\ up = TRUE
  /\ pub \in Kinds
  /\ sub \in Kinds
  /\ post = [m \in Messages |-> "idle"]
  /\ ticket = [m \in Messages |-> "none"]
  /\ line = <<>>
  /\ loop = "get"
  /\ hand = None
  /\ topic = {}
  /\ leased = {}
  /\ attempts = [m \in Messages |-> 0]
  /\ dead = {}
  /\ lost = {}
  /\ started = [m \in Messages |-> 0]
  /\ work = [m \in Messages |-> "none"]
  /\ crashes = 0

-----------------------------------------------------------------------------
(* The POST request *)

\* The job record is created first; a save that Redis refuses goes unnoticed.
CreateTicket(m) ==
  /\ up
  /\ post[m] = "idle"
  /\ post' = [post EXCEPT ![m] = "publishing"]
  /\ \/ ticket' = [ticket EXCEPT ![m] = "queued"]
     \/ UNCHANGED ticket
  /\ UNCHANGED <<apiVars, loopVars, topicVars, started, work>>

Answer(m, outcome) == post' = [post EXCEPT ![m] = outcome]

\* Faulty: a full queue drops the message instead of making the request wait.
PublishToLineOrDrop(m) ==
  /\ up /\ pub = "memory"
  /\ post[m] = "publishing"
  /\ line' = IF Len(line) < MaxQueue THEN Append(line, m) ELSE line
  /\ Answer(m, "answered")
  /\ UNCHANGED <<apiVars, ticket, loop, hand, lost, topicVars, started, work>>

\* InMemoryPublisher.publish: put waits until the queue has room.
PublishToLine(m) ==
  /\ up /\ pub = "memory"
  /\ post[m] = "publishing"
  /\ Len(line) < MaxQueue
  /\ line' = Append(line, m)
  /\ Answer(m, "answered")
  /\ UNCHANGED <<apiVars, ticket, loop, hand, lost, topicVars, started, work>>

\* PubSubPublisher.publish; when the result does not arrive within 30 s the
\* request fails, whether the message is published or not.
PublishToTopic(m) ==
  /\ up /\ pub = "pubsub"
  /\ post[m] = "publishing"
  /\ \/ topic' = topic \cup {m} /\ Answer(m, "answered")
     \/ topic' = topic \cup {m} /\ Answer(m, "error")
     \/ UNCHANGED topic /\ Answer(m, "error")
  /\ UNCHANGED <<apiVars, ticket, loopVars, leased, attempts, dead, started, work>>

\* No task and no handler ever moves the ticket; half an hour later a poll
\* finds it stale.
ExpireTicket(m) ==
  /\ ticket[m] = "queued"
  /\ ticket' = [ticket EXCEPT ![m] = "failed"]
  /\ UNCHANGED <<apiVars, post, loopVars, topicVars, started, work>>

-----------------------------------------------------------------------------
(* InMemorySubscriber and process_message *)

\* Faulty: the loop looks at a message without removing it.
PeekOnly ==
  /\ up /\ sub = "memory"
  /\ loop = "get"
  /\ line # <<>>
  /\ hand' = Head(line)
  /\ loop' = "acquire"
  /\ UNCHANGED <<apiVars, post, ticket, line, lost, topicVars, started, work>>

Receive ==
  /\ up /\ sub = "memory"
  /\ loop = "get"
  /\ line # <<>>
  /\ hand' = Head(line)
  /\ line' = Tail(line)
  /\ loop' = "acquire"
  /\ UNCHANGED <<apiVars, post, ticket, lost, topicVars, started, work>>

Acquire ==
  /\ loop = "acquire"
  /\ loop' = "ingest"
  /\ UNCHANGED <<apiVars, post, ticket, line, hand, lost, topicVars, started, work>>

\* Faulty: the exception ends the loop.
RefuseAndStop ==
  /\ loop = "acquire"
  /\ lost' = lost \cup {hand}
  /\ hand' = None
  /\ loop' = "stopped"
  /\ UNCHANGED <<apiVars, post, ticket, line, topicVars, started, work>>

\* Other replicas hold every slot: the handler raises, the loop logs it and
\* the message is gone.
Refuse ==
  /\ loop = "acquire"
  /\ lost' = lost \cup {hand}
  /\ hand' = None
  /\ loop' = "get"
  /\ UNCHANGED <<apiVars, post, ticket, line, topicVars, started, work>>

\* pipeline.ingest_text: a new job, whose id is not the ticket's, runs in the
\* background.
Ingest ==
  /\ loop = "ingest"
  /\ started' = [started EXCEPT ![hand] = @ + 1]
  /\ work' = [work EXCEPT ![hand] = "open"]
  /\ loop' = "release"
  /\ UNCHANGED <<apiVars, post, ticket, line, hand, lost, topicVars>>

\* pipeline.ingest_text refuses a document that is too large.
IngestRaises ==
  /\ loop = "ingest"
  /\ lost' = lost \cup {hand}
  /\ loop' = "release"
  /\ UNCHANGED <<apiVars, post, ticket, line, hand, topicVars, started, work>>

\* The slot goes back before the pipeline job has done its work.
Release ==
  /\ loop = "release"
  /\ hand' = None
  /\ loop' = "get"
  /\ UNCHANGED <<apiVars, post, ticket, line, lost, topicVars, started, work>>

\* The pipeline job ends, see IngestionJobs.
Work(m) ==
  /\ up
  /\ work[m] = "open"
  /\ \E outcome \in {"completed", "failed"} : work' = [work EXCEPT ![m] = outcome]
  /\ UNCHANGED <<apiVars, post, ticket, loopVars, topicVars, started>>

-----------------------------------------------------------------------------
(* PubSubSubscriber *)

\* Pub/Sub delivers a message to a callback, and possibly to another one while
\* the first has not answered.
Deliver(m) ==
  /\ m \in topic
  /\ attempts[m] < MaxDeliveries
  /\ attempts' = [attempts EXCEPT ![m] = @ + 1]
  /\ leased' = leased \cup {m}
  /\ UNCHANGED <<apiVars, post, ticket, loopVars, topic, dead, started, work>>

\* _sync_callback runs in a thread of the streaming pull, which has no event
\* loop: get_event_loop raises and the message is nacked before anything is
\* done with it.  A worker that dies leaves the same to the ack deadline.
\* Pub/Sub moves the message to the dead letters after the last delivery.
Nack(m) ==
  /\ m \in leased
  /\ leased' = leased \ {m}
  /\ \/ attempts[m] < MaxDeliveries /\ UNCHANGED <<topic, dead>>
     \/ /\ attempts[m] = MaxDeliveries
        /\ topic' = topic \ {m}
        /\ dead' = dead \cup {m}
  /\ UNCHANGED <<apiVars, post, ticket, loopVars, attempts, started, work>>

-----------------------------------------------------------------------------
(* The API process *)

\* The process dies: its queue, the message in hand, its requests and its
\* pipeline tasks die with it.
Crash ==
  /\ up
  /\ crashes < MaxCrashes
  /\ crashes' = crashes + 1
  /\ up' = FALSE
  /\ post' = [m \in Messages |-> IF post[m] = "publishing" THEN "error" ELSE post[m]]
  /\ lost' = lost \cup Range(line)
               \cup (IF loop \in {"acquire", "ingest"} THEN {hand} ELSE {})
  /\ line' = <<>>
  /\ hand' = None
  /\ loop' = "get"
  /\ work' = [m \in Messages |-> IF work[m] = "open" THEN "failed" ELSE work[m]]
  /\ UNCHANGED <<pub, sub, ticket, topicVars, started>>

\* lifespan: the kinds are chosen anew, and without a durable queue the
\* recovery fails every unfinished job, tickets included.
Restart ==
  /\ ~up
  /\ up' = TRUE
  /\ pub' \in Kinds
  /\ sub' \in Kinds
  /\ ticket' = [m \in Messages |->
                  IF pub' = "memory" /\ ticket[m] = "queued" THEN "failed" ELSE ticket[m]]
  /\ UNCHANGED <<crashes, post, loopVars, topicVars, started, work>>

-----------------------------------------------------------------------------
Publish(m) == PublishToLine(m) \/ PublishToTopic(m)

Handle == Receive \/ Acquire \/ Refuse \/ Ingest \/ IngestRaises \/ Release

Next ==
  \/ \E m \in Messages :
       CreateTicket(m) \/ Publish(m) \/ ExpireTicket(m) \/ Work(m) \/ Deliver(m) \/ Nack(m)
  \/ Handle \/ Crash \/ Restart

\* The event loop runs the requests, _pull_loop and the pipeline tasks.
\* Nothing is assumed of Pub/Sub, of polling clients or of a restart.
Fairness ==
  /\ \A m \in Messages : WF_vars(Publish(m)) /\ WF_vars(Work(m))
  /\ WF_vars(Handle)

Spec == Init /\ [][Next]_vars /\ Fairness
-----------------------------------------------------------------------------
(* Properties *)

\* Every variable stays in its type.
TypeOK ==
  /\ up \in BOOLEAN
  /\ pub \in Kinds
  /\ sub \in Kinds
  /\ post \in [Messages -> {"idle", "publishing", "answered", "error"}]
  /\ ticket \in [Messages -> {"none", "queued", "failed"}]
  /\ line \in Seq(Messages)
  /\ Len(line) <= MaxQueue
  /\ loop \in {"get", "acquire", "ingest", "release"}
  /\ hand \in Messages \cup {None}
  /\ topic \subseteq Messages
  /\ leased \subseteq Messages
  /\ attempts \in [Messages -> 0 .. MaxDeliveries]
  /\ dead \subseteq Messages
  /\ lost \subseteq Messages
  /\ started \in [Messages -> Nat]
  /\ work \in [Messages -> {"none", "open", "completed", "failed"}]
  /\ crashes \in Nat

\* Where a message can be.
InHand == IF loop \in {"acquire", "ingest"} THEN {hand} ELSE {}
Begun == {m \in Messages : started[m] > 0}
Places == <<Range(line), InHand, Begun, topic, dead, lost>>
PlacesOf(m) == {i \in DOMAIN Places : m \in Places[i]}

\* A message the client was told about is never lost silently and never
\* doubled: it waits, is worked on, has been worked on once, is among the dead
\* letters, or is lost in one of the ways the code logs.
OnePlace ==
  \A m \in Messages :
    /\ Cardinality(PlacesOf(m)) <= 1
    /\ post[m] = "answered" => PlacesOf(m) # {}

\* One message starts at most one pipeline job, whatever crashes, restarts
\* and redeliveries happen.
StartedOnce == \A m \in Messages : started[m] <= 1

\* Only a message that Pub/Sub has delivered as often as it may is given up.
DeadAfterAllDeliveries == \A m \in dead : attempts[m] = MaxDeliveries /\ m \notin topic

\* A request that waits for room in the queue is answered as long as the
\* process has an in-memory subscriber: neither a refused slot nor a document
\* that is too large stops the loop ("test_callback_error_doesnt_crash_loop").
PostAnswered ==
  \A m \in Messages :
    post[m] = "publishing" /\ pub = "memory" /\ sub = "memory" ~> post[m] # "publishing"

\* Queue mode implements the delivery contract: whatever crashes, restarts and
\* redeliveries happen, every step hands a message over, begins it, gives it up
\* or changes nothing the contract can see.
Delivery == INSTANCE MessageDelivery
  WITH queued <- Range(line) \cup InHand, held <- topic, jobs <- started,
       told <- {m \in Messages : post[m] = "answered"}
ImplementsDelivery == Delivery!Spec
=============================================================================
