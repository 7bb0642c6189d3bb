---------------------------- MODULE Conversation ----------------------------
(* The turns of one conversation. A turn stores the question and a            *)
(* placeholder for the answer, returns to the browser and goes on in the      *)
(* background: it reads the orchestrator's stream, broadcasts its events,     *)
(* replaces the placeholder, stores trace and tool rows and broadcasts the    *)
(* answer. Statements fail, pods die, and the conversation may be deleted     *)
(* while a turn runs, in one transaction or, without a pool that can give one, *)
(* statement by statement; foreign keys with ON DELETE CASCADE guard the rows. *)
(*                                                                           *)
(* Source: apps/agentic/server/chat.ts, apps/agentic/drizzle/schema.ts, and   *)
(* websocket.ts through TraceChannel.                                         *)
EXTENDS TraceChannel

CONSTANTS
  MaxLive,      \* bound: events of a stream before the answer
  MaxMishaps    \* bound: failed commands to Redis and dead pods

ASSUME ConversationAssumption ==
  MaxLive \in Nat /\ MaxMishaps \in Nat

VARIABLES
  exists,   \* the conversation's row is there
  pc,       \* where a turn is
  pod,      \* the process that runs it
  asked,    \* the row of the question is there
  reply,    \* content of the answer's row; "absent": no row
  traces,   \* trace rows of the answer
  tools,    \* tool rows of the answer
  live,     \* the stream has brought response chunks
  final,    \* the stream has brought a final_response
  results,  \* the stream has brought tool results
  sent,     \* number of events the turn has broadcast
  told,     \* content of the final_response it has broadcast
  failed,   \* those of the statements Crucial that failed for the turn
  audience, \* sockets that have listened since the stream began
  mishaps,
  erase,    \* where a deletion without a transaction is
  listed,   \* turns whose answers are among the message ids it has read
  cut       \* turns such a deletion took trace rows or the answer of, of a
            \* conversation that is still there

turnVars == <<exists, erase, listed, cut, pc, pod, asked, reply, traces, tools, live, final, results, sent,
              told, failed, audience, mishaps>>
vars == <<channelVars, turnVars>>

Thinking == "Thinking..."
Settled == {"answer", "partial", "apology", "failure"}

\* The statements of sendMessage, which respondToIntervention repeats.
Requesting == {"ask", "place", "touch"}
Streaming == {"open", "stream"}
Storing == {"settle", "bump", "trace", "tools", "tell"}
Failing == {"failSettle", "failBump", "failTrace", "failTools", "failTell", "failFinal"}
\* A failure of these is told by what the turn leaves behind.
Crucial == {"touch", "bump", "failSettle"}
Busy == Requesting \cup Streaming \cup Storing \cup Failing

Init ==
  /\ ChannelInit
  /\ exists = TRUE
  /\ pc = [t \in Turns |-> "idle"]
  /\ pod = [t \in Turns |-> NoPod]
  /\ asked = [t \in Turns |-> FALSE]
  /\ reply = [t \in Turns |-> "absent"]
  /\ traces = [t \in Turns |-> "none"]
  /\ tools = [t \in Turns |-> "none"]
  /\ live = [t \in Turns |-> FALSE]
  /\ final = [t \in Turns |-> FALSE]
  /\ results = [t \in Turns |-> FALSE]
  /\ sent = [t \in Turns |-> 0]
  /\ told = [t \in Turns |-> "nothing"]
  /\ failed = [t \in Turns |-> {}]
  /\ audience = [t \in Turns |-> {}]
  /\ mishaps = 0
  /\ erase = "no"
  /\ listed = {}
  /\ cut = {}

-----------------------------------------------------------------------------
(* Building blocks *)

Go(t, to) == pc' = [pc EXCEPT ![t] = to]

task == <<exists, erase, listed, cut>>
rows == <<asked, reply, traces, tools>>
heard == <<live, final, results>>

\* The locals of a turn that is over are gone.
Forget(ts) ==
  /\ live' = [t \in Turns |-> live[t] /\ t \notin ts]
  /\ final' = [t \in Turns |-> final[t] /\ t \notin ts]
  /\ results' = [t \in Turns |-> results[t] /\ t \notin ts]

Mishap ==
  /\ mishaps < MaxMishaps
  /\ mishaps' = mishaps + 1

\* The statement of the turn at its present place fails.
Fails(t) == failed' = [failed EXCEPT ![t] = @ \cup ({pc[t]} \cap Crucial)]

\* The turn goes from one place to another; nothing is broadcast.
Quietly ==
  /\ UNCHANGED <<channelVars, sent, told, audience>>

\* The turn broadcasts one event; who hears it now or later is the channel's
\* business.
Broadcast(t) ==
  /\ sent' = [sent EXCEPT ![t] = @ + 1]
  /\ \/ Publish(pod[t], <<t, sent[t] + 1>>) /\ UNCHANGED mishaps
     \/ PublishFails(pod[t], <<t, sent[t] + 1>>) /\ Mishap
  /\ UNCHANGED <<ready, sub, conns, at, state, deaf, opens>>

-----------------------------------------------------------------------------
(* The request: sendMessage and respondToIntervention *)

\* The conversation is read and its scope checked against the user's.
Ask(t, p) ==
  /\ pc[t] = "idle"
  /\ pod' = [pod EXCEPT ![t] = p]
  /\ Go(t, IF exists THEN "ask" ELSE "end")
  /\ Quietly
  /\ UNCHANGED <<task, rows, heard, failed, mishaps>>

\* The question's row; without its conversation the insertion is refused, and
\* the request with it.
InsertQuestion(t) ==
  /\ pc[t] = "ask"
  /\ IF exists
     THEN Go(t, "place") /\ asked' = [asked EXCEPT ![t] = TRUE]
     ELSE Go(t, "end") /\ UNCHANGED asked
  /\ Quietly
  /\ UNCHANGED <<task, pod, reply, traces, tools, heard, failed, mishaps>>

InsertPlaceholder(t) ==
  /\ pc[t] = "place"
  /\ IF exists
     THEN Go(t, "touch") /\ reply' = [reply EXCEPT ![t] = Thinking]
     ELSE Go(t, "end") /\ UNCHANGED reply
  /\ Quietly
  /\ UNCHANGED <<task, pod, asked, traces, tools, heard, failed, mishaps>>

\* updatedAt of the conversation; then the stream is started and not awaited.
Touch(t) ==
  /\ pc[t] = "touch"
  /\ Go(t, "open")
  /\ Quietly
  /\ UNCHANGED <<task, pod, rows, heard, failed, mishaps>>

\* A statement of the request raises. The stream is not started, and what is
\* stored stays.
RequestFails(t) ==
  /\ pc[t] \in Requesting
  /\ Fails(t)
  /\ Go(t, "end")
  /\ Quietly
  /\ UNCHANGED <<task, pod, rows, heard, mishaps>>

-----------------------------------------------------------------------------
(* The stream *)

\* Sockets that the publications of pod p reach through Redis already.
Served(p) == IF ready[p] THEN Listening(Subscribers) ELSE {}

\* The history is read, the envelope signed and broadcast, the configuration
\* loaded and the stream requested.
OpenStream(t) ==
  /\ pc[t] = "open"
  /\ Go(t, "stream")
  /\ Broadcast(t)
  /\ audience' = [audience EXCEPT ![t] = Served(pod[t])]
  /\ UNCHANGED <<task, pod, rows, heard, told, failed>>

\* A response chunk, a tool result or another step of the agent. (The preview of
\* an answer is a chunk and, with the next action, the answer.)
LiveEvent(t) ==
  /\ pc[t] = "stream"
  /\ sent[t] <= MaxLive
  /\ \/ live' = [live EXCEPT ![t] = TRUE] /\ UNCHANGED results
     \/ results' = [results EXCEPT ![t] = TRUE] /\ UNCHANGED live
     \/ UNCHANGED <<live, results>>
  /\ Broadcast(t)
  /\ UNCHANGED <<task, pc, pod, rows, final, told, failed, audience>>

\* final_response is kept and broadcast only when everything is stored.
FinalEvent(t) ==
  /\ pc[t] = "stream"
  /\ ~final[t]
  /\ final' = [final EXCEPT ![t] = TRUE]
  /\ Quietly
  /\ UNCHANGED <<task, pc, pod, rows, live, results, failed, mishaps>>

\* The stream ends, with or without a final_response.
StreamEnds(t) ==
  /\ pc[t] = "stream"
  /\ Go(t, "settle")
  /\ Quietly
  /\ UNCHANGED <<task, pod, rows, heard, failed, mishaps>>

\* Faulty variant: an exception in the background is nobody's.
StreamRaisesUncaught(t) ==
  /\ pc[t] \in Streaming
  /\ Go(t, "end")
  /\ Quietly
  /\ UNCHANGED <<task, pod, rows, heard, failed, mishaps>>

\* Reading the history, signing, loading the configuration or the stream itself
\* raises; the stream at the latest after 120 s.
StreamRaises(t) ==
  /\ pc[t] \in Streaming
  /\ Go(t, "failSettle")
  /\ Quietly
  /\ UNCHANGED <<task, pod, rows, heard, failed, mishaps>>

\* What the answer is: the final response, else the chunks, else an apology.
Content(t) == IF final[t] THEN "answer" ELSE IF live[t] THEN "partial" ELSE "apology"

\* The answer replaces the placeholder; a deleted row is not missed.
Settle(t) ==
  /\ pc[t] = "settle"
  /\ Go(t, "bump")
  /\ reply' = [reply EXCEPT ![t] = IF @ = "absent" THEN @ ELSE Content(t)]
  /\ Quietly
  /\ UNCHANGED <<task, pod, asked, traces, tools, heard, failed, mishaps>>

Bump(t) ==
  /\ pc[t] = "bump"
  /\ Go(t, "trace")
  /\ Quietly
  /\ UNCHANGED <<task, pod, rows, heard, failed, mishaps>>

\* Either of the two raises: the whole turn counts as failed.
StoreFails(t) ==
  /\ pc[t] \in {"settle", "bump"}
  /\ Fails(t)
  /\ Go(t, "failSettle")
  /\ Quietly
  /\ UNCHANGED <<task, pod, rows, heard, mishaps>>

\* Trace rows, of which there is always the envelope's; the foreign key refuses
\* them when the answer's row is gone.
InsertTraces(t) ==
  /\ pc[t] = "trace"
  /\ IF reply[t] # "absent"
     THEN Go(t, "tools") /\ traces' = [traces EXCEPT ![t] = "turn"]
     ELSE Go(t, "tell") /\ UNCHANGED traces
  /\ Quietly
  /\ UNCHANGED <<task, pod, asked, reply, tools, heard, failed, mishaps>>

InsertTools(t) ==
  /\ pc[t] = "tools"
  /\ Go(t, "tell")
  /\ tools' = [tools EXCEPT ![t] = IF results[t] /\ reply[t] # "absent" THEN "turn" ELSE @]
  /\ Quietly
  /\ UNCHANGED <<task, pod, asked, reply, traces, heard, failed, mishaps>>

\* Faulty variant: the failure reaches the outer handler.
PersistFailsLoudly(t) ==
  /\ pc[t] \in {"trace", "tools"}
  /\ Fails(t)
  /\ Go(t, "failSettle")
  /\ Quietly
  /\ UNCHANGED <<task, pod, rows, heard, mishaps>>

\* Failure to store them is logged, and the answer preserved.
PersistFails(t) ==
  /\ pc[t] \in {"trace", "tools"}
  /\ Fails(t)
  /\ Go(t, "tell")
  /\ Quietly
  /\ UNCHANGED <<task, pod, rows, heard, mishaps>>

\* Faulty variant: the preview is broadcast as the answer.
TellPreview(t) ==
  /\ pc[t] = "tell"
  /\ Go(t, "end")
  /\ Broadcast(t)
  /\ told' = [told EXCEPT ![t] = IF live[t] THEN "partial" ELSE Content(t)]
  /\ Forget({t})
  /\ UNCHANGED <<task, pod, rows, failed, audience>>

Tell(t) ==
  /\ pc[t] = "tell"
  /\ Go(t, "end")
  /\ Broadcast(t)
  /\ told' = [told EXCEPT ![t] = Content(t)]
  /\ Forget({t})
  /\ UNCHANGED <<task, pod, rows, failed, audience>>

-----------------------------------------------------------------------------
(* The failed turn *)

FailSettle(t) ==
  /\ pc[t] = "failSettle"
  /\ Go(t, "failBump")
  /\ reply' = [reply EXCEPT ![t] = IF @ = "absent" THEN @ ELSE "failure"]
  /\ Quietly
  /\ UNCHANGED <<task, pod, asked, traces, tools, heard, failed, mishaps>>

FailBump(t) ==
  /\ pc[t] = "failBump"
  /\ Go(t, "failTrace")
  /\ Quietly
  /\ UNCHANGED <<task, pod, rows, heard, failed, mishaps>>

FailTraces(t) ==
  /\ pc[t] = "failTrace"
  /\ IF reply[t] # "absent"
     THEN Go(t, "failTools") /\ traces' = [traces EXCEPT ![t] = "failure"]
     ELSE Go(t, "failTell") /\ UNCHANGED traces
  /\ Quietly
  /\ UNCHANGED <<task, pod, asked, reply, tools, heard, failed, mishaps>>

FailTools(t) ==
  /\ pc[t] = "failTools"
  /\ Go(t, "failTell")
  /\ tools' = [tools EXCEPT ![t] = IF reply[t] # "absent" THEN "failure" ELSE @]
  /\ Quietly
  /\ UNCHANGED <<task, pod, asked, reply, traces, heard, failed, mishaps>>

\* Faulty variant: each statement has a handler of its own.
FailStoreGoesOn(t) ==
  /\ pc[t] \in {"failSettle", "failBump", "failTrace", "failTools"}
  /\ Fails(t)
  /\ Go(t, IF pc[t] = "failSettle" THEN "failBump"
           ELSE IF pc[t] = "failBump" THEN "failTrace"
           ELSE IF pc[t] = "failTrace" THEN "failTools" ELSE "failTell")
  /\ Quietly
  /\ UNCHANGED <<task, pod, rows, heard, mishaps>>

\* One of the four raises; the others after it are not tried.
FailStoreFails(t) ==
  /\ pc[t] \in {"failSettle", "failBump", "failTrace", "failTools"}
  /\ Fails(t)
  /\ Go(t, "failTell")
  /\ Quietly
  /\ UNCHANGED <<task, pod, rows, heard, mishaps>>

\* The failure's trace event, then the failure's text as the final response.
FailTell(t) ==
  /\ pc[t] = "failTell"
  /\ Go(t, "failFinal")
  /\ Broadcast(t)
  /\ UNCHANGED <<task, pod, rows, heard, told, failed, audience>>

FailFinal(t) ==
  /\ pc[t] = "failFinal"
  /\ Go(t, "end")
  /\ Broadcast(t)
  /\ told' = [told EXCEPT ![t] = "failure"]
  /\ Forget({t})
  /\ UNCHANGED <<task, pod, rows, failed, audience>>

-----------------------------------------------------------------------------
(* The rest of the world *)

\* The rows of the turns ts are deleted.
NoRows(ts) ==
  /\ asked' = [t \in Turns |-> asked[t] /\ t \notin ts]
  /\ reply' = [t \in Turns |-> IF t \in ts THEN "absent" ELSE reply[t]]
  /\ traces' = [t \in Turns |-> IF t \in ts THEN "none" ELSE traces[t]]
  /\ tools' = [t \in Turns |-> IF t \in ts THEN "none" ELSE tools[t]]

\* Where nothing but the task and its rows changes; running turns are not told.
Unnoticed == UNCHANGED <<channelVars, pc, pod, heard, sent, told, failed, audience, mishaps>>

Gone ==
  /\ exists' = FALSE
  /\ erase' = "no" /\ listed' = {} /\ cut' = {}
  /\ NoRows(Turns)

\* deleteTask removes the conversation and everything that hangs on it in one
\* transaction, where the pool gives one.
Delete ==
  /\ exists /\ erase = "no"
  /\ Gone
  /\ Unnoticed

\* Otherwise statement by statement: the ids of the messages are read, without
\* any the next two statements are left out.
ListMessages ==
  /\ exists /\ erase = "no"
  /\ listed' = {t \in Turns : reply[t] # "absent"}
  /\ erase' = IF \E t \in Turns : asked[t] \/ reply[t] # "absent" THEN "tools" ELSE "messages"
  /\ Unnoticed
  /\ UNCHANGED <<exists, cut, rows>>

EraseTools ==
  /\ erase = "tools"
  /\ erase' = "traces"
  /\ tools' = [t \in Turns |-> IF t \in listed THEN "none" ELSE tools[t]]
  /\ Unnoticed
  /\ UNCHANGED <<exists, listed, cut, asked, reply, traces>>

EraseTraces ==
  /\ erase = "traces"
  /\ erase' = "messages"
  /\ traces' = [t \in Turns |-> IF t \in listed THEN "none" ELSE traces[t]]
  /\ cut' = cut \cup {t \in listed : traces[t] # "none"}
  /\ listed' = {}
  /\ Unnoticed
  /\ UNCHANGED <<exists, asked, reply, tools>>

\* All messages the conversation has by now, with what was stored for them since.
EraseMessages ==
  /\ erase = "messages"
  /\ erase' = "row"
  /\ NoRows(Turns)
  /\ cut' = cut \cup {t \in Turns : reply[t] # "absent"}
  /\ Unnoticed
  /\ UNCHANGED <<exists, listed>>

EraseConversation ==
  /\ erase = "row"
  /\ Gone
  /\ Unnoticed

\* A statement raises or the process dies: what is deleted stays deleted, and the
\* user may ask again.
EraseStops ==
  /\ erase # "no"
  /\ erase' = "no" /\ listed' = {}
  /\ Unnoticed
  /\ UNCHANGED <<exists, cut, rows>>

Erase ==
  \/ ListMessages \/ EraseTools \/ EraseTraces \/ EraseMessages \/ EraseConversation
  \/ EraseStops

\* A pod dies with the turns it runs.
Crash(p) ==
  /\ Mishap
  /\ PodDies(p)
  /\ pc' = [t \in Turns |-> IF pod[t] = p /\ pc[t] \in Busy THEN "dead" ELSE pc[t]]
  /\ audience' = [t \in Turns |-> {s \in audience[t] : at[s] # p}]
  /\ Forget({t \in Turns : pod[t] = p})
  /\ UNCHANGED <<task, pod, rows, sent, told, failed>>

\* The channel moves on its own; who leaves it is audience no longer.
ChannelStep ==
  /\ ChannelNext
  /\ audience' = [t \in Turns |-> {s \in audience[t] : state'[s] = "open"}]
  /\ UNCHANGED <<task, pc, pod, rows, heard, sent, told, failed, mishaps>>

SubscriptionRefused(p) ==
  /\ SubscribeFails(p)
  /\ Mishap
  /\ UNCHANGED <<task, pc, pod, rows, heard, sent, told, failed, audience>>

\* A socket goes and the pod's subscription stays behind.
UnsubscriptionRefused(s) ==
  /\ UnsubscribeFails(s)
  /\ Mishap
  /\ audience' = [t \in Turns |-> {r \in audience[t] : state'[r] = "open"}]
  /\ UNCHANGED <<task, pc, pod, rows, heard, sent, told, failed>>

TurnStep(t) ==
  \/ InsertQuestion(t) \/ InsertPlaceholder(t) \/ Touch(t) \/ RequestFails(t)
  \/ OpenStream(t) \/ LiveEvent(t) \/ FinalEvent(t)
  \/ StreamEnds(t) \/ StreamRaises(t)
  \/ Settle(t) \/ Bump(t) \/ StoreFails(t)
  \/ InsertTraces(t) \/ InsertTools(t) \/ PersistFails(t) \/ Tell(t)
  \/ FailSettle(t) \/ FailBump(t) \/ FailTraces(t) \/ FailTools(t)
  \/ FailStoreFails(t) \/ FailTell(t) \/ FailFinal(t)

Next ==
  \/ \E t \in Turns, p \in Pods : Ask(t, p)
  \/ \E t \in Turns : TurnStep(t)
  \/ Delete \/ Erase
  \/ ChannelStep
  \/ \E p \in Pods : Crash(p) \/ SubscriptionRefused(p)
  \/ \E s \in Sockets : UnsubscriptionRefused(s)

Spec == Init /\ [][Next]_vars

-----------------------------------------------------------------------------
(* Properties *)

\* Every row, place and counter has the values the code gives it.
TypeOK ==
  /\ ChannelTypeOK
  /\ exists \in BOOLEAN
  /\ pc \in [Turns -> Busy \cup {"idle", "end", "dead"}]
  /\ pod \in [Turns -> Pods \cup {NoPod}]
  /\ asked \in [Turns -> BOOLEAN]
  /\ reply \in [Turns -> Settled \cup {Thinking, "absent"}]
  /\ traces \in [Turns -> {"none", "turn", "failure"}]
  /\ tools \in [Turns -> {"none", "turn", "failure"}]
  /\ live \in [Turns -> BOOLEAN]
  /\ final \in [Turns -> BOOLEAN]
  /\ results \in [Turns -> BOOLEAN]
  /\ sent \in [Turns -> 0..(MaxLive + 3)]
  /\ told \in [Turns -> Settled \cup {"nothing"}]
  /\ failed \in [Turns -> SUBSET Crucial]
  /\ audience \in [Turns -> SUBSET Sockets]
  /\ mishaps \in 0..MaxMishaps
  /\ erase \in {"no", "tools", "traces", "messages", "row"}
  /\ listed \subseteq Turns
  /\ cut \subseteq Turns

\* What the viewers are told is the answer of a turn is what the user finds
\* when the conversation is opened again, unless the failure text could not be
\* stored, the conversation was deleted, or a deletion that did not get to the end
\* took the answer (processConversationMessageStream, deleteTask).
ToldIsStored ==
  \A t \in Turns :
    told[t] # "nothing" /\ "failSettle" \notin failed[t] =>
      \/ reply[t] = told[t]
      \/ reply[t] = "absent" /\ (~exists \/ t \in cut)

\* A placeholder is left behind only by a pod that died, by a request that
\* failed after it stored one, or by a failure text that could not be stored.
NoOrphanPlaceholder ==
  \A t \in Turns :
    pc[t] = "end" /\ reply[t] = Thinking => failed[t] \cap {"touch", "failSettle"} # {}

\* Trace and tool rows are evidence for a reply the user can see: of a turn that
\* is over in the rows as well, and of its failure only if the reply says so. Tool
\* rows without trace rows are left only where a deletion took the trace rows while
\* the turn was between its two insertions, and then stopped (deleteTask).
EvidenceFits ==
  \A t \in Turns :
    /\ traces[t] # "none" => reply[t] \in Settled
    /\ tools[t] # "none" => reply[t] \in Settled /\ (traces[t] = tools[t] \/ t \in cut)
    /\ "failure" \in {traces[t], tools[t]} => reply[t] = "failure"

\* A socket that listened through its pod's subscription when the stream began,
\* and ever since, gets every event of the turn once and in order, whoever else
\* comes, leaves or is given up meanwhile, as long as no command to Redis fails
\* and no pod dies (publish, the connection handlers and the heartbeat).
AudienceHearsAll ==
  mishaps = 0 =>
    \A t \in Turns : \A s \in audience[t] :
      got[s][t] = [i \in 1..sent[t] |-> i]

\* A reply that was stored stays until its conversation is deleted, or until the
\* statement of a deletion that takes all its messages. Only the failed update of
\* the conversation right after it lets the failure text take its place.
ReplyStands ==
  [][\A t \in Turns :
       reply[t] \in Settled /\ reply'[t] # reply[t] =>
         \/ reply'[t] = "absent" /\ (~exists' \/ (erase = "messages" /\ t \in cut'))
         \/ reply'[t] = "failure" /\ "bump" \in failed[t]]_vars

\* The turns of a conversation implement their contract, whatever statements
\* fail, pods die, or deletion comes in between, whole or statement by statement:
\* what the user finds, the evidence for it and what viewers are told change in the
\* contract's order only (sendMessage, processConversationMessageStream,
\* deleteTask).
Contract == INSTANCE TurnContract WITH
  Texts <- Settled, Failure <- "failure",
  shown <- reply, evidence <- traces, erasing <- (erase # "no"),
  unsure <- {t \in Turns : "bump" \in failed[t]},
  unstored <- {t \in Turns : "failSettle" \in failed[t]}
ImplementsTurns == Contract!Spec
=============================================================================
