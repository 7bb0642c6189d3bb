------------------------- MODULE ConversationProofs -------------------------
(* Theorems about the turns of a conversation and its trace channel, for any *)
(* number of turns, pods, sockets, failed statements and mishaps.            *)
EXTENDS Conversation, TLAPS

-----------------------------------------------------------------------------
(* What a step does to whom *)

\* Nothing that belongs to turn u changes.
Same(u) ==
  /\ pc'[u] = pc[u] /\ pod'[u] = pod[u]
  /\ reply'[u] = reply[u] /\ traces'[u] = traces[u] /\ tools'[u] = tools[u]
  /\ live'[u] = live[u] /\ final'[u] = final[u]
  /\ told'[u] = told[u] /\ failed'[u] = failed[u]
  /\ sent'[u] = sent[u] /\ audience'[u] = audience[u]

\* The types of the turns, without those of the channel.
TurnTypes ==
  /\ exists \in BOOLEAN
  /\ pc \in [Turns -> Busy \cup {"idle", "end", "dead"}]
  /\ pod \in [Turns -> Pods \cup {NoPod}]
  /\ asked \in [Turns -> BOOLEAN]
  /\ reply \in [Turns -> Settled \cup {Thinking, "absent"}]
  /\ traces \in [Turns -> {"none", "turn", "failure"}]
  /\ tools \in [Turns -> {"none", "turn", "failure"}]
  /\ live \in [Turns -> BOOLEAN]
  /\ final \in [Turns -> BOOLEAN]
  /\ results \in [Turns -> BOOLEAN]
  /\ sent \in [Turns -> Nat]
  /\ told \in [Turns -> Settled \cup {"nothing"}]
  /\ failed \in [Turns -> SUBSET Crucial]
  /\ audience \in [Turns -> SUBSET Sockets]
  /\ mishaps \in 0..MaxMishaps
  /\ erase \in {"no", "tools", "traces", "messages", "row"}
  /\ listed \subseteq Turns
  /\ cut \subseteq Turns

USE DEF Settled, Thinking, Crucial, task

\* The steps of a turn, by the part of the turn they belong to.
RequestStep(t) ==
  InsertQuestion(t) \/ InsertPlaceholder(t) \/ Touch(t) \/ RequestFails(t)
StreamStep(t) ==
  OpenStream(t) \/ LiveEvent(t) \/ FinalEvent(t) \/ StreamEnds(t) \/ StreamRaises(t)
StoreStep(t) ==
  \/ Settle(t) \/ Bump(t) \/ StoreFails(t)
  \/ InsertTraces(t) \/ InsertTools(t) \/ PersistFails(t) \/ Tell(t)
FailStep(t) ==
  \/ FailSettle(t) \/ FailBump(t) \/ FailTraces(t) \/ FailTools(t)
  \/ FailStoreFails(t) \/ FailTell(t) \/ FailFinal(t)

LEMMA Parts ==
  ASSUME NEW t \in Turns, TurnStep(t)
  PROVE  RequestStep(t) \/ StreamStep(t) \/ StoreStep(t) \/ FailStep(t)
  BY DEF TurnStep, RequestStep, StreamStep, StoreStep, FailStep

LEMMA AskTypes ==
  ASSUME TurnTypes, NEW t \in Turns, NEW p \in Pods, Ask(t, p)
  PROVE  TurnTypes' /\ \A u \in Turns \ {t} : Same(u)
  BY DEF TurnTypes, Ask, Go, Quietly, rows, heard, Busy, Requesting, Same

LEMMA RequestTypes ==
  ASSUME TurnTypes, NEW t \in Turns, RequestStep(t)
  PROVE  TurnTypes' /\ \A u \in Turns \ {t} : Same(u)
<1> USE DEF TurnTypes, Go, Quietly, rows, heard, Busy, Requesting, Streaming, Same
<1>1. CASE InsertQuestion(t)
  <2>1. \/ Go(t, "place") /\ asked' = [asked EXCEPT ![t] = TRUE]
        \/ Go(t, "end") /\ asked' = asked
    BY <1>1 DEF InsertQuestion
  <2>2. UNCHANGED <<exists, erase, listed, cut, pod, reply, traces, tools, live, final, results, sent, told,
                    failed, audience, mishaps>>
    BY <1>1 DEF InsertQuestion
  <2>3. /\ pc' \in [Turns -> Busy \cup {"idle", "end", "dead"}]
        /\ asked' \in [Turns -> BOOLEAN]
        /\ \A u \in Turns \ {t} : pc'[u] = pc[u] /\ asked'[u] = asked[u]
    BY <2>1
  <2> QED BY <2>2, <2>3
<1>2. CASE InsertPlaceholder(t)
  BY <1>2 DEF InsertPlaceholder
<1>3. CASE Touch(t)
  BY <1>3 DEF Touch
<1>4. CASE RequestFails(t)
  BY <1>4 DEF RequestFails, Fails
<1> QED BY <1>1, <1>2, <1>3, <1>4 DEF RequestStep

\* A broadcast counts the event and, where it fails, the mishap.
LEMMA BroadcastTypes ==
  ASSUME TurnTypes, NEW t \in Turns, Broadcast(t)
  PROVE  /\ sent' = [sent EXCEPT ![t] = @ + 1]
         /\ sent' \in [Turns -> Nat]
         /\ mishaps' \in 0..MaxMishaps
  BY ConversationAssumption DEF TurnTypes, Broadcast, Mishap

LEMMA StreamTypes ==
  ASSUME TurnTypes, NEW t \in Turns, StreamStep(t)
  PROVE  TurnTypes' /\ \A u \in Turns \ {t} : Same(u)
<1> USE DEF TurnTypes, Go, rows, heard, Busy, Streaming, Storing, Failing, Same
<1>1. CASE OpenStream(t)
  <2>1. Served(pod[t]) \subseteq Sockets
    BY DEF Served, Listening
  <2> QED BY <1>1, <2>1, BroadcastTypes DEF OpenStream
<1>2. CASE LiveEvent(t)
  <2>0. \/ live' = [live EXCEPT ![t] = TRUE] /\ results' = results
        \/ results' = [results EXCEPT ![t] = TRUE] /\ live' = live
        \/ live' = live /\ results' = results
    BY <1>2 DEF LiveEvent
  <2>1. /\ live' \in [Turns -> BOOLEAN] /\ results' \in [Turns -> BOOLEAN]
        /\ \A u \in Turns \ {t} : live'[u] = live[u]
    <3> HIDE DEF Go, Busy, Streaming, Storing, Failing
    <3>1. live \in [Turns -> BOOLEAN] /\ results \in [Turns -> BOOLEAN]
      OBVIOUS
    <3> HIDE DEF TurnTypes
    <3> QED BY <2>0, <3>1
  <2>2. UNCHANGED <<exists, erase, listed, cut, pc, pod, asked, reply, traces, tools, final,
                    told, failed, audience>>
    BY <1>2 DEF LiveEvent
  <2>3. /\ sent' = [sent EXCEPT ![t] = @ + 1] /\ sent' \in [Turns -> Nat]
        /\ mishaps' \in 0..MaxMishaps
    BY <1>2, BroadcastTypes DEF LiveEvent
  <2> QED BY <2>1, <2>2, <2>3
<1>3. CASE FinalEvent(t)
  BY <1>3 DEF FinalEvent, Quietly
<1>4. CASE StreamEnds(t)
  BY <1>4 DEF StreamEnds, Quietly
<1>5. CASE StreamRaises(t)
  BY <1>5 DEF StreamRaises, Quietly
<1> QED BY <1>1, <1>2, <1>3, <1>4, <1>5 DEF StreamStep

LEMMA StoreTypes ==
  ASSUME TurnTypes, NEW t \in Turns, StoreStep(t)
  PROVE  TurnTypes' /\ \A u \in Turns \ {t} : Same(u)
<1> USE DEF TurnTypes, Go, Quietly, rows, heard, Busy, Storing, Failing, Same
<1>1. CASE Settle(t)
  BY <1>1 DEF Settle, Content
<1>2. CASE Bump(t)
  BY <1>2 DEF Bump
<1>3. CASE StoreFails(t)
  BY <1>3 DEF StoreFails, Fails
<1>4. CASE InsertTraces(t)
  BY <1>4 DEF InsertTraces
<1>5. CASE InsertTools(t)
  BY <1>5 DEF InsertTools
<1>6. CASE PersistFails(t)
  BY <1>6 DEF PersistFails, Fails
<1>7. CASE Tell(t)
  BY <1>7, BroadcastTypes DEF Tell, Content, Forget
<1> QED BY <1>1, <1>2, <1>3, <1>4, <1>5, <1>6, <1>7 DEF StoreStep

LEMMA FailTypes ==
  ASSUME TurnTypes, NEW t \in Turns, FailStep(t)
  PROVE  TurnTypes' /\ \A u \in Turns \ {t} : Same(u)
<1> USE DEF TurnTypes, Go, Quietly, rows, heard, Busy, Failing, Same
<1>1. CASE FailSettle(t)
  BY <1>1 DEF FailSettle
<1>2. CASE FailBump(t)
  BY <1>2 DEF FailBump
<1>3. CASE FailTraces(t)
  BY <1>3 DEF FailTraces
<1>4. CASE FailTools(t)
  BY <1>4 DEF FailTools
<1>5. CASE FailStoreFails(t)
  BY <1>5 DEF FailStoreFails, Fails
<1>6. CASE FailTell(t)
  BY <1>6, BroadcastTypes DEF FailTell
<1>7. CASE FailFinal(t)
  BY <1>7, BroadcastTypes DEF FailFinal, Forget
<1> QED BY <1>1, <1>2, <1>3, <1>4, <1>5, <1>6, <1>7 DEF FailStep

LEMMA WorldTypes ==
  ASSUME TurnTypes,
         \/ Delete \/ Erase \/ ChannelStep
         \/ \E p \in Pods : Crash(p) \/ SubscriptionRefused(p)
         \/ \E s \in Sockets : UnsubscriptionRefused(s)
  PROVE  TurnTypes'
<1> USE ConversationAssumption
    DEF TurnTypes, rows, heard, Busy, Requesting, Streaming, Storing, Failing
<1>1. CASE Delete
  BY <1>1 DEF Delete, Gone, NoRows, Unnoticed
<1>5. CASE Erase
  <2> USE DEF Unnoticed
  <2>1. CASE ListMessages \/ EraseStops
    BY <2>1 DEF ListMessages, EraseStops
  <2>2. CASE EraseTools \/ EraseTraces
    BY <2>2 DEF EraseTools, EraseTraces
  <2>3. CASE EraseMessages
    BY <2>3 DEF EraseMessages, NoRows
  <2>4. CASE EraseConversation
    BY <2>4 DEF EraseConversation, Gone, NoRows
  <2> QED BY <1>5, <2>1, <2>2, <2>3, <2>4 DEF Erase
<1>6. ASSUME NEW s \in Sockets, UnsubscriptionRefused(s) PROVE TurnTypes'
  BY <1>6 DEF UnsubscriptionRefused, Mishap
<1>2. CASE ChannelStep
  BY <1>2 DEF ChannelStep
<1>3. ASSUME NEW p \in Pods, Crash(p) PROVE TurnTypes'
  BY <1>3 DEF Crash, Mishap, Forget
<1>4. ASSUME NEW p \in Pods, SubscriptionRefused(p) PROVE TurnTypes'
  BY <1>4 DEF SubscriptionRefused, Mishap
<1> QED BY <1>1, <1>2, <1>3, <1>4, <1>5, <1>6

\* A turn neither deletes the conversation nor notices that it is being deleted.
LEMMA TurnsLeaveTask ==
  ASSUME NEW t \in Turns, TurnStep(t) \/ \E p \in Pods : Ask(t, p)
  PROVE  UNCHANGED task
<1>1. CASE \E p \in Pods : Ask(t, p)
  BY <1>1 DEF Ask
<1>2. CASE RequestStep(t)
  BY <1>2 DEF RequestStep, InsertQuestion, InsertPlaceholder, Touch, RequestFails
<1>3. CASE StreamStep(t)
  BY <1>3 DEF StreamStep, OpenStream, LiveEvent, FinalEvent, StreamEnds, StreamRaises
<1>4. CASE StoreStep(t)
  BY <1>4 DEF StoreStep, Settle, Bump, StoreFails, InsertTraces, InsertTools, PersistFails, Tell
<1>5. CASE FailStep(t)
  BY <1>5 DEF FailStep, FailSettle, FailBump, FailTraces, FailTools, FailStoreFails, FailTell,
     FailFinal
<1> QED BY <1>1, <1>2, <1>3, <1>4, <1>5, Parts

\* Every step keeps the types; a step of a turn leaves the others alone.
LEMMA TypesKept == ASSUME TurnTypes, [Next]_vars PROVE TurnTypes'
<1>1. CASE UNCHANGED vars
  BY <1>1 DEF TurnTypes, vars, turnVars
<1>2. CASE Next
  BY <1>2, AskTypes, Parts, RequestTypes, StreamTypes, StoreTypes, FailTypes, WorldTypes DEF Next
<1> QED BY <1>1, <1>2

-----------------------------------------------------------------------------
(* The rows of a turn *)

\* What the answer's row says, by the place of the turn.
ReplyFits(t) ==
  /\ pc[t] \in {"idle", "ask", "place"} => reply[t] = "absent"
  /\ pc[t] \in {"touch", "open", "stream", "settle"} => reply[t] \in {Thinking, "absent"}
  /\ pc[t] \in {"bump", "trace", "tools", "tell"} => reply[t] \in {Content(t), "absent"}
  /\ pc[t] = "failSettle" /\ "bump" \notin failed[t] => reply[t] \in {Thinking, "absent"}
  /\ pc[t] \in {"failBump", "failTrace", "failTools"} => reply[t] \in {"failure", "absent"}
  /\ pc[t] \in {"failTell", "failFinal"} =>
       "failSettle" \in failed[t] \/ reply[t] \in {"failure", "absent"}
  /\ told[t] # "nothing" => pc[t] = "end"

\* What evidence there is, by the place of the turn.
EvidenceAt(t) ==
  /\ pc[t] \in {"idle", "ask", "place", "touch", "open", "stream", "settle", "bump", "trace",
                "failSettle", "failBump", "failTrace"} => traces[t] = "none" /\ tools[t] = "none"
  /\ pc[t] = "tools" => tools[t] = "none" /\ (reply[t] # "absent" => traces[t] = "turn" \/ t \in cut)
  /\ pc[t] = "tell" => traces[t] # "failure"
  /\ pc[t] = "failTools" => tools[t] = "none" /\ (reply[t] # "absent" => traces[t] = "failure" \/ t \in cut)

\* The four properties, turn by turn.
Told(t) ==
  told[t] # "nothing" /\ "failSettle" \notin failed[t] => reply[t] \in {told[t], "absent"}
Replaced(t) ==
  pc[t] = "end" /\ reply[t] = Thinking => failed[t] \cap {"touch", "failSettle"} # {}
Evident(t) ==
  /\ traces[t] # "none" => reply[t] \in Settled
  /\ tools[t] # "none" => reply[t] \in Settled /\ (traces[t] = tools[t] \/ t \in cut)
  /\ "failure" \in {traces[t], tools[t]} => reply[t] = "failure"

RowInv(t) == ReplyFits(t) /\ EvidenceAt(t) /\ Told(t) /\ Replaced(t) /\ Evident(t)

\* The inductive invariant of the rows.
RowsInv == TurnTypes /\ \A t \in Turns : RowInv(t)

LEMMA RowsSame ==
  ASSUME NEW u \in Turns, RowInv(u), Same(u), cut' = cut
  PROVE  RowInv(u)'
  BY DEF RowInv, ReplyFits, EvidenceAt, Told, Replaced, Evident, Same, Content

LEMMA RowsAsk ==
  ASSUME RowsInv, NEW t \in Turns, NEW p \in Pods, Ask(t, p)
  PROVE  RowInv(t)'
  BY DEF RowsInv, TurnTypes, RowInv, ReplyFits, EvidenceAt, Told, Replaced, Evident, Content,
         Ask, Go, Quietly, rows, heard

LEMMA RowsRequest ==
  ASSUME RowsInv, NEW t \in Turns, RequestStep(t)
  PROVE  RowInv(t)'
<1> USE DEF RowsInv, TurnTypes, RowInv, ReplyFits, EvidenceAt, Told, Replaced, Evident, Content,
            Go, Quietly, rows, heard
<1>1. CASE InsertQuestion(t)
  BY <1>1 DEF InsertQuestion
<1>2. CASE InsertPlaceholder(t)
  BY <1>2 DEF InsertPlaceholder
<1>3. CASE Touch(t)
  BY <1>3 DEF Touch
<1>4. CASE RequestFails(t)
  BY <1>4 DEF RequestFails, Requesting, Fails
<1> QED BY <1>1, <1>2, <1>3, <1>4 DEF RequestStep

LEMMA RowsStream ==
  ASSUME RowsInv, NEW t \in Turns, StreamStep(t)
  PROVE  RowInv(t)'
<1> USE DEF RowsInv, TurnTypes, RowInv, ReplyFits, EvidenceAt, Told, Replaced, Evident,
            Go, rows, heard
<1>1. CASE OpenStream(t)
  BY <1>1 DEF OpenStream
<1>2. CASE LiveEvent(t)
  BY <1>2 DEF LiveEvent
<1>3. CASE FinalEvent(t)
  BY <1>3 DEF FinalEvent, Quietly
<1>4. CASE StreamEnds(t)
  BY <1>4 DEF StreamEnds, Quietly
<1>5. CASE StreamRaises(t)
  BY <1>5 DEF StreamRaises, Quietly, Streaming
<1> QED BY <1>1, <1>2, <1>3, <1>4, <1>5 DEF StreamStep

LEMMA RowsStore ==
  ASSUME RowsInv, NEW t \in Turns, StoreStep(t)
  PROVE  RowInv(t)'
<1> USE DEF RowsInv, TurnTypes, RowInv, ReplyFits, EvidenceAt, Told, Replaced, Evident, Content,
            Go, Quietly, rows, heard
<1>1. CASE Settle(t)
  BY <1>1 DEF Settle
<1>2. CASE Bump(t)
  BY <1>2 DEF Bump
<1>3. CASE StoreFails(t)
  BY <1>3 DEF StoreFails, Fails
<1>4. CASE InsertTraces(t)
  BY <1>4 DEF InsertTraces
<1>5. CASE InsertTools(t)
  BY <1>5 DEF InsertTools
<1>6. CASE PersistFails(t)
  BY <1>6 DEF PersistFails, Fails
<1>7. CASE Tell(t)
  BY <1>7 DEF Tell, Forget
<1> QED BY <1>1, <1>2, <1>3, <1>4, <1>5, <1>6, <1>7 DEF StoreStep

LEMMA RowsFail ==
  ASSUME RowsInv, NEW t \in Turns, FailStep(t)
  PROVE  RowInv(t)'
<1> USE DEF RowsInv, TurnTypes, RowInv, ReplyFits, EvidenceAt, Told, Replaced, Evident,
            Go, Quietly, rows, heard
<1>1. CASE FailSettle(t)
  BY <1>1 DEF FailSettle
<1>2. CASE FailBump(t)
  BY <1>2 DEF FailBump
<1>3. CASE FailTraces(t)
  BY <1>3 DEF FailTraces
<1>4. CASE FailTools(t)
  BY <1>4 DEF FailTools
<1>5. CASE FailStoreFails(t)
  BY <1>5 DEF FailStoreFails, Fails
<1>6. CASE FailTell(t)
  BY <1>6 DEF FailTell
<1>7. CASE FailFinal(t)
  BY <1>7 DEF FailFinal
<1> QED BY <1>1, <1>2, <1>3, <1>4, <1>5, <1>6, <1>7 DEF FailStep

LEMMA RowsWorld ==
  ASSUME RowsInv, NEW t \in Turns,
         \/ Delete \/ Erase \/ ChannelStep
         \/ \E p \in Pods : Crash(p) \/ SubscriptionRefused(p)
         \/ \E s \in Sockets : UnsubscriptionRefused(s)
  PROVE  RowInv(t)'
<1> USE DEF RowsInv, TurnTypes, RowInv, ReplyFits, EvidenceAt, Told, Replaced, Evident, Content,
            rows, heard
<1>1. CASE Delete
  BY <1>1 DEF Delete, Gone, NoRows, Unnoticed
<1>5. CASE Erase
  <2> USE DEF Unnoticed
  <2>1. CASE ListMessages \/ EraseStops
    BY <2>1 DEF ListMessages, EraseStops
  <2>2. CASE EraseTools
    BY <2>2 DEF EraseTools
  <2>3. CASE EraseTraces
    BY <2>3 DEF EraseTraces
  <2>4. CASE EraseMessages
    BY <2>4 DEF EraseMessages, NoRows
  <2>5. CASE EraseConversation
    BY <2>5 DEF EraseConversation, Gone, NoRows
  <2> QED BY <1>5, <2>1, <2>2, <2>3, <2>4, <2>5 DEF Erase
<1>6. ASSUME NEW s \in Sockets, UnsubscriptionRefused(s) PROVE RowInv(t)'
  BY <1>6 DEF UnsubscriptionRefused
<1>2. CASE ChannelStep
  BY <1>2 DEF ChannelStep
<1>3. ASSUME NEW p \in Pods, Crash(p) PROVE RowInv(t)'
  BY <1>3 DEF Crash, Forget, Busy, Requesting, Streaming, Storing, Failing
<1>4. ASSUME NEW p \in Pods, SubscriptionRefused(p) PROVE RowInv(t)'
  BY <1>4 DEF SubscriptionRefused
<1> QED BY <1>1, <1>2, <1>3, <1>4, <1>5, <1>6

THEOREM RowsInit == Init => RowsInv
<1>1. Init => TurnTypes
  BY ConversationAssumption DEF Init, TurnTypes
<1>2. Init => \A t \in Turns : RowInv(t)
  BY DEF Init, RowInv, ReplyFits, EvidenceAt, Told, Replaced, Evident
<1> QED BY <1>1, <1>2 DEF RowsInv

THEOREM RowsStep == ASSUME RowsInv, [Next]_vars PROVE RowsInv'
<1>0. TurnTypes /\ TurnTypes'
  BY TypesKept DEF RowsInv
<1> SUFFICES ASSUME NEW u \in Turns PROVE RowInv(u)'
  BY <1>0 DEF RowsInv
<1>u. RowInv(u)
  BY DEF RowsInv
<1>1. CASE UNCHANGED vars
  BY <1>1, <1>u, RowsSame DEF vars, turnVars, Same
<1>2. ASSUME NEW t \in Turns, NEW p \in Pods, Ask(t, p) PROVE RowInv(u)'
  <2>1. cut' = cut
    BY <1>2, TurnsLeaveTask
  <2> QED BY <1>0, <1>2, <1>u, <2>1, AskTypes, RowsAsk, RowsSame
<1>3. ASSUME NEW t \in Turns, TurnStep(t) PROVE RowInv(u)'
  <2>1. CASE u = t
    BY <1>3, <2>1, Parts, RowsRequest, RowsStream, RowsStore, RowsFail
  <2>2. CASE u # t
    <3>1. cut' = cut
      BY <1>3, TurnsLeaveTask
    <3> QED BY <1>0, <1>3, <1>u, <2>2, <3>1, Parts, RequestTypes, StreamTypes, StoreTypes,
               FailTypes, RowsSame
  <2> QED BY <2>1, <2>2
<1>4. CASE \/ Delete \/ Erase \/ ChannelStep
           \/ \E p \in Pods : Crash(p) \/ SubscriptionRefused(p)
           \/ \E s \in Sockets : UnsubscriptionRefused(s)
  BY <1>4, RowsWorld
<1> QED BY <1>1, <1>2, <1>3, <1>4 DEF Next

THEOREM RowsInvariant == Spec => []RowsInv
  BY RowsInit, RowsStep, PTL DEF Spec

\* Placeholders are left behind in three ways only.
THEOREM PlaceholdersReplaced == Spec => []NoOrphanPlaceholder
<1>1. RowsInv => NoOrphanPlaceholder
  BY DEF RowsInv, RowInv, Replaced, NoOrphanPlaceholder
<1> QED BY <1>1, RowsInvariant, PTL

\* Trace and tool rows fit the reply.
THEOREM EvidenceAlwaysFits == Spec => []EvidenceFits
<1>1. RowsInv => EvidenceFits
  BY DEF RowsInv, RowInv, Evident, EvidenceFits
<1> QED BY <1>1, RowsInvariant, PTL

\* A step that replaces a stored reply deletes it, with the conversation or with all
\* messages and before the conversation, or reports a failure after the
\* conversation could not be updated.
LEMMA ReplyStep ==
  ASSUME RowsInv, [Next]_vars, NEW u \in Turns, reply[u] \in Settled, reply'[u] # reply[u]
  PROVE  \/ reply'[u] = "absent" /\ (~exists' \/ (erase = "messages" /\ u \in cut'))
         \/ reply'[u] = "failure" /\ "bump" \in failed[u]
<1>0. TurnTypes /\ RowInv(u)
  BY DEF RowsInv
<1>1. CASE UNCHANGED vars
  BY <1>1 DEF vars, turnVars
<1>2. ASSUME NEW t \in Turns, NEW p \in Pods, Ask(t, p) PROVE FALSE
  BY <1>2 DEF Ask, rows
<1>3. ASSUME NEW t \in Turns, TurnStep(t)
      PROVE  reply'[u] = "failure" /\ "bump" \in failed[u]
  <2>1. u = t
    BY <1>0, <1>3, Parts, RequestTypes, StreamTypes, StoreTypes, FailTypes DEF Same
  <2>2. CASE RequestStep(t)
    BY <1>0, <2>1, <2>2 DEF RequestStep, InsertQuestion, InsertPlaceholder, Touch, RequestFails,
          rows, RowInv, ReplyFits
  <2>3. CASE StreamStep(t)
    BY <2>3 DEF StreamStep, OpenStream, LiveEvent, FinalEvent, StreamEnds, StreamRaises, rows
  <2>4. CASE StoreStep(t)
    BY <1>0, <2>1, <2>4 DEF StoreStep, Settle, Bump, StoreFails, InsertTraces, InsertTools,
          PersistFails, Tell, rows, RowInv, ReplyFits
  <2>5. CASE FailStep(t)
    BY <1>0, <2>1, <2>5 DEF FailStep, FailSettle, FailBump, FailTraces, FailTools,
          FailStoreFails, FailTell, FailFinal, rows, RowInv, ReplyFits, TurnTypes
  <2> QED BY <1>3, <2>2, <2>3, <2>4, <2>5, Parts
<1>4. CASE Delete \/ EraseConversation
  BY <1>4 DEF Delete, EraseConversation, Gone, NoRows
<1>6. CASE EraseMessages
  BY <1>6 DEF EraseMessages, NoRows
<1>7. ASSUME ListMessages \/ EraseTools \/ EraseTraces \/ EraseStops PROVE FALSE
  BY <1>7 DEF ListMessages, EraseTools, EraseTraces, EraseStops, rows
<1>5. CASE \/ ChannelStep \/ \E p \in Pods : Crash(p) \/ SubscriptionRefused(p)
           \/ \E s \in Sockets : UnsubscriptionRefused(s)
  BY <1>5 DEF ChannelStep, Crash, SubscriptionRefused, UnsubscriptionRefused, rows
<1> QED BY <1>1, <1>2, <1>3, <1>4, <1>5, <1>6, <1>7 DEF Next, Erase

\* A stored reply stands.
THEOREM StoredReplyStands == Spec => ReplyStands
<1>1. ASSUME RowsInv, [Next]_vars
      PROVE  [\A t \in Turns :
                reply[t] \in Settled /\ reply'[t] # reply[t] =>
                  \/ reply'[t] = "absent" /\ (~exists' \/ (erase = "messages" /\ t \in cut'))
                  \/ reply'[t] = "failure" /\ "bump" \in failed[t]]_vars
  BY <1>1, ReplyStep
<1> QED BY <1>1, RowsInvariant, PTL DEF Spec, ReplyStands

-----------------------------------------------------------------------------
(* Who is subscribed *)

\* A deletion, whole or by statements, is none of the channel's and of the turns'
\* business.
LEMMA DeletionApart ==
  ASSUME Delete \/ Erase
  PROVE  UNCHANGED <<channelVars, pc, pod, heard, sent, told, failed, audience, mishaps>>
  BY DEF Delete, Erase, ListMessages, EraseTools, EraseTraces, EraseMessages,
         EraseConversation, EraseStops, Unnoticed

\* Steps that are not the channel's own leave listeners and subscriptions alone.
Apart == UNCHANGED <<ready, sub, conns, at, state, deaf>>

LEMMA StepsApart ==
  ASSUME [Next]_vars
  PROVE  \/ ChannelStep
         \/ \E p \in Pods : Crash(p) \/ SubscriptionRefused(p)
         \/ \E s \in Sockets : UnsubscriptionRefused(s)
         \/ Apart
<1> USE DEF Apart, Quietly, channelVars
<1>1. CASE UNCHANGED vars
  BY <1>1 DEF vars
<1>2. ASSUME NEW t \in Turns, NEW p \in Pods, Ask(t, p) PROVE Apart
  BY <1>2 DEF Ask
<1>3. ASSUME NEW t \in Turns, TurnStep(t) PROVE Apart
  <2>1. CASE RequestStep(t)
    BY <2>1 DEF RequestStep, InsertQuestion, InsertPlaceholder, Touch, RequestFails
  <2>2. CASE StreamStep(t)
    BY <2>2 DEF StreamStep, OpenStream, LiveEvent, FinalEvent, StreamEnds, StreamRaises, Broadcast
  <2>3. CASE StoreStep(t)
    BY <2>3 DEF StoreStep, Settle, Bump, StoreFails, InsertTraces, InsertTools,
          PersistFails, Tell, Broadcast
  <2>4. CASE FailStep(t)
    BY <2>4 DEF FailStep, FailSettle, FailBump, FailTraces, FailTools,
          FailStoreFails, FailTell, FailFinal, Broadcast
  <2> QED BY <1>3, <2>1, <2>2, <2>3, <2>4, Parts
<1>4. CASE Delete \/ Erase
  BY <1>4, DeletionApart DEF turnVars
<1> QED BY <1>1, <1>2, <1>3, <1>4 DEF Next

\* The types of what the subscription depends on.
ListenTypes ==
  /\ ready \in [Pods -> BOOLEAN]
  /\ sub \in [Pods -> {"none", "asked", "active", "stuck"}]
  /\ conns \in [Pods -> SUBSET Sockets]
  /\ at \in [Sockets -> Pods \cup {NoPod}]
  /\ state \in [Sockets -> {"closed", "open", "closing"}]
  /\ deaf \subseteq Pods
  /\ \A s \in Sockets : state[s] # "closed" => at[s] \in Pods

\* The inductive invariant of the subscriptions.
SubInv == ListenTypes /\ SubscribedWhileListening

\* Whoever leaves, the pod stays subscribed exactly for those who are left.
LEMMA RemoveKeeps ==
  ASSUME SubInv, NEW s \in Sockets, NEW p \in Pods, NEW left \in {"none", "stuck"},
         Remove(s, p, left), UNCHANGED ready
  PROVE  /\ sub' \in [Pods -> {"none", "asked", "active", "stuck"}]
         /\ conns' \in [Pods -> SUBSET Sockets] /\ deaf' \subseteq Pods
         /\ SubscribedWhileListening'
  BY DEF SubInv, ListenTypes, Remove, SubscribedWhileListening

LEMMA SubStep == ASSUME SubInv, [Next]_vars PROVE SubInv'
<1> USE ChannelAssumption
<1>1. CASE Apart
  BY <1>1 DEF Apart, SubInv, ListenTypes, SubscribedWhileListening
<1>2. ASSUME NEW p \in Pods, SubscribeFails(p) PROVE SubInv'
  BY <1>2 DEF SubscribeFails, SubInv, ListenTypes, SubscribedWhileListening
<1>3. ASSUME NEW p \in Pods, PodDies(p) PROVE SubInv'
  BY <1>3 DEF PodDies, SubInv, ListenTypes, SubscribedWhileListening
<1>4. ASSUME NEW p \in Pods, RedisReady(p) \/ Subscribed(p) \/ FallBack(p) \/ Refuse(p)
      PROVE  SubInv'
  <2>1. CASE RedisReady(p)
    BY <2>1 DEF RedisReady, SubInv, ListenTypes, SubscribedWhileListening
  <2>2. CASE Subscribed(p)
    BY <2>2 DEF Subscribed, SubInv, ListenTypes, SubscribedWhileListening
  <2>3. CASE FallBack(p) \/ Refuse(p)
    BY <2>3 DEF FallBack, Refuse, channelVars, SubInv, ListenTypes, SubscribedWhileListening
  <2> QED BY <1>4, <2>1, <2>2, <2>3
<1>5. ASSUME NEW s \in Sockets, NEW p \in Pods, Open(s, p) PROVE SubInv'
  BY <1>5 DEF Open, Subscribe, SubInv, ListenTypes, SubscribedWhileListening
<1>6. ASSUME NEW s \in Sockets, Leave(s) PROVE SubInv'
  BY <1>6 DEF Leave, SubInv, ListenTypes, SubscribedWhileListening
<1>7. ASSUME NEW s \in Sockets, NEW left \in {"none", "stuck"}, Terminate(s, left)
      PROVE  SubInv'
  BY <1>7, RemoveKeeps DEF Terminate, SubInv, ListenTypes
<1>8. ASSUME NEW s \in Sockets, NEW left \in {"none", "stuck"}, Closed(s, left)
      PROVE  SubInv'
  <2>1. CASE conns[at[s]] = {}
    BY <1>8, <2>1 DEF Closed, SubInv, ListenTypes, SubscribedWhileListening
  <2>2. CASE conns[at[s]] # {}
    BY <1>8, <2>2, RemoveKeeps DEF Closed, SubInv, ListenTypes
  <2> QED BY <2>1, <2>2
<1> QED
  BY <1>1, <1>2, <1>3, <1>4, <1>5, <1>6, <1>7, <1>8, StepsApart
     DEF ChannelStep, ChannelNext, Crash, SubscriptionRefused, UnsubscriptionRefused,
         UnsubscribeFails

\* A pod is subscribed while somebody listens there, unless its subscription was
\* missed or refused, and only then, unless unsubscribing failed.
THEOREM SubscriptionFollows == Spec => []SubscribedWhileListening
<1>1. Init => SubInv
  BY DEF Init, ChannelInit, SubInv, ListenTypes, SubscribedWhileListening
<1>2. SubInv => SubscribedWhileListening
  BY DEF SubInv
<1> QED BY <1>1, <1>2, SubStep, PTL DEF Spec

-----------------------------------------------------------------------------
(* Who hears what *)

GotTypes == got \in [Sockets -> [Turns -> Seq(Nat)]]

LateTypes == late \in [Pods -> Seq(Events)]

Early == {"idle", "ask", "place", "touch", "open"}

\* Nothing of a turn has been broadcast before its stream is opened.
NothingYet ==
  \A t \in Turns : pc[t] \in Early =>
    audience[t] = {} /\ sent[t] = 0 /\ \A s \in Sockets : got[s][t] = <<>>

\* Who has listened from the start is reached by the publications of the turn's
\* pod, and has got them all.
Attentive(s, t) ==
  /\ s \in Listening(Subscribers)
  /\ pod[t] \in Pods
  /\ ready[pod[t]]
  /\ got[s][t] = [i \in 1..sent[t] |-> i]

AllAttentive == \A t \in Turns : \A s \in audience[t] : Attentive(s, t)

PodKnown == \A t \in Turns : pc[t] \in Busy => pod[t] \in Pods

Hearing == (\A p \in Pods : late[p] = <<>>) /\ PodKnown /\ NothingYet /\ AllAttentive

\* The inductive invariant of the audience.
HearInv ==
  /\ TurnTypes /\ SubInv /\ GotTypes /\ LateTypes
  /\ mishaps = 0 => Hearing

LEMMA NothingTyped == Nothing \in [Turns -> Seq(Nat)]
  BY DEF Nothing

LEMMA SendTypes ==
  ASSUME GotTypes, NEW ps, NEW t \in Turns, NEW n \in Nat, Send(ps, <<t, n>>)
  PROVE  GotTypes'
<1>1. \A s \in Sockets : [got[s] EXCEPT ![t] = Append(@, n)] \in [Turns -> Seq(Nat)]
  BY DEF GotTypes
<1> QED BY <1>1 DEF Send, GotTypes

\* A turn's broadcast, when nothing has gone wrong and nothing does now.
LEMMA BroadcastReaches ==
  ASSUME HearInv, NEW t \in Turns, Broadcast(t), mishaps' = 0
  PROVE  /\ UNCHANGED <<late, ready, sub, conns, at, state>>
         /\ \A s \in Sockets, u \in Turns : u # t => got'[s][u] = got[s][u]
         /\ ready[pod[t]] => \A s \in Listening(Subscribers) :
              got'[s][t] = Append(got[s][t], sent[t] + 1)
<1>1. mishaps = 0 /\ Publish(pod[t], <<t, sent[t] + 1>>)
  BY DEF Broadcast, Mishap, HearInv, TurnTypes
<1>2. UNCHANGED <<late, ready, sub, conns, at, state>>
  BY <1>1 DEF Broadcast, Publish
<1>3. \A s \in Sockets : got[s] \in [Turns -> Seq(Nat)]
  BY DEF HearInv, GotTypes
<1>4. \A s \in Sockets, u \in Turns : u # t => got'[s][u] = got[s][u]
  BY <1>1, <1>3 DEF Publish, Send
<1>5. ready[pod[t]] => \A s \in Listening(Subscribers) :
              got'[s][t] = Append(got[s][t], sent[t] + 1)
  BY <1>1, <1>3 DEF Publish, Send, Listening
<1> QED BY <1>2, <1>4, <1>5

\* The events 1 to n and then n + 1 are the events 1 to n + 1.
LEMMA OneMoreEvent ==
  ASSUME NEW n \in Nat
  PROVE  Append([i \in 1..n |-> i], n + 1) = [i \in 1..(n + 1) |-> i]
  OBVIOUS

\* A step of a turn broadcasts nothing, opens the stream, or broadcasts to the
\* audience the turn has.
LEMMA TurnKinds ==
  ASSUME TurnTypes, NEW t \in Turns, TurnStep(t)
  PROVE  /\ pod' = pod /\ pc[t] \in Busy
         /\ \/ /\ UNCHANGED <<channelVars, sent, audience>>
               /\ pc'[t] \in Early => pc[t] \in Early
            \/ OpenStream(t)
            \/ Broadcast(t) /\ UNCHANGED audience /\ pc'[t] \notin Early
<1> USE DEF Busy, Requesting, Streaming, Storing, Failing, Early, Go, Quietly, TurnTypes
<1>1. CASE RequestStep(t)
  BY <1>1 DEF RequestStep, InsertQuestion, InsertPlaceholder, Touch, RequestFails
<1>2. CASE StreamStep(t)
  <2>1. CASE OpenStream(t)
    BY <2>1 DEF OpenStream
  <2>2. CASE LiveEvent(t)
    BY <2>2 DEF LiveEvent
  <2>3. CASE FinalEvent(t) \/ StreamEnds(t) \/ StreamRaises(t)
    BY <2>3 DEF FinalEvent, StreamEnds, StreamRaises
  <2> QED BY <1>2, <2>1, <2>2, <2>3 DEF StreamStep
<1>3. CASE StoreStep(t)
  <2>1. CASE Tell(t)
    BY <2>1 DEF Tell
  <2>2. CASE Settle(t) \/ Bump(t) \/ StoreFails(t)
    BY <2>2 DEF Settle, Bump, StoreFails
  <2>3. CASE InsertTraces(t) \/ InsertTools(t) \/ PersistFails(t)
    BY <2>3 DEF InsertTraces, InsertTools, PersistFails
  <2> QED BY <1>3, <2>1, <2>2, <2>3 DEF StoreStep
<1>4. CASE FailStep(t)
  <2>1. CASE FailTell(t) \/ FailFinal(t)
    BY <2>1 DEF FailTell, FailFinal
  <2>2. CASE FailSettle(t) \/ FailBump(t) \/ FailTraces(t)
    BY <2>2 DEF FailSettle, FailBump, FailTraces
  <2>3. CASE FailTools(t) \/ FailStoreFails(t)
    BY <2>3 DEF FailTools, FailStoreFails
  <2> QED BY <1>4, <2>1, <2>2, <2>3 DEF FailStep
<1> QED BY <1>1, <1>2, <1>3, <1>4, Parts

\* What a step of a turn does to the other turns.
LEMMA TurnAlone ==
  ASSUME TurnTypes, NEW t \in Turns, TurnStep(t), NEW u \in Turns, u # t
  PROVE  Same(u)
  BY Parts, RequestTypes, StreamTypes, StoreTypes, FailTypes

LEMMA MishapsGrow ==
  ASSUME TurnTypes, [Next]_vars, mishaps' = 0
  PROVE  mishaps = 0
<1> USE DEF TurnTypes
<1>1. CASE UNCHANGED vars
  BY <1>1 DEF vars, turnVars
<1>2. ASSUME NEW t \in Turns, NEW p \in Pods, Ask(t, p) PROVE mishaps = 0
  BY <1>2 DEF Ask
<1>3. ASSUME NEW t \in Turns, TurnStep(t) PROVE mishaps = 0
  <2> USE DEF Broadcast, Mishap
  <2>1. CASE RequestStep(t)
    BY <2>1 DEF RequestStep, InsertQuestion, InsertPlaceholder, Touch, RequestFails
  <2>2. CASE StreamStep(t)
    BY <2>2 DEF StreamStep, OpenStream, LiveEvent, FinalEvent, StreamEnds, StreamRaises
  <2>3. CASE StoreStep(t)
    BY <2>3 DEF StoreStep, Settle, Bump, StoreFails, InsertTraces, InsertTools, PersistFails, Tell
  <2>4. CASE FailStep(t)
    BY <2>4 DEF FailStep, FailSettle, FailBump, FailTraces, FailTools,
          FailStoreFails, FailTell, FailFinal
  <2> QED BY <1>3, <2>1, <2>2, <2>3, <2>4, Parts
<1>4. CASE Delete \/ Erase \/ ChannelStep
  BY <1>4, DeletionApart DEF ChannelStep
<1>5. CASE \/ \E p \in Pods : Crash(p) \/ SubscriptionRefused(p)
           \/ \E s \in Sockets : UnsubscriptionRefused(s)
  <2>1. Mishap
    BY <1>5 DEF Crash, SubscriptionRefused, UnsubscriptionRefused
  <2> QED BY <2>1 DEF Mishap
<1> QED BY <1>1, <1>2, <1>3, <1>4, <1>5 DEF Next

LEMMA BroadcastTyped ==
  ASSUME TurnTypes, GotTypes, LateTypes, NEW t \in Turns, Broadcast(t)
  PROVE  GotTypes' /\ LateTypes'
<1> DEFINE e == <<t, sent[t] + 1>>
<1>1. sent[t] + 1 \in Nat /\ e \in Events
  BY DEF TurnTypes, Events
<1>2. CASE Publish(pod[t], e)
  BY <1>1, <1>2, SendTypes DEF Publish, LateTypes
<1>3. CASE PublishFails(pod[t], e)
  <2>1. GotTypes'
    BY <1>1, <1>3, SendTypes DEF PublishFails
  <2>2. \A p \in Pods : Append(late[p], e) \in Seq(Events)
    BY <1>1 DEF LateTypes
  <2>3. late' = [late EXCEPT ![pod[t]] = Append(@, e)]
    BY <1>3 DEF PublishFails
  <2>4. LateTypes'
    BY <2>2, <2>3 DEF LateTypes
  <2> QED BY <2>1, <2>4
<1> QED BY <1>2, <1>3 DEF Broadcast

LEMMA EventsTyped ==
  ASSUME TurnTypes, SubInv, GotTypes, LateTypes, [Next]_vars
  PROVE  GotTypes' /\ LateTypes'
<1>1. CASE UNCHANGED vars
  BY <1>1 DEF vars, channelVars, GotTypes, LateTypes
<1>2. ASSUME NEW t \in Turns, NEW p \in Pods, Ask(t, p) PROVE GotTypes' /\ LateTypes'
  BY <1>2 DEF Ask, Quietly, channelVars, GotTypes, LateTypes
<1>3. ASSUME NEW t \in Turns, TurnStep(t) PROVE GotTypes' /\ LateTypes'
  BY <1>3, TurnKinds, BroadcastTyped DEF OpenStream, channelVars, GotTypes, LateTypes
<1>4. CASE Delete \/ Erase
  BY <1>4, DeletionApart DEF channelVars, GotTypes, LateTypes
<1>5. ASSUME NEW p \in Pods, PodDies(p) \/ SubscribeFails(p) PROVE GotTypes' /\ LateTypes'
  <2>1. CASE SubscribeFails(p)
    BY <2>1 DEF SubscribeFails, GotTypes, LateTypes
  <2>2. CASE PodDies(p)
    <3>1. GotTypes'
      BY <2>2, NothingTyped DEF PodDies, GotTypes
    <3>2. <<>> \in Seq(Events) /\ late' = [late EXCEPT ![p] = <<>>]
      BY <2>2 DEF PodDies
    <3> QED BY <3>1, <3>2 DEF LateTypes
  <2> QED BY <1>5, <2>1, <2>2
<1>6. ASSUME NEW p \in Pods, FallBack(p) PROVE GotTypes' /\ LateTypes'
  <2>1. Head(late[p]) \in Events /\ Tail(late[p]) \in Seq(Events)
    BY <1>6 DEF FallBack, LateTypes
  <2>2. PICK t \in Turns, n \in Nat : Head(late[p]) = <<t, n>>
    BY <2>1 DEF Events
  <2>3. GotTypes'
    BY <1>6, <2>2, SendTypes DEF FallBack
  <2> QED BY <1>6, <2>1, <2>3 DEF FallBack, LateTypes
<1>7. ASSUME NEW p \in Pods, RedisReady(p) \/ Subscribed(p) \/ Refuse(p)
      PROVE  GotTypes' /\ LateTypes'
  BY <1>7 DEF RedisReady, Subscribed, Refuse, channelVars, GotTypes, LateTypes
<1>8. ASSUME NEW s \in Sockets, NEW p \in Pods, Open(s, p) PROVE GotTypes' /\ LateTypes'
  BY <1>8 DEF Open, GotTypes, LateTypes
<1>9. ASSUME NEW s \in Sockets, NEW left, Leave(s) \/ Terminate(s, left) \/ Closed(s, left)
      PROVE  GotTypes' /\ LateTypes'
  BY <1>9, NothingTyped DEF Leave, Terminate, Closed, GotTypes, LateTypes
<1> QED
  BY <1>1, <1>2, <1>3, <1>4, <1>5, <1>6, <1>7, <1>8, <1>9
     DEF Next, ChannelStep, ChannelNext, Crash, SubscriptionRefused, UnsubscriptionRefused,
         UnsubscribeFails

LEMMA HearTurn ==
  ASSUME HearInv, NEW t \in Turns, TurnStep(t), mishaps = 0, mishaps' = 0
  PROVE  Hearing'
<1>0. TurnTypes /\ GotTypes /\ Hearing /\ \A p \in Pods : late[p] = <<>>
  BY DEF HearInv, Hearing
<1>k. /\ pod' = pod /\ pc[t] \in Busy
      /\ \A u \in Turns : u # t => Same(u)
  BY <1>0, TurnKinds, TurnAlone
<1>p. pod[t] \in Pods /\ PodKnown'
  BY <1>0, <1>k DEF Hearing, PodKnown, Same
<1>1. CASE UNCHANGED <<channelVars, sent, audience>> /\ (pc'[t] \in Early => pc[t] \in Early)
  <2>1. \A u \in Turns : pc'[u] \in Early => pc[u] \in Early
    BY <1>1, <1>k DEF Same
  <2> QED BY <1>0, <1>1, <1>k, <1>p, <2>1 DEF Hearing, NothingYet, AllAttentive, Attentive, channelVars,
          Listening, Subscribers
<1>2. ASSUME Broadcast(t), pc'[t] \notin Early,
             \A s \in audience'[t] : Attentive(s, t) \/ (s \in Served(pod[t]) /\ pc[t] \in Early),
             \A u \in Turns : u # t => audience'[u] = audience[u]
      PROVE  Hearing'
  <2>1. /\ UNCHANGED <<late, ready, sub, conns, at, state>>
        /\ \A s \in Sockets, u \in Turns : u # t => got'[s][u] = got[s][u]
        /\ ready[pod[t]] => \A s \in Listening(Subscribers) :
              got'[s][t] = Append(got[s][t], sent[t] + 1)
    BY <1>2, BroadcastReaches
  <2>2. sent'[t] = sent[t] + 1 /\ sent[t] \in Nat
    BY <1>0, <1>2, BroadcastTypes DEF TurnTypes
  <2>3. Listening(Subscribers)' = Listening(Subscribers)
    BY <2>1 DEF Listening, Subscribers
  <2>4. ASSUME NEW s \in audience'[t] PROVE Attentive(s, t)'
    <3>1. s \in Listening(Subscribers) /\ ready[pod[t]]
      BY <1>2, <2>4 DEF Attentive, Served
    <3>2. got[s][t] = [i \in 1..sent[t] |-> i]
      <4>1. CASE Attentive(s, t)
        BY <4>1 DEF Attentive
      <4>2. CASE pc[t] \in Early
        BY <1>0, <3>1, <4>2 DEF Hearing, NothingYet, Listening
      <4> QED BY <1>2, <2>4, <4>1, <4>2
    <3>3. got'[s][t] = [i \in 1..(sent[t] + 1) |-> i]
      BY <2>1, <2>2, <3>1, <3>2, OneMoreEvent
    <3> QED BY <1>k, <1>p, <2>1, <2>2, <2>3, <3>1, <3>3 DEF Attentive
  <2>5. ASSUME NEW u \in Turns, u # t, NEW s \in audience'[u] PROVE Attentive(s, u)'
    <3>1. Attentive(s, u) /\ s \in Sockets
      BY <1>0, <1>2, <2>5 DEF Hearing, AllAttentive, TurnTypes
    <3> QED BY <1>k, <2>1, <2>3, <2>5, <3>1 DEF Attentive, Same
  <2>6. NothingYet'
    BY <1>0, <1>2, <1>k, <2>1 DEF Hearing, NothingYet, Same
  <2> QED BY <1>0, <1>p, <2>1, <2>4, <2>5, <2>6 DEF Hearing, AllAttentive
<1>3. CASE OpenStream(t)
  <2>1. pc[t] \in Early /\ pc'[t] \notin Early /\ Broadcast(t)
    BY <1>0, <1>3 DEF OpenStream, Early, Go, TurnTypes
  <2>2. audience'[t] = Served(pod[t])
    BY <1>0, <1>3 DEF OpenStream, TurnTypes
  <2>3. \A u \in Turns : u # t => audience'[u] = audience[u]
    BY <1>k DEF Same
  <2> QED BY <1>2, <2>1, <2>2, <2>3
<1>4. CASE Broadcast(t) /\ UNCHANGED audience /\ pc'[t] \notin Early
  <2>1. \A s \in audience'[t] : Attentive(s, t)
    BY <1>0, <1>4 DEF Hearing, AllAttentive
  <2> QED BY <1>2, <1>4, <2>1
<1> QED BY <1>0, <1>1, <1>3, <1>4, TurnKinds

LEMMA HearChannel ==
  ASSUME HearInv, ChannelStep, mishaps = 0
  PROVE  Hearing'
<1>0. /\ TurnTypes /\ GotTypes /\ ListenTypes /\ Hearing
      /\ UNCHANGED <<pc, pod, sent>>
      /\ \A t \in Turns : audience'[t] = {s \in audience[t] : state'[s] = "open"}
  BY DEF HearInv, Hearing, SubInv, ChannelStep
<1> DEFINE Kept ==
      /\ \A p \in Pods : late'[p] = <<>>
      /\ \A p \in Pods : ready[p] => ready'[p]
      /\ \A s \in Sockets : got'[s] = got[s] \/ got'[s] = Nothing
      /\ \A s \in Listening(Subscribers) :
           state'[s] = "open" => s \in Listening(Subscribers)' /\ got'[s] = got[s]
<1>1. ASSUME Kept PROVE Hearing'
  <2>1. NothingYet'
    BY <1>0, <1>1 DEF Hearing, NothingYet, Nothing
  <2>2. ASSUME NEW t \in Turns, NEW s \in audience'[t] PROVE Attentive(s, t)'
    <3>1. s \in audience[t] /\ state'[s] = "open"
      BY <1>0, <2>2
    <3>2. Attentive(s, t)
      BY <1>0, <3>1 DEF Hearing, AllAttentive
    <3>3. pod[t] \in Pods /\ ready'[pod[t]]
      BY <1>1, <3>2 DEF Attentive
    <3> QED BY <1>0, <1>1, <3>1, <3>2, <3>3 DEF Attentive
  <2>3. PodKnown'
    BY <1>0 DEF Hearing, PodKnown
  <2> QED BY <1>1, <2>1, <2>2, <2>3 DEF Hearing, AllAttentive
<1> USE DEF ListenTypes, Hearing, Listening, Subscribers
<1>2. ASSUME NEW p \in Pods, RedisReady(p) PROVE Kept
  BY <1>0, <1>2 DEF RedisReady
<1>3. ASSUME NEW p \in Pods, Subscribed(p) PROVE Kept
  BY <1>0, <1>3 DEF Subscribed
<1>4. ASSUME NEW p \in Pods, FallBack(p) PROVE Kept
  BY <1>0, <1>4 DEF FallBack
<1>5. ASSUME NEW p \in Pods, Refuse(p) PROVE Kept
  BY <1>0, <1>5 DEF Refuse, channelVars
<1>6. ASSUME NEW s \in Sockets, NEW p \in Pods, Open(s, p) PROVE Kept
  <2>1. \A r \in Listening(Subscribers) : r # s /\ at'[r] = at[r] /\ state'[r] = "open"
    BY <1>0, <1>6 DEF Open
  <2>2. \A r \in Listening(Subscribers) : r \in conns'[at[r]] /\ sub'[at[r]] = sub[at[r]]
    BY <1>0, <1>6, <2>1 DEF Open, Subscribe
  <2> QED BY <1>0, <1>6, <2>1, <2>2 DEF Open
<1>7. ASSUME NEW s \in Sockets, Leave(s) PROVE Kept
  BY <1>0, <1>7 DEF Leave
<1>8. ASSUME NEW s \in Sockets, Terminate(s, "none") PROVE Kept
  BY <1>0, <1>8 DEF Terminate, Remove
<1>9. ASSUME NEW s \in Sockets, Closed(s, "none") PROVE Kept
  <2>1. \A r \in Listening(Subscribers) : r # s /\ at'[r] = at[r] /\ state'[r] = "open"
    BY <1>0, <1>9 DEF Closed
  <2>2. \A r \in Listening(Subscribers) : r \in conns'[at[r]] /\ sub'[at[r]] = sub[at[r]]
    BY <1>0, <1>9, <2>1 DEF Closed, Remove
  <2> QED BY <1>0, <1>9, <2>1, <2>2 DEF Closed
<1> QED
  BY <1>1, <1>2, <1>3, <1>4, <1>5, <1>6, <1>7, <1>8, <1>9 DEF ChannelStep, ChannelNext

THEOREM HearStep == ASSUME HearInv, [Next]_vars PROVE HearInv'
<1>0. TurnTypes /\ SubInv /\ GotTypes /\ LateTypes
  BY DEF HearInv
<1>1. TurnTypes' /\ SubInv' /\ GotTypes' /\ LateTypes'
  BY <1>0, TypesKept, SubStep, EventsTyped
<1>2. ASSUME mishaps' = 0 PROVE Hearing'
  <2>0. mishaps = 0 /\ Hearing
    BY <1>0, <1>2, MishapsGrow DEF HearInv, Hearing
  <2> USE DEF Hearing, PodKnown, NothingYet, AllAttentive, Attentive, Listening, Subscribers
  <2>1. CASE UNCHANGED vars
    BY <2>0, <2>1 DEF vars, channelVars, turnVars
  <2>2. ASSUME NEW t \in Turns, NEW p \in Pods, Ask(t, p) PROVE Hearing'
    <3>1. pc[t] = "idle" /\ UNCHANGED <<channelVars, sent, audience>>
      BY <2>2 DEF Ask, Quietly
    <3>2. \A u \in Turns : u # t => pc'[u] = pc[u] /\ pod'[u] = pod[u]
      BY <1>0, <2>2, AskTypes DEF Same
    <3>3. pod' = [pod EXCEPT ![t] = p]
      BY <2>2 DEF Ask
    <3>4. pod'[t] \in Pods
      BY <1>0, <3>3 DEF TurnTypes
    <3>5. NothingYet'
      BY <2>0, <3>1, <3>2 DEF channelVars, Early
    <3>6. PodKnown'
      BY <2>0, <3>2, <3>4
    <3>7. ASSUME NEW u \in Turns, NEW s \in audience'[u] PROVE Attentive(s, u)'
      <4>1. u # t /\ Attentive(s, u)
        BY <2>0, <3>1, <3>7 DEF Early
      <4> QED BY <3>1, <3>2, <4>1 DEF channelVars
    <3> QED BY <2>0, <3>1, <3>5, <3>6, <3>7 DEF channelVars
  <2>3. ASSUME NEW t \in Turns, TurnStep(t) PROVE Hearing'
    BY <1>2, <2>0, <2>3, HearTurn
  <2>4. CASE Delete \/ Erase
    BY <2>0, <2>4, DeletionApart DEF channelVars
  <2>5. CASE ChannelStep
    BY <2>0, <2>5, HearChannel
  <2>6. ASSUME NEW p \in Pods, Crash(p) \/ SubscriptionRefused(p) PROVE FALSE
    BY <1>0, <1>2, <2>6 DEF Crash, SubscriptionRefused, Mishap, TurnTypes
  <2>7. ASSUME NEW s \in Sockets, UnsubscriptionRefused(s) PROVE FALSE
    BY <1>0, <1>2, <2>7 DEF UnsubscriptionRefused, Mishap, TurnTypes
  <2> QED BY <2>1, <2>2, <2>3, <2>4, <2>5, <2>6, <2>7 DEF Next
<1> QED BY <1>1, <1>2 DEF HearInv, Hearing

\* Whoever listened when the stream began, and ever since, hears everything.
THEOREM AudienceAlwaysHears == Spec => []AudienceHearsAll
<1>1. Init => HearInv
  <2>1. Init => TurnTypes
    BY RowsInit DEF RowsInv
  <2>2. Init => SubInv
    BY DEF Init, ChannelInit, SubInv, ListenTypes, SubscribedWhileListening
  <2>3. Init => GotTypes /\ LateTypes
    BY NothingTyped DEF Init, ChannelInit, GotTypes, LateTypes
  <2>4. ASSUME Init PROVE Hearing
    <3>1. (\A p \in Pods : late[p] = <<>>) /\ NothingYet
      BY <2>4 DEF Init, ChannelInit, NothingYet, Nothing
    <3>2. PodKnown
      BY <2>4 DEF Init, PodKnown, Busy, Requesting, Streaming, Storing, Failing
    <3>3. AllAttentive
      BY <2>4 DEF Init, AllAttentive
    <3> QED BY <3>1, <3>2, <3>3 DEF Hearing
  <2> QED BY <2>1, <2>2, <2>3, <2>4 DEF HearInv
<1>2. HearInv => AudienceHearsAll
  BY DEF HearInv, Hearing, AllAttentive, Attentive, AudienceHearsAll
<1> QED BY <1>1, <1>2, HearStep, PTL DEF Spec

-----------------------------------------------------------------------------
(* Types *)

Opens == opens \in 0..MaxOpens

\* How many events a turn may have broadcast where it is: the envelope and the
\* live ones, the trace event of a failure, the answer.
SentBy(t) ==
  /\ pc[t] \in Early => sent[t] = 0
  /\ pc[t] \in {"stream", "failSettle", "failBump", "failTrace", "failTools", "failTell"}
                   \cup Storing => sent[t] <= MaxLive + 1
  /\ pc[t] = "failFinal" => sent[t] <= MaxLive + 2
  /\ sent[t] <= MaxLive + 3

AllSentBy == \A t \in Turns : SentBy(t)

LEMMA OpensStep == ASSUME Opens, [Next]_vars PROVE Opens'
<1> USE ChannelAssumption DEF Opens
<1>1. CASE UNCHANGED vars
  BY <1>1 DEF vars, channelVars
<1>2. ASSUME NEW t \in Turns, TurnStep(t) PROVE Opens'
  <2> USE DEF Quietly, Broadcast, channelVars
  <2>1. CASE RequestStep(t)
    BY <2>1 DEF RequestStep, InsertQuestion, InsertPlaceholder, Touch, RequestFails
  <2>2. CASE StreamStep(t)
    BY <2>2 DEF StreamStep, OpenStream, LiveEvent, FinalEvent, StreamEnds, StreamRaises
  <2>3. CASE StoreStep(t)
    BY <2>3 DEF StoreStep, Settle, Bump, StoreFails, InsertTraces, InsertTools,
          PersistFails, Tell
  <2>4. CASE FailStep(t)
    BY <2>4 DEF FailStep, FailSettle, FailBump, FailTraces, FailTools,
          FailStoreFails, FailTell, FailFinal
  <2> QED BY <1>2, <2>1, <2>2, <2>3, <2>4, Parts
<1>3. CASE Delete \/ Erase \/ \E t \in Turns, p \in Pods : Ask(t, p)
  BY <1>3, DeletionApart DEF Ask, Quietly, channelVars
<1>4. CASE ChannelStep
  <2>1. ASSUME NEW s \in Sockets, NEW p \in Pods, Open(s, p) PROVE Opens'
    BY <2>1 DEF Open
  <2>2. ASSUME NEW p \in Pods, RedisReady(p) \/ Subscribed(p) \/ FallBack(p) \/ Refuse(p)
        PROVE  Opens'
    BY <2>2 DEF RedisReady, Subscribed, FallBack, Refuse, channelVars
  <2>3. ASSUME NEW s \in Sockets, Leave(s) \/ Terminate(s, "none") \/ Closed(s, "none")
        PROVE  Opens'
    BY <2>3 DEF Leave, Terminate, Closed
  <2> QED BY <1>4, <2>1, <2>2, <2>3 DEF ChannelStep, ChannelNext
<1>5. CASE \E p \in Pods : Crash(p) \/ SubscriptionRefused(p)
  BY <1>5 DEF Crash, PodDies, SubscriptionRefused, SubscribeFails
<1>6. CASE \E s \in Sockets : UnsubscriptionRefused(s)
  BY <1>6 DEF UnsubscriptionRefused, UnsubscribeFails, Terminate, Closed
<1> QED BY <1>1, <1>2, <1>3, <1>4, <1>5, <1>6 DEF Next

\* A turn that takes a step; the others have what they had.
LEMMA SentTurn ==
  ASSUME TurnTypes, AllSentBy, NEW t \in Turns, TurnStep(t)
  PROVE  AllSentBy'
<1> USE ConversationAssumption DEF TurnTypes, Go
<1> USE DEF Early, Storing
<1>1. \A u \in Turns \ {t} : SentBy(u)'
  BY TurnAlone DEF AllSentBy, SentBy, Same
<1>2. SentBy(t) /\ sent[t] \in Nat
  BY DEF AllSentBy
<1>3. ASSUME Broadcast(t) PROVE sent'[t] = sent[t] + 1
  BY <1>3 DEF Broadcast
<1>4. CASE RequestStep(t)
  BY <1>1, <1>2, <1>4 DEF AllSentBy, SentBy, RequestStep, InsertQuestion, InsertPlaceholder,
        Touch, RequestFails, Quietly, Requesting
<1>5. CASE StreamStep(t)
  <2>1. CASE OpenStream(t)
    BY <1>1, <1>2, <1>3, <2>1 DEF AllSentBy, SentBy, OpenStream
  <2>2. CASE LiveEvent(t)
    BY <1>1, <1>2, <1>3, <2>2 DEF AllSentBy, SentBy, LiveEvent
  <2>3. CASE FinalEvent(t) \/ StreamEnds(t) \/ StreamRaises(t)
    <3>1. sent' = sent
      BY <2>3 DEF FinalEvent, StreamEnds, StreamRaises, Quietly
    <3>2. sent[t] <= MaxLive + 1 /\ pc'[t] \notin Early \cup {"failFinal"}
      BY <1>2, <2>3 DEF SentBy, FinalEvent, StreamEnds, StreamRaises, Streaming
    <3> QED BY <1>1, <1>2, <3>1, <3>2 DEF AllSentBy, SentBy
  <2> QED BY <1>5, <2>1, <2>2, <2>3 DEF StreamStep
<1>6. CASE StoreStep(t)
  <2>1. CASE Tell(t)
    BY <1>1, <1>2, <1>3, <2>1 DEF AllSentBy, SentBy, Tell
  <2>2. CASE ~Tell(t)
    <3>1. sent' = sent
      BY <1>6, <2>2 DEF StoreStep, Settle, Bump, StoreFails, InsertTraces, InsertTools,
            PersistFails, Quietly
    <3>2. pc[t] \in Storing /\ pc'[t] \in Storing \cup {"failSettle"}
      BY <1>6, <2>2 DEF StoreStep, Settle, Bump, StoreFails, InsertTraces, InsertTools,
            PersistFails
    <3> QED BY <1>1, <1>2, <3>1, <3>2 DEF AllSentBy, SentBy
  <2> QED BY <2>1, <2>2
<1>7. CASE FailStep(t)
  <2>1. CASE FailTell(t)
    BY <1>1, <1>2, <1>3, <2>1 DEF AllSentBy, SentBy, FailTell
  <2>2. CASE FailFinal(t)
    BY <1>1, <1>2, <1>3, <2>2 DEF AllSentBy, SentBy, FailFinal
  <2>3. CASE ~FailTell(t) /\ ~FailFinal(t)
    <3>1. sent' = sent
      BY <1>7, <2>3 DEF FailStep, FailSettle, FailBump, FailTraces, FailTools,
            FailStoreFails, Quietly
    <3>2. /\ pc[t] \in {"failSettle", "failBump", "failTrace", "failTools"}
          /\ pc'[t] \in {"failBump", "failTrace", "failTools", "failTell"}
      BY <1>7, <2>3 DEF FailStep, FailSettle, FailBump, FailTraces, FailTools, FailStoreFails
    <3> QED BY <1>1, <1>2, <3>1, <3>2 DEF AllSentBy, SentBy
  <2> QED BY <2>1, <2>2, <2>3
<1> QED BY <1>4, <1>5, <1>6, <1>7, Parts

LEMMA SentStep == ASSUME TurnTypes, AllSentBy, [Next]_vars PROVE AllSentBy'
<1>1. CASE UNCHANGED <<pc, sent>>
  BY <1>1 DEF AllSentBy, SentBy
<1>2. ASSUME NEW t \in Turns, NEW p \in Pods, Ask(t, p) PROVE AllSentBy'
  BY <1>2, ConversationAssumption
     DEF Ask, Go, Quietly, AllSentBy, SentBy, Early, Storing, TurnTypes
<1>3. ASSUME NEW t \in Turns, TurnStep(t) PROVE AllSentBy'
  BY <1>3, SentTurn
<1>4. ASSUME NEW p \in Pods, Crash(p) PROVE AllSentBy'
  BY <1>4 DEF Crash, AllSentBy, SentBy, Early, Storing, TurnTypes
<1> QED
  BY <1>1, <1>2, <1>3, <1>4, DeletionApart
     DEF Next, vars, turnVars, ChannelStep, SubscriptionRefused, UnsubscriptionRefused

\* Turns, rows and channel never leave their types, and no turn broadcasts more
\* than its events, the failure's and the answer.
THEOREM TypeCorrect == Spec => []TypeOK
<1> DEFINE I == TurnTypes /\ SubInv /\ GotTypes /\ LateTypes /\ Opens /\ AllSentBy
<1>1. Init => I
  <2>1. Init => TurnTypes
    BY RowsInit DEF RowsInv
  <2>2. Init => SubInv
    BY DEF Init, ChannelInit, SubInv, ListenTypes, SubscribedWhileListening
  <2>3. Init => GotTypes /\ LateTypes
    BY NothingTyped DEF Init, ChannelInit, GotTypes, LateTypes
  <2>4. Init => Opens
    BY ChannelAssumption DEF Init, ChannelInit, Opens
  <2>5. Init => AllSentBy
    BY ConversationAssumption DEF Init, AllSentBy, SentBy, Early, Storing
  <2> QED BY <2>1, <2>2, <2>3, <2>4, <2>5
<1>2. I /\ [Next]_vars => I'
  BY TypesKept, SubStep, EventsTyped, OpensStep, SentStep
<1>3. I => TypeOK
  <2> SUFFICES ASSUME I PROVE TypeOK
    OBVIOUS
  <2>1. ChannelTypeOK
    BY DEF ChannelTypeOK, SubInv, ListenTypes, GotTypes, LateTypes, Opens
  <2>2. sent \in [Turns -> 0..(MaxLive + 3)]
    <3>1. \A t \in Turns : sent[t] \in 0..(MaxLive + 3)
      BY ConversationAssumption DEF TurnTypes, AllSentBy, SentBy
    <3> QED BY <3>1 DEF TurnTypes
  <2> QED BY <2>1, <2>2 DEF TypeOK, TurnTypes
<1> QED BY <1>1, <1>2, <1>3, PTL DEF Spec

-----------------------------------------------------------------------------
(* The contract of a turn *)

\* The rows of an answer are there while the conversation is, from the insertion
\* of the placeholder on, and go with it, or are cut by a deletion that has not got
\* to the end; such a turn's answer is gone or its trace rows were stored before.
KeptRow(t) ==
  /\ ~exists => reply[t] = "absent" /\ traces[t] = "none"
  /\ exists /\ (pc[t] \in Busy \ {"ask", "place"} \/ told[t] # "nothing") =>
       reply[t] # "absent" \/ t \in cut
  /\ t \in cut => pc[t] \notin {"idle", "ask", "place"}
  /\ t \in cut =>
       reply[t] = "absent" \/ pc[t] \in {"tools", "tell", "failTools", "failTell", "failFinal",
                                       "end", "dead"}
Kept == (erase # "no" => exists) /\ \A t \in Turns : KeptRow(t)

LEMMA KeptTurn ==
  ASSUME RowsInv, NEW t \in Turns, KeptRow(t), TurnStep(t)
  PROVE  KeptRow(t)'
<1>0. TurnTypes /\ RowInv(t) /\ UNCHANGED task
  BY TurnsLeaveTask DEF RowsInv
<1>r. told[t] # "nothing" => pc[t] = "end"
  BY <1>0 DEF RowInv, ReplyFits
<1> USE <1>0, <1>r DEF TurnTypes, KeptRow, Go, Quietly, rows, Busy, Requesting, Streaming, Storing, Failing
<1>1. CASE RequestStep(t)
  BY <1>1 DEF RequestStep, InsertQuestion, InsertPlaceholder, Touch, RequestFails
<1>2. CASE StreamStep(t)
  BY <1>2 DEF StreamStep, OpenStream, LiveEvent, FinalEvent, StreamEnds, StreamRaises
<1>3. CASE StoreStep(t)
  <2>1. CASE Settle(t)
    BY <2>1 DEF Settle, Content
  <2>2. CASE Bump(t) \/ StoreFails(t) \/ InsertTraces(t) \/ InsertTools(t) \/ PersistFails(t) \/ Tell(t)
    BY <2>2 DEF Bump, StoreFails, InsertTraces, InsertTools, PersistFails, Tell
  <2> QED BY <1>3, <2>1, <2>2 DEF StoreStep
<1>4. CASE FailStep(t)
  BY <1>4 DEF FailStep, FailSettle, FailBump, FailTraces, FailTools, FailStoreFails,
     FailTell, FailFinal
<1> QED BY <1>1, <1>2, <1>3, <1>4, Parts

\* A deletion goes on as long as there is a conversation to delete.
LEMMA DeletionKinds ==
  ASSUME erase # "no" => exists, [Next]_vars
  PROVE  (erase # "no" => exists)'
<1>1. CASE UNCHANGED task
  BY <1>1
<1>2. CASE Delete \/ Erase
  BY <1>2 DEF Delete, Erase, ListMessages, EraseTools, EraseTraces, EraseMessages,
     EraseConversation, EraseStops, Gone
<1>3. UNCHANGED task \/ Delete \/ Erase
  BY TurnsLeaveTask
     DEF Next, vars, turnVars, ChannelStep, Crash, SubscriptionRefused, UnsubscriptionRefused
<1> QED BY <1>1, <1>2, <1>3

LEMMA KeptStep ==
  ASSUME RowsInv, Kept, [Next]_vars
  PROVE  Kept'
<1>0. TurnTypes
  BY DEF RowsInv
<1>e. (erase # "no" => exists)'
  BY DeletionKinds DEF Kept
<1> SUFFICES ASSUME NEW u \in Turns PROVE KeptRow(u)'
  BY <1>e DEF Kept
<1>u. KeptRow(u) /\ RowInv(u)
  BY DEF Kept, RowsInv
<1>s. ASSUME Same(u), UNCHANGED task PROVE KeptRow(u)'
  BY <1>s, <1>u DEF KeptRow, Same
<1>1. CASE UNCHANGED vars
  BY <1>1, <1>u DEF vars, turnVars, KeptRow
<1>2. ASSUME NEW t \in Turns, NEW p \in Pods, Ask(t, p) PROVE KeptRow(u)'
  <2>1. UNCHANGED <<exists, cut, reply, traces, told>>
    BY <1>2 DEF Ask, Quietly, rows
  <2>2. pc'[u] = pc[u] \/ (pc[u] = "idle" /\ pc'[u] \in {"ask", "end"})
    <3>1. pc[t] = "idle" /\ \E l \in {"ask", "end"} : pc' = [pc EXCEPT ![t] = l]
      BY <1>2 DEF Ask, Go
    <3> QED BY <1>0, <3>1 DEF TurnTypes
  <2> QED BY <1>u, <2>1, <2>2 DEF KeptRow, Busy, Requesting, Streaming, Storing, Failing
<1>3. ASSUME NEW t \in Turns, TurnStep(t) PROVE KeptRow(u)'
  <2>1. KeptRow(t)' /\ UNCHANGED task
    BY <1>3, KeptTurn, TurnsLeaveTask DEF Kept
  <2>2. CASE u = t
    BY <2>1, <2>2
  <2>3. CASE u # t
    <3>1. Same(u)
      BY <1>0, <1>3, <2>3, Parts, RequestTypes, StreamTypes, StoreTypes, FailTypes
    <3> QED BY <2>1, <3>1, <1>s
  <2> QED BY <2>2, <2>3
<1>4. CASE Delete \/ Erase
  <2>0. UNCHANGED <<pc, told>>
    BY <1>4, DeletionApart
  <2>1. CASE Delete \/ EraseConversation
    BY <2>0, <2>1 DEF Delete, EraseConversation, Gone, NoRows, KeptRow
  <2>2. CASE EraseMessages
    <3>1. reply[u] # "absent" => pc[u] \notin {"idle", "ask", "place"}
      BY <1>u DEF RowInv, ReplyFits
    <3>2. /\ reply'[u] = "absent" /\ traces'[u] = "none" /\ exists' = exists
          /\ u \in cut' <=> u \in cut \/ reply[u] # "absent"
      BY <2>2 DEF EraseMessages, NoRows
    <3> QED BY <1>u, <2>0, <3>1, <3>2 DEF KeptRow
  <2>3. CASE EraseTraces
    <3>1. traces[u] # "none" =>
            pc[u] \in {"tools", "tell", "failTools", "failTell", "failFinal", "end", "dead"}
      BY <1>0, <1>u DEF RowInv, EvidenceAt, TurnTypes, Busy, Requesting, Streaming, Storing, Failing
    <3>2. /\ exists' = exists /\ reply' = reply
          /\ traces'[u] \in {traces[u], "none"}
          /\ u \in cut => u \in cut'
          /\ u \in cut' => u \in cut \/ traces[u] # "none"
      BY <2>3 DEF EraseTraces
    <3> QED BY <1>u, <2>0, <3>1, <3>2 DEF KeptRow
  <2>4. CASE ListMessages \/ EraseTools \/ EraseStops
    <3>1. UNCHANGED <<exists, cut, reply, traces>>
      BY <2>4 DEF ListMessages, EraseTools, EraseStops, rows
    <3> QED BY <1>u, <2>0, <3>1 DEF KeptRow
  <2> QED BY <1>4, <2>1, <2>2, <2>3, <2>4 DEF Erase
<1>5. CASE \/ ChannelStep \/ \E p \in Pods : SubscriptionRefused(p)
           \/ \E s \in Sockets : UnsubscriptionRefused(s)
  <2>1. UNCHANGED <<exists, cut, pc, reply, traces, told>>
    BY <1>5 DEF ChannelStep, SubscriptionRefused, UnsubscriptionRefused, rows
  <2> QED BY <1>u, <2>1 DEF KeptRow
<1>6. ASSUME NEW p \in Pods, Crash(p) PROVE KeptRow(u)'
  <2>1. UNCHANGED <<exists, cut, reply, traces, told>>
    BY <1>6 DEF Crash, rows
  <2>2. pc'[u] = pc[u] \/ (pc[u] \in Busy /\ pc'[u] = "dead")
    <3>1. pc' = [t \in Turns |-> IF pod[t] = p /\ pc[t] \in Busy THEN "dead" ELSE pc[t]]
      BY <1>6 DEF Crash
    <3> QED BY <3>1
  <2> QED BY <1>u, <2>1, <2>2 DEF KeptRow, Busy, Requesting, Streaming, Storing, Failing
<1> QED BY <1>1, <1>2, <1>3, <1>4, <1>5, <1>6 DEF Next

LEMMA KeptInvariant == Spec => []Kept
<1>1. Init => Kept
  <2>1. "idle" \notin Busy
    BY DEF Busy, Requesting, Streaming, Storing, Failing
  <2> QED BY <2>1 DEF Init, Kept, KeptRow
<1> QED BY <1>1, KeptStep, RowsInvariant, PTL DEF Spec

\* What viewers are told is what is stored, as long as the conversation and the
\* answer are not deleted.
THEOREM ToldStored == Spec => []ToldIsStored
<1>1. RowsInv /\ Kept => ToldIsStored
  BY DEF RowsInv, RowInv, Told, Kept, KeptRow, ToldIsStored
<1> QED BY <1>1, RowsInvariant, KeptInvariant, PTL

\* The turns whose statement at place l failed.
FailedAt(l) == {t \in Turns : l \in failed[t]}

\* A step that touches no row and no failure is none of the contract.
LEMMA TurnStill ==
  ASSUME UNCHANGED <<exists, erase, cut, reply, traces, told, failed>>
  PROVE  UNCHANGED Contract!vars
  BY DEF Contract!vars

\* A failed statement that stores nothing.
LEMMA TurnFails ==
  ASSUME TurnTypes, NEW t \in Turns, told[t] = "nothing", Fails(t), pc[t] \in Busy,
         UNCHANGED <<exists, erase, cut, reply, traces, told>>
  PROVE  [Contract!Next]_Contract!vars
<1>1. failed' = [failed EXCEPT ![t] = @ \cup ({pc[t]} \cap Crucial)]
  BY DEF Fails
<1>2. ASSUME NEW l \in Crucial
      PROVE  FailedAt(l)' = IF pc[t] = l THEN FailedAt(l) \cup {t} ELSE FailedAt(l)
  <2>1. \A u \in Turns : l \in failed'[u] <=> l \in failed[u] \/ (u = t /\ pc[t] = l)
    <3> HIDE DEF Crucial
    <3> QED BY <1>1, <1>2 DEF TurnTypes
  <2> QED BY <2>1 DEF FailedAt
<1>3. "bump" \in Crucial /\ "failSettle" \in Crucial
  OBVIOUS
<1>4. CASE pc[t] = "bump"
  <2>1. FailedAt("bump")' = FailedAt("bump") \cup {t} /\ UNCHANGED FailedAt("failSettle")
    BY <1>2, <1>3, <1>4
  <2>2. Contract!Fail(t)
    BY <2>1 DEF Contract!Fail, Contract!Untold, FailedAt
  <2> QED BY <2>2 DEF Contract!Next
<1>5. CASE pc[t] = "failSettle"
  <2>1. FailedAt("failSettle")' = FailedAt("failSettle") \cup {t} /\ UNCHANGED FailedAt("bump")
    BY <1>2, <1>3, <1>5
  <2>2. Contract!Fail(t)
    BY <2>1 DEF Contract!Fail, Contract!Untold, FailedAt
  <2> QED BY <2>2 DEF Contract!Next
<1>6. CASE pc[t] \notin {"bump", "failSettle"}
  <2>1. UNCHANGED <<FailedAt("bump"), FailedAt("failSettle")>>
    BY <1>2, <1>3, <1>6
  <2> QED BY <2>1 DEF Contract!vars, FailedAt
<1> QED BY <1>4, <1>5, <1>6

\* The answer's row gets its text.
LEMMA TurnAnswers ==
  ASSUME NEW t \in Turns, told[t] = "nothing", NEW text \in Settled,
         reply' = [reply EXCEPT ![t] = IF @ = "absent" THEN @ ELSE text],
         \/ reply[t] \in {Thinking, "absent"}
         \/ /\ text = "failure" /\ reply[t] \in Settled
            /\ "bump" \in failed[t] /\ t \notin cut /\ traces[t] = "none",
         TurnTypes, UNCHANGED <<exists, erase, cut, traces, told, failed>>
  PROVE  [Contract!Next]_Contract!vars
<1>1. CASE reply[t] = "absent"
  <2>1. reply' = reply
    BY <1>1 DEF TurnTypes
  <2> QED BY <2>1, TurnStill
<1>2. CASE reply[t] = Thinking
  <2>1. Contract!Answer(t)
    BY <1>2 DEF Contract!Answer, Contract!Untold
  <2> QED BY <2>1 DEF Contract!Next
<1>3. CASE /\ text = "failure" /\ reply[t] \in Settled
           /\ "bump" \in failed[t] /\ t \notin cut /\ traces[t] = "none"
  <2>1. Contract!Retract(t)
    BY <1>3 DEF Contract!Retract, Contract!Untold
  <2> QED BY <2>1 DEF Contract!Next
<1> QED BY <1>1, <1>2, <1>3

\* Trace rows are stored for the text that is there.
LEMMA TurnProves ==
  ASSUME NEW t \in Turns, told[t] = "nothing", traces[t] = "none", reply[t] \in Settled,
         t \notin cut,
         traces' = [traces EXCEPT ![t] = IF reply[t] = "failure" THEN "failure" ELSE "turn"],
         UNCHANGED <<exists, erase, cut, reply, told, failed>>
  PROVE  [Contract!Next]_Contract!vars
<1>1. Contract!Prove(t)
  BY DEF Contract!Prove, Contract!Untold
<1> QED BY <1>1 DEF Contract!Next

\* Viewers are told.
LEMMA TurnTells ==
  ASSUME NEW t \in Turns, told[t] = "nothing", NEW text \in Settled,
         \/ exists /\ text = reply[t]
         \/ ~exists
         \/ t \in cut /\ reply[t] = "absent"
         \/ "failSettle" \in failed[t] /\ text = "failure",
         told' = [told EXCEPT ![t] = text],
         UNCHANGED <<exists, erase, cut, reply, traces, failed>>
  PROVE  [Contract!Next]_Contract!vars
<1>1. Contract!Tell(t)
  BY DEF Contract!Tell, Contract!Untold
<1> QED BY <1>1 DEF Contract!Next

LEMMA TurnOfRequest ==
  ASSUME RowsInv, Kept, NEW t \in Turns, RequestStep(t)
  PROVE  [Contract!Next]_Contract!vars
<1>0. TurnTypes /\ RowInv(t) /\ KeptRow(t)
  BY DEF RowsInv, Kept
<1>1. pc[t] \in {"ask", "place", "touch"}
  BY DEF RequestStep, InsertQuestion, InsertPlaceholder, Touch, RequestFails, Requesting
<1>2. told[t] = "nothing"
  BY <1>0, <1>1 DEF RowInv, ReplyFits
<1>3. CASE InsertPlaceholder(t) /\ exists
  <2>1. reply[t] = "absent" /\ t \notin cut
    BY <1>0, <1>3 DEF RowInv, ReplyFits, KeptRow, InsertPlaceholder
  <2>2. /\ reply' = [reply EXCEPT ![t] = Thinking]
        /\ UNCHANGED <<exists, erase, cut, traces, told, failed>>
    BY <1>3 DEF InsertPlaceholder, Quietly
  <2>3. Contract!Place(t)
    BY <1>2, <1>3, <2>1, <2>2 DEF Contract!Place, Contract!Untold
  <2> QED BY <2>3 DEF Contract!Next
<1>4. CASE RequestFails(t)
  <2>1. Fails(t) /\ UNCHANGED <<exists, erase, cut, reply, traces, told>>
    BY <1>4 DEF RequestFails, Quietly, rows
  <2> QED BY <1>0, <1>1, <1>2, <2>1, TurnFails DEF Busy, Requesting
<1>5. CASE InsertQuestion(t) \/ Touch(t) \/ (InsertPlaceholder(t) /\ ~exists)
  <2>1. UNCHANGED <<exists, erase, cut, reply, traces, told, failed>>
    BY <1>5 DEF InsertQuestion, Touch, InsertPlaceholder, Quietly, rows
  <2> QED BY <2>1, TurnStill
<1> QED BY <1>3, <1>4, <1>5 DEF RequestStep

LEMMA TurnOfStream ==
  ASSUME NEW t \in Turns, StreamStep(t)
  PROVE  [Contract!Next]_Contract!vars
<1>1. UNCHANGED <<exists, erase, cut, reply, traces, told, failed>>
  BY DEF StreamStep, OpenStream, LiveEvent, FinalEvent, StreamEnds, StreamRaises, Quietly, rows
<1> QED BY <1>1, TurnStill

LEMMA TurnOfStore ==
  ASSUME RowsInv, Kept, NEW t \in Turns, StoreStep(t)
  PROVE  [Contract!Next]_Contract!vars
<1>0. TurnTypes /\ RowInv(t) /\ KeptRow(t)
  BY DEF RowsInv, Kept
<1>1. pc[t] \in Storing
  BY DEF StoreStep, Settle, Bump, StoreFails, InsertTraces, InsertTools, PersistFails, Tell, Storing
<1>2. told[t] = "nothing"
  BY <1>0, <1>1 DEF RowInv, ReplyFits, Storing
<1>3. Content(t) \in Settled \ {"failure"} /\ pc[t] \in Busy \ {"ask", "place"}
  BY <1>1 DEF Content, Busy, Storing
<1>4. CASE Settle(t)
  <2>1. reply[t] \in {Thinking, "absent"}
    BY <1>0, <1>4 DEF Settle, RowInv, ReplyFits
  <2>2. /\ reply' = [reply EXCEPT ![t] = IF @ = "absent" THEN @ ELSE Content(t)]
        /\ UNCHANGED <<exists, erase, cut, traces, told, failed>>
    BY <1>4 DEF Settle, Quietly
  <2> QED BY <1>0, <1>2, <1>3, <2>1, <2>2, TurnAnswers
<1>5. CASE StoreFails(t) \/ PersistFails(t)
  <2>1. Fails(t) /\ UNCHANGED <<exists, erase, cut, reply, traces, told>>
    BY <1>5 DEF StoreFails, PersistFails, Quietly, rows
  <2> QED BY <1>0, <1>2, <1>3, <2>1, TurnFails
<1>6. CASE InsertTraces(t) /\ reply[t] # "absent"
  <2>1. traces[t] = "none" /\ reply[t] = Content(t) /\ t \notin cut
    BY <1>0, <1>6 DEF InsertTraces, RowInv, EvidenceAt, ReplyFits, KeptRow
  <2>2. /\ traces' = [traces EXCEPT ![t] = IF reply[t] = "failure" THEN "failure" ELSE "turn"]
        /\ UNCHANGED <<exists, erase, cut, reply, told, failed>>
    BY <1>3, <1>6, <2>1 DEF InsertTraces, Quietly
  <2> QED BY <1>2, <1>3, <2>1, <2>2, TurnProves
<1>7. CASE Tell(t)
  <2>1. /\ told' = [told EXCEPT ![t] = Content(t)]
        /\ UNCHANGED <<exists, erase, cut, reply, traces, failed>>
    BY <1>7 DEF Tell, rows
  <2>2. reply[t] \in {Content(t), "absent"}
    BY <1>0, <1>7 DEF Tell, RowInv, ReplyFits
  <2>3. exists => reply[t] # "absent" \/ t \in cut
    BY <1>0, <1>3 DEF KeptRow
  <2> QED BY <1>2, <1>3, <2>1, <2>2, <2>3, TurnTells
<1>8. CASE Bump(t) \/ InsertTools(t) \/ (InsertTraces(t) /\ reply[t] = "absent")
  <2>1. UNCHANGED <<exists, erase, cut, reply, traces, told, failed>>
    BY <1>8 DEF Bump, InsertTools, InsertTraces, Quietly, rows
  <2> QED BY <2>1, TurnStill
<1> QED BY <1>4, <1>5, <1>6, <1>7, <1>8 DEF StoreStep

LEMMA TurnOfFailure ==
  ASSUME RowsInv, Kept, NEW t \in Turns, FailStep(t)
  PROVE  [Contract!Next]_Contract!vars
<1>0. TurnTypes /\ RowInv(t) /\ KeptRow(t)
  BY DEF RowsInv, Kept
<1>1. pc[t] \in Failing
  BY DEF FailStep, FailSettle, FailBump, FailTraces, FailTools, FailStoreFails, FailTell,
     FailFinal, Failing
<1>2. told[t] = "nothing"
  BY <1>0, <1>1 DEF RowInv, ReplyFits, Failing
<1>3. pc[t] \in Busy \ {"ask", "place"}
  BY <1>1 DEF Busy, Failing
<1>4. CASE FailSettle(t)
  <2>1. /\ "bump" \notin failed[t] => reply[t] \in {Thinking, "absent"}
        /\ traces[t] = "none"
        /\ reply[t] \in Settled \cup {Thinking, "absent"}
        /\ t \in cut => reply[t] = "absent"
    BY <1>0, <1>4 DEF FailSettle, RowInv, ReplyFits, EvidenceAt, KeptRow, TurnTypes
  <2>2. /\ reply' = [reply EXCEPT ![t] = IF @ = "absent" THEN @ ELSE "failure"]
        /\ UNCHANGED <<exists, erase, cut, traces, told, failed>>
    BY <1>4 DEF FailSettle, Quietly
  <2> QED BY <1>0, <1>2, <2>1, <2>2, TurnAnswers
<1>5. CASE FailStoreFails(t)
  <2>1. Fails(t) /\ UNCHANGED <<exists, erase, cut, reply, traces, told>>
    BY <1>5 DEF FailStoreFails, Quietly, rows
  <2> QED BY <1>0, <1>2, <1>3, <2>1, TurnFails
<1>6. CASE FailTraces(t) /\ reply[t] # "absent"
  <2>1. traces[t] = "none" /\ reply[t] = "failure" /\ t \notin cut
    BY <1>0, <1>6 DEF FailTraces, RowInv, EvidenceAt, ReplyFits, KeptRow
  <2>2. /\ traces' = [traces EXCEPT ![t] = IF reply[t] = "failure" THEN "failure" ELSE "turn"]
        /\ UNCHANGED <<exists, erase, cut, reply, told, failed>>
    BY <1>6, <2>1 DEF FailTraces, Quietly
  <2> QED BY <1>2, <2>1, <2>2, TurnProves
<1>7. CASE FailFinal(t)
  <2>1. /\ told' = [told EXCEPT ![t] = "failure"]
        /\ UNCHANGED <<exists, erase, cut, reply, traces, failed>>
    BY <1>7 DEF FailFinal, rows
  <2>2. "failSettle" \in failed[t] \/ reply[t] \in {"failure", "absent"}
    BY <1>0, <1>7 DEF FailFinal, RowInv, ReplyFits
  <2>3. exists => reply[t] # "absent" \/ t \in cut
    BY <1>0, <1>3 DEF KeptRow
  <2> QED BY <1>2, <2>1, <2>2, <2>3, TurnTells
<1>8. CASE \/ FailBump(t) \/ FailTools(t) \/ FailTell(t)
           \/ FailTraces(t) /\ reply[t] = "absent"
  <2>1. UNCHANGED <<exists, erase, cut, reply, traces, told, failed>>
    BY <1>8 DEF FailBump, FailTools, FailTell, FailTraces, Quietly, rows
  <2> QED BY <2>1, TurnStill
<1> QED BY <1>4, <1>5, <1>6, <1>7, <1>8 DEF FailStep

\* A deletion is one of the contract's, step by step.
LEMMA DeletionContract ==
  ASSUME erase # "no" => exists, listed \subseteq Turns, Delete \/ Erase
  PROVE  [Contract!Next]_Contract!vars
<1>0. UNCHANGED <<told, failed>>
  BY DeletionApart
<1>1. CASE Delete \/ EraseConversation
  <2>1. /\ exists /\ exists' = FALSE /\ erase' = "no" /\ cut' = {}
        /\ reply' = [t \in Turns |-> "absent"] /\ traces' = [t \in Turns |-> "none"]
    BY <1>1 DEF Delete, EraseConversation, Gone, NoRows
  <2>2. Contract!Delete
    BY <1>0, <2>1 DEF Contract!Delete
  <2> QED BY <2>2 DEF Contract!Next
<1>2. CASE ListMessages
  <2>1. Contract!BeginErase
    BY <1>0, <1>2 DEF ListMessages, rows, Contract!BeginErase
  <2> QED BY <2>1 DEF Contract!Next
<1>3. CASE EraseTools
  <2>1. UNCHANGED <<exists, cut, reply, traces>> /\ erase # "no" /\ erase' # "no"
    BY <1>3 DEF EraseTools
  <2> QED BY <1>0, <2>1 DEF Contract!vars
<1>4. CASE EraseTraces
  <2>1. Contract!Strip(listed)
    BY <1>0, <1>4 DEF EraseTraces, Contract!Strip
  <2> QED BY <1>4, <2>1 DEF Contract!Next
<1>5. CASE EraseMessages
  <2>1. /\ reply' = [t \in Turns |-> "absent"] /\ traces' = [t \in Turns |-> "none"]
        /\ exists' = exists /\ erase # "no" /\ erase' # "no"
        /\ cut' = cut \cup {t \in Turns : reply[t] # "absent"}
    BY <1>5 DEF EraseMessages, NoRows
  <2>2. Contract!Wipe
    BY <1>0, <2>1 DEF Contract!Wipe
  <2> QED BY <2>2 DEF Contract!Next
<1>6. CASE EraseStops
  <2>1. Contract!StopErasing
    BY <1>0, <1>6 DEF EraseStops, rows, Contract!StopErasing
  <2> QED BY <2>1 DEF Contract!Next
<1> QED BY <1>1, <1>2, <1>3, <1>4, <1>5, <1>6 DEF Erase

LEMMA TurnContractStep ==
  ASSUME RowsInv, Kept, [Next]_vars
  PROVE  [Contract!Next]_Contract!vars
<1>1. ASSUME NEW t \in Turns, TurnStep(t) PROVE [Contract!Next]_Contract!vars
  BY <1>1, Parts, TurnOfRequest, TurnOfStream, TurnOfStore, TurnOfFailure
<1>2. CASE Delete \/ Erase
  BY <1>2, DeletionContract DEF Kept, RowsInv, TurnTypes
<1>3. CASE \/ \E t \in Turns, p \in Pods : Ask(t, p)
           \/ ChannelStep \/ UNCHANGED vars
           \/ \E p \in Pods : Crash(p) \/ SubscriptionRefused(p)
           \/ \E s \in Sockets : UnsubscriptionRefused(s)
  <2>1. UNCHANGED <<exists, erase, cut, reply, traces, told, failed>>
    BY <1>3 DEF Ask, Quietly, ChannelStep, Crash, SubscriptionRefused, UnsubscriptionRefused,
       rows, vars, turnVars
  <2> QED BY <2>1, TurnStill
<1> QED BY <1>1, <1>2, <1>3 DEF Next

\* The turns of a conversation implement their contract, for any number of turns,
\* pods, viewers, failed statements and deaths: one text per placeholder, evidence
\* for that text, viewers told that text, nothing after it, and no row that
\* survives the conversation (sendMessage, processConversationMessageStream,
\* deleteTask).
THEOREM TurnRefinement == Spec => ImplementsTurns
<1>1. Init => Contract!Init
  BY DEF Init, Contract!Init
<1>2. RowsInv /\ Kept /\ [Next]_vars => [Contract!Next]_Contract!vars
  BY TurnContractStep
<1> QED
  BY <1>1, <1>2, RowsInvariant, KeptInvariant, PTL DEF Spec, ImplementsTurns, Contract!Spec
-----------------------------------------------------------------------------
(* What the contract is worth *)

\* The contract, without any of the turns' own invariants, tells viewers what is
\* stored, unless the failure could not be, stores evidence only for the text it
\* belongs to, and keeps nothing of a deleted conversation.
AnswersHonest ==
  /\ reply \in [Turns -> Settled \cup {"absent", "Thinking..."}]
  /\ traces \in [Turns -> {"none", "turn", "failure"}]
  /\ told \in [Turns -> Settled \cup {"nothing"}]
  /\ \A t \in Turns :
       /\ ~exists => reply[t] = "absent" /\ traces[t] = "none"
       /\ exists /\ told[t] # "nothing" =>
            \/ told[t] = reply[t]
            \/ t \in cut /\ reply[t] = "absent"
            \/ "failSettle" \in failed[t] /\ told[t] = "failure"
       /\ traces[t] = "turn" => reply[t] \in Settled \ {"failure"}
       /\ traces[t] = "failure" => reply[t] = "failure"

\* The turns the contract counts as failed after their answer, and as failed
\* without a stored text.
Unsure == {t \in Turns : "bump" \in failed[t]}
Unstored == {t \in Turns : "failSettle" \in failed[t]}

LEMMA ContractIsHonest ==
  ASSUME AnswersHonest, [Contract!Next]_Contract!vars
  PROVE  /\ AnswersHonest'
         /\ \A t \in Turns :
              reply[t] \in Settled /\ reply'[t] # reply[t] =>
                \/ ~exists' \/ (erase # "no" /\ t \in cut')
                \/ told[t] = "nothing" /\ traces[t] = "none" /\ t \in Unsure
<1> DEFINE Goal == /\ AnswersHonest'
                   /\ \A t \in Turns :
                        reply[t] \in Settled /\ reply'[t] # reply[t] =>
                          \/ ~exists' \/ (erase # "no" /\ t \in cut')
                          \/ told[t] = "nothing" /\ traces[t] = "none" /\ t \in Unsure
<1>0. Unstored \subseteq Unstored' \/ Unstored' = Unstored
  BY DEF Contract!Next, Contract!vars, Contract!Place, Contract!Answer, Contract!Retract,
         Contract!Prove, Contract!Tell, Contract!Fail, Contract!Delete, Contract!BeginErase,
         Contract!Strip, Contract!Wipe, Contract!StopErasing, Unstored
<1> USE DEF AnswersHonest, Contract!Untold, Settled
<1>1. ASSUME NEW t \in Turns, Contract!Place(t) PROVE Goal
  BY <1>0, <1>1 DEF Contract!Place, Unstored
<1>2. ASSUME NEW t \in Turns, Contract!Answer(t) PROVE Goal
  BY <1>0, <1>2 DEF Contract!Answer, Unstored
<1>3. ASSUME NEW t \in Turns, Contract!Retract(t) PROVE Goal
  BY <1>0, <1>3 DEF Contract!Retract, Unstored, Unsure
<1>4. ASSUME NEW t \in Turns, Contract!Prove(t) PROVE Goal
  BY <1>0, <1>4 DEF Contract!Prove, Unstored
<1>5. ASSUME NEW t \in Turns, Contract!Tell(t) PROVE Goal
  <2>1. PICK text \in Settled :
          /\ \/ exists /\ text = reply[t]
             \/ ~exists
             \/ t \in cut /\ reply[t] = "absent"
             \/ t \in Unstored /\ text = "failure"
          /\ told' = [told EXCEPT ![t] = text]
    BY <1>5 DEF Contract!Tell, Unstored
  <2>2. UNCHANGED <<exists, cut, reply, traces, Unstored>>
    BY <1>5 DEF Contract!Tell, Unstored
  <2>3. \A u \in Turns : told'[u] = IF u = t THEN text ELSE told[u]
    BY <2>1
  <2>4. \A u \in Turns : "failSettle" \in failed'[u] <=> "failSettle" \in failed[u]
    BY <2>2 DEF Unstored
  <2>5. told' \in [Turns -> Settled \cup {"nothing"}]
    BY <2>1
  <2>6. ASSUME NEW u \in Turns, exists', told'[u] # "nothing"
        PROVE  \/ told'[u] = reply'[u]
               \/ u \in cut' /\ reply'[u] = "absent"
               \/ "failSettle" \in failed'[u] /\ told'[u] = "failure"
    BY <2>1, <2>2, <2>3, <2>4, <2>6 DEF Unstored
  <2> QED BY <2>2, <2>5, <2>6
<1>6. ASSUME NEW t \in Turns, Contract!Fail(t) PROVE Goal
  BY <1>0, <1>6 DEF Contract!Fail, Unstored
<1>7. CASE Contract!Delete
  BY <1>0, <1>7 DEF Contract!Delete, Unstored
<1>9. CASE Contract!BeginErase \/ Contract!StopErasing
  BY <1>0, <1>9 DEF Contract!BeginErase, Contract!StopErasing, Unstored
<1>10. ASSUME NEW ts \in SUBSET Turns, Contract!Strip(ts) PROVE Goal
  BY <1>0, <1>10 DEF Contract!Strip, Unstored
<1>11. CASE Contract!Wipe
  BY <1>0, <1>11 DEF Contract!Wipe, Unstored
<1>8. CASE UNCHANGED Contract!vars
  BY <1>0, <1>8 DEF Contract!vars, Unstored
<1> QED
  BY <1>1, <1>2, <1>3, <1>4, <1>5, <1>6, <1>7, <1>8, <1>9, <1>10, <1>11 DEF Contract!Next

\* Whatever implements the contract tells viewers what it stores and takes back no
\* answer that was told or that evidence was stored for: TurnRefinement carries
\* both over to the turns of sendMessage and processConversationMessageStream.
THEOREM ContractTellsTruth ==
  Contract!Spec =>
    /\ []AnswersHonest
    /\ [][\A t \in Turns :
            reply[t] \in Settled /\ reply'[t] # reply[t] =>
              \/ ~exists' \/ (erase # "no" /\ t \in cut')
              \/ told[t] = "nothing" /\ traces[t] = "none" /\ t \in Unsure]_Contract!vars
<1>1. Contract!Init => AnswersHonest
  BY DEF Contract!Init, AnswersHonest
<1>2. AnswersHonest /\ [Contract!Next]_Contract!vars
        => /\ AnswersHonest'
           /\ [\A t \in Turns :
                 reply[t] \in Settled /\ reply'[t] # reply[t] =>
                   \/ ~exists' \/ (erase # "no" /\ t \in cut')
                   \/ told[t] = "nothing" /\ traces[t] = "none" /\ t \in Unsure]_Contract!vars
  BY ContractIsHonest
<1> QED
  BY <1>1, <1>2, PTL DEF Contract!Spec
=============================================================================
