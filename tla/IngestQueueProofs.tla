--------------------------- MODULE IngestQueueProofs ---------------------------
(* Theorems about the ingestion queue, for any number of messages, any size of *)
(* the queue, any number of deliveries and of deaths of the API process.       *)
EXTENDS IngestQueue, FiniteSetTheorems, TLAPS

USE DEF apiVars, loopVars, topicVars

-----------------------------------------------------------------------------
(* Sequences without repetition *)

NoDup(s) == \A i, j \in 1..Len(s) : s[i] = s[j] => i = j

LEMMA RangeIs ==
  ASSUME NEW S, NEW s \in Seq(S)
  PROVE  \A x : x \in Range(s) <=> \E i \in 1..Len(s) : x = s[i]
  BY DEF Range

LEMMA RangeIn ==
  ASSUME NEW S, NEW s \in Seq(S)
  PROVE  Range(s) \subseteq S
<1>1. \A i \in 1..Len(s) : s[i] \in S
  OBVIOUS
<1> QED BY <1>1, RangeIs

LEMMA AppendRange ==
  ASSUME NEW S, NEW s \in Seq(S), NEW e \in S
  PROVE  /\ Range(Append(s, e)) = Range(s) \cup {e}
         /\ NoDup(s) /\ e \notin Range(s) => NoDup(Append(s, e))
<1>1. /\ Append(s, e) \in Seq(S) /\ Len(Append(s, e)) = Len(s) + 1
      /\ \A i \in 1..Len(s) : Append(s, e)[i] = s[i]
      /\ Append(s, e)[Len(s) + 1] = e
      /\ Len(s) \in Nat
  OBVIOUS
<1>2. Range(Append(s, e)) = Range(s) \cup {e}
  <2> DEFINE t == Append(s, e)
  <2>0. t \in Seq(S) /\ Len(t) = Len(s) + 1
    BY <1>1
  <2> HIDE DEF t
  <2>1. \A x : x \in Range(t) <=> \E i \in 1..Len(s) + 1 : x = t[i]
    BY <2>0, RangeIs
  <2> USE DEF t
  <2>2. \A i \in 1..Len(s) + 1 : i \in 1..Len(s) \/ i = Len(s) + 1
    BY <1>1
  <2>3. 1..Len(s) \subseteq 1..Len(s) + 1 /\ Len(s) + 1 \in 1..Len(s) + 1
    BY <1>1
  <2> QED BY <1>1, <2>1, <2>2, <2>3, RangeIs
<1>3. ASSUME NoDup(s), e \notin Range(s) PROVE NoDup(Append(s, e))
  BY <1>1, <1>3, RangeIs DEF NoDup
<1> QED BY <1>2, <1>3

LEMMA TailRange ==
  ASSUME NEW S, NEW s \in Seq(S), s # <<>>
  PROVE  /\ Tail(s) \in Seq(S) /\ Head(s) \in S /\ Head(s) \in Range(s)
         /\ Len(Tail(s)) = Len(s) - 1
         /\ NoDup(s) => /\ NoDup(Tail(s))
                        /\ Range(Tail(s)) = Range(s) \ {Head(s)}
<1>1. /\ Tail(s) \in Seq(S) /\ Len(Tail(s)) = Len(s) - 1 /\ Len(s) \in Nat \ {0}
      /\ \A i \in 1..Len(s) - 1 : Tail(s)[i] = s[i + 1]
      /\ Head(s) = s[1] /\ Head(s) \in S
  OBVIOUS
<1>2. Head(s) \in Range(s)
  BY <1>1, RangeIs
<1>3. ASSUME NoDup(s) PROVE NoDup(Tail(s))
  BY <1>1, <1>3 DEF NoDup
<1>4. ASSUME NoDup(s) PROVE Range(Tail(s)) = Range(s) \ {Head(s)}
  <2>1. ASSUME NEW x \in Range(Tail(s)) PROVE x \in Range(s) \ {Head(s)}
    <3> DEFINE t == Tail(s)
    <3>0. t \in Seq(S) /\ Len(t) = Len(s) - 1 /\ x \in Range(t)
      BY <1>1
    <3> HIDE DEF t
    <3>a. PICK i \in 1..Len(s) - 1 : x = t[i]
      BY <3>0, RangeIs
    <3> USE DEF t
    <3>1. x = s[i + 1]
      BY <1>1, <3>a
    <3>2. i + 1 \in 1..Len(s) /\ 1 \in 1..Len(s) /\ i + 1 # 1
      BY <1>1
    <3> QED BY <1>1, <1>4, <3>1, <3>2, RangeIs DEF NoDup
  <2>2. ASSUME NEW x \in Range(s) \ {Head(s)} PROVE x \in Range(Tail(s))
    <3>1. PICK j \in 1..Len(s) : x = s[j]
      BY RangeIs
    <3>2. j # 1
      BY <1>1, <3>1
    <3>3. j - 1 \in 1..Len(s) - 1 /\ (j - 1) + 1 = j
      BY <1>1, <3>2
    <3>4. x = Tail(s)[j - 1]
      BY <1>1, <3>1, <3>3
    <3> QED BY <1>1, <3>3, <3>4, RangeIs
  <2> QED BY <2>1, <2>2
<1> QED BY <1>1, <1>2, <1>3, <1>4

LEMMA EmptyRange == Range(<<>>) = {} /\ NoDup(<<>>)
  BY DEF Range, NoDup

-----------------------------------------------------------------------------
(* Types *)

LEMMA InitTypes == Init => TypeOK
  BY QueueAssumption DEF Init, TypeOK

\* While the loop is at work, it is at work on a message.
HandKnown == loop # "get" => hand \in Messages

LEMMA TypeStep ==
  ASSUME TypeOK, HandKnown, [Next]_vars
  PROVE  TypeOK'
<1> USE QueueAssumption DEF TypeOK
<1>1. ASSUME NEW m \in Messages, CreateTicket(m) PROVE TypeOK'
  BY <1>1 DEF CreateTicket
<1>2. ASSUME NEW m \in Messages, PublishToLine(m) PROVE TypeOK'
  BY <1>2 DEF PublishToLine, Answer
<1>3. ASSUME NEW m \in Messages, PublishToTopic(m) PROVE TypeOK'
  BY <1>3 DEF PublishToTopic, Answer
<1>4. ASSUME NEW m \in Messages, ExpireTicket(m) PROVE TypeOK'
  BY <1>4 DEF ExpireTicket
<1>5. ASSUME NEW m \in Messages, Work(m) PROVE TypeOK'
  BY <1>5 DEF Work
<1>6. ASSUME NEW m \in Messages, Deliver(m) PROVE TypeOK'
  BY <1>6 DEF Deliver
<1>7. ASSUME NEW m \in Messages, Nack(m) PROVE TypeOK'
  BY <1>7 DEF Nack
<1>8. CASE Receive
  BY <1>8, TailRange DEF Receive
<1>9. CASE Acquire \/ Release
  BY <1>9 DEF Acquire, Release
<1>10. CASE Refuse \/ IngestRaises
  <2>1. hand \in Messages
    BY <1>10 DEF Refuse, IngestRaises, HandKnown
  <2> QED BY <1>10, <2>1 DEF Refuse, IngestRaises
<1>11. CASE Ingest
  BY <1>11 DEF Ingest, HandKnown
<1>12. CASE Crash
  <2>1. lost' \subseteq Messages
    <3>1. Range(line) \subseteq Messages
      BY RangeIn
    <3>2. loop \in {"acquire", "ingest"} => hand \in Messages
      BY DEF HandKnown
    <3> QED BY <1>12, <3>1, <3>2 DEF Crash
  <2>2. post' \in [Messages -> {"idle", "publishing", "answered", "error"}]
        /\ work' \in [Messages -> {"none", "open", "completed", "failed"}]
    BY <1>12 DEF Crash
  <2>3. line' \in Seq(Messages) /\ Len(line') <= MaxQueue
    BY <1>12 DEF Crash
  <2>4. up' = FALSE /\ crashes' = crashes + 1 /\ hand' = None /\ loop' = "get"
        /\ UNCHANGED <<pub, sub, ticket, topicVars, started>>
    BY <1>12 DEF Crash
  <2>5. /\ up' \in BOOLEAN /\ pub' \in Kinds /\ sub' \in Kinds
        /\ ticket' \in [Messages -> {"none", "queued", "failed"}]
        /\ loop' \in {"get", "acquire", "ingest", "release"} /\ hand' \in Messages \cup {None}
    BY <2>4
  <2>6. /\ topic' \subseteq Messages /\ leased' \subseteq Messages
        /\ attempts' \in [Messages -> 0..MaxDeliveries] /\ dead' \subseteq Messages
        /\ started' \in [Messages -> Nat] /\ crashes' \in Nat
    BY <2>4
  <2> QED BY <2>1, <2>2, <2>3, <2>5, <2>6
<1>13. CASE Restart
  BY <1>13 DEF Restart
<1>14. CASE UNCHANGED vars
  BY <1>14 DEF vars
<1> QED
  BY <1>1, <1>2, <1>3, <1>4, <1>5, <1>6, <1>7, <1>8, <1>9, <1>10, <1>11, <1>12, <1>13,
     <1>14 DEF Next, Publish, Handle

LEMMA HandStep ==
  ASSUME TypeOK, HandKnown, [Next]_vars
  PROVE  HandKnown'
<1> USE DEF HandKnown
<1>1. CASE Receive
  BY <1>1, TailRange DEF Receive, TypeOK
<1>2. CASE UNCHANGED <<loop, hand>>
  BY <1>2
<1>3. CASE Acquire \/ Refuse \/ Ingest \/ IngestRaises \/ Release \/ Crash
  BY <1>3 DEF Acquire, Refuse, Ingest, IngestRaises, Release, Crash
<1> QED
  BY <1>1, <1>2, <1>3 DEF Next, Publish, Handle, CreateTicket, PublishToLine,
     PublishToTopic, ExpireTicket, Work, Deliver, Nack, Restart, vars

-----------------------------------------------------------------------------
(* One place *)

Waiting == Range(line)
Somewhere == Waiting \cup InHand \cup Begun \cup topic \cup dead \cup lost

\* The places have no message in common.
Apart ==
  /\ Waiting \cap (InHand \cup Begun \cup topic \cup dead \cup lost) = {}
  /\ InHand \cap (Begun \cup topic \cup dead \cup lost) = {}
  /\ Begun \cap (topic \cup dead \cup lost) = {}
  /\ topic \cap (dead \cup lost) = {}
  /\ dead \cap lost = {}

\* A message is nowhere until its publication, and somewhere once it was answered.
Published ==
  \A m \in Messages :
    /\ post[m] \in {"idle", "publishing"} => m \notin Somewhere
    /\ post[m] = "answered" => m \in Somewhere

\* Messages wait once, and what a callback holds is in the subscription.
Placed ==
  /\ NoDup(line)
  /\ leased \subseteq topic
  /\ Apart
  /\ Published

\* A message that was nowhere is put at one place; the others stay.
LEMMA PlacedAnew ==
  ASSUME TypeOK, Placed, NEW m \in Messages, m \notin Somewhere,
         NoDup(line)', leased' = leased,
         \A n \in Messages \ {m} : post'[n] = post[n], post'[m] \in {"answered", "error"},
         UNCHANGED <<InHand, Begun, dead, lost>>,
         \/ Waiting' = Waiting \cup {m} /\ topic' = topic
         \/ Waiting' = Waiting /\ topic' = topic \cup {m}
  PROVE  Placed'
  BY DEF Placed, Apart, Published, Somewhere

\* Nothing moves.
LEMMA PlacedStill ==
  ASSUME Placed, NoDup(line)', leased' \subseteq topic',
         \A m \in Messages : post'[m] = post[m]
                             \/ (post[m] = "idle" /\ post'[m] = "publishing")
                             \/ (post[m] = "publishing" /\ post'[m] = "error"),
         UNCHANGED <<Waiting, InHand, Begun, topic, dead, lost>>
  PROVE  Placed'
  BY DEF Placed, Apart, Published, Somewhere

\* Publication: nothing else moves beside the message itself.
LEMMA PublishPlaces ==
  ASSUME TypeOK, Placed, NEW m \in Messages, Publish(m)
  PROVE  Placed'
<1>0. m \notin Somewhere
  BY DEF Publish, PublishToLine, PublishToTopic, Placed, Published
<1>1. CASE PublishToLine(m)
  <2>1. Waiting' = Waiting \cup {m} /\ NoDup(line)'
    <3>1. line \in Seq(Messages) /\ m \notin Range(line)
      BY <1>0 DEF TypeOK, Somewhere, Waiting
    <3> QED BY <1>1, <3>1, AppendRange DEF PublishToLine, Placed, Waiting
  <2>2. /\ UNCHANGED <<InHand, Begun, topic, leased, dead, lost>>
        /\ post' = [post EXCEPT ![m] = "answered"]
    BY <1>1 DEF PublishToLine, Answer, InHand, Begun
  <2>3. post'[m] = "answered" /\ \A n \in Messages \ {m} : post'[n] = post[n]
    BY <2>2 DEF TypeOK
  <2> QED BY <1>0, <2>1, <2>2, <2>3, PlacedAnew
<1>2. CASE PublishToTopic(m)
  <2>1. UNCHANGED <<line, Waiting, InHand, Begun, leased, dead, lost>>
    BY <1>2 DEF PublishToTopic, InHand, Begun, Waiting
  <2>2. NoDup(line)'
    BY <2>1 DEF Placed
  <2>3. \A n \in Messages \ {m} : post'[n] = post[n]
    BY <1>2 DEF PublishToTopic, Answer, TypeOK
  <2>4. post'[m] \in {"answered", "error"}
    BY <1>2 DEF PublishToTopic, Answer, TypeOK
  <2>5. CASE topic' = topic \cup {m}
    BY <1>0, <2>1, <2>2, <2>3, <2>4, <2>5, PlacedAnew
  <2>6. CASE topic' = topic
    <3>1. post'[m] = "error" /\ post[m] = "publishing"
      <4>1. m \notin topic
        BY <1>0 DEF Somewhere
      <4> QED BY <1>2, <2>6, <4>1 DEF PublishToTopic, Answer, TypeOK
    <3>2. \A n \in Messages : \/ post'[n] = post[n]
                              \/ (post[n] = "publishing" /\ post'[n] = "error")
      BY <2>3, <3>1
    <3>3. leased' \subseteq topic'
      BY <2>1, <2>6 DEF Placed
    <3> QED BY <2>1, <2>2, <2>6, <3>2, <3>3, PlacedStill
  <2> QED BY <1>2, <2>5, <2>6 DEF PublishToTopic
<1> QED BY <1>1, <1>2 DEF Publish

\* The loop takes the oldest message, begins it or drops it.
LEMMA HandlePlaces ==
  ASSUME TypeOK, HandKnown, Placed, Handle
  PROVE  Placed'
<1>p. /\ NoDup(line) /\ leased \subseteq topic /\ Apart /\ Published
  BY DEF Placed
<1>u. UNCHANGED <<post, topic, leased, dead>>
  BY DEF Handle, Receive, Acquire, Refuse, Ingest, IngestRaises, Release
<1>1. CASE Receive
  <2>1. /\ NoDup(line') /\ Waiting' = Waiting \ {Head(line)} /\ Head(line) \in Waiting
    <3>1. line \in Seq(Messages) /\ line # <<>> /\ line' = Tail(line)
      BY <1>1 DEF TypeOK, Receive
    <3> QED BY <1>p, <3>1, TailRange DEF Waiting
  <2>2. InHand = {} /\ InHand' = {Head(line)} /\ UNCHANGED <<Begun, lost>>
    BY <1>1 DEF Receive, InHand, Begun
  <2>3. Apart' /\ Somewhere' = Somewhere
    BY <1>p, <1>u, <2>1, <2>2 DEF Apart, Somewhere
  <2> QED BY <1>p, <1>u, <2>1, <2>3 DEF Placed, Published
<1>2. CASE Acquire \/ Release
  <2>1. UNCHANGED <<line, Waiting, InHand, Begun, lost>>
    BY <1>2 DEF Acquire, Release, Waiting, InHand, Begun
  <2> QED BY <1>p, <1>u, <2>1, PlacedStill
<1>3. CASE Refuse \/ IngestRaises
  <2>1. /\ InHand = {hand} /\ InHand' = {} /\ lost' = lost \cup {hand}
        /\ UNCHANGED <<line, Waiting, Begun>>
    BY <1>3 DEF Refuse, IngestRaises, InHand, Begun, Waiting
  <2>2. Apart' /\ Somewhere' = Somewhere
    BY <1>p, <1>u, <2>1 DEF Apart, Somewhere
  <2> QED BY <1>p, <1>u, <2>1, <2>2 DEF Placed, Published
<1>4. CASE Ingest
  <2>1. /\ InHand = {hand} /\ InHand' = {} /\ UNCHANGED <<line, Waiting, lost>>
    BY <1>4 DEF Ingest, InHand, Waiting
  <2>2. Begun' = Begun \cup {hand}
    BY <1>4 DEF Ingest, Begun, HandKnown, TypeOK
  <2>3. Apart' /\ Somewhere' = Somewhere
    BY <1>p, <1>u, <2>1, <2>2 DEF Apart, Somewhere
  <2> QED BY <1>p, <1>u, <2>1, <2>3 DEF Placed, Published
<1> QED BY <1>1, <1>2, <1>3, <1>4 DEF Handle

\* The last refusal moves a message from the subscription to the dead letters;
\* the death of the process loses what waits and what is in hand.
LEMMA PlacedStep ==
  ASSUME TypeOK, HandKnown, Placed, [Next]_vars
  PROVE  Placed'
<1>p. /\ NoDup(line) /\ leased \subseteq topic /\ Apart /\ Published
  BY DEF Placed
<1>1. ASSUME NEW m \in Messages, CreateTicket(m) PROVE Placed'
  <2>1. UNCHANGED <<line, leased, Waiting, InHand, Begun, topic, dead, lost>>
    BY <1>1 DEF CreateTicket, Waiting, InHand, Begun
  <2>2. \A n \in Messages : post'[n] = post[n]
                            \/ (post[n] = "idle" /\ post'[n] = "publishing")
    BY <1>1 DEF CreateTicket, TypeOK
  <2> QED BY <1>p, <2>1, <2>2, PlacedStill
<1>2. ASSUME NEW m \in Messages, ExpireTicket(m) \/ Work(m) PROVE Placed'
  <2>1. UNCHANGED <<post, line, leased, Waiting, InHand, Begun, topic, dead, lost>>
    BY <1>2 DEF ExpireTicket, Work, Waiting, InHand, Begun
  <2> QED BY <1>p, <2>1, PlacedStill
<1>3. ASSUME NEW m \in Messages, Deliver(m) PROVE Placed'
  <2>1. UNCHANGED <<post, line, Waiting, InHand, Begun, topic, dead, lost>>
    BY <1>3 DEF Deliver, Waiting, InHand, Begun
  <2>2. leased' \subseteq topic'
    BY <1>p, <1>3 DEF Deliver
  <2> QED BY <1>p, <2>1, <2>2, PlacedStill
<1>4. ASSUME NEW m \in Messages, Nack(m) PROVE Placed'
  <2>1. /\ UNCHANGED <<post, line, Waiting, InHand, Begun, lost>>
        /\ m \in leased /\ leased' = leased \ {m}
    BY <1>4 DEF Nack, Waiting, InHand, Begun
  <2>2. CASE UNCHANGED <<topic, dead>>
    <3>1. leased' \subseteq topic'
      BY <1>p, <2>1, <2>2
    <3> QED BY <1>p, <2>1, <2>2, <3>1, PlacedStill
  <2>3. CASE topic' = topic \ {m} /\ dead' = dead \cup {m}
    <3>1. Apart' /\ Somewhere' = Somewhere
      BY <1>p, <2>1, <2>3 DEF Apart, Somewhere
    <3>2. leased' \subseteq topic'
      BY <1>p, <2>1, <2>3
    <3> QED BY <1>p, <2>1, <3>1, <3>2 DEF Placed, Published
  <2> QED BY <1>4, <2>2, <2>3 DEF Nack
<1>5. CASE Crash
  <2>1. /\ lost' = lost \cup Waiting \cup InHand
        /\ line' = <<>> /\ loop' = "get" /\ UNCHANGED <<started, topicVars>>
        /\ \A m \in Messages : post'[m] = IF post[m] = "publishing" THEN "error" ELSE post[m]
    BY <1>5 DEF Crash, Waiting, InHand
  <2>2. Waiting' = {} /\ InHand' = {} /\ Begun' = Begun /\ NoDup(line)'
    BY <2>1, EmptyRange DEF Waiting, InHand, Begun
  <2>3. Apart' /\ Somewhere' = Somewhere
    BY <1>p, <2>1, <2>2 DEF Apart, Somewhere
  <2>4. Published'
    BY <1>p, <2>1, <2>3 DEF Published
  <2> QED BY <1>p, <2>1, <2>2, <2>3, <2>4 DEF Placed
<1>6. CASE Restart \/ UNCHANGED vars
  <2>1. UNCHANGED <<post, line, leased, Waiting, InHand, Begun, topic, dead, lost>>
    BY <1>6 DEF Restart, vars, Waiting, InHand, Begun
  <2> QED BY <1>p, <2>1, PlacedStill
<1> QED
  BY <1>1, <1>2, <1>3, <1>4, <1>5, <1>6, PublishPlaces, HandlePlaces DEF Next

-----------------------------------------------------------------------------
(* How often *)

LEMMA OnceStep ==
  ASSUME TypeOK, HandKnown, Placed, StartedOnce, [Next]_vars
  PROVE  StartedOnce'
<1>1. CASE Ingest
  <2>1. hand \in Messages /\ hand \in InHand
    BY <1>1 DEF Ingest, HandKnown, InHand
  <2>2. started[hand] = 0
    BY <2>1 DEF Placed, Apart, Begun, TypeOK
  <2> QED BY <1>1, <2>1, <2>2 DEF Ingest, StartedOnce, TypeOK
<1>2. CASE UNCHANGED started
  BY <1>2 DEF StartedOnce
<1> QED
  BY <1>1, <1>2 DEF Next, Publish, Handle, CreateTicket, PublishToLine, PublishToTopic,
     ExpireTicket, Work, Deliver, Nack, Receive, Acquire, Refuse, IngestRaises, Release,
     Crash, Restart, vars

LEMMA DeadStep ==
  ASSUME TypeOK, Placed, DeadAfterAllDeliveries, [Next]_vars
  PROVE  DeadAfterAllDeliveries'
<1> USE DEF DeadAfterAllDeliveries
<1>1. ASSUME NEW m \in Messages, Deliver(m) PROVE DeadAfterAllDeliveries'
  BY <1>1 DEF Deliver, TypeOK
<1>2. ASSUME NEW m \in Messages, Nack(m) PROVE DeadAfterAllDeliveries'
  BY <1>2 DEF Nack
<1>3. ASSUME NEW m \in Messages, PublishToTopic(m) PROVE DeadAfterAllDeliveries'
  <2>1. m \notin dead
    BY <1>3 DEF PublishToTopic, Placed, Published, Somewhere
  <2> QED BY <1>3, <2>1 DEF PublishToTopic
<1>4. CASE UNCHANGED <<topic, attempts, dead>>
  BY <1>4
<1> QED
  BY <1>1, <1>2, <1>3, <1>4 DEF Next, Publish, Handle, CreateTicket, PublishToLine,
     ExpireTicket, Work, Receive, Acquire, Refuse, Ingest, IngestRaises, Release,
     Crash, Restart, vars

-----------------------------------------------------------------------------
(* Theorems *)

\* The inductive invariant.
IInv ==
  /\ TypeOK
  /\ HandKnown
  /\ Placed
  /\ StartedOnce
  /\ DeadAfterAllDeliveries

LEMMA InitIInv == Init => IInv
<1> SUFFICES ASSUME Init PROVE IInv
  OBVIOUS
<1>1. TypeOK
  BY InitTypes
<1>2. HandKnown /\ StartedOnce /\ DeadAfterAllDeliveries
  BY DEF Init, HandKnown, StartedOnce, DeadAfterAllDeliveries
<1>3. Waiting = {} /\ InHand = {} /\ Begun = {} /\ NoDup(line)
  BY EmptyRange DEF Init, Waiting, InHand, Begun
<1>4. Placed
  BY <1>3 DEF Init, Placed, Apart, Published, Somewhere
<1> QED BY <1>1, <1>2, <1>4 DEF IInv

LEMMA StepIInv == IInv /\ [Next]_vars => IInv'
  BY TypeStep, HandStep, PlacedStep, OnceStep, DeadStep DEF IInv

LEMMA Invariant == Spec => []IInv
  BY InitIInv, StepIInv, PTL DEF Spec

\* Disjoint places mean one place at most.
LEMMA PlacedOnce ==
  ASSUME TypeOK, Placed
  PROVE  OnePlace
<1> SUFFICES ASSUME NEW m \in Messages
             PROVE  /\ Cardinality(PlacesOf(m)) <= 1
                    /\ post[m] = "answered" => PlacesOf(m) # {}
  BY DEF OnePlace
<1>1. /\ DOMAIN Places = 1..6
      /\ Places[1] = Waiting /\ Places[2] = InHand /\ Places[3] = Begun
      /\ Places[4] = topic /\ Places[5] = dead /\ Places[6] = lost
  BY DEF Places, Waiting
<1>2. \A i, j \in 1..6 : m \in Places[i] /\ m \in Places[j] => i = j
  <2>1. \A i \in 1..6 : i = 1 \/ i = 2 \/ i = 3 \/ i = 4 \/ i = 5 \/ i = 6
    OBVIOUS
  <2> QED BY <1>1, <2>1 DEF Placed, Apart
<1>3. Cardinality(PlacesOf(m)) <= 1
  <2>1. CASE PlacesOf(m) = {}
    BY <2>1, FS_EmptySet
  <2>2. CASE PlacesOf(m) # {}
    <3>1. PICK i : i \in PlacesOf(m)
      BY <2>2
    <3>2. PlacesOf(m) = {i}
      BY <1>1, <1>2, <3>1 DEF PlacesOf
    <3>3. Cardinality({i}) = 1
      BY FS_Singleton, Zenon
    <3> QED BY <3>2, <3>3
  <2> QED BY <2>1, <2>2
<1>4. ASSUME post[m] = "answered" PROVE PlacesOf(m) # {}
  <2>1. m \in Somewhere
    BY <1>4 DEF Placed, Published
  <2>2. \E i \in 1..6 : m \in Places[i]
    BY <1>1, <2>1 DEF Somewhere
  <2> QED BY <1>1, <2>2 DEF PlacesOf
<1> QED BY <1>3, <1>4

\* Every place, record and counter has the values the code gives it.
THEOREM TypeCorrect == Spec => []TypeOK
  BY Invariant, PTL DEF IInv

\* A message the client was told about is at one place: in the queue, in hand,
\* begun, in the subscription, among the dead letters or logged as lost
\* (InMemoryPublisher, InMemorySubscriber, PubSubPublisher, PubSubSubscriber).
THEOREM OnePlaceHolds == Spec => []OnePlace
<1>1. IInv => OnePlace
  BY PlacedOnce DEF IInv
<1> QED BY <1>1, Invariant, PTL

\* However often it is delivered and whatever dies, a message starts one pipeline
\* job at most (process_message).
THEOREM StartedAtMostOnce == Spec => []StartedOnce
  BY Invariant, PTL DEF IInv

\* A message is among the dead letters only after its last delivery.
THEOREM DeadOnlyAfterAll == Spec => []DeadAfterAllDeliveries
  BY Invariant, PTL DEF IInv

-----------------------------------------------------------------------------
(* The delivery contract *)

Told == {m \in Messages : post[m] = "answered"}

\* What the mapping adds to the places above.
LEMMA DeliveryKnows ==
  ASSUME TypeOK
  PROVE  Delivery!Known = Somewhere
  BY DEF Delivery!Known, Somewhere, Waiting, Begun, TypeOK

\* A step that moves nothing and tells nobody is a stutter of the contract.
LEMMA DeliveryStill ==
  ASSUME UNCHANGED <<Waiting, InHand, topic, started, lost, dead, Told>>
  PROVE  UNCHANGED Delivery!vars
  BY DEF Delivery!vars, Waiting, Told

\* Publication hands the message over, or the request fails without it.
LEMMA DeliveryOfPublish ==
  ASSUME TypeOK, Placed, NEW m \in Messages, Publish(m)
  PROVE  [Delivery!Next]_Delivery!vars
<1>0. m \notin Delivery!Known
  BY DeliveryKnows DEF Publish, PublishToLine, PublishToTopic, Placed, Published
<1>1. CASE PublishToLine(m)
  <2>1. Range(line') = Range(line) \cup {m}
    BY <1>1, AppendRange DEF PublishToLine, TypeOK
  <2>2. UNCHANGED <<InHand, topic, started, lost, dead>>
    BY <1>1 DEF PublishToLine, InHand
  <2>3. Told' = Told \cup {m}
    BY <1>1 DEF PublishToLine, Answer, Told, TypeOK
  <2>4. Delivery!HandOver(m)
    BY <1>0, <2>1, <2>2, <2>3 DEF Delivery!HandOver, Told
  <2> QED BY <2>4 DEF Delivery!Next
<1>2. CASE PublishToTopic(m)
  <2>1. UNCHANGED <<Waiting, InHand, started, lost, dead>>
    BY <1>2 DEF PublishToTopic, InHand, Waiting
  <2>2. CASE topic' = topic \cup {m}
    <3>1. Told' \in {Told, Told \cup {m}}
      BY <1>2 DEF PublishToTopic, Answer, Told, TypeOK
    <3>2. Delivery!HandOver(m)
      BY <1>0, <2>1, <2>2, <3>1 DEF Delivery!HandOver, Told, Waiting
    <3> QED BY <3>2 DEF Delivery!Next
  <2>3. CASE topic' = topic
    <3>1. m \notin topic
      BY <1>0 DEF Delivery!Known
    <3>2. Told' = Told
      BY <1>2, <2>3, <3>1 DEF PublishToTopic, Answer, Told, TypeOK
    <3> QED BY <2>1, <2>3, <3>2, DeliveryStill
  <2> QED BY <1>2, <2>2, <2>3 DEF PublishToTopic
<1> QED BY <1>1, <1>2 DEF Publish

\* The loop begins a message or gives it up.
LEMMA DeliveryOfHandle ==
  ASSUME TypeOK, HandKnown, Placed, Handle
  PROVE  [Delivery!Next]_Delivery!vars
<1>u. UNCHANGED <<topic, dead, Told>>
  BY DEF Handle, Receive, Acquire, Refuse, Ingest, IngestRaises, Release, Told
<1>1. CASE Receive
  <2>1. Range(line') = Range(line) \ {Head(line)} /\ Head(line) \in Range(line)
    BY <1>1, TailRange DEF Receive, TypeOK, Placed
  <2>2. InHand = {} /\ InHand' = {Head(line)} /\ UNCHANGED <<started, lost>>
    BY <1>1 DEF Receive, InHand
  <2>3. Range(line') \cup InHand' = Range(line) \cup InHand
    BY <2>1, <2>2
  <2> QED BY <1>u, <2>2, <2>3 DEF Delivery!vars, Told
<1>2. CASE Acquire \/ Release
  <2>1. UNCHANGED <<Waiting, InHand, started, lost>>
    BY <1>2 DEF Acquire, Release, Waiting, InHand
  <2> QED BY <1>u, <2>1, DeliveryStill
<1>3. CASE Refuse \/ IngestRaises
  <2>1. /\ InHand = {hand} /\ InHand' = {} /\ lost' = lost \cup {hand}
        /\ UNCHANGED <<Waiting, started>>
    BY <1>3 DEF Refuse, IngestRaises, InHand, Waiting
  <2>2. hand \notin Waiting
    BY <2>1 DEF Placed, Apart
  <2>3. Waiting' \cup InHand' = (Waiting \cup InHand) \ {hand}
    BY <2>1, <2>2
  <2>4. {hand} \in SUBSET (Waiting \cup InHand)
    BY <2>1
  <2>5. Delivery!Lose
    BY <1>u, <2>1, <2>3, <2>4 DEF Delivery!Lose, Waiting, Told
  <2> QED BY <2>5 DEF Delivery!Next
<1>4. CASE Ingest
  <2>1. /\ InHand = {hand} /\ InHand' = {} /\ hand \in Messages
        /\ UNCHANGED <<Waiting, lost>>
    BY <1>4 DEF Ingest, InHand, Waiting, HandKnown
  <2>2. hand \notin Waiting /\ hand \notin topic
    BY <2>1 DEF Placed, Apart
  <2>3. Waiting' \cup InHand' = (Waiting \cup InHand) \ {hand} /\ topic' = topic \ {hand}
    BY <1>u, <2>1, <2>2
  <2>4. started' = [started EXCEPT ![hand] = @ + 1]
    BY <1>4 DEF Ingest
  <2>5. Delivery!Begin(hand)
    BY <1>u, <2>1, <2>3, <2>4 DEF Delivery!Begin, Waiting, Told
  <2> QED BY <2>1, <2>5 DEF Delivery!Next
<1> QED BY <1>1, <1>2, <1>3, <1>4 DEF Handle

\* Every step of queue mode is a step of the contract or changes nothing of it.
LEMMA DeliveryStep ==
  ASSUME IInv, [Next]_vars
  PROVE  [Delivery!Next]_Delivery!vars
<1>0. TypeOK /\ HandKnown /\ Placed
  BY DEF IInv
<1>1. ASSUME NEW m \in Messages, CreateTicket(m) \/ ExpireTicket(m) \/ Work(m) \/ Deliver(m)
      PROVE  UNCHANGED Delivery!vars
  <2>1. UNCHANGED <<Waiting, InHand, topic, started, lost, dead>>
    BY <1>1 DEF CreateTicket, ExpireTicket, Work, Deliver, Waiting, InHand
  <2>2. UNCHANGED Told
    BY <1>0, <1>1 DEF CreateTicket, ExpireTicket, Work, Deliver, Told, TypeOK
  <2> QED BY <2>1, <2>2, DeliveryStill
<1>2. ASSUME NEW m \in Messages, Nack(m)
      PROVE  [Delivery!Next]_Delivery!vars
  <2>1. /\ UNCHANGED <<Waiting, InHand, started, lost, Told>>
        /\ m \in topic
    BY <1>0, <1>2 DEF Nack, Waiting, InHand, Told, Placed
  <2>2. CASE UNCHANGED <<topic, dead>>
    BY <2>1, <2>2, DeliveryStill
  <2>3. CASE topic' = topic \ {m} /\ dead' = dead \cup {m}
    <3>1. Delivery!GiveUp(m)
      BY <2>1, <2>3 DEF Delivery!GiveUp, Waiting, Told
    <3> QED BY <3>1 DEF Delivery!Next
  <2> QED BY <1>2, <2>2, <2>3 DEF Nack
<1>3. CASE Crash
  <2>1. /\ Waiting' = {} /\ InHand' = {} /\ lost' = lost \cup (Waiting \cup InHand)
        /\ UNCHANGED <<topic, started, dead>>
    BY <1>3, EmptyRange DEF Crash, Waiting, InHand
  <2>2. UNCHANGED Told
    BY <1>0, <1>3 DEF Crash, Told, TypeOK
  <2>3. Waiting' \cup InHand' = (Waiting \cup InHand) \ (Waiting \cup InHand)
    BY <2>1
  <2>4. Delivery!Lose
    BY <2>1, <2>2, <2>3 DEF Delivery!Lose, Waiting, Told
  <2> QED BY <2>4 DEF Delivery!Next
<1>4. CASE Restart \/ UNCHANGED vars
  <2>1. UNCHANGED <<Waiting, InHand, topic, started, lost, dead, Told>>
    BY <1>4 DEF Restart, vars, Waiting, InHand, Told
  <2> QED BY <2>1, DeliveryStill
<1> QED
  BY <1>0, <1>1, <1>2, <1>3, <1>4, DeliveryOfPublish, DeliveryOfHandle DEF Next

\* Queue mode implements the delivery contract of MessageDelivery: nothing is
\* handed over twice, begun twice, or gone without a trace, for any number of
\* messages, deliveries and deaths (PubSubPublisher, InMemoryPublisher, the two
\* subscribers and process_message).
THEOREM DeliveryRefinement == Spec => ImplementsDelivery
<1>1. Init => Delivery!Init
  <2> SUFFICES ASSUME Init PROVE Delivery!Init
    OBVIOUS
  <2>1. Range(line) \cup InHand = {}
    BY EmptyRange DEF Init, InHand
  <2> QED BY <2>1 DEF Init, Delivery!Init
<1>2. IInv /\ [Next]_vars => [Delivery!Next]_Delivery!vars
  BY DeliveryStep
<1> QED
  BY <1>1, <1>2, Invariant, PTL DEF Spec, ImplementsDelivery, Delivery!Spec
-----------------------------------------------------------------------------
(* Why a post is answered *)

\* The requests that have not handed over their message.
Unposted == {m \in Messages : post[m] \in {"idle", "publishing"}}

\* What the loop has yet to do for the message it works on.
StepsInHand ==
  IF loop = "acquire" THEN 3
  ELSE IF loop = "ingest" THEN 2
  ELSE IF loop = "release" THEN 1 ELSE 0

\* A bound on the steps of publishers and loop that are left: a message costs one
\* to hand over, one to receive and three to handle.
QueueLeft == 5 * Cardinality(Unposted) + 4 * Len(line) + StepsInHand

\* Every step of a publisher or of the loop uses up what is left of them, and
\* nothing else adds to it: no polling client, no refusal, no delivery and no
\* death of the process makes a request wait for longer.
EveryStepDrains ==
  [][ /\ Handle \/ (\E m \in Messages : Publish(m)) => QueueLeft' < QueueLeft
      /\ QueueLeft' <= QueueLeft ]_vars

LEMMA QueueLeftIs ==
  ASSUME IsFiniteSet(Messages), TypeOK
  PROVE  /\ IsFiniteSet(Unposted) /\ Cardinality(Unposted) \in Nat
         /\ Len(line) \in Nat /\ StepsInHand \in Nat
<1>1. Unposted \subseteq Messages
  BY DEF Unposted
<1>2. IsFiniteSet(Unposted) /\ Cardinality(Unposted) \in Nat
  BY <1>1, FS_Subset, FS_CardinalityType
<1> QED BY <1>2 DEF TypeOK, StepsInHand

\* The same of the state after the step.
LEMMA QueueLeftNext ==
  ASSUME IsFiniteSet(Messages), TypeOK'
  PROVE  /\ IsFiniteSet(Unposted') /\ Cardinality(Unposted') \in Nat
         /\ Len(line') \in Nat /\ StepsInHand' \in Nat
<1>1. Unposted' \subseteq Messages
  BY DEF Unposted
<1>2. IsFiniteSet(Unposted') /\ Cardinality(Unposted') \in Nat
  BY <1>1, FS_Subset, FS_CardinalityType
<1> QED BY <1>2 DEF TypeOK, StepsInHand

\* A request that ends its publication is one fewer.
LEMMA OneFewer ==
  ASSUME IsFiniteSet(Messages), TypeOK, NEW m \in Messages, post[m] = "publishing",
         NEW outcome \in {"answered", "error"}, Answer(m, outcome)
  PROVE  Cardinality(Unposted') = Cardinality(Unposted) - 1
<1>1. m \in Unposted /\ Unposted' = Unposted \ {m}
  BY DEF Unposted, Answer, TypeOK
<1> QED BY <1>1, QueueLeftIs, FS_RemoveElement

LEMMA DrainPublish ==
  ASSUME IsFiniteSet(Messages), TypeOK, TypeOK', NEW m \in Messages, Publish(m)
  PROVE  QueueLeft' < QueueLeft
<1>0. /\ Cardinality(Unposted) \in Nat /\ Cardinality(Unposted') \in Nat
      /\ Len(line) \in Nat /\ StepsInHand \in Nat
  BY QueueLeftIs, QueueLeftNext
<1>1. Cardinality(Unposted') = Cardinality(Unposted) - 1
  BY OneFewer DEF Publish, PublishToLine, PublishToTopic
<1>2. StepsInHand' = StepsInHand /\ Len(line') <= Len(line) + 1
  BY <1>0 DEF Publish, PublishToLine, PublishToTopic, StepsInHand, TypeOK
<1>3. Len(line') \in Nat
  BY QueueLeftNext
<1> QED BY <1>0, <1>1, <1>2, <1>3, SMTT(30) DEF QueueLeft

LEMMA DrainHandle ==
  ASSUME IsFiniteSet(Messages), TypeOK, TypeOK', Handle
  PROVE  QueueLeft' < QueueLeft
<1>0. /\ Cardinality(Unposted) \in Nat /\ Len(line) \in Nat /\ Len(line') \in Nat
  BY QueueLeftIs, QueueLeftNext
<1>1. Unposted' = Unposted
  BY DEF Handle, Receive, Acquire, Refuse, Ingest, IngestRaises, Release, Unposted
<1>2. CASE Receive
  <2>1. Len(line') = Len(line) - 1 /\ StepsInHand = 0 /\ StepsInHand' = 3
    BY <1>2, TailRange DEF Receive, StepsInHand, TypeOK
  <2> QED BY <1>0, <1>1, <2>1 DEF QueueLeft
<1>3. CASE Acquire \/ Refuse \/ Ingest \/ IngestRaises \/ Release
  <2>1. line' = line
    BY <1>3 DEF Acquire, Refuse, Ingest, IngestRaises, Release
  <2>2. StepsInHand' < StepsInHand /\ StepsInHand \in Nat /\ StepsInHand' \in Nat
    BY <1>3 DEF Acquire, Refuse, Ingest, IngestRaises, Release, StepsInHand
  <2> QED BY <1>0, <1>1, <2>1, <2>2 DEF QueueLeft
<1> QED BY <1>2, <1>3 DEF Handle

LEMMA DrainRest ==
  ASSUME IsFiniteSet(Messages), TypeOK, TypeOK', [Next]_vars,
         ~Handle, \A m \in Messages : ~Publish(m)
  PROVE  QueueLeft' <= QueueLeft
<1>0. /\ IsFiniteSet(Unposted) /\ Cardinality(Unposted) \in Nat
      /\ Cardinality(Unposted') \in Nat
      /\ Len(line) \in Nat /\ Len(line') \in Nat
      /\ StepsInHand \in Nat /\ StepsInHand' \in Nat
  BY QueueLeftIs, QueueLeftNext
<1>1. /\ Unposted' \subseteq Unposted
      /\ Len(line') <= Len(line) /\ StepsInHand' <= StepsInHand
  <2>1. ASSUME NEW m \in Messages, CreateTicket(m)
        PROVE  Unposted' \subseteq Unposted /\ line' = line /\ loop' = loop
    BY <2>1 DEF CreateTicket, Unposted, TypeOK
  <2>2. ASSUME NEW m \in Messages, ExpireTicket(m) \/ Work(m) \/ Deliver(m) \/ Nack(m)
        PROVE  post' = post /\ line' = line /\ loop' = loop
    BY <2>2 DEF ExpireTicket, Work, Deliver, Nack
  <2>3. CASE Crash
    <3>1. Unposted' \subseteq Unposted
      BY <2>3 DEF Crash, Unposted
    <3>2. Len(line') = 0 /\ StepsInHand' = 0
      BY <2>3 DEF Crash, StepsInHand
    <3> QED BY <1>0, <3>1, <3>2
  <2>5. ASSUME Unposted' \subseteq Unposted, line' = line, loop' = loop
        PROVE  /\ Unposted' \subseteq Unposted
               /\ Len(line') <= Len(line) /\ StepsInHand' <= StepsInHand
    BY <1>0, <2>5 DEF StepsInHand
  <2>6. post' = post => Unposted' = Unposted
    BY DEF Unposted
  <2>7. CASE Restart \/ UNCHANGED vars
    <3>1. post' = post /\ line' = line /\ loop' = loop
      BY <2>7 DEF Restart, vars
    <3> QED BY <3>1, <2>5, <2>6
  <2> QED BY <2>1, <2>2, <2>3, <2>5, <2>6, <2>7 DEF Next
<1>2. Cardinality(Unposted') <= Cardinality(Unposted)
  BY <1>0, <1>1, FS_Subset
<1> QED BY <1>0, <1>1, <1>2 DEF QueueLeft

\* With finitely many messages the publishers and the loop take only finitely many
\* steps, whatever else happens in between: a refused slot and a document that is
\* too large cost the loop no more than a message it handles, and a process that
\* dies leaves less to do, not more (InMemoryPublisher, InMemorySubscriber._pull_loop,
\* process_message).
THEOREM QueueDrains ==
  ASSUME IsFiniteSet(Messages)
  PROVE  Spec => EveryStepDrains
<1>1. TypeOK /\ TypeOK' /\ [Next]_vars
        => /\ Handle \/ (\E m \in Messages : Publish(m)) => QueueLeft' < QueueLeft
           /\ QueueLeft' <= QueueLeft
  <2> SUFFICES ASSUME TypeOK, TypeOK', [Next]_vars
               PROVE  /\ Handle \/ (\E m \in Messages : Publish(m)) => QueueLeft' < QueueLeft
                      /\ QueueLeft' <= QueueLeft
    OBVIOUS
  <2>0. QueueLeft \in Nat /\ QueueLeft' \in Nat
    BY QueueLeftIs, QueueLeftNext, SMTT(30) DEF QueueLeft
  <2>1. Handle \/ (\E m \in Messages : Publish(m)) => QueueLeft' < QueueLeft
    BY DrainPublish, DrainHandle
  <2>2. ~(Handle \/ (\E m \in Messages : Publish(m))) => QueueLeft' <= QueueLeft
    BY DrainRest
  <2> QED BY <2>0, <2>1, <2>2
<1> QED BY <1>1, TypeCorrect, PTL DEF Spec, EveryStepDrains
-----------------------------------------------------------------------------
(* What the contract is worth *)

\* The contract, without any of the queue's own invariants, has a message at one
\* place at most, begins it once at most, and knows of every message whose client
\* was answered.
DeliveredOnce ==
  /\ started \in [Messages -> {0, 1}]
  /\ \A m \in Messages : started[m] = 1 => m \notin Waiting \cup InHand \cup topic \cup lost \cup dead
  /\ (Waiting \cup InHand) \cap (topic \cup lost \cup dead) = {}
  /\ topic \cap (lost \cup dead) = {} /\ lost \cap dead = {}
  /\ Told \subseteq Delivery!Known

\* Whatever implements the contract starts one job at most for a message and
\* leaves none it was answered for without a place: DeliveryRefinement carries
\* StartedOnce and OnePlace over to the queue (the docstrings of pubsub.py).
THEOREM ContractDelivers == Delivery!Spec => []DeliveredOnce
<1> USE DEF Delivery!Known, Told, Waiting, DeliveredOnce
<1>1. Delivery!Init => DeliveredOnce
  BY DEF Delivery!Init
<1>2. ASSUME DeliveredOnce, NEW m \in Messages, Delivery!HandOver(m)
      PROVE  DeliveredOnce'
  BY <1>2 DEF Delivery!HandOver
<1>3. ASSUME DeliveredOnce, NEW m \in Messages, Delivery!Begin(m)
      PROVE  DeliveredOnce'
  BY <1>3 DEF Delivery!Begin
<1>4. ASSUME DeliveredOnce, NEW m \in Messages, Delivery!GiveUp(m)
      PROVE  DeliveredOnce'
  BY <1>4 DEF Delivery!GiveUp
<1>5. ASSUME DeliveredOnce, Delivery!Lose
      PROVE  DeliveredOnce'
  BY <1>5 DEF Delivery!Lose
<1>6. ASSUME DeliveredOnce, UNCHANGED Delivery!vars
      PROVE  DeliveredOnce'
  BY <1>6 DEF Delivery!vars
<1>7. DeliveredOnce /\ [Delivery!Next]_Delivery!vars => DeliveredOnce'
  BY <1>2, <1>3, <1>4, <1>5, <1>6 DEF Delivery!Next
<1> QED
  BY <1>1, <1>7, PTL DEF Delivery!Spec
=============================================================================
