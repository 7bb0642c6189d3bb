--------------------------- MODULE MCConversation ---------------------------
(* TLC instances of the turns of a conversation and its trace channel. *)
EXTENDS Conversation, TLC

(* States that differ only in what no later step reads and no property depends *)
(* on have the same future; TLC visits one of them.                            *)

\* What the stream has brought, as far as the turn still reads it.
Unread(t) ==
  IF pc[t] \in Streaming THEN <<live[t], final[t], results[t]>>
  ELSE IF pc[t] \in Storing THEN <<Content(t), results[t]>>
  ELSE <<>>

\* A turn whose events AudienceHearsAll is about, or is going to be about.
Heard(t) ==
  \/ pc[t] \in Requesting \cup {"open"}
  \/ pc[t] \in Busy /\ audience[t] # {}

\* Sockets and subscriptions never look at a turn: SubscribedWhileListening has met
\* all there is of the channel while the turns are idle. After that the channel
\* decides what the audience of a turn gets, until the first mishap makes
\* AudienceHearsAll say nothing.
ChannelMatters ==
  \/ exists /\ \A t \in Turns : pc[t] = "idle"
  \/ mishaps = 0 /\ \E t \in Turns : Heard(t)

\* What sockets have got guards nothing, and of a turn that is over only the truth
\* of AudienceHearsAll counts.
Reception(t) ==
  IF pc[t] \notin Busy THEN <<>>
  ELSE IF ~ChannelMatters THEN <<sent[t]>>
  ELSE <<sent[t], pod[t], audience[t], [s \in audience[t] |-> got[s][t]]>>

Channel ==
  IF ChannelMatters THEN <<ready, sub, conns, at, state, deaf, opens>> ELSE <<>>

WhatMatters ==
  <<Channel, task, pc, rows, told, failed, mishaps, AudienceHearsAll,
    [t \in Turns |-> <<Unread(t), Reception(t)>>]>>

SocketSymmetry == Permutations(Sockets) \cup Permutations(Pods)
=============================================================================
