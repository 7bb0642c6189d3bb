----------------------------- MODULE TurnContract -----------------------------
(***************************************************************************)
(* What a conversation promises about the answer of a turn, without pods,  *)
(* streams, statements or the channel: a placeholder becomes one text;     *)
(* evidence is stored for that text, once; viewers are told that text and  *)
(* nothing about the turn changes afterwards; a text gives way to the      *)
(* failure only while nobody was told and there is no evidence, after a    *)
(* failure the turn knows of. A deletion takes everything at once, or the  *)
(* evidence first, then the texts, then the conversation, and may stop in  *)
(* between; nothing that was deleted comes back.                           *)
(***************************************************************************)
CONSTANTS Turns,
          Texts,    \* what an answer may say
          Failure   \* the text of a failed turn

VARIABLES exists,    \* the conversation
          erasing,   \* its deletion is under way
          cut,       \* turns it has taken evidence or the text of
          shown,     \* turn -> what the user finds
          evidence,  \* turn -> whose trace rows there are
          told,      \* turn -> what viewers were told
          unsure,    \* turns that failed after their answer was stored
          unstored   \* turns whose failure text could not be stored

vars == <<exists, erasing, cut, shown, evidence, told, unsure, unstored>>

Init ==
  /\ exists = TRUE
  /\ erasing = FALSE /\ cut = {}
  /\ shown = [t \in Turns |-> "absent"]
  /\ evidence = [t \in Turns |-> "none"]
  /\ told = [t \in Turns |-> "nothing"]
  /\ unsure = {} /\ unstored = {}

Untold(t) == told[t] = "nothing"

Place(t) ==
  /\ exists /\ Untold(t) /\ shown[t] = "absent" /\ t \notin cut
  /\ shown' = [shown EXCEPT ![t] = "Thinking..."]
  /\ UNCHANGED <<exists, erasing, cut, evidence, told, unsure, unstored>>

Answer(t) ==
  /\ Untold(t) /\ shown[t] = "Thinking..."
  /\ \E text \in Texts : shown' = [shown EXCEPT ![t] = text]
  /\ UNCHANGED <<exists, erasing, cut, evidence, told, unsure, unstored>>

\* The failure takes the place of an answer.
Retract(t) ==
  /\ Untold(t) /\ shown[t] \in Texts
  /\ t \in unsure \ cut /\ evidence[t] = "none"
  /\ shown' = [shown EXCEPT ![t] = Failure]
  /\ UNCHANGED <<exists, erasing, cut, evidence, told, unsure, unstored>>

Prove(t) ==
  /\ Untold(t) /\ shown[t] \in Texts /\ evidence[t] = "none" /\ t \notin cut
  /\ evidence' = [evidence EXCEPT ![t] = IF shown[t] = Failure THEN "failure" ELSE "turn"]
  /\ UNCHANGED <<exists, erasing, cut, shown, told, unsure, unstored>>

Tell(t) ==
  /\ Untold(t)
  /\ \E text \in Texts :
       /\ \/ exists /\ text = shown[t]
          \/ ~exists
          \/ t \in cut /\ shown[t] = "absent"
          \/ t \in unstored /\ text = Failure
       /\ told' = [told EXCEPT ![t] = text]
  /\ UNCHANGED <<exists, erasing, cut, shown, evidence, unsure, unstored>>

Fail(t) ==
  /\ Untold(t)
  /\ \/ unsure' = unsure \cup {t} /\ UNCHANGED unstored
     \/ unstored' = unstored \cup {t} /\ UNCHANGED unsure
  /\ UNCHANGED <<exists, erasing, cut, shown, evidence, told>>

BeginErase ==
  /\ exists /\ ~erasing
  /\ erasing' = TRUE
  /\ UNCHANGED <<exists, cut, shown, evidence, told, unsure, unstored>>

\* The evidence of some turns goes.
Strip(ts) ==
  /\ erasing
  /\ evidence' = [t \in Turns |-> IF t \in ts THEN "none" ELSE evidence[t]]
  /\ cut' = cut \cup {t \in ts : evidence[t] # "none"}
  /\ UNCHANGED <<exists, erasing, shown, told, unsure, unstored>>

\* All texts go, and the evidence with them.
Wipe ==
  /\ erasing
  /\ shown' = [t \in Turns |-> "absent"]
  /\ evidence' = [t \in Turns |-> "none"]
  /\ cut' = cut \cup {t \in Turns : shown[t] # "absent"}
  /\ UNCHANGED <<exists, erasing, told, unsure, unstored>>

StopErasing ==
  /\ erasing
  /\ erasing' = FALSE
  /\ UNCHANGED <<exists, cut, shown, evidence, told, unsure, unstored>>

Delete ==
  /\ exists
  /\ exists' = FALSE /\ erasing' = FALSE /\ cut' = {}
  /\ shown' = [t \in Turns |-> "absent"]
  /\ evidence' = [t \in Turns |-> "none"]
  /\ UNCHANGED <<told, unsure, unstored>>

Next ==
  \/ Delete \/ BeginErase \/ Wipe \/ StopErasing
  \/ \E ts \in SUBSET Turns : Strip(ts)
  \/ \E t \in Turns :
       Place(t) \/ Answer(t) \/ Retract(t) \/ Prove(t) \/ Tell(t) \/ Fail(t)

Spec == Init /\ [][Next]_vars
=============================================================================
