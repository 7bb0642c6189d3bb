--------------------------- MODULE MessageDelivery ---------------------------
(***************************************************************************)
(* What queue mode promises about the messages of accepted requests,       *)
(* without loops, callbacks, tickets or deliveries: a message is handed    *)
(* over once, a client is told so only of a message that was handed over,  *)
(* one pipeline job is started for it at most, and it leaves the queue in  *)
(* no other way than by being begun, logged as lost (the queue of the      *)
(* process) or put among the dead letters (Pub/Sub).                       *)
(***************************************************************************)
EXTENDS Naturals

CONSTANT Messages

VARIABLES queued,  \* held by the API process, which may lose them
          held,    \* held by Pub/Sub, which loses none
          jobs,    \* message -> pipeline jobs started for it
          lost,    \* given up by the API process
          dead,    \* given up by Pub/Sub
          told     \* messages whose request was answered with success

vars == <<queued, held, jobs, lost, dead, told>>

Init ==
  /\ queued = {} /\ held = {} /\ lost = {} /\ dead = {} /\ told = {}
  /\ jobs = [m \in Messages |-> 0]

\* The messages that have been handed over.
Known == queued \cup held \cup lost \cup dead \cup {m \in Messages : jobs[m] > 0}

\* A request may fail although its message is handed over.
HandOver(m) ==
  /\ m \notin Known
  /\ \/ queued' = queued \cup {m} /\ UNCHANGED held
     \/ held' = held \cup {m} /\ UNCHANGED queued
  /\ told' \in {told, told \cup {m}}
  /\ UNCHANGED <<jobs, lost, dead>>

Begin(m) ==
  /\ m \in queued \cup held
  /\ queued' = queued \ {m}
  /\ held' = held \ {m}
  /\ jobs' = [jobs EXCEPT ![m] = @ + 1]
  /\ UNCHANGED <<lost, dead, told>>

\* The process gives up some of its messages: one, or all when it dies.
Lose ==
  /\ \E gone \in SUBSET queued :
       queued' = queued \ gone /\ lost' = lost \cup gone
  /\ UNCHANGED <<held, jobs, dead, told>>

GiveUp(m) ==
  /\ m \in held
  /\ held' = held \ {m}
  /\ dead' = dead \cup {m}
  /\ UNCHANGED <<queued, jobs, lost, told>>

Next == Lose \/ \E m \in Messages : HandOver(m) \/ Begin(m) \/ GiveUp(m)

Spec == Init /\ [][Next]_vars
=============================================================================
