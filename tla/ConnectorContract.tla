-------------------------- MODULE ConnectorContract --------------------------
(***************************************************************************)
(* What a connector promises about the changes of its drive, without       *)
(* pods, locks, snapshots, records, batches or counters: a sync begins     *)
(* once and only while the connector exists; until Redis fails or somebody *)
(* asks for a sync, one runs at a time; a sync that ends moves the token,  *)
(* never beyond a change that is not accounted for, and back only where    *)
(* syncs may overlap; the owner may empty it, so that everything is listed *)
(* again; a deletion is final.                                             *)
(***************************************************************************)
EXTENDS Integers

CONSTANT Syncs

VARIABLES head,       \* number of the latest change of the drive
          accounted,  \* changes the pipeline accepted or the sync gave up
          token,      \* where the next sync starts, None before the first
          open,       \* syncs that are running
          over,       \* syncs that ended, or whose pod died
          disturbed,  \* a Redis command failed, or somebody asked for a sync
          deleted

vars == <<head, accounted, token, open, over, disturbed, deleted>>

None == -1

Init ==
  /\ head = 0 /\ accounted = {} /\ token = None
  /\ open = {} /\ over = {}
  /\ disturbed = FALSE /\ deleted = FALSE

Change ==
  /\ head' = head + 1
  /\ UNCHANGED <<accounted, token, open, over, disturbed, deleted>>

Disturb ==
  /\ disturbed' = TRUE
  /\ UNCHANGED <<head, accounted, token, open, over, deleted>>

Begin(s) ==
  /\ s \notin open \cup over
  /\ ~deleted
  /\ disturbed \/ open = {}
  /\ open' = open \cup {s}
  /\ UNCHANGED <<head, accounted, token, over, disturbed, deleted>>

\* Only a running sync delivers or gives up, and only what the drive has shown.
Account ==
  /\ open # {}
  /\ \E some \in SUBSET (1..head) : accounted' = accounted \cup some
  /\ UNCHANGED <<head, token, open, over, disturbed, deleted>>

\* The token a successful sync leaves behind.
Passable(t) ==
  /\ 1..t \subseteq accounted
  /\ disturbed \/ t >= token

Advance(s) ==
  /\ s \in open
  /\ ~deleted
  /\ \E t \in 0..head : Passable(t) /\ token' = t
  /\ open' = open \ {s} /\ over' = over \cup {s}
  /\ UNCHANGED <<head, accounted, disturbed, deleted>>

\* Syncs that fail, or find their connector gone; several when a pod dies.
End ==
  /\ \E some \in SUBSET open :
       open' = open \ some /\ over' = over \cup some
  /\ UNCHANGED <<head, accounted, token, disturbed, deleted>>

Reset ==
  /\ ~deleted
  /\ token' = None
  /\ UNCHANGED <<head, accounted, open, over, disturbed, deleted>>

Delete ==
  /\ ~deleted
  /\ deleted' = TRUE /\ token' = None
  /\ UNCHANGED <<head, accounted, open, over, disturbed>>

Next ==
  \/ Change \/ Disturb \/ Account \/ End \/ Reset \/ Delete
  \/ \E s \in Syncs : Begin(s) \/ Advance(s)

Spec == Init /\ [][Next]_vars
=============================================================================
