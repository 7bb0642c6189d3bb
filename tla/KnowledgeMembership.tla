-------------------------- MODULE KnowledgeMembership --------------------------
(***************************************************************************)
(* Access of one member to the knowledge bases (value streams)             *)
(* (apps/agentic/server/admin.ts).  The streams of a member are kept       *)
(* twice: as rows of userValueStreams and as a list in the column          *)
(* users.valueStreams, which the authorisation reads.  Invitations, access *)
(* requests, administrators and managers change them; every database       *)
(* statement of a handler is a step of its own, and none but the deletion  *)
(* of test users runs in a transaction.                                    *)
(***************************************************************************)
EXTENDS Integers, FiniteSets

CONSTANTS Streams,   \* ids of value streams
          NoStream,
          Invites,   \* ids of invitations of the member
          NoInvite,
          Requests,  \* access requests of the member
          NoRequest,
          Calls,     \* handlers that may be open at once
          Ops,       \* the procedures in use
          Grants,    \* the roles that are given, as ranks
          MaxCalls,  \* bound: calls ever made
          MaxFails   \* bound: calls that end in the middle

ASSUME MembershipAssumption ==
  /\ NoStream \notin Streams /\ NoInvite \notin Invites /\ NoRequest \notin Requests
  /\ Grants \subseteq 1..4 /\ MaxCalls \in Nat /\ MaxFails \in Nat

VARIABLES
  rows,      \* userValueStreams of the member
  column,    \* users.valueStreams of the member
  role,      \* rank of users.role: viewer, operator, manager, admin
  streams,   \* valueStreams
  invites,   \* knowledgeInvites
  late,      \* invitations past expiresAt
  requests,  \* accessRequests
  active,    \* isActive of the manager who sends the invitations
  call,      \* the open calls
  begun, fails,
  broken,    \* history: since an overlap or a failure no call has mended it
  granted,   \* history: invitations that gave the member a stream
  raced      \* history: invitations whose acceptance overlapped or failed

access == <<rows, column, role>>
history == <<broken, granted, raced>>
budget == <<begun, fails>>
vars == <<access, streams, invites, late, requests, active, call, budget, history>>

Viewer == 1   \* DEFAULT_STANDARD_ROLE
Manager == 3
Admin == 4
Roles == Viewer..Admin

Idle == [op |-> "none", step |-> "idle", stream |-> NoStream, invite |-> NoInvite,
         request |-> NoRequest, role |-> Viewer, read |-> Viewer, seen |-> {},
         solo |-> TRUE]
NoRow == [status |-> "none", stream |-> NoStream, role |-> Viewer, solo |-> TRUE]
Unasked == [status |-> "none", stream |-> NoStream]

Init ==
  /\ streams = Streams
  /\ rows \in SUBSET Streams /\ column = rows
  /\ role = Viewer /\ active = TRUE
  /\ invites = [i \in Invites |-> NoRow] /\ late = {}
  /\ requests = [q \in Requests |-> Unasked]
  /\ call = [c \in Calls |-> Idle]
  /\ begun = 0 /\ fails = 0
  /\ broken = FALSE /\ granted = {} /\ raced = {}

Quiet == \A c \in Calls : call[c].step = "idle"
At(c, op, step) == call[c].op = op /\ call[c].step = step

\* Calls whose end leaves column as the rows, if nobody came between.
Mending == {"accept", "revoke", "changeRole", "assign", "provision"}
\* Calls that change rows or column.
Assigning == Mending \cup {"deleteStream"}

Pending(s) == {i \in Invites : invites[i].status = "pending" /\ invites[i].stream = s}

\* A call begins with its first statement; calls that are open together know it.
Begin(c, new) ==
  LET alone == \A d \in Calls : call[d].step = "idle" IN
    /\ new.op \in Ops
    /\ call[c].step = "idle" /\ begun < MaxCalls
    /\ begun' = begun + 1 /\ UNCHANGED fails
    /\ call' = [d \in Calls |->
                  IF d = c THEN [new EXCEPT !.solo = alone]
                  ELSE IF call[d].step = "idle" THEN Idle
                  ELSE [call[d] EXCEPT !.solo = FALSE]]

goto(c, step) == call' = [call EXCEPT ![c].step = step]

\* The end of a call that changed assignments.
Mend(c) ==
  broken' = IF call[c].op \notin Assigning THEN broken
            ELSE IF ~call[c].solo THEN TRUE
            ELSE broken /\ call[c].op \notin Mending
end(c) == call' = [call EXCEPT ![c] = Idle] /\ Mend(c)

-----------------------------------------------------------------------------
(* The two copies of the assignments *)

\* SELECT of the rows, for the column.
ReadRows(c) ==
  /\ call[c].step = "readRows"
  /\ call' = [call EXCEPT ![c].seen = rows, ![c].step = "writeColumn"]
  /\ UNCHANGED <<access, streams, invites, late, requests, active, budget, history>>

\* What revoke does when no stream is left.
Demotes(c) == call[c].op = "revoke" /\ call[c].seen = {}
              /\ call[c].read \notin {Viewer, Admin}

WriteColumn(c) ==
  /\ call[c].step = "writeColumn"
  /\ column' = call[c].seen
  /\ IF Demotes(c) THEN goto(c, "demote") /\ UNCHANGED broken
     ELSE IF call[c].op = "deleteStream" THEN goto(c, "dropStream") /\ UNCHANGED broken
     ELSE end(c)
  /\ UNCHANGED <<rows, role, streams, invites, late, requests, active, budget,
                 granted, raced>>

-----------------------------------------------------------------------------
(* acceptInvite, revokeInvite, createInvite *)

\* The invitation is pending; the session knows the role of the member.
BeginAccept(c, i) ==
  /\ invites[i].status = "pending"
  /\ Begin(c, [Idle EXCEPT !.op = "accept", !.invite = i,
                           !.stream = invites[i].stream, !.role = invites[i].role,
                           !.read = role,
                           !.step = IF i \in late THEN "expired" ELSE "accept"])
  /\ UNCHANGED <<access, streams, invites, late, requests, active, history>>

\* UPDATE ... WHERE id: without effect on an invitation that was deleted.
SetStatus(S, v) ==
  invites' = [i \in Invites |-> IF i \in S /\ invites[i].status \notin {"none", "gone"}
                                THEN [invites[i] EXCEPT !.status = v] ELSE invites[i]]

AcceptExpired(c) ==
  /\ At(c, "accept", "expired")
  /\ SetStatus({call[c].invite}, "expired")
  /\ call' = [call EXCEPT ![c] = Idle]
  /\ raced' = IF call[c].solo THEN raced ELSE raced \cup {call[c].invite}
  /\ UNCHANGED <<access, streams, late, requests, active, budget, broken, granted>>

\* Faulty variant: the ranks are not compared.
AcceptAndSetRole(c) ==
  /\ At(c, "accept", "accept")
  /\ SetStatus({call[c].invite}, "accepted")
  /\ goto(c, "raise")
  /\ UNCHANGED <<access, streams, late, requests, active, budget, history>>

Accept(c) ==
  /\ At(c, "accept", "accept")
  /\ SetStatus({call[c].invite}, "accepted")
  /\ goto(c, IF call[c].role > call[c].read THEN "raise" ELSE "upsert")
  /\ UNCHANGED <<access, streams, late, requests, active, budget, history>>

RaiseRole(c) ==
  /\ At(c, "accept", "raise")
  /\ role' = call[c].role
  /\ goto(c, "upsert")
  /\ UNCHANGED <<rows, column, streams, invites, late, requests, active, budget,
                 history>>

Upsert(c) ==
  /\ At(c, "accept", "upsert")
  /\ rows' = rows \cup {call[c].stream}
  /\ granted' = granted \cup {call[c].invite}
  /\ raced' = IF call[c].solo THEN raced ELSE raced \cup {call[c].invite}
  /\ goto(c, "readRows")
  /\ UNCHANGED <<column, role, streams, invites, late, requests, active, budget,
                 broken>>

\* Faulty variant: the status is not looked at.
BeginRevokeAny(c, i) ==
  /\ invites[i].status # "none"
  /\ Begin(c, [Idle EXCEPT !.op = "revokeInvite", !.invite = i, !.step = "revoke"])
  /\ UNCHANGED <<access, streams, invites, late, requests, active, history>>

BeginRevokeInvite(c, i) ==
  /\ invites[i].status = "pending"
  /\ Begin(c, [Idle EXCEPT !.op = "revokeInvite", !.invite = i, !.step = "revoke"])
  /\ UNCHANGED <<access, streams, invites, late, requests, active, history>>

RevokeInvite(c) ==
  /\ At(c, "revokeInvite", "revoke")
  /\ SetStatus({call[c].invite}, "revoked")
  /\ end(c)
  /\ raced' = IF call[c].solo THEN raced ELSE raced \cup {call[c].invite}
  /\ UNCHANGED <<access, streams, late, requests, active, budget, granted>>

\* The stream exists; the manager is who the session says.
BeginCreate(c, s, r) ==
  /\ active /\ s \in streams
  /\ Begin(c, [Idle EXCEPT !.op = "create", !.stream = s, !.role = r,
                           !.step = "lookup"])
  /\ UNCHANGED <<access, streams, invites, late, requests, active, history>>

\* A pending invitation for the address and the stream is refused.
LookupCreate(c) ==
  /\ At(c, "create", "lookup")
  /\ IF Pending(call[c].stream) = {} THEN goto(c, "insert")
                                     ELSE call' = [call EXCEPT ![c] = Idle]
  /\ UNCHANGED <<access, streams, invites, late, requests, active, budget, history>>

Insert(c) ==
  /\ call[c].stream \in streams
  /\ \E i \in Invites :
       /\ invites[i].status = "none"
       /\ invites' = [invites EXCEPT ![i] =
                        [status |-> "pending", stream |-> call[c].stream,
                         role |-> call[c].role, solo |-> call[c].solo]]

InsertCreate(c) ==
  /\ At(c, "create", "insert")
  /\ Insert(c)
  /\ call' = [call EXCEPT ![c] = Idle]
  /\ UNCHANGED <<access, streams, late, requests, active, budget, history>>

\* The foreign key of an invitation whose stream is gone.
InsertRefused(c) ==
  /\ call[c].step = "insert" /\ call[c].stream \notin streams
  /\ call' = [call EXCEPT ![c] = Idle]
  /\ UNCHANGED <<access, streams, invites, late, requests, active, budget, history>>

-----------------------------------------------------------------------------
(* submitAccessRequest, decideAccessRequest *)

Submit(q, s) ==
  /\ "decide" \in Ops
  /\ requests[q].status = "none" /\ s \in streams
  /\ requests' = [requests EXCEPT ![q] = [status |-> "pending", stream |-> s]]
  /\ UNCHANGED <<access, streams, invites, late, active, call, budget, history>>

BeginDecide(c, q, step) ==
  /\ active /\ requests[q].status = "pending" /\ requests[q].stream \in streams
  /\ Begin(c, [Idle EXCEPT !.op = "decide", !.request = q, !.step = step,
                           !.stream = requests[q].stream])
  /\ UNCHANGED <<access, streams, invites, late, requests, active, history>>

Decision(c, verdict) ==
  /\ requests' = [requests EXCEPT ![call[c].request].status = verdict]
  /\ call' = [call EXCEPT ![c] = Idle]
  /\ UNCHANGED <<access, streams, invites, late, active, budget, history>>

Deny(c) == At(c, "decide", "deny") /\ Decision(c, "denied")

\* Faulty variant: every decision sends an invitation.
LookupNothing(c) ==
  /\ At(c, "decide", "lookup")
  /\ goto(c, "insert")
  /\ UNCHANGED <<access, streams, invites, late, requests, active, budget, history>>

\* A pending invitation is reused.
LookupDecide(c) ==
  /\ At(c, "decide", "lookup")
  /\ goto(c, IF Pending(call[c].stream) = {} THEN "insert" ELSE "approve")
  /\ UNCHANGED <<access, streams, invites, late, requests, active, budget, history>>

InsertDecide(c) ==
  /\ At(c, "decide", "insert")
  /\ Insert(c)
  /\ goto(c, "approve")
  /\ UNCHANGED <<access, streams, late, requests, active, budget, history>>

Approve(c) == At(c, "decide", "approve") /\ Decision(c, "approved")

-----------------------------------------------------------------------------
(* updateManagedUserAccess, updateUserRole, assignValueStreams *)

\* The stream exists and the role of the member is read ...
BeginManage(c, op, s, r) ==
  /\ s \in streams
  /\ Begin(c, [Idle EXCEPT !.op = op, !.stream = s, !.role = r, !.read = role,
                           !.step = "check"])
  /\ UNCHANGED <<access, streams, invites, late, requests, active, history>>

\* ... then the assignment, without which there is nothing to manage.
CheckAssigned(c) ==
  /\ call[c].step = "check"
  /\ IF call[c].stream \in rows
     THEN goto(c, IF call[c].op = "revoke" THEN "deleteRow" ELSE "setRole")
     ELSE call' = [call EXCEPT ![c] = Idle]
  /\ UNCHANGED <<access, streams, invites, late, requests, active, budget, history>>

\* Faulty variant: the column is not brought up to date.
DeleteRowOnly(c) ==
  /\ At(c, "revoke", "deleteRow")
  /\ rows' = rows \ {call[c].stream}
  /\ end(c)
  /\ UNCHANGED <<column, role, streams, invites, late, requests, active, budget,
                 granted, raced>>

DeleteRow(c) ==
  /\ At(c, "revoke", "deleteRow")
  /\ rows' = rows \ {call[c].stream}
  /\ goto(c, "readRows")
  /\ UNCHANGED <<column, role, streams, invites, late, requests, active, budget,
                 history>>

Demote(c) ==
  /\ At(c, "revoke", "demote")
  /\ role' = Viewer
  /\ end(c)
  /\ UNCHANGED <<rows, column, streams, invites, late, requests, active, budget,
                 granted, raced>>

SetManagedRole(c) ==
  /\ At(c, "changeRole", "setRole")
  /\ role' = call[c].role
  /\ goto(c, "readRows")
  /\ UNCHANGED <<rows, column, streams, invites, late, requests, active, budget,
                 history>>

UpdateUserRole(r) ==
  /\ "updateUserRole" \in Ops
  /\ begun < MaxCalls /\ begun' = begun + 1
  /\ role' = r
  /\ UNCHANGED <<rows, column, streams, invites, late, requests, active, call,
                 fails, history>>

\* The rows are deleted, the new ones inserted, the column written from the input.
BeginAssign(c, S) ==
  /\ Begin(c, [Idle EXCEPT !.op = "assign", !.seen = S, !.step = "insertRows"])
  /\ rows' = {}
  /\ UNCHANGED <<column, role, streams, invites, late, requests, active, history>>

\* One row that is there again fails the whole statement.
InsertRows(c) ==
  /\ At(c, "assign", "insertRows")
  /\ IF call[c].seen \cap rows = {}
     THEN rows' = rows \cup call[c].seen /\ goto(c, "writeColumn") /\ UNCHANGED broken
     ELSE UNCHANGED rows /\ end(c)
  /\ UNCHANGED <<column, role, streams, invites, late, requests, active, budget,
                 granted, raced>>

-----------------------------------------------------------------------------
(* provisionKnowledgeBase, deleteValueStream, toggleUserActive, setUserActive *)

\* The member may manage knowledge and the id is free; an id that is taken gets a suffix, which makes it another.
BeginProvision(c, s) ==
  /\ role >= Manager /\ s \notin streams
  /\ Begin(c, [Idle EXCEPT !.op = "provision", !.stream = s, !.step = "insertStream"])
  /\ UNCHANGED <<access, streams, invites, late, requests, active, history>>

InsertStream(c) ==
  /\ At(c, "provision", "insertStream")
  /\ IF call[c].stream \notin streams
     THEN streams' = streams \cup {call[c].stream} /\ goto(c, "insertCollection")
          /\ UNCHANGED broken
     ELSE UNCHANGED streams /\ end(c)
  /\ UNCHANGED <<access, invites, late, requests, active, budget, granted, raced>>

InsertCollection(c) ==
  /\ At(c, "provision", "insertCollection")
  /\ IF call[c].stream \in streams THEN goto(c, "assign") /\ UNCHANGED broken ELSE end(c)
  /\ UNCHANGED <<access, streams, invites, late, requests, active, budget, granted,
                 raced>>

\* A row that a deleted stream of the same id left behind fails the insertion.
AssignCreator(c) ==
  /\ At(c, "provision", "assign")
  /\ IF call[c].stream \notin rows
     THEN rows' = rows \cup {call[c].stream} /\ goto(c, "readRows") /\ UNCHANGED broken
     ELSE UNCHANGED rows /\ call' = [call EXCEPT ![c] = Idle] /\ broken' = TRUE
  /\ UNCHANGED <<column, role, streams, invites, late, requests, active, budget,
                 granted, raced>>

\* The assignments are deleted first, then the column is read and rewritten, ...
BeginDeleteStream(c, s) ==
  /\ s \in streams
  /\ Begin(c, [Idle EXCEPT !.op = "deleteStream", !.stream = s, !.step = "readColumn"])
  /\ rows' = rows \ {s}
  /\ UNCHANGED <<column, role, streams, invites, late, requests, active, history>>

ReadColumn(c) ==
  /\ At(c, "deleteStream", "readColumn")
  /\ LET listed == call[c].stream \in column IN
       call' = [call EXCEPT ![c].seen = IF listed THEN column \ {call[c].stream} ELSE {},
                            ![c].step = IF listed THEN "writeColumn" ELSE "dropStream"]
  /\ UNCHANGED <<access, streams, invites, late, requests, active, budget, history>>

\* ... then the stream goes, and its invitations with it.
DropStream(c) ==
  /\ At(c, "deleteStream", "dropStream")
  /\ streams' = streams \ {call[c].stream}
  /\ invites' = [i \in Invites |-> IF invites[i].stream = call[c].stream
                                   THEN [invites[i] EXCEPT !.status = "gone"]
                                   ELSE invites[i]]
  /\ end(c)
  /\ UNCHANGED <<access, late, requests, active, budget, granted, raced>>

\* isActive of the manager is read, negated and written, ...
BeginToggle(c) ==
  /\ Begin(c, [Idle EXCEPT !.op = "toggle",
                           !.step = IF active THEN "deactivate" ELSE "activate"])
  /\ UNCHANGED <<access, streams, invites, late, requests, active, history>>

\* Faulty variant: the invitations stay.
ToggleOnly(c) ==
  /\ call[c].step \in {"deactivate", "activate"}
  /\ active' = (call[c].step = "activate")
  /\ call' = [call EXCEPT ![c] = Idle]
  /\ UNCHANGED <<access, streams, invites, late, requests, budget, history>>

Toggle(c) ==
  /\ call[c].step \in {"deactivate", "activate"}
  /\ active' = (call[c].step = "activate")
  /\ IF call[c].step = "deactivate" THEN goto(c, "revokeAll")
                                    ELSE call' = [call EXCEPT ![c] = Idle]
  /\ UNCHANGED <<access, streams, invites, late, requests, budget, history>>

\* ... and a deactivation revokes the pending invitations the manager sent.
RevokeAll(c) ==
  /\ At(c, "toggle", "revokeAll")
  /\ SetStatus({i \in Invites : invites[i].status = "pending"}, "revoked")
  /\ call' = [call EXCEPT ![c] = Idle]
  /\ raced' = IF call[c].solo THEN raced
              ELSE raced \cup {i \in Invites : invites[i].status = "pending"}
  /\ UNCHANGED <<access, streams, late, requests, active, budget, broken, granted>>

-----------------------------------------------------------------------------
(* Time and failure *)

Lapse(i) ==
  /\ invites[i].status = "pending" /\ i \notin late
  /\ late' = late \cup {i}
  /\ UNCHANGED <<access, streams, invites, requests, active, call, budget, history>>

\* A statement raises or the process dies; nothing is rolled back.
Abort(c) ==
  /\ call[c].step # "idle" /\ fails < MaxFails
  /\ fails' = fails + 1 /\ UNCHANGED begun
  /\ call' = [call EXCEPT ![c] = Idle]
  /\ broken' = (broken \/ call[c].op \in Assigning)
  /\ raced' = IF call[c].op = "accept" THEN raced \cup {call[c].invite} ELSE raced
  /\ UNCHANGED <<access, streams, invites, late, requests, active, granted>>

BeginAny(c) ==
  \/ \E i \in Invites : BeginAccept(c, i) \/ BeginRevokeInvite(c, i)
  \/ \E q \in Requests, step \in {"deny", "lookup"} : BeginDecide(c, q, step)
  \/ \E s \in Streams :
       \/ \E r \in Grants \ {Admin} :
            BeginCreate(c, s, r) \/ BeginManage(c, "changeRole", s, r)
       \/ BeginManage(c, "revoke", s, Viewer)
       \/ BeginProvision(c, s) \/ BeginDeleteStream(c, s)
  \/ \E S \in SUBSET Streams : BeginAssign(c, S)
  \/ BeginToggle(c)

Step(c) ==
  \/ ReadRows(c) \/ WriteColumn(c)
  \/ AcceptExpired(c) \/ Accept(c) \/ RaiseRole(c) \/ Upsert(c) \/ RevokeInvite(c)
  \/ LookupCreate(c) \/ InsertCreate(c) \/ InsertRefused(c)
  \/ Deny(c) \/ LookupDecide(c) \/ InsertDecide(c) \/ Approve(c)
  \/ CheckAssigned(c) \/ DeleteRow(c) \/ Demote(c) \/ SetManagedRole(c)
  \/ InsertRows(c)
  \/ InsertStream(c) \/ InsertCollection(c) \/ AssignCreator(c)
  \/ ReadColumn(c) \/ DropStream(c)
  \/ Toggle(c) \/ RevokeAll(c)

Next ==
  \/ \E c \in Calls : BeginAny(c) \/ Step(c) \/ Abort(c)
  \/ \E q \in Requests, s \in Streams : Submit(q, s)
  \/ \E r \in Grants : UpdateUserRole(r)
  \/ \E i \in Invites : Lapse(i)

Spec == Init /\ [][Next]_vars

-----------------------------------------------------------------------------
(* Properties *)

TypeOK ==
  /\ rows \subseteq Streams /\ column \subseteq Streams /\ role \in Roles
  /\ streams \subseteq Streams /\ active \in BOOLEAN
  /\ invites \in [Invites -> [status : {"none", "pending", "accepted", "revoked",
                                        "expired", "gone"},
                              stream : Streams \cup {NoStream}, role : Roles,
                              solo : BOOLEAN]]
  /\ late \subseteq Invites /\ granted \subseteq Invites /\ raced \subseteq Invites
  /\ requests \in [Requests -> [status : {"none", "pending", "approved", "denied"},
                                stream : Streams \cup {NoStream}]]
  /\ \A c \in Calls : call[c].seen \subseteq Streams /\ call[c].role \in Roles
  /\ broken \in BOOLEAN /\ begun \in 0..MaxCalls /\ fails \in 0..MaxFails

\* Once nobody is at work the column, which the authorisation reads, lists the
\* streams of the rows: calls that ran one at a time and to their end keep the
\* copies together, and one such call mends what an overlap or a failure left.
ColumnAgrees == Quiet /\ ~broken => column = rows

\* A stream has two pending invitations of one address only if a call that
\* inserted one of them overlapped another call; a decision that is repeated
\* after a failure reuses the invitation of the first attempt.
OnePendingInvite ==
  \A i, j \in Invites :
    /\ i # j /\ invites[i].stream = invites[j].stream
    /\ invites[i].status = "pending" /\ invites[j].status = "pending"
    => ~(invites[i].solo /\ invites[j].solo)

\* An approved request has led to an invitation, in every order of two managers'
\* decisions, whatever fails and whichever stream goes meanwhile.
ApprovedHasInvite ==
  \A q \in Requests :
    requests[q].status = "approved"
    => \E i \in Invites : invites[i].stream = requests[q].stream

\* What an invitation says is what the member got: accepted if and only if it
\* gave a stream, unless its acceptance overlapped another call or failed.
InvitationHonest ==
  \A i \in Invites : Quiet /\ i \notin raced /\ invites[i].status # "gone" =>
    (i \in granted <=> invites[i].status = "accepted")

\* Unless a call failed, a deactivated manager leaves no pending invitation behind
\* but one whose sending overlapped another call.
NoneOutlivesManager ==
  Quiet /\ ~active /\ fails = 0 =>
    \A i \in Invites : invites[i].status = "pending" => ~invites[i].solo

\* The role of the member is lowered by an administrator or a manager only, or
\* by an acceptance whose session had an older role: accepting never demotes.
AcceptNeverDemotes ==
  [][ role' < role =>
        \/ \E c \in Calls : call[c].step \in {"demote", "setRole"}
        \/ \E c \in Calls : call[c].step = "raise" /\ ~(call[c].solo /\ call[c].read = role)
        \/ begun' = begun + 1 ]_vars

=============================================================================
