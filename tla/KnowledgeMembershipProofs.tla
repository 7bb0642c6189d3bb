----------------------- MODULE KnowledgeMembershipProofs -----------------------
(* Theorems about the membership of a knowledge base, for any number of        *)
(* streams, invitations, access requests, overlapping calls and failures.      *)
EXTENDS KnowledgeMembership, TLAPS

USE DEF access, history, budget

-----------------------------------------------------------------------------
(* What a call looks like *)

OpNames == {"none", "accept", "revokeInvite", "create", "decide", "revoke", "changeRole",
            "assign", "provision", "deleteStream", "toggle"}
StepNames == {"idle", "readRows", "writeColumn", "demote", "dropStream", "expired",
              "accept", "raise", "upsert", "revoke", "lookup", "insert", "deny", "approve",
              "check", "deleteRow", "setRole", "insertRows", "insertStream",
              "insertCollection", "assign", "readColumn", "deactivate", "activate",
              "revokeAll"}

CallType == [op : OpNames, step : StepNames, stream : Streams \cup {NoStream},
             invite : Invites \cup {NoInvite}, request : Requests \cup {NoRequest},
             role : Roles, read : Roles, seen : SUBSET Streams, solo : BOOLEAN]
CallsTyped == call \in [Calls -> CallType]

LEMMA IdleTyped == Idle \in CallType
  BY DEF Idle, CallType, OpNames, StepNames, Roles, Viewer, Admin

\* A call that begins gets its own fields; those that are open become overlapping.
LEMMA BeginCalls ==
  ASSUME CallsTyped, NEW c \in Calls, NEW new \in CallType, Begin(c, new)
  PROVE  /\ CallsTyped'
         /\ call[c].step = "idle"
         /\ call'[c].op = new.op /\ call'[c].step = new.step
         /\ call'[c].stream = new.stream /\ call'[c].invite = new.invite
         /\ call'[c].request = new.request /\ call'[c].role = new.role
         /\ call'[c].read = new.read /\ call'[c].seen = new.seen
         /\ call'[c].solo => Quiet
         /\ \A d \in Calls \ {c} :
              \/ call[d].step = "idle" /\ call'[d] = Idle
              \/ /\ call[d].step # "idle" /\ ~call'[d].solo
                 /\ call'[d].op = call[d].op /\ call'[d].step = call[d].step
                 /\ call'[d].stream = call[d].stream /\ call'[d].invite = call[d].invite
                 /\ call'[d].request = call[d].request /\ call'[d].role = call[d].role
                 /\ call'[d].read = call[d].read /\ call'[d].seen = call[d].seen
<1>1. /\ call[c].step = "idle"
      /\ call' = [d \in Calls |->
                    IF d = c THEN [new EXCEPT !.solo = Quiet]
                    ELSE IF call[d].step = "idle" THEN Idle
                    ELSE [call[d] EXCEPT !.solo = FALSE]]
  BY DEF Begin, Quiet
<1>2. Quiet \in BOOLEAN
  BY DEF Quiet
<1>3. \A w \in CallType, b \in BOOLEAN :
        /\ [w EXCEPT !.solo = b] \in CallType
        /\ [w EXCEPT !.solo = b].solo = b
        /\ [w EXCEPT !.solo = b].op = w.op /\ [w EXCEPT !.solo = b].step = w.step
        /\ [w EXCEPT !.solo = b].stream = w.stream
        /\ [w EXCEPT !.solo = b].invite = w.invite
        /\ [w EXCEPT !.solo = b].request = w.request
        /\ [w EXCEPT !.solo = b].role = w.role /\ [w EXCEPT !.solo = b].read = w.read
        /\ [w EXCEPT !.solo = b].seen = w.seen
  BY DEF CallType
<1>4. \A d \in Calls : call[d] \in CallType
  BY DEF CallsTyped
<1>5. CallsTyped'
  BY <1>1, <1>2, <1>3, <1>4, IdleTyped DEF CallsTyped
<1>6. call'[c] = [new EXCEPT !.solo = Quiet]
  BY <1>1
<1>7. \A d \in Calls \ {c} :
        \/ call[d].step = "idle" /\ call'[d] = Idle
        \/ call[d].step # "idle" /\ call'[d] = [call[d] EXCEPT !.solo = FALSE]
  BY <1>1
<1>8. ASSUME NEW d \in Calls \ {c}
      PROVE  \/ call[d].step = "idle" /\ call'[d] = Idle
             \/ /\ call[d].step # "idle" /\ ~call'[d].solo
                /\ call'[d].op = call[d].op /\ call'[d].step = call[d].step
                /\ call'[d].stream = call[d].stream /\ call'[d].invite = call[d].invite
                /\ call'[d].request = call[d].request /\ call'[d].role = call[d].role
                /\ call'[d].read = call[d].read /\ call'[d].seen = call[d].seen
  <2>1. CASE call[d].step = "idle" /\ call'[d] = Idle
    BY <2>1
  <2>2. CASE call[d].step # "idle" /\ call'[d] = [call[d] EXCEPT !.solo = FALSE]
    <3>1. call[d] \in CallType
      BY <1>4
    <3> QED BY <2>2, <3>1, <1>3
  <2> QED BY <1>7, <2>1, <2>2
<1>9. /\ call'[c].op = new.op /\ call'[c].step = new.step
      /\ call'[c].stream = new.stream /\ call'[c].invite = new.invite
      /\ call'[c].request = new.request /\ call'[c].role = new.role
      /\ call'[c].read = new.read /\ call'[c].seen = new.seen
      /\ call'[c].solo => Quiet
  BY <1>2, <1>3, <1>6
<1> QED BY <1>1, <1>5, <1>8, <1>9

\* A call that goes on: its fields but for the step and what it has seen.
Same(c) ==
  /\ call'[c].op = call[c].op /\ call'[c].stream = call[c].stream
  /\ call'[c].invite = call[c].invite /\ call'[c].request = call[c].request
  /\ call'[c].role = call[c].role /\ call'[c].read = call[c].read
  /\ call'[c].solo = call[c].solo

LEMMA GotoCalls ==
  ASSUME CallsTyped, NEW c \in Calls, NEW step \in StepNames, goto(c, step)
  PROVE  /\ CallsTyped' /\ Same(c)
         /\ call'[c].step = step /\ call'[c].seen = call[c].seen
         /\ \A d \in Calls \ {c} : call'[d] = call[d]
<1>1. /\ call'[c] = [call[c] EXCEPT !.step = step]
      /\ \A d \in Calls \ {c} : call'[d] = call[d]
      /\ call' = [call EXCEPT ![c] = [call[c] EXCEPT !.step = step]]
  BY DEF goto, CallsTyped
<1>2. call[c] \in CallType
  BY DEF CallsTyped
<1>3. [call[c] EXCEPT !.step = step] \in CallType
  BY <1>2 DEF CallType
<1>4. Same(c) /\ call'[c].step = step /\ call'[c].seen = call[c].seen
  BY <1>1, <1>2 DEF CallType, Same
<1> QED BY <1>1, <1>3, <1>4 DEF CallsTyped

LEMMA SeeCalls ==
  ASSUME CallsTyped, NEW c \in Calls, NEW S \in SUBSET Streams, NEW step \in StepNames,
         call' = [call EXCEPT ![c].seen = S, ![c].step = step]
  PROVE  /\ CallsTyped' /\ Same(c)
         /\ call'[c].step = step /\ call'[c].seen = S
         /\ \A d \in Calls \ {c} : call'[d] = call[d]
<1>1. /\ call'[c] = [call[c] EXCEPT !.seen = S, !.step = step]
      /\ \A d \in Calls \ {c} : call'[d] = call[d]
      /\ call' = [call EXCEPT ![c] = [call[c] EXCEPT !.seen = S, !.step = step]]
  BY DEF CallsTyped
<1>2. call[c] \in CallType
  BY DEF CallsTyped
<1>3. [call[c] EXCEPT !.seen = S, !.step = step] \in CallType
  BY <1>2 DEF CallType
<1>4. Same(c) /\ call'[c].step = step /\ call'[c].seen = S
  BY <1>1, <1>2 DEF CallType, Same
<1> QED BY <1>1, <1>3, <1>4 DEF CallsTyped

LEMMA IdleCalls ==
  ASSUME CallsTyped, NEW c \in Calls, call' = [call EXCEPT ![c] = Idle]
  PROVE  /\ CallsTyped' /\ call'[c] = Idle
         /\ \A d \in Calls \ {c} : call'[d] = call[d]
  BY IdleTyped DEF CallsTyped

LEMMA IdleFields == Idle.step = "idle" /\ Idle.op = "none" /\ Idle.seen = {} /\ Idle.solo
  BY DEF Idle

\* A step of a call leaves it a call, and the others alone.
LEMMA StepCalls ==
  ASSUME CallsTyped, rows \subseteq Streams, column \subseteq Streams,
         NEW c \in Calls, Step(c)
  PROVE  /\ CallsTyped' /\ call[c].step # "idle"
         /\ call'[c] = Idle \/ Same(c)
         /\ \A d \in Calls \ {c} : call'[d] = call[d]
<1> DEFINE P == /\ CallsTyped'
                /\ call'[c] = Idle \/ Same(c)
                /\ \A d \in Calls \ {c} : call'[d] = call[d]
<1>1. /\ call[c].step # "idle"
      /\ \/ call' = [call EXCEPT ![c] = Idle]
         \/ \E step \in StepNames : goto(c, step)
         \/ \E S \in SUBSET Streams, step \in StepNames :
              call' = [call EXCEPT ![c].seen = S, ![c].step = step]
  <2>1. CASE ReadRows(c) \/ ReadColumn(c)
    BY <2>1 DEF ReadRows, ReadColumn, At, StepNames
  <2>2. CASE WriteColumn(c) \/ AcceptExpired(c) \/ Accept(c) \/ RaiseRole(c) \/ Upsert(c)
             \/ RevokeInvite(c) \/ LookupCreate(c) \/ InsertCreate(c) \/ InsertRefused(c)
    BY <2>2 DEF WriteColumn, AcceptExpired, Accept, RaiseRole, Upsert, RevokeInvite,
                LookupCreate, InsertCreate, InsertRefused, At, StepNames, end
  <2>3. CASE Deny(c) \/ LookupDecide(c) \/ InsertDecide(c) \/ Approve(c)
             \/ CheckAssigned(c) \/ DeleteRow(c) \/ Demote(c) \/ SetManagedRole(c)
             \/ InsertRows(c)
    BY <2>3 DEF Deny, LookupDecide, InsertDecide, Approve, Decision, CheckAssigned,
                DeleteRow, Demote, SetManagedRole, InsertRows, At, StepNames, end
  <2>4. CASE InsertStream(c) \/ InsertCollection(c) \/ AssignCreator(c) \/ DropStream(c)
             \/ Toggle(c) \/ RevokeAll(c)
    BY <2>4 DEF InsertStream, InsertCollection, AssignCreator, DropStream, Toggle,
                RevokeAll, At, StepNames, end
  <2> QED BY <2>1, <2>2, <2>3, <2>4 DEF Step
<1>2. CASE call' = [call EXCEPT ![c] = Idle]
  BY <1>1, <1>2, IdleCalls
<1>3. ASSUME NEW step \in StepNames, goto(c, step)
      PROVE  P
  BY <1>3, GotoCalls
<1>4. ASSUME NEW S \in SUBSET Streams, NEW step \in StepNames,
             call' = [call EXCEPT ![c].seen = S, ![c].step = step]
      PROVE  P
  BY <1>4, SeeCalls
<1> QED BY <1>1, <1>2, <1>3, <1>4

-----------------------------------------------------------------------------
(* Types *)

InviteOps == {"accept", "revokeInvite"}
StreamOps == {"accept", "create", "decide", "revoke", "changeRole", "provision",
              "deleteStream"}

\* What the fields of a call, an invitation and a request refer to.
CallRefers ==
  \A c \in Calls :
    /\ call[c].op \in InviteOps => call[c].invite \in Invites
    /\ call[c].op \in StreamOps => call[c].stream \in Streams
    /\ call[c].op = "decide" => /\ call[c].request \in Requests
                                /\ requests[call[c].request].status # "none"
                                /\ requests[call[c].request].stream = call[c].stream
    /\ call[c].step = "insert" => call[c].op \in {"create", "decide"}
Referring ==
  /\ \A i \in Invites : IF invites[i].status = "none" THEN invites[i].stream = NoStream
                                                      ELSE invites[i].stream \in Streams
  /\ \A q \in Requests : requests[q].status # "none" => requests[q].stream \in Streams
  /\ CallRefers

Types == TypeOK /\ CallsTyped /\ Referring

\* An invitation or a request, once made, keeps its stream.
Kept ==
  /\ \A i \in Invites :
       /\ invites[i].status # "none" => /\ invites'[i].status # "none"
                                        /\ invites'[i].stream = invites[i].stream
       /\ invites'[i].status = "pending"
            => \/ invites'[i] = invites[i]
               \/ invites[i].status = "none"
       /\ IF invites'[i].status = "none" THEN invites'[i].stream = NoStream
                                         ELSE invites'[i].stream \in Streams
  /\ \A q \in Requests :
       /\ requests[q].status # "none" => requests'[q].status # "none"
                                         /\ requests'[q].stream = requests[q].stream
       /\ requests'[q].status # "none" => requests'[q].stream \in Streams

InviteType == [status : {"none", "pending", "accepted", "revoked", "expired", "gone"},
               stream : Streams \cup {NoStream}, role : Roles, solo : BOOLEAN]
InvitesTyped == invites \in [Invites -> InviteType]
RequestsTyped == requests \in [Requests ->
                   [status : {"none", "pending", "approved", "denied"},
                    stream : Streams \cup {NoStream}]]

LEMMA SetStatusKeeps ==
  ASSUME Types, NEW S \in SUBSET Invites, NEW v \in {"accepted", "revoked", "expired"},
         SetStatus(S, v), requests' = requests
  PROVE  Kept /\ InvitesTyped'
<1>1. \A i \in Invites : invites[i] \in InviteType
  BY DEF Types, TypeOK, InviteType
<1>2. \A w \in InviteType : /\ [w EXCEPT !.status = v] \in InviteType
                            /\ [w EXCEPT !.status = v].status = v
                            /\ [w EXCEPT !.status = v].stream = w.stream
  BY DEF InviteType
<1>3. \A i \in Invites : \/ invites'[i] = invites[i]
                         \/ /\ invites[i].status # "none"
                            /\ invites'[i] = [invites[i] EXCEPT !.status = v]
  BY DEF SetStatus
<1>4. invites' = [i \in Invites |-> invites'[i]]
  BY DEF SetStatus
<1>5. InvitesTyped'
  BY <1>1, <1>2, <1>3, <1>4 DEF InvitesTyped
<1>6. \A i \in Invites :
        /\ invites'[i].stream = invites[i].stream
        /\ invites'[i].status = invites[i].status
           \/ /\ invites'[i].status = v /\ v # "none" /\ v # "pending"
              /\ invites[i].status # "none"
        /\ invites'[i].status = "pending" => invites'[i] = invites[i]
  <2> TAKE i \in Invites
  <2>1. CASE invites'[i] = invites[i]
    BY <2>1
  <2>2. CASE /\ invites[i].status # "none"
             /\ invites'[i] = [invites[i] EXCEPT !.status = v]
    <3>1. invites'[i].status = v /\ invites'[i].stream = invites[i].stream
      BY <1>1, <1>2, <2>2
    <3> QED BY <3>1, <2>2
  <2> QED BY <1>3, <2>1, <2>2
<1>7. \A i \in Invites : IF invites[i].status = "none" THEN invites[i].stream = NoStream
                                                      ELSE invites[i].stream \in Streams
  BY DEF Types, Referring
<1>8. \A i \in Invites : IF invites'[i].status = "none" THEN invites'[i].stream = NoStream
                                                       ELSE invites'[i].stream \in Streams
  BY <1>6, <1>7
<1>9. \A q \in Requests : requests[q].status # "none" => requests[q].stream \in Streams
  BY DEF Types, Referring
<1> QED BY <1>5, <1>6, <1>8, <1>9 DEF Kept

LEMMA InsertKeeps ==
  ASSUME Types, NEW c \in Calls, Insert(c), requests' = requests,
         call[c].stream \in Streams
  PROVE  /\ Kept /\ InvitesTyped'
         /\ \E i \in Invites :
              /\ invites[i].status = "none" /\ invites'[i].stream = call[c].stream
              /\ invites'[i].solo = call[c].solo
              /\ \A j \in Invites \ {i} : invites'[j] = invites[j]
<1> DEFINE new == [status |-> "pending", stream |-> call[c].stream,
                   role |-> call[c].role, solo |-> call[c].solo]
<1>1. PICK i \in Invites : invites[i].status = "none" /\ invites' = [invites EXCEPT ![i] = new]
  BY DEF Insert
<1>2. new \in InviteType
  BY DEF InviteType, Types, CallsTyped, CallType
<1>3. invites'[i] = new /\ \A j \in Invites \ {i} : invites'[j] = invites[j]
  BY <1>1 DEF Types, TypeOK
<1>4. InvitesTyped'
  BY <1>1, <1>2 DEF InvitesTyped, Types, TypeOK, InviteType
<1>5. Kept
  BY <1>1, <1>3 DEF Kept, Types, Referring
<1> QED BY <1>1, <1>3, <1>4, <1>5

LEMMA DropKeeps ==
  ASSUME Types, NEW c \in Calls, DropStream(c)
  PROVE  Kept /\ InvitesTyped'
<1>1. \A i \in Invites : invites[i] \in InviteType
  BY DEF Types, TypeOK, InviteType
<1>2. \A w \in InviteType : /\ [w EXCEPT !.status = "gone"] \in InviteType
                            /\ [w EXCEPT !.status = "gone"].status = "gone"
                            /\ [w EXCEPT !.status = "gone"].stream = w.stream
  BY DEF InviteType
<1>3. call[c].stream \in Streams
  BY DEF Types, Referring, CallRefers, StreamOps, DropStream, At
<1>4. \A i \in Invites : \/ invites'[i] = invites[i]
                         \/ /\ invites[i].stream = call[c].stream
                            /\ invites'[i] = [invites[i] EXCEPT !.status = "gone"]
  BY DEF DropStream
<1>5. invites' = [i \in Invites |-> invites'[i]] /\ requests' = requests
  BY DEF DropStream
<1>6. InvitesTyped'
  BY <1>1, <1>2, <1>4, <1>5 DEF InvitesTyped
<1>7. call[c].stream # NoStream
  BY <1>3, MembershipAssumption
<1>8. \A i \in Invites : IF invites[i].status = "none" THEN invites[i].stream = NoStream
                                                      ELSE invites[i].stream \in Streams
  BY DEF Types, Referring
<1>9. \A i \in Invites :
        /\ invites'[i].stream = invites[i].stream
        /\ \/ invites'[i].status = invites[i].status
           \/ invites'[i].status = "gone" /\ invites[i].status # "none"
        /\ invites'[i].status = "pending" => invites'[i] = invites[i]
  <2> TAKE i \in Invites
  <2>1. CASE invites'[i] = invites[i]
    BY <2>1
  <2>2. CASE /\ invites[i].stream = call[c].stream
             /\ invites'[i] = [invites[i] EXCEPT !.status = "gone"]
    <3>1. invites'[i].status = "gone" /\ invites'[i].stream = invites[i].stream
      BY <1>1, <1>2, <2>2
    <3>2. invites[i].status # "none"
      BY <1>7, <1>8, <2>2
    <3> QED BY <3>1, <3>2
  <2> QED BY <1>4, <2>1, <2>2
<1>10. \A i \in Invites : IF invites'[i].status = "none" THEN invites'[i].stream = NoStream
                                                        ELSE invites'[i].stream \in Streams
  BY <1>8, <1>9
<1>11. \A q \in Requests : requests[q].status # "none" => requests[q].stream \in Streams
  BY DEF Types, Referring
<1> QED BY <1>5, <1>6, <1>9, <1>10, <1>11 DEF Kept

LEMMA NothingKept ==
  ASSUME Types, invites' = invites, requests' = requests
  PROVE  Kept /\ InvitesTyped' /\ RequestsTyped'
  BY DEF Types, TypeOK, Referring, Kept, InvitesTyped, RequestsTyped, InviteType

LEMMA DecisionKeeps ==
  ASSUME Types, NEW c \in Calls, call[c].op = "decide",
         NEW v \in {"approved", "denied"}, Decision(c, v)
  PROVE  Kept /\ InvitesTyped' /\ RequestsTyped'
<1> DEFINE q == call[c].request
<1>1. q \in Requests /\ requests[q].status # "none" /\ requests[q].stream \in Streams
  BY DEF Types, Referring, CallRefers
<1>2. invites' = invites /\ requests' = [requests EXCEPT ![q].status = v]
  BY DEF Decision
<1>3. RequestsTyped'
  BY <1>1, <1>2 DEF Types, TypeOK, RequestsTyped
<1>4. /\ requests'[q].status = v /\ requests'[q].stream = requests[q].stream
      /\ \A r \in Requests \ {q} : requests'[r] = requests[r]
  BY <1>1, <1>2 DEF Types, TypeOK
<1> QED BY <1>1, <1>2, <1>3, <1>4 DEF Kept, Types, TypeOK, Referring, InvitesTyped, InviteType

\* The types of what the calls write, apart from invitations and requests.
Rest ==
  /\ rows \subseteq Streams /\ column \subseteq Streams /\ role \in Roles
  /\ streams \subseteq Streams /\ active \in BOOLEAN
  /\ late \subseteq Invites /\ granted \subseteq Invites /\ raced \subseteq Invites
  /\ broken \in BOOLEAN /\ begun \in 0..MaxCalls /\ fails \in 0..MaxFails

LEMMA RestTyped == TypeOK <=> /\ Rest /\ InvitesTyped /\ RequestsTyped
                              /\ \A c \in Calls : /\ call[c].seen \subseteq Streams
                                                  /\ call[c].role \in Roles
  BY DEF TypeOK, Rest, InvitesTyped, RequestsTyped, InviteType

LEMMA MendTyped ==
  ASSUME broken \in BOOLEAN, NEW c \in Calls, Mend(c)
  PROVE  broken' \in BOOLEAN
  BY DEF Mend

\* What a step of a call does to invitations, requests and the rest.
LEMMA StepRest ==
  ASSUME Types, NEW c \in Calls, Step(c)
  PROVE  Rest' /\ Kept /\ InvitesTyped' /\ RequestsTyped'
<1> USE DEF At
<1>1. /\ Rest /\ RequestsTyped
      /\ call[c].seen \subseteq Streams /\ call[c].role \in Roles
      /\ call[c].op \in InviteOps => call[c].invite \in Invites
      /\ call[c].op \in StreamOps => call[c].stream \in Streams
      /\ call[c].step = "insert" => call[c].op \in {"create", "decide"}
  BY RestTyped DEF Types, Referring, CallRefers
<1>2. ASSUME invites' = invites, requests' = requests
      PROVE  Kept /\ InvitesTyped' /\ RequestsTyped'
  BY <1>2, NothingKept DEF Types
<1>3. ASSUME requests' = requests
      PROVE  RequestsTyped'
  BY <1>1, <1>3 DEF RequestsTyped
<1>4. CASE ReadRows(c) \/ ReadColumn(c) \/ LookupCreate(c) \/ InsertRefused(c)
           \/ LookupDecide(c) \/ CheckAssigned(c)
  BY <1>1, <1>2, <1>4 DEF ReadRows, ReadColumn, LookupCreate, InsertRefused, LookupDecide,
                          CheckAssigned, Rest
<1>5. CASE WriteColumn(c) \/ Demote(c) \/ InsertCollection(c)
  BY <1>1, <1>2, <1>5, MendTyped
     DEF WriteColumn, Demote, InsertCollection, Rest, end, Roles, Viewer, Admin
<1>6. CASE RaiseRole(c) \/ SetManagedRole(c) \/ DeleteRow(c)
  BY <1>1, <1>2, <1>6 DEF RaiseRole, SetManagedRole, DeleteRow, Rest
<1>7. CASE Upsert(c)
  <2>1. invites' = invites /\ requests' = requests
    BY <1>7 DEF Upsert
  <2>2. call[c].invite \in Invites /\ call[c].stream \in Streams
    BY <1>1, <1>7 DEF Upsert, InviteOps, StreamOps
  <2> QED BY <1>1, <1>2, <1>7, <2>1, <2>2 DEF Upsert, Rest
<1>8. CASE InsertRows(c)
  BY <1>1, <1>2, <1>8, MendTyped DEF InsertRows, Rest, end
<1>9. CASE InsertStream(c) \/ AssignCreator(c)
  <2>1. call[c].stream \in Streams /\ invites' = invites /\ requests' = requests
    BY <1>1, <1>9 DEF InsertStream, AssignCreator, StreamOps
  <2> QED BY <1>1, <1>2, <1>9, <2>1, MendTyped DEF InsertStream, AssignCreator, Rest, end
<1>10. CASE AcceptExpired(c) \/ Accept(c) \/ RevokeInvite(c)
  <2>1. call[c].invite \in Invites /\ requests' = requests
    BY <1>1, <1>10 DEF AcceptExpired, Accept, RevokeInvite, InviteOps
  <2>2. \E v \in {"accepted", "revoked", "expired"} : SetStatus({call[c].invite}, v)
    BY <1>10 DEF AcceptExpired, Accept, RevokeInvite
  <2>3. Kept /\ InvitesTyped'
    BY <2>1, <2>2, SetStatusKeeps
  <2>4. Rest'
    BY <1>1, <1>10, <2>1, MendTyped DEF AcceptExpired, Accept, RevokeInvite, Rest, end
  <2> QED BY <1>3, <2>1, <2>3, <2>4
<1>11. CASE RevokeAll(c)
  <2> DEFINE S == {i \in Invites : invites[i].status = "pending"}
  <2>1. S \subseteq Invites /\ SetStatus(S, "revoked") /\ requests' = requests
    BY <1>11 DEF RevokeAll
  <2>2. Kept /\ InvitesTyped'
    BY <2>1, SetStatusKeeps
  <2>3. Rest'
    BY <1>1, <1>11 DEF RevokeAll, Rest
  <2> QED BY <1>3, <2>1, <2>2, <2>3
<1>12. CASE InsertCreate(c) \/ InsertDecide(c)
  <2>1. Insert(c) /\ requests' = requests /\ call[c].stream \in Streams
    BY <1>1, <1>12 DEF InsertCreate, InsertDecide, StreamOps
  <2>2. Kept /\ InvitesTyped'
    BY <2>1, InsertKeeps
  <2>3. Rest'
    BY <1>1, <1>12 DEF InsertCreate, InsertDecide, Rest
  <2> QED BY <1>3, <2>1, <2>2, <2>3
<1>13. CASE Deny(c) \/ Approve(c)
  <2>1. Kept /\ InvitesTyped' /\ RequestsTyped'
    BY <1>13, DecisionKeeps DEF Deny, Approve
  <2>2. Rest'
    BY <1>1, <1>13 DEF Deny, Approve, Decision, Rest
  <2> QED BY <2>1, <2>2
<1>14. CASE DropStream(c)
  <2>1. Rest'
    BY <1>1, <1>14, MendTyped DEF DropStream, Rest, end
  <2>2. requests' = requests
    BY <1>14 DEF DropStream
  <2> QED BY <1>3, <1>14, <2>1, <2>2, DropKeeps
<1>15. CASE Toggle(c)
  BY <1>1, <1>2, <1>15 DEF Toggle, Rest
<1> QED BY <1>4, <1>5, <1>6, <1>7, <1>8, <1>9, <1>10, <1>11, <1>12, <1>13, <1>14, <1>15
        DEF Step

\* The call a handler begins with, and what its first statement does.
Begins(c, new) ==
  /\ new \in CallType /\ Begin(c, new)
  /\ new.op \in InviteOps => new.invite \in Invites
  /\ new.op \in StreamOps => new.stream \in Streams
  /\ new.op = "decide" => /\ new.request \in Requests
                          /\ requests[new.request].status # "none"
                          /\ requests[new.request].stream = new.stream
  /\ new.step \in {"expired", "accept", "revoke", "lookup", "deny", "check", "insertRows",
                   "insertStream", "readColumn", "deactivate", "activate"}
  /\ new.step = "insertRows" => new.op = "assign" /\ rows' = {}
  /\ new.step = "insertStream" => new.op = "provision" /\ new.stream \notin streams
  /\ new.step = "readColumn" => new.op = "deleteStream" /\ rows' = rows \ {new.stream}
  /\ new.step \notin {"insertRows", "readColumn"} => rows' = rows
  /\ new.step = "check" => new.op \in {"revoke", "changeRole"}
  /\ new.step \in {"deactivate", "activate"} => new.op = "toggle"
  /\ new.op \in InviteOps => invites[new.invite].status = "pending"
  /\ new.op \in {"create", "decide"} => active
  /\ UNCHANGED <<column, role, streams, invites, late, requests, active, history>>

LEMMA BeginAnyBegins ==
  ASSUME Types, NEW c \in Calls, BeginAny(c)
  PROVE  Rest' /\ \E new \in CallType : Begins(c, new)
<1> USE DEF Begins, CallType, OpNames, StepNames, InviteOps, StreamOps, Idle
<1> DEFINE Goal == Rest' /\ \E new \in CallType : Begins(c, new)
<1>0. /\ Rest /\ MaxCalls \in Nat /\ Grants \subseteq 1..4 /\ Viewer \in Roles
      /\ \A i \in Invites : invites[i].role \in Roles
      /\ \A i \in Invites : invites[i].status # "none" => invites[i].stream \in Streams
      /\ \A q \in Requests : requests[q].status # "none" => requests[q].stream \in Streams
  BY RestTyped, MembershipAssumption
     DEF Types, Referring, InvitesTyped, InviteType, Roles, Viewer, Admin
<1>1. ASSUME NEW new, Begin(c, new), rows' \subseteq Streams,
             UNCHANGED <<column, role, streams, invites, late, requests, active, history>>
      PROVE  Rest'
  BY <1>0, <1>1 DEF Begin, Rest
<1>2. ASSUME NEW i \in Invites, BeginAccept(c, i)
      PROVE  Goal
  <2> DEFINE new == [Idle EXCEPT !.op = "accept", !.invite = i,
                           !.stream = invites[i].stream, !.role = invites[i].role,
                           !.read = role,
                           !.step = IF i \in late THEN "expired" ELSE "accept"]
  <2>1. new \in CallType
    BY <1>0, <1>2, ZenonT(90) DEF BeginAccept, Rest
  <2>2. /\ new.op = "accept" /\ new.step \in {"expired", "accept"} /\ new.invite = i
        /\ new.stream = invites[i].stream
    OBVIOUS
  <2>3. /\ Begin(c, new) /\ rows' = rows /\ invites[i].stream \in Streams
        /\ invites[i].status = "pending"
        /\ UNCHANGED <<column, role, streams, invites, late, requests, active, history>>
    BY <1>0, <1>2 DEF BeginAccept
  <2> HIDE DEF new
  <2>4. Begins(c, new)
    BY <2>1, <2>2, <2>3
  <2> QED BY <1>0, <1>1, <2>1, <2>3, <2>4 DEF Rest
<1>3. ASSUME NEW i \in Invites, BeginRevokeInvite(c, i)
      PROVE  Goal
  <2> DEFINE new == [Idle EXCEPT !.op = "revokeInvite", !.invite = i, !.step = "revoke"]
  <2>1. new \in CallType
    BY <1>0
  <2>2. Begins(c, new)
    BY <1>3, <2>1 DEF BeginRevokeInvite
  <2> QED BY <1>0, <1>1, <2>1, <2>2 DEF Rest
<1>4. ASSUME NEW q \in Requests, NEW step \in {"deny", "lookup"}, BeginDecide(c, q, step)
      PROVE  Goal
  <2> DEFINE new == [Idle EXCEPT !.op = "decide", !.request = q, !.step = step,
                           !.stream = requests[q].stream]
  <2>1. new \in CallType
    BY <1>0, <1>4 DEF BeginDecide
  <2>2. Begins(c, new)
    BY <1>0, <1>4, <2>1 DEF BeginDecide
  <2> QED BY <1>0, <1>1, <2>1, <2>2 DEF Rest
<1>5. ASSUME NEW s \in Streams, NEW r \in Grants, BeginCreate(c, s, r)
      PROVE  Goal
  <2> DEFINE new == [Idle EXCEPT !.op = "create", !.stream = s, !.role = r, !.step = "lookup"]
  <2>1. new \in CallType
    BY <1>0 DEF Roles, Viewer, Admin
  <2>2. Begins(c, new)
    BY <1>5, <2>1 DEF BeginCreate
  <2> QED BY <1>0, <1>1, <2>1, <2>2 DEF Rest
<1>6. ASSUME NEW s \in Streams, NEW r \in Roles, NEW op \in {"revoke", "changeRole"},
             BeginManage(c, op, s, r)
      PROVE  Goal
  <2> DEFINE new == [Idle EXCEPT !.op = op, !.stream = s, !.role = r, !.read = role,
                           !.step = "check"]
  <2>1. new \in CallType
    BY <1>0 DEF Rest
  <2>2. Begins(c, new)
    BY <1>6, <2>1 DEF BeginManage
  <2> QED BY <1>0, <1>1, <2>1, <2>2 DEF Rest
<1>7. ASSUME NEW s \in Streams, BeginProvision(c, s)
      PROVE  Goal
  <2> DEFINE new == [Idle EXCEPT !.op = "provision", !.stream = s, !.step = "insertStream"]
  <2>1. new \in CallType
    BY <1>0
  <2>2. Begins(c, new)
    BY <1>7, <2>1 DEF BeginProvision
  <2> QED BY <1>0, <1>1, <2>1, <2>2 DEF Rest
<1>8. ASSUME NEW s \in Streams, BeginDeleteStream(c, s)
      PROVE  Goal
  <2> DEFINE new == [Idle EXCEPT !.op = "deleteStream", !.stream = s, !.step = "readColumn"]
  <2>1. new \in CallType
    BY <1>0
  <2>2. Begins(c, new)
    BY <1>8, <2>1 DEF BeginDeleteStream
  <2>3. rows' \subseteq Streams
    BY <1>0, <1>8 DEF BeginDeleteStream, Rest
  <2> QED BY <1>1, <2>1, <2>2, <2>3
<1>9. ASSUME NEW S \in SUBSET Streams, BeginAssign(c, S)
      PROVE  Goal
  <2> DEFINE new == [Idle EXCEPT !.op = "assign", !.seen = S, !.step = "insertRows"]
  <2>1. new \in CallType
    BY <1>0
  <2>2. Begins(c, new)
    BY <1>9, <2>1 DEF BeginAssign
  <2>3. rows' \subseteq Streams
    BY <1>9 DEF BeginAssign
  <2> QED BY <1>1, <2>1, <2>2, <2>3
<1>10. CASE BeginToggle(c)
  <2> DEFINE new == [Idle EXCEPT !.op = "toggle",
                           !.step = IF active THEN "deactivate" ELSE "activate"]
  <2>1. new \in CallType
    BY <1>0
  <2>2. new.op = "toggle" /\ new.step \in {"deactivate", "activate"}
    OBVIOUS
  <2>3. /\ Begin(c, new) /\ rows' = rows
        /\ UNCHANGED <<column, role, streams, invites, late, requests, active, history>>
    BY <1>10 DEF BeginToggle
  <2> HIDE DEF new
  <2>4. Begins(c, new)
    BY <2>1, <2>2, <2>3
  <2> QED BY <1>0, <1>1, <2>1, <2>3, <2>4 DEF Rest
<1>11. Grants \ {Admin} \subseteq Roles
  BY <1>0 DEF Roles, Viewer, Admin
<1> QED BY <1>0, <1>2, <1>3, <1>4, <1>5, <1>6, <1>7, <1>8, <1>9, <1>10, <1>11 DEF BeginAny

\* Every step but those of the calls leaves the calls and the copies alone.
Outside ==
  /\ UNCHANGED <<call, rows, column, streams, active, broken, granted, raced>>
  /\ \/ UNCHANGED role
     \/ begun' = begun + 1

LEMMA OutsideSteps ==
  ASSUME Types,
         \/ \E q \in Requests, s \in Streams : Submit(q, s)
         \/ \E r \in Grants : UpdateUserRole(r)
         \/ \E i \in Invites : Lapse(i)
         \/ UNCHANGED vars
  PROVE  Outside /\ Rest' /\ Kept /\ InvitesTyped' /\ RequestsTyped' /\ invites' = invites
<1>1. /\ Rest /\ RequestsTyped /\ Grants \subseteq Roles
      /\ \A q \in Requests : requests[q].status # "none" => requests[q].stream \in Streams
      /\ \A i \in Invites : IF invites[i].status = "none" THEN invites[i].stream = NoStream
                                                          ELSE invites[i].stream \in Streams
  BY RestTyped, MembershipAssumption DEF Types, Roles, Viewer, Admin, Referring
<1>2. CASE \E q \in Requests, s \in Streams : Submit(q, s)
  <2>1. PICK q \in Requests, s \in Streams : Submit(q, s)
    BY <1>2
  <2> DEFINE new == [status |-> "pending", stream |-> s]
  <2>2. /\ requests[q].status = "none" /\ requests' = [requests EXCEPT ![q] = new]
        /\ invites' = invites
    BY <2>1 DEF Submit
  <2>3. RequestsTyped'
    BY <1>1, <2>2 DEF RequestsTyped
  <2>4. requests'[q] = new /\ \A r \in Requests \ {q} : requests'[r] = requests[r]
    BY <1>1, <2>2 DEF RequestsTyped
  <2>5. Kept
    BY <1>1, <2>2, <2>4 DEF Kept
  <2>6. InvitesTyped' /\ Rest' /\ Outside
    BY <1>1, <2>1, RestTyped DEF Submit, InvitesTyped, Rest, Outside, Types
  <2> QED BY <2>2, <2>3, <2>5, <2>6
<1>3. CASE \E r \in Grants : UpdateUserRole(r)
  BY <1>1, <1>3, NothingKept, MembershipAssumption DEF UpdateUserRole, Outside, Rest
<1>4. CASE \E i \in Invites : Lapse(i)
  BY <1>1, <1>4, NothingKept DEF Lapse, Outside, Rest
<1>5. CASE UNCHANGED vars
  BY <1>1, <1>5, NothingKept DEF vars, Outside, Rest
<1> QED BY <1>2, <1>3, <1>4, <1>5

\* What a step of the system is: of a call, or of nobody's.
LEMMA NextCases ==
  ASSUME [Next]_vars
  PROVE  \/ \E c \in Calls : BeginAny(c) \/ Step(c) \/ Abort(c)
         \/ \E q \in Requests, s \in Streams : Submit(q, s)
         \/ \E r \in Grants : UpdateUserRole(r)
         \/ \E i \in Invites : Lapse(i)
         \/ UNCHANGED vars
  BY DEF Next

LEMMA AbortRest ==
  ASSUME Types, NEW c \in Calls, Abort(c)
  PROVE  /\ Rest' /\ Kept /\ InvitesTyped' /\ RequestsTyped'
         /\ CallsTyped' /\ call'[c] = Idle
         /\ \A d \in Calls \ {c} : call'[d] = call[d]
<1>1. invites' = invites /\ requests' = requests /\ call' = [call EXCEPT ![c] = Idle]
  BY DEF Abort
<1>2. Rest /\ (call[c].op = "accept" => call[c].invite \in Invites)
  BY RestTyped DEF Types, Referring, CallRefers, InviteOps
<1>3. Rest'
  BY <1>2, MembershipAssumption DEF Abort, Rest
<1> QED BY <1>1, <1>3, NothingKept, IdleCalls DEF Types

\* A call comes to insert an invitation by looking for a pending one.
LEMMA ToInsert ==
  ASSUME Types, NEW c \in Calls, Step(c), call'[c].step = "insert"
  PROVE  call[c].op \in {"create", "decide"} /\ Pending(call[c].stream) = {}
         /\ invites' = invites
<1> USE DEF At
<1>0. CallsTyped
  BY DEF Types
<1>1. ASSUME NEW step \in StepNames, goto(c, step) PROVE step = "insert"
  BY <1>0, <1>1, GotoCalls
<1>2. call' # [call EXCEPT ![c] = Idle]
  BY IdleCalls, IdleFields DEF Types
<1>3. ASSUME NEW S \in SUBSET Streams, NEW step \in StepNames,
             call' = [call EXCEPT ![c].seen = S, ![c].step = step]
      PROVE  step = "insert"
  <2>1. call'[c].step = step
    <3>1. call[c] \in CallType
      BY <1>0 DEF CallsTyped
    <3>2. call'[c] = [call[c] EXCEPT !.seen = S, !.step = step]
      BY <1>0, <1>3 DEF CallsTyped
    <3> QED BY <3>1, <3>2 DEF CallType
  <2> QED BY <2>1
<1>4. LookupCreate(c) \/ LookupDecide(c)
  BY <1>1, <1>2, <1>3
     DEF Step, ReadRows, ReadColumn, WriteColumn, AcceptExpired, Accept, RaiseRole, Upsert,
         RevokeInvite, InsertCreate, InsertRefused, Deny, InsertDecide, Approve, Decision,
         CheckAssigned, DeleteRow, Demote, SetManagedRole, InsertRows, InsertStream,
         InsertCollection, AssignCreator, DropStream, Toggle, RevokeAll, end, StepNames,
         Types, TypeOK
<1> QED BY <1>1, <1>2, <1>4 DEF LookupCreate, LookupDecide, StepNames

LEMMA TypesStep == Types /\ [Next]_vars => Types' /\ Kept
<1> SUFFICES ASSUME Types, [Next]_vars PROVE Types' /\ Kept
  OBVIOUS
<1>1. ASSUME Rest', Kept, InvitesTyped', RequestsTyped', CallsTyped',
             \A c \in Calls : /\ call'[c].op \in InviteOps => call'[c].invite \in Invites
                              /\ call'[c].op \in StreamOps => call'[c].stream \in Streams
                              /\ call'[c].op = "decide" =>
                                   /\ call'[c].request \in Requests
                                   /\ requests[call'[c].request].status # "none"
                                   /\ requests[call'[c].request].stream = call'[c].stream
                              /\ call'[c].step = "insert" =>
                                   call'[c].op \in {"create", "decide"}
      PROVE  Types' /\ Kept
  <2>1. CallRefers' /\ Referring'
    BY <1>1 DEF CallRefers, Referring, Kept
  <2>2. \A c \in Calls : call'[c].seen \subseteq Streams /\ call'[c].role \in Roles
    BY <1>1 DEF CallsTyped, CallType
  <2>3. TypeOK'
    BY <1>1, <2>2 DEF TypeOK, Rest, InvitesTyped, RequestsTyped, InviteType
  <2> QED BY <1>1, <2>1, <2>3 DEF Types
<1>2. /\ CallsTyped /\ rows \subseteq Streams /\ column \subseteq Streams /\ CallRefers
  BY DEF Types, Referring, TypeOK
<1>3. ASSUME NEW c \in Calls, BeginAny(c)
      PROVE  Types' /\ Kept
  <2>1. PICK new \in CallType : Begins(c, new)
    BY <1>3, BeginAnyBegins
  <2>2. Rest' /\ Kept /\ InvitesTyped' /\ RequestsTyped'
    BY <1>3, <2>1, BeginAnyBegins, NothingKept DEF Begins
  <2>3. Begin(c, new) /\ new.step # "insert"
    BY <2>1 DEF Begins
  <2> QED BY <1>1, <1>2, <2>1, <2>2, <2>3, BeginCalls, IdleFields
          DEF Begins, CallRefers, InviteOps, StreamOps
<1>4. ASSUME NEW c \in Calls, Step(c)
      PROVE  Types' /\ Kept
  <2>1. Rest' /\ Kept /\ InvitesTyped' /\ RequestsTyped'
    BY <1>4, StepRest
  <2>2. /\ CallsTyped'
        /\ call'[c] = Idle \/ Same(c)
        /\ \A d \in Calls \ {c} : call'[d] = call[d]
    BY <1>2, <1>4, StepCalls
  <2>3. call'[c].step = "insert" => call[c].op \in {"create", "decide"}
    BY <1>4, ToInsert
  <2>4. CASE call'[c] = Idle
    BY <1>1, <1>2, <2>1, <2>2, <2>4, IdleFields DEF CallRefers, InviteOps, StreamOps
  <2>5. CASE Same(c)
    BY <1>1, <1>2, <2>1, <2>2, <2>3, <2>5 DEF CallRefers, Same
  <2> QED BY <2>2, <2>4, <2>5
<1>5. ASSUME NEW c \in Calls, Abort(c)
      PROVE  Types' /\ Kept
  BY <1>1, <1>2, <1>5, AbortRest, IdleFields DEF CallRefers, InviteOps, StreamOps
<1>6. CASE \/ \E q \in Requests, s \in Streams : Submit(q, s)
           \/ \E r \in Grants : UpdateUserRole(r)
           \/ \E i \in Invites : Lapse(i)
           \/ UNCHANGED vars
  <2>1. Outside /\ Rest' /\ Kept /\ InvitesTyped' /\ RequestsTyped'
    BY <1>6, OutsideSteps
  <2>2. call' = call
    BY <2>1 DEF Outside
  <2> QED BY <1>1, <1>2, <2>1, <2>2 DEF CallRefers, CallsTyped
<1> QED BY <1>3, <1>4, <1>5, <1>6, NextCases

LEMMA TypesInit == Init => Types
<1> SUFFICES ASSUME Init PROVE Types
  OBVIOUS
<1>1. CallsTyped /\ \A c \in Calls : call[c] = Idle
  BY IdleTyped DEF Init, CallsTyped
<1>2. Referring
  BY <1>1, IdleFields DEF Init, Referring, CallRefers, NoRow, Unasked, InviteOps, StreamOps
<1>3. InvitesTyped
  BY DEF Init, InvitesTyped, InviteType, NoRow, Roles, Viewer, Admin
<1>4. RequestsTyped
  BY DEF Init, RequestsTyped, Unasked
<1>5. Rest
  <2>1. 0 \in 0..MaxCalls /\ 0 \in 0..MaxFails /\ Viewer \in Roles
    BY MembershipAssumption DEF Roles, Viewer, Admin
  <2> QED BY <2>1 DEF Init, Rest
<1> QED BY <1>1, <1>2, <1>3, <1>4, <1>5, IdleTyped, RestTyped DEF Types, CallType

\* TypeOK: every procedure of the administration leaves lists of streams that
\* exist, ranks, statuses and references of their types.
THEOREM TypeCorrect == Spec => []TypeOK
<1>1. Init => Types
  BY TypesInit
<1>2. Types /\ [Next]_vars => Types'
  BY TypesStep
<1>3. Types => TypeOK
  BY DEF Types
<1> QED BY <1>1, <1>2, <1>3, PTL DEF Spec

-----------------------------------------------------------------------------
(* The two copies of the assignments *)

\* From the first statement that separates the copies to the one that joins them.
Dirty == {"readRows", "writeColumn", "insertRows", "demote", "readColumn", "dropStream"}

\* Which calls come to a step, and why.
PathOf(c) ==
  /\ call[c].step = "readRows" => call[c].op \in Mending
  /\ call[c].step = "writeColumn" => call[c].op \in Assigning
  /\ call[c].step = "insertRows" => call[c].op = "assign"
  /\ call[c].step = "demote" => call[c].op = "revoke"
  /\ call[c].step \in {"readColumn", "dropStream"} => call[c].op = "deleteStream"
  /\ call[c].step = "check" => call[c].op \in {"revoke", "changeRole"}
  /\ call[c].step = "raise" => call[c].role > call[c].read
  /\ call[c].step \in {"deactivate", "activate"} => call[c].op = "toggle"
Paths == \A c \in Calls : PathOf(c)

\* A call that overlapped no other is the only one open ...
Alone ==
  \A c, d \in Calls : c # d /\ call[c].step # "idle" /\ call[c].solo
                      => call[d].step = "idle"

\* ... so it finds what it left: the copies, and the stream it looked for.
UndisturbedOf(c) == call[c].solo =>
  /\ call[c].step = "writeColumn" /\ (call[c].op \in Mending \/ ~broken)
       => call[c].seen = rows
  /\ call[c].step = "insertRows" => rows = {}
  /\ call[c].step = "demote" => column = rows
  /\ call[c].step = "readColumn" /\ ~broken => rows = column \ {call[c].stream}
  /\ call[c].step = "dropStream" /\ ~broken => column = rows
  /\ call[c].step = "insertStream" => call[c].stream \notin streams
  /\ call[c].step = "insertCollection" => call[c].stream \in streams
Undisturbed == \A c \in Calls : UndisturbedOf(c)

\* The copies differ only behind a call in between, or after an overlap or a failure.
Together == ~broken /\ (\A c \in Calls : call[c].step \notin Dirty) => column = rows

Copies == Paths /\ Alone /\ Undisturbed /\ Together

LEMMA CopiesInit == Init => Copies
<1> SUFFICES ASSUME Init PROVE Copies
  OBVIOUS
<1>1. \A c \in Calls : call[c].step = "idle"
  BY IdleFields DEF Init
<1>2. column = rows
  BY DEF Init
<1> QED BY <1>1, <1>2 DEF Copies, Paths, PathOf, Alone, Undisturbed, UndisturbedOf, Together

LEMMA CopiesBegin ==
  ASSUME Types, Copies, NEW c \in Calls, BeginAny(c)
  PROVE  Copies'
<1>1. PICK new \in CallType : Begins(c, new)
  BY BeginAnyBegins
<1>2. CallsTyped /\ Begin(c, new)
  BY <1>1 DEF Types, Begins
<1>3. /\ \A d \in Calls \ {c} : ~call'[d].solo \/ call'[d] = Idle
      /\ call'[c].solo => Quiet
  BY <1>2, BeginCalls
<1>4. Paths'
  BY <1>1, <1>2, BeginCalls, IdleFields DEF Begins, Copies, Paths, PathOf
<1>5. Alone'
  BY <1>2, <1>3, BeginCalls, IdleFields DEF Quiet, Alone
<1>6. Undisturbed'
  <2>1. Quiet /\ ~broken => column = rows
    BY DEF Copies, Together, Quiet, Dirty
  <2> QED BY <1>1, <1>2, <1>3, <2>1, BeginCalls, IdleFields
          DEF Begins, Undisturbed, UndisturbedOf
<1>7. Together'
  <2>1. CASE new.step \in Dirty
    BY <1>2, <2>1, BeginCalls DEF Together
  <2>2. CASE new.step \notin Dirty
    <3>1. rows' = rows /\ column' = column /\ broken' = broken
      BY <1>1, <2>2 DEF Begins, Dirty
    <3>2. \A d \in Calls : call[d].step \in Dirty => call'[d].step \in Dirty
      BY <1>2, BeginCalls DEF Dirty
    <3> QED BY <3>1, <3>2 DEF Copies, Together
  <2> QED BY <2>1, <2>2
<1> QED BY <1>4, <1>5, <1>6, <1>7 DEF Copies

\* The copies after a step of one call, from what the step does to that call.
LEMMA CopiesFrom ==
  ASSUME Copies, NEW c \in Calls, call[c].step # "idle",
         call'[c] = Idle \/ Same(c), \A d \in Calls \ {c} : call'[d] = call[d],
         PathOf(c)', UndisturbedOf(c)',
         call'[c].step \notin Dirty /\ ~broken'
           /\ (call[c].step \notin Dirty /\ ~broken => column = rows) => column' = rows'
  PROVE  Copies'
<1>1. Paths'
  BY DEF Copies, Paths, PathOf
<1>2. Alone'
  BY IdleFields DEF Copies, Alone, Same
<1>3. \A d \in Calls \ {c} : call'[d].solo => call'[d].step = "idle"
  BY DEF Copies, Alone
<1>4. Undisturbed'
  BY <1>3 DEF Undisturbed, UndisturbedOf
<1>5. Together'
  BY DEF Copies, Together
<1> QED BY <1>1, <1>2, <1>4, <1>5 DEF Copies

LEMMA CopiesStep ==
  ASSUME Types, Copies, NEW c \in Calls, Step(c)
  PROVE  Copies'
<1> USE DEF At
<1> DEFINE Joined == call'[c].step \notin Dirty /\ ~broken'
                       /\ (call[c].step \notin Dirty /\ ~broken => column = rows)
                     => column' = rows'
<1>1. /\ CallsTyped /\ rows \subseteq Streams /\ column \subseteq Streams
      /\ broken \in BOOLEAN /\ call[c].seen \subseteq Streams
  BY DEF Types, TypeOK
<1>2. /\ call[c].step # "idle"
      /\ call'[c] = Idle \/ Same(c)
      /\ \A d \in Calls \ {c} : call'[d] = call[d]
  BY <1>1, StepCalls
<1>3. ASSUME PathOf(c)', UndisturbedOf(c)', Joined
      PROVE  Copies'
  BY <1>2, <1>3, CopiesFrom
<1>4. PathOf(c) /\ UndisturbedOf(c)
  BY DEF Copies, Paths, Undisturbed
<1>5. ASSUME call' = [call EXCEPT ![c] = Idle], Joined
      PROVE  Copies'
  BY <1>1, <1>3, <1>5, IdleCalls, IdleFields DEF PathOf, UndisturbedOf
<1>6. ASSUME end(c), ~broken' => column' = rows'
      PROVE  Copies'
  BY <1>5, <1>6 DEF end
<1>7. CASE ReadRows(c)
  <2>1. /\ Same(c) /\ call'[c].step = "writeColumn" /\ call'[c].seen = rows /\ rows' = rows
    BY <1>1, <1>7, SeeCalls DEF ReadRows, StepNames
  <2> QED BY <1>3, <1>4, <1>7, <2>1 DEF PathOf, UndisturbedOf, Dirty, Same, ReadRows, Assigning
<1>8. CASE WriteColumn(c)
  <2>1. column' = call[c].seen /\ rows' = rows /\ call[c].op \in Assigning
    BY <1>4, <1>8 DEF WriteColumn, PathOf
  <2>2. CASE Demotes(c)
    <3>1. goto(c, "demote") /\ call[c].op = "revoke" /\ call[c].op \in Mending
      BY <1>8, <2>2 DEF WriteColumn, Demotes, Mending
    <3>2. Same(c) /\ call'[c].step = "demote"
      BY <1>1, <3>1, GotoCalls DEF StepNames
    <3> QED BY <1>3, <1>4, <1>8, <2>1, <3>1, <3>2
            DEF PathOf, UndisturbedOf, Dirty, Same, WriteColumn
  <2>3. CASE ~Demotes(c) /\ call[c].op = "deleteStream"
    <3>1. goto(c, "dropStream") /\ broken' = broken
      BY <1>8, <2>3 DEF WriteColumn
    <3>2. Same(c) /\ call'[c].step = "dropStream"
      BY <1>1, <3>1, GotoCalls DEF StepNames
    <3> QED BY <1>3, <1>4, <1>8, <2>1, <2>3, <3>1, <3>2
            DEF PathOf, UndisturbedOf, Dirty, Same, WriteColumn
  <2>4. CASE ~Demotes(c) /\ call[c].op # "deleteStream"
    <3>1. end(c) /\ call[c].op \in Mending
      BY <1>8, <2>1, <2>4 DEF WriteColumn, Assigning
    <3> QED BY <1>4, <1>6, <1>8, <2>1, <3>1 DEF end, Mend, UndisturbedOf, WriteColumn, Assigning
  <2> QED BY <2>2, <2>3, <2>4
<1>9. CASE Upsert(c) \/ DeleteRow(c) \/ SetManagedRole(c)
  <2>1. goto(c, "readRows") /\ call[c].op \in Mending
    BY <1>9 DEF Upsert, DeleteRow, SetManagedRole, Mending
  <2>2. Same(c) /\ call'[c].step = "readRows"
    BY <1>1, <2>1, GotoCalls DEF StepNames
  <2> QED BY <1>3, <2>1, <2>2 DEF PathOf, UndisturbedOf, Dirty, Same
<1>10. CASE AssignCreator(c)
  <2>1. CASE call[c].stream \notin rows
    <3>1. goto(c, "readRows") /\ call[c].op \in Mending
      BY <1>10, <2>1 DEF AssignCreator, Mending
    <3>2. Same(c) /\ call'[c].step = "readRows"
      BY <1>1, <3>1, GotoCalls DEF StepNames
    <3> QED BY <1>3, <3>1, <3>2 DEF PathOf, UndisturbedOf, Dirty, Same
  <2>2. CASE call[c].stream \in rows
    BY <1>5, <1>10, <2>2 DEF AssignCreator
  <2> QED BY <2>1, <2>2
<1>11. CASE Demote(c)
  <2>1. end(c) /\ call[c].op = "revoke" /\ column' = column /\ rows' = rows
    BY <1>11 DEF Demote
  <2> QED BY <1>4, <1>6, <1>11, <2>1 DEF Demote, end, Mend, UndisturbedOf, Assigning, Mending
<1>12. CASE InsertRows(c)
  <2>1. CASE call[c].seen \cap rows = {}
    <3>1. goto(c, "writeColumn") /\ rows' = rows \cup call[c].seen /\ call[c].op = "assign"
          /\ call[c].step = "insertRows"
      BY <1>12, <2>1 DEF InsertRows
    <3>2. Same(c) /\ call'[c].step = "writeColumn" /\ call'[c].seen = call[c].seen
      BY <1>1, <3>1, GotoCalls DEF StepNames
    <3>3. rows = {} => rows' = call[c].seen
      BY <3>1
    <3> QED BY <1>3, <1>4, <3>1, <3>2, <3>3
            DEF PathOf, UndisturbedOf, Dirty, Same, Assigning, Mending
  <2>2. CASE call[c].seen \cap rows # {}
    <3>1. end(c) /\ call[c].op = "assign" /\ rows # {}
      BY <1>12, <2>2 DEF InsertRows
    <3> QED BY <1>4, <1>6, <1>12, <3>1 DEF InsertRows, end, Mend, UndisturbedOf, Assigning, Mending
  <2> QED BY <2>1, <2>2
<1>13. CASE InsertStream(c)
  <2>1. CASE call[c].stream \notin streams
    <3>1. /\ goto(c, "insertCollection") /\ streams' = streams \cup {call[c].stream}
          /\ rows' = rows /\ column' = column /\ broken' = broken
          /\ call[c].step = "insertStream"
      BY <1>13, <2>1 DEF InsertStream
    <3>2. Same(c) /\ call'[c].step = "insertCollection"
      BY <1>1, <3>1, GotoCalls DEF StepNames
    <3>3. call'[c].stream \in streams'
      BY <3>1, <3>2 DEF Same
    <3> QED BY <1>3, <3>1, <3>2, <3>3 DEF PathOf, UndisturbedOf, Dirty
  <2>2. CASE call[c].stream \in streams
    <3>1. end(c) /\ call[c].op = "provision"
      BY <1>13, <2>2 DEF InsertStream
    <3> QED BY <1>4, <1>6, <1>13, <2>2, <3>1
            DEF InsertStream, end, Mend, UndisturbedOf, Assigning, Mending
  <2> QED BY <2>1, <2>2
<1>14. CASE InsertCollection(c)
  <2>1. CASE call[c].stream \in streams
    <3>1. /\ goto(c, "assign") /\ rows' = rows /\ column' = column /\ broken' = broken
          /\ call[c].step = "insertCollection"
      BY <1>14, <2>1 DEF InsertCollection
    <3>2. Same(c) /\ call'[c].step = "assign"
      BY <1>1, <3>1, GotoCalls DEF StepNames
    <3> QED BY <1>3, <3>1, <3>2 DEF PathOf, UndisturbedOf, Dirty
  <2>2. CASE call[c].stream \notin streams
    <3>1. end(c) /\ call[c].op = "provision"
      BY <1>14, <2>2 DEF InsertCollection
    <3> QED BY <1>4, <1>6, <1>14, <2>2, <3>1
            DEF InsertCollection, end, Mend, UndisturbedOf, Assigning, Mending
  <2> QED BY <2>1, <2>2
<1>15. CASE ReadColumn(c)
  <2>1. /\ call[c].op = "deleteStream" /\ call[c].step = "readColumn"
        /\ rows' = rows /\ column' = column /\ broken' = broken
    BY <1>15 DEF ReadColumn
  <2>2. CASE call[c].stream \in column
    <3>1. call' = [call EXCEPT ![c].seen = column \ {call[c].stream},
                               ![c].step = "writeColumn"]
      BY <1>15, <2>2 DEF ReadColumn
    <3>2. /\ Same(c) /\ call'[c].step = "writeColumn"
          /\ call'[c].seen = column \ {call[c].stream}
      BY <1>1, <3>1, SeeCalls DEF StepNames
    <3> QED BY <1>3, <1>4, <2>1, <3>2
            DEF PathOf, UndisturbedOf, Dirty, Same, Assigning, Mending
  <2>3. CASE call[c].stream \notin column
    <3>1. call' = [call EXCEPT ![c].seen = {}, ![c].step = "dropStream"]
      BY <1>15, <2>3 DEF ReadColumn
    <3>2. Same(c) /\ call'[c].step = "dropStream"
      BY <1>1, <3>1, SeeCalls DEF StepNames
    <3>3. column \ {call[c].stream} = column
      BY <2>3
    <3> QED BY <1>3, <1>4, <2>1, <3>2, <3>3 DEF PathOf, UndisturbedOf, Dirty, Same
  <2> QED BY <2>2, <2>3
<1>16. CASE DropStream(c)
  <2>1. /\ end(c) /\ call[c].op = "deleteStream" /\ call[c].step = "dropStream"
        /\ rows' = rows /\ column' = column
    BY <1>16 DEF DropStream
  <2> QED BY <1>4, <1>6, <2>1 DEF end, Mend, UndisturbedOf, Assigning, Mending
<1>17. ASSUME NEW step \in StepNames, goto(c, step), step \notin Dirty,
              step \notin {"insertStream", "insertCollection", "check", "deactivate",
                           "activate"},
              step = "raise" => call[c].role > call[c].read,
              call[c].step \notin Dirty, UNCHANGED <<rows, column, broken>>
       PROVE  Copies'
  <2>1. Same(c) /\ call'[c].step = step
    BY <1>1, <1>17, GotoCalls
  <2> QED BY <1>3, <1>17, <2>1 DEF PathOf, UndisturbedOf, Dirty, Same
<1>18. ASSUME call' = [call EXCEPT ![c] = Idle], call[c].step \notin Dirty,
              UNCHANGED <<rows, column, broken>>
       PROVE  Copies'
  BY <1>5, <1>18
<1>19. CASE Accept(c) \/ RaiseRole(c) \/ InsertDecide(c)
  BY <1>17, <1>19 DEF Accept, RaiseRole, InsertDecide, Dirty, StepNames
<1>20. CASE LookupCreate(c) \/ LookupDecide(c) \/ CheckAssigned(c) \/ Toggle(c)
  BY <1>17, <1>18, <1>20 DEF LookupCreate, LookupDecide, CheckAssigned, Toggle, Dirty, StepNames
<1>21. CASE AcceptExpired(c) \/ InsertCreate(c) \/ InsertRefused(c) \/ Deny(c) \/ Approve(c)
            \/ RevokeAll(c)
  BY <1>18, <1>21 DEF AcceptExpired, InsertCreate, InsertRefused, Deny, Approve, Decision,
                      RevokeAll, Dirty
<1>22. CASE RevokeInvite(c)
  BY <1>18, <1>22 DEF RevokeInvite, end, Mend, Dirty, Assigning, Mending
<1> QED BY <1>7, <1>8, <1>9, <1>10, <1>11, <1>12, <1>13, <1>14, <1>15, <1>16, <1>19, <1>20,
           <1>21, <1>22 DEF Step

LEMMA CopiesNext == Types /\ Copies /\ [Next]_vars => Copies'
<1> SUFFICES ASSUME Types, Copies, [Next]_vars PROVE Copies'
  OBVIOUS
<1>1. ASSUME NEW c \in Calls, Abort(c)
      PROVE  Copies'
  <2>1. /\ call'[c] = Idle /\ \A d \in Calls \ {c} : call'[d] = call[d]
        /\ call[c].step # "idle" /\ rows' = rows /\ column' = column
        /\ ~broken' => ~broken /\ call[c].op \notin Assigning
    BY <1>1, AbortRest DEF Abort
  <2>2. call[c].step \in Dirty => call[c].op \in Assigning
    BY DEF Copies, Paths, PathOf, Dirty, Assigning, Mending
  <2> QED BY <2>1, <2>2, CopiesFrom, IdleFields DEF PathOf, UndisturbedOf
<1>2. CASE \/ \E q \in Requests, s \in Streams : Submit(q, s)
           \/ \E r \in Grants : UpdateUserRole(r)
           \/ \E i \in Invites : Lapse(i)
           \/ UNCHANGED vars
  <2>1. Outside
    BY <1>2, OutsideSteps
  <2>2. UNCHANGED <<call, rows, column, broken, streams>>
    BY <2>1 DEF Outside
  <2> QED BY <2>2
          DEF Copies, Paths, PathOf, Alone, Undisturbed, UndisturbedOf, Together
<1> QED BY <1>1, <1>2, NextCases, CopiesBegin, CopiesStep

LEMMA CopiesHold == Spec => [](Types /\ Copies)
<1>1. Init => Types /\ Copies
  BY TypesInit, CopiesInit
<1>2. Types /\ Copies /\ [Next]_vars => (Types /\ Copies)'
  BY TypesStep, CopiesNext
<1> QED BY <1>1, <1>2, PTL DEF Spec

\* ColumnAgrees: calls that run one at a time and to their end keep the column,
\* which the authorisation reads, equal to the rows of the assignments.
THEOREM CopiesAgree == Spec => []ColumnAgrees
<1>1. Types /\ Copies => ColumnAgrees
  BY DEF Copies, Together, ColumnAgrees, Quiet, Dirty
<1> QED BY <1>1, CopiesHold, PTL

\* AcceptNeverDemotes: whoever accepts an invitation to a lower role keeps the
\* higher one, unless the session had an older role or the acceptance overlapped.
THEOREM AcceptingKeepsRank == Spec => AcceptNeverDemotes
<1> DEFINE A == role' < role =>
        \/ \E c \in Calls : call[c].step \in {"demote", "setRole"}
        \/ \E c \in Calls : call[c].step = "raise" /\ ~(call[c].solo /\ call[c].read = role)
        \/ begun' = begun + 1
<1>1. ASSUME Types, Copies, [Next]_vars
      PROVE  A
  <2>1. role \in Int /\ ~(role < role)
    BY <1>1 DEF Types, TypeOK, Roles, Viewer, Admin
  <2>2. ASSUME role' = role PROVE A
    BY <2>1, <2>2
  <2>3. ASSUME NEW c \in Calls, BeginAny(c) PROVE A
    <3>1. PICK new \in CallType : Begins(c, new)
      BY <1>1, <2>3, BeginAnyBegins
    <3>2. role' = role
      BY <3>1 DEF Begins
    <3> QED BY <2>2, <3>2
  <2>4. ASSUME NEW c \in Calls, RaiseRole(c) PROVE A
    <3>1. /\ call[c].step = "raise" /\ role' = call[c].role /\ call[c].role > call[c].read
          /\ call[c].read \in Int /\ call[c].role \in Int
      BY <1>1, <2>4 DEF RaiseRole, At, Copies, Paths, PathOf, Types, CallsTyped, CallType,
                        Roles, Viewer, Admin
    <3>2. CASE call[c].read = role
      BY <2>1, <3>1, <3>2
    <3>3. CASE call[c].read # role
      BY <3>1, <3>3
    <3> QED BY <3>2, <3>3
  <2>5. ASSUME NEW c \in Calls, Demote(c) \/ SetManagedRole(c) PROVE A
    BY <2>5 DEF Demote, SetManagedRole, At
  <2>6. ASSUME NEW c \in Calls, Step(c), ~RaiseRole(c), ~Demote(c), ~SetManagedRole(c)
        PROVE  A
    <3>1. role' = role
      BY <2>6
         DEF Step, ReadRows, ReadColumn, WriteColumn, AcceptExpired, Accept, Upsert,
             RevokeInvite, LookupCreate, InsertCreate, InsertRefused, Deny, LookupDecide,
             InsertDecide, Approve, Decision, CheckAssigned, DeleteRow, InsertRows,
             InsertStream, InsertCollection, AssignCreator, DropStream, Toggle, RevokeAll
    <3> QED BY <2>2, <3>1
  <2>7. ASSUME NEW c \in Calls, Abort(c) PROVE A
    BY <2>2, <2>7 DEF Abort
  <2>8. CASE \/ \E q \in Requests, s \in Streams : Submit(q, s)
             \/ \E r \in Grants : UpdateUserRole(r)
             \/ \E i \in Invites : Lapse(i)
             \/ UNCHANGED vars
    <3>1. role' = role \/ begun' = begun + 1
      BY <1>1, <2>8, OutsideSteps DEF Outside
    <3> QED BY <2>2, <3>1
  <2> QED BY <1>1, <2>3, <2>4, <2>5, <2>6, <2>7, <2>8, NextCases
<1>2. Types /\ Copies /\ [Next]_vars => [A]_vars
  BY <1>1
<1> QED BY <1>2, CopiesHold, PTL DEF Spec, AcceptNeverDemotes

-----------------------------------------------------------------------------
(* Invitations *)

\* A call about to insert an invitation has seen no pending one; if it is alone,
\* there still is none.
Searched ==
  \A c \in Calls : call[c].solo /\ call[c].step = "insert" => Pending(call[c].stream) = {}

\* A call about to approve a request knows of an invitation.
Decided ==
  \A c \in Calls : call[c].op = "decide" /\ call[c].step = "approve"
                   => \E i \in Invites : invites[i].stream = call[c].stream

Invited == OnePendingInvite /\ ApprovedHasInvite /\ Searched /\ Decided

\* Only an insertion makes an invitation pending.
LEMMA PendingKept ==
  ASSUME Types, NEW c \in Calls, Step(c), ~InsertCreate(c), ~InsertDecide(c),
         NEW i \in Invites, invites'[i].status = "pending"
  PROVE  invites'[i] = invites[i]
<1>1. invites[i] \in InviteType
  BY DEF Types, TypeOK, InviteType
<1>2. \A v \in {"accepted", "revoked", "expired", "gone"} :
        [invites[i] EXCEPT !.status = v].status = v
  BY <1>1 DEF InviteType
<1>3. ASSUME NEW S, NEW v \in {"accepted", "revoked", "expired"}, SetStatus(S, v)
      PROVE  invites'[i] = invites[i]
  <2>1. invites'[i] = invites[i] \/ invites'[i] = [invites[i] EXCEPT !.status = v]
    BY <1>3 DEF SetStatus
  <2> QED BY <1>2, <2>1
<1>4. CASE AcceptExpired(c) \/ Accept(c) \/ RevokeInvite(c) \/ RevokeAll(c)
  BY <1>3, <1>4 DEF AcceptExpired, Accept, RevokeInvite, RevokeAll
<1>5. CASE DropStream(c)
  <2>1. invites'[i] = invites[i] \/ invites'[i] = [invites[i] EXCEPT !.status = "gone"]
    BY <1>5 DEF DropStream
  <2> QED BY <1>2, <2>1
<1>6. CASE UNCHANGED invites
  BY <1>6
<1> QED BY <1>4, <1>5, <1>6
        DEF Step, ReadRows, ReadColumn, WriteColumn, RaiseRole, Upsert, LookupCreate,
            InsertRefused, Deny, LookupDecide, Approve, Decision, CheckAssigned, DeleteRow,
            Demote, SetManagedRole, InsertRows, InsertStream, InsertCollection,
            AssignCreator, Toggle

\* A call comes to approve with an invitation at hand.
LEMMA ToApprove ==
  ASSUME Types, NEW c \in Calls, Step(c), call'[c].step = "approve"
  PROVE  \E i \in Invites : invites'[i].stream = call[c].stream
<1> USE DEF At
<1>0. CallsTyped
  BY DEF Types
<1>1. ASSUME NEW step \in StepNames, goto(c, step) PROVE step = "approve"
  BY <1>0, <1>1, GotoCalls
<1>2. call' # [call EXCEPT ![c] = Idle]
  BY <1>0, IdleCalls, IdleFields
<1>3. ASSUME NEW S \in SUBSET Streams, NEW step \in StepNames,
             call' = [call EXCEPT ![c].seen = S, ![c].step = step]
      PROVE  step = "approve"
  <2>1. call'[c].step = step
    <3>1. call[c] \in CallType
      BY <1>0 DEF CallsTyped
    <3>2. call'[c] = [call[c] EXCEPT !.seen = S, !.step = step]
      BY <1>0, <1>3 DEF CallsTyped
    <3> QED BY <3>1, <3>2 DEF CallType
  <2> QED BY <2>1
<1>4. LookupDecide(c) \/ InsertDecide(c)
  BY <1>1, <1>2, <1>3
     DEF Step, ReadRows, ReadColumn, WriteColumn, AcceptExpired, Accept, RaiseRole, Upsert,
         RevokeInvite, InsertCreate, InsertRefused, Deny, LookupCreate, Approve, Decision,
         CheckAssigned, DeleteRow, Demote, SetManagedRole, InsertRows, InsertStream,
         InsertCollection, AssignCreator, DropStream, Toggle, RevokeAll, end, StepNames,
         Types, TypeOK
<1>5. CASE LookupDecide(c)
  <2>1. Pending(call[c].stream) # {} /\ invites' = invites
    BY <1>1, <1>5 DEF LookupDecide, StepNames
  <2> QED BY <2>1 DEF Pending
<1>6. CASE InsertDecide(c)
  <2>1. Insert(c) /\ requests' = requests /\ call[c].stream \in Streams
    BY <1>6 DEF InsertDecide, Types, Referring, CallRefers, StreamOps
  <2> QED BY <2>1, InsertKeeps
<1> QED BY <1>4, <1>5, <1>6

\* A request comes to be approved by a decision at its last statement.
LEMMA ToApproved ==
  ASSUME Types, NEW c \in Calls, Step(c), NEW q \in Requests,
         requests'[q].status = "approved", requests[q].status # "approved"
  PROVE  /\ call[c].op = "decide" /\ call[c].step = "approve"
         /\ q = call[c].request
<1>1. ASSUME NEW v, Decision(c, v)
      PROVE  q = call[c].request /\ requests'[q].status = v
  <2>1. requests' = [requests EXCEPT ![call[c].request].status = v] /\ q \in DOMAIN requests
    BY <1>1 DEF Decision, Types, TypeOK
  <2>2. q = call[c].request
    BY <2>1
  <2>3. requests'[q].status = v
    BY <2>1, <2>2 DEF Types, TypeOK
  <2> QED BY <2>2, <2>3
<1>2. Deny(c) \/ Approve(c)
  BY DEF Step, ReadRows, ReadColumn, WriteColumn, AcceptExpired, Accept, RaiseRole, Upsert,
         RevokeInvite, InsertCreate, InsertRefused, LookupCreate, LookupDecide, InsertDecide,
         CheckAssigned, DeleteRow, Demote, SetManagedRole, InsertRows, InsertStream,
         InsertCollection, AssignCreator, DropStream, Toggle, RevokeAll
<1> QED BY <1>1, <1>2 DEF Deny, Approve, At

LEMMA InvitedInit == Init => Invited
<1> SUFFICES ASSUME Init PROVE Invited
  OBVIOUS
<1>1. \A c \in Calls : call[c].step = "idle"
  BY IdleFields DEF Init
<1>2. \A i \in Invites : invites[i].status = "none"
  BY DEF Init, NoRow
<1>3. \A q \in Requests : requests[q].status = "none"
  BY DEF Init, Unasked
<1> QED BY <1>1, <1>2, <1>3 DEF Invited, OnePendingInvite, ApprovedHasInvite, Searched, Decided

\* What leaves every pending invitation as it was keeps the invariant, if a call
\* that comes to insert or to approve has looked and no request gets approved.
LEMMA InvitedKept ==
  ASSUME Types, Kept, Invited, Types',
         \A i \in Invites : invites'[i].status = "pending" => invites'[i] = invites[i],
         \A q \in Requests : requests'[q].status = "approved" =>
           \/ requests[q].status = "approved"
           \/ \E i \in Invites : invites[i].stream = requests[q].stream
                                 /\ requests[q].status # "none",
         \A c \in Calls : call'[c].solo /\ call'[c].step = "insert" =>
           \/ /\ call[c].solo /\ call[c].step = "insert"
              /\ call'[c].stream = call[c].stream
           \/ Pending(call'[c].stream) = {},
         \A c \in Calls : call'[c].op = "decide" /\ call'[c].step = "approve" =>
           \/ /\ call[c].op = "decide" /\ call[c].step = "approve"
              /\ call'[c].stream = call[c].stream
           \/ \E i \in Invites : invites'[i].stream = call'[c].stream
  PROVE  Invited'
<1>1. \A s \in Streams : (\E i \in Invites : invites[i].stream = s)
                         => \E i \in Invites : invites'[i].stream = s
  <2>1. \A i \in Invites : invites[i].stream \in Streams => invites[i].status # "none"
    BY MembershipAssumption DEF Types, Referring
  <2> QED BY <2>1 DEF Kept
<1>2. OnePendingInvite'
  BY DEF Invited, OnePendingInvite
<1>3. ApprovedHasInvite'
  <2> SUFFICES ASSUME NEW q \in Requests, requests'[q].status = "approved"
               PROVE  \E i \in Invites : invites'[i].stream = requests'[q].stream
    BY DEF ApprovedHasInvite
  <2>1. /\ requests[q].status # "none"
        /\ \E i \in Invites : invites[i].stream = requests[q].stream
    BY DEF Invited, ApprovedHasInvite
  <2>2. requests'[q].stream = requests[q].stream /\ requests[q].stream \in Streams
    BY <2>1 DEF Kept, Types, Referring
  <2> QED BY <1>1, <2>1, <2>2
<1>4. Searched'
  <2> SUFFICES ASSUME NEW c \in Calls, call'[c].solo, call'[c].step = "insert"
               PROVE  (Pending(call[c].stream) = {})'
    BY DEF Searched
  <2>1. \A i \in Invites : ~(invites[i].status = "pending"
                             /\ invites[i].stream = call'[c].stream)
    BY DEF Invited, Searched, Pending
  <2> QED BY <2>1 DEF Pending
<1>5. Decided'
  <2> SUFFICES ASSUME NEW c \in Calls, call'[c].op = "decide", call'[c].step = "approve"
               PROVE  \E i \in Invites : invites'[i].stream = call'[c].stream
    BY DEF Decided
  <2>1. call'[c].stream \in Streams
    BY DEF Types, Referring, CallRefers, StreamOps
  <2> QED BY <1>1, <2>1 DEF Invited, Decided
<1> QED BY <1>2, <1>3, <1>4, <1>5 DEF Invited

LEMMA InvitedStep ==
  ASSUME Types, Copies, Invited, NEW c \in Calls, Step(c), Types', Kept
  PROVE  Invited'
<1>1. /\ call[c].step # "idle"
      /\ call'[c] = Idle \/ Same(c)
      /\ \A d \in Calls \ {c} : call'[d] = call[d]
  BY StepCalls DEF Types, TypeOK
<1>2. \A q \in Requests : requests'[q].status = "approved" =>
           \/ requests[q].status = "approved"
           \/ \E i \in Invites : invites[i].stream = requests[q].stream
                                 /\ requests[q].status # "none"
  <2> SUFFICES ASSUME NEW q \in Requests, requests'[q].status = "approved",
                      requests[q].status # "approved"
               PROVE  \E i \in Invites : invites[i].stream = requests[q].stream
                                         /\ requests[q].status # "none"
    OBVIOUS
  <2>1. call[c].op = "decide" /\ call[c].step = "approve" /\ q = call[c].request
    BY ToApproved
  <2>2. requests[q].status # "none" /\ requests[q].stream = call[c].stream
    BY <2>1 DEF Types, Referring, CallRefers
  <2> QED BY <2>1, <2>2 DEF Invited, Decided
<1>3. \A d \in Calls : call'[d].solo /\ call'[d].step = "insert" =>
           \/ /\ call[d].solo /\ call[d].step = "insert"
              /\ call'[d].stream = call[d].stream
           \/ Pending(call'[d].stream) = {}
  BY <1>1, ToInsert, IdleFields DEF Same
<1>4. \A d \in Calls : call'[d].op = "decide" /\ call'[d].step = "approve" =>
           \/ /\ call[d].op = "decide" /\ call[d].step = "approve"
              /\ call'[d].stream = call[d].stream
           \/ \E i \in Invites : invites'[i].stream = call'[d].stream
  BY <1>1, ToApprove, IdleFields DEF Same
<1>5. CASE ~InsertCreate(c) /\ ~InsertDecide(c)
  <2>1. \A i \in Invites : invites'[i].status = "pending" => invites'[i] = invites[i]
    BY <1>5, PendingKept
  <2> QED BY <1>2, <1>3, <1>4, <2>1, InvitedKept
<1>6. CASE InsertCreate(c) \/ InsertDecide(c)
  <2>1. Insert(c) /\ requests' = requests /\ call[c].step = "insert"
        /\ call[c].stream \in Streams
    BY <1>6 DEF InsertCreate, InsertDecide, At, Types, Referring, CallRefers, StreamOps
  <2>2. PICK i \in Invites : /\ invites[i].status = "none"
                             /\ invites'[i].stream = call[c].stream
                             /\ invites'[i].solo = call[c].solo
                             /\ \A j \in Invites \ {i} : invites'[j] = invites[j]
    BY <2>1, InsertKeeps
  <2>3. OnePendingInvite'
    <3>1. call[c].solo => \A j \in Invites : ~(invites[j].status = "pending"
                                               /\ invites[j].stream = call[c].stream)
      BY <2>1 DEF Invited, Searched, Pending
    <3> QED BY <2>2, <3>1 DEF Invited, OnePendingInvite
  <2>4. ApprovedHasInvite'
    <3> SUFFICES ASSUME NEW q \in Requests, requests[q].status = "approved"
                 PROVE  \E j \in Invites : invites'[j].stream = requests[q].stream
      BY <2>1 DEF ApprovedHasInvite
    <3>1. PICK j \in Invites : invites[j].stream = requests[q].stream
      BY DEF Invited, ApprovedHasInvite
    <3>2. invites[j].status # "none"
      BY <3>1, MembershipAssumption DEF Types, Referring
    <3> QED BY <3>1, <3>2 DEF Kept
  <2>5. Searched'
    <3>1. \A d \in Calls \ {c} : call'[d].solo => call'[d].step = "idle"
      BY <1>1 DEF Copies, Alone
    <3>2. ~(call'[c].solo /\ call'[c].step = "insert")
      BY <1>6, GotoCalls, IdleCalls, IdleFields
         DEF InsertCreate, InsertDecide, StepNames, Types
    <3> QED BY <3>1, <3>2 DEF Searched
  <2>6. Decided'
    <3> SUFFICES ASSUME NEW d \in Calls, call'[d].op = "decide", call'[d].step = "approve"
                 PROVE  \E j \in Invites : invites'[j].stream = call'[d].stream
      BY DEF Decided
    <3>1. CASE call[d].op = "decide" /\ call[d].step = "approve"
               /\ call'[d].stream = call[d].stream
      <4>1. PICK j \in Invites : invites[j].stream = call[d].stream
        BY <3>1 DEF Invited, Decided
      <4>2. invites[j].status # "none"
        BY <3>1, <4>1, MembershipAssumption
           DEF Types, Referring, CallRefers, StreamOps
      <4> QED BY <3>1, <4>1, <4>2 DEF Kept
    <3> QED BY <1>4, <3>1
  <2> QED BY <2>3, <2>4, <2>5, <2>6 DEF Invited
<1> QED BY <1>5, <1>6

LEMMA InvitedNext == Types /\ Copies /\ Invited /\ [Next]_vars => Invited'
<1> SUFFICES ASSUME Types, Copies, Invited, [Next]_vars PROVE Invited'
  OBVIOUS
<1>1. Types' /\ Kept
  BY TypesStep
<1>2. ASSUME NEW c \in Calls, Step(c)
      PROVE  Invited'
  BY <1>1, <1>2, InvitedStep
<1>3. ASSUME NEW c \in Calls, BeginAny(c)
      PROVE  Invited'
  <2>1. PICK new \in CallType : Begins(c, new)
    BY <1>3, BeginAnyBegins
  <2>2. /\ CallsTyped /\ Begin(c, new) /\ invites' = invites /\ requests' = requests
        /\ new.step # "insert" /\ new.step # "approve"
    BY <2>1 DEF Types, Begins
  <2>3. \A d \in Calls : \/ call'[d].step \notin {"insert", "approve"}
                         \/ ~call'[d].solo /\ call'[d].op = call[d].op
                            /\ call'[d].step = call[d].step
                            /\ call'[d].stream = call[d].stream
    BY <2>2, BeginCalls, IdleFields
  <2>4. /\ \A i \in Invites : invites'[i].status = "pending" => invites'[i] = invites[i]
        /\ \A q \in Requests : requests'[q].status = "approved"
                               => requests[q].status = "approved"
    BY <2>2
  <2> QED BY <1>1, <2>3, <2>4, InvitedKept
<1>4. ASSUME NEW c \in Calls, Abort(c)
      PROVE  Invited'
  <2>1. invites' = invites /\ requests' = requests
    BY <1>4 DEF Abort
  <2>2. call'[c] = Idle /\ \A d \in Calls \ {c} : call'[d] = call[d]
    BY <1>4, AbortRest
  <2> QED BY <1>1, <2>1, <2>2, InvitedKept, IdleFields
<1>5. CASE \/ \E q \in Requests, s \in Streams : Submit(q, s)
           \/ \E r \in Grants : UpdateUserRole(r)
           \/ \E i \in Invites : Lapse(i)
           \/ UNCHANGED vars
  <2>1. call' = call /\ invites' = invites
    BY <1>5, OutsideSteps DEF Outside
  <2>2. \A q \in Requests : requests'[q].status = "approved"
                            => requests[q].status = "approved"
    <3>1. CASE \E q \in Requests, s \in Streams : Submit(q, s)
      BY <3>1 DEF Submit, Types, TypeOK
    <3>2. CASE UNCHANGED requests
      BY <3>2
    <3> QED BY <1>5, <3>1, <3>2 DEF UpdateUserRole, Lapse, vars
  <2> QED BY <1>1, <2>1, <2>2, InvitedKept
<1> QED BY <1>2, <1>3, <1>4, <1>5, NextCases

LEMMA InvitedHolds == Spec => []Invited
<1>1. Init => Invited
  BY InvitedInit
<1>2. Types /\ Copies /\ Invited /\ [Next]_vars => Invited'
  BY InvitedNext
<1> QED BY <1>1, <1>2, CopiesHold, PTL DEF Spec

\* OnePendingInvite: two pending invitations of one address and stream come from
\* overlapping calls only, so a decision repeated after a failure sends none twice.
THEOREM NoSecondInvite == Spec => []OnePendingInvite
<1>1. Invited => OnePendingInvite
  BY DEF Invited
<1> QED BY <1>1, InvitedHolds, PTL

\* ApprovedHasInvite: no request is approved without an invitation to its stream,
\* whatever overlaps, fails or is deleted between the lookup and the approval.
THEOREM ApprovalHasInvite == Spec => []ApprovedHasInvite
<1>1. Invited => ApprovedHasInvite
  BY DEF Invited
<1> QED BY <1>1, InvitedHolds, PTL

-----------------------------------------------------------------------------
(* What an invitation says *)

\* An acceptance between the status of the invitation and the row of the member.
Accepting(c) == call[c].op = "accept" /\ call[c].step \in {"raise", "upsert"}

\* The status of an invitation lies only for as long as an acceptance is under way.
Truthful ==
  \A i \in Invites : i \notin raced /\ invites[i].status # "gone" =>
    /\ i \in granted => invites[i].status = "accepted"
    /\ invites[i].status = "accepted" /\ i \notin granted
         => \E c \in Calls : Accepting(c) /\ call[c].invite = i

\* A call that overlapped no other finds the invitation as it left it.
SoloInvite(c) == call[c].solo =>
  /\ \/ call[c].op = "accept" /\ call[c].step \in {"accept", "expired"}
     \/ call[c].op = "revokeInvite" /\ call[c].step = "revoke"
     => invites[call[c].invite].status = "pending"
  /\ Accepting(c) => invites[call[c].invite].status = "accepted"

Honest == Truthful /\ \A c \in Calls : SoloInvite(c)

LEMMA HonestInit == Init => Honest
<1> SUFFICES ASSUME Init PROVE Honest
  OBVIOUS
<1>1. \A c \in Calls : call[c].step = "idle"
  BY IdleFields DEF Init
<1>2. granted = {} /\ \A i \in Invites : invites[i].status = "none"
  BY DEF Init, NoRow
<1> QED BY <1>1, <1>2 DEF Honest, Truthful, SoloInvite, Accepting

\* The effect of a change of status on one invitation.
LEMMA StatusSet ==
  ASSUME Types, NEW S \in SUBSET Invites, NEW v \in {"accepted", "revoked", "expired"},
         SetStatus(S, v)
  PROVE  \A i \in Invites :
           IF i \in S /\ invites[i].status \notin {"none", "gone"}
           THEN invites'[i].status = v ELSE invites'[i] = invites[i]
<1>1. \A i \in Invites : [invites[i] EXCEPT !.status = v].status = v
  BY DEF Types, TypeOK
<1> QED BY <1>1 DEF SetStatus

LEMMA HonestStep ==
  ASSUME Types, Copies, Honest, NEW c \in Calls, Step(c)
  PROVE  Honest'
<1> USE DEF At
<1>1. /\ CallsTyped /\ call[c].step # "idle"
      /\ call'[c] = Idle \/ Same(c)
      /\ \A d \in Calls \ {c} : call'[d] = call[d]
  BY StepCalls DEF Types, TypeOK
<1>2. \A d \in Calls \ {c} : SoloInvite(d)'
  <2>1. \A d \in Calls \ {c} : call[d].solo => call[d].step = "idle"
    BY <1>1 DEF Copies, Alone
  <2> QED BY <1>1, <2>1 DEF SoloInvite, Accepting
<1>3. ASSUME Truthful', SoloInvite(c)' PROVE Honest'
  BY <1>2, <1>3 DEF Honest
<1>4. SoloInvite(c) /\ Truthful
  BY DEF Honest
<1>5. ASSUME call'[c].step \notin {"accept", "expired", "revoke", "raise", "upsert"}
      PROVE  SoloInvite(c)'
  BY <1>5 DEF SoloInvite, Accepting
<1>6. \A i \in Invites : (\E d \in Calls : Accepting(d) /\ call[d].invite = i)
        => \/ Accepting(c) /\ call[c].invite = i
           \/ \E d \in Calls : Accepting(d)' /\ call'[d].invite = i
  BY <1>1 DEF Accepting
<1>7. CASE Accept(c)
  <2> DEFINE j == call[c].invite
  <2>1. /\ SetStatus({j}, "accepted") /\ j \in Invites /\ call[c].op = "accept"
        /\ call[c].step = "accept" /\ granted' = granted /\ raced' = raced
    BY <1>7 DEF Accept, Types, Referring, CallRefers, InviteOps
  <2>2. \A i \in Invites : IF i = j /\ invites[i].status \notin {"none", "gone"}
                           THEN invites'[i].status = "accepted"
                           ELSE invites'[i] = invites[i]
    BY <2>1, StatusSet
  <2>3. Same(c) /\ call'[c].step \in {"raise", "upsert"}
    BY <1>1, <1>7, GotoCalls DEF Accept, StepNames
  <2>4. Accepting(c)' /\ call'[c].invite = j /\ ~Accepting(c)
    BY <2>1, <2>3 DEF Accepting, Same
  <2>5. Truthful'
    BY <1>4, <1>6, <2>1, <2>2, <2>4 DEF Truthful
  <2>6. SoloInvite(c)'
    BY <1>4, <2>1, <2>2, <2>3, <2>4 DEF SoloInvite, Same
  <2> QED BY <1>3, <2>5, <2>6
<1>8. CASE RaiseRole(c)
  <2>1. /\ UNCHANGED <<invites, granted, raced>> /\ call[c].step = "raise"
        /\ call[c].op = "accept"
    BY <1>8 DEF RaiseRole
  <2>2. Same(c) /\ call'[c].step = "upsert"
    BY <1>1, <1>8, GotoCalls DEF RaiseRole, StepNames
  <2>3. Accepting(c)' /\ Accepting(c) /\ call'[c].invite = call[c].invite
    BY <2>1, <2>2 DEF Accepting, Same
  <2>4. Truthful'
    BY <1>4, <1>6, <2>1, <2>3 DEF Truthful
  <2>5. SoloInvite(c)'
    BY <1>4, <2>1, <2>2, <2>3 DEF SoloInvite, Same
  <2> QED BY <1>3, <2>4, <2>5
<1>9. CASE Upsert(c)
  <2> DEFINE j == call[c].invite
  <2>1. /\ invites' = invites /\ granted' = granted \cup {j} /\ call[c].step = "upsert"
        /\ raced' = (IF call[c].solo THEN raced ELSE raced \cup {j})
        /\ call[c].op = "accept" /\ j \in Invites
    BY <1>9 DEF Upsert, Types, Referring, CallRefers, InviteOps
  <2>2. call'[c].step = "readRows"
    BY <1>1, <1>9, GotoCalls DEF Upsert, StepNames
  <2>3. call[c].solo => invites[j].status = "accepted"
    BY <1>4, <2>1 DEF SoloInvite, Accepting
  <2>4. Truthful'
    BY <1>4, <1>6, <2>1, <2>3 DEF Truthful
  <2> QED BY <1>3, <1>5, <2>2, <2>4
<1>10. CASE AcceptExpired(c) \/ RevokeInvite(c)
  <2> DEFINE j == call[c].invite
  <2>1. /\ j \in Invites /\ granted' = granted
        /\ raced' = (IF call[c].solo THEN raced ELSE raced \cup {j})
        /\ \/ call[c].op = "accept" /\ call[c].step = "expired"
           \/ call[c].op = "revokeInvite" /\ call[c].step = "revoke"
    BY <1>10 DEF AcceptExpired, RevokeInvite, Types, Referring, CallRefers, InviteOps
  <2>2. \E v \in {"revoked", "expired"} : \A i \in Invites :
          IF i = j /\ invites[i].status \notin {"none", "gone"}
          THEN invites'[i].status = v ELSE invites'[i] = invites[i]
    <3>1. \E v \in {"revoked", "expired"} : SetStatus({j}, v)
      BY <1>10 DEF AcceptExpired, RevokeInvite
    <3> QED BY <2>1, <3>1, StatusSet
  <2>3. call'[c] = Idle
    BY <1>1, <1>10, IdleCalls DEF AcceptExpired, RevokeInvite, end
  <2>4. ~Accepting(c)
    BY <2>1 DEF Accepting
  <2>5. call[c].solo => invites[j].status = "pending"
    BY <1>4, <2>1 DEF SoloInvite
  <2>6. Truthful'
    BY <1>4, <1>6, <2>1, <2>2, <2>4, <2>5 DEF Truthful
  <2> QED BY <1>3, <1>5, <2>3, <2>6, IdleFields
<1>11. CASE RevokeAll(c)
  <2> DEFINE P == {i \in Invites : invites[i].status = "pending"}
  <2>1. /\ SetStatus(P, "revoked") /\ granted' = granted /\ call[c].op = "toggle"
        /\ raced' = (IF call[c].solo THEN raced ELSE raced \cup P)
    BY <1>11 DEF RevokeAll
  <2>2. \A i \in Invites : IF invites[i].status = "pending"
                           THEN invites'[i].status = "revoked"
                           ELSE invites'[i] = invites[i]
    <3>1. P \in SUBSET Invites
      OBVIOUS
    <3> QED BY <2>1, <3>1, StatusSet
  <2>3. call'[c] = Idle /\ ~Accepting(c)
    BY <1>1, <1>11, <2>1, IdleCalls DEF RevokeAll, Accepting
  <2>4. Truthful'
    BY <1>4, <1>6, <2>1, <2>2, <2>3 DEF Truthful
  <2> QED BY <1>3, <1>5, <2>3, <2>4, IdleFields
<1>12. CASE InsertCreate(c) \/ InsertDecide(c)
  <2>1. /\ Insert(c) /\ granted' = granted /\ raced' = raced /\ call[c].step = "insert"
    BY <1>12 DEF InsertCreate, InsertDecide
  <2>2. call[c].stream \in Streams /\ requests' = requests
    BY <1>12 DEF InsertCreate, InsertDecide, Types, Referring, CallRefers, StreamOps
  <2>3. PICK i \in Invites : /\ invites[i].status = "none"
                             /\ invites'[i].status = "pending"
                             /\ \A j \in Invites \ {i} : invites'[j] = invites[j]
    BY <2>1 DEF Insert, Types, TypeOK
  <2>4. call'[c].step \in {"idle", "approve"} /\ ~Accepting(c)
    BY <1>1, <1>12, <2>1, GotoCalls, IdleCalls, IdleFields
       DEF InsertCreate, InsertDecide, StepNames, Accepting
  <2>5. Truthful'
    BY <1>4, <1>6, <2>1, <2>3, <2>4 DEF Truthful
  <2> QED BY <1>3, <1>5, <2>4, <2>5
<1>13. CASE DropStream(c)
  <2>1. granted' = granted /\ raced' = raced /\ call[c].op = "deleteStream"
    BY <1>13 DEF DropStream
  <2>2. \A i \in Invites : invites'[i].status = "gone" \/ invites'[i] = invites[i]
    <3>1. \A i \in Invites : [invites[i] EXCEPT !.status = "gone"].status = "gone"
      BY DEF Types, TypeOK
    <3> QED BY <1>13, <3>1 DEF DropStream
  <2>3. call'[c] = Idle /\ ~Accepting(c)
    BY <1>1, <1>13, <2>1, IdleCalls DEF DropStream, end, Accepting
  <2>4. Truthful'
    BY <1>4, <1>6, <2>1, <2>2, <2>3 DEF Truthful
  <2> QED BY <1>3, <1>5, <2>3, <2>4, IdleFields
<1>14. ASSUME UNCHANGED <<invites, granted, raced>>, ~Accepting(c),
              call'[c].step \notin {"accept", "expired", "revoke", "raise", "upsert"}
       PROVE  Honest'
  <2>1. Truthful'
    BY <1>4, <1>6, <1>14 DEF Truthful
  <2> QED BY <1>3, <1>5, <1>14, <2>1
<1>15. ASSUME NEW step \in StepNames, goto(c, step) PROVE call'[c].step = step
  BY <1>1, <1>15, GotoCalls
<1>16. ASSUME call' = [call EXCEPT ![c] = Idle] PROVE call'[c].step = "idle"
  BY <1>1, <1>16, IdleCalls, IdleFields
<1>17. ASSUME NEW S \in SUBSET Streams, NEW step \in StepNames,
              call' = [call EXCEPT ![c].seen = S, ![c].step = step]
       PROVE  call'[c].step = step
  <2>1. call[c] \in CallType
    BY <1>1 DEF CallsTyped
  <2>2. call'[c] = [call[c] EXCEPT !.seen = S, !.step = step]
    BY <1>1, <1>17 DEF CallsTyped
  <2> QED BY <2>1, <2>2 DEF CallType
<1>18. CASE ReadRows(c) \/ ReadColumn(c)
  <2>1. call'[c].step \in {"writeColumn", "dropStream"}
    BY <1>17, <1>18 DEF ReadRows, ReadColumn, StepNames, Types, TypeOK
  <2>2. UNCHANGED <<invites, granted, raced>> /\ ~Accepting(c)
    BY <1>18 DEF ReadRows, ReadColumn, Accepting
  <2> QED BY <1>14, <2>1, <2>2
<1>19. CASE WriteColumn(c) \/ LookupCreate(c) \/ InsertRefused(c) \/ LookupDecide(c)
            \/ CheckAssigned(c) \/ DeleteRow(c) \/ Demote(c) \/ SetManagedRole(c)
            \/ InsertRows(c)
  <2>1. call'[c].step \in {"idle", "demote", "dropStream", "insert", "approve", "deleteRow",
                           "setRole", "readRows", "writeColumn"}
    BY <1>15, <1>16, <1>19
       DEF WriteColumn, LookupCreate, InsertRefused, LookupDecide, CheckAssigned, DeleteRow,
           Demote, SetManagedRole, InsertRows, StepNames, end
  <2>2. UNCHANGED <<invites, granted, raced>> /\ ~Accepting(c)
    BY <1>19
       DEF WriteColumn, LookupCreate, InsertRefused, LookupDecide, CheckAssigned, DeleteRow,
           Demote, SetManagedRole, InsertRows, Accepting
  <2> QED BY <1>14, <2>1, <2>2
<1>20. CASE InsertStream(c) \/ InsertCollection(c) \/ AssignCreator(c) \/ Toggle(c)
            \/ Deny(c) \/ Approve(c)
  <2>1. call'[c].step \in {"idle", "insertCollection", "assign", "readRows", "revokeAll"}
    BY <1>15, <1>16, <1>20
       DEF InsertStream, InsertCollection, AssignCreator, Toggle, Deny, Approve, Decision,
           StepNames, end
  <2>2. UNCHANGED <<invites, granted, raced>> /\ ~Accepting(c)
    BY <1>20 DEF InsertStream, InsertCollection, AssignCreator, Toggle, Deny, Approve,
                 Decision, Accepting
  <2> QED BY <1>14, <2>1, <2>2
<1> QED BY <1>7, <1>8, <1>9, <1>10, <1>11, <1>12, <1>13, <1>18, <1>19, <1>20 DEF Step

LEMMA HonestNext == Types /\ Copies /\ Honest /\ [Next]_vars => Honest'
<1> SUFFICES ASSUME Types, Copies, Honest, [Next]_vars PROVE Honest'
  OBVIOUS
<1>1. ASSUME NEW c \in Calls, Step(c)
      PROVE  Honest'
  BY <1>1, HonestStep
<1>2. ASSUME NEW c \in Calls, BeginAny(c)
      PROVE  Honest'
  <2>1. PICK new \in CallType : Begins(c, new)
    BY <1>2, BeginAnyBegins
  <2>2. /\ CallsTyped /\ Begin(c, new) /\ UNCHANGED <<invites, granted, raced>>
        /\ new.step \notin {"raise", "upsert"}
        /\ new.op \in InviteOps => invites[new.invite].status = "pending"
    BY <2>1 DEF Types, Begins, history
  <2>3. /\ call[c].step = "idle" /\ call'[c].op = new.op /\ call'[c].step = new.step
        /\ call'[c].invite = new.invite
        /\ \A d \in Calls \ {c} :
             \/ call[d].step = "idle" /\ call'[d].step = "idle"
             \/ /\ ~call'[d].solo /\ call'[d].op = call[d].op
                /\ call'[d].step = call[d].step /\ call'[d].invite = call[d].invite
    BY <2>2, BeginCalls, IdleFields
  <2>4. \A d \in Calls : Accepting(d) => Accepting(d)' /\ call'[d].invite = call[d].invite
    BY <2>3 DEF Accepting
  <2>5. Truthful'
    BY <2>2, <2>4 DEF Honest, Truthful
  <2>6. SoloInvite(c)'
    BY <2>2, <2>3 DEF SoloInvite, Accepting, InviteOps
  <2>7. \A d \in Calls \ {c} : SoloInvite(d)'
    BY <2>3 DEF SoloInvite, Accepting
  <2> QED BY <2>5, <2>6, <2>7 DEF Honest
<1>3. ASSUME NEW c \in Calls, Abort(c)
      PROVE  Honest'
  <2>1. /\ UNCHANGED <<invites, granted>>
        /\ raced' = IF call[c].op = "accept" THEN raced \cup {call[c].invite} ELSE raced
    BY <1>3 DEF Abort
  <2>2. call'[c] = Idle /\ \A d \in Calls \ {c} : call'[d] = call[d]
    BY <1>3, AbortRest
  <2>3. \A i \in Invites : i \notin raced' /\ (\E d \in Calls : Accepting(d) /\ call[d].invite = i)
          => \E d \in Calls : Accepting(d)' /\ call'[d].invite = i
    BY <2>1, <2>2 DEF Accepting
  <2>4. Truthful'
    BY <2>1, <2>3 DEF Honest, Truthful
  <2>5. \A d \in Calls : SoloInvite(d)'
    BY <2>1, <2>2, IdleFields DEF Honest, SoloInvite, Accepting
  <2> QED BY <2>4, <2>5 DEF Honest
<1>4. CASE \/ \E q \in Requests, s \in Streams : Submit(q, s)
           \/ \E r \in Grants : UpdateUserRole(r)
           \/ \E i \in Invites : Lapse(i)
           \/ UNCHANGED vars
  <2>1. UNCHANGED <<call, invites, granted, raced>>
    BY <1>4, OutsideSteps DEF Outside
  <2> QED BY <2>1 DEF Honest, Truthful, SoloInvite, Accepting
<1> QED BY <1>1, <1>2, <1>3, <1>4, NextCases

\* InvitationHonest: once nobody is at work an invitation reads "accepted" if and
\* only if it gave the member a stream, but for those of an overlap or a failure.
THEOREM InvitationsTellTruth == Spec => []InvitationHonest
<1>1. Init => Honest
  BY HonestInit
<1>2. Types /\ Copies /\ Honest /\ [Next]_vars => Honest'
  BY HonestNext
<1>3. Honest => InvitationHonest
  BY DEF Honest, Truthful, InvitationHonest, Quiet, Accepting
<1> QED BY <1>1, <1>2, <1>3, CopiesHold, PTL DEF Spec

-----------------------------------------------------------------------------
(* The invitations of a deactivated manager *)

\* A call that sends an invitation and overlapped no other is of an active manager.
Sending == \A c \in Calls :
  call[c].solo /\ call[c].step # "idle" /\ call[c].op \in {"create", "decide"} => active

\* A deactivation that did not fail has revoked the invitations, or is about to.
Out == fails = 0 /\ ~active =>
  \/ \E c \in Calls : At(c, "toggle", "revokeAll")
  \/ \A i \in Invites : invites[i].status = "pending" => ~invites[i].solo

LEMMA OutStep ==
  ASSUME Types, Copies, Kept, Sending, Out, NEW c \in Calls, Step(c)
  PROVE  Sending' /\ Out'
<1>1. /\ CallsTyped /\ call[c].step # "idle"
      /\ call'[c] = Idle \/ Same(c)
      /\ \A d \in Calls \ {c} : call'[d] = call[d]
  BY StepCalls DEF Types, TypeOK
<1>2. fails' = fails
  BY DEF Step, ReadRows, WriteColumn, AcceptExpired, Accept, RaiseRole, Upsert, RevokeInvite,
         LookupCreate, InsertCreate, InsertRefused, Deny, Approve, Decision, LookupDecide,
         InsertDecide, CheckAssigned, DeleteRow, Demote, SetManagedRole, InsertRows,
         InsertStream, InsertCollection, AssignCreator, ReadColumn, DropStream, Toggle,
         RevokeAll
<1>3. \A d \in Calls \ {c} : call[d].solo => call[d].step = "idle"
  BY <1>1 DEF Copies, Alone
<1>4. CASE Toggle(c)
  <2>1. call[c].op = "toggle" /\ active' = (call[c].step = "activate")
        /\ call[c].step \in {"deactivate", "activate"}
    BY <1>4 DEF Toggle, Copies, Paths, PathOf
  <2>2. call[c].step = "deactivate" => At(c, "toggle", "revokeAll")'
    BY <1>1, <1>4, <2>1, GotoCalls DEF Toggle, StepNames, Same, At
  <2>3. Sending'
    BY <1>1, <1>3, <2>1, IdleFields DEF Sending, Same
  <2> QED BY <2>1, <2>2, <2>3 DEF Out
<1>5. CASE RevokeAll(c)
  <2> DEFINE P == {i \in Invites : invites[i].status = "pending"}
  <2>1. active' = active /\ call'[c].step = "idle"
    BY <1>1, <1>5, IdleCalls, IdleFields DEF RevokeAll
  <2>2. P \in SUBSET Invites
    OBVIOUS
  <2>3. \A i \in Invites : invites'[i].status # "pending"
    BY <1>5, <2>2, StatusSet DEF RevokeAll
  <2> QED BY <1>1, <2>1, <2>3 DEF Sending, Out
<1>6. CASE InsertCreate(c) \/ InsertDecide(c)
  <2>1. /\ Insert(c) /\ active' = active /\ requests' = requests
        /\ call[c].op \in {"create", "decide"} /\ call[c].stream \in Streams
    BY <1>6 DEF InsertCreate, InsertDecide, At, Types, Referring, CallRefers, StreamOps
  <2>2. PICK i \in Invites : /\ invites'[i].solo = call[c].solo
                             /\ \A j \in Invites \ {i} : invites'[j] = invites[j]
    BY <2>1, InsertKeeps
  <2>3. Sending'
    BY <1>1, <2>1, IdleFields DEF Sending, Same
  <2>4. ~active => ~call[c].solo
    BY <1>1, <2>1 DEF Sending
  <2>5. \A d \in Calls : At(d, "toggle", "revokeAll") => At(d, "toggle", "revokeAll")'
    BY <1>1, <2>1 DEF At
  <2> QED BY <1>2, <2>1, <2>2, <2>3, <2>4, <2>5 DEF Out
<1>7. ASSUME active' = active, call[c].op # "toggle" \/ call[c].step # "revokeAll",
             \A i \in Invites : invites'[i].status = "pending" => invites'[i] = invites[i]
      PROVE  Sending' /\ Out'
  <2>1. \A d \in Calls : At(d, "toggle", "revokeAll") => At(d, "toggle", "revokeAll")'
    BY <1>1, <1>7 DEF At
  <2>2. Sending'
    BY <1>1, <1>7, IdleFields DEF Sending, Same
  <2> QED BY <1>2, <1>7, <2>1, <2>2 DEF Out
<1>8. CASE Accept(c) \/ AcceptExpired(c) \/ RevokeInvite(c)
  <2>1. /\ active' = active /\ call[c].step # "revokeAll" /\ call[c].invite \in Invites
        /\ \E v \in {"accepted", "revoked", "expired"} : SetStatus({call[c].invite}, v)
    BY <1>8 DEF Accept, AcceptExpired, RevokeInvite, At, Types, Referring, CallRefers,
                InviteOps
  <2>2. \A i \in Invites : invites'[i].status = "pending" => invites'[i] = invites[i]
    BY <2>1, StatusSet
  <2> QED BY <1>7, <2>1, <2>2
<1>9. CASE DropStream(c)
  <2>1. active' = active /\ call[c].step # "revokeAll"
    BY <1>9 DEF DropStream, At
  <2>2. \A i \in Invites : [invites[i] EXCEPT !.status = "gone"].status = "gone"
    BY DEF Types, TypeOK
  <2>3. \A i \in Invites : invites'[i].status = "pending" => invites'[i] = invites[i]
    BY <1>9, <2>2 DEF DropStream
  <2> QED BY <1>7, <2>1, <2>3
<1>10. CASE ReadRows(c) \/ WriteColumn(c) \/ RaiseRole(c) \/ Upsert(c) \/ LookupCreate(c)
            \/ InsertRefused(c) \/ Deny(c) \/ Approve(c) \/ LookupDecide(c)
            \/ CheckAssigned(c) \/ DeleteRow(c) \/ Demote(c) \/ SetManagedRole(c)
  <2>1. UNCHANGED <<active, invites>> /\ call[c].step # "revokeAll"
    BY <1>10 DEF ReadRows, WriteColumn, RaiseRole, Upsert, LookupCreate, InsertRefused, Deny,
                 Approve, Decision, LookupDecide, CheckAssigned, DeleteRow, Demote,
                 SetManagedRole, At
  <2> QED BY <1>7, <2>1
<1>11. CASE InsertRows(c) \/ InsertStream(c) \/ InsertCollection(c) \/ AssignCreator(c)
            \/ ReadColumn(c)
  <2>1. UNCHANGED <<active, invites>> /\ call[c].step # "revokeAll"
    BY <1>11 DEF InsertRows, InsertStream, InsertCollection, AssignCreator, ReadColumn, At
  <2> QED BY <1>7, <2>1
<1> QED BY <1>4, <1>5, <1>6, <1>8, <1>9, <1>10, <1>11 DEF Step

LEMMA OutNext == Types /\ Copies /\ Sending /\ Out /\ [Next]_vars => Sending' /\ Out'
<1> SUFFICES ASSUME Types, Copies, Sending, Out, [Next]_vars PROVE Sending' /\ Out'
  OBVIOUS
<1>0. Kept
  BY TypesStep
<1>1. ASSUME NEW c \in Calls, Step(c)
      PROVE  Sending' /\ Out'
  BY <1>0, <1>1, OutStep
<1>2. ASSUME NEW c \in Calls, BeginAny(c)
      PROVE  Sending' /\ Out'
  <2>1. PICK new \in CallType : Begins(c, new)
    BY <1>2, BeginAnyBegins
  <2>2. /\ CallsTyped /\ Begin(c, new) /\ UNCHANGED <<invites, active, fails>>
        /\ new.op \in {"create", "decide"} => active
    BY <2>1 DEF Types, Begins, Begin
  <2>3. /\ call[c].step = "idle" /\ call'[c].op = new.op
        /\ \A d \in Calls \ {c} :
             \/ call[d].step = "idle" /\ call'[d].step = "idle"
             \/ /\ ~call'[d].solo /\ call'[d].op = call[d].op
                /\ call'[d].step = call[d].step
    BY <2>2, BeginCalls, IdleFields
  <2>4. \A d \in Calls : At(d, "toggle", "revokeAll") => At(d, "toggle", "revokeAll")'
    BY <2>3 DEF At
  <2> QED BY <2>2, <2>3, <2>4 DEF Sending, Out
<1>3. ASSUME NEW c \in Calls, Abort(c)
      PROVE  Sending' /\ Out'
  <2>1. fails' # 0 /\ active' = active
    BY <1>3 DEF Abort, Types, TypeOK
  <2>2. call'[c] = Idle /\ \A d \in Calls \ {c} : call'[d] = call[d]
    BY <1>3, AbortRest
  <2> QED BY <2>1, <2>2, IdleFields DEF Sending, Out
<1>4. CASE \/ \E q \in Requests, s \in Streams : Submit(q, s)
           \/ \E r \in Grants : UpdateUserRole(r)
           \/ \E i \in Invites : Lapse(i)
           \/ UNCHANGED vars
  <2>1. UNCHANGED <<call, invites, active>>
    BY <1>4, OutsideSteps DEF Outside
  <2>2. fails' = fails
    BY <1>4 DEF Submit, UpdateUserRole, Lapse, vars
  <2> QED BY <2>1, <2>2 DEF Sending, Out, At
<1> QED BY <1>1, <1>2, <1>3, <1>4, NextCases

\* NoneOutlivesManager: without a failure a deactivation leaves no pending invitation
\* of the manager behind, but one whose sending overlapped another call.
THEOREM NoInviteOutlivesManager == Spec => []NoneOutlivesManager
<1>1. Init => Sending /\ Out
  BY IdleFields DEF Init, Sending, Out, NoRow
<1>2. Types /\ Copies /\ Sending /\ Out /\ [Next]_vars => Sending' /\ Out'
  BY OutNext
<1>3. Sending /\ Out => NoneOutlivesManager
  BY DEF Out, NoneOutlivesManager, Quiet, At
<1> QED BY <1>1, <1>2, <1>3, CopiesHold, PTL DEF Spec
=============================================================================
