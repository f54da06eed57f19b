-------------------------- MODULE PaymentLifecycle --------------------------
(***************************************************************************)
(* One session, its participants and the requests that act on them at the  *)
(* same time.  A use case reads rows, decides on the entities in memory,   *)
(* and stores whole rows back: each SQL statement is an action, and what a *)
(* request holds between two statements is kept in req.  Two statements    *)
(* are guarded in the database: MarkSubmittedWithProof and                 *)
(* CompleteIfAllPaid.                                                      *)
(***************************************************************************)
EXTENDS Naturals, FiniteSets

CONSTANTS
  People,    \* participant ids, given out once
  Requests,  \* HTTP requests that may be served at the same time
  Proofs,    \* uploaded images
  MaxFaults  \* bound: crashes and failed statements

NoProof == "no proof"

ASSUME PaymentAssumption == NoProof \notin Proofs /\ MaxFaults \in Nat

VARIABLES
  row,          \* the participant's row: payment_status, payment_proof_url, paid_manually
  session,      \* the status column of the session
  req,          \* where each request is and what it has read
  used,         \* images already uploaded
  faults,       \* faults so far
  accepted,     \* history: images MarkSubmittedWithProof stored for a participant
  rowsLost,     \* history: rows stored from a snapshot that was out of date
  sessionLost,  \* history: the session was stored from such a snapshot
  late          \* history: participants who joined when the session was closed

rowVars  == <<row, accepted, rowsLost, late>>
sessVars == <<session, sessionLost>>
vars == <<rowVars, sessVars, req, used, faults>>

-----------------------------------------------------------------------------
PaymentStatus == {"pending", "submitted", "paid", "rejected"}
SessionStatus == {"active", "completed", "cancelled"}
Ops == {"approve", "reject", "markpaid", "touch"}

Row  == [status: PaymentStatus, proof: Proofs \cup {NoProof}, manual: BOOLEAN]
\* No row: its status says whether the participant is yet to join or was removed.
NoRow == [status: {"absent", "removed"}, proof: {NoProof}, manual: {FALSE}]

Blank(s) == [status |-> s, proof |-> NoProof, manual |-> FALSE]

Present == {p \in People : row[p].status \in PaymentStatus}
AllPaid == \A p \in Present : row[p].status = "paid"

(***************************************************************************)
(* The states of a request.  "write" holds a participant read earlier and  *)
(* the method to be applied to it; owes says that a bulk approval has      *)
(* approved somebody already.  "save" holds a session read earlier, the    *)
(* status its entity has now, and what follows.                            *)
(***************************************************************************)
Steps == {"idle", "complete", "add", "import", "remove", "rename", "splits"}
Request ==
       [pc: Steps]
  \cup [pc: {"write"}, op: Ops, who: People, seen: Row, owes: BOOLEAN]
  \cup [pc: {"submit"}, who: People, proof: Proofs]
  \cup [pc: {"save"}, seen: SessionStatus, status: SessionStatus, then: {"idle", "splits"}]

At(s) == [pc |-> s]
GoTo(r, state) == req' = [req EXCEPT ![r] = state]

\* Approvals were stored and the session has not been looked at since.
Owes(r) == \/ req[r].pc = "complete"
           \/ req[r].pc = "write" /\ req[r].owes

\* An image about to be claimed has been uploaded.
RequestsOK ==
  /\ req \in [Requests -> Request]
  /\ \A r \in Requests : req[r].pc = "submit" => req[r].proof \in used

TypeOK ==
  /\ row \in [People -> Row \cup NoRow]
  /\ session \in SessionStatus
  /\ RequestsOK
  /\ used \in SUBSET Proofs
  /\ faults \in 0..MaxFaults
  /\ accepted \in [People -> SUBSET used]
  /\ rowsLost \in SUBSET People
  /\ sessionLost \in BOOLEAN
  /\ late \in SUBSET People

Init ==
  /\ row = [p \in People |-> Blank("absent")]
  /\ session = "active"
  /\ req = [r \in Requests |-> At("idle")]
  /\ used = {}
  /\ faults = 0
  /\ accepted = [p \in People |-> {}]
  /\ rowsLost = {}
  /\ sessionLost = FALSE
  /\ late = {}

-----------------------------------------------------------------------------
\* Decisions on a participant: read the row, check it, change it in memory.

\* Mutated form: a rejection keeps the proof it rejects.
DecidedKeepProof(op, p) ==
  CASE op = "approve"  -> [p EXCEPT !.status = "paid", !.manual = FALSE]
    [] op = "reject"   -> [p EXCEPT !.status = "rejected"]
    [] op = "markpaid" -> [status |-> "paid", proof |-> NoProof, manual |-> TRUE]
    [] op = "touch"    -> p
Decided(op, p) ==
  CASE op = "approve"  -> [p EXCEPT !.status = "paid", !.manual = FALSE]
    [] op = "reject"   -> [p EXCEPT !.status = "rejected", !.proof = NoProof]
    [] op = "markpaid" -> [status |-> "paid", proof |-> NoProof, manual |-> TRUE]
    [] op = "touch"    -> p

ReadRow(r, p, op, owes) ==
  /\ p \in Present
  /\ GoTo(r, [pc |-> "write", op |-> op, who |-> p, seen |-> row[p], owes |-> owes])
  /\ UNCHANGED <<rowVars, sessVars, used, faults>>

\* ApprovePayment, and BulkApprove until it has approved somebody.
ApproveRead(r, p) ==
  /\ req[r].pc = "idle"
  /\ row[p].status = "submitted"
  /\ ReadRow(r, p, "approve", FALSE)

\* A later turn of BulkApprove's loop; the session is looked at after the last.
BulkApproveRead(r, p) ==
  /\ req[r].pc = "complete"
  /\ row[p].status = "submitted"
  /\ ReadRow(r, p, "approve", TRUE)

\* Mutated form: a rejection does not look at the status.
RejectReadAny(r, p) ==
  /\ req[r].pc = "idle"
  /\ ReadRow(r, p, "reject", FALSE)
\* RejectPayment, and one turn of BulkReject's loop.
RejectRead(r, p) ==
  /\ req[r].pc = "idle"
  /\ row[p].status = "submitted"
  /\ ReadRow(r, p, "reject", FALSE)

MarkPaidRead(r, p) ==
  /\ req[r].pc = "idle"
  /\ row[p].status # "paid"
  /\ ReadRow(r, p, "markpaid", FALSE)

\* SendReminder stores the whole row to count the reminder.
ReminderRead(r, p) ==
  /\ req[r].pc = "idle"
  /\ row[p].status # "paid"
  /\ ReadRow(r, p, "touch", FALSE)

\* UpdateParticipant: the session first, then the row it renames.
UpdateParticipant(r) ==
  /\ req[r].pc = "idle"
  /\ session = "active"
  /\ GoTo(r, At("rename"))
  /\ UNCHANGED <<rowVars, sessVars, used, faults>>
RenameRead(r, p) ==
  /\ req[r].pc = "rename"
  /\ ReadRow(r, p, "touch", FALSE)

\* Mutated form: the session is looked at only after a bulk approval.
AfterUpdateBulkOnly(w, found) == IF w.owes THEN At("complete") ELSE At("idle")
AfterUpdate(w, found) ==
  IF w.owes \/ (found /\ w.op = "approve") THEN At("complete") ELSE At("idle")

\* The UPDATE of every column, by id alone.
ParticipantUpdate(r) ==
  /\ req[r].pc = "write"
  /\ LET w == req[r] IN
       \/ /\ w.who \in Present
          /\ row' = [row EXCEPT ![w.who] = Decided(w.op, w.seen)]
          /\ rowsLost' = IF row[w.who] = w.seen THEN rowsLost ELSE rowsLost \cup {w.who}
          /\ GoTo(r, AfterUpdate(w, TRUE))
       \/ /\ w.who \notin Present
          /\ GoTo(r, AfterUpdate(w, FALSE))
          /\ UNCHANGED <<row, rowsLost>>
  /\ UNCHANGED <<accepted, late, sessVars, used, faults>>

-----------------------------------------------------------------------------
\* The participant's own request: check, upload, claim.

\* Mutated form: the image was not stored.
SubmitReadNoUpload(r, p, f) ==
  /\ req[r].pc = "idle"
  /\ row[p].status = "pending"
  /\ f \notin used
  /\ GoTo(r, [pc |-> "submit", who |-> p, proof |-> f])
  /\ UNCHANGED <<rowVars, sessVars, used, faults>>
SubmitRead(r, p, f) ==
  /\ req[r].pc = "idle"
  /\ row[p].status = "pending"
  /\ f \notin used
  /\ used' = used \cup {f}
  /\ GoTo(r, [pc |-> "submit", who |-> p, proof |-> f])
  /\ UNCHANGED <<rowVars, sessVars, faults>>

\* Mutated form: the UPDATE matches the id alone.
ClaimedById(p) == p \in Present
Claimed(p) == row[p].status = "pending"

MarkSubmittedWithProof(r) ==
  /\ req[r].pc = "submit"
  /\ LET s == req[r] IN
       \/ /\ Claimed(s.who)
          /\ row' = [row EXCEPT ![s.who].status = "submitted", ![s.who].proof = s.proof]
          /\ accepted' = [accepted EXCEPT ![s.who] = @ \cup {s.proof}]
       \/ ~Claimed(s.who) /\ UNCHANGED <<row, accepted>>
  /\ GoTo(r, At("idle"))
  /\ UNCHANGED <<rowsLost, late, sessVars, used, faults>>

-----------------------------------------------------------------------------
\* The session's status.

\* Mutated forms: the status of the session is not looked at; a rejected
\* participant does not count as unpaid.
CompletableAnyStatus == AllPaid
CompletableIfDecided ==
  session = "active" /\ \A p \in Present : row[p].status \in {"paid", "rejected"}
Completable == session = "active" /\ AllPaid

CompleteIfAllPaid(r) ==
  /\ req[r].pc = "complete"
  /\ session' = IF Completable THEN "completed" ELSE session
  /\ GoTo(r, At("idle"))
  /\ UNCHANGED <<rowVars, sessionLost, used, faults>>

ReadSession(r, status, then) ==
  /\ GoTo(r, [pc |-> "save", seen |-> session, status |-> status, then |-> then])
  /\ UNCHANGED <<rowVars, sessVars, used, faults>>

CancelSession(r) ==
  /\ req[r].pc = "idle"
  /\ session = "active"
  /\ ReadSession(r, "cancelled", "idle")

\* UpdateSession, UpdateFeeConfig and AddBillItem check that the session is active.
UpdateSession(r) ==
  /\ req[r].pc = "idle"
  /\ session = "active"
  /\ ReadSession(r, session, "idle")

\* UpdateBillItem and ReplaceBankAccounts do not.
UpdateBillItem(r) ==
  /\ req[r].pc = "idle"
  /\ ReadSession(r, session, "idle")

\* Nor does DeleteBillItem, which recalculates the splits afterwards.
DeleteBillItem(r) ==
  /\ req[r].pc = "idle"
  /\ ReadSession(r, session, "splits")

\* CalculateSplits of a session with fees, called by the host or by another
\* use case; the shares themselves are not modelled here.
CalculateSplits(r) ==
  /\ req[r].pc \in {"idle", "splits"}
  /\ session = "active"
  /\ Present # {}
  /\ ReadSession(r, session, "idle")

\* The UPDATE of every column of the session.
SessionUpdate(r) ==
  /\ req[r].pc = "save"
  /\ session' = req[r].status
  /\ sessionLost' = (sessionLost \/ session # req[r].seen)
  /\ GoTo(r, At(req[r].then))
  /\ UNCHANGED <<rowVars, used, faults>>

-----------------------------------------------------------------------------
\* Joining and leaving.

AddParticipants(r) ==
  /\ req[r].pc = "idle"
  /\ session = "active"
  /\ GoTo(r, At("add"))
  /\ UNCHANGED <<rowVars, sessVars, used, faults>>

ImportFromGroup(r) ==
  /\ req[r].pc = "idle"
  /\ GoTo(r, At("import"))
  /\ UNCHANGED <<rowVars, sessVars, used, faults>>

Create(r, p) ==
  /\ req[r].pc \in {"add", "import"}
  /\ row[p].status = "absent"
  /\ row' = [row EXCEPT ![p] = Blank("pending")]
  /\ late' = IF session = "active" THEN late ELSE late \cup {p}
  /\ UNCHANGED <<accepted, rowsLost, sessVars, req, used, faults>>

\* AddParticipants has stored all and the session has bills.
AddEnds(r) ==
  /\ req[r].pc = "add"
  /\ GoTo(r, At("splits"))
  /\ UNCHANGED <<rowVars, sessVars, used, faults>>

RemoveParticipant(r) ==
  /\ req[r].pc = "idle"
  /\ session = "active"
  /\ GoTo(r, At("remove"))
  /\ UNCHANGED <<rowVars, sessVars, used, faults>>

Delete(r, p) ==
  /\ req[r].pc = "remove"
  /\ p \in Present
  /\ row' = [row EXCEPT ![p] = Blank("removed")]
  /\ GoTo(r, At("splits"))
  /\ UNCHANGED <<accepted, rowsLost, late, sessVars, used, faults>>

\* The rest of the request stores nothing kept here: a duplicate number, a row
\* that is gone, no bills, no fees, a session no longer active.
Return(r) ==
  /\ req[r].pc \in {"add", "import", "remove", "rename", "splits"}
  /\ GoTo(r, At("idle"))
  /\ UNCHANGED <<rowVars, sessVars, used, faults>>

\* A statement fails or the process dies.  BulkApprove skips the participant
\* whose statement failed and goes on.
Fail(r) ==
  /\ faults < MaxFaults
  /\ faults' = faults + 1
  /\ \/ req[r].pc # "idle" /\ GoTo(r, At("idle"))
     \/ req[r].pc = "write" /\ req[r].owes /\ GoTo(r, At("complete"))
  /\ UNCHANGED <<rowVars, sessVars, used>>

-----------------------------------------------------------------------------
DecisionStep(r) ==
  \/ \E p \in People :
       \/ ApproveRead(r, p) \/ BulkApproveRead(r, p) \/ RejectRead(r, p) \/ MarkPaidRead(r, p)
       \/ ReminderRead(r, p) \/ RenameRead(r, p)
  \/ UpdateParticipant(r)
  \/ ParticipantUpdate(r)

SubmitStep(r) ==
  \/ \E p \in People, f \in Proofs : SubmitRead(r, p, f)
  \/ MarkSubmittedWithProof(r)

SessionStep(r) ==
  \/ CompleteIfAllPaid(r) \/ CancelSession(r) \/ UpdateSession(r) \/ UpdateBillItem(r)
  \/ DeleteBillItem(r) \/ CalculateSplits(r) \/ SessionUpdate(r)

MemberStep(r) ==
  \/ AddParticipants(r) \/ ImportFromGroup(r) \/ AddEnds(r) \/ RemoveParticipant(r)
  \/ \E p \in People : Create(r, p) \/ Delete(r, p)
  \/ Return(r)

Next == \E r \in Requests :
  DecisionStep(r) \/ SubmitStep(r) \/ SessionStep(r) \/ MemberStep(r) \/ Fail(r)

Spec == Init /\ [][Next]_vars

-----------------------------------------------------------------------------
(***************************************************************************)
(* Properties                                                              *)
(***************************************************************************)

\* What a row x may say of a participant for whom the images S were accepted.
Consistent(x, S) ==
  /\ x.manual => x.status = "paid" /\ x.proof = NoProof
  /\ x.status = "submitted" \/ (x.status = "paid" /\ ~x.manual) => x.proof \in S
  /\ x.status \in {"pending", "rejected"} => x.proof = NoProof

\* In every row, and in every snapshot a request is about to store, the status
\* and the evidence agree: a payment is closed either by the host's word and
\* without a proof or by a proof that was accepted for this very participant,
\* and an open or rejected one shows none.  Full-row updates from old snapshots
\* may lose a decision but never mix two.
EvidenceConsistent ==
  /\ \A p \in Present : Consistent(row[p], accepted[p])
  /\ \A r \in Requests : req[r].pc = "write" => Consistent(req[r].seen, accepted[req[r].who])

\* Simultaneous submits: one wins, and nobody submits again, unless an update
\* of the row from an old snapshot put it back to 'pending'.
OneProofAccepted == \A p \in People \ rowsLost :
  /\ Cardinality(accepted[p]) <= 1
  /\ row[p].status = "pending" => accepted[p] = {}

\* Concurrent approvals cannot leave a session open: when all participants are
\* paid, some request is still going to look.  The exceptions are the ways to
\* the same state that never look: payment marked by hand, a participant
\* removed, a fault, an update from an old snapshot.
ApprovalsComplete ==
  (/\ session = "active" /\ Present # {} /\ AllPaid
   /\ \A p \in People : ~row[p].manual /\ row[p].status # "removed"
   /\ faults = 0 /\ rowsLost = {} /\ ~sessionLost)
  => \E r \in Requests : Owes(r)

\* A completed session has nobody left to pay, except participants imported or
\* added after it was closed and rows put back by an update from an old snapshot.
CompletedMeansPaid ==
  session = "completed" /\ ~sessionLost
  => \A p \in Present : row[p].status = "paid" \/ p \in rowsLost \cup late

\* What a request holds follows from what it read: only a submitted payment is
\* about to be approved or rejected, only an open one marked paid, and a session
\* about to be stored keeps the status that was read, unless it is cancelled.
JustifiedState(q) ==
  /\ q.pc = "write" =>
       /\ q.op \in {"approve", "reject"} => q.seen.status = "submitted"
       /\ q.op = "markpaid" => q.seen.status # "paid"
  /\ q.pc = "save" =>
       q.status = q.seen \/ (q.seen = "active" /\ q.status = "cancelled")
Justified == \A r \in Requests : JustifiedState(req[r])

Rules == INSTANCE PaymentRules WITH payment <- [p \in People |-> row[p].status]

\* Requests served one at a time carry out exactly the transitions of the
\* domain layer's status types.
ImplementsRules == Rules!Spec

\* Requests served at the same time do too, up to the first time a row or the
\* session is stored from a snapshot that was out of date.
RulesUntilLostUpdate ==
  [][rowsLost' = {} /\ ~sessionLost' => Rules!Next \/ UNCHANGED Rules!vars]_vars

=============================================================================
