----------------------- MODULE PaymentLifecycleProofs -----------------------
(***************************************************************************)
(* Theorems about the payment lifecycle, for any number of participants,   *)
(* requests, images and faults.                                            *)
(***************************************************************************)
EXTENDS PaymentLifecycle, FiniteSetTheorems, TLAPS

\* The fields a request has, by where it is.
LEMMA RequestFields ==
  ASSUME NEW q \in Request
  PROVE  /\ q.pc \in Steps \cup {"write", "submit", "save"}
         /\ q.pc = "write" => q.op \in Ops /\ q.who \in People /\ q.seen \in Row /\ q.owes \in BOOLEAN
         /\ q.pc = "submit" => q.who \in People /\ q.proof \in Proofs
         /\ q.pc = "save" => q.seen \in SessionStatus /\ q.status \in SessionStatus /\ q.then \in {"idle", "splits"}
  BY DEF Request, Steps

\* Every place a request can go to is a request state.
LEMMA RequestStates ==
  /\ \A s \in Steps : At(s) \in Request
  /\ \A op \in Ops, p \in People, x \in Row, o \in BOOLEAN :
       [pc |-> "write", op |-> op, who |-> p, seen |-> x, owes |-> o] \in Request
  /\ \A p \in People, f \in Proofs : [pc |-> "submit", who |-> p, proof |-> f] \in Request
  /\ \A s, t \in SessionStatus, n \in {"idle", "splits"} :
       [pc |-> "save", seen |-> s, status |-> t, then |-> n] \in Request
  BY DEF Request, At

\* A present participant's row is a row; applying a method to a row gives a row.
LEMMA RowTypes ==
  /\ \A x \in Row \cup NoRow : x.status \in PaymentStatus => x \in Row
  /\ \A op \in Ops, x \in Row : Decided(op, x) \in Row
  /\ Blank("pending") \in Row
  /\ \A s \in {"absent", "removed"} : Blank(s) \in NoRow
<1>1. \A x \in Row \cup NoRow : x.status \in PaymentStatus => x \in Row
  BY DEF Row, NoRow, PaymentStatus
<1>2. ASSUME NEW op \in Ops, NEW x \in Row PROVE Decided(op, x) \in Row
  BY DEF Ops, Row, Decided, PaymentStatus
<1>3. Blank("pending") \in Row /\ \A s \in {"absent", "removed"} : Blank(s) \in NoRow
  BY DEF Blank, Row, NoRow, PaymentStatus
<1> QED BY <1>1, <1>2, <1>3

LEMMA TypeInit == Init => TypeOK
<1> SUFFICES ASSUME Init PROVE TypeOK
  OBVIOUS
<1>1. row \in [People -> Row \cup NoRow]
  BY RowTypes DEF Init
<1>2. req \in [Requests -> Request] /\ \A r \in Requests : req[r].pc = "idle"
  BY RequestStates DEF Init, At, Steps
<1>3. session \in SessionStatus /\ faults \in 0..MaxFaults /\ accepted \in [People -> SUBSET used]
  BY PaymentAssumption DEF Init, SessionStatus, PaymentAssumption
<1> QED BY <1>1, <1>2, <1>3 DEF Init, TypeOK, RequestsOK

\* One request moves to another state: the type of req is kept.
LEMMA GoToType ==
  ASSUME TypeOK, NEW r \in Requests, NEW q \in Request, GoTo(r, q),
         used \subseteq used', q.pc = "submit" => q.proof \in used'
  PROVE  RequestsOK'
  BY DEF TypeOK, GoTo, RequestsOK

LEMMA GoToStepType ==
  ASSUME TypeOK, NEW r \in Requests, NEW s \in Steps, GoTo(r, At(s)), used \subseteq used'
  PROVE  RequestsOK'
<1>1. At(s) \in Request /\ At(s).pc # "submit"
  BY RequestStates DEF At, Steps
<1> QED BY <1>1, GoToType

LEMMA DecisionType ==
  ASSUME TypeOK, NEW r \in Requests, DecisionStep(r)
  PROVE  TypeOK'
<1> USE DEF rowVars, sessVars
<1>0. req[r] \in Request
  BY DEF TypeOK, RequestsOK
<1>1. ASSUME NEW p \in People, NEW op \in Ops, NEW o \in BOOLEAN, ReadRow(r, p, op, o)
      PROVE  TypeOK'
  <2>1. row[p] \in Row
    BY <1>1, RowTypes DEF ReadRow, Present, TypeOK
  <2>2. RequestsOK'
    BY <1>1, <2>1, RequestStates, GoToType DEF ReadRow
  <2> QED BY <1>1, <2>2 DEF ReadRow, TypeOK
<1>2. CASE \E p \in People :
       \/ ApproveRead(r, p) \/ BulkApproveRead(r, p) \/ RejectRead(r, p) \/ MarkPaidRead(r, p)
       \/ ReminderRead(r, p) \/ RenameRead(r, p)
  BY <1>1, <1>2 DEF ApproveRead, BulkApproveRead, RejectRead, MarkPaidRead, ReminderRead, RenameRead, Ops
<1>3. CASE UpdateParticipant(r)
  <2>1. RequestsOK'
    BY <1>3, GoToStepType DEF UpdateParticipant, Steps
  <2> QED BY <1>3, <2>1 DEF UpdateParticipant, TypeOK
<1>4. CASE ParticipantUpdate(r)
  <2> DEFINE w == req[r]
  <2>1. w.op \in Ops /\ w.who \in People /\ w.seen \in Row
    BY <1>0, <1>4, RequestFields DEF ParticipantUpdate
  <2>2. \A found \in BOOLEAN : \E s \in Steps : AfterUpdate(w, found) = At(s)
    BY DEF AfterUpdate, Steps
  <2>3. RequestsOK'
    BY <1>4, <2>2, GoToStepType DEF ParticipantUpdate
  <2>4. row' \in [People -> Row \cup NoRow] /\ rowsLost' \in SUBSET People
    BY <1>4, <2>1, RowTypes DEF ParticipantUpdate, TypeOK
  <2> QED BY <1>4, <2>3, <2>4 DEF ParticipantUpdate, TypeOK
<1> QED BY <1>2, <1>3, <1>4 DEF DecisionStep

LEMMA SubmitType ==
  ASSUME TypeOK, NEW r \in Requests, SubmitStep(r)
  PROVE  TypeOK'
<1> USE DEF rowVars, sessVars
<1>0. req[r] \in Request
  BY DEF TypeOK, RequestsOK
<1>1. ASSUME NEW p \in People, NEW f \in Proofs, SubmitRead(r, p, f) PROVE TypeOK'
  <2>1. RequestsOK'
    BY <1>1, RequestStates, GoToType DEF SubmitRead
  <2>2. used' \in SUBSET Proofs /\ accepted' \in [People -> SUBSET used']
    BY <1>1 DEF SubmitRead, TypeOK
  <2> QED BY <1>1, <2>1, <2>2 DEF SubmitRead, TypeOK
<1>2. CASE MarkSubmittedWithProof(r)
  <2> DEFINE q == req[r]
  <2>1. q.who \in People /\ q.proof \in Proofs /\ q.proof \in used
    BY <1>0, <1>2, RequestFields DEF MarkSubmittedWithProof, TypeOK, RequestsOK
  <2>2. RequestsOK'
    BY <1>2, GoToStepType DEF MarkSubmittedWithProof, Steps
  <2>3. CASE Claimed(q.who)
    <3>1. row[q.who] \in Row
      BY <2>1, <2>3, RowTypes DEF Claimed, TypeOK, PaymentStatus
    <3>2. [row[q.who] EXCEPT !.status = "submitted", !.proof = q.proof] \in Row
      BY <2>1, <3>1 DEF Row, PaymentStatus
    <3>3. row' = [row EXCEPT ![q.who] = [row[q.who] EXCEPT !.status = "submitted", !.proof = q.proof]]
          /\ accepted' = [accepted EXCEPT ![q.who] = @ \cup {q.proof}]
      BY <1>2, <2>1, <2>3 DEF MarkSubmittedWithProof, TypeOK
    <3>4. row' \in [People -> Row \cup NoRow] /\ accepted' \in [People -> SUBSET used]
      BY <2>1, <2>3, <3>2, <3>3 DEF TypeOK
    <3> QED BY <1>2, <2>2, <3>4 DEF MarkSubmittedWithProof, TypeOK
  <2> QED BY <1>2, <2>2, <2>3 DEF MarkSubmittedWithProof, TypeOK
<1> QED BY <1>1, <1>2 DEF SubmitStep

LEMMA SessionType ==
  ASSUME TypeOK, NEW r \in Requests, SessionStep(r)
  PROVE  TypeOK'
<1> USE DEF rowVars, sessVars
<1>0. req[r] \in Request
  BY DEF TypeOK, RequestsOK
<1>1. CASE CompleteIfAllPaid(r)
  <2>1. RequestsOK'
    BY <1>1, GoToStepType DEF CompleteIfAllPaid, Steps
  <2> QED BY <1>1, <2>1 DEF CompleteIfAllPaid, TypeOK, SessionStatus
<1>2. ASSUME NEW t \in SessionStatus, NEW n \in {"idle", "splits"}, ReadSession(r, t, n)
      PROVE  TypeOK'
  <2>1. RequestsOK'
    BY <1>2, RequestStates, GoToType DEF ReadSession, TypeOK
  <2> QED BY <1>2, <2>1 DEF ReadSession, TypeOK
<1>3. CASE \/ CancelSession(r) \/ UpdateSession(r) \/ UpdateBillItem(r)
           \/ DeleteBillItem(r) \/ CalculateSplits(r)
  <2>1. session \in SessionStatus /\ "cancelled" \in SessionStatus
    BY DEF TypeOK, SessionStatus
  <2> QED BY <1>2, <1>3, <2>1
        DEF CancelSession, UpdateSession, UpdateBillItem, DeleteBillItem, CalculateSplits
<1>4. CASE SessionUpdate(r)
  <2>1. req[r].status \in SessionStatus /\ req[r].then \in Steps
    BY <1>0, <1>4, RequestFields DEF SessionUpdate, Steps
  <2>2. RequestsOK'
    BY <1>4, <2>1, GoToStepType DEF SessionUpdate
  <2> QED BY <1>4, <2>1, <2>2 DEF SessionUpdate, TypeOK
<1> QED BY <1>1, <1>3, <1>4 DEF SessionStep

LEMMA MemberType ==
  ASSUME TypeOK, NEW r \in Requests, MemberStep(r)
  PROVE  TypeOK'
<1> USE DEF rowVars, sessVars
<1>1. CASE \/ AddParticipants(r) \/ ImportFromGroup(r) \/ AddEnds(r)
           \/ RemoveParticipant(r) \/ Return(r)
  <2>1. RequestsOK'
    BY <1>1, GoToStepType
    DEF AddParticipants, ImportFromGroup, AddEnds, RemoveParticipant, Return, Steps
  <2> QED BY <1>1, <2>1
        DEF AddParticipants, ImportFromGroup, AddEnds, RemoveParticipant, Return, TypeOK
<1>2. ASSUME NEW p \in People, Create(r, p) PROVE TypeOK'
  BY <1>2, RowTypes DEF Create, TypeOK, RequestsOK
<1>3. ASSUME NEW p \in People, Delete(r, p) PROVE TypeOK'
  <2>1. RequestsOK'
    BY <1>3, GoToStepType DEF Delete, Steps
  <2> QED BY <1>3, <2>1, RowTypes DEF Delete, TypeOK
<1> QED BY <1>1, <1>2, <1>3 DEF MemberStep

LEMMA FailType ==
  ASSUME TypeOK, NEW r \in Requests, Fail(r)
  PROVE  TypeOK'
<1> USE DEF rowVars, sessVars
<1>1. RequestsOK'
  BY GoToStepType DEF Fail, Steps
<1>2. faults' \in 0..MaxFaults
  BY PaymentAssumption DEF Fail, TypeOK, PaymentAssumption
<1> QED BY <1>1, <1>2 DEF Fail, TypeOK

LEMMA TypeNext == TypeOK /\ [Next]_vars => TypeOK'
<1>1. ASSUME TypeOK, NEW r \in Requests,
             DecisionStep(r) \/ SubmitStep(r) \/ SessionStep(r) \/ MemberStep(r) \/ Fail(r)
      PROVE  TypeOK'
  BY <1>1, DecisionType, SubmitType, SessionType, MemberType, FailType
<1>2. ASSUME TypeOK, UNCHANGED vars PROVE TypeOK'
  BY <1>2 DEF vars, rowVars, sessVars, TypeOK, RequestsOK
<1> QED BY <1>1, <1>2 DEF Next

\* Every variable keeps its type, whatever requests are served together: a row
\* written back from a snapshot is a row, a request holds what it read.
THEOREM TypeCorrect == Spec => []TypeOK
  BY TypeInit, TypeNext, PTL DEF Spec

-----------------------------------------------------------------------------
\* One request moves to a state that is justified.
LEMMA GoToJustified ==
  ASSUME TypeOK, Justified, NEW r \in Requests, NEW q, GoTo(r, q), JustifiedState(q)
  PROVE  Justified'
<1>1. \A x \in Requests : req'[x] = IF x = r THEN q ELSE req[x]
  BY DEF GoTo, TypeOK, RequestsOK
<1>2. \A x \in Requests : JustifiedState(req'[x])
  BY <1>1 DEF Justified
<1> QED BY <1>2 DEF Justified, JustifiedState

LEMMA GoToStepJustified ==
  ASSUME TypeOK, Justified, NEW r \in Requests, NEW s \in Steps, GoTo(r, At(s))
  PROVE  Justified'
<1>1. JustifiedState(At(s))
  BY DEF JustifiedState, At, Steps
<1> QED BY <1>1, GoToJustified

LEMMA JustifiedDecision ==
  ASSUME TypeOK, Justified, NEW r \in Requests, DecisionStep(r)
  PROVE  Justified'
<1>1. ASSUME NEW p \in People, NEW op \in Ops, NEW o \in BOOLEAN, ReadRow(r, p, op, o),
             op \in {"approve", "reject"} => row[p].status = "submitted",
             op = "markpaid" => row[p].status # "paid"
      PROVE  Justified'
  <2> DEFINE q == [pc |-> "write", op |-> op, who |-> p, seen |-> row[p], owes |-> o]
  <2>1. JustifiedState(q)
    BY <1>1 DEF JustifiedState
  <2>2. GoTo(r, q)
    BY <1>1 DEF ReadRow
  <2> HIDE DEF q
  <2> QED BY <2>1, <2>2, GoToJustified
<1>2. ASSUME NEW p \in People,
             \/ ApproveRead(r, p) \/ BulkApproveRead(r, p) \/ RejectRead(r, p) \/ MarkPaidRead(r, p)
             \/ ReminderRead(r, p) \/ RenameRead(r, p)
      PROVE  Justified'
  BY <1>1, <1>2 DEF ApproveRead, BulkApproveRead, RejectRead, MarkPaidRead, ReminderRead, RenameRead, Ops
<1>3. CASE UpdateParticipant(r)
  BY <1>3, GoToStepJustified DEF UpdateParticipant, Steps
<1>4. CASE ParticipantUpdate(r)
  <2>1. \A found \in BOOLEAN : \E s \in Steps : AfterUpdate(req[r], found) = At(s)
    BY DEF AfterUpdate, Steps
  <2> QED BY <1>4, <2>1, GoToStepJustified DEF ParticipantUpdate
<1> QED BY <1>2, <1>3, <1>4 DEF DecisionStep

LEMMA JustifiedOther ==
  ASSUME TypeOK, Justified, NEW r \in Requests,
         SubmitStep(r) \/ SessionStep(r) \/ MemberStep(r) \/ Fail(r)
  PROVE  Justified'
<1>1. ASSUME NEW p \in People, NEW f \in Proofs, SubmitRead(r, p, f) PROVE Justified'
  <2> DEFINE q == [pc |-> "submit", who |-> p, proof |-> f]
  <2>1. JustifiedState(q) /\ GoTo(r, q)
    BY <1>1 DEF JustifiedState, SubmitRead
  <2> HIDE DEF q
  <2> QED BY <2>1, GoToJustified
<1>2. ASSUME NEW t, NEW n, ReadSession(r, t, n),
             t = session \/ (session = "active" /\ t = "cancelled")
      PROVE  Justified'
  <2> DEFINE q == [pc |-> "save", seen |-> session, status |-> t, then |-> n]
  <2>1. JustifiedState(q) /\ GoTo(r, q)
    BY <1>2 DEF JustifiedState, ReadSession
  <2> HIDE DEF q
  <2> QED BY <2>1, GoToJustified
<1>3. CASE \/ CancelSession(r) \/ UpdateSession(r) \/ UpdateBillItem(r)
           \/ DeleteBillItem(r) \/ CalculateSplits(r)
  BY <1>2, <1>3
  DEF CancelSession, UpdateSession, UpdateBillItem, DeleteBillItem, CalculateSplits
<1>4. CASE SessionUpdate(r)
  <2>1. req[r].then \in Steps
    BY <1>4, RequestFields DEF SessionUpdate, Steps, TypeOK, RequestsOK
  <2> QED BY <1>4, <2>1, GoToStepJustified DEF SessionUpdate
<1>5. CASE \E p \in People : Create(r, p)
  BY <1>5 DEF Create, Justified, JustifiedState
<1>6. CASE \/ MarkSubmittedWithProof(r) \/ CompleteIfAllPaid(r) \/ AddParticipants(r)
           \/ ImportFromGroup(r) \/ AddEnds(r) \/ RemoveParticipant(r)
           \/ (\E p \in People : Delete(r, p)) \/ Return(r) \/ Fail(r)
  <2>1. \E s \in Steps : GoTo(r, At(s))
    BY <1>6 DEF MarkSubmittedWithProof, CompleteIfAllPaid, AddParticipants, ImportFromGroup,
                AddEnds, RemoveParticipant, Delete, Return, Fail, Steps
  <2> QED BY <2>1, GoToStepJustified
<1> QED BY <1>1, <1>3, <1>4, <1>5, <1>6 DEF SubmitStep, SessionStep, MemberStep

LEMMA JustifiedNext == TypeOK /\ Justified /\ [Next]_vars => Justified'
<1>1. ASSUME TypeOK, Justified, UNCHANGED vars PROVE Justified'
  BY <1>1 DEF vars, Justified, JustifiedState
<1> QED BY <1>1, JustifiedDecision, JustifiedOther DEF Next

\* What a request is about to store follows from what it read.
THEOREM SnapshotsJustified == Spec => []Justified
<1>1. Init => Justified
  BY DEF Init, Justified, JustifiedState, At
<1> QED BY <1>1, TypeInit, TypeNext, JustifiedNext, PTL DEF Spec

-----------------------------------------------------------------------------
\* The two halves of EvidenceConsistent.
RowsConsistent == \A p \in Present : Consistent(row[p], accepted[p])
SnapshotsConsistent == \A r \in Requests :
  req[r].pc = "write" => Consistent(req[r].seen, accepted[req[r].who])

EvidenceInv == TypeOK /\ Justified /\ RowsConsistent /\ SnapshotsConsistent

\* A decision taken on a consistent row leaves it consistent.
LEMMA DecidedConsistent ==
  ASSUME NEW x \in Row, NEW S, Consistent(x, S), NEW op \in Ops,
         op \in {"approve", "reject"} => x.status = "submitted"
  PROVE  Consistent(Decided(op, x), S)
<1>1. CASE op = "approve"
  <2>1. Decided(op, x) = [x EXCEPT !.status = "paid", !.manual = FALSE]
    BY <1>1 DEF Decided
  <2>2. Decided(op, x).status = "paid" /\ Decided(op, x).manual = FALSE /\ Decided(op, x).proof = x.proof
    BY <2>1 DEF Row
  <2> QED BY <1>1, <2>2 DEF Consistent
<1>2. CASE op = "reject"
  <2>1. Decided(op, x) = [x EXCEPT !.status = "rejected", !.proof = NoProof]
    BY <1>2 DEF Decided
  <2>2. Decided(op, x).status = "rejected" /\ Decided(op, x).proof = NoProof /\ Decided(op, x).manual = x.manual
    BY <2>1 DEF Row
  <2> QED BY <1>2, <2>2 DEF Consistent
<1>3. CASE op = "markpaid"
  BY <1>3 DEF Decided, Consistent
<1>4. CASE op = "touch"
  BY <1>4 DEF Decided
<1> QED BY <1>1, <1>2, <1>3, <1>4 DEF Ops

\* Accepted images only accumulate, which disturbs no row.
LEMMA ConsistentGrows ==
  ASSUME NEW x, NEW S, NEW T, S \subseteq T, Consistent(x, S)
  PROVE  Consistent(x, T)
  BY DEF Consistent

LEMMA SnapshotsKept ==
  ASSUME TypeOK, SnapshotsConsistent, NEW r \in Requests, NEW q, GoTo(r, q),
         q.pc = "write" => Consistent(q.seen, accepted'[q.who]),
         \A p \in People : accepted[p] \subseteq accepted'[p]
  PROVE  SnapshotsConsistent'
<1> SUFFICES ASSUME NEW x \in Requests, req'[x].pc = "write"
             PROVE  Consistent(req'[x].seen, accepted'[req'[x].who])
  BY DEF SnapshotsConsistent, Consistent
<1>1. CASE x = r
  BY <1>1 DEF GoTo, TypeOK, RequestsOK
<1>2. CASE x # r
  <2>1. req'[x] = req[x] /\ req[x] \in Request
    BY <1>2 DEF GoTo, TypeOK, RequestsOK
  <2>2. req[x].who \in People /\ Consistent(req[x].seen, accepted[req[x].who])
    BY <2>1, RequestFields DEF SnapshotsConsistent
  <2> QED BY <2>1, <2>2, ConsistentGrows
<1> QED BY <1>1, <1>2

LEMMA EvidenceDecision ==
  ASSUME EvidenceInv, NEW r \in Requests, DecisionStep(r)
  PROVE  RowsConsistent' /\ SnapshotsConsistent'
<1> USE DEF EvidenceInv, rowVars
<1>1. ASSUME NEW p \in People, NEW op \in Ops, NEW o \in BOOLEAN, ReadRow(r, p, op, o)
      PROVE  RowsConsistent' /\ SnapshotsConsistent'
  <2> DEFINE q == [pc |-> "write", op |-> op, who |-> p, seen |-> row[p], owes |-> o]
  <2>1. UNCHANGED <<row, accepted>> /\ GoTo(r, q) /\ p \in Present
    BY <1>1 DEF ReadRow
  <2>2. Consistent(q.seen, accepted'[q.who])
    BY <2>1 DEF RowsConsistent
  <2>3. RowsConsistent'
    BY <2>1 DEF RowsConsistent, Present, Consistent
  <2> HIDE DEF q
  <2> QED BY <2>1, <2>2, <2>3, SnapshotsKept
<1>2. ASSUME NEW p \in People,
             \/ ApproveRead(r, p) \/ BulkApproveRead(r, p) \/ RejectRead(r, p) \/ MarkPaidRead(r, p)
             \/ ReminderRead(r, p) \/ RenameRead(r, p)
      PROVE  RowsConsistent' /\ SnapshotsConsistent'
  BY <1>1, <1>2 DEF ApproveRead, BulkApproveRead, RejectRead, MarkPaidRead, ReminderRead, RenameRead, Ops
<1>3. CASE UpdateParticipant(r)
  <2>1. UNCHANGED <<row, accepted>> /\ GoTo(r, At("rename"))
    BY <1>3 DEF UpdateParticipant
  <2>2. At("rename").pc # "write"
    BY DEF At
  <2>3. RowsConsistent'
    BY <2>1 DEF RowsConsistent, Present, Consistent
  <2> QED BY <2>1, <2>2, <2>3, SnapshotsKept
<1>4. CASE ParticipantUpdate(r)
  <2> DEFINE w == req[r]
  <2>1. w.pc = "write" /\ w.op \in Ops /\ w.who \in People /\ w.seen \in Row
    BY <1>4, RequestFields DEF ParticipantUpdate, TypeOK, RequestsOK
  <2>2. Consistent(Decided(w.op, w.seen), accepted[w.who])
    <3>1. w.op \in {"approve", "reject"} => w.seen.status = "submitted"
      BY <2>1 DEF Justified, JustifiedState
    <3>2. Consistent(w.seen, accepted[w.who])
      BY <2>1 DEF SnapshotsConsistent
    <3> QED BY <2>1, <3>1, <3>2, DecidedConsistent
  <2>3. accepted' = accepted
    BY <1>4 DEF ParticipantUpdate
  <2>4. \A p \in People : row'[p] = row[p] \/ (p = w.who /\ row'[p] = Decided(w.op, w.seen))
    BY <1>4, <2>1 DEF ParticipantUpdate, TypeOK
  <2>5. \A p \in People : row'[p].status \in PaymentStatus => Consistent(row'[p], accepted'[p])
    BY <2>2, <2>3, <2>4 DEF RowsConsistent, Present
  <2>6. RowsConsistent'
    BY <2>5 DEF RowsConsistent, Present, Consistent
  <2>7. \E s \in Steps : GoTo(r, At(s))
    BY <1>4 DEF ParticipantUpdate, AfterUpdate, Steps
  <2>8. \A s \in Steps : At(s).pc # "write"
    BY DEF At, Steps
  <2> QED BY <2>3, <2>6, <2>7, <2>8, SnapshotsKept
<1> QED BY <1>2, <1>3, <1>4 DEF DecisionStep

LEMMA EvidenceSubmit ==
  ASSUME EvidenceInv, NEW r \in Requests, SubmitStep(r)
  PROVE  RowsConsistent' /\ SnapshotsConsistent'
<1> USE DEF EvidenceInv, rowVars
<1>1. ASSUME NEW p \in People, NEW f \in Proofs, SubmitRead(r, p, f)
      PROVE  RowsConsistent' /\ SnapshotsConsistent'
  <2> DEFINE q == [pc |-> "submit", who |-> p, proof |-> f]
  <2>1. UNCHANGED <<row, accepted>> /\ GoTo(r, q) /\ q.pc # "write"
    BY <1>1 DEF SubmitRead
  <2>2. RowsConsistent'
    BY <2>1 DEF RowsConsistent, Present, Consistent
  <2> HIDE DEF q
  <2> QED BY <2>1, <2>2, SnapshotsKept
<1>2. CASE MarkSubmittedWithProof(r)
  <2> DEFINE s == req[r]
  <2>1. s.who \in People /\ s.proof \in Proofs
    BY <1>2, RequestFields DEF MarkSubmittedWithProof, TypeOK, RequestsOK
  <2>2. GoTo(r, At("idle")) /\ At("idle").pc # "write"
    BY <1>2 DEF MarkSubmittedWithProof, At
  <2>3. CASE Claimed(s.who)
    <3>1. row[s.who] \in Row /\ Consistent(row[s.who], accepted[s.who]) /\ row[s.who].status = "pending"
      BY <2>1, <2>3, RowTypes DEF Claimed, RowsConsistent, Present, TypeOK, PaymentStatus
    <3> DEFINE y == [row[s.who] EXCEPT !.status = "submitted", !.proof = s.proof]
    <3>2. y.status = "submitted" /\ y.proof = s.proof /\ y.manual = row[s.who].manual
      BY <3>1 DEF Row
    <3>3. row' = [row EXCEPT ![s.who] = y] /\ accepted' = [accepted EXCEPT ![s.who] = @ \cup {s.proof}]
      BY <1>2, <2>1, <2>3 DEF MarkSubmittedWithProof, TypeOK
    <3> HIDE DEF y
    <3>4. accepted'[s.who] = accepted[s.who] \cup {s.proof} /\ row'[s.who] = y
      BY <2>1, <3>3 DEF TypeOK
    <3>5. Consistent(y, accepted'[s.who])
      BY <3>1, <3>2, <3>4 DEF Consistent
    <3>6. \A p \in People \ {s.who} : row'[p] = row[p] /\ accepted'[p] = accepted[p]
      BY <2>1, <3>3 DEF TypeOK
    <3>7. \A p \in People : row'[p].status \in PaymentStatus => Consistent(row'[p], accepted'[p])
      BY <3>4, <3>5, <3>6 DEF RowsConsistent, Present
    <3>8. RowsConsistent'
      BY <3>7 DEF RowsConsistent, Present, Consistent
    <3>9. \A p \in People : accepted[p] \subseteq accepted'[p]
      BY <3>4, <3>6
    <3> QED BY <2>2, <3>8, <3>9, SnapshotsKept
  <2>4. CASE ~Claimed(s.who)
    <3>1. UNCHANGED <<row, accepted>>
      BY <1>2, <2>4 DEF MarkSubmittedWithProof
    <3>2. RowsConsistent'
      BY <3>1 DEF RowsConsistent, Present, Consistent
    <3> QED BY <2>2, <3>1, <3>2, SnapshotsKept
  <2> QED BY <2>3, <2>4
<1> QED BY <1>1, <1>2 DEF SubmitStep

LEMMA EvidenceOther ==
  ASSUME EvidenceInv, NEW r \in Requests, SessionStep(r) \/ MemberStep(r) \/ Fail(r)
  PROVE  RowsConsistent' /\ SnapshotsConsistent'
<1> USE DEF EvidenceInv, rowVars
<1>1. ASSUME NEW t, NEW n, ReadSession(r, t, n)
      PROVE  UNCHANGED <<row, accepted>> /\ \E q : GoTo(r, q) /\ q.pc # "write"
  <2> DEFINE q == [pc |-> "save", seen |-> session, status |-> t, then |-> n]
  <2>1. UNCHANGED <<row, accepted>> /\ GoTo(r, q) /\ q.pc # "write"
    BY <1>1 DEF ReadSession
  <2> QED BY <2>1
<1>2. CASE SessionStep(r)
  <2>1. CASE \/ CancelSession(r) \/ UpdateSession(r) \/ UpdateBillItem(r)
             \/ DeleteBillItem(r) \/ CalculateSplits(r)
    <3>1. UNCHANGED <<row, accepted>> /\ \E q : GoTo(r, q) /\ q.pc # "write"
      BY <1>1, <2>1
      DEF CancelSession, UpdateSession, UpdateBillItem, DeleteBillItem, CalculateSplits
    <3>2. RowsConsistent'
      BY <3>1 DEF RowsConsistent, Present, Consistent
    <3> QED BY <3>1, <3>2, SnapshotsKept
  <2>2. CASE CompleteIfAllPaid(r) \/ SessionUpdate(r)
    <3>1. UNCHANGED <<row, accepted>> /\ \E s \in Steps : GoTo(r, At(s))
      BY <2>2, RequestFields DEF CompleteIfAllPaid, SessionUpdate, Steps, TypeOK, RequestsOK
    <3>2. RowsConsistent'
      BY <3>1 DEF RowsConsistent, Present, Consistent
    <3>3. \A s \in Steps : At(s).pc # "write"
      BY DEF At, Steps
    <3> QED BY <3>1, <3>2, <3>3, SnapshotsKept
  <2> QED BY <1>2, <2>1, <2>2 DEF SessionStep
<1>3. CASE \/ AddParticipants(r) \/ ImportFromGroup(r) \/ AddEnds(r)
           \/ RemoveParticipant(r) \/ Return(r) \/ Fail(r)
  <2>1. UNCHANGED <<row, accepted>> /\ \E s \in Steps : GoTo(r, At(s))
    BY <1>3
    DEF AddParticipants, ImportFromGroup, AddEnds, RemoveParticipant, Return, Fail, Steps
  <2>2. RowsConsistent'
    BY <2>1 DEF RowsConsistent, Present, Consistent
  <2>3. \A s \in Steps : At(s).pc # "write"
    BY DEF At, Steps
  <2> QED BY <2>1, <2>2, <2>3, SnapshotsKept
<1>4. ASSUME NEW p \in People, NEW st, st \in {"pending", "removed"},
             row' = [row EXCEPT ![p] = Blank(st)], accepted' = accepted
      PROVE  RowsConsistent'
  <2>1. Consistent(Blank(st), accepted[p])
    BY <1>4 DEF Consistent, Blank
  <2>2. \A x \in People : row'[x] = row[x] \/ (x = p /\ row'[x] = Blank(st))
    BY <1>4 DEF TypeOK
  <2>3. \A x \in People : row'[x].status \in PaymentStatus => Consistent(row'[x], accepted'[x])
    BY <1>4, <2>1, <2>2 DEF RowsConsistent, Present
  <2> QED BY <2>3 DEF RowsConsistent, Present, Consistent
<1>5. ASSUME NEW p \in People, Create(r, p) PROVE RowsConsistent' /\ SnapshotsConsistent'
  <2>1. RowsConsistent'
    BY <1>4, <1>5 DEF Create
  <2> QED BY <1>5, <2>1 DEF Create, SnapshotsConsistent, Consistent
<1>6. ASSUME NEW p \in People, Delete(r, p) PROVE RowsConsistent' /\ SnapshotsConsistent'
  <2>1. RowsConsistent'
    BY <1>4, <1>6 DEF Delete
  <2>2. accepted' = accepted /\ GoTo(r, At("splits")) /\ At("splits").pc # "write"
    BY <1>6 DEF Delete, At
  <2> QED BY <2>1, <2>2, SnapshotsKept
<1> QED BY <1>2, <1>3, <1>5, <1>6 DEF MemberStep

LEMMA EvidenceNext == EvidenceInv /\ [Next]_vars => EvidenceInv'
<1>1. ASSUME EvidenceInv, NEW r \in Requests,
             DecisionStep(r) \/ SubmitStep(r) \/ SessionStep(r) \/ MemberStep(r) \/ Fail(r)
      PROVE  RowsConsistent' /\ SnapshotsConsistent'
  BY <1>1, EvidenceDecision, EvidenceSubmit, EvidenceOther
<1>2. ASSUME EvidenceInv, UNCHANGED vars PROVE RowsConsistent' /\ SnapshotsConsistent'
  BY <1>2 DEF EvidenceInv, vars, rowVars, RowsConsistent, SnapshotsConsistent, Present, Consistent
<1>3. ASSUME EvidenceInv, [Next]_vars PROVE RowsConsistent' /\ SnapshotsConsistent'
  BY <1>1, <1>2, <1>3 DEF Next
<1>4. ASSUME EvidenceInv, [Next]_vars PROVE TypeOK' /\ Justified'
  BY <1>4, TypeNext, JustifiedNext DEF EvidenceInv
<1> QED BY <1>3, <1>4 DEF EvidenceInv

LEMMA EvidenceInit == Init => EvidenceInv
<1>1. Init => Justified /\ SnapshotsConsistent
  BY DEF Init, Justified, JustifiedState, SnapshotsConsistent, At
<1>2. Init => RowsConsistent
  BY DEF Init, RowsConsistent, Present, Blank, PaymentStatus
<1> QED BY <1>1, <1>2, TypeInit DEF EvidenceInv

\* A payment is closed either by hand and without a proof or by a proof that was
\* accepted for this participant, in every row and every snapshot: the full-row
\* updates of the payment use cases, served together, may lose a decision but
\* never store half of one and half of another.
THEOREM EvidenceKept == Spec => []EvidenceConsistent
<1>1. EvidenceInv => EvidenceConsistent
  BY DEF EvidenceInv, RowsConsistent, SnapshotsConsistent, EvidenceConsistent
<1> QED BY <1>1, EvidenceInit, EvidenceNext, PTL DEF Spec

-----------------------------------------------------------------------------
\* What a step may do to one participant's row and accepted images.
RowEffect(p) ==
  \/ UNCHANGED <<row[p], accepted[p]>>
  \/ row[p].status = "absent" /\ row'[p].status = "pending" /\ UNCHANGED accepted[p]
  \/ row'[p].status = "removed" /\ UNCHANGED accepted[p]
  \/ /\ row[p].status = "pending" /\ row'[p].status = "submitted"
     /\ \E f \in Proofs : accepted'[p] = accepted[p] \cup {f}
  \/ /\ row'[p].status \in PaymentStatus /\ UNCHANGED accepted[p]
     /\ p \in rowsLost' \/ row'[p].status \in {"paid", "rejected"}

LEMMA RowEffects ==
  ASSUME TypeOK, [Next]_vars
  PROVE  rowsLost \subseteq rowsLost' /\ \A p \in People : RowEffect(p)
<1> USE DEF rowVars, sessVars
<1>1. ASSUME UNCHANGED <<row, accepted, rowsLost>>
      PROVE  rowsLost \subseteq rowsLost' /\ \A p \in People : RowEffect(p)
  BY <1>1 DEF RowEffect
<1>2. ASSUME NEW r \in Requests, ParticipantUpdate(r)
      PROVE  rowsLost \subseteq rowsLost' /\ \A p \in People : RowEffect(p)
  <2> DEFINE w == req[r]
  <2>1. w.pc = "write" /\ w.op \in Ops /\ w.who \in People /\ w.seen \in Row
    BY <1>2, RequestFields DEF ParticipantUpdate, TypeOK, RequestsOK
  <2>2. accepted' = accepted /\ rowsLost \subseteq rowsLost'
    BY <1>2 DEF ParticipantUpdate
  <2>3. \/ row' = row
        \/ /\ row' = [row EXCEPT ![w.who] = Decided(w.op, w.seen)]
           /\ row[w.who] = w.seen \/ w.who \in rowsLost'
    BY <1>2 DEF ParticipantUpdate
  <2>4. Decided(w.op, w.seen) \in Row
    BY <2>1, RowTypes
  <2>5. w.op # "touch" => Decided(w.op, w.seen).status \in {"paid", "rejected"}
    BY <2>1 DEF Decided, Ops, Row
  <2>6. w.op = "touch" => Decided(w.op, w.seen) = w.seen
    BY DEF Decided
  <2>7. ASSUME NEW p \in People PROVE RowEffect(p)
    <3>1. CASE row'[p] = row[p]
      BY <2>2, <3>1 DEF RowEffect
    <3>2. CASE row'[p] # row[p]
      <4>1. p = w.who /\ row'[p] = Decided(w.op, w.seen) /\ (row[p] = w.seen \/ p \in rowsLost')
        BY <2>1, <2>3, <3>2 DEF TypeOK
      <4>2. row'[p].status \in PaymentStatus
        BY <2>4, <4>1 DEF Row
      <4>3. p \in rowsLost' \/ row'[p].status \in {"paid", "rejected"}
        BY <2>5, <2>6, <3>2, <4>1
      <4> QED  BY <2>2, <4>2, <4>3 DEF RowEffect
    <3> QED  BY <3>1, <3>2
  <2> QED  BY <2>2, <2>7
<1>3. ASSUME NEW r \in Requests, MarkSubmittedWithProof(r)
      PROVE  rowsLost \subseteq rowsLost' /\ \A p \in People : RowEffect(p)
  <2> DEFINE s == req[r]
  <2>1. s.who \in People /\ s.proof \in Proofs
    BY <1>3, RequestFields DEF MarkSubmittedWithProof, TypeOK, RequestsOK
  <2>2. CASE Claimed(s.who)
    <3>1. row[s.who] \in Row /\ row[s.who].status = "pending"
      BY <2>1, <2>2, RowTypes DEF Claimed, PaymentStatus, TypeOK
    <3> DEFINE y == [row[s.who] EXCEPT !.status = "submitted", !.proof = s.proof]
    <3>2. y.status = "submitted"
      BY <3>1 DEF Row
    <3>3. row' = [row EXCEPT ![s.who] = y] /\ accepted' = [accepted EXCEPT ![s.who] = @ \cup {s.proof}]
      BY <1>3, <2>1, <2>2 DEF MarkSubmittedWithProof, TypeOK
    <3> HIDE DEF y
    <3>4. \A p \in People \ {s.who} : row'[p] = row[p] /\ accepted'[p] = accepted[p]
      BY <3>3 DEF TypeOK
    <3>5. row'[s.who] = y /\ accepted'[s.who] = accepted[s.who] \cup {s.proof}
      BY <2>1, <3>3 DEF TypeOK
    <3> QED  BY <1>3, <2>1, <3>1, <3>2, <3>4, <3>5 DEF RowEffect, MarkSubmittedWithProof
  <2>3. CASE ~Claimed(s.who)
    BY <1>1, <1>3, <2>3 DEF MarkSubmittedWithProof
  <2> QED  BY <2>2, <2>3
<1>4. ASSUME NEW r \in Requests, NEW o \in People, Create(r, o) \/ Delete(r, o)
      PROVE  rowsLost \subseteq rowsLost' /\ \A p \in People : RowEffect(p)
  <2>1. UNCHANGED <<accepted, rowsLost>> /\ \A p \in People \ {o} : row'[p] = row[p]
    BY <1>4 DEF Create, Delete, TypeOK
  <2>2. \/ row[o].status = "absent" /\ row'[o].status = "pending"
        \/ row'[o].status = "removed"
    BY <1>4 DEF Create, Delete, Blank, TypeOK
  <2> QED  BY <2>1, <2>2 DEF RowEffect
<1>5. ASSUME NEW r \in Requests, DecisionStep(r), ~ParticipantUpdate(r) PROVE UNCHANGED <<row, accepted, rowsLost>>
  BY <1>5 DEF DecisionStep, ReadRow, ApproveRead, BulkApproveRead, RejectRead, MarkPaidRead, ReminderRead,
              RenameRead, UpdateParticipant
<1>6. ASSUME NEW r \in Requests, SubmitStep(r), ~MarkSubmittedWithProof(r) PROVE UNCHANGED <<row, accepted, rowsLost>>
  BY <1>6 DEF SubmitStep, SubmitRead
<1>7. ASSUME NEW r \in Requests, SessionStep(r) \/ Fail(r) PROVE UNCHANGED <<row, accepted, rowsLost>>
  BY <1>7 DEF SessionStep, CompleteIfAllPaid, ReadSession, CancelSession, UpdateSession, UpdateBillItem,
              DeleteBillItem, CalculateSplits, SessionUpdate, Fail
<1>8. ASSUME NEW r \in Requests, MemberStep(r), ~\E o \in People : Create(r, o) \/ Delete(r, o)
      PROVE  UNCHANGED <<row, accepted, rowsLost>>
  BY <1>8 DEF MemberStep, AddParticipants, ImportFromGroup, AddEnds, RemoveParticipant, Return
<1>9. CASE UNCHANGED vars
  BY <1>1, <1>9 DEF vars
<1> HIDE DEF rowVars, sessVars
<1> QED
  BY <1>1, <1>2, <1>3, <1>4, <1>5, <1>6, <1>7, <1>8, <1>9, Zenon DEF Next

\* Nothing was accepted for whoever is yet to join or, but for old snapshots,
\* still owes; never two images.
SubmitInvariant == \A p \in People :
  /\ row[p].status = "absent" => accepted[p] = {}
  /\ p \notin rowsLost => /\ row[p].status = "pending" => accepted[p] = {}
                          /\ \A f, g \in accepted[p] : f = g

LEMMA SubmitNext == TypeOK /\ SubmitInvariant /\ [Next]_vars => SubmitInvariant'
<1> SUFFICES ASSUME TypeOK, SubmitInvariant, [Next]_vars, NEW p \in People
             PROVE  /\ row'[p].status = "absent" => accepted'[p] = {}
                    /\ p \notin rowsLost' => /\ row'[p].status = "pending" => accepted'[p] = {}
                                             /\ \A f, g \in accepted'[p] : f = g
  BY DEF SubmitInvariant
<1>1. RowEffect(p) /\ (p \notin rowsLost' => p \notin rowsLost)
  BY RowEffects
<1> QED  BY <1>1 DEF SubmitInvariant, RowEffect, PaymentStatus

LEMMA AtMostOne ==
  ASSUME NEW S, \A f, g \in S : f = g
  PROVE  Cardinality(S) <= 1
<1>1. CASE S = {}
  BY <1>1, FS_EmptySet
<1>2. CASE S # {}
  <2>1. PICK x : S = {x}
    BY <1>2
  <2> QED  BY <2>1, FS_Singleton
<1> QED  BY <1>1, <1>2

\* Simultaneous submits: one wins, and nobody submits again, unless an update
\* of the row from an old snapshot put it back to 'pending'.
THEOREM OneProofWins == Spec => []OneProofAccepted
<1>1. Init => SubmitInvariant
  BY DEF Init, SubmitInvariant, Blank
<1>2. SubmitInvariant => OneProofAccepted
  BY AtMostOne DEF SubmitInvariant, OneProofAccepted
<1> QED  BY <1>1, <1>2, SubmitNext, TypeInit, TypeNext, PTL DEF Spec

-----------------------------------------------------------------------------
\* Everybody is paid, by approvals alone, and the session is still open.
AllApproved ==
  /\ session = "active" /\ Present # {} /\ AllPaid
  /\ \A p \in People : ~row[p].manual /\ row[p].status # "removed"
  /\ faults = 0 /\ rowsLost = {} /\ ~sessionLost

\* A request that leaves the participants alone keeps what others owe.
LEMMA OthersOwe ==
  ASSUME TypeOK, ApprovalsComplete, AllApproved', NEW r \in Requests, NEW q, GoTo(r, q),
         UNCHANGED <<row, session>>, faults = 0, rowsLost = {}, ~sessionLost,
         Owes(r) => q.pc = "complete" \/ (q.pc = "write" /\ q.owes)
  PROVE  \E x \in Requests : Owes(x)'
<1>1. AllApproved
  BY DEF AllApproved, AllPaid, Present
<1>2. PICK x \in Requests : Owes(x)
  BY <1>1 DEF ApprovalsComplete, AllApproved
<1>3. req'[r] = q /\ (x # r => req'[x] = req[x])
  BY DEF GoTo, TypeOK, RequestsOK
<1>4. CASE x = r
  BY <1>2, <1>3, <1>4 DEF Owes
<1>5. CASE x # r
  BY <1>2, <1>3, <1>5 DEF Owes
<1> QED  BY <1>4, <1>5

LEMMA ApprovalsNext == TypeOK /\ Justified /\ ApprovalsComplete /\ [Next]_vars => ApprovalsComplete'
<1> USE DEF rowVars, sessVars
<1> SUFFICES ASSUME TypeOK, Justified, ApprovalsComplete, [Next]_vars, AllApproved'
             PROVE  \E x \in Requests : Owes(x)'
  BY DEF ApprovalsComplete, AllApproved, AllPaid, Present, Owes
<1>0. faults \in Nat /\ sessionLost' = FALSE /\ faults' = 0 /\ rowsLost' = {} /\ session' = "active"
  BY PaymentAssumption DEF AllApproved, TypeOK, PaymentAssumption
<1>1. ASSUME NEW r \in Requests, NEW p \in People, NEW op, NEW o, ReadRow(r, p, op, o),
             Owes(r) => o
      PROVE  \E x \in Requests : Owes(x)'
  <2> DEFINE q == [pc |-> "write", op |-> op, who |-> p, seen |-> row[p], owes |-> o]
  <2>1. GoTo(r, q) /\ UNCHANGED <<row, session>> /\ faults = 0 /\ rowsLost = {} /\ ~sessionLost
    BY <1>0, <1>1 DEF ReadRow
  <2>2. Owes(r) => q.pc = "write" /\ q.owes
    BY <1>1
  <2> HIDE DEF q
  <2> QED  BY <2>1, <2>2, OthersOwe
<1>2. ASSUME NEW r \in Requests, NEW p \in People,
             \/ ApproveRead(r, p) \/ BulkApproveRead(r, p) \/ RejectRead(r, p) \/ MarkPaidRead(r, p)
             \/ ReminderRead(r, p) \/ RenameRead(r, p)
      PROVE  \E x \in Requests : Owes(x)'
  BY <1>1, <1>2 DEF ApproveRead, BulkApproveRead, RejectRead, MarkPaidRead, ReminderRead, RenameRead, Owes
<1>3. ASSUME NEW r \in Requests, ParticipantUpdate(r) PROVE \E x \in Requests : Owes(x)'
  <2> DEFINE w == req[r]
  <2>1. w.pc = "write" /\ w.op \in Ops /\ w.who \in People /\ w.seen \in Row /\ w.owes \in BOOLEAN
    BY <1>3, RequestFields DEF ParticipantUpdate, TypeOK, RequestsOK
  <2>2. UNCHANGED session /\ faults = 0 /\ rowsLost = {} /\ ~sessionLost
    <3>1. UNCHANGED <<session, sessionLost, faults>>
      BY <1>3 DEF ParticipantUpdate
    <3>2. rowsLost \subseteq rowsLost'
      BY RowEffects
    <3> QED  BY <1>0, <3>1, <3>2
  <2>3. \/ /\ row' = [row EXCEPT ![w.who] = Decided(w.op, w.seen)] /\ row[w.who] = w.seen
           /\ w.who \in Present /\ GoTo(r, AfterUpdate(w, TRUE))
        \/ UNCHANGED row /\ GoTo(r, AfterUpdate(w, FALSE))
    BY <1>0, <1>3 DEF ParticipantUpdate
  <2>4. ASSUME GoTo(r, At("complete")) PROVE \E x \in Requests : Owes(x)'
    BY <2>4 DEF GoTo, At, Owes, TypeOK, RequestsOK
  <2>5. CASE w.owes
    BY <2>3, <2>4, <2>5 DEF AfterUpdate
  <2>6. CASE ~w.owes /\ row' = row
    <3>1. \E q : GoTo(r, q)
      BY <2>3
    <3>2. ~Owes(r)
      BY <2>1, <2>6 DEF Owes
    <3> QED  BY <2>2, <2>6, <3>1, <3>2, OthersOwe
  <2>7. CASE ~w.owes /\ row' # row
    <3>1. /\ row' = [row EXCEPT ![w.who] = Decided(w.op, w.seen)] /\ row[w.who] = w.seen
          /\ GoTo(r, AfterUpdate(w, TRUE))
      BY <2>3, <2>7
    <3>2. row'[w.who] = Decided(w.op, w.seen)
      BY <2>1, <3>1 DEF TypeOK
    <3>3. CASE w.op = "approve"
      BY <2>4, <3>1, <3>3 DEF AfterUpdate
    <3>4. CASE w.op = "reject"
      <4>1. row'[w.who].status = "rejected"
        BY <2>1, <3>2, <3>4 DEF Decided, Row
      <4> QED  BY <2>1, <4>1 DEF AllApproved, AllPaid, Present, PaymentStatus
    <3>5. CASE w.op = "markpaid"
      <4>1. row'[w.who].manual = TRUE
        BY <3>2, <3>5 DEF Decided
      <4> QED  BY <2>1, <4>1 DEF AllApproved
    <3>6. CASE w.op = "touch"
      <4>1. row' = row
        BY <2>1, <3>1, <3>6 DEF Decided, TypeOK
      <4> QED  BY <2>7, <4>1
    <3> QED  BY <2>1, <3>3, <3>4, <3>5, <3>6 DEF Ops
  <2> QED  BY <2>1, <2>5, <2>6, <2>7
<1>4. ASSUME NEW r \in Requests, NEW q, GoTo(r, q), ~Owes(r), UNCHANGED <<row, session, faults, rowsLost, sessionLost>>
      PROVE  \E x \in Requests : Owes(x)'
  BY <1>0, <1>4, OthersOwe
<1>5. ASSUME NEW r \in Requests, NEW f \in Proofs, NEW p \in People, SubmitRead(r, p, f)
      PROVE  \E x \in Requests : Owes(x)'
  BY <1>4, <1>5 DEF SubmitRead, Owes
<1>6. ASSUME NEW r \in Requests, UpdateParticipant(r) PROVE \E x \in Requests : Owes(x)'
  BY <1>4, <1>6 DEF UpdateParticipant, Owes
<1>7. ASSUME NEW r \in Requests, MarkSubmittedWithProof(r) PROVE \E x \in Requests : Owes(x)'
  <2> DEFINE s == req[r]
  <2>1. s.who \in People
    BY <1>7, RequestFields DEF MarkSubmittedWithProof, TypeOK, RequestsOK
  <2>2. CASE Claimed(s.who)
    <3>1. row[s.who] \in Row
      BY <2>1, <2>2, RowTypes DEF Claimed, PaymentStatus, TypeOK
    <3> DEFINE y == [row[s.who] EXCEPT !.status = "submitted", !.proof = s.proof]
    <3>2. y.status = "submitted"
      BY <3>1 DEF Row
    <3>3. row' = [row EXCEPT ![s.who] = y]
      BY <1>7, <2>1, <2>2 DEF MarkSubmittedWithProof, TypeOK
    <3> HIDE DEF y
    <3>4. row'[s.who].status = "submitted"
      BY <2>1, <3>2, <3>3 DEF TypeOK
    <3> QED  BY <2>1, <3>4 DEF AllApproved, AllPaid, Present, PaymentStatus
  <2>3. CASE ~Claimed(s.who)
    BY <1>4, <1>7, <2>3 DEF MarkSubmittedWithProof, Owes
  <2> QED  BY <2>2, <2>3
<1>8. ASSUME NEW r \in Requests, SessionStep(r) PROVE \E x \in Requests : Owes(x)'
  <2>1. CASE CompleteIfAllPaid(r)
    <3>1. Completable
      BY <1>0, <2>1 DEF CompleteIfAllPaid, Completable, AllApproved, AllPaid, Present
    <3> QED  BY <1>0, <2>1, <3>1 DEF CompleteIfAllPaid
  <2>2. CASE SessionUpdate(r)
    <3>1. session' = session
      <4>1. session = req[r].seen /\ session' = req[r].status
        BY <1>0, <2>2 DEF SessionUpdate
      <4> QED  BY <1>0, <2>2, <4>1 DEF SessionUpdate, Justified, JustifiedState
    <3> QED  BY <1>0, <2>2, <3>1, OthersOwe DEF SessionUpdate, Owes
  <2>3. ASSUME NEW status, NEW then, ReadSession(r, status, then), ~Owes(r)
        PROVE  \E x \in Requests : Owes(x)'
    <3>1. \E q : GoTo(r, q)
      BY <2>3 DEF ReadSession
    <3> QED  BY <1>4, <2>3, <3>1 DEF ReadSession
  <2>4. CASE \/ CancelSession(r) \/ UpdateSession(r) \/ UpdateBillItem(r)
             \/ DeleteBillItem(r) \/ CalculateSplits(r)
    BY <2>3, <2>4 DEF CancelSession, UpdateSession, UpdateBillItem, DeleteBillItem, CalculateSplits, Owes
  <2> QED  BY <1>8, <2>1, <2>2, <2>4 DEF SessionStep
<1>9. ASSUME NEW r \in Requests, MemberStep(r) PROVE \E x \in Requests : Owes(x)'
  <2>1. ASSUME NEW p \in People, Create(r, p) PROVE FALSE
    <3>1. row'[p].status = "pending"
      BY <2>1 DEF Create, Blank, TypeOK
    <3> QED  BY <3>1 DEF AllApproved, AllPaid, Present, PaymentStatus
  <2>2. ASSUME NEW p \in People, Delete(r, p) PROVE FALSE
    <3>1. row'[p].status = "removed"
      BY <2>2 DEF Delete, Blank, TypeOK
    <3> QED  BY <3>1 DEF AllApproved
  <2>3. CASE AddParticipants(r) \/ ImportFromGroup(r) \/ AddEnds(r) \/ RemoveParticipant(r) \/ Return(r)
    BY <1>4, <2>3 DEF AddParticipants, ImportFromGroup, AddEnds, RemoveParticipant, Return, Owes
  <2> QED  BY <1>9, <2>1, <2>2, <2>3 DEF MemberStep
<1>10. ASSUME NEW r \in Requests, Fail(r) PROVE FALSE
  BY <1>0, <1>10 DEF Fail
<1>11. CASE UNCHANGED vars
  BY <1>11 DEF vars, AllApproved, AllPaid, Present, ApprovalsComplete, Owes
<1> QED
  BY <1>2, <1>3, <1>5, <1>6, <1>7, <1>8, <1>9, <1>10, <1>11
  DEF Next, DecisionStep, SubmitStep

\* Approvals served together, by one or many at a time, cannot leave a session
\* whose participants are all paid without a request that will look at it.
THEOREM ApprovalsAreLookedAt == Spec => []ApprovalsComplete
<1>1. Init => ApprovalsComplete
  BY DEF Init, ApprovalsComplete, Present, Blank, PaymentStatus
<1> QED  BY <1>1, ApprovalsNext, TypeCorrect, SnapshotsJustified, PTL DEF Spec

-----------------------------------------------------------------------------
(***************************************************************************)
(* The payment lifecycle against the rules of the domain layer: every step *)
(* that stores no outdated snapshot is a step of PaymentRules, and a       *)
(* completed session has nobody left to pay.                               *)
(***************************************************************************)

\* A row that changes changes one payment.
LEMMA PaymentOfRow ==
  ASSUME TypeOK, NEW p \in People, NEW x, row' = [row EXCEPT ![p] = x]
  PROVE  [q \in People |-> row'[q].status] = [[q \in People |-> row[q].status] EXCEPT ![p] = x.status]
  BY DEF TypeOK

\* A step that leaves the rows and the session alone stutters.
LEMMA RulesStutter ==
  ASSUME UNCHANGED <<row, session>>
  PROVE  UNCHANGED Rules!vars
  BY DEF Rules!vars

\* Which changes of one row are moves of the rules.
LEMMA RowMoves ==
  ASSUME TypeOK, NEW p \in People, NEW x, row' = [row EXCEPT ![p] = x], session' = session
  PROVE  /\ row[p].status = "absent" /\ x.status = "pending" => Rules!Next
         /\ row[p].status \in PaymentStatus /\ x.status = "removed" => Rules!Next
         /\ row[p].status = "pending" /\ x.status = "submitted" => Rules!Next
         /\ row[p].status = "submitted" /\ x.status \in {"paid", "rejected"} => Rules!Next
         /\ row[p].status \in PaymentStatus \ {"paid"} /\ x.status = "paid" => Rules!Next
<1>1. Rules!Move(p, x.status)
  <2>1. [q \in People |-> row'[q].status] = [[q \in People |-> row[q].status] EXCEPT ![p] = x.status]
    BY PaymentOfRow
  <2> QED BY <2>1 DEF Rules!Move
<1>2. Rules!Join(p) \/ Rules!Leave(p) \/ Rules!UpdatePaymentStatus(p) \/ Rules!MarkPaidManually(p)
      => Rules!Next
  BY DEF Rules!Next
<1>3. ASSUME row[p].status = "absent", x.status = "pending" PROVE Rules!Join(p)
  BY <1>1, <1>3 DEF Rules!Join
<1>4. ASSUME row[p].status \in PaymentStatus, x.status = "removed" PROVE Rules!Leave(p)
  BY <1>1, <1>4 DEF Rules!Leave, Rules!PaymentStatus, PaymentStatus
<1>5. ASSUME \/ row[p].status = "pending" /\ x.status = "submitted"
             \/ row[p].status = "submitted" /\ x.status \in {"paid", "rejected"}
      PROVE  Rules!UpdatePaymentStatus(p)
  BY <1>1, <1>5 DEF Rules!UpdatePaymentStatus, Rules!CanTransitionTo, Rules!PaymentStatus
<1>6. ASSUME row[p].status \in PaymentStatus \ {"paid"}, x.status = "paid"
      PROVE  Rules!MarkPaidManually(p)
  BY <1>1, <1>6 DEF Rules!MarkPaidManually, Rules!PaymentStatus, PaymentStatus
<1> QED BY <1>2, <1>3, <1>4, <1>5, <1>6

LEMMA RulesDecision ==
  ASSUME TypeOK, Justified, NEW r \in Requests, ParticipantUpdate(r), rowsLost' = {}
  PROVE  Rules!Next \/ UNCHANGED Rules!vars
<1> DEFINE w == req[r]
           x == Decided(w.op, w.seen)
<1>1. w.pc = "write" /\ w.op \in Ops /\ w.who \in People /\ w.seen \in Row
  BY RequestFields DEF ParticipantUpdate, TypeOK, RequestsOK
<1>2. session' = session
  BY DEF ParticipantUpdate, sessVars
<1>3. CASE row' = row
  BY <1>2, <1>3, RulesStutter
<1>4. CASE row' # row
  <2>1. row' = [row EXCEPT ![w.who] = x] /\ row[w.who] = w.seen /\ row[w.who].status \in PaymentStatus
    BY <1>4, <1>1 DEF ParticipantUpdate, Present
  <2>2. CASE w.op \in {"approve", "reject"}
    <3>1. row[w.who].status = "submitted"
      BY <1>1, <2>1, <2>2 DEF Justified, JustifiedState
    <3>2. x.status \in {"paid", "rejected"}
      BY <1>1, <2>2 DEF Decided, Row
    <3> HIDE DEF x
    <3> QED BY <1>1, <1>2, <2>1, <3>1, <3>2, RowMoves
  <2>3. CASE w.op = "markpaid"
    <3>1. row[w.who].status # "paid" /\ x.status = "paid"
      BY <1>1, <2>1, <2>3 DEF Justified, JustifiedState, Decided
    <3> HIDE DEF x
    <3> QED BY <1>1, <1>2, <2>1, <3>1, RowMoves
  <2>4. CASE w.op = "touch"
    BY <1>1, <1>4, <2>1, <2>4 DEF Decided, TypeOK
  <2> QED BY <1>1, <2>2, <2>3, <2>4 DEF Ops
<1> QED BY <1>3, <1>4

LEMMA RulesSubmit ==
  ASSUME TypeOK, NEW r \in Requests, MarkSubmittedWithProof(r)
  PROVE  Rules!Next \/ UNCHANGED Rules!vars
<1> DEFINE s == req[r]
<1>1. s.who \in People /\ session' = session
  BY RequestFields DEF MarkSubmittedWithProof, TypeOK, RequestsOK, sessVars
<1>2. CASE ~Claimed(s.who)
  BY <1>1, <1>2, RulesStutter DEF MarkSubmittedWithProof
<1>3. CASE Claimed(s.who)
  <2> DEFINE x == [row[s.who] EXCEPT !.status = "submitted", !.proof = s.proof]
  <2>1. row[s.who] \in Row /\ row[s.who].status = "pending"
    BY <1>1, <1>3, RowTypes DEF Claimed, TypeOK, PaymentStatus
  <2>2. x.status = "submitted"
    BY <2>1 DEF Row
  <2>3. row' = [row EXCEPT ![s.who] = x]
    BY <1>1, <1>3 DEF MarkSubmittedWithProof, TypeOK
  <2> HIDE DEF x
  <2> QED BY <1>1, <2>1, <2>2, <2>3, RowMoves
<1> QED BY <1>2, <1>3

LEMMA RulesSession ==
  ASSUME TypeOK, Justified, NEW r \in Requests, SessionStep(r), ~sessionLost'
  PROVE  Rules!Next \/ UNCHANGED Rules!vars
<1>1. row' = row
  BY DEF SessionStep, CompleteIfAllPaid, ReadSession, CancelSession, UpdateSession, UpdateBillItem,
         DeleteBillItem, CalculateSplits, SessionUpdate, rowVars
<1>2. CASE CompleteIfAllPaid(r) /\ Completable
  <2>1. \A p \in People : row[p].status \notin PaymentStatus \ {"paid"}
    BY <1>2 DEF Completable, AllPaid, Present
  <2>2. Rules!Complete
    BY <1>1, <1>2, <2>1
    DEF CompleteIfAllPaid, Completable, Rules!Complete, Rules!SessionCanTransitionTo,
        Rules!PaymentStatus, PaymentStatus
  <2> QED BY <2>2 DEF Rules!Next
<1>3. CASE SessionUpdate(r)
  <2>1. session' = req[r].status /\ session = req[r].seen /\ req[r].pc = "save"
    BY <1>3 DEF SessionUpdate
  <2>2. session' = session \/ (session = "active" /\ session' = "cancelled")
    BY <2>1 DEF Justified, JustifiedState
  <2>3. CASE session = "active" /\ session' = "cancelled"
    BY <1>1, <2>3 DEF Rules!Cancel, Rules!SessionCanTransitionTo, Rules!Next
  <2> QED BY <1>1, <2>2, <2>3, RulesStutter
<1>4. CASE ~SessionUpdate(r) /\ ~(CompleteIfAllPaid(r) /\ Completable)
  <2>1. session' = session
    BY <1>4 DEF SessionStep, CompleteIfAllPaid, ReadSession, CancelSession, UpdateSession,
                UpdateBillItem, DeleteBillItem, CalculateSplits, sessVars
  <2> QED BY <1>1, <2>1, RulesStutter
<1> QED BY <1>2, <1>3, <1>4

LEMMA RulesMember ==
  ASSUME TypeOK, NEW r \in Requests, MemberStep(r)
  PROVE  Rules!Next \/ UNCHANGED Rules!vars
<1>1. session' = session
  BY DEF MemberStep, AddParticipants, ImportFromGroup, AddEnds, RemoveParticipant, Create,
         Delete, Return, sessVars
<1>2. \A s : Blank(s).status = s
  BY DEF Blank
<1>3. ASSUME NEW p \in People, Create(r, p) PROVE Rules!Next
  BY <1>1, <1>2, <1>3, RowMoves DEF Create
<1>4. ASSUME NEW p \in People, Delete(r, p) PROVE Rules!Next
  BY <1>1, <1>2, <1>4, RowMoves DEF Delete, Present
<1>5. CASE ~\E p \in People : Create(r, p) \/ Delete(r, p)
  <2>1. row' = row
    BY <1>5 DEF MemberStep, AddParticipants, ImportFromGroup, AddEnds, RemoveParticipant, Return,
                rowVars
  <2> QED BY <1>1, <2>1, RulesStutter
<1> QED BY <1>3, <1>4, <1>5

LEMMA RulesStep ==
  ASSUME TypeOK, Justified, [Next]_vars, rowsLost' = {}, ~sessionLost'
  PROVE  Rules!Next \/ UNCHANGED Rules!vars
<1>1. ASSUME NEW r \in Requests, DecisionStep(r) PROVE Rules!Next \/ UNCHANGED Rules!vars
  <2>1. CASE ParticipantUpdate(r)
    BY <2>1, RulesDecision
  <2>2. CASE ~ParticipantUpdate(r)
    <3>1. UNCHANGED <<row, session>>
      BY <1>1, <2>2
      DEF DecisionStep, ReadRow, ApproveRead, BulkApproveRead, RejectRead, MarkPaidRead, ReminderRead, RenameRead,
          UpdateParticipant, rowVars, sessVars
    <3> QED BY <3>1, RulesStutter
  <2> QED BY <2>1, <2>2
<1>2. ASSUME NEW r \in Requests, SubmitStep(r) PROVE Rules!Next \/ UNCHANGED Rules!vars
  <2>1. CASE \E p \in People, f \in Proofs : SubmitRead(r, p, f)
    BY <2>1, RulesStutter DEF SubmitRead, rowVars, sessVars
  <2> QED BY <1>2, <2>1, RulesSubmit DEF SubmitStep
<1>3. ASSUME NEW r \in Requests, Fail(r) PROVE UNCHANGED Rules!vars
  BY <1>3, RulesStutter DEF Fail, rowVars, sessVars
<1>4. CASE UNCHANGED vars
  BY <1>4, RulesStutter DEF vars, rowVars, sessVars
<1> QED BY <1>1, <1>2, <1>3, <1>4, RulesSession, RulesMember DEF Next

\* Requests served together move payments and the session only along the
\* transitions of the domain layer, as long as no row and no session is stored
\* from an outdated snapshot: the full-row UPDATEs are the only way out.
THEOREM LostUpdateIsTheOnlyWayOut == Spec => RulesUntilLostUpdate
<1>1. TypeOK /\ Justified /\ [Next]_vars =>
        [rowsLost' = {} /\ ~sessionLost' => Rules!Next \/ UNCHANGED Rules!vars]_vars
  BY RulesStep
<1> QED BY <1>1, TypeCorrect, SnapshotsJustified, PTL DEF Spec, RulesUntilLostUpdate

-----------------------------------------------------------------------------
\* Requests are served one at a time.
Serially == \A a, b \in Requests : a = b

\* Then nothing a request holds is ever outdated.
Fresh ==
  /\ rowsLost = {} /\ ~sessionLost
  /\ \A r \in Requests :
       /\ req[r].pc = "write" => row[req[r].who] = req[r].seen
       /\ req[r].pc = "save" => session = req[r].seen

LEMMA FreshNext ==
  ASSUME Serially, TypeOK, Fresh, [Next]_vars
  PROVE  Fresh'
<1> USE DEF Fresh, rowVars, sessVars
<1>1. ASSUME NEW r \in Requests, NEW q, GoTo(r, q)
      PROVE  \A x \in Requests : req'[x] = q
  BY <1>1 DEF GoTo, TypeOK, RequestsOK, Serially
<1>2. ASSUME NEW r \in Requests, NEW s \in Steps, GoTo(r, At(s)), rowsLost' = {}, ~sessionLost'
      PROVE  Fresh'
  <2>1. At(s).pc # "write" /\ At(s).pc # "save"
    BY DEF At, Steps
  <2> QED BY <1>1, <1>2, <2>1
<1>3. ASSUME NEW r \in Requests, DecisionStep(r) PROVE Fresh'
  <2>1. ASSUME NEW p \in People, NEW op, NEW o, ReadRow(r, p, op, o) PROVE Fresh'
    <3> DEFINE q == [pc |-> "write", op |-> op, who |-> p, seen |-> row[p], owes |-> o]
    <3>1. GoTo(r, q) /\ UNCHANGED <<row, session, rowsLost, sessionLost>>
      BY <2>1 DEF ReadRow
    <3>2. q.pc = "write" /\ row[q.who] = q.seen
      OBVIOUS
    <3> HIDE DEF q
    <3> QED BY <1>1, <3>1, <3>2
  <2>2. CASE ParticipantUpdate(r)
    <3>1. \E s \in Steps : GoTo(r, At(s))
      BY <2>2 DEF ParticipantUpdate, AfterUpdate, Steps
    <3>2. rowsLost' = {} /\ ~sessionLost'
      BY <2>2 DEF ParticipantUpdate
    <3> QED BY <1>2, <3>1, <3>2
  <2>3. CASE UpdateParticipant(r)
    BY <1>2, <2>3 DEF UpdateParticipant, Steps
  <2> QED BY <1>3, <2>1, <2>2, <2>3
        DEF DecisionStep, ApproveRead, BulkApproveRead, RejectRead, MarkPaidRead, ReminderRead, RenameRead
<1>4. ASSUME NEW r \in Requests, SubmitStep(r) PROVE Fresh'
  <2>1. ASSUME NEW p \in People, NEW f \in Proofs, SubmitRead(r, p, f) PROVE Fresh'
    <3> DEFINE q == [pc |-> "submit", who |-> p, proof |-> f]
    <3>1. GoTo(r, q) /\ UNCHANGED <<row, session, rowsLost, sessionLost>> /\ q.pc = "submit"
      BY <2>1 DEF SubmitRead
    <3> HIDE DEF q
    <3> QED BY <1>1, <3>1
  <2>2. CASE MarkSubmittedWithProof(r)
    BY <1>2, <2>2 DEF MarkSubmittedWithProof, Steps
  <2> QED BY <1>4, <2>1, <2>2 DEF SubmitStep
<1>5. ASSUME NEW r \in Requests, SessionStep(r) PROVE Fresh'
  <2>1. ASSUME NEW t, NEW n, ReadSession(r, t, n) PROVE Fresh'
    <3> DEFINE q == [pc |-> "save", seen |-> session, status |-> t, then |-> n]
    <3>1. GoTo(r, q) /\ UNCHANGED <<row, session, rowsLost, sessionLost>>
          /\ q.pc = "save" /\ q.seen = session
      BY <2>1 DEF ReadSession
    <3> HIDE DEF q
    <3> QED BY <1>1, <3>1
  <2>2. CASE CompleteIfAllPaid(r)
    BY <1>2, <2>2 DEF CompleteIfAllPaid, Steps
  <2>3. CASE SessionUpdate(r)
    <3>1. req[r].then \in Steps
      BY <2>3, RequestFields DEF SessionUpdate, Steps, TypeOK, RequestsOK
    <3>2. GoTo(r, At(req[r].then)) /\ rowsLost' = {} /\ ~sessionLost'
      BY <2>3 DEF SessionUpdate
    <3> QED BY <1>2, <3>1, <3>2
  <2> QED BY <1>5, <2>1, <2>2, <2>3
        DEF SessionStep, CancelSession, UpdateSession, UpdateBillItem, DeleteBillItem, CalculateSplits
<1>6. ASSUME NEW r \in Requests, MemberStep(r) PROVE Fresh'
  <2>1. ASSUME NEW p \in People, Create(r, p) PROVE Fresh'
    <3>1. \A x \in Requests : req[x].pc \in {"add", "import"}
      BY <2>1 DEF Create, Serially
    <3> QED BY <2>1, <3>1 DEF Create
  <2>2. CASE ~\E p \in People : Create(r, p)
    <3>1. (\E s \in Steps : GoTo(r, At(s))) /\ UNCHANGED <<rowsLost, sessionLost>>
      BY <1>6, <2>2
      DEF MemberStep, AddParticipants, ImportFromGroup, AddEnds, RemoveParticipant, Delete, Return, Steps
    <3> QED BY <1>2, <3>1
  <2> QED BY <2>1, <2>2
<1>7. ASSUME NEW r \in Requests, Fail(r) PROVE Fresh'
  BY <1>2, <1>7 DEF Fail, Steps
<1>8. CASE UNCHANGED vars
  BY <1>8 DEF vars
<1> QED BY <1>3, <1>4, <1>5, <1>6, <1>7, <1>8 DEF Next

\* Requests served one at a time implement the rules of the domain layer.
THEOREM SerialRequestsImplementRules == ASSUME Serially PROVE Spec => ImplementsRules
<1>1. Init => Fresh /\ Rules!Init
  BY DEF Init, Fresh, Rules!Init, At, Blank
<1>2. TypeOK /\ Fresh /\ [Next]_vars => Fresh'
  BY FreshNext, Serially
<1>3. TypeOK /\ Justified /\ Fresh' /\ [Next]_vars => [Rules!Next]_Rules!vars
  BY RulesStep DEF Fresh
<1> QED BY <1>1, <1>2, <1>3, TypeCorrect, SnapshotsJustified, PTL
      DEF Spec, ImplementsRules, Rules!Spec

-----------------------------------------------------------------------------
\* Participant p has nothing left to pay, or joined late, or was overwritten.
Settled(p) == row[p].status \in PaymentStatus => row[p].status = "paid" \/ p \in rowsLost \cup late

LEMMA CompletedNext ==
  ASSUME TypeOK, Justified, CompletedMeansPaid, [Next]_vars
  PROVE  CompletedMeansPaid'
<1> USE DEF rowVars, sessVars
<1> SUFFICES ASSUME session' = "completed", ~sessionLost', NEW p \in People
             PROVE  Settled(p)'
  BY DEF CompletedMeansPaid, Settled, Present
<1>1. session = "completed" /\ ~sessionLost => Settled(p)
  BY DEF CompletedMeansPaid, Settled, Present
<1>2. ASSUME NEW r \in Requests, DecisionStep(r) PROVE Settled(p)'
  <2>0. UNCHANGED <<session, sessionLost>>
    BY <1>2 DEF DecisionStep, ReadRow, ApproveRead, BulkApproveRead, RejectRead, MarkPaidRead, ReminderRead,
                RenameRead, UpdateParticipant, ParticipantUpdate
  <2>1. session = "completed" /\ ~sessionLost
    BY <2>0
  <2>2. CASE ParticipantUpdate(r) /\ req[r].who = p /\ row' # row
    <3> DEFINE w == req[r]
    <3>1. w.pc = "write" /\ w.op \in Ops /\ w.seen \in Row /\ p \in Present
      BY <2>2, RequestFields DEF ParticipantUpdate, TypeOK, RequestsOK
    <3>2. row'[p] = Decided(w.op, w.seen) /\ late' = late
      BY <2>2 DEF ParticipantUpdate, TypeOK
    <3>3. CASE row[p] # w.seen
      BY <2>2, <3>3 DEF ParticipantUpdate, Settled
    <3>4. CASE row[p] = w.seen /\ p \in rowsLost \cup late
      BY <2>2, <3>4 DEF ParticipantUpdate, Settled
    <3>5. CASE row[p] = w.seen /\ p \notin rowsLost \cup late
      <4>1. w.seen.status = "paid"
        BY <1>1, <2>1, <3>1, <3>5 DEF Settled, Present
      <4>2. w.op = "touch"
        BY <3>1, <4>1 DEF Justified, JustifiedState, Ops
      <4> QED BY <3>2, <4>1, <4>2 DEF Decided, Settled
    <3> QED BY <3>3, <3>4, <3>5
  <2>3. CASE ~(ParticipantUpdate(r) /\ req[r].who = p /\ row' # row)
    <3>1. row'[p] = row[p] /\ rowsLost \subseteq rowsLost' /\ late' = late
      BY <1>2, <2>3 DEF DecisionStep, ReadRow, ApproveRead, BulkApproveRead, RejectRead, MarkPaidRead,
                        ReminderRead, RenameRead, UpdateParticipant, ParticipantUpdate, TypeOK
    <3> QED BY <1>1, <2>1, <3>1 DEF Settled
  <2> QED BY <2>2, <2>3
<1>3. ASSUME NEW r \in Requests, SubmitStep(r) PROVE Settled(p)'
  <2>0. UNCHANGED <<session, sessionLost, rowsLost, late>>
    BY <1>3 DEF SubmitStep, SubmitRead, MarkSubmittedWithProof
  <2>1. session = "completed" /\ ~sessionLost
    BY <2>0
  <2>2. row'[p] = row[p] \/ row[p].status = "pending"
    BY <1>3 DEF SubmitStep, SubmitRead, MarkSubmittedWithProof, Claimed, TypeOK
  <2> QED BY <1>1, <2>0, <2>1, <2>2 DEF Settled, PaymentStatus
<1>4. ASSUME NEW r \in Requests, SessionStep(r) PROVE Settled(p)'
  <2>1. UNCHANGED <<row, rowsLost, late>>
    BY <1>4 DEF SessionStep, CompleteIfAllPaid, ReadSession, CancelSession, UpdateSession,
                UpdateBillItem, DeleteBillItem, CalculateSplits, SessionUpdate
  <2>2. CASE session = "completed" /\ ~sessionLost
    BY <1>1, <2>1, <2>2 DEF Settled
  <2>3. CASE ~(session = "completed" /\ ~sessionLost)
    <3>1. sessionLost => sessionLost'
      BY <1>4 DEF SessionStep, CompleteIfAllPaid, ReadSession, CancelSession, UpdateSession,
                  UpdateBillItem, DeleteBillItem, CalculateSplits, SessionUpdate
    <3>2. ~SessionUpdate(r)
      BY <2>3, <3>1 DEF SessionUpdate, Justified, JustifiedState
    <3>3. CompleteIfAllPaid(r) /\ Completable
      BY <1>4, <2>3, <3>1, <3>2
      DEF SessionStep, CompleteIfAllPaid, ReadSession, CancelSession, UpdateSession,
          UpdateBillItem, DeleteBillItem, CalculateSplits
    <3> QED BY <2>1, <3>3 DEF Completable, AllPaid, Present, Settled
  <2> QED BY <2>2, <2>3
<1>5. ASSUME NEW r \in Requests, MemberStep(r) PROVE Settled(p)'
  <2>1. session = "completed" /\ ~sessionLost
    BY <1>5 DEF MemberStep, AddParticipants, ImportFromGroup, AddEnds, RemoveParticipant,
                Create, Delete, Return
  <2>2. CASE \E x \in People : Create(r, x) \/ Delete(r, x)
    <3>1. PICK x \in People : Create(r, x) \/ Delete(r, x)
      BY <2>2
    <3>2. rowsLost' = rowsLost /\ late \subseteq late'
      BY <3>1 DEF Create, Delete
    <3>3. CASE x # p
      <4>1. row'[p] = row[p]
        BY <3>1, <3>3 DEF Create, Delete, TypeOK
      <4> QED BY <1>1, <2>1, <3>2, <4>1 DEF Settled
    <3>4. CASE x = p /\ Create(r, p)
      BY <2>1, <3>4 DEF Create, Settled
    <3>5. CASE x = p /\ Delete(r, p)
      BY <3>5 DEF Delete, Settled, Blank, TypeOK, PaymentStatus
    <3> QED BY <3>1, <3>3, <3>4, <3>5
  <2>3. CASE ~\E x \in People : Create(r, x) \/ Delete(r, x)
    <3>1. UNCHANGED <<row, rowsLost, late>>
      BY <1>5, <2>3 DEF MemberStep, AddParticipants, ImportFromGroup, AddEnds,
                        RemoveParticipant, Return
    <3> QED BY <1>1, <2>1, <3>1 DEF Settled
  <2> QED BY <2>2, <2>3
<1>6. ASSUME UNCHANGED <<row, rowsLost, late, session, sessionLost>> PROVE Settled(p)'
  BY <1>1, <1>6 DEF Settled
<1>7. ASSUME NEW r \in Requests, Fail(r) PROVE Settled(p)'
  BY <1>6, <1>7 DEF Fail
<1>8. CASE UNCHANGED vars
  BY <1>6, <1>8 DEF vars
<1> QED BY <1>2, <1>3, <1>4, <1>5, <1>7, <1>8 DEF Next

\* A completed session has nobody left to pay but late joiners and rows that an
\* outdated snapshot overwrote, whatever the requests were doing when
\* CompleteIfAllPaid looked.
THEOREM CompletedIsPaid == Spec => []CompletedMeansPaid
<1>1. Init => CompletedMeansPaid
  BY DEF Init, CompletedMeansPaid
<1>2. TypeOK /\ Justified /\ CompletedMeansPaid /\ [Next]_vars => CompletedMeansPaid'
  BY CompletedNext
<1> QED BY <1>1, <1>2, TypeCorrect, SnapshotsJustified, PTL DEF Spec

=====
